------------------------------ MODULE IntrEntry ------------------------------
(***************************************************************************)
(* The way into and out of an interrupt on one core: the stub of its       *)
(* vector, idt_defaulthandler and idt_mainhandler of                       *)
(* kernel/src/interrupts/idt.c, with a handler that may change threads     *)
(* through the accessors of the saved registers (smp_platform_getstate,    *)
(* smp_platform_setstate).  Every word on the stack is a number; the top   *)
(* of the stack is the last one.                                           *)
(***************************************************************************)
EXTENDS Integers, Sequences, SequencesExt

CONSTANTS
  Raised,   \* the vectors that are raised; the exceptions for unaligned data
            \* and for control flow (17, 21, 29, 30) are never enabled
  Thread    \* the threads, 0 being the one that booted

(* Vectors are bytes.                                                      *)
Possible == Raised \subseteq 0 .. 255 \ {17, 21, 29, 30} /\ Thread \subseteq Nat /\ 0 \in Thread

VARIABLES
  cpu,          \* the registers
  stack, step,
  vector,       \* the vector that was raised
  int_no,       \* the vector the handlers were called for
  running,      \* the thread that runs, or will when the interrupt is over
  saved,        \* the states the handler has put away
  own           \* history: each thread's registers when it last ran

evars == <<cpu, stack, step, vector, int_no, running, saved, own>>

General == <<"rax", "rbx", "rcx", "rdx", "rbp", "rsi", "rdi", "r8", "r9", "r10", "r11",
             "r12", "r13", "r14", "r15">>
Frame   == <<"ss", "rsp", "rflags", "cs", "rip">>
Register == ToSet(General \o Frame)

(* regs_t, from the top of the stack; int_no is the 17th word.             *)
Regs == <<"top", "r15", "r14", "r13", "r12", "r11", "r10", "r9", "r8", "rdi", "rsi", "rbp",
          "rdx", "rcx", "rbx", "rax", "int_no", "err_code", "rip", "cs", "rflags", "rsp", "ss">>

(* smp_platform_getdefaultstate of a thread with its own stack and entry.  *)
DefaultState(t) ==
  [r \in Register |->
     CASE r \in {"rsp", "rbp"} -> 1000 + t
       [] r = "rip" -> 2000 + t
       [] r = "rdi" -> 3000 + t
       [] r = "cs" -> 8
       [] r = "ss" -> 16
       [] r = "rflags" -> 512
       [] OTHER -> 0]

(* What a thread's registers hold when it is interrupted.                  *)
Working(t, g) ==
  [r \in Register |->
     100 * (2 * t + g + 50) + CHOOSE i \in 1 .. 20 : (General \o Frame)[i] = r]

Clobbered == [r \in Register |-> -1000]

Init ==
  /\ running = 0 /\ step = "run"
  /\ own = [t \in Thread |-> IF t = 0 THEN Working(0, 0) ELSE DefaultState(t)]
  /\ saved = [t \in Thread |-> DefaultState(t)]
  /\ cpu = own[0]
  /\ stack = << >> /\ vector = 0 /\ int_no = 0

(* The processor pushes an error code for some of its exceptions.          *)
WithErrorCode == {8, 10, 11, 12, 13, 14, 17, 21, 29, 30}

Raise(v, g) ==
  /\ step = "run" /\ step' = "stub"
  /\ vector' = v
  /\ LET now == Working(running, g)
     IN  /\ cpu' = now
         /\ own' = [own EXCEPT ![running] = now]
         /\ stack' = [i \in 1 .. Len(Frame) |-> now[Frame[i]]]
                     \o IF v \in WithErrorCode THEN <<77>> ELSE <<>>
  /\ UNCHANGED <<int_no, running, saved>>

(* The stubs are filled in once, each pushing the dummy error code that    *)
(* its processor exception lacks.  Pushing a byte extends its sign.        *)
PushesDummy(v) == ~(v = 8 \/ v \in 10 .. 14)
Extended(b) == IF b > 127 THEN b - 256 ELSE b

Stub ==
  /\ step = "stub" /\ step' = "save"
  /\ stack' = stack \o (IF PushesDummy(vector) THEN <<1>> ELSE <<>>)
                    \o <<Extended(vector), cpu["rax"]>>
  /\ cpu' = [cpu EXCEPT !["rax"] = -1000]
  /\ UNCHANGED <<vector, int_no, running, saved, own>>

Pushed == <<"rbx", "rcx", "rdx", "rbp", "rsi", "rdi", "r8", "r9", "r10", "r11", "r12", "r13",
            "r14", "r15">>

(* The last word is the address of the one before.                         *)
Save ==
  /\ step = "save" /\ step' = "main"
  /\ stack' = stack \o [i \in 1 .. Len(Pushed) |-> cpu[Pushed[i]]] \o <<0>>
  /\ UNCHANGED <<cpu, vector, int_no, running, saved, own>>

(* A word of regs_t, and where on the stack it is.                         *)
At(field) == Len(stack) + 1 - CHOOSE i \in 1 .. Len(Regs) : Regs[i] = field

GetRegisterState == [r \in Register |-> stack[At(r)]]

SetRegisterState(words, state) ==
  [i \in DOMAIN words |->
     IF \E r \in Register : At(r) = i THEN state[CHOOSE r \in Register : At(r) = i] ELSE words[i]]

(* Mutant of Vector: the number is used as it was pushed.                  *)
Vector_Unmasked(word) == word

Vector(word) == word % 256

(* Being C, idt_mainhandler leaves nothing in the registers.               *)
MainHandler(next) ==
  /\ step = "main" /\ step' = "restore"
  /\ int_no' = Vector(stack[At("int_no")])
  /\ LET words == [stack EXCEPT ![At("int_no")] = int_no']
     IN  IF next = running
           THEN stack' = words /\ UNCHANGED saved
           ELSE /\ saved' = [saved EXCEPT ![running] = GetRegisterState]
                /\ stack' = SetRegisterState(words, saved[next])
  /\ running' = next
  /\ cpu' = Clobbered
  /\ UNCHANGED <<vector, own>>

Popped == <<"rdi", "r15", "r14", "r13", "r12", "r11", "r10", "r9", "r8", "rdi", "rsi", "rbp",
            "rdx", "rcx", "rbx", "rax">>

(* The pops, the skipping of the vector and the error code, and iretq,     *)
(* which takes what is on top then: the stack is empty again only if the   *)
(* error code was there.                                                   *)
Restore ==
  LET n     == Len(stack)
      order == Popped \o <<"skip", "skip">> \o Reverse(Frame)
      last(r) == CHOOSE i \in 1 .. Len(order) :
                   order[i] = r /\ \A j \in i + 1 .. Len(order) : order[j] # r
  IN  /\ step = "restore" /\ step' = "run"
      /\ cpu' = [r \in Register |-> stack[n + 1 - last(r)]]
      /\ stack' = SubSeq(stack, 1, n - Len(order))
      /\ UNCHANGED <<vector, int_no, running, saved, own>>

Next ==
  \/ \E v \in Raised, g \in {0, 1} : Raise(v, g)
  \/ Stub \/ Save
  \/ \E t \in Thread : MainHandler(t)
  \/ Restore

Spec == Init /\ [][Next]_evars

-----------------------------------------------------------------------------
(* Whatever interrupts a thread, with or without an error code and with    *)
(* whatever thread changes in between, the handlers are called for the     *)
(* vector that was raised, and the thread goes on with every register as   *)
(* it was, on the stack that it had.                                       *)
FrameRestored ==
  /\ step = "restore" => int_no = vector
  /\ step = "run" => cpu = own[running] /\ stack = << >>

=============================================================================
