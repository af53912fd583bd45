----------------------------- MODULE MCRoutines -----------------------------
(* Parts that others are built on, one in each behaviour: the sort of the  *)
(* page stack, the C library, the entry of interrupts, message-signalled   *)
(* interrupts and the heap.                                                *)
EXTENDS Heap, RingSort, IntrFrame, Sequences, FiniteSets

CONSTANTS
  Devices, Bases                          \* of Msi

VARIABLES
  part,
  arg,       \* what the C library is called with: a memory and a number
  device, msistep, msix, cnt, messages, memory, ret

Lib == INSTANCE CLibrary
Pci == INSTANCE Msi

sortvars  == <<data, calls, input, window>>
entryvars == <<cpu, stack, step, vector, int_no, running, saved, own>>
msivars   == <<device, msistep, msix, cnt, messages, memory, ret>>

(* Seven bytes with a zero at the end hold strings that overlap and repeat *)
(* themselves; the empty memory of three words of 8 bytes is for memset.   *)
Memories == {[a \in 0 .. 6 |-> IF a < 6 THEN f[a] ELSE 0] : f \in [0 .. 5 -> 0 .. 2]}
Blank    == [a \in 0 .. 23 |-> 0]

(* Integers of nine bits.                                                  *)
Width == 9
Args  == {[mem |-> m, num |-> 0] : m \in Memories \cup {Blank}}
           \cup {[mem |-> [a \in {0} |-> 0], num |-> v] : v \in -2^(Width - 1) .. 2^(Width - 1) - 1}

(* Up to four messages, through registers or a table behind a 32-bit or a  *)
(* 64-bit BAR; both capabilities in either order; and none.                *)
MsiCap(requested) ==
  [id |-> "msi", requested |-> requested, avail |-> 0, enable |-> FALSE,
   msg |-> [core |-> 0, vector |-> 0]]
MsixCap(size, bir, offset) ==
  [id |-> "msix", table_sz |-> size - 1, bir |-> bir, offset |-> offset, enable |-> FALSE]
Other == [id |-> "other"]

Bars == <<32, 64 + 12, 7, 1, 96 + 4, 9>>

SomeDevices ==
  {[caps |-> caps, bars |-> Bars, table |-> <<0, 0, 0>>] :
     caps \in {<< >>, <<Other>>, <<Other, MsiCap(0)>>, <<MsiCap(1), Other>>, <<MsiCap(2)>>}}
  \cup {[caps |-> caps, bars |-> Bars, table |-> <<64, 7, 16>>] :
     caps \in {<<MsixCap(3, 1, 2)>>, <<MsiCap(2), MsixCap(3, 1, 2)>>, <<MsixCap(3, 1, 2), MsiCap(2)>>}}
  \cup {[caps |-> <<Other, MsixCap(2, 0, 1)>>, bars |-> Bars, table |-> <<32, 0, 8>>],
        [caps |-> <<Other, MsixCap(1, 4, 0)>>, bars |-> Bars, table |-> <<96, 9, 0>>]}

(* The parts that are not at work have nothing to do.                      *)
NoSort ==
  /\ data = [s \in 0 .. Sz - 1 |-> 0]
  /\ input = data /\ calls = << >> /\ window = <<0, 0>>

NoArg == [mem |-> [a \in {0} |-> 0], num |-> 0]

MCInit ==
  /\ part \in {"sort", "library", "entry", "msi", "heap"}
  /\ Init
  /\ Entry!Init
  /\ Pci!Init
  /\ part # "msi" => device = CHOOSE d \in Devices : TRUE
  /\ \/ part = "sort" /\ Sort!Init /\ arg = NoArg
     \/ part = "library" /\ NoSort /\ arg \in Args
     \/ part \in {"entry", "msi", "heap"} /\ NoSort /\ arg = NoArg

MCNext ==
  /\ UNCHANGED <<part, arg>>
  /\ \/ part = "sort" /\ Sort!Next /\ UNCHANGED <<hvars, entryvars, msivars>>
     \/ part = "entry" /\ Entry!Next /\ UNCHANGED <<hvars, sortvars, msivars>>
     \/ part = "msi" /\ Pci!Next /\ UNCHANGED <<hvars, sortvars, entryvars>>
     \/ part = "heap" /\ Next /\ UNCHANGED <<sortvars, entryvars, msivars>>

MCSpec ==
  /\ MCInit /\ [][MCNext]_<<part, arg, hvars, sortvars, entryvars, msivars>>
  /\ WF_sortvars(part = "sort" /\ Sort!Next
                   /\ UNCHANGED <<part, arg, hvars, entryvars, msivars>>)

Terminates == Sort!Terminates
MsiRouted  == Pci!MsiRouted

(* The functions of the C library do what the C standard says, on strings  *)
(* and blocks that overlap, on every number and in every base.             *)
LibraryRight ==
  part = "library" =>
    /\ Lib!MemoryRight(arg.mem) /\ Lib!StringsRight(arg.mem)
    /\ Lib!NumbersRight(arg.num, Width)

=============================================================================
