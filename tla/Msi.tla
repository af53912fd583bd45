--------------------------------- MODULE Msi ---------------------------------
(***************************************************************************)
(* Message-signalled interrupts: a driver asks a device what it can do     *)
(* (pci_getmsiinfo), reserves vectors, and programs one message for each   *)
(* (pci_setmsiinfo of kernel/src/pci.c, msi_register_addr and              *)
(* msi_register_data of kernel/src/interrupts/acpi_init.c); then the       *)
(* device sends them.                                                      *)
(***************************************************************************)
EXTENDS Integers, Sequences, SequencesExt

CONSTANTS
  Devices,   \* records [caps, bars, table]: the capabilities in the order of
             \* their list, the six BARs as they are read, and where the
             \* device keeps its MSI-X table: <<low, high, offset>>
  Bases      \* the first vectors that interrupt_allocate may return

VARIABLES
  device,
  msistep,       \* "ask", "set", "send"
  msix, cnt,     \* what pci_getmsiinfo told
  messages,      \* what the driver wants: for each vector [core, vector]
  memory,        \* what was written to a table: [at, entries]
  ret

msivars == <<device, msistep, msix, cnt, messages, memory, ret>>

NoTable == [at |-> <<0, 0, 0>>, entries |-> <<>>]

Init ==
  /\ device \in Devices
  /\ msistep = "ask" /\ msix = -1 /\ cnt = 0
  /\ messages = <<>> /\ memory = NoTable /\ ret = 0

Caps(id) == {i \in DOMAIN device.caps : device.caps[i].id = id}

(* MSI-X wins, but the count is that of the last capability of the list.   *)
AskedCount ==
  FoldLeft(LAMBDA n, c : CASE c.id = "msi"  -> 2^c.requested
                           [] c.id = "msix" -> c.table_sz + 1
                           [] OTHER         -> n,
           0, device.caps)

GetMsiInfo ==
  /\ msistep = "ask" /\ msistep' = "set"
  /\ msix' = IF Caps("msix") # {} THEN 1 ELSE IF Caps("msi") # {} THEN 0 ELSE -1
  /\ cnt' = AskedCount
  /\ UNCHANGED <<device, messages, memory, ret>>

Message(core, vector) == [core |-> core % 256, vector |-> vector % 256]

(* The address of a BAR: the last one decoded up to the index, a 64-bit    *)
(* one with the register behind it.                                        *)
BarAddress(bir) ==
  FoldLeft(LAMBDA at, i :
             LET bar == device.bars[i + 1]
             IN  CASE (bar \div 2) % 4 = 2 -> <<(bar \div 16) * 16, device.bars[i + 2]>>
                   [] (bar \div 2) % 4 = 0 -> <<(bar \div 16) * 16, 0>>
                   [] OTHER -> at,
           <<0, 0>>, [i \in 1 .. bir + 1 |-> i - 1])

(* Mutant of CodedVectors: the count itself.                               *)
CodedVectors_Count(n) == n

(* The highest bit of the count.                                           *)
CodedVectors(n) == CHOOSE i \in 0 .. 30 : 2^i <= n /\ n < 2^(i + 1)

(* The driver either wants a vector for each message or one for all.  A    *)
(* device with plain MSI numbers its messages in the low bits of the       *)
(* vector: the reservation must be aligned, which interrupt_allocate does  *)
(* not see to.  pci_setmsiinfo refuses an MSI-X table of another size, and *)
(* leaves the device alone then.                                           *)
SetMsiInfo(base, n) ==
  /\ msistep = "set" /\ msix >= 0 /\ msistep' = "send"
  /\ n \in {1, cnt} /\ (msix = 0 => base % n = 0)
  /\ messages' = [i \in 1 .. n |-> Message(IF msix = 1 THEN i ELSE 0, base + i - 1)]
  /\ LET refused == msix = 1 /\ n # 1 /\
                    \E i \in Caps("msix") : device.caps[i].table_sz + 1 # n
         set(c) ==
           CASE c.id = "msi" /\ msix = 0 ->
                  [c EXCEPT !.msg = messages'[1], !.avail = CodedVectors(n), !.enable = TRUE]
             [] c.id = "msix" /\ msix = 1 -> [c EXCEPT !.enable = TRUE]
             [] OTHER -> c
     IN  IF refused THEN ret' = -1 /\ UNCHANGED <<device, memory>>
         ELSE /\ ret' = 0
              /\ device' = [device EXCEPT !.caps = [i \in DOMAIN @ |-> set(@[i])]]
              /\ memory' =
                   IF msix = 0 THEN memory
                   ELSE LET c == device.caps[CHOOSE i \in Caps("msix") : TRUE]
                        IN  [at |-> Append(BarAddress(c.bir), c.offset * 8),
                             entries |-> [i \in 1 .. c.table_sz + 1 |->
                                            messages'[IF n = 1 THEN 1 ELSE i]]]
  /\ UNCHANGED <<msix, cnt>>

Next == GetMsiInfo \/ \E base \in Bases, n \in {1, cnt} : SetMsiInfo(base, n)

-----------------------------------------------------------------------------
(* The message k, from 0, that the device sends through a capability.      *)
Sent(c, k) ==
  IF c.id = "msix" THEN memory.entries[k + 1]
  ELSE [c.msg EXCEPT !.vector = (@ \div 2^c.avail) * 2^c.avail + (k % 2^c.avail)]

(* Each message of a device that was programmed arrives at the core and    *)
(* under the vector that the driver chose for it, through exactly one      *)
(* capability, whose table is where the device looks for it; and a device  *)
(* whose table has another size than was told is not enabled at all.       *)
MsiRouted ==
  msistep = "send" =>
    LET on == {i \in DOMAIN device.caps : device.caps[i].id # "other" /\ device.caps[i].enable}
    IN  IF ret # 0 THEN on = {}
        ELSE \E i \in on :
               LET c == device.caps[i]
               IN  /\ on = {i}
                   /\ c.id = "msix" => memory.at = device.table
                   /\ \A k \in 0 .. (IF c.id = "msix" THEN c.table_sz ELSE 2^c.requested - 1) :
                        Sent(c, k) = messages[IF Len(messages) = 1 THEN 1 ELSE k + 1]

=============================================================================
