-------------------------------- MODULE Pci --------------------------------
(***************************************************************************)
(* pci_reg_init of kernel/src/pci.c: the bootstrap processor walks every   *)
(* bus twice, first to count the functions that are there, then to write   *)
(* them down in an array of that size, with the address of their           *)
(* configuration space.                                                    *)
(*                                                                         *)
(* A bus and a device number make a slot, bus * DevicesPerBus + device,    *)
(* and a slot and a function a place: the walk goes through the places in  *)
(* order.                                                                  *)
(***************************************************************************)
EXTENDS Acpi, FiniteSets

CONSTANTS
  Buses,        \* what may be plugged in: sets of functions, records
                \* [slot, fn, vendor, id, multi]
  LastSlot,     \* the last device of the last bus
  DevicesPerBus, FunctionsPerDevice,
  Rsdps,        \* the root pointers that may be found (Acpi); the body of an
                \* MCFG is a sequence of [base, first, last], base in the
                \* pages of 4 KiB that a configuration space takes
  Absent        \* what is read where no function is, and what is in memory
                \* nobody has written

VARIABLES
  hw,           \* what is plugged in
  rsdp,         \* what the firmware left
  phase,        \* "boot", "count", "store", "listed"; or "fault"
  Mcfg,         \* the MCFG that was found
  cursor,       \* the place the walk goes on at
  idx, device_count,
  device_set    \* the array; its last index is the memory behind it

pci == <<hw, rsdp, phase, Mcfg, cursor, idx, device_count, device_set>>

PciInit ==
  /\ hw \in Buses /\ rsdp \in Rsdps
  /\ phase = "boot" /\ Mcfg = <<>> /\ cursor = 0
  /\ idx = 0 /\ device_count = 0 /\ device_set = <<>>

Fn(s, f) ==
  LET here == {r \in hw : r.slot = s /\ r.fn = f}
  IN  IF here = {} THEN Absent ELSE CHOOSE r \in here : TRUE

At(p) == Fn(p \div FunctionsPerDevice, p % FunctionsPerDevice)

LastPlace == (LastSlot + 1) * FunctionsPerDevice - 1

(* pci_get_func_count                                                      *)
FuncCount(s) == IF Fn(s, 0).multi THEN FunctionsPerDevice ELSE 1

(* The loops of pci_reg_init around pci_get_next_device: a device without  *)
(* a function 0 is not seen.                                               *)
Visited(p) ==
  LET s == p \div FunctionsPerDevice
  IN  Fn(s, 0) # Absent /\ p % FunctionsPerDevice < FuncCount(s)

Ahead == {p \in cursor .. LastPlace : Visited(p)}
Place == Min(Ahead)

One(r) == IF r = Absent THEN 0 ELSE 1

(* Nobody looks whether there is an MCFG.  Behind NULL or -1 its length is *)
(* read from page 0, which is not mapped: the page fault handler halts.    *)
StartWalk ==
  LET mcfg == FindTable(rsdp, "MCFG")
  IN  /\ phase = "boot" /\ phase' = IF mcfg \in {Missing, Invalid} THEN "fault" ELSE "count"
      /\ Mcfg' = mcfg.body
      /\ UNCHANGED <<hw, rsdp, cursor, idx, device_count, device_set>>

CountFunction ==
  /\ phase = "count" /\ Ahead # {}
  /\ device_count' = device_count + One(At(Place))
  /\ cursor' = Place + 1
  /\ UNCHANGED <<hw, rsdp, phase, Mcfg, idx, device_set>>

CountDone ==
  /\ phase = "count" /\ Ahead = {}
  /\ phase' = "store" /\ cursor' = 0
  /\ device_set' = [i \in 0 .. device_count |-> Absent]
  /\ UNCHANGED <<hw, rsdp, Mcfg, idx, device_count>>

(* The place of a function in the configuration space of an MCFG entry.    *)
InSpace(e, s, f) ==
  e.base + ((s \div DevicesPerBus - e.first) * DevicesPerBus + (s % DevicesPerBus))
             * FunctionsPerDevice + f

Covering(s) ==
  {i \in DOMAIN Mcfg : s \div DevicesPerBus \in Mcfg[i].first .. Mcfg[i].last}

(* Mutant of Ecam: the entry's first bus is not taken off.                 *)
Ecam_FromBusZero(s, f) ==
  IF Covering(s) = {} THEN Absent
  ELSE InSpace([Mcfg[Min(Covering(s))] EXCEPT !.first = 0], s, f)

(* The first entry of the MCFG that covers the bus.                        *)
Ecam(s, f) ==
  IF Covering(s) = {} THEN Absent ELSE InSpace(Mcfg[Min(Covering(s))], s, f)

Entry(r) ==
  IF r = Absent THEN Absent
  ELSE [slot |-> r.slot, fn |-> r.fn, vendor |-> r.vendor, id |-> r.id,
        ecam_addr |-> Ecam(r.slot, r.fn)]

(* An absent function is written to the place of the next one before it is *)
(* recognised, so the last ones of the last device go behind the array.    *)
StoreFunction ==
  /\ phase = "store" /\ Ahead # {}
  /\ device_set' = [device_set EXCEPT ![idx] = Entry(At(Place))]
  /\ idx' = idx + One(At(Place))
  /\ cursor' = Place + 1
  /\ UNCHANGED <<hw, rsdp, phase, Mcfg, device_count>>

StoreDone ==
  /\ phase = "store" /\ Ahead = {}
  /\ phase' = "listed"
  /\ UNCHANGED <<hw, rsdp, Mcfg, cursor, idx, device_count, device_set>>

PciNext == StartWalk \/ CountFunction \/ CountDone \/ StoreFunction \/ StoreDone

-----------------------------------------------------------------------------
(* What a reader of the ACPI specification looks for in the tables.        *)
Announced(s, f) ==
  LET root   == IF rsdp.revision # 0 /\ rsdp.xsdt # Missing THEN rsdp.xsdt ELSE rsdp.rsdt
      intact == {i \in DOMAIN root.body : root.body[i].sig = "MCFG" /\ root.body[i].good}
      first  == {i \in intact : \A j \in intact : i <= j}
      bus    == s \div DevicesPerBus
  IN  {InSpace(e, s, f) : e \in {x \in UNION {ToSet(root.body[i].body) : i \in first} :
                                   x.first <= bus /\ bus <= x.last}}

(* The list that drivers search holds every function of every device       *)
(* exactly once and nothing else, although the two walks of pci_reg_init   *)
(* must agree on its length and the second writes before it looks; and     *)
(* each function has the configuration space that the first intact MCFG    *)
(* announces for it, which no other function has.  Without an MCFG there   *)
(* is no list to speak of: the boot ends in StartWalk.                     *)
PciListed ==
  phase = "listed" =>
    LET list  == 0 .. device_count - 1
        there == {r \in hw : Fn(r.slot, 0) # Absent /\ r.fn < FuncCount(r.slot)}
        d(i)  == device_set[i]
    IN  /\ idx = device_count
        /\ {<<d(i).slot, d(i).fn, d(i).vendor, d(i).id>> : i \in list}
             = {<<r.slot, r.fn, r.vendor, r.id>> : r \in there}
        /\ \A i, j \in list : i # j => <<d(i).slot, d(i).fn>> # <<d(j).slot, d(j).fn>>
        /\ \A i \in list :
             IF Announced(d(i).slot, d(i).fn) = {} THEN d(i).ecam_addr = Absent
             ELSE d(i).ecam_addr \in Announced(d(i).slot, d(i).fn)
        /\ \A i, j \in list :
             i # j /\ d(i).ecam_addr # Absent => d(i).ecam_addr # d(j).ecam_addr

-----------------------------------------------------------------------------
(* What it rests on: either walk has seen what lies before the cursor, and *)
(* the functions of one walk are those of the other.                       *)
Seen(q) == {p \in 0 .. q - 1 : Visited(p) /\ At(p) # Absent}

PciType ==
  /\ hw \in Buses /\ rsdp \in Rsdps
  /\ phase \in {"boot", "count", "store", "listed", "fault"}
  /\ {cursor, idx, device_count} \subseteq Nat /\ cursor <= LastPlace + 1
  /\ phase = "boot" => cursor = 0 /\ device_count = 0
  /\ phase \in {"boot", "count"} => idx = 0
  /\ phase \in {"count", "store", "listed"} =>
       Mcfg = FindTable(rsdp, "MCFG").body
         /\ FindTable(rsdp, "MCFG") \notin {Missing, Invalid}

Stored ==
  /\ idx = Cardinality(Seen(cursor))
  /\ \A p \in Seen(cursor) : \E i \in 0 .. idx - 1 : device_set[i] = Entry(At(p))
  /\ \A i \in 0 .. idx - 1 : \E p \in Seen(cursor) : device_set[i] = Entry(At(p))
  /\ \A i, j \in 0 .. idx - 1 : \A p \in Seen(cursor) :
       device_set[i] = Entry(At(p)) /\ device_set[j] = Entry(At(p)) => i = j

PciInv ==
  /\ PciType
  /\ phase = "count" => device_count = Cardinality(Seen(cursor))
  /\ phase \in {"store", "listed"} =>
       /\ device_count = Cardinality(Seen(LastPlace + 1))
       /\ DOMAIN device_set = 0 .. device_count
       /\ Stored
  /\ phase = "listed" => Ahead = {}

=============================================================================
