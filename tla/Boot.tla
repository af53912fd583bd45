-------------------------------- MODULE Boot --------------------------------
(***************************************************************************)
(* What the bootstrap processor does with the tables that it finds, in the *)
(* order of main and setup_core (kernel/src/main.c): the memory map        *)
(* (BootInfo), the I/O APICs (IoApic) and single interrupt lines, then the *)
(* PCI devices (Pci) and the graphics driver (Igfx).                       *)
(***************************************************************************)
EXTENDS Integers, Sequences

CONSTANTS
  MemoryMaps, Available, LowEnd, KernelStart, KernelEnd, BtmLevel,
  Madts, Vectors, FirstVector,
  Lines,        \* lines that drivers map
  Buses, LastSlot, DevicesPerBus, FunctionsPerDevice, Rsdps, Absent,
  Intel, IgfxIds, Monitors, NoMonitor, Chunks, MaxPlugs

VARIABLES
  mmap, entry, MemoryMap, MemoryMapCount, MemorySize, freed,
  madt, lapic_data, ioapic_data, isaovrs, redirection, ready,
  asked,        \* history: what was last asked of each line of
                \* the first I/O APIC
  hw, rsdp, phase, Mcfg, cursor, idx, device_count, device_set,
  igfx, gfx, plugged, plugs, seen, answering, read, connected, edid, port, pipe

B == INSTANCE BootInfo
I == INSTANCE IoApic
D == INSTANCE Igfx

memory  == <<mmap, entry, MemoryMap, MemoryMapCount, MemorySize, freed>>
lines   == <<madt, lapic_data, ioapic_data, isaovrs, redirection, ready>>
devices == <<hw, rsdp, phase, Mcfg, cursor, idx, device_count, device_set, igfx, gfx, plugged,
             plugs, seen, answering, read, connected, edid, port, pipe>>
vars    == <<memory, lines, asked, devices>>

(* What ioapic_init leaves a line at, until a driver changes it: the table *)
(* of the processor's ISA overrides read as its specification means it.    *)
Overrides(l) == {i \in DOMAIN madt : madt[i].kind = "isaovr" /\ madt[i].gsi = l}
Initially(l) ==
  IF Overrides(l) = {}
    THEN [vector |-> l + FirstVector, low |-> FALSE, level |-> FALSE, masked |-> TRUE]
    ELSE LET o == madt[CHOOSE i \in Overrides(l) : \A j \in Overrides(l) : j <= i]
         IN  [vector |-> o.irq + FirstVector, low |-> o.low, level |-> o.level,
              masked |-> TRUE]

(* Regions begin and end on pages and do not overlap; the kernel begins in *)
(* what is reserved, or behind it at once.                                 *)
ASSUME MapsAssumption ==
  /\ {LowEnd, KernelStart, KernelEnd} \subseteq Nat /\ BtmLevel \in Nat \ {0}
  /\ KernelStart <= LowEnd
  /\ \A m \in MemoryMaps :
       /\ m \in Seq([addr : Nat, len : Nat, type : Nat])
       /\ \A i, j \in DOMAIN m :
            /\ m[i].addr % BtmLevel = 0 /\ m[i].len % BtmLevel = 0
            /\ i # j => \/ m[i].addr + m[i].len <= m[j].addr
                        \/ m[j].addr + m[j].len <= m[i].addr

(* Functions are where the walk looks, one at each place; MCFG entries     *)
(* leave the configuration spaces of the others alone.                     *)
SpaceOf(e) == (e.last - e.first + 1) * DevicesPerBus * FunctionsPerDevice

ASSUME PciAssumption ==
  /\ LastSlot \in Nat /\ {DevicesPerBus, FunctionsPerDevice} \subseteq Nat \ {0}
  /\ \A bus \in Buses : \A r \in bus :
       /\ {r.slot, r.fn} \subseteq Nat /\ r.slot <= LastSlot
       /\ r.fn < FunctionsPerDevice /\ r # Absent
       /\ \A q \in bus : q.slot = r.slot /\ q.fn = r.fn => q = r
  /\ \A x \in Rsdps :
       LET body == D!FindTable(x, "MCFG").body
       IN  /\ DOMAIN x.rsdt.body \cup DOMAIN x.xsdt.body \cup DOMAIN body \subseteq Nat
           /\ \A i, j \in DOMAIN body :
                /\ {body[i].base, body[i].first, body[i].last} \subseteq Nat
                /\ body[i].first <= body[i].last
                /\ i # j => \/ body[i].base + SpaceOf(body[i]) <= body[j].base
                            \/ body[j].base + SpaceOf(body[j]) <= body[i].base

Init ==
  /\ B!Init /\ I!Init /\ D!Init
  /\ asked = [l \in Lines |-> Initially(l)]

SetBootInfo ==
  /\ B!CopyEntry \/ B!CopyDone
  /\ UNCHANGED <<lines, asked, devices>>

PmemInit ==
  /\ B!FreeRegions
  /\ UNCHANGED <<lines, asked, devices>>

(* Without a MADT this is the end of the boot: a PANIC for NULL, with      *)
(* interrupts still off, and a page fault for -1, which is not NULL.       *)
AcpiIntrInit ==
  /\ freed # <<>>
  /\ D!FindTable(rsdp, "APIC") \notin {D!Missing, D!Invalid}
  /\ I!AcpiIntrInit
  /\ UNCHANGED <<memory, asked, devices>>

IoapicInit ==
  /\ I!IoapicInit
  /\ UNCHANGED <<memory, asked, devices>>

(* hpet_init (kernel/src/timers/hpet.c) maps a line, then unmasks it.      *)
MapLine(l, v) ==
  /\ I!MapInterrupt(l, v, FALSE, FALSE)
  /\ asked' = IF l \notin DOMAIN redirection[1] THEN asked
              ELSE [asked EXCEPT ![l] = [vector |-> v, low |-> FALSE,
                                         level |-> FALSE, masked |-> FALSE]]
  /\ UNCHANGED <<memory, devices>>

MaskLine(l, mask) ==
  /\ I!InterruptSetMask(l, mask)
  /\ asked' = IF l \notin DOMAIN redirection[1] THEN asked
              ELSE [asked EXCEPT ![l].masked = mask]
  /\ UNCHANGED <<memory, devices>>

(* pci_reg_init and devices_load follow setup_core; monitors come and go.  *)
Devices ==
  /\ ready = "running"
  /\ D!Next
  /\ UNCHANGED <<memory, lines, asked>>

Next ==
  \/ SetBootInfo \/ PmemInit \/ AcpiIntrInit \/ IoapicInit
  \/ \E l \in Lines, v \in Vectors : MapLine(l, v)
  \/ \E l \in Lines, mask \in BOOLEAN : MaskLine(l, mask)
  \/ Devices

Spec == Init /\ [][Next]_vars

-----------------------------------------------------------------------------
(* The two properties of BootInfo, of pmem_init after set_bootinfo.         *)
RegionsFreedOnce == B!RegionsFreedOnce
OnlyFreeRegions  == B!OnlyFreeRegions

(* The property of Pci, and the one of Igfx.                               *)
PciListed == D!PciListed
ModeShown == D!ModeShown

(* Each line of the first I/O APIC is wired as the MADT's override for it  *)
(* says, or else straight through and masked, until a driver asks for      *)
(* something else, and then as the driver asked last; nothing that is done *)
(* to another line, or to another I/O APIC's, touches it.                  *)
LinesRouted ==
  ready = "running" =>
    \A l \in Lines :
      l \in DOMAIN redirection[1] => redirection[1][l] = asked[l]

PciInv  == D!PciInv
CopyInv == B!CopyInv

=============================================================================
