------------------------------- MODULE IoApic -------------------------------
(***************************************************************************)
(* Interrupt lines: acpi_intr_init (kernel/src/interrupts/acpi_init.c)     *)
(* collects the processors, the I/O APICs and the overrides of ISA lines   *)
(* from the MADT, ioapic_init (kernel/src/interrupts/ioapic.c) programs    *)
(* the I/O APICs from them, and drivers then map and mask single lines.    *)
(* Each of these runs alone, on the bootstrap processor.                   *)
(***************************************************************************)
EXTENDS Integers, Sequences, SequencesExt

CONSTANTS
  Madts,        \* the MADTs that may be found: sequences of entries with
                \* kind "lapic" [id], "ioapic" [base, pins] or
                \* "isaovr" [gsi, irq, low, level]
  Vectors,      \* vectors drivers map lines to
  FirstVector   \* 0x20

VARIABLES
  madt,
  lapic_data, ioapic_data,  \* what was collected, in the order found
  isaovrs,      \* the overrides of each I/O APIC
  redirection,  \* the redirection table of each I/O APIC, pins from 0
  ready         \* "found", "collected", then "running"

vars == <<madt, lapic_data, ioapic_data, isaovrs, redirection, ready>>

Of(kind) == SelectSeq(madt, LAMBDA e : e.kind = kind)

Init ==
  /\ madt \in Madts
  /\ lapic_data = <<>> /\ ioapic_data = <<>> /\ isaovrs = <<>>
  /\ redirection = <<>>
  /\ ready = "found"

(* The I/O APIC an override is counted and saved for.  The distance from   *)
(* its base is compared with the index found so far, which counts from 0.  *)
Owner(gsi, ioapics) ==
  FoldLeft(LAMBDA idx, i :
             IF gsi >= ioapics[i].base /\ gsi - ioapics[i].base <= idx - 1
               THEN i ELSE idx,
           1, [i \in DOMAIN ioapics |-> i])

(* acpi_intr_init: each kind of entry in a pass of its own, wherever in    *)
(* the table it is.                                                        *)
AcpiIntrInit ==
  /\ ready = "found" /\ ready' = "collected"
  /\ lapic_data' = Of("lapic")
  /\ ioapic_data' = Of("ioapic")
  /\ isaovrs' = [i \in DOMAIN ioapic_data' |->
                   SelectSeq(Of("isaovr"),
                             LAMBDA o : Owner(o.gsi, ioapic_data') = i)]
  /\ UNCHANGED <<madt, redirection>>

(* ioapic_map and ioapic_setmask on one table; a pin it does not have is   *)
(* ignored.                                                                *)
Map(table, pin, vector, low, level) ==
  [p \in DOMAIN table |->
     IF p = pin THEN [vector |-> vector, low |-> low, level |-> level,
                      masked |-> FALSE]
     ELSE table[p]]

SetMask(table, pin, mask) ==
  [p \in DOMAIN table |->
     IF p = pin THEN [table[p] EXCEPT !.masked = mask] ELSE table[p]]

MapMasked(table, pin, vector, low, level) ==
  SetMask(Map(table, pin, vector, low, level), pin, TRUE)

(* Mutant of Programmed: an override keeps the vector of its own line.     *)
Programmed_BySource(i) ==
  LET base  == ioapic_data[i].base
      plain == [p \in 0 .. ioapic_data[i].pins - 1 |->
                  [vector |-> p + base + FirstVector, low |-> FALSE,
                   level |-> FALSE, masked |-> TRUE]]
  IN  FoldLeft(LAMBDA t, o : MapMasked(t, o.gsi - base, o.gsi + FirstVector,
                                       o.low, o.level),
               plain, isaovrs[i])

(* ioapic_init on one I/O APIC: every pin gets a vector of its own, masked *)
(* and edge triggered, then the overrides are applied.                     *)
Programmed(i) ==
  LET base  == ioapic_data[i].base
      plain == [p \in 0 .. ioapic_data[i].pins - 1 |->
                  [vector |-> p + base + FirstVector, low |-> FALSE,
                   level |-> FALSE, masked |-> TRUE]]
  IN  FoldLeft(LAMBDA t, o : MapMasked(t, o.gsi - base, o.irq + FirstVector,
                                       o.low, o.level),
               plain, isaovrs[i])

IoapicInit ==
  /\ ready = "collected" /\ ready' = "running"
  /\ redirection' = [i \in DOMAIN ioapic_data |-> Programmed(i)]
  /\ UNCHANGED <<madt, lapic_data, ioapic_data, isaovrs>>

(* The I/O APIC with the highest base below a line, or the first one.      *)
IoapicOf(line) ==
  LET Better(acc, i) ==
        IF ioapic_data[i].base < line /\ ioapic_data[i].base > acc.base
          THEN [idx |-> i, base |-> ioapic_data[i].base] ELSE acc
  IN  FoldLeft(Better, [idx |-> 1, base |-> 0], [i \in DOMAIN ioapic_data |-> i]).idx

(* Both take the line for the pin, whatever the base of the I/O APIC.      *)
MapInterrupt(line, vector, low, level) ==
  /\ ready = "running"
  /\ redirection' = [redirection EXCEPT
                       ![IoapicOf(line)] = Map(@, line, vector, low, level)]
  /\ UNCHANGED <<madt, lapic_data, ioapic_data, isaovrs, ready>>

InterruptSetMask(line, mask) ==
  /\ ready = "running"
  /\ redirection' = [redirection EXCEPT
                       ![IoapicOf(line)] = SetMask(@, line, mask)]
  /\ UNCHANGED <<madt, lapic_data, ioapic_data, isaovrs, ready>>

=============================================================================
