----------------------------- MODULE MCSmpBoot -----------------------------
(* Four cores; the BSP's own local APIC is not the first of the MADT.      *)
EXTENDS SmpBoot

FourLapics == <<2, 0, 1, 3>>

=============================================================================
