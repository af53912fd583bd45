------------------------------ MODULE MCCpuid ------------------------------
(* One core of each branch; the second is a Sandy Bridge with a ratio of   *)
(* 26, which has no leaf 16h: it reads as 0, as virtual machines have it.  *)
(* Rates are in MHz.                                                       *)
EXTENDS Cpuid

P(vendor, family, extmodel, model, bus, platform) ==
  [vendor |-> vendor, features |-> {"tsc", "x2apic"}, family |-> family,
   model |-> model, extmodel |-> extmodel, bus |-> bus, denom |-> 0, numer |-> 0,
   crystal |-> 0, pstate |-> 120, platform |-> platform]

SomeProcessors ==
  { P("GenuineIntel", 6, 9, 14, 100, 0), P("GenuineIntel", 6, 2, 10, 0, 26),
    P("GenuineIntel", 15, 0, 6, 0, 0), P("AuthenticAMD", 15, 0, 1, 0, 0) }

=============================================================================
