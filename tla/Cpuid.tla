-------------------------------- MODULE Cpuid --------------------------------
(***************************************************************************)
(* cpuid_init of kernel/src/cpuid.c: the features of the processor that    *)
(* the rest of the kernel asks for, and the rates of its two clocks, which *)
(* depend on who made it and on its model.                                 *)
(***************************************************************************)
EXTENDS Integers

CONSTANTS
  Processors,   \* records: vendor, feature bits, the signature in its parts
                \* (family, model, extmodel), bus (what leaf 16h reads),
                \* denom, numer, crystal (leaf 15h), and the ratios its MSRs
                \* hold: pstate (AMD) and platform (Intel)
  Word,         \* 2^32
  Million

VARIABLES processor, cpuinfo

Unknown == [features |-> {}, tsc_freq |-> 0, apic_freq |-> 0]

Init == processor \in Processors /\ cpuinfo = Unknown

(* A name that is neither leaves the manufacturer at 0, which is AMD.      *)
Manufacturer(p) == IF p.vendor = "GenuineIntel" THEN "INTEL" ELSE "AMD"

Model(p) == IF p.family = 15 THEN p.extmodel * 16 + p.model ELSE p.model

(* From the crystal of leaf 15h, in 32 bits.                               *)
TscRate(p) == IF p.denom = 0 THEN 0 ELSE ((p.crystal * p.numer) % Word) \div p.denom

Nehalem == {26, 30, 31, 46, 37, 44, 47}
FromMsr == {42, 45, 58, 62, 60, 63, 69, 70, 61, 71, 86, 79}
Fixed24 == {78, 94, 85, 142, 158}

IntelApicRate(p, model) ==
  CASE p.bus # 0          -> p.bus
    [] model \in FromMsr  -> p.platform * 100
    [] model \in Fixed24  -> 24
    [] OTHER              -> 0

AmdApicRate(p) == IF p.bus = 0 THEN 100 ELSE p.bus

CpuidInit ==
  /\ cpuinfo = Unknown
  /\ LET tsc == TscRate(processor)
     IN  cpuinfo' =
           IF Manufacturer(processor) = "AMD"
             THEN [features |-> processor.features,
                   tsc_freq |-> IF tsc = 0 THEN (processor.pstate * 25 * Million) % Word ELSE tsc,
                   apic_freq |-> (AmdApicRate(processor) * Million) % Word]
             ELSE [features |-> processor.features,
                   tsc_freq |-> tsc,
                   apic_freq |-> (IntelApicRate(processor, Model(processor)) * Million) % Word]
  /\ UNCHANGED processor

Spec == Init /\ [][CpuidInit]_<<processor, cpuinfo>>

-----------------------------------------------------------------------------
(* Intel numbers the models of its family 6 with the extended bits too.    *)
DisplayModel(p) ==
  IF p.family \in {6, 15} THEN p.extmodel * 16 + p.model ELSE p.model

(* The rate of the local APIC's clock is known for every model that        *)
(* cpuid_init lists with one: "MSR_PLATFORM_INFO gives the apic rate"      *)
(* (cpuid.c:229) for Sandy Bridge to Broadwell.                            *)
ApicRateKnown ==
  /\ cpuinfo # Unknown
  /\ processor.vendor = "GenuineIntel" /\ processor.family = 6 /\ processor.bus = 0
  /\ DisplayModel(processor) \in FromMsr
  => cpuinfo.apic_freq = (processor.platform * 100 * Million) % Word

=============================================================================
