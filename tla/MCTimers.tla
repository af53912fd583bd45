------------------------------ MODULE MCTimers ------------------------------
(* A machine with a usable TSC, machines that fall back on the HPET and    *)
(* the local APIC timer, and one whose APIC frequency is unknown.          *)
EXTENDS Timers

Plain    == [periodic |-> FALSE, fsb |-> FALSE]
Periodic == [periodic |-> TRUE,  fsb |-> TRUE]

Tsc   == [tsc |-> TRUE,  bus |-> TRUE,  rtc |-> TRUE,  subs |-> <<Periodic>>]
NoTsc == [tsc |-> FALSE, bus |-> TRUE,  rtc |-> TRUE,  subs |-> <<Plain, Plain>>]
Hpet  == [tsc |-> FALSE, bus |-> TRUE,  rtc |-> FALSE, subs |-> <<Periodic, Plain>>]
NoBus == [tsc |-> FALSE, bus |-> FALSE, rtc |-> FALSE, subs |-> <<Plain>>]

AllMachines == {Tsc, NoTsc, Hpet, NoBus}
HpetMachine == {Hpet}

AllRequests == {{"oneshot"}, {"periodic"}, {"oneshot", "write"}, {"counter"}}

Time(h, m, s) ==
  [hours |-> h, minutes |-> m, seconds |-> s, weekday |-> 6, dayofmonth |-> 30,
   month |-> 11, year |-> 99, century |-> 20]

(* One second before a minute, before noon, before the last day of one of  *)
(* the code's months, and before its new year; and 12 PM.                  *)
Edges == {Time(9, 14, 59), Time(11, 59, 59), Time(12, 0, 1), Time(23, 59, 59),
          [Time(23, 59, 59) EXCEPT !.dayofmonth = 29, !.month = 6]}
Morning == {Time(9, 14, 59)}

BothFormats == {[h24 |-> TRUE, binary |-> TRUE], [h24 |-> FALSE, binary |-> FALSE]}
Binary24   == {[h24 |-> TRUE, binary |-> TRUE]}

=============================================================================
