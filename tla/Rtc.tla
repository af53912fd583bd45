-------------------------------- MODULE Rtc --------------------------------
(***************************************************************************)
(* The real time clock (kernel/src/timers/rtc.c): rtc_gettime reads the    *)
(* device once, rtc_interrupt then keeps the time by counting interrupts.  *)
(*                                                                         *)
(* ms_10000000x counts in the interrupt's period, 9765625: the threshold   *)
(* 10^10 is then 1024, TicksPerSecond here.                                *)
(***************************************************************************)
EXTENDS Integers

CONSTANTS
  TicksPerSecond,
  Starts,         \* the device's time at boot: records of its fields
  Formats,        \* status B: records [h24, binary]
  CurrentCentury, \* CURRENT_YEAR / 100
  MaxInterrupts   \* bound: periodic interrupts followed

VARIABLES
  device, format, \* what the device holds when it is read
  clock,          \* century, year, month, dayofmonth, weekday, hours, ...
  ms_10000000x, ms_sinceboot,
  running,        \* rtc_interrupt is registered and periodic interrupts are on
  interrupts      \* periodic interrupts so far

vars == <<device, format, clock, ms_10000000x, ms_sinceboot, running,
          interrupts>>

Fields == {"seconds", "minutes", "hours", "weekday", "dayofmonth", "month",
           "year", "century"}

Init ==
  /\ device \in Starts
  /\ format \in Formats
  /\ clock = [f \in Fields |-> 0]
  /\ ms_10000000x = 0 /\ ms_sinceboot = 0
  /\ running = FALSE
  /\ interrupts = 0

-----------------------------------------------------------------------------
(* The device's registers: binary or BCD, and in 12-hour mode the hours    *)
(* 12, 1 .. 11 twice with bit 7 for the afternoon.                         *)
Encode(v) == IF format.binary THEN v ELSE (v \div 10) * 16 + (v % 10)

Register(f) ==
  IF f # "hours" \/ format.h24 THEN Encode(device[f])
  ELSE Encode(IF device.hours % 12 = 0 THEN 12 ELSE device.hours % 12)
         + IF device.hours >= 12 THEN 128 ELSE 0

(* BIN_FROM_BCD(bcd)                                                       *)
Decode(v) == IF format.binary THEN v ELSE (v \div 16) * 10 + (v % 16)

(* Mutant of ReadHours: the afternoon bit is not cleared before decoding.  *)
ReadHours_KeepsBit(v) ==
  IF ~format.h24 /\ v >= 128 THEN Decode(v) + 12 ELSE Decode(v)

ReadHours(v) ==
  IF ~format.h24 /\ v >= 128 THEN Decode(v - 128) + 12 ELSE Decode(v)

GetTime ==
  [f \in Fields |-> CASE f = "hours"   -> ReadHours(Register(f))
                      [] f = "century" -> CurrentCentury
                      [] OTHER         -> Decode(Register(f))]

(* rtc_init; without its vector it keeps no time.                          *)
Start(vectorFree) ==
  /\ clock' = GetTime
  /\ running' = vectorFree
  /\ UNCHANGED <<device, format, ms_10000000x, ms_sinceboot, interrupts>>

-----------------------------------------------------------------------------
Carry(v, n) == IF v >= n THEN 1 ELSE 0
Rest(v, n)  == IF v >= n THEN v - n ELSE v

(* The handler's chain of carries.  Every month has 31 days and ends on    *)
(* its 30th, the year ends with its eleventh month: the code's tests are   *)
(* dayofmonth >= 31 and month >= 12.                                       *)
Advance(c, up) ==
  LET s == c.seconds + up
      m == c.minutes + Carry(s, 60)
      h == c.hours + Carry(m, 60)
      d == c.dayofmonth + Carry(h, 24)
      o == c.month + Carry(d, 31)
      y == c.year + Carry(o, 12)
  IN  [seconds    |-> Rest(s, 60),
       minutes    |-> Rest(m, 60),
       hours      |-> Rest(h, 24),
       weekday    |-> IF h >= 24 THEN (c.weekday + 1) % 7 ELSE c.weekday,
       dayofmonth |-> Rest(d, 31),
       month      |-> Rest(o, 12),
       year       |-> Rest(y, 100),
       century    |-> c.century + Carry(y, 100)]

(* rtc_interrupt; "periodic" is bit 6 of status C.                         *)
Interrupt(periodic) ==
  LET ms == ms_10000000x + (IF periodic THEN 1 ELSE 0)
      up == Carry(ms, TicksPerSecond)
  IN  /\ running
      /\ interrupts < MaxInterrupts
      /\ interrupts' = interrupts + (IF periodic THEN 1 ELSE 0)
      /\ ms_10000000x' = Rest(ms, TicksPerSecond)
      /\ ms_sinceboot' = ms_sinceboot + up
      /\ clock' = Advance(clock, up)
      /\ UNCHANGED <<device, format, running>>

-----------------------------------------------------------------------------
SecondOfDay(t) == t.hours * 3600 + t.minutes * 60 + t.seconds
Elapsed        == SecondOfDay(device) + interrupts \div TicksPerSecond

(* The code reads the hours 12 AM and 12 PM as 12 and 24.                  *)
ReadsHours == format.h24 \/ device.hours % 12 # 0

(* The date some days after the boot, as long as the month of the boot     *)
(* lasts: the code's months all end on the 30th, and December at once.     *)
ShowsDate(days) ==
  device.month < 12 /\ device.dayofmonth + days < 31 =>
    /\ clock.dayofmonth = device.dayofmonth + days
    /\ clock.month = device.month /\ clock.year = device.year

(* The time of day and the weekday are those of the boot plus the          *)
(* interrupts counted, however the device keeps its time, and so is the    *)
(* date until the 30th.  Excepted are the hours 12 AM and 12 PM of a       *)
(* 12-hour device at the boot, and the date after the 30th or in December. *)
KeepsTime ==
  running /\ ReadsHours =>
    /\ SecondOfDay(clock) = Elapsed % 86400
    /\ (clock.weekday - device.weekday - Elapsed \div 86400) % 7 = 0
    /\ ShowsDate(Elapsed \div 86400)

-----------------------------------------------------------------------------
(* What it rests on: whole seconds and the rest make up the interrupts,    *)
(* and the fields, each in its range, are those of the last whole second.  *)
InRange(t) ==
  /\ {t.seconds, t.minutes, t.hours, t.weekday} \subseteq Nat
  /\ t.seconds < 60 /\ t.minutes < 60 /\ t.hours < 24

ShowsSecond(k) ==
  LET now == SecondOfDay(device) + k
  IN  /\ InRange(clock)
      /\ SecondOfDay(clock) = now % 86400
      /\ (clock.weekday - device.weekday - now \div 86400) % 7 = 0
      /\ ShowsDate(now \div 86400)

RtcInv ==
  /\ device \in Starts
  /\ {ms_sinceboot, ms_10000000x} \subseteq Nat /\ ms_10000000x < TicksPerSecond
  /\ interrupts = ms_sinceboot * TicksPerSecond + ms_10000000x
  /\ running /\ ReadsHours => ShowsSecond(ms_sinceboot)

=============================================================================
