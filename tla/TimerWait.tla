----------------------------- MODULE TimerWait -----------------------------
(***************************************************************************)
(* timer_wait (kernel/src/timers/timer_main.c) on the periodic local APIC  *)
(* timer (kernel/src/timers/apic.c): the waiting core arms shared counters *)
(* and halts, the timer's interrupt counts and releases it.                *)
(*                                                                         *)
(* The counters are plain globals shared by every core; this is the wait   *)
(* of the one core that uses it, the bootstrap processor.                  *)
(***************************************************************************)
EXTENDS Integers

CONSTANTS
  Waits      \* the waits asked for, in whole ticks: ns / (10^9 / rate)

VARIABLES
  wpc,       \* the step the wait is about to take, "idle" outside of one
  want,      \* its argument
  timer_wait_pending, timer_wait_count, timer_wait_target,
  armed,     \* apic_state->enabled with timer_wait_handler as its handler
  elapsed    \* ticks since the wait armed the timer, up to MaxElapsed

flags == <<timer_wait_pending, timer_wait_count, timer_wait_target>>

(* Bound: counts are not followed beyond the longest wait.                 *)
MaxElapsed == 1 + CHOOSE m \in Waits : \A n \in Waits : n <= m
Bump(n)    == IF n < MaxElapsed THEN n + 1 ELSE n

Init ==
  /\ wpc = "idle" /\ want = 0
  /\ timer_wait_pending = 0 /\ timer_wait_count = 0 /\ timer_wait_target = 0
  /\ armed = FALSE
  /\ elapsed = 0

Goto(from, to) == wpc = from /\ wpc' = to

Begin(n) ==
  /\ Goto("idle", "reset")
  /\ want' = n
  /\ UNCHANGED <<flags, armed, elapsed>>

(* Mutant of Reset: the count of the last wait is kept.                    *)
Reset_Forgotten ==
  /\ Goto("reset", "pending")
  /\ UNCHANGED <<want, flags, armed, elapsed>>

Reset ==
  /\ Goto("reset", "pending")
  /\ timer_wait_count' = 0
  /\ UNCHANGED <<want, timer_wait_pending, timer_wait_target, armed, elapsed>>

SetPending ==
  /\ Goto("pending", "target")
  /\ timer_wait_pending' = 1
  /\ UNCHANGED <<want, timer_wait_count, timer_wait_target, armed, elapsed>>

SetTarget ==
  /\ Goto("target", "enable")
  /\ timer_wait_target' = IF want = 0 THEN 1 ELSE want
  /\ UNCHANGED <<want, timer_wait_pending, timer_wait_count, armed, elapsed>>

Enable ==
  /\ Goto("enable", "check")
  /\ armed' = TRUE
  /\ elapsed' = 0
  /\ UNCHANGED <<want, flags>>

(* while (timer_wait_pending) halt(): an interrupt may come between the    *)
(* two.                                                                    *)
Check ==
  /\ Goto("check", IF timer_wait_pending # 0 THEN "halt" ELSE "disable")
  /\ UNCHANGED <<want, flags, armed, elapsed>>

Halt ==
  /\ Goto("halt", "halted")
  /\ UNCHANGED <<want, flags, armed, elapsed>>

Disable ==
  /\ Goto("disable", "idle")
  /\ armed' = FALSE
  /\ UNCHANGED <<want, flags, elapsed>>

Step == Reset \/ SetPending \/ SetTarget \/ Enable \/ Check \/ Halt \/ Disable

Woken == IF wpc = "halted" THEN "check" ELSE wpc

(* The timer's interrupt, which calls timer_wait_handler only while the    *)
(* timer is enabled.  Whether it then stays enabled is the timer's affair: *)
(* the module that composes this one says what becomes of armed.           *)
Tick ==
  /\ wpc' = Woken
  /\ IF armed
       THEN /\ timer_wait_count' = Bump(timer_wait_count)
            /\ timer_wait_pending' = IF timer_wait_count' >= timer_wait_target
                                       THEN 0 ELSE timer_wait_pending
       ELSE UNCHANGED <<timer_wait_count, timer_wait_pending>>
  /\ elapsed' = Bump(elapsed)
  /\ UNCHANGED <<want, timer_wait_target>>

(* Any other interrupt ends the hlt just as well.                          *)
OtherInterrupt ==
  /\ wpc' = Woken
  /\ UNCHANGED <<want, flags, armed, elapsed>>

-----------------------------------------------------------------------------
(* timer_wait leaves its loop only after as many ticks as it was asked to  *)
(* wait, counted from when it enabled the timer: neither a count left over *)
(* from an earlier wait nor another interrupt's wake-up cuts it short.     *)
NotEarly ==
  wpc = "disable" => elapsed >= IF want = 0 THEN 1 ELSE want

=============================================================================
