----------------------------- MODULE SystemTimer -----------------------------
(***************************************************************************)
(* One hardware timer (timers.rs, SystemTimer) as operators on its record. *)
(* Clock advances it by any number of clocks at once, on one of four paths *)
(* that compute in a few operations what a timer does clock by clock; Tick *)
(* is that single clock.                                                   *)
(***************************************************************************)
EXTENDS Integers

CONSTANT Max  \* 16#FFFF, the largest value of a counter

\* The widths of the registers make Max one less than a power of two.
ASSUME MaxAssumption == Max \in Nat \ {0}

Values == 0..Max

\* flag is the timer's bit of I_STAT.
Timers ==
  [counter : Values, target : Values, resetAtTarget : BOOLEAN,
   irqAtTarget : BOOLEAN, irqAtMax : BOOLEAN, repeat : BOOLEAN, toggle : BOOLEAN,
   irq : BOOLEAN, fired : BOOLEAN, reachedTarget : BOOLEAN, reachedMax : BOOLEAN,
   flag : BOOLEAN]

NewTimer ==
  [counter |-> 0, target |-> 0, resetAtTarget |-> FALSE,
   irqAtTarget |-> FALSE, irqAtMax |-> FALSE, repeat |-> FALSE, toggle |-> FALSE,
   irq |-> FALSE, fired |-> FALSE, reachedTarget |-> FALSE, reachedMax |-> FALSE,
   flag |-> FALSE]

\* A timer that toggles its line sets the flag with every second interrupt.
TriggerIrq(t) ==
  IF ~t.repeat /\ t.fired THEN t
  ELSE [t EXCEPT !.fired = TRUE,
                 !.irq = IF t.toggle THEN ~@ ELSE @,
                 !.flag = @ \/ ~t.toggle \/ ~t.irq]

TriggerIf(t, condition) == IF condition THEN TriggerIrq(t) ELSE t

\* n interrupts, of which only the parity and the first matter.
TriggerTimes(t, n) ==
  LET once == TriggerIf(t, n > 0)
  IN  TriggerIf(TriggerIf(once, n > 1), n > 1 /\ n % 2 = 1)

Toggles(t) == t.repeat /\ t.toggle
ResetsAtTarget(t) == t.resetAtTarget /\ t.target # Max

-----------------------------------------------------------------------------
(***************************************************************************)
(* The counter returns to 0 behind the target. With interrupts that toggle *)
(* each visit of the target counts; without, several are as good as one.   *)
(***************************************************************************)
ClockResetAtTarget(t, clocks) ==
  LET wraps == t.counter >= t.target
      start == IF wraps THEN 0 ELSE t.counter
      left == IF wraps THEN clocks - 1 ELSE clocks
      beyond == left - (t.target - start) - 1
      period == t.target + 1
      visits == 1 + (IF Toggles(t) /\ beyond >= 0 THEN (beyond + 1) \div period ELSE 0)
      reached == [t EXCEPT !.reachedTarget = TRUE,
                           !.counter = IF beyond < 0 THEN t.target ELSE beyond % period]
  IN  IF beyond < -1 THEN [t EXCEPT !.counter = start + left]
      ELSE IF t.irqAtTarget THEN TriggerTimes(reached, visits) ELSE reached

\* The counter runs up to Max, and interrupts need not be counted.
ClockPulse(t, clocks) ==
  LET atMax == t.counter = Max
      zero == atMax /\ t.target = 0
      s == TriggerIf([t EXCEPT !.counter = IF atMax THEN 0 ELSE @,
                               !.reachedTarget = @ \/ zero], zero /\ t.irqAtTarget)
      left == IF atMax THEN clocks - 1 ELSE clocks
      reachedMax == left >= Max - s.counter
      reachedTarget == left >= IF t.target > s.counter THEN t.target - s.counter
                               ELSE Max + 1 - (s.counter - t.target)
  IN  TriggerIf([s EXCEPT !.reachedMax = @ \/ reachedMax,
                          !.reachedTarget = @ \/ reachedTarget,
                          !.counter = (@ + left) % (Max + 1)],
                (t.irqAtTarget /\ reachedTarget) \/ (t.irqAtMax /\ reachedMax))

\* If the counter will not reach Max, interrupts are triggered even when it
\* does not reach the target either.
ShortOfMax(t, clocks, targetIrqs) ==
  LET reached == t.target > t.counter /\ clocks >= t.target - t.counter
  IN  TriggerIf([t EXCEPT !.reachedTarget = @ \/ reached, !.counter = @ + clocks],
                targetIrqs)

\* Up to Max, unless the counter is there already.
FirstMax(t, targetIrqs) ==
  LET ahead == t.target > t.counter
      s == [t EXCEPT !.reachedTarget = @ \/ ahead, !.reachedMax = TRUE, !.counter = Max]
  IN  IF t.counter = Max THEN t
      ELSE TriggerIf(TriggerIf(s, targetIrqs /\ ahead), t.irqAtMax)

\* From Max once or more round to Max again.
Rounds(t, n, targetIrqs) ==
  LET each == (IF targetIrqs THEN 1 ELSE 0) + (IF t.irqAtMax THEN 1 ELSE 0)
  IN  IF n = 0 THEN t ELSE TriggerTimes([t EXCEPT !.reachedTarget = TRUE], n * each)

\* From Max to the counter's last value.
Rest(t, clocks, targetIrqs) ==
  LET reachedTarget == t.target <= clocks - 1
      s == [t EXCEPT !.counter = clocks - 1, !.reachedTarget = @ \/ reachedTarget,
                     !.reachedMax = @ \/ clocks - 1 = Max]
  IN  IF clocks = 0 THEN t
      ELSE TriggerIf(TriggerIf(s, targetIrqs /\ reachedTarget),
                     t.irqAtMax /\ clocks - 1 = Max)

ClockToggle(t, clocks) ==
  LET targetIrqs == t.irqAtTarget /\ (t.target # Max \/ ~t.irqAtMax)
      beyond == clocks - (Max - t.counter)
  IN  IF beyond < 0 THEN ShortOfMax(t, clocks, targetIrqs)
      ELSE Rest(Rounds(FirstMax(t, targetIrqs), beyond \div (Max + 1), targetIrqs),
                beyond % (Max + 1), targetIrqs)

\* The path of ClockToggle.
CountsToggles(t) ==
  ~ResetsAtTarget(t) /\ (t.irqAtTarget \/ t.irqAtMax) /\ Toggles(t)

Clock(t, clocks) ==
  IF clocks = 0 THEN t
  ELSE IF ResetsAtTarget(t) THEN ClockResetAtTarget(t, clocks)
  ELSE IF CountsToggles(t) THEN ClockToggle(t, clocks)
  ELSE ClockPulse(t, clocks)

-----------------------------------------------------------------------------
\* Mutant: a counter behind its target is taken to run up to Max.
ClocksWithoutReset(t) ==
  LET target == IF t.target > t.counter THEN t.target - t.counter
                ELSE Max + 1 - (t.counter - t.target)
      max == IF t.counter = Max THEN Max + 1 ELSE Max - t.counter
      byMax == t.irqAtMax /\ ~ResetsAtTarget(t)
  IN  IF ~t.repeat /\ t.fired THEN 0
      ELSE IF t.irqAtTarget /\ byMax THEN IF target < max THEN target ELSE max
      ELSE IF t.irqAtTarget THEN target
      ELSE IF byMax THEN max
      ELSE 0

\* Clocks until the next interrupt; 0 stands for None.
ClocksUntilIrq(t) ==
  LET target == IF t.target > t.counter THEN t.target - t.counter
                ELSE IF t.resetAtTarget THEN t.target + 1
                ELSE Max + 1 - (t.counter - t.target)
      max == IF t.counter = Max THEN Max + 1 ELSE Max - t.counter
      byMax == t.irqAtMax /\ ~ResetsAtTarget(t)
  IN  IF ~t.repeat /\ t.fired THEN 0
      ELSE IF t.irqAtTarget /\ byMax THEN IF target < max THEN target ELSE max
      ELSE IF t.irqAtTarget THEN target
      ELSE IF byMax THEN max
      ELSE 0

-----------------------------------------------------------------------------
(***************************************************************************)
(* What the tests and the paths agree on for a single clock, the reference *)
(* for all others.                                                         *)
(***************************************************************************)
Tick(t) ==
  LET next == IF ResetsAtTarget(t) /\ t.counter >= t.target THEN 0
              ELSE (t.counter + 1) % (Max + 1)
      atMax == ~ResetsAtTarget(t) /\ next = Max
  IN  TriggerIf([t EXCEPT !.counter = next, !.reachedTarget = @ \/ next = t.target,
                          !.reachedMax = @ \/ atMax],
                (t.irqAtTarget /\ next = t.target) \/ (t.irqAtMax /\ atMax))

Ticks(t, n) ==
  LET f[i \in 0..n] == IF i = 0 THEN t ELSE Tick(f[i - 1]) IN f[n]
=============================================================================
