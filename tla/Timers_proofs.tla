----------------------------- MODULE Timers_proofs -----------------------------
(***************************************************************************)
(* Clocks: a timer clocked any number of times at once is a timer clocked  *)
(* as often one by one, on all paths but the one that counts toggles.      *)
(*                                                                         *)
(* Events: every timer that counts CPU cycles, and timer 2, has an event   *)
(* that is due no later than its next interrupt. The invariant says so     *)
(* of the state that was last caught up; what catch_up makes of it lags    *)
(* by no more clocks than CPU cycles have passed.                          *)
(*                                                                         *)
(* Reads: to catch up twice is to catch up once, without synchronization.  *)
(*                                                                         *)
(* VBlank: the cycles until line y2, as they are computed once, are what   *)
(* counting down from them with every cycle of the video clock reaches at  *)
(* that line, and the delay in CPU cycles is rounded by less than a line.  *)
(*                                                                         *)
(* What is recursive here is the walk along the lines. That the walk's     *)
(* function exists and satisfies its equation is shown by the least number *)
(* that is missing (AllNumbers, Iterated), and so is what holds of it.     *)
(***************************************************************************)
EXTENDS Timers, WellFoundedInduction, TLAPS

\* Division by p of a number that is given as a multiple of p and a rest.
LEMMA DivUnique ==
  ASSUME NEW p \in Nat \ {0}, NEW q \in Int, NEW r \in 0..(p - 1)
  PROVE  /\ (p * q + r) \div p = q
         /\ (p * q + r) % p = r
BY Z3

LEMMA DivMod ==
  ASSUME NEW p \in Nat \ {0}, NEW a \in Nat
  PROVE  /\ a = (p * (a \div p)) + (a % p)
         /\ a \div p \in Nat
         /\ a % p \in 0..(p - 1)
BY Z3

\* One period more changes the quotient only.
LEMMA DivShift ==
  ASSUME NEW p \in Nat \ {0}, NEW a \in Nat
  PROVE  /\ (a + p) % p = a % p
         /\ (a + p) \div p = (a \div p) + 1
<1> DEFINE q == a \div p
           r == a % p
<1>1. q \in Int /\ q + 1 \in Int /\ r \in 0..(p - 1) /\ a = p * q + r
  BY DivMod
<1> HIDE DEF q, r
<1>2. p * (q + 1) + r = a + p
  BY <1>1, SMT
<1>3. (p * (q + 1) + r) % p = r /\ (p * (q + 1) + r) \div p = q + 1
  BY <1>1, DivUnique
<1> QED BY <1>2, <1>3 DEF q, r

LEMMA DivSmall ==
  ASSUME NEW p \in Nat \ {0}, NEW a \in 0..(p - 1)
  PROVE  a % p = a /\ a \div p = 0
BY Z3

LEMMA ModTyped ==
  ASSUME NEW m \in Nat
  PROVE  m % (Max + 1) \in Values
<1>1. Max + 1 \in Nat \ {0} /\ (Max + 1) - 1 = Max
  BY MaxAssumption
<1>2. m % (Max + 1) \in 0..((Max + 1) - 1)
  BY <1>1, DivMod
<1> QED BY <1>1, <1>2, Zenon DEF Values

-----------------------------------------------------------------------------
\* What an interrupt leaves alone, and that a triggered timer is one.
LEMMA TriggerTyped ==
  ASSUME NEW t \in Timers
  PROVE  /\ TriggerIrq(t) \in Timers
         /\ TriggerIrq(t).counter = t.counter /\ TriggerIrq(t).target = t.target
         /\ TriggerIrq(t).repeat = t.repeat /\ TriggerIrq(t).toggle = t.toggle
<1>1. CASE ~t.repeat /\ t.fired
  BY <1>1 DEF TriggerIrq
<1>2. CASE t.repeat \/ ~t.fired
  <2>1. \E irq, flag \in BOOLEAN :
          TriggerIrq(t) = [t EXCEPT !.fired = TRUE, !.irq = irq, !.flag = flag]
    <3>1. (IF t.toggle THEN ~t.irq ELSE t.irq) \in BOOLEAN
      BY DEF Timers
    <3>2. (t.flag \/ ~t.toggle \/ ~t.irq) \in BOOLEAN
      BY Zenon
    <3> QED  BY <1>2, <3>1, <3>2, Zenon DEF TriggerIrq
  <2> QED  BY <2>1 DEF Timers
<1> QED  BY <1>1, <1>2

LEMMA TriggerIfTyped ==
  ASSUME NEW t \in Timers, NEW b \in BOOLEAN
  PROVE  TriggerIf(t, b) \in Timers
BY TriggerTyped DEF TriggerIf

LEMMA TriggerTimesTyped ==
  ASSUME NEW t \in Timers, NEW n \in Nat
  PROVE  TriggerTimes(t, n) \in Timers
<1> DEFINE once == TriggerIf(t, n > 0)
           twice == TriggerIf(once, n > 1)
<1>1. once \in Timers
  BY TriggerTyped DEF TriggerIf
<1>2. twice \in Timers
  <2> HIDE DEF once
  <2> QED BY <1>1, TriggerTyped DEF TriggerIf
<1>3. TriggerIf(twice, n > 1 /\ n % 2 = 1) \in Timers
  <2> HIDE DEF twice
  <2> QED BY <1>2, TriggerTyped DEF TriggerIf
<1> QED BY <1>3, Zenon DEF TriggerTimes

\* The first three are all there is.
LEMMA TriggerTimesIs ==
  ASSUME NEW t \in Timers, NEW n \in Nat \ {0}
  PROVE  TriggerTimes(t, n) =
           IF n = 1 THEN TriggerIrq(t)
           ELSE IF n % 2 = 0 THEN TriggerIrq(TriggerIrq(t))
           ELSE TriggerIrq(TriggerIrq(TriggerIrq(t)))
<1>1. n % 2 \in {0, 1} /\ (n = 1 => n % 2 = 1)
  BY Z3
<1>2. n > 0 /\ (n > 1 <=> n # 1)
  OBVIOUS
<1> QED BY <1>1, <1>2 DEF TriggerTimes, TriggerIf

\* A timer that does not toggle is as good as triggered once.
LEMMA TriggerTwice ==
  ASSUME NEW t \in Timers, ~Toggles(t)
  PROVE  TriggerIrq(TriggerIrq(t)) = TriggerIrq(t)
BY DEF TriggerIrq, Timers, Toggles

\* One that does raises its line with one of two interrupts, whatever it was.
LEMMA ToggleTwice ==
  ASSUME NEW t \in Timers, Toggles(t)
  PROVE  TriggerIrq(TriggerIrq(t)) = [t EXCEPT !.fired = TRUE, !.flag = TRUE]
<1>1. CASE t.irq
  BY <1>1 DEF TriggerIrq, Timers, Toggles
<1>2. CASE ~t.irq
  BY <1>2 DEF TriggerIrq, Timers, Toggles
<1> QED BY <1>1, <1>2

LEMMA ToggleFourTimes ==
  ASSUME NEW t \in Timers, Toggles(t)
  PROVE  TriggerIrq(TriggerIrq(TriggerIrq(TriggerIrq(t)))) = TriggerIrq(TriggerIrq(t))
<1> DEFINE u == TriggerIrq(TriggerIrq(t))
<1>1. u = [t EXCEPT !.fired = TRUE, !.flag = TRUE]
  BY ToggleTwice
<1> HIDE DEF u
<1>2. u \in Timers /\ Toggles(u)
  BY <1>1 DEF Timers, Toggles
<1>3. TriggerIrq(TriggerIrq(u)) = [u EXCEPT !.fired = TRUE, !.flag = TRUE]
  BY <1>2, ToggleTwice
<1>4. [u EXCEPT !.fired = TRUE, !.flag = TRUE] = u
  BY <1>1 DEF Timers
<1> QED BY <1>3, <1>4 DEF u

\* One interrupt, and then n more.
LEMMA TriggerOneMore ==
  ASSUME NEW t \in Timers, NEW n \in Nat \ {0}
  PROVE  /\ Toggles(t) => TriggerTimes(TriggerIrq(t), n) = TriggerTimes(t, n + 1)
         /\ ~Toggles(t) => TriggerTimes(TriggerIrq(t), 1) = TriggerTimes(t, 1)
<1> DEFINE u == TriggerIrq(t)
<1>1. u \in Timers
  BY TriggerTyped
<1>2. /\ n % 2 \in {0, 1} /\ (n = 1 => n % 2 = 1)
      /\ n % 2 = 0 => (n + 1) % 2 = 1
      /\ n % 2 = 1 => (n + 1) % 2 = 0
  BY Z3
<1>3. TriggerTimes(u, n) =
        IF n = 1 THEN TriggerIrq(u)
        ELSE IF n % 2 = 0 THEN TriggerIrq(TriggerIrq(u))
        ELSE TriggerIrq(TriggerIrq(TriggerIrq(u)))
  BY <1>1, TriggerTimesIs
<1>4. TriggerTimes(t, n + 1) =
        IF (n + 1) % 2 = 0 THEN TriggerIrq(u) ELSE TriggerIrq(TriggerIrq(u))
  <2>1. n + 1 \in Nat \ {0} /\ n + 1 # 1
    OBVIOUS
  <2> QED BY <2>1, TriggerTimesIs
<1>5. TriggerTimes(u, 1) = TriggerIrq(u) /\ TriggerTimes(t, 1) = u
  BY <1>1, TriggerTimesIs
<1>6. CASE Toggles(t)
  <2>1. TriggerIrq(TriggerIrq(TriggerIrq(u))) = TriggerIrq(u)
    BY <1>6, ToggleFourTimes
  <2>2. TriggerTimes(u, n) = TriggerTimes(t, n + 1)
    <3> HIDE DEF u
    <3> QED BY <1>2, <1>3, <1>4, <2>1
  <2> QED BY <1>6, <2>2
<1>7. CASE ~Toggles(t)
  BY <1>5, <1>7, TriggerTwice
<1> QED BY <1>6, <1>7

-----------------------------------------------------------------------------
\* Where an interrupt does not look may be changed before or after it.
LEMMA TriggerElsewhere ==
  ASSUME NEW t \in Timers, NEW c \in Values, NEW a \in BOOLEAN, NEW b \in BOOLEAN
  PROVE  [TriggerIrq(t) EXCEPT !.counter = c, !.reachedTarget = a, !.reachedMax = b]
           = TriggerIrq([t EXCEPT !.counter = c, !.reachedTarget = a, !.reachedMax = b])
<1>1. CASE ~t.repeat /\ t.fired
  BY <1>1 DEF TriggerIrq, Timers
<1>2. CASE ~(~t.repeat /\ t.fired)
  BY <1>2 DEF TriggerIrq, Timers
<1> QED BY <1>1, <1>2

\* The settings, which no clock changes.
Settings(t) ==
  <<t.target, t.resetAtTarget, t.irqAtTarget, t.irqAtMax, t.repeat, t.toggle>>

LEMMA TriggerSettings ==
  ASSUME NEW t \in Timers
  PROVE  /\ Settings(TriggerIrq(t)) = Settings(t)
         /\ TriggerIrq(t).reachedTarget = t.reachedTarget
         /\ TriggerIrq(t).reachedMax = t.reachedMax
BY DEF TriggerIrq, Timers, Settings

-----------------------------------------------------------------------------
(***************************************************************************)
(* The path that resets at the target.                                     *)
(***************************************************************************)
Start(t) == IF t.counter >= t.target THEN 0 ELSE t.counter
Left(t, n) == IF t.counter >= t.target THEN n - 1 ELSE n
Beyond(t, n) == Left(t, n) - (t.target - Start(t)) - 1
End(t, n) == IF Beyond(t, n) < 0 THEN t.target ELSE Beyond(t, n) % (t.target + 1)
Visits(t, n) ==
  1 + (IF Toggles(t) /\ Beyond(t, n) >= 0
       THEN (Beyond(t, n) + 1) \div (t.target + 1) ELSE 0)
Reached(t, n) == [t EXCEPT !.reachedTarget = TRUE, !.counter = End(t, n)]

LEMMA ResetForm ==
  ASSUME NEW t \in Timers, NEW n \in Nat
  PROVE  ClockResetAtTarget(t, n) =
           IF Beyond(t, n) < -1 THEN [t EXCEPT !.counter = Start(t) + Left(t, n)]
           ELSE IF t.irqAtTarget THEN TriggerTimes(Reached(t, n), Visits(t, n))
           ELSE Reached(t, n)
BY Zenon DEF ClockResetAtTarget, Start, Left, Beyond, End, Visits, Reached

LEMMA ResetNumbers ==
  ASSUME NEW t \in Timers, NEW n \in Nat \ {0}
  PROVE  /\ Start(t) \in Values /\ Left(t, n) \in Nat /\ Beyond(t, n) \in Int
         /\ Start(t) <= t.target
         /\ Beyond(t, n) < -1 => Start(t) + Left(t, n) \in Values
         /\ Beyond(t, n) >= -1 => End(t, n) \in Values
         /\ Visits(t, n) \in Nat \ {0}
         /\ ~Toggles(t) => Visits(t, n) = 1
<1>1. t.counter \in 0..Max /\ t.target \in 0..Max /\ Max \in Nat \ {0}
  BY MaxAssumption DEF Timers, Values
<1>2. /\ Start(t) \in Values /\ Left(t, n) \in Nat /\ Beyond(t, n) \in Int
      /\ Start(t) <= t.target
      /\ Beyond(t, n) < -1 => Start(t) + Left(t, n) \in Values
  BY <1>1 DEF Start, Left, Beyond, Values
<1>3. Beyond(t, n) >= -1 => End(t, n) \in Values
  <2>1. CASE Beyond(t, n) >= 0
    <3>1. Beyond(t, n) \in Nat /\ t.target + 1 \in Nat \ {0}
      BY <1>1, <1>2, <2>1
    <3>2. Beyond(t, n) % (t.target + 1) \in 0..((t.target + 1) - 1)
      BY <3>1, DivMod
    <3> QED BY <1>1, <1>2, <2>1, <3>2 DEF End, Values
  <2>2. CASE Beyond(t, n) < 0
    BY <1>1, <2>2 DEF End, Values
  <2> QED BY <1>2, <2>1, <2>2
<1>4. Visits(t, n) \in Nat \ {0} /\ (~Toggles(t) => Visits(t, n) = 1)
  <2>1. CASE Toggles(t) /\ Beyond(t, n) >= 0
    <3>1. Beyond(t, n) + 1 \in Nat /\ t.target + 1 \in Nat \ {0}
      BY <1>1, <1>2, <2>1
    <3>2. (Beyond(t, n) + 1) \div (t.target + 1) \in Nat
      BY <3>1, DivMod
    <3> QED BY <2>1, <3>2 DEF Visits
  <2>2. CASE ~(Toggles(t) /\ Beyond(t, n) >= 0)
    BY <2>2 DEF Visits
  <2> QED BY <2>1, <2>2
<1> QED BY <1>2, <1>3, <1>4

LEMMA ResetTyped ==
  ASSUME NEW t \in Timers, NEW n \in Nat \ {0}
  PROVE  ClockResetAtTarget(t, n) \in Timers
<1>1. CASE Beyond(t, n) < -1
  <2>1. Start(t) + Left(t, n) \in Values
    BY <1>1, ResetNumbers
  <2> QED BY <1>1, <2>1, ResetForm DEF Timers
<1>2. CASE ~(Beyond(t, n) < -1)
  <2>1. End(t, n) \in Values /\ Visits(t, n) \in Nat
    BY <1>2, ResetNumbers
  <2>2. Reached(t, n) \in Timers
    BY <2>1 DEF Timers, Reached
  <2> QED BY <1>2, <2>1, <2>2, ResetForm, TriggerTimesTyped
<1> QED BY <1>1, <1>2

\* One clock on this path.
Onward(t) == IF t.counter >= t.target THEN 0 ELSE t.counter + 1

LEMMA ResetTick ==
  ASSUME NEW t \in Timers, ResetsAtTarget(t)
  PROVE  /\ Onward(t) \in Values /\ Onward(t) <= t.target
         /\ Onward(t) # t.target => Tick(t) = [t EXCEPT !.counter = Onward(t)]
         /\ Onward(t) = t.target =>
              Tick(t) = LET r == [t EXCEPT !.counter = t.target, !.reachedTarget = TRUE]
                        IN  IF t.irqAtTarget THEN TriggerIrq(r) ELSE r
<1>1. t.counter \in 0..Max /\ t.target \in 0..Max /\ Max \in Nat \ {0}
  BY MaxAssumption DEF Timers, Values
<1>2. Onward(t) \in Values /\ Onward(t) <= t.target
  BY <1>1 DEF Onward, Values
<1>3. (IF ResetsAtTarget(t) /\ t.counter >= t.target THEN 0
       ELSE (t.counter + 1) % (Max + 1)) = Onward(t)
  <2>1. CASE t.counter >= t.target
    BY <2>1 DEF Onward
  <2>2. CASE ~(t.counter >= t.target)
    <3>1. t.counter + 1 \in 0..((Max + 1) - 1) /\ Max + 1 \in Nat \ {0}
      BY <1>1, <2>2
    <3>2. (t.counter + 1) % (Max + 1) = t.counter + 1
      BY <3>1, DivSmall
    <3> QED BY <2>2, <3>2 DEF Onward
  <2> QED BY <2>1, <2>2
<1>4. Tick(t) = TriggerIf([t EXCEPT !.counter = Onward(t),
                                    !.reachedTarget = @ \/ Onward(t) = t.target,
                                    !.reachedMax = @ \/ FALSE],
                          (t.irqAtTarget /\ Onward(t) = t.target) \/ (t.irqAtMax /\ FALSE))
  BY <1>3, Zenon DEF Tick
<1>5. CASE Onward(t) # t.target
  BY <1>2, <1>4, <1>5 DEF TriggerIf, Timers
<1>6. CASE Onward(t) = t.target
  <2>1. [t EXCEPT !.counter = Onward(t), !.reachedTarget = @ \/ Onward(t) = t.target,
                  !.reachedMax = @ \/ FALSE]
          = [t EXCEPT !.counter = t.target, !.reachedTarget = TRUE]
    BY <1>6 DEF Timers
  <2> QED BY <1>2, <1>4, <1>6, <2>1, Zenon DEF TriggerIf
<1> QED BY <1>2, <1>5, <1>6

\* Away from the target, the rest of the clocks ends where all would.
LEMMA ResetBefore ==
  ASSUME NEW t \in Timers, NEW n \in Nat \ {0}, Onward(t) # t.target, ResetsAtTarget(t),
         NEW u, u = [t EXCEPT !.counter = Onward(t)]
  PROVE  ClockResetAtTarget(t, n + 1) = ClockResetAtTarget(u, n)
<1>1. t.counter \in 0..Max /\ t.target \in 0..Max /\ Max \in Nat \ {0}
  BY MaxAssumption DEF Timers, Values
<1>2. Onward(t) \in Values /\ Onward(t) < t.target
  <2>1. Onward(t) \in Values /\ Onward(t) <= t.target
    BY ResetTick, Zenon
  <2> QED BY <1>1, <2>1 DEF Values
<1>3. u \in Timers /\ u.counter = Onward(t) /\ Settings(u) = Settings(t)
  BY <1>2 DEF Timers, Settings
<1>4. u.target = t.target /\ u.irqAtTarget = t.irqAtTarget /\ (Toggles(u) <=> Toggles(t))
  BY <1>3 DEF Settings, Toggles
<1>5. Start(u) = Onward(t) /\ Left(u, n) = n
  BY <1>1, <1>2, <1>3, <1>4 DEF Start, Left, Values
<1>6. /\ Start(t) + Left(t, n + 1) = Start(u) + Left(u, n)
      /\ Beyond(t, n + 1) = Beyond(u, n)
  BY <1>1, <1>2, <1>4, <1>5 DEF Start, Left, Beyond, Onward, Values
<1>7. End(t, n + 1) = End(u, n) /\ Visits(t, n + 1) = Visits(u, n)
  BY <1>4, <1>6 DEF End, Visits
<1>8. /\ Reached(t, n + 1) = Reached(u, n)
      /\ [t EXCEPT !.counter = Start(u) + Left(u, n)]
           = [u EXCEPT !.counter = Start(u) + Left(u, n)]
  BY <1>3, <1>7 DEF Reached, Timers
<1>9. ClockResetAtTarget(t, n + 1) =
        IF Beyond(u, n) < -1 THEN [t EXCEPT !.counter = Start(u) + Left(u, n)]
        ELSE IF t.irqAtTarget THEN TriggerTimes(Reached(u, n), Visits(u, n))
        ELSE Reached(u, n)
  <2>1. n + 1 \in Nat
    OBVIOUS
  <2>2. ClockResetAtTarget(t, n + 1) =
          IF Beyond(t, n + 1) < -1 THEN [t EXCEPT !.counter = Start(t) + Left(t, n + 1)]
          ELSE IF t.irqAtTarget THEN TriggerTimes(Reached(t, n + 1), Visits(t, n + 1))
          ELSE Reached(t, n + 1)
    BY <2>1, ResetForm
  <2> QED BY <1>6, <1>7, <1>8, <2>2, Zenon
<1>10. ClockResetAtTarget(u, n) =
         IF Beyond(u, n) < -1 THEN [u EXCEPT !.counter = Start(u) + Left(u, n)]
         ELSE IF u.irqAtTarget THEN TriggerTimes(Reached(u, n), Visits(u, n))
         ELSE Reached(u, n)
  BY <1>3, ResetForm
<1> QED BY <1>4, <1>8, <1>9, <1>10, Zenon

\* At the target, there is one visit fewer among the rest of the clocks.
LEMMA ResetAtNumbers ==
  ASSUME NEW t \in Timers, NEW n \in Nat \ {0}, Onward(t) = t.target,
         NEW u \in Timers, u.counter = t.target, Settings(u) = Settings(t)
  PROVE  /\ Beyond(t, n + 1) = n - 1 /\ n - 1 \in Nat
         /\ Start(u) = 0 /\ Left(u, n) = n - 1 /\ Beyond(u, n) = (n - 1) - (t.target + 1)
         /\ Beyond(u, n) < -1 =>
              n - 1 \in Values /\ End(t, n + 1) = n - 1 /\ Visits(t, n + 1) = 1
         /\ Beyond(u, n) >= -1 =>
              /\ End(t, n + 1) = End(u, n)
              /\ Visits(t, n + 1) = IF Toggles(t) THEN Visits(u, n) + 1 ELSE 1
<1> DEFINE p == t.target + 1
           b == Beyond(u, n)
<1>1. t.counter \in 0..Max /\ t.target \in 0..Max /\ Max \in Nat \ {0} /\ n \in Nat \ {0}
  BY MaxAssumption DEF Timers, Values
<1>2. u.target = t.target /\ (Toggles(u) <=> Toggles(t))
  BY DEF Settings, Toggles
<1>3. t.counter >= t.target \/ t.counter + 1 = t.target
  BY <1>1 DEF Onward
<1>4. Beyond(t, n + 1) = n - 1
  BY <1>1, <1>3 DEF Beyond, Left, Start, Onward
<1>5. Start(u) = 0 /\ Left(u, n) = n - 1 /\ b = (n - 1) - p
  BY <1>1, <1>2 DEF Beyond, Left, Start
<1>6. p \in Nat \ {0} /\ n - 1 \in Nat /\ b \in Int
  BY <1>1, <1>5
<1>7. /\ End(t, n + 1) = (n - 1) % p
      /\ Visits(t, n + 1) = 1 + (IF Toggles(t) THEN n \div p ELSE 0)
  BY <1>1, <1>4, <1>6 DEF End, Visits
<1>8. /\ End(u, n) = IF b < 0 THEN t.target ELSE b % p
      /\ Visits(u, n) = 1 + (IF Toggles(t) /\ b >= 0 THEN (b + 1) \div p ELSE 0)
  BY <1>2 DEF End, Visits
<1> HIDE DEF p, b
<1>9. CASE b < -1
  <2>1. n - 1 \in 0..(p - 1) /\ n \in 0..(p - 1) /\ n - 1 \in 0..Max
    BY <1>1, <1>5, <1>6, <1>9 DEF p
  <2>2. (n - 1) % p = n - 1 /\ n \div p = 0
    BY <1>6, <2>1, DivSmall
  <2>3. Visits(t, n + 1) = 1
    BY <1>7, <2>2
  <2> QED BY <1>4, <1>5, <1>6, <1>7, <1>9, <2>1, <2>2, <2>3 DEF b, p, Values
<1>10. CASE b = -1
  <2>1. n - 1 \in 0..(p - 1) /\ n - 1 = t.target /\ n = p
    BY <1>1, <1>5, <1>6, <1>10 DEF p
  <2>2. (n - 1) % p = n - 1
    BY <1>6, <2>1, DivSmall
  <2>3. n \div p = 1
    <3>1. 0 \in 0..(p - 1) /\ p * 1 + 0 = n /\ 1 \in Int
      BY <1>6, <2>1
    <3> QED BY <1>6, <3>1, DivUnique
  <2>4. End(t, n + 1) = End(u, n)
    BY <1>7, <1>8, <1>10, <2>1, <2>2
  <2>5. Visits(t, n + 1) = IF Toggles(t) THEN Visits(u, n) + 1 ELSE 1
    BY <1>7, <1>8, <1>10, <2>3
  <2> QED BY <1>4, <1>5, <1>6, <1>10, <2>4, <2>5 DEF b, p
<1>11. CASE b >= 0
  <2>1. b \in Nat /\ b + 1 \in Nat /\ n - 1 = b + p /\ n = (b + 1) + p
    BY <1>5, <1>6, <1>11
  <2>2. (n - 1) % p = b % p /\ n \div p = ((b + 1) \div p) + 1
    BY <1>6, <2>1, DivShift
  <2>3. (b + 1) \div p \in Nat
    BY <1>6, <2>1, DivMod
  <2>4. End(t, n + 1) = End(u, n)
    BY <1>7, <1>8, <1>11, <2>1, <2>2
  <2>5. Visits(t, n + 1) = IF Toggles(t) THEN Visits(u, n) + 1 ELSE 1
    BY <1>7, <1>8, <1>11, <2>2, <2>3
  <2> QED BY <1>4, <1>5, <1>6, <1>11, <2>4, <2>5 DEF b, p
<1> QED BY <1>6, <1>9, <1>10, <1>11

LEMMA ResetAt ==
  ASSUME NEW t \in Timers, NEW n \in Nat \ {0}, Onward(t) = t.target, ResetsAtTarget(t)
  PROVE  ClockResetAtTarget(t, n + 1) = ClockResetAtTarget(Tick(t), n)
<1> DEFINE r == [t EXCEPT !.counter = t.target, !.reachedTarget = TRUE]
           u == IF t.irqAtTarget THEN TriggerIrq(r) ELSE r
<1>1. Tick(t) = u
  BY ResetTick, Zenon
<1>2. r \in Timers /\ r.counter = t.target /\ r.reachedTarget /\ Settings(r) = Settings(t)
  BY DEF Timers, Settings
<1>3. /\ u \in Timers /\ u.counter = t.target /\ Settings(u) = Settings(t)
      /\ u.reachedTarget = TRUE /\ u.reachedMax = t.reachedMax
  <2>1. r.reachedMax = t.reachedMax
    BY DEF Timers
  <2> HIDE DEF r
  <2> QED BY <1>2, <2>1, TriggerTyped, TriggerSettings
<1>4. u.irqAtTarget = t.irqAtTarget /\ (Toggles(u) <=> Toggles(t))
  <2> HIDE DEF u
  <2> QED BY <1>3 DEF Settings, Toggles
<1>5. \A c \in Values :
        LET x == [t EXCEPT !.counter = c, !.reachedTarget = TRUE]
            y == [u EXCEPT !.counter = c]
        IN  /\ x \in Timers /\ (Toggles(x) <=> Toggles(t))
            /\ y = [u EXCEPT !.reachedTarget = TRUE, !.counter = c]
            /\ y = IF t.irqAtTarget THEN TriggerIrq(x) ELSE x
  <2> SUFFICES ASSUME NEW c \in Values
               PROVE  LET x == [t EXCEPT !.counter = c, !.reachedTarget = TRUE]
                          y == [u EXCEPT !.counter = c]
                      IN  /\ x \in Timers /\ (Toggles(x) <=> Toggles(t))
                          /\ y = [u EXCEPT !.reachedTarget = TRUE, !.counter = c]
                          /\ y = IF t.irqAtTarget THEN TriggerIrq(x) ELSE x
    OBVIOUS
  <2> DEFINE x == [t EXCEPT !.counter = c, !.reachedTarget = TRUE]
             y == [u EXCEPT !.counter = c]
  <2>1. x \in Timers /\ (Toggles(x) <=> Toggles(t))
    BY DEF Timers, Toggles
  <2>2. /\ y = [u EXCEPT !.reachedTarget = TRUE, !.counter = c]
        /\ y = [u EXCEPT !.counter = c, !.reachedTarget = TRUE, !.reachedMax = t.reachedMax]
    <3> HIDE DEF u
    <3> QED BY <1>3 DEF Timers
  <2>3. CASE t.irqAtTarget
    <3>1. t.reachedMax \in BOOLEAN
      BY DEF Timers
    <3>2. y = [TriggerIrq(r) EXCEPT !.counter = c, !.reachedTarget = TRUE,
                                    !.reachedMax = t.reachedMax]
      BY <2>2, <2>3, Zenon
    <3>3. y = TriggerIrq([r EXCEPT !.counter = c, !.reachedTarget = TRUE,
                                   !.reachedMax = t.reachedMax])
      <4>1. TRUE \in BOOLEAN
        OBVIOUS
      <4> HIDE DEF r, y
      <4>2. \A a \in BOOLEAN, b \in BOOLEAN :
              [TriggerIrq(r) EXCEPT !.counter = c, !.reachedTarget = a, !.reachedMax = b]
                = TriggerIrq([r EXCEPT !.counter = c, !.reachedTarget = a, !.reachedMax = b])
        BY <1>2, TriggerElsewhere
      <4> QED BY <3>1, <3>2, <4>1, <4>2, Zenon
    <3>4. [r EXCEPT !.counter = c, !.reachedTarget = TRUE, !.reachedMax = t.reachedMax] = x
      BY DEF Timers
    <3> QED BY <2>1, <2>2, <2>3, <3>3, <3>4, Zenon
  <2>4. CASE ~t.irqAtTarget
    <3>1. y = x
      BY <2>4 DEF Timers
    <3> QED BY <2>1, <2>2, <2>4, <3>1, Zenon
  <2> QED BY <2>3, <2>4
<1> HIDE DEF r, u
<1>6. ClockResetAtTarget(t, n + 1) =
        IF Beyond(t, n + 1) < -1 THEN [t EXCEPT !.counter = Start(t) + Left(t, n + 1)]
        ELSE IF t.irqAtTarget THEN TriggerTimes(Reached(t, n + 1), Visits(t, n + 1))
        ELSE Reached(t, n + 1)
  <2>1. n + 1 \in Nat
    OBVIOUS
  <2> QED BY <2>1, ResetForm
<1>7. ClockResetAtTarget(u, n) =
        IF Beyond(u, n) < -1 THEN [u EXCEPT !.counter = Start(u) + Left(u, n)]
        ELSE IF u.irqAtTarget THEN TriggerTimes(Reached(u, n), Visits(u, n))
        ELSE Reached(u, n)
  BY <1>3, ResetForm
<1>8. /\ Beyond(t, n + 1) = n - 1 /\ n - 1 \in Nat
      /\ Start(u) = 0 /\ Left(u, n) = n - 1
      /\ Beyond(u, n) < -1 =>
           n - 1 \in Values /\ End(t, n + 1) = n - 1 /\ Visits(t, n + 1) = 1
      /\ Beyond(u, n) >= -1 =>
           /\ End(t, n + 1) = End(u, n)
           /\ Visits(t, n + 1) = IF Toggles(t) THEN Visits(u, n) + 1 ELSE 1
  BY <1>3, ResetAtNumbers
<1>9. /\ Beyond(u, n) \in Int /\ (Beyond(u, n) >= -1 => End(u, n) \in Values)
      /\ Visits(u, n) \in Nat \ {0} /\ (~Toggles(t) => Visits(u, n) = 1)
  BY <1>3, <1>4, ResetNumbers
<1>10. ClockResetAtTarget(t, n + 1) =
         IF t.irqAtTarget THEN TriggerTimes(Reached(t, n + 1), Visits(t, n + 1))
         ELSE Reached(t, n + 1)
  <2>1. ~(Beyond(t, n + 1) < -1)
    BY <1>8
  <2> QED BY <1>6, <2>1, Zenon
<1>11. CASE Beyond(u, n) < -1
  <2>1. Reached(t, n + 1) = [t EXCEPT !.counter = n - 1, !.reachedTarget = TRUE]
    BY <1>8, <1>11 DEF Reached, Timers
  <2>2. ClockResetAtTarget(u, n) = [u EXCEPT !.counter = n - 1]
    <3>1. Start(u) + Left(u, n) = n - 1
      BY <1>8
    <3> QED BY <1>7, <1>11, <3>1, Zenon
  <2>3. n - 1 \in Values /\ Visits(t, n + 1) = 1
    BY <1>8, <1>11
  <2>4. Reached(t, n + 1) \in Timers
    BY <1>5, <2>1, <2>3, Zenon
  <2>5. TriggerTimes(Reached(t, n + 1), 1) = TriggerIrq(Reached(t, n + 1))
    BY <2>4, TriggerTimesIs
  <2>6. [u EXCEPT !.counter = n - 1] =
          IF t.irqAtTarget THEN TriggerIrq(Reached(t, n + 1)) ELSE Reached(t, n + 1)
    BY <1>5, <2>1, <2>3, Zenon
  <2> QED BY <1>1, <1>10, <2>2, <2>3, <2>5, <2>6, Zenon
<1>12. CASE Beyond(u, n) >= -1
  <2> DEFINE x == Reached(t, n + 1)
  <2>1. End(t, n + 1) = End(u, n) /\ End(u, n) \in Values /\ ~(Beyond(u, n) < -1)
    BY <1>8, <1>9, <1>12
  <2>2. x = [t EXCEPT !.counter = End(u, n), !.reachedTarget = TRUE]
    BY <2>1 DEF Reached, Timers
  <2>3. Reached(u, n) = [u EXCEPT !.counter = End(u, n)]
    BY <1>5, <2>1, Zenon DEF Reached
  <2>4. /\ x \in Timers /\ (Toggles(x) <=> Toggles(t))
        /\ Reached(u, n) = IF t.irqAtTarget THEN TriggerIrq(x) ELSE x
    BY <1>5, <2>1, <2>2, <2>3, Zenon
  <2>5. Visits(t, n + 1) = IF Toggles(t) THEN Visits(u, n) + 1 ELSE 1
    BY <1>8, <1>12
  <2>6. ClockResetAtTarget(u, n) =
          IF t.irqAtTarget THEN TriggerTimes(TriggerIrq(x), Visits(u, n)) ELSE x
    BY <1>4, <1>7, <2>1, <2>4, Zenon
  <2> HIDE DEF x
  <2>7. TriggerTimes(TriggerIrq(x), Visits(u, n)) = TriggerTimes(x, Visits(t, n + 1))
    <3>1. CASE Toggles(t)
      BY <1>9, <2>4, <2>5, <3>1, TriggerOneMore
    <3>2. CASE ~Toggles(t)
      BY <1>9, <2>4, <2>5, <3>2, TriggerOneMore
    <3> QED BY <3>1, <3>2
  <2> QED BY <1>1, <1>10, <2>6, <2>7, Zenon DEF x
<1> QED BY <1>9, <1>11, <1>12

LEMMA ResetOnce ==
  ASSUME NEW t \in Timers, ResetsAtTarget(t)
  PROVE  ClockResetAtTarget(t, 1) = Tick(t)
<1>1. t.counter \in 0..Max /\ t.target \in 0..Max /\ Max \in Nat \ {0}
  BY MaxAssumption DEF Timers, Values
<1>2. ClockResetAtTarget(t, 1) =
        IF Beyond(t, 1) < -1 THEN [t EXCEPT !.counter = Start(t) + Left(t, 1)]
        ELSE IF t.irqAtTarget THEN TriggerTimes(Reached(t, 1), Visits(t, 1))
        ELSE Reached(t, 1)
  BY ResetForm
<1>3. CASE Onward(t) # t.target
  <2>1. Beyond(t, 1) < -1 /\ Start(t) + Left(t, 1) = Onward(t)
    BY <1>1, <1>3 DEF Beyond, Start, Left, Onward
  <2>2. Tick(t) = [t EXCEPT !.counter = Onward(t)]
    BY <1>3, ResetTick, Zenon
  <2> QED BY <1>2, <2>1, <2>2, Zenon
<1>4. CASE Onward(t) = t.target
  <2> DEFINE r == [t EXCEPT !.counter = t.target, !.reachedTarget = TRUE]
  <2>1. Beyond(t, 1) = -1
    BY <1>1, <1>4 DEF Beyond, Start, Left, Onward
  <2>2. End(t, 1) = t.target /\ Visits(t, 1) = 1 /\ ~(Beyond(t, 1) < -1)
    BY <2>1 DEF End, Visits
  <2>3. Reached(t, 1) = r /\ r \in Timers
    BY <2>2 DEF Reached, Timers
  <2>4. TriggerTimes(r, 1) = TriggerIrq(r)
    BY <2>3, TriggerTimesIs
  <2>5. Tick(t) = IF t.irqAtTarget THEN TriggerIrq(r) ELSE r
    BY <1>4, ResetTick, Zenon
  <2> HIDE DEF r
  <2>6. ClockResetAtTarget(t, 1) =
          IF t.irqAtTarget THEN TriggerTimes(r, 1) ELSE r
    BY <1>2, <2>2, <2>3
  <2> QED BY <2>4, <2>5, <2>6
<1> QED BY <1>3, <1>4

\* The path as a whole.
LEMMA ResetByTicks ==
  ASSUME NEW t \in Timers, NEW n \in Nat \ {0}, ResetsAtTarget(t)
  PROVE  /\ ClockResetAtTarget(t, n + 1) = ClockResetAtTarget(Tick(t), n)
         /\ ClockResetAtTarget(t, 1) = Tick(t)
         /\ Tick(t) \in Timers /\ ResetsAtTarget(Tick(t))
<1> DEFINE u == Tick(t)
           r == [t EXCEPT !.counter = t.target, !.reachedTarget = TRUE]
           s == [t EXCEPT !.counter = Onward(t)]
<1>1. Onward(t) \in Values /\ t.target \in Values
  BY ResetTick, Zenon DEF Timers
<1>2. r \in Timers /\ Settings(r) = Settings(t) /\ s \in Timers /\ Settings(s) = Settings(t)
  BY <1>1 DEF Timers, Settings
<1>3. TriggerIrq(r) \in Timers /\ Settings(TriggerIrq(r)) = Settings(t)
  <2> HIDE DEF r
  <2> QED BY <1>2, TriggerTyped, TriggerSettings
<1>4. u \in {s, r, TriggerIrq(r)}
  BY ResetTick, Zenon
<1>5. u \in Timers /\ Settings(u) = Settings(t)
  <2> HIDE DEF u, r, s
  <2> QED BY <1>2, <1>3, <1>4, Zenon
<1>6. ResetsAtTarget(u)
  <2> HIDE DEF u
  <2> QED BY <1>5 DEF Settings, ResetsAtTarget
<1>7. CASE Onward(t) # t.target
  <2>1. u = s
    BY <1>7, ResetTick, Zenon
  <2> QED BY <1>5, <1>6, <1>7, <2>1, ResetBefore, ResetOnce, Zenon
<1>8. CASE Onward(t) = t.target
  BY <1>5, <1>6, <1>8, ResetAt, ResetOnce, Zenon
<1> QED BY <1>7, <1>8

-----------------------------------------------------------------------------
(***************************************************************************)
(* The path that runs up to Max with interrupts that need not be counted.  *)
(***************************************************************************)
Distance(from, to) == IF to > from THEN to - from ELSE Max + 1 - (from - to)
HitsTarget(t, n) == n >= Distance(t.counter, t.target)
HitsMax(t, n) == n >= Distance(t.counter, Max)
Fires(t, n) == (t.irqAtTarget /\ HitsTarget(t, n)) \/ (t.irqAtMax /\ HitsMax(t, n))

\* What some clocks pass: the target, Max, an interrupt.
Marks == [target : BOOLEAN, max : BOOLEAN, irq : BOOLEAN]
Hits(t, n) == [target |-> HitsTarget(t, n), max |-> HitsMax(t, n), irq |-> Fires(t, n)]
Both(m, w) == [target |-> m.target \/ w.target, max |-> m.max \/ w.max,
               irq |-> m.irq \/ w.irq]

After(t, c, m) ==
  TriggerIf([t EXCEPT !.counter = c, !.reachedTarget = @ \/ m.target,
                      !.reachedMax = @ \/ m.max], m.irq)

Uncounted(t) == ~ResetsAtTarget(t) /\ ~CountsToggles(t)

\* Several interrupts are as good as one.
LEMMA AfterTwice ==
  ASSUME NEW t \in Timers, NEW c \in Values, NEW d \in Values,
         NEW m \in Marks, NEW n \in Marks, ~Toggles(t) \/ (~m.irq /\ ~n.irq)
  PROVE  After(After(t, c, m), d, n) = After(t, d, Both(m, n))
<1> DEFINE a == m.target
           b == m.max
           f == m.irq
           g == n.target
           h == n.max
           k == n.irq
<1>0. /\ a \in BOOLEAN /\ b \in BOOLEAN /\ f \in BOOLEAN
      /\ g \in BOOLEAN /\ h \in BOOLEAN /\ k \in BOOLEAN
      /\ ~Toggles(t) \/ (~f /\ ~k)
  BY DEF Marks
<1>a. /\ Both(m, n).target = (a \/ g) /\ Both(m, n).max = (b \/ h)
      /\ Both(m, n).irq = (f \/ k)
  BY DEF Both
<1> DEFINE x == [t EXCEPT !.counter = c, !.reachedTarget = @ \/ a, !.reachedMax = @ \/ b]
           y == [t EXCEPT !.counter = d, !.reachedTarget = @ \/ (a \/ g),
                          !.reachedMax = @ \/ (b \/ h)]
           z == [x EXCEPT !.counter = d, !.reachedTarget = @ \/ g, !.reachedMax = @ \/ h]
<1>b. After(After(t, c, m), d, n) =
        TriggerIf([After(t, c, m) EXCEPT !.counter = d, !.reachedTarget = @ \/ g,
                                         !.reachedMax = @ \/ h], k)
  BY Zenon DEF After
<1>2. After(t, c, m) = IF f THEN TriggerIrq(x) ELSE x
  BY Zenon DEF After, TriggerIf
<1>3. After(t, d, Both(m, n)) = IF f \/ k THEN TriggerIrq(y) ELSE y
  BY <1>a, Zenon DEF After, TriggerIf
<1> HIDE DEF a, b, f, g, h, k
<1>1. z = y /\ y \in Timers /\ x \in Timers /\ (Toggles(y) <=> Toggles(t))
  <2> DEFINE pa == t.reachedTarget \/ a
             pb == t.reachedMax \/ b
             pg == t.reachedTarget \/ (a \/ g)
             ph == t.reachedMax \/ (b \/ h)
  <2>1. pa \in BOOLEAN /\ pb \in BOOLEAN /\ pg \in BOOLEAN /\ ph \in BOOLEAN
    BY Zenon
  <2>2. (pa \/ g) = pg /\ (pb \/ h) = ph
    BY Zenon
  <2>3. /\ [t EXCEPT !.counter = c, !.reachedTarget = pa, !.reachedMax = pb] \in Timers
        /\ [t EXCEPT !.counter = d, !.reachedTarget = pg, !.reachedMax = ph] \in Timers
    <3> HIDE DEF pa, pb, pg, ph
    <3> QED BY <2>1 DEF Timers
  <2>4. x.reachedTarget = pa /\ x.reachedMax = pb
    <3> DEFINE v == [t EXCEPT !.counter = c, !.reachedTarget = pa, !.reachedMax = pb]
    <3>1. x = v
      BY Zenon
    <3>2. v.reachedTarget = pa /\ v.reachedMax = pb
      <4> HIDE DEF pa, pb
      <4> QED BY DEF Timers
    <3> HIDE DEF x, v
    <3> QED BY <3>1, <3>2, Zenon
  <2>5. z = [x EXCEPT !.counter = d, !.reachedTarget = pg, !.reachedMax = ph]
    <3> HIDE DEF x
    <3> QED BY <2>2, <2>4, Zenon
  <2>6. y = [t EXCEPT !.counter = d, !.reachedTarget = pg, !.reachedMax = ph]
    BY Zenon
  <2>7. [[t EXCEPT !.counter = c, !.reachedTarget = pa, !.reachedMax = pb]
           EXCEPT !.counter = d, !.reachedTarget = pg, !.reachedMax = ph]
          = [t EXCEPT !.counter = d, !.reachedTarget = pg, !.reachedMax = ph]
    <3> HIDE DEF pa, pb, pg, ph
    <3> QED BY DEF Timers
  <2>8. y.repeat = t.repeat /\ y.toggle = t.toggle
    BY DEF Timers
  <2>9. z = y
    BY <2>5, <2>6, <2>7, Zenon
  <2> QED BY <2>3, <2>6, <2>8, <2>9, Zenon DEF Toggles
<1>4. CASE f
  <2> DEFINE w == TriggerIrq(x)
  <2>1. x.reachedTarget \in BOOLEAN /\ x.reachedMax \in BOOLEAN
    <3> HIDE DEF x
    <3> QED BY <1>1 DEF Timers
  <2>2. w.reachedTarget = x.reachedTarget /\ w.reachedMax = x.reachedMax
    <3> HIDE DEF x
    <3> QED BY <1>1, TriggerSettings
  <2>3. [w EXCEPT !.counter = d, !.reachedTarget = @ \/ g, !.reachedMax = @ \/ h]
          = [w EXCEPT !.counter = d, !.reachedTarget = x.reachedTarget \/ g,
                      !.reachedMax = x.reachedMax \/ h]
    <3> HIDE DEF x, w
    <3> QED BY <2>2
  <2>4. \A p \in BOOLEAN, q \in BOOLEAN :
          [TriggerIrq(x) EXCEPT !.counter = d, !.reachedTarget = p, !.reachedMax = q]
            = TriggerIrq([x EXCEPT !.counter = d, !.reachedTarget = p, !.reachedMax = q])
    <3> HIDE DEF x
    <3> QED BY <1>1, TriggerElsewhere
  <2>5. (x.reachedTarget \/ g) \in BOOLEAN /\ (x.reachedMax \/ h) \in BOOLEAN
    BY Zenon
  <2>6. z = [x EXCEPT !.counter = d, !.reachedTarget = x.reachedTarget \/ g,
                      !.reachedMax = x.reachedMax \/ h]
    <3> HIDE DEF x
    <3> QED OBVIOUS
  <2>7. [w EXCEPT !.counter = d, !.reachedTarget = @ \/ g, !.reachedMax = @ \/ h] = TriggerIrq(z)
    <3> HIDE DEF x
    <3> QED BY <2>3, <2>4, <2>5, <2>6, Zenon
  <2>8. ~Toggles(y) => TriggerIrq(TriggerIrq(y)) = TriggerIrq(y)
    <3> HIDE DEF y
    <3> QED BY <1>1, TriggerTwice
  <2>9. After(w, d, n) = IF k THEN TriggerIrq(TriggerIrq(z)) ELSE TriggerIrq(z)
    <3>1. After(w, d, n) = TriggerIf([w EXCEPT !.counter = d, !.reachedTarget = @ \/ g,
                                               !.reachedMax = @ \/ h], k)
      BY <1>b, <1>2, <1>4, Zenon
    <3> HIDE DEF x, z, w
    <3> QED BY <2>7, <3>1, Zenon DEF TriggerIf
  <2> HIDE DEF x, y, z
  <2> QED BY <1>0, <1>1, <1>2, <1>3, <1>4, <2>8, <2>9, Zenon
<1>5. CASE ~f
  <2>1. After(x, d, n) = IF k THEN TriggerIrq(z) ELSE z
    <3> HIDE DEF x
    <3> QED BY <1>b, <1>2, <1>5, Zenon DEF TriggerIf
  <2> HIDE DEF x, y, z
  <2> QED BY <1>1, <1>2, <1>3, <1>5, <2>1, Zenon
<1> QED BY <1>4, <1>5

\* One clock brings the counter one closer to a value, or to it.
LEMMA DistanceStep ==
  ASSUME NEW c \in Values, NEW to \in Values, NEW n \in Nat,
         NEW d, d = (c + 1) % (Max + 1)
  PROVE  /\ d \in Values /\ d = (IF c = Max THEN 0 ELSE c + 1)
         /\ Distance(c, to) \in 1..(Max + 1)
         /\ Distance(c, to) = 1 <=> d = to
         /\ Distance(c, to) # 1 => Distance(d, to) = Distance(c, to) - 1
         /\ (d + n) % (Max + 1) = (c + (n + 1)) % (Max + 1)
         /\ (c + n) % (Max + 1) \in Values
<1>1. c \in 0..Max /\ to \in 0..Max /\ Max \in Nat \ {0} /\ Max + 1 \in Nat \ {0}
  BY MaxAssumption DEF Values
<1>2. d = (IF c = Max THEN 0 ELSE c + 1)
  <2>1. CASE c = Max
    <3>1. (Max + 1) * 1 + 0 = c + 1 /\ 0 \in 0..((Max + 1) - 1) /\ 1 \in Int
      BY <1>1, <2>1
    <3>2. (c + 1) % (Max + 1) = 0
      BY <1>1, <3>1, DivUnique
    <3> QED BY <2>1, <3>2
  <2>2. CASE c # Max
    <3>1. c + 1 \in 0..((Max + 1) - 1)
      BY <1>1, <2>2
    <3>2. (c + 1) % (Max + 1) = c + 1
      BY <1>1, <3>1, DivSmall
    <3> QED BY <2>2, <3>2
  <2> QED BY <2>1, <2>2
<1>3. (d + n) % (Max + 1) = (c + (n + 1)) % (Max + 1)
  <2>1. CASE c = Max
    <3>1. d + n = n /\ c + (n + 1) = n + (Max + 1)
      BY <1>1, <1>2, <2>1
    <3>2. (n + (Max + 1)) % (Max + 1) = n % (Max + 1)
      BY <1>1, DivShift
    <3> QED BY <3>1, <3>2
  <2>2. CASE c # Max
    <3>1. d + n = c + (n + 1)
      BY <1>1, <1>2, <2>2
    <3> QED BY <3>1
  <2> QED BY <2>1, <2>2
<1>4. (c + n) % (Max + 1) \in Values
  <2>1. c + n \in Nat /\ (Max + 1) - 1 = Max
    BY <1>1
  <2>2. (c + n) % (Max + 1) \in 0..((Max + 1) - 1)
    BY <1>1, <2>1, DivMod
  <2> QED BY <2>1, <2>2 DEF Values
<1>5. /\ d \in Values /\ Distance(c, to) \in 1..(Max + 1)
      /\ Distance(c, to) = 1 <=> d = to
      /\ Distance(c, to) # 1 => Distance(d, to) = Distance(c, to) - 1
  BY <1>1, <1>2 DEF Distance, Values
<1> QED BY <1>2, <1>3, <1>4, <1>5

LEMMA PulseNumbers ==
  ASSUME NEW t \in Timers, NEW n \in Nat \ {0},
         NEW u \in Timers, u.counter = (t.counter + 1) % (Max + 1), Settings(u) = Settings(t)
  PROVE  /\ HitsTarget(t, n + 1) <=> HitsTarget(t, 1) \/ HitsTarget(u, n)
         /\ HitsMax(t, n + 1) <=> HitsMax(t, 1) \/ HitsMax(u, n)
         /\ Fires(t, n + 1) <=> Fires(t, 1) \/ Fires(u, n)
         /\ (u.counter + n) % (Max + 1) = (t.counter + (n + 1)) % (Max + 1)
<1>1. t.counter \in Values /\ t.target \in Values /\ Max \in Values /\ u.target = t.target
      /\ u.irqAtTarget = t.irqAtTarget /\ u.irqAtMax = t.irqAtMax
  BY MaxAssumption DEF Timers, Settings, Values
<1>2. \A to \in Values :
        n + 1 >= Distance(t.counter, to) <=>
          1 >= Distance(t.counter, to) \/ n >= Distance(u.counter, to)
  <2> SUFFICES ASSUME NEW to \in Values
               PROVE  n + 1 >= Distance(t.counter, to) <=>
                        1 >= Distance(t.counter, to) \/ n >= Distance(u.counter, to)
    OBVIOUS
  <2> DEFINE x == Distance(t.counter, to)
             y == Distance(u.counter, to)
  <2>1. x \in 1..(Max + 1) /\ (x # 1 => y = x - 1)
    BY <1>1, DistanceStep
  <2> HIDE DEF x, y
  <2>2. n + 1 >= x <=> 1 >= x \/ n >= y
    BY <2>1, MaxAssumption
  <2> QED BY <2>2 DEF x, y
<1>3. /\ HitsTarget(t, n + 1) <=> HitsTarget(t, 1) \/ HitsTarget(u, n)
      /\ HitsMax(t, n + 1) <=> HitsMax(t, 1) \/ HitsMax(u, n)
  BY <1>1, <1>2 DEF HitsTarget, HitsMax
<1>4. Fires(t, n + 1) <=> Fires(t, 1) \/ Fires(u, n)
  BY <1>1, <1>3, Zenon DEF Fires
<1>5. (u.counter + n) % (Max + 1) = (t.counter + (n + 1)) % (Max + 1)
  BY <1>1, DistanceStep
<1> QED BY <1>3, <1>4, <1>5

LEMMA PulseTick ==
  ASSUME NEW t \in Timers, ~ResetsAtTarget(t)
  PROVE  Tick(t) = After(t, (t.counter + 1) % (Max + 1), Hits(t, 1))
<1> SUFFICES ASSUME NEW d, d = (t.counter + 1) % (Max + 1)
             PROVE  Tick(t) = After(t, d, Hits(t, 1))
  OBVIOUS
<1>1. t.counter \in Values /\ t.target \in Values /\ Max \in Values
  BY MaxAssumption DEF Timers, Values
<1>2. /\ Distance(t.counter, t.target) \in 1..(Max + 1)
      /\ Distance(t.counter, Max) \in 1..(Max + 1)
      /\ Distance(t.counter, t.target) = 1 <=> d = t.target
      /\ Distance(t.counter, Max) = 1 <=> d = Max
  BY <1>1, DistanceStep
<1>3. (HitsTarget(t, 1) <=> d = t.target) /\ (HitsMax(t, 1) <=> d = Max)
  BY <1>2, MaxAssumption DEF HitsTarget, HitsMax
<1>4. /\ HitsTarget(t, 1) = (d = t.target)
      /\ HitsMax(t, 1) = (~ResetsAtTarget(t) /\ d = Max)
  <2>1. HitsTarget(t, 1) \in BOOLEAN /\ HitsMax(t, 1) \in BOOLEAN
    BY <1>2, MaxAssumption DEF HitsTarget, HitsMax
  <2> QED BY <1>3, <2>1, Zenon
<1>5. Fires(t, 1) = ((t.irqAtTarget /\ d = t.target)
                       \/ (t.irqAtMax /\ (~ResetsAtTarget(t) /\ d = Max)))
  BY <1>4, Zenon DEF Fires
<1>6. Tick(t) = TriggerIf([t EXCEPT !.counter = d, !.reachedTarget = @ \/ d = t.target,
                                    !.reachedMax = @ \/ (~ResetsAtTarget(t) /\ d = Max)],
                          (t.irqAtTarget /\ d = t.target)
                            \/ (t.irqAtMax /\ (~ResetsAtTarget(t) /\ d = Max)))
  BY Zenon DEF Tick
<1>7. /\ Hits(t, 1).target = HitsTarget(t, 1) /\ Hits(t, 1).max = HitsMax(t, 1)
      /\ Hits(t, 1).irq = Fires(t, 1)
  BY DEF Hits
<1> QED BY <1>4, <1>5, <1>6, <1>7, Zenon DEF After

LEMMA PulseForm ==
  ASSUME NEW t \in Timers, NEW n \in Nat \ {0}, Uncounted(t)
  PROVE  ClockPulse(t, n) = After(t, (t.counter + n) % (Max + 1), Hits(t, n))
<1>1. /\ t.counter \in 0..Max /\ t.target \in 0..Max /\ Max \in Nat \ {0}
      /\ t.irqAtTarget \in BOOLEAN /\ t.irqAtMax \in BOOLEAN
      /\ t.reachedTarget \in BOOLEAN /\ t.reachedMax \in BOOLEAN
  BY MaxAssumption DEF Timers, Values
<1>a. /\ Hits(t, n).target = HitsTarget(t, n) /\ Hits(t, n).max = HitsMax(t, n)
      /\ Hits(t, n).irq = Fires(t, n)
  BY DEF Hits
<1>2. CASE t.counter # Max
  <2> DEFINE a == n >= Max - t.counter
             b == n >= IF t.target > t.counter THEN t.target - t.counter
                       ELSE Max + 1 - (t.counter - t.target)
             s == TriggerIf([t EXCEPT !.counter = IF t.counter = Max THEN 0 ELSE @,
                               !.reachedTarget = @ \/ (t.counter = Max /\ t.target = 0)],
                            (t.counter = Max /\ t.target = 0) /\ t.irqAtTarget)
  <2>1. s = t
    <3>1. [t EXCEPT !.counter = IF t.counter = Max THEN 0 ELSE @,
                    !.reachedTarget = @ \/ (t.counter = Max /\ t.target = 0)] = t
      BY <1>2 DEF Timers
    <3> QED BY <1>2, <3>1, Zenon DEF TriggerIf
  <2>2. (IF t.counter = Max THEN n - 1 ELSE n) = n
    BY <1>2
  <2>3. (HitsMax(t, n) <=> a) /\ (HitsTarget(t, n) <=> b)
    BY <1>1, <1>2 DEF HitsMax, HitsTarget, Distance
  <2>4. HitsMax(t, n) = a /\ HitsTarget(t, n) = b
    <3>1. a \in BOOLEAN /\ b \in BOOLEAN
      BY <1>1
    <3>2. HitsMax(t, n) \in BOOLEAN /\ HitsTarget(t, n) \in BOOLEAN
      BY <1>1 DEF HitsMax, HitsTarget, Distance
    <3> HIDE DEF a, b
    <3> QED BY <2>3, <3>1, <3>2, Zenon
  <2>5. Fires(t, n) = ((t.irqAtTarget /\ b) \/ (t.irqAtMax /\ a))
    BY <2>4, Zenon DEF Fires
  <2>6. ClockPulse(t, n) =
          TriggerIf([t EXCEPT !.reachedMax = @ \/ a, !.reachedTarget = @ \/ b,
                              !.counter = (@ + n) % (Max + 1)],
                    (t.irqAtTarget /\ b) \/ (t.irqAtMax /\ a))
    BY <2>1, <2>2, ZenonT(60) DEF ClockPulse
  <2>7. [t EXCEPT !.reachedMax = @ \/ a, !.reachedTarget = @ \/ b,
                  !.counter = (@ + n) % (Max + 1)]
          = [t EXCEPT !.counter = (t.counter + n) % (Max + 1), !.reachedTarget = @ \/ b,
                      !.reachedMax = @ \/ a]
    <3> HIDE DEF a, b
    <3> QED BY DEF Timers
  <2> QED BY <1>a, <2>4, <2>5, <2>6, <2>7, Zenon DEF After
<1>3. CASE t.counter = Max
  <2> DEFINE z == t.counter = Max /\ t.target = 0
             a == n - 1 >= Max - 0
             b == n - 1 >= IF t.target > 0 THEN t.target - 0 ELSE Max + 1 - (0 - t.target)
             s == TriggerIf([t EXCEPT !.counter = 0, !.reachedTarget = @ \/ z],
                            z /\ t.irqAtTarget)
             k == (t.irqAtTarget /\ b) \/ (t.irqAtMax /\ a)
             d == (0 + (n - 1)) % (Max + 1)
  <2>0. z \in BOOLEAN /\ a \in BOOLEAN /\ b \in BOOLEAN /\ k \in BOOLEAN /\ 0 \in Values
    BY <1>1 DEF Values
  <2> DEFINE m == [target |-> z, max |-> FALSE, irq |-> z /\ t.irqAtTarget]
             w == [target |-> b, max |-> a, irq |-> k]
  <2>a. /\ m \in Marks /\ m.target = z /\ m.max = FALSE /\ m.irq = (z /\ t.irqAtTarget)
        /\ w \in Marks /\ w.target = b /\ w.max = a /\ w.irq = k
    <3>1. (z /\ t.irqAtTarget) \in BOOLEAN
      BY Zenon
    <3> HIDE DEF z, a, b, k
    <3> QED BY <2>0, <3>1 DEF Marks
  <2>1. s = After(t, 0, m)
    <3>1. [t EXCEPT !.counter = 0, !.reachedTarget = @ \/ z] =
            [t EXCEPT !.counter = 0, !.reachedTarget = @ \/ z, !.reachedMax = @ \/ FALSE]
      <4> HIDE DEF z
      <4> QED BY <2>0 DEF Timers
    <3> HIDE DEF m
    <3> QED BY <2>a, <3>1, Zenon DEF After
  <2>2. s \in Timers /\ s.counter = 0
    <3>1. [t EXCEPT !.counter = 0, !.reachedTarget = @ \/ z] \in Timers
      <4> HIDE DEF z
      <4> QED BY <2>0 DEF Timers
    <3>2. [t EXCEPT !.counter = 0, !.reachedTarget = @ \/ z].counter = 0
      BY DEF Timers
    <3> DEFINE r == [t EXCEPT !.counter = 0, !.reachedTarget = @ \/ z]
    <3>3. TriggerIrq(r) \in Timers /\ TriggerIrq(r).counter = 0
      <4> HIDE DEF r
      <4> QED BY <3>1, <3>2, TriggerTyped DEF r
    <3> QED BY <3>1, <3>2, <3>3, Zenon DEF TriggerIf
  <2>3. ClockPulse(t, n) =
          TriggerIf([s EXCEPT !.reachedMax = @ \/ a, !.reachedTarget = @ \/ b,
                              !.counter = (@ + (n - 1)) % (Max + 1)], k)
    <3>1. TriggerIf([t EXCEPT !.counter = IF t.counter = Max THEN 0 ELSE @,
                              !.reachedTarget = @ \/ z], z /\ t.irqAtTarget) = s
      BY <1>3, Zenon
    <3>2. (IF t.counter = Max THEN n - 1 ELSE n) = n - 1
      BY <1>3
    <3> HIDE DEF s
    <3> QED BY <2>2, <3>1, <3>2, ZenonT(60) DEF ClockPulse
  <2>4. ClockPulse(t, n) = After(s, d, w)
    <3>1. [s EXCEPT !.reachedMax = @ \/ a, !.reachedTarget = @ \/ b,
                    !.counter = (@ + (n - 1)) % (Max + 1)]
            = [s EXCEPT !.counter = d, !.reachedTarget = @ \/ b, !.reachedMax = @ \/ a]
      <4> HIDE DEF s, a, b
      <4> QED BY <2>0, <2>2 DEF Timers
    <3> HIDE DEF s, a, b, k, d, w
    <3> QED BY <2>3, <2>a, <3>1, Zenon DEF After
  <2>5. d = (t.counter + n) % (Max + 1) /\ d \in Values
    <3>1. n - 1 \in Nat /\ 0 + (n - 1) = n - 1 /\ t.counter + n = (n - 1) + (Max + 1)
          /\ Max + 1 \in Nat \ {0}
      BY <1>1, <1>3
    <3>2. ((n - 1) + (Max + 1)) % (Max + 1) = (n - 1) % (Max + 1)
      BY <3>1, DivShift
    <3>3. (n - 1) % (Max + 1) \in Values
      BY <3>1, ModTyped
    <3> QED BY <3>1, <3>2, <3>3
  <2>6. /\ HitsTarget(t, n) = (z \/ b) /\ HitsMax(t, n) = (FALSE \/ a)
        /\ Fires(t, n) = ((z /\ t.irqAtTarget) \/ k)
    <3>1. (HitsTarget(t, n) <=> z \/ b) /\ (HitsMax(t, n) <=> a)
      BY <1>1, <1>3 DEF HitsMax, HitsTarget, Distance
    <3>2. HitsMax(t, n) \in BOOLEAN /\ HitsTarget(t, n) \in BOOLEAN
      BY <1>1 DEF HitsMax, HitsTarget, Distance
    <3>3. Fires(t, n) <=> (z /\ t.irqAtTarget) \/ k
      BY <3>1, Zenon DEF Fires
    <3> HIDE DEF z, a, b, k
    <3> QED BY <2>0, <3>1, <3>2, <3>3, Zenon DEF Fires
  <2>7. ~Toggles(t) \/ (~m.irq /\ ~w.irq)
    <3> HIDE DEF m, w
    <3> QED BY <2>a, Zenon DEF Uncounted, CountsToggles
  <2>8. After(After(t, 0, m), d, w) = After(t, d, Both(m, w))
    <3> HIDE DEF m, w, d
    <3> QED BY <2>0, <2>5, <2>7, <2>a, AfterTwice
  <2>9. Both(m, w) = Hits(t, n)
    <3> HIDE DEF m, w, z, a, b, k
    <3> QED BY <2>6, <2>a, Zenon DEF Both, Hits
  <2> HIDE DEF m, w, z, a, b, k, d, s
  <2> QED BY <2>1, <2>4, <2>5, <2>8, <2>9, Zenon
<1> QED BY <1>2, <1>3

LEMMA AfterTyped ==
  ASSUME NEW t \in Timers, NEW c \in Values, NEW m \in Marks
  PROVE  /\ After(t, c, m) \in Timers /\ After(t, c, m).counter = c
         /\ Settings(After(t, c, m)) = Settings(t)
<1> DEFINE a == t.reachedTarget \/ m.target
           b == t.reachedMax \/ m.max
           x == [t EXCEPT !.counter = c, !.reachedTarget = a, !.reachedMax = b]
<1>1. a \in BOOLEAN /\ b \in BOOLEAN
  BY Zenon
<1>2. x \in Timers /\ x.counter = c /\ Settings(x) = Settings(t)
  <2> HIDE DEF a, b
  <2> QED BY <1>1 DEF Timers, Settings
<1>3. After(t, c, m) = IF m.irq THEN TriggerIrq(x) ELSE x
  BY Zenon DEF After, TriggerIf
<1>4. /\ TriggerIrq(x) \in Timers /\ TriggerIrq(x).counter = c
      /\ Settings(TriggerIrq(x)) = Settings(t)
  <2> HIDE DEF x
  <2> QED BY <1>2, TriggerTyped, TriggerSettings
<1> HIDE DEF x
<1> QED BY <1>2, <1>3, <1>4, Zenon

LEMMA HitsTyped ==
  ASSUME NEW t \in Timers, NEW n \in Nat
  PROVE  Hits(t, n) \in Marks
<1>1. t.counter \in 0..Max /\ t.target \in 0..Max /\ Max \in Nat
  BY MaxAssumption DEF Timers, Values
<1>2. HitsTarget(t, n) \in BOOLEAN /\ HitsMax(t, n) \in BOOLEAN
  BY <1>1 DEF HitsTarget, HitsMax, Distance
<1>3. Fires(t, n) \in BOOLEAN
  BY Zenon DEF Fires
<1> QED BY <1>2, <1>3 DEF Hits, Marks

\* The path as a whole.
LEMMA PulseByTicks ==
  ASSUME NEW t \in Timers, NEW n \in Nat \ {0}, Uncounted(t)
  PROVE  /\ ClockPulse(t, n + 1) = ClockPulse(Tick(t), n)
         /\ ClockPulse(t, 1) = Tick(t)
         /\ Tick(t) \in Timers /\ Uncounted(Tick(t))
<1> DEFINE u == Tick(t)
           d == (t.counter + 1) % (Max + 1)
           e == (t.counter + (n + 1)) % (Max + 1)
<1>1. t.counter \in Values /\ n + 1 \in Nat \ {0} /\ 1 \in Nat \ {0}
  BY DEF Timers
<1>2. d \in Values /\ e \in Values
  <2>1. t.counter + 1 \in Nat /\ t.counter + (n + 1) \in Nat
    BY <1>1, MaxAssumption DEF Values
  <2> QED BY <2>1, ModTyped
<1>3. u = After(t, d, Hits(t, 1))
  BY PulseTick DEF Uncounted
<1>4. u \in Timers /\ u.counter = d /\ Settings(u) = Settings(t)
  <2> HIDE DEF u, d
  <2> QED BY <1>2, <1>3, HitsTyped, AfterTyped
<1>5. Uncounted(u)
  <2> HIDE DEF u
  <2> QED BY <1>4 DEF Settings, Uncounted, ResetsAtTarget, CountsToggles, Toggles
<1>6. ClockPulse(t, 1) = u
  BY <1>1, <1>3, PulseForm
<1>7. ClockPulse(u, n) = After(u, e, Hits(u, n))
  <2>1. ClockPulse(u, n) = After(u, (u.counter + n) % (Max + 1), Hits(u, n))
    <3> HIDE DEF u
    <3> QED BY <1>4, <1>5, PulseForm
  <2>2. (u.counter + n) % (Max + 1) = e
    <3> HIDE DEF u
    <3> QED BY <1>4, PulseNumbers
  <2> QED BY <2>1, <2>2
<1>8. ClockPulse(t, n + 1) = After(t, e, Hits(t, n + 1))
  BY <1>1, PulseForm
<1>9. Hits(t, n + 1) = Both(Hits(t, 1), Hits(u, n))
  <2>1. /\ HitsTarget(t, n + 1) <=> HitsTarget(t, 1) \/ HitsTarget(u, n)
        /\ HitsMax(t, n + 1) <=> HitsMax(t, 1) \/ HitsMax(u, n)
        /\ Fires(t, n + 1) <=> Fires(t, 1) \/ Fires(u, n)
    <3> HIDE DEF u
    <3> QED BY <1>4, PulseNumbers
  <2>2. /\ Hits(t, 1).target = HitsTarget(t, 1) /\ Hits(t, 1).max = HitsMax(t, 1)
        /\ Hits(t, 1).irq = Fires(t, 1)
        /\ Hits(u, n).target = HitsTarget(u, n) /\ Hits(u, n).max = HitsMax(u, n)
        /\ Hits(u, n).irq = Fires(u, n)
    BY DEF Hits
  <2>3. /\ HitsTarget(t, n + 1) \in BOOLEAN /\ HitsMax(t, n + 1) \in BOOLEAN
        /\ Fires(t, n + 1) \in BOOLEAN
    <3>1. Hits(t, n + 1) \in Marks
      BY <1>1, HitsTyped
    <3> QED BY <3>1 DEF Hits, Marks
  <2>4. /\ HitsTarget(t, n + 1) = (HitsTarget(t, 1) \/ HitsTarget(u, n))
        /\ HitsMax(t, n + 1) = (HitsMax(t, 1) \/ HitsMax(u, n))
        /\ Fires(t, n + 1) = (Fires(t, 1) \/ Fires(u, n))
    <3> HIDE DEF u
    <3> QED BY <2>1, <2>3, Zenon
  <2> HIDE DEF u
  <2> QED BY <2>2, <2>4, Zenon DEF Both, Hits
<1>10. ~Toggles(t) \/ (~Hits(t, 1).irq /\ ~Hits(u, n).irq)
  <2>1. Hits(t, 1).irq = Fires(t, 1) /\ Hits(u, n).irq = Fires(u, n)
    BY DEF Hits
  <2>2. u.irqAtTarget = t.irqAtTarget /\ u.irqAtMax = t.irqAtMax
    <3> HIDE DEF u
    <3> QED BY <1>4 DEF Settings
  <2> HIDE DEF u
  <2> QED BY <2>1, <2>2, Zenon DEF Uncounted, CountsToggles, Fires
<1>11. After(After(t, d, Hits(t, 1)), e, Hits(u, n)) = After(t, e, Both(Hits(t, 1), Hits(u, n)))
  <2>1. Hits(t, 1) \in Marks /\ Hits(u, n) \in Marks
    <3> HIDE DEF u
    <3> QED BY <1>4, HitsTyped
  <2> HIDE DEF u, d, e
  <2> QED BY <1>2, <1>10, <2>1, AfterTwice
<1> HIDE DEF u, d, e
<1>12. ClockPulse(t, n + 1) = ClockPulse(u, n)
  BY <1>3, <1>7, <1>8, <1>9, <1>11, Zenon
<1> QED BY <1>4, <1>5, <1>6, <1>12 DEF u

-----------------------------------------------------------------------------
(***************************************************************************)
(* Clock (timers.rs:86-301) clocks a timer n + 1 times as it would once   *)
(* and then n times, unless it counts toggles: where the code batches its  *)
(* clocks never shows in the counter, the mode bits or the interrupts.     *)
(***************************************************************************)
THEOREM ClockByTicks ==
  ASSUME NEW t \in Timers, NEW n \in Nat, ~CountsToggles(t)
  PROVE  Clock(t, n + 1) = Clock(Tick(t), n)
<1>1. n + 1 # 0
  OBVIOUS
<1>2. CASE ResetsAtTarget(t)
  <2>1. Clock(t, n + 1) = ClockResetAtTarget(t, n + 1)
    BY <1>1, <1>2, Zenon DEF Clock
  <2>2. CASE n = 0
    <3>1. ClockResetAtTarget(t, n + 1) = Tick(t)
      BY <1>2, <2>2, ResetByTicks
    <3> QED BY <2>1, <2>2, <3>1, Zenon DEF Clock
  <2>3. CASE n # 0
    BY <1>2, <2>1, <2>3, ResetByTicks, Zenon DEF Clock
  <2> QED BY <2>2, <2>3
<1>3. CASE ~ResetsAtTarget(t)
  <2>1. Uncounted(t)
    BY <1>3, Zenon DEF Uncounted
  <2>2. Clock(t, n + 1) = ClockPulse(t, n + 1)
    BY <1>1, <1>3, Zenon DEF Clock
  <2>3. CASE n = 0
    <3>1. ClockPulse(t, n + 1) = Tick(t)
      BY <2>1, <2>3, PulseByTicks
    <3> QED BY <2>2, <2>3, <3>1, Zenon DEF Clock
  <2>4. CASE n # 0
    BY <2>1, <2>2, <2>4, PulseByTicks, Zenon DEF Clock, Uncounted
  <2> QED BY <2>3, <2>4
<1> QED BY <1>2, <1>3


-----------------------------------------------------------------------------
(***************************************************************************)
(* What clocks keep of a timer: its settings, and that it has fired. The   *)
(* path that counts toggles has only this and its types proved.            *)
(***************************************************************************)
LEMMA TriggerFields ==
  ASSUME NEW t \in Timers, NEW b
  PROVE  /\ TriggerIf(t, b).counter = t.counter
         /\ Settings(TriggerIf(t, b)) = Settings(t)
         /\ t.fired => TriggerIf(t, b).fired
<1>1. TriggerIrq(t).counter = t.counter
  BY TriggerTyped
<1>2. Settings(TriggerIrq(t)) = Settings(t)
  BY TriggerSettings
<1>3. t.fired => TriggerIrq(t).fired
  BY DEF TriggerIrq, Timers
<1> QED BY <1>1, <1>2, <1>3, Zenon DEF TriggerIf

\* What clocks leave alone.
Keeps(t, u) == Settings(u) = Settings(t) /\ (t.fired => u.fired)

LEMMA KeepsTwice ==
  ASSUME NEW t, NEW u, NEW w, Keeps(t, u), Keeps(u, w)
  PROVE  Keeps(t, w)
BY Zenon DEF Keeps

LEMMA TriggerKeeps ==
  ASSUME NEW t \in Timers, NEW b \in BOOLEAN
  PROVE  /\ TriggerIf(t, b) \in Timers /\ TriggerIf(t, b).counter = t.counter
         /\ Keeps(t, TriggerIf(t, b))
BY TriggerFields, TriggerIfTyped, Zenon DEF Keeps

LEMMA TimesKeeps ==
  ASSUME NEW t \in Timers, NEW n \in Nat
  PROVE  /\ TriggerTimes(t, n) \in Timers /\ TriggerTimes(t, n).counter = t.counter
         /\ Keeps(t, TriggerTimes(t, n))
<1> DEFINE once == TriggerIf(t, n > 0)
           twice == TriggerIf(once, n > 1)
<1>0. (n > 0) \in BOOLEAN /\ (n > 1) \in BOOLEAN /\ (n > 1 /\ n % 2 = 1) \in BOOLEAN
  OBVIOUS
<1>1. once \in Timers /\ once.counter = t.counter /\ Keeps(t, once)
  BY <1>0, TriggerKeeps
<1>2. twice \in Timers /\ twice.counter = t.counter /\ Keeps(t, twice)
  <2> HIDE DEF once
  <2>1. twice \in Timers /\ twice.counter = once.counter /\ Keeps(once, twice)
    BY <1>0, <1>1, TriggerKeeps
  <2> QED BY <1>1, <2>1, KeepsTwice
<1>3. LET u == TriggerIf(twice, n > 1 /\ n % 2 = 1)
      IN  u \in Timers /\ u.counter = t.counter /\ Keeps(t, u)
  <2> HIDE DEF twice
  <2> DEFINE u == TriggerIf(twice, n > 1 /\ n % 2 = 1)
  <2>1. u \in Timers /\ u.counter = twice.counter /\ Keeps(twice, u)
    BY <1>0, <1>2, TriggerKeeps
  <2> QED BY <1>2, <2>1, KeepsTwice
<1> QED BY <1>3, Zenon DEF TriggerTimes

\* A counter and flags may change.
LEMMA CountedKeeps ==
  ASSUME NEW t \in Timers, NEW c \in Values, NEW a \in BOOLEAN, NEW b \in BOOLEAN, NEW u,
         \/ u = [t EXCEPT !.counter = c]
         \/ u = [t EXCEPT !.reachedTarget = a]
         \/ u = [t EXCEPT !.reachedTarget = a, !.counter = c]
         \/ u = [t EXCEPT !.reachedTarget = a, !.reachedMax = b, !.counter = c]
         \/ u = [t EXCEPT !.counter = c, !.reachedTarget = a, !.reachedMax = b]
  PROVE  u \in Timers /\ Keeps(t, u)
<1>1. CASE u = [t EXCEPT !.counter = c]
  BY <1>1 DEF Timers, Keeps, Settings
<1>2. CASE u = [t EXCEPT !.reachedTarget = a]
  BY <1>2 DEF Timers, Keeps, Settings
<1>3. CASE u = [t EXCEPT !.reachedTarget = a, !.counter = c]
  BY <1>3 DEF Timers, Keeps, Settings
<1>4. CASE u = [t EXCEPT !.reachedTarget = a, !.reachedMax = b, !.counter = c]
  BY <1>4 DEF Timers, Keeps, Settings
<1>5. CASE u = [t EXCEPT !.counter = c, !.reachedTarget = a, !.reachedMax = b]
  BY <1>5 DEF Timers, Keeps, Settings
<1> QED BY <1>1, <1>2, <1>3, <1>4, <1>5

\* The counter of a timer that returns at its target.
LEMMA ResetCounts ==
  ASSUME NEW t \in Timers, NEW n \in Nat \ {0}
  PROVE  LET u == ClockResetAtTarget(t, n)
         IN  /\ Keeps(t, u)
             /\ u.counter = IF Beyond(t, n) < -1 THEN Start(t) + Left(t, n) ELSE End(t, n)
<1> USE ResetNumbers
<1>1. Beyond(t, n) < -1 \/ Beyond(t, n) >= -1
  OBVIOUS
<1>2. CASE Beyond(t, n) < -1
  <2> DEFINE c == Start(t) + Left(t, n)
  <2>1. c \in Values
    BY <1>2
  <2> HIDE DEF c
  <2>2. PICK u : u = [t EXCEPT !.counter = c]
    OBVIOUS
  <2>3. Keeps(t, u)
    BY <2>1, <2>2, CountedKeeps
  <2>4. u.counter = c
    BY <2>1, <2>2 DEF Timers
  <2> QED BY <1>2, <2>2, <2>3, <2>4, ResetForm, Zenon DEF c
<1>3. CASE Beyond(t, n) >= -1
  <2> DEFINE c == End(t, n)
             v == Visits(t, n)
  <2>0. c \in Values /\ v \in Nat /\ ~(Beyond(t, n) < -1)
    BY <1>3
  <2> HIDE DEF c, v
  <2>1. /\ Reached(t, n) \in Timers /\ Reached(t, n).counter = c /\ Keeps(t, Reached(t, n))
    <3>1. Reached(t, n) = [t EXCEPT !.reachedTarget = TRUE, !.counter = c]
      BY Zenon DEF Reached, c
    <3>2. PICK u : u = [t EXCEPT !.reachedTarget = TRUE, !.counter = c]
      OBVIOUS
    <3>3. u.counter = c /\ u \in Timers /\ Keeps(t, u)
      BY <2>0, <3>2, CountedKeeps DEF Timers
    <3> QED BY <3>1, <3>2, <3>3
  <2> DEFINE r == Reached(t, n)
  <2> HIDE DEF r
  <2>2. TriggerTimes(r, v).counter = c /\ Keeps(t, TriggerTimes(r, v))
    BY <2>0, <2>1, TimesKeeps, KeepsTwice DEF r
  <2>3. ClockResetAtTarget(t, n) \in {TriggerTimes(r, v), r}
    BY <2>0, ResetForm, Zenon DEF r, v
  <2> QED BY <2>0, <2>1, <2>2, <2>3, Zenon DEF r, c
<1> QED BY <1>1, <1>2, <1>3

(* With a condition that need not be known to be one. *)
LEMMA MaybeKeeps ==
  ASSUME NEW t \in Timers, NEW b
  PROVE  /\ TriggerIf(t, b) \in Timers /\ TriggerIf(t, b).counter = t.counter
         /\ Keeps(t, TriggerIf(t, b))
<1>1. TriggerIf(t, TRUE) = TriggerIrq(t) /\ TriggerIf(t, FALSE) = t
  BY Zenon DEF TriggerIf
<1>2. TriggerIf(t, b) = TriggerIrq(t) \/ TriggerIf(t, b) = t
  BY Zenon DEF TriggerIf
<1> QED BY <1>1, <1>2, TriggerKeeps

LEMMA PulseCounts ==
  ASSUME NEW t \in Timers, NEW n \in Nat \ {0}, Uncounted(t)
  PROVE  LET u == ClockPulse(t, n)
         IN  /\ u \in Timers /\ Keeps(t, u)
             /\ u.counter = (t.counter + n) % (Max + 1)
<1> DEFINE c == (t.counter + n) % (Max + 1)
           m == Hits(t, n)
           a == t.reachedTarget \/ m.target
           b == t.reachedMax \/ m.max
           u == [t EXCEPT !.counter = c, !.reachedTarget = a, !.reachedMax = b]
<1>1. c \in Values
  <2>1. t.counter + n \in Nat
    BY MaxAssumption DEF Timers, Values
  <2> QED BY <2>1, ModTyped
<1>2. a \in BOOLEAN /\ b \in BOOLEAN
  BY Zenon
<1>3. u \in Timers /\ Keeps(t, u) /\ u.counter = c
  <2> HIDE DEF a, b, c
  <2>1. PICK w : w = [t EXCEPT !.counter = c, !.reachedTarget = a, !.reachedMax = b]
    BY Zenon
  <2>2. w \in Timers /\ Keeps(t, w)
    BY <1>1, <1>2, <2>1, CountedKeeps
  <2>3. w.counter = c
    BY <2>1 DEF Timers
  <2> QED BY <2>1, <2>2, <2>3 DEF u
<1>4. ClockPulse(t, n) = TriggerIf(u, m.irq)
  BY PulseForm, Zenon DEF After
<1> HIDE DEF u, c, m
<1>5. /\ TriggerIf(u, m.irq) \in Timers /\ TriggerIf(u, m.irq).counter = c
      /\ Keeps(t, TriggerIf(u, m.irq))
  BY <1>3, MaybeKeeps, KeepsTwice
<1> QED BY <1>4, <1>5 DEF c

LEMMA ShortOfMaxKeeps ==
  ASSUME NEW t \in Timers, NEW n \in Nat, NEW q, n < Max - t.counter
  PROVE  LET u == ShortOfMax(t, n, q)
         IN  u \in Timers /\ Keeps(t, u) /\ u.counter = t.counter + n
<1> DEFINE a == t.reachedTarget \/ (t.target > t.counter /\ n >= t.target - t.counter)
           c == t.counter + n
<1>1. a \in BOOLEAN
  BY Zenon
<1>2. c \in Values
  BY MaxAssumption DEF Timers, Values
<1>3. PICK u : u = [t EXCEPT !.reachedTarget = a, !.counter = c]
  OBVIOUS
<1>4. ShortOfMax(t, n, q) = TriggerIf(u, q)
  BY <1>3, Zenon DEF ShortOfMax
<1> HIDE DEF a, c
<1>5. u \in Timers /\ Keeps(t, u) /\ u.counter = c
  BY <1>1, <1>2, <1>3, CountedKeeps DEF Timers
<1> QED BY <1>4, <1>5, MaybeKeeps, KeepsTwice DEF c

LEMMA FirstMaxKeeps ==
  ASSUME NEW t \in Timers, NEW q
  PROVE  LET u == FirstMax(t, q)
         IN  u \in Timers /\ Keeps(t, u) /\ u.counter = Max
<1> DEFINE ahead == t.target > t.counter
           a == t.reachedTarget \/ ahead
<1>1. a \in BOOLEAN /\ Max \in Values
  BY MaxAssumption DEF Values
<1>2. PICK x : x = [t EXCEPT !.reachedTarget = a, !.reachedMax = TRUE, !.counter = Max]
  OBVIOUS
<1>3. FirstMax(t, q) = IF t.counter = Max THEN t
                       ELSE TriggerIf(TriggerIf(x, q /\ ahead), t.irqAtMax)
  BY <1>2, Zenon DEF FirstMax
<1> HIDE DEF a, ahead
<1>4. x \in Timers /\ Keeps(t, x) /\ x.counter = Max
  BY <1>1, <1>2, CountedKeeps DEF Timers
<1>5. PICK y : y = TriggerIf(x, q /\ ahead)
  OBVIOUS
<1>6. y \in Timers /\ Keeps(t, y) /\ y.counter = Max
  BY <1>4, <1>5, MaybeKeeps, KeepsTwice
<1>7. /\ TriggerIf(y, t.irqAtMax) \in Timers /\ Keeps(t, TriggerIf(y, t.irqAtMax))
      /\ TriggerIf(y, t.irqAtMax).counter = Max
  BY <1>6, MaybeKeeps, KeepsTwice
<1>8. Keeps(t, t)
  BY DEF Keeps
<1> QED BY <1>3, <1>5, <1>7, <1>8

LEMMA RoundsKeeps ==
  ASSUME NEW t \in Timers, NEW n \in Nat, NEW q
  PROVE  LET u == Rounds(t, n, q)
         IN  u \in Timers /\ Keeps(t, u) /\ u.counter = t.counter
<1> DEFINE each == (IF q THEN 1 ELSE 0) + (IF t.irqAtMax THEN 1 ELSE 0)
<1>1. PICK x : x = [t EXCEPT !.reachedTarget = TRUE]
  OBVIOUS
<1>2. n * each \in Nat
  <2>1. each \in {0, 1, 2}
    OBVIOUS
  <2> HIDE DEF each
  <2>2. \A k \in {0, 1, 2} : n * k \in Nat
    OBVIOUS
  <2> QED BY <2>1, <2>2
<1>3. Rounds(t, n, q) = IF n = 0 THEN t ELSE TriggerTimes(x, n * each)
  BY <1>1, Zenon DEF Rounds
<1>4. x \in Timers /\ Keeps(t, x) /\ x.counter = t.counter
  BY <1>1 DEF Timers, Keeps, Settings
<1>5. Keeps(t, t)
  BY DEF Keeps
<1> HIDE DEF each
<1> QED BY <1>2, <1>3, <1>4, <1>5, TimesKeeps, KeepsTwice, SMTT(40)

LEMMA RestKeeps ==
  ASSUME NEW t \in Timers, NEW n \in 0..Max, NEW q
  PROVE  LET u == Rest(t, n, q)
         IN  u \in Timers /\ Keeps(t, u) /\ u.counter = IF n = 0 THEN t.counter ELSE n - 1
<1> DEFINE reached == t.target <= n - 1
           a == t.reachedTarget \/ reached
           b == t.reachedMax \/ n - 1 = Max
           c == n - 1
<1>1. PICK x : x = [t EXCEPT !.counter = c, !.reachedTarget = a, !.reachedMax = b]
  OBVIOUS
<1>2. PICK y : y = TriggerIf(x, q /\ reached)
  OBVIOUS
<1>3. Rest(t, n, q) = IF n = 0 THEN t ELSE TriggerIf(y, t.irqAtMax /\ n - 1 = Max)
  BY <1>1, <1>2, Zenon DEF Rest
<1>4. CASE n = 0
  <2>1. Keeps(t, t)
    BY DEF Keeps
  <2>2. Rest(t, n, q) = t
    BY <1>3, <1>4, Zenon
  <2> QED BY <1>4, <2>1, <2>2
<1>5. CASE n # 0
  <2>1. a \in BOOLEAN /\ b \in BOOLEAN
    BY Zenon
  <2>2. c \in Values
    BY <1>5, MaxAssumption DEF Values
  <2> HIDE DEF a, b, c, reached
  <2>3. x \in Timers /\ Keeps(t, x) /\ x.counter = c
    BY <2>1, <2>2, <1>1, CountedKeeps DEF Timers
  <2>4. y \in Timers /\ Keeps(t, y) /\ y.counter = c
    BY <2>3, <1>2, MaybeKeeps, KeepsTwice
  <2>5. PICK z : z = TriggerIf(y, t.irqAtMax /\ n - 1 = Max)
    OBVIOUS
  <2>6. z \in Timers /\ Keeps(t, z) /\ z.counter = c
    BY <2>4, <2>5, MaybeKeeps, KeepsTwice
  <2>7. Rest(t, n, q) = z
    BY <1>3, <1>5, <2>5, Zenon
  <2> QED BY <1>5, <2>6, <2>7 DEF c
<1> QED BY <1>4, <1>5

LEMMA ToggleCounts ==
  ASSUME NEW t \in Timers, NEW n \in Nat
  PROVE  LET u == ClockToggle(t, n)
         IN  u \in Timers /\ Keeps(t, u) /\ u.counter = (t.counter + n) % (Max + 1)
<1> DEFINE q == t.irqAtTarget /\ (t.target # Max \/ ~t.irqAtMax)
           beyond == n - (Max - t.counter)
           x == FirstMax(t, q)
           y == Rounds(x, beyond \div (Max + 1), q)
<1>1. ClockToggle(t, n) = IF beyond < 0 THEN ShortOfMax(t, n, q)
                          ELSE Rest(y, beyond % (Max + 1), q)
  BY Zenon DEF ClockToggle
<1>2. t.counter \in 0..Max /\ Max \in Nat \ {0} /\ Max + 1 \in Nat \ {0} /\ (Max + 1) - 1 = Max
  BY MaxAssumption DEF Timers, Values
<1>3. CASE beyond < 0
  <2>1. n < Max - t.counter /\ t.counter + n \in 0..((Max + 1) - 1)
    BY <1>2, <1>3
  <2>2. (t.counter + n) % (Max + 1) = t.counter + n
    BY <1>2, <2>1, DivSmall
  <2> HIDE DEF q
  <2>3. PICK u : u = ShortOfMax(t, n, q)
    OBVIOUS
  <2>4. u \in Timers /\ Keeps(t, u) /\ u.counter = t.counter + n
    BY <2>1, <2>3, ShortOfMaxKeeps
  <2>5. ClockToggle(t, n) = u
    BY <1>1, <1>3, <2>3, Zenon
  <2> QED BY <2>2, <2>4, <2>5
<1>4. CASE ~(beyond < 0)
  <2> DEFINE r == beyond % (Max + 1)
             d == beyond \div (Max + 1)
  <2>1. beyond \in Nat /\ t.counter + n = Max + beyond
    BY <1>2, <1>4
  <2>2. d \in Nat /\ r \in 0..((Max + 1) - 1) /\ beyond = (Max + 1) * d + r
    <3> HIDE DEF beyond
    <3> QED BY <1>2, <2>1, DivMod
  <2>3. (t.counter + n) % (Max + 1) = IF r = 0 THEN Max ELSE r - 1
    <3> HIDE DEF r, d, beyond
    <3>1. CASE r = 0
      <4>1. Max \in 0..((Max + 1) - 1) /\ d \in Int /\ (Max + 1) * d + Max = Max + beyond
        BY <1>2, <2>2, <3>1, SMT
      <4>2. ((Max + 1) * d + Max) % (Max + 1) = Max
        BY <1>2, <4>1, DivUnique
      <4> QED BY <2>1, <3>1, <4>1, <4>2
    <3>2. CASE r # 0
      <4>1. /\ r - 1 \in 0..((Max + 1) - 1) /\ d + 1 \in Int
            /\ (Max + 1) * (d + 1) + (r - 1) = Max + beyond
        BY <1>2, <2>2, <3>2, SMT
      <4>2. ((Max + 1) * (d + 1) + (r - 1)) % (Max + 1) = r - 1
        BY <1>2, <4>1, DivUnique
      <4> QED BY <2>1, <3>2, <4>1, <4>2
    <3> QED BY <3>1, <3>2
  <2> HIDE DEF q, d, r, beyond
  <2>4. x \in Timers /\ Keeps(t, x) /\ x.counter = Max
    BY FirstMaxKeeps
  <2> HIDE DEF x
  <2>5. PICK z : z = Rounds(x, d, q)
    OBVIOUS
  <2>6. z \in Timers /\ Keeps(t, z) /\ z.counter = Max
    BY <2>2, <2>4, <2>5, RoundsKeeps, KeepsTwice
  <2>7. PICK u : u = Rest(z, r, q)
    OBVIOUS
  <2>8. u \in Timers /\ Keeps(t, u) /\ u.counter = IF r = 0 THEN Max ELSE r - 1
    <3>1. r \in 0..Max
      BY <1>2, <2>2
    <3>2. u \in Timers /\ Keeps(z, u) /\ u.counter = IF r = 0 THEN z.counter ELSE r - 1
      BY <2>6, <2>7, <3>1, RestKeeps
    <3> QED BY <2>6, <3>2, KeepsTwice
  <2>9. ClockToggle(t, n) = u
    BY <1>1, <1>4, <2>5, <2>7, Zenon DEF d, r
  <2> QED BY <2>3, <2>8, <2>9
<1> QED BY <1>3, <1>4

\* On all paths: what the counter is after n clocks, and what stays.
LEMMA ClockCounts ==
  ASSUME NEW t \in Timers, NEW n \in Nat
  PROVE  LET u == Clock(t, n)
         IN  /\ u \in Timers /\ Keeps(t, u)
             /\ n = 0 => u.counter = t.counter
             /\ n # 0 /\ ResetsAtTarget(t)
                  => u.counter = IF Beyond(t, n) < -1 THEN Start(t) + Left(t, n) ELSE End(t, n)
             /\ n # 0 /\ ~ResetsAtTarget(t) => u.counter = (t.counter + n) % (Max + 1)
<1>1. CASE n = 0
  <2>1. Clock(t, n) = t
    BY <1>1, Zenon DEF Clock
  <2> QED BY <1>1, <2>1 DEF Keeps
<1>2. CASE n # 0 /\ ResetsAtTarget(t)
  <2>1. Clock(t, n) = ClockResetAtTarget(t, n) /\ n \in Nat \ {0}
    BY <1>2, Zenon DEF Clock
  <2> QED BY <1>2, <2>1, ResetTyped, ResetCounts
<1>3. CASE n # 0 /\ ~ResetsAtTarget(t)
  <2>1. CASE CountsToggles(t)
    <3>1. Clock(t, n) = ClockToggle(t, n)
      BY <1>3, <2>1, Zenon DEF Clock
    <3> QED BY <1>3, <3>1, ToggleCounts
  <2>2. CASE ~CountsToggles(t)
    <3>1. Clock(t, n) = ClockPulse(t, n) /\ n \in Nat \ {0} /\ Uncounted(t)
      BY <1>3, <2>2, Zenon DEF Clock, Uncounted
    <3> QED BY <1>3, <3>1, PulseCounts
  <2> QED BY <2>1, <2>2
<1> QED BY <1>1, <1>2, <1>3

(***************************************************************************)
(* However many clocks a timer is given (timers.rs:86-301), its counter    *)
(* stays within its register: no path leaves it at an intermediate value   *)
(* past Max or below 0.                                                    *)
(***************************************************************************)
THEOREM ClockTyped ==
  ASSUME NEW t \in Timers, NEW n \in Nat
  PROVE  Clock(t, n) \in Timers
BY ClockCounts

-----------------------------------------------------------------------------
(***************************************************************************)
(* Clocks bring the next interrupt closer by no more than their number:    *)
(* the timer u lags, from t, by at most n clocks.                          *)
(***************************************************************************)
LEMMA DistanceLess ==
  ASSUME NEW c \in Values, NEW to \in Values, NEW n \in Nat, n < Distance(c, to)
  PROVE  /\ (c + n) % (Max + 1) \in Values
         /\ Distance((c + n) % (Max + 1), to) = Distance(c, to) - n
<1>1. c \in 0..Max /\ to \in 0..Max /\ Max + 1 \in Nat \ {0} /\ (Max + 1) - 1 = Max /\ Max \in Nat
  BY MaxAssumption DEF Values
<1>2. n <= Max
  BY <1>1 DEF Distance
<1>3. CASE c + n <= Max
  <2>0. c + n \in 0..((Max + 1) - 1)
    BY <1>1, <1>3
  <2>1. (c + n) % (Max + 1) = c + n
    BY <1>1, <2>0, DivSmall
  <2> QED BY <1>1, <1>3, <2>1 DEF Distance, Values
<1>4. CASE c + n > Max
  <2>1. c + n - (Max + 1) \in 0..((Max + 1) - 1)
    BY <1>1, <1>2, <1>4
  <2>2. (c + n - (Max + 1)) % (Max + 1) = c + n - (Max + 1)
    BY <1>1, <2>1, DivSmall
  <2>3. (c + n - (Max + 1) + (Max + 1)) % (Max + 1) = (c + n - (Max + 1)) % (Max + 1)
    <3> DEFINE a == c + n - (Max + 1)
               p == Max + 1
    <3>1. a \in Nat /\ p \in Nat \ {0}
      BY <1>1, <2>1
    <3> HIDE DEF a, p
    <3>2. (a + p) % p = a % p
      BY <3>1, DivShift
    <3> QED BY <3>2 DEF a, p
  <2>4. c + n - (Max + 1) + (Max + 1) = c + n
    BY <1>1
  <2> QED BY <1>1, <1>4, <2>1, <2>2, <2>3, <2>4 DEF Distance, Values
<1> QED BY <1>1, <1>3, <1>4

\* The clocks until an interrupt, by the path that the timer will take.
LEMMA UntilForm ==
  ASSUME NEW t \in Timers
  PROVE  ClocksUntilIrq(t) =
           IF ~t.repeat /\ t.fired THEN 0
           ELSE IF ResetsAtTarget(t)
           THEN IF ~t.irqAtTarget THEN 0
                ELSE IF t.counter < t.target THEN t.target - t.counter ELSE t.target + 1
           ELSE IF t.irqAtTarget /\ t.irqAtMax
           THEN IF Distance(t.counter, t.target) < Distance(t.counter, Max)
                THEN Distance(t.counter, t.target) ELSE Distance(t.counter, Max)
           ELSE IF t.irqAtTarget THEN Distance(t.counter, t.target)
           ELSE IF t.irqAtMax THEN Distance(t.counter, Max)
           ELSE 0
<1>1. t.counter \in 0..Max /\ t.target \in 0..Max /\ Max \in Nat \ {0}
  BY MaxAssumption DEF Timers, Values
<1> DEFINE target == IF t.target > t.counter THEN t.target - t.counter
                     ELSE IF t.resetAtTarget THEN t.target + 1
                     ELSE Max + 1 - (t.counter - t.target)
           max == IF t.counter = Max THEN Max + 1 ELSE Max - t.counter
           byMax == t.irqAtMax /\ ~ResetsAtTarget(t)
<1>2. ClocksUntilIrq(t) =
        IF ~t.repeat /\ t.fired THEN 0
        ELSE IF t.irqAtTarget /\ byMax THEN IF target < max THEN target ELSE max
        ELSE IF t.irqAtTarget THEN target
        ELSE IF byMax THEN max
        ELSE 0
  BY Zenon DEF ClocksUntilIrq
<1>3. max = Distance(t.counter, Max)
  BY <1>1 DEF Distance
<1>4. ~ResetsAtTarget(t) => target = Distance(t.counter, t.target)
  BY <1>1 DEF Distance, ResetsAtTarget
<1>5. ResetsAtTarget(t) =>
        target = IF t.counter < t.target THEN t.target - t.counter ELSE t.target + 1
  BY <1>1 DEF ResetsAtTarget
<1> HIDE DEF target, max
<1> QED BY <1>2, <1>3, <1>4, <1>5

\* u is what t may become in n clocks or less: none of its interrupts is
\* more than n clocks nearer.
Lags(t, u, n) ==
  /\ u \in Timers /\ Keeps(t, u)
  /\ ClocksUntilIrq(t) = 0 => ClocksUntilIrq(u) = 0
  /\ ClocksUntilIrq(u) # 0 => ClocksUntilIrq(u) >= ClocksUntilIrq(t) - n

LEMMA UntilTyped ==
  ASSUME NEW t \in Timers
  PROVE  ClocksUntilIrq(t) \in 0..(Max + 1)
<1>1. t.counter \in 0..Max /\ t.target \in 0..Max /\ Max \in Nat \ {0}
  BY MaxAssumption DEF Timers, Values
<1>2. \A c, to \in 0..Max : Distance(c, to) \in 1..(Max + 1)
  BY <1>1 DEF Distance
<1>3. Distance(t.counter, t.target) \in 0..(Max + 1) /\ Distance(t.counter, Max) \in 0..(Max + 1)
  BY <1>1, <1>2
<1>4. /\ t.counter < t.target => t.target - t.counter \in 0..(Max + 1)
      /\ t.target + 1 \in 0..(Max + 1) /\ 0 \in 0..(Max + 1)
  BY <1>1
<1> QED BY <1>3, <1>4, UntilForm, Zenon

\* What is kept says whether there is an interrupt at all.
LEMMA UntilKept ==
  ASSUME NEW t \in Timers, NEW u \in Timers, Keeps(t, u)
  PROVE  /\ u.target = t.target /\ u.resetAtTarget = t.resetAtTarget
         /\ u.irqAtTarget = t.irqAtTarget /\ u.irqAtMax = t.irqAtMax
         /\ u.repeat = t.repeat /\ u.toggle = t.toggle
         /\ ResetsAtTarget(u) = ResetsAtTarget(t)
         /\ ClocksUntilIrq(t) = 0 => ClocksUntilIrq(u) = 0
         /\ ClocksUntilIrq(u) # 0 =>
              (~u.repeat /\ u.fired) = (~t.repeat /\ t.fired)
<1>1. /\ u.target = t.target /\ u.resetAtTarget = t.resetAtTarget
      /\ u.irqAtTarget = t.irqAtTarget /\ u.irqAtMax = t.irqAtMax
      /\ u.repeat = t.repeat /\ u.toggle = t.toggle /\ (t.fired => u.fired)
  BY DEF Keeps, Settings
<1>2. ResetsAtTarget(u) = ResetsAtTarget(t)
  BY <1>1, Zenon DEF ResetsAtTarget
<1>3. \A v \in Timers : ClocksUntilIrq(v) = 0 <=>
        \/ ~v.repeat /\ v.fired
        \/ ~v.irqAtTarget /\ (ResetsAtTarget(v) \/ ~v.irqAtMax)
  <2> TAKE v \in Timers
  <2>1. v.counter \in 0..Max /\ v.target \in 0..Max /\ Max \in Nat \ {0}
    BY MaxAssumption DEF Timers, Values
  <2>2. Distance(v.counter, v.target) # 0 /\ Distance(v.counter, Max) # 0
    BY <2>1 DEF Distance
  <2>3. /\ v.counter < v.target => v.target - v.counter # 0
        /\ v.target + 1 # 0
    BY <2>1
  <2> QED BY <2>2, <2>3, UntilForm, Zenon
<1>4. ClocksUntilIrq(t) = 0 => ClocksUntilIrq(u) = 0
  BY <1>1, <1>2, <1>3, Zenon
<1>5. ClocksUntilIrq(u) # 0 => (~u.repeat /\ u.fired) = (~t.repeat /\ t.fired)
  BY <1>1, <1>2, <1>3, Zenon
<1> QED BY <1>1, <1>2, <1>4, <1>5

\* n clocks bring an interrupt no more than n clocks nearer.
LEMMA ClockLags ==
  ASSUME NEW t \in Timers, NEW n \in Nat
  PROVE  Lags(t, Clock(t, n), n)
<1>1. PICK u : u = Clock(t, n)
  OBVIOUS
<1> DEFINE k == ClocksUntilIrq(t)
           m == ClocksUntilIrq(u)
           c == t.counter
           g == t.target
<1>2. u \in Timers /\ Keeps(t, u)
  BY <1>1, ClockCounts
<1>3. /\ u.target = g /\ u.irqAtTarget = t.irqAtTarget /\ u.irqAtMax = t.irqAtMax
      /\ ResetsAtTarget(u) = ResetsAtTarget(t) /\ (k = 0 => m = 0)
      /\ m # 0 => (~u.repeat /\ u.fired) = (~t.repeat /\ t.fired)
  BY <1>2, UntilKept
<1>4. k \in Nat /\ m \in Nat
  BY <1>2, MaxAssumption, UntilTyped
<1>5. c \in 0..Max /\ g \in 0..Max /\ Max \in Nat \ {0} /\ c \in Values /\ g \in Values /\ Max \in Values
  BY MaxAssumption DEF Timers, Values
<1>6. ASSUME m # 0, n # 0, n < k
      PROVE  m >= k - n
  <2>1. ~(~u.repeat /\ u.fired) /\ ~(~t.repeat /\ t.fired)
    BY <1>2, <1>3, <1>6, UntilForm, Zenon
  <2>2. CASE ResetsAtTarget(t)
    <3>1. /\ k = IF ~t.irqAtTarget THEN 0 ELSE IF c < g THEN g - c ELSE g + 1
          /\ m = IF ~t.irqAtTarget THEN 0 ELSE IF u.counter < g THEN g - u.counter ELSE g + 1
      BY <1>2, <1>3, <2>1, <2>2, UntilForm, Zenon
    <3>2. u.counter = IF Beyond(t, n) < -1 THEN Start(t) + Left(t, n) ELSE End(t, n)
      BY <1>1, <1>6, <2>2, ClockCounts, Zenon
    <3>3. CASE c < g
      <4>1. u.counter = c + n
        BY <1>4, <1>5, <1>6, <3>1, <3>2, <3>3 DEF Beyond, Start, Left
      <4> QED BY <1>4, <1>5, <1>6, <3>1, <3>3, <4>1
    <3>4. CASE ~(c < g)
      <4>1. u.counter = n - 1
        BY <1>4, <1>5, <1>6, <3>1, <3>2, <3>4 DEF Beyond, Start, Left
      <4> QED BY <1>4, <1>5, <1>6, <3>1, <3>4, <4>1
    <3> QED BY <3>3, <3>4
  <2>3. CASE ~ResetsAtTarget(t)
    <3> DEFINE dt == Distance(c, g)
               dm == Distance(c, Max)
               et == Distance(u.counter, g)
               em == Distance(u.counter, Max)
    <3>1. /\ k = IF t.irqAtTarget /\ t.irqAtMax THEN IF dt < dm THEN dt ELSE dm
                 ELSE IF t.irqAtTarget THEN dt ELSE IF t.irqAtMax THEN dm ELSE 0
          /\ m = IF t.irqAtTarget /\ t.irqAtMax THEN IF et < em THEN et ELSE em
                 ELSE IF t.irqAtTarget THEN et ELSE IF t.irqAtMax THEN em ELSE 0
      BY <1>2, <1>3, <2>1, <2>3, UntilForm, Zenon
    <3>2. u.counter = (c + n) % (Max + 1)
      BY <1>1, <1>6, <2>3, ClockCounts, Zenon
    <3>3. (n < dt => et = dt - n) /\ (n < dm => em = dm - n)
      BY <1>5, <3>2, DistanceLess
    <3>4. dt \in Nat /\ dm \in Nat
      BY <1>5 DEF Distance
    <3>5. et \in Nat /\ em \in Nat
      <4>1. u.counter \in 0..Max
        BY <1>2 DEF Timers, Values
      <4> QED BY <1>5, <4>1 DEF Distance
    <3>6. n < k
      BY <1>6
    <3>7. n \in Nat /\ m # 0
      BY <1>6
    <3> HIDE DEF k, m, dt, dm, et, em
    <3>8. CASE t.irqAtTarget /\ t.irqAtMax
      BY <3>1, <3>3, <3>4, <3>5, <3>6, <3>7, <3>8
    <3>9. CASE t.irqAtTarget /\ ~t.irqAtMax
      BY <3>1, <3>3, <3>4, <3>5, <3>6, <3>7, <3>9
    <3>10. CASE ~t.irqAtTarget
      BY <3>1, <3>3, <3>4, <3>5, <3>6, <3>7, <3>10
    <3> QED BY <3>8, <3>9, <3>10
  <2> QED BY <2>2, <2>3
<1>7. ASSUME n = 0, m # 0
      PROVE  m = k
  <2>1. ~(~u.repeat /\ u.fired) /\ ~(~t.repeat /\ t.fired)
    BY <1>2, <1>3, <1>7, UntilForm, Zenon
  <2>2. u.counter = c
    BY <1>1, <1>7, ClockCounts, Zenon
  <2>3. Distance(u.counter, u.target) = Distance(c, g) /\ Distance(u.counter, Max) = Distance(c, Max)
    BY <1>3, <2>2, Zenon
  <2>4. CASE ResetsAtTarget(t)
    <3> DEFINE until == IF ~t.irqAtTarget THEN 0 ELSE IF c < g THEN g - c ELSE g + 1
    <3>1. k = until
      BY <2>1, <2>4, UntilForm, Zenon
    <3>2. m = until
      BY <1>2, <1>3, <2>1, <2>2, <2>4, UntilForm, Zenon
    <3> HIDE DEF until
    <3> QED BY <3>1, <3>2
  <2>5. CASE ~ResetsAtTarget(t)
    <3> DEFINE dt == Distance(c, g)
               dm == Distance(c, Max)
               until == IF t.irqAtTarget /\ t.irqAtMax THEN IF dt < dm THEN dt ELSE dm
                        ELSE IF t.irqAtTarget THEN dt ELSE IF t.irqAtMax THEN dm ELSE 0
    <3>1. k = until
      BY <2>1, <2>5, UntilForm, Zenon
    <3>2. m = until
      BY <1>2, <1>3, <2>1, <2>3, <2>5, UntilForm, Zenon
    <3> HIDE DEF until
    <3> QED BY <3>1, <3>2
  <2> QED BY <2>4, <2>5
<1>8. m # 0 => m >= k - n
  <2> HIDE DEF k, m
  <2> QED BY <1>4, <1>6, <1>7
<1> QED BY <1>1, <1>2, <1>3, <1>8, Zenon DEF Lags

\* Nor does a reset bring one nearer that comes when the counter returns.
LEMMA ResetLags ==
  ASSUME NEW t \in Timers, NEW u \in Timers, Keeps(t, u), u.counter = 0,
         ~(t.irqAtTarget /\ ~t.resetAtTarget)
  PROVE  Lags(t, u, 1)
<1> DEFINE k == ClocksUntilIrq(t)
           m == ClocksUntilIrq(u)
           c == t.counter
           g == t.target
<1>3. /\ u.target = g /\ u.irqAtTarget = t.irqAtTarget /\ u.irqAtMax = t.irqAtMax
      /\ ResetsAtTarget(u) = ResetsAtTarget(t) /\ (k = 0 => m = 0)
      /\ m # 0 => (~u.repeat /\ u.fired) = (~t.repeat /\ t.fired)
  BY UntilKept
<1>4. k \in Nat /\ m \in Nat
  BY MaxAssumption, UntilTyped
<1>5. c \in 0..Max /\ g \in 0..Max /\ Max \in Nat \ {0}
  BY MaxAssumption DEF Timers, Values
<1>6. ASSUME m # 0
      PROVE  m >= k - 1
  <2>1. ~(~u.repeat /\ u.fired) /\ ~(~t.repeat /\ t.fired)
    BY <1>3, <1>6, UntilForm, Zenon
  <2>2. CASE ResetsAtTarget(t)
    <3>1. /\ k = IF ~t.irqAtTarget THEN 0 ELSE IF c < g THEN g - c ELSE g + 1
          /\ m = IF ~t.irqAtTarget THEN 0 ELSE IF u.counter < g THEN g - u.counter ELSE g + 1
      BY <1>3, <2>1, <2>2, UntilForm, Zenon
    <3> HIDE DEF k, m
    <3> QED BY <1>5, <1>6, <3>1
  <2>3. CASE ~ResetsAtTarget(t)
    <3> DEFINE dt == Distance(c, g)
               dm == Distance(c, Max)
               et == Distance(u.counter, g)
               em == Distance(u.counter, Max)
    <3>1. /\ k = IF t.irqAtTarget /\ t.irqAtMax THEN IF dt < dm THEN dt ELSE dm
                 ELSE IF t.irqAtTarget THEN dt ELSE IF t.irqAtMax THEN dm ELSE 0
          /\ m = IF t.irqAtTarget /\ t.irqAtMax THEN IF et < em THEN et ELSE em
                 ELSE IF t.irqAtTarget THEN et ELSE IF t.irqAtMax THEN em ELSE 0
      BY <1>3, <2>1, <2>3, UntilForm, Zenon
    <3>2. t.irqAtTarget => g = Max
      BY <2>3 DEF ResetsAtTarget
    <3>3. em = Max /\ dm \in 1..(Max + 1) /\ (g = Max => et = em /\ dt = dm)
      BY <1>5 DEF Distance
    <3> HIDE DEF k, m, dt, dm, et, em
    <3> QED BY <1>5, <1>6, <3>1, <3>2, <3>3
  <2> QED BY <2>2, <2>3
<1> QED BY <1>3, <1>6, Zenon DEF Lags

LEMMA LagsTwice ==
  ASSUME NEW t \in Timers, NEW u, NEW w, NEW n \in Nat, NEW m \in Nat,
         Lags(t, u, n), Lags(u, w, m)
  PROVE  Lags(t, w, n + m)
<1>1. u \in Timers /\ w \in Timers /\ Keeps(t, w)
  BY KeepsTwice, Zenon DEF Lags
<1>2. ClocksUntilIrq(t) \in Nat /\ ClocksUntilIrq(u) \in Nat /\ ClocksUntilIrq(w) \in Nat
  BY <1>1, MaxAssumption, UntilTyped
<1> QED BY <1>1, <1>2 DEF Lags

-----------------------------------------------------------------------------
(***************************************************************************)
(* Induction, by the least number that is missing, and what it says of a   *)
(* function defined by recursion over an interval.                         *)
(***************************************************************************)
LEMMA AllNumbers ==
  ASSUME NEW S, 0 \in S, \A n \in Nat : n \in S => n + 1 \in S
  PROVE  \A n \in Nat : n \in S
<1> DEFINE T == Nat \ S
<1>1. SUFFICES ASSUME T # {} PROVE FALSE
  OBVIOUS
<1>2. PICK k \in T : \A j \in T : <<j, k>> \notin OpToRel(<, Nat)
  BY <1>1, NatLessThanWellFounded, WFMin
<1>3. k \in Nat /\ k \notin S /\ k # 0
  BY <1>2
<1>4. k - 1 \in Nat /\ k - 1 < k /\ (k - 1) + 1 = k
  BY <1>3
<1>5. <<k - 1, k>> \in OpToRel(<, Nat)
  BY <1>3, <1>4 DEF OpToRel
<1>6. k - 1 \notin T
  BY <1>2, <1>5
<1> QED BY <1>3, <1>4, <1>6

LEMMA UpTo ==
  ASSUME NEW n \in Nat, NEW S, 0 \in S, \A i \in 0..n : i \in S /\ i < n => i + 1 \in S
  PROVE  \A i \in 0..n : i \in S
<1> DEFINE T == {i \in Nat : i <= n => i \in S}
<1>1. 0 \in T
  OBVIOUS
<1>2. \A i \in Nat : i \in T => i + 1 \in T
  OBVIOUS
<1>3. \A i \in Nat : i \in T
  <2> HIDE DEF T
  <2> QED BY <1>1, <1>2, AllNumbers
<1> QED BY <1>3

\* A function that goes n steps from a.
HasIterates(D, a, step, n) ==
  \E g \in [0..n -> D] : g[0] = a /\ \A i \in 0..n : i # 0 => g[i] = step[g[i - 1]]

LEMMA Iterated ==
  ASSUME NEW D, NEW a \in D, NEW step \in [D -> D], NEW n \in Nat
  PROVE  HasIterates(D, a, step, n)
<1> DEFINE S == {m \in Nat : HasIterates(D, a, step, m)}
<1> USE DEF HasIterates
<1>1. 0 \in S
  <2>1. PICK g : g = [i \in 0..0 |-> a]
    OBVIOUS
  <2>2. g \in [0..0 -> D] /\ g[0] = a /\ \A i \in 0..0 : i = 0
    BY <2>1
  <2> QED BY <2>2
<1>2. ASSUME NEW m \in Nat, m \in S PROVE m + 1 \in S
  <2>1. PICK g \in [0..m -> D] : g[0] = a /\ \A i \in 0..m : i # 0 => g[i] = step[g[i - 1]]
    BY <1>2
  <2>2. PICK h : h = [i \in 0..(m + 1) |-> IF i = m + 1 THEN step[g[m]] ELSE g[i]]
    OBVIOUS
  <2>3. g[m] \in D /\ step[g[m]] \in D
    BY <2>1
  <2>4. h \in [0..(m + 1) -> D]
    BY <2>1, <2>2, <2>3
  <2>5. h[0] = a
    BY <2>1, <2>2
  <2>6. ASSUME NEW i \in 0..(m + 1), i # 0 PROVE h[i] = step[h[i - 1]]
    <3>1. i - 1 \in 0..m /\ i - 1 # m + 1 /\ h[i - 1] = g[i - 1]
      BY <2>2, <2>6
    <3>2. CASE i = m + 1
      BY <2>2, <3>1, <3>2
    <3>3. CASE i # m + 1
      BY <2>1, <2>2, <2>6, <3>1, <3>3
    <3> QED BY <3>2, <3>3
  <2> QED BY <2>4, <2>5, <2>6
<1>3. \A m \in Nat : m \in S
  <2> HIDE DEF S
  <2> QED BY <1>1, <1>2, AllNumbers
<1> QED BY <1>3

(***************************************************************************)
(* The video clock.                                                        *)
(***************************************************************************)
VideoRecords ==
  [product : 0..(CpuClock - 1), line : Nat, cycle : Nat, x1 : Nat, x2 : Nat,
   y1 : Nat, y2 : Nat, mode : VideoModes, divider : Nat \ {0}, interlaced : BOOLEAN]

\* Those whose place their frame has.
Videos ==
  {v \in VideoRecords : v.line < Lines[v.mode][v.interlaced] /\ v.cycle < CyclesInLine(v)}

SameMode(v, w) == w.mode = v.mode /\ w.interlaced = v.interlaced

LEMMA DivMonotone ==
  ASSUME NEW p \in Nat \ {0}, NEW a \in Nat, NEW b \in Nat, a <= b
  PROVE  a \div p <= b \div p /\ a \div p \in Nat /\ b \div p \in Nat
BY Z3

\* Every line has a cycle at least.
LEMMA LineTyped ==
  ASSUME NEW m \in VideoModes, NEW line \in Nat
  PROVE  /\ ExtraCycle(m, line) \in Nat
         /\ LineCycles[m] \in Nat \ {0} /\ LineCycles[m] \div 2 \in Nat \ {0}
<1>1. line % 2 \in Nat
  BY Z3
<1>2. LineCycles[m] \in Nat \ {0, 1}
  BY TimersAssumptions
<1>3. \A n \in Nat \ {0, 1} : n \div 2 \in Nat \ {0}
  BY Z3
<1> QED BY <1>1, <1>2, <1>3 DEF ExtraCycle

LEMMA CyclesTyped ==
  ASSUME NEW v, v.mode \in VideoModes, v.line \in Nat
  PROVE  CyclesInLine(v) \in Nat \ {0}
<1>1. /\ ExtraCycle(v.mode, v.line) \in Nat
      /\ LineCycles[v.mode] \in Nat \ {0} /\ LineCycles[v.mode] \div 2 \in Nat \ {0}
  BY LineTyped
<1> DEFINE long == IF v.interlaced /\ v.line = Lines[v.mode][TRUE] - 1
                   THEN LineCycles[v.mode] \div 2 ELSE LineCycles[v.mode]
<1>2. long \in Nat \ {0}
  BY <1>1, Zenon
<1>3. CyclesInLine(v) = long + ExtraCycle(v.mode, v.line)
  BY Zenon DEF CyclesInLine
<1> HIDE DEF long
<1> QED BY <1>1, <1>2, <1>3

LEMMA LinesTyped ==
  ASSUME NEW m \in VideoModes, NEW b \in BOOLEAN
  PROVE  Lines[m][b] \in Nat \ {0}
BY TimersAssumptions

LEMMA AnyNextLine ==
  ASSUME NEW v \in VideoRecords
  PROVE  /\ IncrementLine([v EXCEPT !.cycle = 0]) \in Videos
         /\ SameMode(v, IncrementLine([v EXCEPT !.cycle = 0]))
<1> DEFINE line == IF v.line + 1 >= Lines[v.mode][v.interlaced] THEN 0 ELSE v.line + 1
<1>1. IncrementLine([v EXCEPT !.cycle = 0]) = [v EXCEPT !.cycle = 0, !.line = line]
  BY DEF IncrementLine, VideoRecords
<1>2. Lines[v.mode][v.interlaced] \in Nat \ {0} /\ v.line \in Nat
  BY LinesTyped DEF VideoRecords
<1>3. line \in Nat /\ line < Lines[v.mode][v.interlaced]
  BY <1>2
<1> HIDE DEF line
<1>4. PICK w : w = [v EXCEPT !.cycle = 0, !.line = line]
  OBVIOUS
<1>5. /\ w.cycle = 0 /\ w.line = line /\ w.mode = v.mode /\ w.interlaced = v.interlaced
      /\ w \in VideoRecords
  BY <1>3, <1>4 DEF VideoRecords
<1>6. CyclesInLine(w) \in Nat \ {0}
  <2>1. w.mode \in VideoModes
    BY <1>5 DEF VideoRecords
  <2> QED BY <1>3, <1>5, <2>1, CyclesTyped
<1>7. w \in Videos
  <2>1. w.line < Lines[w.mode][w.interlaced]
    BY <1>3, <1>5
  <2>2. w.cycle < CyclesInLine(w)
    BY <1>5, <1>6
  <2> QED BY <1>5, <2>1, <2>2 DEF Videos
<1> QED BY <1>1, <1>4, <1>5, <1>7 DEF SameMode

LEMMA NextLineTyped ==
  ASSUME NEW v \in Videos
  PROVE  /\ IncrementLine([v EXCEPT !.cycle = 0]) \in Videos
         /\ SameMode(v, IncrementLine([v EXCEPT !.cycle = 0]))
<1>1. v \in VideoRecords
  BY DEF Videos
<1> QED BY <1>1, AnyNextLine

LEMMA PlaceTyped ==
  ASSUME NEW v \in Videos, NEW c \in Nat, c < CyclesInLine(v)
  PROVE  [v EXCEPT !.cycle = c] \in Videos /\ SameMode(v, [v EXCEPT !.cycle = c])
<1>1. PICK w : w = [v EXCEPT !.cycle = c]
  OBVIOUS
<1>2. /\ w.cycle = c /\ w.line = v.line /\ w.mode = v.mode /\ w.interlaced = v.interlaced
      /\ w \in VideoRecords
      /\ v.line < Lines[v.mode][v.interlaced]
  BY <1>1 DEF Videos, VideoRecords
<1>3. CyclesInLine(w) = CyclesInLine(v)
  BY <1>2, Zenon DEF CyclesInLine
<1> QED BY <1>1, <1>2, <1>3 DEF Videos, SameMode

-----------------------------------------------------------------------------
(***************************************************************************)
(* catch_up without synchronization.                                       *)
(***************************************************************************)
Walks(w) ==
  {p \in [video : Videos, left : Nat, dots : Nat, retraces : Nat] : SameMode(w, p.video)}

\* A step keeps to the line, and the mode and the ranges are not its.
LEMMA LineStepTyped ==
  ASSUME NEW w0, NEW p \in Walks(w0)
  PROVE  LineStep(p) \in Walks(w0)
<1> DEFINE v == p.video
           end == CyclesInLine(v)
           to == IF p.left < end - v.cycle THEN v.cycle + p.left ELSE end
           left == p.left - (to - v.cycle)
           dots == p.dots + to \div v.divider - v.cycle \div v.divider
<1>1. v \in Videos /\ v.cycle \in Nat /\ v.cycle < end /\ v.divider \in Nat \ {0}
  BY DEF Walks, Videos, VideoRecords
<1>2. end \in Nat \ {0} /\ p.left \in Nat /\ p.dots \in Nat /\ p.retraces \in Nat
  BY CyclesTyped DEF Walks, Videos, VideoRecords
<1>3. to \in Nat /\ v.cycle <= to /\ to <= end /\ left \in Nat
  <2> HIDE DEF end, v
  <2> QED BY <1>1, <1>2
<1>4. dots \in Nat
  <2> HIDE DEF v, to
  <2>1. /\ v.cycle \div v.divider <= to \div v.divider
        /\ v.cycle \div v.divider \in Nat /\ to \div v.divider \in Nat
    BY <1>1, <1>3, DivMonotone
  <2> QED BY <1>2, <2>1
<1>5. PICK q : q = [p EXCEPT !.left = left, !.dots = dots]
  OBVIOUS
<1>6. LineStep(p) = IF to < end THEN [q EXCEPT !.video.cycle = to]
                    ELSE [q EXCEPT !.video = IncrementLine([v EXCEPT !.cycle = 0]), !.retraces = @ + 1]
  <2>1. q = [p EXCEPT !.left = @ - (to - v.cycle),
                      !.dots = @ + to \div v.divider - v.cycle \div v.divider]
    BY <1>5 DEF Walks
  <2> QED BY <2>1, Zenon DEF LineStep
<1>7. q \in Walks(w0) /\ q.video = v /\ SameMode(w0, v)
  <2> HIDE DEF left, dots
  <2> QED BY <1>3, <1>4, <1>5 DEF Walks
<1>8. CASE to < end
  <2>1. [v EXCEPT !.cycle = to] \in Videos /\ SameMode(w0, [v EXCEPT !.cycle = to])
    BY <1>1, <1>3, <1>7, <1>8, PlaceTyped DEF SameMode
  <2>2. [q EXCEPT !.video.cycle = to] = [q EXCEPT !.video = [v EXCEPT !.cycle = to]]
    BY <1>7, Zenon
  <2> HIDE DEF to, end, v
  <2>3. PICK w : w = [v EXCEPT !.cycle = to]
    OBVIOUS
  <2>4. [q EXCEPT !.video = w] \in Walks(w0)
    BY <1>7, <2>1, <2>3 DEF Walks
  <2> QED BY <1>6, <1>8, <2>2, <2>3, <2>4, Zenon
<1>9. CASE ~(to < end)
  <2>1. /\ IncrementLine([v EXCEPT !.cycle = 0]) \in Videos
        /\ SameMode(w0, IncrementLine([v EXCEPT !.cycle = 0]))
    BY <1>1, <1>7, NextLineTyped DEF SameMode
  <2> HIDE DEF to, end, v
  <2>2. PICK w : w = IncrementLine([v EXCEPT !.cycle = 0])
    OBVIOUS
  <2>3. [q EXCEPT !.video = w, !.retraces = @ + 1] \in Walks(w0)
    <3>1. q.retraces \in Nat /\ w \in Videos /\ SameMode(w0, w)
      BY <1>7, <2>1, <2>2 DEF Walks
    <3>2. q.retraces + 1 \in Nat
      BY <3>1
    <3> QED BY <1>7, <3>1, <3>2 DEF Walks
  <2> QED BY <1>6, <1>9, <2>2, <2>3, Zenon
<1> QED BY <1>8, <1>9

\* The steps of a walk.
IsWalk(f, v, n) ==
  /\ f[0] = [video |-> v, left |-> n, dots |-> 0, retraces |-> 0]
  /\ \A i \in 0..n : f[i] \in Walks(v) /\ (i < n => f[i + 1] = LineStep(f[i]))
  /\ Walk(v, n) = f[n]

HasWalk(v, n) == \E f : IsWalk(f, v, n)

LEMMA WalkSteps ==
  ASSUME NEW v \in Videos, NEW n \in Nat
  PROVE  HasWalk(v, n)
<1> DEFINE start == [video |-> v, left |-> n, dots |-> 0, retraces |-> 0]
           step == [p \in Walks(v) |-> LineStep(p)]
           f == CHOOSE f : f = [i \in 0..n |-> IF i = 0 THEN start ELSE LineStep(f[i - 1])]
<1>1. start \in Walks(v)
  BY DEF Walks, SameMode
<1>2. step \in [Walks(v) -> Walks(v)]
  BY LineStepTyped
<1>3. \E g : g = [i \in 0..n |-> IF i = 0 THEN start ELSE LineStep(g[i - 1])]
  <2> HIDE DEF start, step
  <2>1. PICK g \in [0..n -> Walks(v)] :
          g[0] = start /\ \A i \in 0..n : i # 0 => g[i] = step[g[i - 1]]
    <3>1. HasIterates(Walks(v), start, step, n)
      BY <1>1, <1>2, Iterated
    <3> QED BY <3>1 DEF HasIterates
  <2>2. ASSUME NEW i \in 0..n PROVE g[i] = IF i = 0 THEN start ELSE LineStep(g[i - 1])
    <3>1. CASE i = 0
      BY <2>1, <3>1
    <3>2. CASE i # 0
      <4>1. i - 1 \in 0..n
        BY <3>2
      <4> QED BY <2>1, <3>2, <4>1 DEF step
    <3> QED BY <3>1, <3>2
  <2> QED BY <2>1, <2>2
<1>4. f = [i \in 0..n |-> IF i = 0 THEN start ELSE LineStep(f[i - 1])]
  BY <1>3
<1>5. Walk(v, n) = f[n]
  BY DEF Walk
<1> HIDE DEF start, f
<1> DEFINE S == {i \in 0..n : f[i] \in Walks(v)}
<1>6. 0 \in S
  BY <1>1, <1>4
<1>7. ASSUME NEW i \in 0..n, i < n PROVE f[i + 1] = LineStep(f[i])
  <2>1. i + 1 \in 0..n /\ i + 1 # 0 /\ (i + 1) - 1 = i
    BY <1>7
  <2> QED BY <1>4, <2>1
<1>8. \A i \in 0..n : i \in S /\ i < n => i + 1 \in S
  <2> TAKE i \in 0..n
  <2> HAVE i \in S /\ i < n
  <2>1. i + 1 \in 0..n
    OBVIOUS
  <2>2. f[i + 1] = LineStep(f[i])
    BY <1>7
  <2> QED BY <2>1, <2>2, LineStepTyped
<1>9. \A i \in 0..n : i \in S
  <2> HIDE DEF S
  <2> QED BY <1>6, <1>8, UpTo
<1>10. f[0] = start
  BY <1>4
<1>11. IsWalk(f, v, n)
  BY <1>5, <1>7, <1>9, <1>10 DEF IsWalk, start
<1> QED BY <1>11, Zenon DEF HasWalk

LEMMA WalkTyped ==
  ASSUME NEW v \in Videos, NEW n \in Nat
  PROVE  Walk(v, n) \in Walks(v)
<1>1. PICK f : IsWalk(f, v, n)
  BY WalkSteps, Zenon DEF HasWalk
<1> QED BY <1>1 DEF IsWalk

-----------------------------------------------------------------------------
(***************************************************************************)
(* catch_up with synchronization, from timers t that the settings on       *)
(* synchronize. A timer that is reset lags by no more than one clock.      *)
(***************************************************************************)
RestartsBehindTarget(i, t, on) ==
  on[i] /\ ResetsAtBlank(syncMode[i]) /\ t[i].irqAtTarget /\ ~t[i].resetAtTarget

Follows(i, p, t, on, cycles) ==
  /\ Keeps(t[i], p.timer[i])
  /\ p.sync[i] = on[i] \/ syncMode[i] = "PauseTillNextBlank"
  /\ ~RestartsBehindTarget(i, t, on)
       => \E r \in 0..1 : Lags(t[i], p.timer[i], r) /\ p.gpu[i] + r <= cycles - p.left

SyncWalks(t, on, w, cycles) ==
  {p \in [video : Videos, timer : [Indices -> Timers], sync : [Indices -> BOOLEAN],
          left : 0..cycles, dots : Nat, retraces : Nat, gpu : [0..1 -> Nat]] :
     /\ SameMode(w, p.video) /\ p.timer[2] = t[2] /\ p.sync[2] = on[2]
     /\ \A i \in 0..1 : Follows(i, p, t, on, cycles)}

LEMMA ProductTyped ==
  ASSUME NEW a \in Nat, NEW b \in Nat, NEW c \in Nat \ {0}
  PROVE  a * b \in Nat /\ (a * b) \div c \in Nat
<1>1. a * b \in Nat
  OBVIOUS
<1>2. \A n \in Nat : n \div c \in Nat
  BY Z3
<1> QED BY <1>1, <1>2

LEMMA ClockRates ==
  ASSUME NEW m \in VideoModes
  PROVE  /\ CpuClock \in Nat \ {0} /\ GpuClock[m] \in Nat \ {0} /\ CpuClock <= GpuClock[m]
<1>1. CpuClock \in Nat \ {0} /\ GpuClock[m] \in Nat \ {0, 1} /\ GpuClock[m] >= CpuClock
  BY TimersAssumptions
<1> QED BY <1>1

LEMMA ClocksTyped ==
  ASSUME NEW i, NEW own \in Nat, NEW gpu \in Nat, NEW m \in VideoModes
  PROVE  Clocks(i, own, gpu, m) \in Nat
<1>1. (gpu * CpuClock) \div GpuClock[m] \in Nat
  BY ClockRates, ProductTyped
<1> QED BY <1>1, Zenon DEF Clocks

LEMMA ResetTimerTyped ==
  ASSUME NEW t \in [Indices -> Timers], NEW on, NEW w, NEW cycles \in Nat, NEW i \in 0..1,
         NEW p \in SyncWalks(t, on, w, cycles),
         p.left < cycles, p.sync[i], ResetsAtBlank(syncMode[i])
  PROVE  ResetTimer(p, i) \in SyncWalks(t, on, w, cycles)
<1> DEFINE own == IF i = 0 THEN p.dots ELSE p.retraces
           n == Clocks(i, own, p.gpu[i], p.video.mode)
           now == Clock(p.timer[i], n)
           dots == IF i = 0 THEN 0 ELSE p.dots
           retraces == IF i = 1 THEN 0 ELSE p.retraces
<1>1. /\ p \in [video : Videos, timer : [Indices -> Timers], sync : [Indices -> BOOLEAN],
                left : 0..cycles, dots : Nat, retraces : Nat, gpu : [0..1 -> Nat]]
      /\ SameMode(w, p.video) /\ p.timer[2] = t[2] /\ p.sync[2] = on[2]
      /\ \A j \in 0..1 : Follows(j, p, t, on, cycles)
  BY Zenon DEF SyncWalks
<1>2. i \in Indices /\ p.timer[i] \in Timers /\ p.dots \in Nat /\ p.retraces \in Nat /\ p.gpu[i] \in Nat
  BY <1>1 DEF Indices
<1>3. p.video.mode \in VideoModes
  BY <1>1 DEF Videos, VideoRecords
<1>4. own \in Nat /\ dots \in Nat /\ retraces \in Nat
  BY <1>2, Zenon
<1>5. n \in Nat
  BY <1>2, <1>3, <1>4, ClocksTyped
<1>6. now \in Timers /\ Keeps(p.timer[i], now)
  BY <1>2, <1>5, ClockCounts
<1> HIDE DEF n, own, dots, retraces, now
<1>7. PICK u : u = [now EXCEPT !.counter = 0]
  OBVIOUS
<1>8. u \in Timers /\ Keeps(now, u) /\ u.counter = 0
  <2>1. 0 \in Values
    BY MaxAssumption DEF Values
  <2> QED BY <1>6, <1>7, <2>1, CountedKeeps DEF Timers
<1>9. PICK q : q = [p EXCEPT !.timer = [p.timer EXCEPT ![i] = u], !.gpu = [p.gpu EXCEPT ![i] = 0],
                             !.dots = dots, !.retraces = retraces]
  OBVIOUS
<1>10. ResetTimer(p, i) = q
  BY <1>1, <1>2, <1>7, <1>9 DEF ResetTimer, now, n, own, dots, retraces
<1>11. /\ q \in [video : Videos, timer : [Indices -> Timers], sync : [Indices -> BOOLEAN],
                 left : 0..cycles, dots : Nat, retraces : Nat, gpu : [0..1 -> Nat]]
       /\ q.video = p.video /\ q.timer = [p.timer EXCEPT ![i] = u] /\ q.sync = p.sync
       /\ q.left = p.left /\ q.gpu = [p.gpu EXCEPT ![i] = 0]
  BY <1>1, <1>4, <1>8, <1>9
<1>12. q.timer[2] = t[2] /\ q.timer[i] = u /\ q.gpu[i] = 0
  BY <1>1, <1>2, <1>11 DEF Indices
<1>13. Follows(i, q, t, on, cycles)
  <2>1. Keeps(t[i], u)
    <3>1. Keeps(t[i], p.timer[i])
      BY <1>1 DEF Follows
    <3> QED BY <1>6, <1>8, <3>1, KeepsTwice
  <2>2. q.sync[i] = on[i]
    <3>1. p.sync[i] = on[i] \/ syncMode[i] = "PauseTillNextBlank"
      BY <1>1 DEF Follows
    <3>2. syncMode[i] # "PauseTillNextBlank"
      BY DEF ResetsAtBlank
    <3> QED BY <1>11, <3>1, <3>2, Zenon
  <2>3. ASSUME ~RestartsBehindTarget(i, t, on)
        PROVE  Lags(t[i], u, 1)
    <3>1. ~(t[i].irqAtTarget /\ ~t[i].resetAtTarget)
      BY <2>2, <2>3, <1>11, Zenon DEF RestartsBehindTarget
    <3>2. t[i] \in Timers
      BY <1>2
    <3> QED BY <1>8, <2>1, <3>1, <3>2, ResetLags
  <2>4. p.left \in 0..cycles
    BY <1>1
  <2>5. q.gpu[i] + 1 <= cycles - q.left
    BY <1>11, <1>12, <2>4
  <2>6. 1 \in 0..1
    OBVIOUS
  <2> QED BY <1>12, <2>1, <2>2, <2>3, <2>5, <2>6, Zenon DEF Follows
<1>14. ASSUME NEW j \in 0..1, j # i PROVE Follows(j, q, t, on, cycles)
  <2>1. /\ q.timer[j] = p.timer[j] /\ q.gpu[j] = p.gpu[j] /\ q.sync[j] = p.sync[j] /\ q.left = p.left
    BY <1>1, <1>11, <1>14 DEF Indices
  <2>2. Follows(j, p, t, on, cycles)
    BY <1>1
  <2> QED BY <2>1, <2>2 DEF Follows
<1> QED BY <1>1, <1>10, <1>11, <1>12, <1>13, <1>14 DEF SyncWalks

LEMMA BlankStartTyped ==
  ASSUME NEW t \in [Indices -> Timers], NEW on, NEW w, NEW cycles \in Nat, NEW i \in 0..1,
         NEW p \in SyncWalks(t, on, w, cycles), p.left < cycles
  PROVE  BlankStart(p, i) \in SyncWalks(t, on, w, cycles)
<1>1. CASE ~p.sync[i]
  BY <1>1 DEF BlankStart
<1>2. CASE p.sync[i] /\ ResetsAtBlank(syncMode[i])
  BY <1>2, ResetTimerTyped DEF BlankStart
<1>3. CASE p.sync[i] /\ ~ResetsAtBlank(syncMode[i]) /\ syncMode[i] = "PauseTillNextBlank"
  <2>1. /\ p \in [video : Videos, timer : [Indices -> Timers], sync : [Indices -> BOOLEAN],
                  left : 0..cycles, dots : Nat, retraces : Nat, gpu : [0..1 -> Nat]]
        /\ SameMode(w, p.video) /\ p.timer[2] = t[2] /\ p.sync[2] = on[2]
        /\ \A j \in 0..1 : Follows(j, p, t, on, cycles)
    BY Zenon DEF SyncWalks
  <2>2. PICK q : q = [p EXCEPT !.sync = [p.sync EXCEPT ![i] = FALSE]]
    OBVIOUS
  <2>3. BlankStart(p, i) = q
    BY <1>3, <2>1, <2>2, Zenon DEF BlankStart
  <2>4. /\ q \in [video : Videos, timer : [Indices -> Timers], sync : [Indices -> BOOLEAN],
                  left : 0..cycles, dots : Nat, retraces : Nat, gpu : [0..1 -> Nat]]
        /\ q.video = p.video /\ q.timer = p.timer /\ q.left = p.left /\ q.gpu = p.gpu
        /\ q.sync = [p.sync EXCEPT ![i] = FALSE]
    BY <2>1, <2>2
  <2>5. i \in Indices /\ 2 \in Indices /\ i # 2
    BY DEF Indices
  <2>6. q.sync[2] = p.sync[2]
    BY <2>1, <2>4, <2>5
  <2>7. ASSUME NEW j \in 0..1 PROVE Follows(j, q, t, on, cycles)
    <3>1. j \in Indices
      BY DEF Indices
    <3>2. q.sync[j] = on[j] \/ syncMode[j] = "PauseTillNextBlank"
      <4>1. CASE j = i
        BY <1>3, <4>1
      <4>2. CASE j # i
        <5>1. q.sync[j] = p.sync[j]
          BY <2>1, <2>4, <3>1, <4>2
        <5> QED BY <2>1, <5>1, Zenon DEF Follows
      <4> QED BY <4>1, <4>2
    <3> QED BY <2>1, <2>4, <3>2, Zenon DEF Follows
  <2> QED BY <2>1, <2>3, <2>4, <2>6, <2>7, Zenon DEF SyncWalks
<1>4. CASE p.sync[i] /\ ~ResetsAtBlank(syncMode[i]) /\ syncMode[i] # "PauseTillNextBlank"
  BY <1>4 DEF BlankStart
<1> QED BY <1>1, <1>2, <1>3, <1>4

LEMMA AtBlankTyped ==
  ASSUME NEW t \in [Indices -> Timers], NEW on, NEW w, NEW cycles \in Nat,
         NEW p \in SyncWalks(t, on, w, cycles), p.left < cycles, NEW h, NEW e
  PROVE  AtBlank(p, h, e) \in SyncWalks(t, on, w, cycles)
<1>1. 0 \in 0..1 /\ 1 \in 0..1
  OBVIOUS
<1>2. BlankStart(p, 0) \in SyncWalks(t, on, w, cycles) /\ BlankStart(p, 1) \in SyncWalks(t, on, w, cycles)
  BY <1>1, BlankStartTyped
<1> QED BY <1>2, Zenon DEF AtBlank

\* Synchronized or not, a stretch of the line ends within the line.
LEMMA SegmentTyped ==
  ASSUME NEW v \in Videos
  PROVE  /\ Segment(v).to \in Nat /\ v.cycle < Segment(v).to /\ Segment(v).to <= CyclesInLine(v)
<1>1. CyclesInLine(v) \in Nat \ {0} /\ v.cycle \in Nat /\ v.cycle < CyclesInLine(v)
  BY CyclesTyped DEF Videos, VideoRecords
<1>2. v.x1 \in Nat /\ v.x2 \in Nat
  BY DEF Videos, VideoRecords
<1> DEFINE end == CyclesInLine(v)
           valid == v.x1 < v.x2
<1>3. Segment(v) = IF valid /\ v.cycle < v.x1 /\ v.x1 < end THEN [blank |-> TRUE, to |-> v.x1]
                   ELSE IF valid /\ v.cycle < v.x2 /\ v.x2 < end THEN [blank |-> FALSE, to |-> v.x2]
                   ELSE [blank |-> TRUE, to |-> end]
  BY Zenon DEF Segment
<1> HIDE DEF end, valid
<1>4. Segment(v).to = IF valid /\ v.cycle < v.x1 /\ v.x1 < end THEN v.x1
                      ELSE IF valid /\ v.cycle < v.x2 /\ v.x2 < end THEN v.x2
                      ELSE end
  BY <1>3
<1> QED BY <1>1, <1>2, <1>4 DEF end

LEMMA SyncStepTyped ==
  ASSUME NEW t \in [Indices -> Timers], NEW on, NEW w, NEW cycles \in Nat,
         NEW p \in SyncWalks(t, on, w, cycles)
  PROVE  SyncStep(p) \in SyncWalks(t, on, w, cycles)
<1> DEFINE v == p.video
           segment == Segment(v)
           to == IF v.cycle + p.left < segment.to THEN v.cycle + p.left ELSE segment.to
           n == to - v.cycle
           runs0 == ~IsTimerPaused(p.sync[0], syncMode[0], segment.blank)
           runs1 == ~IsTimerPaused(p.sync[1], syncMode[1], InVBlank(v))
           lineEnds == to = CyclesInLine(v)
           next == IF lineEnds THEN IncrementLine([v EXCEPT !.cycle = 0]) ELSE [v EXCEPT !.cycle = to]
           left == p.left - n
           dots == p.dots + (IF runs0 THEN to \div v.divider - v.cycle \div v.divider ELSE 0)
           retraces == p.retraces + (IF runs1 /\ lineEnds THEN 1 ELSE 0)
           gpu == [i \in 0..1 |-> p.gpu[i] + IF (i = 0 /\ runs0) \/ (i = 1 /\ runs1) THEN n ELSE 0]
<1>1. /\ p \in [video : Videos, timer : [Indices -> Timers], sync : [Indices -> BOOLEAN],
                left : 0..cycles, dots : Nat, retraces : Nat, gpu : [0..1 -> Nat]]
      /\ SameMode(w, p.video) /\ p.timer[2] = t[2] /\ p.sync[2] = on[2]
      /\ \A j \in 0..1 : Follows(j, p, t, on, cycles)
  BY Zenon DEF SyncWalks
<1>2. v \in Videos /\ v.cycle \in Nat /\ v.divider \in Nat \ {0} /\ p.left \in 0..cycles
  BY <1>1 DEF Videos, VideoRecords
<1>3. /\ segment.to \in Nat /\ v.cycle < segment.to /\ segment.to <= CyclesInLine(v)
  BY <1>2, SegmentTyped
<1>4. CASE p.left = 0
  <2>1. SyncStep(p) = p
    BY <1>4, Zenon DEF SyncStep
  <2> QED BY <2>1
<1>5. CASE p.left # 0
  <2>1. to \in Nat /\ v.cycle < to /\ to <= CyclesInLine(v) /\ n \in Nat \ {0} /\ left \in 0..cycles /\ left < cycles
    <3>1. CyclesInLine(v) \in Nat
      BY <1>2, CyclesTyped DEF Videos, VideoRecords
    <3> HIDE DEF v, segment
    <3> QED BY <1>2, <1>3, <1>5, <3>1
  <2>2. dots \in Nat
    <3>1. /\ v.cycle \div v.divider <= to \div v.divider
          /\ v.cycle \div v.divider \in Nat /\ to \div v.divider \in Nat
      <4> HIDE DEF v, to
      <4>1. v.cycle <= to
        BY <1>2, <2>1
      <4> QED BY <1>2, <2>1, <4>1, DivMonotone
    <3>2. p.dots \in Nat
      BY <1>1
    <3> DEFINE more == IF runs0 THEN to \div v.divider - v.cycle \div v.divider ELSE 0
    <3>3. more \in Nat
      <4> HIDE DEF runs0, to, v
      <4> QED BY <3>1
    <3> HIDE DEF more
    <3>4. p.dots + more \in Nat
      BY <3>2, <3>3
    <3> QED BY <3>4 DEF more
  <2>3. retraces \in Nat
    <3>1. p.retraces \in Nat
      BY <1>1
    <3> HIDE DEF runs1, lineEnds
    <3> QED BY <3>1
  <2>4. next \in Videos /\ SameMode(v, next)
    <3> HIDE DEF to, v
    <3>1. CASE lineEnds
      BY <1>2, <3>1, NextLineTyped, Zenon
    <3>2. CASE ~lineEnds
      <4>1. CyclesInLine(v) \in Nat
        BY <1>2, CyclesTyped DEF Videos, VideoRecords
      <4>2. to < CyclesInLine(v)
        BY <2>1, <3>2, <4>1
      <4>3. [v EXCEPT !.cycle = to] \in Videos /\ SameMode(v, [v EXCEPT !.cycle = to])
        BY <1>2, <2>1, <4>2, PlaceTyped
      <4> QED BY <3>2, <4>3, Zenon
    <3> QED BY <3>1, <3>2
  <2>5. gpu \in [0..1 -> Nat] /\ \A j \in 0..1 : gpu[j] <= p.gpu[j] + n
    <3>1. p.gpu \in [0..1 -> Nat]
      BY <1>1, SMTT(40)
    <3> HIDE DEF runs0, runs1, n
    <3> QED BY <2>1, <3>1
  <2>6. PICK q : q = [p EXCEPT !.video = next, !.left = left, !.dots = dots,
                               !.retraces = retraces, !.gpu = gpu]
    OBVIOUS
  <2>7. SyncStep(p) = AtBlank(q, ~segment.blank /\ to = v.x2, lineEnds)
    <3>1. q = [p EXCEPT !.video = next, !.left = @ - n,
                        !.dots = @ + (IF runs0 THEN to \div v.divider - v.cycle \div v.divider ELSE 0),
                        !.retraces = @ + (IF runs1 /\ lineEnds THEN 1 ELSE 0),
                        !.gpu = [i \in 0..1 |->
                                   @[i] + IF (i = 0 /\ runs0) \/ (i = 1 /\ runs1) THEN n ELSE 0]]
      <4> HIDE DEF next, n, to, v, runs0, runs1, lineEnds
      <4> QED BY <1>1, <2>6
    <3> QED BY <1>5, <3>1, Zenon DEF SyncStep
  <2> HIDE DEF next, left, dots, retraces, gpu, n, to, v, lineEnds, segment
  <2>8. /\ q \in [video : Videos, timer : [Indices -> Timers], sync : [Indices -> BOOLEAN],
                  left : 0..cycles, dots : Nat, retraces : Nat, gpu : [0..1 -> Nat]]
        /\ q.video = next /\ q.timer = p.timer /\ q.sync = p.sync
        /\ q.left = left /\ q.gpu = gpu
    BY <1>1, <2>1, <2>2, <2>3, <2>4, <2>5, <2>6
  <2>9. ASSUME NEW j \in 0..1 PROVE Follows(j, q, t, on, cycles)
    <3>1. Follows(j, p, t, on, cycles)
      BY <1>1
    <3>2. ASSUME NEW r \in 0..1, p.gpu[j] + r <= cycles - p.left
          PROVE  q.gpu[j] + r <= cycles - q.left
      <4>1. /\ p.gpu[j] \in Nat /\ q.gpu[j] \in Nat /\ q.gpu[j] <= p.gpu[j] + n
            /\ p.left \in 0..cycles /\ left = p.left - n /\ n \in Nat
        BY <1>1, <2>1, <2>5, <2>8 DEF left
      <4> QED BY <2>8, <3>2, <4>1
    <3> QED BY <2>8, <3>1, <3>2, Zenon DEF Follows
  <2>10. SameMode(w, q.video)
    BY <1>1, <2>4, <2>8, Zenon DEF v, SameMode
  <2>11. q \in SyncWalks(t, on, w, cycles) /\ q.left < cycles
    BY <1>1, <2>1, <2>8, <2>9, <2>10, Zenon DEF SyncWalks
  <2> QED BY <2>7, <2>11, AtBlankTyped
<1> QED BY <1>4, <1>5

\* The steps of a synchronized walk, from one to the next.
IsSyncWalk(f, v, t, n) ==
  /\ f[0] = [video |-> v, timer |-> t, sync |-> sync, left |-> n,
             dots |-> 0, retraces |-> 0, gpu |-> [j \in 0..1 |-> 0]]
  /\ \A i \in 0..n : /\ f[i] \in SyncWalks(t, sync, v, n)
                     /\ i < n => f[i + 1] = SyncStep(f[i])
  /\ SyncWalk(v, t, n) = f[n]

HasSyncWalk(v, t, n) == \E f : IsSyncWalk(f, v, t, n)

LEMMA SyncWalkSteps ==
  ASSUME NEW t \in [Indices -> Timers], NEW v \in Videos, NEW cycles \in Nat,
         sync \in [Indices -> BOOLEAN]
  PROVE  HasSyncWalk(v, t, cycles)
<1> DEFINE Whole == SyncWalks(t, sync, v, cycles)
           start == [video |-> v, timer |-> t, sync |-> sync, left |-> cycles,
                     dots |-> 0, retraces |-> 0, gpu |-> [j \in 0..1 |-> 0]]
           step == [p \in Whole |-> SyncStep(p)]
           f == CHOOSE f : f = [i \in 0..cycles |-> IF i = 0 THEN start ELSE SyncStep(f[i - 1])]
<1>1. start \in Whole
  <2>1. /\ start \in [video : Videos, timer : [Indices -> Timers], sync : [Indices -> BOOLEAN],
                      left : 0..cycles, dots : Nat, retraces : Nat, gpu : [0..1 -> Nat]]
        /\ start.video = v /\ start.timer = t /\ start.sync = sync
        /\ start.left = cycles /\ start.gpu = [j \in 0..1 |-> 0]
    OBVIOUS
  <2>2. ASSUME NEW j \in 0..1 PROVE Follows(j, start, t, sync, cycles)
    <3>1. j \in Indices /\ t[j] \in Timers
      BY DEF Indices
    <3>2. Keeps(t[j], t[j])
      BY DEF Keeps
    <3>3. Lags(t[j], t[j], 0)
      <4>1. ClocksUntilIrq(t[j]) \in Nat
        BY <3>1, MaxAssumption, UntilTyped
      <4> QED BY <3>1, <3>2, <4>1 DEF Lags
    <3>4. start.gpu[j] + 0 <= cycles - start.left /\ 0 \in 0..1
      BY <2>1
    <3> HIDE DEF start
    <3> QED BY <2>1, <3>2, <3>3, <3>4, Zenon DEF Follows
  <2>3. SameMode(v, start.video)
    BY <2>1 DEF SameMode
  <2> HIDE DEF start
  <2> QED BY <2>1, <2>2, <2>3, Zenon DEF SyncWalks
<1>2. step \in [Whole -> Whole]
  BY SyncStepTyped
<1>3. \E g : g = [i \in 0..cycles |-> IF i = 0 THEN start ELSE SyncStep(g[i - 1])]
  <2> HIDE DEF start, step, Whole
  <2>1. PICK g \in [0..cycles -> Whole] :
          g[0] = start /\ \A i \in 0..cycles : i # 0 => g[i] = step[g[i - 1]]
    <3>1. HasIterates(Whole, start, step, cycles)
      BY <1>1, <1>2, Iterated
    <3> QED BY <3>1 DEF HasIterates
  <2>2. ASSUME NEW i \in 0..cycles PROVE g[i] = IF i = 0 THEN start ELSE SyncStep(g[i - 1])
    <3>1. CASE i = 0
      BY <2>1, <3>1
    <3>2. CASE i # 0
      <4>1. i - 1 \in 0..cycles
        BY <3>2
      <4> QED BY <2>1, <3>2, <4>1 DEF step
    <3> QED BY <3>1, <3>2
  <2> QED BY <2>1, <2>2
<1>4. f = [i \in 0..cycles |-> IF i = 0 THEN start ELSE SyncStep(f[i - 1])]
  BY <1>3
<1>5. SyncWalk(v, t, cycles) = f[cycles]
  BY DEF SyncWalk
<1> HIDE DEF start, f
<1> DEFINE S == {i \in 0..cycles : f[i] \in Whole}
<1> HIDE DEF Whole
<1>6. 0 \in S
  BY <1>1, <1>4
<1>7. ASSUME NEW i \in 0..cycles, i < cycles PROVE f[i + 1] = SyncStep(f[i])
  <2>1. i + 1 \in 0..cycles /\ i + 1 # 0 /\ (i + 1) - 1 = i
    BY <1>7
  <2> QED BY <1>4, <2>1
<1>8. \A i \in 0..cycles : i \in S /\ i < cycles => i + 1 \in S
  <2> TAKE i \in 0..cycles
  <2> HAVE i \in S /\ i < cycles
  <2>1. i + 1 \in 0..cycles
    OBVIOUS
  <2> QED BY <1>7, <2>1, SyncStepTyped DEF Whole
<1>9. \A i \in 0..cycles : i \in S
  <2> HIDE DEF S
  <2> QED BY <1>6, <1>8, UpTo
<1>10. f[0] = start
  BY <1>4
<1>11. IsSyncWalk(f, v, t, cycles)
  BY <1>5, <1>7, <1>9, <1>10 DEF IsSyncWalk, start, Whole
<1> QED BY <1>11, Zenon DEF HasSyncWalk

LEMMA SyncWalkTyped ==
  ASSUME NEW t \in [Indices -> Timers], NEW v \in Videos, NEW cycles \in Nat,
         sync \in [Indices -> BOOLEAN]
  PROVE  SyncWalk(v, t, cycles) \in SyncWalks(t, sync, v, cycles)
<1>1. PICK f : IsSyncWalk(f, v, t, cycles)
  BY SyncWalkSteps, Zenon DEF HasSyncWalk
<1>2. cycles \in 0..cycles
  OBVIOUS
<1> QED BY <1>1, <1>2 DEF IsSyncWalk

-----------------------------------------------------------------------------
(***************************************************************************)
(* A synchronized timer on another clock is given no more clocks than CPU  *)
(* cycles have passed: the cycles of the video clock are rounded down      *)
(* twice.                                                                  *)
(***************************************************************************)
LEMMA Times ==
  ASSUME NEW a \in Nat, NEW b \in Nat, NEW c \in Nat, a <= b
  PROVE  a * c <= b * c /\ a * c \in Nat /\ b * c \in Nat /\ (a + 1) * c = a * c + c /\ a * c = c * a
BY SMT

LEMMA FloorBelow ==
  ASSUME NEW n \in Nat, NEW d \in Nat \ {0}
  PROVE  (n \div d) \in Nat /\ (n \div d) * d <= n /\ n < (n \div d) * d + d
<1> DEFINE q == n \div d
           r == n % d
<1>1. q \in Nat /\ r \in 0..(d - 1) /\ n = d * q + r
  BY DivMod
<1> HIDE DEF q, r
<1>2. q * d = d * q
  BY <1>1
<1>3. q * d \in Nat
  BY <1>1
<1>4. q * d <= n /\ n < q * d + d
  BY <1>1, <1>2, <1>3
<1> QED BY <1>1, <1>4 DEF q

\* The GPU's cycles, turned back into the CPU's, are no more than these were:
\* what is rounded away on the way there is less than a CPU cycle.
LEMMA NeverAhead ==
  ASSUME NEW C \in Nat \ {0}, NEW G \in Nat \ {0}, C <= G,
         NEW product \in 0..(C - 1), NEW cpu \in Nat, NEW gpu \in Nat, NEW r \in 0..1,
         gpu + r <= (product + cpu * G) \div C
  PROVE  r + (gpu * C) \div G <= cpu
<1> DEFINE all == product + cpu * G
           L == all \div C
           k == (gpu * C) \div G
<1>1. cpu * G \in Nat /\ gpu * C \in Nat
  BY Times
<1>2. all \in Nat
  BY <1>1
<1>3. L \in Nat /\ L * C <= all
  <2> HIDE DEF all
  <2> QED BY <1>2, FloorBelow
<1>4. k \in Nat /\ k * G <= gpu * C
  <2> DEFINE x == gpu * C
  <2>1. x \in Nat
    BY <1>1
  <2> HIDE DEF x
  <2>2. x \div G \in Nat /\ (x \div G) * G <= x
    BY <2>1, FloorBelow
  <2> QED BY <2>2 DEF x
<1>5. gpu + r <= L
  OBVIOUS
<1> HIDE DEF L, k
<1>6. SUFFICES ASSUME r + k > cpu PROVE FALSE
  BY <1>4
<1>7. CASE r = 0
  <2>1. gpu <= L /\ cpu + 1 <= k
    BY <1>3, <1>4, <1>5, <1>6, <1>7
  <2>2. gpu * C <= L * C
    BY <1>3, <2>1, Times
  <2>3. (cpu + 1) * G <= k * G /\ (cpu + 1) * G = cpu * G + G
    <3>1. cpu + 1 \in Nat /\ cpu <= cpu
      OBVIOUS
    <3>2. (cpu + 1) * G <= k * G
      BY <1>4, <2>1, <3>1, Times
    <3>3. (cpu + 1) * G = cpu * G + G
      BY <3>1, Times
    <3> QED BY <3>2, <3>3
  <2> DEFINE gC == gpu * C
             LC == L * C
             cG == cpu * G
             kG == k * G
  <2>4. gC \in Int /\ LC \in Int /\ cG \in Int /\ kG \in Int
    BY <1>3, <1>4
  <2>5. gC <= LC /\ LC <= product + cG /\ kG <= gC /\ cG + G <= kG
    BY <1>3, <1>4, <2>2, <2>3
  <2> HIDE DEF gC, LC, cG, kG
  <2> QED BY <2>4, <2>5
<1>8. CASE r = 1
  <2>1. gpu + 1 <= L /\ cpu <= k /\ gpu + 1 \in Nat
    BY <1>3, <1>4, <1>5, <1>6, <1>8
  <2>2. (gpu + 1) * C <= L * C /\ (gpu + 1) * C = gpu * C + C
    <3>1. gpu <= gpu
      OBVIOUS
    <3>2. (gpu + 1) * C <= L * C
      BY <1>3, <2>1, Times
    <3>3. (gpu + 1) * C = gpu * C + C
      BY <3>1, Times
    <3> QED BY <3>2, <3>3
  <2>3. cpu * G <= k * G
    BY <1>4, <2>1, Times
  <2> DEFINE gC == gpu * C
             LC == L * C
             cG == cpu * G
             kG == k * G
  <2>4. gC \in Int /\ LC \in Int /\ cG \in Int /\ kG \in Int
    BY <1>3, <1>4
  <2>5. gC + C <= LC /\ LC <= product + cG /\ kG <= gC /\ cG <= kG
    BY <1>3, <1>4, <2>2, <2>3
  <2> HIDE DEF gC, LC, cG, kG
  <2> QED BY <2>4, <2>5
<1> QED BY <1>7, <1>8

-----------------------------------------------------------------------------
(***************************************************************************)
(* What both ways to catch up make of the state: every timer follows its   *)
(* clock.                                                                  *)
(***************************************************************************)
LEMMA LagsLonger ==
  ASSUME NEW t \in Timers, NEW u, NEW n \in Nat, NEW m \in Nat, n <= m, Lags(t, u, n)
  PROVE  Lags(t, u, m)
<1>1. u \in Timers
  BY DEF Lags
<1>2. ClocksUntilIrq(t) \in Nat /\ ClocksUntilIrq(u) \in Nat
  BY <1>1, MaxAssumption, UntilTyped
<1> QED BY <1>2 DEF Lags

LEMMA PassTyped ==
  ASSUME NEW v \in Videos, NEW cpu \in Nat
  PROVE  /\ Pass(v, cpu) \in Videos /\ SameMode(v, Pass(v, cpu))
         /\ GpuCycles(v, cpu) \in Nat
<1>1. v.mode \in VideoModes /\ v.product \in 0..(CpuClock - 1) /\ v.line \in Nat
  BY DEF Videos, VideoRecords
<1>2. CpuClock \in Nat \ {0} /\ GpuClock[v.mode] \in Nat \ {0}
  BY <1>1, ClockRates
<1>3. cpu * GpuClock[v.mode] \in Nat
  BY <1>2, Times
<1> DEFINE all == v.product + cpu * GpuClock[v.mode]
           rest == all % CpuClock
<1>4. all \in Nat
  BY <1>1, <1>3
<1>5. rest \in 0..(CpuClock - 1) /\ all \div CpuClock \in Nat
  <2> HIDE DEF all
  <2> QED BY <1>2, <1>4, DivMod
<1>6. PICK w : w = [v EXCEPT !.product = rest]
  OBVIOUS
<1>7. Pass(v, cpu) = w
  BY <1>6 DEF Pass, Videos, VideoRecords
<1> HIDE DEF rest
<1>8. /\ w \in [product : 0..(CpuClock - 1), line : Nat, cycle : Nat, x1 : Nat, x2 : Nat,
                y1 : Nat, y2 : Nat, mode : VideoModes, divider : Nat \ {0}, interlaced : BOOLEAN]
      /\ w.line = v.line /\ w.cycle = v.cycle /\ w.mode = v.mode /\ w.interlaced = v.interlaced
      /\ v.line < Lines[v.mode][v.interlaced] /\ v.cycle < CyclesInLine(v)
  BY <1>5, <1>6 DEF Videos, VideoRecords
<1>9. CyclesInLine(w) = CyclesInLine(v)
  BY <1>8, Zenon DEF CyclesInLine
<1>10. GpuCycles(v, cpu) \in Nat
  BY <1>5, Zenon DEF GpuCycles
<1> QED BY <1>7, <1>8, <1>9, <1>10 DEF Videos, VideoRecords, SameMode

\* The state that catch_up starts from, and what it leaves.
Placed ==
  /\ video \in Videos /\ timer \in [Indices -> Timers]
  /\ source \in [Indices -> {"system", "other"}] /\ sync \in [Indices -> BOOLEAN]
  /\ elapsed \in Nat /\ phase \in 0..(Div - 1)

States == [video : Videos, timer : [Indices -> Timers], sync : [Indices -> BOOLEAN]]

FollowsClock(i, c) ==
  /\ Keeps(timer[i], c.timer[i])
  /\ c.sync[i] = sync[i] \/ syncMode[i] = "PauseTillNextBlank"
  /\ source[i] = "system" /\ ~ResetsBehindTarget(i) => Lags(timer[i], c.timer[i], elapsed)

LEMMA NoSyncCatchUp ==
  ASSUME Placed, ~sync[0], ~sync[1]
  PROVE  LET c == CatchUpNoSync(video, timer, elapsed)
         IN  /\ c \in States /\ SameMode(video, c.video) /\ c.timer[2] = timer[2] /\ c.sync[2] = sync[2]
             /\ \A i \in 0..1 : FollowsClock(i, c)
<1> DEFINE p == Walk(Pass(video, elapsed), GpuCycles(video, elapsed))
           m0 == IF source[0] = "system" THEN elapsed ELSE p.dots
           m1 == IF source[1] = "system" THEN elapsed ELSE p.retraces
           a == Clock(timer[0], m0)
           b == Clock(timer[1], m1)
<1>1. /\ video \in Videos /\ timer \in [Indices -> Timers] /\ sync \in [Indices -> BOOLEAN]
      /\ elapsed \in Nat
  BY DEF Placed
<1>2. p \in Walks(Pass(video, elapsed)) /\ SameMode(video, Pass(video, elapsed))
  BY <1>1, PassTyped, WalkTyped
<1> HIDE DEF p
<1>3. SameMode(video, p.video) /\ p.video \in Videos /\ p.dots \in Nat /\ p.retraces \in Nat
  BY <1>2 DEF Walks, SameMode
<1>4. m0 \in Nat /\ m1 \in Nat
  BY <1>1, <1>3, Zenon
<1>5. timer[0] \in Timers /\ timer[1] \in Timers
  BY <1>1 DEF Indices
<1>6. /\ a \in Timers /\ Keeps(timer[0], a) /\ Lags(timer[0], a, m0)
      /\ b \in Timers /\ Keeps(timer[1], b) /\ Lags(timer[1], b, m1)
  <2> HIDE DEF m0, m1
  <2> QED BY <1>4, <1>5, ClockCounts, ClockLags
<1>7. CatchUpNoSync(video, timer, elapsed)
        = [video |-> p.video, sync |-> sync, timer |-> [timer EXCEPT ![0] = a, ![1] = b]]
  BY <1>1 DEF CatchUpNoSync, ClockNoSync, p, Indices
<1>8. /\ source[0] = "system" => Lags(timer[0], a, elapsed)
      /\ source[1] = "system" => Lags(timer[1], b, elapsed)
  BY <1>6, Zenon
<1> HIDE DEF a, b
<1>9. PICK u : u = [timer EXCEPT ![0] = a, ![1] = b]
  OBVIOUS
<1>10. u \in [Indices -> Timers] /\ u[0] = a /\ u[1] = b /\ u[2] = timer[2]
  <2>1. a \in Timers /\ b \in Timers
    BY <1>6
  <2>2. timer \in [Indices -> Timers]
    BY <1>1
  <2>3. 0 \in Indices /\ 1 \in Indices /\ 2 \in Indices
    BY DEF Indices
  <2>4. u \in [Indices -> Timers]
    BY <1>9, <2>1, <2>2, <2>3
  <2>5. u[0] = a /\ u[1] = b
    BY <1>9, <2>1, <2>2, <2>3
  <2>6. u[2] = timer[2]
    BY <1>9, <2>1, <2>2, <2>3
  <2> QED BY <2>4, <2>5, <2>6
<1>11. PICK c : c = [video |-> p.video, sync |-> sync, timer |-> u]
  OBVIOUS
<1>12. c \in States /\ SameMode(video, c.video) /\ c.timer = u /\ c.sync = sync
  BY <1>1, <1>3, <1>10, <1>11 DEF States
<1>13. FollowsClock(0, c) /\ FollowsClock(1, c)
  BY <1>6, <1>8, <1>10, <1>12, Zenon DEF FollowsClock
<1>14. \A i \in 0..1 : i = 0 \/ i = 1
  OBVIOUS
<1> QED BY <1>7, <1>9, <1>10, <1>11, <1>12, <1>13, <1>14, Zenon

LEMMA SyncCatchUp ==
  ASSUME Placed
  PROVE  LET c == CatchUpWithSync(video, timer, elapsed)
         IN  /\ c \in States /\ SameMode(video, c.video) /\ c.timer[2] = timer[2] /\ c.sync[2] = sync[2]
             /\ \A i \in 0..1 : FollowsClock(i, c)
<1> DEFINE v == Pass(video, elapsed)
           cycles == GpuCycles(video, elapsed)
           p == SyncWalk(v, timer, cycles)
           m == v.mode
           m0 == Clocks(0, p.dots, p.gpu[0], p.video.mode)
           m1 == Clocks(1, p.retraces, p.gpu[1], p.video.mode)
           a == Clock(p.timer[0], m0)
           b == Clock(p.timer[1], m1)
<1>1. /\ video \in Videos /\ timer \in [Indices -> Timers] /\ sync \in [Indices -> BOOLEAN]
      /\ elapsed \in Nat
  BY DEF Placed
<1>2. v \in Videos /\ SameMode(video, v) /\ cycles \in Nat
  BY <1>1, PassTyped
<1> HIDE DEF v
<1>3. cycles = (video.product + elapsed * GpuClock[m]) \div CpuClock
  BY <1>2, Zenon DEF GpuCycles, SameMode
<1> HIDE DEF cycles
<1>4. p \in SyncWalks(timer, sync, v, cycles)
  BY <1>1, <1>2, SyncWalkTyped
<1> HIDE DEF p
<1>5. /\ p \in [video : Videos, timer : [Indices -> Timers], sync : [Indices -> BOOLEAN],
                left : 0..cycles, dots : Nat, retraces : Nat, gpu : [0..1 -> Nat]]
      /\ SameMode(v, p.video) /\ p.video.mode = m /\ p.timer[2] = timer[2] /\ p.sync[2] = sync[2]
      /\ \A j \in 0..1 : Follows(j, p, timer, sync, cycles)
  BY <1>4, Zenon DEF SyncWalks, SameMode
<1>6. /\ p.dots \in Nat /\ p.retraces \in Nat /\ p.gpu[0] \in Nat /\ p.gpu[1] \in Nat
      /\ p.timer[0] \in Timers /\ p.timer[1] \in Timers /\ timer[0] \in Timers /\ timer[1] \in Timers
      /\ p.timer \in [Indices -> Timers] /\ p.video \in Videos /\ p.sync \in [Indices -> BOOLEAN]
  BY <1>1, <1>5 DEF Indices
<1>7. m \in VideoModes /\ m0 \in Nat /\ m1 \in Nat
  <2>1. m \in VideoModes
    BY <1>2 DEF Videos, VideoRecords
  <2> QED BY <1>5, <1>6, <2>1, ClocksTyped
<1>8. /\ a \in Timers /\ Keeps(p.timer[0], a) /\ Lags(p.timer[0], a, m0)
      /\ b \in Timers /\ Keeps(p.timer[1], b) /\ Lags(p.timer[1], b, m1)
  <2> HIDE DEF m0, m1
  <2> QED BY <1>6, <1>7, ClockCounts, ClockLags
<1>9. CatchUpWithSync(video, timer, elapsed)
        = [video |-> p.video, sync |-> p.sync, timer |-> [p.timer EXCEPT ![0] = a, ![1] = b]]
  BY <1>6 DEF CatchUpWithSync, ClockWithSync, p, v, cycles, Indices
<1>10. ASSUME NEW gpu \in Nat, NEW r \in 0..1, NEW i \in 0..1, NEW own,
              gpu + r <= cycles, source[i] = "system"
       PROVE  r + Clocks(i, own, gpu, m) <= elapsed
  <2>1. Clocks(i, own, gpu, m) = (gpu * CpuClock) \div GpuClock[m]
    BY <1>10, Zenon DEF Clocks
  <2>2. video.product \in 0..(CpuClock - 1)
    BY <1>1 DEF Videos, VideoRecords
  <2>3. /\ CpuClock \in Nat \ {0} /\ GpuClock[m] \in Nat \ {0} /\ CpuClock <= GpuClock[m]
    BY <1>7, ClockRates
  <2>4. gpu + r <= (video.product + elapsed * GpuClock[m]) \div CpuClock
    BY <1>3, <1>10, Zenon
  <2>5. r + (gpu * CpuClock) \div GpuClock[m] <= elapsed
    BY <1>1, <2>2, <2>3, <2>4, NeverAhead
  <2> QED BY <2>1, <2>5
<1>11. ASSUME NEW i \in 0..1, NEW own \in Nat, NEW k \in Nat, NEW u \in Timers,
              k = Clocks(i, own, p.gpu[i], p.video.mode), Lags(p.timer[i], u, k),
              source[i] = "system", ~ResetsBehindTarget(i)
       PROVE  Lags(timer[i], u, elapsed)
  <2>1. ~RestartsBehindTarget(i, timer, sync)
    BY <1>11, Zenon DEF RestartsBehindTarget, ResetsBehindTarget
  <2>2. Follows(i, p, timer, sync, cycles)
    BY <1>5
  <2>3. PICK r \in 0..1 : Lags(timer[i], p.timer[i], r) /\ p.gpu[i] + r <= cycles - p.left
    BY <2>1, <2>2, Zenon DEF Follows
  <2>4. p.gpu[i] \in Nat /\ p.gpu[i] + r <= cycles /\ timer[i] \in Timers
    <3>1. p.left \in 0..cycles /\ p.gpu[i] \in Nat /\ i \in Indices
      BY <1>5 DEF Indices
    <3>2. p.gpu[i] + r <= cycles
      <4> DEFINE g == p.gpu[i]
      <4>1. g \in Nat /\ g + r <= cycles - p.left
        BY <2>3, <3>1
      <4> HIDE DEF g
      <4>2. g + r <= cycles
        BY <1>2, <3>1, <4>1
      <4> QED BY <4>2 DEF g
    <3> QED BY <1>1, <3>1, <3>2
  <2>5. r + k <= elapsed
    <3>1. k = Clocks(i, own, p.gpu[i], m)
      BY <1>5, <1>11
    <3> QED BY <1>10, <1>11, <2>4, <3>1, Zenon
  <2>6. r \in Nat
    OBVIOUS
  <2>7. Lags(timer[i], u, r + k)
    BY <1>11, <2>3, <2>4, <2>6, LagsTwice
  <2>8. r + k \in Nat
    BY <2>6, <1>11
  <2> QED BY <1>1, <2>4, <2>5, <2>7, <2>8, LagsLonger
<1>12. /\ source[0] = "system" /\ ~ResetsBehindTarget(0) => Lags(timer[0], a, elapsed)
       /\ source[1] = "system" /\ ~ResetsBehindTarget(1) => Lags(timer[1], b, elapsed)
  <2>1. 0 \in 0..1 /\ 1 \in 0..1
    OBVIOUS
  <2> HIDE DEF a, b
  <2> QED BY <1>6, <1>7, <1>8, <1>11, <2>1, Zenon
<1> HIDE DEF a, b, m0, m1
<1>13. PICK u : u = [p.timer EXCEPT ![0] = a, ![1] = b]
  OBVIOUS
<1>14. u \in [Indices -> Timers] /\ u[0] = a /\ u[1] = b /\ u[2] = p.timer[2]
  <2>1. a \in Timers /\ b \in Timers /\ p.timer \in [Indices -> Timers]
    BY <1>6, <1>8
  <2>2. 0 \in Indices /\ 1 \in Indices /\ 2 \in Indices
    BY DEF Indices
  <2>3. u \in [Indices -> Timers]
    BY <1>13, <2>1, <2>2
  <2>4. u[0] = a /\ u[1] = b
    BY <1>13, <2>1, <2>2
  <2>5. u[2] = p.timer[2]
    BY <1>13, <2>1, <2>2
  <2> QED BY <2>3, <2>4, <2>5
<1>15. PICK c : c = [video |-> p.video, sync |-> p.sync, timer |-> u]
  OBVIOUS
<1>16. c \in States /\ SameMode(video, c.video) /\ c.timer = u /\ c.sync = p.sync
  BY <1>2, <1>5, <1>6, <1>14, <1>15 DEF States, SameMode
<1>17. /\ Keeps(timer[0], a) /\ Keeps(timer[1], b)
       /\ p.sync[0] = sync[0] \/ syncMode[0] = "PauseTillNextBlank"
       /\ p.sync[1] = sync[1] \/ syncMode[1] = "PauseTillNextBlank"
  <2>1. Follows(0, p, timer, sync, cycles) /\ Follows(1, p, timer, sync, cycles)
    BY <1>5
  <2> QED BY <1>8, <2>1, KeepsTwice, Zenon DEF Follows
<1>18. FollowsClock(0, c) /\ FollowsClock(1, c)
  BY <1>12, <1>14, <1>16, <1>17, Zenon DEF FollowsClock
<1>19. \A i \in 0..1 : i = 0 \/ i = 1
  OBVIOUS
<1> QED BY <1>5, <1>9, <1>13, <1>14, <1>15, <1>16, <1>18, <1>19, Zenon

-----------------------------------------------------------------------------
(***************************************************************************)
(* catch_up as a whole.                                                    *)
(***************************************************************************)
LEMMA DivTyped == Div \in Nat \ {0} /\ MaxElapsed \in Nat \ {0} /\ CpuClock \in Nat \ {0}
BY TimersAssumptions

LEMMA NowTyped ==
  ASSUME Placed
  PROVE  /\ Now \in 0..(Div - 1)
         /\ (phase + elapsed) \div Div \in Nat
         /\ phase + elapsed = Div * ((phase + elapsed) \div Div) + Now
<1>1. Div \in Nat \ {0} /\ phase \in 0..(Div - 1) /\ elapsed \in Nat
  BY DivTyped DEF Placed
<1> DEFINE a == phase + elapsed
<1>2. a \in Nat
  BY <1>1
<1> HIDE DEF a
<1>3. a % Div \in 0..(Div - 1) /\ a \div Div \in Nat /\ a = (Div * (a \div Div)) + (a % Div)
  BY <1>1, <1>2, DivMod
<1> QED BY <1>3 DEF a, Now

LEMMA Timer2ClocksTyped ==
  ASSUME Placed
  PROVE  Timer2Clocks(phase, elapsed) \in Nat
<1>1. elapsed \in Nat
  BY DEF Placed
<1> QED BY <1>1, NowTyped, Zenon DEF Timer2Clocks

\* What catch_up leaves of the state.
Catches(c) ==
  /\ c \in States /\ SameMode(video, c.video) /\ c.sync[2] = sync[2]
  /\ \A i \in 0..1 : FollowsClock(i, c)
  /\ Lags(timer[2], c.timer[2], Timer2Clocks(phase, elapsed))

LEMMA CaughtUpTyped ==
  ASSUME Placed
  PROVE  Catches(CaughtUp)
<1> DEFINE b == IF sync[0] \/ sync[1] THEN CatchUpWithSync(video, timer, elapsed)
                ELSE CatchUpNoSync(video, timer, elapsed)
           n == Timer2Clocks(phase, elapsed)
           w == Clock(b.timer[2], n)
<1>1. b \in States /\ SameMode(video, b.video) /\ b.timer[2] = timer[2] /\ b.sync[2] = sync[2] /\ \A i \in 0..1 : FollowsClock(i, b)
  BY NoSyncCatchUp, SyncCatchUp, Zenon
<1>2. n \in Nat
  BY Timer2ClocksTyped
<1>3. CaughtUp = [b EXCEPT !.timer[2] = Clock(@, n)]
  BY Zenon DEF CaughtUp, CatchUp
<1> HIDE DEF b, n
<1>4. b.timer \in [Indices -> Timers] /\ b.timer[2] \in Timers /\ b.timer[2] = timer[2]
  BY <1>1 DEF States, Indices
<1>5. w \in Timers /\ Lags(timer[2], w, n)
  <2>1. w \in Timers /\ Lags(b.timer[2], w, n)
    BY <1>2, <1>4, ClockCounts, ClockLags
  <2> HIDE DEF w
  <2> QED BY <1>4, <2>1
<1>6. PICK c : c = [b EXCEPT !.timer = [b.timer EXCEPT ![2] = w]]
  OBVIOUS
<1>7. CaughtUp = c
  BY <1>1, <1>3, <1>4, <1>6 DEF States
<1> HIDE DEF w
<1>8. c \in States /\ c.video = b.video /\ c.timer = [b.timer EXCEPT ![2] = w] /\ c.sync = b.sync
  BY <1>1, <1>4, <1>5, <1>6 DEF States
<1>9. c.timer[2] = w
  BY <1>4, <1>8 DEF Indices
<1>10. ASSUME NEW i \in 0..1 PROVE FollowsClock(i, c)
  <2>1. c.timer[i] = b.timer[i] /\ c.sync[i] = b.sync[i]
    BY <1>4, <1>8 DEF Indices
  <2>2. FollowsClock(i, b)
    BY <1>1
  <2> QED BY <2>1, <2>2, Zenon DEF FollowsClock
<1> QED BY <1>1, <1>5, <1>7, <1>8, <1>9, <1>10, Zenon DEF Catches, n

(***************************************************************************)
(* The inductive invariant.                                                *)
(***************************************************************************)
LEMMA IrqNames ==
  /\ Irq(0) = "Timer0Irq" /\ Irq(1) = "Timer1Irq" /\ Irq(2) = "Timer2Irq"
  /\ {Irq(i) : i \in Indices} = {"Timer0Irq", "Timer1Irq", "Timer2Irq"}
<1>1. Irq(0) = "Timer0Irq" /\ Irq(1) = "Timer1Irq" /\ Irq(2) = "Timer2Irq"
  BY DEF Irq
<1>2. Indices = {0, 1, 2}
  BY DEF Indices
<1> QED BY <1>1, <1>2

Events == {"VBlank"} \cup {Irq(i) : i \in Indices}

OnTime(i) ==
  ClocksUntilIrq(timer[i]) # 0 /\ (source[i] = "system" \/ i = 2) /\ ~ResetsBehindTarget(i)
    => /\ Irq(i) \in DOMAIN due
       /\ due[Irq(i)] + elapsed
            <= IrqDelay(i, source[i], ClocksUntilIrq(timer[i]), video, phase)

DueTyped ==
  /\ DOMAIN due \subseteq Events
  /\ \A i \in Indices : Irq(i) \in DOMAIN due => due[Irq(i)] \in Int

TimersInvariant ==
  /\ Placed /\ elapsed \in 0..MaxElapsed
  /\ DueTyped
  /\ \A i \in Indices : OnTime(i)

\* Catching up moves no event: those of timers that count CPU cycles are as
\* many cycles nearer as the timers' interrupts are, or fewer.
LEMMA StaysOnTime ==
  ASSUME TimersInvariant, NEW i \in Indices, NEW c, Catches(c),
         timer'[i] \in Timers, Lags(c.timer[i], timer'[i], 0), sync'[i] = c.sync[i],
         source'[i] = source[i], syncMode'[i] = syncMode[i], elapsed' = 0, phase' = Now,
         Irq(i) \in DOMAIN due => Irq(i) \in DOMAIN due' /\ due'[Irq(i)] = due[Irq(i)]
  PROVE  OnTime(i)'
<1> DEFINE k == ClocksUntilIrq(timer[i])
           m == ClocksUntilIrq(timer'[i])
<1>1. /\ Placed /\ elapsed \in Nat /\ timer[i] \in Timers /\ c.timer[i] \in Timers
      /\ OnTime(i) /\ DueTyped
  BY Zenon DEF TimersInvariant, Placed, Catches, States
<1>2. k \in Nat /\ m \in Nat
  BY <1>1, MaxAssumption, UntilTyped
<1>3. SUFFICES ASSUME m # 0, source[i] = "system" \/ i = 2, ~ResetsBehindTarget(i)'
               PROVE  /\ Irq(i) \in DOMAIN due'
                      /\ due'[Irq(i)] + elapsed'
                           <= IrqDelay(i, source'[i], m, video', phase')
  BY Zenon DEF OnTime
<1>4. Keeps(timer[i], c.timer[i]) /\ (c.sync[i] = sync[i] \/ syncMode[i] = "PauseTillNextBlank")
  <2>1. CASE i \in 0..1
    BY <2>1, Zenon DEF Catches, FollowsClock
  <2>2. CASE i = 2
    BY <2>2, Zenon DEF Catches, Lags
  <2>3. i \in 0..1 \/ i = 2
    BY DEF Indices
  <2> QED BY <2>1, <2>2, <2>3
<1>5. /\ timer'[i].irqAtTarget = timer[i].irqAtTarget
      /\ timer'[i].resetAtTarget = timer[i].resetAtTarget
  <2>1. Keeps(timer[i], timer'[i])
    BY <1>4, KeepsTwice, Zenon DEF Lags
  <2> QED BY <1>1, <2>1, UntilKept
<1>6. ~ResetsBehindTarget(i)
  <2>1. "PauseTillNextBlank" \notin {"ResetAtBlank", "PauseOutsideBlank"}
    OBVIOUS
  <2>2. ResetsAtBlank(syncMode[i]) => syncMode[i] # "PauseTillNextBlank"
    BY <2>1, Zenon DEF ResetsAtBlank
  <2> QED BY <1>3, <1>4, <1>5, <2>2, Zenon DEF ResetsBehindTarget
<1>7. CASE source[i] = "system" /\ i \in 0..1
  <2>1. Lags(timer[i], c.timer[i], elapsed)
    BY <1>6, <1>7, Zenon DEF Catches, FollowsClock
  <2>2. Lags(timer[i], timer'[i], elapsed + 0)
    <3>1. 0 \in Nat
      OBVIOUS
    <3> QED BY <1>1, <2>1, <3>1, LagsTwice
  <2>3. k # 0 /\ m >= k - elapsed
    BY <1>1, <1>2, <1>3, <2>2 DEF Lags
  <2>4. Irq(i) \in DOMAIN due /\ due[Irq(i)] + elapsed <= k
    BY <1>1, <1>3, <1>6, <1>7, <2>3, Zenon DEF OnTime, IrqDelay
  <2>5. due[Irq(i)] \in Int
    BY <1>1, <2>4, Zenon DEF DueTyped
  <2>6. Irq(i) \in DOMAIN due' /\ due'[Irq(i)] = due[Irq(i)]
    BY <2>4
  <2>7. due'[Irq(i)] + elapsed' <= m
    <3> DEFINE d == due[Irq(i)]
    <3> HIDE DEF d, k, m
    <3>1. d \in Int /\ d + elapsed <= k
      BY <2>4, <2>5 DEF d
    <3>2. d + 0 <= m
      BY <1>1, <1>2, <2>3, <3>1
    <3> QED BY <2>6, <3>2 DEF d
  <2>8. IrqDelay(i, source'[i], m, video', phase') = m
    BY <1>7, Zenon DEF IrqDelay
  <2> QED BY <2>6, <2>7, <2>8
<1>8. CASE i = 2
  <2> DEFINE n == Timer2Clocks(phase, elapsed)
             d == due[Irq(i)]
  <2>1. n \in Nat
    BY <1>1, Timer2ClocksTyped
  <2>2. Lags(timer[i], timer'[i], n + 0)
    <3>1. 0 \in Nat
      OBVIOUS
    <3>2. Lags(timer[i], c.timer[i], n)
      BY <1>8 DEF Catches
    <3> QED BY <1>1, <2>1, <3>1, <3>2, LagsTwice
  <2>3. k # 0 /\ m >= k - n
    <3> HIDE DEF n
    <3> QED BY <1>2, <1>3, <2>1, <2>2 DEF Lags
  <2>4. Irq(i) \in DOMAIN due /\ d + elapsed <= IrqDelay(i, source[i], k, video, phase)
    BY <1>1, <1>3, <1>6, <2>3, Zenon DEF OnTime
  <2>5. d \in Int
    BY <1>1, <2>4, Zenon DEF DueTyped
  <2>6. Irq(i) \in DOMAIN due' /\ due'[Irq(i)] = d
    BY <2>4
  <2>7. CASE source[i] = "system"
    <3>1. IrqDelay(i, source[i], k, video, phase) = k /\ IrqDelay(i, source'[i], m, video', phase') = m
      BY <2>7, Zenon DEF IrqDelay
    <3>2. n <= elapsed
      <4>1. n = 0 \/ n = elapsed
        BY <1>8, <2>7, Zenon DEF Timer2Clocks
      <4> QED BY <1>1, <4>1
    <3>3. d + elapsed <= k
      BY <2>4, <3>1
    <3> HIDE DEF n, d, k, m
    <3>4. d + 0 <= m
      BY <1>1, <1>2, <2>1, <2>3, <2>5, <3>2, <3>3
    <3> QED BY <2>6, <3>1, <3>4
  <2>8. CASE source[i] # "system"
    <3> DEFINE q == (phase + elapsed) \div Div
               kD == k * Div
               mD == m * Div
               qD == q * Div
    <3>1. /\ IrqDelay(i, source[i], k, video, phase) = kD - phase
          /\ IrqDelay(i, source'[i], m, video', phase') = mD - phase'
      BY <1>8, <2>8 DEF IrqDelay
    <3>2. n = 0 \/ n = q
      BY <1>8, <2>8, Zenon DEF Timer2Clocks
    <3>3. q \in Nat /\ Now \in 0..(Div - 1) /\ phase + elapsed = Div * q + Now
      BY <1>1, NowTyped
    <3>4. Div \in Nat \ {0} /\ phase \in 0..(Div - 1) /\ elapsed \in Nat
      BY <1>1, DivTyped DEF Placed
    <3> HIDE DEF q, k, m, n, d
    <3>5. kD <= mD + qD /\ kD \in Nat /\ mD \in Nat /\ qD \in Nat
      <4>1. k <= m + q
        BY <1>2, <2>1, <2>3, <3>2, <3>3
      <4>2. k * Div <= (m + q) * Div
        <5>1. m + q \in Nat
          BY <1>2, <3>3
        <5> QED BY <1>2, <3>4, <4>1, <5>1, Times
      <4>3. (m + q) * Div = m * Div + q * Div
        BY <1>2, <3>3, <3>4
      <4>4. k * Div \in Nat /\ m * Div \in Nat /\ q * Div \in Nat
        BY <1>2, <3>3, <3>4
      <4> QED BY <4>2, <4>3, <4>4
    <3>6. Div * q = qD
      BY <3>3, <3>4
    <3> HIDE DEF kD, mD, qD
    <3>7. d + elapsed <= kD - phase
      BY <2>4, <3>1
    <3>8. phase + elapsed = qD + Now
      BY <3>3, <3>6
    <3>9. d + 0 <= mD - Now
      BY <2>5, <3>3, <3>4, <3>5, <3>7, <3>8
    <3> QED BY <2>6, <3>1, <3>9
  <2> QED BY <2>7, <2>8
<1>9. i \in 0..1 \/ i = 2
  BY DEF Indices
<1> QED BY <1>3, <1>7, <1>8, <1>9

-----------------------------------------------------------------------------
(***************************************************************************)
(* schedule_timer_events sets every event for the interrupt it belongs to. *)
(***************************************************************************)
LEMMA IrqDelayTyped ==
  ASSUME NEW i, NEW from, NEW clocks \in Nat, NEW v \in Videos, NEW at \in 0..(Div - 1)
  PROVE  IrqDelay(i, from, clocks, v, at) \in Int
<1>1. v.mode \in VideoModes /\ v.divider \in Nat
  BY DEF Videos, VideoRecords
<1>2. /\ CpuClock \in Nat /\ GpuClock[v.mode] \in Nat \ {0} /\ Div \in Nat \ {0}
      /\ LineCycles["Ntsc"] \in Nat
  <2>1. "Ntsc" \in VideoModes
    BY DEF VideoModes
  <2> QED BY <1>1, <2>1, ClockRates, DivTyped, LineTyped
<1> DEFINE a == clocks * v.divider
           l == 2 * LineCycles["Ntsc"] + 1
           b == (clocks * l) \div 2
           g == GpuClock[v.mode]
           c == clocks * Div
<1>3. a \in Nat /\ l \in Nat /\ c \in Nat
  BY <1>1, <1>2
<1>4. b \in Nat
  <2> HIDE DEF l
  <2>1. 2 \in Nat \ {0}
    OBVIOUS
  <2> QED BY <1>3, <2>1, ProductTyped
<1>5. g \in Nat \ {0}
  BY <1>2
<1>6. IrqDelay(i, from, clocks, v, at) =
        IF from = "system" THEN clocks
        ELSE IF i = 0 THEN (a * CpuClock) \div g + 1
        ELSE IF i = 1 THEN (b * CpuClock) \div g + 1
        ELSE c - at
  BY Zenon DEF IrqDelay
<1> HIDE DEF a, l, b, g, c
<1>7. (a * CpuClock) \div g \in Nat /\ (b * CpuClock) \div g \in Nat
  BY <1>2, <1>3, <1>4, <1>5, ProductTyped
<1> DEFINE x == (a * CpuClock) \div g
           y == (b * CpuClock) \div g
<1> HIDE DEF x, y
<1>8. x + 1 \in Int /\ y + 1 \in Int /\ c - at \in Int /\ clocks \in Int
  BY <1>3, <1>7 DEF x, y
<1> QED BY <1>6, <1>8, Zenon DEF x, y

\* What scheduling one timer's event does to that and to the others.
Scheduled(r, events, i, t, from, v, at) ==
  /\ Irq(i) \in DOMAIN r <=> ClocksUntilIrq(t) # 0
  /\ ClocksUntilIrq(t) # 0 => r[Irq(i)] = IrqDelay(i, from, ClocksUntilIrq(t), v, at)
  /\ \A e : e # Irq(i) =>
       /\ e \in DOMAIN r <=> e \in DOMAIN events
       /\ e \in DOMAIN r => r[e] = events[e]

LEMMA OneScheduled ==
  ASSUME NEW events, NEW i, NEW t, NEW from, NEW v, NEW at,
         NEW r, r = ScheduleTimer(events, i, t, from, v, at)
  PROVE  Scheduled(r, events, i, t, from, v, at)
<1> DEFINE clocks == ClocksUntilIrq(t)
           d == IrqDelay(i, from, clocks, v, at)
           name == Irq(i)
<1>1. r = IF clocks = 0 THEN Unschedule(events, name) ELSE UpdateOrPush(events, name, d)
  BY Zenon DEF ScheduleTimer
<1> HIDE DEF clocks, d, name
<1>2. CASE clocks = 0
  BY <1>1, <1>2 DEF Scheduled, Unschedule, clocks, name
<1>3. CASE clocks # 0
  <2>1. r = [x \in DOMAIN events \cup {name} |-> IF x = name THEN d ELSE events[x]]
    BY <1>1, <1>3 DEF UpdateOrPush
  <2>2. DOMAIN r = DOMAIN events \cup {name} /\ r[name] = d
    BY <2>1
  <2>3. \A e \in DOMAIN r : e # name => r[e] = events[e]
    BY <2>1
  <2> QED BY <1>3, <2>2, <2>3 DEF Scheduled, clocks, d, name
<1> QED BY <1>2, <1>3

AllOnTime(r, t, from, v, at) ==
  \A i \in Indices :
    /\ ClocksUntilIrq(t[i]) # 0
         => /\ Irq(i) \in DOMAIN r
            /\ r[Irq(i)] = IrqDelay(i, from[i], ClocksUntilIrq(t[i]), v, at)
    /\ Irq(i) \in DOMAIN r => r[Irq(i)] \in Int

LEMMA AllScheduled ==
  ASSUME NEW events, DOMAIN events \subseteq Events, NEW t \in [Indices -> Timers], NEW from,
         NEW v \in Videos, NEW at \in 0..(Div - 1),
         NEW r, r = ScheduleTimerEvents(events, t, from, v, at)
  PROVE  AllOnTime(r, t, from, v, at) /\ DOMAIN r \subseteq Events
<1>1. PICK one : one = ScheduleTimer(events, 0, t[0], from[0], v, at)
  OBVIOUS
<1>2. PICK two : two = ScheduleTimer(one, 1, t[1], from[1], v, at)
  OBVIOUS
<1>3. r = ScheduleTimer(two, 2, t[2], from[2], v, at)
  BY <1>1, <1>2, Zenon DEF ScheduleTimerEvents
<1>4. Irq(0) # Irq(1) /\ Irq(0) # Irq(2) /\ Irq(1) # Irq(2)
  BY IrqNames
<1>5. Indices = {0, 1, 2}
  BY DEF Indices
<1>6. /\ Irq(0) \in DOMAIN one <=> ClocksUntilIrq(t[0]) # 0
      /\ ClocksUntilIrq(t[0]) # 0 => one[Irq(0)] = IrqDelay(0, from[0], ClocksUntilIrq(t[0]), v, at)
      /\ \A e : e # Irq(0) => (e \in DOMAIN one <=> e \in DOMAIN events)
  <2>1. Scheduled(one, events, 0, t[0], from[0], v, at)
    BY <1>1, OneScheduled
  <2> QED BY <2>1, Zenon DEF Scheduled
<1>7. /\ Irq(1) \in DOMAIN two <=> ClocksUntilIrq(t[1]) # 0
      /\ ClocksUntilIrq(t[1]) # 0 => two[Irq(1)] = IrqDelay(1, from[1], ClocksUntilIrq(t[1]), v, at)
      /\ \A e : e # Irq(1) => /\ (e \in DOMAIN two <=> e \in DOMAIN one)
                              /\ e \in DOMAIN two => two[e] = one[e]
  <2>1. Scheduled(two, one, 1, t[1], from[1], v, at)
    BY <1>2, OneScheduled
  <2> QED BY <2>1, Zenon DEF Scheduled
<1>8. /\ Irq(2) \in DOMAIN r <=> ClocksUntilIrq(t[2]) # 0
      /\ ClocksUntilIrq(t[2]) # 0 => r[Irq(2)] = IrqDelay(2, from[2], ClocksUntilIrq(t[2]), v, at)
      /\ \A e : e # Irq(2) => /\ (e \in DOMAIN r <=> e \in DOMAIN two)
                              /\ e \in DOMAIN r => r[e] = two[e]
  <2>1. Scheduled(r, two, 2, t[2], from[2], v, at)
    BY <1>3, OneScheduled
  <2> QED BY <2>1, Zenon DEF Scheduled
<1>9. ASSUME NEW i \in Indices
      PROVE  /\ Irq(i) \in DOMAIN r <=> ClocksUntilIrq(t[i]) # 0
             /\ ClocksUntilIrq(t[i]) # 0
                  => r[Irq(i)] = IrqDelay(i, from[i], ClocksUntilIrq(t[i]), v, at)
  <2>1. CASE i = 0
    BY <2>1, <1>4, <1>6, <1>7, <1>8, Zenon
  <2>2. CASE i = 1
    BY <2>2, <1>4, <1>7, <1>8, Zenon
  <2>3. CASE i = 2
    BY <2>3, <1>8, Zenon
  <2> QED BY <1>5, <2>1, <2>2, <2>3
<1>10. ASSUME NEW i \in Indices, Irq(i) \in DOMAIN r PROVE r[Irq(i)] \in Int
  <2>1. ClocksUntilIrq(t[i]) \in Nat
    BY MaxAssumption, UntilTyped
  <2>2. IrqDelay(i, from[i], ClocksUntilIrq(t[i]), v, at) \in Int
    BY <2>1, IrqDelayTyped
  <2>3. r[Irq(i)] = IrqDelay(i, from[i], ClocksUntilIrq(t[i]), v, at)
    BY <1>9, <1>10, Zenon
  <2> QED BY <2>2, <2>3
<1>11. ASSUME NEW e \in DOMAIN r PROVE e \in Events
  <2>1. Irq(0) \in Events /\ Irq(1) \in Events /\ Irq(2) \in Events
    BY <1>5 DEF Events
  <2>2. CASE e \in {Irq(0), Irq(1), Irq(2)}
    BY <2>1, <2>2
  <2>3. CASE e \notin {Irq(0), Irq(1), Irq(2)}
    BY <1>6, <1>7, <1>8, <2>3, Zenon
  <2> QED BY <2>2, <2>3
<1> QED BY <1>9, <1>10, <1>11, Zenon DEF AllOnTime

(***************************************************************************)
(* Steps of the same shape.                                                *)
(***************************************************************************)
\* The registers that only a write of a mode changes are kept.
KeepsModes == source' = source /\ syncMode' = syncMode

\* All timers' events are scheduled anew.
LEMMA Rescheduled ==
  ASSUME TimersInvariant, NEW events, DOMAIN events \subseteq Events, NEW c \in States,
         NEW from \in [Indices -> {"system", "other"}],
         TimersAhead(events, c, from), source' = from
  PROVE  TimersInvariant'
<1>1. /\ video' = c.video /\ timer' = c.timer /\ sync' = c.sync /\ phase' = Now /\ elapsed' = 0
      /\ due' = ScheduleTimerEvents(events, c.timer, from, c.video, Now)
  BY DEF TimersAhead, SetTo
<1>2. c.video \in Videos /\ c.timer \in [Indices -> Timers] /\ c.sync \in [Indices -> BOOLEAN]
  BY DEF States
<1>3. Now \in 0..(Div - 1)
  BY NowTyped DEF TimersInvariant
<1>4. Placed' /\ elapsed' \in 0..MaxElapsed
  BY <1>1, <1>2, <1>3, DivTyped DEF Placed
<1>5. PICK r : r = due'
  OBVIOUS
<1>6. AllOnTime(r, c.timer, from, c.video, Now) /\ DOMAIN r \subseteq Events
  <2>1. r = ScheduleTimerEvents(events, c.timer, from, c.video, Now)
    BY <1>1, <1>5
  <2> QED BY <1>2, <1>3, <2>1, AllScheduled, Zenon
<1>7. DueTyped'
  BY <1>5, <1>6, Zenon DEF DueTyped, AllOnTime
<1>8. ASSUME NEW i \in Indices PROVE OnTime(i)'
  <2>1. SUFFICES ASSUME ClocksUntilIrq(c.timer[i]) # 0
                 PROVE  /\ Irq(i) \in DOMAIN r
                        /\ r[Irq(i)] + 0
                             <= IrqDelay(i, from[i], ClocksUntilIrq(c.timer[i]), c.video, Now)
    BY <1>1, <1>5, Zenon DEF OnTime
  <2>2. r[Irq(i)] \in Int /\ Irq(i) \in DOMAIN r
        /\ r[Irq(i)] = IrqDelay(i, from[i], ClocksUntilIrq(c.timer[i]), c.video, Now)
    BY <1>6, <2>1, Zenon DEF AllOnTime
  <2> DEFINE x == r[Irq(i)]
             y == IrqDelay(i, from[i], ClocksUntilIrq(c.timer[i]), c.video, Now)
  <2> HIDE DEF x, y
  <2>3. x \in Int /\ x = y
    BY <2>2 DEF x, y
  <2>4. x + 0 <= y
    BY <2>3
  <2> QED BY <2>2, <2>4 DEF x, y
<1> QED BY <1>4, <1>7, <1>8 DEF TimersInvariant

\* All is caught up, and none of the timers' events changes.
LEMMA CaughtUpKeeps ==
  ASSUME TimersInvariant, NEW c \in States,
         c.sync = CaughtUp.sync,
         \A i \in Indices : Lags(CaughtUp.timer[i], c.timer[i], 0),
         SetTo(c), source' = source, syncMode' = syncMode,
         DOMAIN due' \subseteq DOMAIN due \cup {"VBlank"},
         \A i \in Indices : Irq(i) \in DOMAIN due
            => Irq(i) \in DOMAIN due' /\ due'[Irq(i)] = due[Irq(i)]
  PROVE  TimersInvariant'
<1>1. /\ video' = c.video /\ timer' = c.timer /\ sync' = c.sync /\ phase' = Now /\ elapsed' = 0
  BY DEF SetTo
<1>2. c.video \in Videos /\ c.timer \in [Indices -> Timers] /\ c.sync \in [Indices -> BOOLEAN]
  BY DEF States
<1>3. Now \in 0..(Div - 1) /\ source \in [Indices -> {"system", "other"}] /\ Placed
  BY NowTyped DEF TimersInvariant, Placed
<1>4. Placed' /\ elapsed' \in 0..MaxElapsed
  BY <1>1, <1>2, <1>3, DivTyped DEF Placed
<1>5. DueTyped'
  <2>1. DueTyped
    BY DEF TimersInvariant
  <2>2. DOMAIN due' \subseteq Events
    BY <2>1 DEF DueTyped, Events
  <2>3. ASSUME NEW i \in Indices, Irq(i) \in DOMAIN due' PROVE due'[Irq(i)] \in Int
    <3>1. Irq(i) # "VBlank"
      <4>1. Indices = {0, 1, 2}
        BY DEF Indices
      <4> QED BY <4>1, IrqNames
    <3>2. Irq(i) \in DOMAIN due
      BY <2>3, <3>1
    <3> QED BY <2>1, <3>2, Zenon DEF DueTyped
  <2> QED BY <2>2, <2>3 DEF DueTyped
<1>6. PICK b : b = CaughtUp
  OBVIOUS
<1>7. Catches(b)
  BY <1>3, <1>6, CaughtUpTyped
<1>8. ASSUME NEW i \in Indices PROVE OnTime(i)'
  <2>1. timer'[i] \in Timers /\ Lags(b.timer[i], timer'[i], 0) /\ sync'[i] = b.sync[i]
    BY <1>1, <1>2, <1>6
  <2>2. source'[i] = source[i] /\ syncMode'[i] = syncMode[i] /\ elapsed' = 0 /\ phase' = Now
    BY <1>1
  <2>3. Irq(i) \in DOMAIN due => Irq(i) \in DOMAIN due' /\ due'[Irq(i)] = due[Irq(i)]
    OBVIOUS
  <2> QED BY <1>7, <2>1, <2>2, <2>3, StaysOnTime
<1> QED BY <1>4, <1>5, <1>8 DEF TimersInvariant

-----------------------------------------------------------------------------
(***************************************************************************)
(* What each action leaves of the invariant.                               *)
(***************************************************************************)
LEMMA LagsSame ==
  ASSUME NEW t \in Timers, NEW u \in Timers, Keeps(t, u), u.counter = t.counter, u.fired = t.fired
  PROVE  ClocksUntilIrq(u) = ClocksUntilIrq(t) /\ Lags(t, u, 0)
<1>1. /\ u.target = t.target /\ u.resetAtTarget = t.resetAtTarget
      /\ u.irqAtTarget = t.irqAtTarget /\ u.irqAtMax = t.irqAtMax /\ u.repeat = t.repeat
      /\ ResetsAtTarget(u) = ResetsAtTarget(t)
  BY UntilKept
<1>2. PICK k : k = ClocksUntilIrq(t)
  OBVIOUS
<1>3. ClocksUntilIrq(u) = k
  BY <1>1, <1>2, Zenon DEF ClocksUntilIrq
<1>4. k \in Nat
  BY <1>2, MaxAssumption, UntilTyped
<1> QED BY <1>2, <1>3, <1>4 DEF Lags

\* Only events of the timers matter, and they are as they were.
VBlankOnly(events) ==
  /\ DOMAIN events \subseteq DOMAIN due \cup {"VBlank"}
  /\ \A i \in Indices : Irq(i) \in DOMAIN due
       => Irq(i) \in DOMAIN events /\ events[Irq(i)] = due[Irq(i)]

LEMMA NotVBlank ==
  ASSUME NEW i \in Indices
  PROVE  Irq(i) # "VBlank"
<1>1. Indices = {0, 1, 2}
  BY DEF Indices
<1> QED BY <1>1, IrqNames

LEMMA VBlankMoved ==
  ASSUME NEW events, VBlankOnly(events)
  PROVE  /\ VBlankOnly(Unschedule(events, "VBlank"))
         /\ \A v : VBlankOnly(ScheduleNextVBlank(events, v))
<1>1. VBlankOnly(Unschedule(events, "VBlank"))
  BY NotVBlank DEF VBlankOnly, Unschedule
<1>2. ASSUME NEW v PROVE VBlankOnly(ScheduleNextVBlank(events, v))
  <2> DEFINE t == (CyclesUntilVBlank(v) * CpuClock) \div GpuClock[v.mode] + 1
  <2>1. ScheduleNextVBlank(events, v) = UpdateOrPush(events, "VBlank", t)
    BY DEF ScheduleNextVBlank
  <2> HIDE DEF t
  <2>2. VBlankOnly(UpdateOrPush(events, "VBlank", t))
    BY NotVBlank DEF VBlankOnly, UpdateOrPush
  <2> QED BY <2>1, <2>2
<1> QED BY <1>1, <1>2

LEMMA VBlankSame == VBlankOnly(due)
BY DEF VBlankOnly

\* The steps that only catch up, and whatever they do besides, do not change
\* when the timers' interrupts are.
LEMMA ReadStep ==
  ASSUME TimersInvariant, NEW c \in States, c.sync = CaughtUp.sync,
         \A i \in Indices : /\ Keeps(CaughtUp.timer[i], c.timer[i])
                            /\ c.timer[i].counter = CaughtUp.timer[i].counter
                            /\ c.timer[i].fired = CaughtUp.timer[i].fired,
         SetTo(c), source' = source, syncMode' = syncMode, VBlankOnly(due')
  PROVE  TimersInvariant'
<1>1. CaughtUp \in States
  BY CaughtUpTyped DEF TimersInvariant, Catches
<1>2. ASSUME NEW i \in Indices PROVE Lags(CaughtUp.timer[i], c.timer[i], 0)
  <2>1. CaughtUp.timer[i] \in Timers /\ c.timer[i] \in Timers
    BY <1>1 DEF States
  <2> QED BY <2>1, LagsSame
<1> QED BY <1>2, CaughtUpKeeps DEF VBlankOnly

LEMMA KeepsSame ==
  ASSUME NEW t
  PROVE  Keeps(t, t)
BY DEF Keeps

\* CaughtUp itself, as it is and with another video clock.
LEMMA JustCaughtUp ==
  ASSUME TimersInvariant, NEW v \in Videos,
         SetTo([CaughtUp EXCEPT !.video = v]), source' = source, syncMode' = syncMode,
         VBlankOnly(due')
  PROVE  TimersInvariant'
<1>1. CaughtUp \in States
  BY CaughtUpTyped DEF TimersInvariant, Catches
<1>2. PICK b : b = CaughtUp
  OBVIOUS
<1>3. PICK c : c = [b EXCEPT !.video = v]
  OBVIOUS
<1>4. c \in States /\ c.sync = b.sync /\ c.timer = b.timer
  BY <1>1, <1>2, <1>3 DEF States
<1>5. SetTo(c)
  BY <1>2, <1>3
<1>6. \A i \in Indices : Keeps(b.timer[i], c.timer[i])
  BY <1>4, KeepsSame
<1> QED BY <1>2, <1>4, <1>5, <1>6, ReadStep

LEMMA ReadPreserves ==
  ASSUME TimersInvariant, Read
  PROVE  TimersInvariant'
<1>1. CaughtUp \in States
  BY CaughtUpTyped DEF TimersInvariant, Catches
<1>2. SetTo(CaughtUp) /\ source' = source /\ syncMode' = syncMode /\ due' = due
  BY DEF Read, Use
<1>3. VBlankOnly(due')
  BY <1>2, VBlankSame
<1>4. \A i \in Indices : Keeps(CaughtUp.timer[i], CaughtUp.timer[i])
  BY KeepsSame
<1> QED BY <1>1, <1>2, <1>3, <1>4, ReadStep

LEMMA HandleModeReadPreserves ==
  ASSUME TimersInvariant, NEW i \in Indices, HandleModeRead(i)
  PROVE  TimersInvariant'
<1>1. PICK b : b = CaughtUp
  OBVIOUS
<1>2. b \in States /\ b.timer \in [Indices -> Timers] /\ b.timer[i] \in Timers
  BY <1>1, CaughtUpTyped DEF TimersInvariant, Catches, States
<1>3. PICK u : u = [b.timer[i] EXCEPT !.reachedTarget = FALSE, !.reachedMax = FALSE]
  OBVIOUS
<1>4. PICK c : c = [b EXCEPT !.timer = [b.timer EXCEPT ![i] = u]]
  OBVIOUS
<1>5. c = [b EXCEPT !.timer[i].reachedTarget = FALSE, !.timer[i].reachedMax = FALSE]
  BY <1>2, <1>3, <1>4 DEF States, Timers
<1>6. SetTo(c) /\ source' = source /\ syncMode' = syncMode /\ due' = due
  BY <1>1, <1>5 DEF HandleModeRead, Use
<1>7. /\ u \in Timers /\ Keeps(b.timer[i], u) /\ u.counter = b.timer[i].counter
      /\ u.fired = b.timer[i].fired
  BY <1>2, <1>3 DEF Timers, Keeps, Settings
<1>8. c \in States /\ c.sync = b.sync /\ c.timer = [b.timer EXCEPT ![i] = u]
  BY <1>2, <1>4, <1>7 DEF States
<1>9. ASSUME NEW j \in Indices
      PROVE  /\ Keeps(b.timer[j], c.timer[j]) /\ c.timer[j].counter = b.timer[j].counter
             /\ c.timer[j].fired = b.timer[j].fired
  <2>1. CASE j = i
    BY <1>2, <1>7, <1>8, <2>1
  <2>2. CASE j # i
    <3>1. c.timer[j] = b.timer[j]
      BY <1>2, <1>8, <2>2
    <3> QED BY <3>1, KeepsSame
  <2> QED BY <2>1, <2>2
<1>10. VBlankOnly(due')
  BY <1>6, VBlankSame
<1> QED BY <1>1, <1>6, <1>8, <1>9, <1>10, ReadStep

\* The writes of a timer's registers.
LEMMA WriteStep ==
  ASSUME TimersInvariant, NEW c \in States, NEW from \in [Indices -> {"system", "other"}],
         Write(c, from)
  PROVE  TimersInvariant'
<1>1. DOMAIN due \subseteq Events
  BY DEF TimersInvariant, DueTyped
<1> QED BY <1>1, Rescheduled DEF Write

LEMMA WritePreserves ==
  ASSUME TimersInvariant, NEW i \in Indices, NEW value \in Targets,
         WriteCounter(i, value) \/ WriteTarget(i, value)
  PROVE  TimersInvariant'
<1>1. PICK b : b = CaughtUp
  OBVIOUS
<1>2. b \in States /\ b.timer \in [Indices -> Timers] /\ b.timer[i] \in Timers
  BY <1>1, CaughtUpTyped DEF TimersInvariant, Catches, States
<1>3. value \in Values /\ source \in [Indices -> {"system", "other"}]
  BY TimersAssumptions DEF TimersInvariant, Placed
<1>4. CASE WriteCounter(i, value)
  <2>1. PICK u : u = [b.timer[i] EXCEPT !.counter = value]
    OBVIOUS
  <2>2. PICK c : c = [b EXCEPT !.timer = [b.timer EXCEPT ![i] = u]]
    OBVIOUS
  <2>3. u \in Timers
    BY <1>2, <1>3, <2>1 DEF Timers
  <2>4. c = [b EXCEPT !.timer[i].counter = value]
    BY <1>2, <2>1, <2>2 DEF States, Timers
  <2>5. c \in States
    BY <1>2, <2>2, <2>3 DEF States
  <2>6. Write(c, source)
    BY <1>1, <1>4, <2>4 DEF WriteCounter
  <2> QED BY <1>3, <2>5, <2>6, WriteStep
<1>5. CASE WriteTarget(i, value)
  <2>1. PICK u : u = [b.timer[i] EXCEPT !.target = value]
    OBVIOUS
  <2>2. PICK c : c = [b EXCEPT !.timer = [b.timer EXCEPT ![i] = u]]
    OBVIOUS
  <2>3. u \in Timers
    BY <1>2, <1>3, <2>1 DEF Timers
  <2>4. c = [b EXCEPT !.timer[i].target = value]
    BY <1>2, <2>1, <2>2 DEF States, Timers
  <2>5. c \in States
    BY <1>2, <2>2, <2>3 DEF States
  <2>6. Write(c, source)
    BY <1>1, <1>5, <2>4 DEF WriteTarget
  <2> QED BY <1>3, <2>5, <2>6, WriteStep
<1> QED BY <1>4, <1>5

LEMMA HandleModeWritePreserves ==
  ASSUME TimersInvariant, NEW i \in Indices, NEW m \in ModeWrites[i], HandleModeWrite(i, m)
  PROVE  TimersInvariant'
<1>1. PICK b : b = CaughtUp
  OBVIOUS
<1>2. /\ b \in States /\ b.timer \in [Indices -> Timers] /\ b.timer[i] \in Timers
      /\ b.sync \in [Indices -> BOOLEAN]
  BY <1>1, CaughtUpTyped DEF TimersInvariant, Catches, States
<1>3. m \in [sync : BOOLEAN, syncMode : SyncModes, source : {"system", "other"},
             resetAtTarget : BOOLEAN, irqAtTarget : BOOLEAN, irqAtMax : BOOLEAN,
             repeat : BOOLEAN, toggle : BOOLEAN, ack : BOOLEAN]
  <2>1. i \in 0..2
    BY DEF Indices
  <2> QED BY <2>1, TimersAssumptions
<1>4. m.sync \in BOOLEAN /\ m.source \in {"system", "other"}
  BY <1>3
<1>5. PICK u : u = WriteMode(b.timer[i], m)
  OBVIOUS
<1>6. u \in Timers
  <2>1. 0 \in Values
    BY MaxAssumption DEF Values
  <2>2. PICK irq : irq = (b.timer[i].irq /\ ~m.ack /\ m.toggle)
    OBVIOUS
  <2>3. irq \in BOOLEAN
    BY <2>2
  <2>4. u = [b.timer[i] EXCEPT !.resetAtTarget = m.resetAtTarget, !.irqAtTarget = m.irqAtTarget,
               !.irqAtMax = m.irqAtMax, !.repeat = m.repeat, !.toggle = m.toggle,
               !.irq = irq, !.counter = 0, !.fired = FALSE]
    BY <1>2, <1>5, <2>2 DEF WriteMode, Timers
  <2>5. /\ m.resetAtTarget \in BOOLEAN /\ m.irqAtTarget \in BOOLEAN /\ m.irqAtMax \in BOOLEAN
        /\ m.repeat \in BOOLEAN /\ m.toggle \in BOOLEAN
    BY <1>3
  <2>6. PICK t \in Timers : t = b.timer[i]
    BY <1>2
  <2>7. PICK r, q, x, p, g : /\ r = m.resetAtTarget /\ q = m.irqAtTarget /\ x = m.irqAtMax
                             /\ p = m.repeat /\ g = m.toggle
    OBVIOUS
  <2>8. r \in BOOLEAN /\ q \in BOOLEAN /\ x \in BOOLEAN /\ p \in BOOLEAN /\ g \in BOOLEAN
    BY <2>5, <2>7, Zenon
  <2>9. u = [t EXCEPT !.resetAtTarget = r, !.irqAtTarget = q, !.irqAtMax = x, !.repeat = p,
                      !.toggle = g, !.irq = irq, !.counter = 0, !.fired = FALSE]
    BY <2>4, <2>6, <2>7, Zenon
  <2>10. PICK t1 : t1 = [t EXCEPT !.resetAtTarget = r, !.irqAtTarget = q, !.irqAtMax = x]
    OBVIOUS
  <2>11. t1 \in Timers
    BY <2>8, <2>10, ZenonT(60) DEF Timers
  <2>12. PICK t2 : t2 = [t1 EXCEPT !.repeat = p, !.toggle = g, !.irq = irq]
    OBVIOUS
  <2>13. t2 \in Timers
    BY <2>3, <2>8, <2>11, <2>12, ZenonT(60) DEF Timers
  <2>14. u = [t2 EXCEPT !.counter = 0, !.fired = FALSE]
    BY <2>9, <2>10, <2>12, Zenon
  <2> QED BY <2>1, <2>13, <2>14 DEF Timers
<1>7. PICK c : c = [b EXCEPT !.timer = [b.timer EXCEPT ![i] = u],
                             !.sync = [b.sync EXCEPT ![i] = m.sync]]
  OBVIOUS
<1>8. c = [b EXCEPT !.timer[i] = WriteMode(@, m), !.sync[i] = m.sync]
  BY <1>2, <1>5, <1>7 DEF States
<1>9. c \in States
  BY <1>2, <1>4, <1>6, <1>7 DEF States
<1>10. PICK from : from = [source EXCEPT ![i] = m.source]
  OBVIOUS
<1>11. from \in [Indices -> {"system", "other"}]
  BY <1>4, <1>10 DEF TimersInvariant, Placed
<1>12. Write(c, from)
  BY <1>1, <1>8, <1>10 DEF HandleModeWrite
<1> QED BY <1>9, <1>11, <1>12, WriteStep

LEMMA RangeTyped ==
  ASSUME NEW v \in Videos, NEW a \in Nat, NEW b \in Nat, NEW w,
         w = [v EXCEPT !.x1 = a, !.x2 = b] \/ w = [v EXCEPT !.y1 = a, !.y2 = b]
  PROVE  w \in Videos
<1>1. /\ w.line = v.line /\ w.cycle = v.cycle /\ w.mode = v.mode /\ w.interlaced = v.interlaced
      /\ w \in VideoRecords
  BY DEF Videos, VideoRecords
<1>2. CyclesInLine(w) = CyclesInLine(v)
  BY <1>1, Zenon DEF CyclesInLine
<1> QED BY <1>1, <1>2 DEF Videos

LEMMA HorizontalPreserves ==
  ASSUME TimersInvariant, NEW x \in XRanges, UpdateHorizontalDisplayRange(x)
  PROVE  TimersInvariant'
<1>1. PICK b : b = CaughtUp
  OBVIOUS
<1>2. b \in States /\ b.video \in Videos
  BY <1>1, CaughtUpTyped DEF TimersInvariant, Catches, States
<1>3. x[1] \in Nat /\ x[2] \in Nat
  BY TimersAssumptions
<1>4. PICK w : w = [b.video EXCEPT !.x1 = x[1], !.x2 = x[2]]
  BY Zenon
<1>5. w \in Videos
  BY <1>2, <1>3, <1>4, RangeTyped
<1>6. [b EXCEPT !.video.x1 = x[1], !.video.x2 = x[2]] = [b EXCEPT !.video = w]
  BY <1>2, <1>4 DEF States, Videos, VideoRecords
<1>7. /\ SetTo([b EXCEPT !.video = w])
      /\ source' = source /\ syncMode' = syncMode /\ due' = due
  BY <1>1, <1>6 DEF UpdateHorizontalDisplayRange, Use
<1>8. VBlankOnly(due')
  BY <1>7, VBlankSame
<1> QED BY <1>1, <1>5, <1>7, <1>8, JustCaughtUp

LEMMA ReschedulePreserves ==
  ASSUME TimersInvariant, NEW w \in Videos, NEW changed,
         Reschedule([CaughtUp EXCEPT !.video = w], changed)
  PROVE  TimersInvariant'
<1> DEFINE c == [CaughtUp EXCEPT !.video = w]
<1>1. /\ SetTo(c) /\ source' = source /\ syncMode' = syncMode
      /\ due' = IF ~changed THEN due
                ELSE IF c.video.y1 >= c.video.y2 THEN Unschedule(due, "VBlank")
                ELSE ScheduleNextVBlank(due, c.video)
  BY DEF Reschedule, Use
<1>2. VBlankOnly(due')
  <2> HIDE DEF c
  <2>1. due' \in {due, Unschedule(due, "VBlank"), ScheduleNextVBlank(due, c.video)}
    BY <1>1, Zenon
  <2>2. /\ VBlankOnly(due) /\ VBlankOnly(Unschedule(due, "VBlank"))
        /\ VBlankOnly(ScheduleNextVBlank(due, c.video))
    BY VBlankSame, VBlankMoved
  <2>3. CASE due' = due
    BY <2>2, <2>3
  <2>4. CASE due' = Unschedule(due, "VBlank")
    BY <2>2, <2>4
  <2>5. CASE due' = ScheduleNextVBlank(due, c.video)
    BY <2>2, <2>5
  <2> QED BY <2>1, <2>3, <2>4, <2>5
<1> QED BY <1>1, <1>2, JustCaughtUp

LEMMA VerticalPreserves ==
  ASSUME TimersInvariant, NEW y \in YRanges, UpdateVerticalDisplayRange(y)
  PROVE  TimersInvariant'
<1>1. PICK b : b = CaughtUp
  OBVIOUS
<1>2. b \in States /\ b.video \in Videos
  BY <1>1, CaughtUpTyped DEF TimersInvariant, Catches, States
<1>3. y[1] \in Nat /\ y[2] \in Nat
  BY TimersAssumptions
<1>4. PICK w : w = [b.video EXCEPT !.y1 = y[1], !.y2 = y[2]]
  BY Zenon
<1>5. w \in Videos
  BY <1>2, <1>3, <1>4, RangeTyped
<1>6. [b EXCEPT !.video.y1 = y[1], !.video.y2 = y[2]] = [b EXCEPT !.video = w]
  BY <1>2, <1>4 DEF States, Videos, VideoRecords
<1>7. Reschedule([b EXCEPT !.video = w], y[2] # video.y2)
  BY <1>1, <1>6 DEF UpdateVerticalDisplayRange
<1> QED BY <1>1, <1>5, <1>7, ReschedulePreserves

\* Whatever line and cycle the clock is at, it is well placed afterwards.
LEMMA FitLineTyped ==
  ASSUME NEW v \in VideoRecords
  PROVE  FitLine(v) \in Videos
<1> DEFINE off == v.line >= Lines[v.mode][v.interlaced] \/ v.cycle >= CyclesInLine(v)
<1>1. FitLine(v) = IF off THEN IncrementLine([v EXCEPT !.cycle = 0]) ELSE v
  BY Zenon DEF FitLine
<1>2. CASE off
  BY <1>1, <1>2, AnyNextLine, Zenon
<1>3. CASE ~off
  <2>1. /\ v.mode \in VideoModes /\ v.interlaced \in BOOLEAN /\ v.line \in Nat /\ v.cycle \in Nat
    BY DEF VideoRecords
  <2>2. Lines[v.mode][v.interlaced] \in Nat /\ CyclesInLine(v) \in Nat
    BY <2>1, LinesTyped, CyclesTyped
  <2>3. v.line < Lines[v.mode][v.interlaced] /\ v.cycle < CyclesInLine(v)
    BY <1>3, <2>1, <2>2
  <2>4. v \in Videos
    BY <2>3 DEF Videos
  <2> QED BY <1>1, <1>3, <2>4, Zenon
<1> QED BY <1>2, <1>3

LEMMA DisplayModePreserves ==
  ASSUME TimersInvariant, NEW d \in Displays, UpdateDisplayMode(d)
  PROVE  TimersInvariant'
<1> DEFINE changed == d.interlaced # video.interlaced \/ d.mode # video.mode
<1>1. PICK b : b = CaughtUp
  OBVIOUS
<1>2. b \in States /\ b.video \in Videos /\ SameMode(video, b.video)
  BY <1>1, CaughtUpTyped DEF TimersInvariant, Catches, States
<1>3. d.divider \in Nat \ {0} /\ d.interlaced \in BOOLEAN /\ d.mode \in VideoModes
  BY TimersAssumptions
<1>4. PICK x : x = [b.video EXCEPT !.divider = d.divider, !.interlaced = d.interlaced,
                                   !.mode = d.mode]
  OBVIOUS
<1>5. /\ x \in VideoRecords
      /\ x.line = b.video.line /\ x.cycle = b.video.cycle /\ x.mode = d.mode
      /\ x.interlaced = d.interlaced
  BY <1>2, <1>3, <1>4 DEF Videos, VideoRecords
<1>6. PICK w : w = IF changed THEN FitLine(x) ELSE x
  OBVIOUS
<1>7. Reschedule([b EXCEPT !.video = w], changed)
  <2>1. Reschedule([b EXCEPT !.video = IF changed THEN FitLine(x) ELSE x], changed)
    BY <1>1, <1>2, <1>4 DEF UpdateDisplayMode, States
  <2> QED BY <1>6, <2>1
<1>8. w \in Videos
  <2>1. CASE changed
    BY <1>5, <1>6, <2>1, FitLineTyped
  <2>2. CASE ~changed
    <3>1. x.mode = b.video.mode /\ x.interlaced = b.video.interlaced
      BY <1>2, <1>5, <2>2 DEF SameMode
    <3>2. CyclesInLine(x) = CyclesInLine(b.video)
      BY <1>5, <3>1, Zenon DEF CyclesInLine
    <3>3. x \in Videos
      BY <1>2, <1>5, <3>1, <3>2 DEF Videos
    <3> QED BY <1>6, <2>2, <3>3, Zenon
  <2> QED BY <2>1, <2>2
<1> QED BY <1>1, <1>7, <1>8, ReschedulePreserves

\* A step that changes nothing of the timers and the video clock but the
\* program's flags.
LEMMA QuietStep ==
  ASSUME TimersInvariant, timer' \in [Indices -> Timers],
         \A i \in Indices : Keeps(timer[i], timer'[i]) /\ timer'[i].counter = timer[i].counter
                              /\ timer'[i].fired = timer[i].fired,
         UNCHANGED <<video, source, sync, syncMode, elapsed, phase>>, VBlankOnly(due')
  PROVE  TimersInvariant'
<1>1. /\ video' = video /\ source' = source /\ sync' = sync /\ syncMode' = syncMode
      /\ elapsed' = elapsed /\ phase' = phase
  OBVIOUS
<1>2. Placed /\ DueTyped /\ elapsed \in 0..MaxElapsed
  BY DEF TimersInvariant
<1>3. Placed'
  BY <1>1, <1>2, Zenon DEF Placed
<1>4. DueTyped'
  <2>1. DOMAIN due' \subseteq Events
    BY <1>2 DEF VBlankOnly, DueTyped, Events
  <2>2. ASSUME NEW i \in Indices, Irq(i) \in DOMAIN due' PROVE due'[Irq(i)] \in Int
    <3>1. Irq(i) # "VBlank"
      BY NotVBlank
    <3>2. Irq(i) \in DOMAIN due
      BY <2>2, <3>1 DEF VBlankOnly
    <3> QED BY <1>2, <3>2, Zenon DEF DueTyped, VBlankOnly
  <2> QED BY <2>1, <2>2 DEF DueTyped
<1>5. ASSUME NEW i \in Indices PROVE OnTime(i)'
  <2>1. timer[i] \in Timers /\ timer'[i] \in Timers
    BY <1>2 DEF Placed
  <2>2. ClocksUntilIrq(timer'[i]) = ClocksUntilIrq(timer[i])
    BY <2>1, LagsSame
  <2>3. /\ timer'[i].irqAtTarget = timer[i].irqAtTarget
        /\ timer'[i].resetAtTarget = timer[i].resetAtTarget
    BY <2>1, UntilKept
  <2>4. OnTime(i)
    BY DEF TimersInvariant
  <2>5. ResetsBehindTarget(i)' <=> ResetsBehindTarget(i)
    BY <1>1, <2>3, Zenon DEF ResetsBehindTarget
  <2>6. Irq(i) \in DOMAIN due => Irq(i) \in DOMAIN due' /\ due'[Irq(i)] = due[Irq(i)]
    BY DEF VBlankOnly
  <2> QED BY <1>1, <2>2, <2>4, <2>5, <2>6, Zenon DEF OnTime
<1> QED BY <1>1, <1>2, <1>3, <1>4, <1>5, Zenon DEF TimersInvariant

LEMMA HandleVBlankPreserves ==
  ASSUME TimersInvariant, HandleVBlank
  PROVE  TimersInvariant'
<1> DEFINE rest == Unschedule(due, "VBlank")
<1>1. NextVBlank(rest) /\ source' = source /\ syncMode' = syncMode
  BY DEF HandleVBlank
<1>2. VBlankOnly(rest)
  BY VBlankSame, VBlankMoved
<1> HIDE DEF rest
<1>3. CASE video.y1 >= video.y2
  <2>1. due' = Unschedule(rest, "VBlank") /\ UNCHANGED <<video, timer, sync, elapsed, phase>>
    BY <1>1, <1>3, Zenon DEF NextVBlank
  <2>2. VBlankOnly(due')
    BY <1>2, <2>1, VBlankMoved
  <2>3. timer' \in [Indices -> Timers] /\ timer' = timer
    BY <2>1 DEF TimersInvariant, Placed
  <2>4. \A i \in Indices : Keeps(timer[i], timer'[i])
    BY <2>3, KeepsSame
  <2> QED BY <1>1, <2>1, <2>2, <2>3, <2>4, QuietStep
<1>4. CASE ~(video.y1 >= video.y2)
  <2>1. SetTo(CaughtUp) /\ due' = ScheduleNextVBlank(rest, CaughtUp.video)
    BY <1>1, <1>4, Zenon DEF NextVBlank, VBlankAhead
  <2>2. VBlankOnly(due')
    BY <1>2, <2>1, VBlankMoved
  <2>3. CaughtUp \in States
    BY CaughtUpTyped DEF TimersInvariant, Catches
  <2>4. \A i \in Indices : Keeps(CaughtUp.timer[i], CaughtUp.timer[i])
    BY KeepsSame
  <2> QED BY <1>1, <2>1, <2>2, <2>3, <2>4, ReadStep
<1> QED BY <1>3, <1>4

LEMMA HandleTimerIrqPreserves ==
  ASSUME TimersInvariant, NEW i \in Indices, HandleTimerIrq(i)
  PROVE  TimersInvariant'
<1> DEFINE rest == Unschedule(due, Irq(i))
<1>1. TimersAhead(rest, CaughtUp, source) /\ source' = source
  BY DEF HandleTimerIrq
<1>2. DOMAIN rest \subseteq Events
  BY DEF TimersInvariant, DueTyped, Unschedule
<1> HIDE DEF rest
<1>3. CaughtUp \in States /\ source \in [Indices -> {"system", "other"}]
  BY CaughtUpTyped DEF TimersInvariant, Placed, Catches
<1> QED BY <1>1, <1>2, <1>3, Rescheduled

LEMMA WriteInterruptStatusPreserves ==
  ASSUME TimersInvariant, WriteInterruptStatus
  PROVE  TimersInvariant'
<1>1. /\ timer' = [i \in Indices |-> [timer[i] EXCEPT !.flag = FALSE]]
      /\ UNCHANGED <<video, source, sync, syncMode, elapsed, phase>> /\ due' = due
  BY DEF WriteInterruptStatus
<1>2. ASSUME NEW i \in Indices
      PROVE  /\ timer'[i] \in Timers /\ Keeps(timer[i], timer'[i])
             /\ timer'[i].counter = timer[i].counter /\ timer'[i].fired = timer[i].fired
  <2>1. timer[i] \in Timers
    BY DEF TimersInvariant, Placed
  <2>2. timer'[i] = [timer[i] EXCEPT !.flag = FALSE]
    BY <1>1
  <2> QED BY <2>1, <2>2 DEF Timers, Keeps, Settings
<1>3. timer' \in [Indices -> Timers]
  BY <1>1, <1>2
<1>4. VBlankOnly(due')
  BY <1>1, VBlankSame
<1> QED BY <1>1, <1>2, <1>3, <1>4, QuietStep

LEMMA RunPreserves ==
  ASSUME TimersInvariant, NEW n \in 1..MaxRun, Run(n)
  PROVE  TimersInvariant'
<1>1. /\ elapsed + n <= MaxElapsed /\ elapsed' = elapsed + n
      /\ due' = [e \in DOMAIN due |-> due[e] - n]
      /\ video' = video /\ timer' = timer /\ source' = source /\ sync' = sync
      /\ syncMode' = syncMode /\ phase' = phase
  BY DEF Run
<1>2. Placed /\ DueTyped /\ elapsed \in 0..MaxElapsed /\ elapsed \in Nat /\ n \in Nat
  BY DEF TimersInvariant, Placed
<1>3. elapsed' \in 0..MaxElapsed /\ elapsed' \in Nat
  BY <1>1, <1>2, DivTyped
<1>4. Placed'
  BY <1>1, <1>2, <1>3, Zenon DEF Placed
<1>5. DueTyped'
  <2>1. DOMAIN due' = DOMAIN due
    BY <1>1
  <2>2. ASSUME NEW i \in Indices, Irq(i) \in DOMAIN due' PROVE due'[Irq(i)] \in Int
    <3>1. due[Irq(i)] \in Int /\ due'[Irq(i)] = due[Irq(i)] - n
      BY <1>1, <1>2, <2>1, <2>2 DEF DueTyped
    <3> QED BY <1>2, <3>1
  <2> QED BY <1>2, <2>1, <2>2 DEF DueTyped
<1>6. ASSUME NEW i \in Indices PROVE OnTime(i)'
  <2>1. OnTime(i)
    BY DEF TimersInvariant
  <2>2. ResetsBehindTarget(i)' <=> ResetsBehindTarget(i)
    BY <1>1, Zenon DEF ResetsBehindTarget
  <2>3. ASSUME Irq(i) \in DOMAIN due
        PROVE  /\ Irq(i) \in DOMAIN due'
               /\ due'[Irq(i)] + elapsed' = due[Irq(i)] + elapsed
    <3>1. due[Irq(i)] \in Int /\ due'[Irq(i)] = due[Irq(i)] - n /\ Irq(i) \in DOMAIN due'
      BY <1>1, <1>2, <2>3 DEF DueTyped
    <3> QED BY <1>1, <1>2, <3>1
  <2> QED BY <1>1, <2>1, <2>2, <2>3, Zenon DEF OnTime
<1> QED BY <1>3, <1>4, <1>5, <1>6 DEF TimersInvariant

LEMMA InitInvariant ==
  ASSUME Init
  PROVE  TimersInvariant
<1>1. /\ timer = [i \in Indices |-> NewTimer]
      /\ source = [i \in Indices |-> "system"] /\ sync = [i \in Indices |-> FALSE]
      /\ elapsed = 0 /\ phase = 0 /\ due = ScheduleNextVBlank(NoEvents, video)
  BY DEF Init
<1>2. NewTimer \in Timers
  BY MaxAssumption DEF NewTimer, Timers, Values
<1>3. video \in Videos
  <2>1. PICK x \in XRanges, y \in YRanges, d \in Displays :
          video = [product |-> 0, line |-> 0, cycle |-> 0, x1 |-> x[1], x2 |-> x[2],
                   y1 |-> y[1], y2 |-> y[2], mode |-> d.mode, divider |-> d.divider,
                   interlaced |-> d.interlaced]
    BY DEF Init
  <2>2. /\ x[1] \in Nat /\ x[2] \in Nat /\ y[1] \in Nat /\ y[2] \in Nat
        /\ d.divider \in Nat \ {0} /\ d.interlaced \in BOOLEAN /\ d.mode \in VideoModes
    BY TimersAssumptions
  <2>3. 0 \in 0..(CpuClock - 1)
    BY DivTyped
  <2>4. video \in VideoRecords /\ video.line = 0 /\ video.cycle = 0
    BY <2>1, <2>2, <2>3 DEF VideoRecords
  <2>5. video.mode \in VideoModes /\ video.interlaced \in BOOLEAN
    BY <2>4 DEF VideoRecords
  <2>6. Lines[video.mode][video.interlaced] \in Nat \ {0} /\ CyclesInLine(video) \in Nat \ {0}
    BY <2>4, <2>5, LinesTyped, CyclesTyped
  <2> QED BY <2>4, <2>6 DEF Videos
<1>4. Placed /\ elapsed \in 0..MaxElapsed
  BY <1>1, <1>2, <1>3, DivTyped DEF Placed
<1>5. DOMAIN due = {"VBlank"}
  BY <1>1 DEF ScheduleNextVBlank, UpdateOrPush, NoEvents
<1>6. DueTyped
  BY <1>5, NotVBlank DEF DueTyped, Events
<1>7. ASSUME NEW i \in Indices PROVE OnTime(i)
  <2>1. ClocksUntilIrq(NewTimer) = 0
    <3>1. ~ NewTimer.irqAtTarget /\ ~NewTimer.irqAtMax
      BY DEF NewTimer
    <3> QED BY <1>2, <3>1, UntilForm, Zenon
  <2>2. timer[i] = NewTimer
    BY <1>1
  <2> QED BY <2>1, <2>2, Zenon DEF OnTime
<1> QED BY <1>4, <1>6, <1>7 DEF TimersInvariant

LEMMA NextPreserves ==
  ASSUME TimersInvariant, [Next]_vars
  PROVE  TimersInvariant'
<1>1. CASE Elapse
  <2>1. ASSUME NEW n \in 1..MaxRun, Run(n) PROVE TimersInvariant'
    BY <2>1, RunPreserves
  <2>2. ASSUME NEW i \in Indices, HandleTimerIrq(i) PROVE TimersInvariant'
    BY <2>2, HandleTimerIrqPreserves
  <2> QED BY <1>1, <2>1, <2>2, ReadPreserves, WriteInterruptStatusPreserves,
             HandleVBlankPreserves, Zenon DEF Elapse
<1>2. CASE UseGpu
  <2>1. ASSUME NEW x \in XRanges, UpdateHorizontalDisplayRange(x) PROVE TimersInvariant'
    BY <2>1, HorizontalPreserves
  <2>2. ASSUME NEW y \in YRanges, UpdateVerticalDisplayRange(y) PROVE TimersInvariant'
    BY <2>2, VerticalPreserves
  <2>3. ASSUME NEW d \in Displays, UpdateDisplayMode(d) PROVE TimersInvariant'
    BY <2>3, DisplayModePreserves
  <2> QED BY <1>2, <2>1, <2>2, <2>3, Zenon DEF UseGpu
<1>3. ASSUME NEW i \in Indices, UseTimer(i) PROVE TimersInvariant'
  <2>1. ASSUME NEW value \in Targets, WriteCounter(i, value) \/ WriteTarget(i, value)
        PROVE  TimersInvariant'
    BY <2>1, WritePreserves
  <2>2. ASSUME NEW m \in ModeWrites[i], HandleModeWrite(i, m) PROVE TimersInvariant'
    BY <2>2, HandleModeWritePreserves
  <2> QED BY <1>3, <2>1, <2>2, HandleModeReadPreserves, Zenon DEF UseTimer
<1>4. CASE UNCHANGED vars
  <2>1. /\ timer' = timer /\ due' = due
        /\ UNCHANGED <<video, source, sync, syncMode, elapsed, phase>>
    BY <1>4 DEF vars
  <2>2. timer' \in [Indices -> Timers]
    BY <2>1 DEF TimersInvariant, Placed
  <2>3. \A i \in Indices : Keeps(timer[i], timer'[i])
    BY <2>1, KeepsSame
  <2>4. VBlankOnly(due')
    BY <2>1, VBlankSame
  <2> QED BY <2>1, <2>2, <2>3, <2>4, QuietStep
<1> QED BY <1>1, <1>2, <1>3, <1>4, Zenon DEF Next

(***************************************************************************)
(* The events of timers.rs are on time in every state: the invariant.      *)
(***************************************************************************)
THEOREM InvariantHolds == Spec => []TimersInvariant
<1>1. Init => TimersInvariant
  BY InitInvariant
<1>2. TimersInvariant /\ [Next]_vars => TimersInvariant'
  BY NextPreserves
<1> QED BY <1>1, <1>2, PTL DEF Spec

\* Types, and a video clock that stays within its lines and frames whatever
\* the program writes to GP1 (timers.rs:880-950).
THEOREM TimersTyped == Spec => []TypeOK
<1>1. ASSUME TimersInvariant PROVE TypeOK
  <2>1. Placed /\ elapsed \in 0..MaxElapsed /\ DueTyped
    BY <1>1 DEF TimersInvariant
  <2>2. /\ video.product \in 0..(CpuClock - 1) /\ video.line \in Nat /\ video.cycle \in Nat
        /\ video.mode \in VideoModes /\ video.interlaced \in BOOLEAN
        /\ video.line < Lines[video.mode][video.interlaced] /\ video.cycle < CyclesInLine(video)
    BY <2>1 DEF Placed, Videos, VideoRecords
  <2>3. /\ video.line \in 0..(Lines[video.mode][video.interlaced] - 1)
        /\ video.cycle \in 0..(CyclesInLine(video) - 1)
    <3>1. Lines[video.mode][video.interlaced] \in Nat /\ CyclesInLine(video) \in Nat
      BY <2>2, LinesTyped, CyclesTyped
    <3> QED BY <2>2, <3>1
  <2> QED BY <2>1, <2>2, <2>3, Zenon DEF TypeOK, Placed, DueTyped, Events
<1> QED BY <1>1, InvariantHolds, PTL

\* schedule_timer_events (timers.rs:953-1018) lets no interrupt of a timer that
\* counts CPU cycles come late, nor one of timer 2: not after any use of any
\* register, however many cycles lie between the uses, and not when the clocks
\* are made up for in the video clock's cycles, which are rounded.
THEOREM IrqsComeOnTime == Spec => []IrqsOnTime
<1>1. TimersInvariant => IrqsOnTime
  BY Zenon DEF TimersInvariant, OnTime, IrqsOnTime
<1> QED BY <1>1, InvariantHolds, PTL

-----------------------------------------------------------------------------
(***************************************************************************)
(* Any number of clocks at once, and the same clocks one by one.           *)
(***************************************************************************)
PulseTimers == {t \in Timers : ~CountsToggles(t)}

LEMMA ClockPulses ==
  ASSUME NEW t \in PulseTimers, NEW n \in Nat
  PROVE  Clock(t, n) \in PulseTimers
<1>1. t \in Timers /\ ~CountsToggles(t)
  BY DEF PulseTimers
<1>2. Clock(t, n) \in Timers /\ Keeps(t, Clock(t, n))
  BY <1>1, ClockCounts
<1>3. ~CountsToggles(Clock(t, n))
  <2>1. PICK u : u = Clock(t, n)
    OBVIOUS
  <2>2. /\ u.irqAtTarget = t.irqAtTarget /\ u.irqAtMax = t.irqAtMax
        /\ u.repeat = t.repeat /\ u.toggle = t.toggle
        /\ ResetsAtTarget(u) = ResetsAtTarget(t)
    BY <1>1, <1>2, <2>1, UntilKept
  <2> QED BY <1>1, <2>1, <2>2, Zenon DEF CountsToggles, Toggles
<1> QED BY <1>2, <1>3 DEF PulseTimers

LEMMA ClockZero ==
  ASSUME NEW t
  PROVE  Clock(t, 0) = t
BY Zenon DEF Clock

LEMMA OneClock ==
  ASSUME NEW t \in PulseTimers
  PROVE  Tick(t) = Clock(t, 1) /\ Tick(t) \in PulseTimers
<1>1. t \in Timers /\ ~CountsToggles(t) /\ 0 \in Nat /\ 1 \in Nat /\ 0 + 1 = 1
  BY DEF PulseTimers
<1>2. Clock(t, 0 + 1) = Clock(Tick(t), 0)
  BY <1>1, ClockByTicks
<1>3. Clock(t, 1) = Tick(t)
  BY <1>1, <1>2, ClockZero
<1> QED BY <1>1, <1>3, ClockPulses

\* One clock more, at the end instead of the start.
LEMMA ClockNext ==
  \A n \in Nat : \A t \in PulseTimers : Clock(t, n + 1) = Tick(Clock(t, n))
<1> DEFINE S == {n \in Nat : \A t \in PulseTimers : Clock(t, n + 1) = Tick(Clock(t, n))}
<1>1. 0 \in S
  <2>1. ASSUME NEW t \in PulseTimers PROVE Clock(t, 0 + 1) = Tick(Clock(t, 0))
    <3>1. 0 + 1 = 1
      OBVIOUS
    <3> QED BY <3>1, OneClock, ClockZero
  <2> QED BY <2>1
<1>2. ASSUME NEW n \in Nat, n \in S PROVE n + 1 \in S
  <2>1. ASSUME NEW t \in PulseTimers PROVE Clock(t, (n + 1) + 1) = Tick(Clock(t, n + 1))
    <3>1. PICK u : u = Tick(t)
      OBVIOUS
    <3>2. u \in PulseTimers
      BY <3>1, OneClock
    <3>3. t \in Timers /\ ~CountsToggles(t) /\ n + 1 \in Nat
      BY DEF PulseTimers
    <3>4. Clock(t, (n + 1) + 1) = Clock(u, n + 1)
      BY <3>1, <3>3, ClockByTicks
    <3>5. Clock(u, n + 1) = Tick(Clock(u, n))
      BY <1>2, <3>2
    <3>6. Clock(t, n + 1) = Clock(u, n)
      BY <3>1, <3>3, ClockByTicks
    <3> QED BY <3>4, <3>5, <3>6
  <2> QED BY <2>1
<1>3. \A n \in Nat : n \in S
  <2> HIDE DEF S
  <2> QED BY <1>1, <1>2, AllNumbers
<1> QED BY <1>3

\* SystemTimer::clock (timers.rs:86-301), given any number of clocks at once,
\* is Tick done as many times.
THEOREM ClocksAreTicks ==
  ASSUME NEW t \in Timers, NEW n \in Nat, ~CountsToggles(t)
  PROVE  Clock(t, n) = Ticks(t, n)
<1> DEFINE f == CHOOSE f : f = [i \in 0..n |-> IF i = 0 THEN t ELSE Tick(f[i - 1])]
<1>1. t \in PulseTimers
  BY DEF PulseTimers
<1>2. f = [i \in 0..n |-> IF i = 0 THEN t ELSE Tick(f[i - 1])]
  <2>1. PICK g : g = [i \in 0..n |-> Clock(t, i)]
    OBVIOUS
  <2>2. ASSUME NEW i \in 0..n PROVE g[i] = IF i = 0 THEN t ELSE Tick(g[i - 1])
    <3>1. CASE i = 0
      BY <2>1, <3>1, ClockZero
    <3>2. CASE i # 0
      <4>1. i - 1 \in 0..n /\ i - 1 \in Nat /\ (i - 1) + 1 = i
        BY <3>2
      <4>2. Clock(t, (i - 1) + 1) = Tick(Clock(t, i - 1))
        BY <1>1, <4>1, ClockNext
      <4> QED BY <2>1, <3>2, <4>1, <4>2
    <3> QED BY <3>1, <3>2
  <2>3. g = [i \in 0..n |-> IF i = 0 THEN t ELSE Tick(g[i - 1])]
    BY <2>1, <2>2
  <2> QED BY <2>3
<1>3. Ticks(t, n) = f[n]
  BY DEF Ticks
<1> HIDE DEF f
<1> DEFINE S == {i \in 0..n : f[i] = Clock(t, i)}
<1>4. 0 \in S
  BY <1>2, ClockZero
<1>5. \A i \in 0..n : i \in S /\ i < n => i + 1 \in S
  <2> TAKE i \in 0..n
  <2> HAVE i \in S /\ i < n
  <2>1. i + 1 \in 0..n /\ i + 1 # 0 /\ (i + 1) - 1 = i /\ i \in Nat
    OBVIOUS
  <2>2. f[i + 1] = Tick(f[i])
    BY <1>2, <2>1
  <2>3. Clock(t, i + 1) = Tick(Clock(t, i))
    BY <1>1, <2>1, ClockNext
  <2> QED BY <2>1, <2>2, <2>3
<1>6. \A i \in 0..n : i \in S
  <2> HIDE DEF S
  <2> QED BY <1>4, <1>5, UpTo
<1> QED BY <1>3, <1>6

\* However many clocks are made up for at a time.
LEMMA ClocksAdd ==
  ASSUME NEW t \in PulseTimers, NEW a \in Nat
  PROVE  \A b \in Nat : Clock(Clock(t, a), b) = Clock(t, a + b)
<1> DEFINE S == {b \in Nat : Clock(Clock(t, a), b) = Clock(t, a + b)}
<1>1. 0 \in S
  BY ClockZero
<1>2. ASSUME NEW b \in Nat, b \in S PROVE b + 1 \in S
  <2>1. PICK u \in PulseTimers : u = Clock(t, a)
    BY ClockPulses
  <2>2. Clock(u, b + 1) = Tick(Clock(u, b))
    BY ClockNext
  <2>3. a + b \in Nat /\ (a + b) + 1 = a + (b + 1)
    OBVIOUS
  <2>4. Clock(t, (a + b) + 1) = Tick(Clock(t, a + b))
    BY <2>3, ClockNext
  <2>5. Clock(u, b) = Clock(t, a + b)
    BY <1>2, <2>1
  <2> QED BY <2>1, <2>2, <2>3, <2>4, <2>5
<1>3. \A b \in Nat : b \in S
  <2> HIDE DEF S
  <2> QED BY <1>1, <1>2, AllNumbers
<1> QED BY <1>3

-----------------------------------------------------------------------------
(***************************************************************************)
(* A walk along the lines goes one cycle further with each cycle, whether  *)
(* it is interrupted or not.                                               *)
(***************************************************************************)
To(p) == IF p.left < CyclesInLine(p.video) - p.video.cycle
         THEN p.video.cycle + p.left ELSE CyclesInLine(p.video)

Dots(v, c) == c \div v.divider

\* Where the video clock is at the end of that.
MovedTo(v, to) ==
  IF to < CyclesInLine(v) THEN [v EXCEPT !.cycle = to] ELSE IncrementLine([v EXCEPT !.cycle = 0])

LEMMA LineForm ==
  ASSUME NEW w0, NEW p \in Walks(w0)
  PROVE  /\ LineStep(p).video = MovedTo(p.video, To(p))
         /\ LineStep(p).left = p.left - (To(p) - p.video.cycle)
         /\ LineStep(p).dots = p.dots + Dots(p.video, To(p)) - Dots(p.video, p.video.cycle)
         /\ LineStep(p).retraces = IF To(p) < CyclesInLine(p.video) THEN p.retraces ELSE p.retraces + 1
<1> DEFINE v == p.video
           end == CyclesInLine(v)
           to == IF p.left < end - v.cycle THEN v.cycle + p.left ELSE end
           left == p.left - (to - v.cycle)
           dots == p.dots + to \div v.divider - v.cycle \div v.divider
<1>1. to = To(p) /\ dots = p.dots + Dots(v, to) - Dots(v, v.cycle)
  BY DEF To, Dots
<1>2. PICK q : q = [p EXCEPT !.left = left, !.dots = dots]
  BY Zenon
<1>3. LineStep(p) = IF to < end THEN [q EXCEPT !.video.cycle = to]
                    ELSE [q EXCEPT !.video = IncrementLine([v EXCEPT !.cycle = 0]), !.retraces = @ + 1]
  <2>1. q = [p EXCEPT !.left = @ - (to - v.cycle),
                      !.dots = @ + to \div v.divider - v.cycle \div v.divider]
    BY <1>2 DEF Walks
  <2> QED BY <2>1, Zenon DEF LineStep
<1>4. /\ q.video = v /\ q.left = left /\ q.dots = dots /\ q.retraces = p.retraces
      /\ DOMAIN q = {"video", "left", "dots", "retraces"}
  <2> HIDE DEF left, dots
  <2> QED BY <1>2 DEF Walks
<1> HIDE DEF left, dots, to, end
<1>5. CASE to < end
  <2>1. PICK x : x = [v EXCEPT !.cycle = to]
    BY Zenon
  <2>2. LineStep(p) = [q EXCEPT !.video = x]
    BY <1>3, <1>4, <1>5, <2>1, Zenon
  <2>3. MovedTo(v, to) = x
    BY <1>5, <2>1, Zenon DEF MovedTo, end
  <2>4. [q EXCEPT !.video = x].video = x /\ [q EXCEPT !.video = x].left = left
        /\ [q EXCEPT !.video = x].dots = dots /\ [q EXCEPT !.video = x].retraces = p.retraces
    BY <1>4
  <2> QED BY <1>1, <1>5, <2>2, <2>3, <2>4 DEF end, left
<1>6. CASE ~(to < end)
  <2>1. PICK x : x = IncrementLine([v EXCEPT !.cycle = 0])
    BY Zenon
  <2>2. PICK r : r = p.retraces + 1
    OBVIOUS
  <2>3. LineStep(p) = [q EXCEPT !.video = x, !.retraces = r]
    BY <1>3, <1>4, <1>6, <2>1, <2>2, Zenon
  <2>4. MovedTo(v, to) = x
    BY <1>6, <2>1, Zenon DEF MovedTo, end
  <2>5. PICK y : y = [q EXCEPT !.video = x, !.retraces = r]
    BY Zenon
  <2>6. y.video = x /\ y.left = left /\ y.dots = dots /\ y.retraces = r
    BY <1>4, <2>5
  <2> QED BY <1>1, <1>6, <2>2, <2>3, <2>4, <2>5, <2>6 DEF end, left
<1> QED BY <1>5, <1>6

LEMMA SameWalk ==
  ASSUME NEW w, NEW p \in Walks(w), NEW u, NEW q \in Walks(u),
         p.video = q.video, p.left = q.left, p.dots = q.dots, p.retraces = q.retraces
  PROVE  p = q
BY DEF Walks

LEMMA WalkNumbers ==
  ASSUME NEW w, NEW p \in Walks(w)
  PROVE  /\ CyclesInLine(p.video) \in Nat \ {0} /\ p.video.cycle \in Nat
         /\ p.video.cycle < CyclesInLine(p.video) /\ p.left \in Nat /\ p.dots \in Nat
         /\ p.retraces \in Nat /\ p.video.divider \in Nat \ {0} /\ p.video \in Videos
         /\ To(p) \in Nat /\ p.video.cycle <= To(p) /\ To(p) <= CyclesInLine(p.video)
         /\ \A c \in Nat : Dots(p.video, c) \in Nat
<1>1. p.video \in Videos /\ p.left \in Nat /\ p.dots \in Nat /\ p.retraces \in Nat
  BY DEF Walks
<1>2. /\ p.video.cycle \in Nat /\ p.video.cycle < CyclesInLine(p.video)
      /\ p.video.divider \in Nat \ {0} /\ CyclesInLine(p.video) \in Nat \ {0}
  BY <1>1, CyclesTyped DEF Videos, VideoRecords
<1>3. To(p) \in Nat /\ p.video.cycle <= To(p) /\ To(p) <= CyclesInLine(p.video)
  BY <1>1, <1>2 DEF To
<1>4. \A c \in Nat : Dots(p.video, c) \in Nat
  BY <1>2, DivMonotone DEF Dots
<1> QED BY <1>1, <1>2, <1>3, <1>4

\* A walk with nothing left stays where it is.
LEMMA Rests ==
  ASSUME NEW w, NEW p \in Walks(w), p.left = 0
  PROVE  LineStep(p) = p
<1>1. /\ CyclesInLine(p.video) \in Nat \ {0} /\ p.video.cycle \in Nat /\ p.video \in Videos
      /\ p.video.cycle < CyclesInLine(p.video) /\ p.dots \in Nat /\ p.retraces \in Nat
      /\ \A c \in Nat : Dots(p.video, c) \in Nat
  BY WalkNumbers
<1>2. To(p) = p.video.cycle
  BY <1>1 DEF To
<1>3. MovedTo(p.video, p.video.cycle) = p.video
  <2>1. [p.video EXCEPT !.cycle = p.video.cycle] = p.video
    BY <1>1 DEF Videos, VideoRecords
  <2> QED BY <1>1, <2>1, Zenon DEF MovedTo
<1>4. p.dots + Dots(p.video, p.video.cycle) - Dots(p.video, p.video.cycle) = p.dots
  BY <1>1
<1>5. p.left - (p.video.cycle - p.video.cycle) = p.left
  BY <1>1
<1>6. /\ LineStep(p).video = p.video /\ LineStep(p).left = p.left /\ LineStep(p).dots = p.dots
      /\ LineStep(p).retraces = p.retraces
  BY <1>1, <1>2, <1>3, <1>4, <1>5, LineForm
<1> QED BY <1>6, LineStepTyped, SameWalk

\* With a cycle more to go.
More(p) == [p EXCEPT !.left = @ + 1]
CycleOn(p) == LineStep(More(p))

LEMMA MoreTyped ==
  ASSUME NEW w, NEW p \in Walks(w)
  PROVE  /\ More(p) \in Walks(w) /\ More(p).video = p.video /\ More(p).left = p.left + 1
         /\ More(p).dots = p.dots /\ More(p).retraces = p.retraces
<1>1. p.left \in Nat
  BY DEF Walks
<1> QED BY <1>1 DEF More, Walks

LEMMA SameLine ==
  ASSUME NEW v, NEW x, x.line = v.line, x.mode = v.mode, x.interlaced = v.interlaced
  PROVE  CyclesInLine(x) = CyclesInLine(v)
BY Zenon DEF CyclesInLine

LEMMA CycleOnly ==
  ASSUME NEW v \in Videos, NEW a, NEW x, x = [v EXCEPT !.cycle = a]
  PROVE  /\ x.cycle = a /\ x.divider = v.divider /\ CyclesInLine(x) = CyclesInLine(v)
         /\ \A b : MovedTo(x, b) = MovedTo(v, b)
<1>1. x.cycle = a /\ x.divider = v.divider
  BY DEF Videos, VideoRecords
<1>2. CyclesInLine(x) = CyclesInLine(v)
  <2>1. x.line = v.line /\ x.mode = v.mode /\ x.interlaced = v.interlaced
    BY DEF Videos, VideoRecords
  <2> QED BY <2>1, SameLine
<1>3. ASSUME NEW b PROVE [x EXCEPT !.cycle = b] = [v EXCEPT !.cycle = b]
  BY DEF Videos, VideoRecords
<1>4. \A b : MovedTo(x, b) = MovedTo(v, b)
  BY <1>2, <1>3, Zenon DEF MovedTo
<1> QED BY <1>1, <1>2, <1>4

LEMMA StepForks ==
  ASSUME NEW w, NEW p \in Walks(w)
  PROVE  \/ LineStep(More(p)) = More(LineStep(p))
         \/ LineStep(p).left = 0 /\ LineStep(More(p)) = CycleOn(LineStep(p))
<1> DEFINE q == More(p)
           x == LineStep(p)
           y == More(x)
           v == p.video
           end == CyclesInLine(v)
           c == v.cycle
           l == p.left
<1>1. /\ end \in Nat \ {0} /\ c \in Nat /\ c < end /\ l \in Nat /\ p.dots \in Nat
      /\ p.retraces \in Nat /\ v \in Videos /\ \A i \in Nat : Dots(v, i) \in Nat
  BY WalkNumbers
<1>2. /\ q \in Walks(w) /\ q.video = v /\ q.left = l + 1 /\ q.dots = p.dots
      /\ q.retraces = p.retraces
  BY MoreTyped
<1>3. x \in Walks(w)
  BY LineStepTyped
<1>4. /\ y \in Walks(w) /\ y.video = x.video /\ y.left = x.left + 1 /\ y.dots = x.dots
      /\ y.retraces = x.retraces
  BY <1>3, MoreTyped
<1>5. /\ x.video = MovedTo(v, To(p)) /\ x.left = l - (To(p) - c)
      /\ x.dots = p.dots + Dots(v, To(p)) - Dots(v, c)
      /\ x.retraces = IF To(p) < end THEN p.retraces ELSE p.retraces + 1
  BY LineForm
<1>6. LineStep(q) \in Walks(w) /\ LineStep(y) \in Walks(w)
  BY <1>2, <1>4, LineStepTyped
<1>7. /\ LineStep(q).video = MovedTo(v, To(q)) /\ LineStep(q).left = (l + 1) - (To(q) - c)
      /\ LineStep(q).dots = p.dots + Dots(v, To(q)) - Dots(v, c)
      /\ LineStep(q).retraces = IF To(q) < end THEN p.retraces ELSE p.retraces + 1
  BY <1>2, LineForm
<1>8. To(p) = IF l < end - c THEN c + l ELSE end
  BY DEF To
<1>9. To(q) = IF l + 1 < end - c THEN c + (l + 1) ELSE end
  BY <1>2 DEF To
<1> HIDE DEF q, y, end, c, l, v
<1>10. CASE ~(l < end - c)
  <2>1. To(p) = end /\ To(q) = end
    BY <1>1, <1>8, <1>9, <1>10
  <2>2. /\ LineStep(q).video = y.video /\ LineStep(q).dots = y.dots
        /\ LineStep(q).retraces = y.retraces
    BY <1>4, <1>5, <1>7, <2>1
  <2>3. LineStep(q).left = y.left
    BY <1>1, <1>4, <1>5, <1>7, <2>1
  <2>4. LineStep(q) = y
    BY <1>4, <1>6, <2>2, <2>3, SameWalk
  <2> QED BY <2>4 DEF q, y
<1>11. CASE l < end - c
  <2> DEFINE to == c + (l + 1)
  <2>1. To(p) = c + l /\ c + l < end /\ To(q) = to /\ to \in Nat /\ c + l \in Nat
    BY <1>1, <1>8, <1>9, <1>11
  <2>2. x.video = [v EXCEPT !.cycle = c + l]
    BY <1>5, <2>1, Zenon DEF MovedTo, end
  <2>3. /\ x.video.cycle = c + l /\ x.video.divider = v.divider
        /\ CyclesInLine(x.video) = end /\ MovedTo(x.video, to) = MovedTo(v, to)
    BY <1>1, <2>2, CycleOnly DEF end
  <2>4. x.left = 0
    BY <1>1, <1>5, <2>1
  <2>5. To(y) = to
    <3>1. To(y) = IF 1 < end - (c + l) THEN (c + l) + 1 ELSE end
      BY <1>4, <2>3, <2>4 DEF To
    <3> QED BY <1>1, <2>1, <3>1
  <2>6. /\ LineStep(y).video = MovedTo(x.video, to) /\ LineStep(y).left = 1 - (to - (c + l))
        /\ LineStep(y).dots = x.dots + Dots(x.video, to) - Dots(x.video, c + l)
        /\ LineStep(y).retraces = IF to < end THEN x.retraces ELSE x.retraces + 1
    BY <1>4, <2>3, <2>4, <2>5, LineForm
  <2>7. Dots(x.video, to) = Dots(v, to) /\ Dots(x.video, c + l) = Dots(v, c + l)
    BY <2>3 DEF Dots
  <2>8. LineStep(y).dots = LineStep(q).dots
    <3>1. Dots(v, to) \in Nat /\ Dots(v, c + l) \in Nat /\ Dots(v, c) \in Nat
      BY <1>1, <2>1
    <3>2. x.dots = p.dots + Dots(v, c + l) - Dots(v, c)
      BY <1>5, <2>1
    <3>3. LineStep(y).dots = x.dots + Dots(v, to) - Dots(v, c + l)
      BY <2>6, <2>7
    <3>4. LineStep(q).dots = p.dots + Dots(v, to) - Dots(v, c)
      BY <1>7, <2>1
    <3> HIDE DEF to
    <3> QED BY <1>1, <3>1, <3>2, <3>3, <3>4
  <2>9. LineStep(y).left = LineStep(q).left
    BY <1>1, <1>7, <2>1, <2>6
  <2>10. LineStep(y).retraces = LineStep(q).retraces
    BY <1>5, <1>7, <2>1, <2>6
  <2>11. LineStep(y).video = LineStep(q).video
    BY <1>7, <2>1, <2>3, <2>6
  <2>12. LineStep(q) = LineStep(y)
    BY <1>6, <2>8, <2>9, <2>10, <2>11, SameWalk
  <2> QED BY <2>4, <2>12 DEF q, y, CycleOn
<1> QED BY <1>10, <1>11

LEMMA CycleOnTyped ==
  ASSUME NEW w, NEW p \in Walks(w), p.left = 0
  PROVE  CycleOn(p) \in Walks(w) /\ CycleOn(p).left = 0
<1>1. More(p) \in Walks(w) /\ More(p).video = p.video /\ More(p).left = 1
  BY MoreTyped
<1>2. CycleOn(p) \in Walks(w) /\ CycleOn(p).left = 1 - (To(More(p)) - p.video.cycle)
  BY <1>1, LineForm, LineStepTyped DEF CycleOn
<1>3. To(More(p)) = IF 1 < CyclesInLine(p.video) - p.video.cycle
                    THEN p.video.cycle + 1 ELSE CyclesInLine(p.video)
  BY <1>1 DEF To
<1>4. /\ CyclesInLine(p.video) \in Nat \ {0} /\ p.video.cycle \in Nat
      /\ p.video.cycle < CyclesInLine(p.video)
  BY WalkNumbers
<1> QED BY <1>2, <1>3, <1>4

\* Every step takes a cycle at least, so that none is left at the end.
LEMMA WalkEnds ==
  ASSUME NEW v \in Videos, NEW n \in Nat, NEW f, IsWalk(f, v, n)
  PROVE  f[n].left = 0
<1> DEFINE S == {i \in 0..n : f[i].left <= n - i}
<1>1. 0 \in S
  BY DEF IsWalk
<1>2. \A i \in 0..n : i \in S /\ i < n => i + 1 \in S
  <2> TAKE i \in 0..n
  <2> HAVE i \in S /\ i < n
  <2> DEFINE p == f[i]
  <2>1. i + 1 \in 0..n /\ p \in Walks(v) /\ f[i + 1] = LineStep(p) /\ p.left <= n - i
    BY DEF IsWalk
  <2>2. /\ CyclesInLine(p.video) \in Nat \ {0} /\ p.video.cycle \in Nat
        /\ p.video.cycle < CyclesInLine(p.video) /\ p.left \in Nat
    BY <2>1, WalkNumbers
  <2>3. LineStep(p).left = p.left - (To(p) - p.video.cycle)
    BY <2>1, LineForm
  <2> HIDE DEF p
  <2>4. LineStep(p).left <= n - (i + 1)
    <3>1. To(p) = IF p.left < CyclesInLine(p.video) - p.video.cycle
                  THEN p.video.cycle + p.left ELSE CyclesInLine(p.video)
      BY DEF To
    <3>2. CASE p.left = 0
      BY <2>1, <2>2, <2>3, <3>1, <3>2
    <3>3. CASE p.left # 0
      BY <2>1, <2>2, <2>3, <3>1, <3>3
    <3> QED BY <3>2, <3>3
  <2> QED BY <2>1, <2>4
<1>3. n \in S
  <2> HIDE DEF S
  <2> QED BY <1>1, <1>2, UpTo
<1>4. f[n] \in Walks(v)
  BY DEF IsWalk
<1>5. f[n].left \in Nat
  BY <1>4 DEF Walks
<1> QED BY <1>3, <1>5

LEMMA WalkOn ==
  ASSUME NEW v \in Videos, NEW n \in Nat
  PROVE  Walk(v, n + 1) = CycleOn(Walk(v, n))
<1>1. PICK f : IsWalk(f, v, n)
  BY WalkSteps, Zenon DEF HasWalk
<1>2. n + 1 \in Nat
  OBVIOUS
<1>3. PICK g : IsWalk(g, v, n + 1)
  BY <1>2, WalkSteps, Zenon DEF HasWalk
<1> DEFINE Fork(p, q) == q = More(p) \/ (p.left = 0 /\ q = CycleOn(p))
           S == {i \in 0..n : Fork(f[i], g[i])}
<1>4. 0 \in S
  <2>1. /\ f[0] = [video |-> v, left |-> n, dots |-> 0, retraces |-> 0]
        /\ g[0] = [video |-> v, left |-> n + 1, dots |-> 0, retraces |-> 0]
    BY <1>1, <1>3, Zenon DEF IsWalk
  <2>2. g[0] = More(f[0])
    BY <2>1 DEF More
  <2> QED BY <2>2
<1>5. \A i \in 0..n : /\ f[i] \in Walks(v) /\ g[i] \in Walks(v)
                      /\ g[i + 1] = LineStep(g[i])
                      /\ i < n => f[i + 1] = LineStep(f[i])
  <2> TAKE i \in 0..n
  <2>1. i \in 0..(n + 1) /\ i < n + 1
    OBVIOUS
  <2> QED BY <1>1, <1>3, <2>1, Zenon DEF IsWalk
<1>6. ASSUME NEW p \in Walks(v), NEW q, Fork(p, q) PROVE Fork(LineStep(p), LineStep(q))
  <2>1. CASE q = More(p)
    BY <2>1, StepForks
  <2>2. CASE p.left = 0 /\ q = CycleOn(p)
    <3>1. LineStep(p) = p
      BY <2>2, Rests
    <3>2. q \in Walks(v) /\ q.left = 0
      BY <2>2, CycleOnTyped
    <3>4. LineStep(q) = q
      BY <3>2, Rests
    <3> QED BY <2>2, <3>1, <3>4
  <2> QED BY <1>6, <2>1, <2>2
<1>7. \A i \in 0..n : i \in S /\ i < n => i + 1 \in S
  <2> TAKE i \in 0..n
  <2> HAVE i \in S /\ i < n
  <2>1. i + 1 \in 0..n
    OBVIOUS
  <2>2. Fork(f[i], g[i]) /\ f[i] \in Walks(v)
    BY <1>5
  <2>3. f[i + 1] = LineStep(f[i]) /\ g[i + 1] = LineStep(g[i])
    BY <1>5
  <2> HIDE DEF Fork
  <2>4. Fork(f[i + 1], g[i + 1])
    BY <1>6, <2>2, <2>3
  <2> QED BY <2>1, <2>4
<1>8. n \in S
  <2> HIDE DEF S
  <2> QED BY <1>4, <1>7, UpTo
<1>9. f[n].left = 0 /\ f[n] \in Walks(v) /\ Fork(f[n], g[n])
  BY <1>1, <1>5, <1>8, WalkEnds
<1>10. LineStep(f[n]) = f[n]
  BY <1>9, Rests
<1>11. g[n + 1] = LineStep(g[n]) /\ g[n] \in Walks(v)
  BY <1>5
<1>12. Walk(v, n + 1) = g[n + 1] /\ Walk(v, n) = f[n]
  BY <1>1, <1>3 DEF IsWalk
<1>13. Fork(LineStep(f[n]), LineStep(g[n]))
  BY <1>6, <1>9
<1>14. CASE g[n] = More(f[n])
  BY <1>11, <1>12, <1>14, Zenon DEF CycleOn
<1>15. CASE g[n] = CycleOn(f[n])
  <2>1. LineStep(g[n]) = g[n]
    BY <1>9, <1>15, CycleOnTyped, Rests
  <2> QED BY <1>11, <1>12, <1>15, <2>1
<1> QED BY <1>9, <1>14, <1>15

\* What a walk had already counted when it began.
Counted(p, dots, retraces) == [p EXCEPT !.dots = dots + @, !.retraces = retraces + @]

LEMMA CountedTyped ==
  ASSUME NEW w, NEW p \in Walks(w), NEW d \in Nat, NEW r \in Nat
  PROVE  /\ Counted(p, d, r) \in Walks(w) /\ Counted(p, d, r).video = p.video
         /\ Counted(p, d, r).left = p.left /\ Counted(p, d, r).dots = d + p.dots
         /\ Counted(p, d, r).retraces = r + p.retraces
<1>1. d + p.dots \in Nat /\ r + p.retraces \in Nat
  BY DEF Walks
<1> QED BY <1>1 DEF Counted, Walks

LEMMA CycleOnCounted ==
  ASSUME NEW w, NEW p \in Walks(w), NEW d \in Nat, NEW r \in Nat
  PROVE  CycleOn(Counted(p, d, r)) = Counted(CycleOn(p), d, r)
<1> DEFINE x == More(p)
           y == More(Counted(p, d, r))
<1>1. /\ x \in Walks(w) /\ x.video = p.video /\ x.left = p.left + 1
      /\ x.dots = p.dots /\ x.retraces = p.retraces
  BY MoreTyped
<1>2. /\ y \in Walks(w) /\ y.video = p.video /\ y.left = p.left + 1
      /\ y.dots = d + p.dots /\ y.retraces = r + p.retraces
  <2> DEFINE k == Counted(p, d, r)
  <2>1. /\ k \in Walks(w) /\ k.video = p.video /\ k.left = p.left /\ k.dots = d + p.dots
        /\ k.retraces = r + p.retraces
    BY CountedTyped
  <2> HIDE DEF k
  <2>2. /\ More(k) \in Walks(w) /\ More(k).video = k.video /\ More(k).left = k.left + 1
        /\ More(k).dots = k.dots /\ More(k).retraces = k.retraces
    BY <2>1, MoreTyped
  <2> QED BY <2>1, <2>2 DEF k
<1>3. LineStep(x) \in Walks(w) /\ LineStep(y) \in Walks(w)
  BY <1>1, <1>2, LineStepTyped
<1>4. To(x) = To(y)
  BY <1>1, <1>2 DEF To
<1>5. /\ CyclesInLine(p.video) \in Nat \ {0} /\ p.video.cycle \in Nat /\ p.dots \in Nat
      /\ p.retraces \in Nat /\ To(x) \in Nat /\ To(x) <= CyclesInLine(p.video)
      /\ \A c \in Nat : Dots(p.video, c) \in Nat
  <2>1. /\ CyclesInLine(p.video) \in Nat \ {0} /\ p.video.cycle \in Nat /\ p.dots \in Nat
        /\ p.retraces \in Nat /\ \A c \in Nat : Dots(p.video, c) \in Nat
    BY WalkNumbers
  <2>2. To(x) \in Nat /\ To(x) <= CyclesInLine(p.video)
    BY <1>1, WalkNumbers
  <2> QED BY <2>1, <2>2
<1>6. /\ LineStep(x).video = MovedTo(p.video, To(x)) /\ LineStep(x).left = (p.left + 1) - (To(x) - p.video.cycle)
      /\ LineStep(x).dots = p.dots + Dots(p.video, To(x)) - Dots(p.video, p.video.cycle)
      /\ LineStep(x).retraces = IF To(x) < CyclesInLine(p.video) THEN p.retraces ELSE p.retraces + 1
  BY <1>1, LineForm
<1>7. /\ LineStep(y).video = MovedTo(p.video, To(x)) /\ LineStep(y).left = (p.left + 1) - (To(x) - p.video.cycle)
      /\ LineStep(y).dots = (d + p.dots) + Dots(p.video, To(x)) - Dots(p.video, p.video.cycle)
      /\ LineStep(y).retraces
           = IF To(x) < CyclesInLine(p.video) THEN r + p.retraces ELSE (r + p.retraces) + 1
  BY <1>2, <1>4, LineForm
<1> DEFINE u == Counted(LineStep(x), d, r)
<1>8. /\ u \in Walks(w) /\ u.video = LineStep(x).video /\ u.left = LineStep(x).left
      /\ u.dots = d + LineStep(x).dots /\ u.retraces = r + LineStep(x).retraces
  BY <1>3, CountedTyped
<1> HIDE DEF u, x, y
<1>9. LineStep(y).dots = u.dots
  <2>1. Dots(p.video, To(x)) \in Nat /\ Dots(p.video, p.video.cycle) \in Nat
    BY <1>5
  <2> QED BY <1>5, <1>6, <1>7, <1>8, <2>1
<1>10. LineStep(y).retraces = u.retraces
  BY <1>5, <1>6, <1>7, <1>8
<1>11. LineStep(y) = u
  BY <1>3, <1>6, <1>7, <1>8, <1>9, <1>10, SameWalk
<1> QED BY <1>11 DEF CycleOn, u, x, y

LEMMA WalkZero ==
  ASSUME NEW v \in Videos
  PROVE  Walk(v, 0) = [video |-> v, left |-> 0, dots |-> 0, retraces |-> 0]
<1>1. PICK f : IsWalk(f, v, 0)
  BY WalkSteps, Zenon DEF HasWalk
<1> QED BY <1>1, Zenon DEF IsWalk

LEMMA WalkLeft ==
  ASSUME NEW v \in Videos, NEW n \in Nat
  PROVE  Walk(v, n) \in Walks(v) /\ Walk(v, n).left = 0 /\ Walk(v, n).video \in Videos
         /\ Walk(v, n).dots \in Nat /\ Walk(v, n).retraces \in Nat
<1>1. PICK f : IsWalk(f, v, n)
  BY WalkSteps, Zenon DEF HasWalk
<1>2. Walk(v, n) = f[n]
  BY <1>1 DEF IsWalk
<1>3. f[n].left = 0
  BY <1>1, WalkEnds
<1>4. Walk(v, n) \in Walks(v)
  BY WalkTyped
<1> QED BY <1>2, <1>3, <1>4 DEF Walks

\* Two walks, of which the second goes on where the first ended.
LEMMA WalksAdd ==
  ASSUME NEW v \in Videos, NEW a \in Nat, NEW b \in Nat
  PROVE  LET p == Walk(v, a)
         IN  Walk(v, a + b) = Counted(Walk(p.video, b), p.dots, p.retraces)
<1> DEFINE p == Walk(v, a)
           S == {n \in Nat : Walk(v, a + n) = Counted(Walk(p.video, n), p.dots, p.retraces)}
<1>1. /\ p \in Walks(v) /\ p.left = 0 /\ p.video \in Videos /\ p.dots \in Nat
      /\ p.retraces \in Nat
  BY WalkLeft
<1>2. 0 \in S
  <2>1. a + 0 = a
    OBVIOUS
  <2> DEFINE z == Walk(p.video, 0)
  <2>2. z = [video |-> p.video, left |-> 0, dots |-> 0, retraces |-> 0]
    BY <1>1, WalkZero
  <2>3. z \in Walks(p.video)
    BY <1>1, WalkTyped
  <2> DEFINE c == Counted(z, p.dots, p.retraces)
  <2>4. /\ c \in Walks(p.video) /\ c.video = z.video /\ c.left = z.left
        /\ c.dots = p.dots + z.dots /\ c.retraces = p.retraces + z.retraces
    <3>1. PICK d, r : d = p.dots /\ r = p.retraces
      OBVIOUS
    <3>2. d \in Nat /\ r \in Nat
      BY <1>1, <3>1
    <3> HIDE DEF z
    <3>3. LET u == Counted(z, d, r)
          IN  /\ u \in Walks(p.video) /\ u.video = z.video /\ u.left = z.left
              /\ u.dots = d + z.dots /\ u.retraces = r + z.retraces
      BY <2>3, <3>2, CountedTyped
    <3> QED BY <3>1, <3>3, Zenon
  <2>5. c.video = p.video /\ c.left = p.left /\ c.dots = p.dots /\ c.retraces = p.retraces
    <3> HIDE DEF c, z, p
    <3> QED BY <1>1, <2>2, <2>4
  <2>6. c = p
    <3> HIDE DEF c, p
    <3> QED BY <1>1, <2>4, <2>5, SameWalk
  <2> QED BY <2>1, <2>6
<1>3. \A n \in Nat : n \in S => n + 1 \in S
  <2> TAKE n \in Nat
  <2> HAVE n \in S
  <2>1. (a + n) + 1 = a + (n + 1) /\ a + n \in Nat /\ n + 1 \in Nat
    OBVIOUS
  <2>2. Walk(v, a + (n + 1)) = CycleOn(Walk(v, a + n))
    BY <2>1, WalkOn
  <2>3. Walk(p.video, n + 1) = CycleOn(Walk(p.video, n))
    BY <1>1, WalkOn
  <2>4. Walk(p.video, n) \in Walks(p.video)
    BY <1>1, WalkTyped
  <2>5. Walk(v, a + n) = Counted(Walk(p.video, n), p.dots, p.retraces)
    OBVIOUS
  <2> HIDE DEF p, S
  <2>6. CycleOn(Walk(v, a + n)) = Counted(CycleOn(Walk(p.video, n)), p.dots, p.retraces)
    BY <1>1, <2>4, <2>5, CycleOnCounted
  <2>7. Walk(v, a + (n + 1)) = Counted(Walk(p.video, n + 1), p.dots, p.retraces)
    BY <2>2, <2>3, <2>6
  <2> QED BY <2>1, <2>7 DEF S
<1>4. \A n \in Nat : n \in S
  <2> HIDE DEF S
  <2> QED BY <1>2, <1>3, AllNumbers
<1> QED BY <1>4

\* The remainder of the clocks is set aside: no walk uses it.
LEMMA ProductAside ==
  ASSUME NEW v \in Videos, NEW r \in 0..(CpuClock - 1), NEW x, x = [v EXCEPT !.product = r]
  PROVE  /\ x \in Videos /\ SameMode(v, x) /\ x.product = r
         /\ x.cycle = v.cycle /\ x.divider = v.divider /\ CyclesInLine(x) = CyclesInLine(v)
         /\ \A to \in Nat : MovedTo(x, to) = [MovedTo(v, to) EXCEPT !.product = r]
<1>1. /\ x \in VideoRecords /\ x.product = r /\ x.cycle = v.cycle /\ x.divider = v.divider
      /\ x.line = v.line /\ x.mode = v.mode /\ x.interlaced = v.interlaced
      /\ v.line < Lines[v.mode][v.interlaced] /\ v.cycle < CyclesInLine(v)
  BY DEF Videos, VideoRecords
<1>2. CyclesInLine(x) = CyclesInLine(v)
  BY <1>1, SameLine
<1>3. x \in Videos /\ SameMode(v, x)
  BY <1>1, <1>2 DEF Videos, SameMode
<1>4. ASSUME NEW to \in Nat PROVE MovedTo(x, to) = [MovedTo(v, to) EXCEPT !.product = r]
  <2>1. CASE to < CyclesInLine(v)
    <3>1. [x EXCEPT !.cycle = to] = [[v EXCEPT !.cycle = to] EXCEPT !.product = r]
      BY DEF Videos, VideoRecords
    <3> QED BY <1>2, <2>1, <3>1, Zenon DEF MovedTo
  <2>2. CASE ~(to < CyclesInLine(v))
    <3>1. PICK l : l = IF v.line + 1 >= Lines[v.mode][v.interlaced] THEN 0 ELSE v.line + 1
      BY Zenon
    <3>2. IncrementLine([v EXCEPT !.cycle = 0]) = [[v EXCEPT !.cycle = 0] EXCEPT !.line = l]
      BY <3>1 DEF IncrementLine, Videos, VideoRecords
    <3>3. IncrementLine([x EXCEPT !.cycle = 0]) = [[x EXCEPT !.cycle = 0] EXCEPT !.line = l]
      BY <1>1, <3>1 DEF IncrementLine, VideoRecords
    <3>4. [[x EXCEPT !.cycle = 0] EXCEPT !.line = l]
            = [[[v EXCEPT !.cycle = 0] EXCEPT !.line = l] EXCEPT !.product = r]
      BY DEF Videos, VideoRecords
    <3> QED BY <1>2, <2>2, <3>2, <3>3, <3>4, Zenon DEF MovedTo
  <2> QED BY <2>1, <2>2
<1> QED BY <1>1, <1>2, <1>3, <1>4

WithProduct(p, r) == [p EXCEPT !.video = [p.video EXCEPT !.product = r]]

LEMMA WithProductTyped ==
  ASSUME NEW w, NEW p \in Walks(w), NEW r \in 0..(CpuClock - 1)
  PROVE  /\ WithProduct(p, r) \in Walks(w)
         /\ WithProduct(p, r).video = [p.video EXCEPT !.product = r]
         /\ WithProduct(p, r).left = p.left /\ WithProduct(p, r).dots = p.dots
         /\ WithProduct(p, r).retraces = p.retraces
<1>1. PICK x : x = [p.video EXCEPT !.product = r]
  BY Zenon
<1>2. p.video \in Videos /\ SameMode(w, p.video)
  BY DEF Walks
<1>3. x \in Videos /\ SameMode(p.video, x)
  BY <1>1, <1>2, ProductAside
<1>4. SameMode(w, x)
  BY <1>2, <1>3 DEF SameMode
<1>5. WithProduct(p, r) = [p EXCEPT !.video = x]
  BY <1>1 DEF WithProduct
<1> QED BY <1>1, <1>3, <1>4, <1>5 DEF Walks

LEMMA CycleOnProduct ==
  ASSUME NEW w, NEW p \in Walks(w), NEW r \in 0..(CpuClock - 1)
  PROVE  CycleOn(WithProduct(p, r)) = WithProduct(CycleOn(p), r)
<1> DEFINE x == More(p)
           k == WithProduct(p, r)
           y == More(k)
           v == p.video
<1>1. /\ x \in Walks(w) /\ x.video = v /\ x.left = p.left + 1
      /\ x.dots = p.dots /\ x.retraces = p.retraces
  BY MoreTyped
<1>2. /\ k \in Walks(w) /\ k.video = [v EXCEPT !.product = r] /\ k.left = p.left
      /\ k.dots = p.dots /\ k.retraces = p.retraces
  BY WithProductTyped
<1>3. v \in Videos
  BY DEF Walks
<1> HIDE DEF k, x
<1>4. /\ k.video.cycle = v.cycle /\ k.video.divider = v.divider
      /\ CyclesInLine(k.video) = CyclesInLine(v)
      /\ \A to \in Nat : MovedTo(k.video, to) = [MovedTo(v, to) EXCEPT !.product = r]
  <2> HIDE DEF v
  <2> QED BY <1>2, <1>3, ProductAside
<1>5. /\ y \in Walks(w) /\ y.video = k.video /\ y.left = p.left + 1
      /\ y.dots = p.dots /\ y.retraces = p.retraces
  BY <1>2, MoreTyped
<1> HIDE DEF y, v
<1>6. LineStep(x) \in Walks(w) /\ LineStep(y) \in Walks(w) /\ To(x) \in Nat
  BY <1>1, <1>5, LineStepTyped, WalkNumbers
<1>7. To(y) = To(x)
  BY <1>1, <1>4, <1>5 DEF To
<1>8. /\ LineStep(x).video = MovedTo(v, To(x)) /\ LineStep(x).left = (p.left + 1) - (To(x) - v.cycle)
      /\ LineStep(x).dots = p.dots + Dots(v, To(x)) - Dots(v, v.cycle)
      /\ LineStep(x).retraces = IF To(x) < CyclesInLine(v) THEN p.retraces ELSE p.retraces + 1
  BY <1>1, LineForm
<1>9. /\ LineStep(y).video = MovedTo(k.video, To(x))
      /\ LineStep(y).left = (p.left + 1) - (To(x) - v.cycle)
      /\ LineStep(y).dots = p.dots + Dots(k.video, To(x)) - Dots(k.video, v.cycle)
      /\ LineStep(y).retraces = IF To(x) < CyclesInLine(v) THEN p.retraces ELSE p.retraces + 1
  BY <1>4, <1>5, <1>7, LineForm
<1>10. \A c : Dots(k.video, c) = Dots(v, c)
  BY <1>4 DEF Dots
<1>11. MovedTo(k.video, To(x)) = [MovedTo(v, To(x)) EXCEPT !.product = r]
  BY <1>4, <1>6
<1> DEFINE u == WithProduct(LineStep(x), r)
<1>12. /\ u \in Walks(w) /\ u.video = [LineStep(x).video EXCEPT !.product = r]
       /\ u.left = LineStep(x).left /\ u.dots = LineStep(x).dots
       /\ u.retraces = LineStep(x).retraces
  BY <1>6, WithProductTyped
<1> HIDE DEF u
<1>13. /\ u.video = LineStep(y).video /\ u.left = LineStep(y).left /\ u.dots = LineStep(y).dots
       /\ u.retraces = LineStep(y).retraces
  <2>1. LineStep(y).dots = LineStep(x).dots
    BY <1>8, <1>9, <1>10
  <2>2. u.video = LineStep(y).video
    BY <1>8, <1>9, <1>11, <1>12
  <2> QED BY <1>8, <1>9, <1>12, <2>1, <2>2
<1>14. LineStep(y) = u
  BY <1>6, <1>12, <1>13, SameWalk
<1> QED BY <1>14 DEF CycleOn, u, x, y, k

LEMMA WalkProduct ==
  ASSUME NEW v \in Videos, NEW r \in 0..(CpuClock - 1), NEW x, x = [v EXCEPT !.product = r]
  PROVE  \A n \in Nat : Walk(x, n) = WithProduct(Walk(v, n), r)
<1> DEFINE S == {n \in Nat : Walk(x, n) = WithProduct(Walk(v, n), r)}
<1>1. x \in Videos
  BY ProductAside
<1>2. 0 \in S
  <2>1. /\ Walk(x, 0) = [video |-> x, left |-> 0, dots |-> 0, retraces |-> 0]
        /\ Walk(v, 0) = [video |-> v, left |-> 0, dots |-> 0, retraces |-> 0]
    BY <1>1, WalkZero
  <2> QED BY <2>1 DEF WithProduct
<1>3. \A n \in Nat : n \in S => n + 1 \in S
  <2> TAKE n \in Nat
  <2> HAVE n \in S
  <2>1. Walk(x, n + 1) = CycleOn(Walk(x, n)) /\ Walk(v, n + 1) = CycleOn(Walk(v, n))
    BY <1>1, WalkOn
  <2>2. Walk(v, n) \in Walks(v) /\ Walk(x, n) = WithProduct(Walk(v, n), r)
    BY WalkTyped
  <2>3. CycleOn(Walk(x, n)) = WithProduct(CycleOn(Walk(v, n)), r)
    BY <2>2, CycleOnProduct
  <2> QED BY <2>1, <2>3
<1>4. \A n \in Nat : n \in S
  <2> HIDE DEF S
  <2> QED BY <1>2, <1>3, AllNumbers
<1> QED BY <1>4

LEMMA WalkKeepsProduct ==
  ASSUME NEW v \in Videos, NEW n \in Nat
  PROVE  Walk(v, n).video.product = v.product
<1>1. v.product \in 0..(CpuClock - 1) /\ v = [v EXCEPT !.product = v.product]
  BY DEF Videos, VideoRecords
<1>2. Walk(v, n) = WithProduct(Walk(v, n), v.product)
  BY <1>1, WalkProduct
<1> DEFINE p == Walk(v, n)
<1>3. p \in Walks(v) /\ p.video \in Videos
  BY WalkLeft
<1> HIDE DEF p
<1>4. p.video = [p.video EXCEPT !.product = v.product]
  BY <1>1, <1>2, <1>3, WithProductTyped DEF p
<1> QED BY <1>3, <1>4 DEF p, Videos, VideoRecords

\* Cycles are turned into those of the other clock at once or in two parts.
LEMMA DivTwice ==
  ASSUME NEW c \in Nat \ {0}, NEW a \in Nat, NEW b \in Nat
  PROVE  /\ (a + b) \div c = (a \div c) + (((a % c) + b) \div c)
         /\ (a + b) % c = ((a % c) + b) % c
<1> DEFINE q == a \div c
           r == a % c
           s == (r + b) \div c
           u == (r + b) % c
<1>1. a = (c * q) + r /\ q \in Nat /\ r \in 0..(c - 1)
  BY DivMod
<1>2. r + b \in Nat
  BY <1>1
<1> HIDE DEF q, r
<1>3. r + b = (c * s) + u /\ s \in Nat /\ u \in 0..(c - 1)
  BY <1>2, DivMod
<1> HIDE DEF s, u
<1>4. c * (q + s) = (c * q) + (c * s) /\ q + s \in Int /\ c * q \in Int /\ c * s \in Int
  BY <1>1, <1>3
<1>5. a + b = (c * (q + s)) + u
  <2> DEFINE x == c * q
             y == c * s
             z == c * (q + s)
  <2>1. x \in Int /\ y \in Int /\ z = x + y /\ a = x + r /\ r + b = y + u /\ r \in Int /\ u \in Int
    BY <1>1, <1>3, <1>4
  <2> HIDE DEF x, y, z
  <2>2. a + b = z + u
    BY <2>1
  <2> QED BY <2>2 DEF z
<1>6. ((c * (q + s)) + u) \div c = q + s /\ ((c * (q + s)) + u) % c = u
  BY <1>3, <1>4, DivUnique
<1> QED BY <1>5, <1>6 DEF q, r, s, u

\* The walk that a catch-up takes.
Caught(v, cpu) == Walk(Pass(v, cpu), GpuCycles(v, cpu))

LEMMA CaughtTyped ==
  ASSUME NEW v \in Videos, NEW cpu \in Nat
  PROVE  /\ Caught(v, cpu) \in Walks(v) /\ Caught(v, cpu).video \in Videos
         /\ Caught(v, cpu).dots \in Nat /\ Caught(v, cpu).retraces \in Nat
<1>1. Pass(v, cpu) \in Videos /\ SameMode(v, Pass(v, cpu)) /\ GpuCycles(v, cpu) \in Nat
  BY PassTyped
<1>2. Caught(v, cpu) \in Walks(Pass(v, cpu))
  BY <1>1, WalkTyped DEF Caught
<1> QED BY <1>1, <1>2 DEF Walks, SameMode

LEMMA CaughtTwice ==
  ASSUME NEW v \in Videos, NEW e \in Nat, NEW l \in Nat
  PROVE  LET p == Caught(v, e)
         IN  Caught(v, e + l) = Counted(Caught(p.video, l), p.dots, p.retraces)
<1> DEFINE G == GpuClock[v.mode]
           a == v.product + (e * G)
           b == l * G
           n1 == a \div CpuClock
           r1 == a % CpuClock
           n2 == (r1 + b) \div CpuClock
           r2 == (r1 + b) % CpuClock
           p == Caught(v, e)
<1>1. v.mode \in VideoModes /\ v.product \in 0..(CpuClock - 1)
  BY DEF Videos, VideoRecords
<1>2. CpuClock \in Nat \ {0} /\ G \in Nat \ {0}
  BY <1>1, ClockRates
<1>3. a \in Nat /\ b \in Nat /\ v.product + ((e + l) * G) = a + b
  <2> DEFINE x == e * G
             y == l * G
             z == (e + l) * G
  <2>1. x \in Nat /\ y \in Nat /\ z = x + y
    <3> HIDE DEF G
    <3> QED BY <1>2, SMT
  <2> HIDE DEF x, y, z
  <2>2. v.product + x \in Nat /\ v.product + z = (v.product + x) + y
    BY <1>1, <2>1
  <2> QED BY <2>1, <2>2 DEF x, y, z
<1> HIDE DEF a, b
<1>4. n1 \in Nat /\ r1 \in 0..(CpuClock - 1)
  BY <1>2, <1>3, DivMod
<1>5. n2 \in Nat /\ r2 \in 0..(CpuClock - 1)
  <2> HIDE DEF r1
  <2>1. r1 + b \in Nat
    BY <1>3, <1>4
  <2> DEFINE c == r1 + b
  <2> HIDE DEF c
  <2>2. c \div CpuClock \in Nat /\ c % CpuClock \in 0..(CpuClock - 1)
    BY <1>2, <2>1, DivMod DEF c
  <2> QED BY <2>2 DEF c
<1>6. (a + b) \div CpuClock = n1 + n2 /\ (a + b) % CpuClock = r2
  BY <1>2, <1>3, DivTwice
<1> HIDE DEF n1, n2, r1, r2
<1>7. Pass(v, e) = [v EXCEPT !.product = r1] /\ GpuCycles(v, e) = n1
  BY DEF Pass, GpuCycles, a, n1, r1, Videos, VideoRecords
<1>8. Pass(v, e + l) = [v EXCEPT !.product = r2] /\ GpuCycles(v, e + l) = n1 + n2
  <2>1. Pass(v, e + l) = [v EXCEPT !.product = (v.product + ((e + l) * G)) % CpuClock]
    BY DEF Pass, Videos, VideoRecords
  <2>2. GpuCycles(v, e + l) = (v.product + ((e + l) * G)) \div CpuClock
    BY DEF GpuCycles
  <2> HIDE DEF G
  <2> QED BY <1>3, <1>6, <2>1, <2>2
<1> DEFINE v1 == [v EXCEPT !.product = r1]
           v2 == [v EXCEPT !.product = r2]
<1>9. v1 \in Videos /\ v2 \in Videos /\ SameMode(v, v1) /\ v1.product = r1
  BY <1>4, <1>5, ProductAside
<1>10. v2 = [v1 EXCEPT !.product = r2]
  BY DEF Videos, VideoRecords
<1>11. p = Walk(v1, n1)
  BY <1>7 DEF Caught
<1> HIDE DEF v1, v2, p
<1>12. p \in Walks(v1) /\ p.video \in Videos /\ p.video.product = r1 /\ SameMode(v1, p.video)
  BY <1>4, <1>9, <1>11, WalkLeft, WalkKeepsProduct DEF Walks
<1>13. Walk(v2, n1) = WithProduct(p, r2)
  BY <1>4, <1>5, <1>9, <1>10, <1>11, WalkProduct
<1> DEFINE q == WithProduct(p, r2)
<1>14. q.video = [p.video EXCEPT !.product = r2] /\ q.dots = p.dots /\ q.retraces = p.retraces
  BY <1>5, <1>12, WithProductTyped
<1>15. Pass(p.video, l) = q.video /\ GpuCycles(p.video, l) = n2
  <2>1. p.video.mode = v.mode
    BY <1>9, <1>12 DEF SameMode
  <2>2. Pass(p.video, l) = [p.video EXCEPT !.product = (r1 + (l * G)) % CpuClock]
    BY <1>12, <2>1 DEF Pass, Videos, VideoRecords
  <2>3. GpuCycles(p.video, l) = (r1 + (l * G)) \div CpuClock
    BY <1>12, <2>1 DEF GpuCycles
  <2> QED BY <1>14, <2>2, <2>3 DEF r2, n2, b
<1> HIDE DEF q
<1>16. Walk(v2, n1 + n2) = Counted(Walk(q.video, n2), q.dots, q.retraces)
  BY <1>4, <1>5, <1>9, <1>13, WalksAdd DEF q
<1>17. Caught(v, e + l) = Walk(v2, n1 + n2)
  BY <1>8 DEF Caught, v2
<1>18. Caught(p.video, l) = Walk(q.video, n2)
  BY <1>15 DEF Caught
<1> QED BY <1>14, <1>16, <1>17, <1>18 DEF p

\* The clocks that timer i is given.
OwnClocks(i, v, at, cpu) ==
  IF i = 2 THEN Timer2Clocks(at, cpu)
  ELSE IF source[i] = "system" THEN cpu
  ELSE IF i = 0 THEN Caught(v, cpu).dots ELSE Caught(v, cpu).retraces

LEMMA CatchUpForm ==
  ASSUME ~sync[0], ~sync[1], NEW v, NEW t \in [Indices -> Timers], NEW at, NEW cpu
  PROVE  CatchUp(v, t, at, cpu)
           = [video |-> Caught(v, cpu).video, sync |-> sync,
              timer |-> [i \in Indices |-> Clock(t[i], OwnClocks(i, v, at, cpu))]]
<1> DEFINE p == Caught(v, cpu)
           a == Clock(t[0], IF source[0] = "system" THEN cpu ELSE p.dots)
           b == Clock(t[1], IF source[1] = "system" THEN cpu ELSE p.retraces)
           u == [t EXCEPT ![0] = a, ![1] = b]
           c == [video |-> p.video, sync |-> sync, timer |-> u]
<1>1. Indices = {0, 1, 2}
  BY DEF Indices
<1>2. CatchUpNoSync(v, t, cpu) = c
  BY <1>1 DEF CatchUpNoSync, ClockNoSync, Caught
<1>3. CatchUp(v, t, at, cpu) = [c EXCEPT !.timer[2] = Clock(@, Timer2Clocks(at, cpu))]
  BY <1>2, Zenon DEF CatchUp
<1> DEFINE w == Clock(t[2], Timer2Clocks(at, cpu))
           k == Clock(u[2], Timer2Clocks(at, cpu))
<1>4. a = Clock(t[0], OwnClocks(0, v, at, cpu)) /\ b = Clock(t[1], OwnClocks(1, v, at, cpu))
      /\ w = Clock(t[2], OwnClocks(2, v, at, cpu))
  BY DEF OwnClocks
<1> HIDE DEF a, b
<1>5. u[2] = t[2] /\ DOMAIN u = Indices /\ u[0] = a /\ u[1] = b
  BY <1>1
<1>6. k = w
  BY <1>5, Zenon
<1>7. [c EXCEPT !.timer[2] = Clock(@, Timer2Clocks(at, cpu))] = [c EXCEPT !.timer = [u EXCEPT ![2] = w]]
  <2>1. c.timer = u
    OBVIOUS
  <2> HIDE DEF u
  <2>2. [c EXCEPT !.timer[2] = Clock(@, Timer2Clocks(at, cpu))]
          = [c EXCEPT !.timer = [c.timer EXCEPT ![2] = Clock(c.timer[2], Timer2Clocks(at, cpu))]]
    OBVIOUS
  <2> HIDE DEF c
  <2> QED BY <1>6, <2>1, <2>2, Zenon
<1> HIDE DEF w, k
<1> DEFINE x == [u EXCEPT ![2] = w]
           y == [i \in Indices |-> Clock(t[i], OwnClocks(i, v, at, cpu))]
<1>8. x = y
  <2>1. x = [i \in Indices |-> IF i = 2 THEN w ELSE u[i]]
    <3> HIDE DEF u
    <3> QED BY <1>5
  <2>2. ASSUME NEW i \in Indices
        PROVE  (IF i = 2 THEN w ELSE u[i]) = Clock(t[i], OwnClocks(i, v, at, cpu))
    <3>1. CASE i = 0
      BY <1>4, <1>5, <3>1, Zenon
    <3>2. CASE i = 1
      BY <1>4, <1>5, <3>2, Zenon
    <3>3. CASE i = 2
      BY <1>4, <3>3, Zenon
    <3> QED BY <1>1, <3>1, <3>2, <3>3
  <2> HIDE DEF u
  <2> QED BY <2>1, <2>2, Zenon
<1>9. [c EXCEPT !.timer = x] = [video |-> p.video, sync |-> sync, timer |-> x]
  <2> HIDE DEF x, u, p
  <2> QED OBVIOUS
<1> QED BY <1>3, <1>7, <1>8, <1>9, Zenon

LEMMA OwnClocksTyped ==
  ASSUME NEW i \in Indices, NEW v \in Videos, NEW at \in Nat, NEW cpu \in Nat
  PROVE  OwnClocks(i, v, at, cpu) \in Nat
<1>1. Caught(v, cpu).dots \in Nat /\ Caught(v, cpu).retraces \in Nat
  BY CaughtTyped
<1>2. Timer2Clocks(at, cpu) \in Nat
  <2>1. Div \in Nat \ {0} /\ at + cpu \in Nat
    BY DivTyped
  <2> DEFINE a == at + cpu
  <2>2. a \div Div \in Nat
    <3> HIDE DEF a
    <3> QED BY <2>1, DivMod DEF a
  <2> QED BY <2>2, Zenon DEF Timer2Clocks
<1> QED BY <1>1, <1>2, Zenon DEF OwnClocks

\* What two catch-ups make up for is what one does.
LEMMA OwnClocksAdd ==
  ASSUME Placed, NEW i \in Indices, NEW later \in Nat
  PROVE  OwnClocks(i, video, phase, elapsed + later)
           = OwnClocks(i, video, phase, elapsed)
               + OwnClocks(i, Caught(video, elapsed).video, Now, later)
<1>1. video \in Videos /\ elapsed \in Nat /\ phase \in Nat /\ Div \in Nat \ {0}
  BY DivTyped DEF Placed
<1> DEFINE p == Caught(video, elapsed)
           q == Caught(p.video, later)
           all == Caught(video, elapsed + later)
<1>2. p.video \in Videos /\ p.dots \in Nat /\ p.retraces \in Nat
  BY <1>1, CaughtTyped
<1>3. all = Counted(q, p.dots, p.retraces)
  BY <1>1, CaughtTwice
<1> HIDE DEF all, p
<1>4. q \in Walks(p.video) /\ q.dots \in Nat /\ q.retraces \in Nat
  BY <1>2, CaughtTyped
<1> HIDE DEF q
<1>5. all.dots = p.dots + q.dots /\ all.retraces = p.retraces + q.retraces
  <2>1. PICK d, r : d = p.dots /\ r = p.retraces
    OBVIOUS
  <2>2. d \in Nat /\ r \in Nat
    BY <1>2, <2>1
  <2>3. Counted(q, d, r).dots = d + q.dots /\ Counted(q, d, r).retraces = r + q.retraces
    <3>1. PICK w : q \in Walks(w)
      BY <1>4
    <3> QED BY <2>2, <3>1, CountedTyped
  <2> QED BY <1>3, <2>1, <2>3, Zenon
<1>6. Timer2Clocks(phase, elapsed + later)
        = Timer2Clocks(phase, elapsed) + Timer2Clocks(Now, later)
  <2> DEFINE a == phase + elapsed
             n == a \div Div
             r == a % Div
  <2>1. a \in Nat /\ phase + (elapsed + later) = a + later
    BY <1>1
  <2>2. Now = r
    BY DEF Now
  <2> HIDE DEF a
  <2>3. (a + later) \div Div = n + ((r + later) \div Div)
    BY <1>1, <2>1, DivTwice
  <2>4. CASE sync[2] /\ syncMode[2] = "Stop"
    BY <2>4 DEF Timer2Clocks
  <2>5. CASE ~(sync[2] /\ syncMode[2] = "Stop") /\ source[2] = "system"
    BY <2>5 DEF Timer2Clocks
  <2>6. CASE ~(sync[2] /\ syncMode[2] = "Stop") /\ source[2] # "system"
    <3>1. /\ Timer2Clocks(phase, elapsed + later) = (phase + (elapsed + later)) \div Div
          /\ Timer2Clocks(phase, elapsed) = n
          /\ Timer2Clocks(Now, later) = (r + later) \div Div
      BY <2>2, <2>6 DEF Timer2Clocks, a
    <3> QED BY <2>1, <2>3, <3>1
  <2> QED BY <2>4, <2>5, <2>6
<1>7. CASE i = 2
  BY <1>6, <1>7, Zenon DEF OwnClocks
<1>8. CASE i # 2 /\ source[i] = "system"
  BY <1>8, Zenon DEF OwnClocks
<1>9. CASE i # 2 /\ source[i] # "system"
  <2>1. /\ OwnClocks(i, video, phase, elapsed + later) = IF i = 0 THEN all.dots ELSE all.retraces
        /\ OwnClocks(i, video, phase, elapsed) = IF i = 0 THEN p.dots ELSE p.retraces
        /\ OwnClocks(i, p.video, Now, later) = IF i = 0 THEN q.dots ELSE q.retraces
    BY <1>9, Zenon DEF OwnClocks, all, p, q
  <2>2. OwnClocks(i, video, phase, elapsed + later)
          = OwnClocks(i, video, phase, elapsed) + OwnClocks(i, p.video, Now, later)
    BY <1>5, <2>1, Zenon
  <2> QED BY <2>2 DEF p
<1> QED BY <1>7, <1>8, <1>9

LEMMA CatchUpTwice ==
  ASSUME Placed, ~sync[0], ~sync[1], \A i \in Indices : ~CountsToggles(timer[i]),
         NEW later \in Nat
  PROVE  CatchUp(CaughtUp.video, CaughtUp.timer, Now, later)
           = CatchUp(video, timer, phase, elapsed + later)
<1>1. /\ video \in Videos /\ timer \in [Indices -> Timers] /\ elapsed \in Nat /\ phase \in Nat
      /\ Now \in Nat
  BY NowTyped DEF Placed
<1> DEFINE p == Caught(video, elapsed)
           q == Caught(p.video, later)
           all == Caught(video, elapsed + later)
           N(i) == OwnClocks(i, video, phase, elapsed)
           M(i) == OwnClocks(i, p.video, Now, later)
           u == [i \in Indices |-> Clock(timer[i], N(i))]
<1>2. CaughtUp = [video |-> p.video, sync |-> sync, timer |-> u]
  BY <1>1, CatchUpForm DEF CaughtUp
<1>3. p.video \in Videos /\ q \in Walks(p.video) /\ p.dots \in Nat /\ p.retraces \in Nat
  BY <1>1, CaughtTyped
<1>4. ASSUME NEW i \in Indices
      PROVE  /\ N(i) \in Nat /\ M(i) \in Nat
             /\ OwnClocks(i, video, phase, elapsed + later) = N(i) + M(i)
             /\ timer[i] \in PulseTimers
  <2>1. N(i) \in Nat
    BY <1>1, OwnClocksTyped
  <2>2. M(i) \in Nat
    <3> HIDE DEF p
    <3> QED BY <1>1, <1>3, OwnClocksTyped
  <2>3. OwnClocks(i, video, phase, elapsed + later) = N(i) + M(i)
    BY OwnClocksAdd
  <2>4. timer[i] \in PulseTimers
    BY <1>1 DEF PulseTimers
  <2> QED BY <2>1, <2>2, <2>3, <2>4
<1>5. all.video = q.video
  <2>1. PICK d, r : d = p.dots /\ r = p.retraces
    OBVIOUS
  <2>2. d \in Nat /\ r \in Nat
    BY <1>3, <2>1
  <2>3. Counted(q, d, r).video = q.video
    <3> HIDE DEF p, q
    <3> QED BY <1>3, <2>2, CountedTyped
  <2>4. all = Counted(q, p.dots, p.retraces)
    BY <1>1, CaughtTwice
  <2> HIDE DEF all, p, q
  <2> QED BY <2>1, <2>3, <2>4
<1> HIDE DEF p, N, M
<1>6. u \in [Indices -> Timers] /\ \A i \in Indices : u[i] = Clock(timer[i], N(i))
  <2>1. ASSUME NEW i \in Indices PROVE Clock(timer[i], N(i)) \in Timers
    BY <1>1, <1>4, ClockTyped
  <2> QED BY <2>1
<1> HIDE DEF u
<1>7. CatchUp(p.video, u, Now, later)
        = [video |-> q.video, sync |-> sync, timer |-> [i \in Indices |-> Clock(u[i], M(i))]]
  BY <1>6, CatchUpForm DEF M
<1>8. CatchUp(video, timer, phase, elapsed + later)
        = [video |-> all.video, sync |-> sync,
           timer |-> [i \in Indices |->
                        Clock(timer[i], OwnClocks(i, video, phase, elapsed + later))]]
  BY <1>1, CatchUpForm
<1>9. ASSUME NEW i \in Indices
      PROVE  Clock(u[i], M(i)) = Clock(timer[i], OwnClocks(i, video, phase, elapsed + later))
  <2>1. Clock(Clock(timer[i], N(i)), M(i)) = Clock(timer[i], N(i) + M(i))
    BY <1>4, ClocksAdd
  <2> QED BY <1>4, <1>6, <2>1
<1>10. [i \in Indices |-> Clock(u[i], M(i))]
         = [i \in Indices |-> Clock(timer[i], OwnClocks(i, video, phase, elapsed + later))]
  BY <1>9, Zenon
<1>11. CatchUp(p.video, u, Now, later) = CatchUp(video, timer, phase, elapsed + later)
  <2> HIDE DEF all, q
  <2> QED BY <1>5, <1>7, <1>8, <1>10, Zenon
<1> QED BY <1>2, <1>11

\* How often a program reads a timer or GPUSTAT does not change what it reads
\* (timers.rs:620-717): the rest of the clocks' ratio, of the dot clock and of
\* timer 2's divider is kept from one catch_up to the next.
THEOREM ReadsAreHarmless == Spec => []ReadsDoNotDisturb
<1>1. TimersInvariant => ReadsDoNotDisturb
  <2> SUFFICES ASSUME TimersInvariant, ~sync[0], ~sync[1],
                      \A i \in Indices : ~CountsToggles(timer[i]), NEW later \in Spans
               PROVE  CatchUp(CaughtUp.video, CaughtUp.timer, Now, later)
                        = CatchUp(video, timer, phase, elapsed + later)
    BY Zenon DEF ReadsDoNotDisturb
  <2>1. later \in Nat /\ Placed
    BY TimersAssumptions DEF TimersInvariant
  <2> QED BY <2>1, CatchUpTwice
<1> QED BY <1>1, InvariantHolds, PTL
-----------------------------------------------------------------------------
(***************************************************************************)
(* VBlank.  The delay that schedule_next_vblank computes counts down with  *)
(* every cycle of the video clock, until that is at the start of line y2.  *)
(***************************************************************************)
\* What the lines have together: a line's cycles, and the half ones of NTSC.
LineTotal(m, from, end) ==
  (end - from) * LineCycles[m]
    + (IF m = "Ntsc" THEN (end \div 2) - (from \div 2) ELSE 0)

WholeLine(m, y) == LineCycles[m] + ExtraCycle(m, y)

LEMMA LineTotalStep ==
  ASSUME NEW m \in VideoModes, NEW y \in Nat, NEW end \in Nat, y < end
  PROVE  /\ LineTotal(m, y, end) \in Nat
         /\ LineTotal(m, y, end) = WholeLine(m, y) + LineTotal(m, y + 1, end)
<1> DEFINE c == LineCycles[m]
           a == y \div 2
           b == (y + 1) \div 2
           e == end \div 2
           k == end - (y + 1)
<1>1. c \in Nat /\ k \in Nat /\ end - y = k + 1
  BY LineTyped
<1>2. a \in Nat /\ b \in Nat /\ e \in Nat /\ a <= e /\ y % 2 \in 0..1 /\ b = a + (y % 2)
  BY Z3
<1>3. (k + 1) * c = k * c + c /\ k * c \in Nat
  <2> HIDE DEF k, c
  <2> QED BY <1>1, SMT
<1>4. /\ LineTotal(m, y, end) = (k + 1) * c + (IF m = "Ntsc" THEN e - a ELSE 0)
      /\ LineTotal(m, y + 1, end) = k * c + (IF m = "Ntsc" THEN e - b ELSE 0)
  BY <1>1 DEF LineTotal
<1>5. WholeLine(m, y) = c + (IF m = "Ntsc" THEN y % 2 ELSE 0)
  BY DEF WholeLine, ExtraCycle
<1> DEFINE p == k * c
           q == (k + 1) * c
           r == y % 2
<1>6. p \in Nat /\ q = p + c /\ r \in 0..1
  BY <1>2, <1>3
<1> HIDE DEF p, q, r, a, b, c, e, k
<1>7. CASE m = "Ntsc"
  <2>1. /\ LineTotal(m, y, end) = q + (e - a) /\ LineTotal(m, y + 1, end) = p + (e - b)
        /\ WholeLine(m, y) = c + r /\ b = a + r
    BY <1>2, <1>4, <1>5, <1>7 DEF p, q, r
  <2> QED BY <1>1, <1>2, <1>6, <2>1
<1>8. CASE m # "Ntsc"
  <2>1. /\ LineTotal(m, y, end) = q + 0 /\ LineTotal(m, y + 1, end) = p + 0
        /\ WholeLine(m, y) = c + 0
    BY <1>4, <1>5, <1>8 DEF p, q
  <2> QED BY <1>1, <1>6, <2>1
<1> QED BY <1>7, <1>8

LEMMA CyclesOfLinesIs ==
  ASSUME NEW m \in VideoModes, NEW end \in Nat
  PROVE  /\ CyclesOfLines(m, end, end) = 0
         /\ \A y \in 0..end : y < end =>
              CyclesOfLines(m, y, end) = WholeLine(m, y) + CyclesOfLines(m, y + 1, end)
<1> DEFINE f == CHOOSE f : f = [y \in 0..end |->
                  IF y = end THEN 0 ELSE LineCycles[m] + ExtraCycle(m, y) + f[y + 1]]
<1>1. \E g : g = [y \in 0..end |->
                  IF y = end THEN 0 ELSE LineCycles[m] + ExtraCycle(m, y) + g[y + 1]]
  <2>1. PICK g : g = [y \in 0..end |-> IF y = end THEN 0 ELSE LineTotal(m, y, end)]
    OBVIOUS
  <2>2. ASSUME NEW y \in 0..end, y # end
        PROVE  g[y] = LineCycles[m] + ExtraCycle(m, y) + g[y + 1]
    <3>1. y < end /\ y \in Nat /\ y + 1 \in 0..end
      BY <2>2
    <3>2. g[y] = WholeLine(m, y) + LineTotal(m, y + 1, end)
      BY <2>1, <2>2, <3>1, LineTotalStep
    <3>3. g[y + 1] = LineTotal(m, y + 1, end)
      <4>1. CASE y + 1 = end
        <5>1. LineTotal(m, end, end) = 0
          <6>1. end - end = 0 /\ LineCycles[m] \in Nat /\ end \div 2 \in Int
            BY LineTyped, Z3
          <6>2. (end \div 2) - (end \div 2) = 0
            BY <6>1
          <6>3. 0 * LineCycles[m] = 0
            BY <6>1
          <6> QED BY <6>1, <6>2, <6>3 DEF LineTotal
        <5> QED BY <2>1, <3>1, <4>1, <5>1
      <4>2. CASE y + 1 # end
        BY <2>1, <3>1, <4>2
      <4> QED BY <4>1, <4>2
    <3> QED BY <3>2, <3>3 DEF WholeLine
  <2> QED BY <2>1, <2>2
<1>2. f = [y \in 0..end |-> IF y = end THEN 0 ELSE LineCycles[m] + ExtraCycle(m, y) + f[y + 1]]
  BY <1>1
<1>3. \A y : CyclesOfLines(m, y, end) = f[y]
  BY DEF CyclesOfLines
<1> HIDE DEF f
<1>4. f[end] = 0
  BY <1>2
<1>5. \A y \in 0..end : y < end => f[y] = LineCycles[m] + ExtraCycle(m, y) + f[y + 1]
  BY <1>2
<1> QED BY <1>3, <1>4, <1>5 DEF WholeLine

LEMMA CyclesOfLinesTyped ==
  ASSUME NEW m \in VideoModes, NEW end \in Nat, NEW y \in 0..end
  PROVE  CyclesOfLines(m, y, end) \in Nat
<1> DEFINE S == {i \in 0..end : CyclesOfLines(m, end - i, end) \in Nat}
<1>1. 0 \in S
  <2>1. end - 0 = end
    OBVIOUS
  <2> QED BY <2>1, CyclesOfLinesIs
<1>2. \A i \in 0..end : i \in S /\ i < end => i + 1 \in S
  <2> TAKE i \in 0..end
  <2> HAVE i \in S /\ i < end
  <2>1. PICK z \in 0..end : z = end - (i + 1)
    OBVIOUS
  <2>2. z < end /\ z \in Nat /\ z + 1 = end - i
    BY <2>1
  <2>3. CyclesOfLines(m, z, end) = WholeLine(m, z) + CyclesOfLines(m, z + 1, end)
    BY <2>2, CyclesOfLinesIs
  <2>4. CyclesOfLines(m, z + 1, end) \in Nat
    BY <2>2
  <2>5. WholeLine(m, z) \in Nat
    BY <2>2, LineTyped DEF WholeLine
  <2>6. CyclesOfLines(m, z, end) \in Nat
    BY <2>3, <2>4, <2>5
  <2> QED BY <2>1, <2>6
<1>3. \A i \in 0..end : i \in S
  <2> HIDE DEF S
  <2> QED BY <1>1, <1>2, UpTo
<1>4. end - y \in 0..end /\ end - (end - y) = y
  OBVIOUS
<1> QED BY <1>3, <1>4

\* The range ends with a line of the frame.
InFrame(v) == v.y2 < Lines[v.mode][v.interlaced]

\* The cycles of the lines between this one and line y2.
LinesAhead(v) ==
  LET last == Lines[v.mode][v.interlaced] - 1
      from == IF v.line < v.y2 THEN v.line + 1 ELSE 0
      lastLine == IF v.interlaced THEN LineCycles[v.mode] \div 2 ELSE LineCycles[v.mode]
  IN  CyclesOfLines(v.mode, from, v.y2)
        + (IF v.line >= v.y2 /\ v.line # last
           THEN lastLine + CyclesOfLines(v.mode, v.line + 1, last) ELSE 0)

LEMMA UntilVBlankForm ==
  ASSUME NEW v \in Videos
  PROVE  /\ LinesAhead(v) \in Nat
         /\ CyclesUntilVBlank(v) = (CyclesInLine(v) - v.cycle) + LinesAhead(v)
<1> DEFINE last == Lines[v.mode][v.interlaced] - 1
           from == IF v.line < v.y2 THEN v.line + 1 ELSE 0
           lastLine == IF v.interlaced THEN LineCycles[v.mode] \div 2 ELSE LineCycles[v.mode]
           a == CyclesOfLines(v.mode, from, v.y2)
           b == IF v.line >= v.y2 /\ v.line # last
                THEN lastLine + CyclesOfLines(v.mode, v.line + 1, last) ELSE 0
<1>1. /\ v.mode \in VideoModes /\ v.interlaced \in BOOLEAN /\ v.line \in Nat /\ v.y2 \in Nat
      /\ v.cycle \in Nat /\ v.line < Lines[v.mode][v.interlaced]
  BY DEF Videos, VideoRecords
<1>2. Lines[v.mode][v.interlaced] \in Nat \ {0} /\ CyclesInLine(v) \in Nat
  BY <1>1, LinesTyped, CyclesTyped
<1>3. a \in Nat
  <2>1. from \in 0..v.y2
    BY <1>1
  <2> HIDE DEF from
  <2> QED BY <1>1, <2>1, CyclesOfLinesTyped
<1>4. b \in Nat
  <2>1. CASE v.line >= v.y2 /\ v.line # last
    <3>1. last \in Nat /\ v.line + 1 \in 0..last
      BY <1>1, <1>2, <2>1
    <3>2. CyclesOfLines(v.mode, v.line + 1, last) \in Nat
      <4> HIDE DEF last
      <4>1. PICK y \in 0..last : y = v.line + 1
        BY <3>1
      <4>2. CyclesOfLines(v.mode, y, last) \in Nat
        BY <1>1, <3>1, CyclesOfLinesTyped
      <4> QED BY <4>1, <4>2
    <3>3. lastLine \in Nat
      BY <1>1, LineTyped
    <3> HIDE DEF last, lastLine
    <3> QED BY <2>1, <3>2, <3>3
  <2> QED BY <2>1
<1>5. LinesAhead(v) = a + b
  BY Zenon DEF LinesAhead
<1>6. CyclesUntilVBlank(v) = CyclesInLine(v) - v.cycle + a + b
  BY Zenon DEF CyclesUntilVBlank
<1> HIDE DEF a, b
<1> QED BY <1>1, <1>2, <1>3, <1>4, <1>5, <1>6

\* A line further, there is one line less.
LEMMA LinesAheadStep ==
  ASSUME NEW v \in Videos, InFrame(v), NEW w \in Videos, SameMode(v, w), w.y2 = v.y2,
         w.line = IF v.line + 1 >= Lines[v.mode][v.interlaced] THEN 0 ELSE v.line + 1
  PROVE  LinesAhead(v) = IF w.line = v.y2 THEN 0 ELSE CyclesInLine(w) + LinesAhead(w)
<1> DEFINE m == v.mode
           b == v.interlaced
           all == Lines[m][b]
           last == all - 1
           From(l) == IF l < v.y2 THEN l + 1 ELSE 0
           lastLine == IF b THEN LineCycles[m] \div 2 ELSE LineCycles[m]
           Sum(from, end) == CyclesOfLines(m, from, end)
           Tail(l) == IF l >= v.y2 /\ l # last THEN lastLine + Sum(l + 1, last) ELSE 0
<1>1. /\ m \in VideoModes /\ b \in BOOLEAN /\ v.line \in Nat /\ v.y2 \in Nat
      /\ v.line < all /\ w.line \in Nat /\ w.line < all /\ w.mode = m /\ w.interlaced = b
  BY DEF Videos, VideoRecords, SameMode
<1>2. all \in Nat \ {0} /\ v.y2 < all
  BY <1>1, LinesTyped DEF InFrame
<1>3. /\ LinesAhead(v) = Sum(From(v.line), v.y2) + Tail(v.line)
      /\ LinesAhead(w) = Sum(From(w.line), v.y2) + Tail(w.line)
  BY <1>1, Zenon DEF LinesAhead
<1>4. /\ lastLine \in Nat /\ \A y \in Nat : WholeLine(m, y) \in Nat
  BY <1>1, LineTyped DEF WholeLine
<1>5. ASSUME NEW end \in Nat, NEW y \in 0..end
      PROVE  /\ Sum(y, end) \in Nat /\ Sum(end, end) = 0
             /\ y < end => Sum(y, end) = WholeLine(m, y) + Sum(y + 1, end)
  BY <1>1, CyclesOfLinesTyped, CyclesOfLinesIs
<1>6. CyclesInLine(w) = IF w.line = last THEN lastLine ELSE WholeLine(m, w.line)
  <2>1. CyclesInLine(w) = (IF b /\ w.line = Lines[m][TRUE] - 1
                           THEN LineCycles[m] \div 2 ELSE LineCycles[m]) + ExtraCycle(m, w.line)
    BY <1>1, Zenon DEF CyclesInLine
  <2>2. CASE w.line = last
    <3>1. ExtraCycle(m, w.line) = 0
      <4>1. m = "Ntsc" => all % 2 = 1
        BY <1>1, VBlankAssumptions
      <4>2. all % 2 = 1 => (all - 1) % 2 = 0
        <5> HIDE DEF all
        <5> QED BY <1>2, Z3
      <4> QED BY <2>2, <4>1, <4>2 DEF ExtraCycle
    <3>2. b => Lines[m][TRUE] = all
      BY <1>1, Zenon
    <3>3. CyclesInLine(w) = lastLine + 0
      BY <2>1, <2>2, <3>1, <3>2, Zenon
    <3> HIDE DEF lastLine
    <3> QED BY <1>4, <2>2, <3>3
  <2>3. CASE w.line # last
    <3>1. b => Lines[m][TRUE] = all
      BY <1>1, Zenon
    <3>2. CyclesInLine(w) = LineCycles[m] + ExtraCycle(m, w.line)
      BY <2>1, <2>3, <3>1, Zenon
    <3> QED BY <2>3, <3>2, Zenon DEF WholeLine
  <2> QED BY <2>2, <2>3
<1>7. w.line = IF v.line = last THEN 0 ELSE v.line + 1
  BY <1>1, <1>2
<1>8. last \in Nat /\ v.y2 <= last /\ v.line <= last
  BY <1>1, <1>2
<1> DEFINE y2 == v.y2
           l == v.line
           k == w.line
<1> HIDE DEF all, last, lastLine, Sum, m, b
<1>9. CASE l < y2
  <2>1. l # last /\ k = l + 1 /\ Sum(From(l), y2) = Sum(k, y2) /\ Tail(l) = 0 /\ k \in 0..y2
    BY <1>1, <1>7, <1>8, <1>9
  <2>2. Sum(k, y2) \in Nat /\ Sum(y2, y2) = 0
    BY <1>1, <1>5, <2>1
  <2>3. CASE k = y2
    BY <1>3, <2>1, <2>2, <2>3
  <2>4. CASE k # y2
    <3>1. k < y2 /\ k # last /\ From(k) = k + 1 /\ Tail(k) = 0
      BY <1>1, <1>8, <2>1, <2>4
    <3>2. Sum(k, y2) = WholeLine(m, k) + Sum(k + 1, y2)
      BY <1>1, <1>5, <2>1, <3>1
    <3>3. k + 1 \in 0..y2 /\ Sum(k + 1, y2) \in Nat /\ WholeLine(m, k) \in Nat
      <4>1. k + 1 \in 0..y2
        BY <1>1, <2>1, <3>1
      <4>2. PICK y \in 0..y2 : y = k + 1
        BY <4>1
      <4>3. Sum(y, y2) \in Nat
        BY <1>1, <1>5
      <4> QED BY <1>1, <1>4, <4>1, <4>2, <4>3
    <3>4. CyclesInLine(w) = WholeLine(m, k)
      BY <1>6, <3>1
    <3>5. LinesAhead(w) = Sum(k + 1, y2) + 0 /\ LinesAhead(v) = Sum(k, y2) + 0
      BY <1>3, <2>1, <3>1
    <3> QED BY <2>4, <3>2, <3>3, <3>4, <3>5
  <2> QED BY <2>3, <2>4
<1>10. CASE l >= y2
  <2>1. From(l) = 0 /\ 0 \in 0..y2 /\ Sum(0, y2) \in Nat
    <3>1. 0 \in 0..y2 /\ ~(l < y2)
      BY <1>1, <1>10
    <3> QED BY <1>1, <1>5, <3>1
  <2>2. CASE l = last
    <3>1. k = 0 /\ LinesAhead(v) = Sum(0, y2) + 0
      BY <1>3, <1>7, <2>1, <2>2
    <3>2. CASE y2 = 0
      <4>1. Sum(0, y2) = 0
        BY <1>1, <1>5, <2>1, <3>2
      <4> QED BY <3>1, <3>2, <4>1
    <3>3. CASE y2 # 0
      <4>1. k < y2 /\ k # last /\ From(k) = 1 /\ Tail(k) = 0 /\ 1 \in 0..y2 /\ 0 + 1 = 1
        BY <1>1, <1>8, <3>1, <3>3
      <4>2. Sum(0, y2) = WholeLine(m, 0) + Sum(1, y2)
        BY <1>1, <1>5, <2>1, <3>1, <4>1
      <4>3. Sum(1, y2) \in Nat /\ WholeLine(m, 0) \in Nat
        BY <1>1, <1>4, <1>5, <4>1
      <4>4. CyclesInLine(w) = WholeLine(m, 0) /\ LinesAhead(w) = Sum(1, y2) + 0
        BY <1>3, <1>6, <3>1, <4>1
      <4> QED BY <3>1, <3>3, <4>2, <4>3, <4>4
    <3> QED BY <3>2, <3>3
  <2>3. CASE l # last
    <3>1. /\ k = l + 1 /\ k # y2 /\ k >= y2 /\ ~(k < y2) /\ k <= last /\ k \in 0..last
          /\ From(k) = 0
      BY <1>1, <1>7, <1>8, <1>10, <2>3
    <3>2. LinesAhead(v) = Sum(0, y2) + (lastLine + Sum(k, last))
      BY <1>3, <1>10, <2>1, <2>3, <3>1
    <3>3. Sum(k, last) \in Nat /\ Sum(last, last) = 0
      BY <1>5, <1>8, <3>1
    <3>4. CASE k = last
      <4>1. CyclesInLine(w) = lastLine /\ LinesAhead(w) = Sum(0, y2) + 0
        BY <1>3, <1>6, <3>1, <3>4
      <4> QED BY <1>4, <2>1, <3>1, <3>2, <3>3, <3>4, <4>1
    <3>5. CASE k # last
      <4>1. CyclesInLine(w) = WholeLine(m, k) /\ WholeLine(m, k) \in Nat
        BY <1>1, <1>4, <1>6, <3>5
      <4>2. k < last /\ k + 1 \in 0..last
        BY <1>1, <1>8, <3>1, <3>5
      <4>3. Sum(k, last) = WholeLine(m, k) + Sum(k + 1, last)
        BY <1>5, <1>8, <3>1, <4>2
      <4>4. Sum(k + 1, last) \in Nat
        <5>1. PICK y \in 0..last : y = k + 1
          BY <4>2
        <5>2. Sum(y, last) \in Nat
          BY <1>5, <1>8
        <5> QED BY <5>1, <5>2
      <4>5. LinesAhead(w) = Sum(0, y2) + (lastLine + Sum(k + 1, last))
        BY <1>3, <3>1, <3>5
      <4> QED BY <1>4, <2>1, <3>1, <3>2, <3>3, <4>1, <4>3, <4>4, <4>5
    <3> QED BY <3>4, <3>5
  <2> QED BY <2>2, <2>3
<1> QED BY <1>1, <1>9, <1>10

-----------------------------------------------------------------------------
\* A cycle of the video clock.
Ticked(v) == MovedTo(v, v.cycle + 1)

\* What the program has written of it.
SameDisplay(v, w) == w.y1 = v.y1 /\ w.y2 = v.y2 /\ SameMode(v, w)

NextLine(v) == IF v.line + 1 >= Lines[v.mode][v.interlaced] THEN 0 ELSE v.line + 1

LEMMA TickedForm ==
  ASSUME NEW v \in Videos
  PROVE  /\ Ticked(v) \in Videos /\ SameDisplay(v, Ticked(v))
         /\ Ticked(v).product = v.product
         /\ v.cycle + 1 < CyclesInLine(v)
              => Ticked(v).line = v.line /\ Ticked(v).cycle = v.cycle + 1
         /\ ~(v.cycle + 1 < CyclesInLine(v))
              => Ticked(v).line = NextLine(v) /\ Ticked(v).cycle = 0
<1>1. v.cycle \in Nat /\ v.line \in Nat /\ v.cycle + 1 \in Nat
  BY DEF Videos, VideoRecords
<1>2. CASE v.cycle + 1 < CyclesInLine(v)
  <2>1. PICK c : c = v.cycle + 1
    OBVIOUS
  <2>2. PICK w : w = [v EXCEPT !.cycle = c]
    BY Zenon
  <2>3. Ticked(v) = w
    BY <1>2, <2>1, <2>2, Zenon DEF Ticked, MovedTo
  <2>4. w \in Videos /\ SameMode(v, w)
    BY <1>1, <1>2, <2>1, <2>2, PlaceTyped
  <2>5. w.y1 = v.y1 /\ w.y2 = v.y2 /\ w.product = v.product /\ w.line = v.line /\ w.cycle = c
    BY <2>2 DEF Videos, VideoRecords
  <2> QED BY <1>2, <2>1, <2>3, <2>4, <2>5 DEF SameDisplay
<1>3. CASE ~(v.cycle + 1 < CyclesInLine(v))
  <2>1. PICK w : w = IncrementLine([v EXCEPT !.cycle = 0])
    BY Zenon
  <2>2. Ticked(v) = w
    BY <1>3, <2>1, Zenon DEF Ticked, MovedTo
  <2>3. w \in Videos /\ SameMode(v, w)
    BY <2>1, NextLineTyped
  <2>4. PICK l : l = NextLine(v)
    OBVIOUS
  <2>5. w = [v EXCEPT !.cycle = 0, !.line = l]
    BY <1>1, <2>1, <2>4 DEF IncrementLine, NextLine, Videos, VideoRecords
  <2>6. w.y1 = v.y1 /\ w.y2 = v.y2 /\ w.product = v.product /\ w.line = l /\ w.cycle = 0
    BY <2>5 DEF Videos, VideoRecords
  <2> QED BY <1>3, <2>2, <2>3, <2>4, <2>6 DEF SameDisplay
<1> QED BY <1>2, <1>3

\* A walk goes one tick further with each cycle.
LEMMA WalkTicks ==
  ASSUME NEW v \in Videos, NEW n \in Nat
  PROVE  /\ Walk(v, 0).video = v
         /\ Walk(v, n).video \in Videos
         /\ Walk(v, n + 1).video = Ticked(Walk(v, n).video)
<1>1. Walk(v, 0).video = v
  BY WalkZero
<1>2. PICK p : p = Walk(v, n)
  OBVIOUS
<1>3. p \in Walks(v) /\ p.left = 0 /\ p.video \in Videos
  BY <1>2, WalkLeft
<1>4. /\ More(p) \in Walks(v) /\ More(p).video = p.video /\ More(p).left = 1
  BY <1>3, MoreTyped
<1>5. Walk(v, n + 1) = LineStep(More(p))
  BY <1>2, WalkOn DEF CycleOn
<1>6. LineStep(More(p)).video = MovedTo(p.video, To(More(p)))
  BY <1>4, LineForm
<1>7. To(More(p)) = p.video.cycle + 1
  <2>1. /\ CyclesInLine(p.video) \in Nat \ {0} /\ p.video.cycle \in Nat
        /\ p.video.cycle < CyclesInLine(p.video)
    BY <1>3, WalkNumbers
  <2> QED BY <1>4, <2>1 DEF To
<1> QED BY <1>1, <1>2, <1>3, <1>5, <1>6, <1>7 DEF Ticked

LEMMA WalkDisplay ==
  ASSUME NEW v \in Videos
  PROVE  \A i \in Nat : SameDisplay(v, Walk(v, i).video)
<1> DEFINE W(i) == Walk(v, i).video
           S == {i \in Nat : SameDisplay(v, W(i))}
<1>1. 0 \in S
  <2>1. W(0) = v
    BY WalkTicks
  <2> QED BY <2>1 DEF SameDisplay, SameMode
<1>2. \A i \in Nat : i \in S => i + 1 \in S
  <2> TAKE i \in Nat
  <2> HAVE i \in S
  <2>1. SameDisplay(W(i), W(i + 1)) /\ SameDisplay(v, W(i))
    BY WalkTicks, TickedForm
  <2>2. SameDisplay(v, W(i + 1))
    <3> HIDE DEF W
    <3> QED BY <2>1 DEF SameDisplay, SameMode
  <2> QED BY <2>2
<1>3. \A i \in Nat : i \in S
  <2> HIDE DEF S
  <2> QED BY <1>1, <1>2, AllNumbers
<1> QED BY <1>3

\* A tick is one of the cycles that there are until the VBlank.
LEMMA VBlankNearer ==
  ASSUME NEW v \in Videos, InFrame(v)
  PROVE  /\ CyclesUntilVBlank(v) \in Nat \ {0}
         /\ IF CyclesUntilVBlank(v) = 1 THEN Ticked(v).line = v.y2 /\ Ticked(v).cycle = 0
            ELSE CyclesUntilVBlank(Ticked(v)) = CyclesUntilVBlank(v) - 1
<1> DEFINE w == Ticked(v)
           a == CyclesInLine(v)
<1>1. /\ w \in Videos /\ SameDisplay(v, w)
      /\ v.cycle + 1 < a => w.line = v.line /\ w.cycle = v.cycle + 1
      /\ ~(v.cycle + 1 < a) => w.line = NextLine(v) /\ w.cycle = 0
  BY TickedForm
<1>2. v.cycle \in Nat /\ a \in Nat /\ v.cycle < a
  BY CyclesTyped DEF Videos, VideoRecords
<1>3. /\ LinesAhead(v) \in Nat /\ CyclesUntilVBlank(v) = (a - v.cycle) + LinesAhead(v)
      /\ LinesAhead(w) \in Nat /\ CyclesUntilVBlank(w) = (CyclesInLine(w) - w.cycle) + LinesAhead(w)
  BY <1>1, UntilVBlankForm
<1> HIDE DEF w, a
<1>4. CyclesUntilVBlank(v) \in Nat \ {0}
  BY <1>2, <1>3
<1>5. CASE v.cycle + 1 < a
  <2>1. CyclesInLine(w) = a
    <3>1. w.line = v.line /\ w.mode = v.mode /\ w.interlaced = v.interlaced
      BY <1>1, <1>5 DEF SameDisplay, SameMode
    <3> QED BY <3>1, SameLine DEF a
  <2>2. LinesAhead(w) = LinesAhead(v)
    <3>1. /\ w.line = v.line /\ w.mode = v.mode /\ w.interlaced = v.interlaced
          /\ w.y2 = v.y2
      BY <1>1, <1>5 DEF SameDisplay, SameMode
    <3> QED BY <3>1, Zenon DEF LinesAhead
  <2>3. CyclesUntilVBlank(v) # 1 /\ CyclesUntilVBlank(w) = CyclesUntilVBlank(v) - 1
    BY <1>1, <1>2, <1>3, <1>5, <2>1, <2>2
  <2> QED BY <1>4, <2>3 DEF w
<1>6. CASE ~(v.cycle + 1 < a)
  <2>1. a - v.cycle = 1
    BY <1>2, <1>6
  <2>2. LinesAhead(v) = IF w.line = v.y2 THEN 0 ELSE CyclesInLine(w) + LinesAhead(w)
    <3>1. w.line = NextLine(v)
      BY <1>1, <1>6
    <3> QED BY <1>1, <3>1, LinesAheadStep DEF SameDisplay, NextLine
  <2>3. CyclesInLine(w) \in Nat \ {0}
    BY <1>1, CyclesTyped DEF Videos, VideoRecords
  <2>4. CASE w.line = v.y2
    <3>1. CyclesUntilVBlank(v) = 1 /\ w.cycle = 0
      BY <1>1, <1>3, <1>6, <2>1, <2>2, <2>4
    <3> QED BY <1>4, <2>4, <3>1 DEF w
  <2>5. CASE w.line # v.y2
    <3>1. CyclesUntilVBlank(v) = 1 + (CyclesInLine(w) + LinesAhead(w))
      BY <1>3, <2>1, <2>2, <2>5
    <3>2. CyclesUntilVBlank(w) = CyclesInLine(w) + LinesAhead(w)
      BY <1>1, <1>3, <1>6, <2>3
    <3>3. CyclesUntilVBlank(v) # 1 /\ CyclesUntilVBlank(w) = CyclesUntilVBlank(v) - 1
      BY <1>3, <2>3, <3>1, <3>2
    <3> QED BY <1>4, <3>3 DEF w
  <2> QED BY <2>4, <2>5
<1> QED BY <1>5, <1>6

HalfLine(v) == LineCycles[v.mode] \div 2

\* As many cycles later, and for half a line at least, it is line y2.
LEMMA VBlankReached ==
  ASSUME NEW v \in Videos, InFrame(v), NEW n \in Nat,
         CyclesUntilVBlank(v) <= n, n < CyclesUntilVBlank(v) + HalfLine(v)
  PROVE  Walk(v, n).video.line = v.y2
<1> DEFINE c == CyclesUntilVBlank(v)
           W(i) == Walk(v, i).video
           There(i) == W(i).line = v.y2 /\ W(i).cycle = i - c
           S == {i \in Nat : i < c => CyclesUntilVBlank(W(i)) = c - i}
           R == {i \in Nat : i < HalfLine(v) => There(c + i)}
<1>1. c \in Nat \ {0}
  BY VBlankNearer
<1>2. ASSUME NEW i \in Nat
      PROVE  /\ W(i) \in Videos /\ W(i + 1) = Ticked(W(i))
  BY WalkTicks
<1>3. \A i \in Nat : SameDisplay(v, W(i))
  BY WalkDisplay
<1>4. \A i \in Nat : InFrame(W(i)) /\ W(i).y2 = v.y2
  <2> HIDE DEF W
  <2> QED BY <1>3, Zenon DEF SameDisplay, SameMode, InFrame
<1>5. 0 \in S
  <2>1. W(0) = v
    BY WalkTicks
  <2> HIDE DEF W
  <2>2. CyclesUntilVBlank(W(0)) = c - 0
    BY <1>1, <2>1
  <2> QED BY <2>2
<1> HIDE DEF c, W
<1>6. \A i \in Nat : i \in S => i + 1 \in S
  <2> TAKE i \in Nat
  <2> HAVE i \in S
  <2>1. SUFFICES ASSUME i + 1 < c PROVE CyclesUntilVBlank(W(i + 1)) = c - (i + 1)
    OBVIOUS
  <2>2. CyclesUntilVBlank(W(i)) = c - i /\ c - i # 1
    BY <1>1, <2>1
  <2>3. CyclesUntilVBlank(Ticked(W(i))) = CyclesUntilVBlank(W(i)) - 1
    BY <1>2, <1>4, <2>2, VBlankNearer
  <2> QED BY <1>1, <1>2, <2>2, <2>3
<1>7. \A i \in Nat : i \in S
  <2> HIDE DEF S
  <2> QED BY <1>5, <1>6, AllNumbers
<1>8. 0 \in R
  <2>1. PICK i \in Nat : i = c - 1
    BY <1>1
  <2>2. i < c /\ c - i = 1 /\ i + 1 = c /\ c + 0 = c /\ c - c = 0
    BY <1>1, <2>1
  <2>3. CyclesUntilVBlank(W(i)) = 1
    BY <1>7, <2>2
  <2>4. Ticked(W(i)).line = v.y2 /\ Ticked(W(i)).cycle = 0
    BY <1>2, <1>4, <2>3, VBlankNearer
  <2>5. There(c)
    BY <1>2, <2>2, <2>4
  <2> HIDE DEF There
  <2> QED BY <2>2, <2>5
<1>9. HalfLine(v) \in Nat /\ \A i \in Nat : HalfLine(v) <= CyclesInLine(W(i)) /\ CyclesInLine(W(i)) \in Nat
  <2>1. v.mode \in VideoModes
    BY DEF Videos, VideoRecords
  <2>2. HalfLine(v) \in Nat /\ LineCycles[v.mode] \in Nat /\ HalfLine(v) <= LineCycles[v.mode]
    <3>1. LineCycles[v.mode] \in Nat
      BY <2>1, LineTyped
    <3>2. \A x \in Nat : x \div 2 \in Nat /\ x \div 2 <= x
      BY Z3
    <3> QED BY <3>1, <3>2 DEF HalfLine
  <2>3. ASSUME NEW i \in Nat PROVE HalfLine(v) <= CyclesInLine(W(i)) /\ CyclesInLine(W(i)) \in Nat
    <3>1. PICK w : w = W(i)
      OBVIOUS
    <3>2. w \in Videos /\ w.mode = v.mode
      BY <1>2, <1>3, <3>1 DEF SameDisplay, SameMode
    <3>3. w.line \in Nat /\ ExtraCycle(v.mode, w.line) \in Nat
      BY <2>1, <3>2, LineTyped DEF Videos, VideoRecords
    <3>4. \/ CyclesInLine(w) = HalfLine(v) + ExtraCycle(v.mode, w.line)
          \/ CyclesInLine(w) = LineCycles[v.mode] + ExtraCycle(v.mode, w.line)
      BY <3>2, Zenon DEF CyclesInLine, HalfLine
    <3> QED BY <2>2, <3>1, <3>3, <3>4
  <2> QED BY <2>2, <2>3
<1>10. \A i \in Nat : i \in R => i + 1 \in R
  <2> TAKE i \in Nat
  <2> HAVE i \in R
  <2>1. SUFFICES ASSUME i + 1 < HalfLine(v) PROVE There(c + (i + 1))
    <3> HIDE DEF There
    <3> QED OBVIOUS
  <2>2. PICK k \in Nat : k = c + i
    BY <1>1
  <2>3. k + 1 = c + (i + 1) /\ k - c = i /\ (k + 1) - c = i + 1
    BY <1>1, <2>2
  <2>4. i < HalfLine(v)
    BY <1>9, <2>1
  <2>5. W(k).line = v.y2 /\ W(k).cycle = i
    BY <2>2, <2>3, <2>4
  <2>6. W(k).cycle + 1 < CyclesInLine(W(k))
    BY <1>9, <2>1, <2>5
  <2>7. W(k) \in Videos
    BY <1>2
  <2>8. Ticked(W(k)).line = v.y2 /\ Ticked(W(k)).cycle = i + 1
    BY <2>5, <2>6, <2>7, TickedForm
  <2>9. W(k + 1) = Ticked(W(k))
    BY <1>2
  <2> QED BY <2>3, <2>8, <2>9
<1>11. \A i \in Nat : i \in R
  <2> HIDE DEF R
  <2> QED BY <1>8, <1>10, AllNumbers
<1>12. PICK i \in Nat : i = n - c
  BY <1>1 DEF c
<1>13. i < HalfLine(v) /\ c + i = n
  BY <1>1, <1>9, <1>12 DEF c
<1>14. There(n)
  <2> HIDE DEF There
  <2> QED BY <1>11, <1>13
<1> QED BY <1>14 DEF W

-----------------------------------------------------------------------------
\* Within a line, the video clock is as many cycles further.
LEMMA WithinLine ==
  ASSUME NEW v \in Videos, NEW k \in Nat, v.cycle + k <= CyclesInLine(v)
  PROVE  Walk(v, k).video = MovedTo(v, v.cycle + k)
<1> DEFINE end == CyclesInLine(v)
           S == {i \in Nat : v.cycle + i <= end => Walk(v, i).video = MovedTo(v, v.cycle + i)}
<1>1. v.cycle \in Nat /\ end \in Nat /\ v.cycle < end
  BY CyclesTyped DEF Videos, VideoRecords
<1>2. 0 \in S
  <2>1. [v EXCEPT !.cycle = v.cycle] = v
    BY DEF Videos, VideoRecords
  <2>2. MovedTo(v, v.cycle) = v
    BY <1>1, <2>1, Zenon DEF MovedTo
  <2>3. v.cycle + 0 = v.cycle
    BY <1>1
  <2>4. Walk(v, 0).video = v
    BY WalkZero
  <2> QED BY <2>2, <2>3, <2>4
<1>3. \A i \in Nat : i \in S => i + 1 \in S
  <2> TAKE i \in Nat
  <2> HAVE i \in S
  <2>1. SUFFICES ASSUME v.cycle + (i + 1) <= end
                 PROVE  Walk(v, i + 1).video = MovedTo(v, v.cycle + (i + 1))
    OBVIOUS
  <2>2. PICK a : a = v.cycle + i
    OBVIOUS
  <2>3. a < end /\ a <= end /\ a + 1 = v.cycle + (i + 1)
    BY <1>1, <2>1, <2>2
  <2>4. PICK x : x = Walk(v, i).video
    OBVIOUS
  <2>5. x = MovedTo(v, a)
    BY <2>2, <2>3, <2>4
  <2>6. x = [v EXCEPT !.cycle = a]
    BY <2>3, <2>5, Zenon DEF MovedTo
  <2>7. x.cycle = a /\ MovedTo(x, a + 1) = MovedTo(v, a + 1)
    BY <2>6, CycleOnly
  <2>8. Walk(v, i + 1).video = Ticked(x)
    BY <2>4, WalkTicks
  <2> QED BY <2>3, <2>7, <2>8 DEF Ticked
<1>4. \A i \in Nat : i \in S
  <2> HIDE DEF S
  <2> QED BY <1>2, <1>3, AllNumbers
<1> QED BY <1>4

\* Timers that are reset or go on do not move the video clock.
LEMMA AtBlankMovesNothing ==
  ASSUME NEW p, {"video", "left"} \subseteq DOMAIN p, NEW h, NEW e
  PROVE  AtBlank(p, h, e).video = p.video /\ AtBlank(p, h, e).left = p.left
<1>1. ASSUME NEW i
      PROVE  BlankStart(p, i).video = p.video /\ BlankStart(p, i).left = p.left
  <2>1. ResetTimer(p, i).video = p.video /\ ResetTimer(p, i).left = p.left
    <3> DEFINE own == IF i = 0 THEN p.dots ELSE p.retraces
    <3>1. PICK now : now = Clock(p.timer[i], Clocks(i, own, p.gpu[i], p.video.mode))
      OBVIOUS
    <3>2. ResetTimer(p, i) =
            [p EXCEPT !.timer[i] = [now EXCEPT !.counter = 0], !.gpu[i] = 0,
                      !.dots = IF i = 0 THEN 0 ELSE @, !.retraces = IF i = 1 THEN 0 ELSE @]
      BY <3>1, Zenon DEF ResetTimer
    <3> QED BY <3>2
  <2>2. [p EXCEPT !.sync[i] = FALSE].video = p.video /\ [p EXCEPT !.sync[i] = FALSE].left = p.left
    OBVIOUS
  <2>3. \/ BlankStart(p, i) = p \/ BlankStart(p, i) = ResetTimer(p, i)
        \/ BlankStart(p, i) = [p EXCEPT !.sync[i] = FALSE]
    BY Zenon DEF BlankStart
  <2> QED BY <2>1, <2>2, <2>3
<1>2. \/ AtBlank(p, h, e) = p \/ AtBlank(p, h, e) = BlankStart(p, 0)
      \/ AtBlank(p, h, e) = BlankStart(p, 1)
  BY Zenon DEF AtBlank
<1> QED BY <1>1, <1>2

\* A stretch of a line is a walk of that many cycles.
LEMMA SyncStepWalks ==
  ASSUME NEW t \in [Indices -> Timers], NEW on, NEW w, NEW cycles \in Nat,
         NEW p \in SyncWalks(t, on, w, cycles), p.left # 0
  PROVE  \E k \in 1..p.left : /\ SyncStep(p).left = p.left - k
                              /\ SyncStep(p).video = Walk(p.video, k).video
<1> DEFINE v == p.video
           segment == Segment(v)
           to == IF v.cycle + p.left < segment.to THEN v.cycle + p.left ELSE segment.to
           n == to - v.cycle
           runs0 == ~IsTimerPaused(p.sync[0], syncMode[0], segment.blank)
           runs1 == ~IsTimerPaused(p.sync[1], syncMode[1], InVBlank(v))
           lineEnds == to = CyclesInLine(v)
           next == IF lineEnds THEN IncrementLine([v EXCEPT !.cycle = 0]) ELSE [v EXCEPT !.cycle = to]
           dots == p.dots + (IF runs0 THEN to \div v.divider - v.cycle \div v.divider ELSE 0)
           retraces == p.retraces + (IF runs1 /\ lineEnds THEN 1 ELSE 0)
           gpu == [i \in 0..1 |-> p.gpu[i] + IF (i = 0 /\ runs0) \/ (i = 1 /\ runs1) THEN n ELSE 0]
<1>1. p \in [video : Videos, timer : [Indices -> Timers], sync : [Indices -> BOOLEAN],
             left : 0..cycles, dots : Nat, retraces : Nat, gpu : [0..1 -> Nat]]
  BY Zenon DEF SyncWalks
<1>2. v \in Videos /\ v.cycle \in Nat /\ p.left \in Nat /\ CyclesInLine(v) \in Nat
  BY <1>1, CyclesTyped DEF Videos, VideoRecords
<1>3. segment.to \in Nat /\ v.cycle < segment.to /\ segment.to <= CyclesInLine(v)
  BY <1>2, SegmentTyped
<1>4. to \in Nat /\ to <= CyclesInLine(v) /\ n \in 1..p.left /\ v.cycle + n = to
  <2> HIDE DEF v, segment
  <2> QED BY <1>2, <1>3
<1>5. PICK q : q = [p EXCEPT !.video = next, !.left = @ - n, !.dots = dots,
                             !.retraces = retraces, !.gpu = gpu]
  OBVIOUS
<1>6. SyncStep(p) = AtBlank(q, ~segment.blank /\ to = v.x2, lineEnds)
  <2>1. q = [p EXCEPT !.video = next, !.left = @ - n,
                      !.dots = @ + (IF runs0 THEN to \div v.divider - v.cycle \div v.divider ELSE 0),
                      !.retraces = @ + (IF runs1 /\ lineEnds THEN 1 ELSE 0),
                      !.gpu = [i \in 0..1 |->
                                 @[i] + IF (i = 0 /\ runs0) \/ (i = 1 /\ runs1) THEN n ELSE 0]]
    <3> HIDE DEF next, n, to, v, runs0, runs1, lineEnds
    <3> QED BY <1>1, <1>5
  <2> QED BY <2>1, Zenon DEF SyncStep
<1>7. q.video = next /\ q.left = p.left - n /\ {"video", "left"} \subseteq DOMAIN q
  <2> HIDE DEF next, n, dots, retraces, gpu
  <2> QED BY <1>1, <1>5
<1>8. SyncStep(p).video = next /\ SyncStep(p).left = p.left - n
  BY <1>6, <1>7, AtBlankMovesNothing
<1>9. next = MovedTo(v, to)
  <2>1. CASE lineEnds
    BY <1>2, <2>1 DEF MovedTo
  <2>2. CASE ~lineEnds
    <3>1. to < CyclesInLine(v)
      <4> HIDE DEF to, v
      <4> QED BY <1>2, <1>4, <2>2
    <3> QED BY <2>2, <3>1, Zenon DEF MovedTo
  <2> QED BY <2>1, <2>2
<1>10. Walk(v, n).video = MovedTo(v, to)
  <2> HIDE DEF v, n, to
  <2>1. n \in Nat
    BY <1>2, <1>4
  <2>2. v.cycle + n <= CyclesInLine(v)
    BY <1>4
  <2> QED BY <1>2, <1>4, <2>1, <2>2, WithinLine
<1> HIDE DEF next, n
<1> QED BY <1>4, <1>8, <1>9, <1>10

LEMMA CountedVideo ==
  ASSUME NEW w, NEW p \in Walks(w), NEW d, NEW r
  PROVE  Counted(p, d, r).video = p.video
BY DEF Counted, Walks

\* Synchronization moves the video clock as far as a walk without.
LEMMA SyncWalkVideo ==
  ASSUME NEW t \in [Indices -> Timers], NEW v \in Videos, NEW cycles \in Nat,
         sync \in [Indices -> BOOLEAN]
  PROVE  SyncWalk(v, t, cycles).video = Walk(v, cycles).video
<1>1. PICK f : IsSyncWalk(f, v, t, cycles)
  BY SyncWalkSteps, Zenon DEF HasSyncWalk
<1> DEFINE S == {i \in 0..cycles : /\ f[i].left <= cycles - i
                                   /\ f[i].video = Walk(v, cycles - f[i].left).video}
<1>2. ASSUME NEW i \in 0..cycles
      PROVE  /\ f[i] \in SyncWalks(t, sync, v, cycles) /\ f[i].left \in 0..cycles
             /\ i < cycles => f[i + 1] = SyncStep(f[i])
  <2>1. f[i] \in SyncWalks(t, sync, v, cycles) /\ (i < cycles => f[i + 1] = SyncStep(f[i]))
    BY <1>1 DEF IsSyncWalk
  <2>2. f[i].left \in 0..cycles
    BY <2>1 DEF SyncWalks
  <2> QED BY <2>1, <2>2
<1>3. 0 \in S
  <2>1. f[0].video = v /\ f[0].left = cycles
    BY <1>1 DEF IsSyncWalk
  <2>2. cycles - cycles = 0 /\ cycles - 0 = cycles
    OBVIOUS
  <2>3. Walk(v, 0).video = v
    BY WalkZero
  <2> QED BY <2>1, <2>2, <2>3
<1>4. \A i \in 0..cycles : i \in S /\ i < cycles => i + 1 \in S
  <2> TAKE i \in 0..cycles
  <2> HAVE i \in S /\ i < cycles
  <2>1. PICK p : p = f[i]
    OBVIOUS
  <2>2. /\ p \in SyncWalks(t, sync, v, cycles) /\ p.left \in 0..cycles /\ f[i + 1] = SyncStep(p)
        /\ p.left <= cycles - i /\ p.video = Walk(v, cycles - p.left).video
    BY <1>2, <2>1
  <2>3. i + 1 \in 0..cycles
    OBVIOUS
  <2>4. CASE p.left = 0
    <3>1. SyncStep(p) = p
      BY <2>4, Zenon DEF SyncStep
    <3>2. p.left <= cycles - (i + 1)
      BY <2>4
    <3> QED BY <2>2, <2>3, <3>1, <3>2
  <2>5. CASE p.left # 0
    <3>1. PICK k \in 1..p.left : /\ SyncStep(p).left = p.left - k
                                 /\ SyncStep(p).video = Walk(p.video, k).video
      BY <2>2, <2>5, SyncStepWalks
    <3>2. PICK a \in Nat : a = cycles - p.left
      BY <2>2
    <3>3. k \in Nat /\ a + k = cycles - (p.left - k) /\ p.left - k <= cycles - (i + 1)
      BY <2>2, <3>1, <3>2
    <3>4. PICK x : x = Walk(v, a)
      OBVIOUS
    <3>5. Walk(v, a + k) = Counted(Walk(x.video, k), x.dots, x.retraces)
      BY <3>3, <3>4, WalksAdd
    <3>6. x.video \in Videos /\ x.dots \in Nat /\ x.retraces \in Nat
      BY <3>4, WalkLeft
    <3>7. Walk(x.video, k) \in Walks(x.video)
      BY <3>3, <3>6, WalkTyped
    <3>8. Walk(v, a + k).video = Walk(x.video, k).video
      BY <3>5, <3>7, CountedVideo
    <3>9. p.video = x.video
      BY <2>2, <3>2, <3>4
    <3> QED BY <2>2, <2>3, <3>1, <3>3, <3>8, <3>9
  <2> QED BY <2>4, <2>5
<1>5. cycles \in S
  <2> HIDE DEF S
  <2>1. \A i \in 0..cycles : i \in S
    BY <1>3, <1>4, UpTo
  <2> QED BY <2>1
<1>6. f[cycles].left = 0
  BY <1>2, <1>5
<1>7. cycles - 0 = cycles
  OBVIOUS
<1>8. SyncWalk(v, t, cycles) = f[cycles]
  BY <1>1 DEF IsSyncWalk
<1> QED BY <1>5, <1>6, <1>7, <1>8

\* The video clock of a catch-up is the walk's.
LEMMA CatchUpVideo ==
  ASSUME NEW t \in [Indices -> Timers], NEW v \in Videos, NEW cpu \in Nat, NEW at,
         sync \in [Indices -> BOOLEAN]
  PROVE  CatchUp(v, t, at, cpu).video = Caught(v, cpu).video
<1> DEFINE c == IF sync[0] \/ sync[1] THEN CatchUpWithSync(v, t, cpu) ELSE CatchUpNoSync(v, t, cpu)
<1>1. c.video = Caught(v, cpu).video /\ {"video", "timer"} \subseteq DOMAIN c
  <2>1. Pass(v, cpu) \in Videos /\ GpuCycles(v, cpu) \in Nat
    BY PassTyped
  <2>2. CASE sync[0] \/ sync[1]
    <3>1. PICK p : p = SyncWalk(Pass(v, cpu), t, GpuCycles(v, cpu))
      OBVIOUS
    <3>2. p.video = Caught(v, cpu).video
      BY <2>1, <3>1, SyncWalkVideo DEF Caught
    <3>3. c = ClockWithSync(p)
      BY <2>2, <3>1, Zenon DEF CatchUpWithSync
    <3> HIDE DEF c
    <3> QED BY <3>2, <3>3 DEF ClockWithSync
  <2>3. CASE ~(sync[0] \/ sync[1])
    <3>1. c = ClockNoSync(Caught(v, cpu), t, cpu)
      BY <2>3, Zenon DEF CatchUpNoSync, Caught
    <3> HIDE DEF c
    <3> QED BY <3>1 DEF ClockNoSync
  <2> QED BY <2>2, <2>3
<1>2. CatchUp(v, t, at, cpu) = [c EXCEPT !.timer[2] = Clock(@, Timer2Clocks(at, cpu))]
  BY Zenon DEF CatchUp
<1> HIDE DEF c
<1> QED BY <1>1, <1>2

-----------------------------------------------------------------------------
\* The CPU cycles that schedule_next_vblank makes of GPU cycles c are enough,
\* and too many by less than half a line.
LEMMA DelayReaches ==
  ASSUME NEW v \in Videos, NEW c \in Nat,
         NEW n, n = (c * CpuClock) \div GpuClock[v.mode] + 1
  PROVE  n \in Nat /\ c <= GpuCycles(v, n) /\ GpuCycles(v, n) < c + HalfLine(v)
<1> DEFINE C == CpuClock
           G == GpuClock[v.mode]
           h == HalfLine(v)
           x == c * C
           q == x \div G
           t == v.product + n * G
           g == t \div C
           r == t % C
<1>1. v.mode \in VideoModes /\ v.product \in 0..(C - 1)
  BY DEF Videos, VideoRecords
<1>2. C \in Nat \ {0} /\ G \in Nat \ {0}
  BY <1>1, ClockRates
<1>3. h \in Nat
  <2>1. LineCycles[v.mode] \div 2 \in Nat \ {0}
    BY <1>1, LineTyped
  <2> QED BY <2>1 DEF HalfLine
<1>4. G + C <= C * h
  <2>1. v.mode \in VideoModes /\ v.interlaced \in BOOLEAN
    BY DEF Videos, VideoRecords
  <2> QED BY <2>1, VBlankAssumptions DEF HalfLine
<1>5. x \in Nat
  BY <1>2
<1> DEFINE qG == q * G
<1>6. q \in Nat /\ qG <= x /\ x < qG + G /\ qG \in Nat
  <2> HIDE DEF x, G
  <2>1. q \in Nat /\ q * G <= x /\ x < q * G + G
    BY <1>2, <1>5, FloorBelow
  <2>2. q * G \in Nat
    BY <1>2, <2>1
  <2> QED BY <2>1, <2>2
<1>7. n = q + 1
  OBVIOUS
<1> HIDE DEF x, G, C, h, q
<1>8. n * G = qG + G
  BY <1>2, <1>6, <1>7, SMT
<1>9. n \in Nat
  BY <1>6, <1>7
<1> HIDE DEF qG
<1> DEFINE nG == n * G
<1>10. nG = qG + G
  BY <1>8
<1> HIDE DEF nG
<1>11. t = v.product + nG
  BY DEF nG
<1>12. t \in Nat /\ x < t /\ t < (x + G) + C
  <2> HIDE DEF t
  <2>1. v.product \in Nat /\ v.product < C
    BY <1>1, <1>2
  <2> QED BY <1>2, <1>5, <1>6, <1>10, <1>11, <2>1
<1>13. t = C * g + r /\ g \in Nat /\ r \in 0..(C - 1)
  <2> HIDE DEF t
  <2> QED BY <1>2, <1>12, DivMod
<1>14. GpuCycles(v, n) = g
  BY DEF GpuCycles, G, C
<1> HIDE DEF t, g, r
<1>15. c <= g
  <2> SUFFICES ASSUME g < c PROVE FALSE
    BY <1>13
  <2>1. (g + 1) * C <= c * C /\ (g + 1) * C = g * C + C /\ g * C = C * g /\ g * C \in Nat
    <3>1. g + 1 \in Nat /\ g + 1 <= c /\ g <= g + 1
      BY <1>13
    <3> QED BY <1>2, <1>13, <3>1, Times
  <2> DEFINE a == g * C
             b == (g + 1) * C
             d == C * g
  <2>2. b <= x /\ b = a + C /\ a = d /\ a \in Nat /\ t = d + r
    BY <1>13, <2>1 DEF x
  <2> HIDE DEF a, b, d
  <2> QED BY <1>2, <1>5, <1>12, <1>13, <2>2
<1>16. g < c + h
  <2> SUFFICES ASSUME c + h <= g PROVE FALSE
    BY <1>3, <1>13
  <2>1. (c + h) * C <= g * C /\ g * C = C * g /\ (c + h) * C = c * C + C * h
    <3>1. c + h \in Nat
      BY <1>3
    <3>2. (c + h) * C <= g * C /\ g * C = C * g
      BY <1>2, <1>13, <3>1, Times
    <3>3. (c + h) * C = c * C + C * h
      BY <1>2, <1>3, SMT
    <3> QED BY <3>2, <3>3
  <2>2. C * h \in Nat /\ C * g \in Nat
    BY <1>2, <1>3, <1>13
  <2> DEFINE a == g * C
             b == (c + h) * C
             d == C * g
             e == C * h
  <2>3. b <= a /\ a = d /\ b = x + e /\ e \in Nat /\ d \in Nat /\ t = d + r /\ G + C <= e
    BY <1>4, <1>13, <2>1, <2>2 DEF x
  <2> HIDE DEF a, b, d, e
  <2> QED BY <1>2, <1>5, <1>12, <1>13, <2>3
<1> QED BY <1>9, <1>14, <1>15, <1>16 DEF h

\* n CPU cycles later, it is line y2.
Aims(v, n) == InFrame(v) => Caught(v, n).video.line = v.y2

LEMMA NextVBlankAims ==
  ASSUME NEW v \in Videos,
         NEW n, n = (CyclesUntilVBlank(v) * CpuClock) \div GpuClock[v.mode] + 1
  PROVE  Aims(v, n) /\ (InFrame(v) => n \in Nat)
<1> SUFFICES ASSUME InFrame(v)
             PROVE  n \in Nat /\ Caught(v, n).video.line = v.y2
  BY DEF Aims
<1>1. PICK c : c = CyclesUntilVBlank(v)
  OBVIOUS
<1>2. c \in Nat
  BY <1>1, VBlankNearer
<1>3. n \in Nat /\ c <= GpuCycles(v, n) /\ GpuCycles(v, n) < c + HalfLine(v)
  BY <1>1, <1>2, DelayReaches
<1>4. PICK w : w = Pass(v, n)
  OBVIOUS
<1>5. PICK r : r = (v.product + n * GpuClock[v.mode]) % CpuClock
  OBVIOUS
<1>6. w \in Videos /\ SameMode(v, w) /\ GpuCycles(v, n) \in Nat
  BY <1>3, <1>4, PassTyped
<1>7. w = [v EXCEPT !.product = r]
  BY <1>4, <1>5 DEF Pass, Videos, VideoRecords
<1>8. w.y2 = v.y2 /\ w.line = v.line /\ w.cycle = v.cycle
  BY <1>7 DEF Videos, VideoRecords
<1>9. InFrame(w) /\ HalfLine(w) = HalfLine(v)
  BY <1>6, <1>8 DEF InFrame, HalfLine, SameMode
<1>10. CyclesUntilVBlank(w) = c
  <2>1. CyclesInLine(w) = CyclesInLine(v)
    BY <1>6, <1>8, SameLine DEF SameMode
  <2>2. LinesAhead(w) = LinesAhead(v)
    BY <1>6, <1>8, Zenon DEF LinesAhead, SameMode
  <2> QED BY <1>1, <1>6, <1>8, <2>1, <2>2, UntilVBlankForm
<1>11. Walk(w, GpuCycles(v, n)).video.line = w.y2
  BY <1>3, <1>6, <1>9, <1>10, VBlankReached
<1> QED BY <1>3, <1>4, <1>8, <1>11 DEF Caught

\* What the program has written stays, and a catch-up on the way changes nothing.
LEMMA CaughtDisplay ==
  ASSUME NEW v \in Videos, NEW n \in Nat
  PROVE  Caught(v, n).video \in Videos /\ SameDisplay(v, Caught(v, n).video)
<1>1. PICK w : w = Pass(v, n)
  OBVIOUS
<1>2. w \in Videos /\ SameMode(v, w) /\ GpuCycles(v, n) \in Nat
  BY <1>1, PassTyped
<1>3. w.y1 = v.y1 /\ w.y2 = v.y2
  BY <1>1 DEF Pass, Videos, VideoRecords
<1>4. SameDisplay(w, Walk(w, GpuCycles(v, n)).video)
  BY <1>2, WalkDisplay
<1>5. Caught(v, n).video \in Videos
  BY CaughtTyped
<1> QED BY <1>1, <1>2, <1>3, <1>4, <1>5 DEF Caught, SameDisplay, SameMode

LEMMA AimsLater ==
  ASSUME NEW v \in Videos, NEW e \in Nat, NEW n \in Nat, Aims(v, e + n)
  PROVE  Aims(Caught(v, e).video, n)
<1>1. PICK p : p = Caught(v, e)
  OBVIOUS
<1>2. /\ p.video \in Videos /\ p.dots \in Nat /\ p.retraces \in Nat
      /\ SameDisplay(v, p.video)
  BY <1>1, CaughtTyped, CaughtDisplay
<1>3. Caught(v, e + n) = Counted(Caught(p.video, n), p.dots, p.retraces)
  BY <1>1, CaughtTwice
<1>4. PICK q : q = Caught(p.video, n)
  OBVIOUS
<1>5. q \in Walks(p.video)
  BY <1>2, <1>4, CaughtTyped
<1>6. Counted(q, p.dots, p.retraces).video = q.video
  BY <1>5, CountedVideo
<1>7. InFrame(p.video) <=> InFrame(v)
  BY <1>2, Zenon DEF InFrame, SameDisplay, SameMode
<1>8. p.video.y2 = v.y2
  BY <1>2 DEF SameDisplay
<1> QED BY <1>1, <1>3, <1>4, <1>6, <1>7, <1>8 DEF Aims

\* Where on the screen the video clock is, whatever is displayed there.
SamePlace(v, w) ==
  /\ w.product = v.product /\ w.line = v.line /\ w.cycle = v.cycle
  /\ w.mode = v.mode /\ w.interlaced = v.interlaced

LEMMA TickedPlace ==
  ASSUME NEW v \in Videos, NEW w \in Videos, SamePlace(v, w)
  PROVE  SamePlace(Ticked(v), Ticked(w))
<1>1. CyclesInLine(w) = CyclesInLine(v)
  BY SameLine DEF SamePlace
<1>2. NextLine(w) = NextLine(v)
  BY Zenon DEF NextLine, SamePlace
<1>3. /\ SameMode(v, Ticked(v)) /\ Ticked(v).product = v.product
      /\ v.cycle + 1 < CyclesInLine(v)
           => Ticked(v).line = v.line /\ Ticked(v).cycle = v.cycle + 1
      /\ ~(v.cycle + 1 < CyclesInLine(v))
           => Ticked(v).line = NextLine(v) /\ Ticked(v).cycle = 0
  BY TickedForm DEF SameDisplay
<1>4. /\ SameMode(w, Ticked(w)) /\ Ticked(w).product = w.product
      /\ w.cycle + 1 < CyclesInLine(w)
           => Ticked(w).line = w.line /\ Ticked(w).cycle = w.cycle + 1
      /\ ~(w.cycle + 1 < CyclesInLine(w))
           => Ticked(w).line = NextLine(w) /\ Ticked(w).cycle = 0
  BY TickedForm DEF SameDisplay
<1> QED BY <1>1, <1>2, <1>3, <1>4, Zenon DEF SamePlace, SameMode

LEMMA AimsSame ==
  ASSUME NEW v \in Videos, NEW w \in Videos, SamePlace(v, w), w.y2 = v.y2,
         NEW n \in Nat, Aims(v, n)
  PROVE  Aims(w, n)
<1>1. PICK x, y, k : x = Pass(v, n) /\ y = Pass(w, n) /\ k = GpuCycles(v, n)
  OBVIOUS
<1>2. x \in Videos /\ y \in Videos /\ k \in Nat /\ GpuCycles(w, n) = k
  <2>1. GpuCycles(w, n) = GpuCycles(v, n)
    BY Zenon DEF GpuCycles, SamePlace
  <2> QED BY <1>1, <2>1, PassTyped
<1>3. SamePlace(x, y)
  <2>1. PICK r : r = (v.product + n * GpuClock[v.mode]) % CpuClock
    OBVIOUS
  <2>2. r = (w.product + n * GpuClock[w.mode]) % CpuClock
    BY <2>1, Zenon DEF SamePlace
  <2>3. x = [v EXCEPT !.product = r] /\ y = [w EXCEPT !.product = r]
    BY <1>1, <2>1, <2>2 DEF Pass, Videos, VideoRecords
  <2> QED BY <2>3 DEF SamePlace, Videos, VideoRecords
<1> DEFINE X(i) == Walk(x, i).video
           Y(i) == Walk(y, i).video
           S == {i \in Nat : SamePlace(X(i), Y(i))}
<1>4. 0 \in S
  BY <1>2, <1>3, WalkTicks
<1>5. \A i \in Nat : i \in S => i + 1 \in S
  <2> TAKE i \in Nat
  <2> HAVE i \in S
  <2>1. /\ X(i) \in Videos /\ Y(i) \in Videos
        /\ X(i + 1) = Ticked(X(i)) /\ Y(i + 1) = Ticked(Y(i))
    BY <1>2, WalkTicks
  <2>2. SamePlace(Ticked(X(i)), Ticked(Y(i)))
    BY <2>1, TickedPlace
  <2> QED BY <2>1, <2>2
<1>6. \A i \in Nat : i \in S
  <2> HIDE DEF S
  <2> QED BY <1>4, <1>5, AllNumbers
<1>7. X(k).line = Y(k).line
  BY <1>2, <1>6 DEF SamePlace
<1>8. InFrame(v) <=> InFrame(w)
  BY Zenon DEF InFrame, SamePlace
<1> QED BY <1>1, <1>2, <1>7, <1>8 DEF Aims, Caught

-----------------------------------------------------------------------------
\* The VBlank's event is due when the line is y2, counted from the last
\* catch-up; if one has come since it was due, it is only handled late.
AimsFrom(v, n) == n \in Int /\ (n >= 0 => Aims(v, n))

VBlankAimed ==
  "VBlank" \in DOMAIN due /\ InFrame(video) =>
    due["VBlank"] \in Int /\ AimsFrom(video, elapsed + due["VBlank"])

LEMMA NoVBlank ==
  ASSUME "VBlank" \notin DOMAIN due'
  PROVE  VBlankAimed'
BY DEF VBlankAimed

\* The time has been set anew.
LEMMA VBlankSet ==
  ASSUME video' \in Videos, elapsed' = 0, NEW events, due' = ScheduleNextVBlank(events, video')
  PROVE  VBlankAimed'
<1>1. PICK v : v = video'
  OBVIOUS
<1>2. PICK n : n = (CyclesUntilVBlank(v) * CpuClock) \div GpuClock[v.mode] + 1
  OBVIOUS
<1>3. due' = UpdateOrPush(events, "VBlank", n)
  BY <1>1, <1>2, Zenon DEF ScheduleNextVBlank
<1>4. due'["VBlank"] = n
  BY <1>3 DEF UpdateOrPush
<1>5. Aims(v, n) /\ (InFrame(v) => n \in Nat)
  BY <1>1, <1>2, NextVBlankAims
<1>6. ASSUME InFrame(v) PROVE n \in Int /\ AimsFrom(v, 0 + n)
  <2>1. n \in Nat /\ 0 + n = n
    BY <1>5, <1>6
  <2> QED BY <1>5, <2>1 DEF AimsFrom
<1> QED BY <1>1, <1>4, <1>6, Zenon DEF VBlankAimed

LEMMA CaughtUpVideo ==
  ASSUME Placed
  PROVE  CaughtUp.video = Caught(video, elapsed).video
BY CatchUpVideo DEF Placed, CaughtUp

\* Whatever catches up without a change of the line, the ranges' end or the
\* event leaves the time right.
LEMMA VBlankKept ==
  ASSUME Placed, VBlankAimed, video' \in Videos, elapsed' = 0,
         SamePlace(CaughtUp.video, video'), video'.y2 = video.y2,
         "VBlank" \in DOMAIN due' => "VBlank" \in DOMAIN due /\ due'["VBlank"] = due["VBlank"]
  PROVE  VBlankAimed'
<1>1. video \in Videos /\ elapsed \in Nat
  BY DEF Placed
<1>2. PICK x, w, n : x = Caught(video, elapsed).video /\ w = video' /\ n = due["VBlank"]
  OBVIOUS
<1>3. x \in Videos /\ SameDisplay(video, x) /\ SamePlace(x, w) /\ w \in Videos /\ w.y2 = video.y2
  BY <1>1, <1>2, CaughtUpVideo, CaughtDisplay
<1>4. InFrame(w) => InFrame(video)
  BY <1>3, Zenon DEF InFrame, SameDisplay, SameMode, SamePlace
<1>5. SUFFICES ASSUME "VBlank" \in DOMAIN due', InFrame(w)
               PROVE  n \in Int /\ AimsFrom(w, 0 + n)
  BY <1>2, Zenon DEF VBlankAimed
<1>6. n \in Int /\ AimsFrom(video, elapsed + n)
  BY <1>2, <1>4, <1>5, Zenon DEF VBlankAimed
<1>7. ASSUME n >= 0 PROVE Aims(w, n)
  <2>1. n \in Nat /\ elapsed + n \in Nat
    BY <1>1, <1>6, <1>7
  <2>2. Aims(video, elapsed + n)
    BY <1>6, <2>1 DEF AimsFrom
  <2>3. Aims(x, n)
    BY <1>1, <1>2, <2>1, <2>2, AimsLater
  <2>4. w.y2 = x.y2
    BY <1>3 DEF SameDisplay
  <2> QED BY <1>3, <2>1, <2>3, <2>4, AimsSame
<1>8. 0 + n = n
  BY <1>6
<1> QED BY <1>6, <1>7, <1>8 DEF AimsFrom

\* The timers' events are others.
LEMMA TimersLeaveVBlank ==
  ASSUME NEW events, NEW t, NEW from, NEW v, NEW at,
         NEW r, r = ScheduleTimerEvents(events, t, from, v, at)
  PROVE  "VBlank" \in DOMAIN r => "VBlank" \in DOMAIN events /\ r["VBlank"] = events["VBlank"]
<1>1. PICK one : one = ScheduleTimer(events, 0, t[0], from[0], v, at)
  OBVIOUS
<1>2. PICK two : two = ScheduleTimer(one, 1, t[1], from[1], v, at)
  OBVIOUS
<1>3. r = ScheduleTimer(two, 2, t[2], from[2], v, at)
  BY <1>1, <1>2, Zenon DEF ScheduleTimerEvents
<1>4. Irq(0) # "VBlank" /\ Irq(1) # "VBlank" /\ Irq(2) # "VBlank"
  BY IrqNames
<1>5. /\ Scheduled(one, events, 0, t[0], from[0], v, at)
      /\ Scheduled(two, one, 1, t[1], from[1], v, at)
      /\ Scheduled(r, two, 2, t[2], from[2], v, at)
  BY <1>1, <1>2, <1>3, OneScheduled
<1> QED BY <1>4, <1>5, Zenon DEF Scheduled

\* A use of a timer, or an interrupt of it.
LEMMA TimersAheadKeeps ==
  ASSUME Placed, VBlankAimed, video' \in Videos, NEW c, c.video = CaughtUp.video,
         NEW events, NEW from, TimersAhead(events, c, from),
         "VBlank" \in DOMAIN events => "VBlank" \in DOMAIN due /\ events["VBlank"] = due["VBlank"]
  PROVE  VBlankAimed'
<1>1. video' = CaughtUp.video /\ elapsed' = 0
      /\ due' = ScheduleTimerEvents(events, c.timer, from, c.video, Now)
  BY DEF TimersAhead, SetTo
<1>2. SamePlace(CaughtUp.video, video')
  BY <1>1 DEF SamePlace
<1>3. video'.y2 = video.y2
  BY <1>1, CaughtUpVideo, CaughtDisplay DEF Placed, SameDisplay
<1>4. PICK r : r = due'
  OBVIOUS
<1>5. "VBlank" \in DOMAIN r => "VBlank" \in DOMAIN events /\ r["VBlank"] = events["VBlank"]
  BY <1>1, <1>4, TimersLeaveVBlank
<1>6. "VBlank" \in DOMAIN due' => "VBlank" \in DOMAIN due /\ due'["VBlank"] = due["VBlank"]
  BY <1>4, <1>5
<1> QED BY <1>1, <1>2, <1>3, <1>6, VBlankKept

\* A register is read.
LEMMA UseKeeps ==
  ASSUME Placed, VBlankAimed, video' \in Videos, NEW c, Use(c), due' = due,
         SamePlace(CaughtUp.video, c.video), c.video.y2 = video.y2
  PROVE  VBlankAimed'
<1>1. video' = c.video /\ elapsed' = 0
  BY DEF Use, SetTo
<1> QED BY <1>1, VBlankKept

LEMMA CaughtUpPlace ==
  ASSUME Placed
  PROVE  SamePlace(CaughtUp.video, CaughtUp.video) /\ CaughtUp.video.y2 = video.y2
<1>1. CaughtUp.video.y2 = video.y2
  BY CaughtUpVideo, CaughtDisplay DEF Placed, SameDisplay
<1> QED BY <1>1 DEF SamePlace

\* A change of what is displayed schedules the VBlank anew when it has to be.
LEMMA RescheduleAims ==
  ASSUME Placed, VBlankAimed, video' \in Videos, NEW c, NEW changed, Reschedule(c, changed),
         ~changed => SamePlace(CaughtUp.video, c.video) /\ c.video.y2 = video.y2
  PROVE  VBlankAimed'
<1>1. video' = c.video /\ elapsed' = 0 /\ Use(c)
      /\ due' = IF ~changed THEN due
                ELSE IF c.video.y1 >= c.video.y2 THEN Unschedule(due, "VBlank")
                ELSE ScheduleNextVBlank(due, c.video)
  BY Zenon DEF Reschedule, Use, SetTo
<1>2. CASE ~changed
  <2>1. due' = due
    BY <1>1, <1>2
  <2> QED BY <1>1, <1>2, <2>1, UseKeeps
<1>3. CASE due' = Unschedule(due, "VBlank")
  <2>1. "VBlank" \notin DOMAIN due'
    BY <1>3 DEF Unschedule
  <2> QED BY <2>1, NoVBlank
<1>4. CASE due' = ScheduleNextVBlank(due, c.video)
  BY <1>1, <1>4, VBlankSet
<1> QED BY <1>1, <1>2, <1>3, <1>4, Zenon

-----------------------------------------------------------------------------
LEMMA RunAims ==
  ASSUME Placed, VBlankAimed, NEW n \in 1..MaxRun, Run(n)
  PROVE  VBlankAimed'
<1>1. /\ elapsed' = elapsed + n /\ due' = [e \in DOMAIN due |-> due[e] - n] /\ video' = video
  BY DEF Run
<1>2. elapsed \in Nat /\ n \in Int
  BY DEF Placed
<1>3. SUFFICES ASSUME "VBlank" \in DOMAIN due', InFrame(video')
               PROVE  due'["VBlank"] \in Int /\ AimsFrom(video', elapsed' + due'["VBlank"])
  BY Zenon DEF VBlankAimed
<1>4. "VBlank" \in DOMAIN due /\ due'["VBlank"] = due["VBlank"] - n
  BY <1>1, <1>3
<1>5. due["VBlank"] \in Int /\ AimsFrom(video, elapsed + due["VBlank"])
  BY <1>1, <1>3, <1>4, Zenon DEF VBlankAimed
<1>6. PICK d \in Int : d = due["VBlank"]
  BY <1>5
<1>7. d - n \in Int /\ (elapsed + n) + (d - n) = elapsed + d
  BY <1>2
<1> QED BY <1>1, <1>4, <1>5, <1>6, <1>7

LEMMA HandleVBlankAims ==
  ASSUME Placed, video' \in Videos, HandleVBlank
  PROVE  VBlankAimed'
<1> DEFINE rest == Unschedule(due, "VBlank")
<1>1. NextVBlank(rest)
  BY DEF HandleVBlank
<1>2. CASE video.y1 >= video.y2
  <2>1. due' = Unschedule(rest, "VBlank")
    BY <1>1, <1>2, Zenon DEF NextVBlank
  <2>2. "VBlank" \notin DOMAIN due'
    BY <2>1 DEF Unschedule
  <2> QED BY <2>2, NoVBlank
<1>3. CASE ~(video.y1 >= video.y2)
  <2>1. VBlankAhead(rest, CaughtUp)
    BY <1>1, <1>3, Zenon DEF NextVBlank
  <2>2. due' = ScheduleNextVBlank(rest, video') /\ elapsed' = 0
    BY <2>1 DEF VBlankAhead, SetTo
  <2> QED BY <2>2, VBlankSet
<1> QED BY <1>2, <1>3

LEMMA HandleTimerIrqAims ==
  ASSUME Placed, VBlankAimed, video' \in Videos, NEW i \in Indices, HandleTimerIrq(i)
  PROVE  VBlankAimed'
<1>1. TimersAhead(Unschedule(due, Irq(i)), CaughtUp, source)
  BY DEF HandleTimerIrq
<1>2. PICK events : events = Unschedule(due, Irq(i))
  OBVIOUS
<1>3. "VBlank" \in DOMAIN events => "VBlank" \in DOMAIN due /\ events["VBlank"] = due["VBlank"]
  BY <1>2 DEF Unschedule
<1> QED BY <1>1, <1>2, <1>3, TimersAheadKeeps

LEMMA UseGpuAims ==
  ASSUME Placed, VBlankAimed, video' \in Videos, UseGpu
  PROVE  VBlankAimed'
<1>1. PICK b : b = CaughtUp
  OBVIOUS
<1>2. b \in States /\ b.video \in Videos /\ SameMode(video, b.video) /\ b.video.y2 = video.y2
  BY <1>1, CaughtUpTyped, CaughtUpPlace DEF Catches, States
<1>3. PICK z \in Videos : z = b.video
  BY <1>2
<1>4. ASSUME NEW x \in XRanges, UpdateHorizontalDisplayRange(x) PROVE VBlankAimed'
  <2>1. PICK w : w = [z EXCEPT !.x1 = x[1], !.x2 = x[2]]
    BY Zenon
  <2>2. SamePlace(z, w) /\ w.y2 = z.y2
    BY <2>1 DEF Videos, VideoRecords, SamePlace
  <2>3. PICK c : c = [b EXCEPT !.video = w]
    OBVIOUS
  <2>4. [b EXCEPT !.video.x1 = x[1], !.video.x2 = x[2]] = c /\ c.video = w
    BY <1>2, <1>3, <2>1, <2>3 DEF States, Videos, VideoRecords
  <2>5. Use(c) /\ due' = due
    BY <1>1, <1>4, <2>4 DEF UpdateHorizontalDisplayRange
  <2> QED BY <1>1, <1>2, <1>3, <2>2, <2>4, <2>5, UseKeeps
<1>5. ASSUME NEW y \in YRanges, UpdateVerticalDisplayRange(y) PROVE VBlankAimed'
  <2>1. PICK w : w = [z EXCEPT !.y1 = y[1], !.y2 = y[2]]
    BY Zenon
  <2>2. SamePlace(z, w) /\ w.y2 = y[2]
    BY <2>1 DEF Videos, VideoRecords, SamePlace
  <2>3. PICK c : c = [b EXCEPT !.video = w]
    OBVIOUS
  <2>4. [b EXCEPT !.video.y1 = y[1], !.video.y2 = y[2]] = c /\ c.video = w
    BY <1>2, <1>3, <2>1, <2>3 DEF States, Videos, VideoRecords
  <2>5. Reschedule(c, y[2] # video.y2)
    BY <1>1, <1>5, <2>4 DEF UpdateVerticalDisplayRange
  <2> QED BY <1>1, <1>3, <2>2, <2>4, <2>5, RescheduleAims
<1>6. ASSUME NEW d \in Displays, UpdateDisplayMode(d) PROVE VBlankAimed'
  <2> DEFINE changed == d.interlaced # video.interlaced \/ d.mode # video.mode
  <2>1. PICK x : x = [z EXCEPT !.divider = d.divider, !.interlaced = d.interlaced,
                               !.mode = d.mode]
    OBVIOUS
  <2>2. PICK w : w = IF changed THEN FitLine(x) ELSE x
    OBVIOUS
  <2>3. PICK c : c = [b EXCEPT !.video = w]
    OBVIOUS
  <2>4. c.video = w
    BY <1>2, <2>3 DEF States
  <2>5. Reschedule(c, changed)
    <3>1. Reschedule([b EXCEPT !.video = IF changed THEN FitLine(x) ELSE x], changed)
      BY <1>1, <1>2, <1>3, <1>6, <2>1 DEF UpdateDisplayMode, States
    <3> QED BY <2>2, <2>3, <3>1
  <2>6. ASSUME ~changed PROVE SamePlace(z, w) /\ w.y2 = z.y2
    <3>1. w = x /\ d.interlaced = z.interlaced /\ d.mode = z.mode
      BY <1>2, <1>3, <2>2, <2>6 DEF SameMode
    <3> QED BY <2>1, <3>1 DEF Videos, VideoRecords, SamePlace
  <2> HIDE DEF changed
  <2> QED BY <1>1, <1>2, <1>3, <2>4, <2>5, <2>6, RescheduleAims
<1> QED BY <1>4, <1>5, <1>6, Zenon DEF UseGpu

LEMMA UseTimerAims ==
  ASSUME Placed, VBlankAimed, video' \in Videos, NEW i \in Indices, UseTimer(i)
  PROVE  VBlankAimed'
<1>1. PICK b : b = CaughtUp
  OBVIOUS
<1>2. b \in States
  BY <1>1, CaughtUpTyped DEF Catches
<1>3. ASSUME NEW c, NEW from, c.video = b.video, Write(c, from) PROVE VBlankAimed'
  <2>1. TimersAhead(due, c, from)
    BY <1>3 DEF Write
  <2> QED BY <1>1, <1>3, <2>1, TimersAheadKeeps
<1>4. CASE HandleModeRead(i)
  <2>1. PICK c : c = [b EXCEPT !.timer[i].reachedTarget = FALSE, !.timer[i].reachedMax = FALSE]
    OBVIOUS
  <2>2. c.video = b.video
    BY <1>2, <2>1 DEF States
  <2>3. Use(c) /\ due' = due
    BY <1>1, <1>4, <2>1 DEF HandleModeRead
  <2> QED BY <1>1, <2>2, <2>3, CaughtUpPlace, UseKeeps
<1>5. ASSUME NEW value \in Targets, WriteCounter(i, value) \/ WriteTarget(i, value)
      PROVE  VBlankAimed'
  <2>1. PICK c, e : /\ c = [b EXCEPT !.timer[i].counter = value]
                    /\ e = [b EXCEPT !.timer[i].target = value]
    OBVIOUS
  <2>2. c.video = b.video /\ e.video = b.video
    BY <1>2, <2>1 DEF States
  <2>3. Write(c, source) \/ Write(e, source)
    BY <1>1, <1>5, <2>1 DEF WriteCounter, WriteTarget
  <2> QED BY <1>3, <2>2, <2>3
<1>6. ASSUME NEW m \in ModeWrites[i], HandleModeWrite(i, m) PROVE VBlankAimed'
  <2>1. PICK c : c = [b EXCEPT !.timer[i] = WriteMode(@, m), !.sync[i] = m.sync]
    OBVIOUS
  <2>2. c.video = b.video
    BY <1>2, <2>1 DEF States
  <2>3. Write(c, [source EXCEPT ![i] = m.source])
    BY <1>1, <1>6, <2>1 DEF HandleModeWrite
  <2> QED BY <1>3, <2>2, <2>3
<1> QED BY <1>4, <1>5, <1>6, Zenon DEF UseTimer

LEMMA NextAims ==
  ASSUME TimersInvariant, TimersInvariant', VBlankAimed, [Next]_vars
  PROVE  VBlankAimed'
<1>1. Placed /\ video' \in Videos
  BY DEF TimersInvariant, Placed
<1>2. CASE Elapse
  <2>1. ASSUME NEW n \in 1..MaxRun, Run(n) PROVE VBlankAimed'
    BY <1>1, <2>1, RunAims
  <2>2. CASE Read
    <3>1. Use(CaughtUp) /\ due' = due
      BY <2>2 DEF Read
    <3> QED BY <1>1, <3>1, CaughtUpPlace, UseKeeps
  <2>3. CASE WriteInterruptStatus
    BY <2>3 DEF WriteInterruptStatus, VBlankAimed
  <2>4. CASE HandleVBlank
    BY <1>1, <2>4, HandleVBlankAims
  <2>5. ASSUME NEW i \in Indices, HandleTimerIrq(i) PROVE VBlankAimed'
    BY <1>1, <2>5, HandleTimerIrqAims
  <2> QED BY <1>2, <2>1, <2>2, <2>3, <2>4, <2>5, Zenon DEF Elapse
<1>3. CASE UseGpu
  BY <1>1, <1>3, UseGpuAims
<1>4. ASSUME NEW i \in Indices, UseTimer(i) PROVE VBlankAimed'
  BY <1>1, <1>4, UseTimerAims
<1>5. CASE UNCHANGED vars
  BY <1>5 DEF vars, VBlankAimed
<1> QED BY <1>2, <1>3, <1>4, <1>5, Zenon DEF Next

\* The VBlank comes when the line is y2 (api.rs:519, timers.rs:1021-1060),
\* whatever the program has done to the ranges and the mode since its time was
\* set, in both video modes and interlaced or not, however the clocks' ratio
\* is rounded, and whether a timer was synchronized on the way or not.
THEOREM VBlanksAreAtY2 == Spec => VBlankAtY2
<1>1. Init => TimersInvariant /\ VBlankAimed
  <2> SUFFICES ASSUME Init PROVE TimersInvariant /\ VBlankAimed
    OBVIOUS
  <2>1. TimersInvariant
    BY InitInvariant
  <2>2. video \in Videos /\ elapsed = 0 /\ due = ScheduleNextVBlank(NoEvents, video)
    BY <2>1 DEF Init, TimersInvariant, Placed
  <2>3. PICK n : n = (CyclesUntilVBlank(video) * CpuClock) \div GpuClock[video.mode] + 1
    OBVIOUS
  <2>4. due["VBlank"] = n
    BY <2>2, <2>3 DEF ScheduleNextVBlank, UpdateOrPush
  <2>5. Aims(video, n) /\ (InFrame(video) => n \in Nat)
    BY <2>2, <2>3, NextVBlankAims
  <2>6. ASSUME InFrame(video) PROVE n \in Int /\ AimsFrom(video, 0 + n)
    <3>1. n \in Nat /\ 0 + n = n
      BY <2>5, <2>6
    <3> QED BY <2>5, <3>1 DEF AimsFrom
  <2>7. VBlankAimed
    BY <2>2, <2>4, <2>6, Zenon DEF VBlankAimed
  <2> QED BY <2>1, <2>7
<1>2. TimersInvariant /\ VBlankAimed /\ [Next]_vars => (TimersInvariant /\ VBlankAimed)'
  BY NextPreserves, NextAims
<1> DEFINE AtY2 ==
      ("VBlank" \in Ready(due, 0) \ Ready(due', 0)
         /\ video.y1 < video.y2 /\ video.y2 < Lines[video.mode][video.interlaced])
        => LET at == elapsed + due["VBlank"]
               v == CatchUp(video, timer, phase, at).video
           IN  at >= 0 => v.line = video.y2 /\ InVBlank(v)
<1>3. TimersInvariant /\ VBlankAimed => AtY2
  <2> DEFINE at == elapsed + due["VBlank"]
             v == CatchUp(video, timer, phase, at).video
  <2> SUFFICES ASSUME TimersInvariant, VBlankAimed, "VBlank" \in Ready(due, 0),
                      InFrame(video), at >= 0
               PROVE  v.line = video.y2 /\ InVBlank(v)
    BY Zenon DEF InFrame
  <2>1. "VBlank" \in DOMAIN due
    BY DEF Ready
  <2>2. AimsFrom(video, at)
    BY <2>1, Zenon DEF VBlankAimed
  <2>3. /\ video \in Videos /\ timer \in [Indices -> Timers] /\ sync \in [Indices -> BOOLEAN]
    BY DEF TimersInvariant, Placed
  <2> HIDE DEF at
  <2>4. at \in Nat /\ Aims(video, at)
    BY <2>2 DEF AimsFrom
  <2>5. v = Caught(video, at).video
    BY <2>3, <2>4, CatchUpVideo
  <2>6. v.line = video.y2
    BY <2>4, <2>5 DEF Aims
  <2>7. v \in Videos /\ v.y2 = video.y2
    BY <2>3, <2>4, <2>5, CaughtDisplay DEF SameDisplay
  <2> HIDE DEF v
  <2>8. v.y2 \in Nat
    BY <2>7 DEF Videos, VideoRecords
  <2>9. InVBlank(v)
    BY <2>6, <2>7, <2>8 DEF InVBlank
  <2> QED BY <2>6, <2>9
<1>4. (TimersInvariant /\ VBlankAimed) /\ [Next]_vars => [AtY2]_vars
  BY <1>3
<1> QED BY <1>1, <1>2, <1>4, PTL DEF Spec, VBlankAtY2
=============================================================================
