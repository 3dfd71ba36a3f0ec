------------------------------- MODULE Timers -------------------------------
(***************************************************************************)
(* The three hardware timers and the video clock (timers.rs), with the     *)
(* events of the scheduler that belong to them. All are lazy: what the     *)
(* CPU's clock has passed is made up for by catch_up when a register is    *)
(* used or an event is due, and each event must be scheduled for the right *)
(* time in advance.                                                        *)
(*                                                                         *)
(* Time is relative: elapsed counts the CPU cycles since the last          *)
(* catch_up, and the times in due the cycles from now to each event.       *)
(***************************************************************************)
EXTENDS SystemTimer, EventMap

CONSTANTS
  CpuClock,      \* 33868800
  GpuClock,      \* of each video mode: 53693175 and 53203425
  LineCycles,    \* of each video mode: 3412 and 3405
  Lines,         \* of each video mode, not interlaced and interlaced
  Div,           \* 8, the divider of timer 2
  ModeWrites,    \* the modes the program gives each timer
  Targets,       \* the targets it gives them
  XRanges, YRanges, Displays,  \* what it writes to GP1
  MaxRun,        \* CPU cycles of an instruction, or of a DMA's wait
  MaxElapsed,    \* bound on the CPU cycles between two uses of the timers
  Spans          \* further CPU cycles that ReadsDoNotDisturb looks at

VideoModes == {"Ntsc", "Pal"}

\* Those of timers 0 and 1, and of timer 2.
SyncModes ==
  {"PauseDuringBlank", "ResetAtBlank", "PauseOutsideBlank", "PauseTillNextBlank"}
    \cup {"Stop", "FreeRun"}

ASSUME TimersAssumptions ==
  /\ {CpuClock, Div, MaxRun, MaxElapsed} \subseteq Nat \ {0}
  /\ Spans \subseteq Nat
  /\ {GpuClock, LineCycles} \subseteq [VideoModes -> Nat \ {0, 1}]
  /\ Lines \in [VideoModes -> [BOOLEAN -> Nat \ {0}]]
  /\ \A m \in VideoModes : GpuClock[m] >= CpuClock
  /\ Targets \subseteq Values /\ XRanges \cup YRanges \subseteq Nat \X Nat
  /\ Displays \subseteq [divider : Nat \ {0}, interlaced : BOOLEAN, mode : VideoModes]
  /\ \A i \in 0..2 : ModeWrites[i] \subseteq
       [sync : BOOLEAN, syncMode : SyncModes, source : {"system", "other"},
        resetAtTarget : BOOLEAN, irqAtTarget : BOOLEAN, irqAtMax : BOOLEAN,
        repeat : BOOLEAN, toggle : BOOLEAN, ack : BOOLEAN]

\* The last line of an NTSC frame is an even one, whose cycles are as in PAL;
\* and the video clock makes less than half a line in a CPU cycle.
ASSUME VBlankAssumptions ==
  \A m \in VideoModes, b \in BOOLEAN :
    /\ m = "Ntsc" => Lines[m][b] % 2 = 1
    /\ GpuClock[m] + CpuClock <= CpuClock * (LineCycles[m] \div 2)

VARIABLES
  video,         \* the GpuTimer
  timer,         \* the three SystemTimers
  source,        \* "system", or a timer's "other" source
  sync, syncMode,\* sync_enabled and the timers' sync modes
  elapsed,       \* cpu_cycle_counter - last_update_cycles
  phase,         \* last_update_cycles % Div
  due            \* the scheduled events

vars == <<video, timer, source, sync, syncMode, elapsed, phase, due>>

Indices == 0..2
Irq(i) == <<"Timer0Irq", "Timer1Irq", "Timer2Irq">>[i + 1]

-----------------------------------------------------------------------------
\* NTSC lines have half a cycle more, which every second one gets.
ExtraCycle(m, line) == IF m = "Ntsc" THEN line % 2 ELSE 0

\* The last line of an interlaced frame is half a line.
CyclesInLine(v) ==
  (IF v.interlaced /\ v.line = Lines[v.mode][TRUE] - 1
   THEN LineCycles[v.mode] \div 2 ELSE LineCycles[v.mode])
    + ExtraCycle(v.mode, v.line)

IncrementLine(v) ==
  IF v.line + 1 >= Lines[v.mode][v.interlaced]
  THEN [v EXCEPT !.line = 0]
  ELSE [v EXCEPT !.line = @ + 1]

InVBlank(v) == ~(v.y1 <= v.line /\ v.line < v.y2)

-----------------------------------------------------------------------------
(***************************************************************************)
(* catch_up without synchronization: whole lines at a time.                *)
(***************************************************************************)
GpuCycles(v, cpu) == (v.product + cpu * GpuClock[v.mode]) \div CpuClock

Pass(v, cpu) ==
  [v EXCEPT !.product = (@ + cpu * GpuClock[v.mode]) % CpuClock]

\* Mutant: the dot clock starts anew with every use.
LineStepFromZero(p) ==
  LET v == p.video
      end == CyclesInLine(v)
      to == IF p.left < end - v.cycle THEN v.cycle + p.left ELSE end
      q == [p EXCEPT !.left = @ - (to - v.cycle),
                     !.dots = @ + (to - v.cycle) \div v.divider]
  IN  IF to < end THEN [q EXCEPT !.video.cycle = to]
      ELSE [q EXCEPT !.video = IncrementLine([v EXCEPT !.cycle = 0]), !.retraces = @ + 1]

\* p counts the cycles left, and the dots and horizontal retraces passed.
LineStep(p) ==
  LET v == p.video
      end == CyclesInLine(v)
      to == IF p.left < end - v.cycle THEN v.cycle + p.left ELSE end
      q == [p EXCEPT !.left = @ - (to - v.cycle),
                     !.dots = @ + to \div v.divider - v.cycle \div v.divider]
  IN  IF to < end THEN [q EXCEPT !.video.cycle = to]
      ELSE [q EXCEPT !.video = IncrementLine([v EXCEPT !.cycle = 0]), !.retraces = @ + 1]

Walk(v, cycles) ==
  LET f[i \in 0..cycles] ==
        IF i = 0 THEN [video |-> v, left |-> cycles, dots |-> 0, retraces |-> 0]
        ELSE LineStep(f[i - 1])
  IN  f[cycles]

ClockNoSync(p, t, cpu) ==
  [video |-> p.video, sync |-> sync,
   timer |->
     [t EXCEPT ![0] = Clock(@, IF source[0] = "system" THEN cpu ELSE p.dots),
               ![1] = Clock(@, IF source[1] = "system" THEN cpu ELSE p.retraces)]]

CatchUpNoSync(v, t, cpu) == ClockNoSync(Walk(Pass(v, cpu), GpuCycles(v, cpu)), t, cpu)

-----------------------------------------------------------------------------
(***************************************************************************)
(* catch_up with a synchronized timer: from one border of a blanking       *)
(* period to the next. The clocks of timers 0 and 1 are collected until    *)
(* they are paused, reset or caught up.                                    *)
(***************************************************************************)
IsTimerPaused(enabled, mode, inBlank) ==
  enabled /\ mode \in (IF inBlank THEN {"PauseDuringBlank", "PauseTillNextBlank"}
                       ELSE {"PauseOutsideBlank"})

ResetsAtBlank(mode) == mode \in {"ResetAtBlank", "PauseOutsideBlank"}

\* Timer{0,1}ClockSource::clocks.
Clocks(i, own, gpu, m) ==
  IF source[i] = "other" THEN own ELSE (gpu * CpuClock) \div GpuClock[m]

\* The part of the line the video clock is in, and where it ends.
Segment(v) ==
  LET valid == v.x1 < v.x2
      end == CyclesInLine(v)
  IN  IF valid /\ v.cycle < v.x1 /\ v.x1 < end THEN [blank |-> TRUE, to |-> v.x1]
      ELSE IF valid /\ v.cycle < v.x2 /\ v.x2 < end THEN [blank |-> FALSE, to |-> v.x2]
      ELSE [blank |-> TRUE, to |-> end]

\* Clock a timer to the current position and then reset it.
ResetTimer(p, i) ==
  LET own == IF i = 0 THEN p.dots ELSE p.retraces
      now == Clock(p.timer[i], Clocks(i, own, p.gpu[i], p.video.mode))
  IN  [p EXCEPT !.timer[i] = [now EXCEPT !.counter = 0], !.gpu[i] = 0,
                !.dots = IF i = 0 THEN 0 ELSE @, !.retraces = IF i = 1 THEN 0 ELSE @]

\* A blanking period starts that timer i may be synchronized with.
BlankStart(p, i) ==
  IF ~p.sync[i] THEN p
  ELSE IF ResetsAtBlank(syncMode[i]) THEN ResetTimer(p, i)
  ELSE IF syncMode[i] = "PauseTillNextBlank" THEN [p EXCEPT !.sync[i] = FALSE]
  ELSE p

AtVBlankStart(v) == v.y1 < v.y2 /\ v.line = v.y2

\* At the start of a blanking period: of a line, or of a frame.
AtBlank(p, hBlank, lineEnds) ==
  IF hBlank THEN BlankStart(p, 0)
  ELSE IF lineEnds /\ AtVBlankStart(p.video) THEN BlankStart(p, 1)
  ELSE p

SyncStep(p) ==
  LET v == p.video
      segment == Segment(v)
      to == IF v.cycle + p.left < segment.to THEN v.cycle + p.left ELSE segment.to
      n == to - v.cycle
      runs0 == ~IsTimerPaused(p.sync[0], syncMode[0], segment.blank)
      runs1 == ~IsTimerPaused(p.sync[1], syncMode[1], InVBlank(v))
      lineEnds == to = CyclesInLine(v)
      q == [p EXCEPT
             !.video = IF lineEnds THEN IncrementLine([v EXCEPT !.cycle = 0])
                       ELSE [v EXCEPT !.cycle = to],
             !.left = @ - n,
             !.dots = @ + (IF runs0 THEN to \div v.divider - v.cycle \div v.divider ELSE 0),
             !.retraces = @ + (IF runs1 /\ lineEnds THEN 1 ELSE 0),
             !.gpu = [i \in 0..1 |->
                        @[i] + IF (i = 0 /\ runs0) \/ (i = 1 /\ runs1) THEN n ELSE 0]]
  IN  IF p.left = 0 THEN p ELSE AtBlank(q, ~segment.blank /\ to = v.x2, lineEnds)

SyncWalk(v, t, cycles) ==
  LET f[i \in 0..cycles] ==
        IF i = 0
        THEN [video |-> v, timer |-> t, sync |-> sync, left |-> cycles,
              dots |-> 0, retraces |-> 0, gpu |-> [j \in 0..1 |-> 0]]
        ELSE SyncStep(f[i - 1])
  IN  f[cycles]

ClockWithSync(p) ==
  [video |-> p.video, sync |-> p.sync,
   timer |-> [p.timer EXCEPT
     ![0] = Clock(@, Clocks(0, p.dots, p.gpu[0], p.video.mode)),
     ![1] = Clock(@, Clocks(1, p.retraces, p.gpu[1], p.video.mode))]]

CatchUpWithSync(v, t, cpu) == ClockWithSync(SyncWalk(Pass(v, cpu), t, GpuCycles(v, cpu)))

-----------------------------------------------------------------------------
\* Timer 2 counts CPU cycles, or those that Div divides, unless it is stopped.
Timer2Clocks(at, cpu) ==
  IF sync[2] /\ syncMode[2] = "Stop" THEN 0
  ELSE IF source[2] = "system" THEN cpu
  ELSE (at + cpu) \div Div

\* catch_up from the state of v and t at the phase at: what cpu cycles make
\* of them.
CatchUp(v, t, at, cpu) ==
  LET c == IF sync[0] \/ sync[1] THEN CatchUpWithSync(v, t, cpu)
           ELSE CatchUpNoSync(v, t, cpu)
  IN  [c EXCEPT !.timer[2] = Clock(@, Timer2Clocks(at, cpu))]

CaughtUp == CatchUp(video, timer, phase, elapsed)

Now == (phase + elapsed) % Div

-----------------------------------------------------------------------------
\* How far ahead schedule_timer_events puts the event of timer i, whose next
\* interrupt is some clocks away.
IrqDelay(i, from, clocks, v, at) ==
  IF from = "system" THEN clocks
  ELSE IF i = 0 THEN (clocks * v.divider * CpuClock) \div GpuClock[v.mode] + 1
  ELSE IF i = 1
  THEN (((clocks * (2 * LineCycles["Ntsc"] + 1)) \div 2) * CpuClock) \div GpuClock[v.mode] + 1
  ELSE clocks * Div - at

ScheduleTimer(events, i, t, from, v, at) ==
  LET clocks == ClocksUntilIrq(t)
  IN  IF clocks = 0 THEN Unschedule(events, Irq(i))
      ELSE UpdateOrPush(events, Irq(i), IrqDelay(i, from, clocks, v, at))

ScheduleTimerEvents(events, t, from, v, at) ==
  LET one == ScheduleTimer(events, 0, t[0], from[0], v, at)
      two == ScheduleTimer(one, 1, t[1], from[1], v, at)
  IN  ScheduleTimer(two, 2, t[2], from[2], v, at)

\* GPU cycles of whole lines, from one line up to another.
CyclesOfLines(m, from, end) ==
  LET f[y \in 0..end] ==
        IF y = end THEN 0 ELSE LineCycles[m] + ExtraCycle(m, y) + f[y + 1]
  IN  f[from]

\* Mutant: the lines before the last one are counted, but not that.
CyclesWithoutLast(v) ==
  LET last == Lines[v.mode][v.interlaced] - 1
      from == IF v.line < v.y2 THEN v.line + 1 ELSE 0
  IN  CyclesInLine(v) - v.cycle + CyclesOfLines(v.mode, from, v.y2)
        + (IF v.line >= v.y2 /\ v.line # last
           THEN CyclesOfLines(v.mode, v.line + 1, last) ELSE 0)

\* GPU cycles to the start of line y2, from a caught up video clock.
CyclesUntilVBlank(v) ==
  LET last == Lines[v.mode][v.interlaced] - 1
      from == IF v.line < v.y2 THEN v.line + 1 ELSE 0
      lastLine == IF v.interlaced THEN LineCycles[v.mode] \div 2 ELSE LineCycles[v.mode]
  IN  CyclesInLine(v) - v.cycle + CyclesOfLines(v.mode, from, v.y2)
        + (IF v.line >= v.y2 /\ v.line # last
           THEN lastLine + CyclesOfLines(v.mode, v.line + 1, last) ELSE 0)

ScheduleNextVBlank(events, v) ==
  UpdateOrPush(events, "VBlank",
               (CyclesUntilVBlank(v) * CpuClock) \div GpuClock[v.mode] + 1)

-----------------------------------------------------------------------------
\* c is what a catch_up makes of the state.
SetTo(c) ==
  /\ video' = c.video /\ timer' = c.timer /\ sync' = c.sync
  /\ phase' = Now /\ elapsed' = 0

VBlankAhead(events, c) == SetTo(c) /\ due' = ScheduleNextVBlank(events, c.video)

TimersAhead(events, c, from) ==
  SetTo(c) /\ due' = ScheduleTimerEvents(events, c.timer, from, c.video, Now)

\* schedule_next_vblank. It catches up only if the range is valid.
NextVBlank(events) ==
  IF video.y1 >= video.y2
  THEN /\ due' = Unschedule(events, "VBlank")
       /\ UNCHANGED <<video, timer, sync, elapsed, phase>>
  ELSE VBlankAhead(events, CaughtUp)

\* reset, and what the program has then written to GP1; the first VBlank is
\* scheduled. Whether a frame is odd is left out: nothing here depends on it.
Init ==
  /\ \E x \in XRanges, y \in YRanges, d \in Displays :
       /\ y[1] < y[2]
       /\ video = [product |-> 0, line |-> 0, cycle |-> 0, x1 |-> x[1], x2 |-> x[2],
                   y1 |-> y[1], y2 |-> y[2], mode |-> d.mode, divider |-> d.divider,
                   interlaced |-> d.interlaced]
  /\ timer = [i \in Indices |-> NewTimer]
  /\ source = [i \in Indices |-> "system"] /\ sync = [i \in Indices |-> FALSE]
  /\ syncMode = [i \in Indices |-> IF i = 2 THEN "Stop" ELSE "PauseDuringBlank"]
  /\ elapsed = 0 /\ phase = 0
  /\ due = ScheduleNextVBlank(NoEvents, video)

-----------------------------------------------------------------------------
\* tick runs the CPU, or takes a DMA's wait, only while no event is ready.
CpuRuns == Ready(due, 0) = {}

Run(n) ==
  /\ CpuRuns
  /\ elapsed + n <= MaxElapsed
  /\ elapsed' = elapsed + n
  /\ due' = [e \in DOMAIN due |-> due[e] - n]
  /\ UNCHANGED <<video, timer, source, sync, syncMode, phase>>

\* Every use of a register catches up first; c is what that gives.
Use(c) == CpuRuns /\ SetTo(c)

\* A counter, a target or GPUSTAT is read; the value itself is not modelled.
Read == Use(CaughtUp) /\ UNCHANGED <<source, syncMode, due>>

HandleModeRead(i) ==
  LET c == CaughtUp
  IN  /\ Use([c EXCEPT !.timer[i].reachedTarget = FALSE, !.timer[i].reachedMax = FALSE])
      /\ UNCHANGED <<source, syncMode, due>>

\* write_register ends by scheduling all timers' events anew, with the clock
\* source that has been written; its second catch_up finds nothing to do.
Write(c, from) ==
  CpuRuns /\ TimersAhead(due, c, from) /\ source' = from

WriteCounter(i, value) ==
  LET c == CaughtUp
  IN  Write([c EXCEPT !.timer[i].counter = value], source) /\ UNCHANGED syncMode

WriteTarget(i, value) ==
  LET c == CaughtUp
  IN  Write([c EXCEPT !.timer[i].target = value], source) /\ UNCHANGED syncMode

\* A mode is a record of a timer's fields and those of its synchronization;
\* ack is bit 10.
WriteMode(t, m) ==
  [t EXCEPT !.resetAtTarget = m.resetAtTarget, !.irqAtTarget = m.irqAtTarget,
            !.irqAtMax = m.irqAtMax, !.repeat = m.repeat, !.toggle = m.toggle,
            !.irq = @ /\ ~m.ack /\ m.toggle, !.counter = 0, !.fired = FALSE]

HandleModeWrite(i, m) ==
  LET c == CaughtUp
  IN  /\ Write([c EXCEPT !.timer[i] = WriteMode(@, m), !.sync[i] = m.sync],
               [source EXCEPT ![i] = m.source])
      /\ syncMode' = [syncMode EXCEPT ![i] = m.syncMode]

-----------------------------------------------------------------------------
\* The GP1 commands that set the display ranges and the display mode.
UpdateHorizontalDisplayRange(x) ==
  LET c == CaughtUp
  IN  /\ Use([c EXCEPT !.video.x1 = x[1], !.video.x2 = x[2]])
      /\ UNCHANGED <<source, syncMode, due>>

\* Whoever changes the video clock may then reschedule the VBlank.
Reschedule(c, changed) ==
  /\ Use(c)
  /\ due' = IF ~changed THEN due
            ELSE IF c.video.y1 >= c.video.y2 THEN Unschedule(due, "VBlank")
            ELSE ScheduleNextVBlank(due, c.video)
  /\ UNCHANGED <<source, syncMode>>

UpdateVerticalDisplayRange(y) ==
  LET c == CaughtUp
  IN  Reschedule([c EXCEPT !.video.y1 = y[1], !.video.y2 = y[2]], y[2] # video.y2)

\* A position that the new mode does not have becomes the start of a line.
FitLine(v) ==
  IF v.line >= Lines[v.mode][v.interlaced] \/ v.cycle >= CyclesInLine(v)
  THEN IncrementLine([v EXCEPT !.cycle = 0])
  ELSE v

UpdateDisplayMode(d) ==
  LET changed == d.interlaced # video.interlaced \/ d.mode # video.mode
      Moved(v) == IF changed THEN FitLine(v) ELSE v
  IN  Reschedule([CaughtUp EXCEPT !.video =
                    Moved([@ EXCEPT !.divider = d.divider, !.interlaced = d.interlaced,
                                    !.mode = d.mode])],
                 changed)

-----------------------------------------------------------------------------
\* process_scheduler_events.
HandleVBlank ==
  /\ "VBlank" \in Ready(due, 0)
  /\ NextVBlank(Unschedule(due, "VBlank"))
  /\ UNCHANGED <<source, syncMode>>

HandleTimerIrq(i) ==
  /\ Irq(i) \in Ready(due, 0)
  /\ TimersAhead(Unschedule(due, Irq(i)), CaughtUp, source)
  /\ UNCHANGED <<source, syncMode>>

\* The program acknowledges the interrupts in I_STAT.
WriteInterruptStatus ==
  /\ CpuRuns
  /\ timer' = [i \in Indices |-> [timer[i] EXCEPT !.flag = FALSE]]
  /\ UNCHANGED <<video, source, sync, syncMode, elapsed, phase, due>>

UseTimer(i) ==
  \/ HandleModeRead(i)
  \/ \E value \in Targets : WriteCounter(i, value) \/ WriteTarget(i, value)
  \/ \E m \in ModeWrites[i] : HandleModeWrite(i, m)

UseGpu ==
  \/ \E x \in XRanges : UpdateHorizontalDisplayRange(x)
  \/ \E y \in YRanges : UpdateVerticalDisplayRange(y)
  \/ \E d \in Displays : UpdateDisplayMode(d)

\* Time, events, and uses that leave the registers as they are.
Elapse ==
  \/ \E n \in 1..MaxRun : Run(n)
  \/ Read
  \/ WriteInterruptStatus
  \/ HandleVBlank
  \/ \E i \in Indices : HandleTimerIrq(i)

Next == Elapse \/ UseGpu \/ \E i \in Indices : UseTimer(i)

Spec == Init /\ [][Next]_vars

-----------------------------------------------------------------------------
(***************************************************************************)
(* Properties                                                              *)
(***************************************************************************)
\* Types, and a place of the video clock that its line has: catch_up
\* subtracts it from the line's cycles, which an interlaced last line and the
\* other video mode have fewer of.
TypeOK ==
  /\ timer \in [Indices -> Timers]
  /\ source \in [Indices -> {"system", "other"}] /\ sync \in [Indices -> BOOLEAN]
  /\ video.product \in 0..(CpuClock - 1)
  /\ video.line \in 0..(Lines[video.mode][video.interlaced] - 1)
  /\ video.cycle \in 0..(CyclesInLine(video) - 1)
  /\ elapsed \in 0..MaxElapsed /\ phase \in 0..(Div - 1)
  /\ DOMAIN due \subseteq {"VBlank"} \cup {Irq(i) : i \in Indices}

\* "Triggers once per frame (when scanline == Y2)" (api.rs:519): whatever the
\* program has done to the display's range and mode since the event was
\* scheduled, the line is the range's end when the VBlank is due. It may be
\* handled later, after the instruction or the DMA in which it became due. A
\* range that ends below the frame has no such line.
VBlankAtY2 ==
  [][("VBlank" \in Ready(due, 0) \ Ready(due', 0)
        /\ video.y1 < video.y2 /\ video.y2 < Lines[video.mode][video.interlaced])
       => LET at == elapsed + due["VBlank"]
              v == CatchUp(video, timer, phase, at).video
          IN  at >= 0 => v.line = video.y2 /\ InVBlank(v)]_vars

\* Synchronization may put a counter back behind a target that it has passed,
\* which no event is moved for.
ResetsBehindTarget(i) ==
  /\ sync[i] /\ ResetsAtBlank(syncMode[i])
  /\ timer[i].irqAtTarget /\ ~timer[i].resetAtTarget

\* An event never lets an interrupt of a timer that counts CPU cycles come
\* late: it is due when the interrupt is, or earlier, after a synchronization
\* has reset or paused the timer.
IrqsOnTime ==
  \A i \in Indices :
    LET clocks == ClocksUntilIrq(timer[i])
    IN  clocks # 0 /\ (source[i] = "system" \/ i = 2) /\ ~ResetsBehindTarget(i)
          => /\ Irq(i) \in DOMAIN due
             /\ due[Irq(i)] + elapsed <= IrqDelay(i, source[i], clocks, video, phase)

\* Without synchronization it does not matter how often the timers are caught
\* up: a program that reads them all the time sees what one sees that does not.
ReadsDoNotDisturb ==
  ~sync[0] /\ ~sync[1] /\ (\A i \in Indices : ~CountsToggles(timer[i]))
    => \A later \in Spans :
         CatchUp(CaughtUp.video, CaughtUp.timer, Now, later)
           = CatchUp(video, timer, phase, elapsed + later)

\* "Triggers once per frame (...) unless the GPU's vertical display range is
\* invalid" (api.rs:519-520): with a valid one a VBlank is scheduled.
ValidRangeHasVBlank == video.y1 < video.y2 => "VBlank" \in DOMAIN due

\* An interrupt is raised only by clocks in which the counter reaches the
\* target or its maximum, as the tests of the timers assert (tests.rs:74).
IrqsAreReached ==
  \A i \in Indices :
    LET now == CaughtUp.timer[i]
    IN  now.irq # timer[i].irq => now.reachedTarget \/ now.reachedMax
=============================================================================
