------------------------------ MODULE MCTimers ------------------------------
EXTENDS Timers

\* Lines of a few cycles and frames of a few lines, a little shorter when
\* interlaced in one mode only, as in the source.
MCGpuClock == [Ntsc |-> 3, Pal |-> 4]
MCLineCycles == [Ntsc |-> 7, Pal |-> 6]
MCLines ==
  [Ntsc |-> [interlaced \in BOOLEAN |-> 3],
   Pal |-> [interlaced \in BOOLEAN |-> IF interlaced THEN 4 ELSE 5]]

\* Valid ranges, one of them with the end of an invalid one.
MCXRanges == {<<2, 4>>}
MCYRanges == {<<0, 1>>, <<0, 2>>, <<2, 2>>}

Display(divider, interlaced, mode) ==
  [divider |-> divider, interlaced |-> interlaced, mode |-> mode]
MCDisplays == {Display(2, FALSE, "Ntsc"), Display(2, TRUE, "Ntsc"), Display(3, TRUE, "Pal")}

\* A free running timer without interrupts, and some with.
Free ==
  [sync |-> FALSE, syncMode |-> "FreeRun", source |-> "system", resetAtTarget |-> FALSE,
   irqAtTarget |-> FALSE, irqAtMax |-> FALSE, repeat |-> FALSE, toggle |-> FALSE,
   ack |-> TRUE]
Once == [Free EXCEPT !.irqAtTarget = TRUE, !.irqAtMax = TRUE]
Pulses == [Free EXCEPT !.resetAtTarget = TRUE, !.irqAtTarget = TRUE, !.repeat = TRUE]
TogglesAtTarget == [Pulses EXCEPT !.toggle = TRUE, !.ack = FALSE]
TogglesOnTheWay == [TogglesAtTarget EXCEPT !.resetAtTarget = FALSE]

Synchronized(m, mode) == [m EXCEPT !.sync = TRUE, !.syncMode = mode]
Other(m) == [m EXCEPT !.source = "other"]

MCModeWrites ==
  [i \in Indices |->
     CASE i = 0 -> {Other(Once), Synchronized(Pulses, "ResetAtBlank"),
                    Synchronized(Once, "PauseTillNextBlank")}
       [] i = 1 -> {Other(TogglesAtTarget), Synchronized(Other(Once), "PauseDuringBlank"),
                    Synchronized(Pulses, "PauseOutsideBlank")}
       [] i = 2 -> {Other(Pulses), TogglesOnTheWay, Synchronized(Once, "Stop")}]

\* The program uses one of the timers all the time, with a display of its own,
\* or GP1.
VARIABLE focus
MCInit ==
  /\ Init
  /\ focus \in {i \in Indices : video.y2 = 2 /\ video.divider = 2
                             /\ video.interlaced = (i # 2)} \cup {3}
MCNext ==
  /\ Elapse \/ (focus = 3 /\ UseGpu) \/ \E i \in Indices : focus = i /\ UseTimer(i)
  /\ UNCHANGED focus
MCSpec == MCInit /\ [][MCNext]_<<vars, focus>>
=============================================================================
