-------------------------- MODULE MCSchedulerHeap ---------------------------
EXTENDS SchedulerHeap, TLC

CONSTANTS Dma, Timer0, Timer1, Sio0, Sio1

\* VBlank is named by DefaultEvent, so it is left out of the symmetry set.
Interchangeable == Permutations(EventTypes \ {VBlank})

\* The slots that some step still reads: those in use, the root (which an
\* empty heap keeps reading) and the event on its way out of pop.
LiveView ==
  <<now, len, pc, cur, op, popped,
    [i \in Slot |-> IF i < len \/ i = 0 \/ (op = "pop" /\ i = len)
                      THEN heap[i] ELSE DefaultEvent]>>
=============================================================================
