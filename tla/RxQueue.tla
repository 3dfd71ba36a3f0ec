------------------------------ MODULE RxQueue ------------------------------
(***************************************************************************)
(* What a program sees of a serial port's receive FIFO (sio/rxfifo.rs and  *)
(* its tests): the next FIFO_LEN bytes that it would read.  The last byte  *)
(* received repeats behind the others until the queue has been read once   *)
(* around, then there are zeros; in a full queue a byte replaces the last. *)
(***************************************************************************)
EXTENDS Integers

CONSTANTS FIFO_LEN,   \* 8
          Bytes       \* 0 is one of them
VARIABLES upcoming, received  \* received: bytes that were not read

Zeros == [i \in 1 .. FIFO_LEN |-> 0]
QueueInit == upcoming = Zeros /\ received = 0
QueueClear == upcoming' = Zeros /\ received' = 0

QueuePush(b) ==
    IF received = FIFO_LEN
    THEN upcoming' = [upcoming EXCEPT ![FIFO_LEN] = b] /\ UNCHANGED received
    ELSE /\ upcoming' = [i \in 1 .. FIFO_LEN |-> IF i > received THEN b ELSE upcoming[i]]
         /\ received' = received + 1

QueuePop ==
    /\ upcoming' = [i \in 1 .. FIFO_LEN |-> IF i = FIFO_LEN THEN 0 ELSE upcoming[i + 1]]
    /\ received' = IF received = 0 THEN 0 ELSE received - 1

QueueSpec ==
    QueueInit /\ [][QueuePop \/ QueueClear \/ \E b \in Bytes : QueuePush(b)]_<<upcoming, received>>
=============================================================================
