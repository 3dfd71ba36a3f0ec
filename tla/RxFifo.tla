------------------------------- MODULE RxFifo -------------------------------
(***************************************************************************)
(* The receive FIFO of a serial port, a ring (sio/rxfifo.rs).              *)
(***************************************************************************)
EXTENDS Integers

CONSTANTS FIFO_LEN, Bytes

FifoAssumption == FIFO_LEN \in Nat \ {0}
ASSUME LengthAssumed == FifoAssumption

VARIABLES values, write_idx, read_idx, len

fifoVars == <<values, write_idx, read_idx, len>>

FifoInit ==
    /\ values = [i \in 0 .. FIFO_LEN - 1 |-> 0]
    /\ write_idx = 0 /\ read_idx = 0 /\ len = 0

(* The value fills every slot that is left. *)
Push(b) ==
    IF len = FIFO_LEN
    THEN /\ values' = [values EXCEPT ![(write_idx - 1) % FIFO_LEN] = b]
         /\ UNCHANGED <<write_idx, read_idx, len>>
    ELSE /\ values' = [i \in 0 .. FIFO_LEN - 1 |->
                          IF (i - write_idx) % FIFO_LEN < FIFO_LEN - len THEN b ELSE values[i]]
         /\ write_idx' = (write_idx + 1) % FIFO_LEN
         /\ len' = len + 1
         /\ UNCHANGED read_idx

\* Mutant: an empty queue is read on without its end.
PopPastEnd ==
    /\ values' = [values EXCEPT ![read_idx] = 0]
    /\ read_idx' = (read_idx + 1) % FIFO_LEN
    /\ len' = IF len # 0 THEN len - 1 ELSE 0
    /\ UNCHANGED write_idx

Pop ==
    /\ values' = [values EXCEPT ![read_idx] = 0]
    /\ read_idx' = (read_idx + 1) % FIFO_LEN
    /\ IF len # 0 THEN len' = len - 1 /\ UNCHANGED write_idx
       ELSE write_idx' = read_idx' /\ UNCHANGED len

Clear ==
    /\ values' = [i \in 0 .. FIFO_LEN - 1 |-> 0]
    /\ write_idx' = 0 /\ read_idx' = 0 /\ len' = 0

FifoNext == Pop \/ Clear \/ \E b \in Bytes : Push(b)
FifoSpec == FifoInit /\ [][FifoNext]_fifoVars
-----------------------------------------------------------------------------
(* However often it is overrun and read while empty, the ring gives the     *)
(* bytes that the queue of RxQueue gives.                                   *)
Queue == INSTANCE RxQueue
             WITH upcoming <- [i \in 1 .. FIFO_LEN |-> values[(read_idx + i - 1) % FIFO_LEN]],
                  received <- len
IsQueue == Queue!QueueSpec
=============================================================================
