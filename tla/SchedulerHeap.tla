--------------------------- MODULE SchedulerHeap ----------------------------
(***************************************************************************)
(* UpdateableMinHeap (scheduler/heap.rs) under the operations of Scheduler *)
(* (scheduler.rs).  One iteration of a reheapify loop is one step, so the  *)
(* loop invariants are invariants of the specification; the heap has one   *)
(* owner, and no operation starts while another one runs (pc = "idle").    *)
(***************************************************************************)
EXTENDS Integers, FiniteSets

CONSTANTS
  EventTypes,  \* SchedulerEventType
  VBlank,      \* the type of SchedulerEvent::default()
  Capacity,    \* 20 in the code
  MaxCycle     \* bound on the cycle counter and on event times

ASSUME TypesAssumption ==
  /\ VBlank \in EventTypes
  /\ IsFiniteSet(EventTypes)
ASSUME CapacityAssumption ==
  Capacity \in Nat /\ Cardinality(EventTypes) <= Capacity
ASSUME MaxCycleAssumption == MaxCycle \in Nat

Cycles == 0..MaxCycle
Never == MaxCycle + 1          \* u64::MAX

Event == [type : EventTypes, at : 0..Never]
DefaultEvent == [type |-> VBlank, at |-> Never]

Slot == 0..Capacity - 1
Loops == {"reheapify_down", "reheapify_up"}

VARIABLES
  now,     \* Scheduler::cpu_cycle_counter
  heap,    \* the array
  len,     \* how many of its slots are in use
  pc,      \* "idle", or the loop that is running
  cur,     \* the loop's i
  op,      \* the operation that runs the loop
  popped   \* what the last operation returned: {}, or {event}

vars == <<now, heap, len, pc, cur, op, popped>>

Init ==
  /\ now = 0
  /\ heap = [i \in Slot |-> DefaultEvent]
  /\ len = 0
  /\ pc = "idle" /\ cur = 0 /\ op = "none"
  /\ popped = {}

(***************************************************************************)
(* Entry points.  Each does what precedes its reheapify call and enters    *)
(* the loop.                                                               *)
(***************************************************************************)
Used == 0..len - 1
Swap(h, i, j) == [h EXCEPT ![i] = h[j], ![j] = h[i]]

Enter(loop, i, o) == pc' = loop /\ cur' = i /\ op' = o

\* The slot of the scheduled event of type e: iter().position(pred).
Holds(e) == {i \in Used : heap[i].type = e}

Push(ev) ==
  /\ Holds(ev.type) = {}
  /\ len < Capacity                                   \* assert!
  /\ heap' = [heap EXCEPT ![len] = ev]
  /\ len' = len + 1
  /\ Enter("reheapify_down", len, "push")

UpdateOrPushEvent(ev) ==
  /\ pc = "idle"
  /\ \/ Push(ev)
     \/ \E i \in Holds(ev.type) :
          /\ heap' = [heap EXCEPT ![i] = ev]
          /\ IF ev.at < heap[i].at
               THEN Enter("reheapify_down", i, "update")
               ELSE Enter("reheapify_up", i, "update")
          /\ UNCHANGED len
  /\ popped' = {} /\ UNCHANGED now

MinOrPushEvent(ev) ==
  /\ pc = "idle"
  /\ \/ Push(ev)
     \/ \E i \in Holds(ev.type) :
          /\ ev.at < heap[i].at
          /\ heap' = [heap EXCEPT ![i] = ev]
          /\ Enter("reheapify_down", i, "update")
          /\ UNCHANGED len
  /\ popped' = {} /\ UNCHANGED now

RemoveEvent(e) ==
  /\ pc = "idle"
  /\ \E i \in Holds(e) :
       /\ heap' = Swap(heap, i, len - 1)
       /\ IF heap[len - 1].at < heap[i].at
            THEN Enter("reheapify_down", i, "remove")
            ELSE Enter("reheapify_up", i, "remove")
  /\ len' = len - 1
  /\ popped' = {} /\ UNCHANGED now

IsEventReady == now >= heap[0].at

PopReadyEvent ==
  /\ pc = "idle"
  /\ IsEventReady
  /\ len # 0                                          \* assert_ne!
  /\ heap' = Swap(heap, 0, len - 1)
  /\ len' = len - 1
  /\ Enter("reheapify_up", 0, "pop")
  /\ popped' = {} /\ UNCHANGED now

IncrementCpuCycles(n) ==
  /\ pc = "idle"
  /\ now + n \in Cycles
  /\ now' = now + n /\ popped' = {}
  /\ UNCHANGED <<heap, len, pc, cur, op>>

(***************************************************************************)
(* The loops.                                                              *)
(***************************************************************************)
Parent(i) == (i - 1) \div 2

\* Mutated Leave: an emptied heap keeps the last event in its root.
LeaveStaleRoot ==
  /\ pc' = "idle" /\ op' = "none" /\ cur' = 0
  /\ popped' = IF op = "pop" THEN {heap[len]} ELSE {}
  /\ UNCHANGED <<now, heap, len>>

\* The loop body returns: pop and remove_one restore the default event in
\* the root of an emptied heap; pop returns the event it swapped out.
Leave ==
  /\ pc' = "idle" /\ op' = "none" /\ cur' = 0
  /\ popped' = IF op = "pop" THEN {heap[len]} ELSE {}
  /\ heap' = IF op \in {"pop", "remove"} /\ len = 0
               THEN [heap EXCEPT ![0] = DefaultEvent]
               ELSE heap
  /\ UNCHANGED <<now, len>>

MoveTo(j) ==
  /\ heap' = Swap(heap, cur, j)
  /\ cur' = j
  /\ UNCHANGED <<now, len, pc, op, popped>>

\* reheapify_down: towards the root.
DownDone == cur = 0 \/ heap[Parent(cur)].at <= heap[cur].at

ReheapifyDown ==
  /\ pc = "reheapify_down"
  /\ IF DownDone THEN Leave ELSE MoveTo(Parent(cur))

\* reheapify_up: towards the leaves.
Left(i) == 2 * i + 1
Right(i) == 2 * i + 2

UpDone ==
  \/ Left(cur) >= len
  \/ /\ heap[cur].at <= heap[Left(cur)].at
     /\ Right(cur) >= len \/ heap[cur].at <= heap[Right(cur)].at

\* Mutated SmallerChild: the right child is never chosen.
AlwaysLeft == Left(cur)

SmallerChild ==
  IF Right(cur) < len /\ heap[Right(cur)].at < heap[Left(cur)].at
    THEN Right(cur) ELSE Left(cur)

ReheapifyUp ==
  /\ pc = "reheapify_up"
  /\ IF UpDone THEN Leave ELSE MoveTo(SmallerChild)

Next ==
  \/ \E e \in EventTypes, t \in Cycles : UpdateOrPushEvent([type |-> e, at |-> t])
  \/ \E e \in EventTypes, t \in Cycles : MinOrPushEvent([type |-> e, at |-> t])
  \/ \E e \in EventTypes : RemoveEvent(e)
  \/ PopReadyEvent
  \/ \E n \in Cycles : IncrementCpuCycles(n)
  \/ ReheapifyDown
  \/ ReheapifyUp

Spec == Init /\ [][Next]_vars

(***************************************************************************)
(* Properties.                                                             *)
(***************************************************************************)
TypeOK ==
  /\ now \in Cycles
  /\ heap \in [Slot -> Event]
  /\ len \in 0..Capacity
  /\ pc \in Loops \cup {"idle"}
  /\ cur \in Slot
  /\ op \in {"none", "push", "update", "remove", "pop"}
  /\ popped \in {{}} \cup {{ev} : ev \in Event}

\* What the operation that runs the loop still has to tidy up, and what it
\* may rely on.
LoopState ==
  /\ \A i \in Used : heap[i].at \in Cycles
  /\ pc = "idle" <=> op = "none"
  /\ pc = "idle" /\ len = 0 => heap[0] = DefaultEvent
  /\ pc # "idle" => popped = {}
  /\ pc = "reheapify_down" => cur \in Used
  /\ op \in {"push", "update"} => len > 0
  /\ op = "pop" => /\ pc = "reheapify_up"
                   /\ len < Capacity
                   /\ heap[len].at \in Cycles
  
\* No event type is scheduled twice: the timers, the serial ports and DMA rely
\* on replacing their one pending event.
UniqueTypes ==
  \A i, j \in Used : heap[i].type = heap[j].type => i = j

\* No slot is due before its parent, save for the pair the running loop is
\* about to compare: above cur in reheapify_down, below it in reheapify_up.
\* The children of cur are never due before the parent of cur, so moving cur
\* cannot break the order anywhere else.
ChildOf(k, i) == k \in {Left(i), Right(i)}

InOrder(i, k) == heap[i].at <= heap[k].at

HeapOrder ==
  /\ \A i, k \in Used :
       /\ ChildOf(k, i)
       /\ ~(pc = "reheapify_down" /\ k = cur)
       /\ ~(pc = "reheapify_up" /\ i = cur)
       => InOrder(i, k)
  /\ pc # "idle" =>
       \A g, k \in Used : ChildOf(cur, g) /\ ChildOf(k, cur) => InOrder(g, k)

\* Neither assertion of the heap fails: is_event_ready is false of an empty
\* heap (the root holds the default event again), and a push finds room.
AssertsHold ==
  pc = "idle" =>
    /\ IsEventReady => len # 0
    /\ \A e \in EventTypes : Holds(e) = {} => len < Capacity

(***************************************************************************)
(* The heap implements the map of Scheduler.  An operation takes effect    *)
(* when it enters its loop; an event being popped waits in slot len.       *)
(***************************************************************************)
MapOf(h, n) ==
  [e \in {h[i].type : i \in 0..n - 1} |->
     h[CHOOSE i \in 0..n - 1 : h[i].type = e].at]

Scheduled == MapOf(heap, len)

Abstract ==
  INSTANCE Scheduler WITH
    due <- Scheduled,
    popped <- IF op = "pop" THEN {heap[len]} ELSE popped

ImplementsScheduler == Abstract!Spec
=============================================================================
