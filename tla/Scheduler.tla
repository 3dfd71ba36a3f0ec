----------------------------- MODULE Scheduler ------------------------------
(***************************************************************************)
(* The scheduler as its users see it: a cycle counter and a map of due     *)
(* events.  SchedulerHeap implements it with an array.                     *)
(***************************************************************************)
EXTENDS EventMap

CONSTANTS
  EventTypes,  \* SchedulerEventType
  MaxCycle     \* bound on the cycle counter and on event times

Cycles == 0..MaxCycle

VARIABLES
  now,     \* cpu_cycle_counter
  due,     \* the scheduled events
  popped   \* what the last operation returned: {}, or {event}

vars == <<now, due, popped>>

Init == now = 0 /\ due = NoEvents /\ popped = {}

IncrementCpuCycles(n) ==
  /\ now + n \in Cycles
  /\ now' = now + n
  /\ popped' = {} /\ UNCHANGED due

UpdateOrPushEvent(e, t) ==
  due' = UpdateOrPush(due, e, t) /\ popped' = {} /\ UNCHANGED now

MinOrPushEvent(e, t) ==
  due' = MinOrPush(due, e, t) /\ popped' = {} /\ UNCHANGED now

RemoveEvent(e) ==
  due' = Unschedule(due, e) /\ popped' = {} /\ UNCHANGED now

PopReadyEvent ==
  /\ \E e \in Ready(due, now) :
       /\ due' = Unschedule(due, e)
       /\ popped' = {[type |-> e, at |-> due[e]]}
  /\ UNCHANGED now

Next ==
  \/ \E n \in Cycles : IncrementCpuCycles(n)
  \/ \E e \in EventTypes, t \in Cycles : UpdateOrPushEvent(e, t)
  \/ \E e \in EventTypes, t \in Cycles : MinOrPushEvent(e, t)
  \/ \E e \in EventTypes : RemoveEvent(e)
  \/ PopReadyEvent

Spec == Init /\ [][Next]_vars
=============================================================================
