------------------------------ MODULE EventMap ------------------------------
(***************************************************************************)
(* What scheduler.rs promises of its event queue, as operators on a map    *)
(* from the types of the scheduled events to the CPU cycle each is due at. *)
(* A type that is not in the domain is not scheduled.                      *)
(***************************************************************************)
EXTENDS Integers

\* No event is scheduled.
NoEvents == [e \in {} |-> 0]

\* update_or_push_event: at most one event of a type, the newest time wins.
UpdateOrPush(due, e, t) ==
  [x \in DOMAIN due \cup {e} |-> IF x = e THEN t ELSE due[x]]

\* min_or_push_event: at most one event of a type, the earliest time wins.
MinOrPush(due, e, t) ==
  IF e \in DOMAIN due /\ due[e] <= t THEN due ELSE UpdateOrPush(due, e, t)

\* remove_event.
Unschedule(due, e) == [x \in DOMAIN due \ {e} |-> due[x]]

\* The events pop_ready_event may return at cycle now: an earliest one, and
\* only when its time has come. Ties are broken by the heap's layout, which
\* is not promised.
Ready(due, now) ==
  {e \in DOMAIN due : due[e] <= now /\ \A f \in DOMAIN due : due[e] <= due[f]}
=============================================================================
