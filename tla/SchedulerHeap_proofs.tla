------------------------ MODULE SchedulerHeap_proofs ------------------------
(***************************************************************************)
(* Proofs about the scheduler's heap, for every capacity, set of event     *)
(* types and range of cycles: its representation invariant, the order of   *)
(* the heap, and that neither of its assertions can fail.                  *)
(***************************************************************************)
EXTENDS SchedulerHeap, FiniteSetTheorems, WellFoundedInduction, TLAPS

\* The inductive invariant.
IInv == TypeOK /\ LoopState /\ UniqueTypes /\ HeapOrder

LEMMA ConstantFacts ==
  /\ Capacity \in Nat /\ Capacity >= 1 /\ 0 \in Slot
  /\ MaxCycle \in Nat /\ Never \in Nat
  /\ DefaultEvent \in Event
<1>1. Cardinality({VBlank}) = 1
  BY FS_Singleton
<1>2. Cardinality({VBlank}) <= Cardinality(EventTypes)
  BY FS_Subset, TypesAssumption
<1>3. Cardinality(EventTypes) \in Nat
  BY FS_CardinalityType, TypesAssumption
<1>. QED
  BY <1>1, <1>2, <1>3, TypesAssumption, CapacityAssumption, MaxCycleAssumption
  DEF Slot, Never, DefaultEvent, Event

\* The position of a parent, without its division.
LEMMA ParentFact ==
  ASSUME NEW i \in Nat, i # 0
  PROVE  Parent(i) \in Nat /\ Parent(i) < i /\ ChildOf(i, Parent(i))
BY DEF Parent, ChildOf, Left, Right

\* The root of an idle heap is an earliest event: were some event earlier, the
\* one of them in the lowest slot would be due before its parent.
LEMMA RootIsEarliest ==
  ASSUME TypeOK, LoopState, HeapOrder, pc = "idle", NEW i \in Used
  PROVE  heap[0].at <= heap[i].at
<1>. DEFINE Earlier == {k \in Used : heap[k].at < heap[0].at}
<1>. USE ConstantFacts
<1>0. /\ Used \subseteq Nat
      /\ \A k \in Used : heap[k].at \in Int
      /\ heap[0].at \in Int /\ len \in Nat
  BY DEF Used, TypeOK, LoopState, Cycles
<1>1. SUFFICES ASSUME Earlier # {} PROVE FALSE
  BY <1>0
<1>2. PICK k \in Earlier : \A j \in Earlier : <<j, k>> \notin OpToRel(<, Nat)
  <2>1. Earlier \subseteq Nat
    BY <1>0
  <2>. QED
    BY <2>1, <1>1, NatLessThanWellFounded, WFMin
<1>3. k \in Nat /\ k # 0 /\ k \in Used
  BY <1>0
<1>4. Parent(k) \in Used /\ ChildOf(k, Parent(k)) /\ Parent(k) < k
  BY <1>0, <1>3, ParentFact DEF Used
<1>5. InOrder(Parent(k), k)
  BY <1>3, <1>4 DEF HeapOrder
<1>6. Parent(k) \in Earlier
  <2>1. heap[Parent(k)].at <= heap[k].at
    BY <1>5 DEF InOrder
  <2>2. heap[k].at < heap[0].at
    OBVIOUS
  <2>3. /\ heap[Parent(k)].at \in Int
        /\ heap[k].at \in Int /\ heap[0].at \in Int
    BY <1>0, <1>3, <1>4
  <2>4. heap[Parent(k)].at < heap[0].at
    BY <2>1, <2>2, <2>3
  <2>. QED
    BY <1>4, <2>4
<1>7. <<Parent(k), k>> \in OpToRel(<, Nat)
  BY <1>3, <1>4, <1>0 DEF OpToRel
<1>. QED
  BY <1>2, <1>6, <1>7

\* An event that is not scheduled finds a free slot: the scheduled ones have
\* different types, and there are at most Capacity types.
LEMMA RoomToPush ==
  ASSUME TypeOK, UniqueTypes, NEW e \in EventTypes, Holds(e) = {}
  PROVE  len < Capacity
<1>. DEFINE T == EventTypes \ {e}
            f == [i \in Used |-> heap[i].type]
<1>. USE ConstantFacts
<1>0. len \in Nat /\ Used \subseteq Slot
  BY DEF TypeOK, Used, Slot
<1>1. IsFiniteSet(Used) /\ Cardinality(Used) = len
  BY <1>0, FS_Interval DEF Used
<1>2. IsFiniteSet(T) /\ Cardinality(T) = Cardinality(EventTypes) - 1
  BY FS_RemoveElement, TypesAssumption
<1>3. Cardinality(EventTypes) \in Nat
  BY FS_CardinalityType, TypesAssumption
<1>4. f \in [Used -> T]
  BY <1>0 DEF TypeOK, Event, Holds
<1>5. ~(Cardinality(T) < Cardinality(Used))
  <2>1. SUFFICES ASSUME Cardinality(T) < Cardinality(Used) PROVE FALSE
    OBVIOUS
  <2>2. PICK i, j \in Used : i # j /\ f[i] = f[j]
    <3>. HIDE DEF f, T
    <3>. QED
      BY <1>1, <1>2, <1>4, <2>1, FS_PigeonHole
  <2>. QED
    BY <2>2 DEF UniqueTypes
<1>. QED
  BY <1>0, <1>1, <1>2, <1>3, <1>5, CapacityAssumption

-----------------------------------------------------------------------------
\* Operations.

LEMMA PushStep ==
  ASSUME IInv, pc = "idle", NEW ev \in Event, ev.at \in Cycles, Push(ev),
         popped' = {}
  PROVE  LoopState' /\ UniqueTypes' /\ HeapOrder'
         /\ heap' \in [Slot -> Event] /\ len' \in 0..Capacity
         /\ cur' \in Slot
<1>. USE ConstantFacts DEF IInv, TypeOK, Push, Enter, Slot
<1>1. /\ len \in Nat /\ len \in Slot /\ len' = len + 1
      /\ \A i \in Slot : heap'[i] = IF i = len THEN ev ELSE heap[i]
      /\ heap' \in [Slot -> Event]
  OBVIOUS
<1>2. LoopState'
  BY <1>1 DEF LoopState, Used
<1>3. UniqueTypes'
  BY <1>1 DEF UniqueTypes, Used, Holds
<1>4. HeapOrder'
  BY <1>1 DEF HeapOrder, Used, InOrder, ChildOf, Left, Right
<1>. QED
  BY <1>1, <1>2, <1>3, <1>4

\* Overwriting slot i with an event of the same type and starting the loop
\* that suits the change of its time.
LEMMA ReplaceStep ==
  ASSUME IInv, pc = "idle", NEW ev \in Event, ev.at \in Cycles,
         NEW i \in Holds(ev.type),
         heap' = [heap EXCEPT ![i] = ev], len' = len, cur' = i,
         op' = "update", popped' = {},
         \/ pc' = "reheapify_down" /\ ev.at < heap[i].at
         \/ pc' = "reheapify_up" /\ ~(ev.at < heap[i].at)
  PROVE  LoopState' /\ UniqueTypes' /\ HeapOrder'
         /\ heap' \in [Slot -> Event] /\ cur' \in Slot
<1>. USE ConstantFacts DEF IInv, TypeOK, Slot
<1>1. /\ len \in Nat /\ i \in Used /\ i \in Slot /\ heap[i].type = ev.type
      /\ \A j \in Slot : heap'[j] = IF j = i THEN ev ELSE heap[j]
      /\ heap' \in [Slot -> Event]
  BY DEF Holds, Used
<1>2. LoopState'
  BY <1>1 DEF LoopState, Used
<1>3. UniqueTypes'
  BY <1>1 DEF UniqueTypes, Used
<1>4. HeapOrder'
  <2>1. \A j, k \in Used : ChildOf(k, j) => InOrder(j, k)
    BY DEF HeapOrder
  <2>2. \A j \in Used : heap[j].at \in Int
    BY DEF LoopState, Cycles
  <2>. QED
    BY <1>1, <2>1, <2>2 DEF HeapOrder, Used, InOrder, ChildOf, Left, Right, Cycles
<1>. QED
  BY <1>1, <1>2, <1>3, <1>4

\* What the other lemmas need of a state that satisfies the invariant.
LEMMA Facts ==
  ASSUME IInv
  PROVE  /\ len \in 0..Capacity /\ len \in Nat /\ cur \in Slot
         /\ Used \subseteq Slot /\ Slot \subseteq Nat
         /\ heap \in [Slot -> Event]
         /\ \A i \in Used : heap[i].at \in Cycles /\ heap[i].at \in Int
BY ConstantFacts DEF IInv, TypeOK, LoopState, Used, Slot, Cycles

LEMMA RemoveStep ==
  ASSUME IInv, NEW e \in EventTypes, RemoveEvent(e)
  PROVE  IInv'
<1>. USE ConstantFacts
<1>1. PICK i \in Holds(e) :
        /\ heap' = Swap(heap, i, len - 1)
        /\ IF heap[len - 1].at < heap[i].at
             THEN Enter("reheapify_down", i, "remove")
             ELSE Enter("reheapify_up", i, "remove")
  BY DEF RemoveEvent
<1>2. /\ len' = len - 1 /\ popped' = {} /\ now' = now /\ pc = "idle"
      /\ op' = "remove" /\ cur' = i
      /\ i \in Used /\ len - 1 \in Used
      /\ pc' \in Loops
      /\ pc' = "reheapify_down" => i < len'
  BY <1>1, Facts DEF RemoveEvent, Holds, Enter, Used, Loops
<1>3. /\ heap' \in [Slot -> Event]
      /\ \A j \in Slot : heap'[j] = IF j = len - 1 THEN heap[i]
                                    ELSE IF j = i THEN heap[len - 1] ELSE heap[j]
  BY <1>1, <1>2, Facts DEF Swap
<1>4. TypeOK'
  BY <1>2, <1>3, Facts DEF IInv, TypeOK, Slot
<1>5. LoopState'
  BY <1>2, <1>3, Facts DEF IInv, LoopState, Used, Loops
<1>6. UniqueTypes'
  BY <1>2, <1>3, Facts DEF IInv, UniqueTypes, Used
<1>7. HeapOrder'
  <2>1. \A j, k \in Used : ChildOf(k, j) => InOrder(j, k)
    BY <1>2 DEF IInv, HeapOrder
  <2>2. /\ pc' = "reheapify_down" => heap[len - 1].at < heap[i].at
        /\ pc' = "reheapify_up" => heap[i].at <= heap[len - 1].at
    BY <1>1, <1>2, Facts DEF Enter
  <2>3. \A j \in Used' : j \in Used /\ j # len - 1 /\ j \in Nat
    BY <1>2, Facts DEF Used
  <2>4. \A j \in Used' : heap'[j] = IF j = i THEN heap[len - 1] ELSE heap[j]
    BY <1>3, <2>3, Facts
  <2>. QED
    BY <1>2, <2>1, <2>2, <2>3, <2>4, Facts
    DEF HeapOrder, InOrder, ChildOf, Left, Right, Loops
<1>. QED
  BY <1>4, <1>5, <1>6, <1>7 DEF IInv

LEMMA PopStep ==
  ASSUME IInv, PopReadyEvent
  PROVE  IInv'
<1>. USE ConstantFacts
<1>2. /\ len' = len - 1 /\ popped' = {} /\ now' = now /\ pc = "idle"
      /\ op' = "pop" /\ cur' = 0 /\ pc' = "reheapify_up"
      /\ 0 \in Used /\ len - 1 \in Used
  BY Facts DEF PopReadyEvent, Enter, Used
<1>3. /\ heap' \in [Slot -> Event]
      /\ \A j \in Slot : heap'[j] = IF j = len - 1 THEN heap[0]
                                    ELSE IF j = 0 THEN heap[len - 1] ELSE heap[j]
  BY <1>2, Facts DEF PopReadyEvent, Swap
<1>4. TypeOK'
  BY <1>2, <1>3, Facts DEF IInv, TypeOK, Slot, Loops
<1>5. LoopState'
  BY <1>2, <1>3, Facts DEF IInv, LoopState, Used
<1>6. UniqueTypes'
  BY <1>2, <1>3, Facts DEF IInv, UniqueTypes, Used
<1>7. HeapOrder'
  <2>1. \A j, k \in Used : ChildOf(k, j) => InOrder(j, k)
    BY <1>2 DEF IInv, HeapOrder
  <2>3. \A j \in Used' : j \in Used /\ j # len - 1 /\ j \in Nat
    BY <1>2, Facts DEF Used
  <2>4. \A j \in Used' : heap'[j] = IF j = 0 THEN heap[len - 1] ELSE heap[j]
    BY <1>3, <2>3, Facts
  <2>. QED
    BY <1>2, <2>1, <2>3, <2>4, Facts
    DEF HeapOrder, InOrder, ChildOf, Left, Right
<1>. QED
  BY <1>4, <1>5, <1>6, <1>7 DEF IInv

-----------------------------------------------------------------------------
\* The loops.

LEMMA LeaveStep ==
  ASSUME IInv, pc # "idle", Leave,
         \A i, k \in Used : ChildOf(k, i) => InOrder(i, k)
  PROVE  IInv'
<1>. USE ConstantFacts
<1>1. /\ len' = len /\ now' = now /\ pc' = "idle" /\ op' = "none" /\ cur' = 0
  BY DEF Leave
<1>2. heap' \in [Slot -> Event] /\ popped' \in {{}} \cup {{ev} : ev \in Event}
  <2>1. op = "pop" => heap[len] \in Event
    BY Facts DEF IInv, LoopState, Slot
  <2>. QED
    BY <2>1, Facts DEF Leave
<1>3. \A i \in Used : heap'[i] = heap[i]
  BY Facts DEF Leave, Used
<1>4. TypeOK'
  BY <1>1, <1>2 DEF IInv, TypeOK
<1>5. LoopState'
  <2>1. op # "none"
    BY DEF IInv, LoopState
  <2>2. len = 0 => heap'[0] = DefaultEvent
    BY <2>1, Facts DEF Leave, IInv, LoopState, TypeOK
  <2>. QED
    BY <1>1, <1>3, <2>2, Facts DEF IInv, LoopState, Used
<1>6. UniqueTypes'
  BY <1>1, <1>3, Facts DEF IInv, UniqueTypes, Used
<1>7. HeapOrder'
  BY <1>1, <1>3, Facts DEF HeapOrder, Used, InOrder, ChildOf, Left, Right
<1>. QED
  BY <1>4, <1>5, <1>6, <1>7 DEF IInv

LEMMA DownStep ==
  ASSUME IInv, ReheapifyDown
  PROVE  IInv'
<1>. USE ConstantFacts
<1>0. pc = "reheapify_down" /\ cur \in Used
  BY DEF ReheapifyDown, IInv, LoopState
<1>1. CASE DownDone
  <2>1. \A i, k \in Used : ChildOf(k, i) => InOrder(i, k)
    <3>1. \A i, k \in Used : ChildOf(k, i) /\ k # cur => InOrder(i, k)
      BY <1>0 DEF IInv, HeapOrder
    <3>2. \A i \in Used : ChildOf(cur, i) => i = Parent(cur) /\ cur # 0
      BY <1>0, Facts DEF ChildOf, Left, Right, Parent
    <3>. QED
      BY <1>1, <3>1, <3>2 DEF DownDone, InOrder
  <2>. QED
    BY <1>0, <1>1, <2>1, LeaveStep DEF ReheapifyDown
<1>2. CASE ~DownDone
  <2>. DEFINE p == Parent(cur)
  <2>1. /\ cur # 0 /\ p \in Nat /\ p < cur /\ ChildOf(cur, p) /\ p \in Used
        /\ heap[cur].at < heap[p].at
    <3>1. cur # 0 /\ cur \in Nat
      BY <1>0, <1>2, Facts DEF DownDone
    <3>2. p \in Nat /\ p < cur /\ ChildOf(cur, p)
      BY <3>1, ParentFact
    <3>3. p \in Used
      BY <1>0, <3>1, <3>2, Facts DEF Used
    <3>. QED
      BY <1>0, <1>2, <3>1, <3>2, <3>3, Facts DEF DownDone
  <2>2. /\ cur' = p /\ len' = len /\ now' = now /\ pc' = pc /\ op' = op
        /\ popped' = popped
        /\ heap' \in [Slot -> Event]
        /\ \A j \in Slot : heap'[j] = IF j = cur THEN heap[p]
                                      ELSE IF j = p THEN heap[cur] ELSE heap[j]
    BY <1>0, <1>2, <2>1, Facts DEF ReheapifyDown, MoveTo, Swap
  <2>. HIDE DEF p
  <2>3. TypeOK'
    BY <2>1, <2>2, Facts DEF IInv, TypeOK
  <2>4. LoopState'
    BY <1>0, <2>1, <2>2, Facts DEF IInv, LoopState, Used
  <2>5. UniqueTypes'
    BY <1>0, <2>1, <2>2, Facts DEF IInv, UniqueTypes, Used
  <2>6. HeapOrder'
    <3>1. \A i, k \in Used : ChildOf(k, i) /\ k # cur => heap[i].at <= heap[k].at
      BY <1>0 DEF IInv, HeapOrder, InOrder
    <3>2. \A k \in Used : ChildOf(k, cur) => heap[p].at <= heap[k].at
      BY <1>0, <2>1 DEF IInv, HeapOrder, InOrder
    <3>3. Used' = Used /\ \A j \in Used : j \in Nat /\ heap[j].at \in Int
      BY <2>2, Facts DEF Used
    <3>4. \A j \in Used : heap'[j].at = IF j = cur THEN heap[p].at
                                        ELSE IF j = p THEN heap[cur].at ELSE heap[j].at
      BY <2>2, Facts
    <3>5. \A i, k \in Used : ChildOf(k, i) /\ k # p => heap'[i].at <= heap'[k].at
      <4>. SUFFICES ASSUME NEW i \in Used, NEW k \in Used, ChildOf(k, i), k # p
                    PROVE  heap'[i].at <= heap'[k].at
        OBVIOUS
      <4>0. i # k
        BY <3>3 DEF ChildOf, Left, Right
      <4>1. CASE k = cur
        <5>1. i = p
          BY <4>1, <2>1, <3>3 DEF ChildOf, Left, Right
        <5>. QED
          BY <4>1, <5>1, <2>1, <3>3, <3>4
      <4>2. CASE k # cur /\ i = cur
        BY <4>2, <3>2, <3>4, <2>1
      <4>3. CASE k # cur /\ i = p
        <5>1. heap[p].at <= heap[k].at
          BY <4>3, <3>1
        <5>. QED
          BY <4>3, <5>1, <3>3, <3>4, <2>1, <1>0
      <4>4. CASE k # cur /\ i # cur /\ i # p
        BY <4>4, <3>1, <3>4
      <4>. QED
        BY <4>1, <4>2, <4>3, <4>4
    <3>6. \A g, k \in Used : ChildOf(p, g) /\ ChildOf(k, p) => heap'[g].at <= heap'[k].at
      <4>. SUFFICES ASSUME NEW g \in Used, NEW k \in Used, ChildOf(p, g), ChildOf(k, p)
                    PROVE  heap'[g].at <= heap'[k].at
        OBVIOUS
      <4>1. heap[g].at <= heap[p].at /\ g # p /\ g # cur /\ k # p
        BY <2>1, <3>1, <3>3 DEF ChildOf, Left, Right
      <4>2. heap'[g].at = heap[g].at
        BY <3>4, <4>1
      <4>3. CASE k = cur
        BY <4>1, <4>2, <4>3, <3>4
      <4>4. CASE k # cur
        <5>1. heap[p].at <= heap[k].at
          BY <3>1, <4>4, <2>1
        <5>. QED
          BY <5>1, <4>1, <4>2, <4>4, <3>3, <3>4, <2>1
      <4>. QED
        BY <4>3, <4>4
    <3>. QED
      BY <1>0, <2>2, <3>3, <3>5, <3>6 DEF HeapOrder, InOrder, ChildOf, Left, Right
  <2>. QED
    BY <2>3, <2>4, <2>5, <2>6 DEF IInv
<1>. QED
  BY <1>1, <1>2

LEMMA UpStep ==
  ASSUME IInv, ReheapifyUp
  PROVE  IInv'
<1>. USE ConstantFacts
<1>0. pc = "reheapify_up" /\ cur \in Nat
  BY Facts DEF ReheapifyUp
<1>1. \A i, k \in Used : ChildOf(k, i) /\ i # cur => heap[i].at <= heap[k].at
  BY <1>0 DEF IInv, HeapOrder, InOrder
<1>2. \A g, k \in Used : ChildOf(cur, g) /\ ChildOf(k, cur) => heap[g].at <= heap[k].at
  BY <1>0 DEF IInv, HeapOrder, InOrder
<1>3. CASE UpDone
  <2>1. \A k \in Used : ChildOf(k, cur) => heap[cur].at <= heap[k].at
    BY <1>0, <1>3, Facts DEF UpDone, ChildOf, Left, Right, Used
  <2>2. \A i, k \in Used : ChildOf(k, i) => InOrder(i, k)
    BY <1>1, <2>1 DEF InOrder
  <2>. QED
    BY <1>0, <1>3, <2>2, LeaveStep DEF ReheapifyUp
<1>4. CASE ~UpDone
  <2>. DEFINE c == SmallerChild
  <2>1. /\ c \in Used /\ cur \in Used /\ ChildOf(c, cur) /\ c # cur
        /\ \A k \in Used : ChildOf(k, cur) => heap[c].at <= heap[k].at
        /\ heap[c].at <= heap[cur].at
    <3>1. cur \in Used /\ Left(cur) \in Used
      BY <1>0, <1>4, Facts DEF UpDone, Left, Used
    <3>2. Right(cur) < len => Right(cur) \in Used
      BY <1>0, Facts DEF Right, Used
    <3>3. c \in Used /\ ChildOf(c, cur) /\ c # cur
      BY <1>0, <3>1, <3>2 DEF SmallerChild, ChildOf, Left, Right
    <3>4. \A k \in Used : ChildOf(k, cur) => heap[c].at <= heap[k].at
      BY <3>1, <3>2, Facts DEF SmallerChild, ChildOf, Used
    <3>5. heap[c].at <= heap[cur].at
      <4>1. /\ heap[cur].at \in Int /\ heap[Left(cur)].at \in Int
            /\ Right(cur) < len => heap[Right(cur)].at \in Int
            /\ Right(cur) \in Int /\ len \in Int
        BY <3>1, <3>2, Facts DEF Right
      <4>2. \/ ~(heap[cur].at <= heap[Left(cur)].at)
            \/ /\ Right(cur) < len
               /\ ~(heap[cur].at <= heap[Right(cur)].at)
        BY <1>4, <4>1 DEF UpDone
      <4>. QED
        BY <4>1, <4>2 DEF SmallerChild
    <3>. QED
      BY <3>1, <3>3, <3>4, <3>5
  <2>2. /\ cur' = c /\ len' = len /\ now' = now /\ pc' = pc /\ op' = op
        /\ popped' = popped
        /\ heap' \in [Slot -> Event]
        /\ \A j \in Slot : heap'[j] = IF j = c THEN heap[cur]
                                      ELSE IF j = cur THEN heap[c] ELSE heap[j]
    BY <1>0, <1>4, <2>1, Facts DEF ReheapifyUp, MoveTo, Swap
  <2>. HIDE DEF c
  <2>3. TypeOK'
    BY <2>1, <2>2, Facts DEF IInv, TypeOK
  <2>4. LoopState'
    <3>1. len \notin Used /\ Used' = Used
      BY <2>2, Facts DEF Used
    <3>2. \A i \in Used : heap'[i].at \in Cycles
      BY <2>1, <2>2, Facts
    <3>3. op = "pop" => len < Capacity /\ heap'[len].at \in Cycles
      BY <2>1, <2>2, <3>1, Facts DEF IInv, LoopState, Slot
    <3>. QED
      BY <1>0, <2>2, <3>1, <3>2, <3>3 DEF IInv, LoopState
  <2>5. UniqueTypes'
    BY <2>1, <2>2, Facts DEF IInv, UniqueTypes, Used
  <2>6. HeapOrder'
    <3>3. Used' = Used /\ \A j \in Used : j \in Nat /\ heap[j].at \in Int
      BY <2>2, Facts DEF Used
    <3>4. \A j \in Used : heap'[j].at = IF j = cur THEN heap[c].at
                                        ELSE IF j = c THEN heap[cur].at ELSE heap[j].at
      BY <2>1, <2>2, Facts
    <3>5. \A i, k \in Used : ChildOf(k, i) /\ i # c => heap'[i].at <= heap'[k].at
      <4>. SUFFICES ASSUME NEW i \in Used, NEW k \in Used, ChildOf(k, i), i # c
                    PROVE  heap'[i].at <= heap'[k].at
        OBVIOUS
      <4>0. i # k
        BY <3>3 DEF ChildOf, Left, Right
      <4>1. CASE i = cur /\ k = c
        BY <4>1, <2>1, <3>4
      <4>2. CASE i = cur /\ k # c
        BY <4>0, <4>2, <2>1, <3>4
      <4>3. CASE i # cur /\ k = cur
        BY <4>3, <1>2, <2>1, <3>4
      <4>4. CASE i # cur /\ k # cur
        <5>1. k # c
          BY <4>4, <2>1, <3>3 DEF ChildOf, Left, Right
        <5>. QED
          BY <4>4, <5>1, <1>1, <3>4
      <4>. QED
        BY <4>1, <4>2, <4>3, <4>4
    <3>6. \A g, k \in Used : ChildOf(c, g) /\ ChildOf(k, c) => heap'[g].at <= heap'[k].at
      <4>. SUFFICES ASSUME NEW g \in Used, NEW k \in Used, ChildOf(c, g), ChildOf(k, c)
                    PROVE  heap'[g].at <= heap'[k].at
        OBVIOUS
      <4>1. g = cur /\ k # c /\ k # cur
        BY <2>1, <3>3 DEF ChildOf, Left, Right
      <4>2. heap[c].at <= heap[k].at
        BY <1>1, <2>1
      <4>. QED
        BY <4>1, <4>2, <3>4, <2>1
    <3>. QED
      BY <1>0, <2>2, <3>3, <3>5, <3>6 DEF HeapOrder, InOrder, ChildOf, Left, Right
  <2>. QED
    BY <2>3, <2>4, <2>5, <2>6 DEF IInv
<1>. QED
  BY <1>3, <1>4

-----------------------------------------------------------------------------
LEMMA InitInvariant == Init => IInv
BY ConstantFacts
DEF Init, IInv, TypeOK, LoopState, UniqueTypes, HeapOrder, Used, Event, Cycles, Slot

LEMMA StepInvariant == IInv /\ [Next]_vars => IInv'
<1>. SUFFICES ASSUME IInv, [Next]_vars PROVE IInv'
  OBVIOUS
<1>. USE ConstantFacts
<1>1. ASSUME NEW e \in EventTypes, NEW t \in Cycles,
             UpdateOrPushEvent([type |-> e, at |-> t])
      PROVE  IInv'
  <2>. DEFINE ev == [type |-> e, at |-> t]
  <2>1. ev \in Event /\ ev.at \in Cycles /\ pc = "idle"
    BY <1>1 DEF Event, Cycles, Never, UpdateOrPushEvent
  <2>2. now' \in Cycles /\ popped' = {}
    BY <1>1 DEF IInv, TypeOK, UpdateOrPushEvent
  <2>. HIDE DEF ev
  <2>3. CASE Push(ev)
    <3>1. pc' = "reheapify_down" /\ op' = "push"
      BY <2>3 DEF Push, Enter
    <3>. QED
      BY <2>1, <2>2, <2>3, <3>1, PushStep DEF IInv, TypeOK, Loops
  <2>4. ASSUME NEW i \in Holds(ev.type),
               heap' = [heap EXCEPT ![i] = ev],
               IF ev.at < heap[i].at
                 THEN Enter("reheapify_down", i, "update")
                 ELSE Enter("reheapify_up", i, "update"),
               len' = len
        PROVE  IInv'
    <3>1. /\ cur' = i /\ op' = "update"
          /\ \/ pc' = "reheapify_down" /\ ev.at < heap[i].at
             \/ pc' = "reheapify_up" /\ ~(ev.at < heap[i].at)
      BY <2>4 DEF Enter
    <3>2. LoopState' /\ UniqueTypes' /\ HeapOrder'
          /\ heap' \in [Slot -> Event] /\ cur' \in Slot
      BY <2>1, <2>2, <2>4, <3>1, ReplaceStep
    <3>. QED
      BY <2>2, <2>4, <3>1, <3>2 DEF IInv, TypeOK, Loops
  <2>. QED
    BY <1>1, <2>3, <2>4 DEF UpdateOrPushEvent, ev
<1>2. ASSUME NEW e \in EventTypes, NEW t \in Cycles,
             MinOrPushEvent([type |-> e, at |-> t])
      PROVE  IInv'
  <2>. DEFINE ev == [type |-> e, at |-> t]
  <2>1. ev \in Event /\ ev.at \in Cycles /\ pc = "idle"
    BY <1>2 DEF Event, Cycles, Never, MinOrPushEvent
  <2>2. now' \in Cycles /\ popped' = {}
    BY <1>2 DEF IInv, TypeOK, MinOrPushEvent
  <2>. HIDE DEF ev
  <2>3. CASE Push(ev)
    <3>1. pc' = "reheapify_down" /\ op' = "push"
      BY <2>3 DEF Push, Enter
    <3>. QED
      BY <2>1, <2>2, <2>3, <3>1, PushStep DEF IInv, TypeOK, Loops
  <2>4. ASSUME NEW i \in Holds(ev.type),
               ev.at < heap[i].at,
               heap' = [heap EXCEPT ![i] = ev],
               Enter("reheapify_down", i, "update"),
               len' = len
        PROVE  IInv'
    <3>1. cur' = i /\ op' = "update" /\ pc' = "reheapify_down"
      BY <2>4 DEF Enter
    <3>2. LoopState' /\ UniqueTypes' /\ HeapOrder'
          /\ heap' \in [Slot -> Event] /\ cur' \in Slot
      BY <2>1, <2>2, <2>4, <3>1, ReplaceStep
    <3>. QED
      BY <2>2, <2>4, <3>1, <3>2 DEF IInv, TypeOK, Loops
  <2>. QED
    BY <1>2, <2>3, <2>4 DEF MinOrPushEvent, ev
<1>3. ASSUME NEW e \in EventTypes, RemoveEvent(e) PROVE IInv'
  BY <1>3, RemoveStep
<1>4. CASE PopReadyEvent
  BY <1>4, PopStep
<1>5. ASSUME NEW n \in Cycles, IncrementCpuCycles(n) PROVE IInv'
  BY <1>5 DEF IncrementCpuCycles, IInv, TypeOK, LoopState, UniqueTypes, HeapOrder,
              Used, InOrder
<1>6. CASE ReheapifyDown
  BY <1>6, DownStep
<1>7. CASE ReheapifyUp
  BY <1>7, UpStep
<1>8. CASE UNCHANGED vars
  BY <1>8 DEF vars, IInv, TypeOK, LoopState, UniqueTypes, HeapOrder, Used, InOrder
<1>. QED
  BY <1>1, <1>2, <1>3, <1>4, <1>5, <1>6, <1>7, <1>8 DEF Next

\* The invariant of the heap's representation: the type of every variable, the
\* loops' bookkeeping, one event per type, and the heap order.  With it the
\* linear search of update_or_push finds the only event of the type.
THEOREM HeapInvariant == Spec => [](TypeOK /\ LoopState /\ UniqueTypes /\ HeapOrder)
<1>1. IInv => TypeOK /\ LoopState /\ UniqueTypes /\ HeapOrder
  BY DEF IInv
<1>. QED
  BY <1>1, InitInvariant, StepInvariant, PTL DEF Spec

\* "Push while heap is at capacity" and "Pop while heap is empty" are
\* unreachable (the assert! of push and the assert_ne! of pop).
THEOREM AssertionsNeverFail == Spec => []AssertsHold
<1>1. IInv => AssertsHold
  <2>. SUFFICES ASSUME IInv, pc = "idle"
                PROVE  /\ IsEventReady => len # 0
                       /\ \A e \in EventTypes : Holds(e) = {} => len < Capacity
    BY DEF AssertsHold
  <2>1. len = 0 => heap[0].at = Never
    BY DEF IInv, LoopState, DefaultEvent
  <2>2. now < Never
    BY ConstantFacts DEF IInv, TypeOK, Cycles, Never
  <2>. QED
    BY <2>1, <2>2, RoomToPush, ConstantFacts DEF IInv, IsEventReady, TypeOK, Cycles
<1>. QED
  BY <1>1, InitInvariant, StepInvariant, PTL DEF Spec

-----------------------------------------------------------------------------
\* The refinement: what the map of scheduled events is, and what each
\* operation does to it.

Unique(h, n) == \A i, j \in 0..n - 1 : h[i].type = h[j].type => i = j
Types(h, n) == {h[i].type : i \in 0..n - 1}

LEMMA MapFacts ==
  ASSUME NEW h, NEW n \in Nat, Unique(h, n)
  PROVE  /\ MapOf(h, n) = [x \in Types(h, n) |-> MapOf(h, n)[x]]
         /\ DOMAIN MapOf(h, n) = Types(h, n)
         /\ \A i \in 0..n - 1 : MapOf(h, n)[h[i].type] = h[i].at
<1>1. /\ MapOf(h, n) = [x \in Types(h, n) |-> MapOf(h, n)[x]]
      /\ DOMAIN MapOf(h, n) = Types(h, n)
  BY DEF MapOf, Types
<1>2. ASSUME NEW i \in 0..n - 1
      PROVE  MapOf(h, n)[h[i].type] = h[i].at
  <2>1. (CHOOSE j \in 0..n - 1 : h[j].type = h[i].type) = i
    BY DEF Unique
  <2>. QED
    BY <2>1 DEF MapOf
<1>. QED
  BY <1>1, <1>2

\* A function that agrees with the heap's slots is the map of the heap.
LEMMA MapIs ==
  ASSUME NEW h, NEW n \in Nat, Unique(h, n),
         NEW f, f = [x \in Types(h, n) |-> f[x]],
         \A i \in 0..n - 1 : f[h[i].type] = h[i].at
  PROVE  MapOf(h, n) = f
<1>1. ASSUME NEW x \in Types(h, n) PROVE MapOf(h, n)[x] = f[x]
  <2>1. PICK i \in 0..n - 1 : x = h[i].type
    BY DEF Types
  <2>. QED
    BY <2>1, MapFacts
<1>. QED
  BY <1>1, MapFacts

LEMMA SwapKeepsMap ==
  ASSUME NEW h, NEW h2, NEW n \in Nat, NEW i \in 0..n - 1, NEW j \in 0..n - 1,
         Unique(h, n), Unique(h2, n),
         \A k \in 0..n - 1 :
           h2[k] = IF k = i THEN h[j] ELSE IF k = j THEN h[i] ELSE h[k]
  PROVE  MapOf(h2, n) = MapOf(h, n)
<1>1. ASSUME NEW k \in 0..n - 1
      PROVE  /\ \E m \in 0..n - 1 : h2[k] = h[m]
             /\ \E m \in 0..n - 1 : h[k] = h2[m]
  <2>1. CASE k = i
    BY <2>1
  <2>2. CASE k = j
    BY <2>2
  <2>3. CASE k # i /\ k # j
    BY <2>3
  <2>. QED
    BY <2>1, <2>2, <2>3
<1>2. Types(h2, n) = Types(h, n)
  <2>1. ASSUME NEW x \in Types(h2, n) PROVE x \in Types(h, n)
    <3>1. PICK k \in 0..n - 1 : x = h2[k].type
      BY DEF Types
    <3>. QED
      BY <1>1, <3>1 DEF Types
  <2>2. ASSUME NEW x \in Types(h, n) PROVE x \in Types(h2, n)
    <3>1. PICK k \in 0..n - 1 : x = h[k].type
      BY DEF Types
    <3>. QED
      BY <1>1, <3>1 DEF Types
  <2>. QED
    BY <2>1, <2>2
<1>3. ASSUME NEW k \in 0..n - 1
      PROVE  MapOf(h, n)[h2[k].type] = h2[k].at
  <2>1. PICK m \in 0..n - 1 : h2[k] = h[m]
    BY <1>1
  <2>2. MapOf(h, n)[h[m].type] = h[m].at
    BY MapFacts
  <2>. QED
    BY <2>1, <2>2
<1>. QED
  BY <1>2, <1>3, MapFacts, MapIs

\* Shortening the heap by its last slot unschedules the event in it.
LEMMA DropLast ==
  ASSUME NEW h, NEW n \in Nat, n # 0, Unique(h, n)
  PROVE  MapOf(h, n - 1) = Abstract!Unschedule(MapOf(h, n), h[n - 1].type)
<1>. DEFINE f == Abstract!Unschedule(MapOf(h, n), h[n - 1].type)
<1>0. n - 1 \in Nat /\ Unique(h, n - 1) /\ 0..(n - 1) - 1 \subseteq 0..n - 1
  BY DEF Unique
<1>1. Types(h, n - 1) = Types(h, n) \ {h[n - 1].type}
  <2>1. ASSUME NEW x \in Types(h, n - 1) PROVE x \in Types(h, n) \ {h[n - 1].type}
    <3>1. PICK k \in 0..(n - 1) - 1 : x = h[k].type
      BY DEF Types
    <3>. QED
      BY <3>1 DEF Types, Unique
  <2>2. ASSUME NEW x \in Types(h, n) \ {h[n - 1].type} PROVE x \in Types(h, n - 1)
    <3>1. PICK k \in 0..n - 1 : x = h[k].type
      BY DEF Types
    <3>2. k \in 0..(n - 1) - 1
      BY <3>1
    <3>. QED
      BY <3>1, <3>2 DEF Types
  <2>. QED
    BY <2>1, <2>2
<1>2. f = [x \in Types(h, n - 1) |-> MapOf(h, n)[x]]
  BY <1>1, MapFacts DEF Abstract!Unschedule
<1>3. ASSUME NEW k \in 0..(n - 1) - 1
      PROVE  f[h[k].type] = h[k].at
  <2>1. h[k].type \in Types(h, n - 1)
    BY DEF Types
  <2>2. f[h[k].type] = MapOf(h, n)[h[k].type]
    BY <1>2, <2>1
  <2>. QED
    BY <1>0, <2>2, MapFacts
<1>. HIDE DEF f
<1>4. f = [x \in Types(h, n - 1) |-> f[x]]
  BY <1>2
<1>5. MapOf(h, n - 1) = f
  BY <1>0, <1>3, <1>4, MapIs
<1>. QED
  BY <1>5 DEF f

\* Writing event ev over the slot of its type, or into a new last slot.
LEMMA ReplaceMap ==
  ASSUME NEW h, NEW n \in Nat, Unique(h, n), NEW i \in 0..n - 1, NEW ev, NEW h2,
         Unique(h2, n), h[i].type = ev.type,
         \A k \in 0..n - 1 : h2[k] = IF k = i THEN ev ELSE h[k]
  PROVE  MapOf(h2, n) = Abstract!UpdateOrPush(MapOf(h, n), ev.type, ev.at)
<1>. DEFINE f == Abstract!UpdateOrPush(MapOf(h, n), ev.type, ev.at)
<1>1. \A k \in 0..n - 1 : h2[k].type = h[k].type
  OBVIOUS
<1>2. Types(h2, n) = Types(h, n)
  BY <1>1 DEF Types
<1>3. ev.type \in Types(h2, n)
  BY <1>2 DEF Types
<1>4. f = [x \in Types(h2, n) |-> IF x = ev.type THEN ev.at ELSE MapOf(h, n)[x]]
  BY <1>2, <1>3, MapFacts DEF Abstract!UpdateOrPush
<1>5. ASSUME NEW k \in 0..n - 1 PROVE f[h2[k].type] = h2[k].at
  <2>1. h2[k].type \in Types(h2, n)
    BY DEF Types
  <2>2. CASE k = i
    BY <1>4, <2>1, <2>2
  <2>3. CASE k # i
    <3>1. h2[k] = h[k] /\ h[k].type # ev.type
      BY <2>3 DEF Unique
    <3>. QED
      BY <1>4, <2>1, <3>1, MapFacts
  <2>. QED
    BY <2>2, <2>3
<1>. HIDE DEF f
<1>6. f = [x \in Types(h2, n) |-> f[x]]
  BY <1>4
<1>7. MapOf(h2, n) = f
  BY <1>5, <1>6, MapIs
<1>. QED
  BY <1>7 DEF f

LEMMA PushMap ==
  ASSUME NEW h, NEW n \in Nat, Unique(h, n), NEW ev, NEW h2,
         ev.type \notin Types(h, n), h2[n] = ev,
         \A k \in 0..n - 1 : h2[k] = h[k]
  PROVE  MapOf(h2, n + 1) = Abstract!UpdateOrPush(MapOf(h, n), ev.type, ev.at)
<1>. DEFINE f == Abstract!UpdateOrPush(MapOf(h, n), ev.type, ev.at)
<1>0. n + 1 \in Nat /\ \A k \in 0..(n + 1) - 1 : k \in 0..n - 1 \/ k = n
  OBVIOUS
<1>1. Unique(h2, n + 1)
  <2>1. \A k \in 0..n - 1 : h2[k].type \in Types(h, n)
    BY DEF Types
  <2>. QED
    BY <1>0, <2>1 DEF Unique
<1>2. Types(h2, n + 1) = Types(h, n) \cup {ev.type}
  <2>1. ASSUME NEW x \in Types(h2, n + 1) PROVE x \in Types(h, n) \cup {ev.type}
    <3>1. PICK k \in 0..(n + 1) - 1 : x = h2[k].type
      BY DEF Types
    <3>. QED
      BY <1>0, <3>1 DEF Types
  <2>2. ASSUME NEW x \in Types(h, n) \cup {ev.type} PROVE x \in Types(h2, n + 1)
    <3>1. CASE x = ev.type
      BY <3>1, n \in 0..(n + 1) - 1 DEF Types
    <3>2. CASE x \in Types(h, n)
      <4>1. PICK k \in 0..n - 1 : x = h[k].type
        BY <3>2 DEF Types
      <4>2. k \in 0..(n + 1) - 1 /\ x = h2[k].type
        BY <4>1
      <4>. QED
        BY <4>2 DEF Types
    <3>. QED
      BY <3>1, <3>2
  <2>. QED
    BY <2>1, <2>2
<1>4. f = [x \in Types(h2, n + 1) |-> IF x = ev.type THEN ev.at ELSE MapOf(h, n)[x]]
  BY <1>2, MapFacts DEF Abstract!UpdateOrPush
<1>5. ASSUME NEW k \in 0..(n + 1) - 1 PROVE f[h2[k].type] = h2[k].at
  <2>1. h2[k].type \in Types(h2, n + 1)
    BY DEF Types
  <2>2. CASE k = n
    BY <1>4, <2>1, <2>2
  <2>3. CASE k \in 0..n - 1
    <3>1. h2[k] = h[k] /\ h[k].type # ev.type
      BY <2>3 DEF Types
    <3>. QED
      BY <1>4, <2>1, <2>3, <3>1, MapFacts
  <2>. QED
    BY <1>0, <2>2, <2>3
<1>. HIDE DEF f
<1>6. f = [x \in Types(h2, n + 1) |-> f[x]]
  BY <1>4
<1>7. MapOf(h2, n + 1) = f
  BY <1>0, <1>1, <1>5, <1>6, MapIs
<1>. QED
  BY <1>7 DEF f

-----------------------------------------------------------------------------
\* The event a pop has taken out of the heap, or the last result.
AbsPopped == IF op = "pop" THEN {heap[len]} ELSE popped

LEMMA UsedUnique ==
  /\ IInv => Unique(heap, len) /\ len \in Nat
  /\ IInv' => Unique(heap', len') /\ len' \in Nat
BY ConstantFacts DEF IInv, TypeOK, UniqueTypes, Unique, Used

LEMMA ScheduledFacts ==
  ASSUME IInv
  PROVE  /\ \A i \in Used : /\ heap[i].type \in DOMAIN Scheduled
                           /\ Scheduled[heap[i].type] = heap[i].at
         /\ \A f \in DOMAIN Scheduled : \E i \in Used : f = heap[i].type
<1>1. Unique(heap, len) /\ len \in Nat /\ Used = 0..len - 1
  BY UsedUnique DEF Used
<1>2. DOMAIN Scheduled = Types(heap, len)
  BY <1>1, MapFacts DEF Scheduled
<1>3. \A i \in Used : Scheduled[heap[i].type] = heap[i].at
  BY <1>1, MapFacts DEF Scheduled
<1>4. Types(heap, len) = {heap[i].type : i \in Used}
  BY <1>1 DEF Types
<1>. QED
  BY <1>2, <1>3, <1>4

LEMMA PushRefines ==
  ASSUME IInv, NEW ev, Push(ev)
  PROVE  /\ ev.type \notin DOMAIN Scheduled
         /\ Scheduled' = Abstract!UpdateOrPush(Scheduled, ev.type, ev.at)
         /\ op' = "push"
<1>1. /\ Unique(heap, len) /\ len \in Nat /\ len \in Slot
      /\ heap \in [Slot -> Event] /\ Used \subseteq Slot
  BY UsedUnique, Facts, ConstantFacts DEF Push, Slot
<1>2. ev.type \notin Types(heap, len)
  BY DEF Push, Holds, Types, Used
<1>3. heap'[len] = ev /\ \A k \in 0..len - 1 : heap'[k] = heap[k]
  BY <1>1 DEF Push, Used
<1>4. len' = len + 1 /\ op' = "push"
  BY DEF Push, Enter
<1>. QED
  BY <1>1, <1>2, <1>3, <1>4, PushMap, MapFacts DEF Scheduled

LEMMA ReplaceRefines ==
  ASSUME IInv, IInv', NEW ev, NEW i \in Holds(ev.type),
         heap' = [heap EXCEPT ![i] = ev], len' = len
  PROVE  /\ ev.type \in DOMAIN Scheduled /\ Scheduled[ev.type] = heap[i].at
         /\ Scheduled' = Abstract!UpdateOrPush(Scheduled, ev.type, ev.at)
<1>1. /\ Unique(heap, len) /\ len \in Nat /\ Unique(heap', len)
      /\ heap \in [Slot -> Event] /\ Used \subseteq Slot
  BY UsedUnique, Facts
<1>2. i \in 0..len - 1 /\ heap[i].type = ev.type
  BY DEF Holds, Used
<1>3. \A k \in 0..len - 1 : heap'[k] = IF k = i THEN ev ELSE heap[k]
  BY <1>1, <1>2 DEF Used
<1>4. MapOf(heap', len) = Abstract!UpdateOrPush(MapOf(heap, len), ev.type, ev.at)
  <2>. DEFINE h2 == heap'
  <2>1. Unique(h2, len) /\ \A k \in 0..len - 1 : h2[k] = IF k = i THEN ev ELSE heap[k]
    BY <1>1, <1>3
  <2>. HIDE DEF h2
  <2>2. MapOf(h2, len) = Abstract!UpdateOrPush(MapOf(heap, len), ev.type, ev.at)
    BY <1>1, <1>2, <2>1, ReplaceMap
  <2>. QED
    BY <2>2 DEF h2
<1>5. ev.type \in DOMAIN Scheduled /\ Scheduled[ev.type] = heap[i].at
  BY <1>2, ScheduledFacts DEF Holds
<1>. QED
  BY <1>4, <1>5 DEF Scheduled

\* Swapping slot i with the last one and shortening the heap.
LEMMA TakeRefines ==
  ASSUME IInv, IInv', NEW i \in Used, heap' = Swap(heap, i, len - 1),
         len' = len - 1
  PROVE  /\ Scheduled' = Abstract!Unschedule(Scheduled, heap[i].type)
         /\ heap[i].type \in DOMAIN Scheduled
         /\ Scheduled[heap[i].type] = heap[i].at
         /\ heap'[len'] = heap[i]
<1>1. /\ Unique(heap, len) /\ len \in Nat /\ len # 0
      /\ heap \in [Slot -> Event] /\ Used \subseteq Slot
      /\ i \in 0..len - 1 /\ len - 1 \in 0..len - 1
  BY UsedUnique, Facts DEF Used
<1>2. \A k \in 0..len - 1 : heap'[k] = IF k = i THEN heap[len - 1]
                                       ELSE IF k = len - 1 THEN heap[i] ELSE heap[k]
  BY <1>1 DEF Used, Swap
<1>3. Unique(heap', len)
  BY <1>1, <1>2 DEF Unique
<1>4. MapOf(heap', len) = MapOf(heap, len)
  BY <1>1, <1>2, <1>3, SwapKeepsMap
<1>5. MapOf(heap', len - 1) = Abstract!Unschedule(MapOf(heap', len), heap'[len - 1].type)
  BY <1>1, <1>3, DropLast
<1>6. heap'[len - 1] = heap[i]
  BY <1>1, <1>2
<1>7. heap[i].type \in DOMAIN Scheduled /\ Scheduled[heap[i].type] = heap[i].at
  BY ScheduledFacts
<1>. QED
  BY <1>4, <1>5, <1>6, <1>7 DEF Scheduled

LEMMA PopRefines ==
  ASSUME IInv, IInv', PopReadyEvent
  PROVE  Abstract!PopReadyEvent
<1>1. /\ pc = "idle" /\ op = "none" /\ 0 \in Used
      /\ heap' = Swap(heap, 0, len - 1) /\ len' = len - 1
      /\ op' = "pop" /\ now' = now /\ heap[0].at <= now
  BY Facts DEF PopReadyEvent, IInv, TypeOK, LoopState, Enter, Used, IsEventReady, Cycles
<1>2. /\ Scheduled' = Abstract!Unschedule(Scheduled, heap[0].type)
      /\ heap[0].type \in DOMAIN Scheduled
      /\ Scheduled[heap[0].type] = heap[0].at
      /\ heap'[len'] = heap[0]
  BY <1>1, TakeRefines
<1>3. \A f \in DOMAIN Scheduled : Scheduled[heap[0].type] <= Scheduled[f]
  <2>1. ASSUME NEW f \in DOMAIN Scheduled
        PROVE  Scheduled[heap[0].type] <= Scheduled[f]
    <3>1. PICK k \in Used : f = heap[k].type
      BY ScheduledFacts
    <3>2. Scheduled[f] = heap[k].at
      BY <3>1, ScheduledFacts
    <3>. QED
      BY <1>1, <1>2, <3>2, RootIsEarliest DEF IInv
  <2>. QED
    BY <2>1
<1>4. heap[0].type \in Abstract!Ready(Scheduled, now)
  BY <1>1, <1>2, <1>3 DEF Abstract!Ready
<1>5. heap[0] = [type |-> heap[0].type, at |-> heap[0].at]
  BY <1>1, Facts DEF Event
<1>6. AbsPopped' = {[type |-> heap[0].type, at |-> Scheduled[heap[0].type]]}
  BY <1>1, <1>2, <1>5 DEF AbsPopped
<1>. QED
  BY <1>1, <1>2, <1>4, <1>6 DEF Abstract!PopReadyEvent, AbsPopped

LEMMA LeaveRefines ==
  ASSUME IInv, IInv', pc # "idle", Leave
  PROVE  UNCHANGED <<now, Scheduled, AbsPopped>>
<1>1. len' = len /\ now' = now /\ op' = "none"
  BY DEF Leave
<1>2. AbsPopped' = AbsPopped
  BY <1>1 DEF AbsPopped, Leave, IInv, LoopState
<1>3. Unique(heap, len) /\ Unique(heap', len) /\ len \in Nat
  BY <1>1, UsedUnique
<1>4. \A i \in 0..len - 1 : heap'[i] = heap[i]
  BY Facts DEF Leave, Used
<1>5. Types(heap', len) = Types(heap, len)
  BY <1>4 DEF Types
<1>6. \A i \in 0..len - 1 : MapOf(heap, len)[heap'[i].type] = heap'[i].at
  BY <1>3, <1>4, MapFacts
<1>7. MapOf(heap', len) = MapOf(heap, len)
  BY <1>3, <1>5, <1>6, MapFacts, MapIs
<1>. QED
  BY <1>1, <1>2, <1>7 DEF Scheduled

LEMMA MoveRefines ==
  ASSUME IInv, IInv', NEW j \in Used, cur \in Used, MoveTo(j)
  PROVE  UNCHANGED <<now, Scheduled, AbsPopped>>
<1>1. /\ len' = len /\ now' = now /\ op' = op /\ popped' = popped
      /\ Unique(heap, len) /\ Unique(heap', len) /\ len \in Nat
  BY UsedUnique DEF MoveTo
<1>2. \A k \in Slot : heap'[k] = IF k = cur THEN heap[j]
                                 ELSE IF k = j THEN heap[cur] ELSE heap[k]
  BY Facts DEF MoveTo, Swap
<1>3. Scheduled' = Scheduled
  <2>1. \A k \in 0..len - 1 : heap'[k] = IF k = cur THEN heap[j]
                                         ELSE IF k = j THEN heap[cur] ELSE heap[k]
    BY <1>2, Facts DEF Used
  <2>2. cur \in 0..len - 1 /\ j \in 0..len - 1
    BY DEF Used
  <2>. QED
    BY <1>1, <2>1, <2>2, SwapKeepsMap DEF Scheduled
<1>4. op = "pop" => heap'[len] = heap[len]
  <2>1. op = "pop" => len \in Slot
    BY Facts, ConstantFacts DEF IInv, LoopState, Slot
  <2>2. len # cur /\ len # j
    BY Facts DEF Used
  <2>. QED
    BY <1>2, <2>1, <2>2
<1>. QED
  BY <1>1, <1>3, <1>4 DEF AbsPopped

LEMMA StepRefines ==
  ASSUME IInv, IInv', [Next]_vars
  PROVE  Abstract!Next \/ UNCHANGED <<now, Scheduled, AbsPopped>>
<1>0. pc = "idle" <=> op = "none"
  BY DEF IInv, LoopState
<1>1. ASSUME NEW e \in EventTypes, NEW t \in Cycles,
             UpdateOrPushEvent([type |-> e, at |-> t])
      PROVE  Abstract!UpdateOrPushEvent(e, t)
  <2>. DEFINE ev == [type |-> e, at |-> t]
  <2>1. now' = now /\ popped' = {} /\ ev.type = e /\ ev.at = t
    BY <1>1 DEF UpdateOrPushEvent
  <2>. HIDE DEF ev
  <2>2. CASE Push(ev)
    BY <2>1, <2>2, PushRefines DEF Abstract!UpdateOrPushEvent
  <2>3. ASSUME NEW i \in Holds(ev.type),
               heap' = [heap EXCEPT ![i] = ev],
               IF ev.at < heap[i].at
                 THEN Enter("reheapify_down", i, "update")
                 ELSE Enter("reheapify_up", i, "update"),
               len' = len
        PROVE  Abstract!UpdateOrPushEvent(e, t)
    <3>1. op' = "update"
      BY <2>3 DEF Enter
    <3>. QED
      BY <2>1, <2>3, <3>1, ReplaceRefines DEF Abstract!UpdateOrPushEvent
  <2>. QED
    BY <1>1, <2>2, <2>3 DEF UpdateOrPushEvent, ev
<1>2. ASSUME NEW e \in EventTypes, NEW t \in Cycles,
             MinOrPushEvent([type |-> e, at |-> t])
      PROVE  Abstract!MinOrPushEvent(e, t)
  <2>. DEFINE ev == [type |-> e, at |-> t]
  <2>1. now' = now /\ popped' = {} /\ ev.type = e /\ ev.at = t
    BY <1>2 DEF MinOrPushEvent
  <2>. HIDE DEF ev
  <2>2. CASE Push(ev)
    BY <2>1, <2>2, PushRefines DEF Abstract!MinOrPushEvent, Abstract!MinOrPush
  <2>3. ASSUME NEW i \in Holds(ev.type), ev.at < heap[i].at,
               heap' = [heap EXCEPT ![i] = ev],
               Enter("reheapify_down", i, "update"),
               len' = len
        PROVE  Abstract!MinOrPushEvent(e, t)
    <3>1. op' = "update"
      BY <2>3 DEF Enter
    <3>2. ~(heap[i].at <= t)
      <4>1. i \in Used
        BY DEF Holds
      <4>. QED
        BY <2>1, <2>3, <4>1, Facts, ConstantFacts DEF Cycles
    <3>. QED
      BY <2>1, <2>3, <3>1, <3>2, ReplaceRefines
      DEF Abstract!MinOrPushEvent, Abstract!MinOrPush
  <2>. QED
    BY <1>2, <2>2, <2>3 DEF MinOrPushEvent, ev
<1>3. ASSUME NEW e \in EventTypes, RemoveEvent(e)
      PROVE  Abstract!RemoveEvent(e)
  <2>1. PICK i \in Holds(e) : heap' = Swap(heap, i, len - 1) /\ op' = "remove"
    BY <1>3 DEF RemoveEvent, Enter
  <2>2. i \in Used /\ heap[i].type = e
    BY DEF Holds
  <2>3. len' = len - 1 /\ now' = now /\ popped' = {}
    BY <1>3 DEF RemoveEvent
  <2>. QED
    BY <2>1, <2>2, <2>3, TakeRefines DEF Abstract!RemoveEvent
<1>4. CASE PopReadyEvent
  BY <1>4, PopRefines DEF Abstract!Next
<1>5. ASSUME NEW n \in Cycles, IncrementCpuCycles(n)
      PROVE  Abstract!IncrementCpuCycles(n)
  BY <1>0, <1>5 DEF IncrementCpuCycles, Abstract!IncrementCpuCycles, Scheduled,
     Cycles, Abstract!Cycles
<1>6. CASE ReheapifyDown
  <2>1. pc # "idle" /\ cur \in Used
    BY <1>6 DEF ReheapifyDown, IInv, LoopState
  <2>2. CASE DownDone
    BY <1>6, <2>1, <2>2, LeaveRefines DEF ReheapifyDown
  <2>3. CASE ~DownDone
    <3>1. cur # 0 /\ cur \in Nat
      BY <2>1, <2>3, Facts DEF DownDone
    <3>2. Parent(cur) \in Used
      BY <2>1, <3>1, ParentFact, Facts DEF Used
    <3>. QED
      BY <1>6, <2>1, <2>3, <3>2, MoveRefines DEF ReheapifyDown
  <2>. QED
    BY <2>2, <2>3
<1>7. CASE ReheapifyUp
  <2>1. pc # "idle"
    BY <1>7 DEF ReheapifyUp
  <2>2. CASE UpDone
    BY <1>7, <2>1, <2>2, LeaveRefines DEF ReheapifyUp
  <2>3. CASE ~UpDone
    <3>1. cur \in Used /\ SmallerChild \in Used
      BY <2>3, Facts, ConstantFacts DEF UpDone, SmallerChild, Left, Right, Used
    <3>. QED
      BY <1>7, <2>1, <2>3, <3>1, MoveRefines DEF ReheapifyUp
  <2>. QED
    BY <2>2, <2>3
<1>8. CASE UNCHANGED vars
  BY <1>8 DEF vars, Scheduled, AbsPopped
<1>. QED
  BY <1>1, <1>2, <1>3, <1>4, <1>5, <1>6, <1>7, <1>8
  DEF Next, Abstract!Next, Cycles, Abstract!Cycles

\* The array implements the map of events: every operation of scheduler.rs on
\* the heap is the operation of Scheduler on the map, an event popped is an
\* earliest scheduled one whose time has come, and the steps of the reheapify
\* loops change nothing a user of the scheduler can see.
THEOREM HeapImplementsScheduler == Spec => ImplementsScheduler
<1>1. Init => Abstract!Init
  <2>. SUFFICES ASSUME Init PROVE Abstract!Init
    OBVIOUS
  <2>1. now = 0 /\ len = 0 /\ op = "none" /\ popped = {}
    BY DEF Init
  <2>2. Scheduled = Abstract!NoEvents
    BY <2>1 DEF Scheduled, MapOf, Abstract!NoEvents
  <2>. QED
    BY <2>1, <2>2 DEF Abstract!Init
<1>2. IInv /\ IInv' /\ [Next]_vars => [Abstract!Next]_(Abstract!vars)
  BY StepRefines DEF Abstract!vars, AbsPopped
<1>. QED
  BY <1>1, <1>2, InitInvariant, StepInvariant, PTL
  DEF Spec, ImplementsScheduler, Abstract!Spec
=============================================================================
