----------------------------- MODULE Dma_proofs -----------------------------
(***************************************************************************)
(* Proofs about Dma, for every set of channels, priorities and delays.     *)
(***************************************************************************)
EXTENDS Dma, FiniteSetTheorems, WellFoundedInduction, TLAPS

EventOK(e) == e = {} \/ \E t \in Nat : e = {t}

\* TypeOK without a cardinality.
Types ==
  /\ priority \in [Channels -> Nat] /\ enabled \subseteq Channels
  /\ irqEnabled \subseteq Channels /\ irqPending \subseteq Channels
  /\ {masterIrq, forceIrq, istat, list, request} \subseteq BOOLEAN
  /\ active \in [Channels -> BOOLEAN]
  /\ left \in [Channels -> Nat] /\ nextActive \in [Channels -> Nat]
  /\ globalNext \in Nat /\ cpuWait \in Nat
  /\ EventOK(event)

\* The bus is taken for as long as the CPU still has to wait.
BusHeld == cpuWait <= globalNext

\* The inductive invariant.
IInv == Types /\ BusHeld /\ TransferScheduled /\ PendingIsEnabled

ByTime(e, t) == \E u \in e : u <= t

-----------------------------------------------------------------------------
(***************************************************************************)
(* Times.                                                                  *)
(***************************************************************************)
LEMMA LeastOfNaturals ==
  ASSUME NEW S \in SUBSET Nat, S # {}
  PROVE  /\ Earliest(S) \in S
         /\ \A t \in S : Earliest(S) <= t
<1>1. PICK t \in S : \A u \in S : <<u, t>> \notin OpToRel(<, Nat)
  BY NatLessThanWellFounded, WFMin
<1>2. ASSUME NEW u \in S PROVE t <= u
  <2>1. t \in Nat /\ u \in Nat
    OBVIOUS
  <2>2. u < t => <<u, t>> \in OpToRel(<, Nat)
    BY <2>1 DEF OpToRel
  <2>3. <<u, t>> \notin OpToRel(<, Nat)
    BY <1>1
  <2>4. ~(u < t)
    BY <2>2, <2>3
  <2> QED  BY <2>1, <2>4
<1> QED  BY <1>2 DEF Earliest

LEMMA LessFact ==
  ASSUME NEW t \in Nat, NEW n \in Nat
  PROVE  /\ Less(t, n) \in Nat
         /\ Less(t, 0) = t
BY DEF Less

LEMMA MinOrPushFact ==
  ASSUME NEW e, EventOK(e), NEW t \in Nat
  PROVE  /\ EventOK(MinOrPush(e, t))
         /\ ByTime(MinOrPush(e, t), t)
         /\ \A u \in Nat : ByTime(e, u) => ByTime(MinOrPush(e, t), u)
<1> DEFINE m == Earliest(e \cup {t})
<1>1. e \cup {t} \in SUBSET Nat /\ e \cup {t} # {}
  BY DEF EventOK
<1>2. m \in e \cup {t} /\ \A u \in e \cup {t} : m <= u
  BY <1>1, LeastOfNaturals
<1>3. MinOrPush(e, t) = {m}
  BY DEF MinOrPush
<1> HIDE DEF m
<1>4. m \in Nat
  BY <1>1, <1>2
<1>5. EventOK({m}) /\ ByTime({m}, t)
  BY <1>2, <1>4 DEF EventOK, ByTime
<1>6. ASSUME NEW u \in Nat, ByTime(e, u) PROVE ByTime({m}, u)
  <2>1. PICK v \in e : v <= u
    BY <1>6 DEF ByTime
  <2>2. v \in Nat /\ m <= v
    BY <1>1, <1>2
  <2> QED  BY <2>1, <2>2, <1>4 DEF ByTime
<1> QED  BY <1>3, <1>5, <1>6

LEMMA MaybeScheduleFact ==
  ASSUME NEW e, EventOK(e), NEW on \in SUBSET Channels,
         NEW running \in [Channels -> BOOLEAN],
         NEW next \in [Channels -> Nat], NEW global \in Nat
  PROVE  /\ EventOK(MaybeSchedule(e, on, running, next, global))
         /\ \A c \in on : running[c] =>
              ByTime(MaybeSchedule(e, on, running, next, global), Later(global, next[c]))
<1> DEFINE waiting == {next[c] : c \in {d \in on : running[d]}}
           t == Later(global, Earliest(waiting))
           m == MaybeSchedule(e, on, running, next, global)
<1>1. m = IF waiting = {} THEN e ELSE MinOrPush(e, t)
  BY DEF MaybeSchedule
<1>2. waiting \in SUBSET Nat
  OBVIOUS
<1>3. \A c \in on : running[c] => next[c] \in waiting /\ next[c] \in Nat
  OBVIOUS
<1> HIDE DEF waiting, m
<1>4. CASE waiting = {}
  BY <1>1, <1>3, <1>4 DEF m
<1>5. CASE waiting # {}
  <2>1. Earliest(waiting) \in Nat /\ \A u \in waiting : Earliest(waiting) <= u
    BY <1>2, <1>5, LeastOfNaturals
  <2>2. t \in Nat
    BY <2>1 DEF Later
  <2>3. m = MinOrPush(e, t)
    BY <1>1, <1>5
  <2>4. EventOK(m) /\ ByTime(m, t)
    BY <2>2, <2>3, MinOrPushFact
  <2>5. ASSUME NEW c \in on, running[c]
        PROVE  ByTime(m, Later(global, next[c]))
    <3>1. Earliest(waiting) <= next[c] /\ next[c] \in Nat
      BY <1>3, <2>1, <2>5
    <3>2. t <= Later(global, next[c]) /\ Later(global, next[c]) \in Nat
      BY <2>1, <3>1 DEF Later
    <3> HIDE DEF t
    <3>3. PICK u \in m : u <= t
      BY <2>4 DEF ByTime
    <3>4. u \in Nat
      BY <2>4 DEF EventOK
    <3>5. u <= Later(global, next[c])
      BY <2>2, <3>2, <3>3, <3>4
    <3> QED  BY <3>5 DEF ByTime
  <2> QED  BY <2>4, <2>5 DEF m
<1> QED  BY <1>4, <1>5

\* After n cycles the event is still in time for what it was in time for.
LEMMA PassFact ==
  ASSUME NEW n \in Nat, NEW next \in [Channels -> Nat], NEW e, EventOK(e),
         globalNext \in Nat, Pass(n, next, e)
  PROVE  /\ nextActive' \in [Channels -> Nat] /\ globalNext' \in Nat /\ EventOK(event')
         /\ \A c \in Channels :
              ByTime(e, Later(globalNext, next[c]))
                => ByTime(event', Later(globalNext', nextActive'[c]))
<1>1. nextActive' \in [Channels -> Nat] /\ globalNext' \in Nat
  BY LessFact DEF Pass
<1>2. EventOK(event')
  <2>1. CASE e = {}
    BY <2>1 DEF Pass, EventOK
  <2>2. CASE e # {}
    <3>1. PICK t \in Nat : e = {t}
      BY <2>2 DEF EventOK
    <3>2. event' = {Less(t, n)}
      BY <3>1 DEF Pass
    <3> QED  BY <3>2, LessFact DEF EventOK
  <2> QED  BY <2>1, <2>2
<1>3. ASSUME NEW c \in Channels, ByTime(e, Later(globalNext, next[c]))
      PROVE  ByTime(event', Later(globalNext', nextActive'[c]))
  <2>1. PICK t \in e : t <= Later(globalNext, next[c])
    BY <1>3 DEF ByTime
  <2>2. t \in Nat /\ next[c] \in Nat
    BY DEF EventOK
  <2>3. /\ Less(t, n) \in event'
        /\ globalNext' = Less(globalNext, n) /\ nextActive'[c] = Less(next[c], n)
    BY DEF Pass
  <2>4. Less(t, n) <= Later(Less(globalNext, n), Less(next[c], n))
    BY <2>1, <2>2 DEF Later, Less
  <2> QED  BY <2>3, <2>4 DEF ByTime
<1> QED  BY <1>1, <1>2, <1>3

-----------------------------------------------------------------------------
(***************************************************************************)
(* The channel that runs.                                                  *)
(***************************************************************************)
\* Of channels with the same right to run, the first is in the set, and comes
\* before the others.
LEMMA FirstFact ==
  ASSUME Types, Ready # {}
  PROVE  /\ First \in Ready
         /\ \A d \in Ready \ {First} : Before(First, d)
<1>1. Ready \subseteq Channels /\ Ready \subseteq enabled
  BY DEF Ready, Due
<1>2. Channels \subseteq 0..6
  BY DmaAssumptions DEF MDEC_IN, MDEC_OUT, GPU, CD_ROM, SPU, OTC
<1> DEFINE ranks == {priority[c] : c \in Ready}
<1>3. ranks \in SUBSET Nat /\ ranks # {}
  BY <1>1 DEF Types
<1>4. PICK p \in ranks : \A q \in ranks : p <= q
  BY <1>3, LeastOfNaturals
<1> DEFINE best == {c \in Ready : priority[c] = p}
<1>5. best \in SUBSET Nat /\ best # {}
  <2>1. best \subseteq 0..6
    BY <1>1, <1>2
  <2>2. best # {}
    BY <1>4
  <2> QED  BY <2>1, <2>2
<1>6. PICK c \in best : \A d \in best : c <= d
  BY <1>5, LeastOfNaturals
<1>7. ASSUME NEW d \in Ready \ {c} PROVE Before(c, d)
  <2>1. /\ c \in enabled /\ d \in enabled
        /\ c \in Nat /\ d \in Nat /\ priority[c] \in Nat /\ priority[d] \in Nat
    BY <1>1, <1>2 DEF Types
  <2>2. priority[c] = p /\ p <= priority[d]
    BY <1>4
  <2>3. priority[d] = p => c < d
    BY <1>6, <2>1
  <2> QED  BY <2>1, <2>2, <2>3 DEF Before
<1>8. c \in Ready /\ \A d \in Ready \ {c} : Before(c, d)
  BY <1>7
<1> QED  BY <1>8 DEF First

\* A pass changes the channel that runs and no other.
LEMMA ServedFact ==
  ASSUME Types, NEW w \in Waits, Serve(w), NEW c \in Channels,
         active'[c] # active[c] \/ left'[c] # left[c]
  PROVE  Ready # {} /\ c = First /\ Served(First, w)
<1>1. Ready # {} /\ Served(First, w)
  BY DEF Serve, NothingServed
<1> QED  BY <1>1 DEF Served, Types

-----------------------------------------------------------------------------
(***************************************************************************)
(* The invariant.                                                          *)
(***************************************************************************)
LEMMA InvInit == Init => IInv
<1> SUFFICES ASSUME Init PROVE IInv
  OBVIOUS
<1>1. Channels \subseteq Nat
  BY DmaAssumptions DEF MDEC_IN, MDEC_OUT, GPU, CD_ROM, SPU, OTC
<1>2. priority \in [Channels -> Nat]
  BY <1>1 DEF Init
<1>3. Types
  BY <1>2 DEF Init, Types, EventOK
<1>4. BusHeld /\ TransferScheduled /\ PendingIsEnabled
  BY DEF Init, BusHeld, TransferScheduled, PendingIsEnabled
<1> QED  BY <1>3, <1>4 DEF IInv

\* What every instruction does to the event, from the one its register write
\* leaves in e.
LEMMA InstructionStep ==
  ASSUME IInv, NEW e, EventOK(e), Cpu, Pass(1, nextActive, e),
         \A c \in enabled' :
           active'[c] => c \in Channels /\ ByTime(e, Later(globalNext, nextActive[c]))
  PROVE  /\ nextActive' \in [Channels -> Nat] /\ globalNext' \in Nat /\ EventOK(event')
         /\ cpuWait' \in Nat /\ BusHeld' /\ TransferScheduled'
<1>1. nextActive \in [Channels -> Nat] /\ globalNext \in Nat
  BY DEF IInv, Types
<1>2. /\ nextActive' \in [Channels -> Nat] /\ globalNext' \in Nat /\ EventOK(event')
      /\ \A c \in Channels :
           ByTime(e, Later(globalNext, nextActive[c]))
             => ByTime(event', Later(globalNext', nextActive'[c]))
  BY <1>1, PassFact
<1>3. cpuWait' = 0
  BY DEF Cpu
<1>4. BusHeld'
  BY <1>2, <1>3 DEF BusHeld
<1>5. TransferScheduled'
  BY <1>2 DEF TransferScheduled, ByTime
<1> QED  BY <1>2, <1>3, <1>4, <1>5

\* The event is in time for every transfer.
LEMMA InTime ==
  ASSUME IInv
  PROVE  /\ EventOK(event)
         /\ \A c \in enabled : active[c] =>
              c \in Channels /\ ByTime(event, Later(globalNext, nextActive[c]))
BY DEF IInv, Types, TransferScheduled, ByTime

LEMMA CpuStep ==
  ASSUME IInv, OtherInstruction \/ Program
  PROVE  IInv'
<1> USE DEF control, interrupt, channel
<1>0. /\ Types /\ PendingIsEnabled /\ request' = request
      /\ nextActive \in [Channels -> Nat] /\ globalNext \in Nat
      /\ active \in [Channels -> BOOLEAN] /\ EventOK(event)
  BY DEF IInv, Types, OtherInstruction, Program, WriteControl, WriteInterrupt,
    WriteInterruptStatus, WriteLength, WriteChannelControl, Cpu
<1>1. CASE OtherInstruction
  <2>1. Cpu /\ Pass(1, nextActive, event) /\ UNCHANGED <<control, interrupt, channel>>
    BY <1>1 DEF OtherInstruction
  <2>2. /\ nextActive' \in [Channels -> Nat] /\ globalNext' \in Nat /\ EventOK(event')
        /\ cpuWait' \in Nat /\ BusHeld' /\ TransferScheduled'
    BY <2>1, InTime, InstructionStep
  <2> QED  BY <1>0, <2>1, <2>2 DEF IInv, Types, PendingIsEnabled
<1>2. ASSUME NEW p \in Priorities, NEW on \in SUBSET Channels, WriteControl(p, on)
      PROVE  IInv'
  <2> DEFINE e == MaybeSchedule(event, on, active, nextActive, globalNext)
  <2>1. /\ Cpu /\ Pass(1, nextActive, e) /\ UNCHANGED <<interrupt, channel>>
        /\ priority' = p /\ enabled' = on
    BY <1>2 DEF WriteControl
  <2>2. /\ EventOK(e)
        /\ \A c \in on : active[c] => ByTime(e, Later(globalNext, nextActive[c]))
    BY <1>0, MaybeScheduleFact
  <2> HIDE DEF e
  <2>3. \A c \in enabled' :
          active'[c] => c \in Channels /\ ByTime(e, Later(globalNext, nextActive[c]))
    BY <2>1, <2>2
  <2>4. /\ nextActive' \in [Channels -> Nat] /\ globalNext' \in Nat /\ EventOK(event')
        /\ cpuWait' \in Nat /\ BusHeld' /\ TransferScheduled'
    BY <2>1, <2>2, <2>3, InstructionStep
  <2>5. p \in [Channels -> Nat]
    BY DmaAssumptions
  <2> QED  BY <1>0, <2>1, <2>4, <2>5 DEF IInv, Types, PendingIsEnabled
<1>3. ASSUME NEW value \in InterruptWrites, WriteInterrupt(value)
      PROVE  IInv'
  <2>1. /\ Cpu /\ Pass(1, nextActive, event) /\ UNCHANGED <<control, channel>>
        /\ forceIrq' = value.force /\ irqEnabled' = value.channels /\ masterIrq' = value.master
        /\ irqPending' = (irqPending \ value.ack) \cap value.channels
        /\ istat' = (istat \/ (~IrqPending /\ IrqPending'))
    BY <1>3 DEF WriteInterrupt, FlagEdge
  <2>2. /\ value.force \in BOOLEAN /\ value.channels \subseteq Channels
        /\ value.master \in BOOLEAN
    BY DmaAssumptions
  <2>3. istat' \in BOOLEAN
    BY <2>1
  <2>4. /\ nextActive' \in [Channels -> Nat] /\ globalNext' \in Nat /\ EventOK(event')
        /\ cpuWait' \in Nat /\ BusHeld' /\ TransferScheduled'
    BY <2>1, InTime, InstructionStep
  <2>5. {masterIrq', forceIrq', istat', list', request'} \subseteq BOOLEAN
    BY <1>0, <2>1, <2>2, <2>3 DEF Types
  <2>6. irqPending' \subseteq irqEnabled' /\ irqEnabled' \subseteq Channels
    BY <2>1, <2>2
  <2> QED  BY <1>0, <2>1, <2>4, <2>5, <2>6 DEF IInv, Types, PendingIsEnabled
<1>4. CASE WriteInterruptStatus
  <2>1. /\ Cpu /\ Pass(1, nextActive, event) /\ istat' = FALSE
        /\ UNCHANGED <<control, irqEnabled, masterIrq, irqPending, forceIrq, channel>>
    BY <1>4 DEF WriteInterruptStatus
  <2>2. /\ nextActive' \in [Channels -> Nat] /\ globalNext' \in Nat /\ EventOK(event')
        /\ cpuWait' \in Nat /\ BusHeld' /\ TransferScheduled'
    BY <2>1, InTime, InstructionStep
  <2> QED  BY <1>0, <2>1, <2>2 DEF IInv, Types, PendingIsEnabled
<1>5. ASSUME NEW c \in Channels, NEW n \in 1..MaxLeft, WriteLength(c, n)
      PROVE  IInv'
  <2>1. /\ Cpu /\ Pass(1, nextActive, event) /\ left' = [left EXCEPT ![c] = n]
        /\ UNCHANGED <<control, interrupt, active, list>>
    BY <1>5 DEF WriteLength
  <2>2. /\ nextActive' \in [Channels -> Nat] /\ globalNext' \in Nat /\ EventOK(event')
        /\ cpuWait' \in Nat /\ BusHeld' /\ TransferScheduled'
    BY <2>1, InTime, InstructionStep
  <2>3. n \in Nat
    BY DmaAssumptions
  <2> QED  BY <1>0, <2>1, <2>2, <2>3 DEF IInv, Types, PendingIsEnabled
<1>6. ASSUME NEW c \in Channels, NEW s \in BOOLEAN, NEW l \in BOOLEAN,
             WriteChannelControl(c, s, l)
      PROVE  IInv'
  <2> DEFINE e == IF s THEN MinOrPush(event, 0) ELSE event
  <2>1. /\ Cpu /\ Pass(1, nextActive, e) /\ active' = [active EXCEPT ![c] = s]
        /\ list' = IF c = GPU THEN l ELSE list
        /\ UNCHANGED <<control, interrupt, left>>
    BY <1>6 DEF WriteChannelControl
  <2>2. /\ EventOK(e)
        /\ \A u \in Nat : ByTime(event, u) \/ s => ByTime(e, u)
    <3>1. /\ EventOK(MinOrPush(event, 0)) /\ ByTime(MinOrPush(event, 0), 0)
          /\ \A u \in Nat : ByTime(event, u) => ByTime(MinOrPush(event, 0), u)
      BY <1>0, MinOrPushFact
    <3>2. \A u \in Nat : ByTime(MinOrPush(event, 0), u)
      BY <3>1 DEF ByTime, EventOK
    <3> QED  BY <1>0, <3>1, <3>2
  <2> HIDE DEF e
  <2>3. ASSUME NEW d \in enabled', active'[d]
        PROVE  d \in Channels /\ ByTime(e, Later(globalNext, nextActive[d]))
    <3>1. d \in Channels /\ d \in enabled /\ (active[d] \/ s)
      BY <1>0, <2>1, <2>3 DEF Types
    <3>2. Later(globalNext, nextActive[d]) \in Nat
      BY <1>0, <3>1 DEF Later
    <3> QED  BY <2>2, <3>1, <3>2, InTime
  <2>4. /\ nextActive' \in [Channels -> Nat] /\ globalNext' \in Nat /\ EventOK(event')
        /\ cpuWait' \in Nat /\ BusHeld' /\ TransferScheduled'
    BY <2>1, <2>2, <2>3, InstructionStep
  <2>5. active' \in [Channels -> BOOLEAN] /\ list' \in BOOLEAN
    BY <1>0, <2>1 DEF Types
  <2> QED  BY <1>0, <2>1, <2>4, <2>5 DEF IInv, Types, PendingIsEnabled
<1> QED  BY <1>1, <1>2, <1>3, <1>4, <1>5, <1>6 DEF Program

LEMMA TakeCpuWaitStep ==
  ASSUME IInv, TakeCpuWait
  PROVE  IInv'
<1>1. /\ Pass(cpuWait, nextActive, event) /\ cpuWait' = 0
      /\ UNCHANGED <<control, interrupt, channel, request>>
  BY DEF TakeCpuWait
<1>2. cpuWait \in Nat /\ nextActive \in [Channels -> Nat] /\ globalNext \in Nat
  BY DEF IInv, Types
<1>3. /\ nextActive' \in [Channels -> Nat] /\ globalNext' \in Nat /\ EventOK(event')
      /\ \A c \in Channels :
           ByTime(event, Later(globalNext, nextActive[c]))
             => ByTime(event', Later(globalNext', nextActive'[c]))
  BY <1>1, <1>2, InTime, PassFact
<1>4. TransferScheduled'
  <2>1. enabled' = enabled /\ active' = active
    BY <1>1 DEF control, channel
  <2> QED  BY <1>3, <2>1, InTime DEF TransferScheduled, ByTime
<1> QED
  BY <1>1, <1>3, <1>4
  DEF IInv, Types, BusHeld, PendingIsEnabled, control, interrupt, channel

LEMMA ServeStep ==
  ASSUME IInv, NEW w \in Waits, Serve(w), UNCHANGED <<control, list, request>>
  PROVE  IInv'
<1>1. /\ Types /\ PendingIsEnabled /\ w \in Nat
      /\ Ready \subseteq Channels
      /\ Ready # {} => First \in Channels
  <2>1. Types
    BY DEF IInv
  <2>2. Ready \subseteq Channels
    BY DEF Ready, Due
  <2> QED  BY <2>1, <2>2, FirstFact, DmaAssumptions DEF IInv
<1>2. /\ cpuWait' \in Nat
      /\ active' \in [Channels -> BOOLEAN] /\ left' \in [Channels -> Nat]
  <2>1. CASE Ready = {}
    BY <1>1, <2>1 DEF Serve, NothingServed, Types
  <2>2. CASE Ready # {}
    <3>1. /\ cpuWait' \in {w, 0}
          /\ active' = [active EXCEPT ![First] = ~Ends(First)]
          /\ left' = [left EXCEPT ![First] = IF Runs(First) THEN @ - 1 ELSE @]
      BY <2>2 DEF Serve, Served
    <3>2. left[First] \in Nat /\ (Runs(First) => left[First] - 1 \in Nat)
      BY <1>1, <2>2 DEF Types, Runs
    <3>3. Ends(First) \in BOOLEAN
      BY DEF Ends
    <3> QED  BY <1>1, <2>2, <3>1, <3>2, <3>3 DEF Types
  <2> QED  BY <2>1, <2>2
<1>3. /\ {masterIrq', forceIrq', istat'} \subseteq BOOLEAN
      /\ irqEnabled' = irqEnabled /\ irqPending' \subseteq irqEnabled
  <2>1. CASE UNCHANGED interrupt
    BY <1>1, <2>1 DEF Types, PendingIsEnabled, interrupt
  <2>2. CASE FlagInterrupt(First)
    <3>1. istat' = (istat \/ (~IrqPending /\ IrqPending'))
      BY <2>2 DEF FlagInterrupt, FlagEdge
    <3>2. istat' \in BOOLEAN
      BY <3>1
    <3> QED  BY <1>1, <2>2, <3>2 DEF FlagInterrupt, Types, PendingIsEnabled
  <2> QED  BY <2>1, <2>2 DEF Serve, NothingServed, Served
<1>4. globalNext' = cpuWait'
  BY DEF Serve, HoldBus
<1>5. nextActive' \in [Channels -> Nat]
  <2>1. RetryDelay \in Nat /\ Delay(First) \in Nat /\ EmptyNodeDelay \in Nat
    BY DmaAssumptions DEF Delay
  <2>2. NextActive(First, w) \in Nat
    BY <1>1, <2>1 DEF NextActive
  <2>3. nextActive \in [Channels -> Nat]
    BY <1>1 DEF Types
  <2>4. nextActive' = [c \in Channels |->
          IF c \in Retried THEN RetryDelay
          ELSE IF Ready # {} /\ c = First /\ Runs(c) THEN NextActive(c, w)
          ELSE nextActive[c]]
    BY DEF Serve
  <2> QED  BY <2>1, <2>2, <2>3, <2>4
<1>6. /\ EventOK(event')
      /\ \A c \in enabled : active'[c] => ByTime(event', Later(globalNext', nextActive'[c]))
  <2>1. event' = MaybeSchedule({}, enabled, active', nextActive', globalNext')
    BY DEF Serve
  <2>2. enabled \in SUBSET Channels /\ EventOK({}) /\ globalNext' \in Nat
    BY <1>1, <1>2, <1>4 DEF Types, EventOK
  <2> QED  BY <1>2, <1>5, <2>1, <2>2, MaybeScheduleFact
<1>7. enabled' = enabled /\ priority' = priority /\ list' = list /\ request' = request
  BY DEF control
<1>8. Types'
  BY <1>1, <1>2, <1>3, <1>4, <1>5, <1>6, <1>7 DEF Types
<1>9. BusHeld' /\ TransferScheduled' /\ PendingIsEnabled'
  BY <1>2, <1>3, <1>4, <1>6, <1>7
  DEF BusHeld, TransferScheduled, PendingIsEnabled, ByTime
<1> QED  BY <1>8, <1>9 DEF IInv

LEMMA ProcessDmaStep ==
  ASSUME IInv, ProcessDma
  PROVE  IInv'
<1>1. UNCHANGED <<control, list, request>>
  BY DEF ProcessDma
<1>2. CASE TooEarly
  <2>1. /\ event' = {globalNext}
        /\ UNCHANGED <<interrupt, active, left, nextActive, globalNext, cpuWait>>
    BY <1>2 DEF TooEarly
  <2>2. EventOK(event')
    BY <2>1 DEF EventOK, IInv, Types
  <2>3. TransferScheduled'
    <3>1. \A c \in enabled : globalNext <= Later(globalNext, nextActive[c])
      BY DEF IInv, Types, Later
    <3> QED  BY <1>1, <2>1, <3>1 DEF TransferScheduled, control
  <2> QED
    BY <1>1, <2>1, <2>2, <2>3
    DEF IInv, Types, BusHeld, PendingIsEnabled, control, interrupt
<1>3. ASSUME NEW w \in Waits, Serve(w) PROVE IInv'
  BY <1>1, <1>3, ServeStep
<1> QED  BY <1>2, <1>3 DEF ProcessDma

LEMMA InvStep == IInv /\ [Next]_vars => IInv'
<1> SUFFICES ASSUME IInv, [Next]_vars PROVE IInv'
  OBVIOUS
<1>1. CASE OtherInstruction \/ Program
  BY <1>1, CpuStep
<1>2. CASE TakeCpuWait
  BY <1>2, TakeCpuWaitStep
<1>3. CASE ProcessDma
  BY <1>3, ProcessDmaStep
<1>4. CASE MdecRequest
  <2>1. request' \in BOOLEAN
    BY <1>4 DEF MdecRequest
  <2> QED
    BY <1>4, <2>1
    DEF MdecRequest, IInv, Types, BusHeld, TransferScheduled, PendingIsEnabled,
      control, interrupt, channel, times
<1>5. CASE UNCHANGED vars
  BY <1>5
  DEF vars, IInv, Types, BusHeld, TransferScheduled, PendingIsEnabled,
    control, interrupt, channel, times
<1> QED  BY <1>1, <1>2, <1>3, <1>4, <1>5 DEF Next

LEMMA Invariant == Spec => []IInv
BY InvInit, InvStep, PTL DEF Spec

-----------------------------------------------------------------------------
\* Every variable keeps its type, and there is never more than one ProcessDma
\* event.
THEOREM TypeInvariant == Spec => []TypeOK
<1>1. IInv => TypeOK
  <2> SUFFICES ASSUME IInv PROVE TypeOK
    OBVIOUS
  <2>1. event \subseteq Nat /\ Cardinality(event) <= 1
    <3>1. CASE event = {}
      BY <3>1, FS_EmptySet
    <3>2. ASSUME NEW t \in Nat, event = {t}
          PROVE  event \subseteq Nat /\ Cardinality(event) <= 1
      <4>1. Cardinality({t}) = 1
        BY FS_Singleton
      <4> QED  BY <3>2, <4>1
    <3> QED  BY <3>1, <3>2 DEF IInv, Types, EventOK
  <2> QED  BY <2>1 DEF IInv, Types, TypeOK
<1> QED  BY <1>1, Invariant, PTL

\* No started and enabled transfer is forgotten: whatever the program writes
\* while transfers run, maybe_schedule_process_dma and the 0 a channel control
\* write pushes leave a ProcessDma event that is in time for all of them.
THEOREM TransfersAreScheduled == Spec => []TransferScheduled
<1>1. IInv => TransferScheduled
  BY DEF IInv
<1> QED  BY <1>1, Invariant, PTL

\* The flags of channels whose interrupt is disabled stay clear.
THEOREM PendingImpliesEnabled == Spec => []PendingIsEnabled
<1>1. IInv => PendingIsEnabled
  BY DEF IInv
<1> QED  BY <1>1, Invariant, PTL

\* process resets cpu_wait_cycles only when the CPU has waited them: the bus
\* is held for at least as long, and a pass that comes earlier returns.
THEOREM WaitIsTaken == Spec => WaitTaken
<1>1. IInv /\ [Next]_vars => [cpuWait # 0 => cpuWait' = cpuWait \/ TakeCpuWait]_vars
  <2> SUFFICES ASSUME IInv, Next, cpuWait # 0, cpuWait' # cpuWait PROVE TakeCpuWait
    BY DEF vars
  <2>1. ~Cpu
    BY DEF Cpu
  <2>2. ~OtherInstruction /\ ~Program
    BY <2>1 DEF OtherInstruction, Program, WriteControl, WriteInterrupt,
      WriteInterruptStatus, WriteLength, WriteChannelControl
  <2>3. ~MdecRequest
    BY DEF MdecRequest
  <2>4. ~ProcessDma
    <3>1. globalNext # 0
      BY DEF IInv, Types, BusHeld
    <3> QED  BY <3>1 DEF ProcessDma, TooEarly
  <2> QED  BY <2>2, <2>3, <2>4 DEF Next
<1> QED  BY <1>1, Invariant, PTL DEF Spec, WaitTaken

\* The channel a pass serves is the one that comes first in
\* channels_in_priority_order among those that could run.
THEOREM PriorityIsRespected == Spec => PriorityRespected
<1>1. IInv /\ [Next]_vars =>
        [\A c, d \in Ready :
           /\ left'[c] < left[c] \/ (active[c] /\ ~active'[c])
           /\ ProcessDma
           => \/ priority[c] < priority[d]
              \/ (priority[c] = priority[d] /\ c <= d)]_vars
  <2> SUFFICES ASSUME IInv, NEW c \in Ready, NEW d \in Ready, ProcessDma,
                      left'[c] < left[c] \/ (active[c] /\ ~active'[c])
               PROVE  \/ priority[c] < priority[d]
                      \/ (priority[c] = priority[d] /\ c <= d)
    OBVIOUS
  <2>1. /\ Types /\ c \in Channels /\ d \in Channels /\ c \in enabled /\ d \in enabled
    BY DEF IInv, Ready, Due
  <2>2. /\ c \in Nat /\ d \in Nat /\ priority[c] \in Nat /\ priority[d] \in Nat
        /\ left[c] \in Nat
    BY <2>1, DmaAssumptions DEF Types, MDEC_IN, MDEC_OUT, GPU, CD_ROM, SPU, OTC
  <2>3. active'[c] # active[c] \/ left'[c] # left[c]
    BY <2>2
  <2>4. ~TooEarly
    BY <2>3 DEF TooEarly
  <2>5. PICK w \in Waits : Serve(w)
    BY <2>4 DEF ProcessDma
  <2>6. c = First
    BY <2>1, <2>3, <2>5, ServedFact
  <2>7. d = c \/ Before(c, d)
    BY <2>1, <2>6, FirstFact
  <2> QED  BY <2>1, <2>2, <2>7 DEF Before
<1> QED  BY <1>1, Invariant, PTL DEF Spec, PriorityRespected

\* A pass ends a transfer only when nothing is left of it, and an enabled
\* interrupt is then pending and, on its edge, in I_STAT.
THEOREM TransferEndsAreFlagged == Spec => EndsAreFlagged
<1>1. IInv /\ [Next]_vars =>
        [\A c \in Channels :
           ProcessDma /\ active[c] /\ ~active'[c] =>
             /\ c \in Bursts \/ left[c] = 0
             /\ c \in irqEnabled => c \in irqPending'
             /\ c \in irqEnabled /\ masterIrq /\ ~IrqPending => istat']_vars
  <2> SUFFICES ASSUME IInv, NEW c \in Channels, ProcessDma, active[c], ~active'[c]
               PROVE  /\ c \in Bursts \/ left[c] = 0
                      /\ c \in irqEnabled => c \in irqPending'
                      /\ c \in irqEnabled /\ masterIrq /\ ~IrqPending => istat'
    OBVIOUS
  <2>1. ~TooEarly
    BY DEF TooEarly
  <2>2. PICK w \in Waits : Serve(w)
    BY <2>1 DEF ProcessDma
  <2>3. c = First /\ Served(c, w)
    BY <2>2, ServedFact DEF IInv
  <2>4. Ends(c)
    BY <2>3 DEF Served, IInv, Types
  <2>5. FlagInterrupt(c)
    BY <2>3, <2>4 DEF Served
  <2>6. c \in irqEnabled => c \in irqPending'
    BY <2>5 DEF FlagInterrupt
  <2>7. c \in irqEnabled /\ masterIrq => IrqPending'
    BY <2>5, <2>6 DEF FlagInterrupt, IrqPending
  <2>8. c \in irqEnabled /\ masterIrq /\ ~IrqPending => istat'
    BY <2>5, <2>7 DEF FlagInterrupt, FlagEdge
  <2> QED  BY <2>4, <2>6, <2>8 DEF Ends
<1> QED  BY <1>1, Invariant, PTL DEF Spec, EndsAreFlagged
=============================================================================
