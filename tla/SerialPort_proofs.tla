-------------------------- MODULE SerialPort_proofs --------------------------
(***************************************************************************)
(* Proofs about SerialPort, for all durations of transfers, pulses and     *)
(* instructions, and about MemoryCards, for all discs, settings of the     *)
(* slots, sectors and save states.                                         *)
(***************************************************************************)
EXTENDS SerialPort, MemoryCards, SequenceTheorems, TLAPS

Fifos == {<<>>} \cup {<<b>> : b \in Bit} \cup {<<b, c>> : b, c \in Bit}

Times == {{}} \cup {{t} : t \in 0..TransferCycles}

PortRecord ==
  [fifo : Fifos, left : 0..TransferCycles, device : Devices, ack : BOOLEAN, irq : BOOLEAN,
   pending : BOOLEAN, low : 0..AckLowCycles, istat : BOOLEAN, events : [{"tx", "irq"} -> Times],
   got : Bit]

\* Only a byte is transferred, and only behind one does another one wait.
Shape(p) == /\ p.left # 0 => p.fifo # <<>>
            /\ p.left = 0 => Len(p.fifo) < 2

\* BytesInOrder for the bytes f between the exchanged g and the next one h.
Alternating(g, f, h) ==
  LET q == <<g>> \o f \o <<h>> IN \A i \in 1..(Len(q) - 1) : q[i] # q[i + 1]

\* What keeps to its event until the port catches up after n cycles.
InTime(p, n) ==
  /\ p.left > n => p.events["tx"] = {p.left - n}
  /\ p.low > n => p.events["irq"] = {p.low - n}
  /\ p.pending => p.low # 0

\* The same of a port that has caught up.
Fresh(p) ==
  /\ p.left # 0 => p.events["tx"] = {p.left}
  /\ p.low # 0 => p.events["irq"] = {p.low}
  /\ p.pending => p.low # 0

-----------------------------------------------------------------------------
(***************************************************************************)
(* The bytes of the FIFO.                                                  *)
(***************************************************************************)
LEMMA FifoFact ==
  /\ <<>> \in Fifos /\ Len(<<>>) = 0
  /\ \A b \in Bit : <<b>> \in Fifos /\ Len(<<b>>) = 1 /\ Head(<<b>>) = b /\ Tail(<<b>>) = <<>>
                    /\ <<b>> # <<>>
  /\ \A b, c \in Bit : <<b, c>> \in Fifos /\ Len(<<b, c>>) = 2 /\ Head(<<b, c>>) = b
                       /\ Tail(<<b, c>>) = <<c>> /\ <<b, c>> # <<>>
  /\ \A f \in Fifos : f = <<>> \/ (\E b \in Bit : f = <<b>>) \/ \E b, c \in Bit : f = <<b, c>>
<1>1. <<>> \in Fifos /\ Len(<<>>) = 0
  BY DEF Fifos
<1>2. ASSUME NEW b \in Bit
      PROVE  /\ <<b>> \in Fifos /\ Len(<<b>>) = 1 /\ Head(<<b>>) = b /\ Tail(<<b>>) = <<>>
             /\ <<b>> # <<>>
  <2>1. <<b>> \in Fifos
    BY DEF Fifos
  <2>2. Len(<<b>>) = 1 /\ Head(<<b>>) = b /\ Tail(<<b>>) = <<>> /\ <<b>> # <<>>
    OBVIOUS
  <2> QED  BY <2>1, <2>2
<1>3. ASSUME NEW b \in Bit, NEW c \in Bit
      PROVE  /\ <<b, c>> \in Fifos /\ Len(<<b, c>>) = 2 /\ Head(<<b, c>>) = b
             /\ Tail(<<b, c>>) = <<c>> /\ <<b, c>> # <<>>
  <2>1. <<b, c>> \in Fifos
    BY DEF Fifos
  <2>2. Len(<<b, c>>) = 2 /\ Head(<<b, c>>) = b /\ <<b, c>> # <<>>
    OBVIOUS
  <2>3. Tail(<<b, c>>) = <<c>>
    OBVIOUS
  <2> QED  BY <2>1, <2>2, <2>3
<1>4. \A f \in Fifos : f = <<>> \/ (\E b \in Bit : f = <<b>>) \/ \E b, c \in Bit : f = <<b, c>>
  BY DEF Fifos
<1> QED  BY <1>1, <1>2, <1>3, <1>4

LEMMA AlternatingFact ==
  ASSUME NEW g \in Bit, NEW h \in Bit
  PROVE  /\ Alternating(g, <<>>, h) <=> g # h
         /\ \A b \in Bit : Alternating(g, <<b>>, h) <=> (g # b /\ b # h)
         /\ \A b, c \in Bit : Alternating(g, <<b, c>>, h) <=> (g # b /\ b # c /\ c # h)
<1>1. Alternating(g, <<>>, h) <=> g # h
  <2> DEFINE q == <<g>> \o <<>> \o <<h>>
  <2>1. Len(q) = 2 /\ q[1] = g /\ q[2] = h
    OBVIOUS
  <2> HIDE DEF q
  <2>2. (\A i \in 1..(Len(q) - 1) : q[i] # q[i + 1]) <=> q[1] # q[2]
    BY <2>1
  <2> QED  BY <2>1, <2>2 DEF Alternating, q
<1>2. ASSUME NEW b \in Bit PROVE Alternating(g, <<b>>, h) <=> (g # b /\ b # h)
  <2> DEFINE q == <<g>> \o <<b>> \o <<h>>
  <2>1. Len(q) = 3 /\ q[1] = g /\ q[2] = b /\ q[3] = h
    OBVIOUS
  <2> HIDE DEF q
  <2>2. (\A i \in 1..(Len(q) - 1) : q[i] # q[i + 1]) <=> (q[1] # q[2] /\ q[2] # q[3])
    BY <2>1
  <2> QED  BY <2>1, <2>2 DEF Alternating, q
<1>3. ASSUME NEW b \in Bit, NEW c \in Bit
      PROVE  Alternating(g, <<b, c>>, h) <=> (g # b /\ b # c /\ c # h)
  <2> DEFINE q == <<g>> \o <<b, c>> \o <<h>>
  <2>1. Len(q) = 4 /\ q[1] = g /\ q[2] = b /\ q[3] = c /\ q[4] = h
    OBVIOUS
  <2> HIDE DEF q
  <2>2. (\A i \in 1..(Len(q) - 1) : q[i] # q[i + 1])
          <=> (q[1] # q[2] /\ q[2] # q[3] /\ q[3] # q[4])
    BY <2>1
  <2> QED  BY <2>1, <2>2 DEF Alternating, q
<1> QED  BY <1>1, <1>2, <1>3

LEMMA OtherFact == \A b \in Bit : Other(b) \in Bit /\ Other(b) # b
BY DEF Other, Bit

-----------------------------------------------------------------------------
(***************************************************************************)
(* catch_up, step by step.                                                 *)
(***************************************************************************)
LEMMA AckStepFact ==
  ASSUME NEW p \in PortRecord, NEW n \in 1..TransferCycles, Shape(p), InTime(p, n)
  PROVE  LET q == AckStep(p, n)
         IN  /\ q \in PortRecord /\ Shape(q)
             /\ q.fifo = p.fifo /\ q.left = p.left /\ q.got = p.got
             /\ q.left > n => q.events["tx"] = {q.left - n}
             /\ q.low # 0 => q.events["irq"] = {q.low}
             /\ q.pending => q.low # 0
<1> USE SerialAssumptions
<1>1. CASE p.low = 0
  BY <1>1 DEF AckStep, InTime
<1>2. CASE p.low # 0 /\ p.low > n
  <2>1. AckStep(p, n) = [p EXCEPT !.low = p.low - n]
    BY <1>2 DEF AckStep
  <2>2. p.low - n \in 0..AckLowCycles /\ p.low - n # 0
    BY <1>2 DEF PortRecord
  <2> QED  BY <1>2, <2>1, <2>2 DEF PortRecord, Shape, InTime
<1>3. CASE p.low # 0 /\ ~(p.low > n)
  <2>1. AckStep(p, n) = [p EXCEPT !.low = 0, !.istat = p.istat \/ p.pending,
                                  !.ack = FALSE, !.pending = FALSE]
    BY <1>3 DEF AckStep, AckDone
  <2>2. 0 \in 0..AckLowCycles /\ (p.istat \/ p.pending) \in BOOLEAN
    BY DEF PortRecord
  <2> QED  BY <2>1, <2>2 DEF PortRecord, Shape, InTime
<1> QED  BY <1>1, <1>2, <1>3

LEMMA StartFact ==
  ASSUME NEW p \in PortRecord, p.fifo # <<>>
  PROVE  LET q == Start(p)
         IN  /\ q \in PortRecord /\ Shape(q)
             /\ q.fifo = p.fifo /\ q.left = TransferCycles /\ q.got = p.got
             /\ q.low = p.low /\ q.pending = p.pending
             /\ q.events["tx"] = {q.left} /\ q.events["irq"] = p.events["irq"]
<1> USE SerialAssumptions
<1> DEFINE e == [p.events EXCEPT !["tx"] = {TransferCycles}]
<1>1. TransferCycles \in 0..TransferCycles
  OBVIOUS
<1>2. {TransferCycles} \in Times
  BY <1>1 DEF Times
<1>3. p.events \in [{"tx", "irq"} -> Times]
  BY DEF PortRecord
<1>4. e \in [{"tx", "irq"} -> Times] /\ e["tx"] = {TransferCycles} /\ e["irq"] = p.events["irq"]
  BY <1>2, <1>3
<1>5. Start(p) = [p EXCEPT !.left = TransferCycles, !.events = e]
  BY DEF Start, PortRecord
<1> HIDE DEF e
<1> QED  BY <1>1, <1>4, <1>5 DEF PortRecord, Shape

LEMMA AnswersFact == \A d \in Devices : Answers(d) \subseteq Devices
BY DEF Answers, Devices

LEMMA AcknowledgeFact ==
  ASSUME NEW p \in PortRecord, NEW d \in Devices, dsrEnabled \in BOOLEAN
  PROVE  LET q == ScheduleAck(Acknowledge(p, d))
         IN  /\ q \in PortRecord
             /\ q.fifo = p.fifo /\ q.left = p.left /\ q.got = p.got
             /\ q.low = AckLowCycles
             /\ q.events["tx"] = p.events["tx"] /\ q.events["irq"] = {AckLowCycles}
<1> USE SerialAssumptions
<1> DEFINE pending == p.pending \/ (dsrEnabled /\ d = "Connected" /\ ~p.irq)
           irqs == p.irq \/ (dsrEnabled /\ d = "Connected")
           a == [p EXCEPT !.device = d, !.ack = TRUE, !.low = AckLowCycles,
                          !.pending = pending, !.irq = irqs]
           e == [p.events EXCEPT !["irq"] = {AckLowCycles}]
<1>1. Acknowledge(p, d) = a
  BY DEF Acknowledge, PortRecord
<1>2. pending \in BOOLEAN /\ irqs \in BOOLEAN
  OBVIOUS
<1> HIDE DEF pending, irqs
<1>3. /\ a \in PortRecord /\ a.fifo = p.fifo /\ a.left = p.left /\ a.got = p.got
      /\ a.low = AckLowCycles /\ a.events = p.events
  <2>1. AckLowCycles \in 0..AckLowCycles
    OBVIOUS
  <2>2. /\ a.fifo = p.fifo /\ a.left = p.left /\ a.got = p.got
        /\ a.low = AckLowCycles /\ a.events = p.events
    BY DEF PortRecord
  <2>3. a \in PortRecord
    BY <1>2, <2>1, Zenon DEF PortRecord
  <2> QED  BY <2>2, <2>3
<1>4. {AckLowCycles} \in Times
  BY DEF Times
<1>5. p.events \in [{"tx", "irq"} -> Times]
  BY DEF PortRecord
<1>6. /\ e \in [{"tx", "irq"} -> Times]
      /\ e["irq"] = {AckLowCycles} /\ e["tx"] = p.events["tx"]
  BY <1>4, <1>5
<1>7. ScheduleAck(a) = [a EXCEPT !.events = e]
  BY <1>3 DEF ScheduleAck, PortRecord
<1> HIDE DEF a, e
<1>8. /\ ScheduleAck(a) \in PortRecord
      /\ ScheduleAck(a).fifo = a.fifo /\ ScheduleAck(a).left = a.left
      /\ ScheduleAck(a).got = a.got /\ ScheduleAck(a).low = a.low
      /\ ScheduleAck(a).events = e
  BY <1>3, <1>6, <1>7 DEF PortRecord
<1> QED  BY <1>1, <1>3, <1>6, <1>8

LEMMA ExchangeFact ==
  ASSUME NEW p \in PortRecord, p.fifo # <<>>, NEW d \in Devices,
         dsrEnabled \in BOOLEAN, txEnabled \in BOOLEAN
  PROVE  LET q == Exchange(p, d)
         IN  /\ q \in PortRecord /\ Shape(q) /\ Fresh(q)
             /\ q.got = Head(p.fifo) /\ q.fifo = Tail(p.fifo)
             /\ Len(p.fifo) = 1 => ReadyForNewByte(q)
<1> USE SerialAssumptions
<1> DEFINE a == ScheduleAck(Acknowledge(p, d))
           x == [a EXCEPT !.got = Head(p.fifo), !.fifo = Tail(p.fifo), !.left = 0]
<1>1. /\ a \in PortRecord /\ a.fifo = p.fifo /\ a.low = AckLowCycles
      /\ a.events["irq"] = {AckLowCycles}
  BY AcknowledgeFact
<1>2. /\ Head(p.fifo) \in Bit /\ Tail(p.fifo) \in Fifos /\ Len(Tail(p.fifo)) < 2
      /\ Len(p.fifo) = 1 => Tail(p.fifo) = <<>>
  <2>1. p.fifo \in Fifos
    BY DEF PortRecord
  <2>2. CASE \E b \in Bit : p.fifo = <<b>>
    BY <2>2, FifoFact
  <2>3. CASE \E b, c \in Bit : p.fifo = <<b, c>>
    <3>1. PICK b \in Bit, c \in Bit : p.fifo = <<b, c>>
      BY <2>3
    <3>2. Head(p.fifo) = b /\ Tail(p.fifo) = <<c>> /\ Len(p.fifo) = 2
      BY <3>1, FifoFact
    <3>3. <<c>> \in Fifos /\ Len(<<c>>) = 1
      BY FifoFact
    <3>4. Tail(p.fifo) \in Fifos /\ Len(Tail(p.fifo)) = 1 /\ Head(p.fifo) \in Bit
      BY <3>2, <3>3, Zenon
    <3>5. Len(Tail(p.fifo)) < 2 /\ Len(p.fifo) # 1
      BY <3>2, <3>4
    <3> QED  BY <3>4, <3>5, Zenon
  <2> QED  BY <2>1, <2>2, <2>3, FifoFact
<1>3. Exchange(p, d) = IF x.fifo # <<>> /\ txEnabled THEN Start(x) ELSE x
  BY DEF Exchange
<1> HIDE DEF a
<1>4. /\ x \in PortRecord /\ x.got = Head(p.fifo) /\ x.fifo = Tail(p.fifo) /\ x.left = 0
      /\ x.low = a.low /\ x.events = a.events
  <2>1. 0 \in 0..TransferCycles
    OBVIOUS
  <2> QED  BY <1>1, <1>2, <2>1 DEF PortRecord
<1>5. AckLowCycles # 0
  OBVIOUS
<1> HIDE DEF x
<1>6. CASE x.fifo # <<>> /\ txEnabled
  <2>1. Exchange(p, d) = Start(x)
    BY <1>3, <1>6
  <2>2. /\ Start(x) \in PortRecord /\ Shape(Start(x)) /\ Start(x).fifo = x.fifo
        /\ Start(x).got = x.got /\ Start(x).low = x.low
        /\ Start(x).events["tx"] = {Start(x).left}
        /\ Start(x).events["irq"] = x.events["irq"]
    BY <1>4, <1>6, StartFact
  <2>3. Fresh(Start(x))
    BY <2>2, <1>1, <1>4, <1>5 DEF Fresh
  <2>4. Len(p.fifo) # 1
    BY <1>2, <1>4, <1>6
  <2> QED  BY <2>1, <2>2, <2>3, <2>4, <1>4
<1>7. CASE ~(x.fifo # <<>> /\ txEnabled)
  <2>1. Exchange(p, d) = x
    BY <1>3, <1>7
  <2>2. Shape(x) /\ Fresh(x)
    BY <1>1, <1>2, <1>4, <1>5 DEF Shape, Fresh
  <2>3. Len(p.fifo) = 1 => ReadyForNewByte(x)
    BY <1>2, <1>4 DEF ReadyForNewByte
  <2> QED  BY <2>1, <2>2, <2>3, <1>4
<1> QED  BY <1>6, <1>7

LEMMA HeadAlternates ==
  ASSUME NEW f \in Fifos, f # <<>>, NEW g \in Bit, NEW h \in Bit, Alternating(g, f, h)
  PROVE  Alternating(Head(f), Tail(f), h)
<1>1. CASE \E b \in Bit : f = <<b>>
  BY <1>1, FifoFact, AlternatingFact
<1>2. CASE \E b, c \in Bit : f = <<b, c>>
  BY <1>2, FifoFact, AlternatingFact
<1> QED  BY <1>1, <1>2, FifoFact

\* What catch_up keeps of p in q.
PortKept(p, q) ==
  /\ q \in PortRecord /\ Shape(q) /\ Fresh(q)
  /\ \A h \in Bit : Alternating(p.got, p.fifo, h) => Alternating(q.got, q.fifo, h)
  /\ ReadyForNewByte(p) => ReadyForNewByte(q)

LEMMA TxStepFact ==
  ASSUME NEW p \in PortRecord, NEW n \in 1..TransferCycles, Shape(p),
         p.left > n => p.events["tx"] = {p.left - n},
         p.low # 0 => p.events["irq"] = {p.low},
         p.pending => p.low # 0,
         dsrEnabled \in BOOLEAN, txEnabled \in BOOLEAN, NEW q \in TxStep(p, n)
  PROVE  PortKept(p, q)
<1> USE SerialAssumptions
<1>0. p.left \in 0..TransferCycles /\ p.fifo \in Fifos /\ p.got \in Bit /\ p.device \in Devices
  BY DEF PortRecord
<1>1. CASE p.fifo = <<>>
  <2>1. q = p
    BY <1>1 DEF TxStep
  <2>2. Fresh(p)
    BY <1>1 DEF Fresh, Shape
  <2> QED  BY <2>1, <2>2 DEF PortKept
<1>2. CASE p.fifo # <<>> /\ p.left = 0
  <2>1. q = IF txEnabled THEN Start(p) ELSE p
    BY <1>2 DEF TxStep
  <2>2. ~ReadyForNewByte(p)
    BY <1>2 DEF ReadyForNewByte
  <2>3. CASE txEnabled
    <3>1. /\ Start(p) \in PortRecord /\ Shape(Start(p)) /\ Start(p).fifo = p.fifo
          /\ Start(p).got = p.got /\ Start(p).low = p.low /\ Start(p).pending = p.pending
          /\ Start(p).events["tx"] = {Start(p).left}
          /\ Start(p).events["irq"] = p.events["irq"]
      BY <1>2, StartFact
    <3>2. Fresh(Start(p))
      BY <3>1 DEF Fresh
    <3> QED  BY <2>1, <2>2, <2>3, <3>1, <3>2 DEF PortKept
  <2>4. CASE ~txEnabled
    <3>1. Fresh(p)
      BY <1>2 DEF Fresh
    <3> QED  BY <2>1, <2>2, <2>4, <3>1 DEF PortKept
  <2> QED  BY <2>3, <2>4
<1>3. CASE p.fifo # <<>> /\ p.left # 0 /\ p.left > n
  <2>1. q = [p EXCEPT !.left = p.left - n]
    BY <1>3 DEF TxStep, PortRecord
  <2>2. p.left - n \in 0..TransferCycles /\ p.left - n # 0
    BY <1>0, <1>3
  <2>3. /\ q \in PortRecord /\ q.left = p.left - n /\ q.fifo = p.fifo /\ q.got = p.got
        /\ q.low = p.low /\ q.pending = p.pending /\ q.events = p.events
    BY <2>1, <2>2 DEF PortRecord
  <2>4. Shape(q) /\ Fresh(q)
    BY <1>3, <2>2, <2>3 DEF Shape, Fresh
  <2>5. ReadyForNewByte(p) => ReadyForNewByte(q)
    BY <1>3, <2>2, <2>3 DEF ReadyForNewByte
  <2> QED  BY <2>3, <2>4, <2>5 DEF PortKept
<1>4. CASE p.fifo # <<>> /\ p.left # 0 /\ ~(p.left > n)
  <2>1. PICK d \in Answers(p.device) : q = Exchange(p, d)
    BY <1>4 DEF TxStep
  <2>2. d \in Devices
    BY <1>0, AnswersFact
  <2>3. /\ q \in PortRecord /\ Shape(q) /\ Fresh(q)
        /\ q.got = Head(p.fifo) /\ q.fifo = Tail(p.fifo)
        /\ Len(p.fifo) = 1 => ReadyForNewByte(q)
    BY <1>4, <2>1, <2>2, ExchangeFact
  <2>4. \A h \in Bit : Alternating(p.got, p.fifo, h) => Alternating(q.got, q.fifo, h)
    BY <1>0, <1>4, <2>3, HeadAlternates
  <2>5. ReadyForNewByte(p) => ReadyForNewByte(q)
    BY <1>4, <2>3 DEF ReadyForNewByte
  <2> QED  BY <2>3, <2>4, <2>5 DEF PortKept
<1> QED  BY <1>0, <1>1, <1>2, <1>3, <1>4

LEMMA CatchUpFact ==
  ASSUME NEW p \in PortRecord, Shape(p), since \in 0..TransferCycles, InTime(p, since),
         dsrEnabled \in BOOLEAN, txEnabled \in BOOLEAN, NEW q \in CatchUp(p)
  PROVE  PortKept(p, q)
<1> USE SerialAssumptions
<1>1. CASE since = 0
  <2>1. q = p
    BY <1>1 DEF CatchUp
  <2>2. p.left \in Nat /\ p.low \in Nat
    BY DEF PortRecord
  <2>3. Fresh(p)
    BY <1>1, <2>2 DEF Fresh, InTime
  <2> QED  BY <2>1, <2>3 DEF PortKept
<1>2. CASE since # 0
  <2> DEFINE a == AckStep(p, since)
  <2>1. since \in 1..TransferCycles
    BY <1>2
  <2>2. /\ a \in PortRecord /\ Shape(a) /\ a.fifo = p.fifo /\ a.left = p.left /\ a.got = p.got
        /\ a.left > since => a.events["tx"] = {a.left - since}
        /\ a.low # 0 => a.events["irq"] = {a.low}
        /\ a.pending => a.low # 0
    BY <2>1, AckStepFact
  <2>3. q \in TxStep(a, since)
    BY <1>2 DEF CatchUp
  <2> HIDE DEF a
  <2>4. PortKept(a, q)
    BY <2>1, <2>2, <2>3, TxStepFact
  <2>5. ReadyForNewByte(p) => ReadyForNewByte(a)
    BY <2>2 DEF ReadyForNewByte
  <2> QED  BY <2>2, <2>4, <2>5 DEF PortKept
<1> QED  BY <1>1, <1>2

-----------------------------------------------------------------------------
(***************************************************************************)
(* The accesses of the program.                                            *)
(***************************************************************************)
LEMMA LaterFact ==
  ASSUME NEW evs \in [{"tx", "irq"} -> Times], NEW n \in Nat
  PROVE  Later(evs, n) \in [{"tx", "irq"} -> Times]
<1> USE SerialAssumptions
<1>1. ASSUME NEW e \in {"tx", "irq"}
      PROVE  Later(evs, n)[e] \in Times
  <2>1. Later(evs, n)[e] = {Less(t, n) : t \in evs[e]}
    BY DEF Later
  <2>3. CASE evs[e] = {}
    <3>1. Later(evs, n)[e] = {}
      BY <2>1, <2>3
    <3> QED  BY <3>1 DEF Times
  <2>4. CASE evs[e] # {}
    <3>1. PICK t \in 0..TransferCycles : evs[e] = {t}
      BY <2>4 DEF Times
    <3>2. t \in Nat /\ t <= TransferCycles
      BY <3>1
    <3>3. Later(evs, n)[e] = {Less(t, n)}
      BY <2>1, <3>1
    <3>4. Less(t, n) \in 0..TransferCycles
      BY <3>2 DEF Less
    <3> QED  BY <3>3, <3>4 DEF Times
  <2> QED  BY <2>3, <2>4
<1> QED  BY <1>1 DEF Later

\* The conjuncts of the invariant that say nothing of the program's bytes.
Line ==
  /\ since \in 0..TransferCycles /\ Port \in PortRecord
  /\ Shape(Port) /\ TransferScheduled /\ AckScheduled

LEMMA PortFact == Line => InTime(Port, since)
<1> SUFFICES ASSUME Line PROVE InTime(Port, since)
  OBVIOUS
<1>1. left \in Nat /\ ackLow \in Nat /\ since \in Nat
  BY SerialAssumptions DEF Line, PortRecord, Port
<1>2. left > since => events["tx"] = {left - since}
  <2> SUFFICES ASSUME left > since PROVE events["tx"] = {left - since}
    OBVIOUS
  <2>1. left # 0 /\ Less(left, since) = left - since
    BY <1>1 DEF Less
  <2> QED  BY <2>1 DEF Line, TransferScheduled, Transferring
<1>3. ackLow > since => events["irq"] = {ackLow - since}
  <2> SUFFICES ASSUME ackLow > since PROVE events["irq"] = {ackLow - since}
    OBVIOUS
  <2>1. ackLow # 0 /\ Less(ackLow, since) = ackLow - since
    BY <1>1 DEF Less
  <2> QED  BY <2>1 DEF Line, AckScheduled
<1> QED  BY <1>2, <1>3 DEF InTime, Port, Line, AckScheduled

LEMMA SetToFact ==
  ASSUME NEW p \in PortRecord, SetTo(p), events' = p.events, since' = 0, Shape(p), Fresh(p)
  PROVE  Line' /\ Port' = p
<1>1. Port' = p
  BY DEF SetTo, Port, PortRecord
<1>2. left' = p.left /\ ackLow' = p.low /\ pendingIrq7' = p.pending /\ p.left \in Nat /\ p.low \in Nat
  BY DEF SetTo, PortRecord
<1>3. Less(p.left, 0) = p.left /\ Less(p.low, 0) = p.low
  BY <1>2 DEF Less
<1>4. TransferScheduled' /\ AckScheduled'
  BY <1>2, <1>3 DEF Fresh, TransferScheduled, AckScheduled, Transferring
<1>5. (Shape(Port))' /\ (Port \in PortRecord)'
  BY <1>1, Zenon DEF Shape
<1>6. since' \in 0..TransferCycles
  BY SerialAssumptions
<1> QED  BY <1>1, <1>4, <1>5, <1>6 DEF Line

LEMMA AccessFact ==
  ASSUME NEW p \in PortRecord, Access(p), Shape(p), Fresh(p)
  PROVE  Line' /\ fifo' = p.fifo /\ left' = p.left /\ got' = p.got
<1> USE SerialAssumptions
<1>1. /\ fifo' = p.fifo /\ left' = p.left /\ got' = p.got
      /\ ackLow' = p.low /\ pendingIrq7' = p.pending
      /\ events' = Later(p.events, 1) /\ since' = 1
  BY DEF Access, SetTo
<1>2. p.left \in Nat /\ p.low \in Nat /\ p.events \in [{"tx", "irq"} -> Times]
  BY DEF PortRecord
<1>3. Port' = [p EXCEPT !.events = Later(p.events, 1)]
  BY <1>1 DEF Access, SetTo, Port, PortRecord
<1>4. (Port \in PortRecord)'
  <2>1. Later(p.events, 1) \in [{"tx", "irq"} -> Times]
    BY <1>2, LaterFact
  <2> HIDE DEF Later
  <2>2. [p EXCEPT !.events = Later(p.events, 1)] \in PortRecord
    BY <2>1 DEF PortRecord
  <2> QED  BY <1>3, <2>2, Zenon DEF PortRecord
<1>5. (Shape(Port))'
  BY <1>1 DEF Shape, Port
<1>6. TransferScheduled'
  <2> SUFFICES ASSUME p.left # 0 PROVE Later(p.events, 1)["tx"] = {Less(p.left, 1)}
    BY <1>1 DEF TransferScheduled, Transferring
  <2>1. p.events["tx"] = {p.left}
    BY DEF Fresh
  <2> QED  BY <2>1 DEF Later
<1>7. AckScheduled'
  <2>1. ASSUME p.low # 0 PROVE Later(p.events, 1)["irq"] = {Less(p.low, 1)}
    <3>1. p.events["irq"] = {p.low}
      BY <2>1 DEF Fresh
    <3> QED  BY <3>1 DEF Later
  <2> QED  BY <1>1, <2>1 DEF AckScheduled, Fresh
<1>8. since' \in 0..TransferCycles
  BY <1>1
<1> QED  BY <1>1, <1>4, <1>5, <1>6, <1>7, <1>8 DEF Line

\* An instruction that does not access the port.
LEMMA IdleFact ==
  ASSUME Line, NEW n \in Nat, since' = Cap(since + n), events' = Later(events, n),
         UNCHANGED <<fifo, left, device, ack, irq, pendingIrq7, ackLow, got>>, istat' \in BOOLEAN
  PROVE  Line'
<1> USE SerialAssumptions
<1>1. left \in Nat /\ ackLow \in Nat /\ since \in Nat /\ left <= TransferCycles
      /\ ackLow <= TransferCycles /\ events \in [{"tx", "irq"} -> Times]
  BY DEF Line, Port, PortRecord
<1>2. since' \in 0..TransferCycles
  BY <1>1 DEF Cap
<1>4. (Port \in PortRecord)'
  <2>1. Later(events, n) \in [{"tx", "irq"} -> Times]
    BY <1>1, LaterFact
  <2>2. /\ fifo \in Fifos /\ left \in 0..TransferCycles /\ device \in Devices
        /\ ack \in BOOLEAN /\ irq \in BOOLEAN /\ pendingIrq7 \in BOOLEAN
        /\ ackLow \in 0..AckLowCycles /\ got \in Bit
    BY DEF Line, Port, PortRecord
  <2>3. /\ fifo' \in Fifos /\ left' \in 0..TransferCycles /\ device' \in Devices
        /\ ack' \in BOOLEAN /\ irq' \in BOOLEAN /\ pendingIrq7' \in BOOLEAN
        /\ ackLow' \in 0..AckLowCycles /\ got' \in Bit
        /\ events' \in [{"tx", "irq"} -> Times]
    BY <2>1, <2>2
  <2> QED  BY <2>3 DEF Port, PortRecord
<1>5. (Shape(Port))'
  BY DEF Shape, Port, Line
<1>6. TransferScheduled'
  <2> SUFFICES ASSUME left # 0 PROVE Later(events, n)["tx"] = {Less(left, Cap(since + n))}
    BY DEF TransferScheduled, Transferring
  <2>1. events["tx"] = {Less(left, since)}
    BY DEF Line, TransferScheduled, Transferring
  <2>2. Less(Less(left, since), n) = Less(left, Cap(since + n))
    BY <1>1 DEF Less, Cap
  <2> QED  BY <2>1, <2>2 DEF Later
<1>7. AckScheduled'
  <2>1. ASSUME ackLow # 0 PROVE Later(events, n)["irq"] = {Less(ackLow, Cap(since + n))}
    <3>1. events["irq"] = {Less(ackLow, since)}
      BY <2>1 DEF Line, AckScheduled
    <3>2. Less(Less(ackLow, since), n) = Less(ackLow, Cap(since + n))
      BY <1>1 DEF Less, Cap
    <3> QED  BY <3>1, <3>2 DEF Later
  <2> QED  BY <2>1 DEF AckScheduled, Line
<1> QED  BY <1>2, <1>4, <1>5, <1>6, <1>7 DEF Line

LEMMA AcceptFact ==
  ASSUME NEW p \in PortRecord, Shape(p), Fresh(p), ReadyForNewByte(p),
         host \in Bit, Alternating(p.got, p.fifo, host), txEnabled \in BOOLEAN
  PROVE  LET q == Accept(p)
         IN  /\ q \in PortRecord /\ Shape(q) /\ Fresh(q)
             /\ Alternating(q.got, q.fifo, Other(host))
<1> USE SerialAssumptions
<1>0. p.left \in 0..TransferCycles /\ p.fifo \in Fifos /\ p.got \in Bit
  BY DEF PortRecord
<1>1. CASE p.left # 0
  <2>1. PICK b \in Bit : p.fifo = <<b>>
    <3>1. p.fifo # <<>> /\ Len(p.fifo) = 1
      BY <1>1 DEF Shape, ReadyForNewByte
    <3>2. CASE \E b, c \in Bit : p.fifo = <<b, c>>
      BY <3>1, <3>2, FifoFact
    <3> QED  BY <1>0, <3>1, <3>2, FifoFact
  <2> DEFINE e == [p.events EXCEPT !["tx"] = {p.left}]
             f == <<b, host>>
  <2>2. /\ f \in Fifos /\ f # <<>>
    BY FifoFact
  <2>3. Alternating(p.got, f, Other(host))
    <3>1. p.got # b /\ b # host
      BY <1>0, <2>1, AlternatingFact
    <3> QED  BY <1>0, <3>1, OtherFact, AlternatingFact
  <2>4. p.events \in [{"tx", "irq"} -> Times] /\ {p.left} \in Times
    BY <1>0 DEF PortRecord, Times
  <2>5. /\ e \in [{"tx", "irq"} -> Times] /\ e["tx"] = {p.left} /\ e["irq"] = p.events["irq"]
    BY <2>4
  <2>6. Accept(p) = [p EXCEPT !.fifo = f, !.events = e]
    <3>1. Head(p.fifo) = b
      BY <2>1, FifoFact
    <3> QED  BY <1>1, <3>1 DEF Accept, PortRecord
  <2> HIDE DEF e, f
  <2>7. /\ Accept(p) \in PortRecord /\ Accept(p).fifo = f /\ Accept(p).events = e
        /\ Accept(p).left = p.left /\ Accept(p).low = p.low /\ Accept(p).got = p.got
        /\ Accept(p).pending = p.pending
    BY <2>2, <2>5, <2>6 DEF PortRecord
  <2>8. Shape(Accept(p)) /\ Fresh(Accept(p))
    BY <1>1, <2>2, <2>5, <2>7 DEF Shape, Fresh
  <2> QED  BY <2>3, <2>7, <2>8
<1>2. CASE p.left = 0
  <2> DEFINE q == [p EXCEPT !.fifo = <<host>>]
  <2>1. p.fifo = <<>>
    BY <1>2 DEF ReadyForNewByte
  <2>2. <<host>> \in Fifos /\ <<host>> # <<>> /\ Len(<<host>>) = 1
    BY FifoFact
  <2>3. Alternating(p.got, <<host>>, Other(host))
    <3>1. p.got # host
      BY <1>0, <2>1, AlternatingFact
    <3> QED  BY <1>0, <3>1, OtherFact, AlternatingFact
  <2>4. /\ q \in PortRecord /\ q.fifo = <<host>> /\ q.left = 0 /\ q.got = p.got
        /\ q.low = p.low /\ q.events = p.events /\ q.pending = p.pending
    BY <1>2, <2>2 DEF PortRecord
  <2>5. Accept(p) = IF txEnabled THEN Start(q) ELSE q
    BY <1>2 DEF Accept
  <2> HIDE DEF q
  <2>6. CASE txEnabled
    <3>1. /\ Start(q) \in PortRecord /\ Shape(Start(q)) /\ Start(q).fifo = q.fifo
          /\ Start(q).got = q.got /\ Start(q).low = q.low /\ Start(q).pending = q.pending
          /\ Start(q).events["tx"] = {Start(q).left}
          /\ Start(q).events["irq"] = q.events["irq"]
      BY <2>2, <2>4, StartFact
    <3>2. Fresh(Start(q))
      BY <2>4, <3>1 DEF Fresh
    <3> QED  BY <2>3, <2>4, <2>5, <2>6, <3>1, <3>2
  <2>7. CASE ~txEnabled
    <3>1. Shape(q) /\ Fresh(q)
      BY <2>2, <2>4 DEF Shape, Fresh
    <3> QED  BY <2>3, <2>4, <2>5, <2>7, <3>1
  <2> QED  BY <2>6, <2>7
<1> QED  BY <1>1, <1>2

LEMMA ControlledFact ==
  ASSUME NEW p \in PortRecord, Shape(p), Fresh(p), host \in Bit,
         Alternating(p.got, p.fifo, host), NEW tx \in BOOLEAN, NEW dtr \in BOOLEAN,
         NEW newPort \in Ports, NEW ackIrq \in BOOLEAN
  PROVE  LET q == Controlled(p, tx, dtr, newPort, ackIrq)
         IN  /\ q \in PortRecord /\ Shape(q) /\ Fresh(q)
             /\ Alternating(q.got, q.fifo, host)
             /\ ReadyForNewByte(p) \/ ~dtr \/ newPort # port => ReadyForNewByte(q)
<1> USE SerialAssumptions
<1> DEFINE irqs == p.irq /\ ~ackIrq
           a == [p EXCEPT !.irq = irqs]
           quiet == ~dtr \/ newPort # port
           r == IF quiet THEN Deselect(a) ELSE a
           q == Controlled(p, tx, dtr, newPort, ackIrq)
<1>1. q = IF tx /\ r.fifo # <<>> /\ r.left = 0 THEN Start(r) ELSE r
  BY DEF Controlled, PortRecord
<1>2. irqs \in BOOLEAN
  OBVIOUS
<1> HIDE DEF irqs
<1>3. /\ a \in PortRecord /\ a.fifo = p.fifo /\ a.left = p.left /\ a.got = p.got
      /\ a.low = p.low /\ a.events = p.events /\ a.pending = p.pending
  BY <1>2 DEF PortRecord
<1> HIDE DEF a, q
<1>4. /\ r \in PortRecord /\ Shape(r) /\ Fresh(r) /\ Alternating(r.got, r.fifo, host)
      /\ ReadyForNewByte(p) \/ quiet => ReadyForNewByte(r)
  <2>1. CASE quiet
    <3> DEFINE d == Deselect(a)
    <3>1. d = [a EXCEPT !.fifo = <<>>, !.left = 0, !.device = "None", !.got = Other(host)]
      BY DEF Deselect
    <3>2. "None" \in Devices /\ Other(host) \in Bit /\ Other(host) # host /\ <<>> \in Fifos
          /\ 0 \in 0..TransferCycles
      BY OtherFact, FifoFact DEF Devices
    <3>3. /\ d \in PortRecord /\ d.fifo = <<>> /\ d.left = 0 /\ d.got = Other(host)
          /\ d.low = a.low /\ d.events = a.events /\ d.pending = a.pending
      BY <1>3, <3>1, <3>2 DEF PortRecord
    <3> HIDE DEF d
    <3>4. Shape(d) /\ Fresh(d) /\ ReadyForNewByte(d)
      BY <1>3, <3>3, FifoFact DEF Shape, Fresh, ReadyForNewByte
    <3>5. Alternating(d.got, d.fifo, host)
      BY <3>2, <3>3, AlternatingFact
    <3>6. r = d
      BY <2>1 DEF d
    <3> QED  BY <3>3, <3>4, <3>5, <3>6
  <2>2. CASE ~quiet
    <3>1. Shape(a) /\ Fresh(a) /\ (ReadyForNewByte(p) => ReadyForNewByte(a))
      BY <1>3 DEF Shape, Fresh, ReadyForNewByte
    <3> QED  BY <1>3, <2>2, <3>1
  <2> QED  BY <2>1, <2>2
<1> HIDE DEF r
<1>5. CASE tx /\ r.fifo # <<>> /\ r.left = 0
  <2>1. ~ReadyForNewByte(r)
    BY <1>5 DEF ReadyForNewByte
  <2>2. /\ Start(r) \in PortRecord /\ Shape(Start(r)) /\ Start(r).fifo = r.fifo
        /\ Start(r).got = r.got /\ Start(r).low = r.low /\ Start(r).pending = r.pending
        /\ Start(r).events["tx"] = {Start(r).left}
        /\ Start(r).events["irq"] = r.events["irq"]
    BY <1>4, <1>5, StartFact
  <2>3. Fresh(Start(r))
    BY <1>4, <2>2 DEF Fresh
  <2>4. q = Start(r)
    BY <1>1, <1>5
  <2> QED  BY <1>4, <2>1, <2>2, <2>3, <2>4 DEF q
<1>6. CASE ~(tx /\ r.fifo # <<>> /\ r.left = 0)
  <2>1. q = r
    BY <1>1, <1>6
  <2> QED  BY <1>4, <2>1 DEF q
<1> QED  BY <1>5, <1>6

-----------------------------------------------------------------------------
(***************************************************************************)
(* The inductive invariant.                                                *)
(***************************************************************************)
Bytes ==
  /\ host \in Bit /\ Alternating(got, fifo, host)
  /\ ready => ReadyForNewByte(Port)

Control ==
  /\ txEnabled \in BOOLEAN /\ dsrEnabled \in BOOLEAN /\ port \in Ports /\ ready \in BOOLEAN

IInv == Line /\ Control /\ Bytes

LEMMA InitFact == Init => IInv
<1> SUFFICES ASSUME Init PROVE IInv
  OBVIOUS
<1> USE SerialAssumptions
<1>1. /\ since = 0 /\ fifo = <<>> /\ left = 0 /\ device = "None" /\ ack = FALSE /\ irq = FALSE
      /\ pendingIrq7 = FALSE /\ ackLow = 0 /\ istat = FALSE
      /\ events = [e \in {"tx", "irq"} |-> {}] /\ got = 1 /\ host = 0 /\ ready = FALSE
  BY DEF Init
<1>2. events \in [{"tx", "irq"} -> Times]
  BY <1>1 DEF Times
<1>3. Port \in PortRecord
  <2>1. <<>> \in Fifos /\ "None" \in Devices /\ 1 \in Bit
    BY FifoFact DEF Devices, Bit
  <2>2. 0 \in 0..TransferCycles /\ 0 \in 0..AckLowCycles
    OBVIOUS
  <2> QED  BY <1>1, <1>2, <2>1, <2>2 DEF Port, PortRecord
<1>4. Shape(Port)
  BY <1>1, FifoFact DEF Shape, Port
<1>5. Line
  BY <1>1, <1>3, <1>4 DEF Line, TransferScheduled, Transferring, AckScheduled
<1>6. Control
  BY DEF Init, Control, Ports
<1>7. Bytes
  <2>1. 0 \in Bit /\ 1 \in Bit
    BY DEF Bit
  <2> QED  BY <1>1, <2>1, AlternatingFact DEF Bytes
<1> QED  BY <1>5, <1>6, <1>7 DEF IInv

LEMMA CaughtUp ==
  ASSUME IInv, NEW p \in CatchUp(Port)
  PROVE  /\ p \in PortRecord /\ Shape(p) /\ Fresh(p) /\ Alternating(p.got, p.fifo, host)
         /\ ReadyForNewByte(Port) => ReadyForNewByte(p)
<1>1. PortKept(Port, p)
  BY PortFact, CatchUpFact DEF IInv, Line, Control
<1>2. Alternating(Port.got, Port.fifo, host)
  BY DEF IInv, Bytes, Port
<1> QED  BY <1>1, <1>2 DEF PortKept, IInv, Bytes

LEMMA ReadyFact ==
  ReadyForNewByte(Port) <=> (fifo = <<>> \/ (left # 0 /\ Len(fifo) = 1))
BY DEF ReadyForNewByte, Port

\* What an access leaves of a state, for bytes that are in order with the
\* one the program writes next.
LEMMA AccessKeeps ==
  ASSUME NEW p \in PortRecord, Access(p), Shape(p), Fresh(p), Control',
         host' \in Bit, Alternating(p.got, p.fifo, host'), ready' => ReadyForNewByte(p)
  PROVE  IInv'
<1>1. Line' /\ fifo' = p.fifo /\ left' = p.left /\ got' = p.got
  BY AccessFact
<1>2. (ReadyForNewByte(Port))' <=> ReadyForNewByte(p)
  BY <1>1 DEF ReadyForNewByte, Port
<1>3. (Alternating(got, fifo, host))'
  <2>1. Alternating(got', fifo', host')
    BY <1>1, Zenon
  <2> QED  BY <2>1 DEF Alternating
<1> QED  BY <1>1, <1>2, <1>3 DEF IInv, Bytes

\* What an event leaves of it.
LEMMA EventKeeps ==
  ASSUME IInv, NEW p \in PortRecord, SetTo(p), events' = p.events, since' = 0,
         Shape(p), Fresh(p), Alternating(p.got, p.fifo, host),
         ReadyForNewByte(Port) => ReadyForNewByte(p),
         UNCHANGED <<control, ready, host>>
  PROVE  IInv'
<1>1. Line' /\ fifo' = p.fifo /\ left' = p.left /\ got' = p.got
  BY SetToFact DEF SetTo
<1>2. Control' /\ host' = host /\ ready' = ready
  BY DEF IInv, Control, control
<1>3. (ReadyForNewByte(Port))' <=> ReadyForNewByte(p)
  BY <1>1 DEF ReadyForNewByte, Port
<1>4. (Alternating(got, fifo, host))'
  <2>1. Alternating(got', fifo', host')
    BY <1>1, <1>2, Zenon
  <2> QED  BY <2>1 DEF Alternating
<1>5. Bytes'
  BY <1>2, <1>3, <1>4 DEF IInv, Bytes
<1> QED  BY <1>1, <1>2, <1>5 DEF IInv

LEMMA NextFact == IInv /\ [Next]_vars => IInv'
<1> SUFFICES ASSUME IInv, [Next]_vars PROVE IInv'
  OBVIOUS
<1> USE SerialAssumptions
<1>0. Line /\ Control /\ Bytes
  BY DEF IInv
<1>1. CASE OtherInstruction
  <2>1. PICK n \in Steps : since' = Cap(since + n) /\ events' = Later(events, n)
    BY <1>1 DEF OtherInstruction
  <2>2. UNCHANGED <<fifo, left, device, ack, irq, pendingIrq7, ackLow, istat, got, ready, host,
                    txEnabled, dsrEnabled, port>>
    BY <1>1 DEF OtherInstruction, line, control
  <2>3. istat' \in BOOLEAN
    BY <1>0, <2>2 DEF Line, Port, PortRecord
  <2>4. n \in Nat
    OBVIOUS
  <2>5. Line'
    BY <1>0, <2>1, <2>2, <2>3, <2>4, IdleFact
  <2>6. Control' /\ Bytes'
    BY <1>0, <2>2 DEF Control, Bytes, Alternating, ReadyForNewByte, Port
  <2> QED  BY <2>5, <2>6 DEF IInv
<1>2. CASE ReadStatus
  <2>1. PICK p \in CatchUp(Port) : Access(p) /\ ready' = ReadyForNewByte(p)
                                   /\ UNCHANGED <<control, host>>
    BY <1>2 DEF ReadStatus
  <2>2. /\ p \in PortRecord /\ Shape(p) /\ Fresh(p) /\ Alternating(p.got, p.fifo, host)
    BY CaughtUp
  <2>3. host' = host /\ host' \in Bit
    BY <1>0, <2>1 DEF Bytes
  <2>4. Control'
    BY <1>0, <2>1 DEF Control, control, ReadyForNewByte
  <2>5. Alternating(p.got, p.fifo, host')
    BY <2>2, <2>3, Zenon
  <2> QED  BY <2>1, <2>2, <2>3, <2>4, <2>5, AccessKeeps
<1>3. CASE WriteTxData
  <2>1. PICK p \in CatchUp(Port) : Access(Accept(p))
    BY <1>3 DEF WriteTxData
  <2>2. ready /\ ready' = FALSE /\ host' = Other(host) /\ UNCHANGED control
    BY <1>3 DEF WriteTxData
  <2>3. /\ p \in PortRecord /\ Shape(p) /\ Fresh(p) /\ Alternating(p.got, p.fifo, host)
        /\ ReadyForNewByte(p)
    BY <1>0, <2>2, CaughtUp DEF Bytes
  <2>4. host \in Bit /\ host' \in Bit /\ txEnabled \in BOOLEAN
    BY <1>0, <2>2, OtherFact DEF Bytes, Control
  <2>5. /\ Accept(p) \in PortRecord /\ Shape(Accept(p)) /\ Fresh(Accept(p))
        /\ Alternating(Accept(p).got, Accept(p).fifo, Other(host))
    BY <2>3, <2>4, AcceptFact
  <2>6. Control'
    BY <1>0, <2>2 DEF Control, control
  <2>7. Alternating(Accept(p).got, Accept(p).fifo, host')
    BY <2>2, <2>5, Zenon
  <2> QED  BY <2>1, <2>2, <2>4, <2>5, <2>6, <2>7, AccessKeeps
<1>4. CASE WriteInterruptStatus
  <2>1. /\ istat' \in BOOLEAN /\ since' = Cap(since + 1) /\ events' = Later(events, 1)
        /\ UNCHANGED <<fifo, left, device, ack, irq, pendingIrq7, ackLow, got, ready, host,
                       txEnabled, dsrEnabled, port>>
    BY <1>4 DEF WriteInterruptStatus, control
  <2>2. Line'
    BY <1>0, <2>1, IdleFact
  <2>3. Control' /\ Bytes'
    BY <1>0, <2>1 DEF Control, Bytes, Alternating, ReadyForNewByte, Port
  <2> QED  BY <2>2, <2>3 DEF IInv
<1>5. CASE VBlank
  <2>1. PICK p \in CatchUp(Port) : SetTo(p) /\ events' = p.events
    BY <1>5 DEF VBlank
  <2>2. since' = 0 /\ UNCHANGED <<control, ready, host>>
    BY <1>5 DEF VBlank
  <2>3. /\ p \in PortRecord /\ Shape(p) /\ Fresh(p) /\ Alternating(p.got, p.fifo, host)
        /\ ReadyForNewByte(Port) => ReadyForNewByte(p)
    BY CaughtUp
  <2> QED  BY <2>1, <2>2, <2>3, EventKeeps
<1>6. ASSUME NEW tx \in BOOLEAN, NEW dtr \in BOOLEAN, NEW dsr \in BOOLEAN,
             NEW ackIrq \in BOOLEAN, NEW newPort \in Ports,
             WriteControl(tx, dtr, dsr, newPort, ackIrq)
      PROVE  IInv'
  <2>1. PICK p \in CatchUp(Port) : Access(Controlled(p, tx, dtr, newPort, ackIrq))
    BY <1>6 DEF WriteControl
  <2>2. /\ txEnabled' = tx /\ dsrEnabled' = dsr /\ port' = newPort
        /\ ready' = (ready \/ ~dtr \/ newPort # port) /\ host' = host
    BY <1>6 DEF WriteControl
  <2>3. /\ p \in PortRecord /\ Shape(p) /\ Fresh(p) /\ Alternating(p.got, p.fifo, host)
        /\ ReadyForNewByte(Port) => ReadyForNewByte(p)
    BY CaughtUp
  <2> DEFINE q == Controlled(p, tx, dtr, newPort, ackIrq)
  <2>4. host \in Bit
    BY <1>0 DEF Bytes
  <2>5. /\ q \in PortRecord /\ Shape(q) /\ Fresh(q) /\ Alternating(q.got, q.fifo, host)
        /\ ReadyForNewByte(p) \/ ~dtr \/ newPort # port => ReadyForNewByte(q)
    BY <2>3, <2>4, ControlledFact
  <2>6. ready' => ReadyForNewByte(q)
    BY <1>0, <2>2, <2>3, <2>5 DEF Bytes
  <2>7. Control'
    BY <2>2 DEF Control
  <2> HIDE DEF q
  <2>8. Alternating(q.got, q.fifo, host') /\ host' \in Bit
    BY <2>2, <2>4, <2>5, Zenon
  <2> QED  BY <2>1, <2>5, <2>6, <2>7, <2>8, AccessKeeps DEF q
<1>7. ASSUME NEW e \in {"tx", "irq"}, ProcessEvent(e) PROVE IInv'
  <2> DEFINE evs == [events EXCEPT ![e] = {}]
             o == [Port EXCEPT !.events = evs]
  <2>1. PICK p \in CatchUp(o) : SetTo(p) /\ events' = p.events
    BY <1>7 DEF ProcessEvent, Port
  <2>2. since' = 0 /\ UNCHANGED <<control, ready, host>> /\ events[e] = {0}
    BY <1>7 DEF ProcessEvent
  <2>3. Port \in PortRecord /\ Shape(Port) /\ since \in 0..TransferCycles
        /\ dsrEnabled \in BOOLEAN /\ txEnabled \in BOOLEAN
    BY <1>0 DEF Line, Control
  <2>4. events \in [{"tx", "irq"} -> Times] /\ left \in Nat /\ ackLow \in Nat /\ since \in Nat
    BY <2>3 DEF Port, PortRecord
  <2>5. evs \in [{"tx", "irq"} -> Times]
    BY <2>4 DEF Times
  <2>6. InTime(Port, since)
    BY <1>0, PortFact
  <2>7. left > since => evs["tx"] = {left - since}
    <3> SUFFICES ASSUME left > since PROVE evs["tx"] = {left - since}
      OBVIOUS
    <3>1. events["tx"] = {left - since}
      BY <2>6 DEF InTime, Port
    <3>2. e # "tx"
      BY <2>2, <2>4, <3>1
    <3> QED  BY <2>4, <3>1, <3>2
  <2>8. ackLow > since => evs["irq"] = {ackLow - since}
    <3> SUFFICES ASSUME ackLow > since PROVE evs["irq"] = {ackLow - since}
      OBVIOUS
    <3>1. events["irq"] = {ackLow - since}
      BY <2>6 DEF InTime, Port
    <3>2. e # "irq"
      BY <2>2, <2>4, <3>1
    <3> QED  BY <2>4, <3>1, <3>2
  <2> HIDE DEF evs
  <2>9. /\ o \in PortRecord /\ o.fifo = fifo /\ o.left = left /\ o.got = got /\ o.low = ackLow
        /\ o.pending = pendingIrq7 /\ o.events = evs
    BY <2>3, <2>5 DEF PortRecord, Port
  <2>10. Shape(o) /\ InTime(o, since)
    BY <2>3, <2>6, <2>7, <2>8, <2>9 DEF Shape, InTime, Port
  <2> HIDE DEF o
  <2>11. PortKept(o, p)
    BY <2>1, <2>3, <2>9, <2>10, CatchUpFact
  <2>12. /\ Alternating(p.got, p.fifo, host)
         /\ ReadyForNewByte(Port) => ReadyForNewByte(p)
    <3>1. Alternating(o.got, o.fifo, host)
      BY <1>0, <2>9, Zenon DEF Bytes
    <3>2. ReadyForNewByte(Port) => ReadyForNewByte(o)
      BY <2>9 DEF ReadyForNewByte, Port
    <3> QED  BY <1>0, <2>11, <3>1, <3>2 DEF PortKept, Bytes
  <2> QED  BY <2>1, <2>2, <2>11, <2>12, EventKeeps DEF PortKept
<1>8. CASE UNCHANGED vars
  <2>1. UNCHANGED <<since, fifo, left, device, ack, irq, pendingIrq7, ackLow, istat, events, got,
                    ready, host, txEnabled, dsrEnabled, port>>
    BY <1>8 DEF vars, line, control
  <2>2. Line'
    BY <1>0, <2>1 DEF Line, Shape, Port, TransferScheduled, Transferring, AckScheduled, Less
  <2>3. Control' /\ Bytes'
    BY <1>0, <2>1 DEF Control, Bytes, Alternating, ReadyForNewByte, Port
  <2> QED  BY <2>2, <2>3 DEF IInv
<1> QED  BY <1>1, <1>2, <1>3, <1>4, <1>5, <1>6, <1>7, <1>8 DEF Next

LEMMA Invariance == Spec => []IInv
<1> QED  BY InitFact, NextFact, PTL DEF Spec

\* The types of the port: catch_up, however late it comes, neither counts a
\* transfer or a pulse below 0 nor leaves more than two bytes in the FIFO.
THEOREM TypeInvariant == Spec => []TypeOK
<1>1. IInv => TypeOK
  <2> SUFFICES ASSUME IInv PROVE TypeOK
    OBVIOUS
  <2>1. /\ since \in 0..TransferCycles /\ left \in 0..TransferCycles
        /\ ackLow \in 0..AckLowCycles /\ fifo \in Fifos /\ device \in Devices
        /\ ack \in BOOLEAN /\ irq \in BOOLEAN /\ pendingIrq7 \in BOOLEAN /\ istat \in BOOLEAN
        /\ events \in [{"tx", "irq"} -> Times] /\ got \in Bit
    BY DEF IInv, Line, Port, PortRecord
  <2> QED  BY <2>1 DEF IInv, Control, Bytes, TypeOK, Fifos, Times
<1> QED  BY <1>1, Invariance, PTL

\* The event of the byte that is transferred comes exactly when it is done:
\* write_tx_data, write_control and catch_up leave no byte without one, and
\* none with the event of a byte that was aborted.
THEOREM TransfersAreScheduled == Spec => []TransferScheduled
<1>1. IInv => TransferScheduled
  BY DEF IInv, Line
<1> QED  BY <1>1, Invariance, PTL

\* The event that ends the pulse on the acknowledge line comes exactly when
\* it ends, and as long as catch_up has an interrupt to pass on, it will come.
THEOREM AcksAreScheduled == Spec => []AckScheduled
<1>1. IInv => AckScheduled
  BY DEF IInv, Line
<1> QED  BY <1>1, Invariance, PTL

\* A program that waits for the ready flag has each of its bytes exchanged
\* once, in their order.
THEOREM BytesStayInOrder == Spec => []BytesInOrder
<1>1. IInv => BytesInOrder
  BY DEF IInv, Bytes, Alternating, BytesInOrder
<1> QED  BY <1>1, Invariance, PTL

-----------------------------------------------------------------------------
(***************************************************************************)
(* The memory cards: the types, and where each card comes from.            *)
(***************************************************************************)
Card == [home : Files, data : Data, dirty : BOOLEAN, failed : BOOLEAN]

AtMostOne(S) == {{}} \cup {{x} : x \in S}

CardsTyped ==
  /\ phase \in {"frame", "commands"} /\ config \in Configs /\ blocked \in BOOLEAN
  /\ disc \in AtMostOne(Discs) /\ path \in [Slots -> Files]
  /\ cards \in [Slots -> AtMostOne(Card)]
  /\ conn \in AtMostOne(Conns) /\ files \in [Files -> Data]

\* Unless the paths have been changed in vain, each card is saved where it
\* comes from.
Origin == ~blocked => \A s \in Slots : \A card \in cards[s] : card.home = path[s]

LEMMA SameFunction ==
  ASSUME NEW D, NEW R, NEW g \in [D -> R], NEW h \in [D -> R], \A i \in D : g[i] = h[i]
  PROVE  g = h
OBVIOUS

LEMMA OnlyElement == ASSUME NEW x PROVE (CHOOSE y \in {x} : TRUE) = x
OBVIOUS

LEMMA PathsTyped ==
  ASSUME CardsAssumption, NEW conf \in Configs, NEW d \in AtMostOne(Discs)
  PROVE  Paths(conf, d) \in [Slots -> Files]
<1>1. ASSUME NEW s \in Slots
      PROVE  Paths(conf, d)[s] \in Files
  <2>1. d \in {{}} \cup {{n} : n \in Discs}
    BY DEF AtMostOne
  <2> DEFINE used == {Paths(conf, d)[r] : r \in Slots}
             every == {{Paths(k, e)[r] : r \in Slots} :
                         k \in Configs, e \in {{}} \cup {{n} : n \in Discs}}
  <2>2. used \in every
    BY <2>1
  <2>3. Paths(conf, d)[s] \in used
    OBVIOUS
  <2>4. Files = UNION every
    BY DEF Files
  <2> HIDE DEF used, every
  <2> QED  BY <2>2, <2>3, <2>4
<1> QED  BY <1>1 DEF Paths

LEMMA LoadTyped ==
  ASSUME CardsAssumption, NEW conf \in Configs, NEW paths \in [Slots -> Files],
         files \in [Files -> Data]
  PROVE  /\ Load(conf, paths) \in [Slots -> AtMostOne(Card)]
         /\ \A s \in Slots : \A card \in Load(conf, paths)[s] :
              card.home = paths[s] /\ card.data = files[paths[s]]
<1>1. ASSUME NEW s \in Slots
      PROVE  /\ NewCard(paths[s], files[paths[s]]) \in Card
             /\ NewCard(paths[s], files[paths[s]]).home = paths[s]
             /\ NewCard(paths[s], files[paths[s]]).data = files[paths[s]]
  BY DEF NewCard, Card
<1> QED  BY <1>1 DEF Load, AtMostOne

LEMMA SavedTyped ==
  ASSUME NEW s \in Slots, NEW ok \in BOOLEAN, cards \in [Slots -> AtMostOne(Card)]
  PROVE  /\ Saved(s, ok) \in AtMostOne(Card)
         /\ \A saved \in Saved(s, ok) : saved.dirty = FALSE /\ saved.failed = ~ok
         /\ \A saved \in Saved(s, ok) : \E card \in cards[s] :
              saved.home = card.home /\ saved.data = card.data
<1>1. ASSUME NEW card \in Card
      PROVE  LET saved == [card EXCEPT !.dirty = FALSE, !.failed = ~ok]
             IN  /\ saved \in Card /\ saved.dirty = FALSE /\ saved.failed = ~ok
                 /\ saved.home = card.home /\ saved.data = card.data
  BY DEF Card
<1>2. cards[s] \in AtMostOne(Card)
  OBVIOUS
<1>3. CASE cards[s] = {}
  BY <1>3 DEF Saved, AtMostOne
<1>4. CASE \E card \in Card : cards[s] = {card}
  <2>1. PICK card \in Card : cards[s] = {card}
    BY <1>4
  <2>2. Saved(s, ok) = {[card EXCEPT !.dirty = FALSE, !.failed = ~ok]}
    BY <2>1 DEF Saved
  <2>3. PICK saved : saved = [card EXCEPT !.dirty = FALSE, !.failed = ~ok]
    OBVIOUS
  <2>4. /\ saved \in Card /\ saved.dirty = FALSE /\ saved.failed = ~ok
        /\ saved.home = card.home /\ saved.data = card.data
    BY <1>1, <2>3
  <2>5. Saved(s, ok) = {saved}
    BY <2>2, <2>3
  <2> QED  BY <2>1, <2>4, <2>5 DEF AtMostOne
<1> QED  BY <1>2, <1>3, <1>4 DEF AtMostOne

LEMMA SaveFileTyped ==
  ASSUME NEW s \in Slots, cards \in [Slots -> AtMostOne(Card)], files \in [Files -> Data],
         path \in [Slots -> Files]
  PROVE  /\ SaveFile(s) \in [Files -> Data]
         /\ \A f \in Files : SaveFile(s)[f] # files[f] => Dirty(s) /\ f = path[s]
         /\ \A card \in cards[s] : Dirty(s) => SaveFile(s)[path[s]] = card.data
<1>1. CASE Dirty(s)
  <2>1. PICK card \in Card : cards[s] = {card}
    BY <1>1 DEF Dirty, AtMostOne
  <2>2. SaveFile(s) = [files EXCEPT ![path[s]] = card.data]
    BY <1>1, <2>1, OnlyElement DEF SaveFile
  <2>3. card.data \in Data
    BY DEF Card
  <2> QED  BY <1>1, <2>1, <2>2, <2>3
<1>2. CASE ~Dirty(s)
  BY <1>2 DEF SaveFile
<1> QED  BY <1>1, <1>2

\* RenderFrame saves the dirty cards, whose slots' paths may coincide.
LEMMA RenderSaves ==
  ASSUME cards \in [Slots -> AtMostOne(Card)], files \in [Files -> Data],
         path \in [Slots -> Files], RenderFrame
  PROVE  /\ files' \in [Files -> Data]
         /\ cards' \in [Slots -> AtMostOne(Card)]
         /\ \A f \in Files : files'[f] # files[f] => \E s \in Slots : Dirty(s) /\ f = path[s]
         /\ Dirty("Two") => files'[path["Two"]] = SaveFile("Two")[path["Two"]]
         /\ Dirty("One") /\ (Dirty("Two") => path["One"] # path["Two"])
              => files'[path["One"]] = SaveFile("One")[path["One"]]
<1> DEFINE one == SaveFile("One")
           two == SaveFile("Two")
<1>1. one \in [Files -> Data] /\ two \in [Files -> Data]
  BY SaveFileTyped DEF Slots
<1>2. /\ \A f \in Files : one[f] # files[f] => Dirty("One") /\ f = path["One"]
      /\ \A f \in Files : two[f] # files[f] => Dirty("Two") /\ f = path["Two"]
  BY SaveFileTyped DEF Slots
<1>3. files' = IF Dirty("Two") THEN [one EXCEPT ![path["Two"]] = two[path["Two"]]] ELSE one
  BY DEF RenderFrame
<1>4. path["One"] \in Files /\ path["Two"] \in Files
  BY DEF Slots
<1>5. cards' \in [Slots -> AtMostOne(Card)]
  BY SavedTyped DEF RenderFrame
<1> HIDE DEF one, two
<1>6. /\ files' \in [Files -> Data]
      /\ \A f \in Files : files'[f] # files[f] => \E s \in Slots : Dirty(s) /\ f = path[s]
  BY <1>1, <1>2, <1>3, <1>4 DEF Slots
<1>7. /\ Dirty("Two") => files'[path["Two"]] = two[path["Two"]]
      /\ Dirty("One") /\ (Dirty("Two") => path["One"] # path["Two"])
              => files'[path["One"]] = one[path["One"]]
  BY <1>1, <1>3, <1>4
<1> QED  BY <1>5, <1>6, <1>7 DEF one, two

LEMMA StoreTyped ==
  ASSUME CardsAssumption, NEW card \in Card, NEW c \in Conns, NEW byte \in Byte
  PROVE  LET stored == Store(card, c.sector, c.remaining, byte)
         IN  /\ stored \in Card
             /\ stored.home = card.home /\ stored.failed = card.failed
             /\ stored.dirty <=> card.dirty \/ c.remaining = 1
             /\ \A sector \in Sectors : sector # c.sector => stored.data[sector] = card.data[sector]
             /\ stored.data[c.sector] = [card.data[c.sector] EXCEPT ![Address(c.remaining)] = byte]
<1> DEFINE sector == c.sector
           at == Address(c.remaining)
           data == [card.data EXCEPT ![sector] = [card.data[sector] EXCEPT ![at] = byte]]
           marked == card.dirty \/ c.remaining = 1
<1>1. sector \in Sectors /\ c.remaining \in 1..SectorLen /\ card.data \in Data
  BY DEF Conns, Card
<1>2. at \in 1..SectorLen
  BY <1>1 DEF Address, CardsAssumption
<1>3. card.data[sector] \in [1..SectorLen -> Byte]
  BY <1>1 DEF Data
<1>4. [card.data[sector] EXCEPT ![at] = byte] \in [1..SectorLen -> Byte]
  BY <1>2, <1>3
<1>5. data \in Data
  BY <1>1, <1>4 DEF Data
<1>6. Store(card, c.sector, c.remaining, byte) = [card EXCEPT !.data = data, !.dirty = marked]
  BY DEF Store
<1>7. marked \in BOOLEAN
  OBVIOUS
<1>8. /\ data[sector] = [card.data[sector] EXCEPT ![at] = byte]
      /\ \A other \in Sectors : other # sector => data[other] = card.data[other]
  BY <1>1 DEF Data
<1> HIDE DEF data, marked
<1>9. ASSUME NEW stored, stored = [card EXCEPT !.data = data, !.dirty = marked]
      PROVE  /\ stored \in Card
             /\ stored.home = card.home /\ stored.failed = card.failed
             /\ stored.dirty = marked /\ stored.data = data
  BY <1>5, <1>7, <1>9 DEF Card
<1> QED  BY <1>6, <1>8, <1>9 DEF marked

\* The rest of a step is unchanged, or starts anew from files.
LEMMA TypedStep ==
  ASSUME CardsAssumption, CardsTyped, Origin, [CardsNext]_cardVars
  PROVE  CardsTyped' /\ Origin'
<1>1. CASE UNCHANGED cardVars
  BY <1>1 DEF cardVars, CardsTyped, Origin
<1>2. ASSUME UNCHANGED <<phase, config, disc, path, files, blocked, cards>>,
             conn' \in AtMostOne(Conns)
      PROVE  CardsTyped' /\ Origin'
  BY <1>2 DEF CardsTyped, Origin
<1>3. CASE Transfer
  <2>1. PICK c \in conn : PassOn(c) \/ AwaitingCommand(c) \/ AddressLow(c)
                            \/ SendingData(c) \/ ReceivingData(c) \/ SendingEnd(c)
    BY <1>3 DEF Transfer
  <2>2. /\ c \in Conns /\ c.remaining \in 1..SectorLen /\ c.sector \in Sectors
        /\ c.slot \in Slots /\ c.state \in States /\ c.command \in {"Read", "Write"}
    BY DEF CardsTyped, AtMostOne, Conns
  <2>3. UNCHANGED <<phase, config, disc, path, files, blocked>>
    BY <1>3 DEF Transfer, Frame
  <2>4. SectorLen \in Nat \ {0}
    BY DEF CardsAssumption
  <2>5. ASSUME NEW st \in States, NEW n \in 1..SectorLen, NEW sector \in Sectors,
               NEW command \in {"Read", "Write"}
        PROVE  /\ [c EXCEPT !.state = st, !.remaining = n] \in Conns
               /\ [c EXCEPT !.state = st, !.command = command] \in Conns
               /\ [c EXCEPT !.sector = sector, !.remaining = n, !.state = st] \in Conns
    BY <2>2 DEF Conns
  <2>6. /\ \A r \in 1..SectorLen : (IF LastByte(r) THEN r ELSE r - 1) \in 1..SectorLen
        /\ SectorLen \in 1..SectorLen
    BY <2>4 DEF LastByte
  <2>7. CASE PassOn(c)
    <3>1. After[c.state] \in States
      BY <2>7 DEF PassOn, After, States
    <3> QED  BY <2>7, <2>3, <2>5, <2>6, <2>2, <3>1, <1>2 DEF PassOn, AtMostOne
  <2>8. CASE AwaitingCommand(c)
    BY <2>8, <2>3, <2>5, <2>6, <2>2, <1>2 DEF AwaitingCommand, AtMostOne, States
  <2>9. CASE AddressLow(c)
    BY <2>9, <2>3, <2>5, <2>6, <2>2, <1>2 DEF AddressLow, AtMostOne, States
  <2>10. CASE SendingData(c)
    <3>1. conn' = {[c EXCEPT !.state = IF LastByte(c.remaining) THEN "SendingChecksum" ELSE c.state,
                             !.remaining = IF LastByte(c.remaining) THEN c.remaining ELSE c.remaining - 1]}
      BY <2>10 DEF SendingData
    <3> QED  BY <2>10, <2>3, <2>5, <2>6, <2>2, <3>1, <1>2 DEF SendingData, AtMostOne, States
  <2>11. CASE ReceivingData(c)
    <3>1. conn' = {[c EXCEPT !.state = IF LastByte(c.remaining) THEN "ReceivingChecksum" ELSE c.state,
                             !.remaining = IF LastByte(c.remaining) THEN c.remaining ELSE c.remaining - 1]}
      BY <2>11 DEF ReceivingData
    <3>2. conn' \in AtMostOne(Conns)
      BY <2>5, <2>6, <2>2, <3>1 DEF AtMostOne, States
    <3>3. PICK card \in cards[c.slot], byte \in Byte :
             cards' = [cards EXCEPT ![c.slot] = {Store(card, c.sector, c.remaining, byte)}]
      BY <2>11 DEF ReceivingData
    <3>4. card \in Card /\ cards \in [Slots -> AtMostOne(Card)]
      BY <2>2 DEF CardsTyped, AtMostOne
    <3>5. /\ Store(card, c.sector, c.remaining, byte) \in Card
          /\ Store(card, c.sector, c.remaining, byte).home = card.home
      BY <3>4, <2>2, StoreTyped, ZenonT(60)
    <3>6. cards' \in [Slots -> AtMostOne(Card)]
      BY <3>3, <3>4, <3>5 DEF AtMostOne
    <3>7. Origin'
      BY <2>2, <2>3, <3>3, <3>4, <3>5 DEF Origin
    <3> QED  BY <2>3, <3>2, <3>6, <3>7 DEF CardsTyped
  <2>12. CASE SendingEnd(c)
    BY <2>12, <2>3, <1>2 DEF SendingEnd, AtMostOne
  <2> QED  BY <2>1, <2>7, <2>8, <2>9, <2>10, <2>11, <2>12
<1>4. CASE NoAnswer
  BY <1>4, <1>2 DEF NoAnswer, Frame, AtMostOne
<1>5. CASE DeselectCard
  BY <1>5, <1>2 DEF DeselectCard, Frame, AtMostOne
<1>6. ASSUME NEW slot \in Slots, Connect(slot)
      PROVE  CardsTyped' /\ Origin'
  <2>1. (CHOOSE s \in Sectors : TRUE) \in Sectors /\ SectorLen \in 1..SectorLen
    BY DEF CardsAssumption
  <2>2. conn' \in AtMostOne(Conns)
    BY <2>1, <1>6 DEF Connect, AtMostOne, Conns, States
  <2> QED  BY <2>2, <1>6, <1>2 DEF Connect, Frame
<1>7. CASE RenderFrame
  <2>1. /\ phase' \in {"frame", "commands"}
        /\ UNCHANGED <<config, disc, path, conn, blocked>>
    BY <1>7 DEF RenderFrame, EndFrame
  <2>2. files' \in [Files -> Data] /\ cards' \in [Slots -> AtMostOne(Card)]
    BY <1>7, RenderSaves DEF CardsTyped
  <2>3. ASSUME NEW s \in Slots, NEW card \in cards'[s]
        PROVE  \E old \in cards[s] : card.home = old.home
    <3>1. cards'[s] = Saved(s, TRUE) \/ cards'[s] = cards[s]
      BY <1>7 DEF RenderFrame
    <3>2. cards \in [Slots -> AtMostOne(Card)]
      BY DEF CardsTyped
    <3>3. \A saved \in Saved(s, TRUE) : \E old \in cards[s] : saved.home = old.home
      <4>1. \A saved \in Saved(s, TRUE) : \E old \in cards[s] :
              saved.home = old.home /\ saved.data = old.data
        BY <3>2, SavedTyped, Zenon
      <4> QED  BY <4>1
    <3> QED  BY <2>3, <3>1, <3>3
  <2> QED  BY <2>1, <2>2, <2>3 DEF CardsTyped, Origin
<1>8. ASSUME NEW slot \in Slots, SaveFails(slot)
      PROVE  CardsTyped' /\ Origin'
  <2>1. /\ phase' \in {"frame", "commands"}
        /\ UNCHANGED <<config, disc, path, conn, blocked>>
    BY <1>8 DEF SaveFails, EndFrame
  <2>2. files' \in [Files -> Data]
    BY <1>8, SaveFileTyped DEF CardsTyped, SaveFails, Slots
  <2>3. ASSUME NEW s \in Slots
        PROVE  \/ cards'[s] = cards[s]
               \/ \E ok \in BOOLEAN : cards'[s] = Saved(s, ok)
    BY <1>8 DEF SaveFails
  <2>4. DOMAIN cards' = Slots /\ cards' = [s \in Slots |-> cards'[s]]
    BY <1>8 DEF SaveFails
  <2>5. cards' \in [Slots -> AtMostOne(Card)]
    <3>1. cards \in [Slots -> AtMostOne(Card)]
      BY DEF CardsTyped
    <3>2. ASSUME NEW s \in Slots
          PROVE  cards'[s] \in AtMostOne(Card)
      <4>1. \A ok \in BOOLEAN : Saved(s, ok) \in AtMostOne(Card)
        BY <3>1, SavedTyped
      <4> QED  BY <2>3, <3>1, <4>1
    <3> QED  BY <2>4, <3>2
  <2>6. ASSUME NEW s \in Slots, NEW card \in cards'[s]
        PROVE  \E old \in cards[s] : card.home = old.home
    <3>1. cards \in [Slots -> AtMostOne(Card)]
      BY DEF CardsTyped
    <3>2. \A ok \in BOOLEAN : \A saved \in Saved(s, ok) :
            \E old \in cards[s] : saved.home = old.home
      <4>1. \A ok \in BOOLEAN : \A saved \in Saved(s, ok) : \E old \in cards[s] :
              saved.home = old.home /\ saved.data = old.data
        BY <3>1, SavedTyped, Zenon
      <4> QED  BY <4>1
    <3> QED  BY <2>3, <2>6, <3>2
  <2> QED  BY <2>1, <2>2, <2>5, <2>6 DEF CardsTyped, Origin
<1>9. CASE FrameFails
  BY <1>9 DEF FrameFails, EndFrame, CardsTyped, Origin
<1>10. CASE NextFrame
  BY <1>10 DEF NextFrame, CardsTyped, Origin
<1>11. CASE Restart
  <2>1. /\ config \in Configs /\ disc \in AtMostOne(Discs) /\ files \in [Files -> Data]
        /\ UNCHANGED <<config, disc, files>> /\ phase' = "frame" /\ blocked' = FALSE
        /\ path' = Paths(config, disc) /\ cards' = Load(config, path') /\ conn' = {}
    BY <1>11 DEF Restart, CardsTyped
  <2>2. path' \in [Slots -> Files]
    BY <2>1, PathsTyped
  <2>3. /\ cards' \in [Slots -> AtMostOne(Card)]
        /\ \A s \in Slots : \A card \in cards'[s] : card.home = path'[s]
    BY <2>1, <2>2, LoadTyped
  <2>4. conn' \in AtMostOne(Conns)
    BY <2>1 DEF AtMostOne
  <2> QED  BY <2>1, <2>2, <2>3, <2>4 DEF CardsTyped, Origin
<1>12. ASSUME NEW conf \in Configs, NEW d \in AtMostOne(Discs), UpdateCards(conf, d),
              config' = conf, disc' = d
       PROVE  CardsTyped' /\ Origin'
  <2>1. Paths(conf, d) \in [Slots -> Files]
    BY PathsTyped
  <2>2. CASE blocked' = FALSE /\ cards' = Load(conf, Paths(conf, d))
    <3>1. /\ path' = Paths(conf, d) /\ files \in [Files -> Data]
          /\ UNCHANGED <<phase, conn, files>>
      BY <1>12 DEF UpdateCards, CardsTyped
    <3>2. /\ cards' \in [Slots -> AtMostOne(Card)]
          /\ \A s \in Slots : \A card \in cards'[s] : card.home = path'[s]
      BY <2>1, <2>2, <3>1, LoadTyped
    <3> QED  BY <2>1, <2>2, <3>1, <3>2, <1>12 DEF CardsTyped, Origin
  <2>3. CASE blocked' = TRUE /\ UNCHANGED cards
    BY <2>1, <2>3, <1>12 DEF UpdateCards, CardsTyped, Origin
  <2> QED  BY <2>2, <2>3, <1>12 DEF UpdateCards
<1>13. ASSUME NEW d \in AtMostOne(Discs), ChangeDisc(d)
       PROVE  CardsTyped' /\ Origin'
  BY <1>12, <1>13 DEF ChangeDisc, CardsTyped
<1>14. ASSUME NEW conf \in Configs, UpdateConfig(conf)
       PROVE  CardsTyped' /\ Origin'
  BY <1>12, <1>14 DEF UpdateConfig, CardsTyped
<1>15. ASSUME NEW conns \in AtMostOne(Snapshots), LoadState(conns)
       PROVE  CardsTyped' /\ Origin'
  <2>1. conns \in AtMostOne(Conns)
    BY DEF AtMostOne, CardsAssumption
  <2>2. ASSUME NEW card \in Card
        PROVE  /\ [card EXCEPT !.dirty = TRUE] \in Card
               /\ [card EXCEPT !.dirty = TRUE].home = card.home
    BY DEF Card
  <2>3. ASSUME NEW s \in Slots
        PROVE  /\ cards'[s] \in AtMostOne(Card)
               /\ \A card \in cards'[s] : \E old \in cards[s] : card.home = old.home
    <3>1. cards'[s] = {[card EXCEPT !.dirty = TRUE] : card \in cards[s]}
      BY <1>15 DEF LoadState
    <3>2. CASE cards[s] = {}
      BY <3>1, <3>2 DEF AtMostOne
    <3>3. CASE \E card \in Card : cards[s] = {card}
      <4>1. PICK card \in Card : cards[s] = {card}
        BY <3>3
      <4>2. PICK marked : marked = [card EXCEPT !.dirty = TRUE]
        OBVIOUS
      <4>3. cards'[s] = {marked}
        BY <3>1, <4>1, <4>2
      <4> QED  BY <2>2, <4>1, <4>2, <4>3 DEF AtMostOne
    <3> QED  BY <3>2, <3>3 DEF CardsTyped, AtMostOne
  <2>4. cards' \in [Slots -> AtMostOne(Card)]
    BY <2>3, <1>15 DEF LoadState
  <2>5. UNCHANGED <<phase, config, disc, path, files, blocked>> /\ conn' = conns
    BY <1>15 DEF LoadState
  <2>6. CardsTyped'
    BY <2>1, <2>4, <2>5 DEF CardsTyped
  <2>7. Origin'
    BY <2>3, <2>5 DEF Origin
  <2> QED  BY <2>6, <2>7
<1>16. {{}} \cup {{n} : n \in Discs} = AtMostOne(Discs)
       /\ {{}} \cup {{c} : c \in Snapshots} = AtMostOne(Snapshots)
  BY DEF AtMostOne
<1> QED
  BY <1>1, <1>3, <1>4, <1>5, <1>6, <1>7, <1>8, <1>9, <1>10, <1>11, <1>13, <1>14, <1>15, <1>16
  DEF CardsNext
-----------------------------------------------------------------------------
(***************************************************************************)
(* What was last written to a sector as a whole, in cards and files, and   *)
(* how much of an access the game has followed.                            *)
(***************************************************************************)
\* The slots in use have files of their own.
FilesApart ==
  \A conf \in Configs, d \in AtMostOne(Discs) :
    conf["One"].enabled /\ conf["Two"].enabled
      => Paths(conf, d)["One"] # Paths(conf, d)["Two"]

CardsApart == \A one \in cards["One"], two \in cards["Two"] : one.home # two.home

CardsHold ==
  \A s \in Slots, sector \in Sectors : \A card \in cards[s] :
    \A data \in promise[<<card.home, sector>>] : card.data[sector] = data

Unsaved(f) == \E s \in Slots : \E card \in cards[s] : card.home = f /\ (card.dirty \/ card.failed)

FilesHold ==
  \A f \in Files, sector \in Sectors : \A data \in promise[<<f, sector>>] :
    Unsaved(f) \/ files[f][sector] = data

PromisesHold ==
  /\ promise \in [Files \X Sectors -> SUBSET Seq(Byte)]
  /\ CardsApart /\ CardsHold /\ FilesHold

\* The game has heard less than n bytes of the sector, or just the first n.
Follows(c, n) ==
  /\ Len(heard) \leq n
  /\ Len(heard) = n =>
       \A card \in cards[c.slot] : \A i \in 1..n : heard[i] = card.data[c.sector][i]

HeardFollows ==
  /\ heard \in Seq(Byte)
  /\ \A c \in conn :
       /\ c.state \in {"AwaitingCommand", "Identifying", "AddressLow", "ReadAcking"} => heard = <<>>
       /\ c.state \in {"SendingData", "ReceivingData"} => Follows(c, SectorLen - c.remaining)
       /\ c.state = "SendingChecksum" => Follows(c, SectorLen)

\* Cards keep their homes and data; one that loses its marks is in its file.
LEMMA PromisesKept ==
  ASSUME CardsTyped, PromisesHold, promise' = promise,
         \A s \in Slots : \A new \in cards'[s] : \E old \in cards[s] :
           new.home = old.home /\ new.data = old.data,
         \A s \in Slots : \A old \in cards[s] : old.dirty \/ old.failed =>
           \/ \E new \in cards'[s] : new.home = old.home /\ (new.dirty \/ new.failed)
           \/ files'[old.home] = old.data,
         \A f \in Files : \/ files'[f] = files[f]
                          \/ \E s \in Slots : \E old \in cards[s] :
                               old.home = f /\ files'[f] = old.data
  PROVE  PromisesHold'
<1>1. CardsApart'
  BY DEF PromisesHold, CardsApart, Slots
<1>2. CardsHold'
  <2>1. ASSUME NEW s \in Slots, NEW sector \in Sectors, NEW new \in cards'[s],
               NEW data \in promise[<<new.home, sector>>]
        PROVE  new.data[sector] = data
    <3>1. PICK old \in cards[s] : new.home = old.home /\ new.data = old.data
      OBVIOUS
    <3>2. data \in promise[<<old.home, sector>>]
      BY <3>1
    <3>3. old.data[sector] = data
      BY <3>2 DEF PromisesHold, CardsHold
    <3> QED  BY <3>1, <3>3
  <2> QED  BY <2>1 DEF CardsHold
<1>3. ASSUME NEW f \in Files, NEW sector \in Sectors, NEW data \in promise[<<f, sector>>],
             files'[f][sector] # data
      PROVE  Unsaved(f)'
  <2>1. files'[f] = files[f]
    <3>1. ASSUME NEW s \in Slots, NEW old \in cards[s], old.home = f, files'[f] = old.data
          PROVE  FALSE
      <4>1. data \in promise[<<old.home, sector>>]
        BY <3>1
      <4>2. old.data[sector] = data
        BY <4>1 DEF PromisesHold, CardsHold
      <4> QED  BY <1>3, <3>1, <4>2
    <3> QED  BY <3>1
  <2>2. Unsaved(f)
    BY <1>3, <2>1 DEF PromisesHold, FilesHold
  <2>3. PICK s \in Slots : \E old \in cards[s] : old.home = f /\ (old.dirty \/ old.failed)
    BY <2>2 DEF Unsaved
  <2>4. PICK old \in cards[s] : old.home = f /\ (old.dirty \/ old.failed)
    BY <2>3
  <2>5. old.data[sector] = data
    BY <2>4 DEF PromisesHold, CardsHold
  <2> QED  BY <1>3, <2>4, <2>5 DEF Unsaved
<1> QED  BY <1>1, <1>2, <1>3 DEF PromisesHold, FilesHold

\* Cards read anew hold what their files do.
LEMMA PromisesReload ==
  ASSUME CardsAssumption, FilesApart, CardsTyped, PromisesHold,
         NEW conf \in Configs, NEW d \in AtMostOne(Discs),
         cards' = Load(conf, Paths(conf, d)), promise' = Kept(Slots), files' = files
  PROVE  PromisesHold'
<1> DEFINE paths == Paths(conf, d)
<1>1. /\ paths \in [Slots -> Files] /\ files \in [Files -> Data]
      /\ promise \in [Files \X Sectors -> SUBSET Seq(Byte)]
  BY PathsTyped DEF CardsTyped, PromisesHold
<1>2. \A s \in Slots : \A card \in cards'[s] : card.home = paths[s] /\ card.data = files[paths[s]]
  BY <1>1, LoadTyped
<1>3. \A s \in Slots : cards'[s] # {} => conf[s].enabled
  BY DEF Load
<1>4. CardsApart'
  BY <1>2, <1>3 DEF CardsApart, FilesApart, Slots
<1>5. /\ promise' \in [Files \X Sectors -> SUBSET Seq(Byte)]
      /\ \A f \in Files, sector \in Sectors :
           promise'[<<f, sector>>] = IF Unsaved(f) THEN {} ELSE promise[<<f, sector>>]
  <2>1. promise' = [p \in Files \X Sectors |-> IF Unsaved(p[1]) THEN {} ELSE promise[p]]
    BY <1>1 DEF Kept, Unsaved
  <2> QED  BY <2>1, <1>1
<1>6. \A f \in Files, sector \in Sectors : \A data \in promise'[<<f, sector>>] :
        files'[f][sector] = data
  BY <1>5 DEF PromisesHold, FilesHold
<1>7. CardsHold'
  BY <1>1, <1>2, <1>6 DEF CardsHold
<1>8. FilesHold'
  BY <1>6 DEF FilesHold
<1> QED  BY <1>4, <1>5, <1>7, <1>8 DEF PromisesHold

\* The byte that is received of the game.
LEMMA PromisesReceive ==
  ASSUME CardsAssumption, CardsTyped, PromisesHold, HeardFollows,
         NEW c \in conn, ReceivingData(c), files' = files
  PROVE  /\ PromisesHold'
         /\ Len(heard) = SectorLen - c.remaining /\ c.remaining = 1 =>
              \A card \in cards'[c.slot] : heard' = card.data[c.sector]
<1>1. /\ c \in Conns /\ c.remaining \in 1..SectorLen /\ c.sector \in Sectors
      /\ c.slot \in Slots /\ c.state = "ReceivingData"
  BY DEF CardsTyped, AtMostOne, Conns, ReceivingData, Answer
<1>2. SectorLen \in Nat \ {0}
  BY DEF CardsAssumption
<1>3. PICK card \in cards[c.slot], byte \in Byte :
        /\ cards' = [cards EXCEPT ![c.slot] = {Store(card, c.sector, c.remaining, byte)}]
        /\ heard' = Append(heard, byte)
        /\ promise' = [promise EXCEPT ![<<card.home, c.sector>>] =
                         IF LastByte(c.remaining) /\ Len(heard') = SectorLen THEN {heard'} ELSE {}]
  BY DEF ReceivingData
<1>4. cards[c.slot] = {card} /\ card \in Card /\ cards \in [Slots -> AtMostOne(Card)]
  BY <1>1 DEF CardsTyped, AtMostOne
<1> DEFINE at == Address(c.remaining)
           kept == IF LastByte(c.remaining) /\ Len(heard') = SectorLen THEN {heard'} ELSE {}
<1>5. PICK stored : stored = Store(card, c.sector, c.remaining, byte)
  OBVIOUS
<1>6. /\ stored \in Card
      /\ stored.home = card.home /\ stored.failed = card.failed
      /\ stored.dirty <=> card.dirty \/ c.remaining = 1
      /\ \A sector \in Sectors : sector # c.sector => stored.data[sector] = card.data[sector]
      /\ stored.data[c.sector] = [card.data[c.sector] EXCEPT ![at] = byte]
  BY <1>1, <1>4, <1>5, StoreTyped
<1>7. /\ cards'[c.slot] = {stored}
      /\ \A s \in Slots : s # c.slot => cards'[s] = cards[s]
  BY <1>1, <1>3, <1>4, <1>5
<1>8. /\ heard \in Seq(Byte) /\ Len(heard) \leq SectorLen - c.remaining
      /\ Len(heard) = SectorLen - c.remaining =>
           \A i \in 1..Len(heard) : heard[i] = card.data[c.sector][i]
  BY <1>1, <1>4 DEF HeardFollows, Follows
<1>9. at = SectorLen + 1 - c.remaining
  BY DEF Address
<1>10. heard' \in Seq(Byte) /\ Len(heard') = Len(heard) + 1
  BY <1>3, <1>8
<1>11. ASSUME c.remaining = 1, Len(heard') = SectorLen
       PROVE  heard' = stored.data[c.sector]
  <2>1. at = SectorLen /\ Len(heard) = SectorLen - 1
    BY <1>2, <1>8, <1>9, <1>10, <1>11
  <2>2. heard' \in [1..SectorLen -> Byte]
    BY <1>10, <1>11
  <2>3. card.data[c.sector] \in [1..SectorLen -> Byte]
    BY <1>1, <1>4 DEF Card, Data
  <2>4. stored.data[c.sector] \in [1..SectorLen -> Byte]
    BY <1>1, <1>6 DEF Card, Data
  <2>5. ASSUME NEW i \in 1..SectorLen
        PROVE  heard'[i] = stored.data[c.sector][i]
    <3>1. CASE i = SectorLen
      <4>1. heard'[SectorLen] = byte
        BY <1>3, <1>8, <2>1, <1>2
      <4>2. stored.data[c.sector][SectorLen] = byte
        BY <1>2, <1>6, <2>1, <2>3
      <4> QED  BY <3>1, <4>1, <4>2
    <3>2. CASE i # SectorLen
      <4>1. i \in 1..Len(heard)
        BY <1>2, <2>1, <3>2
      <4>2. heard'[i] = heard[i]
        BY <1>3, <1>8, <4>1
      <4>3. heard[i] = card.data[c.sector][i]
        BY <1>8, <1>11, <2>1, <4>1
      <4>4. stored.data[c.sector][i] = card.data[c.sector][i]
        BY <1>6, <2>1, <2>3, <3>2
      <4> QED  BY <4>2, <4>3, <4>4
    <3> QED  BY <3>1, <3>2
  <2> DEFINE D == 1..SectorLen
  <2>6. PICK g, h : g = heard' /\ h = stored.data[c.sector]
    OBVIOUS
  <2>7. g \in [D -> Byte] /\ h \in [D -> Byte] /\ \A i \in D : g[i] = h[i]
    BY <2>2, <2>4, <2>5, <2>6
  <2> HIDE DEF D
  <2>8. g = h
    BY <2>7, SameFunction
  <2> QED  BY <2>6, <2>8
<1>12. card.home \in Files /\ promise \in [Files \X Sectors -> SUBSET Seq(Byte)]
  BY <1>4 DEF Card, PromisesHold
<1>13. promise' \in [Files \X Sectors -> SUBSET Seq(Byte)]
  <2>1. kept \in SUBSET Seq(Byte)
    BY <1>10
  <2> HIDE DEF kept
  <2>2. promise' = [promise EXCEPT ![<<card.home, c.sector>>] = kept]
    BY <1>3 DEF kept
  <2> QED  BY <1>1, <1>12, <2>1, <2>2
<1>14. ASSUME NEW f \in Files, NEW sector \in Sectors
       PROVE  /\ f = card.home /\ sector = c.sector => promise'[<<f, sector>>] = kept
              /\ f # card.home \/ sector # c.sector => promise'[<<f, sector>>] = promise[<<f, sector>>]
  <2> HIDE DEF kept
  <2>1. promise' = [promise EXCEPT ![<<card.home, c.sector>>] = kept]
    BY <1>3 DEF kept
  <2>2. <<f, sector>> \in Files \X Sectors /\ <<card.home, c.sector>> \in Files \X Sectors
    BY <1>1, <1>12
  <2>3. <<f, sector>> = <<card.home, c.sector>> <=> f = card.home /\ sector = c.sector
    OBVIOUS
  <2> QED  BY <1>12, <2>1, <2>2, <2>3
<1>15. \A data \in kept : data = heard' /\ c.remaining = 1 /\ Len(heard') = SectorLen
  BY DEF LastByte
<1> HIDE DEF kept, at
<1>16. CardsApart'
  BY <1>1, <1>4, <1>6, <1>7, SMTT(40) DEF PromisesHold, CardsApart, Slots
<1>17. \A s \in Slots : s # c.slot => \A other \in cards[s] : other.home # card.home
  BY <1>1, <1>4 DEF PromisesHold, CardsApart, Slots
<1>18. CardsHold'
  <2>1. ASSUME NEW s \in Slots, NEW sector \in Sectors, NEW new \in cards'[s],
               NEW data \in promise'[<<new.home, sector>>]
        PROVE  new.data[sector] = data
    <3>1. CASE s = c.slot /\ sector = c.sector
      BY <2>1, <3>1, <1>6, <1>7, <1>11, <1>12, <1>14, <1>15
    <3>2. CASE s = c.slot /\ sector # c.sector
      <4>1. new = stored /\ new.home = card.home /\ new.data[sector] = card.data[sector]
        BY <3>2, <1>6, <1>7
      <4>2. data \in promise[<<card.home, sector>>]
        BY <2>1, <3>2, <4>1, <1>12, <1>14
      <4>3. card.data[sector] = data
        BY <1>1, <4>2 DEF PromisesHold, CardsHold
      <4> QED  BY <4>1, <4>3
    <3>3. CASE s # c.slot
      <4>1. new \in cards[s] /\ new.home # card.home
        BY <3>3, <1>7, <1>17
      <4>2. new.home \in Files
        BY <4>1, <1>4 DEF AtMostOne, Card
      <4> QED  BY <2>1, <4>1, <4>2, <1>14 DEF PromisesHold, CardsHold
    <3> QED  BY <3>1, <3>2, <3>3
  <2> QED  BY <2>1 DEF CardsHold
<1>19. FilesHold'
  <2>1. ASSUME NEW f \in Files, NEW sector \in Sectors, NEW data \in promise'[<<f, sector>>]
        PROVE  Unsaved(f)' \/ files'[f][sector] = data
    <3>1. CASE f = card.home /\ sector = c.sector
      BY <2>1, <3>1, <1>1, <1>6, <1>7, <1>14, <1>15 DEF Unsaved
    <3>2. CASE f # card.home \/ sector # c.sector
      <4>1. Unsaved(f) \/ files[f][sector] = data
        BY <2>1, <3>2, <1>14 DEF PromisesHold, FilesHold
      <4>2. Unsaved(f) => Unsaved(f)'
        BY <1>1, <1>4, <1>6, <1>7 DEF Unsaved
      <4> QED  BY <4>1, <4>2
    <3> QED  BY <3>1, <3>2
  <2> QED  BY <2>1 DEF FilesHold
<1>20. PromisesHold'
  BY <1>13, <1>16, <1>18, <1>19 DEF PromisesHold
<1>21. ASSUME Len(heard) = SectorLen - c.remaining, c.remaining = 1
       PROVE  \A new \in cards'[c.slot] : heard' = new.data[c.sector]
  BY <1>2, <1>7, <1>10, <1>11, <1>21
<1> QED  BY <1>20, <1>21
LEMMA NothingHeard ==
  ASSUME CardsAssumption, heard' = <<>>, conn' \in AtMostOne(Conns)
  PROVE  HeardFollows'
<1>1. <<>> \in Seq(Byte) /\ Len(<<>>) = 0 /\ SectorLen \in Nat \ {0}
  BY DEF CardsAssumption
<1>2. ASSUME NEW c \in conn', NEW n \in 0..SectorLen
      PROVE  Follows(c, n)'
  BY <1>1 DEF Follows
<1>3. \A c \in conn' : SectorLen - c.remaining \in 0..SectorLen
  BY <1>1 DEF AtMostOne, Conns
<1> QED  BY <1>1, <1>2, <1>3 DEF HeardFollows

\* The access stays where it is, and the cards hold what they did.
LEMMA HeardKept ==
  ASSUME CardsTyped, HeardFollows, heard' = heard, conn' \subseteq conn,
         \A s \in Slots : \A new \in cards'[s] : \E old \in cards[s] : new.data = old.data
  PROVE  HeardFollows'
<1>1. \A c \in conn : c.slot \in Slots
  BY DEF CardsTyped, AtMostOne, Conns
<1>2. ASSUME NEW c \in conn, NEW n, Follows(c, n)
      PROVE  Follows(c, n)'
  BY <1>1, <1>2 DEF Follows
<1> QED  BY <1>2 DEF HeardFollows

\* One byte more of a sector that the game has followed.
LEMMA OneMore ==
  ASSUME NEW n \in Nat, NEW N \in Nat, n < N, NEW s \in Seq(Byte), NEW t \in Seq(Byte),
         NEW f \in [1..N -> Byte], NEW g \in [1..N -> Byte],
         t = Append(s, g[n + 1]), Len(s) \leq n,
         Len(s) = n => \A i \in 1..n : s[i] = f[i], \A i \in 1..n : f[i] = g[i]
  PROVE  /\ Len(t) \leq n + 1
         /\ Len(t) = n + 1 => \A i \in 1..(n + 1) : t[i] = g[i]
<1>1. Len(t) = Len(s) + 1 /\ t[Len(s) + 1] = g[n + 1] /\ \A i \in 1..Len(s) : t[i] = s[i]
  OBVIOUS
<1>2. ASSUME Len(t) = n + 1, NEW i \in 1..(n + 1)
      PROVE  t[i] = g[i]
  <2>1. Len(s) = n
    BY <1>1, <1>2
  <2>2. CASE i = n + 1
    BY <1>1, <2>1, <2>2
  <2>3. CASE i # n + 1
    <3>1. i \in 1..n
      BY <2>3
    <3> QED  BY <1>1, <2>1, <3>1
  <2> QED  BY <2>2, <2>3
<1> QED  BY <1>1, <1>2

LEMMA HeardTransfer ==
  ASSUME CardsAssumption, CardsTyped, HeardFollows, Transfer
  PROVE  HeardFollows'
<1>1. PICK c \in conn : PassOn(c) \/ AwaitingCommand(c) \/ AddressLow(c)
                          \/ SendingData(c) \/ ReceivingData(c) \/ SendingEnd(c)
  BY DEF Transfer
<1>2. /\ c \in Conns /\ c.remaining \in 1..SectorLen /\ c.sector \in Sectors
      /\ c.slot \in Slots /\ c.state \in States
  BY DEF CardsTyped, AtMostOne, Conns
<1>3. SectorLen \in Nat \ {0} /\ SectorLen - c.remaining \in Nat /\ SectorLen - c.remaining < SectorLen
  BY <1>2 DEF CardsAssumption
<1>4. /\ heard \in Seq(Byte)
      /\ c.state \in {"AwaitingCommand", "Identifying", "AddressLow", "ReadAcking"} => heard = <<>>
      /\ c.state \in {"SendingData", "ReceivingData"} => Follows(c, SectorLen - c.remaining)
  BY DEF HeardFollows
<1>5. ASSUME NEW st \in States, NEW n \in 1..SectorLen
      PROVE  /\ [c EXCEPT !.state = st, !.remaining = n].state = st
             /\ [c EXCEPT !.state = st, !.remaining = n].remaining = n
             /\ [c EXCEPT !.state = st, !.remaining = n].slot = c.slot
             /\ [c EXCEPT !.state = st, !.remaining = n].sector = c.sector
  BY <1>2 DEF Conns
<1>6. \A card \in cards[c.slot] : card \in Card /\ card.data[c.sector] \in [1..SectorLen -> Byte]
  <2>1. \A card \in cards[c.slot] : card \in Card
    BY <1>2 DEF CardsTyped, AtMostOne
  <2>2. \A card \in Card : card.data \in [Sectors -> [1..SectorLen -> Byte]]
    BY DEF Card, Data
  <2> QED  BY <1>2, <2>1, <2>2
<1>7. CASE PassOn(c)
  <2>1. PICK d : d = [c EXCEPT !.state = After[c.state], !.remaining = SectorLen]
    OBVIOUS
  <2>2. conn' = {d} /\ heard' = heard /\ c.state \in {"Identifying", "ReadAcking", "ReceivingChecksum"}
    BY <1>7, <2>1 DEF PassOn, After
  <2>3. /\ c.state = "Identifying" => After[c.state] = "AddressLow"
        /\ c.state = "ReadAcking" => After[c.state] = "SendingData"
        /\ c.state = "ReceivingChecksum" => After[c.state] = "WriteAcking"
    BY DEF After
  <2>4. d.state = After[c.state] /\ d.remaining = SectorLen
    BY <1>3, <1>5, <2>1, <2>2, <2>3 DEF States
  <2>5. c.state # "ReceivingChecksum" => heard' = <<>>
    BY <1>4, <2>2
  <2>6. heard' = <<>> => Follows(d, 0)'
    BY DEF Follows
  <2> QED  BY <1>3, <1>4, <2>2, <2>3, <2>4, <2>5, <2>6 DEF HeardFollows
<1>8. CASE AwaitingCommand(c)
  <2>1. PICK command \in {"Read", "Write"} :
          conn' = {[c EXCEPT !.state = "Identifying", !.command = command]}
    BY <1>8 DEF AwaitingCommand
  <2>2. [c EXCEPT !.state = "Identifying", !.command = command].state = "Identifying"
    BY <1>2 DEF Conns
  <2>3. heard' = <<>>
    BY <1>4, <1>8 DEF AwaitingCommand, Answer
  <2> QED  BY <2>1, <2>2, <2>3 DEF HeardFollows
<1>9. CASE AddressLow(c)
  <2>1. PICK s \in Sectors :
          conn' = {[c EXCEPT !.sector = s, !.remaining = SectorLen,
                             !.state = IF c.command = "Read" THEN "ReadAcking" ELSE "ReceivingData"]}
    BY <1>9 DEF AddressLow
  <2>2. PICK d : d = [c EXCEPT !.sector = s, !.remaining = SectorLen,
                             !.state = IF c.command = "Read" THEN "ReadAcking" ELSE "ReceivingData"]
    OBVIOUS
  <2>3. d.remaining = SectorLen /\ d.state \in {"ReadAcking", "ReceivingData"}
    BY <1>2, <2>2 DEF Conns
  <2>4. heard' = <<>>
    BY <1>4, <1>9 DEF AddressLow, Answer
  <2>5. Follows(d, 0)'
    BY <2>4 DEF Follows
  <2>6. conn' = {d} /\ heard' \in Seq(Byte) /\ SectorLen - d.remaining = 0
    BY <1>3, <2>1, <2>2, <2>3, <2>4
  <2> QED  BY <2>3, <2>4, <2>5, <2>6 DEF HeardFollows
<1>10. CASE SendingData(c) \/ ReceivingData(c)
  <2> DEFINE last == IF SendingData(c) THEN "SendingChecksum" ELSE "ReceivingChecksum"
             next == IF LastByte(c.remaining) THEN last ELSE c.state
             rest == IF LastByte(c.remaining) THEN c.remaining ELSE c.remaining - 1
             n == SectorLen - c.remaining
  <2>1. c.state \in {"SendingData", "ReceivingData"} /\ (SendingData(c) <=> c.state = "SendingData")
    BY <1>10 DEF SendingData, ReceivingData, Answer
  <2>2. PICK d : d = [c EXCEPT !.state = next, !.remaining = rest]
    BY SMTT(40)
  <2>3. conn' = {d}
    BY <1>10, <2>1, <2>2 DEF SendingData, ReceivingData, Answer
  <2>4. next \in States /\ rest \in 1..SectorLen
    BY <1>2, <1>3, <2>1 DEF States, LastByte
  <2>5. /\ d.state = next /\ d.remaining = rest /\ d.slot = c.slot /\ d.sector = c.sector
    BY <1>5, <2>2, <2>4
  <2>6. Follows(c, n)
    BY <1>4, <2>1
  <2>7. n + 1 = Address(c.remaining) /\ n \in Nat /\ n < SectorLen /\ n + 1 \in 1..SectorLen
    BY <1>2, <1>3 DEF Address
  <2>8. heard' \in Seq(Byte) /\ Follows(d, n + 1)'
    <3>1. CASE SendingData(c)
      <4>1. PICK card \in cards[c.slot] :
              heard' = Append(heard, card.data[c.sector][Address(c.remaining)])
        BY <3>1 DEF SendingData
      <4>2. cards' = cards /\ cards[c.slot] = {card}
        BY <1>2, <3>1 DEF SendingData, CardsTyped, AtMostOne
      <4>3. PICK f \in [1..SectorLen -> Byte] : f = card.data[c.sector]
        BY <1>6
      <4>4. heard' = Append(heard, f[n + 1]) /\ f[n + 1] \in Byte /\ heard' \in Seq(Byte)
        <5>1. heard' = Append(heard, f[n + 1])
          BY <2>7, <4>1, <4>3
        <5>2. f[n + 1] \in Byte
          BY <2>7
        <5> QED  BY <1>4, <5>1, <5>2
      <4>5. Len(heard) \leq n /\ (Len(heard) = n => \A i \in 1..n : heard[i] = f[i])
        BY <2>6, <4>3 DEF Follows
      <4> HIDE DEF n
      <4>6. /\ Len(heard') \leq n + 1
            /\ Len(heard') = n + 1 => \A i \in 1..(n + 1) : heard'[i] = f[i]
        BY <1>3, <1>4, <2>7, <4>4, <4>5, OneMore
      <4> QED  BY <2>5, <4>2, <4>3, <4>4, <4>6 DEF Follows
    <3>2. CASE ReceivingData(c)
      <4>1. PICK card \in cards[c.slot], byte \in Byte :
              /\ cards' = [cards EXCEPT ![c.slot] = {Store(card, c.sector, c.remaining, byte)}]
              /\ heard' = Append(heard, byte)
        BY <3>2 DEF ReceivingData
      <4>2. cards[c.slot] = {card} /\ card \in Card /\ cards \in [Slots -> AtMostOne(Card)]
        BY <1>2 DEF CardsTyped, AtMostOne
      <4>3. PICK stored : stored = Store(card, c.sector, c.remaining, byte)
        OBVIOUS
      <4>4. PICK f \in [1..SectorLen -> Byte] : f = card.data[c.sector]
        BY <1>6
      <4>5. stored.data[c.sector] = [f EXCEPT ![n + 1] = byte]
        BY <1>2, <2>7, <4>2, <4>3, <4>4, StoreTyped
      <4>6. PICK g \in [1..SectorLen -> Byte] : g = stored.data[c.sector]
        BY <2>7, <4>5
      <4>7. cards'[c.slot] = {stored}
        BY <1>2, <4>1, <4>2, <4>3
      <4>8. g[n + 1] = byte /\ \A i \in 1..n : f[i] = g[i]
        BY <2>7, <4>5, <4>6
      <4>9. Len(heard) \leq n /\ (Len(heard) = n => \A i \in 1..n : heard[i] = f[i])
        BY <2>6, <4>4 DEF Follows
      <4>10. heard' = Append(heard, g[n + 1]) /\ heard' \in Seq(Byte)
        BY <1>4, <4>1, <4>8
      <4> HIDE DEF n
      <4>11. /\ Len(heard') \leq n + 1
             /\ Len(heard') = n + 1 => \A i \in 1..(n + 1) : heard'[i] = g[i]
        BY <1>3, <1>4, <2>7, <4>8, <4>9, <4>10, OneMore
      <4> QED  BY <2>5, <4>6, <4>7, <4>10, <4>11 DEF Follows
    <3> QED  BY <1>10, <3>1, <3>2
  <2>9. CASE LastByte(c.remaining)
    <3>1. n + 1 = SectorLen /\ d.state = last
      BY <1>2, <1>3, <2>5, <2>9 DEF LastByte
    <3> QED  BY <2>3, <2>8, <3>1 DEF HeardFollows
  <2>10. CASE ~LastByte(c.remaining)
    <3>1. n + 1 = SectorLen - d.remaining /\ d.state = c.state
      BY <1>2, <1>3, <2>5, <2>10 DEF LastByte
    <3> QED  BY <2>1, <2>3, <2>8, <3>1 DEF HeardFollows
  <2> QED  BY <2>9, <2>10
<1>11. CASE SendingEnd(c)
  BY <1>4, <1>11 DEF SendingEnd, HeardFollows
<1> QED  BY <1>1, <1>7, <1>8, <1>9, <1>10, <1>11
\* What a slot's card becomes when its save succeeds or fails.
LEMMA SavesKept ==
  ASSUME CardsTyped, PromisesHold, promise' = promise,
         NEW ok \in SUBSET Slots, NEW bad \in SUBSET Slots, ok \cap bad = {},
         cards' = [s \in Slots |-> IF s \in ok THEN Saved(s, TRUE)
                                   ELSE IF s \in bad THEN Saved(s, FALSE) ELSE cards[s]],
         \A s \in ok : \A card \in cards[s] : files'[card.home] = card.data,
         \A f \in Files : \/ files'[f] = files[f]
                          \/ \E s \in ok : \E card \in cards[s] : card.home = f
  PROVE  /\ PromisesHold'
         /\ \A s \in Slots : \A new \in cards'[s] : \E old \in cards[s] : new.data = old.data
<1>1. cards \in [Slots -> AtMostOne(Card)]
  BY DEF CardsTyped
<1>2. \A s \in Slots, b \in BOOLEAN : \A new \in Saved(s, b) : \E old \in cards[s] :
        new.home = old.home /\ new.data = old.data
  BY <1>1, SavedTyped, Zenon
<1>3. \A s \in Slots : \A new \in cards'[s] : \E old \in cards[s] :
           new.home = old.home /\ new.data = old.data
  BY <1>2
<1>4. ASSUME NEW s \in Slots, NEW old \in cards[s], old.dirty \/ old.failed
      PROVE  \/ \E new \in cards'[s] : new.home = old.home /\ (new.dirty \/ new.failed)
             \/ files'[old.home] = old.data
  <2>1. CASE s \in bad
    <3>1. PICK new : new = [old EXCEPT !.dirty = FALSE, !.failed = ~FALSE]
      OBVIOUS
    <3>2. new \in Saved(s, FALSE)
      BY <3>1 DEF Saved
    <3>3. cards[s] = {old} /\ old \in Card
      BY <1>1 DEF AtMostOne
    <3>4. new.failed = TRUE
      BY <3>1, <3>3 DEF Card
    <3>5. new.home = old.home
      BY <3>1, <3>3 DEF Card
    <3>6. new \in cards'[s]
      BY <2>1, <3>2
    <3> QED  BY <3>4, <3>5, <3>6
  <2>2. CASE s \in ok
    BY <2>2
  <2>3. CASE s \notin ok /\ s \notin bad
    BY <1>4, <2>3
  <2> QED  BY <2>1, <2>2, <2>3
<1>5. \A f \in Files : \/ files'[f] = files[f]
                       \/ \E s \in Slots : \E old \in cards[s] :
                            old.home = f /\ files'[f] = old.data
  OBVIOUS
<1>6. PromisesHold'
  BY <1>3, <1>4, <1>5, PromisesKept, Zenon
<1>7. \A s \in Slots : \A new \in cards'[s] : \E old \in cards[s] : new.data = old.data
  <2> SUFFICES ASSUME NEW s \in Slots, NEW new \in cards'[s]
               PROVE  \E old \in cards[s] : new.data = old.data
    OBVIOUS
  <2>1. PICK old \in cards[s] : new.home = old.home /\ new.data = old.data
    BY <1>3
  <2> QED  BY <2>1
<1> QED  BY <1>6, <1>7, Zenon

LEMMA PromisesStep ==
  ASSUME CardsAssumption, FilesApart, CardsTyped, Origin, PromisesHold, HeardFollows,
         [CardsNext]_cardVars
  PROVE  PromisesHold' /\ HeardFollows'
<1>1. ASSUME UNCHANGED <<cards, files, promise>>
      PROVE  PromisesHold'
  BY <1>1 DEF PromisesHold, CardsApart, CardsHold, FilesHold, Unsaved
<1>2. ASSUME UNCHANGED <<cards, heard>>, conn' = conn \/ conn' = {}
      PROVE  HeardFollows'
  BY <1>2, HeardKept
<1>3. CASE UNCHANGED cardVars
  BY <1>1, <1>2, <1>3 DEF cardVars
<1>4. CASE Transfer
  <2>1. HeardFollows'
    BY <1>4, HeardTransfer
  <2>2. PICK c \in conn : PassOn(c) \/ AwaitingCommand(c) \/ AddressLow(c)
                            \/ SendingData(c) \/ ReceivingData(c) \/ SendingEnd(c)
    BY <1>4 DEF Transfer
  <2>3. files' = files
    BY <1>4 DEF Transfer, Frame
  <2>4. CASE ReceivingData(c)
    BY <2>1, <2>3, <2>4, PromisesReceive
  <2>5. CASE ~ReceivingData(c)
    BY <1>1, <2>1, <2>2, <2>3, <2>5
    DEF PassOn, AwaitingCommand, AddressLow, SendingData, SendingEnd
  <2> QED  BY <2>4, <2>5
<1>5. CASE NoAnswer
  BY <1>1, <1>2, <1>5 DEF NoAnswer, Frame
<1>6. CASE DeselectCard
  BY <1>1, <1>2, <1>6 DEF DeselectCard, Frame
<1>7. CardsTyped' /\ Origin'
  BY TypedStep
<1>8. ASSUME heard' = <<>>
      PROVE  HeardFollows'
  BY <1>7, <1>8, NothingHeard DEF CardsTyped
<1>9. ASSUME NEW slot \in Slots, Connect(slot)
      PROVE  PromisesHold' /\ HeardFollows'
  BY <1>1, <1>8, <1>9 DEF Connect, Frame
<1>10. /\ cards \in [Slots -> AtMostOne(Card)] /\ files \in [Files -> Data]
       /\ path \in [Slots -> Files]
  BY DEF CardsTyped
<1>11. ASSUME NEW s \in Slots, Dirty(s)
       PROVE  \E card \in Card : cards[s] = {card}
  BY <1>10, <1>11 DEF Dirty, AtMostOne
<1>12. CASE RenderFrame
  <2> DEFINE ok == {s \in Slots : Dirty(s)}
  <2>1. /\ promise' = promise /\ heard' = heard /\ conn' = conn
        /\ ~blocked \/ ok = {}
        /\ cards' = [s \in Slots |-> IF Dirty(s) THEN Saved(s, TRUE) ELSE cards[s]]
    BY <1>12 DEF RenderFrame, EndFrame
  <2>2. \A s \in ok : \A card \in cards[s] : card.home = path[s]
    BY <2>1 DEF Origin
  <2>3. Dirty("One") /\ Dirty("Two") => path["One"] # path["Two"]
    <3>1. ASSUME Dirty("One"), Dirty("Two")
          PROVE  path["One"] # path["Two"]
      <4>1. PICK one \in Card, two \in Card : cards["One"] = {one} /\ cards["Two"] = {two}
        BY <1>11, <3>1 DEF Slots
      <4>2. one.home = path["One"] /\ two.home = path["Two"]
        BY <2>2, <3>1, <4>1 DEF Slots
      <4> QED  BY <4>1, <4>2 DEF PromisesHold, CardsApart
    <3> QED  BY <3>1
  <2>4. /\ \A f \in Files : files'[f] # files[f] => \E s \in ok : f = path[s]
        /\ Dirty("Two") => files'[path["Two"]] = SaveFile("Two")[path["Two"]]
        /\ Dirty("One") => files'[path["One"]] = SaveFile("One")[path["One"]]
    BY <1>10, <1>12, <2>3, RenderSaves
  <2>5. ASSUME NEW s \in ok, NEW card \in cards[s]
        PROVE  files'[card.home] = card.data
    <3>1. SaveFile(s)[path[s]] = card.data
      BY <1>10, SaveFileTyped
    <3> QED  BY <2>2, <2>4, <3>1 DEF Slots
  <2>6. \A f \in Files : \/ files'[f] = files[f]
                         \/ \E s \in ok : \E card \in cards[s] : card.home = f
    BY <1>11, <2>2, <2>4
  <2>7. cards' = [s \in Slots |-> IF s \in ok THEN Saved(s, TRUE)
                                  ELSE IF s \in {} THEN Saved(s, FALSE) ELSE cards[s]]
    BY <2>1
  <2>8. ok \in SUBSET Slots /\ {} \in SUBSET Slots /\ ok \cap {} = {}
    OBVIOUS
  <2> HIDE DEF ok
  <2>9. /\ PromisesHold'
        /\ \A s \in Slots : \A new \in cards'[s] : \E old \in cards[s] : new.data = old.data
    BY <2>1, <2>5, <2>6, <2>7, <2>8, SavesKept
  <2> QED  BY <2>1, <2>9, HeardKept
<1>13. ASSUME NEW slot \in Slots, SaveFails(slot)
       PROVE  PromisesHold' /\ HeardFollows'
  <2> DEFINE ok == {s \in {"One"} : slot = "Two" /\ Dirty(s)}
             bad == {slot}
  <2>1. /\ promise' = promise /\ heard' = heard /\ conn' = conn
        /\ files' = IF slot = "Two" THEN SaveFile("One") ELSE files
        /\ cards' = [s \in Slots |->
                 CASE s = slot -> Saved(s, FALSE)
                   [] s = "One" /\ slot = "Two" /\ Dirty("One") -> Saved(s, TRUE)
                   [] OTHER -> cards[s]]
        /\ slot = "Two" /\ blocked => ~Dirty("One")
    BY <1>13 DEF SaveFails, EndFrame
  <2>2. ok \in SUBSET Slots /\ bad \in SUBSET Slots /\ ok \cap bad = {}
    BY DEF Slots
  <2>3. cards' = [s \in Slots |-> IF s \in ok THEN Saved(s, TRUE)
                                  ELSE IF s \in bad THEN Saved(s, FALSE) ELSE cards[s]]
    BY <2>1
  <2>4. \A s \in ok : \A card \in cards[s] : card.home = path[s]
    BY <2>1 DEF Origin, Slots
  <2>5. /\ \A f \in Files : SaveFile("One")[f] # files[f] => Dirty("One") /\ f = path["One"]
        /\ \A card \in cards["One"] : Dirty("One") => SaveFile("One")[path["One"]] = card.data
    BY <1>10, SaveFileTyped DEF Slots
  <2>6. \A s \in ok : \A card \in cards[s] : files'[card.home] = card.data
    BY <2>1, <2>4, <2>5
  <2>7. \A f \in Files : \/ files'[f] = files[f]
                         \/ \E s \in ok : \E card \in cards[s] : card.home = f
    <3>1. ASSUME NEW f \in Files, files'[f] # files[f]
          PROVE  \E s \in ok : \E card \in cards[s] : card.home = f
      <4>1. slot = "Two" /\ Dirty("One") /\ f = path["One"]
        BY <2>1, <2>5, <3>1
      <4>2. "One" \in ok /\ \E card \in Card : cards["One"] = {card}
        BY <1>11, <4>1 DEF Slots
      <4> QED  BY <2>4, <4>1, <4>2
    <3> QED  BY <3>1
  <2> HIDE DEF ok, bad
  <2>8. /\ PromisesHold'
        /\ \A s \in Slots : \A new \in cards'[s] : \E old \in cards[s] : new.data = old.data
    BY <2>1, <2>2, <2>3, <2>6, <2>7, SavesKept
  <2> QED  BY <2>1, <2>8, HeardKept
<1>14. CASE FrameFails
  BY <1>1, <1>2, <1>14 DEF FrameFails, EndFrame
<1>15. CASE NextFrame
  BY <1>1, <1>2, <1>15 DEF NextFrame
<1>16. CASE Restart
  <2>1. /\ cards' = Load(config, Paths(config, disc)) /\ promise' = Kept(Slots) /\ files' = files
        /\ heard' = <<>> /\ config \in Configs /\ disc \in AtMostOne(Discs)
    BY <1>16 DEF Restart, CardsTyped
  <2> QED  BY <1>8, <2>1, PromisesReload
<1>17. ASSUME NEW conf \in Configs, NEW d \in AtMostOne(Discs), UpdateCards(conf, d)
       PROVE  PromisesHold' /\ HeardFollows'
  <2>1. CASE cards' = Load(conf, Paths(conf, d)) /\ promise' = Kept(Slots)
    BY <1>8, <1>17, <2>1, PromisesReload DEF UpdateCards
  <2>2. CASE UNCHANGED <<cards, promise>>
    BY <1>1, <1>8, <1>17, <2>2 DEF UpdateCards
  <2> QED  BY <1>17, <2>1, <2>2 DEF UpdateCards
<1>18. ASSUME NEW d \in AtMostOne(Discs), ChangeDisc(d)
       PROVE  PromisesHold' /\ HeardFollows'
  BY <1>17, <1>18 DEF ChangeDisc, CardsTyped
<1>19. ASSUME NEW conf \in Configs, UpdateConfig(conf)
       PROVE  PromisesHold' /\ HeardFollows'
  BY <1>17, <1>19 DEF UpdateConfig, CardsTyped
<1>20. ASSUME NEW conns \in AtMostOne(Snapshots), LoadState(conns)
       PROVE  PromisesHold' /\ HeardFollows'
  <2>1. /\ promise' = promise /\ files' = files /\ heard' = <<>>
        /\ cards' = [s \in Slots |-> {[card EXCEPT !.dirty = TRUE] : card \in cards[s]}]
    BY <1>20 DEF LoadState
  <2>2. ASSUME NEW s \in Slots, NEW card \in cards[s]
        PROVE  /\ [card EXCEPT !.dirty = TRUE].home = card.home
               /\ [card EXCEPT !.dirty = TRUE].data = card.data
               /\ [card EXCEPT !.dirty = TRUE].dirty = TRUE
    BY <1>10 DEF AtMostOne, Card
  <2>3. \A s \in Slots : \A new \in cards'[s] : \E old \in cards[s] :
           new.home = old.home /\ new.data = old.data
    <3>1. ASSUME NEW s \in Slots, NEW new \in cards'[s]
          PROVE  \E old \in cards[s] : new.home = old.home /\ new.data = old.data
      <4>1. cards'[s] = {[card EXCEPT !.dirty = TRUE] : card \in cards[s]}
        BY <2>1
      <4>2. PICK old \in cards[s] : new = [old EXCEPT !.dirty = TRUE]
        BY <4>1
      <4>3. new.home = old.home /\ new.data = old.data
        BY <2>2, <4>2
      <4> QED  BY <4>3
    <3> QED  BY <3>1
  <2>4. ASSUME NEW s \in Slots, NEW old \in cards[s]
        PROVE  \E new \in cards'[s] : new.home = old.home /\ (new.dirty \/ new.failed)
    <3>1. PICK new : new = [old EXCEPT !.dirty = TRUE]
      OBVIOUS
    <3>2. new \in cards'[s] /\ new.home = old.home /\ new.dirty = TRUE
      BY <2>1, <2>2, <3>1
    <3> QED  BY <3>2
  <2> QED  BY <1>8, <2>1, <2>3, <2>4, PromisesKept
<1>21. {{}} \cup {{n} : n \in Discs} = AtMostOne(Discs)
       /\ {{}} \cup {{c} : c \in Snapshots} = AtMostOne(Snapshots)
  BY DEF AtMostOne
<1> QED
  BY <1>3, <1>4, <1>5, <1>6, <1>9, <1>12, <1>13, <1>14, <1>15, <1>16, <1>18, <1>19, <1>20, <1>21
  DEF CardsNext

-----------------------------------------------------------------------------
LEMMA CardsInitTyped ==
  ASSUME CardsAssumption, CardsInit
  PROVE  CardsTyped /\ Origin
<1>1. path \in [Slots -> Files]
  BY PathsTyped DEF CardsInit, AtMostOne
<1>2. Formatted \in Data
  BY DEF Formatted, Data, Byte
<1>3. files \in [Files -> Data]
  BY <1>2 DEF CardsInit
<1>4. /\ cards \in [Slots -> AtMostOne(Card)]
      /\ \A s \in Slots : \A card \in cards[s] : card.home = path[s]
  BY <1>1, <1>3, LoadTyped DEF CardsInit
<1> QED  BY <1>1, <1>3, <1>4 DEF CardsInit, CardsTyped, Origin, AtMostOne

LEMMA CardsInitHolds ==
  ASSUME CardsAssumption, FilesApart, CardsInit
  PROVE  PromisesHold /\ HeardFollows
<1>1. /\ path \in [Slots -> Files] /\ files \in [Files -> Data]
      /\ config \in Configs /\ disc \in AtMostOne(Discs)
      /\ path = Paths(config, disc) /\ cards = Load(config, path)
  BY CardsInitTyped DEF CardsTyped, CardsInit
<1>2. /\ \A s \in Slots : \A card \in cards[s] : card.home = path[s]
      /\ \A s \in Slots : cards[s] # {} => config[s].enabled
      /\ \A s \in Slots : \A card \in cards[s] : card.home \in Files
  BY <1>1, LoadTyped DEF Load
<1>3. CardsApart
  BY <1>1, <1>2 DEF CardsApart, FilesApart, Slots
<1>4. /\ promise \in [Files \X Sectors -> SUBSET Seq(Byte)]
      /\ \A f \in Files, sector \in Sectors : promise[<<f, sector>>] = {}
  BY DEF CardsInit
<1> QED  BY <1>2, <1>3, <1>4 DEF PromisesHold, CardsHold, FilesHold, HeardFollows, CardsInit

LEMMA LastAppended ==
  ASSUME NEW T, NEW s \in T, NEW n \in Seq(T)
  PROVE  Append(n, s)[Len(n) + 1] = s
BY AppendProperties

\* A disc whose name has no dot has a file for each slot of its own.
THEOREM UndottedFilesApart ==
  ASSUME CardsAssumption, NEW Parts, Discs \subseteq {<<part>> : part \in Parts}
  PROVE  FilesApart
<1>1. ASSUME NEW conf \in Configs, NEW d \in AtMostOne(Discs), NEW s \in Slots
      PROVE  Paths(conf, d)[s][2] = s
  <2>1. CASE conf[s].mode = "Shared" \/ d = {}
    BY <2>1 DEF Paths, SlotPath
  <2>2. CASE conf[s].mode # "Shared" /\ \E n \in Discs : d = {n}
    <3>1. PICK n \in Discs : d = {n}
      BY <2>2
    <3>2. PICK part \in Parts : n = <<part>>
      OBVIOUS
    <3>3. (CHOOSE m \in d : TRUE) = n
      BY <3>1
    <3> DEFINE T == Parts \cup Slots
    <3>4. n \in Seq(T) /\ Len(n) = 1 /\ s \in T
      BY <3>2
    <3> HIDE DEF T
    <3>5. Append(n, s)[Len(n) + 1] = s
      BY <3>4, LastAppended
    <3>6. SlotPath(s, conf[s].mode, d) = Append(n, s)
      BY <2>2, <3>1, <3>3, <3>4 DEF SlotPath
    <3> QED  BY <3>4, <3>5, <3>6 DEF Paths
  <2> QED  BY <2>1, <2>2 DEF AtMostOne
<1>2. ASSUME NEW conf \in Configs, NEW d \in AtMostOne(Discs)
      PROVE  Paths(conf, d)["One"] # Paths(conf, d)["Two"]
  BY <1>1 DEF Slots
<1> QED  BY <1>2 DEF FilesApart

\* The cards, the files and the connection stay well-formed.
THEOREM CardsStayTyped == CardsSpec => []CardsTypeOK
<1> USE CardsAssumed
<1>1. CardsInit => CardsTyped /\ Origin
  BY CardsInitTyped
<1>2. CardsTyped /\ Origin /\ [CardsNext]_cardVars => (CardsTyped /\ Origin)'
  BY TypedStep
<1>3. CardsTyped => CardsTypeOK
  <2> SUFFICES ASSUME CardsTyped
               PROVE  CardsTypeOK
    OBVIOUS
  <2>1. \A s \in Slots : \A card \in cards[s] :
          card.home \in Files /\ card.data \in Data /\ {card.dirty, card.failed} \subseteq BOOLEAN
    BY DEF CardsTyped, AtMostOne, Card
  <2> QED  BY <2>1 DEF CardsTyped, CardsTypeOK, AtMostOne
<1> QED  BY <1>1, <1>2, <1>3, PTL DEF CardsSpec

\* A file changes only when the card that comes from it is saved.
THEOREM CardsSavedToTheirFiles == CardsSpec => OwnFilesOnly
<1> USE CardsAssumed
<1>1. CardsInit => CardsTyped /\ Origin
  BY CardsInitTyped
<1>2. CardsTyped /\ Origin /\ [CardsNext]_cardVars => (CardsTyped /\ Origin)'
  BY TypedStep
<1>3. ASSUME CardsTyped, Origin, [CardsNext]_cardVars, NEW f \in DOMAIN files, files'[f] # files[f]
      PROVE  \E s \in Slots : \E card \in cards[s] : card.home = f
  <2>1. /\ cards \in [Slots -> AtMostOne(Card)] /\ files \in [Files -> Data]
        /\ path \in [Slots -> Files] /\ f \in Files
    BY <1>3 DEF CardsTyped
  <2>2. (\E s \in Slots : SaveFails(s)) \/ RenderFrame
    BY <1>3 DEF CardsNext, cardVars, Transfer, Frame, NoAnswer, DeselectCard, Connect,
       FrameFails, NextFrame, Restart, ChangeDisc, UpdateConfig, UpdateCards, LoadState
  <2>3. ASSUME NEW s \in Slots, Dirty(s), ~blocked, f = path[s]
        PROVE  \E card \in cards[s] : card.home = f
    BY <1>3, <2>3 DEF Dirty, Origin
  <2>4. CASE RenderFrame
    <3>1. PICK s \in Slots : Dirty(s) /\ f = path[s]
      BY <1>3, <2>1, <2>4, RenderSaves
    <3>2. ~blocked
      BY <2>4, <3>1 DEF RenderFrame
    <3> QED  BY <2>3, <3>1, <3>2
  <2>5. CASE \E s \in Slots : SaveFails(s)
    <3>1. PICK slot \in Slots : SaveFails(slot)
      BY <2>5
    <3>2. files' = SaveFile("One") /\ slot = "Two"
      BY <1>3, <3>1 DEF SaveFails
    <3>3. Dirty("One") /\ f = path["One"]
      BY <1>3, <2>1, <3>2, SaveFileTyped DEF Slots
    <3>4. ~blocked
      BY <3>1, <3>2, <3>3 DEF SaveFails
    <3> QED  BY <2>3, <3>3, <3>4 DEF Slots
  <2> QED  BY <2>2, <2>4, <2>5
<1>4. CardsTyped /\ Origin /\ [CardsNext]_cardVars
        => [\A f \in {g \in DOMAIN files : files'[g] # files[g]} :
              \E s \in Slots : \E card \in cards[s] : card.home = f]_cardVars
  BY <1>3
<1> QED  BY <1>1, <1>2, <1>4, PTL DEF CardsSpec, OwnFilesOnly

LEMMA CardsInvariant ==
  ASSUME FilesApart
  PROVE  CardsSpec => [](CardsTyped /\ PromisesHold /\ HeardFollows)
<1> USE CardsAssumed
<1> DEFINE Inv == CardsTyped /\ Origin /\ PromisesHold /\ HeardFollows
<1>1. CardsInit => Inv
  BY CardsInitTyped, CardsInitHolds
<1>2. Inv /\ [CardsNext]_cardVars => Inv'
  BY TypedStep, PromisesStep
<1> QED  BY <1>1, <1>2, PTL DEF CardsSpec

LEMMA HeldOrSaved == CardsTyped /\ PromisesHold => SavedOrDirty
<1> SUFFICES ASSUME CardsTyped, PromisesHold, NEW s \in Slots, NEW sector \in Sectors,
                    NEW card \in cards[s], NEW data \in promise[<<card.home, sector>>]
             PROVE  /\ card.data[sector] = data
                    /\ card.dirty \/ card.failed \/ files[card.home][sector] = data
  BY DEF SavedOrDirty
<1>1. card.data[sector] = data
  BY DEF PromisesHold, CardsHold
<1>2. cards \in [Slots -> AtMostOne(Card)] /\ card \in Card /\ card.home \in Files
  BY DEF CardsTyped, AtMostOne, Card
<1>3. ASSUME Unsaved(card.home)
      PROVE  card.dirty \/ card.failed
  <2>1. PICK r \in Slots : \E other \in cards[r] :
                             other.home = card.home /\ (other.dirty \/ other.failed)
    BY <1>3 DEF Unsaved
  <2>2. PICK other \in cards[r] : other.home = card.home /\ (other.dirty \/ other.failed)
    BY <2>1
  <2>3. r = s
    BY <2>2 DEF PromisesHold, CardsApart, Slots
  <2> QED  BY <1>2, <2>2, <2>3 DEF AtMostOne
<1> QED  BY <1>1, <1>2, <1>3 DEF PromisesHold, FilesHold

\* A whole write is in its card's file, or still to be saved, as long as the
\* slots in use have files of their own.
THEOREM WritesReachTheFiles ==
  ASSUME FilesApart
  PROVE  CardsSpec => []SavedOrDirty
<1>1. CardsTyped /\ PromisesHold => SavedOrDirty
  BY HeldOrSaved
<1> QED  BY <1>1, CardsInvariant, PTL

\* Under the same condition a game reads what it last wrote, however the cards
\* have been exchanged and the program restarted in between.
THEOREM WritesAreRead ==
  ASSUME FilesApart
  PROVE  CardsSpec => []ReadsReturnWrites
<1>1. ASSUME CardsTyped, PromisesHold, HeardFollows
      PROVE  ReadsReturnWrites
  <2> SUFFICES ASSUME NEW c \in conn, c.state = "SendingChecksum", Len(heard) = SectorLen,
                      NEW card \in cards[c.slot], NEW data \in promise[<<card.home, c.sector>>]
               PROVE  heard = data
    BY DEF ReadsReturnWrites
  <2>1. c.slot \in Slots /\ c.sector \in Sectors
    BY <1>1 DEF CardsTyped, AtMostOne, Conns
  <2>2. card \in Card /\ card.home \in Files
    BY <1>1, <2>1 DEF CardsTyped, AtMostOne, Card
  <2>3. card.data[c.sector] = data
    BY <1>1, <2>1 DEF PromisesHold, CardsHold
  <2>4. card.data[c.sector] \in [1..SectorLen -> Byte]
    BY <2>1, <2>2 DEF Card, Data
  <2>5. heard \in [1..SectorLen -> Byte]
    BY <1>1 DEF HeardFollows
  <2>6. \A i \in 1..SectorLen : heard[i] = card.data[c.sector][i]
    BY <1>1 DEF HeardFollows, Follows
  <2> DEFINE D == 1..SectorLen
  <2>7. PICK h : h = card.data[c.sector]
    OBVIOUS
  <2>8. heard \in [D -> Byte] /\ h \in [D -> Byte] /\ \A i \in D : heard[i] = h[i]
    BY <2>4, <2>5, <2>6, <2>7
  <2> HIDE DEF D
  <2>9. heard = h
    BY <2>8, SameFunction
  <2> QED  BY <2>3, <2>7, <2>9
<1>2. CardsTyped /\ PromisesHold /\ HeardFollows => ReadsReturnWrites
  BY <1>1
<1> QED  BY <1>2, CardsInvariant, PTL
=============================================================================
