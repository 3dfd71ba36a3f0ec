----------------------------- MODULE SerialPort -----------------------------
(***************************************************************************)
(* A serial port (SerialPort in sio.rs): its transmit FIFO, the pulse on   *)
(* the acknowledge line after each byte, its interrupt and the two events  *)
(* it schedules, with a program that polls the port and drives it.         *)
(*                                                                         *)
(* Times are relative to the CPU cycle counter; a time that has come is 0. *)
(* The port is only brought up to date when it is accessed or one of its   *)
(* events is processed: since counts the cycles it does not know of yet.   *)
(* A device either answers a byte or ends the communication (Sio0Devices   *)
(* has the devices). The bytes are the bits of an alternating sequence, so *)
(* that one that is lost, doubled or overtaken shows.                      *)
(***************************************************************************)
EXTENDS Integers, FiniteSets, Sequences

CONSTANTS
  TransferCycles, \* CONTROLLER_TRANSFER_CYCLES: 500
  AckLowCycles,   \* ACK_LOW_CYCLES: 100
  Steps           \* cycles of an instruction, or of a DMA that stops the CPU

ASSUME SerialAssumptions ==
  /\ TransferCycles \in Nat \ {0} /\ AckLowCycles \in Nat \ {0}
  /\ AckLowCycles < TransferCycles
  /\ Steps \subseteq Nat \ {0} /\ 1 \in Steps

Bit == {0, 1}
Ports == {"One", "Two"}
Devices == {"None", "NoDevice", "Connected", "Disconnected"}

VARIABLES
  since,        \* cycles since last_update_cycles
  fifo,         \* the bytes of TxFifoState: Empty is <<>>, next comes second
  left,         \* cycles_remaining of Transferring, 0 if Empty or Queued
  device,       \* active_device
  ack, irq, pendingIrq7,
  ackLow,       \* ack_low_cycles
  txEnabled, dsrEnabled, port,
  istat,        \* the SIO bit of I_STAT
  events,       \* when Sio0Tx and Sio0Irq are due: {} or {time} each
  ready,        \* the program has seen ready_for_new_byte since its last write
  host, got     \* the bit the program writes next, the last one exchanged

line == <<ack, irq, pendingIrq7, ackLow, istat>>
control == <<txEnabled, dsrEnabled, port>>
vars == <<since, fifo, left, device, line, control, events, ready, host, got>>

-----------------------------------------------------------------------------
Less(t, n) == IF t > n THEN t - n ELSE 0

Other(b) == 1 - b

EventReady == \E e \in {"tx", "irq"} : events[e] = {0}

Later(evs, n) == [e \in {"tx", "irq"} |-> {Less(t, n) : t \in evs[e]}]

Transferring == left # 0

\* Mutant: also while a byte waits behind the one that is transferred.
ReadyWhileWaiting(p) == p.fifo = <<>> \/ p.left # 0

ReadyForNewByte(p) == p.fifo = <<>> \/ (p.left # 0 /\ Len(p.fifo) = 1)

Init ==
  /\ since = 0 /\ fifo = <<>> /\ left = 0 /\ device = "None"
  /\ ack = FALSE /\ irq = FALSE /\ pendingIrq7 = FALSE /\ ackLow = 0 /\ istat = FALSE
  /\ txEnabled = FALSE /\ dsrEnabled = FALSE /\ port = "One"
  /\ events = [e \in {"tx", "irq"} |-> {}]
  /\ ready = FALSE /\ host = 0 /\ got = 1

-----------------------------------------------------------------------------
(***************************************************************************)
(* catch_up. Its result is a state the handler that called it goes on      *)
(* from: Port is the part of the state it changes.                         *)
(***************************************************************************)
Port == [fifo |-> fifo, left |-> left, device |-> device, ack |-> ack, irq |-> irq,
         pending |-> pendingIrq7, low |-> ackLow, istat |-> istat, events |-> events,
         got |-> got]

SetTo(p) ==
  /\ fifo' = p.fifo /\ left' = p.left /\ device' = p.device /\ ack' = p.ack /\ irq' = p.irq
  /\ pendingIrq7' = p.pending /\ ackLow' = p.low /\ istat' = p.istat /\ got' = p.got

\* The acknowledge line rises again.
AckDone(p) ==
  [p EXCEPT !.low = 0, !.istat = p.istat \/ p.pending, !.ack = FALSE, !.pending = FALSE]

AckStep(p, n) ==
  IF p.low = 0 THEN p
  ELSE IF p.low > n THEN [p EXCEPT !.low = p.low - n]
  ELSE AckDone(p)

\* Mutant: an event that is scheduled already is kept.
StartIfNoEvent(p) ==
  [p EXCEPT !.left = TransferCycles,
            !.events.tx = IF @ = {} THEN {TransferCycles} ELSE @]

\* A byte begins its transfer.
Start(p) == [p EXCEPT !.left = TransferCycles, !.events.tx = {TransferCycles}]

\* The device a byte is connected to, or that is left after it.
Answers(d) ==
  CASE d = "None"         -> {"NoDevice", "Connected"}
    [] d = "Connected"    -> {"Connected", "Disconnected"}
    [] OTHER              -> {d}

\* process_tx_write without its event, for a device that becomes d.
Acknowledge(p, d) ==
  LET request == dsrEnabled /\ d = "Connected"
  IN  [p EXCEPT !.device = d, !.ack = TRUE, !.low = AckLowCycles,
                !.pending = @ \/ (request /\ ~p.irq), !.irq = @ \/ request]

ScheduleAck(p) == [p EXCEPT !.events.irq = {AckLowCycles}]

Exchange(p, d) ==
  LET q == [ScheduleAck(Acknowledge(p, d))
              EXCEPT !.got = Head(p.fifo), !.fifo = Tail(p.fifo), !.left = 0]
  IN  IF q.fifo # <<>> /\ txEnabled THEN Start(q) ELSE q

TxStep(p, n) ==
  IF p.fifo = <<>> THEN {p}
  ELSE IF p.left = 0 THEN {IF txEnabled THEN Start(p) ELSE p}
  ELSE IF p.left > n THEN {[p EXCEPT !.left = @ - n]}
  ELSE {Exchange(p, d) : d \in Answers(p.device)}

CatchUp(p) == IF since = 0 THEN {p} ELSE TxStep(AckStep(p, since), since)

-----------------------------------------------------------------------------
(***************************************************************************)
(* The CPU runs instructions until an event is ready; an instruction that  *)
(* accesses the port does so before its cycles are counted.                *)
(***************************************************************************)
\* More cycles than a transfer takes make no difference to catch_up.
Cap(n) == IF n > TransferCycles THEN TransferCycles ELSE n

\* The instruction that has left the port in p ends.
Access(p) ==
  /\ ~EventReady
  /\ SetTo(p) /\ events' = Later(p.events, 1)
  /\ since' = 1

OtherInstruction ==
  /\ ~EventReady
  /\ \E n \in Steps : since' = Cap(since + n) /\ events' = Later(events, n)
  /\ UNCHANGED <<fifo, left, device, line, control, ready, host, got>>

\* read_status; write_mode and write_baudrate_reload change no more than it.
ReadStatus ==
  \E p \in CatchUp(Port) :
    /\ Access(p)
    /\ ready' = ReadyForNewByte(p)
    /\ UNCHANGED <<control, host>>

\* write_tx_data after its catch_up.
Accept(p) ==
  IF p.left # 0
  THEN [p EXCEPT !.fifo = <<Head(p.fifo), host>>, !.events.tx = {p.left}]
  ELSE LET q == [p EXCEPT !.fifo = <<host>>] IN IF txEnabled THEN Start(q) ELSE q

\* The program writes once it has seen that the port is ready.
WriteTxData ==
  /\ ready
  /\ \E p \in CatchUp(Port) : Access(Accept(p))
  /\ ready' = FALSE /\ host' = Other(host)
  /\ UNCHANGED control

\* Mutant: the pulse on the acknowledge line is forgotten, too.
DeselectQuietly(p) ==
  [p EXCEPT !.fifo = <<>>, !.left = 0, !.device = "None", !.got = Other(host),
            !.ack = FALSE, !.low = 0, !.pending = FALSE]

\* The port forgets the byte and the device: the program begins anew.
Deselect(p) == [p EXCEPT !.fifo = <<>>, !.left = 0, !.device = "None", !.got = Other(host)]

\* Mutant: a queued byte waits for the next access.
ControlledLazily(p, tx, dtr, newPort, ackIrq) ==
  LET q == [p EXCEPT !.irq = @ /\ ~ackIrq]
  IN  IF ~dtr \/ newPort # port THEN Deselect(q) ELSE q

\* write_control after its catch_up; a reset is a write of 0.
Controlled(p, tx, dtr, newPort, ackIrq) ==
  LET q == [p EXCEPT !.irq = @ /\ ~ackIrq]
      r == IF ~dtr \/ newPort # port THEN Deselect(q) ELSE q
  IN  IF tx /\ r.fifo # <<>> /\ r.left = 0 THEN Start(r) ELSE r

WriteControl(tx, dtr, dsr, newPort, ackIrq) ==
  /\ \E p \in CatchUp(Port) : Access(Controlled(p, tx, dtr, newPort, ackIrq))
  /\ txEnabled' = tx /\ dsrEnabled' = dsr /\ port' = newPort
  /\ ready' = (ready \/ ~dtr \/ newPort # port)
  /\ UNCHANGED host

\* The interrupt handler acknowledges I_STAT.
WriteInterruptStatus ==
  /\ ~EventReady
  /\ istat' = FALSE
  /\ since' = Cap(since + 1) /\ events' = Later(events, 1)
  /\ UNCHANGED <<fifo, left, device, ack, irq, pendingIrq7, ackLow, control, ready, host, got>>

\* The Sio0Tx or Sio0Irq event, popped before the port catches up.
ProcessEvent(e) ==
  /\ events[e] = {0}
  /\ \E p \in CatchUp([Port EXCEPT !.events[e] = {}]) : SetTo(p) /\ events' = p.events
  /\ since' = 0
  /\ UNCHANGED <<control, ready, host>>

\* The VBlank event brings the port up to date, too.
VBlank ==
  /\ \E p \in CatchUp(Port) : SetTo(p) /\ events' = p.events
  /\ since' = 0
  /\ UNCHANGED <<control, ready, host>>

Next ==
  \/ OtherInstruction \/ ReadStatus \/ WriteTxData \/ WriteInterruptStatus
  \/ VBlank
  \/ \E tx, dtr, dsr, ackIrq \in BOOLEAN, newPort \in Ports :
       WriteControl(tx, dtr, dsr, newPort, ackIrq)
  \/ \E e \in {"tx", "irq"} : ProcessEvent(e)

\* tick runs instructions and processes events for ever.
Fairness ==
  WF_vars(OtherInstruction) /\ \A e \in {"tx", "irq"} : WF_vars(ProcessEvent(e))

Spec == Init /\ [][Next]_vars /\ Fairness

-----------------------------------------------------------------------------
TypeOK ==
  /\ since \in 0..TransferCycles /\ left \in 0..TransferCycles /\ ackLow \in 0..AckLowCycles
  /\ fifo \in {<<>>} \cup {<<b>> : b \in Bit} \cup {<<b, c>> : b, c \in Bit}
  /\ device \in Devices /\ port \in Ports
  /\ {ack, irq, pendingIrq7, istat, txEnabled, dsrEnabled, ready} \subseteq BOOLEAN
  /\ events \in [{"tx", "irq"} -> {{}} \cup {{t} : t \in 0..TransferCycles}]
  /\ {host, got} \subseteq Bit

\* The Sio0Tx event comes when the byte that is transferred is done, whatever
\* the program writes meanwhile: no event of an aborted transfer stands in for
\* it.
TransferScheduled == Transferring => events["tx"] = {Less(left, since)}

\* The Sio0Irq event comes when the acknowledge line rises; as long as an
\* interrupt is pending, it is low.
AckScheduled ==
  /\ ackLow # 0 => events["irq"] = {Less(ackLow, since)}
  /\ pendingIrq7 => ackLow # 0

\* The bytes a program writes when the port is ready are exchanged in their
\* order, none lost and none twice.
BytesInOrder ==
  LET q == <<got>> \o fifo \o <<host>>
  IN  \A i \in 1..(Len(q) - 1) : q[i] # q[i + 1]

\* A byte in an enabled port is exchanged, even if the program writes nothing
\* more, or the port is deselected or disabled.
BytesAreSent ==
  \A b \in Bit :
    (fifo # <<>> /\ Head(fifo) = b /\ txEnabled) ~> (got = b \/ fifo = <<>> \/ ~txEnabled)

\* Each byte's interrupt reaches I_STAT.
InterruptsArrive == pendingIrq7 ~> istat
=============================================================================
