--------------------------------- MODULE Dma ---------------------------------
(***************************************************************************)
(* The DMA controller (dma.rs) with the program that starts transfers, the *)
(* scheduler's ProcessDma event and the part of Ps1Emulator::tick that     *)
(* makes the CPU wait while a transfer has the bus.                        *)
(*                                                                         *)
(* Times are relative to the CPU cycle counter; a time that has come is 0. *)
(* Addresses, the words moved and the devices are abstracted: what a pass  *)
(* costs the CPU is some member of Waits, and left counts what a transfer  *)
(* still has to move, blocks or nodes of the GPU's linked list.            *)
(***************************************************************************)
EXTENDS Integers, FiniteSets

CONSTANTS
  Channels,       \* of 0..6, without the unused 5
  Priorities,     \* the priorities the program may give them
  InterruptWrites,\* what it may write to DmaInterruptRegister
  MaxLeft,        \* blocks or nodes of a transfer
  Waits,          \* CPU cycles one pass takes
  MdecOutDelay,   \* 256: MDEC decompression
  SpuDelay,       \* 64
  NodeDelay,      \* 128: a node of a linked list
  EmptyNodeDelay, \* 16: a node without words
  RetryDelay      \* 16: the MDEC has no data yet

MDEC_IN == 0
MDEC_OUT == 1
GPU == 2
CD_ROM == 3
SPU == 4
OTC == 6

Bursts == {CD_ROM, OTC}

ASSUME DmaAssumptions ==
  /\ Channels \subseteq {MDEC_IN, MDEC_OUT, GPU, CD_ROM, SPU, OTC}
  /\ Priorities \subseteq [Channels -> Nat]
  /\ InterruptWrites \subseteq
       [force : BOOLEAN, channels : SUBSET Channels, master : BOOLEAN, ack : SUBSET Channels]
  /\ MaxLeft \in Nat
  /\ Waits \subseteq Nat
  /\ {MdecOutDelay, SpuDelay, NodeDelay, EmptyNodeDelay, RetryDelay} \subseteq Nat

VARIABLES
  priority, enabled,       \* DmaControlRegister: of each channel; the enabled ones
  irqEnabled, masterIrq,   \* DmaInterruptRegister: channel_irq_enabled, irq_enabled
  irqPending, forceIrq,    \*   channel_irq_pending, force_irq
  istat,                   \* the DMA bit of I_STAT
  active, list, left,      \* ChannelConfig: transfer_active, LinkedList mode, what is left
  nextActive,              \*   next_active_cycles
  globalNext,              \* global_next_active_cycles
  cpuWait,                 \* cpu_wait_cycles
  event,                   \* when the ProcessDma event is due: {} or {time}
  request                  \* the MDEC has data to send: data_out_request

control == <<priority, enabled>>
interrupt == <<irqEnabled, masterIrq, irqPending, forceIrq, istat>>
channel == <<active, list, left>>
times == <<nextActive, globalNext, event>>
vars == <<control, interrupt, channel, times, cpuWait, request>>

-----------------------------------------------------------------------------

Less(t, n) == IF t > n THEN t - n ELSE 0
Later(a, b) == IF a > b THEN a ELSE b
Earliest(S) == CHOOSE t \in S : \A u \in S : t <= u

EventReady == event = {0}

\* min_or_push_event
MinOrPush(e, t) == {Earliest(e \cup {t})}

\* n cycles pass, after which next and e are what is left of them.
Pass(n, next, e) ==
  /\ nextActive' = [c \in Channels |-> Less(next[c], n)]
  /\ event' = {Less(t, n) : t \in e}
  /\ globalNext' = Less(globalNext, n)

\* Mutant: only an enabled channel that could run now is scheduled.
ScheduleDueOnly(e, on, running, next, global) ==
  IF \E c \in on : running[c] /\ next[c] = 0 THEN MinOrPush(e, global) ELSE e

\* maybe_schedule_process_dma, of a controller with these enabled and active
\* channels.
MaybeSchedule(e, on, running, next, global) ==
  LET waiting == {next[c] : c \in {d \in on : running[d]}}
  IN  IF waiting = {} THEN e ELSE MinOrPush(e, Later(global, Earliest(waiting)))

IrqPending == forceIrq \/ (masterIrq /\ irqEnabled \cap irqPending # {})

\* IRQ2 is set when the pending bit goes from 0 to 1.
FlagEdge == istat' = (istat \/ (~IrqPending /\ IrqPending'))

Init ==
  /\ priority = [c \in Channels |-> c + 1] /\ enabled = {}
  /\ irqEnabled = {} /\ masterIrq = FALSE /\ irqPending = {} /\ forceIrq = FALSE
  /\ istat = FALSE
  /\ active = [c \in Channels |-> FALSE]
  /\ list = FALSE
  /\ left = [c \in Channels |-> 0]
  /\ nextActive = [c \in Channels |-> 0]
  /\ globalNext = 0 /\ cpuWait = 0 /\ event = {}
  /\ request = FALSE

-----------------------------------------------------------------------------
(***************************************************************************)
(* The CPU runs instructions until an event is ready, and not while a DMA  *)
(* has it wait; each takes a cycle after its register write.               *)
(***************************************************************************)
Cpu == ~EventReady /\ cpuWait = 0 /\ UNCHANGED <<cpuWait, request>>

OtherInstruction ==
  /\ Cpu
  /\ Pass(1, nextActive, event)
  /\ UNCHANGED <<control, interrupt, channel>>

WriteControl(p, on) ==
  /\ Cpu
  /\ priority' = p /\ enabled' = on
  /\ Pass(1, nextActive, MaybeSchedule(event, on, active, nextActive, globalNext))
  /\ UNCHANGED <<interrupt, channel>>

WriteInterrupt(value) ==
  /\ Cpu
  /\ forceIrq' = value.force /\ irqEnabled' = value.channels /\ masterIrq' = value.master
  /\ irqPending' = (irqPending \ value.ack) \cap value.channels
  /\ FlagEdge
  /\ Pass(1, nextActive, event)
  /\ UNCHANGED <<control, channel>>

\* The interrupt handler acknowledges I_STAT.
WriteInterruptStatus ==
  /\ Cpu
  /\ istat' = FALSE
  /\ Pass(1, nextActive, event)
  /\ UNCHANGED <<control, irqEnabled, masterIrq, irqPending, forceIrq, channel>>

\* write_channel_length, and for a linked list the address of its first node:
\* a length of 0 stands for the largest one, and no address the program writes
\* is the end marker.
WriteLength(c, n) ==
  /\ Cpu
  /\ left' = [left EXCEPT ![c] = n]
  /\ Pass(1, nextActive, event)
  /\ UNCHANGED <<control, interrupt, active, list>>

WriteChannelControl(c, start, linked) ==
  /\ Cpu
  /\ active' = [active EXCEPT ![c] = start]
  /\ list' = IF c = GPU THEN linked ELSE list
  /\ Pass(1, nextActive, IF start THEN MinOrPush(event, 0) ELSE event)
  /\ UNCHANGED <<control, interrupt, left>>

\* The start of tick: the cycles the last pass took.
TakeCpuWait ==
  /\ ~EventReady /\ cpuWait # 0
  /\ Pass(cpuWait, nextActive, event)
  /\ cpuWait' = 0
  /\ UNCHANGED <<control, interrupt, channel, request>>

\* The MDEC decodes, or runs out of data.
MdecRequest ==
  /\ request' = ~request
  /\ UNCHANGED <<control, interrupt, channel, times, cpuWait>>

-----------------------------------------------------------------------------
(***************************************************************************)
(* The ProcessDma event: DmaController::process.                           *)
(***************************************************************************)
\* Mutant: the channel number is compared first.
ByNumber(c, d) ==
  \/ c \in enabled /\ d \notin enabled
  \/ (c \in enabled <=> d \in enabled) /\ c < d

\* channels_in_priority_order
Before(c, d) ==
  \/ c \in enabled /\ d \notin enabled
  \/ /\ c \in enabled <=> d \in enabled
     /\ priority[c] < priority[d] \/ (priority[c] = priority[d] /\ c < d)

Due == {c \in Channels : c \in enabled /\ active[c] /\ nextActive[c] = 0}

\* Mutant: also when it has nothing left to move.
StalledAtEnd(c) == c = MDEC_OUT /\ ~request

\* MDEC_OUT waits for data between its blocks.
Stalled(c) == c = MDEC_OUT /\ ~request /\ left[c] # 0

Ready == {c \in Due : ~Stalled(c)}

First == CHOOSE c \in Ready : \A d \in Ready \ {c} : Before(c, d)

\* The pass meets a stalled channel unless one before it runs.
Retried == {c \in Due \ Ready : Ready = {} \/ Before(c, First)}

Delay(c) ==
  CASE c = MDEC_OUT     -> MdecOutDelay
    [] c = SPU          -> SpuDelay
    [] c = GPU /\ list  -> NodeDelay
    [] OTHER            -> 0

\* One of the progress functions: channel c moves a block or a node, which
\* takes the CPU w cycles, or finds that it has moved the last one; a burst
\* moves everything.
Runs(c) == c \notin Bursts /\ left[c] # 0
Ends(c) == c \in Bursts \/ left[c] = 0

NextActive(c, w) ==
  IF c = GPU /\ list /\ w = 0 THEN EmptyNodeDelay ELSE w + Delay(c)

\* Mutant: no edge is looked for.
FlagPendingOnly(c) ==
  /\ irqPending' = irqPending \cup ({c} \cap irqEnabled)
  /\ UNCHANGED <<irqEnabled, masterIrq, forceIrq, istat>>

\* maybe_flag_dma_interrupt
FlagInterrupt(c) ==
  /\ irqPending' = irqPending \cup ({c} \cap irqEnabled)
  /\ UNCHANGED <<irqEnabled, masterIrq, forceIrq>>
  /\ FlagEdge

Served(c, w) ==
  /\ cpuWait' = IF c \in Bursts \/ left[c] # 0 THEN w ELSE 0
  /\ active' = [active EXCEPT ![c] = ~Ends(c)]
  /\ left' = [left EXCEPT ![c] = IF Runs(c) THEN @ - 1 ELSE @]
  /\ IF Ends(c) THEN FlagInterrupt(c) ELSE UNCHANGED interrupt

NothingServed == cpuWait' = 0 /\ UNCHANGED <<active, left, interrupt>>

\* Mutant: the next pass does not wait for this one.
LeaveBus == globalNext' = 0

\* The bus is taken for as long as the CPU waits.
HoldBus == globalNext' = cpuWait'

Serve(w) ==
  /\ IF Ready = {} THEN NothingServed ELSE Served(First, w)
  /\ nextActive' = [c \in Channels |->
       IF c \in Retried THEN RetryDelay
       ELSE IF Ready # {} /\ c = First /\ Runs(c) THEN NextActive(c, w)
       ELSE nextActive[c]]
  /\ HoldBus
  /\ event' = MaybeSchedule({}, enabled, active', nextActive', globalNext')

\* The bus is still taken: try again later.
TooEarly ==
  event' = {globalNext} /\ UNCHANGED <<interrupt, active, left, nextActive, globalNext, cpuWait>>

ProcessDma ==
  /\ EventReady
  /\ IF globalNext # 0 THEN TooEarly ELSE \E w \in Waits : Serve(w)
  /\ UNCHANGED <<control, list, request>>

Program ==
  \/ \E p \in Priorities, on \in SUBSET Channels : WriteControl(p, on)
  \/ \E value \in InterruptWrites : WriteInterrupt(value)
  \/ WriteInterruptStatus
  \/ \E c \in Channels : \/ \E n \in 1..MaxLeft : WriteLength(c, n)
                         \/ \E s, l \in BOOLEAN : WriteChannelControl(c, s, l)

Next == OtherInstruction \/ Program \/ TakeCpuWait \/ ProcessDma \/ MdecRequest

\* tick runs the CPU, takes its waits and processes events for ever.
Fairness ==
  WF_vars(OtherInstruction) /\ WF_vars(TakeCpuWait) /\ WF_vars(ProcessDma)

Spec == Init /\ [][Next]_vars /\ Fairness

-----------------------------------------------------------------------------
TypeOK ==
  /\ priority \in [Channels -> Nat] /\ enabled \subseteq Channels
  /\ irqEnabled \subseteq Channels /\ irqPending \subseteq Channels
  /\ {masterIrq, forceIrq, istat, list, request} \subseteq BOOLEAN
  /\ active \in [Channels -> BOOLEAN]
  /\ left \in [Channels -> Nat] /\ nextActive \in [Channels -> Nat]
  /\ globalNext \in Nat /\ cpuWait \in Nat
  /\ event \subseteq Nat /\ Cardinality(event) <= 1

\* A transfer the program has started and enabled is never forgotten: the
\* ProcessDma event is due no later than the bus and the channel allow.
TransferScheduled ==
  \A c \in enabled :
    active[c] => \E t \in event : t <= Later(globalNext, nextActive[c])

\* A channel's interrupt is pending only while it is enabled, so that enabling
\* it later cannot raise an old one.
PendingIsEnabled == irqPending \subseteq irqEnabled

\* The CPU waits for every cycle a pass took: no pass before the wait is taken
\* resets it.
WaitTaken == [][cpuWait # 0 => cpuWait' = cpuWait \/ TakeCpuWait]_vars

\* Among the channels that could run, the one with the smallest priority does,
\* and of several the one with the smallest number.
PriorityRespected ==
  [][\A c, d \in Ready :
       /\ left'[c] < left[c] \/ (active[c] /\ ~active'[c])
       /\ ProcessDma
       => \/ priority[c] < priority[d]
          \/ (priority[c] = priority[d] /\ c <= d)]_vars

\* A transfer ends only once everything is moved, and its end is flagged.
EndsAreFlagged ==
  [][\A c \in Channels :
       ProcessDma /\ active[c] /\ ~active'[c] =>
         /\ c \in Bursts \/ left[c] = 0
         /\ c \in irqEnabled => c \in irqPending'
         /\ c \in irqEnabled /\ masterIrq /\ ~IrqPending => istat']_vars

\* A program that leaves the controller alone from some time on sees every
\* transfer end, those of lowest priority and those behind a stalled MDEC
\* included; the MDEC's own once its data is there or nothing is left to move.
Busy(c) == c \in enabled /\ active[c]

LeftAlone == EventReady \/ UNCHANGED <<control, channel>>

TransfersEnd ==
  <>[][LeftAlone]_vars =>
    \A c \in Channels : <>[](c = MDEC_OUT => request \/ left[c] = 0) => <>[]~Busy(c)
=============================================================================
