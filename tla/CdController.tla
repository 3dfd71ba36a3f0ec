---------------------------- MODULE CdController -----------------------------
(***************************************************************************)
(* The CD-ROM controller (cd.rs and cd/*.rs) and the program that drives   *)
(* it: the host writes commands and acknowledges interrupts, the 44100 Hz  *)
(* clock advances the drive, then the command in progress, then flags the  *)
(* CD-ROM interrupt of I_STAT on a rising edge.                            *)
(*                                                                         *)
(* A clock is two steps, AdvanceDriveState and AdvanceCommandState, with   *)
(* no step of the host in between.  Response bytes (with the shell-opened  *)
(* bit they carry), volumes, decoded audio and the sectors' contents are   *)
(* abstracted; a disc position is a sector number.  A value read from the  *)
(* parameter FIFO is chosen when the command executes, and only whether    *)
(* the host has written the parameters a command needs is kept.            *)
(***************************************************************************)
EXTENDS Integers, FiniteSets

CONSTANTS
  Commands,          \* the commands the host may write
  LastSector,        \* of the disc
  LastTime,          \* 79:59:74, the last position a SetLoc may name
  XaSectors,         \* real-time audio sectors (submode bits 2 and 6)
  TrackStarts,       \* first sectors of the tracks
  LateTrackStarts,   \* those of tracks numbered above 2
  Modes,             \* the DriveModes the host may set
  SectorCycles,      \* cycles_between_sectors, by speed
  SettleSectors,     \* 5: sectors' worth of cycles before a read or play starts
  ReceiveRunning,    \* RECEIVE_COMMAND_CYCLES_RUNNING
  ReceiveStopped,    \* RECEIVE_COMMAND_CYCLES_STOPPED
  ReceiveInit,       \* INIT_COMMAND_CYCLES
  GetIdSecond,       \* GET_ID_SECOND_CYCLES
  ReadTocSecond,     \* READ_TOC_SECOND_CYCLES
  StopSecond,        \* STOP_SECOND_RESPONSE_CYCLES
  SpinUp,            \* SPIN_UP_CYCLES
  MinSeek,           \* MIN_SEEK_CYCLES
  SectorsPerCycle,   \* how far a seek gets in one cycle
  ReportInterval     \* SECTORS_BETWEEN_REPORTS

AllCommands ==
  {"Demute", "GetId", "GetLocL", "GetLocP", "GetStat", "GetTD", "GetTN", "Init",
   "MotorOn", "Mute", "Pause", "Play", "Read", "ReadToc", "Seek", "SetFilter",
   "SetLoc", "SetMode", "Stop", "Test"}

Sectors == 0..LastSector
Times == 0..LastTime                \* a seek may end far past the last sector
Mode ==
  [double : BOOLEAN, xa : BOOLEAN, report : BOOLEAN, autoPause : BOOLEAN]

\* DriveMode::new(), and what Init sets but for the sector size.  xa stands for
\* ADPCM or its filter: either keeps real-time audio sectors from the host.
DefaultMode == [double |-> FALSE, xa |-> FALSE, report |-> FALSE, autoPause |-> FALSE]

Positive == Nat \ {0}

ASSUME CdAssumptions ==
  /\ Commands \subseteq AllCommands
  /\ LastSector \in Nat /\ LastTime \in Nat /\ LastSector < LastTime
  /\ XaSectors \subseteq Sectors
  /\ TrackStarts \subseteq Sectors /\ LateTrackStarts \subseteq TrackStarts
  /\ Modes \subseteq Mode
  /\ SectorCycles \in [BOOLEAN -> Positive]
  /\ {SettleSectors, ReceiveRunning, ReceiveStopped, ReceiveInit, GetIdSecond,
      ReadTocSecond, StopSecond, SpinUp, MinSeek, SectorsPerCycle} \subseteq Positive
  /\ ReportInterval \in Nat /\ ReportInterval > 1
  /\ \A s \in LateTrackStarts : s > 0

VARIABLES
  phase,        \* "host", or "command" in the middle of a clock
  cmd,          \* command_state
  drive,        \* drive_state
  flags,        \* interrupts.flags, the set of its bits 0-2
  enabled,      \* interrupts.enabled
  prevPending,  \* interrupts.prev_pending
  istat,        \* the CD-ROM bit of I_STAT
  handler,      \* the CPU is in its CD-ROM interrupt handler
  params,       \* the parameter FIFO holds what the command needs
  mode,         \* drive_mode
  seekLoc,      \* seek_location: {} or {time}
  disc,         \* a disc is in the drive
  buffer,       \* sector_buffer: the sector read last, {} before
  dataFifo,     \* the sector in the data FIFO, {} before
  panic         \* why the emulator aborted, "no" while it runs

cdVars == <<flags, enabled, prevPending, istat, handler>>
hostVars == <<enabled, handler>>
vars == <<phase, cmd, drive, cdVars, params, mode, seekLoc, disc,
          buffer, dataFifo, panic>>

-----------------------------------------------------------------------------
(***************************************************************************)
(* Interrupts.                                                             *)
(***************************************************************************)
Bits == {0, 1, 2}
Int1 == {0}
Int2 == {1}
Int3 == {0, 1}
Int4 == {2}
Int5 == {0, 2}

Pending == enabled \cap flags # {}
IntQueued == flags # {}

\* generate_response: the level's bits are ORed into the flags.
Raise(level) == flags' = flags \cup level

-----------------------------------------------------------------------------
(***************************************************************************)
(* States.                                                                 *)
(***************************************************************************)
CommandStates ==
  {"Idle", "CommandQueued", "ReceivingCommand", "GeneratingSecondResponse"}
Idle == [state |-> "Idle", command |-> "Init", cycles |-> 0]
Cmd(s, c, n) == [state |-> s, command |-> c, cycles |-> n]

DriveStates ==
  {"Stopped", "SpinningUp", "Seeking", "PreparingToRead", "Reading",
   "PreparingToPlay", "Playing", "Paused"}

\* done: int1_generated of a Reading drive, no INT2 queued of a Paused one.
\* next: where a Seeking drive goes; a SpinningUp one with next "none" pauses.
\* report: sectors_till_report.
Drive(s, t, n) ==
  [state |-> s, time |-> t, cycles |-> n, next |-> "none", done |-> TRUE,
   report |-> 0]

Stopped == Drive("Stopped", 0, 0)
Paused(t) == Drive("Paused", t, 0)
PausedWithInt2(t) == [Paused(t) EXCEPT !.done = FALSE]
SpinningUp(n, t, next) == [Drive("SpinningUp", t, n) EXCEPT !.next = next]

IsStoppedOrSpinningUp == drive.state \in {"Stopped", "SpinningUp"}
CurrentTime == IF IsStoppedOrSpinningUp THEN 0 ELSE drive.time

CyclesBetweenSectors(m) == SectorCycles[m.double]

EstimateSeekCycles(from, to) ==
  LET distance == IF from < to THEN to - from ELSE from - to
  IN  IF from = to THEN 1
      ELSE (distance + SectorsPerCycle - 1) \div SectorsPerCycle

Seeking(from, to, next) ==
  LET estimate == EstimateSeekCycles(from, to)
      cycles == IF estimate < MinSeek THEN MinSeek ELSE estimate
  IN  [Drive("Seeking", to, cycles) EXCEPT !.next = next]

\* determine_drive_state
DriveStateFor(to, next) ==
  CASE drive.state = "Stopped"    -> SpinningUp(SpinUp, to, next)
    [] drive.state = "SpinningUp" -> SpinningUp(drive.cycles, to, next)
    [] OTHER                      -> Seeking(drive.time, to, next)

SeekTarget == IF seekLoc = {} THEN CurrentTime ELSE CHOOSE t \in seekLoc : TRUE

Init ==
  /\ phase = "host" /\ panic = "no"
  /\ cmd = Idle /\ drive = Stopped
  /\ flags = {} /\ enabled = {} /\ prevPending = FALSE
  /\ istat = FALSE /\ handler = FALSE
  /\ params = FALSE /\ mode = DefaultMode
  /\ seekLoc = {} /\ disc \in BOOLEAN
  /\ buffer = {} /\ dataFifo = {}

-----------------------------------------------------------------------------
(***************************************************************************)
(* The drive's half of a clock: advance_drive_state.                       *)
(***************************************************************************)
\* The drive becomes d and nothing else happens.
MoveDrive(d) ==
  drive' = d /\ UNCHANGED <<flags, buffer, dataFifo, panic>>

Abort(why) ==
  panic' = why /\ UNCHANGED <<drive, flags, buffer, dataFifo>>

\* An arm that only counts down.
CountDown ==
  /\ drive.state \in {"SpinningUp", "Seeking", "PreparingToRead", "PreparingToPlay"}
  /\ drive.cycles # 1
  /\ MoveDrive([drive EXCEPT !.cycles = @ - 1])

SpinUpDone ==
  /\ drive.state = "SpinningUp" /\ drive.cycles = 1
  /\ MoveDrive(IF drive.next = "none" THEN PausedWithInt2(0)
                                      ELSE Seeking(0, drive.time, drive.next))

SeekDone ==
  LET settle == SettleSectors * CyclesBetweenSectors(mode)
  IN  /\ drive.state = "Seeking" /\ drive.cycles = 1
      /\ MoveDrive(CASE drive.next = "Pause" -> PausedWithInt2(drive.time)
                     [] drive.next = "Read"  -> Drive("PreparingToRead", drive.time, settle)
                     [] drive.next = "Play"  -> Drive("PreparingToPlay", drive.time, settle))

\* Mutant: a sector the host has not been told of stays in the sector buffer.
ReadDataSectorOnce ==
  /\ drive.state \in {"PreparingToRead", "Reading"} /\ drive.cycles = 1
  /\ IF ~disc
       THEN /\ Raise(Int5) /\ drive' = Stopped
            /\ UNCHANGED <<buffer, dataFifo, panic>>
     ELSE IF drive.time > LastSector
       THEN Abort("end of disc")
     ELSE /\ buffer' = IF drive.done THEN {drive.time} ELSE buffer
          /\ drive' = [Drive("Reading", drive.time + 1, CyclesBetweenSectors(mode))
                         EXCEPT !.done = mode.xa /\ drive.time \in XaSectors]
          /\ UNCHANGED <<flags, dataFifo, panic>>

\* read_data_sector: the sector at the head enters the sector buffer; one the
\* ADPCM decoder takes, or the filter rejects, needs no INT1.
ReadDataSector ==
  /\ drive.state \in {"PreparingToRead", "Reading"} /\ drive.cycles = 1
  /\ IF ~disc
       THEN /\ Raise(Int5) /\ drive' = Stopped
            /\ UNCHANGED <<buffer, dataFifo, panic>>
     ELSE IF drive.time > LastSector
       THEN Abort("end of disc")                    \* todo!
     ELSE /\ buffer' = {drive.time}
          /\ drive' = [Drive("Reading", drive.time + 1, CyclesBetweenSectors(mode))
                         EXCEPT !.done = mode.xa /\ drive.time \in XaSectors]
          /\ UNCHANGED <<flags, dataFifo, panic>>

\* Mutant: INT1 does not wait for the command being received.
RaiseWhileReceiving == ~drive.done /\ ~IntQueued

\* progress_read_state between two sectors: INT1 waits for the interrupt
\* before it and for a command being received.
MayRaiseInt1 ==
  /\ ~drive.done
  /\ ~IntQueued
  /\ cmd.state # "ReceivingCommand"

ProgressReadState ==
  /\ drive.state = "Reading" /\ drive.cycles # 1
  /\ IF MayRaiseInt1
       THEN Raise(Int1) /\ dataFifo' = buffer
       ELSE UNCHANGED <<flags, dataFifo>>
  /\ drive' = [drive EXCEPT !.done = @ \/ MayRaiseInt1, !.cycles = @ - 1]
  /\ UNCHANGED <<buffer, panic>>

\* read_audio_sector.  INT4 at the end of the disc or, with auto-pause, at the
\* start of a late track; INT1 reports do not wait for anything.
EndOfPlay(d) ==
  Raise(Int4) /\ drive' = d /\ UNCHANGED <<buffer, dataFifo, panic>>

ReadAudioSector(first) ==
  IF ~disc
    THEN Raise(Int5) /\ drive' = Stopped /\ UNCHANGED <<buffer, dataFifo, panic>>
  ELSE IF drive.time > LastSector
    THEN EndOfPlay(IF Cardinality(TrackStarts) > 1 /\ mode.autoPause
                     THEN Paused(drive.time - 1) ELSE Stopped)
  ELSE IF mode.autoPause /\ ~first /\ drive.time \in LateTrackStarts
    THEN EndOfPlay(Paused(drive.time - 1))
  ELSE LET due == first \/ drive.report = 1
       IN  /\ IF due /\ mode.report THEN Raise(Int1) ELSE UNCHANGED flags
           /\ buffer' = {drive.time}
           /\ drive' = [Drive("Playing", drive.time + 1, SectorCycles[FALSE])
                          EXCEPT !.report = (IF due THEN ReportInterval ELSE drive.report) - 1]
           /\ UNCHANGED <<dataFifo, panic>>

StartPlaying ==
  /\ drive.state = "PreparingToPlay" /\ drive.cycles = 1
  /\ ReadAudioSector(TRUE)

\* progress_play_state; cycles counts the samples left in the sector.
ProgressPlayState ==
  /\ drive.state = "Playing"
  /\ IF drive.cycles = 1 THEN ReadAudioSector(FALSE)
                         ELSE MoveDrive([drive EXCEPT !.cycles = @ - 1])

\* A paused drive sends the INT2 of a finished seek or spin-up.
StayPaused ==
  /\ drive.state = "Paused"
  /\ IF ~drive.done /\ ~IntQueued
       THEN Raise(Int2) /\ drive' = [drive EXCEPT !.done = TRUE]
            /\ UNCHANGED <<buffer, dataFifo, panic>>
       ELSE MoveDrive(drive)

StayStopped == drive.state = "Stopped" /\ MoveDrive(drive)

AdvanceDriveState ==
  /\ panic = "no" /\ phase = "host" /\ phase' = "command"
  /\ \/ StayStopped \/ CountDown \/ SpinUpDone \/ SeekDone
     \/ ReadDataSector \/ ProgressReadState
     \/ StartPlaying \/ ProgressPlayState \/ StayPaused
  /\ UNCHANGED <<cmd, enabled, prevPending, istat, handler, params, mode, seekLoc,
                 disc>>

-----------------------------------------------------------------------------
(***************************************************************************)
(* The command's half of a clock.  A handler answers with INT3 (or INT5)   *)
(* whatever interrupt is queued by then, and names the next state of cmd.  *)
(***************************************************************************)
Answer(level, next) == Raise(level) /\ cmd' = next

Second(c, n) == Cmd("GeneratingSecondResponse", c, n)

ExecuteInit ==
  /\ mode' = DefaultMode
  /\ drive' = CASE drive.state = "Stopped"    -> SpinningUp(SpinUp, 0, "none")
                [] drive.state = "SpinningUp" -> SpinningUp(drive.cycles, 0, "none")
                [] OTHER                      -> Paused(drive.time)
  /\ Answer(Int3, IF IsStoppedOrSpinningUp THEN Idle ELSE Second("Init", GetIdSecond))
  /\ UNCHANGED <<seekLoc, panic>>

ExecuteSetMode ==
  /\ IF params THEN Answer(Int3, Idle) /\ mode' \in Modes
               ELSE Answer(Int5, Idle) /\ UNCHANGED mode
  /\ UNCHANGED <<drive, seekLoc, panic>>

ExecutePause ==
  /\ drive' = Paused(CurrentTime)
  /\ Answer(Int3, Second("Pause", SettleSectors * CyclesBetweenSectors(mode)))
  /\ UNCHANGED <<mode, seekLoc, panic>>

ExecuteStop ==
  /\ drive' = IF IsStoppedOrSpinningUp THEN drive ELSE Paused(drive.time)
  /\ Answer(Int3, Second("Stop", StopSecond))
  /\ UNCHANGED <<mode, seekLoc, panic>>

ExecuteMotorOn ==
  /\ IF drive.state = "Stopped"
       THEN Answer(Int3, Idle) /\ drive' = SpinningUp(SpinUp, 0, "none")
       ELSE Answer(Int5, Idle) /\ UNCHANGED drive
  /\ UNCHANGED <<mode, seekLoc, panic>>

\* The position the host asks for may be no position at all.
ExecuteSetLoc ==
  /\ \/ params /\ Answer(Int3, Idle) /\ \E t \in Times : seekLoc' = {t}
     \/ Answer(Int5, Idle) /\ UNCHANGED seekLoc
  /\ UNCHANGED <<drive, mode, panic>>

ExecuteSeek ==
  /\ Answer(Int3, Idle)
  /\ drive' = DriveStateFor(SeekTarget, "Pause") /\ seekLoc' = {}
  /\ UNCHANGED <<mode, panic>>

ExecuteRead ==
  /\ IF ~disc
       THEN Answer(Int5, Idle) /\ UNCHANGED <<drive, seekLoc>>
       ELSE /\ Answer(Int3, Idle) /\ seekLoc' = {}
            /\ drive' = IF drive.state = "Reading" /\ drive.time = SeekTarget
                          THEN drive ELSE DriveStateFor(SeekTarget, "Read")
  /\ UNCHANGED <<mode, panic>>

\* With a track parameter playback starts at that track and the location of
\* the last SetLoc stays unprocessed.
ExecutePlay ==
  /\ IF ~disc
       THEN Answer(Int5, Idle) /\ UNCHANGED <<drive, seekLoc>>
       ELSE /\ Answer(Int3, Idle)
            /\ \/ drive' = DriveStateFor(SeekTarget, "Play") /\ seekLoc' = {}
               \/ /\ params /\ UNCHANGED seekLoc
                  /\ \E t \in TrackStarts : drive' = DriveStateFor(t, "Play")
  /\ UNCHANGED <<mode, panic>>

\* The rest only report: what each needs for INT3 rather than INT5.
ReportCommands ==
  {"Demute", "GetLocL", "GetLocP", "GetStat", "GetTN", "Mute", "SetFilter",
   "Test"}

Answerable(c) ==
  CASE c \in {"SetFilter", "Test"} -> params
    [] c = "GetLocL"               -> drive.state = "Reading"
    [] c = "GetLocP"               -> disc
    [] OTHER                       -> TRUE

ExecuteReport(c) ==
  /\ c \in ReportCommands
  /\ Answer(IF Answerable(c) THEN Int3 ELSE Int5, Idle)
  /\ UNCHANGED <<drive, mode, seekLoc, panic>>

\* GetTD of a track the disc does not have is an error, without a disc it is
\* not implemented.
ExecuteGetTD ==
  /\ IF params /\ ~disc
       THEN panic' = "todo" /\ UNCHANGED <<flags, cmd>>
       ELSE UNCHANGED panic /\ \/ params /\ Answer(Int3, Idle)
                               \/ Answer(Int5, Idle)
  /\ UNCHANGED <<drive, mode, seekLoc>>

ExecuteWithSecondResponse(c) ==
  /\ \/ c = "GetId"   /\ Answer(Int3, Second("GetId", GetIdSecond))
     \/ c = "ReadToc" /\ Answer(Int3, Second("ReadToc", ReadTocSecond))
  /\ UNCHANGED <<drive, mode, seekLoc, panic>>

\* execute_command resets the parameter FIFO behind every handler.
ExecuteCommand(c) ==
  /\ \/ c = "Init" /\ ExecuteInit
     \/ c = "SetMode" /\ ExecuteSetMode
     \/ c = "Pause" /\ ExecutePause
     \/ c = "Stop" /\ ExecuteStop
     \/ c = "MotorOn" /\ ExecuteMotorOn
     \/ c = "SetLoc" /\ ExecuteSetLoc
     \/ c = "Seek" /\ ExecuteSeek
     \/ c = "Read" /\ ExecuteRead
     \/ c = "Play" /\ ExecutePlay
     \/ c = "GetTD" /\ ExecuteGetTD
     \/ ExecuteReport(c)
     \/ ExecuteWithSecondResponse(c)
  /\ params' = FALSE

\* generate_second_response; Stop stops the drive only now.
GenerateSecondResponse ==
  /\ Answer(IF cmd.command = "GetId" /\ ~disc THEN Int5 ELSE Int2, Idle)
  /\ drive' = IF cmd.command = "Stop" THEN Stopped ELSE drive
  /\ UNCHANGED <<params, mode, seekLoc, panic>>

KeepWaiting(c) ==
  cmd' = c /\ UNCHANGED <<flags, drive, params, mode, seekLoc, panic>>

AdvanceCommand ==
  \/ cmd.state = "Idle" /\ KeepWaiting(Idle)
  \/ /\ cmd.state = "CommandQueued"
     /\ KeepWaiting(IF IntQueued THEN cmd
                    ELSE Cmd("ReceivingCommand", cmd.command, cmd.cycles))
  \/ /\ cmd.state \in {"ReceivingCommand", "GeneratingSecondResponse"}
     /\ cmd.cycles # 1
     /\ KeepWaiting([cmd EXCEPT !.cycles = @ - 1])
  \/ /\ cmd.state = "ReceivingCommand" /\ cmd.cycles = 1
     /\ ExecuteCommand(cmd.command)
  \/ /\ cmd.state = "GeneratingSecondResponse" /\ cmd.cycles = 1
     /\ IF IntQueued THEN KeepWaiting(cmd) ELSE GenerateSecondResponse

\* The end of CdController::clock: I_STAT is set on a rising edge only.
FlagInterrupt ==
  /\ istat' = (istat \/ (Pending' /\ ~prevPending))
  /\ prevPending' = Pending'

AdvanceCommandState ==
  /\ panic = "no" /\ phase = "command" /\ phase' = "host"
  /\ AdvanceCommand
  /\ UNCHANGED hostVars
  /\ FlagInterrupt
  /\ UNCHANGED <<disc, buffer, dataFifo>>

-----------------------------------------------------------------------------
(***************************************************************************)
(* The host, between two clocks.                                           *)
(***************************************************************************)
Host == panic = "no" /\ phase = "host" /\ UNCHANGED <<phase, panic>>

\* write_command: replaces whatever command is in progress, a second response
\* it still owes included.
WriteCommand(c) ==
  LET received == CASE c \in {"Init", "ReadToc"}  -> ReceiveInit
                    [] drive.state = "Stopped"    -> ReceiveStopped
                    [] OTHER                      -> ReceiveRunning
  IN  /\ Host
      /\ cmd' = Cmd(IF IntQueued THEN "CommandQueued" ELSE "ReceivingCommand",
                    c, received)
      /\ UNCHANGED <<drive, cdVars, params, mode, seekLoc, disc,
                     buffer, dataFifo>>

WriteParameters ==
  /\ Host
  /\ params' = TRUE
  /\ UNCHANGED <<cmd, drive, cdVars, mode, seekLoc, disc, buffer,
                 dataFifo>>

\* Mutant: a falling edge between two clocks goes unseen.
KeepEdge == UNCHANGED prevPending

\* A falling edge is forgotten, so that the next interrupt is a rising one.
ForgetEdge == prevPending' = (prevPending /\ Pending')

WriteEnabled(e) ==
  /\ Host
  /\ enabled' = e /\ UNCHANGED flags
  /\ ForgetEdge
  /\ UNCHANGED <<cmd, drive, istat, handler, params, mode, seekLoc,
                 disc, buffer, dataFifo>>

\* write_flags: the bits of a write that are set are acknowledged, any of them
\* or none, and bit 6 resets the parameters.  The handler of the host may return
\* after it, or go on.
WriteFlags(acked, resetParameters) ==
  /\ Host
  /\ flags' = flags \ acked /\ UNCHANGED enabled
  /\ ForgetEdge
  /\ handler' \in {handler, FALSE}
  /\ params' = (params /\ ~resetParameters)
  /\ UNCHANGED <<cmd, drive, istat, mode, seekLoc, disc, buffer,
                 dataFifo>>

\* The CPU enters its handler, which first acknowledges I_STAT.
EnterHandler ==
  /\ Host
  /\ istat /\ ~handler
  /\ istat' = FALSE /\ handler' = TRUE
  /\ UNCHANGED <<cmd, drive, flags, enabled, prevPending, params, mode, seekLoc,
                 disc, buffer, dataFifo>>

\* Mutant: the drive goes on as it was.
SwapDisc(d) ==
  /\ Host
  /\ disc' = d
  /\ Raise(Int5)
  /\ UNCHANGED <<cmd, drive, hostVars, prevPending, istat, params, mode, seekLoc,
                 buffer, dataFifo>>

\* change_disc: the user opens the shell, and closes it on disc d.
ChangeDisc(d) ==
  /\ Host
  /\ disc' = d
  /\ drive' = Stopped
  /\ Raise(Int5)
  /\ UNCHANGED <<cmd, hostVars, prevPending, istat, params, mode, seekLoc, buffer,
                 dataFifo>>

\* To acknowledge a flag that is not set does nothing.
HostNext ==
  \/ \E c \in Commands : WriteCommand(c)
  \/ WriteParameters
  \/ \E e \in {{}, Bits} : WriteEnabled(e)
  \/ \E acked \in SUBSET flags, r \in BOOLEAN : WriteFlags(acked, r)
  \/ EnterHandler

Next ==
  \/ AdvanceDriveState
  \/ AdvanceCommandState
  \/ HostNext
  \/ \E d \in BOOLEAN : ChangeDisc(d)

Spec == Init /\ [][Next]_vars

-----------------------------------------------------------------------------
(***************************************************************************)
(* Properties.                                                             *)
(***************************************************************************)
\* A SetLoc may name any position, but a drive that reads or plays has read the
\* sector before its head: the head is at most one sector past the disc.
\* The states an arm of advance_drive_state or advance_command_state counts
\* down.  Their counters are unsigned and the arms test for 1: a counter of 0
\* would wrap around and the drive would hang for a day.
CountingDrive ==
  {"SpinningUp", "Seeking", "PreparingToRead", "Reading", "PreparingToPlay", "Playing"}

CommandOK(c) ==
  /\ c \in [state : CommandStates, command : AllCommands, cycles : Nat]
  /\ c.state # "Idle" => c.cycles # 0

DriveOK(d) ==
  /\ d \in [state : DriveStates, time : Times, cycles : Nat,
            next : {"none", "Pause", "Read", "Play"}, done : BOOLEAN, report : Nat]
  /\ d.state \in CountingDrive => d.cycles # 0
  /\ d.state \in {"Reading", "Playing"} => d.time <= LastSector + 1
  /\ d.state = "Seeking" => d.next # "none"
  /\ d.state = "Playing" => d.report # 0

TypeOK ==
  /\ phase \in {"host", "command"}
  /\ CommandOK(cmd) /\ DriveOK(drive)
  /\ flags \subseteq Bits /\ enabled \subseteq Bits
  /\ prevPending \in BOOLEAN /\ istat \in BOOLEAN /\ handler \in BOOLEAN
  /\ params \in BOOLEAN /\ mode \in Mode
  /\ seekLoc \in {{}} \cup {{t} : t \in Times}
  /\ disc \in BOOLEAN
  /\ buffer \in {{}} \cup {{t} : t \in Sectors}
  /\ dataFifo \in {{}} \cup {{t} : t \in Sectors}
  /\ panic \in {"no", "todo", "end of disc"}

\* generate_second_response panics for a command without a second response.
SecondResponseExpected ==
  cmd.state = "GeneratingSecondResponse" =>
    cmd.command \in {"GetId", "Init", "Pause", "ReadToc", "Stop"}

\* Outside the handler of the CPU, an interrupt is pending that I_STAT does not
\* show and that will cause no further edge: the program never hears of it.
Lost == ~handler /\ Pending /\ prevPending /\ ~istat

\* Whatever the order in which the drive and commands raise interrupts and the
\* host masks, unmasks and acknowledges them, one is lost only by a write that
\* acknowledges some of the flags that are set and leaves others: these stay
\* pending without an edge (cd.rs:95), as when the drive adds the INT4 of the
\* end of the disc to an INT3 (audio.rs:135) and the host acknowledges INT3
\* alone.  A host that acknowledges every flag that is set loses none.
PartialAcknowledgement ==
  \E acked \in SUBSET flags, r \in BOOLEAN : WriteFlags(acked, r) /\ acked # flags

NoLostInterrupt == [][Lost' => Lost \/ PartialAcknowledgement]_vars

\* Reading and playing need a disc, and so does a drive on its way there.
DiscWhileReading ==
  \/ drive.state \in {"PreparingToRead", "Reading", "PreparingToPlay", "Playing"}
  \/ drive.state \in {"SpinningUp", "Seeking"} /\ drive.next \in {"Read", "Play"}
  => disc

\* The data-ready interrupt of a sector keeps its level and the data FIFO
\* keeps that sector until the host acknowledges it, however many sectors pass
\* under the head and whatever commands are written; opening the shell is the
\* exception.
DataReady == drive.state = "Reading" /\ flags = Int1

DataReadyKept ==
  [][DataReady =>
       \/ flags' = flags /\ dataFifo' = dataFifo
       \/ \E r \in BOOLEAN : WriteFlags(flags, r)
       \/ \E d \in BOOLEAN : ChangeDisc(d)]_vars

\* The sector the host gets is the last one the drive has read.
FreshSector == [][dataFifo' # dataFifo => dataFifo' = {drive.time - 1}]_vars

\* What the properties above rest on.
\* A clock that saw an interrupt pending is forgotten with it.
EdgeSeen == prevPending => Pending

\* No interrupt arrives while a command is received, unless the drive is
\* paused, stopped or playing.
QuietWhileReceiving ==
  /\ cmd.state = "ReceivingCommand"
  /\ drive.state \in {"SpinningUp", "Seeking", "PreparingToRead", "Reading"}
  => ~IntQueued

BufferedSector == drive.state = "Reading" => buffer = {drive.time - 1}

\* "The controller will not acccept a command if any interrupts are queued"
\* (cd.rs): no command is executed while the INT2 that ends a seek, a spin-up
\* or another command is unacknowledged, so that its INT3 or INT5 does not
\* merge with it.
Int2KeepsItsLevel ==
  [][AdvanceCommandState /\ flags = Int2 => flags' = flags]_vars
=============================================================================
