------------------------- MODULE CdController_proofs -------------------------
(***************************************************************************)
(* Proofs about CdController, for every disc, set of commands and number   *)
(* of cycles the assumptions allow.                                        *)
(***************************************************************************)
EXTENDS CdController, TLAPS

Times3 == {"Pause", "Read", "Play"}

-----------------------------------------------------------------------------
(***************************************************************************)
(* What the operators on drive states return.                              *)
(***************************************************************************)
LEMMA SettleIsPositive ==
  ASSUME NEW m \in Mode
  PROVE  /\ CyclesBetweenSectors(m) \in Positive
         /\ SettleSectors * CyclesBetweenSectors(m) \in Positive
<1> DEFINE a == SettleSectors
           b == CyclesBetweenSectors(m)
<1>1. a \in Positive /\ b \in Positive
  BY CdAssumptions DEF CyclesBetweenSectors, Mode, Positive
<1> HIDE DEF a, b
<1>2. a * b \in Positive
  BY <1>1 DEF Positive
<1> QED  BY <1>1, <1>2 DEF a, b

LEMMA SeekingIsOK ==
  ASSUME NEW from \in Times, NEW to \in Times, NEW next \in Times3
  PROVE  /\ DriveOK(Seeking(from, to, next))
         /\ Seeking(from, to, next).state = "Seeking"
         /\ Seeking(from, to, next).next = next
<1> DEFINE e == EstimateSeekCycles(from, to)
           cycles == IF e < MinSeek THEN MinSeek ELSE e
           d == Seeking(from, to, next)
<1>1. e \in Int
  <2> DEFINE distance == IF from < to THEN to - from ELSE from - to
             a == distance + SectorsPerCycle - 1
  <2>1. from \in Int /\ to \in Int
    BY CdAssumptions DEF Times
  <2>2. SectorsPerCycle \in Int /\ SectorsPerCycle > 0
    BY CdAssumptions DEF Positive
  <2>3. a \in Int
    BY <2>1, <2>2
  <2>4. e = IF from = to THEN 1 ELSE a \div SectorsPerCycle
    BY DEF EstimateSeekCycles
  <2> HIDE DEF e, a
  <2>5. a \div SectorsPerCycle \in Int
    BY <2>2, <2>3
  <2> QED  BY <2>4, <2>5
<1>2. d = [Drive("Seeking", to, cycles) EXCEPT !.next = next]
  BY DEF Seeking
<1> HIDE DEF e, d
<1>3. cycles \in Positive
  BY <1>1, CdAssumptions DEF Positive
<1> HIDE DEF cycles
<1>4. DriveOK(d) /\ d.state = "Seeking" /\ d.next = next
  BY <1>2, <1>3 DEF Drive, DriveOK, DriveStates, CountingDrive, Times3, Positive
<1> QED  BY <1>4 DEF d

LEMMA SpinningUpIsOK ==
  ASSUME NEW n \in Positive, NEW t \in Times, NEW next \in Times3 \cup {"none"}
  PROVE  /\ DriveOK(SpinningUp(n, t, next))
         /\ SpinningUp(n, t, next).state = "SpinningUp"
         /\ SpinningUp(n, t, next).next = next
BY DEF SpinningUp, Drive, DriveOK, DriveStates, CountingDrive, Times3, Positive

LEMMA PausedIsOK ==
  ASSUME NEW t \in Times
  PROVE  /\ DriveOK(Paused(t)) /\ Paused(t).state = "Paused"
         /\ DriveOK(PausedWithInt2(t)) /\ PausedWithInt2(t).state = "Paused"
         /\ DriveOK(Stopped) /\ Stopped.state = "Stopped"
<1>1. 0 \in Times
  BY CdAssumptions DEF Times
<1>2. DriveOK(Paused(t)) /\ Paused(t).state = "Paused"
  BY DEF Paused, Drive, DriveOK, DriveStates, CountingDrive
<1>3. DriveOK(PausedWithInt2(t)) /\ PausedWithInt2(t).state = "Paused"
  BY DEF PausedWithInt2, Paused, Drive, DriveOK, DriveStates, CountingDrive
<1>4. DriveOK(Stopped) /\ Stopped.state = "Stopped"
  BY <1>1 DEF Stopped, Drive, DriveOK, DriveStates, CountingDrive
<1> QED  BY <1>2, <1>3, <1>4

LEMMA DriveStateForIsOK ==
  ASSUME TypeOK, NEW to \in Times, NEW next \in Times3
  PROVE  /\ DriveOK(DriveStateFor(to, next))
         /\ DriveStateFor(to, next).state \in {"SpinningUp", "Seeking"}
         /\ DriveStateFor(to, next).next = next
<1>1. drive.time \in Times /\ drive.cycles \in Nat /\ drive.state \in DriveStates
  BY DEF TypeOK, DriveOK
<1>2. CASE drive.state = "Stopped"
  BY <1>2, SpinningUpIsOK, CdAssumptions DEF DriveStateFor
<1>3. CASE drive.state = "SpinningUp"
  <2>1. drive.cycles \in Positive
    BY <1>1, <1>3 DEF TypeOK, DriveOK, CountingDrive, Positive
  <2> QED  BY <1>3, <2>1, SpinningUpIsOK DEF DriveStateFor
<1>4. CASE drive.state \notin {"Stopped", "SpinningUp"}
  BY <1>1, <1>4, SeekingIsOK DEF DriveStateFor
<1> QED  BY <1>2, <1>3, <1>4

LEMMA SeekTargetIsATime ==
  ASSUME TypeOK
  PROVE  SeekTarget \in Times /\ CurrentTime \in Times
<1>1. CurrentTime \in Times
  <2>1. 0 \in Times
    BY CdAssumptions DEF Times
  <2>2. drive.time \in Times
    BY DEF TypeOK, DriveOK
  <2> QED  BY <2>1, <2>2 DEF CurrentTime
<1>2. CASE seekLoc = {}
  BY <1>1, <1>2 DEF SeekTarget
<1>3. CASE seekLoc # {}
  <2>1. PICK t \in Times : seekLoc = {t}
    BY <1>3 DEF TypeOK
  <2> QED  BY <1>1, <1>3, <2>1 DEF SeekTarget
<1> QED  BY <1>2, <1>3

LEMMA CommandIsOK ==
  ASSUME NEW c \in AllCommands, NEW n \in Positive
  PROVE  /\ CommandOK(Idle) /\ Idle.state = "Idle"
         /\ CommandOK(Second(c, n)) /\ Second(c, n).state = "GeneratingSecondResponse"
         /\ Second(c, n).command = c
         /\ \A s \in CommandStates : /\ CommandOK(Cmd(s, c, n))
                                     /\ Cmd(s, c, n).state = s
                                     /\ Cmd(s, c, n).command = c
BY DEF Idle, Second, Cmd, CommandOK, CommandStates, AllCommands, Positive

-----------------------------------------------------------------------------
(***************************************************************************)
(* Type correctness.                                                       *)
(***************************************************************************)
SectorOption == {{}} \cup {{t} : t \in Sectors}

\* What a step of the drive has to keep.
DriveHalfOK ==
  /\ DriveOK(drive) /\ flags \subseteq Bits
  /\ buffer \in SectorOption /\ dataFifo \in SectorOption
  /\ panic \in {"no", "todo", "end of disc"}

LEMMA LevelsAreBits ==
  /\ Int1 \subseteq Bits /\ Int2 \subseteq Bits /\ Int3 \subseteq Bits
  /\ Int4 \subseteq Bits /\ Int5 \subseteq Bits
BY DEF Int1, Int2, Int3, Int4, Int5, Bits

LEMMA ReadAudioSectorIsOK ==
  ASSUME TypeOK, NEW first \in BOOLEAN, ReadAudioSector(first),
         ~first => drive.state = "Playing"
  PROVE  DriveHalfOK'
<1>1. DriveHalfOK
  BY DEF TypeOK, DriveHalfOK, SectorOption
<1>2. drive.time \in Int /\ drive.time >= 0 /\ drive.time <= LastTime
      /\ LastSector \in Nat /\ LastTime \in Nat /\ LastSector < LastTime
      /\ drive.report \in Nat
  <2>1. drive.time \in Times /\ drive.report \in Nat
    BY <1>1 DEF DriveHalfOK, DriveOK
  <2>2. LastSector \in Nat /\ LastTime \in Nat /\ LastSector < LastTime
    BY CdAssumptions
  <2> QED  BY <2>1, <2>2 DEF Times
<1>3. CASE drive' = Stopped /\ UNCHANGED <<buffer, dataFifo, panic>>
           /\ (Raise(Int4) \/ Raise(Int5))
  <2>1. drive.time \in Times
    BY <1>1 DEF DriveHalfOK, DriveOK
  <2>2. DriveOK(drive')
    BY <1>3, <2>1, PausedIsOK
  <2> QED  BY <1>1, <1>3, <2>2, LevelsAreBits DEF DriveHalfOK, Raise
<1>4. CASE drive' = Paused(drive.time - 1) /\ drive.time > 0 /\ Raise(Int4)
           /\ UNCHANGED <<buffer, dataFifo, panic>>
  <2>1. drive.time - 1 \in Times
    BY <1>2, <1>4 DEF Times
  <2>2. DriveOK(drive')
    BY <1>4, <2>1, PausedIsOK
  <2> QED  BY <1>1, <1>4, <2>2, LevelsAreBits DEF DriveHalfOK, Raise
<1> DEFINE due == first \/ drive.report = 1
           left == (IF due THEN ReportInterval ELSE drive.report) - 1
<1>5. CASE /\ drive.time <= LastSector
           /\ IF due /\ mode.report THEN Raise(Int1) ELSE UNCHANGED flags
           /\ buffer' = {drive.time}
           /\ drive' = [Drive("Playing", drive.time + 1, SectorCycles[FALSE])
                          EXCEPT !.report = left]
           /\ UNCHANGED <<dataFifo, panic>>
  <2>1. left \in Positive
    <3>1. ReportInterval - 1 \in Positive
      BY CdAssumptions DEF Positive
    <3>2. drive.state = "Playing" => drive.report # 0
      BY <1>1 DEF DriveHalfOK, DriveOK
    <3>3. ~due => drive.report - 1 \in Positive
      BY <1>2, <3>2 DEF Positive
    <3> QED  BY <3>1, <3>3
  <2>2. drive.time + 1 \in Times /\ drive.time \in Sectors
        /\ drive.time + 1 <= LastSector + 1
    BY <1>2, <1>5 DEF Times, Sectors
  <2>3. SectorCycles[FALSE] \in Positive
    BY CdAssumptions
  <2>4. drive' = [Drive("Playing", drive.time + 1, SectorCycles[FALSE])
                    EXCEPT !.report = left]
    BY <1>5
  <2> HIDE DEF left
  <2>5. DriveOK(drive')
    BY <2>1, <2>2, <2>3, <2>4
    DEF Drive, DriveOK, DriveStates, CountingDrive, Positive
  <2>6. flags' \subseteq Bits
    BY <1>1, <1>5, LevelsAreBits DEF DriveHalfOK, Raise
  <2> QED  BY <1>1, <1>5, <2>2, <2>5, <2>6 DEF DriveHalfOK, SectorOption
<1>6. drive.time \in LateTrackStarts => drive.time > 0
  BY CdAssumptions
<1>7. CASE ~disc
  BY <1>3, <1>7 DEF ReadAudioSector
<1>8. CASE disc /\ drive.time > LastSector
  <2>1. drive.time > 0
    BY <1>2, <1>8
  <2>2. EndOfPlay(Paused(drive.time - 1)) \/ EndOfPlay(Stopped)
    BY <1>8 DEF ReadAudioSector
  <2> QED  BY <1>3, <1>4, <2>1, <2>2 DEF EndOfPlay
<1>9. CASE /\ disc /\ ~(drive.time > LastSector)
           /\ mode.autoPause /\ ~first /\ drive.time \in LateTrackStarts
  BY <1>4, <1>6, <1>9 DEF ReadAudioSector, EndOfPlay
<1>10. CASE /\ disc /\ ~(drive.time > LastSector)
            /\ ~(mode.autoPause /\ ~first /\ drive.time \in LateTrackStarts)
  <2>1. drive.time <= LastSector
    BY <1>2, <1>10
  <2> QED  BY <1>5, <1>10, <2>1 DEF ReadAudioSector
<1> QED  BY <1>7, <1>8, <1>9, <1>10

LEMMA DriveArmsAreOK ==
  ASSUME TypeOK,
         \/ StayStopped \/ CountDown \/ SpinUpDone \/ SeekDone
         \/ ReadDataSector \/ ProgressReadState
         \/ StartPlaying \/ ProgressPlayState \/ StayPaused
  PROVE  DriveHalfOK'
<1>1. DriveHalfOK /\ mode \in Mode
  BY DEF TypeOK, DriveHalfOK, SectorOption
<1>2. DriveOK(drive) /\ drive.time \in Times /\ drive.cycles \in Nat
  BY <1>1 DEF DriveHalfOK, DriveOK
<1>3. ASSUME NEW d, DriveOK(d), MoveDrive(d)
      PROVE  DriveHalfOK'
  BY <1>1, <1>3 DEF DriveHalfOK, MoveDrive
<1>4. CASE StayStopped
  BY <1>2, <1>3, <1>4 DEF StayStopped
<1>5. ASSUME drive.state \in CountingDrive, drive.cycles # 1
      PROVE  DriveOK([drive EXCEPT !.cycles = @ - 1])
  <2>1. drive.cycles - 1 \in Positive
    BY <1>2, <1>5 DEF DriveOK, Positive
  <2> DEFINE n == drive.cycles - 1
  <2> HIDE DEF n
  <2>2. DriveOK([drive EXCEPT !.cycles = n])
    BY <1>2, <2>1 DEF n, DriveOK, CountingDrive, Positive
  <2> QED  BY <2>2 DEF n
<1>6. CASE CountDown
  <2>1. DriveOK([drive EXCEPT !.cycles = @ - 1])
    BY <1>5, <1>6 DEF CountDown, CountingDrive
  <2> QED  BY <1>3, <1>6, <2>1 DEF CountDown
<1>7. CASE SpinUpDone
  <2>1. 0 \in Times
    BY CdAssumptions DEF Times
  <2>2. drive.next # "none" => drive.next \in Times3
    BY <1>2 DEF DriveOK, Times3
  <2>3. CASE drive.next = "none"
    BY <1>3, <1>7, <2>1, <2>3, PausedIsOK DEF SpinUpDone
  <2>4. CASE drive.next # "none"
    BY <1>2, <1>3, <1>7, <2>1, <2>2, <2>4, SeekingIsOK DEF SpinUpDone
  <2> QED  BY <2>3, <2>4
<1>8. CASE SeekDone
  <2> DEFINE settle == SettleSectors * CyclesBetweenSectors(mode)
  <2>1. settle \in Positive
    BY <1>1, SettleIsPositive
  <2>2. drive.next \in Times3
    BY <1>2, <1>8 DEF SeekDone, DriveOK, Times3
  <2>3. MoveDrive(CASE drive.next = "Pause" -> PausedWithInt2(drive.time)
                    [] drive.next = "Read"  -> Drive("PreparingToRead", drive.time, settle)
                    [] drive.next = "Play"  -> Drive("PreparingToPlay", drive.time, settle))
    BY <1>8 DEF SeekDone
  <2> HIDE DEF settle
  <2>4. CASE drive.next = "Pause"
    BY <1>2, <1>3, <2>3, <2>4, PausedIsOK
  <2>5. DriveOK(Drive("PreparingToRead", drive.time, settle))
        /\ DriveOK(Drive("PreparingToPlay", drive.time, settle))
    BY <1>2, <2>1 DEF Drive, DriveOK, DriveStates, CountingDrive, Positive
  <2>6. CASE drive.next = "Read"
    <3>1. MoveDrive(Drive("PreparingToRead", drive.time, settle))
      BY <2>3, <2>6
    <3> QED  BY <1>3, <2>5, <3>1
  <2>7. CASE drive.next = "Play"
    <3>1. MoveDrive(Drive("PreparingToPlay", drive.time, settle))
      BY <2>3, <2>7
    <3> QED  BY <1>3, <2>5, <3>1
  <2> QED  BY <2>2, <2>4, <2>6, <2>7 DEF Times3
<1>9. CASE ReadDataSector
  <2>1. CASE ~disc
    <3>1. DriveOK(drive')
      BY <1>2, <1>9, <2>1, PausedIsOK DEF ReadDataSector
    <3> QED  BY <1>1, <1>9, <2>1, <3>1, LevelsAreBits DEF ReadDataSector, Raise, DriveHalfOK
  <2>2. CASE disc /\ drive.time > LastSector
    BY <1>1, <1>9, <2>2 DEF ReadDataSector, Abort, DriveHalfOK
  <2>3. CASE disc /\ ~(drive.time > LastSector)
    <3>1. drive.time \in Sectors /\ drive.time + 1 \in Times
          /\ drive.time + 1 <= LastSector + 1
      <4>1. LastSector \in Nat /\ LastTime \in Nat /\ LastSector < LastTime
        BY CdAssumptions
      <4> QED  BY <1>2, <2>3, <4>1 DEF Times, Sectors
    <3>2. CyclesBetweenSectors(mode) \in Positive
      BY <1>1, SettleIsPositive
    <3> DEFINE done == mode.xa /\ drive.time \in XaSectors
    <3>3. done \in BOOLEAN
      BY <1>1 DEF Mode
    <3>4. drive' = [Drive("Reading", drive.time + 1, CyclesBetweenSectors(mode))
                      EXCEPT !.done = done]
      BY <1>9, <2>3 DEF ReadDataSector
    <3> HIDE DEF done
    <3>5. DriveOK(drive')
      BY <3>1, <3>2, <3>3, <3>4 DEF Drive, DriveOK, DriveStates, CountingDrive, Positive
    <3> QED  BY <1>1, <1>9, <2>3, <3>1, <3>5 DEF ReadDataSector, DriveHalfOK, SectorOption
  <2> QED  BY <2>1, <2>2, <2>3
<1>10. CASE ProgressReadState
  <2> DEFINE d == [drive EXCEPT !.cycles = @ - 1]
             done == drive.done \/ MayRaiseInt1
  <2>1. DriveOK(d)
    BY <1>5, <1>10 DEF ProgressReadState, CountingDrive
  <2>2. drive' = [d EXCEPT !.done = done]
    BY <1>2, <1>10 DEF ProgressReadState, DriveOK
  <2>3. done \in BOOLEAN
    OBVIOUS
  <2> HIDE DEF d, done
  <2>4. DriveOK(drive')
    BY <2>1, <2>2, <2>3 DEF DriveOK
  <2> QED
    BY <1>1, <1>10, <2>4, LevelsAreBits DEF ProgressReadState, Raise, DriveHalfOK
<1>11. CASE StartPlaying
  BY <1>11, ReadAudioSectorIsOK DEF StartPlaying
<1>12. CASE ProgressPlayState
  <2>1. CASE drive.cycles = 1
    BY <1>12, <2>1, ReadAudioSectorIsOK DEF ProgressPlayState
  <2>2. CASE drive.cycles # 1
    BY <1>3, <1>5, <1>12, <2>2 DEF ProgressPlayState, CountingDrive
  <2> QED  BY <2>1, <2>2
<1>13. CASE StayPaused
  <2>1. DriveOK([drive EXCEPT !.done = TRUE])
    BY <1>2 DEF DriveOK
  <2> QED
    BY <1>1, <1>2, <1>3, <1>13, <2>1, LevelsAreBits DEF StayPaused, Raise, DriveHalfOK
<1> QED
  BY <1>4, <1>6, <1>7, <1>8, <1>9, <1>10, <1>11, <1>12, <1>13

\* What a step of the command has to keep.
CommandHalfOK ==
  /\ CommandOK(cmd) /\ DriveOK(drive) /\ flags \subseteq Bits
  /\ params \in BOOLEAN /\ mode \in Mode
  /\ seekLoc \in {{}} \cup {{t} : t \in Times}
  /\ panic \in {"no", "todo", "end of disc"}

LEMMA AnswerIsOK ==
  ASSUME TypeOK, NEW level, level \subseteq Bits, NEW next, CommandOK(next),
         Answer(level, next)
  PROVE  CommandOK(cmd') /\ flags' \subseteq Bits
BY DEF Answer, Raise, TypeOK

LEMMA ExecuteCommandIsOK ==
  ASSUME TypeOK, NEW c \in AllCommands, ExecuteCommand(c)
  PROVE  CommandHalfOK'
<1>1. CommandHalfOK
  BY DEF TypeOK, CommandHalfOK
<1>2. params' = FALSE
  BY DEF ExecuteCommand
<1>3. CommandOK(Idle)
  BY CdAssumptions, CommandIsOK DEF AllCommands
<1>4. DriveOK(drive) /\ CurrentTime \in Times /\ SeekTarget \in Times /\ drive.time \in Times
  BY SeekTargetIsATime DEF TypeOK, DriveOK
<1>5. drive.state = "SpinningUp" => drive.cycles \in Positive
  BY DEF TypeOK, DriveOK, CountingDrive, Positive
<1>6. SpinUp \in Positive /\ GetIdSecond \in Positive /\ ReadTocSecond \in Positive
      /\ StopSecond \in Positive /\ 0 \in Times
  BY CdAssumptions DEF Times
<1>7. DriveOK(SpinningUp(SpinUp, 0, "none"))
  BY <1>6, SpinningUpIsOK
<1>8. CASE c = "Init" /\ ExecuteInit
  <2>1. mode' \in Mode
    BY <1>8 DEF ExecuteInit, DefaultMode, Mode
  <2>2. DriveOK(drive')
    <3>1. drive.state = "SpinningUp" => DriveOK(SpinningUp(drive.cycles, 0, "none"))
      BY <1>5, <1>6, SpinningUpIsOK
    <3>2. DriveOK(Paused(drive.time))
      BY <1>4, PausedIsOK
    <3> QED  BY <1>7, <1>8, <3>1, <3>2 DEF ExecuteInit
  <2>3. CommandOK(cmd') /\ flags' \subseteq Bits
    <3>1. CommandOK(Second("Init", GetIdSecond))
      BY <1>6, CommandIsOK DEF AllCommands
    <3>2. Answer(Int3, Idle) \/ Answer(Int3, Second("Init", GetIdSecond))
      BY <1>8 DEF ExecuteInit
    <3> QED  BY <1>3, <3>1, <3>2, AnswerIsOK, LevelsAreBits
  <2> QED  BY <1>1, <1>2, <1>8, <2>1, <2>2, <2>3 DEF ExecuteInit, CommandHalfOK
<1>9. CASE c = "SetMode" /\ ExecuteSetMode
  <2>1. mode' \in Mode
    BY <1>1, <1>9, CdAssumptions DEF ExecuteSetMode, CommandHalfOK
  <2>2. Answer(Int3, Idle) \/ Answer(Int5, Idle)
    BY <1>9 DEF ExecuteSetMode
  <2>3. CommandOK(cmd') /\ flags' \subseteq Bits
    BY <1>3, <2>2, AnswerIsOK, LevelsAreBits
  <2> QED  BY <1>1, <1>2, <1>9, <2>1, <2>3 DEF ExecuteSetMode, CommandHalfOK
<1>10. CASE c = "Pause" /\ ExecutePause
  <2> DEFINE second == Second("Pause", SettleSectors * CyclesBetweenSectors(mode))
  <2>1. CommandOK(second)
    <3> DEFINE settle == SettleSectors * CyclesBetweenSectors(mode)
    <3>1. settle \in Positive
      BY <1>1, SettleIsPositive DEF CommandHalfOK
    <3>2. "Pause" \in AllCommands
      BY DEF AllCommands
    <3> HIDE DEF settle
    <3>3. CommandOK(Second("Pause", settle))
      BY <3>1, <3>2, CommandIsOK
    <3> QED
      BY <3>3 DEF settle
  <2>2. Answer(Int3, second)
    BY <1>10 DEF ExecutePause
  <2>3. CommandOK(cmd') /\ flags' \subseteq Bits
    BY <2>1, <2>2, AnswerIsOK, LevelsAreBits
  <2>4. DriveOK(drive')
    BY <1>4, <1>10, PausedIsOK DEF ExecutePause
  <2> QED  BY <1>1, <1>2, <1>10, <2>3, <2>4 DEF ExecutePause, CommandHalfOK
<1>11. CASE c = "Stop" /\ ExecuteStop
  <2>1. CommandOK(Second("Stop", StopSecond))
    BY <1>6, CommandIsOK DEF AllCommands
  <2>2. CommandOK(cmd') /\ flags' \subseteq Bits
    BY <1>11, <2>1, AnswerIsOK, LevelsAreBits DEF ExecuteStop
  <2>3. DriveOK(drive')
    BY <1>4, <1>11, PausedIsOK DEF ExecuteStop
  <2> QED  BY <1>1, <1>2, <1>11, <2>2, <2>3 DEF ExecuteStop, CommandHalfOK
<1>12. CASE c = "MotorOn" /\ ExecuteMotorOn
  <2>1. Answer(Int3, Idle) \/ Answer(Int5, Idle)
    BY <1>12 DEF ExecuteMotorOn
  <2>2. CommandOK(cmd') /\ flags' \subseteq Bits
    BY <1>3, <2>1, AnswerIsOK, LevelsAreBits
  <2>3. DriveOK(drive')
    BY <1>4, <1>7, <1>12 DEF ExecuteMotorOn
  <2> QED  BY <1>1, <1>2, <1>12, <2>2, <2>3 DEF ExecuteMotorOn, CommandHalfOK
<1>13. CASE c = "SetLoc" /\ ExecuteSetLoc
  <2>1. Answer(Int3, Idle) \/ Answer(Int5, Idle)
    BY <1>13 DEF ExecuteSetLoc
  <2>2. CommandOK(cmd') /\ flags' \subseteq Bits
    BY <1>3, <2>1, AnswerIsOK, LevelsAreBits
  <2> QED  BY <1>1, <1>2, <1>13, <2>2 DEF ExecuteSetLoc, CommandHalfOK
<1>14. CASE c = "Seek" /\ ExecuteSeek
  <2>1. DriveOK(drive')
    BY <1>4, <1>14, DriveStateForIsOK DEF ExecuteSeek, Times3
  <2>2. CommandOK(cmd') /\ flags' \subseteq Bits
    BY <1>3, <1>14, AnswerIsOK, LevelsAreBits DEF ExecuteSeek
  <2> QED  BY <1>1, <1>2, <1>14, <2>1, <2>2 DEF ExecuteSeek, CommandHalfOK
<1>15. CASE c = "Read" /\ ExecuteRead
  <2>1. DriveOK(DriveStateFor(SeekTarget, "Read"))
    BY <1>4, DriveStateForIsOK DEF Times3
  <2>2. DriveOK(drive') /\ seekLoc' \in {{}, seekLoc}
    BY <1>4, <1>15, <2>1 DEF ExecuteRead
  <2>3. Answer(Int3, Idle) \/ Answer(Int5, Idle)
    BY <1>15 DEF ExecuteRead
  <2>4. CommandOK(cmd') /\ flags' \subseteq Bits
    BY <1>3, <2>3, AnswerIsOK, LevelsAreBits
  <2> QED  BY <1>1, <1>2, <1>15, <2>2, <2>4 DEF ExecuteRead, CommandHalfOK
<1>16. CASE c = "Play" /\ ExecutePlay
  <2>1. \A t \in TrackStarts \cup {SeekTarget} : DriveOK(DriveStateFor(t, "Play"))
    <3>1. TrackStarts \subseteq Times
      BY CdAssumptions DEF Sectors, Times
    <3> QED  BY <1>4, <3>1, DriveStateForIsOK DEF Times3
  <2>2. DriveOK(drive') /\ seekLoc' \in {{}, seekLoc}
    BY <1>4, <1>16, <2>1 DEF ExecutePlay
  <2>3. Answer(Int3, Idle) \/ Answer(Int5, Idle)
    BY <1>16 DEF ExecutePlay
  <2>4. CommandOK(cmd') /\ flags' \subseteq Bits
    BY <1>3, <2>3, AnswerIsOK, LevelsAreBits
  <2> QED  BY <1>1, <1>2, <1>16, <2>2, <2>4 DEF ExecutePlay, CommandHalfOK
<1>17. CASE c = "GetTD" /\ ExecuteGetTD
  <2>1. CASE params /\ ~disc
    BY <1>1, <1>2, <1>17, <2>1 DEF ExecuteGetTD, CommandHalfOK
  <2>2. CASE ~(params /\ ~disc)
    <3>1. Answer(Int3, Idle) \/ Answer(Int5, Idle)
      BY <1>17, <2>2 DEF ExecuteGetTD
    <3>2. CommandOK(cmd') /\ flags' \subseteq Bits
      BY <1>3, <3>1, AnswerIsOK, LevelsAreBits
    <3> QED  BY <1>1, <1>2, <1>17, <2>2, <3>2 DEF ExecuteGetTD, CommandHalfOK
  <2> QED  BY <2>1, <2>2
<1>18. CASE ExecuteReport(c)
  <2>1. Answer(Int3, Idle) \/ Answer(Int5, Idle)
    BY <1>18 DEF ExecuteReport
  <2>2. CommandOK(cmd') /\ flags' \subseteq Bits
    BY <1>3, <2>1, AnswerIsOK, LevelsAreBits
  <2> QED  BY <1>1, <1>2, <1>18, <2>2 DEF ExecuteReport, CommandHalfOK
<1>19. CASE ExecuteWithSecondResponse(c)
  <2>1. CommandOK(Second("GetId", GetIdSecond)) /\ CommandOK(Second("ReadToc", ReadTocSecond))
    BY <1>6, CommandIsOK DEF AllCommands
  <2>2. Answer(Int3, Second("GetId", GetIdSecond)) \/ Answer(Int3, Second("ReadToc", ReadTocSecond))
    BY <1>19 DEF ExecuteWithSecondResponse
  <2>3. CommandOK(cmd') /\ flags' \subseteq Bits
    BY <2>1, <2>2, AnswerIsOK, LevelsAreBits
  <2> QED  BY <1>1, <1>2, <1>19, <2>3 DEF ExecuteWithSecondResponse, CommandHalfOK
<1> QED
  BY <1>8, <1>9, <1>10, <1>11, <1>12, <1>13, <1>14, <1>15, <1>16, <1>17, <1>18, <1>19
  DEF ExecuteCommand

LEMMA AdvanceCommandIsOK ==
  ASSUME TypeOK, AdvanceCommand
  PROVE  CommandHalfOK'
<1>1. CommandHalfOK
  BY DEF TypeOK, CommandHalfOK
<1>2. CommandOK(cmd) /\ cmd.command \in AllCommands /\ cmd.cycles \in Nat
  BY DEF TypeOK, CommandOK
<1>3. CommandOK(Idle)
  BY CdAssumptions, CommandIsOK DEF AllCommands
<1>4. ASSUME NEW c, CommandOK(c), KeepWaiting(c)
      PROVE  CommandHalfOK'
  BY <1>1, <1>4 DEF KeepWaiting, CommandHalfOK
<1>5. CASE cmd.state = "Idle" /\ KeepWaiting(Idle)
  BY <1>3, <1>4, <1>5
<1>6. CASE /\ cmd.state = "CommandQueued"
           /\ KeepWaiting(IF IntQueued THEN cmd
                          ELSE Cmd("ReceivingCommand", cmd.command, cmd.cycles))
  <2>1. cmd.cycles \in Positive
    BY <1>2, <1>6 DEF CommandOK, Positive
  <2>2. CommandOK(Cmd("ReceivingCommand", cmd.command, cmd.cycles))
    BY <1>2, <2>1, CommandIsOK DEF CommandStates
  <2> QED  BY <1>2, <1>4, <1>6, <2>2
<1>7. CASE /\ cmd.state \in {"ReceivingCommand", "GeneratingSecondResponse"}
           /\ cmd.cycles # 1
           /\ KeepWaiting([cmd EXCEPT !.cycles = @ - 1])
  <2> DEFINE n == cmd.cycles - 1
  <2>1. n \in Positive
    BY <1>2, <1>7 DEF CommandOK, Positive
  <2> HIDE DEF n
  <2>2. CommandOK([cmd EXCEPT !.cycles = n])
    BY <1>2, <2>1 DEF CommandOK, Positive
  <2> QED  BY <1>4, <1>7, <2>2 DEF n
<1>8. CASE cmd.state = "ReceivingCommand" /\ ExecuteCommand(cmd.command)
  BY <1>2, <1>8, ExecuteCommandIsOK
<1>9. CASE /\ cmd.state = "GeneratingSecondResponse"
           /\ IF IntQueued THEN KeepWaiting(cmd) ELSE GenerateSecondResponse
  <2>1. CASE IntQueued
    BY <1>2, <1>4, <1>9, <2>1
  <2>2. CASE ~IntQueued
    <3>1. Answer(Int2, Idle) \/ Answer(Int5, Idle)
      BY <1>9, <2>2 DEF GenerateSecondResponse
    <3>2. CommandOK(cmd') /\ flags' \subseteq Bits
      BY <1>3, <3>1, AnswerIsOK, LevelsAreBits
    <3>3. DriveOK(Stopped)
      <4>1. 0 \in Times
        BY CdAssumptions DEF Times
      <4> QED  BY <4>1, PausedIsOK
    <3> QED  BY <1>1, <1>9, <2>2, <3>2, <3>3 DEF GenerateSecondResponse, CommandHalfOK
  <2> QED  BY <2>1, <2>2
<1> QED  BY <1>5, <1>6, <1>7, <1>8, <1>9 DEF AdvanceCommand

LEMMA ReceiveTimesArePositive ==
  \A c : (CASE c \in {"Init", "ReadToc"}  -> ReceiveInit
           [] drive.state = "Stopped"    -> ReceiveStopped
           [] OTHER                      -> ReceiveRunning) \in Positive
BY CdAssumptions

LEMMA WriteCommandIsOK ==
  ASSUME NEW c \in AllCommands, WriteCommand(c)
  PROVE  CommandOK(cmd')
<1> DEFINE received == CASE c \in {"Init", "ReadToc"}  -> ReceiveInit
                         [] drive.state = "Stopped"    -> ReceiveStopped
                         [] OTHER                      -> ReceiveRunning
<1>1. cmd' = Cmd(IF IntQueued THEN "CommandQueued" ELSE "ReceivingCommand", c, received)
  BY DEF WriteCommand
<1>2. received \in Positive
  BY ReceiveTimesArePositive
<1> HIDE DEF received
<1> QED  BY <1>1, <1>2, CommandIsOK DEF CommandStates

LEMMA TypeInit == Init => TypeOK
<1> SUFFICES ASSUME Init PROVE TypeOK
  OBVIOUS
<1>1. 0 \in Times
  BY CdAssumptions DEF Times
<1>2. CommandOK(cmd) /\ DriveOK(drive)
  BY <1>1, PausedIsOK, CommandIsOK, CdAssumptions DEF Init, AllCommands
<1> QED  BY <1>2 DEF Init, TypeOK, DefaultMode, Mode

LEMMA TypeStep == TypeOK /\ [Next]_vars => TypeOK'
<1> SUFFICES ASSUME TypeOK, [Next]_vars PROVE TypeOK'
  OBVIOUS
<1>1. CASE AdvanceDriveState
  <2>1. DriveHalfOK'
    BY <1>1, DriveArmsAreOK DEF AdvanceDriveState
  <2> QED  BY <1>1, <2>1 DEF AdvanceDriveState, DriveHalfOK, TypeOK, SectorOption
<1>2. CASE AdvanceCommandState
  <2>1. CommandHalfOK'
    BY <1>2, AdvanceCommandIsOK DEF AdvanceCommandState
  <2>2. istat' \in BOOLEAN /\ prevPending' \in BOOLEAN
    BY <1>2 DEF AdvanceCommandState, FlagInterrupt, Pending
  <2> QED
    BY <1>2, <2>1, <2>2 DEF AdvanceCommandState, hostVars, CommandHalfOK, TypeOK
<1>3. ASSUME NEW c \in Commands, WriteCommand(c) PROVE TypeOK'
  <2>1. c \in AllCommands
    BY CdAssumptions
  <2>2. CommandOK(cmd')
    BY <1>3, <2>1, WriteCommandIsOK
  <2> QED  BY <1>3, <2>2 DEF WriteCommand, Host, cdVars, TypeOK
<1>4. CASE WriteParameters
  BY <1>4 DEF WriteParameters, Host, cdVars, TypeOK
<1>5. ASSUME NEW e \in {{}, Bits}, WriteEnabled(e) PROVE TypeOK'
  <2>1. prevPending' \in BOOLEAN
    BY <1>5 DEF WriteEnabled, ForgetEdge
  <2> QED  BY <1>5, <2>1 DEF WriteEnabled, Host, TypeOK
<1>6. ASSUME NEW acked \in SUBSET flags, NEW r \in BOOLEAN, WriteFlags(acked, r)
      PROVE  TypeOK'
  <2>1. prevPending' \in BOOLEAN /\ params' \in BOOLEAN
    BY <1>6 DEF WriteFlags, ForgetEdge
  <2> QED  BY <1>6, <2>1 DEF WriteFlags, Host, TypeOK
<1>7. CASE EnterHandler
  BY <1>7 DEF EnterHandler, Host, TypeOK
<1>8. ASSUME NEW d \in BOOLEAN, ChangeDisc(d) PROVE TypeOK'
  <2>1. DriveOK(Stopped)
    <3>1. 0 \in Times
      BY CdAssumptions DEF Times
    <3> QED  BY <3>1, PausedIsOK
  <2> QED  BY <1>8, <2>1, LevelsAreBits DEF ChangeDisc, Host, hostVars, Raise, TypeOK
<1>9. CASE UNCHANGED vars
  BY <1>9 DEF vars, cdVars, TypeOK
<1> QED  BY <1>1, <1>2, <1>3, <1>4, <1>5, <1>6, <1>7, <1>8, <1>9 DEF Next, HostNext

\* No counter of the drive or of the command ever reaches 0 (each arm of
\* advance_drive_state and advance_command_state tests for 1 and subtracts 1),
\* and the head of a drive that reads or plays is never further than one sector
\* past the disc, wherever a SetLoc made it seek.
THEOREM TypeInvariant == Spec => []TypeOK
BY TypeInit, TypeStep, PTL DEF Spec

-----------------------------------------------------------------------------
(***************************************************************************)
(* Interrupts and edges.                                                   *)
(***************************************************************************)
\* A clock raises interrupts and takes none back.
LEMMA DriveKeepsFlags ==
  ASSUME AdvanceDriveState
  PROVE  flags \subseteq flags'
<1>1. ASSUME NEW first \in BOOLEAN, ReadAudioSector(first)
      PROVE  flags \subseteq flags'
  BY <1>1 DEF ReadAudioSector, EndOfPlay, Raise
<1>2. CASE StayStopped \/ CountDown \/ SpinUpDone \/ SeekDone
  BY <1>2 DEF StayStopped, CountDown, SpinUpDone, SeekDone, MoveDrive
<1>3. CASE ReadDataSector \/ ProgressReadState
  BY <1>3 DEF ReadDataSector, ProgressReadState, Abort, Raise
<1>4. CASE StartPlaying \/ ProgressPlayState \/ StayPaused
  BY <1>1, <1>4 DEF StartPlaying, ProgressPlayState, StayPaused, MoveDrive, Raise
<1> QED  BY <1>2, <1>3, <1>4 DEF AdvanceDriveState

LEMMA CommandKeepsFlags ==
  ASSUME AdvanceCommand
  PROVE  flags \subseteq flags'
<1>1. ASSUME NEW c, ExecuteCommand(c)
      PROVE  flags \subseteq flags'
  BY <1>1 DEF ExecuteCommand, ExecuteInit, ExecuteSetMode, ExecutePause, ExecuteStop,
    ExecuteMotorOn, ExecuteSetLoc, ExecuteSeek, ExecuteRead, ExecutePlay, ExecuteGetTD,
    ExecuteReport, ExecuteWithSecondResponse, Answer, Raise
<1> QED
  BY <1>1 DEF AdvanceCommand, KeepWaiting, GenerateSecondResponse, Answer, Raise

\* A step keeps the edge a clock has seen together with its interrupt, and
\* loses no interrupt unless it acknowledges only some.
LEMMA EdgeStep ==
  EdgeSeen /\ [Next]_vars => EdgeSeen' /\ (Lost' => Lost \/ PartialAcknowledgement)
<1> DEFINE Kept == EdgeSeen' /\ (Lost' => Lost \/ PartialAcknowledgement)
<1> SUFFICES ASSUME EdgeSeen, [Next]_vars PROVE Kept
  OBVIOUS
<1> USE DEF Lost, EdgeSeen
<1>1. CASE AdvanceDriveState
  <2>1. Pending => Pending'
    BY <1>1, DriveKeepsFlags DEF AdvanceDriveState, Pending
  <2> QED  BY <1>1, <2>1 DEF AdvanceDriveState
<1>2. CASE AdvanceCommandState
  <2>1. FlagInterrupt /\ UNCHANGED handler
    BY <1>2 DEF AdvanceCommandState, hostVars
  <2>2. prevPending => Pending
    OBVIOUS
  <2> QED  BY <2>1, <2>2 DEF FlagInterrupt
<1>3. ASSUME NEW c \in Commands, WriteCommand(c) PROVE Kept
  BY <1>3 DEF WriteCommand, Host, cdVars, Pending
<1>4. CASE WriteParameters
  BY <1>4 DEF WriteParameters, Host, cdVars, Pending
<1>5. ASSUME NEW e \in {{}, Bits}, WriteEnabled(e) PROVE Kept
  BY <1>5 DEF WriteEnabled, ForgetEdge
<1>6. ASSUME NEW acked \in SUBSET flags, NEW r \in BOOLEAN, WriteFlags(acked, r)
      PROVE  Kept
  <2>1. CASE acked = flags
    <3>1. ~Pending'
      BY <1>6, <2>1 DEF WriteFlags, Pending
    <3> QED  BY <1>6, <3>1 DEF WriteFlags, ForgetEdge
  <2>2. CASE acked # flags
    BY <1>6, <2>2 DEF WriteFlags, ForgetEdge, PartialAcknowledgement
  <2> QED  BY <2>1, <2>2
<1>7. CASE EnterHandler
  BY <1>7 DEF EnterHandler, Pending
<1>8. ASSUME NEW d \in BOOLEAN, ChangeDisc(d) PROVE Kept
  <2>1. Pending => Pending'
    BY <1>8 DEF ChangeDisc, Host, hostVars, Raise, Pending
  <2> QED  BY <1>8, <2>1 DEF ChangeDisc, Host, hostVars
<1>9. CASE UNCHANGED vars
  BY <1>9 DEF vars, cdVars, Pending
<1> QED  BY <1>1, <1>2, <1>3, <1>4, <1>5, <1>6, <1>7, <1>8, <1>9 DEF Next, HostNext

\* An interrupt that is pending outside the handler of the CPU either shows in
\* I_STAT or has its rising edge before it, until a write acknowledges some of
\* several flags: write_enabled and write_flags forget an edge that fell between
\* two clocks.
THEOREM InterruptsAreNotLost == Spec => NoLostInterrupt
<1>1. Init => EdgeSeen
  BY DEF Init, EdgeSeen
<1>2. EdgeSeen /\ [Next]_vars => [Lost' => Lost \/ PartialAcknowledgement]_vars
  BY EdgeStep
<1> QED  BY <1>1, <1>2, EdgeStep, PTL DEF Spec, NoLostInterrupt

-----------------------------------------------------------------------------
(***************************************************************************)
(* The disc, second responses and the data FIFO.                           *)
(***************************************************************************)
ReadInv ==
  /\ TypeOK /\ SecondResponseExpected /\ DiscWhileReading
  /\ QuietWhileReceiving /\ BufferedSector

\* The drive's half of a clock.
LEMMA DriveReadStep ==
  ASSUME ReadInv, AdvanceDriveState
  PROVE  ReadInv' /\ (DataReady => UNCHANGED <<flags, dataFifo>>)
                  /\ (dataFifo' # dataFifo => dataFifo' = {drive.time - 1})
<1>1. TypeOK'
  BY TypeStep DEF ReadInv, Next
<1>2. SecondResponseExpected'
  BY DEF ReadInv, AdvanceDriveState, SecondResponseExpected
<1>3. drive \in [state : DriveStates, time : Times, cycles : Nat,
                 next : {"none", "Pause", "Read", "Play"}, done : BOOLEAN, report : Nat]
  BY DEF ReadInv, TypeOK, DriveOK
<1>4. drive.time \in Int
  BY <1>3, CdAssumptions DEF Times
<1> DEFINE Settled ==
      /\ DiscWhileReading' /\ QuietWhileReceiving' /\ BufferedSector'
      /\ (DataReady => UNCHANGED <<flags, dataFifo>>)
      /\ (dataFifo' # dataFifo => dataFifo' = {drive.time - 1})
<1>5. UNCHANGED <<cmd, disc>>
  BY DEF AdvanceDriveState
<1> SUFFICES Settled
  BY <1>1, <1>2 DEF ReadInv
<1>6. ASSUME drive'.state \in {"Stopped", "Paused"}, drive.state # "Reading",
             UNCHANGED dataFifo
      PROVE  Settled
  BY <1>6 DEF DiscWhileReading, QuietWhileReceiving, BufferedSector, DataReady
<1>7. CASE StayStopped
  BY <1>6, <1>7 DEF StayStopped, MoveDrive
<1>8. CASE CountDown
  <2>1. drive'.state = drive.state /\ drive'.next = drive.next /\ drive.state # "Reading"
        /\ UNCHANGED <<flags, dataFifo>>
    BY <1>3, <1>8 DEF CountDown, MoveDrive
  <2> QED
    BY <1>5, <2>1 DEF ReadInv, DiscWhileReading, QuietWhileReceiving, BufferedSector,
      DataReady, IntQueued
<1>9. CASE SpinUpDone
  <2>1. CASE drive.next = "none"
    <3>1. drive' = PausedWithInt2(0) /\ UNCHANGED dataFifo /\ drive.state # "Reading"
      BY <1>9, <2>1 DEF SpinUpDone, MoveDrive
    <3>2. drive'.state = "Paused"
      BY <3>1 DEF PausedWithInt2, Paused, Drive
    <3> QED  BY <1>6, <3>1, <3>2
  <2>2. CASE drive.next # "none"
    <3>1. 0 \in Times
      BY CdAssumptions DEF Times
    <3>2. drive' = Seeking(0, drive.time, drive.next) /\ drive.next \in Times3
          /\ UNCHANGED <<flags, dataFifo>> /\ drive.state = "SpinningUp"
      BY <1>3, <1>9, <2>2 DEF SpinUpDone, MoveDrive, Times3
    <3>3. drive'.state = "Seeking" /\ drive'.next = drive.next
      BY <1>3, <3>1, <3>2, SeekingIsOK
    <3> QED
      BY <1>5, <3>2, <3>3 DEF ReadInv, DiscWhileReading, QuietWhileReceiving,
        BufferedSector, DataReady, IntQueued
  <2> QED  BY <2>1, <2>2
<1>10. CASE SeekDone
  <2>1. drive.next \in Times3 /\ drive.state = "Seeking" /\ UNCHANGED <<flags, dataFifo>>
    BY <1>3, <1>10 DEF SeekDone, MoveDrive, ReadInv, TypeOK, DriveOK, Times3
  <2>2. drive'.state = CASE drive.next = "Pause" -> "Paused"
                         [] drive.next = "Read"  -> "PreparingToRead"
                         [] drive.next = "Play"  -> "PreparingToPlay"
    <3>1. CASE drive.next = "Pause"
      BY <1>10, <3>1 DEF SeekDone, MoveDrive, PausedWithInt2, Paused, Drive
    <3>2. CASE drive.next = "Read"
      BY <1>10, <3>2 DEF SeekDone, MoveDrive, Drive
    <3>3. CASE drive.next = "Play"
      BY <1>10, <3>3 DEF SeekDone, MoveDrive, Drive
    <3> QED  BY <2>1, <3>1, <3>2, <3>3 DEF Times3
  <2> QED
    BY <1>5, <2>1, <2>2 DEF ReadInv, DiscWhileReading, QuietWhileReceiving,
      BufferedSector, DataReady, IntQueued, Times3
<1>11. CASE ReadDataSector
  <2>1. disc /\ drive.state \in {"PreparingToRead", "Reading"}
    BY <1>11 DEF ReadDataSector, ReadInv, DiscWhileReading
  <2>2. UNCHANGED <<flags, dataFifo>>
    BY <1>11, <2>1 DEF ReadDataSector, Abort
  <2>3. \/ UNCHANGED <<drive, buffer>>
        \/ drive'.state = "Reading" /\ drive'.time = drive.time + 1 /\ buffer' = {drive.time}
    BY <1>11, <2>1 DEF ReadDataSector, Abort, Drive
  <2>4. BufferedSector'
    <3>1. CASE UNCHANGED <<drive, buffer>>
      BY <3>1 DEF ReadInv, BufferedSector
    <3>2. CASE drive'.time = drive.time + 1 /\ buffer' = {drive.time}
      <4>1. drive'.time - 1 = drive.time
        BY <1>4, <3>2
      <4> QED  BY <3>2, <4>1 DEF BufferedSector
    <3> QED  BY <2>3, <3>1, <3>2
  <2>5. drive'.state \in {"PreparingToRead", "Reading"}
    BY <2>1, <2>3
  <2> QED
    BY <1>5, <2>1, <2>2, <2>4, <2>5 DEF ReadInv, DiscWhileReading, QuietWhileReceiving, IntQueued
<1>12. CASE ProgressReadState
  <2>1. drive.state = "Reading" /\ drive'.state = "Reading" /\ drive'.time = drive.time
        /\ UNCHANGED buffer
    BY <1>3, <1>12 DEF ProgressReadState
  <2>2. MayRaiseInt1 => ~DataReady /\ cmd.state # "ReceivingCommand"
    BY DEF MayRaiseInt1, DataReady, IntQueued, Int1
  <2>3. CASE MayRaiseInt1
    <3>1. dataFifo' = {drive.time - 1}
      BY <1>12, <2>1, <2>3 DEF ProgressReadState, ReadInv, BufferedSector
    <3> QED
      BY <1>5, <2>1, <2>2, <2>3, <3>1 DEF ReadInv, DiscWhileReading, QuietWhileReceiving,
        BufferedSector
  <2>4. CASE ~MayRaiseInt1
    <3>1. UNCHANGED <<flags, dataFifo>>
      BY <1>12, <2>4 DEF ProgressReadState
    <3> QED
      BY <1>5, <2>1, <3>1 DEF ReadInv, DiscWhileReading, QuietWhileReceiving,
        BufferedSector, IntQueued
  <2> QED  BY <2>3, <2>4
<1>13. ASSUME NEW first \in BOOLEAN, ReadAudioSector(first),
              drive.state \in {"PreparingToPlay", "Playing"}
       PROVE  Settled
  <2>1. disc /\ UNCHANGED dataFifo /\ drive'.state \in {"Stopped", "Paused", "Playing"}
    BY <1>13 DEF ReadAudioSector, EndOfPlay, Paused, Stopped, Drive, ReadInv, DiscWhileReading
  <2> QED
    BY <1>5, <1>13, <2>1 DEF DiscWhileReading, QuietWhileReceiving, BufferedSector, DataReady
<1>14. CASE StartPlaying
  BY <1>13, <1>14 DEF StartPlaying
<1>15. CASE ProgressPlayState
  <2>1. CASE drive.cycles = 1
    BY <1>13, <1>15, <2>1 DEF ProgressPlayState
  <2>2. CASE drive.cycles # 1
    <3>1. drive'.state = "Playing" /\ drive.state = "Playing" /\ UNCHANGED dataFifo
      BY <1>3, <1>15, <2>2 DEF ProgressPlayState, MoveDrive
    <3> QED
      BY <1>5, <3>1 DEF ReadInv, DiscWhileReading, QuietWhileReceiving, BufferedSector, DataReady
  <2> QED  BY <2>1, <2>2
<1>16. CASE StayPaused
  <2>1. drive.state = "Paused" /\ drive'.state = "Paused" /\ UNCHANGED dataFifo
    BY <1>3, <1>16 DEF StayPaused, MoveDrive
  <2> QED  BY <1>6, <2>1
<1> QED
  BY <1>7, <1>8, <1>9, <1>10, <1>11, <1>12, <1>14, <1>15, <1>16 DEF AdvanceDriveState

Owing == {"GetId", "Init", "Pause", "ReadToc", "Stop"}

\* Where a command leaves itself and the drive.
LEMMA WhereCommandsLeave ==
  ASSUME TypeOK, NEW c \in AllCommands, ExecuteCommand(c)
  PROVE  /\ \/ cmd'.state = "Idle"
            \/ cmd'.state = "GeneratingSecondResponse" /\ cmd'.command \in Owing
            \/ UNCHANGED <<cmd, drive, flags>>
         /\ \/ UNCHANGED drive
            \/ drive'.state = "Paused"
            \/ drive'.state = "SpinningUp" /\ drive'.next = "none"
            \/ drive'.state \in {"SpinningUp", "Seeking"} /\ (disc \/ drive'.next = "Pause")
<1> USE DEF Answer, Idle, Second, Cmd, Owing
<1>1. SeekTarget \in Times
  BY SeekTargetIsATime
<1>2. TrackStarts \subseteq Times
  BY CdAssumptions DEF Sectors, Times
<1>3. \A t \in Times, next \in Times3 :
        /\ DriveStateFor(t, next).state \in {"SpinningUp", "Seeking"}
        /\ DriveStateFor(t, next).next = next
  BY DriveStateForIsOK
<1>4. CASE c = "Init" /\ ExecuteInit
  BY <1>4 DEF ExecuteInit, SpinningUp, Paused, Drive, IsStoppedOrSpinningUp
<1>5. CASE c = "SetMode" /\ ExecuteSetMode
  BY <1>5 DEF ExecuteSetMode
<1>6. CASE c = "Pause" /\ ExecutePause
  BY <1>6 DEF ExecutePause, Paused, Drive
<1>7. CASE c = "Stop" /\ ExecuteStop
  BY <1>7 DEF ExecuteStop, Paused, Drive
<1>8. CASE c = "MotorOn" /\ ExecuteMotorOn
  BY <1>8 DEF ExecuteMotorOn, SpinningUp, Drive
<1>9. CASE c = "SetLoc" /\ ExecuteSetLoc
  BY <1>9 DEF ExecuteSetLoc
<1>10. CASE c = "Seek" /\ ExecuteSeek
  <2>1. drive'.state \in {"SpinningUp", "Seeking"} /\ drive'.next = "Pause"
    BY <1>1, <1>3, <1>10 DEF ExecuteSeek, Times3
  <2> QED  BY <1>10, <2>1 DEF ExecuteSeek
<1>11. CASE c = "Read" /\ ExecuteRead
  <2>1. DriveStateFor(SeekTarget, "Read").state \in {"SpinningUp", "Seeking"}
    BY <1>1, <1>3 DEF Times3
  <2> QED  BY <1>11, <2>1 DEF ExecuteRead
<1>12. CASE c = "Play" /\ ExecutePlay
  <2>1. \A t \in TrackStarts \cup {SeekTarget} :
          DriveStateFor(t, "Play").state \in {"SpinningUp", "Seeking"}
    BY <1>1, <1>2, <1>3 DEF Times3
  <2> QED  BY <1>12, <2>1 DEF ExecutePlay
<1>13. CASE c = "GetTD" /\ ExecuteGetTD
  BY <1>13 DEF ExecuteGetTD
<1>14. CASE ExecuteReport(c)
  BY <1>14 DEF ExecuteReport
<1>15. CASE ExecuteWithSecondResponse(c)
  BY <1>15 DEF ExecuteWithSecondResponse
<1> QED
  BY <1>4, <1>5, <1>6, <1>7, <1>8, <1>9, <1>10, <1>11, <1>12, <1>13, <1>14, <1>15
  DEF ExecuteCommand

\* The command's half of a clock.
LEMMA CommandReadStep ==
  ASSUME ReadInv, AdvanceCommandState
  PROVE  ReadInv' /\ (DataReady => UNCHANGED <<flags, dataFifo>>)
<1>1. TypeOK'
  BY TypeStep DEF ReadInv, Next
<1>2. cmd.command \in AllCommands /\ cmd.state \in CommandStates /\ cmd.cycles \in Nat
      /\ cmd \in [state : CommandStates, command : AllCommands, cycles : Nat]
  BY DEF ReadInv, TypeOK, CommandOK
<1>3. AdvanceCommand /\ UNCHANGED <<disc, buffer, dataFifo>>
  BY DEF AdvanceCommandState
<1> DEFINE Settled ==
      /\ SecondResponseExpected' /\ DiscWhileReading'
      /\ QuietWhileReceiving' /\ BufferedSector'
      /\ (DataReady => UNCHANGED flags)
<1> SUFFICES Settled
  BY <1>1, <1>3 DEF ReadInv
<1>4. ASSUME NEW c, KeepWaiting(c),
             c.state = "ReceivingCommand" => cmd.state = "ReceivingCommand" \/ ~IntQueued,
             c.state = "GeneratingSecondResponse" =>
               cmd.state = "GeneratingSecondResponse" /\ c.command = cmd.command
      PROVE  Settled
  BY <1>3, <1>4 DEF KeepWaiting, ReadInv, SecondResponseExpected, DiscWhileReading,
    QuietWhileReceiving, BufferedSector, IntQueued
<1>5. CASE cmd.state = "Idle" /\ KeepWaiting(Idle)
  BY <1>4, <1>5 DEF Idle
<1>6. CASE /\ cmd.state = "CommandQueued"
           /\ KeepWaiting(IF IntQueued THEN cmd
                          ELSE Cmd("ReceivingCommand", cmd.command, cmd.cycles))
  <2> DEFINE c == IF IntQueued THEN cmd ELSE Cmd("ReceivingCommand", cmd.command, cmd.cycles)
  <2>1. /\ c.state = "ReceivingCommand" => ~IntQueued
        /\ c.state # "GeneratingSecondResponse"
    BY <1>6 DEF Cmd
  <2>2. KeepWaiting(c)
    BY <1>6
  <2> HIDE DEF c
  <2> QED  BY <1>4, <2>1, <2>2
<1>7. CASE /\ cmd.state \in {"ReceivingCommand", "GeneratingSecondResponse"}
           /\ cmd.cycles # 1
           /\ KeepWaiting([cmd EXCEPT !.cycles = @ - 1])
  <2> DEFINE c == [cmd EXCEPT !.cycles = @ - 1]
  <2>1. c.state = cmd.state /\ c.command = cmd.command
    BY <1>2
  <2>2. KeepWaiting(c)
    BY <1>7
  <2> HIDE DEF c
  <2> QED  BY <1>4, <2>1, <2>2
<1>8. CASE cmd.state = "ReceivingCommand" /\ ExecuteCommand(cmd.command)
  <2>1. /\ \/ cmd'.state = "Idle"
           \/ cmd'.state = "GeneratingSecondResponse" /\ cmd'.command \in Owing
           \/ UNCHANGED <<cmd, drive, flags>>
        /\ \/ UNCHANGED drive
           \/ drive'.state = "Paused"
           \/ drive'.state = "SpinningUp" /\ drive'.next = "none"
           \/ drive'.state \in {"SpinningUp", "Seeking"} /\ (disc \/ drive'.next = "Pause")
    BY <1>2, <1>8, WhereCommandsLeave DEF ReadInv
  <2>2. ~DataReady
    BY <1>8 DEF ReadInv, QuietWhileReceiving, DataReady, IntQueued, Int1
  <2>3. SecondResponseExpected'
    BY <1>8, <2>1 DEF SecondResponseExpected, Owing
  <2>4. QuietWhileReceiving'
    BY <1>8, <2>1 DEF ReadInv, QuietWhileReceiving, IntQueued
  <2>5. DiscWhileReading' /\ BufferedSector'
    BY <1>3, <2>1 DEF ReadInv, DiscWhileReading, BufferedSector
  <2> QED  BY <2>2, <2>3, <2>4, <2>5
<1>9. CASE /\ cmd.state = "GeneratingSecondResponse"
           /\ IF IntQueued THEN KeepWaiting(cmd) ELSE GenerateSecondResponse
  <2>1. CASE IntQueued
    BY <1>4, <1>9, <2>1
  <2>2. CASE ~IntQueued
    <3>1. cmd'.state = "Idle" /\ (UNCHANGED drive \/ drive'.state = "Stopped")
      BY <1>9, <2>2 DEF GenerateSecondResponse, Answer, Idle, Stopped, Drive
    <3>2. ~DataReady
      BY <2>2 DEF DataReady, IntQueued, Int1
    <3> QED
      BY <1>3, <3>1, <3>2 DEF ReadInv, SecondResponseExpected, DiscWhileReading,
        QuietWhileReceiving, BufferedSector
  <2> QED  BY <2>1, <2>2
<1> QED  BY <1>3, <1>5, <1>6, <1>7, <1>8, <1>9 DEF AdvanceCommand

LEMMA HostReadStep ==
  ASSUME ReadInv, HostNext
  PROVE  ReadInv' /\ UNCHANGED dataFifo
                  /\ (UNCHANGED flags \/ \E acked \in SUBSET flags, r \in BOOLEAN : WriteFlags(acked, r))
<1>1. TypeOK'
  BY TypeStep DEF ReadInv, Next
<1>2. UNCHANGED <<drive, disc, buffer, dataFifo>>
  BY DEF HostNext, WriteCommand, WriteParameters, WriteEnabled, WriteFlags, EnterHandler
<1>3. DiscWhileReading' /\ BufferedSector'
  BY <1>2 DEF ReadInv, DiscWhileReading, BufferedSector
<1> DEFINE Settled == /\ SecondResponseExpected' /\ QuietWhileReceiving'
                      /\ UNCHANGED flags \/ \E acked \in SUBSET flags, r \in BOOLEAN : WriteFlags(acked, r)
<1> SUFFICES Settled
  BY <1>1, <1>2, <1>3 DEF ReadInv
<1>4. ASSUME NEW c \in Commands, WriteCommand(c) PROVE Settled
  <2>1. UNCHANGED <<flags, drive>>
        /\ cmd'.state = IF IntQueued THEN "CommandQueued" ELSE "ReceivingCommand"
    BY <1>4 DEF WriteCommand, cdVars, Cmd
  <2> QED  BY <2>1 DEF SecondResponseExpected, QuietWhileReceiving, IntQueued
<1>5. CASE UNCHANGED <<cmd, drive, flags>>
  BY <1>5 DEF ReadInv, SecondResponseExpected, QuietWhileReceiving, IntQueued
<1>6. ASSUME NEW acked \in SUBSET flags, NEW r \in BOOLEAN, WriteFlags(acked, r)
      PROVE  Settled
  <2>1. UNCHANGED <<cmd, drive>> /\ flags' \subseteq flags
    BY <1>6 DEF WriteFlags
  <2> QED  BY <1>6, <2>1 DEF ReadInv, SecondResponseExpected, QuietWhileReceiving, IntQueued
<1> QED
  BY <1>4, <1>5, <1>6 DEF HostNext, WriteParameters, WriteEnabled, EnterHandler, cdVars

LEMMA ReadStep ==
  ReadInv /\ [Next]_vars => /\ ReadInv'
                            /\ DataReady =>
                                 \/ flags' = flags /\ dataFifo' = dataFifo
                                 \/ \E r \in BOOLEAN : WriteFlags(flags, r)
                                 \/ \E d \in BOOLEAN : ChangeDisc(d)
                            /\ dataFifo' # dataFifo => dataFifo' = {drive.time - 1}
<1> SUFFICES ASSUME ReadInv, [Next]_vars
             PROVE  /\ ReadInv'
                    /\ DataReady =>
                         \/ flags' = flags /\ dataFifo' = dataFifo
                         \/ \E r \in BOOLEAN : WriteFlags(flags, r)
                         \/ \E d \in BOOLEAN : ChangeDisc(d)
                    /\ dataFifo' # dataFifo => dataFifo' = {drive.time - 1}
  OBVIOUS
<1>1. CASE AdvanceDriveState
  BY <1>1, DriveReadStep
<1>2. CASE AdvanceCommandState
  <2>1. UNCHANGED dataFifo
    BY <1>2 DEF AdvanceCommandState
  <2> QED  BY <1>2, <2>1, CommandReadStep
<1>3. CASE HostNext
  <2>1. ReadInv' /\ UNCHANGED dataFifo
    BY <1>3, HostReadStep
  <2>2. CASE UNCHANGED flags
    BY <2>1, <2>2
  <2>3. ASSUME NEW acked \in SUBSET flags, NEW r \in BOOLEAN, WriteFlags(acked, r), DataReady
        PROVE  UNCHANGED flags \/ WriteFlags(flags, r)
    <3>1. acked = {} \/ acked = flags
      BY <2>3 DEF DataReady, Int1
    <3> QED  BY <2>3, <3>1 DEF WriteFlags
  <2> QED  BY <1>3, <2>1, <2>2, <2>3, HostReadStep
<1>4. ASSUME NEW d \in BOOLEAN, ChangeDisc(d)
      PROVE  ReadInv' /\ UNCHANGED dataFifo
  <2>1. TypeOK'
    BY <1>4, TypeStep DEF ReadInv, Next
  <2>2. drive'.state = "Stopped" /\ UNCHANGED <<cmd, dataFifo>>
    BY <1>4 DEF ChangeDisc, Stopped, Drive
  <2> QED
    BY <2>1, <2>2 DEF ReadInv, SecondResponseExpected, DiscWhileReading,
      QuietWhileReceiving, BufferedSector
<1>5. CASE UNCHANGED vars
  <2>1. TypeOK'
    BY TypeStep DEF ReadInv
  <2> QED
    BY <1>5, <2>1 DEF vars, cdVars, ReadInv, SecondResponseExpected, DiscWhileReading,
      QuietWhileReceiving, BufferedSector, IntQueued
<1> QED  BY <1>1, <1>2, <1>3, <1>4, <1>5 DEF Next

LEMMA ReadInit == Init => ReadInv
BY TypeInit DEF Init, ReadInv, SecondResponseExpected, DiscWhileReading,
  QuietWhileReceiving, BufferedSector, Idle, Stopped, Drive

LEMMA ReadInvariant == Spec => []ReadInv
BY ReadInit, ReadStep, PTL DEF Spec

\* A drive that reads, plays or is on its way to do so has a disc, so that
\* read_sector_atime never finds the drive empty, and generate_second_response
\* never meets a command it has no arm for.
THEOREM DriveHasItsDisc == Spec => [](DiscWhileReading /\ SecondResponseExpected)
<1>1. ReadInv => DiscWhileReading /\ SecondResponseExpected
  BY DEF ReadInv
<1> QED  BY <1>1, ReadInvariant, PTL

\* The data-ready interrupt and its sector stay until the host acknowledges
\* them: progress_read_state raises it only while no interrupt is queued and no
\* command is being received.
THEOREM DataReadyIsKept == Spec => DataReadyKept
<1>1. ReadInv /\ [Next]_vars =>
        [DataReady => \/ flags' = flags /\ dataFifo' = dataFifo
                      \/ \E r \in BOOLEAN : WriteFlags(flags, r)
                      \/ \E d \in BOOLEAN : ChangeDisc(d)]_vars
  BY ReadStep
<1> QED  BY <1>1, ReadInvariant, PTL DEF Spec, DataReadyKept

\* The data FIFO gets the sector the drive has read last, never an older one.
THEOREM SectorIsFresh == Spec => FreshSector
<1>1. ReadInv /\ [Next]_vars => [dataFifo' # dataFifo => dataFifo' = {drive.time - 1}]_vars
  BY ReadStep
<1> QED  BY <1>1, ReadInvariant, PTL DEF Spec, FreshSector
=============================================================================
