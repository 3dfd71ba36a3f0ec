----------------------------- MODULE MemoryCards -----------------------------
(***************************************************************************)
(* The memory cards of a running emulator: the protocol a game reads and   *)
(* writes them with (sio/memcard.rs), the files they are saved to at the   *)
(* end of each frame (api.rs), and the commands that exchange them between *)
(* frames (emuthread.rs).                                                  *)
(*                                                                         *)
(* A file is named after the disc. The parts of a disc's name are those    *)
(* between its dots, without the extension and a "(Disc n)" or "(Rev n)".  *)
(* A file that does not exist holds what a formatted card does.            *)
(***************************************************************************)
EXTENDS Integers, Sequences

CONSTANTS
  Discs,      \* names of discs: non-empty sequences of parts
  Configs,    \* settings of the slots the user chooses from: [enabled, mode] of each
  Sectors,    \* sectors a game accesses, up to 0..1023
  SectorLen,  \* bytes of a sector: 128
  Snapshots,  \* connections save states may hold
  MaxWrites   \* bound on the writes to a sector, those the game gives up included

Slots == {"One", "Two"}
Byte == {0, 1}

\* Bytes in a row that a card answers whatever they are make one step.
States ==
  {"AwaitingCommand", "Identifying", "AddressLow",
   "ReadAcking", "SendingData", "SendingChecksum",
   "ReceivingData", "ReceivingChecksum", "WriteAcking"}

Conns ==
  [slot : Slots, state : States, command : {"Read", "Write"}, sector : Sectors,
   remaining : 1..SectorLen]

CardsAssumption ==
  /\ Configs \subseteq [Slots -> [enabled : BOOLEAN, mode : {"Shared", "PerGame"}]]
  /\ Sectors # {} /\ SectorLen \in Nat \ {0}
  /\ Snapshots \subseteq Conns
ASSUME CardsAssumed == CardsAssumption

VARIABLES
  phase,   \* of the emulator thread: it runs a "frame", or handles "commands"
  config, disc,
  path,    \* card_1_path and card_2_path
  cards,   \* memory_card_1 and memory_card_2: {} or {card} each
  conn,    \* the card the port is connected to: {} or {connected memory card}
  files,   \* what is on disk
  blocked, \* the directory of the files could not be created
  heard,   \* the data bytes of the access the game has sent or received
  promise, \* file and sector: {} or the data of its last whole write
  writes   \* writes so far

cardVars == <<phase, config, disc, path, cards, conn, files, blocked, heard, promise, writes>>

-----------------------------------------------------------------------------
\* with_extension takes what follows the last dot for the extension it
\* replaces: the slot's number, too, if the name has a dot.
SlotPath(slot, mode, d) ==
  IF mode = "Shared" \/ d = {} THEN <<"shared", slot>>
  ELSE LET name == CHOOSE n \in d : TRUE
       IN  IF Len(name) = 1 THEN Append(name, slot) ELSE SubSeq(name, 1, Len(name) - 1)

Paths(conf, d) == [s \in Slots |-> SlotPath(s, conf[s].mode, d)]

Files ==
  UNION {{Paths(conf, d)[s] : s \in Slots} :
           conf \in Configs, d \in {{}} \cup {{n} : n \in Discs}}

Formatted == [s \in Sectors |-> [i \in 1..SectorLen |-> 0]]

\* home and failed are no fields of MemoryCard: the file the card comes from
\* and whether the last attempt to save it failed. written_since_load, which
\* only shows in the flag byte, is left out.
NewCard(f, data) ==
  [home |-> f, data |-> data, dirty |-> TRUE, failed |-> FALSE]

\* Mutant: the files of the last paths are read.
LoadLate(conf, paths) ==
  [s \in Slots |-> IF conf[s].enabled THEN {NewCard(paths[s], files[path[s]])} ELSE {}]

Load(conf, paths) ==
  [s \in Slots |-> IF conf[s].enabled THEN {NewCard(paths[s], files[paths[s]])} ELSE {}]

CardsInit ==
  /\ phase = "frame" /\ config \in Configs /\ disc \in {{}} \cup {{n} : n \in Discs}
  /\ path = Paths(config, disc)
  /\ files = [f \in Files |-> Formatted]
  /\ cards = Load(config, path)
  /\ conn = {} /\ blocked = FALSE
  /\ heard = <<>> /\ promise = [p \in Files \X Sectors |-> {}] /\ writes = 0

-----------------------------------------------------------------------------
(***************************************************************************)
(* The protocol. A transfer of a byte from the game, between two frames'   *)
(* ends; the port disconnects the card when the game deselects it.         *)
(***************************************************************************)
LastByte(remaining) == remaining = 1

Address(remaining) == SectorLen + 1 - remaining

Frame == phase = "frame" /\ UNCHANGED <<phase, config, disc, path, files, blocked>>

Connect(slot) ==
  /\ Frame
  /\ conn = {} /\ cards[slot] # {}
  /\ conn' = {[slot |-> slot, state |-> "AwaitingCommand", command |-> "Read",
               sector |-> CHOOSE s \in Sectors : TRUE, remaining |-> SectorLen]}
  /\ heard' = <<>>
  /\ UNCHANGED <<cards, promise, writes>>

\* The end of the communication, or its abortion by the game.
DeselectCard ==
  /\ Frame
  /\ conn # {} /\ conn' = {}
  /\ UNCHANGED <<cards, heard, promise, writes>>

\* A card that has been removed does not answer.
NoAnswer ==
  /\ Frame
  /\ \E c \in conn : cards[c.slot] = {}
  /\ conn' = {}
  /\ UNCHANGED <<cards, heard, promise, writes>>

\* SendingId1, SendingId2 and ReceivingAddressHigh; ReadAcking1 and 2 and both
\* bytes that confirm the address; WriteReceivingChecksum.
After ==
  [Identifying |-> "AddressLow", ReadAcking |-> "SendingData",
   ReceivingChecksum |-> "WriteAcking"]

\* The byte goes to a connected card c whose slot holds a card.
Answer(c, state) == c \in conn /\ c.state = state /\ cards[c.slot] # {}

PassOn(c) ==
  /\ Answer(c, c.state) /\ c.state \in DOMAIN After
  /\ conn' = {[c EXCEPT !.state = After[c.state], !.remaining = SectorLen]}
  /\ UNCHANGED <<cards, heard, promise, writes>>

AwaitingCommand(c) ==
  /\ Answer(c, "AwaitingCommand")
  /\ \E command \in {"Read", "Write"} :
       /\ command = "Write" => writes < MaxWrites
       /\ conn' = {[c EXCEPT !.state = "Identifying", !.command = command]}
       /\ writes' = writes + (IF command = "Write" THEN 1 ELSE 0)
  /\ UNCHANGED <<cards, heard, promise>>

AddressLow(c) ==
  /\ Answer(c, "AddressLow")
  /\ \E s \in Sectors :
       conn' = {[c EXCEPT !.sector = s, !.remaining = SectorLen,
                          !.state = IF c.command = "Read" THEN "ReadAcking"
                                    ELSE "ReceivingData"]}
  /\ UNCHANGED <<cards, heard, promise, writes>>

SendingData(c) ==
  /\ Answer(c, "SendingData")
  /\ \E card \in cards[c.slot] :
       LET byte == card.data[c.sector][Address(c.remaining)]
       IN  /\ conn' = {[c EXCEPT !.state = IF LastByte(c.remaining) THEN "SendingChecksum" ELSE @,
                                !.remaining = IF LastByte(@) THEN @ ELSE @ - 1]}
           /\ heard' = Append(heard, byte)
  /\ UNCHANGED <<cards, promise, writes>>

\* Mutant: the card is marked with the first byte.
StoreEarly(card, sector, remaining, byte) ==
  [card EXCEPT !.data[sector][Address(remaining)] = byte,
               !.dirty = @ \/ remaining = SectorLen]

Store(card, sector, remaining, byte) ==
  [card EXCEPT !.data[sector][Address(remaining)] = byte,
               !.dirty = @ \/ remaining = 1]

ReceivingData(c) ==
  /\ Answer(c, "ReceivingData")
  /\ \E card \in cards[c.slot], byte \in Byte :
       /\ cards' = [cards EXCEPT ![c.slot] = {Store(card, c.sector, c.remaining, byte)}]
       /\ conn' = {[c EXCEPT !.state = IF LastByte(c.remaining) THEN "ReceivingChecksum" ELSE @,
                             !.remaining = IF LastByte(@) THEN @ ELSE @ - 1]}
       /\ heard' = Append(heard, byte)
       /\ promise' = [promise EXCEPT ![<<card.home, c.sector>>] =
                        IF LastByte(c.remaining) /\ Len(heard') = SectorLen THEN {heard'} ELSE {}]
  /\ UNCHANGED writes

\* ReadSendingEnd; WriteAcking1 and 2, and WriteSendingEnd, which answers
\* whether the checksum was right but takes nothing back.
SendingEnd(c) ==
  /\ Answer(c, "SendingChecksum") \/ Answer(c, "WriteAcking")
  /\ conn' = {}
  /\ UNCHANGED <<cards, heard, promise, writes>>

Transfer ==
  /\ Frame
  /\ \E c \in conn :
       \/ PassOn(c) \/ AwaitingCommand(c) \/ AddressLow(c)
       \/ SendingData(c) \/ ReceivingData(c) \/ SendingEnd(c)

-----------------------------------------------------------------------------
(***************************************************************************)
(* The end of a frame. A card is written to a temporary file, which then   *)
(* replaces its file, so that a save succeeds or changes nothing.          *)
(***************************************************************************)
Dirty(slot) == \E card \in cards[slot] : card.dirty

\* What is left of a card whose save succeeds or fails.
Saved(slot, ok) == {[card EXCEPT !.dirty = FALSE, !.failed = ~ok] : card \in cards[slot]}

\* Mutant: the slots' paths are exchanged.
SaveFileSwapped(slot) ==
  IF Dirty(slot)
  THEN [files EXCEPT ![path[CHOOSE s \in Slots : s # slot]] =
          (CHOOSE card \in cards[slot] : TRUE).data]
  ELSE files

SaveFile(slot) ==
  IF Dirty(slot)
  THEN [files EXCEPT ![path[slot]] = (CHOOSE card \in cards[slot] : TRUE).data]
  ELSE files

EndFrame ==
  /\ phase = "frame" /\ phase' = "commands"
  /\ UNCHANGED <<config, disc, path, conn, blocked, heard, promise, writes>>

\* The second card is only saved if the first one was; both are if dirty.
RenderFrame ==
  /\ EndFrame
  /\ ~blocked \/ \A s \in Slots : ~Dirty(s)
  /\ LET one == SaveFile("One")
         two == SaveFile("Two")
     IN  files' = IF Dirty("Two") THEN [one EXCEPT ![path["Two"]] = two[path["Two"]]] ELSE one
  /\ cards' = [s \in Slots |-> IF Dirty(s) THEN Saved(s, TRUE) ELSE cards[s]]

SaveFails(slot) ==
  /\ EndFrame
  /\ Dirty(slot)
  /\ slot = "Two" /\ blocked => ~Dirty("One")
  /\ files' = IF slot = "Two" THEN SaveFile("One") ELSE files
  /\ cards' = [s \in Slots |->
                 CASE s = slot -> Saved(s, FALSE)
                   [] s = "One" /\ slot = "Two" /\ Dirty("One") -> Saved(s, TRUE)
                   [] OTHER -> cards[s]]

\* An error of the CD-ROM ends the frame before anything is saved.
FrameFails == EndFrame /\ UNCHANGED <<files, cards>>

-----------------------------------------------------------------------------
(***************************************************************************)
(* The commands of the emulator thread.                                    *)
(***************************************************************************)
NextFrame ==
  /\ phase = "commands" /\ phase' = "frame"
  /\ UNCHANGED <<config, disc, path, cards, conn, files, blocked, heard, promise, writes>>

\* A card that is given up keeps the promises that have reached its file.
Kept(given) ==
  [p \in DOMAIN promise |->
     IF \E slot \in given : \E card \in cards[slot] : card.home = p[1] /\ (card.dirty \/ card.failed)
     THEN {} ELSE promise[p]]

\* update_memcard_config. When the files' directory has gone and cannot be
\* created, the cards stay; it is assumed to stay away until the next attempt,
\* as the old cards would otherwise be saved to the new paths.
UpdateCards(conf, d) ==
  /\ path' = Paths(conf, d)
  /\ \/ /\ blocked' = FALSE
        /\ cards' = Load(conf, Paths(conf, d))
        /\ promise' = Kept(Slots)
     \/ blocked' = TRUE /\ UNCHANGED <<cards, promise>>
  /\ heard' = <<>>
  /\ UNCHANGED <<phase, conn, files, writes>>

\* ChangeDisc, whether the disc can be opened or not, and RemoveDisc.
ChangeDisc(d) ==
  /\ phase = "commands"
  /\ disc' = d
  /\ UpdateCards(config, d)
  /\ UNCHANGED config

UpdateConfig(conf) ==
  /\ phase = "commands"
  /\ conf # config
  /\ config' = conf
  /\ UpdateCards(conf, disc)
  /\ UNCHANGED disc

\* The save state of an earlier frame, or of an earlier run, may have been
\* made amid an access; the cards stay. A Reset has the same effect as a save
\* state without a connection.
LoadState(conns) ==
  /\ phase = "commands"
  /\ conn' = conns
  /\ cards' = [s \in Slots |-> {[card EXCEPT !.dirty = TRUE] : card \in cards[s]}]
  /\ heard' = <<>>
  /\ UNCHANGED <<phase, config, disc, path, files, blocked, promise, writes>>

\* The program ends, at whatever point, and is started again.
Restart ==
  /\ phase' = "frame" /\ blocked' = FALSE
  /\ path' = Paths(config, disc) /\ cards' = Load(config, Paths(config, disc))
  /\ conn' = {} /\ heard' = <<>>
  /\ promise' = Kept(Slots)
  /\ UNCHANGED <<config, disc, files, writes>>

CardsNext ==
  \/ Transfer \/ NoAnswer \/ DeselectCard \/ (\E s \in Slots : Connect(s))
  \/ RenderFrame \/ (\E s \in Slots : SaveFails(s)) \/ FrameFails
  \/ NextFrame \/ Restart
  \/ \E d \in {{}} \cup {{n} : n \in Discs} : ChangeDisc(d)
  \/ \E conf \in Configs : UpdateConfig(conf)
  \/ \E conns \in {{}} \cup {{c} : c \in Snapshots} : LoadState(conns)

CardsSpec == CardsInit /\ [][CardsNext]_cardVars

-----------------------------------------------------------------------------
Data == [Sectors -> [1..SectorLen -> Byte]]

CardsTypeOK ==
  /\ phase \in {"frame", "commands"} /\ config \in Configs /\ blocked \in BOOLEAN
  /\ disc \in {{}} \cup {{n} : n \in Discs} /\ path \in [Slots -> Files]
  /\ \A s \in Slots : \A card \in cards[s] :
       /\ card.home \in Files /\ card.data \in Data
       /\ {card.dirty, card.failed} \subseteq BOOLEAN
  /\ conn \subseteq Conns /\ files \in [Files -> Data]

\* What a game reads of a sector is what it last wrote there as a whole, even
\* if the card was exchanged or the program restarted since, unless the write
\* had not been saved.
ReadsReturnWrites ==
  \A c \in conn :
    (c.state = "SendingChecksum" /\ Len(heard) = SectorLen) =>
      \A card \in cards[c.slot] : \A data \in promise[<<card.home, c.sector>>] : heard = data

\* A whole write is in the card's file, or will be saved at the end of the
\* frame, unless the last attempt has failed.
SavedOrDirty ==
  \A s \in Slots, sector \in Sectors : \A card \in cards[s] :
    \A data \in promise[<<card.home, sector>>] :
      card.data[sector] = data
        /\ (card.dirty \/ card.failed \/ files[card.home][sector] = data)

\* Only a card that comes from a file is saved to it.
OwnFilesOnly ==
  [][\A f \in {g \in DOMAIN files : files'[g] # files[g]} :
       \E s \in Slots : \E card \in cards[s] : card.home = f]_cardVars

-----------------------------------------------------------------------------
\* "Per-game memory card files" (app.rs): in that mode the file in use is that
\* of no other disc, nor of the other slot.
FilesPerGame ==
  \A s \in Slots, d \in disc : config[s].mode = "PerGame" =>
    \A e \in Discs, t \in Slots :
      config[t].mode = "PerGame" /\ path[s] = SlotPath(t, "PerGame", {e}) => e = d /\ t = s
=============================================================================
