--------------------------- MODULE MCCdController ----------------------------
EXTENDS CdController

VARIABLE host  \* the commands that this host writes

MCSectorCycles == [d \in BOOLEAN |-> IF d THEN 2 ELSE 3]
MCModes == {DefaultMode, [double |-> TRUE, xa |-> TRUE, report |-> TRUE, autoPause |-> TRUE]}

\* The commands of a host that reads data, of one that plays audio, and of one
\* that asks what disc there is.
DataCommands == {"Pause", "Read", "SetLoc", "SetMode"}
AudioCommands == {"GetLocP", "Init", "MotorOn", "Play", "SetMode", "Stop"}
DiscCommands == {"GetId", "GetTD", "Play", "ReadToc", "Seek", "SetLoc"}
MCCommands == DataCommands \cup AudioCommands \cup DiscCommands

\* A host acknowledges all flags or leaves the INT4 that came upon another, and
\* with that its handler ends.
Acknowledges == flags' \subseteq flags /\ flags' # flags
Disciplined ==
  /\ Acknowledges => flags' \in {{}, Int4} /\ ~handler'
  /\ handler /\ ~handler' => Acknowledges \/ flags = {}

\* SetLoc names a sector or a position far behind the disc; the head gets just
\* behind it by running off its end.
MCTimes == Sectors \cup {LastTime}

\* Every host keeps to one of the three sets; the one that reads data masks no
\* interrupt once it has enabled them.
MCInit == Init /\ host \in {DataCommands, AudioCommands, DiscCommands}
MCNext ==
  /\ Next
  /\ cmd'.state = "Idle" \/ cmd'.command \in host
  /\ Disciplined
  /\ seekLoc' \subseteq MCTimes
  /\ host = DataCommands => enabled' \in {enabled, Bits}
  /\ UNCHANGED host
MCSpec == MCInit /\ [][MCNext]_<<vars, host>>
=============================================================================
