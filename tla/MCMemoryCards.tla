---------------------------- MODULE MCMemoryCards ----------------------------
EXTENDS MemoryCards

Slot(on, how) == [enabled |-> on, mode |-> how]

\* Both slots in per-game mode.
PerGameConfigs == {[s \in Slots |-> Slot(TRUE, "PerGame")]}

DottedGames == {<<"crash">>, <<"mr", " driller">>}

\* Save states amid a write and amid a read.
MCSnapshots ==
  {[slot |-> "One", state |-> st, command |-> "Write", sector |-> 1, remaining |-> 1] :
     st \in {"ReceivingData", "SendingData"}}
=============================================================================
