---------------------------- MODULE MCSerialPort ----------------------------
(***************************************************************************)
(* The port, and the memory cards behind it, which answer its bytes: one   *)
(* of them at a time.                                                      *)
(***************************************************************************)
EXTENDS SerialPort, MemoryCards

VARIABLE focus

\* An instruction, and one that a DMA delays past a whole transfer.
MCSteps == {1, 4}

\* One slot, and both, of which the first changes its mode.
Slot(on, how) == [enabled |-> on, mode |-> how]
MCConfigs ==
  {[One |-> Slot(TRUE, "PerGame"), Two |-> Slot(FALSE, "Shared")],
   [One |-> Slot(TRUE, "Shared"), Two |-> Slot(TRUE, "Shared")]}
MCDiscs == {<<"crash">>}

\* Save states amid a write and amid a read.
MCSnapshots ==
  {[slot |-> "One", state |-> st, command |-> "Write", sector |-> 1, remaining |-> 1] :
     st \in {"ReceivingData", "SendingData"}}

PortRuns == focus = "port" /\ UNCHANGED <<cardVars, focus>>
allVars == <<vars, cardVars, focus>>
MCInit ==
  /\ Init /\ CardsInit
  /\ focus \in {"port", "cards"}
  /\ focus = "port" => config = (CHOOSE c \in Configs : TRUE) /\ disc = {}
MCNext ==
  \/ PortRuns /\ Next
  \/ focus = "cards" /\ CardsNext /\ UNCHANGED <<vars, focus>>
     /\ \A c \in conn' : c.slot = "One"  \* the game's card; the other is only exchanged
MCFairness ==
  /\ WF_allVars(PortRuns /\ OtherInstruction)
  /\ \A e \in {"tx", "irq"} : WF_allVars(PortRuns /\ ProcessEvent(e))
MCSpec == MCInit /\ [][MCNext]_allVars /\ MCFairness

=============================================================================
