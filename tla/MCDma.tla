-------------------------------- MODULE MCDma --------------------------------
EXTENDS Dma

\* MDEC_OUT may stall, the GPU's lists have empty nodes and OTC is a burst.
MCChannels == {MDEC_OUT, GPU, OTC}
MCPriorities == {[c \in Channels |-> 1], [c \in Channels |-> 7 - c]}

\* Enable two channels' interrupts; or only one's, and force an interrupt.
MCInterruptWrites ==
  {[force |-> FALSE, channels |-> {GPU, OTC}, master |-> TRUE, ack |-> {GPU}],
   [force |-> TRUE, channels |-> {GPU}, master |-> FALSE, ack |-> {GPU}]}
=============================================================================
