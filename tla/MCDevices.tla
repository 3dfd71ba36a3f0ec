----------------------------- MODULE MCDevices -----------------------------
(***************************************************************************)
(* The parts of the console that only the bus, the serial port or the drive *)
(* connects to others, each by itself: `focus` says which part runs.       *)
(***************************************************************************)
EXTENDS Spu, Cpu, InstructionCache, Controllers, RxFifo, DiscImage

VARIABLE focus

spuVars == vars

\* The units of the SPU are scaled down: two blocks of sound RAM.
MCAdsrs ==
  {[attack_step |-> 3, attack_shift |-> 0, attack_exponential |-> TRUE, decay_shift |-> 0,
    sustain_level |-> 8192, sustain_step |-> 0, sustain_shift |-> 0,
    sustain_falling |-> FALSE, sustain_exponential |-> FALSE,
    release_shift |-> 0, release_exponential |-> FALSE],
   [attack_step |-> 0, attack_shift |-> 0, attack_exponential |-> FALSE, decay_shift |-> 12,
    sustain_level |-> 32768, sustain_step |-> 3, sustain_shift |-> 31,
    sustain_falling |-> TRUE, sustain_exponential |-> TRUE,
    release_shift |-> 0, release_exponential |-> TRUE]}
MCReverbRegisters ==
  {[same |-> 0, wall |-> 24, comb |-> 8, apf |-> 8, offset |-> 16]}

\* Bytes of one bit: memory has sixteen, four words, and every instruction
\* address is one of 0, 4, 8 and 12.
MCMemories == {[a \in 0 .. 15 |-> IF a \in {1, 2, 7, 12, 15} THEN 1 ELSE 0]}
Mode(kernel, enabled) == [kernel |-> kernel, enabled |-> enabled]
MCStatusValues ==
  {[current |-> Mode(FALSE, TRUE), previous |-> Mode(TRUE, FALSE), old |-> Mode(TRUE, FALSE),
    mask |-> {0, 2}, boot |-> FALSE]}

\* Seconds of two frames, minutes of two seconds.  A data disc; a data track, a
\* track with a pause in the file and one with a pregap that is not; two files;
\* and CHD tracks that need padding.
MCPregap == <<0, 1, 0>>
At0 == <<0, 0, 0>>
CueTrack(type, pregap, pause, start) ==
  [type |-> type, pregap_len |-> pregap, pause_start |-> pause, track_start |-> start]
ChdTrack(type, frames, pregap) == [type |-> type, frames |-> frames, pregap_frames |-> pregap]
MCImages ==
  {[format |-> "CueBin", files |->
      <<[sectors |-> 8, tracks |-> <<CueTrack("Data", At0, {}, At0),
                                     CueTrack("Audio", At0, {<<0, 1, 1>>}, <<1, 0, 0>>),
                                     CueTrack("Audio", <<0, 0, 1>>, {}, <<1, 1, 0>>)>>]>>],
   [format |-> "CueBin", files |->
      <<[sectors |-> 2, tracks |-> <<CueTrack("Audio", <<0, 1, 0>>, {}, At0)>>],
        [sectors |-> 3, tracks |-> <<CueTrack("Audio", At0, {At0}, <<0, 0, 1>>)>>]>>],
   [format |-> "CueBin", files |->
      <<[sectors |-> 3, tracks |-> <<CueTrack("Data", At0, {}, At0)>>]>>],
   [format |-> "Chd", tracks |->
      <<ChdTrack("Data", 3, 0), ChdTrack("Audio", 5, 1), ChdTrack("Audio", 2, 0)>>]}

MCSpuNext ==
  \/ /\ focus = "voice"
     /\ VoiceNext
     /\ (voice'.adsr # voice.adsr \/ voice'.rate # voice.rate) => voice.level = 0
     /\ UNCHANGED <<irq_enabled, irq_address, irq, last_irq_bit, spuIrq, given, quick,
                    port_current, capture_addr, reverb>>
  \/ /\ focus = "ram"
     /\ \/ Clock \/ RamStep
        \/ \E reverbs, enabled \in BOOLEAN : WriteSpucnt(TRUE, reverbs, enabled)

\* Every instruction, one family of them at a time.
MCCpuNext ==
  \/ /\ focus = "loads"
     /\ \/ /\ pc < 8
           /\ \E imm \in Halfwords :
                 LoadWordLeft(0, 1, imm) \/ LoadWordRight(0, 1, imm)
        \/ pc \in {0, 8} /\ (\E imm \in {1, 2} : LoadAligned(0, 1, imm))
        \/ Write(1, 2) \/ (pc = 0 /\ MoveFromCoprocessor(0))
        \/ TakeInterrupt
        \/ pc = 4 /\ (WriteStatus \/ WriteCause({0}, FALSE, "Interrupt"))
  \/ /\ focus = "stores" /\ line' = line
     /\ \E imm \in Halfwords :
           \/ pc < 8 /\ StoreAligned(0, 1, imm)
           \/ pc >= 8 /\ (StoreWordLeft(0, 1, imm) \/ StoreWordRight(0, 1, imm))
           \/ Write(1, LoadUpper(imm))
  \/ /\ focus = "arithmetic"
     /\ \/ pc = 0 /\ (Compute(0, 1, 1) \/ Trap(1, 1, 1))
        \/ pc = 4 /\ MultiplyDivide(1, 1)
        \/ pc > 4 /\ MoveFromHiLo(1)
  \/ /\ focus = "flow"
     /\ \/ pc # 8 /\ Branch(0, 1, 0)
        \/ pc # 4 /\ BranchAndLink(1, 3)
        \/ (pc = 4 /\ JumpAbsolute) \/ (pc # 0 /\ JumpRegister(1, 1))
        \/ FetchError \/ TakeInterrupt
        \/ pc # 4 /\ SyscallOrBreak("Syscall")
        \/ pc < 8 /\ WriteStatus
        \/ pc # 0 /\ RestoreFromException
        \/ (pc = 12 /\ Sideload(0, [r \in {1} |-> 2], memory))

\* Two lines of two opcodes; words at two places of two pages are written.
MCCacheNext ==
  \/ \E a \in Locations, cached \in BOOLEAN : Fetch(a, cached)
  \/ \E a \in {0, 5}, v \in Opcodes : BusWrite(a, v) \/ WriteRam(a, v)
  \/ \E on \in BOOLEAN : WriteCacheControl(on) \/ WriteIsolate(on)

Focuses == {"voice", "ram", "loads", "stores", "arithmetic", "flow", "cache",
          "pads", "fifo", "disc"}
MCInit ==
  /\ Init /\ CpuInit /\ CacheInit /\ PadInit /\ FifoInit /\ DiscInit
  /\ focus \in Focuses
  /\ voice.rate = IF focus = "voice" THEN 16384 ELSE 0
  /\ focus \notin {"voice", "ram"} => voice.adsr = CHOOSE a \in Adsrs : TRUE
  /\ focus # "pads" => controller_type = "None"
  /\ focus # "disc" => image = CHOOSE i \in Images : TRUE
MCNext ==
  /\ \/ MCSpuNext /\ UNCHANGED <<cpuVars, cacheVars, padVars, fifoVars, discVars>>
     \/ MCCpuNext /\ UNCHANGED <<spuVars, cacheVars, padVars, fifoVars, discVars>>
     \/ /\ focus = "cache" /\ MCCacheNext
        /\ UNCHANGED <<spuVars, cpuVars, padVars, fifoVars, discVars>>
     \/ /\ focus = "pads" /\ PadNext
        /\ UNCHANGED <<spuVars, cpuVars, cacheVars, fifoVars, discVars>>
     \/ /\ focus = "fifo" /\ FifoNext
        /\ UNCHANGED <<spuVars, cpuVars, cacheVars, padVars, discVars>>
     \/ /\ focus = "disc" /\ DiscNext
        /\ UNCHANGED <<spuVars, cpuVars, cacheVars, padVars, fifoVars>>
  /\ UNCHANGED focus
MCSpec ==
  MCInit /\ [][MCNext]_<<spuVars, cpuVars, cacheVars, padVars, fifoVars, discVars, focus>>
=============================================================================
