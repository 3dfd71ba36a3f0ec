-------------------------------- MODULE Spu --------------------------------
(***************************************************************************)
(* The sound processing unit around its voices: the sound RAM with its     *)
(* interrupt address, the data port, the capture buffers and the addresses *)
(* of the reverb unit (src/crates/ps1-core/src/spu.rs and spu/reverb.rs).  *)
(***************************************************************************)
EXTENDS SpuVoice

CONSTANTS CAPTURE_LEN,  \* 1024, the size of each of four capture buffers
          U32,          \* 2^32
          ReverbRegisters \* the reverb's addresses [same, wall, comb, apf, offset]

\* Addresses are those of halfwords, and the capture buffers fit below.
SpuAssumption ==
    /\ CAPTURE_LEN \in Nat \ {0} /\ CAPTURE_LEN % 2 = 0 /\ 4 * CAPTURE_LEN <= RAM_LEN
    /\ U32 \in Nat \ {0} /\ U32 % 2 = 0
    /\ \A r \in ReverbRegisters : \A a \in {r.same, r.wall, r.comb, r.apf, r.offset} :
           a \in Nat /\ a % 2 = 0
ASSUME SpuAssumed == SpuAssumption

VARIABLES irq_enabled, irq_address, irq,  \* SoundRam
          last_irq_bit,
          spuIrq,         \* I_STAT's bit of the SPU
          port_current,   \* DataPort::current_address
          capture_addr,
          reverb,         \* ReverbUnit
          given, quick    \* an interrupt came since the flag was last cleared;
                          \* the flag was cleared in the current sample

soundRam == <<irq_enabled, irq_address, irq, last_irq_bit, spuIrq, given, quick>>
ports == <<port_current, capture_addr, reverb>>
vars == <<voiceVars, soundRam, ports>>

Halfword(a) == {a, a + 1}

(***************************************************************************)
(* The reverb unit: only where it reads and writes.  A difference of two   *)
(* addresses is a word without sign.                                       *)
(***************************************************************************)
RelativeAddress(a) ==
    LET offset == (reverb.current - reverb.start + a) % U32
    IN  reverb.start + (offset % (RAM_LEN - reverb.start))

ReverbTouches ==
    LET r == reverb.registers
        reflection == IF reverb.writes_enabled THEN {r.same - 2, r.wall, r.same} ELSE {}
        allPass == {r.apf - r.offset} \cup (IF reverb.writes_enabled THEN {r.apf} ELSE {})
    IN  UNION {Halfword(RelativeAddress(a % U32)) : a \in reflection \cup allPass \cup {r.comb}}

ReverbClock ==
    [reverb EXCEPT
        !.right = ~@,
        !.current = IF reverb.right THEN AtLeast(reverb.start, (@ + 2) % RAM_LEN) ELSE @]

CaptureTouches ==
    UNION {Halfword(n * CAPTURE_LEN + capture_addr) : n \in 0 .. 3}

-----------------------------------------------------------------------------
Init ==
    /\ VoiceInit
    /\ irq_enabled = FALSE /\ irq_address = 0 /\ irq = FALSE
    /\ last_irq_bit = FALSE /\ spuIrq = FALSE
    /\ port_current = 0
    /\ capture_addr = 0
    /\ \E r \in ReverbRegisters :
           reverb = [start |-> 0, current |-> 0, right |-> FALSE,
                     writes_enabled |-> FALSE, registers |-> r]
    /\ given = FALSE /\ quick = FALSE

(* SoundRam's index operators, on every byte of an access. *)
Access(bytes) ==
    irq' = (irq \/ (irq_enabled /\ irq_address \in bytes))

\* Mutant: the flag is compared with its value when the sample began.
RaisedSinceSample == ~irq /\ irq'

(* The CPU is told when the flag is up that was not after the last sample. *)
Raised == ~last_irq_bit /\ irq'

Interrupt ==
    /\ spuIrq' = (spuIrq \/ Raised)
    /\ last_irq_bit' = irq'
    /\ given' = (irq' /\ (given \/ Raised))

(* One sample. *)
Clock ==
    /\ ClockVoice
    /\ Access(VoiceTouches(voice) \cup ReverbTouches \cup CaptureTouches)
    /\ Interrupt
    /\ quick' = (quick /\ irq')
    /\ reverb' = ReverbClock
    /\ capture_addr' = (capture_addr + 2) % CAPTURE_LEN
    /\ UNCHANGED <<irq_enabled, irq_address, port_current>>

(* SPUCNT, bits 15, 7 and 6. *)
WriteSpucnt(reset, writes, enabled) ==
    /\ WriteSoftReset(reset)
    /\ reverb' = [reverb EXCEPT !.writes_enabled = writes]
    /\ irq_enabled' = enabled
    /\ irq' = (irq /\ enabled)
    /\ given' = (given /\ irq')
    /\ quick' = (IF enabled THEN quick ELSE last_irq_bit)
    /\ UNCHANGED <<irq_address, last_irq_bit, spuIrq, port_current, capture_addr>>

WriteIrqAddress(a) ==
    /\ irq_address' = a
    /\ UNCHANGED <<voiceVars, irq_enabled, irq, last_irq_bit, spuIrq, given, quick, ports>>

WriteTransferAddress(a) ==
    /\ port_current' = a
    /\ UNCHANGED <<voiceVars, soundRam, capture_addr, reverb>>

(* A halfword through the data port, by the CPU or by DMA, in or out. *)
UseDataPort ==
    /\ Access(Halfword(port_current))
    /\ port_current' = (port_current + 2) % RAM_LEN
    /\ UNCHANGED <<voiceVars, irq_enabled, irq_address, last_irq_bit, spuIrq, given, quick,
                   capture_addr, reverb>>

\* Mutant: the current address stays where it was.
WriteBufferStartOnly(a) ==
    /\ reverb' = [reverb EXCEPT !.start = a]
    /\ UNCHANGED <<voiceVars, soundRam, port_current, capture_addr>>

WriteBufferStart(a) ==
    /\ reverb' = [reverb EXCEPT !.start = a, !.current = a]
    /\ UNCHANGED <<voiceVars, soundRam, port_current, capture_addr>>

WriteReverbRegisters(r) ==
    /\ reverb' = [reverb EXCEPT !.registers = r]
    /\ UNCHANGED <<voiceVars, soundRam, port_current, capture_addr>>

WriteInterruptStatus ==
    /\ spuIrq' = FALSE
    /\ UNCHANGED <<voiceVars, irq_enabled, irq_address, irq, last_irq_bit, given,
                   quick, ports>>

RamStep ==
    \/ \E a \in Addresses : \/ WriteIrqAddress(a)
                            \/ WriteTransferAddress(a)
                            \/ WriteBufferStart(a)
    \/ \E r \in ReverbRegisters : WriteReverbRegisters(r)
    \/ UseDataPort
    \/ WriteInterruptStatus

Next ==
    \/ Clock
    \/ \E reset, writes, enabled \in BOOLEAN : WriteSpucnt(reset, writes, enabled)
    \/ VoiceStep /\ UNCHANGED <<soundRam, ports>>
    \/ RamStep

Spec == Init /\ [][Next]_vars
-----------------------------------------------------------------------------
(* Once a sample was clocked, a raised interrupt flag was announced to the  *)
(* CPU, once.  The exception is a flag that was cleared and raised again    *)
(* within one sample: SPU::clock compares it with the last sample's and     *)
(* sees no edge.                                                            *)
InterruptPerFlag ==
    (irq /\ last_irq_bit) => given \/ quick

(* Every access is to a byte of sound RAM, and the reverb leaves what is    *)
(* below its buffer alone.                                                  *)
RamInBounds ==
    /\ VoiceTouches(voice) \cup CaptureTouches \cup Halfword(port_current)
           \subseteq 0 .. RAM_LEN - 1
    /\ reverb.start <= reverb.current /\ reverb.current < RAM_LEN
    /\ \A b \in ReverbTouches : reverb.start <= b /\ b < RAM_LEN
=============================================================================
