------------------------------ MODULE SpuVoice ------------------------------
(***************************************************************************)
(* One of the 24 voices of the sound processing unit, with its envelope    *)
(* and its ADPCM blocks (src/crates/ps1-core/src/spu/voice.rs, envelope.rs *)
(* and adpcm.rs).  Every voice is like every other, and none writes what   *)
(* another one reads but its amplitude.                                    *)
(*                                                                         *)
(* Samples are left out; levels, counters and addresses keep their values. *)
(* Addresses are in bytes, and registers hold them in units of 8.  What    *)
(* the RAM holds is left open: a block's flags are chosen when it is read. *)
(***************************************************************************)
EXTENDS Integers

CONSTANTS RAM_LEN,      \* 512 * 1024
          Addresses,    \* the values written to address registers, times 8
          Rates,        \* the values of a voice's sample rate
          Adsrs         \* the settings of a voice's envelope

\* The fields of the ADSR registers.
AdsrSettings ==
    [attack_step : 0 .. 3, attack_shift : 0 .. 31, attack_exponential : BOOLEAN,
     decay_shift : 0 .. 15,
     sustain_level : Nat, sustain_step : 0 .. 3, sustain_shift : 0 .. 31,
     sustain_falling : BOOLEAN, sustain_exponential : BOOLEAN,
     release_shift : 0 .. 31, release_exponential : BOOLEAN]

VoiceAssumption ==
    /\ RAM_LEN \in Nat \ {0} /\ RAM_LEN % 16 = 0
    /\ Addresses \subseteq {a \in 0 .. RAM_LEN - 1 : a % 8 = 0}
    /\ Rates \subseteq Nat /\ Adsrs \subseteq AdsrSettings
    /\ \A n \in 0 .. 15 : 2^n \in Nat \ {0}   \* what a shift by n multiplies by
ASSUME VoiceAssumed == VoiceAssumption

VARIABLES voice,          \* Voice
          soft_reset,     \* ControlRegisters::soft_reset
          keptRepeat,     \* a repeat address the program set, which loops must keep
          silenced        \* a key off was heard and no key on since

voiceVars == <<voice, soft_reset, keptRepeat, silenced>>

AtMost(a, b) == IF a <= b THEN a ELSE b
AtLeast(a, b) == IF a >= b THEN a ELSE b
Clamp(x, a, b) == AtMost(b, AtLeast(a, x))
Align(a) == a - (a % 16)
None == -1
MaxLevel == 32767

-----------------------------------------------------------------------------
(***************************************************************************)
(* The envelope: EnvelopeSettings::clock.  s is [step, shift, falling,     *)
(* exponential]; an envelope of a voice has the positive phase.            *)
(***************************************************************************)
EffectiveShift(s, level) ==
    IF ~s.falling /\ s.exponential /\ level > 24576 THEN s.shift + 2 ELSE s.shift

CounterIncrement(s, shift) ==
    LET n == AtLeast(0, shift - 11)
        i == IF n < 16 THEN 32768 \div 2^n ELSE 0
    IN  IF i = 0 /\ (s.step # 3 \/ s.shift # 31) THEN 1 ELSE i

EnvelopeStep(s, shift, level) ==
    LET base == IF s.falling THEN -(8 - s.step) ELSE 7 - s.step
        step == base * 2^AtLeast(0, 11 - shift)
    IN  IF s.falling /\ s.exponential THEN (step * level) \div 32768 ELSE step

EnvelopeClock(s, level, counter) ==
    LET shift == EffectiveShift(s, level)
        c == counter + CounterIncrement(s, shift)
        l == level + EnvelopeStep(s, shift, level)
    IN  IF (c \div 32768) % 2 = 0 THEN [level |-> level, counter |-> c]
        ELSE [level |-> IF s.falling THEN Clamp(l, 0, MaxLevel) ELSE Clamp(l, -32768, MaxLevel),
              counter |-> 0]

(* AdsrEnvelope::clock: attack, decay and sustain follow one another. *)
Envelope(step, shift, falling, exponential) ==
    [step |-> step, shift |-> shift, falling |-> falling, exponential |-> exponential]
PhaseSettings(a, phase) ==
    CASE phase = "attack" -> Envelope(a.attack_step, a.attack_shift, FALSE, a.attack_exponential)
      [] phase = "decay" -> Envelope(0, a.decay_shift, TRUE, TRUE)
      [] phase = "sustain" -> Envelope(a.sustain_step, a.sustain_shift, a.sustain_falling,
                                       a.sustain_exponential)
      [] phase = "release" -> Envelope(0, a.release_shift, TRUE, a.release_exponential)

NextPhase(v) ==
    LET decayed == IF v.phase = "attack" /\ v.level = MaxLevel THEN "decay" ELSE v.phase
    IN  IF decayed = "decay" /\ v.level <= v.adsr.sustain_level THEN "sustain" ELSE decayed

AdsrClock(v) ==
    LET phase == NextPhase(v)
        e == EnvelopeClock(PhaseSettings(v.adsr, phase), v.level, v.counter)
    IN  [v EXCEPT !.phase = phase, !.level = e.level, !.counter = e.counter]

(***************************************************************************)
(* The voice.  h is the header of the block it decodes.                    *)
(***************************************************************************)
Headers == [loop_start : BOOLEAN, loop_end : BOOLEAN, loop_repeat : BOOLEAN]
Block(a) == a .. a + 15

Decode(v, h) ==
    LET repeat == IF h.loop_start /\ ~v.locked THEN v.current ELSE v.repeat
        ends == h.loop_end /\ ~h.loop_repeat
    IN  [v EXCEPT !.repeat = repeat, !.idx = 4,
                  !.current = IF h.loop_end THEN Align(repeat) ELSE (@ + 16) % RAM_LEN,
                  !.phase = IF ends THEN "release" ELSE @,
                  !.level = IF ends THEN 0 ELSE @]

Restart(v, h) ==
    Decode([v EXCEPT !.restart_pending = FALSE, !.restart_delay = 5, !.locked = FALSE,
                     !.phase = "attack", !.level = 0, !.current = Align(v.start),
                     !.pitch_counter = 0], h)

(* After a key on the voice is silent for five clocks. *)
\* Mutant: only a key off is noticed before the voice starts.
WaitForKeyOff(v) ==
    LET delay == v.restart_delay - 1
    IN  [v EXCEPT !.restart_delay = delay, !.release_pending = FALSE,
                  !.phase = IF delay <= 3 /\ v.release_pending THEN "release" ELSE @]

Wait(v) ==
    LET delay == v.restart_delay - 1
    IN  [v EXCEPT !.restart_delay = delay, !.release_pending = FALSE,
                  !.phase = IF delay <= 3 /\ (v.release_pending \/ soft_reset)
                            THEN "release" ELSE @]

(* At most four samples a clock, of 28 in a block: one block a clock at most. *)
Pitch(v) == v.pitch_counter + AtMost(16384, v.rate)
NeedsBlock(v) == v.idx + Pitch(v) \div 4096 >= 32

Play(v, h) ==
    LET released == [v EXCEPT !.release_pending = FALSE,
                              !.phase = IF v.release_pending THEN "release" ELSE @]
        next == [AdsrClock(released) EXCEPT !.pitch_counter = Pitch(v) % 4096]
        idx == v.idx + Pitch(v) \div 4096
    IN  IF NeedsBlock(v) THEN [Decode(next, h) EXCEPT !.idx = idx - 28]
        ELSE [next EXCEPT !.idx = idx]

VoiceClock(v, h) ==
    IF v.restart_pending THEN Restart(v, h)
    ELSE IF v.restart_delay # 0 THEN Wait(v)
    ELSE Play(v, h)

VoiceTouches(v) ==
    IF v.restart_pending THEN Block(Align(v.start))
    ELSE IF v.restart_delay = 0 /\ NeedsBlock(v) THEN Block(v.current)
    ELSE {}

-----------------------------------------------------------------------------
InitialVoice(a, r) ==
    [start |-> 0, repeat |-> 0, locked |-> FALSE, current |-> 0,
     restart_pending |-> FALSE, restart_delay |-> 0, release_pending |-> FALSE,
     phase |-> "release", level |-> 0, counter |-> 0, adsr |-> a,
     idx |-> 4, pitch_counter |-> 0, rate |-> r]

VoiceInit ==
    /\ \E a \in Adsrs, r \in Rates : voice = InitialVoice(a, r)
    /\ soft_reset = TRUE
    /\ keptRepeat = None /\ silenced = FALSE

(* The voice's part of a sample. *)
ClockVoice ==
    /\ \E h \in Headers : voice' = VoiceClock(voice, h)
    /\ keptRepeat' = (IF voice.restart_pending THEN None ELSE keptRepeat)
    /\ silenced' = (silenced /\ ~voice.restart_pending)
    /\ UNCHANGED soft_reset

WriteKeyOn ==
    /\ voice' = [voice EXCEPT !.restart_pending = TRUE]
    /\ UNCHANGED <<soft_reset, keptRepeat, silenced>>

(* A key off that meets a restart is only noticed from its third clock on. *)
WriteKeyOff ==
    /\ voice' = [voice EXCEPT !.release_pending = TRUE]
    /\ silenced' = (silenced \/ (~voice.restart_pending /\ voice.restart_delay <= 4))
    /\ UNCHANGED <<soft_reset, keptRepeat>>

WriteStartAddress(a) ==
    /\ voice' = [voice EXCEPT !.start = a]
    /\ UNCHANGED <<soft_reset, keptRepeat, silenced>>

WriteRepeatAddress(a) ==
    /\ voice' = [voice EXCEPT !.repeat = a, !.locked = @ \/ voice.restart_delay = 0]
    /\ keptRepeat' = (IF voice.locked \/ voice.restart_delay = 0 THEN a ELSE None)
    /\ UNCHANGED <<soft_reset, silenced>>

WriteAdsr(a) ==
    /\ voice' = [voice EXCEPT !.adsr = a]
    /\ UNCHANGED <<soft_reset, keptRepeat, silenced>>

WriteSampleRate(r) ==
    /\ voice' = [voice EXCEPT !.rate = r]
    /\ UNCHANGED <<soft_reset, keptRepeat, silenced>>

(* SPUCNT, bit 15. *)
WriteSoftReset(reset) ==
    /\ soft_reset' = reset
    /\ voice' = IF reset THEN [voice EXCEPT !.level = 0, !.phase = "release"] ELSE voice
    /\ UNCHANGED <<keptRepeat, silenced>>

VoiceStep ==
    \/ WriteKeyOn
    \/ WriteKeyOff
    \/ \E a \in Addresses : WriteStartAddress(a) \/ WriteRepeatAddress(a)
    \/ \E a \in Adsrs : WriteAdsr(a)
    \/ \E r \in Rates : WriteSampleRate(r)

VoiceNext == ClockVoice \/ VoiceStep \/ \E reset \in BOOLEAN : WriteSoftReset(reset)
VoiceSpec == VoiceInit /\ [][VoiceNext]_voiceVars
-----------------------------------------------------------------------------
(* What a program told a voice holds however writes and samples interleave: *)
(* in soft reset it is silent, and no key on makes it sound; after a key    *)
(* off it is released until the next key on; a repeat address that was set  *)
(* is kept from the loop flags of blocks until the next key on; and its     *)
(* level and its place in the block are such that the arithmetic and the    *)
(* slices of the code are defined.                                          *)
VoiceObeys ==
    /\ soft_reset => voice.level = 0
    /\ (silenced /\ ~voice.release_pending) => voice.phase = "release"
    /\ keptRepeat # None => voice.repeat = keptRepeat
    /\ voice.level \in 0 .. MaxLevel
    /\ voice.idx \in 4 .. 31 /\ voice.pitch_counter \in 0 .. 4095
    /\ voice.current % 16 = 0 /\ voice.current \in 0 .. RAM_LEN - 16
=============================================================================
