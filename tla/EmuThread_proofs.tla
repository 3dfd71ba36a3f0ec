--------------------------- MODULE EmuThread_proofs ---------------------------
(***************************************************************************)
(* Types, the count of the renders in progress and the bound of the audio  *)
(* queue, for every length of the swap chain and every configuration.      *)
(***************************************************************************)
EXTENDS EmuThread, TLAPS

\* What the steps preserve: types up to the bounds of the counters, which
\* follow from the count.
Types ==
  /\ pc \in {"loop", "frame", "wait", "submit", "push", "sync", "audio",
             "truncate", "dropping", "commands", "stopped"}
  /\ paused \in BOOLEAN /\ step_frame \in BOOLEAN /\ fast_forward \in BOOLEAN
  /\ playing \in BOOLEAN /\ async \in BOOLEAN
  /\ threshold \in Thresholds /\ quota \in Nat /\ samples \in Nat
  /\ renders \in Nat /\ submitted \in Nat /\ finished \in Nat
  /\ commands \in Seq(Commands)

Counted == Types /\ RendersCounted

\* A configuration is one of those the user chooses from.
LEMMA CommandValues ==
  ASSUME NEW c \in Commands, c.kind = "UpdateConfig"
  PROVE  c.value \in Thresholds
<1>1. CASE \E t \in Thresholds : c = Command("UpdateConfig", t)
  BY <1>1 DEF Command
<1>2. CASE c \in {Command("Stop", 0), Command("TogglePause", 0), Command("StepFrame", 0),
                 Command("FastForward", 0), Command("FastForward", 1), Command("Other", 0)}
  <2>1. c.kind # "UpdateConfig"
    BY <1>2 DEF Command
  <2> QED BY <2>1
<1> QED BY <1>1, <1>2 DEF Commands

\* They are numbers, which the backends do not see in a set of both.
LEMMA Numbers ==
  /\ MaxThreshold \in Nat /\ MaxThreshold > 0 /\ FrameSamples \in Nat /\ DeviceLen \in Nat
  /\ Backlog \in Nat /\ Backlog >= 2 * MaxThreshold /\ Backlog >= MaxThreshold + FrameSamples
BY EmuThreadAssumptions DEF EmuThreadAssumptions, Backlog

\* At the start no render is in progress.
LEMMA InitCounted == Init => Counted
<1> SUFFICES ASSUME Init PROVE Counted
  OBVIOUS
<1>1. Types
  <2>1. threshold \in Thresholds /\ async \in BOOLEAN /\ commands = <<>> /\ pc = "loop"
    BY DEF Init
  <2>2. /\ paused \in BOOLEAN /\ step_frame \in BOOLEAN /\ fast_forward \in BOOLEAN
        /\ playing \in BOOLEAN
    BY Zenon DEF Init
  <2> QED BY <2>1, <2>2 DEF Init, Types
<1>2. RendersCounted
  BY EmuThreadAssumptions DEF Init, RendersCounted, EmuThreadAssumptions
<1> QED BY <1>1, <1>2 DEF Counted

\* One step for each action; only those of a frame, the poll and the GPU touch
\* the count.
LEMMA NextCounted == Counted /\ [Next]_vars => Counted'
<1> SUFFICES ASSUME Counted, [Next]_vars PROVE Counted'
  OBVIOUS
<1> USE EmuThreadAssumptions DEF EmuThreadAssumptions, Counted, Types, RendersCounted
<1>1. CASE StartFrame
  BY <1>1 DEF StartFrame, flags, gpu
<1>2. CASE DrainSamples
  BY <1>2 DEF DrainSamples, flags, gpu
<1>3. CASE FrameFails
  BY <1>3 DEF FrameFails, gpu
<1>4. CASE RenderFrame
  BY <1>4 DEF RenderFrame, TooManyRenders, flags, audio, gpu
<1>5. CASE WaitForRenders
  <2>1. CASE TooManyRenders
    BY <1>5, <2>1 DEF WaitForRenders, Poll, flags, audio
  <2>2. CASE ~TooManyRenders
    BY <1>5, <2>2 DEF WaitForRenders, flags, audio, gpu
  <2> QED BY <2>1, <2>2
<1>6. CASE SubmitFrame
  BY <1>6 DEF SubmitFrame, flags, audio
<1>7. CASE PushFrame
  BY <1>7 DEF PushFrame, flags, audio
<1>8. CASE WaitForSubmission
  BY <1>8 DEF WaitForSubmission, Complete, flags, audio
<1>9. CASE EndFrame
  <2>1. samples' \in Nat /\ quota' \in Nat
    BY <1>9 DEF EndFrame
  <2>2. step_frame' \in BOOLEAN
    BY <1>9, Zenon DEF EndFrame
  <2> QED BY <1>9, <2>1, <2>2 DEF EndFrame, gpu
<1>10. CASE CheckSamples
  BY <1>10 DEF CheckSamples, flags, audio, gpu
<1>11. CASE TruncateFront
  <2>1. samples' \in Nat
    BY <1>11, Numbers DEF TruncateFront, Thresholds
  <2> QED BY <1>11, <2>1 DEF TruncateFront, flags, gpu
<1>12. CASE HandleCommand
  <2>1. Head(commands) \in Commands /\ Tail(commands) \in Seq(Commands)
    BY <1>12 DEF HandleCommand
  <2>2. threshold' \in Thresholds
    BY <1>12, <2>1, CommandValues DEF HandleCommand, Handle
  <2>3. /\ paused' \in BOOLEAN /\ step_frame' \in BOOLEAN /\ fast_forward' \in BOOLEAN
    BY <1>12, Zenon DEF HandleCommand, Handle
  <2>4. pc = "commands" /\ pc' \in {"commands", "stopped"}
    BY <1>12 DEF HandleCommand, Handle
  <2> QED BY <1>12, <2>1, <2>2, <2>3, <2>4 DEF HandleCommand, gpu
<1>13. CASE LastCommand
  BY <1>13 DEF LastCommand, flags, audio, gpu
<1>14. CASE \E command \in Commands : Send(command)
  <2> PICK command \in Commands : Send(command)
    BY <1>14
  <2>1. commands' \in Seq(Commands) /\ playing' \in BOOLEAN /\ async' \in BOOLEAN
    BY DEF Send
  <2> QED BY <2>1 DEF Send, flags
<1>15. CASE Display
  BY <1>15 DEF Display, Poll, flags, audio
<1>16. CASE AudioCallback
  BY <1>16 DEF AudioCallback, flags, gpu
<1>17. CASE GpuFinishes
  BY <1>17 DEF GpuFinishes, flags, audio
<1>18. CASE UNCHANGED vars
  BY <1>18 DEF vars, flags, audio, gpu
<1> QED
  BY <1>1, <1>2, <1>3, <1>4, <1>5, <1>6, <1>7, <1>8, <1>9, <1>10, <1>11, <1>12,
     <1>13, <1>14, <1>15, <1>16, <1>17, <1>18 DEF Next, EmulatorThread

LEMMA CountedAlways == Spec => []Counted
<1>1. Init => Counted
  BY InitCounted
<1>2. Counted /\ [Next]_vars => Counted'
  BY NextCounted
<1> QED BY <1>1, <1>2, PTL DEF Spec

\* Type correctness, the counters' bounds included.
THEOREM TypeInvariant == Spec => []TypeOK
<1>1. Counted => TypeOK
  <2> SUFFICES ASSUME Counted PROVE TypeOK
    OBVIOUS
  <2>1. {renders, submitted, finished} \subseteq 0..SwapChainLen
    BY EmuThreadAssumptions DEF EmuThreadAssumptions, Counted, Types, RendersCounted
  <2>2. {paused, step_frame, fast_forward, playing, async} \subseteq BOOLEAN
    BY Zenon DEF Counted, Types
  <2> QED BY <2>1, <2>2 DEF TypeOK, Counted, Types
<1> QED BY <1>1, CountedAlways, PTL

\* The count of render_frame: however the threads interleave, each render is
\* counted once until it is complete, and never more than the swap chain holds.
THEOREM RendersAreCounted == Spec => []RendersCounted
<1>1. Counted => RendersCounted
  BY DEF Counted
<1> QED BY <1>1, CountedAlways, PTL

-----------------------------------------------------------------------------
(***************************************************************************)
(* AudioBounded does not say how the samples of a frame fit in: a frame    *)
(* starts below Backlog because, after it, fast forward drops samples or   *)
(* the frame has started below the threshold; what has been ordered since  *)
(* takes effect with the next frame only.                                  *)
(***************************************************************************)
InFrame == pc \in {"frame", "wait", "submit", "push", "sync", "audio"}

Backlogged ==
  /\ Types
  /\ samples + quota < Backlog + FrameSamples
  /\ ~InFrame => quota = 0
  /\ InFrame /\ ~fast_forward => samples + quota < MaxThreshold + FrameSamples
  /\ pc = "truncate" /\ ~fast_forward => samples < Backlog
  /\ pc \in {"loop", "commands", "stopped"} => samples < Backlog

\* The arithmetic of a queue that grows by a frame, or shrinks.
LEMMA Sums ==
  /\ \A a, b, c, d \in Nat : a < c /\ b <= d => a + b < c + d
  /\ \A a, b, c, d \in Nat : a <= c => (c + b < d => a + b < d)
  /\ \A a, b, c \in Nat : a <= b /\ b < c => a < c
OBVIOUS

\* The queue is empty at the start.
LEMMA InitBacklogged == Init => Backlogged
BY InitCounted, Numbers DEF Init, Counted, Backlogged, InFrame

\* One step for each action that changes the queue, the flags or pc.
LEMMA NextBacklogged == Backlogged /\ Types' /\ [Next]_vars => Backlogged'
<1> SUFFICES ASSUME Backlogged, Types', [Next]_vars PROVE Backlogged'
  OBVIOUS
<1>0. /\ MaxThreshold \in Nat /\ FrameSamples \in Nat /\ DeviceLen \in Nat
      /\ Backlog \in Nat /\ Backlog >= 2 * MaxThreshold
      /\ Backlog >= MaxThreshold + FrameSamples
  BY Numbers
<1>t. /\ threshold \in Nat /\ threshold <= MaxThreshold /\ samples \in Nat /\ quota \in Nat
      /\ samples' \in Nat /\ quota' \in Nat
  BY Numbers DEF Backlogged, Types, Thresholds
<1>c. Backlog' = Backlog
  BY DEF Backlog
<1> HIDE DEF Backlog
<1>1. CASE StartFrame
  <2>1. CASE WantsFrame /\ (fast_forward \/ samples < threshold)
    <3>1. /\ pc' = "frame" /\ quota' <= FrameSamples
          /\ samples' = samples /\ fast_forward' = fast_forward /\ samples < Backlog
      BY <1>0, <1>t, <1>1, <2>1 DEF StartFrame, Backlogged, flags
    <3>2. ~fast_forward => samples < threshold
      BY <2>1
    <3>3. samples' + quota' < Backlog' + FrameSamples
      BY <1>0, <1>t, <1>c, <3>1, Sums
    <3>4. ASSUME ~fast_forward' PROVE samples' + quota' < MaxThreshold + FrameSamples
      <4>1. samples' < MaxThreshold
        BY <1>0, <1>t, <3>1, <3>2, <3>4
      <4> QED BY <1>0, <1>t, <3>1, <4>1, Sums
    <3>5. InFrame' /\ pc' # "truncate" /\ pc' \notin {"loop", "commands", "stopped"}
      BY <3>1 DEF InFrame
    <3> QED BY <3>3, <3>4, <3>5 DEF Backlogged
  <2>2. CASE ~(WantsFrame /\ (fast_forward \/ samples < threshold))
    BY <1>0, <1>t, <1>c, <1>1, <2>2 DEF StartFrame, Backlogged, InFrame, flags
  <2> QED BY <2>1, <2>2
<1>2. CASE DrainSamples
  BY <1>0, <1>t, <1>c, <1>2 DEF DrainSamples, Backlogged, InFrame, flags
<1>3. CASE FrameFails
  BY <1>0, <1>t, <1>c, <1>3 DEF FrameFails, Backlogged, InFrame
<1>4. CASE RenderFrame \/ SubmitFrame \/ PushFrame \/ WaitForSubmission \/ WaitForRenders
  <2>1. InFrame /\ InFrame' /\ UNCHANGED <<fast_forward, samples, quota>>
    BY <1>4 DEF RenderFrame, SubmitFrame, PushFrame, WaitForSubmission, WaitForRenders,
                InFrame, flags, audio
  <2>2. pc' # "truncate" /\ pc' \notin {"loop", "commands", "stopped"}
    BY <2>1 DEF InFrame
  <2>3. samples' = samples /\ quota' = quota /\ fast_forward' = fast_forward
    BY <2>1
  <2> QED BY <1>0, <1>t, <1>c, <2>1, <2>2, <2>3 DEF Backlogged
<1>5. CASE EndFrame
  BY <1>0, <1>t, <1>c, <1>5 DEF EndFrame, Backlogged, InFrame
<1>6. CASE CheckSamples
  <2>1. CASE Ahead
    BY <1>0, <1>t, <1>c, <1>6, <2>1 DEF CheckSamples, Backlogged, InFrame, flags, audio
  <2>2. CASE ~Ahead
    BY <1>0, <1>t, <1>c, <1>6, <2>2 DEF CheckSamples, Ahead, Backlogged, InFrame, flags, audio
  <2> QED BY <2>1, <2>2
<1>7. CASE TruncateFront
  BY <1>0, <1>t, <1>c, <1>7, Numbers DEF TruncateFront, Backlogged, InFrame, flags
<1>8. CASE HandleCommand
  <2>1. pc = "commands" /\ pc' \in {"commands", "stopped"} /\ UNCHANGED <<samples, quota>>
    BY <1>8 DEF HandleCommand, Handle
  <2> QED BY <1>0, <1>t, <1>c, <2>1 DEF Backlogged, InFrame
<1>9. CASE LastCommand
  BY <1>0, <1>t, <1>c, <1>9 DEF LastCommand, Backlogged, InFrame, flags, audio
<1>10. CASE AudioCallback
  <2>1. samples' <= samples /\ pc' = pc /\ fast_forward' = fast_forward /\ quota' = quota
    BY <1>0, <1>t, <1>10 DEF AudioCallback, flags
  <2>2. InFrame' <=> InFrame
    BY <2>1 DEF InFrame
  <2>3. \A n \in Nat : samples + quota < n => samples' + quota' < n
    BY <1>t, <2>1, Sums
  <2>4. samples' + quota' < Backlog' + FrameSamples
    BY <1>0, <1>c, <2>3 DEF Backlogged
  <2>5. InFrame' /\ ~fast_forward' => samples' + quota' < MaxThreshold + FrameSamples
    BY <1>0, <2>1, <2>2, <2>3 DEF Backlogged
  <2>6. (pc' = "truncate" /\ ~fast_forward') \/ pc' \in {"loop", "commands", "stopped"}
          => samples' < Backlog'
    BY <1>0, <1>t, <1>c, <2>1, Sums DEF Backlogged
  <2> QED BY <2>1, <2>2, <2>4, <2>5, <2>6 DEF Backlogged
<1>11. CASE (\E command \in Commands : Send(command)) \/ Display \/ GpuFinishes \/ UNCHANGED vars
  <2>1. UNCHANGED <<pc, fast_forward, samples, quota>>
    BY <1>11 DEF Send, Display, GpuFinishes, vars, flags, audio
  <2> QED BY <1>0, <1>t, <1>c, <2>1 DEF Backlogged, InFrame
<1> QED
  BY <1>1, <1>2, <1>3, <1>4, <1>5, <1>6, <1>7, <1>8, <1>9, <1>10, <1>11
     DEF Next, EmulatorThread

\* The audio's lag is bounded for every threshold, however long frames are.
THEOREM AudioIsBounded == Spec => []AudioBounded
<1>1. Backlogged => AudioBounded
  BY DEF Backlogged, AudioBounded
<1>2. Counted => Types
  BY DEF Counted
<1> QED BY <1>1, <1>2, InitBacklogged, NextBacklogged, CountedAlways, PTL DEF Spec
=============================================================================
