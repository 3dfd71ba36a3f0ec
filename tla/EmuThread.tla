------------------------------ MODULE EmuThread ------------------------------
(***************************************************************************)
(* The emulator thread and what runs beside it (emuthread.rs): the main    *)
(* thread, which sends it commands, the audio thread, which takes the      *)
(* samples it queues, and the GPU, which finishes the frames it submits.   *)
(*                                                                         *)
(* Threads share the queue of samples, behind a lock, and atomic values;   *)
(* a step ends wherever another thread may see or change one of them.      *)
(***************************************************************************)
EXTENDS Integers, Sequences

CONSTANTS
  SwapChainLen,  \* 3
  FrameSamples,  \* most samples a frame gives, with those of a frame that failed
  MaxThreshold,  \* highest sync threshold of a configuration
  DeviceLen,     \* samples the audio device takes at once
  MaxCommands    \* bound on the commands that wait

ASSUME EmuThreadAssumptions ==
  /\ {SwapChainLen, DeviceLen, MaxThreshold} \subseteq Nat \ {0}
  /\ FrameSamples \in Nat

Thresholds == 1..MaxThreshold

VARIABLES
  pc,           \* where the emulator thread is
  paused, step_frame, fast_forward,
  threshold,    \* audio_sync_threshold
  quota,        \* samples the frame will still give
  samples,      \* length of the audio queue
  playing,      \* the audio device takes samples; Stop has not been sent
  renders,      \* in_progress_renders
  submitted,    \* submissions the GPU works on, with a callback
  finished,     \* submissions it has finished whose callbacks wait for a poll
  async,        \* async_rendering
  commands      \* the channel

audio == <<threshold, quota, samples, playing>>
gpu == <<renders, submitted, finished, async>>
flags == <<paused, step_frame, fast_forward>>
vars == <<pc, flags, audio, gpu, commands>>

Command(kind, value) == [kind |-> kind, value |-> value]

\* The last stands for commands that leave the loop's own state alone: input,
\* Reset, ChangeDisc, RemoveDisc, SaveState and LoadState.
Commands ==
  {Command("Stop", 0), Command("TogglePause", 0), Command("StepFrame", 0),
   Command("FastForward", 0), Command("FastForward", 1), Command("Other", 0)}
    \cup {Command("UpdateConfig", t) : t \in Thresholds}

Init ==
  /\ pc = "loop"
  /\ paused = FALSE /\ step_frame = FALSE /\ fast_forward = FALSE
  /\ threshold \in Thresholds /\ quota = 0 /\ samples = 0 /\ playing = TRUE
  /\ renders = 0 /\ submitted = 0 /\ finished = 0 /\ async \in BOOLEAN
  /\ commands = <<>>

-----------------------------------------------------------------------------
(***************************************************************************)
(* A frame                                                                 *)
(***************************************************************************)
WantsFrame == ~paused \/ step_frame

StartFrame ==
  /\ pc = "loop"
  /\ IF WantsFrame /\ (fast_forward \/ samples < threshold)
     THEN pc' = "frame" /\ quota' \in 0..FrameSamples
     ELSE pc' = "truncate" /\ UNCHANGED quota
  /\ UNCHANGED <<flags, threshold, samples, playing, gpu, commands>>

\* The audio buffer is full before the frame ends.
DrainSamples ==
  /\ pc = "frame"
  /\ \E n \in 1..quota : samples' = samples + n /\ quota' = quota - n
  /\ UNCHANGED <<pc, flags, threshold, playing, gpu, commands>>

\* The error is only logged.
FrameFails ==
  /\ pc = "frame" /\ pc' = "truncate"
  /\ step_frame' = FALSE /\ quota' = 0
  /\ UNCHANGED <<paused, fast_forward, threshold, samples, playing, gpu, commands>>

TooManyRenders == renders >= SwapChainLen

RenderFrame ==
  /\ pc = "frame"
  /\ pc' = IF TooManyRenders THEN "wait" ELSE "submit"
  /\ UNCHANGED <<flags, audio, gpu, commands>>

\* Mutant: the callbacks are left to others.
NoPoll == UNCHANGED <<renders, finished, submitted, async>>

\* A poll runs the callbacks of what the GPU has finished.
Poll == renders' = renders - finished /\ finished' = 0 /\ UNCHANGED <<submitted, async>>

\* The frame is skipped, yet not before another one is complete.
WaitForRenders ==
  /\ pc = "wait"
  /\ IF TooManyRenders
     THEN Poll /\ UNCHANGED pc
     ELSE pc' = "audio" /\ UNCHANGED gpu
  /\ UNCHANGED <<flags, audio, commands>>

SubmitFrame ==
  /\ pc = "submit" /\ pc' = "push"
  /\ renders' = renders + 1
  /\ UNCHANGED <<flags, audio, submitted, finished, async, commands>>

\* The frame enters the swap chain. A synchronous thread then waits for the
\* GPU, which also ends earlier submissions.
PushFrame ==
  /\ pc = "push"
  /\ IF async
     THEN pc' = "audio" /\ submitted' = submitted + 1
     ELSE pc' = "sync" /\ UNCHANGED submitted
  /\ UNCHANGED <<flags, audio, renders, finished, async, commands>>

\* Mutant: only the callbacks count the renders down.
CompleteByCallback == renders' = renders - finished

Complete == renders' = renders - finished - 1

WaitForSubmission ==
  /\ pc = "sync" /\ submitted = 0
  /\ pc' = "audio"
  /\ Complete /\ finished' = 0
  /\ UNCHANGED <<flags, audio, submitted, async, commands>>

\* drain_audio_samples; the memory cards are then saved.
EndFrame ==
  /\ pc = "audio" /\ pc' = "truncate"
  /\ samples' = samples + quota /\ quota' = 0
  /\ step_frame' = FALSE
  /\ UNCHANGED <<paused, fast_forward, threshold, playing, gpu, commands>>

-----------------------------------------------------------------------------
(***************************************************************************)
(* Fast forward runs ahead of the audio thread, whose queue is cut down.   *)
(***************************************************************************)
\* Mutant: only a thread that has not just run a frame looks.
AheadIfIdle == fast_forward /\ ~WantsFrame /\ samples >= 2 * threshold

Ahead == fast_forward /\ samples >= 2 * threshold

CheckSamples ==
  /\ pc = "truncate"
  /\ pc' = IF Ahead THEN "dropping" ELSE "commands"
  /\ UNCHANGED <<flags, audio, gpu, commands>>

TruncateFront ==
  /\ pc = "dropping" /\ pc' = "commands"
  /\ samples' = IF samples > threshold THEN threshold ELSE samples
  /\ UNCHANGED <<flags, threshold, quota, playing, gpu, commands>>

-----------------------------------------------------------------------------
(***************************************************************************)
(* The commands                                                            *)
(***************************************************************************)
\* Mutant: a paused thread does not stop.
HandleRunning(command) ==
  /\ pc' = IF command.kind = "Stop" /\ ~paused THEN "stopped" ELSE pc
  /\ paused' = (paused # (command.kind = "TogglePause"))
  /\ step_frame' = (step_frame \/ command.kind = "StepFrame")
  /\ fast_forward' = IF command.kind = "FastForward" THEN command.value = 1 ELSE fast_forward
  /\ threshold' = IF command.kind = "UpdateConfig" THEN command.value ELSE threshold

\* The end of fast forward also clears the swap chain.
Handle(command) ==
  /\ pc' = IF command.kind = "Stop" THEN "stopped" ELSE pc
  /\ paused' = (paused # (command.kind = "TogglePause"))
  /\ step_frame' = (step_frame \/ command.kind = "StepFrame")
  /\ fast_forward' = IF command.kind = "FastForward" THEN command.value = 1 ELSE fast_forward
  /\ threshold' = IF command.kind = "UpdateConfig" THEN command.value ELSE threshold

HandleCommand ==
  /\ pc = "commands" /\ commands # <<>>
  /\ Handle(Head(commands))
  /\ commands' = Tail(commands)
  /\ UNCHANGED <<quota, samples, playing, gpu>>

LastCommand ==
  /\ pc = "commands" /\ commands = <<>>
  /\ pc' = "loop"
  /\ UNCHANGED <<flags, audio, gpu, commands>>

EmulatorThread ==
  \/ StartFrame \/ DrainSamples \/ FrameFails \/ RenderFrame \/ WaitForRenders
  \/ SubmitFrame \/ PushFrame \/ WaitForSubmission \/ EndFrame
  \/ CheckSamples \/ TruncateFront \/ HandleCommand \/ LastCommand

-----------------------------------------------------------------------------
(***************************************************************************)
(* The others                                                              *)
(***************************************************************************)
\* A new configuration may change async_rendering at once. After Stop the
\* main thread pauses the audio device and forgets the thread.
Send(command) ==
  /\ playing /\ Len(commands) < MaxCommands
  /\ commands' = Append(commands, command)
  /\ async' \in IF command.kind = "UpdateConfig" THEN BOOLEAN ELSE {async}
  /\ playing' = (command.kind # "Stop")
  /\ UNCHANGED <<pc, flags, threshold, quota, samples, renders, submitted, finished>>

\* Displaying a frame, like sending one to the GPU, submits to the same queue,
\* which polls.
Display ==
  /\ finished > 0
  /\ Poll
  /\ UNCHANGED <<pc, flags, audio, commands>>

AudioCallback ==
  /\ playing /\ samples > 0
  /\ samples' = IF samples > DeviceLen THEN samples - DeviceLen ELSE 0
  /\ UNCHANGED <<pc, flags, threshold, quota, playing, gpu, commands>>

GpuFinishes ==
  /\ submitted > 0
  /\ submitted' = submitted - 1 /\ finished' = finished + 1
  /\ UNCHANGED <<pc, flags, audio, renders, async, commands>>

Next ==
  \/ EmulatorThread \/ (\E command \in Commands : Send(command))
  \/ Display \/ AudioCallback \/ GpuFinishes

\* Threads and devices run on. A user does not send commands so fast that the
\* thread, which handles one in microseconds, never finds its channel empty.
Fairness ==
  /\ WF_vars(EmulatorThread) /\ WF_vars(AudioCallback) /\ WF_vars(GpuFinishes)
  /\ SF_vars(LastCommand)

Spec == Init /\ [][Next]_vars /\ Fairness

-----------------------------------------------------------------------------
TypeOK ==
  /\ pc \in {"loop", "frame", "wait", "submit", "push", "sync", "audio",
             "truncate", "dropping", "commands", "stopped"}
  /\ {paused, step_frame, fast_forward, playing, async} \subseteq BOOLEAN
  /\ threshold \in Thresholds /\ quota \in Nat /\ samples \in Nat
  /\ {renders, submitted, finished} \subseteq 0..SwapChainLen
  /\ commands \in Seq(Commands)

\* Every render in progress will count itself down exactly once, by its
\* callback or by the emulator thread, so that the counter, whose comparison
\* and increment are two steps, neither passes the limit nor wraps around.
RendersCounted ==
  /\ renders = submitted + finished + (IF pc \in {"push", "sync"} THEN 1 ELSE 0)
  /\ renders <= SwapChainLen
  /\ pc = "submit" => renders < SwapChainLen

\* The queue of samples, and with it the audio's lag, stays bounded, though a
\* frame is only held back before it starts and fast forward is ordered at any
\* time. A frame starts below Backlog.
Backlog ==
  IF FrameSamples > MaxThreshold THEN MaxThreshold + FrameSamples ELSE 2 * MaxThreshold

AudioBounded == samples + quota < Backlog + FrameSamples

\* A frame that is due, because the game runs or a step was ordered, comes,
\* unless a command takes it back or ends the thread.
FramesCome ==
  WantsFrame ~> (pc = "frame" \/ ~WantsFrame \/ pc = "stopped")

\* Stop ends the thread, even amid renders and with the audio device paused.
StopEnds == ~playing ~> pc = "stopped"
=============================================================================
