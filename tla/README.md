# CoffeePSX: TLA+ models, model checking and proofs

A verification development of CoffeePSX, a PlayStation emulator written in Rust
(`src/crates/*`). It has TLA+ modules translated from the source, TLC
configurations that check them on small instances, and theorems checked by
TLAPS for every value of the constants. `PROJECT.json` maps each definition to
the lines it stands for and lists the runs, mutants, hazards, findings and
theorems.

Contents: [the system](#the-system), [plan](#plan),
[modules and the code](#modules-and-the-code), [runs](#runs),
[findings](#findings), [fairness](#fairness), [proofs](#proofs),
[not modelled](#not-modelled).

## The system

Six crates. `ps1-core` is the console, `cdrom` reads disc images,
`coffeepsx-frontend` is the program with its windows and threads, `proc-macros`
and two small binaries hold no state worth a model.

The console is sequential: one call of `Ps1Emulator::tick` (`api.rs:428`) lets
the CPU run until the scheduler's next event, then pops and handles the events
that are due. Every component is *lazy*. It notes when it was last brought up
to date, makes up for the time that has passed when one of its registers is
used (`catch_up`), and schedules an event for the next moment at which it must
act by itself. What goes wrong in such code is an event that is not moved when
a register changes, one that comes late, or a catch-up whose result depends on
how often it is called. The frontend is concurrent: an emulator thread, the
main thread, the audio callback and the GPU share counters, a queue and a
channel.

| Component | State | Operations and interaction | What is hard | What makes it correct |
| --- | --- | --- | --- | --- |
| **Event scheduler** `scheduler.rs`, `scheduler/heap.rs` | cycle counter; binary heap of (type, cycle), at most one per type | `update_or_push`, `min_or_push`, `remove`, `pop_ready`, used by every lazy component | the heap is edited in its middle; two assertions | pops come in order of time; nothing lost or doubled; assertions hold |
| **Tick** `api.rs` | CPU wait cycles, frame flags | `tick`, `render_frame`, `process_scheduler_events`, `change_disc`, `reset` | an error leaves the loop between pop and push | every periodic event is pushed again; a frame ends |
| **Interrupts** `interrupts.rs` | I_STAT, I_MASK | components set bits, the program ANDs them away | edges against levels | no edge is lost |
| **CD-ROM controller** `cd.rs`, `cd/*` | command and drive state machines, flags, FIFOs, sector buffer | commands and acknowledgements from the host, a 44100 Hz clock, disc changes | two machines raise into one set of flags; the disc may vanish at any time | interrupts and sectors survive until acknowledged; no drive reads without a disc; no counter wraps |
| **DMA** `dma.rs` | DPCR, DICR, channel configurations, next active cycles | transfers started by registers, carried on by the ProcessDma event, CPU waits taken by `tick` | priorities, stalls with retries, edges of a combined flag | no transfer is forgotten; priorities are kept; ends are flagged |
| **Serial ports** `sio.rs` | transmit FIFO, acknowledge pulse, irq and a pending irq, receive FIFO | polled by games; two events; controllers and memory cards answer | aborted bytes leave events behind; late catch-ups | bytes stay in order; each interrupt arrives once |
| **Controllers** `sio/controllers.rs`, `rxfifo.rs` | position in the packet, configuration mode, rumble | one byte in, one out | mode changes within a packet | the answer belongs to the packet's command |
| **Memory cards** `sio/memcard.rs`, `emuthread.rs`, `config.rs` | data, dirty mark, position in an access; paths and files | byte protocol; saved at the end of a frame; exchanged by commands | accesses cut short; failed saves; paths, cards and files changed one after another | what was saved is never lost, and goes to its own file |
| **Timers, video clock** `timers.rs` | three counters with targets and modes; line, cycle, display ranges | register accesses, GP1 commands, VBlank and timer events | four clocking paths, synchronization, two clocks with a rational ratio | interrupts on time; the VBlank at its line; reading disturbs nothing |
| **MDEC** `mdec.rs` | command state, input and output queues, scale tables | DMA or CPU words in, blocks out | partial blocks, full queues | blocks come complete and in order |
| **GPU commands** `gpu.rs`, `gp0.rs`, `gp1.rs` | GP0 state machine, draw settings | words of commands and transfers | resets amid a transfer | as many words as a command has |
| **Rasterizers** `gpu/rasterizer/*` | one copy of VRAM (software) or four (hardware); batches of draw commands; hazard bitmap | draws, fills, copies, display | a draw that reads what a pending one writes | each read sees the draws before it |
| **SPU** `spu.rs`, `spu/*` | 24 voices with envelopes, capture buffers, data FIFO, IRQ address | registers, DMA, the 44100 Hz clock | block flags, IRQ address at the wrap of a buffer | an interrupt for each access of the address |
| **CPU, COP0, GTE, PGXP** `cpu.rs`, `cpu/*`, `pgxp.rs` | registers, delayed load, delay slot, exception stack, I-cache | executes instructions | exceptions in delay slots, loads overtaken | EPC and the stack restart the right instruction |
| **Bus, memory** `bus.rs`, `memory.rs` | RAM, scratchpad | address decoding | none | |
| **Disc images** `crates/cdrom` | track list, file handles | reads of a sector by its time | gaps, files per track, time arithmetic | each sector from its bytes |
| **Emulator thread** `emuthread.rs`, `emuthread/*` | audio queue, renders in progress, pause, step and fast-forward flags, channel of commands | frames, throttling, commands between frames; audio callback; GPU callbacks | checks and increments on shared counters, waits on another thread's poll | bounded lag, exact counts, no lost frame, Stop ends it |
| **Frontend** `app.rs`, `emustate.rs`, `main.rs`, `guistate.rs`, `config.rs` | settings, windows, handle of the thread | sends commands, opens and closes emulators | old and new emulator threads overlap | files have one user at a time |

Some facts about the system that the properties below only touch:

- A card that is not dirty may still differ from its file: the mark is set by a
  write's last byte only (`memcard.rs:187-192`) and cleared before the save is
  tried (`memcard.rs:37-41`). `SavedOrDirty` says what holds in spite of it.
- While timer 0 or 1 is synchronized, the clocks of either one that counts
  system cycles are computed back from GPU cycles and rounded down with every
  use (`timers.rs:517`), so `ReadsDoNotDisturb` is restricted to unsynchronized
  timers.
- The event of a timer that counts dots is not scheduled anew when GP1 changes
  the dot clock's divider; `IrqsOnTime` is therefore about timers that count
  CPU cycles.
- A timer that has an interrupt at its target, does not return there, and is reset
  by synchronization, passes the target again earlier than its event, which is
  not moved (`timers.rs:782-800`, `838-857`): the interrupt comes with the next use
  of a timer. `IrqsOnTime` excepts it (`ResetsBehindTarget`).
- The drive adds INT4 to flags that are already set (`audio.rs:135`), and a write
  clears only the flags it names (`cd.rs:95`). A host that acknowledges some of
  them leaves an interrupt pending without an edge, and I_STAT clear:
  `NoLostInterrupt` says that nothing else loses one.
- A command written to the CD-ROM controller replaces the one in progress with
  the second response it still owes (`cd.rs:640`).
- A read of a disc image that fails leaves the remembered position or hunk as if
  it had succeeded (`cuebin.rs:90-98`, `chd.rs:174-180`): `AsLaidOut` is claimed of
  reads after a seek or load that succeeded.
- The hardware rasterizer marks, for a copy that wraps at the right side alone, as
  many rows as the copy is wide (`wgpuhardware.rs:982`): too few if it is higher,
  and rows that do not exist, with a panic, if they reach below the bottom.
- It looks for a texture where its coordinates are, not where a texture window
  moves them (`:882`; `draw_common.wgsl:178`), and rounds the width of a 4 or 8 bit
  texture in pixels down (`:899`), so that a part of a pixel at its end is not
  looked at. It marks no tiles for lines (`:1065`, a TODO).
- A transfer that checks the mask bit leaves the pixels of `native_vram` that have
  it, which may be older than what was rendered (`cpuvramblit.wgsl:25`; nothing
  is copied back first, `:1120`). The whole rectangle is then drawn over
  `scaled_vram` (`:629`): what was rendered there is lost.
- A fill or a transfer that wraps at the right side wraps in `native_vram`, but
  the rectangle drawn over `scaled_vram` is cut off there; for one that wraps at
  the bottom, `copy_scaled_vram` (`:723`) subtracts the height in place of the
  position, so that it leaves rows out or calls itself without end.
- A copy whose source and destination overlap reads and writes `scaled_vram` in
  invocations that run in no order (`vramcopy.wgsl`).

  All of these steps of the hardware rasterizer are in the model, both ends of the
  program included, and the run meets each of them. `TexturesFresh` and
  `HostReadsRendered` name what is excepted for them.
- Clearing the SPU's interrupt flag and raising it again within one sample gives
  no second interrupt, since the edge is looked for once a sample
  (`InterruptPerFlag` says "between samples").
- A game that enters a pad's configuration mode is not told of a change that the
  user makes in that same communication; `GameKnowsMode` excepts it.

## Plan

The order follows what the rest of the system leans on, and what is hardest to
test. Done:

1. `Scheduler`, `SchedulerHeap`: every lazy component rests on the queue of
   events. Abstract specification, implementation and refinement.
2. `CdController`: the component with the most state machines.
3. `Dma`: priorities, stalls and the waits of the CPU.
4. `SerialPort`: two events of a component that is polled.
5. `MemoryCards`: the only data whose loss the player notices, through the
   port's protocol, the emulator thread and the file paths.
6. `EmuThread`: the only real concurrency.
7. `SystemTimer` (the arithmetic of a counter), composed by `Timers` with the
   video clock and the events.
8. `Gpu`: the command ports; `HardwareRasterizer`: four copies of video memory,
   a queue and a tracker of hazards.
9. `Cpu` and `InstructionCache`: delay slots, delayed loads, exceptions.
10. `SpuVoice`, `Spu`: envelopes, blocks, the interrupt of the sound RAM.
11. `Controllers`; `RxFifo` with its abstract specification `RxQueue`.
12. `DiscImage`: from times to places in files.

Left, in this order:

13. `Tick`: `tick`, `process_scheduler_events`, `render_frame` as one loop over
    `Scheduler`, with the error of a drive that leaves it between the pop of a
    periodic event and its next push (`api.rs:536`). It composes what `Dma`,
    `SerialPort` and `Timers` now each assume of the loop.
14. `Sessions`: an old and a new emulator thread with one set of files
    (`emustate.rs:472`), two copies of the part of `MemoryCards` that saves.
15. `SwapChain`: the contents of the frames that `EmuThread` counts; the save
    state's file.
16. `Mdec`: commands, queues and data requests, against a function from
    complete blocks to complete blocks.

## Modules and the code

Two conventions run through the modules. Cycles are small numbers: a constant
stands for each constant of the source. And where the source schedules an event
at an absolute cycle, the modules that need no absolute time keep the cycles
that are left, and let them pass in one action.

**`EventMap`** has the operations on a set of events with at most one per type
(schedule, move, unschedule) which `Scheduler`, `Dma`, `SerialPort` and
`Timers` use for `scheduler.rs`'s.

**`Scheduler`** is the promise of `scheduler.rs`: `due`, a map from types to
cycles, and `popped`. `PopReadyEvent` may return any of the earliest ready
events. **`SchedulerHeap`** is `scheduler/heap.rs`: `heap`, `len`, and the loops of
`reheapify_up` and `reheapify_down` with one iteration per step (`pc`, `cur`),
so that the loops' invariants are invariants of the model. `Never` stands for
`u64::MAX`. The refinement maps the heap in the middle of a loop to the map of
its events: the operation takes effect at its first step, all others stutter.

**`CdController`** is `cd.rs` with `seek.rs`, `read.rs`, `status.rs` and
`control.rs`. `cmd` and `drive` are `command_state` and `drive_state`, sum types
as records with a state's name and only that state's fields. A clock is
`AdvanceDriveState` and then `AdvanceCommandState`, as in `CdController::clock`
(`phase`). The host's actions are the writes to its registers (`WriteCommand`,
parameters, masks, acknowledgements of some of the flags or of all), the entry of the program's interrupt
handler (`handler`), and `ChangeDisc`. `flags`, `enabled` and `prevPending` are
the interrupt registers, `istat` their bit of I_STAT. A disc is a table of contents over few sectors.
`panic` remembers the arithmetic that would panic or wrap, after which the model
stops.

**`Dma`** is `dma.rs`. A transfer is its number of blocks or nodes (`left`); a
pass moves one and takes some cycles from `Waits`. The program's actions are the
register writes (`Program`), each of which may set the `ProcessDma` event;
`TakeCpuWait` and `OtherInstruction` are the loop of `tick` around it. `request`
is whether the MDEC has data.

**`SerialPort`** is `sio.rs`. `fifo` is the transmit FIFO, `left` the cycles of the byte on the line,
`ackLow` those of the pulse, `since` the time that has not been caught up with.
Each register access is an action that first catches up (`CatchUp`), then acts,
then schedules, as `read_register` and `write_register` do. `host` and `got`
name the bytes a waiting program writes and the device receives: they alternate
0 and 1, so that a lost or doubled byte shows.

**`MemoryCards`** joins `sio/memcard.rs` (`Transfer`, `NoAnswer`, `Deselect`,
`Connect`), `emuthread.rs` (`RenderFrame`, `SaveFails`, `FrameFails`, `ChangeDisc`,
`UpdateConfig`, `LoadState`, `Restart`) and `config.rs` (`SlotPath`). A byte of a
sector says only which write it comes from. `promise` and `heard` are history:
what a game that saw an access succeed may count on.

**`EmuThread`** is the loop of `emuthread.rs` with one step per access to what
other threads see (`pc`), the audio queue's length, the renders
in progress (`renders`, against those `submitted` and `finished`) and the
channel. `Display`, `AudioCallback` and `GpuFinishes` are the other threads.

**`SystemTimer`** is `SystemTimer::clock` and its four paths, and beside them
`Tick`, the same timer clocked once. **`Timers`** is the rest of `timers.rs`:
`video` is the `GpuTimer`, whose `product` is the remainder of the clocks' ratio,
`elapsed` and `phase` the cycles not yet caught up with and the phase of timer
2's divider. `Run` lets an instruction or a DMA's wait pass, unless an event is
ready; `HandleVBlank` and `HandleTimerIrq` handle those that are. `UseTimer` and `UseGpu` are
the accesses to registers, each with its catch-up.

**`Gpu`** is `gpu.rs` with `gp0.rs`, `gp1.rs`, `registers.rs` and the picture's
place in `rasterizer.rs`. A word of a command is its number in the command, so
that `parameters` says which word each slot holds and a slot of an earlier
command is `Stale`. `drawn` is the last call of the rasterizer, `taken` the
halfwords that the CPU read of a transfer, `panicked` a reached panic.

**`HardwareRasterizer`** is `wgpuhardware.rs` with `hazards.rs`, `sync.rs` and
the shaders as far as they decide *which pixels* of which copy are right. "Right"
is what one single video memory would hold, had the primitives sampled the same
texels: a wrong texel is counted once, where it is sampled (`staleRead`), and not
in all that is drawn with it. `nativeStale`, `copyStale`, `hostStale` are the pixels
that may be wrong, `scaledStale` those for which `scaled_vram` itself is;
`unmarked` are those drawn or copied that the tracker was not told of. `draw_commands`
is the queue, which `Executed` runs through on a record of the memories and
`Flushed` ends with the copy of what is still marked. A texture is sampled at
`Coordinates`, moved by its window (`Texel`); the tracker is asked for `Areas`, up
to four. `SampledKnowingly` leaves out what a window or the rounding of widths keeps
from it. `orderly` is whether `scaled_vram` has followed all blits and copies;
`aborted` is after a panic or an overflow of the stack. The code runs neighbouring
blits in shared passes and the model one by one: if the first reaches what
the second cuts off, the model calls a pixel wrong that is right.

**`SpuVoice`** is `voice.rs`, `envelope.rs` and the block flags of `adpcm.rs`.
Samples are left out, counters keep their values. `keptRepeat` and
`silenced` are history. **`Spu`** EXTENDS it by `spu.rs`: the sound RAM that
compares each access with the interrupt address, the data port, the capture
buffers, the addresses of `reverb.rs`.

**`Cpu`** is `cpu.rs`, `cp0.rs` and `instructions.rs`, one action per kind of
instruction; `execute_instruction` around it (`line`, `delayed_load`,
`in_delay_slot`, exceptions) is part of each. Words have four bytes of `BITS`
bits. `latest` and `stored` are what the instructions so far leave in registers and
memory by their definition, `branch`, `doubled` and `entered` the history of
the last jump and exception. **`InstructionCache`** is `icache.rs` with the isolation by COP0 and
the cache control register; `outdated` are the words written since their line
was filled, which a program must flush.

**`Controllers`** is `sio/controllers.rs` and the addressing of `sio.rs`: `device` is
`active_device` with the pad's place in its packet. A change of the pad or a press of the analog
button (`SetInputs`) comes between any two bytes. **`RxFifo`** is `rxfifo.rs`, a ring of
eight bytes with odd behaviour when overrun or read empty; **`RxQueue`** is what a
program sees of it, and what it is proved to implement.

**`DiscImage`** is `cdtime.rs`, `cue.rs`, `reader.rs`, `cuebin.rs` and `chd.rs`. Files are measured in
halves of a sector, so that a failed read may end within one. `position` and
`actual` are what `CdRomFile` believes and where the file is; `doubtful` names the files whose
last successful seek came before a failed read. `Layout` writes the image down
sector by sector; the code finds the same sector by subtracting times. `FitsOnDisc`
is what it takes for granted: INDEX times within their bounds (`CdTime::from_str`
does not check them) and in order, no empty track (the binary search of
`find_track_by_time` could stop at either of two that begin together), and tracks
that end before the 80 minutes at which a sum of times begins anew.

An MC module that composes several parts has a variable `focus`, chosen at the
start, that says which of them runs: they share no state, and their product
would add none but pairs.

## Runs

Every run checks deadlock except `cd` and `cd_int2` (the states after a panic) and
`emu_thread` (after Stop), where the system does stop.

| Run | What it shows | Bounds, and why they are enough |
| --- | --- | --- |
| `scheduler_heap` | The assertions hold; the heap, one loop iteration at a time, implements `Scheduler`. | Six types, so that the heap has three levels and an inner node with one child; three cycles, so that events tie. All types but VBlank are interchangeable; the view drops slots that no step reads. |
| `cd` | Seeks, reads, audio, reports, stops and disc changes: a data-ready interrupt and the FIFO survive until acknowledged, the FIFO gets the newest sector, no drive reads without a disc, no interrupt misses its edge but what a partial acknowledgement leaves. | Three hosts, one of data, one of audio, one that asks what disc there is: together they write all commands. A host acknowledges all flags, or leaves INT4, which the drive may have added to the flags of a command. The host of data masks no interrupt once it has enabled them. SetLoc goes to the disc or far behind it. Two sectors, one of them audio, let the head run off the disc and the filter drop one; every state lasts one to three cycles, so that each ends before, with and after the others. Pairs of commands that belong to no one host are not met: Play follows a SetLoc only without changes of the mode. |
| `cd_int2` | Violated, see findings. | As `cd`. |
| `dma` | No transfer is forgotten, waits are taken, priorities kept, ends flagged; every transfer ends. | Three channels: one that stalls, one of linked lists, one of bursts; two passes each; two orders of priority; passes that take time and that take none. |
| `serial_port` | Events come when they are due; bytes stay in order, are sent, and their interrupts arrive. Of the cards: a read gives what one write wrote; a whole write is in its file, or marked as unsaved, or its save has failed; a file changes only by the card that comes from it. | A byte takes 3 cycles, a pulse 2, an instruction 1 or, delayed by a DMA, 4: longer than either. One game or none, two settings, a sector of two bytes, one write, states saved amid a write and a read. The game uses the card in the first slot, that in the second is only exchanged. A second write to a sector adds data, not control. |
| `memory_card_files` | Violated, see findings. | Two games, one with a dot in its name. |
| `emu_thread` | Renders are counted once, the queue is bounded, due frames come, Stop ends the thread, under all interleavings. | A swap chain of 3 as in the source, frames of up to 3 samples against thresholds of up to 2, a device that takes 2, one waiting command. |
| `timers` | Interrupts are never late, VBlank is due at its line after any change of the display, reading changes nothing. | Counters of two bits, clocks of ratio 2:3 (NTSC) and 2:4 (PAL), lines of 7 and 6 cycles, frames of 3 to 5 lines, instructions and DMA waits of one or two cycles, so that events come late, at most two cycles between uses of the timers. Eight modes cover the four paths, both sources and all kinds of synchronization. One of the timers, or GP1, is used in a behaviour (`focus`); the others run on as they were set. |
| `gpu` | Each primitive is drawn from the words of its own command, each transfer moves the halfwords it announced, also after resets anywhere; the picture lies within the screen and video memory; textures and the CPU see all that was drawn before, but for what the code loses by name. | Every form of every command, polylines of up to 7 words; transfers of one, of an odd and of an even number of halfwords; ranges that begin before, at and after the screen's edges, end beyond it or are empty. Video memory of 4 by 4 with tiles of two pixels and pages of 4 by 2 texels; five games, each with one texture (plain, with a colour table that wraps, behind a window, around the side of its page, between pixels), boxes that share a tile or lie beside the texture, blits that check the mask bit or wrap, and copies that wrap, are too tall, overlap or end the program; three queued commands, so that each meets two others before a flush. |
| `devices` | A voice obeys key on, key off and reset; the SPU's interrupt is announced once per flag and its addresses stay in RAM; loads and stores leave what the order of the program says; exceptions neither lose nor repeat a jump; no stale cache line answers; a pad answers as long as it announced and tells its mode; the FIFO is a queue; every time of a disc reads as the sector the image has there. | Two blocks of sound RAM, two rates and two envelopes (one that goes up fast, one that never ends); bytes of one bit and two registers, with 16 bytes of memory and each family of instructions at part of the addresses, so that each is met at a jump, in its delay slot and behind it; a cache of two lines of two opcodes before a memory of twice its size; a FIFO of 4; seconds of two frames and minutes of two seconds, so that each time carries twice, four images with gaps within and outside the file, several files, and padded tracks. |
| `timers_vblank`, `timers_toggle` | Violated, see findings. | As `timers`. |

Each property has a mutant in `PROJECT.json`, a plausible mistake in a mapped
definition under which TLC finds the property violated. A mutant stands beside the
definition it changes, as an operator marked "Mutant".

Type invariants are not among the runs' properties, nor are the inductive parts of
proved invariants: TLAPS proves them for every instance of the modules it is used
on, and in the others they document the variables.

## Findings

- `cd_int2`: the INT2 that ends a spin-up or a seek may be raised while the next
  command is received; the command's INT3 merges with it although a comment (`cd.rs:382`) says that
  commands wait for interrupts to be acknowledged. The host sees one INT3.
- `memory_card_files`: `slot_path` (`config.rs:300`) replaces what it takes for
  the extension of a game's name, so that both slots of "Mr. Driller (USA)" are
  kept in `Mr.mcd`, with every other game of that prefix.
- `timers_vblank`: a vertical range that becomes valid by a change of y1 alone
  does not schedule the VBlank (`timers.rs:920`), against `api.rs:519-520`.
- `timers_toggle`: a timer that toggles and does not return at its target
  toggles whenever it is clocked (`timers.rs:242` ignores `reached_target`),
  against what `timers/tests.rs:74` says of interrupts at a target.

## Fairness

Only three modules have liveness properties.

- `Dma`, `SerialPort`: `tick` runs instructions, takes the CPU's waits and handles
  events for ever, hence weak fairness of `OtherInstruction`, `TakeCpuWait` and
  the handlers. Nothing is assumed of the program: `TransfersEnd` and
  `BytesAreSent` have their conditions on it (the controller is left alone, the
  MDEC has data, the port stays enabled) in their statements. `MCSerialPort` asks it of the
  behaviours whose part is the port.
- `EmuThread`: weak fairness of the thread itself, of the audio callback and of
  the GPU: threads are scheduled and devices run. `StopEnds` also needs the thread
  to find its channel empty at some time, since a Stop is handled when the
  commands before it are: strong fairness of `LastCommand`. The user sends
  commands by hand, the thread handles one in microseconds.

The other modules state safety only; no fairness is assumed there.

## Proofs

Eight modules hold theorems. Each rests on the named assumptions of its module
about constants (durations are positive where the source's are, the heap has room
for all types, a pulse is shorter than a byte), which TLC evaluates in each run,
and on nothing else but the premises it states.

- **`SchedulerHeap_proofs`**. The order of the heap is not inductive while a loop
  runs. `IInv` is the conjunction of types, `LoopState` (which loop runs for which
  operation, and that `cur` is in use), unique types, and the order but for the
  pair the loop is about to compare (above `cur` in `reheapify_down`, below it in
  `reheapify_up`), where the children of `cur` still agree with its parent.
  `AssertionsNeverFail` follows by counting: unique types make the slots in use
  map injectively to the types. `HeapImplementsScheduler` takes each action to one
  of `Scheduler` or to a stutter; that the root is earliest follows by taking the
  lowest slot that is earlier, whose parent would be another one.
- **`CdController_proofs`**. `TypeOK` holds what matters of the counters: none is
  zero when it is decremented; a drive that reads or plays has its head on the disc
  or one sector behind it, since it stops there (`DriveOK`), though seeks may go
  anywhere. `EdgeSeen` (`prev_pending` implies a pending interrupt) is inductive, and
  `NoLostInterrupt` follows from it step by step: a pending interrupt whose edge
  the controller takes for seen while I_STAT is clear (`Lost`) comes only from an
  acknowledgement that leaves flags (`PartialAcknowledgement`). `ReadInv` adds that no interrupt
  is queued while a command is received with a drive that reads or is on its way
  (`QuietWhileReceiving`), that the buffer of a reading drive holds the sector
  behind its head (`BufferedSector`), and `DiscWhileReading`.
- **`Dma_proofs`**. `IInv` is types, `TransferScheduled`, `PendingIsEnabled` and
  `BusHeld`: the CPU's wait does not last beyond the next cycle at which any
  channel may go on, without which a wait could be overwritten.
- **`SerialPort_proofs`**. `IInv` has three parts, proved one after the other:
  `Line` (times and events agree), `Control` (what an access leaves of FIFO, pulse
  and device), `Bytes` (the names of the bytes on their way). For the memory
  cards, `CardsTyped` and `Origin` (a card is saved where it comes from, unless
  the paths were changed in vain) give `OwnFilesOnly`. `PromisesHold` relates each
  promise to the card it was made of and to its file; `HeardFollows`, what a game
  has heard of a sector to the position of the protocol. `WritesReachTheFiles` and
  `WritesAreRead` have the premise `FilesApart`: the slots in use have different
  files. `UndottedFilesApart` shows it for disc names without a dot; for others it
  is false, which is the finding `memory_card_files`.
- **`EmuThread_proofs`**. `Counted` says that the counter is the renders submitted
  and not finished, with the place of the thread between its check and its
  increment; `Backlogged` bounds the queue by where the thread is.
- **`Timers_proofs`**.
  - *Clocks*. `ClockTyped`: on all four paths, for any number of clocks.
    `ClockByTicks`: n + 1 clocks at once are one clock and then n, on three of the
    four paths and for every width; hence `ClocksAreTicks`, n clocks are n times
    one. The fourth path, which toggles up to the maximum, does not have this
    property: see `timers_toggle`.
  - *Events*. `TimersInvariant` says what `IrqsOnTime` does, with the types it
    needs. It is kept since a catch-up brings no interrupt nearer by more clocks
    than CPU cycles have passed (`Lags`). For a synchronized timer this rests on
    `NeverAhead`: CPU cycles turned into cycles of the video clock and back,
    rounded down twice, are no more than they were. A timer that a synchronization
    resets is at 0, where a timer that returns at its target, or that runs to its
    maximum, has its next interrupt furthest away; one that has an interrupt at a
    target without returning there may come upon it again, earlier than its event.
    `IrqsOnTime` excepts that case (`ResetsBehindTarget`): the code moves no event
    when it resets a timer (`timers.rs:782-800`, `838-857`).
  - *Reads*. A walk of n + 1 cycles is one of n and a cycle more (`WalkOn`),
    whatever lines and frames begin on the way, so walks add up (`WalksAdd`); so
    do the remainders of both divisions (`DivTwice`) and the clocks of each timer
    (`ClocksAdd`). `ReadsAreHarmless` follows.
  - *VBlank*. `VBlankAimed` says that a VBlank in the scheduler falls due on line y2:
    to catch up from where the video clock is by the cycles that are left ends
    there. Every cycle of the video clock brings `CyclesUntilVBlank` down by one, and
    from 1 to the start of line y2 (`VBlankNearer`, `VBlankReached`); its sums over
    lines have a closed form to show it by (`CyclesOfLinesIs`). The delay in CPU
    cycles is rounded up by less than half a line, the shortest that a line is
    (`DelayReaches`). A synchronized walk goes from one blank to the next, and moves
    the video clock as the other one does (`SyncWalkVideo`), so the aim is kept
    however the timers are used on the way; a change of the display aims anew
    (`NextVBlankAims`). `VBlanksAreAtY2` follows. `VBlankAssumptions` states the two
    facts about the source's numbers that this needs: an NTSC frame has an odd
    number of lines (`timers.rs:408`), since the sum takes its last line for an even
    one, and a CPU cycle is less than half a line. A y2 below the frame is
    excepted, as no line has that number: the code then counts on into lines that
    do not exist.

  A catch-up is a function by recursion over the cycles it takes. The library's
  induction theorems take an operator, which the provers cannot instantiate;
  `AllNumbers` gets induction for a set instead, from the least number that is
  missing from it (`WFMin`), and `Iterated` gives a recursive function its
  equation.

- **`Gpu_proofs`**. Of the commands, one invariant for each question. `WordsInv`: a
  command that waits has the words that came since it began in its first slots, a
  polyline its last two vertices, and all slots behind them are `Stale`; the
  lemmas about `Cursor` turn the running sums by which the code finds the words of
  a vertex into the numbers that `Operands` promises. `TransferInv`: halfwords
  moved and halfwords left are the announced area. `DisplayInv`: the display
  registers hold what their bits can; `FrameFits` follows by arithmetic on the
  quotients of clocks by the dot divider.

  Of the hardware rasterizer, `MemoryInv` speaks of `Afterwards`, the memories as
  the queue will leave them when it is executed: a pixel that is wrong then is in a
  marked tile, or nothing marked it, or `scaled_vram` is wrong there, and that is
  nowhere as long as the calls are `orderly` (`Sound`). An invariant of the present
  memories alone would not be inductive, since a primitive is marked when it is queued and
  drawn at the flush. A command more in the queue is one more execution behind all
  others (`ExecutedAppend`, by induction over the queue with `AllNumbers` as in
  `Timers_proofs`), so each action needs one lemma about one command. The
  geometry says that the tiles that are looked at contain the pixels that are
  sampled knowingly, and the tiles that are marked those that are drawn or copied
  but for the rows that are left out, around the sides of the texture's page and of
  video memory. Neither theorem has a premise.
- **`Devices_proofs`** holds those of the parts that `MCDevices` runs.
  - *CPU*. `FlowInv` says where the next instruction and the one behind it are,
    with a jump in progress or without; each instruction is one of four ways on
    (`Flows`), and what an exception leaves in EPC follows. `WordsInv` says that
    registers and memory hold what `latest` and `stored` say, the delayed load
    included. Each needs the other: jumps go where registers say, and a link or
    EPC puts an address into a register. Merging the bytes of an unaligned access
    is proved byte by byte (`BytesOf`, `WordBytes`, `MergedLeft`, `StoredRight`
    ...). `WordAssumption` states of powers of two what the provers cannot derive.
  - *Instruction cache*. `CacheInv`: a tag's words are memory's, or outdated.
  - *Controllers*. `PadInv` ties the place in a packet, the bytes announced and
    sent, and what the game was told of the mode.
  - *Receive FIFO*. The invariant places the write index as many slots behind the
    read index as there are bytes. With it each step of the ring is the queue's
    step of the same name, for every length (`RingImplementsQueue`).
  - *SPU*. `VoiceInv` for a voice by itself, `RamInv` for all of the SPU's
    addresses, `FlagInv` for the interrupt flag and its edges. The second lifts
    the first to `Spec` of the whole. The proof of `RamInv` found a step of `Spu`
    that left the sound RAM and the ports unconstrained; the module was corrected.
  - *Disc images*. `AddIs`, `SubIs`, `BeforeIs` and `FromIs` say that the arithmetic of
    times, with its carries and borrows, is that of sector numbers as long as it
    does not leave the disc. A track of a cue sheet or CHD file has as many sectors
    as its part of the layout, gaps included (`CueAgrees`, `ChdAgrees`), so that it begins
    where the parts before it end (`TimesBehind`, by induction over the tracks), and the
    track that is found for a time, and the sector in it, are the layout's (`SpotIs`).
    `DiscInv` adds of the readers that a file that is not doubtful is where it is
    believed to be. The only assumption is `DiscAssumption`.

Only model-checked:

- All liveness (`TransfersEnd`, `BytesAreSent`, `InterruptsArrive`, `FramesCome`,
  `StopEnds`): fairness and ENABLED are out of the prover's reach.

Every other property of a passing run is the subject of a theorem.

No module declares a RECURSIVE operator.

## Not modelled

- Left out for good: the arithmetic of samples, pixels and vectors (XA-ADPCM,
  the SPU's interpolation, filters and volumes, the inverse DCT, the software
  rasterizers with their SIMD variants, the GTE, PGXP's floating point, shaders),
  which has no control of its own that a small instance would show; address
  decoding; the parsing of cue sheets, checksums and decompression; windows and
  widgets; the derive macros and conversions.
- Planned, and so far only their boundary to a modelled component: the tick loop
  with its errors, the MDEC's control, overlapping emulator threads, the contents
  of the swap chain, the save state's file. `PROJECT.json` lists the hazards of
  each with the reason why no property covers them yet.
- Within the modelled components, the note of each in `PROJECT.json` names what is
  abstracted, above all response bytes, addresses and words.
