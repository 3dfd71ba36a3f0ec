-------------------------------- MODULE Gpu --------------------------------
(***************************************************************************)
(* The command ports of the GPU: GP0, through which words draw and move    *)
(* video memory, and GP1, which controls the display and resets the        *)
(* command buffer (src/crates/ps1-core/src/gpu.rs, gpu/gp0.rs, gpu/gp1.rs, *)
(* gpu/registers.rs), and the place of the picture in video memory         *)
(* (gpu/rasterizer.rs).                                                    *)
(*                                                                         *)
(* A word of a command is known by its number in the command, 1 being the  *)
(* first word after the command word and 0 the command word itself.  What  *)
(* the words say (coordinates, colours, sizes) is chosen when they are     *)
(* read.  The rasterizer's calls are recorded in `drawn'; what they do to  *)
(* video memory is HardwareRasterizer's subject.                           *)
(***************************************************************************)
EXTENDS Integers, Sequences

CONSTANTS Commands,     \* the command words written to GP0, decoded
          Sizes,        \* the sizes <<width, height>> of transfers
          Pages,        \* the texture pages
          XRanges,      \* the values of GP1($06): <<x1, x2>>
          YRanges,      \* the values of GP1($07): <<y1, y2>>
          DisplayModes, \* the values of GP1($08)
          MaxWords      \* bound: the words of a polyline

Primitives == {"polygon", "rectangle", "copy", "fill"}

\* What the bits of a command word, a size and a range can say.
CommandsAssumption ==
    \A c \in Commands :
        /\ {c.gouraud, c.textured} \subseteq BOOLEAN
        /\ c.op \in Primitives \cup {"line", "to_vram", "to_cpu", "settings", "irq"}
        /\ c.op = "polygon" => c.vertices \in {3, 4}
        /\ c.op = "line" => c \in [op : {"line"}, gouraud : BOOLEAN, polyline : BOOLEAN,
                                   color : {0}, textured : {FALSE}]
        /\ c.op = "rectangle" => c.variable \in BOOLEAN
SizesAssumption == Sizes \subseteq (1 .. 1024) \X (1 .. 512)
RangesAssumption ==
    /\ XRanges \subseteq (0 .. 4095) \X (0 .. 4095)
    /\ YRanges \subseteq (0 .. 1023) \X (0 .. 1023)
    /\ DisplayModes \subseteq [pal : BOOLEAN, interlaced : BOOLEAN, double : BOOLEAN,
                               divider : {10, 8, 5, 4, 7}]
ASSUME CommandsAssumed == CommandsAssumption
ASSUME SizesAssumed == SizesAssumption
ASSUME RangesAssumed == RangesAssumption

VARIABLES command_state,   \* Gp0State::command_state
          parameters,      \* the word each parameter slot holds, Stale if of
                           \* an earlier command
          words,           \* words received since the command word
          texture_page,    \* Gp0State::global_texture_page
          blit_buffer,     \* the halfwords of the transfer, by their number
          drawn,           \* the last call of the rasterizer
          taken,           \* the halfwords the CPU read of this transfer
          registers,       \* the display registers
          crop,            \* DisplayConfig::crop_vertical_overscan
          panicked         \* a panic or a todo! was reached

gp0Vars == <<command_state, parameters, words, texture_page, blit_buffer,
             drawn, taken>>
vars == <<gp0Vars, registers, crop, panicked>>

PARAMETERS_LEN == 11
Stale == -1
None == [op |-> "none"]
Bit(b) == IF b THEN 1 ELSE 0
AllStale == [i \in 0 .. PARAMETERS_LEN - 1 |-> Stale]

WaitingForCommand == [state |-> "command"]
WaitingForParameters(c, i, n) ==
    [state |-> "parameters", command |-> c, index |-> i, remaining |-> n]
WaitingForPolyline(c) == [state |-> "polyline", command |-> c]

(***************************************************************************)
(* The words each command takes.                                           *)
(***************************************************************************)
\* Mutant: the first vertex of a shaded polygon has a colour word, too.
PolygonParametersFirstColor(c) == c.vertices * (1 + Bit(c.textured) + Bit(c.gouraud))

PolygonParameters(c) ==
    c.vertices * (1 + Bit(c.textured)) + (c.vertices - 1) * Bit(c.gouraud)
LineParameters(c) == 2 + Bit(c.gouraud)
RectangleParameters(c) == 1 + Bit(c.textured) + Bit(c.variable)

Parameters(c) ==
    CASE c.op = "polygon" -> PolygonParameters(c)
      [] c.op = "line" -> LineParameters(c)
      [] c.op = "rectangle" -> RectangleParameters(c)
      [] c.op = "copy" -> 3
      [] OTHER -> 2          \* fill and both transfers

(***************************************************************************)
(* What the parsers read: a cursor over the slots, as Gp0Parameters.       *)
(***************************************************************************)
Cursor(c) ==
    LET cursor[k \in 1 .. c.vertices] ==
            IF k = 1 THEN 0
            ELSE cursor[k - 1] + Bit(c.gouraud /\ k > 2) + 1 + Bit(c.textured)
    IN  cursor

PolygonOperands(c, p) ==
    LET cursor == Cursor(c)
        coordinate(k) == cursor[k] + Bit(c.gouraud /\ k > 1)
    IN  [vertices |-> [k \in 1 .. c.vertices |-> p[coordinate(k)]],
         colors |-> [k \in 1 .. c.vertices |->
                       IF c.gouraud /\ k > 1 THEN p[cursor[k]] ELSE 0],
         texels |-> [k \in 1 .. c.vertices |->
                       IF c.textured THEN p[coordinate(k) + 1] ELSE 0]]

LineOperands(c, p) ==
    [vertices |-> <<p[0], p[1 + Bit(c.gouraud)]>>,
     colors |-> <<c.color, IF c.gouraud THEN p[1] ELSE c.color>>]

RectangleOperands(c, p) ==
    [position |-> p[0],
     texel |-> IF c.textured THEN p[1] ELSE 0,
     size |-> IF c.variable THEN p[1 + Bit(c.textured)] ELSE 0]

Operands(c, p) ==
    CASE c.op = "polygon" -> PolygonOperands(c, p)
      [] c.op = "line" -> LineOperands(c, p)
      [] c.op = "rectangle" -> RectangleOperands(c, p)
      [] c.op = "copy" -> [from |-> p[0], to |-> p[1], size |-> p[2]]
      [] OTHER -> [position |-> p[0], size |-> p[1]]

Drawn(c, p) ==
    [op |-> c.op, command |-> c, words |-> words + 1, operands |-> Operands(c, p)]
-----------------------------------------------------------------------------
(* The video mode registers after a reset, GP1($00). *)
ResetRegisters ==
    [display_enabled |-> FALSE, dma_mode |-> "off",
     x |-> <<512, 512 + 2560>>, y |-> <<16, 16 + 240>>,
     pal |-> FALSE, interlaced |-> FALSE, double |-> FALSE, divider |-> 10]

Init ==
    /\ command_state = WaitingForCommand
    /\ parameters = AllStale
    /\ words = 0
    /\ texture_page \in {[page |-> p, flipped |-> FALSE] : p \in Pages}
    /\ blit_buffer = <<>>
    /\ drawn = None
    /\ taken = <<>>
    /\ registers = ResetRegisters
    /\ crop = TRUE
    /\ panicked = FALSE

(***************************************************************************)
(* A word written to GP0 while no command is in progress.                  *)
(***************************************************************************)
StartCommand(c) ==
    /\ command_state.state = "command"
    /\ c.op \in Primitives \cup {"line", "to_vram", "to_cpu"}
    /\ command_state' = WaitingForParameters(c, 0, Parameters(c))
    /\ parameters' = AllStale
    /\ words' = 0
    /\ UNCHANGED <<texture_page, blit_buffer, drawn, taken, registers, crop, panicked>>

(* GP0($E1): the other settings are only passed on to the rasterizer. *)
ExecuteSettings(c) ==
    /\ command_state.state = "command"
    /\ c.op = "settings"
    /\ \E p \in Pages, f \in BOOLEAN :
           texture_page' = [page |-> p, flipped |-> f]
    /\ UNCHANGED <<command_state, parameters, words, blit_buffer, drawn, taken,
                   registers, crop, panicked>>

(* GP0($1F) is not implemented. *)
SetIrq(c) ==
    /\ command_state.state = "command"
    /\ c.op = "irq"
    /\ panicked' = TRUE
    /\ UNCHANGED <<gp0Vars, registers, crop>>

(***************************************************************************)
(* The last word of a command executes it.                                 *)
(***************************************************************************)
ExecutePrimitive(c, p) ==
    /\ c.op \in Primitives
    /\ drawn' = Drawn(c, p)
    /\ IF c.op = "polygon" /\ c.textured
       THEN \E page \in Pages : texture_page' = [texture_page EXCEPT !.page = page]
       ELSE UNCHANGED texture_page
    /\ command_state' = WaitingForCommand
    /\ parameters' = AllStale
    /\ words' = 0
    /\ UNCHANGED <<blit_buffer, taken>>

(* A polyline goes on from its second vertex and colour. *)
ExecuteLine(c, p) ==
    /\ c.op = "line"
    /\ drawn' = Drawn(c, p)
    /\ LET line == LineOperands(c, p)
       IN IF c.polyline
          THEN /\ command_state' =
                      WaitingForPolyline([c EXCEPT !.color = line.colors[2]])
               /\ parameters' = [p EXCEPT ![0] = line.vertices[2]]
               /\ words' = words + 1
          ELSE /\ command_state' = WaitingForCommand
               /\ parameters' = AllStale
               /\ words' = 0
    /\ UNCHANGED <<texture_page, blit_buffer, taken>>

\* Mutant: a transfer goes on in the buffer of the last one.
BeginCpuToVramNotCleared(c, p) ==
    /\ c.op = "to_vram"
    /\ \E size \in Sizes :
           command_state' = [state |-> "receiving", size |-> size,
                             remaining |-> size[1] * size[2]]
    /\ parameters' = AllStale
    /\ words' = 0
    /\ drawn' = Drawn(c, p)
    /\ UNCHANGED <<texture_page, blit_buffer, taken>>

BeginCpuToVram(c, p) ==
    /\ c.op = "to_vram"
    /\ \E size \in Sizes :
           command_state' = [state |-> "receiving", size |-> size,
                             remaining |-> size[1] * size[2]]
    /\ blit_buffer' = <<>>
    /\ parameters' = AllStale
    /\ words' = 0
    /\ drawn' = Drawn(c, p)
    /\ UNCHANGED <<texture_page, taken>>

BeginVramToCpu(c, p) ==
    /\ c.op = "to_cpu"
    /\ \E size \in Sizes :
           /\ command_state' = [state |-> "sending", size |-> size, buffer_idx |-> 0,
                                remaining |-> size[1] * size[2]]
           /\ blit_buffer' = [i \in 1 .. size[1] * size[2] |-> i]
    /\ taken' = <<>>
    /\ drawn' = Drawn(c, p)
    /\ parameters' = AllStale
    /\ words' = 0
    /\ UNCHANGED texture_page

(* A word written to GP0 while a command waits for its parameters. *)
WriteParameter ==
    /\ command_state.state = "parameters"
    /\ LET c == command_state.command
           i == command_state.index
           p == [parameters EXCEPT ![i] = words + 1]
       IN IF command_state.remaining = 1
          THEN \/ ExecutePrimitive(c, p)
               \/ ExecuteLine(c, p)
               \/ BeginCpuToVram(c, p)
               \/ BeginVramToCpu(c, p)
          ELSE /\ command_state' =
                      WaitingForParameters(c, i + 1, command_state.remaining - 1)
               /\ parameters' = p
               /\ words' = words + 1
               /\ UNCHANGED <<texture_page, blit_buffer, drawn, taken>>
    /\ UNCHANGED <<registers, crop, panicked>>

(* The end marker of a polyline, or the next word of one. *)
EndPolyline ==
    /\ command_state.state = "polyline"
    /\ command_state' = WaitingForCommand
    /\ parameters' = AllStale
    /\ words' = 0
    /\ UNCHANGED <<texture_page, blit_buffer, drawn, taken, registers, crop, panicked>>

WritePolyline ==
    /\ command_state.state = "polyline"
    /\ words < MaxWords
    /\ LET c == command_state.command
           p == [parameters EXCEPT ![1] = words + 1]
       IN IF c.gouraud
          THEN /\ command_state' = WaitingForParameters(c, 2, 1)
               /\ parameters' = p
               /\ words' = words + 1
               /\ UNCHANGED <<texture_page, blit_buffer, drawn, taken>>
          ELSE ExecuteLine(c, p)
    /\ UNCHANGED <<registers, crop, panicked>>

(***************************************************************************)
(* The words of a transfer to video memory carry two halfwords each; the   *)
(* second one of the last word is dropped when their number is odd.        *)
(***************************************************************************)
ReceiveWord ==
    /\ command_state.state = "receiving"
    /\ LET two == command_state.remaining > 1
           n == Len(blit_buffer)
           data == blit_buffer \o (IF two THEN <<2 * words + 1, 2 * words + 2>>
                                          ELSE <<2 * words + 1>>)
           remaining == command_state.remaining - (IF two THEN 2 ELSE 1)
       IN /\ blit_buffer' = data
          /\ words' = words + 1
          /\ IF remaining = 0
             THEN /\ drawn' = [op |-> "blit", size |-> command_state.size, data |-> data]
                  /\ command_state' = WaitingForCommand
             ELSE /\ command_state' = [command_state EXCEPT !.remaining = remaining]
                  /\ UNCHANGED drawn
    /\ UNCHANGED <<parameters, texture_page, taken, registers, crop, panicked>>

(* A read of the GPU's port while it sends video memory to the CPU. *)
ReadVramWord ==
    /\ command_state.state = "sending"
    /\ LET i == command_state.buffer_idx
           two == command_state.remaining > 1
           n == IF two THEN 2 ELSE 1
           halfword(k) == IF k \in DOMAIN blit_buffer THEN blit_buffer[k] ELSE 0
       IN /\ taken' = taken \o [k \in 1 .. n |-> halfword(i + k)]
          /\ IF command_state.remaining = n
             THEN command_state' = WaitingForCommand
             ELSE command_state' = [command_state EXCEPT !.buffer_idx = i + 2,
                                                          !.remaining = @ - 2]
    /\ UNCHANGED <<parameters, words, texture_page, blit_buffer, drawn, registers,
                   crop, panicked>>

WriteWhileSending ==
    /\ command_state.state = "sending"
    /\ panicked' = TRUE
    /\ UNCHANGED <<gp0Vars, registers, crop>>
-----------------------------------------------------------------------------
(***************************************************************************)
(* GP1.  Timers are told of every change of the display registers; that    *)
(* side is Timers' subject.                                                *)
(***************************************************************************)
ResetCommandBuffer ==
    /\ command_state' = WaitingForCommand
    /\ words' = 0
    /\ parameters' = AllStale
    /\ UNCHANGED <<texture_page, blit_buffer, drawn, taken, registers, crop, panicked>>

(* GP1($00) ends by writing GP0($E1) to GP0($E6) with no bit set. *)
Reset ==
    /\ command_state' = WaitingForCommand
    /\ words' = 0
    /\ parameters' = AllStale
    /\ \E p \in Pages : texture_page' = [page |-> p, flipped |-> FALSE]
    /\ registers' = ResetRegisters
    /\ UNCHANGED <<blit_buffer, drawn, taken, crop, panicked>>

SetDisplayEnabled(b) ==
    /\ registers' = [registers EXCEPT !.display_enabled = b]
    /\ UNCHANGED <<gp0Vars, crop, panicked>>

SetDmaMode(m) ==
    /\ registers' = [registers EXCEPT !.dma_mode = m]
    /\ UNCHANGED <<gp0Vars, crop, panicked>>

SetHorizontalDisplayRange(r) ==
    /\ registers' = [registers EXCEPT !.x = r]
    /\ UNCHANGED <<gp0Vars, crop, panicked>>

SetVerticalDisplayRange(r) ==
    /\ registers' = [registers EXCEPT !.y = r]
    /\ UNCHANGED <<gp0Vars, crop, panicked>>

SetDisplayMode(m) ==
    /\ registers' = [registers EXCEPT !.pal = m.pal, !.interlaced = m.interlaced,
                                      !.double = m.double, !.divider = m.divider]
    /\ UNCHANGED <<gp0Vars, crop, panicked>>

(* The settings window; a new rasterizer gets the old one's video memory. *)
UpdateConfig(b) ==
    /\ crop' = b
    /\ UNCHANGED <<gp0Vars, registers, panicked>>

(***************************************************************************)
(* The status register: what the DMA controller and the game see of the    *)
(* command buffer.                                                         *)
(***************************************************************************)
ReadyToReceiveCommand == command_state.state = "command"
ReadyToSendVram == command_state.state = "sending"
ReadyToReceiveDma == command_state.state \in {"command", "sending", "receiving"}
DmaRequest ==
    CASE registers.dma_mode = "off" -> FALSE
      [] registers.dma_mode = "fifo" -> TRUE
      [] registers.dma_mode = "cpu_to_gpu" -> ReadyToReceiveDma
      [] registers.dma_mode = "gpu_to_cpu" -> ReadyToSendVram

Panicked == panicked /\ UNCHANGED vars

Gp0Step ==
    /\ ~panicked
    /\ \/ \E c \in Commands : StartCommand(c) \/ ExecuteSettings(c) \/ SetIrq(c)
       \/ WriteParameter
       \/ EndPolyline
       \/ WritePolyline
       \/ ReceiveWord
       \/ ReadVramWord
       \/ WriteWhileSending
       \/ ResetCommandBuffer

Gp1Step ==
    /\ ~panicked
    /\ \/ Reset
       \/ \E b \in BOOLEAN : SetDisplayEnabled(b) \/ UpdateConfig(b)
       \/ \E m \in {"off", "fifo", "cpu_to_gpu", "gpu_to_cpu"} : SetDmaMode(m)
       \/ \E r \in XRanges : SetHorizontalDisplayRange(r)
       \/ \E r \in YRanges : SetVerticalDisplayRange(r)
       \/ \E m \in DisplayModes : SetDisplayMode(m)

Next == Gp0Step \/ Gp1Step \/ Panicked
Spec == Init /\ [][Next]_vars
-----------------------------------------------------------------------------
(***************************************************************************)
(* Where the picture is in video memory and on the screen.  None means     *)
(* that a black frame is shown.  The code's division truncates; where it   *)
(* differs from \div, on negative numbers, both give 0 or None here.       *)
(***************************************************************************)
ScreenSize(pal) ==
    IF pal THEN [left |-> 628, right |-> 3188, top |-> 20, bottom |-> 308, overscan |-> 10]
           ELSE [left |-> 608, right |-> 3168, top |-> 16, bottom |-> 256, overscan |-> 8]

AtMost(a, b) == IF a <= b THEN a ELSE b
AtLeast(a, b) == IF a >= b THEN a ELSE b

Multiplier(r) == IF r.interlaced /\ r.double THEN 2 ELSE 1

\* Mutant: the frame of an interlaced picture is not doubled.
FrameSizeNotDoubled(r, c) ==
    LET s == ScreenSize(r.pal)
    IN  [width |-> (s.right - s.left) \div r.divider,
         height |-> s.bottom - s.top - (IF c THEN 2 * s.overscan ELSE 0)]

FrameSize(r, c) ==
    LET s == ScreenSize(r.pal)
    IN  [width |-> (s.right - s.left) \div r.divider,
         height |-> (s.bottom - s.top - (IF c THEN 2 * s.overscan ELSE 0))
                        * Multiplier(r)]

FrameLocation(r, c) ==
    LET s == ScreenSize(r.pal)
        m == Multiplier(r)
        screenTop == IF c THEN s.top + s.overscan ELSE s.top
        screenBottom == IF c THEN s.bottom - s.overscan ELSE s.bottom
        x1 == r.x[1]
        x2 == AtMost(s.right, r.x[2])
        y1 == r.y[1]
        y2 == AtMost(screenBottom, r.y[2])
        clocks == (x2 - x1) - (IF x1 < s.left THEN s.left - x1 ELSE 0)
        height == (y2 - y1) * m - (IF y1 < screenTop THEN (screenTop - y1) * m ELSE 0)
        width == clocks \div r.divider
        xStart == AtLeast(0, (x1 - s.left) \div r.divider)
        yStart == AtLeast(0, (y1 - screenTop) * m)
    IN  IF width <= 0 \/ height <= 0 THEN None
        ELSE [op |-> "frame",
              x_offset |-> IF x1 < s.left THEN (s.left - x1) \div r.divider ELSE 0,
              y_offset |-> IF y1 < screenTop THEN (screenTop - y1) * m ELSE 0,
              x_start |-> xStart, y_start |-> yStart,
              width |-> AtMost(width, FrameSize(r, c).width - xStart),
              height |-> height]

(* populate_frame_buffer: the slices <<first, end>> of the frame buffer    *)
(* that row y of the frame is written to, black ones included.             *)
FRAME_BUFFER_LEN == 1024 * 2 * (ScreenSize(TRUE).bottom - ScreenSize(TRUE).top)
Slices(f, size, y) ==
    LET row == 1024 * y
    IN  IF y < f.y_start \/ y >= f.y_start + f.height
        THEN {<<row, row + 1024>>}
        ELSE {<<row, row + f.x_start>>,
              <<row + f.x_start, row + f.x_start + f.width>>,
              <<row + f.x_start + f.width, row + size.width>>}

(***************************************************************************)
(* PROPERTIES                                                              *)
(***************************************************************************)
(* The type of each variable. *)
TypeOK ==
    /\ command_state.state \in {"command", "parameters", "polyline", "receiving", "sending"}
    /\ parameters \in [0 .. PARAMETERS_LEN - 1 -> Int]
    /\ words \in Nat
    /\ texture_page \in [page : Pages, flipped : BOOLEAN]
    /\ crop \in BOOLEAN
    /\ panicked \in BOOLEAN

(* A primitive is drawn from exactly the words the game sent for it: no    *)
(* slot still holds a word of an earlier command, none is read as a colour *)
(* that was sent as a coordinate, and the next word starts a new command.  *)
(* A polyline's segment starts at the vertex and colour the last one ended *)
(* with.                                                                   *)
PrimitivesFromOwnWords ==
    LET c == drawn.command
        operands == drawn.operands
        stride == 1 + Bit(c.textured) + Bit(c.gouraud)
        coordinate(k) == (k - 1) * stride + 1
        g == Bit(c.gouraud)
    IN  CASE drawn.op = "polygon" ->
             /\ drawn.words = coordinate(c.vertices) + Bit(c.textured)
             /\ \A k \in 1 .. c.vertices :
                    /\ operands.vertices[k] = coordinate(k)
                    /\ operands.colors[k] = IF c.gouraud /\ k > 1 THEN coordinate(k) - 1 ELSE 0
                    /\ operands.texels[k] = IF c.textured THEN coordinate(k) + 1 ELSE 0
          [] drawn.op = "line" ->
             /\ operands.vertices = <<drawn.words - 1 - g, drawn.words>>
             /\ operands.colors[2] = IF c.gouraud THEN drawn.words - 1 ELSE 0
             /\ operands.colors[1] = IF c.gouraud /\ drawn.words > 3 THEN drawn.words - 3 ELSE 0
          [] drawn.op = "rectangle" ->
             /\ operands.position = 1
             /\ operands.texel = IF c.textured THEN 2 ELSE 0
             /\ operands.size = IF c.variable THEN drawn.words ELSE 0
             /\ drawn.words = 1 + Bit(c.textured) + Bit(c.variable)
          [] drawn.op = "copy" ->
             <<operands.from, operands.to, operands.size, drawn.words>> = <<1, 2, 3, 3>>
          [] drawn.op \in {"fill", "to_vram", "to_cpu"} ->
             <<operands.position, operands.size, drawn.words>> = <<1, 2, 2>>
          [] OTHER -> TRUE

(* A transfer moves each halfword of its rectangle once and in order: what *)
(* was received before a command buffer reset never gets into the next     *)
(* transfer, and an odd number of halfwords does not shift the words.      *)
TransfersExact ==
    /\ drawn.op = "blit" =>
           drawn.data = [i \in 1 .. drawn.size[1] * drawn.size[2] |-> i]
    /\ command_state.state = "receiving" =>
           Len(blit_buffer) + command_state.remaining
               = command_state.size[1] * command_state.size[2]
    /\ \A i \in DOMAIN taken : taken[i] = i
    /\ command_state.state = "sending" =>
           /\ command_state.buffer_idx = Len(taken)
           /\ Len(taken) + command_state.remaining
                  = command_state.size[1] * command_state.size[2]

(* The assertion of compute_frame_location, and the slices of              *)
(* populate_frame_buffer: whatever the display registers say, the picture  *)
(* is inside the frame, and no slice of it ends before it begins, leaves   *)
(* its row or leaves the frame buffer.                                     *)
FrameFits ==
    LET f == FrameLocation(registers, crop)
        size == FrameSize(registers, crop)
    IN  f # None =>
           /\ f.y_start + f.height <= size.height
           /\ f.x_offset >= 0 /\ f.y_offset >= 0
           /\ \A y \in {0, f.y_start, f.y_start + f.height - 1, size.height - 1} :
                  \A s \in Slices(f, size, y) :
                     /\ 1024 * y <= s[1] /\ s[1] <= s[2] /\ s[2] <= 1024 * (y + 1)
                     /\ s[2] <= FRAME_BUFFER_LEN
=============================================================================
