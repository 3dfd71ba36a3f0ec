------------------------- MODULE HardwareRasterizer -------------------------
(***************************************************************************)
(* The hardware rasterizer keeps video memory three times on the GPU of    *)
(* the host and a fourth time in its memory                                *)
(* (src/crates/ps1-core/src/gpu/rasterizer/wgpuhardware.rs):               *)
(*   scaled_vram       what the primitives draw on;                        *)
(*   native_vram       at the console's resolution: 4 and 8 bit textures   *)
(*                     are sampled from it, and blits go through it;       *)
(*   scaled_vram_copy  15 bit textures are sampled from it;                *)
(*   ram_buffer        what the CPU reads, copied from native_vram.        *)
(* Commands are queued and executed at a flush.  A tracker marks the tiles *)
(* that were rendered and not yet copied back (wgpuhardware/hazards.rs); a *)
(* textured primitive that reads a marked tile first queues a copy.        *)
(*                                                                         *)
(* The pixels' colours are left out: the state says in which pixels each   *)
(* memory may differ from what one single video memory would hold, had the *)
(* primitives sampled the same texels.  A pixel is <<x, y>>; a box has its *)
(* right and bottom sides outside, as in the code.                         *)
(***************************************************************************)
EXTENDS Integers, Sequences

CONSTANTS VRAM_WIDTH, VRAM_HEIGHT, \* 1024 and 512
          TileWidth,               \* 8
          PageWidth, PageHeight,   \* of a texture page, in texels: 256 and 256
          SCALED_NATIVE_SYNC_DELAY,
          Boxes,          \* what primitives cover, clipped to the drawing area
          Lines,          \* what lines cover
          Textures,       \* what textured primitives sample, NoTexture included
          Blits,          \* rectangles of fills and transfers
          Copies,         \* copies inside the memory
          MaxQueue        \* bound: the queued commands

NoTexture == [kind |-> "none"]

(* A texture window moves either coordinate to one of the same page. *)
Windows == [u : [0 .. PageWidth - 1 -> 0 .. PageWidth - 1],
            v : [0 .. PageHeight - 1 -> 0 .. PageHeight - 1]]

(* A triangle samples between the smallest and the largest of its corners'  *)
(* coordinates, a rectangle w by h texels from (u, v) on, around the sides  *)
(* of the page.                                                             *)
SampledByTriangle(t) ==
    /\ {t.u1, t.u2} \subseteq 0 .. PageWidth - 1 /\ t.u1 <= t.u2
    /\ {t.v1, t.v2} \subseteq 0 .. PageHeight - 1 /\ t.v1 <= t.v2
SampledByRectangle(t) ==
    /\ t.u \in 0 .. PageWidth - 1 /\ t.v \in 0 .. PageHeight - 1
    /\ {t.w, t.h} \subseteq Nat \ {0}

(* What the bits of a command can say.  A texture's page does not wrap      *)
(* around at the bottom of video memory.                                    *)
RasterizerAssumption ==
    /\ {VRAM_WIDTH, VRAM_HEIGHT, TileWidth, PageWidth, PageHeight} \subseteq Nat \ {0}
    /\ VRAM_WIDTH % TileWidth = 0 /\ PageWidth % 4 = 0 /\ PageWidth <= VRAM_WIDTH
    /\ SCALED_NATIVE_SYNC_DELAY \in Nat
    /\ Boxes \cup Lines \subseteq [x1 : 0 .. VRAM_WIDTH, x2 : 0 .. VRAM_WIDTH,
                                  y1 : 0 .. VRAM_HEIGHT, y2 : 0 .. VRAM_HEIGHT]
    /\ \A t \in Textures \ {NoTexture} :
          /\ \/ t.kind = "triangle" /\ SampledByTriangle(t)
             \/ t.kind = "rectangle" /\ SampledByRectangle(t)
          /\ t.window \in Windows
          /\ t.depth \in {4, 8, 15}
          /\ t.x \in 0 .. VRAM_WIDTH - 1 /\ t.y \in Nat /\ t.y + PageHeight <= VRAM_HEIGHT
          /\ t.depth # 15 =>
                /\ t.clut.x1 \in 0 .. VRAM_WIDTH - 1 /\ t.clut.y1 \in 0 .. VRAM_HEIGHT - 1
                /\ t.clut.x2 \in t.clut.x1 .. t.clut.x1 + VRAM_WIDTH
                /\ t.clut.y2 = t.clut.y1 + 1
    /\ Blits \subseteq
          [x : 0 .. VRAM_WIDTH - 1, y : 0 .. VRAM_HEIGHT - 1,
           w : 1 .. VRAM_WIDTH, h : 1 .. VRAM_HEIGHT, check : BOOLEAN]
    /\ Copies \subseteq
          [x : 0 .. VRAM_WIDTH - 1, y : 0 .. VRAM_HEIGHT - 1,
           w : 1 .. VRAM_WIDTH, h : 1 .. VRAM_HEIGHT, check : BOOLEAN,
           sx : 0 .. VRAM_WIDTH - 1, sy : 0 .. VRAM_HEIGHT - 1]
ASSUME RasterizerAssumed == RasterizerAssumption

VARIABLES draw_commands,   \* the queue
          atlas,           \* HazardTracker: the marked tiles
          scaled_native_sync_delay,
          nativeStale,     \* pixels in which native_vram may be wrong
          copyStale,       \* pixels in which scaled_vram_copy may be wrong
          scaledStale,     \* pixels in which scaled_vram itself may be wrong
          hostStale,       \* pixels in which ram_buffer is behind native_vram
          out_of_sync,     \* VramCpuBlitter::out_of_sync
          unmarked,        \* pixels drawn or copied that nothing marked
          staleRead,       \* a texture was sampled behind its tracker's back
          orderly,         \* scaled_vram has followed every command so far
          aborted          \* the program has panicked or overflowed its stack

memoryVars == <<nativeStale, copyStale, scaledStale, unmarked, staleRead>>
rasterizerVars == <<draw_commands, atlas, scaled_native_sync_delay, memoryVars, hostStale,
                    out_of_sync, orderly, aborted>>

Pixels == (0 .. VRAM_WIDTH - 1) \X (0 .. VRAM_HEIGHT - 1)
Box(x1, y1, x2, y2) == [x1 |-> x1, y1 |-> y1, x2 |-> x2, y2 |-> y2]
PixelsOf(b) == {p \in Pixels : /\ b.x1 <= p[1] /\ p[1] < b.x2
                               /\ b.y1 <= p[2] /\ p[2] < b.y2}

(* A rectangle that may wrap around the sides of video memory, and whether  *)
(* it reaches beyond them.                                                  *)
Wrapped(r) == {<<(r.x + i) % VRAM_WIDTH, (r.y + j) % VRAM_HEIGHT>> :
                  i \in 0 .. r.w - 1, j \in 0 .. r.h - 1}
BeyondRight(r) == r.x + r.w > VRAM_WIDTH
BeyondBottom(r) == r.y + r.h > VRAM_HEIGHT

(***************************************************************************)
(* HazardTracker: one bit for each tile of TileWidth pixels of each line.  *)
(***************************************************************************)
Tiles == (0 .. VRAM_WIDTH \div TileWidth - 1) \X (0 .. VRAM_HEIGHT - 1)
\* Mutant: a tile the box only begins is not marked.
TilesOfWhole(b) == {t \in Tiles :
                       /\ b.x1 \div TileWidth <= t[1] /\ t[1] < b.x2 \div TileWidth
                       /\ b.y1 <= t[2] /\ t[2] < b.y2}

TilesOf(b) == {t \in Tiles :
                  /\ b.x1 \div TileWidth <= t[1]
                  /\ t[1] < (b.x2 + TileWidth - 1) \div TileWidth
                  /\ b.y1 <= t[2] /\ t[2] < b.y2}
TilePixels(a) == {p \in Pixels : <<p[1] \div TileWidth, p[2]>> \in a}

(* bounding_box: whole tiles, around every marked one. *)
BoundingBox(a) ==
    {p \in Pixels : /\ \E l \in a : l[1] <= p[1] \div TileWidth
                   /\ \E r \in a : p[1] \div TileWidth <= r[1]
                   /\ \E t \in a : t[2] <= p[2]
                   /\ \E b \in a : p[2] <= b[2]}

(***************************************************************************)
(* The textures: texels of a page at (x, y), as many in a pixel as its     *)
(* depth says; clut is where its colour table is at 4 and 8 bits.          *)
(***************************************************************************)
TexelsInPixel(depth) == CASE depth = 4 -> 4 [] depth = 8 -> 2 [] depth = 15 -> 1
Column(t, u) == t.x + (u \div TexelsInPixel(t.depth))

(* The coordinates interpolated over the primitive ...                     *)
Coordinates(t) ==
    IF t.kind = "triangle"
    THEN (t.u1 .. t.u2) \X (t.v1 .. t.v2)
    ELSE {<<(t.u + i) % PageWidth, (t.v + j) % PageHeight>> :
             i \in 0 .. t.w - 1, j \in 0 .. t.h - 1}

(* ... and what the shaders sample there: the window moves them but for 15 *)
(* bit rectangles.                                                         *)
Texel(t, c) == IF t.kind = "rectangle" /\ t.depth = 15 THEN c
               ELSE <<t.window.u[c[1]], t.window.v[c[2]]>>
PixelOfTexel(t, c) == <<Column(t, c[1]) % VRAM_WIDTH, (t.y + c[2]) % VRAM_HEIGHT>>
ClutPixels(t) ==
    IF t.depth = 15 THEN {}
    ELSE Wrapped([x |-> t.clut.x1, y |-> t.clut.y1, w |-> t.clut.x2 - t.clut.x1, h |-> 1])

(* What the tracker is asked for: a rectangle that passes the sides of its *)
(* page in up to four parts.                                               *)
Spans(first, length, size) ==
    IF first + length <= size
    THEN {<<first, first + length - 1>>}
    ELSE LET beyond == (first + length) - size
         IN  {<<first, size - 1>>, <<0, IF beyond < size THEN beyond - 1 ELSE size - 1>>}

Areas(t) ==
    IF t.kind = "triangle"
    THEN {[u1 |-> t.u1, v1 |-> t.v1, u2 |-> t.u2, v2 |-> t.v2]}
    ELSE {[u1 |-> s[1], v1 |-> r[1], u2 |-> s[2], v2 |-> r[2]] :
             s \in Spans(t.u, t.w, PageWidth), r \in Spans(t.v, t.h, PageHeight)}

(* check_texture_bounding_box: the width in pixels is rounded down, and the *)
(* texture window is not asked for.                                         *)
AreaBoxes(t, a) ==
    LET x == Column(t, a.u1) % VRAM_WIDTH
        y == (t.y + a.v1) % VRAM_HEIGHT
        width == ((a.u2 - a.u1) + 1) \div TexelsInPixel(t.depth)
        height == (a.v2 - a.v1) + 1
    IN  IF x + width > VRAM_WIDTH
        THEN {Box(x, y, VRAM_WIDTH, y + height),
              Box(0, y, width - (VRAM_WIDTH - x), y + height)}
        ELSE {Box(x, y, x + width, y + height)}

(* check_clut_bounding_box *)
ClutBoxes(t) ==
    IF t.depth = 15 THEN {}
    ELSE IF t.clut.x2 > VRAM_WIDTH
    THEN {Box(t.clut.x1, t.clut.y1, VRAM_WIDTH, t.clut.y2),
          Box(0, t.clut.y1, t.clut.x2 - VRAM_WIDTH, t.clut.y2)}
    ELSE {t.clut}

(* The tiles any_marked_rendered looks at. *)
Looked(t) ==
    UNION {TilesOf(b) : b \in (UNION {AreaBoxes(t, a) : a \in Areas(t)}) \cup ClutBoxes(t)}
HazardFound(t) == t # NoTexture /\ Looked(t) \cap atlas # {}

(* The tracker cannot see all of a texture that a window moves away from   *)
(* its coordinates, or that begins or ends inside a pixel.                 *)
Foreseen(t) ==
    LET d == TexelsInPixel(t.depth)
    IN  /\ \A c \in Coordinates(t) : Texel(t, c) \in Coordinates(t)
        /\ IF t.kind = "triangle" THEN t.u1 % d = 0 /\ (t.u2 + 1) % d = 0
                                  ELSE t.u % d = 0 /\ t.w % d = 0
Sampled(t) == {PixelOfTexel(t, Texel(t, c)) : c \in Coordinates(t)}
SampledKnowingly(t) ==
    (IF Foreseen(t) THEN Sampled(t) ELSE Sampled(t) \cap TilePixels(Looked(t)))
    \cup ClutPixels(t)

(***************************************************************************)
(* Copies inside video memory.                                             *)
(***************************************************************************)
\* Mutant: what wraps around is not marked.
CopyBoxesClipped(r) == {Box(r.x, r.y, r.x + r.w, r.y + r.h)}

(* mark_vram_copy_rendered: the boxes beside an overflow to the right alone *)
(* are as high as the rectangle is wide.                                    *)
CopyBoxes(r) ==
    LET xEnd == r.w - (VRAM_WIDTH - r.x)
        yEnd == r.h - (VRAM_HEIGHT - r.y)
    IN  CASE BeyondRight(r) /\ BeyondBottom(r) ->
               {Box(r.x, r.y, VRAM_WIDTH, VRAM_HEIGHT), Box(r.x, 0, VRAM_WIDTH, yEnd),
                Box(0, r.y, xEnd, VRAM_HEIGHT), Box(0, 0, xEnd, yEnd)}
          [] BeyondRight(r) /\ ~BeyondBottom(r) ->
               {Box(r.x, r.y, VRAM_WIDTH, r.y + r.w), Box(0, r.y, xEnd, r.y + r.w)}
          [] ~BeyondRight(r) /\ BeyondBottom(r) ->
               {Box(r.x, r.y, r.x + r.w, VRAM_HEIGHT), Box(r.x, 0, r.x + r.w, yEnd)}
          [] OTHER -> {Box(r.x, r.y, r.x + r.w, r.y + r.h)}

(* So a copy that is higher than wide leaves rows out, and one too wide for *)
(* its place marks lines the atlas does not have, which panics.             *)
LeftOut(r) == IF BeyondRight(r) /\ ~BeyondBottom(r)
              THEN {p \in Wrapped(r) : p[2] >= r.y + r.w} ELSE {}
OutOfAtlas(r) == BeyondRight(r) /\ ~BeyondBottom(r) /\ r.y + r.w > VRAM_HEIGHT

(* The pixels a copy may read before or after it has written them: its     *)
(* invocations run in no order.                                            *)
Source(r, p) == <<((p[1] - r.x) + r.sx) % VRAM_WIDTH, ((p[2] - r.y) + r.sy) % VRAM_HEIGHT>>
Racing(r) == {p \in Wrapped(r) : Source(r, p) # p /\ Source(r, p) \in Wrapped(r)}

(***************************************************************************)
(* Fills and transfers.                                                    *)
(***************************************************************************)
(* NativeScaledSyncPipeline: the rectangle drawn over scaled_vram is cut    *)
(* off at the sides.                                                        *)
DrawnOver(r) == PixelsOf(Box(r.x, r.y, r.x + r.w, r.y + r.h))

(* copy_scaled_vram takes the size for the position where a rectangle       *)
(* passes the bottom: it calls itself without end, or leaves rows out.      *)
Endless(r) == BeyondBottom(r) /\ r.y > r.h
Copied(r) ==
    LET columns == {(r.x + i) % VRAM_WIDTH : i \in 0 .. r.w - 1}
        rows == IF ~BeyondBottom(r) THEN r.y .. r.y + r.h - 1
                ELSE IF Endless(r) THEN {}
                ELSE (r.y .. r.y + (VRAM_HEIGHT - r.h) - 1)
                     \cup (0 .. r.h - (VRAM_HEIGHT - r.h) - 1)
    IN  {p \in Pixels : p[1] \in columns /\ p[2] \in rows}

-----------------------------------------------------------------------------
(***************************************************************************)
(* The execution of the queue, on a record of the video memories.          *)
(***************************************************************************)
DrawCommand ==
    [op : {"draw"}, box : Boxes, texture : Textures, suppressed : BOOLEAN]
    \cup [op : {"line"}, box : Lines]
    \cup [op : {"blit"}, rect : Blits]
    \cup [op : {"copy"}, rect : Copies]
    \cup [op : {"sync"}, atlas : SUBSET Tiles]

Memories == [native |-> nativeStale, copy |-> copyStale, scaled |-> scaledStale,
             unmarked |-> unmarked, stale |-> staleRead]

(* Textures are sampled from native_vram, or at 15 bits from the copy.      *)
StaleRead(m, t) ==
    /\ t # NoTexture
    /\ (SampledKnowingly(t) \cap (IF t.depth = 15 THEN m.copy ELSE m.native))
          \ (m.unmarked \cup m.scaled) # {}

ExecuteDraw(m, c) ==
    LET ps == PixelsOf(c.box)
    IN  [m EXCEPT !.native = @ \cup ps, !.copy = @ \cup ps, !.unmarked = @ \ ps,
                  !.stale = @ \/ (~c.suppressed /\ StaleRead(m, c.texture))]

ExecuteDrawLine(m, c) ==
    LET ps == PixelsOf(c.box)
    IN  [m EXCEPT !.native = @ \cup ps, !.copy = @ \cup ps, !.unmarked = @ \cup ps]

(* Blits and fills write native_vram, but a transfer that checks the mask   *)
(* bit leaves the pixels native_vram has it in.  The rectangle is then      *)
(* drawn over scaled_vram and copied from there.  Runs of blits share their *)
(* passes: a later one then also fills in what an earlier one cut off.      *)
ExecuteBlit(m, c) ==
    LET r == c.rect
        ps == Wrapped(r)
        native == IF r.check THEN m.native ELSE m.native \ ps
        scaled == (m.scaled \ DrawnOver(r)) \cup (DrawnOver(r) \cap native)
                     \cup (ps \ DrawnOver(r))
    IN  [m EXCEPT !.native = native, !.scaled = scaled,
                  !.copy = (@ \ Copied(r)) \cup (Copied(r) \cap scaled) \cup (ps \ Copied(r)),
                  !.unmarked = (@ \ ps) \cup (ps \ Copied(r))]

(* A copy reads and writes scaled_vram alone. *)
ExecuteCopy(m, c) ==
    LET r == c.rect
        ps == Wrapped(r)
        wrong == {p \in ps : Source(r, p) \in m.scaled} \cup Racing(r)
    IN  [m EXCEPT !.native = @ \cup ps, !.copy = @ \cup ps,
                  !.scaled = (IF r.check THEN @ ELSE @ \ ps) \cup wrong,
                  !.unmarked = (@ \ ps) \cup LeftOut(r)]

(* scaled_native_sync: the marked tiles to native_vram, and the bounding   *)
(* box to the copy.                                                        *)
ExecuteSync(m, a) ==
    [m EXCEPT !.native = (@ \ TilePixels(a)) \cup (TilePixels(a) \cap m.scaled),
              !.copy = (@ \ BoundingBox(a)) \cup (BoundingBox(a) \cap m.scaled),
              !.unmarked = @ \ TilePixels(a)]

Execute(m, c) ==
    CASE c.op = "draw" -> ExecuteDraw(m, c)
      [] c.op = "line" -> ExecuteDrawLine(m, c)
      [] c.op = "blit" -> ExecuteBlit(m, c)
      [] c.op = "copy" -> ExecuteCopy(m, c)
      [] c.op = "sync" -> ExecuteSync(m, c.atlas)

(* flush_draw_commands; what is still marked is copied at the end.          *)
Executed(m, commands) ==
    LET after[n \in 0 .. Len(commands)] ==
            IF n = 0 THEN m ELSE Execute(after[n - 1], commands[n])
    IN  after[Len(commands)]

Flushed == ExecuteSync(Executed(Memories, draw_commands), atlas)

EndlessFlush == \E i \in DOMAIN draw_commands :
                    draw_commands[i].op = "blit" /\ Endless(draw_commands[i].rect)

MemoriesAre(m) ==
    /\ nativeStale' = m.native /\ copyStale' = m.copy /\ scaledStale' = m.scaled
    /\ unmarked' = m.unmarked /\ staleRead' = m.stale

Flush ==
    /\ ~aborted /\ ~EndlessFlush
    /\ UNCHANGED aborted
    /\ IF draw_commands = <<>>
       THEN UNCHANGED <<draw_commands, atlas, scaled_native_sync_delay, memoryVars>>
       ELSE /\ draw_commands' = <<>>
            /\ atlas' = {}
            /\ scaled_native_sync_delay' = 0
            /\ MemoriesAre(Flushed)

(***************************************************************************)
(* RasterizerInterface                                                     *)
(***************************************************************************)
RasterizerInit ==
    /\ draw_commands = <<>>
    /\ atlas = {}
    /\ scaled_native_sync_delay = 0
    /\ nativeStale = {} /\ copyStale = {} /\ scaledStale = {} /\ unmarked = {}
    /\ hostStale = Pixels
    /\ out_of_sync = TRUE
    /\ staleRead = FALSE
    /\ orderly = TRUE
    /\ aborted = FALSE

Room == Len(draw_commands) < MaxQueue

(* push_scaled_native_sync_command *)
Synced(q) == IF atlas = {} THEN q ELSE Append(q, [op |-> "sync", atlas |-> atlas])

(***************************************************************************)
(* Draw a triangle or a rectangle.  A box that is empty after clipping     *)
(* returns early for a rectangle, and for a triangle marks and draws       *)
(* nothing but still counts.                                               *)
(***************************************************************************)
DrawPrimitive(b, t) ==
    LET delay == IF scaled_native_sync_delay = 0 THEN 0 ELSE scaled_native_sync_delay - 1
        found == HazardFound(t)
        sync == found /\ delay = 0
        draw == [op |-> "draw", box |-> b, texture |-> t, suppressed |-> found /\ delay > 0]
    IN  /\ ~aborted /\ Room
        /\ scaled_native_sync_delay' = IF found THEN SCALED_NATIVE_SYNC_DELAY ELSE delay
        /\ atlas' = (IF sync THEN {} ELSE atlas) \cup TilesOf(b)
        /\ draw_commands' = Append(IF sync THEN Synced(draw_commands) ELSE draw_commands, draw)
        /\ UNCHANGED <<memoryVars, hostStale, out_of_sync, orderly, aborted>>

DrawLine(b) ==
    /\ ~aborted /\ Room
    /\ draw_commands' = Append(draw_commands, [op |-> "line", box |-> b])
    /\ UNCHANGED <<atlas, scaled_native_sync_delay, memoryVars, hostStale, out_of_sync,
                   orderly, aborted>>

(* vram_fill and cpu_to_vram_blit.  scaled_vram follows one that does not   *)
(* check the mask bit and ends inside the memory.                           *)
Blit(r) ==
    /\ ~aborted /\ Room
    /\ draw_commands' = Append(draw_commands, [op |-> "blit", rect |-> r])
    /\ orderly' = (orderly /\ ~r.check /\ ~BeyondRight(r) /\ ~BeyondBottom(r))
    /\ UNCHANGED <<atlas, scaled_native_sync_delay, memoryVars, hostStale, out_of_sync,
                   aborted>>

(* vram_to_vram_blit: scaled_vram follows one whose source and destination  *)
(* do not overlap.                                                          *)
VramToVramBlit(r) ==
    /\ ~aborted /\ Room
    /\ ~OutOfAtlas(r)
    /\ atlas' = atlas \cup UNION {TilesOf(b) : b \in CopyBoxes(r)}
    /\ draw_commands' = Append(draw_commands, [op |-> "copy", rect |-> r])
    /\ orderly' = (orderly /\ Racing(r) = {})
    /\ UNCHANGED <<scaled_native_sync_delay, memoryVars, hostStale, out_of_sync, aborted>>

(* The pixels native_vram changes in at a flush: ram_buffer is behind them. *)
TouchedBy(c) ==
    CASE c.op = "blit" -> Wrapped(c.rect)
      [] c.op = "sync" -> TilePixels(c.atlas)
      [] OTHER -> {}
Touched ==
    (UNION {TouchedBy(draw_commands[i]) : i \in DOMAIN draw_commands}) \cup TilePixels(atlas)

(* vram_to_cpu_blit: ram_buffer is refreshed only after a flush of work. *)
VramToCpuBlit ==
    /\ Flush
    /\ LET stale == out_of_sync \/ draw_commands # <<>>
       IN hostStale' = IF stale THEN {} ELSE hostStale
    /\ out_of_sync' = FALSE
    /\ UNCHANGED orderly

(* generate_frame_texture: a flush, whose work ram_buffer then misses. *)
GenerateFrameTexture ==
    /\ Flush
    /\ IF draw_commands # <<>>
       THEN out_of_sync' = TRUE /\ hostStale' = hostStale \cup Touched
       ELSE UNCHANGED <<out_of_sync, hostStale>>
    /\ UNCHANGED orderly

(***************************************************************************)
(* Gpu::update_config, and a save state: clone_vram flushes and reads      *)
(* native_vram, and the new rasterizer begins with all memories equal to   *)
(* it.  A state that is only saved keeps the old rasterizer.               *)
(***************************************************************************)
CloneVram ==
    /\ ~aborted /\ ~EndlessFlush
    /\ draw_commands' = <<>>
    /\ atlas' = {}
    /\ scaled_native_sync_delay' = 0
    /\ LET kept == IF draw_commands = <<>> THEN Memories ELSE Flushed
       IN  /\ MemoriesAre([kept EXCEPT !.copy = kept.native, !.scaled = kept.native,
                                       !.unmarked = {}])
           /\ orderly' = (orderly /\ kept.unmarked = {})
    /\ hostStale' = Pixels
    /\ out_of_sync' = TRUE
    /\ UNCHANGED aborted

ClearTextureCache ==
    /\ ~aborted
    /\ scaled_native_sync_delay' = 0
    /\ UNCHANGED <<draw_commands, atlas, memoryVars, hostStale, out_of_sync, orderly, aborted>>

(* The program ends: the atlas is indexed beyond its last line, or          *)
(* copy_scaled_vram overflows the stack in one of the three flushes.        *)
Abort ==
    /\ ~aborted
    /\ EndlessFlush \/ (Room /\ \E r \in Copies : OutOfAtlas(r))
    /\ aborted' = TRUE
    /\ UNCHANGED <<draw_commands, atlas, scaled_native_sync_delay, memoryVars, hostStale,
                   out_of_sync, orderly>>
Aborted == aborted /\ UNCHANGED rasterizerVars

RasterizerNext ==
    \/ \E b \in Boxes, t \in Textures : DrawPrimitive(b, t)
    \/ \E b \in Lines : DrawLine(b)
    \/ \E r \in Blits : Blit(r)
    \/ \E r \in Copies : VramToVramBlit(r)
    \/ VramToCpuBlit
    \/ GenerateFrameTexture
    \/ CloneVram
    \/ ClearTextureCache
    \/ Abort
    \/ Aborted

RasterizerSpec == RasterizerInit /\ [][RasterizerNext]_rasterizerVars
-----------------------------------------------------------------------------
(* The type of each variable. *)
RasterizerTypeOK ==
    /\ draw_commands \in Seq(DrawCommand)
    /\ atlas \subseteq Tiles
    /\ scaled_native_sync_delay \in 0 .. SCALED_NATIVE_SYNC_DELAY
    /\ nativeStale \subseteq Pixels /\ copyStale \subseteq Pixels
    /\ scaledStale \subseteq Pixels /\ unmarked \subseteq Pixels
    /\ hostStale \subseteq Pixels
    /\ out_of_sync \in BOOLEAN /\ staleRead \in BOOLEAN
    /\ orderly \in BOOLEAN /\ aborted \in BOOLEAN

(* A textured primitive samples what was rendered before it, from whichever *)
(* memory its texture is read.  Left out are what the tracker was not told: *)
(* pixels drawn by a line (wgpuhardware.rs:1065), left out by a tall copy   *)
(* (:982) or wrapped by a blit; what it is not asked for: texels moved by a *)
(* texture window, and those beside a width that was rounded down (:899);   *)
(* a primitive held back by the limit on the rate of copies; and pixels     *)
(* that are wrong in scaled_vram, so in every memory.                       *)
TexturesFresh == ~staleRead

(* After a flush native_vram and the copy are only wrong where nothing was  *)
(* marked or where scaled_vram is, which it is nowhere until a blit checked *)
(* the mask bit or wrapped, a copy overlapped itself, or a clone lost what  *)
(* was not marked; and ram_buffer is never taken for up to date when it is  *)
(* not.  So the CPU, a save state and the next rasterizer get what was      *)
(* rendered.                                                                *)
HostReadsRendered ==
    /\ draw_commands = <<>> =>
          nativeStale \cup copyStale \subseteq unmarked \cup scaledStale /\ atlas = {}
    /\ draw_commands = <<>> /\ orderly => scaledStale = {}
    /\ ~out_of_sync => hostStale = {}
=============================================================================
