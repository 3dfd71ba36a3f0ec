------------------------------- MODULE MCGpu -------------------------------
EXTENDS Gpu, HardwareRasterizer, TLC

\* Every form of every command.
Flat(command) == command @@ [gouraud |-> FALSE, textured |-> FALSE]
MCCommands ==
  {[op |-> "polygon", vertices |-> n, gouraud |-> g, textured |-> t] :
      n \in {3, 4}, g \in BOOLEAN, t \in BOOLEAN}
  \cup {[op |-> "line", gouraud |-> g, polyline |-> p, color |-> 0, textured |-> FALSE] :
      g \in BOOLEAN, p \in BOOLEAN}
  \cup {[op |-> "rectangle", textured |-> t, variable |-> v, gouraud |-> FALSE] :
      t \in BOOLEAN, v \in BOOLEAN}
  \cup {Flat([op |-> o]) : o \in {"copy", "fill", "to_vram", "to_cpu", "settings", "irq"}}

\* One halfword, an odd number of them, and full words.
MCSizes == {<<1, 1>>, <<3, 1>>, <<2, 2>>}

\* Ranges that begin before, at and after the edges of the screen, that end
\* beyond it, and that are empty.
MCXRanges == {<<512, 3072>>, <<608, 3168>>, <<0, 4095>>, <<700, 705>>, <<3170, 3180>>, <<900, 800>>}
MCYRanges == {<<16, 256>>, <<0, 1023>>, <<30, 40>>, <<24, 24>>, <<300, 308>>, <<20, 10>>}
MCDisplayModes ==
  [pal : BOOLEAN, interlaced : BOOLEAN, double : BOOLEAN, divider : {10, 8, 5, 4, 7}]

\* Tiles of two pixels and pages of four by two texels in a video memory of four
\* by four: boxes that share a tile, a box and a texture beside one another, a
\* colour table, a page, blits and copies that wrap around, copies and blits the
\* code leaves rows out of or does not survive.
MCBoxes == {Box(0, 0, 1, 1), Box(1, 0, 3, 2), Box(2, 0, 4, 2)}
MCLines == {Box(2, 1, 4, 2)}
MCNoWindow == [u |-> [c \in 0 .. 3 |-> c], v |-> [c \in 0 .. 1 |-> c]]
MCWindow == [MCNoWindow EXCEPT !.u = [c \in 0 .. 3 |-> 2 + (c % 2)]]
MCTriangle(x, y, u1, u2, v2, depth, clut, window) ==
  [kind |-> "triangle", x |-> x, y |-> y, u1 |-> u1, u2 |-> u2, v1 |-> 0, v2 |-> v2,
   depth |-> depth, clut |-> clut, window |-> window]
MCRectangle(x, y, u, v, w, depth, clut, window) ==
  [kind |-> "rectangle", x |-> x, y |-> y, u |-> u, v |-> v, w |-> w, h |-> 2,
   depth |-> depth, clut |-> clut, window |-> window]
MCBlit(x, y, w, h, check) == [x |-> x, y |-> y, w |-> w, h |-> h, check |-> check]
MCCopy(x, y, w, h, sx, sy) == [sx |-> sx, sy |-> sy, check |-> FALSE] @@ MCBlit(x, y, w, h, FALSE)

\* A game of the hardware rasterizer uses one texture, and the commands that
\* reach it.
MCNothing == Box(0, 0, 0, 0)
MCGames ==
  ("direct" :> [texture |-> MCTriangle(0, 0, 1, 2, 1, 15, MCNothing, MCNoWindow),
                blits |-> {MCBlit(1, 1, 2, 1, FALSE)},
                copies |-> {MCCopy(3, 1, 2, 2, 1, 1)},
                boxes |-> {Box(0, 0, 1, 1), Box(1, 0, 3, 2)}, lines |-> MCLines] @@
   "table" :> [texture |-> MCTriangle(2, 0, 0, 3, 0, 8, Box(3, 1, 5, 2), MCNoWindow),
               blits |-> {MCBlit(1, 1, 2, 1, TRUE)},
               copies |-> {MCCopy(3, 0, 2, 3, 1, 0)},
               boxes |-> {Box(0, 0, 1, 1), Box(1, 0, 3, 2)}, lines |-> {}] @@
   "window" :> [texture |-> MCTriangle(0, 0, 0, 1, 1, 15, MCNothing, MCWindow),
                blits |-> {MCBlit(3, 0, 2, 1, FALSE)},
                copies |-> {MCCopy(1, 0, 1, 2, 1, 1)},
                boxes |-> {Box(2, 0, 4, 2)}, lines |-> MCLines] @@
   "around" :> [texture |-> MCRectangle(2, 0, 3, 1, 2, 15, MCNothing, MCWindow),
                blits |-> {MCBlit(1, 2, 1, 3, FALSE)},
                copies |-> {MCCopy(3, 3, 2, 2, 1, 1)},
                boxes |-> {Box(1, 0, 3, 2)}, lines |-> MCLines] @@
   "between" :> [texture |-> MCRectangle(1, 0, 1, 0, 2, 8, Box(1, 2, 3, 3), MCNoWindow),
                 blits |-> {MCBlit(1, 3, 1, 2, FALSE)},
                 copies |-> {MCCopy(3, 3, 2, 1, 0, 0)},
                 boxes |-> {Box(0, 0, 1, 1), Box(2, 0, 4, 2)}, lines |-> {}])
MCTextures == {NoTexture} \cup {MCGames[g].texture : g \in DOMAIN MCGames}
MCBlits == UNION {MCGames[g].blits : g \in DOMAIN MCGames}
MCCopies == UNION {MCGames[g].copies : g \in DOMAIN MCGames}
MCGameNext(g) ==
  \/ \E b \in g.boxes, t \in {NoTexture, g.texture} : DrawPrimitive(b, t)
  \/ \E b \in g.lines : DrawLine(b)
  \/ \E r \in g.blits : Blit(r)
  \/ \E r \in g.copies : VramToVramBlit(r)
  \/ VramToCpuBlit \/ GenerateFrameTexture \/ CloneVram \/ ClearTextureCache
  \/ Abort \/ Aborted

\* A game uses one side of the GPU: the commands of GP0, the display registers
\* of GP1, or the hardware rasterizer, whose calls the commands make in any order.
VARIABLE focus
MCInit == Init /\ RasterizerInit /\ focus \in {"gp0", "gp1"} \cup DOMAIN MCGames
MCNext ==
  /\ \/ focus = "gp0" /\ (Gp0Step \/ Reset \/ Panicked) /\ UNCHANGED rasterizerVars
     \/ focus = "gp1" /\ Gp1Step /\ UNCHANGED rasterizerVars
     \/ /\ focus \in DOMAIN MCGames
        /\ MCGameNext(MCGames[focus]) /\ UNCHANGED vars
  /\ UNCHANGED focus
MCSpec == MCInit /\ [][MCNext]_<<vars, rasterizerVars, focus>>
=============================================================================
