----------------------------- MODULE Gpu_proofs -----------------------------
(***************************************************************************)
(* The commands, the transfers and the picture of Gpu, for every set of    *)
(* commands, every size of a transfer and every value of the display       *)
(* registers; and the copies of video memory of HardwareRasterizer, for    *)
(* every queue of primitives, fills, transfers and copies.                 *)
(***************************************************************************)
EXTENDS Gpu, HardwareRasterizer, SequenceTheorems, WellFoundedInduction, TLAPS

LEMMA BitIsNumber == \A b \in BOOLEAN : Bit(b) \in {0, 1}
BY DEF Bit

-----------------------------------------------------------------------------
(***************************************************************************)
(* Transfers.                                                              *)
(***************************************************************************)
Counted(n) == [i \in 1 .. n |-> i]

LEMMA CountedIsSequence ==
    ASSUME NEW n \in Nat
    PROVE  Counted(n) \in Seq(Nat) /\ Len(Counted(n)) = n
BY DEF Counted

LEMMA CountedExtends ==
    ASSUME NEW n \in Nat, NEW k \in {1, 2}, NEW s, s = [i \in 1 .. k |-> n + i]
    PROVE  Counted(n) \o s = Counted(n + k)
<1> DEFINE t == Counted(n) \o s
<1>1. Counted(n) \in Seq(Nat) /\ Len(Counted(n)) = n /\ DOMAIN Counted(n) = 1 .. n
  BY CountedIsSequence DEF Counted
<1>2. s \in Seq(Nat) /\ Len(s) = k
  BY DEF Counted
<1>3. /\ t \in Seq(Nat) /\ Len(t) = n + k
      /\ \A i \in 1 .. n + k : t[i] = IF i <= n THEN Counted(n)[i] ELSE s[i - n]
  BY <1>1, <1>2, ConcatProperties
<1> HIDE DEF t
<1>4. \A i \in 1 .. n + k : t[i] = i
  <2> TAKE i \in 1 .. n + k
  <2>1. CASE i <= n
    BY <1>3, <2>1 DEF Counted
  <2>2. CASE i > n
    <3>1. i - n \in 1 .. k
      BY <2>2
    <3>2. s[i - n] = n + (i - n)
      BY <3>1
    <3> QED
      BY <1>3, <2>2, <3>2
  <2> QED
    BY <2>1, <2>2
<1>5. DOMAIN t = 1 .. n + k
  BY <1>3
<1>6. t = [i \in 1 .. n + k |-> t[i]]
  BY <1>3, <1>5
<1> QED
  BY <1>4, <1>6 DEF t, Counted

(* The halfwords of a transfer that is going on, of the last one to video   *)
(* memory, and those the CPU has read.                                      *)
Area(size) == size[1] * size[2]

TransferInv ==
    /\ words \in Nat
    /\ \E n \in Nat : taken = Counted(n)
    /\ drawn.op = "blit" => drawn.data = Counted(Area(drawn.size))
    /\ command_state.state = "receiving" =>
           /\ command_state.size \in Sizes /\ command_state.remaining \in Nat \ {0}
           /\ blit_buffer = Counted(2 * words)
           /\ 2 * words + command_state.remaining = Area(command_state.size)
    /\ command_state.state = "sending" =>
           /\ command_state.size \in Sizes /\ command_state.remaining \in Nat \ {0}
           /\ command_state.buffer_idx \in Nat
           /\ blit_buffer = Counted(Area(command_state.size))
           /\ taken = Counted(command_state.buffer_idx)
           /\ command_state.buffer_idx + command_state.remaining = Area(command_state.size)

LEMMA AreaIsPositive ==
    ASSUME SizesAssumption, NEW size \in Sizes
    PROVE  Area(size) \in Nat \ {0}
<1>1. size[1] \in Nat \ {0} /\ size[2] \in Nat \ {0}
  BY SMTT(40) DEF SizesAssumption
<1>2. \A a, b \in Nat \ {0} : a * b \in Nat \ {0}
  BY Z3
<1> QED
  BY <1>1, <1>2 DEF Area

LEMMA TransferInvImplies == ASSUME TransferInv PROVE TransfersExact
<1>1. \A n \in Nat : Len(Counted(n)) = n /\ \A i \in DOMAIN Counted(n) : Counted(n)[i] = i
  BY CountedIsSequence DEF Counted
<1>2. command_state.state = "receiving" => 2 * words \in Nat
  BY DEF TransferInv
<1> QED
  BY <1>1, <1>2 DEF TransferInv, TransfersExact, Counted, Area

(* A command that is waited for or has been executed leaves the transfers.  *)
LEMMA TransferKept ==
    ASSUME TransferInv, UNCHANGED taken, words' \in Nat, drawn' = drawn \/ drawn'.op # "blit",
           \/ command_state'.state \notin {"receiving", "sending"}
           \/ UNCHANGED <<command_state, blit_buffer, words>>
    PROVE  TransferInv'
BY DEF TransferInv

LEMMA CommandTransfers ==
    ASSUME SizesAssumption, TransferInv, NEW c, NEW p, c.op # "blit",
           \/ ExecutePrimitive(c, p) \/ ExecuteLine(c, p)
           \/ BeginCpuToVram(c, p) \/ BeginVramToCpu(c, p)
    PROVE  TransferInv'
<1> USE DEF Drawn
<1>0. 0 \in Nat /\ words + 1 \in Nat /\ (2 * 0 = 0)
  BY DEF TransferInv
<1>1. CASE ExecutePrimitive(c, p)
  BY <1>0, <1>1, TransferKept DEF ExecutePrimitive, WaitingForCommand
<1>2. CASE ExecuteLine(c, p)
  <2>1. command_state'.state \in {"command", "polyline"} /\ words' \in Nat
        /\ drawn'.op # "blit" /\ UNCHANGED taken
    BY <1>0, <1>2 DEF ExecuteLine, WaitingForCommand, WaitingForPolyline
  <2> QED
    BY <2>1, TransferKept
<1>3. CASE BeginCpuToVram(c, p)
  <2>1. PICK size \in Sizes :
            command_state' = [state |-> "receiving", size |-> size,
                              remaining |-> size[1] * size[2]]
    BY <1>3 DEF BeginCpuToVram
  <2>2. /\ command_state'.state = "receiving" /\ command_state'.size = size
        /\ command_state'.remaining = Area(size) /\ words' = 0
    BY <1>3, <2>1 DEF BeginCpuToVram, Area
  <2>3. blit_buffer' = Counted(2 * 0)
    <3>1. 2 * 0 = 0 /\ 1 .. 0 = {}
      OBVIOUS
    <3>2. blit_buffer' = <<>>
      BY <1>3 DEF BeginCpuToVram
    <3>3. Counted(0) = <<>>
      BY CountedIsSequence, EmptySeq
    <3> QED
      BY <3>1, <3>2, <3>3
  <2>4. drawn'.op # "blit" /\ UNCHANGED taken
    BY <1>3 DEF BeginCpuToVram
  <2>5. Area(size) \in Nat \ {0}
    BY AreaIsPositive
  <2> QED
    BY <1>0, <2>2, <2>3, <2>4, <2>5 DEF TransferInv
<1>4. CASE BeginVramToCpu(c, p)
  <2>1. PICK size \in Sizes :
            /\ command_state' = [state |-> "sending", size |-> size, buffer_idx |-> 0,
                                 remaining |-> size[1] * size[2]]
            /\ blit_buffer' = [i \in 1 .. size[1] * size[2] |-> i]
    BY <1>4 DEF BeginVramToCpu
  <2>2. /\ command_state'.state = "sending" /\ command_state'.size = size
        /\ command_state'.remaining = Area(size) /\ words' = 0
        /\ command_state'.buffer_idx = 0 /\ blit_buffer' = Counted(Area(size))
    BY <1>4, <2>1 DEF BeginVramToCpu, Area, Counted
  <2>3. taken' = Counted(0)
    BY <1>4, CountedIsSequence, EmptySeq DEF BeginVramToCpu
  <2>4. drawn'.op # "blit"
    BY <1>4 DEF BeginVramToCpu
  <2>5. Area(size) \in Nat \ {0} /\ 0 + Area(size) = Area(size)
    BY AreaIsPositive
  <2> QED
    BY <1>0, <2>2, <2>3, <2>4, <2>5 DEF TransferInv
<1> QED
  BY <1>1, <1>2, <1>3, <1>4

LEMMA ReceiveTransfers ==
    ASSUME SizesAssumption, TransferInv, ReceiveWord
    PROVE  TransferInv'
<1> DEFINE n == IF command_state.remaining > 1 THEN 2 ELSE 1
           r == command_state.remaining - n
           s == [i \in 1 .. n |-> 2 * words + i]
<1>1. /\ command_state.state = "receiving" /\ words \in Nat /\ 2 * words \in Nat
      /\ command_state.size \in Sizes /\ command_state.remaining \in Nat \ {0}
      /\ blit_buffer = Counted(2 * words)
      /\ 2 * words + command_state.remaining = Area(command_state.size)
  BY DEF TransferInv, ReceiveWord
<1>2. n \in {1, 2} /\ r \in Nat /\ (r # 0 => n = 2)
  BY <1>1
<1>3. s = IF command_state.remaining > 1 THEN <<2 * words + 1, 2 * words + 2>>
                                         ELSE <<2 * words + 1>>
  <2>1. CASE command_state.remaining > 1
    BY <2>1
  <2>2. CASE ~(command_state.remaining > 1)
    BY <2>2
  <2> QED
    BY <2>1, <2>2
<1> DEFINE data == blit_buffer \o s
<1>4. data = Counted(2 * words + n)
  BY <1>1, <1>2, CountedExtends
<1>5. /\ blit_buffer' = data /\ words' = words + 1 /\ UNCHANGED taken
      /\ IF r = 0
         THEN /\ drawn' = [op |-> "blit", size |-> command_state.size, data |-> data]
              /\ command_state' = WaitingForCommand
         ELSE /\ command_state' = [command_state EXCEPT !.remaining = r]
              /\ UNCHANGED drawn
  BY <1>3 DEF ReceiveWord
<1> HIDE DEF data, s
<1>6. CASE r = 0
  <2>1. 2 * words + n = Area(command_state.size)
    BY <1>1, <1>2, <1>6
  <2> QED
    BY <1>1, <1>4, <1>5, <1>6, <2>1 DEF TransferInv, WaitingForCommand
<1>7. CASE r # 0
  <2>1. n = 2 /\ 2 * words' = 2 * words + n
        /\ 2 * words' + r = Area(command_state.size) /\ words' \in Nat
    BY <1>1, <1>2, <1>5, <1>7
  <2>2. blit_buffer' = Counted(2 * words')
    BY <1>4, <1>5, <2>1
  <2>3. command_state' = [command_state EXCEPT !.remaining = r] /\ UNCHANGED <<drawn, taken>>
    BY <1>5, <1>7
  <2> HIDE DEF r, n
  <2>4. command_state'.state = "receiving" /\ command_state'.size = command_state.size
        /\ command_state'.remaining = r
    BY <2>3, <1>1
  <2> QED
    BY <1>1, <1>2, <1>7, <2>1, <2>2, <2>3, <2>4 DEF TransferInv
<1> QED
  BY <1>6, <1>7

LEMMA SendTransfers ==
    ASSUME SizesAssumption, TransferInv, ReadVramWord
    PROVE  TransferInv'
<1> DEFINE i == command_state.buffer_idx
           n == IF command_state.remaining > 1 THEN 2 ELSE 1
           r == command_state.remaining - n
           s == [k \in 1 .. n |->
                   IF i + k \in DOMAIN blit_buffer THEN blit_buffer[i + k] ELSE 0]
<1>1. /\ command_state.state = "sending" /\ words \in Nat
      /\ command_state.size \in Sizes /\ command_state.remaining \in Nat \ {0}
      /\ i \in Nat /\ blit_buffer = Counted(Area(command_state.size))
      /\ taken = Counted(i) /\ i + command_state.remaining = Area(command_state.size)
  BY DEF TransferInv, ReadVramWord
<1>2. n \in {1, 2} /\ r \in Nat /\ (r # 0 => n = 2) /\ Area(command_state.size) \in Nat
  BY <1>1, AreaIsPositive
<1>3. taken' = taken \o s /\ UNCHANGED <<words, drawn, blit_buffer>>
      /\ IF r = 0 THEN command_state' = WaitingForCommand
         ELSE command_state' = [command_state EXCEPT !.buffer_idx = i + 2, !.remaining = @ - 2]
  BY <1>1 DEF ReadVramWord
<1>4. s = [k \in 1 .. n |-> i + k]
  <2>1. ASSUME NEW k \in 1 .. n
        PROVE  i + k \in DOMAIN blit_buffer /\ blit_buffer[i + k] = i + k
    <3>1. i + k \in 1 .. Area(command_state.size)
      BY <1>1, <1>2
    <3> QED
      BY <1>1, <3>1 DEF Counted
  <2> QED
    BY <2>1
<1>5. taken' = Counted(i + n)
  BY <1>1, <1>2, <1>3, <1>4, CountedExtends
<1> HIDE DEF s
<1>6. CASE r = 0
  <2>1. i + n \in Nat
    BY <1>1, <1>2
  <2> QED
    BY <1>1, <1>3, <1>5, <1>6, <2>1 DEF TransferInv, WaitingForCommand
<1>7. CASE r # 0
  <2>1. n = 2 /\ i + 2 \in Nat /\ i + 2 + r = Area(command_state.size)
        /\ r = command_state.remaining - 2
    BY <1>1, <1>2, <1>7
  <2>2. command_state' = [command_state EXCEPT !.buffer_idx = i + 2, !.remaining = @ - 2]
    BY <1>3, <1>7
  <2> HIDE DEF r, n, i
  <2>3. command_state'.state = "sending" /\ command_state'.size = command_state.size
        /\ command_state'.remaining = r /\ command_state'.buffer_idx = i + 2
    BY <2>1, <2>2, <1>1
  <2> QED
    BY <1>1, <1>2, <1>3, <1>5, <1>7, <2>1, <2>3 DEF TransferInv
<1> QED
  BY <1>6, <1>7

-----------------------------------------------------------------------------
(***************************************************************************)
(* Commands.  A command that waits for its first words has those it got in *)
(* the slots of their numbers.  A polyline that goes on after a segment    *)
(* starts the next one at its last vertex, in its last colour.             *)
(***************************************************************************)
Slots == 0 .. PARAMETERS_LEN - 1
Waited == Primitives \cup {"line", "to_vram", "to_cpu"}

Filled(c, p, n) ==
    /\ c \in Commands /\ c.op \in Waited
    /\ n \in 0 .. Parameters(c)
    /\ \A j \in 0 .. n - 1 : p[j] = j + 1

Polylines == [op : {"line"}, gouraud : BOOLEAN, polyline : BOOLEAN, color : Nat,
              textured : {FALSE}]
Segment(c, p, w) ==
    /\ c \in Polylines
    /\ w \in Nat /\ w >= 2 + Bit(c.gouraud)
    /\ c.color = IF c.gouraud THEN w - 1 ELSE 0
    /\ p[0] = w

WordsInv ==
    /\ words \in Nat /\ parameters \in [Slots -> Int]
    /\ command_state.state \in {"command", "parameters", "polyline", "receiving", "sending"}
    /\ command_state.state = "parameters" =>
           LET c == command_state.command
           IN  \/ /\ Filled(c, parameters, words)
                  /\ command_state.index = words
                  /\ command_state.remaining = Parameters(c) - words
                  /\ command_state.remaining >= 1
               \/ /\ Segment(c, parameters, words - 1) /\ c.gouraud
                  /\ parameters[1] = words
                  /\ command_state.index = 2 /\ command_state.remaining = 1
    /\ command_state.state = "polyline" => Segment(command_state.command, parameters, words)
    /\ PrimitivesFromOwnWords

LEMMA CommandsAre ==
    ASSUME CommandsAssumption, NEW c \in Commands
    PROVE  /\ c.gouraud \in BOOLEAN /\ c.textured \in BOOLEAN
           /\ c.op = "polygon" => c.vertices \in {3, 4}
           /\ c.op = "rectangle" => c.variable \in BOOLEAN
           /\ c.op = "line" => c \in Polylines /\ c.color = 0 /\ c.polyline \in BOOLEAN
<1>1. c.op = "line" => c \in [op : {"line"}, gouraud : BOOLEAN, polyline : BOOLEAN,
                              color : {0}, textured : {FALSE}]
  BY DEF CommandsAssumption
<1>2. c.gouraud \in BOOLEAN /\ c.textured \in BOOLEAN
  BY DEF CommandsAssumption
<1>3. c.op = "line" => c \in Polylines /\ c.color = 0 /\ c.polyline \in BOOLEAN
  <2> SUFFICES ASSUME c.op = "line"
               PROVE  c \in Polylines /\ c.color = 0 /\ c.polyline \in BOOLEAN
    OBVIOUS
  <2>1. PICK g \in BOOLEAN, l \in BOOLEAN :
            c = [op |-> "line", gouraud |-> g, polyline |-> l, color |-> 0, textured |-> FALSE]
    BY <1>1
  <2> QED
    BY <2>1 DEF Polylines
<1> QED
  BY <1>2, <1>3 DEF CommandsAssumption

(* No command has more words than there are slots. *)
LEMMA ParametersFit ==
    ASSUME CommandsAssumption, NEW c \in Commands, c.op \in Waited
    PROVE  Parameters(c) \in 1 .. PARAMETERS_LEN
<1>1. Bit(c.gouraud) \in {0, 1} /\ Bit(c.textured) \in {0, 1}
  BY CommandsAre, BitIsNumber
<1>2. CASE c.op = "polygon"
  <2>1. c.vertices \in {3, 4}
    BY <1>2, CommandsAre
  <2>2. PolygonParameters(c) \in 1 .. 11
    <3> DEFINE v == c.vertices
               t == Bit(c.textured)
               g == Bit(c.gouraud)
    <3>1. v \in {3, 4} /\ t \in {0, 1} /\ g \in {0, 1}
      BY <1>1, <2>1
    <3> HIDE DEF v, t, g
    <3>2. v * (1 + t) + (v - 1) * g \in 1 .. 11
      BY <3>1
    <3> QED
      BY <3>2 DEF PolygonParameters, v, t, g
  <2> QED
    BY <1>2, <2>2 DEF Parameters, PARAMETERS_LEN
<1>3. CASE c.op = "line"
  BY <1>1, <1>3 DEF Parameters, LineParameters, PARAMETERS_LEN
<1>4. CASE c.op = "rectangle"
  <2>1. Bit(c.variable) \in {0, 1}
    BY <1>4, CommandsAre, BitIsNumber
  <2> QED
    BY <1>1, <1>4, <2>1 DEF Parameters, RectangleParameters, PARAMETERS_LEN
<1>5. CASE c.op \in {"copy", "fill", "to_vram", "to_cpu"}
  BY <1>5 DEF Parameters, PARAMETERS_LEN
<1> QED
  BY <1>2, <1>3, <1>4, <1>5 DEF Waited, Primitives

(* The cursor of a polygon's parser. *)
LEMMA CursorValues ==
    ASSUME NEW c, c.vertices \in {3, 4}, c.gouraud \in BOOLEAN, c.textured \in BOOLEAN
    PROVE  LET g == Bit(c.gouraud)
               t == Bit(c.textured)
           IN  /\ Cursor(c)[1] = 0 /\ Cursor(c)[2] = 1 + t /\ Cursor(c)[3] = 2 + 2 * t + g
               /\ c.vertices = 4 => Cursor(c)[4] = 3 + 3 * t + 2 * g
<1> DEFINE g == Bit(c.gouraud)
           t == Bit(c.textured)
           n == c.vertices
           second(k) == Bit(c.gouraud /\ k > 2)
           f == [k \in 1 .. n |-> IF k = 1 THEN 0
                                  ELSE (k - 1) + (k - 1) * t + (IF k > 2 THEN (k - 2) * g ELSE 0)]
<1>1. g \in {0, 1} /\ t \in {0, 1} /\ n \in {3, 4}
      /\ \A k \in 1 .. n : second(k) = IF k > 2 THEN g ELSE 0
  BY DEF Bit
<1> HIDE DEF g, n, second
<1>2. \A k \in 1 .. n : k # 1 => f[k] = f[k - 1] + second(k) + 1 + t
  <2> HIDE DEF t
  <2> QED
    BY <1>1
<1>3. f = [k \in 1 .. n |-> IF k = 1 THEN 0 ELSE f[k - 1] + second(k) + 1 + t]
  BY <1>1, <1>2
<1>4. \E h : h = [k \in 1 .. n |-> IF k = 1 THEN 0 ELSE h[k - 1] + second(k) + 1 + t]
  BY <1>3
<1>5. Cursor(c) = [k \in 1 .. n |-> IF k = 1 THEN 0
                                    ELSE Cursor(c)[k - 1] + second(k) + 1 + t]
  BY <1>4, Zenon DEF Cursor, n, second
<1> DEFINE r == Cursor(c)
<1>6. /\ r[1] = 0 /\ r[2] = r[1] + second(2) + 1 + t /\ r[3] = r[2] + second(3) + 1 + t
      /\ n = 4 => r[4] = r[3] + second(4) + 1 + t
  <2> HIDE DEF r, t
  <2>1. r = [k \in 1 .. n |-> IF k = 1 THEN 0 ELSE r[k - 1] + second(k) + 1 + t]
    BY <1>5 DEF r
  <2> QED
    BY <1>1, <2>1, SMTT(40)
<1> HIDE DEF r, t
<1> QED
  BY <1>1, <1>6 DEF r, t, g, n

(* What the parsers read is what was sent. *)
LEMMA PolygonExact ==
    ASSUME CommandsAssumption, NEW c \in Commands, c.op = "polygon",
           NEW p, Filled(c, p, Parameters(c))
    PROVE  LET g == Bit(c.gouraud)
               t == Bit(c.textured)
               place(k) == (k - 1) * (1 + t + g) + 1
               o == PolygonOperands(c, p)
           IN  /\ Parameters(c) = place(c.vertices) + t
               /\ \A k \in 1 .. c.vertices :
                      /\ o.vertices[k] = place(k)
                      /\ o.colors[k] = IF c.gouraud /\ k > 1 THEN place(k) - 1 ELSE 0
                      /\ o.texels[k] = IF c.textured THEN place(k) + 1 ELSE 0
<1> DEFINE g == Bit(c.gouraud)
           t == Bit(c.textured)
           n == c.vertices
           place(k) == (k - 1) * (1 + t + g) + 1
           o == PolygonOperands(c, p)
           r == Cursor(c)
           own(k) == r[k] + Bit(c.gouraud /\ k > 1)
<1>1. /\ g \in {0, 1} /\ t \in {0, 1} /\ n \in {3, 4}
      /\ c.gouraud \in BOOLEAN /\ c.textured \in BOOLEAN
      /\ g = IF c.gouraud THEN 1 ELSE 0
      /\ t = IF c.textured THEN 1 ELSE 0
  BY CommandsAre, BitIsNumber DEF Bit
<1>2. /\ r[1] = 0 /\ r[2] = 1 + t /\ r[3] = 2 + 2 * t + g
      /\ n = 4 => r[4] = 3 + 3 * t + 2 * g
  BY CursorValues, <1>1
<1>3. Parameters(c) = n * (1 + t) + (n - 1) * g
  BY DEF Parameters, PolygonParameters
<1>4. \A j \in 0 .. Parameters(c) - 1 : p[j] = j + 1
  BY DEF Filled
<1>5. /\ o.vertices = [k \in 1 .. n |-> p[own(k)]]
      /\ o.colors = [k \in 1 .. n |-> IF c.gouraud /\ k > 1 THEN p[r[k]] ELSE 0]
      /\ o.texels = [k \in 1 .. n |-> IF c.textured THEN p[own(k) + 1] ELSE 0]
  BY DEF PolygonOperands
<1>6. \A k : Bit(c.gouraud /\ k > 1) = IF k > 1 THEN g ELSE 0
  BY DEF Bit
<1> HIDE DEF g, t, n, o, r
<1>7. \A k \in 1 .. n : own(k) = place(k) - 1 /\ (k > 1 => r[k] = own(k) - g)
  <2>1. own(1) = 0 /\ own(2) = r[2] + g /\ own(3) = r[3] + g /\ own(4) = r[4] + g
    BY <1>1, <1>2, <1>6
  <2>2. place(1) = 1 /\ place(2) = 2 + t + g /\ place(3) = 3 + 2 * t + 2 * g
        /\ place(4) = 4 + 3 * t + 3 * g
    BY <1>1
  <2> HIDE DEF own, place
  <2>3. \A k \in 1 .. n : k = 1 \/ k = 2 \/ k = 3 \/ (n = 4 /\ k = 4)
    BY <1>1
  <2> QED
    BY <1>1, <1>2, <2>1, <2>2, <2>3
<1>8. Parameters(c) = place(n) + t
  BY <1>1, <1>3
<1>9. \A k \in 1 .. n : place(k) >= 1 /\ place(k) <= place(n) /\ place(k) \in Int
                        /\ (k > 1 /\ g = 1 => place(k) > 1)
  BY <1>1
<1> HIDE DEF place, own
<1>10. ASSUME NEW k \in 1 .. n
       PROVE  /\ o.vertices[k] = place(k)
              /\ o.colors[k] = IF c.gouraud /\ k > 1 THEN place(k) - 1 ELSE 0
              /\ o.texels[k] = IF c.textured THEN place(k) + 1 ELSE 0
  <2>1. /\ own(k) = place(k) - 1 /\ place(k) >= 1 /\ place(k) <= place(n) /\ place(k) \in Int
        /\ place(n) \in Int
    BY <1>1, <1>7, <1>9
  <2>2. own(k) \in 0 .. Parameters(c) - 1
    BY <1>1, <1>8, <2>1
  <2>3. o.vertices[k] = place(k)
    BY <1>4, <1>5, <2>1, <2>2
  <2>4. ASSUME c.gouraud, k > 1 PROVE p[r[k]] = place(k) - 1
    <3>1. r[k] = place(k) - 2 /\ place(k) > 1
      BY <1>1, <1>7, <1>9, <2>1, <2>4
    <3>2. r[k] \in 0 .. Parameters(c) - 1
      BY <1>1, <1>8, <2>1, <3>1
    <3> QED
      BY <1>4, <2>1, <3>1, <3>2
  <2>5. ASSUME c.textured PROVE p[own(k) + 1] = place(k) + 1
    <3>1. own(k) + 1 \in 0 .. Parameters(c) - 1
      BY <1>1, <1>8, <2>1, <2>5
    <3> QED
      BY <1>4, <2>1, <3>1
  <2> QED
    BY <1>5, <2>3, <2>4, <2>5
<1> QED
  BY <1>8, <1>10 DEF place, g, t, n, o

LEMMA RectangleExact ==
    ASSUME CommandsAssumption, NEW c \in Commands, c.op = "rectangle",
           NEW p, Filled(c, p, Parameters(c))
    PROVE  LET o == RectangleOperands(c, p)
           IN  /\ Parameters(c) = 1 + Bit(c.textured) + Bit(c.variable)
               /\ o.position = 1
               /\ o.texel = IF c.textured THEN 2 ELSE 0
               /\ o.size = IF c.variable THEN Parameters(c) ELSE 0
<1> DEFINE t == Bit(c.textured)
           v == Bit(c.variable)
<1>1. /\ c.textured \in BOOLEAN /\ c.variable \in BOOLEAN
      /\ t = IF c.textured THEN 1 ELSE 0
      /\ v = IF c.variable THEN 1 ELSE 0
  BY CommandsAre DEF Bit
<1>2. Parameters(c) = 1 + t + v
  BY DEF Parameters, RectangleParameters
<1>3. \A j \in 0 .. Parameters(c) - 1 : p[j] = j + 1
  BY DEF Filled
<1> HIDE DEF t, v
<1>4. p[0] = 1 /\ (c.textured => p[1] = 2) /\ (c.variable => p[1 + t] = Parameters(c))
  BY <1>1, <1>2, <1>3
<1>5. /\ RectangleOperands(c, p).position = p[0]
      /\ RectangleOperands(c, p).texel = IF c.textured THEN p[1] ELSE 0
      /\ RectangleOperands(c, p).size = IF c.variable THEN p[1 + t] ELSE 0
  BY DEF RectangleOperands, t
<1> QED
  BY <1>2, <1>4, <1>5 DEF t, v

LEMMA DrawnExact ==
    ASSUME CommandsAssumption, NEW c \in Commands, c.op \in Waited, c.op # "line",
           NEW p, Filled(c, p, Parameters(c)), words \in Nat, words + 1 = Parameters(c),
           drawn' = Drawn(c, p)
    PROVE  PrimitivesFromOwnWords'
<1>1. /\ drawn'.op = c.op /\ drawn'.command = c /\ drawn'.words = Parameters(c)
      /\ drawn'.operands = Operands(c, p)
  BY DEF Drawn
<1>2. CASE c.op = "polygon"
  <2>1. drawn'.operands = PolygonOperands(c, p)
    BY <1>1, <1>2 DEF Operands
  <2> QED
    BY <1>1, <1>2, <2>1, PolygonExact DEF PrimitivesFromOwnWords
<1>3. CASE c.op = "rectangle"
  <2>1. drawn'.operands = RectangleOperands(c, p)
    BY <1>1, <1>3 DEF Operands
  <2> QED
    BY <1>1, <1>3, <2>1, RectangleExact DEF PrimitivesFromOwnWords
<1>4. CASE c.op = "copy"
  <2>1. Parameters(c) = 3 /\ drawn'.operands = [from |-> p[0], to |-> p[1], size |-> p[2]]
    BY <1>1, <1>4 DEF Operands, Parameters
  <2>2. p[0] = 1 /\ p[1] = 2 /\ p[2] = 3
    BY <2>1 DEF Filled
  <2> QED
    BY <1>1, <1>4, <2>1, <2>2 DEF PrimitivesFromOwnWords
<1>5. CASE c.op \in {"fill", "to_vram", "to_cpu"}
  <2>1. Parameters(c) = 2 /\ drawn'.operands = [position |-> p[0], size |-> p[1]]
    BY <1>1, <1>5 DEF Operands, Parameters
  <2>2. p[0] = 1 /\ p[1] = 2
    BY <2>1 DEF Filled
  <2> QED
    BY <1>1, <1>5, <2>1, <2>2 DEF PrimitivesFromOwnWords
<1> QED
  BY <1>2, <1>3, <1>4, <1>5 DEF Waited, Primitives

(* A segment of a line, the first or a later one. *)
LEMMA SegmentExact ==
    ASSUME NEW c \in Polylines, NEW p, words \in Nat,
           p[0] = words - Bit(c.gouraud), p[1 + Bit(c.gouraud)] = words + 1,
           c.gouraud => p[1] = words,
           c.color = IF c.gouraud /\ words > 2 THEN words - 2 ELSE 0,
           drawn' = Drawn(c, p)
    PROVE  PrimitivesFromOwnWords'
<1>1. /\ c.op = "line" /\ c.gouraud \in BOOLEAN
      /\ drawn'.op = c.op /\ drawn'.command = c /\ drawn'.words = words + 1
      /\ drawn'.operands = LineOperands(c, p)
  BY DEF Drawn, Operands, Polylines
<1>2. /\ drawn'.operands.vertices = <<p[0], p[1 + Bit(c.gouraud)]>>
      /\ drawn'.operands.colors = <<c.color, IF c.gouraud THEN p[1] ELSE c.color>>
  BY <1>1 DEF LineOperands
<1>3. Bit(c.gouraud) = IF c.gouraud THEN 1 ELSE 0
  BY DEF Bit
<1>4. /\ p[0] = drawn'.words - 1 - Bit(c.gouraud)
      /\ (IF c.gouraud THEN p[1] ELSE c.color) = IF c.gouraud THEN drawn'.words - 1 ELSE 0
      /\ c.color = IF c.gouraud /\ drawn'.words > 3 THEN drawn'.words - 3 ELSE 0
  BY <1>1, <1>3
<1>5. /\ drawn'.operands.vertices = <<drawn'.words - 1 - Bit(c.gouraud), drawn'.words>>
      /\ drawn'.operands.colors[2] = IF c.gouraud THEN drawn'.words - 1 ELSE 0
      /\ drawn'.operands.colors[1]
            = IF c.gouraud /\ drawn'.words > 3 THEN drawn'.words - 3 ELSE 0
  BY <1>1, <1>2, <1>4
<1> QED
  BY <1>1, <1>5 DEF PrimitivesFromOwnWords

LEMMA LineStep ==
    ASSUME NEW c \in Polylines, NEW p \in [Slots -> Int], words \in Nat,
           words >= 1 + Bit(c.gouraud),
           p[0] = words - Bit(c.gouraud), p[1 + Bit(c.gouraud)] = words + 1,
           c.gouraud => p[1] = words,
           c.color = IF c.gouraud /\ words > 2 THEN words - 2 ELSE 0,
           ExecuteLine(c, p)
    PROVE  WordsInv'
<1> DEFINE line == LineOperands(c, p)
           d == [c EXCEPT !.color = line.colors[2]]
<1>1. PrimitivesFromOwnWords'
  BY SegmentExact DEF ExecuteLine
<1>2. /\ line.vertices[2] = words + 1
      /\ line.colors[2] = IF c.gouraud THEN words ELSE 0
  BY DEF LineOperands, Polylines
<1>3. CASE c.polyline
  <2>1. /\ command_state' = WaitingForPolyline(d)
        /\ parameters' = [p EXCEPT ![0] = line.vertices[2]]
        /\ words' = words + 1
    BY <1>3 DEF ExecuteLine
  <2>2. d \in Polylines /\ d.gouraud = c.gouraud
        /\ d.color = IF c.gouraud THEN words' - 1 ELSE 0
    <3> HIDE DEF line
    <3>1. line.colors[2] \in Nat /\ words' - 1 = words
      BY <1>2, <2>1
    <3>2. d \in Polylines /\ d.gouraud = c.gouraud /\ d.color = line.colors[2]
      BY <3>1 DEF Polylines
    <3> QED
      BY <1>2, <3>1, <3>2
  <2> HIDE DEF line
  <2>3. 0 \in Slots
    BY DEF Slots, PARAMETERS_LEN
  <2>4. parameters' \in [Slots -> Int] /\ parameters'[0] = words'
    BY <1>2, <2>1, <2>3
  <2>5. Bit(c.gouraud) \in {0, 1}
    BY DEF Bit
  <2>6. words' \in Nat /\ words' >= 2 + Bit(d.gouraud)
    BY <2>1, <2>2, <2>5
  <2> HIDE DEF d
  <2>7. Segment(d, parameters', words')
    BY <2>2, <2>4, <2>6 DEF Segment
  <2> QED
    BY <1>1, <2>1, <2>4, <2>6, <2>7 DEF WordsInv, WaitingForPolyline
<1>4. CASE ~c.polyline
  <2>1. command_state' = WaitingForCommand /\ parameters' = AllStale /\ words' = 0
    BY <1>4 DEF ExecuteLine
  <2> QED
    BY <1>1, <2>1 DEF WordsInv, WaitingForCommand, AllStale, Stale, Slots
<1> QED
  BY <1>3, <1>4 DEF Polylines

LEMMA LastWord ==
    ASSUME CommandsAssumption, NEW c \in Commands, c.op \in Waited,
           NEW p \in [Slots -> Int], Filled(c, p, Parameters(c)), words \in Nat,
           words + 1 = Parameters(c),
           \/ ExecutePrimitive(c, p) \/ ExecuteLine(c, p)
           \/ BeginCpuToVram(c, p) \/ BeginVramToCpu(c, p)
    PROVE  WordsInv'
<1>1. CASE ExecuteLine(c, p)
  <2>1. c.op = "line" /\ c \in Polylines /\ c.color = 0
    BY <1>1, CommandsAre DEF ExecuteLine
  <2>2. Bit(c.gouraud) = IF c.gouraud THEN 1 ELSE 0
    BY <2>1 DEF Bit, Polylines
  <2>3. Parameters(c) = 2 + Bit(c.gouraud)
    BY <2>1 DEF Parameters, LineParameters
  <2>4. words = 1 + Bit(c.gouraud) /\ words <= 2
    BY <2>2, <2>3
  <2>5. p[0] = 1 /\ p[1] = 2 /\ (c.gouraud => p[2] = 3)
    BY <2>2, <2>3 DEF Filled
  <2> QED
    BY <1>1, <2>1, <2>2, <2>4, <2>5, LineStep
<1>2. CASE ExecutePrimitive(c, p) \/ BeginCpuToVram(c, p) \/ BeginVramToCpu(c, p)
  <2>1. /\ c.op # "line" /\ drawn' = Drawn(c, p)
        /\ parameters' = AllStale /\ words' = 0
        /\ command_state'.state \in {"command", "receiving", "sending"}
    <3>1. CASE ExecutePrimitive(c, p)
      BY <3>1 DEF ExecutePrimitive, Primitives, WaitingForCommand
    <3>2. CASE BeginCpuToVram(c, p)
      BY <3>2 DEF BeginCpuToVram
    <3>3. CASE BeginVramToCpu(c, p)
      BY <3>3 DEF BeginVramToCpu
    <3> QED
      BY <1>2, <3>1, <3>2, <3>3
  <2>2. PrimitivesFromOwnWords'
    BY <2>1, DrawnExact
  <2> QED
    BY <2>1, <2>2 DEF WordsInv, AllStale, Stale, Slots
<1> QED
  BY <1>1, <1>2

LEMMA ParameterStep ==
    ASSUME CommandsAssumption, WordsInv, WriteParameter
    PROVE  WordsInv'
<1> DEFINE c == command_state.command
           i == command_state.index
           n == command_state.remaining
           p == [parameters EXCEPT ![i] = words + 1]
<1>1. /\ command_state.state = "parameters"
      /\ IF n = 1
         THEN \/ ExecutePrimitive(c, p) \/ ExecuteLine(c, p)
              \/ BeginCpuToVram(c, p) \/ BeginVramToCpu(c, p)
         ELSE /\ command_state' = WaitingForParameters(c, i + 1, n - 1)
              /\ parameters' = p /\ words' = words + 1 /\ UNCHANGED drawn
  BY DEF WriteParameter
<1>2. words \in Nat /\ parameters \in [Slots -> Int] /\ PrimitivesFromOwnWords
  BY DEF WordsInv
<1>3. CASE Filled(c, parameters, words) /\ i = words /\ n = Parameters(c) - words /\ n >= 1
  <2>1. c \in Commands /\ c.op \in Waited /\ \A j \in 0 .. words - 1 : parameters[j] = j + 1
    BY <1>3 DEF Filled
  <2>2. Parameters(c) \in 1 .. 11
    BY <2>1, ParametersFit DEF PARAMETERS_LEN
  <2>3. words \in Slots
    BY <1>2, <1>3, <2>2 DEF Slots, PARAMETERS_LEN
  <2>4. p \in [Slots -> Int] /\ Filled(c, p, words + 1)
    <3>1. p \in [Slots -> Int] /\ p[words] = words + 1
          /\ \A j \in Slots : j # words => p[j] = parameters[j]
      BY <1>2, <1>3, <2>3
    <3>2. words + 1 \in 0 .. Parameters(c)
      BY <1>2, <1>3, <2>2
    <3> HIDE DEF p
    <3>3. ASSUME NEW j \in 0 .. words PROVE p[j] = j + 1
      <4>1. CASE j = words
        BY <3>1, <4>1
      <4>2. CASE j # words
        <5>1. j \in 0 .. words - 1 /\ j \in Slots
          BY <1>2, <2>3, <4>2 DEF Slots, PARAMETERS_LEN
        <5> QED
          BY <2>1, <3>1, <4>2, <5>1
      <4> QED
        BY <4>1, <4>2
    <3> QED
      BY <1>2, <2>1, <3>1, <3>2, <3>3 DEF Filled
  <2> HIDE DEF p, n
  <2>5. CASE n = 1
    <3>1. words + 1 = Parameters(c)
      BY <1>2, <1>3, <2>2, <2>5
    <3> QED
      BY <1>1, <1>2, <2>1, <2>4, <2>5, <3>1, LastWord
  <2>6. CASE n # 1
    <3>1. /\ command_state' = WaitingForParameters(c, i + 1, n - 1)
          /\ parameters' = p /\ words' = words + 1 /\ UNCHANGED drawn
      BY <1>1, <2>6
    <3>2. n - 1 = Parameters(c) - (words + 1) /\ n - 1 >= 1 /\ words + 1 \in Nat
      BY <1>2, <1>3, <2>2, <2>6
    <3>3. PrimitivesFromOwnWords'
      BY <1>2, <3>1 DEF PrimitivesFromOwnWords
    <3>4. /\ command_state'.state = "parameters" /\ command_state'.command = c
          /\ command_state'.index = words' /\ command_state'.remaining = n - 1
      BY <1>3, <3>1 DEF WaitingForParameters
    <3> HIDE DEF c
    <3> QED
      BY <2>4, <3>1, <3>2, <3>3, <3>4 DEF WordsInv
  <2> QED
    BY <2>5, <2>6
<1>4. CASE /\ Segment(c, parameters, words - 1) /\ c.gouraud
           /\ parameters[1] = words /\ i = 2 /\ n = 1
  <2>1. /\ c \in Polylines /\ words - 1 >= 3 /\ c.color = words - 2 /\ parameters[0] = words - 1
        /\ Bit(c.gouraud) = 1
    BY <1>2, <1>4 DEF Segment, Bit
  <2>2. {0, 1, 2} \subseteq Slots
    BY DEF Slots, PARAMETERS_LEN
  <2>3. /\ p \in [Slots -> Int] /\ p[0] = words - 1 /\ p[1] = words /\ p[2] = words + 1
    BY <1>2, <1>4, <2>1, <2>2
  <2>4. ExecuteLine(c, p)
    BY <1>1, <1>4, <2>1
       DEF ExecutePrimitive, BeginCpuToVram, BeginVramToCpu, Primitives, Polylines
  <2>5. /\ words >= 1 + Bit(c.gouraud) /\ p[0] = words - Bit(c.gouraud)
        /\ p[1 + Bit(c.gouraud)] = words + 1 /\ p[1] = words
        /\ c.color = IF c.gouraud /\ words > 2 THEN words - 2 ELSE 0
    <3> HIDE DEF p
    <3>1. words >= 1 + 1 /\ words - 1 = words - Bit(c.gouraud) /\ 1 + Bit(c.gouraud) = 2
          /\ words > 2
      BY <1>2, <2>1
    <3>2. p[0] = words - Bit(c.gouraud) /\ p[1 + Bit(c.gouraud)] = words + 1
      BY <2>3, <3>1
    <3> QED
      BY <1>4, <2>1, <2>3, <3>1, <3>2
  <2> HIDE DEF p, c
  <2> QED
    BY <1>2, <2>1, <2>3, <2>4, <2>5, LineStep
<1> QED
  BY <1>1, <1>3, <1>4 DEF WordsInv

LEMMA PolylineStep ==
    ASSUME CommandsAssumption, WordsInv, WritePolyline
    PROVE  WordsInv'
<1> DEFINE c == command_state.command
           p == [parameters EXCEPT ![1] = words + 1]
<1>1. /\ command_state.state = "polyline"
      /\ IF c.gouraud
         THEN /\ command_state' = WaitingForParameters(c, 2, 1)
              /\ parameters' = p /\ words' = words + 1 /\ UNCHANGED drawn
         ELSE ExecuteLine(c, p)
  BY DEF WritePolyline
<1>2. words \in Nat /\ parameters \in [Slots -> Int] /\ PrimitivesFromOwnWords
  BY DEF WordsInv
<1>3. Segment(c, parameters, words)
  BY <1>1 DEF WordsInv
<1>4. /\ c \in Polylines /\ words >= 2 + Bit(c.gouraud) /\ parameters[0] = words
      /\ c.color = IF c.gouraud THEN words - 1 ELSE 0
  BY <1>3 DEF Segment
<1>5. p \in [Slots -> Int] /\ p[0] = words /\ p[1] = words + 1
  BY <1>2, <1>4 DEF Slots, PARAMETERS_LEN
<1>6. c.gouraud \in BOOLEAN /\ Bit(c.gouraud) = IF c.gouraud THEN 1 ELSE 0
  BY <1>4 DEF Polylines, Bit
<1> HIDE DEF p, c
<1>7. CASE c.gouraud
  <2>1. /\ command_state' = WaitingForParameters(c, 2, 1)
        /\ parameters' = p /\ words' = words + 1 /\ UNCHANGED drawn
    BY <1>1, <1>7
  <2>2. Segment(c, p, words' - 1)
    BY <1>2, <1>3, <1>5, <2>1 DEF Segment
  <2>3. PrimitivesFromOwnWords'
    BY <1>2, <2>1 DEF PrimitivesFromOwnWords
  <2> QED
    BY <1>2, <1>5, <1>7, <2>1, <2>2, <2>3 DEF WordsInv, WaitingForParameters
<1>8. CASE ~c.gouraud
  BY <1>1, <1>2, <1>4, <1>5, <1>6, <1>8, LineStep
<1> QED
  BY <1>6, <1>7, <1>8

LEMMA WordsStep ==
    ASSUME CommandsAssumption, WordsInv, [Next]_vars
    PROVE  WordsInv'
<1>0. /\ words \in Nat /\ parameters \in [Slots -> Int] /\ PrimitivesFromOwnWords
      /\ AllStale \in [Slots -> Int]
      /\ UNCHANGED drawn => PrimitivesFromOwnWords'
  BY DEF WordsInv, AllStale, Stale, Slots, PrimitivesFromOwnWords
<1>1. ASSUME NEW c \in Commands, StartCommand(c) PROVE WordsInv'
  <2>1. /\ c.op \in Waited /\ command_state' = WaitingForParameters(c, 0, Parameters(c))
        /\ parameters' = AllStale /\ words' = 0 /\ UNCHANGED drawn
    BY <1>1 DEF StartCommand, Waited
  <2>2. Parameters(c) \in 1 .. 11
    BY <2>1, ParametersFit DEF PARAMETERS_LEN
  <2>3. Filled(c, parameters', 0) /\ Parameters(c) - 0 = Parameters(c)
    BY <2>1, <2>2 DEF Filled
  <2> QED
    BY <1>0, <2>1, <2>2, <2>3 DEF WordsInv, WaitingForParameters
<1>2. CASE UNCHANGED <<command_state, parameters, words, drawn>>
  BY <1>2 DEF WordsInv, PrimitivesFromOwnWords
<1>3. CASE ReceiveWord
  <2>1. /\ UNCHANGED parameters /\ words' = words + 1
        /\ command_state'.state \in {"command", "receiving"}
        /\ drawn' = drawn \/ drawn'.op = "blit"
    <3>1. command_state.state = "receiving" /\ UNCHANGED parameters /\ words' = words + 1
      BY <1>3 DEF ReceiveWord
    <3>2. \/ drawn'.op = "blit" /\ command_state' = WaitingForCommand
          \/ drawn' = drawn /\ \E n : command_state' = [command_state EXCEPT !.remaining = n]
      BY <1>3, SMTT(40) DEF ReceiveWord
    <3>3. CASE drawn' = drawn /\ \E n : command_state' = [command_state EXCEPT !.remaining = n]
      <4>1. PICK n : command_state' = [command_state EXCEPT !.remaining = n]
        BY <3>3
      <4>2. command_state'.state = "receiving"
        BY <3>1, <4>1
      <4> QED
        BY <3>1, <3>3, <4>2
    <3> QED
      BY <3>1, <3>2, <3>3 DEF WaitingForCommand
  <2>2. PrimitivesFromOwnWords'
    BY <1>0, <2>1 DEF PrimitivesFromOwnWords
  <2> QED
    BY <1>0, <2>1, <2>2 DEF WordsInv
<1>4. CASE ReadVramWord
  <2>1. /\ UNCHANGED <<parameters, words, drawn>>
        /\ command_state'.state \in {"command", "sending"}
    <3>1. command_state.state = "sending" /\ UNCHANGED <<parameters, words, drawn>>
      BY <1>4 DEF ReadVramWord
    <3>2. \/ command_state' = WaitingForCommand
          \/ \E i, n : command_state' = [command_state EXCEPT !.buffer_idx = i, !.remaining = n]
      BY <1>4 DEF ReadVramWord
    <3>3. command_state'.state \in {"command", "sending"}
      <4>1. ASSUME NEW i, NEW n,
                   command_state' = [command_state EXCEPT !.buffer_idx = i, !.remaining = n]
            PROVE  command_state'.state = "sending"
        BY <3>1, <4>1
      <4>2. ASSUME command_state' = WaitingForCommand
            PROVE  command_state'.state = "command"
        BY <4>2 DEF WaitingForCommand
      <4> QED
        BY <3>2, <4>1, <4>2
    <3> QED
      BY <3>1, <3>3
  <2> QED
    BY <1>0, <2>1 DEF WordsInv
<1>5. CASE EndPolyline \/ ResetCommandBuffer \/ Reset
  <2>1. /\ command_state' = WaitingForCommand /\ parameters' = AllStale /\ words' = 0
        /\ UNCHANGED drawn
    BY <1>5 DEF EndPolyline, ResetCommandBuffer, Reset
  <2> QED
    BY <1>0, <2>1 DEF WordsInv, WaitingForCommand
<1>6. ASSUME NEW c, ExecuteSettings(c) \/ SetIrq(c) PROVE WordsInv'
  BY <1>2, <1>6 DEF ExecuteSettings, SetIrq, gp0Vars
<1>7. CASE WriteWhileSending \/ Panicked \/ UNCHANGED vars
  BY <1>2, <1>7 DEF WriteWhileSending, Panicked, gp0Vars, vars
<1>8. ASSUME NEW b, \/ SetDisplayEnabled(b) \/ UpdateConfig(b) \/ SetDmaMode(b)
                    \/ SetHorizontalDisplayRange(b) \/ SetVerticalDisplayRange(b)
                    \/ SetDisplayMode(b)
      PROVE WordsInv'
  BY <1>2, <1>8 DEF SetDisplayEnabled, UpdateConfig, SetDmaMode, SetHorizontalDisplayRange,
                    SetVerticalDisplayRange, SetDisplayMode, gp0Vars
<1> QED
  BY <1>1, <1>3, <1>4, <1>5, <1>6, <1>7, <1>8, ParameterStep, PolylineStep
     DEF Next, Gp0Step, Gp1Step

(***************************************************************************)
(* The display registers.                                                  *)
(***************************************************************************)
MaxX == 4095
MaxY == 1023
Displays ==
    [x : (0 .. MaxX) \X (0 .. MaxX), y : (0 .. MaxY) \X (0 .. MaxY),
     pal : BOOLEAN, interlaced : BOOLEAN, double : BOOLEAN, divider : {10, 8, 5, 4, 7},
     display_enabled : BOOLEAN, dma_mode : {"off", "fifo", "cpu_to_gpu", "gpu_to_cpu"}]

DisplayInv == registers \in Displays /\ crop \in BOOLEAN

LEMMA DisplayInitially == ASSUME Init PROVE DisplayInv
<1>1. 512 \in 0 .. MaxX /\ 512 + 2560 \in 0 .. MaxX /\ 16 \in 0 .. MaxY /\ 16 + 240 \in 0 .. MaxY
  BY DEF MaxX, MaxY
<1> QED
  BY <1>1 DEF Init, DisplayInv, ResetRegisters, Displays

LEMMA DisplayStep ==
    ASSUME RangesAssumption, DisplayInv, [Next]_vars
    PROVE  DisplayInv'
<1>0. /\ XRanges \subseteq (0 .. MaxX) \X (0 .. MaxX)
      /\ YRanges \subseteq (0 .. MaxY) \X (0 .. MaxY)
      /\ DisplayModes \subseteq [pal : BOOLEAN, interlaced : BOOLEAN, double : BOOLEAN,
                                 divider : {10, 8, 5, 4, 7}]
  BY ZenonT(40) DEF RangesAssumption, MaxX, MaxY
<1>1. CASE Reset
  <2>1. 512 \in 0 .. MaxX /\ 512 + 2560 \in 0 .. MaxX
        /\ 16 \in 0 .. MaxY /\ 16 + 240 \in 0 .. MaxY
    BY DEF MaxX, MaxY
  <2> QED
    BY <1>1, <2>1 DEF Reset, DisplayInv, ResetRegisters, Displays
<1>2. ASSUME NEW b \in BOOLEAN, SetDisplayEnabled(b) \/ UpdateConfig(b) PROVE DisplayInv'
  BY <1>2 DEF SetDisplayEnabled, UpdateConfig, DisplayInv, Displays
<1>3. ASSUME NEW m \in {"off", "fifo", "cpu_to_gpu", "gpu_to_cpu"}, SetDmaMode(m)
      PROVE  DisplayInv'
  BY <1>3 DEF SetDmaMode, DisplayInv, Displays
<1>4. ASSUME NEW r \in XRanges, SetHorizontalDisplayRange(r) PROVE DisplayInv'
  <2>1. r \in (0 .. MaxX) \X (0 .. MaxX)
    BY <1>0
  <2> QED
    BY <1>4, <2>1 DEF SetHorizontalDisplayRange, DisplayInv, Displays
<1>5. ASSUME NEW r \in YRanges, SetVerticalDisplayRange(r) PROVE DisplayInv'
  <2>1. r \in (0 .. MaxY) \X (0 .. MaxY)
    BY <1>0
  <2> QED
    BY <1>5, <2>1 DEF SetVerticalDisplayRange, DisplayInv, Displays
<1>6. ASSUME NEW m \in DisplayModes, SetDisplayMode(m) PROVE DisplayInv'
  <2>1. m \in [pal : BOOLEAN, interlaced : BOOLEAN, double : BOOLEAN,
               divider : {10, 8, 5, 4, 7}]
    BY <1>0
  <2> QED
    BY <1>6, <2>1 DEF SetDisplayMode, DisplayInv, Displays
<1>7. CASE Gp0Step \/ Panicked \/ UNCHANGED vars
  <2>1. UNCHANGED <<registers, crop>>
    BY <1>7 DEF Gp0Step, Panicked, vars, StartCommand, ExecuteSettings, SetIrq, WriteParameter,
                EndPolyline, WritePolyline, ReceiveWord, ReadVramWord, WriteWhileSending,
                ResetCommandBuffer
  <2> QED
    BY <2>1 DEF DisplayInv
<1> QED
  BY <1>1, <1>2, <1>3, <1>4, <1>5, <1>6, <1>7 DEF Next, Gp1Step

LEMMA TransferStep ==
    ASSUME CommandsAssumption, SizesAssumption, WordsInv, TransferInv, [Next]_vars
    PROVE  TransferInv'
<1>0. 0 \in Nat /\ words + 1 \in Nat /\ words \in Nat
  BY DEF TransferInv
<1>1. CASE UNCHANGED <<command_state, blit_buffer, words, taken, drawn>>
  BY <1>0, <1>1, TransferKept
<1>2. ASSUME NEW c, ExecuteSettings(c) \/ SetIrq(c) PROVE TransferInv'
  BY <1>1, <1>2 DEF ExecuteSettings, SetIrq, gp0Vars
<1>3. CASE WriteWhileSending \/ Panicked \/ UNCHANGED vars
  BY <1>1, <1>3 DEF WriteWhileSending, Panicked, gp0Vars, vars
<1>4. ASSUME NEW b, \/ SetDisplayEnabled(b) \/ UpdateConfig(b) \/ SetDmaMode(b)
                    \/ SetHorizontalDisplayRange(b) \/ SetVerticalDisplayRange(b)
                    \/ SetDisplayMode(b)
      PROVE TransferInv'
  BY <1>1, <1>4 DEF SetDisplayEnabled, UpdateConfig, SetDmaMode, SetHorizontalDisplayRange,
                    SetVerticalDisplayRange, SetDisplayMode, gp0Vars
<1>5. ASSUME NEW c, StartCommand(c) PROVE TransferInv'
  BY <1>0, <1>5, TransferKept DEF StartCommand, WaitingForParameters
<1>6. CASE EndPolyline \/ ResetCommandBuffer \/ Reset
  BY <1>0, <1>6, TransferKept DEF EndPolyline, ResetCommandBuffer, Reset, WaitingForCommand
<1>7. CASE WriteParameter
  <2> DEFINE c == command_state.command
             p == [parameters EXCEPT ![command_state.index] = words + 1]
  <2>1. c.op # "blit"
    BY <1>7 DEF WriteParameter, WordsInv, Filled, Waited, Primitives, Segment, Polylines
  <2>2. \/ ExecutePrimitive(c, p) \/ ExecuteLine(c, p)
        \/ BeginCpuToVram(c, p) \/ BeginVramToCpu(c, p)
        \/ /\ command_state' = WaitingForParameters(c, command_state.index + 1,
                                                    command_state.remaining - 1)
           /\ words' = words + 1 /\ UNCHANGED <<drawn, taken>>
    BY <1>7 DEF WriteParameter
  <2> HIDE DEF c, p
  <2>3. CASE \/ ExecutePrimitive(c, p) \/ ExecuteLine(c, p)
             \/ BeginCpuToVram(c, p) \/ BeginVramToCpu(c, p)
    BY <2>1, <2>3, CommandTransfers
  <2> QED
    BY <1>0, <2>2, <2>3, TransferKept DEF WaitingForParameters
<1>8. CASE WritePolyline
  <2> DEFINE c == command_state.command
             p == [parameters EXCEPT ![1] = words + 1]
  <2>1. c.op # "blit"
    BY <1>8 DEF WritePolyline, WordsInv, Segment, Polylines
  <2>2. \/ ExecuteLine(c, p)
        \/ /\ command_state' = WaitingForParameters(c, 2, 1)
           /\ words' = words + 1 /\ UNCHANGED <<drawn, taken>>
    BY <1>8 DEF WritePolyline
  <2> HIDE DEF c, p
  <2>3. CASE ExecuteLine(c, p)
    BY <2>1, <2>3, CommandTransfers
  <2> QED
    BY <1>0, <2>2, <2>3, TransferKept DEF WaitingForParameters
<1> QED
  BY <1>2, <1>3, <1>4, <1>5, <1>6, <1>7, <1>8, ReceiveTransfers, SendTransfers
     DEF Next, Gp0Step, Gp1Step

-----------------------------------------------------------------------------
(***************************************************************************)
(* The picture.                                                            *)
(***************************************************************************)
(* What a size divided by a divider is, and that dividing keeps the order.  *)
LEMMA Dividing ==
    ASSUME NEW d \in {10, 8, 5, 4, 7}
    PROVE  /\ \A x \in Int : x \div d \in Int
           /\ \A x, y \in Int : x <= y => x \div d <= y \div d
           /\ 2560 \div d \in 0 .. 640
           /\ 0 \div d = 0
           /\ \A x \in Int : x \div d > 0 => x > 0
<1>1. CASE d = 10
  BY <1>1, Z3
<1>2. CASE d = 8
  BY <1>2, Z3
<1>3. CASE d = 5
  BY <1>3, Z3
<1>4. CASE d = 4
  BY <1>4, Z3
<1>5. CASE d = 7
  BY <1>5, Z3
<1> QED
  BY <1>1, <1>2, <1>3, <1>4, <1>5

(* Along the line: a picture that begins left of the screen or ends right   *)
(* of it is cut, and what is left fits into the frame.                      *)
LEMMA WidthFits ==
    ASSUME NEW d \in {10, 8, 5, 4, 7}, NEW left \in Nat, NEW x1 \in Nat, NEW last \in Nat,
           NEW clocks, NEW xStart,
           clocks = (AtMost(left + 2560, last) - x1) - (IF x1 < left THEN left - x1 ELSE 0),
           xStart = AtLeast(0, (x1 - left) \div d),
           clocks \div d > 0
    PROVE  LET total == 2560 \div d
               width == AtMost(clocks \div d, total - xStart)
           IN  /\ xStart \in Nat /\ width \in Nat /\ xStart + width <= total
               /\ total \in 0 .. 640
               /\ x1 < left => (left - x1) \div d >= 0
<1> DEFINE right == left + 2560
           x2 == AtMost(right, last)
           total == 2560 \div d
           q == (x1 - left) \div d
           width == AtMost(clocks \div d, total - xStart)
<1>1. x2 \in Int /\ x2 <= right /\ clocks \in Int
  BY DEF AtMost
<1>2. clocks > 0
  BY <1>1, Dividing
<1>3. x1 - left <= 2560
  BY <1>1, <1>2
<1>4. q \in Int /\ q <= total /\ total \in 0 .. 640 /\ clocks \div d \in Int
  BY <1>1, <1>3, Dividing
<1>5. x1 < left => (left - x1) \div d >= 0
  <2>1. x1 < left => 0 <= left - x1 /\ left - x1 \in Int
    OBVIOUS
  <2> QED
    BY <2>1, Dividing
<1>8. xStart = AtLeast(0, q)
  OBVIOUS
<1> HIDE DEF q, total
<1>6. xStart \in Nat /\ xStart <= total
  BY <1>8, <1>4 DEF AtLeast
<1>7. width \in Nat /\ xStart + width <= total
  BY <1>4, <1>6 DEF AtMost
<1> QED
  BY <1>4, <1>5, <1>6, <1>7 DEF total

LEMMA HeightFits ==
    ASSUME NEW m \in {1, 2}, NEW top \in Nat, NEW bottom \in Nat, NEW y1 \in Nat,
           NEW last \in Nat, NEW height, NEW yStart,
           height = (AtMost(bottom, last) - y1) * m
                       - (IF y1 < top THEN (top - y1) * m ELSE 0),
           yStart = AtLeast(0, (y1 - top) * m),
           height > 0
    PROVE  /\ yStart \in Nat /\ height \in Nat /\ yStart + height <= (bottom - top) * m
           /\ y1 < top => (top - y1) * m >= 0
<1> DEFINE y2 == AtMost(bottom, last)
<1>1. y2 \in Int /\ y2 <= bottom
  BY DEF AtMost
<1> HIDE DEF y2
<1>2. CASE m = 1
  BY <1>1, <1>2 DEF y2, AtLeast
<1>3. CASE m = 2
  BY <1>1, <1>3 DEF y2, AtLeast
<1> QED
  BY <1>2, <1>3

(* Each row of the frame buffer that is written is 1024 pixels long, and    *)
(* there are as many as an interlaced PAL picture has lines.                *)
LEMMA SlicesFit ==
    ASSUME NEW f, NEW size, f.x_start \in Nat, f.width \in Nat, f.y_start \in Nat,
           f.height \in Nat \ {0}, size.width \in 0 .. 640, size.height \in 0 .. 576,
           f.x_start + f.width <= size.width, NEW y \in 0 .. size.height - 1
    PROVE  \A s \in Slices(f, size, y) :
               /\ 1024 * y <= s[1] /\ s[1] <= s[2] /\ s[2] <= 1024 * (y + 1)
               /\ s[2] <= FRAME_BUFFER_LEN
<1>1. FRAME_BUFFER_LEN = 1024 * 576
  BY DEF FRAME_BUFFER_LEN, ScreenSize
<1>2. y \in Nat /\ y + 1 <= 576 /\ 1024 * (y + 1) <= 1024 * 576
  BY SMTT(40)
<1> DEFINE row == 1024 * y
           a == f.x_start
           b == f.x_start + f.width
<1>3. /\ row \in Nat /\ 1024 * (y + 1) = row + 1024 /\ a \in Nat /\ b \in Nat
      /\ a <= b /\ b <= size.width /\ size.width <= 640
  BY <1>2, SMTT(40)
<1> TAKE s \in Slices(f, size, y)
<1>4. s \in {<<row, row + 1024>>, <<row, row + a>>, <<row + a, row + b>>,
             <<row + b, row + size.width>>}
  <2>1. row + f.x_start + f.width = row + b
    OBVIOUS
  <2> QED
    BY <2>1 DEF Slices
<1> HIDE DEF row, a, b
<1>5. row <= s[1] /\ s[1] <= s[2] /\ s[2] <= row + 1024
  BY <1>3, <1>4, SMTT(40)
<1>6. s[2] <= 1024 * 576
  BY <1>2, <1>3, <1>4, SMTT(40)
<1> QED
  BY <1>1, <1>3, <1>5, <1>6 DEF row

LEMMA DisplayInvImplies == ASSUME DisplayInv PROVE FrameFits
<1> DEFINE r == registers
           sc == ScreenSize(r.pal)
           m == Multiplier(r)
           d == r.divider
           top == IF crop THEN sc.top + sc.overscan ELSE sc.top
           bottom == IF crop THEN sc.bottom - sc.overscan ELSE sc.bottom
           x1 == r.x[1]
           y1 == r.y[1]
           f == FrameLocation(r, crop)
           size == FrameSize(r, crop)
           x2 == AtMost(sc.right, r.x[2])
           y2 == AtMost(bottom, r.y[2])
           clocks == (x2 - x1) - (IF x1 < sc.left THEN sc.left - x1 ELSE 0)
           height == (y2 - y1) * m - (IF y1 < top THEN (top - y1) * m ELSE 0)
           xStart == AtLeast(0, (x1 - sc.left) \div d)
           yStart == AtLeast(0, (y1 - top) * m)
           width == AtMost(clocks \div d, 2560 \div d - xStart)
<1>1. /\ d \in {10, 8, 5, 4, 7} /\ m \in {1, 2}
      /\ x1 \in Nat /\ r.x[2] \in Nat /\ y1 \in Nat /\ r.y[2] \in Nat
      /\ r.pal \in BOOLEAN /\ crop \in BOOLEAN
  BY DEF DisplayInv, Displays, Multiplier
<1>2. /\ sc.left \in Nat /\ sc.right = sc.left + 2560 /\ sc.right - sc.left = 2560
      /\ top \in Nat /\ bottom \in Nat
      /\ bottom - top = sc.bottom - sc.top - (IF crop THEN 2 * sc.overscan ELSE 0)
      /\ bottom - top \in 0 .. 288
  BY <1>1 DEF ScreenSize
<1>3. size.width = 2560 \div d /\ size.height = (bottom - top) * m
  BY <1>2, SMTT(90) DEF FrameSize
<1>4. size.height \in 0 .. 576
  <2> HIDE DEF top, bottom, m, size
  <2>1. \A k \in 0 .. 288 : \A n \in {1, 2} : k * n \in 0 .. 576
    OBVIOUS
  <2> QED
    BY <1>1, <1>2, <1>3, <2>1
<1>5. SUFFICES ASSUME f # None
      PROVE  /\ f.y_start + f.height <= size.height
             /\ f.x_offset >= 0 /\ f.y_offset >= 0
             /\ \A y \in {0, f.y_start, f.y_start + f.height - 1, size.height - 1} :
                  \A s \in Slices(f, size, y) :
                     /\ 1024 * y <= s[1] /\ s[1] <= s[2] /\ s[2] <= 1024 * (y + 1)
                     /\ s[2] <= FRAME_BUFFER_LEN
  BY DEF FrameFits
<1>6. /\ ~(clocks \div d <= 0 \/ height <= 0)
      /\ f.x_offset = IF x1 < sc.left THEN (sc.left - x1) \div d ELSE 0
      /\ f.y_offset = IF y1 < top THEN (top - y1) * m ELSE 0
      /\ f.x_start = xStart /\ f.y_start = yStart /\ f.width = width /\ f.height = height
  <2>1. f = IF clocks \div d <= 0 \/ height <= 0 THEN None
            ELSE [op |-> "frame",
                  x_offset |-> IF x1 < sc.left THEN (sc.left - x1) \div d ELSE 0,
                  y_offset |-> IF y1 < top THEN (top - y1) * m ELSE 0,
                  x_start |-> xStart, y_start |-> yStart,
                  width |-> AtMost(clocks \div d, size.width - xStart), height |-> height]
    BY DEF FrameLocation
  <2> HIDE DEF f, clocks, height, xStart, yStart, size, top, m, x1, y1, sc, d
  <2> QED
    BY <1>3, <1>5, <2>1 DEF width
<1>7. clocks \div d \in Int /\ height \in Int
  <2>1. clocks \in Int
    BY <1>1, <1>2, SMTT(90) DEF AtMost
  <2>2. height \in Int
    BY <1>1, <1>2, SMTT(90) DEF AtMost
  <2> HIDE DEF clocks, height, d
  <2> QED
    BY <1>1, <2>1, <2>2, Dividing
<1>8. clocks \div d > 0 /\ height > 0
  <2> HIDE DEF clocks, height, d
  <2> QED
    BY <1>6, <1>7
<1>9. /\ xStart \in Nat /\ width \in Nat /\ xStart + width <= 2560 \div d
      /\ 2560 \div d \in 0 .. 640
      /\ x1 < sc.left => (sc.left - x1) \div d >= 0
  <2> DEFINE left == sc.left
             last == r.x[2]
  <2>1. clocks = (AtMost(left + 2560, last) - x1) - (IF x1 < left THEN left - x1 ELSE 0)
    BY <1>2, SMTT(90)
  <2>2. xStart = AtLeast(0, (x1 - left) \div d) /\ left \in Nat /\ last \in Nat
        /\ width = AtMost(clocks \div d, 2560 \div d - xStart)
    BY <1>1, <1>2, SMTT(90)
  <2> HIDE DEF clocks, xStart, width, left, last, d, x1
  <2>3. /\ xStart \in Nat /\ width \in Nat /\ xStart + width <= 2560 \div d
        /\ 2560 \div d \in 0 .. 640
        /\ x1 < left => (left - x1) \div d >= 0
    BY <1>1, <1>8, <2>1, <2>2, WidthFits
  <2> QED
    BY <2>3 DEF left
<1>10. /\ yStart \in Nat /\ height \in Nat /\ yStart + height <= (bottom - top) * m
       /\ y1 < top => (top - y1) * m >= 0
  <2> DEFINE last == r.y[2]
  <2>1. /\ height = (AtMost(bottom, last) - y1) * m - (IF y1 < top THEN (top - y1) * m ELSE 0)
        /\ yStart = AtLeast(0, (y1 - top) * m) /\ last \in Nat
    BY <1>1
  <2>2. height > 0 /\ m \in {1, 2} /\ y1 \in Nat /\ top \in Nat /\ bottom \in Nat
    BY <1>1, <1>2, <1>8, SMTT(90)
  <2> HIDE DEF height, yStart, top, bottom, m, last, y1
  <2> QED
    BY <2>1, <2>2, HeightFits, Zenon
<1> HIDE DEF f, size, clocks, height, xStart, yStart, width, top, bottom, m, sc, d, x1, y1
<1>11. f.y_start + f.height <= size.height /\ f.x_offset >= 0 /\ f.y_offset >= 0
  BY <1>3, <1>6, <1>9, <1>10
<1>12. \A y \in {0, f.y_start, f.y_start + f.height - 1, size.height - 1} :
           y \in 0 .. size.height - 1
  BY <1>4, <1>6, <1>8, <1>10, <1>11, SMTT(40)
<1>13. /\ f.x_start \in Nat /\ f.width \in Nat /\ f.y_start \in Nat
       /\ f.height \in Nat \ {0} /\ size.width \in 0 .. 640
       /\ f.x_start + f.width <= size.width
  BY <1>3, <1>6, <1>8, <1>9, <1>10
<1> QED
  BY <1>4, <1>11, <1>12, <1>13, SlicesFit

-----------------------------------------------------------------------------
(* What a command that waits has got, and what a transfer has moved, agree  *)
(* with the number of words so far; the display registers hold what their   *)
(* bits can.                                                                *)
THEOREM CommandsAgree == Spec => [](WordsInv /\ TransferInv /\ DisplayInv)
<1>1. Init => WordsInv /\ TransferInv /\ DisplayInv
  <2> SUFFICES ASSUME Init PROVE WordsInv /\ TransferInv /\ DisplayInv
    OBVIOUS
  <2>1. WordsInv
    BY DEF Init, WordsInv, WaitingForCommand, AllStale, Stale, Slots, None,
           PrimitivesFromOwnWords
  <2>2. TransferInv
    <3>1. taken = Counted(0)
      BY CountedIsSequence, EmptySeq DEF Init
    <3> QED
      BY <3>1 DEF Init, TransferInv, WaitingForCommand, None
  <2> QED
    BY <2>1, <2>2, DisplayInitially
<1>2. /\ WordsInv /\ TransferInv /\ DisplayInv /\ [Next]_vars
      => (WordsInv /\ TransferInv /\ DisplayInv)'
  BY WordsStep, TransferStep, DisplayStep, CommandsAssumed, SizesAssumed, RangesAssumed
<1> QED
  BY <1>1, <1>2, PTL DEF Spec

(* Every primitive is drawn from the words the game sent for it, whatever   *)
(* its form and wherever a command before it was broken off.                *)
THEOREM PrimitivesDrawnFromOwnWords == Spec => []PrimitivesFromOwnWords
<1>1. WordsInv => PrimitivesFromOwnWords
  BY DEF WordsInv
<1> QED
  BY <1>1, CommandsAgree, PTL

(* A transfer of any size moves each of its halfwords once and in order.    *)
THEOREM TransfersAreExact == Spec => []TransfersExact
<1>1. TransferInv => TransfersExact
  BY TransferInvImplies
<1> QED
  BY <1>1, CommandsAgree, PTL

(* The assertion of compute_frame_location holds, and the slices that       *)
(* populate_frame_buffer writes are in their rows, whatever the registers.  *)
THEOREM PictureFitsFrame == Spec => []FrameFits
<1>1. DisplayInv => FrameFits
  BY DisplayInvImplies
<1> QED
  BY <1>1, CommandsAgree, PTL

-----------------------------------------------------------------------------
(***************************************************************************)
(* The hardware rasterizer.  A set of numbers that has 0 and is closed     *)
(* under + 1 has all of them: the library states induction with an         *)
(* operator for a parameter, and this is its form for a set.               *)
(***************************************************************************)
LEMMA AllNumbers ==
  ASSUME NEW S, 0 \in S, \A n \in Nat : n \in S => n + 1 \in S
  PROVE  \A n \in Nat : n \in S
<1> DEFINE T == Nat \ S
<1>1. SUFFICES ASSUME T # {} PROVE FALSE
  OBVIOUS
<1>2. PICK k \in T : \A j \in T : <<j, k>> \notin OpToRel(<, Nat)
  BY <1>1, NatLessThanWellFounded, WFMin
<1>3. k \in Nat /\ k \notin S /\ k # 0
  BY <1>2
<1>4. k - 1 \in Nat /\ k - 1 < k /\ (k - 1) + 1 = k
  BY <1>3
<1>5. <<k - 1, k>> \in OpToRel(<, Nat)
  BY <1>3, <1>4 DEF OpToRel
<1>6. k - 1 \notin T
  BY <1>2, <1>5
<1> QED BY <1>3, <1>4, <1>6

-----------------------------------------------------------------------------
(***************************************************************************)
(* The flush: one lemma for an empty queue, one for a command more.        *)
(***************************************************************************)
\* The memories after the first n commands are f[n], for each n.
IsExecution(f, m, q, n) ==
    f = [i \in 0 .. n |-> IF i = 0 THEN m ELSE Execute(f[i - 1], q[i])]

LEMMA HasExecution ==
    ASSUME NEW m, NEW q
    PROVE  \A n \in Nat : \E f : IsExecution(f, m, q, n)
<1> DEFINE S == {n \in Nat : \E f : IsExecution(f, m, q, n)}
<1>1. 0 \in S
  <2>1. PICK f : f = [i \in 0 .. 0 |-> m]
    OBVIOUS
  <2>2. f = [i \in 0 .. 0 |-> IF i = 0 THEN m ELSE Execute(f[i - 1], q[i])]
    BY <2>1
  <2> QED
    BY <2>2 DEF IsExecution
<1>2. ASSUME NEW n \in Nat, n \in S PROVE n + 1 \in S
  <2>1. PICK f : IsExecution(f, m, q, n)
    BY <1>2
  <2>2. PICK g : g = [i \in 0 .. n + 1 |-> IF i = n + 1 THEN Execute(f[n], q[n + 1]) ELSE f[i]]
    OBVIOUS
  <2>3. ASSUME NEW i \in 0 .. n + 1
        PROVE  g[i] = IF i = 0 THEN m ELSE Execute(g[i - 1], q[i])
    <3>1. CASE i = 0
      BY <2>1, <2>2, <3>1 DEF IsExecution
    <3>2. CASE i = n + 1
      BY <2>2, <3>2
    <3>3. CASE i # 0 /\ i # n + 1
      <4>1. i \in 0 .. n /\ i - 1 \in 0 .. n + 1 /\ i - 1 # n + 1
        BY <3>3
      <4>2. g[i] = f[i] /\ g[i - 1] = f[i - 1]
        BY <2>2, <3>3, <4>1
      <4>3. f[i] = Execute(f[i - 1], q[i])
        BY <2>1, <3>3, <4>1 DEF IsExecution
      <4> QED
        BY <3>3, <4>2, <4>3
    <3> QED
      BY <3>1, <3>2, <3>3
  <2>4. g = [i \in 0 .. n + 1 |-> IF i = 0 THEN m ELSE Execute(g[i - 1], q[i])]
    BY <2>2, <2>3
  <2> QED
    BY <2>4 DEF IsExecution
<1>3. \A n \in Nat : n \in S
  <2> HIDE DEF S
  <2> QED
    BY <1>1, <1>2, AllNumbers
<1> QED
  BY <1>3

LEMMA ExecutedBy ==
    ASSUME NEW m, NEW S, NEW q \in Seq(S)
    PROVE  \E f : IsExecution(f, m, q, Len(q)) /\ Executed(m, q) = f[Len(q)]
<1> DEFINE n == Len(q)
           f == CHOOSE f : f = [i \in 0 .. n |-> IF i = 0 THEN m ELSE Execute(f[i - 1], q[i])]
<1>1. n \in Nat
  OBVIOUS
<1>2. \E g : g = [i \in 0 .. n |-> IF i = 0 THEN m ELSE Execute(g[i - 1], q[i])]
  <2>1. PICK k \in Nat : k = n
    BY <1>1
  <2>2. PICK g : IsExecution(g, m, q, k)
    BY HasExecution
  <2> QED
    BY <2>1, <2>2 DEF IsExecution
<1>3. f = [i \in 0 .. n |-> IF i = 0 THEN m ELSE Execute(f[i - 1], q[i])]
  BY <1>2
<1>4. Executed(m, q) = f[Len(q)]
  BY DEF Executed
<1> QED
  BY <1>3, <1>4 DEF IsExecution

\* Two executions agree as far as their queues do.
LEMMA SameExecution ==
    ASSUME NEW m, NEW p, NEW q, NEW k \in Nat, NEW n \in Nat, NEW f, NEW g,
           IsExecution(f, m, p, k), IsExecution(g, m, q, n), k <= n,
           \A i \in 1 .. k : p[i] = q[i]
    PROVE  \A i \in 0 .. k : f[i] = g[i]
<1> DEFINE S == {i \in Nat : i <= k => f[i] = g[i]}
<1>1. 0 \in S
  BY DEF IsExecution
<1>2. ASSUME NEW i \in Nat, i \in S PROVE i + 1 \in S
  <2> SUFFICES ASSUME i + 1 <= k PROVE f[i + 1] = g[i + 1]
    OBVIOUS
  <2>1. /\ i + 1 \in 0 .. k /\ i + 1 \in 0 .. n /\ i + 1 \in 1 .. k
        /\ i + 1 # 0 /\ (i + 1) - 1 = i
    OBVIOUS
  <2>2. f[i + 1] = Execute(f[i], p[i + 1]) /\ g[i + 1] = Execute(g[i], q[i + 1])
    BY <2>1 DEF IsExecution
  <2> QED
    BY <1>2, <2>1, <2>2
<1>3. \A i \in Nat : i \in S
  <2> HIDE DEF S
  <2> QED
    BY <1>1, <1>2, AllNumbers
<1> QED
  BY <1>3

\* Nothing is queued: nothing changes.
LEMMA ExecutedNothing ==
    ASSUME NEW m
    PROVE  Executed(m, <<>>) = m
<1>1. <<>> \in Seq({}) /\ Len(<<>>) = 0
  OBVIOUS
<1>2. PICK f : IsExecution(f, m, <<>>, 0) /\ Executed(m, <<>>) = f[0]
  BY <1>1, ExecutedBy
<1> QED
  BY <1>2 DEF IsExecution

\* A command at the end of the queue is executed after all others.
LEMMA ExecutedAppend ==
    ASSUME NEW m, NEW S, NEW q \in Seq(S), NEW c \in S
    PROVE  Executed(m, Append(q, c)) = Execute(Executed(m, q), c)
<1> DEFINE p == Append(q, c)
           n == Len(q)
<1>1. /\ p \in Seq(S) /\ Len(p) = n + 1 /\ n \in Nat /\ n + 1 \in Nat
      /\ p[n + 1] = c /\ \A i \in 1 .. n : q[i] = p[i]
  OBVIOUS
<1>2. PICK f : IsExecution(f, m, q, n) /\ Executed(m, q) = f[n]
  BY ExecutedBy
<1>3. PICK g : IsExecution(g, m, p, n + 1) /\ Executed(m, p) = g[n + 1]
  BY <1>1, ExecutedBy
<1> HIDE DEF p, n
<1>4. f[n] = g[n]
  <2>1. \A i \in 0 .. n : f[i] = g[i]
    BY <1>1, <1>2, <1>3, SameExecution
  <2> QED
    BY <1>1, <2>1
<1>5. g[n + 1] = Execute(g[n], p[n + 1])
  <2>1. n + 1 \in 0 .. n + 1 /\ n + 1 # 0 /\ (n + 1) - 1 = n
    BY <1>1
  <2> QED
    BY <1>3, <2>1 DEF IsExecution
<1> QED
  BY <1>1, <1>2, <1>3, <1>4, <1>5 DEF p

-----------------------------------------------------------------------------
(***************************************************************************)
(* The tiles.                                                              *)
(***************************************************************************)
LEMMA Quotients ==
    ASSUME NEW d \in Nat \ {0}, NEW a \in Nat, NEW b \in Nat
    PROVE  /\ a \div d \in Nat
           /\ a <= b => a \div d <= b \div d
           /\ a < b => a \div d < (b + d - 1) \div d
           /\ (a < b /\ b % d = 0) => a \div d <= b \div d - 1
<1>1. a \div d \in Nat
  BY Z3
<1>2. a <= b => a \div d <= b \div d
  BY Z3
<1>3. a < b => a \div d < (b + d - 1) \div d
  BY Z3
<1>4. (a < b /\ b % d = 0) => a \div d <= b \div d - 1
  BY Z3
<1> QED
  BY <1>1, <1>2, <1>3, <1>4

LEMMA Remainder ==
    ASSUME NEW d \in Nat \ {0}, NEW n \in Nat
    PROVE  n % d \in 0 .. d - 1
BY Z3

LEMMA ModBelow ==
    ASSUME NEW d \in Nat \ {0}, NEW n \in Nat, n < d
    PROVE  n % d = n
BY Z3

LEMMA ModPast ==
    ASSUME NEW d \in Nat \ {0}, NEW n \in Nat, d <= n, n < d + d
    PROVE  n % d = n - d
BY Z3

Sides == /\ VRAM_WIDTH \in Nat \ {0} /\ VRAM_HEIGHT \in Nat \ {0} /\ TileWidth \in Nat \ {0}
         /\ VRAM_WIDTH % TileWidth = 0

LEMMA SidesHold == Sides
BY RasterizerAssumed DEF RasterizerAssumption, Sides

LEMMA TileOfPixel ==
    ASSUME NEW p \in Pixels
    PROVE  <<p[1] \div TileWidth, p[2]>> \in Tiles
<1>1. PICK x \in 0 .. VRAM_WIDTH - 1, y \in 0 .. VRAM_HEIGHT - 1 : p = <<x, y>>
  BY DEF Pixels
<1>2. x \in Nat /\ x < VRAM_WIDTH
  BY <1>1, SidesHold DEF Sides
<1>3. x \div TileWidth \in 0 .. VRAM_WIDTH \div TileWidth - 1
  BY <1>2, SidesHold, Quotients DEF Sides
<1> QED
  BY <1>1, <1>3 DEF Tiles

\* A pixel of a box is in one of its tiles.
LEMMA TilesCover ==
    ASSUME NEW b, b.x1 \in Nat, b.x2 \in Nat, NEW p \in PixelsOf(b)
    PROVE  <<p[1] \div TileWidth, p[2]>> \in TilesOf(b)
<1>1. p \in Pixels /\ b.x1 <= p[1] /\ p[1] < b.x2 /\ b.y1 <= p[2] /\ p[2] < b.y2
  BY DEF PixelsOf
<1>2. PICK x \in 0 .. VRAM_WIDTH - 1, y \in 0 .. VRAM_HEIGHT - 1 : p = <<x, y>>
  BY <1>1 DEF Pixels
<1>3. x \in Nat /\ p[1] = x /\ p[2] = y
  BY <1>2, SidesHold DEF Sides
<1>4. b.x1 \div TileWidth <= x \div TileWidth
      /\ x \div TileWidth < (b.x2 + TileWidth - 1) \div TileWidth
  BY <1>1, <1>3, SidesHold, Quotients DEF Sides
<1>5. <<x \div TileWidth, y>> \in Tiles
  BY <1>1, <1>3, TileOfPixel
<1> QED
  BY <1>1, <1>3, <1>4, <1>5 DEF TilesOf

\* What a box marks covers it.
LEMMA MarksCover ==
    ASSUME NEW b, b.x1 \in Nat, b.x2 \in Nat, NEW a, TilesOf(b) \subseteq a
    PROVE  PixelsOf(b) \subseteq TilePixels(a)
BY TilesCover DEF TilePixels, PixelsOf

LEMMA BoundingBoxCovers ==
    ASSUME NEW a
    PROVE  TilePixels(a) \subseteq BoundingBox(a)
<1> SUFFICES ASSUME NEW p \in TilePixels(a) PROVE p \in BoundingBox(a)
  OBVIOUS
<1>1. p \in Pixels /\ <<p[1] \div TileWidth, p[2]>> \in a
  BY DEF TilePixels
<1>2. PICK x \in 0 .. VRAM_WIDTH - 1, y \in 0 .. VRAM_HEIGHT - 1 : p = <<x, y>>
  BY <1>1 DEF Pixels
<1>3. PICK t : t = <<p[1] \div TileWidth, p[2]>>
  OBVIOUS
<1>4. t \in a /\ t[1] = p[1] \div TileWidth /\ t[2] = p[2]
  BY <1>1, <1>3
<1>5. p[1] \div TileWidth \in Int /\ p[2] \in Int
  BY <1>2, SidesHold, Quotients DEF Sides
<1>6. /\ t[1] <= p[1] \div TileWidth /\ p[1] \div TileWidth <= t[1]
      /\ t[2] <= p[2] /\ p[2] <= t[2]
  BY <1>4, <1>5
<1> QED
  BY <1>1, <1>4, <1>6, Zenon DEF BoundingBox

\* The width of a texture that begins and ends with a pixel.
LEMMA WidthInPixels ==
    ASSUME NEW d \in {1, 2, 4}, NEW m \in Nat, NEW n \in Nat, m <= n,
           m % d = 0, (n + 1) % d = 0
    PROVE  /\ ((n - m) + 1) \div d = ((n \div d) - (m \div d)) + 1
           /\ \A u \in m .. n : u \div d \in (m \div d) .. (n \div d)
           /\ m \div d \in Nat /\ n \div d \in Nat
<1>1. CASE d = 1
  BY <1>1, Z3
<1>2. CASE d = 2
  BY <1>2, Z3
<1>3. CASE d = 4
  BY <1>3, Z3
<1> QED
  BY <1>1, <1>2, <1>3

\* The pixels from column x on, as many as width says, around the right side.
LEMMA AroundTheSide ==
    ASSUME NEW w \in Nat \ {0}, NEW x \in 0 .. w - 1, NEW width \in 1 .. w,
           NEW k \in 0 .. width - 1, NEW column \in Nat, column = x + k
    PROVE  \/ x <= column % w /\ column % w < x + width /\ column % w < w
           \/ x + width > w /\ 0 <= column % w /\ column % w < width - (w - x)
<1>1. CASE column < w
  <2>1. column % w = column
    BY <1>1, ModBelow
  <2> QED
    BY <1>1, <2>1
<1>2. CASE column >= w
  <2>1. w <= column /\ column < w + w
    BY <1>2
  <2>2. column % w = column - w
    BY <2>1, ModPast
  <2> QED
    BY <1>2, <2>2
<1> QED
  BY <1>1, <1>2


\* The fields of a texture, as the commands' bits limit them.
LEMMA TextureTyped ==
    ASSUME NEW t \in Textures, t # NoTexture
    PROVE  /\ \/ t.kind = "triangle" /\ SampledByTriangle(t)
              \/ t.kind = "rectangle" /\ SampledByRectangle(t)
           /\ t.window \in Windows /\ t.depth \in {4, 8, 15}
           /\ t.x \in Nat /\ t.x < VRAM_WIDTH /\ t.y \in Nat /\ t.y + PageHeight <= VRAM_HEIGHT
           /\ t.depth # 15 =>
                 /\ t.clut.x1 \in 0 .. VRAM_WIDTH - 1 /\ t.clut.y1 \in 0 .. VRAM_HEIGHT - 1
                 /\ t.clut.x2 \in t.clut.x1 .. t.clut.x1 + VRAM_WIDTH
                 /\ t.clut.y2 = t.clut.y1 + 1
<1>1. t \in Textures \ {NoTexture}
  OBVIOUS
<1>2. /\ \/ t.kind = "triangle" /\ SampledByTriangle(t)
         \/ t.kind = "rectangle" /\ SampledByRectangle(t)
      /\ t.window \in Windows /\ t.depth \in {4, 8, 15}
      /\ t.x \in 0 .. VRAM_WIDTH - 1 /\ t.y \in Nat /\ t.y + PageHeight <= VRAM_HEIGHT
      /\ t.depth # 15 =>
            /\ t.clut.x1 \in 0 .. VRAM_WIDTH - 1 /\ t.clut.y1 \in 0 .. VRAM_HEIGHT - 1
            /\ t.clut.x2 \in t.clut.x1 .. t.clut.x1 + VRAM_WIDTH
            /\ t.clut.y2 = t.clut.y1 + 1
  BY <1>1, RasterizerAssumed, Zenon DEF RasterizerAssumption
<1>3. t.x \in Nat /\ t.x < VRAM_WIDTH
  BY <1>2, SidesHold DEF Sides
<1> QED
  BY <1>2, <1>3

LEMMA PagesHold ==
    /\ PageWidth \in Nat \ {0} /\ PageHeight \in Nat \ {0}
    /\ PageWidth % 4 = 0 /\ PageWidth <= VRAM_WIDTH
BY RasterizerAssumed DEF RasterizerAssumption

\* The part of a texture one check is for.
IsArea(t, a) ==
    /\ a.u1 \in Nat /\ a.u2 \in Nat /\ a.u1 <= a.u2 /\ a.u2 < PageWidth
    /\ a.v1 \in Nat /\ a.v2 \in Nat /\ a.v1 <= a.v2 /\ a.v2 < PageHeight
OnPixels(t, a) ==
    a.u1 % TexelsInPixel(t.depth) = 0 /\ (a.u2 + 1) % TexelsInPixel(t.depth) = 0

\* A box the check looks at holds the pixel of a texel in an area that begins and
\* ends with a pixel.
LEMMA AreaChecked ==
    ASSUME NEW t \in Textures, t # NoTexture, NEW a, IsArea(t, a), OnPixels(t, a),
           NEW u \in a.u1 .. a.u2, NEW v \in a.v1 .. a.v2
    PROVE  \E b \in AreaBoxes(t, a) :
              b.x1 \in Nat /\ b.x2 \in Nat /\ PixelOfTexel(t, <<u, v>>) \in PixelsOf(b)
<1> DEFINE D == TexelsInPixel(t.depth)
           first == a.u1 \div D
           last == a.u2 \div D
           x == Column(t, a.u1) % VRAM_WIDTH
           y == (t.y + a.v1) % VRAM_HEIGHT
           width == ((a.u2 - a.u1) + 1) \div D
           height == (a.v2 - a.v1) + 1
<1>1. /\ a.u1 \in Nat /\ a.u2 \in Nat /\ a.v1 \in Nat /\ a.v2 \in Nat
      /\ a.u1 <= a.u2 /\ a.u2 < VRAM_WIDTH /\ a.v1 <= a.v2 /\ t.depth \in {4, 8, 15}
      /\ t.x \in Nat /\ t.x < VRAM_WIDTH /\ t.y \in Nat /\ t.y + a.v2 < VRAM_HEIGHT
      /\ VRAM_WIDTH \in Nat \ {0} /\ VRAM_HEIGHT \in Nat \ {0}
  <2>1. /\ VRAM_WIDTH \in Nat \ {0} /\ VRAM_HEIGHT \in Nat \ {0}
    BY SidesHold DEF Sides
  <2>2. /\ t.depth \in {4, 8, 15} /\ t.x \in Nat /\ t.x < VRAM_WIDTH
        /\ t.y \in Nat /\ t.y + PageHeight <= VRAM_HEIGHT
    BY TextureTyped
  <2> QED
    BY <2>1, <2>2, PagesHold DEF IsArea
<1>2. D \in {1, 2, 4}
  BY <1>1 DEF TexelsInPixel
<1>3. a.u1 % D = 0 /\ (a.u2 + 1) % D = 0 /\ last < VRAM_WIDTH
  <2>1. a.u1 % D = 0 /\ (a.u2 + 1) % D = 0
    BY DEF OnPixels
  <2>2. PICK n, d : n = a.u2 /\ d = D
    OBVIOUS
  <2>3. n \in Nat /\ n < VRAM_WIDTH /\ d \in {1, 2, 4} /\ VRAM_WIDTH \in Nat
    BY <1>1, <1>2, <2>2
  <2>4. n \div d < VRAM_WIDTH
    BY <2>3, Z3
  <2> QED
    BY <2>1, <2>2, <2>4
<1>4. width = (last - first) + 1 /\ first \in Nat /\ last \in Nat
      /\ \A n \in a.u1 .. a.u2 : n \div D \in first .. last
  <2> HIDE DEF D
  <2>1. PICK d, m, n : d = D /\ m = a.u1 /\ n = a.u2
    OBVIOUS
  <2>2. d \in {1, 2, 4} /\ m \in Nat /\ n \in Nat /\ m <= n /\ m % d = 0 /\ (n + 1) % d = 0
    BY <1>1, <1>2, <1>3, <2>1
  <2>3. /\ ((n - m) + 1) \div d = ((n \div d) - (m \div d)) + 1
        /\ \A k \in m .. n : k \div d \in (m \div d) .. (n \div d)
        /\ m \div d \in Nat /\ n \div d \in Nat
    BY <2>2, WidthInPixels
  <2> QED
    BY <2>1, <2>3
<1>5. /\ x = (t.x + first) % VRAM_WIDTH
      /\ \A n \in Int : Column(t, n) = t.x + (n \div D)
  BY DEF Column
<1>6. AreaBoxes(t, a) =
        IF x + width > VRAM_WIDTH
        THEN {Box(x, y, VRAM_WIDTH, y + height),
              Box(0, y, width - (VRAM_WIDTH - x), y + height)}
        ELSE {Box(x, y, x + width, y + height)}
  BY DEF AreaBoxes
<1>7. y = t.y + a.v1
  <2>1. t.y + a.v1 \in Nat /\ t.y + a.v1 < VRAM_HEIGHT
    BY <1>1
  <2> QED
    BY <1>1, <2>1, ModBelow
<1>8. first <= last /\ width \in 1 .. VRAM_WIDTH
  <2>1. a.u1 \in a.u1 .. a.u2
    BY <1>1
  <2> QED
    BY <1>1, <1>3, <1>4, <2>1
<1>9. x \in 0 .. VRAM_WIDTH - 1
  <2>1. t.x + first \in Nat
    BY <1>1, <1>4
  <2> QED
    BY <1>1, <1>5, <2>1, Remainder
<1>10. PICK p, c, r : /\ p = PixelOfTexel(t, <<u, v>>)
                      /\ c = Column(t, u) % VRAM_WIDTH /\ r = t.y + v
  OBVIOUS
<1>11. p = <<c, (t.y + v) % VRAM_HEIGHT>>
  BY <1>10 DEF PixelOfTexel
<1>12. /\ p = <<c, r>> /\ r \in 0 .. VRAM_HEIGHT - 1 /\ y <= r /\ r < y + height
  <2>1. t.y + v \in Nat /\ t.y + v < VRAM_HEIGHT
    BY <1>1, <1>10
  <2>2. (t.y + v) % VRAM_HEIGHT = t.y + v
    BY <1>1, <2>1, ModBelow
  <2>3. y <= t.y + v /\ t.y + v < y + height
    BY <1>1, <1>7, <1>10
  <2> HIDE DEF y, height
  <2> QED
    BY <1>1, <1>10, <1>11, <2>1, <2>2, <2>3
<1>13. PICK k : k = (u \div D) - first
  OBVIOUS
<1>14. k \in 0 .. width - 1 /\ Column(t, u) = (t.x + first) + k
  <2>1. PICK q : q = u \div D
    OBVIOUS
  <2>2. q \in first .. last
    BY <1>4, <2>1
  <2>3. u \in Int
    BY <1>1
  <2>4. Column(t, u) = t.x + q
    BY <1>5, <2>1, <2>3
  <2>5. k = q - first
    BY <1>13, <2>1
  <2> HIDE DEF x, y, width, height, first, last, D
  <2>6. width = (last - first) + 1 /\ first \in Nat /\ last \in Nat /\ t.x \in Nat
    BY <1>1, <1>4
  <2> QED
    BY <2>2, <2>4, <2>5, <2>6
<1> HIDE DEF x, y, width, height, first, last, D
<1>15. /\ c \in 0 .. VRAM_WIDTH - 1
       /\ \/ x <= c /\ c < x + width
          \/ x + width > VRAM_WIDTH /\ 0 <= c /\ c < width - (VRAM_WIDTH - x)
  <2>1. PICK column : column = x + k
    OBVIOUS
  <2>2. column \in Nat /\ column < VRAM_WIDTH + VRAM_WIDTH
    BY <1>1, <1>8, <1>9, <1>14, <2>1
  <2>3. column % VRAM_WIDTH = c
    <3>1. t.x + first \in Nat /\ t.x + first < VRAM_WIDTH + VRAM_WIDTH
      BY <1>1, <1>3, <1>4, <1>8
    <3>2. CASE t.x + first < VRAM_WIDTH
      <4>1. x = t.x + first
        BY <1>1, <1>5, <3>1, <3>2, ModBelow
      <4> QED
        BY <1>10, <1>14, <2>1, <4>1
    <3>3. CASE t.x + first >= VRAM_WIDTH
      <4>1. x = (t.x + first) - VRAM_WIDTH
        BY <1>1, <1>5, <3>1, <3>3, ModPast
      <4>2. Column(t, u) = column + VRAM_WIDTH
        BY <1>1, <1>4, <1>14, <2>1, <2>2, <4>1
      <4>3. CASE column < VRAM_WIDTH
        <5>1. column % VRAM_WIDTH = column
          BY <1>1, <2>2, <4>3, ModBelow
        <5>2. PICK n : n = column + VRAM_WIDTH
          OBVIOUS
        <5>3. n \in Nat /\ VRAM_WIDTH <= n /\ n < VRAM_WIDTH + VRAM_WIDTH
              /\ n - VRAM_WIDTH = column
          BY <1>1, <2>2, <4>3, <5>2
        <5>4. n % VRAM_WIDTH = column
          BY <1>1, <5>3, ModPast
        <5> QED
          BY <1>10, <4>2, <5>1, <5>2, <5>4
      <4>4. column < VRAM_WIDTH
        BY <1>1, <1>3, <1>4, <1>8, <1>14, <2>1, <3>1, <4>1
      <4> QED
        BY <4>3, <4>4
    <3> QED
      BY <1>1, <3>1, <3>2, <3>3
  <2>4. \/ x <= c /\ c < x + width /\ c < VRAM_WIDTH
        \/ x + width > VRAM_WIDTH /\ 0 <= c /\ c < width - (VRAM_WIDTH - x)
    BY <1>1, <1>8, <1>9, <1>14, <2>1, <2>2, <2>3, AroundTheSide
  <2>5. c \in 0 .. VRAM_WIDTH - 1
    BY <1>1, <2>2, <2>3, Remainder
  <2> QED
    BY <2>4, <2>5
<1>16. p \in Pixels /\ p[1] = c /\ p[2] = r
  BY <1>12, <1>15 DEF Pixels
<1>17. y \in Nat
  BY <1>1, <1>7
<1>18. CASE x + width > VRAM_WIDTH
  <2>1. CASE x <= c /\ c < x + width
    <3>0. c < VRAM_WIDTH
      BY <1>1, <1>15
    <3>1. p \in PixelsOf(Box(x, y, VRAM_WIDTH, y + height))
      BY <3>0, <1>12, <1>15, <1>16, <2>1 DEF PixelsOf, Box
    <3>2. PICK b : b = Box(x, y, VRAM_WIDTH, y + height)
      OBVIOUS
    <3>3. b \in AreaBoxes(t, a) /\ b.x1 \in Nat /\ b.x2 \in Nat
      BY <1>1, <1>6, <1>9, <1>18, <3>2 DEF Box
    <3> QED
      BY <1>10, <3>1, <3>2, <3>3
  <2>2. CASE 0 <= c /\ c < width - (VRAM_WIDTH - x)
    <3>1. p \in PixelsOf(Box(0, y, width - (VRAM_WIDTH - x), y + height))
      BY <1>12, <1>15, <1>16, <2>2 DEF PixelsOf, Box
    <3>2. width - (VRAM_WIDTH - x) \in Nat
      BY <1>1, <1>8, <1>9, <1>18
    <3>3. PICK b : b = Box(0, y, width - (VRAM_WIDTH - x), y + height)
      OBVIOUS
    <3>4. b \in AreaBoxes(t, a) /\ b.x1 \in Nat /\ b.x2 \in Nat
      BY <1>6, <1>18, <3>2, <3>3 DEF Box
    <3> QED
      BY <1>10, <3>1, <3>3, <3>4
  <2> QED
    BY <1>15, <2>1, <2>2
<1>19. CASE ~(x + width > VRAM_WIDTH)
  <2>1. p \in PixelsOf(Box(x, y, x + width, y + height))
    BY <1>12, <1>15, <1>16, <1>19 DEF PixelsOf, Box
  <2>2. x + width \in Nat
    BY <1>8, <1>9
  <2>3. PICK b : b = Box(x, y, x + width, y + height)
    OBVIOUS
  <2>4. b \in AreaBoxes(t, a) /\ b.x1 \in Nat /\ b.x2 \in Nat
    BY <1>6, <1>9, <1>19, <2>2, <2>3 DEF Box
  <2> QED
    BY <1>10, <2>1, <2>3, <2>4
<1> QED
  BY <1>18, <1>19

\* A coordinate counted around the side of a page is in one of its spans.
LEMMA SpanCovers ==
    ASSUME NEW size \in Nat \ {0}, NEW first \in 0 .. size - 1, NEW length \in Nat \ {0},
           NEW i \in 0 .. length - 1
    PROVE  \E s \in Spans(first, length, size) :
              /\ s[1] \in Nat /\ s[2] \in Nat /\ s[2] < size
              /\ s[1] <= (first + i) % size /\ (first + i) % size <= s[2]
<1>1. PICK m : m = (first + i) % size
  OBVIOUS
<1>2. first + i \in Nat /\ m \in Nat /\ m < size
  <2>1. first + i \in Nat
    OBVIOUS
  <2>2. m \in 0 .. size - 1
    BY <1>1, <2>1, Remainder
  <2> QED
    BY <2>1, <2>2
<1>3. first + i < size => m = first + i
  BY <1>1, <1>2, ModBelow
<1>4. CASE first + length <= size
  <2>1. PICK s : s = <<first, first + length - 1>>
    OBVIOUS
  <2>2. s \in Spans(first, length, size)
    BY <1>4, <2>1 DEF Spans
  <2>3. m = first + i
    BY <1>3, <1>4
  <2> QED
    BY <1>1, <1>4, <2>1, <2>2, <2>3
<1>5. CASE ~(first + length <= size)
  <2>1. PICK beyond \in Nat : beyond = (first + length) - size
    BY <1>5
  <2>2. Spans(first, length, size) =
          {<<first, size - 1>>, <<0, IF beyond < size THEN beyond - 1 ELSE size - 1>>}
    BY <1>5, <2>1 DEF Spans
  <2>3. CASE first <= m
    <3>1. PICK s : s = <<first, size - 1>>
      OBVIOUS
    <3> QED
      BY <1>1, <1>2, <2>2, <2>3, <3>1
  <2>4. CASE m < first
    <3>1. PICK last : last = IF beyond < size THEN beyond - 1 ELSE size - 1
      OBVIOUS
    <3>2. m <= last /\ last \in Nat /\ last < size
      <4>1. CASE beyond < size
        <5>1. size <= first + i /\ first + i < size + size
          BY <1>2, <1>3, <2>1, <2>4, <4>1
        <5>2. m = (first + i) - size
          BY <1>1, <1>2, <5>1, ModPast
        <5> QED
          BY <2>1, <3>1, <4>1, <5>1, <5>2
      <4>2. CASE ~(beyond < size)
        BY <1>2, <3>1, <4>2
      <4> QED
        BY <4>1, <4>2
    <3>3. PICK s : s = <<0, last>>
      OBVIOUS
    <3>4. s \in Spans(first, length, size)
      BY <2>2, <3>1, <3>3
    <3> QED
      BY <1>1, <1>2, <3>2, <3>3, <3>4
  <2> QED
    BY <1>2, <2>3, <2>4
<1> QED
  BY <1>4, <1>5

\* The spans of whole pixels begin and end with one.
LEMMA SpanOnPixels ==
    ASSUME NEW d \in {1, 2, 4}, NEW size \in Nat \ {0}, size % 4 = 0,
           NEW first \in Nat, NEW length \in Nat, first % d = 0, length % d = 0,
           NEW s \in Spans(first, length, size)
    PROVE  s[1] % d = 0 /\ (s[2] + 1) % d = 0
<1>1. size % d = 0 /\ (first + length) % d = 0 /\ ((first + length) - size) % d = 0 /\ 0 % d = 0
  <2>1. CASE d = 1
    BY <2>1, Z3
  <2>2. CASE d = 2
    BY <2>2, Z3
  <2>3. CASE d = 4
    BY <2>3, Z3
  <2> QED
    BY <2>1, <2>2, <2>3
<1>2. CASE first + length <= size
  <2>1. s[1] = first /\ s[2] = (first + length) - 1
    BY <1>2 DEF Spans
  <2>2. s[2] + 1 = first + length
    BY <2>1
  <2> QED
    BY <1>1, <2>1, <2>2
<1>3. CASE ~(first + length <= size)
  <2>1. PICK beyond \in Nat : beyond = (first + length) - size
    BY <1>3
  <2>2. Spans(first, length, size) =
          {<<first, size - 1>>, <<0, IF beyond < size THEN beyond - 1 ELSE size - 1>>}
    BY <1>3, <2>1 DEF Spans
  <2>3. CASE s = <<first, size - 1>>
    <3>1. s[1] = first /\ s[2] + 1 = size
      BY <2>3
    <3> QED
      BY <1>1, <3>1
  <2>4. CASE s = <<0, IF beyond < size THEN beyond - 1 ELSE size - 1>>
    <3>1. s[1] = 0 /\ s[2] + 1 \in {beyond, size}
      BY <2>4
    <3> QED
      BY <1>1, <2>1, <3>1
  <2> QED
    BY <2>2, <2>3, <2>4
<1> QED
  BY <1>2, <1>3

\* What a primitive's coordinates are begins and ends with a pixel.
AlignedTexture(t) ==
    LET d == TexelsInPixel(t.depth)
    IN  IF t.kind = "triangle" THEN t.u1 % d = 0 /\ (t.u2 + 1) % d = 0
                               ELSE t.u % d = 0 /\ t.w % d = 0

LEMMA CoordinateInArea ==
    ASSUME NEW t \in Textures, t # NoTexture, AlignedTexture(t), NEW c \in Coordinates(t)
    PROVE  \E a \in Areas(t) : \E u \in a.u1 .. a.u2, v \in a.v1 .. a.v2 :
              IsArea(t, a) /\ OnPixels(t, a) /\ c = <<u, v>>
<1>1. CASE t.kind = "triangle"
  <2>1. SampledByTriangle(t)
    BY <1>1, TextureTyped
  <2>2. PICK a : a = [u1 |-> t.u1, v1 |-> t.v1, u2 |-> t.u2, v2 |-> t.v2]
    OBVIOUS
  <2>3. a \in Areas(t) /\ a.u1 = t.u1 /\ a.u2 = t.u2 /\ a.v1 = t.v1 /\ a.v2 = t.v2
    BY <1>1, <2>2 DEF Areas
  <2>4. OnPixels(t, a)
    BY <1>1, <2>3 DEF AlignedTexture, OnPixels
  <2>5. IsArea(t, a)
    BY <2>1, <2>3, PagesHold DEF IsArea, SampledByTriangle
  <2>6. PICK u \in t.u1 .. t.u2, v \in t.v1 .. t.v2 : c = <<u, v>>
    BY <1>1 DEF Coordinates
  <2> QED
    BY <2>3, <2>4, <2>5, <2>6
<1>2. CASE t.kind = "rectangle"
  <2>1. SampledByRectangle(t) /\ t.kind # "triangle"
    BY <1>2, TextureTyped
  <2>2. /\ t.u \in 0 .. PageWidth - 1 /\ t.v \in 0 .. PageHeight - 1
        /\ t.w \in Nat \ {0} /\ t.h \in Nat \ {0} /\ t.u \in Nat
    BY <2>1, PagesHold DEF SampledByRectangle
  <2>3. PICK i \in 0 .. t.w - 1, j \in 0 .. t.h - 1 :
            c = <<(t.u + i) % PageWidth, (t.v + j) % PageHeight>>
    BY <2>1 DEF Coordinates
  <2>4. PICK s \in Spans(t.u, t.w, PageWidth) :
            /\ s[1] \in Nat /\ s[2] \in Nat /\ s[2] < PageWidth
            /\ s[1] <= (t.u + i) % PageWidth /\ (t.u + i) % PageWidth <= s[2]
    BY <2>2, PagesHold, SpanCovers
  <2>5. PICK r \in Spans(t.v, t.h, PageHeight) :
            /\ r[1] \in Nat /\ r[2] \in Nat /\ r[2] < PageHeight
            /\ r[1] <= (t.v + j) % PageHeight /\ (t.v + j) % PageHeight <= r[2]
    BY <2>2, PagesHold, SpanCovers
  <2>6. PICK u, v : u = (t.u + i) % PageWidth /\ v = (t.v + j) % PageHeight
    OBVIOUS
  <2>7. u \in Nat /\ v \in Nat
    <3>1. t.u + i \in Nat /\ t.v + j \in Nat
      BY <2>2
    <3>2. u \in 0 .. PageWidth - 1 /\ v \in 0 .. PageHeight - 1
      BY <2>6, <3>1, PagesHold, Remainder
    <3> QED
      BY <3>2, PagesHold
  <2>8. PICK a : a = [u1 |-> s[1], v1 |-> r[1], u2 |-> s[2], v2 |-> r[2]]
    OBVIOUS
  <2>9. a \in Areas(t) /\ a.u1 = s[1] /\ a.u2 = s[2] /\ a.v1 = r[1] /\ a.v2 = r[2]
    BY <2>1, <2>8 DEF Areas
  <2>10. u \in a.u1 .. a.u2 /\ v \in a.v1 .. a.v2 /\ c = <<u, v>>
    BY <2>3, <2>4, <2>5, <2>6, <2>7, <2>9
  <2>11. IsArea(t, a)
    <3>1. s[1] <= s[2] /\ r[1] <= r[2]
      BY <2>4, <2>5, <2>6, <2>7
    <3> QED
      BY <2>4, <2>5, <2>9, <3>1 DEF IsArea
  <2>12. OnPixels(t, a)
    <3>1. TexelsInPixel(t.depth) \in {1, 2, 4}
      BY TextureTyped DEF TexelsInPixel
    <3>2. t.u % TexelsInPixel(t.depth) = 0 /\ t.w % TexelsInPixel(t.depth) = 0
      BY <2>1 DEF AlignedTexture
    <3>3. PICK d : d = TexelsInPixel(t.depth)
      OBVIOUS
    <3>4. s[1] % d = 0 /\ (s[2] + 1) % d = 0
      BY <2>2, <3>1, <3>2, <3>3, PagesHold, SpanOnPixels
    <3> QED
      BY <2>9, <3>3, <3>4 DEF OnPixels
  <2> QED
    BY <2>9, <2>10, <2>11, <2>12
<1> QED
  BY <1>1, <1>2, TextureTyped

\* The tiles the tracker is asked for contain every pixel of a texture it can see.
LEMMA SampledSeen ==
    ASSUME NEW t \in Textures, t # NoTexture, Foreseen(t)
    PROVE  Sampled(t) \subseteq TilePixels(Looked(t))
<1>1. AlignedTexture(t) /\ \A c \in Coordinates(t) : Texel(t, c) \in Coordinates(t)
  BY DEF Foreseen, AlignedTexture
<1> SUFFICES ASSUME NEW p \in Sampled(t) PROVE p \in TilePixels(Looked(t))
  OBVIOUS
<1>2. PICK c \in Coordinates(t) : p = PixelOfTexel(t, c)
  BY <1>1 DEF Sampled
<1>3. PICK a \in Areas(t) : \E u \in a.u1 .. a.u2, v \in a.v1 .. a.v2 :
          IsArea(t, a) /\ OnPixels(t, a) /\ c = <<u, v>>
  BY <1>1, CoordinateInArea
<1>4. PICK u \in a.u1 .. a.u2, v \in a.v1 .. a.v2 :
          IsArea(t, a) /\ OnPixels(t, a) /\ c = <<u, v>>
  BY <1>3
<1>5. PICK b \in AreaBoxes(t, a) :
          b.x1 \in Nat /\ b.x2 \in Nat /\ PixelOfTexel(t, <<u, v>>) \in PixelsOf(b)
  BY <1>4, AreaChecked
<1>6. TilesOf(b) \subseteq Looked(t)
  BY <1>5 DEF Looked
<1> QED
  BY <1>2, <1>4, <1>5, <1>6, MarksCover

\* The pixels of a rectangle, around both sides.
LEMMA PixelOfWrapped ==
    ASSUME NEW r, r.x \in 0 .. VRAM_WIDTH - 1, r.y \in 0 .. VRAM_HEIGHT - 1,
           r.w \in 1 .. VRAM_WIDTH, r.h \in 1 .. VRAM_HEIGHT, NEW p \in Wrapped(r)
    PROVE  /\ p \in Pixels /\ p[1] \in Nat /\ p[1] < VRAM_WIDTH /\ p[2] \in Nat /\ p[2] < VRAM_HEIGHT
           /\ \/ r.x <= p[1] /\ p[1] < r.x + r.w
              \/ r.x + r.w > VRAM_WIDTH /\ p[1] < r.w - (VRAM_WIDTH - r.x)
           /\ \/ r.y <= p[2] /\ p[2] < r.y + r.h
              \/ r.y + r.h > VRAM_HEIGHT /\ p[2] < r.h - (VRAM_HEIGHT - r.y)
<1>1. PICK i \in 0 .. r.w - 1, j \in 0 .. r.h - 1 :
          p = <<(r.x + i) % VRAM_WIDTH, (r.y + j) % VRAM_HEIGHT>>
  BY DEF Wrapped
<1>2. PICK c, d : c = r.x + i /\ d = r.y + j
  OBVIOUS
<1>3. /\ VRAM_WIDTH \in Nat \ {0} /\ VRAM_HEIGHT \in Nat \ {0}
      /\ r.x \in Nat /\ r.y \in Nat /\ r.w \in Nat /\ r.h \in Nat /\ c \in Nat /\ d \in Nat
  BY <1>1, <1>2, SidesHold DEF Sides
<1>4. \/ r.x <= c % VRAM_WIDTH /\ c % VRAM_WIDTH < r.x + r.w /\ c % VRAM_WIDTH < VRAM_WIDTH
      \/ r.x + r.w > VRAM_WIDTH /\ 0 <= c % VRAM_WIDTH
         /\ c % VRAM_WIDTH < r.w - (VRAM_WIDTH - r.x)
  BY <1>1, <1>2, <1>3, AroundTheSide
<1>5. \/ r.y <= d % VRAM_HEIGHT /\ d % VRAM_HEIGHT < r.y + r.h /\ d % VRAM_HEIGHT < VRAM_HEIGHT
      \/ r.y + r.h > VRAM_HEIGHT /\ 0 <= d % VRAM_HEIGHT
         /\ d % VRAM_HEIGHT < r.h - (VRAM_HEIGHT - r.y)
  BY <1>1, <1>2, <1>3, AroundTheSide
<1>6. PICK m, n : m = c % VRAM_WIDTH /\ n = d % VRAM_HEIGHT
  OBVIOUS
<1>7. m \in 0 .. VRAM_WIDTH - 1 /\ n \in 0 .. VRAM_HEIGHT - 1
  BY <1>3, <1>6, Remainder
<1>8. p = <<m, n>>
  BY <1>1, <1>2, <1>6
<1>9. p \in Pixels /\ p[1] = m /\ p[2] = n
  BY <1>7, <1>8 DEF Pixels
<1>10. m \in Nat /\ m < VRAM_WIDTH /\ n \in Nat /\ n < VRAM_HEIGHT
  BY <1>3, <1>7
<1>11. \/ r.x <= m /\ m < r.x + r.w
       \/ r.x + r.w > VRAM_WIDTH /\ m < r.w - (VRAM_WIDTH - r.x)
  BY <1>3, <1>4, <1>6, <1>10
<1>12. \/ r.y <= n /\ n < r.y + r.h
       \/ r.y + r.h > VRAM_HEIGHT /\ n < r.h - (VRAM_HEIGHT - r.y)
  BY <1>3, <1>5, <1>6, <1>10
<1> QED
  BY <1>9, <1>10, <1>11, <1>12

LEMMA ClutSeen ==
    ASSUME NEW t \in Textures, t # NoTexture
    PROVE  ClutPixels(t) \subseteq TilePixels(Looked(t))
<1>0. CASE t.depth = 15
  BY <1>0 DEF ClutPixels
<1> SUFFICES ASSUME t.depth # 15 PROVE ClutPixels(t) \subseteq TilePixels(Looked(t))
  BY <1>0
<1> DEFINE c == t.clut
           r == [x |-> c.x1, y |-> c.y1, w |-> c.x2 - c.x1, h |-> 1]
<1>1. /\ c.x1 \in 0 .. VRAM_WIDTH - 1 /\ c.y1 \in 0 .. VRAM_HEIGHT - 1
      /\ c.x2 \in c.x1 .. c.x1 + VRAM_WIDTH /\ c.y2 = c.y1 + 1
      /\ VRAM_WIDTH \in Nat \ {0} /\ VRAM_HEIGHT \in Nat \ {0}
  BY TextureTyped, SidesHold DEF Sides
<1>2. ClutBoxes(t) =
        IF c.x2 > VRAM_WIDTH
        THEN {Box(c.x1, c.y1, VRAM_WIDTH, c.y2), Box(0, c.y1, c.x2 - VRAM_WIDTH, c.y2)}
        ELSE {c}
  BY DEF ClutBoxes
<1>3. r.x = c.x1 /\ r.y = c.y1 /\ r.w = c.x2 - c.x1 /\ r.h = 1
  OBVIOUS
<1>4. ClutPixels(t) = Wrapped(r)
  BY DEF ClutPixels
<1>4a. ASSUME NEW b \in ClutBoxes(t) PROVE TilesOf(b) \subseteq Looked(t)
  BY <1>4a DEF Looked
<1> SUFFICES ASSUME NEW p \in Wrapped(r) PROVE p \in TilePixels(Looked(t))
  BY <1>4
<1> HIDE DEF r, c
<1>5. r.w \in 1 .. VRAM_WIDTH
  <2>1. \E i \in 0 .. r.w - 1 : TRUE
    BY DEF Wrapped
  <2> QED
    BY <1>1, <1>3, <2>1
<1>6. /\ p \in Pixels /\ p[1] \in Nat /\ p[1] < VRAM_WIDTH /\ p[2] \in Nat /\ p[2] < VRAM_HEIGHT
      /\ \/ r.x <= p[1] /\ p[1] < r.x + r.w
         \/ r.x + r.w > VRAM_WIDTH /\ p[1] < r.w - (VRAM_WIDTH - r.x)
      /\ \/ r.y <= p[2] /\ p[2] < r.y + r.h
         \/ r.y + r.h > VRAM_HEIGHT /\ p[2] < r.h - (VRAM_HEIGHT - r.y)
  <2>1. r.x \in 0 .. VRAM_WIDTH - 1 /\ r.y \in 0 .. VRAM_HEIGHT - 1 /\ r.h \in 1 .. VRAM_HEIGHT
    BY <1>1, <1>3
  <2> QED
    BY <1>5, <2>1, PixelOfWrapped
<1>7. c.y1 <= p[2] /\ p[2] < c.y2
  BY <1>1, <1>3, <1>6
<1>8. CASE c.x2 > VRAM_WIDTH
  <2>1. CASE c.x1 <= p[1]
    <3>1. p \in PixelsOf(Box(c.x1, c.y1, VRAM_WIDTH, c.y2))
      BY <1>6, <1>7, <2>1 DEF PixelsOf, Box
    <3>2. PICK b : b = Box(c.x1, c.y1, VRAM_WIDTH, c.y2)
      OBVIOUS
    <3>3. b \in ClutBoxes(t) /\ b.x1 \in Nat /\ b.x2 \in Nat
      BY <1>1, <1>2, <1>8, <3>2 DEF Box
    <3> QED
      BY <1>4a, <3>1, <3>2, <3>3, MarksCover
  <2>2. CASE ~(c.x1 <= p[1])
    <3>1. p[1] < c.x2 - VRAM_WIDTH /\ c.x2 - VRAM_WIDTH \in Nat
      BY <1>1, <1>3, <1>6, <1>8, <2>2
    <3>2. p \in PixelsOf(Box(0, c.y1, c.x2 - VRAM_WIDTH, c.y2))
      BY <1>6, <1>7, <3>1 DEF PixelsOf, Box
    <3>3. PICK b : b = Box(0, c.y1, c.x2 - VRAM_WIDTH, c.y2)
      OBVIOUS
    <3>4. b \in ClutBoxes(t) /\ b.x1 \in Nat /\ b.x2 \in Nat
      BY <1>2, <1>8, <3>1, <3>3 DEF Box
    <3> QED
      BY <1>4a, <3>2, <3>3, <3>4, MarksCover
  <2> QED
    BY <2>1, <2>2
<1>9. CASE ~(c.x2 > VRAM_WIDTH)
  <2>1. c.x1 <= p[1] /\ p[1] < c.x2 /\ c.x1 \in Nat /\ c.x2 \in Nat
    BY <1>1, <1>3, <1>6, <1>9
  <2>2. p \in PixelsOf(c)
    BY <1>6, <1>7, <2>1 DEF PixelsOf
  <2>3. c \in ClutBoxes(t)
    BY <1>2, <1>9
  <2> QED
    BY <1>4a, <2>1, <2>2, <2>3, MarksCover
<1> QED
  BY <1>8, <1>9

LEMMA KnowinglySeen ==
    ASSUME NEW t \in Textures, t # NoTexture
    PROVE  SampledKnowingly(t) \subseteq TilePixels(Looked(t))
<1>1. CASE Foreseen(t)
  BY <1>1, SampledSeen, ClutSeen DEF SampledKnowingly
<1>2. CASE ~Foreseen(t)
  BY <1>2, ClutSeen DEF SampledKnowingly
<1> QED
  BY <1>1, <1>2

\* The boxes that mark a copy cover what it does not leave out.
LEMMA CopyMarked ==
    ASSUME NEW r \in Copies
    PROVE  Wrapped(r) \ LeftOut(r) \subseteq TilePixels(UNION {TilesOf(b) : b \in CopyBoxes(r)})
<1> DEFINE W == VRAM_WIDTH
           H == VRAM_HEIGHT
           overX == BeyondRight(r)
           overY == BeyondBottom(r)
           marked == UNION {TilesOf(b) : b \in CopyBoxes(r)}
<1>1. /\ W \in Nat \ {0} /\ H \in Nat \ {0}
      /\ r.x \in 0 .. W - 1 /\ r.y \in 0 .. H - 1 /\ r.w \in 1 .. W /\ r.h \in 1 .. H
  BY RasterizerAssumed, SidesHold DEF RasterizerAssumption, Sides
<1> SUFFICES ASSUME NEW p \in Wrapped(r), p \notin LeftOut(r) PROVE p \in TilePixels(marked)
  OBVIOUS
<1>2. /\ p \in Pixels /\ p[1] \in Nat /\ p[1] < W /\ p[2] \in Nat /\ p[2] < H
      /\ (r.x <= p[1] /\ p[1] < r.x + r.w) \/ (overX /\ p[1] < r.w - (W - r.x))
      /\ (r.y <= p[2] /\ p[2] < r.y + r.h) \/ (overY /\ p[2] < r.h - (H - r.y))
  BY <1>1, PixelOfWrapped DEF BeyondRight, BeyondBottom
<1>3. ASSUME NEW b \in CopyBoxes(r), b.x1 \in Nat, b.x2 \in Nat, p \in PixelsOf(b)
      PROVE  p \in TilePixels(marked)
  <2>1. TilesOf(b) \subseteq marked
    OBVIOUS
  <2> HIDE DEF marked
  <2> QED
    BY <1>3, <2>1, MarksCover
<1> HIDE DEF marked
<1>4. /\ r.x \in Nat /\ r.x + r.w \in Nat /\ r.y \in Nat /\ r.y + r.h \in Nat /\ r.y + r.w \in Nat
      /\ overX => r.w - (W - r.x) \in Nat
      /\ overY => r.h - (H - r.y) \in Nat
      /\ r.w \in Nat /\ r.h \in Nat
  BY <1>1 DEF BeyondRight, BeyondBottom
<1>5. CASE overX /\ overY
  <2>1. CopyBoxes(r) = {Box(r.x, r.y, W, H), Box(r.x, 0, W, r.h - (H - r.y)),
                        Box(0, r.y, r.w - (W - r.x), H),
                        Box(0, 0, r.w - (W - r.x), r.h - (H - r.y))}
    BY <1>4, <1>5 DEF CopyBoxes
  <2>2. PICK b \in CopyBoxes(r) : b.x1 \in Nat /\ b.x2 \in Nat /\ p \in PixelsOf(b)
    <3>1. CASE r.x <= p[1] /\ r.y <= p[2]
      <4>1. p \in PixelsOf(Box(r.x, r.y, W, H))
        BY <1>2, <3>1 DEF PixelsOf, Box
      <4> QED
        BY <1>1, <1>4, <2>1, <4>1 DEF Box
    <3>2. CASE r.x <= p[1] /\ ~(r.y <= p[2])
      <4>1. p \in PixelsOf(Box(r.x, 0, W, r.h - (H - r.y)))
        BY <1>2, <1>4, <3>2 DEF PixelsOf, Box
      <4> QED
        BY <1>1, <1>4, <2>1, <4>1 DEF Box
    <3>3. CASE ~(r.x <= p[1]) /\ r.y <= p[2]
      <4>1. p \in PixelsOf(Box(0, r.y, r.w - (W - r.x), H))
        BY <1>2, <1>4, <3>3 DEF PixelsOf, Box
      <4> QED
        BY <1>1, <1>4, <1>5, <2>1, <4>1 DEF Box
    <3>4. CASE ~(r.x <= p[1]) /\ ~(r.y <= p[2])
      <4>1. p \in PixelsOf(Box(0, 0, r.w - (W - r.x), r.h - (H - r.y)))
        BY <1>2, <1>4, <3>4 DEF PixelsOf, Box
      <4> QED
        BY <1>1, <1>4, <1>5, <2>1, <4>1 DEF Box
    <3> QED
      BY <3>1, <3>2, <3>3, <3>4
  <2> QED
    BY <1>3, <2>2
<1>6. CASE overX /\ ~overY
  <2>1. CopyBoxes(r) = {Box(r.x, r.y, W, r.y + r.w), Box(0, r.y, r.w - (W - r.x), r.y + r.w)}
    BY <1>4, <1>6 DEF CopyBoxes
  <2>2. r.y <= p[2] /\ p[2] < r.y + r.w
    <3>1. ~(p[2] >= r.y + r.w)
      BY <1>6 DEF LeftOut
    <3> QED
      BY <1>1, <1>2, <1>4, <1>6, <3>1
  <2>3. PICK b \in CopyBoxes(r) : b.x1 \in Nat /\ b.x2 \in Nat /\ p \in PixelsOf(b)
    <3>1. CASE r.x <= p[1]
      <4>1. p \in PixelsOf(Box(r.x, r.y, W, r.y + r.w))
        BY <1>2, <2>2, <3>1 DEF PixelsOf, Box
      <4> QED
        BY <1>1, <1>4, <2>1, <4>1 DEF Box
    <3>2. CASE ~(r.x <= p[1])
      <4>1. p \in PixelsOf(Box(0, r.y, r.w - (W - r.x), r.y + r.w))
        BY <1>2, <1>4, <2>2, <3>2 DEF PixelsOf, Box
      <4> QED
        BY <1>1, <1>4, <1>6, <2>1, <4>1 DEF Box
    <3> QED
      BY <3>1, <3>2
  <2> QED
    BY <1>3, <2>3
<1>7. CASE ~overX /\ overY
  <2>1. CopyBoxes(r) = {Box(r.x, r.y, r.x + r.w, H), Box(r.x, 0, r.x + r.w, r.h - (H - r.y))}
    BY <1>4, <1>7 DEF CopyBoxes
  <2>2. r.x <= p[1] /\ p[1] < r.x + r.w
    BY <1>2, <1>7
  <2>3. PICK b \in CopyBoxes(r) : b.x1 \in Nat /\ b.x2 \in Nat /\ p \in PixelsOf(b)
    <3>1. CASE r.y <= p[2]
      <4>1. p \in PixelsOf(Box(r.x, r.y, r.x + r.w, H))
        BY <1>2, <2>2, <3>1 DEF PixelsOf, Box
      <4> QED
        BY <1>1, <1>4, <2>1, <4>1 DEF Box
    <3>2. CASE ~(r.y <= p[2])
      <4>1. p \in PixelsOf(Box(r.x, 0, r.x + r.w, r.h - (H - r.y)))
        BY <1>2, <1>4, <2>2, <3>2 DEF PixelsOf, Box
      <4> QED
        BY <1>1, <1>4, <2>1, <4>1 DEF Box
    <3> QED
      BY <3>1, <3>2
  <2> QED
    BY <1>3, <2>3
<1>8. CASE ~overX /\ ~overY
  <2>1. CopyBoxes(r) = {Box(r.x, r.y, r.x + r.w, r.y + r.h)}
    BY <1>4, <1>8 DEF CopyBoxes
  <2>2. p \in PixelsOf(Box(r.x, r.y, r.x + r.w, r.y + r.h))
    BY <1>2, <1>8 DEF PixelsOf, Box
  <2> QED
    BY <1>3, <1>4, <2>1, <2>2 DEF Box
<1> QED
  BY <1>5, <1>6, <1>7, <1>8

-----------------------------------------------------------------------------
(***************************************************************************)
(* The commands, one at a time.                                            *)
(***************************************************************************)
Memory == [native : SUBSET Pixels, copy : SUBSET Pixels, scaled : SUBSET Pixels,
           unmarked : SUBSET Pixels, stale : BOOLEAN]

\* What is wrong is in a marked tile, or was left unmarked, or is wrong in
\* scaled_vram itself.
Covered(m, a) == m.native \cup m.copy \subseteq TilePixels(a) \cup m.unmarked \cup m.scaled

\* The memories are sound: that, no texture was sampled while it was behind, and
\* scaled_vram is right if it has followed every command.
Sound(m, a, o) ==
    /\ m \in Memory
    /\ Covered(m, a)
    /\ ~m.stale
    /\ o => m.scaled = {}

\* How the steps below show it.
LEMMA SoundMemory ==
    ASSUME NEW n \in SUBSET Pixels, NEW c \in SUBSET Pixels, NEW s \in SUBSET Pixels,
           NEW u \in SUBSET Pixels, NEW a, NEW o,
           n \subseteq TilePixels(a) \cup u \cup s, c \subseteq TilePixels(a) \cup u \cup s,
           o => s = {},
           NEW m, m = [native |-> n, copy |-> c, scaled |-> s, unmarked |-> u, stale |-> FALSE]
    PROVE  Sound(m, a, o)
BY DEF Sound, Covered, Memory

LEMMA MoreTiles ==
    ASSUME NEW a, NEW b
    PROVE  TilePixels(a) \cup TilePixels(b) \subseteq TilePixels(a \cup b)
BY DEF TilePixels

LEMMA BoxTyped ==
    ASSUME NEW b \in Boxes \cup Lines
    PROVE  b.x1 \in Nat /\ b.x2 \in Nat
BY RasterizerAssumed, SidesHold DEF RasterizerAssumption, Sides

LEMMA WrappedTyped ==
    ASSUME NEW r \in Blits \cup Copies
    PROVE  Wrapped(r) \in SUBSET Pixels
<1>1. /\ r.x \in 0 .. VRAM_WIDTH - 1 /\ r.y \in 0 .. VRAM_HEIGHT - 1
      /\ r.w \in 1 .. VRAM_WIDTH /\ r.h \in 1 .. VRAM_HEIGHT
  BY RasterizerAssumed DEF RasterizerAssumption
<1>2. ASSUME NEW p \in Wrapped(r) PROVE p \in Pixels
  BY <1>1, PixelOfWrapped
<1> QED
  BY <1>2

\* A primitive marks what it draws.
LEMMA DrawSound ==
    ASSUME NEW m, NEW a, NEW o, Sound(m, a, o), NEW c, c.box \in Boxes,
           c.suppressed \/ ~StaleRead(m, c.texture)
    PROVE  Sound(ExecuteDraw(m, c), a \cup TilesOf(c.box), o)
<1>1. PICK ps, b : ps = PixelsOf(c.box) /\ b = TilesOf(c.box)
  OBVIOUS
<1>2. m \in Memory /\ Covered(m, a) /\ ~m.stale /\ (o => m.scaled = {})
  BY DEF Sound
<1>3. ps \in SUBSET Pixels /\ ps \subseteq TilePixels(b)
  <2>1. c.box.x1 \in Nat /\ c.box.x2 \in Nat
    BY BoxTyped
  <2>2. PixelsOf(c.box) \subseteq Pixels
    BY DEF PixelsOf
  <2> QED
    BY <1>1, <2>1, <2>2, MarksCover
<1>4. PICK late \in BOOLEAN : late <=> (m.stale \/ (~c.suppressed /\ StaleRead(m, c.texture)))
  OBVIOUS
<1>5. late = FALSE
  BY <1>2, <1>4
<1>6. (m.stale \/ (~c.suppressed /\ StaleRead(m, c.texture))) = FALSE
  BY <1>2
<1>7. ExecuteDraw(m, c) = [m EXCEPT !.native = @ \cup ps, !.copy = @ \cup ps,
                                    !.unmarked = @ \ ps, !.stale = FALSE]
  BY <1>1, <1>6, Zenon DEF ExecuteDraw
<1>8. ExecuteDraw(m, c) = [native |-> m.native \cup ps, copy |-> m.copy \cup ps,
                           scaled |-> m.scaled, unmarked |-> m.unmarked \ ps, stale |-> FALSE]
  BY <1>2, <1>7 DEF Memory
<1>9. TilePixels(a) \cup TilePixels(b) \subseteq TilePixels(a \cup b)
  BY MoreTiles
<1>10. /\ m.native \subseteq TilePixels(a) \cup m.unmarked \cup m.scaled
       /\ m.copy \subseteq TilePixels(a) \cup m.unmarked \cup m.scaled
       /\ m.native \in SUBSET Pixels /\ m.copy \in SUBSET Pixels
       /\ m.scaled \in SUBSET Pixels /\ m.unmarked \in SUBSET Pixels
  BY <1>2 DEF Covered, Memory
<1>11. /\ m.native \cup ps \subseteq TilePixels(a \cup b) \cup (m.unmarked \ ps) \cup m.scaled
       /\ m.copy \cup ps \subseteq TilePixels(a \cup b) \cup (m.unmarked \ ps) \cup m.scaled
       /\ m.native \cup ps \in SUBSET Pixels /\ m.copy \cup ps \in SUBSET Pixels
       /\ m.unmarked \ ps \in SUBSET Pixels
  BY <1>3, <1>9, <1>10
<1> QED
  BY <1>1, <1>2, <1>8, <1>10, <1>11, SoundMemory

LEMMA LineSound ==
    ASSUME NEW m, NEW a, NEW o, Sound(m, a, o), NEW c
    PROVE  Sound(ExecuteDrawLine(m, c), a, o)
<1>1. PICK ps : ps = PixelsOf(c.box)
  OBVIOUS
<1>2. m \in Memory /\ Covered(m, a) /\ ~m.stale /\ (o => m.scaled = {})
  BY DEF Sound
<1>3. ps \in SUBSET Pixels
  BY <1>1 DEF PixelsOf
<1>4. m.stale = FALSE
  BY <1>2 DEF Memory
<1>5a. ExecuteDrawLine(m, c) =
         [m EXCEPT !.native = @ \cup ps, !.copy = @ \cup ps, !.unmarked = @ \cup ps]
  BY <1>1 DEF ExecuteDrawLine
<1>5. ExecuteDrawLine(m, c) =
        [native |-> m.native \cup ps, copy |-> m.copy \cup ps,
         scaled |-> m.scaled, unmarked |-> m.unmarked \cup ps, stale |-> FALSE]
  BY <1>2, <1>4, <1>5a DEF Memory
<1>6. /\ m.native \cup ps \subseteq TilePixels(a) \cup (m.unmarked \cup ps) \cup m.scaled
      /\ m.copy \cup ps \subseteq TilePixels(a) \cup (m.unmarked \cup ps) \cup m.scaled
      /\ m.native \cup ps \in SUBSET Pixels /\ m.copy \cup ps \in SUBSET Pixels
      /\ m.unmarked \cup ps \in SUBSET Pixels /\ m.scaled \in SUBSET Pixels
  BY <1>2, <1>3 DEF Covered, Memory
<1> QED
  BY <1>2, <1>5, <1>6, SoundMemory

\* The whole rectangle of a transfer inside video memory is drawn over.
LEMMA InsideDrawnOver ==
    ASSUME NEW r \in Blits, ~BeyondRight(r), ~BeyondBottom(r)
    PROVE  Wrapped(r) \subseteq DrawnOver(r)
<1>1. /\ r.x \in 0 .. VRAM_WIDTH - 1 /\ r.y \in 0 .. VRAM_HEIGHT - 1
      /\ r.w \in 1 .. VRAM_WIDTH /\ r.h \in 1 .. VRAM_HEIGHT
  BY RasterizerAssumed DEF RasterizerAssumption
<1> SUFFICES ASSUME NEW p \in Wrapped(r) PROVE p \in DrawnOver(r)
  OBVIOUS
<1>2. /\ p \in Pixels
      /\ r.x <= p[1] /\ p[1] < r.x + r.w /\ r.y <= p[2] /\ p[2] < r.y + r.h
  BY <1>1, PixelOfWrapped DEF BeyondRight, BeyondBottom
<1> QED
  BY <1>2 DEF DrawnOver, PixelsOf, Box

\* What is drawn over is part of the rectangle.
LEMMA WithinWrapped ==
    ASSUME NEW r \in Blits
    PROVE  DrawnOver(r) \subseteq Wrapped(r)
<1>1. /\ r.x \in 0 .. VRAM_WIDTH - 1 /\ r.y \in 0 .. VRAM_HEIGHT - 1
      /\ r.w \in 1 .. VRAM_WIDTH /\ r.h \in 1 .. VRAM_HEIGHT
      /\ VRAM_WIDTH \in Nat \ {0} /\ VRAM_HEIGHT \in Nat \ {0}
  BY RasterizerAssumed, SidesHold DEF RasterizerAssumption, Sides
<1> SUFFICES ASSUME NEW p \in DrawnOver(r) PROVE p \in Wrapped(r)
  OBVIOUS
<1>2. /\ p \in Pixels
      /\ r.x <= p[1] /\ p[1] < r.x + r.w /\ r.y <= p[2] /\ p[2] < r.y + r.h
  BY DEF DrawnOver, PixelsOf, Box
<1>3. PICK x \in 0 .. VRAM_WIDTH - 1, y \in 0 .. VRAM_HEIGHT - 1 : p = <<x, y>>
  BY <1>2 DEF Pixels
<1>4. PICK i, j : i = x - r.x /\ j = y - r.y
  OBVIOUS
<1>5. i \in 0 .. r.w - 1 /\ j \in 0 .. r.h - 1 /\ r.x + i = x /\ r.y + j = y
  BY <1>1, <1>2, <1>3, <1>4
<1>6. x % VRAM_WIDTH = x /\ y % VRAM_HEIGHT = y
  <2>1. x \in Nat /\ x < VRAM_WIDTH /\ y \in Nat /\ y < VRAM_HEIGHT
    BY <1>1, <1>3
  <2> QED
    BY <1>1, <2>1, ModBelow
<1>7. p = <<(r.x + i) % VRAM_WIDTH, (r.y + j) % VRAM_HEIGHT>>
  BY <1>3, <1>5, <1>6
<1> QED
  BY <1>5, <1>7 DEF Wrapped

\* A transfer leaves wrong what it does not write or does not copy on; one that
\* ends inside video memory and checks no mask bit leaves nothing.
LEMMA BlitSound ==
    ASSUME NEW m, NEW a, NEW o, NEW q, Sound(m, a, o), NEW c, c.rect \in Blits,
           q => o /\ ~c.rect.check /\ ~BeyondRight(c.rect) /\ ~BeyondBottom(c.rect)
    PROVE  Sound(ExecuteBlit(m, c), a, q)
<1>1. PICK r, ps, over, copied :
          r = c.rect /\ ps = Wrapped(r) /\ over = DrawnOver(r) /\ copied = Copied(r)
  OBVIOUS
<1>2. m \in Memory /\ Covered(m, a) /\ ~m.stale /\ (o => m.scaled = {})
  BY DEF Sound
<1>3. ps \in SUBSET Pixels /\ over \in SUBSET Pixels /\ copied \in SUBSET Pixels
  BY <1>1, WrappedTyped DEF DrawnOver, PixelsOf, Copied
<1>4. PICK native, scaled, copy, left :
          /\ native = IF r.check THEN m.native ELSE m.native \ ps
          /\ scaled = (m.scaled \ over) \cup (over \cap native) \cup (ps \ over)
          /\ copy = (m.copy \ copied) \cup (copied \cap scaled) \cup (ps \ copied)
          /\ left = (m.unmarked \ ps) \cup (ps \ copied)
  OBVIOUS
<1>5. m.stale = FALSE
  BY <1>2 DEF Memory
<1>6. ExecuteBlit(m, c) =
        [m EXCEPT !.native = native, !.scaled = scaled, !.copy = copy, !.unmarked = left]
  BY <1>1, <1>2, <1>4, Zenon DEF ExecuteBlit
<1>7. ExecuteBlit(m, c) = [native |-> native, copy |-> copy, scaled |-> scaled,
                           unmarked |-> left, stale |-> FALSE]
  BY <1>2, <1>5, <1>6 DEF Memory
<1>8. /\ m.native \subseteq TilePixels(a) \cup m.unmarked \cup m.scaled
      /\ m.copy \subseteq TilePixels(a) \cup m.unmarked \cup m.scaled
      /\ m.native \in SUBSET Pixels /\ m.copy \in SUBSET Pixels
      /\ m.scaled \in SUBSET Pixels /\ m.unmarked \in SUBSET Pixels
  BY <1>2 DEF Covered, Memory
<1>9. native \subseteq m.native
  BY <1>4
<1>10. /\ native \in SUBSET Pixels /\ scaled \in SUBSET Pixels /\ copy \in SUBSET Pixels
       /\ left \in SUBSET Pixels
  BY <1>3, <1>4, <1>8, <1>9
<1>12. native \subseteq TilePixels(a) \cup left \cup scaled
  <2> SUFFICES ASSUME NEW p \in native PROVE p \in TilePixels(a) \cup left \cup scaled
    OBVIOUS
  <2>1. CASE p \in ps \/ p \in over
    BY <1>4, <2>1
  <2>2. CASE p \notin ps /\ p \notin over
    BY <1>4, <1>8, <1>9, <2>2
  <2> QED
    BY <2>1, <2>2
<1>13. over \subseteq ps
  BY <1>1, WithinWrapped
<1>14. copy \subseteq TilePixels(a) \cup left \cup scaled
  <2> SUFFICES ASSUME NEW p \in copy PROVE p \in TilePixels(a) \cup left \cup scaled
    OBVIOUS
  <2>1. CASE p \in ps
    BY <1>4, <2>1
  <2>2. CASE p \notin ps
    BY <1>4, <1>8, <1>13, <2>2
  <2> QED
    BY <2>1, <2>2
<1>15. q => scaled = {}
  <2> SUFFICES ASSUME q PROVE scaled = {}
    OBVIOUS
  <2>1. m.scaled = {} /\ ~r.check /\ ps \subseteq over
    BY <1>1, <1>2, InsideDrawnOver
  <2> QED
    BY <1>4, <1>13, <2>1
<1> QED
  BY <1>7, <1>10, <1>12, <1>14, <1>15, SoundMemory

\* A copy marks what it writes but the rows it leaves out, and is right where
\* what it reads is.
LEMMA CopySound ==
    ASSUME NEW m, NEW a, NEW o, NEW q, Sound(m, a, o), NEW c, c.rect \in Copies,
           q => o /\ Racing(c.rect) = {}
    PROVE  Sound(ExecuteCopy(m, c), a \cup UNION {TilesOf(b) : b \in CopyBoxes(c.rect)}, q)
<1>1. PICK r, ps, out, b, wrong :
          /\ r = c.rect /\ ps = Wrapped(r) /\ out = LeftOut(r)
          /\ b = UNION {TilesOf(x) : x \in CopyBoxes(r)}
          /\ wrong = {p \in ps : Source(r, p) \in m.scaled} \cup Racing(r)
  OBVIOUS
<1>2. m \in Memory /\ Covered(m, a) /\ ~m.stale /\ (o => m.scaled = {})
  BY DEF Sound
<1>3. ps \in SUBSET Pixels /\ out \subseteq ps /\ wrong \subseteq ps
  BY <1>1, WrappedTyped DEF LeftOut, Racing
<1>4. PICK scaled, left :
          /\ scaled = (IF r.check THEN m.scaled ELSE m.scaled \ ps) \cup wrong
          /\ left = (m.unmarked \ ps) \cup out
  OBVIOUS
<1>5. m.stale = FALSE
  BY <1>2 DEF Memory
<1>6. ExecuteCopy(m, c) = [m EXCEPT !.native = @ \cup ps, !.copy = @ \cup ps,
                                    !.scaled = (IF r.check THEN @ ELSE @ \ ps) \cup wrong,
                                    !.unmarked = (@ \ ps) \cup out]
  BY <1>1, Zenon DEF ExecuteCopy
<1>7. ExecuteCopy(m, c) = [native |-> m.native \cup ps, copy |-> m.copy \cup ps,
                           scaled |-> scaled, unmarked |-> left, stale |-> FALSE]
  BY <1>2, <1>4, <1>5, <1>6 DEF Memory
<1>8. /\ m.native \subseteq TilePixels(a) \cup m.unmarked \cup m.scaled
      /\ m.copy \subseteq TilePixels(a) \cup m.unmarked \cup m.scaled
      /\ m.native \in SUBSET Pixels /\ m.copy \in SUBSET Pixels
      /\ m.scaled \in SUBSET Pixels /\ m.unmarked \in SUBSET Pixels
  BY <1>2 DEF Covered, Memory
<1>9. ps \ out \subseteq TilePixels(b)
  BY <1>1, CopyMarked
<1>10. TilePixels(a) \cup TilePixels(b) \subseteq TilePixels(a \cup b)
  BY MoreTiles
<1>11. ps \subseteq TilePixels(a \cup b) \cup left
  BY <1>4, <1>9, <1>10
<1>12. m.scaled \ ps \subseteq scaled
  BY <1>4
<1>13. /\ m.native \cup ps \subseteq TilePixels(a \cup b) \cup left \cup scaled
       /\ m.copy \cup ps \subseteq TilePixels(a \cup b) \cup left \cup scaled
  <2>1. m.unmarked \ ps \subseteq left
    BY <1>4
  <2>2. ASSUME NEW p \in m.native \cup m.copy \cup ps
        PROVE  p \in TilePixels(a \cup b) \cup left \cup scaled
    <3>1. CASE p \in ps
      BY <1>11, <3>1
    <3>2. CASE p \notin ps
      BY <1>8, <1>10, <1>12, <2>1, <2>2, <3>2
    <3> QED
      BY <3>1, <3>2
  <2> QED
    BY <2>2
<1>14. /\ m.native \cup ps \in SUBSET Pixels /\ m.copy \cup ps \in SUBSET Pixels
       /\ scaled \in SUBSET Pixels /\ left \in SUBSET Pixels
  BY <1>3, <1>4, <1>8
<1>15. q => scaled = {}
  <2> SUFFICES ASSUME q PROVE scaled = {}
    OBVIOUS
  <2>1. m.scaled = {} /\ Racing(r) = {}
    BY <1>1, <1>2
  <2>2. wrong = {}
    BY <1>1, <2>1
  <2> QED
    BY <1>4, <2>1, <2>2
<1>16. Sound(ExecuteCopy(m, c), a \cup b, q)
  BY <1>7, <1>13, <1>14, <1>15, SoundMemory
<1> QED
  BY <1>1, <1>16

\* After the tiles are copied nothing need be marked.
LEMMA SyncSound ==
    ASSUME NEW m, NEW a, NEW o, Sound(m, a, o)
    PROVE  Sound(ExecuteSync(m, a), {}, o)
<1>1. PICK ts, bb : ts = TilePixels(a) /\ bb = BoundingBox(a)
  OBVIOUS
<1>2. m \in Memory /\ Covered(m, a) /\ ~m.stale /\ (o => m.scaled = {})
  BY DEF Sound
<1>3. m.stale = FALSE
  BY <1>2 DEF Memory
<1>4. ts \subseteq bb /\ ts \in SUBSET Pixels /\ bb \in SUBSET Pixels
  BY <1>1, BoundingBoxCovers DEF TilePixels, BoundingBox
<1>5. ExecuteSync(m, a) =
        [m EXCEPT !.native = (@ \ ts) \cup (ts \cap m.scaled),
                  !.copy = (@ \ bb) \cup (bb \cap m.scaled), !.unmarked = @ \ ts]
  BY <1>1 DEF ExecuteSync
<1>6. PICK native, copy, left :
          /\ native = (m.native \ ts) \cup (ts \cap m.scaled)
          /\ copy = (m.copy \ bb) \cup (bb \cap m.scaled) /\ left = m.unmarked \ ts
  OBVIOUS
<1>7. ExecuteSync(m, a) = [native |-> native, copy |-> copy, scaled |-> m.scaled,
                           unmarked |-> left, stale |-> FALSE]
  BY <1>2, <1>3, <1>5, <1>6 DEF Memory
<1>8. /\ m.native \subseteq ts \cup m.unmarked \cup m.scaled
      /\ m.copy \subseteq ts \cup m.unmarked \cup m.scaled
      /\ m.native \in SUBSET Pixels /\ m.copy \in SUBSET Pixels
      /\ m.scaled \in SUBSET Pixels /\ m.unmarked \in SUBSET Pixels
  BY <1>1, <1>2 DEF Covered, Memory
<1>9. native \subseteq left \cup m.scaled /\ copy \subseteq left \cup m.scaled
      /\ native \in SUBSET Pixels /\ copy \in SUBSET Pixels /\ left \in SUBSET Pixels
  BY <1>4, <1>6, <1>8
<1> QED
  BY <1>2, <1>7, <1>8, <1>9, SoundMemory

\* A primitive whose texture shows no marked tile reads nothing that is behind.
LEMMA CheckedReads ==
    ASSUME NEW m, NEW a, Covered(m, a), NEW t \in Textures,
           t = NoTexture \/ Looked(t) \cap a = {}
    PROVE  ~StaleRead(m, t)
<1>1. CASE t = NoTexture
  BY <1>1 DEF StaleRead
<1>2. CASE t # NoTexture
  <2>1. SampledKnowingly(t) \subseteq TilePixels(Looked(t))
    BY <1>2, KnowinglySeen
  <2>2. TilePixels(Looked(t)) \cap TilePixels(a) = {}
    BY <1>2 DEF TilePixels
  <2>3. /\ m.native \subseteq TilePixels(a) \cup m.unmarked \cup m.scaled
        /\ m.copy \subseteq TilePixels(a) \cup m.unmarked \cup m.scaled
    BY DEF Covered
  <2>4. PICK read : read = IF t.depth = 15 THEN m.copy ELSE m.native
    OBVIOUS
  <2>5. (SampledKnowingly(t) \cap read) \ (m.unmarked \cup m.scaled) = {}
    <3>1. read \subseteq TilePixels(a) \cup m.unmarked \cup m.scaled
      BY <2>3, <2>4
    <3> QED
      BY <2>1, <2>2, <3>1
  <2> QED
    BY <2>4, <2>5 DEF StaleRead
<1> QED
  BY <1>1, <1>2

-----------------------------------------------------------------------------
(***************************************************************************)
(* The invariant speaks of the memories as the queue will leave them: what *)
(* is wrong then is marked, was left unmarked, or is wrong in scaled_vram. *)
(***************************************************************************)
Afterwards == Executed(Memories, draw_commands)

MemoryInv ==
    /\ RasterizerTypeOK
    /\ Sound(Afterwards, atlas, orderly)
    /\ ~staleRead
    /\ draw_commands = <<>> => atlas = {}
    /\ ~out_of_sync => hostStale = {}

LEMMA TilesTyped ==
    ASSUME NEW b
    PROVE  TilesOf(b) \subseteq Tiles
BY DEF TilesOf

LEMMA ExecuteCases ==
    ASSUME NEW m, NEW c
    PROVE  /\ c.op = "draw" => Execute(m, c) = ExecuteDraw(m, c)
           /\ c.op = "line" => Execute(m, c) = ExecuteDrawLine(m, c)
           /\ c.op = "blit" => Execute(m, c) = ExecuteBlit(m, c)
           /\ c.op = "copy" => Execute(m, c) = ExecuteCopy(m, c)
           /\ c.op = "sync" => Execute(m, c) = ExecuteSync(m, c.atlas)
BY DEF Execute

LEMMA Appended ==
    ASSUME RasterizerTypeOK, NEW c \in DrawCommand,
           draw_commands' = Append(draw_commands, c), UNCHANGED memoryVars
    PROVE  /\ draw_commands' \in Seq(DrawCommand)
           /\ draw_commands' # <<>>
           /\ Afterwards' = Execute(Afterwards, c)
<1>1. Memories' = Memories
  BY DEF Memories, memoryVars
<1>2. draw_commands \in Seq(DrawCommand)
  BY DEF RasterizerTypeOK
<1>3. Executed(Memories, Append(draw_commands, c)) = Execute(Executed(Memories, draw_commands), c)
  BY <1>2, ExecutedAppend
<1>4. Afterwards' = Executed(Memories', draw_commands')
  BY DEF Afterwards
<1> QED
  BY <1>1, <1>2, <1>3, <1>4 DEF Afterwards

\* The copy a textured primitive queues leaves nothing that need be marked.
LEMMA SyncedLeaves ==
    ASSUME MemoryInv
    PROVE  /\ Synced(draw_commands) \in Seq(DrawCommand)
           /\ Sound(Executed(Memories, Synced(draw_commands)), {}, orderly)
<1>1. draw_commands \in Seq(DrawCommand) /\ atlas \in SUBSET Tiles
  BY DEF MemoryInv, RasterizerTypeOK
<1>2. CASE atlas = {}
  BY <1>1, <1>2 DEF Synced, MemoryInv, Afterwards
<1>3. CASE atlas # {}
  <2>1. PICK c : c = [op |-> "sync", atlas |-> atlas]
    OBVIOUS
  <2>2. c \in DrawCommand
    BY <1>1, <2>1 DEF DrawCommand
  <2>3. Synced(draw_commands) = Append(draw_commands, c)
    BY <1>3, <2>1 DEF Synced
  <2>4. Executed(Memories, Append(draw_commands, c)) = Execute(Afterwards, c)
    BY <1>1, <2>2, ExecutedAppend DEF Afterwards
  <2>5. Execute(Afterwards, c) = ExecuteSync(Afterwards, atlas)
    BY <2>1, ExecuteCases
  <2>6. Sound(Afterwards, atlas, orderly)
    BY DEF MemoryInv
  <2> HIDE DEF Afterwards
  <2>7. Sound(ExecuteSync(Afterwards, atlas), {}, orderly)
    BY <2>6, SyncSound
  <2>8. Append(draw_commands, c) \in Seq(DrawCommand)
    BY <1>1, <2>2
  <2> QED
    BY <2>3, <2>4, <2>5, <2>7, <2>8
<1> QED
  BY <1>2, <1>3

LEMMA DrawPrimitiveStep ==
    ASSUME MemoryInv, NEW b \in Boxes, NEW t \in Textures, DrawPrimitive(b, t)
    PROVE  MemoryInv'
<1>1. PICK delay, found, sync, draw :
          /\ found \in BOOLEAN /\ sync \in BOOLEAN
          /\ delay = IF scaled_native_sync_delay = 0 THEN 0 ELSE scaled_native_sync_delay - 1
          /\ found <=> HazardFound(t)
          /\ sync <=> (found /\ delay = 0)
          /\ draw = [op |-> "draw", box |-> b, texture |-> t, suppressed |-> found /\ delay > 0]
          /\ scaled_native_sync_delay' = IF found THEN SCALED_NATIVE_SYNC_DELAY ELSE delay
          /\ atlas' = (IF sync THEN {} ELSE atlas) \cup TilesOf(b)
          /\ draw_commands' = Append(IF sync THEN Synced(draw_commands) ELSE draw_commands, draw)
          /\ UNCHANGED <<memoryVars, hostStale, out_of_sync, orderly, aborted>>
  <2>0. PICK delay :
          delay = IF scaled_native_sync_delay = 0 THEN 0 ELSE scaled_native_sync_delay - 1
    OBVIOUS
  <2>1. PICK found \in BOOLEAN : found <=> HazardFound(t)
    OBVIOUS
  <2>2. PICK sync \in BOOLEAN : sync <=> (found /\ delay = 0)
    OBVIOUS
  <2>3. PICK draw :
          draw = [op |-> "draw", box |-> b, texture |-> t, suppressed |-> found /\ delay > 0]
    OBVIOUS
  <2> QED
    BY <2>0, <2>1, <2>2, <2>3, Zenon DEF DrawPrimitive
<1>2. RasterizerTypeOK /\ draw_commands \in Seq(DrawCommand)
  BY DEF MemoryInv, RasterizerTypeOK
<1>3. delay \in 0 .. SCALED_NATIVE_SYNC_DELAY /\ SCALED_NATIVE_SYNC_DELAY \in Nat
  BY <1>1, <1>2, RasterizerAssumed DEF RasterizerTypeOK, RasterizerAssumption
<1>4. PICK suppressed \in BOOLEAN : suppressed <=> (found /\ delay > 0)
  OBVIOUS
<1>5. draw = [op |-> "draw", box |-> b, texture |-> t, suppressed |-> suppressed]
  <2>1. suppressed = (found /\ delay > 0)
    BY <1>4
  <2> QED
    BY <1>1, <2>1
<1>6. /\ draw \in DrawCommand /\ draw.op = "draw" /\ draw.box = b /\ draw.texture = t
      /\ draw.suppressed = suppressed
  BY <1>5 DEF DrawCommand
<1>7. PICK q, m, a : /\ q = IF sync THEN Synced(draw_commands) ELSE draw_commands
                     /\ m = Executed(Memories, q)
                     /\ a = IF sync THEN {} ELSE atlas
  OBVIOUS
<1>8. q \in Seq(DrawCommand) /\ Sound(m, a, orderly)
  <2>1. CASE sync
    BY <1>7, <2>1, SyncedLeaves
  <2>2. CASE ~sync
    BY <1>2, <1>7, <2>2 DEF MemoryInv, Afterwards
  <2> QED
    BY <2>1, <2>2
<1>9. /\ Afterwards' = ExecuteDraw(m, draw)
      /\ draw_commands' \in Seq(DrawCommand) /\ draw_commands' # <<>>
  <2>1. Memories' = Memories
    BY <1>1 DEF Memories, memoryVars
  <2>2. draw_commands' = Append(q, draw)
    BY <1>1, <1>7
  <2>3. Executed(Memories, Append(q, draw)) = Execute(Executed(Memories, q), draw)
    BY <1>6, <1>8, ExecutedAppend
  <2>4. Afterwards' = Executed(Memories', draw_commands')
    BY DEF Afterwards
  <2>5. Append(q, draw) \in Seq(DrawCommand) /\ Append(q, draw) # <<>>
    BY <1>6, <1>8
  <2>6. Execute(m, draw) = ExecuteDraw(m, draw)
    BY <1>6, ExecuteCases
  <2> QED
    BY <1>7, <2>1, <2>2, <2>3, <2>4, <2>5, <2>6
<1>10. suppressed \/ ~StaleRead(m, t)
  <2>1. CASE suppressed
    BY <2>1
  <2>2. CASE sync
    <3>1. a = {} /\ Covered(m, a)
      BY <1>7, <1>8, <2>2 DEF Sound
    <3> QED
      BY <3>1, CheckedReads
  <2>3. CASE ~found
    <3>1. a = atlas /\ Covered(m, a)
      BY <1>1, <1>7, <1>8, <2>3 DEF Sound
    <3>2. t = NoTexture \/ Looked(t) \cap atlas = {}
      BY <1>1, <2>3 DEF HazardFound
    <3> QED
      BY <3>1, <3>2, CheckedReads
  <2>4. delay = 0 \/ delay > 0
    BY <1>3
  <2> QED
    BY <1>1, <1>4, <2>1, <2>2, <2>3, <2>4, Zenon
<1>11. Sound(Afterwards', atlas', orderly')
  <2>1. Sound(ExecuteDraw(m, draw), a \cup TilesOf(draw.box), orderly)
    BY <1>6, <1>8, <1>10, DrawSound
  <2>2. atlas' = a \cup TilesOf(b) /\ orderly' = orderly
    BY <1>1, <1>7
  <2> QED
    BY <1>6, <1>9, <2>1, <2>2
<1>12. RasterizerTypeOK'
  <2>1. atlas' \subseteq Tiles
    BY <1>1, <1>2, TilesTyped DEF RasterizerTypeOK
  <2>2. scaled_native_sync_delay' \in 0 .. SCALED_NATIVE_SYNC_DELAY
    BY <1>1, <1>3
  <2>3. UNCHANGED <<memoryVars, hostStale, out_of_sync, orderly, aborted>>
    BY <1>1
  <2> QED
    BY <1>2, <1>9, <2>1, <2>2, <2>3 DEF RasterizerTypeOK, memoryVars
<1>13. (~out_of_sync' => hostStale' = {}) /\ ~staleRead'
  BY <1>1 DEF MemoryInv, memoryVars
<1> QED
  BY <1>9, <1>11, <1>12, <1>13 DEF MemoryInv

\* What a step that queues one command has to show.
LEMMA QueuedStep ==
    ASSUME MemoryInv, NEW c \in DrawCommand,
           draw_commands' = Append(draw_commands, c),
           atlas' \subseteq Tiles, orderly' \in BOOLEAN,
           UNCHANGED <<scaled_native_sync_delay, memoryVars, hostStale, out_of_sync, aborted>>,
           Sound(Execute(Afterwards, c), atlas', orderly')
    PROVE  MemoryInv'
<1>1. RasterizerTypeOK
  BY DEF MemoryInv
<1>2. /\ draw_commands' \in Seq(DrawCommand) /\ draw_commands' # <<>>
      /\ Afterwards' = Execute(Afterwards, c)
  BY <1>1, Appended
<1>3. Sound(Afterwards', atlas', orderly')
  BY <1>2
<1>4. RasterizerTypeOK'
  BY <1>1, <1>2 DEF RasterizerTypeOK, memoryVars
<1>5. (~out_of_sync' => hostStale' = {}) /\ ~staleRead'
  BY DEF MemoryInv, memoryVars
<1> QED
  BY <1>2, <1>3, <1>4, <1>5 DEF MemoryInv

\* A line is marked nowhere, and the pixels it draws are set apart.
LEMMA DrawLineStep ==
    ASSUME MemoryInv, NEW b \in Lines, DrawLine(b)
    PROVE  MemoryInv'
<1>1. PICK c : c = [op |-> "line", box |-> b]
  OBVIOUS
<1>2. c \in DrawCommand /\ c.op = "line"
  BY <1>1 DEF DrawCommand
<1>3. /\ draw_commands' = Append(draw_commands, c)
      /\ UNCHANGED <<atlas, scaled_native_sync_delay, memoryVars, hostStale, out_of_sync,
                     orderly, aborted>>
  BY <1>1 DEF DrawLine
<1>4. Sound(Afterwards, atlas, orderly) /\ atlas \subseteq Tiles /\ orderly \in BOOLEAN
  BY DEF MemoryInv, RasterizerTypeOK
<1>5. Sound(Execute(Afterwards, c), atlas, orderly)
  BY <1>2, <1>4, ExecuteCases, LineSound
<1> QED
  BY <1>2, <1>3, <1>4, <1>5, QueuedStep

LEMMA BlitStep ==
    ASSUME MemoryInv, NEW r \in Blits, Blit(r)
    PROVE  MemoryInv'
<1>1. PICK c : c = [op |-> "blit", rect |-> r]
  OBVIOUS
<1>2. c \in DrawCommand /\ c.op = "blit" /\ c.rect = r
  BY <1>1 DEF DrawCommand
<1>3. /\ draw_commands' = Append(draw_commands, c)
      /\ UNCHANGED <<atlas, scaled_native_sync_delay, memoryVars, hostStale, out_of_sync,
                     aborted>>
  BY <1>1 DEF Blit
<1>4. orderly' = (orderly /\ ~r.check /\ ~BeyondRight(r) /\ ~BeyondBottom(r))
  BY DEF Blit
<1>5. orderly' \in BOOLEAN
      /\ (orderly' => orderly /\ ~r.check /\ ~BeyondRight(r) /\ ~BeyondBottom(r))
  BY <1>4
<1>6. Sound(Afterwards, atlas, orderly) /\ atlas \subseteq Tiles
  BY DEF MemoryInv, RasterizerTypeOK
<1>7. Sound(ExecuteBlit(Afterwards, c), atlas, orderly')
  <2>1. PICK m, o, q : m = Afterwards /\ o = orderly /\ q = orderly'
    OBVIOUS
  <2>2. Sound(m, atlas, o)
        /\ (q => o /\ ~c.rect.check /\ ~BeyondRight(c.rect) /\ ~BeyondBottom(c.rect))
    BY <1>2, <1>5, <1>6, <2>1
  <2>3. Sound(ExecuteBlit(m, c), atlas, q)
    BY <1>2, <2>2, BlitSound
  <2> QED
    BY <2>1, <2>3
<1>8. Sound(Execute(Afterwards, c), atlas', orderly')
  BY <1>2, <1>3, <1>7, ExecuteCases
<1> QED
  BY <1>2, <1>3, <1>5, <1>6, <1>8, QueuedStep

LEMMA CopyStep ==
    ASSUME MemoryInv, NEW r \in Copies, VramToVramBlit(r)
    PROVE  MemoryInv'
<1>1. PICK c : c = [op |-> "copy", rect |-> r]
  OBVIOUS
<1>2. c \in DrawCommand /\ c.op = "copy" /\ c.rect = r
  BY <1>1 DEF DrawCommand
<1>3. PICK marked : marked = UNION {TilesOf(b) : b \in CopyBoxes(r)}
  OBVIOUS
<1>4. /\ draw_commands' = Append(draw_commands, c) /\ atlas' = atlas \cup marked
      /\ UNCHANGED <<scaled_native_sync_delay, memoryVars, hostStale, out_of_sync, aborted>>
  BY <1>1, <1>3 DEF VramToVramBlit
<1>5. orderly' = (orderly /\ Racing(r) = {})
  BY DEF VramToVramBlit
<1>6. orderly' \in BOOLEAN /\ (orderly' => orderly /\ Racing(r) = {})
  BY <1>5
<1>7. Sound(Afterwards, atlas, orderly) /\ atlas \subseteq Tiles
  BY DEF MemoryInv, RasterizerTypeOK
<1>8. Sound(ExecuteCopy(Afterwards, c), atlas \cup marked, orderly')
  <2>1. PICK m, o, q : m = Afterwards /\ o = orderly /\ q = orderly'
    OBVIOUS
  <2>2. Sound(m, atlas, o) /\ (q => o /\ Racing(c.rect) = {})
    BY <1>2, <1>6, <1>7, <2>1
  <2>3. Sound(ExecuteCopy(m, c), atlas \cup UNION {TilesOf(b) : b \in CopyBoxes(c.rect)}, q)
    BY <1>2, <2>2, CopySound
  <2> QED
    BY <1>2, <1>3, <2>1, <2>3
<1>9. atlas' \subseteq Tiles
  <2>1. marked \subseteq Tiles
    BY <1>3, TilesTyped
  <2> QED
    BY <1>4, <1>7, <2>1
<1>10. Sound(Execute(Afterwards, c), atlas', orderly')
  BY <1>2, <1>4, <1>8, ExecuteCases
<1> QED
  BY <1>2, <1>4, <1>6, <1>9, <1>10, QueuedStep

\* What native_vram changes in are pixels.
LEMMA TouchedTyped ==
    ASSUME RasterizerTypeOK
    PROVE  Touched \subseteq Pixels
<1>1. \A a : TilePixels(a) \subseteq Pixels
  BY DEF TilePixels
<1>2. ASSUME NEW i \in DOMAIN draw_commands PROVE TouchedBy(draw_commands[i]) \subseteq Pixels
  <2>1. PICK c \in DrawCommand : c = draw_commands[i]
    BY DEF RasterizerTypeOK
  <2>2. CASE c.op = "blit"
    <3>1. c.rect \in Blits
      BY <2>2 DEF DrawCommand
    <3> QED
      BY <2>1, <2>2, <3>1, WrappedTyped DEF TouchedBy
  <2>3. CASE c.op = "sync"
    BY <1>1, <2>1, <2>3 DEF TouchedBy
  <2>4. CASE c.op # "blit" /\ c.op # "sync"
    BY <2>1, <2>4 DEF TouchedBy
  <2> QED
    BY <2>2, <2>3, <2>4
<1>3. PICK changed : changed = UNION {TouchedBy(draw_commands[i]) : i \in DOMAIN draw_commands}
  OBVIOUS
<1>4. changed \subseteq Pixels
  BY <1>2, <1>3, Zenon
<1>5. TilePixels(atlas) \subseteq Pixels
  BY <1>1
<1>6. Touched = changed \cup TilePixels(atlas)
  BY <1>3 DEF Touched
<1> QED
  BY <1>4, <1>5, <1>6

\* A flush leaves nothing that need be marked, and marks nothing.
LEMMA FlushStep ==
    ASSUME MemoryInv, Flush
    PROVE  /\ draw_commands' = <<>> /\ atlas' = {} /\ aborted' = aborted
           /\ scaled_native_sync_delay' \in 0 .. SCALED_NATIVE_SYNC_DELAY
           /\ Sound(Afterwards', {}, orderly)
           /\ nativeStale' \subseteq Pixels /\ copyStale' \subseteq Pixels
           /\ scaledStale' \subseteq Pixels /\ unmarked' \subseteq Pixels
           /\ staleRead' = FALSE
<1>1. RasterizerTypeOK /\ Sound(Afterwards, atlas, orderly) /\ ~staleRead
  BY DEF MemoryInv
<1>2. draw_commands' = <<>> /\ aborted' = aborted
  BY DEF Flush
<1>3. Afterwards' = Memories'
  <2>1. Executed(Memories', <<>>) = Memories'
    BY ExecutedNothing
  <2> QED
    BY <1>2, <2>1 DEF Afterwards
<1>4. CASE draw_commands = <<>>
  <2>1. UNCHANGED <<atlas, scaled_native_sync_delay, memoryVars>>
    BY <1>4 DEF Flush
  <2>2. Memories' = Memories
    BY <2>1 DEF Memories, memoryVars
  <2>3. Afterwards = Memories
    BY <1>4, ExecutedNothing DEF Afterwards
  <2>4. atlas = {}
    BY <1>4 DEF MemoryInv
  <2>5. staleRead' = FALSE
    BY <1>1, <2>1 DEF RasterizerTypeOK, memoryVars
  <2> QED
    BY <1>1, <1>2, <1>3, <2>1, <2>2, <2>3, <2>4, <2>5 DEF RasterizerTypeOK, memoryVars
<1>5. CASE draw_commands # <<>>
  <2>1. PICK m : m = Flushed
    OBVIOUS
  <2>2. m = ExecuteSync(Afterwards, atlas)
    BY <2>1 DEF Flushed, Afterwards
  <2>3. /\ atlas' = {} /\ scaled_native_sync_delay' = 0
        /\ nativeStale' = m.native /\ copyStale' = m.copy /\ scaledStale' = m.scaled
        /\ unmarked' = m.unmarked /\ staleRead' = m.stale
    BY <1>5, <2>1 DEF Flush, MemoriesAre
  <2>4. Sound(m, {}, orderly)
    BY <1>1, <2>2, SyncSound
  <2>5. m \in Memory /\ m.stale = FALSE
    BY <2>4 DEF Sound, Memory
  <2>6. Memories' = m
    BY <2>3, <2>5 DEF Memories, Memory
  <2>7. 0 \in 0 .. SCALED_NATIVE_SYNC_DELAY
    BY RasterizerAssumed DEF RasterizerAssumption
  <2> QED
    BY <1>2, <1>3, <2>3, <2>4, <2>5, <2>6, <2>7 DEF Memory
<1> QED
  BY <1>4, <1>5

\* What a step that flushes has to show of ram_buffer.
LEMMA FlushedStep ==
    ASSUME MemoryInv, Flush, orderly' = orderly,
           hostStale' \subseteq Pixels, out_of_sync' \in BOOLEAN, ~out_of_sync' => hostStale' = {}
    PROVE  MemoryInv'
<1>1. /\ draw_commands' = <<>> /\ atlas' = {} /\ aborted' = aborted
      /\ scaled_native_sync_delay' \in 0 .. SCALED_NATIVE_SYNC_DELAY
      /\ Sound(Afterwards', {}, orderly)
      /\ nativeStale' \subseteq Pixels /\ copyStale' \subseteq Pixels
      /\ scaledStale' \subseteq Pixels /\ unmarked' \subseteq Pixels
      /\ staleRead' = FALSE
  BY FlushStep
<1>2. RasterizerTypeOK'
  <2>1. draw_commands' \in Seq(DrawCommand)
    BY <1>1
  <2>2. orderly' \in BOOLEAN /\ aborted' \in BOOLEAN
    BY <1>1 DEF MemoryInv, RasterizerTypeOK
  <2> QED
    BY <1>1, <2>1, <2>2 DEF RasterizerTypeOK
<1> QED
  BY <1>1, <1>2 DEF MemoryInv

LEMMA VramToCpuStep ==
    ASSUME MemoryInv, VramToCpuBlit
    PROVE  MemoryInv'
<1>1. Flush /\ out_of_sync' = FALSE /\ orderly' = orderly
      /\ hostStale' = IF out_of_sync \/ draw_commands # <<>> THEN {} ELSE hostStale
  BY DEF VramToCpuBlit
<1>2. hostStale' = {}
  BY <1>1 DEF MemoryInv, RasterizerTypeOK
<1> QED
  BY <1>1, <1>2, FlushedStep

LEMMA GenerateFrameStep ==
    ASSUME MemoryInv, GenerateFrameTexture
    PROVE  MemoryInv'
<1>1. /\ Flush /\ orderly' = orderly
      /\ \/ out_of_sync' = TRUE /\ hostStale' = hostStale \cup Touched
         \/ UNCHANGED <<out_of_sync, hostStale>>
  BY DEF GenerateFrameTexture
<1>2. hostStale' \subseteq Pixels /\ out_of_sync' \in BOOLEAN
      /\ (~out_of_sync' => hostStale' = {})
  <2>1. RasterizerTypeOK /\ (~out_of_sync => hostStale = {})
    BY DEF MemoryInv
  <2>2. hostStale \subseteq Pixels /\ Touched \subseteq Pixels /\ out_of_sync \in BOOLEAN
    BY <2>1, TouchedTyped DEF RasterizerTypeOK
  <2>3. CASE out_of_sync' = TRUE /\ hostStale' = hostStale \cup Touched
    BY <2>2, <2>3
  <2>4. CASE UNCHANGED <<out_of_sync, hostStale>>
    BY <2>1, <2>2, <2>4
  <2> QED
    BY <1>1, <2>3, <2>4
<1> QED
  BY <1>1, <1>2, FlushedStep

\* The rasterizer begins anew with all memories equal to native_vram.
LEMMA CloneStep ==
    ASSUME MemoryInv, CloneVram
    PROVE  MemoryInv'
<1>1. RasterizerTypeOK /\ Sound(Afterwards, atlas, orderly)
  BY DEF MemoryInv
<1>2. PICK kept : kept = IF draw_commands = <<>> THEN Memories ELSE Flushed
  OBVIOUS
<1>3. Sound(kept, {}, orderly)
  <2>1. CASE draw_commands = <<>>
    <3>1. Afterwards = Memories /\ atlas = {}
      BY <2>1, ExecutedNothing DEF Afterwards, MemoryInv
    <3> QED
      BY <1>1, <1>2, <2>1, <3>1
  <2>2. CASE draw_commands # <<>>
    <3>1. Flushed = ExecuteSync(Afterwards, atlas)
      BY DEF Flushed, Afterwards
    <3> QED
      BY <1>1, <1>2, <2>2, <3>1, SyncSound
  <2> QED
    BY <2>1, <2>2
<1>4. /\ kept \in Memory /\ kept.stale = FALSE /\ (orderly => kept.scaled = {})
      /\ kept.native \subseteq kept.unmarked \cup kept.scaled
  BY <1>3 DEF Sound, Covered, Memory, TilePixels
<1>5. PICK fresh : fresh = [kept EXCEPT !.copy = kept.native, !.scaled = kept.native,
                                        !.unmarked = {}]
  OBVIOUS
<1>6. fresh = [native |-> kept.native, copy |-> kept.native, scaled |-> kept.native,
               unmarked |-> {}, stale |-> FALSE]
  BY <1>4, <1>5 DEF Memory
<1>7. MemoriesAre(fresh) /\ orderly' = (orderly /\ kept.unmarked = {})
  BY <1>2, <1>5, Zenon DEF CloneVram
<1>8. /\ draw_commands' = <<>> /\ atlas' = {} /\ scaled_native_sync_delay' = 0
      /\ hostStale' = Pixels /\ out_of_sync' = TRUE /\ aborted' = aborted
  BY DEF CloneVram
<1>9. Afterwards' = Memories'
  <2>1. Executed(Memories', <<>>) = Memories'
    BY ExecutedNothing
  <2> QED
    BY <1>8, <2>1 DEF Afterwards
<1>10. Memories' = fresh /\ staleRead' = FALSE
  BY <1>6, <1>7 DEF Memories, MemoriesAre
<1>11. orderly' \in BOOLEAN /\ (orderly' => kept.native = {})
  <2>1. orderly' \in BOOLEAN /\ (orderly' => orderly /\ kept.unmarked = {})
    BY <1>7
  <2> QED
    BY <1>4, <2>1
<1>12. kept.native \in SUBSET Pixels
  BY <1>4 DEF Memory
<1>13. Sound(fresh, {}, orderly')
  <2>1. PICK n, q : n = kept.native /\ q = orderly'
    OBVIOUS
  <2>2. /\ n \in SUBSET Pixels /\ (q => n = {}) /\ {} \in SUBSET Pixels
        /\ n \subseteq TilePixels({}) \cup {} \cup n
    BY <1>11, <1>12, <2>1
  <2>3. fresh = [native |-> n, copy |-> n, scaled |-> n, unmarked |-> {}, stale |-> FALSE]
    BY <1>6, <2>1
  <2>4. Sound(fresh, {}, q)
    BY <2>2, <2>3, SoundMemory
  <2> QED
    BY <2>1, <2>4
<1>14. RasterizerTypeOK'
  <2>1. 0 \in 0 .. SCALED_NATIVE_SYNC_DELAY /\ <<>> \in Seq(DrawCommand)
    BY RasterizerAssumed DEF RasterizerAssumption
  <2>2. /\ nativeStale' \subseteq Pixels /\ copyStale' \subseteq Pixels
        /\ scaledStale' \subseteq Pixels /\ unmarked' \subseteq Pixels
    BY <1>6, <1>7, <1>12 DEF MemoriesAre
  <2>3. aborted' \in BOOLEAN
    BY <1>1, <1>8 DEF RasterizerTypeOK
  <2> QED
    BY <1>8, <1>10, <1>11, <2>1, <2>2, <2>3 DEF RasterizerTypeOK
<1>15. Sound(Afterwards', atlas', orderly')
  BY <1>8, <1>9, <1>10, <1>13
<1> QED
  BY <1>8, <1>10, <1>14, <1>15 DEF MemoryInv

\* A step that leaves the queue and the memories alone.
LEMMA KeptStep ==
    ASSUME MemoryInv,
           UNCHANGED <<draw_commands, atlas, memoryVars, hostStale, out_of_sync, orderly>>,
           scaled_native_sync_delay' \in 0 .. SCALED_NATIVE_SYNC_DELAY, aborted' \in BOOLEAN
    PROVE  MemoryInv'
<1>1. Memories' = Memories /\ draw_commands' = draw_commands
  BY DEF Memories, memoryVars
<1>2. Afterwards' = Afterwards
  BY <1>1 DEF Afterwards
<1>3. RasterizerTypeOK'
  BY DEF MemoryInv, RasterizerTypeOK, memoryVars
<1>4. Sound(Afterwards', atlas', orderly')
  BY <1>2 DEF MemoryInv
<1> QED
  BY <1>3, <1>4 DEF MemoryInv, memoryVars

LEMMA ClearStep ==
    ASSUME MemoryInv, ClearTextureCache \/ Abort \/ Aborted \/ UNCHANGED rasterizerVars
    PROVE  MemoryInv'
<1>1. 0 \in 0 .. SCALED_NATIVE_SYNC_DELAY
  BY RasterizerAssumed DEF RasterizerAssumption
<1>2. scaled_native_sync_delay \in 0 .. SCALED_NATIVE_SYNC_DELAY /\ aborted \in BOOLEAN
  BY DEF MemoryInv, RasterizerTypeOK
<1>3. UNCHANGED <<draw_commands, atlas, memoryVars, hostStale, out_of_sync, orderly>>
  BY DEF ClearTextureCache, Abort, Aborted, rasterizerVars
<1>4. scaled_native_sync_delay' \in 0 .. SCALED_NATIVE_SYNC_DELAY /\ aborted' \in BOOLEAN
  BY <1>1, <1>2 DEF ClearTextureCache, Abort, Aborted, rasterizerVars
<1> QED
  BY <1>3, <1>4, KeptStep

LEMMA MemoryInvInit == RasterizerInit => MemoryInv
<1> SUFFICES ASSUME RasterizerInit PROVE MemoryInv
  OBVIOUS
<1>1. Afterwards = Memories
  BY ExecutedNothing DEF Afterwards, RasterizerInit
<1>2. Memories = [native |-> {}, copy |-> {}, scaled |-> {}, unmarked |-> {}, stale |-> FALSE]
  BY DEF Memories, RasterizerInit
<1>3. Sound(Afterwards, atlas, orderly)
  BY <1>1, <1>2, SoundMemory
<1>4. 0 \in 0 .. SCALED_NATIVE_SYNC_DELAY /\ <<>> \in Seq(DrawCommand)
  BY RasterizerAssumed DEF RasterizerAssumption
<1>5. RasterizerTypeOK
  BY <1>4 DEF RasterizerInit, RasterizerTypeOK
<1> QED
  BY <1>3, <1>5 DEF MemoryInv, RasterizerInit

LEMMA MemoryInvNext == MemoryInv /\ [RasterizerNext]_rasterizerVars => MemoryInv'
<1> SUFFICES ASSUME MemoryInv, [RasterizerNext]_rasterizerVars PROVE MemoryInv'
  OBVIOUS
<1>1. CASE \E b \in Boxes, t \in Textures : DrawPrimitive(b, t)
  BY <1>1, DrawPrimitiveStep
<1>2. CASE \E b \in Lines : DrawLine(b)
  BY <1>2, DrawLineStep
<1>3. CASE \E r \in Blits : Blit(r)
  BY <1>3, BlitStep
<1>4. CASE \E r \in Copies : VramToVramBlit(r)
  BY <1>4, CopyStep
<1>5. CASE VramToCpuBlit
  BY <1>5, VramToCpuStep
<1>6. CASE GenerateFrameTexture
  BY <1>6, GenerateFrameStep
<1>7. CASE CloneVram
  BY <1>7, CloneStep
<1>8. CASE ClearTextureCache \/ Abort \/ Aborted \/ UNCHANGED rasterizerVars
  BY <1>8, ClearStep
<1> QED
  BY <1>1, <1>2, <1>3, <1>4, <1>5, <1>6, <1>7, <1>8 DEF RasterizerNext

LEMMA MemoriesStaySound == RasterizerSpec => []MemoryInv
BY MemoryInvInit, MemoryInvNext, PTL DEF RasterizerSpec

(***************************************************************************)
(* What a flush leaves, whatever was drawn, filled, transferred and copied *)
(* before vram_to_cpu_blit, a frame or clone_vram: native_vram and the     *)
(* copy are wrong only where nothing marked what was drawn, or where       *)
(* scaled_vram is; and that is nowhere, if every transfer ended inside     *)
(* video memory and checked no mask bit, no copy overlapped itself, and no *)
(* clone lost what was unmarked.  ram_buffer is not taken to be in step    *)
(* while it is behind (wgpuhardware.rs:435, hazards.rs).                   *)
(***************************************************************************)
THEOREM HostReadsAreRendered == RasterizerSpec => []HostReadsRendered
<1>1. MemoryInv => HostReadsRendered
  <2> SUFFICES ASSUME MemoryInv PROVE HostReadsRendered
    OBVIOUS
  <2>1. ASSUME draw_commands = <<>>
        PROVE  /\ nativeStale \cup copyStale \subseteq unmarked \cup scaledStale /\ atlas = {}
               /\ orderly => scaledStale = {}
    <3>1. Afterwards = Memories
      BY <2>1, ExecutedNothing DEF Afterwards
    <3>2. atlas = {} /\ Sound(Memories, {}, orderly)
      BY <2>1, <3>1 DEF MemoryInv
    <3>3. Covered(Memories, {}) /\ (orderly => Memories.scaled = {})
      BY <3>2 DEF Sound
    <3> QED
      BY <3>2, <3>3 DEF Covered, Memories, TilePixels
  <2> QED
    BY <2>1 DEF MemoryInv, HostReadsRendered
<1> QED
  BY <1>1, MemoriesStaySound, PTL

(***************************************************************************)
(* A textured primitive samples what was rendered before it, from          *)
(* native_vram or scaled_vram_copy alike, whatever the queue holds: the    *)
(* tiles check_texture_bounding_box and check_clut_bounding_box look at    *)
(* contain every pixel it samples, around the sides of its page and of     *)
(* video memory, unless a texture window moves it or the texture begins or *)
(* ends inside a pixel; and what the primitives, copies and syncs mark     *)
(* contains every pixel they leave behind but those that HostReadsRendered *)
(* sets apart (wgpuhardware.rs:1023).                                      *)
(***************************************************************************)
THEOREM TexturesAreFresh == RasterizerSpec => []TexturesFresh
<1>1. MemoryInv => TexturesFresh
  BY DEF MemoryInv, TexturesFresh
<1> QED
  BY <1>1, MemoriesStaySound, PTL
=============================================================================
