--------------------------- MODULE Devices_proofs ---------------------------
(***************************************************************************)
(* The parts that MCDevices runs: the processor and its instruction cache, *)
(* the sound processor, the controllers and their receive FIFO, and disc   *)
(* images, for every size of memory, cache and queue, every set of         *)
(* registers, every setting of a voice and every sheet of tracks.          *)
(***************************************************************************)
EXTENDS Spu, Cpu, InstructionCache, Controllers, RxFifo, DiscImage, SequenceTheorems,
        WellFoundedInduction, TLAPS

-----------------------------------------------------------------------------
(* A number has one quotient and one rest. *)
LEMMA Quotient ==
    ASSUME NEW d \in Nat \ {0}, NEW k \in Nat, NEW r \in 0 .. d - 1
    PROVE  (d * k + r) \div d = k /\ (d * k + r) % d = r
<1> DEFINE x == d * k + r
           q == x \div d
           m == x % d
<1>1. d * k \in Nat /\ x \in Nat
  OBVIOUS
<1>2. q \in Int /\ m \in 0 .. d - 1 /\ x = d * q + m
  <2> HIDE DEF x
  <2> QED
    BY <1>1, Z3
<1>3. q = k
  <2>1. d * (q - k) = r - m
    <3>1. d * (q - k) = d * q - d * k
      BY <1>2, Z3
    <3> QED
      BY <3>1, <1>2, <1>1
  <2> HIDE DEF q, m
  <2>2. CASE q >= k + 1
    <3>1. d * (q - k) >= d
      BY <1>2, <2>2, Z3
    <3> QED
      BY <3>1, <2>1, <1>2
  <2>3. CASE q <= k - 1
    <3>1. d * (q - k) <= -d
      BY <1>2, <2>3, Z3
    <3> QED
      BY <3>1, <2>1, <1>2
  <2> QED
    BY <2>2, <2>3, <1>2
<1> QED
  BY <1>2, <1>3, <1>1

-----------------------------------------------------------------------------
(***************************************************************************)
(* The bytes of a word, and what shifts by whole bytes make of them.       *)
(***************************************************************************)

LEMMA Digit ==
    ASSUME NEW b \in Nat \ {0}, NEW n \in Nat \ {0}, NEW x \in 0 .. b - 1, NEW y \in 0 .. n - 1
    PROVE  x + b * y \in 0 .. b * n - 1
<1>1. b * y \in Nat /\ b * y <= b * (n - 1)
  BY Z3
<1>2. b * (n - 1) = b * n - b /\ b * n \in Nat
  BY Z3
<1> QED
  BY <1>1, <1>2

LEMMA Widths ==
    ASSUME WordAssumption
    PROVE  /\ BYTE \in Nat \ {0} /\ BYTE >= 2
           /\ HALF \in Nat \ {0} /\ HALF = BYTE * BYTE /\ HALF >= 4
           /\ BYTE * HALF \in Nat \ {0}
           /\ WORD \in Nat \ {0} /\ WORD = HALF * HALF /\ WORD = BYTE * (BYTE * HALF) /\ WORD >= 16
           /\ \E m \in Nat : WORD = 4 * m
           /\ BITS \in Nat \ {0} /\ \A n \in 0 .. 4 * BITS : 2^n \in Nat \ {0}
<1>1. BITS \in Nat \ {0} /\ \A n \in 0 .. 4 * BITS : 2^n \in Nat \ {0}
  BY DEF WordAssumption
<1>2. BITS \in 0 .. 4 * BITS
  BY <1>1
<1>3. BYTE \in Nat \ {0} /\ BYTE % 2 = 0
  BY <1>1, <1>2 DEF WordAssumption, BYTE
<1> DEFINE b == BYTE
<1>4. b \in Nat \ {0} /\ b % 2 = 0
  BY <1>3
<1> HIDE DEF b
<1>5. PICK h \in Nat \ {0} : b = 2 * h
  BY <1>4, Z3
<1>6. b * b = 4 * (h * h) /\ h * h \in Nat \ {0}
  BY <1>5, Z3
<1> DEFINE s == b * b
<1>7. s \in Nat \ {0} /\ s >= 4
  BY <1>6
<1>8. b * s \in Nat \ {0} /\ s * s = b * (b * s)
  BY <1>4, Z3
<1>9. s * s = 4 * (h * h * s) /\ h * h * s \in Nat
  <2>1. h * h * s \in Nat
    BY <1>6, <1>7
  <2> QED
    BY <1>6, <2>1
<1>10. s * s >= 16
  <2> HIDE DEF s
  <2> QED
    BY <1>7, Z3
<1>11. HALF = s /\ WORD = s * s /\ BYTE = b
  BY DEF HALF, WORD, s, b
<1>12. b >= 2
  BY <1>5
<1> HIDE DEF s
<1>13. s * s \in Nat \ {0}
  BY <1>7, <1>10
<1>14. s = b * b
  BY DEF s
<1>15. \E m \in Nat : s * s = 4 * m
  BY <1>9
<1> HIDE DEF BYTE, HALF, WORD
<1> QED
  BY <1>1, <1>4, <1>7, <1>8, <1>10, <1>11, <1>12, <1>13, <1>14, <1>15

FourBytes == [0 .. 3 -> ByteValues]

(* The bytes above and below a place of a word. *)
LEMMA Split ==
    ASSUME WordAssumption, NEW x \in FourBytes
    PROVE  /\ Compose(x) \in Words
           /\ Compose(x) = BYTE * (x[1] + BYTE * (x[2] + BYTE * x[3])) + x[0]
           /\ Compose(x) = HALF * (x[2] + BYTE * x[3]) + (x[0] + BYTE * x[1])
           /\ Compose(x) = (BYTE * HALF) * x[3] + (x[0] + BYTE * (x[1] + BYTE * x[2]))
           /\ \A i \in 0 .. 3 : x[i] \in 0 .. BYTE - 1 /\ x[i] \in Nat
           /\ x[0] + BYTE * x[1] \in 0 .. HALF - 1
           /\ x[0] + BYTE * (x[1] + BYTE * x[2]) \in 0 .. BYTE * HALF - 1
           /\ x[2] + BYTE * x[3] \in Nat
           /\ x[1] + BYTE * (x[2] + BYTE * x[3]) \in Nat
<1>1. PICK p, q, r, s \in 0 .. BYTE - 1 : p = x[0] /\ q = x[1] /\ r = x[2] /\ s = x[3]
  BY DEF FourBytes, ByteValues
<1>2. PICK b \in Nat \ {0} : b = BYTE
  BY Widths
<1>3. HALF = b * b /\ BYTE * HALF = b * (b * b) /\ WORD = b * (b * (b * b))
  BY <1>2, Widths
<1>4. p \in 0 .. b - 1 /\ q \in 0 .. b - 1 /\ r \in 0 .. b - 1 /\ s \in 0 .. b - 1
  BY <1>1, <1>2
<1>5. b * b \in Nat \ {0} /\ b * (b * b) \in Nat \ {0}
  BY <1>2, <1>3, Widths
<1>6. p + b * q \in 0 .. b * b - 1 /\ r + b * s \in 0 .. b * b - 1 /\ q + b * r \in 0 .. b * b - 1
  BY <1>4, Digit
<1>7. q + b * (r + b * s) \in 0 .. b * (b * b) - 1 /\ p + b * (q + b * r) \in 0 .. b * (b * b) - 1
  BY <1>4, <1>5, <1>6, Digit
<1>8. p + b * (q + b * (r + b * s)) \in 0 .. b * (b * (b * b)) - 1
  BY <1>4, <1>5, <1>7, Digit
<1>9. /\ p + b * (q + b * (r + b * s)) = b * (q + b * (r + b * s)) + p
      /\ p + b * (q + b * (r + b * s)) = (b * b) * (r + b * s) + (p + b * q)
      /\ p + b * (q + b * (r + b * s)) = (b * (b * b)) * s + (p + b * (q + b * r))
  BY <1>2, <1>4, Z3
<1>10. \A i \in 0 .. 3 : x[i] \in 0 .. BYTE - 1 /\ x[i] \in Nat
  <2>1. ASSUME NEW i \in 0 .. 3 PROVE x[i] \in 0 .. BYTE - 1
    BY DEF FourBytes, ByteValues
  <2> QED
    BY <1>2, <2>1
<1> QED
  BY <1>1, <1>2, <1>3, <1>6, <1>7, <1>8, <1>9, <1>10 DEF Compose, Words

(* The parts of a word at byte k. *)
High(x, k) == [i \in 0 .. 3 |-> IF i + k <= 3 THEN x[i + k] ELSE 0]
Low(x, k) == [i \in 0 .. 3 |-> IF i < k THEN x[i] ELSE 0]
Top(x, k) == [i \in 0 .. 3 |-> IF i < k THEN 0 ELSE x[i]]
Lifted(x, k) == [i \in 0 .. 3 |-> IF i < k THEN 0 ELSE x[i - k]]

LEMMA Divided ==
    ASSUME WordAssumption, NEW x \in FourBytes, NEW k \in 0 .. 4
    PROVE  /\ Unit(k) \in Nat \ {0} /\ Unit(4 - k) \in Nat \ {0} /\ WORD = Unit(k) * Unit(4 - k)
           /\ Compose(x) = Unit(k) * Compose(High(x, k)) + Compose(Low(x, k))
           /\ Compose(Low(x, k)) \in 0 .. Unit(k) - 1
           /\ Compose(High(x, k)) \in Nat
           /\ High(x, k) \in FourBytes /\ Low(x, k) \in FourBytes
<1>1. \A j \in 0 .. 4 : High(x, j) \in FourBytes /\ Low(x, j) \in FourBytes
  BY Widths DEF High, Low, FourBytes, ByteValues
<1>2. \A y \in FourBytes : Compose(y) \in Nat
  BY Split, Widths DEF Words
<1>3. 0 * BYTE = 0 /\ BYTE * 0 = 0 /\ HALF * 0 = 0 /\ WORD * 0 = 0 /\ (BYTE * HALF) * 0 = 0
      /\ 1 * Compose(x) = Compose(x)
  BY <1>2, Widths
<1>4. /\ x[0] \in Nat /\ x[1] \in Nat /\ x[2] \in Nat /\ x[3] \in Nat
      /\ BYTE * x[1] \in Nat /\ BYTE * x[2] \in Nat /\ BYTE * x[3] \in Nat
  BY Split, Widths
<1> HIDE DEF BYTE, HALF, WORD
<1>5. CASE k = 0
  <2>1. Unit(k) = 1 /\ Unit(4 - k) = WORD
    BY <1>5 DEF Unit
  <2>2. Compose(High(x, 0)) = Compose(x) /\ Compose(Low(x, 0)) = 0
    BY <1>3, <1>4 DEF High, Low, Compose
  <2>3. /\ WORD \in Nat \ {0} /\ WORD = 1 * WORD
        /\ Compose(x) = 1 * Compose(x) + 0 /\ 0 \in 0 .. 1 - 1 /\ 1 \in Nat \ {0}
    BY <1>2, Widths
  <2> QED
    BY <1>1, <1>2, <1>3, <1>5, <2>1, <2>2, <2>3
<1>6. CASE k = 1
  <2>1. Unit(k) = BYTE /\ Unit(4 - k) = BYTE * HALF
    BY <1>6 DEF Unit
  <2>2. Compose(High(x, 1)) = x[1] + BYTE * (x[2] + BYTE * x[3]) /\ Compose(Low(x, 1)) = x[0]
    BY <1>3, <1>4 DEF High, Low, Compose
  <2> QED
    BY <1>1, <1>2, <1>6, <2>1, <2>2, Widths, Split
<1>7. CASE k = 2
  <2>1. Unit(k) = HALF /\ Unit(4 - k) = HALF
    BY <1>7 DEF Unit
  <2>2. Compose(High(x, 2)) = x[2] + BYTE * x[3] /\ Compose(Low(x, 2)) = x[0] + BYTE * x[1]
    BY <1>3, <1>4 DEF High, Low, Compose
  <2> QED
    BY <1>1, <1>2, <1>7, <2>1, <2>2, Widths, Split
<1>8. CASE k = 3
  <2>1. Unit(k) = BYTE * HALF /\ Unit(4 - k) = BYTE
    BY <1>8 DEF Unit
  <2>2. Compose(High(x, 3)) = x[3] /\ Compose(Low(x, 3)) = x[0] + BYTE * (x[1] + BYTE * x[2])
    BY <1>3, <1>4 DEF High, Low, Compose
  <2>3. WORD = (BYTE * HALF) * BYTE
    BY Widths
  <2> QED
    BY <1>1, <1>2, <1>8, <2>1, <2>2, <2>3, Widths, Split
<1>9. CASE k = 4
  <2>1. Unit(k) = WORD /\ Unit(4 - k) = 1
    BY <1>9 DEF Unit
  <2>2. Compose(High(x, 4)) = 0 /\ Compose(Low(x, 4)) = Compose(x)
    BY <1>3, <1>4 DEF High, Low, Compose
  <2>3. /\ WORD \in Nat \ {0} /\ WORD = WORD * 1 /\ Compose(x) \in 0 .. WORD - 1
        /\ Compose(x) = WORD * 0 + Compose(x) /\ 1 \in Nat \ {0} /\ 0 \in Nat
    BY <1>2, <1>3, Widths, Split DEF Words
  <2> QED
    BY <1>1, <1>2, <1>3, <1>9, <2>1, <2>2, <2>3
<1> QED
  BY <1>5, <1>6, <1>7, <1>8, <1>9

LEMMA Sums ==
    ASSUME WordAssumption, NEW x \in FourBytes, NEW y \in FourBytes, NEW z \in FourBytes,
           \A i \in 0 .. 3 : x[i] = y[i] + z[i]
    PROVE  Compose(x) = Compose(y) + Compose(z)
<1>1. PICK b \in Nat : b = BYTE
  BY Widths
<1>2. \A i \in 0 .. 3 : y[i] \in Nat /\ z[i] \in Nat
  BY Split
<1>3. PICK a0, a1, a2, a3 \in Nat : a0 = y[0] /\ a1 = y[1] /\ a2 = y[2] /\ a3 = y[3]
  BY <1>2
<1>4. PICK c0, c1, c2, c3 \in Nat : c0 = z[0] /\ c1 = z[1] /\ c2 = z[2] /\ c3 = z[3]
  BY <1>2
<1>5. (a0 + c0) + b * ((a1 + c1) + b * ((a2 + c2) + b * (a3 + c3)))
        = (a0 + b * (a1 + b * (a2 + b * a3))) + (c0 + b * (c1 + b * (c2 + b * c3)))
  BY <1>1, Z3
<1> QED
  BY <1>1, <1>3, <1>4, <1>5 DEF Compose

(* What shifting a word by bytes and masking it leave of them. *)
LEMMA BytePlaces ==
    ASSUME WordAssumption, NEW x \in FourBytes, NEW k \in 0 .. 4
    PROVE  /\ WORD \div Unit(k) = Unit(4 - k)
           /\ Compose(x) \div Unit(k) = Compose(High(x, k))
           /\ Compose(x) % Unit(k) = Compose(Low(x, k))
           /\ Compose(x) - (Compose(x) % Unit(k)) = Compose(Top(x, k))
           /\ Wrap(Compose(x) * Unit(k)) = Compose(Lifted(x, k))
           /\ Top(x, k) \in FourBytes /\ Lifted(x, k) \in FourBytes
<1>1. Top(x, k) \in FourBytes /\ Lifted(x, k) \in FourBytes
  BY Widths DEF Top, Lifted, FourBytes, ByteValues
<1>2. /\ Compose(x) \div Unit(k) = Compose(High(x, k))
      /\ Compose(x) % Unit(k) = Compose(Low(x, k))
  <2>1. PICK d \in Nat \ {0}, h, l \in Nat :
          /\ l \in 0 .. d - 1
          /\ d = Unit(k) /\ h = Compose(High(x, k)) /\ l = Compose(Low(x, k))
          /\ Compose(x) = d * h + l
    BY Divided
  <2>2. (d * h + l) \div d = h /\ (d * h + l) % d = l
    BY <2>1, Quotient
  <2> QED
    BY <2>1, <2>2
<1>3. WORD \div Unit(k) = Unit(4 - k)
  <2>1. /\ Unit(k) \in Nat \ {0} /\ Unit(4 - k) \in Nat /\ WORD = Unit(k) * Unit(4 - k) + 0
        /\ 0 \in 0 .. Unit(k) - 1
    BY Divided
  <2> HIDE DEF WORD
  <2> QED
    BY <2>1, Quotient
<1>4. Compose(x) = Compose(Low(x, k)) + Compose(Top(x, k))
  <2>1. \A i \in 0 .. 3 : x[i] = Low(x, k)[i] + Top(x, k)[i]
    BY Split DEF Low, Top
  <2> QED
    BY <1>1, <2>1, Divided, Sums
<1>5. \A y \in FourBytes : Compose(y) \in Nat
  BY Split, Widths DEF Words
<1>6. Wrap(Compose(x) * Unit(k)) = Compose(Lifted(x, k))
  <2>1. 4 - k \in 0 .. 4 /\ 4 - (4 - k) = k
    OBVIOUS
  <2>2. PICK u, v \in Nat \ {0} : u = Unit(k) /\ v = Unit(4 - k) /\ WORD = u * v
    BY Divided
  <2>3. PICK h, l \in Nat : /\ h = Compose(High(x, 4 - k)) /\ l = Compose(Low(x, 4 - k))
                           /\ Compose(x) = v * h + l /\ l \in 0 .. v - 1
    BY <1>5, <2>1, <2>2, Divided
  <2>4. (v * h + l) * u = (u * v) * h + u * l
    BY <2>2, <2>3, Z3
  <2>5. u * l \in 0 .. u * v - 1
    <3>1. u * l \in Nat /\ u * l <= u * (v - 1)
      BY <2>2, <2>3, Z3
    <3>2. u * (v - 1) = u * v - u /\ u * v \in Nat
      BY <2>2, Z3
    <3> QED
      BY <2>2, <3>1, <3>2
  <2>6. u * v \in Nat \ {0}
    BY <2>2, Z3
  <2>7. Wrap(Compose(x) * Unit(k)) = u * l
    <3>1. PICK d \in Nat \ {0}, m \in Nat : m \in 0 .. d - 1 /\ d = u * v /\ m = u * l
      BY <2>5, <2>6
    <3>2. (d * h + m) % d = m
      BY <2>3, <3>1, Quotient
    <3> HIDE DEF WORD
    <3> QED
      BY <2>2, <2>3, <2>4, <3>1, <3>2 DEF Wrap
  <2> DEFINE y == Lifted(x, k)
  <2>8. y \in FourBytes /\ Compose(y) = Unit(k) * Compose(High(y, k)) + Compose(Low(y, k))
    BY <1>1, Divided
  <2>9. High(y, k) = Low(x, 4 - k)
    BY DEF High, Low, Lifted
  <2>10. Low(y, k) = [i \in 0 .. 3 |-> 0]
    BY DEF Low, Lifted
  <2>11. Compose([i \in 0 .. 3 |-> 0]) = 0
    <3>1. BYTE * 0 = 0
      BY Widths
    <3> QED
      BY <3>1 DEF Compose
  <2> HIDE DEF y
  <2> QED
    BY <2>2, <2>3, <2>7, <2>8, <2>9, <2>10, <2>11 DEF y
<1> QED
  BY <1>1, <1>2, <1>3, <1>4, <1>5, <1>6, Divided

LEMMA BytesOf ==
    ASSUME WordAssumption, NEW x \in FourBytes, NEW i \in 0 .. 3
    PROVE  ByteOf(Compose(x), i) = x[i]
<1>1. /\ Compose(x) \div Unit(i) = Compose(High(x, i)) /\ High(x, i) \in FourBytes
      /\ High(x, i)[0] = x[i]
  <2>1. i \in 0 .. 4
    OBVIOUS
  <2>2. High(x, i)[0] = x[i]
    BY DEF High
  <2> QED
    BY <2>1, <2>2, BytePlaces, Divided
<1> DEFINE y == High(x, i)
           n == y[1] + BYTE * (y[2] + BYTE * y[3])
<1>2. Compose(y) = BYTE * n + y[0] /\ n \in Nat /\ y[0] \in 0 .. BYTE - 1 /\ BYTE \in Nat \ {0}
  BY <1>1, Split, Widths
<1> HIDE DEF n, y
<1>3. Compose(y) % BYTE = y[0]
  BY <1>2, Quotient
<1> QED
  BY <1>1, <1>3 DEF ByteOf, y

LEMMA WordBytes ==
    ASSUME WordAssumption, NEW w \in Words
    PROVE  \E x \in FourBytes : w = Compose(x)
<1>1. PICK b \in Nat \ {0} : b = BYTE
  BY Widths
<1>2. WORD = b * (b * (b * b)) /\ w \in 0 .. WORD - 1
  BY <1>1, Widths DEF Words
<1>3. ASSUME NEW n \in Nat \ {0}, NEW v \in 0 .. b * n - 1
      PROVE  /\ v \div b \in 0 .. n - 1 /\ v % b \in 0 .. b - 1 /\ v = (v % b) + b * (v \div b)
  <2>1. b * n \in Nat
    BY Z3
  <2>2. v \in Nat /\ v < b * n
    BY <2>1
  <2>3. v \div b \in Nat /\ v % b \in 0 .. b - 1 /\ v = b * (v \div b) + (v % b)
    BY <2>2, Z3
  <2>4. ~(v \div b >= n)
    <3>1. ASSUME v \div b >= n
          PROVE  b * (v \div b) >= b * n
      <4>1. PICK q \in Nat : q = v \div b
        BY <2>3
      <4> QED
        BY <3>1, <4>1, Z3
    <3> QED
      BY <2>1, <2>2, <2>3, <3>1
  <2> QED
    BY <2>3, <2>4
<1>4. b * b \in Nat \ {0} /\ b * (b * b) \in Nat \ {0}
  BY <1>1, Widths
<1> DEFINE v1 == w \div b
           v2 == v1 \div b
           v3 == v2 \div b
           x == [i \in 0 .. 3 |-> IF i = 0 THEN w % b ELSE IF i = 1 THEN v1 % b
                                  ELSE IF i = 2 THEN v2 % b ELSE v3]
<1>5. v1 \in 0 .. b * (b * b) - 1 /\ w % b \in 0 .. b - 1 /\ w = (w % b) + b * v1
  BY <1>2, <1>3, <1>4
<1>6. v2 \in 0 .. b * b - 1 /\ v1 % b \in 0 .. b - 1 /\ v1 = (v1 % b) + b * v2
  BY <1>3, <1>4, <1>5
<1>7. v3 \in 0 .. b - 1 /\ v2 % b \in 0 .. b - 1 /\ v2 = (v2 % b) + b * v3
  BY <1>3, <1>6
<1> HIDE DEF v1, v2, v3
<1>8. x \in FourBytes
  BY <1>1, <1>5, <1>6, <1>7 DEF FourBytes, ByteValues
<1>9. Compose(x) = w
  BY <1>1, <1>5, <1>6, <1>7 DEF Compose
<1> QED
  BY <1>8, <1>9

-----------------------------------------------------------------------------
(* What instructions compute is a word. *)

LEMMA Wrapping ==
    ASSUME WordAssumption, NEW x \in Int
    PROVE  Wrap(x) \in Words
<1>1. WORD \in Nat \ {0}
  BY Widths
<1> HIDE DEF WORD
<1> QED
  BY <1>1, Z3 DEF Wrap, Words

LEMMA SignedIsInt ==
    ASSUME NEW x \in Int, NEW size \in Int
    PROVE  Signed(x, size) \in Int
BY DEF Signed

LEMMA Dividing ==
    ASSUME NEW x \in Int, NEW d \in Nat \ {0}
    PROVE  /\ x \div d \in Int
           /\ x \in Nat => x \div d \in Nat /\ x \div d <= x
BY Z3

LEMMA Shifted ==
    ASSUME WordAssumption, NEW a \in Words, NEW n \in 0 .. 4 * BITS - 1
    PROVE  Shifts(a, n) \subseteq Words
<1>1. PICK d \in Nat \ {0} : d = 2^n
  BY Widths
<1>2. a \in Nat /\ a \in 0 .. WORD - 1 /\ WORD \in Nat \ {0}
  BY Widths DEF Words
<1> HIDE DEF WORD
<1>3. a \div d \in Nat /\ a \div d <= a
  BY <1>1, <1>2, Dividing
<1>4. \A x \in Int : x \div d \in Int
  BY <1>1, Dividing
<1>5. Signed(a, WORD) \in Int /\ a * d \in Int
  BY <1>1, <1>2, SignedIsInt
<1>6. Wrap(a * d) \in Words /\ Wrap(Signed(a, WORD) \div d) \in Words
  BY <1>4, <1>5, Wrapping
<1>7. a \div d \in Words
  BY <1>2, <1>3 DEF Words
<1> QED
  BY <1>1, <1>6, <1>7 DEF Shifts

LEMMA Computed ==
    ASSUME WordAssumption, NEW a \in Words, NEW b \in Words, NEW imm \in Halfwords
    PROVE  /\ ThreeRegisters(a, b) \subseteq Words
           /\ WithImmediate(a, imm) \subseteq Words
           /\ imm \in Words
<1>1. /\ WORD \in Nat /\ HALF \in Nat \ {0} /\ WORD = HALF * HALF /\ WORD >= 16
      /\ a \in 0 .. WORD - 1 /\ b \in 0 .. WORD - 1 /\ imm \in 0 .. HALF - 1
  BY Widths DEF Words, Halfwords
<1>2. b \in Words /\ a % (4 * BITS) \in 0 .. 4 * BITS - 1
  <2>1. 4 * BITS \in Nat \ {0}
    BY Widths
  <2> QED
    BY <1>1, <2>1, Z3
<1>3. /\ \A x, y : Logical(x, y) \subseteq Words /\ Nor(x, y) \subseteq Words
  BY DEF Logical, And, Or, Xor, Nor, Bitwise
<1> HIDE DEF WORD, HALF
<1>4. \A x, y : SetOnLess(x, y) \subseteq Words
  BY <1>1 DEF SetOnLess, Words
<1>5. Extend(imm) \in Words /\ Extend(imm) \in Int
  <2>1. Extend(imm) \in Words
    BY <1>1, SignedIsInt, Wrapping DEF Extend
  <2> QED
    BY <1>1, <2>1 DEF Words
<1>6. LoadUpper(imm) \in Words /\ imm \in Words
  <2>1. imm * HALF \in Nat /\ imm * HALF <= (HALF - 1) * HALF
    BY <1>1, Z3
  <2>2. (HALF - 1) * HALF = HALF * HALF - HALF
    BY <1>1, Z3
  <2>3. HALF <= HALF * HALF
    BY <1>1, Z3
  <2> QED
    BY <1>1, <2>1, <2>2, <2>3 DEF LoadUpper, Words
<1>7. Wrap(a + b) \in Words /\ Wrap(a - b) \in Words /\ Wrap(a + Extend(imm)) \in Words
  BY <1>1, <1>5, Wrapping
<1> QED
  BY <1>2, <1>3, <1>4, <1>6, <1>7, Shifted DEF ThreeRegisters, WithImmediate

-----------------------------------------------------------------------------
(***************************************************************************)
(* The processor: exceptions and jumps.                                    *)
(***************************************************************************)

CauseSaysSlot == "branch_delay" \in DOMAIN cause

(* Outside a delay slot the program goes on with the next word.  In one, it *)
(* goes on to the target of the branch, which is the word before unless the *)
(* branch was in a delay slot itself.                                       *)
FlowInv ==
    /\ pc \in Words /\ next_pc \in Words
    /\ in_delay_slot \in BOOLEAN /\ CauseSaysSlot
    /\ IF in_delay_slot
       THEN /\ branch.at \in Words /\ branch.target = next_pc
            /\ doubled \/ pc = Wrap(branch.at + 4)
       ELSE next_pc = Wrap(pc + 4)
-----------------------------------------------------------------------------
LEMMA BackFromSlot ==
    ASSUME WordAssumption, NEW a \in Words
    PROVE  Wrap(Wrap(a + 4) - 4) = a
<1>1. WORD \in Nat /\ WORD >= 4 /\ a \in 0 .. WORD - 1
  BY Widths DEF Words
<1> HIDE DEF WORD
<1>2. (a + 4) % WORD = IF a + 4 < WORD THEN a + 4 ELSE a + 4 - WORD
  BY <1>1, Z3
<1>3. CASE a + 4 < WORD
  <2>1. Wrap(a + 4) - 4 = a
    BY <1>1, <1>2, <1>3 DEF Wrap
  <2>2. a % WORD = a
    BY <1>1, Z3
  <2> QED
    BY <2>1, <2>2 DEF Wrap
<1>4. CASE ~(a + 4 < WORD)
  <2>1. Wrap(a + 4) - 4 = a - WORD
    BY <1>1, <1>2, <1>4 DEF Wrap
  <2>2. (a - WORD) % WORD = a
    BY <1>1, Z3
  <2> QED
    BY <2>1, <2>2 DEF Wrap
<1> QED
  BY <1>3, <1>4

-----------------------------------------------------------------------------
(* What a step does to the flow of the program. *)
TakesException ==
    /\ cause'.branch_delay = in_delay_slot
    /\ epc' = IF in_delay_slot THEN Wrap(pc - 4) ELSE pc
    /\ pc' \in {EXCEPTION_VECTOR, BOOT_EXCEPTION_VECTOR}
    /\ next_pc' = Wrap(pc' + 4) /\ in_delay_slot' = FALSE

Proceeds ==
    /\ pc' = next_pc /\ next_pc' = Wrap(next_pc + 4)
    /\ in_delay_slot' = FALSE /\ entered' = FALSE

Jumps ==
    /\ pc' = next_pc /\ next_pc' \in Words
    /\ in_delay_slot' = TRUE /\ entered' = FALSE
    /\ branch' = [at |-> pc, target |-> next_pc'] /\ (doubled' <=> in_delay_slot)

Starts ==
    /\ pc' \in Words /\ next_pc' = Wrap(pc' + 4)
    /\ in_delay_slot' = FALSE /\ entered' = FALSE

Flows == CauseSaysSlot' /\ (TakesException \/ Proceeds \/ Jumps \/ Starts)

LEMMA ExceptionFlows ==
    ASSUME NEW code, CauseSaysSlot, HandleException(code) PROVE Flows
<1>1. CauseSaysSlot' /\ cause'.branch_delay = in_delay_slot
  BY DEF HandleException, CauseSaysSlot
<1> QED
  BY <1>1 DEF HandleException, Flows, TakesException

LEMMA AdvanceFlows ==
    ASSUME NEW f, CauseSaysSlot, UNCHANGED cause
    PROVE  /\ Continue(f) => Flows
           /\ \A t \in Words : Advance(f, t, TRUE) => Flows
<1>1. CauseSaysSlot'
  BY DEF CauseSaysSlot
<1>2. ASSUME Continue(f) PROVE Flows
  BY <1>1, <1>2 DEF Continue, Advance, Flows, Proceeds
<1>3. ASSUME NEW t \in Words, Advance(f, t, TRUE) PROVE Flows
  <2>1. Jumps
    BY <1>3 DEF Advance, Jumps
  <2> QED
    BY <1>1, <2>1 DEF Flows
<1> QED
  BY <1>2, <1>3

LEMMA WriteFlows ==
    ASSUME CauseSaysSlot PROVE \A rd, v : Write(rd, v) => Flows
BY AdvanceFlows DEF Write, system

LEMMA SetHiLoFlows ==
    ASSUME CauseSaysSlot PROVE \A h, l : SetHiLo(h, l) => Flows
BY AdvanceFlows DEF SetHiLo, system

LEMMA LoadFlows ==
    ASSUME CauseSaysSlot PROVE \A rt, v, w : Load(rt, v, w) => Flows
BY AdvanceFlows DEF Load, system

LEMMA StoreFlows ==
    ASSUME CauseSaysSlot PROVE \A a, n, w, m : Store(a, n, w, m) => Flows
BY AdvanceFlows DEF Store, system

LEMMA JumpFlows ==
    ASSUME CauseSaysSlot PROVE \A f, link : \A t \in Words : Jump(f, t, link) => Flows
BY AdvanceFlows DEF Jump, system

LEMMA SystemFlows ==
    ASSUME CauseSaysSlot, NEW s, NEW c, "branch_delay" \in DOMAIN c, WriteSystem(s, c)
    PROVE  Flows
BY DEF WriteSystem, Continue, Advance, Flows, Proceeds, CauseSaysSlot

(* The target of a branch is a word. *)
LEMMA TargetIsWord ==
    ASSUME WordAssumption, next_pc \in Words, NEW offset \in Halfwords
    PROVE  Wrap(next_pc + 4 * Signed(offset, HALF)) \in Words
<1>1. HALF \in Nat /\ offset \in 0 .. HALF - 1 /\ next_pc \in Int
  BY Widths DEF Halfwords, Words
<1> HIDE DEF HALF
<1>2. Signed(offset, HALF) \in Int
  BY <1>1 DEF Signed
<1> QED
  BY <1>1, <1>2, Wrapping

-----------------------------------------------------------------------------
(* Every instruction is one of the four. *)
LEMMA StepFlows ==
    ASSUME WordAssumption, RegistersAreWords, next_pc \in Words, CauseSaysSlot, CpuNext
    PROVE  Flows
<1>1. CASE FetchError \/ TakeInterrupt
  BY <1>1, ExceptionFlows DEF FetchError, TakeInterrupt
<1>2. ASSUME NEW code, SyscallOrBreak(code) PROVE Flows
  BY <1>2, ExceptionFlows DEF SyscallOrBreak
<1>3. ASSUME NEW rs, NEW rt, NEW rd, Compute(rs, rt, rd) PROVE Flows
  BY <1>3, WriteFlows DEF Compute
<1>4. ASSUME NEW rs, NEW rt, NEW rd, Trap(rs, rt, rd) PROVE Flows
  BY <1>4, WriteFlows, ExceptionFlows DEF Trap
<1>5. ASSUME NEW rs, NEW rt, MultiplyDivide(rs, rt) PROVE Flows
  BY <1>5, SetHiLoFlows DEF MultiplyDivide, Div, Mult
<1>6. ASSUME NEW rd, MoveFromHiLo(rd) PROVE Flows
  BY <1>6, WriteFlows DEF MoveFromHiLo
<1>7. ASSUME NEW rs, NEW rt, NEW imm, LoadAligned(rs, rt, imm) PROVE Flows
  BY <1>7, LoadFlows, ExceptionFlows DEF LoadAligned
<1>8. ASSUME NEW rs, NEW rt, NEW imm, LoadWordLeft(rs, rt, imm) \/ LoadWordRight(rs, rt, imm)
      PROVE  Flows
  BY <1>8, LoadFlows DEF LoadWordLeft, LoadWordRight
<1>9. ASSUME NEW rs, NEW rt, NEW imm, StoreAligned(rs, rt, imm) PROVE Flows
  BY <1>9, StoreFlows, ExceptionFlows DEF StoreAligned
<1>10. ASSUME NEW rs, NEW rt, NEW imm, StoreWordLeft(rs, rt, imm) \/ StoreWordRight(rs, rt, imm)
       PROVE  Flows
  BY <1>10, StoreFlows DEF StoreWordLeft, StoreWordRight
<1>11. ASSUME NEW rs, NEW rt, NEW offset \in Halfwords, Branch(rs, rt, offset) PROVE Flows
  <2>1. PICK taken : IF taken THEN Jump(File, Wrap(next_pc + 4 * Signed(offset, HALF)), 0)
                     ELSE Continue(File) /\ UNCHANGED system
    BY <1>11 DEF Branch
  <2> QED
    BY <2>1, TargetIsWord, JumpFlows, AdvanceFlows DEF system
<1>12. ASSUME NEW rs, NEW offset \in Halfwords, BranchAndLink(rs, offset) PROVE Flows
  <2>1. PICK taken : IF taken
                     THEN Jump(Linked(LINK), Wrap(next_pc + 4 * Signed(offset, HALF)), LINK)
                     ELSE Write(LINK, Wrap(next_pc + 4))
    BY <1>12 DEF BranchAndLink
  <2> QED
    BY <2>1, TargetIsWord, JumpFlows, WriteFlows
<1>13. CASE JumpAbsolute
  BY <1>13, JumpFlows DEF JumpAbsolute
<1>14. ASSUME NEW rs \in Registers, NEW rd, JumpRegister(rs, rd) PROVE Flows
  <2>1. gpr[rs] \in Words
    BY DEF RegistersAreWords
  <2> QED
    BY <1>14, <2>1, JumpFlows DEF JumpRegister
<1>15. ASSUME NEW software, NEW delay, NEW code, WriteCause(software, delay, code) PROVE Flows
  <2> DEFINE c == [branch_delay |-> delay, software |-> software, code |-> code]
  <2>1. "branch_delay" \in DOMAIN c /\ WriteSystem(status, c)
    BY <1>15 DEF WriteCause
  <2> QED
    BY <2>1, SystemFlows
<1>16. CASE WriteStatus
  BY <1>16, SystemFlows DEF WriteStatus, CauseSaysSlot
<1>17. CASE RestoreFromException
  BY <1>17, SystemFlows DEF RestoreFromException, CauseSaysSlot
<1>18. ASSUME NEW rt, MoveFromCoprocessor(rt) PROVE Flows
  BY <1>18, LoadFlows DEF MoveFromCoprocessor
<1>19. ASSUME NEW target \in Words, NEW set, NEW content, Sideload(target, set, content)
       PROVE  Flows
  BY <1>19 DEF Sideload, Flows, Starts, CauseSaysSlot, system
<1> QED
  BY <1>1, <1>2, <1>3, <1>4, <1>5, <1>6, <1>7, <1>8, <1>9, <1>10, <1>11, <1>12, <1>13,
     <1>14, <1>15, <1>16, <1>17, <1>18, <1>19, Zenon DEF CpuNext

LEMMA FlowInitially == ASSUME WordAssumption, CpuInit PROVE FlowInv
<1>1. RESET_VECTOR \in Words /\ RESET_VECTOR + 4 \in Int
  BY Widths DEF WordAssumption, Words
<1>2. Wrap(RESET_VECTOR + 4) \in Words
  BY <1>1, Wrapping
<1> QED
  BY <1>1, <1>2 DEF CpuInit, FlowInv, CauseSaysSlot

LEMMA FlowStep ==
    ASSUME WordAssumption, RegistersAreWords, FlowInv, [CpuNext]_cpuVars
    PROVE  FlowInv'
<1>1. CASE UNCHANGED cpuVars
  BY <1>1 DEF cpuVars, flow, system, FlowInv, CauseSaysSlot, Wrap
<1>2. CASE CpuNext
  <2>1. Flows /\ CauseSaysSlot'
    BY <1>2, StepFlows DEF FlowInv, Flows
  <2>2. \A w \in Words : Wrap(w + 4) \in Words
    <3> TAKE w \in Words
    <3>1. w + 4 \in Int
      BY Widths DEF Words
    <3> QED
      BY <3>1, Wrapping
  <2>3. CASE TakesException
    <3>1. pc' \in Words
      BY <2>3 DEF TakesException, WordAssumption
    <3> QED
      BY <2>1, <2>2, <2>3, <3>1 DEF TakesException, FlowInv, Wrap
  <2>4. CASE Proceeds
    BY <2>1, <2>2, <2>4 DEF Proceeds, FlowInv, Wrap
  <2>5. CASE Jumps
    <3>1. in_delay_slot' /\ branch'.at = pc /\ branch'.target = next_pc'
          /\ pc' = next_pc /\ next_pc' \in Words
      BY <2>5 DEF Jumps
    <3>2. doubled' \/ pc' = Wrap(branch'.at + 4)
      BY <2>5, <3>1 DEF Jumps, FlowInv
    <3> QED
      BY <2>1, <2>5, <3>1, <3>2 DEF Jumps, FlowInv, Wrap
  <2>6. CASE Starts
    BY <2>1, <2>2, <2>6 DEF Starts, FlowInv, Wrap
  <2> QED
    BY <2>1, <2>3, <2>4, <2>5, <2>6 DEF Flows
<1> QED
  BY <1>1, <1>2

-----------------------------------------------------------------------------
(***************************************************************************)
(* The processor: registers and memory.                                    *)
(***************************************************************************)

(* Register 0 is never loaded, and is zero.  What is read of a register with *)
(* the load in flight is what the instructions have left in it.              *)
RegistersHold ==
    /\ gpr \in [Registers -> Words] /\ gpr[0] = 0
    /\ delayed_load \in [reg : Registers, value : Words]
    /\ delayed_load.reg = 0 => delayed_load.value = 0
    /\ latest \in [Registers -> Words]
    /\ \A r \in Registers : ReadInFlight(r) = latest[r]

SystemHolds == hi \in Words /\ lo \in Words /\ epc \in Words

MemoryHolds == memory \in [Words -> ByteValues] /\ stored = memory

WordsInv == RegistersHold /\ SystemHolds /\ MemoryHolds

LEMMA ZeroFacts ==
    ASSUME WordAssumption
    PROVE  0 \in Registers /\ 0 \in Words /\ NoLoad \in [reg : Registers, value : Words]
<1>1. 0 \in Words
  BY Widths DEF Words
<1> QED
  BY <1>1 DEF WordAssumption, NoLoad

(* The register file after an instruction that writes v to register r, now   *)
(* or with a delay, or nothing if r is 0.                                    *)
LEMMA Landed ==
    ASSUME WordAssumption, RegistersHold, NEW r \in Registers, NEW v \in Words, NEW f,
           \/ f = File /\ r = 0
           \/ f = WriteGpr(File, r, v)
           \/ f = WriteGprDelayed(File, r, v),
           ProcessDelayedLoads(f),
           latest' = IF r = 0 THEN latest ELSE [latest EXCEPT ![r] = v]
    PROVE  RegistersHold'
<1> DEFINE load == delayed_load
           kept == IF load.reg = r THEN NoLoad ELSE load
<1>1. /\ 0 \in Registers /\ 0 \in Words /\ NoLoad.reg = 0 /\ NoLoad.value = 0
      /\ NoLoad \in [reg : Registers, value : Words]
  BY ZeroFacts DEF NoLoad
<1>2. /\ gpr \in [Registers -> Words] /\ gpr[0] = 0
      /\ load.reg \in Registers /\ load.value \in Words /\ load \in [reg : Registers, value : Words]
      /\ load.reg = 0 => load.value = 0
      /\ latest \in [Registers -> Words]
      /\ \A q \in Registers : latest[q] = IF load.reg = q THEN load.value ELSE gpr[q]
  BY DEF RegistersHold, ReadInFlight
<1>3. latest' \in [Registers -> Words]
  BY <1>2
<1>4. File.gpr = gpr /\ File.load = load /\ File.next = NoLoad
  BY DEF File
<1>5. CASE f = File /\ r = 0
  <2>1. /\ gpr' = [gpr EXCEPT ![load.reg] = IF load.reg = 0 THEN gpr[load.reg] ELSE load.value]
        /\ delayed_load' = NoLoad
    BY <1>4, <1>5 DEF ProcessDelayedLoads
  <2>2. gpr' \in [Registers -> Words] /\ \A q \in Registers : gpr'[q] = latest[q]
    BY <1>2, <2>1
  <2>3. \A q \in Registers : ReadInFlight(q)' = latest'[q]
    BY <1>1, <1>2, <1>5, <2>1, <2>2 DEF ReadInFlight
  <2> QED
    BY <1>1, <1>2, <1>3, <2>1, <2>2, <2>3 DEF RegistersHold
<1>6. CASE f = WriteGpr(File, r, v) /\ r # 0
  <2>1. f.gpr = [gpr EXCEPT ![r] = v] /\ f.load = kept /\ f.next = NoLoad
    BY <1>2, <1>4, <1>6 DEF WriteGpr, Cancel, File
  <2>2. kept.reg \in Registers /\ kept.value \in Words /\ (kept.reg = 0 => kept.value = 0) /\ kept.reg # r
    BY <1>1, <1>2, <1>6
  <2>3. delayed_load' = NoLoad
    BY <2>1 DEF ProcessDelayedLoads
  <2>4. gpr' = [f.gpr EXCEPT ![kept.reg] = IF kept.reg = 0 THEN f.gpr[kept.reg] ELSE kept.value]
    BY <2>1 DEF ProcessDelayedLoads
  <2>5. \A q \in Registers : q # r => latest[q] = IF kept.reg = q THEN kept.value ELSE gpr[q]
    BY <1>1, <1>2
  <2> HIDE DEF kept
  <2>6. gpr' \in [Registers -> Words] /\ \A q \in Registers : gpr'[q] = latest'[q]
    <3>1. f.gpr \in [Registers -> Words]
      BY <1>2, <2>1
    <3>2. gpr' \in [Registers -> Words]
      BY <2>2, <2>4, <3>1
    <3>3. gpr'[r] = v /\ latest'[r] = v
      BY <1>2, <1>6, <2>1, <2>2, <2>4, <3>1
    <3>4. ASSUME NEW q \in Registers, q # r
          PROVE  gpr'[q] = latest'[q]
      <4>1. latest'[q] = latest[q] /\ f.gpr[q] = gpr[q]
        BY <1>2, <2>1, <3>4
      <4>2. gpr'[q] = IF kept.reg = q THEN (IF q = 0 THEN gpr[q] ELSE kept.value) ELSE gpr[q]
        BY <2>2, <2>4, <3>1, <4>1
      <4> QED
        BY <1>2, <2>2, <2>5, <3>4, <4>1, <4>2
    <3> QED
      BY <3>2, <3>3, <3>4
  <2>7. latest'[0] = 0
    BY <1>1, <1>2, <1>6
  <2>8. \A q \in Registers : ReadInFlight(q)' = latest'[q]
    BY <1>1, <2>3, <2>6, <2>7 DEF ReadInFlight
  <2> QED
    BY <1>1, <1>3, <2>3, <2>6, <2>7, <2>8 DEF RegistersHold
<1>7. CASE f = WriteGprDelayed(File, r, v) /\ r # 0
  <2>1. f.gpr = gpr /\ f.load = kept /\ f.next = [reg |-> r, value |-> v]
    BY <1>2, <1>4, <1>7 DEF WriteGprDelayed, Cancel, File
  <2>2. kept.reg \in Registers /\ kept.value \in Words /\ (kept.reg = 0 => kept.value = 0) /\ kept.reg # r
    BY <1>1, <1>2, <1>7
  <2>3. delayed_load' = [reg |-> r, value |-> v]
    BY <2>1 DEF ProcessDelayedLoads
  <2>4. gpr' = [gpr EXCEPT ![kept.reg] = IF kept.reg = 0 THEN gpr[kept.reg] ELSE kept.value]
    BY <2>1 DEF ProcessDelayedLoads
  <2>5. \A q \in Registers : q # r => latest[q] = IF kept.reg = q THEN kept.value ELSE gpr[q]
    BY <1>1, <1>2
  <2> HIDE DEF kept
  <2>6. gpr' \in [Registers -> Words]
    BY <1>2, <2>2, <2>4
  <2>7. ASSUME NEW q \in Registers, q # r
        PROVE  gpr'[q] = latest'[q]
    <3>1. latest'[q] = latest[q]
      BY <1>2, <2>7
    <3>2. gpr'[q] = IF kept.reg = q THEN (IF q = 0 THEN gpr[q] ELSE kept.value) ELSE gpr[q]
      BY <1>2, <2>2, <2>4
    <3> QED
      BY <1>2, <2>2, <2>5, <2>7, <3>1, <3>2
  <2>8. latest'[r] = v /\ latest'[0] = 0
    BY <1>1, <1>2, <1>7
  <2>9. \A q \in Registers : ReadInFlight(q)' = latest'[q]
    BY <2>3, <2>7, <2>8 DEF ReadInFlight
  <2>10. gpr'[0] = 0
    BY <1>1, <1>7, <2>7, <2>8
  <2> QED
    BY <1>3, <1>7, <2>3, <2>6, <2>9, <2>10 DEF RegistersHold
<1>8. r = 0 => WriteGpr(File, r, v) = File /\ WriteGprDelayed(File, r, v) = File
  BY DEF WriteGpr, WriteGprDelayed
<1> QED
  BY <1>5, <1>6, <1>7, <1>8

LEMMA NothingLanded ==
    ASSUME WordAssumption, RegistersHold, ProcessDelayedLoads(File), latest' = latest
    PROVE  RegistersHold'
BY Landed, ZeroFacts

LEMMA ExceptionHolds ==
    ASSUME WordAssumption, WordsInv, pc \in Words, NEW code, HandleException(code)
    PROVE  WordsInv'
<1>1. RegistersHold'
  BY NothingLanded DEF HandleException, WordsInv
<1>2. epc' \in Words
  <2>1. pc - 4 \in Int
    BY Widths DEF Words
  <2> QED
    BY <2>1, Wrapping DEF HandleException
<1> QED
  BY <1>1, <1>2 DEF HandleException, WordsInv, SystemHolds, MemoryHolds

LEMMA WriteHolds ==
    ASSUME WordAssumption, WordsInv, NEW rd \in Registers, NEW v \in Words, Write(rd, v)
    PROVE  WordsInv'
<1>1. RegistersHold'
  BY Landed DEF Write, Continue, Advance, WordsInv
<1> QED
  BY <1>1 DEF Write, WordsInv, SystemHolds, MemoryHolds, system

LEMMA SetHiLoHolds ==
    ASSUME WordAssumption, WordsInv, NEW h \in Words, NEW l \in Words, SetHiLo(h, l)
    PROVE  WordsInv'
<1>1. RegistersHold'
  BY NothingLanded DEF SetHiLo, Continue, Advance, WordsInv
<1> QED
  BY <1>1 DEF SetHiLo, WordsInv, SystemHolds, MemoryHolds, system

LEMMA LoadHolds ==
    ASSUME WordAssumption, WordsInv, NEW rt \in Registers, NEW v \in Words, Load(rt, v, v)
    PROVE  WordsInv'
<1>1. RegistersHold'
  BY Landed DEF Load, Continue, Advance, WordsInv
<1> QED
  BY <1>1 DEF Load, WordsInv, SystemHolds, MemoryHolds, system

LEMMA StoreHolds ==
    ASSUME WordAssumption, WordsInv, NEW a, NEW n, NEW w, NEW m \in [Words -> ByteValues],
           m = WriteBytes(memory, a, n, w), Store(a, n, w, m)
    PROVE  WordsInv'
<1>1. RegistersHold'
  BY NothingLanded DEF Store, Continue, Advance, WordsInv
<1> QED
  BY <1>1 DEF Store, WordsInv, SystemHolds, MemoryHolds, system

LEMMA JumpHolds ==
    ASSUME WordAssumption, WordsInv, next_pc \in Words, NEW target, NEW r \in Registers,
           \/ Jump(File, target, 0)
           \/ Jump(Linked(r), target, r)
    PROVE  WordsInv'
<1>1. Wrap(next_pc + 4) \in Words
  <2>1. next_pc + 4 \in Int
    BY Widths DEF Words
  <2> QED
    BY <2>1, Wrapping
<1>2. CASE Jump(File, target, 0)
  <2>1. RegistersHold'
    BY <1>2, NothingLanded DEF Jump, Advance, WordsInv
  <2> QED
    BY <1>2, <2>1 DEF Jump, WordsInv, SystemHolds, MemoryHolds, system
<1>3. CASE Jump(Linked(r), target, r)
  <2>1. r # 0 => Linked(r).gpr[r] = Wrap(next_pc + 4)
    BY DEF Linked, WriteGpr, File, WordsInv, RegistersHold
  <2>2. /\ ProcessDelayedLoads(WriteGpr(File, r, Wrap(next_pc + 4)))
        /\ latest' = IF r = 0 THEN latest ELSE [latest EXCEPT ![r] = Wrap(next_pc + 4)]
    BY <1>3, <2>1 DEF Jump, Advance, Linked
  <2>3. RegistersHold'
    BY <1>1, <2>2, Landed DEF WordsInv
  <2> QED
    BY <1>3, <2>3 DEF Jump, WordsInv, SystemHolds, MemoryHolds, system
<1> QED
  BY <1>2, <1>3

LEMMA SystemStepHolds ==
    ASSUME WordAssumption, WordsInv, NEW s, NEW c, WriteSystem(s, c)
    PROVE  WordsInv'
<1>1. RegistersHold'
  BY NothingLanded DEF WriteSystem, Continue, Advance, WordsInv
<1> QED
  BY <1>1 DEF WriteSystem, WordsInv, SystemHolds, MemoryHolds

-----------------------------------------------------------------------------
(* Memory. *)

LEMMA AddressIsWord ==
    ASSUME WordAssumption, WordsInv, NEW rs \in Registers, NEW imm \in Halfwords
    PROVE  Address(rs, imm) \in Words
<1>1. gpr[rs] \in Int /\ Extend(imm) \in Int
  <2>1. WORD \in Nat /\ HALF \in Nat /\ imm \in Int
    BY Widths DEF Halfwords
  <2>2. Extend(imm) \in Words
    BY <2>1, SignedIsInt, Wrapping DEF Extend
  <2>3. gpr[rs] \in Words
    BY DEF WordsInv, RegistersHold
  <2> HIDE DEF WORD
  <2> QED
    BY <2>1, <2>2, <2>3 DEF Words
<1> QED
  BY <1>1, Wrapping DEF Address

(* An aligned word lies in memory as a whole. *)
LEMMA WordAlignment ==
    ASSUME WordAssumption, NEW a \in Words
    PROVE  /\ a % 4 \in 0 .. 3 /\ a \in Nat /\ Aligned(a) \in Nat
           /\ a = Aligned(a) + (a % 4)
           /\ \A i \in 0 .. 3 : Aligned(a) + i \in Words
           /\ \A size \in {1, 2, 4} : a % size = 0 => \A i \in 0 .. size - 1 : a + i \in Words
<1>1. PICK m \in Nat : WORD = 4 * m
  BY Widths
<1>2. a \in Nat /\ a < 4 * m
  BY <1>1, Widths DEF Words
<1>3. /\ a % 4 \in 0 .. 3 /\ Aligned(a) \in Nat /\ a = Aligned(a) + (a % 4)
      /\ Aligned(a) + 3 < 4 * m
  BY <1>2, Z3 DEF Aligned
<1>4. a % 2 = 0 => a + 1 < 4 * m
  BY <1>2, Z3
<1>5. a % 4 = 0 => Aligned(a) = a
  BY <1>2, <1>3
<1> HIDE DEF WORD, Aligned
<1>6. \A i \in 0 .. 3 : Aligned(a) + i \in Words
  BY <1>1, <1>3 DEF Words
<1>7. ASSUME NEW size \in {1, 2, 4}, a % size = 0, NEW i \in 0 .. size - 1
      PROVE  a + i \in Words
  <2>1. CASE size = 1
    <3>1. i = 0 /\ a + 0 = a
      BY <1>2, <1>7, <2>1
    <3> QED
      BY <3>1
  <2>2. CASE size = 2
    BY <2>2, <1>1, <1>2, <1>4, <1>7 DEF Words
  <2>3. CASE size = 4
    BY <2>3, <1>5, <1>6, <1>7
  <2> QED
    BY <2>1, <2>2, <2>3
<1> QED
  BY <1>2, <1>3, <1>6, <1>7

LEMMA Bytes4 ==
    ASSUME WordAssumption, MemoryHolds, NEW a \in Nat, NEW n \in 0 .. 4,
           \A i \in 0 .. n - 1 : a + i \in Words
    PROVE  /\ [i \in 0 .. 3 |-> IF i < n THEN memory[a + i] ELSE 0] \in FourBytes
           /\ Read(a, n) \in Words
<1>1. 0 \in ByteValues
  BY Widths DEF ByteValues
<1>2. [i \in 0 .. 3 |-> IF i < n THEN memory[a + i] ELSE 0] \in FourBytes
  BY <1>1 DEF FourBytes, MemoryHolds
<1> QED
  BY <1>2, Split DEF Read

LEMMA ReadAligned ==
    ASSUME WordAssumption, MemoryHolds, NEW a \in Words
    PROVE  \E m \in FourBytes : /\ Read(Aligned(a), 4) = Compose(m)
                             /\ \A i \in 0 .. 3 : m[i] = memory[Aligned(a) + i]
<1> DEFINE m == [i \in 0 .. 3 |-> IF i < 4 THEN memory[Aligned(a) + i] ELSE 0]
<1>1. m \in FourBytes
  <2>1. PICK b \in Nat : b = Aligned(a) /\ \A i \in 0 .. 3 : b + i \in Words
    BY WordAlignment
  <2>2. 4 \in 0 .. 4 /\ \A i \in 0 .. 4 - 1 : b + i \in Words
    BY <2>1
  <2>3. [i \in 0 .. 3 |-> IF i < 4 THEN memory[b + i] ELSE 0] \in FourBytes
    BY <2>2, Bytes4
  <2> QED
    BY <2>1, <2>3
<1>2. \A i \in 0 .. 3 : m[i] = memory[Aligned(a) + i]
  OBVIOUS
<1>3. Read(Aligned(a), 4) = Compose(m)
  BY DEF Read
<1> QED
  BY <1>1, <1>2, <1>3

LEMMA WrittenByte ==
    ASSUME WordAssumption, NEW m \in [Words -> ByteValues], NEW a \in Nat, NEW n \in Nat, n <= 4,
           NEW x \in FourBytes, NEW b \in Words
    PROVE  /\ WriteBytes(m, a, n, Compose(x))[b] = IF b \in a .. a + n - 1 THEN x[b - a] ELSE m[b]
           /\ WriteBytes(m, a, n, Compose(x))[b] \in ByteValues
<1>1. \A i \in 0 .. 3 : ByteOf(Compose(x), i) = x[i] /\ x[i] \in ByteValues
  BY BytesOf DEF FourBytes
<1>2. b \in Int
  BY DEF Words
<1>3. b \in a .. a + n - 1 => b - a \in 0 .. 3
  BY <1>2
<1> QED
  BY <1>1, <1>3 DEF WriteBytes

LEMMA WrittenMemory ==
    ASSUME WordAssumption, NEW m \in [Words -> ByteValues], NEW a \in Nat, NEW n \in Nat, n <= 4,
           NEW w \in Words
    PROVE  WriteBytes(m, a, n, w) \in [Words -> ByteValues]
<1>1. PICK x \in FourBytes : w = Compose(x)
  BY WordBytes
<1>2. \A b \in Words : WriteBytes(m, a, n, w)[b] \in ByteValues
  BY <1>1, WrittenByte
<1> QED
  BY <1>2 DEF WriteBytes

-----------------------------------------------------------------------------
(* What LWL and LWR merge is, byte by byte, the register and memory.         *)
LEMMA MergedLeft ==
    ASSUME WordAssumption, MemoryHolds, NEW a \in Words, NEW old \in Words
    PROVE  LET unit == Unit(3 - (a % 4))
               value == Compose([i \in 0 .. 3 |-> IF i < 3 - (a % 4) THEN ByteOf(old, i)
                                                  ELSE stored[a + i - 3]])
           IN  Wrap(Read(Aligned(a), 4) * unit) + (old % unit) = value /\ value \in Words
<1> DEFINE k == 3 - (a % 4)
           z == [i \in 0 .. 3 |-> IF i < k THEN ByteOf(old, i) ELSE stored[a + i - 3]]
<1>1. k \in 0 .. 3 /\ k \in 0 .. 4 /\ a = Aligned(a) + 3 - k /\ Aligned(a) \in Nat
  BY WordAlignment
<1>2. PICK o \in FourBytes : old = Compose(o)
  BY WordBytes
<1>3. PICK m \in FourBytes : /\ Read(Aligned(a), 4) = Compose(m)
                          /\ \A i \in 0 .. 3 : m[i] = memory[Aligned(a) + i]
  BY ReadAligned
<1>4. \A i \in 0 .. 3 : ByteOf(old, i) = o[i]
  BY <1>2, BytesOf
<1> HIDE DEF k
<1>5. \A i \in 0 .. 3 : z[i] = IF i < k THEN o[i] ELSE m[i - k]
  <2>1. \A i \in 0 .. 3 : i >= k => i - k \in 0 .. 3 /\ a + i - 3 = Aligned(a) + (i - k)
    BY <1>1
  <2>2. \A i \in 0 .. 3 : i >= k => stored[a + i - 3] = m[i - k]
    BY <1>3, <2>1 DEF MemoryHolds
  <2> QED
    BY <1>1, <1>4, <2>2
<1>6. z \in FourBytes
  <2>1. \A i \in 0 .. 3 : z[i] \in ByteValues
    <3> HIDE DEF z
    <3> QED
      BY <1>1, <1>5 DEF FourBytes
  <2> QED
    BY <2>1 DEF FourBytes
<1>7. /\ Wrap(Compose(m) * Unit(k)) = Compose(Lifted(m, k)) /\ Lifted(m, k) \in FourBytes
      /\ Compose(o) % Unit(k) = Compose(Low(o, k)) /\ Low(o, k) \in FourBytes
  BY <1>1, BytePlaces, Divided
<1>8. \A i \in 0 .. 3 : z[i] = Lifted(m, k)[i] + Low(o, k)[i]
  <2>1. \A i \in 0 .. 3 : o[i] \in Nat /\ m[i] \in Nat
    BY Split
  <2> HIDE DEF z
  <2> QED
    BY <1>1, <1>5, <2>1 DEF Lifted, Low
<1> HIDE DEF z
<1>9. Compose(z) = Compose(Lifted(m, k)) + Compose(Low(o, k)) /\ Compose(z) \in Words
  BY <1>6, <1>7, <1>8, Sums, Split
<1>10. Wrap(Read(Aligned(a), 4) * Unit(k)) + (old % Unit(k)) = Compose(z)
  BY <1>2, <1>3, <1>7, <1>9
<1> QED
  BY <1>9, <1>10 DEF k, z

LEMMA MergedRight ==
    ASSUME WordAssumption, MemoryHolds, NEW a \in Words, NEW old \in Words
    PROVE  LET unit == Unit(a % 4)
               value == Compose([i \in 0 .. 3 |-> IF i > 3 - (a % 4) THEN ByteOf(old, i)
                                                  ELSE stored[a + i]])
           IN  /\ (Read(Aligned(a), 4) \div unit) + (old - (old % (WORD \div unit))) = value
               /\ value \in Words
<1> DEFINE k == a % 4
           z == [i \in 0 .. 3 |-> IF i > 3 - k THEN ByteOf(old, i) ELSE stored[a + i]]
<1>1. k \in 0 .. 3 /\ k \in 0 .. 4 /\ a = Aligned(a) + k /\ Aligned(a) \in Nat
  BY WordAlignment
<1>2. PICK o \in FourBytes : old = Compose(o)
  BY WordBytes
<1>3. PICK m \in FourBytes : /\ Read(Aligned(a), 4) = Compose(m)
                          /\ \A i \in 0 .. 3 : m[i] = memory[Aligned(a) + i]
  BY ReadAligned
<1>4. \A i \in 0 .. 3 : ByteOf(old, i) = o[i]
  BY <1>2, BytesOf
<1> HIDE DEF k
<1>5. \A i \in 0 .. 3 : z[i] = IF i > 3 - k THEN o[i] ELSE m[i + k]
  <2>1. \A i \in 0 .. 3 : i <= 3 - k => i + k \in 0 .. 3 /\ a + i = Aligned(a) + (i + k)
    BY <1>1
  <2>2. \A i \in 0 .. 3 : i <= 3 - k => stored[a + i] = m[i + k]
    BY <1>3, <2>1 DEF MemoryHolds
  <2> QED
    BY <1>1, <1>4, <2>2
<1>6. z \in FourBytes
  <2>1. \A i \in 0 .. 3 : z[i] \in ByteValues
    <3> HIDE DEF z
    <3> QED
      BY <1>1, <1>5 DEF FourBytes
  <2> QED
    BY <2>1 DEF FourBytes
<1>7. 4 - k \in 0 .. 4
  BY <1>1
<1>8. /\ Compose(m) \div Unit(k) = Compose(High(m, k)) /\ High(m, k) \in FourBytes
      /\ WORD \div Unit(k) = Unit(4 - k)
      /\ Compose(o) - (Compose(o) % Unit(4 - k)) = Compose(Top(o, 4 - k)) /\ Top(o, 4 - k) \in FourBytes
  BY <1>1, <1>7, BytePlaces, Divided
<1>9. \A i \in 0 .. 3 : z[i] = High(m, k)[i] + Top(o, 4 - k)[i]
  <2>1. \A i \in 0 .. 3 : o[i] \in Nat /\ m[i] \in Nat
    BY Split
  <2> HIDE DEF z
  <2> QED
    BY <1>1, <1>5, <2>1 DEF High, Top
<1> HIDE DEF z
<1>10. Compose(z) = Compose(High(m, k)) + Compose(Top(o, 4 - k)) /\ Compose(z) \in Words
  BY <1>6, <1>8, <1>9, Sums, Split
<1>11. (Read(Aligned(a), 4) \div Unit(k)) + (old - (old % (WORD \div Unit(k)))) = Compose(z)
  BY <1>2, <1>3, <1>8, <1>10
<1> QED
  BY <1>10, <1>11 DEF k, z

LEMMA SameFunction ==
    ASSUME NEW D, NEW R, NEW g \in [D -> R], NEW h \in [D -> R], \A x \in D : g[x] = h[x]
    PROVE  g = h
OBVIOUS

(* SWL and SWR write the whole word around the bytes they change.            *)
LEMMA StoredLeft ==
    ASSUME WordAssumption, MemoryHolds, NEW a \in Words, NEW g \in Words
    PROVE  LET n == (a % 4) + 1
               unit == Unit(4 - n)
               word == Read(Aligned(a), 4)
               kept == word - (word % (WORD \div unit))
               m == WriteBytes(stored, Aligned(a), n, g \div unit)
           IN  /\ WriteBytes(memory, Aligned(a), 4, (g \div unit) + kept) = m
               /\ m \in [Words -> ByteValues]
<1> DEFINE n == (a % 4) + 1
<1>1. PICK A \in Nat : A = Aligned(a)
  BY WordAlignment
<1>2. n \in 1 .. 4 /\ n \in 0 .. 4 /\ 4 - n \in 0 .. 4 /\ 4 - (4 - n) = n
  BY WordAlignment
<1> HIDE DEF n
<1>3. PICK x \in FourBytes : g = Compose(x)
  BY WordBytes
<1>4. PICK m \in FourBytes : Read(A, 4) = Compose(m) /\ \A i \in 0 .. 3 : m[i] = memory[A + i]
  BY <1>1, ReadAligned
<1> DEFINE z == [i \in 0 .. 3 |-> IF i < n THEN x[i + 4 - n] ELSE m[i]]
           h == High(x, 4 - n)
           t == Top(m, n)
<1>5. /\ Compose(x) \div Unit(4 - n) = Compose(h) /\ h \in FourBytes
      /\ WORD \div Unit(4 - n) = Unit(n)
      /\ Compose(m) - (Compose(m) % Unit(n)) = Compose(t) /\ t \in FourBytes
  BY <1>2, BytePlaces, Divided
<1>6. \A i \in 0 .. 3 : /\ i < n => i + 4 - n \in 0 .. 3 /\ i + (4 - n) <= 3 /\ i + (4 - n) = i + 4 - n
                        /\ i >= n => i + (4 - n) > 3
  BY <1>2
<1>7. \A i \in 0 .. 3 : x[i] \in ByteValues /\ m[i] \in ByteValues /\ x[i] \in Nat /\ m[i] \in Nat
  BY Split DEF FourBytes
<1>8. z \in FourBytes
  BY <1>6, <1>7 DEF FourBytes
<1>9. \A i \in 0 .. 3 : z[i] = h[i] + t[i] /\ (i < n => h[i] = z[i])
  BY <1>2, <1>6, <1>7 DEF High, Top
<1>10. \A i \in 0 .. 3 : i >= n => z[i] = memory[A + i]
  BY <1>2, <1>4
<1> HIDE DEF z, h, t
<1>11. Compose(z) = Compose(h) + Compose(t) /\ Compose(z) \in Words /\ Compose(h) \in Words
  BY <1>5, <1>8, <1>9, Sums, Split
<1> DEFINE left == WriteBytes(memory, A, 4, Compose(z))
           right == WriteBytes(memory, A, n, Compose(h))
<1>12. memory \in [Words -> ByteValues] /\ stored = memory
  BY DEF MemoryHolds
<1>13. /\ left \in [Words -> ByteValues]
       /\ \A b \in Words : left[b] = IF b \in A .. A + 4 - 1 THEN z[b - A] ELSE memory[b]
  <2>1. 4 \in 0 .. 4
    OBVIOUS
  <2>2. \A b \in Words : left[b] = IF b \in A .. A + 4 - 1 THEN z[b - A] ELSE memory[b]
    BY <1>8, <1>12, <2>1, WrittenByte
  <2> QED
    BY <1>11, <1>12, <2>1, <2>2, WrittenMemory
<1>14. /\ right \in [Words -> ByteValues]
       /\ \A b \in Words : right[b] = IF b \in A .. A + n - 1 THEN h[b - A] ELSE memory[b]
  <2>1. ASSUME NEW b \in Words
        PROVE  right[b] = IF b \in A .. A + n - 1 THEN h[b - A] ELSE memory[b]
    BY <1>2, <1>5, <1>12, WrittenByte
  <2> QED
    BY <1>2, <1>11, <1>12, <2>1, WrittenMemory
<1> HIDE DEF left, right
<1>15. ASSUME NEW b \in Words
       PROVE  left[b] = right[b]
  <2>1. b \in Int
    BY DEF Words
  <2>2. b \in A .. A + 3 => b - A \in 0 .. 3 /\ A + (b - A) = b
    BY <2>1
  <2>3. b \in A .. A + n - 1 <=> b \in A .. A + 3 /\ b - A < n
    BY <1>2, <2>1
  <2>4. CASE b \in A .. A + n - 1
    BY <1>9, <1>13, <1>14, <2>2, <2>3, <2>4
  <2>5. CASE b \in A .. A + 3 /\ ~(b \in A .. A + n - 1)
    <3>1. b - A >= n /\ z[b - A] = memory[b]
      BY <1>2, <1>10, <2>1, <2>2, <2>3, <2>5
    <3> QED
      BY <1>13, <1>14, <2>5, <3>1
  <2>6. CASE ~(b \in A .. A + 3)
    BY <1>13, <1>14, <2>3, <2>6
  <2> QED
    BY <2>4, <2>5, <2>6
<1>16. left = right
  BY <1>13, <1>14, <1>15, SameFunction
<1>17. (g \div Unit(4 - n)) + (Read(A, 4) - (Read(A, 4) % (WORD \div Unit(4 - n)))) = Compose(z)
  BY <1>3, <1>4, <1>5, <1>11
<1>18. g \div Unit(4 - n) = Compose(h)
  BY <1>3, <1>5
<1>19. /\ WriteBytes(memory, A, 4,
             (g \div Unit(4 - n)) + (Read(A, 4) - (Read(A, 4) % (WORD \div Unit(4 - n)))))
            = WriteBytes(stored, A, n, g \div Unit(4 - n))
       /\ WriteBytes(stored, A, n, g \div Unit(4 - n)) \in [Words -> ByteValues]
  BY <1>12, <1>14, <1>16, <1>17, <1>18 DEF left, right
<1> QED
  BY <1>1, <1>19 DEF n

LEMMA StoredRight ==
    ASSUME WordAssumption, MemoryHolds, NEW a \in Words, NEW g \in Words
    PROVE  LET unit == Unit(a % 4)
               kept == Read(Aligned(a), 4) % unit
               m == WriteBytes(stored, a, 4 - (a % 4), g)
           IN  /\ WriteBytes(memory, Aligned(a), 4, Wrap(g * unit) + kept) = m
               /\ m \in [Words -> ByteValues]
<1> DEFINE k == a % 4
<1>1. PICK A \in Nat : A = Aligned(a) /\ a = A + k /\ a \in Nat
  BY WordAlignment
<1>2. k \in 0 .. 3 /\ k \in 0 .. 4 /\ 4 - k \in 0 .. 4
  BY WordAlignment
<1> HIDE DEF k
<1>3. PICK x \in FourBytes : g = Compose(x)
  BY WordBytes
<1>4. PICK m \in FourBytes : Read(A, 4) = Compose(m) /\ \A i \in 0 .. 3 : m[i] = memory[A + i]
  BY <1>1, ReadAligned
<1> DEFINE z == [i \in 0 .. 3 |-> IF i < k THEN m[i] ELSE x[i - k]]
           h == Lifted(x, k)
           t == Low(m, k)
<1>5. /\ Wrap(Compose(x) * Unit(k)) = Compose(h) /\ h \in FourBytes
      /\ Compose(m) % Unit(k) = Compose(t) /\ t \in FourBytes
  BY <1>2, BytePlaces, Divided
<1>6. \A i \in 0 .. 3 : i >= k => i - k \in 0 .. 3
  BY <1>2
<1>7. \A i \in 0 .. 3 : x[i] \in ByteValues /\ m[i] \in ByteValues /\ x[i] \in Nat /\ m[i] \in Nat
  BY Split DEF FourBytes
<1>8. z \in FourBytes
  BY <1>2, <1>6, <1>7 DEF FourBytes
<1>9. \A i \in 0 .. 3 : z[i] = h[i] + t[i]
  BY <1>2, <1>6, <1>7 DEF Lifted, Low
<1>10. /\ \A i \in 0 .. 3 : i < k => z[i] = memory[A + i]
       /\ \A i \in 0 .. 3 : i >= k => z[i] = x[i - k]
  BY <1>2, <1>4
<1> HIDE DEF z, h, t
<1>11. Compose(z) = Compose(h) + Compose(t) /\ Compose(z) \in Words
  BY <1>5, <1>8, <1>9, Sums, Split
<1> DEFINE left == WriteBytes(memory, A, 4, Compose(z))
           right == WriteBytes(memory, a, 4 - k, g)
<1>12. memory \in [Words -> ByteValues] /\ stored = memory
  BY DEF MemoryHolds
<1>13. /\ left \in [Words -> ByteValues]
       /\ \A b \in Words : left[b] = IF b \in A .. A + 4 - 1 THEN z[b - A] ELSE memory[b]
  <2>1. 4 \in 0 .. 4
    OBVIOUS
  <2>2. \A b \in Words : left[b] = IF b \in A .. A + 4 - 1 THEN z[b - A] ELSE memory[b]
    BY <1>8, <1>12, <2>1, WrittenByte
  <2> QED
    BY <1>11, <1>12, <2>1, <2>2, WrittenMemory
<1>14. /\ right \in [Words -> ByteValues]
       /\ \A b \in Words : right[b] = IF b \in a .. a + (4 - k) - 1 THEN x[b - a] ELSE memory[b]
  <2>1. \A b \in Words : right[b] = IF b \in a .. a + (4 - k) - 1 THEN x[b - a] ELSE memory[b]
    <3>1. PICK n \in 0 .. 4 : n = 4 - k
      BY <1>2
    <3>2. right = WriteBytes(memory, a, n, Compose(x))
      BY <1>3, <3>1
    <3>0. n \in Nat /\ n <= 4
      OBVIOUS
    <3>3. ASSUME NEW b \in Words
          PROVE  WriteBytes(memory, a, n, Compose(x))[b] =
                     IF b \in a .. a + n - 1 THEN x[b - a] ELSE memory[b]
      BY <1>1, <1>12, <3>0, WrittenByte
    <3> HIDE DEF right
    <3> QED
      BY <3>1, <3>2, <3>3
  <2>2. 4 - k \in Nat /\ 4 - k <= 4
    BY <1>2
  <2>3. right \in [Words -> ByteValues]
    BY <1>1, <1>12, <2>2, WrittenMemory
  <2> QED
    BY <2>1, <2>3
<1> HIDE DEF left, right
<1>15. ASSUME NEW b \in Words
       PROVE  left[b] = right[b]
  <2>1. b \in Int
    BY DEF Words
  <2>2. b \in A .. A + 3 => b - A \in 0 .. 3 /\ A + (b - A) = b
    BY <2>1
  <2>3. /\ b \in a .. a + (4 - k) - 1 <=> b \in A .. A + 3 /\ b - A >= k
        /\ (b - A) - k = b - a
    BY <1>1, <1>2, <2>1
  <2>4. CASE b \in a .. a + (4 - k) - 1
    BY <1>10, <1>13, <1>14, <2>2, <2>3, <2>4
  <2>5. CASE b \in A .. A + 3 /\ ~(b \in a .. a + (4 - k) - 1)
    <3>1. b - A < k /\ z[b - A] = memory[b]
      BY <1>2, <1>10, <2>1, <2>2, <2>3, <2>5
    <3> QED
      BY <1>13, <1>14, <2>5, <3>1
  <2>6. CASE ~(b \in A .. A + 3)
    BY <1>13, <1>14, <2>3, <2>6
  <2> QED
    BY <2>4, <2>5, <2>6
<1>16. left = right
  BY <1>13, <1>14, <1>15, SameFunction
<1>17. Wrap(g * Unit(k)) + (Read(A, 4) % Unit(k)) = Compose(z)
  BY <1>3, <1>4, <1>5, <1>11
<1>18. /\ WriteBytes(memory, A, 4, Wrap(g * Unit(k)) + (Read(A, 4) % Unit(k)))
            = WriteBytes(stored, a, 4 - k, g)
       /\ WriteBytes(stored, a, 4 - k, g) \in [Words -> ByteValues]
  BY <1>12, <1>14, <1>16, <1>17 DEF left, right
<1> QED
  BY <1>1, <1>18 DEF k

-----------------------------------------------------------------------------
(* Every instruction. *)

LEMMA MachineWords ==
    ASSUME WordAssumption, WordsInv
    PROVE  /\ WORD \in Nat \ {0} /\ HALF \in Nat \ {0}
           /\ \A r \in Registers : gpr[r] \in Words /\ latest[r] \in Words /\ ReadInFlight(r) = latest[r]
           /\ \A w \in Words : w \in Int /\ w \in Nat
           /\ hi \in Words /\ lo \in Words /\ epc \in Words
           /\ Halfwords \subseteq Words /\ Halfwords \subseteq Nat
<1>1. /\ WORD \in Nat \ {0} /\ HALF \in Nat \ {0}
      /\ \A w \in Words : w \in Int /\ w \in Nat
      /\ Halfwords \subseteq Nat
  BY Widths DEF Words, Halfwords
<1>2. Halfwords \subseteq Words
  <2>1. 0 \in Words
    BY ZeroFacts
  <2> QED
    BY <2>1, Computed
<1> QED
  BY <1>1, <1>2 DEF WordsInv, RegistersHold, SystemHolds

LEMMA ComputeHolds ==
    ASSUME WordAssumption, WordsInv, NEW rs \in Registers, NEW rt \in Registers,
           NEW rd \in Registers, Compute(rs, rt, rd)
    PROVE  WordsInv'
<1>1. PICK a, b \in Words : a = gpr[rs] /\ b = gpr[rt]
  BY MachineWords
<1>2. ThreeRegisters(a, b) \subseteq Words
  <2>1. 0 \in Halfwords
    BY Widths DEF Halfwords
  <2> QED
    BY <2>1, Computed
<1>3. \A n \in 0 .. 4 * BITS - 1 : Shifts(b, n) \subseteq Words
  BY Shifted
<1>4. \A imm \in Halfwords : WithImmediate(a, imm) \subseteq Words
  BY Computed
<1>5. \E v \in Words : Write(rd, v)
  BY <1>1, <1>2, <1>3, <1>4 DEF Compute
<1> QED
  BY <1>5, WriteHolds

LEMMA TrapHolds ==
    ASSUME WordAssumption, WordsInv, pc \in Words, NEW rs \in Registers, NEW rt \in Registers,
           NEW rd \in Registers, Trap(rs, rt, rd)
    PROVE  WordsInv'
<1> DEFINE a == Signed(gpr[rs], WORD)
           b == Signed(gpr[rt], WORD)
<1>1. a \in Int /\ b \in Int /\ \A imm \in Halfwords : Signed(imm, HALF) \in Int
  <2>1. gpr[rs] \in Int /\ gpr[rt] \in Int /\ WORD \in Int /\ HALF \in Int /\ Halfwords \subseteq Int
    BY MachineWords
  <2> HIDE DEF WORD, HALF
  <2> QED
    BY <2>1, SignedIsInt
<1>2. PICK x \in {a + b, a - b} \cup {a + Signed(imm, HALF) : imm \in Halfwords} :
         IF Fits(x) THEN Write(rd, Wrap(x)) ELSE Executes /\ HandleException("ArithmeticOverflow")
  BY DEF Trap
<1>3. x \in Int
  <2> HIDE DEF a, b
  <2> QED
    BY <1>1, <1>2
<1>4. Wrap(x) \in Words
  BY <1>3, Wrapping
<1> QED
  BY <1>2, <1>4, WriteHolds, ExceptionHolds

LEMMA DivideHolds ==
    ASSUME WordAssumption, WordsInv, NEW a \in Int, NEW b \in Int, Div(a, b)
    PROVE  WordsInv'
<1> DEFINE q == Sign(a) * Sign(b) * (Magnitude(a) \div Magnitude(b))
<1>1. Wrap(a) \in Words /\ WORD - 1 \in Words /\ 0 \in Words /\ 1 \in Words
  BY Wrapping, Widths DEF Words
<1>2. CASE b = 0
  <2>1. SetHiLo(Wrap(a), IF a < 0 THEN 1 ELSE WORD - 1)
    BY <1>2 DEF Div
  <2> QED
    BY <1>1, <2>1, SetHiLoHolds
<1>3. CASE b # 0
  <2>1. Magnitude(a) \in Nat /\ Magnitude(b) \in Nat \ {0} /\ Sign(a) \in Int /\ Sign(b) \in Int
    BY <1>3 DEF Magnitude, Sign
  <2>2. Magnitude(a) \div Magnitude(b) \in Int
    BY <2>1, Dividing
  <2>3. q \in Int
    BY <2>1, <2>2
  <2> HIDE DEF q
  <2>4. a - q * b \in Int
    BY <2>3
  <2>5. Wrap(a - q * b) \in Words /\ Wrap(q) \in Words
    BY <2>3, <2>4, Wrapping
  <2>6. SetHiLo(Wrap(a - q * b), Wrap(q))
    BY <1>3 DEF Div, q
  <2> QED
    BY <2>5, <2>6, SetHiLoHolds
<1> QED
  BY <1>2, <1>3

LEMMA MultiplyHolds ==
    ASSUME WordAssumption, WordsInv, NEW a \in Int, NEW b \in Int, Mult(a, b)
    PROVE  WordsInv'
<1>1. PICK p \in Int : p = a * b
  OBVIOUS
<1>2. WORD \in Nat \ {0}
  BY Widths
<1>3. p \div WORD \in Int
  <2> HIDE DEF WORD
  <2> QED
    BY <1>2, Dividing
<1>4. (p \div WORD) % WORD \in Words /\ Wrap(p) \in Words
  BY <1>3, Wrapping DEF Wrap
<1>5. SetHiLo((p \div WORD) % WORD, Wrap(p))
  BY <1>1 DEF Mult
<1> QED
  BY <1>4, <1>5, SetHiLoHolds

LEMMA MultiplyDivideHolds ==
    ASSUME WordAssumption, WordsInv, NEW rs \in Registers, NEW rt \in Registers,
           MultiplyDivide(rs, rt)
    PROVE  WordsInv'
<1>1. PICK a, b \in Words : a = gpr[rs] /\ b = gpr[rt]
  BY MachineWords
<1>2. /\ a \in Int /\ b \in Int /\ Signed(a, WORD) \in Int /\ Signed(b, WORD) \in Int
      /\ hi \in Words /\ lo \in Words
  <2>1. a \in Int /\ b \in Int /\ WORD \in Int /\ hi \in Words /\ lo \in Words
    BY MachineWords
  <2> HIDE DEF WORD
  <2> QED
    BY <2>1, SignedIsInt
<1>3. \/ Div(Signed(a, WORD), Signed(b, WORD)) \/ Div(a, b)
      \/ Mult(Signed(a, WORD), Signed(b, WORD)) \/ Mult(a, b)
      \/ SetHiLo(a, lo) \/ SetHiLo(hi, a)
  BY <1>1 DEF MultiplyDivide
<1>4. CASE Div(Signed(a, WORD), Signed(b, WORD)) \/ Div(a, b)
  BY <1>2, <1>4, DivideHolds
<1>5. CASE Mult(Signed(a, WORD), Signed(b, WORD)) \/ Mult(a, b)
  BY <1>2, <1>5, MultiplyHolds
<1>6. CASE SetHiLo(a, lo) \/ SetHiLo(hi, a)
  BY <1>2, <1>6, SetHiLoHolds
<1> QED
  BY <1>3, <1>4, <1>5, <1>6

LEMMA AlignedLoadHolds ==
    ASSUME WordAssumption, WordsInv, pc \in Words, NEW rs \in Registers, NEW rt \in Registers,
           NEW imm \in Halfwords, LoadAligned(rs, rt, imm)
    PROVE  WordsInv'
<1>1. PICK a \in Words : a = Address(rs, imm)
  BY AddressIsWord
<1>2. PICK size \in {1, 2, 4} :
         IF a % size # 0 THEN HandleException("AddressErrorLoad")
         ELSE \E v \in {Read(a, size), Wrap(Signed(Read(a, size), Unit(size)))} : Load(rt, v, v)
  BY <1>1 DEF LoadAligned
<1>3. CASE a % size # 0
  BY <1>2, <1>3, ExceptionHolds
<1>4. CASE a % size = 0
  <2>1. a \in Nat /\ size \in 0 .. 4
    BY WordAlignment
  <2>2. \A i \in 0 .. size - 1 : a + i \in Words
    <3>1. \A n \in {1, 2, 4} : a % n = 0 => \A i \in 0 .. n - 1 : a + i \in Words
      BY WordAlignment
    <3> QED
      BY <1>4, <3>1, Zenon
  <2>3. PICK w \in Words : w = Read(a, size)
    BY <2>1, <2>2, Bytes4 DEF WordsInv
  <2>4. Wrap(Signed(w, Unit(size))) \in Words
    <3>1. w \in Int
      BY MachineWords
    <3>2. Unit(size) \in Int
      <4>1. BYTE \in Int /\ HALF \in Int /\ WORD \in Int
        BY Widths
      <4> HIDE DEF BYTE, HALF, WORD
      <4> QED
        BY <4>1 DEF Unit
    <3>3. Signed(w, Unit(size)) \in Int
      BY <3>1, <3>2, SignedIsInt
    <3> QED
      BY <3>3, Wrapping
  <2>5. \E v \in Words : Load(rt, v, v)
    BY <1>2, <1>4, <2>3, <2>4
  <2> QED
    BY <2>5, LoadHolds
<1> QED
  BY <1>3, <1>4

LEMMA PartialLoadHolds ==
    ASSUME WordAssumption, WordsInv, NEW rs \in Registers, NEW rt \in Registers,
           NEW imm \in Halfwords, LoadWordLeft(rs, rt, imm) \/ LoadWordRight(rs, rt, imm)
    PROVE  WordsInv'
<1>1. PICK a \in Words : a = Address(rs, imm)
  BY AddressIsWord
<1>2. PICK old \in Words : old = latest[rt] /\ old = ReadInFlight(rt)
  BY MachineWords
<1>3. MemoryHolds
  BY DEF WordsInv
<1> HIDE DEF WordsInv
<1>4. CASE LoadWordLeft(rs, rt, imm)
  <2> DEFINE unit == Unit(3 - (a % 4))
             v == Compose([i \in 0 .. 3 |-> IF i < 3 - (a % 4) THEN ByteOf(old, i)
                                            ELSE stored[a + i - 3]])
  <2>1. Load(rt, Wrap(Read(Aligned(a), 4) * unit) + (old % unit), v)
    BY <1>1, <1>2, <1>4 DEF LoadWordLeft
  <2>2. Wrap(Read(Aligned(a), 4) * unit) + (old % unit) = v /\ v \in Words
    BY <1>3, MergedLeft
  <2> HIDE DEF v, unit
  <2>3. Load(rt, v, v)
    BY <2>1, <2>2
  <2> QED
    BY <2>2, <2>3, LoadHolds
<1>5. CASE LoadWordRight(rs, rt, imm)
  <2> DEFINE unit == Unit(a % 4)
             v == Compose([i \in 0 .. 3 |-> IF i > 3 - (a % 4) THEN ByteOf(old, i)
                                            ELSE stored[a + i]])
  <2>1. Load(rt, (Read(Aligned(a), 4) \div unit) + (old - (old % (WORD \div unit))), v)
    BY <1>1, <1>2, <1>5 DEF LoadWordRight
  <2>2. /\ (Read(Aligned(a), 4) \div unit) + (old - (old % (WORD \div unit))) = v
        /\ v \in Words
    BY <1>3, MergedRight
  <2> HIDE DEF v, unit
  <2>3. Load(rt, v, v)
    BY <2>1, <2>2
  <2> QED
    BY <2>2, <2>3, LoadHolds
<1> QED
  BY <1>4, <1>5

LEMMA AlignedStoreHolds ==
    ASSUME WordAssumption, WordsInv, pc \in Words, NEW rs \in Registers, NEW rt \in Registers,
           NEW imm \in Halfwords, StoreAligned(rs, rt, imm)
    PROVE  WordsInv'
<1>1. PICK a \in Words : a = Address(rs, imm)
  BY AddressIsWord
<1>2. PICK g \in Words : g = gpr[rt]
  BY MachineWords
<1>3. PICK size \in {1, 2, 4} :
         IF a % size = 0 THEN Store(a, size, g, WriteBytes(stored, a, size, g))
         ELSE \/ HandleException("AddressErrorStore")
              \/ size = 4 /\ HandleException("AddressErrorLoad")
  BY <1>1, <1>2 DEF StoreAligned
<1>4. CASE a % size # 0
  BY <1>3, <1>4, ExceptionHolds
<1>5. CASE a % size = 0
  <2>1. stored = memory /\ memory \in [Words -> ByteValues]
    BY DEF WordsInv, MemoryHolds
  <2>2. a \in Nat /\ size \in 0 .. 4
    BY WordAlignment
  <2>3. PICK m \in [Words -> ByteValues] : m = WriteBytes(memory, a, size, g)
    BY <2>1, <2>2, WrittenMemory
  <2>4. Store(a, size, g, m)
    BY <1>3, <1>5, <2>1, <2>3
  <2> QED
    BY <2>3, <2>4, StoreHolds
<1> QED
  BY <1>4, <1>5

LEMMA PartialStoreHolds ==
    ASSUME WordAssumption, WordsInv, NEW rs \in Registers, NEW rt \in Registers,
           NEW imm \in Halfwords, StoreWordLeft(rs, rt, imm) \/ StoreWordRight(rs, rt, imm)
    PROVE  WordsInv'
<1>1. PICK a \in Words : a = Address(rs, imm)
  BY AddressIsWord
<1>2. PICK g \in Words : g = gpr[rt]
  BY MachineWords
<1>3. MemoryHolds
  BY DEF WordsInv
<1> HIDE DEF WordsInv
<1>4. CASE StoreWordLeft(rs, rt, imm)
  <2> DEFINE n == (a % 4) + 1
             unit == Unit(4 - n)
             word == Read(Aligned(a), 4)
             w == (g \div unit) + (word - (word % (WORD \div unit)))
             m == WriteBytes(stored, Aligned(a), n, g \div unit)
  <2>1. Store(Aligned(a), 4, w, m)
    BY <1>1, <1>2, <1>4 DEF StoreWordLeft
  <2>2. WriteBytes(memory, Aligned(a), 4, w) = m /\ m \in [Words -> ByteValues]
    BY <1>3, StoredLeft
  <2> HIDE DEF w, m
  <2> QED
    BY <2>1, <2>2, StoreHolds
<1>5. CASE StoreWordRight(rs, rt, imm)
  <2> DEFINE unit == Unit(a % 4)
             w == Wrap(g * unit) + (Read(Aligned(a), 4) % unit)
             m == WriteBytes(stored, a, 4 - (a % 4), g)
  <2>1. Store(Aligned(a), 4, w, m)
    BY <1>1, <1>2, <1>5 DEF StoreWordRight
  <2>2. WriteBytes(memory, Aligned(a), 4, w) = m /\ m \in [Words -> ByteValues]
    BY <1>3, StoredRight
  <2> HIDE DEF w, m
  <2> QED
    BY <2>1, <2>2, StoreHolds
<1> QED
  BY <1>4, <1>5

LEMMA BranchHolds ==
    ASSUME WordAssumption, WordsInv, next_pc \in Words, NEW rs \in Registers, NEW offset,
           \/ \E rt : Branch(rs, rt, offset)
           \/ BranchAndLink(rs, offset)
    PROVE  WordsInv'
<1> DEFINE target == Wrap(next_pc + 4 * Signed(offset, HALF))
<1>1. 0 \in Registers /\ LINK \in Registers
  BY DEF WordAssumption
<1>2. Wrap(next_pc + 4) \in Words
  <2>1. next_pc + 4 \in Int
    BY MachineWords
  <2> QED
    BY <2>1, Wrapping
<1>3. CASE \E rt : Branch(rs, rt, offset)
  <2>1. \/ Jump(File, target, 0)
        \/ Continue(File) /\ UNCHANGED <<hi, lo, system, memory, latest, stored>>
    BY <1>3 DEF Branch
  <2>2. CASE Jump(File, target, 0)
    BY <1>1, <2>2, JumpHolds
  <2>3. CASE Continue(File) /\ UNCHANGED <<hi, lo, system, memory, latest, stored>>
    <3>1. RegistersHold'
      BY <2>3, NothingLanded DEF Continue, Advance, WordsInv
    <3> QED
      BY <2>3, <3>1 DEF WordsInv, SystemHolds, MemoryHolds, system
  <2> QED
    BY <2>1, <2>2, <2>3
<1>4. CASE BranchAndLink(rs, offset)
  <2>1. Jump(Linked(LINK), target, LINK) \/ Write(LINK, Wrap(next_pc + 4))
    BY <1>4 DEF BranchAndLink
  <2> QED
    BY <1>1, <1>2, <2>1, JumpHolds, WriteHolds
<1> QED
  BY <1>3, <1>4

LEMMA SideloadHolds ==
    ASSUME WordAssumption, WordsInv, NEW target, NEW written \in SUBSET (Registers \ {0}),
           NEW set \in [written -> Words], NEW content \in Memories,
           Sideload(target, set, content)
    PROVE  WordsInv'
<1>1. content \in [Words -> ByteValues]
  BY DEF WordAssumption
<1>2. /\ NoLoad \in [reg : Registers, value : Words] /\ NoLoad.reg = 0 /\ NoLoad.value = 0
      /\ 0 \in Registers
  BY ZeroFacts DEF NoLoad
<1>3. DOMAIN set = written /\ ~(0 \in written) /\ \A r \in written : r \in Registers /\ set[r] \in Words
  OBVIOUS
<1>4. /\ gpr' = [r \in Registers |-> IF r \in written THEN set[r] ELSE gpr[r]]
      /\ delayed_load' = IF delayed_load.reg \in written THEN NoLoad ELSE delayed_load
      /\ latest' = [r \in Registers |-> IF r \in written THEN set[r] ELSE latest[r]]
      /\ memory' = content /\ stored' = content
      /\ hi' = hi /\ lo' = lo /\ epc' = epc
  BY <1>3 DEF Sideload, system
<1>5. /\ gpr \in [Registers -> Words] /\ gpr[0] = 0
      /\ delayed_load \in [reg : Registers, value : Words]
      /\ delayed_load.reg = 0 => delayed_load.value = 0
      /\ latest \in [Registers -> Words]
      /\ \A r \in Registers : latest[r] = IF delayed_load.reg = r THEN delayed_load.value ELSE gpr[r]
  BY DEF WordsInv, RegistersHold, ReadInFlight
<1>6. gpr' \in [Registers -> Words] /\ latest' \in [Registers -> Words] /\ gpr'[0] = 0
  BY <1>2, <1>3, <1>4, <1>5
<1>7. /\ delayed_load' \in [reg : Registers, value : Words]
      /\ delayed_load'.reg = 0 => delayed_load'.value = 0
      /\ ~(delayed_load'.reg \in written)
  BY <1>2, <1>3, <1>4, <1>5
<1>8. ASSUME NEW r \in Registers
      PROVE  (IF delayed_load'.reg = r THEN delayed_load'.value ELSE gpr'[r]) = latest'[r]
  <2>1. CASE r \in written
    BY <1>4, <1>7, <2>1
  <2>2. CASE ~(r \in written)
    <3>1. gpr'[r] = gpr[r] /\ latest'[r] = latest[r]
      BY <1>4, <2>2
    <3>2. CASE delayed_load.reg \in written
      <4>1. delayed_load' = NoLoad /\ delayed_load.reg # r
        BY <1>4, <2>2, <3>2
      <4> QED
        BY <1>2, <1>5, <3>1, <4>1
    <3>3. CASE ~(delayed_load.reg \in written)
      BY <1>4, <1>5, <3>1, <3>3
    <3> QED
      BY <3>2, <3>3
  <2> QED
    BY <2>1, <2>2
<1> QED
  BY <1>1, <1>4, <1>6, <1>7, <1>8 DEF WordsInv, RegistersHold, SystemHolds, MemoryHolds, ReadInFlight

LEMMA InstructionHolds ==
    ASSUME WordAssumption, WordsInv, pc \in Words, next_pc \in Words, CpuNext
    PROVE  WordsInv'
<1>1. CASE FetchError \/ TakeInterrupt
  BY <1>1, ExceptionHolds DEF FetchError, TakeInterrupt
<1>2. ASSUME NEW code, SyscallOrBreak(code) PROVE WordsInv'
  BY <1>2, ExceptionHolds DEF SyscallOrBreak
<1>3. ASSUME NEW rd \in Registers, MoveFromHiLo(rd) PROVE WordsInv'
  BY <1>3, MachineWords, WriteHolds DEF MoveFromHiLo
<1>4. CASE JumpAbsolute
  <2>1. LINK \in Registers
    BY DEF WordAssumption
  <2> QED
    BY <1>4, <2>1, JumpHolds DEF JumpAbsolute
<1>5. ASSUME NEW rs \in Registers, NEW rd \in Registers, JumpRegister(rs, rd) PROVE WordsInv'
  BY <1>5, JumpHolds DEF JumpRegister
<1>6. ASSUME NEW software, NEW delay, NEW code, WriteCause(software, delay, code) PROVE WordsInv'
  BY <1>6, SystemStepHolds DEF WriteCause
<1>7. CASE WriteStatus \/ RestoreFromException
  BY <1>7, SystemStepHolds DEF WriteStatus, RestoreFromException
<1>8. ASSUME NEW rt \in Registers, MoveFromCoprocessor(rt) PROVE WordsInv'
  <2>1. \E v \in Words : Load(rt, v, v)
    BY <1>8, MachineWords DEF MoveFromCoprocessor
  <2> QED
    BY <2>1, LoadHolds
<1> QED
  BY <1>1, <1>2, <1>3, <1>4, <1>5, <1>6, <1>7, <1>8, ComputeHolds, TrapHolds,
     MultiplyDivideHolds, AlignedLoadHolds, PartialLoadHolds, AlignedStoreHolds,
     PartialStoreHolds, BranchHolds, SideloadHolds, Zenon DEF CpuNext

LEMMA WordsInitially ==
    ASSUME WordAssumption, CpuInit
    PROVE  WordsInv
<1>1. /\ NoLoad \in [reg : Registers, value : Words] /\ NoLoad.reg = 0 /\ NoLoad.value = 0
      /\ 0 \in Registers /\ 0 \in Words
  BY ZeroFacts DEF NoLoad
<1>2. memory \in [Words -> ByteValues] /\ stored = memory
  BY DEF CpuInit, WordAssumption
<1>3. gpr = [r \in Registers |-> 0] /\ delayed_load = NoLoad /\ latest = gpr
      /\ hi = 0 /\ lo = 0 /\ epc = 0
  BY DEF CpuInit
<1>4. \A r \in Registers : ReadInFlight(r) = latest[r]
  BY <1>1, <1>3 DEF ReadInFlight
<1> QED
  BY <1>1, <1>2, <1>3, <1>4 DEF WordsInv, RegistersHold, SystemHolds, MemoryHolds

-----------------------------------------------------------------------------
(* The two invariants need each other: jumps go where registers say, and      *)
(* exceptions leave their program counter in EPC, from where it is loaded.    *)
MachineInv == FlowInv /\ WordsInv

LEMMA MachineStep ==
    ASSUME WordAssumption, MachineInv, [CpuNext]_cpuVars
    PROVE  MachineInv'
<1>1. RegistersAreWords
  BY DEF MachineInv, WordsInv, RegistersHold, RegistersAreWords
<1>2. FlowInv'
  BY <1>1, FlowStep DEF MachineInv
<1>3. CASE CpuNext
  BY <1>2, <1>3, InstructionHolds DEF MachineInv, FlowInv
<1>4. CASE UNCHANGED cpuVars
  <2>1. WordsInv'
    BY <1>4 DEF MachineInv, WordsInv, RegistersHold, SystemHolds, MemoryHolds, ReadInFlight,
                cpuVars, system
  <2> QED
    BY <1>2, <2>1 DEF MachineInv
<1> QED
  BY <1>3, <1>4

(* Where the program is and where it goes agree with the last jump, and what  *)
(* registers and memory hold with what the instructions have left there.      *)
THEOREM MachineAgrees == CpuSpec => []MachineInv
<1>1. CpuInit => MachineInv
  BY FlowInitially, WordsInitially, WordsAssumed DEF MachineInv
<1>2. MachineInv /\ [CpuNext]_cpuVars => MachineInv'
  BY MachineStep, WordsAssumed
<1> QED
  BY <1>1, <1>2, PTL DEF CpuSpec

(* Once its loads have landed, a register holds what the last instruction     *)
(* that wrote it was to leave there; memory holds what stores were to, also   *)
(* where SWL and SWR write the whole word around their bytes.                 *)
THEOREM RegistersInProgramOrder == CpuSpec => []ProgramOrder
<1>1. MachineInv => ProgramOrder
  BY DEF MachineInv, WordsInv, RegistersHold, MemoryHolds, ProgramOrder, RegistersAreWords
<1> QED
  BY <1>1, MachineAgrees, PTL

LEMMA RestartStep ==
    ASSUME WordAssumption, RegistersAreWords, FlowInv, CpuNext, entered', ~doubled
    PROVE  IF cause'.branch_delay
           THEN epc' = branch.at /\ pc = Wrap(branch.at + 4) /\ next_pc = branch.target
           ELSE epc' = pc /\ next_pc = Wrap(pc + 4)
<1>1. TakesException
  BY StepFlows DEF FlowInv, Flows, Proceeds, Jumps, Starts
<1>2. CASE in_delay_slot
  <2>1. /\ branch.at \in Words /\ pc = Wrap(branch.at + 4) /\ next_pc = branch.target
        /\ cause'.branch_delay /\ epc' = Wrap(pc - 4)
    BY <1>1, <1>2 DEF TakesException, FlowInv
  <2>2. epc' = branch.at
    BY <2>1, BackFromSlot
  <2> QED
    BY <2>1, <2>2
<1>3. CASE ~in_delay_slot
  BY <1>1, <1>3 DEF TakesException, FlowInv
<1> QED
  BY <1>2, <1>3

(* An exception neither loses nor repeats a jump. *)
THEOREM ExceptionsAreRestartable == CpuSpec => Restartable
<1>1. MachineInv => FlowInv /\ RegistersAreWords
  BY DEF MachineInv, WordsInv, RegistersHold, RegistersAreWords
<1>2. RegistersAreWords /\ FlowInv /\ [CpuNext]_cpuVars
        => [entered' /\ ~doubled =>
              IF cause'.branch_delay
              THEN epc' = branch.at /\ pc = Wrap(branch.at + 4) /\ next_pc = branch.target
              ELSE epc' = pc /\ next_pc = Wrap(pc + 4)]_cpuVars
  BY RestartStep, WordsAssumed
<1> QED
  BY <1>1, <1>2, MachineAgrees, PTL DEF CpuSpec, Restartable

-----------------------------------------------------------------------------
(***************************************************************************)
(* The instruction cache.                                                  *)
(***************************************************************************)

(* The quotient by LINE_LEN says which line an address is in, and of what tag. *)
LEMMA Lines ==
    ASSUME CacheAssumption
    PROVE  \E n \in Nat \ {0} : 
             \A a \in Nat : /\ Tag(a) = (a \div LINE_LEN) \div n
                            /\ LineOf(a) = (a \div LINE_LEN) % n
                            /\ Index(a) = LineOf(a) * LINE_LEN + (a % LINE_LEN)
                            /\ a = (a \div LINE_LEN) * LINE_LEN + (a % LINE_LEN)
                            /\ LineOf(a) \in 0 .. OPCODES_LEN \div LINE_LEN - 1
                            /\ Index(a) \in 0 .. OPCODES_LEN - 1
<1> DEFINE L == LINE_LEN
           n == OPCODES_LEN \div L
<1>1. L \in Nat \ {0} /\ OPCODES_LEN \in Nat \ {0} /\ OPCODES_LEN % L = 0
  BY DEF CacheAssumption
<1>2. n \in Nat \ {0} /\ OPCODES_LEN = n * L
  <2>1. \A x, d \in Nat \ {0} : x % d = 0 => x \div d \in Nat \ {0} /\ x = (x \div d) * d
    BY Z3
  <2> QED
    BY <1>1, <2>1
<1> HIDE DEF L, n
<1>3. ASSUME NEW a \in Nat
      PROVE  LET q == a \div L IN
             /\ a \div OPCODES_LEN = q \div n
             /\ (a % OPCODES_LEN) \div L = q % n
             /\ a % OPCODES_LEN = (q % n) * L + (a % L)
             /\ a = q * L + (a % L)
             /\ q % n \in 0 .. n - 1
             /\ a % OPCODES_LEN \in 0 .. OPCODES_LEN - 1
  <2> DEFINE q == a \div L
             r == a % L
             t == q \div n
             l == q % n
  <2>0. \A x \in Nat, d \in Nat \ {0} : 
           /\ x \div d \in Nat /\ x % d \in 0 .. d - 1 /\ x = d * (x \div d) + (x % d)
    BY Z3
  <2>1. q \in Nat /\ r \in 0 .. L - 1 /\ a = L * q + r
    BY <2>0, <1>1
  <2>2. t \in Nat /\ l \in 0 .. n - 1 /\ q = n * t + l
    BY <2>0, <2>1, <1>2
  <2> DEFINE s == L * l + r
  <2>3. s \in 0 .. OPCODES_LEN - 1
    <3> HIDE DEF q, r, t, l
    <3>1. L * l \in Nat /\ L * l <= L * (n - 1)
      BY <1>1, <1>2, <2>2, Z3
    <3>2. L * (n - 1) = OPCODES_LEN - L
      BY <1>1, <1>2, Z3
    <3> QED
      BY <3>1, <3>2, <2>1, <1>1
  <2>4. a = OPCODES_LEN * t + s
    <3> HIDE DEF q, r, t, l
    <3>1. L * (n * t + l) = (n * L) * t + L * l
      BY <1>1, <1>2, <2>2, Z3
    <3>2. a = L * (n * t + l) + r
      BY <2>1, <2>2
    <3>3. a = (n * L) * t + (L * l + r)
      <4>1. (n * L) * t \in Int /\ L * l \in Int /\ r \in Int
        BY <1>1, <1>2, <2>1, <2>2
      <4> HIDE DEF L
      <4> QED
        BY <3>1, <3>2, <4>1
    <3> QED
      BY <3>3, <1>2
  <2>5. a \div OPCODES_LEN = t /\ a % OPCODES_LEN = s
    <3> HIDE DEF s, t
    <3> QED
      BY <2>2, <2>3, <2>4, <1>1, Quotient
  <2>6. s \div L = l
    <3> HIDE DEF l, r
    <3> QED
      BY <2>1, <2>2, <1>1, <1>2, Quotient
  <2>7. s = l * L + r /\ L * q = q * L
    <3> HIDE DEF l, r, q
    <3> QED
      BY <2>1, <2>2, <1>1, Z3
  <2> QED
    BY <2>1, <2>2, <2>3, <2>5, <2>6, <2>7
<1>4. \A a \in Nat : /\ Tag(a) = (a \div LINE_LEN) \div n
                     /\ LineOf(a) = (a \div LINE_LEN) % n
                     /\ Index(a) = LineOf(a) * LINE_LEN + (a % LINE_LEN)
                     /\ a = (a \div LINE_LEN) * LINE_LEN + (a % LINE_LEN)
                     /\ LineOf(a) \in 0 .. OPCODES_LEN \div LINE_LEN - 1
                     /\ Index(a) \in 0 .. OPCODES_LEN - 1
  <2> TAKE a \in Nat
  <2> DEFINE q == a \div L
  <2>1. /\ a \div OPCODES_LEN = q \div n
        /\ (a % OPCODES_LEN) \div L = q % n
        /\ a % OPCODES_LEN = (q % n) * L + (a % L)
        /\ a = q * L + (a % L)
        /\ q % n \in 0 .. n - 1
        /\ a % OPCODES_LEN \in 0 .. OPCODES_LEN - 1
    BY <1>3
  <2> HIDE DEF q
  <2>2. L = LINE_LEN /\ n = OPCODES_LEN \div LINE_LEN /\ q = a \div LINE_LEN
    BY DEF L, n, q
  <2> QED
    BY <2>1, <2>2 DEF Tag, LineOf, Index
<1> QED
  BY <1>2, <1>4

LEMMA Places ==
    ASSUME CacheAssumption
    PROVE  /\ \A a \in Nat : /\ LineOf(a) \in 0 .. OPCODES_LEN \div LINE_LEN - 1
                             /\ Index(a) \in 0 .. OPCODES_LEN - 1
                             /\ Tag(a) \in Nat
           /\ \A a, b \in Nat : Index(a) = Index(b) => LineOf(a) = LineOf(b)
           /\ \A a, b \in Nat :
                  a \div LINE_LEN = b \div LINE_LEN <=> Tag(a) = Tag(b) /\ LineOf(a) = LineOf(b)
           /\ \A a, b \in Nat : Tag(a) = Tag(b) /\ Index(a) = Index(b) => a = b
<1>1. OPCODES_LEN \in Nat \ {0} /\ LINE_LEN \in Nat \ {0}
  BY DEF CacheAssumption
<1>2. PICK n \in Nat \ {0} :
             \A a \in Nat : /\ Tag(a) = (a \div LINE_LEN) \div n
                            /\ LineOf(a) = (a \div LINE_LEN) % n
                            /\ Index(a) = LineOf(a) * LINE_LEN + (a % LINE_LEN)
                            /\ a = (a \div LINE_LEN) * LINE_LEN + (a % LINE_LEN)
                            /\ LineOf(a) \in 0 .. OPCODES_LEN \div LINE_LEN - 1
                            /\ Index(a) \in 0 .. OPCODES_LEN - 1
  BY Lines
<1>3. \A x \in Nat, d \in Nat \ {0} : 
          /\ x \div d \in Nat /\ x = d * (x \div d) + (x % d)
  BY Z3
<1>4. ASSUME NEW a \in Nat, NEW b \in Nat, Tag(a) = Tag(b), LineOf(a) = LineOf(b)
      PROVE  a \div LINE_LEN = b \div LINE_LEN
  <2>1. a \div LINE_LEN \in Nat /\ b \div LINE_LEN \in Nat
    BY <1>1, <1>3
  <2>2. /\ a \div LINE_LEN = n * ((a \div LINE_LEN) \div n) + ((a \div LINE_LEN) % n)
        /\ b \div LINE_LEN = n * ((b \div LINE_LEN) \div n) + ((b \div LINE_LEN) % n)
    BY <2>1, <1>3
  <2>3. /\ (a \div LINE_LEN) \div n = (b \div LINE_LEN) \div n
        /\ (a \div LINE_LEN) % n = (b \div LINE_LEN) % n
    BY <1>2, <1>4
  <2> QED
    BY <2>2, <2>3
<1>5. ASSUME NEW a \in Nat, NEW b \in Nat, Tag(a) = Tag(b), Index(a) = Index(b)
      PROVE  a = b
  <2>1. a = OPCODES_LEN * Tag(a) + Index(a) /\ b = OPCODES_LEN * Tag(b) + Index(b)
    BY <1>1, <1>3 DEF Tag, Index
  <2> QED
    BY <2>1, <1>5
<1>6. ASSUME NEW a \in Nat, NEW b \in Nat, a \div LINE_LEN = b \div LINE_LEN
      PROVE  Tag(a) = Tag(b) /\ LineOf(a) = LineOf(b)
  BY <1>2, <1>6
<1>7. \A a \in Nat : Tag(a) \in Nat
  BY <1>1, <1>3 DEF Tag
<1>8. \A a, b \in Nat : Index(a) = Index(b) => LineOf(a) = LineOf(b)
  BY DEF LineOf
<1> QED
  BY <1>2, <1>4, <1>5, <1>6, <1>7, <1>8

CacheTypes ==
    /\ DOMAIN tags = 0 .. OPCODES_LEN \div LINE_LEN - 1
    /\ DOMAIN opcodes = 0 .. OPCODES_LEN - 1
    /\ DOMAIN ram = Locations

CacheInv == CacheTypes /\ OnlyOutdated

LEMMA FetchKeeps ==
    ASSUME CacheAssumption, CacheInv, NEW a \in Locations, NEW cached, Fetch(a, cached)
    PROVE  CacheInv'
<1>1. CASE ~(cached /\ ~Hit(a))
  <2>1. UNCHANGED <<tags, opcodes, outdated, ram>>
    BY <1>1 DEF Fetch
  <2> QED
    BY <2>1 DEF CacheInv, CacheTypes, OnlyOutdated, Hit
<1>2. CASE cached /\ ~Hit(a)
  <2>1. /\ tags' = [tags EXCEPT ![LineOf(a)] = Tag(a)]
        /\ opcodes' = Fill(a)
        /\ outdated' = outdated \ Line(a)
        /\ ram' = ram
    BY <1>2 DEF Fetch
  <2>2. DOMAIN tags' = DOMAIN tags /\ DOMAIN opcodes' = DOMAIN opcodes /\ CacheTypes'
    BY <2>1 DEF CacheInv, CacheTypes, Fill
  <2>3. Locations \subseteq Nat
    BY DEF Locations
  <2>4. ASSUME NEW b \in Locations, Hit(b)'
        PROVE  opcodes'[Index(b)] = ram'[b] \/ b \in outdated'
    <3>1. LineOf(b) \in DOMAIN tags /\ Index(b) \in DOMAIN opcodes
      BY <2>3, Places DEF CacheInv, CacheTypes
    <3>2. tags'[LineOf(b)] = Tag(b)
      BY <2>4 DEF Hit
    <3>3. CASE LineOf(b) = LineOf(a)
      <4>1. Tag(b) = Tag(a)
        BY <3>1, <3>2, <3>3, <2>1
      <4>2. b \in Line(a)
        BY <4>1, <3>3, <2>3, Places DEF Line
      <4>3. \A c \in Line(a) : Index(c) = Index(b) => c = b
        BY <4>1, <2>3, Places DEF Line
      <4>4. (CHOOSE c \in Line(a) : Index(c) = Index(b)) = b
        BY <4>2, <4>3
      <4>5. opcodes'[Index(b)] = ram[b]
        BY <2>1, <3>1, <4>2, <4>4 DEF Fill
      <4> QED
        BY <4>5, <2>1
    <3>4. CASE LineOf(b) # LineOf(a)
      <4>1. Hit(b)
        BY <3>1, <3>2, <3>4, <2>1 DEF Hit
      <4>2. \A c \in Line(a) : Index(c) # Index(b)
        BY <3>4, <2>3, Places DEF Line
      <4>3. opcodes'[Index(b)] = opcodes[Index(b)]
        BY <2>1, <3>1, <4>2 DEF Fill
      <4>4. b \notin Line(a)
        BY <4>2
      <4> QED
        BY <4>1, <4>3, <4>4, <2>1 DEF CacheInv, OnlyOutdated
    <3> QED
      BY <3>3, <3>4
  <2> QED
    BY <2>2, <2>4 DEF CacheInv, OnlyOutdated
<1> QED
  BY <1>1, <1>2

LEMMA WriteKeeps ==
    ASSUME CacheAssumption, CacheInv, NEW a \in Locations, NEW v, BusWrite(a, v) \/ WriteRam(a, v)
    PROVE  CacheInv'
<1>0. Locations \subseteq Nat
  BY DEF Locations
<1>1. CASE WriteRam(a, v)
  <2>1. CacheTypes'
    BY <1>1 DEF WriteRam, CacheInv, CacheTypes
  <2>2. ASSUME NEW b \in Locations, Hit(b)'
        PROVE  opcodes'[Index(b)] = ram'[b] \/ b \in outdated'
    BY <1>1, <2>2 DEF WriteRam, CacheInv, CacheTypes, OnlyOutdated, Hit
  <2> QED
    BY <2>1, <2>2 DEF CacheInv, OnlyOutdated
<1>2. CASE /\ tags' = [tags EXCEPT ![LineOf(a)] = NoTag]
           /\ UNCHANGED <<opcodes, ram, outdated>>
  <2>1. CacheTypes'
    BY <1>2 DEF CacheInv, CacheTypes
  <2>2. ASSUME NEW b \in Locations, Hit(b)'
        PROVE  Hit(b)
    <3>1. LineOf(b) \in DOMAIN tags /\ Tag(b) \in Nat
      BY <1>0, Places DEF CacheInv, CacheTypes
    <3>2. Tag(b) # NoTag
      BY <3>1 DEF NoTag
    <3> QED
      BY <3>1, <3>2, <2>2, <1>2 DEF Hit
  <2> QED
    BY <2>1, <2>2, <1>2 DEF CacheInv, OnlyOutdated
<1>3. CASE /\ opcodes' = [opcodes EXCEPT ![Index(a)] = v]
           /\ outdated' = outdated \cup {b \in Locations : Index(b) = Index(a)}
           /\ UNCHANGED <<tags, ram>>
  <2>1. CacheTypes'
    BY <1>3 DEF CacheInv, CacheTypes
  <2>2. ASSUME NEW b \in Locations, Hit(b)'
        PROVE  opcodes'[Index(b)] = ram'[b] \/ b \in outdated'
    <3>1. Index(b) \in DOMAIN opcodes /\ Hit(b)
      BY <1>0, <2>2, <1>3, Places DEF CacheInv, CacheTypes, Hit
    <3> QED
      BY <3>1, <1>3 DEF CacheInv, OnlyOutdated
  <2> QED
    BY <2>1, <2>2 DEF CacheInv, OnlyOutdated
<1> QED
  BY <1>1, <1>2, <1>3 DEF BusWrite

(* No line answers for an address it was not filled from: what the cache    *)
(* gives is what memory holds, unless that was overwritten meanwhile.       *)
THEOREM LinesAreTheirOwn == CacheSpec => []OnlyOutdated
<1>1. CacheInit => CacheInv
  <2> SUFFICES ASSUME CacheInit PROVE CacheInv
    OBVIOUS
  <2>1. CacheTypes
    BY DEF CacheInit, CacheTypes
  <2>2. \A a \in Locations : ~Hit(a)
    <3> TAKE a \in Locations
    <3>1. LineOf(a) \in 0 .. OPCODES_LEN \div LINE_LEN - 1 /\ Tag(a) # NoTag
      BY Places, CacheAssumed DEF Locations, NoTag
    <3> QED
      BY <3>1 DEF Hit, CacheInit
  <2> QED
    BY <2>1, <2>2 DEF CacheInv, OnlyOutdated
<1>2. CacheInv /\ [CacheNext]_cacheVars => CacheInv'
  <2> SUFFICES ASSUME CacheInv, [CacheNext]_cacheVars PROVE CacheInv'
    OBVIOUS
  <2>1. ASSUME NEW on \in BOOLEAN, WriteCacheControl(on) \/ WriteIsolate(on) PROVE CacheInv'
    BY <2>1 DEF WriteCacheControl, WriteIsolate, CacheInv, CacheTypes, OnlyOutdated, Hit
  <2>2. CASE UNCHANGED cacheVars
    BY <2>2 DEF cacheVars, CacheInv, CacheTypes, OnlyOutdated, Hit
  <2> QED
    BY <2>1, <2>2, FetchKeeps, WriteKeeps, CacheAssumed DEF CacheNext
<1>3. CacheInv => OnlyOutdated
  BY DEF CacheInv
<1> QED
  BY <1>1, <1>2, <1>3, PTL DEF CacheSpec

-----------------------------------------------------------------------------
(***************************************************************************)
(* The controllers.                                                        *)
(***************************************************************************)

ShockStates == [config : BOOLEAN, analog : Modes, locked : BOOLEAN, entered : BOOLEAN,
                changed : BOOLEAN]

(* What a pad answers to its address. *)
Identification ==
    IF shock.config THEN 243 ELSE IF shock.analog = "Analog" THEN 115 ELSE 65

(* Where a pad is in its answer says how many bytes it has sent, and how many *)
(* are left of those it announced.                                           *)
DigitalAt(at) ==
    /\ at = "IdHigh" => answered = 1 /\ id = 65
    /\ at = "InputsLow" => answered = 2 /\ id = 65
    /\ at = "InputsHigh" => answered = 3 /\ id = 65

ShockAt(at) ==
    /\ at = "IdHigh" => answered = 1 
    /\ at = "InputsLow" => answered = 2
    /\ at \in {"IdHigh", "InputsLow"} => id = Identification /\ (device.x => ~shock.config)
    /\ at = "InputsHigh" => /\ answered = 3 
                            /\ device.x => id \in {115, 243}
                            /\ ~device.x => id = 65
    /\ at = "ConfigIdHigh" => answered = 1
    /\ at \in {"ModeChange", "LedState", "VariableInput"} => answered = 2
    /\ at = "LedLock" => answered = 3
    /\ at \in {"ConfigIdHigh", "ModeChange", "LedState", "VariableInput", "LedLock"} => id = 243
    /\ at = "Answering" => device.x \in 1 .. 6 /\ answered = 8 - device.x /\ id \in {115, 243}

Undisturbed ==
    /\ device.at = "IdLow" => answered = 0
    /\ device.pad = "Digital" => DigitalAt(device.at)
    /\ device.pad = "DualShock" => ShockAt(device.at)
    /\ AnswersAnnounced

PadInv ==
    /\ shock \in ShockStates
    /\ ~disturbed => Undisturbed
    /\ GameKnowsMode
-----------------------------------------------------------------------------
LEMMA PadStart == PadInit => PadInv
BY DEF PadInit, PadInv, ShockStates, DefaultState, Modes, Undisturbed, AnswersAnnounced,
       Nothing, GameKnowsMode

LEMMA DigitalKeeps ==
    ASSUME PadInv, DigitalIdLow \/ \E at \in {"IdHigh", "InputsLow", "InputsHigh"} : DigitalNext(at)
    PROVE  PadInv'
<1> USE DEF PadInv, Undisturbed, DigitalAt, Exchange, SameShock, SameId, GoOn, Disconnect,
            Disconnected
<1>0. UNCHANGED <<shock, known, disturbed>> /\ ShockStates' = ShockStates
  BY DEF DigitalIdLow, DigitalNext, ShockStates, Modes
<1>1. GameKnowsMode'
  BY <1>0 DEF GameKnowsMode
<1>2. ASSUME ~disturbed, DigitalIdLow
      PROVE  Undisturbed'
  BY <1>2 DEF DigitalIdLow, AnswersAnnounced
<1>3. ASSUME ~disturbed, DigitalNext("IdHigh") \/ DigitalNext("InputsLow")
      PROVE  Undisturbed'
  BY <1>3 DEF DigitalNext, AnswersAnnounced
<1>4. ASSUME ~disturbed, DigitalNext("InputsHigh")
      PROVE  Undisturbed'
  BY <1>4 DEF DigitalNext, AnswersAnnounced
<1> QED
  BY <1>0, <1>1, <1>2, <1>3, <1>4

(* A byte of an answer that leaves the pad's state alone. *)
LEMMA AnswerKeeps ==
    ASSUME PadInv,
           ShockIdLow \/ ShockIdHigh \/ ShockConfigIdHigh \/ ShockInputsHigh \/ ShockAnswering
             \/ ShockVariableInput
    PROVE  PadInv'
<1> USE DEF PadInv, Undisturbed, ShockAt, Exchange, Shock, SameShock, SameId, GoOn, GoOnWith,
            Disconnect, Disconnected
<1>0. UNCHANGED <<shock, known, disturbed>> /\ ShockStates' = ShockStates
  BY DEF ShockIdLow, ShockIdHigh, ShockConfigIdHigh, ShockInputsHigh, ShockAnswering,
         ShockVariableInput, ShockStates, Modes
<1>1. GameKnowsMode'
  BY <1>0 DEF GameKnowsMode
<1>2. ASSUME ~disturbed, ShockIdLow
      PROVE  Undisturbed'
  <2>1. answered' = 1 /\ id' = Identification /\ UNCHANGED <<shock, disturbed>>
        /\ Identification' = Identification
    BY <1>2 DEF ShockIdLow, Identification
  <2>2. CASE GoOnWith("IdHigh", FALSE) \/ (~shock.config /\ GoOnWith("IdHigh", TRUE))
    BY <2>1, <2>2, <1>2 DEF ShockIdLow, AnswersAnnounced
  <2>3. CASE shock.config /\ \E command \in Commands : GoOnWith("ConfigIdHigh", command)
    BY <2>1, <2>3, <1>2 DEF ShockIdLow, AnswersAnnounced, Identification
  <2>4. CASE Disconnect
    BY <2>1, <2>4, <1>2 DEF ShockIdLow, AnswersAnnounced
  <2>5. \/ GoOnWith("IdHigh", FALSE)
        \/ ~shock.config /\ GoOnWith("IdHigh", TRUE)
        \/ shock.config /\ \E command \in Commands : GoOnWith("ConfigIdHigh", command)
        \/ Disconnect
    <3> HIDE DEF GoOnWith, Disconnect
    <3> QED
      BY <1>2, Zenon DEF ShockIdLow
  <2> HIDE DEF GoOnWith, Disconnect, Undisturbed
  <2> QED
    BY <2>2, <2>3, <2>4, <2>5
<1>3. ASSUME ~disturbed, ShockIdHigh
      PROVE  Undisturbed'
  BY <1>3 DEF ShockIdHigh, Identification, AnswersAnnounced
<1>4. ASSUME ~disturbed, ShockConfigIdHigh
      PROVE  Undisturbed'
  BY <1>4 DEF ShockConfigIdHigh, AfterIdHigh, AnswersAnnounced
<1>5. ASSUME ~disturbed, ShockInputsHigh
      PROVE  Undisturbed'
  BY <1>5 DEF ShockInputsHigh, AnswersAnnounced
<1>6. ASSUME ~disturbed, ShockAnswering
      PROVE  Undisturbed'
  BY <1>6 DEF ShockAnswering, AnswersAnnounced
<1>7. ASSUME ~disturbed, ShockVariableInput
      PROVE  Undisturbed'
  BY <1>7 DEF ShockVariableInput, AnswersAnnounced
<1> QED
  BY <1>0, <1>1, <1>2, <1>3, <1>4, <1>5, <1>6, <1>7

(* The commands that change the state of the pad. *)
LEMMA CommandKeeps ==
    ASSUME PadInv, NEW bit \in BOOLEAN, NEW modes \in {{}, {"Digital"}, {"Analog"}},
           ShockInputsLow(bit) \/ ShockModeChange(bit) \/ ShockLedLock(bit)
             \/ ShockLedState(modes)
    PROVE  PadInv'
<1> USE DEF PadInv, Undisturbed, ShockAt, Exchange, Shock, SameShock, SameId, GoOn, GoOnWith,
            Disconnect, Disconnected
<1>1. CASE ShockInputsLow(bit)
  <2>1. shock' \in ShockStates
    BY <1>1 DEF ShockInputsLow, ShockStates
  <2>2. GameKnowsMode'
    BY <1>1 DEF ShockInputsLow, GameKnowsMode, Announced, Identification, ShockStates, Modes
  <2>3. ASSUME ~disturbed PROVE Undisturbed'
    <3>1. /\ device'.pad = "DualShock" /\ device'.at = "InputsHigh"
          /\ answered' = 3 /\ id' = id /\ ~disturbed' /\ id = Identification
      BY <1>1, <2>3 DEF ShockInputsLow
    <3>2. device' = [pad |-> device.pad, at |-> "InputsHigh", x |-> SendsAnalog(device.x /\ bit)]
      BY <1>1 DEF ShockInputsLow
    <3>3. device'.x <=> shock.config \/ shock.analog = "Analog"
      BY <3>2, Zenon DEF SendsAnalog
    <3>4. IF device'.x THEN id \in {115, 243} ELSE id = 65
      BY <3>1, <3>3 DEF Identification
    <3> QED
      BY <3>1, <3>4 DEF AnswersAnnounced
  <2> QED
    BY <1>1, <2>1, <2>2, <2>3 DEF ShockInputsLow, ShockStates, Modes
<1>2. CASE ShockModeChange(bit)
  <2>1. shock' \in ShockStates
    BY <1>2 DEF ShockModeChange, ShockStates
  <2>2. GameKnowsMode'
    BY <1>2 DEF ShockModeChange, GameKnowsMode, ShockStates
  <2>3. ASSUME ~disturbed PROVE Undisturbed'
    BY <1>2, <2>3 DEF ShockModeChange, AnswersAnnounced
  <2> QED
    BY <1>2, <2>1, <2>2, <2>3 DEF ShockModeChange, ShockStates, Modes
<1>3. CASE ShockLedLock(bit)
  <2>1. shock' \in ShockStates
    BY <1>3 DEF ShockLedLock, ShockStates
  <2>2. GameKnowsMode'
    BY <1>3 DEF ShockLedLock, GameKnowsMode, ShockStates
  <2>3. ASSUME ~disturbed PROVE Undisturbed'
    BY <1>3, <2>3 DEF ShockLedLock, AnswersAnnounced
  <2> QED
    BY <1>3, <2>1, <2>2, <2>3 DEF ShockLedLock, ShockStates, Modes
<1>4. CASE ShockLedState(modes)
  <2>1. PICK mode \in modes \cup {shock.analog} :
            /\ shock' = [shock EXCEPT !.analog = mode]
            /\ known' = IF mode \in modes THEN mode ELSE known
    BY <1>4 DEF ShockLedState
  <2>2. shock' \in ShockStates
    BY <2>1 DEF ShockStates, Modes
  <2>3. GameKnowsMode'
    BY <2>1 DEF GameKnowsMode, ShockStates
  <2>4. ASSUME ~disturbed PROVE Undisturbed'
    BY <1>4, <2>4 DEF ShockLedState, AnswersAnnounced
  <2> QED
    BY <1>4, <2>2, <2>3, <2>4 DEF ShockLedState, ShockStates, Modes
<1> QED
  BY <1>1, <1>2, <1>3, <1>4

LEMMA OthersKeep ==
    ASSUME PadInv, NEW controller \in BOOLEAN, NEW type \in Types, NEW button \in BOOLEAN,
           Select(controller) \/ Deselect \/ SetInputs(type, button)
    PROVE  PadInv'
<1> USE DEF PadInv, Undisturbed
<1>1. CASE Select(controller) \/ Deselect
  <2>1. UNCHANGED <<shock, known>>
    BY <1>1 DEF Select, Deselect
  <2>2. Undisturbed'
    BY <1>1 DEF Select, Deselect, Nothing, NoDevice, AnswersAnnounced, DigitalAt, ShockAt
  <2> QED
    BY <2>1, <2>2 DEF GameKnowsMode, ShockStates, Modes
<1>2. CASE SetInputs(type, button)
  <2> DEFINE s == IF type # controller_type THEN DefaultState ELSE shock
  <2>1. s \in ShockStates /\ (s.entered /\ ~s.changed => s.analog = known)
    BY DEF DefaultState, ShockStates, Modes, GameKnowsMode
  <2>2. Toggled(s) \in ShockStates /\ (Toggled(s).changed \/ Toggled(s) = s)
    <3> HIDE DEF s
    <3> QED
      BY <2>1 DEF Toggled, ShockStates, Modes
  <2>3. shock' \in {s, Toggled(s)}
    BY <1>2 DEF SetInputs
  <2>4. UNCHANGED <<device, id, answered, known>> 
    BY <1>2 DEF SetInputs
  <2>5. GameKnowsMode' /\ shock' \in ShockStates
    <3> HIDE DEF s
    <3> QED
      BY <2>1, <2>2, <2>3, <2>4 DEF GameKnowsMode
  <2>6. ASSUME ~disturbed' PROVE Undisturbed'
    <3>1. ~disturbed /\ shock' = shock
      BY <1>2, <2>6 DEF SetInputs
    <3> QED
      BY <3>1, <2>4 DEF AnswersAnnounced, DigitalAt, ShockAt, Identification
  <2> QED
    BY <2>5, <2>6 DEF ShockStates, Modes
<1> QED
  BY <1>1, <1>2

(* Where a pad is in its answer, what it announced, and what it has sent    *)
(* agree after every byte.                                                  *)
THEOREM PadStatesAgree == PadSpec => []PadInv
<1>1. PadInv /\ [PadNext]_padVars => PadInv'
  <2> SUFFICES ASSUME PadInv, [PadNext]_padVars PROVE PadInv'
    OBVIOUS
  <2>1. CASE UNCHANGED padVars
    BY <2>1 DEF padVars, PadInv, Undisturbed, AnswersAnnounced, DigitalAt, ShockAt,
                Identification, GameKnowsMode, ShockStates, Modes
  <2>2. ASSUME NEW bit \in BOOLEAN, ShockInputsLow(bit) \/ ShockModeChange(bit) \/ ShockLedLock(bit)
        PROVE  PadInv'
    BY <2>2, CommandKeeps
  <2>3. ASSUME NEW modes \in {{}, {"Digital"}, {"Analog"}}, ShockLedState(modes)
        PROVE  PadInv'
    BY <2>3, CommandKeeps
  <2>4. ASSUME NEW controller \in BOOLEAN, Select(controller) PROVE PadInv'
    BY <2>4, OthersKeep DEF Types
  <2>5. ASSUME Deselect PROVE PadInv'
    BY <2>5, OthersKeep DEF Types
  <2>6. ASSUME NEW type \in Types, NEW button \in BOOLEAN, SetInputs(type, button) PROVE PadInv'
    BY <2>6, OthersKeep
  <2> QED
    BY <2>1, <2>2, <2>3, <2>4, <2>5, <2>6, DigitalKeeps, AnswerKeeps DEF PadNext
<1> QED
  BY <1>1, PadStart, PTL DEF PadSpec

(* A pad sends as many bytes as it announced, unless the user disturbs it.  *)
THEOREM PadsAnswerInFull == PadSpec => []AnswersAnnounced
<1>1. PadInv => AnswersAnnounced
  BY DEF PadInv, Undisturbed, AnswersAnnounced
<1> QED
  BY <1>1, PadStatesAgree, PTL

(* A game that has set up a pad knows its mode, or is told of a change.     *)
THEOREM PadsTellTheirMode == PadSpec => []GameKnowsMode
<1>1. PadInv => GameKnowsMode
  BY DEF PadInv
<1> QED
  BY <1>1, PadStatesAgree, PTL

-----------------------------------------------------------------------------
(***************************************************************************)
(* The receive FIFO: the ring of RxFifo implements the queue of RxQueue.   *)
(***************************************************************************)

Slots == 0 .. FIFO_LEN - 1

(* The place in the ring that is n places behind i. *)
At(i, n) == (i + n) % FIFO_LEN

(* The slots that hold bytes begin at the read index and end before the     *)
(* write index.                                                             *)
Inv ==
    /\ DOMAIN values = Slots
    /\ read_idx \in Slots
    /\ len \in 0 .. FIFO_LEN
    /\ write_idx = At(read_idx, len)
-----------------------------------------------------------------------------
(* Places in a ring wrap around once. *)
LEMMA WrapsOnce ==
    ASSUME FifoAssumption, NEW i \in Slots, NEW n \in 0 .. FIFO_LEN
    PROVE  /\ At(i, n) = IF i + n < FIFO_LEN THEN i + n ELSE i + n - FIFO_LEN
           /\ At(i, n) \in Slots
BY Z3 DEF At, Slots, FifoAssumption

(* The distance from one place forward to another. *)
LEMMA Distance ==
    ASSUME FifoAssumption, NEW i \in Slots, NEW j \in Slots
    PROVE  (j - i) % FIFO_LEN = IF j >= i THEN j - i ELSE j - i + FIFO_LEN
BY Z3 DEF Slots, FifoAssumption

(* Going on from a place, and coming back to it. *)
LEMMA Further ==
    ASSUME FifoAssumption, NEW i \in Slots, NEW n \in 0 .. FIFO_LEN - 1
    PROVE  /\ At(At(i, 1), n) = At(i, n + 1)
           /\ At(At(i, n), 1) = At(i, n + 1)
           /\ At(i, 0) = i
           /\ At(i, FIFO_LEN) = i
           /\ At(i, n) = i => n = 0
<1>1. 1 \in 0 .. FIFO_LEN /\ n \in 0 .. FIFO_LEN /\ n + 1 \in 0 .. FIFO_LEN
      /\ 0 \in 0 .. FIFO_LEN /\ FIFO_LEN \in 0 .. FIFO_LEN
  BY DEF FifoAssumption
<1>2. \A j \in Slots, k \in 0 .. FIFO_LEN :
          /\ At(j, k) = IF j + k < FIFO_LEN THEN j + k ELSE j + k - FIFO_LEN
          /\ At(j, k) \in Slots
  BY WrapsOnce
<1>3. At(i, 0) = i /\ At(i, FIFO_LEN) = i
  BY <1>1, <1>2 DEF Slots, FifoAssumption
<1>4. At(i, n) = i => n = 0
  <2>1. At(i, n) = IF i + n < FIFO_LEN THEN i + n ELSE i + n - FIFO_LEN
    BY <1>1, <1>2
  <2>2. i \in Int /\ n \in Int /\ n < FIFO_LEN /\ FIFO_LEN \in Int
    BY DEF Slots, FifoAssumption
  <2> QED
    BY <2>1, <2>2
<1>5. At(At(i, 1), n) = At(i, n + 1)
  <2>1. /\ At(i, 1) = IF i + 1 < FIFO_LEN THEN i + 1 ELSE i + 1 - FIFO_LEN
        /\ At(i, 1) \in Slots
    BY <1>1, <1>2
  <2>2. At(At(i, 1), n) = IF At(i, 1) + n < FIFO_LEN THEN At(i, 1) + n
                          ELSE At(i, 1) + n - FIFO_LEN
    BY <1>1, <1>2, <2>1
  <2>3. At(i, n + 1) = IF i + (n + 1) < FIFO_LEN THEN i + (n + 1)
                       ELSE i + (n + 1) - FIFO_LEN
    BY <1>1, <1>2
  <2> QED
    BY <2>1, <2>2, <2>3 DEF Slots, FifoAssumption
<1>6. At(At(i, n), 1) = At(i, n + 1)
  <2>1. /\ At(i, n) = IF i + n < FIFO_LEN THEN i + n ELSE i + n - FIFO_LEN
        /\ At(i, n) \in Slots
    BY <1>1, <1>2
  <2>2. At(At(i, n), 1) = IF At(i, n) + 1 < FIFO_LEN THEN At(i, n) + 1
                          ELSE At(i, n) + 1 - FIFO_LEN
    BY <1>1, <1>2, <2>1
  <2>3. At(i, n + 1) = IF i + (n + 1) < FIFO_LEN THEN i + (n + 1)
                       ELSE i + (n + 1) - FIFO_LEN
    BY <1>1, <1>2
  <2> QED
    BY <2>1, <2>2, <2>3 DEF Slots, FifoAssumption
<1> QED
  BY <1>3, <1>4, <1>5, <1>6

(* Which of two places comes first from a third. *)
LEMMA Beyond ==
    ASSUME FifoAssumption, NEW i \in Slots,
           NEW k \in 0 .. FIFO_LEN - 1, NEW n \in 0 .. FIFO_LEN - 1
    PROVE  /\ (At(i, k) - At(i, n)) % FIFO_LEN < FIFO_LEN - n <=> k >= n
           /\ At(i, k) = At(i, n) <=> k = n
<1>1. k \in 0 .. FIFO_LEN /\ n \in 0 .. FIFO_LEN
  BY DEF FifoAssumption
<1>2. /\ At(i, k) = IF i + k < FIFO_LEN THEN i + k ELSE i + k - FIFO_LEN
      /\ At(i, n) = IF i + n < FIFO_LEN THEN i + n ELSE i + n - FIFO_LEN
      /\ At(i, k) \in Slots /\ At(i, n) \in Slots
  BY <1>1, WrapsOnce
<1>3. (At(i, k) - At(i, n)) % FIFO_LEN
         = IF At(i, k) >= At(i, n) THEN At(i, k) - At(i, n) ELSE At(i, k) - At(i, n) + FIFO_LEN
  BY <1>2, Distance
<1> QED
  BY <1>2, <1>3 DEF Slots, FifoAssumption

-----------------------------------------------------------------------------
(* The queue that the ring stands for. *)
Upcoming(v, r) == [i \in 1 .. FIFO_LEN |-> v[At(r, i - 1)]]

LEMMA Mapping ==
    ASSUME FifoAssumption, read_idx \in Slots
    PROVE  [i \in 1 .. FIFO_LEN |-> values[(read_idx + i - 1) % FIFO_LEN]]
               = Upcoming(values, read_idx)
<1>1. \A i \in 1 .. FIFO_LEN : read_idx + i - 1 = read_idx + (i - 1)
  BY DEF FifoAssumption, Slots
<1> QED
  BY <1>1 DEF Upcoming, At

LEMMA Initially == ASSUME FifoAssumption, FifoInit PROVE Inv
BY WrapsOnce DEF FifoInit, Inv, Slots, At, FifoAssumption

(* Push puts the byte behind the others, or in the place of the last. *)
LEMMA PushStep ==
    ASSUME FifoAssumption, Inv, NEW b \in Bytes, Push(b)
    PROVE  /\ Inv'
           /\ read_idx' = read_idx
           /\ IF len = FIFO_LEN
              THEN /\ Upcoming(values', read_idx)
                        = [Upcoming(values, read_idx) EXCEPT ![FIFO_LEN] = b]
                   /\ len' = len
              ELSE /\ Upcoming(values', read_idx)
                        = [i \in 1 .. FIFO_LEN |->
                              IF i > len THEN b ELSE Upcoming(values, read_idx)[i]]
                   /\ len' = len + 1
<1>1. \A i \in 1 .. FIFO_LEN : i - 1 \in 0 .. FIFO_LEN - 1
  BY DEF FifoAssumption
<1>2. \A n \in 0 .. FIFO_LEN : At(read_idx, n) \in Slots
  BY WrapsOnce DEF Inv
<1>3. \A i \in 1 .. FIFO_LEN : At(read_idx, i - 1) \in Slots
  BY <1>1, <1>2 DEF FifoAssumption
<1>4. CASE len = FIFO_LEN
  <2>1. write_idx = read_idx
    BY <1>4, Further, 0 \in 0 .. FIFO_LEN - 1 DEF Inv, FifoAssumption
  <2>2. (write_idx - 1) % FIFO_LEN = At(read_idx, FIFO_LEN - 1)
    <3>1. /\ At(read_idx, FIFO_LEN - 1)
                = IF read_idx + (FIFO_LEN - 1) < FIFO_LEN THEN read_idx + (FIFO_LEN - 1)
                  ELSE read_idx + (FIFO_LEN - 1) - FIFO_LEN
      BY WrapsOnce, FIFO_LEN - 1 \in 0 .. FIFO_LEN DEF Inv, FifoAssumption
    <3>2. (read_idx - 1) % FIFO_LEN = IF read_idx >= 1 THEN read_idx - 1
                                      ELSE read_idx - 1 + FIFO_LEN
      BY Z3 DEF Inv, Slots, FifoAssumption
    <3> QED
      BY <2>1, <3>1, <3>2 DEF Inv, Slots, FifoAssumption
  <2>3. /\ values' = [values EXCEPT ![At(read_idx, FIFO_LEN - 1)] = b]
        /\ UNCHANGED <<write_idx, read_idx, len>>
    BY <1>4, <2>2 DEF Push
  <2>4. \A i \in 1 .. FIFO_LEN :
            values'[At(read_idx, i - 1)] = IF i = FIFO_LEN THEN b ELSE values[At(read_idx, i - 1)]
    <3> TAKE i \in 1 .. FIFO_LEN
    <3>1. At(read_idx, i - 1) = At(read_idx, FIFO_LEN - 1) <=> i - 1 = FIFO_LEN - 1
      BY <1>1, Beyond, FIFO_LEN - 1 \in 0 .. FIFO_LEN - 1 DEF Inv, FifoAssumption
    <3>2. i - 1 = FIFO_LEN - 1 <=> i = FIFO_LEN
      BY DEF FifoAssumption
    <3> QED
      BY <1>3, <2>3, <3>1, <3>2 DEF Inv
  <2>5. Upcoming(values', read_idx) = [Upcoming(values, read_idx) EXCEPT ![FIFO_LEN] = b]
    BY <2>4 DEF Upcoming, FifoAssumption
  <2> QED
    BY <1>4, <2>3, <2>5 DEF Inv, At
<1>5. CASE len # FIFO_LEN
  <2>1. len \in 0 .. FIFO_LEN - 1
    BY <1>5 DEF Inv, FifoAssumption
  <2>2. /\ values' = [i \in Slots |->
                         IF (i - write_idx) % FIFO_LEN < FIFO_LEN - len THEN b ELSE values[i]]
        /\ write_idx' = At(write_idx, 1)
        /\ len' = len + 1
        /\ UNCHANGED read_idx
    BY <1>5 DEF Push, Slots, At
  <2>3. write_idx' = At(read_idx, len + 1)
    BY <2>1, <2>2, Further DEF Inv
  <2>4. \A i \in 1 .. FIFO_LEN :
            values'[At(read_idx, i - 1)] = IF i > len THEN b ELSE values[At(read_idx, i - 1)]
    <3> TAKE i \in 1 .. FIFO_LEN
    <3>1. (At(read_idx, i - 1) - At(read_idx, len)) % FIFO_LEN < FIFO_LEN - len <=> i - 1 >= len
      BY <1>1, <2>1, Beyond DEF Inv
    <3>2. i - 1 >= len <=> i > len
      BY <2>1 DEF FifoAssumption
    <3> QED
      BY <1>3, <2>2, <3>1, <3>2 DEF Inv
  <2>5. Upcoming(values', read_idx)
            = [i \in 1 .. FIFO_LEN |-> IF i > len THEN b ELSE Upcoming(values, read_idx)[i]]
    BY <2>4 DEF Upcoming
  <2>6. Inv'
    <3>1. DOMAIN values' = Slots
      BY <2>2
    <3>2. read_idx' \in Slots /\ len' \in 0 .. FIFO_LEN
      BY <2>1, <2>2 DEF Inv, FifoAssumption
    <3>3. write_idx' = At(read_idx', len')
      BY <2>2, <2>3
    <3> QED
      BY <3>1, <3>2, <3>3 DEF Inv
  <2> QED
    BY <1>5, <2>2, <2>5, <2>6
<1> QED
  BY <1>4, <1>5

(* Pop takes the first byte; what it leaves behind reads as zero. *)
LEMMA PopStep ==
    ASSUME FifoAssumption, Inv, Pop
    PROVE  /\ Inv'
           /\ Upcoming(values', read_idx')
                = [i \in 1 .. FIFO_LEN |-> IF i = FIFO_LEN THEN 0
                                           ELSE Upcoming(values, read_idx)[i + 1]]
           /\ len' = IF len = 0 THEN 0 ELSE len - 1
<1>1. /\ values' = [values EXCEPT ![read_idx] = 0]
      /\ read_idx' = At(read_idx, 1)
      /\ IF len # 0 THEN len' = len - 1 /\ UNCHANGED write_idx
         ELSE write_idx' = read_idx' /\ UNCHANGED len
  BY DEF Pop, At
<1>2. read_idx' \in Slots
  BY <1>1, WrapsOnce, 1 \in 0 .. FIFO_LEN DEF Inv, FifoAssumption
<1>3. \A i \in 1 .. FIFO_LEN :
          values'[At(read_idx', i - 1)]
              = IF i = FIFO_LEN THEN 0 ELSE values[At(read_idx, (i + 1) - 1)]
  <2> TAKE i \in 1 .. FIFO_LEN
  <2>1. i - 1 \in 0 .. FIFO_LEN - 1 /\ (i - 1) + 1 = i /\ (i + 1) - 1 = i
    BY DEF FifoAssumption
  <2>2. At(read_idx', i - 1) = At(read_idx, i)
    <3>1. At(At(read_idx, 1), i - 1) = At(read_idx, (i - 1) + 1)
      BY <2>1, Further DEF Inv
    <3> QED
      BY <1>1, <2>1, <3>1
  <2>3. CASE i = FIFO_LEN
    <3>1. At(read_idx, i) = read_idx
      BY <2>1, <2>3, Further DEF Inv
    <3> QED
      BY <1>1, <2>2, <2>3, <3>1 DEF Inv
  <2>4. CASE i # FIFO_LEN
    <3>1. i \in 0 .. FIFO_LEN - 1 /\ i # 0
      BY <2>4 DEF FifoAssumption
    <3>2. At(read_idx, i) # read_idx
      BY <3>1, Further DEF Inv
    <3>3. At(read_idx, i) \in Slots
      BY <3>1, WrapsOnce DEF Inv, FifoAssumption
    <3> QED
      BY <1>1, <2>1, <2>2, <2>4, <3>2, <3>3 DEF Inv
  <2> QED
    BY <2>3, <2>4
<1>4. Upcoming(values', read_idx')
        = [i \in 1 .. FIFO_LEN |-> IF i = FIFO_LEN THEN 0
                                   ELSE Upcoming(values, read_idx)[i + 1]]
  <2>1. \A i \in 1 .. FIFO_LEN : i # FIFO_LEN => i + 1 \in 1 .. FIFO_LEN
    BY DEF FifoAssumption
  <2> QED
    BY <1>3, <2>1 DEF Upcoming
<1>5. write_idx' = At(read_idx', len')
  <2>1. CASE len = 0
    BY <1>1, <1>2, <2>1, Further, 0 \in 0 .. FIFO_LEN - 1 DEF FifoAssumption
  <2>2. CASE len # 0
    <3>1. len - 1 \in 0 .. FIFO_LEN - 1 /\ (len - 1) + 1 = len
      BY <2>2 DEF Inv, FifoAssumption
    <3>2. At(At(read_idx, 1), len - 1) = At(read_idx, (len - 1) + 1)
      BY <3>1, Further DEF Inv
    <3> QED
      BY <1>1, <2>2, <3>1, <3>2 DEF Inv
  <2> QED
    BY <2>1, <2>2
<1>6. len' \in 0 .. FIFO_LEN /\ DOMAIN values' = Slots
  BY <1>1 DEF Inv, FifoAssumption
<1> QED
  BY <1>1, <1>2, <1>4, <1>5, <1>6 DEF Inv

LEMMA ClearStep ==
    ASSUME FifoAssumption, Clear
    PROVE  /\ Inv'
           /\ Upcoming(values', read_idx') = [i \in 1 .. FIFO_LEN |-> 0]
           /\ len' = 0
<1>1. /\ values' = [i \in Slots |-> 0]
      /\ write_idx' = 0 /\ read_idx' = 0 /\ len' = 0
  BY DEF Clear, Slots
<1>2. 0 \in Slots /\ At(0, 0) = 0
  BY WrapsOnce, 0 \in 0 .. FIFO_LEN DEF Slots, FifoAssumption
<1>3. \A i \in 1 .. FIFO_LEN : At(0, i - 1) \in Slots
  BY <1>2, WrapsOnce DEF FifoAssumption
<1> QED
  BY <1>1, <1>2, <1>3 DEF Inv, Upcoming, FifoAssumption
-----------------------------------------------------------------------------
LEMMA InvStep == ASSUME FifoAssumption, Inv, [FifoNext]_fifoVars PROVE Inv'
<1>1. CASE Pop
  BY <1>1, PopStep
<1>2. CASE Clear
  BY <1>2, ClearStep
<1>3. CASE \E b \in Bytes : Push(b)
  BY <1>3, PushStep
<1>4. CASE UNCHANGED fifoVars
  BY <1>4 DEF fifoVars, Inv, At
<1> QED
  BY <1>1, <1>2, <1>3, <1>4 DEF FifoNext

(* The indices stay in the ring, and the write index is as many slots       *)
(* behind the read index as there are bytes.                                *)
THEOREM IndicesAgree == FifoSpec => []Inv
<1>1. FifoInit => Inv
  BY Initially, LengthAssumed
<1>2. Inv /\ [FifoNext]_fifoVars => Inv'
  BY InvStep, LengthAssumed
<1> QED
  BY <1>1, <1>2, PTL DEF FifoSpec

LEMMA QueueStep ==
    ASSUME FifoAssumption, Inv, [FifoNext]_fifoVars
    PROVE  [Queue!QueuePop \/ Queue!QueueClear \/ \E b \in Bytes : Queue!QueuePush(b)]_
               <<[i \in 1 .. FIFO_LEN |-> values[(read_idx + i - 1) % FIFO_LEN]], len>>
<1> DEFINE upcoming == [i \in 1 .. FIFO_LEN |-> values[(read_idx + i - 1) % FIFO_LEN]]
<1>1. upcoming = Upcoming(values, read_idx)
  BY Mapping DEF Inv
<1>2. Inv'
  BY InvStep
<1>3. upcoming' = Upcoming(values', read_idx')
  <2>1. \A i \in 1 .. FIFO_LEN : read_idx' + i - 1 = read_idx' + (i - 1)
    BY <1>2 DEF Inv, Slots, FifoAssumption
  <2> QED
    BY <2>1 DEF Upcoming, At
<1>4. CASE Pop
  <2>1. Queue!QueuePop
    BY <1>1, <1>3, <1>4, PopStep DEF Queue!QueuePop
  <2> QED
    BY <2>1
<1>5. CASE Clear
  <2>1. Queue!QueueClear
    BY <1>3, <1>5, ClearStep DEF Queue!QueueClear, Queue!Zeros
  <2> QED
    BY <2>1
<1>6. ASSUME NEW b \in Bytes, Push(b) PROVE Queue!QueuePush(b)
  BY <1>1, <1>3, <1>6, PushStep DEF Queue!QueuePush
<1>7. CASE UNCHANGED fifoVars
  BY <1>7 DEF fifoVars
<1> QED
  BY <1>4, <1>5, <1>6, <1>7 DEF FifoNext

(* However long it is, and however it is overrun and read while empty, the  *)
(* ring gives the bytes that the queue gives.                               *)
THEOREM RingImplementsQueue == FifoSpec => IsQueue
<1> USE LengthAssumed
<1>1. FifoInit => Queue!QueueInit
  <2> SUFFICES ASSUME FifoInit PROVE Queue!QueueInit
    OBVIOUS
  <2>1. values = [i \in Slots |-> 0] /\ read_idx = 0 /\ len = 0
    BY DEF FifoInit, Slots
  <2>2. 0 \in Slots /\ \A i \in 1 .. FIFO_LEN : i - 1 \in 0 .. FIFO_LEN
    BY DEF Slots, FifoAssumption
  <2>3. \A i \in 1 .. FIFO_LEN : At(0, i - 1) \in Slots
    BY <2>2, WrapsOnce
  <2>4. Upcoming(values, read_idx) = [i \in 1 .. FIFO_LEN |-> 0]
    BY <2>1, <2>3 DEF Upcoming
  <2>5. [i \in 1 .. FIFO_LEN |-> values[(read_idx + i - 1) % FIFO_LEN]]
            = Upcoming(values, read_idx)
    BY <2>1, <2>2, Mapping
  <2> QED
    BY <2>1, <2>4, <2>5 DEF Queue!QueueInit, Queue!Zeros
<1>2. Inv /\ [FifoNext]_fifoVars =>
        [Queue!QueuePop \/ Queue!QueueClear \/ \E b \in Bytes : Queue!QueuePush(b)]_
            <<[i \in 1 .. FIFO_LEN |-> values[(read_idx + i - 1) % FIFO_LEN]], len>>
  BY QueueStep
<1> QED
  BY <1>1, <1>2, IndicesAgree, PTL DEF FifoSpec, IsQueue, Queue!QueueSpec

(***************************************************************************)
(* The voice.                                                              *)
(***************************************************************************)
Bytes8 == 0 .. RAM_LEN - 1
Phases == {"attack", "decay", "sustain", "release"}
Delays == 0 .. 5
Samples == 4 .. 31
MaxPitch == 4095
Pitches == 0 .. MaxPitch
Levels == 0 .. MaxLevel
Voices ==
    [start : Bytes8, repeat : Bytes8, locked : BOOLEAN, current : Bytes8,
     restart_pending : BOOLEAN, restart_delay : Delays, release_pending : BOOLEAN,
     phase : Phases, level : Levels, counter : Int, adsr : AdsrSettings,
     idx : Samples, pitch_counter : Pitches, rate : Nat]

VoiceInv ==
    /\ voice \in Voices /\ voice.current % 16 = 0
    /\ soft_reset => voice.level = 0 /\ (voice.phase = "release" \/ voice.restart_delay > 3)
    /\ silenced => /\ voice.restart_delay <= 4
                   /\ voice.release_pending \/ voice.phase = "release"
    /\ keptRepeat # None => voice.locked /\ voice.repeat = keptRepeat

(* An envelope step goes in the direction it is set to. *)
Envelopes == [step : 0 .. 3, shift : 0 .. 31, falling : BOOLEAN, exponential : BOOLEAN]

LEMMA PowersAreNumbers ==
    ASSUME VoiceAssumption, NEW n \in 0 .. 15
    PROVE  2^n \in Nat /\ 2^n # 0
BY Zenon DEF VoiceAssumption

LEMMA PitchRange == \A x : x \in Pitches <=> x \in Int /\ 0 <= x /\ x <= 4095
<1>1. MaxPitch \in Nat
  BY DEF MaxPitch
<1>2. \A x : x \in Pitches <=> x \in Int /\ 0 <= x /\ x <= MaxPitch
  BY <1>1 DEF Pitches
<1>3. MaxPitch = 4095
  BY DEF MaxPitch
<1> QED
  BY <1>2, <1>3

LEMMA LevelIsNumber == MaxLevel \in Nat
BY DEF MaxLevel

LEMMA Clamping ==
    ASSUME NEW x \in Int, NEW a \in Int, NEW b \in Int, a <= b
    PROVE  /\ Clamp(x, a, b) \in a .. b
           /\ x <= a => Clamp(x, a, b) = a
           /\ 0 <= x /\ 0 <= b => Clamp(x, a, b) \in 0 .. b
BY DEF Clamp, AtMost, AtLeast

LEMMA StepDirection ==
    ASSUME VoiceAssumption, NEW s \in Envelopes, NEW shift \in Nat, NEW level \in Levels
    PROVE  /\ EnvelopeStep(s, shift, level) \in Int
           /\ s.falling => EnvelopeStep(s, shift, level) <= 0
           /\ ~s.falling => EnvelopeStep(s, shift, level) >= 0
<1> DEFINE p == 2^AtLeast(0, 11 - shift)
           base == IF s.falling THEN -(8 - s.step) ELSE 7 - s.step
           step == base * p
<1>1. p \in Nat
  <2>1. AtLeast(0, 11 - shift) \in 0 .. 15
    BY DEF AtLeast
  <2> QED
    BY <2>1, PowersAreNumbers, Zenon
<1> HIDE DEF p
<1>2. /\ base \in Int
      /\ s.falling => base <= 0
      /\ ~s.falling => base >= 0
  BY DEF Envelopes
<1> HIDE DEF base
<1>3. /\ step \in Int
      /\ s.falling => step <= 0
      /\ ~s.falling => step >= 0
  BY <1>1, <1>2, Z3
<1> HIDE DEF step
<1>4. /\ step * level \in Int
      /\ s.falling => step * level <= 0
  <2>1. level \in Int /\ level >= 0
    BY DEF Levels
  <2> QED
    BY <1>3, <2>1, Z3
<1> DEFINE y == step * level
<1>5. /\ y \div 32768 \in Int
      /\ s.falling => y \div 32768 <= 0
  <2> HIDE DEF y
  <2>1. y \in Int /\ (s.falling => y <= 0)
    BY <1>4 DEF y
  <2> QED
    BY <2>1, Z3
<1>6. EnvelopeStep(s, shift, level) = IF s.falling /\ s.exponential THEN y \div 32768 ELSE step
  BY DEF EnvelopeStep, step, base, p
<1> HIDE DEF y
<1> QED
  BY <1>3, <1>5, <1>6

LEMMA EnvelopeLevel ==
    ASSUME VoiceAssumption, NEW s \in Envelopes, NEW level \in Levels, NEW counter \in Int
    PROVE  /\ EnvelopeClock(s, level, counter).level \in Levels
           /\ EnvelopeClock(s, level, counter).counter \in Int
           /\ s.falling /\ level = 0 => EnvelopeClock(s, level, counter).level = 0
<1> DEFINE shift == EffectiveShift(s, level)
           c == counter + CounterIncrement(s, shift)
           step == EnvelopeStep(s, shift, level)
           l == level + step
<1>1. shift \in Nat
  BY DEF EffectiveShift, Envelopes
<1> HIDE DEF shift
<1>2. c \in Int
  <2> DEFINE n == AtLeast(0, shift - 11)
  <2>1. n \in Nat
    BY <1>1 DEF AtLeast
  <2> HIDE DEF n
  <2>2. n < 16 => 2^n \in Nat /\ 2^n # 0
    <3> SUFFICES ASSUME n < 16 PROVE 2^n \in Nat /\ 2^n # 0
      OBVIOUS
    <3>1. n \in 0 .. 15
      BY <2>1
    <3> QED
      BY <3>1, PowersAreNumbers, Zenon
  <2>3. n < 16 => 32768 \div 2^n \in Int
    <3> DEFINE p == 2^n
    <3>1. n < 16 => p \in Nat /\ p # 0
      BY <2>2
    <3> HIDE DEF p
    <3>2. n < 16 => 32768 \div p \in Int
      BY <3>1, Z3
    <3> QED
      BY <3>2 DEF p
  <2>4. CounterIncrement(s, shift) \in Int
    BY <2>3 DEF CounterIncrement, n
  <2> QED
    BY <2>4
<1>3. /\ l \in Int
      /\ s.falling => l <= level
      /\ ~s.falling => l >= 0
  <2>0. level \in Int /\ level >= 0
    BY DEF Levels
  <2>1. /\ step \in Int
        /\ s.falling => step <= 0
        /\ ~s.falling => step >= 0
    BY <1>1, StepDirection
  <2> HIDE DEF step
  <2> QED
    BY <2>0, <2>1
<1> HIDE DEF c, l
<1>4. /\ Clamp(l, 0, MaxLevel) \in Levels 
      /\ l <= 0 => Clamp(l, 0, MaxLevel) = 0
      /\ l >= 0 => Clamp(l, -32768, MaxLevel) \in Levels
  <2>1. Clamp(l, 0, MaxLevel) \in 0 .. MaxLevel /\ (l <= 0 => Clamp(l, 0, MaxLevel) = 0)
    BY <1>3, Clamping, LevelIsNumber
  <2>2. 0 <= l => Clamp(l, -32768, MaxLevel) \in 0 .. MaxLevel
    BY <1>3, Clamping, LevelIsNumber
  <2> QED
    BY <2>1, <2>2, <1>3 DEF Levels
<1>5. EnvelopeClock(s, level, counter) =
        IF (c \div 32768) % 2 = 0 THEN [level |-> level, counter |-> c]
        ELSE [level |-> IF s.falling THEN Clamp(l, 0, MaxLevel) ELSE Clamp(l, -32768, MaxLevel),
              counter |-> 0]
  BY DEF EnvelopeClock, c, l, step, shift
<1>6. CASE (c \div 32768) % 2 = 0
  BY <1>2, <1>5, <1>6
<1>7. CASE ~((c \div 32768) % 2 = 0)
  <2>1. EnvelopeClock(s, level, counter) =
          [level |-> IF s.falling THEN Clamp(l, 0, MaxLevel) ELSE Clamp(l, -32768, MaxLevel),
           counter |-> 0]
    BY <1>5, <1>7
  <2>2. CASE s.falling
    BY <2>1, <2>2, <1>3, <1>4
  <2>3. CASE ~s.falling
    BY <2>1, <2>3, <1>3, <1>4
  <2> QED
    BY <2>2, <2>3
<1> QED
  BY <1>6, <1>7

(* Addresses of blocks are those of aligned RAM. *)
LEMMA Alignment ==
    ASSUME VoiceAssumption
    PROVE  /\ \A a \in Bytes8 : Align(a) \in Bytes8 /\ Align(a) % 16 = 0
           /\ \A a \in Bytes8 : a % 16 = 0 =>
                  /\ a \in 0 .. RAM_LEN - 16
                  /\ (a + 16) % RAM_LEN \in Bytes8 /\ ((a + 16) % RAM_LEN) % 16 = 0
<1>1. RAM_LEN \in Nat \ {0} /\ RAM_LEN % 16 = 0
  BY DEF VoiceAssumption
<1>2. ASSUME NEW a \in Bytes8 PROVE Align(a) \in Bytes8 /\ Align(a) % 16 = 0
  BY <1>1, Z3 DEF Align, Bytes8
<1>3. ASSUME NEW a \in Bytes8, a % 16 = 0
      PROVE  /\ a \in 0 .. RAM_LEN - 16
             /\ (a + 16) % RAM_LEN \in Bytes8 /\ ((a + 16) % RAM_LEN) % 16 = 0
  <2>1. a \in 0 .. RAM_LEN - 16
    BY <1>1, <1>3, Z3 DEF Bytes8
  <2>2. (a + 16) % RAM_LEN = IF a + 16 < RAM_LEN THEN a + 16 ELSE 0
    <3>1. \A x, n \in Nat : x < n => x % n = x
      BY Z3
    <3>2. \A n \in Nat \ {0} : n % n = 0
      BY Z3
    <3> QED
      BY <2>1, <1>1, <3>1, <3>2
  <2>3. (a + 16) % 16 = 0
    BY <2>1, <1>1, <1>3, Z3
  <2>4. CASE a + 16 < RAM_LEN
    BY <1>1, <2>1, <2>2, <2>3, <2>4 DEF Bytes8
  <2>5. CASE ~(a + 16 < RAM_LEN)
    BY <1>1, <2>1, <2>2, <2>5 DEF Bytes8
  <2> QED
    BY <2>1, <2>4, <2>5
<1> QED
  BY <1>2, <1>3

VoiceTypes(v) == v \in Voices /\ v.current % 16 = 0

LEMMA DecodeKeeps ==
    ASSUME VoiceAssumption, NEW v, VoiceTypes(v), NEW h \in Headers
    PROVE  /\ VoiceTypes(Decode(v, h))
           /\ v.locked => Decode(v, h).repeat = v.repeat
           /\ Decode(v, h).locked <=> v.locked
           /\ Decode(v, h).release_pending <=> v.release_pending
           /\ Decode(v, h).restart_delay = v.restart_delay
           /\ Decode(v, h).phase \in {v.phase, "release"}
           /\ Decode(v, h).level \in {v.level, 0}
<1> DEFINE repeat == IF h.loop_start /\ ~v.locked THEN v.current ELSE v.repeat
           ends == h.loop_end /\ ~h.loop_repeat
           current == IF h.loop_end THEN Align(repeat) ELSE (v.current + 16) % RAM_LEN
           phase == IF ends THEN "release" ELSE v.phase
           level == IF ends THEN 0 ELSE v.level
<1>1. v \in Voices /\ v.current \in Bytes8 /\ v.repeat \in Bytes8 /\ v.current % 16 = 0
  BY DEF VoiceTypes, Voices
<1>2. /\ repeat \in Bytes8
      /\ v.locked => repeat = v.repeat
  BY <1>1
<1>3. current \in Bytes8 /\ current % 16 = 0
  <2> HIDE DEF repeat
  <2> QED
    BY <1>1, <1>2, Alignment
<1>4. phase \in {v.phase, "release"} /\ level \in {v.level, 0}
  OBVIOUS
<1>5. Decode(v, h) = [v EXCEPT !.repeat = repeat, !.idx = 4, !.current = current,
                               !.phase = phase, !.level = level]
  BY DEF Decode
<1> HIDE DEF repeat, current, phase, level
<1>6. v.phase \in Phases /\ v.level \in Levels /\ "release" \in Phases
      /\ 0 \in Levels /\ 4 \in Samples
  BY <1>1, LevelIsNumber DEF Voices, Phases, Levels, Samples
<1>7. phase \in Phases /\ level \in Levels
  BY <1>4, <1>6
<1> QED
  BY <1>1, <1>2, <1>3, <1>4, <1>5, <1>6, <1>7 DEF VoiceTypes, Voices

LEMMA RestartKeeps ==
    ASSUME VoiceAssumption, NEW v, VoiceTypes(v), NEW h \in Headers
    PROVE  /\ VoiceTypes(Restart(v, h))
           /\ Restart(v, h).restart_delay = 5
           /\ Restart(v, h).level = 0
<1> DEFINE w == [v EXCEPT !.restart_pending = FALSE, !.restart_delay = 5, !.locked = FALSE,
                          !.phase = "attack", !.level = 0, !.current = Align(v.start),
                          !.pitch_counter = 0]
<1>1. /\ 5 \in Delays /\ 0 \in Levels /\ 0 \in Pitches /\ "attack" \in Phases
      /\ v \in Voices /\ v.start \in Bytes8
  BY LevelIsNumber, PitchRange DEF Delays, Levels, Phases, VoiceTypes, Voices
<1>2. Align(v.start) \in Bytes8 /\ Align(v.start) % 16 = 0
  BY <1>1, Alignment
<1>3. VoiceTypes(w) /\ w.restart_delay = 5 /\ w.level = 0
  BY <1>1, <1>2 DEF VoiceTypes, Voices
<1>4. Restart(v, h) = Decode(w, h)
  BY DEF Restart
<1> HIDE DEF w
<1> QED
  BY <1>3, <1>4, DecodeKeeps

LEMMA WaitKeeps ==
    ASSUME VoiceAssumption, NEW v, VoiceTypes(v), v.restart_delay # 0
    PROVE  LET w == Wait(v)
           IN  /\ VoiceTypes(w)
               /\ w.restart_delay = v.restart_delay - 1
               /\ ~w.release_pending
               /\ w.repeat = v.repeat /\ (w.locked <=> v.locked)
               /\ w.level = v.level
               /\ v.phase = "release" => w.phase = "release"
               /\ v.restart_delay <= 4 /\ (v.release_pending \/ soft_reset)
                    => w.phase = "release"
<1> DEFINE delay == v.restart_delay - 1
           phase == IF delay <= 3 /\ (v.release_pending \/ soft_reset)
                    THEN "release" ELSE v.phase
<1>1. /\ v \in Voices /\ v.restart_delay \in Delays /\ v.phase \in Phases
      /\ v.current % 16 = 0
  BY DEF VoiceTypes, Voices
<1>2. delay \in Delays /\ (v.restart_delay <= 4 => delay <= 3)
  BY <1>1 DEF Delays
<1>3. /\ phase \in Phases
      /\ v.phase = "release" => phase = "release"
      /\ v.restart_delay <= 4 /\ (v.release_pending \/ soft_reset) => phase = "release"
  BY <1>1, <1>2 DEF Phases
<1>4. Wait(v) = [v EXCEPT !.restart_delay = delay, !.release_pending = FALSE, !.phase = phase]
  BY DEF Wait
<1>5. delay = v.restart_delay - 1
  OBVIOUS
<1> HIDE DEF delay, phase
<1> QED
  BY <1>1, <1>2, <1>3, <1>4, <1>5 DEF VoiceTypes, Voices

(* The envelope of a released voice falls, and at the bottom it stays. *)
LEMMA AdsrKeeps ==
    ASSUME VoiceAssumption, NEW v, VoiceTypes(v)
    PROVE  LET w == AdsrClock(v)
           IN  /\ VoiceTypes(w)
               /\ v.phase = "release" => w.phase = "release"
               /\ v.phase = "release" /\ v.level = 0 => w.level = 0
               /\ w.repeat = v.repeat /\ (w.locked <=> v.locked)
               /\ w.restart_delay = v.restart_delay
               /\ (w.release_pending <=> v.release_pending)
<1> DEFINE phase == NextPhase(v)
           settings == PhaseSettings(v.adsr, phase)
           e == EnvelopeClock(settings, v.level, v.counter)
<1>1. /\ v \in Voices /\ v.adsr \in AdsrSettings /\ v.level \in Levels /\ v.counter \in Int
      /\ v.phase \in Phases /\ v.current % 16 = 0
  BY DEF VoiceTypes, Voices
<1>2. phase \in Phases /\ (v.phase = "release" => phase = "release")
  BY <1>1 DEF NextPhase, Phases
<1> HIDE DEF phase
<1>3. settings \in Envelopes /\ (phase = "release" => settings.falling)
  <2>1. CASE phase = "attack"
    BY <1>1, <2>1 DEF PhaseSettings, Envelope, Envelopes, AdsrSettings
  <2>2. CASE phase = "decay"
    BY <1>1, <2>2 DEF PhaseSettings, Envelope, Envelopes, AdsrSettings
  <2>3. CASE phase = "sustain"
    BY <1>1, <2>3 DEF PhaseSettings, Envelope, Envelopes, AdsrSettings
  <2>4. CASE phase = "release"
    BY <1>1, <2>4 DEF PhaseSettings, Envelope, Envelopes, AdsrSettings
  <2> QED
    BY <1>2, <2>1, <2>2, <2>3, <2>4 DEF Phases
<1> HIDE DEF settings
<1>4. /\ e.level \in Levels /\ e.counter \in Int
      /\ settings.falling /\ v.level = 0 => e.level = 0
  BY <1>1, <1>3, EnvelopeLevel
<1>5. AdsrClock(v) = [v EXCEPT !.phase = phase, !.level = e.level, !.counter = e.counter]
  BY DEF AdsrClock, phase, settings
<1> HIDE DEF e
<1> QED
  BY <1>1, <1>2, <1>3, <1>4, <1>5 DEF VoiceTypes, Voices

LEMMA Playing ==
    ASSUME NEW v, VoiceTypes(v)
    PROVE  /\ Pitch(v) % 4096 \in Pitches
           /\ NeedsBlock(v) => (v.idx + Pitch(v) \div 4096) - 28 \in Samples
           /\ ~NeedsBlock(v) => v.idx + Pitch(v) \div 4096 \in Samples
<1>1. /\ v.idx \in Int /\ 4 <= v.idx /\ v.idx <= 31
      /\ v.pitch_counter \in Int /\ 0 <= v.pitch_counter /\ v.pitch_counter <= 4095
      /\ v.rate \in Nat
  <2>1. v.idx \in Samples /\ v.pitch_counter \in Pitches /\ v.rate \in Nat
    BY DEF VoiceTypes, Voices
  <2>3. v.pitch_counter \in Int /\ 0 <= v.pitch_counter /\ v.pitch_counter <= 4095
    BY <2>1, PitchRange
  <2> QED
    BY <2>1, <2>3 DEF Samples
<1> DEFINE p == Pitch(v)
<1>2. p \in Int /\ 0 <= p /\ p <= 20479
  BY <1>1 DEF Pitch, AtMost
<1> HIDE DEF p
<1>3. /\ p \div 4096 \in Int /\ 0 <= p \div 4096 /\ p \div 4096 <= 4
      /\ p % 4096 \in Int /\ 0 <= p % 4096 /\ p % 4096 <= 4095
  BY <1>2, Z3
<1>4. p % 4096 \in Pitches
  BY <1>3, PitchRange
<1> DEFINE n == p \div 4096
<1> HIDE DEF n
<1>5. n \in Int /\ 0 <= n /\ n <= 4
  BY <1>3 DEF n
<1>6. /\ v.idx + n >= 32 => (v.idx + n) - 28 \in Samples
      /\ ~(v.idx + n >= 32) => v.idx + n \in Samples
  BY <1>1, <1>5 DEF Samples
<1> QED
  BY <1>4, <1>6 DEF NeedsBlock, n, p

LEMMA PlayKeeps ==
    ASSUME VoiceAssumption, NEW v, VoiceTypes(v), NEW h \in Headers
    PROVE  LET w == Play(v, h)
           IN  /\ VoiceTypes(w)
               /\ w.restart_delay = v.restart_delay
               /\ v.phase = "release" \/ v.release_pending => w.phase = "release"
               /\ v.phase = "release" /\ v.level = 0 => w.level = 0
               /\ v.locked => w.locked /\ w.repeat = v.repeat
<1> DEFINE phase == IF v.release_pending THEN "release" ELSE v.phase
           released == [v EXCEPT !.release_pending = FALSE, !.phase = phase]
           clocked == AdsrClock(released)
           next == [clocked EXCEPT !.pitch_counter = Pitch(v) % 4096]
           idx == v.idx + Pitch(v) \div 4096
<1>1. /\ VoiceTypes(released)
      /\ v.phase = "release" \/ v.release_pending => released.phase = "release"
      /\ released.level = v.level /\ released.restart_delay = v.restart_delay
      /\ (released.locked <=> v.locked) /\ released.repeat = v.repeat
  <2>1. /\ phase \in Phases
        /\ v.phase = "release" \/ v.release_pending => phase = "release"
    BY DEF VoiceTypes, Voices, Phases
  <2> HIDE DEF phase
  <2> QED
    BY <2>1 DEF VoiceTypes, Voices
<1> HIDE DEF released
<1>2. /\ VoiceTypes(clocked)
      /\ v.phase = "release" \/ v.release_pending => clocked.phase = "release"
      /\ v.phase = "release" /\ v.level = 0 => clocked.level = 0
      /\ clocked.restart_delay = v.restart_delay
      /\ (clocked.locked <=> v.locked) /\ clocked.repeat = v.repeat
  BY <1>1, AdsrKeeps
<1> HIDE DEF clocked
<1>3. /\ VoiceTypes(next)
      /\ v.phase = "release" \/ v.release_pending => next.phase = "release"
      /\ v.phase = "release" /\ v.level = 0 => next.level = 0
      /\ next.restart_delay = v.restart_delay
      /\ (next.locked <=> v.locked) /\ next.repeat = v.repeat
  <2> DEFINE p == Pitch(v) % 4096
  <2>1. p \in Pitches
    BY Playing
  <2> HIDE DEF p
  <2>2. next = [clocked EXCEPT !.pitch_counter = p]
    BY DEF p
  <2> QED
    BY <1>2, <2>1, <2>2 DEF VoiceTypes, Voices
<1> DEFINE decoded == Decode(next, h)
<1>4. Play(v, h) = IF NeedsBlock(v) THEN [decoded EXCEPT !.idx = idx - 28]
                   ELSE [next EXCEPT !.idx = idx]
  BY DEF Play, clocked, released
<1>5. /\ NeedsBlock(v) => idx - 28 \in Samples
      /\ ~NeedsBlock(v) => idx \in Samples
  BY Playing
<1> HIDE DEF next, idx
<1>6. /\ VoiceTypes(decoded)
      /\ v.phase = "release" \/ v.release_pending => decoded.phase = "release"
      /\ v.phase = "release" /\ v.level = 0 => decoded.level = 0
      /\ decoded.restart_delay = v.restart_delay
      /\ (decoded.locked <=> v.locked) /\ (v.locked => decoded.repeat = v.repeat)
  BY <1>3, DecodeKeeps
<1> HIDE DEF decoded
<1>7. CASE NeedsBlock(v)
  <2>1. Play(v, h) = [decoded EXCEPT !.idx = idx - 28] /\ idx - 28 \in Samples
    BY <1>4, <1>5, <1>7
  <2> DEFINE i == idx - 28
  <2> HIDE DEF i
  <2>2. Play(v, h) = [decoded EXCEPT !.idx = i] /\ i \in Samples
    BY <2>1 DEF i
  <2> QED
    BY <2>2, <1>6 DEF VoiceTypes, Voices
<1>8. CASE ~NeedsBlock(v)
  <2>1. Play(v, h) = [next EXCEPT !.idx = idx] /\ idx \in Samples
    BY <1>4, <1>5, <1>8
  <2> QED
    BY <2>1, <1>3 DEF VoiceTypes, Voices
<1> QED
  BY <1>7, <1>8

(* A sample of a voice, whatever it does. *)
LEMMA ClockKeeps ==
    ASSUME VoiceAssumption, VoiceInv, ClockVoice
    PROVE  VoiceInv'
<1>1. PICK h \in Headers : voice' = VoiceClock(voice, h)
  BY DEF ClockVoice
<1>2. /\ VoiceTypes(voice) /\ UNCHANGED soft_reset
      /\ keptRepeat' = (IF voice.restart_pending THEN None ELSE keptRepeat)
      /\ silenced' = (silenced /\ ~voice.restart_pending)
  BY DEF VoiceInv, VoiceTypes, ClockVoice
<1>3. CASE voice.restart_pending
  <2>1. voice' = Restart(voice, h)
    BY <1>1, <1>3 DEF VoiceClock
  <2>2. /\ VoiceTypes(voice')
        /\ voice'.restart_delay = 5 /\ voice'.level = 0
    BY <1>2, <2>1, RestartKeeps
  <2>3. ~silenced' /\ keptRepeat' = None
    BY <1>2, <1>3
  <2> QED
    BY <2>2, <2>3 DEF VoiceInv, VoiceTypes
<1>4. CASE ~voice.restart_pending /\ voice.restart_delay # 0
  <2>1. voice' = Wait(voice)
    BY <1>1, <1>4 DEF VoiceClock
  <2>2. /\ VoiceTypes(voice')
        /\ voice'.restart_delay = voice.restart_delay - 1
        /\ ~voice'.release_pending
        /\ voice'.repeat = voice.repeat /\ (voice'.locked <=> voice.locked)
        /\ voice'.level = voice.level
        /\ voice.phase = "release" => voice'.phase = "release"
        /\ voice.restart_delay <= 4 /\ (voice.release_pending \/ soft_reset)
             => voice'.phase = "release"
    BY <1>2, <1>4, <2>1, WaitKeeps
  <2>3. (silenced' <=> silenced) /\ keptRepeat' = keptRepeat
    BY <1>2, <1>4
  <2>4. voice.restart_delay \in 0 .. 5
    BY <1>2 DEF VoiceTypes, Voices, Delays
  <2>5. soft_reset' => voice'.level = 0 /\ (voice'.phase = "release" \/ voice'.restart_delay > 3)
    BY <1>2, <2>2, <2>4 DEF VoiceInv
  <2>6. silenced' => /\ voice'.restart_delay <= 4
                     /\ voice'.release_pending \/ voice'.phase = "release"
    BY <2>2, <2>3, <2>4 DEF VoiceInv
  <2>7. keptRepeat' # None => voice'.locked /\ voice'.repeat = keptRepeat'
    BY <2>2, <2>3 DEF VoiceInv
  <2> QED
    BY <2>2, <2>5, <2>6, <2>7 DEF VoiceInv, VoiceTypes
<1>5. CASE ~voice.restart_pending /\ voice.restart_delay = 0
  <2>1. voice' = Play(voice, h)
    BY <1>1, <1>5 DEF VoiceClock
  <2>2. /\ VoiceTypes(voice')
        /\ voice'.restart_delay = voice.restart_delay
        /\ voice.phase = "release" \/ voice.release_pending => voice'.phase = "release"
        /\ voice.phase = "release" /\ voice.level = 0 => voice'.level = 0
        /\ voice.locked => voice'.locked /\ voice'.repeat = voice.repeat
    BY <1>2, <2>1, PlayKeeps
  <2>3. (silenced' <=> silenced) /\ keptRepeat' = keptRepeat
    BY <1>2, <1>5
  <2> QED
    BY <1>2, <1>5, <2>2, <2>3 DEF VoiceInv, VoiceTypes
<1> QED
  BY <1>3, <1>4, <1>5

LEMMA WritesKeep ==
    ASSUME VoiceAssumption, VoiceInv, VoiceStep \/ \E reset \in BOOLEAN : WriteSoftReset(reset)
    PROVE  VoiceInv'
<1>0. voice \in Voices /\ voice.current % 16 = 0
  BY DEF VoiceInv
<1>1. CASE WriteKeyOn
  BY <1>0, <1>1 DEF WriteKeyOn, VoiceInv, Voices
<1>2. CASE WriteKeyOff
  <2>1. voice'.release_pending /\ voice' \in Voices /\ keptRepeat' = keptRepeat
    BY <1>0, <1>2 DEF WriteKeyOff, Voices
  <2> QED
    BY <1>0, <1>2, <2>1 DEF WriteKeyOff, VoiceInv, Voices
<1>3. ASSUME NEW a \in Addresses, WriteStartAddress(a) \/ WriteRepeatAddress(a)
      PROVE  VoiceInv'
  <2>1. a \in Bytes8
    BY DEF VoiceAssumption, Bytes8
  <2>2. CASE WriteStartAddress(a)
    BY <1>0, <2>1, <2>2 DEF WriteStartAddress, VoiceInv, Voices
  <2>3. CASE WriteRepeatAddress(a)
    <3> DEFINE locked == voice.locked \/ voice.restart_delay = 0
    <3>1. voice' = [voice EXCEPT !.repeat = a, !.locked = locked] /\ locked \in BOOLEAN
      BY <2>3 DEF WriteRepeatAddress
    <3>2. keptRepeat' # None => locked /\ keptRepeat' = a
      BY <2>3 DEF WriteRepeatAddress
    <3>3. UNCHANGED <<soft_reset, silenced>>
      BY <2>3 DEF WriteRepeatAddress
    <3> HIDE DEF locked
    <3>4. /\ voice' \in Voices /\ (voice'.locked <=> locked) /\ voice'.repeat = a
          /\ voice'.current = voice.current /\ voice'.level = voice.level
          /\ voice'.phase = voice.phase /\ voice'.restart_delay = voice.restart_delay
          /\ (voice'.release_pending <=> voice.release_pending)
      BY <1>0, <2>1, <3>1 DEF Voices
    <3> QED
      BY <3>2, <3>3, <3>4 DEF VoiceInv
  <2> QED
    BY <1>3, <2>2, <2>3
<1>4. ASSUME NEW a \in Adsrs, WriteAdsr(a)
      PROVE  VoiceInv'
  <2>1. a \in AdsrSettings
    BY DEF VoiceAssumption
  <2> QED
    BY <1>0, <1>4, <2>1 DEF WriteAdsr, VoiceInv, Voices
<1>5. ASSUME NEW r \in Rates, WriteSampleRate(r)
      PROVE  VoiceInv'
  <2>1. r \in Nat
    BY DEF VoiceAssumption
  <2> QED
    BY <1>0, <1>5, <2>1 DEF WriteSampleRate, VoiceInv, Voices
<1>6. ASSUME NEW reset \in BOOLEAN, WriteSoftReset(reset)
      PROVE  VoiceInv'
  <2>1. 0 \in Levels /\ "release" \in Phases
    BY LevelIsNumber DEF Levels, Phases
  <2>2. CASE reset
    BY <1>0, <1>6, <2>1, <2>2 DEF WriteSoftReset, VoiceInv, Voices
  <2>3. CASE ~reset
    BY <1>0, <1>6, <2>1, <2>3 DEF WriteSoftReset, VoiceInv, Voices
  <2> QED
    BY <2>2, <2>3
<1> QED
  BY <1>1, <1>2, <1>3, <1>4, <1>5, <1>6 DEF VoiceStep

LEMMA VoiceStart == VoiceInit => VoiceInv
<1> SUFFICES ASSUME VoiceInit PROVE VoiceInv
  OBVIOUS
<1>1. PICK a \in Adsrs, r \in Rates : voice = InitialVoice(a, r)
  BY DEF VoiceInit
<1>2. a \in AdsrSettings /\ r \in Nat /\ 0 \in Bytes8
  BY VoiceAssumed DEF VoiceAssumption, Bytes8
<1>3. 0 \in Delays /\ 4 \in Samples /\ 0 \in Levels /\ 0 \in Pitches /\ "release" \in Phases
  BY LevelIsNumber, PitchRange DEF Delays, Samples, Levels, Phases
<1> QED
  BY <1>1, <1>2, <1>3 DEF InitialVoice, Voices, VoiceInit, VoiceInv

LEMMA VoiceInvImplies ==
    ASSUME VoiceAssumption, VoiceInv
    PROVE  VoiceObeys
<1>1. voice \in Voices /\ voice.current % 16 = 0
  BY DEF VoiceInv
<1>2. voice.level \in Levels /\ voice.idx \in Samples /\ voice.pitch_counter \in Pitches
      /\ voice.current \in Bytes8
  BY <1>1 DEF Voices
<1>3. voice.current \in 0 .. RAM_LEN - 16
  BY <1>1, <1>2, Alignment
<1>4. voice.level \in 0 .. MaxLevel /\ voice.idx \in 4 .. 31
  BY <1>2 DEF Levels, Samples
<1>6. voice.pitch_counter \in 0 .. 4095
  BY <1>2 DEF Pitches, MaxPitch
<1>5. /\ soft_reset => voice.level = 0
      /\ (silenced /\ ~voice.release_pending) => voice.phase = "release"
      /\ keptRepeat # None => voice.repeat = keptRepeat
  BY DEF VoiceInv
<1> QED
  BY <1>1, <1>3, <1>4, <1>5, <1>6 DEF VoiceObeys

LEMMA VoiceStepKeeps == VoiceInv /\ [VoiceNext]_voiceVars => VoiceInv'
<1> SUFFICES ASSUME VoiceInv, [VoiceNext]_voiceVars PROVE VoiceInv'
  OBVIOUS
<1>1. CASE UNCHANGED voiceVars
  BY <1>1 DEF voiceVars, VoiceInv
<1> QED
  BY <1>1, ClockKeeps, WritesKeep, VoiceAssumed DEF VoiceNext

(* A voice obeys key on, key off and soft reset, and keeps its addresses    *)
(* and its envelope in range.                                               *)
THEOREM VoiceObeysGame == VoiceSpec => []VoiceObeys
<1>1. VoiceInv => VoiceObeys
  BY VoiceInvImplies, VoiceAssumed
<1> QED
  BY <1>1, VoiceStart, VoiceStepKeeps, PTL DEF VoiceSpec

-----------------------------------------------------------------------------
(***************************************************************************)
(* The sound RAM.  Every address is that of a halfword.                    *)
(***************************************************************************)
Even(x) == x % 2 = 0
HalfwordsOfRam == {a \in Bytes8 : Even(a)}

LEMMA EvenRest ==
    ASSUME NEW x \in Int, NEW m \in Nat \ {0}, Even(x), Even(m)
    PROVE  Even(x % m) /\ x % m \in 0 .. m - 1
<1> DEFINE q == x \div m
           r == x % m
           k == m \div 2
<1>1. q \in Int /\ r \in 0 .. m - 1 /\ x = m * q + r
  BY Z3
<1>2. k \in Int /\ m = 2 * k
  BY Z3 DEF Even
<1> HIDE DEF q, k, r
<1>3. m * q = 2 * (k * q) /\ k * q \in Int
  BY <1>1, <1>2, Z3
<1> DEFINE y == k * q
<1> HIDE DEF y
<1>4. y \in Int /\ x = 2 * y + r /\ r \in Int
  BY <1>1, <1>3 DEF y
<1>5. r % 2 = 0
  BY <1>4, Z3 DEF Even
<1> QED
  BY <1>1, <1>5 DEF Even, r

LEMMA EvenSum ==
    ASSUME NEW x \in Int, NEW y \in Int, Even(x), Even(y)
    PROVE  Even(x + y) /\ Even(x - y)
BY Z3 DEF Even

LEMMA Sizes ==
    ASSUME VoiceAssumption, SpuAssumption
    PROVE  /\ RAM_LEN \in Nat \ {0} /\ Even(RAM_LEN)
           /\ U32 \in Nat \ {0} /\ Even(U32)
           /\ CAPTURE_LEN \in Nat \ {0} /\ Even(CAPTURE_LEN) /\ 4 * CAPTURE_LEN <= RAM_LEN
           /\ Addresses \subseteq HalfwordsOfRam
<1>1. RAM_LEN \in Nat \ {0} /\ Even(RAM_LEN)
  BY Z3 DEF VoiceAssumption, Even
<1>2. \A a \in Nat : a % 8 = 0 => Even(a)
  BY Z3 DEF Even
<1>3. Addresses \subseteq HalfwordsOfRam
  BY <1>1, <1>2 DEF VoiceAssumption, HalfwordsOfRam, Bytes8
<1> QED
  BY <1>1, <1>3 DEF SpuAssumption, Even

Reverbs == [start : HalfwordsOfRam, current : HalfwordsOfRam, right : BOOLEAN,
            writes_enabled : BOOLEAN, registers : ReverbRegisters]

RamInv ==
    /\ VoiceInv
    /\ port_current \in HalfwordsOfRam
    /\ capture_addr \in 0 .. CAPTURE_LEN - 1 /\ Even(capture_addr)
    /\ reverb \in Reverbs /\ reverb.start <= reverb.current

LEMMA RelativeInBuffer ==
    ASSUME VoiceAssumption, SpuAssumption, RamInv, NEW a \in Int, Even(a)
    PROVE  /\ RelativeAddress(a % U32) \in Int /\ Even(RelativeAddress(a % U32))
           /\ reverb.start <= RelativeAddress(a % U32)
           /\ RelativeAddress(a % U32) + 1 < RAM_LEN
<1> DEFINE start == reverb.start
           current == reverb.current
           size == RAM_LEN - start
           b == a % U32
           d == current - start + b
           offset == d % U32
           o == offset % size
<1>1. /\ RAM_LEN \in Nat /\ Even(RAM_LEN) /\ U32 \in Nat \ {0} /\ Even(U32)
  BY Sizes
<1>2. /\ start \in Int /\ 0 <= start /\ start < RAM_LEN /\ Even(start)
      /\ current \in Int /\ Even(current)
  BY <1>1 DEF RamInv, Reverbs, HalfwordsOfRam, Bytes8
<1> HIDE DEF start, current
<1>3. size \in Nat \ {0} /\ Even(size)
  BY <1>1, <1>2, EvenSum
<1> HIDE DEF size
<1>4. b \in Int /\ Even(b)
  BY <1>1, EvenRest
<1> HIDE DEF b
<1>5. d \in Int /\ Even(d)
  BY <1>2, <1>4, EvenSum
<1> HIDE DEF d
<1>6. offset \in Int /\ Even(offset)
  BY <1>1, <1>5, EvenRest
<1> HIDE DEF offset
<1>7. o \in 0 .. size - 1 /\ Even(o)
  BY <1>3, <1>6, EvenRest
<1> HIDE DEF o
<1> DEFINE r == start + o
<1>8. r \in Int /\ Even(r) /\ start <= r /\ r < RAM_LEN
  BY <1>1, <1>2, <1>7, EvenSum DEF size
<1> HIDE DEF r
<1>9. r + 1 < RAM_LEN
  BY <1>1, <1>8, Z3 DEF Even
<1>10. RelativeAddress(a % U32) = r
  BY DEF RelativeAddress, r, o, offset, d, b, size, current, start
<1> QED
  BY <1>8, <1>9, <1>10 DEF start

LEMMA RamInvImplies ==
    ASSUME VoiceAssumption, SpuAssumption, RamInv
    PROVE  RamInBounds
<1>0. RAM_LEN \in Nat /\ Even(RAM_LEN)
  BY Sizes
<1>1. VoiceTouches(voice) \subseteq 0 .. RAM_LEN - 1
  <2>1. voice \in Voices /\ voice.current % 16 = 0
    BY DEF RamInv, VoiceInv
  <2>2. voice.current \in Bytes8 /\ voice.start \in Bytes8
    BY <2>1 DEF Voices
  <2>3. voice.current \in 0 .. RAM_LEN - 16 /\ Align(voice.start) \in 0 .. RAM_LEN - 16
    BY <2>1, <2>2, Alignment
  <2> QED
    BY <2>3, <1>0 DEF VoiceTouches, Block
<1>2. CaptureTouches \subseteq 0 .. RAM_LEN - 1
  <2>1. /\ CAPTURE_LEN \in Nat \ {0} /\ Even(CAPTURE_LEN) /\ 4 * CAPTURE_LEN <= RAM_LEN
        /\ capture_addr \in 0 .. CAPTURE_LEN - 1 /\ Even(capture_addr)
    BY Sizes DEF RamInv
  <2>2. capture_addr + 1 < CAPTURE_LEN
    BY <2>1, Z3 DEF Even
  <2>3. ASSUME NEW n \in 0 .. 3
        PROVE  Halfword(n * CAPTURE_LEN + capture_addr) \subseteq 0 .. RAM_LEN - 1
    <3>1. n \in {0, 1, 2, 3}
      OBVIOUS
    <3>2. n * CAPTURE_LEN \in Nat /\ n * CAPTURE_LEN <= 3 * CAPTURE_LEN
      BY <2>1, <3>1
    <3> DEFINE m == n * CAPTURE_LEN
    <3> HIDE DEF m
    <3>3. m \in Nat /\ m <= 3 * CAPTURE_LEN
      BY <3>2 DEF m
    <3>4. Halfword(m + capture_addr) \subseteq 0 .. RAM_LEN - 1
      BY <2>1, <2>2, <3>3, <1>0 DEF Halfword
    <3> QED
      BY <3>4 DEF m
  <2> QED
    BY <2>3 DEF CaptureTouches
<1>3. Halfword(port_current) \subseteq 0 .. RAM_LEN - 1
  <2>1. port_current \in 0 .. RAM_LEN - 1 /\ Even(port_current)
    BY DEF RamInv, HalfwordsOfRam, Bytes8
  <2>2. port_current + 1 < RAM_LEN
    BY <2>1, <1>0, Z3 DEF Even
  <2> QED
    BY <2>1, <2>2, <1>0 DEF Halfword
<1>4. reverb.start <= reverb.current /\ reverb.current < RAM_LEN
  BY <1>0 DEF RamInv, Reverbs, HalfwordsOfRam, Bytes8
<1>5. ASSUME NEW b \in ReverbTouches
      PROVE  reverb.start <= b /\ b < RAM_LEN
  <2> DEFINE r == reverb.registers
  <2>1. /\ r.same \in Int /\ r.wall \in Int /\ r.comb \in Int /\ r.apf \in Int /\ r.offset \in Int
        /\ Even(r.same) /\ Even(r.wall) /\ Even(r.comb) /\ Even(r.apf) /\ Even(r.offset)
    <3>1. r \in ReverbRegisters
      BY DEF RamInv, Reverbs
    <3> HIDE DEF r
    <3> QED
      BY <3>1 DEF SpuAssumption, Even
  <2>2. PICK a \in {r.same - 2, r.wall, r.same, r.apf - r.offset, r.apf, r.comb} :
            b \in Halfword(RelativeAddress(a % U32))
    BY <1>5 DEF ReverbTouches
  <2> HIDE DEF r
  <2>3. Even(r.same - 2) /\ Even(r.apf - r.offset)
    <3>1. Even(2)
      BY DEF Even
    <3> DEFINE x == r.same
               y == r.apf
               z == r.offset
    <3>2. x \in Int /\ y \in Int /\ z \in Int /\ Even(x) /\ Even(y) /\ Even(z)
      BY <2>1
    <3> HIDE DEF x, y, z
    <3>3. Even(x - 2)
      BY <3>1, <3>2, EvenSum
    <3>4. Even(y - z)
      BY <3>2, EvenSum
    <3> QED
      BY <3>3, <3>4 DEF x, y, z
  <2>4. a \in Int /\ Even(a)
    BY <2>1, <2>3
  <2>5. /\ RelativeAddress(a % U32) \in Int
        /\ reverb.start <= RelativeAddress(a % U32)
        /\ RelativeAddress(a % U32) + 1 < RAM_LEN
    BY <2>4, RelativeInBuffer
  <2>6. reverb.start \in Int
    BY DEF RamInv, Reverbs, HalfwordsOfRam, Bytes8
  <2> QED
    BY <2>2, <2>5, <2>6, <1>0 DEF Halfword
<1> QED
  BY <1>1, <1>2, <1>3, <1>4, <1>5 DEF RamInBounds

(* Two bytes on, around the end of an even length. *)
LEMMA NextHalfword ==
    ASSUME NEW n \in Nat \ {0}, Even(n), NEW a \in 0 .. n - 1, Even(a)
    PROVE  (a + 2) % n \in 0 .. n - 1 /\ Even((a + 2) % n)
<1>1. a \in Int /\ a + 2 \in Int /\ Even(a + 2)
  <2>1. Even(2)
    BY DEF Even
  <2> QED
    BY <2>1, EvenSum
<1> QED
  BY <1>1, EvenRest

LEMMA ReverbClocked ==
    ASSUME VoiceAssumption, SpuAssumption, RamInv
    PROVE  ReverbClock \in Reverbs /\ ReverbClock.start <= ReverbClock.current
<1>1. RAM_LEN \in Nat \ {0} /\ Even(RAM_LEN)
  BY Sizes
<1>2. /\ reverb \in Reverbs /\ reverb.start \in HalfwordsOfRam /\ reverb.current \in HalfwordsOfRam
      /\ reverb.right \in BOOLEAN /\ reverb.start <= reverb.current
  BY DEF RamInv, Reverbs
<1> DEFINE next == (reverb.current + 2) % RAM_LEN
           c == IF reverb.right THEN AtLeast(reverb.start, next) ELSE reverb.current
<1>3. next \in HalfwordsOfRam
  BY <1>1, <1>2, NextHalfword DEF HalfwordsOfRam, Bytes8
<1> HIDE DEF next
<1>4. c \in HalfwordsOfRam /\ reverb.start <= c
  <2>1. reverb.start \in Int /\ next \in Int
    BY <1>2, <1>3 DEF HalfwordsOfRam, Bytes8
  <2> QED
    BY <1>2, <1>3, <2>1 DEF AtLeast
<1>5. ReverbClock = [reverb EXCEPT !.right = ~@, !.current = c]
  BY <1>2 DEF ReverbClock, next, Reverbs
<1> HIDE DEF c
<1> QED
  BY <1>2, <1>4, <1>5 DEF Reverbs

(* What a step leaves where it was keeps its place. *)
LEMMA RamKeeps ==
    ASSUME RamInv, VoiceInv',
           port_current' \in HalfwordsOfRam \/ UNCHANGED port_current,
           \/ capture_addr' \in 0 .. CAPTURE_LEN - 1 /\ Even(capture_addr')
           \/ UNCHANGED capture_addr,
           \/ reverb' \in Reverbs /\ reverb'.start <= reverb'.current
           \/ UNCHANGED reverb
    PROVE  RamInv'
<1>1. HalfwordsOfRam' = HalfwordsOfRam /\ Reverbs' = Reverbs
  BY DEF HalfwordsOfRam, Reverbs, Bytes8, Even
<1>2. port_current' \in HalfwordsOfRam
  BY DEF RamInv
<1>3. capture_addr' \in 0 .. CAPTURE_LEN - 1 /\ Even(capture_addr')
  BY DEF RamInv
<1>4. reverb' \in Reverbs /\ reverb'.start <= reverb'.current
  BY DEF RamInv
<1> QED
  BY <1>2, <1>3, <1>4 DEF RamInv

LEMMA RamStepKeeps ==
    ASSUME VoiceAssumption, SpuAssumption, RamInv, [Next]_vars
    PROVE  RamInv'
<1> USE DEF ports
<1>0. /\ VoiceInv /\ (UNCHANGED voiceVars => VoiceInv')
      /\ reverb \in Reverbs /\ reverb.current \in HalfwordsOfRam
  BY DEF RamInv, voiceVars, VoiceInv, Reverbs
<1>1. CASE Clock
  <2>1. VoiceInv'
    BY <1>0, <1>1, ClockKeeps DEF Clock
  <2>2. capture_addr' \in 0 .. CAPTURE_LEN - 1 /\ Even(capture_addr')
    <3>1. capture_addr' = (capture_addr + 2) % CAPTURE_LEN
      BY <1>1 DEF Clock
    <3> QED
      BY <3>1, Sizes, NextHalfword DEF RamInv
  <2>3. reverb' = ReverbClock /\ UNCHANGED port_current
    BY <1>1 DEF Clock
  <2> QED
    BY <2>1, <2>2, <2>3, ReverbClocked, RamKeeps
<1>2. ASSUME NEW reset \in BOOLEAN, NEW writes \in BOOLEAN, NEW enabled \in BOOLEAN,
             WriteSpucnt(reset, writes, enabled)
      PROVE  RamInv'
  <2>1. VoiceInv'
    BY <1>0, <1>2, WritesKeep DEF WriteSpucnt
  <2>2. /\ reverb' = [reverb EXCEPT !.writes_enabled = writes]
        /\ UNCHANGED <<port_current, capture_addr>>
    BY <1>2 DEF WriteSpucnt
  <2>3. reverb' \in Reverbs /\ reverb'.start <= reverb'.current
    BY <1>0, <2>2 DEF RamInv, Reverbs
  <2> QED
    BY <2>1, <2>2, <2>3, RamKeeps
<1>3. CASE VoiceStep /\ UNCHANGED <<soundRam, ports>>
  BY <1>0, <1>3, WritesKeep, RamKeeps
<1>4. ASSUME NEW a \in Addresses, WriteIrqAddress(a) \/ WriteTransferAddress(a)
      PROVE  RamInv'
  <2>1. a \in HalfwordsOfRam
    BY Sizes
  <2> QED
    BY <1>0, <1>4, <2>1, RamKeeps DEF WriteIrqAddress, WriteTransferAddress
<1>5. ASSUME NEW a \in Addresses, WriteBufferStart(a)
      PROVE  RamInv'
  <2>1. a \in HalfwordsOfRam
    BY Sizes
  <2>2. /\ reverb' = [reverb EXCEPT !.start = a, !.current = a]
        /\ UNCHANGED <<voiceVars, port_current, capture_addr>>
    BY <1>5 DEF WriteBufferStart
  <2>3. reverb' \in Reverbs /\ reverb'.start <= reverb'.current
    <3>1. a <= a
      BY <2>1 DEF HalfwordsOfRam, Bytes8
    <3> QED
      BY <1>0, <2>1, <2>2, <3>1 DEF Reverbs
  <2> QED
    BY <1>0, <2>2, <2>3, RamKeeps
<1>6. ASSUME NEW r \in ReverbRegisters, WriteReverbRegisters(r)
      PROVE  RamInv'
  <2>1. /\ reverb' = [reverb EXCEPT !.registers = r]
        /\ UNCHANGED <<voiceVars, port_current, capture_addr>>
    BY <1>6 DEF WriteReverbRegisters
  <2>2. reverb' \in Reverbs /\ reverb'.start <= reverb'.current
    BY <1>0, <2>1 DEF RamInv, Reverbs
  <2> QED
    BY <1>0, <2>1, <2>2, RamKeeps
<1>7. CASE UseDataPort
  <2>1. port_current' = (port_current + 2) % RAM_LEN /\ UNCHANGED <<voiceVars, capture_addr, reverb>>
    BY <1>7 DEF UseDataPort
  <2>2. port_current' \in HalfwordsOfRam
    BY <2>1, Sizes, NextHalfword DEF RamInv, HalfwordsOfRam, Bytes8
  <2> QED
    BY <1>0, <2>1, <2>2, RamKeeps
<1>8. CASE WriteInterruptStatus
  BY <1>0, <1>8, RamKeeps DEF WriteInterruptStatus
<1>9. CASE UNCHANGED vars
  BY <1>0, <1>9, RamKeeps DEF vars
<1> QED
  BY <1>1, <1>2, <1>3, <1>4, <1>5, <1>6, <1>7, <1>8, <1>9 DEF Next, RamStep

(* The flag is compared with what it was after the last sample.  When it has *)
(* fallen since, it was cleared in the current sample.                      *)
FlagInv ==
    /\ irq \in BOOLEAN /\ last_irq_bit \in BOOLEAN /\ irq_enabled \in BOOLEAN
    /\ given \in BOOLEAN /\ quick \in BOOLEAN
    /\ last_irq_bit /\ ~irq => quick
    /\ InterruptPerFlag

LEMMA FlagStepKeeps ==
    ASSUME FlagInv, [Next]_vars PROVE FlagInv'
<1> USE DEF FlagInv, InterruptPerFlag
<1>1. CASE Clock
  <2>1. PICK bytes : Access(bytes)
    BY <1>1 DEF Clock
  <2>2. /\ irq' \in BOOLEAN /\ (irq => irq')
        /\ last_irq_bit' = irq' /\ irq_enabled' = irq_enabled
        /\ given' = (irq' /\ (given \/ (~last_irq_bit /\ irq')))
        /\ quick' = (quick /\ irq')
    BY <1>1, <2>1, Zenon DEF Clock, Access, Interrupt, Raised
  <2>3. /\ given' <=> (irq' /\ (given \/ ~last_irq_bit))
        /\ quick' <=> (quick /\ irq')
        /\ last_irq_bit' <=> irq'
        /\ given' \in BOOLEAN /\ quick' \in BOOLEAN /\ last_irq_bit' \in BOOLEAN
        /\ irq_enabled' \in BOOLEAN
    BY <2>2, Zenon
  <2> QED
    BY <2>2, <2>3, Zenon
<1>2. ASSUME NEW reset \in BOOLEAN, NEW writes \in BOOLEAN, NEW enabled \in BOOLEAN,
             WriteSpucnt(reset, writes, enabled)
      PROVE  FlagInv'
  <2>1. /\ irq' \in BOOLEAN /\ (irq' <=> irq /\ enabled)
        /\ given' \in BOOLEAN /\ (given' <=> given /\ irq')
        /\ quick' = IF enabled THEN quick ELSE last_irq_bit
        /\ last_irq_bit' = last_irq_bit /\ irq_enabled' = enabled
    BY <1>2, Zenon DEF WriteSpucnt
  <2>2. CASE enabled
    BY <2>1, <2>2, Zenon
  <2>3. CASE ~enabled
    BY <2>1, <2>3, Zenon
  <2> QED
    BY <2>2, <2>3
<1>3. CASE UseDataPort
  <2>1. PICK bytes : Access(bytes)
    BY <1>3 DEF UseDataPort
  <2>2. /\ irq' \in BOOLEAN /\ (irq => irq')
        /\ UNCHANGED <<irq_enabled, last_irq_bit, given, quick>>
    BY <1>3, <2>1, Zenon DEF UseDataPort, Access
  <2>3. ~irq /\ last_irq_bit => quick
    OBVIOUS
  <2>4. irq /\ last_irq_bit => given \/ quick
    OBVIOUS
  <2> QED
    BY <2>2, <2>3, <2>4, Zenon
<1>4. CASE UNCHANGED soundRam
  BY <1>4, Zenon DEF soundRam
<1>5. CASE WriteInterruptStatus
  BY <1>5, Zenon DEF WriteInterruptStatus
<1>6. ASSUME NEW a \in Addresses, \/ WriteIrqAddress(a) \/ WriteTransferAddress(a)
                                  \/ WriteBufferStart(a)
      PROVE  FlagInv'
  <2>1. UNCHANGED <<irq, irq_enabled, last_irq_bit, given, quick>>
    BY <1>6 DEF WriteIrqAddress, WriteTransferAddress, WriteBufferStart, soundRam
  <2> QED
    BY <2>1, Zenon
<1>7. ASSUME NEW r \in ReverbRegisters, WriteReverbRegisters(r)
      PROVE  FlagInv'
  BY <1>7, <1>4 DEF WriteReverbRegisters
<1>8. CASE UNCHANGED vars
  BY <1>8, <1>4 DEF vars
<1> QED
  BY <1>1, <1>2, <1>3, <1>4, <1>5, <1>6, <1>7, <1>8 DEF Next, RamStep

(* The addresses of the sound processor are those of halfwords in its RAM,  *)
(* and its interrupt flag and what it has announced of it agree.            *)
THEOREM SpuStatesAgree == Spec => [](RamInv /\ FlagInv)
<1>1. Init => RamInv /\ FlagInv
  <2> SUFFICES ASSUME Init PROVE RamInv /\ FlagInv
    OBVIOUS
  <2>1. VoiceInv
    BY VoiceStart DEF Init
  <2>2. /\ 0 \in HalfwordsOfRam /\ 0 \in 0 .. CAPTURE_LEN - 1 /\ Even(0) /\ 0 <= 0
    BY Sizes, VoiceAssumed, SpuAssumed, Z3 DEF HalfwordsOfRam, Bytes8, Even
  <2>3. reverb \in Reverbs /\ reverb.start <= reverb.current
    BY <2>2 DEF Init, Reverbs
  <2>4. RamInv
    BY <2>1, <2>2, <2>3 DEF Init, RamInv
  <2>5. FlagInv
    BY DEF Init, FlagInv, InterruptPerFlag
  <2> QED
    BY <2>4, <2>5
<1>2. RamInv /\ FlagInv /\ [Next]_vars => (RamInv /\ FlagInv)'
  BY RamStepKeeps, FlagStepKeeps, VoiceAssumed, SpuAssumed
<1> QED
  BY <1>1, <1>2, PTL DEF Spec

(* A voice of the sound processor, between its other steps, does the same.  *)
THEOREM VoicesObeyGame == Spec => []VoiceObeys
<1>1. RamInv => VoiceObeys
  BY VoiceInvImplies, VoiceAssumed DEF RamInv
<1> QED
  BY <1>1, SpuStatesAgree, PTL

(* No access of the sound processor leaves its RAM or its reverb buffer.    *)
THEOREM AccessesStayInRam == Spec => []RamInBounds
<1>1. RamInv => RamInBounds
  BY RamInvImplies, VoiceAssumed, SpuAssumed
<1> QED
  BY <1>1, SpuStatesAgree, PTL

(* A flag that a sample has seen raised was announced, unless it was cleared *)
(* and raised again within one sample.                                      *)
THEOREM InterruptsOncePerFlag == Spec => []InterruptPerFlag
<1>1. FlagInv => InterruptPerFlag
  BY DEF FlagInv
<1> QED
  BY <1>1, SpuStatesAgree, PTL
-----------------------------------------------------------------------------
(***************************************************************************)
(* Disc images (DiscImage): times, modulo the seconds of a minute and the  *)
(* frames of a second.                                                     *)
(***************************************************************************)
LEMMA ModBelow ==
    ASSUME NEW d \in Nat \ {0}, NEW n \in Nat, n < d
    PROVE  n % d = n
BY Z3

LEMMA ModPast ==
    ASSUME NEW d \in Nat \ {0}, NEW n \in Nat, d <= n, n < d + d
    PROVE  n % d = n - d
BY Z3

LEMMA ModUnder ==
    ASSUME NEW d \in Nat \ {0}, NEW n \in Int, n < 0, -d <= n
    PROVE  n % d = n + d
BY Z3

Bases == /\ FRAMES_PER_SECOND \in Nat \ {0} /\ SECONDS_PER_MINUTE \in Nat \ {0}
         /\ MAX_MINUTES \in Nat \ {0} /\ HUNK_SECTORS \in Nat \ {0}

LEMMA BasesHold == Bases
BY DiscAssumed DEF DiscAssumption, Bases

(* A carry, and a borrow. *)
LEMMA Carried ==
    ASSUME NEW d \in Nat \ {0}, NEW n \in Nat, n < d + d
    PROVE  /\ n % d \in 0 .. d - 1 /\ Carry(n, d) \in {0, 1}
           /\ n = (n % d) + d * Carry(n, d)
<1>1. CASE n < d
  BY <1>1, ModBelow DEF Carry
<1>2. CASE n >= d
  <2>1. n % d = n - d /\ Carry(n, d) = 1
    BY <1>2, ModPast DEF Carry
  <2>2. d * 1 = d /\ n - d \in 0 .. d - 1
    BY <1>2
  <2> QED
    BY <2>1, <2>2
<1> QED
  BY <1>1, <1>2

LEMMA Borrowed ==
    ASSUME NEW d \in Nat \ {0}, NEW a \in 0 .. d - 1, NEW b \in 0 .. d
    PROVE  /\ (a - b) % d \in 0 .. d - 1 /\ Borrow(a, b) \in {0, 1}
           /\ a - b = ((a - b) % d) - d * Borrow(a, b)
<1>1. CASE a >= b
  <2>1. a - b \in Nat /\ a - b < d
    BY <1>1
  <2>2. PICK n : n = a - b
    OBVIOUS
  <2>3. n % d = n
    BY <2>1, <2>2, ModBelow
  <2> QED
    BY <1>1, <2>1, <2>2, <2>3 DEF Borrow
<1>2. CASE a < b
  <2>1. a - b \in Int /\ a - b < 0 /\ -d <= a - b
    BY <1>2
  <2>2. PICK n : n = a - b
    OBVIOUS
  <2>3. n % d = n + d
    BY <2>1, <2>2, ModUnder
  <2> QED
    BY <1>2, <2>1, <2>2, <2>3 DEF Borrow
<1> QED
  BY <1>1, <1>2

LEMMA TimeIs ==
    ASSUME NEW t \in Times
    PROVE  /\ t[1] \in 0 .. MAX_MINUTES - 1 /\ t[2] \in 0 .. SECONDS_PER_MINUTE - 1
           /\ t[3] \in 0 .. FRAMES_PER_SECOND - 1
           /\ t = <<t[1], t[2], t[3]>>
BY DEF Times

LEMMA Products ==
    ASSUME NEW a \in Nat, NEW b \in Nat, NEW c \in Nat
    PROVE  /\ a * b \in Nat /\ a * b = b * a /\ (a + b) * c = a * c + b * c
           /\ (a <= b => a * c <= b * c)
<1>1. a * b \in Nat /\ a * b = b * a
  OBVIOUS
<1>2. (a + b) * c = a * c + b * c
  BY Z3
<1>3. a <= b => a * c <= b * c
  BY Z3
<1> QED
  BY <1>1, <1>2, <1>3

LEMMA Distributes ==
    ASSUME NEW a \in Int, NEW b \in Int, NEW c \in Int, NEW d \in Int
    PROVE  (a + (b + c)) * d = a * d + (b * d + c * d)
BY Z3

LEMMA NumberTyped ==
    ASSUME NEW t \in Times
    PROVE  /\ ToSectorNumber(t) \in Nat /\ ToSectorNumber(t) < MAX_SECTORS
           /\ MAX_SECTORS \in Nat
<1> DEFINE F == FRAMES_PER_SECOND
           S == SECONDS_PER_MINUTE
           M == MAX_MINUTES
<1>1. F \in Nat \ {0} /\ S \in Nat \ {0} /\ M \in Nat \ {0}
  BY BasesHold DEF Bases
<1>2. PICK m \in 0 .. M - 1, s \in 0 .. S - 1, f \in 0 .. F - 1 : t[1] = m /\ t[2] = s /\ t[3] = f
  BY TimeIs
<1>3. ToSectorNumber(t) = (S * m + s) * F + f /\ MAX_SECTORS = M * S * F
  BY <1>2 DEF ToSectorNumber, MAX_SECTORS
<1> HIDE DEF F, S, M
<1>4. S * m + s \in Nat /\ S * m + s <= M * S - 1 /\ M * S \in Nat
  <2>1. S * m <= S * (M - 1)
    BY <1>1, <1>2, Z3
  <2>2. S * (M - 1) = M * S - S
    BY <1>1, Z3
  <2>3. S * m \in Nat /\ M * S \in Nat
    BY <1>1, <1>2
  <2> QED
    BY <1>1, <1>2, <2>1, <2>2, <2>3
<1>5. PICK q \in Nat, r \in Nat : q = S * m + s /\ r = M * S
  BY <1>4
<1>6. q * F <= (r - 1) * F /\ (r - 1) * F = r * F - F /\ q * F \in Nat /\ r * F \in Nat
  <2>1. q <= r - 1
    BY <1>4, <1>5
  <2>2. q * F <= (r - 1) * F
    BY <1>1, <2>1, Z3
  <2>3. (r - 1) * F = r * F - F
    BY <1>1, Z3
  <2> QED
    BY <1>1, <2>2, <2>3
<1>7. q * F + f < r * F
  BY <1>1, <1>2, <1>6
<1> QED
  BY <1>1, <1>2, <1>3, <1>5, <1>6, <1>7

LEMMA AddIs ==
    ASSUME NEW t \in Times, NEW u \in Times,
           ToSectorNumber(t) + ToSectorNumber(u) < MAX_SECTORS
    PROVE  /\ Add(t, u) \in Times
           /\ ToSectorNumber(Add(t, u)) = ToSectorNumber(t) + ToSectorNumber(u)
<1> DEFINE F == FRAMES_PER_SECOND
           S == SECONDS_PER_MINUTE
           M == MAX_MINUTES
<1>1. F \in Nat \ {0} /\ S \in Nat \ {0} /\ M \in Nat \ {0}
  BY BasesHold DEF Bases
<1>2. PICK m \in 0 .. M - 1, s \in 0 .. S - 1, f \in 0 .. F - 1 : t[1] = m /\ t[2] = s /\ t[3] = f
  BY TimeIs
<1>3. PICK n \in 0 .. M - 1, z \in 0 .. S - 1, g \in 0 .. F - 1 : u[1] = n /\ u[2] = z /\ u[3] = g
  BY TimeIs
<1>4. PICK c, x : c = Carry(f + g, F) /\ x = (f + g) % F
  OBVIOUS
<1>5. c \in {0, 1} /\ x \in 0 .. F - 1 /\ f + g = x + F * c
  <2>1. f + g \in Nat /\ f + g < F + F
    BY <1>1, <1>2, <1>3
  <2> HIDE DEF F
  <2> QED
    BY <1>1, <1>4, <2>1, Carried
<1>6. PICK d, y : d = Carry(s + z + c, S) /\ y = (s + z + c) % S
  OBVIOUS
<1>7. d \in {0, 1} /\ y \in 0 .. S - 1 /\ s + z + c = y + S * d
  <2>1. s + z + c \in Nat /\ s + z + c < S + S
    BY <1>1, <1>2, <1>3, <1>5
  <2> HIDE DEF S
  <2> QED
    BY <1>1, <1>6, <2>1, Carried
<1>8. Add(t, u) = <<(m + n + d) % M, y, x>>
  BY <1>2, <1>3, <1>4, <1>6 DEF Add
<1>9. /\ ToSectorNumber(t) = (S * m + s) * F + f
      /\ ToSectorNumber(u) = (S * n + z) * F + g
      /\ MAX_SECTORS = M * S * F
  BY <1>2, <1>3 DEF ToSectorNumber, MAX_SECTORS
<1> HIDE DEF F, S, M
<1>10. ((S * m + s) * F + f) + ((S * n + z) * F + g) = (S * (m + n + d) + y) * F + x
  <2>1. CASE c = 0 /\ d = 0
    BY <1>1, <1>2, <1>3, <1>5, <1>7, <2>1, Z3
  <2>2. CASE c = 0 /\ d = 1
    BY <1>1, <1>2, <1>3, <1>5, <1>7, <2>2, Z3
  <2>3. CASE c = 1 /\ d = 0
    BY <1>1, <1>2, <1>3, <1>5, <1>7, <2>3, Z3
  <2>4. CASE c = 1 /\ d = 1
    BY <1>1, <1>2, <1>3, <1>5, <1>7, <2>4, Z3
  <2> QED
    BY <1>5, <1>7, <2>1, <2>2, <2>3, <2>4
<1>11. PICK k \in Nat : k = m + n + d
  BY <1>2, <1>3, <1>7
<1>12. k < M
  <2> SUFFICES ASSUME M <= k PROVE FALSE
    BY <1>1, <1>11
  <2>1. M * S <= k * S
    BY <1>1, <1>11, Products
  <2>2. PICK a \in Nat, b \in Nat : a = M * S /\ b = k * S
    BY <1>1, <1>11
  <2>3. a * F <= b * F /\ a * F \in Nat /\ b * F \in Nat
    BY <1>1, <2>1, <2>2, Products
  <2>4. (S * k + y) * F = b * F + y * F /\ y * F \in Nat
    <3>1. S * k = b
      BY <1>1, <1>11, <2>2
    <3> QED
      BY <1>1, <1>7, <2>2, <3>1, Products
  <2> QED
    BY <1>1, <1>5, <1>9, <1>10, <1>11, <2>2, <2>3, <2>4
<1>13. k % M = k
  BY <1>1, <1>12, ModBelow
<1>14. Add(t, u) = <<k, y, x>>
  BY <1>8, <1>11, <1>13
<1>15. Add(t, u) \in Times
  BY <1>1, <1>5, <1>7, <1>11, <1>12, <1>14 DEF Times, F, S, M
<1>16. ToSectorNumber(Add(t, u)) = (S * k + y) * F + x
  BY <1>14 DEF ToSectorNumber, F, S
<1> QED
  BY <1>9, <1>10, <1>11, <1>15, <1>16

LEMMA BeforeIs ==
    ASSUME NEW t \in Times, NEW u \in Times
    PROVE  Before(t, u) <=> ToSectorNumber(t) < ToSectorNumber(u)
<1> DEFINE F == FRAMES_PER_SECOND
           S == SECONDS_PER_MINUTE
           M == MAX_MINUTES
<1>1. F \in Nat \ {0} /\ S \in Nat \ {0} /\ M \in Nat \ {0}
  BY BasesHold DEF Bases
<1>2. PICK m \in 0 .. M - 1, s \in 0 .. S - 1, f \in 0 .. F - 1 : t[1] = m /\ t[2] = s /\ t[3] = f
  BY TimeIs
<1>3. PICK n \in 0 .. M - 1, z \in 0 .. S - 1, g \in 0 .. F - 1 : u[1] = n /\ u[2] = z /\ u[3] = g
  BY TimeIs
<1>4. /\ ToSectorNumber(t) = (S * m + s) * F + f
      /\ ToSectorNumber(u) = (S * n + z) * F + g
      /\ Before(t, u) <=> (m < n \/ (m = n /\ s < z) \/ (m = n /\ s = z /\ f < g))
  BY <1>2, <1>3 DEF ToSectorNumber, Before
<1> HIDE DEF F, S, M
<1>5. \A a, b \in Nat : a < b => S * a + S <= S * b
  BY <1>1, Z3
<1>6. \A a, b \in Nat : a < b => a * F + F <= b * F
  BY <1>1, Z3
<1>7. PICK a \in Nat, b \in Nat : a = S * m + s /\ b = S * n + z
  BY <1>1, <1>2, <1>3
<1>8. /\ (m < n \/ (m = n /\ s < z)) <=> a < b
      /\ (m = n /\ s = z) <=> a = b
  <2>1. CASE m < n
    BY <1>1, <1>2, <1>3, <1>5, <1>7, <2>1
  <2>2. CASE n < m
    BY <1>1, <1>2, <1>3, <1>5, <1>7, <2>2
  <2>3. CASE n = m
    BY <1>1, <1>2, <1>3, <1>7, <2>3
  <2> QED
    BY <1>2, <1>3, <2>1, <2>2, <2>3
<1>9. PICK p \in Nat, q \in Nat : p = a * F /\ q = b * F
  BY <1>1
<1>10. (a < b \/ (a = b /\ f < g)) <=> p + f < q + g
  <2>1. CASE a < b
    BY <1>1, <1>2, <1>3, <1>6, <1>9, <2>1
  <2>2. CASE b < a
    BY <1>1, <1>2, <1>3, <1>6, <1>9, <2>2
  <2>3. CASE a = b
    BY <1>1, <1>2, <1>3, <1>9, <2>3
  <2> QED
    BY <2>1, <2>2, <2>3
<1> QED
  BY <1>4, <1>7, <1>8, <1>9, <1>10

LEMMA SubIs ==
    ASSUME NEW t \in Times, NEW u \in Times, ToSectorNumber(u) <= ToSectorNumber(t)
    PROVE  /\ Sub(t, u) \in Times
           /\ ToSectorNumber(Sub(t, u)) = ToSectorNumber(t) - ToSectorNumber(u)
<1> DEFINE F == FRAMES_PER_SECOND
           S == SECONDS_PER_MINUTE
           M == MAX_MINUTES
<1>1. F \in Nat \ {0} /\ S \in Nat \ {0} /\ M \in Nat \ {0}
  BY BasesHold DEF Bases
<1>2. PICK m \in 0 .. M - 1, s \in 0 .. S - 1, f \in 0 .. F - 1 : t[1] = m /\ t[2] = s /\ t[3] = f
  BY TimeIs
<1>3. PICK n \in 0 .. M - 1, z \in 0 .. S - 1, g \in 0 .. F - 1 : u[1] = n /\ u[2] = z /\ u[3] = g
  BY TimeIs
<1>4. PICK c, x : c = Borrow(f, g) /\ x = (f - g) % F
  OBVIOUS
<1>5. c \in {0, 1} /\ x \in 0 .. F - 1 /\ f - g = x - F * c
  <2>1. g \in 0 .. F
    BY <1>1, <1>3
  <2> HIDE DEF F
  <2> QED
    BY <1>1, <1>2, <1>4, <2>1, Borrowed
<1>6. PICK w, d, y : w = z + c /\ d = Borrow(s, w) /\ y = (s - w) % S
  OBVIOUS
<1>7. d \in {0, 1} /\ y \in 0 .. S - 1 /\ s - w = y - S * d
  <2>1. w \in 0 .. S
    BY <1>1, <1>3, <1>5, <1>6
  <2> HIDE DEF S
  <2> QED
    BY <1>1, <1>2, <1>6, <2>1, Borrowed
<1>8. Sub(t, u) = <<(m - (n + d)) % M, y, x>>
  BY <1>2, <1>3, <1>4, <1>6 DEF Sub
<1>9. /\ ToSectorNumber(t) = (S * m + s) * F + f
      /\ ToSectorNumber(u) = (S * n + z) * F + g
  BY <1>2, <1>3 DEF ToSectorNumber
<1> HIDE DEF F, S, M
<1>10. ((S * m + s) * F + f) - ((S * n + z) * F + g) = (S * (m - (n + d)) + y) * F + x
  <2>1. PICK p \in Int, q \in Int, e \in Int : p = S * m /\ q = S * n /\ e = S * d
    BY <1>1, <1>2, <1>3, <1>7
  <2>2. S * (m - (n + d)) = p - (q + e)
    BY <1>1, <1>2, <1>3, <1>7, <2>1, Z3
  <2>3. PICK a \in Int, b \in Int : a = (p - (q + e)) + y /\ b = q + z
    BY <1>1, <1>3, <1>7, <2>1
  <2>4. p + s = a + (b + c)
    <3>1. s - (z + c) = y - e
      BY <1>6, <1>7, <2>1
    <3>2. s \in Int /\ z \in Int /\ c \in Int /\ y \in Int
      BY <1>1, <1>2, <1>3, <1>5, <1>7
    <3>3. s = (y - e) + (z + c)
      BY <3>1, <3>2
    <3> QED
      BY <2>3, <3>2, <3>3
  <2>5. (a + (b + c)) * F = a * F + (b * F + c * F)
    BY <1>1, <1>5, <2>3, Distributes
  <2>6. c * F = F * c /\ a * F \in Int /\ b * F \in Int /\ c * F \in Int
    BY <1>1, <1>5, <2>3
  <2> QED
    BY <1>1, <1>2, <1>3, <1>5, <2>1, <2>2, <2>3, <2>4, <2>5, <2>6
<1>11. PICK k \in Int : k = m - (n + d)
  BY <1>2, <1>3, <1>7
<1>12. k >= 0
  <2> SUFFICES ASSUME k <= -1 PROVE FALSE
    BY <1>11
  <2>1. S * k + y <= -1
    <3>1. S * k <= -S
      BY <1>1, <1>11, Z3
    <3> QED
      BY <1>1, <1>7, <1>11, <3>1
  <2>2. PICK a \in Int : a = S * k + y
    BY <1>1, <1>7
  <2>3. a * F <= -F
    BY <1>1, <2>1, <2>2, Z3
  <2>4. a * F \in Int
    BY <1>1, <2>2
  <2>5. a * F + x < 0
    BY <1>1, <1>5, <2>3, <2>4
  <2> QED
    BY <1>9, <1>10, <1>11, <2>2, <2>5, NumberTyped
<1>13. k % M = k /\ k < M
  <2>1. k \in Nat /\ k < M
    BY <1>1, <1>2, <1>3, <1>7, <1>11, <1>12
  <2> QED
    BY <1>1, <2>1, ModBelow
<1>14. Sub(t, u) = <<k, y, x>>
  BY <1>8, <1>11, <1>13
<1>15. Sub(t, u) \in Times
  BY <1>1, <1>5, <1>7, <1>11, <1>12, <1>13, <1>14 DEF Times, F, S, M
<1>16. ToSectorNumber(Sub(t, u)) = (S * k + y) * F + x
  BY <1>14 DEF ToSectorNumber, F, S
<1> QED
  BY <1>9, <1>10, <1>11, <1>15, <1>16

LEMMA DividedTime ==
    ASSUME NEW d \in Nat \ {0}, NEW n \in Nat
    PROVE  n \div d \in Nat /\ n % d \in 0 .. d - 1 /\ n = (d * (n \div d)) + (n % d)
<1>1. n \div d \in Nat /\ n % d \in 0 .. d - 1
  BY Z3
<1>2. n = (d * (n \div d)) + (n % d)
  BY Z3
<1> QED
  BY <1>1, <1>2

LEMMA FromIs ==
    ASSUME NEW n \in Nat, n < MAX_SECTORS
    PROVE  FromSectorNumber(n) \in Times /\ ToSectorNumber(FromSectorNumber(n)) = n
<1> DEFINE F == FRAMES_PER_SECOND
           S == SECONDS_PER_MINUTE
           M == MAX_MINUTES
<1>1. F \in Nat \ {0} /\ S \in Nat \ {0} /\ M \in Nat \ {0}
  BY BasesHold DEF Bases
<1>2. MAX_SECTORS = M * S * F /\ n \in Nat /\ n < M * S * F
  BY DEF MAX_SECTORS
<1> HIDE DEF F, S, M
<1>3. PICK q, f : q = n \div F /\ f = n % F
  OBVIOUS
<1>4. q \in Nat /\ f \in 0 .. F - 1 /\ n = F * q + f
  BY <1>1, <1>3, DividedTime
<1>5. PICK m, s : m = q \div S /\ s = q % S
  OBVIOUS
<1>6. m \in Nat /\ s \in 0 .. S - 1 /\ q = S * m + s
  BY <1>1, <1>4, <1>5, DividedTime
<1>7. n \div (F * S) = m
  <2>1. PICK p \in Nat \ {0} : p = F * S
    <3>1. F * S \in Nat \ {0}
      BY <1>1, Z3
    <3> QED
      BY <3>1
  <2>2. n = p * m + (F * s + f)
    BY <1>1, <1>4, <1>6, <2>1, Z3
  <2>3. F * s + f \in 0 .. p - 1
    <3>1. F * s <= F * (S - 1) /\ F * (S - 1) = p - F
      BY <1>1, <1>6, <2>1, Z3
    <3>2. F * s \in Nat
      BY <1>1, <1>6
    <3> QED
      BY <1>1, <1>4, <2>1, <3>1, <3>2
  <2>4. PICK r \in 0 .. p - 1 : r = F * s + f
    BY <2>3
  <2>5. n = p * m + r
    BY <2>2, <2>4
  <2>6. n \div p = m
    <3>1. PICK a, b : a = n \div p /\ b = n % p
      OBVIOUS
    <3>2. a \in Nat /\ b \in 0 .. p - 1 /\ n = p * a + b
      BY <2>1, <3>1, DividedTime
    <3>3. ~(a < m)
      <4>1. a < m => p * a + p <= p * m
        BY <1>6, <2>1, <3>2, Z3
      <4>2. p * a \in Nat /\ p * m \in Nat
        BY <1>6, <2>1, <3>2
      <4> QED
        BY <2>1, <2>4, <2>5, <3>2, <4>1, <4>2
    <3>4. ~(m < a)
      <4>1. m < a => p * m + p <= p * a
        BY <1>6, <2>1, <3>2, Z3
      <4>2. p * a \in Nat /\ p * m \in Nat
        BY <1>6, <2>1, <3>2
      <4> QED
        BY <2>1, <2>4, <2>5, <3>2, <4>1, <4>2
    <3> QED
      BY <1>6, <3>1, <3>2, <3>3, <3>4
  <2> QED
    BY <2>1, <2>6
<1>8. FromSectorNumber(n) = <<m, s, f>>
  BY <1>3, <1>5, <1>7 DEF FromSectorNumber, F, S
<1>9. m < M
  <2> SUFFICES ASSUME M <= m PROVE FALSE
    BY <1>1, <1>6
  <2>1. M * S <= m * S /\ M * S \in Nat /\ m * S \in Nat
    BY <1>1, <1>6, Products
  <2>2. PICK a \in Nat, b \in Nat : a = M * S /\ b = m * S
    BY <2>1
  <2>3. a * F <= b * F /\ a * F \in Nat /\ b * F \in Nat
    BY <1>1, <2>1, <2>2, Products
  <2>4. F * q = b * F + s * F /\ s * F \in Nat
    <3>1. q = b + s
      BY <1>1, <1>6, <2>2
    <3>2. (b + s) * F = b * F + s * F
      BY <1>1, <1>6, <2>2, Products
    <3> QED
      BY <1>1, <1>4, <1>6, <3>1, <3>2, Products
  <2> QED
    BY <1>1, <1>2, <1>4, <2>2, <2>3, <2>4
<1>10. FromSectorNumber(n) \in Times
  BY <1>1, <1>4, <1>6, <1>8, <1>9 DEF Times, F, S, M
<1>11. ToSectorNumber(FromSectorNumber(n)) = (S * m + s) * F + f
  BY <1>8 DEF ToSectorNumber, F, S
<1>12. (S * m + s) * F = F * q
  BY <1>1, <1>4, <1>6, Products
<1> QED
  BY <1>4, <1>10, <1>11, <1>12

-----------------------------------------------------------------------------
(***************************************************************************)
(* Recursive functions over numbers: that there is one.                    *)
(***************************************************************************)
LEMMA AllNumbers ==
    ASSUME NEW S, 0 \in S, \A n \in Nat : n \in S => n + 1 \in S
    PROVE  \A n \in Nat : n \in S
<1> DEFINE T == Nat \ S
<1>1. SUFFICES ASSUME T # {} PROVE FALSE
  OBVIOUS
<1>2. PICK k \in T : \A j \in T : <<j, k>> \notin OpToRel(<, Nat)
  BY <1>1, NatLessThanWellFounded, WFMin
<1>3. k \in Nat /\ k \notin S /\ k # 0
  BY <1>2
<1>4. k - 1 \in Nat /\ k - 1 < k /\ (k - 1) + 1 = k
  BY <1>3
<1>5. <<k - 1, k>> \in OpToRel(<, Nat)
  BY <1>3, <1>4 DEF OpToRel
<1>6. k - 1 \notin T
  BY <1>2, <1>5
<1> QED
  BY <1>3, <1>4, <1>6

\* Up to n.
LEMMA UpTo ==
    ASSUME NEW n \in Nat, NEW S, 0 \in S,
           \A k \in 1 .. n : k - 1 \in S => k \in S
    PROVE  \A k \in 0 .. n : k \in S
<1> DEFINE U == {k \in Nat : k <= n => k \in S}
<1>1. 0 \in U
  OBVIOUS
<1>2. ASSUME NEW k \in Nat, k \in U PROVE k + 1 \in U
  <2> SUFFICES ASSUME k + 1 <= n PROVE k + 1 \in S
    OBVIOUS
  <2>1. k + 1 \in 1 .. n /\ (k + 1) - 1 = k
    OBVIOUS
  <2> QED
    BY <1>2, <2>1
<1>3. \A k \in Nat : k \in U
  <2> HIDE DEF U
  <2> QED
    BY <1>1, <1>2, AllNumbers
<1> QED
  BY <1>3

\* What each step makes of the value before it.
AreSteps(step, n, S) == step \in [1 .. n -> [S -> S]]
Recurs(h, a, step, n, S) ==
    h \in [0 .. n -> S] /\ h[0] = a /\ \A k \in 1 .. n : h[k] = step[k][h[k - 1]]

LEMMA Recursion ==
    ASSUME NEW S, NEW a \in S, NEW n \in Nat, NEW step, AreSteps(step, n, S)
    PROVE  \E h : Recurs(h, a, step, n, S)
<1> DEFINE U == {m \in Nat : \E h \in [0 .. m -> S] :
                     h = [k \in 0 .. m |-> IF k = 0 THEN a ELSE step[k][h[k - 1]]]}
<1>0. step \in [1 .. n -> [S -> S]]
  BY DEF AreSteps
<1>1. 0 \in U
  <2>1. PICK h : h = [k \in 0 .. 0 |-> a]
    OBVIOUS
  <2>2. h \in [0 .. 0 -> S] /\ h = [k \in 0 .. 0 |-> IF k = 0 THEN a ELSE step[k][h[k - 1]]]
    BY <2>1
  <2> QED
    BY <2>2
<1>2. ASSUME NEW m \in 1 .. n, m - 1 \in U PROVE m \in U
  <2>1. PICK f \in [0 .. m - 1 -> S] :
            f = [k \in 0 .. m - 1 |-> IF k = 0 THEN a ELSE step[k][f[k - 1]]]
    BY <1>2
  <2>2. PICK h : h = [k \in 0 .. m |-> IF k = m THEN step[m][f[m - 1]] ELSE f[k]]
    OBVIOUS
  <2>3. h \in [0 .. m -> S]
    <3>1. step[m] \in [S -> S] /\ f[m - 1] \in S
      BY <1>0, <1>2
    <3>2. step[m][f[m - 1]] \in S
      BY <3>1
    <3>3. \A k \in 0 .. m : h[k] \in S
      <4> SUFFICES ASSUME NEW k \in 0 .. m PROVE h[k] \in S
        OBVIOUS
      <4>1. CASE k = m
        BY <2>2, <3>2, <4>1
      <4>2. CASE k # m
        BY <2>2, <4>2
      <4> QED
        BY <4>1, <4>2
    <3> QED
      BY <2>2, <3>3
  <2>4. ASSUME NEW k \in 0 .. m
        PROVE  h[k] = IF k = 0 THEN a ELSE step[k][h[k - 1]]
    <3>1. CASE k = 0
      <4>1. h[k] = f[0] /\ f[0] = a
        BY <2>1, <2>2, <3>1
      <4> QED
        BY <3>1, <4>1
    <3>2. CASE k = m
      <4>1. h[m - 1] = f[m - 1] /\ h[m] = step[m][f[m - 1]] /\ m # 0
        BY <2>2
      <4> QED
        BY <3>2, <4>1
    <3>3. CASE k # 0 /\ k # m
      <4>1. k \in 0 .. m - 1 /\ k - 1 \in 0 .. m /\ k - 1 # m
        BY <3>3
      <4>2. h[k] = f[k] /\ h[k - 1] = f[k - 1]
        BY <2>2, <3>3, <4>1
      <4>3. f[k] = step[k][f[k - 1]]
        BY <2>1, <3>3, <4>1
      <4> QED
        BY <3>3, <4>2, <4>3
    <3> QED
      BY <3>1, <3>2, <3>3
  <2>5. h = [k \in 0 .. m |-> IF k = 0 THEN a ELSE step[k][h[k - 1]]]
    BY <2>2, <2>4
  <2>6. \E g \in [0 .. m -> S] :
            g = [k \in 0 .. m |-> IF k = 0 THEN a ELSE step[k][g[k - 1]]]
    BY <2>3, <2>5
  <2>7. m \in Nat
    OBVIOUS
  <2> QED
    BY <2>6, <2>7
<1>3. \A k \in 0 .. n : k \in U
  <2> HIDE DEF U
  <2> QED
    BY <1>1, <1>2, UpTo
<1>4. n \in U
  BY <1>3
<1>5. PICK h \in [0 .. n -> S] :
          h = [k \in 0 .. n |-> IF k = 0 THEN a ELSE step[k][h[k - 1]]]
  BY <1>4
<1>6. h[0] = a
  BY <1>5
<1>7. ASSUME NEW k \in 1 .. n PROVE h[k] = step[k][h[k - 1]]
  <2>1. k \in 0 .. n /\ k # 0
    OBVIOUS
  <2> QED
    BY <1>5, <2>1
<1> QED
  BY <1>5, <1>6, <1>7 DEF Recurs

(* Sequences one behind the other. *)
Behind(f, parts) ==
    f = [k \in 0 .. Len(parts) |-> IF k = 0 THEN <<>> ELSE f[k - 1] \o parts[k]]

LEMMA JoinedIs ==
    ASSUME NEW T, NEW parts \in Seq(Seq(T))
    PROVE  \E f \in [0 .. Len(parts) -> Seq(T)] :
               Behind(f, parts) /\ Joined(parts) = f[Len(parts)]
<1> DEFINE n == Len(parts)
           f == CHOOSE f : f = [k \in 0 .. n |-> IF k = 0 THEN <<>> ELSE f[k - 1] \o parts[k]]
<1>1. n \in Nat /\ <<>> \in Seq(T) /\ \A k \in 1 .. n : parts[k] \in Seq(T)
  OBVIOUS
<1>2. PICK step : step = [k \in 1 .. n |-> [s \in Seq(T) |-> s \o parts[k]]]
  OBVIOUS
<1>3. step \in [1 .. n -> [Seq(T) -> Seq(T)]]
  <2>1. \A k \in 1 .. n : \A s \in Seq(T) : s \o parts[k] \in Seq(T)
    BY <1>1
  <2> QED
    BY <1>2, <2>1
<1>4. PICK h \in [0 .. n -> Seq(T)] :
          h[0] = <<>> /\ \A k \in 1 .. n : h[k] = step[k][h[k - 1]]
  <2>1. PICK m, S, a : m = n /\ S = Seq(T) /\ a = <<>>
    OBVIOUS
  <2>2. m \in Nat /\ a \in S /\ AreSteps(step, m, S)
    BY <1>1, <1>3, <2>1 DEF AreSteps
  <2>3. PICK h : Recurs(h, a, step, m, S)
    BY <2>2, Recursion
  <2> QED
    BY <2>1, <2>3 DEF Recurs
<1>5. ASSUME NEW k \in 0 .. n
      PROVE  h[k] = IF k = 0 THEN <<>> ELSE h[k - 1] \o parts[k]
  <2>1. CASE k = 0
    BY <1>4, <2>1
  <2>2. CASE k # 0
    <3>1. k \in 1 .. n /\ h[k - 1] \in Seq(T)
      <4>1. k \in 1 .. n /\ k - 1 \in 0 .. n
        BY <1>1, <2>2
      <4> QED
        BY <4>1
    <3>2. step[k][h[k - 1]] = h[k - 1] \o parts[k]
      BY <1>2, <3>1
    <3>3. h[k] = step[k][h[k - 1]]
      BY <1>4, <3>1
    <3> QED
      BY <2>2, <3>2, <3>3
  <2> QED
    BY <2>1, <2>2
<1>6. h = [k \in 0 .. n |-> IF k = 0 THEN <<>> ELSE h[k - 1] \o parts[k]]
  BY <1>4, <1>5
<1>7. f = [k \in 0 .. n |-> IF k = 0 THEN <<>> ELSE f[k - 1] \o parts[k]]
  BY <1>6
<1>8. Joined(parts) = f[n]
  BY DEF Joined
<1> HIDE DEF f
<1>9. \A k \in 0 .. n : f[k] \in Seq(T)
  <2> DEFINE U == {k \in 0 .. n : f[k] \in Seq(T)}
  <2>1. 0 \in U
    <3>1. f[0] = <<>> /\ 0 \in 0 .. n
      BY <1>1, <1>7
    <3> QED
      BY <1>1, <3>1
  <2>2. ASSUME NEW k \in 1 .. n, k - 1 \in U PROVE k \in U
    <3>1. k \in 0 .. n /\ k # 0
      BY <1>1
    <3>2. f[k] = f[k - 1] \o parts[k]
      BY <1>7, <3>1
    <3>3. f[k - 1] \in Seq(T) /\ parts[k] \in Seq(T)
      BY <1>1, <2>2
    <3>4. f[k] \in Seq(T)
      BY <3>2, <3>3
    <3> QED
      BY <3>1, <3>4
  <2>3. \A k \in 0 .. n : k \in U
    <3> HIDE DEF U, n
    <3> QED
      BY <1>1, <2>1, <2>2, UpTo
  <2> QED
    BY <2>3
<1>10. f \in [0 .. n -> Seq(T)]
  BY <1>7, <1>9
<1> QED
  BY <1>7, <1>8, <1>10 DEF Behind

Concatenation(c, a, b) ==
    /\ c = a \o b /\ Len(c) = Len(a) + Len(b)
    /\ \A j \in 1 .. Len(a) : c[j] = a[j]
    /\ \A j \in 1 .. Len(b) : c[Len(a) + j] = b[j]

LEMMA Concatenated ==
    ASSUME NEW T, NEW a \in Seq(T), NEW b \in Seq(T)
    PROVE  a \o b \in Seq(T) /\ Concatenation(a \o b, a, b)
<1>1. PICK c : c = a \o b
  OBVIOUS
<1>2. c \in Seq(T) /\ Len(c) = Len(a) + Len(b)
  BY <1>1
<1>3. \A j \in 1 .. Len(a) : c[j] = a[j]
  BY <1>1
<1>4. ASSUME NEW j \in 1 .. Len(b) PROVE c[Len(a) + j] = b[j]
  <2>1. Len(a) + j \in 1 .. Len(a) + Len(b) /\ ~(Len(a) + j <= Len(a)) /\ (Len(a) + j) - Len(a) = j
    OBVIOUS
  <2> QED
    BY <1>1, <2>1
<1> QED
  BY <1>1, <1>2, <1>3, <1>4 DEF Concatenation

LEMMA BehindIs ==
    ASSUME NEW T, NEW parts \in Seq(Seq(T)), NEW f \in [0 .. Len(parts) -> Seq(T)],
           Behind(f, parts)
    PROVE  /\ Len(parts) \in Nat /\ f[0] = <<>> /\ Len(f[0]) = 0
           /\ \A k \in 0 .. Len(parts) : f[k] \in Seq(T) /\ Len(f[k]) \in Nat
<1>1. Len(parts) \in Nat
  OBVIOUS
<1>2. f[0] = <<>>
  BY <1>1 DEF Behind
<1>3. ASSUME NEW k \in 0 .. Len(parts) PROVE f[k] \in Seq(T) /\ Len(f[k]) \in Nat
  <2>1. f[k] \in Seq(T)
    OBVIOUS
  <2> QED
    BY <2>1
<1> QED
  BY <1>1, <1>2, <1>3

LEMMA BehindAt ==
    ASSUME NEW T, NEW parts \in Seq(Seq(T)), NEW f \in [0 .. Len(parts) -> Seq(T)],
           Behind(f, parts), NEW k \in 1 .. Len(parts)
    PROVE  /\ parts[k] \in Seq(T) /\ Len(parts[k]) \in Nat
           /\ Len(f[k - 1]) \in Nat /\ Len(f[k]) \in Nat
           /\ Len(f[k]) = Len(f[k - 1]) + Len(parts[k])
<1>1. parts[k] \in Seq(T)
  OBVIOUS
<1>2. k \in 0 .. Len(parts) /\ k # 0 /\ k - 1 \in 0 .. Len(parts)
  OBVIOUS
<1>3. f[k] = f[k - 1] \o parts[k]
  BY <1>2 DEF Behind
<1>4. PICK a \in Seq(T), b \in Seq(T), c \in Seq(T) : a = f[k - 1] /\ b = f[k] /\ c = parts[k]
  BY <1>1, <1>2
<1>5. Len(a) \in Nat /\ Len(b) \in Nat /\ Len(c) \in Nat
  OBVIOUS
<1>6. b = a \o c
  BY <1>3, <1>4
<1>7. Len(b) = Len(a) + Len(c)
  BY <1>6, Concatenated DEF Concatenation
<1> QED
  BY <1>4, <1>5, <1>7

\* Where each part is in the whole.
InPlace(whole, begin, part) == \A j \in 1 .. Len(part) : whole[begin + j] = part[j]

LEMMA JoinedAt ==
    ASSUME NEW T, NEW parts \in Seq(Seq(T)), NEW f \in [0 .. Len(parts) -> Seq(T)],
           Behind(f, parts), NEW k \in 1 .. Len(parts)
    PROVE  /\ Len(f[k]) <= Len(f[Len(parts)])
           /\ InPlace(f[Len(parts)], Len(f[k - 1]), parts[k])
<1> DEFINE n == Len(parts)
           U == {m \in Nat : (k <= m /\ m <= n) =>
                     /\ Len(f[k]) <= Len(f[m])
                     /\ \A j \in 1 .. Len(f[k]) : f[m][j] = f[k][j]}
<1>0. /\ \A i \in 0 .. n : f[i] \in Seq(T) /\ Len(f[i]) \in Nat
      /\ \A i \in 1 .. n : parts[i] \in Seq(T) /\ f[i] = f[i - 1] \o parts[i]
  <2>1. \A i \in 0 .. n : f[i] \in Seq(T) /\ Len(f[i]) \in Nat
    BY BehindIs
  <2>2. \A i \in 1 .. n : parts[i] \in Seq(T)
    OBVIOUS
  <2>3. ASSUME NEW i \in 1 .. n PROVE f[i] = f[i - 1] \o parts[i]
    <3>1. i \in 0 .. n /\ i # 0
      OBVIOUS
    <3> QED
      BY <3>1 DEF Behind
  <2> QED
    BY <2>1, <2>2, <2>3
<1>1. n \in Nat /\ k \in Nat
  OBVIOUS
<1>2. 0 \in U
  BY <1>1
<1>3. ASSUME NEW m \in Nat, m \in U PROVE m + 1 \in U
  <2> SUFFICES ASSUME k <= m + 1, m + 1 <= n
               PROVE  /\ Len(f[k]) <= Len(f[m + 1])
                      /\ \A j \in 1 .. Len(f[k]) : f[m + 1][j] = f[k][j]
    OBVIOUS
  <2>1. k \in 0 .. n /\ f[k] \in Seq(T) /\ Len(f[k]) \in Nat
    <3>1. k \in 0 .. n
      BY <1>1
    <3> QED
      BY <1>0, <3>1
  <2>2. CASE k = m + 1
    BY <2>1, <2>2
  <2>3. CASE k <= m
    <3>1. Len(f[k]) <= Len(f[m]) /\ \A j \in 1 .. Len(f[k]) : f[m][j] = f[k][j]
      BY <1>3, <2>3
    <3>2. m + 1 \in 1 .. n /\ (m + 1) - 1 = m /\ m \in 0 .. n
      BY <1>1
    <3>3. /\ f[m + 1] = f[m] \o parts[m + 1] /\ f[m] \in Seq(T) /\ Len(f[m]) \in Nat
          /\ parts[m + 1] \in Seq(T)
      <4>1. f[m] \in Seq(T) /\ Len(f[m]) \in Nat
        BY <1>0, <3>2
      <4>2. parts[m + 1] \in Seq(T) /\ f[m + 1] = f[(m + 1) - 1] \o parts[m + 1]
        BY <1>0, <3>2
      <4> QED
        BY <3>2, <4>1, <4>2
    <3>4. PICK a \in Seq(T), b \in Seq(T) : a = f[m] /\ b = parts[m + 1]
      BY <3>3
    <3>5. Len(a \o b) >= Len(a) /\ \A j \in 1 .. Len(a) : (a \o b)[j] = a[j]
      OBVIOUS
    <3>6. \A j \in 1 .. Len(f[k]) : j \in 1 .. Len(a)
      BY <2>1, <3>1, <3>3, <3>4
    <3>7. f[m + 1] = a \o b
      BY <3>3, <3>4
    <3>8. Len(f[k]) <= Len(f[m + 1])
      <4>1. Len(a \o b) \in Nat /\ Len(a) \in Nat /\ Len(f[k]) <= Len(a)
        <5>1. a \o b \in Seq(T)
          OBVIOUS
        <5>2. Len(f[k]) <= Len(a)
          BY <3>1, <3>4
        <5> QED
          BY <5>1, <5>2
      <4>2. Len(f[k]) <= Len(a \o b)
        BY <2>1, <3>5, <4>1
      <4> QED
        BY <3>7, <4>2
    <3>9. ASSUME NEW j \in 1 .. Len(f[k]) PROVE f[m + 1][j] = f[k][j]
      BY <3>1, <3>4, <3>5, <3>6, <3>7
    <3> QED
      BY <3>8, <3>9
  <2> QED
    BY <1>1, <1>3, <2>2, <2>3
<1>4. \A m \in Nat : m \in U
  <2> HIDE DEF U
  <2> QED
    BY <1>2, <1>3, AllNumbers
<1>5. Len(f[k]) <= Len(f[n]) /\ \A j \in 1 .. Len(f[k]) : f[n][j] = f[k][j]
  <2>1. n \in U
    BY <1>1, <1>4
  <2>2. k <= n
    OBVIOUS
  <2> QED
    BY <1>1, <2>1, <2>2
<1>6. ASSUME NEW j \in 1 .. Len(parts[k])
      PROVE  f[n][Len(f[k - 1]) + j] = parts[k][j]
  <2>1. k - 1 \in 0 .. n
    BY <1>1
  <2>2. PICK a \in Seq(T), b \in Seq(T) : a = f[k - 1] /\ b = parts[k]
    BY <1>0, <2>1
  <2>3. f[k] = a \o b
    BY <1>0, <2>2
  <2>4. j \in 1 .. Len(b)
    BY <2>2
  <2>5. Len(a) + j \in 1 .. Len(a \o b) /\ (a \o b)[Len(a) + j] = b[j]
    BY <2>4
  <2> QED
    BY <1>5, <2>2, <2>3, <2>5
<1> QED
  BY <1>5, <1>6 DEF InPlace

-----------------------------------------------------------------------------
(***************************************************************************)
(* The tracks, and the parts of the disc that they stand for.              *)
(***************************************************************************)
N(t) == ToSectorNumber(t)
TrackTypes == {"Data", "Audio"}
Things == {Gap(type) : type \in TrackTypes} \cup {Sector(f, n) : f \in Nat, n \in Int}

LEMMA GapsAre ==
    ASSUME NEW type \in TrackTypes, NEW n \in Nat
    PROVE  /\ Gaps(type, n) \in Seq(Things) /\ Len(Gaps(type, n)) = n
           /\ \A j \in 1 .. n : Gaps(type, n)[j] = Gap(type)
<1>1. Gap(type) \in Things
  BY DEF Things
<1>2. PICK g : g = Gap(type) /\ g \in Things
  BY <1>1
<1>3. Gaps(type, n) = [j \in 1 .. n |-> g]
  BY <1>2 DEF Gaps
<1> QED
  BY <1>2, <1>3

LEMMA SectorsAre ==
    ASSUME NEW f \in Nat, NEW first \in Nat, NEW n \in Nat
    PROVE  /\ Sectors(f, first, first + n) \in Seq(Things)
           /\ Len(Sectors(f, first, first + n)) = n
           /\ \A j \in 1 .. n : Sectors(f, first, first + n)[j] = Sector(f, first + (j - 1))
<1>1. \A j \in 1 .. n : Sector(f, (first + j) - 1) \in Things
  <2> SUFFICES ASSUME NEW j \in 1 .. n PROVE Sector(f, (first + j) - 1) \in Things
    OBVIOUS
  <2>1. (first + j) - 1 \in Int
    OBVIOUS
  <2> QED
    BY <2>1 DEF Things
<1>2. \A j \in 1 .. n : (first + j) - 1 = first + (j - 1)
  OBVIOUS
<1>3. (first + n) - first = n
  OBVIOUS
<1>4. Sectors(f, first, first + n) = [j \in 1 .. n |-> Sector(f, (first + j) - 1)]
  BY <1>3 DEF Sectors
<1>5. PICK s : s = Sectors(f, first, first + n)
  OBVIOUS
<1>6. s \in [1 .. n -> Things] /\ \A j \in 1 .. n : s[j] = Sector(f, first + (j - 1))
  <2>1. \A j \in 1 .. n : s[j] = Sector(f, (first + j) - 1) /\ s[j] \in Things
    BY <1>1, <1>4, <1>5
  <2>2. s \in [1 .. n -> Things]
    BY <1>4, <1>5, <2>1
  <2> QED
    BY <1>2, <2>1, <2>2
<1>7. s \in Seq(Things) /\ Len(s) = n
  BY <1>6
<1> QED
  BY <1>5, <1>6, <1>7

PartIs(part, type, file, first, gap, n, after) ==
    /\ part \in Seq(Things) /\ Len(part) = gap + (n + after)
    /\ \A j \in 1 .. Len(part) :
           part[j] = IF gap < j /\ j <= gap + n THEN Sector(file, first + (j - gap - 1))
                     ELSE Gap(type)

LEMMA WholeIs ==
    ASSUME NEW type \in TrackTypes, NEW file \in Nat, NEW first \in Nat, NEW p \in Nat, NEW n \in Nat,
           N(PREGAP) \in Nat
    PROVE  PartIs(Whole(type, p, Sectors(file, first, first + n)), type, file, first,
                  IF type = "Data" THEN N(PREGAP) ELSE p, n,
                  IF type = "Data" THEN N(PREGAP) ELSE 0)
<1>1. PICK s \in Seq(Things) : s = Sectors(file, first, first + n)
  BY SectorsAre
<1>2. Len(s) = n /\ \A j \in 1 .. n : s[j] = Sector(file, first + (j - 1))
  BY <1>1, SectorsAre
<1>3. PICK q \in Nat : q = N(PREGAP)
  OBVIOUS
<1>4. CASE type = "Data"
  <2>1. PICK g \in Seq(Things) : g = Gaps(type, q)
    BY GapsAre
  <2>2. Len(g) = q /\ \A j \in 1 .. q : g[j] = Gap(type)
    BY <2>1, GapsAre
  <2>3. Whole(type, p, s) = (g \o s) \o g
    BY <1>3, <1>4, <2>1 DEF Whole, N
  <2>4. PICK u \in Seq(Things) :
            /\ u = g \o s /\ Len(u) = q + n
            /\ \A j \in 1 .. q : u[j] = g[j]
            /\ \A j \in 1 .. n : u[q + j] = s[j]
    <3>1. g \o s \in Seq(Things) /\ Concatenation(g \o s, g, s)
      BY Concatenated
    <3> QED
      BY <1>2, <2>2, <3>1 DEF Concatenation
  <2>5. PICK l \in Nat : l = q + n
    OBVIOUS
  <2>6. PICK w \in Seq(Things) :
            /\ w = u \o g /\ Len(w) = l + q
            /\ \A j \in 1 .. l : w[j] = u[j]
            /\ \A j \in 1 .. q : w[l + j] = g[j]
    <3>1. u \o g \in Seq(Things) /\ Concatenation(u \o g, u, g)
      BY Concatenated
    <3>2. PICK w : w = u \o g
      OBVIOUS
    <3>3. Len(u) = l /\ Len(g) = q
      BY <2>2, <2>4, <2>5
    <3>4. w \in Seq(Things) /\ Concatenation(w, u, g)
      BY <3>1, <3>2
    <3>5. /\ w \in Seq(Things) /\ w = u \o g /\ Len(w) = l + q
          /\ \A j \in 1 .. l : w[j] = u[j]
          /\ \A j \in 1 .. q : w[l + j] = g[j]
      BY <3>2, <3>3, <3>4 DEF Concatenation
    <3> QED
      BY <3>5
  <2>7. Len(w) = q + (n + q)
    BY <2>5, <2>6
  <2>8. ASSUME NEW j \in 1 .. Len(w)
        PROVE  w[j] = IF q < j /\ j <= q + n THEN Sector(file, first + (j - q - 1))
                      ELSE Gap(type)
    <3>1. CASE j <= q
      <4>1. w[j] = u[j]
        BY <2>5, <2>6, <3>1
      <4>3. j \in 1 .. q
        BY <3>1
      <4>2. u[j] = g[j]
        BY <2>4, <4>3
      <4> QED
        BY <2>2, <3>1, <4>1, <4>2, <4>3
    <3>2. CASE q < j /\ j <= q + n
      <4>1. w[j] = u[j]
        BY <2>5, <2>6, <3>2
      <4>3. j - q \in 1 .. n /\ q + (j - q) = j
        BY <3>2
      <4>2. u[j] = s[j - q]
        BY <2>4, <4>3
      <4>4. s[j - q] = Sector(file, first + ((j - q) - 1))
        BY <1>2, <4>3
      <4> QED
        BY <3>2, <4>1, <4>2, <4>4
    <3>3. CASE q + n < j
      <4>2. j - l \in 1 .. q /\ l + (j - l) = j
        BY <2>5, <2>7, <3>3
      <4>1. w[j] = g[j - l]
        BY <2>6, <4>2
      <4>3. ~(j <= q + n)
        BY <3>3
      <4> QED
        BY <2>2, <4>1, <4>2, <4>3
    <3> QED
      BY <2>7, <3>1, <3>2, <3>3
  <2> QED
    BY <1>1, <1>3, <1>4, <2>3, <2>4, <2>6, <2>7, <2>8 DEF PartIs
<1>5. CASE type # "Data"
  <2>1. PICK g \in Seq(Things) : g = Gaps(type, p)
    BY GapsAre
  <2>2. Len(g) = p /\ \A j \in 1 .. p : g[j] = Gap(type)
    BY <2>1, GapsAre
  <2>3. Whole(type, p, s) = g \o s
    BY <1>5, <2>1 DEF Whole
  <2>4. PICK w \in Seq(Things) :
            /\ w = g \o s /\ Len(w) = p + n
            /\ \A j \in 1 .. p : w[j] = g[j]
            /\ \A j \in 1 .. n : w[p + j] = s[j]
    <3>1. g \o s \in Seq(Things) /\ Concatenation(g \o s, g, s)
      BY Concatenated
    <3> QED
      BY <1>2, <2>2, <3>1 DEF Concatenation
  <2>5. Len(w) = p + (n + 0)
    BY <2>4
  <2>6. ASSUME NEW j \in 1 .. Len(w)
        PROVE  w[j] = IF p < j /\ j <= p + n THEN Sector(file, first + (j - p - 1))
                      ELSE Gap(type)
    <3>1. CASE j <= p
      <4>2. j \in 1 .. p
        BY <3>1
      <4>1. w[j] = g[j]
        BY <2>4, <4>2
      <4> QED
        BY <2>2, <3>1, <4>1, <4>2
    <3>2. CASE p < j
      <4>2. j - p \in 1 .. n /\ j <= p + n /\ p + (j - p) = j
        BY <2>5, <3>2
      <4>1. w[j] = s[j - p]
        BY <2>4, <4>2
      <4>3. s[j - p] = Sector(file, first + ((j - p) - 1))
        BY <1>2, <4>2
      <4> QED
        BY <3>2, <4>1, <4>2, <4>3
    <3> QED
      BY <3>1, <3>2
  <2> QED
    BY <1>1, <1>5, <2>3, <2>4, <2>5, <2>6 DEF PartIs
<1> QED
  BY <1>4, <1>5

IsTrack(t) ==
    /\ t.type \in TrackTypes /\ t.file \in Nat /\ t.first \in Nat
    /\ t.pregap_len \in Times /\ t.length \in Times

Agrees(t, part) ==
    /\ IsTrack(t)
    /\ PartIs(part, t.type, t.file, t.first, N(t.pregap_len), N(t.length), N(PostgapLen(t)))

LEMMA PregapIs ==
    /\ PREGAP \in Times /\ PREGAP # ZERO /\ N(PREGAP) \in Nat
    /\ ZERO \in Times /\ N(ZERO) = 0 /\ MAX_SECTORS \in Nat
<1>1. PREGAP \in Times /\ PREGAP # ZERO
  BY DiscAssumed DEF DiscAssumption
<1>2. ZERO \in Times
  BY BasesHold DEF Bases, Times, ZERO
<1>3. N(ZERO) = 0
  <2>1. ZERO[1] = 0 /\ ZERO[2] = 0 /\ ZERO[3] = 0
    BY DEF ZERO
  <2>2. SECONDS_PER_MINUTE * 0 = 0 /\ 0 * FRAMES_PER_SECOND = 0
    BY BasesHold DEF Bases
  <2> QED
    BY <2>1, <2>2, BasesHold DEF N, ToSectorNumber, Bases
<1> QED
  BY <1>1, <1>2, <1>3, NumberTyped DEF N

(* A cue sheet's tracks. *)
LEMMA CueTyped ==
    ASSUME NEW i \in Images, i.format = "CueBin", NEW f \in 1 .. Len(i.files)
    PROVE  /\ i.files \in CueSheets /\ Len(i.files) \in Nat /\ f \in Nat
           /\ i.files[f].sectors \in 0 .. MAX_SECTORS - 1
           /\ Len(i.files[f].tracks) \in Nat
           /\ InOrder(i.files[f])
           /\ \A k \in 1 .. Len(i.files[f].tracks) :
                  LET track == i.files[f].tracks[k]
                  IN  /\ track.type \in TrackTypes /\ track.pregap_len \in Times
                      /\ track.pause_start \in SUBSET Times /\ track.track_start \in Times
<1>1. FitsOnDisc(i)
  BY DiscAssumed DEF DiscAssumption
<1>2. i.files \in CueSheets /\ \A g \in 1 .. Len(i.files) : InOrder(i.files[g])
  BY <1>1 DEF FitsOnDisc
<1> DEFINE TrackType == [type : {"Data", "Audio"}, pregap_len : Times,
                     pause_start : SUBSET Times, track_start : Times]
           FileType == [sectors : 0 .. MAX_SECTORS - 1, tracks : Seq(TrackType)]
<1>3. i.files \in Seq(FileType)
  BY <1>2 DEF CueSheets
<1>4. i.files[f] \in FileType /\ Len(i.files) \in Nat
  <2> HIDE DEF FileType
  <2> QED
    BY <1>3
<1>5. i.files[f].sectors \in 0 .. MAX_SECTORS - 1 /\ i.files[f].tracks \in Seq(TrackType)
  <2> HIDE DEF TrackType
  <2> QED
    BY <1>4
<1>6. Len(i.files[f].tracks) \in Nat /\ \A k \in 1 .. Len(i.files[f].tracks) :
                                            i.files[f].tracks[k] \in TrackType
  <2> HIDE DEF TrackType
  <2> QED
    BY <1>5
<1>7. ASSUME NEW k \in 1 .. Len(i.files[f].tracks)
      PROVE  LET track == i.files[f].tracks[k]
             IN  /\ track.type \in TrackTypes /\ track.pregap_len \in Times
                 /\ track.pause_start \in SUBSET Times /\ track.track_start \in Times
  <2>1. PICK track \in TrackType : track = i.files[f].tracks[k]
    BY <1>6
  <2>2. /\ track.type \in TrackTypes /\ track.pregap_len \in Times
        /\ track.pause_start \in SUBSET Times /\ track.track_start \in Times
    BY DEF TrackTypes
  <2> QED
    BY <2>1, <2>2
<1> QED
  BY <1>2, <1>4, <1>5, <1>6, <1>7

LEMMA TimeInFileIs ==
    ASSUME NEW i \in Images, i.format = "CueBin", NEW f \in 1 .. Len(i.files),
           NEW k \in 1 .. Len(i.files[f].tracks)
    PROVE  LET track == i.files[f].tracks[k]
           IN  /\ TimeInFile(track) \in Times /\ PauseLen(track) \in Times
               /\ N(TimeInFile(track)) <= N(track.track_start)
               /\ N(PauseLen(track)) = N(track.track_start) - N(TimeInFile(track))
<1>1. PICK track : track = i.files[f].tracks[k]
  OBVIOUS
<1>2. track.pause_start \in SUBSET Times /\ track.track_start \in Times
  BY <1>1, CueTyped
<1>3. TimeInFile(track) \in Times
  <2>1. CASE track.pause_start = {}
    BY <1>2, <2>1 DEF TimeInFile
  <2>2. CASE track.pause_start # {}
    <3>1. PICK t : t = CHOOSE u \in track.pause_start : TRUE
      OBVIOUS
    <3>2. t \in track.pause_start
      BY <2>2, <3>1
    <3> QED
      BY <1>2, <2>2, <3>1, <3>2 DEF TimeInFile
  <2> QED
    BY <2>1, <2>2
<1>4. N(TimeInFile(track)) <= N(track.track_start)
  <2>1. InOrder(i.files[f])
    BY CueTyped
  <2> QED
    BY <1>1, <2>1 DEF InOrder, N
<1>5. PauseLen(track) \in Times
      /\ N(PauseLen(track)) = N(track.track_start) - N(TimeInFile(track))
  <2>1. CASE track.pause_start = {}
    <3>1. PauseLen(track) = ZERO /\ TimeInFile(track) = track.track_start
      BY <2>1 DEF PauseLen, TimeInFile
    <3>2. N(track.track_start) \in Nat
      BY <1>2, NumberTyped DEF N
    <3> QED
      BY <3>1, <3>2, PregapIs
  <2>2. CASE track.pause_start # {}
    <3>1. PauseLen(track) = Sub(track.track_start, TimeInFile(track))
      BY <2>2 DEF PauseLen
    <3>2. PICK t \in Times, u \in Times : t = track.track_start /\ u = TimeInFile(track)
      BY <1>2, <1>3
    <3>3. ToSectorNumber(u) <= ToSectorNumber(t)
      BY <1>4, <3>2 DEF N
    <3>4. Sub(t, u) \in Times /\ N(Sub(t, u)) = N(t) - N(u)
      BY <3>3, SubIs DEF N
    <3> QED
      BY <3>1, <3>2, <3>4
  <2> QED
    BY <2>1, <2>2
<1> QED
  BY <1>1, <1>3, <1>4, <1>5

LEMMA DataEndIs ==
    ASSUME NEW i \in Images, i.format = "CueBin", NEW f \in 1 .. Len(i.files),
           NEW k \in 1 .. Len(i.files[f].tracks)
    PROVE  LET file == i.files[f]
           IN  /\ DataEndTime(file, k) \in Times
               /\ N(DataEndTime(file, k)) = Begin(file, k + 1)
               /\ N(file.tracks[k].track_start) <= Begin(file, k + 1)
               /\ Begin(file, k) = N(TimeInFile(file.tracks[k]))
<1>1. PICK file : file = i.files[f]
  OBVIOUS
<1>2. PICK n \in Nat : n = Len(file.tracks)
  BY <1>1, CueTyped
<1>3. k \in 1 .. n
  BY <1>1, <1>2
<1>4. DataEndTime(file, k) \in Times /\ N(DataEndTime(file, k)) = Begin(file, k + 1)
  <2>1. CASE k = n
    <3>0. file.sectors \in 0 .. MAX_SECTORS - 1
      BY <1>1, CueTyped
    <3>1. PICK c \in Nat : c = file.sectors /\ c < MAX_SECTORS
      BY <3>0, PregapIs
    <3>2. FromSectorNumber(c) \in Times /\ ToSectorNumber(FromSectorNumber(c)) = c
      BY <3>1, FromIs
    <3>3. k + 1 > n
      BY <2>1
    <3>4. Begin(file, k + 1) = c
      BY <1>2, <3>1, <3>3 DEF Begin
    <3>5. DataEndTime(file, k) = FromSectorNumber(c)
      BY <1>2, <2>1, <3>1 DEF DataEndTime
    <3> QED
      BY <3>2, <3>4, <3>5 DEF N
  <2>2. CASE k # n
    <3>1. k + 1 \in 1 .. n /\ ~(k + 1 > n)
      BY <1>3, <2>2
    <3>2. DataEndTime(file, k) = TimeInFile(file.tracks[k + 1])
      BY <1>2, <2>2 DEF DataEndTime
    <3>3. Begin(file, k + 1) = N(TimeInFile(file.tracks[k + 1]))
      BY <1>2, <3>1 DEF Begin, N
    <3>4. PICK l \in 1 .. Len(i.files[f].tracks) : l = k + 1
      BY <1>1, <1>2, <3>1
    <3>5. TimeInFile(file.tracks[l]) \in Times
      BY <1>1, TimeInFileIs
    <3> QED
      BY <3>2, <3>3, <3>4, <3>5
  <2> QED
    BY <2>1, <2>2
<1>5. InOrder(file)
  BY <1>1, CueTyped
<1>6. N(file.tracks[k].track_start) <= Begin(file, k + 1)
  BY <1>1, <1>5 DEF InOrder, N
<1>7. ~(k > n)
  BY <1>3
<1>8. Begin(file, k) = N(TimeInFile(file.tracks[k]))
  BY <1>2, <1>7 DEF Begin, N
<1> QED
  BY <1>1, <1>4, <1>6, <1>8

LEMMA CueAgrees ==
    ASSUME NEW i \in Images, i.format = "CueBin", NEW f \in 1 .. Len(i.files),
           NEW k \in 1 .. Len(i.files[f].tracks)
    PROVE  /\ Agrees(TrackOfCue(i.files, f, k), CuePart(i.files, f, k))
           /\ TrackOfCue(i.files, f, k).file = f
<1>1. PICK file, track : file = i.files[f] /\ track = file.tracks[k]
  OBVIOUS
<1>2. /\ track.type \in TrackTypes /\ track.pregap_len \in Times
      /\ track.track_start \in Times /\ f \in Nat
  BY <1>1, CueTyped
<1>3. PICK a \in Times, p \in Times, e \in Times :
          a = TimeInFile(track) /\ p = PauseLen(track) /\ e = DataEndTime(file, k)
  BY <1>1, TimeInFileIs, DataEndIs
<1>4. PICK b \in Times : b = track.track_start
  BY <1>2
<1>5. /\ N(a) <= N(b) /\ N(p) = N(b) - N(a)
      /\ N(b) <= N(e) /\ N(e) = Begin(file, k + 1) /\ N(a) = Begin(file, k)
  BY <1>1, <1>3, <1>4, TimeInFileIs, DataEndIs
<1>6. N(a) \in Nat /\ N(b) \in Nat /\ N(e) \in Nat /\ N(e) < MAX_SECTORS /\ MAX_SECTORS \in Nat
  BY NumberTyped DEF N
<1>7. PICK d \in Times : d = Sub(e, b) /\ N(d) = N(e) - N(b)
  BY <1>5, SubIs DEF N
<1>8. PICK l \in Times : l = Add(p, d) /\ N(l) = N(e) - N(a)
  <2>1. N(p) + N(d) = N(e) - N(a)
    BY <1>5, <1>6, <1>7
  <2>2. N(p) + N(d) < MAX_SECTORS
    BY <1>6, <2>1
  <2> QED
    BY <2>1, <2>2, AddIs DEF N
<1>9. PICK g \in Times : g = IF track.type = "Data" THEN PREGAP ELSE track.pregap_len
  BY <1>2, PregapIs
<1>10. PICK t : t = TrackOfCue(i.files, f, k)
  OBVIOUS
<1>11. /\ t.type = track.type /\ t.file = f /\ t.first = N(a) /\ t.pregap_len = g
       /\ t.length = l
  BY <1>1, <1>3, <1>4, <1>7, <1>8, <1>9, <1>10 DEF TrackOfCue, N
<1>12. IsTrack(t)
  BY <1>2, <1>6, <1>11 DEF IsTrack
<1>13. N(PostgapLen(t)) = IF track.type = "Data" THEN N(PREGAP) ELSE 0
  BY <1>11, PregapIs DEF PostgapLen
<1>14. PICK x \in TrackTypes, q \in Nat, y \in Nat, n \in Nat :
           x = track.type /\ q = N(track.pregap_len) /\ y = N(a) /\ n = N(l)
  BY <1>2, <1>6, NumberTyped DEF N
<1>15. y + n = Begin(file, k + 1) /\ y = Begin(file, k)
  BY <1>5, <1>6, <1>8, <1>14
<1>16. CuePart(i.files, f, k) = Whole(x, q, Sectors(f, y, y + n))
  BY <1>1, <1>14, <1>15 DEF CuePart, N
<1>17. PartIs(Whole(x, q, Sectors(f, y, y + n)), x, f, y,
              IF x = "Data" THEN N(PREGAP) ELSE q, n, IF x = "Data" THEN N(PREGAP) ELSE 0)
  BY <1>2, PregapIs, WholeIs
<1>18. N(g) = IF x = "Data" THEN N(PREGAP) ELSE q
  BY <1>9, <1>14
<1>19. PartIs(CuePart(i.files, f, k), t.type, t.file, t.first, N(t.pregap_len), N(t.length),
              N(PostgapLen(t)))
  BY <1>11, <1>13, <1>14, <1>16, <1>17, <1>18
<1> QED
  BY <1>10, <1>11, <1>12, <1>19 DEF Agrees

(* A CHD file's tracks. *)
LEMMA PaddedIs ==
    ASSUME NEW u \in Nat, NEW n \in Nat
    PROVE  /\ (n + 3) \div 4 \in Nat
           /\ Padded(4 * u + n) = 4 * (u + ((n + 3) \div 4))
<1>1. PICK q \in Nat, r \in 0 .. 3 : n = (4 * q) + r
  <2>1. n \div 4 \in Nat /\ n % 4 \in 0 .. 3 /\ n = (4 * (n \div 4)) + (n % 4)
    BY Z3
  <2> QED
    BY <2>1
<1>2. (4 * u + n) % 4 = r
  BY <1>1, Z3
<1>3. (n + 3) \div 4 = IF r = 0 THEN q ELSE q + 1
  BY <1>1, Z3
<1>4. CASE r = 0
  <2>1. Padded(4 * u + n) = 4 * u + n
    BY <1>2, <1>4 DEF Padded
  <2> QED
    BY <1>1, <1>3, <1>4, <2>1
<1>5. CASE r # 0
  <2>1. Padded(4 * u + n) = ((4 * u + n) - r) + 4
    BY <1>2, <1>5 DEF Padded
  <2> QED
    BY <1>1, <1>3, <1>5, <2>1
<1> QED
  BY <1>4, <1>5

LEMMA PaddedTyped ==
    ASSUME NEW n \in Nat
    PROVE  Padded(n) \in Nat
<1>1. n % 4 \in 0 .. 3 /\ n % 4 <= n
  BY Z3
<1> QED
  BY <1>1 DEF Padded

LEMMA ChdTyped ==
    ASSUME NEW i \in Images, i.format = "Chd"
    PROVE  /\ Len(i.tracks) \in Nat
           /\ \A k \in 1 .. Len(i.tracks) :
                  /\ i.tracks[k].type \in TrackTypes /\ i.tracks[k].frames \in Nat
                  /\ i.tracks[k].pregap_frames \in Nat
<1>1. FitsOnDisc(i)
  BY DiscAssumed DEF DiscAssumption
<1> DEFINE TrackType == [type : {"Data", "Audio"}, frames : Nat, pregap_frames : Nat]
<1>2. i.tracks \in Seq(TrackType)
  BY <1>1 DEF FitsOnDisc, ChdMetadata
<1>3. Len(i.tracks) \in Nat /\ \A k \in 1 .. Len(i.tracks) : i.tracks[k] \in TrackType
  <2> HIDE DEF TrackType
  <2> QED
    BY <1>2
<1>4. ASSUME NEW k \in 1 .. Len(i.tracks)
      PROVE  /\ i.tracks[k].type \in TrackTypes /\ i.tracks[k].frames \in Nat
             /\ i.tracks[k].pregap_frames \in Nat
  <2>1. PICK track \in TrackType : track = i.tracks[k]
    BY <1>3
  <2>2. track.type \in TrackTypes /\ track.frames \in Nat /\ track.pregap_frames \in Nat
    BY DEF TrackTypes
  <2> QED
    BY <2>1, <2>2
<1> QED
  BY <1>3, <1>4

LEMMA UnitsAre ==
    ASSUME NEW tracks, Len(tracks) \in Nat, \A k \in 1 .. Len(tracks) : tracks[k].frames \in Nat
    PROVE  /\ Units(tracks)[0] = 0
           /\ \A k \in 1 .. Len(tracks) :
                  Units(tracks)[k] = Units(tracks)[k - 1] + ((tracks[k].frames + 3) \div 4)
           /\ \A k \in 0 .. Len(tracks) : Units(tracks)[k] \in Nat
<1> DEFINE f == CHOOSE f : f = [k \in 0 .. Len(tracks) |->
                    IF k = 0 THEN 0 ELSE f[k - 1] + ((tracks[k].frames + 3) \div 4)]
<1>1. PICK n \in Nat : n = Len(tracks)
  OBVIOUS
<1>2. PICK step : step = [k \in 1 .. n |-> [u \in Nat |-> u + ((tracks[k].frames + 3) \div 4)]]
  OBVIOUS
<1>3. AreSteps(step, n, Nat)
  <2>1. \A k \in 1 .. n : \A u \in Nat : u + ((tracks[k].frames + 3) \div 4) \in Nat
    BY <1>1, PaddedIs
  <2> QED
    BY <1>2, <2>1 DEF AreSteps
<1>4. PICK h : Recurs(h, 0, step, n, Nat)
  BY <1>3, Recursion
<1>5. h = [k \in 0 .. n |-> IF k = 0 THEN 0 ELSE h[k - 1] + ((tracks[k].frames + 3) \div 4)]
  <2>1. ASSUME NEW k \in 0 .. n
        PROVE  h[k] = IF k = 0 THEN 0 ELSE h[k - 1] + ((tracks[k].frames + 3) \div 4)
    <3>1. CASE k = 0
      BY <1>4, <3>1 DEF Recurs
    <3>2. CASE k # 0
      <4>1. k \in 1 .. n /\ k - 1 \in 0 .. n
        BY <3>2
      <4>2. h[k] = step[k][h[k - 1]] /\ h[k - 1] \in Nat
        BY <1>4, <4>1 DEF Recurs
      <4> QED
        BY <1>2, <3>2, <4>1, <4>2
    <3> QED
      BY <3>1, <3>2
  <2>2. h \in [0 .. n -> Nat]
    BY <1>4 DEF Recurs
  <2> QED
    BY <2>1, <2>2
<1>6. f = [k \in 0 .. n |-> IF k = 0 THEN 0 ELSE f[k - 1] + ((tracks[k].frames + 3) \div 4)]
  BY <1>1, <1>5
<1>7. Units(tracks) = f
  BY DEF Units
<1> HIDE DEF f
<1>8. f[0] = 0
  BY <1>6
<1>9. ASSUME NEW k \in 1 .. n PROVE f[k] = f[k - 1] + ((tracks[k].frames + 3) \div 4)
  <2>1. k \in 0 .. n /\ k # 0
    OBVIOUS
  <2> QED
    BY <1>6, <2>1
<1>10. \A k \in 0 .. n : f[k] \in Nat
  <2> DEFINE U == {k \in Nat : f[k] \in Nat}
  <2>1. 0 \in U
    BY <1>8
  <2>2. ASSUME NEW k \in 1 .. n, k - 1 \in U PROVE k \in U
    <3>1. (tracks[k].frames + 3) \div 4 \in Nat
      BY <1>1, PaddedIs
    <3>2. f[k] \in Nat
      BY <1>9, <2>2, <3>1
    <3> QED
      BY <3>2
  <2>3. \A k \in 0 .. n : k \in U
    <3> HIDE DEF U
    <3> QED
      BY <2>1, <2>2, UpTo
  <2> QED
    BY <2>3
<1> QED
  BY <1>1, <1>7, <1>8, <1>9, <1>10

LEMMA FramesAre ==
    ASSUME NEW tracks, Len(tracks) \in Nat, \A k \in 1 .. Len(tracks) : tracks[k].frames \in Nat
    PROVE  \A k \in 0 .. Len(tracks) : FrameBehind(tracks)[k] = 4 * Units(tracks)[k]
<1> DEFINE f == CHOOSE f : f = [k \in 0 .. Len(tracks) |->
                    IF k = 0 THEN 0 ELSE Padded(f[k - 1] + tracks[k].frames)]
<1>1. PICK n \in Nat : n = Len(tracks)
  OBVIOUS
<1>2. PICK step : step = [k \in 1 .. n |-> [u \in Nat |-> Padded(u + tracks[k].frames)]]
  OBVIOUS
<1>3. AreSteps(step, n, Nat)
  <2>1. ASSUME NEW k \in 1 .. n, NEW u \in Nat PROVE Padded(u + tracks[k].frames) \in Nat
    <3>1. u + tracks[k].frames \in Nat
      BY <1>1
    <3> QED
      BY <3>1, PaddedTyped
  <2> QED
    BY <1>2, <2>1 DEF AreSteps
<1>4. PICK h : Recurs(h, 0, step, n, Nat)
  BY <1>3, Recursion
<1>5. h = [k \in 0 .. n |-> IF k = 0 THEN 0 ELSE Padded(h[k - 1] + tracks[k].frames)]
  <2>1. ASSUME NEW k \in 0 .. n
        PROVE  h[k] = IF k = 0 THEN 0 ELSE Padded(h[k - 1] + tracks[k].frames)
    <3>1. CASE k = 0
      BY <1>4, <3>1 DEF Recurs
    <3>2. CASE k # 0
      <4>1. k \in 1 .. n /\ k - 1 \in 0 .. n
        BY <3>2
      <4>2. h[k] = step[k][h[k - 1]] /\ h[k - 1] \in Nat
        BY <1>4, <4>1 DEF Recurs
      <4> QED
        BY <1>2, <3>2, <4>1, <4>2
    <3> QED
      BY <3>1, <3>2
  <2>2. h \in [0 .. n -> Nat]
    BY <1>4 DEF Recurs
  <2> QED
    BY <2>1, <2>2
<1>6. f = [k \in 0 .. n |-> IF k = 0 THEN 0 ELSE Padded(f[k - 1] + tracks[k].frames)]
  BY <1>1, <1>5
<1>7. FrameBehind(tracks) = f
  BY DEF FrameBehind
<1> HIDE DEF f
<1> DEFINE U == {k \in Nat : f[k] = 4 * Units(tracks)[k]}
<1>8. 0 \in U
  BY <1>6, UnitsAre
<1>9. ASSUME NEW k \in 1 .. n, k - 1 \in U PROVE k \in U
  <2>1. k \in 0 .. n /\ k # 0 /\ k - 1 \in 0 .. n
    OBVIOUS
  <2>2. f[k] = Padded(f[k - 1] + tracks[k].frames)
    BY <1>6, <2>1
  <2>3. PICK u \in Nat, c \in Nat : u = Units(tracks)[k - 1] /\ c = tracks[k].frames
    BY <1>1, <2>1, UnitsAre
  <2>4. Units(tracks)[k] = u + ((c + 3) \div 4)
    BY <1>1, <2>3, UnitsAre
  <2>5. f[k] = 4 * (u + ((c + 3) \div 4))
    BY <1>9, <2>2, <2>3, PaddedIs
  <2> QED
    BY <2>4, <2>5
<1>10. \A k \in 0 .. n : k \in U
  <2> HIDE DEF U
  <2> QED
    BY <1>8, <1>9, UpTo
<1> QED
  BY <1>1, <1>7, <1>10

ChdPart(tracks, k) ==
    LET first == 4 * Units(tracks)[k - 1]
    IN  Whole(tracks[k].type, tracks[k].pregap_frames, Sectors(1, first, first + tracks[k].frames))

LEMMA ChdPartIs ==
    ASSUME NEW i \in Images, i.format = "Chd", NEW k \in 1 .. Len(i.tracks)
    PROVE  /\ FrameBehind(i.tracks)[k - 1] \in Nat
           /\ PartIs(ChdPart(i.tracks, k), i.tracks[k].type, 1, FrameBehind(i.tracks)[k - 1],
                     IF i.tracks[k].type = "Data" THEN N(PREGAP) ELSE i.tracks[k].pregap_frames,
                     i.tracks[k].frames, IF i.tracks[k].type = "Data" THEN N(PREGAP) ELSE 0)
<1>1. PICK tracks : tracks = i.tracks
  OBVIOUS
<1>2. PICK type \in TrackTypes, n \in Nat, p \in Nat :
          type = tracks[k].type /\ n = tracks[k].frames /\ p = tracks[k].pregap_frames
  BY <1>1, ChdTyped
<1>3. k - 1 \in 0 .. Len(tracks)
  BY <1>1, ChdTyped
<1>4. PICK u \in Nat : u = Units(tracks)[k - 1] /\ FrameBehind(tracks)[k - 1] = 4 * u
  BY <1>1, <1>3, ChdTyped, UnitsAre, FramesAre
<1>5. PICK first \in Nat : first = 4 * u
  OBVIOUS
<1>6. ChdPart(tracks, k) = Whole(type, p, Sectors(1, first, first + n))
  BY <1>2, <1>4, <1>5 DEF ChdPart
<1>7. PartIs(Whole(type, p, Sectors(1, first, first + n)), type, 1, first,
             IF type = "Data" THEN N(PREGAP) ELSE p, n, IF type = "Data" THEN N(PREGAP) ELSE 0)
  BY PregapIs, WholeIs
<1> QED
  BY <1>1, <1>2, <1>4, <1>5, <1>6, <1>7

LEMMA ChdAgrees ==
    ASSUME NEW i \in Images, i.format = "Chd", NEW k \in 1 .. Len(i.tracks),
           Len(ChdPart(i.tracks, k)) < MAX_SECTORS
    PROVE  Agrees(ChdTracks(i.tracks)[k], ChdPart(i.tracks, k)) /\ ChdTracks(i.tracks)[k].file = 1
<1>1. PICK tracks : tracks = i.tracks
  OBVIOUS
<1>2. PICK type \in TrackTypes, n \in Nat, p \in Nat :
          type = tracks[k].type /\ n = tracks[k].frames /\ p = tracks[k].pregap_frames
  BY <1>1, ChdTyped
<1>3. PICK first \in Nat, gap \in Nat, after \in Nat :
          /\ first = FrameBehind(tracks)[k - 1]
          /\ gap = (IF type = "Data" THEN N(PREGAP) ELSE p)
          /\ after = (IF type = "Data" THEN N(PREGAP) ELSE 0)
  <2>1. FrameBehind(tracks)[k - 1] \in Nat
    BY <1>1, ChdPartIs
  <2>2. /\ (IF type = "Data" THEN N(PREGAP) ELSE p) \in Nat
        /\ (IF type = "Data" THEN N(PREGAP) ELSE 0) \in Nat
    BY PregapIs
  <2> QED
    BY <2>1, <2>2
<1>4. PartIs(ChdPart(tracks, k), type, 1, first, gap, n, after)
  BY <1>1, <1>2, <1>3, ChdPartIs
<1>5. gap + (n + after) < MAX_SECTORS
  BY <1>1, <1>4 DEF PartIs
<1>6. n < MAX_SECTORS /\ gap < MAX_SECTORS
  BY <1>5, PregapIs
<1>7. FromSectorNumber(n) \in Times /\ N(FromSectorNumber(n)) = n
  BY <1>6, FromIs DEF N
<1>8. PICK g \in Times :
          g = (IF type = "Data" THEN PREGAP ELSE FromSectorNumber(p)) /\ N(g) = gap
  <2>1. CASE type = "Data"
    BY <1>3, <2>1, PregapIs
  <2>2. CASE type # "Data"
    <3>1. gap = p
      BY <1>3, <2>2
    <3>2. FromSectorNumber(p) \in Times /\ N(FromSectorNumber(p)) = p
      BY <1>6, <3>1, FromIs DEF N
    <3> QED
      BY <2>2, <3>1, <3>2
  <2> QED
    BY <2>1, <2>2
<1>9. PICK t : t = ChdTracks(tracks)[k]
  OBVIOUS
<1>10. /\ t.type = type /\ t.file = 1 /\ t.first = first /\ t.pregap_len = g
       /\ t.length = FromSectorNumber(n)
  BY <1>1, <1>2, <1>3, <1>8, <1>9 DEF ChdTracks
<1>11. IsTrack(t)
  BY <1>7, <1>10 DEF IsTrack
<1>12. N(PostgapLen(t)) = after
  BY <1>3, <1>10, PregapIs DEF PostgapLen
<1>13. PartIs(ChdPart(tracks, k), t.type, t.file, t.first, N(t.pregap_len), N(t.length),
              N(PostgapLen(t)))
  BY <1>4, <1>7, <1>8, <1>10, <1>12
<1> QED
  BY <1>1, <1>9, <1>10, <1>11, <1>13 DEF Agrees

(* All tracks of an image. *)
LEMMA NumbersAre ==
    ASSUME NEW i \in Images, i.format = "CueBin"
    PROVE  /\ Len(Numbers(i.files)) \in Nat
           /\ \A k \in 1 .. Len(Numbers(i.files)) :
                  \E f \in 1 .. Len(i.files) : \E t \in 1 .. Len(i.files[f].tracks) :
                      Numbers(i.files)[k] = <<f, t>>
<1> DEFINE T == {x \in Nat \X Nat : x[1] \in 1 .. Len(i.files)
                                    /\ x[2] \in 1 .. Len(i.files[x[1]].tracks)}
           InFile(f) == [t \in 1 .. Len(i.files[f].tracks) |-> <<f, t>>]
           parts == [f \in 1 .. Len(i.files) |-> InFile(f)]
<1>1. Len(i.files) \in Nat
  <2>1. FitsOnDisc(i)
    BY DiscAssumed DEF DiscAssumption
  <2>2. i.files \in CueSheets
    BY <2>1 DEF FitsOnDisc
  <2> QED
    BY <2>2 DEF CueSheets
<1>2. ASSUME NEW f \in 1 .. Len(i.files) PROVE InFile(f) \in Seq(T)
  <2>1. Len(i.files[f].tracks) \in Nat
    BY CueTyped
  <2>2. \A t \in 1 .. Len(i.files[f].tracks) : <<f, t>> \in T
    BY <1>1, <2>1
  <2>3. InFile(f) \in [1 .. Len(i.files[f].tracks) -> T]
    <3> HIDE DEF T
    <3> QED
      BY <2>2
  <2> HIDE DEF T, InFile
  <2> QED
    BY <2>1, <2>3
<1>3. parts \in Seq(Seq(T))
  <2>1. parts \in [1 .. Len(i.files) -> Seq(T)]
    <3> HIDE DEF T, InFile
    <3> QED
      BY <1>2
  <2> HIDE DEF T, parts
  <2> QED
    BY <1>1, <2>1
<1>4. Numbers(i.files) = Joined(parts)
  BY DEF Numbers
<1>5. Joined(parts) \in Seq(T)
  <2> HIDE DEF T, parts
  <2>1. PICK f \in [0 .. Len(parts) -> Seq(T)] : Joined(parts) = f[Len(parts)]
    BY <1>3, JoinedIs
  <2>2. Len(parts) \in 0 .. Len(parts)
    BY <1>3
  <2> QED
    BY <2>1, <2>2
<1>6. PICK s : s = Numbers(i.files)
  OBVIOUS
<1>7. Len(s) \in Nat /\ \A k \in 1 .. Len(s) : s[k] \in T
  <2> HIDE DEF T, parts
  <2> QED
    BY <1>4, <1>5, <1>6
<1>8. ASSUME NEW k \in 1 .. Len(s)
      PROVE  \E f \in 1 .. Len(i.files) : \E t \in 1 .. Len(i.files[f].tracks) : s[k] = <<f, t>>
  <2>1. s[k] \in T
    BY <1>7
  <2>2. s[k] = <<s[k][1], s[k][2]>>
    BY <2>1
  <2> QED
    BY <2>1, <2>2
<1> QED
  BY <1>6, <1>7, <1>8

LEMMA CuePartsAre ==
    ASSUME NEW i \in Images, i.format = "CueBin"
    PROVE  LET parts == CueParts(i.files)
               tracks == CueTracks(i.files)
           IN  /\ parts \in Seq(Seq(Things)) /\ Len(tracks) = Len(parts)
               /\ \A k \in 1 .. Len(parts) :
                      Agrees(tracks[k], parts[k]) /\ tracks[k].file \in 1 .. Len(i.files)
<1>0. PICK numbers : numbers = Numbers(i.files)
  OBVIOUS
<1>1. PICK n \in Nat : numbers = Numbers(i.files) /\ n = Len(numbers)
  BY <1>0, NumbersAre
<1>2. PICK parts, tracks : parts = CueParts(i.files) /\ tracks = CueTracks(i.files)
  OBVIOUS
<1>3. /\ parts = [k \in 1 .. n |-> CuePart(i.files, numbers[k][1], numbers[k][2])]
      /\ tracks = [k \in 1 .. n |-> TrackOfCue(i.files, numbers[k][1], numbers[k][2])]
  BY <1>1, <1>2 DEF CueParts, CueTracks
<1>4. ASSUME NEW k \in 1 .. n
      PROVE  Agrees(tracks[k], parts[k]) /\ tracks[k].file \in 1 .. Len(i.files)
  <2>1. PICK f \in 1 .. Len(i.files) : \E t \in 1 .. Len(i.files[f].tracks) : numbers[k] = <<f, t>>
    BY <1>1, NumbersAre
  <2>2. PICK t \in 1 .. Len(i.files[f].tracks) : numbers[k] = <<f, t>>
    BY <2>1
  <2>3. parts[k] = CuePart(i.files, f, t) /\ tracks[k] = TrackOfCue(i.files, f, t)
    BY <1>3, <2>2
  <2> QED
    BY <2>3, CueAgrees
<1>5. \A k \in 1 .. n : parts[k] \in Seq(Things)
  BY <1>4 DEF Agrees, PartIs
<1>6. parts \in [1 .. n -> Seq(Things)]
  BY <1>3, <1>5
<1>7. parts \in Seq(Seq(Things)) /\ Len(parts) = n
  BY <1>6
<1>8. Len(tracks) = n
  BY <1>3
<1> QED
  BY <1>2, <1>4, <1>7, <1>8

LEMMA ChdPartsAre ==
    ASSUME NEW i \in Images, i.format = "Chd"
    PROVE  LET parts == ChdParts(i.tracks)
               tracks == ChdTracks(i.tracks)
           IN  /\ parts \in Seq(Seq(Things)) /\ Len(tracks) = Len(parts)
               /\ \A k \in 1 .. Len(parts) : Agrees(tracks[k], parts[k])
<1>1. PICK n \in Nat : n = Len(i.tracks)
  BY ChdTyped
<1>2. PICK parts : parts = ChdParts(i.tracks)
  OBVIOUS
<1>3. parts = [k \in 1 .. n |-> ChdPart(i.tracks, k)]
  BY <1>1, <1>2 DEF ChdParts, ChdPart
<1>4. \A k \in 1 .. n : parts[k] \in Seq(Things)
  <2> SUFFICES ASSUME NEW k \in 1 .. n PROVE parts[k] \in Seq(Things)
    OBVIOUS
  <2>1. ChdPart(i.tracks, k) \in Seq(Things)
    BY <1>1, ChdPartIs DEF PartIs
  <2> QED
    BY <1>3, <2>1
<1>5. parts \in [1 .. n -> Seq(Things)]
  BY <1>3, <1>4
<1>6. parts \in Seq(Seq(Things)) /\ Len(parts) = n
  BY <1>5
<1>7. PICK f \in [0 .. Len(parts) -> Seq(Things)] : Behind(f, parts) /\ Joined(parts) = f[Len(parts)]
  BY <1>6, JoinedIs
<1>8. Len(Layout(i)) < MAX_SECTORS /\ Layout(i) = Joined(parts)
  <2>1. FitsOnDisc(i)
    BY DiscAssumed DEF DiscAssumption
  <2>2. Layout(i) = Joined(parts)
    BY <1>2 DEF Layout, Parts
  <2>3. Joined(parts) \in Seq(Things)
    <3>1. Len(parts) \in 0 .. Len(parts)
      BY <1>6
    <3> QED
      BY <1>7, <3>1
  <2>4. Len(Layout(i)) \in Nat
    BY <2>2, <2>3
  <2> QED
    BY <2>1, <2>2, <2>4, PregapIs DEF FitsOnDisc, N
<1>9. ASSUME NEW k \in 1 .. n PROVE Agrees(ChdTracks(i.tracks)[k], parts[k])
  <2>1. Len(f[k]) <= Len(f[Len(parts)])
    BY <1>6, <1>7, JoinedAt
  <2>2. /\ Len(f[k]) = Len(f[k - 1]) + Len(parts[k]) /\ Len(parts[k]) \in Nat
        /\ Len(f[k - 1]) \in Nat
    <3>1. k \in 1 .. Len(parts)
      BY <1>6
    <3> QED
      BY <1>6, <1>7, <3>1, BehindAt
  <2>3. Len(f[Len(parts)]) < MAX_SECTORS /\ Len(f[Len(parts)]) \in Nat
    <3>1. Len(parts) \in 0 .. Len(parts)
      BY <1>6
    <3> QED
      BY <1>6, <1>7, <1>8, <3>1, BehindIs
  <2>4. Len(parts[k]) < MAX_SECTORS
    <3>1. PICK a \in Nat, b \in Nat, c \in Nat, d \in Nat :
              /\ a = Len(f[k - 1]) /\ b = Len(parts[k]) /\ c = Len(f[Len(parts)])
              /\ d = MAX_SECTORS
      BY <2>2, <2>3, PregapIs
    <3>2. a + b <= c /\ c < d
      BY <2>1, <2>2, <2>3, <3>1
    <3>3. b < d
      BY <3>2
    <3> QED
      BY <3>1, <3>3
  <2>5. parts[k] = ChdPart(i.tracks, k)
    BY <1>3
  <2> QED
    BY <1>1, <2>4, <2>5, ChdAgrees
<1>10. Len(ChdTracks(i.tracks)) = n
  BY <1>1 DEF ChdTracks
<1> QED
  BY <1>2, <1>6, <1>9, <1>10

\* Laid(f, i): f[k] is the disc up to the end of its k-th track.
Laid(f, i) ==
    /\ f \in [0 .. Len(Parts(i)) -> Seq(Things)] /\ Behind(f, Parts(i))
    /\ Layout(i) = f[Len(Parts(i))]

LEMMA PartsAre ==
    ASSUME NEW i \in Images
    PROVE  /\ i.format \in {"CueBin", "Chd"}
           /\ Parts(i) \in Seq(Seq(Things)) /\ Len(Parts(i)) \in Nat \ {0}
           /\ Len(TracksInImage(i)) = Len(Parts(i))
           /\ \A k \in 1 .. Len(Parts(i)) :
                  /\ Agrees(TracksInImage(i)[k], Parts(i)[k])
                  /\ i.format = "CueBin" => TracksInImage(i)[k].file \in 1 .. Len(i.files)
           /\ \E f : Laid(f, i)
<1>1. FitsOnDisc(i)
  BY DiscAssumed DEF DiscAssumption
<1>2. i.format \in {"CueBin", "Chd"} /\ Parts(i) # <<>>
  BY <1>1 DEF FitsOnDisc
<1>3. PICK parts, tracks : parts = Parts(i) /\ tracks = TracksInImage(i)
  OBVIOUS
<1>4. /\ parts \in Seq(Seq(Things)) /\ Len(tracks) = Len(parts)
      /\ \A k \in 1 .. Len(parts) :
             /\ Agrees(tracks[k], parts[k])
             /\ i.format = "CueBin" => tracks[k].file \in 1 .. Len(i.files)
  <2>1. CASE i.format = "CueBin"
    <3>1. parts = CueParts(i.files) /\ tracks = CueTracks(i.files)
      BY <1>3, <2>1 DEF Parts, TracksInImage
    <3> QED
      BY <2>1, <3>1, CuePartsAre
  <2>2. CASE i.format = "Chd"
    <3>1. parts = ChdParts(i.tracks) /\ tracks = ChdTracks(i.tracks)
      BY <1>3, <2>2 DEF Parts, TracksInImage
    <3> QED
      BY <2>2, <3>1, ChdPartsAre
  <2> QED
    BY <1>2, <2>1, <2>2
<1>5. Len(parts) \in Nat \ {0}
  BY <1>2, <1>3, <1>4
<1>6. \E f : Laid(f, i)
  BY <1>3, <1>4, JoinedIs DEF Laid, Layout
<1> QED
  BY <1>2, <1>3, <1>4, <1>5, <1>6

LEMMA LaidAt ==
    ASSUME NEW i \in Images, NEW f, Laid(f, i)
    PROVE  /\ Len(f[0]) = 0 /\ \A k \in 0 .. Len(Parts(i)) : Len(f[k]) \in Nat
           /\ Len(Layout(i)) \in Nat /\ Len(Layout(i)) + N(PREGAP) < MAX_SECTORS
           /\ \A k \in 1 .. Len(Parts(i)) :
                  /\ Len(Parts(i)[k]) \in Nat
                  /\ Len(f[k]) = Len(f[k - 1]) + Len(Parts(i)[k])
                  /\ Len(f[k]) <= Len(Layout(i))
                  /\ InPlace(Layout(i), Len(f[k - 1]), Parts(i)[k])
<1>1. PICK parts, layout : parts = Parts(i) /\ layout = Layout(i)
  OBVIOUS
<1>2. parts \in Seq(Seq(Things)) /\ Len(parts) \in Nat
  BY <1>1, PartsAre
<1>3. f \in [0 .. Len(parts) -> Seq(Things)] /\ Behind(f, parts) /\ layout = f[Len(parts)]
  BY <1>1 DEF Laid
<1>4. Len(f[0]) = 0 /\ \A k \in 0 .. Len(parts) : Len(f[k]) \in Nat
  BY <1>2, <1>3, BehindIs
<1>5. Len(layout) \in Nat
  BY <1>2, <1>3, <1>4
<1>6. Len(layout) + N(PREGAP) < MAX_SECTORS
  <2>1. FitsOnDisc(i)
    BY DiscAssumed DEF DiscAssumption
  <2> QED
    BY <1>1, <2>1 DEF FitsOnDisc, N
<1>7. ASSUME NEW k \in 1 .. Len(parts)
      PROVE  /\ Len(parts[k]) \in Nat
             /\ Len(f[k]) = Len(f[k - 1]) + Len(parts[k])
             /\ Len(f[k]) <= Len(layout)
             /\ InPlace(layout, Len(f[k - 1]), parts[k])
  <2>1. Len(parts[k]) \in Nat /\ Len(f[k]) = Len(f[k - 1]) + Len(parts[k])
    BY <1>2, <1>3, BehindAt
  <2>2. /\ Len(f[k]) <= Len(f[Len(parts)])
        /\ InPlace(f[Len(parts)], Len(f[k - 1]), parts[k])
    BY <1>2, <1>3, JoinedAt
  <2> QED
    BY <1>3, <2>1, <2>2
<1> QED
  BY <1>1, <1>4, <1>5, <1>6, <1>7

(* The times at which the tracks begin and end. *)
LEMMA AddTyped ==
    ASSUME NEW t \in Times, NEW u \in Times
    PROVE  Add(t, u) \in Times
<1>1. /\ t[1] \in Nat /\ t[2] \in Nat /\ t[3] \in Nat
      /\ u[1] \in Nat /\ u[2] \in Nat /\ u[3] \in Nat
  BY TimeIs
<1>2. \A x, d : Carry(x, d) \in Nat
  BY DEF Carry
<1>3. PICK f \in Nat : f = t[3] + u[3]
  BY <1>1
<1>4. PICK s \in Nat : s = t[2] + u[2] + Carry(f, FRAMES_PER_SECOND)
  BY <1>1, <1>2
<1>5. PICK m \in Nat : m = t[1] + u[1] + Carry(s, SECONDS_PER_MINUTE)
  BY <1>1, <1>2
<1>6. Add(t, u) = <<m % MAX_MINUTES, s % SECONDS_PER_MINUTE, f % FRAMES_PER_SECOND>>
  BY <1>3, <1>4, <1>5 DEF Add
<1>7. /\ m % MAX_MINUTES \in 0 .. MAX_MINUTES - 1
      /\ s % SECONDS_PER_MINUTE \in 0 .. SECONDS_PER_MINUTE - 1
      /\ f % FRAMES_PER_SECOND \in 0 .. FRAMES_PER_SECOND - 1
  BY BasesHold, DividedTime DEF Bases
<1> QED
  BY <1>6, <1>7 DEF Times

LEMMA PostgapIs ==
    ASSUME NEW t
    PROVE  PostgapLen(t) \in Times /\ N(PostgapLen(t)) \in Nat
BY PregapIs DEF PostgapLen

LEMMA PaddedLenIs ==
    ASSUME NEW t, NEW part, Agrees(t, part)
    PROVE  /\ PaddedLen(t) \in Times
           /\ Len(part) < MAX_SECTORS => N(PaddedLen(t)) = Len(part)
<1>1. PICK g \in Times, l \in Times, p \in Times :
          g = t.pregap_len /\ l = t.length /\ p = PostgapLen(t)
  BY PostgapIs DEF Agrees, IsTrack
<1>2. PaddedLen(t) = Add(Add(g, l), p)
  BY <1>1 DEF PaddedLen
<1>3. PaddedLen(t) \in Times
  BY <1>2, AddTyped
<1>4. ASSUME Len(part) < MAX_SECTORS PROVE N(PaddedLen(t)) = Len(part)
  <2>1. Len(part) = N(g) + (N(l) + N(p))
    BY <1>1 DEF Agrees, PartIs
  <2>2. N(g) \in Nat /\ N(l) \in Nat /\ N(p) \in Nat /\ MAX_SECTORS \in Nat
    BY NumberTyped DEF N
  <2>3. N(g) + N(l) < MAX_SECTORS
    BY <1>4, <2>1, <2>2
  <2>4. PICK a \in Times : a = Add(g, l) /\ N(a) = N(g) + N(l)
    BY <2>3, AddIs DEF N
  <2>5. N(a) + N(p) = Len(part) /\ N(a) + N(p) < MAX_SECTORS
    BY <1>4, <2>1, <2>2, <2>4
  <2>6. N(Add(a, p)) = N(a) + N(p)
    BY <2>5, AddIs DEF N
  <2> QED
    BY <1>2, <2>4, <2>5, <2>6
<1> QED
  BY <1>3, <1>4

LEMMA TimesBehind ==
    ASSUME NEW i \in Images, NEW f, Laid(f, i)
    PROVE  LET behind == TimeBehind(TracksInImage(i))
           IN  \A k \in 0 .. Len(Parts(i)) : behind[k] \in Times /\ N(behind[k]) = Len(f[k])
<1>1. PICK tracks, parts : tracks = TracksInImage(i) /\ parts = Parts(i)
  OBVIOUS
<1> DEFINE g == CHOOSE g : g = [k \in 0 .. Len(tracks) |->
                    IF k = 0 THEN ZERO ELSE Add(g[k - 1], PaddedLen(tracks[k]))]
<1>2. PICK n \in Nat : n = Len(tracks) /\ n = Len(parts)
  BY <1>1, PartsAre
<1>3. \A k \in 1 .. n : Agrees(tracks[k], parts[k])
  BY <1>1, <1>2, PartsAre
<1>4. PICK step : step = [k \in 1 .. n |-> [t \in Times |-> Add(t, PaddedLen(tracks[k]))]]
  OBVIOUS
<1>5. AreSteps(step, n, Times)
  <2>1. ASSUME NEW k \in 1 .. n, NEW t \in Times PROVE Add(t, PaddedLen(tracks[k])) \in Times
    <3>1. PaddedLen(tracks[k]) \in Times
      BY <1>3, PaddedLenIs
    <3> QED
      BY <3>1, AddTyped
  <2> QED
    BY <1>4, <2>1 DEF AreSteps
<1>6. PICK h : Recurs(h, ZERO, step, n, Times)
  BY <1>5, Recursion, PregapIs
<1>7. h = [k \in 0 .. n |-> IF k = 0 THEN ZERO ELSE Add(h[k - 1], PaddedLen(tracks[k]))]
  <2>1. ASSUME NEW k \in 0 .. n
        PROVE  h[k] = IF k = 0 THEN ZERO ELSE Add(h[k - 1], PaddedLen(tracks[k]))
    <3>1. CASE k = 0
      BY <1>6, <3>1 DEF Recurs
    <3>2. CASE k # 0
      <4>1. k \in 1 .. n /\ k - 1 \in 0 .. n
        BY <3>2
      <4>2. h[k] = step[k][h[k - 1]] /\ h[k - 1] \in Times
        BY <1>6, <4>1 DEF Recurs
      <4> QED
        BY <1>4, <3>2, <4>1, <4>2
    <3> QED
      BY <3>1, <3>2
  <2>2. h \in [0 .. n -> Times]
    BY <1>6 DEF Recurs
  <2> QED
    BY <2>1, <2>2
<1>8. g = [k \in 0 .. n |-> IF k = 0 THEN ZERO ELSE Add(g[k - 1], PaddedLen(tracks[k]))]
  BY <1>2, <1>7
<1>9. TimeBehind(tracks) = g
  BY DEF TimeBehind
<1> HIDE DEF g
<1> DEFINE U == {k \in Nat : g[k] \in Times /\ N(g[k]) = Len(f[k])}
<1>10. 0 \in U
  <2>1. g[0] = ZERO
    BY <1>8
  <2> QED
    BY <2>1, PregapIs, LaidAt
<1>11. ASSUME NEW k \in 1 .. n, k - 1 \in U PROVE k \in U
  <2>1. k \in 0 .. n /\ k # 0
    OBVIOUS
  <2>0. PICK u : u = PaddedLen(tracks[k])
    OBVIOUS
  <2>2. PICK t \in Times : t = g[k - 1] /\ u = PaddedLen(tracks[k])
    BY <1>11, <2>0
  <2>3. g[k] = Add(t, u)
    BY <1>8, <2>1, <2>2
  <2>4. PICK a \in Nat, b \in Nat, c \in Nat, d \in Nat :
            /\ a = Len(f[k - 1]) /\ b = Len(parts[k]) /\ c = Len(Layout(i)) /\ d = N(PREGAP)
            /\ Len(f[k]) = a + b /\ a + b <= c /\ c + d < MAX_SECTORS
    <3>1. k - 1 \in 0 .. n /\ k \in 1 .. Len(Parts(i))
      BY <1>1, <1>2
    <3>2. Len(f[k - 1]) \in Nat
      BY <1>1, <1>2, <3>1, LaidAt
    <3>3. Len(Parts(i)[k]) \in Nat /\ Len(f[k]) = Len(f[k - 1]) + Len(Parts(i)[k])
      BY <3>1, LaidAt
    <3>4. Len(f[k]) <= Len(Layout(i))
      BY <3>1, LaidAt
    <3>5. Len(Layout(i)) \in Nat /\ Len(Layout(i)) + N(PREGAP) < MAX_SECTORS
      BY LaidAt
    <3>6. N(PREGAP) \in Nat
      BY PregapIs
    <3> QED
      BY <1>1, <3>2, <3>3, <3>4, <3>5, <3>6
  <2>5. b < MAX_SECTORS /\ a + b < MAX_SECTORS
    <3>1. PICK m \in Nat : m = MAX_SECTORS
      BY PregapIs
    <3>2. a + b <= c /\ c + d < m
      BY <2>4, <3>1
    <3>3. b < m /\ a + b < m
      BY <3>2
    <3> QED
      BY <3>1, <3>3
  <2>6. u \in Times /\ N(u) = b
    BY <1>3, <2>2, <2>4, <2>5, PaddedLenIs
  <2>7. N(t) = a
    BY <1>11, <2>2, <2>4
  <2>8. Add(t, u) \in Times /\ N(Add(t, u)) = a + b
    BY <2>5, <2>6, <2>7, AddIs DEF N
  <2>9. k \in Nat
    OBVIOUS
  <2> QED
    BY <2>3, <2>4, <2>8, <2>9
<1>12. \A k \in 0 .. n : k \in U
  <2> HIDE DEF U
  <2> QED
    BY <1>10, <1>11, UpTo
<1> QED
  BY <1>1, <1>2, <1>9, <1>12

\* What the sheet says of its k-th track.
IsPlaced(s, t, begin) ==
    /\ s.type = t.type /\ s.file = t.file /\ s.first = t.first /\ s.pregap_len = t.pregap_len
    /\ s.start_time \in Times /\ s.end_time \in Times /\ s.postgap_len \in Times
    /\ N(s.start_time) = begin
    /\ N(s.end_time) = begin + ((N(t.pregap_len) + N(t.length)) + N(s.postgap_len))

LEMMA SheetIs ==
    ASSUME NEW i \in Images, NEW f, Laid(f, i)
    PROVE  /\ Len(Tracks(i)) = Len(Parts(i))
           /\ \A k \in 1 .. Len(Parts(i)) :
                  IsPlaced(Tracks(i)[k], TracksInImage(i)[k], Len(f[k - 1]))
<1>1. PICK tracks, parts, placed : tracks = TracksInImage(i) /\ parts = Parts(i) /\ placed = Placed(tracks)
  OBVIOUS
<1>2. PICK n \in Nat : n = Len(tracks) /\ n = Len(parts)
  BY <1>1, PartsAre
<1>3. Len(placed) = n /\ Len(Finalized(placed)) = n
  <2>1. Len(placed) = n
    BY <1>1, <1>2 DEF Placed
  <2> QED
    BY <2>1 DEF Finalized
<1>4. Tracks(i) = Finalized(placed)
  BY <1>1 DEF Tracks
<1>5. ASSUME NEW k \in 1 .. n
      PROVE  IsPlaced(Finalized(placed)[k], tracks[k], Len(f[k - 1]))
  <2>1. PICK t : t = tracks[k]
    OBVIOUS
  <2>2. Agrees(t, parts[k])
    BY <1>1, <1>2, <2>1, PartsAre
  <2>3. PICK p \in Times : p = PostgapLen(t)
    BY PostgapIs
  <2>4. PICK x \in Times, y \in Times :
            /\ x = TimeBehind(tracks)[k - 1] /\ y = TimeBehind(tracks)[k]
            /\ N(x) = Len(f[k - 1]) /\ N(y) = Len(f[k])
    <3>1. k \in 0 .. n /\ k - 1 \in 0 .. n
      OBVIOUS
    <3> QED
      BY <1>1, <1>2, <3>1, TimesBehind
  <2>5. PICK a \in Nat, b \in Nat, g \in Nat, l \in Nat, q \in Nat :
            /\ a = N(x) /\ b = N(y) /\ g = N(t.pregap_len) /\ l = N(t.length) /\ q = N(p)
    BY <2>2, NumberTyped DEF N, Agrees, IsTrack
  <2>6. b = a + (g + (l + q))
    <3>0. k \in 1 .. Len(Parts(i))
      BY <1>1, <1>2
    <3>1. Len(f[k]) = Len(f[k - 1]) + Len(parts[k])
      BY <1>1, <3>0, LaidAt
    <3>2. Len(parts[k]) = g + (l + q)
      BY <2>2, <2>3, <2>5 DEF Agrees, PartIs
    <3> QED
      BY <2>4, <2>5, <3>1, <3>2
  <2>7. PICK s : s = placed[k]
    OBVIOUS
  <2>8. /\ s = [type |-> t.type, file |-> t.file, first |-> t.first,
                pregap_len |-> t.pregap_len, postgap_len |-> p, start_time |-> x, end_time |-> y]
    BY <1>1, <1>2, <2>1, <2>3, <2>4, <2>7 DEF Placed
  <2>9. CASE k = n /\ p = ZERO
    <3>1. PICK u : u = [s EXCEPT !.postgap_len = PREGAP, !.end_time = Add(@, PREGAP)]
      OBVIOUS
    <3>0. placed[k].postgap_len = p /\ Len(placed) = n
      BY <1>3, <2>7, <2>8
    <3>2. Finalized(placed)[k] = u
      BY <2>7, <2>9, <3>0, <3>1 DEF Finalized
    <3>3. /\ u.type = t.type /\ u.file = t.file /\ u.first = t.first
          /\ u.pregap_len = t.pregap_len /\ u.start_time = x
          /\ u.postgap_len = PREGAP /\ u.end_time = Add(y, PREGAP)
      BY <2>8, <3>1
    <3>4. PICK c \in Nat : c = N(PREGAP)
      BY PregapIs
    <3>5. b + c < MAX_SECTORS
      <4>1. PICK d \in Nat : d = Len(Layout(i)) /\ d + c < MAX_SECTORS /\ Len(f[k]) <= d
        BY <1>1, <1>2, <3>4, LaidAt
      <4> QED
        BY <2>4, <2>5, <4>1, PregapIs
    <3>6. Add(y, PREGAP) \in Times /\ N(Add(y, PREGAP)) = b + c
      BY <2>5, <3>4, <3>5, AddIs, PregapIs DEF N
    <3>7. q = 0
      BY <2>5, <2>9, PregapIs
    <3>8. b + c = a + ((g + l) + c)
      BY <2>6, <3>7
    <3>9. IsPlaced(u, t, a)
      BY <2>5, <3>3, <3>4, <3>6, <3>8, PregapIs DEF IsPlaced
    <3> QED
      BY <2>1, <2>4, <2>5, <3>2, <3>9
  <2>10. CASE ~(k = n /\ p = ZERO)
    <3>0. placed[k].postgap_len = p /\ Len(placed) = n
      BY <1>3, <2>7, <2>8
    <3>1. Finalized(placed)[k] = s
      BY <2>7, <2>10, <3>0 DEF Finalized
    <3>2. b = a + ((g + l) + q)
      BY <2>6
    <3>3. IsPlaced(s, t, a)
      BY <2>5, <2>8, <3>2 DEF IsPlaced
    <3> QED
      BY <2>1, <2>4, <2>5, <3>1, <3>3
  <2> QED
    BY <2>9, <2>10
<1> QED
  BY <1>1, <1>2, <1>3, <1>4, <1>5

-----------------------------------------------------------------------------
(***************************************************************************)
(* Reading.                                                                *)
(***************************************************************************)
LEMMA Found ==
    ASSUME NEW i \in Images, NEW f, Laid(f, i), sheet = Tracks(i), NEW time \in Times,
           NEW track \in TracksAt(time)
    PROVE  \E k \in 1 .. Len(Parts(i)) :
               /\ track = sheet[k] /\ Len(f[k - 1]) <= N(time)
               /\ k = Len(Parts(i)) \/ N(time) < Len(f[k])
<1>1. PICK n \in Nat \ {0} : n = Len(Parts(i)) /\ n = Len(sheet)
  BY PartsAre, SheetIs
<1> DEFINE P(k) == /\ ~Before(time, sheet[k].start_time)
                   /\ k = Len(sheet) \/ Before(time, sheet[k + 1].start_time)
<1>2. ASSUME NEW k \in 1 .. n
      PROVE  /\ sheet[k].start_time \in Times /\ N(sheet[k].start_time) = Len(f[k - 1])
             /\ Before(time, sheet[k].start_time) <=> N(time) < Len(f[k - 1])
             /\ Len(f[k - 1]) \in Nat
  <2>1. IsPlaced(sheet[k], TracksInImage(i)[k], Len(f[k - 1]))
    BY <1>1, SheetIs
  <2>2. sheet[k].start_time \in Times /\ N(sheet[k].start_time) = Len(f[k - 1])
    BY <2>1 DEF IsPlaced
  <2>3. k - 1 \in 0 .. Len(Parts(i))
    BY <1>1
  <2> QED
    BY <2>2, <2>3, BeforeIs, LaidAt DEF N
<1>3. N(time) \in Nat
  BY NumberTyped DEF N
<1>4. \E k \in 1 .. Len(sheet) : P(k)
  <2>1. SUFFICES ASSUME \A k \in 1 .. n : ~P(k) PROVE FALSE
    BY <1>1
  <2> DEFINE U == {m \in Nat : ~Before(time, sheet[m + 1].start_time)}
  <2>2. 0 \in U
    <3>1. 1 \in 1 .. n
      BY <1>1
    <3>2. Len(f[1 - 1]) = 0
      <4>1. 1 - 1 = 0
        OBVIOUS
      <4> QED
        BY <4>1, LaidAt
    <3>3. ~Before(time, sheet[1].start_time)
      BY <1>2, <1>3, <3>1, <3>2
    <3> QED
      BY <3>3
  <2>3. ASSUME NEW m \in 1 .. n - 1, m - 1 \in U PROVE m \in U
    <3>1. (m - 1) + 1 = m /\ m \in 1 .. n /\ m # n /\ m \in Nat
      BY <1>1
    <3>2. ~Before(time, sheet[m].start_time)
      BY <2>3, <3>1
    <3>3. ~P(m)
      BY <2>1, <3>1
    <3>4. ~Before(time, sheet[m + 1].start_time)
      BY <1>1, <3>1, <3>2, <3>3
    <3> QED
      BY <3>1, <3>4
  <2>4. \A m \in 0 .. n - 1 : m \in U
    <3> HIDE DEF U
    <3>1. PICK l \in Nat : l = n - 1
      BY <1>1
    <3>2. \A m \in 0 .. l : m \in U
      BY <2>2, <2>3, <3>1, UpTo
    <3> QED
      BY <3>1, <3>2
  <2>5. n - 1 \in 0 .. n - 1 /\ (n - 1) + 1 = n /\ n \in 1 .. n
    BY <1>1
  <2>6. ~Before(time, sheet[n].start_time)
    BY <2>4, <2>5
  <2>7. P(n)
    BY <1>1, <2>6
  <2> QED
    BY <2>1, <2>5, <2>7
<1>5. PICK k : k = CHOOSE m \in 1 .. Len(sheet) : P(m)
  OBVIOUS
<1>6. k \in 1 .. n /\ P(k)
  BY <1>1, <1>4, <1>5
<1>7. track = sheet[k]
  <2>1. TracksAt(time) = IF k = Len(sheet) /\ Before(sheet[k].end_time, time) THEN {} ELSE {sheet[k]}
    BY <1>5 DEF TracksAt
  <2> QED
    BY <2>1
<1>8. Len(f[k - 1]) <= N(time)
  BY <1>2, <1>3, <1>6
<1>9. k = n \/ N(time) < Len(f[k])
  <2> SUFFICES ASSUME k # n PROVE N(time) < Len(f[k])
    OBVIOUS
  <2>1. PICK l \in 1 .. n : l = k + 1 /\ l - 1 = k
    BY <1>1, <1>6
  <2>2. Before(time, sheet[l].start_time)
    BY <1>1, <1>6, <2>1
  <2> QED
    BY <1>2, <2>1, <2>2
<1> QED
  BY <1>1, <1>6, <1>7, <1>8, <1>9

Relative(time, track) == Sub(time, track.start_time)
InGap(time, track) ==
    LET end == Sub(Sub(track.end_time, track.postgap_len), track.start_time)
    IN  \/ Before(Relative(time, track), track.pregap_len)
        \/ ~Before(Relative(time, track), end)
Offset(time, track) == ToSectorNumber(Sub(Relative(time, track), track.pregap_len))

\* What is to be read at a time.
Expected(i, time) ==
    IF N(time) + 1 <= Len(Layout(i)) THEN Layout(i)[N(time) + 1] ELSE Gap(sheet[Len(sheet)].type)

LEMMA SpotIs ==
    ASSUME NEW i \in Images, sheet = Tracks(i), NEW time \in Times, NEW track \in TracksAt(time)
    PROVE  /\ track.file \in Nat /\ track.first \in Nat
           /\ i.format = "CueBin" => track.file \in 1 .. Len(i.files)
           /\ InGap(time, track) => Expected(i, time) = Gap(track.type)
           /\ ~InGap(time, track) =>
                  /\ Offset(time, track) \in Nat
                  /\ Expected(i, time) = Sector(track.file, track.first + Offset(time, track))
<1>1. PICK f : Laid(f, i)
  BY PartsAre
<1>2. PICK k \in 1 .. Len(Parts(i)) :
          /\ track = sheet[k] /\ Len(f[k - 1]) <= N(time)
          /\ k = Len(Parts(i)) \/ N(time) < Len(f[k])
  BY <1>1, Found
<1>3. PICK t, part : t = TracksInImage(i)[k] /\ part = Parts(i)[k]
  OBVIOUS
<1>4. Agrees(t, part) /\ (i.format = "CueBin" => t.file \in 1 .. Len(i.files))
  BY <1>3, PartsAre
<1>5. IsPlaced(track, t, Len(f[k - 1]))
  BY <1>1, <1>2, <1>3, SheetIs
<1>6. /\ track.type = t.type /\ track.file = t.file /\ track.first = t.first
      /\ track.file \in Nat /\ track.first \in Nat
  BY <1>4, <1>5 DEF Agrees, IsTrack, IsPlaced
<1>7. PICK s \in Times, e \in Times, p \in Times, g \in Times, l \in Times :
          /\ s = track.start_time /\ e = track.end_time /\ p = track.postgap_len
          /\ g = track.pregap_len /\ l = t.length /\ g = t.pregap_len
  BY <1>4, <1>5 DEF Agrees, IsTrack, IsPlaced
<1>8. PICK a \in Nat, w \in Nat, y \in Nat, x \in Nat, q \in Nat, z \in Nat :
          /\ a = Len(f[k - 1]) /\ w = N(time) /\ y = N(g) /\ x = N(l) /\ q = N(p) /\ z = N(e)
  <2>1. k - 1 \in 0 .. Len(Parts(i))
    BY PartsAre
  <2>2. Len(f[k - 1]) \in Nat
    BY <1>1, <2>1, LaidAt
  <2> QED
    BY <2>2, NumberTyped DEF N
<1>9. N(s) = a /\ z = a + ((y + x) + q) /\ a <= w
  BY <1>2, <1>5, <1>7, <1>8 DEF IsPlaced
<1>10. PICK r \in Times : r = Relative(time, track) /\ N(r) = w - a
  <2>1. Sub(time, s) \in Times /\ N(Sub(time, s)) = w - a
    <3>1. N(s) <= N(time)
      BY <1>8, <1>9
    <3>2. Sub(time, s) \in Times /\ N(Sub(time, s)) = N(time) - N(s)
      BY <3>1, SubIs DEF N
    <3> QED
      BY <1>8, <1>9, <3>2
  <2> QED
    BY <1>7, <2>1 DEF Relative
<1>11. PICK u \in Times : u = Sub(e, p) /\ N(u) = a + (y + x)
  <2>0. q <= z /\ z - q = a + (y + x)
    BY <1>9
  <2>1. N(p) <= N(e) /\ N(e) - N(p) = a + (y + x)
    BY <1>8, <2>0
  <2> QED
    BY <2>1, SubIs DEF N
<1>12. PICK v \in Times : v = Sub(u, s) /\ N(v) = y + x
  <2>0. a <= a + (y + x) /\ (a + (y + x)) - a = y + x
    OBVIOUS
  <2>1. N(s) <= N(u) /\ N(u) - N(s) = y + x
    BY <1>9, <1>11, <2>0
  <2> QED
    BY <2>1, SubIs DEF N
<1>13. InGap(time, track) <=> (w - a < y \/ ~(w - a < y + x))
  <2>1. InGap(time, track) <=> (Before(r, g) \/ ~Before(r, v))
    BY <1>7, <1>10, <1>11, <1>12 DEF InGap
  <2>2. Before(r, g) <=> w - a < y
    BY <1>8, <1>10, BeforeIs DEF N
  <2>3. Before(r, v) <=> w - a < y + x
    BY <1>10, <1>12, BeforeIs DEF N
  <2> QED
    BY <2>1, <2>2, <2>3
<1>14. PICK b \in Nat, h \in Nat : b = Len(part) /\ h = Len(Layout(i))
  BY <1>1, <1>3, LaidAt
<1>15. Len(f[k]) = a + b /\ a + b <= h /\ InPlace(Layout(i), a, part)
  BY <1>1, <1>3, <1>8, <1>14, LaidAt
<1>16. PICK j \in Nat : j = (w - a) + 1
  BY <1>9
<1>17. /\ \A m \in 1 .. b : part[m] = IF y < m /\ m <= y + x
                                      THEN Sector(track.file, track.first + (m - y - 1))
                                      ELSE Gap(track.type)
       /\ y + x <= b
  <2>1. PartIs(part, track.type, track.file, track.first, y, x, N(PostgapLen(t)))
    BY <1>4, <1>6, <1>7, <1>8 DEF Agrees
  <2>2. N(PostgapLen(t)) \in Nat
    BY PostgapIs
  <2>3. b = y + (x + N(PostgapLen(t)))
    BY <1>14, <2>1 DEF PartIs
  <2>4. y + x <= b
    BY <2>2, <2>3
  <2> QED
    BY <1>14, <2>1, <2>4 DEF PartIs
<1>18. CASE j <= b
  <2>1. j \in 1 .. b /\ a + j = w + 1
    BY <1>9, <1>16, <1>18
  <2>2. Layout(i)[w + 1] = part[j]
    BY <1>14, <1>15, <2>1 DEF InPlace
  <2>3. w + 1 <= h
    BY <1>15, <1>18, <2>1
  <2>4. Expected(i, time) = part[j]
    BY <1>8, <1>14, <2>2, <2>3 DEF Expected
  <2>5. part[j] = IF y < j /\ j <= y + x THEN Sector(track.file, track.first + (j - y - 1))
                  ELSE Gap(track.type)
    BY <1>17, <2>1
  <2>6. CASE InGap(time, track)
    <3>1. ~(y < j /\ j <= y + x)
      BY <1>9, <1>13, <1>16, <2>6
    <3> QED
      BY <1>4, <1>6, <2>4, <2>5, <2>6, <3>1
  <2>7. CASE ~InGap(time, track)
    <3>1. y < j /\ j <= y + x /\ y <= w - a /\ j - y - 1 = (w - a) - y
      BY <1>9, <1>13, <1>16, <2>7
    <3>2. Sub(r, g) \in Times /\ N(Sub(r, g)) = (w - a) - y
      <4>1. N(g) <= N(r)
        BY <1>8, <1>10, <3>1
      <4>2. Sub(r, g) \in Times /\ N(Sub(r, g)) = N(r) - N(g)
        BY <4>1, SubIs DEF N
      <4> QED
        BY <1>8, <1>10, <4>2
    <3>3. Offset(time, track) = (w - a) - y /\ (w - a) - y \in Nat
      <4>1. Offset(time, track) = N(Sub(r, g))
        BY <1>7, <1>10 DEF Offset, N
      <4> QED
        BY <1>9, <3>1, <3>2, <4>1
    <3>4. Expected(i, time) = Sector(track.file, track.first + Offset(time, track))
      BY <2>4, <2>5, <3>1, <3>3
    <3> QED
      BY <1>4, <1>6, <2>7, <3>3, <3>4
  <2> QED
    BY <2>6, <2>7
<1>19. CASE j > b
  <2>1. ~(w < a + b)
    BY <1>9, <1>16, <1>19
  <2>2. k = Len(Parts(i)) /\ k = Len(sheet)
    BY <1>1, <1>2, <1>8, <1>15, <2>1, SheetIs
  <2>3. h = a + b
    <3>1. Layout(i) = f[k]
      BY <1>1, <2>2 DEF Laid
    <3> QED
      BY <1>14, <1>15, <3>1
  <2>4. ~(w + 1 <= h)
    BY <2>1, <2>3
  <2>5. Expected(i, time) = Gap(track.type)
    BY <1>2, <1>8, <1>14, <2>2, <2>4 DEF Expected
  <2>6. InGap(time, track)
    BY <1>9, <1>13, <1>17, <2>1
  <2> QED
    BY <1>4, <1>6, <2>5, <2>6
<1> QED
  BY <1>14, <1>16, <1>18, <1>19

(* The inductive invariant: a file that is not doubtful is where the reader *)
(* takes it to be.                                                          *)
FilesInPlace ==
    image.format = "CueBin" =>
        /\ position \in [FileNumbers -> Int] /\ actual \in [FileNumbers -> Int]
        /\ \A f \in FileNumbers : f \notin doubtful => actual[f] = position[f]

DiscInv ==
    /\ image \in Images /\ sheet = Tracks(image)
    /\ FilesInPlace
    /\ AsLaidOut

LEMMA DiscStart == DiscInit => DiscInv
<1> SUFFICES ASSUME DiscInit PROVE DiscInv
  OBVIOUS
<1>1. image \in Images /\ sheet = Tracks(image)
  BY DEF DiscInit
<1>2. FilesInPlace
  <2>1. position = [f \in FileNumbers |-> 0] /\ actual = position
    BY DEF DiscInit
  <2>2. position \in [FileNumbers -> Int]
    BY <2>1
  <2> QED
    BY <2>1, <2>2 DEF FilesInPlace
<1>3. AsLaidOut
  BY DEF DiscInit, AsLaidOut
<1> QED
  BY <1>1, <1>2, <1>3 DEF DiscInv

\* A step that delivers what is expected, if anything.
LEMMA Delivered ==
    ASSUME DiscInv, UNCHANGED <<image, sheet>>, NEW time \in Times,
           delivered'.time = time,
           (delivered'.sure /\ delivered'.what \notin {Error, NothingRead}) =>
               delivered'.what = Expected(image, time),
           FilesInPlace'
    PROVE  DiscInv'
<1>1. AsLaidOut'
  BY DEF AsLaidOut, Expected, N
<1> QED
  BY <1>1 DEF DiscInv

LEMMA CueBinStep ==
    ASSUME DiscInv, NEW time \in Times, NEW track \in TracksAt(time), image.format = "CueBin",
           ~InGap(time, track), ReadCueBin(time, track, Offset(time, track)),
           UNCHANGED <<image, sheet>>
    PROVE  DiscInv'
<1>1. /\ image \in Images /\ sheet = Tracks(image) /\ FilesInPlace
      /\ FileNumbers = 1 .. Len(image.files) /\ FileNumbers' = FileNumbers
  BY DEF DiscInv, FileNumbers
<1>2. PICK f \in FileNumbers : f = track.file
  BY <1>1, SpotIs
<1>3. PICK n \in Nat, first \in Nat : n = Offset(time, track) /\ first = track.first
  BY <1>1, SpotIs
<1>4. Expected(image, time) = Sector(f, first + n)
  BY <1>1, <1>2, <1>3, SpotIs
<1>5. /\ position \in [FileNumbers -> Int] /\ actual \in [FileNumbers -> Int]
      /\ \A g \in FileNumbers : g \notin doubtful => actual[g] = position[g]
  BY <1>1 DEF FilesInPlace
<1>6. PICK address \in Int : address = 2 * (first + n)
  OBVIOUS
<1>7. PICK from \in Int : from = IF position[f] # address THEN address ELSE actual[f]
  <2>1. actual[f] \in Int
    BY <1>5
  <2> QED
    BY <2>1
<1>8. PICK end \in Int : end = 2 * image.files[f].sectors
  <2>1. image.files[f].sectors \in 0 .. MAX_SECTORS - 1
    BY <1>1, CueTyped
  <2>2. image.files[f].sectors \in Int
    BY <2>1, PregapIs
  <2> QED
    BY <2>2
<1>9. CASE /\ position' = [position EXCEPT ![f] = address + 2]
           /\ actual' = [actual EXCEPT ![f] = from + 2]
           /\ doubtful' = IF position[f] # address THEN doubtful \ {f} ELSE doubtful
           /\ Deliver(time, track, IF from % 2 = 0 THEN Sector(f, from \div 2) ELSE Error)
  <2>1. f \notin doubtful' => from = address
    BY <1>5, <1>7, <1>9
  <2>2. FilesInPlace'
    <3>1. position' \in [FileNumbers -> Int] /\ actual' \in [FileNumbers -> Int]
      BY <1>5, <1>9
    <3>2. ASSUME NEW g \in FileNumbers, g \notin doubtful' PROVE actual'[g] = position'[g]
      <4>1. CASE g = f
        BY <1>5, <1>9, <2>1, <3>2, <4>1
      <4>2. CASE g # f
        BY <1>5, <1>9, <3>2, <4>2
      <4> QED
        BY <4>1, <4>2
    <3> QED
      BY <1>1, <3>1, <3>2 DEF FilesInPlace
  <2>3. /\ delivered'.time = time /\ delivered'.sure = (f \notin doubtful')
        /\ \/ delivered'.what = Error
           \/ delivered'.what = IF from % 2 = 0 THEN Sector(f, from \div 2) ELSE Error
    <3>1. PICK what : what = IF from % 2 = 0 THEN Sector(f, from \div 2) ELSE Error
      OBVIOUS
    <3>2. delivered' = [time |-> time, sure |-> f \notin doubtful',
                        what |-> IF track.type = "Data" /\ ~ValidEdc(what) THEN Error ELSE what]
      BY <1>2, <1>9, <3>1 DEF Deliver
    <3> QED
      BY <3>1, <3>2
  <2>4. from = address => from \div 2 = first + n
    <3>1. (2 * (first + n)) \div 2 = first + n
      BY Z3
    <3> QED
      BY <1>6, <3>1
  <2>5. (delivered'.sure /\ delivered'.what \notin {Error, NothingRead}) =>
            delivered'.what = Expected(image, time)
    BY <1>4, <2>1, <2>3, <2>4
  <2> QED
    BY <2>2, <2>3, <2>5, Delivered
<1>10. CASE /\ \E ahead \in {0, 1} :
                   actual' = [actual EXCEPT ![f] = IF from + ahead <= end THEN from + ahead ELSE end]
            /\ UNCHANGED position
            /\ Fail(time, track)
  <2>1. PICK x \in Int : actual' = [actual EXCEPT ![f] = x]
    <3>1. PICK ahead \in {0, 1} :
              actual' = [actual EXCEPT ![f] = IF from + ahead <= end THEN from + ahead ELSE end]
      BY <1>10
    <3>2. from + ahead \in Int
      OBVIOUS
    <3> QED
      BY <3>1, <3>2
  <2>2. /\ doubtful' = doubtful \cup {f}
        /\ delivered' = [time |-> time, sure |-> TRUE, what |-> Error]
    BY <1>2, <1>10 DEF Fail
  <2>3. FilesInPlace'
    <3>1. position' \in [FileNumbers -> Int] /\ actual' \in [FileNumbers -> Int]
      BY <1>5, <1>10, <2>1
    <3>2. ASSUME NEW g \in FileNumbers, g \notin doubtful' PROVE actual'[g] = position'[g]
      BY <1>5, <1>10, <2>1, <2>2, <3>2
    <3> QED
      BY <1>1, <3>1, <3>2 DEF FilesInPlace
  <2> QED
    BY <2>2, <2>3, Delivered
<1> QED
  <2>1. \/ /\ position' = [position EXCEPT ![f] = address + 2]
           /\ actual' = [actual EXCEPT ![f] = from + 2]
           /\ doubtful' = IF position[f] # address THEN doubtful \ {f} ELSE doubtful
           /\ Deliver(time, track, IF from % 2 = 0 THEN Sector(f, from \div 2) ELSE Error)
        \/ /\ \E ahead \in {0, 1} :
                   actual' = [actual EXCEPT ![f] = IF from + ahead <= end THEN from + ahead ELSE end]
           /\ UNCHANGED position
           /\ Fail(time, track)
    BY <1>2, <1>3, <1>6, <1>7, <1>8 DEF ReadCueBin
  <2> QED
    BY <1>9, <1>10, <2>1

LEMMA ChdStep ==
    ASSUME DiscInv, NEW time \in Times, NEW track \in TracksAt(time), image.format # "CueBin",
           ~InGap(time, track), ReadChd(time, track, Offset(time, track)),
           UNCHANGED <<image, sheet>>
    PROVE  DiscInv'
<1>1. image \in Images /\ sheet = Tracks(image)
  BY DEF DiscInv
<1>2. PICK sector : sector = track.first + Offset(time, track)
  OBVIOUS
<1>3. Expected(image, time) = Sector(track.file, sector)
  BY <1>1, <1>2, SpotIs
<1>4. FilesInPlace'
  BY DEF FilesInPlace
<1>5. track.file = 1
  <2>1. PICK f : Laid(f, image)
    BY <1>1, PartsAre
  <2>2. PICK k \in 1 .. Len(Parts(image)) : track = sheet[k]
    BY <1>1, <2>1, Found
  <2>3. track.file = TracksInImage(image)[k].file
    BY <1>1, <2>1, <2>2, SheetIs DEF IsPlaced
  <2>4. k \in 1 .. Len(ChdTracks(image.tracks)) /\ TracksInImage(image) = ChdTracks(image.tracks)
    <3>1. TracksInImage(image) = ChdTracks(image.tracks)
      BY DEF TracksInImage
    <3> QED
      BY <1>1, <3>1, PartsAre
  <2>5. ChdTracks(image.tracks)[k].file = 1
    <3>1. image.format = "Chd"
      BY <1>1, PartsAre
    <3>2. PICK n \in Nat : n = Len(image.tracks)
      BY <1>1, <3>1, ChdTyped
    <3> QED
      BY <2>4, <3>2 DEF ChdTracks
  <2> QED
    BY <2>3, <2>4, <2>5
<1>6. CASE \E what \in {Sector(1, sector), Error} : Deliver(time, track, what)
  <2>1. PICK what \in {Sector(1, sector), Error} : Deliver(time, track, what)
    BY <1>6
  <2>2. /\ delivered'.time = time
        /\ delivered'.what = Error \/ delivered'.what = what
    BY <2>1 DEF Deliver
  <2> QED
    BY <1>3, <1>4, <1>5, <2>2, Delivered
<1>7. CASE Fail(time, track)
  <2>1. delivered'.time = time /\ delivered'.what = Error
    BY <1>7 DEF Fail
  <2> QED
    BY <1>4, <2>1, Delivered
<1> QED
  <2>1. \/ Deliver(time, track, Sector(1, sector)) \/ Deliver(time, track, Error)
        \/ Fail(time, track)
    BY <1>2 DEF ReadChd
  <2> QED
    BY <1>6, <1>7, <2>1

LEMMA DiscStep == DiscInv /\ [DiscNext]_discVars => DiscInv'
<1> SUFFICES ASSUME DiscInv, [DiscNext]_discVars PROVE DiscInv'
  OBVIOUS
<1>1. CASE UNCHANGED discVars
  BY <1>1 DEF discVars, DiscInv, FilesInPlace, FileNumbers, AsLaidOut
<1>2. ASSUME NEW time \in Times, ReadSector(time) PROVE DiscInv'
  <2>1. PICK track \in TracksAt(time) : ReadOfTrack(time, track)
    BY <1>2 DEF ReadSector
  <2>2. UNCHANGED <<image, sheet>>
    BY <1>2 DEF ReadSector
  <2>3. image \in Images /\ sheet = Tracks(image) /\ FilesInPlace
    BY DEF DiscInv
  <2>4. CASE InGap(time, track)
    <3>1. /\ delivered' = [time |-> time, sure |-> TRUE, what |-> Gap(track.type)]
          /\ UNCHANGED <<position, actual, current_hunk_number, buffered, doubtful>>
      BY <2>1, <2>4 DEF ReadOfTrack, InGap, Relative
    <3>2. Expected(image, time) = Gap(track.type)
      BY <2>3, <2>4, SpotIs
    <3>3. FilesInPlace'
      BY <2>2, <2>3, <3>1 DEF FilesInPlace, FileNumbers
    <3> QED
      BY <2>2, <3>1, <3>2, <3>3, Delivered
  <2>5. CASE ~InGap(time, track) /\ image.format = "CueBin"
    <3>1. ReadCueBin(time, track, Offset(time, track))
      BY <2>1, <2>5 DEF ReadOfTrack, InGap, Relative, Offset
    <3> QED
      BY <2>2, <2>5, <3>1, CueBinStep
  <2>6. CASE ~InGap(time, track) /\ image.format # "CueBin"
    <3>1. ReadChd(time, track, Offset(time, track))
      BY <2>1, <2>6 DEF ReadOfTrack, InGap, Relative, Offset
    <3> QED
      BY <2>2, <2>6, <3>1, ChdStep
  <2> QED
    BY <2>4, <2>5, <2>6
<1> QED
  BY <1>1, <1>2 DEF DiscNext

(* Every time of every disc that fits is read from where the sheet of its   *)
(* tracks puts it, whatever CdRom::read_sector has read before.             *)
THEOREM DiscReadsAsLaidOut == DiscSpec => []AsLaidOut
<1>1. DiscInv => AsLaidOut
  BY DEF DiscInv
<1> QED
  BY <1>1, DiscStart, DiscStep, PTL DEF DiscSpec
=============================================================================
