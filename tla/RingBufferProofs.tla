-------------------------- MODULE RingBufferProofs --------------------------
(***************************************************************************)
(* Proofs about the ring of the Android client, for every capacity, every  *)
(* width of the counters and every set of messages.                        *)
(***************************************************************************)
EXTENDS RingBuffer, Integers, SequenceTheorems, FiniteSetTheorems,
        WellFoundedInduction, TLAPS

(* Division with remainder.                                                *)
LEMMA DivMod ==
  ASSUME NEW a \in Nat, NEW c \in Nat \ {0}
  PROVE  /\ a \div c \in Nat
         /\ a % c \in 0 .. c - 1
         /\ a = c * (a \div c) + (a % c)
<1>1. a \div c \in Int
  OBVIOUS
<1>2. a % c \in 0 .. c - 1
  OBVIOUS
<1>3. a = c * (a \div c) + (a % c)
  OBVIOUS
<1>4. a \div c >= 0
  <2>. DEFINE k == a \div c
  <2>. SUFFICES ASSUME k < 0 PROVE FALSE
    BY <1>1
  <2>. HIDE DEF k
  <2>1. k \in Int /\ a = c * k + (a % c)
    BY <1>1, <1>3 DEF k
  <2>2. c * k <= -c
    BY <2>1
  <2>. QED  BY <1>2, <2>1, <2>2
<1>. QED  BY <1>1, <1>2, <1>3, <1>4

(* The remainder is the only one.                                          *)
LEMMA ModUnique ==
  ASSUME NEW c \in Nat \ {0}, NEW q \in Int, NEW r0 \in 0 .. c - 1
  PROVE  (c * q + r0) % c = r0
OBVIOUS

(* Adding a multiple changes no remainder.                                 *)
LEMMA ModShift ==
  ASSUME NEW c \in Nat \ {0}, NEW q \in Nat, NEW a \in Nat
  PROVE  (c * q + a) % c = a % c
<1>. DEFINE k == a \div c
            m == a % c
<1>1. k \in Nat /\ m \in 0 .. c - 1 /\ a = c * k + m
  BY DivMod
<1>. HIDE DEF k, m
<1>2. c * q + a = c * (q + k) + m
  BY <1>1
<1>3. q + k \in Int
  BY <1>1
<1>4. (c * (q + k) + m) % c = m
  BY <1>1, <1>3, ModUnique
<1>. QED  BY <1>2, <1>4 DEF m

(* Numbers less than c apart have different remainders.                    *)
LEMMA ModApart ==
  ASSUME NEW c \in Nat \ {0}, NEW a \in Nat, NEW d \in 1 .. c - 1
  PROVE  (a + d) % c # a % c
<1>. SUFFICES ASSUME (a + d) % c = a % c PROVE FALSE
  OBVIOUS
<1>. DEFINE k == a \div c
            l == (a + d) \div c
            m == a % c
<1>1. k \in Nat /\ m \in 0 .. c - 1 /\ a = c * k + m
  BY DivMod
<1>2. l \in Nat /\ a + d = c * l + m
  BY DivMod, a + d \in Nat
<1>. HIDE DEF k, l, m
<1>3. d = c * l - c * k
  BY <1>1, <1>2
<1>4. CASE l <= k
  <2>1. c * k >= c * l
    BY <1>1, <1>2, <1>4
  <2>. QED  BY <1>1, <1>2, <1>3, <2>1
<1>5. CASE l > k
  <2>1. c * l >= c * k + c
    BY <1>1, <1>2, <1>5
  <2>. QED  BY <1>1, <1>2, <1>3, <2>1
<1>. QED  BY <1>1, <1>2, <1>4, <1>5
-----------------------------------------------------------------------------
(* Induction, about sets: the library's theorems are about operators.      *)

(* A set of numbers has a least one.                                       *)
LEMMA LeastElement ==
  ASSUME NEW T, T \subseteq Nat, T # {}
  PROVE  \E n \in T : \A k \in T : n <= k
<1>1. IsWellFoundedOn(OpToRel(<, Nat), Nat)
  BY NatLessThanWellFounded
<1>2. \E n \in T : \A k \in T : ~(<<k, n>> \in OpToRel(<, Nat))
  BY <1>1, WFMin
<1>3. \A k, n \in Nat : k < n => <<k, n>> \in OpToRel(<, Nat)
  BY DEF OpToRel
<1>4. PICK n \in T : \A k \in T : ~(<<k, n>> \in OpToRel(<, Nat))
  BY <1>2
<1>5. \A k \in T : ~(k < n)
  BY <1>3, <1>4
<1>6. ASSUME NEW k \in T PROVE n <= k
  <2>1. k \in Nat /\ n \in Nat /\ ~(k < n)
    BY <1>5
  <2>. QED  BY <2>1
<1>. QED  BY <1>4, <1>6

(* Induction, about a set instead of a predicate.                          *)
LEMMA Induction ==
  ASSUME NEW S, 0 \in S, \A n \in Nat : n \in S => n + 1 \in S
  PROVE  \A n \in Nat : n \in S
<1>. DEFINE T == Nat \ S
<1>. SUFFICES ASSUME T # {} PROVE FALSE
  OBVIOUS
<1>1. PICK n \in T : \A k \in T : n <= k
  BY LeastElement
<1>2. n # 0 /\ n - 1 \in Nat /\ n - 1 \notin T
  BY <1>1
<1>3. n - 1 \in S
  BY <1>2
<1>4. (n - 1) + 1 \in S
  BY <1>2, <1>3
<1>. QED  BY <1>1, <1>2, <1>4
-----------------------------------------------------------------------------
(* The digits of a length.                                                 *)

(* A quotient and a remainder that fit are the quotient and the remainder. *)
LEMMA DivUnique ==
  ASSUME NEW c \in Nat \ {0}, NEW q \in Nat, NEW s \in 0 .. c - 1
  PROVE  (c * q + s) \div c = q
<1>. DEFINE a == c * q + s
            k == a \div c
            m == a % c
<1>1. a \in Nat
  OBVIOUS
<1>2. k \in Nat /\ m \in 0 .. c - 1 /\ a = c * k + m
  <2>. HIDE DEF a
  <2>. QED  BY <1>1, DivMod
<1>. HIDE DEF k, m
<1>3. CASE k < q
  <2>1. c * (k + 1) <= c * q
    BY <1>2, <1>3
  <2>. QED  BY <1>2, <2>1
<1>4. CASE k > q
  <2>1. c * (q + 1) <= c * k
    BY <1>2, <1>4
  <2>. QED  BY <1>2, <2>1
<1>. QED  BY <1>2, <1>3, <1>4 DEF k

(* The place values are what their recursion says.                         *)
LEMMA WeightIs ==
  /\ Weight[0] = 1
  /\ \A i \in 0 .. HeaderSize - 1 : Weight[i + 1] = Base * Weight[i]
<1>. DEFINE Value(f, i) == IF i = 0 THEN 1 ELSE Base * f[i - 1]
            S == {n \in Nat : \E f : \A i \in 0 .. HeaderSize : i <= n => f[i] = Value(f, i)}
<1>0. HeaderSize \in Nat \ {0}
  BY RingAssumption
<1>1. 0 \in S
  <2>. DEFINE f == [i \in 0 .. HeaderSize |-> 1]
  <2>1. \A i \in 0 .. HeaderSize : i <= 0 => f[i] = Value(f, i)
    BY <1>0
  <2>. QED  BY <2>1
<1>2. ASSUME NEW n \in Nat, n \in S PROVE n + 1 \in S
  <2>1. PICK f : \A i \in 0 .. HeaderSize : i <= n => f[i] = Value(f, i)
    BY <1>2
  <2>. DEFINE g == [i \in 0 .. HeaderSize |-> IF i <= n THEN f[i] ELSE Base * f[i - 1]]
  <2>2. ASSUME NEW i \in 0 .. HeaderSize, i <= n + 1 PROVE g[i] = Value(g, i)
    <3>1. CASE i = 0
      BY <1>0, <2>1, <3>1
    <3>2. CASE i # 0
      <4>1. i - 1 \in 0 .. HeaderSize /\ i - 1 <= n
        BY <1>0, <2>2, <3>2
      <4>2. g[i - 1] = f[i - 1]
        BY <4>1
      <4>3. g[i] = Base * f[i - 1]
        <5>1. CASE i <= n
          <6>1. f[i] = Base * f[i - 1]
            BY <2>1, <2>2, <3>2, <5>1
          <6>. QED  BY <5>1, <6>1
        <5>2. CASE ~(i <= n)
          BY <5>2
        <5>. QED  BY <5>1, <5>2
      <4>. HIDE DEF g
      <4>. QED  BY <3>2, <4>2, <4>3
    <3>. QED  BY <3>1, <3>2
  <2>. HIDE DEF g
  <2>3. \E h : \A i \in 0 .. HeaderSize : i <= n + 1 => h[i] = Value(h, i)
    <3>. WITNESS g
    <3>. QED  BY <2>2
  <2>. QED  BY <2>3
<1>. HIDE DEF S
<1>3. HeaderSize \in S
  BY <1>0, <1>1, <1>2, Induction
<1>4. PICK f : \A i \in 0 .. HeaderSize : i <= HeaderSize => f[i] = Value(f, i)
  BY <1>3 DEF S
<1>. DEFINE g == [i \in 0 .. HeaderSize |-> f[i]]
<1>5. g = [i \in 0 .. HeaderSize |-> Value(g, i)]
  <2>1. ASSUME NEW i \in 0 .. HeaderSize PROVE g[i] = Value(g, i)
    BY <1>0, <1>4
  <2>. QED  BY <2>1
<1>. HIDE DEF g
<1>6. Weight = [i \in 0 .. HeaderSize |-> IF i = 0 THEN 1 ELSE Base * Weight[i - 1]]
  BY <1>5, Zenon DEF Weight
<1>. HIDE DEF Weight
<1>. QED  BY <1>0, <1>6

(* ... and positive.                                                       *)
LEMMA WeightsArePositive == \A i \in 0 .. HeaderSize : Weight[i] \in Nat \ {0}
<1>. DEFINE S == {n \in Nat : n <= HeaderSize => Weight[n] \in Nat \ {0}}
<1>1. 0 \in S
  BY WeightIs
<1>2. ASSUME NEW n \in Nat, n \in S PROVE n + 1 \in S
  <2>. SUFFICES ASSUME n + 1 <= HeaderSize PROVE Weight[n + 1] \in Nat \ {0}
    OBVIOUS
  <2>1. Weight[n + 1] = Base * Weight[n] /\ Weight[n] \in Nat \ {0} /\ Base \in Nat \ {0}
    BY <1>2, WeightIs, RingAssumption
  <2>. DEFINE x == Weight[n]
  <2>. HIDE DEF x
  <2>2. x \in Nat \ {0} /\ Base * x \in Nat \ {0}
    BY <2>1 DEF x
  <2>. QED  BY <2>1, <2>2 DEF x
<1>. HIDE DEF S
<1>3. \A n \in Nat : n \in S
  BY <1>1, <1>2, Induction
<1>. QED  BY <1>3, RingAssumption DEF S

(* Dividing by a place value and then by the base is dividing by the next. *)
LEMMA DivTwice ==
  ASSUME NEW a \in Nat, NEW w \in Nat \ {0}, NEW b \in Nat \ {0}
  PROVE  (a \div w) \div b = a \div (b * w)
<1>. DEFINE q == a \div w
            s == a % w
            p == q \div b
            t == q % b
            c == b * w
            d == t * w + s
<1>1. q \in Nat /\ s \in 0 .. w - 1 /\ a = w * q + s
  BY DivMod
<1>2. p \in Nat /\ t \in 0 .. b - 1 /\ q = b * p + t
  <2>. HIDE DEF q
  <2>. QED  BY <1>1, DivMod
<1>. HIDE DEF q, s, p, t
<1>3. c \in Nat \ {0}
  OBVIOUS
<1>4. d \in 0 .. c - 1
  <2>1. (t + 1) * w <= b * w
    BY <1>2
  <2>. QED  BY <1>1, <1>2, <2>1
<1>5. a = c * p + d
  BY <1>1, <1>2
<1>. HIDE DEF c, d
<1>6. a \div c = p
  BY <1>2, <1>3, <1>4, <1>5, DivUnique
<1>. QED  BY <1>6 DEF c, p, q

(* Two lengths with the same bytes are one: memcpy of a uint32_t there and *)
(* back.                                                                   *)
LEMMA LengthBytesUnique ==
  ASSUME NEW a \in Lengths, NEW b \in Lengths, LengthBytes(a) = LengthBytes(b)
  PROVE  a = b
<1>. DEFINE S == {n \in Nat : n <= HeaderSize =>
                      a \div Weight[HeaderSize - n] = b \div Weight[HeaderSize - n]}
<1>0. /\ HeaderSize \in Nat \ {0} /\ Base \in Nat \ {0}
      /\ \A i \in 0 .. HeaderSize : Weight[i] \in Nat \ {0}
      /\ a \in Nat /\ b \in Nat /\ a < Weight[HeaderSize] /\ b < Weight[HeaderSize]
  BY RingAssumption, WeightsArePositive DEF Lengths
<1>1. 0 \in S
  <2>. DEFINE w == Weight[HeaderSize]
  <2>1. w \in Nat \ {0} /\ a \in 0 .. w - 1 /\ b \in 0 .. w - 1
    BY <1>0
  <2>. HIDE DEF w
  <2>2. (w * 0 + a) \div w = 0 /\ (w * 0 + b) \div w = 0
    BY <2>1, DivUnique
  <2>3. w * 0 + a = a /\ w * 0 + b = b
    BY <1>0, <2>1
  <2>4. a \div w = b \div w
    BY <2>2, <2>3
  <2>5. HeaderSize - 0 = HeaderSize
    BY <1>0
  <2>. QED  BY <2>4, <2>5 DEF w
<1>2. ASSUME NEW n \in Nat, n \in S PROVE n + 1 \in S
  <2>. SUFFICES ASSUME n + 1 <= HeaderSize
                PROVE  a \div Weight[HeaderSize - (n + 1)]
                         = b \div Weight[HeaderSize - (n + 1)]
    OBVIOUS
  <2>. DEFINE k == HeaderSize - (n + 1)
              w == Weight[k]
  <2>1. k \in 0 .. HeaderSize - 1 /\ k + 1 = HeaderSize - n
    BY <1>0
  <2>. HIDE DEF k
  <2>2. w \in Nat \ {0} /\ Weight[k + 1] = Base * w
    BY <1>0, <2>1, WeightIs
  <2>3. (a \div w) % Base = (b \div w) % Base
    <3>1. k + 1 \in 1 .. HeaderSize /\ (k + 1) - 1 = k
      BY <1>0, <2>1
    <3>2. /\ LengthBytes(a)[k + 1] = (a \div w) % Base
          /\ LengthBytes(b)[k + 1] = (b \div w) % Base
      BY <3>1 DEF LengthBytes
    <3>. QED  BY <3>2
  <2>. HIDE DEF w
  <2>4. (a \div w) \div Base = a \div (Base * w) /\ (b \div w) \div Base = b \div (Base * w)
    BY <1>0, <2>2, DivTwice
  <2>5. a \div (Base * w) = b \div (Base * w)
    <3>1. n <= HeaderSize
      BY <1>0
    <3>2. a \div Weight[HeaderSize - n] = b \div Weight[HeaderSize - n]
      BY <1>2, <3>1
    <3>. QED  BY <2>1, <2>2, <3>2
  <2>. DEFINE x == a \div w
              y == b \div w
  <2>6. x \in Nat /\ y \in Nat
    BY <1>0, <2>2, DivMod
  <2>. HIDE DEF x, y
  <2>7. x \div Base = y \div Base /\ x % Base = y % Base
    BY <2>3, <2>4, <2>5 DEF x, y
  <2>8. x = Base * (x \div Base) + (x % Base) /\ y = Base * (y \div Base) + (y % Base)
    BY <1>0, <2>6, DivMod
  <2>9. x = y
    BY <2>7, <2>8
  <2>. QED  BY <2>9 DEF x, y, w, k
<1>. HIDE DEF S
<1>3. HeaderSize \in S
  BY <1>0, <1>1, <1>2, Induction
<1>4. HeaderSize - HeaderSize = 0
  BY <1>0
<1>5. a \div Weight[0] = b \div Weight[0]
  BY <1>3, <1>4, <1>0 DEF S
<1>6. a \div 1 = a /\ b \div 1 = b
  BY <1>0
<1>. QED  BY <1>5, <1>6, WeightIs
-----------------------------------------------------------------------------
(* The arithmetic of the counters.                                         *)

(* What size_t does to a sum of two counters.                              *)
LEMMA ModOnce ==
  ASSUME NEW c \in Nat \ {0}, NEW x \in 0 .. 2 * c - 1
  PROVE  x % c = IF x < c THEN x ELSE x - c
<1>1. CASE x < c
  <2>1. (c * 0 + x) % c = x
    BY <1>1, ModUnique, x \in 0 .. c - 1
  <2>. QED  BY <1>1, <2>1
<1>2. CASE x >= c
  <2>1. (c * 1 + (x - c)) % c = x - c
    BY <1>2, ModUnique, x - c \in 0 .. c - 1
  <2>2. c * 1 + (x - c) = x
    OBVIOUS
  <2>. QED  BY <1>2, <2>1, <2>2
<1>. QED  BY <1>1, <1>2

(* The values of a counter.                                                *)
Position == 0 .. Modulus - 1

(* The constants are numbers; the counters wrap at a multiple of the size. *)
LEMMA Sizes ==
  /\ Capacity \in Nat \ {0} /\ Modulus \in Nat \ {0} /\ Capacity < Modulus
  /\ HeaderSize \in Nat \ {0} /\ MaxRead \in Nat
  /\ \E q \in Nat : Modulus = Capacity * q
<1>1. Modulus \in Nat \ {0}
  BY RingAssumption
<1>2. Modulus = Capacity * (Modulus \div Capacity) + (Modulus % Capacity)
      /\ Modulus \div Capacity \in Nat
  BY <1>1, RingAssumption, DivMod
<1>3. Modulus % Capacity = 0 /\ Capacity * (Modulus \div Capacity) \in Nat
  BY <1>2, RingAssumption
<1>4. Modulus = Capacity * (Modulus \div Capacity)
  BY <1>2, <1>3
<1>5. \E q \in Nat : Modulus = Capacity * q
  BY <1>2, <1>4, Zenon
<1>. QED  BY <1>1, <1>5, RingAssumption

(* A number below twice the modulus wraps once at most.                    *)
LEMMA ModPosition ==
  ASSUME NEW x \in 0 .. 2 * Modulus - 1
  PROVE  x % Modulus = IF x < Modulus THEN x ELSE x - Modulus
<1>1. Modulus \in Nat \ {0}
  BY Sizes
<1>. QED  BY <1>1, ModOnce

(* The distance of two positions, without remainders.                      *)
LEMMA MinusIs ==
  ASSUME NEW w \in Position, NEW p \in Position
  PROVE  Minus(w, p) = IF w >= p THEN w - p ELSE w + Modulus - p
<1>. DEFINE x == w + Modulus - p
<1>1. x \in 0 .. 2 * Modulus - 1
  BY Sizes DEF Position
<1>. HIDE DEF x
<1>2. x % Modulus = IF x < Modulus THEN x ELSE x - Modulus
  BY <1>1, ModPosition
<1>3. Minus(w, p) = x % Modulus
  BY DEF Minus, x
<1>. QED  BY <1>2, <1>3, Sizes DEF x, Position

(* The position n bytes further, without remainders.                       *)
LEMMA PlusIs ==
  ASSUME NEW w \in Position, NEW n \in Position
  PROVE  /\ Plus(w, n) = IF w + n < Modulus THEN w + n ELSE w + n - Modulus
         /\ Plus(w, n) \in Position
<1>. DEFINE x == w + n
<1>1. x \in 0 .. 2 * Modulus - 1
  BY Sizes DEF Position
<1>. HIDE DEF x
<1>2. x % Modulus = IF x < Modulus THEN x ELSE x - Modulus
  BY <1>1, ModPosition
<1>3. Plus(w, n) = x % Modulus
  BY DEF Plus, x
<1>4. Plus(w, n) = IF w + n < Modulus THEN w + n ELSE w + n - Modulus
  BY <1>2, <1>3, Sizes DEF x, Position
<1>. QED  BY <1>4, Sizes DEF Position

(* Moving the write position n forward adds n bytes to be read.            *)
LEMMA WriteMoves ==
  ASSUME NEW w \in Position, NEW p \in Position, NEW n \in Nat,
         Minus(w, p) + n <= Capacity
  PROVE  /\ Plus(w, n) \in Position
         /\ Minus(Plus(w, n), p) = Minus(w, p) + n
<1>1. Minus(w, p) \in Nat
  BY MinusIs, Sizes DEF Position
<1>2. n \in Position
  BY <1>1, Sizes DEF Position
<1>3. Plus(w, n) \in Position
      /\ Plus(w, n) = IF w + n < Modulus THEN w + n ELSE w + n - Modulus
  BY <1>2, PlusIs
<1>4. Minus(Plus(w, n), p) = IF Plus(w, n) >= p THEN Plus(w, n) - p
                             ELSE Plus(w, n) + Modulus - p
  BY <1>3, MinusIs
<1>5. Minus(w, p) = IF w >= p THEN w - p ELSE w + Modulus - p
  BY MinusIs
<1>. HIDE DEF Plus, Minus
<1>. QED  BY <1>2, <1>3, <1>4, <1>5, Sizes DEF Position

(* Moving the read position n forward takes n bytes away.                  *)
LEMMA ReadMoves ==
  ASSUME NEW w \in Position, NEW p \in Position, NEW n \in Nat,
         n <= Minus(w, p)
  PROVE  /\ Plus(p, n) \in Position
         /\ Minus(w, Plus(p, n)) = Minus(w, p) - n
<1>1. Minus(w, p) = IF w >= p THEN w - p ELSE w + Modulus - p
  BY MinusIs
<1>2. n \in Position
  BY <1>1, Sizes DEF Position
<1>3. Plus(p, n) \in Position
      /\ Plus(p, n) = IF p + n < Modulus THEN p + n ELSE p + n - Modulus
  BY <1>2, PlusIs
<1>4. Minus(w, Plus(p, n)) = IF w >= Plus(p, n) THEN w - Plus(p, n)
                             ELSE w + Modulus - Plus(p, n)
  BY <1>3, MinusIs
<1>. QED  BY <1>1, <1>2, <1>3, <1>4, Sizes DEF Position

(* The room for a write is what is not to be read.                         *)
LEMMA RoomIs ==
  ASSUME NEW used \in 0 .. Capacity
  PROVE  Minus(Capacity, used) = Capacity - used
<1>1. Capacity \in Position /\ used \in Position
  BY Sizes DEF Position
<1>. QED  BY <1>1, MinusIs, Sizes DEF Position

(* Two bytes less than a buffer apart, counted from the read position, are *)
(* two cells, even when the write position has wrapped around.             *)
LEMMA CellsApart ==
  ASSUME NEW w \in Position, NEW p \in Position, NEW i \in Nat, NEW j \in Nat,
         j < Minus(w, p), Minus(w, p) + i < Capacity
  PROVE  (w + i) % Capacity # (p + j) % Capacity
<1>. DEFINE d == Minus(w, p) + i - j
<1>1. Minus(w, p) = IF w >= p THEN w - p ELSE w + Modulus - p
  BY MinusIs
<1>2. d \in 1 .. Capacity - 1
  BY <1>1, Sizes DEF Position
<1>3. p + j + d = w + i \/ p + j + d = Modulus + (w + i)
  BY <1>1, Sizes DEF Position
<1>4. p + j \in Nat /\ w + i \in Nat
  BY DEF Position
<1>. HIDE DEF d
<1>5. (p + j + d) % Capacity # (p + j) % Capacity
  BY <1>2, <1>4, ModApart, Sizes
<1>6. (Modulus + (w + i)) % Capacity = (w + i) % Capacity
  <2>1. PICK q \in Nat : Modulus = Capacity * q
    BY Sizes
  <2>2. (Capacity * q + (w + i)) % Capacity = (w + i) % Capacity
    BY <1>4, ModShift, Sizes
  <2>. QED  BY <2>1, <2>2
<1>. QED  BY <1>3, <1>5, <1>6
-----------------------------------------------------------------------------
(* The invariant.                                                          *)

(* The type of the state.                                                  *)
Numbers ==
  /\ write_pos \in Position /\ read_pos \in Position /\ r \in Position
  /\ avail \in Nat /\ msg_len \in Nat /\ message \in Seq(0 .. Base - 1)
  /\ writerPc \in {"idle", "length", "payload", "publish", "reset"}
  /\ readerPc \in {"idle", "length", "copy", "release"}

(* What is not read yet and what is being written fit the buffer together. *)
Fit ==
  /\ writerPc # "reset" => AvailableRead <= Capacity
  /\ writerPc \in {"length", "payload", "publish"} =>
       AvailableRead + HeaderSize + Len(message) <= Capacity

(* Nobody reads during a reset.                                            *)
ResetAlone == writerPc = "reset" => readerPc = "idle" /\ write_pos = 0

(* The reader is at the read position; what it saw there has only grown,   *)
(* and what it copies lies within it.                                      *)
ReaderBehind ==
  /\ readerPc # "idle" => r = read_pos /\ HeaderSize <= avail /\ avail <= AvailableRead
  /\ readerPc \in {"copy", "release"} => HeaderSize + msg_len <= avail

(* The inductive invariant.                                                *)
IInv == Numbers /\ Fit /\ ResetAlone /\ ReaderBehind

(* The bytes to be read are a number of bytes.                             *)
LEMMA UsedIsNat ==
  ASSUME NEW w \in Position, NEW p \in Position
  PROVE  Minus(w, p) \in Nat
BY MinusIs, Sizes DEF Position

(* The ring starts empty.                                                  *)
LEMMA InitIInv == Init => IInv
<1>. SUFFICES ASSUME Init PROVE IInv
  OBVIOUS
<1>1. 0 \in Position /\ Minus(0, 0) = 0
  BY MinusIs, Sizes DEF Position
<1>2. Numbers
  BY <1>1 DEF Init, Numbers
<1>. QED  BY <1>1, <1>2, Sizes DEF Init, IInv, Fit, ResetAlone, ReaderBehind,
    AvailableRead

(* A write begins only when its length and its bytes fit.                  *)
LEMMA WriteBeginsIInv ==
  ASSUME IInv, NEW m \in Messages, WriteBegins(m)
  PROVE  IInv'
<1>1. m \in Seq(0 .. Base - 1) /\ Len(m) \in Nat
  BY RingAssumption
<1>2. AvailableRead \in 0 .. Capacity
  BY UsedIsNat, Sizes DEF IInv, Numbers, Fit, WriteBegins, AvailableRead
<1>3. AvailableRead + HeaderSize + Len(m) <= Capacity
  <2>1. AvailableWrite = Capacity - AvailableRead
    BY <1>2, RoomIs DEF AvailableWrite
  <2>. QED  BY <1>1, <1>2, <2>1, Sizes DEF WriteBegins, HasRoom
<1>4. Numbers'
  BY <1>1 DEF IInv, Numbers, WriteBegins, positions, readerVars, readerLocals
<1>5. UNCHANGED <<write_pos, read_pos, r, avail, msg_len, readerPc>>
      /\ AvailableRead' = AvailableRead
  BY DEF WriteBegins, positions, readerVars, readerLocals, AvailableRead
<1>6. Fit'
  BY <1>2, <1>3, <1>5 DEF WriteBegins, Fit
<1>7. ResetAlone' /\ ReaderBehind'
  BY <1>5 DEF WriteBegins, IInv, ResetAlone, ReaderBehind
<1>. QED  BY <1>4, <1>6, <1>7 DEF IInv

(* The two copies of a write move no position.                             *)
LEMMA CopiesIInv ==
  ASSUME IInv, WriteLength \/ WritePayload
  PROVE  IInv'
<1>1. /\ UNCHANGED <<write_pos, read_pos, r, avail, msg_len, readerPc, message>>
      /\ AvailableRead' = AvailableRead
      /\ writerPc \in {"length", "payload"} /\ writerPc' \in {"payload", "publish"}
  BY DEF WriteLength, WritePayload, positions, readerVars, readerLocals,
      AvailableRead
<1>2. Numbers'
  BY <1>1 DEF IInv, Numbers
<1>3. Fit'
  BY <1>1 DEF IInv, Fit
<1>4. ResetAlone' /\ ReaderBehind'
  BY <1>1 DEF IInv, ResetAlone, ReaderBehind
<1>. QED  BY <1>2, <1>3, <1>4 DEF IInv

(* Publishing a message adds its bytes to the used ones.                   *)
LEMMA PublishIInv ==
  ASSUME IInv, Publish
  PROVE  IInv'
<1>1. /\ UNCHANGED <<read_pos, r, avail, msg_len, readerPc>>
      /\ writerPc = "publish" /\ writerPc' = "idle" /\ message' = <<>>
      /\ write_pos' = Plus(write_pos, HeaderSize + Len(message))
  BY DEF Publish, readerVars, readerLocals
<1>2. HeaderSize + Len(message) \in Nat /\ write_pos \in Position /\ read_pos \in Position
  BY Sizes DEF IInv, Numbers
<1>3. AvailableRead \in Nat /\ AvailableRead + (HeaderSize + Len(message)) <= Capacity
  BY <1>1, <1>2, UsedIsNat, Sizes DEF IInv, Numbers, Fit, AvailableRead
<1>4. /\ write_pos' \in Position
      /\ AvailableRead' = AvailableRead + (HeaderSize + Len(message))
  BY <1>1, <1>2, <1>3, WriteMoves DEF AvailableRead
<1>5. Numbers'
  BY <1>1, <1>4 DEF IInv, Numbers
<1>6. Fit'
  BY <1>1, <1>3, <1>4 DEF Fit
<1>7. ResetAlone'
  BY <1>1 DEF ResetAlone
<1>8. ReaderBehind'
  BY <1>1, <1>2, <1>3, <1>4 DEF IInv, Numbers, ReaderBehind
<1>. QED  BY <1>5, <1>6, <1>7, <1>8 DEF IInv

(* A reset without a reader empties the ring.                              *)
LEMMA ResetIInv ==
  ASSUME IInv, readerPc = "idle", Reset
  PROVE  IInv'
<1>1. 0 \in Position /\ Minus(0, 0) = 0
  BY MinusIs, Sizes DEF Position
<1>2. UNCHANGED <<r, avail, msg_len, readerPc, message>>
  BY DEF Reset, ResetWritePos, ResetReadPos, readerVars, readerLocals
<1>3. CASE ResetWritePos
  <2>1. write_pos' = 0 /\ read_pos' = read_pos /\ writerPc' = "reset"
    BY <1>3 DEF ResetWritePos
  <2>. QED  BY <1>1, <1>2, <2>1 DEF IInv, Numbers, Fit, ResetAlone,
      ReaderBehind
<1>4. CASE ResetReadPos
  <2>1. write_pos' = 0 /\ read_pos' = 0 /\ writerPc' = "idle"
    BY <1>4 DEF ResetReadPos, IInv, ResetAlone
  <2>2. AvailableRead' = 0
    BY <1>1, <2>1 DEF AvailableRead
  <2>. QED  BY <1>1, <1>2, <2>1, <2>2, Sizes
            DEF IInv, Numbers, Fit, ResetAlone, ReaderBehind
<1>. QED  BY <1>3, <1>4 DEF Reset

(* The reader's steps before it moves the read position.                   *)
LEMMA LooksIInv ==
  ASSUME IInv, writerPc # "reset",
         ReadEmpty \/ ReadBegins \/ ReadLength \/ ReadCopies
  PROVE  IInv'
<1>1. UNCHANGED <<write_pos, read_pos, writerPc, message>> /\ AvailableRead' = AvailableRead
  BY DEF ReadEmpty, ReadBegins, ReadLength, ReadCopies, positions, writerVars,
      AvailableRead
<1>2. 0 \in Position /\ AvailableRead \in Nat
  BY UsedIsNat, Sizes DEF Position, IInv, Numbers, AvailableRead
<1>3. Fit' /\ ResetAlone'
  BY <1>1 DEF IInv, Fit, ResetAlone
<1>4. CASE ReadEmpty
  <2>1. readerPc' = "idle" /\ r' = 0 /\ avail' = 0 /\ msg_len' = 0
    BY <1>4 DEF ReadEmpty, ReadReturns
  <2>. QED  BY <1>1, <1>2, <1>3, <2>1 DEF IInv, Numbers, ReaderBehind
<1>5. CASE ReadBegins
  <2>1. /\ readerPc' = "length" /\ r' = read_pos /\ avail' = AvailableRead
        /\ msg_len' = msg_len /\ HeaderSize <= AvailableRead
    BY <1>2, <1>5, Sizes DEF ReadBegins
  <2>. QED  BY <1>1, <1>2, <1>3, <2>1 DEF IInv, Numbers, ReaderBehind
<1>6. CASE ReadLength
  <2>1. PICK n \in Lengths :
          IF avail < HeaderSize + n
          THEN ReadReturns(Nothing)
          ELSE msg_len' = n /\ readerPc' = "copy" /\ UNCHANGED <<r, avail, buf, delivered>>
    BY <1>6 DEF ReadLength
  <2>2. n \in Nat
    <3>1. Weight[HeaderSize] \in Nat
      BY WeightsArePositive, RingAssumption
    <3>. QED  BY <3>1 DEF Lengths
  <2>3. CASE avail < HeaderSize + n
    <3>1. readerPc' = "idle" /\ r' = 0 /\ avail' = 0 /\ msg_len' = 0
      BY <2>1, <2>3 DEF ReadReturns
    <3>. QED  BY <1>1, <1>2, <1>3, <3>1 DEF IInv, Numbers, ReaderBehind
  <2>4. CASE ~(avail < HeaderSize + n)
    <3>1. readerPc' = "copy" /\ r' = r /\ avail' = avail /\ msg_len' = n
      BY <2>1, <2>4
    <3>2. HeaderSize + n <= avail
      BY <2>2, <2>4, Sizes DEF IInv, Numbers
    <3>3. readerPc = "length"
      BY <1>6 DEF ReadLength
    <3>. QED  BY <1>1, <1>2, <1>3, <2>2, <3>1, <3>2, <3>3 DEF IInv, Numbers,
        ReaderBehind
  <2>. QED  BY <2>3, <2>4
<1>7. CASE ReadCopies
  <2>1. readerPc = "copy" /\ readerPc' = "release" /\ UNCHANGED <<r, avail, msg_len>>
    BY <1>7 DEF ReadCopies
  <2>. QED  BY <1>1, <1>3, <2>1 DEF IInv, Numbers, ReaderBehind
<1>. QED  BY <1>4, <1>5, <1>6, <1>7

(* Releasing a message takes its bytes off the used ones.                  *)
LEMMA ReadReleasesIInv ==
  ASSUME IInv, writerPc # "reset", ReadReleases
  PROVE  IInv'
<1>1. /\ UNCHANGED <<write_pos, writerPc, message>>
      /\ readerPc = "release" /\ readerPc' = "idle"
      /\ r' = 0 /\ avail' = 0 /\ msg_len' = 0
      /\ read_pos' = Plus(read_pos, HeaderSize + msg_len)
  BY DEF ReadReleases, ReadReturns, writerVars, IInv, ReaderBehind
<1>2. /\ HeaderSize + msg_len \in Nat /\ Len(message) \in Nat
      /\ write_pos \in Position /\ read_pos \in Position
  BY Sizes DEF IInv, Numbers
<1>3. AvailableRead \in Nat /\ HeaderSize + msg_len <= AvailableRead
  BY <1>1, <1>2, UsedIsNat, Sizes DEF IInv, Numbers, ReaderBehind,
      AvailableRead
<1>4. /\ read_pos' \in Position
      /\ AvailableRead' = AvailableRead - (HeaderSize + msg_len)
  BY <1>1, <1>2, <1>3, ReadMoves DEF AvailableRead
<1>5. 0 \in Position
  BY Sizes DEF Position
<1>6. Numbers'
  BY <1>1, <1>4, <1>5 DEF IInv, Numbers
<1>7. Fit'
  BY <1>1, <1>2, <1>3, <1>4, Sizes DEF IInv, Fit
<1>8. ResetAlone' /\ ReaderBehind'
  BY <1>1 DEF ResetAlone, ReaderBehind
<1>. QED  BY <1>6, <1>7, <1>8 DEF IInv

(* Every step keeps the invariant.                                         *)
LEMMA NextIInv == IInv /\ [Next]_vars => IInv'
<1>. SUFFICES ASSUME IInv, [Next]_vars PROVE IInv'
  OBVIOUS
<1>1. ASSUME NEW m \in Messages, WriteRefused(m) PROVE IInv'
  BY <1>1 DEF WriteRefused, positions, readerVars, readerLocals,
     IInv, Numbers, Fit, ResetAlone, ReaderBehind, AvailableRead
<1>2. CASE Writing
  BY <1>1, <1>2, WriteBeginsIInv, CopiesIInv, PublishIInv DEF Writing
<1>3. CASE readerPc = "idle" /\ Reset
  BY <1>3, ResetIInv
<1>4. CASE writerPc # "reset" /\ Reading
  BY <1>4, LooksIInv, ReadReleasesIInv DEF Reading
<1>5. CASE UNCHANGED vars
  BY <1>5 DEF vars, positions, writerVars, readerVars, readerLocals,
     IInv, Numbers, Fit, ResetAlone, ReaderBehind, AvailableRead
<1>. QED  BY <1>2, <1>3, <1>4, <1>5 DEF Next

(* In every reachable state no more bytes are used than there are, a       *)
(* message being written fits into the others, and what the reader looks   *)
(* at is behind the writer.                                                *)
THEOREM IInvAlways == Spec => []IInv
<1>. QED  BY InitIInv, NextIInv, PTL DEF Spec
-----------------------------------------------------------------------------
(* The receive thread never copies into bytes the decode thread may be     *)
(* copying out, whatever the sizes, wherever the counters are.             *)
LEMMA IInvNoRace == IInv => NoRace
<1>. SUFFICES ASSUME IInv, NEW x \in WriterCells, x \in ReaderCells PROVE FALSE
  BY DEF NoRace
<1>1. writerPc \in {"length", "payload"} /\ x \in Cells(write_pos, HeaderSize + Len(message))
  BY DEF WriterCells
<1>2. PICK i \in 0 .. (HeaderSize + Len(message)) - 1 : x = (write_pos + i) % Capacity
  BY <1>1, Zenon DEF Cells
<1>3. PICK n \in Nat : n <= avail /\ x \in Cells(r, n) /\ readerPc # "idle"
  <2>1. readerPc \in {"length", "copy"}
    BY DEF ReaderCells, IInv, Numbers
  <2>2. CASE readerPc = "length"
    BY <2>2, Sizes DEF ReaderCells, IInv, ReaderBehind
  <2>3. CASE readerPc = "copy"
    <3>1. CopyLength \in Nat /\ CopyLength <= msg_len
      BY Sizes DEF CopyLength, IInv, Numbers
    <3>2. HeaderSize + CopyLength \in Nat /\ HeaderSize + CopyLength <= avail
      BY <2>3, <3>1, Sizes DEF IInv, Numbers, ReaderBehind
    <3>. QED  BY <2>3, <3>2 DEF ReaderCells
  <2>. QED  BY <2>1, <2>2, <2>3
<1>4. PICK j \in 0 .. n - 1 : x = (r + j) % Capacity
  BY <1>3 DEF Cells
<1>5. /\ write_pos \in Position /\ read_pos \in Position /\ r = read_pos
      /\ AvailableRead \in Nat /\ avail <= AvailableRead
      /\ AvailableRead + HeaderSize + Len(message) <= Capacity
      /\ Len(message) \in Nat /\ avail \in Nat
  BY <1>1, <1>3, UsedIsNat DEF IInv, Numbers, Fit, ReaderBehind, AvailableRead
<1>6. i \in Nat /\ j \in Nat /\ j < AvailableRead /\ AvailableRead + i < Capacity
  BY <1>3, <1>5, Sizes
<1>7. (write_pos + i) % Capacity # (read_pos + j) % Capacity
  BY <1>5, <1>6, CellsApart DEF AvailableRead
<1>. QED  BY <1>2, <1>4, <1>5, <1>7

(* Writer and reader never touch the same byte at once                     *)
(* (ring_buffer.h:81-163).                                                 *)
THEOREM NoRaceAlways == Spec => []NoRace
BY IInvAlways, IInvNoRace, PTL
-----------------------------------------------------------------------------
(* The bytes in the memory.                                                *)

(* What the memory d holds from p on: Get, of any memory.                  *)
Bytes(d, p, n) == [i \in 1 .. n |-> d[(p + i - 1) % Capacity]]

(* Put, of any memory.                                                     *)
PutIn(d, p, b) ==
  [c \in DOMAIN d |->
     LET i == ((c + Modulus - p) % Capacity) + 1
     IN  IF i \in DOMAIN b THEN b[i] ELSE d[c]]

(* A remainder with a multiple added is found again, also downwards.       *)
LEMMA CellBack ==
  ASSUME NEW p \in Position, NEW i \in 0 .. Capacity - 1
  PROVE  /\ (p + i) % Capacity \in 0 .. Capacity - 1
         /\ (((p + i) % Capacity) + Modulus - p) % Capacity = i
<1>. DEFINE c == (p + i) % Capacity
            k == (p + i) \div Capacity
<1>0. Capacity \in Nat \ {0} /\ p \in Nat /\ i \in Nat
  BY Sizes DEF Position
<1>1. p + i = Capacity * k + c /\ k \in Nat /\ c \in 0 .. Capacity - 1
  BY <1>0, DivMod, p + i \in Nat
<1>2. PICK q \in Nat : Modulus = Capacity * q
  BY Sizes
<1>. HIDE DEF c, k
<1>3. c + Modulus - p = Capacity * (q - k) + i
  BY <1>0, <1>1, <1>2
<1>4. (Capacity * (q - k) + i) % Capacity = i
  BY <1>0, <1>1, <1>2, ModUnique, q - k \in Int
<1>. QED  BY <1>1, <1>3, <1>4 DEF c

(* Every cell is some number of bytes behind a position.                   *)
LEMMA CellForth ==
  ASSUME NEW p \in Position, NEW c \in 0 .. Capacity - 1
  PROVE  LET i == (c + Modulus - p) % Capacity
         IN  i \in 0 .. Capacity - 1 /\ (p + i) % Capacity = c
<1>. DEFINE x == c + Modulus - p
            i == x % Capacity
            k == x \div Capacity
<1>0. Capacity \in Nat \ {0} /\ p \in Nat /\ c \in Nat /\ x \in Nat
  BY Sizes DEF Position
<1>1. x = Capacity * k + i /\ k \in Nat /\ i \in 0 .. Capacity - 1
  <2>. HIDE DEF x
  <2>. QED  BY <1>0, DivMod
<1>2. PICK q \in Nat : Modulus = Capacity * q
  BY Sizes
<1>. HIDE DEF i, k
<1>3. p + i = Capacity * (q - k) + c
  BY <1>0, <1>1, <1>2
<1>4. (Capacity * (q - k) + c) % Capacity = c
  BY <1>0, <1>1, <1>2, ModUnique, q - k \in Int
<1>. QED  BY <1>1, <1>3, <1>4 DEF i

(* A position wraps at a multiple of the buffer.                           *)
LEMMA PlusCell ==
  ASSUME NEW p \in Position, NEW c \in Position, NEW i \in Nat
  PROVE  (Plus(p, c) + i) % Capacity = (p + c + i) % Capacity
<1>1. Plus(p, c) = IF p + c < Modulus THEN p + c ELSE p + c - Modulus
  BY PlusIs
<1>2. PICK q \in Nat : Modulus = Capacity * q
  BY Sizes
<1>3. CASE p + c < Modulus
  BY <1>1, <1>3
<1>4. CASE ~(p + c < Modulus)
  <2>. DEFINE a == p + c - Modulus + i
  <2>1. a \in Nat /\ p + c + i = Modulus + a /\ Plus(p, c) + i = a
    BY <1>1, <1>4, Sizes DEF Position
  <2>. HIDE DEF a
  <2>2. (Capacity * q + a) % Capacity = a % Capacity
    BY <2>1, ModShift, Sizes
  <2>. QED  BY <1>2, <2>1, <2>2
<1>. QED  BY <1>3, <1>4

(* What is read from a wrapped position.                                   *)
LEMMA BytesPlus ==
  ASSUME NEW d, NEW p \in Position, NEW c \in Position, NEW n \in Nat
  PROVE  Bytes(d, Plus(p, c), n) = Bytes(d, p + c, n)
<1>1. ASSUME NEW i \in 1 .. n
      PROVE  (Plus(p, c) + i - 1) % Capacity = (p + c + i - 1) % Capacity
  <2>. DEFINE j == i - 1
  <2>1. j \in Nat
    OBVIOUS
  <2>2. Plus(p, c) \in Nat /\ p \in Nat /\ c \in Nat
    BY PlusIs DEF Position
  <2>3. Plus(p, c) + i - 1 = Plus(p, c) + j /\ p + c + i - 1 = p + c + j
    BY <2>2
  <2>. HIDE DEF j
  <2>. QED  BY <2>1, <2>3, PlusCell
<1>. QED  BY <1>1 DEF Bytes

(* What a copy writes is found there ...                                   *)
LEMMA BytesPut ==
  ASSUME NEW d, DOMAIN d = 0 .. Capacity - 1, NEW p \in Position,
         NEW S, NEW b \in Seq(S), Len(b) <= Capacity
  PROVE  Bytes(PutIn(d, p, b), p, Len(b)) = b
<1>1. ASSUME NEW i \in 1 .. Len(b)
      PROVE  PutIn(d, p, b)[(p + i - 1) % Capacity] = b[i]
  <2>. DEFINE j == i - 1
              c == (p + j) % Capacity
  <2>0. Len(b) \in Nat /\ p \in Nat /\ Capacity \in Nat /\ DOMAIN b = 1 .. Len(b)
    BY Sizes DEF Position
  <2>1. j \in 0 .. Capacity - 1 /\ j + 1 = i /\ p + i - 1 = p + j
    BY <2>0
  <2>. HIDE DEF j
  <2>2. c \in 0 .. Capacity - 1 /\ (c + Modulus - p) % Capacity = j
    BY <2>1, CellBack
  <2>. HIDE DEF c
  <2>3. PutIn(d, p, b)[c] = b[j + 1]
    BY <2>0, <2>1, <2>2 DEF PutIn
  <2>. QED  BY <2>1, <2>3 DEF c
<1>2. Bytes(PutIn(d, p, b), p, Len(b)) = [i \in 1 .. Len(b) |-> b[i]]
  BY <1>1 DEF Bytes
<1>3. b = [i \in 1 .. Len(b) |-> b[i]]
  OBVIOUS
<1>. QED  BY <1>2, <1>3

(* ... and every other byte is as it was.                                  *)
LEMMA PutElsewhere ==
  ASSUME NEW d, DOMAIN d = 0 .. Capacity - 1, NEW p \in Position,
         NEW S, NEW b \in Seq(S), NEW c \in 0 .. Capacity - 1,
         \A i \in 0 .. Len(b) - 1 : (p + i) % Capacity # c
  PROVE  PutIn(d, p, b)[c] = d[c]
<1>. DEFINE i == (c + Modulus - p) % Capacity
<1>1. i \in 0 .. Capacity - 1 /\ (p + i) % Capacity = c
  BY CellForth
<1>2. Len(b) \in Nat /\ DOMAIN b = 1 .. Len(b) /\ Capacity \in Nat
  BY Sizes
<1>3. PutIn(d, p, b)[c] = IF i + 1 \in DOMAIN b THEN b[i + 1] ELSE d[c]
  BY DEF PutIn
<1>. HIDE DEF i
<1>4. i + 1 \notin DOMAIN b
  BY <1>1, <1>2
<1>. QED  BY <1>3, <1>4
-----------------------------------------------------------------------------
(* A copy behind the bytes to be read leaves them as they are.             *)
LEMMA BytesStay ==
  ASSUME NEW d, DOMAIN d = 0 .. Capacity - 1, NEW w \in Position, NEW p \in Position,
         NEW S, NEW b \in Seq(S), NEW s \in Nat, Minus(w, p) + s + Len(b) <= Capacity,
         NEW j \in Nat, NEW n \in Nat, j + n <= Minus(w, p)
  PROVE  Bytes(PutIn(d, Plus(w, s), b), p + j, n) = Bytes(d, p + j, n)
<1>0. /\ Minus(w, p) \in Nat /\ Len(b) \in Nat /\ w \in Nat /\ p \in Nat
      /\ Capacity \in Nat \ {0} /\ Modulus \in Nat /\ Capacity < Modulus
  BY UsedIsNat, Sizes DEF Position
<1>1. s \in Position /\ Plus(w, s) \in Position
  <2>1. s \in Position
    BY <1>0 DEF Position
  <2>. QED  BY <2>1, PlusIs
<1>2. ASSUME NEW i \in 1 .. n
      PROVE  LET c == (p + j + i - 1) % Capacity
             IN  PutIn(d, Plus(w, s), b)[c] = d[c]
  <2>. DEFINE k == j + i - 1
              c == (p + k) % Capacity
  <2>1. k \in Nat /\ k < Minus(w, p) /\ p + j + i - 1 = p + k
    BY <1>0
  <2>. HIDE DEF k
  <2>2. p + k \in Nat /\ c \in 0 .. Capacity - 1
    <3>1. p + k \in Nat
      BY <1>0, <2>1
    <3>. QED  BY <1>0, <3>1, DivMod
  <2>3. ASSUME NEW l \in 0 .. Len(b) - 1
        PROVE  (Plus(w, s) + l) % Capacity # c
    <3>1. l \in Nat /\ s + l \in Nat /\ Minus(w, p) + (s + l) < Capacity
      BY <1>0
    <3>2. (w + (s + l)) % Capacity # (p + k) % Capacity
      BY <2>1, <3>1, CellsApart
    <3>3. (Plus(w, s) + l) % Capacity = (w + s + l) % Capacity
      BY <1>1, <3>1, PlusCell
    <3>4. w + s + l = w + (s + l)
      BY <1>0, <3>1
    <3>. QED  BY <3>2, <3>3, <3>4
  <2>. HIDE DEF c
  <2>4. PutIn(d, Plus(w, s), b)[c] = d[c]
    BY <1>1, <2>2, <2>3, PutElsewhere
  <2>. QED  BY <2>1, <2>4 DEF c
<1>. QED  BY <1>2 DEF Bytes

(* The bytes of a message are copied behind those of its length.           *)
LEMMA HeaderStays ==
  ASSUME NEW d, DOMAIN d = 0 .. Capacity - 1, NEW w \in Position,
         NEW S, NEW b \in Seq(S), HeaderSize + Len(b) <= Capacity
  PROVE  Bytes(PutIn(d, Plus(w, HeaderSize), b), w, HeaderSize) = Bytes(d, w, HeaderSize)
<1>0. /\ Len(b) \in Nat /\ w \in Nat /\ HeaderSize \in Nat \ {0}
      /\ Capacity \in Nat \ {0} /\ Modulus \in Nat /\ Capacity < Modulus
  BY Sizes DEF Position
<1>1. HeaderSize \in Position /\ Plus(w, HeaderSize) \in Position
  <2>1. HeaderSize \in Position
    BY <1>0 DEF Position
  <2>. QED  BY <2>1, PlusIs
<1>2. ASSUME NEW i \in 1 .. HeaderSize
      PROVE  LET c == (w + i - 1) % Capacity
             IN  PutIn(d, Plus(w, HeaderSize), b)[c] = d[c]
  <2>. DEFINE k == i - 1
              c == (w + k) % Capacity
  <2>1. k \in Nat /\ k < HeaderSize /\ w + i - 1 = w + k
    BY <1>0
  <2>. HIDE DEF k
  <2>2. w + k \in Nat /\ c \in 0 .. Capacity - 1
    <3>1. w + k \in Nat
      BY <1>0, <2>1
    <3>. QED  BY <1>0, <3>1, DivMod
  <2>3. ASSUME NEW l \in 0 .. Len(b) - 1
        PROVE  (Plus(w, HeaderSize) + l) % Capacity # c
    <3>1. l \in Nat /\ HeaderSize + l - k \in 1 .. Capacity - 1
      BY <1>0, <2>1
    <3>2. ((w + k) + (HeaderSize + l - k)) % Capacity # (w + k) % Capacity
      BY <1>0, <2>2, <3>1, ModApart
    <3>3. (Plus(w, HeaderSize) + l) % Capacity = (w + HeaderSize + l) % Capacity
      BY <1>1, <3>1, PlusCell
    <3>4. w + HeaderSize + l = (w + k) + (HeaderSize + l - k)
      BY <1>0, <2>1, <3>1
    <3>. QED  BY <3>2, <3>3, <3>4
  <2>. HIDE DEF c
  <2>4. PutIn(d, Plus(w, HeaderSize), b)[c] = d[c]
    BY <1>1, <2>2, <2>3, PutElsewhere
  <2>. QED  BY <2>1, <2>4 DEF c
<1>. QED  BY <1>2 DEF Bytes
-----------------------------------------------------------------------------
(* The messages in the memory.                                             *)

(* The memory d holds the messages q in the used bytes from p on: o[k]     *)
(* bytes are those of the first k messages.                                *)
Holds(d, p, used, q, o) ==
  /\ q \in Seq(Messages) /\ o \in [0 .. Len(q) -> Nat]
  /\ o[0] = 0 /\ o[Len(q)] = used
  /\ \A k \in 1 .. Len(q) :
       /\ o[k] = o[k - 1] + HeaderSize + Len(q[k])
       /\ Bytes(d, p + o[k - 1], HeaderSize) = LengthBytes(Len(q[k]))
       /\ Bytes(d, p + o[k - 1] + HeaderSize, Len(q[k])) = q[k]

(* Messages are sequences of bytes whose length has a representation.      *)
LEMMA MessageIs ==
  ASSUME NEW m \in Messages
  PROVE  m \in Seq(0 .. Base - 1) /\ Len(m) \in Nat /\ Len(m) \in Lengths
<1>1. m \in Seq(0 .. Base - 1) /\ Len(m) \in Nat /\ Len(m) < Weight[HeaderSize]
  BY RingAssumption
<1>2. Weight[HeaderSize] \in Nat
  BY WeightsArePositive, RingAssumption
<1>. QED  BY <1>1, <1>2 DEF Lengths

(* Every message takes its bytes and those of its length.                  *)
LEMMA OffsetsGrow ==
  ASSUME NEW d, NEW p, NEW used, NEW q, NEW o, Holds(d, p, used, q, o),
         NEW k \in 0 .. Len(q), NEW n \in Nat, k + n <= Len(q)
  PROVE  o[k] + n * HeaderSize <= o[k + n]
<1>. DEFINE S == {i \in Nat : k + i <= Len(q) => o[k] + i * HeaderSize <= o[k + i]}
<1>0. /\ HeaderSize \in Nat \ {0} /\ Len(q) \in Nat /\ o \in [0 .. Len(q) -> Nat] /\ k \in Nat
      /\ q \in Seq(Messages)
  BY Sizes DEF Holds
<1>1. 0 \in S
  <2>1. o[k] \in Nat /\ k + 0 = k /\ 0 * HeaderSize = 0
    BY <1>0
  <2>. QED  BY <2>1
<1>2. ASSUME NEW i \in Nat, i \in S PROVE i + 1 \in S
  <2>. SUFFICES ASSUME k + (i + 1) <= Len(q)
                PROVE  o[k] + (i + 1) * HeaderSize <= o[k + (i + 1)]
    OBVIOUS
  <2>. DEFINE l == k + (i + 1)
              x == i * HeaderSize
  <2>1. l \in 1 .. Len(q) /\ l - 1 = k + i /\ l - 1 \in 0 .. Len(q) /\ x \in Nat
    BY <1>0
  <2>2. o[k] + x <= o[k + i]
    BY <1>0, <1>2
  <2>3. (i + 1) * HeaderSize = x + HeaderSize
    BY <1>0
  <2>. HIDE DEF l, x
  <2>4. Len(q[l]) \in Nat
    BY <1>0, <2>1, MessageIs
  <2>5. o[l] = o[k + i] + HeaderSize + Len(q[l])
    BY <2>1 DEF Holds
  <2>6. o[k] \in Nat /\ o[k + i] \in Nat /\ o[l] \in Nat
    BY <1>0, <2>1
  <2>7. o[k] + (x + HeaderSize) <= o[l]
    BY <1>0, <2>1, <2>2, <2>4, <2>5, <2>6
  <2>. QED  BY <2>3, <2>7 DEF l
<1>. HIDE DEF S
<1>3. n \in S
  BY <1>1, <1>2, Induction
<1>. QED  BY <1>3 DEF S

(* So that no offset is beyond the used bytes.                             *)
LEMMA OffsetsFit ==
  ASSUME NEW d, NEW p, NEW used, NEW q, NEW o, Holds(d, p, used, q, o)
  PROVE  /\ used \in Nat /\ Len(q) \in Nat /\ Len(q) * HeaderSize <= used
         /\ \A k \in 0 .. Len(q) : o[k] \in 0 .. used
         /\ \A k \in 1 .. Len(q) : Len(q[k]) \in Nat /\ q[k] \in Messages
                                   /\ o[1] <= o[k]
<1>0. /\ HeaderSize \in Nat \ {0} /\ Len(q) \in Nat /\ o \in [0 .. Len(q) -> Nat]
      /\ q \in Seq(Messages) /\ o[0] = 0 /\ o[Len(q)] = used
  BY Sizes DEF Holds
<1>1. used \in Nat
  BY <1>0
<1>2. Len(q) * HeaderSize <= used
  <2>1. o[0] + Len(q) * HeaderSize <= o[0 + Len(q)]
    BY <1>0, OffsetsGrow
  <2>2. 0 + Len(q) = Len(q) /\ Len(q) * HeaderSize \in Nat
    BY <1>0
  <2>. QED  BY <1>0, <2>1, <2>2
<1>3. ASSUME NEW k \in 0 .. Len(q), NEW l \in 0 .. Len(q), k <= l
      PROVE  o[k] <= o[l]
  <2>. DEFINE n == l - k
              x == n * HeaderSize
  <2>1. n \in Nat /\ k + n = l /\ k + n <= Len(q)
    BY <1>0, <1>3
  <2>2. o[k] + x <= o[k + n]
    <3>. HIDE DEF n
    <3>. QED  BY <2>1, OffsetsGrow
  <2>3. x \in Nat
    <3>. HIDE DEF n
    <3>. QED  BY <1>0, <2>1
  <2>. HIDE DEF n, x
  <2>4. o[k] \in Nat /\ o[l] \in Nat
    BY <1>0
  <2>. QED  BY <2>1, <2>2, <2>3, <2>4
<1>4. ASSUME NEW k \in 0 .. Len(q) PROVE o[k] \in 0 .. used
  <2>1. o[k] <= o[Len(q)]
    BY <1>0, <1>3
  <2>. QED  BY <1>0, <2>1
<1>5. ASSUME NEW k \in 1 .. Len(q)
      PROVE  Len(q[k]) \in Nat /\ q[k] \in Messages /\ o[1] <= o[k]
  <2>1. q[k] \in Messages
    BY <1>0
  <2>2. o[1] <= o[k]
    BY <1>0, <1>3
  <2>. QED  BY <2>1, <2>2, MessageIs
<1>. QED  BY <1>1, <1>0, <1>2, <1>4, <1>5
-----------------------------------------------------------------------------
(* The loop of ring_buffer_messages_pending finds those messages.          *)

(* LengthAt, of any memory.                                                *)
LengthIn(d, p) == CHOOSE n \in Lengths : Bytes(d, p, HeaderSize) = LengthBytes(n)

(* A turn of the loop.                                                     *)
Turn(d, p, used, c) ==
  IF c + HeaderSize <= used /\ c + (HeaderSize + LengthIn(d, Plus(p, c))) <= used
  THEN c + (HeaderSize + LengthIn(d, Plus(p, c))) ELSE c

(* The bytes consumed after each turn: Consumed, of any memory.            *)
IsWalk(at, d, p, used) ==
  at = [k \in 0 .. (used \div HeaderSize) |->
          IF k = 0 THEN 0 ELSE Turn(d, p, used, at[k - 1])]

(* The function of that description.                                       *)
WalkIn(d, p, used) == CHOOSE at : IsWalk(at, d, p, used)

(* The turns that found a message: MessagesPending, of any memory.         *)
CountIn(at, used) == Cardinality({k \in 1 .. (used \div HeaderSize) : at[k] # at[k - 1]})

(* The messages they found: Pending, of any memory.                        *)
PendingIn(d, p, used) ==
  [k \in 1 .. CountIn(WalkIn(d, p, used), used) |->
     LET x == Plus(p, WalkIn(d, p, used)[k - 1])
     IN  Bytes(d, Plus(x, HeaderSize), LengthIn(d, x))]

(* The loop reads the length of a message where the message is.            *)
LEMMA LengthInIs ==
  ASSUME NEW d, NEW p \in Position, NEW used \in 0 .. Capacity, NEW q, NEW o,
         Holds(d, p, used, q, o), NEW k \in 1 .. Len(q)
  PROVE  /\ LengthIn(d, Plus(p, o[k - 1])) = Len(q[k])
         /\ Plus(p, o[k - 1]) \in Position
         /\ Bytes(d, Plus(Plus(p, o[k - 1]), HeaderSize), Len(q[k])) = q[k]
<1>. DEFINE c == o[k - 1]
            n == Len(q[k])
            x == Plus(p, c)
<1>0. /\ HeaderSize \in Nat \ {0} /\ Capacity \in Nat /\ Modulus \in Nat /\ Capacity < Modulus
      /\ Len(q) \in Nat
  BY OffsetsFit, Sizes
<1>1. /\ c \in 0 .. used /\ n \in Nat /\ n \in Lengths
      /\ o[k] \in 0 .. used /\ o[k] = c + HeaderSize + n
  <2>1. k - 1 \in 0 .. Len(q) /\ k \in 0 .. Len(q)
    BY <1>0
  <2>2. q[k] \in Messages /\ \A l \in 0 .. Len(q) : o[l] \in 0 .. used
    BY OffsetsFit
  <2>3. n \in Nat /\ n \in Lengths
    BY <2>2, MessageIs
  <2>4. o[k] = c + HeaderSize + n
    BY DEF Holds
  <2>. QED  BY <2>1, <2>2, <2>3, <2>4
<1>2. /\ Bytes(d, p + c, HeaderSize) = LengthBytes(n)
      /\ Bytes(d, p + c + HeaderSize, n) = q[k]
  BY DEF Holds
<1>. HIDE DEF c, n
<1>3. c \in Position /\ c + HeaderSize \in Position /\ HeaderSize \in Position
  BY <1>0, <1>1 DEF Position
<1>4. x \in Position
  BY <1>3, PlusIs
<1>5. Bytes(d, x, HeaderSize) = LengthBytes(n)
  BY <1>0, <1>2, <1>3, BytesPlus
<1>6. LengthIn(d, x) = n
  <2>. HIDE DEF x
  <2>1. \E l \in Lengths : Bytes(d, x, HeaderSize) = LengthBytes(l)
    BY <1>1, <1>5
  <2>2. LengthIn(d, x) \in Lengths /\ Bytes(d, x, HeaderSize) = LengthBytes(LengthIn(d, x))
    BY <2>1 DEF LengthIn
  <2>. QED  BY <1>1, <1>5, <2>2, LengthBytesUnique
<1>7. Bytes(d, Plus(x, HeaderSize), n) = q[k]
  <2>1. Bytes(d, Plus(x, HeaderSize), n) = Bytes(d, x + HeaderSize, n)
    <3>. HIDE DEF x
    <3>. QED  BY <1>1, <1>3, <1>4, BytesPlus
  <2>2. ASSUME NEW i \in 1 .. n
        PROVE  (x + HeaderSize + i - 1) % Capacity = (p + c + HeaderSize + i - 1) % Capacity
    <3>. DEFINE j == HeaderSize + i - 1
    <3>1. j \in Nat
      BY <1>0, <1>1
    <3>2. (x + j) % Capacity = (p + c + j) % Capacity
      <4>. HIDE DEF j
      <4>. QED  BY <1>3, <3>1, PlusCell
    <3>3. x + HeaderSize + i - 1 = x + j /\ p + c + HeaderSize + i - 1 = p + c + j
      <4>. HIDE DEF x
      <4>. QED  BY <1>0, <1>1, <1>3, <1>4 DEF Position
    <3>. QED  BY <3>2, <3>3
  <2>3. Bytes(d, x + HeaderSize, n) = Bytes(d, p + c + HeaderSize, n)
    <3>. HIDE DEF x
    <3>. QED  BY <2>2 DEF Bytes
  <2>. QED  BY <1>2, <2>1, <2>3
<1>. QED  BY <1>4, <1>6, <1>7 DEF c, n

(* A turn of the loop passes one message, and none behind the last.        *)
LEMMA TurnIs ==
  ASSUME NEW d, NEW p \in Position, NEW used \in 0 .. Capacity, NEW q, NEW o,
         Holds(d, p, used, q, o)
  PROVE  /\ \A k \in 1 .. Len(q) : Turn(d, p, used, o[k - 1]) = o[k] /\ o[k] # o[k - 1]
         /\ Turn(d, p, used, used) = used
<1>0. HeaderSize \in Nat \ {0} /\ used \in Nat /\ Len(q) \in Nat
  BY OffsetsFit, Sizes
<1>1. ASSUME NEW k \in 1 .. Len(q)
      PROVE  Turn(d, p, used, o[k - 1]) = o[k] /\ o[k] # o[k - 1]
  <2>. DEFINE c == o[k - 1]
              n == Len(q[k])
              e == o[k]
  <2>1. k - 1 \in 0 .. Len(q) /\ k \in 0 .. Len(q)
    BY <1>0
  <2>2. c \in 0 .. used /\ e \in 0 .. used /\ n \in Nat /\ e = c + HeaderSize + n
    <3>1. n \in Nat /\ \A l \in 0 .. Len(q) : o[l] \in 0 .. used
      BY OffsetsFit
    <3>2. e = c + HeaderSize + n
      BY DEF Holds
    <3>. QED  BY <2>1, <3>1, <3>2
  <2>3. LengthIn(d, Plus(p, c)) = n
    BY LengthInIs
  <2>. HIDE DEF c, n, e
  <2>4. Turn(d, p, used, c) = e /\ e # c
    BY <1>0, <2>2, <2>3 DEF Turn
  <2>. QED  BY <2>4 DEF c, e
<1>2. Turn(d, p, used, used) = used
  BY <1>0 DEF Turn
<1>. QED  BY <1>1, <1>2

(* The loop passes all messages, one after the other.                      *)
LEMMA WalkIs ==
  ASSUME NEW d, NEW p \in Position, NEW used \in 0 .. Capacity, NEW q, NEW o,
         Holds(d, p, used, q, o)
  PROVE  /\ used \div HeaderSize \in Nat /\ Len(q) <= used \div HeaderSize
         /\ \A k \in 0 .. (used \div HeaderSize) :
              WalkIn(d, p, used)[k] = IF k <= Len(q) THEN o[k] ELSE used
<1>. DEFINE t == used \div HeaderSize
            v == [k \in 0 .. t |-> IF k <= Len(q) THEN o[k] ELSE used]
            at == WalkIn(d, p, used)
<1>0. /\ HeaderSize \in Nat \ {0} /\ used \in Nat /\ Len(q) \in Nat
      /\ Len(q) * HeaderSize <= used /\ o[0] = 0 /\ o[Len(q)] = used
  <2>1. used \in Nat /\ Len(q) \in Nat /\ Len(q) * HeaderSize <= used
    BY OffsetsFit
  <2>2. o[0] = 0 /\ o[Len(q)] = used
    BY DEF Holds
  <2>. QED  BY <2>1, <2>2, Sizes
<1>1. t \in Nat /\ Len(q) <= t
  <2>. DEFINE s == used % HeaderSize
              n == Len(q)
  <2>1. t \in Nat /\ s \in 0 .. HeaderSize - 1 /\ used = HeaderSize * t + s
    BY <1>0, DivMod
  <2>. HIDE DEF t, s, n
  <2>2. ASSUME n >= t + 1 PROVE FALSE
    <3>1. n \in Nat /\ n * HeaderSize >= (t + 1) * HeaderSize
      BY <1>0, <2>1, <2>2 DEF n
    <3>2. (t + 1) * HeaderSize = HeaderSize * t + HeaderSize
      BY <1>0, <2>1
    <3>3. n * HeaderSize <= used
      BY <1>0 DEF n
    <3>. QED  BY <1>0, <2>1, <3>1, <3>2, <3>3
  <2>. QED  BY <1>0, <2>1, <2>2 DEF n
<1>. HIDE DEF t
<1>2. ASSUME NEW k \in 1 .. t
      PROVE  v[k] = Turn(d, p, used, v[k - 1])
  <2>1. k \in 0 .. t /\ k - 1 \in 0 .. t
    BY <1>1
  <2>2. CASE k <= Len(q)
    <3>1. k \in 1 .. Len(q) /\ v[k] = o[k] /\ v[k - 1] = o[k - 1]
      BY <1>0, <1>1, <2>1, <2>2
    <3>. HIDE DEF v
    <3>. QED  BY <3>1, TurnIs
  <2>3. CASE ~(k <= Len(q))
    <3>1. v[k] = used /\ v[k - 1] = used
      <4>1. CASE k - 1 = Len(q)
        BY <1>0, <2>1, <2>3, <4>1
      <4>2. CASE k - 1 # Len(q)
        <5>1. ~(k - 1 <= Len(q))
          BY <1>0, <1>1, <2>3, <4>2
        <5>. QED  BY <2>1, <2>3, <5>1
      <4>. QED  BY <4>1, <4>2
    <3>. HIDE DEF v
    <3>. QED  BY <3>1, TurnIs
  <2>. QED  BY <2>2, <2>3
<1>3. v[0] = 0
  BY <1>0, <1>1
<1>4. IsWalk(v, d, p, used)
  <2>1. ASSUME NEW k \in 0 .. t
        PROVE  v[k] = IF k = 0 THEN 0 ELSE Turn(d, p, used, v[k - 1])
    <3>. HIDE DEF v
    <3>. QED  BY <1>1, <1>2, <1>3
  <2>2. v = [k \in 0 .. t |-> v[k]]
    OBVIOUS
  <2>. HIDE DEF v
  <2>3. v = [k \in 0 .. t |-> IF k = 0 THEN 0 ELSE Turn(d, p, used, v[k - 1])]
    BY <2>1, <2>2
  <2>. QED  BY <2>3, Zenon DEF IsWalk, t
<1>5. IsWalk(at, d, p, used)
  <2>. HIDE DEF v
  <2>. QED  BY <1>4, Zenon DEF WalkIn
<1>. HIDE DEF v, at
<1>6. \A k \in 0 .. t : at[k] = IF k = 0 THEN 0 ELSE Turn(d, p, used, at[k - 1])
  <2>1. at = [k \in 0 .. t |-> IF k = 0 THEN 0 ELSE Turn(d, p, used, at[k - 1])]
    BY <1>5, Zenon DEF IsWalk, t
  <2>. QED  BY <2>1
<1>. DEFINE S == {k \in Nat : k <= t => at[k] = v[k]}
<1>7. 0 \in S
  BY <1>1, <1>3, <1>6
<1>8. ASSUME NEW k \in Nat, k \in S PROVE k + 1 \in S
  <2>. SUFFICES ASSUME k + 1 <= t PROVE at[k + 1] = v[k + 1]
    OBVIOUS
  <2>1. k + 1 \in 1 .. t /\ k + 1 \in 0 .. t /\ (k + 1) - 1 = k /\ k + 1 # 0 /\ at[k] = v[k]
    BY <1>1, <1>8
  <2>2. at[k + 1] = Turn(d, p, used, at[k])
    BY <1>6, <2>1
  <2>3. v[k + 1] = Turn(d, p, used, v[k])
    BY <1>2, <2>1
  <2>. QED  BY <2>1, <2>2, <2>3
<1>. HIDE DEF S
<1>9. \A k \in Nat : k \in S
  BY <1>7, <1>8, Induction
<1>10. ASSUME NEW k \in 0 .. t PROVE at[k] = IF k <= Len(q) THEN o[k] ELSE used
  <2>1. at[k] = v[k]
    BY <1>1, <1>9 DEF S
  <2>. QED  BY <2>1 DEF v
<1>. QED  BY <1>1, <1>10 DEF t, at

(* So that it finds exactly the messages that are there.                   *)
LEMMA PendingInIs ==
  ASSUME NEW d, NEW p \in Position, NEW used \in 0 .. Capacity, NEW q, NEW o,
         Holds(d, p, used, q, o)
  PROVE  PendingIn(d, p, used) = q
<1>. DEFINE t == used \div HeaderSize
            at == WalkIn(d, p, used)
<1>0. Len(q) \in Nat /\ q \in Seq(Messages) /\ o[Len(q)] = used
  BY OffsetsFit DEF Holds
<1>1. /\ t \in Nat /\ Len(q) <= t
      /\ \A k \in 0 .. t : at[k] = IF k <= Len(q) THEN o[k] ELSE used
  BY WalkIs
<1>. HIDE DEF t, at
<1>2. \A k \in 1 .. Len(q) : at[k] = o[k] /\ at[k - 1] = o[k - 1] /\ o[k] # o[k - 1]
  <2>1. ASSUME NEW k \in 1 .. Len(q) PROVE at[k] = o[k] /\ at[k - 1] = o[k - 1]
    BY <1>0, <1>1
  <2>. QED  BY <2>1, TurnIs
<1>3. ASSUME NEW k \in 1 .. t, ~(k <= Len(q)) PROVE at[k] = at[k - 1]
  <2>1. k \in 0 .. t /\ k - 1 \in 0 .. t
    BY <1>1
  <2>2. at[k] = used
    BY <1>1, <1>3, <2>1
  <2>3. CASE k - 1 = Len(q)
    <3>1. at[k - 1] = o[k - 1]
      BY <1>0, <1>1, <2>1, <2>3
    <3>. QED  BY <1>0, <2>2, <2>3, <3>1
  <2>4. CASE k - 1 # Len(q)
    <3>1. ~(k - 1 <= Len(q))
      BY <1>0, <1>1, <1>3, <2>4
    <3>. QED  BY <1>1, <2>1, <2>2, <3>1
  <2>. QED  BY <2>3, <2>4
<1>4. {k \in 1 .. t : at[k] # at[k - 1]} = 1 .. Len(q)
  <2>1. ASSUME NEW k \in 1 .. t, at[k] # at[k - 1] PROVE k \in 1 .. Len(q)
    BY <1>0, <1>1, <1>3, <2>1
  <2>2. ASSUME NEW k \in 1 .. Len(q) PROVE k \in 1 .. t /\ at[k] # at[k - 1]
    <3>1. k \in 1 .. t
      BY <1>0, <1>1
    <3>. QED  BY <1>2, <3>1
  <2>. QED  BY <2>1, <2>2
<1>5. CountIn(at, used) = Len(q)
  <2>1. Cardinality(1 .. Len(q)) = Len(q)
    <3>1. Cardinality(1 .. Len(q)) = IF 1 > Len(q) THEN 0 ELSE Len(q) - 1 + 1
      <4>. DEFINE n == Len(q)
      <4>1. n \in Int /\ 1 \in Int
        BY <1>0
      <4>. HIDE DEF n
      <4>2. Cardinality(1 .. n) = IF 1 > n THEN 0 ELSE n - 1 + 1
        BY <4>1, FS_Interval, Zenon
      <4>. QED  BY <4>2 DEF n
    <3>. QED  BY <1>0, <3>1
  <2>. QED  BY <1>4, <2>1 DEF CountIn, t
<1>6. ASSUME NEW k \in 1 .. Len(q)
      PROVE  LET x == Plus(p, at[k - 1])
             IN  Bytes(d, Plus(x, HeaderSize), LengthIn(d, x)) = q[k]
  <2>1. at[k - 1] = o[k - 1]
    BY <1>2
  <2>. QED  BY <2>1, LengthInIs
<1>7. PendingIn(d, p, used) = [k \in 1 .. Len(q) |-> q[k]]
  BY <1>5, <1>6 DEF PendingIn, at
<1>8. q = [k \in 1 .. Len(q) |-> q[k]]
  BY <1>0
<1>. QED  BY <1>7, <1>8
-----------------------------------------------------------------------------
(* What a write, a publication and a release do to the messages.           *)

(* What is read some bytes behind a wrapped position.                      *)
LEMMA BytesBehind ==
  ASSUME NEW d, NEW p \in Position, NEW c \in Position, NEW j \in Nat, NEW n \in Nat
  PROVE  Bytes(d, Plus(p, c) + j, n) = Bytes(d, p + c + j, n)
<1>0. Plus(p, c) \in Nat /\ p \in Nat /\ c \in Nat
  BY PlusIs DEF Position
<1>1. ASSUME NEW i \in 1 .. n
      PROVE  (Plus(p, c) + j + i - 1) % Capacity = (p + c + j + i - 1) % Capacity
  <2>. DEFINE l == j + i - 1
  <2>1. l \in Nat /\ Plus(p, c) + j + i - 1 = Plus(p, c) + l /\ p + c + j + i - 1 = p + c + l
    BY <1>0
  <2>. HIDE DEF l
  <2>. QED  BY <2>1, PlusCell
<1>. QED  BY <1>1 DEF Bytes

(* Nothing holds no messages.                                              *)
LEMMA HoldsNothing ==
  ASSUME NEW d, NEW p
  PROVE  Holds(d, p, 0, <<>>, [k \in 0 .. 0 |-> 0])
<1>1. <<>> \in Seq(Messages) /\ Len(<<>>) = 0
  OBVIOUS
<1>. QED  BY <1>1 DEF Holds

(* A copy behind the messages leaves them there.                           *)
LEMMA HoldsStay ==
  ASSUME NEW d, DOMAIN d = 0 .. Capacity - 1, NEW w \in Position, NEW p \in Position,
         NEW q, NEW o, Holds(d, p, Minus(w, p), q, o),
         NEW S, NEW b \in Seq(S), NEW s \in Nat, Minus(w, p) + s + Len(b) <= Capacity
  PROVE  Holds(PutIn(d, Plus(w, s), b), p, Minus(w, p), q, o)
<1>. DEFINE e == PutIn(d, Plus(w, s), b)
            used == Minus(w, p)
<1>0. /\ HeaderSize \in Nat \ {0} /\ Len(q) \in Nat /\ used \in Nat
      /\ \A k \in 0 .. Len(q) : o[k] \in 0 .. used
      /\ \A k \in 1 .. Len(q) : Len(q[k]) \in Nat
  BY OffsetsFit, Sizes
<1>1. ASSUME NEW k \in 1 .. Len(q)
      PROVE  /\ Bytes(e, p + o[k - 1], HeaderSize) = LengthBytes(Len(q[k]))
             /\ Bytes(e, p + o[k - 1] + HeaderSize, Len(q[k])) = q[k]
  <2>. DEFINE c == o[k - 1]
              n == Len(q[k])
  <2>1. k - 1 \in 0 .. Len(q) /\ k \in 0 .. Len(q)
    BY <1>0
  <2>2. c \in Nat /\ n \in Nat /\ c + HeaderSize + n <= used
    <3>1. o[k] = c + HeaderSize + n
      BY DEF Holds
    <3>2. c \in 0 .. used /\ o[k] \in 0 .. used /\ n \in Nat
      BY <1>0, <2>1
    <3>. QED  BY <1>0, <3>1, <3>2
  <2>3. /\ Bytes(d, p + c, HeaderSize) = LengthBytes(n)
        /\ Bytes(d, p + c + HeaderSize, n) = q[k]
    BY DEF Holds
  <2>. HIDE DEF c, n, used
  <2>4. Bytes(e, p + c, HeaderSize) = Bytes(d, p + c, HeaderSize)
    <3>1. c + HeaderSize <= used
      BY <1>0, <2>2
    <3>. QED  BY <1>0, <2>2, <3>1, BytesStay DEF used
  <2>5. Bytes(e, p + c + HeaderSize, n) = Bytes(d, p + c + HeaderSize, n)
    <3>. DEFINE j == c + HeaderSize
    <3>1. j \in Nat /\ j + n <= used /\ p + c + HeaderSize = p + j
      BY <1>0, <2>2 DEF Position
    <3>. HIDE DEF j
    <3>2. Bytes(e, p + j, n) = Bytes(d, p + j, n)
      BY <2>2, <3>1, BytesStay DEF used
    <3>. QED  BY <3>1, <3>2
  <2>. QED  BY <2>3, <2>4, <2>5 DEF c, n
<1>. QED  BY <1>1 DEF Holds

(* The write position is behind the bytes to be read.                      *)
LEMMA WriteIsBehind ==
  ASSUME NEW w \in Position, NEW p \in Position
  PROVE  Plus(p, Minus(w, p)) = w
<1>1. Minus(w, p) = IF w >= p THEN w - p ELSE w + Modulus - p
  BY MinusIs
<1>. DEFINE n == Minus(w, p)
<1>2. n \in Position
  BY <1>1, Sizes DEF Position
<1>3. Plus(p, n) = IF p + n < Modulus THEN p + n ELSE p + n - Modulus
  <2>. HIDE DEF n
  <2>. QED  BY <1>2, PlusIs
<1>. QED  BY <1>1, <1>3, Sizes DEF Position

(* A message written behind the messages is one more of them.              *)
LEMMA HoldsOneMore ==
  ASSUME NEW d, NEW w \in Position, NEW p \in Position, NEW q, NEW o,
         Holds(d, p, Minus(w, p), q, o), NEW m \in Messages,
         Minus(w, p) + HeaderSize + Len(m) <= Capacity,
         Bytes(d, w, HeaderSize) = LengthBytes(Len(m)),
         Bytes(d, Plus(w, HeaderSize), Len(m)) = m
  PROVE  \E o2 : Holds(d, p, Minus(w, p) + (HeaderSize + Len(m)), Append(q, m), o2)
<1>. DEFINE used == Minus(w, p)
            n == Len(m)
            l == Len(q)
            a == Append(q, m)
            more == [k \in 0 .. (l + 1) |-> IF k <= l THEN o[k] ELSE used + (HeaderSize + n)]
<1>0. /\ HeaderSize \in Nat \ {0} /\ l \in Nat /\ used \in Nat /\ n \in Nat
      /\ Capacity \in Nat /\ Modulus \in Nat /\ Capacity < Modulus
      /\ \A k \in 0 .. l : o[k] \in 0 .. used
  BY OffsetsFit, Sizes, MessageIs
<1>1. q \in Seq(Messages) /\ o[0] = 0 /\ o[l] = used
  BY DEF Holds
<1>2. /\ a \in Seq(Messages) /\ Len(a) = l + 1 /\ a[l + 1] = m
      /\ \A k \in 1 .. l : a[k] = q[k]
  BY <1>1
<1>3. used \in Position /\ HeaderSize \in Position
  BY <1>0 DEF Position
<1>4. Plus(p, used) = w
  BY WriteIsBehind
<1>5. Bytes(d, p + used, HeaderSize) = LengthBytes(n)
  <2>1. Bytes(d, Plus(p, used), HeaderSize) = Bytes(d, p + used, HeaderSize)
    <3>. HIDE DEF used
    <3>. QED  BY <1>0, <1>3, BytesPlus
  <2>. QED  BY <1>4, <2>1
<1>6. Bytes(d, p + used + HeaderSize, n) = m
  <2>1. Bytes(d, Plus(p, used) + HeaderSize, n) = Bytes(d, p + used + HeaderSize, n)
    <3>. HIDE DEF used, n
    <3>. QED  BY <1>0, <1>3, BytesBehind
  <2>2. Bytes(d, Plus(w, HeaderSize), n) = Bytes(d, w + HeaderSize, n)
    <3>. HIDE DEF n
    <3>. QED  BY <1>0, <1>3, BytesPlus
  <2>. QED  BY <1>4, <2>1, <2>2
<1>. HIDE DEF used, n, l, a
<1>7. more \in [0 .. (l + 1) -> Nat] /\ more[0] = 0 /\ more[l + 1] = used + (HeaderSize + n)
  BY <1>0, <1>1
<1>8. ASSUME NEW k \in 1 .. (l + 1)
      PROVE  /\ more[k] = more[k - 1] + HeaderSize + Len(a[k])
             /\ Bytes(d, p + more[k - 1], HeaderSize) = LengthBytes(Len(a[k]))
             /\ Bytes(d, p + more[k - 1] + HeaderSize, Len(a[k])) = a[k]
  <2>1. CASE k <= l
    <3>1. k \in 1 .. l /\ more[k] = o[k] /\ more[k - 1] = o[k - 1]
      BY <1>0, <2>1
    <3>2. a[k] = q[k]
      BY <1>2, <3>1
    <3>3. k \in 1 .. Len(q)
      BY <3>1 DEF l
    <3>. HIDE DEF more
    <3>. QED  BY <3>1, <3>2, <3>3 DEF Holds
  <2>2. CASE ~(k <= l)
    <3>1. k = l + 1 /\ more[k] = used + (HeaderSize + n) /\ more[k - 1] = used
      BY <1>0, <1>1, <2>2
    <3>2. a[k] = m /\ Len(a[k]) = n
      BY <1>2, <3>1 DEF n
    <3>3. used + (HeaderSize + n) = used + HeaderSize + n
      BY <1>0
    <3>. HIDE DEF more
    <3>. QED  BY <1>5, <1>6, <3>1, <3>2, <3>3
  <2>. QED  BY <2>1, <2>2
<1>. HIDE DEF more
<1>9. Holds(d, p, used + (HeaderSize + n), a, more)
  BY <1>2, <1>7, <1>8 DEF Holds
<1>. QED  BY <1>9 DEF used, n, a

(* Behind the first message are the others.                                *)
LEMMA HoldsOneLess ==
  ASSUME NEW d, NEW p \in Position, NEW used \in 0 .. Capacity, NEW q, NEW o,
         Holds(d, p, used, q, o), q # <<>>
  PROVE  /\ q[1] \in Messages /\ Len(q[1]) \in Nat /\ HeaderSize + Len(q[1]) <= used
         /\ \E o2 : Holds(d, Plus(p, HeaderSize + Len(q[1])),
                          used - (HeaderSize + Len(q[1])), Tail(q), o2)
<1>. DEFINE l == Len(q)
            n == HeaderSize + Len(q[1])
            a == Tail(q)
            less == [k \in 0 .. (l - 1) |-> o[k + 1] - n]
<1>0. /\ HeaderSize \in Nat \ {0} /\ l \in Nat /\ used \in Nat
      /\ Capacity \in Nat /\ Modulus \in Nat /\ Capacity < Modulus
      /\ \A k \in 0 .. l : o[k] \in 0 .. used
      /\ \A k \in 1 .. l : Len(q[k]) \in Nat /\ q[k] \in Messages /\ o[1] <= o[k]
  BY OffsetsFit, Sizes
<1>1. q \in Seq(Messages) /\ o[0] = 0 /\ o[l] = used
  BY DEF Holds
<1>2. l \in Nat \ {0}
  BY <1>1
<1>3. o[1] = n /\ n \in 0 .. used /\ Len(q[1]) \in Nat /\ q[1] \in Messages
  <2>1. 1 \in 1 .. l /\ 1 \in 0 .. l /\ 1 - 1 = 0
    BY <1>2
  <2>2. o[1] = o[1 - 1] + HeaderSize + Len(q[1])
    BY <2>1 DEF Holds
  <2>. QED  BY <1>0, <1>1, <2>1, <2>2
<1>4. /\ a \in Seq(Messages) /\ Len(a) = l - 1
      /\ \A k \in 1 .. (l - 1) : a[k] = q[k + 1]
  BY <1>1, <1>2
<1>5. n \in Position
  BY <1>0, <1>3 DEF Position
<1>6. Len(q[1]) \in Nat /\ q[1] \in Messages /\ n <= used
  BY <1>3
<1>. HIDE DEF l, n, a
<1>7. less \in [0 .. (l - 1) -> Nat] /\ less[0] = 0 /\ less[l - 1] = used - n
  <2>1. ASSUME NEW k \in 0 .. (l - 1) PROVE o[k + 1] - n \in Nat
    <3>1. k + 1 \in 1 .. l /\ k + 1 \in 0 .. l
      BY <1>2
    <3>2. o[1] <= o[k + 1] /\ o[k + 1] \in 0 .. used
      BY <1>0, <3>1
    <3>. QED  BY <1>0, <1>3, <3>2
  <2>2. 0 \in 0 .. (l - 1) /\ l - 1 \in 0 .. (l - 1) /\ 0 + 1 = 1 /\ (l - 1) + 1 = l
    BY <1>2
  <2>3. less[0] = o[1] - n /\ less[l - 1] = o[l] - n
    BY <2>2
  <2>. QED  BY <1>1, <1>3, <2>1, <2>3
<1>8. ASSUME NEW k \in 1 .. (l - 1)
      PROVE  /\ less[k] = less[k - 1] + HeaderSize + Len(a[k])
             /\ Bytes(d, Plus(p, n) + less[k - 1], HeaderSize) = LengthBytes(Len(a[k]))
             /\ Bytes(d, Plus(p, n) + less[k - 1] + HeaderSize, Len(a[k])) = a[k]
  <2>1. /\ k + 1 \in 1 .. l /\ (k + 1) - 1 = k /\ k \in 1 .. l /\ k \in 0 .. l /\ k + 1 \in 0 .. l
        /\ (k - 1) + 1 = k /\ k \in 0 .. (l - 1) /\ k - 1 \in 0 .. (l - 1)
    BY <1>2
  <2>2. less[k] = o[k + 1] - n /\ less[k - 1] = o[k] - n
    BY <2>1
  <2>. DEFINE c == o[k]
              s == Len(a[k])
              j == less[k - 1]
  <2>3. c \in 0 .. used /\ n <= c /\ s \in Nat /\ o[k + 1] \in Nat /\ a[k] = q[k + 1]
    <3>1. c \in 0 .. used /\ n <= c /\ o[k + 1] \in 0 .. used
      BY <1>0, <1>3, <2>1
    <3>2. a[k] = q[k + 1] /\ Len(q[k + 1]) \in Nat
      BY <1>0, <1>4, <2>1
    <3>. QED  BY <1>0, <3>1, <3>2
  <2>4. /\ o[k + 1] = c + HeaderSize + s
        /\ Bytes(d, p + c, HeaderSize) = LengthBytes(s)
        /\ Bytes(d, p + c + HeaderSize, s) = a[k]
    <3>1. k + 1 \in 1 .. Len(q)
      BY <2>1 DEF l
    <3>2. /\ o[k + 1] = o[(k + 1) - 1] + HeaderSize + Len(q[k + 1])
          /\ Bytes(d, p + o[(k + 1) - 1], HeaderSize) = LengthBytes(Len(q[k + 1]))
          /\ Bytes(d, p + o[(k + 1) - 1] + HeaderSize, Len(q[k + 1])) = q[k + 1]
      BY <3>1 DEF Holds
    <3>. QED  BY <2>1, <2>3, <3>2
  <2>5. j = c - n
    BY <2>2
  <2>. HIDE DEF c, s, j, less
  <2>6. less[k] = j + HeaderSize + s
    BY <1>0, <1>3, <2>2, <2>3, <2>4, <2>5
  <2>7. j \in Nat /\ j + HeaderSize \in Nat /\ p + n + j = p + c
        /\ p + n + (j + HeaderSize) = p + c + HeaderSize
        /\ Plus(p, n) + j + HeaderSize = Plus(p, n) + (j + HeaderSize)
    <3>1. p \in Nat /\ Plus(p, n) \in Nat
      BY <1>5, PlusIs DEF Position
    <3>. QED  BY <1>0, <1>3, <2>3, <2>5, <3>1
  <2>8. Bytes(d, Plus(p, n) + j, HeaderSize) = LengthBytes(s)
    <3>1. Bytes(d, Plus(p, n) + j, HeaderSize) = Bytes(d, p + n + j, HeaderSize)
      BY <1>0, <1>5, <2>7, BytesBehind
    <3>. QED  BY <2>4, <2>7, <3>1
  <2>9. Bytes(d, Plus(p, n) + j + HeaderSize, s) = a[k]
    <3>. DEFINE i == j + HeaderSize
    <3>1. i \in Nat
      BY <2>7
    <3>. HIDE DEF i
    <3>2. Bytes(d, Plus(p, n) + i, s) = Bytes(d, p + n + i, s)
      BY <1>5, <2>3, <3>1, BytesBehind
    <3>. QED  BY <2>4, <2>7, <3>2 DEF i
  <2>. QED  BY <2>6, <2>8, <2>9 DEF j, s
<1>. HIDE DEF less
<1>9. Holds(d, Plus(p, n), used - n, a, less)
  BY <1>4, <1>7, <1>8 DEF Holds
<1>10. \E o2 : Holds(d, Plus(p, n), used - n, a, o2)
  BY <1>9
<1>. QED  BY <1>6, <1>10 DEF n, a
-----------------------------------------------------------------------------
(* The bytes the queue of messages counts: the function of Used, ...       *)
IsSum(u, q) ==
  u = [k \in 0 .. Len(q) |-> IF k = 0 THEN 0 ELSE u[k - 1] + HeaderSize + Len(q[k])]

(* ... and its last value.                                                 *)
SumOf(q) == (CHOOSE u : IsSum(u, q))[Len(q)]

(* They are the used bytes of the ring.                                    *)
LEMMA SumIs ==
  ASSUME NEW d, NEW p, NEW used, NEW q, NEW o, Holds(d, p, used, q, o)
  PROVE  SumOf(q) = used
<1>. DEFINE u == CHOOSE x : IsSum(x, q)
            l == Len(q)
<1>0. l \in Nat /\ o \in [0 .. l -> Nat] /\ o[0] = 0 /\ o[l] = used
  BY OffsetsFit DEF Holds
<1>1. \A k \in 1 .. l : o[k] = o[k - 1] + HeaderSize + Len(q[k])
  BY DEF Holds
<1>2. IsSum(o, q)
  <2>1. ASSUME NEW k \in 0 .. l
        PROVE  o[k] = IF k = 0 THEN 0 ELSE o[k - 1] + HeaderSize + Len(q[k])
    BY <1>0, <1>1
  <2>2. o = [k \in 0 .. l |-> o[k]]
    BY <1>0
  <2>3. o = [k \in 0 .. l |-> IF k = 0 THEN 0 ELSE o[k - 1] + HeaderSize + Len(q[k])]
    BY <2>1, <2>2
  <2>. QED  BY <2>3, Zenon DEF IsSum
<1>3. IsSum(u, q)
  BY <1>2, Zenon
<1>. HIDE DEF u
<1>4. \A k \in 0 .. l : u[k] = IF k = 0 THEN 0 ELSE u[k - 1] + HeaderSize + Len(q[k])
  <2>1. u = [k \in 0 .. l |-> IF k = 0 THEN 0 ELSE u[k - 1] + HeaderSize + Len(q[k])]
    BY <1>3, Zenon DEF IsSum
  <2>. QED  BY <2>1
<1>. HIDE DEF l
<1>. DEFINE S == {k \in Nat : k <= l => u[k] = o[k]}
<1>5. 0 \in S
  BY <1>0, <1>4
<1>6. ASSUME NEW k \in Nat, k \in S PROVE k + 1 \in S
  <2>. SUFFICES ASSUME k + 1 <= l PROVE u[k + 1] = o[k + 1]
    OBVIOUS
  <2>1. k + 1 \in 0 .. l /\ k + 1 \in 1 .. l /\ (k + 1) - 1 = k /\ k + 1 # 0 /\ u[k] = o[k]
    BY <1>0, <1>6
  <2>. QED  BY <1>1, <1>4, <2>1
<1>. HIDE DEF S
<1>7. l \in S
  BY <1>0, <1>5, <1>6, Induction
<1>. QED  BY <1>0, <1>7 DEF S, SumOf, u, l
-----------------------------------------------------------------------------
(* The ring implements the queue.                                          *)

(* What the refinement takes for the queue.                                *)
Contents == IF writerPc = "reset" THEN <<>> ELSE Pending

(* What the reader knows of the first message.                             *)
ReaderKnows(q) ==
  /\ readerPc # "idle" => q # <<>> /\ HeaderSize + Len(q[1]) <= avail
  /\ readerPc \in {"copy", "release"} => msg_len = Len(q[1])
  /\ readerPc = "release" => buf = SubSeq(q[1], 1, CopyLength)

(* The used bytes are a sequence of messages, and the writer has written   *)
(* what it believes to have.                                               *)
Stored ==
  /\ DOMAIN data = 0 .. Capacity - 1
  /\ writerPc # "reset" =>
       \E q, o : Holds(data, read_pos, AvailableRead, q, o) /\ ReaderKnows(q)
  /\ writerPc \in {"length", "payload", "publish"} => message \in Messages
  /\ writerPc \in {"payload", "publish"} =>
       Bytes(data, write_pos, HeaderSize) = LengthBytes(Len(message))
  /\ writerPc = "publish" =>
       Bytes(data, Plus(write_pos, HeaderSize), Len(message)) = message

(* A step of the queue, or none.                                           *)
QueueStep == [Queue!Next]_(Queue!vars)

(* The loop of ring_buffer_messages_pending is the one of any memory, ...  *)
LEMMA PendingNow == Pending = PendingIn(data, read_pos, AvailableRead)
<1>1. Consumed = WalkIn(data, read_pos, AvailableRead)
  BY DEF Consumed, Turns, LengthAt, Encodes, Get, WalkIn, IsWalk, Turn, LengthIn, Bytes
<1>2. MessagesPending = CountIn(WalkIn(data, read_pos, AvailableRead), AvailableRead)
  BY <1>1 DEF MessagesPending, CountIn, Turns
<1>. QED  BY <1>1, <1>2
          DEF Pending, PendingIn, MessageAt, LengthAt, Encodes, Get, LengthIn, Bytes

(* ... after a step, too.                                                  *)
LEMMA PendingNext == Pending' = PendingIn(data', read_pos', AvailableRead')
<1>1. Consumed' = WalkIn(data', read_pos', AvailableRead')
  BY DEF Consumed, Turns, LengthAt, Encodes, Get, WalkIn, IsWalk, Turn, LengthIn, Bytes
<1>2. MessagesPending' = CountIn(WalkIn(data', read_pos', AvailableRead'), AvailableRead')
  BY <1>1 DEF MessagesPending, CountIn, Turns
<1>. QED  BY <1>1, <1>2
          DEF Pending, PendingIn, MessageAt, LengthAt, Encodes, Get, LengthIn, Bytes

(* It finds the messages that are there.                                   *)
LEMMA Found ==
  ASSUME IInv, writerPc # "reset", NEW q, NEW o,
         Holds(data, read_pos, AvailableRead, q, o)
  PROVE  Contents = q /\ Queue!Used = AvailableRead /\ AvailableRead \in 0 .. Capacity
<1>1. read_pos \in Position /\ write_pos \in Position /\ AvailableRead \in 0 .. Capacity
  BY UsedIsNat, Sizes DEF IInv, Numbers, Fit, AvailableRead
<1>2. Contents = q
  BY <1>1, PendingNow, PendingInIs DEF Contents
<1>3. Queue!Used = SumOf(Contents)
  BY DEF Queue!Used, SumOf, IsSum, Contents
<1>4. SumOf(q) = AvailableRead
  BY SumIs
<1>. QED  BY <1>1, <1>2, <1>3, <1>4

(* It finds them after a step.                                             *)
LEMMA FoundNext ==
  ASSUME IInv', writerPc' # "reset", NEW q, NEW o,
         Holds(data', read_pos', AvailableRead', q, o)
  PROVE  Contents' = q
<1>1. read_pos' \in Position /\ write_pos' \in Position /\ AvailableRead' \in 0 .. Capacity
  BY UsedIsNat, Sizes DEF IInv, Numbers, Fit, AvailableRead
<1>. QED  BY <1>1, PendingNext, PendingInIs DEF Contents

(* A step that changes neither the messages nor a result is none of the    *)
(* queue.                                                                  *)
LEMMA Stutters ==
  ASSUME Contents' = Contents, UNCHANGED <<accepted, delivered>>
  PROVE  QueueStep
BY DEF QueueStep, Queue!vars, Contents

(* The bytes of a length are as many as memcpy copies.                     *)
LEMMA LengthBytesIs ==
  ASSUME NEW n \in Nat
  PROVE  LengthBytes(n) \in Seq(Int) /\ Len(LengthBytes(n)) = HeaderSize
<1>1. HeaderSize \in Nat /\ Base \in Nat \ {0}
  BY RingAssumption
<1>2. ASSUME NEW i \in 1 .. HeaderSize PROVE (n \div Weight[i - 1]) % Base \in Int
  <2>1. Weight[i - 1] \in Nat \ {0}
    BY <1>1, WeightsArePositive
  <2>. DEFINE x == n \div Weight[i - 1]
  <2>2. x \in Nat
    BY <2>1, DivMod
  <2>. HIDE DEF x
  <2>3. x % Base \in 0 .. Base - 1
    BY <1>1, <2>2, DivMod
  <2>. QED  BY <1>1, <2>3 DEF x
<1>3. LengthBytes(n) \in [1 .. HeaderSize -> Int]
  BY <1>2 DEF LengthBytes
<1>. QED  BY <1>1, <1>3

(* The code's copies are those of any memory.                              *)
LEMMA Copies ==
  /\ \A p, b : Put(p, b) = PutIn(data, p, b)
  /\ \A p, n : Get(p, n) = Bytes(data, p, n)
BY DEF Put, PutIn, Get, Bytes
-----------------------------------------------------------------------------
(* The ring starts as an empty queue.                                      *)
LEMMA InitStored == Init => Stored /\ Queue!Init
<1>. SUFFICES ASSUME Init PROVE Stored /\ Queue!Init
  OBVIOUS
<1>1. IInv
  BY InitIInv
<1>2. AvailableRead = 0
  <2>1. 0 \in Position /\ Minus(0, 0) = 0
    BY MinusIs, Sizes DEF Position
  <2>. QED  BY <2>1 DEF Init, AvailableRead
<1>3. Holds(data, read_pos, AvailableRead, <<>>, [k \in 0 .. 0 |-> 0])
  BY <1>2, HoldsNothing
<1>4. Contents = <<>>
  BY <1>1, <1>3, Found DEF Init
<1>5. ReaderKnows(<<>>)
  BY DEF ReaderKnows, Init
<1>6. DOMAIN data = 0 .. Capacity - 1
  BY DEF Init
<1>7. Stored
  BY <1>3, <1>5, <1>6 DEF Stored, Init
<1>8. Queue!Init
  BY <1>4 DEF Queue!Init, Queue!Nothing, Nothing, Init, Contents
<1>. QED  BY <1>7, <1>8

(* What neither the ring nor the reader's knowledge depends on may change. *)
LEMMA Keeps ==
  ASSUME IInv, IInv', Stored, writerPc # "reset", writerPc' # "reset",
         UNCHANGED <<data, positions, readerPc, avail, msg_len, buf>>
  PROVE  /\ Contents' = Contents
         /\ \E q, o : Holds(data', read_pos', AvailableRead', q, o) /\ ReaderKnows(q)'
<1>1. PICK q, o : Holds(data, read_pos, AvailableRead, q, o) /\ ReaderKnows(q)
  BY DEF Stored
<1>2. data' = data /\ read_pos' = read_pos /\ AvailableRead' = AvailableRead
  BY DEF positions, AvailableRead
<1>3. Holds(data', read_pos', AvailableRead', q, o)
  BY <1>1, <1>2
<1>4. ReaderKnows(q)'
  BY <1>1 DEF ReaderKnows, CopyLength
<1>5. Contents' = q /\ Contents = q
  BY <1>1, <1>3, Found, FoundNext
<1>. QED  BY <1>3, <1>4, <1>5

(* A message is refused only for want of room.                             *)
LEMMA RefusedStep ==
  ASSUME IInv, IInv', Stored, NEW m \in Messages, WriteRefused(m)
  PROVE  Stored' /\ QueueStep
<1>1. /\ writerPc = "idle" /\ writerPc' = "idle" /\ accepted' = FALSE
      /\ UNCHANGED <<data, positions, readerPc, avail, msg_len, buf, message, delivered>>
  BY DEF WriteRefused, readerVars, readerLocals
<1>2. /\ Contents' = Contents
      /\ \E q, o : Holds(data', read_pos', AvailableRead', q, o) /\ ReaderKnows(q)'
  BY <1>1, Keeps
<1>3. Stored'
  BY <1>1, <1>2 DEF Stored
<1>4. PICK q, o : Holds(data, read_pos, AvailableRead, q, o)
  BY <1>1 DEF Stored
<1>5. Queue!Used = AvailableRead /\ AvailableRead \in 0 .. Capacity
  BY <1>1, <1>4, Found
<1>6. ~(AvailableRead + HeaderSize + Len(m) <= Capacity)
  <2>1. AvailableWrite = Capacity - AvailableRead
    BY <1>5, RoomIs DEF AvailableWrite
  <2>2. Len(m) \in Nat
    BY MessageIs
  <2>. QED  BY <1>5, <2>1, <2>2, Sizes DEF WriteRefused, HasRoom
<1>7. Queue!Refuse(m)
  BY <1>1, <1>2, <1>5, <1>6 DEF Queue!Refuse, Queue!Fits, Contents
<1>. QED  BY <1>3, <1>7 DEF QueueStep, Queue!Next

(* A write that begins changes nothing yet.                                *)
LEMMA BeginsStep ==
  ASSUME IInv, IInv', Stored, NEW m \in Messages, WriteBegins(m)
  PROVE  Stored' /\ QueueStep
<1>1. /\ writerPc = "idle" /\ writerPc' = "length" /\ message' = m
      /\ UNCHANGED <<data, positions, readerPc, avail, msg_len, buf, accepted, delivered>>
  BY DEF WriteBegins, readerVars, readerLocals
<1>2. /\ Contents' = Contents
      /\ \E q, o : Holds(data', read_pos', AvailableRead', q, o) /\ ReaderKnows(q)'
  BY <1>1, Keeps
<1>3. Stored'
  BY <1>1, <1>2 DEF Stored
<1>. QED  BY <1>1, <1>2, <1>3, Stutters
-----------------------------------------------------------------------------
(* Copying in the length of a message leaves the queue as it is.           *)
LEMMA LengthStep ==
  ASSUME IInv, IInv', Stored, WriteLength
  PROVE  Stored' /\ QueueStep
<1>. DEFINE b == LengthBytes(Len(message))
<1>1. /\ writerPc = "length" /\ writerPc' = "payload"
      /\ UNCHANGED <<positions, message, readerPc, avail, msg_len, buf, accepted, delivered>>
  BY DEF WriteLength, readerVars, readerLocals
<1>2. /\ message \in Messages /\ Len(message) \in Nat
      /\ DOMAIN data = 0 .. Capacity - 1
      /\ write_pos \in Position /\ read_pos \in Position
      /\ AvailableRead + HeaderSize + Len(message) <= Capacity
      /\ HeaderSize \in Nat \ {0} /\ Capacity \in Nat /\ AvailableRead \in Nat
  BY <1>1, MessageIs, UsedIsNat, Sizes DEF Stored, IInv, Numbers, Fit, AvailableRead
<1>3. b \in Seq(Int) /\ Len(b) = HeaderSize
  BY <1>2, LengthBytesIs
<1>. HIDE DEF b
<1>4. data' = PutIn(data, write_pos, b)
  BY Copies DEF WriteLength, b
<1>5. PICK q, o : Holds(data, read_pos, AvailableRead, q, o) /\ ReaderKnows(q)
  BY <1>1 DEF Stored
<1>6. /\ AvailableRead' = AvailableRead /\ AvailableRead = Minus(write_pos, read_pos)
      /\ write_pos' = write_pos /\ read_pos' = read_pos
  BY <1>1 DEF positions, AvailableRead
<1>7. Plus(write_pos, 0) = write_pos
  <2>1. 0 \in Position
    BY Sizes DEF Position
  <2>2. Plus(write_pos, 0) = IF write_pos + 0 < Modulus THEN write_pos + 0
                             ELSE write_pos + 0 - Modulus
    BY <1>2, <2>1, PlusIs
  <2>. QED  BY <1>2, <2>2, Sizes DEF Position
<1>8. Holds(data', read_pos', AvailableRead', q, o)
  <2>1. Minus(write_pos, read_pos) + 0 + Len(b) <= Capacity
    BY <1>2, <1>3, <1>6
  <2>2. Holds(PutIn(data, Plus(write_pos, 0), b), read_pos, Minus(write_pos, read_pos), q, o)
    BY <1>2, <1>3, <1>5, <1>6, <2>1, HoldsStay
  <2>. QED  BY <1>4, <1>6, <1>7, <2>2
<1>9. ReaderKnows(q)'
  BY <1>1, <1>5 DEF ReaderKnows, CopyLength
<1>10. DOMAIN data' = 0 .. Capacity - 1
  BY <1>2, <1>4 DEF PutIn
<1>11. Bytes(data', write_pos', HeaderSize) = LengthBytes(Len(message'))
  <2>1. Len(b) <= Capacity
    BY <1>2, <1>3
  <2>2. Bytes(PutIn(data, write_pos, b), write_pos, Len(b)) = b
    BY <1>2, <1>3, <2>1, BytesPut
  <2>. QED  BY <1>1, <1>3, <1>4, <1>6, <2>2 DEF b
<1>12. Stored'
  BY <1>1, <1>2, <1>8, <1>9, <1>10, <1>11 DEF Stored
<1>13. Contents' = q /\ Contents = q
  BY <1>1, <1>5, <1>8, Found, FoundNext
<1>. QED  BY <1>1, <1>12, <1>13, Stutters

(* So does copying in its bytes.                                           *)
LEMMA PayloadStep ==
  ASSUME IInv, IInv', Stored, WritePayload
  PROVE  Stored' /\ QueueStep
<1>1. /\ writerPc = "payload" /\ writerPc' = "publish"
      /\ UNCHANGED <<positions, message, readerPc, avail, msg_len, buf, accepted, delivered>>
  BY DEF WritePayload, readerVars, readerLocals
<1>2. /\ message \in Messages /\ message \in Seq(0 .. Base - 1) /\ Len(message) \in Nat
      /\ DOMAIN data = 0 .. Capacity - 1
      /\ write_pos \in Position /\ read_pos \in Position
      /\ AvailableRead + HeaderSize + Len(message) <= Capacity
      /\ HeaderSize \in Nat \ {0} /\ Capacity \in Nat /\ AvailableRead \in Nat
  BY <1>1, MessageIs, UsedIsNat, Sizes DEF Stored, IInv, Numbers, Fit, AvailableRead
<1>3. data' = PutIn(data, Plus(write_pos, HeaderSize), message)
  BY Copies DEF WritePayload
<1>4. Plus(write_pos, HeaderSize) \in Position
  <2>1. HeaderSize \in Position
    BY <1>2, Sizes DEF Position
  <2>. QED  BY <1>2, <2>1, PlusIs
<1>5. PICK q, o : Holds(data, read_pos, AvailableRead, q, o) /\ ReaderKnows(q)
  BY <1>1 DEF Stored
<1>6. /\ AvailableRead' = AvailableRead /\ AvailableRead = Minus(write_pos, read_pos)
      /\ write_pos' = write_pos /\ read_pos' = read_pos
  BY <1>1 DEF positions, AvailableRead
<1>7. Holds(data', read_pos', AvailableRead', q, o)
  <2>1. Minus(write_pos, read_pos) + HeaderSize + Len(message) <= Capacity
    BY <1>2, <1>6
  <2>2. Holds(PutIn(data, Plus(write_pos, HeaderSize), message),
              read_pos, Minus(write_pos, read_pos), q, o)
    BY <1>2, <1>5, <1>6, <2>1, HoldsStay
  <2>. QED  BY <1>3, <1>6, <2>2
<1>8. ReaderKnows(q)'
  BY <1>1, <1>5 DEF ReaderKnows, CopyLength
<1>9. DOMAIN data' = 0 .. Capacity - 1
  BY <1>2, <1>3 DEF PutIn
<1>10. HeaderSize + Len(message) <= Capacity /\ Len(message) <= Capacity
  BY <1>2
<1>11. Bytes(data', write_pos', HeaderSize) = LengthBytes(Len(message'))
  <2>1. Bytes(data, write_pos, HeaderSize) = LengthBytes(Len(message))
    BY <1>1 DEF Stored
  <2>2. Bytes(PutIn(data, Plus(write_pos, HeaderSize), message), write_pos, HeaderSize)
          = Bytes(data, write_pos, HeaderSize)
    BY <1>2, <1>10, HeaderStays
  <2>. QED  BY <1>1, <1>3, <1>6, <2>1, <2>2
<1>12. Bytes(data', Plus(write_pos', HeaderSize), Len(message')) = message'
  <2>1. Bytes(PutIn(data, Plus(write_pos, HeaderSize), message),
              Plus(write_pos, HeaderSize), Len(message)) = message
    BY <1>2, <1>4, <1>10, BytesPut
  <2>. QED  BY <1>1, <1>3, <1>6, <2>1
<1>13. Plus(write_pos, HeaderSize)' = Plus(write_pos', HeaderSize)
  BY DEF Plus
<1>14. Stored'
  BY <1>1, <1>2, <1>7, <1>8, <1>9, <1>11, <1>12, <1>13 DEF Stored
<1>15. Contents' = q /\ Contents = q
  BY <1>1, <1>5, <1>7, Found, FoundNext
<1>. QED  BY <1>1, <1>14, <1>15, Stutters

(* Publishing a message puts it at the end of the queue.                   *)
LEMMA PublishStep ==
  ASSUME IInv, IInv', Stored, Publish
  PROVE  Stored' /\ QueueStep
<1>. DEFINE n == HeaderSize + Len(message)
<1>1. /\ writerPc = "publish" /\ writerPc' = "idle" /\ accepted' = TRUE
      /\ write_pos' = Plus(write_pos, n)
      /\ UNCHANGED <<data, read_pos, readerPc, avail, msg_len, buf, delivered>>
  BY DEF Publish, readerVars, readerLocals
<1>2. /\ message \in Messages /\ Len(message) \in Nat
      /\ DOMAIN data = 0 .. Capacity - 1
      /\ write_pos \in Position /\ read_pos \in Position
      /\ AvailableRead + HeaderSize + Len(message) <= Capacity
      /\ HeaderSize \in Nat \ {0} /\ Capacity \in Nat /\ AvailableRead \in Nat
      /\ AvailableRead = Minus(write_pos, read_pos)
  BY <1>1, MessageIs, UsedIsNat, Sizes DEF Stored, IInv, Numbers, Fit, AvailableRead
<1>3. n \in Nat /\ AvailableRead + n <= Capacity
  BY <1>2
<1>. HIDE DEF n
<1>4. AvailableRead' = AvailableRead + n
  <2>1. Minus(Plus(write_pos, n), read_pos) = Minus(write_pos, read_pos) + n
    BY <1>2, <1>3, WriteMoves
  <2>. QED  BY <1>1, <1>2, <2>1 DEF AvailableRead
<1>5. PICK q, o : Holds(data, read_pos, AvailableRead, q, o) /\ ReaderKnows(q)
  BY <1>1 DEF Stored
<1>6. /\ Bytes(data, write_pos, HeaderSize) = LengthBytes(Len(message))
      /\ Bytes(data, Plus(write_pos, HeaderSize), Len(message)) = message
  BY <1>1 DEF Stored
<1>7. PICK m \in Messages : m = message
  BY <1>2
<1>. DEFINE a == Append(q, m)
<1>8. PICK o2 : Holds(data, read_pos, AvailableRead + n, a, o2)
  BY <1>2, <1>5, <1>6, <1>7, HoldsOneMore DEF n
<1>9. q \in Seq(Messages)
  BY <1>5 DEF Holds
<1>10. a # <<>> /\ (q # <<>> => a[1] = q[1])
  <2>1. Len(a) = Len(q) + 1 /\ Len(q) \in Nat
    BY <1>9
  <2>2. a # <<>>
    <3>1. Len(<<>>) = 0
      OBVIOUS
    <3>. HIDE DEF a
    <3>. QED  BY <2>1, <3>1
  <2>3. ASSUME q # <<>> PROVE a[1] = q[1]
    <3>1. 1 \in 1 .. Len(q)
      BY <1>9, <2>3
    <3>2. \A k \in 1 .. Len(q) : a[k] = q[k]
      BY <1>9
    <3>. QED  BY <3>1, <3>2
  <2>. QED  BY <2>2, <2>3
<1>. HIDE DEF a
<1>11. Holds(data', read_pos', AvailableRead', a, o2)
  BY <1>1, <1>4, <1>8
<1>12. ReaderKnows(a)'
  <2>1. ReaderKnows(a)
    BY <1>5, <1>10 DEF ReaderKnows
  <2>. QED  BY <1>1, <2>1 DEF ReaderKnows, CopyLength
<1>13. Stored'
  BY <1>1, <1>2, <1>11, <1>12 DEF Stored
<1>14. Contents' = a /\ Contents = q /\ Queue!Used = AvailableRead
  BY <1>1, <1>5, <1>11, Found, FoundNext
<1>15. Queue!Write(m)
  <2>1. Queue!Fits(m)
    BY <1>2, <1>7, <1>14 DEF Queue!Fits
  <2>. QED  BY <1>1, <1>14, <2>1 DEF Queue!Write, Contents, a
<1>. QED  BY <1>13, <1>15 DEF QueueStep, Queue!Next

(* A reset discards what is left, at once, although it takes two stores.   *)
LEMMA ResetStep ==
  ASSUME IInv, IInv', Stored, readerPc = "idle", Reset
  PROVE  Stored' /\ QueueStep
<1>1. UNCHANGED <<data, message, readerPc, avail, msg_len, buf, accepted, delivered>>
  BY DEF Reset, ResetWritePos, ResetReadPos, readerVars, readerLocals
<1>2. CASE ResetWritePos
  <2>1. writerPc' = "reset" /\ Contents' = <<>>
    BY <1>2 DEF ResetWritePos, Contents
  <2>2. Stored'
    BY <1>1, <2>1 DEF Stored
  <2>3. Queue!Discard
    BY <1>1, <2>1 DEF Queue!Discard, Contents
  <2>. QED  BY <2>2, <2>3 DEF QueueStep, Queue!Next
<1>3. CASE ResetReadPos
  <2>1. writerPc = "reset" /\ writerPc' = "idle" /\ read_pos' = 0 /\ write_pos' = 0
    BY <1>3 DEF ResetReadPos, IInv, ResetAlone
  <2>2. AvailableRead' = 0
    <3>1. 0 \in Position /\ Minus(0, 0) = 0
      BY MinusIs, Sizes DEF Position
    <3>. QED  BY <2>1, <3>1 DEF AvailableRead
  <2>3. Holds(data', read_pos', AvailableRead', <<>>, [k \in 0 .. 0 |-> 0])
    BY <2>2, HoldsNothing
  <2>4. ReaderKnows(<<>>)'
    BY <1>1 DEF ReaderKnows
  <2>5. Stored'
    BY <1>1, <2>1, <2>3, <2>4 DEF Stored
  <2>6. Contents' = <<>> /\ Contents = <<>>
    BY <2>1, <2>3, FoundNext DEF Contents
  <2>. QED  BY <1>1, <2>5, <2>6, Stutters
<1>. QED  BY <1>2, <1>3 DEF Reset

(* The reader finds nothing only when nothing is there.                    *)
LEMMA EmptyStep ==
  ASSUME IInv, IInv', Stored, writerPc # "reset", ReadEmpty
  PROVE  Stored' /\ QueueStep
<1>1. /\ readerPc = "idle" /\ readerPc' = "idle" /\ delivered' = Nothing
      /\ AvailableRead < HeaderSize
      /\ UNCHANGED <<data, positions, writerPc, message, accepted>>
  BY DEF ReadEmpty, ReadReturns, writerVars
<1>2. PICK q, o : Holds(data, read_pos, AvailableRead, q, o)
  BY DEF Stored
<1>3. AvailableRead' = AvailableRead /\ read_pos' = read_pos
  BY <1>1 DEF positions, AvailableRead
<1>4. Contents = q /\ AvailableRead \in 0 .. Capacity /\ read_pos \in Position
  BY <1>2, Found DEF IInv, Numbers
<1>5. q = <<>>
  <2>. SUFFICES ASSUME q # <<>> PROVE FALSE
    OBVIOUS
  <2>1. Len(q[1]) \in Nat /\ HeaderSize + Len(q[1]) <= AvailableRead
    BY <1>2, <1>4, HoldsOneLess
  <2>. QED  BY <1>1, <1>4, <2>1, Sizes
<1>6. Holds(data', read_pos', AvailableRead', q, o)
  BY <1>1, <1>2, <1>3
<1>7. ReaderKnows(q)'
  BY <1>1 DEF ReaderKnows
<1>8. Stored'
  BY <1>1, <1>6, <1>7 DEF Stored, positions
<1>9. Contents' = q
  BY <1>1, <1>6, FoundNext
<1>10. Queue!ReadNothing
  BY <1>1, <1>4, <1>5, <1>9 DEF Queue!ReadNothing, Queue!Nothing, Nothing, Contents
<1>. QED  BY <1>8, <1>10 DEF QueueStep, Queue!Next
-----------------------------------------------------------------------------
(* What a reader's step up to the copy leaves alone.                       *)
LEMMA ReaderLooks ==
  ASSUME IInv, IInv', Stored, writerPc # "reset",
         UNCHANGED <<data, positions, writerVars, delivered>>,
         NEW q, NEW o, Holds(data, read_pos, AvailableRead, q, o), ReaderKnows(q)'
  PROVE  Stored' /\ QueueStep
<1>1. UNCHANGED <<data, write_pos, read_pos, writerPc, message, accepted, delivered>>
      /\ AvailableRead' = AvailableRead
  BY DEF positions, writerVars, AvailableRead
<1>2. Holds(data', read_pos', AvailableRead', q, o)
  BY <1>1
<1>3. Stored'
  BY <1>1, <1>2 DEF Stored
<1>4. Contents' = q /\ Contents = q
  BY <1>1, <1>2, Found, FoundNext
<1>. QED  BY <1>1, <1>3, <1>4, Stutters

(* A reader that finds bytes finds a message.                              *)
LEMMA BeginsReading ==
  ASSUME IInv, IInv', Stored, writerPc # "reset", ReadBegins
  PROVE  Stored' /\ QueueStep
<1>1. /\ readerPc' = "length" /\ avail' = AvailableRead /\ AvailableRead >= HeaderSize
      /\ UNCHANGED <<data, positions, writerVars, delivered>>
  BY DEF ReadBegins
<1>2. PICK q, o : Holds(data, read_pos, AvailableRead, q, o)
  BY DEF Stored
<1>3. AvailableRead \in 0 .. Capacity /\ read_pos \in Position
  BY <1>2, Found DEF IInv, Numbers
<1>4. q # <<>>
  <2>. SUFFICES ASSUME q = <<>> PROVE FALSE
    OBVIOUS
  <2>1. Len(q) = 0
    OBVIOUS
  <2>2. o[0] = 0 /\ o[Len(q)] = AvailableRead
    BY <1>2 DEF Holds
  <2>. QED  BY <1>1, <2>1, <2>2, Sizes
<1>5. HeaderSize + Len(q[1]) <= AvailableRead
  BY <1>2, <1>3, <1>4, HoldsOneLess
<1>6. ReaderKnows(q)'
  BY <1>1, <1>4, <1>5 DEF ReaderKnows
<1>. QED  BY <1>1, <1>2, <1>6, ReaderLooks

(* The first message, where the reader looks for it.                       *)
LEMMA FirstMessage ==
  ASSUME IInv, writerPc # "reset", readerPc # "idle",
         NEW q, NEW o, Holds(data, read_pos, AvailableRead, q, o), ReaderKnows(q)
  PROVE  /\ r = read_pos /\ r \in Position
         /\ q[1] \in Messages /\ q[1] \in Seq(0 .. Base - 1) /\ Len(q[1]) \in Lengths
         /\ Get(r, HeaderSize) = LengthBytes(Len(q[1]))
         /\ Get(Plus(r, HeaderSize), Len(q[1])) = q[1]
<1>1. r = read_pos /\ r \in Position /\ AvailableRead \in 0 .. Capacity
  BY Found DEF IInv, Numbers, ReaderBehind
<1>2. q # <<>> /\ q \in Seq(Messages) /\ o[0] = 0
  BY DEF ReaderKnows, Holds
<1>3. 1 \in 1 .. Len(q) /\ 1 - 1 = 0
  BY <1>2
<1>4. q[1] \in Messages
  BY <1>2, <1>3
<1>5. q[1] \in Seq(0 .. Base - 1) /\ Len(q[1]) \in Nat /\ Len(q[1]) \in Lengths
  BY <1>4, MessageIs
<1>6. /\ Bytes(data, read_pos + o[0], HeaderSize) = LengthBytes(Len(q[1]))
      /\ Bytes(data, read_pos + o[0] + HeaderSize, Len(q[1])) = q[1]
  <2>1. /\ Bytes(data, read_pos + o[1 - 1], HeaderSize) = LengthBytes(Len(q[1]))
        /\ Bytes(data, read_pos + o[1 - 1] + HeaderSize, Len(q[1])) = q[1]
    BY <1>3 DEF Holds
  <2>. QED  BY <1>3, <2>1
<1>7. read_pos + o[0] = r
  BY <1>1, <1>2 DEF Position
<1>8. HeaderSize \in Position
  BY <1>1, Sizes DEF Position, IInv, Numbers, ReaderBehind
<1>9. Bytes(data, Plus(r, HeaderSize), Len(q[1])) = Bytes(data, r + HeaderSize, Len(q[1]))
  BY <1>1, <1>5, <1>8, BytesPlus
<1>10. /\ Get(r, HeaderSize) = Bytes(data, r, HeaderSize)
       /\ Get(Plus(r, HeaderSize), Len(q[1])) = Bytes(data, Plus(r, HeaderSize), Len(q[1]))
  BY Copies
<1>. QED  BY <1>1, <1>4, <1>5, <1>6, <1>7, <1>9, <1>10

(* The length it reads is that of the first message, which is complete.    *)
LEMMA ReadsLength ==
  ASSUME IInv, IInv', Stored, writerPc # "reset", ReadLength
  PROVE  Stored' /\ QueueStep
<1>1. readerPc = "length" /\ UNCHANGED <<data, positions, writerVars>>
  BY DEF ReadLength
<1>2. PICK q, o : Holds(data, read_pos, AvailableRead, q, o) /\ ReaderKnows(q)
  BY DEF Stored
<1>3. /\ Len(q[1]) \in Lengths
      /\ Get(r, HeaderSize) = LengthBytes(Len(q[1]))
  BY <1>1, <1>2, FirstMessage
<1>4. PICK n \in Lengths :
        /\ Encodes(r, n)
        /\ IF avail < HeaderSize + n
           THEN ReadReturns(Nothing)
           ELSE /\ msg_len' = n
                /\ readerPc' = "copy"
                /\ UNCHANGED <<r, avail, buf, delivered>>
  BY DEF ReadLength
<1>5. n = Len(q[1])
  BY <1>3, <1>4, LengthBytesUnique DEF Encodes
<1>6. q # <<>> /\ HeaderSize + n <= avail
  BY <1>1, <1>2, <1>5 DEF ReaderKnows
<1>7. avail \in Nat /\ HeaderSize + n \in Nat
  <2>1. n \in Nat
    BY <1>4, <1>5, <1>2, <1>1, FirstMessage, MessageIs
  <2>. QED  BY <2>1, Sizes DEF IInv, Numbers
<1>8. /\ msg_len' = n /\ readerPc' = "copy"
      /\ UNCHANGED <<avail, buf, delivered>>
  BY <1>4, <1>6, <1>7
<1>9. ReaderKnows(q)'
  BY <1>5, <1>6, <1>8 DEF ReaderKnows
<1>. QED  BY <1>1, <1>2, <1>8, <1>9, ReaderLooks

(* A part of what is in the buffer.                                        *)
LEMMA BytesFront ==
  ASSUME NEW p, NEW n \in Nat, NEW k \in 0 .. n
  PROVE  Get(p, k) = SubSeq(Get(p, n), 1, k)
<1>1. SubSeq(Get(p, n), 1, k) = [i \in 1 .. k |-> Get(p, n)[i]]
  BY DEF Get
<1>2. ASSUME NEW i \in 1 .. k
      PROVE  Get(p, n)[i] = data[(p + i - 1) % Capacity]
  BY DEF Get
<1>. QED  BY <1>1, <1>2 DEF Get

(* It copies the message, or as much of it as it has room for.             *)
LEMMA CopiesMessage ==
  ASSUME IInv, IInv', Stored, writerPc # "reset", ReadCopies
  PROVE  Stored' /\ QueueStep
<1>1. /\ readerPc = "copy" /\ readerPc' = "release"
      /\ buf' = Get(Plus(r, HeaderSize), CopyLength)
      /\ UNCHANGED <<data, positions, writerVars, avail, msg_len, delivered>>
  BY DEF ReadCopies
<1>2. PICK q, o : Holds(data, read_pos, AvailableRead, q, o) /\ ReaderKnows(q)
  BY DEF Stored
<1>3. /\ q[1] \in Messages
      /\ Get(Plus(r, HeaderSize), Len(q[1])) = q[1]
  BY <1>1, <1>2, FirstMessage
<1>4. Len(q[1]) \in Nat
  BY <1>3, MessageIs
<1>5. q # <<>> /\ HeaderSize + Len(q[1]) <= avail /\ msg_len = Len(q[1])
  BY <1>1, <1>2 DEF ReaderKnows
<1>6. CopyLength \in 0 .. Len(q[1]) /\ CopyLength' = CopyLength
  BY <1>1, <1>4, <1>5, Sizes DEF CopyLength
<1>7. buf' = SubSeq(q[1], 1, CopyLength)
  <2>1. Get(Plus(r, HeaderSize), CopyLength)
          = SubSeq(Get(Plus(r, HeaderSize), Len(q[1])), 1, CopyLength)
    BY <1>4, <1>6, BytesFront
  <2>. QED  BY <1>1, <1>3, <2>1
<1>8. ReaderKnows(q)'
  BY <1>1, <1>5, <1>6, <1>7 DEF ReaderKnows
<1>. QED  BY <1>1, <1>2, <1>8, ReaderLooks

(* Releasing it takes the first message off the queue.                     *)
LEMMA ReleasesMessage ==
  ASSUME IInv, IInv', Stored, writerPc # "reset", ReadReleases
  PROVE  Stored' /\ QueueStep
<1>1. /\ readerPc = "release" /\ readerPc' = "idle"
      /\ read_pos' = Plus(r, HeaderSize + msg_len)
      /\ delivered' = [len |-> msg_len, bytes |-> buf]
      /\ UNCHANGED <<data, write_pos, writerPc, message, accepted>>
  BY DEF ReadReleases, ReadReturns, writerVars
<1>2. PICK q, o : Holds(data, read_pos, AvailableRead, q, o) /\ ReaderKnows(q)
  BY DEF Stored
<1>. DEFINE n == HeaderSize + Len(q[1])
<1>3. /\ q # <<>> /\ msg_len = Len(q[1]) /\ buf = SubSeq(q[1], 1, CopyLength)
      /\ r = read_pos
  BY <1>1, <1>2 DEF ReaderKnows, IInv, ReaderBehind
<1>4. /\ read_pos \in Position /\ write_pos \in Position
      /\ AvailableRead \in 0 .. Capacity /\ AvailableRead = Minus(write_pos, read_pos)
      /\ Contents = q
  BY <1>2, Found DEF IInv, Numbers, AvailableRead
<1>5. /\ Len(q[1]) \in Nat /\ n <= AvailableRead
      /\ \E o2 : Holds(data, Plus(read_pos, n), AvailableRead - n, Tail(q), o2)
  BY <1>2, <1>3, <1>4, HoldsOneLess
<1>6. n \in Nat
  BY <1>5, Sizes
<1>. HIDE DEF n
<1>7. read_pos' = Plus(read_pos, n)
  BY <1>1, <1>3 DEF n
<1>8. AvailableRead' = AvailableRead - n
  <2>1. Minus(write_pos, Plus(read_pos, n)) = Minus(write_pos, read_pos) - n
    BY <1>4, <1>5, <1>6, ReadMoves
  <2>. QED  BY <1>1, <1>4, <1>7, <2>1 DEF AvailableRead
<1>9. PICK o2 : Holds(data, Plus(read_pos, n), AvailableRead - n, Tail(q), o2)
  BY <1>5
<1>10. PICK t : t = Tail(q)
  OBVIOUS
<1>11. Holds(data', read_pos', AvailableRead', t, o2)
  BY <1>1, <1>7, <1>8, <1>9, <1>10
<1>12. ReaderKnows(t)'
  BY <1>1 DEF ReaderKnows
<1>13. Stored'
  BY <1>1, <1>11, <1>12 DEF Stored
<1>14. Contents' = t
  BY <1>1, <1>11, FoundNext
<1>15. delivered' = Queue!Copy(Head(Contents))
  <2>1. Head(q) = q[1]
    BY <1>3
  <2>. QED  BY <1>1, <1>3, <1>4, <2>1 DEF Queue!Copy, CopyLength
<1>16. Queue!Read
  BY <1>1, <1>3, <1>4, <1>10, <1>14, <1>15 DEF Queue!Read, Contents
<1>. QED  BY <1>13, <1>16 DEF QueueStep, Queue!Next

(* A step that changes nothing.                                            *)
LEMMA NothingStep ==
  ASSUME IInv, IInv', Stored, UNCHANGED vars
  PROVE  Stored' /\ QueueStep
<1>1. UNCHANGED <<data, positions, writerPc, message, accepted, readerPc, avail, msg_len,
                  buf, delivered>>
  BY DEF vars, writerVars, readerVars, readerLocals
<1>2. CASE writerPc = "reset"
  <2>1. Stored'
    BY <1>1, <1>2 DEF Stored
  <2>. QED  BY <1>1, <1>2, <2>1, Stutters DEF Contents
<1>3. CASE writerPc # "reset"
  <2>1. /\ Contents' = Contents
        /\ \E q, o : Holds(data', read_pos', AvailableRead', q, o) /\ ReaderKnows(q)'
    BY <1>1, <1>3, Keeps
  <2>2. Stored'
    BY <1>1, <1>3, <2>1 DEF Stored, positions
  <2>. QED  BY <1>1, <2>1, <2>2, Stutters
<1>. QED  BY <1>2, <1>3

(* Every step of the ring is one of the queue, or none.                    *)
LEMMA NextStored ==
  ASSUME IInv, IInv', Stored, [Next]_vars
  PROVE  Stored' /\ QueueStep
<1>1. CASE Writing
  BY <1>1, RefusedStep, BeginsStep, LengthStep, PayloadStep, PublishStep DEF Writing
<1>2. CASE readerPc = "idle" /\ Reset
  BY <1>2, ResetStep
<1>3. CASE writerPc # "reset" /\ Reading
  BY <1>3, EmptyStep, BeginsReading, ReadsLength, CopiesMessage, ReleasesMessage DEF Reading
<1>4. CASE UNCHANGED vars
  BY <1>4, NothingStep
<1>. QED  BY <1>1, <1>2, <1>3, <1>4 DEF Next

(* The ring is a first-in first-out queue of whole messages: the decode    *)
(* thread reads what the receive thread wrote, in that order, each message *)
(* once; a message is refused only for want of room, and a reset leaves    *)
(* none behind (ring_buffer.h:67-203).                                     *)
THEOREM ImplementsQueueAlways == Spec => ImplementsQueue
<1>1. Init => Stored /\ Queue!Init
  BY InitStored
<1>2. IInv /\ IInv' /\ Stored /\ [Next]_vars => Stored' /\ [Queue!Next]_(Queue!vars)
  BY NextStored DEF QueueStep
<1>. QED  BY <1>1, <1>2, IInvAlways, PTL DEF Spec, ImplementsQueue, Queue!Spec
=============================================================================
