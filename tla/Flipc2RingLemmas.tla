-------------------------- MODULE Flipc2RingLemmas --------------------------
(***************************************************************************)
(* Facts about the ring arithmetic of module Flipc2Ring, for every ring    *)
(* size and word width that satisfy RingAssumption.                        *)
(***************************************************************************)
EXTENDS Flipc2Ring, Sequences, TLAPS

\* Euclidean division.
LEMMA DivMod ==
  ASSUME NEW a \in Nat, NEW r \in Nat \ {0}
  PROVE  /\ a \div r \in Nat
         /\ a % r \in 0 .. r - 1
         /\ a = r * (a \div r) + (a % r)
  BY Z3

\* A positive multiple of r is at least r.
LEMMA MultipleAtLeast ==
  ASSUME NEW r \in Nat \ {0}, NEW k \in Int, r * k > 0
  PROVE  r * k >= r
<1>1. CASE k <= 0
  BY <1>1, Z3
<1>2. CASE k >= 1
  BY <1>2, Z3
<1> QED
  BY <1>1, <1>2

LEMMA MultipleDifference ==
  ASSUME NEW r \in Nat \ {0}, NEW p \in Int, NEW q \in Int
  PROVE  r * p - r * q = r * (p - q)
  BY Z3

\* Two numbers less than r apart fall into different residues.
LEMMA ResiduesDiffer ==
  ASSUME NEW r \in Nat \ {0}, NEW a \in Nat, NEW b \in Nat, a < b, b - a < r
  PROVE  a % r # b % r
<1> SUFFICES ASSUME a % r = b % r PROVE FALSE
  OBVIOUS
<1> DEFINE p == b \div r
           q == a \div r
<1>1. /\ p \in Nat /\ q \in Nat
      /\ a = r * q + (a % r) /\ b = r * p + (b % r)
      /\ a % r \in 0 .. r - 1
  BY DivMod
<1> HIDE DEF p, q
<1>2. r * p \in Int /\ r * q \in Int
  BY <1>1
<1>3. b - a = r * p - r * q
  BY <1>1, <1>2
<1>4. r * p - r * q = r * (p - q)
  BY <1>1, MultipleDifference
<1>5. r * (p - q) > 0 /\ r * (p - q) < r
  BY <1>3, <1>4
<1> QED
  BY <1>1, <1>5, MultipleAtLeast

\* Adding a multiple of r does not change the residue.
LEMMA ResidueOfSum ==
  ASSUME NEW r \in Nat \ {0}, NEW m \in Nat, m % r = 0, NEW a \in Nat
  PROVE  (a + m) % r = a % r
<1> DEFINE s == a + m
           k == m \div r
           p == s \div r
           q == a \div r
           x == a % r
           y == s % r
<1>1. k \in Nat /\ m = r * k
  BY DivMod
<1>2. s \in Nat
  OBVIOUS
<1>3. q \in Nat /\ x \in 0 .. r - 1 /\ a = r * q + x
  BY DivMod
<1>4. p \in Nat /\ y \in 0 .. r - 1 /\ s = r * p + y
  BY DivMod, <1>2
<1>5. s = a + m
  OBVIOUS
<1> SUFFICES x = y
  OBVIOUS
<1> HIDE DEF s, k, p, q, x, y
<1>6. r * p \in Int /\ r * q \in Int /\ r * k \in Int
  BY <1>1, <1>3, <1>4
<1>7. y - x = (r * q - r * p) + r * k
  BY <1>1, <1>3, <1>4, <1>5, <1>6
<1>8. (r * q - r * p) + r * k = r * (q - p + k)
  BY <1>1, <1>3, <1>4, Z3
<1>9. r * (p - q - k) = -(r * (q - p + k))
  BY <1>1, <1>3, <1>4, Z3
<1>10. ~(r * (q - p + k) > 0)
  BY MultipleAtLeast, <1>7, <1>8, <1>1, <1>3, <1>4
<1>11. ~(r * (p - q - k) > 0)
  BY MultipleAtLeast, <1>9, <1>7, <1>8, <1>1, <1>3, <1>4
<1> QED
  BY <1>7, <1>8, <1>9, <1>10, <1>11, <1>3, <1>4

\* The distance between two counters, without the modulus.
LEMMA CountValue ==
  \A a, b \in Word : flipc2_ring_count(a, b) = IF a >= b THEN a - b
                                                         ELSE a - b + WORD
  BY RingAssumption, Z3 DEF Word, flipc2_ring_count

\* A counter advanced by less than a full turn, without the modulus.
LEMMA AddValue ==
  \A a \in Word, n \in 0 .. RING_ENTRIES :
    Add(a, n) = IF a + n < WORD THEN a + n ELSE a + n - WORD
  BY RingAssumption, Z3 DEF Word, Add

\* The free space that a producer computes, in terms of the distance.
LEMMA FreeValue ==
  \A t, h \in Word :
    flipc2_ring_free(t, h) =
      IF flipc2_ring_count(t, h) <= RING_ENTRIES
      THEN RING_ENTRIES - flipc2_ring_count(t, h)
      ELSE RING_ENTRIES - flipc2_ring_count(t, h) + WORD
<1> TAKE t, h \in Word
<1>1. flipc2_ring_free(t, h) = (RING_ENTRIES - (t - h)) % WORD
  BY DEF flipc2_ring_free
<1>2. flipc2_ring_count(t, h) = IF t >= h THEN t - h ELSE t - h + WORD
  BY CountValue
<1> QED
  BY <1>1, <1>2, RingAssumption, Z3 DEF Word

\* Both stay within the word.
LEMMA WordClosed ==
  /\ \A a, b \in Word : flipc2_ring_count(a, b) \in Word
  /\ \A a \in Word, n \in 0 .. RING_ENTRIES : Add(a, n) \in Word
<1>1. ASSUME NEW a \in Word, NEW b \in Word
      PROVE  flipc2_ring_count(a, b) \in Word
  <2>1. flipc2_ring_count(a, b) = IF a >= b THEN a - b ELSE a - b + WORD
    BY CountValue
  <2> QED
    BY <2>1, RingAssumption DEF Word
<1>2. ASSUME NEW a \in Word, NEW n \in 0 .. RING_ENTRIES
      PROVE  Add(a, n) \in Word
  <2>1. Add(a, n) = IF a + n < WORD THEN a + n ELSE a + n - WORD
    BY AddValue
  <2> QED
    BY <2>1, RingAssumption DEF Word
<1> QED
  BY <1>1, <1>2

\* The slot of a counter is a slot of the ring.
LEMMA IdxInSlots ==
  \A w \in Word : flipc2_ring_idx(w) \in Slots
<1> TAKE w \in Word
<1>1. w \in Nat /\ RING_ENTRIES \in Nat \ {0}
  BY RingAssumption DEF Word
<1> QED
  BY <1>1, DivMod DEF flipc2_ring_idx, Slots

\* Counters less than a ring apart have different slots, also when the later
\* one has wrapped.
LEMMA IdxDiffer ==
  \A a, b \in Word :
    flipc2_ring_count(a, b) \in 1 .. RING_ENTRIES - 1
      => flipc2_ring_idx(a) # flipc2_ring_idx(b)
<1> TAKE a, b \in Word
<1> HAVE flipc2_ring_count(a, b) \in 1 .. RING_ENTRIES - 1
<1>1. a \in Nat /\ b \in Nat /\ WORD \in Nat /\ RING_ENTRIES \in Nat \ {0}
  BY RingAssumption DEF Word
<1>2. CASE a >= b
  <2>1. b < a /\ a - b < RING_ENTRIES
    BY <1>1, <1>2, CountValue
  <2> QED
    BY <1>1, <2>1, ResiduesDiffer DEF flipc2_ring_idx
<1>3. CASE ~(a >= b)
  <2>1. a + WORD \in Nat /\ b < a + WORD /\ (a + WORD) - b < RING_ENTRIES
    BY <1>1, <1>3, CountValue DEF Word
  <2>2. b % RING_ENTRIES # (a + WORD) % RING_ENTRIES
    BY <1>1, <2>1, ResiduesDiffer
  <2>3. (a + WORD) % RING_ENTRIES = a % RING_ENTRIES
    BY <1>1, RingAssumption, ResidueOfSum
  <2> QED
    BY <2>2, <2>3 DEF flipc2_ring_idx
<1> QED
  BY <1>2, <1>3

\* Distances from a common origin c: their difference, a change of origin, an
\* advance by n, and that they identify the counter.
LEMMA CountDifference ==
  \A a, b, c \in Word :
    flipc2_ring_count(b, c) <= flipc2_ring_count(a, c) =>
      flipc2_ring_count(a, b) =
        flipc2_ring_count(a, c) - flipc2_ring_count(b, c)
<1> TAKE a, b, c \in Word
<1>1. /\ flipc2_ring_count(b, c) = IF b >= c THEN b - c ELSE b - c + WORD
      /\ flipc2_ring_count(a, c) = IF a >= c THEN a - c ELSE a - c + WORD
      /\ flipc2_ring_count(a, b) = IF a >= b THEN a - b ELSE a - b + WORD
  BY CountValue
<1> QED
  BY <1>1, RingAssumption DEF Word

LEMMA CountBehind ==
  \A a, b, c \in Word :
    flipc2_ring_count(a, c) < flipc2_ring_count(b, c) =>
      flipc2_ring_count(a, b) =
        flipc2_ring_count(a, c) - flipc2_ring_count(b, c) + WORD
<1> TAKE a, b, c \in Word
<1>1. /\ flipc2_ring_count(b, c) = IF b >= c THEN b - c ELSE b - c + WORD
      /\ flipc2_ring_count(a, c) = IF a >= c THEN a - c ELSE a - c + WORD
      /\ flipc2_ring_count(a, b) = IF a >= b THEN a - b ELSE a - b + WORD
  BY CountValue
<1> QED
  BY <1>1, RingAssumption DEF Word

LEMMA CountAdvance ==
  \A a, c \in Word, n \in 0 .. RING_ENTRIES :
    flipc2_ring_count(a, c) + n < WORD =>
      flipc2_ring_count(Add(a, n), c) = flipc2_ring_count(a, c) + n
<1> TAKE a, c \in Word, n \in 0 .. RING_ENTRIES
<1>1. Add(a, n) \in Word
  BY WordClosed
<1> DEFINE b == Add(a, n)
<1>2. /\ b = IF a + n < WORD THEN a + n ELSE a + n - WORD
      /\ flipc2_ring_count(a, c) = IF a >= c THEN a - c ELSE a - c + WORD
      /\ flipc2_ring_count(b, c) = IF b >= c THEN b - c ELSE b - c + WORD
  BY <1>1, CountValue, AddValue
<1> QED
  BY <1>1, <1>2, RingAssumption DEF Word

LEMMA CountInjective ==
  \A a, b, c \in Word :
    flipc2_ring_count(a, c) = flipc2_ring_count(b, c) => a = b
<1> TAKE a, b, c \in Word
<1>1. /\ flipc2_ring_count(b, c) = IF b >= c THEN b - c ELSE b - c + WORD
      /\ flipc2_ring_count(a, c) = IF a >= c THEN a - c ELSE a - c + WORD
  BY CountValue
<1> QED
  BY <1>1, RingAssumption DEF Word

LEMMA CountSelf ==
  \A a \in Word : flipc2_ring_count(a, a) = 0
<1> TAKE a \in Word
<1>1. flipc2_ring_count(a, a) = a - a
  BY CountValue DEF Word
<1> QED
  BY <1>1, RingAssumption DEF Word

-----------------------------------------------------------------------------
(* The queue between two counters. *)

\* The descriptors from h up to t, by number.
Numbers(t, h) == [i \in 1 .. flipc2_ring_count(t, h) |-> Add(h, i - 1)]

\* n descriptors after h comes a word n away from it.
LEMMA CountOffset ==
  ASSUME NEW h \in Word, NEW n \in 0 .. RING_ENTRIES
  PROVE  Add(h, n) \in Word /\ flipc2_ring_count(Add(h, n), h) = n
<1>1. flipc2_ring_count(h, h) = 0 /\ n < WORD
  BY CountSelf, RingAssumption
<1> QED
  BY <1>1, CountAdvance, WordClosed

\* Two advances are one.
LEMMA AddTwice ==
  ASSUME NEW h \in Word, NEW m \in Nat, NEW n \in Nat, m + n <= RING_ENTRIES
  PROVE  Add(Add(h, m), n) = Add(h, m + n)
<1>1. m \in 0 .. RING_ENTRIES /\ n \in 0 .. RING_ENTRIES
      /\ m + n \in 0 .. RING_ENTRIES
  BY RingAssumption
<1>2. Add(h, m) \in Word
  BY <1>1, WordClosed
<1> DEFINE a == Add(h, m)
           b == Add(h, m + n)
           c == Add(a, n)
<1>3. /\ a = IF h + m < WORD THEN h + m ELSE h + m - WORD
      /\ b = IF h + (m + n) < WORD THEN h + (m + n) ELSE h + (m + n) - WORD
      /\ c = IF a + n < WORD THEN a + n ELSE a + n - WORD
  BY <1>1, <1>2, AddValue
<1> HIDE DEF a, b, c
<1>4. b = c
  BY <1>1, <1>3, RingAssumption DEF Word
<1> QED
  BY <1>4 DEF a, b, c

\* A published descriptor is the next one of the queue.
LEMMA NumbersAppend ==
  ASSUME NEW t \in Word, NEW h \in Word, flipc2_ring_count(t, h) < RING_ENTRIES
  PROVE  Numbers(Add(t, 1), h) = Append(Numbers(t, h), t)
<1> DEFINE n == flipc2_ring_count(t, h)
<1>1. /\ n \in Nat /\ n + 1 < WORD
      /\ 1 \in 0 .. RING_ENTRIES /\ n \in 0 .. RING_ENTRIES
  <2>1. n \in Word
    BY WordClosed
  <2> HIDE DEF n
  <2>2. n < RING_ENTRIES
    BY DEF n
  <2> QED
    BY <2>1, <2>2, RingAssumption DEF Word
<1>2. flipc2_ring_count(Add(t, 1), h) = n + 1
  BY <1>1, CountAdvance
<1>3. Add(h, n) = t
  <2>1. Add(h, n) \in Word /\ flipc2_ring_count(Add(h, n), h) = n
    BY <1>1, CountOffset
  <2> QED
    BY <2>1, CountInjective
<1> HIDE DEF n
<1>4. Numbers(t, h) = [i \in 1 .. n |-> Add(h, i - 1)]
  BY DEF Numbers, n
<1>5. Numbers(Add(t, 1), h) = [i \in 1 .. n + 1 |-> Add(h, i - 1)]
  BY <1>2 DEF Numbers
<1>6. Add(h, (n + 1) - 1) = t
  BY <1>1, <1>3
<1>7. Append(Numbers(t, h), t) =
        [i \in 1 .. n + 1 |-> IF i = n + 1 THEN t ELSE Add(h, i - 1)]
  BY <1>1, <1>4
<1> QED
  BY <1>1, <1>5, <1>6, <1>7

\* A release of m descriptors takes the first m of the queue.
LEMMA NumbersSubSeq ==
  ASSUME NEW t \in Word, NEW h \in Word,
         flipc2_ring_count(t, h) <= RING_ENTRIES,
         NEW m \in 1 .. flipc2_ring_count(t, h)
  PROVE  Numbers(t, Add(h, m)) =
           SubSeq(Numbers(t, h), m + 1, flipc2_ring_count(t, h))
<1> DEFINE n == flipc2_ring_count(t, h)
<1>1. n \in Nat /\ RING_ENTRIES \in Nat /\ m \in Nat /\ m <= n
      /\ m \in 0 .. RING_ENTRIES
  BY WordClosed, RingAssumption DEF Word
<1>2. flipc2_ring_count(Add(h, m), h) = m /\ Add(h, m) \in Word
  BY <1>1, CountOffset
<1>3. flipc2_ring_count(t, Add(h, m)) = n - m
  BY <1>1, <1>2, CountDifference
<1> HIDE DEF n
<1>4. \A i \in 1 .. n - m : Add(Add(h, m), i - 1) = Add(h, (i + m) - 1)
  <2> TAKE i \in 1 .. n - m
  <2>1. i - 1 \in Nat /\ m + (i - 1) <= RING_ENTRIES /\ m + (i - 1) = (i + m) - 1
    BY <1>1 DEF n
  <2> QED
    BY <1>1, <2>1, AddTwice
<1>5. Numbers(t, h) = [i \in 1 .. n |-> Add(h, i - 1)]
  BY DEF Numbers, n
<1>6. Numbers(t, Add(h, m)) = [i \in 1 .. n - m |-> Add(h, (i + m) - 1)]
  BY <1>3, <1>4 DEF Numbers
<1>7. SubSeq(Numbers(t, h), m + 1, n) =
        [i \in 1 .. n - m |-> Numbers(t, h)[i + m]]
  BY <1>1
<1>8. \A i \in 1 .. n - m : Numbers(t, h)[i + m] = Add(h, (i + m) - 1)
  BY <1>1, <1>5
<1> QED
  BY <1>6, <1>7, <1>8 DEF n
=============================================================================
