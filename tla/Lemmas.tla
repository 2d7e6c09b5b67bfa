-------------------------------- MODULE Lemmas --------------------------------
(***************************************************************************)
(* Facts about numbers and sequences that the proofs of several components use.*)
(***************************************************************************)
EXTENDS Integers, Sequences, TLAPS

-----------------------------------------------------------------------------
(* Remainders by a modulus that is not a literal.                          *)

\* Division with remainder, for a modulus that is not a literal.
LEMMA ModDiv ==
    ASSUME NEW m \in Nat \ {0}, NEW a \in Int
    PROVE  a = m * (a \div m) + (a % m) /\ a \div m \in Int /\ a % m \in 0 .. m-1
  OBVIOUS

\* The only multiple of m strictly between -m and m is 0.
LEMMA Near ==
    ASSUME NEW m \in Nat \ {0}, NEW d \in Int, NEW x \in Int, x = m * d, -m < x, x < m
    PROVE  d = 0
<1>1. CASE d >= 1
  <2>1. m * d >= m * 1 BY <1>1
  <2> QED BY <2>1
<1>2. CASE d <= -1
  <2>1. m * d <= m * (-1) BY <1>2
  <2> QED BY <2>1
<1> QED BY <1>1, <1>2

\* The remainder is the only r below m with a = m * q + r.
LEMMA ModUnique ==
    ASSUME NEW m \in Nat \ {0}, NEW q \in Int, NEW r \in 0 .. m - 1, NEW a \in Int, a = m * q + r
    PROVE  a % m = r
<1> DEFINE p == a \div m
           s == a % m
<1>1. a = m * p + s /\ p \in Int /\ s \in 0 .. m - 1 BY ModDiv
<1>. HIDE DEF p, s
<1>2. m * (p - q) = m * p - m * q BY <1>1
<1>3. m * (p - q) = r - s BY <1>1, <1>2
<1>4. p - q = 0 BY <1>1, <1>3, Near
<1>5. m * (p - q) = 0 BY <1>4
<1> QED BY <1>1, <1>3, <1>5 DEF s

\* How a slot number follows its predecessor: one up, or back to 0.
LEMMA ModSucc ==
    ASSUME NEW m \in Nat \ {0}, NEW a \in Int
    PROVE  (a + 1) % m = IF a % m = m - 1 THEN 0 ELSE (a % m) + 1
<1> DEFINE p == a \div m
           s == a % m
<1>1. a = m * p + s /\ p \in Int /\ s \in 0 .. m - 1 BY ModDiv
<1>. HIDE DEF p, s
<1>2. CASE s = m - 1
  <2>1. m * (p + 1) = m * p + m BY <1>1
  <2>2. a + 1 = m * (p + 1) + 0 BY <1>1, <1>2, <2>1
  <2>3. (a + 1) % m = 0 BY <1>1, <2>2, ModUnique
  <2> QED BY <1>2, <2>3 DEF s
<1>3. CASE s # m - 1
  <2>1. a + 1 = m * p + (s + 1) /\ s + 1 \in 0 .. m - 1 BY <1>1, <1>3
  <2>2. (a + 1) % m = s + 1 BY <1>1, <2>1, ModUnique
  <2> QED BY <1>3, <2>2 DEF s
<1> QED BY <1>2, <1>3

\* Subtracting a multiple of m leaves the slot number alone.
LEMMA ModCancel ==
    ASSUME NEW m \in Nat \ {0}, NEW w \in Int, w % m = 0, NEW a \in Int
    PROVE  (a - w) % m = a % m
<1> DEFINE p == a \div m
           s == a % m
           k == w \div m
<1>1. a = m * p + s /\ p \in Int /\ s \in 0 .. m - 1 BY ModDiv
<1>2. w = m * k /\ k \in Int BY ModDiv
<1>. HIDE DEF p, s, k
<1>3. m * (p - k) = m * p - m * k BY <1>1, <1>2
<1>4. a - w = m * (p - k) + s BY <1>1, <1>2, <1>3
<1>5. (a - w) % m = s BY <1>1, <1>2, <1>4, ModUnique
<1> QED BY <1>5 DEF s

\* Two counters less than m apart name different slots.
LEMMA ModApart ==
    ASSUME NEW m \in Nat \ {0}, NEW a \in Int, NEW b \in Int, a < b, b - a < m
    PROVE  a % m # b % m
<1> DEFINE p == a \div m
           q == b \div m
           s == a % m
           t == b % m
<1>1. a = m * p + s /\ p \in Int /\ s \in 0 .. m - 1 BY ModDiv
<1>2. b = m * q + t /\ q \in Int /\ t \in 0 .. m - 1 BY ModDiv
<1>. HIDE DEF p, q, s, t
<1>3. SUFFICES ASSUME s = t PROVE FALSE BY DEF s, t
<1>4. m * (q - p) = m * q - m * p BY <1>1, <1>2
<1>5. m * (q - p) = b - a BY <1>1, <1>2, <1>3, <1>4
<1>6. q - p = 0 BY <1>1, <1>2, <1>5, Near
<1>7. m * (q - p) = 0 BY <1>6
<1> QED BY <1>5, <1>7

\* A remainder may be taken before a sum or after it.
LEMMA ModSum ==
    ASSUME NEW m \in Nat \ {0}, NEW a \in Int, NEW b \in Int
    PROVE  ((a % m) + b) % m = (a + b) % m
<1> DEFINE p == a \div m
           s == a % m
           x == s + b
           q == x \div m
           r == x % m
<1>1. a = m * p + s /\ p \in Int /\ s \in 0 .. m - 1 BY ModDiv
<1>. HIDE DEF p, s
<1>2. x \in Int BY <1>1
<1>. HIDE DEF x
<1>3. x = m * q + r /\ q \in Int /\ r \in 0 .. m - 1 BY <1>2, ModDiv
<1>. HIDE DEF q, r
<1>4. m * (p + q) = m * p + m * q BY <1>1, <1>3
<1>5. a + b = m * (p + q) + r BY <1>1, <1>3, <1>4 DEF x
<1>6. p + q \in Int /\ a + b \in Int BY <1>1, <1>3
<1>7. (a + b) % m = r
  <2> DEFINE y == a + b
             z == p + q
  <2>1. y \in Int /\ z \in Int /\ y = m * z + r BY <1>5, <1>6
  <2>. HIDE DEF y, z
  <2>2. y % m = r BY <1>3, <2>1, ModUnique
  <2> QED BY <2>2 DEF y
<1> QED BY <1>7 DEF r, x, s

-----------------------------------------------------------------------------
(* Queues.                                                                 *)

\* What a dequeue takes and what it leaves.
LEMMA Popped ==
    ASSUME NEW S, NEW q \in Seq(S), q # << >>
    PROVE  /\ Len(q) \in Nat \ {0} /\ q[1] \in S /\ Head(q) = q[1]
           /\ Tail(q) \in Seq(S) /\ Len(Tail(q)) = Len(q) - 1
           /\ \A i \in 1 .. Len(q) - 1 : Tail(q)[i] = q[i + 1]
<1>1. Len(q) \in Nat \ {0} OBVIOUS
<1>2. q[1] \in S BY <1>1
<1>3. Head(q) = q[1] BY <1>1
<1>4. Tail(q) \in Seq(S) /\ Len(Tail(q)) = Len(q) - 1 BY <1>1
<1>5. \A i \in 1 .. Len(q) - 1 : Tail(q)[i] = q[i + 1] BY <1>1
<1> QED BY <1>1, <1>2, <1>3, <1>4, <1>5

\* What an enqueue leaves.
LEMMA Pushed ==
    ASSUME NEW S, NEW q \in Seq(S), NEW e \in S
    PROVE  /\ Len(q) \in Nat
           /\ Append(q, e) \in Seq(S) /\ Len(Append(q, e)) = Len(q) + 1 /\ Append(q, e) # << >>
           /\ \A i \in 1 .. Len(q) : Append(q, e)[i] = q[i]
           /\ Append(q, e)[Len(q) + 1] = e
<1>1. Len(q) \in Nat /\ Append(q, e) \in Seq(S) /\ Len(Append(q, e)) = Len(q) + 1 OBVIOUS
<1>2. Append(q, e) # << >> BY <1>1
<1>3. \A i \in 1 .. Len(q) : Append(q, e)[i] = q[i] BY <1>1
<1>4. Append(q, e)[Len(q) + 1] = e BY <1>1
<1> QED BY <1>1, <1>2, <1>3, <1>4

\* What a queue holds.
LEMMA Elements ==
    ASSUME NEW S, NEW q \in Seq(S)
    PROVE  /\ Len(q) \in Nat /\ DOMAIN q = 1 .. Len(q) /\ q \in [1 .. Len(q) -> S]
           /\ \A i \in 1 .. Len(q) : i \in Nat /\ q[i] \in S
           /\ q = << >> <=> Len(q) = 0
  OBVIOUS

\* Queues of the same length with the same entries are the same.
LEMMA SameSeq ==
    ASSUME NEW S, NEW p \in Seq(S), NEW q \in Seq(S), Len(p) = Len(q),
           \A i \in 1 .. Len(p) : p[i] = q[i]
    PROVE  p = q
  OBVIOUS

\* One queue after another.
LEMMA Joined ==
    ASSUME NEW S, NEW p \in Seq(S), NEW q \in Seq(S)
    PROVE  /\ p \o q \in Seq(S) /\ Len(p \o q) = Len(p) + Len(q)
           /\ \A i \in 1 .. Len(p) + Len(q) : (p \o q)[i] = IF i <= Len(p) THEN p[i] ELSE q[i - Len(p)]
  OBVIOUS

\* What follows the first entry, as a slice.
LEMMA TailSlice ==
    ASSUME NEW S, NEW q \in Seq(S), q # << >>
    PROVE  Tail(q) = SubSeq(q, 2, Len(q))
<1>1. Len(q) \in Nat \ {0} OBVIOUS
<1> DEFINE r == SubSeq(q, 2, Len(q))
<1>2. r = [i \in 1 .. Len(q) - 1 |-> q[i + 1]] BY <1>1
<1>. HIDE DEF r
<1>3. \A i \in 1 .. Len(q) - 1 : q[i + 1] \in S BY <1>1
<1>4. r \in Seq(S) /\ Len(r) = Len(q) - 1 BY <1>1, <1>2, <1>3
<1>5. \A i \in 1 .. Len(q) - 1 : r[i] = q[i + 1] BY <1>2
<1> QED BY <1>1, <1>4, <1>5, Popped, SameSeq DEF r
=============================================================================
