----------------------------- MODULE SpscProofs -----------------------------
(***************************************************************************)
(* Proofs about one lerux-sddf queue, for every word width and capacity.   *)
(***************************************************************************)
EXTENDS Spsc, Lemmas, TLAPS

-----------------------------------------------------------------------------
(* Type correctness.                                                       *)

\* Every step keeps the counters machine words and the slots items.
LEMMA TypeKept ==
    ASSUME RingTypeOK, [RingNext]_ring
    PROVE  RingTypeOK'
<1> USE WordAssumption, CapacityAssumption, ItemAssumption
<1>0. \A c \in Cursor : advance(c) \in Cursor
  BY ModDiv DEF advance, Cursor
<1>1. \A c \in Cursor : index(c) \in 0 .. Capacity - 1
  BY ModDiv DEF index, Cursor
<1>2. ASSUME NEW i \in Item, NEW f \in Form, EnqueueCheck(i, f) PROVE RingTypeOK'
  BY <1>2 DEF RingTypeOK, EnqueueCheck, consumer
<1>3. CASE EnqueueWrite
  BY <1>0, <1>1, <1>3 DEF RingTypeOK, EnqueueWrite, consumer
<1>4. CASE EnqueuePublish
  BY <1>4 DEF RingTypeOK, EnqueuePublish, consumer
<1>5. CASE UpdateSharedTail
  BY <1>5 DEF RingTypeOK, UpdateSharedTail, consumer, producer
<1>6. CASE DequeueCheck
  BY <1>6 DEF RingTypeOK, DequeueCheck, producer
<1>7. CASE DequeueRead
  BY <1>1, <1>7 DEF RingTypeOK, DequeueRead, producer
<1>8. CASE DequeuePublish
  BY <1>0, <1>8 DEF RingTypeOK, DequeuePublish, producer
<1>9. CASE UNCHANGED ring
  BY <1>9 DEF RingTypeOK, ring, producer, consumer
<1> QED
  BY <1>2, <1>3, <1>4, <1>5, <1>6, <1>7, <1>8, <1>9 DEF RingNext, Produce, Consume

\* Every counter stays a machine word and every slot holds an item.
THEOREM TypeCorrect == RingSpec => []RingTypeOK
<1>1. RingInit => RingTypeOK
  BY WordAssumption, CapacityAssumption, ItemAssumption DEF RingInit, RingTypeOK, Cursor
<1> QED
  BY <1>1, TypeKept, PTL DEF RingSpec

-----------------------------------------------------------------------------
(* The counters as numbers.                                                *)

\* The distance of two counters, without the remainder.
LEMMA LenValue ==
    ASSUME NEW a \in Cursor, NEW b \in Cursor
    PROVE  len(b, a) = (IF b >= a THEN b - a ELSE b - a + Word) /\ len(b, a) \in 0 .. Word - 1
<1> USE WordAssumption DEF Cursor
<1>1. CASE b >= a
  <2>1. b - a = Word * 0 + (b - a) /\ b - a \in 0 .. Word - 1 BY <1>1
  <2>2. (b - a) % Word = b - a BY <2>1, ModUnique
  <2> QED BY <1>1, <2>1, <2>2 DEF len
<1>2. CASE b < a
  <2>1. b - a = Word * (-1) + (b - a + Word) /\ b - a + Word \in 0 .. Word - 1 BY <1>2
  <2>2. (b - a) % Word = b - a + Word BY <2>1, ModUnique
  <2> QED BY <1>2, <2>1, <2>2 DEF len
<1> QED BY <1>1, <1>2

\* A counter k places on, without the remainder.
LEMMA PlaceValue ==
    ASSUME NEW a \in Cursor, NEW k \in 0 .. Word - 1
    PROVE  (a + k) % Word = (IF a + k < Word THEN a + k ELSE a + k - Word)
           /\ (a + k) % Word \in Cursor
<1> USE WordAssumption DEF Cursor
<1>1. CASE a + k < Word
  <2>1. a + k = Word * 0 + (a + k) /\ a + k \in 0 .. Word - 1 BY <1>1
  <2>2. (a + k) % Word = a + k BY <2>1, ModUnique
  <2> QED BY <1>1, <2>1, <2>2
<1>2. CASE a + k >= Word
  <2>1. a + k = Word * 1 + (a + k - Word) /\ a + k - Word \in 0 .. Word - 1 BY <1>2
  <2>2. (a + k) % Word = a + k - Word BY <2>1, ModUnique
  <2> QED BY <1>2, <2>1, <2>2
<1> QED BY <1>1, <1>2

\* advance, without the remainder.
LEMMA AdvanceValue ==
    ASSUME NEW a \in Cursor
    PROVE  advance(a) = (IF a = Word - 1 THEN 0 ELSE a + 1) /\ advance(a) \in Cursor
<1>1. CASE Word = 1
  <2>1. a = 0 /\ 1 = Word * 1 + 0 BY <1>1 DEF Cursor
  <2>2. 1 % Word = 0 BY <1>1, <2>1, ModUnique
  <2> QED BY <1>1, <2>1, <2>2 DEF advance, Cursor
<1>2. CASE Word # 1
  <2>1. 1 \in 0 .. Word - 1 BY <1>2, WordAssumption
  <2>2. advance(a) = (IF a + 1 < Word THEN a + 1 ELSE a + 1 - Word) /\ advance(a) \in Cursor
    BY <2>1, PlaceValue DEF advance
  <2> QED BY <2>2, WordAssumption DEF Cursor
<1> QED BY <1>1, <1>2

\* No distance: the same counter.
LEMMA LenZero ==
    ASSUME NEW a \in Cursor, NEW b \in Cursor
    PROVE  len(b, a) = 0 <=> a = b
<1>1. len(b, a) = (IF b >= a THEN b - a ELSE b - a + Word) BY LenValue
<1> QED BY <1>1, WordAssumption DEF Cursor

\* A distance leads from the one counter to the other.
LEMMA Distance ==
    ASSUME NEW a \in Cursor, NEW b \in Cursor, NEW n \in 0 .. Word - 1, n = len(b, a)
    PROVE  (a + n) % Word = b /\ (b = a + n \/ b = (a + n) - Word)
<1>1. n = (IF b >= a THEN b - a ELSE b - a + Word) BY LenValue
<1>2. (a + n) % Word = (IF a + n < Word THEN a + n ELSE a + n - Word) BY PlaceValue
<1>3. b = (IF a + n < Word THEN a + n ELSE a + n - Word) BY <1>1, WordAssumption DEF Cursor
<1> QED BY <1>2, <1>3, WordAssumption DEF Cursor

\* Advancing the tail adds one to the distance ...
LEMMA LenUp ==
    ASSUME NEW a \in Cursor, NEW b \in Cursor, len(b, a) < Word - 1
    PROVE  len(advance(b), a) = len(b, a) + 1
<1> DEFINE c == advance(b)
<1>1. c = (IF b = Word - 1 THEN 0 ELSE b + 1) /\ c \in Cursor BY AdvanceValue
<1>. HIDE DEF c
<1>2. len(b, a) = (IF b >= a THEN b - a ELSE b - a + Word) BY LenValue
<1>3. len(c, a) = (IF c >= a THEN c - a ELSE c - a + Word) BY <1>1, LenValue
<1>4. len(c, a) = len(b, a) + 1 BY <1>1, <1>2, <1>3, WordAssumption DEF Cursor
<1> QED BY <1>4 DEF c

\* ... and advancing the head takes one from it.
LEMMA LenDown ==
    ASSUME NEW a \in Cursor, NEW b \in Cursor, a # b
    PROVE  len(b, advance(a)) = len(b, a) - 1
<1> DEFINE c == advance(a)
<1>1. c = (IF a = Word - 1 THEN 0 ELSE a + 1) /\ c \in Cursor BY AdvanceValue
<1>. HIDE DEF c
<1>2. len(b, a) = (IF b >= a THEN b - a ELSE b - a + Word) BY LenValue
<1>3. len(b, c) = (IF b >= c THEN b - c ELSE b - c + Word) BY <1>1, LenValue
<1>4. len(b, c) = len(b, a) - 1 BY <1>1, <1>2, <1>3, WordAssumption DEF Cursor
<1> QED BY <1>4 DEF c

\* With a capacity that divides the word, the slot of a counter k places on is
\* the slot k places on: the wrap of the word is not seen by the slots.
LEMMA SlotOf ==
    ASSUME Word % Capacity = 0, NEW a \in Cursor, NEW k \in 0 .. Word - 1
    PROVE  index((a + k) % Word) = (a + k) % Capacity
<1>1. Capacity \in Nat \ {0} /\ Word \in Int /\ a + k \in Int
  BY WordAssumption, CapacityAssumption DEF Cursor
<1>2. ((a + k) - Word) % Capacity = (a + k) % Capacity
  <2> DEFINE b == a + k
  <2>1. b \in Int BY <1>1
  <2>. HIDE DEF b
  <2>2. (b - Word) % Capacity = b % Capacity BY <1>1, <2>1, ModCancel, Zenon
  <2> QED BY <2>2, Zenon DEF b
<1>3. (a + k) % Word = a + k \/ (a + k) % Word = (a + k) - Word
  <2>1. a + k - Word = (a + k) - Word BY WordAssumption DEF Cursor
  <2> QED BY <2>1, PlaceValue
<1> QED BY <1>2, <1>3 DEF index

-----------------------------------------------------------------------------
(* The slots from a place on, as a sequence.                               *)

\* n slots of sl from the slot of place a on.
Slots(sl, a, n) == [i \in 1 .. n |-> sl[(a + i - 1) % Capacity]]

SlotArray == [0 .. Capacity - 1 -> Item]

\* sl2 is sl with x written to the slot of place p.
Wrote(sl, sl2, p, x) == /\ sl2[p % Capacity] = x
                        /\ \A j \in 0 .. Capacity - 1 : j # p % Capacity => sl2[j] = sl[j]

\* What Slots is: a sequence of n items.
LEMMA SlotsSeq ==
    ASSUME NEW sl \in SlotArray, NEW a \in Int, NEW n \in Nat
    PROVE  /\ Slots(sl, a, n) \in Seq(Item) /\ Len(Slots(sl, a, n)) = n
           /\ \A i \in 1 .. n : Slots(sl, a, n)[i] = sl[(a + i - 1) % Capacity]
<1>1. \A i \in 1 .. n : (a + i - 1) % Capacity \in 0 .. Capacity - 1
  <2> SUFFICES ASSUME NEW i \in 1 .. n PROVE (a + i - 1) % Capacity \in 0 .. Capacity - 1
    OBVIOUS
  <2> DEFINE b == a + i - 1
  <2>1. b \in Int /\ Capacity \in Nat \ {0} BY CapacityAssumption, WordAssumption
  <2>. HIDE DEF b
  <2>2. b % Capacity \in 0 .. Capacity - 1 BY <2>1, ModDiv
  <2> QED BY <2>2 DEF b
<1>2. \A i \in 1 .. n : sl[(a + i - 1) % Capacity] \in Item
  BY <1>1, Zenon DEF SlotArray
<1> QED BY <1>2 DEF Slots

\* A window between two counters is such a sequence.
LEMMA WindowIs ==
    ASSUME Word % Capacity = 0, NEW a \in Cursor, NEW b \in Cursor, NEW sl
    PROVE  [i \in 1 .. len(b, a) |-> sl[index((a + i - 1) % Word)]] = Slots(sl, a, len(b, a))
<1>1. len(b, a) \in 0 .. Word - 1 BY LenValue
<1>2. \A i \in 1 .. len(b, a) : index((a + i - 1) % Word) = (a + i - 1) % Capacity
  <2> SUFFICES ASSUME NEW i \in 1 .. len(b, a)
               PROVE  index((a + i - 1) % Word) = (a + i - 1) % Capacity
    OBVIOUS
  <2> DEFINE k == i - 1
  <2>0. PICK m \in 0 .. Word - 1 : m = len(b, a) BY <1>1
  <2>1. k \in 0 .. Word - 1 BY <2>0, WordAssumption
  <2>2. a + i - 1 = a + k BY WordAssumption DEF Cursor
  <2>. HIDE DEF k
  <2>3. index((a + k) % Word) = (a + k) % Capacity BY <2>1, SlotOf
  <2> QED BY <2>2, <2>3
<1> QED BY <1>2 DEF Slots

\* Places that agree modulo the capacity name the same slots.
LEMMA SlotsCongruent ==
    ASSUME NEW sl \in SlotArray, NEW a \in Int, NEW b \in Int, NEW n \in Nat,
           a = b \/ a = b - Word, Word % Capacity = 0
    PROVE  Slots(sl, a, n) = Slots(sl, b, n)
<1>1. CASE a = b - Word
  <2>1. \A i \in 1 .. n : (a + i - 1) % Capacity = (b + i - 1) % Capacity
    <3> SUFFICES ASSUME NEW i \in 1 .. n PROVE (a + i - 1) % Capacity = (b + i - 1) % Capacity
      OBVIOUS
    <3> DEFINE c == b + i - 1
    <3>1. c \in Int /\ Capacity \in Nat \ {0} /\ Word \in Int /\ a + i - 1 = c - Word
      BY <1>1, CapacityAssumption, WordAssumption
    <3>. HIDE DEF c
    <3>2. (c - Word) % Capacity = c % Capacity BY <3>1, ModCancel, Zenon
    <3> QED BY <3>1, <3>2 DEF c
  <2> QED BY <2>1, Zenon DEF Slots
<1> QED BY <1>1

\* The slot after n others is none of them.
LEMMA SlotsApart ==
    ASSUME NEW a \in Int, NEW n \in Nat, n < Capacity
    PROVE  \A i \in 1 .. n : /\ (a + i - 1) % Capacity \in 0 .. Capacity - 1
                             /\ (a + i - 1) % Capacity # (a + n) % Capacity
<1> SUFFICES ASSUME NEW i \in 1 .. n
             PROVE  /\ (a + i - 1) % Capacity \in 0 .. Capacity - 1
                    /\ (a + i - 1) % Capacity # (a + n) % Capacity
  OBVIOUS
<1> DEFINE b == a + i - 1
           c == a + n
<1>1. Capacity \in Nat \ {0} /\ b \in Int /\ c \in Int /\ b < c /\ c - b < Capacity
  BY CapacityAssumption, WordAssumption
<1>. HIDE DEF b, c
<1>2. b % Capacity # c % Capacity /\ b % Capacity \in 0 .. Capacity - 1
  BY <1>1, ModApart, ModDiv, Zenon
<1> QED BY <1>2 DEF b, c

\* Writing the slot after the last extends the sequence by the item written.
LEMMA SlotsAppend ==
    ASSUME NEW sl \in SlotArray, NEW a \in Int, NEW n \in Nat, n < Capacity, NEW x \in Item,
           NEW sl2 \in SlotArray, Wrote(sl, sl2, a + n, x)
    PROVE  Slots(sl2, a, n + 1) = Append(Slots(sl, a, n), x)
<1> DEFINE w == (a + n) % Capacity
           s == Slots(sl, a, n)
           t == Slots(sl2, a, n + 1)
<1>0. Capacity \in Nat \ {0} /\ a + n \in Int BY CapacityAssumption, WordAssumption
<1>1. w \in 0 .. Capacity - 1 BY <1>0, ModDiv
<1>2. \A i \in 1 .. n : (a + i - 1) % Capacity # w
  BY SlotsApart, Zenon
<1>4. \A j \in 0 .. Capacity - 1 : sl2[j] = IF j = w THEN x ELSE sl[j] BY <1>1 DEF Wrote
<1>. HIDE DEF w
<1>5. s \in Seq(Item) /\ Len(s) = n /\ \A i \in 1 .. n : s[i] = sl[(a + i - 1) % Capacity]
  BY SlotsSeq
<1>6. t \in Seq(Item) /\ Len(t) = n + 1
      /\ \A i \in 1 .. n + 1 : t[i] = sl2[(a + i - 1) % Capacity]
  BY SlotsSeq, n + 1 \in Nat
<1>7. \A i \in 1 .. n : (a + i - 1) % Capacity \in 0 .. Capacity - 1
  BY SlotsApart
<1>8. \A i \in 1 .. n : t[i] = s[i]
  <2> SUFFICES ASSUME NEW i \in 1 .. n PROVE t[i] = s[i]
    OBVIOUS
  <2> DEFINE j == (a + i - 1) % Capacity
  <2>1. t[i] = sl2[j] /\ s[i] = sl[j] /\ j # w /\ j \in 0 .. Capacity - 1
    <3>1. i \in 1 .. n + 1 OBVIOUS
    <3>. HIDE DEF s, t
    <3> QED BY <1>2, <1>5, <1>6, <1>7, <3>1, Zenon
  <2>. HIDE DEF j, s, t
  <2> QED BY <1>4, <2>1
<1>9. t[n + 1] = x
  <2>1. a + (n + 1) - 1 = a + n BY <1>0
  <2>a. n + 1 \in 1 .. n + 1 OBVIOUS
  <2>2. t[n + 1] = sl2[(a + (n + 1) - 1) % Capacity] BY <1>6, <2>a, Zenon
  <2>3. t[n + 1] = sl2[w] BY <2>1, <2>2, Zenon DEF w
  <2> QED BY <1>1, <1>4, <2>3
<1>. HIDE DEF s, t
<1>10. Append(s, x) \in Seq(Item) /\ Len(Append(s, x)) = n + 1
       /\ (\A i \in 1 .. n : Append(s, x)[i] = s[i]) /\ Append(s, x)[n + 1] = x
  BY <1>5, Pushed
<1>11. \A i \in 1 .. n + 1 : t[i] = Append(s, x)[i]
  BY <1>8, <1>9, <1>10
<1>12. t = Append(s, x)
  BY <1>6, <1>10, <1>11, SameSeq
<1> QED BY <1>12 DEF s, t

\* Two runs of slots, one after the other.
LEMMA SlotsConcat ==
    ASSUME NEW sl \in SlotArray, NEW a \in Int, NEW m \in Nat, NEW n \in Nat
    PROVE  Slots(sl, a, m) \o Slots(sl, a + m, n) = Slots(sl, a, m + n)
<1> DEFINE s == Slots(sl, a, m)
           t == Slots(sl, a + m, n)
           u == Slots(sl, a, m + n)
<1>1. s \in Seq(Item) /\ Len(s) = m /\ \A i \in 1 .. m : s[i] = sl[(a + i - 1) % Capacity]
  BY SlotsSeq
<1>2. t \in Seq(Item) /\ Len(t) = n /\ \A i \in 1 .. n : t[i] = sl[((a + m) + i - 1) % Capacity]
  BY SlotsSeq, a + m \in Int
<1>3. u \in Seq(Item) /\ Len(u) = m + n
      /\ \A i \in 1 .. m + n : u[i] = sl[(a + i - 1) % Capacity]
  BY SlotsSeq, m + n \in Nat
<1>. HIDE DEF s, t, u
<1>4. s \o t \in Seq(Item) /\ Len(s \o t) = m + n
      /\ \A i \in 1 .. m + n : (s \o t)[i] = IF i <= m THEN s[i] ELSE t[i - m]
  <2>1. s \in Seq(Item) /\ t \in Seq(Item) /\ Len(s) = m /\ Len(t) = n
    BY <1>1, <1>2, Zenon
  <2>2. /\ s \o t \in Seq(Item)
        /\ Len(s \o t) = Len(s) + Len(t)
        /\ \A i \in 1 .. Len(s) + Len(t) :
             (s \o t)[i] = IF i <= Len(s) THEN s[i] ELSE t[i - Len(s)]
    BY <2>1, Joined, Zenon
  <2> QED BY <2>1, <2>2, Zenon
<1>5. \A i \in 1 .. m + n : (s \o t)[i] = u[i]
  <2> SUFFICES ASSUME NEW i \in 1 .. m + n PROVE (s \o t)[i] = u[i]
    OBVIOUS
  <2>1. CASE i <= m
    <3>1. i \in 1 .. m BY <2>1
    <3>2. (s \o t)[i] = s[i] BY <1>4, <2>1
    <3> QED BY <1>1, <1>3, <3>1, <3>2, Zenon
  <2>2. CASE i > m
    <3>1. i - m \in 1 .. n /\ (a + m) + (i - m) - 1 = a + i - 1 BY <2>2
    <3>2. t[i - m] = sl[((a + m) + (i - m) - 1) % Capacity] BY <1>2, <3>1
    <3>3. (s \o t)[i] = t[i - m] BY <1>4, <2>2
    <3>4. u[i] = sl[(a + i - 1) % Capacity] BY <1>3
    <3>5. sl[((a + m) + (i - m) - 1) % Capacity] = sl[(a + i - 1) % Capacity] BY <3>1
    <3> QED BY <3>2, <3>3, <3>4, <3>5, Zenon
  <2>3. i <= m \/ i > m OBVIOUS
  <2> QED BY <2>1, <2>2, <2>3, Zenon
<1>6. s \o t = u
  BY <1>3, <1>4, <1>5, SameSeq, Zenon
<1> QED BY <1>6 DEF s, t, u

\* The first of a run of slots and the others.
LEMMA SlotsHeadTail ==
    ASSUME NEW sl \in SlotArray, NEW a \in Int, NEW n \in Nat \ {0}
    PROVE  /\ Slots(sl, a, n) # << >>
           /\ Head(Slots(sl, a, n)) = sl[a % Capacity]
           /\ Tail(Slots(sl, a, n)) = Slots(sl, a + 1, n - 1)
<1> DEFINE s == Slots(sl, a, n)
           t == Slots(sl, a + 1, n - 1)
<1>1. s \in Seq(Item) /\ Len(s) = n /\ \A i \in 1 .. n : s[i] = sl[(a + i - 1) % Capacity]
  BY SlotsSeq
<1>2. t \in Seq(Item) /\ Len(t) = n - 1
      /\ \A i \in 1 .. n - 1 : t[i] = sl[((a + 1) + i - 1) % Capacity]
  BY SlotsSeq, a + 1 \in Int, n - 1 \in Nat
<1>. HIDE DEF s, t
<1>3. s # << >> BY <1>1
<1>4. Head(s) = s[1] /\ Tail(s) \in Seq(Item) /\ Len(Tail(s)) = n - 1
      /\ \A i \in 1 .. n - 1 : Tail(s)[i] = s[i + 1]
  BY <1>1, <1>3, Popped
<1>5. s[1] = sl[a % Capacity]
  <2>1. a + 1 - 1 = a OBVIOUS
  <2> QED BY <1>1, <2>1
<1>6. \A i \in 1 .. n - 1 : Tail(s)[i] = t[i]
  <2> SUFFICES ASSUME NEW i \in 1 .. n - 1 PROVE Tail(s)[i] = t[i]
    OBVIOUS
  <2>1. i + 1 \in 1 .. n /\ a + (i + 1) - 1 = (a + 1) + i - 1 OBVIOUS
  <2>2. s[i + 1] = sl[(a + (i + 1) - 1) % Capacity] BY <1>1, <2>1
  <2> QED BY <1>2, <1>4, <2>1, <2>2
<1>7. Tail(s) = t
  BY <1>2, <1>4, <1>6, SameSeq, Zenon
<1> QED BY <1>3, <1>4, <1>5, <1>7 DEF s, t

-----------------------------------------------------------------------------
(* The invariant, and what the queue implements.                           *)

\* The inductive invariant.  The peer's counter may be stale when it is used:
\* the load of a head that has moved on since only hides room, and the load of
\* a tail that has moved on only hides items.
Inv == /\ RingTypeOK
       /\ len(localTail, head) <= Capacity
       /\ len(localTail, head) = len(tail, head) + len(localTail, tail)
       /\ ppc = "write" => len(localTail, head) < Capacity
       /\ ppc = "publish" => localTail # tail
       /\ cpc # "idle" => tail # head
       /\ cpc = "publish" => character = slots[index(head)]

\* The slot the producer writes is not the slot at the head of a queue that
\* holds an item and has room.
LEMMA SlotsDiffer ==
    ASSUME Word % Capacity = 0, NEW a \in Cursor, NEW b \in Cursor, a # b, len(b, a) < Capacity
    PROVE  index(b) # index(a)
<1>1. Capacity \in Nat \ {0} /\ Word \in Nat \ {0} /\ Capacity < Word /\ a \in Int /\ b \in Int
  BY CapacityAssumption, WordAssumption DEF Cursor
<1>2. PICK n \in 0 .. Word - 1 : n = len(b, a)
  BY LenValue
<1>3. n > 0 /\ n < Capacity BY <1>2, LenZero
<1>4. (a + n) % Word = b BY <1>2, Distance
<1>5. index(b) = (a + n) % Capacity BY <1>4, SlotOf
<1> DEFINE c == a + n
<1>6. c \in Int /\ a < c /\ c - a < Capacity BY <1>1, <1>3
<1>. HIDE DEF c
<1>7. a % Capacity # c % Capacity BY <1>1, <1>6, ModApart
<1> QED BY <1>5, <1>7 DEF index, c

\* Every step of either end keeps the invariant.
LEMMA InvKept ==
    ASSUME Word % Capacity = 0, Inv, [RingNext]_ring
    PROVE  Inv'
<1> USE WordAssumption, CapacityAssumption
<1>0. RingTypeOK /\ tail \in Cursor /\ head \in Cursor /\ localTail \in Cursor BY DEF Inv, RingTypeOK
<1>1. RingTypeOK' BY <1>0, TypeKept
<1>2. ASSUME NEW i \in Item, NEW f \in Form, EnqueueCheck(i, f) PROVE Inv'
  <2>1. len(localTail, head) \in 0 .. Word - 1 BY <1>0, LenValue
  <2> QED BY <1>1, <1>2, <2>1 DEF Inv, EnqueueCheck, consumer, is_full
<1>3. CASE EnqueueWrite
  <2>1. localTail' = advance(localTail) /\ tail' = tail /\ head' = head BY <1>3 DEF EnqueueWrite
  <2>2. /\ len(localTail', head') = len(localTail, head) + 1
        /\ len(localTail', tail') = len(localTail, tail) + 1
    <3>1. len(localTail, head) < Word - 1 /\ len(localTail, tail) < Word - 1
      BY <1>0, <1>3, LenValue DEF Inv, EnqueueWrite
    <3> QED BY <1>0, <2>1, <3>1, LenUp
  <2>3. localTail' # tail'
    <3>1. localTail' \in Cursor /\ tail' \in Cursor BY <1>1 DEF RingTypeOK
    <3>2. len(localTail', tail') # 0 BY <1>0, <2>2, LenValue
    <3> QED BY <3>1, <3>2, LenZero
  <2>4. cpc = "publish" => slots'[index(head)] = slots[index(head)]
    <3> SUFFICES ASSUME cpc = "publish" PROVE slots'[index(head)] = slots[index(head)]
      OBVIOUS
    <3>1. head # localTail /\ len(localTail, head) < Capacity
      BY <1>0, <1>3, LenValue, LenZero DEF Inv, EnqueueWrite
    <3>2. index(localTail) # index(head) BY <1>0, <3>1, SlotsDiffer
    <3>3. index(head) \in 0 .. Capacity - 1 BY <1>0, ModDiv DEF index, Cursor
    <3> QED BY <1>0, <1>3, <3>2, <3>3 DEF EnqueueWrite, RingTypeOK
  <2>5. len(localTail, head) \in Nat /\ len(tail, head) \in Nat /\ len(localTail, tail) \in Nat
    BY <1>0, LenValue
  <2> QED BY <1>1, <1>3, <2>2, <2>3, <2>4, <2>5 DEF Inv, EnqueueWrite, consumer
<1>4. ASSUME tail' = localTail, ppc' = "idle", UNCHANGED <<head, slots, localTail, consumer>>
      PROVE  Inv'
  <2>1. len(localTail, localTail) = 0 BY <1>0, LenValue DEF Cursor
  <2>2. cpc # "idle" => localTail # head
    BY <1>0, LenValue, LenZero DEF Inv
  <2>3. len(localTail, head) \in Nat BY <1>0, LenValue
  <2> QED BY <1>1, <1>4, <2>1, <2>2, <2>3 DEF Inv, consumer
<1>5. CASE DequeueCheck
  BY <1>1, <1>5 DEF Inv, DequeueCheck, producer, is_empty
<1>6. CASE DequeueRead
  BY <1>1, <1>6 DEF Inv, DequeueRead, producer
<1>7. CASE DequeuePublish
  <2>1. head' = advance(head) /\ tail' = tail /\ localTail' = localTail /\ ppc' = ppc
        /\ tail # head /\ cpc' = "idle"
    BY <1>7 DEF DequeuePublish, producer, Inv
  <2>2. /\ len(localTail', head') = len(localTail, head) - 1
        /\ len(tail', head') = len(tail, head) - 1
        /\ len(localTail', tail') = len(localTail, tail)
    <3>1. localTail # head BY <1>0, <2>1, LenValue, LenZero DEF Inv
    <3> QED BY <1>0, <2>1, <3>1, LenDown
  <2>3. len(localTail, head) \in Nat /\ len(tail, head) \in Nat /\ len(localTail, tail) \in Nat
    BY <1>0, LenValue
  <2> QED BY <1>1, <2>1, <2>2, <2>3 DEF Inv
<1>8. CASE UNCHANGED ring
  BY <1>1, <1>8 DEF Inv, ring, producer, consumer
<1>9. CASE EnqueuePublish
  BY <1>4, <1>9 DEF EnqueuePublish
<1>10. CASE UpdateSharedTail
  BY <1>4, <1>10 DEF UpdateSharedTail, producer
<1> QED
  BY <1>2, <1>3, <1>5, <1>6, <1>7, <1>8, <1>9, <1>10 DEF RingNext, Produce, Consume

\* The queue starts empty.
LEMMA InitInv == RingInit => Inv
<1> SUFFICES ASSUME RingInit PROVE Inv
  OBVIOUS
<1>1. RingTypeOK /\ 0 \in Cursor
  BY WordAssumption, CapacityAssumption, ItemAssumption DEF RingInit, RingTypeOK, Cursor
<1>2. len(0, 0) = 0 BY <1>1, LenZero
<1> QED BY <1>1, <1>2, CapacityAssumption, WordAssumption DEF RingInit, Inv

\* With a capacity that divides the counter's word (the queues whose capacity is
\* a power of two), no interleaving of the two ends overfills the ring or has
\* them access one slot at the same time.
THEOREM QueueSafe ==
    ASSUME Word % Capacity = 0
    PROVE  RingSpec => [](Bounded /\ NoSlotRace)
<1>1. Inv => Bounded /\ NoSlotRace
  <2> SUFFICES ASSUME Inv PROVE Bounded /\ NoSlotRace
    OBVIOUS
  <2>1. tail \in Cursor /\ head \in Cursor /\ localTail \in Cursor BY DEF Inv, RingTypeOK
  <2>2. Bounded BY DEF Inv, Bounded
  <2>3. NoSlotRace
    <3> SUFFICES ASSUME ppc = "write", cpc = "read" PROVE index(localTail) # index(head)
      BY DEF NoSlotRace
    <3>1. len(localTail, head) < Capacity /\ tail # head BY DEF Inv
    <3>2. localTail # head
      <4>1. len(tail, head) # 0 BY <2>1, <3>1, LenZero
      <4>2. len(tail, head) \in Nat /\ len(localTail, tail) \in Nat BY <2>1, LenValue
      <4>3. len(localTail, head) # 0 BY <4>1, <4>2 DEF Inv
      <4> QED BY <2>1, <4>3, LenZero
    <3> QED BY <2>1, <3>1, <3>2, SlotsDiffer
  <2> QED BY <2>2, <2>3
<1>2. Inv /\ [RingNext]_ring => Inv'
  BY InvKept
<1> QED
  BY <1>1, <1>2, InitInv, PTL DEF RingSpec

\* The step of the bounded FIFO that a step of the queue implements.
LEMMA StepRefines ==
    ASSUME Word % Capacity = 0, Inv, [RingNext]_ring
    PROVE  [Abstract!Next]_(Abstract!vars)
<1> USE WordAssumption, CapacityAssumption
<1> DEFINE q == len(tail, head)
           g == len(localTail, tail)
<1>0. /\ RingTypeOK /\ tail \in Cursor /\ head \in Cursor /\ localTail \in Cursor
      /\ slots \in SlotArray /\ head \in Int /\ tail \in Int /\ localTail \in Int
      /\ item \in Item
  BY DEF Inv, RingTypeOK, SlotArray, Cursor
<1>1. /\ RingTypeOK' /\ tail' \in Cursor /\ head' \in Cursor /\ localTail' \in Cursor
      /\ slots' \in SlotArray /\ item' \in Item
  <2>1. RingTypeOK' BY <1>0, TypeKept
  <2> QED BY <2>1 DEF RingTypeOK, SlotArray
<1>2. q \in 0 .. Word - 1 /\ g \in 0 .. Word - 1 /\ q + g = len(localTail, head)
      /\ q \in Nat /\ g \in Nat /\ q + g \in Nat /\ q + g \in 0 .. Word - 1
  BY <1>0, LenValue DEF Inv
<1>3. /\ Window(head, tail) = Slots(slots, head, q)
      /\ Window(tail, localTail) = Slots(slots, tail, g)
  BY <1>0, WindowIs DEF Window
<1>b. /\ Window(head, tail)' = Slots(slots', head', len(tail', head'))
      /\ Window(tail, localTail)' = Slots(slots', tail', len(localTail', tail'))
  BY <1>1, WindowIs DEF Window
<1>4. Len(Window(head, tail)) = q /\ Len(Window(tail, localTail)) = g
  BY <1>0, <1>2, <1>3, SlotsSeq
<1>5. ASSUME UNCHANGED <<tail, head, slots, localTail, result>>, item' \in Item
      PROVE  Abstract!Offer
  <2>1. UNCHANGED <<Window(tail, localTail), Window(head, tail), result>>
    BY <1>5 DEF Window
  <2> QED BY <1>5, <2>1 DEF Abstract!Offer
<1>6. CASE EnqueueWrite
  <2>0. /\ localTail' = advance(localTail) /\ tail' = tail /\ head' = head
        /\ slots' = [slots EXCEPT ![index(localTail)] = item] /\ item' = item /\ result' = result
        /\ q + g < Capacity
    BY <1>2, <1>6 DEF EnqueueWrite, consumer, Inv
  <2>1. len(localTail', tail') = g + 1
    BY <1>0, <1>2, <2>0, LenUp
  <2>2. index(localTail) = (tail + g) % Capacity /\ index(localTail) = (head + (q + g)) % Capacity
    <3>1. (tail + g) % Word = localTail /\ (head + (q + g)) % Word = localTail
      BY <1>0, <1>2, Distance, Zenon
    <3> QED BY <1>0, <1>2, <3>1, SlotOf, Zenon
  <2>w. index(localTail) \in 0 .. Capacity - 1
    BY <1>0, ModDiv DEF index
  <2>3. Window(tail, localTail)' = Slots(slots', tail, g + 1)
        /\ Window(head, tail)' = Slots(slots', head, q)
    BY <1>b, <2>0, <2>1
  <2>5. Window(tail, localTail)' = Append(Window(tail, localTail), item)
    <3>1. g < Capacity BY <1>2, <2>0
    <3>2. Wrote(slots, slots', tail + g, item) BY <1>0, <2>0, <2>2, <2>w DEF Wrote, SlotArray
    <3>3. Slots(slots', tail, g + 1) = Append(Slots(slots, tail, g), item)
      <4>1. slots \in SlotArray /\ slots' \in SlotArray /\ tail \in Int /\ g \in Nat /\ item \in Item
        BY <1>0, <1>1, <1>2
      <4>2. \A sl, sl2 \in SlotArray, a \in Int, n \in Nat, x \in Item :
              n < Capacity /\ Wrote(sl, sl2, a + n, x) => Slots(sl2, a, n + 1) = Append(Slots(sl, a, n), x)
        BY SlotsAppend
      <4>. HIDE DEF q, g
      <4>3. \A x \in Item :
              Wrote(slots, slots', tail + g, x) => Slots(slots', tail, g + 1) = Append(Slots(slots, tail, g), x)
        BY <3>1, <4>1, <4>2
      <4> QED BY <3>2, <4>1, <4>3
    <3> QED BY <1>3, <2>3, <3>3, Zenon
  <2>6. Window(head, tail)' = Window(head, tail)
    <3>2. Wrote(slots, slots', head + (q + g), item) BY <1>0, <2>0, <2>2, <2>w DEF Wrote, SlotArray
    <3>3. \A i \in 1 .. q + g : /\ (head + i - 1) % Capacity \in 0 .. Capacity - 1
                                /\ (head + i - 1) % Capacity # (head + (q + g)) % Capacity
      <4>1. head \in Int /\ q + g \in Nat /\ q + g < Capacity BY <1>0, <1>2, <2>0
      <4>. HIDE DEF q, g
      <4> QED BY <4>1, SlotsApart
    <3>4. \A i \in 1 .. q : slots'[(head + i - 1) % Capacity] = slots[(head + i - 1) % Capacity]
      <4>1. \A i \in 1 .. q : i \in 1 .. q + g BY <1>2
      <4>. HIDE DEF q, g
      <4> QED BY <3>2, <3>3, <4>1, Zenon DEF Wrote
    <3>5. Slots(slots', head, q) = Slots(slots, head, q)
      BY <3>4 DEF Slots
    <3> QED BY <1>3, <2>3, <3>5, Zenon
  <2>7. Len(Window(head, tail)) + Len(Window(tail, localTail)) < Capacity
    BY <1>4, <2>0
  <2>8. Abstract!Stage BY <2>0, <2>5, <2>6, <2>7 DEF Abstract!Stage
  <2> QED BY <2>8 DEF Abstract!Next
<1>7. ASSUME tail' = localTail, localTail # tail, UNCHANGED <<head, slots, localTail, item, result>>
      PROVE  Abstract!Commit
  <2>1. len(tail', head') = q + g /\ len(localTail', tail') = 0 /\ g # 0
    BY <1>0, <1>2, <1>7, LenZero
  <2>2. Window(head, tail)' = Slots(slots, head, q + g) /\ Window(tail, localTail)' = Slots(slots, localTail, 0)
    BY <1>b, <1>7, <2>1
  <2>3. tail = head + q \/ tail = (head + q) - Word
    BY <1>0, <1>2, Distance
  <2>4. Slots(slots, tail, g) = Slots(slots, head + q, g)
    BY <1>0, <1>2, <2>3, SlotsCongruent, head + q \in Int
  <2>5. Slots(slots, head, q) \o Slots(slots, head + q, g) = Slots(slots, head, q + g)
    <3>. HIDE DEF q, g
    <3>1. slots \in SlotArray BY <1>0
    <3>2. head \in Int BY <1>0
    <3>3. q \in Nat BY <1>2
    <3>4. g \in Nat BY <1>2
    <3>5. \A sl \in SlotArray, a \in Int, m \in Nat, n \in Nat :
            Slots(sl, a, m) \o Slots(sl, a + m, n) = Slots(sl, a, m + n)
      BY SlotsConcat
    <3> QED BY <3>1, <3>2, <3>3, <3>4, <3>5, ZenonT(40)
  <2>6. Window(head, tail)' = Window(head, tail) \o Window(tail, localTail)
    BY <1>3, <2>2, <2>4, <2>5
  <2>7. Window(tail, localTail)' = << >>
    BY <2>2 DEF Slots
  <2>8. Window(tail, localTail) # << >>
    BY <1>4, <2>1
  <2> QED BY <1>7, <2>6, <2>7, <2>8 DEF Abstract!Commit
<1>8. CASE DequeuePublish
  <2>0. /\ head' = advance(head) /\ result' = character /\ character = slots[index(head)]
        /\ tail # head /\ UNCHANGED <<tail, localTail, slots, item>>
    BY <1>8 DEF DequeuePublish, producer, Inv
  <2>1. len(tail', head') = q - 1 /\ q \in Nat \ {0}
    BY <1>0, <1>2, <2>0, LenDown, LenZero
  <2>2. Window(head, tail)' = Slots(slots, advance(head), q - 1)
    BY <1>b, <2>0, <2>1
  <2>3. /\ Slots(slots, head, q) # << >>
        /\ Head(Slots(slots, head, q)) = slots[index(head)]
        /\ Tail(Slots(slots, head, q)) = Slots(slots, head + 1, q - 1)
    BY <1>0, <2>1, SlotsHeadTail DEF index
  <2>4. advance(head) = head + 1 \/ advance(head) = (head + 1) - Word
    BY <1>0, AdvanceValue DEF Cursor
  <2>5. Slots(slots, advance(head), q - 1) = Slots(slots, head + 1, q - 1)
    <3>1. advance(head) \in Int BY <1>0, AdvanceValue DEF Cursor
    <3>2. slots \in SlotArray /\ head + 1 \in Int /\ q - 1 \in Nat /\ Word % Capacity = 0 BY <1>0, <2>1
    <3> QED BY <2>4, <3>1, <3>2, SlotsCongruent, Zenon
  <2>6. Window(tail, localTail)' = Window(tail, localTail)
    BY <2>0 DEF Window
  <2>7. Abstract!Take
    BY <1>3, <2>0, <2>2, <2>3, <2>5, <2>6 DEF Abstract!Take
  <2> QED BY <2>7 DEF Abstract!Next
<1>9. ASSUME UNCHANGED <<tail, head, slots, localTail, item, result>>
      PROVE  UNCHANGED Abstract!vars
  BY <1>9 DEF Abstract!vars, Window
<1>10. ASSUME NEW i \in Item, NEW f \in Form, EnqueueCheck(i, f) PROVE Abstract!Next
  BY <1>5, <1>10 DEF EnqueueCheck, consumer, Abstract!Next
<1>11. CASE EnqueuePublish
  BY <1>7, <1>11 DEF EnqueuePublish, consumer, Inv, Abstract!Next
<1>12. CASE UpdateSharedTail
  BY <1>7, <1>12 DEF UpdateSharedTail, producer, consumer, Abstract!Next
<1>13. CASE DequeueCheck
  BY <1>9, <1>13 DEF DequeueCheck, producer
<1>14. CASE DequeueRead
  BY <1>9, <1>14 DEF DequeueRead, producer
<1>15. CASE UNCHANGED ring
  BY <1>9, <1>15 DEF ring, producer, consumer
<1> QED
  BY <1>6, <1>8, <1>10, <1>11, <1>12, <1>13, <1>14, <1>15 DEF RingNext, Produce, Consume

\* With a capacity that divides the counter's word, the queue is a bounded FIFO.
THEOREM QueueIsFifo ==
    ASSUME Word % Capacity = 0
    PROVE  RingSpec => ImplementsFifo
<1>1. RingInit => Abstract!Init
  <2> SUFFICES ASSUME RingInit PROVE Abstract!Init
    OBVIOUS
  <2>1. 0 \in Cursor BY WordAssumption DEF Cursor
  <2>2. len(0, 0) = 0 BY <2>1, LenZero
  <2>3. Window(0, 0) = << >> BY <2>2 DEF Window
  <2> QED BY <2>3 DEF RingInit, Abstract!Init
<1>2. Inv /\ [RingNext]_ring => Inv' /\ [Abstract!Next]_(Abstract!vars)
  BY InvKept, StepRefines
<1> QED
  BY <1>1, <1>2, InitInv, PTL DEF RingSpec, ImplementsFifo, Abstract!Spec

=============================================================================
