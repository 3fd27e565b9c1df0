--------------------------- MODULE AsyncQueueProof ---------------------------
(***************************************************************************)
(* Proofs about AsyncQueue for any number of producers, iterators and       *)
(* pushes, any capacity and any reserve.                                    *)
(*                                                                          *)
(* Delivered values, buffered values and waiting values form one line. The  *)
(* invariant says that the values of one producer stand in that line in the *)
(* order it pushed them, which excludes every loss of order and every       *)
(* duplicate; and that every value pushed is in the line or outside it.     *)
(***************************************************************************)
EXTENDS AsyncQueue, FiniteSetTheorems, NaturalsInduction, SequenceTheorems,
        WellFoundedInduction, TLAPS

Item == Seq(Values) \ {<< >>}

\* Induction on the numbers, for a set of numbers.
LEMMA NatSetInduction ==
  ASSUME NEW S, 0 \in S, \A n \in Nat : n \in S => n + 1 \in S
  PROVE  \A n \in Nat : n \in S
<1> SUFFICES ASSUME NEW bad \in Nat, bad \notin S PROVE FALSE
  OBVIOUS
<1> DEFINE T == {n \in Nat : n \notin S}
<1>1. T \subseteq Nat /\ T # {}
  OBVIOUS
<1>2. PICK k \in T : \A j \in T : ~ (<<j, k>> \in OpToRel(<, Nat))
  <2> HIDE DEF T
  <2> QED
    BY <1>1, NatLessThanWellFounded, WFMin
<1>3. k \in Nat /\ k \notin S /\ k # 0
  OBVIOUS
<1>4. k - 1 \in Nat /\ k - 1 < k /\ (k - 1) + 1 = k
  BY <1>3
<1>5. k - 1 \in S
  BY <1>2, <1>4 DEF OpToRel
<1> QED
  BY <1>3, <1>4, <1>5

-----------------------------------------------------------------------------
(* The recursive functions of the model are what their equations say. *)

Filling(f, items, n) ==
    f = [k \in 0..n |-> IF k = 0 THEN items ELSE Admit(f[k - 1], producers[k])]

LEMMA FillingExists ==
  ASSUME NEW items, NEW m \in Nat
  PROVE  \E f : Filling(f, items, m)
<1> DEFINE S == {n \in Nat : \E f : Filling(f, items, n)}
<1>1. 0 \in S
  <2> DEFINE f == [k \in 0..0 |-> items]
  <2>1. f = [k \in 0..0 |-> IF k = 0 THEN items ELSE Admit(f[k - 1], producers[k])]
    OBVIOUS
  <2> QED
    BY <2>1 DEF Filling
<1>2. ASSUME NEW n \in Nat, n \in S PROVE n + 1 \in S
  <2>1. PICK f : Filling(f, items, n)
    BY <1>2
  <2> DEFINE g == [k \in 0..(n + 1) |-> IF k = n + 1 THEN Admit(f[n], producers[n + 1]) ELSE f[k]]
  <2>2. \A k \in 0..n : f[k] = IF k = 0 THEN items ELSE Admit(f[k - 1], producers[k])
    BY <2>1 DEF Filling
  <2>3. ASSUME NEW k \in 0..(n + 1)
        PROVE  g[k] = IF k = 0 THEN items ELSE Admit(g[k - 1], producers[k])
    <3>1. CASE k = n + 1
      BY <3>1
    <3>2. CASE k # n + 1
      BY <2>2, <3>2
    <3> QED
      BY <3>1, <3>2
  <2>4. g = [k \in 0..(n + 1) |-> g[k]]
    OBVIOUS
  <2> HIDE DEF g
  <2>5. Filling(g, items, n + 1)
    BY <2>3, <2>4 DEF Filling
  <2> QED
    BY <2>5
<1> HIDE DEF S
<1>3. m \in S
  BY <1>1, <1>2, NatSetInduction
<1> QED
  BY <1>3 DEF S

\* flushProducers(): the first count waiting values go to the buffer, one by one, each
\* accepted by the buffer as it is then, and the next one would not be.
Flushes(items, filled, count) ==
    /\ count \in 0..Len(producers)
    /\ filled[0] = items
    /\ \A i \in 1..count : /\ Accepts(filled[i - 1], producers[i])
                           /\ filled[i] = Admit(filled[i - 1], producers[i])
    /\ count < Len(producers) => ~ Accepts(filled[count], producers[count + 1])
    /\ values' = filled[count]
    /\ producers' = SubSeq(producers, count + 1, Len(producers))

LEMMA FlushEffect ==
  ASSUME NEW items, producers \in Seq(Values), Flush(items)
  PROVE  \E filled, count : Flushes(items, filled, count)
<1> DEFINE L == Len(producers)
           filled == CHOOSE f : f = [n \in 0..L |->
                                        IF n = 0 THEN items ELSE Admit(f[n - 1], producers[n])]
           fits(n) == \A i \in 1..n : Accepts(filled[i - 1], producers[i])
           count == CHOOSE n \in 0..L : fits(n) /\ (n < L => ~ fits(n + 1))
<1>1. L \in Nat
  OBVIOUS
<1>2. values' = filled[count] /\ producers' = SubSeq(producers, count + 1, L)
  BY DEF Flush
<1>3. Filling(filled, items, L)
  BY <1>1, FillingExists DEF Filling
<1> HIDE DEF filled
<1>4. \A n \in 0..L : filled[n] = IF n = 0 THEN items ELSE Admit(filled[n - 1], producers[n])
  BY <1>3 DEF Filling
<1>5. \E n \in 0..L : fits(n) /\ (n < L => ~ fits(n + 1))
  <2> SUFFICES ASSUME \A n \in 0..L : fits(n) => n < L /\ fits(n + 1) PROVE FALSE
    BY <1>1
  <2> DEFINE S == {n \in Nat : n <= L => fits(n)}
  <2>1. 0 \in S
    OBVIOUS
  <2>2. ASSUME NEW n \in Nat, n \in S PROVE n + 1 \in S
    <3>1. n + 1 <= L => n \in 0..L /\ fits(n)
      BY <1>1, <2>2
    <3> HIDE DEF fits
    <3> QED
      BY <3>1
  <2> HIDE DEF fits
  <2>3. L \in S
    <3> HIDE DEF S
    <3> QED
      BY <1>1, <2>1, <2>2, NatSetInduction
  <2> QED
    BY <1>1, <2>3
<1>6. count \in 0..L /\ fits(count) /\ (count < L => ~ fits(count + 1))
  <2> HIDE DEF fits
  <2> QED
    BY <1>5
<1> HIDE DEF count
<1>7. count < L => ~ Accepts(filled[count], producers[count + 1])
  <2> SUFFICES ASSUME count < L, Accepts(filled[count], producers[count + 1]) PROVE fits(count + 1)
    BY <1>6
  <2> QED
    BY <1>1, <1>6
<1>8. \A i \in 1..count : Accepts(filled[i - 1], producers[i]) /\ filled[i] = Admit(filled[i - 1], producers[i])
  BY <1>1, <1>4, <1>6
<1>9. filled[0] = items
  BY <1>1, <1>4
<1> QED
  BY <1>2, <1>6, <1>7, <1>8, <1>9 DEF Flushes

\* detachConsumer(): what is left is some of the calls that waited, and none of c's.
LEMMA DetachedEffect ==
  ASSUME NEW S, consumers \in Seq(S), NEW c
  PROVE  /\ Detached(c) \in Seq(S \ {c})
         /\ consumers = << >> => Detached(c) = << >>
<1> DEFINE L == Len(consumers)
           Step(f, n) == IF n = 0 THEN << >>
                         ELSE IF consumers[n] = c THEN f[n - 1]
                         ELSE Append(f[n - 1], consumers[n])
           kept == CHOOSE f : f = [n \in 0..L |-> Step(f, n)]
<1>1. L \in Nat /\ Detached(c) = kept[L]
  BY DEF Detached
<1>2. \E f : f = [n \in 0..L |-> Step(f, n)]
  <2> DEFINE T == {m \in Nat : \E f : f = [n \in 0..m |-> Step(f, n)]}
  <2>1. 0 \in T
    <3> DEFINE f == [n \in 0..0 |-> << >>]
    <3>1. f = [n \in 0..0 |-> Step(f, n)]
      OBVIOUS
    <3> QED
      BY <3>1
  <2>2. ASSUME NEW m \in Nat, m \in T PROVE m + 1 \in T
    <3>1. PICK f : f = [n \in 0..m |-> Step(f, n)]
      BY <2>2
    <3> DEFINE g == [n \in 0..(m + 1) |-> IF n = m + 1 THEN Step(f, n) ELSE f[n]]
    <3>2. \A n \in 0..m : f[n] = Step(f, n)
      BY <3>1
    <3>3. ASSUME NEW n \in 0..(m + 1) PROVE g[n] = Step(g, n)
      <4>1. n = 0 \/ (n - 1 \in 0..m /\ g[n - 1] = f[n - 1])
        OBVIOUS
      <4>2. Step(g, n) = Step(f, n)
        BY <4>1
      <4>3. g[n] = IF n = m + 1 THEN Step(f, n) ELSE f[n]
        OBVIOUS
      <4> HIDE DEF g, Step
      <4> QED
        BY <3>2, <4>2, <4>3
    <3>4. g = [n \in 0..(m + 1) |-> g[n]]
      OBVIOUS
    <3> HIDE DEF g
    <3>5. g = [n \in 0..(m + 1) |-> Step(g, n)]
      <4> HIDE DEF Step
      <4> QED
        BY <3>3, <3>4
    <3> HIDE DEF Step
    <3> QED
      BY <3>5
  <2> HIDE DEF T
  <2>3. L \in T
    BY <1>1, <2>1, <2>2, NatSetInduction
  <2> QED
    BY <2>3 DEF T
<1>3. kept = [n \in 0..L |-> Step(kept, n)]
  <2> HIDE DEF Step
  <2> QED
    BY <1>2
<1> HIDE DEF kept
<1>4. \A n \in 0..L : kept[n] = Step(kept, n)
  BY <1>3
<1> DEFINE U == {n \in Nat : n <= L => kept[n] \in Seq(S \ {c})}
<1>5. 0 \in U
  <2>1. kept[0] = << >>
    BY <1>1, <1>4
  <2>2. << >> \in Seq(S \ {c})
    OBVIOUS
  <2> QED
    BY <2>1, <2>2
<1>6. ASSUME NEW n \in Nat, n \in U PROVE n + 1 \in U
  <2> SUFFICES ASSUME n + 1 <= L PROVE kept[n + 1] \in Seq(S \ {c})
    OBVIOUS
  <2>1. kept[n] \in Seq(S \ {c}) /\ n + 1 \in 1..L /\ consumers[n + 1] \in S
    BY <1>1, <1>6
  <2>2. kept[n + 1] = IF consumers[n + 1] = c THEN kept[n] ELSE Append(kept[n], consumers[n + 1])
    BY <1>4, <2>1
  <2> QED
    BY <2>1, <2>2
<1>7. L \in U
  <2> HIDE DEF U
  <2> QED
    BY <1>1, <1>5, <1>6, NatSetInduction
<1>8. consumers = << >> => Detached(c) = << >>
  BY <1>1, <1>4
<1> QED
  BY <1>1, <1>7, <1>8

-----------------------------------------------------------------------------
(* Sequences of values and of items. *)

\* The values of one producer stand in the order it pushed them: in one sequence, and
\* between two sets of values.
Increasing(s) == \A i, j \in DOMAIN s : i < j /\ s[i].by = s[j].by => s[i].n < s[j].n
Before(V, W) == \A v \in V, w \in W : v.by = w.by => v.n < w.n

\* Only deltas coalesce.
ItemOK(item) ==
    /\ Increasing(item)
    /\ Len(item) = 1 \/ \A k \in DOMAIN item : item[k].kind = "delta"

ItemsOK(items) ==
    /\ items \in Seq(Item)
    /\ \A k \in DOMAIN items : ItemOK(items[k])
    /\ \A k, l \in DOMAIN items : k < l => Before(Elements(items[k]), Elements(items[l]))

LEMMA ElementsOf ==
  ASSUME NEW S, NEW s \in Seq(S)
  PROVE  /\ Elements(s) \subseteq S
         /\ \A v : v \in Elements(s) <=> \E i \in 1..Len(s) : v = s[i]
BY DEF Elements

LEMMA ElementsEmpty == Elements(<< >>) = {} /\ Within(<< >>) = {}
BY DEF Elements, Within

LEMMA WithinOf ==
  ASSUME NEW items \in Seq(Item)
  PROVE  /\ \A v : v \in Within(items) <=> \E k \in 1..Len(items) : v \in Elements(items[k])
         /\ Within(items) \subseteq Values
<1>1. \A v : v \in Within(items) <=> \E k \in 1..Len(items) : v \in Elements(items[k])
  BY DEF Within
<1>2. \A k \in 1..Len(items) : items[k] \in Seq(Values)
  BY DEF Item
<1>3. \A k \in 1..Len(items) : Elements(items[k]) \subseteq Values
  BY <1>2, ElementsOf
<1> QED
  BY <1>1, <1>3

LEMMA AppendElements ==
  ASSUME NEW S, NEW s \in Seq(S), NEW v \in S
  PROVE  /\ Append(s, v) \in Seq(S)
         /\ Elements(Append(s, v)) = Elements(s) \union {v}
<1>1. /\ Append(s, v) \in Seq(S) /\ Len(Append(s, v)) = Len(s) + 1
      /\ \A i \in 1..Len(s) : Append(s, v)[i] = s[i]
      /\ Append(s, v)[Len(s) + 1] = v
  BY AppendProperties
<1> DEFINE t == Append(s, v)
<1>2. /\ \A w : w \in Elements(s) <=> \E i \in 1..Len(s) : w = s[i]
      /\ \A w : w \in Elements(t) <=> \E i \in 1..Len(t) : w = t[i]
  <2> HIDE DEF t
  <2> QED
    BY <1>1, ElementsOf DEF t
<1>3. ASSUME NEW w PROVE w \in Elements(t) <=> w \in Elements(s) \/ w = v
  <2>1. ASSUME w \in Elements(t) PROVE w \in Elements(s) \/ w = v
    <3>1. PICK i \in 1..Len(t) : w = t[i]
      BY <1>2, <2>1
    <3>2. i \in 1..Len(s) \/ i = Len(s) + 1
      BY <1>1
    <3> QED
      BY <1>1, <1>2, <3>1, <3>2
  <2>2. ASSUME NEW i \in 1..Len(s), w = s[i] PROVE w \in Elements(t)
    BY <1>1, <1>2, <2>2
  <2>3. ASSUME w = v PROVE w \in Elements(t)
    BY <1>1, <1>2, <2>3
  <2> QED
    BY <1>2, <2>1, <2>2, <2>3
<1> QED
  BY <1>1, <1>3

LEMMA ConcatElements ==
  ASSUME NEW S, NEW s \in Seq(S), NEW t \in Seq(S)
  PROVE  s \o t \in Seq(S) /\ Elements(s \o t) = Elements(s) \union Elements(t)
<1>1. /\ s \o t \in Seq(S) /\ Len(s \o t) = Len(s) + Len(t)
      /\ \A i \in 1..(Len(s) + Len(t)) :
           (s \o t)[i] = IF i <= Len(s) THEN s[i] ELSE t[i - Len(s)]
  BY ConcatProperties
<1>2. ASSUME NEW w \in Elements(s) PROVE w \in Elements(s \o t)
  <2>1. PICK i \in 1..Len(s) : w = s[i]
    BY ElementsOf
  <2>2. i \in 1..Len(s \o t) /\ (s \o t)[i] = w
    BY <1>1, <2>1
  <2> QED
    BY <1>1, <2>2, ElementsOf
<1>3. ASSUME NEW w \in Elements(t) PROVE w \in Elements(s \o t)
  <2>1. PICK i \in 1..Len(t) : w = t[i]
    BY ElementsOf
  <2>2. Len(s) + i \in 1..(Len(s) + Len(t)) /\ (s \o t)[Len(s) + i] = t[i]
    BY <1>1
  <2> QED
    BY <1>1, <2>1, <2>2, ElementsOf
<1>4. ASSUME NEW w \in Elements(s \o t) PROVE w \in Elements(s) \union Elements(t)
  <2>1. PICK i \in 1..Len(s \o t) : w = (s \o t)[i]
    <3>1. s \o t \in Seq(S) /\ w \in Elements(s \o t)
      BY <1>1
    <3> QED
      BY ONLY <3>1, ElementsOf
  <2>2. CASE i <= Len(s)
    <3>1. i \in 1..Len(s) /\ w = s[i]
      BY <1>1, <2>1, <2>2
    <3> QED
      BY <3>1, ElementsOf
  <2>3. CASE i > Len(s)
    <3>1. i - Len(s) \in 1..Len(t) /\ w = t[i - Len(s)]
      BY <1>1, <2>1, <2>3
    <3> QED
      BY <3>1, ElementsOf
  <2> QED
    BY <2>2, <2>3
<1> QED
  BY <1>1, <1>2, <1>3, <1>4

\* Sequences of values that follow one another.
LEMMA AppendIncreasing ==
  ASSUME NEW s \in Seq(Values), NEW v \in Values, Increasing(s), Before(Elements(s), {v})
  PROVE  Increasing(Append(s, v))
<1> DEFINE t == Append(s, v)
<1>1. /\ t \in Seq(Values) /\ Len(t) = Len(s) + 1
      /\ \A i \in 1..Len(s) : t[i] = s[i] /\ s[i] \in Elements(s)
      /\ t[Len(s) + 1] = v
  BY AppendProperties, ElementsOf
<1> HIDE DEF t
<1>2. ASSUME NEW i \in 1..Len(t), NEW j \in 1..Len(t), i < j, t[i].by = t[j].by
      PROVE  t[i].n < t[j].n
  <2>1. i \in 1..Len(s) /\ t[i] = s[i]
    BY <1>1, <1>2
  <2>2. CASE j = Len(s) + 1
    BY <1>1, <1>2, <2>1, <2>2 DEF Before
  <2>3. CASE j # Len(s) + 1
    <3>1. j \in 1..Len(s) /\ t[j] = s[j]
      BY <1>1, <2>3
    <3> QED
      BY <1>2, <2>1, <3>1 DEF Increasing
  <2> QED
    BY <2>2, <2>3
<1>3. DOMAIN t = 1..Len(t)
  BY <1>1
<1>4. Increasing(t)
  BY <1>2, <1>3 DEF Increasing
<1> QED
  BY <1>4 DEF t

LEMMA ConcatIncreasing ==
  ASSUME NEW s \in Seq(Values), NEW t \in Seq(Values), Increasing(s), Increasing(t),
         Before(Elements(s), Elements(t))
  PROVE  Increasing(s \o t)
<1> DEFINE u == s \o t
<1>1. /\ u \in Seq(Values) /\ Len(u) = Len(s) + Len(t)
      /\ \A i \in 1..(Len(s) + Len(t)) : u[i] = IF i <= Len(s) THEN s[i] ELSE t[i - Len(s)]
  BY ConcatProperties
<1> HIDE DEF u
<1>2. ASSUME NEW i \in 1..Len(u), NEW j \in 1..Len(u), i < j, u[i].by = u[j].by
      PROVE  u[i].n < u[j].n
  <2>1. CASE j <= Len(s)
    <3>1. i \in 1..Len(s) /\ j \in 1..Len(s) /\ u[i] = s[i] /\ u[j] = s[j]
      BY <1>1, <1>2, <2>1
    <3> QED
      BY <1>2, <3>1 DEF Increasing
  <2>2. CASE i > Len(s)
    <3>1. /\ i - Len(s) \in 1..Len(t) /\ j - Len(s) \in 1..Len(t)
          /\ u[i] = t[i - Len(s)] /\ u[j] = t[j - Len(s)]
      BY <1>1, <1>2, <2>2
    <3>2. i - Len(s) < j - Len(s)
      BY <1>2
    <3> QED
      BY <1>2, <3>1, <3>2 DEF Increasing
  <2>3. CASE i <= Len(s) /\ j > Len(s)
    <3>1. /\ i \in 1..Len(s) /\ j - Len(s) \in 1..Len(t)
          /\ u[i] = s[i] /\ u[j] = t[j - Len(s)]
      BY <1>1, <2>3
    <3>2. u[i] \in Elements(s) /\ u[j] \in Elements(t)
      BY <3>1, ElementsOf
    <3> QED
      BY <1>2, <3>2 DEF Before
  <2> QED
    BY <2>1, <2>2, <2>3
<1>3. DOMAIN u = 1..Len(u)
  BY <1>1
<1>4. Increasing(u)
  BY <1>2, <1>3 DEF Increasing
<1> QED
  BY <1>4 DEF u

LEMMA Single ==
  ASSUME NEW v \in Values
  PROVE  /\ <<v>> \in Item /\ Elements(<<v>>) = {v} /\ ItemOK(<<v>>) /\ <<v>>[1] = v
BY DEF Item, Elements, ItemOK, Increasing

-----------------------------------------------------------------------------
(* The buffer: a value that enters, the item that leaves, an item that is dropped. *)

\* The value that enters, coalesced into the last item or as an item of its own.
LEMMA CoalesceShape ==
  ASSUME NEW items \in Seq(Item), NEW v \in Values, Coalesces(items, v)
  PROVE  LET new == Admit(items, v)
             last == items[Len(items)]
         IN  /\ Len(items) \in Nat \ {0} /\ last \in Seq(Values) /\ last # << >>
             /\ last[1].kind = "delta" /\ v.kind = "delta"
             /\ new \in Seq(Item) /\ Len(new) = Len(items)
             /\ \A k \in 1..Len(items) :
                  new[k] = IF k = Len(items) THEN Append(last, v) ELSE items[k]
<1> DEFINE last == items[Len(items)]
<1>1. Len(items) \in Nat \ {0} /\ last \in Item /\ last[1].kind = "delta" /\ v.kind = "delta"
  BY EmptySeq DEF Coalesces
<1>2. Append(last, v) \in Item
  BY <1>1, AppendProperties DEF Item
<1>3. Admit(items, v) = [items EXCEPT ![Len(items)] = Append(last, v)]
  BY DEF Admit
<1> HIDE DEF last
<1> DEFINE new == [items EXCEPT ![Len(items)] = Append(last, v)]
<1>4. /\ new \in Seq(Item) /\ Len(new) = Len(items)
      /\ \A k \in 1..Len(items) : new[k] = IF k = Len(items) THEN Append(last, v) ELSE items[k]
  BY <1>1, <1>2, ExceptSeq
<1>5. last \in Seq(Values) /\ last # << >>
  BY <1>1 DEF Item
<1> QED
  BY <1>1, <1>3, <1>4, <1>5 DEF last

LEMMA AppendShape ==
  ASSUME NEW items \in Seq(Item), NEW v \in Values
  PROVE  LET new == Append(items, <<v>>)
         IN  /\ new \in Seq(Item) /\ Len(new) = Len(items) + 1
             /\ \A k \in 1..Len(items) : new[k] = items[k]
             /\ new[Len(items) + 1] = <<v>>
             /\ ~ Coalesces(items, v) => Admit(items, v) = new
<1>1. <<v>> \in Item
  BY Single
<1> QED
  BY <1>1, AppendProperties DEF Admit

LEMMA AppendKeeps ==
  ASSUME NEW items, ItemsOK(items), NEW v \in Values, Before(Within(items), {v})
  PROVE  LET new == Append(items, <<v>>)
         IN  ItemsOK(new) /\ Within(new) = Within(items) \union {v} /\ new # << >>
<1> DEFINE new == Append(items, <<v>>)
           L == Len(items)
<1>1. /\ new \in Seq(Item) /\ Len(new) = L + 1 /\ L \in Nat
      /\ \A k \in 1..L : new[k] = items[k]
      /\ new[L + 1] = <<v>>
  BY AppendShape DEF ItemsOK
<1> HIDE DEF new
<1>2. ItemOK(<<v>>) /\ Elements(<<v>>) = {v}
  BY Single
<1>3. items \in Seq(Item)
  BY DEF ItemsOK
<1>4. \A w : w \in Within(items) <=> \E k \in 1..L : w \in Elements(items[k])
  BY <1>3, WithinOf
<1>5. \A w : w \in Within(new) <=> \E k \in 1..Len(new) : w \in Elements(new[k])
  BY <1>1, WithinOf
<1>6. \A k \in 1..Len(new) : (k \in 1..L /\ new[k] = items[k]) \/ (k = L + 1 /\ new[k] = <<v>>)
  BY <1>1
<1>7. ASSUME NEW w PROVE w \in Within(new) <=> w \in Within(items) \/ w = v
  <2>1. ASSUME NEW k \in 1..L, w \in Elements(items[k]) PROVE w \in Within(new)
    <3>1. k \in 1..Len(new) /\ new[k] = items[k]
      BY <1>1
    <3> QED
      BY <1>5, <2>1, <3>1
  <2>2. ASSUME w = v PROVE w \in Within(new)
    <3>1. L + 1 \in 1..Len(new)
      BY <1>1
    <3> QED
      BY <1>1, <1>2, <1>5, <2>2, <3>1
  <2>3. ASSUME NEW k \in 1..Len(new), w \in Elements(new[k]) PROVE w \in Within(items) \/ w = v
    BY <1>2, <1>4, <1>6, <2>3
  <2> QED
    BY <1>4, <1>5, <2>1, <2>2, <2>3
<1>8. \A k \in DOMAIN new : ItemOK(new[k])
  BY <1>1, <1>2, <1>6 DEF ItemsOK
<1>9. ASSUME NEW k \in 1..Len(new), NEW l \in 1..Len(new), k < l
      PROVE  Before(Elements(new[k]), Elements(new[l]))
  <2>1. k \in 1..L /\ new[k] = items[k]
    BY <1>1, <1>9
  <2>2. CASE l \in 1..L /\ new[l] = items[l]
    BY <1>3, <1>9, <2>1, <2>2 DEF ItemsOK
  <2>3. CASE l = L + 1 /\ new[l] = <<v>>
    BY <1>2, <1>4, <2>1, <2>3 DEF Before
  <2> QED
    BY <1>6, <2>2, <2>3
<1>10. ItemsOK(new)
  BY <1>1, <1>8, <1>9 DEF ItemsOK
<1>11. new # << >>
  BY <1>1
<1> QED
  BY <1>7, <1>10, <1>11 DEF new

LEMMA CoalesceKeeps ==
  ASSUME NEW items, ItemsOK(items), NEW v \in Values, Before(Within(items), {v}),
         Coalesces(items, v)
  PROVE  LET new == Admit(items, v)
         IN  ItemsOK(new) /\ Within(new) = Within(items) \union {v} /\ new # << >>
<1> DEFINE new == Admit(items, v)
           L == Len(items)
           last == items[L]
           longer == Append(last, v)
<1>0. items \in Seq(Item)
  BY DEF ItemsOK
<1>1. /\ new \in Seq(Item) /\ Len(new) = L /\ L \in Nat \ {0}
      /\ last \in Seq(Values) /\ last # << >> /\ last[1].kind = "delta" /\ v.kind = "delta"
      /\ \A k \in 1..L : new[k] = IF k = L THEN longer ELSE items[k]
  BY <1>0, CoalesceShape
<1> HIDE DEF new
<1>2. longer \in Seq(Values) /\ Elements(longer) = Elements(last) \union {v}
  BY <1>1, AppendElements
<1>3. \A w : w \in Within(items) <=> \E k \in 1..L : w \in Elements(items[k])
  BY <1>0, WithinOf
<1>4. \A w : w \in Within(new) <=> \E k \in 1..L : w \in Elements(new[k])
  BY <1>1, WithinOf
<1>5. L \in 1..L /\ ItemOK(last)
  BY <1>0, <1>1 DEF ItemsOK
<1>6. ItemOK(longer)
  <2>1. Before(Elements(last), {v})
    BY <1>3, <1>5 DEF Before
  <2>2. Increasing(longer)
    BY <1>1, <1>5, <2>1, AppendIncreasing DEF ItemOK
  <2>3. \A k \in 1..Len(last) : last[k].kind = "delta"
    BY <1>1, <1>5 DEF ItemOK
  <2>4. /\ DOMAIN longer = 1..(Len(last) + 1) /\ longer[Len(last) + 1] = v
        /\ \A k \in 1..Len(last) : longer[k] = last[k]
    BY <1>1, <1>2, AppendProperties
  <2>5. \A k \in DOMAIN longer : longer[k].kind = "delta"
    BY <1>1, <2>3, <2>4
  <2> QED
    BY <2>2, <2>5 DEF ItemOK
<1> HIDE DEF longer
<1>7. ASSUME NEW w PROVE w \in Within(new) <=> w \in Within(items) \/ w = v
  <2>1. ASSUME NEW k \in 1..L, w \in Elements(items[k]) PROVE w \in Elements(new[k])
    BY <1>1, <1>2, <2>1
  <2>2. v \in Elements(new[L])
    BY <1>1, <1>2, <1>5
  <2>3. ASSUME NEW k \in 1..L, w \in Elements(new[k]) PROVE w \in Elements(items[k]) \/ w = v
    BY <1>1, <1>2, <2>3
  <2> QED
    BY <1>3, <1>4, <1>5, <2>1, <2>2, <2>3
<1>8. \A k \in 1..L : ItemOK(new[k])
  BY <1>0, <1>1, <1>6 DEF ItemsOK
<1>9. ASSUME NEW k \in 1..L, NEW l \in 1..L, k < l
      PROVE  Before(Elements(new[k]), Elements(new[l]))
  <2>1. new[k] = items[k] /\ Before(Elements(items[k]), Elements(items[l]))
    BY <1>0, <1>1, <1>9 DEF ItemsOK
  <2>2. Before(Elements(items[k]), {v})
    BY <1>3 DEF Before
  <2>3. \A w : w \in Elements(new[l]) => w \in Elements(items[l]) \/ w = v
    BY <1>1, <1>2
  <2> QED
    BY <2>1, <2>2, <2>3 DEF Before
<1>10. ItemsOK(new)
  <2>1. new \in Seq(Item) /\ DOMAIN new = 1..L
    BY <1>1 DEF Item
  <2>2. \A k, l \in DOMAIN new : k < l => Before(Elements(new[k]), Elements(new[l]))
    BY <1>9, <2>1
  <2> QED
    BY <1>8, <2>1, <2>2 DEF ItemsOK
<1>11. new # << >>
  BY <1>1
<1> QED
  BY <1>7, <1>10, <1>11 DEF new

LEMMA AdmitKeeps ==
  ASSUME NEW items, ItemsOK(items), NEW v \in Values, Before(Within(items), {v})
  PROVE  LET new == Admit(items, v)
         IN  ItemsOK(new) /\ Within(new) = Within(items) \union {v} /\ new # << >>
<1>1. CASE Coalesces(items, v)
  BY <1>1, CoalesceKeeps
<1>2. CASE ~ Coalesces(items, v)
  BY <1>2, AppendKeeps DEF Admit
<1> QED
  BY <1>1, <1>2

\* What takes a place before another is not that other.
LEMMA BeforeApart ==
  ASSUME NEW V \in SUBSET Values, NEW W \in SUBSET Values, Before(V, W) \/ Before(W, V)
  PROVE  V \cap W = {}
<1> SUFFICES ASSUME NEW v \in V \cap W PROVE FALSE
  OBVIOUS
<1>1. v.n < v.n /\ v.n \in Int
  BY DEF Before, Values
<1> QED
  BY <1>1

LEMMA HeadKeeps ==
  ASSUME NEW items, ItemsOK(items), items # << >>
  PROVE  /\ Head(items) \in Seq(Values) /\ Increasing(Head(items))
         /\ ItemsOK(Tail(items))
         /\ Within(items) = Elements(Head(items)) \union Within(Tail(items))
         /\ Before(Elements(Head(items)), Within(Tail(items)))
<1> DEFINE rest == Tail(items)
           L == Len(items)
<1>1. items \in Seq(Item) /\ L \in Nat \ {0} /\ Head(items) = items[1] /\ 1 \in 1..L
  BY EmptySeq DEF ItemsOK
<1>2. rest \in Seq(Item) /\ Len(rest) = L - 1 /\ \A k \in 1..(L - 1) : rest[k] = items[k + 1]
  BY <1>1, HeadTailProperties
<1> HIDE DEF rest
<1>3. \A w : w \in Within(items) <=> \E k \in 1..L : w \in Elements(items[k])
  BY <1>1, WithinOf
<1>4. \A w : w \in Within(rest) <=> \E k \in 1..(L - 1) : w \in Elements(rest[k])
  BY <1>2, WithinOf
<1>5. ASSUME NEW k \in 1..(L - 1) PROVE k + 1 \in 1..L /\ 1 < k + 1 /\ rest[k] = items[k + 1]
  BY <1>1, <1>2
<1>6. ItemOK(items[1]) /\ items[1] \in Seq(Values)
  BY <1>1 DEF ItemsOK, Item
<1>7. ItemsOK(rest)
  <2>1. \A k \in 1..(L - 1) : ItemOK(rest[k])
    BY <1>1, <1>5 DEF ItemsOK
  <2>2. ASSUME NEW k \in 1..(L - 1), NEW l \in 1..(L - 1), k < l
        PROVE  Before(Elements(rest[k]), Elements(rest[l]))
    <3>1. k + 1 < l + 1
      BY <2>2
    <3> QED
      BY <1>1, <1>5, <3>1 DEF ItemsOK
  <2>3. DOMAIN rest = 1..(L - 1)
    BY <1>1, <1>2
  <2> QED
    BY <1>2, <2>1, <2>2, <2>3 DEF ItemsOK
<1>8. ASSUME NEW k \in 1..(L - 1) PROVE Before(Elements(items[1]), Elements(rest[k]))
  BY <1>1, <1>5 DEF ItemsOK
<1>9. ASSUME NEW w PROVE w \in Within(items) <=> w \in Elements(items[1]) \/ w \in Within(rest)
  <2>1. ASSUME NEW k \in 1..L, w \in Elements(items[k])
        PROVE  w \in Elements(items[1]) \/ w \in Within(rest)
    <3>1. CASE k = 1
      BY <2>1, <3>1
    <3>2. CASE k # 1
      <4>1. k - 1 \in 1..(L - 1) /\ rest[k - 1] = items[k]
        BY <1>1, <1>2, <3>2
      <4> QED
        BY <1>4, <2>1, <4>1
    <3> QED
      BY <3>1, <3>2
  <2>2. ASSUME NEW k \in 1..(L - 1), w \in Elements(rest[k]) PROVE w \in Within(items)
    BY <1>3, <1>5, <2>2
  <2> QED
    BY <1>1, <1>3, <1>4, <2>1, <2>2
<1>10. Before(Elements(items[1]), Within(rest))
  BY <1>4, <1>8 DEF Before
<1> QED
  BY <1>1, <1>6, <1>7, <1>9, <1>10 DEF ItemOK, rest

LEMMA WithoutShape ==
  ASSUME NEW S, NEW s \in Seq(S), NEW i \in 1..Len(s)
  PROVE  /\ Without(s, i) \in Seq(S) /\ Len(Without(s, i)) = Len(s) - 1
         /\ \A k \in 1..(Len(s) - 1) : Without(s, i)[k] = IF k < i THEN s[k] ELSE s[k + 1]
<1> DEFINE L == Len(s)
           a == SubSeq(s, 1, i - 1)
           b == SubSeq(s, i + 1, L)
<1>1. L \in Nat
  OBVIOUS
<1>2. a \in Seq(S) /\ Len(a) = i - 1 /\ \A k \in 1..(i - 1) : a[k] = s[k]
  <2>1. \A k \in 1..(i - 1) : s[k] \in S
    BY <1>1
  <2> QED
    BY <1>1, <2>1, SubSeqProperties
<1>3. b \in Seq(S) /\ Len(b) = L - i /\ \A k \in 1..(L - i) : b[k] = s[k + i]
  <2>1. \A k \in (i + 1)..L : s[k] \in S
    BY <1>1
  <2>2. /\ SubSeq(s, i + 1, L) \in Seq(S)
        /\ Len(SubSeq(s, i + 1, L)) = IF i + 1 <= L THEN L - (i + 1) + 1 ELSE 0
        /\ \A k \in 1..(L - (i + 1) + 1) : SubSeq(s, i + 1, L)[k] = s[(i + 1) + k - 1]
    BY <1>1, <2>1, SubSeqProperties
  <2>3. L - (i + 1) + 1 = L - i /\ \A k \in 1..(L - i) : (i + 1) + k - 1 = k + i
    BY <1>1
  <2> QED
    BY <1>1, <2>2, <2>3
<1>4. Without(s, i) = a \o b
  BY DEF Without
<1> HIDE DEF a, b
<1>5. /\ a \o b \in Seq(S) /\ Len(a \o b) = L - 1
      /\ \A k \in 1..(L - 1) : (a \o b)[k] = IF k <= i - 1 THEN a[k] ELSE b[k - (i - 1)]
  <2>1. /\ a \o b \in Seq(S) /\ Len(a \o b) = Len(a) + Len(b)
        /\ \A k \in 1..(Len(a) + Len(b)) :
             (a \o b)[k] = IF k <= Len(a) THEN a[k] ELSE b[k - Len(a)]
    BY <1>2, <1>3, ConcatProperties
  <2>2. Len(a) = i - 1 /\ Len(a) + Len(b) = L - 1
    BY <1>1, <1>2, <1>3
  <2> QED
    BY <2>1, <2>2
<1>6. ASSUME NEW k \in 1..(L - 1) PROVE (a \o b)[k] = IF k < i THEN s[k] ELSE s[k + 1]
  <2>1. CASE k < i
    <3>1. k <= i - 1 /\ k \in 1..(i - 1)
      BY <1>1, <2>1
    <3>2. (a \o b)[k] = a[k]
      BY <1>5, <3>1
    <3> QED
      BY <1>2, <2>1, <3>1, <3>2
  <2>2. CASE k >= i
    <3>1. PICK m \in 1..(L - i) : m = k - (i - 1)
      BY <1>1, <2>2
    <3>2. (a \o b)[k] = b[m] /\ m + i = k + 1 /\ ~ (k < i)
      BY <1>1, <1>5, <2>2, <3>1
    <3>3. b[m] = s[k + 1]
      BY <1>3, <3>2
    <3> QED
      BY <3>2, <3>3
  <2>3. k < i \/ k >= i
    BY <1>1
  <2> QED
    BY <2>1, <2>2, <2>3
<1> QED
  BY <1>4, <1>5, <1>6

\* A waiting value leaves the queue of producers.
LEMMA WithoutValue ==
  ASSUME NEW s \in Seq(Values), Increasing(s), NEW i \in 1..Len(s)
  PROVE  /\ Without(s, i) \in Seq(Values) /\ Increasing(Without(s, i))
         /\ Elements(Without(s, i)) = Elements(s) \ {s[i]}
<1> DEFINE t == Without(s, i)
           L == Len(s)
           from(k) == IF k < i THEN k ELSE k + 1
<1>0. L \in Nat
  OBVIOUS
<1>1. /\ t \in Seq(Values) /\ Len(t) = L - 1 /\ L \in Nat
      /\ \A k \in 1..(L - 1) : t[k] = IF k < i THEN s[k] ELSE s[k + 1]
  <2> HIDE DEF t
  <2> QED
    BY <1>0, WithoutShape DEF t
<1> HIDE DEF t
<1>2. \A k \in 1..(L - 1) : from(k) \in 1..L /\ from(k) # i /\ t[k] = s[from(k)]
  BY <1>1
<1>3. \A k, l \in 1..(L - 1) : k < l => from(k) < from(l)
  BY <1>1
<1>4. \A k \in 1..L : k # i => \E l \in 1..(L - 1) : from(l) = k
  <2> TAKE k \in 1..L
  <2>1. CASE k < i
    <3>1. k \in 1..(L - 1) /\ from(k) = k
      BY <1>1, <2>1
    <3> QED
      BY <3>1
  <2>2. CASE k > i
    <3>1. k - 1 \in 1..(L - 1) /\ from(k - 1) = k
      BY <1>1, <2>2
    <3> QED
      BY <3>1
  <2> QED
    BY <1>1, <2>1, <2>2
<1> HIDE DEF from
<1>5. Increasing(t)
  <2>1. ASSUME NEW k \in 1..(L - 1), NEW l \in 1..(L - 1), k < l, t[k].by = t[l].by
        PROVE  t[k].n < t[l].n
    <3>1. /\ from(k) \in DOMAIN s /\ from(l) \in DOMAIN s /\ from(k) < from(l)
          /\ t[k] = s[from(k)] /\ t[l] = s[from(l)]
      BY <1>2, <1>3, <2>1
    <3> QED
      BY <2>1, <3>1 DEF Increasing
  <2>2. DOMAIN t = 1..(L - 1)
    BY <1>1
  <2> QED
    BY <2>1, <2>2 DEF Increasing
<1>6. \A k \in 1..L : k # i => s[k] # s[i]
  <2> TAKE k \in 1..L
  <2> SUFFICES ASSUME k # i, s[k] = s[i] PROVE FALSE
    OBVIOUS
  <2>1. s[k] \in Values
    OBVIOUS
  <2>2. s[k].n \in Int
    BY <2>1 DEF Values
  <2>3. k < i \/ i < k
    OBVIOUS
  <2> QED
    BY <2>2, <2>3 DEF Increasing
<1>7. ASSUME NEW w PROVE w \in Elements(t) <=> w \in Elements(s) /\ w # s[i]
  <2>1. ASSUME NEW k \in 1..(L - 1), w = t[k] PROVE w \in Elements(s) /\ w # s[i]
    BY <1>2, <1>6, <2>1, ElementsOf
  <2>2. ASSUME NEW k \in 1..L, w = s[k], w # s[i] PROVE w \in Elements(t)
    <3>1. PICK l \in 1..(L - 1) : from(l) = k
      BY <1>4, <2>2
    <3> QED
      BY <1>1, <1>2, <2>2, <3>1, ElementsOf
  <2>3. w \in Elements(t) => \E k \in 1..(L - 1) : w = t[k]
    BY <1>1, ElementsOf
  <2>4. w \in Elements(s) => \E k \in 1..L : w = s[k]
    BY <1>1, ElementsOf
  <2> QED
    BY <2>1, <2>2, <2>3, <2>4
<1> QED
  BY <1>1, <1>5, <1>7 DEF t

\* An item leaves the buffer.
LEMMA WithoutItem ==
  ASSUME NEW items, ItemsOK(items), NEW i \in 1..Len(items)
  PROVE  /\ ItemsOK(Without(items, i))
         /\ Within(Without(items, i)) = Within(items) \ Elements(items[i])
         /\ Elements(items[i]) \subseteq Within(items)
<1> DEFINE t == Without(items, i)
           L == Len(items)
           from(k) == IF k < i THEN k ELSE k + 1
<1>0. items \in Seq(Item)
  BY DEF ItemsOK
<1>1. /\ t \in Seq(Item) /\ Len(t) = L - 1 /\ L \in Nat
      /\ \A k \in 1..(L - 1) : t[k] = IF k < i THEN items[k] ELSE items[k + 1]
  BY <1>0, WithoutShape
<1> HIDE DEF t
<1>2. \A k \in 1..(L - 1) : from(k) \in 1..L /\ from(k) # i /\ t[k] = items[from(k)]
  BY <1>1
<1>3. \A k, l \in 1..(L - 1) : k < l => from(k) < from(l)
  BY <1>1
<1>4. \A k \in 1..L : k # i => \E l \in 1..(L - 1) : from(l) = k
  <2> TAKE k \in 1..L
  <2>1. CASE k < i
    <3>1. k \in 1..(L - 1) /\ from(k) = k
      BY <1>1, <2>1
    <3> QED
      BY <3>1
  <2>2. CASE k > i
    <3>1. k - 1 \in 1..(L - 1) /\ from(k - 1) = k
      BY <1>1, <2>2
    <3> QED
      BY <3>1
  <2> QED
    BY <1>1, <2>1, <2>2
<1> HIDE DEF from
<1>5. /\ \A w : w \in Within(items) <=> \E k \in 1..L : w \in Elements(items[k])
      /\ \A w : w \in Within(t) <=> \E k \in 1..(L - 1) : w \in Elements(t[k])
  BY <1>0, <1>1, WithinOf
<1>6. ItemsOK(t)
  <2>1. \A k \in 1..(L - 1) : ItemOK(t[k])
    BY <1>0, <1>2 DEF ItemsOK
  <2>2. ASSUME NEW k \in 1..(L - 1), NEW l \in 1..(L - 1), k < l
        PROVE  Before(Elements(t[k]), Elements(t[l]))
    <3>1. /\ from(k) \in DOMAIN items /\ from(l) \in DOMAIN items /\ from(k) < from(l)
          /\ t[k] = items[from(k)] /\ t[l] = items[from(l)]
      <4>1. DOMAIN items = 1..L
        BY <1>0
      <4> QED
        BY <1>2, <1>3, <2>2, <4>1
    <3>2. Before(Elements(items[from(k)]), Elements(items[from(l)]))
      BY <3>1 DEF ItemsOK
    <3> QED
      BY <3>1, <3>2
  <2>3. t \in Seq(Item) /\ DOMAIN t = 1..(L - 1)
    BY <1>1
  <2> HIDE DEF L
  <2> QED
    BY <2>1, <2>2, <2>3 DEF ItemsOK
<1>7. ASSUME NEW k \in 1..L, k # i PROVE Elements(items[k]) \cap Elements(items[i]) = {}
  <2>1. Elements(items[k]) \subseteq Values /\ Elements(items[i]) \subseteq Values
    <3>1. items[k] \in Seq(Values) /\ items[i] \in Seq(Values)
      BY <1>0 DEF Item
    <3> QED
      BY <3>1, ElementsOf
  <2>2. k < i \/ i < k
    BY <1>1, <1>7
  <2>3. Before(Elements(items[k]), Elements(items[i])) \/ Before(Elements(items[i]), Elements(items[k]))
    BY <1>0, <2>2 DEF ItemsOK
  <2> QED
    BY <2>1, <2>3, BeforeApart
<1>8. ASSUME NEW w
      PROVE  w \in Within(t) <=> w \in Within(items) /\ w \notin Elements(items[i])
  <2>1. ASSUME NEW k \in 1..(L - 1), w \in Elements(t[k])
        PROVE  w \in Within(items) /\ w \notin Elements(items[i])
    BY <1>2, <1>5, <1>7, <2>1
  <2>2. ASSUME NEW k \in 1..L, w \in Elements(items[k]), w \notin Elements(items[i])
        PROVE  w \in Within(t)
    BY <1>2, <1>4, <1>5, <2>2
  <2> QED
    BY <1>5, <2>1, <2>2
<1> QED
  BY <1>5, <1>6, <1>8 DEF t

-----------------------------------------------------------------------------
(* Room: the buffer within its capacity, ordinary items out of the reserve. *)

RoomOK(items) ==
    /\ Len(items) <= Capacity
    /\ Cardinality(Droppable(items)) <= Capacity - Reserve

LEMMA DroppableFinite ==
  ASSUME NEW items \in Seq(Item)
  PROVE  /\ Droppable(items) \subseteq 1..Len(items)
         /\ IsFiniteSet(Droppable(items))
         /\ Cardinality(Droppable(items)) \in Nat
         /\ Cardinality(Droppable(items)) <= Len(items)
<1>1. Droppable(items) \in SUBSET (1..Len(items)) /\ Len(items) \in Nat
  BY DEF Droppable
<1>2. IsFiniteSet(1..Len(items)) /\ Cardinality(1..Len(items)) = Len(items)
  <2>1. \A n \in Nat : IsFiniteSet(1..n) /\ Cardinality(1..n) = IF 1 > n THEN 0 ELSE n - 1 + 1
    BY FS_Interval
  <2> QED
    BY <1>1, <2>1
<1>3. IsFiniteSet(Droppable(items)) /\ Cardinality(Droppable(items)) <= Len(items)
  BY <1>1, <1>2, FS_Subset
<1> QED
  BY <1>1, <1>3, FS_CardinalityType

LEMMA EmptyRoom == RoomOK(<< >>)
<1>1. Droppable(<< >>) = {} /\ Len(<< >>) = 0
  BY DEF Droppable
<1>2. Cardinality(Droppable(<< >>)) = 0
  BY <1>1, FS_EmptySet
<1>3. 0 <= Capacity /\ 0 <= Capacity - Reserve
  BY OptionsAssumption
<1> QED
  BY <1>1, <1>2, <1>3 DEF RoomOK

\* No more ordinary items on one side than places for them on the other.
LEMMA DroppableMapped ==
  ASSUME NEW S, NEW T, IsFiniteSet(T), NEW f \in [S -> T],
         \A k, l \in S : f[k] = f[l] => k = l
  PROVE  Cardinality(S) <= Cardinality(T)
<1>1. f \in Injection(S, T)
  BY DEF Injection, IsInjective
<1> QED
  BY <1>1, FS_Injection

LEMMA AppendRoom ==
  ASSUME NEW items, ItemsOK(items), NEW v \in Values,
         Len(items) < Capacity,
         v.kind # "end" => Cardinality(Droppable(items)) < Capacity - Reserve,
         Cardinality(Droppable(items)) <= Capacity - Reserve
  PROVE  RoomOK(Append(items, <<v>>))
<1> DEFINE new == Append(items, <<v>>)
           L == Len(items)
<1>1. /\ new \in Seq(Item) /\ Len(new) = L + 1 /\ L \in Nat
      /\ \A k \in 1..L : new[k] = items[k]
      /\ new[L + 1] = <<v>>
  BY AppendShape DEF ItemsOK
<1> HIDE DEF new
<1>2. Capacity \in Nat /\ Reserve \in Nat
  BY OptionsAssumption
<1>3. /\ IsFiniteSet(Droppable(items)) /\ Cardinality(Droppable(items)) \in Nat
      /\ Droppable(items) \subseteq 1..L
  BY DroppableFinite DEF ItemsOK
<1>4. DOMAIN items = 1..L /\ DOMAIN new = 1..(L + 1)
  BY <1>1 DEF ItemsOK
<1>5. CASE v.kind = "end"
  <2>1. IsPriority(new[L + 1])
    BY <1>1, <1>5, Single DEF IsPriority
  <2>2. Droppable(new) = Droppable(items)
    BY <1>1, <1>4, <2>1 DEF Droppable, IsPriority
  <2> QED
    BY <1>1, <1>2, <2>2 DEF RoomOK, new
<1>6. CASE v.kind # "end"
  <2>1. ~ IsPriority(new[L + 1])
    BY <1>1, <1>6, Single DEF IsPriority
  <2>2. Droppable(new) = Droppable(items) \union {L + 1}
    <3>1. \A k \in 1..L : k \in Droppable(new) <=> k \in Droppable(items)
      BY <1>1, <1>4 DEF Droppable, IsPriority
    <3>2. \A k \in 1..(L + 1) : k \in 1..L \/ k = L + 1
      BY <1>1
    <3>3. Droppable(new) \subseteq 1..(L + 1) /\ L + 1 \in Droppable(new)
      BY <1>1, <1>4, <2>1 DEF Droppable
    <3> QED
      BY <1>3, <3>1, <3>2, <3>3
  <2>3. L + 1 \notin Droppable(items)
    BY <1>1, <1>3
  <2>4. Cardinality(Droppable(new)) = Cardinality(Droppable(items)) + 1
    BY <1>3, <2>2, <2>3, FS_AddElement
  <2> QED
    BY <1>1, <1>2, <1>3, <1>6, <2>4 DEF RoomOK, new
<1> QED
  BY <1>5, <1>6

LEMMA AdmitRoom ==
  ASSUME NEW items, ItemsOK(items), RoomOK(items), NEW v \in Values, Accepts(items, v)
  PROVE  RoomOK(Admit(items, v))
<1> DEFINE new == Admit(items, v)
           L == Len(items)
<1>0. items \in Seq(Item) /\ L \in Nat
  BY DEF ItemsOK
<1>1. CASE Coalesces(items, v)
  <2> DEFINE last == items[L]
  <2>1. /\ new \in Seq(Item) /\ Len(new) = L /\ L \in Nat \ {0}
        /\ last \in Seq(Values) /\ last # << >>
        /\ \A k \in 1..L : new[k] = IF k = L THEN Append(last, v) ELSE items[k]
    BY <1>0, <1>1, CoalesceShape
  <2> HIDE DEF new
  <2>2. Append(last, v)[1] = last[1]
    BY <2>1, AppendProperties, EmptySeq
  <2>3. \A k \in 1..L : new[k][1] = items[k][1]
    BY <2>1, <2>2
  <2>4. Droppable(new) = Droppable(items)
    BY <1>0, <2>1, <2>3 DEF Droppable, IsPriority
  <2> QED
    BY <2>1, <2>4 DEF RoomOK, new
<1>2. CASE ~ Coalesces(items, v)
  <2>1. L < IF v.kind = "end" THEN Capacity ELSE Capacity - Reserve
    BY <1>2 DEF Accepts, CanBuffer
  <2>2. Capacity \in Nat /\ Reserve \in Nat
    BY OptionsAssumption
  <2>3. Cardinality(Droppable(items)) \in Nat /\ Cardinality(Droppable(items)) <= L
    BY <1>0, DroppableFinite
  <2>4. L < Capacity /\ (v.kind # "end" => Cardinality(Droppable(items)) < Capacity - Reserve)
    BY <1>0, <2>1, <2>2, <2>3
  <2>5. Admit(items, v) = Append(items, <<v>>)
    BY <1>2 DEF Admit
  <2> QED
    BY <2>4, <2>5, AppendRoom DEF RoomOK
<1> QED
  BY <1>1, <1>2

LEMMA TailRoom ==
  ASSUME NEW items, ItemsOK(items), RoomOK(items), items # << >>
  PROVE  RoomOK(Tail(items))
<1> DEFINE rest == Tail(items)
           L == Len(items)
           f == [k \in Droppable(rest) |-> k + 1]
<1>1. items \in Seq(Item) /\ L \in Nat \ {0}
  BY EmptySeq DEF ItemsOK
<1>2. rest \in Seq(Item) /\ Len(rest) = L - 1 /\ \A k \in 1..(L - 1) : rest[k] = items[k + 1]
  BY <1>1, HeadTailProperties
<1> HIDE DEF rest
<1>3. Droppable(rest) \subseteq 1..(L - 1) /\ Cardinality(Droppable(rest)) \in Nat
  BY <1>2, DroppableFinite
<1>4. IsFiniteSet(Droppable(items)) /\ Cardinality(Droppable(items)) \in Nat
  BY <1>1, DroppableFinite
<1>5. \A k \in Droppable(rest) : k + 1 \in Droppable(items)
  <2> TAKE k \in Droppable(rest)
  <2>1. k \in 1..(L - 1) /\ k + 1 \in 1..L /\ ~ IsPriority(rest[k]) /\ rest[k] = items[k + 1]
    BY <1>1, <1>2, <1>3 DEF Droppable
  <2> QED
    BY <1>1, <2>1 DEF Droppable
<1>6. f \in [Droppable(rest) -> Droppable(items)]
  BY <1>5
<1>7. \A k, l \in Droppable(rest) : f[k] = f[l] => k = l
  BY <1>3
<1>8. Cardinality(Droppable(rest)) <= Cardinality(Droppable(items))
  <2> HIDE DEF f
  <2> QED
    BY <1>4, <1>6, <1>7, DroppableMapped
<1> QED
  BY <1>1, <1>2, <1>3, <1>4, <1>8, OptionsAssumption DEF RoomOK, rest

\* drop-oldest makes room for the value that it appends.
LEMMA DropRoom ==
  ASSUME NEW items, ItemsOK(items), RoomOK(items), NEW i \in Droppable(items), NEW v \in Values
  PROVE  RoomOK(Append(Without(items, i), <<v>>))
<1> DEFINE rest == Without(items, i)
           L == Len(items)
           f == [k \in Droppable(rest) |-> IF k < i THEN k ELSE k + 1]
<1>1. items \in Seq(Item) /\ L \in Nat /\ i \in 1..L
  BY DroppableFinite DEF ItemsOK
<1>2. /\ rest \in Seq(Item) /\ Len(rest) = L - 1
      /\ \A k \in 1..(L - 1) : rest[k] = IF k < i THEN items[k] ELSE items[k + 1]
  BY <1>1, WithoutShape
<1>3. ItemsOK(rest)
  BY <1>1, WithoutItem
<1> HIDE DEF rest
<1>4. Droppable(rest) \subseteq 1..(L - 1) /\ Cardinality(Droppable(rest)) \in Nat
  BY <1>2, DroppableFinite
<1>5. IsFiniteSet(Droppable(items)) /\ Cardinality(Droppable(items)) \in Nat
  BY <1>1, DroppableFinite
<1>6. /\ IsFiniteSet(Droppable(items) \ {i})
      /\ Cardinality(Droppable(items) \ {i}) = Cardinality(Droppable(items)) - 1
  BY <1>5, FS_RemoveElement
<1>7. ASSUME NEW k \in Droppable(rest)
      PROVE  (IF k < i THEN k ELSE k + 1) \in Droppable(items) \ {i}
  <2>1. k \in 1..(L - 1) /\ ~ IsPriority(rest[k])
    BY <1>4 DEF Droppable
  <2>2. CASE k < i
    BY <1>1, <1>2, <2>1, <2>2 DEF Droppable
  <2>3. CASE ~ (k < i)
    <3>1. rest[k] = items[k + 1] /\ k + 1 \in 1..L /\ k + 1 # i
      BY <1>1, <1>2, <2>1, <2>3
    <3> QED
      BY <1>1, <2>1, <2>3, <3>1 DEF Droppable
  <2> QED
    BY <2>2, <2>3
<1>8. f \in [Droppable(rest) -> Droppable(items) \ {i}]
  BY <1>7
<1>9. \A k, l \in Droppable(rest) : f[k] = f[l] => k = l
  BY <1>1, <1>4
<1>10. Cardinality(Droppable(rest)) <= Cardinality(Droppable(items)) - 1
  <2> HIDE DEF f
  <2> QED
    BY <1>6, <1>8, <1>9, DroppableMapped
<1>11. Capacity \in Nat /\ Reserve \in Nat
  BY OptionsAssumption
<1>12. Len(rest) < Capacity /\ Cardinality(Droppable(rest)) < Capacity - Reserve
  BY <1>1, <1>2, <1>4, <1>5, <1>10, <1>11 DEF RoomOK
<1>13. RoomOK(Append(rest, <<v>>))
  BY <1>3, <1>4, <1>11, <1>12, AppendRoom
<1> QED
  BY <1>13 DEF rest

-----------------------------------------------------------------------------
\* What flushProducers() leaves: the waiting values that entered are in the buffer
\* behind what was there, the others wait on, and only behind a buffer with items.
LEMMA FlushKeeps ==
  ASSUME NEW items, ItemsOK(items), producers \in Seq(Values), Increasing(producers),
         Before(Within(items), Elements(producers)), Flush(items)
  PROVE  /\ ItemsOK(values') /\ producers' \in Seq(Values) /\ Increasing(producers')
         /\ Within(values') \union Elements(producers') = Within(items) \union Elements(producers)
         /\ Before(Within(values'), Elements(producers'))
         /\ RoomOK(items) => RoomOK(values')
         /\ Reserve < Capacity /\ producers' # << >> => values' # << >>
<1> DEFINE L == Len(producers)
<1>1. PICK filled, count : Flushes(items, filled, count)
  BY FlushEffect
<1>2. /\ count \in 0..L /\ L \in Nat /\ filled[0] = items
      /\ \A i \in 1..count : /\ Accepts(filled[i - 1], producers[i])
                             /\ filled[i] = Admit(filled[i - 1], producers[i])
      /\ count < L => ~ Accepts(filled[count], producers[count + 1])
      /\ values' = filled[count] /\ producers' = SubSeq(producers, count + 1, L)
  BY <1>1 DEF Flushes
<1>3. \A v : v \in Elements(producers) <=> \E i \in 1..L : v = producers[i]
  BY ElementsOf
<1> DEFINE First(n) == {producers[i] : i \in 1..n}
           Good(n) == /\ ItemsOK(filled[n])
                      /\ Within(filled[n]) = Within(items) \union First(n)
                      /\ RoomOK(items) => RoomOK(filled[n])
                      /\ n > 0 => filled[n] # << >>
           S == {n \in Nat : n <= count => Good(n)}
<1>4. 0 \in S
  BY <1>2
<1>5. ASSUME NEW n \in Nat, n \in S PROVE n + 1 \in S
  <2> SUFFICES ASSUME n + 1 <= count PROVE Good(n + 1)
    OBVIOUS
  <2> DEFINE v == producers[n + 1]
             now == filled[n]
             new == filled[n + 1]
  <2>1. Good(n) /\ n + 1 \in 1..count /\ n + 1 \in 1..L
    BY <1>2, <1>5
  <2>2. Accepts(now, v) /\ new = Admit(now, v) /\ v \in Values
    <3>1. (n + 1) - 1 = n
      OBVIOUS
    <3> QED
      BY <1>2, <2>1, <3>1
  <2>3. v \in Elements(producers)
    BY <1>3, <2>1
  <2>4. Before(Within(now), {v})
    <3> SUFFICES ASSUME NEW w \in Within(now), w.by = v.by PROVE w.n < v.n
      BY DEF Before
    <3>1. CASE w \in Within(items)
      BY <2>3, <3>1 DEF Before
    <3>2. CASE w \in First(n)
      <4>1. PICK i \in 1..n : w = producers[i]
        BY <3>2
      <4>2. i \in DOMAIN producers /\ n + 1 \in DOMAIN producers /\ i < n + 1
        BY <1>2, <2>1
      <4> QED
        BY <4>1, <4>2 DEF Increasing
    <3> QED
      BY <2>1, <3>1, <3>2
  <2>5. ItemsOK(new) /\ Within(new) = Within(now) \union {v} /\ new # << >>
    <3> HIDE DEF now, new, v, S, Good
    <3>1. ItemsOK(now)
      BY <2>1 DEF Good, now
    <3> QED
      BY <2>2, <2>4, <3>1, AdmitKeeps
  <2>6. RoomOK(items) => RoomOK(new)
    <3> HIDE DEF now, new, v, S, Good
    <3>1. ItemsOK(now) /\ (RoomOK(items) => RoomOK(now))
      BY <2>1 DEF Good, now
    <3> QED
      BY <2>2, <3>1, AdmitRoom
  <2>7. First(n + 1) = First(n) \union {v}
    <3>1. \A i : i \in 1..(n + 1) <=> i \in 1..n \/ i = n + 1
      OBVIOUS
    <3> QED
      BY <3>1
  <2>8. Within(new) = Within(items) \union First(n + 1)
    <3>1. Within(now) = Within(items) \union First(n)
      BY <2>1
    <3> HIDE DEF First, now, new, v, S, Good
    <3> QED
      BY <2>5, <2>7, <3>1
  <2> QED
    <3> HIDE DEF First, S
    <3> QED
      BY <2>5, <2>6, <2>8
<1>6. Good(count)
  <2>1. count \in Nat
    BY <1>2
  <2> HIDE DEF Good
  <2>2. count \in S
    <3> HIDE DEF S
    <3> QED
      BY <1>4, <1>5, <2>1, NatSetInduction
  <2> QED
    BY <2>1, <2>2
<1>7. /\ producers' \in Seq(Values) /\ Len(producers') = L - count
      /\ \A k \in 1..(L - count) : producers'[k] = producers[count + k]
  <2>1. \A i \in (count + 1)..L : producers[i] \in Values
    BY <1>2
  <2>2. /\ SubSeq(producers, count + 1, L) \in Seq(Values)
        /\ Len(SubSeq(producers, count + 1, L)) =
             IF count + 1 <= L THEN L - (count + 1) + 1 ELSE 0
        /\ \A k \in 1..(L - (count + 1) + 1) :
             SubSeq(producers, count + 1, L)[k] = producers[(count + 1) + k - 1]
    <3>1. count + 1 \in Int /\ L \in Int
      BY <1>2
    <3> QED
      BY <2>1, <3>1, SubSeqProperties
  <2>3. L - (count + 1) + 1 = L - count /\ \A k \in 1..(L - count) : (count + 1) + k - 1 = count + k
    BY <1>2
  <2>4. producers' = SubSeq(producers, count + 1, L)
    BY <1>2
  <2>5. Len(producers') = L - count
    <3>1. Len(producers') = IF count + 1 <= L THEN L - (count + 1) + 1 ELSE 0
      BY <2>2, <2>4
    <3>2. (IF count + 1 <= L THEN L - (count + 1) + 1 ELSE 0) = L - count
      BY <1>2
    <3> QED
      BY <3>1, <3>2
  <2>6. ASSUME NEW k \in 1..(L - count) PROVE producers'[k] = producers[count + k]
    BY <2>2, <2>3, <2>4
  <2> QED
    BY <2>2, <2>4, <2>5, <2>6
<1>8. \A v : v \in Elements(producers') <=> \E k \in 1..(L - count) : v = producers[count + k]
  <2>1. \A v : v \in Elements(producers') <=> \E k \in 1..Len(producers') : v = producers'[k]
    BY <1>7, ElementsOf
  <2> QED
    BY <1>7, <2>1
<1>9. Increasing(producers')
  <2>1. DOMAIN producers' = 1..(L - count) /\ DOMAIN producers = 1..L
    BY <1>7
  <2>2. \A k \in 1..(L - count) : count + k \in 1..L
    BY <1>2
  <2>3. \A k, l \in 1..(L - count) : k < l => count + k < count + l
    BY <1>2
  <2> QED
    BY <1>7, <2>1, <2>2, <2>3 DEF Increasing
<1>10. Within(values') \union Elements(producers') = Within(items) \union Elements(producers)
  <2>1. ASSUME NEW v
        PROVE  v \in Elements(producers) <=> v \in First(count) \/ v \in Elements(producers')
    <3>1. ASSUME NEW i \in 1..L, v = producers[i]
          PROVE  v \in First(count) \/ v \in Elements(producers')
      <4>1. CASE i <= count
        <5>1. i \in 1..count
          BY <1>2, <4>1
        <5> QED
          BY <3>1, <5>1
      <4>2. CASE i > count
        <5>1. i - count \in 1..(L - count) /\ count + (i - count) = i
          BY <1>2, <4>2
        <5> QED
          BY <1>8, <3>1, <5>1
      <4> QED
        BY <1>2, <4>1, <4>2
    <3>2. ASSUME NEW i \in 1..count, v = producers[i] PROVE v \in Elements(producers)
      <4>1. i \in 1..L
        BY <1>2
      <4> QED
        BY <1>3, <3>2, <4>1
    <3>3. ASSUME NEW k \in 1..(L - count), v = producers[count + k] PROVE v \in Elements(producers)
      <4>1. count + k \in 1..L
        BY <1>2
      <4> QED
        BY <1>3, <3>3, <4>1
    <3> QED
      BY <1>3, <1>8, <3>1, <3>2, <3>3
  <2>2. Within(values') = Within(items) \union First(count)
    BY <1>2, <1>6
  <2> HIDE DEF First, S, Good
  <2> QED
    BY <2>1, <2>2
<1>11. Before(Within(values'), Elements(producers'))
  <2> SUFFICES ASSUME NEW v \in Within(values'), NEW w \in Elements(producers'), v.by = w.by
               PROVE  v.n < w.n
    BY DEF Before
  <2>1. PICK k \in 1..(L - count) : w = producers[count + k]
    BY <1>8
  <2>2. count + k \in 1..L
    BY <1>2
  <2>3. CASE v \in Within(items)
    BY <1>3, <2>1, <2>2, <2>3 DEF Before
  <2>4. CASE v \in First(count)
    <3>1. PICK i \in 1..count : v = producers[i]
      BY <2>4
    <3>2. i \in DOMAIN producers /\ count + k \in DOMAIN producers /\ i < count + k
      BY <1>2, <2>2
    <3> QED
      BY <2>1, <3>1, <3>2 DEF Increasing
  <2> QED
    BY <1>2, <1>6, <2>3, <2>4
<1>12. ASSUME Reserve < Capacity, producers' # << >> PROVE values' # << >>
  <2> SUFFICES ASSUME values' = << >> PROVE FALSE
    OBVIOUS
  <2>1. count < L
    <3>1. Len(producers') # 0
      BY <1>7, <1>12, EmptySeq
    <3> QED
      BY <1>2, <1>7, <3>1
  <2>2. ~ Accepts(<< >>, producers[count + 1])
    BY <1>2, <2>1
  <2>3. Capacity \in Nat \ {0} /\ Reserve \in Nat
    BY OptionsAssumption
  <2>4. Len(<< >>) = 0
    OBVIOUS
  <2> QED
    BY <1>12, <2>2, <2>3, <2>4 DEF Accepts, CanBuffer
<1>13. ItemsOK(values') /\ (RoomOK(items) => RoomOK(values'))
  BY <1>2, <1>6
<1> QED
  BY <1>7, <1>9, <1>10, <1>11, <1>12, <1>13

-----------------------------------------------------------------------------
(* The invariant. *)

\* The line: the values delivered, buffered and waiting, in that order.
Line(d, w, q) == Elements(d) \union Within(w) \union Elements(q)

LineOK(d, w, q) ==
    /\ d \in Seq(Values) /\ q \in Seq(Values) /\ ItemsOK(w)
    /\ Increasing(d) /\ Increasing(q)
    /\ Before(Elements(d), Within(w))
    /\ Before(Elements(d), Elements(q))
    /\ Before(Within(w), Elements(q))

\* Of s[p] values that p has pushed, each is in the line L, refused (r) or dropped (x).
AccountOK(L, r, x, s) ==
    /\ r \subseteq Values /\ x \subseteq Values
    /\ r \cap x = {} /\ L \cap r = {} /\ L \cap x = {}
    /\ s \in [Producers -> 0..MaxPushes]
    /\ \A v \in L \union r \union x : v.n <= s[v.by]
    /\ \A p \in Producers : \A n \in 1..s[p] :
         \E v \in L \union r \union x : v.by = p /\ v.n = n

\* Who waits, and what for: consumers at an empty buffer, producers at one that is not
\* empty, and nobody at a queue that has ended.
WaitOK ==
    /\ overflowStrategy \in Overflows
    /\ state \in {"open", "closed", "failed"}
    /\ finished \subseteq Iterators
    /\ consumers \in Seq(Iterators \ finished)
    /\ consumers # << >> => values = << >>
    /\ state # "open" => producers = << >> /\ consumers = << >>
    /\ Reserve < Capacity /\ producers # << >> => values # << >>

\* drop-oldest discards no priority value.
PolicyOK ==
    state = "open" /\ overflowStrategy = "drop-oldest" =>
        \A v \in dropped : ~ IsPriority(<<v>>)

QueueInv ==
    /\ LineOK(delivered, values, producers)
    /\ AccountOK(Line(delivered, values, producers), refused, dropped, sent)
    /\ WaitOK
    /\ RoomOK(values)
    /\ PolicyOK

-----------------------------------------------------------------------------
(* Its parts follow from it. *)

LEMMA LineInValues ==
  ASSUME NEW d, NEW w, NEW q, LineOK(d, w, q)
  PROVE  /\ Line(d, w, q) \subseteq Values
         /\ Elements(d) \cap Within(w) = {}
         /\ Elements(d) \cap Elements(q) = {}
         /\ Within(w) \cap Elements(q) = {}
<1>1. Elements(d) \subseteq Values /\ Elements(q) \subseteq Values
  BY ElementsOf DEF LineOK
<1>2. Within(w) \subseteq Values
  BY WithinOf DEF LineOK, ItemsOK
<1> QED
  BY <1>1, <1>2, BeforeApart DEF LineOK, Line

LEMMA InvTypes == QueueInv => TypeOK
<1> SUFFICES ASSUME QueueInv PROVE TypeOK
  OBVIOUS
<1>1. values \in Seq(Seq(Values) \ {<< >>}) /\ producers \in Seq(Values) /\ delivered \in Seq(Values)
  BY DEF QueueInv, LineOK, ItemsOK, Item
<1>2. refused \subseteq Values /\ dropped \subseteq Values /\ sent \in [Producers -> 0..MaxPushes]
  BY DEF QueueInv, AccountOK
<1> QED
  BY <1>1, <1>2 DEF QueueInv, WaitOK, TypeOK

LEMMA InvOrder == QueueInv => ProducerOrderKept
BY DEF QueueInv, LineOK, Increasing, ProducerOrderKept

LEMMA InvRoom == QueueInv => ReserveKept
BY DEF QueueInv, RoomOK, Droppable, PolicyOK, ReserveKept

LEMMA InvWaits == QueueInv /\ Reserve < Capacity => NobodyWaitsInVain
BY DEF QueueInv, WaitOK, NobodyWaitsInVain, NobodyWaitsForEachOther, EndReleasesWaiters

LEMMA InvAccount == QueueInv => NothingLostOrDuplicated
<1> SUFFICES ASSUME QueueInv PROVE NothingLostOrDuplicated
  OBVIOUS
<1> DEFINE places == <<Elements(delivered), Within(values), Elements(producers), refused, dropped>>
           L == Line(delivered, values, producers)
<1>1. LineOK(delivered, values, producers) /\ AccountOK(L, refused, dropped, sent)
  BY DEF QueueInv
<1>2. /\ L \subseteq Values
      /\ Elements(delivered) \cap Within(values) = {}
      /\ Elements(delivered) \cap Elements(producers) = {}
      /\ Within(values) \cap Elements(producers) = {}
  BY <1>1, LineInValues
<1>3. /\ DOMAIN places = 1..5
      /\ places[1] = Elements(delivered) /\ places[2] = Within(values)
      /\ places[3] = Elements(producers) /\ places[4] = refused /\ places[5] = dropped
  OBVIOUS
<1>4. /\ L \cap refused = {} /\ L \cap dropped = {} /\ refused \cap dropped = {}
      /\ refused \subseteq Values /\ dropped \subseteq Values
      /\ sent \in [Producers -> 0..MaxPushes]
      /\ \A v \in L \union refused \union dropped : v.n <= sent[v.by]
      /\ \A p \in Producers : \A n \in 1..sent[p] :
           \E v \in L \union refused \union dropped : v.by = p /\ v.n = n
  BY <1>1 DEF AccountOK
<1>5. L = Elements(delivered) \union Within(values) \union Elements(producers)
  BY DEF Line
<1> HIDE DEF places, L
<1>6. \A i, j \in DOMAIN places : i # j => places[i] \cap places[j] = {}
  <2> SUFFICES ASSUME NEW i \in 1..5, NEW j \in 1..5, i # j PROVE places[i] \cap places[j] = {}
    BY <1>3
  <2>1. /\ i = 1 \/ i = 2 \/ i = 3 \/ i = 4 \/ i = 5
        /\ j = 1 \/ j = 2 \/ j = 3 \/ j = 4 \/ j = 5
    OBVIOUS
  <2> QED
    BY <1>2, <1>3, <1>4, <1>5, <2>1
<1>7. \A v : (\E i \in DOMAIN places : v \in places[i]) <=> v \in L \union refused \union dropped
  <2>1. \A i \in DOMAIN places : i = 1 \/ i = 2 \/ i = 3 \/ i = 4 \/ i = 5
    BY <1>3
  <2>2. 1 \in DOMAIN places /\ 2 \in DOMAIN places /\ 3 \in DOMAIN places /\ 4 \in DOMAIN places /\ 5 \in DOMAIN places
    BY <1>3
  <2> QED
    BY <1>3, <1>5, <2>1, <2>2
<1>8. ASSUME NEW p \in Producers, NEW n \in 1..MaxPushes
      PROVE  n <= sent[p] <=> \E i \in DOMAIN places : \E v \in places[i] : v.by = p /\ v.n = n
  <2>1. n <= sent[p] => n \in 1..sent[p]
    BY <1>4
  <2>2. n <= sent[p] <=> \E v \in L \union refused \union dropped : v.by = p /\ v.n = n
    BY <1>4, <2>1
  <2> QED
    BY <1>7, <2>2
<1>9. \A i, j \in DOMAIN delivered : i # j => delivered[i] # delivered[j]
  <2> SUFFICES ASSUME NEW i \in DOMAIN delivered, NEW j \in DOMAIN delivered, i # j,
                      delivered[i] = delivered[j]
               PROVE  FALSE
    OBVIOUS
  <2>1. i \in Nat /\ j \in Nat /\ delivered[i] \in Values /\ Increasing(delivered)
    BY <1>1 DEF LineOK
  <2>2. delivered[i].n \in Int
    BY <2>1 DEF Values
  <2>3. i < j \/ j < i
    BY <2>1
  <2> QED
    BY <2>1, <2>2, <2>3 DEF Increasing
<1> QED
  BY <1>6, <1>8, <1>9 DEF NothingLostOrDuplicated, places

-----------------------------------------------------------------------------
(* How the line and the account change. *)

LEMMA AccountMove ==
  ASSUME NEW L, NEW r, NEW x, NEW s, AccountOK(L, r, x, s), NEW D, D \subseteq L, L \subseteq Values
  PROVE  AccountOK(L \ D, r \union D, x, s) /\ AccountOK(L \ D, r, x \union D, s)
<1>1. /\ (L \ D) \union (r \union D) \union x = L \union r \union x
      /\ (L \ D) \union r \union (x \union D) = L \union r \union x
  OBVIOUS
<1> DEFINE all == L \union r \union x
<1>2. /\ \A v \in all : v.n <= s[v.by]
      /\ \A p \in Producers : \A n \in 1..s[p] : \E v \in all : v.by = p /\ v.n = n
  BY DEF AccountOK
<1> HIDE DEF all
<1>3. all = L \union r \union x
  BY DEF all
<1>4. /\ r \union D \subseteq Values /\ x \union D \subseteq Values
      /\ (r \union D) \cap x = {} /\ r \cap (x \union D) = {}
      /\ (L \ D) \cap (r \union D) = {} /\ (L \ D) \cap x = {}
      /\ (L \ D) \cap r = {} /\ (L \ D) \cap (x \union D) = {}
  BY DEF AccountOK
<1>5. r \subseteq Values /\ x \subseteq Values /\ s \in [Producers -> 0..MaxPushes]
  BY DEF AccountOK
<1> QED
  BY <1>1, <1>2, <1>3, <1>4, <1>5 DEF AccountOK

LEMMA AccountPush ==
  ASSUME NEW L, NEW r, NEW x, NEW s, AccountOK(L, r, x, s), L \subseteq Values,
         NEW p \in Producers, s[p] < MaxPushes,
         NEW v \in [by : {p}, n : {s[p] + 1}, kind : Kinds]
  PROVE  LET t == [s EXCEPT ![p] = @ + 1]
         IN  /\ v \in Values /\ Before(L, {v})
             /\ AccountOK(L \union {v}, r, x, t)
             /\ AccountOK(L, r \union {v}, x, t)
             /\ AccountOK(L, r, x \union {v}, t)
<1> DEFINE t == [s EXCEPT ![p] = @ + 1]
           all == L \union r \union x
<1>1. /\ s \in [Producers -> 0..MaxPushes] /\ s[p] \in Nat /\ MaxPushes \in Nat
      /\ r \subseteq Values /\ x \subseteq Values
      /\ r \cap x = {} /\ L \cap r = {} /\ L \cap x = {}
  BY OptionsAssumption DEF AccountOK
<1>2. v.by = p /\ v.n = s[p] + 1 /\ v.kind \in Kinds
  OBVIOUS
<1>3. v \in Values
  <2>1. s[p] + 1 \in 1..MaxPushes
    BY <1>1
  <2> QED
    BY <2>1 DEF Values
<1>4. /\ \A w \in all : w.n <= s[w.by] /\ w \in Values
      /\ \A q \in Producers : \A n \in 1..s[q] : \E w \in all : w.by = q /\ w.n = n
  BY <1>1 DEF AccountOK
<1>5. v \notin all
  BY <1>1, <1>2, <1>4
<1>6. Before(L, {v})
  <2> SUFFICES ASSUME NEW w \in L, w.by = v.by PROVE w.n < v.n
    BY DEF Before
  <2>1. w.n <= s[p] /\ w.n \in Int
    BY <1>2, <1>4 DEF Values
  <2> QED
    BY <1>1, <1>2, <2>1
<1>7. /\ t \in [Producers -> 0..MaxPushes]
      /\ \A q \in Producers : t[q] = IF q = p THEN s[p] + 1 ELSE s[q]
  <2>1. s[p] + 1 \in 0..MaxPushes
    BY <1>1
  <2> QED
    BY <1>1, <2>1
<1> HIDE DEF t, all
<1>8. \A w \in all \union {v} : w.n <= t[w.by]
  <2> SUFFICES ASSUME NEW w \in all \union {v} PROVE w.n <= t[w.by]
    OBVIOUS
  <2>1. CASE w = v
    BY <1>1, <1>2, <1>7, <2>1
  <2>2. CASE w \in all
    <3>1. w.n \in Int /\ w.by \in Producers /\ w.n <= s[w.by] /\ s[w.by] \in Int
      BY <1>1, <1>4, <2>2 DEF Values
    <3> QED
      BY <1>1, <1>7, <3>1
  <2> QED
    BY <2>1, <2>2
<1>9. \A q \in Producers : \A n \in 1..t[q] : \E w \in all \union {v} : w.by = q /\ w.n = n
  <2> SUFFICES ASSUME NEW q \in Producers, NEW n \in 1..t[q]
               PROVE  \E w \in all \union {v} : w.by = q /\ w.n = n
    OBVIOUS
  <2>1. CASE q = p /\ n = s[p] + 1
    BY <1>2, <2>1
  <2>2. CASE ~ (q = p /\ n = s[p] + 1)
    <3>1. n \in 1..s[q]
      BY <1>1, <1>7, <2>2
    <3> QED
      BY <1>4, <3>1
  <2> QED
    BY <2>1, <2>2
<1>10. v \notin L /\ v \notin r /\ v \notin x
  BY <1>5 DEF all
<1>11. /\ (L \union {v}) \union r \union x = all \union {v}
       /\ L \union (r \union {v}) \union x = all \union {v}
       /\ L \union r \union (x \union {v}) = all \union {v}
  BY DEF all
<1>12. AccountOK(L \union {v}, r, x, t)
  <2>1. (L \union {v}) \cap r = {} /\ (L \union {v}) \cap x = {}
    BY <1>1, <1>10
  <2> QED
    BY <1>1, <1>7, <1>8, <1>9, <1>11, <2>1 DEF AccountOK
<1>13. AccountOK(L, r \union {v}, x, t)
  <2>1. (r \union {v}) \cap x = {} /\ L \cap (r \union {v}) = {} /\ r \union {v} \subseteq Values
    BY <1>1, <1>3, <1>10
  <2> QED
    BY <1>1, <1>7, <1>8, <1>9, <1>11, <2>1 DEF AccountOK
<1>14. AccountOK(L, r, x \union {v}, t)
  <2>1. r \cap (x \union {v}) = {} /\ L \cap (x \union {v}) = {} /\ x \union {v} \subseteq Values
    BY <1>1, <1>3, <1>10
  <2> QED
    BY <1>1, <1>7, <1>8, <1>9, <1>11, <2>1 DEF AccountOK
<1> QED
  BY <1>3, <1>6, <1>12, <1>13, <1>14 DEF t

\* A new value at the end of what is delivered, buffered or waiting.
LEMMA LineGrows ==
  ASSUME NEW d, NEW w, NEW q, LineOK(d, w, q), NEW v \in Values, Before(Line(d, w, q), {v}),
         Before({v}, Elements(q))
  PROVE  /\ w = << >> => /\ LineOK(Append(d, v), w, q)
                         /\ Line(Append(d, v), w, q) = Line(d, w, q) \union {v}
         /\ \A w2 : ItemsOK(w2) /\ Within(w2) = Within(w) \union {v} =>
                      /\ LineOK(d, w2, q)
                      /\ Line(d, w2, q) = Line(d, w, q) \union {v}
         /\ LineOK(d, w, Append(q, v))
         /\ Line(d, w, Append(q, v)) = Line(d, w, q) \union {v}
<1>1. /\ d \in Seq(Values) /\ q \in Seq(Values) /\ ItemsOK(w)
      /\ Increasing(d) /\ Increasing(q)
      /\ Before(Elements(d), Within(w)) /\ Before(Elements(d), Elements(q))
      /\ Before(Within(w), Elements(q))
  BY DEF LineOK
<1>2. Before(Elements(d), {v}) /\ Before(Within(w), {v}) /\ Before(Elements(q), {v})
  BY DEF Line, Before
<1>3. /\ Append(d, v) \in Seq(Values) /\ Elements(Append(d, v)) = Elements(d) \union {v}
      /\ Increasing(Append(d, v))
      /\ Append(q, v) \in Seq(Values) /\ Elements(Append(q, v)) = Elements(q) \union {v}
      /\ Increasing(Append(q, v))
  BY <1>1, <1>2, AppendElements, AppendIncreasing
<1>4. ASSUME w = << >>
      PROVE  /\ LineOK(Append(d, v), w, q)
             /\ Line(Append(d, v), w, q) = Line(d, w, q) \union {v}
  <2>1. Within(w) = {}
    BY <1>4, ElementsEmpty
  <2>2. Before(Elements(Append(d, v)), Within(w)) /\ Before(Elements(Append(d, v)), Elements(q))
    BY <1>1, <1>3, <2>1 DEF Before
  <2>3. Line(Append(d, v), w, q) = Line(d, w, q) \union {v}
    BY <1>3 DEF Line
  <2> QED
    BY <1>1, <1>3, <2>2, <2>3 DEF LineOK
<1>5. ASSUME NEW w2, ItemsOK(w2), Within(w2) = Within(w) \union {v}
      PROVE  LineOK(d, w2, q) /\ Line(d, w2, q) = Line(d, w, q) \union {v}
  <2>1. Before(Elements(d), Within(w2)) /\ Before(Within(w2), Elements(q))
    BY <1>1, <1>2, <1>5 DEF Before
  <2>2. Line(d, w2, q) = Line(d, w, q) \union {v}
    BY <1>5 DEF Line
  <2> QED
    BY <1>1, <1>5, <2>1, <2>2 DEF LineOK
<1>6. LineOK(d, w, Append(q, v)) /\ Line(d, w, Append(q, v)) = Line(d, w, q) \union {v}
  <2>1. Before(Elements(d), Elements(Append(q, v))) /\ Before(Within(w), Elements(Append(q, v)))
    BY <1>1, <1>2, <1>3 DEF Before
  <2>2. Line(d, w, Append(q, v)) = Line(d, w, q) \union {v}
    BY <1>3 DEF Line
  <2> QED
    BY <1>1, <1>3, <2>1, <2>2 DEF LineOK
<1> QED
  BY <1>4, <1>5, <1>6

\* What a push starts from.
LEMMA PushStarts ==
  ASSUME QueueInv, NEW p \in Producers, NEW v, Pushes(p, v)
  PROVE  LET L == Line(delivered, values, producers)
         IN  /\ v \in Values /\ Before(L, {v}) /\ Before({v}, Elements(producers))
             /\ AccountOK(L \union {v}, refused, dropped, sent')
             /\ AccountOK(L, refused \union {v}, dropped, sent')
             /\ AccountOK(L, refused, dropped \union {v}, sent')
<1> DEFINE L == Line(delivered, values, producers)
<1>1. LineOK(delivered, values, producers) /\ AccountOK(L, refused, dropped, sent)
  BY DEF QueueInv
<1>2. L \subseteq Values
  BY <1>1, LineInValues
<1>3. /\ ~ Waiting(p) /\ sent[p] < MaxPushes /\ sent' = [sent EXCEPT ![p] = @ + 1]
      /\ v \in [by : {p}, n : {sent[p] + 1}, kind : Kinds]
  BY DEF Pushes
<1>4. Before({v}, Elements(producers))
  <2>1. v.by = p
    BY <1>3
  <2>2. \A w \in Elements(producers) : w.by # p
    BY <1>3 DEF Waiting, Elements
  <2> QED
    BY <2>1, <2>2 DEF Before
<1> HIDE DEF L
<1>5. /\ v \in Values /\ Before(L, {v})
      /\ AccountOK(L \union {v}, refused, dropped, sent')
      /\ AccountOK(L, refused \union {v}, dropped, sent')
      /\ AccountOK(L, refused, dropped \union {v}, sent')
  BY <1>1, <1>2, <1>3, AccountPush
<1> QED
  BY <1>4, <1>5 DEF L

LEMMA PrimedParts ==
  ASSUME LineOK(delivered', values', producers'),
         AccountOK(Line(delivered', values', producers'), refused', dropped', sent'),
         WaitOK', RoomOK(values'), PolicyOK'
  PROVE  QueueInv'
BY DEF QueueInv, LineOK, AccountOK, Line, RoomOK, ItemsOK, ItemOK, Increasing, Before, Within,
       Elements, Droppable, IsPriority, Item

-----------------------------------------------------------------------------
(* The actions. *)

\* A waiting consumer takes the value that is pushed.
LEMMA HandOverKeeps ==
  ASSUME QueueInv, NEW p \in Producers, NEW v, Pushes(p, v), HandOver(v),
         UNCHANGED <<overflowStrategy, state, producers, finished, dropped>>
  PROVE  QueueInv'
<1> DEFINE L == Line(delivered, values, producers)
<1>1. /\ v \in Values /\ Before(L, {v}) /\ Before({v}, Elements(producers))
      /\ AccountOK(L \union {v}, refused, dropped, sent')
  BY PushStarts
<1>2. /\ delivered' = Append(delivered, v) /\ values' = values /\ producers' = producers
      /\ refused' = refused /\ dropped' = dropped
      /\ consumers # << >> /\ consumers' = Tail(consumers)
  BY DEF HandOver
<1>3. LineOK(delivered, values, producers) /\ RoomOK(values) /\ PolicyOK /\ WaitOK
  BY DEF QueueInv
<1>4. values = << >>
  BY <1>2, <1>3 DEF WaitOK
<1> HIDE DEF L
<1>5. /\ LineOK(delivered', values', producers')
      /\ Line(delivered', values', producers') = L \union {v}
  BY <1>1, <1>2, <1>3, <1>4, LineGrows DEF L
<1>6. consumers' \in Seq(Iterators \ finished)
  BY <1>2, <1>3, HeadTailProperties DEF WaitOK
<1>7. WaitOK'
  BY <1>2, <1>3, <1>4, <1>6 DEF WaitOK
<1>8. PolicyOK'
  BY <1>2, <1>3 DEF PolicyOK, IsPriority
<1> QED
  BY <1>1, <1>2, <1>3, <1>5, <1>7, <1>8, PrimedParts

\* The buffer accepts the value that is pushed.
LEMMA BufferKeeps ==
  ASSUME QueueInv, NEW p \in Producers, NEW v, Pushes(p, v), Buffer(v),
         UNCHANGED <<overflowStrategy, state, producers, finished, dropped>>
  PROVE  QueueInv'
<1> DEFINE L == Line(delivered, values, producers)
<1>1. /\ v \in Values /\ Before(L, {v}) /\ Before({v}, Elements(producers))
      /\ AccountOK(L \union {v}, refused, dropped, sent')
  BY PushStarts
<1>2. /\ delivered' = delivered /\ values' = Admit(values, v) /\ producers' = producers
      /\ refused' = refused /\ dropped' = dropped
      /\ consumers = << >> /\ consumers' = consumers /\ Accepts(values, v)
  BY DEF Buffer
<1>3. LineOK(delivered, values, producers) /\ RoomOK(values) /\ PolicyOK /\ WaitOK /\ ItemsOK(values)
  BY DEF QueueInv, LineOK
<1>4. Before(Within(values), {v})
  BY <1>1 DEF Line, Before
<1>5. ItemsOK(values') /\ Within(values') = Within(values) \union {v} /\ values' # << >>
  BY <1>1, <1>2, <1>3, <1>4, AdmitKeeps
<1>6. RoomOK(values')
  BY <1>1, <1>2, <1>3, AdmitRoom
<1> HIDE DEF L
<1>7. /\ LineOK(delivered', values', producers')
      /\ Line(delivered', values', producers') = L \union {v}
  BY <1>1, <1>2, <1>3, <1>5, LineGrows DEF L
<1>8. WaitOK'
  BY <1>2, <1>3, <1>5 DEF WaitOK
<1>9. PolicyOK'
  BY <1>2, <1>3 DEF PolicyOK, IsPriority
<1> QED
  BY <1>1, <1>2, <1>6, <1>7, <1>8, <1>9, PrimedParts

\* The push throws, or is rejected.
LEMMA RefuseKeeps ==
  ASSUME QueueInv, NEW p \in Producers, NEW v, Pushes(p, v), Refuse(v),
         UNCHANGED <<overflowStrategy, state, producers, finished, dropped>>
  PROVE  QueueInv'
<1> DEFINE L == Line(delivered, values, producers)
<1>1. AccountOK(L, refused \union {v}, dropped, sent')
  BY PushStarts
<1>2. /\ delivered' = delivered /\ values' = values /\ producers' = producers
      /\ refused' = refused \union {v} /\ dropped' = dropped /\ consumers' = consumers
  BY DEF Refuse
<1>3. LineOK(delivered, values, producers) /\ RoomOK(values) /\ PolicyOK /\ WaitOK
  BY DEF QueueInv
<1>4. WaitOK' /\ PolicyOK'
  BY <1>2, <1>3 DEF WaitOK, PolicyOK, IsPriority
<1> QED
  BY <1>1, <1>2, <1>3, <1>4, PrimedParts

LEMMA PushKeeps ==
  ASSUME QueueInv, NEW p \in Producers, Push(p)
  PROVE  QueueInv'
<1> DEFINE L == Line(delivered, values, producers)
<1>0. PICK v \in Values :
        /\ Pushes(p, v)
        /\ \/ Refuse(v) /\ UNCHANGED dropped
           \/ (HandOver(v) \/ Buffer(v)) /\ UNCHANGED dropped
           \/ /\ Full(v) /\ overflowStrategy = "drop-newest"
              /\ dropped' = dropped \union {v}
              /\ UNCHANGED <<values, consumers, delivered, refused>>
           \/ /\ Full(v)
              /\ \E i \in Droppable(values) :
                   /\ values' = Append(Without(values, i), <<v>>)
                   /\ dropped' = dropped \union Elements(values[i])
              /\ UNCHANGED <<consumers, delivered, refused>>
  BY DEF Push
<1>1. UNCHANGED <<overflowStrategy, state, producers, finished>>
  BY DEF Push
<1>2. CASE Refuse(v) /\ UNCHANGED dropped
  BY <1>0, <1>1, <1>2, RefuseKeeps
<1>3. CASE (HandOver(v) \/ Buffer(v)) /\ UNCHANGED dropped
  BY <1>0, <1>1, <1>3, HandOverKeeps, BufferKeeps
<1>4. /\ v \in Values /\ Before(L, {v}) /\ Before({v}, Elements(producers))
      /\ AccountOK(L \union {v}, refused, dropped, sent')
      /\ AccountOK(L, refused, dropped \union {v}, sent')
  BY <1>0, PushStarts
<1>5. LineOK(delivered, values, producers) /\ RoomOK(values) /\ PolicyOK /\ WaitOK /\ ItemsOK(values)
  BY DEF QueueInv, LineOK
<1>6. ASSUME Full(v), overflowStrategy = "drop-newest", dropped' = dropped \union {v},
             UNCHANGED <<values, consumers, delivered, refused>>
      PROVE  QueueInv'
  <2>1. WaitOK' /\ PolicyOK'
    BY <1>1, <1>5, <1>6 DEF WaitOK, PolicyOK
  <2> HIDE DEF L
  <2>2. Line(delivered', values', producers') = L
    BY <1>1, <1>6 DEF L
  <2>3. AccountOK(Line(delivered', values', producers'), refused', dropped', sent')
    BY <1>4, <1>6, <2>2
  <2> QED
    BY <1>1, <1>5, <1>6, <2>1, <2>3, PrimedParts
<1>7. ASSUME Full(v), NEW i \in Droppable(values),
             values' = Append(Without(values, i), <<v>>),
             dropped' = dropped \union Elements(values[i]),
             UNCHANGED <<consumers, delivered, refused>>
      PROVE  QueueInv'
  <2> DEFINE rest == Without(values, i)
             D == Elements(values[i])
             M == Line(delivered, rest, producers)
  <2>1. values \in Seq(Item) /\ i \in 1..Len(values) /\ ~ IsPriority(values[i])
    BY <1>5, DroppableFinite DEF ItemsOK, Droppable
  <2>2. ItemsOK(rest) /\ Within(rest) = Within(values) \ D /\ D \subseteq Within(values)
    BY <1>5, <2>1, WithoutItem
  <2>3. LineOK(delivered, rest, producers)
    BY <1>5, <2>2 DEF LineOK, Before
  <2>4. M = L \ D /\ D \subseteq L
    BY <1>5, <2>2, LineInValues DEF Line
  <2>5. L \subseteq Values
    BY <1>5, LineInValues
  <2>6. /\ sent[p] < MaxPushes /\ sent' = [sent EXCEPT ![p] = @ + 1]
        /\ v \in [by : {p}, n : {sent[p] + 1}, kind : Kinds]
    BY <1>0 DEF Pushes
  <2>7. ItemOK(values[i]) /\ values[i] \in Item
    BY <1>5, <2>1 DEF ItemsOK
  <2> HIDE DEF L, M, D, rest
  <2>8. AccountOK(M, refused, dropped \union D, sent)
    <3>1. AccountOK(L, refused, dropped, sent)
      BY DEF QueueInv, L
    <3> QED
      BY <2>4, <2>5, <3>1, AccountMove
  <2>9. AccountOK(M \union {v}, refused, dropped \union D, sent')
    BY <2>4, <2>5, <2>6, <2>8, AccountPush
  <2>10. Before(M, {v}) /\ Before(Within(rest), {v})
    BY <1>4, <2>4 DEF Before, M, Line
  <2>11. /\ ItemsOK(values') /\ Within(values') = Within(rest) \union {v} /\ values' # << >>
    BY <1>4, <1>7, <2>2, <2>10, AppendKeeps DEF rest
  <2>12. LineOK(delivered, values', producers) /\ Line(delivered, values', producers) = M \union {v}
    BY <1>4, <2>3, <2>10, <2>11, LineGrows DEF M
  <2>13. RoomOK(values')
    BY <1>5, <1>7, <2>1, DropRoom, <1>4
  <2>14. \A w \in D : ~ IsPriority(<<w>>)
    <3>1. values[i] \in Seq(Values) /\ values[i] # << >> /\ values[i][1].kind # "end"
      BY <2>1, <2>7 DEF Item, IsPriority
    <3>2. \A k \in 1..Len(values[i]) : values[i][k].kind # "end"
      <4>1. CASE Len(values[i]) = 1
        BY <3>1, <4>1
      <4>2. CASE \A k \in DOMAIN values[i] : values[i][k].kind = "delta"
        BY <3>1, <4>2
      <4> QED
        BY <2>7, <4>1, <4>2 DEF ItemOK
    <3>3. \A w \in D : w.kind # "end"
      BY <3>1, <3>2, ElementsOf DEF D
    <3>4. \A w : <<w>>[1] = w
      OBVIOUS
    <3> QED
      BY <3>3, <3>4 DEF IsPriority
  <2>15. PolicyOK'
    BY <1>1, <1>5, <1>7, <2>14 DEF PolicyOK, IsPriority, D
  <2>16. WaitOK'
    BY <1>1, <1>5, <1>7, <2>11 DEF WaitOK, Full
  <2>17. /\ delivered' = delivered /\ producers' = producers /\ refused' = refused
         /\ dropped' = dropped \union D
    BY <1>1, <1>7 DEF D
  <2> QED
    BY <2>9, <2>12, <2>13, <2>15, <2>16, <2>17, PrimedParts
<1> QED
  BY <1>0, <1>2, <1>3, <1>6, <1>7

LEMMA PushAsyncKeeps ==
  ASSUME QueueInv, NEW p \in Producers, PushAsync(p)
  PROVE  QueueInv'
<1> DEFINE L == Line(delivered, values, producers)
<1>0. PICK v \in Values :
        /\ Pushes(p, v)
        /\ \/ Refuse(v) /\ UNCHANGED producers
           \/ (HandOver(v) \/ Buffer(v)) /\ UNCHANGED producers
           \/ /\ state = "open" /\ Full(v)
              /\ producers' = Append(producers, v)
              /\ UNCHANGED <<values, consumers, delivered, refused>>
  BY DEF PushAsync
<1>1. UNCHANGED <<overflowStrategy, state, finished, dropped>>
  BY DEF PushAsync
<1>2. CASE (Refuse(v) \/ HandOver(v) \/ Buffer(v)) /\ UNCHANGED producers
  BY <1>0, <1>1, <1>2, RefuseKeeps, HandOverKeeps, BufferKeeps
<1>3. ASSUME state = "open", Full(v), producers' = Append(producers, v),
             UNCHANGED <<values, consumers, delivered, refused>>
      PROVE  QueueInv'
  <2>1. /\ v \in Values /\ Before(L, {v}) /\ Before({v}, Elements(producers))
        /\ AccountOK(L \union {v}, refused, dropped, sent')
    BY <1>0, PushStarts
  <2>2. LineOK(delivered, values, producers) /\ RoomOK(values) /\ PolicyOK /\ WaitOK
    BY DEF QueueInv
  <2> HIDE DEF L
  <2>3. /\ LineOK(delivered', values', producers')
        /\ Line(delivered', values', producers') = L \union {v}
    BY <1>3, <2>1, <2>2, LineGrows DEF L
  <2>4. Reserve < Capacity => values # << >>
    <3> SUFFICES ASSUME Reserve < Capacity, values = << >> PROVE FALSE
      OBVIOUS
    <3>1. ~ CanBuffer(<< >>, v)
      BY <1>3 DEF Full, Accepts
    <3>2. Capacity \in Nat \ {0} /\ Reserve \in Nat /\ Len(<< >>) = 0
      BY OptionsAssumption
    <3> QED
      BY <3>1, <3>2 DEF CanBuffer
  <2>5. WaitOK'
    BY <1>1, <1>3, <2>2, <2>4 DEF WaitOK
  <2>6. PolicyOK'
    BY <1>1, <2>2 DEF PolicyOK, IsPriority
  <2>7. AccountOK(Line(delivered', values', producers'), refused', dropped', sent')
    BY <1>1, <1>3, <2>1, <2>3
  <2> QED
    BY <1>3, <2>2, <2>3, <2>5, <2>6, <2>7, PrimedParts
<1> QED
  BY <1>0, <1>2, <1>3

LEMMA AbortPushKeeps ==
  ASSUME QueueInv, NEW p \in Producers, AbortPush(p)
  PROVE  QueueInv'
<1> DEFINE L == Line(delivered, values, producers)
<1>1. PICK i \in DOMAIN producers :
        producers' = Without(producers, i) /\ refused' = refused \union {producers[i]}
  BY DEF AbortPush
<1>2. UNCHANGED <<overflowStrategy, state, values, consumers, finished, sent, delivered, dropped>>
  BY DEF AbortPush
<1>3. /\ LineOK(delivered, values, producers) /\ RoomOK(values) /\ PolicyOK /\ WaitOK
      /\ AccountOK(L, refused, dropped, sent)
  BY DEF QueueInv
<1>4. producers \in Seq(Values) /\ Increasing(producers) /\ i \in 1..Len(producers)
  BY <1>1, <1>3 DEF LineOK
<1>5. /\ producers' \in Seq(Values) /\ Increasing(producers')
      /\ Elements(producers') = Elements(producers) \ {producers[i]}
  BY <1>1, <1>4, WithoutValue
<1>6. producers[i] \in Elements(producers)
  BY <1>4, ElementsOf
<1>7. LineOK(delivered', values', producers')
  BY <1>2, <1>3, <1>5 DEF LineOK, Before
<1>8. Line(delivered', values', producers') = L \ {producers[i]} /\ {producers[i]} \subseteq L
  BY <1>2, <1>3, <1>5, <1>6, LineInValues DEF Line
<1>9. L \subseteq Values
  BY <1>3, LineInValues
<1> HIDE DEF L
<1>10. AccountOK(L \ {producers[i]}, refused \union {producers[i]}, dropped, sent)
  BY <1>3, <1>8, <1>9, AccountMove
<1>11. AccountOK(Line(delivered', values', producers'), refused', dropped', sent')
  BY <1>1, <1>2, <1>8, <1>10
<1>12. producers # << >>
  BY <1>4
<1>13. WaitOK' /\ PolicyOK'
  BY <1>2, <1>3, <1>12 DEF WaitOK, PolicyOK, IsPriority
<1> QED
  BY <1>2, <1>3, <1>7, <1>11, <1>13, PrimedParts

\* next() takes the first item: its values are delivered, in order.
LEMMA TakeKeeps ==
  ASSUME QueueInv, values # << >>, delivered' = delivered \o Head(values),
         \/ Flush(Tail(values))
         \/ state # "open" /\ values' = Tail(values) /\ UNCHANGED producers,
         UNCHANGED <<overflowStrategy, state, consumers, finished, sent, refused, dropped>>
  PROVE  QueueInv'
<1> DEFINE L == Line(delivered, values, producers)
           head == Head(values)
           rest == Tail(values)
<1>1. /\ LineOK(delivered, values, producers) /\ RoomOK(values) /\ PolicyOK /\ WaitOK
      /\ AccountOK(L, refused, dropped, sent)
  BY DEF QueueInv
<1>2. /\ ItemsOK(values) /\ delivered \in Seq(Values) /\ producers \in Seq(Values)
      /\ Increasing(delivered) /\ Increasing(producers)
      /\ Before(Elements(delivered), Within(values))
      /\ Before(Elements(delivered), Elements(producers))
      /\ Before(Within(values), Elements(producers))
  BY <1>1 DEF LineOK
<1>3. /\ head \in Seq(Values) /\ Increasing(head) /\ ItemsOK(rest)
      /\ Within(values) = Elements(head) \union Within(rest)
      /\ Before(Elements(head), Within(rest))
  BY <1>2, HeadKeeps
<1>4. RoomOK(rest)
  BY <1>1, <1>2, TailRoom
<1> HIDE DEF head, rest
<1>5. /\ delivered' \in Seq(Values) /\ Increasing(delivered')
      /\ Elements(delivered') = Elements(delivered) \union Elements(head)
  <2>1. Before(Elements(delivered), Elements(head)) /\ delivered' = delivered \o head
    BY <1>2, <1>3 DEF Before, head
  <2>2. /\ delivered \o head \in Seq(Values)
        /\ Elements(delivered \o head) = Elements(delivered) \union Elements(head)
    BY <1>2, <1>3, ConcatElements
  <2>3. Increasing(delivered \o head)
    BY <1>2, <1>3, <2>1, ConcatIncreasing
  <2> QED
    BY <2>1, <2>2, <2>3
<1>6. Before(Within(rest), Elements(producers))
  BY <1>2, <1>3 DEF Before
<1>7. /\ ItemsOK(values') /\ producers' \in Seq(Values) /\ Increasing(producers')
      /\ Within(values') \union Elements(producers') = Within(rest) \union Elements(producers)
      /\ Before(Within(values'), Elements(producers'))
      /\ RoomOK(values')
      /\ Reserve < Capacity /\ producers' # << >> => values' # << >>
  <2>1. CASE Flush(rest)
    BY <1>2, <1>3, <1>4, <1>6, <2>1, FlushKeeps
  <2>2. CASE state # "open" /\ values' = rest /\ UNCHANGED producers
    BY <1>1, <1>2, <1>3, <1>4, <1>6, <2>2 DEF WaitOK
  <2> QED
    BY <2>1, <2>2 DEF rest
<1>8. /\ Before(Elements(delivered'), Within(values'))
      /\ Before(Elements(delivered'), Elements(producers'))
  <2>1. /\ Before(Elements(delivered'), Within(rest))
        /\ Before(Elements(delivered'), Elements(producers))
    BY <1>2, <1>3, <1>5 DEF Before
  <2>2. \A v : v \in Within(values') \/ v \in Elements(producers') =>
                  v \in Within(rest) \/ v \in Elements(producers)
    BY <1>7
  <2> QED
    BY <2>1, <2>2 DEF Before
<1>9. LineOK(delivered', values', producers')
  BY <1>5, <1>7, <1>8 DEF LineOK
<1>10. Line(delivered', values', producers') = L
  BY <1>3, <1>5, <1>7 DEF Line
<1> HIDE DEF L
<1>11. AccountOK(Line(delivered', values', producers'), refused', dropped', sent')
  BY <1>1, <1>10
<1>12. consumers = << >>
  BY <1>1 DEF WaitOK
<1>13. state # "open" => producers' = << >>
  <2> SUFFICES ASSUME state # "open" PROVE producers' = << >>
    OBVIOUS
  <2>1. producers = << >>
    BY <1>1 DEF WaitOK
  <2>2. CASE UNCHANGED producers
    BY <2>1, <2>2
  <2>3. CASE Flush(rest)
    <3>1. PICK filled, count : Flushes(rest, filled, count)
      BY <1>2, <2>3, FlushEffect
    <3>2. Len(producers) = 0 /\ count \in 0..Len(producers)
      BY <2>1, <3>1 DEF Flushes
    <3>3. producers' = SubSeq(producers, count + 1, Len(producers))
      BY <3>1 DEF Flushes
    <3> QED
      BY <3>2, <3>3, SubSeqEmpty
  <2> QED
    BY <2>2, <2>3 DEF rest
<1>14. WaitOK'
  BY <1>1, <1>7, <1>12, <1>13 DEF WaitOK
<1>15. PolicyOK'
  BY <1>1 DEF PolicyOK, IsPriority
<1> QED
  BY <1>7, <1>9, <1>11, <1>14, <1>15, PrimedParts

\* A step of the waiters alone.
LEMMA WaitersKeep ==
  ASSUME QueueInv, WaitOK',
         UNCHANGED <<overflowStrategy, state, values, producers, sent, delivered, refused, dropped>>
  PROVE  QueueInv'
<1>1. /\ LineOK(delivered, values, producers) /\ RoomOK(values) /\ PolicyOK
      /\ AccountOK(Line(delivered, values, producers), refused, dropped, sent)
  BY DEF QueueInv
<1>2. PolicyOK'
  BY <1>1 DEF PolicyOK, IsPriority
<1>3. AccountOK(Line(delivered', values', producers'), refused', dropped', sent')
  BY <1>1
<1> QED
  BY <1>1, <1>2, <1>3, PrimedParts

LEMMA TakeNextKeeps ==
  ASSUME QueueInv, NEW c \in Iterators, TakeNext(c)
  PROVE  QueueInv'
<1>1. WaitOK /\ UNCHANGED <<overflowStrategy, state, sent, refused, dropped>> /\ c \notin finished
  BY DEF QueueInv, TakeNext
<1>2. ASSUME values # << >>, delivered' = delivered \o Head(values),
             IF state = "open" THEN Flush(Tail(values))
             ELSE values' = Tail(values) /\ UNCHANGED producers,
             UNCHANGED <<consumers, finished>>
      PROVE  QueueInv'
  BY <1>1, <1>2, TakeKeeps
<1>3. ASSUME values = << >>, state = "open", consumers' = Append(consumers, c),
             UNCHANGED <<values, producers, finished, delivered>>
      PROVE  QueueInv'
  <2>1. consumers' \in Seq(Iterators \ finished)
    BY <1>1, <1>3, AppendProperties DEF WaitOK
  <2>2. WaitOK'
    BY <1>1, <1>3, <2>1 DEF WaitOK
  <2> QED
    BY <1>1, <1>3, <2>2, WaitersKeep
<1>4. ASSUME state = "closed", finished' = finished \union {c},
             UNCHANGED <<values, producers, consumers, delivered>>
      PROVE  QueueInv'
  <2>1. consumers' = << >> /\ << >> \in Seq(Iterators \ finished')
    BY <1>1, <1>4 DEF WaitOK
  <2>2. WaitOK'
    BY <1>1, <1>4, <2>1 DEF WaitOK
  <2> QED
    BY <1>1, <1>4, <2>2, WaitersKeep
<1> QED
  BY <1>2, <1>3, <1>4 DEF TakeNext

LEMMA ReturnKeeps ==
  ASSUME QueueInv, NEW c \in Iterators, Return(c)
  PROVE  QueueInv'
<1>1. /\ finished' = finished \union {c} /\ consumers' = Detached(c)
      /\ UNCHANGED <<overflowStrategy, state, values, producers, sent, delivered, refused, dropped>>
  BY DEF Return
<1>2. WaitOK
  BY DEF QueueInv
<1>3. /\ consumers' \in Seq((Iterators \ finished) \ {c})
      /\ consumers = << >> => consumers' = << >>
  BY <1>1, <1>2, DetachedEffect DEF WaitOK
<1>4. (Iterators \ finished) \ {c} = Iterators \ finished'
  BY <1>1
<1>5. WaitOK'
  BY <1>1, <1>2, <1>3, <1>4 DEF WaitOK
<1> QED
  BY <1>1, <1>5, WaitersKeep

\* The queue ends: what waited is refused, and cancel() drops what was buffered.
LEMMA EndKeeps ==
  ASSUME QueueInv, NEW done \in BOOLEAN, SettleWaiters(done),
         state' \in {"closed", "failed"},
         \/ UNCHANGED <<values, dropped>>
         \/ values' = << >> /\ dropped' = dropped \union Within(values)
  PROVE  QueueInv'
<1> DEFINE L == Line(delivered, values, producers)
           M == Elements(delivered) \union Within(values)
<1>1. /\ producers' = << >> /\ refused' = refused \union Elements(producers) /\ consumers' = << >>
      /\ finished' = (IF done THEN finished \union Elements(consumers) ELSE finished)
      /\ UNCHANGED <<overflowStrategy, sent, delivered>>
  BY DEF SettleWaiters
<1>2. /\ LineOK(delivered, values, producers) /\ RoomOK(values) /\ PolicyOK /\ WaitOK
      /\ AccountOK(L, refused, dropped, sent)
  BY DEF QueueInv
<1>3. /\ L \subseteq Values
      /\ Elements(delivered) \cap Within(values) = {}
      /\ Elements(delivered) \cap Elements(producers) = {}
      /\ Within(values) \cap Elements(producers) = {}
  BY <1>2, LineInValues
<1>4. M = L \ Elements(producers) /\ Elements(producers) \subseteq L /\ M \subseteq Values
      /\ Within(values) \subseteq M /\ M \ Within(values) = Elements(delivered)
  BY <1>3 DEF Line
<1> HIDE DEF L
<1>5. AccountOK(M, refused', dropped, sent)
  <2>1. AccountOK(L \ Elements(producers), refused \union Elements(producers), dropped, sent)
    BY <1>2, <1>3, <1>4, AccountMove
  <2> HIDE DEF M
  <2> QED
    BY <1>1, <1>4, <2>1
<1>6. << >> \in Seq(Values) /\ Increasing(<< >>) /\ Elements(<< >>) = {} /\ Within(<< >>) = {}
  BY ElementsEmpty DEF Increasing
<1>7. finished' \subseteq Iterators /\ << >> \in Seq(Iterators \ finished')
  <2>1. Elements(consumers) \subseteq Iterators
    BY <1>2, ElementsOf DEF WaitOK
  <2> QED
    BY <1>1, <1>2, <2>1 DEF WaitOK
<1>8. WaitOK' /\ PolicyOK'
  BY <1>1, <1>2, <1>7 DEF WaitOK, PolicyOK
<1>9. CASE UNCHANGED <<values, dropped>>
  <2>1. LineOK(delivered', values', producers')
    BY <1>1, <1>2, <1>6, <1>9 DEF LineOK, Before
  <2>2. Line(delivered', values', producers') = M
    BY <1>1, <1>6, <1>9 DEF Line
  <2> HIDE DEF M
  <2>3. AccountOK(Line(delivered', values', producers'), refused', dropped', sent')
    BY <1>1, <1>5, <1>9, <2>2
  <2> QED
    BY <1>2, <1>8, <1>9, <2>1, <2>3, PrimedParts
<1>10. CASE values' = << >> /\ dropped' = dropped \union Within(values)
  <2>1. ItemsOK(<< >>)
    BY DEF ItemsOK
  <2>2. LineOK(delivered', values', producers')
    BY <1>1, <1>2, <1>6, <1>10, <2>1 DEF LineOK, Before
  <2>3. Line(delivered', values', producers') = M \ Within(values)
    BY <1>1, <1>4, <1>6, <1>10 DEF Line
  <2> HIDE DEF M
  <2>4. AccountOK(M \ Within(values), refused', dropped \union Within(values), sent)
    BY <1>4, <1>5, AccountMove
  <2>5. AccountOK(Line(delivered', values', producers'), refused', dropped', sent')
    BY <1>1, <1>10, <2>3, <2>4
  <2>6. RoomOK(values')
    BY <1>10, EmptyRoom
  <2> QED
    BY <1>8, <2>2, <2>5, <2>6, PrimedParts
<1> QED
  BY <1>9, <1>10

-----------------------------------------------------------------------------
LEMMA InitKeeps == Init => QueueInv
<1> SUFFICES ASSUME Init PROVE QueueInv
  OBVIOUS
<1>1. << >> \in Seq(Values) /\ Increasing(<< >>) /\ Elements(<< >>) = {} /\ Within(<< >>) = {}
  BY ElementsEmpty DEF Increasing
<1>2. ItemsOK(<< >>)
  BY DEF ItemsOK
<1>3. LineOK(delivered, values, producers)
  BY <1>1, <1>2 DEF Init, LineOK, Before
<1>4. Line(delivered, values, producers) = {}
  BY <1>1 DEF Init, Line
<1>5. AccountOK({}, {}, {}, sent)
  <2>1. 0 \in 0..MaxPushes
    BY OptionsAssumption
  <2>2. sent \in [Producers -> 0..MaxPushes] /\ \A p \in Producers : sent[p] = 0
    BY <2>1 DEF Init
  <2> QED
    BY <2>2 DEF AccountOK
<1>6. AccountOK(Line(delivered, values, producers), refused, dropped, sent)
  BY <1>4, <1>5 DEF Init
<1>7. << >> \in Seq(Iterators \ {})
  OBVIOUS
<1>8. WaitOK /\ PolicyOK
  BY <1>7 DEF Init, WaitOK, PolicyOK
<1>9. RoomOK(values)
  BY EmptyRoom DEF Init
<1> QED
  BY <1>3, <1>6, <1>8, <1>9 DEF QueueInv

LEMMA StepKeeps == QueueInv /\ [Next]_vars => QueueInv'
<1> SUFFICES ASSUME QueueInv, [Next]_vars PROVE QueueInv'
  OBVIOUS
<1>1. ASSUME NEW p \in Producers, Push(p) \/ PushAsync(p) \/ AbortPush(p) PROVE QueueInv'
  BY <1>1, PushKeeps, PushAsyncKeeps, AbortPushKeeps
<1>2. ASSUME NEW c \in Iterators, TakeNext(c) \/ Return(c) PROVE QueueInv'
  BY <1>2, TakeNextKeeps, ReturnKeeps
<1>3. ASSUME Close PROVE QueueInv'
  <2>1. SettleWaiters(TRUE) /\ state' \in {"closed", "failed"} /\ UNCHANGED <<values, dropped>>
    BY <1>3 DEF Close
  <2> QED
    BY <2>1, EndKeeps
<1>4. ASSUME Fail PROVE QueueInv'
  <2>1. SettleWaiters(FALSE) /\ state' \in {"closed", "failed"} /\ UNCHANGED <<values, dropped>>
    BY <1>4 DEF Fail
  <2> QED
    BY <2>1, EndKeeps
<1>5. ASSUME Cancel PROVE QueueInv'
  <2>1. /\ SettleWaiters(FALSE) /\ state' \in {"closed", "failed"}
        /\ values' = << >> /\ dropped' = dropped \union Within(values)
    BY <1>5 DEF Cancel, QueueInv, WaitOK
  <2> QED
    BY <2>1, EndKeeps
<1>6. ASSUME UNCHANGED vars PROVE QueueInv'
  <2>1. WaitOK'
    BY <1>6 DEF vars, QueueInv, WaitOK
  <2> QED
    BY <1>6, <2>1, WaitersKeep DEF vars
<1> QED
  BY <1>1, <1>2, <1>3, <1>4, <1>5, <1>6 DEF Next

LEMMA Invariance == Spec => []QueueInv
BY InitKeeps, StepKeeps, PTL DEF Spec

\* Every variable holds a value of its kind, and only iterators that have not finished
\* wait (asyncQueue.ts, take() and detachConsumer()).
THEOREM TypeCorrect == Spec => []TypeOK
BY Invariance, InvTypes, PTL

\* Every value pushed is in exactly one place: delivered once, buffered, waiting,
\* refused to its producer or discarded (asyncQueue.ts, every method).
THEOREM NothingLost == Spec => []NothingLostOrDuplicated
BY Invariance, InvAccount, PTL

\* The values of one producer are delivered in the order it pushed them, through
\* coalescing, waiting, aborts and dropped items (asyncQueue.ts, flushProducers()).
THEOREM OrderKept == Spec => []ProducerOrderKept
BY Invariance, InvOrder, PTL

\* The buffer stays within its capacity and ordinary values out of the reserve; and
\* drop-oldest discards no priority value (asyncQueue.ts, canBuffer() and push()).
THEOREM RoomForTheEnd == Spec => []ReserveKept
BY Invariance, InvRoom, PTL

\* Producers and consumers never wait for each other, and nobody waits at a queue that
\* has ended - when some slot is not reserved. A queue whose reserve is its whole
\* capacity, which the constructor allows, lets a producer of ordinary values and a
\* consumer wait for each other (asyncQueue.ts, take() and flushProducers()).
THEOREM NoWaitInVain ==
  ASSUME Reserve < Capacity
  PROVE  Spec => []NobodyWaitsInVain
<1>1. QueueInv => NobodyWaitsInVain
  BY InvWaits
<1> QED
  BY <1>1, Invariance, PTL
=============================================================================
