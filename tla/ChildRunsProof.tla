---------------------------- MODULE ChildRunsProof ----------------------------
(***************************************************************************)
(* Proofs about ChildRuns for any number of runs, any shape of their tree   *)
(* and any limits.                                                          *)
(*                                                                          *)
(* The semaphore: waiters wait, each once, so that release() always wakes   *)
(* the first and nobody it woke is still in the queue. This holds with late *)
(* children too.                                                            *)
(*                                                                          *)
(* The tree, when no child is late: a run that is not over has its node, a  *)
(* node is linked to its parent's, aborted nodes have aborted children, and *)
(* there is nothing left to prune. An ancestor of a node is then a node,    *)
(* reached along links that carry its abort; and nodes that have ended      *)
(* stand above one that has not.                                            *)
(***************************************************************************)
EXTENDS ChildRuns, FiniteSetTheorems, NaturalsInduction, SequenceTheorems, WellFoundedInduction, TLAPS

Once(s) == \A i, j \in DOMAIN s : s[i] = s[j] => i = j

\* The queue holds the runs that wait for a permit, each once.
WaitersWait ==
    /\ Elements(waiters) = {r \in Runs : phase[r] = "waiting"}
    /\ Once(waiters)

\* The root asks for no permit.
RootRuns == phase[Root] \in {"running", "done"}

\* A node has its run, as has what is aborted, and a link leads to a run derived
\* from the node's.
NodesStarted ==
    /\ \A n \in nodes \union aborted : phase[n] # "none"
    /\ \A n \in Ids : \A c \in children[n] : Parent[c] = n

SemaphoreInv == TypeOK /\ SemaphoreSound /\ WaitersWait /\ RootRuns /\ NodesStarted

\* A run that is not over is in the tree; what has ended is marked.
NodesOfRuns ==
    /\ \A r \in Runs : Live(r) => r \in nodes
    /\ phase[Root] = "running" => Root \in nodes
    /\ \A n \in nodes : phase[n] = "done" => n \in completed
    /\ \A n \in completed : phase[n] = "done"

\* Every node but the root is linked to its parent's node.
NodesLinked ==
    \A r \in nodes \ {Root} : Parent[r] \in nodes /\ r \in children[Parent[r]]

\* An abort has reached the children.
AbortsInherited ==
    /\ cancelled \subseteq aborted
    /\ \A n \in nodes \cap aborted : children[n] \subseteq aborted

\* No set of marked nodes has all the children of its members.
NothingToPrune == \A S \in SUBSET completed : Closed(S) => S = {}

TreeInv == NodesOfRuns /\ NodesLinked /\ AbortsInherited /\ NothingToPrune

IInv == SemaphoreInv /\ (~LateChildren => TreeInv)

-----------------------------------------------------------------------------
(* The queue of the semaphore *)

LEMMA NatSetInduction ==
  ASSUME NEW S, 0 \in S, \A n \in Nat : n \in S => n + 1 \in S
  PROVE  \A n \in Nat : n \in S
<1> SUFFICES ASSUME NEW bad \in Nat, bad \notin S PROVE FALSE
  OBVIOUS
<1> DEFINE T == {n \in Nat : n \notin S}
<1>1. T \subseteq Nat /\ T # {}
  OBVIOUS
<1>2. PICK k \in T : \A j \in T : ~ (<<j, k>> \in OpToRel(<, Nat))
  <2> HIDE DEF T
  <2> QED
    BY <1>1, NatLessThanWellFounded, WFMin
<1>3. k \in Nat /\ k \notin S /\ k # 0
  OBVIOUS
<1>4. k - 1 \in Nat /\ k - 1 < k /\ (k - 1) + 1 = k
  BY <1>3
<1>5. k - 1 \notin S
  BY <1>3, <1>4
<1>6. k - 1 \in T
  BY <1>4, <1>5
<1> QED
  BY <1>2, <1>3, <1>4, <1>6 DEF OpToRel

\* One more element at the end.
LEMMA AppendEffect ==
  ASSUME NEW S, NEW s \in Seq(S), NEW e \in S
  PROVE  /\ Append(s, e) \in Seq(S)
         /\ Elements(Append(s, e)) = Elements(s) \union {e}
         /\ Once(s) /\ e \notin Elements(s) => Once(Append(s, e))
<1>1. /\ Append(s, e) \in Seq(S) /\ DOMAIN s = 1..Len(s) /\ Len(s) \in Nat
      /\ DOMAIN Append(s, e) = 1..(Len(s) + 1)
      /\ \A i \in 1..Len(s) : Append(s, e)[i] = s[i]
      /\ Append(s, e)[Len(s) + 1] = e
  OBVIOUS
<1> DEFINE t == Append(s, e)
<1>2. \A i \in DOMAIN t : i \in DOMAIN s \/ i = Len(s) + 1
  BY <1>1
<1>3. DOMAIN s \subseteq DOMAIN t /\ Len(s) + 1 \in DOMAIN t
  BY <1>1
<1> HIDE DEF t
<1>4. \A i \in DOMAIN s : t[i] = s[i]
  BY <1>1 DEF t
<1>5. t[Len(s) + 1] = e
  BY <1>1 DEF t
<1>6. Elements(t) = Elements(s) \union {e}
  BY <1>2, <1>3, <1>4, <1>5 DEF Elements
<1>7. ASSUME Once(s), e \notin Elements(s) PROVE Once(t)
  BY <1>2, <1>4, <1>5, <1>7 DEF Elements, Once
<1> QED
  BY <1>1, <1>6, <1>7 DEF t

\* t is a subsequence of the first n elements of s.
InOrder(t, s, n) ==
    \E at \in [DOMAIN t -> 1..n] :
        /\ \A i, j \in DOMAIN t : i < j => at[i] < at[j]
        /\ \A i \in DOMAIN t : t[i] = s[at[i]]

\* It stays one when the next element is passed over or taken too.
LEMMA InOrderExtends ==
  ASSUME NEW S, NEW t \in Seq(S), NEW s, NEW n \in Nat, InOrder(t, s, n), s[n + 1] \in S
  PROVE  InOrder(t, s, n + 1) /\ InOrder(Append(t, s[n + 1]), s, n + 1)
<1> DEFINE L == Len(t)
           u == Append(t, s[n + 1])
<1>1. L \in Nat /\ DOMAIN t = 1..L
  OBVIOUS
<1>2. PICK at \in [1..L -> 1..n] :
           /\ \A i, j \in 1..L : i < j => at[i] < at[j]
           /\ \A i \in 1..L : t[i] = s[at[i]]
  BY <1>1 DEF InOrder
<1>3. at \in [1..L -> 1..(n + 1)]
  BY <1>2
<1>4. InOrder(t, s, n + 1)
  BY <1>1, <1>2, <1>3 DEF InOrder
<1>5. DOMAIN u = 1..(L + 1) /\ u[L + 1] = s[n + 1] /\ \A i \in 1..L : u[i] = t[i]
  OBVIOUS
<1> HIDE DEF u, L
<1> DEFINE to == [i \in 1..(L + 1) |-> IF i = L + 1 THEN n + 1 ELSE at[i]]
<1>6. \A i \in 1..(L + 1) : i = L + 1 \/ i \in 1..L
  BY <1>1
<1>7. to \in [1..(L + 1) -> 1..(n + 1)]
  BY <1>3, <1>6
<1>8. \A i \in 1..L : to[i] = at[i] /\ to[i] \in 1..n
  BY <1>1, <1>2
<1>9. to[L + 1] = n + 1
  BY <1>1
<1> HIDE DEF to
<1>10. \A i, j \in 1..(L + 1) : i < j => to[i] < to[j]
  <2> SUFFICES ASSUME NEW i \in 1..(L + 1), NEW j \in 1..(L + 1), i < j PROVE to[i] < to[j]
    OBVIOUS
  <2>1. i \in 1..L
    BY <1>1
  <2>2. CASE j \in 1..L
    BY <1>2, <1>8, <2>1, <2>2
  <2>3. CASE j = L + 1
    BY <1>8, <1>9, <2>1, <2>3
  <2> QED
    BY <1>6, <2>2, <2>3
<1>11. \A i \in 1..(L + 1) : u[i] = s[to[i]]
  BY <1>2, <1>5, <1>6, <1>8, <1>9
<1>12. InOrder(u, s, n + 1)
  BY <1>5, <1>7, <1>10, <1>11 DEF InOrder
<1> QED
  BY <1>4, <1>12 DEF u

\* Runs that leave the queue leave the others as they were, and in their order.
LEMMA WithoutEffect ==
  ASSUME NEW S, waiters \in Seq(S), Once(waiters), NEW gone
  PROVE  /\ Without(gone) \in Seq(S)
         /\ Elements(Without(gone)) = Elements(waiters) \ gone
         /\ Once(Without(gone))
         /\ Fair!Subsequence(Without(gone), waiters)
<1> DEFINE L == Len(waiters)
           Step(f, n) == IF n = 0 THEN << >>
                         ELSE IF waiters[n] \in gone THEN f[n - 1]
                         ELSE Append(f[n - 1], waiters[n])
           kept == CHOOSE f : f = [n \in 0..L |-> Step(f, n)]
<1>1. L \in Nat /\ Without(gone) = kept[L]
  BY DEF Without
<1>2. \E f : f = [n \in 0..L |-> Step(f, n)]
  <2> DEFINE T == {m \in Nat : \E f : f = [n \in 0..m |-> Step(f, n)]}
  <2>1. 0 \in T
    <3> DEFINE f == [n \in 0..0 |-> << >>]
    <3>1. f = [n \in 0..0 |-> Step(f, n)]
      OBVIOUS
    <3> QED
      BY <3>1
  <2>2. ASSUME NEW m \in Nat, m \in T PROVE m + 1 \in T
    <3>1. PICK f : f = [n \in 0..m |-> Step(f, n)]
      BY <2>2
    <3> DEFINE g == [n \in 0..(m + 1) |-> IF n = m + 1 THEN Step(f, n) ELSE f[n]]
    <3>2. \A n \in 0..m : f[n] = Step(f, n)
      BY <3>1
    <3>3. ASSUME NEW n \in 0..(m + 1) PROVE g[n] = Step(g, n)
      <4>1. n = 0 \/ (n - 1 \in 0..m /\ g[n - 1] = f[n - 1])
        OBVIOUS
      <4>2. Step(g, n) = Step(f, n)
        BY <4>1
      <4>3. g[n] = IF n = m + 1 THEN Step(f, n) ELSE f[n]
        OBVIOUS
      <4> HIDE DEF g, Step
      <4> QED
        BY <3>2, <4>2, <4>3
    <3>4. g = [n \in 0..(m + 1) |-> g[n]]
      OBVIOUS
    <3> HIDE DEF g
    <3>5. g = [n \in 0..(m + 1) |-> Step(g, n)]
      <4> HIDE DEF Step
      <4> QED
        BY <3>3, <3>4
    <3> HIDE DEF Step
    <3> QED
      BY <3>5
  <2> HIDE DEF T
  <2>3. L \in T
    BY <1>1, <2>1, <2>2, NatSetInduction
  <2> QED
    BY <2>3 DEF T
<1>3. kept = [n \in 0..L |-> Step(kept, n)]
  <2> HIDE DEF Step
  <2> QED
    BY <1>2
<1> HIDE DEF kept
<1>4. \A n \in 0..L : kept[n] = Step(kept, n)
  BY <1>3
<1> DEFINE First(n) == {waiters[i] : i \in 1..n} \ gone
           Good(n) == /\ kept[n] \in Seq(S) /\ Elements(kept[n]) = First(n) /\ Once(kept[n])
                      /\ InOrder(kept[n], waiters, n)
           U == {n \in Nat : n <= L => Good(n)}
<1>5. 0 \in U
  <2>1. kept[0] = << >>
    BY <1>1, <1>4
  <2>2. << >> \in Seq(S) /\ Elements(<< >>) = {} /\ Once(<< >>)
    BY DEF Elements, Once
  <2>3. First(0) = {}
    OBVIOUS
  <2>4. InOrder(<< >>, waiters, 0)
    <3> DEFINE at == [i \in {} |-> i]
    <3>1. DOMAIN << >> = {} /\ at \in [{} -> 1..0]
      OBVIOUS
    <3> QED
      BY <3>1 DEF InOrder
  <2> QED
    BY <2>1, <2>2, <2>3, <2>4
<1>6. ASSUME NEW n \in Nat, n \in U PROVE n + 1 \in U
  <2> SUFFICES ASSUME n + 1 <= L PROVE Good(n + 1)
    BY <1>6
  <2>1. Good(n)
    BY <1>1, <1>6
  <2>2. n + 1 \in 1..L /\ n + 1 \in 0..L /\ n + 1 # 0 /\ (n + 1) - 1 = n
    BY <1>1
  <2>3. waiters[n + 1] \in S /\ DOMAIN waiters = 1..L
    BY <1>1, <2>2
  <2>4. kept[n + 1] = IF waiters[n + 1] \in gone THEN kept[n] ELSE Append(kept[n], waiters[n + 1])
    BY <1>4, <2>2
  <2>5. {waiters[i] : i \in 1..(n + 1)} = {waiters[i] : i \in 1..n} \union {waiters[n + 1]}
    OBVIOUS
  <2>6. waiters[n + 1] \notin {waiters[i] : i \in 1..n}
    <3>1. \A i \in 1..n : i \in DOMAIN waiters /\ n + 1 \in DOMAIN waiters /\ i # n + 1
      BY <2>2, <2>3
    <3> QED
      BY <3>1 DEF Once
  <2>9. /\ InOrder(kept[n], waiters, n + 1)
        /\ InOrder(Append(kept[n], waiters[n + 1]), waiters, n + 1)
    BY <2>1, <2>3, InOrderExtends
  <2>7. CASE waiters[n + 1] \in gone
    <3>1. First(n + 1) = First(n)
      BY <2>5, <2>7
    <3> QED
      BY <2>1, <2>4, <2>7, <2>9, <3>1
  <2>8. CASE waiters[n + 1] \notin gone
    <3>1. First(n + 1) = First(n) \union {waiters[n + 1]}
      BY <2>5, <2>8
    <3>2. waiters[n + 1] \notin Elements(kept[n])
      BY <2>1, <2>6
    <3> HIDE DEF First
    <3>3. /\ Append(kept[n], waiters[n + 1]) \in Seq(S)
          /\ Elements(Append(kept[n], waiters[n + 1])) = Elements(kept[n]) \union {waiters[n + 1]}
          /\ Once(Append(kept[n], waiters[n + 1]))
      BY <2>1, <2>3, <3>2, AppendEffect
    <3> QED
      BY <2>1, <2>4, <2>8, <2>9, <3>1, <3>3
  <2> QED
    BY <2>7, <2>8
<1>7. L \in U
  <2> HIDE DEF U
  <2> QED
    BY <1>1, <1>5, <1>6, NatSetInduction
<1>8. Elements(waiters) = {waiters[i] : i \in 1..L}
  BY DEF Elements
<1>9. InOrder(kept[L], waiters, L) => Fair!Subsequence(kept[L], waiters)
  BY DEF InOrder, Fair!Subsequence
<1> QED
  BY <1>1, <1>7, <1>8, <1>9

-----------------------------------------------------------------------------
(* The semaphore *)

\* Runs that hold a permit can be counted.
LEMMA HoldersFinite == ASSUME TypeOK PROVE IsFiniteSet(holders)
  BY TreeAssumption, FS_Subset DEF TypeOK

\* What the invariant says of the semaphore, and nothing else.
SemaphoreState ==
    /\ phase \in [Ids -> Phases]
    /\ waiters \in Seq(Runs) /\ active \in 0..Capacity /\ holders \subseteq Runs
    /\ SemaphoreSound /\ WaitersWait /\ RootRuns

\* acquire() gives a permit, or a place at the end of the queue, or fails.
LEMMA AcquireKeeps ==
  ASSUME TypeOK, SemaphoreState, NEW r \in Runs, NEW isAborted \in BOOLEAN, Acquire(r, isAborted),
         phase[r] \in {"none", "succeeded", "failed"},
         ~isAborted => r \notin aborted /\ aborted' = aborted,
         aborted' \in {aborted, aborted \union {r}}
  PROVE  /\ SemaphoreState'
         /\ phase'[r] \in {"failed", "running", "waiting"}
         /\ \A q \in Ids \ {r} : phase'[q] = phase[q]
<1>1. r \in Ids /\ r # Root /\ r \notin holders /\ r \notin Elements(waiters) /\ IsFiniteSet(holders)
  BY HoldersFinite, TreeAssumption DEF Ids, SemaphoreState, SemaphoreSound, WaitersWait
<1>2. CASE /\ isAborted /\ phase' = [phase EXCEPT ![r] = "failed"] /\ UNCHANGED semaphore
  <2>1. waiters' = waiters /\ active' = active /\ holders' = holders
    BY <1>2 DEF semaphore
  <2>2. phase' \in [Ids -> Phases] /\ phase'[r] = "failed" /\ \A q \in Ids \ {r} : phase'[q] = phase[q]
    BY <1>1, <1>2 DEF SemaphoreState, Phases
  <2>3. holders' = {q \in Runs : phase'[q] = "running"}
    BY <1>1, <2>1, <2>2 DEF SemaphoreState, SemaphoreSound, Ids
  <2>4. SemaphoreSound'
    BY <1>1, <2>1, <2>3 DEF SemaphoreState, SemaphoreSound
  <2>5. WaitersWait' /\ RootRuns'
    BY <1>1, <2>1, <2>2 DEF SemaphoreState, WaitersWait, RootRuns, Ids
  <2> QED
    BY <2>1, <2>2, <2>4, <2>5 DEF SemaphoreState
<1>3. CASE /\ ~isAborted /\ active < Capacity /\ waiters = << >>
           /\ active' = active + 1 /\ holders' = holders \union {r}
           /\ phase' = [phase EXCEPT ![r] = "running"] /\ UNCHANGED waiters
  <2>1. Cardinality(holders') = Cardinality(holders) + 1
    BY <1>1, <1>3, FS_AddElement
  <2>2. active' \in 0..Capacity /\ active' = Cardinality(holders')
    <3>1. active \in 0..Capacity /\ active = Cardinality(holders) /\ Capacity \in Nat
      BY LimitsAssumption DEF SemaphoreState, SemaphoreSound
    <3>2. active + 1 \in 0..Capacity
      BY <1>3, <3>1
    <3> QED
      BY <1>3, <2>1, <3>1, <3>2
  <2>3. phase' \in [Ids -> Phases] /\ phase'[r] = "running" /\ \A q \in Ids \ {r} : phase'[q] = phase[q]
    BY <1>1, <1>3 DEF SemaphoreState, Phases
  <2>4. SemaphoreSound'
    <3>1. holders' = {q \in Runs : phase'[q] = "running"}
      BY <1>1, <1>3, <2>3 DEF SemaphoreState, SemaphoreSound, Ids
    <3>2. waiters' = << >> /\ Elements(waiters') = {}
      BY <1>3 DEF Elements
    <3> QED
      BY <2>2, <3>1, <3>2 DEF SemaphoreSound
  <2>5. WaitersWait' /\ RootRuns'
    BY <1>1, <1>3, <2>3 DEF SemaphoreState, WaitersWait, RootRuns, Elements, Once, Ids
  <2> QED
    BY <1>1, <1>3, <2>2, <2>3, <2>4, <2>5 DEF SemaphoreState
<1>4. CASE /\ ~isAborted /\ (active >= Capacity \/ waiters # << >>)
           /\ waiters' = Append(waiters, r) /\ phase' = [phase EXCEPT ![r] = "waiting"]
           /\ UNCHANGED <<active, holders>>
  <2>1. /\ waiters' \in Seq(Runs) /\ Elements(waiters') = Elements(waiters) \union {r}
        /\ Once(waiters')
    BY <1>1, <1>4, AppendEffect DEF SemaphoreState, WaitersWait
  <2>2. active = Capacity
    BY <1>4, LimitsAssumption DEF SemaphoreState, SemaphoreSound
  <2>3. phase' \in [Ids -> Phases] /\ phase'[r] = "waiting" /\ \A q \in Ids \ {r} : phase'[q] = phase[q]
    BY <1>1, <1>4 DEF SemaphoreState, Phases
  <2>4. SemaphoreSound'
    BY <1>1, <1>4, <2>1, <2>2, <2>3 DEF SemaphoreState, SemaphoreSound, Ids
  <2>5. WaitersWait' /\ RootRuns'
    BY <1>1, <1>4, <2>1, <2>3 DEF SemaphoreState, WaitersWait, RootRuns, Ids
  <2> QED
    BY <1>1, <1>4, <2>1, <2>3, <2>4, <2>5 DEF SemaphoreState
<1> QED
  BY <1>2, <1>3, <1>4 DEF Acquire

\* release() hands the permit to the first waiter, if there is one.
LEMMA ReleaseWakesFirst ==
  ASSUME SemaphoreState, NEW r \in Runs, NEW outcome, Release(r, outcome)
  PROVE  \/ /\ waiters = << >> /\ waiters' = << >>
            /\ active' = active - 1 /\ holders' = holders \ {r}
            /\ phase' = [q \in Ids |-> IF q = r THEN outcome ELSE phase[q]]
         \/ /\ waiters # << >> /\ waiters' = Tail(waiters)
            /\ active' = active /\ holders' = (holders \ {r}) \union {waiters[1]}
            /\ Elements(waiters) = Elements(Tail(waiters)) \union {waiters[1]}
            /\ waiters[1] \notin Elements(Tail(waiters)) /\ Once(Tail(waiters))
            /\ phase' = [q \in Ids |-> IF q = r THEN outcome
                                       ELSE IF q = waiters[1] THEN "running" ELSE phase[q]]
<1> DEFINE live == {i \in DOMAIN waiters : waiters[i] \notin aborted}
           next == CHOOSE i \in live : \A j \in live : i <= j
           rest == IF live = {} THEN << >> ELSE SubSeq(waiters, next + 1, Len(waiters))
           woken == IF live = {} THEN {} ELSE {waiters[next]}
<1>0. /\ waiters' = rest
      /\ active' = active - 1 + Cardinality(woken)
      /\ holders' = (holders \ {r}) \union woken
      /\ phase' = [q \in Ids |-> IF q = r THEN outcome
                                 ELSE IF q \in woken THEN "running"
                                 ELSE IF q \in Elements(waiters) \ Elements(rest) THEN "failed"
                                 ELSE phase[q]]
  BY DEF Release
<1>1. live = DOMAIN waiters /\ waiters \in Seq(Runs) /\ active \in Int /\ Once(waiters)
  <2>1. waiters \in Seq(Runs) /\ active \in Int /\ Once(waiters) /\ Elements(waiters) \cap aborted = {}
    BY LimitsAssumption DEF SemaphoreState, SemaphoreSound, WaitersWait
  <2>2. \A i \in DOMAIN waiters : waiters[i] \in Elements(waiters)
    BY DEF Elements
  <2> QED
    BY <2>1, <2>2
<1>2. CASE waiters = << >>
  <2>1. live = {} /\ Elements(waiters) = {}
    BY <1>1, <1>2 DEF Elements
  <2>2. rest = << >> /\ woken = {}
    BY <2>1
  <2>3. Cardinality(woken) = 0
    BY <2>2, FS_EmptySet
  <2> HIDE DEF live, next, rest, woken
  <2> QED
    BY <1>0, <1>1, <1>2, <2>1, <2>2, <2>3
<1>3. CASE waiters # << >>
  <2>1. live # {} /\ next = 1
    <3>1. 1 \in live /\ \A j \in live : 1 <= j
      BY <1>1, <1>3
    <3>2. \A i \in live : (\A j \in live : i <= j) => i = 1
      BY <1>1, <3>1
    <3> QED
      BY <3>1, <3>2
  <2>2. rest = Tail(waiters)
    <3> HIDE DEF next, live
    <3>1. next + 1 = 2
      BY <2>1
    <3>2. Tail(waiters) = SubSeq(waiters, 2, Len(waiters))
      BY <1>1, <1>3, TailIsSubSeq
    <3> QED
      BY <2>1, <3>1, <3>2
  <2>3. woken = {waiters[1]}
    <3> HIDE DEF next, live
    <3> QED
      BY <2>1
  <2>4. Cardinality(woken) = 1
    BY <2>3, FS_Singleton
  <2>5. /\ DOMAIN waiters = 1..Len(waiters) /\ Len(waiters) \in Nat /\ Len(waiters) # 0
        /\ DOMAIN Tail(waiters) = 1..(Len(waiters) - 1)
        /\ \A i \in 1..(Len(waiters) - 1) : Tail(waiters)[i] = waiters[i + 1]
    BY <1>1, <1>3
  <2>6. \A i \in DOMAIN Tail(waiters) : /\ i + 1 \in DOMAIN waiters /\ i + 1 # 1
                                        /\ Tail(waiters)[i] = waiters[i + 1]
    BY <2>5
  <2>7. \A i \in DOMAIN waiters : i = 1 \/ (i - 1 \in DOMAIN Tail(waiters) /\ Tail(waiters)[i - 1] = waiters[i])
    BY <2>5
  <2>8. 1 \in DOMAIN waiters
    BY <2>5
  <2> DEFINE t == Tail(waiters)
  <2> HIDE DEF t, live, next, rest, woken
  <2>9. Elements(waiters) = Elements(t) \union {waiters[1]}
    <3>1. \A e \in Elements(waiters) : e \in Elements(t) \/ e = waiters[1]
      BY <2>7 DEF Elements, t
    <3>2. \A e \in Elements(t) : e \in Elements(waiters)
      BY <2>6 DEF Elements, t
    <3>3. waiters[1] \in Elements(waiters)
      BY <2>8 DEF Elements
    <3> HIDE DEF Elements
    <3> QED
      BY <3>1, <3>2, <3>3
  <2>10. waiters[1] \notin Elements(t)
    BY <1>1, <2>6, <2>8 DEF Elements, Once, t
  <2>11. Once(t)
    <3> SUFFICES ASSUME NEW i \in DOMAIN t, NEW j \in DOMAIN t, t[i] = t[j] PROVE i = j
      BY DEF Once
    <3>1. i + 1 = j + 1 /\ i \in Int /\ j \in Int
      BY <1>1, <2>5, <2>6 DEF Once, t
    <3> QED
      BY <3>1
  <2>12. active - 1 + 1 = active
    BY <1>1
  <2>13. Elements(waiters) \ Elements(rest) = {waiters[1]}
    BY <2>2, <2>9, <2>10 DEF t
  <2> QED
    BY <1>0, <1>3, <2>2, <2>3, <2>4, <2>9, <2>10, <2>11, <2>12, <2>13 DEF t
<1> QED
  BY <1>2, <1>3

\* The end of an operation keeps the semaphore sound.
LEMMA ReleaseKeeps ==
  ASSUME TypeOK, SemaphoreState, NEW r \in Runs, NEW outcome \in {"succeeded", "failed"},
         Release(r, outcome), phase[r] = "running", aborted' = aborted
  PROVE  /\ SemaphoreState'
         /\ \A q \in Ids : \/ phase'[q] = phase[q]
                           \/ q = r /\ phase'[q] = outcome
                           \/ phase[q] = "waiting" /\ phase'[q] = "running"
<1>1. /\ r \in Ids /\ r # Root /\ r \in holders /\ r \notin Elements(waiters)
      /\ IsFiniteSet(holders) /\ Cardinality(holders) = active /\ active \in 0..Capacity
  BY HoldersFinite, TreeAssumption DEF Ids, SemaphoreState, SemaphoreSound, WaitersWait
<1>2. IsFiniteSet(holders \ {r}) /\ Cardinality(holders \ {r}) = active - 1 /\ active # 0
  BY <1>1, FS_RemoveElement, FS_EmptySet
<1>3. CASE /\ waiters = << >> /\ waiters' = << >>
           /\ active' = active - 1 /\ holders' = holders \ {r}
           /\ phase' = [q \in Ids |-> IF q = r THEN outcome ELSE phase[q]]
  <2>1. active' \in 0..Capacity
    BY <1>1, <1>2, <1>3, LimitsAssumption
  <2>2. phase' \in [Ids -> Phases] /\ phase'[r] = outcome /\ \A q \in Ids \ {r} : phase'[q] = phase[q]
    BY <1>1, <1>3 DEF SemaphoreState, Phases
  <2>3. SemaphoreSound'
    BY <1>1, <1>2, <1>3, <2>2 DEF SemaphoreState, SemaphoreSound, Ids
  <2>4. WaitersWait' /\ RootRuns'
    BY <1>1, <1>3, <2>2 DEF SemaphoreState, WaitersWait, RootRuns, Ids
  <2> QED
    BY <1>1, <1>3, <2>1, <2>2, <2>3, <2>4 DEF SemaphoreState
<1>4. CASE /\ waiters # << >> /\ waiters' = Tail(waiters)
           /\ active' = active /\ holders' = (holders \ {r}) \union {waiters[1]}
           /\ Elements(waiters) = Elements(Tail(waiters)) \union {waiters[1]}
           /\ waiters[1] \notin Elements(Tail(waiters)) /\ Once(Tail(waiters))
           /\ phase' = [q \in Ids |-> IF q = r THEN outcome
                                      ELSE IF q = waiters[1] THEN "running" ELSE phase[q]]
  <2> DEFINE w == waiters[1]
             t == Tail(waiters)
  <2>1. w \in Runs /\ w # r /\ w \notin holders /\ phase[w] = "waiting" /\ w \notin aborted /\ w # Root
    BY <1>1, <1>4, TreeAssumption DEF SemaphoreState, SemaphoreSound, WaitersWait
  <2>2. t \in Seq(Runs)
    BY <1>4 DEF SemaphoreState
  <2> HIDE DEF w, t
  <2>3. Cardinality(holders') = active'
    <3>1. w \notin holders \ {r}
      BY <2>1
    <3>2. Cardinality(holders') = Cardinality(holders \ {r}) + 1
      BY <1>2, <1>4, <3>1, FS_AddElement DEF w
    <3> QED
      BY <1>1, <1>2, <1>4, <3>2
  <2>4. /\ phase' \in [Ids -> Phases] /\ phase'[r] = outcome /\ phase'[w] = "running"
        /\ \A q \in Ids \ {r, w} : phase'[q] = phase[q]
    BY <1>1, <1>4, <2>1 DEF SemaphoreState, Phases, w, Ids
  <2>5. Elements(waiters) = Elements(waiters') \union {w} /\ w \notin Elements(waiters') /\ Once(waiters')
    BY <1>4 DEF t, w
  <2>6. active = Capacity
    BY <1>4 DEF SemaphoreState, SemaphoreSound
  <2>7. SemaphoreSound'
    BY <1>1, <1>4, <2>1, <2>3, <2>4, <2>5, <2>6 DEF SemaphoreState, SemaphoreSound, Ids, w
  <2>8. WaitersWait' /\ RootRuns'
    BY <1>1, <2>1, <2>4, <2>5 DEF SemaphoreState, WaitersWait, RootRuns, Ids
  <2> QED
    BY <1>1, <1>4, <2>1, <2>2, <2>4, <2>7, <2>8 DEF SemaphoreState, t, w
<1> QED
  BY <1>3, <1>4, ReleaseWakesFirst

-----------------------------------------------------------------------------
(* The tree *)

\* Cancelling a node visits it and, with every node, its children; all are in the tree.
LEMMA SubtreeFacts ==
  ASSUME TypeOK, NEW n \in nodes
  PROVE  n \in Subtree(n) /\ Subtree(n) \subseteq nodes /\ Closed(Subtree(n))
<1>1. nodes \in SUBSET Ids /\ Closed(nodes) /\ \A m \in Ids : children[m] \subseteq Ids
  BY DEF TypeOK, Closed
<1>2. n \in Subtree(n)
  BY <1>1 DEF Subtree
<1>3. Subtree(n) \subseteq nodes
  BY <1>1 DEF Subtree
<1>4. ASSUME NEW m \in Subtree(n), NEW c \in children[m] PROVE c \in Subtree(n)
  <2>1. m \in Ids /\ c \in Ids
    BY <1>1 DEF Subtree
  <2>2. ASSUME NEW S \in SUBSET Ids, n \in S, Closed(S) PROVE c \in S
    <3>1. m \in S
      BY <2>2 DEF Subtree
    <3> QED
      BY <2>2, <3>1 DEF Closed
  <2> QED
    BY <2>1, <2>2 DEF Subtree
<1> QED
  BY <1>2, <1>3, <1>4 DEF Closed

\* prune() takes the largest set of marked nodes that has their children.
LEMMA PrunableFacts ==
  ASSUME NEW marked
  PROVE  /\ Prunable(marked) \subseteq marked
         /\ Closed(Prunable(marked))
         /\ \A S \in SUBSET marked : Closed(S) => S \subseteq Prunable(marked)
  BY DEF Prunable, Closed

\* complete() leaves a tree of the same kind.
LEMMA CompleteKeepsType ==
  ASSUME TypeOK, NodesStarted, NEW r \in Ids, Complete(r), phase' = [phase EXCEPT ![r] = "done"],
         aborted' = aborted
  PROVE  /\ nodes' \subseteq nodes /\ completed' \subseteq nodes'
         /\ children' \in [Ids -> SUBSET (nodes' \ {Root})]
         /\ NodesStarted'
<1> DEFINE marked == IF r \in nodes THEN completed \union {r} ELSE completed
           gone == Prunable(marked)
<1>1. /\ nodes' = nodes \ gone
      /\ children' = [n \in Ids |-> IF n \in gone THEN {} ELSE children[n] \ gone]
      /\ completed' = marked \ gone
  BY DEF Complete
<1>2. marked \subseteq nodes
  BY DEF TypeOK
<1> HIDE DEF marked, gone
<1>3. \A n \in Ids : children'[n] \subseteq children[n] /\ children'[n] \subseteq nodes' \ {Root}
  BY <1>1 DEF TypeOK
<1>4. \A n \in Ids : phase[n] # "none" => phase'[n] # "none"
  BY DEF TypeOK
<1>5. NodesStarted'
  BY <1>1, <1>3, <1>4 DEF NodesStarted, TypeOK
<1> QED
  BY <1>1, <1>2, <1>3, <1>5

-----------------------------------------------------------------------------
(* Every step keeps the types and the semaphore. *)

LEMMA SemaphoreParts ==
  ASSUME TypeOK
  PROVE  SemaphoreState <=> SemaphoreSound /\ WaitersWait /\ RootRuns
  BY DEF SemaphoreState, TypeOK

LEMMA BeginKeeps ==
  ASSUME SemaphoreInv, NEW r \in Runs, Begin(r) PROVE SemaphoreInv'
<1> DEFINE p == Parent[r]
<1>1. p \in Ids /\ r \in Ids /\ r # Root /\ phase[r] = "none" /\ MayDerive(p) /\ UNCHANGED <<completed, cancelled>>
  BY TreeAssumption DEF Begin, Ids
<1>2. TypeOK /\ SemaphoreState /\ NodesStarted /\ phase[p] # "none" /\ r \notin aborted /\ r \notin nodes
  BY <1>1, SemaphoreParts DEF SemaphoreInv, MayDerive, NodesStarted
<1> HIDE DEF p
<1>3. CASE /\ Claimable(r)
           /\ nodes' = nodes \union {p, r}
           /\ children' = [children EXCEPT ![p] = @ \union {r}]
           /\ aborted' = IF p \in aborted THEN aborted \union {r} ELSE aborted
           /\ claimed' = claimed + 1
           /\ attempt' = [attempt EXCEPT ![r] = 1]
           /\ Acquire(r, p \in aborted)
  <2> DEFINE isAborted == p \in aborted
  <2>1. isAborted \in BOOLEAN /\ (~isAborted => r \notin aborted /\ aborted' = aborted)
        /\ aborted' \in {aborted, aborted \union {r}} /\ Acquire(r, isAborted)
    BY <1>2, <1>3
  <2> HIDE DEF isAborted
  <2>2. /\ SemaphoreState' /\ phase'[r] \in {"failed", "running", "waiting"}
        /\ \A q \in Ids \ {r} : phase'[q] = phase[q]
    BY <1>1, <1>2, <2>1, AcquireKeeps
  <2>3. /\ nodes' \subseteq Ids /\ completed' \subseteq nodes'
        /\ children' \in [Ids -> SUBSET (nodes' \ {Root})]
        /\ \A n \in Ids : children'[n] = IF n = p THEN children[n] \union {r} ELSE children[n]
    BY <1>1, <1>2, <1>3 DEF TypeOK
  <2>4. attempt' \in [Runs -> 0..MaxAttempts] /\ claimed' \in 0..MaxChildRuns
    <3>1. 1 \in 0..MaxAttempts /\ claimed + 1 \in 0..MaxChildRuns
      BY <1>2, <1>3, LimitsAssumption DEF TypeOK, Claimable
    <3> QED
      BY <1>2, <1>3, <3>1 DEF TypeOK
  <2>5. aborted' \subseteq Ids /\ cancelled' \subseteq Ids
    BY <1>1, <1>2, <1>3 DEF TypeOK
  <2>6. TypeOK'
    BY <2>2, <2>3, <2>4, <2>5 DEF TypeOK, SemaphoreState
  <2>7. NodesStarted'
    <3>1. \A n \in nodes' \union aborted' : n = r \/ n = p \/ n \in nodes \union aborted
      BY <1>3
    <3>2. \A n \in nodes' \union aborted' : phase'[n] # "none"
      BY <1>1, <1>2, <2>2, <3>1 DEF NodesStarted, TypeOK
    <3>3. \A n \in Ids : \A c \in children'[n] : Parent[c] = n
      BY <1>2, <2>3 DEF NodesStarted, p
    <3> QED
      BY <3>2, <3>3 DEF NodesStarted
  <2> QED
    BY <2>2, <2>6, <2>7 DEF SemaphoreInv, SemaphoreState
<1>4. CASE /\ nodes' = nodes \union {p}
           /\ phase' = [phase EXCEPT ![r] = "done"]
           /\ UNCHANGED <<children, aborted, claimed, attempt, semaphore>>
  <2>1. waiters' = waiters /\ active' = active /\ holders' = holders
    BY <1>4 DEF semaphore
  <2>2. phase' \in [Ids -> Phases] /\ phase'[r] = "done" /\ \A q \in Ids \ {r} : phase'[q] = phase[q]
    BY <1>1, <1>2, <1>4 DEF TypeOK, Phases
  <2>3. nodes' \subseteq Ids /\ children' \in [Ids -> SUBSET (nodes' \ {Root})] /\ completed' \subseteq nodes'
    BY <1>1, <1>2, <1>4 DEF TypeOK
  <2>4. TypeOK'
    BY <1>1, <1>2, <1>4, <2>1, <2>2, <2>3 DEF TypeOK
  <2>5. SemaphoreSound' /\ WaitersWait' /\ RootRuns'
    <3>1. /\ {q \in Runs : phase'[q] = "running"} = {q \in Runs : phase[q] = "running"}
          /\ {q \in Runs : phase'[q] = "waiting"} = {q \in Runs : phase[q] = "waiting"}
      BY <1>1, <2>2 DEF Ids
    <3>2. phase'[Root] = phase[Root]
      BY <1>1, <2>2 DEF Ids
    <3> QED
      BY <1>2, <1>4, <2>1, <3>1, <3>2 DEF SemaphoreState, SemaphoreSound, WaitersWait, RootRuns
  <2>6. NodesStarted'
    BY <1>1, <1>2, <1>4, <2>2 DEF NodesStarted, TypeOK
  <2> QED
    BY <2>4, <2>5, <2>6 DEF SemaphoreInv
<1> QED
  BY <1>3, <1>4 DEF Begin, p

LEMMA EndOperationKeeps ==
  ASSUME SemaphoreInv, NEW r \in Runs, EndOperation(r) PROVE SemaphoreInv'
<1>1. PICK outcome \in {"succeeded", "failed"} : Release(r, outcome)
  BY DEF EndOperation
<1>2. phase[r] = "running" /\ UNCHANGED <<attempt, tree, aborted, claimed, cancelled>>
  BY DEF EndOperation
<1>3. TypeOK /\ SemaphoreState /\ NodesStarted
  BY SemaphoreParts DEF SemaphoreInv
<1>4. /\ SemaphoreState'
      /\ \A q \in Ids : \/ phase'[q] = phase[q]
                        \/ q = r /\ phase'[q] = outcome
                        \/ phase[q] = "waiting" /\ phase'[q] = "running"
  BY <1>1, <1>2, <1>3, ReleaseKeeps
<1>5. TypeOK'
  BY <1>2, <1>3, <1>4 DEF TypeOK, SemaphoreState, tree
<1>6. NodesStarted'
  BY <1>2, <1>3, <1>4 DEF NodesStarted, TypeOK, tree
<1> QED
  BY <1>4, <1>5, <1>6 DEF SemaphoreInv, SemaphoreState

LEMMA RetryKeeps ==
  ASSUME SemaphoreInv, NEW r \in Runs, Retry(r) PROVE SemaphoreInv'
<1>1. /\ phase[r] \in {"succeeded", "failed"} /\ r \notin aborted /\ attempt[r] < MaxAttempts
      /\ attempt' = [attempt EXCEPT ![r] = @ + 1] /\ Acquire(r, FALSE)
      /\ UNCHANGED <<tree, aborted, claimed, cancelled>>
  BY DEF Retry
<1>2. TypeOK /\ SemaphoreState /\ NodesStarted
  BY SemaphoreParts DEF SemaphoreInv
<1>3. /\ SemaphoreState' /\ phase'[r] \in {"failed", "running", "waiting"}
      /\ \A q \in Ids \ {r} : phase'[q] = phase[q]
  BY <1>1, <1>2, AcquireKeeps
<1>4. attempt' \in [Runs -> 0..MaxAttempts]
  BY <1>1, <1>2, LimitsAssumption DEF TypeOK
<1>5. TypeOK'
  BY <1>1, <1>2, <1>3, <1>4 DEF TypeOK, SemaphoreState, tree
<1>6. NodesStarted'
  BY <1>1, <1>2, <1>3 DEF NodesStarted, TypeOK, tree
<1> QED
  BY <1>3, <1>5, <1>6 DEF SemaphoreInv, SemaphoreState

\* A run that is over, and neither waits nor holds a permit, is done and completed.
LEMMA CompletionKeeps ==
  ASSUME SemaphoreInv, NEW r \in Ids, Complete(r), phase' = [phase EXCEPT ![r] = "done"],
         r = Root \/ phase[r] \notin {"waiting", "running"},
         UNCHANGED <<attempt, aborted, semaphore, claimed, cancelled>>
  PROVE  SemaphoreInv'
<1>1. TypeOK /\ SemaphoreState /\ NodesStarted
  BY SemaphoreParts DEF SemaphoreInv
<1>2. /\ nodes' \subseteq nodes /\ completed' \subseteq nodes'
      /\ children' \in [Ids -> SUBSET (nodes' \ {Root})]
      /\ NodesStarted'
  BY <1>1, CompleteKeepsType
<1>3. waiters' = waiters /\ active' = active /\ holders' = holders
  BY DEF semaphore
<1>4. phase' \in [Ids -> Phases] /\ phase'[r] = "done" /\ \A q \in Ids \ {r} : phase'[q] = phase[q]
  BY <1>1 DEF TypeOK, Phases
<1>5. TypeOK'
  BY <1>1, <1>2, <1>3, <1>4 DEF TypeOK
<1>6. SemaphoreSound' /\ WaitersWait' /\ RootRuns'
  <2>1. /\ {q \in Runs : phase'[q] = "running"} = {q \in Runs : phase[q] = "running"}
        /\ {q \in Runs : phase'[q] = "waiting"} = {q \in Runs : phase[q] = "waiting"}
    BY <1>4, TreeAssumption DEF Ids
  <2>2. phase'[Root] \in {phase[Root], "done"}
    BY <1>4 DEF Ids
  <2> QED
    BY <1>1, <1>3, <2>1, <2>2 DEF SemaphoreState, SemaphoreSound, WaitersWait, RootRuns
<1> QED
  BY <1>2, <1>5, <1>6 DEF SemaphoreInv

LEMMA CancelTreeKeeps ==
  ASSUME SemaphoreInv, NEW n \in Ids, CancelTree(n) PROVE SemaphoreInv'
<1> DEFINE reached == Subtree(n)
<1>1. /\ n \in nodes
      /\ aborted' = aborted \union reached
      /\ waiters' = Without(reached)
      /\ phase' = [r \in Ids |-> IF phase[r] = "waiting" /\ r \in reached THEN "failed" ELSE phase[r]]
      /\ cancelled' = cancelled \union {n}
      /\ UNCHANGED <<attempt, tree, active, holders, claimed>>
  BY DEF CancelTree
<1>2. TypeOK /\ SemaphoreState /\ NodesStarted
  BY SemaphoreParts DEF SemaphoreInv
<1>3. reached \subseteq nodes
  BY <1>1, <1>2, SubtreeFacts
<1> HIDE DEF reached
<1>4. /\ waiters' \in Seq(Runs) /\ Elements(waiters') = Elements(waiters) \ reached /\ Once(waiters')
  BY <1>1, <1>2, WithoutEffect DEF SemaphoreState, WaitersWait
<1>5. /\ phase' \in [Ids -> Phases]
      /\ \A q \in Ids : phase'[q] = IF phase[q] = "waiting" /\ q \in reached THEN "failed" ELSE phase[q]
  BY <1>1, <1>2 DEF TypeOK, Phases
<1>6. TypeOK'
  BY <1>1, <1>2, <1>3, <1>4, <1>5 DEF TypeOK, tree
<1>7. waiters' # << >> => waiters # << >>
  <2>1. waiters' # << >> => 1 \in DOMAIN waiters'
    BY <1>4
  <2>2. waiters = << >> => Elements(waiters) = {}
    BY DEF Elements
  <2> QED
    BY <1>4, <2>1, <2>2 DEF Elements
<1>8. SemaphoreSound' /\ WaitersWait' /\ RootRuns'
  <2>1. {q \in Runs : phase'[q] = "running"} = {q \in Runs : phase[q] = "running"}
    BY <1>5 DEF Ids
  <2>2. {q \in Runs : phase'[q] = "waiting"} = {q \in Runs : phase[q] = "waiting"} \ reached
    BY <1>5 DEF Ids
  <2>3. Elements(waiters') \cap aborted' = {}
    BY <1>1, <1>2, <1>4 DEF SemaphoreState, SemaphoreSound
  <2>4. phase'[Root] = phase[Root]
    BY <1>2, <1>5 DEF SemaphoreState, RootRuns, Ids
  <2> QED
    BY <1>1, <1>2, <1>4, <1>7, <2>1, <2>2, <2>3, <2>4 DEF SemaphoreState, SemaphoreSound, WaitersWait, RootRuns
<1>9. NodesStarted'
  <2>1. \A q \in Ids : phase[q] # "none" => phase'[q] # "none"
    BY <1>5
  <2> QED
    BY <1>1, <1>2, <1>3, <2>1 DEF NodesStarted, TypeOK, tree
<1> QED
  BY <1>6, <1>8, <1>9 DEF SemaphoreInv

-----------------------------------------------------------------------------
(* Every step keeps the tree, when no child is late. *)

Alive == {"waiting", "running", "succeeded", "failed"}

\* A step in which runs that are not over stay so leaves the tree as it is.
LEMMA TreeUntouched ==
  ASSUME TypeOK, NodesOfRuns, NodesLinked, NothingToPrune, UNCHANGED tree,
         \A q \in Ids : \/ phase'[q] = phase[q]
                        \/ q \in Runs /\ phase[q] \in Alive /\ phase'[q] \in Alive
  PROVE  NodesOfRuns' /\ NodesLinked' /\ NothingToPrune'
<1>1. nodes' = nodes /\ children' = children /\ completed' = completed
  BY DEF tree
<1>2. Root \in Ids /\ Root \notin Runs /\ Runs \subseteq Ids /\ nodes \subseteq Ids /\ completed \subseteq Ids
  BY TreeAssumption DEF TypeOK, Ids
<1>3. NodesOfRuns'
  BY <1>1, <1>2 DEF NodesOfRuns, Live, Alive
<1>4. NodesLinked' /\ NothingToPrune'
  BY <1>1 DEF NodesLinked, NothingToPrune, Closed
<1> QED
  BY <1>3, <1>4

LEMMA BeginKeepsTree ==
  ASSUME SemaphoreInv, TreeInv, ~LateChildren, NEW r \in Runs, Begin(r) PROVE TreeInv'
<1> DEFINE p == Parent[r]
<1>1. /\ p \in Ids /\ r \in Ids /\ r # Root /\ Root \in Ids /\ phase[r] = "none" /\ phase[p] = "running"
      /\ UNCHANGED <<completed, cancelled>>
  BY TreeAssumption DEF Begin, MayDerive, Ids
<1>2. /\ TypeOK /\ SemaphoreState /\ NodesStarted /\ NodesOfRuns /\ NodesLinked
      /\ AbortsInherited /\ NothingToPrune
  BY SemaphoreParts DEF SemaphoreInv, TreeInv
<1>3. p \in nodes /\ p \notin completed /\ r \notin nodes /\ r \notin completed /\ r \notin aborted /\ p # r
  BY <1>1, <1>2 DEF NodesOfRuns, NodesStarted, Live, Ids, TypeOK
<1> HIDE DEF p
<1>4. CASE /\ nodes' = nodes \union {p, r}
           /\ children' = [children EXCEPT ![p] = @ \union {r}]
           /\ aborted' = IF p \in aborted THEN aborted \union {r} ELSE aborted
           /\ Acquire(r, p \in aborted)
  <2> DEFINE isAborted == p \in aborted
  <2>1. isAborted \in BOOLEAN /\ (~isAborted => r \notin aborted /\ aborted' = aborted)
        /\ aborted' \in {aborted, aborted \union {r}} /\ Acquire(r, isAborted)
    BY <1>3, <1>4
  <2> HIDE DEF isAborted
  <2>2. /\ phase'[r] \in {"failed", "running", "waiting"}
        /\ \A q \in Ids \ {r} : phase'[q] = phase[q]
    BY <1>1, <1>2, <2>1, AcquireKeeps
  <2>3. \A n \in Ids : children'[n] = IF n = p THEN children[n] \union {r} ELSE children[n]
    BY <1>2, <1>4 DEF TypeOK
  <2>4. nodes' = nodes \union {r} /\ nodes \subseteq Ids /\ completed' = completed /\ completed \subseteq Ids
    BY <1>1, <1>2, <1>3, <1>4 DEF TypeOK
  <2>5. NodesOfRuns'
    <3>1. \A q \in Runs : Live(q)' => q \in nodes'
      BY <1>2, <2>2, <2>4 DEF NodesOfRuns, Live, Ids
    <3>2. phase'[Root] = "running" => Root \in nodes'
      BY <1>1, <1>2, <2>2, <2>4 DEF NodesOfRuns
    <3>3. \A n \in nodes' : phase'[n] = "done" => n \in completed'
      BY <1>1, <1>2, <2>2, <2>4 DEF NodesOfRuns
    <3>4. \A n \in completed' : phase'[n] = "done"
      BY <1>2, <1>3, <2>2, <2>4 DEF NodesOfRuns
    <3> QED
      BY <3>1, <3>2, <3>3, <3>4 DEF NodesOfRuns
  <2>6. NodesLinked'
    <3>1. \A q \in nodes \ {Root} : Parent[q] \in nodes' /\ q \in children'[Parent[q]]
      BY <1>2, <2>3, <2>4 DEF NodesLinked
    <3>2. Parent[r] \in nodes' /\ r \in children'[Parent[r]]
      BY <1>1, <1>3, <2>3, <2>4 DEF p
    <3> QED
      BY <2>4, <3>1, <3>2 DEF NodesLinked
  <2>7. AbortsInherited'
    <3>1. children[r] = {}
      BY <1>1, <1>2, <1>3 DEF NodesLinked, NodesStarted, TypeOK
    <3>2. cancelled' \subseteq aborted'
      BY <1>1, <1>2, <1>4 DEF AbortsInherited
    <3>3. ASSUME NEW n \in nodes' \cap aborted', NEW c \in children'[n] PROVE c \in aborted'
      <4>1. CASE n = r
        BY <1>1, <1>3, <2>3, <3>1, <3>3, <4>1
      <4>2. CASE n # r
        <5>1. n \in nodes \cap aborted /\ aborted \subseteq aborted'
          BY <1>4, <2>4, <3>3, <4>2
        <5>2. c \in children[n] \/ (n = p /\ c = r)
          BY <2>3, <2>4, <3>3, <5>1
        <5> QED
          BY <1>2, <1>4, <5>1, <5>2 DEF AbortsInherited
      <4> QED
        BY <4>1, <4>2
    <3> QED
      BY <3>2, <3>3 DEF AbortsInherited
  <2>8. NothingToPrune'
    <3> SUFFICES ASSUME NEW S \in SUBSET completed', Closed(S)' PROVE S = {}
      BY DEF NothingToPrune
    <3>1. \A n \in S : n \in Ids /\ n # p /\ children'[n] = children[n]
      BY <1>3, <2>3, <2>4
    <3>2. Closed(S)
      BY <3>1 DEF Closed
    <3> QED
      BY <1>2, <2>4, <3>2 DEF NothingToPrune
  <2> QED
    BY <2>5, <2>6, <2>7, <2>8 DEF TreeInv
<1>5. CASE /\ nodes' = nodes \union {p}
           /\ phase' = [phase EXCEPT ![r] = "done"]
           /\ UNCHANGED <<children, aborted>>
  <2>1. nodes' = nodes /\ nodes \subseteq Ids /\ completed \subseteq nodes /\ completed' = completed
    BY <1>1, <1>2, <1>3, <1>5 DEF TypeOK
  <2>2. phase'[r] = "done" /\ \A q \in Ids \ {r} : phase'[q] = phase[q]
    BY <1>1, <1>2, <1>5 DEF TypeOK
  <2>3. NodesOfRuns'
    BY <1>1, <1>2, <1>3, <2>1, <2>2 DEF NodesOfRuns, Live, Ids
  <2>4. NodesLinked' /\ AbortsInherited' /\ NothingToPrune'
    BY <1>1, <1>2, <1>5, <2>1 DEF NodesLinked, AbortsInherited, NothingToPrune, Closed
  <2> QED
    BY <2>3, <2>4 DEF TreeInv
<1> QED
  BY <1>4, <1>5 DEF Begin, p

LEMMA EndOperationKeepsTree ==
  ASSUME SemaphoreInv, TreeInv, NEW r \in Runs, EndOperation(r) PROVE TreeInv'
<1>1. PICK outcome \in {"succeeded", "failed"} : Release(r, outcome)
  BY DEF EndOperation
<1>2. phase[r] = "running" /\ UNCHANGED <<tree, aborted, cancelled>>
  BY DEF EndOperation
<1>3. TypeOK /\ SemaphoreState
  BY SemaphoreParts DEF SemaphoreInv
<1>4. \A q \in Ids : \/ phase'[q] = phase[q]
                     \/ q = r /\ phase'[q] = outcome
                     \/ phase[q] = "waiting" /\ phase'[q] = "running"
  BY <1>1, <1>2, <1>3, ReleaseKeeps
<1>5. phase[Root] # "waiting"
  BY <1>3 DEF SemaphoreState, RootRuns
<1>6. NodesOfRuns' /\ NodesLinked' /\ NothingToPrune'
  BY <1>2, <1>3, <1>4, <1>5, TreeUntouched DEF TreeInv, Alive, Ids
<1>7. AbortsInherited'
  BY <1>2 DEF TreeInv, AbortsInherited, tree
<1> QED
  BY <1>6, <1>7 DEF TreeInv

LEMMA RetryKeepsTree ==
  ASSUME SemaphoreInv, TreeInv, NEW r \in Runs, Retry(r) PROVE TreeInv'
<1>1. /\ phase[r] \in {"succeeded", "failed"} /\ r \notin aborted /\ Acquire(r, FALSE)
      /\ UNCHANGED <<tree, aborted, cancelled>>
  BY DEF Retry
<1>2. TypeOK /\ SemaphoreState
  BY SemaphoreParts DEF SemaphoreInv
<1>3. /\ phase'[r] \in {"failed", "running", "waiting"}
      /\ \A q \in Ids \ {r} : phase'[q] = phase[q]
  BY <1>1, <1>2, AcquireKeeps
<1>4. NodesOfRuns' /\ NodesLinked' /\ NothingToPrune'
  BY <1>1, <1>2, <1>3, TreeUntouched DEF TreeInv, Alive
<1>5. AbortsInherited'
  BY <1>1 DEF TreeInv, AbortsInherited, tree
<1> QED
  BY <1>4, <1>5 DEF TreeInv

\* What complete() leaves has nothing more to prune: a set that could go now could have
\* gone with the rest.
LEMMA CompletionKeepsTree ==
  ASSUME SemaphoreInv, TreeInv, NEW r \in Ids, Complete(r), phase' = [phase EXCEPT ![r] = "done"],
         phase[r] # "none", UNCHANGED <<aborted, cancelled>>
  PROVE  TreeInv'
<1> DEFINE marked == IF r \in nodes THEN completed \union {r} ELSE completed
           gone == Prunable(marked)
<1>1. /\ nodes' = nodes \ gone
      /\ children' = [n \in Ids |-> IF n \in gone THEN {} ELSE children[n] \ gone]
      /\ completed' = marked \ gone
  BY DEF Complete
<1>2. /\ gone \subseteq marked /\ Closed(gone)
      /\ \A S \in SUBSET marked : Closed(S) => S \subseteq gone
  BY PrunableFacts
<1>3. /\ TypeOK /\ NodesOfRuns /\ NodesLinked /\ AbortsInherited /\ nodes \subseteq Ids /\ completed \subseteq nodes
      /\ Root \in Ids /\ Root \notin Runs /\ Runs \subseteq Ids
  BY TreeAssumption DEF SemaphoreInv, TreeInv, TypeOK, Ids
<1>4. phase'[r] = "done" /\ \A q \in Ids \ {r} : phase'[q] = phase[q]
  BY <1>3 DEF TypeOK
<1>5. \A n \in marked : n \in nodes /\ phase'[n] = "done"
  BY <1>3, <1>4 DEF NodesOfRuns
<1>6. \A n \in nodes : phase'[n] = "done" => n \in marked
  BY <1>3, <1>4 DEF NodesOfRuns
<1> HIDE DEF marked, gone
<1>7. NodesOfRuns'
  <2>1. \A q \in Runs : Live(q)' => q \in nodes'
    BY <1>1, <1>2, <1>3, <1>4, <1>5 DEF NodesOfRuns, Live
  <2>2. phase'[Root] = "running" => Root \in nodes'
    BY <1>1, <1>2, <1>3, <1>4, <1>5 DEF NodesOfRuns
  <2> QED
    BY <1>1, <1>5, <1>6, <2>1, <2>2 DEF NodesOfRuns
<1>8. NodesLinked'
  <2> SUFFICES ASSUME NEW q \in nodes' \ {Root} PROVE Parent[q] \in nodes' /\ q \in children'[Parent[q]]
    BY DEF NodesLinked
  <2>1. q \in nodes /\ q \notin gone /\ Parent[q] \in nodes /\ q \in children[Parent[q]]
    BY <1>1, <1>3 DEF NodesLinked
  <2>2. Parent[q] \notin gone
    BY <1>2, <2>1 DEF Closed
  <2> QED
    BY <1>1, <1>3, <2>1, <2>2
<1>9. AbortsInherited'
  BY <1>1, <1>3 DEF AbortsInherited
<1>10. NothingToPrune'
  <2> SUFFICES ASSUME NEW S \in SUBSET completed', Closed(S)' PROVE S = {}
    BY DEF NothingToPrune
  <2>1. S \union gone \in SUBSET marked
    BY <1>1, <1>2
  <2>2. \A n \in S : children[n] \subseteq S \union gone
    BY <1>1, <1>3, <1>5 DEF Closed
  <2>3. Closed(S \union gone)
    BY <1>2, <2>2 DEF Closed
  <2> QED
    BY <1>1, <1>2, <2>1, <2>3
<1> QED
  BY <1>7, <1>8, <1>9, <1>10 DEF TreeInv

LEMMA CancelTreeKeepsTree ==
  ASSUME SemaphoreInv, TreeInv, NEW n \in Ids, CancelTree(n) PROVE TreeInv'
<1> DEFINE reached == Subtree(n)
<1>1. /\ n \in nodes
      /\ aborted' = aborted \union reached
      /\ phase' = [r \in Ids |-> IF phase[r] = "waiting" /\ r \in reached THEN "failed" ELSE phase[r]]
      /\ cancelled' = cancelled \union {n}
      /\ UNCHANGED tree
  BY DEF CancelTree
<1>2. TypeOK /\ SemaphoreState
  BY SemaphoreParts DEF SemaphoreInv
<1>3. n \in reached /\ Closed(reached)
  BY <1>1, <1>2, SubtreeFacts
<1> HIDE DEF reached
<1>4. \A q \in Ids : \/ phase'[q] = phase[q]
                     \/ q \in Runs /\ phase[q] \in Alive /\ phase'[q] \in Alive
  BY <1>1, <1>2 DEF SemaphoreState, RootRuns, Alive, Ids
<1>5. NodesOfRuns' /\ NodesLinked' /\ NothingToPrune'
  BY <1>1, <1>2, <1>4, TreeUntouched DEF TreeInv
<1>6. AbortsInherited'
  <2>1. cancelled' \subseteq aborted'
    BY <1>1, <1>3 DEF TreeInv, AbortsInherited
  <2>2. \A m \in nodes \cap aborted' : children[m] \subseteq aborted'
    BY <1>1, <1>3 DEF TreeInv, AbortsInherited, Closed
  <2> QED
    BY <1>1, <2>1, <2>2 DEF AbortsInherited, tree
<1> QED
  BY <1>5, <1>6 DEF TreeInv

-----------------------------------------------------------------------------
(* The invariant and what follows from it *)

LEMMA InitSound == Init => IInv
<1> SUFFICES ASSUME Init PROVE IInv
  OBVIOUS
<1>1. Root \in Ids /\ Root \notin Runs /\ Runs \subseteq Ids /\ 0 \in 0..Capacity
      /\ 0 \in 0..MaxAttempts /\ 0 \in 0..MaxChildRuns
  BY TreeAssumption, LimitsAssumption DEF Ids
<1>2. waiters = << >> /\ Elements(waiters) = {} /\ waiters \in Seq(Runs) /\ Once(waiters)
  BY DEF Init, Elements, Once
<1>3. phase \in [Ids -> Phases] /\ phase[Root] = "running" /\ \A r \in Runs : phase[r] = "none"
  BY <1>1 DEF Init, Phases
<1>4. TypeOK
  BY <1>1, <1>2, <1>3 DEF Init, TypeOK
<1>5. SemaphoreSound /\ WaitersWait /\ RootRuns /\ NodesStarted
  BY <1>2, <1>3, FS_EmptySet DEF Init, SemaphoreSound, WaitersWait, RootRuns, NodesStarted
<1>6. NodesOfRuns /\ NodesLinked /\ AbortsInherited /\ NothingToPrune
  BY <1>1, <1>3 DEF Init, NodesOfRuns, NodesLinked, AbortsInherited, NothingToPrune, Live
<1> QED
  BY <1>4, <1>5, <1>6 DEF IInv, SemaphoreInv, TreeInv

LEMMA StutterSound ==
  ASSUME IInv, UNCHANGED vars PROVE IInv'
<1>1. /\ phase' = phase /\ attempt' = attempt /\ nodes' = nodes /\ children' = children
      /\ completed' = completed /\ aborted' = aborted /\ waiters' = waiters /\ active' = active
      /\ holders' = holders /\ claimed' = claimed /\ cancelled' = cancelled
  BY DEF vars, tree, semaphore
<1>2. SemaphoreInv'
  BY <1>1 DEF IInv, SemaphoreInv, TypeOK, SemaphoreSound, WaitersWait, RootRuns, NodesStarted
<1>3. TreeInv => TreeInv'
  BY <1>1 DEF TreeInv, NodesOfRuns, NodesLinked, AbortsInherited, NothingToPrune, Closed, Live
<1> QED
  BY <1>2, <1>3 DEF IInv

LEMMA FinishKeeps ==
  ASSUME IInv, NEW r \in Runs, Finish(r) PROVE IInv'
<1>1. /\ r \in Ids /\ Complete(r) /\ phase' = [phase EXCEPT ![r] = "done"]
      /\ phase[r] \notin {"waiting", "running", "none"}
      /\ UNCHANGED <<attempt, aborted, semaphore, claimed, cancelled>>
  BY DEF Finish, Ids
<1>2. SemaphoreInv'
  BY <1>1, CompletionKeeps DEF IInv
<1>3. ~LateChildren => TreeInv'
  BY <1>1, CompletionKeepsTree DEF IInv
<1> QED
  BY <1>2, <1>3 DEF IInv

LEMMA CompleteRootKeeps ==
  ASSUME IInv, CompleteRoot PROVE IInv'
<1>1. /\ Root \in Ids /\ Complete(Root) /\ phase' = [phase EXCEPT ![Root] = "done"]
      /\ phase[Root] # "none"
      /\ UNCHANGED <<attempt, aborted, semaphore, claimed, cancelled>>
  BY DEF CompleteRoot, Ids
<1>2. SemaphoreInv'
  BY <1>1, CompletionKeeps DEF IInv
<1>3. ~LateChildren => TreeInv'
  BY <1>1, CompletionKeepsTree DEF IInv
<1> QED
  BY <1>2, <1>3 DEF IInv

LEMMA NextSound == IInv /\ [Next]_vars => IInv'
<1> SUFFICES ASSUME IInv, [Next]_vars PROVE IInv'
  OBVIOUS
<1>1. ASSUME NEW r \in Runs, Begin(r) PROVE IInv'
  BY <1>1, BeginKeeps, BeginKeepsTree DEF IInv
<1>2. ASSUME NEW r \in Runs, EndOperation(r) PROVE IInv'
  BY <1>2, EndOperationKeeps, EndOperationKeepsTree DEF IInv
<1>3. ASSUME NEW r \in Runs, Retry(r) PROVE IInv'
  BY <1>3, RetryKeeps, RetryKeepsTree DEF IInv
<1>4. ASSUME NEW r \in Runs, Finish(r) PROVE IInv'
  BY <1>4, FinishKeeps
<1>5. ASSUME NEW n \in Ids, CancelTree(n) PROVE IInv'
  BY <1>5, CancelTreeKeeps, CancelTreeKeepsTree DEF IInv
<1>6. CASE CompleteRoot
  BY <1>6, CompleteRootKeeps
<1>7. CASE UNCHANGED vars
  BY <1>7, StutterSound
<1> QED
  BY <1>1, <1>2, <1>3, <1>4, <1>5, <1>6, <1>7 DEF Next

LEMMA Invariance == Spec => []IInv
  BY InitSound, NextSound, PTL DEF Spec

\* The runs above a run of the tree are the least set of its kind.
LEMMA AboveFacts ==
  ASSUME NEW r \in Ids
  PROVE  /\ Above[r] \subseteq Ids
         /\ \A S \in SUBSET Ids : (r # Root => Parent[r] \in S) /\ (\A m \in S \ {Root} : Parent[m] \in S)
                                  => Above[r] \subseteq S
         /\ r = Root => Above[r] = {}
         /\ r # Root => \A n \in Ids : n = Parent[r] \/ n \in Above[Parent[r]] => n \in Above[r]
<1>1. /\ Above[r] \subseteq Ids
      /\ \A S \in SUBSET Ids : (r # Root => Parent[r] \in S) /\ (\A m \in S \ {Root} : Parent[m] \in S)
                               => Above[r] \subseteq S
  BY DEF Above
<1>2. ASSUME r = Root PROVE Above[r] = {}
  <2>1. ASSUME NEW S, S = {} PROVE Above[r] \subseteq S
    <3>1. S \in SUBSET Ids /\ \A m \in S \ {Root} : Parent[m] \in S
      BY <2>1
    <3> QED
      BY <1>1, <1>2, <3>1
  <2>2. PICK S : S = {}
    OBVIOUS
  <2>3. Above[r] \subseteq S
    BY <2>1, <2>2
  <2> QED
    BY <2>2, <2>3
<1>3. ASSUME r # Root, NEW n \in Ids, n = Parent[r] \/ n \in Above[Parent[r]] PROVE n \in Above[r]
  <2>1. r \in Runs /\ Parent[r] \in Ids
    BY <1>3, TreeAssumption DEF Ids
  <2> SUFFICES ASSUME NEW S \in SUBSET Ids, Parent[r] \in S, \A m \in S \ {Root} : Parent[m] \in S
               PROVE  n \in S
    BY <1>3 DEF Above
  <2>2. n \in Above[Parent[r]] => n \in S
    BY <2>1 DEF Above
  <2> QED
    BY <1>3, <2>2
<1> QED
  BY <1>1, <1>2, <1>3

\* The ancestors of a run that is not over are nodes, and their abort has reached it.
LEMMA AbortsReach ==
  ASSUME TypeOK, TreeInv PROVE CancelReachesDescendants
<1> SUFFICES ASSUME NEW r \in Runs, Live(r), NEW a \in Above[r], a \in cancelled PROVE r \in aborted
  BY DEF CancelReachesDescendants
<1>1. r \in nodes /\ r \in Ids /\ r # Root /\ nodes \subseteq Ids /\ a \in aborted
  BY TreeAssumption DEF TreeInv, NodesOfRuns, AbortsInherited, TypeOK, Ids
<1> DEFINE S == {m \in nodes : m \in aborted => r \in aborted}
<1>2. \A m \in nodes \ {Root} : (m \in aborted => r \in aborted) => Parent[m] \in S
  BY <1>1 DEF TreeInv, NodesLinked, AbortsInherited
<1>3. S \in SUBSET Ids /\ Parent[r] \in S /\ \A m \in S \ {Root} : Parent[m] \in S
  BY <1>1, <1>2
<1>4. a \in S
  <2> HIDE DEF S
  <2> QED
    BY <1>1, <1>3, AboveFacts
<1> QED
  BY <1>1, <1>4

\* The nodes at and below one that is done are done when none of them is live, and could
\* then be pruned.
LEMMA DoneStandAboveLive ==
  ASSUME SemaphoreInv, TreeInv PROVE TerminatedArePruned
<1> SUFFICES ASSUME NEW n \in nodes, phase[n] = "done", \A r \in Runs : Live(r) => n \notin Above[r]
             PROVE  FALSE
  BY DEF TerminatedArePruned
<1>1. /\ TypeOK /\ NodesStarted /\ NodesOfRuns /\ nodes \subseteq Ids /\ Root \in Ids
      /\ \A m \in Ids : children[m] \subseteq nodes \ {Root}
  BY DEF SemaphoreInv, TreeInv, TypeOK, Ids
<1> DEFINE S == {m \in nodes : m = n \/ n \in Above[m]}
<1>2. S \subseteq completed
  <2> SUFFICES ASSUME NEW m \in nodes, m = n \/ n \in Above[m] PROVE phase[m] = "done"
    BY <1>1 DEF NodesOfRuns
  <2>1. CASE m = n
    BY <2>1
  <2>2. CASE m # n
    <3>1. m \in Ids /\ m # Root /\ n \in Above[m]
      BY <1>1, <2>2, AboveFacts
    <3>2. m \in Runs /\ ~Live(m)
      BY <3>1 DEF Ids
    <3> QED
      BY <1>1, <3>1, <3>2 DEF Live, NodesStarted, TypeOK, Phases
  <2> QED
    BY <2>1, <2>2
<1>3. Closed(S)
  <2> SUFFICES ASSUME NEW m \in S, NEW c \in children[m] PROVE c \in S
    BY DEF Closed
  <2>1. c \in nodes /\ c \in Ids /\ c # Root /\ Parent[c] = m
    BY <1>1 DEF NodesStarted
  <2>2. n \in Above[c]
    <3>1. n = Parent[c] \/ n \in Above[Parent[c]]
      BY <2>1
    <3> QED
      BY <1>1, <2>1, <3>1, AboveFacts
  <2> QED
    BY <2>1, <2>2
<1>4. n \in S
  OBVIOUS
<1> HIDE DEF S
<1> QED
  BY <1>2, <1>3, <1>4 DEF TreeInv, NothingToPrune

\* Whatever is started, cancelled, retried and completed, in a tree of any shape and with
\* late children or without: every variable of the tree, the semaphore and the budget has
\* its type, and what is linked or marked is in the tree.
THEOREM TypeCorrect == Spec => []TypeOK
<1>1. IInv => TypeOK
  BY DEF IInv, SemaphoreInv
<1> QED
  BY <1>1, Invariance, PTL

\* acquire(), release() and the abort listeners keep account: as many permits are out as
\* runs execute, none is idle while a run waits, and no aborted run waits.
THEOREM SemaphoreIsSound == Spec => []SemaphoreSound
<1>1. IInv => SemaphoreSound
  BY DEF IInv, SemaphoreInv
<1> QED
  BY <1>1, Invariance, PTL

\* When no child is derived from a run that has ended, cancelTree() of a run reaches each
\* of its descendants that is not over, those derived later included.
THEOREM CancelReaches ==
  ASSUME ~LateChildren PROVE Spec => []CancelReachesDescendants
<1>1. IInv => CancelReachesDescendants
  BY AbortsReach DEF IInv, SemaphoreInv
<1> QED
  BY <1>1, Invariance, PTL

\* When no child is derived from a run that has ended, prune() leaves no node behind: one
\* whose run has ended stands above a run that has not.
THEOREM EndedArePruned ==
  ASSUME ~LateChildren PROVE Spec => []TerminatedArePruned
<1>1. IInv => TerminatedArePruned
  BY DoneStandAboveLive DEF IInv
<1> QED
  BY <1>1, Invariance, PTL


-----------------------------------------------------------------------------
(* The controller is a fair semaphore *)

LEMMA SameCount == Fair!Cardinality(holders) = Cardinality(holders)
  BY DEF Fair!Cardinality, Cardinality

\* acquire() lets the run in, or queues it, or refuses it.
LEMMA AcquireImplements ==
  ASSUME SemaphoreState, NEW r \in Runs, phase[r] \in {"none", "succeeded", "failed"},
         NEW isAborted, Acquire(r, isAborted)
  PROVE  Fair!Next \/ UNCHANGED <<holders, waiters>>
<1>1. r \notin holders /\ ~Fair!Waits(r)
  <2>1. r \notin Elements(waiters) /\ r \notin holders
    BY DEF SemaphoreState, SemaphoreSound, WaitersWait
  <2> QED
    BY <2>1 DEF Fair!Waits, Elements
<1>2. /\ active = Cardinality(holders) /\ active \in 0..Capacity /\ Capacity \in Nat
      /\ waiters # << >> => active = Capacity
  BY LimitsAssumption DEF SemaphoreState, SemaphoreSound
<1>3. CASE UNCHANGED semaphore
  BY <1>3 DEF semaphore
<1>4. CASE active < Capacity /\ waiters = << >> /\ holders' = holders \union {r} /\ UNCHANGED waiters
  <2>1. Fair!Enter(r)
    BY <1>1, <1>2, <1>4, SameCount DEF Fair!Enter
  <2> QED
    BY <2>1 DEF Fair!Next
<1>5. CASE /\ active >= Capacity \/ waiters # << >>
           /\ waiters' = Append(waiters, r) /\ UNCHANGED <<active, holders>>
  <2>1. Cardinality(holders) = Capacity
    BY <1>2, <1>5
  <2>2. Fair!Wait(r)
    BY <1>1, <1>5, <2>1, SameCount DEF Fair!Wait
  <2> QED
    BY <2>2 DEF Fair!Next
<1> QED
  BY <1>3, <1>4, <1>5 DEF Acquire

\* release() hands the permit to the first waiter or back.
LEMMA ReleaseImplements ==
  ASSUME SemaphoreState, NEW r \in Runs, phase[r] = "running", NEW outcome, Release(r, outcome)
  PROVE  Fair!Next
<1>1. r \in holders /\ waiters \in Seq(Runs)
  BY DEF SemaphoreState, SemaphoreSound
<1>2. waiters # << >> => Head(waiters) = waiters[1]
  BY <1>1
<1>3. \/ waiters = << >> /\ waiters' = << >> /\ holders' = holders \ {r}
      \/ /\ waiters # << >> /\ waiters' = Tail(waiters)
         /\ holders' = (holders \ {r}) \union {waiters[1]}
  BY ReleaseWakesFirst
<1>4. Fair!Leave(r) \/ Fair!HandOver(r)
  BY <1>1, <1>2, <1>3 DEF Fair!Leave, Fair!HandOver
<1> QED
  BY <1>4 DEF Fair!Next

\* cancelTree(): the waiters it reaches give up.
LEMMA CancelImplements ==
  ASSUME SemaphoreState, NEW n \in Ids, CancelTree(n)
  PROVE  Fair!Next
<1>1. waiters' = Without(Subtree(n)) /\ holders' = holders
  BY DEF CancelTree
<1>2. waiters' \in Seq(Runs) /\ Fair!Subsequence(waiters', waiters)
  BY <1>1, WithoutEffect DEF SemaphoreState, WaitersWait
<1> QED
  BY <1>1, <1>2 DEF Fair!Next, Fair!GiveUp

LEMMA StepImplements == IInv /\ [Next]_vars => [Fair!Next]_<<holders, waiters>>
<1> SUFFICES ASSUME IInv, [Next]_vars PROVE Fair!Next \/ UNCHANGED <<holders, waiters>>
  OBVIOUS
<1>0. SemaphoreState
  BY SemaphoreParts DEF IInv, SemaphoreInv
<1>1. ASSUME NEW r \in Runs, Begin(r) PROVE Fair!Next \/ UNCHANGED <<holders, waiters>>
  <2>1. phase[r] = "none" /\ (UNCHANGED semaphore \/ Acquire(r, Parent[r] \in aborted))
    BY <1>1 DEF Begin
  <2> QED
    BY <1>0, <2>1, AcquireImplements DEF semaphore
<1>2. ASSUME NEW r \in Runs, EndOperation(r) PROVE Fair!Next
  BY <1>0, <1>2, ReleaseImplements DEF EndOperation
<1>3. ASSUME NEW r \in Runs, Retry(r) PROVE Fair!Next \/ UNCHANGED <<holders, waiters>>
  BY <1>0, <1>3, AcquireImplements DEF Retry
<1>4. ASSUME NEW r \in Runs, Finish(r) PROVE UNCHANGED <<holders, waiters>>
  BY <1>4 DEF Finish, semaphore
<1>5. ASSUME NEW n \in Ids, CancelTree(n) PROVE Fair!Next
  BY <1>0, <1>5, CancelImplements
<1>6. CompleteRoot \/ UNCHANGED vars => UNCHANGED <<holders, waiters>>
  BY DEF CompleteRoot, vars, semaphore
<1> QED
  BY <1>1, <1>2, <1>3, <1>4, <1>5, <1>6 DEF Next

\* In a tree of any shape, with late children or without, the controller behaves as a fair
\* semaphore: a permit goes from the run that ends to the child that waited longest, a retry
\* goes to the end of the queue, and a cancelled subtree leaves the other waiters in order.
THEOREM SemaphoreIsFair == Spec => ImplementsSemaphore
<1>1. Init => Fair!Init
  BY DEF Init, Fair!Init
<1>2. IInv /\ [Next]_vars => [Fair!Next]_(Fair!vars)
  BY StepImplements DEF Fair!vars
<1> QED
  BY <1>1, <1>2, Invariance, PTL DEF Spec, ImplementsSemaphore, Fair!Spec
=============================================================================
