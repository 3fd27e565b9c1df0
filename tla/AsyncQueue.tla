----------------------------- MODULE AsyncQueue -----------------------------
(***************************************************************************)
(* AsyncQueue (src/src/runtime/asyncQueue.ts): the bounded queue between    *)
(* the producers of run events and their consumers. Producers push          *)
(* synchronously or wait in pushAsync(); consumers are iterators that wait  *)
(* in next(). Every method is one synchronous step.                         *)
(*                                                                          *)
(* A value is a record of who pushed it, its number among the pushes of     *)
(* that producer, and its kind: "delta" values coalesce with a delta at     *)
(* the tail, "event" values do not, "end" values are priority values. A     *)
(* buffered item is the sequence of values coalesced into it.               *)
(***************************************************************************)
EXTENDS Integers, Sequences, FiniteSets

CONSTANTS
    Producers, Iterators,
    Capacity,    \* options.capacity
    Reserve,     \* options.priorityReserve
    Overflows,   \* the options.overflowStrategy a queue may be built with
    MaxPushes,   \* bound: pushes of one producer
    MaxNext      \* bound: next() calls waiting at a time

ASSUME OptionsAssumption ==
    /\ Capacity \in Nat \ {0}
    /\ Reserve \in 0..Capacity
    /\ Overflows \subseteq {"throw", "drop-oldest", "drop-newest"}
    /\ MaxPushes \in Nat
    /\ MaxNext \in Nat

VARIABLES
    overflowStrategy, \* what push() does when there is no room; never changes
    state,      \* "open" | "closed" | "failed": closed, and hasFailure
    values,     \* the buffered items
    producers,  \* the values whose pushAsync() waits, in order
    consumers,  \* the iterators whose next() waits, in order
    finished,   \* iterators that returned or saw the end
    sent,       \* sent[p]: push() and pushAsync() calls p has made
    delivered,  \* the values consumers received, in order
    refused,    \* values whose push threw or whose pushAsync was rejected
    dropped     \* accepted values a drop policy or cancel() discarded

vars == <<overflowStrategy, state, values, producers, consumers, finished, sent, delivered, refused,
          dropped>>

-----------------------------------------------------------------------------
Kinds == {"delta", "event", "end"}
Values == [by : Producers, n : 1..MaxPushes, kind : Kinds]

IsPriority(item) == item[1].kind = "end"

Elements(s) == {s[i] : i \in DOMAIN s}

\* The values held in a sequence of items.
Within(items) == UNION {Elements(items[i]) : i \in DOMAIN items}

\* tryCoalesce() succeeds: the tail and the value are deltas.
Coalesces(items, v) ==
    /\ items # << >>
    /\ items[Len(items)][1].kind = "delta"
    /\ v.kind = "delta"

\* (Mutant: the reserve is ignored.)
CanBufferInReserve(items, v) == Len(items) < Capacity

CanBuffer(items, v) ==
    Len(items) < IF v.kind = "end" THEN Capacity ELSE Capacity - Reserve

Accepts(items, v) == Coalesces(items, v) \/ CanBuffer(items, v)

\* (Mutants: coalescing loses the tail; priority values overtake the others.)
AdmitOverTail(items, v) ==
    IF Coalesces(items, v) THEN [items EXCEPT ![Len(items)] = <<v>>]
    ELSE Append(items, <<v>>)

AdmitPriorityFirst(items, v) ==
    IF Coalesces(items, v) THEN [items EXCEPT ![Len(items)] = Append(@, v)]
    ELSE IF v.kind = "end" THEN <<<<v>>>> \o items
    ELSE Append(items, <<v>>)

Admit(items, v) ==
    IF Coalesces(items, v) THEN [items EXCEPT ![Len(items)] = Append(@, v)]
    ELSE Append(items, <<v>>)

\* (Mutant: a take does not wake the producers.)
FlushNothing(items) == values' = items /\ UNCHANGED producers

\* flushProducers(): the waiting values the buffer accepts, up to the first it
\* does not. filled[n] is the buffer after the first n.
Flush(items) ==
    LET filled[n \in 0..Len(producers)] ==
            IF n = 0 THEN items ELSE Admit(filled[n - 1], producers[n])
        fits(n) == \A i \in 1..n : Accepts(filled[i - 1], producers[i])
        count == CHOOSE n \in 0..Len(producers) :
                     fits(n) /\ (n < Len(producers) => ~fits(n + 1))
    IN  /\ values' = filled[count]
        /\ producers' = SubSeq(producers, count + 1, Len(producers))

\* The positions drop-oldest may discard.
Droppable(items) == {i \in DOMAIN items : ~IsPriority(items[i])}

\* Removal of the item at position i.
Without(items, i) == SubSeq(items, 1, i - 1) \o SubSeq(items, i + 1, Len(items))

\* The producer awaits its pushAsync() before it pushes again.
Waiting(p) == \E i \in DOMAIN producers : producers[i].by = p

\* A push of p's next value, of some kind.
Pushes(p, v) ==
    /\ ~Waiting(p)
    /\ sent[p] < MaxPushes
    /\ v \in [by : {p}, n : {sent[p] + 1}, kind : Kinds]
    /\ sent' = [sent EXCEPT ![p] = @ + 1]

Refuse(v) ==
    /\ refused' = refused \union {v}
    /\ UNCHANGED <<values, consumers, delivered>>

\* A waiting consumer takes the value past the buffer.
HandOver(v) ==
    /\ consumers # << >>
    /\ consumers' = Tail(consumers)
    /\ delivered' = Append(delivered, v)
    /\ UNCHANGED <<values, refused>>

Buffer(v) ==
    /\ consumers = << >>
    /\ Accepts(values, v)
    /\ values' = Admit(values, v)
    /\ UNCHANGED <<consumers, delivered, refused>>

Full(v) == consumers = << >> /\ ~Accepts(values, v)

-----------------------------------------------------------------------------
\* push()
Push(p) ==
    /\ \E v \in Values :
        /\ Pushes(p, v)
        /\ \/ state # "open" /\ Refuse(v) /\ UNCHANGED dropped
           \/ state = "open" /\ (HandOver(v) \/ Buffer(v)) /\ UNCHANGED dropped
           \/ /\ state = "open" /\ Full(v) /\ overflowStrategy = "drop-newest"
              /\ dropped' = dropped \union {v}
              /\ UNCHANGED <<values, consumers, delivered, refused>>
           \/ /\ state = "open" /\ Full(v) /\ overflowStrategy = "drop-oldest"
              /\ \E i \in Droppable(values) :
                   /\ \A j \in Droppable(values) : i <= j
                   /\ values' = Append(Without(values, i), <<v>>)
                   /\ dropped' = dropped \union Elements(values[i])
              /\ UNCHANGED <<consumers, delivered, refused>>
           \/ /\ state = "open" /\ Full(v)
              /\ \/ overflowStrategy = "throw"
                 \/ overflowStrategy = "drop-oldest" /\ Droppable(values) = {}
              /\ Refuse(v) /\ UNCHANGED dropped
    /\ UNCHANGED <<overflowStrategy, state, producers, finished>>

\* pushAsync()
PushAsync(p) ==
    /\ \E v \in Values :
        /\ Pushes(p, v)
        /\ \/ state # "open" /\ Refuse(v) /\ UNCHANGED producers
           \/ state = "open" /\ (HandOver(v) \/ Buffer(v)) /\ UNCHANGED producers
           \/ /\ state = "open" /\ Full(v)
              /\ producers' = Append(producers, v)
              /\ UNCHANGED <<values, consumers, delivered, refused>>
    /\ UNCHANGED <<overflowStrategy, state, finished, dropped>>

\* The signal of a waiting pushAsync() aborts.
AbortPush(p) ==
    /\ \E i \in DOMAIN producers :
        /\ producers[i].by = p
        /\ producers' = Without(producers, i)
        /\ refused' = refused \union {producers[i]}
    /\ UNCHANGED <<overflowStrategy, state, values, consumers, finished, sent, delivered, dropped>>

\* next() of an iterator: take(). On a failed queue it rejects and changes nothing.
TakeNext(c) ==
    /\ c \notin finished
    /\ \/ /\ values # << >>
          /\ delivered' = delivered \o Head(values)
          /\ IF state = "open" THEN Flush(Tail(values))
             ELSE values' = Tail(values) /\ UNCHANGED producers
          /\ UNCHANGED <<consumers, finished>>
       \/ /\ values = << >> /\ state = "open"
          /\ Len(consumers) < MaxNext
          /\ consumers' = Append(consumers, c)
          /\ UNCHANGED <<values, producers, finished, delivered>>
       \/ /\ values = << >> /\ state = "closed"
          /\ finished' = finished \union {c}
          /\ UNCHANGED <<values, producers, consumers, delivered>>
    /\ UNCHANGED <<overflowStrategy, state, sent, refused, dropped>>

\* (Mutant: a waiting next() is left behind.)
ReturnOnly(c) ==
    /\ c \notin finished
    /\ finished' = finished \union {c}
    /\ UNCHANGED <<overflowStrategy, state, values, producers, consumers, sent, delivered,
                   refused, dropped>>

\* detachConsumer(): the waiting next() calls but for c's; kept[n] is what is left of
\* the first n.
Detached(c) ==
    LET kept[n \in 0..Len(consumers)] ==
            IF n = 0 THEN << >>
            ELSE IF consumers[n] = c THEN kept[n - 1]
            ELSE Append(kept[n - 1], consumers[n])
    IN  kept[Len(consumers)]

\* return() or throw() of an iterator: its waiting next() calls are detached.
Return(c) ==
    /\ c \notin finished
    /\ finished' = finished \union {c}
    /\ consumers' = Detached(c)
    /\ UNCHANGED <<overflowStrategy, state, values, producers, sent, delivered, refused, dropped>>

\* (Mutant: waiting producers are forgotten.)
SettleConsumers(done) ==
    /\ consumers' = << >>
    /\ finished' = IF done THEN finished \union Elements(consumers) ELSE finished
    /\ UNCHANGED <<overflowStrategy, producers, refused, sent, delivered>>

\* The waiters when the queue ends: next() calls that resolve finish their
\* iterator, pushAsync() calls are rejected.
SettleWaiters(done) ==
    /\ producers' = << >>
    /\ refused' = refused \union Elements(producers)
    /\ consumers' = << >>
    /\ finished' = IF done THEN finished \union Elements(consumers) ELSE finished
    /\ UNCHANGED <<overflowStrategy, sent, delivered>>

\* close(): what is buffered can still be taken.
Close ==
    /\ state = "open"
    /\ state' = "closed"
    /\ SettleWaiters(TRUE)
    /\ UNCHANGED <<values, dropped>>

\* fail(): the same, and next() rejects once the buffer is empty.
Fail ==
    /\ state = "open"
    /\ state' = "failed"
    /\ SettleWaiters(FALSE)
    /\ UNCHANGED <<values, dropped>>

\* cancel(), also by the queue's signal: the buffer is discarded, even after close().
Cancel ==
    /\ state' = IF state = "open" THEN "failed" ELSE state
    /\ values' = << >>
    /\ dropped' = dropped \union Within(values)
    /\ SettleWaiters(FALSE)

-----------------------------------------------------------------------------
Init ==
    /\ overflowStrategy \in Overflows
    /\ state = "open"
    /\ values = << >>
    /\ producers = << >>
    /\ consumers = << >>
    /\ finished = {}
    /\ sent = [p \in Producers |-> 0]
    /\ delivered = << >>
    /\ refused = {}
    /\ dropped = {}

Next ==
    \/ \E p \in Producers : Push(p) \/ PushAsync(p) \/ AbortPush(p)
    \/ \E c \in Iterators : TakeNext(c) \/ Return(c)
    \/ Close \/ Fail \/ Cancel

Spec == Init /\ [][Next]_vars

\* A consumer that has not finished keeps calling next().
FairSpec == Spec /\ \A c \in Iterators : WF_vars(TakeNext(c))

-----------------------------------------------------------------------------
(* Properties *)

\* Every variable holds a value of its kind; only unfinished iterators wait.
TypeOK ==
    /\ overflowStrategy \in Overflows
    /\ state \in {"open", "closed", "failed"}
    /\ values \in Seq(Seq(Values) \ {<< >>})
    /\ producers \in Seq(Values)
    /\ consumers \in Seq(Iterators \ finished)
    /\ finished \subseteq Iterators
    /\ sent \in [Producers -> 0..MaxPushes]
    /\ delivered \in Seq(Values)
    /\ refused \subseteq Values
    /\ dropped \subseteq Values

\* The terminal event has room: the buffer never exceeds the capacity, ordinary
\* values never take the slots reserved for priority values, whatever was
\* coalesced, dropped or flushed in between, and drop-oldest discards none.
ReserveKept ==
    /\ Len(values) <= Capacity
    /\ Cardinality({i \in DOMAIN values : ~IsPriority(values[i])}) <= Capacity - Reserve
    /\ state = "open" /\ overflowStrategy = "drop-oldest" =>
          \A v \in dropped : ~IsPriority(<<v>>)

\* A producer and a consumer never wait for each other.
NobodyWaitsForEachOther == consumers # << >> => producers = << >> /\ values = << >>

\* Once the queue has ended nobody is left waiting.
EndReleasesWaiters == state # "open" => producers = << >> /\ consumers = << >>

\* No producer and no consumer waits for something that cannot come.
NobodyWaitsInVain == NobodyWaitsForEachOther /\ EndReleasesWaiters

\* A value is in exactly one place: delivered once, buffered, waiting, refused
\* to its producer, or discarded by a policy or by cancel().
NothingLostOrDuplicated ==
    LET places == <<Elements(delivered), Within(values), Elements(producers), refused, dropped>>
    IN  /\ \A i, j \in DOMAIN places : i # j => places[i] \cap places[j] = {}
        /\ \A p \in Producers, n \in 1..MaxPushes :
             n <= sent[p] <=> \E i \in DOMAIN places : \E v \in places[i] : v.by = p /\ v.n = n
        /\ \A i, j \in DOMAIN delivered : i # j => delivered[i] # delivered[j]

\* The values of one producer are delivered in the order it pushed them.
ProducerOrderKept ==
    \A i, j \in DOMAIN delivered :
        i < j /\ delivered[i].by = delivered[j].by => delivered[i].n < delivered[j].n

\* While a consumer goes on consuming, a waiting pushAsync() settles.
WaitingPushSettles ==
    \A p \in Producers : Waiting(p) ~> ~Waiting(p) \/ finished = Iterators
=============================================================================
