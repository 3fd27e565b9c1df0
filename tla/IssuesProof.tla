----------------------------- MODULE IssuesProof -----------------------------
(***************************************************************************)
(* Proofs about Issues for any number of dispatchers, users and edits.      *)
(*                                                                          *)
(* ContentInv says that the file, and every version of it that is about to  *)
(* be written, is well formed. CoverInv says, while no update is lost and   *)
(* nobody died, that an issue in progress is covered: by a dispatch that    *)
(* works on it, or by a write that takes it out of progress.                *)
(***************************************************************************)
EXTENDS Issues, TLAPS

\* An issue by itself: its id carries its number, and its timestamps fit its status.
IssueOK(i) ==
    /\ i.id[1] = i.number
    /\ i.status \in {"in_progress", "in_review", "blocked", "done"} => i.started
    /\ i.completed <=> i.status = "done"

Files == [next : 2..(2 + MaxEdits), issues : SUBSET Issue]

\* The contents of the file after at most e edits.
FileOK(f, e) ==
    /\ f \in Files /\ f.next <= 2 + e
    /\ \A i \in f.issues : IssueOK(i) /\ i.number < f.next
    /\ \A i, j \in f.issues : i.number = j.number => i = j

Writes == [new : Files, stale : BOOLEAN]

\* A dispatch that has reported is on its way to its end.
DispatchOK(q) ==
    /\ q \in Dispatch
    /\ q.reported => q.pc \in {"working", "reporting", "ended"}

ContentInv ==
    /\ FileOK(file, edits)
    /\ write \in [Actors -> Writes \union {None}]
    /\ \A p \in Actors : ~ Free(p) => FileOK(write[p].new, edits)
    /\ dispatch \in [Dispatchers -> Dispatch]
    /\ \A d \in Dispatchers : DispatchOK(dispatch[d])
    /\ lost \in BOOLEAN /\ edits \in 0..MaxEdits /\ crashes \in 0..MaxCrashes

LEMMA ContentTypes == ContentInv => TypeOK
<1> SUFFICES ASSUME ContentInv PROVE TypeOK
  OBVIOUS
<1>1. file.next \in 2..(2 + MaxEdits) /\ file.issues \subseteq Issue
  BY DEF ContentInv, FileOK, Files
<1> QED
  BY <1>1 DEF ContentInv, FileOK, IssueOK, TypeOK

\* A write under way is a record.
LEMMA NoneApart == \A w \in Writes : w # None
<1> SUFFICES ASSUME NEW w \in Writes PROVE w \in [new : [next : Nat, issues : SUBSET Issue], stale : BOOLEAN]
  BY NoneAssumption
<1>1. \A f \in Files : f \in [next : Nat, issues : SUBSET Issue]
  BY BoundsAssumption DEF Files
<1> QED
  BY <1>1 DEF Writes

LEMMA MoreEdits ==
  ASSUME NEW e \in Nat, NEW m \in Nat, e <= m, NEW f, FileOK(f, e)
  PROVE  FileOK(f, m)
<1>1. f.next \in Nat
  BY BoundsAssumption DEF FileOK, Files
<1>2. f.next <= 2 + m
  BY <1>1 DEF FileOK
<1> QED
  BY <1>2 DEF FileOK

\* TRANSITIONS, read backwards.
LEMMA FollowsFrom ==
  ASSUME NEW from \in Statuses
  PROVE  /\ Follows(from, "in_review") => from = "in_progress"
         /\ Follows(from, "blocked") => from = "in_progress"
         /\ Follows(from, "done") => from = "in_review"
         /\ Follows(from, "in_progress") <=> from = "todo"
         /\ Follows(from, "todo") <=> from \in {"backlog", "in_progress", "in_review", "blocked"}
         /\ \A to \in Statuses : Follows(from, to) => from # "done"
<1>1. CASE from = "backlog"
  BY <1>1 DEF Follows
<1>2. CASE from = "todo"
  BY <1>2 DEF Follows
<1>3. CASE from = "in_progress"
  BY <1>3 DEF Follows
<1>4. CASE from = "in_review"
  BY <1>4 DEF Follows
<1>5. CASE from = "blocked"
  BY <1>5 DEF Follows
<1>6. CASE from \in {"done", "cancelled"}
  <2>1. \A to \in Statuses : ~ Follows(from, to)
    BY <1>6 DEF Follows
  <2> QED
    BY <1>6, <2>1 DEF Statuses
<1> QED
  BY <1>1, <1>2, <1>3, <1>4, <1>5, <1>6 DEF Statuses

\* A transition keeps an issue well formed.
LEMMA MovedOK ==
  ASSUME NEW i \in Issue, IssueOK(i), NEW status \in Statuses, NEW actor, MayMove(i, status, actor)
  PROVE  LET n == Moved(i, status)
         IN  n \in Issue /\ IssueOK(n) /\ n.id = i.id /\ n.number = i.number /\ n.status = status
<1> DEFINE n == Moved(i, status)
<1>1. /\ n \in Issue /\ n.id = i.id /\ n.number = i.number /\ n.status = status
      /\ n.started <=> (i.started \/ status = "in_progress")
      /\ n.completed <=> (i.completed \/ status = "done")
  BY DEF Moved, Issue
<1>2. i.status \in Statuses
  BY DEF Issue
<1> HIDE DEF n
<1>3. i.status = status \/ Follows(i.status, status)
  BY DEF MayMove
<1>4. status \in {"in_progress", "in_review", "blocked", "done"} => n.started
  BY <1>1, <1>2, <1>3, FollowsFrom DEF IssueOK
<1>5. n.completed <=> n.status = "done"
  BY <1>1, <1>2, <1>3, FollowsFrom DEF IssueOK
<1> QED
  BY <1>1, <1>4, <1>5 DEF IssueOK, n

\* So does the file with the issue in its new version.
LEMMA WithOK ==
  ASSUME NEW e, FileOK(file, e), NEW i \in file.issues,
         NEW n \in Issue, IssueOK(n), n.number = i.number
  PROVE  /\ FileOK(With(i, n), e)
         /\ With(i, n).issues = (file.issues \ {i}) \union {n}
<1> DEFINE is == (file.issues \ {i}) \union {n}
           f == With(i, n)
<1>1. is \subseteq Issue
  BY DEF FileOK, Files
<1>2. f = [file EXCEPT !.issues = is]
  BY DEF With, FileOK, Files
<1> HIDE DEF is
<1>3. f \in Files /\ f.next = file.next /\ f.issues = is
  BY <1>1, <1>2 DEF FileOK, Files
<1> HIDE DEF f
<1>4. \A j \in is : IssueOK(j) /\ j.number < file.next
  BY DEF FileOK, is
<1>5. \A j, k \in is : j.number = k.number => j = k
  BY DEF FileOK, is
<1>6. FileOK(f, e)
  BY <1>3, <1>4, <1>5 DEF FileOK
<1> QED
  BY <1>3, <1>6 DEF f, is

\* What a reader is about to write is well formed.
LEMMA ReadKeeps ==
  ASSUME ContentInv, NEW p \in Actors, NEW new, ReadForWrite(p, new), FileOK(new, edits'),
         file' = file, lost' = lost, crashes' = crashes,
         edits' \in 0..MaxEdits, edits <= edits',
         dispatch' \in [Dispatchers -> Dispatch],
         \A d \in Dispatchers : DispatchOK(dispatch'[d])
  PROVE  ContentInv'
<1> DEFINE w == [new |-> new, stale |-> FALSE]
<1>1. w \in Writes /\ w.new = new
  BY DEF Writes, FileOK
<1>2. write' = [write EXCEPT ![p] = w]
  BY DEF ReadForWrite
<1> HIDE DEF w
<1>3. /\ write' \in [Actors -> Writes \union {None}]
      /\ \A q \in Actors : write'[q] = IF q = p THEN w ELSE write[q]
  BY <1>1, <1>2 DEF ContentInv
<1>4. edits \in Nat /\ edits' \in Nat
  BY BoundsAssumption DEF ContentInv
<1>5. FileOK(file, edits') /\ \A q \in Actors : ~ Free(q) => FileOK(write[q].new, edits')
  BY <1>4, MoreEdits DEF ContentInv
<1>6. \A q \in Actors : write'[q] # None => FileOK(write'[q].new, edits')
  BY <1>1, <1>3, <1>5 DEF Free
<1>7. FileOK(file', edits')
  BY <1>5
<1> QED
  BY <1>3, <1>6, <1>7 DEF ContentInv, FileOK, DispatchOK, Free

-----------------------------------------------------------------------------
\* The issue with an id is in progress.
Busy(f, x) == \E i \in f.issues : i.id = x /\ i.status = "in_progress"

\* Someone sees to an issue: a dispatch that has still to report or to settle it, or
\* one that is about to write a file in which it is not in progress.
Working(q) == q.pc \notin {"idle", "ended"} /\ ~ q.reported
Settling(d, x) == ~ Free(d) /\ ~ Busy(write[d].new, x)
Covered(x) ==
    \E d \in Dispatchers : dispatch[d].id = x /\ (Working(dispatch[d]) \/ Settling(d, x))

\* A write that is not stale puts an issue in progress only for its own dispatch.
StartsOwn(p) ==
    \A x : Busy(write[p].new, x) =>
        \/ Busy(file, x)
        \/ p \in Dispatchers /\ dispatch[p].id = x /\ Working(dispatch[p])

CoverInv ==
    (~ lost /\ crashes = 0) =>
        /\ \A x : Busy(file, x) => Covered(x)
        /\ \A p \in Actors : (~ Free(p) /\ ~ write[p].stale) => StartsOwn(p)

LEMMA CoverGivesWorkedOn == CoverInv => InProgressIsWorkedOn
<1> SUFFICES ASSUME CoverInv, ~ lost, crashes = 0, NEW i \in file.issues, i.status = "in_progress"
             PROVE  \E d \in Dispatchers : Responsible(d, i)
  BY DEF InProgressIsWorkedOn
<1>1. Covered(i.id)
  BY DEF CoverInv, Busy
<1> QED
  BY <1>1 DEF Covered, Working, Settling, Responsible

\* Two issues of a file have different ids.
LEMMA OneIssue ==
  ASSUME NEW f, NEW e, FileOK(f, e), NEW i \in f.issues, NEW j \in f.issues, i.id = j.id
  PROVE  i = j
BY DEF FileOK, IssueOK

-----------------------------------------------------------------------------
\* What a step of dispatcher d does: q is its record afterwards. It writes nothing, or
\* a file that puts no issue in progress but its own; and when its issue is in
\* progress it goes on with it, or takes it out of progress.
Effect(d, q) ==
    /\ DispatchOK(q)
    /\ dispatch' = [dispatch EXCEPT ![d] = q]
    /\ LET mine == Working(dispatch[d]) /\ Busy(file, dispatch[d].id)
       IN  \/ /\ write' = write
              /\ mine => q.id = dispatch[d].id /\ Working(q)
           \/ \E new :
                /\ ReadForWrite(d, new) /\ FileOK(new, edits)
                /\ \A x : Busy(new, x) => Busy(file, x) \/ (q.id = x /\ Working(q))
                /\ mine => q.id = dispatch[d].id /\ (Working(q) \/ ~ Busy(new, q.id))

DispatcherEffect(d) ==
    /\ Free(d) /\ UNCHANGED <<file, lost, edits, crashes>>
    /\ \E q : Effect(d, q)

\* Goto() changes nothing but the place.
LEMMA GotoIs ==
  ASSUME ContentInv, NEW d \in Dispatchers, NEW pc \in PCs, Goto(d, pc),
         dispatch[d].reported => pc \in {"working", "reporting", "ended"}
  PROVE  \E q : /\ DispatchOK(q) /\ dispatch' = [dispatch EXCEPT ![d] = q]
                /\ q.pc = pc /\ q.id = dispatch[d].id /\ q.reported = dispatch[d].reported
<1> DEFINE q == [dispatch[d] EXCEPT !.pc = pc]
<1>1. dispatch[d] \in Dispatch
  BY DEF ContentInv
<1>2. q \in Dispatch /\ q.pc = pc /\ q.id = dispatch[d].id /\ q.reported = dispatch[d].reported
  BY <1>1 DEF Dispatch
<1>3. dispatch' = [dispatch EXCEPT ![d] = q]
  BY DEF Goto, ContentInv
<1> HIDE DEF q
<1>4. DispatchOK(q)
  BY <1>2 DEF DispatchOK
<1> QED
  BY <1>2, <1>3, <1>4

\* A step that writes nothing.
LEMMA QuietEffect ==
  ASSUME NEW d, Free(d), NEW q, DispatchOK(q), dispatch' = [dispatch EXCEPT ![d] = q],
         write' = write, UNCHANGED <<file, lost, edits, crashes>>,
         (Working(dispatch[d]) /\ Busy(file, dispatch[d].id)) =>
             (q.id = dispatch[d].id /\ Working(q))
  PROVE  DispatcherEffect(d)
BY DEF DispatcherEffect, Effect

\* A comment leaves the dispatch at work.
LEMMA CommentEffect ==
  ASSUME ContentInv, NEW d \in Dispatchers, Free(d), Comment(d),
         UNCHANGED <<file, lost, edits, crashes>>,
         NEW q, DispatchOK(q), dispatch' = [dispatch EXCEPT ![d] = q],
         Working(dispatch[d]) => (q.id = dispatch[d].id /\ Working(q))
  PROVE  DispatcherEffect(d)
<1>1. FileOK(file, edits)
  BY DEF ContentInv
<1>2. write' = write \/ ReadForWrite(d, file)
  BY DEF Comment
<1>3. Effect(d, q)
  BY <1>1, <1>2 DEF Effect
<1> QED
  BY <1>3 DEF DispatcherEffect

\* A transition of d's issue, by d or by its worker.
LEMMA MoveEffect ==
  ASSUME ContentInv, NEW d \in Dispatchers, Free(d),
         NEW i \in Found(dispatch[d].id), NEW status \in Statuses, NEW actor,
         MayMove(i, status, actor), ReadForWrite(d, With(i, Moved(i, status))),
         UNCHANGED <<file, lost, edits, crashes>>,
         NEW q, DispatchOK(q), dispatch' = [dispatch EXCEPT ![d] = q], q.id = dispatch[d].id,
         Working(q) \/ status # "in_progress"
  PROVE  DispatcherEffect(d)
<1> DEFINE n == Moved(i, status)
           new == With(i, n)
<1>1. FileOK(file, edits) /\ i \in file.issues /\ i.id = q.id
  BY DEF ContentInv, Found
<1>2. i \in Issue /\ IssueOK(i)
  BY <1>1 DEF FileOK, Files
<1>3. n \in Issue /\ IssueOK(n) /\ n.id = i.id /\ n.number = i.number /\ n.status = status
  BY <1>2, MovedOK
<1> HIDE DEF n
<1>4. FileOK(new, edits) /\ new.issues = (file.issues \ {i}) \union {n}
  BY <1>1, <1>3, WithOK
<1>5. ReadForWrite(d, new)
  BY DEF n
<1> HIDE DEF new
<1>6. ASSUME NEW x, Busy(new, x) PROVE Busy(file, x) \/ (q.id = x /\ Working(q))
  <2>1. PICK j \in new.issues : j.id = x /\ j.status = "in_progress"
    BY <1>6 DEF Busy
  <2> QED
    BY <1>1, <1>3, <1>4, <2>1 DEF Busy
<1>7. Working(q) \/ ~ Busy(new, q.id)
  <2> SUFFICES ASSUME Busy(new, q.id), status # "in_progress" PROVE FALSE
    OBVIOUS
  <2>1. PICK j \in new.issues : j.id = q.id /\ j.status = "in_progress"
    BY DEF Busy
  <2>2. j \in file.issues /\ j # i
    BY <1>3, <1>4, <2>1
  <2> QED
    BY <1>1, <2>1, <2>2, OneIssue
<1>8. Effect(d, q)
  BY <1>4, <1>5, <1>6, <1>7 DEF Effect
<1> QED
  BY <1>8 DEF DispatcherEffect

\* Move(): pc when it is done, failpc when it throws.
LEMMA MoveGoesOn ==
  ASSUME ContentInv, NEW d \in Dispatchers, Free(d), ~ dispatch[d].reported,
         NEW status \in Statuses, NEW pc \in PCs, NEW failpc \in PCs,
         Move(d, status, pc, failpc), UNCHANGED <<file, lost, edits, crashes>>,
         status \in {"todo", "in_progress"}, pc \notin {"idle", "ended"} \/ status = "todo"
  PROVE  DispatcherEffect(d)
<1>1. ASSUME NEW i \in Found(dispatch[d].id), MayMove(i, status, "system"),
             ReadForWrite(d, With(i, Moved(i, status))), Goto(d, pc)
      PROVE  DispatcherEffect(d)
  <2>1. PICK q : /\ DispatchOK(q) /\ dispatch' = [dispatch EXCEPT ![d] = q]
                 /\ q.pc = pc /\ q.id = dispatch[d].id /\ q.reported = dispatch[d].reported
    BY <1>1, GotoIs
  <2>2. Working(q) \/ status # "in_progress"
    BY <2>1 DEF Working
  <2> QED
    BY <1>1, <2>1, <2>2, MoveEffect
<1>2. ASSUME NEW i \in Found(dispatch[d].id), ~ MayMove(i, status, "system"),
             Goto(d, failpc), UNCHANGED write
      PROVE  DispatcherEffect(d)
  <2>1. PICK q : /\ DispatchOK(q) /\ dispatch' = [dispatch EXCEPT ![d] = q]
                 /\ q.pc = failpc /\ q.id = dispatch[d].id /\ q.reported = dispatch[d].reported
    BY <1>2, GotoIs
  <2>2. ~ Busy(file, dispatch[d].id)
    <3> SUFFICES ASSUME NEW j \in file.issues, j.id = dispatch[d].id, j.status = "in_progress"
                 PROVE  FALSE
      BY DEF Busy
    <3>1. j = i
      BY OneIssue DEF Found, ContentInv
    <3>2. Follows("in_progress", "todo")
      BY FollowsFrom DEF Statuses
    <3> QED
      BY <1>2, <3>1, <3>2 DEF MayMove
  <2> QED
    BY <1>2, <2>1, <2>2, QuietEffect
<1>3. ASSUME Found(dispatch[d].id) = {}, Goto(d, pc), UNCHANGED write
      PROVE  DispatcherEffect(d)
  <2>1. PICK q : /\ DispatchOK(q) /\ dispatch' = [dispatch EXCEPT ![d] = q]
                 /\ q.pc = pc /\ q.id = dispatch[d].id /\ q.reported = dispatch[d].reported
    BY <1>3, GotoIs
  <2>2. ~ Busy(file, dispatch[d].id)
    BY <1>3 DEF Busy, Found
  <2> QED
    BY <1>3, <2>1, <2>2, QuietEffect
<1> QED
  BY <1>1, <1>2, <1>3 DEF Move

\* A step that only goes on, with a comment or without.
LEMMA GoesOn ==
  ASSUME ContentInv, NEW d \in Dispatchers, Free(d), ~ dispatch[d].reported,
         NEW pc \in PCs, pc \notin {"idle", "ended"}, Goto(d, pc), Comment(d) \/ UNCHANGED write,
         UNCHANGED <<file, lost, edits, crashes>>
  PROVE  DispatcherEffect(d)
<1>1. PICK q : /\ DispatchOK(q) /\ dispatch' = [dispatch EXCEPT ![d] = q]
               /\ q.pc = pc /\ q.id = dispatch[d].id /\ q.reported = dispatch[d].reported
  BY GotoIs
<1>2. Working(q)
  BY <1>1 DEF Working
<1> QED
  BY <1>1, <1>2, CommentEffect, QuietEffect

\* A step that ends a dispatch that has nothing left to settle.
LEMMA Ends ==
  ASSUME ContentInv, NEW d \in Dispatchers, Free(d), Goto(d, "ended"), UNCHANGED write,
         dispatch[d].reported \/ ~ StillInProgress(d), UNCHANGED <<file, lost, edits, crashes>>
  PROVE  DispatcherEffect(d)
<1>1. PICK q : /\ DispatchOK(q) /\ dispatch' = [dispatch EXCEPT ![d] = q]
               /\ q.pc = "ended" /\ q.id = dispatch[d].id /\ q.reported = dispatch[d].reported
  BY GotoIs DEF PCs
<1>2. ~ (Working(dispatch[d]) /\ Busy(file, dispatch[d].id))
  BY DEF Working, Busy, StillInProgress, Found
<1> QED
  BY <1>1, <1>2, QuietEffect

\* Every step of a dispatch is one of these.
LEMMA DispatchSteps ==
  ASSUME ContentInv, NEW d \in Dispatchers, StartDispatch(d) \/ Report(d) \/ Continue(d),
         UNCHANGED <<file, lost, edits, crashes>>
  PROVE  DispatcherEffect(d)
<1>1. DispatchOK(dispatch[d]) /\ dispatch[d] \in Dispatch
  BY DEF ContentInv
<1>2. dispatch[d].pc \notin {"working", "reporting", "ended"} => ~ dispatch[d].reported
  BY <1>1 DEF DispatchOK
<1> USE DEF At
<1>3. ASSUME StartDispatch(d) PROVE DispatcherEffect(d)
  <2>1. PICK i \in file.issues :
           dispatch' = [dispatch EXCEPT ![d] =
               [NoDispatch EXCEPT !.pc = "brief", !.id = i.id, !.backlog = (i.status = "backlog")]]
    BY <1>3 DEF StartDispatch
  <2> DEFINE backlog == i.status = "backlog"
             q == [NoDispatch EXCEPT !.pc = "brief", !.id = i.id, !.backlog = backlog]
  <2>2. i.id \in Ids /\ backlog \in BOOLEAN /\ 0 \in 0..MaxReports
    BY BoundsAssumption DEF ContentInv, FileOK, Files, Issue
  <2>3. dispatch' = [dispatch EXCEPT ![d] = q]
    BY <2>1
  <2> HIDE DEF backlog
  <2>4. q \in Dispatch /\ ~ q.reported
    BY <2>2 DEF NoDispatch, Dispatch, PCs
  <2> HIDE DEF q
  <2>5. DispatchOK(q)
    BY <2>4 DEF DispatchOK
  <2>6. ~ Working(dispatch[d]) /\ Free(d) /\ write' = write
    BY <1>3 DEF StartDispatch, Working
  <2> QED
    BY <2>3, <2>5, <2>6, QuietEffect
<1>4. ASSUME Link(d) PROVE DispatcherEffect(d)
  <2>1. PICK backlog \in BOOLEAN :
           dispatch' = [dispatch EXCEPT ![d].pc = IF backlog THEN "todo" ELSE "start",
                                        ![d].backlog = FALSE]
    <3> DEFINE b == IF Found(dispatch[d].id) = {} THEN dispatch[d].backlog
                    ELSE \E i \in Found(dispatch[d].id) : i.status = "backlog"
    <3>1. b \in BOOLEAN
      BY <1>1 DEF Dispatch
    <3>2. dispatch' = [dispatch EXCEPT ![d].pc = IF b THEN "todo" ELSE "start", ![d].backlog = FALSE]
      BY <1>4 DEF Link
    <3> QED
      BY <3>1, <3>2
  <2> DEFINE pc == IF backlog THEN "todo" ELSE "start"
             q == [dispatch[d] EXCEPT !.pc = pc, !.backlog = FALSE]
  <2>2. dispatch' = [dispatch EXCEPT ![d] = q]
    BY <2>1 DEF ContentInv
  <2>3. pc \in PCs /\ pc \notin {"idle", "ended"}
    BY DEF PCs
  <2> HIDE DEF pc
  <2>4. q \in Dispatch /\ q.pc = pc /\ q.id = dispatch[d].id /\ q.reported = dispatch[d].reported
    BY <1>1, <2>3 DEF Dispatch
  <2> HIDE DEF q
  <2>5. ~ dispatch[d].reported /\ Free(d) /\ Comment(d)
    BY <1>2, <1>4 DEF Link
  <2>6. DispatchOK(q) /\ Working(q)
    BY <2>3, <2>4, <2>5 DEF DispatchOK, Working
  <2> QED
    BY <2>2, <2>4, <2>5, <2>6, CommentEffect
<1>5. ASSUME ToTodo(d) PROVE DispatcherEffect(d)
  BY <1>2, <1>5, MoveGoesOn DEF ToTodo, PCs, Statuses
<1>6. ASSUME ToInProgress(d) PROVE DispatcherEffect(d)
  BY <1>2, <1>6, MoveGoesOn DEF ToInProgress, PCs, Statuses
<1>7. ASSUME Report(d) PROVE DispatcherEffect(d)
  <2> DEFINE r == dispatch[d].reports + 1
             q == [dispatch[d] EXCEPT !.pc = "reporting", !.reports = r]
  <2>1. r \in 0..MaxReports
    BY <1>1, <1>7, BoundsAssumption DEF Report, Dispatch
  <2>2. dispatch' = [dispatch EXCEPT ![d] = q]
    BY <1>7 DEF Report, ContentInv
  <2> HIDE DEF r
  <2>3. q \in Dispatch /\ q.pc = "reporting" /\ q.id = dispatch[d].id /\ q.reported = dispatch[d].reported
    BY <1>1, <2>1 DEF Dispatch, PCs
  <2> HIDE DEF q
  <2>4. DispatchOK(q) /\ (Working(dispatch[d]) => Working(q))
    BY <2>3 DEF DispatchOK, Working
  <2> QED
    BY <1>7, <2>2, <2>3, <2>4, CommentEffect DEF Report
<1>8. ASSUME ReportMove(d) PROVE DispatcherEffect(d)
  <2>1. PICK status \in {"in_review", "blocked"} :
          \/ \E i \in Found(dispatch[d].id) :
               /\ MayMove(i, status, "agent")
               /\ ReadForWrite(d, With(i, Moved(i, status)))
               /\ dispatch' = [dispatch EXCEPT ![d].pc = "working", ![d].reported = TRUE]
          \/ Goto(d, "working") /\ UNCHANGED write
    BY <1>8 DEF ReportMove
  <2>2. Free(d) /\ dispatch[d].pc = "reporting" /\ status \in Statuses
    BY <1>8 DEF ReportMove, Statuses
  <2>3. ASSUME Goto(d, "working"), UNCHANGED write PROVE DispatcherEffect(d)
    <3>1. PICK q : /\ DispatchOK(q) /\ dispatch' = [dispatch EXCEPT ![d] = q]
                   /\ q.pc = "working" /\ q.id = dispatch[d].id /\ q.reported = dispatch[d].reported
      BY <2>3, GotoIs DEF PCs
    <3>2. Working(dispatch[d]) => Working(q)
      BY <3>1 DEF Working
    <3> QED
      BY <2>2, <2>3, <3>1, <3>2, QuietEffect
  <2>4. ASSUME NEW i \in Found(dispatch[d].id), MayMove(i, status, "agent"),
               ReadForWrite(d, With(i, Moved(i, status))),
               dispatch' = [dispatch EXCEPT ![d].pc = "working", ![d].reported = TRUE]
        PROVE  DispatcherEffect(d)
    <3> DEFINE q == [dispatch[d] EXCEPT !.pc = "working", !.reported = TRUE]
    <3>1. dispatch' = [dispatch EXCEPT ![d] = q]
      BY <2>4 DEF ContentInv
    <3>2. q \in Dispatch /\ q.pc = "working" /\ q.id = dispatch[d].id
      BY <1>1 DEF Dispatch, PCs
    <3> HIDE DEF q
    <3>3. DispatchOK(q)
      BY <3>2 DEF DispatchOK
    <3> QED
      BY <2>2, <2>4, <3>1, <3>2, <3>3, MoveEffect
  <2> QED
    BY <2>1, <2>3, <2>4
<1>9. ASSUME WorkerEnds(d) PROVE DispatcherEffect(d)
  <2>1. CASE dispatch[d].reported
    BY <1>9, <2>1, Ends DEF WorkerEnds
  <2>2. CASE ~ dispatch[d].reported
    BY <1>9, <2>2, GoesOn DEF WorkerEnds, PCs
  <2> QED
    BY <2>1, <2>2
<1>10. ASSUME Note(d) \/ ResetNote(d) \/ FailedNote(d) PROVE DispatcherEffect(d)
  BY <1>2, <1>10, GoesOn DEF Note, ResetNote, FailedNote, PCs
<1>11. ASSUME Reconcile(d) PROVE DispatcherEffect(d)
  <2>1. Free(d) /\ ~ dispatch[d].reported
    BY <1>2, <1>11 DEF Reconcile
  <2>2. ASSUME NEW i \in Found(dispatch[d].id), NEW status \in Statuses \ {"in_progress"},
               MayMove(i, status, "manager"), ReadForWrite(d, With(i, Moved(i, status))),
               Goto(d, "look")
        PROVE  DispatcherEffect(d)
    <3>1. PICK q : DispatchOK(q) /\ dispatch' = [dispatch EXCEPT ![d] = q] /\ q.id = dispatch[d].id
      BY <2>1, <2>2, GotoIs DEF PCs
    <3> QED
      BY <2>1, <2>2, <3>1, MoveEffect
  <2>3. ASSUME Goto(d, "look") \/ Goto(d, "failed"), UNCHANGED write PROVE DispatcherEffect(d)
    BY <2>1, <2>3, GoesOn DEF PCs
  <2> QED
    BY <1>11, <2>2, <2>3 DEF Reconcile
<1>12. ASSUME Look(d) PROVE DispatcherEffect(d)
  BY <1>2, <1>12, GoesOn, Ends DEF Look, PCs
<1>13. ASSUME FailedLook(d) PROVE DispatcherEffect(d)
  BY <1>2, <1>13, GoesOn, Ends DEF FailedLook, PCs
<1>14. ASSUME Reset(d) PROVE DispatcherEffect(d)
  BY <1>2, <1>14, MoveGoesOn DEF Reset, PCs, Statuses
<1>15. ASSUME FailedReset(d) PROVE DispatcherEffect(d)
  BY <1>2, <1>15, MoveGoesOn DEF FailedReset, PCs, Statuses
<1> QED
  BY <1>3, <1>4, <1>5, <1>6, <1>7, <1>8, <1>9, <1>10, <1>11, <1>12, <1>13, <1>14, <1>15 DEF Continue

-----------------------------------------------------------------------------
LEMMA DispatcherContent ==
  ASSUME ContentInv, NEW d \in Dispatchers, DispatcherEffect(d)
  PROVE  ContentInv'
<1>1. PICK q : Effect(d, q)
  BY DEF DispatcherEffect
<1>2. DispatchOK(q) /\ dispatch' = [dispatch EXCEPT ![d] = q]
  BY <1>1 DEF Effect
<1>3. dispatch' \in [Dispatchers -> Dispatch] /\ \A c \in Dispatchers : DispatchOK(dispatch'[c])
  <2>1. q \in Dispatch
    BY <1>2 DEF DispatchOK
  <2>2. dispatch' \in [Dispatchers -> Dispatch]
    BY <1>2, <2>1 DEF ContentInv
  <2>3. \A c \in Dispatchers : dispatch'[c] = IF c = d THEN q ELSE dispatch[c]
    BY <1>2 DEF ContentInv
  <2> QED
    BY <1>2, <2>2, <2>3 DEF ContentInv
<1>4. UNCHANGED <<file, lost, edits, crashes>> /\ d \in Actors
  BY DEF DispatcherEffect, Actors
<1>5. CASE write' = write
  BY <1>3, <1>4, <1>5 DEF ContentInv, FileOK, DispatchOK, Free
<1>6. ASSUME NEW new, ReadForWrite(d, new), FileOK(new, edits) PROVE ContentInv'
  <2>1. FileOK(new, edits') /\ edits' \in 0..MaxEdits /\ edits <= edits'
    BY <1>4, <1>6, BoundsAssumption DEF ContentInv
  <2> QED
    BY <1>3, <1>4, <1>6, <2>1, ReadKeeps
<1> QED
  BY <1>1, <1>5, <1>6 DEF Effect

LEMMA DispatcherCover ==
  ASSUME ContentInv, CoverInv, NEW d \in Dispatchers, DispatcherEffect(d)
  PROVE  CoverInv'
<1> SUFFICES ASSUME ~ lost', crashes' = 0
             PROVE  /\ \A x : Busy(file, x)' => Covered(x)'
                    /\ \A p \in Actors : (~ Free(p)' /\ ~ write'[p].stale) => StartsOwn(p)'
  BY DEF CoverInv
<1>1. PICK q : Effect(d, q)
  BY DEF DispatcherEffect
<1>2. Free(d) /\ UNCHANGED <<file, lost, edits, crashes>> /\ d \in Actors
  BY DEF DispatcherEffect, Actors
<1>3. /\ \A x : Busy(file, x) => Covered(x)
      /\ \A p \in Actors : (~ Free(p) /\ ~ write[p].stale) => StartsOwn(p)
  BY <1>2 DEF CoverInv
<1>4. \A c \in Dispatchers : dispatch'[c] = IF c = d THEN q ELSE dispatch[c]
  BY <1>1 DEF Effect, ContentInv
<1>5. \A p \in Actors : p # d => write'[p] = write[p]
  BY <1>1 DEF Effect, ReadForWrite, ContentInv
<1>6. \/ write' = write
      \/ \E new : /\ write'[d] = [new |-> new, stale |-> FALSE] /\ FileOK(new, edits)
                  /\ \A x : Busy(new, x) => Busy(file, x) \/ (q.id = x /\ Working(q))
  BY <1>1, <1>2 DEF Effect, ReadForWrite, ContentInv
<1>7. \A x : Busy(file, x)' <=> Busy(file, x)
  BY <1>2 DEF Busy
<1>8. ASSUME NEW x, Busy(file, x) PROVE Covered(x)'
  <2>1. PICK c \in Dispatchers : dispatch[c].id = x /\ (Working(dispatch[c]) \/ Settling(c, x))
    BY <1>3, <1>8 DEF Covered
  <2>2. CASE c # d
    <3>1. write'[c] = write[c] /\ dispatch'[c] = dispatch[c]
      BY <1>4, <1>5, <2>2 DEF Actors
    <3> QED
      BY <2>1, <3>1 DEF Covered, Settling, Free
  <2>3. CASE c = d
    <3>1. Working(dispatch[d])
      BY <1>2, <2>1, <2>3 DEF Settling
    <3>2. Working(dispatch[d]) /\ Busy(file, dispatch[d].id)
      BY <1>8, <2>1, <2>3, <3>1
    <3>3. CASE q.id = x /\ Working(q)
      BY <1>4, <3>3 DEF Covered
    <3>4. ASSUME NEW new, ReadForWrite(d, new), FileOK(new, edits),
                 q.id = dispatch[d].id, ~ Busy(new, q.id)
          PROVE  Covered(x)'
      <4> DEFINE w == [new |-> new, stale |-> FALSE]
      <4>1. w \in Writes
        BY <3>4 DEF Writes, FileOK
      <4>2. write'[d] = w /\ w # None /\ w.new = new
        BY <1>2, <3>4, <4>1, NoneApart DEF ReadForWrite, ContentInv
      <4>3. Settling(d, x)'
        BY <2>1, <2>3, <3>4, <4>2 DEF Settling, Free
      <4> QED
        BY <1>4, <2>1, <2>3, <3>4, <4>3 DEF Covered
    <3> QED
      BY <1>1, <2>1, <2>3, <3>2, <3>3, <3>4 DEF Effect
  <2> QED
    BY <2>2, <2>3
<1>9. ASSUME NEW p \in Actors, write'[p] # None, ~ write'[p].stale, NEW x, Busy(write'[p].new, x)
      PROVE  Busy(file, x) \/ (p \in Dispatchers /\ dispatch'[p].id = x /\ Working(dispatch'[p]))
  <2>1. CASE p # d
    BY <1>3, <1>4, <1>5, <1>9, <2>1 DEF StartsOwn, Free
  <2>2. CASE p = d
    <3>1. write'[d] # write[d]
      BY <1>2, <1>9, <2>2 DEF Free
    <3>2. PICK new : /\ write'[d] = [new |-> new, stale |-> FALSE]
                     /\ Busy(new, x) => Busy(file, x) \/ (q.id = x /\ Working(q))
      BY <1>6, <3>1
    <3>3. write'[p].new = new
      BY <2>2, <3>2
    <3> QED
      BY <1>4, <1>9, <2>2, <3>2, <3>3
  <2> QED
    BY <2>1, <2>2
<1>10. ASSUME NEW p \in Actors, ~ Free(p)', ~ write'[p].stale PROVE StartsOwn(p)'
  <2> SUFFICES ASSUME NEW x, Busy(write'[p].new, x)
               PROVE  \/ Busy(file', x)
                      \/ p \in Dispatchers /\ dispatch'[p].id = x /\ Working(dispatch'[p])
    BY DEF StartsOwn, Busy, Working
  <2> QED
    BY <1>2, <1>9, <1>10 DEF Free
<1> QED
  BY <1>7, <1>8, <1>10

-----------------------------------------------------------------------------
\* What a user is about to write: a well-formed file that puts no issue in progress.
LEMMA EditEffect ==
  ASSUME ContentInv, NEW u \in Users, Edit(u)
  PROVE  /\ edits' \in 0..MaxEdits /\ edits <= edits'
         /\ \E new : /\ ReadForWrite(u, new) /\ FileOK(new, edits')
                     /\ \A x : Busy(new, x) => Busy(file, x)
<1>1. edits' \in 0..MaxEdits /\ edits' = edits + 1 /\ edits \in Nat /\ edits' \in 1..MaxEdits
  BY BoundsAssumption DEF Edit, ContentInv
<1>2. FileOK(file, edits) /\ FileOK(file, edits')
  BY <1>1, MoreEdits DEF ContentInv
<1>3. ASSUME NEW i \in file.issues, NEW status \in Statuses, Transition(u, i, status)
      PROVE  \E new : /\ ReadForWrite(u, new) /\ FileOK(new, edits')
                      /\ \A x : Busy(new, x) => Busy(file, x)
  <2> DEFINE n == Moved(i, status)
             new == With(i, n)
  <2>1. i \in Issue /\ IssueOK(i) /\ i.status \in Statuses /\ MayMove(i, status, "user")
    BY <1>2, <1>3 DEF Transition, FileOK, Files, Issue
  <2>2. n \in Issue /\ IssueOK(n) /\ n.id = i.id /\ n.number = i.number /\ n.status = status
    BY <2>1, MovedOK
  <2>3. ReadForWrite(u, new)
    BY <1>3 DEF Transition
  <2> HIDE DEF n
  <2>4. FileOK(new, edits') /\ new.issues = (file.issues \ {i}) \union {n}
    BY <1>2, <2>2, WithOK
  <2> HIDE DEF new
  <2>5. status = "in_progress" => i.status = "in_progress"
    BY <2>1 DEF MayMove
  <2>6. \A x : Busy(new, x) => Busy(file, x)
    BY <2>2, <2>4, <2>5 DEF Busy
  <2> QED
    BY <2>3, <2>4, <2>6
<1>4. ASSUME NEW i \in file.issues, Delete(u, i)
      PROVE  \E new : /\ ReadForWrite(u, new) /\ FileOK(new, edits')
                      /\ \A x : Busy(new, x) => Busy(file, x)
  <2> DEFINE new == [file EXCEPT !.issues = @ \ {i}]
  <2>1. ReadForWrite(u, new)
    BY <1>4 DEF Delete
  <2>2. new \in Files /\ new.next = file.next /\ new.issues = file.issues \ {i}
    BY <1>2 DEF FileOK, Files
  <2> HIDE DEF new
  <2>3. FileOK(new, edits') /\ \A x : Busy(new, x) => Busy(file, x)
    BY <1>2, <2>2 DEF FileOK, Busy
  <2> QED
    BY <2>1, <2>3
<1>5. ASSUME Annotate(u)
      PROVE  \E new : /\ ReadForWrite(u, new) /\ FileOK(new, edits')
                      /\ \A x : Busy(new, x) => Busy(file, x)
  BY <1>2, <1>5 DEF Annotate
<1>6. ASSUME Create(u)
      PROVE  \E new : /\ ReadForWrite(u, new) /\ FileOK(new, edits')
                      /\ \A x : Busy(new, x) => Busy(file, x)
  <2>1. PICK status \in {"backlog", "todo"} :
           ReadForWrite(u, [next |-> file.next + 1,
                            issues |-> file.issues \union {NewIssue(file.next, edits', status)}])
    BY <1>6 DEF Create
  <2> DEFINE n == NewIssue(file.next, edits', status)
             new == [next |-> file.next + 1, issues |-> file.issues \union {n}]
  <2>2. /\ file.next \in 2..(1 + MaxEdits) /\ file.next \in Nat /\ file.next + 1 <= 2 + edits'
        /\ file.next + 1 \in 2..(2 + MaxEdits)
    BY <1>1, <1>2, BoundsAssumption DEF FileOK, Files
  <2>3. <<file.next, edits'>> \in Ids /\ file.next \in 1..(1 + MaxEdits)
    BY <1>1, <2>2 DEF Ids
  <2>4. /\ n \in Issue /\ IssueOK(n) /\ n.number = file.next /\ n.status # "in_progress"
    BY <2>3 DEF NewIssue, Issue, IssueOK, Statuses
  <2>5. ReadForWrite(u, new)
    BY <2>1
  <2> HIDE DEF n
  <2>6. new \in Files /\ new.next = file.next + 1 /\ new.issues = file.issues \union {n}
    BY <1>2, <2>2, <2>4 DEF FileOK, Files
  <2> HIDE DEF new
  <2>7. \A i \in file.issues : i.number \in Nat /\ i.number < file.next
    BY <1>2, BoundsAssumption DEF FileOK, Files, Issue
  <2>8. \A i \in new.issues : IssueOK(i) /\ i.number < new.next
    BY <1>2, <2>2, <2>4, <2>6, <2>7 DEF FileOK
  <2>9. \A i, j \in new.issues : i.number = j.number => i = j
    BY <1>2, <2>2, <2>4, <2>6, <2>7 DEF FileOK
  <2>10. FileOK(new, edits') /\ \A x : Busy(new, x) => Busy(file, x)
    BY <2>2, <2>4, <2>6, <2>8, <2>9 DEF FileOK, Busy
  <2> QED
    BY <2>5, <2>10
<1> QED
  BY <1>1, <1>3, <1>4, <1>5, <1>6 DEF Edit

LEMMA EditContent ==
  ASSUME ContentInv, NEW u \in Users, Edit(u)
  PROVE  ContentInv'
<1>1. UNCHANGED <<file, dispatch, lost, crashes>> /\ u \in Actors
  BY DEF Edit, Actors
<1>2. PICK new : ReadForWrite(u, new) /\ FileOK(new, edits')
  BY EditEffect
<1>3. edits' \in 0..MaxEdits /\ edits <= edits'
  BY EditEffect
<1>4. dispatch' \in [Dispatchers -> Dispatch] /\ \A d \in Dispatchers : DispatchOK(dispatch'[d])
  BY <1>1 DEF ContentInv
<1> QED
  BY <1>1, <1>2, <1>3, <1>4, ReadKeeps

LEMMA EditCover ==
  ASSUME ContentInv, CoverInv, NEW u \in Users, Edit(u)
  PROVE  CoverInv'
<1> SUFFICES ASSUME ~ lost', crashes' = 0
             PROVE  /\ \A x : Busy(file, x)' => Covered(x)'
                    /\ \A p \in Actors : (~ Free(p)' /\ ~ write'[p].stale) => StartsOwn(p)'
  BY DEF CoverInv
<1>1. UNCHANGED <<file, dispatch, lost, crashes>> /\ u \in Actors /\ u \notin Dispatchers
  BY IssueActorsAssumption DEF Edit, Actors
<1>2. PICK new : ReadForWrite(u, new) /\ \A x : Busy(new, x) => Busy(file, x)
  BY EditEffect
<1>3. /\ \A p \in Actors : p # u => write'[p] = write[p]
      /\ write'[u] = [new |-> new, stale |-> FALSE]
  BY <1>1, <1>2 DEF ReadForWrite, ContentInv
<1>4. /\ \A x : Busy(file, x) => Covered(x)
      /\ \A p \in Actors : (~ Free(p) /\ ~ write[p].stale) => StartsOwn(p)
  BY <1>1 DEF CoverInv
<1>5. \A d \in Dispatchers : write'[d] = write[d] /\ dispatch'[d] = dispatch[d]
  BY <1>1, <1>3 DEF Actors
<1>6. ASSUME NEW x, Busy(file, x)' PROVE Covered(x)'
  <2>1. PICK c \in Dispatchers : dispatch[c].id = x /\ (Working(dispatch[c]) \/ Settling(c, x))
    BY <1>1, <1>4, <1>6 DEF Covered, Busy
  <2>2. Settling(c, x) => Settling(c, x)'
    BY <1>5 DEF Settling, Free
  <2> QED
    BY <1>5, <2>1, <2>2 DEF Covered
<1>7. ASSUME NEW p \in Actors, ~ Free(p)', ~ write'[p].stale PROVE StartsOwn(p)'
  <2> SUFFICES ASSUME NEW x, Busy(write'[p].new, x)
               PROVE  Busy(file, x) \/ (p \in Dispatchers /\ dispatch[p].id = x /\ Working(dispatch[p]))
    BY <1>1 DEF StartsOwn, Busy, Working
  <2>1. CASE p # u
    BY <1>3, <1>4, <1>7, <2>1 DEF StartsOwn, Free
  <2>2. CASE p = u
    <3>1. write'[p].new = new
      BY <1>3, <2>2
    <3> QED
      BY <1>2, <3>1
  <2> QED
    BY <2>1, <2>2
<1> QED
  BY <1>6, <1>7

-----------------------------------------------------------------------------
LEMMA RenameContent ==
  ASSUME ContentInv, NEW p \in Actors, Rename(p)
  PROVE  ContentInv'
<1>1. FileOK(write[p].new, edits) /\ write[p] \in Writes
  BY DEF Rename, ContentInv, Free
<1>2. FileOK(file', edits') /\ lost' \in BOOLEAN /\ UNCHANGED <<dispatch, edits, crashes>>
  BY <1>1 DEF Rename, Writes, ContentInv
<1>3. ASSUME NEW q \in Actors
      PROVE  \/ write'[q] = None
             \/ write'[q] \in Writes /\ FileOK(write'[q].new, edits)
  <2>1. CASE q = p \/ write[q] = None
    BY <2>1 DEF Rename
  <2>2. CASE q # p /\ write[q] # None
    <3> DEFINE stale == write[q].stale \/ file' # file
    <3>1. write[q] \in Writes /\ FileOK(write[q].new, edits) /\ stale \in BOOLEAN
      BY <2>2 DEF ContentInv, Free, Writes
    <3>2. write'[q] = [write[q] EXCEPT !.stale = stale]
      BY <2>2 DEF Rename
    <3> HIDE DEF stale
    <3>3. write'[q] \in Writes /\ write'[q].new = write[q].new
      BY <3>1, <3>2 DEF Writes
    <3> QED
      BY <3>1, <3>3
  <2> QED
    BY <2>1, <2>2
<1>4. \E f : write' = [q \in Actors |-> f[q]]
  <2> DEFINE f == [q \in Actors |-> IF q = p \/ write[q] = None THEN None
                                    ELSE [write[q] EXCEPT !.stale = @ \/ file' # file]]
  <2>1. write' = f
    BY DEF Rename
  <2>2. f = [q \in Actors |-> f[q]]
    OBVIOUS
  <2> HIDE DEF f
  <2> QED
    BY <2>1, <2>2
<1>5. write' \in [Actors -> Writes \union {None}]
  BY <1>3, <1>4
<1>6. \A q \in Actors : ~ Free(q)' => FileOK(write'[q].new, edits')
  BY <1>2, <1>3 DEF Free
<1> QED
  BY <1>2, <1>5, <1>6 DEF ContentInv, FileOK, DispatchOK, Free

\* The file that p leaves behind, when p had read the file it replaces.
LEMMA RenameCover ==
  ASSUME ContentInv, CoverInv, NEW p \in Actors, Rename(p)
  PROVE  CoverInv'
<1> SUFFICES ASSUME ~ lost', crashes' = 0
             PROVE  /\ \A x : Busy(file, x)' => Covered(x)'
                    /\ \A q \in Actors : (~ Free(q)' /\ ~ write'[q].stale) => StartsOwn(q)'
  BY DEF CoverInv
<1>1. ~ Free(p) /\ file' = write[p].new /\ ~ write[p].stale /\ ~ lost /\ crashes = 0 /\ dispatch' = dispatch
  BY DEF Rename
<1>2. /\ \A x : Busy(file, x) => Covered(x)
      /\ StartsOwn(p)
      /\ \A q \in Actors : (~ Free(q) /\ ~ write[q].stale) => StartsOwn(q)
  BY <1>1 DEF CoverInv
<1>3. ASSUME NEW q \in Actors, q # p, write[q] # None
      PROVE  /\ write'[q] # None /\ write'[q].new = write[q].new
             /\ write'[q].stale <=> (write[q].stale \/ file' # file)
  <2> DEFINE stale == write[q].stale \/ file' # file
  <2>1. write[q] \in Writes /\ stale \in BOOLEAN
    BY <1>3 DEF ContentInv, Writes
  <2>2. write'[q] = [write[q] EXCEPT !.stale = stale]
    BY <1>3 DEF Rename
  <2> HIDE DEF stale
  <2>3. write'[q] \in Writes /\ write'[q].new = write[q].new /\ write'[q].stale = stale
    BY <2>1, <2>2 DEF Writes
  <2> QED
    BY <2>3, NoneApart DEF stale
<1>4. ASSUME NEW q \in Actors, write'[q] # None PROVE q # p /\ write[q] # None
  BY <1>4 DEF Rename
<1>5. ASSUME NEW x, Busy(file, x)' PROVE Covered(x)'
  <2>1. Busy(write[p].new, x)
    BY <1>1, <1>5 DEF Busy
  <2>2. Busy(file, x) \/ (p \in Dispatchers /\ dispatch[p].id = x /\ Working(dispatch[p]))
    BY <1>2, <2>1 DEF StartsOwn
  <2>3. CASE p \in Dispatchers /\ dispatch[p].id = x /\ Working(dispatch[p])
    BY <1>1, <2>3 DEF Covered
  <2>4. CASE Busy(file, x)
    <3>1. PICK c \in Dispatchers : dispatch[c].id = x /\ (Working(dispatch[c]) \/ Settling(c, x))
      BY <1>2, <2>4 DEF Covered
    <3>2. CASE Working(dispatch[c])
      BY <1>1, <3>1, <3>2 DEF Covered
    <3>3. CASE Settling(c, x)
      <4>1. c # p /\ c \in Actors /\ write[c] # None
        BY <2>1, <3>3 DEF Settling, Actors, Free
      <4>2. Settling(c, x)'
        BY <1>3, <3>3, <4>1 DEF Settling, Free, Busy
      <4> QED
        BY <1>1, <3>1, <4>2 DEF Covered
    <3> QED
      BY <3>1, <3>2, <3>3
  <2> QED
    BY <2>2, <2>3, <2>4
<1>6. ASSUME NEW q \in Actors, ~ Free(q)', ~ write'[q].stale PROVE StartsOwn(q)'
  <2>1. q # p /\ write[q] # None
    BY <1>4, <1>6 DEF Free
  <2>2. file' = file /\ ~ write[q].stale /\ write'[q].new = write[q].new
    BY <1>3, <1>6, <2>1
  <2>3. StartsOwn(q)
    BY <1>2, <2>1, <2>2 DEF Free
  <2> QED
    BY <1>1, <2>2, <2>3 DEF StartsOwn, Busy, Working
<1> QED
  BY <1>5, <1>6

LEMMA CrashContent ==
  ASSUME ContentInv, NEW d \in Dispatchers, Crash(d)
  PROVE  ContentInv' /\ crashes' # 0
<1>1. PICK q : DispatchOK(q) /\ dispatch' = [dispatch EXCEPT ![d] = q]
  BY GotoIs DEF Crash, PCs
<1>2. dispatch' \in [Dispatchers -> Dispatch] /\ \A c \in Dispatchers : DispatchOK(dispatch'[c])
  <2>1. q \in Dispatch
    BY <1>1 DEF DispatchOK
  <2>2. dispatch' \in [Dispatchers -> Dispatch]
    BY <1>1, <2>1 DEF ContentInv
  <2>3. \A c \in Dispatchers : dispatch'[c] = IF c = d THEN q ELSE dispatch[c]
    BY <1>1 DEF ContentInv
  <2> QED
    BY <1>1, <2>2, <2>3 DEF ContentInv
<1>3. UNCHANGED <<file, lost, edits>> /\ write' = [write EXCEPT ![d] = None] /\ d \in Actors
  BY DEF Crash, Actors
<1>4. /\ write' \in [Actors -> Writes \union {None}]
      /\ \A p \in Actors : write'[p] = IF p = d THEN None ELSE write[p]
  BY <1>3 DEF ContentInv
<1>5. crashes' \in 0..MaxCrashes /\ crashes' # 0
  BY BoundsAssumption DEF Crash, ContentInv
<1>6. \A p \in Actors : ~ Free(p)' => FileOK(write'[p].new, edits')
  BY <1>3, <1>4 DEF ContentInv, Free
<1>7. FileOK(file', edits')
  BY <1>3 DEF ContentInv
<1> QED
  BY <1>2, <1>3, <1>4, <1>5, <1>6, <1>7 DEF ContentInv, FileOK, DispatchOK, Free

-----------------------------------------------------------------------------
LEMMA InitContent == Init => ContentInv /\ CoverInv
<1> SUFFICES ASSUME Init PROVE ContentInv /\ CoverInv
  OBVIOUS
<1>1. PICK status \in {"backlog", "todo"} : file = [next |-> 2, issues |-> {NewIssue(1, 0, status)}]
  BY DEF Init
<1> DEFINE n == NewIssue(1, 0, status)
<1>2. n \in Issue /\ IssueOK(n) /\ n.number = 1 /\ n.status # "in_progress"
  BY BoundsAssumption DEF NewIssue, Issue, Ids, IssueOK, Statuses
<1>3. file = [next |-> 2, issues |-> {n}]
  BY <1>1
<1> HIDE DEF n
<1>4. file \in Files /\ file.next = 2 /\ file.issues = {n}
  BY <1>2, <1>3, BoundsAssumption DEF Files
<1>5. FileOK(file, edits)
  BY <1>2, <1>4 DEF Init, FileOK
<1>6. write \in [Actors -> Writes \union {None}] /\ \A p \in Actors : Free(p)
  BY DEF Init, Free
<1>7. NoDispatch \in Dispatch /\ DispatchOK(NoDispatch)
  BY BoundsAssumption DEF NoDispatch, Dispatch, DispatchOK, PCs, Ids
<1>8. dispatch \in [Dispatchers -> Dispatch] /\ \A d \in Dispatchers : DispatchOK(dispatch[d])
  BY <1>7 DEF Init
<1>9. lost \in BOOLEAN /\ edits \in 0..MaxEdits /\ crashes \in 0..MaxCrashes
  <2>1. 0 \in 0..MaxEdits /\ 0 \in 0..MaxCrashes
    BY BoundsAssumption
  <2>2. lost = FALSE /\ edits = 0 /\ crashes = 0
    BY DEF Init
  <2> QED
    BY <2>1, <2>2
<1>10. \A x : ~ Busy(file, x)
  BY <1>2, <1>4 DEF Busy
<1> QED
  BY <1>5, <1>6, <1>8, <1>9, <1>10 DEF ContentInv, CoverInv

LEMMA StepKeeps == ContentInv /\ CoverInv /\ [Next]_vars => ContentInv' /\ CoverInv'
<1> SUFFICES ASSUME ContentInv, CoverInv, [Next]_vars PROVE ContentInv' /\ CoverInv'
  OBVIOUS
<1>1. ASSUME NEW p \in Actors, Rename(p) PROVE ContentInv' /\ CoverInv'
  BY <1>1, RenameContent, RenameCover
<1>2. ASSUME NEW u \in Users, Edit(u) PROVE ContentInv' /\ CoverInv'
  BY <1>2, EditContent, EditCover
<1>3. ASSUME NEW d \in Dispatchers, StartDispatch(d) \/ Report(d) \/ Continue(d),
             UNCHANGED <<file, lost, edits, crashes>>
      PROVE  ContentInv' /\ CoverInv'
  BY <1>3, DispatchSteps, DispatcherContent, DispatcherCover
<1>4. ASSUME NEW d \in Dispatchers, Crash(d) PROVE ContentInv' /\ CoverInv'
  BY <1>4, CrashContent DEF CoverInv
<1>5. ASSUME UNCHANGED vars PROVE ContentInv' /\ CoverInv'
  <2>1. ContentInv'
    BY <1>5 DEF vars, ContentInv, FileOK, DispatchOK, Free
  <2>2. CoverInv'
    BY <1>5 DEF vars, CoverInv, Covered, Settling, StartsOwn, Busy, Working, Free
  <2> QED
    BY <2>1, <2>2
<1> QED
  BY <1>1, <1>2, <1>3, <1>4, <1>5 DEF Next, DispatchStep

LEMMA Invariance == Spec => [](ContentInv /\ CoverInv)
BY InitContent, StepKeeps, PTL DEF Spec

\* The file keeps its form whatever updates are lost and whoever dies: numbers are
\* used once, and the timestamps of an issue fit its status (issueStore.ts,
\* normalizeIssueStore() and applyIssueTransition()).
THEOREM TypeCorrect == Spec => []TypeOK
<1>1. ContentInv => TypeOK
  BY ContentTypes
<1> QED
  BY <1>1, Invariance, PTL

\* While no update is lost and no process dies, an issue in progress has a dispatch
\* that works on it or is taking it out of progress (issueExecution.ts).
THEOREM InProgressIsCovered == Spec => []InProgressIsWorkedOn
<1>1. CoverInv => InProgressIsWorkedOn
  BY CoverGivesWorkedOn
<1> QED
  BY <1>1, Invariance, PTL
=============================================================================
