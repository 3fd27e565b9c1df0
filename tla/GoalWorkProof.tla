---------------------------- MODULE GoalWorkProof ----------------------------
(***************************************************************************)
(* Proofs about GoalWork for any number of workers, sessions and items.     *)
(*                                                                          *)
(* The invariant is LeaseInv: an agent that has taken an item up, and whose *)
(* claim was not lost since, holds a claim that is valid.                   *)
(***************************************************************************)
EXTENDS GoalWork, TLAPS

Engaged == {"mark", "markUpdate", "begin", "working"}

LeaseInv ==
    /\ TypeOK
    /\ \A a \in Agents : work[a].pc \in Engaged => work[a].lapsed \/ HoldsLease(a)

\* Who holds the row of item i by w and c, the agents' work and the claims.
RowOf(w, c, a) == w[a].on \in Items /\ c[w[a].on].agent = a /\ c[w[a].on].known /\ c[w[a].on].valid
Engagement(w, c) == \A a \in Agents : w[a].pc \in Engaged => w[a].lapsed \/ RowOf(w, c, a)

\* The types of everything, by parts.
Typed(w, c) ==
    /\ c \in [Items -> Claims]
    /\ w \in [Agents -> Works]
    /\ \A a \in Agents : w[a].pc = "idle" <=> w[a].on = None

WorldOK ==
    /\ goal \in GoalStatuses
    /\ item \in [Items -> ItemStatuses]
    /\ request \in [Items -> Requests \union {"none"}]
    /\ crashes \in 0..MaxCrashes /\ control \in 0..MaxControl

NoClaims(g, c) == g \in Terminal => \A i \in Items : c[i] = NoClaim

LEMMA Parts ==
  /\ LeaseInv <=> /\ WorldOK /\ Typed(work, claim)
                  /\ NoClaims(goal, claim) /\ Engagement(work, claim)
  /\ LeaseInv' <=> /\ WorldOK' /\ Typed(work', claim')
                   /\ NoClaims(goal', claim') /\ Engagement(work', claim')
<1>1. LeaseInv <=> /\ WorldOK /\ Typed(work, claim)
                   /\ NoClaims(goal, claim) /\ Engagement(work, claim)
  BY DEF LeaseInv, TypeOK, WorldOK, Typed, NoClaims, Engagement, RowOf, At, HoldsLease, Holds
<1>2. LeaseInv' <=> /\ WorldOK' /\ Typed(work', claim')
                    /\ NoClaims(goal', claim') /\ Engagement(work', claim')
  BY DEF LeaseInv, TypeOK, WorldOK, Typed, NoClaims, Engagement, RowOf, At, HoldsLease, Holds
<1> QED
  BY <1>1, <1>2

LEMMA Resting == NoClaim \in Claims /\ NoWork \in Works /\ NoWork.pc = "idle" /\ NoWork.on = None
                 /\ ~ NoClaim.known /\ ~ NoClaim.valid /\ NoClaim.agent = None
BY DEF NoClaim, Claims, NoWork, Works, PCs

\* An agent goes on with its item, and no claim changes.
LEMMA GotoKeeps ==
  ASSUME LeaseInv, NEW a \in Agents, NEW pc \in PCs \ {"idle"}, Goto(a, pc), claim' = claim,
         work[a].pc # "idle",
         pc \in Engaged => work[a].pc \in Engaged
  PROVE  Typed(work', claim') /\ Engagement(work', claim')
<1>1. Typed(work, claim) /\ Engagement(work, claim)
  BY Parts
<1>2. \A b \in Agents : /\ work'[b].pc = IF b = a THEN pc ELSE work[b].pc
                        /\ work'[b].on = work[b].on /\ work'[b].lapsed = work[b].lapsed
                        /\ work'[b] \in Works
  BY <1>1 DEF Goto, Typed, Works
<1>3. work' \in [Agents -> Works]
  BY <1>1, <1>2 DEF Goto, Typed
<1> QED
  BY <1>1, <1>2, <1>3 DEF Typed, Engagement, RowOf

\* An agent gives up what it has: nobody else's claim changes.
LEMMA RestKeeps ==
  ASSUME LeaseInv, NEW a \in Agents, work' = [work EXCEPT ![a] = NoWork],
         claim' \in [Items -> Claims],
         \A i \in Items : claim[i].agent # a => claim'[i] = claim[i]
  PROVE  Typed(work', claim') /\ Engagement(work', claim')
<1>1. Typed(work, claim) /\ Engagement(work, claim)
  BY Parts
<1>2. \A b \in Agents : work'[b] = IF b = a THEN NoWork ELSE work[b]
  BY <1>1 DEF Typed
<1>3. work' \in [Agents -> Works]
  BY <1>1, Resting DEF Typed
<1>4. NoWork.pc \notin Engaged
  BY Resting DEF Engaged
<1> QED
  BY <1>1, <1>2, <1>3, <1>4, Resting DEF Typed, Engagement, RowOf

LEMMA LeaveKeeps ==
  ASSUME LeaseInv, NEW a \in Agents, Leave(a)
  PROVE  /\ Typed(work', claim') /\ Engagement(work', claim')
         /\ NoClaims(goal, claim')
<1>1. Typed(work, claim) /\ NoClaims(goal, claim)
  BY Parts
<1>2. \A i \in Items : claim'[i] = IF claim[i].agent # a THEN claim[i]
                                   ELSE IF claim[i].valid THEN [claim[i] EXCEPT !.known = FALSE]
                                   ELSE NoClaim
  BY DEF Leave, Forgotten
<1>3. ASSUME NEW i \in Items PROVE claim'[i] \in Claims
  <2>1. claim[i] \in Claims
    BY <1>1 DEF Typed
  <2>2. [claim[i] EXCEPT !.known = FALSE] \in Claims
    BY <2>1 DEF Claims
  <2>3. claim'[i] \in {claim[i], [claim[i] EXCEPT !.known = FALSE], NoClaim}
    BY <1>2
  <2> QED
    BY <2>1, <2>2, <2>3, Resting
<1>4. claim' \in [Items -> Claims]
  BY <1>3 DEF Leave, Forgotten
<1>5. None \notin Agents
  BY AgentsAssumption
<1>6. NoClaims(goal, claim')
  BY <1>1, <1>2, <1>5, Resting DEF NoClaims
<1> QED
  BY <1>2, <1>4, <1>6, RestKeeps DEF Leave

\* An agent takes a free item up, or one it has claimed itself.
LEMMA TakeUpKeeps ==
  ASSUME LeaseInv, NEW a \in Agents, NEW i \in Items, TakeUp(a, i),
         ~ claim[i].valid \/ claim[i].agent = a
  PROVE  Typed(work', claim') /\ Engagement(work', claim')
<1>1. Typed(work, claim) /\ Engagement(work, claim)
  BY Parts
<1> DEFINE new == [pc |-> "mark", on |-> i, lapsed |-> FALSE]
<1>2. NewClaim(a) \in Claims /\ NewClaim(a).agent = a /\ NewClaim(a).known /\ NewClaim(a).valid
  BY DEF NewClaim, Claims
<1>3. new \in Works /\ new.pc = "mark" /\ new.on = i
  BY DEF Works, PCs
<1>4. work' = [work EXCEPT ![a] = new] /\ claim' = [claim EXCEPT ![i] = NewClaim(a)]
  BY DEF TakeUp
<1> HIDE DEF new
<1>5. work' \in [Agents -> Works] /\ claim' \in [Items -> Claims]
  BY <1>1, <1>2, <1>3, <1>4 DEF Typed
<1>6. \A b \in Agents : work'[b] = IF b = a THEN new ELSE work[b]
  BY <1>1, <1>4 DEF Typed
<1>7. \A j \in Items : claim'[j] = IF j = i THEN NewClaim(a) ELSE claim[j]
  BY <1>1, <1>4 DEF Typed
<1>8. i # None
  BY AgentsAssumption
<1>9. \A b \in Agents : work'[b].pc = "idle" <=> work'[b].on = None
  BY <1>1, <1>3, <1>6, <1>8 DEF Typed
<1>10. ASSUME NEW b \in Agents, work'[b].pc \in Engaged
       PROVE  work'[b].lapsed \/ RowOf(work', claim', b)
  <2>1. CASE b = a
    BY <1>2, <1>3, <1>6, <1>7, <2>1 DEF RowOf
  <2>2. CASE b # a
    <3>1. work'[b] = work[b] /\ (work[b].lapsed \/ RowOf(work, claim, b))
      BY <1>1, <1>6, <1>10, <2>2 DEF Engagement
    <3>2. RowOf(work, claim, b) => work[b].on # i
      BY <2>2 DEF RowOf
    <3> QED
      BY <1>7, <3>1, <3>2 DEF RowOf
  <2> QED
    BY <2>1, <2>2
<1> QED
  BY <1>5, <1>9, <1>10 DEF Typed, Engagement

\* Claims end with their goal, and their holders have lost them.
LEMMA LapseKeeps ==
  ASSUME LeaseInv, NEW is \in SUBSET Items, NEW w, w = Lapsed(Holders(is)),
         NEW c \in [Items -> Claims],
         \A i \in Items \ is : c[i] = claim[i]
  PROVE  Typed(w, c) /\ Engagement(w, c)
         /\ \A a \in Agents : w[a].pc = work[a].pc /\ w[a].on = work[a].on
<1>1. Typed(work, claim) /\ Engagement(work, claim)
  BY Parts
<1>2. \A a \in Agents : w[a] = IF a \in Holders(is) THEN [work[a] EXCEPT !.lapsed = TRUE] ELSE work[a]
  BY DEF Lapsed
<1>3. \A a \in Agents : /\ w[a].pc = work[a].pc /\ w[a].on = work[a].on /\ w[a] \in Works
                        /\ a \in Holders(is) => w[a].lapsed
                        /\ a \notin Holders(is) => w[a] = work[a]
  BY <1>1, <1>2 DEF Typed, Works
<1>4. w \in [Agents -> Works]
  BY <1>3 DEF Lapsed
<1>5. ASSUME NEW a \in Agents, w[a].pc \in Engaged, ~ w[a].lapsed PROVE RowOf(w, c, a)
  <2>1. a \notin Holders(is) /\ w[a] = work[a]
    BY <1>3, <1>5
  <2>2. RowOf(work, claim, a)
    BY <1>1, <1>5, <2>1 DEF Engagement
  <2>3. work[a].on \notin is
    BY <2>1, <2>2 DEF Holders, Holds, RowOf
  <2> QED
    BY <2>1, <2>2, <2>3 DEF RowOf
<1> QED
  BY <1>1, <1>3, <1>4, <1>5 DEF Typed, Engagement

LEMMA GoalStops ==
  ASSUME LeaseInv, NEW status \in GoalStatuses, SetGoal(status),
         NEW w, w = IF status \in Terminal THEN Lapsed(Holders(Items)) ELSE work
  PROVE  /\ Typed(w, claim') /\ Engagement(w, claim') /\ NoClaims(goal', claim')
         /\ \A a \in Agents : w[a].pc = work[a].pc /\ w[a].on = work[a].on
<1>1. Typed(work, claim) /\ Engagement(work, claim) /\ NoClaims(goal, claim)
  BY Parts
<1>2. CASE status \in Terminal
  <2>1. claim' = [i \in Items |-> NoClaim]
    BY <1>2 DEF SetGoal
  <2>2. claim' \in [Items -> Claims] /\ NoClaims(goal', claim')
    BY <2>1, Resting DEF NoClaims
  <2>3. w = Lapsed(Holders(Items))
    BY <1>2
  <2> QED
    BY <2>2, <2>3, LapseKeeps
<1>3. CASE status \notin Terminal
  BY <1>1, <1>3 DEF SetGoal, NoClaims
<1> QED
  BY <1>2, <1>3

\* An agent that is not at rest has an item in hand.
LEMMA InHand ==
  ASSUME LeaseInv, NEW a \in Agents, work[a].pc # "idle"
  PROVE  work[a].on \in Items
BY Parts DEF Typed, Works

\* A step of the claim protocol that leaves the goal alone.
LEMMA Together ==
  ASSUME LeaseInv, WorldOK', Typed(work', claim'), Engagement(work', claim'),
         NoClaims(goal', claim')
  PROVE  LeaseInv'
BY Parts

LEMMA ItemSet ==
  ASSUME LeaseInv, NEW i \in Items, NEW status \in ItemStatuses, SetItem(i, status)
  PROVE  item' \in [Items -> ItemStatuses]
BY Parts DEF WorldOK, SetItem

LEMMA ClaimStepKeeps ==
  ASSUME LeaseInv, NEW a \in Agents, ClaimStep(a)
  PROVE  LeaseInv'
<1>0. WorldOK /\ Typed(work, claim) /\ Engagement(work, claim) /\ NoClaims(goal, claim)
  BY Parts
<1>g. ASSUME NEW pc \in PCs \ {"idle"}, Goto(a, pc), UNCHANGED <<claim, goal>>,
             work[a].pc # "idle", pc \in Engaged => work[a].pc \in Engaged, WorldOK'
      PROVE  LeaseInv'
  BY <1>0, <1>g, GotoKeeps, Together DEF NoClaims
<1>l. ASSUME Leave(a), goal' = goal, WorldOK' PROVE LeaseInv'
  BY <1>l, LeaveKeeps, Together
<1>m. ASSUME Marked(a), work[a].pc \in Engaged, UNCHANGED <<claim, goal>>, WorldOK'
      PROVE  LeaseInv'
  <2> DEFINE pc == IF a \in Sessions THEN "begin" ELSE "working"
  <2>1. Goto(a, pc) /\ pc \in {"begin", "working"}
    BY <1>m DEF Marked
  <2> HIDE DEF pc
  <2>2. pc \in PCs \ {"idle"} /\ work[a].pc # "idle"
    BY <1>m, <2>1 DEF PCs, Engaged
  <2> QED
    BY <1>g, <1>m, <2>1, <2>2
<1>1. CASE MarkSelect(a)
  <2>1. work[a].pc \in Engaged /\ work[a].pc # "idle" /\ UNCHANGED <<claim, goal>> /\ WorldOK'
    BY <1>0, <1>1 DEF MarkSelect, At, Engaged, WorldOK
  <2>2. "markUpdate" \in PCs \ {"idle"}
    BY DEF PCs
  <2> QED
    BY <1>1, <1>g, <1>m, <2>1, <2>2 DEF MarkSelect
<1>2. CASE MarkUpdate(a)
  <2>1. work[a].pc \in Engaged /\ work[a].pc # "idle"
    BY <1>2 DEF MarkUpdate, At, Engaged
  <2>2. item' \in [Items -> ItemStatuses]
    BY <1>2, <2>1, InHand, ItemSet DEF MarkUpdate, ItemStatuses
  <2>3. WorldOK' /\ UNCHANGED <<claim, goal>> /\ Marked(a)
    BY <1>0, <1>2, <2>2 DEF MarkUpdate, WorldOK
  <2> QED
    BY <1>m, <2>1, <2>3
<1>3. CASE CompleteSelect(a)
  <2>1. work[a].pc # "idle" /\ WorldOK' /\ goal' = goal
    BY <1>0, <1>3 DEF CompleteSelect, At, WorldOK
  <2>2. /\ "completeUpdate" \in PCs \ {"idle"} /\ "completeUpdate" \notin Engaged
        /\ "release" \in PCs \ {"idle"} /\ "release" \notin Engaged
    BY DEF PCs, Engaged
  <2> QED
    BY <1>3, <1>g, <1>l, <2>1, <2>2 DEF CompleteSelect
<1>4. CASE CompleteUpdate(a)
  <2>1. work[a].pc # "idle" /\ goal' = goal
    BY <1>4 DEF CompleteUpdate, At
  <2>2. item' \in [Items -> ItemStatuses]
    BY <1>0, <1>4, <2>1, InHand, ItemSet DEF CompleteUpdate, ItemStatuses, WorldOK
  <2>3. WorldOK'
    BY <1>0, <1>4, <2>2 DEF CompleteUpdate, WorldOK
  <2>4. /\ "completeDelete" \in PCs \ {"idle"} /\ "completeDelete" \notin Engaged
        /\ "release" \in PCs \ {"idle"} /\ "release" \notin Engaged
    BY DEF PCs, Engaged
  <2> QED
    BY <1>4, <1>g, <1>l, <2>1, <2>3, <2>4 DEF CompleteUpdate
<1>5. CASE CompleteDelete(a)
  <2>1. WorldOK' /\ goal' = goal /\ work' = [work EXCEPT ![a] = NoWork]
    BY <1>0, <1>5 DEF CompleteDelete, WorldOK
  <2>2. claim' = IF Holds(a) THEN [claim EXCEPT ![work[a].on] = NoClaim] ELSE claim
    BY <1>5 DEF CompleteDelete
  <2>3. claim' \in [Items -> Claims]
    BY <1>0, <2>2, Resting DEF Typed, Holds
  <2>4. \A i \in Items : claim[i].agent # a => claim'[i] = claim[i]
    BY <1>0, <2>2 DEF Typed, Holds
  <2>5. NoClaims(goal, claim')
    BY <1>0, <2>2 DEF NoClaims, Typed, Holds
  <2> QED
    BY <2>1, <2>3, <2>4, <2>5, RestKeeps, Together
<1>6. CASE Release(a)
  <2>1. WorldOK' /\ goal' = goal /\ work[a].pc = "release"
    BY <1>0, <1>6 DEF Release, WorldOK, At
  <2>2. CASE Holds(a) /\ claim' = [claim EXCEPT ![work[a].on] = NoClaim] /\ Goto(a, "reopen")
    <3> DEFINE p == [work[a] EXCEPT !.pc = "reopen"]
    <3>1. p \in Works /\ p.pc = "reopen" /\ p.on = work[a].on
      BY <1>0 DEF Typed, Works, PCs
    <3>2. work' = [work EXCEPT ![a] = p]
      BY <1>0, <2>2 DEF Goto, Typed
    <3> HIDE DEF p
    <3>3. \A b \in Agents : work'[b] = IF b = a THEN p ELSE work[b]
      BY <1>0, <3>2 DEF Typed
    <3>4. work' \in [Agents -> Works]
      BY <1>0, <3>1, <3>2 DEF Typed
    <3>5. claim' \in [Items -> Claims] /\ \A i \in Items : claim[i].agent # a => claim'[i] = claim[i]
      BY <1>0, <2>2, Resting DEF Typed, Holds
    <3>6. \A b \in Agents : work'[b].pc = "idle" <=> work'[b].on = None
      BY <1>0, <2>1, <3>1, <3>3 DEF Typed
    <3>7. Engagement(work', claim')
      BY <1>0, <3>1, <3>3, <3>5 DEF Engagement, RowOf, Engaged
    <3>8. NoClaims(goal, claim')
      BY <1>0, <2>2 DEF NoClaims, Typed, Holds
    <3> QED
      BY <2>1, <3>4, <3>5, <3>6, <3>7, <3>8, Together DEF Typed
  <2> QED
    BY <1>6, <1>l, <2>1, <2>2 DEF Release
<1>7. CASE Reopen(a)
  <2>1. work[a].on \in Items
    BY <1>7, InHand DEF Reopen, At
  <2>2. item' \in [Items -> ItemStatuses]
    BY <1>0, <1>7, <2>1, ItemSet DEF Reopen, ItemStatuses, WorldOK
  <2>3. WorldOK' /\ UNCHANGED <<goal, claim>> /\ work' = [work EXCEPT ![a] = NoWork]
    BY <1>0, <1>7, <2>2 DEF Reopen, WorldOK
  <2>4. claim' \in [Items -> Claims] /\ NoClaims(goal', claim')
    BY <1>0, <2>3 DEF Typed, NoClaims
  <2> QED
    BY <2>3, <2>4, RestKeeps, Together
<1> QED
  BY <1>1, <1>2, <1>3, <1>4, <1>5, <1>6, <1>7 DEF ClaimStep

LEMMA WorkerKeeps ==
  ASSUME LeaseInv, NEW w \in Workers, WorkerStep(w)
  PROVE  LeaseInv'
<1>0. /\ WorldOK /\ Typed(work, claim) /\ Engagement(work, claim) /\ NoClaims(goal, claim)
      /\ w \in Agents
  BY Parts DEF Agents
<1>1. CASE ClaimNext(w)
  <2>1. WorldOK' /\ goal' = goal /\ goal = "active"
    BY <1>0, <1>1 DEF ClaimNext, WorldOK
  <2>2. PICK i \in Items : FreeToClaim(i) /\ TakeUp(w, i)
    BY <1>1 DEF ClaimNext
  <2>3. NoClaims(goal', claim')
    BY <2>1 DEF NoClaims, Terminal
  <2> QED
    BY <1>0, <2>1, <2>2, <2>3, TakeUpKeeps, Together DEF FreeToClaim
<1>2. CASE WorkEnds(w)
  <2>1. WorldOK' /\ UNCHANGED <<goal, claim>> /\ work[w].pc # "idle"
    BY <1>0, <1>2 DEF WorkEnds, At, WorldOK
  <2>2. /\ "complete" \in PCs \ {"idle"} /\ "complete" \notin Engaged
        /\ "release" \in PCs \ {"idle"} /\ "release" \notin Engaged
    BY DEF PCs, Engaged
  <2> QED
    BY <1>0, <1>2, <2>1, <2>2, GotoKeeps, Together DEF WorkEnds
<1>3. CASE Handoff(w)
  <2>1. WorldOK' /\ goal' = goal
    BY <1>0, <1>3 DEF Handoff, WorldOK
  <2>2. CASE HoldsLease(w) /\ work' = [work EXCEPT ![w] = NoWork]
             /\ \/ \E a \in Agents \ {w} :
                     claim' = [claim EXCEPT ![work[w].on] = [NewClaim(a) EXCEPT !.known = FALSE]]
                \/ claim' = [claim EXCEPT ![work[w].on] = NoClaim]
    <3>1. PICK c \in Claims : claim' = [claim EXCEPT ![work[w].on] = c]
      BY <2>2, Resting DEF NewClaim, Claims
    <3>2. work[w].on \in Items /\ claim[work[w].on].agent = w /\ claim[work[w].on].known
      BY <2>2 DEF HoldsLease, Holds
    <3>3. claim' \in [Items -> Claims] /\ \A i \in Items : claim[i].agent # w => claim'[i] = claim[i]
      BY <1>0, <3>1, <3>2 DEF Typed
    <3>4. goal \notin Terminal
      BY <1>0, <3>2, Resting DEF NoClaims
    <3> QED
      BY <1>0, <2>1, <2>2, <3>3, <3>4, RestKeeps, Together DEF NoClaims
  <2>3. CASE Leave(w)
    BY <1>0, <2>1, <2>3, LeaveKeeps, Together
  <2> QED
    BY <1>3, <2>2, <2>3 DEF Handoff
<1>4. CASE ClaimStep(w)
  BY <1>0, <1>4, ClaimStepKeeps
<1> QED
  BY <1>1, <1>2, <1>3, <1>4 DEF WorkerStep

LEMMA SessionKeeps ==
  ASSUME LeaseInv, NEW s \in Sessions, SessionStep(s) \/ Request(s)
  PROVE  LeaseInv'
<1>0. /\ WorldOK /\ Typed(work, claim) /\ Engagement(work, claim) /\ NoClaims(goal, claim)
      /\ s \in Agents
  BY Parts DEF Agents
<1>g. ASSUME NEW pc \in PCs \ {"idle"}, Goto(s, pc), UNCHANGED <<claim, goal>>,
             work[s].pc # "idle", pc \in Engaged => work[s].pc \in Engaged, WorldOK'
      PROVE  LeaseInv'
  BY <1>0, <1>g, GotoKeeps, Together
<1>1. CASE Decide(s)
  <2>1. WorldOK' /\ UNCHANGED <<goal, claim>> /\ work[s].pc = "idle"
    BY <1>0, <1>1 DEF Decide, At, WorldOK
  <2>2. PICK i \in Items : work' = [work EXCEPT ![s] = [pc |-> "claim", on |-> i, lapsed |-> FALSE]]
    BY <1>1 DEF Decide
  <2> DEFINE p == [pc |-> "claim", on |-> i, lapsed |-> FALSE]
  <2>3. p \in Works /\ p.pc = "claim" /\ p.on = i /\ i # None
    BY AgentsAssumption DEF Works, PCs
  <2>4. work' = [work EXCEPT ![s] = p]
    BY <2>2
  <2> HIDE DEF p
  <2>5. (\A b \in Agents : work'[b] = IF b = s THEN p ELSE work[b]) /\ work' \in [Agents -> Works]
    BY <1>0, <2>3, <2>4 DEF Typed
  <2>6. \A b \in Agents : work'[b].pc = "idle" <=> work'[b].on = None
    BY <1>0, <2>3, <2>5 DEF Typed
  <2>7. Engagement(work', claim')
    BY <1>0, <2>1, <2>3, <2>5 DEF Engagement, RowOf, Engaged
  <2> QED
    BY <1>0, <2>1, <2>5, <2>6, <2>7, Together DEF Typed
<1>2. CASE ClaimItem(s)
  <2>1. WorldOK' /\ goal' = goal /\ work[s].pc = "claim"
    BY <1>0, <1>2 DEF ClaimItem, At, WorldOK
  <2>2. work[s].on \in Items
    BY <1>0, <2>1, InHand
  <2>3. CASE goal = "active" /\ MayClaim(s, work[s].on) /\ TakeUp(s, work[s].on)
    <3>1. NoClaims(goal', claim')
      BY <2>1, <2>3 DEF NoClaims, Terminal
    <3> QED
      BY <1>0, <2>1, <2>2, <2>3, <3>1, TakeUpKeeps, Together DEF MayClaim, FreeToClaim
  <2>4. CASE Leave(s)
    BY <1>0, <2>1, <2>4, LeaveKeeps, Together
  <2> QED
    BY <1>2, <2>3, <2>4 DEF ClaimItem
<1>3. CASE Begin(s)
  <2>1. work[s].pc = "begin" /\ UNCHANGED <<claim, goal>>
    BY <1>3 DEF Begin, At
  <2>2. item' \in [Items -> ItemStatuses]
    BY <1>0, <1>3, <2>1, InHand, ItemSet DEF Begin, ItemStatuses, WorldOK
  <2>3. WorldOK'
    BY <1>0, <1>3, <2>2 DEF Begin, WorldOK
  <2>4. /\ "working" \in PCs \ {"idle"} /\ "begin" \in Engaged
        /\ "release" \in PCs \ {"idle"} /\ "release" \notin Engaged
    BY DEF PCs, Engaged
  <2> QED
    BY <1>3, <1>g, <2>1, <2>3, <2>4 DEF Begin
<1>4. CASE SettleRead(s)
  <2>1. work[s].pc = "working" /\ UNCHANGED <<claim, goal>> /\ WorldOK'
    BY <1>0, <1>4 DEF SettleRead, At, WorldOK
  <2>2. /\ "settle" \in PCs \ {"idle"} /\ "settle" \notin Engaged
        /\ "settled" \in PCs \ {"idle"} /\ "settled" \notin Engaged
    BY DEF PCs, Engaged
  <2> QED
    BY <1>4, <1>g, <2>1, <2>2 DEF SettleRead
<1>5. CASE SettleTurn(s)
  <2>1. work[s].pc = "settle" /\ UNCHANGED <<crashes, control>>
    BY <1>5 DEF SettleTurn, At
  <2>2. item' \in [Items -> ItemStatuses]
    <3>1. \A i \in Items, observed \in BOOLEAN : Applied(i, observed) \in ItemStatuses
      BY <1>0 DEF Applied, WorldOK, Requests, ItemStatuses
    <3>2. PICK failed, observed \in BOOLEAN :
             item' = [i \in Items |-> IF failed /\ i = work[s].on /\ Applied(i, observed) = "running"
                                      THEN "open" ELSE Applied(i, observed)]
      BY <1>5 DEF SettleTurn
    <3>3. "open" \in ItemStatuses
      BY DEF ItemStatuses
    <3> QED
      BY <3>1, <3>2, <3>3
  <2>3. request' \in [Items -> Requests \union {"none"}]
    BY <1>5 DEF SettleTurn
  <2>4. PICK status \in {goal, "blocked", "complete"} :
           /\ SetGoal(status)
           /\ work' = [IF status \in Terminal THEN Lapsed(Holders(Items)) ELSE work
                        EXCEPT ![s].pc = "settled"]
    BY <1>5 DEF SettleTurn
  <2>5. status \in GoalStatuses
    BY <1>0 DEF WorldOK, GoalStatuses
  <2> DEFINE w == IF status \in Terminal THEN Lapsed(Holders(Items)) ELSE work
  <2>6. /\ Typed(w, claim') /\ Engagement(w, claim') /\ NoClaims(goal', claim')
        /\ \A a \in Agents : w[a].pc = work[a].pc /\ w[a].on = work[a].on
    BY <2>4, <2>5, GoalStops
  <2>7. work' = [w EXCEPT ![s].pc = "settled"]
    BY <2>4
  <2> HIDE DEF w
  <2>8. \A b \in Agents : /\ work'[b].pc = IF b = s THEN "settled" ELSE w[b].pc
                          /\ work'[b].on = w[b].on /\ work'[b].lapsed = w[b].lapsed
                          /\ work'[b] \in Works
    BY <2>6, <2>7 DEF Typed, Works, PCs
  <2>9. work' \in [Agents -> Works]
    BY <2>6, <2>7, <2>8 DEF Typed
  <2>10. Typed(work', claim') /\ Engagement(work', claim')
    BY <1>0, <2>1, <2>6, <2>8, <2>9 DEF Typed, Engagement, RowOf, Engaged
  <2>11. WorldOK'
    BY <1>0, <2>1, <2>2, <2>3, <2>4, <2>5 DEF WorldOK, SetGoal
  <2> QED
    BY <2>6, <2>10, <2>11, Together
<1>6. CASE Settled(s)
  <2>1. work[s].pc = "settled" /\ UNCHANGED <<claim, goal>> /\ WorldOK'
    BY <1>0, <1>6 DEF Settled, At, WorldOK
  <2>2. /\ "complete" \in PCs \ {"idle"} /\ "complete" \notin Engaged
        /\ "release" \in PCs \ {"idle"} /\ "release" \notin Engaged
    BY DEF PCs, Engaged
  <2> QED
    BY <1>6, <1>g, <2>1, <2>2 DEF Settled
<1>7. CASE ClaimStep(s)
  BY <1>0, <1>7, ClaimStepKeeps
<1>8. CASE Request(s)
  <2>1. request' \in [Items -> Requests \union {"none"}]
    BY <1>0, <1>8 DEF Request, WorldOK
  <2>2. WorldOK' /\ UNCHANGED <<goal, claim, work>>
    BY <1>0, <1>8, <2>1 DEF Request, WorldOK
  <2> QED
    BY <1>0, <2>2, Together
<1> QED
  BY <1>1, <1>2, <1>3, <1>4, <1>5, <1>6, <1>7, <1>8 DEF SessionStep

LEMMA LeaseInit == Init => LeaseInv
<1> SUFFICES ASSUME Init PROVE LeaseInv
  OBVIOUS
<1>1. 0 \in 0..MaxCrashes /\ 0 \in 0..MaxControl
  BY BoundsAssumption
<1>2. WorldOK
  BY <1>1 DEF Init, WorldOK, GoalStatuses, ItemStatuses
<1>3. Typed(work, claim) /\ NoClaims(goal, claim)
  BY Resting DEF Init, Typed, NoClaims, Terminal
<1>4. Engagement(work, claim)
  BY Resting DEF Init, Engagement, Engaged
<1> QED
  BY <1>2, <1>3, <1>4, Parts

LEMMA LeaseStep == LeaseInv /\ [Next]_vars => LeaseInv'
<1> SUFFICES ASSUME LeaseInv, [Next]_vars PROVE LeaseInv'
  OBVIOUS
<1>0. WorldOK /\ Typed(work, claim) /\ Engagement(work, claim) /\ NoClaims(goal, claim)
  BY Parts
<1>1. ASSUME NEW w \in Workers, WorkerStep(w) PROVE LeaseInv'
  BY <1>1, WorkerKeeps
<1>2. ASSUME NEW s \in Sessions, SessionStep(s) \/ Request(s) PROVE LeaseInv'
  BY <1>2, SessionKeeps
<1>3. ASSUME NEW i \in Items, Expire(i) PROVE LeaseInv'
  <2> DEFINE gone == [claim[i] EXCEPT !.valid = FALSE]
  <2>1. WorldOK' /\ goal' = goal /\ claim[i].valid /\ work' = Lapsed(Holders({i}))
    BY <1>0, <1>3 DEF Expire, WorldOK
  <2>2. gone \in Claims
    BY <1>0 DEF Typed, Claims
  <2>3. claim' = [claim EXCEPT ![i] = gone]
    BY <1>0, <1>3 DEF Expire, Typed
  <2> HIDE DEF gone
  <2>4. claim' \in [Items -> Claims] /\ \A j \in Items \ {i} : claim'[j] = claim[j]
    BY <1>0, <2>2, <2>3 DEF Typed
  <2>5. goal \notin Terminal
    BY <1>0, <2>1, Resting DEF NoClaims
  <2> QED
    BY <2>1, <2>4, <2>5, LapseKeeps, Together DEF NoClaims
<1>4. ASSUME NEW i \in Items, ExpireUnknown(i) PROVE LeaseInv'
  <2>1. WorldOK' /\ UNCHANGED <<goal, work>> /\ claim' = [claim EXCEPT ![i] = NoClaim] /\ ~ claim[i].known
    BY <1>0, <1>4 DEF ExpireUnknown, WorldOK
  <2>2. claim' \in [Items -> Claims] /\ \A j \in Items : claim'[j] = IF j = i THEN NoClaim ELSE claim[j]
    BY <1>0, <2>1, Resting DEF Typed
  <2>3. Typed(work', claim') /\ Engagement(work', claim') /\ NoClaims(goal', claim')
    BY <1>0, <2>1, <2>2 DEF Typed, Engagement, RowOf, NoClaims
  <2> QED
    BY <2>1, <2>3, Together
<1>5. ASSUME NEW a \in Agents, Crash(a) PROVE LeaseInv'
  <2>1. crashes' \in 0..MaxCrashes
    <3>1. crashes \in 0..MaxCrashes /\ crashes < MaxCrashes /\ crashes' = crashes + 1
      BY <1>0, <1>5 DEF Crash, WorldOK
    <3> QED
      BY <3>1, BoundsAssumption
  <2>2. WorldOK' /\ goal' = goal /\ Leave(a)
    BY <1>0, <1>5, <2>1 DEF Crash, WorldOK
  <2> QED
    BY <2>2, LeaveKeeps, Together
<1>6. CASE Control
  <2>1. control' \in 0..MaxControl
    <3>1. control \in 0..MaxControl /\ control < MaxControl /\ control' = control + 1
      BY <1>0, <1>6 DEF Control, WorldOK
    <3> QED
      BY <3>1, BoundsAssumption
  <2>2. PICK status \in {"active", "paused", "blocked", "cancelled"} \ {goal} :
           /\ SetGoal(status)
           /\ work' = IF status \in Terminal THEN Lapsed(Holders(Items)) ELSE work
    BY <1>6 DEF Control
  <2>3. status \in GoalStatuses
    BY DEF GoalStatuses
  <2>4. Typed(work', claim') /\ Engagement(work', claim') /\ NoClaims(goal', claim')
    BY <2>2, <2>3, GoalStops
  <2>5. WorldOK'
    BY <1>0, <1>6, <2>1, <2>2, <2>3 DEF Control, SetGoal, WorldOK
  <2> QED
    BY <2>4, <2>5, Together
<1>7. CASE UNCHANGED vars
  BY <1>0, <1>7, Together DEF vars, WorldOK
<1> QED
  BY <1>1, <1>2, <1>3, <1>4, <1>5, <1>6, <1>7 DEF Next

\* A goal that has ended has no claims, whoever claims, hands off or dies meanwhile,
\* and an agent is at rest exactly when it has no item.
THEOREM TypeCorrect == Spec => []TypeOK
<1>1. LeaseInv => TypeOK
  BY DEF LeaseInv
<1> QED
  BY <1>1, LeaseInit, LeaseStep, PTL DEF Spec

\* Two agents work on one item only when the claim of one of them ran out or ended
\* with the goal while it worked, for any number of agents: no interleaving of
\* claimNextWork(), claimWorkItem(), markClaimRunning(), beginWorkItem(),
\* handoffWork(), releases and settlements leads to it.
THEOREM OneRunner == Spec => []OneRunnerPerItem
<1>1. LeaseInv => OneRunnerPerItem
  BY DEF LeaseInv, OneRunnerPerItem, Engaged, HoldsLease, Holds, At
<1> QED
  BY <1>1, LeaseInit, LeaseStep, PTL DEF Spec
==============================================================================
