------------------------ MODULE PolicyRolloutProofs ------------------------
(***************************************************************************)
(* Rollouts implement ChangeSets, and what an edit that overlaps no other  *)
(* write keeps of versions and revisions, for any number of policies,      *)
(* change sets, editors, reviewers and rollouts.                           *)
(***************************************************************************)
EXTENDS PolicyRollout, TLAPS

(***************************************************************************)
(* The rollouts' part of the inductive invariant: what a rollout has read  *)
(* it holds, so that it stands until the commit.                           *)
(***************************************************************************)

\* Functions on some of the policies, such as a snapshot or a rollout's reads.
OnSome(T) == UNION {[S -> T] : S \in SUBSET Policies}

Running(t) == rollout[t].stage = "locking"

RolloutRecord == [stage : {"idle", "locking"}, kind : {"none", "promote", "rollback"},
                  change : Changes \cup {Nobody}, todo : Seq(Policies),
                  read : OnSome(Row)]

StoreTypes ==
  /\ row \in [Policies -> Row]
  /\ status \in [Changes -> Statuses]
  /\ base \in [Changes -> [Policies -> Nat]]
  /\ lock \in [Policies \cup Changes -> Rollouts \cup {Nobody}]
  /\ rollout \in [Rollouts -> RolloutRecord]
  /\ snapshots \in [Changes -> OnSome(Content)]
  /\ created \in [Changes -> Int]
  /\ promotions \in [Changes -> Nat]

\* An idle editor's policy is whatever CHOOSE makes of Policies.
EditorRecord ==
  [stage : {"idle", "read", "bumped", "refreshed", "saved"},
   op : {"none", "update", "toggle", "delete"},
   policy : Policies \cup {NoEdit.policy}, row : Row, edit : Edits \cup {Origin}]

EditorTypes ==
  /\ editor \in [Editors -> EditorRecord]
  /\ \A e \in Editors : editor[e].stage # "idle" => editor[e].policy \in Policies

\* A reviewer holds a change set somebody has drafted.
ReviewerTypes ==
  \A r \in Reviewers : reviewer[r] # NoReview =>
    /\ reviewer[r].change \in Changes /\ status[reviewer[r].change] # "absent"
    /\ reviewer[r].snapshots \in OnSome(Content)

\* A rollout has read, or is still to lock, just the policies it edits.
WholeChange ==
  \A t \in Rollouts : Running(t) =>
    /\ rollout[t].change \in Changes /\ rollout[t].kind \in {"promote", "rollback"}
    /\ Edited(rollout[t].change) = DOMAIN rollout[t].read \cup Range(rollout[t].todo)

LocksHeld ==
  \A t \in Rollouts : Running(t) =>
    /\ lock[rollout[t].change] = t
    /\ \A p \in DOMAIN rollout[t].read : lock[p] = t

StatusHeld ==
  \A t \in Rollouts : Running(t) =>
    status[rollout[t].change] = IF rollout[t].kind = "promote" THEN "approved"
                                ELSE "promoted"

ReadStands ==
  \A t \in Rollouts : Running(t) =>
    \A p \in DOMAIN rollout[t].read :
      /\ rollout[t].read[p] = row[p] /\ row[p].live
      /\ rollout[t].kind = "promote" => base[rollout[t].change][p] = row[p].version

\* What is promoted can be rolled back on every policy it edits.
SnapshotsComplete ==
  \A c \in Changes : status[c] = "promoted" => DOMAIN snapshots[c] = Edited(c)

RolloutInv ==
  /\ StoreTypes
  /\ EditorTypes
  /\ ReviewerTypes
  /\ WholeChange
  /\ LocksHeld
  /\ StatusHeld
  /\ ReadStands
  /\ SnapshotsComplete

-----------------------------------------------------------------------------
(***************************************************************************)
(* Rollouts.                                                               *)
(***************************************************************************)
LEMMA HeadTail ==
  ASSUME NEW s \in Seq(Policies), s # <<>>
  PROVE  /\ Head(s) \in Policies /\ Tail(s) \in Seq(Policies)
         /\ Range(s) = {Head(s)} \cup Range(Tail(s))
<1>1. /\ Head(s) = s[1] /\ Len(s) \in Nat \ {0} /\ DOMAIN s = 1 .. Len(s)
      /\ Tail(s) \in Seq(Policies) /\ DOMAIN Tail(s) = 1 .. Len(s) - 1
      /\ \A i \in 1 .. Len(s) - 1 : Tail(s)[i] = s[i + 1]
  OBVIOUS
<1>2. ASSUME NEW i \in DOMAIN s PROVE s[i] \in {Head(s)} \cup Range(Tail(s))
  <2>1. CASE i = 1
    BY <1>1, <2>1
  <2>2. CASE i # 1
    <3>1. i - 1 \in DOMAIN Tail(s) /\ s[i] = Tail(s)[i - 1]
      BY <1>1, <2>2
    <3>. QED
      BY <3>1 DEF Range
  <2>. QED
    BY <2>1, <2>2
<1>3. ASSUME NEW i \in DOMAIN Tail(s) PROVE Tail(s)[i] \in Range(s)
  <2>1. i + 1 \in DOMAIN s /\ Tail(s)[i] = s[i + 1]
    BY <1>1
  <2>. QED
    BY <2>1 DEF Range
<1>4. Head(s) \in Policies /\ Head(s) \in Range(s)
  <2>1. 1 \in DOMAIN s /\ s[1] \in Policies
    BY <1>1
  <2>. QED
    BY <1>1, <2>1 DEF Range
<1>5. Range(s) \subseteq {Head(s)} \cup Range(Tail(s))
  BY <1>2 DEF Range
<1>6. Range(Tail(s)) \subseteq Range(s)
  <2>. SUFFICES ASSUME NEW x \in Range(Tail(s)) PROVE x \in Range(s)
    OBVIOUS
  <2>1. PICK i \in DOMAIN Tail(s) : x = Tail(s)[i]
    BY Zenon DEF Range
  <2>. QED
    BY <1>3, <2>1
<1>. QED
  BY <1>1, <1>4, <1>5, <1>6

LEMMA OnSomeType ==
  ASSUME NEW T, NEW f
  PROVE  f \in OnSome(T) <=> \E S \in SUBSET Policies : f \in [S -> T]
BY DEF OnSome

LEMMA NothingRead == <<>> \in OnSome(Row) /\ DOMAIN <<>> = {} /\ <<>> \in Seq(Policies)
                     /\ <<>> \in OnSome(Content) /\ Range(<<>>) = {}
<1>1. DOMAIN <<>> = {} /\ <<>> \in Seq(Policies)
  OBVIOUS
<1>2. <<>> \in [{} -> Row] /\ <<>> \in [{} -> Content]
  BY <1>1
<1>3. Range(<<>>) = {}
  BY <1>1 DEF Range
<1>. QED
  BY <1>1, <1>2, <1>3, OnSomeType

LEMMA NoRolloutIdle == NoRollout \in RolloutRecord /\ NoRollout.stage = "idle"
BY NothingRead DEF NoRollout, RolloutRecord

LEMMA NoEditType ==
  /\ NoEdit.stage = "idle"
  /\ NoEdit \in EditorRecord
BY DEF NoEdit, Row, Content, Original, EditorRecord

LEMMA RolloutInit == Init => RolloutInv
<1>. SUFFICES ASSUME Init PROVE RolloutInv
  OBVIOUS
<1>1. StoreTypes
  BY NoRolloutIdle, NothingRead
     DEF Init, StoreTypes, Row, Content, Original, Statuses, NoSnapshots
<1>2. EditorTypes
  BY NoEditType DEF Init, EditorTypes
<1>3. ReviewerTypes
  BY DEF Init, ReviewerTypes
<1>4. WholeChange /\ LocksHeld /\ StatusHeld /\ ReadStands
  BY NoRolloutIdle DEF Init, WholeChange, LocksHeld, StatusHeld, ReadStands, Running
<1>5. SnapshotsComplete
  BY DEF Init, SnapshotsComplete
<1>. QED
  BY <1>1, <1>2, <1>3, <1>4, <1>5 DEF RolloutInv

\* An edit's write disturbs no rollout: it waits for the row's lock.
LEMMA UnlockedWrite ==
  ASSUME RolloutInv, UNCHANGED <<reviewVars, rolloutVars>>, row' \in [Policies -> Row],
         \A q \in Policies : lock[q] # Nobody => row'[q] = row[q],
         EditorTypes'
  PROVE  RolloutInv'
<1>. USE DEF RolloutInv, reviewVars, rolloutVars, changeVars
<1>1. StoreTypes' /\ SnapshotsComplete' /\ ReviewerTypes'
  BY DEF StoreTypes, SnapshotsComplete, ReviewerTypes
<1>2. WholeChange' /\ LocksHeld' /\ StatusHeld'
  BY DEF WholeChange, LocksHeld, StatusHeld, Running
<1>3. ReadStands'
  <2>. SUFFICES ASSUME NEW t \in Rollouts, Running(t), NEW p \in DOMAIN rollout[t].read
                PROVE  /\ rollout[t].read[p] = row'[p] /\ row'[p].live
                       /\ rollout[t].kind = "promote" =>
                            base[rollout[t].change][p] = row'[p].version
    BY DEF ReadStands, Running
  <2>1. p \in Policies
    BY DEF StoreTypes, RolloutRecord, OnSome
  <2>2. lock[p] # Nobody
    BY RolloutAssumption DEF LocksHeld
  <2>. QED
    BY <2>1, <2>2 DEF ReadStands
<1>. QED
  BY <1>1, <1>2, <1>3

\* An editor's record after its step.
LEMMA EditorMoves ==
  ASSUME EditorTypes, NEW e \in Editors, NEW next,
         editor' = [editor EXCEPT ![e] = next],
         next \in EditorRecord,
         next.stage # "idle" => next.policy \in Policies
  PROVE  EditorTypes'
BY DEF EditorTypes

LEMMA RefreshedType ==
  ASSUME NEW held \in EditorRecord, NEW version \in Nat
  PROVE  /\ [held EXCEPT !.stage = "refreshed", !.row.version = version] \in EditorRecord
         /\ [held EXCEPT !.stage = "refreshed", !.row.version = version].policy = held.policy
         /\ [held EXCEPT !.stage = "refreshed", !.row.version = version].op = held.op
         /\ [held EXCEPT !.stage = "refreshed", !.row.version = version].stage = "refreshed"
         /\ [held EXCEPT !.stage = "refreshed", !.row.version = version].row =
              [held.row EXCEPT !.version = version]
BY DEF EditorRecord, Row

LEMMA EditorTypesKept ==
  ASSUME RolloutInv, NEW e \in Editors, EditorStep(e)
  PROVE  EditorTypes'
<1>. USE DEF RolloutInv
<1>1. ASSUME NEW op \in {"update", "toggle", "delete"}, NEW edit \in Edits,
             Fetch(e, op, edit)
      PROVE  EditorTypes'
  BY <1>1, EditorMoves, RolloutAssumption DEF Fetch, StoreTypes, EditorRecord
<1>2. CASE Bump(e)
  BY <1>2, EditorMoves DEF Bump, EditorTypes, EditorRecord
<1>3. CASE Refresh(e)
  <2>1. CASE ~row[editor[e].policy].live
    BY <1>3, <2>1, EditorMoves, NoEditType DEF Refresh
  <2>2. CASE row[editor[e].policy].live
    <3>1. editor[e].policy \in Policies
      BY <1>3 DEF Refresh, EditorTypes, EditorRecord
    <3>2. row[editor[e].policy].version \in Nat
      BY <3>1 DEF StoreTypes, Row
    <3>. DEFINE next == [editor[e] EXCEPT !.stage = "refreshed",
                                          !.row.version = row[editor[e].policy].version]
    <3>3. editor' = [editor EXCEPT ![e] = next]
      BY <1>3, <2>2 DEF Refresh
    <3>4. next \in EditorRecord
      BY <3>2, RefreshedType DEF EditorTypes
    <3>5. next.stage # "idle" => next.policy \in Policies
      BY <3>1, <3>2, RefreshedType DEF EditorTypes
    <3>. HIDE DEF next
    <3>. QED
      BY <3>3, <3>4, <3>5, EditorMoves
  <2>. QED
    BY <2>1, <2>2
<1>4. CASE Save(e)
  <2>1. CASE editor' = [editor EXCEPT ![e] = NoEdit]
    BY <2>1, EditorMoves, NoEditType
  <2>2. CASE editor' = [editor EXCEPT ![e].stage = "saved"]
    <3>. DEFINE next == [editor[e] EXCEPT !.stage = "saved"]
    <3>1. editor[e] \in EditorRecord /\ editor[e].policy \in Policies
      BY <1>4 DEF Save, EditorTypes
    <3>2. next \in EditorRecord
      BY <3>1 DEF EditorRecord
    <3>3. next.policy = editor[e].policy
      BY <3>1 DEF EditorRecord
    <3>4. editor' = [editor EXCEPT ![e] = next]
      BY <2>2
    <3>. HIDE DEF next
    <3>. QED
      BY <3>1, <3>2, <3>3, <3>4, EditorMoves
  <2>. QED
    BY <1>4, <2>1, <2>2 DEF Save
<1>5. CASE Revise(e)
  BY <1>5, EditorMoves, NoEditType DEF Revise
<1>6. CASE Delete(e)
  BY <1>6, EditorMoves, NoEditType DEF Delete
<1>. QED
  <2>1. \/ \E op \in {"update", "toggle", "delete"}, edit \in Edits : Fetch(e, op, edit)
        \/ Bump(e) \/ Refresh(e) \/ Save(e) \/ Revise(e) \/ Delete(e)
    BY Zenon DEF EditorStep
  <2>2. ASSUME NEW op \in {"update", "toggle", "delete"}, NEW edit \in Edits,
               Fetch(e, op, edit)
        PROVE  EditorTypes'
    BY <1>1, <2>2
  <2>. HIDE DEF StoreTypes, EditorTypes
  <2>. QED
    BY <1>2, <1>3, <1>4, <1>5, <1>6, <2>1, <2>2, Zenon

\* What a save writes is a policy's content.
LEMMA IntendedType ==
  ASSUME EditorTypes, NEW e \in Editors
  PROVE  Intended(e) \in Content
<1>1. PICK held : held = editor[e]
  OBVIOUS
<1>2. held \in EditorRecord /\ (held.op = "update" => held.edit \in Edits \cup {Origin})
  BY <1>1 DEF EditorTypes, EditorRecord
<1>3. held.row.content \in Content
  BY <1>2 DEF EditorRecord, Row
<1>4. /\ held.op = "update" => [held.row.content EXCEPT !.config = held.edit] \in Content
      /\ [held.row.content EXCEPT !.on = ~@] \in Content
  BY <1>2, <1>3 DEF Content
<1>. QED
  BY <1>1, <1>4 DEF Intended

\* An edit writes one policy at most, and only one that is not locked.
LEMMA EditorWrites ==
  ASSUME RolloutInv, NEW e \in Editors, EditorStep(e)
  PROVE  /\ row' \in [Policies -> Row] /\ UNCHANGED <<reviewVars, rolloutVars>>
         /\ \E p \in Policies : \A q \in Policies :
              row'[q] # row[q] => q = p /\ lock[q] = Nobody
<1>. USE DEF RolloutInv
<1>. DEFINE p == editor[e].policy
<1>1. CASE UNCHANGED <<row, reviewVars, rolloutVars>> /\ Policies # {}
  BY <1>1 DEF StoreTypes
<1>2. ASSUME NEW op \in {"update", "toggle", "delete"}, NEW edit \in Edits,
             Fetch(e, op, edit)
      PROVE  UNCHANGED <<row, reviewVars, rolloutVars>> /\ Policies # {}
  BY <1>2, RolloutAssumption DEF Fetch, storeVars
<1>3. Refresh(e) \/ Revise(e) =>
        UNCHANGED <<row, reviewVars, rolloutVars>> /\ Policies # {}
  <2>1. editor[e].stage # "idle" => editor[e].policy \in Policies
    BY DEF EditorTypes
  <2>2. CASE Refresh(e)
    BY <2>1, <2>2 DEF Refresh, storeVars
  <2>3. CASE Revise(e)
    BY <2>1, <2>3 DEF Revise
  <2>. QED
    BY <2>2, <2>3
<1>4. ASSUME Bump(e) \/ Delete(e) \/ Save(e)
      PROVE  p \in Policies /\ lock[p] = Nobody /\ UNCHANGED <<reviewVars, rolloutVars>>
  <2>1. editor[e].stage # "idle" => p \in Policies
    BY DEF EditorTypes
  <2>2. CASE Bump(e)
    BY <2>1, <2>2 DEF Bump
  <2>3. CASE Delete(e)
    BY <2>1, <2>3 DEF Delete
  <2>4. CASE Save(e)
    BY <2>1, <2>4 DEF Save
  <2>. QED
    BY <1>4, <2>2, <2>3, <2>4
<1>5. ASSUME Bump(e) \/ Delete(e)
      PROVE  row' \in [Policies -> Row] /\ \A q \in Policies \ {p} : row'[q] = row[q]
  <2>1. CASE Delete(e)
    BY <1>4, <1>5, <2>1 DEF Delete, StoreTypes, Row
  <2>2. CASE Bump(e)
    <3>1. row[p] \in Row /\ row[p].version + 1 \in Nat
      BY <1>4, <1>5 DEF StoreTypes, Row
    <3>2. row' = [row EXCEPT ![p].version = IF row[p].live THEN @ + 1 ELSE @]
      BY <2>2 DEF Bump
    <3>3. PICK n \in Nat : n = IF row[p].live THEN row[p].version + 1 ELSE row[p].version
      BY <3>1 DEF Row
    <3>4. PICK next : next = [row[p] EXCEPT !.version = n]
      OBVIOUS
    <3>5. next \in Row
      BY <3>1, <3>3, <3>4 DEF Row
    <3>6. row' = [row EXCEPT ![p] = next]
      BY <3>2, <3>3, <3>4
    <3>7. row \in [Policies -> Row] /\ p \in Policies
      BY <1>4, <1>5 DEF StoreTypes
    <3>. QED
      BY <3>5, <3>6, <3>7
  <2>. QED
    BY <1>5, <2>1, <2>2
<1>6. ASSUME Save(e)
      PROVE  row' \in [Policies -> Row] /\ \A q \in Policies \ {p} : row'[q] = row[q]
  <2>1. Intended(e) \in Content
    BY <1>4, IntendedType
  <2>2. CASE row' = [row EXCEPT ![p] = [live |-> TRUE, version |-> editor[e].row.version,
                                        content |-> Intended(e)]]
    BY <1>4, <1>6, <2>1, <2>2 DEF StoreTypes, EditorTypes, Row, EditorRecord
  <2>3. CASE row' = [row EXCEPT ![p].content.on = Intended(e).on]
    BY <1>4, <1>6, <2>1, <2>3 DEF StoreTypes, Row, Content
  <2>4. CASE row' = row
    BY <2>4 DEF StoreTypes
  <2>. QED
    BY <1>6, <2>2, <2>3, <2>4 DEF Save
<1>7. CASE Bump(e) \/ Delete(e) \/ Save(e)
  BY <1>4, <1>5, <1>6, <1>7
<1>. QED
  BY <1>1, <1>2, <1>3, <1>7 DEF EditorStep

\* A running rollout's change set and reads are within their types.
LEMMA RunningType ==
  ASSUME RolloutInv, NEW t \in Rollouts, Running(t)
  PROVE  /\ rollout[t].change \in Changes /\ rollout[t].todo \in Seq(Policies)
         /\ DOMAIN rollout[t].read \subseteq Policies
         /\ rollout[t].read \in [DOMAIN rollout[t].read -> Row]
         /\ rollout[t].read \in OnSome(Row)
         /\ t # Nobody
<1>1. rollout[t].read \in OnSome(Row) /\ rollout[t].todo \in Seq(Policies)
  BY DEF RolloutInv, StoreTypes, RolloutRecord
<1>2. PICK S \in SUBSET Policies : rollout[t].read \in [S -> Row]
  BY <1>1, OnSomeType
<1>. QED
  BY <1>1, <1>2, RolloutAssumption DEF RolloutInv, WholeChange

LEMMA DraftKeeps ==
  ASSUME RolloutInv, NEW c \in Changes, Draft(c)
  PROVE  RolloutInv'
<1>. USE DEF RolloutInv, Draft, editVars, storeVars, rolloutVars
<1>1. StoreTypes'
  BY DEF StoreTypes, Row, Statuses
<1>2. EditorTypes' /\ ReviewerTypes'
  BY DEF EditorTypes, ReviewerTypes, StoreTypes
<1>3. \A t \in Rollouts : Running(t) => rollout[t].change \in Changes \ {c}
  BY RunningType DEF StatusHeld
<1>4. WholeChange' /\ LocksHeld' /\ StatusHeld' /\ SnapshotsComplete'
  BY <1>3 DEF WholeChange, LocksHeld, StatusHeld, SnapshotsComplete, Running, StoreTypes
<1>5. ReadStands'
  BY <1>3 DEF ReadStands, Running, StoreTypes
<1>. QED
  BY <1>1, <1>2, <1>4, <1>5

LEMMA TransitionKeeps ==
  ASSUME RolloutInv, NEW r \in Reviewers, NEW s \in Statuses, Transition(r, s)
  PROVE  /\ RolloutInv'
         /\ reviewer[r].change \in Changes /\ status[reviewer[r].change] # "absent"
         /\ s \in {"validated", "staged", "approved", "rejected"}
<1>. DEFINE c == reviewer[r].change
<1>. USE DEF RolloutInv
<1>1. c \in Changes /\ status[c] # "absent" /\ reviewer[r].snapshots \in OnSome(Content)
  BY DEF ReviewerTypes, Transition
<1>2. s \in {"validated", "staged", "approved", "rejected"}
  BY DEF Transition, Allowed
<1>3. \A t \in Rollouts : Running(t) => rollout[t].change \in Changes \ {c}
  BY RunningType DEF LocksHeld, Transition
<1>4. /\ status' = [status EXCEPT ![c] = s]
      /\ snapshots' = [snapshots EXCEPT ![c] = reviewer[r].snapshots]
      /\ reviewer' = [reviewer EXCEPT ![r] = NoReview]
      /\ UNCHANGED <<editVars, base, created, acked, drafted, rolloutVars, torn>>
  BY DEF Transition
<1>5. StoreTypes'
  BY <1>1, <1>4 DEF StoreTypes, editVars, storeVars, rolloutVars
<1>6. EditorTypes'
  BY <1>4 DEF EditorTypes, editVars
<1>7. ReviewerTypes'
  BY <1>1, <1>2, <1>4 DEF ReviewerTypes, StoreTypes
<1>8. WholeChange' /\ LocksHeld' /\ StatusHeld'
  BY <1>3, <1>4 DEF WholeChange, LocksHeld, StatusHeld, Running, rolloutVars, StoreTypes
<1>9. ReadStands'
  BY <1>3, <1>4 DEF ReadStands, Running, rolloutVars, editVars, storeVars
<1>10. SnapshotsComplete'
  BY <1>1, <1>2, <1>4 DEF SnapshotsComplete, StoreTypes
<1>. QED
  BY <1>1, <1>2, <1>5, <1>6, <1>7, <1>8, <1>9, <1>10

LEMMA ReviewKeeps ==
  ASSUME RolloutInv,
         \/ \E r \in Reviewers, c \in Changes : ReadChange(r, c)
         \/ \E c \in Changes : Acknowledge(c)
  PROVE  RolloutInv'
<1>1. ASSUME NEW r \in Reviewers, NEW c \in Changes, ReadChange(r, c)
      PROVE  ReviewerTypes'
  BY <1>1 DEF ReadChange, ReviewerTypes, RolloutInv, StoreTypes, changeVars, Allowed
<1>2. ASSUME NEW c \in Changes, Acknowledge(c)
      PROVE  ReviewerTypes'
  BY <1>2 DEF Acknowledge, ReviewerTypes, RolloutInv
<1>3. UNCHANGED <<editVars, status, base, snapshots, created, rolloutVars>>
  BY DEF ReadChange, Acknowledge, changeVars
<1>4. EditorTypes' /\ StoreTypes' /\ SnapshotsComplete' /\ WholeChange' /\ LocksHeld'
      /\ StatusHeld' /\ ReadStands'
  BY <1>3 DEF RolloutInv, EditorTypes, StoreTypes, SnapshotsComplete, WholeChange,
     LocksHeld, StatusHeld, ReadStands, Running, editVars, storeVars, rolloutVars
<1>. QED
  BY <1>1, <1>2, <1>4 DEF RolloutInv

LEMMA StartKeeps ==
  ASSUME RolloutInv, NEW t \in Rollouts, NEW c \in Changes,
         NEW kind \in {"promote", "rollback"}, Start(t, c, kind),
         status[c] = IF kind = "promote" THEN "approved" ELSE "promoted"
  PROVE  RolloutInv'
<1>. DEFINE begun == [stage |-> "locking", kind |-> kind, change |-> c,
                      todo |-> Items[c], read |-> <<>>]
<1>. USE DEF RolloutInv
<1>1. /\ rollout' = [rollout EXCEPT ![t] = begun] /\ lock' = [lock EXCEPT ![c] = t]
      /\ lock[c] = Nobody /\ ~Running(t)
      /\ UNCHANGED <<editVars, reviewVars, promotions>>
  BY DEF Start, Running
<1>2. begun \in RolloutRecord /\ DOMAIN begun.read = {} /\ Edited(c) = Range(begun.todo)
  BY NothingRead, RolloutAssumption DEF RolloutRecord, Edited
<1>3. EditorTypes' /\ ReviewerTypes' /\ SnapshotsComplete'
  BY <1>1 DEF EditorTypes, ReviewerTypes, SnapshotsComplete, editVars, storeVars,
     reviewVars, changeVars
<1>4. StoreTypes'
  <2>1. UNCHANGED <<row, status, base, snapshots, created, promotions>>
    BY <1>1 DEF editVars, storeVars, reviewVars, changeVars
  <2>2. rollout' \in [Rollouts -> RolloutRecord]
    <3>1. /\ rollout \in [Rollouts -> RolloutRecord] /\ begun \in RolloutRecord
          /\ rollout' = [rollout EXCEPT ![t] = begun]
      BY <1>1, <1>2 DEF StoreTypes
    <3>. HIDE DEF begun, RolloutInv
    <3>. QED
      BY <3>1
  <2>3. lock' \in [Policies \cup Changes -> Rollouts \cup {Nobody}]
    <3>1. /\ lock \in [Policies \cup Changes -> Rollouts \cup {Nobody}]
          /\ lock' = [lock EXCEPT ![c] = t]
      BY <1>1 DEF StoreTypes
    <3>. HIDE DEF begun, RolloutInv
    <3>. QED
      BY <3>1
  <2>. QED
    BY <2>1, <2>2, <2>3 DEF StoreTypes
<1>5. \A u \in Rollouts : IF u = t THEN rollout'[u] = begun ELSE rollout'[u] = rollout[u]
  BY <1>1 DEF StoreTypes
<1>6. WholeChange'
  <2>1. \A u \in Rollouts : Running(u) =>
          Edited(rollout[u].change) =
            DOMAIN rollout[u].read \cup Range(rollout[u].todo)
    BY DEF WholeChange
  <2>. QED
    BY <1>2, <1>5, <2>1 DEF WholeChange, Running
<1>7. LocksHeld'
  <2>1. \A u \in Rollouts : Running(u) => \A p \in DOMAIN rollout[u].read :
          p \in Policies /\ p # c
    BY <1>1, RunningType DEF LocksHeld
  <2>2. \A u \in Rollouts : Running(u) => rollout[u].change # c /\ rollout[u].change \in Changes
    BY <1>1, RunningType DEF LocksHeld
  <2>3. t # Nobody
    BY RolloutAssumption
  <2>. QED
    BY <1>1, <1>2, <1>5, <2>1, <2>2 DEF LocksHeld, Running, StoreTypes
<1>8. StatusHeld' /\ ReadStands'
  BY <1>1, <1>2, <1>5 DEF StatusHeld, ReadStands, Running, editVars, storeVars,
     reviewVars, changeVars
<1>. QED
  BY <1>3, <1>4, <1>6, <1>7, <1>8

LEMMA LockKeeps ==
  ASSUME RolloutInv, NEW t \in Rollouts, LockPolicy(t)
  PROVE  RolloutInv'
<1>. DEFINE p == NextPolicy(t)
            read == rollout[t].read
            taken == [q \in DOMAIN read \cup {p} |-> IF q \in DOMAIN read THEN read[q] ELSE row[q]]
            next == [rollout[t] EXCEPT !.todo = Tail(@), !.read = taken]
<1>. USE DEF RolloutInv
<1>1. /\ Running(t) /\ rollout[t].todo # <<>> /\ lock[p] \in {Nobody, t} /\ Matches(t, p)
      /\ lock' = [lock EXCEPT ![p] = t] /\ rollout' = [rollout EXCEPT ![t] = next]
      /\ UNCHANGED <<editVars, reviewVars, promotions>>
  BY DEF LockPolicy, Locking, Running, Take
<1>2. /\ p \in Policies /\ Tail(rollout[t].todo) \in Seq(Policies)
      /\ Range(rollout[t].todo) = {p} \cup Range(Tail(rollout[t].todo))
  BY <1>1, RunningType, HeadTail DEF NextPolicy
<1>3. taken \in OnSome(Row) /\ DOMAIN taken = DOMAIN read \cup {p}
  <2>1. /\ DOMAIN read \subseteq Policies /\ read \in [DOMAIN read -> Row]
        /\ row \in [Policies -> Row]
    BY <1>1, RunningType DEF StoreTypes
  <2>2. taken \in [DOMAIN read \cup {p} -> Row]
    BY <1>2, <2>1
  <2>3. DOMAIN read \cup {p} \in SUBSET Policies
    BY <1>2, <2>1
  <2>. HIDE DEF taken
  <2>. QED
    BY <2>2, <2>3, OnSomeType
<1>. HIDE DEF taken
<1>4. /\ next \in RolloutRecord /\ next.read = taken /\ next.todo = Tail(rollout[t].todo)
      /\ next.stage = "locking" /\ next.change = rollout[t].change
      /\ next.kind = rollout[t].kind
  <2>1. rollout[t] \in RolloutRecord /\ rollout[t].stage = "locking"
    BY <1>1 DEF StoreTypes, LockPolicy, Locking
  <2>. QED
    BY <1>2, <1>3, <2>1 DEF RolloutRecord
<1>. HIDE DEF next
<1>5. \A u \in Rollouts : IF u = t THEN rollout'[u] = next ELSE rollout'[u] = rollout[u]
  BY <1>1 DEF StoreTypes
<1>6. EditorTypes' /\ ReviewerTypes' /\ SnapshotsComplete'
  BY <1>1 DEF EditorTypes, ReviewerTypes, SnapshotsComplete, editVars, storeVars,
     reviewVars, changeVars
<1>7. StoreTypes'
  BY <1>1, <1>2, <1>4 DEF StoreTypes, editVars, storeVars, reviewVars, changeVars
<1>8. WholeChange'
  <2>1. Edited(next.change) = DOMAIN next.read \cup Range(next.todo)
    BY <1>1, <1>2, <1>3, <1>4 DEF WholeChange
  <2>. QED
    BY <1>1, <1>4, <1>5, <2>1 DEF WholeChange, Running
<1>9. LocksHeld'
  <2>1. ASSUME NEW u \in Rollouts, Running(u), u # t
        PROVE  /\ rollout[u].change # p \/ lock'[p] = u
               /\ \A q \in DOMAIN rollout[u].read : q # p
    BY <1>1, <2>1, RunningType DEF LocksHeld
  <2>. QED
    BY <1>1, <1>2, <1>3, <1>4, <1>5, <2>1, RunningType DEF LocksHeld, Running, StoreTypes
<1>10. StatusHeld'
  BY <1>1, <1>4, <1>5 DEF StatusHeld, Running, reviewVars, changeVars
<1>11. ReadStands'
  <2>1. \A q \in DOMAIN taken :
          /\ taken[q] = row[q] /\ row[q].live
          /\ rollout[t].kind = "promote" => base[rollout[t].change][q] = row[q].version
    BY <1>1, <1>3 DEF taken, ReadStands, Matches
  <2>2. UNCHANGED <<row, base>>
    BY <1>1 DEF editVars, storeVars, reviewVars, changeVars
  <2>3. ASSUME NEW u \in Rollouts, Running(u)'
        PROVE  \A q \in DOMAIN rollout'[u].read :
                 /\ rollout'[u].read[q] = row[q] /\ row[q].live
                 /\ rollout'[u].kind = "promote" =>
                      base[rollout'[u].change][q] = row[q].version
    <3>1. CASE u = t
      <4>1. rollout'[u] = next
        BY <1>5, <3>1
      <4>2. /\ rollout'[u].read = taken /\ rollout'[u].kind = rollout[t].kind
            /\ rollout'[u].change = rollout[t].change
        BY <1>4, <4>1
      <4>. QED
        BY <2>1, <4>2
    <3>2. CASE u # t
      BY <1>5, <2>3, <3>2 DEF ReadStands, Running
    <3>. QED
      BY <3>1, <3>2
  <2>. QED
    BY <2>2, <2>3 DEF ReadStands
<1>. QED
  BY <1>6, <1>7, <1>8, <1>9, <1>10, <1>11

\* A rollout that ends, by commit or not, gives back its locks and no other's.
LEMMA EndReleases ==
  ASSUME RolloutInv, NEW t \in Rollouts, lock' = Released(t),
         rollout' = [rollout EXCEPT ![t] = NoRollout]
  PROVE  /\ \A u \in Rollouts : Running(u)' => u # t /\ Running(u) /\ rollout'[u] = rollout[u]
         /\ LocksHeld'
         /\ lock' \in [Policies \cup Changes -> Rollouts \cup {Nobody}]
         /\ rollout' \in [Rollouts -> RolloutRecord]
<1>. USE DEF RolloutInv
<1>1. \A u \in Rollouts : rollout'[u] = IF u = t THEN NoRollout ELSE rollout[u]
  BY DEF StoreTypes
<1>2. \A u \in Rollouts : Running(u)' => u # t /\ Running(u) /\ rollout'[u] = rollout[u]
  BY <1>1, NoRolloutIdle DEF Running
<1>3. lock' \in [Policies \cup Changes -> Rollouts \cup {Nobody}]
  BY DEF StoreTypes, Released
<1>4. LocksHeld'
  BY <1>2, RunningType DEF LocksHeld, StoreTypes, Released
<1>5. rollout' \in [Rollouts -> RolloutRecord]
  BY NoRolloutIdle DEF StoreTypes
<1>. QED
  BY <1>2, <1>3, <1>4, <1>5

LEMMA AbandonKeeps ==
  ASSUME RolloutInv, NEW t \in Rollouts, Abandon(t)
  PROVE  RolloutInv'
<1>1. UNCHANGED <<editVars, reviewVars, promotions>>
  BY DEF Abandon
<1>2. /\ \A u \in Rollouts : Running(u)' => u # t /\ Running(u) /\ rollout'[u] = rollout[u]
      /\ LocksHeld' /\ lock' \in [Policies \cup Changes -> Rollouts \cup {Nobody}]
      /\ rollout' \in [Rollouts -> RolloutRecord]
  BY EndReleases DEF Abandon
<1>3. EditorTypes' /\ ReviewerTypes' /\ SnapshotsComplete' /\ StoreTypes'
  BY <1>1, <1>2 DEF RolloutInv, EditorTypes, ReviewerTypes, SnapshotsComplete, StoreTypes,
     editVars, storeVars, reviewVars, changeVars
<1>4. WholeChange' /\ StatusHeld' /\ ReadStands'
  BY <1>1, <1>2 DEF RolloutInv, WholeChange, StatusHeld, ReadStands,
     editVars, storeVars, reviewVars, changeVars
<1>. QED
  BY <1>2, <1>3, <1>4 DEF RolloutInv

\* What the saves of a commit write.
LEMMA SaveAllWrites ==
  ASSUME RolloutInv, NEW t \in Rollouts, Running(t), NEW contents, SaveAll(t, contents),
         contents \in [DOMAIN rollout[t].read -> Content]
  PROVE  /\ row' \in [Policies -> Row]
         /\ \A p \in Policies :
              row'[p] = IF p \in DOMAIN rollout[t].read
                        THEN [live |-> TRUE, version |-> row[p].version + 1,
                              content |-> contents[p]]
                        ELSE row[p]
<1>1. \A p \in Policies : row[p] \in Row /\ row[p].version + 1 \in Nat
  BY DEF RolloutInv, StoreTypes, Row
<1>2. row' = [p \in Policies |-> IF p \in DOMAIN rollout[t].read
                THEN [live |-> TRUE, version |-> row[p].version + 1, content |-> contents[p]]
                ELSE row[p]]
  BY RunningType DEF SaveAll
<1>. QED
  BY <1>1, <1>2 DEF Row

\* A commit leaves the other rollouts' change sets and policies alone.
LEMMA CommitApart ==
  ASSUME RolloutInv, NEW t \in Rollouts, Running(t), NEW u \in Rollouts \ {t}, Running(u)
  PROVE  /\ rollout[u].change # rollout[t].change
         /\ \A p \in DOMAIN rollout[u].read : p \in Policies \ DOMAIN rollout[t].read
BY RunningType DEF RolloutInv, LocksHeld

LEMMA CommitKeeps ==
  ASSUME RolloutInv, NEW t \in Rollouts, Running(t), NEW contents,
         contents \in [DOMAIN rollout[t].read -> Content],
         SaveAll(t, contents), Publish(t),
         NEW s \in {"promoted", "rolled_back"},
         status' = [status EXCEPT ![rollout[t].change] = s],
         NEW shot \in OnSome(Content),
         snapshots' = [snapshots EXCEPT ![rollout[t].change] = shot],
         s = "promoted" => DOMAIN shot = Edited(rollout[t].change),
         promotions' \in [Changes -> Nat], created' \in [Changes -> Int]
  PROVE  RolloutInv'
<1>. DEFINE c == rollout[t].change
<1>1. c \in Changes
  BY RunningType
<1>2. /\ row' \in [Policies -> Row]
      /\ \A p \in Policies \ DOMAIN rollout[t].read : row'[p] = row[p]
  BY SaveAllWrites
<1>3. /\ \A u \in Rollouts : Running(u)' => u # t /\ Running(u) /\ rollout'[u] = rollout[u]
      /\ LocksHeld' /\ lock' \in [Policies \cup Changes -> Rollouts \cup {Nobody}]
      /\ rollout' \in [Rollouts -> RolloutRecord]
  BY EndReleases DEF Publish
<1>4. UNCHANGED <<editor, edits, base, acked, reviewer, drafted>>
  BY DEF Publish
<1>5. EditorTypes'
  BY <1>4 DEF RolloutInv, EditorTypes
<1>6. StoreTypes' /\ SnapshotsComplete'
  BY <1>1, <1>2, <1>3, <1>4 DEF RolloutInv, StoreTypes, SnapshotsComplete, Statuses
<1>7. ReviewerTypes'
  BY <1>1, <1>4 DEF RolloutInv, ReviewerTypes, StoreTypes
<1>8. WholeChange'
  BY <1>3 DEF RolloutInv, WholeChange
<1>9. StatusHeld'
  <2>. SUFFICES ASSUME NEW u \in Rollouts, Running(u)'
                PROVE  status'[rollout'[u].change] =
                         IF rollout'[u].kind = "promote" THEN "approved" ELSE "promoted"
    BY DEF StatusHeld
  <2>1. /\ u # t /\ Running(u) /\ rollout'[u] = rollout[u]
        /\ rollout[u].change \in Changes \ {c}
    BY <1>3, CommitApart, RunningType
  <2>. QED
    BY <1>1, <2>1 DEF RolloutInv, StatusHeld, StoreTypes
<1>10. ReadStands'
  <2>1. ASSUME NEW u \in Rollouts, Running(u)', NEW p \in DOMAIN rollout'[u].read
        PROVE  /\ rollout'[u].read[p] = row'[p] /\ row'[p].live
               /\ rollout'[u].kind = "promote" =>
                    base'[rollout'[u].change][p] = row'[p].version
    <3>1. u # t /\ Running(u) /\ rollout'[u] = rollout[u]
      BY <1>3, <2>1
    <3>2. p \in DOMAIN rollout[u].read /\ row'[p] = row[p]
      BY <1>2, <2>1, <3>1, CommitApart
    <3>. QED
      BY <1>4, <2>1, <3>1, <3>2 DEF RolloutInv, ReadStands
  <2>. QED
    BY <2>1 DEF ReadStands
<1>. QED
  BY <1>3, <1>5, <1>6, <1>7, <1>8, <1>9, <1>10 DEF RolloutInv

LEMMA CommitPromotionKeeps ==
  ASSUME RolloutInv, NEW t \in Rollouts, CommitPromotion(t)
  PROVE  /\ RolloutInv'
         /\ DOMAIN rollout[t].read = Edited(rollout[t].change)
<1>. DEFINE c == rollout[t].change
            read == rollout[t].read
            contents == [p \in DOMAIN read |-> [read[p].content EXCEPT !.config = c]]
            shot == [p \in DOMAIN read |-> read[p].content]
<1>1. /\ Running(t) /\ rollout[t].todo = <<>> /\ SaveAll(t, contents) /\ Publish(t)
      /\ status' = [status EXCEPT ![c] = "promoted"]
      /\ snapshots' = [snapshots EXCEPT ![c] = shot]
      /\ promotions' = [promotions EXCEPT ![c] = @ + 1]
      /\ created' = [created EXCEPT ![c] = @ + Adds(c)]
  BY DEF CommitPromotion, Ready, Running
<1>2. c \in Changes /\ DOMAIN read \subseteq Policies /\ read \in [DOMAIN read -> Row]
  BY <1>1, RunningType
<1>3. DOMAIN read = Edited(c)
  BY <1>1, NothingRead DEF RolloutInv, WholeChange
<1>4. contents \in [DOMAIN read -> Content]
  BY <1>2 DEF Row, Content
<1>5. shot \in [DOMAIN read -> Content] /\ DOMAIN shot = Edited(c)
  BY <1>2, <1>3 DEF Row
<1>6. shot \in OnSome(Content)
  BY <1>2, <1>5, OnSomeType
<1>7. promotions' \in [Changes -> Nat]
  BY <1>1, <1>2 DEF RolloutInv, StoreTypes
<1>8. created' \in [Changes -> Int]
  BY <1>1, <1>2 DEF RolloutInv, StoreTypes, Adds
<1>. HIDE DEF contents, shot
<1>. QED
  BY <1>1, <1>3, <1>4, <1>5, <1>6, <1>7, <1>8, CommitKeeps

LEMMA CommitRollbackKeeps ==
  ASSUME RolloutInv, NEW t \in Rollouts, CommitRollback(t)
  PROVE  /\ RolloutInv'
         /\ DOMAIN rollout[t].read = Edited(rollout[t].change)
         /\ snapshots[rollout[t].change] \in [DOMAIN rollout[t].read -> Content]
<1>. DEFINE c == rollout[t].change
            read == rollout[t].read
<1>1. /\ Running(t) /\ rollout[t].todo = <<>> /\ rollout[t].kind = "rollback"
      /\ SaveAll(t, snapshots[c]) /\ Publish(t)
      /\ status' = [status EXCEPT ![c] = "rolled_back"]
      /\ created' = [created EXCEPT ![c] = @ - Adds(c)]
      /\ UNCHANGED <<snapshots, promotions>>
  BY DEF CommitRollback, Ready, Running
<1>2. c \in Changes
  BY <1>1, RunningType
<1>3. DOMAIN read = Edited(c)
  BY <1>1, NothingRead DEF RolloutInv, WholeChange
<1>4. snapshots[c] \in OnSome(Content) /\ snapshots \in [Changes -> OnSome(Content)]
  BY <1>2 DEF RolloutInv, StoreTypes
<1>5. DOMAIN snapshots[c] = Edited(c)
  BY <1>1, <1>2 DEF RolloutInv, StatusHeld, SnapshotsComplete
<1>6. snapshots[c] \in [DOMAIN read -> Content]
  BY <1>3, <1>4, <1>5, OnSomeType
<1>7. snapshots' = [snapshots EXCEPT ![c] = snapshots[c]]
  BY <1>1, <1>4
<1>8. created' \in [Changes -> Int] /\ promotions' \in [Changes -> Nat]
  BY <1>1, <1>2 DEF RolloutInv, StoreTypes, Adds
<1>. QED
  BY <1>1, <1>3, <1>4, <1>6, <1>7, <1>8, CommitKeeps

LEMMA RolloutStepKeeps ==
  ASSUME RolloutInv, NEW t \in Rollouts, RolloutStep(t)
  PROVE  RolloutInv'
<1>1. ASSUME NEW c \in Changes, BeginPromotion(t, c) \/ BeginRollback(t, c)
      PROVE  RolloutInv'
  BY <1>1, StartKeeps DEF BeginPromotion, BeginRollback
<1>2. Refuse(t) \/ Fail(t) => Abandon(t)
  BY DEF Refuse, Fail
<1>. QED
  BY <1>1, <1>2, LockKeeps, AbandonKeeps, CommitPromotionKeeps, CommitRollbackKeeps
     DEF RolloutStep

LEMMA EditorStepKeeps ==
  ASSUME RolloutInv, NEW e \in Editors, EditorStep(e)
  PROVE  RolloutInv'
BY EditorWrites, EditorTypesKept, UnlockedWrite

LEMMA RolloutInductive == RolloutInv /\ [Next]_vars => RolloutInv'
<1>. SUFFICES ASSUME RolloutInv, [Next]_vars PROVE RolloutInv'
  OBVIOUS
<1>1. CASE UNCHANGED vars
  BY <1>1 DEF RolloutInv, StoreTypes, EditorTypes, ReviewerTypes, WholeChange, LocksHeld,
     StatusHeld, ReadStands, SnapshotsComplete, Running, vars, editVars, storeVars,
     reviewVars, changeVars, rolloutVars
<1>2. CASE Next
  BY <1>2, EditorStepKeeps, DraftKeeps, ReviewKeeps, TransitionKeeps, RolloutStepKeeps
     DEF Next
<1>. QED
  BY <1>1, <1>2

LEMMA RolloutInvariance == Spec => []RolloutInv
BY RolloutInit, RolloutInductive, PTL DEF Spec

-----------------------------------------------------------------------------
(***************************************************************************)
(* Every step is one of ChangeSets, or none.                               *)
(***************************************************************************)
LEMMA EditorRefines ==
  ASSUME RolloutInv, NEW e \in Editors, EditorStep(e)
  PROVE  [Promise!Next]_(Promise!vars)
<1>1. PICK p \in Policies : \A q \in Policies : row'[q] # row[q] => q = p
  BY EditorWrites
<1>2. UNCHANGED <<status, base, snapshots, created>>
  BY EditorWrites DEF reviewVars, changeVars
<1>3. Promise!Edit(p)
  BY <1>1, <1>2 DEF Promise!Edit
<1>. QED
  BY <1>3 DEF Promise!Next

LEMMA ReviewRefines ==
  ASSUME RolloutInv, NEW r \in Reviewers, NEW s \in Statuses, Transition(r, s)
  PROVE  [Promise!Next]_(Promise!vars)
<1>. DEFINE c == reviewer[r].change
<1>1. /\ c \in Changes /\ status[c] # "absent"
      /\ s \in {"validated", "staged", "approved", "rejected"}
  BY TransitionKeeps
<1>2. /\ status' = [status EXCEPT ![c] = s]
      /\ snapshots' = [snapshots EXCEPT ![c] = reviewer[r].snapshots]
      /\ UNCHANGED <<row, base, created>>
  BY DEF Transition, editVars, storeVars
<1>3. Promise!Review(c)
  BY <1>1, <1>2 DEF Promise!Review, RolloutInv, StoreTypes
<1>. QED
  BY <1>1, <1>3 DEF Promise!Next

LEMMA PromotionRefines ==
  ASSUME RolloutInv, NEW t \in Rollouts, CommitPromotion(t)
  PROVE  [Promise!Next]_(Promise!vars)
<1>. DEFINE c == rollout[t].change
            read == rollout[t].read
            contents == [p \in DOMAIN read |-> [read[p].content EXCEPT !.config = c]]
<1>1. /\ Running(t) /\ rollout[t].kind = "promote" /\ SaveAll(t, contents) /\ Publish(t)
      /\ status' = [status EXCEPT ![c] = "promoted"]
      /\ snapshots' = [snapshots EXCEPT ![c] = [p \in DOMAIN read |-> read[p].content]]
      /\ created' = [created EXCEPT ![c] = @ + Adds(c)]
  BY DEF CommitPromotion, Ready, Running
<1>2. c \in Changes /\ DOMAIN read \subseteq Policies /\ read \in [DOMAIN read -> Row]
  BY <1>1, RunningType
<1>3. DOMAIN read = Edited(c)
  BY CommitPromotionKeeps
<1>4. contents \in [DOMAIN read -> Content] /\ \A p \in DOMAIN read : contents[p].config = c
  BY <1>2 DEF Row, Content
<1>. HIDE DEF contents
<1>5. \A p \in Policies :
        row'[p] = IF p \in DOMAIN read
                  THEN [live |-> TRUE, version |-> row[p].version + 1,
                        content |-> contents[p]]
                  ELSE row[p]
  BY <1>1, <1>4, SaveAllWrites
<1>6. /\ status[c] = "approved"
      /\ \A p \in DOMAIN read :
           read[p] = row[p] /\ row[p].live /\ row[p].version = base[c][p]
  BY <1>1 DEF RolloutInv, StatusHeld, ReadStands
<1>7. snapshots' = [snapshots EXCEPT ![c] = [p \in Edited(c) |-> row[p].content]]
  <2>. HIDE DEF c, read
  <2>1. \A p \in Edited(c) : read[p].content = row[p].content
    BY <1>3, <1>6
  <2>2. [p \in DOMAIN read |-> read[p].content] = [p \in Edited(c) |-> row[p].content]
    BY <1>3, <2>1
  <2>3. snapshots' = [snapshots EXCEPT ![c] = [p \in DOMAIN read |-> read[p].content]]
    BY <1>1
  <2>. QED
    BY <2>2, <2>3, Zenon
<1>8. Promise!Edited(c) = Edited(c) /\ Promise!Adds(c) = Adds(c)
  BY DEF Promise!Edited, Edited, Promise!Adds, Adds, Promise!Range, Range
<1>9. \A p \in Policies :
        IF p \in Edited(c)
        THEN row'[p].live /\ row'[p].version = row[p].version + 1 /\ row'[p].content.config = c
        ELSE row'[p] = row[p]
  <2>. SUFFICES ASSUME NEW p \in Policies
                PROVE  IF p \in Edited(c)
                       THEN /\ row'[p].live /\ row'[p].version = row[p].version + 1
                            /\ row'[p].content.config = c
                       ELSE row'[p] = row[p]
    OBVIOUS
  <2>1. CASE p \in Edited(c)
    <3>1. p \in DOMAIN read /\ contents[p].config = c
      BY <1>3, <1>4, <2>1
    <3>2. row'[p] = [live |-> TRUE, version |-> row[p].version + 1, content |-> contents[p]]
      BY <1>5, <3>1
    <3>. QED
      BY <2>1, <3>1, <3>2
  <2>2. CASE p \notin Edited(c)
    BY <1>3, <1>5, <2>2
  <2>. QED
    BY <2>1, <2>2
<1>10. UNCHANGED base
  BY <1>1 DEF Publish
<1>11. Promise!Promote(c)
  BY <1>1, <1>3, <1>6, <1>7, <1>8, <1>9, <1>10 DEF Promise!Promote
<1>. QED
  BY <1>2, <1>11 DEF Promise!Next

LEMMA RollbackRefines ==
  ASSUME RolloutInv, NEW t \in Rollouts, CommitRollback(t)
  PROVE  [Promise!Next]_(Promise!vars)
<1>. DEFINE c == rollout[t].change
            read == rollout[t].read
<1>1. /\ Running(t) /\ rollout[t].kind = "rollback" /\ SaveAll(t, snapshots[c]) /\ Publish(t)
      /\ status' = [status EXCEPT ![c] = "rolled_back"]
      /\ created' = [created EXCEPT ![c] = @ - Adds(c)]
      /\ UNCHANGED <<snapshots, promotions>>
  BY DEF CommitRollback, Ready, Running
<1>2. c \in Changes
  BY <1>1, RunningType
<1>3. DOMAIN read = Edited(c) /\ snapshots[c] \in [DOMAIN read -> Content]
  BY CommitRollbackKeeps
<1>4. Promise!Edited(c) = Edited(c) /\ Promise!Adds(c) = Adds(c)
  BY DEF Promise!Edited, Edited, Promise!Adds, Adds, Promise!Range, Range
<1>5. row' = [p \in Policies |->
                IF p \in Edited(c)
                THEN [live |-> TRUE, version |-> row[p].version + 1,
                      content |-> snapshots[c][p]]
                ELSE row[p]]
  BY <1>1, <1>3, SaveAllWrites
<1>6. status[c] = "promoted"
  BY <1>1 DEF RolloutInv, StatusHeld
<1>7. UNCHANGED base
  BY <1>1 DEF Publish
<1>8. Promise!RollBack(c)
  BY <1>1, <1>4, <1>5, <1>6, <1>7 DEF Promise!RollBack
<1>. QED
  BY <1>2, <1>8 DEF Promise!Next

LEMMA StepRefines == RolloutInv /\ [Next]_vars => [Promise!Next]_(Promise!vars)
<1>. SUFFICES ASSUME RolloutInv, [Next]_vars PROVE [Promise!Next]_(Promise!vars)
  OBVIOUS
<1>. USE DEF Promise!vars
<1>1. CASE UNCHANGED vars
  BY <1>1 DEF vars, editVars, storeVars, reviewVars, changeVars
<1>2. ASSUME NEW c \in Changes, Draft(c) PROVE [Promise!Next]_(Promise!vars)
  <2>1. Promise!Draft(c)
    BY <1>2 DEF Draft, Promise!Draft, editVars, storeVars
  <2>. QED
    BY <2>1 DEF Promise!Next
<1>3. ASSUME NEW c \in Changes, Acknowledge(c) PROVE [Promise!Next]_(Promise!vars)
  BY <1>3 DEF Acknowledge, editVars, storeVars
<1>4. ASSUME NEW r \in Reviewers, NEW c \in Changes, ReadChange(r, c)
      PROVE  [Promise!Next]_(Promise!vars)
  BY <1>4 DEF ReadChange, editVars, storeVars, changeVars
<1>5. ASSUME NEW t \in Rollouts, RolloutStep(t) PROVE [Promise!Next]_(Promise!vars)
  <2>1. CASE CommitPromotion(t) \/ CommitRollback(t)
    BY <2>1, PromotionRefines, RollbackRefines
  <2>. QED
    BY <1>5, <2>1 DEF RolloutStep, BeginPromotion, BeginRollback, Start, LockPolicy,
       Refuse, Fail, Abandon, editVars, storeVars, reviewVars, changeVars
<1>. QED
  BY <1>1, <1>2, <1>3, <1>4, <1>5, EditorRefines, ReviewRefines DEF Next

\* A promotion or a rollback takes effect at one instant, on all of its policies
\* or on none, and only from the state it was reviewed in, whoever edits,
\* reviews, promotes or fails meanwhile (services/policy_rollout.py).
THEOREM RolloutsAreAtomic == Spec => AtomicRollouts
<1>1. Init => Promise!Init
  BY DEF Init, Promise!Init, NoSnapshots
<1>. QED
  BY <1>1, RolloutInvariance, StepRefines, PTL DEF Spec, AtomicRollouts, Promise!Spec

-----------------------------------------------------------------------------
(***************************************************************************)
(* Edits.  What holds of a policy that is not torn: no edit of it          *)
(* overlapped another write.                                               *)
(***************************************************************************)
Busy(e, p) == editor[e].stage # "idle" /\ editor[e].policy = p
Writing(e, p) == editor[e].stage \in {"bumped", "refreshed"} /\ editor[e].policy = p
Unrecorded(e, p) == editor[e].stage = "saved" /\ editor[e].policy = p

\* A toggle holds the content as it is, and a refreshed object its version.
ObjectCurrent(p) ==
  \A e \in Editors :
    /\ /\ editor[e].stage \in {"read", "bumped", "refreshed"}
       /\ editor[e].policy = p /\ editor[e].op = "toggle"
       => editor[e].row.content = row[p].content
    /\ editor[e].stage = "refreshed" /\ editor[e].policy = p =>
         row[p].live /\ editor[e].row.version = row[p].version

OneWriter(p) ==
  row[p].live => \A e, f \in Editors : Writing(e, p) /\ Writing(f, p) => e = f

\* A version that is being written is new: no draft saw it, no revision has it
\* and no editor is about to record it.
VersionNew(p) ==
  \A e \in Editors : row[p].live /\ Writing(e, p) =>
    /\ \A c \in Changes : status[c] # "absent" /\ p \in Edited(c) =>
         base[c][p] < row[p].version
    /\ \A x \in revisions[p] : x.version < row[p].version
    /\ \A f \in Editors : Unrecorded(f, p) => editor[f].row.version < row[p].version

\* Those that are still to record a version record different ones.
UnrecordedApart(p) ==
  \A e \in Editors : row[p].live /\ Unrecorded(e, p) =>
    /\ editor[e].row.version <= row[p].version
    /\ \A x \in revisions[p] : x.version # editor[e].row.version
    /\ \A f \in Editors \ {e} :
         Unrecorded(f, p) => editor[f].row.version # editor[e].row.version

RevisionsBounded(p) ==
  row[p].live => \A x \in revisions[p] : x.version <= row[p].version

\* The current version is recorded, being written, or about to be recorded.
Recorded(p) ==
  row[p].live =>
    \/ [version |-> row[p].version, content |-> row[p].content] \in revisions[p]
    \/ \E e \in Editors :
         \/ Writing(e, p)
         \/ /\ Unrecorded(e, p) /\ editor[e].row.version = row[p].version
            /\ Intended(e) = row[p].content

\* A policy stays as an author was shown it while its version does, and a
\* promotion has left that version behind.
DraftBound(p) ==
  \A c \in Changes : status[c] # "absent" /\ p \in Edited(c) =>
    /\ base[c][p] <= row[p].version
    /\ base[c][p] = row[p].version => row[p].content = drafted[c][p]
    /\ promotions[c] > 0 => base[c][p] < row[p].version

PolicyInv(p) ==
  /\ ObjectCurrent(p)
  /\ OneWriter(p)
  /\ VersionNew(p)
  /\ UnrecordedApart(p)
  /\ RevisionsBounded(p)
  /\ Recorded(p)
  /\ DraftBound(p)

UndraftedUnpromoted == \A c \in Changes : status[c] = "absent" => promotions[c] = 0

RevisionTypes ==
  revisions \in [Policies -> SUBSET [version : Nat, content : Content]]

DraftedTypes == drafted \in [Changes -> [Policies -> Content]]

HistoryInv ==
  /\ RevisionTypes
  /\ DraftedTypes
  /\ UndraftedUnpromoted
  /\ \A p \in Policies \ torn : PolicyInv(p)

IInv == RolloutInv /\ HistoryInv /\ AppliedOnce

\* The policies in force are those of the model, and their parts numbers.
LEMMA PolicyTypes ==
  ASSUME RolloutInv, NEW p \in Policies
  PROVE  /\ row[p] \in Row /\ row[p].version \in Nat /\ row[p].content \in Content
         /\ \A c \in Changes : base[c][p] \in Nat /\ promotions[c] \in Nat
         /\ \A e \in Editors : editor[e] \in EditorRecord /\ editor[e].row.version \in Nat
BY DEF RolloutInv, StoreTypes, EditorTypes, EditorRecord, Row

LEMMA NotHalfWritten ==
  ASSUME NEW who, NEW p, p \notin HalfWritten(who)
  PROVE  \A f \in who : editor[f].policy = p =>
           /\ editor[f].stage \notin {"bumped", "refreshed"}
           /\ editor[f].stage = "read" => editor[f].op # "toggle"
BY DEF HalfWritten

LEMMA HistoryInit == Init => HistoryInv
<1>. SUFFICES ASSUME Init PROVE HistoryInv
  OBVIOUS
<1>1. \A e \in Editors : editor[e].stage = "idle"
  BY NoEditType DEF Init
<1>2. RevisionTypes /\ DraftedTypes /\ UndraftedUnpromoted
  BY DEF Init, RevisionTypes, DraftedTypes, UndraftedUnpromoted, Content, Original
<1>3. ASSUME NEW p \in Policies PROVE PolicyInv(p)
  BY <1>1 DEF Init, PolicyInv, ObjectCurrent, OneWriter, VersionNew, UnrecordedApart,
     RevisionsBounded, Recorded, DraftBound, Writing, Unrecorded
<1>. QED
  BY <1>2, <1>3 DEF HistoryInv

\* A step that writes nothing of the policy, and that no editor of the policy
\* takes, leaves what holds of it.
LEMMA PolicyApart ==
  ASSUME NEW p \in Policies, PolicyInv(p), row'[p] = row[p], revisions'[p] = revisions[p],
         \A e \in Editors : editor'[e] = editor[e] \/ (~Busy(e, p) /\ ~Busy(e, p)'),
         \A c \in Changes : p \in Edited(c) =>
           /\ base'[c] = base[c] /\ drafted'[c] = drafted[c] /\ promotions'[c] = promotions[c]
           /\ status[c] = "absent" => status'[c] = "absent"
  PROVE  PolicyInv(p)'
<1>1. \A e \in Editors :
        /\ Writing(e, p)' => Writing(e, p) /\ editor'[e] = editor[e]
        /\ Unrecorded(e, p)' => Unrecorded(e, p) /\ editor'[e] = editor[e]
        /\ Writing(e, p) => Writing(e, p)'
        /\ Unrecorded(e, p) => Unrecorded(e, p)' /\ editor'[e] = editor[e]
  BY DEF Writing, Unrecorded, Busy
<1>2. ObjectCurrent(p)'
  BY DEF PolicyInv, ObjectCurrent, Busy
<1>3. OneWriter(p)'
  BY <1>1 DEF PolicyInv, OneWriter
<1>4. VersionNew(p)'
  BY <1>1 DEF PolicyInv, VersionNew
<1>5. UnrecordedApart(p)'
  BY <1>1 DEF PolicyInv, UnrecordedApart
<1>6. RevisionsBounded(p)'
  BY DEF PolicyInv, RevisionsBounded
<1>7. Recorded(p)'
  <2>1. CASE \E e \in Editors : Writing(e, p)
    BY <1>1, <2>1 DEF PolicyInv, Recorded
  <2>2. ASSUME NEW e \in Editors, Unrecorded(e, p), editor[e].row.version = row[p].version,
               Intended(e) = row[p].content
        PROVE  Recorded(p)'
    <3>1. Unrecorded(e, p)' /\ editor'[e] = editor[e]
      BY <1>1, <2>2
    <3>2. Intended(e)' = Intended(e)
      BY <3>1 DEF Intended
    <3>. QED
      BY <2>2, <3>1, <3>2 DEF Recorded
  <2>. QED
    BY <2>1, <2>2 DEF PolicyInv, Recorded
<1>8. DraftBound(p)'
  BY DEF PolicyInv, DraftBound
<1>. QED
  BY <1>2, <1>3, <1>4, <1>5, <1>6, <1>7, <1>8 DEF PolicyInv

(***************************************************************************)
(* One lemma per action: what it does to the policy it is about, provided  *)
(* that is not torn afterwards.                                            *)
(***************************************************************************)
LEMMA FetchHistory ==
  ASSUME RolloutInv, NEW e \in Editors, NEW op \in {"update", "toggle", "delete"},
         NEW edit \in Edits, Fetch(e, op, edit), NEW p \in Policies, PolicyInv(p)
  PROVE  PolicyInv(p)'
<1>. DEFINE held == [stage |-> "read", op |-> op, policy |-> Target[edit],
                     row |-> row[Target[edit]], edit |-> edit]
<1>1. /\ UNCHANGED <<row, revisions, status, base, drafted, promotions>>
      /\ editor[e].stage = "idle" /\ editor' = [editor EXCEPT ![e] = held]
  BY DEF Fetch, storeVars, reviewVars, changeVars, rolloutVars
<1>2. CASE p # Target[edit]
  <2>1. \A f \in Editors : editor'[f] = editor[f] \/ (~Busy(f, p) /\ ~Busy(f, p)')
    BY <1>1, <1>2, PolicyTypes DEF Busy, RolloutInv, EditorTypes
  <2>. QED
    BY <1>1, <2>1, PolicyApart
<1>3. CASE p = Target[edit]
  <2>1. \A f \in Editors \ {e} : editor'[f] = editor[f]
    BY <1>1
  <2>2. editor'[e] = held
    BY <1>1 DEF RolloutInv, EditorTypes
  <2>3. \A f \in Editors :
          /\ Writing(f, p)' => Writing(f, p) /\ editor'[f] = editor[f]
          /\ Unrecorded(f, p)' => Unrecorded(f, p) /\ editor'[f] = editor[f]
          /\ Writing(f, p) => Writing(f, p)'
          /\ Unrecorded(f, p) => Unrecorded(f, p)' /\ editor'[f] = editor[f]
    BY <1>1, <2>1, <2>2 DEF Writing, Unrecorded
  <2>4. ObjectCurrent(p)'
    BY <1>1, <1>3, <2>1, <2>2 DEF PolicyInv, ObjectCurrent
  <2>5. OneWriter(p)' /\ VersionNew(p)' /\ RevisionsBounded(p)' /\ DraftBound(p)'
    BY <1>1, <2>3 DEF PolicyInv, OneWriter, VersionNew, RevisionsBounded, DraftBound
  <2>6. UnrecordedApart(p)'
    BY <1>1, <2>3 DEF PolicyInv, UnrecordedApart
  <2>7. Recorded(p)'
    <3>1. \A f \in Editors : Unrecorded(f, p) => Intended(f)' = Intended(f)
      BY <2>3 DEF Intended
    <3>. QED
      BY <1>1, <2>3, <3>1 DEF PolicyInv, Recorded
  <2>. QED
    BY <2>4, <2>5, <2>6, <2>7 DEF PolicyInv
<1>. QED
  BY <1>2, <1>3

\* The other steps of an editor are about the policy it holds.
LEMMA EditorApart ==
  ASSUME RolloutInv, RevisionTypes, NEW e \in Editors,
         Bump(e) \/ Refresh(e) \/ Save(e) \/ Revise(e) \/ Delete(e),
         NEW p \in Policies, editor[e].policy # p, PolicyInv(p)
  PROVE  PolicyInv(p)'
<1>. DEFINE q == editor[e].policy
<1>1. q \in Policies
  BY DEF Bump, Refresh, Save, Revise, Delete, RolloutInv, EditorTypes
<1>2. UNCHANGED <<status, base, drafted, promotions>>
  BY DEF Bump, Refresh, Save, Revise, Delete, reviewVars, changeVars, rolloutVars
<1>3. \A f \in Editors \ {e} : editor'[f] = editor[f]
  BY DEF Bump, Refresh, Save, Revise, Delete, RolloutInv, EditorTypes
<1>4. editor'[e].stage = "idle" \/ editor'[e].policy = q
  <2>1. CASE editor' = [editor EXCEPT ![e] = NoEdit]
    BY <2>1, NoEditType DEF RolloutInv, EditorTypes
  <2>2. ASSUME NEW stage, editor' = [editor EXCEPT ![e].stage = stage]
        PROVE  editor'[e].policy = q
    BY <2>2 DEF RolloutInv, EditorTypes, EditorRecord
  <2>3. CASE Refresh(e) /\ row[q].live
    BY <1>1, <2>3, PolicyTypes, RefreshedType DEF Refresh, RolloutInv, EditorTypes
  <2>. QED
    BY <2>1, <2>2, <2>3 DEF Bump, Refresh, Save, Revise, Delete
<1>5. row'[p] = row[p]
  <2>1. Bump(e) \/ Save(e) \/ Delete(e) => row'[p] = row[p]
    BY <1>1 DEF Bump, Save, Delete, RolloutInv, StoreTypes
  <2>. QED
    BY <2>1 DEF Refresh, Revise, storeVars
<1>6. revisions'[p] = revisions[p]
  BY <1>1 DEF Bump, Refresh, Save, Revise, Delete, storeVars, RevisionTypes
<1>. QED
  BY <1>2, <1>3, <1>4, <1>5, <1>6, PolicyApart DEF Busy

LEMMA BumpHistory ==
  ASSUME RolloutInv, RevisionTypes, NEW e \in Editors, Bump(e), NEW p \in Policies, editor[e].policy = p,
         PolicyInv(p), p \notin torn'
  PROVE  PolicyInv(p)'
<1>1. /\ UNCHANGED <<revisions, status, base, drafted, promotions>>
      /\ editor[e].stage = "read" /\ editor' = [editor EXCEPT ![e].stage = "bumped"]
      /\ row' = [row EXCEPT ![p].version = IF row[p].live THEN @ + 1 ELSE @]
  BY DEF Bump, reviewVars, changeVars, rolloutVars
<1>2. \A f \in Editors \ {e} : editor'[f] = editor[f]
  BY <1>1
<1>3. /\ editor'[e].stage = "bumped" /\ editor'[e].policy = p
      /\ editor'[e].op = editor[e].op /\ editor'[e].row = editor[e].row
  BY <1>1 DEF RolloutInv, EditorTypes, EditorRecord
<1>4. \A f \in Editors \ {e} : editor[f].policy = p =>
        /\ editor[f].stage \notin {"bumped", "refreshed"}
        /\ editor[f].stage = "read" => editor[f].op # "toggle"
  BY NotHalfWritten DEF Bump
<1>5. /\ row'[p].live = row[p].live /\ row'[p].content = row[p].content
      /\ row'[p].version = IF row[p].live THEN row[p].version + 1 ELSE row[p].version
  BY <1>1, PolicyTypes DEF RolloutInv, StoreTypes, Row
<1>6. \A f \in Editors :
        /\ Writing(f, p)' <=> f = e
        /\ Unrecorded(f, p)' <=> Unrecorded(f, p)
        /\ Unrecorded(f, p) => editor'[f] = editor[f]
  BY <1>1, <1>2, <1>3, <1>4 DEF Writing, Unrecorded
<1>7. ObjectCurrent(p)'
  BY <1>1, <1>2, <1>3, <1>4, <1>5 DEF PolicyInv, ObjectCurrent
<1>8. OneWriter(p)' /\ Recorded(p)'
  BY <1>6 DEF OneWriter, Recorded
<1>9. VersionNew(p)' /\ DraftBound(p)'
  <2>1. DraftBound(p)'
    BY <1>1, <1>5, PolicyTypes DEF PolicyInv, DraftBound
  <2>2. VersionNew(p)'
    BY <1>1, <1>5, <1>6, PolicyTypes
       DEF PolicyInv, VersionNew, DraftBound, RevisionsBounded, UnrecordedApart,
       RevisionTypes
  <2>. QED
    BY <2>1, <2>2
<1>10. UnrecordedApart(p)' /\ RevisionsBounded(p)'
  BY <1>1, <1>5, <1>6, PolicyTypes
     DEF PolicyInv, UnrecordedApart, RevisionsBounded, RevisionTypes
<1>. QED
  BY <1>7, <1>8, <1>9, <1>10 DEF PolicyInv

LEMMA RefreshHistory ==
  ASSUME RolloutInv, RevisionTypes, NEW e \in Editors, Refresh(e), NEW p \in Policies,
         editor[e].policy = p, PolicyInv(p)
  PROVE  PolicyInv(p)'
<1>1. /\ UNCHANGED <<row, revisions, status, base, drafted, promotions>>
      /\ editor[e].stage = "bumped"
      /\ \A f \in Editors \ {e} : editor'[f] = editor[f]
  BY DEF Refresh, storeVars, reviewVars, changeVars, rolloutVars, RolloutInv, EditorTypes
<1>2. CASE ~row[p].live
  <2>1. editor'[e].stage = "idle"
    <3>1. editor' = [editor EXCEPT ![e] = NoEdit]
      BY <1>2 DEF Refresh
    <3>2. editor \in [Editors -> EditorRecord]
      BY DEF RolloutInv, EditorTypes
    <3>. QED
      BY <3>1, <3>2, NoEditType
  <2>2. ObjectCurrent(p)'
    BY <1>1, <2>1 DEF PolicyInv, ObjectCurrent
  <2>3. DraftBound(p)'
    BY <1>1 DEF PolicyInv, DraftBound
  <2>. QED
    BY <1>1, <1>2, <2>2, <2>3 DEF PolicyInv, OneWriter, VersionNew, UnrecordedApart,
       RevisionsBounded, Recorded
<1>3. CASE row[p].live
  <2>1. editor' = [editor EXCEPT ![e] = [editor[e] EXCEPT !.stage = "refreshed",
                                           !.row.version = row[p].version]]
    BY <1>3 DEF Refresh
  <2>2. /\ editor'[e].stage = "refreshed" /\ editor'[e].policy = p
        /\ editor'[e].op = editor[e].op
        /\ editor'[e].row = [editor[e].row EXCEPT !.version = row[p].version]
    <3>. DEFINE next == [editor[e] EXCEPT !.stage = "refreshed",
                                          !.row.version = row[p].version]
    <3>1. /\ next.stage = "refreshed" /\ next.policy = editor[e].policy
          /\ next.op = editor[e].op
          /\ next.row = [editor[e].row EXCEPT !.version = row[p].version]
      <4>1. editor[e] \in EditorRecord /\ row[p].version \in Nat
        BY PolicyTypes
      <4>. QED
        BY <4>1, RefreshedType
    <3>. HIDE DEF next
    <3>2. editor' = [editor EXCEPT ![e] = next] /\ DOMAIN editor = Editors
      BY <2>1 DEF next, RolloutInv, EditorTypes
    <3>. QED
      BY <3>1, <3>2
  <2>3. editor'[e].row.version = row[p].version /\ editor'[e].row.content = editor[e].row.content
    BY <2>2, PolicyTypes DEF EditorRecord, Row
  <2>4. \A f \in Editors :
          /\ Writing(f, p)' <=> Writing(f, p)
          /\ Unrecorded(f, p)' => Unrecorded(f, p) /\ editor'[f] = editor[f]
          /\ Unrecorded(f, p) => Unrecorded(f, p)' /\ editor'[f] = editor[f]
    BY <1>1, <2>2 DEF Writing, Unrecorded
  <2>5. ObjectCurrent(p)'
    <3>1. ObjectCurrent(p) /\ row'[p] = row[p]
      BY <1>1 DEF PolicyInv
    <3>2. editor[e].op = "toggle" => editor[e].row.content = row[p].content
      BY <1>1, <3>1 DEF ObjectCurrent
    <3>3. ASSUME NEW f \in Editors
          PROVE  /\ /\ editor'[f].stage \in {"read", "bumped", "refreshed"}
                    /\ editor'[f].policy = p /\ editor'[f].op = "toggle"
                    => editor'[f].row.content = row[p].content
                 /\ editor'[f].stage = "refreshed" /\ editor'[f].policy = p =>
                      row[p].live /\ editor'[f].row.version = row[p].version
      <4>1. CASE f = e
        BY <1>3, <2>2, <2>3, <3>2, <4>1
      <4>2. CASE f # e
        BY <1>1, <3>1, <4>2 DEF ObjectCurrent
      <4>. QED
        BY <4>1, <4>2
    <3>. QED
      BY <3>1, <3>3 DEF ObjectCurrent
  <2>6. OneWriter(p)' /\ VersionNew(p)' /\ RevisionsBounded(p)' /\ DraftBound(p)'
    BY <1>1, <2>4 DEF PolicyInv, OneWriter, VersionNew, RevisionsBounded, DraftBound
  <2>7. UnrecordedApart(p)'
    BY <1>1, <2>4 DEF PolicyInv, UnrecordedApart
  <2>8. Recorded(p)'
    <3>1. Writing(e, p)'
      BY <2>2 DEF Writing
    <3>. QED
      BY <3>1 DEF Recorded
  <2>. QED
    BY <2>5, <2>6, <2>7, <2>8 DEF PolicyInv
<1>. QED
  BY <1>2, <1>3

\* A save that nothing overlapped writes what its object says, under the
\* version it raised.
LEMMA SaveWrites ==
  ASSUME RolloutInv, NEW e \in Editors, Save(e), NEW p \in Policies,
         editor[e].policy = p, PolicyInv(p), p \notin torn'
  PROVE  /\ row'[p].live /\ row'[p].version = row[p].version /\ row[p].live
         /\ row'[p].content = Intended(e) /\ editor[e].row.version = row[p].version
         /\ editor' = [editor EXCEPT ![e].stage = "saved"]
<1>1. /\ editor[e].stage = "refreshed" /\ row[p].live
      /\ editor[e].row.version = row[p].version
      /\ editor[e].op = "toggle" => editor[e].row.content = row[p].content
  BY DEF Save, PolicyInv, ObjectCurrent
<1>2. CASE editor[e].op = "update"
  <2>1. row' = [row EXCEPT ![p] = [live |-> TRUE, version |-> editor[e].row.version,
                                   content |-> Intended(e)]]
    BY <1>2 DEF Save
  <2>2. row'[p] = [live |-> TRUE, version |-> editor[e].row.version, content |-> Intended(e)]
    BY <2>1 DEF RolloutInv, StoreTypes
  <2>. QED
    BY <1>1, <1>2, <2>2 DEF Save
<1>3. CASE editor[e].op = "toggle"
  <2>1. row' = [row EXCEPT ![p].content.on = Intended(e).on]
    BY <1>1, <1>3 DEF Save
  <2>2. row[p] \in Row /\ row[p].content \in Content
    BY PolicyTypes
  <2>3. Intended(e) = [row[p].content EXCEPT !.on = ~row[p].content.on]
    BY <1>1, <1>3 DEF Intended
  <2>4. row'[p].content = [row[p].content EXCEPT !.on = Intended(e).on]
        /\ row'[p].live = row[p].live /\ row'[p].version = row[p].version
    BY <2>1, <2>2 DEF RolloutInv, StoreTypes, Row
  <2>5. [row[p].content EXCEPT !.on = Intended(e).on] = Intended(e)
    BY <2>2, <2>3 DEF Content
  <2>. QED
    BY <1>1, <1>3, <2>4, <2>5 DEF Save
<1>. QED
  BY <1>2, <1>3 DEF Save

LEMMA SaveHistory ==
  ASSUME RolloutInv, RevisionTypes, NEW e \in Editors, Save(e), NEW p \in Policies,
         editor[e].policy = p, PolicyInv(p), p \notin torn'
  PROVE  PolicyInv(p)'
<1>1. UNCHANGED <<revisions, status, base, drafted, promotions>>
  BY DEF Save, reviewVars, changeVars, rolloutVars
<1>2. /\ row'[p].live /\ row'[p].version = row[p].version /\ row[p].live
      /\ row'[p].content = Intended(e) /\ editor[e].row.version = row[p].version
      /\ editor' = [editor EXCEPT ![e].stage = "saved"]
  BY SaveWrites
<1>3. \A f \in Editors \ {e} : editor'[f] = editor[f]
  BY <1>2 DEF RolloutInv, EditorTypes
<1>4. /\ editor'[e].stage = "saved" /\ editor'[e].policy = p /\ editor'[e].op = editor[e].op
      /\ editor'[e].row = editor[e].row /\ editor'[e].edit = editor[e].edit
  BY <1>2 DEF RolloutInv, EditorTypes, EditorRecord
<1>5. \A f \in Editors \ {e} : editor[f].policy = p =>
        /\ editor[f].stage \notin {"bumped", "refreshed"}
        /\ editor[f].stage = "read" => editor[f].op # "toggle"
  BY NotHalfWritten DEF Save
<1>6. /\ \A f \in Editors : ~Writing(f, p)'
      /\ \A f \in Editors : Unrecorded(f, p)' => f = e \/ (Unrecorded(f, p) /\ editor'[f] = editor[f])
      /\ Writing(e, p)
  BY <1>3, <1>4, <1>5 DEF Writing, Unrecorded, Save
<1>7. ObjectCurrent(p)'
  BY <1>3, <1>4, <1>5 DEF ObjectCurrent
<1>8. OneWriter(p)' /\ VersionNew(p)'
  BY <1>6 DEF OneWriter, VersionNew
<1>9. UnrecordedApart(p)' /\ RevisionsBounded(p)'
  <2>1. /\ \A x \in revisions[p] : x.version < row[p].version /\ x.version \in Nat
        /\ \A f \in Editors : Unrecorded(f, p) => editor[f].row.version < row[p].version
    BY <1>2, <1>6 DEF PolicyInv, VersionNew, RevisionTypes
  <2>2. UnrecordedApart(p)'
    BY <1>1, <1>2, <1>3, <1>4, <1>6, <2>1, PolicyTypes DEF PolicyInv, UnrecordedApart
  <2>. QED
    BY <1>1, <1>2, <2>1, <2>2, PolicyTypes DEF RevisionsBounded
<1>10. Recorded(p)'
  <2>1. Intended(e)' = Intended(e) /\ Unrecorded(e, p)'
    BY <1>4 DEF Intended, Unrecorded
  <2>. QED
    BY <1>2, <1>4, <2>1 DEF Recorded
<1>11. DraftBound(p)'
  <2>1. \A c \in Changes : status[c] # "absent" /\ p \in Edited(c) => base[c][p] < row[p].version
    BY <1>2, <1>6 DEF PolicyInv, VersionNew
  <2>. QED
    BY <1>1, <1>2, <2>1, PolicyTypes DEF DraftBound
<1>. QED
  BY <1>7, <1>8, <1>9, <1>10, <1>11 DEF PolicyInv

LEMMA ReviseHistory ==
  ASSUME RolloutInv, RevisionTypes, NEW e \in Editors, Revise(e), NEW p \in Policies,
         editor[e].policy = p, PolicyInv(p)
  PROVE  PolicyInv(p)'
<1>. DEFINE new == [version |-> editor[e].row.version, content |-> Intended(e)]
<1>1. /\ UNCHANGED <<row, status, base, drafted, promotions>>
      /\ Unrecorded(e, p) /\ editor' = [editor EXCEPT ![e] = NoEdit]
  BY DEF Revise, reviewVars, changeVars, rolloutVars, Unrecorded
<1>2. /\ \A f \in Editors \ {e} : editor'[f] = editor[f]
      /\ editor'[e].stage = "idle"
  BY <1>1, NoEditType DEF RolloutInv, EditorTypes
<1>3. \A f \in Editors :
        /\ Writing(f, p)' <=> Writing(f, p)
        /\ Writing(f, p) => editor'[f] = editor[f]
        /\ Unrecorded(f, p)' <=> Unrecorded(f, p) /\ f # e
        /\ Unrecorded(f, p) /\ f # e => editor'[f] = editor[f]
  BY <1>1, <1>2 DEF Writing, Unrecorded
<1>4. ObjectCurrent(p)'
  BY <1>1, <1>2 DEF PolicyInv, ObjectCurrent
<1>5. OneWriter(p)' /\ DraftBound(p)'
  BY <1>1, <1>3 DEF PolicyInv, OneWriter, DraftBound
<1>6. CASE ~row[p].live
  BY <1>1, <1>4, <1>5, <1>6 DEF PolicyInv, VersionNew, UnrecordedApart,
     RevisionsBounded, Recorded
<1>7. CASE row[p].live
  <2>1. revisions'[p] = revisions[p] \cup {new}
    <3>1. revisions'[p] = Revised(p, editor[e].row.version, Intended(e))
      BY <1>7 DEF Revise, RevisionTypes
    <3>2. \A x \in revisions[p] : x.version # editor[e].row.version
      BY <1>1, <1>7 DEF PolicyInv, UnrecordedApart
    <3>. QED
      BY <3>1, <3>2 DEF Revised
  <2>2. new.version <= row[p].version
    BY <1>1, <1>7 DEF PolicyInv, UnrecordedApart
  <2>3. VersionNew(p)'
    BY <1>1, <1>3, <1>7, <2>1 DEF PolicyInv, VersionNew
  <2>4. UnrecordedApart(p)'
    BY <1>1, <1>3, <1>7, <2>1 DEF PolicyInv, UnrecordedApart
  <2>5. RevisionsBounded(p)'
    BY <1>1, <2>1, <2>2 DEF PolicyInv, RevisionsBounded
  <2>6. Recorded(p)'
    <3>1. \A f \in Editors : Unrecorded(f, p) /\ f # e => Intended(f)' = Intended(f)
      BY <1>3 DEF Intended
    <3>. QED
      BY <1>1, <1>3, <1>7, <2>1, <3>1 DEF PolicyInv, Recorded
  <2>. QED
    BY <1>4, <1>5, <2>3, <2>4, <2>5, <2>6 DEF PolicyInv
<1>. QED
  BY <1>6, <1>7

LEMMA DeleteHistory ==
  ASSUME RolloutInv, NEW e \in Editors, Delete(e), NEW p \in Policies,
         editor[e].policy = p, PolicyInv(p), p \notin torn'
  PROVE  PolicyInv(p)'
<1>1. /\ UNCHANGED <<status, base, drafted, promotions>>
      /\ editor' = [editor EXCEPT ![e] = NoEdit] /\ row' = [row EXCEPT ![p].live = FALSE]
  BY DEF Delete, reviewVars, changeVars, rolloutVars
<1>2. /\ \A f \in Editors \ {e} : editor'[f] = editor[f]
      /\ editor'[e].stage = "idle"
  BY <1>1, NoEditType DEF RolloutInv, EditorTypes
<1>3. \A f \in Editors \ {e} : editor[f].policy = p =>
        /\ editor[f].stage \notin {"bumped", "refreshed"}
        /\ editor[f].stage = "read" => editor[f].op # "toggle"
  BY NotHalfWritten DEF Delete
<1>4. /\ ~row'[p].live /\ row'[p].version = row[p].version
      /\ row'[p].content = row[p].content
  BY <1>1, PolicyTypes DEF RolloutInv, StoreTypes, Row
<1>5. ObjectCurrent(p)'
  BY <1>2, <1>3 DEF ObjectCurrent
<1>6. DraftBound(p)'
  BY <1>1, <1>4 DEF PolicyInv, DraftBound
<1>. QED
  BY <1>4, <1>5, <1>6 DEF PolicyInv, OneWriter, VersionNew, UnrecordedApart,
     RevisionsBounded, Recorded

LEMMA DraftHistory ==
  ASSUME RolloutInv, UndraftedUnpromoted, DraftedTypes, NEW c \in Changes, Draft(c), NEW p \in Policies,
         PolicyInv(p), p \notin torn'
  PROVE  PolicyInv(p)'
<1>1. /\ status[c] = "absent" /\ status' = [status EXCEPT ![c] = "draft"]
      /\ base' = [base EXCEPT ![c] = [q \in Policies |-> row[q].version]]
      /\ drafted' = [drafted EXCEPT ![c] = [q \in Policies |-> row[q].content]]
      /\ UNCHANGED <<row, revisions, editor, promotions>>
  BY DEF Draft, editVars, storeVars, rolloutVars
<1>2. \A d \in Changes \ {c} :
        status'[d] = status[d] /\ base'[d] = base[d] /\ drafted'[d] = drafted[d]
  BY <1>1
<1>3. CASE p \notin Edited(c)
  BY <1>1, <1>2, <1>3, PolicyApart
<1>4. CASE p \in Edited(c)
  <2>1. \A e \in Editors : ~Writing(e, p)
    BY <1>4, NotHalfWritten DEF Draft, Writing
  <2>2. ObjectCurrent(p)' /\ UnrecordedApart(p)' /\ RevisionsBounded(p)'
    BY <1>1 DEF PolicyInv, ObjectCurrent, UnrecordedApart, RevisionsBounded, Unrecorded
  <2>3. OneWriter(p)' /\ VersionNew(p)'
    BY <1>1, <2>1 DEF OneWriter, VersionNew, Writing
  <2>4. Recorded(p)'
    BY <1>1 DEF PolicyInv, Recorded, Writing, Unrecorded, Intended
  <2>5. DraftBound(p)'
    <3>1. base'[c][p] = row[p].version /\ promotions[c] = 0
      BY <1>1, PolicyTypes DEF RolloutInv, StoreTypes, UndraftedUnpromoted
    <3>2. p \in Policies /\ \A d \in Changes \ {c} : status'[d] # "absent" => status[d] # "absent"
      BY <1>2
    <3>3. drafted'[c][p] = row[p].content
      BY <1>1 DEF DraftedTypes
    <3>. QED
      BY <1>1, <1>2, <3>1, <3>2, <3>3, PolicyTypes DEF PolicyInv, DraftBound
  <2>. QED
    BY <2>2, <2>3, <2>4, <2>5 DEF PolicyInv
<1>. QED
  BY <1>3, <1>4

\* A commit writes all the policies it holds under new versions.
LEMMA CommitHistory ==
  ASSUME RolloutInv, RevisionTypes, NEW t \in Rollouts, Running(t), NEW contents,
         contents \in [DOMAIN rollout[t].read -> Content],
         SaveAll(t, contents), Publish(t),
         Edited(rollout[t].change) = DOMAIN rollout[t].read,
         \A c \in Changes \ {rollout[t].change} :
           promotions'[c] = promotions[c] /\ status'[c] = status[c],
         status[rollout[t].change] # "absent",
         NEW p \in Policies, PolicyInv(p), p \notin torn'
  PROVE  PolicyInv(p)'
<1>1. UNCHANGED <<editor, base, drafted>>
  BY DEF Publish
<1>2. row'[p] = IF p \in DOMAIN rollout[t].read
                THEN [live |-> TRUE, version |-> row[p].version + 1, content |-> contents[p]]
                ELSE row[p]
  BY SaveAllWrites
<1>3. CASE p \notin DOMAIN rollout[t].read
  <2>1. revisions'[p] = revisions[p]
    BY <1>3 DEF SaveAll
  <2>. QED
    BY <1>1, <1>2, <1>3, <2>1, PolicyApart
<1>4. CASE p \in DOMAIN rollout[t].read
  <2>. DEFINE new == [version |-> row[p].version + 1, content |-> contents[p]]
  <2>1. /\ row'[p].live /\ row'[p].version = row[p].version + 1
        /\ row'[p].content = contents[p] /\ row[p].live
    BY <1>2, <1>4 DEF RolloutInv, ReadStands
  <2>2. \A e \in Editors : editor[e].policy = p =>
          /\ editor[e].stage \notin {"bumped", "refreshed"}
          /\ editor[e].stage = "read" => editor[e].op # "toggle"
    BY <1>4, NotHalfWritten DEF SaveAll
  <2>3. \A x \in revisions[p] : x.version \in Nat /\ x.version <= row[p].version
    BY <2>1 DEF PolicyInv, RevisionsBounded, RevisionTypes
  <2>4. revisions'[p] = revisions[p] \cup {new}
    <3>1. revisions'[p] = Revised(p, row[p].version + 1, contents[p])
      BY <1>4 DEF SaveAll
    <3>2. \A x \in revisions[p] : x.version # row[p].version + 1
      BY <2>3, PolicyTypes
    <3>. QED
      BY <3>1, <3>2 DEF Revised
  <2>5. ObjectCurrent(p)' /\ OneWriter(p)' /\ VersionNew(p)'
    BY <1>1, <2>2 DEF ObjectCurrent, OneWriter, VersionNew, Writing
  <2>6. UnrecordedApart(p)'
    BY <1>1, <2>1, <2>3, <2>4, PolicyTypes DEF PolicyInv, UnrecordedApart, Unrecorded
  <2>7. RevisionsBounded(p)'
    BY <2>1, <2>3, <2>4, PolicyTypes DEF RevisionsBounded
  <2>8. Recorded(p)'
    BY <2>1, <2>4 DEF Recorded
  <2>9. DraftBound(p)'
    BY <1>1, <2>1, PolicyTypes DEF PolicyInv, DraftBound
  <2>. QED
    BY <2>5, <2>6, <2>7, <2>8, <2>9 DEF PolicyInv
<1>. QED
  BY <1>3, <1>4

\* What both kinds of commit give the lemma above.
LEMMA CommitFacts ==
  ASSUME RolloutInv, NEW t \in Rollouts, CommitPromotion(t) \/ CommitRollback(t)
  PROVE  /\ Running(t) /\ Publish(t) /\ rollout[t].change \in Changes
         /\ \E contents \in [DOMAIN rollout[t].read -> Content] : SaveAll(t, contents)
         /\ Edited(rollout[t].change) = DOMAIN rollout[t].read
         /\ \A c \in Changes \ {rollout[t].change} :
              promotions'[c] = promotions[c] /\ status'[c] = status[c]
         /\ status[rollout[t].change] # "absent" /\ status'[rollout[t].change] # "absent"
<1>. DEFINE c == rollout[t].change
            read == rollout[t].read
<1>1. Running(t) /\ Publish(t) /\ c \in Changes
  BY RunningType DEF CommitPromotion, CommitRollback, Ready, Running
<1>2. Edited(c) = DOMAIN read
  BY CommitPromotionKeeps, CommitRollbackKeeps
<1>3. \E contents \in [DOMAIN read -> Content] : SaveAll(t, contents)
  <2>1. CASE CommitRollback(t)
    BY <2>1, CommitRollbackKeeps DEF CommitRollback
  <2>2. CASE CommitPromotion(t)
    <3>. DEFINE contents == [p \in DOMAIN read |-> [read[p].content EXCEPT !.config = c]]
    <3>1. contents \in [DOMAIN read -> Content]
      <4>1. read \in [DOMAIN read -> Row]
        BY <1>1, RunningType
      <4>. QED
        BY <1>1, <4>1 DEF Row, Content
    <3>2. SaveAll(t, contents)
      BY <2>2 DEF CommitPromotion
    <3>. QED
      BY <3>1, <3>2
  <2>. QED
    BY <2>1, <2>2
<1>4. status[c] # "absent"
  BY <1>1 DEF RolloutInv, StatusHeld
<1>5. /\ \A d \in Changes \ {c} : promotions'[d] = promotions[d] /\ status'[d] = status[d]
      /\ status'[c] # "absent"
  BY <1>1 DEF CommitPromotion, CommitRollback, RolloutInv, StoreTypes
<1>. QED
  BY <1>1, <1>2, <1>3, <1>4, <1>5

LEMMA RevisionTypesKept ==
  ASSUME RolloutInv, RevisionTypes, [Next]_vars
  PROVE  RevisionTypes'
<1>1. ASSUME NEW p \in Policies, NEW version \in Nat, NEW content \in Content
      PROVE  Revised(p, version, content) \subseteq [version : Nat, content : Content]
  BY <1>1 DEF Revised, RevisionTypes
<1>2. ASSUME NEW e \in Editors, Revise(e) PROVE RevisionTypes'
  <2>1. /\ editor[e].policy \in Policies /\ editor[e].row.version \in Nat
        /\ Intended(e) \in Content
    BY <1>2, IntendedType DEF Revise, RolloutInv, EditorTypes, EditorRecord, Row
  <2>. QED
    BY <1>1, <1>2, <2>1 DEF Revise, RevisionTypes
<1>3. ASSUME NEW e \in Editors, Delete(e) PROVE RevisionTypes'
  BY <1>3 DEF Delete, RevisionTypes
<1>4. ASSUME NEW t \in Rollouts, CommitPromotion(t) \/ CommitRollback(t)
      PROVE  RevisionTypes'
  <2>1. PICK contents \in [DOMAIN rollout[t].read -> Content] : SaveAll(t, contents)
    BY <1>4, CommitFacts
  <2>2. revisions' = [p \in Policies |->
                        IF p \in DOMAIN rollout[t].read
                        THEN Revised(p, row[p].version + 1, contents[p])
                        ELSE revisions[p]]
    BY <2>1 DEF SaveAll
  <2>. QED
    BY <1>1, <2>1, <2>2, PolicyTypes DEF RevisionTypes
<1>5. UNCHANGED revisions => RevisionTypes'
  BY DEF RevisionTypes
<1>6. [Next]_vars =>
        \/ UNCHANGED revisions
        \/ \E e \in Editors : Revise(e) \/ Delete(e)
        \/ \E t \in Rollouts : CommitPromotion(t) \/ CommitRollback(t)
  BY DEF Next, EditorStep, RolloutStep, Fetch, Bump, Refresh, Save, Draft, Acknowledge,
     ReadChange, Transition, BeginPromotion, BeginRollback, Start, LockPolicy, Refuse, Fail,
     Abandon, vars, editVars, storeVars
<1>. QED
  BY <1>2, <1>3, <1>4, <1>5, <1>6

LEMMA UndraftedKept ==
  ASSUME RolloutInv, UndraftedUnpromoted, [Next]_vars
  PROVE  /\ UndraftedUnpromoted'
         /\ \A c \in Changes : status[c] # "absent" => status'[c] # "absent"
<1>1. ASSUME NEW t \in Rollouts, CommitPromotion(t) \/ CommitRollback(t)
      PROVE  \A c \in Changes :
               /\ status'[c] = "absent" => promotions'[c] = 0
               /\ status[c] # "absent" => status'[c] # "absent"
  BY <1>1, CommitFacts DEF UndraftedUnpromoted
<1>2. ASSUME NEW r \in Reviewers, NEW s \in Statuses, Transition(r, s)
      PROVE  \A c \in Changes :
               /\ status'[c] = "absent" => promotions'[c] = 0
               /\ status[c] # "absent" => status'[c] # "absent"
  BY <1>2, TransitionKeeps
     DEF Transition, rolloutVars, UndraftedUnpromoted, RolloutInv, StoreTypes
<1>3. ASSUME NEW c \in Changes, Draft(c)
      PROVE  \A d \in Changes :
               /\ status'[d] = "absent" => promotions'[d] = 0
               /\ status[d] # "absent" => status'[d] # "absent"
  BY <1>3 DEF Draft, rolloutVars, UndraftedUnpromoted, RolloutInv, StoreTypes
<1>4. UNCHANGED <<status, promotions>> =>
        \A c \in Changes :
          /\ status'[c] = "absent" => promotions'[c] = 0
          /\ status[c] # "absent" => status'[c] # "absent"
  BY DEF UndraftedUnpromoted
<1>5. [Next]_vars =>
        \/ UNCHANGED <<status, promotions>>
        \/ \E t \in Rollouts : CommitPromotion(t) \/ CommitRollback(t)
        \/ \E r \in Reviewers, s \in Statuses : Transition(r, s)
        \/ \E c \in Changes : Draft(c)
  BY DEF Next, EditorStep, RolloutStep, Fetch, Bump, Refresh, Save, Revise, Delete,
     Acknowledge, ReadChange, BeginPromotion, BeginRollback, Start, LockPolicy, Refuse, Fail,
     Abandon, vars, reviewVars, changeVars, rolloutVars
<1>. QED
  BY <1>1, <1>2, <1>3, <1>4, <1>5 DEF UndraftedUnpromoted

LEMMA DraftedTypesKept ==
  ASSUME RolloutInv, DraftedTypes, [Next]_vars
  PROVE  DraftedTypes'
<1>1. ASSUME NEW c \in Changes, Draft(c) PROVE DraftedTypes'
  BY <1>1, PolicyTypes DEF Draft, DraftedTypes
<1>2. UNCHANGED drafted => DraftedTypes'
  BY DEF DraftedTypes
<1>3. [Next]_vars => UNCHANGED drafted \/ \E c \in Changes : Draft(c)
  BY DEF Next, EditorStep, RolloutStep, Fetch, Bump, Refresh, Save, Revise, Delete,
     Acknowledge, ReadChange, Transition, BeginPromotion, BeginRollback, Start, LockPolicy,
     Refuse, Fail, Abandon, CommitPromotion, CommitRollback, Publish, vars, reviewVars
<1>. QED
  BY <1>1, <1>2, <1>3

LEMMA TornGrows == [Next]_vars => torn \subseteq torn'
BY DEF Next, EditorStep, RolloutStep, Fetch, Bump, Refresh, Save, Revise, Delete, Draft,
   Acknowledge, ReadChange, Transition, BeginPromotion, BeginRollback, Start, LockPolicy,
   Refuse, Fail, Abandon, CommitPromotion, CommitRollback, SaveAll, vars

LEMMA EditorHistory ==
  ASSUME RolloutInv, RevisionTypes, NEW e \in Editors, EditorStep(e),
         NEW p \in Policies, PolicyInv(p), p \notin torn'
  PROVE  PolicyInv(p)'
<1>1. ASSUME NEW op \in {"update", "toggle", "delete"}, NEW edit \in Edits,
             Fetch(e, op, edit)
      PROVE  PolicyInv(p)'
  BY <1>1, FetchHistory
<1>2. ASSUME Bump(e) \/ Refresh(e) \/ Save(e) \/ Revise(e) \/ Delete(e)
      PROVE  PolicyInv(p)'
  <2>1. CASE editor[e].policy # p
    BY <1>2, <2>1, EditorApart
  <2>2. CASE editor[e].policy = p
    BY <1>2, <2>2, BumpHistory, RefreshHistory, SaveHistory, ReviseHistory, DeleteHistory
  <2>. QED
    BY <2>1, <2>2
<1>. QED
  BY <1>1, <1>2 DEF EditorStep

\* Only an edit, a draft and a commit touch what a policy's history is about.
LEMMA QuietRollout ==
  ASSUME NEW t \in Rollouts, RolloutStep(t), ~CommitPromotion(t), ~CommitRollback(t)
  PROVE  UNCHANGED <<row, revisions, editor, base, drafted, promotions, status>>
<1>1. ASSUME NEW c \in Changes, NEW kind, Start(t, c, kind)
      PROVE  UNCHANGED <<row, revisions, editor, base, drafted, promotions, status>>
  BY <1>1 DEF Start, editVars, storeVars, reviewVars, changeVars
<1>2. ASSUME NEW c \in Changes, BeginPromotion(t, c) \/ BeginRollback(t, c)
      PROVE  UNCHANGED <<row, revisions, editor, base, drafted, promotions, status>>
  BY <1>1, <1>2 DEF BeginPromotion, BeginRollback
<1>3. CASE LockPolicy(t)
  BY <1>3 DEF LockPolicy, editVars, storeVars, reviewVars, changeVars
<1>4. CASE Refuse(t)
  BY <1>4 DEF Refuse, Abandon, editVars, storeVars, reviewVars, changeVars
<1>5. CASE Fail(t)
  BY <1>5 DEF Fail, Abandon, editVars, storeVars, reviewVars, changeVars
<1>. QED
  BY <1>2, <1>3, <1>4, <1>5 DEF RolloutStep

LEMMA QuietReview ==
  ASSUME \/ \E c \in Changes : Acknowledge(c)
         \/ \E r \in Reviewers, c \in Changes : ReadChange(r, c)
         \/ \E r \in Reviewers, s \in Statuses : Transition(r, s)
         \/ UNCHANGED vars
  PROVE  /\ UNCHANGED <<row, revisions, editor, base, drafted, promotions>>
         /\ UNCHANGED status \/ \E r \in Reviewers, s \in Statuses : Transition(r, s)
<1>1. ASSUME NEW c \in Changes, Acknowledge(c)
      PROVE  UNCHANGED <<row, revisions, editor, base, drafted, promotions, status>>
  BY <1>1 DEF Acknowledge, editVars, storeVars, rolloutVars
<1>2. ASSUME NEW r \in Reviewers, NEW c \in Changes, ReadChange(r, c)
      PROVE  UNCHANGED <<row, revisions, editor, base, drafted, promotions, status>>
  BY <1>2 DEF ReadChange, editVars, storeVars, changeVars, rolloutVars
<1>3. ASSUME NEW r \in Reviewers, NEW s \in Statuses, Transition(r, s)
      PROVE  UNCHANGED <<row, revisions, editor, base, drafted, promotions>>
  BY <1>3 DEF Transition, editVars, storeVars, rolloutVars
<1>4. CASE UNCHANGED vars
  BY <1>4 DEF vars, editVars, storeVars, reviewVars, changeVars, rolloutVars
<1>. QED
  BY <1>1, <1>2, <1>3, <1>4

LEMMA PolicyKept ==
  ASSUME RolloutInv, HistoryInv, [Next]_vars, NEW p \in Policies, p \notin torn'
  PROVE  PolicyInv(p)'
<1>1. PolicyInv(p) /\ RevisionTypes /\ DraftedTypes /\ UndraftedUnpromoted
  BY TornGrows DEF HistoryInv
<1>2. ASSUME NEW e \in Editors, EditorStep(e) PROVE PolicyInv(p)'
  BY <1>1, <1>2, EditorHistory
<1>3. ASSUME NEW c \in Changes, Draft(c) PROVE PolicyInv(p)'
  BY <1>1, <1>3, DraftHistory
<1>4. ASSUME NEW t \in Rollouts, CommitPromotion(t) \/ CommitRollback(t)
      PROVE  PolicyInv(p)'
  <2>1. PICK contents \in [DOMAIN rollout[t].read -> Content] : SaveAll(t, contents)
    BY <1>4, CommitFacts
  <2>. QED
    BY <1>1, <1>4, <2>1, CommitFacts, CommitHistory
<1>5. CASE /\ UNCHANGED <<row, revisions, editor, base, drafted, promotions>>
           /\ UNCHANGED status \/ \E r \in Reviewers, s \in Statuses : Transition(r, s)
  <2>1. \A c \in Changes : status[c] = "absent" => status'[c] = "absent"
    <3>1. CASE UNCHANGED status
      BY <3>1
    <3>2. ASSUME NEW r \in Reviewers, NEW s \in Statuses, Transition(r, s)
          PROVE  \A c \in Changes : status[c] = "absent" => status'[c] = "absent"
      <4>1. status' = [status EXCEPT ![reviewer[r].change] = s]
        BY <3>2 DEF Transition
      <4>2. status \in [Changes -> Statuses] /\ status[reviewer[r].change] # "absent"
        BY <3>2, TransitionKeeps DEF RolloutInv, StoreTypes
      <4>. QED
        BY <4>1, <4>2
    <3>. QED
      BY <1>5, <3>1, <3>2
  <2>. QED
    BY <1>1, <1>5, <2>1, PolicyApart
<1>6. [Next]_vars =>
        \/ /\ UNCHANGED <<row, revisions, editor, base, drafted, promotions>>
           /\ UNCHANGED status \/ \E r \in Reviewers, s \in Statuses : Transition(r, s)
        \/ \E e \in Editors : EditorStep(e)
        \/ \E c \in Changes : Draft(c)
        \/ \E t \in Rollouts : CommitPromotion(t) \/ CommitRollback(t)
  <2>. SUFFICES ASSUME [Next]_vars,
                       ~\E e \in Editors : EditorStep(e), ~\E c \in Changes : Draft(c),
                       ~\E t \in Rollouts : CommitPromotion(t) \/ CommitRollback(t)
                PROVE  /\ UNCHANGED <<row, revisions, editor, base, drafted, promotions>>
                       /\ \/ UNCHANGED status
                          \/ \E r \in Reviewers, s \in Statuses : Transition(r, s)
    OBVIOUS
  <2>1. CASE \E t \in Rollouts : RolloutStep(t)
    <3>1. PICK t \in Rollouts : RolloutStep(t)
      BY <2>1
    <3>2. UNCHANGED <<row, revisions, editor, base, drafted, promotions, status>>
      BY <3>1, QuietRollout
    <3>. QED
      BY <3>2
  <2>2. CASE ~\E t \in Rollouts : RolloutStep(t)
    <3>1. \/ \E c \in Changes : Acknowledge(c)
          \/ \E r \in Reviewers, c \in Changes : ReadChange(r, c)
          \/ \E r \in Reviewers, s \in Statuses : Transition(r, s)
          \/ UNCHANGED vars
      BY <2>2 DEF Next
    <3>. QED
      BY <3>1, QuietReview
  <2>. QED
    BY <2>1, <2>2
<1>. QED
  BY <1>2, <1>3, <1>4, <1>5, <1>6

LEMMA HistoryKept ==
  ASSUME RolloutInv, HistoryInv, [Next]_vars
  PROVE  HistoryInv'
<1>1. RevisionTypes' /\ DraftedTypes' /\ UndraftedUnpromoted'
  BY RevisionTypesKept, DraftedTypesKept, UndraftedKept DEF HistoryInv
<1>2. \A p \in Policies \ torn' : PolicyInv(p)'
  BY PolicyKept
<1>. QED
  BY <1>1, <1>2 DEF HistoryInv

\* What a promotion finds of a policy no edit overlaps: its version is the one
\* drafted against, so that the change set has not been promoted before and the
\* content is the one its author was shown.
LEMMA PromotionFinds ==
  ASSUME RolloutInv, HistoryInv, NEW t \in Rollouts, CommitPromotion(t),
         torn \subseteq torn'
  PROVE  LET c == rollout[t].change IN
         /\ c \in Changes /\ promotions' = [promotions EXCEPT ![c] = @ + 1]
         /\ \A p \in Edited(c) \ torn' :
              promotions[c] = 0 /\ row[p].content = drafted[c][p]
<1>. DEFINE c == rollout[t].change
            read == rollout[t].read
<1>1. /\ Running(t) /\ c \in Changes /\ Edited(c) = DOMAIN read /\ status[c] # "absent"
      /\ DOMAIN read \subseteq Policies
  BY CommitFacts, RunningType
<1>2. rollout[t].kind = "promote" /\ promotions' = [promotions EXCEPT ![c] = @ + 1]
  BY DEF CommitPromotion, Ready
<1>3. \A p \in DOMAIN read : base[c][p] = row[p].version
  BY <1>1, <1>2 DEF RolloutInv, ReadStands
<1>4. ASSUME NEW p \in Edited(c) \ torn'
      PROVE  promotions[c] = 0 /\ row[p].content = drafted[c][p]
  <2>1. p \in Policies \ torn /\ base[c][p] = row[p].version
    BY <1>1, <1>3, <1>4
  <2>2. promotions[c] \in Nat /\ row[p].version \in Nat
    BY <1>1, <2>1, PolicyTypes
  <2>. QED
    BY <1>1, <1>4, <2>1, <2>2 DEF HistoryInv, PolicyInv, DraftBound
<1>. QED
  BY <1>1, <1>2, <1>4

\* Only the commit of a promotion counts one.
LEMMA PromotionsCounted ==
  ASSUME [Next]_vars
  PROVE  UNCHANGED promotions \/ \E t \in Rollouts : CommitPromotion(t)
BY DEF Next, EditorStep, RolloutStep, Fetch, Bump, Refresh, Save, Revise, Delete, Draft,
   Acknowledge, ReadChange, Transition, BeginPromotion, BeginRollback, Start, LockPolicy,
   Refuse, Fail, Abandon, CommitRollback, vars, rolloutVars

LEMMA AppliedOnceKept ==
  ASSUME IInv, [Next]_vars
  PROVE  AppliedOnce'
<1>1. torn \subseteq torn'
  BY TornGrows
<1>2. CASE UNCHANGED promotions
  BY <1>1, <1>2 DEF IInv, AppliedOnce
<1>3. ASSUME NEW t \in Rollouts, CommitPromotion(t) PROVE AppliedOnce'
  <2>. DEFINE c == rollout[t].change
  <2>1. /\ c \in Changes /\ promotions' = [promotions EXCEPT ![c] = @ + 1]
        /\ \A p \in Edited(c) \ torn' : promotions[c] = 0
    BY <1>1, <1>3, PromotionFinds DEF IInv
  <2>2. promotions'[c] = promotions[c] + 1
        /\ \A d \in Changes \ {c} : promotions'[d] = promotions[d]
    BY <2>1 DEF IInv, RolloutInv, StoreTypes
  <2>. HIDE DEF c
  <2>. QED
    BY <1>1, <2>1, <2>2 DEF IInv, AppliedOnce
<1>. QED
  BY <1>2, <1>3, PromotionsCounted

LEMMA Inductive == IInv /\ [Next]_vars => IInv'
BY RolloutInductive, HistoryKept, AppliedOnceKept DEF IInv

LEMMA Invariance == Spec => []IInv
<1>1. Init => AppliedOnce
  BY DEF Init, AppliedOnce
<1>2. Init => IInv
  BY <1>1, RolloutInit, HistoryInit DEF IInv
<1>. QED
  BY <1>2, Inductive, PTL DEF Spec

\* Outside an edit in progress the revision of a policy's version holds the
\* policy's content: Policy.save and create_policy_revision, for a policy of
\* which no edit overlapped another write.
THEOREM RevisionsAreFaithful == Spec => []HistoryFaithful
<1>1. IInv => HistoryFaithful
  <2>. SUFFICES ASSUME IInv, NEW p \in Policies \ (torn \cup BeingWritten), row[p].live
                PROVE  [version |-> row[p].version, content |-> row[p].content]
                         \in revisions[p]
    BY DEF HistoryFaithful
  <2>1. \A e \in Editors : ~Writing(e, p) /\ ~Unrecorded(e, p)
    BY DEF BeingWritten, Writing, Unrecorded
  <2>. QED
    BY <2>1 DEF IInv, HistoryInv, PolicyInv, Recorded
<1>. QED
  BY <1>1, Invariance, PTL

\* Whatever stale reviewers save, a change set that edits a policy no edit
\* overlapped is promoted once.
THEOREM ChangesApplyOnce == Spec => []AppliedOnce
BY Invariance, PTL DEF IInv

\* A promotion replaces exactly the content its author was shown, of every
\* policy that no edit overlapped: promote_change_set's base versions.
THEOREM PromotionsBindDrafts == Spec => PromotionBindsDraft
<1>1. IInv /\ [Next]_vars =>
        [\A c \in Changes : promotions'[c] > promotions[c] =>
           \A p \in Edited(c) \ torn' : row[p].content = drafted[c][p]]_vars
  <2>. SUFFICES ASSUME IInv, [Next]_vars, NEW c \in Changes, promotions'[c] > promotions[c],
                       NEW p \in Edited(c) \ torn'
                PROVE  row[p].content = drafted[c][p]
    OBVIOUS
  <2>1. promotions[c] \in Nat
    BY DEF IInv, RolloutInv, StoreTypes
  <2>2. PICK t \in Rollouts : CommitPromotion(t)
    BY <2>1, PromotionsCounted
  <2>3. /\ promotions' = [promotions EXCEPT ![rollout[t].change] = @ + 1]
        /\ \A q \in Edited(rollout[t].change) \ torn' :
             row[q].content = drafted[rollout[t].change][q]
    BY <2>2, TornGrows, PromotionFinds DEF IInv
  <2>4. c = rollout[t].change
    BY <2>1, <2>3 DEF IInv, RolloutInv, StoreTypes
  <2>. QED
    BY <2>3, <2>4
<1>. QED
  BY <1>1, Invariance, PTL DEF Spec, PromotionBindsDraft
=============================================================================
