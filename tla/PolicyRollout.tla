--------------------------- MODULE PolicyRollout ---------------------------
(***************************************************************************)
(* Writing policies: directly, and through reviewed change sets.           *)
(*   models/policy.py Policy.save, create_policy_revision                  *)
(*   schema/mutations/policy.py update, toggle and delete                  *)
(*   models/policy_change.py, api/views/policy_change.py                   *)
(*   services/policy_rollout.py, services/policy_acknowledgement.py        *)
(*                                                                         *)
(* Editors run in autocommit: Policy.save raises the version in one        *)
(* statement, reads it back in a second, writes the row it read earlier in *)
(* a third, and the revision in a fourth.  Reviewers save a whole change   *)
(* set they read without a lock.  Promotions and rollbacks are             *)
(* transactions: they lock the change set, then its policies one by one in *)
(* the order it lists them, and publish everything at commit.              *)
(*                                                                         *)
(* A policy's content is its configuration, named by who wrote it, and its *)
(* enabled flag.  A change set replaces the configuration.                 *)
(***************************************************************************)
EXTENDS Integers, FiniteSets, Sequences, Functions

CONSTANTS
  Policies, Changes,
  Items,      \* [Changes -> Seq(Policies)], as PolicyChangeSet.changes lists them
  Creates,    \* change sets with a "new:" item besides
  Required,   \* change sets whose validation requires an acknowledgement
  Editors,    \* requests that edit policies directly
  Reviewers,  \* requests that move a change set through its review
  Rollouts,   \* transactions that promote or roll back
  Nobody,     \* the holder of an unlocked row
  Edits,      \* the direct edits that are made, each once: a bound
  Target,     \* [Edits -> Policies]
  Origin      \* the configuration of a policy before the model begins

ASSUME RolloutAssumption ==
  /\ Items \in [Changes -> Seq(Policies)]
  /\ Creates \subseteq Changes /\ Required \subseteq Changes
  /\ Nobody \notin Rollouts
  /\ Target \in [Edits -> Policies]
  /\ Origin \notin Edits \cup Changes

VARIABLES
  row,        \* [Policies -> Row], the committed policies
  revisions,  \* [Policies -> set of [version, content]], PolicyRevision
  status,     \* [Changes -> Statuses]
  base,       \* [Changes -> [Policies -> version]], base_versions
  snapshots,  \* [Changes -> policy -> content], applied_snapshots
  created,    \* [Changes -> Nat], live policies a change set has created
  acked,      \* change sets with the acknowledgement they may require
  editor,     \* [Editors -> what the request holds of a policy]
  reviewer,   \* [Reviewers -> what the request holds of a change set]
  rollout,    \* [Rollouts -> what the transaction has read and has to lock]
  lock,       \* [Policies \cup Changes -> Rollouts \cup {Nobody}]
  edits,      \* history: the direct edits begun
  drafted,    \* history: [Changes -> the contents its author was shown]
  promotions, \* history: [Changes -> Nat]
  torn        \* history: policies read or written while an edit was under way

storeVars == <<row, revisions>>
changeVars == <<status, base, snapshots, created, acked>>
editVars == <<storeVars, editor, edits>>
reviewVars == <<changeVars, reviewer, drafted>>
rolloutVars == <<rollout, lock, promotions>>
vars == <<editVars, reviewVars, rolloutVars, torn>>

Content == [config : {Origin} \cup Changes \cup Edits, on : BOOLEAN]
Row == [live : BOOLEAN, version : Nat, content : Content]
Original == [config |-> Origin, on |-> TRUE]

Edited(c) == Range(Items[c])
NoSnapshots == <<>>

Editor == [stage : {"idle", "read", "bumped", "refreshed", "saved"},
           op : {"none", "update", "toggle", "delete"},
           policy : Policies, row : Row, edit : Edits \cup {Origin}]
NoEdit == [stage |-> "idle", op |-> "none",
           policy |-> CHOOSE p \in Policies : TRUE,
           row |-> [live |-> TRUE, version |-> 0, content |-> Original],
           edit |-> Origin]

NoRollout == [stage |-> "idle", kind |-> "none", change |-> Nobody,
              todo |-> <<>>, read |-> <<>>]
NoReview == [change |-> Nobody, status |-> "absent", snapshots |-> NoSnapshots]

Init ==
  /\ row = [p \in Policies |-> [live |-> TRUE, version |-> 1,
                                content |-> Original]]
  /\ revisions = [p \in Policies |-> {[version |-> 1, content |-> Original]}]
  /\ status = [c \in Changes |-> "absent"]
  /\ base = [c \in Changes |-> [p \in Policies |-> 0]]
  /\ snapshots = [c \in Changes |-> NoSnapshots]
  /\ created = [c \in Changes |-> 0]
  /\ acked = {}
  /\ editor = [e \in Editors |-> NoEdit]
  /\ reviewer = [r \in Reviewers |-> NoReview]
  /\ rollout = [t \in Rollouts |-> NoRollout]
  /\ lock = [x \in Policies \cup Changes |-> Nobody]
  /\ edits = {}
  /\ drafted = [c \in Changes |-> [p \in Policies |-> Original]]
  /\ promotions = [c \in Changes |-> 0]
  /\ torn = {}

\* get_or_create: the first content recorded for a version stays.
Revised(p, version, content) ==
  IF \E r \in revisions[p] : r.version = version THEN revisions[p]
  ELSE revisions[p] \cup {[version |-> version, content |-> content]}

\* The policies that editors in who are half way through writing: between the
\* version and the row, or with a flag toggled on an object already read.
HalfWritten(who) ==
  {editor[e].policy : e \in {f \in who :
     \/ editor[f].stage \in {"bumped", "refreshed"}
     \/ editor[f].stage = "read" /\ editor[f].op = "toggle"}}

-----------------------------------------------------------------------------
(***************************************************************************)
(* Direct edits, in autocommit.  A row lock of a rollout makes a statement *)
(* wait; the stale object is saved once the rollout ended.                 *)
(***************************************************************************)
Fetch(e, op, edit) ==
  LET p == Target[edit] IN
  /\ editor[e].stage = "idle"
  /\ edit \notin edits
  /\ row[p].live
  /\ edits' = edits \cup {edit}
  /\ editor' = [editor EXCEPT ![e] = [stage |-> "read", op |-> op, policy |-> p,
                                      row |-> row[p], edit |-> edit]]
  /\ UNCHANGED <<storeVars, reviewVars, rolloutVars, torn>>

\* Policy.save, first statement: version = version + 1 where the row still is.
Bump(e) ==
  LET p == editor[e].policy IN
  /\ editor[e].stage = "read" /\ editor[e].op # "delete"
  /\ lock[p] = Nobody
  /\ row' = [row EXCEPT ![p].version = IF row[p].live THEN @ + 1 ELSE @]
  /\ editor' = [editor EXCEPT ![e].stage = "bumped"]
  /\ torn' = torn \cup ({p} \cap HalfWritten(Editors \ {e}))
  /\ UNCHANGED <<revisions, edits, reviewVars, rolloutVars>>

\* Faulty: goes on with the version the object was read with.
RefreshForgotten(e) ==
  /\ editor[e].stage = "bumped"
  /\ editor' = [editor EXCEPT ![e].stage = "refreshed"]
  /\ UNCHANGED <<storeVars, edits, reviewVars, rolloutVars, torn>>

\* refresh_from_db(fields=['version']); a deleted policy fails the request.
Refresh(e) ==
  LET p == editor[e].policy IN
  /\ editor[e].stage = "bumped"
  /\ editor' = [editor EXCEPT ![e] =
                  IF row[p].live
                  THEN [@ EXCEPT !.stage = "refreshed",
                                 !.row.version = row[p].version]
                  ELSE NoEdit]
  /\ UNCHANGED <<storeVars, edits, reviewVars, rolloutVars, torn>>

\* What the request set on the object it read.
Intended(e) ==
  IF editor[e].op = "update"
  THEN [editor[e].row.content EXCEPT !.config = editor[e].edit]
  ELSE [editor[e].row.content EXCEPT !.on = ~@]

\* Model.save: an update writes every field, a toggle only the flag.  A row
\* deleted meanwhile is inserted again by a full save and fails a partial one.
Save(e) ==
  LET p == editor[e].policy
      full == [live |-> TRUE, version |-> editor[e].row.version,
               content |-> Intended(e)]
  IN  /\ editor[e].stage = "refreshed"
      /\ lock[p] = Nobody
      /\ \/ /\ editor[e].op = "update"
            /\ row' = [row EXCEPT ![p] = full]
            /\ editor' = [editor EXCEPT ![e].stage = "saved"]
         \/ /\ editor[e].op = "toggle" /\ row[p].live
            /\ row' = [row EXCEPT ![p].content.on = Intended(e).on]
            /\ editor' = [editor EXCEPT ![e].stage = "saved"]
         \/ /\ editor[e].op = "toggle" /\ ~row[p].live
            /\ editor' = [editor EXCEPT ![e] = NoEdit]
            /\ UNCHANGED row
      /\ torn' = torn \cup ({p} \cap HalfWritten(Editors \ {e}))
      /\ UNCHANGED <<revisions, edits, reviewVars, rolloutVars>>

\* post_save: create_policy_revision, from the object; its insert fails when
\* the policy is gone.
Revise(e) ==
  LET p == editor[e].policy IN
  /\ editor[e].stage = "saved"
  /\ revisions' = [revisions EXCEPT ![p] =
                     IF row[p].live
                     THEN Revised(p, editor[e].row.version, Intended(e)) ELSE @]
  /\ editor' = [editor EXCEPT ![e] = NoEdit]
  /\ UNCHANGED <<row, edits, reviewVars, rolloutVars, torn>>

\* delete_policy: the revisions go with the row.
Delete(e) ==
  LET p == editor[e].policy IN
  /\ editor[e].stage = "read" /\ editor[e].op = "delete"
  /\ lock[p] = Nobody
  /\ row' = [row EXCEPT ![p].live = FALSE]
  /\ revisions' = [revisions EXCEPT ![p] = {}]
  /\ editor' = [editor EXCEPT ![e] = NoEdit]
  /\ torn' = torn \cup ({p} \cap HalfWritten(Editors \ {e}))
  /\ UNCHANGED <<edits, reviewVars, rolloutVars>>

-----------------------------------------------------------------------------
(***************************************************************************)
(* Drafting and reviewing a change set.                                    *)
(***************************************************************************)

\* PolicyChangeSetListView.post: the author's base versions are those of the
\* policies as they were shown.
Draft(c) ==
  /\ status[c] = "absent"
  /\ status' = [status EXCEPT ![c] = "draft"]
  /\ base' = [base EXCEPT ![c] = [p \in Policies |-> row[p].version]]
  /\ drafted' = [drafted EXCEPT ![c] = [p \in Policies |-> row[p].content]]
  /\ torn' = torn \cup (Edited(c) \cap HalfWritten(Editors))
  /\ UNCHANGED <<editVars, snapshots, created, acked, reviewer, rolloutVars>>

Statuses == {"absent", "draft", "validated", "staged", "approved", "promoted",
             "rolled_back", "rejected"}

\* PolicyChangeSet.transition, less the two that only rollouts make.
Allowed(s) == CASE s = "draft"     -> {"validated", "rejected"}
                [] s = "validated" -> {"staged", "rejected"}
                [] s = "staged"    -> {"approved", "rejected"}
                [] s = "approved"  -> {"rejected"}
                [] OTHER           -> {}

ReadChange(r, c) ==
  /\ reviewer[r] = NoReview
  /\ Allowed(status[c]) # {}
  /\ reviewer' = [reviewer EXCEPT ![r] = [change |-> c, status |-> status[c],
                                          snapshots |-> snapshots[c]]]
  /\ UNCHANGED <<editVars, changeVars, drafted, rolloutVars, torn>>

\* Checked against the object, then the whole object is saved.
Transition(r, s) ==
  LET c == reviewer[r].change IN
  /\ reviewer[r] # NoReview
  /\ s \in Allowed(reviewer[r].status)
  /\ lock[c] = Nobody
  /\ status' = [status EXCEPT ![c] = s]
  /\ snapshots' = [snapshots EXCEPT ![c] = reviewer[r].snapshots]
  /\ reviewer' = [reviewer EXCEPT ![r] = NoReview]
  /\ UNCHANGED <<editVars, base, created, acked, drafted, rolloutVars, torn>>

\* acknowledge_change_set.
Acknowledge(c) ==
  /\ c \in Required \ acked
  /\ status[c] \in {"staged", "approved", "promoted"}
  /\ acked' = acked \cup {c}
  /\ UNCHANGED <<editVars, status, base, snapshots, created, reviewer, drafted,
                 rolloutVars, torn>>

-----------------------------------------------------------------------------
(***************************************************************************)
(* Promotion and rollback.                                                 *)
(***************************************************************************)
Released(t) == [x \in DOMAIN lock |-> IF lock[x] = t THEN Nobody ELSE lock[x]]

\* The transaction locks the change set and checks its status under the lock.
Start(t, c, kind) ==
  /\ rollout[t].stage = "idle"
  /\ lock[c] = Nobody
  /\ lock' = [lock EXCEPT ![c] = t]
  /\ rollout' = [rollout EXCEPT ![t] =
                   [stage |-> "locking", kind |-> kind, change |-> c,
                    todo |-> Items[c], read |-> <<>>]]
  /\ UNCHANGED <<editVars, reviewVars, promotions, torn>>

BeginPromotion(t, c) ==
  /\ status[c] = "approved"
  /\ c \in Required => c \in acked
  /\ Start(t, c, "promote")

BeginRollback(t, c) ==
  /\ status[c] = "promoted"
  /\ snapshots[c] # NoSnapshots \/ c \in Creates
  /\ Start(t, c, "rollback")

\* Faulty: a promotion does not look at the version.
MatchesAny(t, p) == row[p].live

\* The policy is there and, for a promotion, at the version drafted against.
Matches(t, p) ==
  /\ row[p].live
  /\ rollout[t].kind = "promote" => base[rollout[t].change][p] = row[p].version

NextPolicy(t) == Head(rollout[t].todo)
Locking(t) == rollout[t].stage = "locking" /\ rollout[t].todo # <<>>

Take(t) ==
  rollout' = [rollout EXCEPT ![t].todo = Tail(@),
                             ![t].read = [p \in DOMAIN @ \cup {NextPolicy(t)} |->
                                            IF p \in DOMAIN @ THEN @[p]
                                            ELSE row[p]]]

\* Faulty: checks the version without holding the row.
ReadPolicy(t) ==
  /\ Locking(t)
  /\ Matches(t, NextPolicy(t))
  /\ Take(t)
  /\ UNCHANGED <<editVars, reviewVars, lock, promotions, torn>>

\* select_for_update, then the version check.
LockPolicy(t) ==
  /\ Locking(t)
  /\ lock[NextPolicy(t)] \in {Nobody, t}
  /\ Matches(t, NextPolicy(t))
  /\ lock' = [lock EXCEPT ![NextPolicy(t)] = t]
  /\ Take(t)
  /\ UNCHANGED <<editVars, reviewVars, promotions, torn>>

\* Rolled back: a policy has changed or is gone, a statement failed, or
\* PostgreSQL broke a deadlock between two that list policies in other orders.
Abandon(t) ==
  /\ lock' = Released(t)
  /\ rollout' = [rollout EXCEPT ![t] = NoRollout]
  /\ UNCHANGED <<editVars, reviewVars, promotions, torn>>

Refuse(t) ==
  /\ Locking(t)
  /\ lock[NextPolicy(t)] \in {Nobody, t}
  /\ ~Matches(t, NextPolicy(t))
  /\ Abandon(t)

Fail(t) == rollout[t].stage # "idle" /\ Abandon(t)

\* Faulty: writes the rows past Policy.save, which raises the version.
WriteAll(t, contents) ==
  LET read == rollout[t].read IN
  /\ row' = [p \in Policies |->
               IF p \in DOMAIN read
               THEN [row[p] EXCEPT !.live = TRUE, !.content = contents[p]] ELSE row[p]]
  /\ torn' = torn \cup (DOMAIN read \cap HalfWritten(Editors))
  /\ UNCHANGED revisions

\* The saves of one rollout, each with its version, row and revision.
SaveAll(t, contents) ==
  LET read == rollout[t].read
      saved == [p \in DOMAIN read |-> [live |-> TRUE,
                                       version |-> row[p].version + 1,
                                       content |-> contents[p]]]
  IN  /\ row' = [p \in Policies |-> IF p \in DOMAIN read THEN saved[p] ELSE row[p]]
      /\ revisions' = [p \in Policies |->
                         IF p \in DOMAIN read
                         THEN Revised(p, saved[p].version, saved[p].content)
                         ELSE revisions[p]]
      /\ torn' = torn \cup (DOMAIN read \cap HalfWritten(Editors))

Adds(c) == IF c \in Creates THEN 1 ELSE 0
Ready(t, kind) == /\ rollout[t].stage = "locking" /\ rollout[t].todo = <<>>
                  /\ rollout[t].kind = kind

Publish(t) ==
  /\ lock' = Released(t)
  /\ rollout' = [rollout EXCEPT ![t] = NoRollout]
  /\ UNCHANGED <<editor, edits, base, acked, reviewer, drafted>>

CommitPromotion(t) ==
  LET c == rollout[t].change
      read == rollout[t].read
  IN  /\ Ready(t, "promote")
      /\ SaveAll(t, [p \in DOMAIN read |->
                       [read[p].content EXCEPT !.config = c]])
      /\ snapshots' = [snapshots EXCEPT
                         ![c] = [p \in DOMAIN read |-> read[p].content]]
      /\ created' = [created EXCEPT ![c] = @ + Adds(c)]
      /\ status' = [status EXCEPT ![c] = "promoted"]
      /\ promotions' = [promotions EXCEPT ![c] = @ + 1]
      /\ Publish(t)

CommitRollback(t) ==
  LET c == rollout[t].change IN
  /\ Ready(t, "rollback")
  /\ SaveAll(t, snapshots[c])
  /\ created' = [created EXCEPT ![c] = @ - Adds(c)]
  /\ status' = [status EXCEPT ![c] = "rolled_back"]
  /\ UNCHANGED <<snapshots, promotions>>
  /\ Publish(t)

-----------------------------------------------------------------------------
EditorStep(e) ==
  \/ \E op \in {"update", "toggle", "delete"}, edit \in Edits : Fetch(e, op, edit)
  \/ Bump(e)
  \/ Refresh(e)
  \/ Save(e)
  \/ Revise(e)
  \/ Delete(e)

RolloutStep(t) ==
  \/ \E c \in Changes : BeginPromotion(t, c) \/ BeginRollback(t, c)
  \/ LockPolicy(t)
  \/ Refuse(t)
  \/ CommitPromotion(t)
  \/ CommitRollback(t)
  \/ Fail(t)

Next ==
  \/ \E e \in Editors : EditorStep(e)
  \/ \E c \in Changes : Draft(c) \/ Acknowledge(c)
  \/ \E r \in Reviewers, c \in Changes : ReadChange(r, c)
  \/ \E r \in Reviewers, s \in Statuses : Transition(r, s)
  \/ \E t \in Rollouts : RolloutStep(t)

Spec == Init /\ [][Next]_vars

-----------------------------------------------------------------------------
(***************************************************************************)
(* Properties.                                                             *)
(***************************************************************************)

\* Types; only a rollout holds row locks, on its change set and what it read.
TypeOK ==
  /\ row \in [Policies -> Row]
  /\ \A p \in Policies : \A r \in revisions[p] :
       r.version \in Nat /\ r.content \in Content
  /\ status \in [Changes -> Statuses]
  /\ base \in [Changes -> [Policies -> Nat]]
  /\ created \in [Changes -> Int]
  /\ acked \subseteq Required
  /\ editor \in [Editors -> Editor]
  /\ \A t \in Rollouts :
       {x \in DOMAIN lock : lock[x] = t} =
         IF rollout[t] = NoRollout THEN {}
         ELSE {rollout[t].change} \cup DOMAIN rollout[t].read

Promise == INSTANCE ChangeSets WITH row <- row, status <- status, base <- base,
                                    snapshots <- snapshots, created <- created

\* A promotion takes effect at one instant at which its change set is approved
\* and every policy is at the version it was drafted against; a rollback at
\* one at which it is promoted, restoring what the promotion replaced.  Nothing
\* of either is seen before or left by one that fails, whoever edits meanwhile.
AtomicRollouts == Promise!Spec

BeingWritten == {editor[e].policy : e \in {f \in Editors : editor[f].stage # "idle"}}

\* Outside an edit in progress, the revision of a policy's version holds the
\* policy's content, unless an edit overlapped another write (torn): then two
\* saves can share a version, or the version can go back.
HistoryFaithful ==
  \A p \in Policies \ (torn \cup BeingWritten) :
    row[p].live =>
      [version |-> row[p].version, content |-> row[p].content] \in revisions[p]

\* "Only if all base versions still match": a promotion replaces exactly the
\* content its author was shown, unless an edit overlapped the draft or the
\* promotion (torn).
PromotionBindsDraft ==
  [][\A c \in Changes : promotions'[c] > promotions[c] =>
       \A p \in Edited(c) \ torn' : row[p].content = drafted[c][p]]_vars

\* Whatever stale reviewers save, a change set that edits a policy takes effect
\* once: after that the versions it was drafted against are gone.
AppliedOnce ==
  \A c \in Changes : Edited(c) \subseteq torn \/ promotions[c] <= 1
=============================================================================
