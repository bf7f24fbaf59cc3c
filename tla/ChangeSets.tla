----------------------------- MODULE ChangeSets -----------------------------
(***************************************************************************)
(* What policy change sets promise: a promotion or a rollback takes effect *)
(* at one instant, on all of its policies or on none.  PolicyRollout, with *)
(* its row locks and its unlocked reviewers, is checked to implement this. *)
(***************************************************************************)
EXTENDS Integers, Sequences, Functions

CONSTANTS
  Policies,
  Changes,   \* change sets
  Items,     \* [Changes -> Seq(Policies)]: the policies each one edits
  Creates    \* the change sets that also create a policy

VARIABLES
  row,       \* [Policies -> [live, version, content]]
  status,    \* [Changes -> status]
  base,      \* [Changes -> [Policies -> version]], PolicyChangeSet.base_versions
  snapshots, \* [Changes -> partial [Policies -> content]], applied_snapshots
  created    \* [Changes -> Nat]: the live policies it has created

vars == <<row, status, base, snapshots, created>>

Edited(c) == Range(Items[c])
Adds(c) == IF c \in Creates THEN 1 ELSE 0

Init ==
  /\ \A p \in Policies : row[p].live
  /\ status = [c \in Changes |-> "absent"]
  /\ created = [c \in Changes |-> 0]
  /\ snapshots = [c \in Changes |-> <<>>]

\* Its author was shown the policies at these versions.
Draft(c) ==
  /\ status[c] = "absent"
  /\ status' = [status EXCEPT ![c] = "draft"]
  /\ base' = [base EXCEPT ![c] = [p \in Policies |-> row[p].version]]
  /\ UNCHANGED <<row, snapshots, created>>

\* A reviewer's save says anything but that the change took effect.
Review(c) ==
  /\ status[c] # "absent"
  /\ status'[c] \notin {"absent", "promoted", "rolled_back"}
  /\ \A d \in Changes \ {c} : /\ status'[d] = status[d]
                              /\ snapshots'[d] = snapshots[d]
  /\ UNCHANGED <<row, base, created>>

\* Outside of change sets, a write concerns one policy.
Edit(p) ==
  /\ \A q \in Policies \ {p} : row'[q] = row[q]
  /\ UNCHANGED <<status, base, snapshots, created>>

Promote(c) ==
  /\ status[c] = "approved"
  /\ \A p \in Edited(c) : row[p].live /\ row[p].version = base[c][p]
  /\ status' = [status EXCEPT ![c] = "promoted"]
  /\ snapshots' = [snapshots EXCEPT
                     ![c] = [p \in Edited(c) |-> row[p].content]]
  /\ \A p \in Policies :
       IF p \in Edited(c)
       THEN row'[p].live /\ row'[p].version = row[p].version + 1
            /\ row'[p].content.config = c
       ELSE row'[p] = row[p]
  /\ created' = [created EXCEPT ![c] = @ + Adds(c)]
  /\ UNCHANGED base

RollBack(c) ==
  /\ status[c] = "promoted"
  /\ status' = [status EXCEPT ![c] = "rolled_back"]
  /\ row' = [p \in Policies |->
               IF p \in Edited(c)
               THEN [live |-> TRUE, version |-> row[p].version + 1,
                     content |-> snapshots[c][p]]
               ELSE row[p]]
  /\ created' = [created EXCEPT ![c] = @ - Adds(c)]
  /\ UNCHANGED <<base, snapshots>>

Next ==
  \/ \E c \in Changes : Draft(c) \/ Review(c) \/ Promote(c) \/ RollBack(c)
  \/ \E p \in Policies : Edit(p)

Spec == Init /\ [][Next]_vars
=============================================================================
