---------------------------- MODULE PolicySaves ----------------------------
(***************************************************************************)
(* PolicyCache with what an operator is told: when the request that saved  *)
(* a policy has finished, and which of those requests an evaluation starts *)
(* after.  The variables are history; no step of PolicyCache depends on    *)
(* them.                                                                   *)
(***************************************************************************)
EXTENDS PolicyCache

VARIABLES
  settled,    \* the rows as of the last finished write that was invalidated
  announced,  \* the writers whose open transaction's save was invalidated
  promised    \* [Readers -> States], what settled was as each started

savesVars == <<vars, settled, announced, promised>>

\* The counter comes to a version it never had.
NewVersion == DOMAIN landed' # DOMAIN landed

\* What an evaluation that starts now should enforce.  A counter below one it
\* had was lost or set back, and says nothing of the writes since.
Promised == IF \E v \in DOMAIN landed : v > version THEN 0 ELSE settled

Saves ==
  /\ settled' =
       IF NewVersion \/ \E w \in announced : CommitTransaction(w) THEN rows'
       ELSE settled
  /\ announced' =
       {w \in Writers : /\ writer'[w] = [stage |-> "idle", tx |-> "saved"]
                        /\ \/ w \in announced
                           \/ NewVersion /\ writer[w].stage # "idle"}
  /\ promised' = [e \in Readers |->
       IF reader[e].stage = "idle" /\ reader'[e].stage = "keyed" THEN Promised
       ELSE promised[e]]

SavesInit ==
  /\ Init
  /\ settled = 0 /\ announced = {} /\ promised = [e \in Readers |-> 0]

\* Every policy is written outside a transaction: by the mutations, the
\* assistant or a policy document.
AutocommitSpec == SavesInit /\ [][AutocommitNext /\ Saves]_savesVars

\* Promotions, rollbacks and the admin write policies as well.
TransactionalSpec == SavesInit /\ [][Next /\ Saves]_savesVars

-----------------------------------------------------------------------------
\* "The policy an operator saved is the policy being enforced" (signals.py:
\* 194-195): an evaluation enforces every write whose request had finished as
\* it started, and whose invalidation brought the counter to a new version;
\* unless the counter was lost or set back below that as the evaluation read it.
SavedIsEnforced ==
  \A e \in Readers : reader[e].stage = "idle" => reader[e].result >= promised[e]
=============================================================================
