------------------------------ MODULE Approval ------------------------------
(***************************************************************************)
(* Human approval of a gated call: held requests, the operator's decision, *)
(* and the single-use approval an admission consumes.                      *)
(*   services/approvals.py, models/approval.py, api/views/approvals.py,    *)
(*   services/policy_engine.py evaluate(), services/budgets.py admit()     *)
(*                                                                         *)
(* A "call" stands for everything an approval is bound to: tenant,         *)
(* endpoint, subject, action and context digest.  Time only passes by      *)
(* Expire steps, so every order of expiry and use is possible.             *)
(***************************************************************************)
EXTENDS Integers, FiniteSets

CONSTANTS
  Calls,       \* exact calls a workload can ask for
  Gates,       \* policies that ask for approval
  Gated,       \* [Calls -> SUBSET Gates]: which of them match a call
  Requests,    \* ApprovalRequest rows
  Issues,      \* approvals an operator issues without a request
  Workers,     \* threads serving /evaluate
  MaxVersion,  \* bound on policy edits
  MaxCounts    \* bound on the repeat counts one request can add

ASSUME ApprovalAssumption ==
  /\ Calls # {}
  /\ Gated \in [Calls -> SUBSET Gates]
  /\ Requests \cap Issues = {}
  /\ MaxVersion \in Nat
  /\ MaxCounts \in Nat

VARIABLES
  version,   \* [Gates -> Nat], each policy's current version
  request,   \* [Requests -> HeldRequest]
  approval,  \* [Approvals -> ExecutionApproval]; one may come of each request
  deciding,  \* [Requests -> Decision]: the transaction holding the row's lock
  audited,   \* decisions the audit chain (another database) has recorded
  counted,   \* [Requests -> Nat], repeat counts added in the shared cache
  worker,    \* [Workers -> Evaluation]
  executed,  \* history: the gated calls that were let through
  uses       \* history: how many of them each approval let through

vars == <<version, request, approval, deciding, audited, counted, worker,
          executed, uses>>

Approvals == Requests \cup Issues
Verdicts  == {"approve", "deny"}
Versions  == [Gates -> Nat]
AnyCall   == CHOOSE c \in Calls : TRUE

HeldRequest == [status : {"none", "pending", "approved", "denied"},
                expired : BOOLEAN, call : Calls]

ExecutionApproval == [status : {"none", "live", "consumed"},
                      expired : BOOLEAN, call : Calls, versions : Versions]

Decision == [verdict : Verdicts \cup {"none"}, audited : BOOLEAN,
             versions : Versions]

Evaluation == [stage : {"idle", "validated"}, call : Calls,
               token : Approvals, versions : Versions]

Evaluating(stage, c, a, versions) ==
  [stage |-> stage, call |-> c, token |-> a, versions |-> versions]

Execution == [call : Calls, token : Approvals, versions : Versions]

Granted(c, versions) ==
  [status |-> "live", expired |-> FALSE, call |-> c, versions |-> versions]

NoVersions == [p \in Gates |-> 0]
NoDecision == [verdict |-> "none", audited |-> FALSE, versions |-> NoVersions]

Init ==
  /\ version = [p \in Gates |-> 1]
  /\ request = [r \in Requests |->
                  [status |-> "none", expired |-> FALSE, call |-> AnyCall]]
  /\ approval = [a \in Approvals |->
                   [status |-> "none", expired |-> FALSE, call |-> AnyCall,
                    versions |-> NoVersions]]
  /\ deciding = [r \in Requests |-> NoDecision]
  /\ audited = {}
  /\ counted = [r \in Requests |-> 0]
  /\ worker \in [Workers -> {[stage |-> "idle", call |-> AnyCall, token |-> a,
                              versions |-> NoVersions] : a \in Approvals}]
  /\ executed = {}
  /\ uses = [a \in Approvals |-> 0]

-----------------------------------------------------------------------------
\* Policy.save: an edit moves the version on.
EditPolicy(p) ==
  /\ version[p] < MaxVersion
  /\ version' = [version EXCEPT ![p] = version[p] + 1]
  /\ UNCHANGED <<request, approval, deciding, audited, counted, worker,
                 executed, uses>>

\* A pending request, or an approval, passes its expires_at.
Expire ==
  \/ \E r \in Requests :
       /\ request[r].status = "pending" /\ ~request[r].expired
       /\ request' = [request EXCEPT ![r].expired = TRUE]
       /\ UNCHANGED approval
  \/ \E a \in Approvals :
       /\ approval[a].status = "live" /\ ~approval[a].expired
       /\ approval' = [approval EXCEPT ![a].expired = TRUE]
       /\ UNCHANGED request

Expiry ==
  /\ Expire
  /\ UNCHANGED <<version, deciding, audited, counted, worker, executed, uses>>

-----------------------------------------------------------------------------
\* open_approval_request: a host's call was refused only for want of an
\* approval.  The request keeps the digest that evaluation computed.
OpenRequest(r, c) ==
  /\ request[r].status = "none"
  /\ Gated[c] # {}
  /\ request' = [request EXCEPT ![r] =
                   [status |-> "pending", expired |-> FALSE, call |-> c]]
  /\ UNCHANGED <<version, approval, deciding, audited, counted, worker,
                 executed, uses>>

(***************************************************************************)
(* The decision view.  One database transaction on the request's row, with *)
(* two effects outside it: a denial's repeat counts go to the shared cache *)
(* at once, and the audit record commits on its own database.  If that     *)
(* record cannot be written the decision is rolled back.                   *)
(***************************************************************************)
Locked(r) == deciding[r].verdict # "none"

\* Faulty: the request's status is not checked under the row lock.
BeginAnyDecision(r, verdict) ==
  /\ request[r].status # "none"
  /\ ~Locked(r)
  /\ deciding' = [deciding EXCEPT ![r] =
                    [verdict |-> verdict, audited |-> FALSE,
                     versions |-> version]]
  /\ UNCHANGED <<version, request, approval, audited, counted, worker,
                 executed, uses>>

BeginDecision(r, verdict) ==
  /\ request[r].status = "pending"
  /\ ~request[r].expired
  /\ ~Locked(r)
  /\ deciding' = [deciding EXCEPT ![r] =
                    [verdict |-> verdict, audited |-> FALSE,
                     versions |-> version]]
  /\ IF verdict = "deny"
     THEN /\ counted[r] < MaxCounts
          /\ counted' = [counted EXCEPT ![r] = counted[r] + 1]
     ELSE UNCHANGED counted
  /\ UNCHANGED <<version, request, approval, audited, worker, executed, uses>>

AuditDecision(r) ==
  /\ Locked(r)
  /\ ~deciding[r].audited
  /\ audited' = audited \cup {<<r, deciding[r].verdict>>}
  /\ deciding' = [deciding EXCEPT ![r].audited = TRUE]
  /\ UNCHANGED <<version, request, approval, counted, worker, executed, uses>>

\* Faulty: the approval was created outside the decision's transaction.
RollbackKeepsGrant(r) ==
  /\ Locked(r)
  /\ approval' = IF deciding[r].verdict = "approve"
                 THEN [approval EXCEPT ![r] =
                         Granted(request[r].call, deciding[r].versions)]
                 ELSE approval
  /\ deciding' = [deciding EXCEPT ![r] = NoDecision]
  /\ UNCHANGED <<version, request, audited, counted, worker, executed, uses>>

\* The audit write fails, the process dies or the commit is lost.
RollbackDecision(r) ==
  /\ Locked(r)
  /\ deciding' = [deciding EXCEPT ![r] = NoDecision]
  /\ UNCHANGED <<version, request, approval, audited, counted, worker,
                 executed, uses>>

\* Faulty: commits whether or not the audit record was written.
CommitUnaudited(r) ==
  LET approve == deciding[r].verdict = "approve" IN
  /\ Locked(r)
  /\ request' = [request EXCEPT ![r].status =
                   IF approve THEN "approved" ELSE "denied"]
  /\ approval' = IF approve
                 THEN [approval EXCEPT ![r] =
                         Granted(request[r].call, deciding[r].versions)]
                 ELSE approval
  /\ deciding' = [deciding EXCEPT ![r] = NoDecision]
  /\ UNCHANGED <<version, audited, counted, worker, executed, uses>>

CommitDecision(r) ==
  LET approve == deciding[r].verdict = "approve" IN
  /\ Locked(r)
  /\ deciding[r].audited
  /\ request' = [request EXCEPT ![r].status =
                   IF approve THEN "approved" ELSE "denied"]
  /\ approval' = IF approve
                 THEN [approval EXCEPT ![r] =
                         Granted(request[r].call, deciding[r].versions)]
                 ELSE approval
  /\ deciding' = [deciding EXCEPT ![r] = NoDecision]
  /\ UNCHANGED <<version, audited, counted, worker, executed, uses>>

\* ApprovalIssueView: an operator approves an exact call ahead of time.  The
\* token is returned only after its audit record is written; an approval whose
\* token never left the server can never be presented, and is no step here.
IssueApproval(i, c) ==
  /\ approval[i].status = "none"
  /\ approval' = [approval EXCEPT ![i] = Granted(c, version)]
  /\ audited' = audited \cup {<<i, "approve">>}
  /\ UNCHANGED <<version, request, deciding, counted, worker, executed, uses>>

-----------------------------------------------------------------------------
(***************************************************************************)
(* /evaluate with an approval_token.  The policies may come from the cache *)
(* and so be older than the current ones.  Validation reads the approval   *)
(* without a lock; the admission locks it and consumes it with the budget  *)
(* charge, or consumes nothing.                                            *)
(***************************************************************************)
Usable(a) == approval[a].status = "live" /\ ~approval[a].expired

Validates(a, c, seen) ==
  /\ Usable(a)
  /\ approval[a].call = c
  /\ \A p \in Gated[c] : approval[a].versions[p] = seen[p]

\* Faulty: accepts an approval granted against another version.
ValidateAnyVersion(w, c, a, seen) ==
  /\ worker[w].stage = "idle"
  /\ Gated[c] # {}
  /\ Usable(a) /\ approval[a].call = c
  /\ worker' = [worker EXCEPT ![w] = Evaluating("validated", c, a, seen)]
  /\ UNCHANGED <<version, request, approval, deciding, audited, counted,
                 executed, uses>>

Validate(w, c, a, seen) ==
  /\ worker[w].stage = "idle"
  /\ Gated[c] # {}
  /\ \A p \in Gates : seen[p] <= version[p]
  /\ Validates(a, c, seen)
  /\ worker' = [worker EXCEPT ![w] = Evaluating("validated", c, a, seen)]
  /\ UNCHANGED <<version, request, approval, deciding, audited, counted,
                 executed, uses>>

Finish(w) ==
  worker' = [worker EXCEPT ![w] = Evaluating("idle", worker[w].call,
                                   worker[w].token, worker[w].versions)]

\* Faulty: trusts what validation read.
AdmitWithoutLock(w) ==
  LET a == worker[w].token IN
  /\ worker[w].stage = "validated"
  /\ approval' = [approval EXCEPT ![a].status = "consumed"]
  /\ executed' = executed \cup {[call |-> worker[w].call, token |-> a,
                                 versions |-> worker[w].versions]}
  /\ uses' = [uses EXCEPT ![a] = uses[a] + 1]
  /\ Finish(w)
  /\ UNCHANGED <<version, request, deciding, audited, counted>>

\* admit() with consume_approvals(): allowed, and the approval is spent.
Admit(w) ==
  LET a == worker[w].token IN
  /\ worker[w].stage = "validated"
  /\ Usable(a)
  /\ approval' = [approval EXCEPT ![a].status = "consumed"]
  /\ executed' = executed \cup {[call |-> worker[w].call, token |-> a,
                                 versions |-> worker[w].versions]}
  /\ uses' = [uses EXCEPT ![a] = uses[a] + 1]
  /\ Finish(w)
  /\ UNCHANGED <<version, request, deciding, audited, counted>>

\* A budget refuses, the approval is gone, or the worker dies: nothing is
\* consumed.
Refuse(w) ==
  /\ worker[w].stage = "validated"
  /\ Finish(w)
  /\ UNCHANGED <<version, request, approval, deciding, audited, counted,
                 executed, uses>>

Next ==
  \/ \E p \in Gates : EditPolicy(p)
  \/ Expiry
  \/ \E r \in Requests, c \in Calls : OpenRequest(r, c)
  \/ \E r \in Requests, verdict \in Verdicts : BeginDecision(r, verdict)
  \/ \E r \in Requests : AuditDecision(r)
  \/ \E r \in Requests : CommitDecision(r)
  \/ \E r \in Requests : RollbackDecision(r)
  \/ \E i \in Issues, c \in Calls : IssueApproval(i, c)
  \/ \E w \in Workers, c \in Calls, a \in Approvals,
        seen \in [Gates -> 1..MaxVersion] : Validate(w, c, a, seen)
  \/ \E w \in Workers : Admit(w)
  \/ \E w \in Workers : Refuse(w)

Spec == Init /\ [][Next]_vars

-----------------------------------------------------------------------------
(***************************************************************************)
(* Properties.                                                             *)
(***************************************************************************)

\* Types, and the link between the rows: an approval comes of a request exactly
\* when the request stands approved.
TypeOK ==
  /\ version \in Versions
  /\ request \in [Requests -> HeldRequest]
  /\ approval \in [Approvals -> ExecutionApproval]
  /\ deciding \in [Requests -> Decision]
  /\ audited \in SUBSET (Approvals \X Verdicts)
  /\ counted \in [Requests -> Nat]
  /\ worker \in [Workers -> Evaluation]
  /\ executed \in SUBSET Execution
  /\ uses \in [Approvals -> Nat]
  /\ \A r \in Requests :
       (approval[r].status # "none") <=> (request[r].status = "approved")

\* Only one execution can ever claim an approval, however many workers
\* present it at once, and a refused admission spends none: an approval is
\* spent exactly when one call ran on it (consume_approvals' docstring).
SingleUse ==
  \A a \in Approvals : uses[a] = IF approval[a].status = "consumed" THEN 1 ELSE 0

\* A gated call runs only on an approval a human gave for exactly that call,
\* whose giving the audit chain recorded, granted against the very policy
\* versions the evaluation enforced.
ExecutionAuthorized ==
  \A x \in executed :
    LET a == approval[x.token] IN
    /\ a.call = x.call
    /\ <<x.token, "approve">> \in audited
    /\ \A p \in Gated[x.call] : a.versions[p] = x.versions[p]
    /\ x.token \in Requests => /\ request[x.token].status = "approved"
                               /\ request[x.token].call = x.call

\* A request takes one decision: once approved or denied it never changes,
\* and a denial never turns into an approval, whatever raced it.
OneDecision ==
  [][\A r \in Requests : request[r].status \in {"approved", "denied"} =>
       request'[r] = request[r]]_vars

\* No decision stands unrecorded: the audit record is written before the
\* decision it is about can commit, across the two databases.
DecisionsAudited ==
  \A r \in Requests :
    /\ request[r].status = "approved" => <<r, "approve">> \in audited
    /\ request[r].status = "denied" => <<r, "deny">> \in audited
=============================================================================
