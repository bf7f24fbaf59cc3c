--------------------------- MODULE ApprovalProofs ---------------------------
(***************************************************************************)
(* Theorems about Approval, for every set of calls, policies, requests and *)
(* workers.                                                                *)
(***************************************************************************)
EXTENDS Approval, TLAPS

(***************************************************************************)
(* What makes the properties inductive: the state of a decision under its  *)
(* row lock, and what every validated evaluation and every execution knows *)
(* of the approval it used.                                                *)
(***************************************************************************)
DecisionUnderLock ==
  \A r \in Requests : Locked(r) =>
    /\ request[r].status = "pending"
    /\ deciding[r].audited => <<r, deciding[r].verdict>> \in audited

GrantedForHeldCall ==
  \A r \in Requests :
    approval[r].status # "none" => approval[r].call = request[r].call

GrantsAudited ==
  \A a \in Approvals :
    approval[a].status # "none" => <<a, "approve">> \in audited

Backs(a, c, versions) ==
  /\ approval[a].status # "none"
  /\ approval[a].call = c
  /\ \A p \in Gated[c] : approval[a].versions[p] = versions[p]

ValidatedBacked ==
  \A w \in Workers : worker[w].stage = "validated" =>
    Backs(worker[w].token, worker[w].call, worker[w].versions)

ExecutedBacked ==
  \A x \in executed : Backs(x.token, x.call, x.versions)

IInv ==
  /\ TypeOK
  /\ SingleUse
  /\ DecisionsAudited
  /\ DecisionUnderLock
  /\ GrantedForHeldCall
  /\ GrantsAudited
  /\ ValidatedBacked
  /\ ExecutedBacked

-----------------------------------------------------------------------------
\* A decision as a step: what the two verdicts leave in the two rows.
LEMMA GrantedType ==
  ASSUME NEW c \in Calls, NEW versions \in Versions
  PROVE  Granted(c, versions) \in ExecutionApproval
BY DEF Granted, ExecutionApproval

LEMMA InitIInv == Init => IInv
<1>. SUFFICES ASSUME Init PROVE IInv
  OBVIOUS
<1>1. NoVersions \in Versions
  BY DEF NoVersions, Versions
<1>2. AnyCall \in Calls
  BY ApprovalAssumption DEF AnyCall
<1>3. NoDecision \in Decision
  BY <1>1 DEF NoDecision, Decision
<1>4. TypeOK
  BY <1>1, <1>2, <1>3 DEF Init, TypeOK, Versions, HeldRequest,
     ExecutionApproval, Evaluation, Approvals
<1>5. SingleUse /\ DecisionsAudited /\ DecisionUnderLock
  BY DEF Init, SingleUse, DecisionsAudited, DecisionUnderLock, Locked,
     NoDecision, Approvals
<1>6. GrantedForHeldCall /\ GrantsAudited /\ ExecutedBacked
  BY DEF Init, GrantedForHeldCall, GrantsAudited, ExecutedBacked, Approvals
<1>7. ValidatedBacked
  BY DEF Init, ValidatedBacked
<1>. QED
  BY <1>4, <1>5, <1>6, <1>7 DEF IInv

-----------------------------------------------------------------------------
\* Steps that change neither the approvals nor what ran keep every backing.
LEMMA StillBacked ==
  ASSUME IInv, UNCHANGED <<approval, executed>>,
         UNCHANGED worker \/ \E w \in Workers : Finish(w)
  PROVE  ValidatedBacked' /\ ExecutedBacked'
<1>1. ExecutedBacked'
  BY DEF IInv, ExecutedBacked, Backs
<1>2. ValidatedBacked'
  BY DEF IInv, TypeOK, ValidatedBacked, Backs, Finish, Evaluation, Evaluating
<1>. QED
  BY <1>1, <1>2

LEMMA EditPolicyIInv ==
  ASSUME IInv, NEW p \in Gates, EditPolicy(p)
  PROVE  IInv'
<1>1. TypeOK'
  BY DEF IInv, EditPolicy, TypeOK, Versions
<1>2. /\ SingleUse' /\ DecisionsAudited' /\ DecisionUnderLock'
      /\ GrantedForHeldCall' /\ GrantsAudited'
  BY DEF IInv, EditPolicy, SingleUse, DecisionsAudited, DecisionUnderLock,
     Locked, GrantedForHeldCall, GrantsAudited
<1>3. ValidatedBacked' /\ ExecutedBacked'
  BY StillBacked DEF EditPolicy
<1>. QED
  BY <1>1, <1>2, <1>3 DEF IInv

\* A step that leaves every approval standing for the call and the versions it
\* was granted for keeps every backing.
LEMMA SameGrantsBacked ==
  ASSUME IInv, UNCHANGED <<worker, executed>>,
         \A a \in Approvals : approval[a].status # "none" =>
           /\ approval'[a].status # "none"
           /\ approval'[a].call = approval[a].call
           /\ approval'[a].versions = approval[a].versions
  PROVE  ValidatedBacked' /\ ExecutedBacked'
<1>1. \A w \in Workers : worker[w].token \in Approvals
  BY DEF IInv, TypeOK, Evaluation
<1>2. \A x \in executed : x.token \in Approvals
  BY DEF IInv, TypeOK, Execution
<1>. QED
  BY <1>1, <1>2 DEF IInv, ValidatedBacked, ExecutedBacked, Backs

LEMMA ExpiryIInv ==
  ASSUME IInv, Expiry
  PROVE  IInv'
<1>1. CASE \E r \in Requests :
             /\ request[r].status = "pending"
             /\ request' = [request EXCEPT ![r].expired = TRUE]
             /\ UNCHANGED approval
  <2>1. PICK r \in Requests :
          /\ request[r].status = "pending"
          /\ request' = [request EXCEPT ![r].expired = TRUE]
          /\ UNCHANGED approval
    BY <1>1
  <2>2. \A q \in Requests : /\ request'[q].status = request[q].status
                            /\ request'[q].call = request[q].call
    BY <2>1 DEF IInv, TypeOK, HeldRequest
  <2>3. request' \in [Requests -> HeldRequest]
    BY <2>1 DEF IInv, TypeOK, HeldRequest
  <2>4. TypeOK'
    BY <2>1, <2>2, <2>3 DEF IInv, TypeOK, Expiry
  <2>5. /\ SingleUse' /\ DecisionsAudited' /\ DecisionUnderLock'
        /\ GrantedForHeldCall' /\ GrantsAudited'
    BY <2>1, <2>2 DEF IInv, Expiry, SingleUse, DecisionsAudited, Locked,
       DecisionUnderLock, GrantedForHeldCall, GrantsAudited
  <2>6. ValidatedBacked' /\ ExecutedBacked'
    BY <2>1, SameGrantsBacked DEF Expiry
  <2>. QED
    BY <2>4, <2>5, <2>6 DEF IInv
<1>2. CASE \E a \in Approvals :
             /\ approval[a].status = "live"
             /\ approval' = [approval EXCEPT ![a].expired = TRUE]
             /\ UNCHANGED request
  <2>1. PICK a \in Approvals :
          /\ approval' = [approval EXCEPT ![a].expired = TRUE]
          /\ UNCHANGED request
    BY <1>2
  <2>2. \A b \in Approvals : /\ approval'[b].status = approval[b].status
                             /\ approval'[b].call = approval[b].call
                             /\ approval'[b].versions = approval[b].versions
    BY <2>1 DEF IInv, TypeOK, ExecutionApproval
  <2>3. approval' \in [Approvals -> ExecutionApproval]
    BY <2>1 DEF IInv, TypeOK, ExecutionApproval
  <2>4. TypeOK'
    BY <2>1, <2>2, <2>3 DEF IInv, TypeOK, Expiry, Approvals
  <2>5. /\ SingleUse' /\ DecisionsAudited' /\ DecisionUnderLock'
        /\ GrantedForHeldCall' /\ GrantsAudited'
    BY <2>1, <2>2 DEF IInv, Expiry, SingleUse, DecisionsAudited, Locked,
       DecisionUnderLock, GrantedForHeldCall, GrantsAudited, Approvals
  <2>6. ValidatedBacked' /\ ExecutedBacked'
    BY <2>2, SameGrantsBacked DEF Expiry
  <2>. QED
    BY <2>4, <2>5, <2>6 DEF IInv
<1>. QED
  BY <1>1, <1>2 DEF Expiry, Expire

LEMMA OpenRequestIInv ==
  ASSUME IInv, NEW r \in Requests, NEW c \in Calls, OpenRequest(r, c)
  PROVE  IInv'
<1>1. /\ request'[r] = [status |-> "pending", expired |-> FALSE, call |-> c]
      /\ \A q \in Requests : q # r => request'[q] = request[q]
      /\ request[r].status = "none"
  BY DEF IInv, TypeOK, OpenRequest
<1>2. approval[r].status = "none" /\ ~Locked(r)
  BY <1>1 DEF IInv, TypeOK, DecisionUnderLock
<1>3. TypeOK'
  <2>1. request' \in [Requests -> HeldRequest]
    BY DEF IInv, TypeOK, OpenRequest, HeldRequest
  <2>. QED
    BY <1>1, <1>2, <2>1 DEF IInv, TypeOK, OpenRequest
<1>4. /\ SingleUse' /\ DecisionsAudited' /\ DecisionUnderLock'
      /\ GrantedForHeldCall' /\ GrantsAudited'
  BY <1>1, <1>2 DEF IInv, OpenRequest, SingleUse, DecisionsAudited, Locked,
     DecisionUnderLock, GrantedForHeldCall, GrantsAudited
<1>5. ValidatedBacked' /\ ExecutedBacked'
  BY StillBacked DEF OpenRequest
<1>. QED
  BY <1>3, <1>4, <1>5 DEF IInv

-----------------------------------------------------------------------------
\* Steps on a request's row lock alone: they touch no approval and no request.
LEMMA LockOnlyIInv ==
  ASSUME IInv, UNCHANGED <<version, request, approval, worker, executed, uses>>,
         audited \subseteq audited', audited' \subseteq Approvals \X Verdicts,
         counted' \in [Requests -> Nat],
         deciding' \in [Requests -> Decision], DecisionUnderLock'
  PROVE  IInv'
<1>1. TypeOK'
  BY DEF IInv, TypeOK
<1>2. SingleUse' /\ DecisionsAudited' /\ GrantedForHeldCall' /\ GrantsAudited'
  BY DEF IInv, SingleUse, DecisionsAudited, GrantedForHeldCall, GrantsAudited
<1>3. ValidatedBacked' /\ ExecutedBacked'
  BY StillBacked
<1>. QED
  BY <1>1, <1>2, <1>3 DEF IInv

LEMMA NoDecisionType == NoDecision \in Decision /\ NoDecision.verdict = "none"
BY DEF NoDecision, Decision, NoVersions, Versions

LEMMA BeginDecisionIInv ==
  ASSUME IInv, NEW r \in Requests, NEW verdict \in Verdicts,
         BeginDecision(r, verdict)
  PROVE  IInv'
<1>. DEFINE d == [verdict |-> verdict, audited |-> FALSE, versions |-> version]
<1>1. d \in Decision
  BY DEF IInv, TypeOK, Decision
<1>2. deciding' = [deciding EXCEPT ![r] = d]
  BY DEF BeginDecision
<1>3. deciding' \in [Requests -> Decision]
  BY <1>1, <1>2 DEF IInv, TypeOK
<1>4. counted' \in [Requests -> Nat]
  BY DEF BeginDecision, IInv, TypeOK
<1>5. DecisionUnderLock'
  <2>1. deciding'[r].audited = FALSE
    BY <1>2 DEF IInv, TypeOK
  <2>2. \A q \in Requests : q # r => deciding'[q] = deciding[q]
    BY <1>2 DEF IInv, TypeOK
  <2>. QED
    BY <2>1, <2>2 DEF BeginDecision, IInv, DecisionUnderLock, Locked
<1>. QED
  BY <1>3, <1>4, <1>5, LockOnlyIInv DEF BeginDecision, IInv, TypeOK

LEMMA AuditDecisionIInv ==
  ASSUME IInv, NEW r \in Requests, AuditDecision(r)
  PROVE  IInv'
<1>1. deciding[r] \in Decision /\ deciding[r].verdict \in Verdicts
  BY DEF IInv, TypeOK, AuditDecision, Locked, Decision
<1>2. audited' \subseteq Approvals \X Verdicts
  BY <1>1 DEF IInv, TypeOK, AuditDecision, Approvals
<1>3. /\ deciding' \in [Requests -> Decision]
      /\ \A q \in Requests : deciding'[q].verdict = deciding[q].verdict
      /\ \A q \in Requests : q # r => deciding'[q] = deciding[q]
  BY DEF IInv, TypeOK, AuditDecision, Decision
<1>4. DecisionUnderLock'
  BY <1>3 DEF IInv, DecisionUnderLock, AuditDecision, Locked
<1>. QED
  BY <1>2, <1>3, <1>4, LockOnlyIInv DEF AuditDecision, IInv, TypeOK

LEMMA RollbackDecisionIInv ==
  ASSUME IInv, NEW r \in Requests, RollbackDecision(r)
  PROVE  IInv'
<1>1. deciding' \in [Requests -> Decision]
  BY NoDecisionType DEF IInv, TypeOK, RollbackDecision
<1>2. DecisionUnderLock'
  BY NoDecisionType DEF IInv, TypeOK, RollbackDecision, DecisionUnderLock,
     Locked
<1>. QED
  BY <1>1, <1>2, LockOnlyIInv DEF RollbackDecision, IInv, TypeOK

\* A new approval: it stands where none stood, so it disturbs no backing.
LEMMA NewGrant ==
  ASSUME IInv, NEW a \in Approvals, NEW c \in Calls, NEW versions \in Versions,
         approval[a].status = "none",
         approval' = [approval EXCEPT ![a] = Granted(c, versions)],
         UNCHANGED <<worker, executed, uses>>
  PROVE  /\ approval' \in [Approvals -> ExecutionApproval]
         /\ approval'[a].status = "live" /\ approval'[a].call = c
         /\ \A b \in Approvals : b # a => approval'[b] = approval[b]
         /\ SingleUse' /\ ValidatedBacked' /\ ExecutedBacked'
<1>1. Granted(c, versions) \in ExecutionApproval
  BY GrantedType
<1>2. /\ approval' \in [Approvals -> ExecutionApproval]
      /\ approval'[a].status = "live" /\ approval'[a].call = c
      /\ \A b \in Approvals : b # a => approval'[b] = approval[b]
  BY <1>1 DEF IInv, TypeOK, Granted
<1>3. SingleUse'
  BY <1>2 DEF IInv, SingleUse
<1>4. ValidatedBacked' /\ ExecutedBacked'
  BY <1>2, SameGrantsBacked
<1>. QED
  BY <1>2, <1>3, <1>4

LEMMA CommitDecisionIInv ==
  ASSUME IInv, NEW r \in Requests, CommitDecision(r)
  PROVE  IInv'
<1>. DEFINE approve == deciding[r].verdict = "approve"
<1>1. /\ deciding[r] \in Decision /\ deciding[r].verdict \in Verdicts
      /\ request[r].status = "pending"
      /\ <<r, deciding[r].verdict>> \in audited
  BY DEF IInv, TypeOK, CommitDecision, DecisionUnderLock, Locked, Decision
<1>2. /\ request' \in [Requests -> HeldRequest]
      /\ request'[r].status = IF approve THEN "approved" ELSE "denied"
      /\ \A q \in Requests : request'[q].call = request[q].call
      /\ \A q \in Requests : q # r => request'[q] = request[q]
  BY DEF CommitDecision, IInv, TypeOK, HeldRequest
<1>3. /\ deciding' \in [Requests -> Decision]
      /\ ~Locked(r)'
      /\ \A q \in Requests : q # r => deciding'[q] = deciding[q]
  BY NoDecisionType DEF CommitDecision, IInv, TypeOK, Locked
<1>4. DecisionUnderLock'
  BY <1>2, <1>3 DEF CommitDecision, IInv, DecisionUnderLock, Locked
<1>5. r \in Approvals /\ approval[r].status = "none"
  BY <1>1 DEF IInv, TypeOK, Approvals
<1>6. CASE approve
  <2>1. approval' = [approval EXCEPT ![r] = Granted(request[r].call,
                                                    deciding[r].versions)]
    BY <1>6 DEF CommitDecision
  <2>2. request[r].call \in Calls /\ deciding[r].versions \in Versions
    BY <1>1 DEF IInv, TypeOK, HeldRequest, Decision
  <2>3. /\ approval' \in [Approvals -> ExecutionApproval]
        /\ approval'[r].status = "live" /\ approval'[r].call = request[r].call
        /\ \A b \in Approvals : b # r => approval'[b] = approval[b]
        /\ SingleUse' /\ ValidatedBacked' /\ ExecutedBacked'
    BY <1>5, <2>1, <2>2, NewGrant DEF CommitDecision
  <2>4. <<r, "approve">> \in audited
    BY <1>1, <1>6
  <2>5. TypeOK'
    BY <1>2, <1>3, <1>6, <2>3 DEF CommitDecision, IInv, TypeOK, Approvals
  <2>6. DecisionsAudited' /\ GrantedForHeldCall' /\ GrantsAudited'
    BY <1>2, <1>6, <2>3, <2>4 DEF CommitDecision, IInv, DecisionsAudited,
       GrantedForHeldCall, GrantsAudited, Approvals
  <2>. QED
    BY <1>4, <2>3, <2>5, <2>6 DEF IInv
<1>7. CASE ~approve
  <2>1. UNCHANGED approval /\ <<r, "deny">> \in audited
    BY <1>1, <1>7 DEF CommitDecision, Verdicts
  <2>2. TypeOK'
    BY <1>2, <1>3, <1>5, <1>7, <2>1 DEF CommitDecision, IInv, TypeOK
  <2>3. /\ SingleUse' /\ DecisionsAudited' /\ GrantedForHeldCall'
        /\ GrantsAudited'
    BY <1>2, <1>7, <2>1 DEF CommitDecision, IInv, SingleUse, DecisionsAudited,
       GrantedForHeldCall, GrantsAudited
  <2>4. ValidatedBacked' /\ ExecutedBacked'
    BY <2>1, StillBacked DEF CommitDecision
  <2>. QED
    BY <1>4, <2>2, <2>3, <2>4 DEF IInv
<1>. QED
  BY <1>6, <1>7

LEMMA IssueApprovalIInv ==
  ASSUME IInv, NEW i \in Issues, NEW c \in Calls, IssueApproval(i, c)
  PROVE  IInv'
<1>1. i \in Approvals /\ i \notin Requests /\ version \in Versions
  BY ApprovalAssumption DEF Approvals, IInv, TypeOK
<1>2. /\ approval' \in [Approvals -> ExecutionApproval]
      /\ \A b \in Approvals : b # i => approval'[b] = approval[b]
      /\ SingleUse' /\ ValidatedBacked' /\ ExecutedBacked'
  BY <1>1, NewGrant DEF IssueApproval
<1>3. TypeOK'
  BY <1>1, <1>2 DEF IssueApproval, IInv, TypeOK, Approvals, Verdicts
<1>4. /\ DecisionsAudited' /\ DecisionUnderLock' /\ GrantedForHeldCall'
      /\ GrantsAudited'
  BY <1>1, <1>2 DEF IssueApproval, IInv, DecisionsAudited, DecisionUnderLock,
     Locked, GrantedForHeldCall, GrantsAudited, Approvals
<1>. QED
  BY <1>2, <1>3, <1>4 DEF IInv

-----------------------------------------------------------------------------
LEMMA ValidateIInv ==
  ASSUME IInv, NEW w \in Workers, NEW c \in Calls, NEW a \in Approvals,
         NEW seen \in [Gates -> 1..MaxVersion], Validate(w, c, a, seen)
  PROVE  IInv'
<1>. DEFINE e == Evaluating("validated", c, a, seen)
<1>1. seen \in Versions
  BY DEF Versions
<1>2. /\ e \in Evaluation /\ e.call = c /\ e.token = a /\ e.versions = seen
  BY <1>1 DEF Evaluating, Evaluation
<1>3. worker' = [worker EXCEPT ![w] = e]
  BY DEF Validate
<1>. HIDE DEF e
<1>4. TypeOK'
  BY <1>2, <1>3 DEF IInv, TypeOK, Validate
<1>5. /\ SingleUse' /\ DecisionsAudited' /\ DecisionUnderLock'
      /\ GrantedForHeldCall' /\ GrantsAudited' /\ ExecutedBacked'
  BY DEF Validate, IInv, SingleUse, DecisionsAudited, DecisionUnderLock,
     Locked, GrantedForHeldCall, GrantsAudited, ExecutedBacked, Backs
<1>6. ValidatedBacked'
  <2>1. worker'[w] = e /\ \A v \in Workers : v # w => worker'[v] = worker[v]
    BY <1>3 DEF IInv, TypeOK
  <2>2. Backs(a, c, seen) /\ UNCHANGED approval
    BY DEF Validate, Validates, Usable, Backs
  <2>. QED
    BY <1>2, <2>1, <2>2 DEF IInv, ValidatedBacked, Backs
<1>. QED
  BY <1>4, <1>5, <1>6 DEF IInv

LEMMA FinishType ==
  ASSUME IInv, NEW w \in Workers, Finish(w)
  PROVE  /\ worker' \in [Workers -> Evaluation]
         /\ worker'[w].stage = "idle"
         /\ \A v \in Workers : v # w => worker'[v] = worker[v]
BY DEF IInv, TypeOK, Finish, Evaluating, Evaluation

LEMMA AdmitIInv ==
  ASSUME IInv, NEW w \in Workers, Admit(w)
  PROVE  IInv'
<1>. DEFINE e == worker[w]
            a == e.token
            x == [call |-> e.call, token |-> a, versions |-> e.versions]
<1>1. /\ e \in Evaluation /\ e.stage = "validated" /\ a \in Approvals
      /\ Backs(a, e.call, e.versions)
  BY DEF Admit, IInv, TypeOK, Evaluation, ValidatedBacked
<1>2. /\ x \in Execution /\ x.call = e.call /\ x.token = a
      /\ x.versions = e.versions
  BY <1>1 DEF Evaluation, Execution
<1>3. approval[a].status = "live" /\ uses[a] = 0
  BY <1>1 DEF Admit, Usable, IInv, SingleUse
<1>4. /\ approval' = [approval EXCEPT ![a].status = "consumed"]
      /\ executed' = executed \cup {x}
      /\ uses' = [uses EXCEPT ![a] = uses[a] + 1]
      /\ Finish(w)
      /\ UNCHANGED <<version, request, deciding, audited, counted>>
  BY DEF Admit
<1>. HIDE DEF e, a, x
<1>5. /\ approval' \in [Approvals -> ExecutionApproval]
      /\ approval'[a].status = "consumed"
      /\ \A b \in Approvals : b # a => approval'[b] = approval[b]
      /\ \A b \in Approvals : /\ approval'[b].call = approval[b].call
                              /\ approval'[b].versions = approval[b].versions
  BY <1>1, <1>4 DEF IInv, TypeOK, ExecutionApproval
<1>6. /\ uses' \in [Approvals -> Nat] /\ uses'[a] = 1
      /\ \A b \in Approvals : b # a => uses'[b] = uses[b]
  BY <1>1, <1>3, <1>4 DEF IInv, TypeOK
<1>7. \A b \in Approvals :
        approval'[b].status = "none" <=> approval[b].status = "none"
  BY <1>1, <1>3, <1>5
<1>8. TypeOK'
  BY <1>2, <1>4, <1>5, <1>6, <1>7, FinishType DEF IInv, TypeOK, Approvals
<1>9. SingleUse'
  BY <1>5, <1>6 DEF IInv, SingleUse
<1>10. /\ DecisionsAudited' /\ DecisionUnderLock' /\ GrantedForHeldCall'
       /\ GrantsAudited'
  BY <1>4, <1>5, <1>7 DEF IInv, DecisionsAudited, DecisionUnderLock, Locked,
     GrantedForHeldCall, GrantsAudited, Approvals
<1>11. ExecutedBacked'
  <2>. SUFFICES ASSUME NEW y \in executed'
                PROVE  Backs(y.token, y.call, y.versions)'
    BY DEF ExecutedBacked
  <2>1. CASE y \in executed
    <3>1. y.token \in Approvals
      BY <2>1 DEF IInv, TypeOK, Execution
    <3>. QED
      BY <1>5, <1>7, <2>1, <3>1 DEF IInv, ExecutedBacked, Backs
  <2>2. CASE y = x
    <3>1. Backs(y.token, y.call, y.versions) /\ y.token = a
      BY <1>1, <1>2, <2>2
    <3>. QED
      BY <1>1, <1>5, <1>7, <3>1 DEF Backs
  <2>. QED
    BY <1>4, <2>1, <2>2
<1>12. ValidatedBacked'
  <2>1. \A v \in Workers : worker[v].token \in Approvals
    BY DEF IInv, TypeOK, Evaluation
  <2>2. ASSUME NEW v \in Workers, worker'[v].stage = "validated"
        PROVE  Backs(worker[v].token, worker[v].call, worker[v].versions)'
    <3>1. worker'[v] = worker[v]
      BY <1>4, <2>2, FinishType
    <3>. QED
      BY <1>5, <1>7, <2>1, <2>2, <3>1 DEF IInv, ValidatedBacked, Backs
  <2>. QED
    BY <2>2 DEF ValidatedBacked
<1>. QED
  BY <1>8, <1>9, <1>10, <1>11, <1>12 DEF IInv

LEMMA RefuseIInv ==
  ASSUME IInv, NEW w \in Workers, Refuse(w)
  PROVE  IInv'
<1>1. TypeOK'
  BY FinishType DEF IInv, TypeOK, Refuse
<1>2. /\ SingleUse' /\ DecisionsAudited' /\ DecisionUnderLock'
      /\ GrantedForHeldCall' /\ GrantsAudited'
  BY DEF Refuse, IInv, SingleUse, DecisionsAudited, DecisionUnderLock,
     Locked, GrantedForHeldCall, GrantsAudited
<1>3. ValidatedBacked' /\ ExecutedBacked'
  BY StillBacked DEF Refuse
<1>. QED
  BY <1>1, <1>2, <1>3 DEF IInv

LEMMA NextIInv == IInv /\ [Next]_vars => IInv'
<1>. SUFFICES ASSUME IInv, [Next]_vars PROVE IInv'
  OBVIOUS
<1>1. CASE \E p \in Gates : EditPolicy(p)
  BY <1>1, EditPolicyIInv
<1>2. CASE Expiry
  BY <1>2, ExpiryIInv
<1>3. CASE \E r \in Requests, c \in Calls : OpenRequest(r, c)
  BY <1>3, OpenRequestIInv
<1>4. CASE \E r \in Requests, verdict \in Verdicts : BeginDecision(r, verdict)
  BY <1>4, BeginDecisionIInv
<1>5. CASE \E r \in Requests : AuditDecision(r)
  BY <1>5, AuditDecisionIInv
<1>6. CASE \E r \in Requests : CommitDecision(r)
  BY <1>6, CommitDecisionIInv
<1>7. CASE \E r \in Requests : RollbackDecision(r)
  BY <1>7, RollbackDecisionIInv
<1>8. CASE \E i \in Issues, c \in Calls : IssueApproval(i, c)
  BY <1>8, IssueApprovalIInv
<1>9. CASE \E w \in Workers, c \in Calls, a \in Approvals,
              seen \in [Gates -> 1..MaxVersion] : Validate(w, c, a, seen)
  BY <1>9, ValidateIInv
<1>10. CASE \E w \in Workers : Admit(w)
  BY <1>10, AdmitIInv
<1>11. CASE \E w \in Workers : Refuse(w)
  BY <1>11, RefuseIInv
<1>12. CASE UNCHANGED vars
  <2>1. /\ TypeOK' /\ SingleUse' /\ DecisionsAudited' /\ DecisionUnderLock'
        /\ GrantedForHeldCall' /\ GrantsAudited'
    BY <1>12 DEF vars, IInv, TypeOK, SingleUse, DecisionsAudited,
       DecisionUnderLock, Locked, GrantedForHeldCall, GrantsAudited
  <2>2. ValidatedBacked' /\ ExecutedBacked'
    BY <1>12, StillBacked DEF vars
  <2>. QED
    BY <2>1, <2>2 DEF IInv
<1>. QED
  BY <1>1, <1>2, <1>3, <1>4, <1>5, <1>6, <1>7, <1>8, <1>9, <1>10, <1>11,
     <1>12 DEF Next

LEMMA Invariance == Spec => []IInv
BY InitIInv, NextIInv, PTL DEF Spec

-----------------------------------------------------------------------------
\* Types hold throughout, and an approval comes of a request exactly when the
\* request stands approved: the two rows commit together or not at all.
THEOREM TypeCorrect == Spec => []TypeOK
BY Invariance, PTL DEF IInv

\* One approval releases at most one call, and is spent only by a call that
\* ran, whatever number of workers present it at once (consume_approvals).
THEOREM ApprovalsAreSingleUse == Spec => []SingleUse
BY Invariance, PTL DEF IInv

\* No operator decision stands without its audit record, although the record
\* commits on another database (the decision view's comment).
THEOREM NoUnrecordedDecision == Spec => []DecisionsAudited
BY Invariance, PTL DEF IInv

\* Every gated call that ran was approved, for exactly that call and for the
\* policy versions the evaluation enforced, by a recorded human decision.
THEOREM OnlyApprovedCallsRun == Spec => []ExecutionAuthorized
<1>1. IInv => ExecutionAuthorized
  <2>. SUFFICES ASSUME IInv, NEW x \in executed
                PROVE  /\ approval[x.token].call = x.call
                       /\ <<x.token, "approve">> \in audited
                       /\ \A p \in Gated[x.call] :
                            approval[x.token].versions[p] = x.versions[p]
                       /\ x.token \in Requests =>
                            /\ request[x.token].status = "approved"
                            /\ request[x.token].call = x.call
    BY DEF ExecutionAuthorized
  <2>1. Backs(x.token, x.call, x.versions) /\ x.token \in Approvals
    BY DEF IInv, ExecutedBacked, TypeOK, Execution
  <2>2. <<x.token, "approve">> \in audited
    BY <2>1 DEF IInv, GrantsAudited, Backs
  <2>3. x.token \in Requests => /\ request[x.token].status = "approved"
                                /\ request[x.token].call = x.call
    BY <2>1 DEF IInv, TypeOK, GrantedForHeldCall, Backs
  <2>. QED
    BY <2>1, <2>2, <2>3 DEF Backs
<1>. QED
  BY <1>1, Invariance, PTL

\* A request takes one decision and keeps it.
THEOREM DecisionsAreFinal == Spec => OneDecision
<1>1. IInv /\ [Next]_vars =>
        [\A r \in Requests : request[r].status \in {"approved", "denied"} =>
           request'[r] = request[r]]_vars
  <2>. SUFFICES ASSUME IInv, Next, NEW r \in Requests,
                       request[r].status \in {"approved", "denied"}
                PROVE  request'[r] = request[r]
    OBVIOUS
  <2>1. CASE Expiry
    BY <2>1 DEF Expiry, Expire, IInv, TypeOK
  <2>2. ASSUME NEW q \in Requests, CommitDecision(q)
        PROVE  request'[r] = request[r]
    <3>1. request[q].status = "pending"
      BY <2>2 DEF CommitDecision, IInv, DecisionUnderLock
    <3>. QED
      BY <2>2, <3>1 DEF CommitDecision, IInv, TypeOK
  <2>3. ASSUME NEW q \in Requests, NEW c \in Calls, OpenRequest(q, c)
        PROVE  request'[r] = request[r]
    BY <2>3 DEF OpenRequest, IInv, TypeOK
  <2>. QED
    BY <2>1, <2>2, <2>3 DEF Next, EditPolicy, BeginDecision, AuditDecision,
       RollbackDecision, IssueApproval, Validate, Admit, Refuse
<1>. QED
  BY <1>1, Invariance, PTL DEF Spec, OneDecision
=============================================================================
