--------------------------- MODULE PolicyDecision ---------------------------
(***************************************************************************)
(* What an evaluation decides from the policies that apply to a workload.  *)
(*   services/policy_engine.py  merging, evaluate, holding and counting    *)
(*   services/actions.py        escalation, the mode ceiling, fallback     *)
(*   services/risk_scorer.py, services/incident_service.py  severity       *)
(*   models/actions.py          the order of actions                       *)
(*                                                                         *)
(* A rule is a policy with what its evaluator says of the call at hand     *)
(* (its outcome), so that a behaviour is about one action and context,     *)
(* evaluated as often as the workload likes while operators add rules.     *)
(***************************************************************************)
EXTENDS Integers, Sequences, FiniteSets, SequencesExt

CONSTANTS
  Catalogue,  \* the rules operators may write
  Bases,      \* risk scores of the action and its data
  Targets,    \* the sets of capabilities a target may declare
  MaxRules,   \* rules in force: a bound
  MaxMatches  \* matches counted of a rule in a window: a bound

\* ACTION_ORDER, a block standing for its level in BLOCK_LEVEL_ORDER.
Order == <<"log", "alert", "warn", "steer", "redact", "require_approval",
           "tool_call", "turn", "revoke_key", "stop", "quarantine">>
Actions == ToSet(Order)
Rank == [a \in Actions |-> CHOOSE i \in DOMAIN Order : Order[i] = a]
Strongest(actions) == CHOOSE a \in actions : \A b \in actions : Rank[b] <= Rank[a]
Blocks == {a \in Actions : Rank[a] >= Rank["tool_call"]}
Refusing == Blocks \cup {"redact", "require_approval"}

\* SEVERITY_ORDER by index: info, low, medium, high, critical.
Severities == 0..4
Steps(thresholds) == SUBSET [at : thresholds, action : Actions]

\* An outcome "ask" fails for want of an approval only, and "advisory" may
\* never refuse; "error" is an evaluator that raised, "malformed" a rule whose
\* selectors cannot be read.
ASSUME DecisionAssumption ==
  /\ \A r \in Catalogue :
       /\ DOMAIN r = {"id", "scope", "priority", "type", "group", "mandatory",
                      "mode", "action", "repeat", "severity", "outcome"}
       /\ r.id \in Int /\ r.scope \in 1..5 /\ r.priority \in Int
       /\ r.type # "independent"  \* no PolicyType has the name of the other keys
       /\ r.mandatory \in BOOLEAN /\ r.action \in Actions
       /\ r.mode \in {"enforce", "audit", "disabled"}
       /\ r.outcome \in {"pass", "match", "ask", "advisory", "error", "malformed"}
       /\ r.repeat \in Steps(2..MaxMatches) /\ r.severity \in Steps(Severities)
       \* normalize_escalation: each ladder rises from the rule's own action.
       /\ \A ladder \in {r.repeat, r.severity} : \A s \in ladder :
            /\ Rank[s.action] > Rank[r.action]
            /\ \A t \in ladder : s.at < t.at => Rank[s.action] < Rank[t.action]
  /\ \A r, s \in Catalogue : r.id = s.id => r = s
  /\ Bases \subseteq 0..50
  /\ MaxRules \in Nat /\ MaxMatches \in Nat

VARIABLES
  rules,   \* the enabled rules whose scope and selectors match the workload
  policies,\* get_effective_policies: those of them that are evaluated
  matches, \* [Catalogue -> Nat]: count_match's counters, 0 when not there
  pending  \* the counts that wait for the decision on a held call

decisionVars == <<rules, policies, matches, pending>>

\* token: a valid approval of this call is presented.  admitted: what admit()
\* would answer.  holds: a host that keeps the call pending.
Requests == [base : Bases, token : BOOLEAN, admitted : BOOLEAN,
             holds : BOOLEAN, dry_run : BOOLEAN]

DecisionInit ==
  /\ rules = {} /\ policies = {}
  /\ matches = [r \in Catalogue |-> 0]
  /\ pending = {}

-----------------------------------------------------------------------------
(***************************************************************************)
(* _merge_policies: layer by layer, and in a layer by priority and id, a   *)
(* policy replaces the earlier one with its key.                           *)
(***************************************************************************)
Independent(r) == r.mandatory \/ r.group = ""
MergeKey(r) == IF Independent(r) THEN <<"independent", r.id>> ELSE <<r.type, r.group>>

\* Faulty: ranks a policy of high priority over one of a narrower scope.
BeforeByPriority(r, s) ==
  \/ r.priority < s.priority
  \/ r.priority = s.priority /\ r.scope < s.scope
  \/ r.priority = s.priority /\ r.scope = s.scope /\ r.id < s.id

Before(r, s) ==
  \/ r.scope < s.scope
  \/ r.scope = s.scope /\ r.priority < s.priority
  \/ r.scope = s.scope /\ r.priority = s.priority /\ r.id < s.id

\* The order of the loops: layer by layer, each sorted.
InOrder(layers) ==
  CHOOSE order \in SetToSeqs(layers) :
    \A i, j \in DOMAIN order : i < j => Before(order[i], order[j])

Merge(layers) ==
  LET replace(merged, r) ==
        [k \in DOMAIN merged \cup {MergeKey(r)} |->
           IF k = MergeKey(r) THEN r ELSE merged[k]]
  IN  Range(FoldLeft(replace, << >>, InOrder(layers)))

-----------------------------------------------------------------------------
(***************************************************************************)
(* evaluate: first every rule is evaluated, then the severity of the whole *)
(* is known, then each match is decided.                                   *)
(***************************************************************************)
\* An evaluator that asks for approval checks the token itself.
Failing(q) ==
  {r \in policies : /\ r.mode # "disabled" /\ r.outcome # "pass"
                    /\ ~(r.outcome = "ask" /\ q.token)}

\* RiskScorer: 7 for every failure up to 35, 3 for every audit warning up to 15,
\* on top of what the action and its data score.
ViolationScore(failing) == LET n == Cardinality(failing) IN IF n < 5 THEN 7 * n ELSE 35
AuditScore(audits) == LET n == Cardinality(audits) IN IF n < 5 THEN 3 * n ELSE 15

Score(q) ==
  q.base + ViolationScore(Failing(q))
         + AuditScore({r \in Failing(q) : r.mode = "audit" /\ r.outcome # "malformed"})

\* _risk_score_to_severity.
SeverityOf(score) ==
  CASE score >= 80 -> 4 [] score \in 60..79 -> 3 [] score \in 40..59 -> 2 [] OTHER -> 1

\* _escalation_severity: of the whole evaluation, before any rule is decided.
Severity(q) == SeverityOf(Score(q))

OwnAction(r) ==
  IF r.outcome = "ask" /\ Rank[r.action] > Rank["require_approval"]
  THEN "require_approval" ELSE r.action

Reached(ladder, level) == {s.action : s \in {t \in ladder : level >= t.at}}

\* Faulty: a severity step sets the action, whatever repeats have raised it to.
EscalateToSeverity(r, count, severity) ==
  IF Reached(r.severity, severity) # {} THEN Reached(r.severity, severity)
  ELSE {OwnAction(r)} \cup Reached(r.repeat, count)

\* decide: every action a match reaches, by repeats and by severity.
Escalate(r, count, severity) ==
  {OwnAction(r)} \cup Reached(r.repeat, count) \cup Reached(r.severity, severity)

\* _decide and _fail_closed: enforce takes the strongest action reached, audit
\* only records or alerts, and what cannot be evaluated is refused under enforce.
Decide(r, severity) ==
  LET reached   == Escalate(r, matches[r] + 1, severity)
      strongest == Strongest(reached)
  IN  IF r.outcome \in {"error", "malformed"}
      THEN IF r.mode = "enforce" THEN "tool_call" ELSE "log"
      ELSE IF r.mode = "audit" THEN IF "alert" \in reached THEN "alert" ELSE "log"
      ELSE IF r.outcome = "advisory" /\ strongest \in Refusing THEN "alert"
      ELSE strongest

\* _released_by_approval: of rules whose own action asks for one.
Released(r, decision, q) ==
  q.token /\ r.mode = "enforce" /\ r.outcome = "match" /\ decision = "require_approval"

\* The decisions of an evaluation: a function on the rules that failed and
\* that no approval has released.
Decisions(q) ==
  LET severity == Severity(q)
      decided  == [r \in Failing(q) |-> Decide(r, severity)]
  IN  [r \in {r \in Failing(q) : ~Released(r, decided[r], q)} |-> decided[r]]

Denials(d) == {r \in DOMAIN d : r.mode = "enforce" /\ d[r] \in Refusing}

\* Faulty: a rule that cannot be read does not clear approval_only.
ApprovalOnlyOfRead(d) ==
  \A r \in Denials(d) : d[r] = "require_approval" \/ r.outcome = "malformed"

ApprovalOnly(d) == \A r \in Denials(d) : d[r] = "require_approval"

Allowed(q) == q.dry_run \/ (Denials(Decisions(q)) = {} /\ q.admitted)

ApprovalRequired(q) ==
  LET d == Decisions(q) IN ~q.dry_run /\ Denials(d) # {} /\ ApprovalOnly(d)

\* The matches a repeat ladder counts; those of them that an approval may
\* still release wait for the decision on the held call.
Countable(d) ==
  {r \in DOMAIN d : r.repeat # {} /\ r.outcome \notin {"error", "malformed"}}

Waiting(q, d) ==
  IF q.holds /\ ApprovalRequired(q)
  THEN {r \in Countable(d) : d[r] = "require_approval"} ELSE {}

\* summarize: the strongest decision, a refused admission among them.
Decisive(q) ==
  LET d     == Decisions(q)
      taken == Range(d) \cup IF ~q.dry_run /\ Denials(d) = {} /\ ~q.admitted
                              THEN {"tool_call"} ELSE {}
  IN  IF taken = {} THEN "none" ELSE Strongest(taken)

-----------------------------------------------------------------------------
(***************************************************************************)
(* What a target that cannot honour the decision does instead.             *)
(***************************************************************************)
\* What takes no capability; the others take one each, named here like them.
Unconditional == {"log", "alert", "warn", "tool_call"}

Chain(a) ==
  CASE a = "tool_call" -> <<a>>
    [] a \in Blocks \ {"tool_call"} ->
         SubSeq(Order, Rank[a], Len(Order)) \o <<"tool_call">>
    [] a = "steer" -> <<"steer", "warn">>
    [] a \in {"redact", "require_approval"} -> <<a, "tool_call">>
    [] OTHER -> <<a>>

\* Faulty: takes a target's word that it can redact.
HonourableAsDeclared(target) == Unconditional \cup target

\* No evaluation has redacted content to hand back.
Honourable(target) == Unconditional \cup (target \ {"redact"})

Select(chain, target) ==
  LET options == {i \in DOMAIN chain : chain[i] \in Honourable(target)}
  IN  IF options = {} THEN Last(chain) ELSE chain[Min(options)]

-----------------------------------------------------------------------------
\* An operator writes a rule that applies to the workload.
Enact(r) ==
  /\ Cardinality(rules) < MaxRules
  /\ r \notin rules
  /\ rules' = rules \cup {r}
  /\ policies' = Merge(rules')
  /\ UNCHANGED <<matches, pending>>

CountMatches(counted) ==
  /\ \A r \in counted : matches[r] < MaxMatches
  /\ matches' = [r \in Catalogue |-> IF r \in counted THEN matches[r] + 1
                                    ELSE matches[r]]

\* /evaluate; a bound: one held call with counts to come at a time.
Evaluate(q) ==
  LET d == Decisions(q)
  IN  /\ Waiting(q, d) # {} => pending = {}
      /\ CountMatches(IF q.dry_run THEN {} ELSE Countable(d) \ Waiting(q, d))
      /\ pending' = pending \cup Waiting(q, d)
      /\ UNCHANGED <<rules, policies>>

\* decide_approval_request: a denial records the counts, an approval drops them.
Deny ==
  /\ pending # {}
  /\ CountMatches(pending)
  /\ pending' = {}
  /\ UNCHANGED <<rules, policies>>

Approve ==
  /\ pending # {}
  /\ pending' = {}
  /\ UNCHANGED <<rules, policies, matches>>

\* The counter of a rule expires.
WindowEnds(r) ==
  /\ matches[r] > 0
  /\ matches' = [matches EXCEPT ![r] = 0]
  /\ UNCHANGED <<rules, policies, pending>>

DecisionNext ==
  \/ \E r \in Catalogue : Enact(r)
  \/ \E q \in Requests : Evaluate(q)
  \/ Deny
  \/ Approve
  \/ \E r \in Catalogue : WindowEnds(r)

DecisionSpec == DecisionInit /\ [][DecisionNext]_decisionVars

-----------------------------------------------------------------------------
(***************************************************************************)
(* Properties, of any call the workload could make next.                   *)
(***************************************************************************)
DecisionTypeOK ==
  /\ rules \subseteq Catalogue /\ policies \subseteq rules
  /\ matches \in [Catalogue -> 0..MaxMatches]
  /\ pending \subseteq Catalogue

\* docs/dependable-controls.md:32: every independent policy composes; of those
\* with one type and override group the one of the more specific scope wins,
\* then priority; non_overridable controls always compose.
EffectiveAsDocumented ==
  LET overrides(s, r) ==
        /\ ~Independent(s) /\ s.type = r.type /\ s.group = r.group
        /\ \/ s.scope > r.scope
           \/ s.scope = r.scope /\ s.priority > r.priority
           \/ s.scope = r.scope /\ s.priority = r.priority /\ s.id > r.id
  IN  policies = {r \in rules : Independent(r) \/ \A s \in rules : ~overrides(s, r)}

\* "allowed" and the enforcement a target acts on never disagree: a call is
\* refused exactly if the decision reported refuses it, and whatever the target
\* declares, the option selected for it keeps the call from going through.
RefusalReachesTarget ==
  \A q \in {q \in Requests : ~q.dry_run} :
    /\ ~Allowed(q) <=> Decisive(q) \in Refusing
    /\ ~Allowed(q) => \A target \in Targets :
         Select(Chain(Decisive(q)), target) \in Blocks \cup {"require_approval"}

\* A redact rule that escalates to require_approval: an approval then releases
\* what the weaker redact refuses for good.
RedactEscalates(r) ==
  /\ \E s \in r.repeat \cup r.severity : s.action = "require_approval"
  /\ "redact" \in {r.action} \cup {s.action : s \in r.repeat \cup r.severity}

\* EvaluationResult.approval_required: "Denied only for want of a human
\* approval ... so an approval_token could release the action".  The approval
\* makes some rules pass, which lowers the severity the others are decided by.
ApprovalReleases ==
  \A q \in Requests :
    ApprovalRequired(q) /\ q.admitted =>
      \/ Allowed([q EXCEPT !.token = TRUE])
      \/ \E r \in rules : RedactEscalates(r)

\* A rule that composes never loosens an evaluation: it raises the severity
\* others are decided by, and what was refused without it is refused with it.
MoreRulesNeverLoosen ==
  [][\A q \in Requests :
       /\ rules \subseteq rules' /\ matches' = matches
       /\ \A r \in rules' \ rules : Independent(r)
       /\ \A r \in rules : ~RedactEscalates(r)
       => (Allowed(q)' => Allowed(q))]_rules
=============================================================================
