-------------------------- MODULE MCPolicyDecision --------------------------
(***************************************************************************)
(* Rules of every kind that meet: two override groups over three scopes,   *)
(* and each outcome, mode and ladder an evaluation tells apart.            *)
(***************************************************************************)
EXTENDS PolicyDecision

Rule(id, mode, action, outcome) ==
  [id |-> id, scope |-> 1, priority |-> 0, type |-> "t", group |-> "",
   mandatory |-> FALSE, mode |-> mode, action |-> action, repeat |-> {},
   severity |-> {}, outcome |-> outcome]

Grouped(id, scope, priority, mode) ==
  [Rule(id, mode, "tool_call", "match") EXCEPT !.scope = scope,
     !.priority = priority, !.group = "g"]

Step(at, action) == {[at |-> at, action |-> action]}

SomeRules ==
  {Rule(1, "enforce", "stop", "ask"),
   [Rule(2, "enforce", "require_approval", "match") EXCEPT
      !.repeat = Step(2, "revoke_key")],
   [Rule(3, "enforce", "warn", "match") EXCEPT
      !.repeat = Step(2, "turn"), !.severity = Step(3, "steer")],
   [Rule(4, "enforce", "redact", "match") EXCEPT
      !.severity = Step(3, "require_approval")],
   [Rule(5, "enforce", "log", "match") EXCEPT
      !.severity = Step(2, "steer") \cup Step(3, "require_approval")],
   [Rule(6, "audit", "log", "match") EXCEPT !.repeat = Step(2, "alert")],
   Rule(7, "enforce", "quarantine", "advisory"),
   Rule(8, "enforce", "warn", "error"),
   Rule(9, "enforce", "alert", "malformed"),
   Rule(10, "audit", "tool_call", "malformed"),
   Grouped(11, 1, 1, "enforce"),
   Grouped(12, 3, 0, "disabled"),
   Grouped(13, 3, 0, "enforce"),
   [Grouped(14, 2, 2, "enforce") EXCEPT !.type = "u"],
   [Grouped(15, 1, 2, "enforce") EXCEPT !.mandatory = TRUE],
   Rule(16, "enforce", "redact", "match")}

SomeTargets == {{}, {"redact", "steer"}, {"stop"},
                {"steer", "redact", "require_approval", "turn", "revoke_key",
                 "stop", "quarantine"}}
=============================================================================
