--------------------------- MODULE SharedCounters ---------------------------
(***************************************************************************)
(* Counters in the cache that all replicas share.                          *)
(*   services/evaluators/rate_limit.py   requests and tokens per window    *)
(*   services/evaluators/session_quota.py, services/session_state.py       *)
(*   services/actions.py count_match, decide                               *)
(*   services/policy_engine.py           preview, count, hold              *)
(*                                                                         *)
(* A counter is opened by add, which does nothing when it is there, and    *)
(* raised by incr, which is atomic and fails when it is not.  It expires   *)
(* at any moment, between any two operations of any evaluation: that ends  *)
(* a window, and the next add opens another.  The four uses have keys of   *)
(* their own, so a behaviour is about one of them, its kind.               *)
(***************************************************************************)
EXTENDS Integers, FiniteSets, FiniteSetsExt, Folds

CONSTANTS
  Calls,      \* evaluations that run at once, on any replica
  MaxAmount,  \* the most tokens, bytes or tool calls one call asks for
  Limit,      \* of requests or tokens in a window, or of a session's quota
  RuleAction, \* a rule's action, as its rank in ACTION_ORDER
  Repeat,     \* its repeat steps, [count, action]
  RequireApproval, \* the rank of require_approval
  MaxCalls,   \* calls made: a bound
  MaxWindows  \* windows that end: a bound

\* normalize_escalation: thresholds and actions increase from the rule's own.
ASSUME CountersAssumption ==
  /\ IsFiniteSet(Calls)
  /\ MaxAmount \in Nat \ {0} /\ Limit \in Nat \ {0}
  /\ MaxCalls \in Nat /\ MaxWindows \in Nat
  /\ RuleAction \in 0..6 /\ RequireApproval \in 0..6
  /\ Repeat \subseteq [count : Nat \ {0, 1}, action : 0..6]
  /\ \A s \in Repeat : s.action > RuleAction
  /\ \A s, t \in Repeat : s.count < t.count => s.action < t.action

VARIABLES
  kind,     \* "rate", "tokens", "session" or "match": never changes
  live,     \* the key is in the cache
  value,    \* what it holds, 0 when it is not there
  call,     \* [Calls -> Call]
  calls,    \* calls begun
  window,   \* history: windows that have ended
  admitted, \* history: requests, tokens or session uses admitted in the window
  strayed,  \* history: tokens given back in the window that were added earlier,
            \* or session uses admitted in it that were not read or not counted
  strongest \* history: the strongest decision made in the window

cacheVars == <<live, value>>
historyVars == <<admitted, strayed, strongest>>
vars == <<kind, cacheVars, call, calls, window, historyVars>>

\* window: the one the call was counted in.  The last three are history: whether
\* the read of the quota failed, the strongest decision of the window when the
\* call began, and whether another match counted, or the window ended, since its
\* preview.
Call == [stage : {"idle", "preview", "read", "add", "incr", "reopen", "retry", "set",
                  "give_back", "held"},
         amount : 0..MaxAmount, window : Nat, holds : BOOLEAN, counted : BOOLEAN,
         denied : BOOLEAN, unread : BOOLEAN, floor : 0..6, overtaken : BOOLEAN]

Idle == [stage |-> "idle", amount |-> 0, window |-> 0, holds |-> FALSE,
         counted |-> FALSE, denied |-> FALSE, unread |-> FALSE, floor |-> 0,
         overtaken |-> FALSE]

Init ==
  /\ kind \in {"rate", "tokens", "session", "match"}
  /\ live = FALSE /\ value = 0
  /\ call = [c \in Calls |-> Idle]
  /\ calls = 0 /\ window = 0
  /\ admitted = 0 /\ strayed = 0 /\ strongest = 0

Go(c, stage) == call' = [call EXCEPT ![c].stage = stage]
Done(c) == call' = [call EXCEPT ![c] = Idle]

\* decide: the rule's action, raised by every step the count has reached.
Decide(count) ==
  Max({RuleAction} \cup {s.action : s \in {t \in Repeat : count >= t.count}})

-----------------------------------------------------------------------------
\* A request or a match counts one; the caller says how many tokens, bytes or
\* tool calls its own is for, and a session is not charged for none.
\* hold_approvals: a host that keeps a held call pending.
Begin(c, amount, holds) ==
  /\ call[c].stage = "idle"
  /\ calls < MaxCalls
  /\ kind \in {"rate", "match"} => amount = 1
  /\ kind = "session" => amount > 0
  /\ holds => kind = "match"
  /\ calls' = calls + 1
  /\ call' = [call EXCEPT ![c] =
                [Idle EXCEPT !.stage = CASE kind = "session" -> "read"
                                         [] kind = "match"   -> "preview"
                                         [] OTHER            -> "add",
                             !.amount = amount, !.holds = holds,
                             !.floor = strongest]]
  /\ UNCHANGED <<kind, cacheVars, window, historyVars>>

\* Faulty: forgets the request at hand.
WithinQuotaSoFar(c) == value <= Limit

WithinQuota(c) == value + call[c].amount <= Limit

\* SessionQuotaEvaluator.evaluate reads the counters and checks them.
ReadQuota(c) ==
  /\ call[c].stage = "read"
  /\ IF WithinQuota(c) THEN Go(c, "add") ELSE Done(c)
  /\ UNCHANGED <<kind, cacheVars, calls, window, historyVars>>

\* get_all takes a cache that cannot be read for an empty session.
ReadFails(c) ==
  /\ call[c].stage = "read"
  /\ IF call[c].amount <= Limit
     THEN call' = [call EXCEPT ![c].stage = "add", ![c].unread = TRUE] ELSE Done(c)
  /\ UNCHANGED <<kind, cacheVars, calls, window, historyVars>>

WouldHold(c) == call[c].holds /\ Decide(value + 1) = RequireApproval

\* Faulty: counts a match before it is known to be held.
PreviewCounts(c) ==
  /\ call[c].stage = "preview"
  /\ WouldHold(c)
  /\ live' = TRUE /\ value' = value + 1
  /\ strongest' = Max({strongest, RequireApproval})
  /\ call' = [call EXCEPT ![c].stage = "held", ![c].counted = TRUE]
  /\ UNCHANGED <<kind, calls, window, admitted, strayed>>

\* The first decision of a match adds nothing to its count.  A call it would
\* hold for an approval is held, uncounted.
PreviewHolds(c) ==
  /\ call[c].stage = "preview"
  /\ WouldHold(c)
  /\ strongest' = Max({strongest, RequireApproval})
  /\ Go(c, "held")
  /\ UNCHANGED <<kind, cacheVars, calls, window, admitted, strayed>>

\* Any other is counted, and decided again from that count.
PreviewPasses(c) ==
  /\ call[c].stage = "preview"
  /\ ~WouldHold(c)
  /\ Go(c, "add")
  /\ UNCHANGED <<kind, cacheVars, calls, window, historyVars>>

\* Faulty: starts the counter again.
AddBySet(c) ==
  /\ call[c].stage = "add"
  /\ live' = TRUE /\ value' = 0
  /\ Go(c, "incr")
  /\ UNCHANGED <<kind, calls, window, historyVars>>

Add(c) ==
  /\ call[c].stage = "add"
  /\ live' = TRUE /\ UNCHANGED value
  /\ Go(c, "incr")
  /\ UNCHANGED <<kind, calls, window, historyVars>>

\* A match in progress after its preview, which another match overtakes.
InProgress(c) == call[c].stage \in {"add", "incr", "set"} /\ ~call[c].denied

\* A match has its count: a held call is refused by now, another is decided.
\* intact: no match of the window was lost.
Matched(c, count, intact) ==
  LET others == [d \in Calls |->
        [call[d] EXCEPT !.overtaken = @ \/ (d # c /\ InProgress(d)),
                        !.floor = IF intact THEN @ ELSE 0]]
      decision == Decide(count)
      seen == IF intact THEN strongest ELSE 0
  IN  IF call[c].denied
      THEN call' = [others EXCEPT ![c] = Idle] /\ strongest' = seen
      ELSE /\ strongest' = Max({seen, decision})
           /\ call' = [others EXCEPT ![c] =
                         IF @.holds /\ decision = RequireApproval
                         THEN [@ EXCEPT !.stage = "held", !.counted = TRUE] ELSE Idle]

\* What the new count means: a request or its tokens are refused above the
\* limit, a session's use was admitted before it was counted.
Counted(c, count) ==
  CASE kind = "match" ->
         Matched(c, count, TRUE) /\ UNCHANGED <<admitted, strayed>>
    [] kind = "tokens" /\ count > Limit ->
         /\ call' = [call EXCEPT ![c].stage = "give_back", ![c].window = window]
         /\ UNCHANGED <<admitted, strayed, strongest>>
    [] OTHER ->
         /\ admitted' = IF kind = "session" \/ count <= Limit
                        THEN admitted + call[c].amount ELSE admitted
         /\ strayed' = IF call[c].unread THEN strayed + call[c].amount ELSE strayed
         /\ Done(c)
         /\ UNCHANGED strongest

\* A call ends uncounted: the engine refuses it, a session's use is admitted.
Uncounted(c) ==
  /\ IF kind = "session"
     THEN /\ admitted' = admitted + call[c].amount
          /\ strayed' = strayed + call[c].amount
     ELSE UNCHANGED <<admitted, strayed>>
  /\ Done(c)
  /\ UNCHANGED strongest

\* cache.incr fails when the window ended since the add.
Incr(c) ==
  /\ call[c].stage = "incr"
  /\ IF live
     THEN value' = value + call[c].amount /\ Counted(c, value')
     ELSE /\ Go(c, IF kind = "match" THEN "set" ELSE "reopen")
          /\ UNCHANGED <<value, historyVars>>
  /\ UNCHANGED <<kind, live, calls, window>>

\* Faulty: opens the next window by set, over whoever opened it first.
ReopenBySet(c) ==
  /\ call[c].stage = "reopen"
  /\ live' = TRUE /\ value' = 0
  /\ Go(c, "retry")
  /\ UNCHANGED <<kind, calls, window, historyVars>>

\* add_to_counter opens the next window and tries once more.
Reopen(c) ==
  /\ call[c].stage = "reopen"
  /\ live' = TRUE /\ UNCHANGED value
  /\ Go(c, "retry")
  /\ UNCHANGED <<kind, calls, window, historyVars>>

\* A second ValueError is the end of it.
Retry(c) ==
  /\ call[c].stage = "retry"
  /\ IF live
     THEN value' = value + call[c].amount /\ Counted(c, value')
     ELSE UNCHANGED value /\ Uncounted(c)
  /\ UNCHANGED <<kind, live, calls, window>>

\* SessionQuotaEvaluator fails open when the cache does, before the count.
CountFails(c) ==
  /\ kind = "session"
  /\ call[c].stage \in {"add", "incr", "reopen", "retry"}
  /\ Uncounted(c)
  /\ UNCHANGED <<kind, cacheVars, calls, window>>

\* count_match opens the next window by set: matches counted there are lost.
SetOne(c) ==
  /\ call[c].stage = "set"
  /\ live' = TRUE /\ value' = 1
  /\ Matched(c, 1, value = 0)
  /\ UNCHANGED <<kind, calls, window, admitted, strayed>>

\* Faulty: a counter that is gone is made again.
GiveBackAnyway(c) ==
  /\ call[c].stage = "give_back"
  /\ value' = value - call[c].amount
  /\ strayed' = IF live /\ call[c].window # window THEN strayed + call[c].amount ELSE strayed
  /\ Done(c)
  /\ UNCHANGED <<kind, live, calls, window, admitted, strongest>>

\* cache.decr: nothing to give back when the day has ended, but when another
\* has begun the tokens are taken from that one.
GiveBack(c) ==
  /\ call[c].stage = "give_back"
  /\ IF live
     THEN /\ value' = value - call[c].amount
          /\ strayed' = IF call[c].window = window THEN strayed
                        ELSE strayed + call[c].amount
     ELSE UNCHANGED <<value, strayed>>
  /\ Done(c)
  /\ UNCHANGED <<kind, live, calls, window, admitted, strongest>>

\* An approved call never counts; a denied one, or one that something else
\* refused, counts unless it has.  (That a denial's transaction may be rolled
\* back when it has counted is Approval's RollbackDecision.)
Approve(c) ==
  /\ call[c].stage = "held"
  /\ Done(c)
  /\ UNCHANGED <<kind, cacheVars, calls, window, historyVars>>

Deny(c) ==
  /\ call[c].stage = "held"
  /\ IF call[c].counted THEN Done(c)
     ELSE call' = [call EXCEPT ![c].stage = "add", ![c].denied = TRUE]
  /\ UNCHANGED <<kind, cacheVars, calls, window, historyVars>>

\* The key expires.
EndWindow ==
  /\ live
  /\ window < MaxWindows
  /\ window' = window + 1
  /\ live' = FALSE /\ value' = 0
  /\ admitted' = 0 /\ strayed' = 0 /\ strongest' = 0
  /\ call' = [c \in Calls |-> [call[c] EXCEPT !.floor = 0,
                                              !.overtaken = @ \/ InProgress(c)]]
  /\ UNCHANGED <<kind, calls>>

-----------------------------------------------------------------------------
Step(c) ==
  \/ \E amount \in 0..MaxAmount, holds \in BOOLEAN : Begin(c, amount, holds)
  \/ ReadQuota(c)
  \/ ReadFails(c)
  \/ PreviewHolds(c)
  \/ PreviewPasses(c)
  \/ Add(c)
  \/ Incr(c)
  \/ Reopen(c)
  \/ Retry(c)
  \/ CountFails(c)
  \/ SetOne(c)
  \/ GiveBack(c)
  \/ Approve(c)
  \/ Deny(c)

Next == EndWindow \/ \E c \in Calls : Step(c)

Spec == Init /\ [][Next]_vars

-----------------------------------------------------------------------------
(***************************************************************************)
(* Properties.                                                             *)
(***************************************************************************)

\* Types; a counter that is not there holds nothing.
TypeOK ==
  /\ live \in BOOLEAN /\ value \in Int /\ (~live => value = 0)
  /\ call \in [Calls -> Call]
  /\ calls \in 0..MaxCalls /\ window \in 0..MaxWindows
  /\ admitted \in Nat /\ strayed \in Nat /\ strongest \in 0..6

\* "Counting first, atomically, is what makes the limit hold across replicas":
\* a window never admits more requests than the limit, also one that opens
\* while requests of the last one are under way.
RateLimitHolds == kind = "rate" => admitted <= Limit

Reserved == {c \in Calls : call[c].stage = "give_back" /\ call[c].window = window}
ReservedTokens == MapThenFoldSet(+, 0, LAMBDA c : call[c].amount,
                                 LAMBDA S : CHOOSE c \in S : TRUE, Reserved)

\* "Two replicas cannot both admit the last of the budget": the counter is what
\* was admitted and what is still to be given back, less what was given back
\* here for an earlier day; by that much only can a day pass its limit.
TokensAccounted ==
  kind = "tokens" =>
    /\ live => value = admitted + ReservedTokens - strayed
    /\ admitted <= Limit + strayed

\* The most that an evaluation which read the counter can be admitted for.
LargestUse == IF MaxAmount < Limit THEN MaxAmount ELSE Limit

\* A session passes its quota by what the other evaluations that run at once
\* ask for, each of which may have read the counter before any was counted, and
\* by what the cache's failures let pass unread or uncounted; by no more.
QuotaOvershootBounded ==
  kind = "session" =>
    admitted <= Limit + (Cardinality(Calls) - 1) * LargestUse + strayed

\* "A call held for an approval counts only if the approval is denied", unless
\* between its preview and its count another match overtook it or the window
\* ended, so that only its count says it must be held.
HeldNotCounted ==
  \A c \in Calls : call[c].stage = "held" /\ call[c].counted => call[c].overtaken

\* Escalation only goes up: a match that begins after another was decided in
\* the window is decided no weaker, however matches, holds and denials
\* interleave, unless a set that lost matches began the count again.
EscalationNeverRelaxes ==
  [][\A c \in Calls :
       /\ kind = "match" /\ ~call[c].denied
       /\ call[c].stage \in {"preview", "incr", "set"} /\ call'[c].stage \in {"idle", "held"}
       => Decide(IF call[c].stage = "preview" THEN value + 1 ELSE value')
            >= call[c].floor]_vars
=============================================================================
