------------------------ MODULE SharedCountersProofs ------------------------
(***************************************************************************)
(* What the calls that share a counter can make of its limit or its steps  *)
(* (services/evaluators/rate_limit.py, session_quota.py and                *)
(* services/actions.py), for any number of calls, replicas and windows.    *)
(***************************************************************************)
EXTENDS SharedCounters, FiniteSetTheorems, WellFoundedInduction, TLAPS

(***************************************************************************)
(* What makes RateLimitHolds inductive.  A request raises the counter by   *)
(* exactly one, and is admitted only if what it then finds is within the   *)
(* limit; nothing lowers the counter but the end of its window.  So the    *)
(* counter is never below what its window admitted, whichever window the   *)
(* requests under way began in.                                            *)
(***************************************************************************)
CountCoversAdmitted ==
  kind = "rate" =>
    /\ value \in Nat /\ admitted \in Nat
    /\ admitted <= value /\ admitted <= Limit

RateCall == [stage : {"idle", "add", "incr", "reopen", "retry"},
             amount : {0, 1}, window : {0}, holds : {FALSE}, counted : {FALSE},
             denied : {FALSE}, unread : {FALSE}, floor : {0}, overtaken : BOOLEAN]

\* A request asks for one use; it is neither held nor given back.
RequestsCountOne ==
  kind = "rate" =>
    /\ call \in [Calls -> RateCall]
    /\ strongest = 0
    /\ \A c \in Calls : call[c].stage # "idle" => call[c].amount = 1

\* A counter that is not there holds nothing.
GoneIsZero == kind = "rate" /\ ~live => value = 0

IInv == CountCoversAdmitted /\ RequestsCountOne /\ GoneIsZero

-----------------------------------------------------------------------------
LEMMA IdleIsRateCall == Idle \in RateCall /\ Idle.stage = "idle"
BY DEF Idle, RateCall

LEMMA Initially == Init => IInv
BY IdleIsRateCall, CountersAssumption
   DEF Init, IInv, CountCoversAdmitted, RequestsCountOne, GoneIsZero

\* A request that finishes, or goes on to another operation.
LEMMA RequestMoves ==
  ASSUME RequestsCountOne, kind = "rate", NEW c \in Calls,
         kind' = kind, strongest' = strongest,
         \/ Done(c)
         \/ /\ call[c].stage # "idle"
            /\ \E stage \in {"add", "incr", "reopen", "retry"} : Go(c, stage)
  PROVE  RequestsCountOne'
<1>. USE DEF RequestsCountOne
<1>1. CASE Done(c)
  <2>1. call' = [call EXCEPT ![c] = Idle]
    BY <1>1 DEF Done
  <2>. QED
    BY <2>1, IdleIsRateCall
<1>2. ASSUME NEW stage \in {"add", "incr", "reopen", "retry"}, Go(c, stage),
             call[c].stage # "idle"
      PROVE  RequestsCountOne'
  <2>1. PICK next : next = [call[c] EXCEPT !.stage = stage]
    OBVIOUS
  <2>2. call' = [call EXCEPT ![c] = next]
    BY <1>2, <2>1 DEF Go
  <2>3. call[c] \in RateCall /\ call[c].amount = 1
    BY <1>2
  <2>4. next \in RateCall /\ next.amount = 1
    BY <2>1, <2>3 DEF RateCall
  <2>. QED
    BY <2>2, <2>4
<1>. QED
  BY <1>1, <1>2

\* The increment of a request, in its own window or in the next.
LEMMA RequestCounted ==
  ASSUME IInv, kind = "rate", NEW c \in Calls, call[c].stage # "idle",
         value' = value + call[c].amount, Counted(c, value'),
         live, UNCHANGED <<kind, live>>
  PROVE  IInv'
<1>1. /\ call[c].amount = 1 /\ value' = value + 1
      /\ value \in Nat /\ admitted \in Nat /\ Limit \in Nat
      /\ admitted <= value /\ admitted <= Limit
  BY CountersAssumption DEF IInv, CountCoversAdmitted, RequestsCountOne
<1>2. /\ admitted' = IF value' <= Limit THEN admitted + 1 ELSE admitted
      /\ Done(c) /\ UNCHANGED strongest
  BY <1>1 DEF Counted
<1>3. CountCoversAdmitted'
  BY <1>1, <1>2 DEF CountCoversAdmitted
<1>4. RequestsCountOne'
  BY <1>2, RequestMoves DEF IInv
<1>5. GoneIsZero'
  BY DEF GoneIsZero
<1>. QED
  BY <1>3, <1>4, <1>5 DEF IInv

\* A step that leaves the counter's value and what was admitted alone, and
\* does not take the counter away.
LEMMA CountUntouched ==
  ASSUME IInv, UNCHANGED <<kind, value, admitted>>, live => live'
  PROVE  CountCoversAdmitted' /\ GoneIsZero'
BY DEF IInv, CountCoversAdmitted, GoneIsZero

\* What a counter counts never changes.
LEMMA KindKept == ASSUME [Next]_vars PROVE kind' = kind
<1>1. ASSUME NEW c \in Calls, Step(c) PROVE kind' = kind
  <2>1. CASE \E amount \in 0..MaxAmount, holds \in BOOLEAN : Begin(c, amount, holds)
    BY <2>1 DEF Begin
  <2>2. CASE ReadQuota(c) \/ ReadFails(c) \/ PreviewHolds(c) \/ PreviewPasses(c)
    BY <2>2 DEF ReadQuota, ReadFails, PreviewHolds, PreviewPasses
  <2>3. CASE Add(c) \/ SetOne(c) \/ GiveBack(c)
    BY <2>3 DEF Add, SetOne, GiveBack
  <2>4. CASE Incr(c)
    BY <2>4 DEF Incr
  <2>5. CASE Reopen(c) \/ Retry(c) \/ CountFails(c)
    BY <2>5 DEF Reopen, Retry, CountFails
  <2>6. CASE Approve(c) \/ Deny(c)
    BY <2>6 DEF Approve, Deny
  <2>. QED
    BY <1>1, <2>1, <2>2, <2>3, <2>4, <2>5, <2>6 DEF Step
<1>2. CASE EndWindow
  BY <1>2 DEF EndWindow
<1>3. CASE UNCHANGED vars
  BY <1>3 DEF vars
<1>. QED
  BY <1>1, <1>2, <1>3 DEF Next

LEMMA Inductive == IInv /\ [Next]_vars => IInv'
<1>. SUFFICES ASSUME IInv, [Next]_vars, kind = "rate" PROVE IInv'
  BY KindKept DEF IInv, CountCoversAdmitted, RequestsCountOne, GoneIsZero
<1>1. CASE UNCHANGED vars
  BY <1>1 DEF IInv, CountCoversAdmitted, RequestsCountOne, GoneIsZero, vars,
     cacheVars, historyVars
<1>2. CASE EndWindow
  <2>1. RequestsCountOne'
    <3>1. /\ strongest' = 0
          /\ call' = [c \in Calls |-> [call[c] EXCEPT !.floor = 0,
                                                    !.overtaken = @ \/ InProgress(c)]]
      BY <1>2 DEF EndWindow
    <3>2. call \in [Calls -> RateCall]
          /\ \A c \in Calls : call[c].stage # "idle" => call[c].amount = 1
      BY DEF IInv, RequestsCountOne
    <3>3. ASSUME NEW c \in Calls
          PROVE  /\ call'[c] \in RateCall
                 /\ call'[c].stage # "idle" => call'[c].amount = 1
      <4>1. PICK late \in BOOLEAN : late = (call[c].overtaken \/ InProgress(c))
        BY <3>2 DEF RateCall, InProgress
      <4>2. call'[c] = [call[c] EXCEPT !.floor = 0, !.overtaken = late]
        BY <3>1, <4>1
      <4>3. PICK held : held = call[c]
        OBVIOUS
      <4>4. held \in RateCall /\ (held.stage # "idle" => held.amount = 1)
        BY <3>2, <4>3
      <4>5. PICK next : next = [held EXCEPT !.floor = 0, !.overtaken = late]
        OBVIOUS
      <4>6. next \in RateCall /\ next.stage = held.stage /\ next.amount = held.amount
        BY <4>4, <4>5 DEF RateCall
      <4>. QED
        BY <4>2, <4>3, <4>4, <4>5, <4>6
    <3>. QED
      BY <3>1, <3>3 DEF RequestsCountOne
  <2>2. CountCoversAdmitted' /\ GoneIsZero'
    <3>1. value' = 0 /\ admitted' = 0 /\ Limit \in Nat
      BY <1>2, CountersAssumption DEF EndWindow
    <3>. QED
      BY <3>1 DEF CountCoversAdmitted, GoneIsZero
  <2>. QED
    BY <2>1, <2>2 DEF IInv
<1>3. ASSUME NEW c \in Calls, NEW amount \in 0..MaxAmount, NEW holds \in BOOLEAN,
             Begin(c, amount, holds)
      PROVE  IInv'
  <2>1. amount = 1 /\ holds = FALSE
    BY <1>3 DEF Begin
  <2> DEFINE begun == [Idle EXCEPT !.stage = "add", !.amount = amount,
                                   !.holds = holds, !.floor = strongest]
  <2>2. call' = [call EXCEPT ![c] = begun] /\ UNCHANGED <<kind, strongest>>
    BY <1>3 DEF Begin, historyVars
  <2>3. begun \in RateCall /\ begun.amount = 1
    BY <2>1 DEF Idle, RateCall, IInv, RequestsCountOne
  <2> HIDE DEF begun
  <2>4. RequestsCountOne'
    BY <2>2, <2>3 DEF IInv, RequestsCountOne
  <2>. QED
    BY <1>3, <2>4, CountUntouched DEF IInv, Begin, cacheVars, historyVars
<1>4. ASSUME NEW c \in Calls, Add(c) PROVE IInv'
  BY <1>4, CountUntouched, RequestMoves DEF IInv, Add, historyVars
<1>5. ASSUME NEW c \in Calls, Incr(c) PROVE IInv'
  <2>1. CASE live
    BY <1>5, <2>1, RequestCounted DEF Incr
  <2>2. CASE ~live
    <3>1. Go(c, "reopen") /\ UNCHANGED <<kind, live, value, admitted, strongest>>
      BY <1>5, <2>2 DEF Incr, historyVars
    <3>. QED
      BY <1>5, <3>1, CountUntouched, RequestMoves DEF IInv, Incr
  <2>. QED
    BY <2>1, <2>2
<1>6. ASSUME NEW c \in Calls, Reopen(c) PROVE IInv'
  BY <1>6, CountUntouched, RequestMoves DEF IInv, Reopen, historyVars
<1>7. ASSUME NEW c \in Calls, Retry(c) PROVE IInv'
  <2>1. CASE live
    BY <1>7, <2>1, RequestCounted DEF Retry
  <2>2. CASE ~live
    BY <1>7, <2>2, CountUntouched, RequestMoves DEF IInv, Retry, Uncounted
  <2>. QED
    BY <2>1, <2>2
<1>8. ASSUME NEW c \in Calls
      PROVE  ~(ReadQuota(c) \/ ReadFails(c) \/ PreviewHolds(c) \/ PreviewPasses(c)
               \/ SetOne(c) \/ CountFails(c) \/ GiveBack(c) \/ Approve(c) \/ Deny(c))
  <2>1. call[c].stage \in {"idle", "add", "incr", "reopen", "retry"}
    BY DEF IInv, RequestsCountOne, RateCall
  <2>. QED
    BY <2>1 DEF ReadQuota, ReadFails, PreviewHolds, PreviewPasses, SetOne, CountFails,
       GiveBack, Approve, Deny
<1>. QED
  BY <1>1, <1>2, <1>3, <1>4, <1>5, <1>6, <1>7, <1>8 DEF Next, Step

\* "Counting first, atomically, is what makes the limit hold across replicas":
\* no window of a rate limit admits more requests than its limit, for any
\* number of evaluations at once and of windows that end among them.
THEOREM RateLimitsHold == Spec => []RateLimitHolds
<1>1. IInv => RateLimitHolds
  BY DEF IInv, CountCoversAdmitted, RateLimitHolds
<1>. QED
  BY <1>1, Initially, Inductive, PTL DEF Spec

-----------------------------------------------------------------------------
(***************************************************************************)
(* The other kinds.  What is decided from a count, and of which type.      *)
(***************************************************************************)

\* The largest of some ranks.
LEMMA MaxRank ==
  ASSUME NEW S, S \subseteq 0..6, S # {}
  PROVE  Max(S) \in S /\ \A x \in S : x <= Max(S)
<1>1. \E x \in S : \A y \in S : x >= y
  <2>1. CASE 6 \in S
    BY <2>1
  <2>2. CASE 6 \notin S /\ 5 \in S
    BY <2>2
  <2>3. CASE S \subseteq 0..4
    <3>1. CASE 4 \in S
      BY <2>3, <3>1
    <3>2. CASE 4 \notin S /\ 3 \in S
      BY <2>3, <3>2
    <3>3. ASSUME S \subseteq 0..2 PROVE \E x \in S : \A y \in S : x >= y
      <4>1. CASE 2 \in S
        BY <3>3, <4>1
      <4>2. CASE 2 \notin S /\ 1 \in S
        BY <3>3, <4>2
      <4>3. CASE 2 \notin S /\ 1 \notin S
        <5>1. \A x \in S : x = 0
          BY <3>3, <4>3
        <5>2. PICK x \in S : x = 0
          BY <5>1
        <5>3. \A y \in S : x >= y
          BY <5>1, <5>2
        <5> QED
          BY <5>3
      <4> QED
        BY <4>1, <4>2, <4>3
    <3>4. CASE 4 \notin S /\ 3 \notin S
      <4>1. S \subseteq 0..2
        BY <2>3, <3>4
      <4> QED
        BY <3>3, <4>1
    <3> QED
      BY <3>1, <3>2, <3>4
  <2>4. CASE 6 \notin S /\ 5 \notin S
    <3>1. S \subseteq 0..4
      BY <2>4
    <3> QED
      BY <2>3, <3>1
  <2> QED
    BY <2>1, <2>2, <2>4
<1>2. Max(S) \in S /\ \A y \in S : Max(S) >= y
  BY <1>1 DEF Max
<1> QED
  BY <1>2

\* A decision is an action, and a larger count decides no weaker.
LEMMA DecideRises ==
  ASSUME NEW m \in Nat, NEW n \in Nat, m <= n
  PROVE  Decide(m) \in 0..6 /\ Decide(m) <= Decide(n)
<1> DEFINE Steps(i) == {RuleAction} \cup {s.action : s \in {t \in Repeat : i >= t.count}}
<1>1. \A s \in Repeat : s.action \in 0..6 /\ s.count \in Nat
  BY CountersAssumption
<1>2. \A i \in Nat : Steps(i) \subseteq 0..6 /\ Steps(i) # {}
  BY <1>1, CountersAssumption
<1>3. Steps(m) \subseteq Steps(n)
  BY <1>1
<1>4. Decide(m) = Max(Steps(m)) /\ Decide(n) = Max(Steps(n))
  BY DEF Decide
<1> HIDE DEF Steps
<1>5. /\ Max(Steps(m)) \in Steps(m)
      /\ \A x \in Steps(n) : x <= Max(Steps(n))
  BY <1>2, MaxRank
<1> QED
  BY <1>2, <1>3, <1>4, <1>5

\* The stronger of two decisions.
LEMMA Stronger ==
  ASSUME NEW a \in 0..6, NEW b \in 0..6
  PROVE  Max({a, b}) \in 0..6 /\ Max({a, b}) = IF a >= b THEN a ELSE b
<1>1. Max({a, b}) \in {a, b} /\ \A x \in {a, b} : x <= Max({a, b})
  <2>1. {a, b} \subseteq 0..6 /\ {a, b} # {}
    OBVIOUS
  <2> QED
    BY <2>1, MaxRank
<1> QED
  BY <1>1

\* Which operations the calls of a kind make, and for how much.
StagesOK ==
  \A c \in Calls :
    /\ call[c].stage \in {"preview", "set", "held"} => kind = "match"
    /\ call[c].stage = "read" => kind = "session"
    /\ call[c].stage \in {"reopen", "retry"} => kind # "match"
    /\ call[c].stage = "give_back" => kind = "tokens"
    /\ call[c].denied => kind = "match"
    /\ call[c].counted => call[c].stage = "held"
    /\ call[c].unread => kind = "session"
    /\ kind \in {"rate", "match"} /\ call[c].stage # "idle" => call[c].amount = 1

Kinds == {"rate", "tokens", "session", "match"}

CallsOK == call \in [Calls -> Call] /\ StagesOK

Basics == TypeOK /\ StagesOK /\ kind \in Kinds

LEMMA IdleIsCall ==
  Idle \in Call /\ Idle.stage = "idle" /\ ~Idle.denied /\ ~Idle.counted /\ ~Idle.unread
BY CountersAssumption DEF Idle, Call

\* A call that ends, or goes on to another operation of its kind.
LEMMA CallEnds ==
  ASSUME CallsOK, NEW c \in Calls, Done(c), kind' = kind
  PROVE  CallsOK' /\ \A d \in Calls : call'[d] = IF d = c THEN Idle ELSE call[d]
<1>1. /\ call' \in [Calls -> Call]
      /\ \A d \in Calls : call'[d] = IF d = c THEN Idle ELSE call[d]
  BY IdleIsCall DEF CallsOK, Done
<1>2. StagesOK'
  <2>1. \A d \in Calls : call'[d] = Idle \/ call'[d] = call[d]
    BY <1>1
  <2> QED
    BY <2>1, IdleIsCall DEF CallsOK, StagesOK
<1> QED
  BY <1>1, <1>2 DEF CallsOK

LEMMA CallGoes ==
  ASSUME CallsOK, NEW c \in Calls, call[c].stage \notin {"idle", "held"}, kind' = kind,
         NEW stage \in {"add", "incr", "reopen", "retry", "set", "held"}, Go(c, stage),
         stage \in {"set", "held"} => kind = "match",
         stage \in {"reopen", "retry"} => kind # "match"
  PROVE  /\ CallsOK'
         /\ \A d \in Calls \ {c} : call'[d] = call[d]
         /\ call'[c] = [call[c] EXCEPT !.stage = stage]
         /\ call'[c].stage = stage /\ call'[c].amount = call[c].amount
         /\ call'[c].window = call[c].window /\ call'[c].holds = call[c].holds
         /\ call'[c].counted = call[c].counted /\ call'[c].denied = call[c].denied
         /\ call'[c].floor = call[c].floor /\ call'[c].overtaken = call[c].overtaken
         /\ call'[c].unread = call[c].unread
<1>1. call[c] \in Call /\ call \in [Calls -> Call]
  BY DEF CallsOK
<1>2. /\ call' \in [Calls -> Call]
      /\ \A d \in Calls \ {c} : call'[d] = call[d]
      /\ call'[c] = [call[c] EXCEPT !.stage = stage]
  BY <1>1 DEF Go, Call
<1>3. /\ call'[c].stage = stage /\ call'[c].amount = call[c].amount
      /\ call'[c].window = call[c].window /\ call'[c].holds = call[c].holds
      /\ call'[c].counted = call[c].counted /\ call'[c].denied = call[c].denied
      /\ call'[c].floor = call[c].floor /\ call'[c].overtaken = call[c].overtaken
      /\ call'[c].unread = call[c].unread
  BY <1>1, <1>2 DEF Call
<1>4. StagesOK'
  <2>1. SUFFICES ASSUME NEW d \in Calls
                 PROVE
                   /\ call'[d].stage \in {"preview", "set", "held"} => kind = "match"
                   /\ call'[d].stage = "read" => kind = "session"
                   /\ call'[d].stage \in {"reopen", "retry"} => kind # "match"
                   /\ call'[d].stage = "give_back" => kind = "tokens"
                   /\ call'[d].denied => kind = "match"
                   /\ call'[d].counted => call'[d].stage = "held"
                   /\ call'[d].unread => kind = "session"
                   /\ kind \in {"rate", "match"} /\ call'[d].stage # "idle" =>
                        call'[d].amount = 1
    BY DEF StagesOK
  <2>2. CASE d = c
    BY <1>3, <2>2 DEF CallsOK, StagesOK
  <2>3. CASE d # c
    BY <1>2, <2>3 DEF CallsOK, StagesOK
  <2> QED
    BY <2>2, <2>3
<1> QED
  BY <1>2, <1>3, <1>4 DEF CallsOK

\* A match that is counted: what becomes of it, and of the others.
LEMMA MatchCounted ==
  ASSUME CallsOK, NEW c \in Calls, call[c].stage # "idle", kind = "match", kind' = kind,
         NEW count \in Nat, NEW intact \in BOOLEAN, strongest \in 0..6,
         Matched(c, count, intact)
  PROVE  /\ CallsOK' /\ strongest' \in 0..6
         /\ \A d \in Calls \ {c} :
              /\ call'[d].stage = call[d].stage /\ call'[d].holds = call[d].holds
              /\ call'[d].counted = call[d].counted /\ call'[d].denied = call[d].denied
              /\ call'[d].overtaken = (call[d].overtaken \/ InProgress(d))
              /\ call'[d].floor = IF intact THEN call[d].floor ELSE 0
         /\ \/ call'[c] = Idle
            \/ /\ ~call[c].denied /\ call[c].holds /\ Decide(count) = RequireApproval
               /\ call'[c].stage = "held" /\ ~call'[c].denied
               /\ call'[c].overtaken = call[c].overtaken
               /\ call'[c].floor = IF intact THEN call[c].floor ELSE 0
         /\ call[c].denied => strongest' = IF intact THEN strongest ELSE 0
         /\ ~call[c].denied =>
              strongest' = IF intact /\ strongest >= Decide(count) THEN strongest
                           ELSE Decide(count)
<1> DEFINE others == [d \in Calls |->
        [call[d] EXCEPT !.overtaken = @ \/ (d # c /\ InProgress(d)),
                        !.floor = IF intact THEN @ ELSE 0]]
           seen == IF intact THEN strongest ELSE 0
           held == [others[c] EXCEPT !.stage = "held", !.counted = TRUE]
<1>1. call \in [Calls -> Call]
  BY DEF CallsOK
<1>2. \A d \in Calls : InProgress(d) \in BOOLEAN /\ call[d] \in Call
  BY <1>1 DEF InProgress
<1>3. ASSUME NEW d \in Calls
      PROVE  /\ others[d] \in Call
             /\ others[d].stage = call[d].stage /\ others[d].holds = call[d].holds
             /\ others[d].counted = call[d].counted /\ others[d].denied = call[d].denied
             /\ others[d].overtaken = (call[d].overtaken \/ (d # c /\ InProgress(d)))
             /\ others[d].floor = IF intact THEN call[d].floor ELSE 0
             /\ others[d].amount = call[d].amount /\ others[d].unread = call[d].unread
  <2> DEFINE o == call[d].overtaken \/ (d # c /\ InProgress(d))
             f == IF intact THEN call[d].floor ELSE 0
  <2>1. others[d] = [call[d] EXCEPT !.overtaken = o, !.floor = f]
    OBVIOUS
  <2>2. o \in BOOLEAN /\ f \in 0..6 /\ call[d] \in Call
    BY <1>2 DEF Call
  <2> HIDE DEF o, f, others
  <2>3. others[d] \in Call /\ others[d].overtaken = o /\ others[d].floor = f
        /\ others[d].stage = call[d].stage /\ others[d].holds = call[d].holds
        /\ others[d].counted = call[d].counted /\ others[d].denied = call[d].denied
        /\ others[d].amount = call[d].amount /\ others[d].unread = call[d].unread
    BY <2>1, <2>2 DEF Call
  <2> QED
    BY <2>3 DEF o, f
<1>4. Decide(count) \in 0..6 /\ seen \in 0..6
  BY DecideRises
<1>5. Max({seen, Decide(count)}) \in 0..6
      /\ Max({seen, Decide(count)}) = IF seen >= Decide(count) THEN seen ELSE Decide(count)
  BY <1>4, Stronger
<1>6. \/ call'[c] = Idle
      \/ /\ ~call[c].denied /\ call[c].holds /\ Decide(count) = RequireApproval
         /\ call'[c] = held
  <2>1. CASE call[c].denied
    BY <1>3, <2>1 DEF Matched
  <2>2. CASE ~call[c].denied
    <3>1. call' = [others EXCEPT ![c] = IF @.holds /\ Decide(count) = RequireApproval
                                        THEN [@ EXCEPT !.stage = "held", !.counted = TRUE]
                                        ELSE Idle]
      BY <2>2 DEF Matched
    <3>2. call'[c] = IF others[c].holds /\ Decide(count) = RequireApproval
                     THEN held ELSE Idle
      BY <3>1
    <3> QED
      BY <1>3, <2>2, <3>2
  <2> QED
    BY <2>1, <2>2
<1>7. \A d \in Calls \ {c} : call'[d] = others[d]
  BY DEF Matched
<1>8. DOMAIN call' = Calls /\ call' = [d \in Calls |-> call'[d]]
  BY DEF Matched
<1>9. \/ call[c].denied /\ strongest' = seen
      \/ ~call[c].denied /\ strongest' = Max({seen, Decide(count)})
  BY DEF Matched
<1> HIDE DEF others, seen
<1>10. /\ held \in Call /\ held.stage = "held" /\ held.denied = call[c].denied
       /\ held.amount = call[c].amount /\ held.overtaken = others[c].overtaken
       /\ held.floor = others[c].floor /\ held.unread = call[c].unread
  BY <1>3 DEF Call
<1> HIDE DEF held
<1>11. others[c].overtaken = call[c].overtaken
  BY <1>2, <1>3 DEF Call
<1>12. \A d \in Calls : call'[d] \in Call
  BY <1>3, <1>6, <1>7, <1>10, IdleIsCall
<1>13. call' \in [Calls -> Call]
  BY <1>8, <1>12
<1>14. StagesOK'
  <2>1. SUFFICES ASSUME NEW d \in Calls
                 PROVE
                   /\ call'[d].stage \in {"preview", "set", "held"} => kind = "match"
                   /\ call'[d].stage = "read" => kind = "session"
                   /\ call'[d].stage \in {"reopen", "retry"} => kind # "match"
                   /\ call'[d].stage = "give_back" => kind = "tokens"
                   /\ call'[d].denied => kind = "match"
                   /\ call'[d].counted => call'[d].stage = "held"
                   /\ call'[d].unread => kind = "session"
                   /\ kind \in {"rate", "match"} /\ call'[d].stage # "idle" =>
                        call'[d].amount = 1
    BY DEF StagesOK
  <2>2. CASE call'[d] = Idle
    BY <2>2, IdleIsCall
  <2>3. CASE d = c /\ call'[d] = held
    BY <1>6, <1>10, <2>3 DEF CallsOK, StagesOK
  <2>4. CASE d # c
    BY <1>3, <1>7, <2>4 DEF CallsOK, StagesOK
  <2> QED
    BY <1>6, <2>2, <2>3, <2>4
<1>15. strongest' \in 0..6
  BY <1>4, <1>5, <1>9
<1>16. \A d \in Calls \ {c} :
         /\ call'[d].stage = call[d].stage /\ call'[d].holds = call[d].holds
         /\ call'[d].counted = call[d].counted /\ call'[d].denied = call[d].denied
         /\ call'[d].overtaken = (call[d].overtaken \/ InProgress(d))
         /\ call'[d].floor = IF intact THEN call[d].floor ELSE 0
  BY <1>2, <1>3, <1>7
<1>17. \/ call'[c] = Idle
       \/ /\ ~call[c].denied /\ call[c].holds /\ Decide(count) = RequireApproval
          /\ call'[c].stage = "held" /\ ~call'[c].denied
          /\ call'[c].overtaken = call[c].overtaken
          /\ call'[c].floor = IF intact THEN call[c].floor ELSE 0
  BY <1>3, <1>6, <1>10, <1>11
<1>18. /\ call[c].denied => strongest' = IF intact THEN strongest ELSE 0
       /\ ~call[c].denied =>
            strongest' = IF intact /\ strongest >= Decide(count) THEN strongest
                         ELSE Decide(count)
  BY <1>4, <1>5, <1>9 DEF seen
<1> QED
  BY <1>13, <1>14, <1>15, <1>16, <1>17, <1>18 DEF CallsOK

-----------------------------------------------------------------------------
(***************************************************************************)
(* What a session's uses and a rule's matches under way may still do.      *)
(***************************************************************************)

\* Uses that were admitted and are not yet counted.
Pending == {c \in Calls : call[c].stage \in {"add", "incr", "reopen", "retry"}}

\* Those of them that read the counter.
Seen == {c \in Pending : ~call[c].unread}

\* What they can still add to the uses that were read and counted: the one that
\* read last was within the quota then, and the others ask for LargestUse each.
Room ==
  LET most == Limit + Cardinality(Calls) * LargestUse
  IN  /\ Seen = {} => admitted - strayed + LargestUse <= most
      /\ Seen # {} =>
           \E c \in Seen : admitted - strayed + call[c].amount
                            + Cardinality(Seen) * LargestUse <= most

\* A counter holds all that was read and counted.
QuotaInv ==
  kind = "session" =>
    /\ value \in Nat
    /\ admitted - strayed <= value
    /\ \A c \in Seen : call[c].amount <= LargestUse
    /\ Room

\* No decision is stronger than that of the next match.  A match that nothing
\* overtook finds what its preview foresaw; one that must set the counter began
\* in a window that is over.
MatchCall(c) ==
  /\ call[c].floor <= Decide(value + 1)
  /\ call[c].stage = "set" => call[c].floor = 0
  /\ call[c].stage = "incr" /\ ~live => call[c].floor = 0
  /\ InProgress(c) /\ ~call[c].overtaken =>
       /\ ~(call[c].holds /\ Decide(value + 1) = RequireApproval)
       /\ call[c].stage = "set" => value = 0

MatchInv ==
  kind = "match" =>
    /\ value \in Nat
    /\ strongest <= Decide(value + 1)
    /\ \A c \in Calls : MatchCall(c)

KindsIInv == Basics /\ QuotaInv /\ MatchInv /\ HeldNotCounted

LEMMA Times ==
  ASSUME NEW m \in Nat, NEW n \in Nat
  PROVE  /\ n * m \in Nat /\ (n - 1) * m = n * m - m
         /\ n >= 1 => n * m >= m
         /\ \A k \in Nat : k <= n => k * m <= n * m
<1>1. n * m \in Nat /\ (n - 1) * m = n * m - m
  OBVIOUS
<1>2. ASSUME NEW i \in Nat, NEW k \in Nat, k <= i PROVE k * m <= i * m
  <2>1. PICK d \in Nat : i = k + d
    <3>1. i - k \in Nat /\ i = k + (i - k)
      BY <1>2
    <3> QED
      BY <3>1
  <2>2. i * m = k * m + d * m /\ d * m \in Nat /\ k * m \in Nat
    BY <2>1
  <2> QED
    BY <2>2
<1>3. n >= 1 => n * m >= m
  <2>1. 1 \in Nat /\ 1 * m = m
    OBVIOUS
  <2> QED
    BY <1>1, <1>2, <2>1
<1> QED
  BY <1>1, <1>2, <1>3

LEMMA Bounds ==
  /\ LargestUse \in Nat /\ LargestUse <= Limit /\ Limit \in Nat
  /\ Cardinality(Calls) \in Nat /\ Cardinality(Calls) * LargestUse \in Nat
<1>1. LargestUse \in Nat /\ LargestUse <= Limit /\ Limit \in Nat
  BY CountersAssumption DEF LargestUse
<1>2. Cardinality(Calls) \in Nat
  BY CountersAssumption, FS_CardinalityType
<1> QED
  BY <1>1, <1>2, Times

\* However many uses are under way, they are no more than the calls.
LEMMA SeenFew ==
  ASSUME NEW S, S \in SUBSET Calls
  PROVE  /\ IsFiniteSet(S) /\ Cardinality(S) \in Nat
         /\ Cardinality(S) * LargestUse \in Nat
         /\ Cardinality(S) * LargestUse <= Cardinality(Calls) * LargestUse
         /\ S # {} => Cardinality(S) * LargestUse >= LargestUse
<1>1. /\ IsFiniteSet(S) /\ Cardinality(S) <= Cardinality(Calls)
  BY CountersAssumption, FS_Subset
<1>2. Cardinality(S) \in Nat /\ (S # {} => Cardinality(S) >= 1)
  <2>1. Cardinality(S) \in Nat /\ (Cardinality(S) = 0 <=> S = {})
    BY <1>1, FS_CardinalityType, FS_EmptySet
  <2> QED
    BY <2>1
<1> QED
  BY <1>1, <1>2, Bounds, Times

\* A use that ends, admitted or not, takes the place it was given.
LEMMA RoomLeft ==
  ASSUME KindsIInv, NEW c \in Pending, kind = "session",
         \A d \in Calls : call'[d] = IF d = c THEN Idle ELSE call[d],
         NEW old \in Int, old = admitted - strayed,
         NEW new \in Int, new = admitted' - strayed',
         c \notin Seen => new <= old,
         c \in Seen => new <= old + call[c].amount
  PROVE  Room' /\ Seen' \subseteq Seen
<1>1. QuotaInv
  BY DEF KindsIInv
<1>2. Seen \in SUBSET Calls /\ \A d \in Seen : call[d].amount \in Nat
  <2>1. call \in [Calls -> Call]
    BY DEF KindsIInv, Basics, TypeOK
  <2> QED
    BY <2>1, CountersAssumption DEF Seen, Pending, Call
<1>3. Seen' = Seen \ {c}
  BY IdleIsCall DEF Seen, Pending
<1>4. \A d \in Seen \ {c} : call'[d].amount = call[d].amount
  BY <1>2
<1> DEFINE m == LargestUse
           most == Limit + Cardinality(Calls) * m
<1>5. m \in Nat /\ most \in Nat
  BY Bounds
<1>6. \A d \in Seen : call[d].amount <= m
  BY <1>1 DEF QuotaInv
<1>7. /\ Seen = {} => old + m <= most
      /\ Seen # {} =>
           \E d \in Seen : old + call[d].amount
                            + Cardinality(Seen) * m <= most
  BY <1>1 DEF QuotaInv, Room
<1>8. CASE c \notin Seen
  <2>1. Seen' = Seen /\ new <= old
    BY <1>3, <1>8
  <2>2. Seen = {} => new + m <= most
    BY <1>5, <1>7, <2>1
  <2>3. Seen # {} => \E d \in Seen : new + call'[d].amount
                                      + Cardinality(Seen) * m <= most
    <3>1. SUFFICES ASSUME NEW d \in Seen,
                          old + call[d].amount + Cardinality(Seen) * m <= most
                   PROVE  new + call'[d].amount
                            + Cardinality(Seen) * m <= most
      BY <1>7
    <3>2. PICK a \in Nat : a = call[d].amount /\ a = call'[d].amount
      BY <1>2, <1>4, <1>8
    <3>3. PICK k : k = Cardinality(Seen) * m
      OBVIOUS
    <3>4. k \in Nat /\ old + a + k <= most
      BY <1>2, <3>1, <3>2, <3>3, SeenFew
    <3> HIDE DEF m, most
    <3>5. new + a + k <= most
      BY <1>5, <2>1, <3>2, <3>4
    <3> QED
      BY <3>2, <3>3, <3>5
  <2> QED
    BY <1>3, <2>1, <2>2, <2>3 DEF Room
<1>9. CASE c \in Seen
  <2>1. PICK d \in Seen : old + call[d].amount + Cardinality(Seen) * m <= most
    BY <1>7, <1>9
  <2>2. PICK k : k = Cardinality(Seen) * m
    OBVIOUS
  <2>3. /\ k \in Nat /\ k >= m /\ Cardinality(Seen \ {c}) * m = k - m
        /\ (Seen \ {c} = {} => k = m)
    <3>1. /\ IsFiniteSet(Seen) /\ Cardinality(Seen) \in Nat
          /\ Cardinality(Seen) * m \in Nat /\ Cardinality(Seen) * m >= m
      BY <1>2, <1>9, SeenFew
    <3>2. Cardinality(Seen \ {c}) = Cardinality(Seen) - 1
      BY <1>9, <3>1, FS_RemoveElement
    <3>3. (Cardinality(Seen) - 1) * m = Cardinality(Seen) * m - m
      BY <1>5, <3>1, Times
    <3>4. Seen \ {c} = {} => Cardinality(Seen) = 1
      <4>1. Cardinality({}) = 0
        BY FS_EmptySet
      <4>2. PICK n \in Nat : n = Cardinality(Seen)
        BY <3>1
      <4>3. Seen \ {c} = {} => n - 1 = 0
        BY <3>2, <4>1, <4>2
      <4> QED
        BY <4>2, <4>3
    <3>5. 1 * m = m
      BY <1>5
    <3> HIDE DEF m
    <3> QED
      BY <2>2, <3>1, <3>2, <3>3, <3>4, <3>5
  <2>4. /\ new <= old + call[c].amount
        /\ call[c].amount \in Nat /\ call[d].amount \in Nat
        /\ call[c].amount <= m /\ call[d].amount <= m
    BY <1>2, <1>6, <1>9
  <2>9. PICK a \in Nat, b \in Nat : a = call[c].amount /\ b = call[d].amount
    BY <2>4
  <2>5. old + call[d].amount + k <= most
    BY <2>1, <2>2
  <2> HIDE DEF m, most
  <2>6. Seen \ {c} = {} => new + m <= most
    <3>1. SUFFICES ASSUME Seen \ {c} = {} PROVE new + m <= most
      OBVIOUS
    <3>2. d = c /\ k = m
      BY <2>3, <3>1
    <3>3. new <= old + a /\ old + a + k <= most
      BY <2>4, <2>5, <2>9, <3>2
    <3> QED
      BY <1>5, <2>3, <3>2, <3>3
  <2>7. ASSUME Seen \ {c} # {}
        PROVE  \E e \in Seen \ {c} : new + call'[e].amount + (k - m) <= most
    <3>1. CASE d # c
      <4>1. call'[d].amount = call[d].amount /\ d \in Seen \ {c}
        BY <1>4, <3>1
      <4>2. new + call[d].amount + (k - m) <= most
        BY <1>5, <2>3, <2>4, <2>5
      <4> QED
        BY <4>1, <4>2
    <3>2. CASE d = c
      <4>1. PICK e \in Seen \ {c} : TRUE
        BY <2>7
      <4>2. call'[e].amount = call[e].amount /\ call[e].amount \in Nat /\ call[e].amount <= m
        BY <1>2, <1>4, <1>6, <4>1
      <4>3. new + call[e].amount + (k - m) <= most
        BY <1>5, <2>3, <2>4, <2>5, <3>2, <4>2
      <4> QED
        BY <4>2, <4>3
    <3> QED
      BY <3>1, <3>2
  <2>8. /\ Seen' = {} => new + m <= most
        /\ Seen' # {} => \E e \in Seen' : new + call'[e].amount
                                           + Cardinality(Seen') * m <= most
    BY <1>3, <2>3, <2>6, <2>7
  <2> QED
    BY <1>3, <2>8 DEF Room, m, most
<1> QED
  BY <1>8, <1>9

LEMMA NextDecision ==
  ASSUME value \in Nat
  PROVE  Decide(value + 1) \in 0..6 /\ Decide(value) \in 0..6
         /\ Decide(value) <= Decide(value + 1)
<1>1. value + 1 \in Nat /\ value <= value + 1 /\ value + 1 <= value + 1
  OBVIOUS
<1> QED
  BY <1>1, DecideRises

LEMMA KindsInit == Init => KindsIInv
<1> SUFFICES ASSUME Init PROVE KindsIInv
  OBVIOUS
<1>1. /\ Idle \in Call /\ Idle.stage = "idle" /\ ~Idle.denied /\ ~Idle.counted
      /\ Idle.floor = 0
  BY IdleIsCall DEF Idle
<1>2. \A c \in Calls : call[c] = Idle
  BY DEF Init
<1>3. TypeOK
  <2>1. 0 \in 0..MaxCalls /\ 0 \in 0..MaxWindows
    BY CountersAssumption
  <2>2. call \in [Calls -> Call]
    BY <1>1 DEF Init
  <2>3. live \in BOOLEAN
    BY DEF Init
  <2>4. value \in Int /\ value = 0
    BY DEF Init
  <2>5. admitted \in Nat /\ strayed \in Nat /\ strongest \in 0..6
    BY DEF Init
  <2>6. calls \in 0..MaxCalls /\ window \in 0..MaxWindows
    BY <2>1 DEF Init
  <2> QED
    BY <2>2, <2>3, <2>4, <2>5, <2>6 DEF TypeOK
<1>4. StagesOK
  BY <1>2, IdleIsCall DEF StagesOK
<1>5. QuotaInv
  <2>1. Seen = {}
    BY <1>1, <1>2 DEF Seen, Pending
  <2>2. value = 0 /\ admitted = 0 /\ strayed = 0
    BY DEF Init
  <2>3. Room
    BY <2>1, <2>2, Bounds DEF Room
  <2> QED
    BY <2>1, <2>2, <2>3 DEF QuotaInv
<1>6. MatchInv
  <2>1. value = 0 /\ strongest = 0
    BY DEF Init
  <2>2. Decide(value + 1) \in 0..6
    BY <2>1, NextDecision
  <2> QED
    BY <1>1, <1>2, <2>1, <2>2 DEF MatchInv, MatchCall, InProgress
<1>7. HeldNotCounted
  BY <1>1, <1>2 DEF HeldNotCounted
<1> QED
  BY <1>3, <1>4, <1>5, <1>6, <1>7 DEF KindsIInv, Basics, Init, Kinds

LEMMA Parts ==
  ASSUME KindsIInv
  PROVE  /\ CallsOK /\ TypeOK /\ StagesOK /\ QuotaInv /\ MatchInv /\ HeldNotCounted
         /\ call \in [Calls -> Call] /\ value \in Int /\ live \in BOOLEAN
         /\ admitted \in Nat /\ strayed \in Nat /\ strongest \in 0..6
         /\ calls \in 0..MaxCalls /\ window \in 0..MaxWindows /\ kind \in Kinds
BY DEF KindsIInv, Basics, TypeOK, CallsOK

\* A step of one call that leaves what the counter holds alone.
LEMMA OneCall ==
  ASSUME KindsIInv, NEW c \in Calls, kind' = kind, value' = value, live => live',
         \A d \in Calls \ {c} : call'[d] = call[d],
         kind = "match" => strongest' <= Decide(value + 1) /\ MatchCall(c)',
         call'[c].stage = "held" /\ call'[c].counted => call'[c].overtaken
  PROVE  MatchInv' /\ HeldNotCounted'
<1>1. MatchInv /\ HeldNotCounted
  BY DEF KindsIInv
<1>2. HeldNotCounted'
  BY <1>1 DEF HeldNotCounted
<1>3. MatchInv'
  <2>1. SUFFICES ASSUME kind = "match"
                 PROVE  /\ value' \in Nat
                        /\ strongest' <= Decide(value' + 1)
                        /\ \A d \in Calls : MatchCall(d)'
    BY DEF MatchInv
  <2>2. ASSUME NEW d \in Calls \ {c} PROVE MatchCall(d)'
    <3>1. MatchCall(d)
      BY <1>1, <2>1 DEF MatchInv
    <3>2. call'[d] = call[d] /\ value' = value /\ (live => live')
      OBVIOUS
    <3> QED
      BY <3>1, <3>2 DEF MatchCall, InProgress
  <2> QED
    BY <1>1, <2>1, <2>2 DEF MatchInv
<1> QED
  BY <1>2, <1>3

\* A session's use that goes on without being counted.
LEMMA SameUses ==
  ASSUME KindsIInv, kind' = kind, kind = "session",
         UNCHANGED <<value, admitted, strayed>>, Seen' = Seen,
         \A c \in Seen : call'[c].amount = call[c].amount
  PROVE  QuotaInv'
<1>1. QuotaInv
  BY Parts
<1>2. Room'
  <2>1. Room
    BY <1>1 DEF QuotaInv
  <2> QED
    BY <2>1 DEF Room
<1> QED
  BY <1>1, <1>2 DEF QuotaInv

LEMMA BeginSteps ==
  ASSUME KindsIInv, NEW c \in Calls, NEW amount \in 0..MaxAmount, NEW holds \in BOOLEAN,
         Begin(c, amount, holds)
  PROVE  KindsIInv'
<1> DEFINE stage == CASE kind = "session" -> "read"
                      [] kind = "match"   -> "preview"
                      [] OTHER            -> "add"
           begun == [Idle EXCEPT !.stage = stage, !.amount = amount, !.holds = holds,
                                 !.floor = strongest]
<1>1. /\ CallsOK /\ TypeOK /\ StagesOK /\ QuotaInv /\ MatchInv /\ HeldNotCounted
      /\ call \in [Calls -> Call] /\ value \in Int /\ strongest \in 0..6
      /\ calls \in 0..MaxCalls /\ kind \in Kinds
  BY Parts
<1>2. /\ call[c].stage = "idle" /\ calls < MaxCalls /\ calls' = calls + 1
      /\ kind \in {"rate", "match"} => amount = 1
      /\ call' = [call EXCEPT ![c] = begun]
      /\ UNCHANGED <<kind, live, value, window, admitted, strayed, strongest>>
  BY DEF Begin, cacheVars, historyVars
<1>3. /\ stage = IF kind = "session" THEN "read"
                 ELSE IF kind = "match" THEN "preview" ELSE "add"
  OBVIOUS
<1> HIDE DEF stage
<1>5. /\ begun \in Call /\ begun.stage = stage /\ begun.amount = amount
      /\ begun.floor = strongest /\ begun.denied = FALSE /\ begun.counted = FALSE
      /\ begun.unread = FALSE
  BY <1>1, <1>3 DEF Idle, Call
<1> HIDE DEF begun
<1>6. /\ call' \in [Calls -> Call] /\ call'[c] = begun
      /\ \A d \in Calls \ {c} : call'[d] = call[d]
  BY <1>1, <1>2, <1>5
<1>7. TypeOK'
  <2>1. calls' \in 0..MaxCalls
    BY <1>1, <1>2, CountersAssumption
  <2> QED
    BY <1>1, <1>2, <1>6, <2>1 DEF TypeOK
<1>8. StagesOK'
  BY <1>1, <1>2, <1>3, <1>5, <1>6 DEF StagesOK
<1>9. QuotaInv'
  <2>1. CASE kind = "session"
    <3>1. Seen' = Seen /\ c \notin Seen /\ Seen \subseteq Calls
      BY <1>2, <1>3, <1>5, <1>6, <2>1 DEF Seen, Pending
    <3>2. \A d \in Seen : call'[d].amount = call[d].amount
      BY <1>6, <3>1
    <3> QED
      BY <1>2, <2>1, <3>1, <3>2, SameUses
  <2> QED
    BY <1>2, <2>1 DEF QuotaInv
<1>10. ASSUME kind = "match" PROVE strongest' <= Decide(value + 1) /\ MatchCall(c)'
  BY <1>1, <1>2, <1>3, <1>5, <1>6, <1>10 DEF MatchInv, MatchCall, InProgress
<1>11. ~(call'[c].stage = "held")
  BY <1>3, <1>5, <1>6
<1>12. MatchInv' /\ HeldNotCounted'
  BY <1>2, <1>6, <1>10, <1>11, OneCall
<1> QED
  BY <1>1, <1>2, <1>7, <1>8, <1>9, <1>12 DEF KindsIInv, Basics

\* The operations of a call that leave what the counter holds alone.
LEMMA QuietSteps ==
  ASSUME KindsIInv, NEW c \in Calls,
         \/ ReadQuota(c)
         \/ ReadFails(c)
         \/ PreviewHolds(c)
         \/ PreviewPasses(c)
         \/ Add(c)
         \/ Reopen(c)
         \/ Approve(c)
         \/ Deny(c)
  PROVE  KindsIInv'
<1>1. /\ CallsOK /\ TypeOK /\ StagesOK /\ QuotaInv /\ MatchInv /\ HeldNotCounted
      /\ call \in [Calls -> Call] /\ value \in Int /\ live \in BOOLEAN
      /\ strongest \in 0..6 /\ kind \in Kinds
  BY Parts
<1>2. /\ kind' = kind /\ value' = value /\ live' \in BOOLEAN /\ (live => live')
      /\ UNCHANGED <<calls, window, admitted, strayed>>
  BY <1>1 DEF ReadQuota, ReadFails, PreviewHolds, PreviewPasses, Add, Reopen, Approve,
              Deny, cacheVars, historyVars
\* What is left to show of each: the call itself, and the strongest decision.
<1>3. ASSUME CallsOK', \A d \in Calls \ {c} : call'[d] = call[d],
             strongest' \in 0..6,
             kind = "match" => strongest' <= Decide(value + 1) /\ MatchCall(c)',
             call'[c].stage = "held" /\ call'[c].counted => call'[c].overtaken,
             kind = "session" => QuotaInv'
      PROVE  KindsIInv'
  <2>1. MatchInv' /\ HeldNotCounted'
    BY <1>2, <1>3, OneCall
  <2>2. ~live' => value' = 0
    BY <1>1, <1>2 DEF TypeOK
  <2>3. TypeOK'
    BY <1>1, <1>2, <1>3, <2>2 DEF TypeOK, CallsOK
  <2>4. QuotaInv'
    BY <1>2, <1>3 DEF QuotaInv
  <2> QED
    BY <1>1, <1>2, <1>3, <2>1, <2>3, <2>4 DEF KindsIInv, Basics, CallsOK
\* A call that ends, uncounted.
<1>4. ASSUME Done(c), strongest' = strongest, call[c].stage \in {"read", "held"}
      PROVE  KindsIInv'
  <2>1. CallsOK' /\ \A d \in Calls : call'[d] = IF d = c THEN Idle ELSE call[d]
    BY <1>1, <1>2, <1>4, CallEnds
  <2>2. call'[c] = Idle /\ \A d \in Calls \ {c} : call'[d] = call[d]
    BY <2>1
  <2>3. kind = "match" => strongest' <= Decide(value + 1) /\ MatchCall(c)'
    <3>1. ASSUME kind = "match" PROVE 0 <= Decide(value + 1)
      BY <1>1, <3>1, NextDecision DEF MatchInv
    <3> QED
      BY <1>1, <1>2, <1>4, <2>2, <3>1 DEF MatchInv, MatchCall, InProgress, Idle
  <2>4. kind = "session" => QuotaInv'
    <3>1. Seen' = Seen /\ c \notin Seen /\ Seen \subseteq Calls
      BY <1>4, <2>2, IdleIsCall DEF Seen, Pending
    <3>2. \A d \in Seen : call'[d].amount = call[d].amount
      BY <2>2, <3>1
    <3> QED
      BY <1>2, <3>1, <3>2, SameUses
  <2>5. ~(call'[c].stage = "held")
    BY <2>2, IdleIsCall
  <2> QED
    BY <1>1, <1>3, <1>4, <2>1, <2>2, <2>3, <2>4, <2>5
<1>5. CASE ReadQuota(c)
  <2>1. call[c].stage = "read" /\ kind = "session" /\ strongest' = strongest
    BY <1>1, <1>5 DEF ReadQuota, StagesOK, historyVars
  <2>2. CASE WithinQuota(c)
    <3>1. Go(c, "add") /\ value + call[c].amount <= Limit
      BY <1>5, <2>2 DEF ReadQuota, WithinQuota
    <3>2. /\ CallsOK' /\ \A d \in Calls \ {c} : call'[d] = call[d]
          /\ call'[c].stage = "add" /\ call'[c].amount = call[c].amount
      BY <1>1, <1>2, <2>1, <3>1, CallGoes
    <3>3. QuotaInv'
      <4>1. /\ Seen' \in SUBSET Calls /\ Seen \subseteq Calls /\ Seen' \subseteq Seen \cup {c}
            /\ c \in Seen' => Seen' # {}
            /\ c \notin Seen' => Seen' = Seen
        BY <2>1, <3>2 DEF Seen, Pending
      <4>2. /\ value \in Nat /\ admitted - strayed <= value
            /\ \A d \in Seen : call[d].amount <= LargestUse
            /\ Room /\ admitted \in Int /\ strayed \in Int
        BY <1>1, <2>1, Parts DEF QuotaInv
      <4>3. /\ call[c].amount \in Nat /\ call[c].amount <= LargestUse
        BY <1>1, <3>1, <4>2, CountersAssumption DEF Call, LargestUse
      <4>4. \A d \in Seen' : call'[d].amount <= LargestUse
        BY <3>2, <4>1, <4>2, <4>3
      <4>5. CASE c \in Seen'
        <5>1. PICK k : k = Cardinality(Seen') * LargestUse
          OBVIOUS
        <5>2. k \in Nat /\ k <= Cardinality(Calls) * LargestUse
          BY <4>1, <5>1, SeenFew
        <5>3. admitted' - strayed' + call'[c].amount + k
                <= Limit + Cardinality(Calls) * LargestUse
          BY <1>2, <3>1, <3>2, <4>2, <4>3, <5>2, Bounds
        <5>4. Room'
          BY <4>1, <4>5, <5>1, <5>3 DEF Room
        <5> QED
          BY <1>2, <4>2, <4>4, <5>4 DEF QuotaInv
      <4>6. CASE c \notin Seen'
        <5>1. Seen' = Seen /\ \A d \in Seen : call'[d].amount = call[d].amount
          BY <3>2, <4>1, <4>6
        <5> QED
          BY <1>2, <2>1, <5>1, SameUses
      <4> QED
        BY <4>5, <4>6
    <3> QED
      BY <1>1, <1>3, <2>1, <3>2, <3>3
  <2>3. CASE ~WithinQuota(c)
    BY <1>4, <1>5, <2>1, <2>3 DEF ReadQuota
  <2> QED
    BY <2>2, <2>3
<1>6. CASE PreviewHolds(c)
  <2>1. /\ call[c].stage = "preview" /\ kind = "match" /\ Go(c, "held")
        /\ Decide(value + 1) = RequireApproval
        /\ strongest' = Max({strongest, RequireApproval})
    BY <1>1, <1>6 DEF PreviewHolds, StagesOK, WouldHold
  <2>2. strongest' \in 0..6 /\ strongest' <= Decide(value + 1)
    <3>1. RequireApproval \in 0..6
      BY CountersAssumption
    <3>2. strongest <= RequireApproval
      BY <1>1, <2>1 DEF MatchInv
    <3>3. Max({strongest, RequireApproval}) \in 0..6
          /\ Max({strongest, RequireApproval})
               = IF strongest >= RequireApproval THEN strongest ELSE RequireApproval
      BY <1>1, <3>1, Stronger
    <3> QED
      BY <1>1, <2>1, <3>1, <3>2, <3>3
  <2>3. /\ CallsOK' /\ \A d \in Calls \ {c} : call'[d] = call[d]
        /\ call'[c].stage = "held" /\ call'[c].floor = call[c].floor
        /\ call'[c].counted = call[c].counted /\ call'[c].overtaken = call[c].overtaken
    BY <1>1, <1>2, <2>1, CallGoes
  <2>4. MatchCall(c)'
    BY <1>1, <1>2, <2>1, <2>3 DEF MatchInv, MatchCall, InProgress
  <2>5. ~call[c].counted
    BY <1>1, <2>1 DEF StagesOK
  <2> QED
    BY <1>3, <2>1, <2>2, <2>3, <2>4, <2>5
<1>7. CASE PreviewPasses(c)
  <2>1. /\ call[c].stage = "preview" /\ kind = "match" /\ Go(c, "add")
        /\ ~(call[c].holds /\ Decide(value + 1) = RequireApproval)
        /\ strongest' = strongest
    BY <1>1, <1>7 DEF PreviewPasses, StagesOK, WouldHold, historyVars
  <2>2. /\ CallsOK' /\ \A d \in Calls \ {c} : call'[d] = call[d]
        /\ call'[c].stage = "add" /\ call'[c].floor = call[c].floor
        /\ call'[c].holds = call[c].holds
    BY <1>1, <1>2, <2>1, CallGoes
  <2>3. MatchCall(c)' /\ strongest' <= Decide(value + 1)
    BY <1>1, <1>2, <2>1, <2>2 DEF MatchInv, MatchCall, InProgress
  <2> QED
    BY <1>1, <1>3, <2>1, <2>2, <2>3
<1>8. CASE Add(c)
  <2>1. /\ call[c].stage = "add" /\ Go(c, "incr") /\ live' = TRUE
        /\ strongest' = strongest
    BY <1>8 DEF Add, historyVars
  <2>2. /\ CallsOK' /\ \A d \in Calls \ {c} : call'[d] = call[d]
        /\ call'[c].stage = "incr" /\ call'[c].floor = call[c].floor
        /\ call'[c].holds = call[c].holds /\ call'[c].overtaken = call[c].overtaken
        /\ call'[c].denied = call[c].denied
        /\ call'[c].amount = call[c].amount /\ call'[c].unread = call[c].unread
    BY <1>1, <1>2, <2>1, CallGoes
  <2>3. kind = "match" => strongest' <= Decide(value + 1) /\ MatchCall(c)'
    BY <1>1, <1>2, <2>1, <2>2 DEF MatchInv, MatchCall, InProgress
  <2>4. kind = "session" => QuotaInv'
    <3>1. Seen' = Seen /\ Seen \subseteq Calls
      BY <2>1, <2>2 DEF Seen, Pending
    <3>2. \A d \in Seen : call'[d].amount = call[d].amount
      BY <2>2, <3>1
    <3> QED
      BY <1>2, <3>1, <3>2, SameUses
  <2> QED
    BY <1>1, <1>3, <2>1, <2>2, <2>3, <2>4
<1>9. CASE Reopen(c)
  <2>1. /\ call[c].stage = "reopen" /\ kind # "match" /\ Go(c, "retry")
        /\ strongest' = strongest
    BY <1>1, <1>9 DEF Reopen, StagesOK, historyVars
  <2>2. /\ CallsOK' /\ \A d \in Calls \ {c} : call'[d] = call[d]
        /\ call'[c].stage = "retry"
        /\ call'[c].amount = call[c].amount /\ call'[c].unread = call[c].unread
    BY <1>1, <1>2, <2>1, CallGoes
  <2>3. kind = "session" => QuotaInv'
    <3>1. Seen' = Seen /\ Seen \subseteq Calls
      BY <2>1, <2>2 DEF Seen, Pending
    <3>2. \A d \in Seen : call'[d].amount = call[d].amount
      BY <2>2, <3>1
    <3> QED
      BY <1>2, <3>1, <3>2, SameUses
  <2> QED
    BY <1>1, <1>3, <2>1, <2>2, <2>3
<1>10. CASE Approve(c)
  BY <1>4, <1>10 DEF Approve, historyVars
<1>11. CASE Deny(c)
  <2>1. call[c].stage = "held" /\ kind = "match" /\ strongest' = strongest
    BY <1>1, <1>11 DEF Deny, StagesOK, historyVars
  <2>2. CASE call[c].counted
    BY <1>4, <1>11, <2>1, <2>2 DEF Deny
  <2>3. CASE ~call[c].counted
    <3> DEFINE denied == [call[c] EXCEPT !.stage = "add", !.denied = TRUE]
    <3>1. call' = [call EXCEPT ![c] = denied]
      BY <1>1, <1>11, <2>3 DEF Deny
    <3>2. /\ denied \in Call /\ denied.stage = "add" /\ denied.denied = TRUE
          /\ denied.floor = call[c].floor /\ denied.amount = call[c].amount
          /\ denied.counted = call[c].counted /\ denied.unread = call[c].unread
      BY <1>1 DEF Call
    <3> HIDE DEF denied
    <3>3. /\ call' \in [Calls -> Call] /\ call'[c] = denied
          /\ \A d \in Calls \ {c} : call'[d] = call[d]
      BY <1>1, <3>1, <3>2
    <3>4. StagesOK'
      BY <1>1, <1>2, <2>1, <2>3, <3>2, <3>3 DEF StagesOK
    <3>5. MatchCall(c)' /\ strongest' <= Decide(value + 1)
      BY <1>1, <1>2, <2>1, <3>2, <3>3 DEF MatchInv, MatchCall, InProgress
    <3>6. CallsOK'
      BY <3>3, <3>4 DEF CallsOK
    <3> QED
      BY <1>1, <1>3, <2>1, <3>2, <3>3, <3>5, <3>6
  <2> QED
    BY <2>2, <2>3
<1>12. CASE ReadFails(c)
  <2>1. call[c].stage = "read" /\ kind = "session" /\ strongest' = strongest
    BY <1>1, <1>12 DEF ReadFails, StagesOK, historyVars
  <2>2. CASE call[c].amount <= Limit
    <3> DEFINE blind == [call[c] EXCEPT !.stage = "add", !.unread = TRUE]
    <3>1. call' = [call EXCEPT ![c] = blind]
      BY <1>1, <1>12, <2>2 DEF ReadFails
    <3>2. /\ blind \in Call /\ blind.stage = "add" /\ blind.unread = TRUE
          /\ blind.denied = call[c].denied /\ blind.counted = call[c].counted
      BY <1>1 DEF Call
    <3> HIDE DEF blind
    <3>3. /\ call' \in [Calls -> Call] /\ call'[c] = blind
          /\ \A d \in Calls \ {c} : call'[d] = call[d]
      BY <1>1, <3>1, <3>2
    <3>4. StagesOK'
      BY <1>1, <1>2, <2>1, <3>2, <3>3 DEF StagesOK
    <3>5. CallsOK'
      BY <3>3, <3>4 DEF CallsOK
    <3>6. QuotaInv'
      <4>1. Seen' = Seen /\ c \notin Seen /\ Seen \subseteq Calls
        BY <2>1, <3>2, <3>3 DEF Seen, Pending
      <4>2. \A d \in Seen : call'[d].amount = call[d].amount
        BY <3>3, <4>1
      <4> QED
        BY <1>2, <2>1, <4>1, <4>2, SameUses
    <3>7. ~(call'[c].stage = "held")
      BY <3>2, <3>3
    <3> QED
      BY <1>1, <1>3, <2>1, <3>3, <3>5, <3>6, <3>7
  <2>3. CASE ~(call[c].amount <= Limit)
    BY <1>4, <1>12, <2>1, <2>3 DEF ReadFails
  <2> QED
    BY <2>2, <2>3
<1> QED
  BY <1>5, <1>6, <1>7, <1>8, <1>9, <1>10, <1>11, <1>12

\* A match has its count: nothing that was decided or foreseen so far asks for
\* more than the next one will.
LEMMA CountedMatch ==
  ASSUME KindsIInv, NEW c \in Calls, kind = "match", InProgress(c) \/ call[c].denied,
         call[c].stage # "idle",
         kind' = kind, live' = TRUE, NEW count \in Nat, NEW intact \in BOOLEAN,
         value' = count, intact => count = value + 1, count >= 1,
         InProgress(c) /\ ~call[c].overtaken => intact,
         Matched(c, count, intact)
  PROVE  CallsOK' /\ strongest' \in 0..6 /\ MatchInv' /\ HeldNotCounted'
<1>1. /\ CallsOK /\ MatchInv /\ HeldNotCounted /\ call \in [Calls -> Call]
      /\ strongest \in 0..6
  BY Parts
<1>2. /\ CallsOK' /\ strongest' \in 0..6
      /\ \A d \in Calls \ {c} :
           /\ call'[d].stage = call[d].stage /\ call'[d].holds = call[d].holds
           /\ call'[d].counted = call[d].counted /\ call'[d].denied = call[d].denied
           /\ call'[d].overtaken = (call[d].overtaken \/ InProgress(d))
           /\ call'[d].floor = IF intact THEN call[d].floor ELSE 0
      /\ \/ call'[c] = Idle
         \/ /\ ~call[c].denied /\ call[c].holds /\ Decide(count) = RequireApproval
            /\ call'[c].stage = "held" /\ ~call'[c].denied
            /\ call'[c].overtaken = call[c].overtaken
            /\ call'[c].floor = IF intact THEN call[c].floor ELSE 0
      /\ call[c].denied => strongest' = IF intact THEN strongest ELSE 0
      /\ ~call[c].denied =>
           strongest' = IF intact /\ strongest >= Decide(count) THEN strongest
                        ELSE Decide(count)
  BY <1>1, MatchCounted
<1>3. /\ Decide(count) \in 0..6 /\ Decide(count + 1) \in 0..6
      /\ Decide(count) <= Decide(count + 1)
  <2>1. count + 1 \in Nat /\ count <= count + 1
    OBVIOUS
  <2> QED
    BY <2>1, DecideRises
<1>4. value \in Nat /\ strongest <= Decide(value + 1) /\ \A d \in Calls : MatchCall(d)
  BY <1>1 DEF MatchInv
<1>5. ASSUME NEW d \in Calls
      PROVE  (IF intact THEN call[d].floor ELSE 0) <= Decide(count + 1)
  <2>1. CASE intact
    <3>1. call[d].floor <= Decide(count) /\ call[d].floor \in 0..6
      BY <1>1, <1>4, <2>1 DEF MatchCall, Call
    <3> QED
      BY <1>3, <2>1, <3>1
  <2> QED
    BY <1>3, <2>1
<1>6. strongest' <= Decide(count + 1)
  <2>1. intact => strongest <= Decide(count)
    BY <1>4
  <2> QED
    BY <1>1, <1>2, <1>3, <2>1
<1>7. ASSUME NEW d \in Calls \ {c} PROVE MatchCall(d)'
  <2>1. MatchCall(d) /\ live' = TRUE /\ value' = count
    BY <1>4
  <2>2. call'[d].floor <= Decide(value' + 1)
    BY <1>2, <1>5
  <2>3. call'[d].stage = "set" => call'[d].floor = 0
    BY <1>2, <2>1 DEF MatchCall
  <2>4. ~(InProgress(d)' /\ ~call'[d].overtaken)
    BY <1>2 DEF InProgress
  <2> QED
    BY <2>1, <2>2, <2>3, <2>4 DEF MatchCall
<1>8. MatchCall(c)'
  <2>1. CASE call'[c] = Idle
    <3>1. Idle.floor = 0 /\ Idle.stage = "idle"
      BY DEF Idle
    <3> QED
      BY <1>3, <2>1, <3>1 DEF MatchCall, InProgress
  <2>2. CASE call'[c].stage = "held" /\ call'[c].floor = IF intact THEN call[c].floor ELSE 0
    BY <1>5, <2>2 DEF MatchCall, InProgress
  <2> QED
    BY <1>2, <2>1, <2>2
<1>9. MatchInv'
  BY <1>6, <1>7, <1>8 DEF MatchInv
<1>10. HeldNotCounted'
  <2>1. SUFFICES ASSUME NEW d \in Calls, call'[d].stage = "held", call'[d].counted
                 PROVE  call'[d].overtaken
    BY DEF HeldNotCounted
  <2>2. CASE d # c
    BY <1>1, <1>2, <2>1, <2>2 DEF HeldNotCounted
  <2>3. CASE d = c
    <3>1. /\ ~call[c].denied /\ call[c].holds /\ Decide(count) = RequireApproval
          /\ call'[c].overtaken = call[c].overtaken
      BY <1>2, <2>1, <2>3, IdleIsCall
    <3>2. SUFFICES ASSUME ~call[c].overtaken PROVE FALSE
      BY <2>3, <3>1
    <3>3. InProgress(c) /\ MatchCall(c) /\ count = value + 1
      BY <1>4, <3>1, <3>2
    <3> QED
      BY <3>1, <3>2, <3>3 DEF MatchCall
  <2> QED
    BY <2>2, <2>3
<1> QED
  BY <1>2, <1>9, <1>10

LEMMA SetOneSteps ==
  ASSUME KindsIInv, NEW c \in Calls, SetOne(c)
  PROVE  KindsIInv'
<1>1. /\ CallsOK /\ TypeOK /\ StagesOK /\ MatchInv
      /\ call \in [Calls -> Call] /\ value \in Int /\ kind \in Kinds
  BY Parts
<1>2. /\ call[c].stage = "set" /\ kind = "match" /\ live' = TRUE /\ value' = 1
      /\ Matched(c, 1, value = 0) /\ kind' = kind
      /\ UNCHANGED <<calls, window, admitted, strayed>>
  BY <1>1 DEF SetOne, StagesOK
<1>3. InProgress(c) \/ call[c].denied
  BY <1>2 DEF InProgress
<1>4. InProgress(c) /\ ~call[c].overtaken => value = 0
  BY <1>1, <1>2 DEF MatchInv, MatchCall
<1>5. CallsOK' /\ strongest' \in 0..6 /\ MatchInv' /\ HeldNotCounted'
  <2>1. PICK intact \in BOOLEAN : intact <=> value = 0
    OBVIOUS
  <2>2. /\ 1 \in Nat /\ 1 >= 1
        /\ intact => 1 = value + 1
        /\ InProgress(c) /\ ~call[c].overtaken => intact
    <3>1. intact => 1 = value + 1
      <4>1. value = 0 => 1 = value + 1
        OBVIOUS
      <4> QED
        BY <2>1, <4>1
    <3>2. InProgress(c) /\ ~call[c].overtaken => intact
      BY <1>4, <2>1, Zenon
    <3> QED
      BY <3>1, <3>2
  <2>3. Matched(c, 1, intact)
    <3>1. intact = (value = 0)
      BY <2>1
    <3> QED
      BY <1>2, <3>1, Zenon
  <2>4. call[c].stage # "idle"
    BY <1>2
  <2> QED
    BY <1>2, <1>3, <2>2, <2>3, <2>4, CountedMatch
<1>6. TypeOK' /\ StagesOK'
  BY <1>1, <1>2, <1>5 DEF TypeOK, CallsOK
<1> QED
  BY <1>1, <1>2, <1>5, <1>6 DEF KindsIInv, Basics, QuotaInv

\* A session's use is counted, or admitted without.
UseEnds(c) ==
  /\ admitted' = admitted + call[c].amount
  /\ \/ /\ value' = value + call[c].amount
        /\ strayed' = IF call[c].unread THEN strayed + call[c].amount ELSE strayed
     \/ UNCHANGED value /\ strayed' = strayed + call[c].amount

\* A call that is done, whether it was counted and admitted or not.
LEMMA EndsHere ==
  ASSUME KindsIInv, NEW c \in Calls, kind # "match", Done(c), kind' = kind, live' = live,
         UNCHANGED <<calls, window, strongest>>,
         value' \in Int, ~live => value' = value,
         admitted' \in Nat, strayed' \in Nat,
         kind = "session" => /\ c \in Pending
                             /\ UseEnds(c)
  PROVE  KindsIInv'
<1>1. /\ CallsOK /\ TypeOK /\ StagesOK /\ QuotaInv /\ HeldNotCounted
      /\ call \in [Calls -> Call] /\ value \in Int /\ live \in BOOLEAN
      /\ admitted \in Nat /\ kind \in Kinds /\ strongest \in 0..6
      /\ calls \in 0..MaxCalls /\ window \in 0..MaxWindows
  BY Parts
<1>2. CallsOK' /\ \A d \in Calls : call'[d] = IF d = c THEN Idle ELSE call[d]
  BY <1>1, CallEnds
<1>3. TypeOK'
  <2>1. ~live => value' = 0
    BY <1>1 DEF TypeOK
  <2> QED
    BY <1>1, <1>2, <2>1 DEF TypeOK, CallsOK
<1>4. HeldNotCounted'
  BY <1>1, <1>2, IdleIsCall DEF HeldNotCounted
<1>5. QuotaInv'
  <2>1. SUFFICES ASSUME kind = "session"
                 PROVE  /\ value' \in Nat /\ admitted' - strayed' <= value'
                        /\ \A d \in Seen' : call'[d].amount <= LargestUse
                        /\ Room'
    BY DEF QuotaInv
  <2>2. PICK amount \in Nat : amount = call[c].amount
    BY <1>1, CountersAssumption DEF Call
  <2>3. /\ admitted' = admitted + amount
        /\ \/ value' = value + amount /\ strayed' = (IF call[c].unread THEN strayed + amount ELSE strayed)
           \/ value' = value /\ strayed' = strayed + amount
        /\ c \in Pending
    BY <2>1, <2>2 DEF UseEnds
  <2>4. /\ value \in Nat /\ admitted - strayed <= value
        /\ \A d \in Seen : call[d].amount <= LargestUse
        /\ strayed \in Nat
    BY <1>1, <2>1, Parts DEF QuotaInv
  <2>5. value' \in Nat /\ admitted' - strayed' <= value'
    <3>1. \/ value' = value + amount /\ (strayed' = strayed \/ strayed' = strayed + amount)
          \/ value' = value /\ strayed' = strayed + amount
      BY <2>3
    <3>2. admitted \in Int /\ admitted' = admitted + amount
      BY <1>1, <2>3
    <3> QED
      BY <2>2, <2>4, <3>1, <3>2
  <2>6. c \in Seen <=> ~call[c].unread
    BY <2>3 DEF Seen
  <2>7. PICK old \in Int, new \in Int : old = admitted - strayed /\ new = admitted' - strayed'
    <3>1. admitted - strayed \in Int /\ admitted' - strayed' \in Int
      BY <1>1, <2>4
    <3> QED
      BY <3>1
  <2>8. Room' /\ Seen' \subseteq Seen
    <3>1. new <= old + amount /\ (call[c].unread => new <= old)
      BY <1>1, <2>2, <2>3, <2>4, <2>7
    <3>2. c \notin Seen => new <= old
      BY <2>6, <3>1
    <3>3. c \in Seen => new <= old + call[c].amount
      BY <2>2, <3>1
    <3> QED
      BY <1>2, <2>1, <2>3, <2>7, <3>2, <3>3, RoomLeft
  <2>9. \A d \in Seen' : call'[d].amount <= LargestUse
    BY <1>2, <2>4, <2>8, IdleIsCall DEF Seen, Pending
  <2> QED
    BY <2>5, <2>8, <2>9
<1> QED
  BY <1>1, <1>2, <1>3, <1>4, <1>5 DEF KindsIInv, Basics, MatchInv, CallsOK

LEMMA GiveBackSteps ==
  ASSUME KindsIInv, NEW c \in Calls, GiveBack(c)
  PROVE  KindsIInv'
<1>1. /\ TypeOK /\ StagesOK /\ call \in [Calls -> Call] /\ value \in Int
      /\ admitted \in Nat /\ strayed \in Nat
  BY Parts
<1>2. /\ call[c].stage = "give_back" /\ Done(c)
      /\ UNCHANGED <<kind, live, calls, window, admitted, strongest>>
      /\ \/ value' = value - call[c].amount /\ live
         \/ value' = value
      /\ strayed' = strayed \/ strayed' = strayed + call[c].amount
  BY DEF GiveBack
<1>3. kind = "tokens" /\ call[c].amount \in Nat
  BY <1>1, <1>2 DEF StagesOK, Call
<1>4. value' \in Int /\ (~live => value' = value) /\ admitted' \in Nat /\ strayed' \in Nat
  BY <1>1, <1>2, <1>3 DEF GiveBack
<1> QED
  BY <1>2, <1>3, <1>4, EndsHere

\* What a raised counter means to a call that is not a match.
LEMMA CountedUse ==
  ASSUME KindsIInv, NEW c \in Calls, kind # "match", call[c].stage \in {"incr", "retry"},
         live, value' = value + call[c].amount, Counted(c, value'),
         UNCHANGED <<kind, live, calls, window>>
  PROVE  KindsIInv'
<1>1. /\ CallsOK /\ TypeOK /\ StagesOK /\ HeldNotCounted
      /\ call \in [Calls -> Call] /\ value \in Int
      /\ live \in BOOLEAN /\ admitted \in Nat /\ strayed \in Nat /\ kind \in Kinds
      /\ strongest \in 0..6 /\ calls \in 0..MaxCalls /\ window \in 0..MaxWindows
  BY Parts
<1>2. call[c].amount \in Nat
  BY <1>1, CountersAssumption DEF Call
<1>3. value' \in Int /\ c \in Pending
  BY <1>1, <1>2 DEF Pending
<1>4. CASE kind = "tokens" /\ value' > Limit
  <2> DEFINE back == [call[c] EXCEPT !.stage = "give_back", !.window = window]
  <2>1. /\ call' = [call EXCEPT ![c] = back]
        /\ UNCHANGED <<admitted, strayed, strongest>>
    BY <1>1, <1>4 DEF Counted
  <2>2. /\ back \in Call /\ back.stage = "give_back" /\ back.denied = call[c].denied
        /\ back.counted = call[c].counted /\ back.unread = call[c].unread
    <3>1. window \in Nat /\ call[c] \in Call
      BY <1>1, CountersAssumption
    <3> QED
      BY <3>1 DEF Call
  <2> HIDE DEF back
  <2>3. /\ call' \in [Calls -> Call] /\ call'[c] = back
        /\ \A d \in Calls \ {c} : call'[d] = call[d]
    BY <1>1, <2>1, <2>2
  <2>4. ~call[c].counted
    BY <1>1 DEF StagesOK
  <2>5. StagesOK'
    BY <1>1, <1>4, <2>2, <2>3, <2>4 DEF StagesOK
  <2>6. HeldNotCounted'
    BY <1>1, <2>2, <2>3 DEF HeldNotCounted
  <2>7. TypeOK'
    BY <1>1, <1>3, <2>1, <2>3 DEF TypeOK
  <2> QED
    BY <1>1, <1>4, <2>5, <2>6, <2>7 DEF KindsIInv, Basics, QuotaInv, MatchInv
<1>5. CASE ~(kind = "tokens" /\ value' > Limit)
  <2>1. /\ admitted' = IF kind = "session" \/ value' <= Limit
                       THEN admitted + call[c].amount ELSE admitted
        /\ strayed' = IF call[c].unread THEN strayed + call[c].amount ELSE strayed
        /\ Done(c) /\ UNCHANGED strongest
    BY <1>5 DEF Counted
  <2>2. admitted' \in Nat /\ strayed' \in Nat
    BY <1>1, <1>2, <2>1
  <2>3. kind = "session" => UseEnds(c)
    BY <2>1 DEF UseEnds
  <2> QED
    BY <1>3, <2>1, <2>2, <2>3, EndsHere
<1> QED
  BY <1>4, <1>5

LEMMA IncrSteps ==
  ASSUME KindsIInv, NEW c \in Calls, Incr(c)
  PROVE  KindsIInv'
<1>1. /\ CallsOK /\ TypeOK /\ StagesOK /\ QuotaInv /\ MatchInv /\ HeldNotCounted
      /\ call \in [Calls -> Call] /\ value \in Int /\ live \in BOOLEAN
      /\ admitted \in Nat /\ strayed \in Nat /\ strongest \in 0..6
      /\ calls \in 0..MaxCalls /\ window \in 0..MaxWindows /\ kind \in Kinds
  BY Parts
<1>2. call[c].stage = "incr" /\ UNCHANGED <<kind, live, calls, window>>
  BY DEF Incr
<1>3. CASE live /\ kind = "match"
  <2>1. value' = value + 1 /\ Matched(c, value', TRUE) /\ UNCHANGED <<admitted, strayed>>
    BY <1>1, <1>2, <1>3 DEF Incr, Counted, StagesOK
  <2>2. value \in Nat /\ value' \in Nat /\ value' >= 1
    BY <1>1, <1>3, <2>1 DEF MatchInv
  <2>3. InProgress(c) \/ call[c].denied
    BY <1>2 DEF InProgress
  <2>4. CallsOK' /\ strongest' \in 0..6 /\ MatchInv' /\ HeldNotCounted'
    <3>1. PICK count \in Nat : count = value'
      BY <2>2
    <3>2. Matched(c, count, TRUE) /\ value' = count /\ count = value + 1 /\ count >= 1
      BY <2>1, <2>2, <3>1
    <3>3. kind' = kind /\ live' = TRUE /\ kind = "match" /\ call[c].stage # "idle"
      BY <1>1, <1>2, <1>3
    <3> QED
      BY <2>3, <3>2, <3>3, CountedMatch
  <2>5. TypeOK' /\ StagesOK'
    BY <1>1, <1>2, <1>3, <2>1, <2>2, <2>4 DEF TypeOK, CallsOK
  <2> QED
    BY <1>1, <1>2, <1>3, <2>4, <2>5 DEF KindsIInv, Basics, QuotaInv
<1>4. CASE live /\ kind # "match"
  <2>1. value' = value + call[c].amount /\ Counted(c, value')
    BY <1>4 DEF Incr
  <2> QED
    BY <1>2, <1>4, <2>1, CountedUse
<1>5. CASE ~live
  <2> DEFINE stage == IF kind = "match" THEN "set" ELSE "reopen"
  <2>1. Go(c, stage) /\ UNCHANGED <<value, admitted, strayed, strongest>>
    BY <1>5 DEF Incr, historyVars
  <2>2. /\ CallsOK' /\ \A d \in Calls \ {c} : call'[d] = call[d]
        /\ call'[c].stage = stage /\ call'[c].floor = call[c].floor
        /\ call'[c].holds = call[c].holds /\ call'[c].overtaken = call[c].overtaken
        /\ call'[c].denied = call[c].denied
        /\ call'[c].amount = call[c].amount /\ call'[c].unread = call[c].unread
    <3>1. stage \in {"set", "held"} => kind = "match"
      OBVIOUS
    <3>2. stage \in {"reopen", "retry"} => kind # "match"
      OBVIOUS
    <3>3. stage \in {"add", "incr", "reopen", "retry", "set", "held"}
      OBVIOUS
    <3>4. call[c].stage \notin {"idle", "held"} /\ kind' = kind
      BY <1>2
    <3> HIDE DEF stage
    <3> QED
      BY <1>1, <2>1, <3>1, <3>2, <3>3, <3>4, CallGoes
  <2>3. kind = "match" => strongest' <= Decide(value + 1) /\ MatchCall(c)'
    <3>1. value = 0
      BY <1>1, <1>5 DEF TypeOK
    <3> QED
      BY <1>1, <1>2, <1>5, <2>1, <2>2, <3>1 DEF MatchInv, MatchCall, InProgress
  <2>4. ~(call'[c].stage = "held")
    BY <2>2
  <2>5. MatchInv' /\ HeldNotCounted'
    BY <1>2, <2>1, <2>2, <2>3, <2>4, OneCall
  <2>6. QuotaInv'
    <3>1. CASE kind = "session"
      <4>1. Seen' = Seen /\ Seen \subseteq Calls
        BY <1>2, <2>2, <3>1 DEF Seen, Pending
      <4>2. \A d \in Seen : call'[d].amount = call[d].amount
        BY <2>2, <4>1
      <4> QED
        BY <1>2, <2>1, <3>1, <4>1, <4>2, SameUses
    <3> QED
      BY <1>2, <3>1 DEF QuotaInv
  <2>7. TypeOK' /\ StagesOK'
    BY <1>1, <1>2, <2>1, <2>2 DEF TypeOK, CallsOK
  <2> QED
    BY <1>1, <1>2, <2>5, <2>6, <2>7 DEF KindsIInv, Basics
<1> QED
  BY <1>1, <1>3, <1>4, <1>5

LEMMA EndsUncounted ==
  ASSUME KindsIInv, NEW c \in Calls, c \in Pending, kind # "match", Uncounted(c),
         UNCHANGED <<kind, live, calls, window, value>>
  PROVE  KindsIInv'
<1>1. /\ value \in Int /\ admitted \in Nat /\ strayed \in Nat /\ call \in [Calls -> Call]
  BY Parts
<1>2. call[c].amount \in Nat
  BY <1>1, CountersAssumption DEF Call
<1>3. Done(c) /\ UNCHANGED strongest /\ admitted' \in Nat /\ strayed' \in Nat
  BY <1>1, <1>2 DEF Uncounted
<1>4. kind = "session" => UseEnds(c)
  BY DEF Uncounted, UseEnds
<1> QED
  BY <1>1, <1>3, <1>4, EndsHere

LEMMA RetrySteps ==
  ASSUME KindsIInv, NEW c \in Calls, Retry(c)
  PROVE  KindsIInv'
<1>1. /\ StagesOK /\ live \in BOOLEAN
  BY Parts
<1>2. call[c].stage = "retry" /\ UNCHANGED <<kind, live, calls, window>>
  BY DEF Retry
<1>3. kind # "match"
  BY <1>1, <1>2 DEF StagesOK
<1>4. CASE live
  <2>1. value' = value + call[c].amount /\ Counted(c, value')
    BY <1>4 DEF Retry
  <2> QED
    BY <1>2, <1>3, <1>4, <2>1, CountedUse
<1>5. CASE ~live
  <2>1. Uncounted(c) /\ UNCHANGED value
    BY <1>5 DEF Retry
  <2>2. c \in Pending
    BY <1>2 DEF Pending
  <2> QED
    BY <1>2, <1>3, <2>1, <2>2, EndsUncounted
<1> QED
  BY <1>1, <1>4, <1>5

LEMMA CountFailsSteps ==
  ASSUME KindsIInv, NEW c \in Calls, CountFails(c)
  PROVE  KindsIInv'
<1>1. /\ kind # "match" /\ c \in Pending /\ Uncounted(c)
      /\ UNCHANGED <<kind, live, calls, window, value>>
  BY DEF CountFails, Pending, cacheVars
<1> QED
  BY <1>1, EndsUncounted

LEMMA EndWindowSteps ==
  ASSUME KindsIInv, EndWindow
  PROVE  KindsIInv'
<1>1. /\ TypeOK /\ StagesOK /\ HeldNotCounted /\ call \in [Calls -> Call]
      /\ calls \in 0..MaxCalls /\ window \in 0..MaxWindows /\ kind \in Kinds
  BY Parts
<1>2. /\ window < MaxWindows /\ window' = window + 1 /\ live' = FALSE /\ value' = 0
      /\ admitted' = 0 /\ strayed' = 0 /\ strongest' = 0 /\ UNCHANGED <<kind, calls>>
  BY DEF EndWindow
<1>3. \A c \in Calls : InProgress(c) \in BOOLEAN /\ call[c] \in Call
  BY <1>1 DEF InProgress
<1>4. ASSUME NEW c \in Calls
      PROVE  /\ call'[c] \in Call
             /\ call'[c].stage = call[c].stage /\ call'[c].counted = call[c].counted
             /\ call'[c].denied = call[c].denied /\ call'[c].amount = call[c].amount
             /\ call'[c].unread = call[c].unread /\ call'[c].floor = 0
             /\ call'[c].overtaken = (call[c].overtaken \/ InProgress(c))
  <2> DEFINE o == call[c].overtaken \/ InProgress(c)
  <2>1. call'[c] = [call[c] EXCEPT !.floor = 0, !.overtaken = o]
    BY DEF EndWindow
  <2>2. o \in BOOLEAN /\ call[c] \in Call /\ 0 \in 0..6
    BY <1>3 DEF Call
  <2> HIDE DEF o
  <2>3. /\ call'[c] \in Call /\ call'[c].overtaken = o /\ call'[c].floor = 0
        /\ call'[c].stage = call[c].stage /\ call'[c].counted = call[c].counted
        /\ call'[c].denied = call[c].denied /\ call'[c].amount = call[c].amount
        /\ call'[c].unread = call[c].unread
    BY <2>1, <2>2 DEF Call
  <2> QED
    BY <2>3 DEF o
<1>5. call' \in [Calls -> Call]
  <2>1. DOMAIN call' = Calls /\ call' = [c \in Calls |-> call'[c]]
    BY DEF EndWindow
  <2> QED
    BY <1>4, <2>1
<1>6. TypeOK'
  <2>1. window' \in 0..MaxWindows
    BY <1>1, <1>2, CountersAssumption
  <2>2. live' \in BOOLEAN
    BY <1>2
  <2>3. value' \in Int /\ value' = 0 /\ admitted' \in Nat /\ strayed' \in Nat
        /\ strongest' \in 0..6 /\ calls' \in 0..MaxCalls
    BY <1>1, <1>2
  <2> QED
    BY <1>5, <2>1, <2>2, <2>3 DEF TypeOK
<1>7. StagesOK'
  BY <1>1, <1>2, <1>4 DEF StagesOK
<1>8. QuotaInv'
  <2>1. SUFFICES ASSUME kind = "session" PROVE QuotaInv'
    BY <1>2 DEF QuotaInv
  <2>2. Seen' = Seen /\ Seen \in SUBSET Calls
    BY <1>4 DEF Seen, Pending
  <2>3. \A c \in Seen : /\ call'[c].amount = call[c].amount /\ call[c].amount \in Nat
                        /\ call[c].amount <= LargestUse
    <3>1. QuotaInv /\ \A c \in Calls : call[c].amount \in Nat
      BY <1>1, CountersAssumption, Parts DEF Call
    <3> QED
      BY <1>4, <2>1, <2>2, <3>1 DEF QuotaInv
  <2>4. Room'
    <3>1. Seen = {} => 0 - 0 + LargestUse <= Limit + Cardinality(Calls) * LargestUse
      BY Bounds
    <3>2. ASSUME NEW c \in Seen
          PROVE  0 - 0 + call[c].amount + Cardinality(Seen) * LargestUse
                   <= Limit + Cardinality(Calls) * LargestUse
      <4>1. PICK k : k = Cardinality(Seen) * LargestUse
        OBVIOUS
      <4>2. k \in Nat /\ k <= Cardinality(Calls) * LargestUse
        BY <2>2, <4>1, SeenFew
      <4>3. call[c].amount \in Nat /\ call[c].amount <= LargestUse
        BY <2>3
      <4> QED
        BY <4>1, <4>2, <4>3, Bounds
    <3>3. Seen # {} => \E c \in Seen : admitted' - strayed' + call'[c].amount
                         + Cardinality(Seen) * LargestUse
                           <= Limit + Cardinality(Calls) * LargestUse
      BY <1>2, <2>3, <3>2
    <3> QED
      BY <1>2, <2>2, <3>1, <3>3 DEF Room
  <2> QED
    BY <1>2, <2>2, <2>3, <2>4 DEF QuotaInv
<1>9. MatchInv'
  <2>1. 1 \in Nat /\ value' + 1 = 1
    BY <1>2
  <2>2. Decide(value' + 1) \in 0..6
    BY <2>1, DecideRises
  <2>3. ASSUME NEW c \in Calls PROVE ~(InProgress(c)' /\ ~call'[c].overtaken)
    BY <1>4 DEF InProgress
  <2> QED
    BY <1>2, <1>4, <2>2, <2>3 DEF MatchInv, MatchCall
<1>10. HeldNotCounted'
  BY <1>1, <1>4 DEF HeldNotCounted
<1> QED
  BY <1>1, <1>2, <1>6, <1>7, <1>8, <1>9, <1>10 DEF KindsIInv, Basics

LEMMA KindsStep == KindsIInv /\ [Next]_vars => KindsIInv'
<1> SUFFICES ASSUME KindsIInv, [Next]_vars PROVE KindsIInv'
  OBVIOUS
<1>1. CASE UNCHANGED vars
  <2>1. UNCHANGED <<kind, live, value, call, calls, window, admitted, strayed, strongest>>
    BY <1>1 DEF vars, cacheVars, historyVars
  <2>2. TypeOK' /\ StagesOK' /\ (kind \in Kinds)'
    BY <2>1 DEF KindsIInv, Basics, TypeOK, StagesOK
  <2>3. Seen' = Seen
    BY <2>1 DEF Seen, Pending
  <2>4. QuotaInv' /\ HeldNotCounted'
    BY <2>1, <2>3 DEF KindsIInv, QuotaInv, Room, HeldNotCounted
  <2>5. MatchInv'
    BY <2>1 DEF KindsIInv, MatchInv, MatchCall, InProgress
  <2> QED
    BY <2>2, <2>4, <2>5 DEF KindsIInv, Basics
<1>2. CASE EndWindow
  BY <1>2, EndWindowSteps
<1>3. ASSUME NEW c \in Calls, Step(c) PROVE KindsIInv'
  <2>1. CASE \E amount \in 0..MaxAmount, holds \in BOOLEAN : Begin(c, amount, holds)
    BY <2>1, BeginSteps
  <2>2. CASE \/ ReadQuota(c) \/ ReadFails(c) \/ PreviewHolds(c) \/ PreviewPasses(c)
             \/ Add(c) \/ Reopen(c) \/ Approve(c) \/ Deny(c)
    BY <2>2, QuietSteps
  <2>3. CASE Incr(c)
    BY <2>3, IncrSteps
  <2>4. CASE Retry(c)
    BY <2>4, RetrySteps
  <2>5. CASE SetOne(c)
    BY <2>5, SetOneSteps
  <2>6. CASE GiveBack(c)
    BY <2>6, GiveBackSteps
  <2>7. CASE CountFails(c)
    BY <2>7, CountFailsSteps
  <2> QED
    BY <1>3, <2>1, <2>2, <2>3, <2>4, <2>5, <2>6, <2>7 DEF Step
<1> QED
  BY <1>1, <1>2, <1>3 DEF Next

LEMMA KindsInvariance == Spec => []KindsIInv
<1> QED
  BY KindsInit, KindsStep, PTL DEF Spec

\* A finished decision counts everything that the one before it counted.
LEMMA DecidedNoWeaker ==
  ASSUME KindsIInv, [Next]_vars, NEW c \in Calls,
         kind = "match", ~call[c].denied, call[c].stage \in {"preview", "incr", "set"},
         call'[c].stage \in {"idle", "held"}
  PROVE  Decide(IF call[c].stage = "preview" THEN value + 1 ELSE value') >= call[c].floor
<1>1. /\ StagesOK /\ MatchInv /\ call \in [Calls -> Call]
  BY Parts
<1>2. value \in Nat /\ call[c].floor <= Decide(value + 1) /\ call[c].floor \in 0..6
      /\ (call[c].stage = "set" => call[c].floor = 0)
  BY <1>1 DEF MatchInv, MatchCall, Call
<1>3. Decide(value + 1) \in 0..6
  BY <1>2, NextDecision
\* Only a step of its own ends it.
<1>4. ASSUME call'[c].stage = call[c].stage PROVE FALSE
  BY <1>4
<1>5. CASE EndWindow
  <2>1. call'[c] = [call[c] EXCEPT !.floor = 0, !.overtaken = @ \/ InProgress(c)]
    BY <1>5 DEF EndWindow
  <2>2. call'[c].stage = call[c].stage
    BY <1>1, <2>1 DEF Call
  <2> QED
    BY <1>4, <2>2
<1>6. ASSUME NEW d \in Calls \ {c}, Step(d) PROVE FALSE
  <2>1. d \in Calls
    OBVIOUS
  <2>2. CallsOK /\ strongest \in 0..6
    BY Parts
  <2>3. CASE Incr(d) \/ SetOne(d)
    <3>1. kind' = kind /\ call[d].stage # "idle"
      BY <2>3 DEF Incr, SetOne
    <3>2. CASE Incr(d) /\ ~live
      <4>1. call'[c] = call[c]
        BY <1>1, <2>1, <3>2 DEF Incr, Go
      <4> QED
        BY <1>4, <4>1
    <3>3. CASE Incr(d) /\ live
      <4>1. value' = value + 1 /\ Matched(d, value', TRUE)
        BY <1>1, <2>1, <3>3 DEF Incr, Counted, StagesOK
      <4>2. PICK count \in Nat : count = value'
        BY <1>2, <4>1
      <4>3. PICK intact \in BOOLEAN : Matched(d, count, intact)
        BY <4>1, <4>2
      <4>4. call'[c].stage = call[c].stage
        BY <2>1, <2>2, <3>1, <4>3, MatchCounted
      <4> QED
        BY <1>4, <4>4
    <3>4. CASE SetOne(d)
      <4>1. PICK intact \in BOOLEAN : intact = (value = 0)
        OBVIOUS
      <4>2. Matched(d, 1, value = 0)
        BY <3>4 DEF SetOne
      <4>3. Matched(d, 1, intact)
        BY <4>1, <4>2, Zenon
      <4>4. 1 \in Nat
        OBVIOUS
      <4>5. call'[c].stage = call[c].stage
        BY <2>1, <2>2, <3>1, <4>3, <4>4, MatchCounted
      <4> QED
        BY <1>4, <4>5
    <3> QED
      BY <2>3, <3>2, <3>3, <3>4
  <2>4. CASE ~(Incr(d) \/ SetOne(d))
    <3>1. ~Retry(d)
      BY <1>1, <2>1 DEF Retry, StagesOK
    <3>2. call'[c] = call[c]
      BY <1>1, <1>6, <2>1, <2>4, <3>1 DEF Step, Begin, ReadQuota, ReadFails, PreviewHolds,
         PreviewPasses, Add, Reopen, CountFails, GiveBack, Approve, Deny, Go, Done
    <3> QED
      BY <1>4, <3>2
  <2> QED
    BY <2>3, <2>4
<1>7. CASE Step(c)
  <2>1. CASE PreviewHolds(c)
    BY <1>2, <1>3, <2>1 DEF PreviewHolds
  <2>2. CASE Incr(c)
    <3>1. call[c].stage = "incr"
      BY <2>2 DEF Incr
    <3>2. CASE live
      <4>1. value' = value + 1
        BY <1>1, <2>2, <3>1, <3>2 DEF Incr, StagesOK
      <4> QED
        BY <1>2, <1>3, <3>1, <4>1
    <3>3. CASE ~live
      BY <1>1, <2>2, <3>3 DEF Incr, Go, Call
    <3> QED
      BY <3>2, <3>3
  <2>3. CASE SetOne(c)
    <3>1. call[c].stage = "set" /\ value' = 1
      BY <2>3 DEF SetOne
    <3>2. Decide(1) \in 0..6
      <4>1. 1 \in Nat
        OBVIOUS
      <4> QED
        BY <4>1, DecideRises
    <3> QED
      BY <1>2, <3>1, <3>2
  <2>4. CASE PreviewPasses(c)
    BY <1>1, <2>4 DEF PreviewPasses, Go, Call
  <2> QED
    BY <1>1, <1>7, <2>1, <2>2, <2>3, <2>4 DEF Step, Begin, ReadQuota, ReadFails, Add, Reopen,
       Retry, CountFails, GiveBack, Approve, Deny
<1>8. CASE UNCHANGED vars
  BY <1>4, <1>8 DEF vars
<1> QED
  BY <1>5, <1>6, <1>7, <1>8 DEF Next

-----------------------------------------------------------------------------
\* What is in the cache and in each call, whichever of the four uses it is.
THEOREM TypeCorrect == Spec => []TypeOK
<1>1. KindsIInv => TypeOK
  BY DEF KindsIInv, Basics
<1> QED
  BY <1>1, KindsInvariance, PTL

\* SessionQuotaEvaluator reads, then counts: whatever the quota, the amounts and
\* how many evaluations run at once, a session passes its quota by no more than
\* the others ask for, and by what passed unread or uncounted.
THEOREM QuotaOvershootsByCalls == Spec => []QuotaOvershootBounded
<1>1. KindsIInv => QuotaOvershootBounded
  <2> SUFFICES ASSUME KindsIInv, kind = "session"
               PROVE  admitted <= Limit + (Cardinality(Calls) - 1) * LargestUse + strayed
    BY DEF QuotaOvershootBounded
  <2>1. Room /\ call \in [Calls -> Call] /\ admitted \in Nat /\ strayed \in Nat
    BY Parts DEF QuotaInv
  <2>2. PICK most : most = Cardinality(Calls) * LargestUse
    OBVIOUS
  <2>3. /\ most \in Nat /\ (Cardinality(Calls) - 1) * LargestUse = most - LargestUse
        /\ LargestUse \in Nat /\ Limit \in Nat
    BY <2>2, Bounds, Times
  <2>4. admitted - strayed + LargestUse <= Limit + most
    <3>1. CASE Seen = {}
      BY <2>1, <2>2, <3>1 DEF Room
    <3>2. CASE Seen # {}
      <4>1. Seen \in SUBSET Calls
        BY DEF Seen, Pending
      <4>2. PICK c \in Seen : admitted - strayed + call[c].amount
                                + Cardinality(Seen) * LargestUse <= Limit + most
        BY <2>1, <2>2, <3>2 DEF Room
      <4>3. PICK k : k = Cardinality(Seen) * LargestUse
        OBVIOUS
      <4>4. k \in Nat /\ k >= LargestUse
        BY <3>2, <4>1, <4>3, SeenFew
      <4>5. call[c].amount \in Nat
        BY <2>1, <4>1, CountersAssumption DEF Call
      <4>6. admitted - strayed + call[c].amount + k <= Limit + most
        BY <4>2, <4>3
      <4> QED
        BY <2>1, <2>3, <4>4, <4>5, <4>6
    <3> QED
      BY <3>1, <3>2
  <2> QED
    BY <2>1, <2>3, <2>4
<1> QED
  BY <1>1, KindsInvariance, PTL

\* PolicyEngine.preview and count: a match that is held for an approval after it
\* was counted was overtaken, by another match or by the end of the window.
THEOREM HeldCallsAreUncounted == Spec => []HeldNotCounted
<1>1. KindsIInv => HeldNotCounted
  BY DEF KindsIInv
<1> QED
  BY <1>1, KindsInvariance, PTL

\* decide over count_match: for every rule, a match is decided no weaker than
\* any that was decided in the window before it began, unless a set lost matches.
THEOREM DecisionsOnlyRise == Spec => EscalationNeverRelaxes
<1> DEFINE Rises ==
      \A c \in Calls :
        /\ kind = "match" /\ ~call[c].denied
        /\ call[c].stage \in {"preview", "incr", "set"} /\ call'[c].stage \in {"idle", "held"}
        => Decide(IF call[c].stage = "preview" THEN value + 1 ELSE value')
             >= call[c].floor
<1>1. KindsIInv /\ [Next]_vars => Rises
  BY DecidedNoWeaker
<1>2. Spec => [][Rises]_vars
  <2> HIDE DEF Rises
  <2> QED
    BY <1>1, KindsInvariance, PTL DEF Spec
<1> QED
  BY <1>2 DEF EscalationNeverRelaxes

-----------------------------------------------------------------------------
(***************************************************************************)
(* Sums: the tokens of a set of calls, which TokensAccounted adds up with  *)
(* the library's recursive fold.  By induction on the number of elements,  *)
(* in the form of a set of numbers: a recursive function exists on the     *)
(* subsets of up to n elements for every n, it is the only one, and an     *)
(* element adds its weight whenever it is added.                           *)
(***************************************************************************)
LEMMA AllNumbers ==
  ASSUME NEW S, 0 \in S, \A n \in Nat : n \in S => n + 1 \in S
  PROVE  \A n \in Nat : n \in S
<1> DEFINE Missing == Nat \ S
           Less == OpToRel(<, Nat)
<1>1. SUFFICES ASSUME Missing # {} PROVE FALSE
  OBVIOUS
<1>2. IsWellFoundedOn(Less, Nat)
  BY NatLessThanWellFounded, Zenon
<1>3. Missing \subseteq Nat
  OBVIOUS
<1> HIDE DEF Missing, Less
<1>4. PICK least \in Missing : \A m \in Missing : ~ (<<m, least>> \in Less)
  BY <1>1, <1>2, <1>3, WFMin
<1>5. least \in Nat /\ least # 0 /\ least \notin S
  BY <1>3, <1>4 DEF Missing
<1>6. least - 1 \in Nat /\ least - 1 < least /\ least = (least - 1) + 1
  BY <1>5
<1>7. least - 1 \in Missing
  BY <1>5, <1>6 DEF Missing
<1>8. <<least - 1, least>> \in Less
  BY <1>5, <1>6 DEF Less, OpToRel
<1> QED
  BY <1>4, <1>7, <1>8

Pick(s) == CHOOSE x \in s : TRUE

\* f gives the sum of the weights w of every set in sets.
Sums(f, w, sets) ==
  \A s \in sets : f[s] = IF s = {} THEN 0 ELSE w[Pick(s)] + f[s \ {Pick(s)}]

Few(S, n) == {s \in SUBSET S : Cardinality(s) <= n}

LEMMA OneLess ==
  ASSUME NEW S, IsFiniteSet(S)
  PROVE  /\ Few(S, Cardinality(S)) = SUBSET S /\ Cardinality(S) \in Nat
         /\ Few(S, 0) = {{}}
         /\ \A s \in SUBSET S : s # {} => Pick(s) \in s
         /\ \A n \in Nat : \A s \in Few(S, n + 1), x \in S :
              x \in s => s \ {x} \in Few(S, n)
<1>1. ASSUME NEW s \in SUBSET S
      PROVE  /\ IsFiniteSet(s) /\ Cardinality(s) \in Nat /\ Cardinality(s) <= Cardinality(S)
             /\ Cardinality(s) = 0 <=> s = {}
  BY FS_Subset, FS_CardinalityType, FS_EmptySet
<1>2. ASSUME NEW s \in SUBSET S, NEW x \in s PROVE Cardinality(s \ {x}) = Cardinality(s) - 1
  BY <1>1, FS_RemoveElement
<1>3. Cardinality(S) \in Nat
  BY FS_CardinalityType
<1>4. Few(S, Cardinality(S)) = SUBSET S
  BY <1>1 DEF Few
<1>5. Few(S, 0) = {{}}
  <2>1. \A s \in SUBSET S : Cardinality(s) <= 0 <=> s = {}
    BY <1>1
  <2> QED
    BY <2>1 DEF Few
<1>6. \A s \in SUBSET S : s # {} => Pick(s) \in s
  BY DEF Pick
<1>7. ASSUME NEW n \in Nat, NEW s \in Few(S, n + 1), NEW x \in S, x \in s
      PROVE  s \ {x} \in Few(S, n)
  <2>1. s \in SUBSET S /\ Cardinality(s) <= n + 1
    BY DEF Few
  <2>2. Cardinality(s \ {x}) = Cardinality(s) - 1 /\ Cardinality(s) \in Nat
    BY <1>1, <1>2, <1>7, <2>1
  <2> QED
    BY <2>1, <2>2 DEF Few
<1> QED
  BY <1>3, <1>4, <1>5, <1>6, <1>7

LEMMA SumExists ==
  ASSUME NEW S, IsFiniteSet(S), NEW w \in [S -> Nat]
  PROVE  \E f \in [SUBSET S -> Nat] : Sums(f, w, SUBSET S)
<1> DEFINE Have == {n \in Nat : \E f \in [SUBSET S -> Nat] : Sums(f, w, Few(S, n))}
<1>1. 0 \in Have
  <2> DEFINE f == [s \in SUBSET S |-> 0]
  <2>1. f \in [SUBSET S -> Nat]
    OBVIOUS
  <2>2. Sums(f, w, Few(S, 0))
    BY OneLess DEF Sums
  <2> QED
    BY <2>1, <2>2
<1>2. ASSUME NEW n \in Nat, n \in Have PROVE n + 1 \in Have
  <2>1. PICK f \in [SUBSET S -> Nat] : Sums(f, w, Few(S, n))
    BY <1>2
  <2> DEFINE g == [s \in SUBSET S |-> IF s = {} THEN 0 ELSE w[Pick(s)] + f[s \ {Pick(s)}]]
  <2>2. \A s \in SUBSET S : s # {} => Pick(s) \in s /\ w[Pick(s)] \in Nat
    BY OneLess
  <2>3. g \in [SUBSET S -> Nat]
    <3>1. \A s \in SUBSET S : s \ {Pick(s)} \in SUBSET S
      OBVIOUS
    <3>2. \A s \in SUBSET S : f[s \ {Pick(s)}] \in Nat
      BY <3>1
    <3>3. \A s \in SUBSET S : g[s] \in Nat
      BY <2>2, <3>2
    <3> QED
      BY <3>3
  <2>4. ASSUME NEW s \in Few(S, n) PROVE g[s] = f[s]
    BY <2>1 DEF Sums, Few
  <2>5. ASSUME NEW s \in Few(S, n + 1)
        PROVE  g[s] = IF s = {} THEN 0 ELSE w[Pick(s)] + g[s \ {Pick(s)}]
    <3>1. s \in SUBSET S
      BY DEF Few
    <3>2. s # {} => s \ {Pick(s)} \in Few(S, n)
      BY <2>2, <3>1, OneLess
    <3> QED
      BY <2>4, <3>1, <3>2
  <2> HIDE DEF g
  <2>6. Sums(g, w, Few(S, n + 1))
    BY <2>5 DEF Sums
  <2> QED
    BY <2>3, <2>6
<1> HIDE DEF Have
<1>3. Cardinality(S) \in Have
  BY <1>1, <1>2, AllNumbers, OneLess
<1>4. PICK f \in [SUBSET S -> Nat] : Sums(f, w, Few(S, Cardinality(S)))
  BY <1>3 DEF Have
<1>5. Few(S, Cardinality(S)) = SUBSET S
  BY OneLess
<1> QED
  BY <1>4, <1>5

\* Whatever else two weights are, what they give to a set's members decides.
LEMMA SumUnique ==
  ASSUME NEW S, IsFiniteSet(S), NEW w, NEW v, \A x \in S : w[x] = v[x],
         NEW f, NEW g, Sums(f, w, SUBSET S), Sums(g, v, SUBSET S)
  PROVE  f[S] = g[S]
<1> DEFINE Same == {n \in Nat : \A s \in Few(S, n) : f[s] = g[s]}
<1>1. 0 \in Same
  BY OneLess DEF Sums
<1>2. ASSUME NEW n \in Nat, n \in Same PROVE n + 1 \in Same
  <2>1. ASSUME NEW s \in Few(S, n + 1) PROVE f[s] = g[s]
    <3>1. s \in SUBSET S
      BY DEF Few
    <3>2. s # {} => Pick(s) \in s /\ s \ {Pick(s)} \in Few(S, n)
      BY <3>1, OneLess
    <3>3. s # {} => w[Pick(s)] = v[Pick(s)] /\ f[s \ {Pick(s)}] = g[s \ {Pick(s)}]
      BY <1>2, <3>1, <3>2
    <3> QED
      BY <3>1, <3>3 DEF Sums
  <2> QED
    BY <2>1
<1> HIDE DEF Same
<1>3. Cardinality(S) \in Same
  BY <1>1, <1>2, AllNumbers, OneLess
<1> QED
  BY <1>3, OneLess DEF Same

\* A sum of weights, whatever the order they are picked in.
SumOver(f, w, S) ==
  /\ IsFiniteSet(S) /\ w \in [S -> Nat] /\ f \in [SUBSET S -> Nat]
  /\ Sums(f, w, SUBSET S)

Additive(f, w, S) ==
  \A t \in SUBSET S, e \in S : e \notin t => f[t \cup {e}] = f[t] + w[e]

LEMMA SumAdds ==
  ASSUME NEW S, NEW w, NEW f, SumOver(f, w, S)
  PROVE  Additive(f, w, S)
<1>. USE DEF SumOver
<1> DEFINE Adds == {n \in Nat : \A s \in Few(S, n), x \in S :
                                  x \notin s => f[s \cup {x}] = f[s] + w[x]}
<1>1. ASSUME NEW s \in SUBSET S, NEW x \in S, x \notin s, Pick(s \cup {x}) = x
      PROVE  f[s \cup {x}] = f[s] + w[x]
  <2>1. s \cup {x} \in SUBSET S /\ s \cup {x} # {} /\ (s \cup {x}) \ {x} = s
    BY <1>1
  <2>2. f[s \cup {x}] = w[x] + f[s]
    BY <1>1, <2>1 DEF Sums
  <2>3. w[x] \in Nat /\ f[s] \in Nat
    OBVIOUS
  <2> QED
    BY <2>2, <2>3
<1>2. 0 \in Adds
  <2>1. \A x \in S : Pick({} \cup {x}) = x
    BY DEF Pick
  <2> QED
    BY <1>1, <2>1, OneLess
<1>3. ASSUME NEW n \in Nat, n \in Adds PROVE n + 1 \in Adds
  <2>1. SUFFICES ASSUME NEW s \in Few(S, n + 1), NEW x \in S, x \notin s
                 PROVE  f[s \cup {x}] = f[s] + w[x]
    OBVIOUS
  <2> DEFINE y == Pick(s \cup {x})
             rest == s \ {y}
  <2>2. s \in SUBSET S /\ s \cup {x} \in SUBSET S /\ s \cup {x} # {}
    BY DEF Few
  <2>3. y \in s \cup {x}
    BY <2>2, OneLess
  <2>4. CASE y = x
    BY <1>1, <2>1, <2>2, <2>4
  <2>5. CASE y # x
    <3>1. y \in s /\ y \in S
      BY <2>2, <2>3, <2>5
    <3>2. rest \in Few(S, n) /\ y \notin rest /\ x \notin rest
      BY <2>1, <3>1, OneLess
    <3>3. rest \cup {y} = s /\ (s \cup {x}) \ {y} = rest \cup {x}
      BY <2>5, <3>1
    <3>4. f[s \cup {x}] = w[y] + f[rest \cup {x}]
      BY <2>2, <3>3 DEF Sums
    <3> HIDE DEF y, rest
    <3>5. f[s] = f[rest] + w[y] /\ f[rest \cup {x}] = f[rest] + w[x]
      BY <1>3, <3>1, <3>2, <3>3
    <3>6. w[y] \in Nat /\ w[x] \in Nat /\ f[rest] \in Nat
      BY <3>1, <3>2 DEF Few
    <3> QED
      BY <3>4, <3>5, <3>6
  <2> QED
    BY <2>4, <2>5
<1> HIDE DEF Adds
<1>4. Cardinality(S) \in Adds
  BY <1>2, <1>3, AllNumbers, OneLess
<1>5. \A t \in SUBSET S : t \in Few(S, Cardinality(S))
  BY OneLess
<1> QED
  BY <1>4, <1>5 DEF Adds, Additive

TokensOf(c, T) == MapThenFoldSet(+, 0, LAMBDA r : c[r].amount,
                                 LAMBDA s : CHOOSE x \in s : TRUE, T)

LEMMA TokensOfIsSum ==
  ASSUME NEW T, IsFiniteSet(T), NEW c, NEW w, \A r \in T : w[r] = c[r].amount,
         NEW f \in [SUBSET T -> Nat], Sums(f, w, SUBSET T)
  PROVE  TokensOf(c, T) = f[T]
<1> DEFINE Is(g) == g = [s \in SUBSET T |->
                          IF s = {} THEN 0
                          ELSE c[Pick(s)].amount + g[s \ {Pick(s)}]]
           sum == CHOOSE g : Is(g)
<1>1. TokensOf(c, T) = sum[T]
  BY DEF TokensOf, MapThenFoldSet, Pick
<1>2. \A s \in SUBSET T : s # {} => Pick(s) \in T
  BY OneLess
<1>3. Is(f)
  <2>1. \A s \in SUBSET T :
          f[s] = IF s = {} THEN 0
                 ELSE c[Pick(s)].amount + f[s \ {Pick(s)}]
    BY <1>2 DEF Sums
  <2> QED
    BY <2>1
<1>4. Is(sum)
  <2> HIDE DEF Is
  <2> QED
    BY <1>3
<1> HIDE DEF sum
<1>5. Sums(sum, w, SUBSET T)
  <2>1. \A s \in SUBSET T :
          sum[s] = IF s = {} THEN 0
                   ELSE c[Pick(s)].amount + sum[s \ {Pick(s)}]
    BY <1>4
  <2> QED
    BY <1>2, <2>1 DEF Sums
<1>6. sum[T] = f[T]
  BY <1>5, SumUnique
<1> QED
  BY <1>1, <1>6

Adds(c, d, T, r, n) ==
  /\ IsFiniteSet(T) /\ r \notin T /\ n \in Nat /\ n = d[r].amount
  /\ \A q \in T : c[q].amount \in Nat /\ d[q] = c[q]

\* A call that joins others adds what it asked for.
LEMMA TokensOfAdds ==
  ASSUME NEW c, NEW d, NEW T, NEW r, NEW n, Adds(c, d, T, r, n)
  PROVE  /\ TokensOf(c, T) \in Nat
         /\ TokensOf(d, T \cup {r}) = TokensOf(c, T) + n
<1>0. /\ IsFiniteSet(T) /\ r \notin T /\ n \in Nat /\ n = d[r].amount
      /\ \A q \in T : c[q].amount \in Nat /\ d[q] = c[q]
  BY DEF Adds
<1> DEFINE S == T \cup {r}
           w == [q \in S |-> d[q].amount]
<1>1. IsFiniteSet(S)
  BY <1>0, FS_AddElement
<1>2. \A q \in S : d[q].amount \in Nat
  BY <1>0
<1>3. w \in [S -> Nat]
  BY <1>2
<1>4. \A q \in S : w[q] = d[q].amount
  OBVIOUS
<1> HIDE DEF S, w
<1>5. PICK f \in [SUBSET S -> Nat] : Sums(f, w, SUBSET S)
  BY <1>1, <1>3, SumExists
<1>6. T \in SUBSET S /\ r \in S /\ T \cup {r} = S
  BY DEF S
<1>7. TokensOf(d, S) = f[S]
  BY <1>1, <1>4, <1>5, TokensOfIsSum
<1>8. TokensOf(c, T) = f[T]
  <2> DEFINE g == [s \in SUBSET T |-> f[s]]
  <2>1. SUBSET T \subseteq SUBSET S
    BY <1>6
  <2>2. g \in [SUBSET T -> Nat]
    BY <2>1
  <2>3. Sums(g, w, SUBSET T)
    <3>1. ASSUME NEW s \in SUBSET T
          PROVE  g[s] = IF s = {} THEN 0 ELSE w[Pick(s)] + g[s \ {Pick(s)}]
      BY <1>5, <2>1 DEF Sums
    <3> HIDE DEF g
    <3> QED
      BY <3>1 DEF Sums
  <2>4. \A q \in T : w[q] = c[q].amount
    BY <1>0, <1>4, <1>6
  <2>5. g[T] = f[T]
    OBVIOUS
  <2> HIDE DEF g
  <2>6. TokensOf(c, T) = g[T]
    BY <1>0, <2>2, <2>3, <2>4, TokensOfIsSum
  <2> QED
    BY <2>5, <2>6
<1>9. f[S] = f[T] + w[r] /\ f[T] \in Nat
  <2>1. f \in [SUBSET S -> Nat] /\ Sums(f, w, SUBSET S)
    BY <1>5
  <2>2. w \in [S -> Nat] /\ IsFiniteSet(S) /\ T \in SUBSET S /\ r \in S /\ r \notin T
    BY <1>0, <1>1, <1>3, <1>6
  <2>3. Additive(f, w, S)
    <3>1. SumOver(f, w, S)
      BY <2>1, <2>2 DEF SumOver
    <3> QED
      BY <3>1, SumAdds
  <2>4. f[T \cup {r}] = f[T] + w[r]
    BY <2>2, <2>3 DEF Additive
  <2> QED
    BY <1>6, <2>1, <2>4
<1> QED
  BY <1>0, <1>4, <1>6, <1>7, <1>8, <1>9

LEMMA TokensOfSame ==
  ASSUME NEW T, IsFiniteSet(T), NEW c, NEW d, \A q \in T : c[q].amount \in Nat /\ d[q] = c[q]
  PROVE  TokensOf(d, T) = TokensOf(c, T)
<1> DEFINE w == [q \in T |-> c[q].amount]
<1>1. w \in [T -> Nat]
  OBVIOUS
<1>2. \A q \in T : w[q] = c[q].amount /\ w[q] = d[q].amount
  OBVIOUS
<1> HIDE DEF w
<1>3. PICK f \in [SUBSET T -> Nat] : Sums(f, w, SUBSET T)
  BY <1>1, SumExists
<1> QED
  BY <1>2, <1>3, TokensOfIsSum

LEMMA TokensOfNone == ASSUME NEW c PROVE TokensOf(c, {}) = 0
<1> DEFINE w == [q \in {} |-> 0]
<1>1. IsFiniteSet({}) /\ w \in [{} -> Nat]
  BY FS_EmptySet
<1> HIDE DEF w
<1>2. PICK f \in [SUBSET {} -> Nat] : Sums(f, w, SUBSET {})
  BY <1>1, SumExists
<1>3. TokensOf(c, {}) = f[{}]
  BY <1>1, <1>2, TokensOfIsSum
<1> QED
  BY <1>2, <1>3 DEF Sums

-----------------------------------------------------------------------------
(***************************************************************************)
(* The tokens of a day.  The counter is always what TokensAccounted says   *)
(* it is while it is live; when it is gone nothing is to be given back to  *)
(* it, so that the next day begins from nothing.                           *)
(***************************************************************************)
DayInv ==
  kind = "tokens" =>
    /\ value = admitted + TokensOf(call, Reserved) - strayed
    /\ admitted <= Limit + strayed
    /\ ~live => Reserved = {}
    /\ \A c \in Calls : call[c].stage = "give_back" => call[c].window <= window

LEMMA ReservedAmounts ==
  ASSUME KindsIInv
  PROVE  /\ IsFiniteSet(Reserved)
         /\ TokensOf(call, Reserved) \in Nat /\ Reserved \in SUBSET Calls
         /\ \A c \in Calls : call[c] \in Call /\ call[c].amount \in Nat
<1>2. Reserved \in SUBSET Calls
  BY DEF Reserved
<1>3. IsFiniteSet(Reserved)
  BY <1>2, FS_Subset, CountersAssumption
<1>4. \A c \in Calls : call[c] \in Call /\ call[c].amount \in Nat
  BY Parts DEF Call
<1>5. TokensOf(call, Reserved) \in Nat
  <2> DEFINE w == [c \in Reserved |-> call[c].amount]
  <2>1. w \in [Reserved -> Nat] /\ \A c \in Reserved : w[c] = call[c].amount
    BY <1>2, <1>4
  <2> HIDE DEF w
  <2>2. PICK f \in [SUBSET Reserved -> Nat] : Sums(f, w, SUBSET Reserved)
    BY <1>3, <2>1, SumExists
  <2>3. TokensOf(call, Reserved) = f[Reserved]
    BY <1>3, <2>1, <2>2, TokensOfIsSum
  <2> QED
    BY <2>2, <2>3
<1> QED
  BY <1>2, <1>3, <1>4, <1>5

\* A step of a call that neither has tokens to give back nor comes to have.
LEMMA DayGoesOn ==
  ASSUME KindsIInv, DayInv, NEW c \in Calls, live => live',
         UNCHANGED <<kind, value, admitted, strayed, window>>,
         \A d \in Calls \ {c} : call'[d] = call[d],
         call[c].stage # "give_back", call'[c].stage # "give_back"
  PROVE  DayInv'
<1>1. Reserved' = Reserved
  BY DEF Reserved
<1>2. /\ IsFiniteSet(Reserved)
      /\ Reserved \in SUBSET Calls /\ \A d \in Calls : call[d].amount \in Nat
  BY ReservedAmounts
<1>3. \A d \in Reserved : call[d].amount \in Nat /\ call'[d] = call[d]
  BY <1>2 DEF Reserved
<1>4. TokensOf(call', Reserved) = TokensOf(call, Reserved)
  BY <1>2, <1>3, TokensOfSame
<1>5. TokensOf(call', Reserved') = TokensOf(call, Reserved)
  BY <1>1, <1>2, <1>4
<1>6. \A d \in Calls : call'[d].stage = "give_back" =>
                         call[d].stage = "give_back" /\ call'[d].window = call[d].window
  OBVIOUS
<1> QED
  BY <1>1, <1>5, <1>6 DEF DayInv

\* A call is counted: its tokens are admitted, or are to be given back.
LEMMA DayCounts ==
  ASSUME KindsIInv, DayInv, NEW c \in Calls, kind = "tokens", live,
         call[c].stage \in {"incr", "retry"}, value' = value + call[c].amount,
         Counted(c, value'), UNCHANGED <<kind, live, window>>
  PROVE  DayInv'
<1>0. strayed' = strayed
  BY Parts DEF Counted, StagesOK
<1>1. /\ IsFiniteSet(Reserved)
      /\ TokensOf(call, Reserved) \in Nat /\ Reserved \in SUBSET Calls
      /\ \A d \in Calls : call[d] \in Call /\ call[d].amount \in Nat
  BY ReservedAmounts
<1>2. /\ value \in Int /\ admitted \in Nat /\ strayed \in Nat /\ window \in Int
      /\ call \in [Calls -> Call]
  BY Parts, CountersAssumption
<1>3. /\ value = admitted + TokensOf(call, Reserved) - strayed
      /\ admitted <= Limit + strayed
      /\ \A d \in Calls : call[d].stage = "give_back" => call[d].window <= window
  BY DEF DayInv
<1>4. CASE value' > Limit
  <2> DEFINE back == [call[c] EXCEPT !.stage = "give_back", !.window = window]
  <2>1. call' = [call EXCEPT ![c] = back] /\ UNCHANGED admitted
    BY <1>2, <1>4 DEF Counted
  <2>2. back.stage = "give_back" /\ back.window = window /\ back.amount = call[c].amount
    BY <1>1 DEF Call
  <2> HIDE DEF back
  <2>3. call'[c] = back /\ \A d \in Calls \ {c} : call'[d] = call[d]
    BY <1>2, <2>1
  <2>4. Reserved' = Reserved \cup {c} /\ c \notin Reserved
    BY <2>2, <2>3 DEF Reserved
  <2>5. \A d \in Reserved : call[d].amount \in Nat /\ call'[d] = call[d]
    BY <1>1, <2>3, <2>4
  <2>6. call'[c].amount \in Nat /\ call'[c].amount = call[c].amount
    BY <1>1, <2>2, <2>3
  <2>7. TokensOf(call', Reserved \cup {c}) = TokensOf(call, Reserved) + call'[c].amount
    <3>1. IsFiniteSet(Reserved) /\ c \notin Reserved
      BY <1>1, <2>4
    <3>2. PICK n \in Nat : n = call'[c].amount
      BY <2>6
    <3>3. PICK before, after, S : before = call /\ after = call' /\ S = Reserved
      OBVIOUS
    <3>4. \A d \in S : before[d].amount \in Nat /\ after[d] = before[d]
      BY <2>5, <3>3
    <3>5. IsFiniteSet(S) /\ c \notin S /\ n = after[c].amount
      BY <3>1, <3>2, <3>3
    <3>6. Adds(before, after, S, c, n)
      BY <3>4, <3>5 DEF Adds
    <3>7. TokensOf(after, S \cup {c}) = TokensOf(before, S) + n
      BY <3>6, TokensOfAdds
    <3> QED
      BY <3>2, <3>3, <3>7
  <2>8. TokensOf(call', Reserved') = TokensOf(call, Reserved) + call[c].amount
    BY <1>1, <2>4, <2>6, <2>7
  <2>9. value' = admitted' + TokensOf(call', Reserved') - strayed'
    BY <1>0, <1>1, <1>2, <1>3, <2>1, <2>8
  <2>10. \A d \in Calls : call'[d].stage = "give_back" => call'[d].window <= window'
    BY <1>2, <1>3, <2>2, <2>3
  <2> QED
    BY <1>0, <1>3, <2>1, <2>9, <2>10 DEF DayInv
<1>5. CASE ~(value' > Limit)
  <2>1. value' <= Limit /\ call[c].amount \in Nat
    BY <1>1, <1>2, <1>5, CountersAssumption
  <2>2. admitted' = admitted + call[c].amount /\ Done(c)
    BY <1>5, <2>1 DEF Counted
  <2>3. \A d \in Calls : call'[d] = IF d = c THEN Idle ELSE call[d]
    BY <1>2, <2>2 DEF Done
  <2>4. Reserved' = Reserved
    BY <2>3, IdleIsCall DEF Reserved
  <2>5. \A d \in Reserved : call[d].amount \in Nat /\ call'[d] = call[d]
    BY <1>1, <2>3 DEF Reserved
  <2>6. TokensOf(call', Reserved) = TokensOf(call, Reserved)
    BY <1>1, <2>5, TokensOfSame
  <2>7. TokensOf(call', Reserved') = TokensOf(call, Reserved)
    BY <1>1, <2>4, <2>6
  <2>8. value' = admitted' + TokensOf(call', Reserved') - strayed'
    BY <1>0, <1>1, <1>2, <1>3, <2>1, <2>2, <2>7
  <2>9. admitted' <= Limit + strayed'
    BY <1>0, <1>1, <1>2, <2>1, <2>2, <2>7, <2>8, CountersAssumption
  <2>10. \A d \in Calls : call'[d].stage = "give_back" => call'[d].window <= window'
    BY <1>3, <2>3, IdleIsCall
  <2> QED
    BY <2>8, <2>9, <2>10 DEF DayInv
<1> QED
  BY <1>4, <1>5

\* Tokens are given back to the day they were counted in, or stray.
LEMMA DayGivesBack ==
  ASSUME KindsIInv, DayInv, NEW c \in Calls, kind = "tokens", GiveBack(c)
  PROVE  DayInv'
<1>1. /\ IsFiniteSet(Reserved)
      /\ TokensOf(call, Reserved) \in Nat /\ Reserved \in SUBSET Calls
      /\ \A d \in Calls : call[d] \in Call /\ call[d].amount \in Nat
  BY ReservedAmounts
<1>2. /\ value \in Int /\ admitted \in Nat /\ strayed \in Nat /\ call \in [Calls -> Call]
  BY Parts
<1>3. /\ value = admitted + TokensOf(call, Reserved) - strayed
      /\ admitted <= Limit + strayed /\ (~live => Reserved = {})
      /\ \A d \in Calls : call[d].stage = "give_back" => call[d].window <= window
  BY DEF DayInv
<1>4. /\ call[c].stage = "give_back" /\ Done(c) /\ UNCHANGED <<kind, live, window, admitted>>
      /\ live => /\ value' = value - call[c].amount
                 /\ strayed' = IF call[c].window = window THEN strayed
                               ELSE strayed + call[c].amount
      /\ ~live => UNCHANGED <<value, strayed>>
  BY DEF GiveBack
<1>5. \A d \in Calls : call'[d] = IF d = c THEN Idle ELSE call[d]
  BY <1>2, <1>4 DEF Done
<1>6. Reserved' = Reserved \ {c}
  BY <1>4, <1>5, IdleIsCall DEF Reserved
<1>7. PICK rest : rest = Reserved \ {c}
  OBVIOUS
<1>8. /\ IsFiniteSet(rest) /\ c \notin rest
      /\ \A d \in rest : call[d].amount \in Nat /\ call'[d] = call[d]
  <2>1. rest \in SUBSET Reserved
    BY <1>7
  <2> QED
    BY <1>1, <1>5, <1>7, <2>1, FS_Subset
<1>9. TokensOf(call', Reserved') = TokensOf(call, rest)
  <2>1. TokensOf(call', rest) = TokensOf(call, rest)
    BY <1>8, TokensOfSame
  <2> QED
    BY <1>6, <1>7, <2>1
<1>10. \A d \in Calls : call'[d].stage = "give_back" => call'[d].window <= window'
  BY <1>3, <1>4, <1>5, IdleIsCall
<1>11. ~live' => Reserved' = {}
  BY <1>3, <1>4, <1>6
<1>12. CASE call[c].window = window
  <2>1. c \in Reserved /\ live /\ rest \cup {c} = Reserved
    BY <1>3, <1>4, <1>7, <1>12 DEF Reserved
  <2>2. \A d \in rest : call[d].amount \in Nat /\ call[d] = call[d]
    BY <1>8
  <2>3. /\ TokensOf(call, rest) \in Nat
        /\ TokensOf(call, rest \cup {c}) = TokensOf(call, rest) + call[c].amount
    <3>1. PICK n \in Nat : n = call[c].amount
      BY <1>1
    <3>2. Adds(call, call, rest, c, n)
      BY <1>8, <2>2, <3>1 DEF Adds
    <3>3. /\ TokensOf(call, rest) \in Nat
          /\ TokensOf(call, rest \cup {c}) = TokensOf(call, rest) + n
      BY <3>2, TokensOfAdds
    <3> QED
      BY <3>1, <3>3
  <2>4. TokensOf(call, Reserved) = TokensOf(call, rest) + call[c].amount
    BY <2>1, <2>3
  <2>5. TokensOf(call', Reserved') = TokensOf(call, Reserved) - call[c].amount
    BY <1>1, <1>9, <2>3, <2>4
  <2>6. value' = admitted' + TokensOf(call', Reserved') - strayed'
    BY <1>1, <1>2, <1>3, <1>4, <1>12, <2>1, <2>5
  <2> QED
    BY <1>3, <1>4, <1>10, <1>11, <1>12, <2>1, <2>6 DEF DayInv
<1>13. CASE call[c].window # window
  <2>1. rest = Reserved
    BY <1>7, <1>13 DEF Reserved
  <2>2. TokensOf(call', Reserved') = TokensOf(call, Reserved)
    BY <1>1, <1>9, <2>1
  <2>3. strayed' \in Nat /\ strayed <= strayed'
    BY <1>1, <1>2, <1>4, <1>13
  <2>4. value' = admitted' + TokensOf(call', Reserved') - strayed'
    BY <1>1, <1>2, <1>3, <1>4, <1>13, <2>2
  <2>5. admitted' <= Limit + strayed'
    <3>1. admitted' = admitted /\ admitted <= Limit + strayed /\ Limit \in Nat
      BY <1>3, <1>4, CountersAssumption
    <3>2. PICK gift \in Nat : strayed' = strayed + gift
      BY <1>1, <1>2, <1>4, <1>13
    <3> QED
      BY <1>2, <3>1, <3>2
  <2> QED
    BY <1>10, <1>11, <2>4, <2>5 DEF DayInv
<1> QED
  BY <1>12, <1>13

\* A day ends: what is still to be given back belongs to a day that is over.
LEMMA DayEnds ==
  ASSUME KindsIInv, DayInv, EndWindow, kind = "tokens"
  PROVE  DayInv'
<1>1. /\ window' = window + 1 /\ live' = FALSE /\ value' = 0 /\ admitted' = 0 /\ strayed' = 0
      /\ kind' = kind
  BY DEF EndWindow
<1>2. \A c \in Calls : call'[c].stage = call[c].stage /\ call'[c].window = call[c].window
  <2>1. \A c \in Calls : call[c] \in Call
    BY Parts
  <2> QED
    BY <2>1 DEF EndWindow, Call
<1>3. \A c \in Calls : call[c].stage = "give_back" => call[c].window <= window
  BY DEF DayInv
<1>4. \A c \in Calls : call[c].window \in Int
  <2>1. \A c \in Calls : call[c] \in Call
    BY Parts
  <2> QED
    BY <2>1 DEF Call
<1>5. window \in Int
  <2>1. window \in 0..MaxWindows
    BY Parts
  <2> QED
    BY <2>1
<1>6. Reserved' = {} /\ \A c \in Calls : call'[c].stage = "give_back" => call'[c].window <= window'
  BY <1>1, <1>2, <1>3, <1>4, <1>5 DEF Reserved
<1>7. TokensOf(call', Reserved') = 0
  BY <1>6, TokensOfNone
<1> QED
  BY <1>1, <1>6, <1>7, CountersAssumption DEF DayInv

LEMMA DayInit == Init => DayInv
<1> SUFFICES ASSUME Init PROVE DayInv
  OBVIOUS
<1>1. \A c \in Calls : call[c].stage = "idle"
  BY IdleIsCall DEF Init
<1>2. Reserved = {}
  BY <1>1 DEF Reserved
<1>3. TokensOf(call, Reserved) = 0
  BY <1>2, TokensOfNone
<1> QED
  BY <1>1, <1>2, <1>3, CountersAssumption DEF Init, DayInv

LEMMA DayStep == KindsIInv /\ DayInv /\ [Next]_vars => DayInv'
<1> SUFFICES ASSUME KindsIInv, DayInv, [Next]_vars PROVE DayInv'
  OBVIOUS
<1>1. kind' = kind
  BY KindKept
<1>2. CASE kind # "tokens"
  BY <1>1, <1>2 DEF DayInv
<1>3. CASE kind = "tokens"
  <2>1. /\ call \in [Calls -> Call] /\ StagesOK
    BY Parts
  <2>2. CASE UNCHANGED vars
    BY <2>2 DEF vars, cacheVars, historyVars, DayInv, Reserved
  <2>3. CASE EndWindow
    BY <1>3, <2>3, DayEnds
  <2>4. ASSUME NEW c \in Calls, Step(c) PROVE DayInv'
    <3>1. ASSUME NEW stage, stage # "give_back", call[c].stage # "give_back",
                 Go(c, stage), UNCHANGED <<kind, value, admitted, strayed, window>>,
                 live => live'
          PROVE  DayInv'
      <4>1. call'[c].stage = stage /\ \A d \in Calls \ {c} : call'[d] = call[d]
        BY <2>1, <3>1 DEF Go, Call
      <4> QED
        BY <3>1, <4>1, DayGoesOn
    <3>2. ASSUME Done(c), call[c].stage # "give_back", live' = live,
                 UNCHANGED <<kind, value, admitted, strayed, window>>
          PROVE  DayInv'
      <4>1. call'[c] = Idle /\ \A d \in Calls \ {c} : call'[d] = call[d]
        BY <2>1, <3>2 DEF Done
      <4> QED
        BY <3>2, <4>1, IdleIsCall, DayGoesOn
    <3>3. ASSUME NEW amount \in 0..MaxAmount, NEW holds \in BOOLEAN, Begin(c, amount, holds)
          PROVE  DayInv'
      <4> DEFINE begun == [Idle EXCEPT !.stage = "add", !.amount = amount,
                                       !.holds = holds, !.floor = strongest]
      <4>1. /\ call' = [call EXCEPT ![c] = begun] /\ call[c].stage = "idle"
            /\ UNCHANGED <<kind, live, value, admitted, strayed, window>>
        BY <1>3, <3>3 DEF Begin, cacheVars, historyVars
      <4>2. begun.stage = "add"
        BY DEF Idle
      <4> HIDE DEF begun
      <4>3. call'[c].stage = "add" /\ \A d \in Calls \ {c} : call'[d] = call[d]
        BY <2>1, <4>1, <4>2
      <4> QED
        BY <4>1, <4>3, DayGoesOn
    <3>4. CASE Add(c) \/ Reopen(c)
      BY <3>1, <3>4 DEF Add, Reopen, historyVars
    <3>5. CASE Incr(c)
      <4>1. CASE live
        BY <1>3, <3>5, <4>1, DayCounts DEF Incr
      <4>2. CASE ~live
        BY <1>3, <3>1, <3>5, <4>2 DEF Incr, historyVars
      <4> QED
        BY <4>1, <4>2
    <3>6. CASE Retry(c)
      <4>1. CASE live
        BY <1>3, <3>6, <4>1, DayCounts DEF Retry
      <4>2. CASE ~live
        BY <1>3, <3>2, <3>6, <4>2 DEF Retry, Uncounted
      <4> QED
        BY <4>1, <4>2
    <3>7. CASE GiveBack(c)
      BY <1>3, <3>7, DayGivesBack
    <3>8. ~(ReadQuota(c) \/ ReadFails(c) \/ PreviewHolds(c) \/ PreviewPasses(c)
            \/ SetOne(c) \/ CountFails(c) \/ Approve(c) \/ Deny(c))
      BY <1>3, <2>1 DEF StagesOK, ReadQuota, ReadFails, PreviewHolds, PreviewPasses, SetOne,
         CountFails, Approve, Deny
    <3> QED
      BY <2>4, <3>3, <3>4, <3>5, <3>6, <3>7, <3>8 DEF Step
  <2> QED
    BY <2>2, <2>3, <2>4 DEF Next
<1> QED
  BY <1>2, <1>3

\* RateLimitEvaluator counts a call's tokens, and gives them back when they do
\* not fit: whatever the limit and however calls and days interleave, a day's
\* counter is what was admitted and is still to be given back, less what strayed
\* there from an earlier day, and by that much only can the limit be passed.
THEOREM TokensAreAccounted == Spec => []TokensAccounted
<1>1. DayInv => TokensAccounted
  <2>1. ReservedTokens = TokensOf(call, Reserved)
    BY DEF ReservedTokens, TokensOf
  <2> QED
    BY <2>1 DEF DayInv, TokensAccounted
<1> QED
  BY <1>1, DayInit, DayStep, KindsInvariance, PTL DEF Spec

=============================================================================
