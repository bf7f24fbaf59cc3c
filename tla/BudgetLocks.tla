----------------------------- MODULE BudgetLocks -----------------------------
(***************************************************************************)
(* The transactions of Budget at the grain of their row locks.             *)
(*   services/budgets.py admit(), services/budget_reconciliation.py        *)
(*                                                                         *)
(* A transaction reads a row when it has locked it, keeps what it will     *)
(* write to itself, and makes all of it visible when it commits.  It can   *)
(* be rolled back at any point: by a refusal, or by a lost connection.     *)
(*                                                                         *)
(* The rows are Budget's variables, so that every commit is to be a step   *)
(* of Budget and every other step a stutter.  One accounting period runs,  *)
(* and the policies keep their configuration: no row lock guards either.   *)
(***************************************************************************)
EXTENDS Budget

CONSTANTS
  Transactions,  \* database connections
  Nobody         \* the holder of an unlocked row

ASSUME LocksAssumption ==
  /\ Policies \subseteq Nat     \* ordered, as str(policy.id) orders them
  /\ IsFiniteSet(Policies)      \* the rows of a table
  /\ Nobody \notin Transactions

VARIABLES
  accountLock,   \* [Accounts -> holder]: FOR UPDATE, or the unseen insert
  requestLock,   \* [Requests -> holder]: likewise, for the charge row
  job            \* [Transactions -> what each has read and will write]

lockVars == <<accountLock, requestLock, job>>
rowVars  == <<month, limits, releasing, opened, committed, admitted, charge,
              seed, overrun>>

(***************************************************************************)
(* stage: "idle", "accounts" while an admission locks its accounts,        *)
(* "inserted" once its charge row is written, "settle" while a settlement  *)
(* holds its charge row and locks that charge's accounts.                  *)
(***************************************************************************)
Idle == [stage |-> "idle", request |-> {}, held |-> {}, spend |-> {},
         amount |-> 0, after |-> NoCharge, balance |-> {}]

Locked(t) == {a \in Accounts : accountLock[a] = t}
Todo(t)   == job[t].held \ Locked(t)

\* Accounts are locked in policy order: admit() sorts its budgets, and a
\* charge's account_ids keep the order its admission locked them in.
\* Faulty variant: settlements walk a charge's accounts the other way round.
NextAccountUnsorted(t) ==
  CHOOSE a \in Todo(t) : \A b \in Todo(t) :
    IF job[t].stage = "settle" THEN a[1] >= b[1] ELSE a[1] <= b[1]

NextAccount(t) == CHOOSE a \in Todo(t) : \A b \in Todo(t) : a[1] <= b[1]

LocksInit ==
  /\ Init
  /\ accountLock = [a \in Accounts |-> Nobody]
  /\ requestLock = [r \in Requests |-> Nobody]
  /\ job = [t \in Transactions |-> Idle]

\* Commit and rollback both release every lock the transaction holds.
Release(t) ==
  /\ accountLock' = [a \in Accounts |->
                       IF accountLock[a] = t THEN Nobody ELSE accountLock[a]]
  /\ requestLock' = [r \in Requests |->
                       IF requestLock[r] = t THEN Nobody ELSE requestLock[r]]
  /\ job' = [job EXCEPT ![t] = Idle]

Rollback(t) ==
  /\ job[t].stage # "idle"
  /\ Release(t)
  /\ UNCHANGED rowVars

-----------------------------------------------------------------------------
\* admit() begins: the evaluation names the budgets and prices the request.
BeginAdmit(t, r, budgets, amount, spend) ==
  /\ job[t].stage = "idle"
  /\ budgets # {}
  /\ job' = [job EXCEPT ![t] =
               [Idle EXCEPT !.stage = "accounts", !.request = {r},
                            !.held = Held(budgets), !.amount = amount,
                            !.spend = spend,
                            !.balance = [a \in Held(budgets) |-> 0]]]
  /\ UNCHANGED <<rowVars, accountLock, requestLock>>

\* Faulty: reads the account without FOR UPDATE.
ReadAccount(t) ==
  LET a == NextAccount(t)
      balance == Balance(a, job[t].spend) + job[t].amount
  IN  /\ job[t].stage = "accounts"
      /\ Todo(t) # {}
      /\ \E limit \in limits[a[1]] : balance <= limit
      /\ accountLock' = [accountLock EXCEPT ![a] = t]
      /\ job' = [job EXCEPT ![t].balance[a] = balance]
      /\ UNCHANGED <<rowVars, requestLock>>

\* get_or_create, select_for_update, and the limit check: one account.  A
\* refusal rolls the transaction back; that is Rollback.
LockAccount(t) ==
  LET a == NextAccount(t)
      balance == Balance(a, job[t].spend) + job[t].amount
  IN  /\ job[t].stage = "accounts"
      /\ Todo(t) # {}
      /\ accountLock[a] = Nobody
      /\ \E limit \in limits[a[1]] : balance <= limit
      /\ accountLock' = [accountLock EXCEPT ![a] = t]
      /\ job' = [job EXCEPT ![t].balance[a] = balance]
      /\ UNCHANGED <<rowVars, requestLock>>

\* BudgetCharge.objects.create: an insert waits for an uncommitted insert of
\* the same key, and fails at once against a committed one (then: Rollback).
InsertCharge(t) ==
  \E r \in job[t].request :
    /\ job[t].stage = "accounts"
    /\ Todo(t) = {}
    /\ r \notin admitted
    /\ requestLock[r] = Nobody
    /\ requestLock' = [requestLock EXCEPT ![r] = t]
    /\ job' = [job EXCEPT ![t].stage = "inserted"]
    /\ UNCHANGED <<rowVars, accountLock>>

\* The approvals are consumed and the admission commits.
CommitAdmit(t) ==
  \E r \in job[t].request :
    LET held == job[t].held IN
    /\ job[t].stage = "inserted"
    /\ opened' = opened \cup held
    /\ seed' = [a \in Accounts |->
                  IF a \in held \ opened THEN job[t].spend[a[1]] ELSE seed[a]]
    /\ committed' = [a \in Accounts |->
                       IF a \in held THEN job[t].balance[a] ELSE committed[a]]
    /\ admitted' = admitted \cup {r}
    /\ charge' = [charge EXCEPT ![r] = Reserved(job[t].amount, held)]
    /\ Release(t)
    /\ UNCHANGED <<month, limits, releasing, overrun>>

-----------------------------------------------------------------------------
\* A settlement begins: it locks the charge row and decides what to record.
\* When the charge holds the same afterwards, no account is locked.
Delta(t) == \* what the settlement moves each account by
  LET r == CHOOSE q \in Requests : q \in job[t].request
  IN  EffectiveCommitment(job[t].after) - EffectiveCommitment(charge[r])

LockCharge(t, r, after) ==
  LET moved == EffectiveCommitment(after) # EffectiveCommitment(charge[r])
      held == IF moved THEN charge[r].accounts ELSE {}
  IN  /\ job[t].stage = "idle"
      /\ r \in admitted
      /\ requestLock[r] = Nobody
      /\ ~ProviderSettled(charge[r])
      /\ requestLock' = [requestLock EXCEPT ![r] = t]
      /\ job' = [job EXCEPT ![t] =
                   [Idle EXCEPT !.stage = "settle", !.request = {r},
                                !.held = held, !.after = after,
                                !.balance = [a \in held |-> 0]]]
      /\ UNCHANGED <<rowVars, accountLock>>

\* The three callers of _settle, and what each decides to record.
BeginSettle(t, r, cost) ==
  LET c == charge[r]
      reported == Larger(cost, c.actual)
  IN  \/ /\ cost <= c.amount      \* reconcile_charge
         /\ LockCharge(t, r, Settled(c, cost, "provider", TRUE))
      \/ LockCharge(t, r, Settled(c, 0, "provider", TRUE))   \* cancel_charge
      \/ /\ c.source = "none" \/ reported # c.actual  \* reconcile_reported_usage
         /\ LockCharge(t, r, Settled(c, reported, "reported",
                                     ReleasesOnReportedUsage(c)))

\* _settle locks and moves one account of the charge.
SettleAccount(t) ==
  LET a == NextAccount(t) IN
  /\ job[t].stage = "settle"
  /\ Todo(t) # {}
  /\ accountLock[a] = Nobody
  /\ accountLock' = [accountLock EXCEPT ![a] = t]
  /\ job' = [job EXCEPT ![t].balance[a] = Larger(0, committed[a] + Delta(t))]
  /\ UNCHANGED <<rowVars, requestLock>>

CommitSettle(t) ==
  \E r \in job[t].request :
    /\ job[t].stage = "settle"
    /\ Todo(t) = {}
    /\ charge' = [charge EXCEPT ![r] = job[t].after]
    /\ committed' = [a \in Accounts |-> IF a \in job[t].held
                                        THEN job[t].balance[a]
                                        ELSE committed[a]]
    /\ overrun' = [a \in Accounts |-> IF a \in job[t].held
                                      THEN overrun[a] + Larger(0, Delta(t))
                                      ELSE overrun[a]]
    /\ Release(t)
    /\ UNCHANGED <<month, limits, releasing, opened, admitted, seed>>

-----------------------------------------------------------------------------
LocksNext ==
  \E t \in Transactions :
    \/ \E r \in Requests, budgets \in SUBSET Policies, amount \in Amounts,
          spend \in [Policies -> Spends] :
         BeginAdmit(t, r, budgets, amount, spend)
    \/ LockAccount(t)
    \/ InsertCharge(t)
    \/ CommitAdmit(t)
    \/ \E r \in Requests, cost \in Costs : BeginSettle(t, r, cost)
    \/ SettleAccount(t)
    \/ CommitSettle(t)
    \/ Rollback(t)

LocksSpec == LocksInit /\ [][LocksNext]_<<rowVars, lockVars>>

-----------------------------------------------------------------------------
\* The transactions that must end before t can take its next step.
Blockers(t) ==
  CASE job[t].stage \in {"accounts", "settle"} /\ Todo(t) # {}
         -> {accountLock[NextAccount(t)]} \ {Nobody}
    [] job[t].stage = "accounts" /\ Todo(t) = {}
         -> {requestLock[r] : r \in job[t].request \ admitted} \ {Nobody}
    [] OTHER -> {}

\* No set of admissions and settlements waits for row locks in a circle, so
\* PostgreSQL never has to kill one to break a deadlock.
NoLockCycle ==
  \A waiting \in (SUBSET Transactions) \ {{}} :
    \E t \in waiting : Blockers(t) \cap waiting = {}

\* The row-locked transactions are the atomic transactions of Budget: each
\* commit admits or settles exactly as Budget says, from the rows as they are
\* at that moment, and nothing else changes a row.
AtomicTransactions == Spec
=============================================================================
