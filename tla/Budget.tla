------------------------------- MODULE Budget -------------------------------
(***************************************************************************)
(* Hard monthly budgets: admission charges and their reconciliation.       *)
(*   services/budgets.py, services/budget_reconciliation.py,               *)
(*   models/budget.py                                                      *)
(*                                                                         *)
(* Each database transaction is one step here; module BudgetLocks shows    *)
(* that the row-locked transactions of the code implement these steps.     *)
(* Dollar amounts are small naturals (the code's unit is 10^-8 USD).       *)
(***************************************************************************)
EXTENDS Integers, FiniteSets, FiniteSetsExt

CONSTANTS
  Policies,   \* enforced hard budget_limit policies that can refuse
  Requests,   \* (endpoint, request_id) pairs: the charge's unique key
  Months,     \* accounting periods a behaviour runs through, 1..n
  Limits,     \* values an operator gives a policy's monthly limit
  Amounts,    \* conservative upper bounds a request can be priced at
  Costs,      \* costs a usage report or a provider bill can state
  Spends      \* metered spend an account can be opened with

ASSUME BudgetAssumption ==
  /\ Months \subseteq Nat /\ 1 \in Months
  /\ Limits \subseteq Nat /\ Limits # {}
  /\ Amounts \subseteq Nat
  /\ Costs \subseteq Nat
  /\ Spends \subseteq Nat

VARIABLES
  month,      \* the current accounting period
  limits,     \* [Policies -> SUBSET Nat], every monthly_limit a policy has had:
              \*   an evaluation may hold a policy cached before an edit
  releasing,  \* policies whose config says reconcile_with_reported_usage
  opened,     \* BudgetAccount rows that exist
  committed,  \* [Accounts -> Nat], their committed_usd
  admitted,   \* BudgetCharge rows that exist
  charge,     \* [Requests -> Charge], the rows
  seed,       \* history: what each account was opened with
  overrun     \* history: what settlements have raised each account by

vars == <<month, limits, releasing, opened, committed, admitted, charge,
          seed, overrun>>

Accounts == Policies \X Months

Sources == {"none", "reported", "provider"}

Charge == [amount : Nat, accounts : SUBSET Accounts, actual : Nat,
           reconciled : BOOLEAN, source : Sources]

Reserved(amount, accounts) ==
  [amount |-> amount, accounts |-> accounts, actual |-> 0,
   reconciled |-> FALSE, source |-> "none"]

NoCharge == Reserved(0, {})

Settled(c, actual, source, reconciled) ==
  [amount |-> c.amount, accounts |-> c.accounts, actual |-> actual,
   reconciled |-> reconciled, source |-> source]

Larger(m, n) == IF m >= n THEN m ELSE n

(***************************************************************************)
(* What a charge holds against its budgets now.  actual_usd is NULL in the *)
(* code exactly while the source is "none"; it counts as 0 here as there.  *)
(***************************************************************************)
EffectiveCommitment(c) ==
  IF c.reconciled THEN c.actual ELSE Larger(c.amount, c.actual)

ProviderSettled(c) == c.reconciled /\ c.source = "provider"

\* A charge that named no account, or one whose policy no longer opts in,
\* keeps its reservation whatever is reported.
ReleasesOnReportedUsage(c) ==
  c.accounts # {} /\ \A a \in c.accounts : a[1] \in releasing

-----------------------------------------------------------------------------
Init ==
  /\ month = 1
  /\ \E limit \in [Policies -> Limits] :
       limits = [p \in Policies |-> {limit[p]}]
  /\ releasing \in SUBSET Policies
  /\ opened = {}
  /\ committed = [a \in Accounts |-> 0]
  /\ admitted = {}
  /\ charge = [r \in Requests |-> NoCharge]
  /\ seed = [a \in Accounts |-> 0]
  /\ overrun = [a \in Accounts |-> 0]

(***************************************************************************)
(* admit(): one charge on every budget in `budgets`, or nothing at all.    *)
(* An account that does not exist yet is opened with the month's metered   *)
(* spend.  Any budget that cannot take the amount, a request_id already    *)
(* used, or an approval that cannot be consumed rolls everything back, so  *)
(* a refusal is no step of this module.                                    *)
(***************************************************************************)
Held(budgets) == {<<p, month>> : p \in budgets}

Balance(a, spend) == IF a \in opened THEN committed[a] ELSE spend[a[1]]

FitsBeforeCharging(budgets, amount, spend) ==  \* faulty: forgets the amount
  \A a \in Held(budgets) :
    \E limit \in limits[a[1]] : Balance(a, spend) <= limit

Fits(budgets, amount, spend) ==
  \A a \in Held(budgets) :
    \E limit \in limits[a[1]] : Balance(a, spend) + amount <= limit

\* Faulty: the charge is written and the account it opened is not.
AdmitUnsaved(r, budgets, amount, spend) ==
  /\ budgets # {}
  /\ r \notin admitted
  /\ Fits(budgets, amount, spend)
  /\ admitted' = admitted \cup {r}
  /\ charge' = [charge EXCEPT ![r] = Reserved(amount, Held(budgets))]
  /\ UNCHANGED <<month, limits, releasing, opened, committed, seed, overrun>>

Admit(r, budgets, amount, spend) ==
  LET held == Held(budgets) IN
  /\ budgets # {}
  /\ r \notin admitted
  /\ Fits(budgets, amount, spend)
  /\ opened' = opened \cup held
  /\ seed' = [a \in Accounts |->
                IF a \in held \ opened THEN spend[a[1]] ELSE seed[a]]
  /\ committed' = [a \in Accounts |->
                     IF a \in held THEN Balance(a, spend) + amount
                                   ELSE committed[a]]
  /\ admitted' = admitted \cup {r}
  /\ charge' = [charge EXCEPT ![r] = Reserved(amount, held)]
  /\ UNCHANGED <<month, limits, releasing, overrun>>

(***************************************************************************)
(* _settle(): record the actual and move every account of the charge by    *)
(* the change in what the charge holds, never below zero.                  *)
(***************************************************************************)
\* Faulty: moves the accounts by the difference from the reservation, as if
\* no earlier report had moved them already.
SettleFromReservation(r, actual, source, reconciled) ==
  LET before == charge[r]
      after  == Settled(before, actual, source, reconciled)
      delta  == EffectiveCommitment(after) - before.amount
  IN  /\ charge' = [charge EXCEPT ![r] = after]
      /\ committed' = [a \in Accounts |->
                         IF a \in before.accounts
                         THEN Larger(0, committed[a] + delta)
                         ELSE committed[a]]
      /\ UNCHANGED <<month, limits, releasing, opened, admitted, seed, overrun>>

Settle(r, actual, source, reconciled) ==
  LET before == charge[r]
      after  == Settled(before, actual, source, reconciled)
      delta  == EffectiveCommitment(after) - EffectiveCommitment(before)
  IN  /\ charge' = [charge EXCEPT ![r] = after]
      /\ committed' = [a \in Accounts |->
                         IF a \in before.accounts
                         THEN Larger(0, committed[a] + delta)
                         ELSE committed[a]]
      /\ overrun' = [a \in Accounts |->
                       IF a \in before.accounts
                       THEN overrun[a] + Larger(0, delta)
                       ELSE overrun[a]]
      /\ UNCHANGED <<month, limits, releasing, opened, admitted, seed>>

\* Faulty: a bill above the reservation is settled instead of refused.
ReconcileAnyBill(r, actual) ==
  /\ r \in admitted
  /\ ~ProviderSettled(charge[r])
  /\ Settle(r, actual, "provider", TRUE)

\* reconcile_charge(): an authenticated bill within the reservation, once.
ReconcileCharge(r, actual) ==
  /\ r \in admitted
  /\ ~ProviderSettled(charge[r])
  /\ actual <= charge[r].amount
  /\ Settle(r, actual, "provider", TRUE)

\* cancel_charge(): an authenticated cancellation settles the charge to zero.
CancelCharge(r) ==
  /\ r \in admitted
  /\ ~ProviderSettled(charge[r])
  /\ Settle(r, 0, "provider", TRUE)

\* Faulty: a late report is applied over the provider's answer.
ReconcileLateReport(r, cost) ==
  LET actual == Larger(cost, charge[r].actual) IN
  /\ r \in admitted
  /\ charge[r].source = "none" \/ actual # charge[r].actual
  /\ Settle(r, actual, "reported", ReleasesOnReportedUsage(charge[r]))

\* reconcile_reported_usage(): a metered report, priced by the server.  An
\* unpriced report, and one that states no more than the last, change nothing.
ReconcileReportedUsage(r, cost) ==
  LET actual == Larger(cost, charge[r].actual) IN
  /\ r \in admitted
  /\ ~ProviderSettled(charge[r])
  /\ charge[r].source = "none" \/ actual # charge[r].actual
  /\ Settle(r, actual, "reported", ReleasesOnReportedUsage(charge[r]))

\* An operator edits a budget's limit, or whether telemetry releases it.
EditPolicy(p, newLimit, releases) ==
  /\ limits' = [limits EXCEPT ![p] = limits[p] \cup {newLimit}]
  /\ releasing' = IF releases THEN releasing \cup {p} ELSE releasing \ {p}
  /\ UNCHANGED <<month, opened, committed, admitted, charge, seed, overrun>>

\* month_start() moves on: later admissions use the new period's accounts.
NextMonth ==
  /\ month + 1 \in Months
  /\ month' = month + 1
  /\ UNCHANGED <<limits, releasing, opened, committed, admitted, charge,
                 seed, overrun>>

Next ==
  \/ \E r \in Requests, budgets \in SUBSET Policies, amount \in Amounts,
        spend \in [Policies -> Spends] : Admit(r, budgets, amount, spend)
  \/ \E r \in Requests, actual \in Costs : ReconcileCharge(r, actual)
  \/ \E r \in Requests : CancelCharge(r)
  \/ \E r \in Requests, cost \in Costs : ReconcileReportedUsage(r, cost)
  \/ \E p \in Policies, newLimit \in Limits, releases \in BOOLEAN :
        EditPolicy(p, newLimit, releases)
  \/ NextMonth

Spec == Init /\ [][Next]_vars

-----------------------------------------------------------------------------
(***************************************************************************)
(* Properties.                                                             *)
(***************************************************************************)

\* Types, and what the rows refer to: a charge names only accounts that
\* exist, and only an admitted request has been priced or settled.
TypeOK ==
  /\ month \in Months
  /\ limits \in [Policies -> SUBSET Nat]
  /\ releasing \in SUBSET Policies
  /\ opened \in SUBSET Accounts
  /\ committed \in [Accounts -> Nat]
  /\ seed \in [Accounts -> Nat]
  /\ overrun \in [Accounts -> Nat]
  /\ admitted \in SUBSET Requests
  /\ charge \in [Requests -> Charge]
  /\ \A r \in Requests : charge[r].accounts \subseteq opened

\* Each account's committed_usd is what it was opened with plus what each of
\* its charges holds now: no report, bill or cancellation, in any order,
\* repeats or loses a delta, and the floor at zero in _settle never bites.
LedgerBalance ==
  \A a \in opened :
    committed[a] = seed[a] + MapThenSumSet(
      LAMBDA r : EffectiveCommitment(charge[r]),
      {r \in admitted : a \in charge[r].accounts})

\* An account passes every limit its policy has had only by the spend it was
\* opened with, or by what settlements raised it: however many requests are
\* admitted, admission alone never overspends a budget.
NoOverspend ==
  \A a \in opened : \E limit \in limits[a[1]] :
    committed[a] <= Larger(seed[a], limit) + overrun[a]

\* A provider's bill or cancellation is final: no later report, bill or
\* cancellation changes a charge it settled (_provider_settled).
SettlementFinal ==
  [][\A r \in admitted :
       ProviderSettled(charge[r]) => charge'[r] = charge[r]]_vars

\* A provider's answer only gives room back.  It can take some only where
\* telemetry had already released the reservation on an opted-in budget.
OnlyEarlyReleaseLetsBillsRaise ==
  [][\A r \in admitted :
       /\ charge'[r] # charge[r]
       /\ ProviderSettled(charge'[r])
       /\ ~charge[r].reconciled
       => \A a \in Accounts : committed'[a] <= committed[a]]_vars
=============================================================================
