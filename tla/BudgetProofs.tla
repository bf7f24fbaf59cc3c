---------------------------- MODULE BudgetProofs ----------------------------
(***************************************************************************)
(* Theorems about Budget, for every set of policies, requests, months,     *)
(* limits, amounts, costs and opening spends, and about BudgetLocks, whose *)
(* transactions are Budget's steps however many connections they run on.   *)
(***************************************************************************)
EXTENDS BudgetLocks, FiniteSetTheorems, WellFoundedInduction, TLAPS

\* What a charge holds is a natural number of dollars.
LEMMA EffectiveCommitmentType ==
  ASSUME NEW c \in Charge
  PROVE  EffectiveCommitment(c) \in Nat
BY DEF EffectiveCommitment, Charge, Larger

\* A row recorded in a charge keeps it a charge on the same accounts.
LEMMA SettledChargeType ==
  ASSUME NEW c \in Charge, NEW actual \in Nat, NEW source \in Sources,
         NEW reconciled \in BOOLEAN
  PROVE  /\ Settled(c, actual, source, reconciled) \in Charge
         /\ Settled(c, actual, source, reconciled).accounts = c.accounts
BY DEF Charge, Settled

LEMMA InitTypeOK == Init => TypeOK
<1>. SUFFICES ASSUME Init PROVE TypeOK
  OBVIOUS
<1>1. NoCharge \in Charge /\ NoCharge.accounts = {}
  BY DEF NoCharge, Reserved, Charge, Sources
<1>2. limits \in [Policies -> SUBSET Nat]
  <2>1. PICK limit \in [Policies -> Limits] :
          limits = [p \in Policies |-> {limit[p]}]
    BY DEF Init
  <2>2. \A p \in Policies : {limit[p]} \in SUBSET Nat
    BY BudgetAssumption
  <2>. QED
    BY <2>1, <2>2
<1>. QED
  BY <1>1, <1>2, BudgetAssumption DEF Init, TypeOK

LEMMA AdmitTypeOK ==
  ASSUME TypeOK, NEW r \in Requests, NEW budgets \in SUBSET Policies,
         NEW amount \in Amounts, NEW spend \in [Policies -> Spends],
         Admit(r, budgets, amount, spend)
  PROVE  TypeOK'
<1>1. Held(budgets) \in SUBSET Accounts
  BY DEF Held, Accounts, TypeOK
<1>2. ASSUME NEW a \in Accounts
      PROVE  Balance(a, spend) \in Nat /\ spend[a[1]] \in Nat
  BY BudgetAssumption DEF Accounts, Balance, TypeOK
<1>3. committed' \in [Accounts -> Nat] /\ seed' \in [Accounts -> Nat]
  BY <1>2, BudgetAssumption DEF Admit, TypeOK
<1>4. charge' \in [Requests -> Charge]
  <2>1. Reserved(amount, Held(budgets)) \in Charge
    BY <1>1, BudgetAssumption DEF Reserved, Charge, Sources
  <2>. QED
    BY <2>1 DEF Admit, TypeOK
<1>5. \A q \in Requests : charge'[q].accounts \subseteq opened'
  <2>1. charge'[r].accounts = Held(budgets)
    BY DEF Admit, TypeOK, Reserved
  <2>2. \A q \in Requests : q # r => charge'[q] = charge[q]
    BY DEF Admit, TypeOK
  <2>. QED
    BY <2>1, <2>2 DEF Admit, TypeOK
<1>. QED
  BY <1>1, <1>3, <1>4, <1>5 DEF Admit, TypeOK

LEMMA SettleTypeOK ==
  ASSUME TypeOK, NEW r \in Requests, NEW actual \in Nat,
         NEW source \in Sources, NEW reconciled \in BOOLEAN,
         Settle(r, actual, source, reconciled)
  PROVE  TypeOK'
<1>. DEFINE after == Settled(charge[r], actual, source, reconciled)
            delta == EffectiveCommitment(after)
                       - EffectiveCommitment(charge[r])
<1>1. charge[r] \in Charge
  BY DEF TypeOK
<1>2. after \in Charge /\ after.accounts = charge[r].accounts
  BY <1>1, SettledChargeType
<1>3. delta \in Int
  BY <1>1, <1>2, EffectiveCommitmentType
<1>4. committed' = [a \in Accounts |->
                      IF a \in charge[r].accounts
                      THEN Larger(0, committed[a] + delta)
                      ELSE committed[a]]
  BY DEF Settle
<1>5. overrun' = [a \in Accounts |->
                    IF a \in charge[r].accounts
                    THEN overrun[a] + Larger(0, delta)
                    ELSE overrun[a]]
  BY DEF Settle
<1>6. charge' = [charge EXCEPT ![r] = after]
  BY DEF Settle
<1>. HIDE DEF after, delta
<1>7. committed' \in [Accounts -> Nat]
  BY <1>3, <1>4 DEF TypeOK, Larger
<1>8. overrun' \in [Accounts -> Nat]
  BY <1>3, <1>5 DEF TypeOK, Larger
<1>9. /\ charge' \in [Requests -> Charge]
      /\ \A q \in Requests : charge'[q].accounts = charge[q].accounts
  BY <1>2, <1>6 DEF TypeOK
<1>. QED
  BY <1>7, <1>8, <1>9 DEF Settle, TypeOK

\* Every settlement the code makes is a Settle with typed arguments.
LEMMA SettlementIsSettle ==
  ASSUME TypeOK, NEW r \in Requests, NEW cost \in Costs,
         \/ ReconcileCharge(r, cost)
         \/ CancelCharge(r)
         \/ ReconcileReportedUsage(r, cost)
  PROVE  \E actual \in Nat, source \in Sources, reconciled \in BOOLEAN :
           Settle(r, actual, source, reconciled)
<1>. cost \in Nat /\ charge[r].actual \in Nat
  BY BudgetAssumption DEF TypeOK, Charge
<1>1. CASE ReconcileCharge(r, cost)
  BY <1>1 DEF ReconcileCharge, Sources
<1>2. CASE CancelCharge(r)
  BY <1>2 DEF CancelCharge, Sources
<1>3. CASE ReconcileReportedUsage(r, cost)
  <2>1. /\ Larger(cost, charge[r].actual) \in Nat
        /\ ReleasesOnReportedUsage(charge[r]) \in BOOLEAN
    BY DEF Larger, ReleasesOnReportedUsage
  <2>. QED
    BY <1>3, <2>1 DEF ReconcileReportedUsage, Sources
<1>. QED
  BY <1>1, <1>2, <1>3

LEMMA NextTypeOK == TypeOK /\ [Next]_vars => TypeOK'
<1>. SUFFICES ASSUME TypeOK, [Next]_vars PROVE TypeOK'
  OBVIOUS
<1>1. ASSUME NEW r \in Requests, NEW budgets \in SUBSET Policies,
             NEW amount \in Amounts, NEW spend \in [Policies -> Spends],
             Admit(r, budgets, amount, spend)
      PROVE  TypeOK'
  BY <1>1, AdmitTypeOK
<1>2. ASSUME NEW r \in Requests, NEW cost \in Costs,
             \/ ReconcileCharge(r, cost)
             \/ ReconcileReportedUsage(r, cost)
      PROVE  TypeOK'
  BY <1>2, SettlementIsSettle, SettleTypeOK
<1>3. ASSUME NEW r \in Requests, CancelCharge(r)
      PROVE  TypeOK'
  BY <1>3, SettleTypeOK DEF CancelCharge, Sources
<1>4. ASSUME NEW p \in Policies, NEW newLimit \in Limits,
             NEW releases \in BOOLEAN, EditPolicy(p, newLimit, releases)
      PROVE  TypeOK'
  BY <1>4, BudgetAssumption DEF EditPolicy, TypeOK
<1>5. CASE NextMonth
  BY <1>5 DEF NextMonth, TypeOK
<1>6. CASE UNCHANGED vars
  BY <1>6 DEF vars, TypeOK
<1>. QED
  BY <1>1, <1>2, <1>3, <1>4, <1>5, <1>6 DEF Next

\* The types of every row, and that a charge names only accounts that exist.
THEOREM TypeCorrect == Spec => []TypeOK
BY InitTypeOK, NextTypeOK, PTL DEF Spec

-----------------------------------------------------------------------------
(***************************************************************************)
(* Admission never overspends: with the types, NoOverspend is inductive.   *)
(***************************************************************************)
LEMMA AdmitNoOverspend ==
  ASSUME TypeOK, NoOverspend, NEW r \in Requests,
         NEW budgets \in SUBSET Policies, NEW amount \in Amounts,
         NEW spend \in [Policies -> Spends],
         Admit(r, budgets, amount, spend)
  PROVE  NoOverspend'
<1>. SUFFICES ASSUME NEW a \in opened'
              PROVE  \E limit \in limits[a[1]] :
                       committed'[a] <= Larger(seed'[a], limit) + overrun'[a]
  BY DEF NoOverspend, Admit
<1>1. a \in Accounts /\ a[1] \in Policies
  BY DEF Admit, Held, Accounts, TypeOK
<1>2. /\ limits[a[1]] \subseteq Nat /\ overrun[a] \in Nat
      /\ seed[a] \in Nat /\ committed[a] \in Nat /\ spend[a[1]] \in Nat
  BY <1>1, BudgetAssumption DEF TypeOK
<1>3. CASE a \in Held(budgets)
  <2>1. PICK limit \in limits[a[1]] : Balance(a, spend) + amount <= limit
    BY <1>1, <1>3 DEF Admit, Fits
  <2>2. committed'[a] = Balance(a, spend) + amount
    BY <1>1, <1>3 DEF Admit
  <2>3. seed'[a] \in Nat /\ committed'[a] \in Nat /\ overrun'[a] = overrun[a]
    BY <1>1, <1>2, <1>3, BudgetAssumption DEF Admit, Balance
  <2>. QED
    BY <1>2, <2>1, <2>2, <2>3 DEF Larger
<1>4. CASE a \notin Held(budgets)
  <2>1. /\ a \in opened /\ committed'[a] = committed[a]
        /\ seed'[a] = seed[a] /\ overrun'[a] = overrun[a]
    BY <1>1, <1>4 DEF Admit
  <2>. QED
    BY <2>1 DEF NoOverspend
<1>. QED
  BY <1>3, <1>4

LEMMA SettleNoOverspend ==
  ASSUME TypeOK, NoOverspend, NEW r \in Requests, NEW actual \in Nat,
         NEW source \in Sources, NEW reconciled \in BOOLEAN,
         Settle(r, actual, source, reconciled)
  PROVE  NoOverspend'
<1>. DEFINE after == Settled(charge[r], actual, source, reconciled)
            delta == EffectiveCommitment(after)
                       - EffectiveCommitment(charge[r])
<1>1. delta \in Int
  <2>1. charge[r] \in Charge
    BY DEF TypeOK
  <2>2. after \in Charge
    BY <2>1, SettledChargeType
  <2>. QED
    BY <2>1, <2>2, EffectiveCommitmentType
<1>. SUFFICES ASSUME NEW a \in opened
              PROVE  \E limit \in limits[a[1]] :
                       committed'[a] <= Larger(seed[a], limit) + overrun'[a]
  BY DEF NoOverspend, Settle
<1>2. a \in Accounts /\ a[1] \in Policies
  BY DEF TypeOK, Accounts
<1>3. PICK limit \in limits[a[1]] :
        committed[a] <= Larger(seed[a], limit) + overrun[a]
  BY DEF NoOverspend
<1>4. /\ committed'[a] = IF a \in charge[r].accounts
                         THEN Larger(0, committed[a] + delta)
                         ELSE committed[a]
      /\ overrun'[a] = IF a \in charge[r].accounts
                       THEN overrun[a] + Larger(0, delta)
                       ELSE overrun[a]
  BY <1>2 DEF Settle
<1>5. committed[a] \in Nat /\ overrun[a] \in Nat /\ Larger(seed[a], limit) \in Nat
  BY <1>2 DEF TypeOK, Larger
<1>. HIDE DEF delta
<1>6. CASE a \in charge[r].accounts
  BY <1>1, <1>3, <1>4, <1>5, <1>6 DEF Larger
<1>7. CASE a \notin charge[r].accounts
  BY <1>3, <1>4, <1>7
<1>. QED
  BY <1>6, <1>7

LEMMA NextNoOverspend == TypeOK /\ NoOverspend /\ [Next]_vars => NoOverspend'
<1>. SUFFICES ASSUME TypeOK, NoOverspend, [Next]_vars PROVE NoOverspend'
  OBVIOUS
<1>1. ASSUME NEW r \in Requests, NEW budgets \in SUBSET Policies,
             NEW amount \in Amounts, NEW spend \in [Policies -> Spends],
             Admit(r, budgets, amount, spend)
      PROVE  NoOverspend'
  BY <1>1, AdmitNoOverspend
<1>2. ASSUME NEW r \in Requests, NEW cost \in Costs,
             \/ ReconcileCharge(r, cost)
             \/ ReconcileReportedUsage(r, cost)
      PROVE  NoOverspend'
  BY <1>2, SettlementIsSettle, SettleNoOverspend
<1>3. ASSUME NEW r \in Requests, CancelCharge(r)
      PROVE  NoOverspend'
  BY <1>3, SettleNoOverspend DEF CancelCharge, Sources
<1>4. ASSUME NEW p \in Policies, NEW newLimit \in Limits,
             NEW releases \in BOOLEAN, EditPolicy(p, newLimit, releases)
      PROVE  NoOverspend'
  <2>1. \A q \in Policies : limits[q] \subseteq limits'[q]
    BY <1>4 DEF EditPolicy, TypeOK
  <2>2. \A a \in opened : a[1] \in Policies
    BY DEF TypeOK, Accounts
  <2>. QED
    BY <1>4, <2>1, <2>2 DEF NoOverspend, EditPolicy
<1>5. CASE NextMonth
  BY <1>5 DEF NextMonth, NoOverspend
<1>6. CASE UNCHANGED vars
  BY <1>6 DEF vars, NoOverspend
<1>. QED
  BY <1>1, <1>2, <1>3, <1>4, <1>5, <1>6 DEF Next

\* However requests, reports, bills, limit edits and months interleave, an
\* account passes every limit its policy has had only by its opening spend or
\* by what settlements raised it.
THEOREM AdmissionNeverOverspends == Spec => []NoOverspend
<1>1. Init => NoOverspend
  BY DEF Init, NoOverspend
<1>. QED
  BY <1>1, NextNoOverspend, TypeCorrect, PTL DEF Spec

-----------------------------------------------------------------------------
LEMMA SettledStaysSettled ==
  ASSUME TypeOK, [Next]_vars, NEW q \in admitted, ProviderSettled(charge[q])
  PROVE  charge'[q] = charge[q]
<1>1. ASSUME NEW r \in Requests, NEW actual, NEW source, NEW reconciled,
             Settle(r, actual, source, reconciled),
             ~ProviderSettled(charge[r])
      PROVE  charge'[q] = charge[q]
  BY <1>1 DEF Settle, TypeOK
<1>2. ASSUME NEW r \in Requests, NEW budgets \in SUBSET Policies,
             NEW amount \in Amounts, NEW spend \in [Policies -> Spends],
             Admit(r, budgets, amount, spend)
      PROVE  charge'[q] = charge[q]
  BY <1>2 DEF Admit, TypeOK
<1>3. ASSUME NEW r \in Requests, NEW actual \in Costs,
             ReconcileCharge(r, actual)
      PROVE  charge'[q] = charge[q]
  BY <1>1, <1>3 DEF ReconcileCharge
<1>4. ASSUME NEW r \in Requests, CancelCharge(r)
      PROVE  charge'[q] = charge[q]
  BY <1>1, <1>4 DEF CancelCharge
<1>5. ASSUME NEW r \in Requests, NEW cost \in Costs,
             ReconcileReportedUsage(r, cost)
      PROVE  charge'[q] = charge[q]
  BY <1>1, <1>5 DEF ReconcileReportedUsage
<1>6. ASSUME NEW p \in Policies, NEW newLimit \in Limits,
             NEW releases \in BOOLEAN, EditPolicy(p, newLimit, releases)
      PROVE  charge'[q] = charge[q]
  BY <1>6 DEF EditPolicy
<1>7. CASE NextMonth
  BY <1>7 DEF NextMonth
<1>8. CASE UNCHANGED vars
  BY <1>8 DEF vars
<1>. QED
  BY <1>2, <1>3, <1>4, <1>5, <1>6, <1>7, <1>8 DEF Next

\* A provider's answer is final: nothing that arrives after it, however late
\* or repeated, changes the charge it settled.
THEOREM ProviderAnswerIsFinal == Spec => SettlementFinal
<1>1. TypeOK /\ [Next]_vars =>
        [\A r \in admitted :
           ProviderSettled(charge[r]) => charge'[r] = charge[r]]_vars
  BY SettledStaysSettled
<1>. QED
  BY <1>1, TypeCorrect, PTL DEF Spec, SettlementFinal

-----------------------------------------------------------------------------
\* What a provider's answer moves an account by, when the reservation still
\* stands: nothing, or down.
LEMMA BillsGiveBack ==
  ASSUME TypeOK, NEW r \in Requests, ~charge[r].reconciled,
         NEW actual \in Nat, actual <= charge[r].amount,
         Settle(r, actual, "provider", TRUE)
  PROVE  \A a \in Accounts : committed'[a] <= committed[a]
<1>. DEFINE after == Settled(charge[r], actual, "provider", TRUE)
            delta == EffectiveCommitment(after) - EffectiveCommitment(charge[r])
<1>1. charge[r].amount \in Nat /\ charge[r].actual \in Nat
  BY DEF TypeOK, Charge
<1>2. delta \in Int /\ delta <= 0
  BY <1>1 DEF EffectiveCommitment, Settled, Larger
<1>3. \A a \in Accounts : committed'[a] = IF a \in charge[r].accounts
                                         THEN Larger(0, committed[a] + delta)
                                         ELSE committed[a]
  BY DEF Settle
<1>4. \A a \in Accounts : committed[a] \in Nat
  BY DEF TypeOK
<1>. HIDE DEF delta
<1>. QED
  BY <1>2, <1>3, <1>4 DEF Larger

LEMMA BillsRaiseNothing ==
  ASSUME TypeOK, [Next]_vars, NEW q \in admitted, charge'[q] # charge[q],
         ProviderSettled(charge'[q]), ~charge[q].reconciled
  PROVE  \A a \in Accounts : committed'[a] <= committed[a]
<1>. q \in Requests
  BY DEF TypeOK
<1>1. ASSUME NEW r \in Requests, NEW actual, NEW source, NEW reconciled,
             Settle(r, actual, source, reconciled)
      PROVE  r = q /\ source = "provider"
  <2>1. r = q
    BY <1>1 DEF Settle, TypeOK
  <2>2. charge'[q].source = source
    BY <1>1, <2>1 DEF Settle, Settled, TypeOK
  <2>. QED
    BY <2>1, <2>2 DEF ProviderSettled
<1>2. ASSUME NEW r \in Requests, NEW budgets \in SUBSET Policies,
             NEW amount \in Amounts, NEW spend \in [Policies -> Spends],
             Admit(r, budgets, amount, spend)
      PROVE  FALSE
  BY <1>2 DEF Admit, TypeOK
<1>3. ASSUME NEW r \in Requests, NEW actual \in Costs, ReconcileCharge(r, actual)
      PROVE  \A a \in Accounts : committed'[a] <= committed[a]
  <2>1. r = q /\ actual \in Nat
    BY <1>1, <1>3, BudgetAssumption DEF ReconcileCharge
  <2>. QED
    BY <1>3, <2>1, BillsGiveBack DEF ReconcileCharge
<1>4. ASSUME NEW r \in Requests, CancelCharge(r)
      PROVE  \A a \in Accounts : committed'[a] <= committed[a]
  <2>1. r = q
    BY <1>1, <1>4 DEF CancelCharge
  <2>2. 0 <= charge[r].amount /\ 0 \in Nat
    BY DEF TypeOK, Charge
  <2>. QED
    BY <1>4, <2>1, <2>2, BillsGiveBack DEF CancelCharge
<1>5. ASSUME NEW r \in Requests, NEW cost \in Costs, ReconcileReportedUsage(r, cost)
      PROVE  FALSE
  BY <1>1, <1>5 DEF ReconcileReportedUsage
<1>6. ASSUME NEW p \in Policies, NEW newLimit \in Limits,
             NEW releases \in BOOLEAN, EditPolicy(p, newLimit, releases)
      PROVE  FALSE
  BY <1>6 DEF EditPolicy
<1>7. ~NextMonth /\ ~UNCHANGED vars
  BY DEF NextMonth, vars
<1>. QED
  BY <1>2, <1>3, <1>4, <1>5, <1>6, <1>7 DEF Next

\* reconcile_charge, cancel_charge: while a charge's reservation stands, no
\* bill or cancellation takes more room, on any account, at any cost.
THEOREM BillsTakeNoRoom == Spec => OnlyEarlyReleaseLetsBillsRaise
<1>1. TypeOK /\ [Next]_vars =>
        [\A r \in admitted :
           /\ charge'[r] # charge[r]
           /\ ProviderSettled(charge'[r])
           /\ ~charge[r].reconciled
           => \A a \in Accounts : committed'[a] <= committed[a]]_vars
  BY BillsRaiseNothing
<1>. QED
  BY <1>1, TypeCorrect, PTL DEF Spec, OnlyEarlyReleaseLetsBillsRaise

-----------------------------------------------------------------------------
(***************************************************************************)
(* Sums.  LedgerBalance adds up charges with the library's recursive fold. *)
(* What holds of it for every finite set is shown here by induction on the *)
(* number of elements, in the form of a set of numbers: a recursive        *)
(* function exists on the subsets of up to n elements for every n, it is   *)
(* the only one, and an element adds its weight whenever it is added.      *)
(***************************************************************************)
LEMMA AllNumbers ==
  ASSUME NEW S, 0 \in S, \A n \in Nat : n \in S => n + 1 \in S
  PROVE  \A n \in Nat : n \in S
<1> DEFINE Missing == Nat \ S
           Less == OpToRel(<, Nat)
<1>1. SUFFICES ASSUME Missing # {} PROVE FALSE
  OBVIOUS
<1>2. IsWellFoundedOn(Less, Nat)
  BY NatLessThanWellFounded, Zenon
<1>3. Missing \subseteq Nat
  OBVIOUS
<1> HIDE DEF Missing, Less
<1>4. PICK least \in Missing : \A m \in Missing : ~ (<<m, least>> \in Less)
  BY <1>1, <1>2, <1>3, WFMin
<1>5. least \in Nat /\ least # 0 /\ least \notin S
  BY <1>3, <1>4 DEF Missing
<1>6. least - 1 \in Nat /\ least - 1 < least /\ least = (least - 1) + 1
  BY <1>5
<1>7. least - 1 \in Missing
  BY <1>5, <1>6 DEF Missing
<1>8. <<least - 1, least>> \in Less
  BY <1>5, <1>6 DEF Less, OpToRel
<1> QED
  BY <1>4, <1>7, <1>8

Pick(s) == CHOOSE x \in s : TRUE

\* f gives the sum of the weights w of every set in sets.
Sums(f, w, sets) ==
  \A s \in sets : f[s] = IF s = {} THEN 0 ELSE w[Pick(s)] + f[s \ {Pick(s)}]

Few(S, n) == {s \in SUBSET S : Cardinality(s) <= n}

LEMMA OneLess ==
  ASSUME NEW S, IsFiniteSet(S)
  PROVE  /\ Few(S, Cardinality(S)) = SUBSET S /\ Cardinality(S) \in Nat
         /\ Few(S, 0) = {{}}
         /\ \A s \in SUBSET S : s # {} => Pick(s) \in s
         /\ \A n \in Nat : \A s \in Few(S, n + 1), x \in S :
              x \in s => s \ {x} \in Few(S, n)
<1>1. ASSUME NEW s \in SUBSET S
      PROVE  /\ IsFiniteSet(s) /\ Cardinality(s) \in Nat /\ Cardinality(s) <= Cardinality(S)
             /\ Cardinality(s) = 0 <=> s = {}
  BY FS_Subset, FS_CardinalityType, FS_EmptySet
<1>2. ASSUME NEW s \in SUBSET S, NEW x \in s PROVE Cardinality(s \ {x}) = Cardinality(s) - 1
  BY <1>1, FS_RemoveElement
<1>3. Cardinality(S) \in Nat
  BY FS_CardinalityType
<1>4. Few(S, Cardinality(S)) = SUBSET S
  BY <1>1 DEF Few
<1>5. Few(S, 0) = {{}}
  <2>1. \A s \in SUBSET S : Cardinality(s) <= 0 <=> s = {}
    BY <1>1
  <2> QED
    BY <2>1 DEF Few
<1>6. \A s \in SUBSET S : s # {} => Pick(s) \in s
  BY DEF Pick
<1>7. ASSUME NEW n \in Nat, NEW s \in Few(S, n + 1), NEW x \in S, x \in s
      PROVE  s \ {x} \in Few(S, n)
  <2>1. s \in SUBSET S /\ Cardinality(s) <= n + 1
    BY DEF Few
  <2>2. Cardinality(s \ {x}) = Cardinality(s) - 1 /\ Cardinality(s) \in Nat
    BY <1>1, <1>2, <1>7, <2>1
  <2> QED
    BY <2>1, <2>2 DEF Few
<1> QED
  BY <1>3, <1>4, <1>5, <1>6, <1>7

LEMMA SumExists ==
  ASSUME NEW S, IsFiniteSet(S), NEW w \in [S -> Nat]
  PROVE  \E f \in [SUBSET S -> Nat] : Sums(f, w, SUBSET S)
<1> DEFINE Have == {n \in Nat : \E f \in [SUBSET S -> Nat] : Sums(f, w, Few(S, n))}
<1>1. 0 \in Have
  <2> DEFINE f == [s \in SUBSET S |-> 0]
  <2>1. f \in [SUBSET S -> Nat]
    OBVIOUS
  <2>2. Sums(f, w, Few(S, 0))
    BY OneLess DEF Sums
  <2> QED
    BY <2>1, <2>2
<1>2. ASSUME NEW n \in Nat, n \in Have PROVE n + 1 \in Have
  <2>1. PICK f \in [SUBSET S -> Nat] : Sums(f, w, Few(S, n))
    BY <1>2
  <2> DEFINE g == [s \in SUBSET S |-> IF s = {} THEN 0 ELSE w[Pick(s)] + f[s \ {Pick(s)}]]
  <2>2. \A s \in SUBSET S : s # {} => Pick(s) \in s /\ w[Pick(s)] \in Nat
    BY OneLess
  <2>3. g \in [SUBSET S -> Nat]
    <3>1. \A s \in SUBSET S : s \ {Pick(s)} \in SUBSET S
      OBVIOUS
    <3>2. \A s \in SUBSET S : f[s \ {Pick(s)}] \in Nat
      BY <3>1
    <3>3. \A s \in SUBSET S : g[s] \in Nat
      BY <2>2, <3>2
    <3> QED
      BY <3>3
  <2>4. ASSUME NEW s \in Few(S, n) PROVE g[s] = f[s]
    BY <2>1 DEF Sums, Few
  <2>5. ASSUME NEW s \in Few(S, n + 1)
        PROVE  g[s] = IF s = {} THEN 0 ELSE w[Pick(s)] + g[s \ {Pick(s)}]
    <3>1. s \in SUBSET S
      BY DEF Few
    <3>2. s # {} => s \ {Pick(s)} \in Few(S, n)
      BY <2>2, <3>1, OneLess
    <3> QED
      BY <2>4, <3>1, <3>2
  <2> HIDE DEF g
  <2>6. Sums(g, w, Few(S, n + 1))
    BY <2>5 DEF Sums
  <2> QED
    BY <2>3, <2>6
<1> HIDE DEF Have
<1>3. Cardinality(S) \in Have
  BY <1>1, <1>2, AllNumbers, OneLess
<1>4. PICK f \in [SUBSET S -> Nat] : Sums(f, w, Few(S, Cardinality(S)))
  BY <1>3 DEF Have
<1>5. Few(S, Cardinality(S)) = SUBSET S
  BY OneLess
<1> QED
  BY <1>4, <1>5

\* Whatever else two weights are, what they give to a set's members decides.
LEMMA SumUnique ==
  ASSUME NEW S, IsFiniteSet(S), NEW w, NEW v, \A x \in S : w[x] = v[x],
         NEW f, NEW g, Sums(f, w, SUBSET S), Sums(g, v, SUBSET S)
  PROVE  f[S] = g[S]
<1> DEFINE Same == {n \in Nat : \A s \in Few(S, n) : f[s] = g[s]}
<1>1. 0 \in Same
  BY OneLess DEF Sums
<1>2. ASSUME NEW n \in Nat, n \in Same PROVE n + 1 \in Same
  <2>1. ASSUME NEW s \in Few(S, n + 1) PROVE f[s] = g[s]
    <3>1. s \in SUBSET S
      BY DEF Few
    <3>2. s # {} => Pick(s) \in s /\ s \ {Pick(s)} \in Few(S, n)
      BY <3>1, OneLess
    <3>3. s # {} => w[Pick(s)] = v[Pick(s)] /\ f[s \ {Pick(s)}] = g[s \ {Pick(s)}]
      BY <1>2, <3>1, <3>2
    <3> QED
      BY <3>1, <3>3 DEF Sums
  <2> QED
    BY <2>1
<1> HIDE DEF Same
<1>3. Cardinality(S) \in Same
  BY <1>1, <1>2, AllNumbers, OneLess
<1> QED
  BY <1>3, OneLess DEF Same

\* A sum of weights, whatever the order they are picked in.
SumOver(f, w, S) ==
  /\ IsFiniteSet(S) /\ w \in [S -> Nat] /\ f \in [SUBSET S -> Nat]
  /\ Sums(f, w, SUBSET S)

Additive(f, w, S) ==
  \A t \in SUBSET S, e \in S : e \notin t => f[t \cup {e}] = f[t] + w[e]

LEMMA SumAdds ==
  ASSUME NEW S, NEW w, NEW f, SumOver(f, w, S)
  PROVE  Additive(f, w, S)
<1>. USE DEF SumOver
<1> DEFINE Adds == {n \in Nat : \A s \in Few(S, n), x \in S :
                                  x \notin s => f[s \cup {x}] = f[s] + w[x]}
<1>1. ASSUME NEW s \in SUBSET S, NEW x \in S, x \notin s, Pick(s \cup {x}) = x
      PROVE  f[s \cup {x}] = f[s] + w[x]
  <2>1. s \cup {x} \in SUBSET S /\ s \cup {x} # {} /\ (s \cup {x}) \ {x} = s
    BY <1>1
  <2>2. f[s \cup {x}] = w[x] + f[s]
    BY <1>1, <2>1 DEF Sums
  <2>3. w[x] \in Nat /\ f[s] \in Nat
    OBVIOUS
  <2> QED
    BY <2>2, <2>3
<1>2. 0 \in Adds
  <2>1. \A x \in S : Pick({} \cup {x}) = x
    BY DEF Pick
  <2> QED
    BY <1>1, <2>1, OneLess
<1>3. ASSUME NEW n \in Nat, n \in Adds PROVE n + 1 \in Adds
  <2>1. SUFFICES ASSUME NEW s \in Few(S, n + 1), NEW x \in S, x \notin s
                 PROVE  f[s \cup {x}] = f[s] + w[x]
    OBVIOUS
  <2> DEFINE y == Pick(s \cup {x})
             rest == s \ {y}
  <2>2. s \in SUBSET S /\ s \cup {x} \in SUBSET S /\ s \cup {x} # {}
    BY DEF Few
  <2>3. y \in s \cup {x}
    BY <2>2, OneLess
  <2>4. CASE y = x
    BY <1>1, <2>1, <2>2, <2>4
  <2>5. CASE y # x
    <3>1. y \in s /\ y \in S
      BY <2>2, <2>3, <2>5
    <3>2. rest \in Few(S, n) /\ y \notin rest /\ x \notin rest
      BY <2>1, <3>1, OneLess
    <3>3. rest \cup {y} = s /\ (s \cup {x}) \ {y} = rest \cup {x}
      BY <2>5, <3>1
    <3>4. f[s \cup {x}] = w[y] + f[rest \cup {x}]
      BY <2>2, <3>3 DEF Sums
    <3> HIDE DEF y, rest
    <3>5. f[s] = f[rest] + w[y] /\ f[rest \cup {x}] = f[rest] + w[x]
      BY <1>3, <3>1, <3>2, <3>3
    <3>6. w[y] \in Nat /\ w[x] \in Nat /\ f[rest] \in Nat
      BY <3>1, <3>2 DEF Few
    <3> QED
      BY <3>4, <3>5, <3>6
  <2> QED
    BY <2>4, <2>5
<1> HIDE DEF Adds
<1>4. Cardinality(S) \in Adds
  BY <1>2, <1>3, AllNumbers, OneLess
<1>5. \A t \in SUBSET S : t \in Few(S, Cardinality(S))
  BY OneLess
<1> QED
  BY <1>4, <1>5 DEF Adds, Additive

-----------------------------------------------------------------------------
(***************************************************************************)
(* The ledger balances.                                                    *)
(***************************************************************************)
\* What some requests hold, by the charges that are on them.
HeldBy(c, T) == MapThenSumSet(LAMBDA r : EffectiveCommitment(c[r]), T)

LEMMA HeldByIsSum ==
  ASSUME NEW T, IsFiniteSet(T), NEW c, NEW w, \A r \in T : w[r] = EffectiveCommitment(c[r]),
         NEW f \in [SUBSET T -> Nat], Sums(f, w, SUBSET T)
  PROVE  HeldBy(c, T) = f[T]
<1> DEFINE Is(g) == g = [s \in SUBSET T |->
                          IF s = {} THEN 0
                          ELSE EffectiveCommitment(c[Pick(s)]) + g[s \ {Pick(s)}]]
           sum == CHOOSE g : Is(g)
<1>1. HeldBy(c, T) = sum[T]
  BY DEF HeldBy, MapThenSumSet, MapThenFoldSet, Pick
<1>2. \A s \in SUBSET T : s # {} => Pick(s) \in T
  BY OneLess
<1>3. Is(f)
  <2>1. \A s \in SUBSET T :
          f[s] = IF s = {} THEN 0
                 ELSE EffectiveCommitment(c[Pick(s)]) + f[s \ {Pick(s)}]
    BY <1>2 DEF Sums
  <2> QED
    BY <2>1
<1>4. Is(sum)
  <2> HIDE DEF Is
  <2> QED
    BY <1>3
<1> HIDE DEF sum
<1>5. Sums(sum, w, SUBSET T)
  <2>1. \A s \in SUBSET T :
          sum[s] = IF s = {} THEN 0
                   ELSE EffectiveCommitment(c[Pick(s)]) + sum[s \ {Pick(s)}]
    BY <1>4
  <2> QED
    BY <1>2, <2>1 DEF Sums
<1>6. sum[T] = f[T]
  BY <1>5, SumUnique
<1> QED
  BY <1>1, <1>6

\* A request that joins others adds what its own charge holds.
LEMMA HeldByAdds ==
  ASSUME NEW T, IsFiniteSet(T), NEW r, r \notin T, NEW c, NEW d,
         \A q \in T : c[q] \in Charge /\ d[q] = c[q], d[r] \in Charge
  PROVE  /\ HeldBy(c, T) \in Nat
         /\ HeldBy(d, T \cup {r}) = HeldBy(c, T) + EffectiveCommitment(d[r])
<1> DEFINE S == T \cup {r}
           w == [q \in S |-> EffectiveCommitment(d[q])]
<1>1. IsFiniteSet(S)
  BY FS_AddElement
<1>2. \A q \in S : d[q] \in Charge
  OBVIOUS
<1>3. w \in [S -> Nat]
  BY <1>2, EffectiveCommitmentType
<1>4. \A q \in S : w[q] = EffectiveCommitment(d[q])
  OBVIOUS
<1> HIDE DEF S, w
<1>5. PICK f \in [SUBSET S -> Nat] : Sums(f, w, SUBSET S)
  BY <1>1, <1>3, SumExists
<1>6. T \in SUBSET S /\ r \in S /\ T \cup {r} = S
  BY DEF S
<1>7. HeldBy(d, S) = f[S]
  BY <1>1, <1>4, <1>5, HeldByIsSum
<1>8. HeldBy(c, T) = f[T]
  <2> DEFINE g == [s \in SUBSET T |-> f[s]]
  <2>1. SUBSET T \subseteq SUBSET S
    BY <1>6
  <2>2. g \in [SUBSET T -> Nat]
    BY <2>1
  <2>3. Sums(g, w, SUBSET T)
    <3>1. ASSUME NEW s \in SUBSET T
          PROVE  g[s] = IF s = {} THEN 0 ELSE w[Pick(s)] + g[s \ {Pick(s)}]
      BY <1>5, <2>1 DEF Sums
    <3> HIDE DEF g
    <3> QED
      BY <3>1 DEF Sums
  <2>4. \A q \in T : w[q] = EffectiveCommitment(c[q])
    BY <1>4, <1>6
  <2>5. g[T] = f[T]
    OBVIOUS
  <2> HIDE DEF g
  <2>6. HeldBy(c, T) = g[T]
    BY <2>2, <2>3, <2>4, HeldByIsSum
  <2> QED
    BY <2>5, <2>6
<1>9. f[S] = f[T] + w[r] /\ f[T] \in Nat
  <2>1. f \in [SUBSET S -> Nat] /\ Sums(f, w, SUBSET S)
    BY <1>5
  <2>2. w \in [S -> Nat] /\ IsFiniteSet(S) /\ T \in SUBSET S /\ r \in S /\ r \notin T
    BY <1>1, <1>3, <1>6
  <2>3. Additive(f, w, S)
    <3>1. SumOver(f, w, S)
      BY <2>1, <2>2 DEF SumOver
    <3> QED
      BY <3>1, SumAdds
  <2>4. f[T \cup {r}] = f[T] + w[r]
    BY <2>2, <2>3 DEF Additive
  <2> QED
    BY <1>6, <2>1, <2>4
<1> QED
  BY <1>4, <1>6, <1>7, <1>8, <1>9

LEMMA HeldBySame ==
  ASSUME NEW T, IsFiniteSet(T), NEW c, NEW d, \A q \in T : c[q] \in Charge /\ d[q] = c[q]
  PROVE  HeldBy(d, T) = HeldBy(c, T)
<1> DEFINE w == [q \in T |-> EffectiveCommitment(c[q])]
<1>1. w \in [T -> Nat]
  BY EffectiveCommitmentType
<1>2. \A q \in T : w[q] = EffectiveCommitment(c[q]) /\ w[q] = EffectiveCommitment(d[q])
  OBVIOUS
<1> HIDE DEF w
<1>3. PICK f \in [SUBSET T -> Nat] : Sums(f, w, SUBSET T)
  BY <1>1, SumExists
<1> QED
  BY <1>2, <1>3, HeldByIsSum

LEMMA HeldByNone == ASSUME NEW c PROVE HeldBy(c, {}) = 0
<1> DEFINE w == [q \in {} |-> 0]
<1>1. IsFiniteSet({}) /\ w \in [{} -> Nat]
  BY FS_EmptySet
<1> HIDE DEF w
<1>2. PICK f \in [SUBSET {} -> Nat] : Sums(f, w, SUBSET {})
  BY <1>1, SumExists
<1>3. HeldBy(c, {}) = f[{}]
  BY <1>1, <1>2, HeldByIsSum
<1> QED
  BY <1>2, <1>3 DEF Sums

\* The accounts an admitted request's charge is on, and the other way round.
On(a) == {r \in admitted : a \in charge[r].accounts}

Balanced == \A a \in opened : committed[a] = seed[a] + HeldBy(charge, On(a))

LedgerInv == TypeOK /\ IsFiniteSet(admitted) /\ Balanced

LEMMA BalancedIsLedgerBalance == Balanced => LedgerBalance
BY DEF Balanced, LedgerBalance, HeldBy, On

LEMMA LedgerTypes ==
  ASSUME TypeOK, IsFiniteSet(admitted), NEW a
  PROVE  /\ On(a) \in SUBSET Requests /\ IsFiniteSet(On(a))
         /\ \A r \in Requests : charge[r] \in Charge
<1>1. On(a) \in SUBSET admitted
  BY DEF On
<1> QED
  BY <1>1, FS_Subset DEF TypeOK

LEMMA AdmitLedger ==
  ASSUME LedgerInv, TypeOK', NEW r \in Requests, NEW budgets \in SUBSET Policies,
         NEW amount \in Amounts, NEW spend \in [Policies -> Spends],
         Admit(r, budgets, amount, spend)
  PROVE  LedgerInv'
<1>1. TypeOK /\ IsFiniteSet(admitted) /\ Balanced
  BY DEF LedgerInv
<1>2. IsFiniteSet(admitted')
  BY <1>1, FS_AddElement DEF Admit
<1>3. /\ charge'[r] = Reserved(amount, Held(budgets))
      /\ \A q \in Requests \ {r} : charge'[q] = charge[q]
  BY <1>1 DEF Admit, TypeOK
<1>4. amount \in Nat
  BY BudgetAssumption
<1>5. EffectiveCommitment(charge'[r]) = amount /\ charge'[r].accounts = Held(budgets)
  BY <1>3, <1>4 DEF EffectiveCommitment, Reserved, Larger
<1>6. ASSUME NEW a \in opened' PROVE committed'[a] = seed'[a] + HeldBy(charge', On(a)')
  <2>1. a \in Accounts /\ a[1] \in Policies
    BY DEF Accounts, TypeOK
  <2>2. IsFiniteSet(On(a)) /\ On(a) \in SUBSET Requests /\ r \notin On(a)
    BY <1>1, LedgerTypes DEF On, Admit
  <2>3. On(a)' = IF a \in Held(budgets) THEN On(a) \cup {r} ELSE On(a)
    <3>1. \A q \in admitted' : q = r \/ (q \in admitted /\ charge'[q] = charge[q])
      BY <1>1, <1>3 DEF Admit, TypeOK
    <3>2. admitted' = admitted \cup {r} /\ r \notin admitted
      BY DEF Admit
    <3>3. \A q \in admitted : charge'[q] = charge[q]
      BY <1>1, <1>3, <3>2 DEF TypeOK
    <3> QED
      BY <1>5, <3>2, <3>3 DEF On
  <2>4. \A q \in On(a) : charge[q] \in Charge /\ charge'[q] = charge[q]
    BY <1>1, <1>3, <2>2 DEF TypeOK
  <2>5. charge'[r] \in Charge
    BY DEF TypeOK
  <2>6. HeldBy(charge, On(a)) \in Nat
    BY <2>2, <2>4, <2>5, HeldByAdds
  <2>7. CASE a \in Held(budgets)
    <3>1. HeldBy(charge', On(a)') = HeldBy(charge, On(a)) + amount
      BY <1>5, <2>2, <2>3, <2>4, <2>5, <2>7, HeldByAdds
    <3>2. committed'[a] = Balance(a, spend) + amount
      BY <2>1, <2>7 DEF Admit
    <3>3. CASE a \in opened
      <4>1. Balance(a, spend) = seed[a] + HeldBy(charge, On(a)) /\ seed'[a] = seed[a]
        BY <1>1, <2>1, <3>3 DEF Balance, Balanced, Admit
      <4>2. seed[a] \in Nat
        BY <1>1, <2>1 DEF TypeOK
      <4> QED
        BY <1>4, <2>6, <3>1, <3>2, <4>1, <4>2
    <3>4. CASE a \notin opened
      <4>1. On(a) = {}
        BY <1>1, <3>4 DEF On, TypeOK
      <4>2. HeldBy(charge, On(a)) = 0
        BY <4>1, HeldByNone
      <4>3. Balance(a, spend) = spend[a[1]] /\ seed'[a] = spend[a[1]]
        BY <2>1, <2>7, <3>4 DEF Balance, Admit
      <4>4. spend[a[1]] \in Nat
        BY <2>1, BudgetAssumption
      <4> QED
        BY <1>4, <3>1, <3>2, <4>2, <4>3, <4>4
    <3> QED
      BY <3>3, <3>4
  <2>8. CASE a \notin Held(budgets)
    <3>1. HeldBy(charge', On(a)') = HeldBy(charge, On(a))
      BY <2>2, <2>3, <2>4, <2>8, HeldBySame
    <3>2. a \in opened /\ committed'[a] = committed[a] /\ seed'[a] = seed[a]
      BY <2>1, <2>8 DEF Admit
    <3> QED
      BY <1>1, <3>1, <3>2 DEF Balanced
  <2> QED
    BY <2>7, <2>8
<1> QED
  BY <1>2, <1>6 DEF LedgerInv, Balanced

LEMMA SettleLedger ==
  ASSUME LedgerInv, TypeOK', NEW r \in Requests, r \in admitted, NEW actual \in Nat,
         NEW source \in Sources, NEW reconciled \in BOOLEAN,
         Settle(r, actual, source, reconciled)
  PROVE  LedgerInv'
<1> DEFINE after == Settled(charge[r], actual, source, reconciled)
           delta == EffectiveCommitment(after) - EffectiveCommitment(charge[r])
<1>1. TypeOK /\ IsFiniteSet(admitted) /\ Balanced
  BY DEF LedgerInv
<1>2. /\ charge[r] \in Charge /\ after \in Charge
      /\ after.accounts = charge[r].accounts
  BY <1>1, SettledChargeType DEF TypeOK
<1>3. /\ charge' = [charge EXCEPT ![r] = after]
      /\ UNCHANGED <<opened, admitted, seed>>
      /\ \A a \in Accounts : committed'[a] = IF a \in charge[r].accounts
                                            THEN Larger(0, committed[a] + delta)
                                            ELSE committed[a]
  BY DEF Settle
<1>4. EffectiveCommitment(after) \in Nat /\ EffectiveCommitment(charge[r]) \in Nat
  BY <1>2, EffectiveCommitmentType
<1>5. delta = EffectiveCommitment(after) - EffectiveCommitment(charge[r])
  OBVIOUS
<1> HIDE DEF after, delta
<1>6. charge'[r] = after /\ \A q \in Requests \ {r} : charge'[q] = charge[q]
  BY <1>1, <1>3 DEF TypeOK
<1>7. ASSUME NEW a \in opened' PROVE committed'[a] = seed'[a] + HeldBy(charge', On(a)')
  <2>1. a \in Accounts /\ a \in opened
    BY <1>1, <1>3 DEF TypeOK
  <2>2. On(a)' = On(a)
    <3>1. \A q \in admitted : charge'[q].accounts = charge[q].accounts
      BY <1>1, <1>2, <1>6 DEF TypeOK
    <3> QED
      BY <1>3, <3>1 DEF On
  <2>3. IsFiniteSet(On(a)) /\ On(a) \in SUBSET Requests
    BY <1>1, LedgerTypes
  <2>4. committed[a] = seed[a] + HeldBy(charge, On(a)) /\ seed[a] \in Nat
    BY <1>1, <2>1 DEF Balanced, TypeOK
  <2>5. CASE a \in charge[r].accounts
    <3> DEFINE rest == On(a) \ {r}
    <3>1. rest \cup {r} = On(a)
      BY <2>5 DEF On
    <3>2. IsFiniteSet(rest) /\ r \notin rest /\ rest \in SUBSET Requests
      BY <2>3, FS_RemoveElement
    <3>3. \A q \in rest : charge[q] \in Charge /\ charge'[q] = charge[q]
      BY <1>1, <1>6, <3>2 DEF TypeOK
    <3> HIDE DEF rest
    <3>4. /\ HeldBy(charge, rest) \in Nat
          /\ HeldBy(charge', On(a)) = HeldBy(charge, rest) + EffectiveCommitment(after)
      BY <1>2, <1>6, <3>1, <3>2, <3>3, HeldByAdds
    <3>5. HeldBy(charge, On(a)) = HeldBy(charge, rest) + EffectiveCommitment(charge[r])
      BY <1>2, <3>1, <3>2, <3>3, HeldByAdds
    <3>6. committed[a] + delta = seed[a] + HeldBy(charge', On(a))
      BY <1>4, <1>5, <2>4, <3>4, <3>5
    <3>7. committed[a] + delta >= 0
      BY <1>4, <2>4, <3>4, <3>6
    <3>8. committed'[a] = committed[a] + delta
      BY <1>3, <2>1, <2>4, <2>5, <1>4, <1>5, <3>4, <3>6, <3>7 DEF Larger
    <3> QED
      BY <1>3, <2>2, <3>6, <3>8
  <2>6. CASE a \notin charge[r].accounts
    <3>1. \A q \in On(a) : charge[q] \in Charge /\ charge'[q] = charge[q]
      BY <1>1, <1>6, <2>3, <2>6 DEF On, TypeOK
    <3>2. HeldBy(charge', On(a)) = HeldBy(charge, On(a))
      BY <2>3, <3>1, HeldBySame
    <3> QED
      BY <1>3, <2>1, <2>2, <2>4, <2>6, <3>2
  <2> QED
    BY <2>5, <2>6
<1> QED
  BY <1>1, <1>3, <1>7 DEF LedgerInv, Balanced

LEMMA NextLedger == LedgerInv /\ TypeOK' /\ [Next]_vars => LedgerInv'
<1>. SUFFICES ASSUME LedgerInv, TypeOK', [Next]_vars PROVE LedgerInv'
  OBVIOUS
<1>0. TypeOK
  BY DEF LedgerInv
<1>1. ASSUME NEW r \in Requests, NEW budgets \in SUBSET Policies,
             NEW amount \in Amounts, NEW spend \in [Policies -> Spends],
             Admit(r, budgets, amount, spend)
      PROVE  LedgerInv'
  BY <1>1, AdmitLedger
<1>2. ASSUME NEW r \in Requests, NEW cost \in Costs,
             \/ ReconcileCharge(r, cost)
             \/ ReconcileReportedUsage(r, cost)
      PROVE  LedgerInv'
  <2>1. r \in admitted
    BY <1>2 DEF ReconcileCharge, ReconcileReportedUsage
  <2>. QED
    BY <1>0, <1>2, <2>1, SettlementIsSettle, SettleLedger
<1>3. ASSUME NEW r \in Requests, CancelCharge(r)
      PROVE  LedgerInv'
  BY <1>3, SettleLedger DEF CancelCharge, Sources
<1>4. ASSUME NEW p \in Policies, NEW newLimit \in Limits,
             NEW releases \in BOOLEAN, EditPolicy(p, newLimit, releases)
      PROVE  LedgerInv'
  BY <1>4 DEF EditPolicy, LedgerInv, TypeOK, Balanced, On
<1>5. CASE NextMonth
  BY <1>5 DEF NextMonth, LedgerInv, TypeOK, Balanced, On
<1>6. CASE UNCHANGED vars
  BY <1>6 DEF vars, LedgerInv, TypeOK, Balanced, On
<1>. QED
  BY <1>1, <1>2, <1>3, <1>4, <1>5, <1>6 DEF Next

\* For any number of requests, accounts and settlements in any order, an
\* account's committed_usd is what it was opened with and what its charges
\* hold now: _settle neither repeats nor loses a delta, and its floor at zero
\* never bites.
THEOREM LedgerBalances == Spec => []LedgerBalance
<1>1. Init => LedgerInv
  <2>. SUFFICES ASSUME Init PROVE LedgerInv
    OBVIOUS
  <2>1. IsFiniteSet(admitted) /\ Balanced
    BY FS_EmptySet DEF Init, Balanced
  <2>. QED
    BY <2>1, InitTypeOK DEF LedgerInv
<1>2. LedgerInv => LedgerBalance
  BY BalancedIsLedgerBalance DEF LedgerInv
<1>. QED
  BY <1>1, <1>2, NextLedger, TypeCorrect, PTL DEF Spec

-----------------------------------------------------------------------------
(***************************************************************************)
(* The transactions at the grain of their row locks (BudgetLocks).         *)
(*                                                                         *)
(* What a transaction has read of a row it has locked is still so when it  *)
(* commits, since only the holder of the lock writes the row; so a commit  *)
(* is a step of Budget.  A transaction holds the lower accounts of those   *)
(* it will write, so whom it waits for waits for a higher one.             *)
(***************************************************************************)
Balances == {{}} \cup UNION {[S -> Int] : S \in SUBSET Accounts}

Job == [stage : {"idle", "accounts", "inserted", "settle"}, request : SUBSET Requests,
        held : SUBSET Accounts, spend : {{}} \cup [Policies -> Spends], amount : Nat,
        after : Charge, balance : Balances]

LockTypes ==
  /\ accountLock \in [Accounts -> Transactions \cup {Nobody}]
  /\ requestLock \in [Requests -> Transactions \cup {Nobody}]
  /\ job \in [Transactions -> Job]

\* One period runs.
ThisMonth == \A r \in Requests : \A a \in charge[r].accounts : a[2] = month

\* A transaction has locked some of the accounts it will write, the lower ones,
\* and at most the charge row it is for.
Orderly(t) ==
  /\ Locked(t) \subseteq job[t].held /\ \A a \in job[t].held : a[2] = month
  /\ \A a \in Locked(t), b \in Todo(t) : a[1] < b[1]
  /\ \A r \in Requests : requestLock[r] = t =>
       job[t].request = {r} /\ job[t].stage \in {"inserted", "settle"}
  /\ job[t].stage = "idle" => job[t].held = {} /\ job[t].request = {}
  /\ job[t].stage # "idle" =>
       /\ \E r \in Requests : job[t].request = {r}
       /\ job[t].balance \in [job[t].held -> Int]

\* What an admission read of the accounts it has locked is still so.
AdmissionCurrent(t) ==
  job[t].stage \in {"accounts", "inserted"} =>
    /\ \E budgets \in SUBSET Policies : budgets # {} /\ job[t].held = Held(budgets)
    /\ job[t].spend \in [Policies -> Spends] /\ job[t].amount \in Amounts
    /\ \A a \in Locked(t) :
         /\ job[t].balance[a] = Balance(a, job[t].spend) + job[t].amount
         /\ \E limit \in limits[a[1]] : job[t].balance[a] <= limit
    /\ \A r \in job[t].request : job[t].stage = "inserted" =>
         requestLock[r] = t /\ r \notin admitted /\ Todo(t) = {}

\* What the three callers of _settle may record.
Answers(r, after) ==
  \E cost \in Costs :
    \/ cost <= charge[r].amount /\ after = Settled(charge[r], cost, "provider", TRUE)
    \/ after = Settled(charge[r], 0, "provider", TRUE)
    \/ /\ charge[r].source = "none" \/ Larger(cost, charge[r].actual) # charge[r].actual
       /\ after = Settled(charge[r], Larger(cost, charge[r].actual), "reported",
                          ReleasesOnReportedUsage(charge[r]))

Change(r, after) == EffectiveCommitment(after) - EffectiveCommitment(charge[r])

\* What a settlement decided of the charge it has locked, and read of the
\* accounts it has locked, is still so.
SettlementCurrent(t) ==
  job[t].stage = "settle" =>
    \A r \in job[t].request :
      /\ requestLock[r] = t /\ r \in admitted /\ ~ProviderSettled(charge[r])
      /\ Answers(r, job[t].after)
      /\ job[t].held = IF Change(r, job[t].after) # 0 THEN charge[r].accounts ELSE {}
      /\ \A a \in Locked(t) :
           job[t].balance[a] = Larger(0, committed[a] + Change(r, job[t].after))

Sound(t) == Orderly(t) /\ AdmissionCurrent(t) /\ SettlementCurrent(t)

LocksIInv == TypeOK /\ LockTypes /\ ThisMonth /\ \A t \in Transactions : Sound(t)

lockRows == <<rowVars, lockVars>>

\* For the transaction u, nothing has changed.
Unmoved(u) ==
  /\ job'[u] = job[u]
  /\ \A a \in Accounts : accountLock'[a] = u <=> accountLock[a] = u
  /\ \A r \in Requests : requestLock'[r] = u <=> requestLock[r] = u

LEMMA IdleIsJob ==
  /\ Idle \in Job /\ Idle.stage = "idle" /\ Idle.held = {} /\ Idle.request = {}
  /\ NoCharge \in Charge
<1>1. NoCharge \in Charge
  BY DEF NoCharge, Reserved, Charge, Sources
<1>2. {} \in Balances
  BY DEF Balances
<1> QED
  BY <1>1, <1>2 DEF Idle, Job

LEMMA LocksInitInv == LocksInit => LocksIInv
<1> SUFFICES ASSUME LocksInit PROVE LocksIInv
  OBVIOUS
<1>1. Init /\ TypeOK
  BY InitTypeOK DEF LocksInit
<1>2. LockTypes
  BY IdleIsJob DEF LocksInit, LockTypes
<1>3. ThisMonth
  BY <1>1 DEF Init, ThisMonth, NoCharge, Reserved
<1>4. ASSUME NEW t \in Transactions PROVE Sound(t)
  <2>1. job[t] = Idle /\ \A r \in Requests : requestLock[r] # t
    BY LocksAssumption DEF LocksInit
  <2>2. Locked(t) = {}
    BY LocksAssumption DEF LocksInit, Locked
  <2> QED
    BY <2>1, <2>2, IdleIsJob DEF Sound, Orderly, AdmissionCurrent, SettlementCurrent, Todo
<1> QED
  BY <1>1, <1>2, <1>3, <1>4 DEF LocksIInv

\* While no row is written, what others have read stays so.
LEMMA OthersUnmoved ==
  ASSUME UNCHANGED rowVars, NEW u \in Transactions, Sound(u), Unmoved(u)
  PROVE  Sound(u)'
<1>1. UNCHANGED <<month, limits, releasing, opened, committed, admitted, charge>>
  BY DEF rowVars
<1>2. Locked(u)' = Locked(u)
  BY DEF Locked, Unmoved
<1>3. job'[u] = job[u] /\ \A r \in Requests : requestLock'[r] = u <=> requestLock[r] = u
  BY DEF Unmoved
<1>4. Todo(u)' = Todo(u)
  BY <1>2, <1>3 DEF Todo
<1>5. Orderly(u)'
  BY <1>1, <1>2, <1>3, <1>4 DEF Sound, Orderly
<1>6. AdmissionCurrent(u)'
  <2>1. \A a : Balance(a, job[u].spend)' = Balance(a, job[u].spend)
    BY <1>1, <1>3 DEF Balance
  <2>2. \A budgets : Held(budgets)' = Held(budgets)
    BY <1>1 DEF Held
  <2>3. job[u].stage # "idle" => job[u].request \in SUBSET Requests
    BY DEF Sound, Orderly
  <2> QED
    BY <1>1, <1>2, <1>3, <1>4, <2>1, <2>2, <2>3 DEF Sound, AdmissionCurrent, Balance
<1>7. SettlementCurrent(u)'
  <2>1. job[u].stage # "idle" => job[u].request \in SUBSET Requests
    BY DEF Sound, Orderly
  <2>2. \A r : Answers(r, job[u].after)' = Answers(r, job[u].after)
    BY <1>1, <1>3 DEF Answers, ReleasesOnReportedUsage
  <2>3. \A r : Change(r, job[u].after)' = Change(r, job[u].after)
    BY <1>1, <1>3 DEF Change
  <2> QED
    BY <1>1, <1>2, <1>3, <2>1, <2>2, <2>3 DEF Sound, SettlementCurrent
<1> QED
  BY <1>5, <1>6, <1>7 DEF Sound

\* A step that writes no row is sound if it is so for who takes it.
LEMMA QuietStep ==
  ASSUME LocksIInv, UNCHANGED rowVars, LockTypes', NEW t \in Transactions, Sound(t)',
         \A u \in Transactions \ {t} : Unmoved(u)
  PROVE  LocksIInv'
<1>1. TypeOK' /\ ThisMonth'
  BY DEF LocksIInv, TypeOK, ThisMonth, rowVars
<1>2. \A u \in Transactions : Sound(u)'
  BY OthersUnmoved DEF LocksIInv
<1> QED
  BY <1>1, <1>2 DEF LocksIInv

LEMMA LocksParts ==
  ASSUME LocksIInv, NEW t \in Transactions
  PROVE  /\ TypeOK /\ LockTypes /\ ThisMonth
         /\ Orderly(t) /\ AdmissionCurrent(t) /\ SettlementCurrent(t)
         /\ job[t] \in Job /\ Locked(t) \subseteq Accounts /\ Todo(t) \subseteq Accounts
         /\ Todo(t) \subseteq job[t].held /\ job[t].held \subseteq Accounts
<1>1. /\ TypeOK /\ LockTypes /\ ThisMonth
      /\ Orderly(t) /\ AdmissionCurrent(t) /\ SettlementCurrent(t)
  BY DEF LocksIInv, Sound
<1>2. job[t] \in Job
  BY <1>1 DEF LockTypes
<1>3. job[t].held \subseteq Accounts
  BY <1>2 DEF Job
<1> QED
  BY <1>1, <1>2, <1>3 DEF Locked, Todo

LEMMA LeastNumber ==
  ASSUME NEW S \in SUBSET Nat, S # {}
  PROVE  \E m \in S : \A n \in S : m <= n
<1> DEFINE Less == OpToRel(<, Nat)
<1>1. IsWellFoundedOn(Less, Nat)
  BY NatLessThanWellFounded, Zenon
<1> HIDE DEF Less
<1>2. PICK m \in S : \A n \in S : ~ (<<n, m>> \in Less)
  BY <1>1, WFMin
<1>3. ASSUME NEW n \in S PROVE m <= n
  <2>1. SUFFICES ASSUME n < m PROVE FALSE
    OBVIOUS
  <2>2. <<n, m>> \in Less
    BY <2>1 DEF Less, OpToRel
  <2> QED
    BY <1>2, <2>2
<1> QED
  BY <1>3

\* The account to lock next is the lowest.
LEMMA NextIsLowest ==
  ASSUME LocksIInv, NEW t \in Transactions, Todo(t) # {}
  PROVE  /\ NextAccount(t) \in Todo(t) /\ NextAccount(t) \in Accounts
         /\ \A b \in Todo(t) : b # NextAccount(t) => NextAccount(t)[1] < b[1]
<1>1. Todo(t) \subseteq Accounts /\ \A a \in Todo(t) : a[2] = month
  BY LocksParts DEF Orderly
<1>2. \A a \in Accounts : a[1] \in Nat /\ a = <<a[1], a[2]>>
  <2>1. \A p \in Policies : p \in Nat
    BY LocksAssumption
  <2>2. \A a \in Accounts : a[1] \in Policies /\ a = <<a[1], a[2]>>
    BY DEF Accounts
  <2> QED
    BY <2>1, <2>2
<1> DEFINE S == {a[1] : a \in Todo(t)}
<1>3. S \in SUBSET Nat /\ S # {}
  BY <1>1, <1>2
<1>4. PICK m \in S : \A n \in S : m <= n
  BY <1>3, LeastNumber
<1>5. \E a \in Todo(t) : \A b \in Todo(t) : a[1] <= b[1]
  BY <1>4
<1>6. NextAccount(t) \in Todo(t) /\ \A b \in Todo(t) : NextAccount(t)[1] <= b[1]
  BY <1>5 DEF NextAccount
<1>7. ASSUME NEW b \in Todo(t), b # NextAccount(t) PROVE NextAccount(t)[1] < b[1]
  <2>1. b[1] # NextAccount(t)[1]
    BY <1>1, <1>2, <1>6, <1>7
  <2> QED
    BY <1>1, <1>2, <1>6, <2>1
<1> QED
  BY <1>1, <1>6, <1>7

\* A transaction locks its next account, and keeps what it will write to it.
Keeps(t, a, v) ==
  /\ accountLock' = [accountLock EXCEPT ![a] = t]
  /\ job' = [job EXCEPT ![t].balance[a] = v]
  /\ UNCHANGED <<rowVars, requestLock>>

LEMMA LocksOne ==
  ASSUME LocksIInv, NEW t \in Transactions, job[t].stage # "idle", Todo(t) # {},
         NEW a, a = NextAccount(t), accountLock[a] = Nobody, NEW v \in Int, Keeps(t, a, v)
  PROVE  /\ LockTypes' /\ Orderly(t)' /\ \A u \in Transactions \ {t} : Unmoved(u)
         /\ job'[t].stage = job[t].stage /\ job'[t].request = job[t].request
         /\ job'[t].held = job[t].held /\ job'[t].spend = job[t].spend
         /\ job'[t].amount = job[t].amount /\ job'[t].after = job[t].after
         /\ \A b \in Locked(t)' : b \in Accounts
              /\ job'[t].balance[b] = IF b = a THEN v ELSE job[t].balance[b]
         /\ Locked(t)' = Locked(t) \cup {a}
<1>1. /\ TypeOK /\ LockTypes /\ Orderly(t) /\ job[t] \in Job
      /\ Locked(t) \subseteq Accounts /\ job[t].held \subseteq Accounts
      /\ Todo(t) \subseteq job[t].held
  BY LocksParts
<1>2. /\ a \in Todo(t) /\ a \in Accounts /\ a \in job[t].held
      /\ \A b \in Todo(t) : b # a => a[1] < b[1]
  BY <1>1, NextIsLowest
<1>3. job[t].balance \in [job[t].held -> Int]
  BY <1>1 DEF Orderly
<1> DEFINE balance == [job[t].balance EXCEPT ![a] = v]
           mine == [job[t] EXCEPT !.balance = balance]
<1>4. balance \in [job[t].held -> Int]
      /\ \A b \in job[t].held : balance[b] = IF b = a THEN v ELSE job[t].balance[b]
  BY <1>2, <1>3
<1>5. balance \in Balances
  BY <1>1, <1>4 DEF Balances
<1>6. job' = [job EXCEPT ![t] = mine]
  BY <1>1 DEF LockTypes, Keeps
<1> HIDE DEF balance
<1>7. /\ mine \in Job /\ mine.stage = job[t].stage /\ mine.request = job[t].request
      /\ mine.held = job[t].held /\ mine.spend = job[t].spend
      /\ mine.amount = job[t].amount /\ mine.after = job[t].after
      /\ mine.balance = balance
  BY <1>1, <1>5 DEF Job
<1> HIDE DEF mine
<1>8. /\ job' \in [Transactions -> Job] /\ job'[t] = mine
      /\ \A u \in Transactions \ {t} : job'[u] = job[u]
  BY <1>1, <1>6, <1>7 DEF LockTypes
<1>9. /\ accountLock' \in [Accounts -> Transactions \cup {Nobody}]
      /\ \A b \in Accounts : accountLock'[b] = IF b = a THEN t ELSE accountLock[b]
  BY <1>1, <1>2 DEF LockTypes, Keeps
<1>10. LockTypes'
  BY <1>1, <1>8, <1>9 DEF LockTypes, Keeps
<1>11. Locked(t)' = Locked(t) \cup {a}
  BY <1>2, <1>9 DEF Locked
<1>12. \A u \in Transactions \ {t} : Unmoved(u)
  BY <1>8, <1>9, LocksAssumption DEF Unmoved, Keeps
<1>13. Orderly(t)'
  <2>1. Todo(t)' = Todo(t) \ {a}
    BY <1>7, <1>8, <1>11 DEF Todo
  <2>2. \A x \in Locked(t)', b \in Todo(t)' : x[1] < b[1]
    BY <1>1, <1>2, <1>11, <2>1 DEF Orderly
  <2>3. job'[t].balance \in [job'[t].held -> Int]
    BY <1>4, <1>7, <1>8
  <2>4. month' = month
    BY DEF rowVars, Keeps
  <2> QED
    BY <1>1, <1>2, <1>7, <1>8, <1>11, <2>2, <2>3, <2>4 DEF Orderly, Keeps
<1>14. \A b \in Locked(t)' : b \in Accounts
         /\ job'[t].balance[b] = IF b = a THEN v ELSE job[t].balance[b]
  BY <1>1, <1>2, <1>4, <1>7, <1>8, <1>11 DEF Orderly
<1> QED
  BY <1>7, <1>8, <1>10, <1>11, <1>12, <1>13, <1>14

\* An idle transaction has no locks.
LEMMA IdleHasNoLocks ==
  ASSUME LocksIInv, NEW t \in Transactions, job[t].stage = "idle"
  PROVE  Locked(t) = {} /\ \A r \in Requests : requestLock[r] # t
<1>1. Orderly(t)
  BY LocksParts
<1> QED
  BY <1>1 DEF Orderly

LEMMA BeginAdmitStep ==
  ASSUME LocksIInv, NEW t \in Transactions, NEW r \in Requests,
         NEW budgets \in SUBSET Policies, NEW amount \in Amounts,
         NEW spend \in [Policies -> Spends], BeginAdmit(t, r, budgets, amount, spend)
  PROVE  LocksIInv'
<1> DEFINE balance == [a \in Held(budgets) |-> 0]
           mine == [Idle EXCEPT !.stage = "accounts", !.request = {r},
                                !.held = Held(budgets), !.amount = amount,
                                !.spend = spend, !.balance = balance]
<1>1. TypeOK /\ LockTypes
  BY LocksParts
<1>2. /\ job[t].stage = "idle" /\ budgets # {} /\ job' = [job EXCEPT ![t] = mine]
      /\ UNCHANGED <<rowVars, accountLock, requestLock>>
  BY DEF BeginAdmit
<1>3. Held(budgets) \in SUBSET Accounts /\ \A a \in Held(budgets) : a[2] = month
  BY <1>1 DEF Held, Accounts, TypeOK
<1>4. balance \in [Held(budgets) -> Int] /\ balance \in Balances
  BY <1>3 DEF Balances
<1>5. amount \in Nat
  BY BudgetAssumption
<1> HIDE DEF balance
<1>6. /\ mine \in Job /\ mine.stage = "accounts" /\ mine.request = {r}
      /\ mine.held = Held(budgets) /\ mine.amount = amount /\ mine.spend = spend
      /\ mine.balance = balance
  BY <1>3, <1>4, <1>5, IdleIsJob DEF Idle, Job
<1> HIDE DEF mine
<1>7. /\ job'[t] = mine /\ job' \in [Transactions -> Job]
      /\ \A u \in Transactions \ {t} : job'[u] = job[u]
  BY <1>1, <1>2, <1>6 DEF LockTypes
<1>8. LockTypes' /\ \A u \in Transactions \ {t} : Unmoved(u)
  BY <1>1, <1>2, <1>7 DEF LockTypes, Unmoved
<1>9. Locked(t)' = {} /\ \A q \in Requests : requestLock'[q] # t
  BY <1>2, IdleHasNoLocks DEF Locked
<1>10. month' = month /\ Held(budgets)' = Held(budgets)
  BY <1>2 DEF rowVars, Held
<1>11. Orderly(t)'
  BY <1>3, <1>4, <1>6, <1>7, <1>9, <1>10 DEF Orderly
<1>12. AdmissionCurrent(t)'
  BY <1>2, <1>6, <1>7, <1>9, <1>10 DEF AdmissionCurrent
<1>13. SettlementCurrent(t)'
  BY <1>6, <1>7 DEF SettlementCurrent
<1> QED
  BY <1>2, <1>8, <1>11, <1>12, <1>13, QuietStep DEF Sound

LEMMA LockAccountStep ==
  ASSUME LocksIInv, NEW t \in Transactions, LockAccount(t)
  PROVE  LocksIInv'
<1>0. PICK a, balance : a = NextAccount(t)
                        /\ balance = Balance(a, job[t].spend) + job[t].amount
  OBVIOUS
<1>1. /\ TypeOK /\ Orderly(t) /\ AdmissionCurrent(t)
  BY LocksParts
<1>2. /\ job[t].stage = "accounts" /\ Todo(t) # {} /\ accountLock[a] = Nobody
      /\ \E limit \in limits[a[1]] : balance <= limit
      /\ accountLock' = [accountLock EXCEPT ![a] = t]
      /\ job' = [job EXCEPT ![t].balance[a] = balance]
      /\ UNCHANGED <<rowVars, requestLock>>
  BY <1>0 DEF LockAccount
<1>3. a \in Accounts /\ a \in Todo(t)
  BY <1>0, <1>2, NextIsLowest
<1>4. balance \in Int
  <2>1. job[t].spend \in [Policies -> Spends] /\ job[t].amount \in Nat
    BY <1>1, <1>2, BudgetAssumption DEF AdmissionCurrent
  <2>2. Balance(a, job[t].spend) \in Nat
    BY <1>1, <1>3, <2>1, BudgetAssumption DEF Balance, TypeOK, Accounts
  <2> QED
    BY <1>0, <2>1, <2>2
<1>5. job[t].stage # "idle" /\ Keeps(t, a, balance)
  BY <1>2 DEF Keeps
<1>6. /\ LockTypes' /\ Orderly(t)' /\ \A u \in Transactions \ {t} : Unmoved(u)
      /\ job'[t].stage = job[t].stage /\ job'[t].request = job[t].request
      /\ job'[t].held = job[t].held /\ job'[t].spend = job[t].spend
      /\ job'[t].amount = job[t].amount
      /\ \A b \in Locked(t)' : b \in Accounts
           /\ job'[t].balance[b] = IF b = a THEN balance ELSE job[t].balance[b]
      /\ Locked(t)' = Locked(t) \cup {a}
  BY <1>0, <1>2, <1>4, <1>5, LocksOne
<1>7. UNCHANGED <<month, opened, committed, limits>>
  BY <1>2 DEF rowVars
<1>8. ASSUME NEW b \in Locked(t)'
      PROVE  /\ job'[t].balance[b] = Balance(b, job[t].spend) + job[t].amount
             /\ \E limit \in limits[b[1]] : job'[t].balance[b] <= limit
  <2>1. CASE b = a
    BY <1>0, <1>2, <1>6, <2>1
  <2>2. CASE b # a
    BY <1>1, <1>2, <1>6, <2>2 DEF AdmissionCurrent
  <2> QED
    BY <2>1, <2>2
<1>9. \A b : Balance(b, job[t].spend)' = Balance(b, job'[t].spend)
  BY <1>6, <1>7 DEF Balance
<1>10. AdmissionCurrent(t)'
  <2>1. \A budgets : Held(budgets)' = Held(budgets)
    BY <1>7 DEF Held
  <2>2. \A b \in Locked(t)' :
          /\ job'[t].balance[b] = Balance(b, job[t].spend)' + job'[t].amount
          /\ \E limit \in limits'[b[1]] : job'[t].balance[b] <= limit
    <3>1. \A b : Balance(b, job[t].spend)' = Balance(b, job[t].spend)
      BY <1>6, <1>7 DEF Balance
    <3> QED
      BY <1>6, <1>7, <1>8, <3>1
  <2>3. /\ \E budgets \in SUBSET Policies : budgets # {} /\ job'[t].held = Held(budgets)'
        /\ job'[t].spend \in [Policies -> Spends] /\ job'[t].amount \in Amounts
    BY <1>1, <1>2, <1>6, <2>1 DEF AdmissionCurrent
  <2>4. job'[t].stage # "inserted"
    BY <1>2, <1>6
  <2> QED
    BY <2>2, <2>3, <2>4 DEF AdmissionCurrent
<1>11. SettlementCurrent(t)'
  BY <1>2, <1>6 DEF SettlementCurrent
<1> QED
  BY <1>2, <1>6, <1>10, <1>11, QuietStep DEF Sound

LEMMA InsertChargeStep ==
  ASSUME LocksIInv, NEW t \in Transactions, InsertCharge(t)
  PROVE  LocksIInv'
<1>1. /\ TypeOK /\ LockTypes /\ Orderly(t) /\ AdmissionCurrent(t) /\ job[t] \in Job
  BY LocksParts
<1>2. PICK r \in job[t].request :
        /\ job[t].stage = "accounts" /\ Todo(t) = {} /\ r \notin admitted
        /\ requestLock[r] = Nobody /\ requestLock' = [requestLock EXCEPT ![r] = t]
        /\ job' = [job EXCEPT ![t].stage = "inserted"]
        /\ UNCHANGED <<rowVars, accountLock>>
  BY DEF InsertCharge
<1>3. r \in Requests /\ job[t].request = {r}
  BY <1>1, <1>2 DEF Orderly
<1> DEFINE mine == [job[t] EXCEPT !.stage = "inserted"]
<1>4. job' = [job EXCEPT ![t] = mine]
  BY <1>1, <1>2 DEF LockTypes
<1>5. /\ mine \in Job /\ mine.stage = "inserted" /\ mine.request = job[t].request
      /\ mine.held = job[t].held /\ mine.spend = job[t].spend
      /\ mine.amount = job[t].amount /\ mine.balance = job[t].balance
  BY <1>1 DEF Job
<1> HIDE DEF mine
<1>6. /\ job'[t] = mine /\ job' \in [Transactions -> Job]
      /\ \A u \in Transactions \ {t} : job'[u] = job[u]
  BY <1>1, <1>4, <1>5 DEF LockTypes
<1>7. /\ requestLock' \in [Requests -> Transactions \cup {Nobody}] /\ requestLock'[r] = t
      /\ \A q \in Requests : requestLock'[q] = IF q = r THEN t ELSE requestLock[q]
  BY <1>1, <1>2, <1>3 DEF LockTypes
<1>8. LockTypes' /\ \A u \in Transactions \ {t} : Unmoved(u)
  BY <1>1, <1>2, <1>3, <1>6, <1>7, LocksAssumption DEF LockTypes, Unmoved
<1>9. Locked(t)' = Locked(t) /\ Todo(t)' = Todo(t)
  BY <1>2, <1>5, <1>6 DEF Locked, Todo
<1>10. UNCHANGED <<month, opened, committed, limits, admitted>>
  BY <1>2 DEF rowVars
<1>11. Orderly(t)'
  BY <1>1, <1>2, <1>3, <1>5, <1>6, <1>7, <1>9, <1>10 DEF Orderly
<1>12. AdmissionCurrent(t)'
  <2>1. \A budgets : Held(budgets)' = Held(budgets)
    BY <1>10 DEF Held
  <2>2. \A b : Balance(b, job[t].spend)' = Balance(b, job[t].spend)
    BY <1>5, <1>6, <1>10 DEF Balance
  <2> QED
    BY <1>1, <1>2, <1>3, <1>5, <1>6, <1>7, <1>9, <1>10, <2>1, <2>2 DEF AdmissionCurrent
<1>13. SettlementCurrent(t)'
  BY <1>5, <1>6 DEF SettlementCurrent
<1> QED
  BY <1>2, <1>8, <1>11, <1>12, <1>13, QuietStep DEF Sound

\* What a settlement may record is a charge on the same accounts.
LEMMA AnswersType ==
  ASSUME TypeOK, NEW r \in Requests, NEW after, Answers(r, after)
  PROVE  after \in Charge /\ after.accounts = charge[r].accounts /\ Change(r, after) \in Int
<1>1. charge[r] \in Charge /\ charge[r].actual \in Nat
  BY DEF TypeOK, Charge
<1>2. PICK cost \in Costs :
        \/ after = Settled(charge[r], cost, "provider", TRUE)
        \/ after = Settled(charge[r], 0, "provider", TRUE)
        \/ after = Settled(charge[r], Larger(cost, charge[r].actual), "reported",
                           ReleasesOnReportedUsage(charge[r]))
  BY DEF Answers
<1>3. /\ cost \in Nat /\ Larger(cost, charge[r].actual) \in Nat
      /\ ReleasesOnReportedUsage(charge[r]) \in BOOLEAN
  BY <1>1, BudgetAssumption DEF Larger, ReleasesOnReportedUsage
<1>4. PICK actual \in Nat, source \in Sources, reconciled \in BOOLEAN :
        after = Settled(charge[r], actual, source, reconciled)
  BY <1>2, <1>3 DEF Sources
<1>5. after \in Charge /\ after.accounts = charge[r].accounts
  BY <1>1, <1>4, SettledChargeType
<1> QED
  BY <1>1, <1>5, EffectiveCommitmentType DEF Change

LEMMA LockChargeStep ==
  ASSUME LocksIInv, NEW t \in Transactions, NEW r \in Requests, NEW after,
         Answers(r, after), LockCharge(t, r, after)
  PROVE  LocksIInv'
<1>0. PICK held : held = IF Change(r, after) # 0 THEN charge[r].accounts ELSE {}
  OBVIOUS
<1> DEFINE balance == [a \in held |-> 0]
           mine == [Idle EXCEPT !.stage = "settle", !.request = {r}, !.held = held,
                                !.after = after, !.balance = balance]
<1>1. TypeOK /\ LockTypes /\ ThisMonth
  BY LocksParts
<1>2. charge[r] \in Charge /\ after \in Charge /\ Change(r, after) \in Int
  BY <1>1, AnswersType DEF TypeOK
<1>3. (EffectiveCommitment(after) # EffectiveCommitment(charge[r])) <=> Change(r, after) # 0
  BY <1>2, EffectiveCommitmentType DEF Change
<1>4. /\ job[t].stage = "idle" /\ r \in admitted /\ requestLock[r] = Nobody
      /\ ~ProviderSettled(charge[r]) /\ requestLock' = [requestLock EXCEPT ![r] = t]
      /\ job' = [job EXCEPT ![t] = mine] /\ UNCHANGED <<rowVars, accountLock>>
  BY <1>0, <1>3 DEF LockCharge
<1>5. held \in SUBSET Accounts /\ \A a \in held : a[2] = month
  BY <1>0, <1>1, <1>2 DEF Charge, ThisMonth
<1>6. balance \in [held -> Int] /\ balance \in Balances
  BY <1>5 DEF Balances
<1> HIDE DEF balance
<1>7. /\ mine \in Job /\ mine.stage = "settle" /\ mine.request = {r} /\ mine.held = held
      /\ mine.after = after /\ mine.balance = balance
  BY <1>2, <1>5, <1>6, IdleIsJob DEF Idle, Job
<1> HIDE DEF mine
<1>8. /\ job'[t] = mine /\ job' \in [Transactions -> Job]
      /\ \A u \in Transactions \ {t} : job'[u] = job[u]
  BY <1>1, <1>4, <1>7 DEF LockTypes
<1>9. /\ requestLock' \in [Requests -> Transactions \cup {Nobody}] /\ requestLock'[r] = t
      /\ \A q \in Requests : requestLock'[q] = IF q = r THEN t ELSE requestLock[q]
  BY <1>1, <1>4 DEF LockTypes
<1>10. LockTypes' /\ \A u \in Transactions \ {t} : Unmoved(u)
  BY <1>1, <1>4, <1>8, <1>9, LocksAssumption DEF LockTypes, Unmoved
<1>11. Locked(t)' = {} /\ \A q \in Requests : requestLock'[q] = t => q = r
  BY <1>4, <1>9, IdleHasNoLocks DEF Locked
<1>12. UNCHANGED <<month, charge, admitted, releasing>>
  BY <1>4 DEF rowVars
<1>13. Orderly(t)'
  BY <1>5, <1>6, <1>7, <1>8, <1>11, <1>12 DEF Orderly
<1>14. AdmissionCurrent(t)'
  BY <1>7, <1>8 DEF AdmissionCurrent
<1>15. SettlementCurrent(t)'
  <2>1. Answers(r, after)' <=> Answers(r, after)
    BY <1>12 DEF Answers, ReleasesOnReportedUsage
  <2>2. Change(r, after)' = Change(r, after)
    BY <1>12 DEF Change
  <2>3. job'[t].request = {r} /\ job'[t].after = after /\ job'[t].held = held
    BY <1>7, <1>8
  <2>4. (Answers(r, job[t].after))' /\ (Change(r, job[t].after))' = Change(r, after)
    BY <2>3, <1>12 DEF Answers, Change, ReleasesOnReportedUsage
  <2> QED
    BY <1>0, <1>4, <1>9, <1>11, <1>12, <2>3, <2>4 DEF SettlementCurrent
<1> QED
  BY <1>4, <1>10, <1>13, <1>14, <1>15, QuietStep DEF Sound

LEMMA BeginSettleStep ==
  ASSUME LocksIInv, NEW t \in Transactions, NEW r \in Requests, NEW cost \in Costs,
         BeginSettle(t, r, cost)
  PROVE  LocksIInv'
<1>1. PICK after : Answers(r, after) /\ LockCharge(t, r, after)
  BY DEF BeginSettle, Answers
<1> QED
  BY <1>1, LockChargeStep

\* Delta is the change of the charge a settlement is for.
LEMMA DeltaIsChange ==
  ASSUME NEW t, NEW r \in Requests, job[t].request = {r}
  PROVE  Delta(t) = Change(r, job[t].after)
BY DEF Delta, Change

LEMMA SettleAccountStep ==
  ASSUME LocksIInv, NEW t \in Transactions, SettleAccount(t)
  PROVE  LocksIInv'
<1>0. PICK a, balance : a = NextAccount(t) /\ balance = Larger(0, committed[a] + Delta(t))
  OBVIOUS
<1>1. TypeOK /\ Orderly(t) /\ SettlementCurrent(t)
  BY LocksParts
<1>2. /\ job[t].stage = "settle" /\ Todo(t) # {} /\ accountLock[a] = Nobody
      /\ accountLock' = [accountLock EXCEPT ![a] = t]
      /\ job' = [job EXCEPT ![t].balance[a] = balance]
      /\ UNCHANGED <<rowVars, requestLock>>
  BY <1>0 DEF SettleAccount
<1>3. PICK r \in Requests : job[t].request = {r}
  BY <1>1, <1>2 DEF Orderly
<1>4. a \in Accounts /\ a \in Todo(t)
  BY <1>0, <1>2, NextIsLowest
<1>5. PICK change : change = Change(r, job[t].after)
  OBVIOUS
<1>6. /\ requestLock[r] = t /\ r \in admitted /\ ~ProviderSettled(charge[r])
      /\ Answers(r, job[t].after)
      /\ job[t].held = IF change # 0 THEN charge[r].accounts ELSE {}
      /\ \A b \in Locked(t) : job[t].balance[b] = Larger(0, committed[b] + change)
  BY <1>1, <1>2, <1>3, <1>5 DEF SettlementCurrent
<1>7. change \in Int
  BY <1>1, <1>5, <1>6, AnswersType
<1>8. balance = Larger(0, committed[a] + change) /\ balance \in Int
  <2>1. Delta(t) = change
    BY <1>3, <1>5, DeltaIsChange
  <2>2. committed[a] \in Nat
    BY <1>1, <1>4 DEF TypeOK
  <2> QED
    BY <1>0, <1>7, <2>1, <2>2 DEF Larger
<1>9. job[t].stage # "idle" /\ Keeps(t, a, balance)
  BY <1>2 DEF Keeps
<1>10. /\ LockTypes' /\ Orderly(t)' /\ \A u \in Transactions \ {t} : Unmoved(u)
       /\ job'[t].stage = job[t].stage /\ job'[t].request = job[t].request
       /\ job'[t].held = job[t].held /\ job'[t].after = job[t].after
       /\ \A b \in Locked(t)' : b \in Accounts
            /\ job'[t].balance[b] = IF b = a THEN balance ELSE job[t].balance[b]
       /\ Locked(t)' = Locked(t) \cup {a}
  BY <1>0, <1>2, <1>8, <1>9, LocksOne
<1>11. UNCHANGED <<committed, charge, admitted, releasing, requestLock>>
  BY <1>2 DEF rowVars
<1>12. AdmissionCurrent(t)'
  BY <1>2, <1>10 DEF AdmissionCurrent
<1>13. SettlementCurrent(t)'
  <2>1. (Answers(r, job[t].after))'
    BY <1>6, <1>10, <1>11 DEF Answers, ReleasesOnReportedUsage
  <2>2. (Change(r, job[t].after))' = change
    BY <1>5, <1>10, <1>11 DEF Change
  <2>3. \A b \in Locked(t)' : job'[t].balance[b] = Larger(0, committed'[b] + change)
    BY <1>6, <1>8, <1>10, <1>11
  <2> QED
    BY <1>3, <1>6, <1>10, <1>11, <2>1, <2>2, <2>3 DEF SettlementCurrent
<1> QED
  BY <1>2, <1>10, <1>12, <1>13, QuietStep DEF Sound

\* A transaction that has ended holds nothing, and the others what they held.
LEMMA ReleasedStep ==
  ASSUME LocksIInv, NEW t \in Transactions, Release(t)
  PROVE  /\ LockTypes' /\ \A u \in Transactions \ {t} : Unmoved(u)
         /\ job'[t] = Idle /\ Locked(t)' = {} /\ \A r \in Requests : requestLock'[r] # t
<1>1. LockTypes
  BY LocksParts
<1>2. /\ job' = [job EXCEPT ![t] = Idle]
      /\ accountLock' = [a \in Accounts |->
                           IF accountLock[a] = t THEN Nobody ELSE accountLock[a]]
      /\ requestLock' = [r \in Requests |->
                           IF requestLock[r] = t THEN Nobody ELSE requestLock[r]]
  BY DEF Release
<1>3. LockTypes'
  BY <1>1, <1>2, IdleIsJob DEF LockTypes
<1>4. \A u \in Transactions \ {t} : Unmoved(u)
  BY <1>1, <1>2, LocksAssumption DEF LockTypes, Unmoved
<1>5. Locked(t)' = {} /\ \A r \in Requests : requestLock'[r] # t
  BY <1>1, <1>2, LocksAssumption DEF LockTypes, Locked
<1> QED
  BY <1>1, <1>2, <1>3, <1>4, <1>5 DEF LockTypes

LEMMA RollbackStep ==
  ASSUME LocksIInv, NEW t \in Transactions, Rollback(t)
  PROVE  LocksIInv'
<1>1. Release(t) /\ UNCHANGED rowVars
  BY DEF Rollback
<1>2. /\ LockTypes' /\ \A u \in Transactions \ {t} : Unmoved(u)
      /\ job'[t] = Idle /\ Locked(t)' = {} /\ \A r \in Requests : requestLock'[r] # t
  BY <1>1, ReleasedStep
<1>3. Sound(t)'
  BY <1>2, IdleIsJob DEF Sound, Orderly, AdmissionCurrent, SettlementCurrent, Todo
<1> QED
  BY <1>1, <1>2, <1>3, QuietStep

\* A commit writes only rows its transaction has locked, so what the others
\* have read stays so.
LEMMA OthersUntouched ==
  ASSUME LocksIInv, NEW t \in Transactions, NEW u \in Transactions, u # t, Unmoved(u),
         NEW r \in Requests, requestLock[r] = t, UNCHANGED <<month, limits, releasing>>,
         \A a \in Accounts : accountLock[a] # t =>
           committed'[a] = committed[a] /\ (a \in opened' <=> a \in opened),
         \A q \in Requests : q # r =>
           charge'[q] = charge[q] /\ (q \in admitted' <=> q \in admitted)
  PROVE  Sound(u)'
<1>1. /\ Orderly(u) /\ AdmissionCurrent(u) /\ SettlementCurrent(u)
      /\ Locked(u) \subseteq Accounts
  BY LocksParts
<1>2. Locked(u)' = Locked(u)
  BY DEF Locked, Unmoved
<1>3. job'[u] = job[u] /\ \A q \in Requests : requestLock'[q] = u <=> requestLock[q] = u
  BY DEF Unmoved
<1>4. Todo(u)' = Todo(u)
  BY <1>2, <1>3 DEF Todo
<1>5. Orderly(u)'
  BY <1>1, <1>2, <1>3, <1>4 DEF Orderly
<1>6. \A a \in Locked(u) : committed'[a] = committed[a] /\ (a \in opened' <=> a \in opened)
  BY DEF Locked
<1>7. \A q \in Requests : requestLock[q] = u =>
        charge'[q] = charge[q] /\ (q \in admitted' <=> q \in admitted)
  OBVIOUS
<1>8. job[u].stage # "idle" => job[u].request \in SUBSET Requests
  BY <1>1 DEF Orderly
<1>9. AdmissionCurrent(u)'
  <2>1. SUFFICES ASSUME job[u].stage \in {"accounts", "inserted"} PROVE AdmissionCurrent(u)'
    BY <1>3 DEF AdmissionCurrent
  <2>2. \A a \in Locked(u) : Balance(a, job[u].spend)' = Balance(a, job[u].spend)
    BY <1>3, <1>6 DEF Balance
  <2>3. \A budgets : Held(budgets)' = Held(budgets)
    BY DEF Held
  <2>4. \A a \in Locked(u)' :
          /\ job'[u].balance[a] = Balance(a, job[u].spend)' + job'[u].amount
          /\ \E limit \in limits'[a[1]] : job'[u].balance[a] <= limit
    BY <1>1, <1>2, <1>3, <2>1, <2>2 DEF AdmissionCurrent
  <2>5. \A q \in job'[u].request : job'[u].stage = "inserted" =>
          requestLock'[q] = u /\ q \notin admitted' /\ Todo(u)' = {}
    BY <1>1, <1>3, <1>4, <1>7, <1>8, <2>1 DEF AdmissionCurrent
  <2>6. /\ \E budgets \in SUBSET Policies : budgets # {} /\ job'[u].held = Held(budgets)'
        /\ job'[u].spend \in [Policies -> Spends] /\ job'[u].amount \in Amounts
    BY <1>1, <1>3, <2>1, <2>3 DEF AdmissionCurrent
  <2> QED
    BY <2>4, <2>5, <2>6 DEF AdmissionCurrent
<1>10. SettlementCurrent(u)'
  <2>1. SUFFICES ASSUME job[u].stage = "settle" PROVE SettlementCurrent(u)'
    BY <1>3 DEF SettlementCurrent
  <2>2. PICK q \in Requests : job[u].request = {q}
    BY <1>1, <2>1 DEF Orderly
  <2>3. /\ requestLock[q] = u /\ q \in admitted /\ ~ProviderSettled(charge[q])
        /\ Answers(q, job[u].after)
        /\ job[u].held = IF Change(q, job[u].after) # 0 THEN charge[q].accounts ELSE {}
        /\ \A a \in Locked(u) :
             job[u].balance[a] = Larger(0, committed[a] + Change(q, job[u].after))
    BY <1>1, <2>1, <2>2 DEF SettlementCurrent
  <2>4. charge'[q] = charge[q] /\ q \in admitted'
    BY <1>7, <2>3
  <2>5. (Answers(q, job[u].after))'
    BY <1>3, <2>3, <2>4 DEF Answers, ReleasesOnReportedUsage
  <2>6. (Change(q, job[u].after))' = Change(q, job[u].after)
    BY <1>3, <2>4 DEF Change
  <2>7. \A a \in Locked(u)' :
          job'[u].balance[a] = Larger(0, committed'[a] + Change(q, job[u].after))
    BY <1>2, <1>3, <1>6, <2>3
  <2> QED
    BY <1>3, <2>2, <2>3, <2>4, <2>5, <2>6, <2>7 DEF SettlementCurrent
<1> QED
  BY <1>5, <1>9, <1>10 DEF Sound

\* A commit that is a step of Budget leaves every transaction sound.
LEMMA CommitStep ==
  ASSUME LocksIInv, Next, NEW t \in Transactions, Release(t), ThisMonth',
         NEW r \in Requests, requestLock[r] = t, UNCHANGED <<month, limits, releasing>>,
         \A a \in Accounts : accountLock[a] # t =>
           committed'[a] = committed[a] /\ (a \in opened' <=> a \in opened),
         \A q \in Requests : q # r =>
           charge'[q] = charge[q] /\ (q \in admitted' <=> q \in admitted)
  PROVE  LocksIInv'
<1>1. TypeOK'
  BY NextTypeOK DEF LocksIInv
<1>2. /\ LockTypes' /\ \A u \in Transactions \ {t} : Unmoved(u)
      /\ job'[t] = Idle /\ Locked(t)' = {} /\ \A q \in Requests : requestLock'[q] # t
  BY ReleasedStep
<1>3. Sound(t)'
  BY <1>2, IdleIsJob DEF Sound, Orderly, AdmissionCurrent, SettlementCurrent, Todo
<1>4. ASSUME NEW u \in Transactions, u # t PROVE Sound(u)'
  <2>1. Unmoved(u)
    BY <1>2, <1>4
  <2> QED
    BY <1>4, <2>1, OthersUntouched
<1> QED
  BY <1>1, <1>2, <1>3, <1>4 DEF LocksIInv

\* An admission commits what Admit says of the rows as they are by then.
LEMMA CommitAdmitStep ==
  ASSUME LocksIInv, NEW t \in Transactions, CommitAdmit(t)
  PROVE  LocksIInv' /\ Next
<1>1. TypeOK /\ ThisMonth /\ Orderly(t) /\ AdmissionCurrent(t) /\ job[t].held \subseteq Accounts
  BY LocksParts
<1>2. PICK held, amount, spend, balance :
        held = job[t].held /\ amount = job[t].amount /\ spend = job[t].spend
        /\ balance = job[t].balance
  OBVIOUS
<1>3. PICK r \in job[t].request :
        /\ job[t].stage = "inserted"
        /\ opened' = opened \cup held
        /\ seed' = [a \in Accounts |->
                      IF a \in held \ opened THEN spend[a[1]] ELSE seed[a]]
        /\ committed' = [a \in Accounts |->
                           IF a \in held THEN balance[a] ELSE committed[a]]
        /\ admitted' = admitted \cup {r}
        /\ charge' = [charge EXCEPT ![r] = Reserved(amount, held)]
        /\ Release(t) /\ UNCHANGED <<month, limits, releasing, overrun>>
  BY <1>2 DEF CommitAdmit
<1>4. r \in Requests
  BY <1>1, <1>3 DEF Orderly
<1>5. requestLock[r] = t /\ r \notin admitted /\ Todo(t) = {}
  BY <1>1, <1>3 DEF AdmissionCurrent
<1>6. held = Locked(t)
  BY <1>1, <1>2, <1>5 DEF Orderly, Todo
<1>7. PICK budgets \in SUBSET Policies : budgets # {} /\ held = Held(budgets)
  BY <1>1, <1>2, <1>3 DEF AdmissionCurrent
<1>8. /\ spend \in [Policies -> Spends] /\ amount \in Amounts
      /\ \A a \in held : /\ balance[a] = Balance(a, spend) + amount
                         /\ \E limit \in limits[a[1]] : balance[a] <= limit
  BY <1>1, <1>2, <1>3, <1>6 DEF AdmissionCurrent
<1>9. Fits(budgets, amount, spend)
  BY <1>7, <1>8 DEF Fits
<1>10. committed' = [a \in Accounts |->
                       IF a \in held THEN Balance(a, spend) + amount ELSE committed[a]]
  BY <1>3, <1>8
<1>11. Admit(r, budgets, amount, spend)
  BY <1>3, <1>5, <1>7, <1>9, <1>10 DEF Admit
<1>12. Next
  BY <1>4, <1>8, <1>11 DEF Next
<1>13. ThisMonth'
  <2>1. \A a \in held : a[2] = month
    BY <1>1, <1>2 DEF Orderly
  <2>2. charge'[r].accounts = held
    BY <1>1, <1>3, <1>4 DEF TypeOK, Reserved
  <2>3. \A q \in Requests : q # r => charge'[q] = charge[q]
    BY <1>1, <1>3, <1>4 DEF TypeOK
  <2> QED
    BY <1>1, <1>3, <2>1, <2>2, <2>3 DEF ThisMonth
<1>14. \A a \in Accounts : accountLock[a] # t =>
         committed'[a] = committed[a] /\ (a \in opened' <=> a \in opened)
  BY <1>1, <1>3, <1>6 DEF Locked, TypeOK
<1>15. \A q \in Requests : q # r =>
         charge'[q] = charge[q] /\ (q \in admitted' <=> q \in admitted)
  BY <1>1, <1>3, <1>4 DEF TypeOK
<1> QED
  BY <1>3, <1>4, <1>5, <1>12, <1>13, <1>14, <1>15, CommitStep

\* A settlement commits what one of the callers of _settle says.
LEMMA CommitSettleStep ==
  ASSUME LocksIInv, NEW t \in Transactions, CommitSettle(t)
  PROVE  LocksIInv' /\ Next
<1>1. TypeOK /\ ThisMonth /\ Orderly(t) /\ SettlementCurrent(t) /\ job[t].held \subseteq Accounts
  BY LocksParts
<1>2. PICK held, balance, after, change :
        held = job[t].held /\ balance = job[t].balance /\ after = job[t].after
        /\ change = Delta(t)
  OBVIOUS
<1>3. PICK r \in job[t].request :
        /\ job[t].stage = "settle" /\ Todo(t) = {}
        /\ charge' = [charge EXCEPT ![r] = after]
        /\ committed' = [a \in Accounts |->
                           IF a \in held THEN balance[a] ELSE committed[a]]
        /\ overrun' = [a \in Accounts |->
                         IF a \in held THEN overrun[a] + Larger(0, change) ELSE overrun[a]]
        /\ Release(t)
        /\ UNCHANGED <<month, limits, releasing, opened, admitted, seed>>
  BY <1>2 DEF CommitSettle
<1>4. r \in Requests /\ job[t].request = {r}
  BY <1>1, <1>3 DEF Orderly
<1>5. change = Change(r, after)
  BY <1>2, <1>4, DeltaIsChange
<1>6. held = Locked(t)
  BY <1>1, <1>2, <1>3 DEF Orderly, Todo
<1>7. /\ requestLock[r] = t /\ r \in admitted /\ ~ProviderSettled(charge[r])
      /\ Answers(r, after) /\ held = IF change # 0 THEN charge[r].accounts ELSE {}
      /\ \A a \in held : balance[a] = Larger(0, committed[a] + change)
  BY <1>1, <1>2, <1>3, <1>5, <1>6 DEF SettlementCurrent
<1>8. change \in Int /\ after.accounts = charge[r].accounts
  BY <1>1, <1>4, <1>5, <1>7, AnswersType
<1>9. committed' = [a \in Accounts |->
                      IF a \in charge[r].accounts
                      THEN Larger(0, committed[a] + change) ELSE committed[a]]
  <2>1. CASE change # 0
    BY <1>3, <1>7, <2>1
  <2>2. CASE change = 0
    <3>1. \A a \in Accounts : Larger(0, committed[a] + change) = committed[a]
      BY <1>1, <2>2 DEF TypeOK, Larger
    <3>2. committed' = [a \in Accounts |-> committed[a]]
      BY <1>3, <1>7, <2>2
    <3> QED
      BY <3>1, <3>2
  <2> QED
    BY <2>1, <2>2
<1>10. overrun' = [a \in Accounts |->
                     IF a \in charge[r].accounts
                     THEN overrun[a] + Larger(0, change) ELSE overrun[a]]
  <2>1. CASE change # 0
    BY <1>3, <1>7, <2>1
  <2>2. CASE change = 0
    <3>1. \A a \in Accounts : overrun[a] + Larger(0, change) = overrun[a]
      BY <1>1, <2>2 DEF TypeOK, Larger
    <3>2. overrun' = [a \in Accounts |-> overrun[a]]
      BY <1>3, <1>7, <2>2
    <3> QED
      BY <3>1, <3>2
  <2> QED
    BY <2>1, <2>2
<1>11. ASSUME NEW actual, NEW source, NEW reconciled,
              after = Settled(charge[r], actual, source, reconciled)
       PROVE  Settle(r, actual, source, reconciled)
  BY <1>3, <1>5, <1>9, <1>10, <1>11 DEF Settle, Change
<1>12. PICK cost \in Costs :
         \/ cost <= charge[r].amount /\ after = Settled(charge[r], cost, "provider", TRUE)
         \/ after = Settled(charge[r], 0, "provider", TRUE)
         \/ /\ charge[r].source = "none" \/ Larger(cost, charge[r].actual) # charge[r].actual
            /\ after = Settled(charge[r], Larger(cost, charge[r].actual), "reported",
                               ReleasesOnReportedUsage(charge[r]))
  BY <1>7 DEF Answers
<1>13. ReconcileCharge(r, cost) \/ CancelCharge(r) \/ ReconcileReportedUsage(r, cost)
  <2>1. CASE cost <= charge[r].amount /\ after = Settled(charge[r], cost, "provider", TRUE)
    BY <1>7, <1>11, <2>1 DEF ReconcileCharge
  <2>2. CASE after = Settled(charge[r], 0, "provider", TRUE)
    BY <1>7, <1>11, <2>2 DEF CancelCharge
  <2>3. CASE /\ charge[r].source = "none" \/ Larger(cost, charge[r].actual) # charge[r].actual
             /\ after = Settled(charge[r], Larger(cost, charge[r].actual), "reported",
                                ReleasesOnReportedUsage(charge[r]))
    BY <1>7, <1>11, <2>3 DEF ReconcileReportedUsage
  <2> QED
    BY <1>12, <2>1, <2>2, <2>3
<1>14. Next
  BY <1>4, <1>13 DEF Next
<1>15. \A q \in Requests : q # r => charge'[q] = charge[q]
  BY <1>1, <1>3, <1>4 DEF TypeOK
<1>16. ThisMonth'
  <2>1. charge'[r].accounts = charge[r].accounts
    BY <1>1, <1>3, <1>4, <1>8 DEF TypeOK
  <2> QED
    BY <1>1, <1>3, <1>15, <2>1 DEF ThisMonth
<1>17. \A a \in Accounts : accountLock[a] # t => committed'[a] = committed[a]
  BY <1>1, <1>3, <1>6 DEF Locked, TypeOK
<1> QED
  BY <1>3, <1>4, <1>7, <1>14, <1>15, <1>16, <1>17, CommitStep

\* Every step keeps the invariant, and is a step of Budget or moves no row.
LEMMA LocksStep == LocksIInv /\ [LocksNext]_lockRows => LocksIInv' /\ [Next]_vars
<1> SUFFICES ASSUME LocksIInv, [LocksNext]_lockRows PROVE LocksIInv' /\ [Next]_vars
  OBVIOUS
<1>1. ASSUME NEW t \in Transactions, NEW r \in Requests, NEW budgets \in SUBSET Policies,
             NEW amount \in Amounts, NEW spend \in [Policies -> Spends],
             BeginAdmit(t, r, budgets, amount, spend)
      PROVE  LocksIInv' /\ [Next]_vars
  BY <1>1, BeginAdmitStep DEF BeginAdmit, rowVars, vars
<1>2. ASSUME NEW t \in Transactions, LockAccount(t)
      PROVE  LocksIInv' /\ [Next]_vars
  BY <1>2, LockAccountStep DEF LockAccount, rowVars, vars
<1>3. ASSUME NEW t \in Transactions, InsertCharge(t)
      PROVE  LocksIInv' /\ [Next]_vars
  BY <1>3, InsertChargeStep DEF InsertCharge, rowVars, vars
<1>4. ASSUME NEW t \in Transactions, CommitAdmit(t)
      PROVE  LocksIInv' /\ [Next]_vars
  BY <1>4, CommitAdmitStep
<1>5. ASSUME NEW t \in Transactions, NEW r \in Requests, NEW cost \in Costs,
             BeginSettle(t, r, cost)
      PROVE  LocksIInv' /\ [Next]_vars
  BY <1>5, BeginSettleStep DEF BeginSettle, LockCharge, rowVars, vars
<1>6. ASSUME NEW t \in Transactions, SettleAccount(t)
      PROVE  LocksIInv' /\ [Next]_vars
  BY <1>6, SettleAccountStep DEF SettleAccount, rowVars, vars
<1>7. ASSUME NEW t \in Transactions, CommitSettle(t)
      PROVE  LocksIInv' /\ [Next]_vars
  BY <1>7, CommitSettleStep
<1>8. ASSUME NEW t \in Transactions, Rollback(t)
      PROVE  LocksIInv' /\ [Next]_vars
  BY <1>8, RollbackStep DEF Rollback, rowVars, vars
<1>9. CASE UNCHANGED lockRows
  <2>1. UNCHANGED rowVars /\ UNCHANGED lockVars
    BY <1>9 DEF lockRows
  <2>2. LockTypes'
    BY <2>1 DEF lockVars, LockTypes, LocksIInv
  <2>3. \A u \in Transactions : Unmoved(u)
    BY <2>1 DEF lockVars, Unmoved
  <2>4. \A u \in Transactions : Sound(u)'
    BY <2>1, <2>3, OthersUnmoved DEF LocksIInv
  <2>5. TypeOK' /\ ThisMonth'
    BY <2>1 DEF LocksIInv, TypeOK, ThisMonth, rowVars
  <2>6. UNCHANGED vars
    BY <2>1 DEF rowVars, vars
  <2> QED
    BY <2>2, <2>4, <2>5, <2>6 DEF LocksIInv
<1> QED
  BY <1>1, <1>2, <1>3, <1>4, <1>5, <1>6, <1>7, <1>8, <1>9 DEF LocksNext

\* Any interleaving of the row-locked transactions is one of the atomic
\* transactions of Budget: whatever admit() and _settle read after locking a
\* row and before their commit, the commit is right of the rows as they are
\* then, so Budget's theorems are about the code's transactions.
THEOREM TransactionsAreAtomic == LocksSpec => AtomicTransactions
<1>1. LocksInit => Init
  BY DEF LocksInit
<1> QED
  BY <1>1, LocksInitInv, LocksStep, PTL DEF LocksSpec, AtomicTransactions, Spec, lockRows

\* A transaction that waits for a row held by one that waits itself waits for
\* an account, and the other for a higher one.
LEMMA WaitersClimb ==
  ASSUME LocksIInv, NEW t \in Transactions, NEW u \in Transactions,
         u \in Blockers(t), Blockers(u) # {}
  PROVE  /\ Todo(t) # {} /\ accountLock[NextAccount(t)] = u
         /\ Todo(u) # {} => NextAccount(t)[1] < NextAccount(u)[1]
<1>1. Orderly(t) /\ Orderly(u) /\ SettlementCurrent(u)
  BY LocksParts
<1>2. u # Nobody
  BY LocksAssumption
<1>3. job[t].stage \in {"accounts", "settle"} /\ Todo(t) # {}
  <2>1. SUFFICES ASSUME job[t].stage = "accounts", Todo(t) = {},
                        u \in {requestLock[r] : r \in job[t].request \ admitted}
                 PROVE  FALSE
    BY DEF Blockers
  <2>2. PICK r \in Requests : r \notin admitted /\ requestLock[r] = u
    BY <1>1, <2>1 DEF Orderly
  <2>3. job[u].stage = "settle" /\ job[u].request = {r}
    BY <1>1, <2>2 DEF Orderly, Blockers
  <2> QED
    BY <1>1, <2>2, <2>3 DEF SettlementCurrent
<1>4. accountLock[NextAccount(t)] = u
  BY <1>3 DEF Blockers
<1>5. NextAccount(t) \in Locked(u)
  BY <1>3, <1>4, NextIsLowest DEF Locked
<1>6. ASSUME Todo(u) # {} PROVE NextAccount(t)[1] < NextAccount(u)[1]
  <2>1. NextAccount(u) \in Todo(u)
    BY <1>6, NextIsLowest
  <2> QED
    BY <1>1, <1>5, <2>1 DEF Orderly
<1> QED
  BY <1>3, <1>4, <1>6

\* The policies still above the account t waits for.
Above(t) == {q \in Policies : NextAccount(t)[1] < q}

LEMMA AboveShrinks ==
  ASSUME LocksIInv, NEW t \in Transactions, NEW u \in Transactions,
         Todo(t) # {}, Todo(u) # {}, NextAccount(t)[1] < NextAccount(u)[1]
  PROVE  /\ Cardinality(Above(t)) \in Nat /\ Cardinality(Above(u)) \in Nat
         /\ Cardinality(Above(u)) < Cardinality(Above(t))
<1>1. NextAccount(t)[1] \in Policies /\ NextAccount(u)[1] \in Policies
  BY NextIsLowest DEF Accounts
<1>2. \A p \in Policies : p \in Nat
  BY LocksAssumption
<1>3. Above(u) \subseteq Above(t) /\ NextAccount(u)[1] \in Above(t) \ Above(u)
  BY <1>1, <1>2 DEF Above
<1>4. IsFiniteSet(Above(t)) /\ IsFiniteSet(Above(u))
  BY FS_Subset, LocksAssumption DEF Above
<1>5. /\ Cardinality(Above(u)) <= Cardinality(Above(t))
      /\ Cardinality(Above(u)) = Cardinality(Above(t)) => Above(u) = Above(t)
  BY <1>3, <1>4, FS_Subset
<1>6. Cardinality(Above(t)) \in Nat /\ Cardinality(Above(u)) \in Nat
  BY <1>4, FS_CardinalityType
<1> QED
  BY <1>3, <1>5, <1>6

\* Of any transactions that all wait, the one with the fewest policies above
\* the account it waits for waits for none of the others.
LEMMA NoCycle == LocksIInv => NoLockCycle
<1> SUFFICES ASSUME LocksIInv, NEW waiting \in SUBSET Transactions, waiting # {},
                    \A t \in waiting : Blockers(t) \cap waiting # {}
             PROVE  FALSE
  BY DEF NoLockCycle
<1>1. ASSUME NEW t \in waiting
      PROVE  \E u \in waiting : /\ Todo(t) # {} /\ u \in Blockers(t)
                                /\ Todo(u) # {} => NextAccount(t)[1] < NextAccount(u)[1]
  <2>1. PICK u \in waiting : u \in Blockers(t)
    OBVIOUS
  <2>2. Blockers(u) # {}
    OBVIOUS
  <2> QED
    BY <2>1, <2>2, WaitersClimb
<1>2. ASSUME NEW t \in waiting
      PROVE  \E u \in waiting : /\ Cardinality(Above(t)) \in Nat
                                /\ Cardinality(Above(u)) < Cardinality(Above(t))
  <2>1. PICK u \in waiting : Todo(t) # {} /\ NextAccount(t)[1] < NextAccount(u)[1]
    BY <1>1
  <2>2. Todo(u) # {}
    BY <1>1
  <2> QED
    BY <2>1, <2>2, AboveShrinks
<1> DEFINE S == {Cardinality(Above(t)) : t \in waiting}
<1>3. S \in SUBSET Nat /\ S # {}
  BY <1>2
<1>4. PICK m \in S : \A n \in S : m <= n
  BY <1>3, LeastNumber
<1>5. PICK t \in waiting : m = Cardinality(Above(t))
  BY <1>4
<1>6. PICK u \in waiting : Cardinality(Above(u)) < Cardinality(Above(t))
  BY <1>2
<1>7. Cardinality(Above(t)) <= Cardinality(Above(u))
  BY <1>4, <1>5
<1>8. Cardinality(Above(t)) \in Nat /\ Cardinality(Above(u)) \in Nat
  BY <1>2
<1> QED
  BY <1>6, <1>7, <1>8

\* However admissions and settlements interleave, no circle of them waits for
\* row locks: accounts are locked in policy order, and who holds a charge row
\* others wait for waits for nothing they hold.
THEOREM LocksFormNoCycle == LocksSpec => []NoLockCycle
BY LocksInitInv, LocksStep, NoCycle, PTL DEF LocksSpec, lockRows

\* So the locked transactions keep every account's ledger, and overspend none.
COROLLARY LockedTransactionsKeepBudgets == LocksSpec => [](LedgerBalance /\ NoOverspend)
BY TransactionsAreAtomic, LedgerBalances, AdmissionNeverOverspends, PTL
  DEF AtomicTransactions

=============================================================================
