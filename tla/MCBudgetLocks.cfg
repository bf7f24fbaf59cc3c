SPECIFICATION LocksSpec
CONSTANTS
  Policies = {1, 2}
  Requests = {r1, r2}
  Months = {1}
  Limits = {4}
  Amounts = {2}
  Costs = {1, 3}
  Spends = {1}
  Transactions = {t1, t2, t3}
  Nobody = Nobody
SYMMETRY Symmetry
INVARIANT NoLockCycle
PROPERTY AtomicTransactions
