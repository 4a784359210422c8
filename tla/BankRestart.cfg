\* What does a restart give back?
CONSTANTS
    Customers = {c1, c2}
    Requests = {r1}
    MaxInt = 1
    Amounts = {1}
    MaxAccounts = 2
    MaxTransactions = 2
    MaxRestarts = 1
    MaxSaves = 1
SPECIFICATION Spec
INVARIANT
    BalanceIsRestored
