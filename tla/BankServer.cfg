\* Two customers, two accounts, and integers of two bits: -2 .. 1.
CONSTANTS
    Customers = {c1, c2}
    Requests = {r1}
    MaxInt = 1
    Amounts = {1}
    MaxAccounts = 2
    MaxTransactions = 3
    MaxRestarts = 1
    MaxSaves = 1
SYMMETRY Symmetry
SPECIFICATION Spec
INVARIANTS
    TypeOK
    MoneyNotCreated
    ListedOnce
    FinalSaveIsComplete
