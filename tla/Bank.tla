--------------------------------- MODULE Bank ---------------------------------
(***************************************************************************)
(* The accounts of the demo bank (bankdemo/db.go) and the handlers that    *)
(* work on them (bankdemo/bank.go).  A handler holds a lock for one step   *)
(* at a time: it looks its accounts up, and changes each of them later.    *)
(***************************************************************************)
EXTENDS Integers, Sequences, FiniteSets, Functions

CONSTANTS
    Customers,          \* customers that send requests
    Requests,           \* the requests that may be in progress together
    MaxInt,             \* the largest amount: 2^31 - 1 for int32
    Amounts,            \* amounts that are asked for
    MaxAccounts,        \* bound on the accounts opened or loaded
    MaxTransactions     \* bound: no request begins when there are so many

\* Withdraw also lets -2^31 pass, one more than MaxInt: newTransaction refuses it
\* whatever the balance is, so that it is left out.
ASSUME BankAssumption ==
    /\ IsFiniteSet(Requests)
    /\ MaxInt \in Nat
    /\ Amounts \subseteq 1 .. MaxInt
    /\ MaxAccounts \in Nat
    /\ MaxTransactions \in Nat

VARIABLES
    customers,      \* Customers, in the order they came
    lists,          \* AccountNumbersByCustomer, each a slice
    arrays,         \* the arrays behind these slices, old ones included
    byNumber,       \* AccountsByNumber, each a pointer
    objects,        \* the accounts, closed ones included
    lastNum,        \* LastAccountNum
    request,        \* where each request is
    paidIn          \* money that came from outside, less what went there

listVars == <<customers, lists, arrays>>
accountVars == <<byNumber, objects, lastNum>>
bankVars == <<listVars, accountVars, request, paidIn>>

Nil == 0                    \* no pointer, no array
External == 0               \* an account with another bank
Number == 1 .. MaxAccounts
Slice == [array : Nat, len : Nat]

\* loaded: how many of the transactions were read from the file.
Account == [balance : 0 .. MaxInt, txns : Seq(Int), loaded : Nat]

Idle == [step |-> "idle"]
Request == [step : {"source", "dest", "debit", "credit"},
            op : {"deposit", "withdraw", "transfer"},
            customer : Customers,
            from : Number \cup {External}, to : Number \cup {External},
            amount : 1 .. MaxInt,
            src : Nat, dst : Nat]

Known == DOMAIN lists

BankTypeOK ==
    /\ customers \in Seq(Customers)
    /\ Known = Range(customers)
    /\ lists \in [Known -> Slice]
    /\ arrays \in Seq(Seq(Nat))
    /\ byNumber \in [DOMAIN byNumber -> DOMAIN objects]
    /\ DOMAIN byNumber \subseteq Number
    /\ objects \in Seq(Account)
    /\ lastNum \in Number \cup {0}
    /\ request \in [Requests -> Request \cup {Idle}]
    /\ paidIn \in Int

NoAccounts ==
    /\ customers = <<>>
    /\ lists = <<>>
    /\ arrays = <<>>
    /\ byNumber = <<>>
    /\ objects = <<>>
    /\ lastNum = 0
    /\ request = [r \in Requests |-> Idle]
    /\ paidIn = 0

\* All of it is lost with the process.
LoseAccounts ==
    /\ customers' = <<>>
    /\ lists' = <<>>
    /\ arrays' = <<>>
    /\ byNumber' = <<>>
    /\ objects' = <<>>
    /\ lastNum' = 0
    /\ request' = [r \in Requests |-> Idle]
    /\ paidIn' = 0
-------------------------------------------------------------------------------
(* Slices.  append writes into spare room of an array that older slices may *)
(* share; only without such room does it copy to one of twice the size.     *)

NumbersOf(s) == IF s.array = Nil THEN <<>> ELSE SubSeq(arrays[s.array], 1, s.len)
Numbers(c) == IF c \in Known THEN NumbersOf(lists[c]) ELSE <<>>
Owns(c, n) == n \in Range(Numbers(c))

HasRoom(s) == s.array # Nil /\ s.len < Len(arrays[s.array])

Grown(numbers) ==
    [i \in 1 .. (IF numbers = <<>> THEN 1 ELSE 2 * Len(numbers)) |->
        IF i <= Len(numbers) THEN numbers[i] ELSE 0]

AppendNumber(c, n) ==
    LET s == IF c \in Known THEN lists[c] ELSE [array |-> Nil, len |-> 0]
        t == [array |-> IF HasRoom(s) THEN s.array ELSE Len(arrays) + 1,
              len |-> s.len + 1]
    IN  /\ lists' = [d \in Known \cup {c} |-> IF d = c THEN t ELSE lists[d]]
        /\ arrays' = IF HasRoom(s)
                     THEN [arrays EXCEPT ![s.array][t.len] = n]
                     ELSE Append(arrays, [Grown(NumbersOf(s)) EXCEPT ![t.len] = n])

\* append(nums[:i], nums[i+1:]...) moves what follows within the same array.
RemoveNumber(c, i) ==
    /\ lists' = [lists EXCEPT ![c].len = @ - 1]
    /\ arrays' = [arrays EXCEPT ![lists[c].array] =
                     [j \in DOMAIN @ |-> IF j \in i .. lists[c].len - 1
                                         THEN @[j + 1] ELSE @[j]]]
-------------------------------------------------------------------------------
(* Opening and closing accounts, under the lock of all accounts. *)

OpenAccount(c, initial) ==
    /\ Len(objects) < MaxAccounts
    /\ lastNum' = lastNum + 1
    /\ customers' = IF c \in Known THEN customers ELSE Append(customers, c)
    /\ AppendNumber(c, lastNum')
    /\ objects' = Append(objects, [balance |-> initial, txns |-> <<initial>>,
                                   loaded |-> 0])
    /\ byNumber' = [n \in DOMAIN byNumber \cup {lastNum'} |->
                       IF n = lastNum' THEN Len(objects') ELSE byNumber[n]]
    /\ paidIn' = paidIn + initial
    /\ UNCHANGED request

\* Mutant of CloseAccount: the account stays in the map.
CloseListOnly(c, n) ==
    /\ n \in DOMAIN byNumber
    /\ objects[byNumber[n]].balance = 0
    /\ \E i \in DOMAIN Numbers(c) :
          /\ Numbers(c)[i] = n
          /\ \A j \in 1 .. i - 1 : Numbers(c)[j] # n
          /\ RemoveNumber(c, i)
    /\ UNCHANGED <<customers, byNumber, objects, lastNum, request, paidIn>>

\* The balance is read without the lock of the account.
CloseAccount(c, n) ==
    /\ n \in DOMAIN byNumber
    /\ objects[byNumber[n]].balance = 0
    /\ \E i \in DOMAIN Numbers(c) :
          /\ Numbers(c)[i] = n
          /\ \A j \in 1 .. i - 1 : Numbers(c)[j] # n
          /\ RemoveNumber(c, i)
    /\ byNumber' = [m \in DOMAIN byNumber \ {n} |-> byNumber[m]]
    /\ UNCHANGED <<customers, objects, lastNum, request, paidIn>>
-------------------------------------------------------------------------------
(* Deposits, withdrawals and transfers.  A deposit is a transfer from       *)
(* outside, a withdrawal one to the outside.                                *)

\* A transfer from outside to outside is accepted and changes nothing: left out.
RequestIsValid(op, from, to) ==
    CASE op = "deposit"  -> from = External /\ to # External
      [] op = "withdraw" -> from # External /\ to = External
      [] op = "transfer" -> from # External \/ to # External

Begin(r, op, c, from, to, amount) ==
    /\ request[r] = Idle
    /\ RequestIsValid(op, from, to)
    /\ request' = [request EXCEPT ![r] =
          [step |-> IF from = External THEN "dest" ELSE "source", op |-> op,
           customer |-> c, from |-> from, to |-> to, amount |-> amount,
           src |-> Nil, dst |-> Nil]]
    /\ UNCHANGED <<listVars, accountVars, paidIn>>

\* getAccount: an own account, which may be nil; otherwise the request fails.
Pointer(n) == IF n \in DOMAIN byNumber THEN byNumber[n] ELSE Nil

FindSource(r) ==
    LET q == request[r]
    IN  /\ q.step = "source"
        /\ request' = [request EXCEPT ![r] =
              IF Owns(q.customer, q.from)
              THEN [q EXCEPT !.src = Pointer(q.from),
                             !.step = IF q.to = External THEN "debit" ELSE "dest"]
              ELSE Idle]
        /\ UNCHANGED <<listVars, accountVars, paidIn>>

FindDest(r) ==
    LET q == request[r]
    IN  /\ q.step = "dest"
        /\ request' = [request EXCEPT ![r] =
              IF Owns(q.customer, q.to)
              THEN [q EXCEPT !.dst = Pointer(q.to),
                             !.step = IF q.from = External THEN "credit" ELSE "debit"]
              ELSE Idle]
        /\ UNCHANGED <<listVars, accountVars, paidIn>>

\* int32 addition.
Wrap(i) == ((i + MaxInt + 1) % (2 * (MaxInt + 1))) - (MaxInt + 1)

\* newTransaction, under the lock of the account: refused if the new balance is
\* negative.  Mutant: there is no such test.
AcceptsAll(o, amount) == TRUE
Accepts(o, amount) == Wrap(objects[o].balance + amount) >= 0

NewTransaction(o, amount) ==
    objects' = [objects EXCEPT ![o].balance = Wrap(@ + amount),
                               ![o].txns = Append(@, amount)]

\* Mutant: the transfer goes on when the debit was refused.
DebitUnchecked(r) ==
    /\ request[r].step = "debit"
    /\ request[r].src # Nil
    /\ IF Accepts(request[r].src, -request[r].amount)
       THEN NewTransaction(request[r].src, -request[r].amount)
       ELSE UNCHANGED objects
    /\ request' = [request EXCEPT ![r] =
                      IF @.to = External THEN Idle ELSE [@ EXCEPT !.step = "credit"]]
    /\ paidIn' = IF request[r].to = External /\ Accepts(request[r].src, -request[r].amount)
                 THEN paidIn - request[r].amount ELSE paidIn
    /\ UNCHANGED <<listVars, byNumber, lastNum>>

\* A transfer whose source is nil is not debited at all.
Debit(r) ==
    LET q == request[r]
        after == IF q.to = External THEN Idle ELSE [q EXCEPT !.step = "credit"]
    IN  /\ q.step = "debit"
        /\ \/ /\ q.src # Nil /\ Accepts(q.src, -q.amount)
              /\ NewTransaction(q.src, -q.amount)
              /\ paidIn' = IF q.to = External THEN paidIn - q.amount ELSE paidIn
              /\ request' = [request EXCEPT ![r] = after]
           \/ /\ q.src # Nil /\ ~Accepts(q.src, -q.amount)
              /\ request' = [request EXCEPT ![r] = Idle]
              /\ UNCHANGED <<objects, paidIn>>
           \/ /\ q.src = Nil /\ q.op = "transfer"
              /\ request' = [request EXCEPT ![r] = after]
              /\ UNCHANGED <<objects, paidIn>>
        /\ UNCHANGED <<listVars, byNumber, lastNum>>

\* A credit that is refused does not give the source its money back.
Credit(r) ==
    LET q == request[r]
    IN  /\ q.step = "credit"
        /\ \/ /\ q.dst # Nil /\ Accepts(q.dst, q.amount)
              /\ NewTransaction(q.dst, q.amount)
              /\ paidIn' = IF q.from = External THEN paidIn + q.amount ELSE paidIn
           \/ /\ q.dst # Nil /\ ~Accepts(q.dst, q.amount)
              /\ UNCHANGED <<objects, paidIn>>
           \/ /\ q.dst = Nil /\ q.op = "transfer"
              /\ UNCHANGED <<objects, paidIn>>
        /\ request' = [request EXCEPT ![r] = Idle]
        /\ UNCHANGED <<listVars, byNumber, lastNum>>

\* Code that uses a nil account: a panic, which no handler recovers.
ClosePanics(c, n) == Owns(c, n) /\ n \notin DOMAIN byNumber
RequestPanics(r) ==
    \/ request[r].step = "debit" /\ request[r].op = "withdraw" /\ request[r].src = Nil
    \/ request[r].step = "credit" /\ request[r].op = "deposit" /\ request[r].dst = Nil

Listed == UNION {Range(Numbers(c)) : c \in Known}
InProgress == {r \in Requests : request[r] # Idle}
-------------------------------------------------------------------------------
(* Parts of the properties. *)

Sum(s) == FoldFunction(+, 0, s)
Total == Sum([o \in DOMAIN objects |-> objects[o].balance])

\* Money that has left its source and not reached its destination.
InTransit ==
    Sum([r \in Requests |->
            IF request[r].step = "credit" /\ request[r].from # External
            THEN request[r].amount ELSE 0])
-------------------------------------------------------------------------------
(* Inductive invariants behind the theorems of BankProofs. *)

\* A slice lies in its array, one of some, and account numbers lie in it.
Valid(s, some) ==
    /\ s.array \in DOMAIN some
    /\ s.len \in 0 .. Len(some[s.array])
    /\ \A i \in 1 .. s.len : some[s.array][i] \in Number

\* No two customers share an array, so that neither writes into the other's list.
SliceInv ==
    /\ \A c \in Known : Valid(lists[c], arrays)
    /\ \A c, d \in Known : lists[c].array = lists[d].array => c = d

\* Pointers of requests are nil or point to an account, also to a closed one.
\* Accounts are numbered in the order they are opened.
AccountInv ==
    /\ lastNum <= Len(objects)
    /\ \A r \in InProgress :
          {request[r].src, request[r].dst} \subseteq DOMAIN objects \cup {Nil}

\* newTransaction keeps a balance that the account's transactions add up to.
BalanceInv ==
    \A o \in DOMAIN objects :
        LET a == objects[o]
        IN  /\ a.loaded <= Len(a.txns)
            /\ a.balance = Sum(SubSeq(a.txns, a.loaded + 1, Len(a.txns)))
===============================================================================
