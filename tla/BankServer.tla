------------------------------ MODULE BankServer ------------------------------
(***************************************************************************)
(* The demo bank as a process (bankdemo/main.go): its accounts live in     *)
(* memory; every few seconds and after a graceful stop a clone of them is  *)
(* written to the data file, which the next start reads.                   *)
(***************************************************************************)
EXTENDS Bank

CONSTANTS
    MaxRestarts,        \* bound on the restarts explored
    MaxSaves            \* bound on the saves that bgSaver begins

ASSUME ServerAssumption == MaxRestarts \in Nat /\ MaxSaves \in Nat

VARIABLES
    mode,       \* "up", "stopping", "flushing" or "down"
    restarts,   \* restarts so far
    saves,      \* times bgSaver has begun to save
    saver,      \* the calls of flush by bgSaver, "bg", and by "main"
    file        \* the data file

processVars == <<mode, restarts, saves>>
vars == <<bankVars, processVars, saver, file>>

Savers == {"bg", "main"}
Resting == [step |-> "idle"]

\* What a clone holds when it is marshalled.
IsClone(d) ==
    /\ d.customers \in Seq(Customers)
    /\ d.lists \in [Range(d.customers) -> Seq(Number)]
    /\ DOMAIN d.txns \subseteq Number
    /\ d.txns \in [DOMAIN d.txns -> Seq(Int)]

\* clone at work: the customers and the slices it has read, its place in the last
\* of them, the account at hand and the transactions read, of the accounts read.
Cloning(read) ==
    [step : {"numbers", "account", "txns", "marshal"}, names : Seq(Customers),
     slices : Seq(Slice), done : Nat, at : Nat, account : Nat,
     number : Number \cup {0}, txns : [read -> Seq(Int)]]

IsSaving(s) ==
    \/ /\ \E read \in SUBSET Number : s \in Cloning(read)
       /\ Len(s.slices) = s.done
    \/ s.step = "write" /\ IsClone(s.clone)

TypeOK ==
    /\ BankTypeOK
    /\ mode \in {"up", "stopping", "flushing", "down"}
    /\ restarts \in 0 .. MaxRestarts
    /\ saves \in 0 .. MaxSaves
    /\ DOMAIN saver = Savers
    /\ \A f \in Savers : saver[f] = Resting \/ IsSaving(saver[f])
    /\ \/ file.state \in {"empty", "torn"}
       \/ file.state = "saved" /\ IsClone(file.clone)

Empty == [state |-> "empty"]
Torn == [state |-> "torn"]
Saved(d) == [state |-> "saved", clone |-> d]

Init ==
    /\ NoAccounts
    /\ mode = "up"
    /\ restarts = 0
    /\ saves = 0
    /\ saver = [f \in Savers |-> Resting]
    /\ file = Empty
-------------------------------------------------------------------------------
(* Requests.  A graceful stop lets those in progress finish. *)

Transactions == Sum([o \in DOMAIN objects |-> Len(objects[o].txns)])

OpenSome ==
    /\ Transactions < MaxTransactions
    /\ \E c \in Customers, initial \in Amounts \cup {0} : OpenAccount(c, initial)

CloseSome == \E c \in Customers, n \in Number : CloseAccount(c, n)

BeginSome ==
    /\ Transactions < MaxTransactions
    /\ \E r \in Requests, op \in {"deposit", "withdraw", "transfer"}, c \in Customers,
          from, to \in Number \cup {External}, a \in Amounts :
             Begin(r, op, c, from, to, a)

Accept ==
    /\ mode = "up"
    /\ OpenSome \/ CloseSome \/ BeginSome
    /\ UNCHANGED <<processVars, saver, file>>

\* A request that was accepted goes on as long as the process lives.
Handle ==
    /\ \E r \in Requests :
          FindSource(r) \/ FindDest(r) \/ Debit(r) \/ Credit(r)
    /\ UNCHANGED <<processVars, saver, file>>

GracefulStop ==
    /\ mode = "up"
    /\ mode' = "stopping"
    /\ UNCHANGED <<bankVars, restarts, saves, saver, file>>

\* GracefulStop and Serve return; main goes on to its own flush.
\* Mutant: the server is stopped without waiting for its requests.
StopNow ==
    /\ mode = "stopping"
    /\ mode' = "flushing"
    /\ UNCHANGED <<bankVars, restarts, saves, saver, file>>
Stopped ==
    /\ mode = "stopping"
    /\ InProgress = {}
    /\ mode' = "flushing"
    /\ UNCHANGED <<bankVars, restarts, saves, saver, file>>
-------------------------------------------------------------------------------
(* flush: clone, json.Marshal, os.WriteFile.  clone takes the locks anew for *)
(* each read.  bgSaver may still begin to save after main's cancel.          *)

Save(f, s) ==
    /\ saver' = [saver EXCEPT ![f] = s]
    /\ UNCHANGED <<bankVars, mode, restarts>>

\* What comes next: an account of the customer at hand, another customer, or
\* the file.
Proceed(s) ==
    [s EXCEPT !.step =
        IF s.done > 0 /\ s.at < s.slices[s.done].len THEN "account"
        ELSE IF s.done < Len(s.names) THEN "numbers" ELSE "marshal"]

ReadCustomers(f) ==
    /\ saver[f] = Resting
    /\ \/ f = "bg" /\ mode # "down" /\ saves < MaxSaves /\ saves' = saves + 1
       \/ f = "main" /\ mode = "flushing" /\ UNCHANGED saves
    /\ Save(f, Proceed([step |-> "begin", names |-> customers, slices |-> <<>>,
                        done |-> 0, at |-> 0, account |-> Nil, number |-> 0,
                        txns |-> <<>>]))
    /\ UNCHANGED file

\* The numbers of the next customer; a copy of the slice, not of its array.
ReadNumbers(f) ==
    LET s == saver[f]
    IN  /\ s.step = "numbers"
        /\ Save(f, Proceed([s EXCEPT !.slices = Append(@, lists[s.names[s.done + 1]]),
                                     !.done = @ + 1, !.at = 0]))
        /\ UNCHANGED <<saves, file>>

\* The next number comes from an array that a close may have changed meanwhile.
NextNumber(s) == arrays[s.slices[s.done].array][s.at + 1]

FindAccount(f) ==
    LET s == saver[f]
    IN  /\ s.step = "account"
        /\ NextNumber(s) \in DOMAIN byNumber
        /\ Save(f, [s EXCEPT !.step = "txns", !.at = @ + 1, !.number = NextNumber(s),
                             !.account = byNumber[NextNumber(s)]])
        /\ UNCHANGED <<saves, file>>

ReadTransactions(f) ==
    LET s == saver[f]
        txns == [n \in DOMAIN s.txns \cup {s.number} |->
                    IF n = s.number THEN objects[s.account].txns ELSE s.txns[n]]
    IN  /\ s.step = "txns"
        /\ Save(f, Proceed([s EXCEPT !.txns = txns, !.number = 0, !.account = Nil]))
        /\ UNCHANGED <<saves, file>>

\* The slices are read once more when they are marshalled; then the file is
\* emptied.
Marshal(f) ==
    LET s == saver[f]
        numbers == [c \in Range(s.names) |->
                      NumbersOf(s.slices[CHOOSE i \in DOMAIN s.names : s.names[i] = c])]
    IN  /\ s.step = "marshal"
        /\ Save(f, [step |-> "write",
                    clone |-> [customers |-> s.names, lists |-> numbers,
                               txns |-> s.txns]])
        /\ file' = Empty
        /\ UNCHANGED saves

\* The file cannot be opened; or it is written.  Two savers that write together
\* may leave a mixture, and a write may fail.
Written(f) ==
    \/ saver[f].step \in {"marshal", "write"} /\ file' = file
    \/ saver[f].step = "write" /\ file' \in {Saved(saver[f].clone), Torn}

FinishSave(f) ==
    /\ f = "bg"
    /\ Written(f)
    /\ Save(f, Resting)
    /\ UNCHANGED saves

\* The process has gone, with all it had in memory.
Die ==
    /\ mode' = "down"
    /\ LoseAccounts
    /\ saver' = [f \in Savers |-> Resting]
    /\ UNCHANGED <<restarts, saves>>

\* main returns after its flush.
Exit ==
    /\ Written("main")
    /\ Die

\* A write that is cut off leaves half a file.
Interrupted == file' = file \/ \E f \in Savers : saver[f].step = "write" /\ file' = Torn

\* A panic of a handler or of clone ends the process.
Panic ==
    /\ \/ mode = "up" /\ \E c \in Customers, n \in Number : ClosePanics(c, n)
       \/ \E r \in Requests : RequestPanics(r)
       \/ \E f \in Savers : /\ saver[f].step = "account"
                            /\ NextNumber(saver[f]) \notin DOMAIN byNumber
    /\ Interrupted
    /\ Die

Crash ==
    /\ mode # "down"
    /\ Interrupted
    /\ Die

\* load.  The clone had no balances and no last account number.
Load(d) ==
    LET numbers == CHOOSE s \in [1 .. Cardinality(DOMAIN d.txns) -> DOMAIN d.txns] :
                       Range(s) = DOMAIN d.txns
    IN  /\ customers' = d.customers
        /\ arrays' = [i \in DOMAIN d.customers |-> d.lists[d.customers[i]]]
        /\ lists' = [c \in Range(d.customers) |->
                        [array |-> CHOOSE i \in DOMAIN d.customers : d.customers[i] = c,
                         len |-> Len(d.lists[c])]]
        /\ objects' = [i \in DOMAIN numbers |->
                          [balance |-> 0, txns |-> d.txns[numbers[i]],
                           loaded |-> Len(d.txns[numbers[i]])]]
        /\ byNumber' = [n \in DOMAIN d.txns |->
                           CHOOSE i \in DOMAIN numbers : numbers[i] = n]
        /\ UNCHANGED <<lastNum, request, paidIn>>

\* A file that is torn cannot be parsed: the server does not start any more.
Restart ==
    /\ mode = "down"
    /\ restarts < MaxRestarts
    /\ \/ file.state = "empty" /\ UNCHANGED bankVars
       \/ file.state = "saved" /\ Load(file.clone)
    /\ mode' = "up"
    /\ restarts' = restarts + 1
    /\ UNCHANGED <<saves, saver, file>>
-------------------------------------------------------------------------------
Terminated ==
    /\ mode = "down"
    /\ restarts = MaxRestarts \/ file.state = "torn"
    /\ UNCHANGED vars

Next ==
    \/ Accept
    \/ Handle
    \/ GracefulStop
    \/ Stopped
    \/ \E f \in Savers :
          \/ ReadCustomers(f)
          \/ ReadNumbers(f)
          \/ FindAccount(f)
          \/ ReadTransactions(f)
          \/ Marshal(f)
          \/ FinishSave(f)
    \/ Exit
    \/ Panic
    \/ Crash
    \/ Restart
    \/ Terminated

Spec == Init /\ [][Next]_vars
-------------------------------------------------------------------------------
(* Properties. *)

\* The balance is what the transactions made since the server started add up to,
\* in true integers: newTransaction lets no overflow through, whatever closes,
\* saves and restarts come between the lookup of an account and its use.
\* Transfers make no money: what is in the accounts or on its way between two of
\* them has been paid in.  (It may be less: a refused credit loses its debit.)
MoneyNotCreated ==
    /\ \A o \in DOMAIN objects :
          LET a == objects[o]
          IN  a.balance = Sum(SubSeq(a.txns, a.loaded + 1, Len(a.txns)))
    /\ restarts = 0 => Total + InTransit <= paidIn

\* Until a file has been loaded, every account number belongs to one customer,
\* once, and has an account: no handler ever finds a nil account.
ListedOnce ==
    restarts = 0 =>
        /\ Listed = DOMAIN byNumber
        /\ \A c, d \in Known : \A i \in DOMAIN Numbers(c), j \in DOMAIN Numbers(d) :
              Numbers(c)[i] = Numbers(d)[j] => c = d /\ i = j

\* What main writes at a graceful stop is all there is: every customer, every
\* account and each of its transactions.
FinalSaveIsComplete ==
    saver["main"].step = "write" =>
        LET d == saver["main"].clone
        IN  /\ d.customers = customers
            /\ d.lists = [c \in Known |-> Numbers(c)]
            /\ \A n \in Listed : n \in DOMAIN d.txns
                                 /\ d.txns[n] = objects[byNumber[n]].txns

\* The README of the demo promises that the state is saved "so that the data can
\* be restored if the process restarts".
BalanceIsRestored ==
    \A n \in DOMAIN byNumber :
        objects[byNumber[n]].balance = Sum(objects[byNumber[n]].txns)
-------------------------------------------------------------------------------
(* Inductive invariants behind the theorems of BankProofs. *)

\* Before a file is loaded, numbers are given out once; a request that was given
\* an account has found it, and has taken its money if it is to give it on.
FirstRunInv ==
    /\ ListedOnce
    /\ restarts = 0 =>
          /\ DOMAIN byNumber \subseteq 1 .. lastNum
          /\ \A r \in InProgress :
                request[r].step # "source" /\ request[r].from # External
                    => request[r].src # Nil
          /\ Total + InTransit <= paidIn

\* A saver works with slices that are still valid, however long ago it read them.
Reads(s) ==
    s.step \in {"numbers", "account", "txns", "marshal"} =>
        /\ Range(s.names) \subseteq Known
        /\ s.done <= Len(s.names)
        /\ \A i \in 1 .. s.done : Valid(s.slices[i], arrays)
        /\ s.step = "numbers" => s.done < Len(s.names)
        /\ s.step = "account" => s.done > 0 /\ s.at < s.slices[s.done].len
        /\ s.step = "txns" => s.done > 0 /\ s.number \in Number
                              /\ s.account \in DOMAIN objects
        /\ s.step = "marshal" => s.done = Len(s.names)
SaverInv == \A f \in Savers : Reads(saver[f])

\* main saves when no request is left, and nothing is left of a dead process.
ModeInv ==
    /\ mode \in {"flushing", "down"} => InProgress = {}
    /\ mode # "flushing" => saver["main"] = Resting
    /\ mode = "down" => saver["bg"] = Resting /\ lastNum = 0

\* What main has read is what there is: the slices of the first customers, and
\* the transactions of their accounts up to the one at hand.
ReadsAll(s) ==
    s.step \in {"numbers", "account", "txns", "marshal"} =>
        /\ s.names = customers
        /\ \A i \in 1 .. s.done : s.slices[i] = lists[customers[i]]
        /\ \A n \in DOMAIN s.txns :
              n \in DOMAIN byNumber /\ s.txns[n] = objects[byNumber[n]].txns
        /\ \A i \in 1 .. s.done : \A k \in 1 .. s.slices[i].len :
              i < s.done \/ k < s.at \/ (k = s.at /\ s.step # "txns")
                  => arrays[s.slices[i].array][k] \in DOMAIN s.txns
        /\ s.step \in {"numbers", "marshal"} /\ s.done > 0
              => s.at >= s.slices[s.done].len
        /\ s.step = "txns" =>
              /\ s.at \in 1 .. s.slices[s.done].len
              /\ s.number = arrays[s.slices[s.done].array][s.at]
              /\ s.number \in DOMAIN byNumber /\ s.account = byNumber[s.number]
FinalInv == ReadsAll(saver["main"]) /\ FinalSaveIsComplete

IInv ==
    /\ TypeOK
    /\ SliceInv
    /\ AccountInv
    /\ BalanceInv
    /\ FirstRunInv
    /\ SaverInv
    /\ ModeInv
    /\ FinalInv
===============================================================================
