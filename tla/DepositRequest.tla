---------------------------- MODULE DepositRequest ----------------------------
(***************************************************************************)
(* Money put into the system: deposit requests of a customer               *)
(* (services/clientDepositRequestService.js) and of an executor company    *)
(* (services/executorDepositRequestService.js), the administration's own   *)
(* deposits (routes/clients.js), their reviews on the support page and on  *)
(* the transactions page (routes/support.js, routes/adminTransactions.js), *)
(* and what may follow: an edit of the amount                              *)
(* (services/adminFinancialMutationService.js) and the void of the deposit *)
(* (services/balanceAdjustmentService.js).                                 *)
(*                                                                         *)
(* A customer's deposit is added to a balance, with an entry in the ledger *)
(* (services/walletService.js).  A company's changes no balance: the       *)
(* company's pool is computed again from its rows (utils/helpers.js).      *)
(*                                                                         *)
(* There is one customer and one company.  Support tickets, images,        *)
(* notices and deductions, which mirror the deposits, are left out.        *)
(***************************************************************************)
EXTENDS Naturals, Integers, FiniteSets, FiniteSetsExt

CONSTANTS Req,      \* requests in flight
          Deposit,  \* what the rows and requests are about
          NoDeposit,
          Nobody,   \* the void token of a row nobody voids
          Voided,   \* stands for voidedAt of a row that was voided
          Orphan,   \* a token whose request is over
          Amounts,
          MaxFaults \* bound: late + faults

ASSUME NamesAssumption ==
    /\ NoDeposit \notin Deposit /\ {Nobody, Voided, Orphan} \cap Req = {}
    /\ Nobody # Voided /\ Nobody # Orphan /\ Voided # Orphan
ASSUME AmountsAssumption == Amounts \subseteq Nat \ {0}
ASSUME FiniteAssumption == IsFiniteSet(Req) /\ IsFiniteSet(Deposit)
ASSUME FaultsAssumption == MaxFaults \in Nat

VARIABLES
    transactions, \* MongoDB has transactions; chosen once
    kind,         \* whose deposit: chosen once
    original,     \* the amount asked for, which the ledger's entry has
    status, amount,
    linked,       \* a customer's request names its ticket
    token, stale, \* voidToken or voidedAt, and is it over two minutes old
    balance,      \* what the customer's balance has of it, net
    entries,      \* DEPOSIT entries of it in the ledger
    reversals,    \* REVERSAL entries of it
    pool,         \* ExecutorGroup.balance
    req,          \* what each request is doing
    late,         \* writes to a row that was no longer as it had been read
    faults        \* other faults

fixed == <<transactions, kind, original>>
rows == <<status, amount, linked, token, stale>>
money == <<balance, entries, reversals>>
tallies == <<late, faults>>
vars == <<fixed, rows, money, pool, req, tallies>>

\* request: the customer's; direct: the administration's, for the customer.
Kinds == {"request", "direct", "company"}
Statuses == {"none", "deposit_pending", "deposit", "rejected", "cancelled_by_admin"}
Steps == {"idle", "create", "link", "credit", "enter", "save", "webSave", "voidLook",
          "voidPay", "voidSave", "editSave", "sync", "syncWrite"}

\* verdict: the status a review gives; seen, old: the status and the amount, or
\* the pool's balance, it has read; want: the amount or the balance to write.
Request == [pc : Steps, dep : Deposit \cup {NoDeposit},
            verdict : {"none", "deposit", "rejected"},
            seen : Statuses, old : Int, want : Int]
Idle == [pc |-> "idle", dep |-> NoDeposit, verdict |-> "none", seen |-> "none",
         old |-> 0, want |-> 0]

TypeOK ==
    /\ transactions \in BOOLEAN
    /\ kind \in [Deposit -> Kinds]
    /\ original \in [Deposit -> Amounts]
    /\ status \in [Deposit -> Statuses]
    /\ amount \in [Deposit -> Amounts]
    /\ linked \in [Deposit -> BOOLEAN]
    /\ token \in [Deposit -> Req \cup {Nobody, Voided, Orphan}]
    /\ stale \in [Deposit -> BOOLEAN]
    /\ balance \in [Deposit -> Int]
    /\ entries \in [Deposit -> Nat]
    /\ reversals \in [Deposit -> Nat]
    /\ pool \in Int
    /\ req \in [Req -> Request]
    /\ late \in Nat /\ faults \in Nat

Init ==
    /\ transactions \in BOOLEAN
    /\ kind \in [Deposit -> Kinds]
    /\ original \in [Deposit -> Amounts]
    /\ status = [d \in Deposit |-> "none"]
    /\ amount = original
    /\ linked = [d \in Deposit |-> FALSE]
    /\ token = [d \in Deposit |-> Nobody]
    /\ stale = [d \in Deposit |-> FALSE]
    /\ balance = [d \in Deposit |-> 0]
    /\ entries = [d \in Deposit |-> 0]
    /\ reversals = [d \in Deposit |-> 0]
    /\ pool = 0
    /\ req = [r \in Req |-> Idle]
    /\ late = 0 /\ faults = 0

NoFault == UNCHANGED tallies
AFault == late + faults < MaxFaults /\ faults' = faults + 1 /\ UNCHANGED late
ALate == late + faults < MaxFaults /\ late' = late + 1 /\ UNCHANGED faults

\* A write to deposit d, whose status and amount were s and a when it was read.
Writes(d, s, a) == IF status[d] = s /\ amount[d] = a THEN NoFault ELSE ALate

Start(r, step, d, v, a) ==
    /\ req[r].pc = "idle"
    /\ req' = [req EXCEPT ![r] = [pc |-> step, dep |-> d, verdict |-> v,
                      seen |-> status[d], old |-> amount[d], want |-> a]]
Go(r, step) == req' = [req EXCEPT ![r].pc = step]
End(r) == req' = [req EXCEPT ![r] = Idle]

\* Mutant: a row accepted is called what its ticket is called.
SetAsTicket(d, s) == status' = [status EXCEPT ![d] = IF s = "deposit" THEN "approved" ELSE s]

Set(d, s) == status' = [status EXCEPT ![d] = s]

Customers(d) == kind[d] \in {"request", "direct"}

------------------------------------------------------------------------------
(* Requests *)

\* createClientDepositRequest: the customer has no request that is pending.
Ask(r, d) ==
    /\ kind[d] = "request" /\ status[d] = "none"
    /\ \A s \in Req : req[s].dep # d
    /\ \A e \in Deposit : kind[e] = "request" => status[e] # "deposit_pending"
    /\ Start(r, "create", d, "none", amount[d])
    /\ UNCHANGED <<fixed, rows, money, pool, tallies>>

Create(r) ==
    /\ req[r].pc = "create"
    /\ Set(req[r].dep, "deposit_pending")
    /\ Go(r, "link")
    /\ UNCHANGED <<fixed, amount, linked, token, stale, money, pool, tallies>>

\* The ticket is created after the row, and the row is given its id last.
Link(r) ==
    /\ req[r].pc = "link"
    /\ linked' = [linked EXCEPT ![req[r].dep] = TRUE]
    /\ End(r)
    /\ UNCHANGED <<fixed, status, amount, token, stale, money, pool, tallies>>

\* createDepositRequest, and the requests of a company's employees.
Submit(d) ==
    /\ kind[d] = "company" /\ status[d] = "none"
    /\ Set(d, "deposit_pending")
    /\ UNCHANGED <<fixed, amount, linked, token, stale, money, pool, req, tallies>>

\* add-balance: the balance, its entry and the row, in one MongoDB transaction or
\* one after the other.
AddBalance(r, d) ==
    /\ kind[d] = "direct" /\ status[d] = "none"
    /\ \A s \in Req : req[s].dep # d
    /\ IF transactions
       THEN /\ req[r].pc = "idle" /\ UNCHANGED req
            /\ Set(d, "deposit")
            /\ balance' = [balance EXCEPT ![d] = @ + original[d]]
            /\ entries' = [entries EXCEPT ![d] = @ + 1]
       ELSE Start(r, "credit", d, "deposit", 0) /\ UNCHANGED <<status, balance, entries>>
    /\ UNCHANGED <<fixed, amount, linked, token, stale, reversals, pool, tallies>>

Enter(r) ==
    /\ req[r].pc = "enter"
    /\ Set(req[r].dep, "deposit")
    /\ End(r)
    /\ UNCHANGED <<fixed, amount, linked, token, stale, money, pool, tallies>>

------------------------------------------------------------------------------
(* Reviews *)

\* Mutant: a request that has been reviewed is found again.
ReviewableAgain(d) ==
    kind[d] = "request" /\ linked[d] /\ status[d] \in {"deposit_pending", "deposit"}

Reviewable(d) == kind[d] = "request" /\ linked[d] /\ status[d] = "deposit_pending"

\* resolveClientDepositTicket, reached from either page.
Review(r, d, v) ==
    /\ Reviewable(d)
    /\ Start(r, IF v = "deposit" THEN "credit" ELSE "save", d, v, 0)
    /\ UNCHANGED <<fixed, rows, money, pool, tallies>>

\* updateBalanceWithLedger, in a MongoDB transaction of its own.  Without one the
\* balance comes first, and stays when the process stops before the entry or the
\* compensation of a failed entry fails.
Credit(r) == LET d == req[r].dep IN
    /\ req[r].pc = "credit"
    /\ balance' = [balance EXCEPT ![d] = @ + original[d]]
    /\ \/ /\ entries' = [entries EXCEPT ![d] = @ + 1]
          /\ Go(r, IF kind[d] = "direct" THEN "enter" ELSE "save")
          /\ NoFault
       \/ ~transactions /\ UNCHANGED entries /\ End(r) /\ AFault
    /\ UNCHANGED <<fixed, rows, reversals, pool>>

\* tx.save(): whatever the row has become.  An approval replaces all that
\* balanceAdjustment holds, the traces of a void included.
Save(r) == LET d == req[r].dep IN
    /\ req[r].pc = "save"
    /\ Set(d, req[r].verdict)
    /\ token' = IF req[r].verdict = "deposit" THEN [token EXCEPT ![d] = Nobody] ELSE token
    /\ stale' = IF req[r].verdict = "deposit" THEN [stale EXCEPT ![d] = FALSE] ELSE stale
    /\ End(r)
    /\ Writes(d, req[r].seen, req[r].old)
    /\ UNCHANGED <<fixed, amount, linked, money, pool>>

\* What the pool must hold, by the rows of the company with statuses st and
\* amounts am.
Total(st, am) ==
    MapThenSumSet(LAMBDA d : am[d], {d \in Deposit : kind[d] = "company" /\ st[d] = "deposit"})

\* Mutant: the pool is left as it is.
PoolForgotten(st, am) == pool

\* syncBotBalance within the session of its caller.
PoolAfter(st, am) == Total(st, am)

\* resolveDepositTicket and reviewAdminDepositRequest: a conditional update, and
\* for an approval the pool, in one MongoDB transaction.  A review that is
\* repeated, by the service after a lost commit or by the company, finds the
\* decision made and changes nothing.
ReviewCompany(r, d, v) ==
    /\ kind[d] = "company" /\ status[d] = "deposit_pending"
    /\ Set(d, v)
    /\ CASE v = "rejected" -> UNCHANGED <<pool, req>>
         [] v = "deposit" /\ transactions -> pool' = PoolAfter(status', amount) /\ UNCHANGED req
         [] OTHER -> Start(r, "sync", d, v, 0) /\ UNCHANGED pool
    /\ UNCHANGED <<fixed, amount, linked, token, stale, money, tallies>>

\* accept-deposit-web and reject-deposit-web, for all rows but a customer's
\* request with its ticket.  A customer's request whose ticket is not attached
\* yet, or never was, is taken for a company's: that is counted as a fault.
WebReview(r, d, v) ==
    /\ status[d] = "deposit_pending"
    /\ Start(r, "webSave", d, v, 0)
    /\ \/ kind[d] = "company" /\ NoFault
       \/ kind[d] = "request" /\ ~linked[d] /\ AFault
    /\ UNCHANGED <<fixed, rows, money, pool>>

WebSave(r) == LET d == req[r].dep IN
    /\ req[r].pc = "webSave"
    /\ Set(d, req[r].verdict)
    /\ IF req[r].verdict = "deposit" /\ kind[d] = "company" THEN Go(r, "sync") ELSE End(r)
    /\ Writes(d, req[r].seen, req[r].old)
    /\ UNCHANGED <<fixed, amount, linked, token, stale, money, pool>>

\* syncBotBalance in a MongoDB transaction of its own, or read and written one
\* after the other: Mongoose saves a balance that differs from the one it loaded.
Sync(r) ==
    /\ req[r].pc = "sync"
    /\ IF transactions
       THEN pool' = Total(status, amount) /\ End(r)
       ELSE /\ req' = [req EXCEPT ![r].pc = "syncWrite", ![r].old = pool,
                                  ![r].want = Total(status, amount)]
            /\ UNCHANGED pool
    /\ UNCHANGED <<fixed, rows, money, tallies>>

SyncWrite(r) ==
    /\ req[r].pc = "syncWrite"
    /\ pool' = IF req[r].want # req[r].old THEN req[r].want ELSE pool
    /\ End(r)
    /\ UNCHANGED <<fixed, rows, money, tallies>>

------------------------------------------------------------------------------
(* After the deposit *)

\* editTransactionAmount: the balance changes by the difference, the ledger does
\* not.
EditAmount(r, d, a) ==
    /\ status[d] = "deposit" /\ a # amount[d]
    /\ balance' = IF Customers(d) THEN [balance EXCEPT ![d] = @ + a - amount[d]] ELSE balance
    /\ IF transactions
       THEN /\ amount' = [amount EXCEPT ![d] = a]
            /\ IF Customers(d) THEN UNCHANGED req
               ELSE Start(r, "sync", d, "none", 0)
       ELSE Start(r, "editSave", d, "none", a) /\ UNCHANGED amount
    /\ UNCHANGED <<fixed, status, linked, token, stale, entries, reversals, pool, tallies>>

EditSave(r) == LET d == req[r].dep IN
    /\ req[r].pc = "editSave"
    /\ amount' = [amount EXCEPT ![d] = req[r].want]
    /\ IF Customers(d) THEN End(r) ELSE Go(r, "sync")
    /\ Writes(d, req[r].seen, req[r].old)
    /\ UNCHANGED <<fixed, status, linked, token, stale, money, pool>>

\* Mutant: the token of another void is not respected.
TokenIgnored(d) == status[d] = "deposit" /\ token[d] # Voided

Voidable(d) == status[d] = "deposit" /\ (token[d] = Nobody \/ stale[d])

\* voidBalanceAdjustment with a MongoDB transaction.  The money of the deposit's
\* first entry is taken back, unless a reversal has been.
Void(d) ==
    /\ transactions /\ Customers(d) /\ Voidable(d) /\ entries[d] > 0
    /\ IF reversals[d] = 0
       THEN /\ balance' = [balance EXCEPT ![d] = @ - original[d]]
            /\ reversals' = [reversals EXCEPT ![d] = 1]
       ELSE UNCHANGED <<balance, reversals>>
    /\ Set(d, "cancelled_by_admin")
    /\ token' = [token EXCEPT ![d] = Voided]
    /\ UNCHANGED <<fixed, amount, linked, stale, entries, pool, req, tallies>>

\* Without one the row is claimed with a token, for two minutes.
VoidClaim(r, d) ==
    /\ ~transactions /\ Customers(d) /\ Voidable(d)
    /\ Start(r, "voidLook", d, "none", 0)
    /\ token' = [token EXCEPT ![d] = r]
    /\ stale' = [stale EXCEPT ![d] = FALSE]
    /\ UNCHANGED <<fixed, status, amount, linked, money, pool, tallies>>

\* The token is taken off by the request that put it there.
Untoken(r, d) ==
    /\ token' = IF token[d] = r THEN [token EXCEPT ![d] = Nobody] ELSE token
    /\ stale' = IF token[d] = r THEN [stale EXCEPT ![d] = FALSE] ELSE stale

VoidLook(r) == LET d == req[r].dep IN
    /\ req[r].pc = "voidLook"
    /\ IF entries[d] = 0 THEN Untoken(r, d) /\ End(r)
       ELSE Go(r, IF reversals[d] = 0 THEN "voidPay" ELSE "voidSave")
            /\ UNCHANGED <<token, stale>>
    /\ UNCHANGED <<fixed, status, amount, linked, money, pool, tallies>>

\* As in Credit, the balance may be changed without its entry.
VoidPay(r) == LET d == req[r].dep IN
    /\ req[r].pc = "voidPay"
    /\ balance' = [balance EXCEPT ![d] = @ - original[d]]
    /\ \/ /\ reversals' = [reversals EXCEPT ![d] = @ + 1]
          /\ Go(r, "voidSave") /\ UNCHANGED <<token, stale>> /\ NoFault
       \/ /\ UNCHANGED reversals
          /\ End(r) /\ Untoken(r, d) /\ AFault
    /\ UNCHANGED <<fixed, status, amount, linked, entries, pool>>

VoidSave(r) == LET d == req[r].dep IN
    /\ req[r].pc = "voidSave"
    /\ IF token[d] = r
       THEN /\ Set(d, "cancelled_by_admin")
            /\ token' = [token EXCEPT ![d] = Voided]
            /\ stale' = [stale EXCEPT ![d] = FALSE]
       ELSE UNCHANGED <<status, token, stale>>
    /\ End(r)
    /\ UNCHANGED <<fixed, amount, linked, money, pool, tallies>>

------------------------------------------------------------------------------
(* Time and stops *)

\* Two minutes have passed: a fault if the void is still at work.
TokenLapses(d) ==
    /\ token[d] \notin {Nobody, Voided} /\ ~stale[d]
    /\ stale' = [stale EXCEPT ![d] = TRUE]
    /\ IF token[d] = Orphan THEN NoFault ELSE AFault
    /\ UNCHANGED <<fixed, status, amount, linked, token, money, pool, req>>

\* A request ends where it is: its process stops, or a write is done whose answer
\* is lost.
Stop(r) ==
    /\ req[r].pc # "idle"
    /\ End(r)
    /\ token' = [d \in Deposit |-> IF token[d] = r THEN Orphan ELSE token[d]]
    /\ AFault
    /\ UNCHANGED <<fixed, status, amount, linked, stale, money, pool>>

Next ==
    \/ \E r \in Req, d \in Deposit :
          \/ Ask(r, d) \/ AddBalance(r, d) \/ VoidClaim(r, d)
          \/ \E v \in {"deposit", "rejected"} :
                Review(r, d, v) \/ ReviewCompany(r, d, v) \/ WebReview(r, d, v)
          \/ \E a \in Amounts : EditAmount(r, d, a)
    \/ \E d \in Deposit : Submit(d) \/ Void(d) \/ TokenLapses(d)
    \/ \E r \in Req :
          \/ Create(r) \/ Link(r) \/ Enter(r)
          \/ Credit(r) \/ Save(r) \/ WebSave(r) \/ Sync(r) \/ SyncWrite(r)
          \/ EditSave(r) \/ VoidLook(r) \/ VoidPay(r) \/ VoidSave(r) \/ Stop(r)

Spec == Init /\ [][Next]_vars

------------------------------------------------------------------------------
(* Properties *)

\* Nobody is in the middle of something about the deposit.
AtRest(d) == \A r \in Req : req[r].dep # d

\* A deposit is added once and taken back once: a second time needs a review that
\* writes over another, a stop between the balance and the row, or a void that
\* outlives its token (resolveClientDepositTicket, voidBalanceAdjustment).  With
\* MongoDB transactions it is never taken back twice.
DepositedOnce ==
    \A d \in Deposit : AtRest(d) =>
        /\ entries[d] <= 1 + late + faults
        /\ reversals[d] <= IF transactions THEN 1 ELSE 1 + late + faults

\* The customer's balance has the deposits that were accepted and not voided, and
\* nothing of the others, unless a request failed half-way or wrote over another:
\* true of deposits that have the amount they were asked for
\* (clientDepositRequestService.js, routes/clients.js, balanceAdjustmentService.js).
BalanceFollowsRows ==
    late + faults = 0 =>
        \A d \in Deposit : Customers(d) /\ AtRest(d) /\ amount[d] = original[d] =>
            balance[d] = IF status[d] = "deposit" THEN amount[d] ELSE 0

\* With MongoDB transactions the company's pool is what its accepted deposits add
\* up to, once the requests that have to compute it are over, and unless one was
\* stopped or wrote over another's decision (syncBotBalance and its callers).
PoolFollowsRows ==
    transactions /\ late + faults = 0 /\ (\A r \in Req : req[r].pc # "sync")
        => pool = Total(status, amount)

\* A deposit that is voided leaves nothing in the customer's balance, whatever
\* its amount has become ("Ledger = Source of Truth", docs/Security.md:439).
VoidLeavesNothing ==
    late + faults = 0 =>
        \A d \in Deposit : AtRest(d) /\ status[d] = "cancelled_by_admin" => balance[d] = 0
==============================================================================
