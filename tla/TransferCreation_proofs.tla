------------------------ MODULE TransferCreation_proofs ------------------------
(***************************************************************************)
(* Proofs about the creation of transfers, for any keys, payloads,         *)
(* channels and bounds, and any finite number of requests, in each of the  *)
(* three deployments.                                                      *)
(***************************************************************************)
EXTENDS TransferCreation, LockService_proofs

\* Steps before a request has created anything, and before it has charged anybody.
Early == {"idle", "lookup", "lockKey", "relook", "lockPay", "check", "commit"}
Refusals == {"conflict", "refused", "busy"}
Rows == {"none", "flight", "live", "closed"}

Owed(r) == IF row[r] = "live" THEN payers ELSE 0

\* Where a request stands.
Placed(r) ==
    /\ pc[r] \in Early \cup {"debit", "save"} => answer[r] = "none" /\ row[r] = "none"
    /\ pc[r] \in {"lookup", "lockKey", "relook"} => Keyed(r)
    /\ pc[r] \in {"lockKey", "relook"} => ~Merchant(r)
    /\ pc[r] = "recover" => Merchant(r) /\ Keyed(r)
    /\ pc[r] = "undo" => row[r] = "none"
    /\ pc[r] \in {"debit", "save", "undo"} => ~Transactions
    /\ row[r] = "flight" => Transactions

\* What its wallets have been charged, at every step.
Charged(r) ==
    /\ pc[r] \in Early => charged[r] = 0
    /\ pc[r] = "debit" => charged[r] < payers
    /\ pc[r] = "save" => charged[r] = payers
    /\ ~Transactions /\ pc[r] = "recover" => row[r] = "none" /\ charged[r] = 0
    /\ Transactions \/ (faults = 0 /\ pc[r] \in {"free", "done"}) => charged[r] = Owed(r)

TypeInv == TypeOK /\ \A r \in Req : Placed(r) /\ Charged(r)

------------------------------------------------------------------------------
(* What a step leaves alone *)

\* Of the requests only r moves.
Others(r) ==
    \A s \in Req \ {r} :
        /\ pc'[s] = pc[s] /\ ask'[s] = ask[s] /\ answer'[s] = answer[s]
        /\ row'[s] = row[s] /\ age'[s] = age[s] /\ charged'[s] = charged[s]

TalliesGrow == loose <= loose' /\ faults <= faults' /\ loose' \in Nat /\ faults' \in Nat

\* A step of request r that is typed, in the parts that it may change.
Stepped(r) == TypeOK' /\ Others(r) /\ TalliesGrow /\ UNCHANGED fixed

LEMMA TalliesDo ==
    ASSUME TypeOK, NoFault \/ AFault \/ ALoose
    PROVE  /\ TalliesGrow
           /\ NoFault => UNCHANGED <<loose, faults>>
           /\ AFault => faults' = faults + 1 /\ loose' = loose
           /\ ALoose => loose' = loose + 1 /\ faults' = faults
BY DEF TypeOK, NoFault, AFault, ALoose, TalliesGrow

\* The others stay where they are.
LEMMA OthersPlaced ==
    ASSUME TypeInv, NEW r \in Req, Stepped(r), Placed(r)', Charged(r)'
    PROVE  TypeInv'
<1> SUFFICES ASSUME NEW s \in Req \ {r}  PROVE Placed(s)' /\ Charged(s)'
  BY DEF TypeInv, Stepped
<1>1. /\ pc'[s] = pc[s] /\ ask'[s] = ask[s] /\ answer'[s] = answer[s]
      /\ row'[s] = row[s] /\ charged'[s] = charged[s]
      /\ faults \in Nat /\ (faults' = 0 => faults = 0)
      /\ payers' = payers /\ deployment' = deployment
  BY DEF Stepped, Others, TypeInv, TypeOK, TalliesGrow, fixed
<1>2. Placed(s) /\ Charged(s)
  BY DEF TypeInv
<1> QED  BY <1>1, <1>2 DEF Placed, Charged, Owed, Keyed, Merchant, Transactions

LEMMA LocksSame ==
    ASSUME TypeOK, UNCHANGED <<fixed, locks>>
    PROVE  LockTypeOK'
BY DEF TypeOK, LockTypeOK, fixed, locks

LEMMA InitTyped == Init => TypeInv
<1> SUFFICES ASSUME Init  PROVE TypeInv
  OBVIOUS
<1>1. LockTypeOK
  BY DEF Init, LockInit, LockTypeOK, Grips
<1>2. PICK p \in Payload : ask = [r \in Req |-> [channel |-> "none", key |-> NoKey,
                                                 after |-> FALSE, payload |-> p]]
  BY PayloadAssumption DEF Init
<1>3. ask \in [Req -> Asking]
  BY <1>2 DEF Asking
<1>4. TypeOK
  BY <1>1, <1>3 DEF Init, TypeOK, Steps, Answers
<1>5. ASSUME NEW r \in Req  PROVE Placed(r) /\ Charged(r)
  BY DEF Init, Placed, Charged, Early, Owed
<1> QED  BY <1>4, <1>5 DEF TypeInv

------------------------------------------------------------------------------
(* Types and charges, step by step *)

\* Requests that only go on, or answer: what is said of pc and answer.
LEMMA TalkTyped ==
    ASSUME TypeInv, NEW r \in Req, NEW step \in Steps, NEW a \in Answers,
           Goto(r, step), Answer(r, a) \/ (UNCHANGED answer /\ a = answer[r]),
           UNCHANGED <<fixed, ask, row, age, charged>>, LockTypeOK', TalliesGrow
    PROVE  /\ Stepped(r) /\ pc'[r] = step /\ answer'[r] = a
           /\ ask'[r] = ask[r] /\ row'[r] = row[r] /\ charged'[r] = charged[r]
<1>1. pc' \in [Req -> Steps] /\ pc'[r] = step /\ \A s \in Req \ {r} : pc'[s] = pc[s]
  BY DEF TypeInv, TypeOK, Goto
<1>2. /\ answer' \in [Req -> Answers] /\ answer'[r] = a
      /\ \A s \in Req \ {r} : answer'[s] = answer[s]
  BY DEF TypeInv, TypeOK, Answer
<1>3. TypeOK'
  BY <1>1, <1>2 DEF TypeInv, TypeOK, TalliesGrow, fixed
<1> QED  BY <1>1, <1>2, <1>3 DEF Stepped, Others

LEMMA StartTyped ==
    ASSUME TypeInv, NEW r \in Req, NEW c \in Channels, NEW k \in Keys \cup {NoKey},
           NEW p \in Payload, Start(r, c, k, p)
    PROVE  /\ TypeInv' /\ Stepped(r) /\ pc'[r] \in {"lookup", "lockKey", "lockPay"}
           /\ ask'[r].key = k /\ ask'[r].channel = c /\ ask'[r].payload = p
           /\ UNCHANGED <<row, answer, age, locks, loose>>
<1> DEFINE q == [channel |-> c, key |-> k, payload |-> p, after |-> FALSE]
           old == {s \in UnderKey(q) : SameRequest(q, ask[s])}
           b == k # NoKey /\ old # {}
           n == [q EXCEPT !.after = b]
           step == CASE c = "app" -> "lockKey"
                     [] c # "app" /\ k # NoKey -> "lookup"
                     [] OTHER -> "lockPay"
<1>1. /\ pc[r] = "idle" /\ ask' = [ask EXCEPT ![r] = n] /\ Goto(r, step)
      /\ c = "app" => k # NoKey
      /\ UNCHANGED <<fixed, locks, answer, row, age, charged, loose, faults>>
  BY DEF Start
<1>2. b \in BOOLEAN
  OBVIOUS
<1> HIDE DEF b
<1>3. n \in Asking /\ n.key = k /\ n.channel = c /\ n.payload = p
  BY <1>2 DEF Asking
<1>4. /\ step \in {"lookup", "lockKey", "lockPay"} /\ step \in Steps
      /\ step \in {"lookup", "lockKey"} => k # NoKey
      /\ step = "lockKey" => c = "app"
  BY <1>1 DEF Steps
<1> HIDE DEF q, old, n, step
<1>5. ask' \in [Req -> Asking] /\ ask'[r] = n /\ \A s \in Req \ {r} : ask'[s] = ask[s]
  BY <1>1, <1>3 DEF TypeInv, TypeOK
<1>6. pc' \in [Req -> Steps] /\ pc'[r] = step /\ \A s \in Req \ {r} : pc'[s] = pc[s]
  BY <1>1, <1>4 DEF TypeInv, TypeOK, Goto
<1>7. Stepped(r)
  BY <1>1, <1>5, <1>6, LocksSame DEF Stepped, Others, TypeInv, TypeOK, TalliesGrow, fixed
<1>8. Placed(r)
  BY DEF TypeInv
<1>9. Charged(r)
  BY DEF TypeInv
<1>10. Placed(r)'
  BY <1>1, <1>3, <1>4, <1>5, <1>6, <1>8
  DEF Placed, Early, Keyed, Merchant, Transactions, fixed
<1>11. Charged(r)'
  BY <1>1, <1>4, <1>6, <1>8, <1>9 DEF Placed, Charged, Early, Owed, Transactions, fixed
<1> QED  BY <1>1, <1>3, <1>4, <1>5, <1>6, <1>7, <1>10, <1>11, OthersPlaced

\* A request that has not created anything goes on, or gives its answer.
LEMMA EarlyTyped ==
    ASSUME TypeInv, NEW r \in Req, NEW step \in Steps, NEW a \in Answers,
           Goto(r, step), Answer(r, a) \/ (UNCHANGED answer /\ a = answer[r]),
           UNCHANGED <<fixed, ask, row, age, charged>>, LockTypeOK', TalliesGrow,
           pc[r] \in Early, step \notin {"save", "undo"},
           step \in Early \cup {"debit"} => a = "none",
           step \in {"lookup", "lockKey", "relook"} => Keyed(r),
           step \in {"lockKey", "relook"} => ~Merchant(r),
           step = "recover" => Merchant(r) /\ Keyed(r),
           step = "debit" => ~Transactions
    PROVE  /\ TypeInv' /\ Stepped(r) /\ pc'[r] = step /\ answer'[r] = a
           /\ row[r] = "none" /\ row'[r] = "none"
<1>1. /\ Stepped(r) /\ pc'[r] = step /\ answer'[r] = a
      /\ ask'[r] = ask[r] /\ row'[r] = row[r] /\ charged'[r] = charged[r]
  BY TalkTyped
<1>2. /\ row[r] = "none" /\ charged[r] = 0 /\ payers' = payers /\ payers \in 1..2
      /\ deployment' = deployment
  BY DEF TypeInv, Placed, Charged, fixed, TypeOK
<1>3. Placed(r)'
  BY <1>1, <1>2 DEF Placed, Keyed, Merchant, Transactions
<1>4. Charged(r)'
  BY <1>1, <1>2 DEF Charged, Owed, Transactions, Early
<1> QED  BY <1>1, <1>2, <1>3, <1>4, OthersPlaced

LEMMA KeyTyped ==
    ASSUME TypeInv, NEW r \in Req
    PROVE  /\ Keyed(r) => ask[r].key \in Key /\ ask[r].key # PayLock
           /\ PayLock \in Key /\ LockTypeOK /\ pc[r] \in Steps /\ answer[r] \in Answers
           /\ Placed(r) /\ Charged(r)
           /\ ReplayOrConflict(r) \in {"replay", "conflict"}
BY KeysAssumption DEF TypeInv, TypeOK, Asking, Keyed, ReplayOrConflict

\* The lookup answers, or lets the request go on.
LEMMA LookupTyped ==
    ASSUME TypeInv, NEW r \in Req, Lookup(r)
    PROVE  /\ TypeInv' /\ Stepped(r) /\ row'[r] = "none"
           /\ \/ /\ UnderKey(ask[r]) # {} /\ pc'[r] = "free"
                 /\ answer'[r] = ReplayOrConflict(r)
              \/ /\ UnderKey(ask[r]) = {} /\ answer'[r] = "none"
                 /\ pc'[r] = IF Merchant(r) THEN "lockPay" ELSE "lockKey"
<1>1. /\ pc[r] = "lookup" /\ UNCHANGED <<fixed, locks, ask, row, age, charged, loose, faults>>
      /\ Keyed(r) /\ answer[r] = "none"
  BY KeyTyped DEF Lookup, Placed, Early
<1>2. TalliesGrow /\ LockTypeOK'
  BY <1>1, LocksSame DEF TalliesGrow, TypeInv, TypeOK
<1>3. CASE UnderKey(ask[r]) # {}
  <2>1. Goto(r, "free") /\ Answer(r, ReplayOrConflict(r))
    BY <1>3 DEF Lookup, AnswerAndFree
  <2>2. ReplayOrConflict(r) \in Answers
    BY KeyTyped DEF Answers
  <2> QED  BY <1>1, <1>2, <1>3, <2>1, <2>2, EarlyTyped DEF Early, Steps
<1>4. CASE UnderKey(ask[r]) = {}
  <2>1. Goto(r, IF Merchant(r) THEN "lockPay" ELSE "lockKey") /\ UNCHANGED answer
    BY <1>4 DEF Lookup
  <2> QED  BY <1>1, <1>2, <1>4, <2>1, EarlyTyped DEF Early, Steps, Answers
<1> QED  BY <1>3, <1>4

LEMMA LockKeyTyped ==
    ASSUME TypeInv, NEW r \in Req, LockKey(r)
    PROVE  /\ TypeInv' /\ Stepped(r) /\ row'[r] = "none"
           /\ pc'[r] = "relook" /\ answer'[r] = "none" /\ Keyed(r)
<1>1. /\ pc[r] = "lockKey" /\ UNCHANGED <<fixed, ask, answer, row, age, charged>>
      /\ Keyed(r) /\ ~Merchant(r) /\ answer[r] = "none" /\ Goto(r, "relook")
  BY KeyTyped DEF LockKey, Placed, Early
<1>2. TalliesGrow
  BY TalliesDo DEF LockKey, TypeInv
<1>3. LockTypeOK'
  BY <1>1, KeyTyped, AcquireDoes, LocksSame DEF LockKey, fixed, Gripped, TypeInv
<1> QED  BY <1>1, <1>2, <1>3, EarlyTyped DEF Early, Steps, Answers

LEMMA RelookTyped ==
    ASSUME TypeInv, NEW r \in Req, Relook(r)
    PROVE  /\ TypeInv' /\ Stepped(r) /\ row'[r] = "none"
           /\ \/ /\ UnderKey(ask[r]) # {} /\ pc'[r] = "free"
                 /\ answer'[r] = ReplayOrConflict(r)
              \/ UnderKey(ask[r]) = {} /\ answer'[r] = "none" /\ pc'[r] = "lockPay"
<1>1. /\ pc[r] = "relook" /\ UNCHANGED <<fixed, locks, ask, row, age, charged, loose, faults>>
      /\ Keyed(r) /\ answer[r] = "none"
  BY KeyTyped DEF Relook, Placed, Early
<1>2. TalliesGrow /\ LockTypeOK'
  BY <1>1, LocksSame DEF TalliesGrow, TypeInv, TypeOK
<1>3. CASE UnderKey(ask[r]) # {}
  <2>1. Goto(r, "free") /\ Answer(r, ReplayOrConflict(r))
    BY <1>3 DEF Relook, AnswerAndFree
  <2>2. ReplayOrConflict(r) \in Answers
    BY KeyTyped DEF Answers
  <2> QED  BY <1>1, <1>2, <1>3, <2>1, <2>2, EarlyTyped DEF Early, Steps
<1>4. CASE UnderKey(ask[r]) = {}
  <2>1. Goto(r, "lockPay") /\ UNCHANGED answer
    BY <1>4 DEF Relook
  <2> QED  BY <1>1, <1>2, <1>4, <2>1, EarlyTyped DEF Early, Steps, Answers
<1> QED  BY <1>3, <1>4

LEMMA LockPayTyped ==
    ASSUME TypeInv, NEW r \in Req, LockPay(r)
    PROVE  TypeInv' /\ Stepped(r) /\ row'[r] = "none" /\ pc'[r] = "check" /\ answer'[r] = "none"
<1>1. /\ pc[r] = "lockPay" /\ UNCHANGED <<fixed, ask, answer, row, age, charged>>
      /\ answer[r] = "none" /\ Goto(r, "check")
  BY KeyTyped DEF LockPay, Placed, Early
<1>2. TalliesGrow
  BY TalliesDo DEF LockPay, TypeInv
<1>3. LockTypeOK'
  BY <1>1, KeyTyped, AcquireDoes DEF LockPay, fixed, Gripped
<1> QED  BY <1>1, <1>2, <1>3, EarlyTyped DEF Early, Steps, Answers

\* A refusal for the moment; the merchants' API looks for its key's transfer first.
LEMMA TurnTyped ==
    ASSUME TypeInv, NEW r \in Req, NEW a \in {"busy", "refused"}, Turn(r, a), pc[r] \in Early,
           UNCHANGED <<fixed, locks, ask, row, age, charged, loose, faults>>
    PROVE  /\ TypeInv' /\ Stepped(r) /\ row'[r] = "none" /\ answer'[r] = a
           /\ pc'[r] = IF Merchant(r) /\ Keyed(r) THEN "recover" ELSE "free"
<1>1. TalliesGrow /\ LockTypeOK'
  BY LocksSame DEF TalliesGrow, TypeInv, TypeOK
<1>2. a \in Answers /\ Answer(r, a)
  BY DEF Answers, Turn, AnswerAndFree
<1>3. CASE Merchant(r) /\ Keyed(r)
  BY <1>1, <1>2, <1>3, EarlyTyped DEF Turn, Steps, Early
<1>4. CASE ~(Merchant(r) /\ Keyed(r))
  BY <1>1, <1>2, <1>4, EarlyTyped DEF Turn, AnswerAndFree, Steps, Early
<1> QED  BY <1>3, <1>4

LEMMA LockBusyTyped ==
    ASSUME TypeInv, NEW r \in Req, LockBusy(r)
    PROVE  /\ TypeInv' /\ Stepped(r) /\ row'[r] = "none" /\ answer'[r] = "busy"
           /\ pc[r] \in {"lockKey", "lockPay"}
           /\ pc'[r] = IF Merchant(r) /\ Keyed(r) THEN "recover" ELSE "free"
BY TurnTyped DEF LockBusy, Early

LEMMA CheckTyped ==
    ASSUME TypeInv, NEW r \in Req, Check(r)
    PROVE  /\ TypeInv' /\ Stepped(r) /\ row'[r] = "none"
           /\ \/ pc'[r] \in {"recover", "free"} /\ answer'[r] = "refused"
              \/ ~Cooling(r) /\ pc'[r] \in {"commit", "debit"} /\ answer'[r] = "none"
<1>1. /\ pc[r] = "check" /\ UNCHANGED <<fixed, locks, ask, row, age, charged, loose, faults>>
      /\ answer[r] = "none" /\ pc[r] \in Early
  BY KeyTyped DEF Check, Placed, Early
<1>2. TalliesGrow /\ LockTypeOK'
  BY <1>1, LocksSame DEF TalliesGrow, TypeInv, TypeOK
<1>3. CASE Cooling(r)
  BY <1>1, <1>3, TurnTyped DEF Check
<1>4. CASE ~Cooling(r)
  <2>1. UNCHANGED answer
    BY <1>4 DEF Check
  <2>2. CASE Transactions \/ (Merchant(r) /\ Keyed(r))
    <3>1. Goto(r, "commit")
      BY <1>4, <2>2 DEF Check
    <3> QED  BY <1>1, <1>2, <1>4, <2>1, <3>1, EarlyTyped DEF Early, Steps, Answers
  <2>3. CASE ~(Transactions \/ (Merchant(r) /\ Keyed(r)))
    <3>1. Goto(r, "debit")
      BY <1>4, <2>3 DEF Check
    <3> QED  BY <1>1, <1>2, <1>4, <2>1, <2>3, <3>1, EarlyTyped DEF Early, Steps, Answers
  <2> QED  BY <2>2, <2>3
<1> QED  BY <1>3, <1>4

LEMMA CommitEndsTyped ==
    ASSUME TypeInv, NEW r \in Req, CommitRefused(r) \/ CommitFails(r)
    PROVE  /\ TypeInv' /\ Stepped(r) /\ row'[r] = "none" /\ pc'[r] \in {"free", "recover"}
           /\ pc[r] = "commit"
<1>1. /\ pc[r] = "commit" /\ UNCHANGED <<fixed, locks, ask, row, age, charged, loose, faults>>
      /\ pc[r] \in Early
  BY DEF CommitRefused, CommitFails, Early
<1>2. TalliesGrow /\ LockTypeOK'
  BY <1>1, LocksSame DEF TalliesGrow, TypeInv, TypeOK
<1>3. CASE CommitRefused(r)
  BY <1>1, <1>2, <1>3, EarlyTyped DEF CommitRefused, AnswerAndFree, Early, Steps, Answers
<1>4. CASE CommitFails(r) /\ Merchant(r) /\ Keyed(r) /\ Goto(r, "recover")
  BY <1>1, <1>2, <1>4, EarlyTyped DEF CommitFails, Fail, Early, Steps, Answers
<1>5. CASE CommitFails(r) /\ Goto(r, "free")
  BY <1>1, <1>2, <1>5, EarlyTyped DEF CommitFails, Fail, Early, Steps, Answers
<1> QED  BY <1>3, <1>4, <1>5 DEF CommitFails, Fail

\* What stays the same is what it was.
LEMMA SameAt ==
    ASSUME TypeInv, NEW r \in Req
    PROVE  /\ UNCHANGED pc => Goto(r, pc[r])
           /\ UNCHANGED answer => Answer(r, answer[r])
           /\ UNCHANGED row => row' = [row EXCEPT ![r] = row[r]]
           /\ UNCHANGED charged => charged' = [charged EXCEPT ![r] = charged[r]]
BY DEF TypeInv, TypeOK, Goto, Answer

\* Steps that write: the transfer, or what was charged for it.
Writes(r, step, a, x, c) ==
    /\ Goto(r, step) /\ Answer(r, a)
    /\ row' = [row EXCEPT ![r] = x] /\ charged' = [charged EXCEPT ![r] = c]
    /\ UNCHANGED <<fixed, ask, age>>

LEMMA WriteTyped ==
    ASSUME TypeInv, NEW r \in Req, NEW step \in Steps, NEW a \in Answers,
           NEW x \in Rows, NEW c \in 0..2,
           Writes(r, step, a, x, c), LockTypeOK', TalliesGrow
    PROVE  /\ Stepped(r) /\ pc'[r] = step /\ answer'[r] = a /\ row'[r] = x /\ charged'[r] = c
           /\ ask'[r] = ask[r] /\ payers' = payers /\ deployment' = deployment
           /\ payers \in 1..2
<1>1. pc' \in [Req -> Steps] /\ pc'[r] = step /\ \A s \in Req \ {r} : pc'[s] = pc[s]
  BY DEF TypeInv, TypeOK, Goto, Writes
<1>2. /\ answer' \in [Req -> Answers] /\ answer'[r] = a
      /\ \A s \in Req \ {r} : answer'[s] = answer[s]
  BY DEF TypeInv, TypeOK, Answer, Writes
<1>3. /\ row' \in [Req -> {"none", "flight", "live", "closed"}] /\ row'[r] = x
      /\ \A s \in Req \ {r} : row'[s] = row[s]
  BY DEF TypeInv, TypeOK, Rows, Writes
<1>4. /\ charged' \in [Req -> 0..2] /\ charged'[r] = c
      /\ \A s \in Req \ {r} : charged'[s] = charged[s]
  BY DEF TypeInv, TypeOK, Writes
<1>5. TypeOK'
  BY <1>1, <1>2, <1>3, <1>4 DEF TypeInv, TypeOK, TalliesGrow, fixed, Writes
<1> QED  BY <1>1, <1>2, <1>3, <1>4, <1>5 DEF Stepped, Others, fixed, TypeInv, TypeOK, Writes

LEMMA RecoverTyped ==
    ASSUME TypeInv, NEW r \in Req, Recover(r)
    PROVE  /\ TypeInv' /\ Stepped(r) /\ row'[r] = row[r] /\ pc'[r] = "free"
           /\ pc[r] = "recover" /\ Merchant(r) /\ Keyed(r)
           /\ \/ UnderKey(ask[r]) # {} /\ answer'[r] = ReplayOrConflict(r)
              \/ UnderKey(ask[r]) = {} /\ answer'[r] = answer[r]
<1>1. /\ pc[r] = "recover" /\ Goto(r, "free")
      /\ UNCHANGED <<fixed, locks, ask, row, age, charged, loose, faults>>
  BY DEF Recover, AnswerAndFree
<1>2. TalliesGrow /\ LockTypeOK'
  BY <1>1, LocksSame DEF TalliesGrow, TypeInv, TypeOK
<1>3. ASSUME NEW a \in Answers, Answer(r, a) \/ (UNCHANGED answer /\ a = answer[r])
      PROVE  TypeInv' /\ Stepped(r) /\ pc'[r] = "free" /\ answer'[r] = a /\ row'[r] = row[r]
  <2>1. /\ Stepped(r) /\ pc'[r] = "free" /\ answer'[r] = a /\ row'[r] = row[r]
        /\ charged'[r] = charged[r] /\ payers' = payers /\ deployment' = deployment
        /\ payers \in 1..2
    BY <1>1, <1>2, <1>3, TalkTyped DEF Steps, fixed, TypeInv, TypeOK
  <2>2. Placed(r)'
    BY <1>1, <2>1, KeyTyped DEF Placed, Early, Transactions
  <2>3. Charged(r)'
    BY <1>1, <2>1, KeyTyped DEF Charged, Early, Owed, Transactions
  <2> QED  BY <2>1, <2>2, <2>3, OthersPlaced
<1>4. CASE UnderKey(ask[r]) # {}
  <2>1. Answer(r, ReplayOrConflict(r))
    BY <1>4 DEF Recover, AnswerAndFree
  <2>2. ReplayOrConflict(r) \in Answers
    BY KeyTyped DEF Answers
  <2> QED  BY <1>1, <1>3, <1>4, <2>1, <2>2, KeyTyped DEF Placed
<1>5. CASE UnderKey(ask[r]) = {}
  <2>1. UNCHANGED answer
    BY <1>5 DEF Recover
  <2> QED  BY <1>1, <1>3, <1>5, <2>1, KeyTyped DEF Placed
<1> QED  BY <1>4, <1>5

LEMMA CommitTyped ==
    ASSUME TypeInv, NEW r \in Req, Commit(r)
    PROVE  TypeInv' /\ Stepped(r) /\ row'[r] = "live" /\ pc'[r] = "free" /\ answer'[r] = "ok"
<1>1. /\ pc[r] = "commit" /\ Transactions /\ Goto(r, "free") /\ Answer(r, "ok")
      /\ row' = [row EXCEPT ![r] = "live"] /\ charged' = [charged EXCEPT ![r] = payers]
      /\ UNCHANGED <<fixed, locks, ask, age, loose, faults>>
  BY DEF Commit, Created, AnswerAndFree
<1>2. TalliesGrow /\ LockTypeOK' /\ payers \in 0..2
  BY <1>1, LocksSame DEF TalliesGrow, TypeInv, TypeOK
<1>3. /\ Stepped(r) /\ pc'[r] = "free" /\ answer'[r] = "ok" /\ row'[r] = "live"
      /\ charged'[r] = payers /\ payers' = payers /\ deployment' = deployment
      /\ payers \in 1..2
  <2>1. "free" \in Steps /\ "ok" \in Answers /\ "live" \in Rows
    BY DEF Steps, Answers, Rows
  <2>2. Writes(r, "free", "ok", "live", payers)
    BY <1>1 DEF Writes
  <2> QED  BY <1>2, <2>1, <2>2, WriteTyped
<1>4. Placed(r)' /\ Charged(r)'
  BY <1>1, <1>3 DEF Placed, Charged, Early, Owed, Transactions
<1> QED  BY <1>3, <1>4, OthersPlaced

\* Committed, or still under way, while the request is told of an error.
LEMMA CommitUncertainTyped ==
    ASSUME TypeInv, NEW r \in Req, CommitUncertain(r)
    PROVE  /\ TypeInv' /\ Stepped(r) /\ pc[r] = "commit"
           /\ pc'[r] \in {"free", "recover"} /\ answer'[r] = "unknown"
           /\ \/ row'[r] = "live"
              \/ row'[r] = "flight" /\ loose' = loose + 1
<1>1. /\ pc[r] = "commit" /\ Transactions /\ Answer(r, "unknown")
      /\ UNCHANGED <<fixed, locks, ask, age>>
  BY DEF CommitUncertain, Fail
<1>2. TalliesGrow /\ LockTypeOK' /\ payers \in 0..2
  BY <1>1, LocksSame, TalliesDo DEF CommitUncertain, TypeInv, TypeOK
<1>3. Placed(r) /\ Charged(r) /\ charged[r] \in 0..2 /\ charged[r] = 0
  BY <1>1 DEF TypeInv, TypeOK, Charged, Early
<1>4. PICK step \in {"free", "recover"} :
          Goto(r, step) /\ (step = "recover" => Merchant(r) /\ Keyed(r))
  BY DEF CommitUncertain, Fail
<1>5. PICK x \in {"live", "flight"}, c \in 0..2 :
          /\ row' = [row EXCEPT ![r] = x] /\ charged' = [charged EXCEPT ![r] = c]
          /\ c = IF x = "live" THEN payers ELSE 0
          /\ x = "flight" => loose' = loose + 1
  <2>1. CASE Created(r)
    BY <1>2, <2>1 DEF Created
  <2>2. CASE row' = [row EXCEPT ![r] = "flight"] /\ UNCHANGED charged /\ ALoose
    <3>1. charged' = [charged EXCEPT ![r] = 0] /\ loose' = loose + 1 /\ 0 \in 0..2
      BY <1>3, <2>2, SameAt DEF ALoose
    <3> QED  BY <2>2, <3>1
  <2> QED  BY <2>1, <2>2 DEF CommitUncertain
<1>6. /\ Stepped(r) /\ pc'[r] = step /\ answer'[r] = "unknown" /\ row'[r] = x
      /\ charged'[r] = c /\ ask'[r] = ask[r] /\ payers' = payers
      /\ deployment' = deployment /\ payers \in 1..2
  <2>1. step \in Steps /\ "unknown" \in Answers /\ x \in Rows
    BY DEF Steps, Answers, Rows
  <2>2. Writes(r, step, "unknown", x, c)
    BY <1>1, <1>4, <1>5 DEF Writes
  <2> QED  BY <1>2, <2>1, <2>2, WriteTyped
<1>7. Placed(r)'
  BY <1>1, <1>4, <1>6 DEF Placed, Early, Transactions, Merchant, Keyed
<1>8. Charged(r)'
  BY <1>1, <1>4, <1>5, <1>6 DEF Charged, Early, Transactions, Owed
<1> QED  BY <1>1, <1>4, <1>5, <1>6, <1>7, <1>8, OthersPlaced

LEMMA DebitTyped ==
    ASSUME TypeInv, NEW r \in Req, Debit(r) \/ DebitRefused(r)
    PROVE  /\ TypeInv' /\ Stepped(r) /\ row'[r] = "none" /\ pc[r] = "debit"
           /\ pc'[r] \in {"debit", "save", "undo"}
<1>1. pc[r] = "debit" /\ UNCHANGED <<fixed, locks, ask, row, age, loose, faults>>
  BY DEF Debit, DebitRefused
<1>2. TalliesGrow /\ LockTypeOK'
  BY <1>1, LocksSame DEF TalliesGrow, TypeInv, TypeOK
<1>3. /\ row[r] = "none" /\ ~Transactions /\ charged[r] < payers /\ answer[r] = "none"
      /\ charged[r] \in 0..2 /\ payers \in 1..2
  BY <1>1 DEF TypeInv, TypeOK, Placed, Charged
<1>4. CASE Debit(r)
  <2> DEFINE c == charged[r] + 1
             step == IF c = payers THEN "save" ELSE "debit"
  <2>1. charged' = [charged EXCEPT ![r] = c] /\ Goto(r, step) /\ UNCHANGED answer
    BY <1>4 DEF Debit
  <2>2. c \in 0..2 /\ c <= payers /\ (step = "save" => c = payers)
        /\ (step = "debit" => c < payers) /\ step \in {"save", "debit"}
    BY <1>3
  <2> HIDE DEF c, step
  <2>3. /\ Stepped(r) /\ pc'[r] = step /\ answer'[r] = "none" /\ row'[r] = "none"
        /\ charged'[r] = c /\ payers' = payers /\ deployment' = deployment
    <3>1. Answer(r, "none") /\ row' = [row EXCEPT ![r] = "none"]
      BY <1>1, <1>3, <2>1, SameAt
    <3>2. step \in Steps /\ "none" \in Answers /\ "none" \in Rows
      BY <2>2 DEF Steps, Answers, Rows
    <3>3. Writes(r, step, "none", "none", c)
      BY <1>1, <2>1, <3>1 DEF Writes
    <3> QED  BY <1>2, <2>2, <3>2, <3>3, WriteTyped
  <2>4. Placed(r)' /\ Charged(r)'
    BY <1>3, <2>2, <2>3 DEF Placed, Charged, Early, Transactions
  <2> QED  BY <1>1, <2>2, <2>3, <2>4, OthersPlaced
<1>5. CASE DebitRefused(r)
  <2>1. PICK a \in {"refused", "unknown"} : Answer(r, a) /\ Goto(r, "undo") /\ UNCHANGED charged
    BY <1>5 DEF DebitRefused
  <2>2. /\ Stepped(r) /\ pc'[r] = "undo" /\ row'[r] = "none"
        /\ payers' = payers /\ deployment' = deployment
    <3>1. /\ row' = [row EXCEPT ![r] = "none"]
          /\ charged' = [charged EXCEPT ![r] = charged[r]]
      BY <1>1, <1>3, <2>1, SameAt
    <3>2. "undo" \in Steps /\ a \in Answers /\ "none" \in Rows
      BY DEF Steps, Answers, Rows
    <3>3. Writes(r, "undo", a, "none", charged[r])
      BY <1>1, <2>1, <3>1 DEF Writes
    <3> QED  BY <1>2, <1>3, <3>2, <3>3, WriteTyped
  <2>3. Placed(r)' /\ Charged(r)'
    BY <1>3, <2>2 DEF Placed, Charged, Early, Transactions
  <2> QED  BY <1>1, <2>2, <2>3, OthersPlaced
<1> QED  BY <1>4, <1>5

LEMMA SaveTyped ==
    ASSUME TypeInv, NEW r \in Req, Save(r)
    PROVE  /\ TypeInv' /\ Stepped(r) /\ pc[r] = "save"
           /\ \/ row'[r] = "live" /\ ~KeyTaken(r) /\ answer'[r] = "ok" /\ pc'[r] = "free"
              \/ row'[r] = "none" /\ answer'[r] = "unknown" /\ pc'[r] \in {"free", "undo"}
<1>1. pc[r] = "save" /\ UNCHANGED <<fixed, locks, ask, age, charged>>
  BY DEF Save
<1>2. TalliesGrow /\ LockTypeOK'
  BY <1>1, TalliesDo, LocksSame DEF Save, TypeInv
<1>3. /\ row[r] = "none" /\ ~Transactions /\ charged[r] = payers
      /\ charged[r] \in 0..2 /\ payers \in 1..2
  BY <1>1 DEF TypeInv, TypeOK, Placed, Charged
<1>4. PICK x \in {"none", "live"}, a \in {"ok", "unknown"}, step \in {"free", "undo"} :
          /\ row' = [row EXCEPT ![r] = x] /\ Answer(r, a) /\ Goto(r, step)
          /\ x = "live" => ~KeyTaken(r) /\ a = "ok" /\ step = "free"
          /\ x = "none" => a = "unknown" /\ (step = "undo" \/ AFault)
  <2>1. CASE /\ ~KeyTaken(r) /\ row' = [row EXCEPT ![r] = "live"] /\ AnswerAndFree(r, "ok")
    BY <2>1 DEF AnswerAndFree
  <2>2. CASE Goto(r, "undo") /\ Answer(r, "unknown") /\ UNCHANGED row
    BY <1>3, <2>2, SameAt
  <2>3. CASE AnswerAndFree(r, "unknown") /\ UNCHANGED row /\ AFault
    BY <1>3, <2>3, SameAt DEF AnswerAndFree
  <2> QED  BY <2>1, <2>2, <2>3 DEF Save
<1>5. /\ Stepped(r) /\ pc'[r] = step /\ answer'[r] = a /\ row'[r] = x
      /\ charged'[r] = payers /\ payers' = payers /\ deployment' = deployment
  <2>1. charged' = [charged EXCEPT ![r] = payers]
    BY <1>1, <1>3, SameAt
  <2>2. step \in Steps /\ a \in Answers /\ x \in Rows /\ payers \in 0..2
    BY <1>3 DEF Steps, Answers, Rows
  <2>3. Writes(r, step, a, x, payers)
    BY <1>1, <1>4, <2>1 DEF Writes
  <2> QED  BY <1>2, <2>2, <2>3, WriteTyped
<1>6. AFault => faults' # 0
  BY DEF AFault, TypeInv, TypeOK
<1>7. Placed(r)' /\ Charged(r)'
  BY <1>3, <1>4, <1>5, <1>6 DEF Placed, Charged, Early, Transactions, Owed
<1> QED  BY <1>1, <1>4, <1>5, <1>7, OthersPlaced

LEMMA UndoTyped ==
    ASSUME TypeInv, NEW r \in Req, Undo(r)
    PROVE  /\ TypeInv' /\ Stepped(r) /\ pc[r] = "undo" /\ pc'[r] = "free" /\ row'[r] = "none"
           /\ answer'[r] = answer[r]
<1>1. pc[r] = "undo" /\ Goto(r, "free") /\ UNCHANGED <<fixed, locks, ask, answer, row, age>>
  BY DEF Undo
<1>2. TalliesGrow /\ LockTypeOK'
  BY <1>1, TalliesDo, LocksSame DEF Undo, TypeInv
<1>3. row[r] = "none" /\ ~Transactions /\ charged[r] \in 0..2 /\ answer[r] \in Answers
  BY <1>1 DEF TypeInv, TypeOK, Placed
<1>4. PICK c \in 0..2 :
          charged' = [charged EXCEPT ![r] = c] /\ (c = 0 \/ faults' # 0)
  <2>1. CASE UndoCharges(r)
    BY <2>1 DEF UndoCharges
  <2>2. CASE UNCHANGED charged /\ AFault
    <3>1. charged' = [charged EXCEPT ![r] = charged[r]]
      BY <2>2, SameAt
    <3>2. faults' # 0
      BY <2>2 DEF AFault, TypeInv, TypeOK
    <3> QED  BY <1>3, <3>1, <3>2
  <2> QED  BY <2>1, <2>2 DEF Undo
<1>5. /\ Stepped(r) /\ pc'[r] = "free" /\ answer'[r] = answer[r] /\ row'[r] = "none"
      /\ charged'[r] = c /\ payers' = payers /\ deployment' = deployment
  <2>1. Answer(r, answer[r]) /\ row' = [row EXCEPT ![r] = "none"]
    BY <1>1, <1>3, SameAt
  <2>2. "free" \in Steps /\ "none" \in Rows
    BY DEF Steps, Rows
  <2>3. Writes(r, "free", answer[r], "none", c)
    BY <1>1, <1>4, <2>1 DEF Writes
  <2> QED  BY <1>2, <1>3, <2>2, <2>3, WriteTyped
<1>6. Placed(r)' /\ Charged(r)'
  BY <1>3, <1>4, <1>5 DEF Placed, Charged, Early, Transactions, Owed
<1> QED  BY <1>1, <1>5, <1>6, OthersPlaced

LEMMA ReleaseLocksTyped ==
    ASSUME TypeInv, NEW r \in Req, ReleaseLocks(r)
    PROVE  /\ TypeInv' /\ Stepped(r) /\ row'[r] = row[r] /\ answer'[r] = answer[r]
           /\ pc[r] = "free" /\ pc'[r] \in {"free", "done"}
<1>1. pc[r] = "free" /\ UNCHANGED <<fixed, ask, answer, row, age, charged>>
  BY DEF ReleaseLocks
<1>2. TalliesGrow
  BY TalliesDo DEF ReleaseLocks, TypeInv
<1>3. deployment' = deployment /\ LockTypeOK
  BY <1>1 DEF fixed, TypeInv, TypeOK
<1>4. LockTypeOK'
  <2>1. CASE UNCHANGED locks
    BY <1>1, <2>1, LocksSame DEF TypeInv
  <2>2. CASE \E k \in Key : Release(r, k) \/ ReleaseFails(r, k)
    BY <1>3, <2>2, ReleaseDoes DEF LetGo
  <2> QED  BY <2>1, <2>2 DEF ReleaseLocks
<1>5. PICK step \in {"free", "done"} :
          Goto(r, step)
  BY <1>1, SameAt DEF ReleaseLocks
<1>6. /\ Answer(r, answer[r]) /\ row' = [row EXCEPT ![r] = row[r]]
      /\ charged' = [charged EXCEPT ![r] = charged[r]]
  BY <1>1, SameAt
<1>7. /\ answer[r] \in Answers /\ row[r] \in Rows /\ charged[r] \in 0..2 /\ step \in Steps
  BY DEF TypeInv, TypeOK, Rows, Steps
<1>8. Writes(r, step, answer[r], row[r], charged[r])
  BY <1>1, <1>5, <1>6 DEF Writes
<1>9. /\ Stepped(r) /\ pc'[r] = step /\ answer'[r] = answer[r] /\ row'[r] = row[r]
      /\ charged'[r] = charged[r] /\ payers' = payers /\ deployment' = deployment
      /\ faults \in Nat /\ (faults' = 0 => faults = 0)
  BY <1>2, <1>4, <1>7, <1>8, WriteTyped DEF TalliesGrow, TypeInv, TypeOK
<1>10. Placed(r)' /\ Charged(r)'
  BY <1>1, <1>9, KeyTyped DEF Placed, Charged, Early, Transactions, Owed
<1> QED  BY <1>1, <1>9, <1>10, OthersPlaced

\* The transfer of a request is closed, or its commit ends, or time passes.
LEMMA CloseTyped ==
    ASSUME TypeInv, NEW r \in Req, Close(r)
    PROVE  /\ TypeInv' /\ Stepped(r) /\ row[r] = "live" /\ row'[r] = "closed"
           /\ UNCHANGED <<pc, answer>>
<1>1. /\ row[r] = "live" /\ row' = [row EXCEPT ![r] = "closed"]
      /\ charged' = [charged EXCEPT ![r] = 0]
      /\ UNCHANGED <<fixed, locks, pc, ask, answer, age, loose, faults>>
  BY DEF Close
<1>2. TalliesGrow /\ LockTypeOK' /\ faults' = faults
  BY <1>1, LocksSame DEF TalliesGrow, TypeInv, TypeOK
<1>3. /\ answer[r] \in Answers /\ pc[r] \in Steps /\ "closed" \in Rows /\ 0 \in 0..2
  BY DEF TypeInv, TypeOK, Rows
<1>4. Writes(r, pc[r], answer[r], "closed", 0)
  BY <1>1, SameAt DEF Writes
<1>5. /\ Stepped(r) /\ pc'[r] = pc[r] /\ answer'[r] = answer[r] /\ row'[r] = "closed"
      /\ charged'[r] = 0 /\ ask'[r] = ask[r] /\ payers' = payers /\ deployment' = deployment
      /\ payers \in 1..2
  BY <1>2, <1>3, <1>4, WriteTyped
<1>6. Placed(r)'
  BY <1>1, <1>5, KeyTyped DEF Placed, Transactions, Merchant, Keyed
<1>7. pc[r] \notin {"debit", "save"}
  BY <1>1, KeyTyped DEF Placed
<1>8. Charged(r)'
  BY <1>1, <1>2, <1>5, <1>7, KeyTyped DEF Charged, Transactions, Owed
<1> QED  BY <1>1, <1>5, <1>6, <1>8, OthersPlaced

LEMMA LandTyped ==
    ASSUME TypeInv, NEW r \in Req, Land(r)
    PROVE  /\ TypeInv' /\ Stepped(r) /\ row[r] = "flight" /\ row'[r] \in {"live", "none"}
           /\ UNCHANGED <<pc, answer>>
<1>1. /\ row[r] = "flight"
      /\ UNCHANGED <<fixed, locks, pc, ask, answer, age, loose, faults>>
  BY DEF Land
<1>2. TalliesGrow /\ LockTypeOK' /\ payers \in 0..2
  BY <1>1, LocksSame DEF TalliesGrow, TypeInv, TypeOK
<1>3. Transactions /\ charged[r] = 0 /\ pc[r] \notin Early \cup {"debit", "save", "undo"}
  BY <1>1, KeyTyped DEF Placed, Charged, Owed
<1>4. PICK x \in {"live", "none"}, c \in 0..2 :
          /\ row' = [row EXCEPT ![r] = x] /\ charged' = [charged EXCEPT ![r] = c]
          /\ c = IF x = "live" THEN payers ELSE 0
  <2>1. CASE Created(r)
    BY <1>2, <2>1 DEF Created
  <2>2. CASE row' = [row EXCEPT ![r] = "none"] /\ UNCHANGED charged
    <3>1. charged' = [charged EXCEPT ![r] = charged[r]]
      BY <2>2, SameAt
    <3>2. charged' = [charged EXCEPT ![r] = 0]
      BY <1>3, <3>1
    <3>3. 0 \in 0..2 /\ "none" # "live"
      OBVIOUS
    <3> QED  BY <2>2, <3>2, <3>3
  <2> QED  BY <2>1, <2>2 DEF Land
<1>5. /\ answer[r] \in Answers /\ pc[r] \in Steps /\ x \in Rows
  BY DEF TypeInv, TypeOK, Rows
<1>6. Writes(r, pc[r], answer[r], x, c)
  BY <1>1, <1>4, SameAt DEF Writes
<1>7. /\ Stepped(r) /\ pc'[r] = pc[r] /\ answer'[r] = answer[r] /\ row'[r] = x
      /\ charged'[r] = c /\ ask'[r] = ask[r] /\ payers' = payers /\ deployment' = deployment
  BY <1>2, <1>5, <1>6, WriteTyped
<1>8. Placed(r)'
  BY <1>1, <1>3, <1>7, KeyTyped DEF Placed, Transactions, Merchant, Keyed
<1>9. Charged(r)'
  BY <1>3, <1>4, <1>7 DEF Charged, Transactions, Owed
<1>10. TypeInv'
  BY <1>7, <1>8, <1>9, OthersPlaced
<1> QED  BY <1>1, <1>7, <1>10

\* Steps of time and of the locks: the requests stay where they are.
LEMMA RestTyped ==
    ASSUME TypeInv, UNCHANGED <<fixed, pc, ask, answer, row, charged>>, LockTypeOK',
           TalliesGrow, age' \in [Req -> 0..2]
    PROVE  TypeInv'
<1>1. TypeOK'
  BY DEF TypeInv, TypeOK, TalliesGrow, fixed
<1>2. ASSUME NEW s \in Req  PROVE Placed(s)' /\ Charged(s)'
  <2>1. /\ payers' = payers /\ deployment' = deployment
        /\ faults \in Nat /\ (faults' = 0 => faults = 0)
    BY DEF fixed, TypeInv, TypeOK, TalliesGrow
  <2> QED  BY <2>1, KeyTyped DEF Placed, Charged, Owed, Keyed, Merchant, Transactions
<1> QED  BY <1>1, <1>2 DEF TypeInv

LEMMA AgeTyped ==
    ASSUME TypeInv, NEW r \in Req, Age(r)
    PROVE  /\ TypeInv' /\ UNCHANGED <<fixed, locks, pc, ask, answer, row, charged, loose, faults>>
           /\ \A s \in Req : age[s] <= age'[s]
<1>1. /\ age[r] < 2 /\ age' = [age EXCEPT ![r] = @ + 1]
      /\ UNCHANGED <<fixed, locks, pc, ask, answer, row, charged, loose, faults>>
  BY DEF Age
<1>2. age' \in [Req -> 0..2] /\ \A s \in Req : age[s] <= age'[s]
  BY <1>1 DEF TypeInv, TypeOK
<1>3. TalliesGrow /\ LockTypeOK'
  BY <1>1, LocksSame DEF TalliesGrow, TypeInv, TypeOK
<1> QED  BY <1>1, <1>2, <1>3, RestTyped

LEMMA LockLapsesTyped ==
    ASSUME TypeInv, NEW r \in Req, NEW k \in Key, LockLapses(r, k)
    PROVE  TypeInv' /\ UNCHANGED <<fixed, pc, ask, answer, row, age, charged>> /\ loose' = loose + 1
<1>1. UNCHANGED <<fixed, pc, ask, answer, row, age, charged>> /\ Lapse(r, k) /\ ALoose
  BY DEF LockLapses
<1>2. TalliesGrow /\ loose' = loose + 1
  BY <1>1, TalliesDo DEF TypeInv
<1>3. LockTypeOK'
  BY <1>1, LapseDoes DEF fixed, TypeInv, TypeOK
<1>4. age' \in [Req -> 0..2]
  BY <1>1 DEF TypeInv, TypeOK
<1> QED  BY <1>1, <1>2, <1>3, <1>4, RestTyped

LEMMA KeyLapsesTyped ==
    ASSUME TypeInv, NEW k \in Key, KeyLapses(k)
    PROVE  /\ TypeInv'
           /\ UNCHANGED <<fixed, pc, ask, answer, row, age, charged, loose, faults, grip>>
<1>1. /\ UNCHANGED <<fixed, pc, ask, answer, row, age, charged, loose, faults>>
      /\ OrphanLapses(k)
  BY DEF KeyLapses
<1>2. TalliesGrow /\ age' \in [Req -> 0..2]
  BY <1>1 DEF TypeInv, TypeOK, TalliesGrow
<1>3. LockTypeOK' /\ UNCHANGED grip
  BY <1>1, OrphanRoom DEF fixed, TypeInv, TypeOK
<1> QED  BY <1>1, <1>2, <1>3, RestTyped

LEMMA StopTyped ==
    ASSUME TypeInv, NEW r \in Req, Stop(r)
    PROVE  /\ TypeInv' /\ TalliesGrow /\ loose' = loose
           /\ UNCHANGED <<fixed, ask, row, age, charged>>
           /\ \A s \in Req :
                 \/ pc'[s] = pc[s] /\ answer'[s] = answer[s]
                 \/ pc[s] # "idle" /\ pc'[s] = "done" /\ answer'[s] = "unknown"
<1> DEFINE S == IF deployment = "production" THEN {r} ELSE Req
           Gone == {s \in S : pc[s] \notin {"idle", "done"}}
<1>1. /\ Abandon(S) /\ AFault /\ UNCHANGED <<fixed, ask, row, age, charged>>
      /\ pc' = [s \in Req |-> IF s \in Gone THEN "done" ELSE pc[s]]
      /\ answer' = [s \in Req |-> IF s \in Gone THEN "unknown" ELSE answer[s]]
  BY DEF Stop
<1>2. \A s \in Gone : pc[s] # "idle"
  OBVIOUS
<1>3. TalliesGrow /\ loose' = loose /\ faults' # 0
  BY <1>1, TalliesDo DEF TypeInv, TypeOK, AFault
<1>4. LockTypeOK'
  BY <1>1, AbandonDoes DEF fixed, TypeInv, TypeOK
<1> HIDE DEF Gone
<1>5. /\ pc' \in [Req -> Steps] /\ answer' \in [Req -> Answers]
      /\ \A s \in Req :
            \/ pc'[s] = pc[s] /\ answer'[s] = answer[s]
            \/ pc[s] # "idle" /\ pc'[s] = "done" /\ answer'[s] = "unknown"
  BY <1>1, <1>2 DEF TypeInv, TypeOK, Steps, Answers
<1>6. TypeOK'
  BY <1>1, <1>3, <1>4, <1>5 DEF TypeInv, TypeOK, TalliesGrow, fixed
<1>7. ASSUME NEW s \in Req  PROVE Placed(s)' /\ Charged(s)'
  <2>1. payers' = payers /\ deployment' = deployment
    BY <1>1 DEF fixed
  <2>2. CASE pc'[s] = pc[s] /\ answer'[s] = answer[s]
    BY <1>1, <1>3, <2>1, <2>2, KeyTyped
    DEF Placed, Charged, Owed, Keyed, Merchant, Transactions
  <2>3. CASE pc'[s] = "done"
    BY <1>1, <1>3, <2>1, <2>3, KeyTyped
    DEF Placed, Charged, Owed, Keyed, Merchant, Transactions, Early
  <2> QED  BY <1>5, <2>2, <2>3
<1> QED  BY <1>1, <1>3, <1>5, <1>6, <1>7 DEF TypeInv

LEMMA NextTyped ==
    ASSUME TypeInv, [Next]_vars
    PROVE  TypeInv'
<1>1. ASSUME NEW r \in Req, NEW c \in Channels, NEW k \in Keys \cup {NoKey}, NEW p \in Payload,
             Start(r, c, k, p)
      PROVE  TypeInv'
  BY <1>1, StartTyped
<1>2. ASSUME NEW r \in Req, Lookup(r) \/ LockKey(r) \/ Relook(r) \/ LockPay(r) \/ LockBusy(r)
      PROVE  TypeInv'
  BY <1>2, LookupTyped, LockKeyTyped, RelookTyped, LockPayTyped, LockBusyTyped
<1>3. ASSUME NEW r \in Req,
             \/ Check(r) \/ Commit(r) \/ CommitRefused(r) \/ CommitFails(r)
             \/ CommitUncertain(r) \/ Recover(r)
      PROVE  TypeInv'
  BY <1>3, CheckTyped, CommitTyped, CommitEndsTyped, CommitUncertainTyped, RecoverTyped
<1>4. ASSUME NEW r \in Req,
             Debit(r) \/ DebitRefused(r) \/ Save(r) \/ Undo(r) \/ ReleaseLocks(r)
      PROVE  TypeInv'
  BY <1>4, DebitTyped, SaveTyped, UndoTyped, ReleaseLocksTyped
<1>5. ASSUME NEW r \in Req, Close(r) \/ Land(r) \/ Age(r) \/ Stop(r)
      PROVE  TypeInv'
  BY <1>5, CloseTyped, LandTyped, AgeTyped, StopTyped
<1>6. ASSUME NEW k \in Key, KeyLapses(k) \/ \E r \in Req : LockLapses(r, k)
      PROVE  TypeInv'
  BY <1>6, KeyLapsesTyped, LockLapsesTyped
<1>7. CASE UNCHANGED vars
  <2>1. UNCHANGED <<fixed, pc, ask, answer, row, charged>> /\ TalliesGrow
        /\ age' \in [Req -> 0..2] /\ LockTypeOK'
    BY <1>7, LocksSame DEF vars, TypeInv, TypeOK, TalliesGrow
  <2> QED  BY <2>1, RestTyped
<1> QED  BY <1>1, <1>2, <1>3, <1>4, <1>5, <1>6, <1>7 DEF Next

\* Every step finds and leaves the requests, their transfers and the locks in states the
\* code can be in, whatever their number, the keys and the deployment.
THEOREM CreationTypeCorrect == Spec => []TypeOK
<1>1. TypeInv => TypeOK
  BY DEF TypeInv
<1> QED  BY InitTyped, NextTyped, <1>1, PTL DEF Spec

\* In every deployment, and at every moment the code can be asked, the wallets are
\* charged for the transfers that exist and are not closed, in full, and for nothing else:
\* at all times with MongoDB transactions; without them for a request that is over, as
\* long as no process stopped, no compensation failed and no merchant's save did.
THEOREM CreationChargedForTransfers == Spec => []ChargedForTransfers
<1>1. TypeInv => ChargedForTransfers
  BY DEF TypeInv, Charged, Owed, ChargedForTransfers
<1> QED  BY InitTyped, NextTyped, <1>1, PTL DEF Spec

------------------------------------------------------------------------------
(* One transfer for a key, and no refusal of a transfer that exists *)

\* What a step may do to a request: ask once, keep its transfer, create one while its
\* key is free, and answer.
Moved(s) ==
    /\ pc[s] # "idle" => ask'[s] = ask[s]
    /\ row[s] \in {"live", "closed"} => row'[s] \in {"live", "closed"}
    /\ row[s] = "none" /\ row'[s] # "none" => ~KeyTaken(s) /\ UNCHANGED ask /\ Others(s)
    /\ \/ row'[s] = "none"
       \/ answer'[s] \notin Refusals
       \/ answer'[s] = answer[s] /\ row[s] # "none"
       \/ pc[s] = "recover" /\ UnderKey(ask[s]) # {} /\ answer'[s] = ReplayOrConflict(s)

LEMMA OthersMoved ==
    ASSUME TypeInv, NEW r \in Req, Others(r), NEW s \in Req \ {r}
    PROVE  Moved(s)
BY DEF Moved, Others

LEMMA AskerMoved ==
    ASSUME TypeInv, NEW r \in Req, NEW c \in Channels, NEW k \in Keys \cup {NoKey},
           NEW p \in Payload, Start(r, c, k, p)
    PROVE  Moved(r) /\ Others(r)
<1>1. pc[r] = "idle"
  BY DEF Start
<1>2. row[r] = "none" /\ row'[r] = "none" /\ Others(r)
  BY <1>1, StartTyped, KeyTyped DEF Placed, Early, Stepped
<1> QED  BY <1>1, <1>2 DEF Moved

LEMMA TakerMoved ==
    ASSUME TypeInv, NEW r \in Req,
           \/ Lookup(r) \/ LockKey(r) \/ Relook(r) \/ LockPay(r) \/ LockBusy(r)
           \/ Check(r) \/ CommitRefused(r) \/ CommitFails(r) \/ Debit(r) \/ DebitRefused(r)
    PROVE  Moved(r) /\ Others(r)
<1>1. row'[r] = "none" /\ Others(r)
  BY LookupTyped, LockKeyTyped, RelookTyped, LockPayTyped, LockBusyTyped, CheckTyped,
     CommitEndsTyped, DebitTyped DEF Stepped
<1>2. pc[r] \in Early \cup {"debit"} /\ UNCHANGED ask
  BY DEF Lookup, LockKey, Relook, LockPay, LockBusy, Check, CommitRefused, CommitFails,
         Debit, DebitRefused, Early
<1>3. row[r] = "none"
  BY <1>2, KeyTyped DEF Placed
<1> QED  BY <1>1, <1>2, <1>3 DEF Moved

LEMMA MakerMoved ==
    ASSUME TypeInv, NEW r \in Req,
           Commit(r) \/ CommitUncertain(r) \/ Save(r) \/ Undo(r) \/ Recover(r) \/ ReleaseLocks(r)
    PROVE  Moved(r) /\ Others(r)
<1>1. UNCHANGED ask
  BY DEF Commit, CommitUncertain, Save, Undo, Recover, ReleaseLocks
<1>2. CASE Commit(r)
  <2>1. ~KeyTaken(r) /\ pc[r] = "commit"
    BY <1>2 DEF Commit
  <2>2. row[r] = "none" /\ row'[r] = "live" /\ answer'[r] = "ok" /\ Others(r)
    BY <1>2, <2>1, CommitTyped, KeyTyped DEF Placed, Early, Stepped
  <2> QED  BY <1>1, <2>1, <2>2 DEF Moved, Refusals
<1>3. CASE CommitUncertain(r)
  <2>1. ~KeyTaken(r) /\ pc[r] = "commit"
    BY <1>3 DEF CommitUncertain
  <2>2. row[r] = "none" /\ answer'[r] = "unknown" /\ Others(r)
    BY <1>3, <2>1, CommitUncertainTyped, KeyTyped DEF Placed, Early, Stepped
  <2> QED  BY <1>1, <2>1, <2>2 DEF Moved, Refusals
<1>4. CASE Save(r)
  <2>1. pc[r] = "save" /\ row[r] = "none" /\ answer'[r] \in {"ok", "unknown"} /\ Others(r)
        /\ (row'[r] # "none" => ~KeyTaken(r))
    BY <1>4, SaveTyped, KeyTyped DEF Placed, Stepped
  <2> QED  BY <1>1, <2>1 DEF Moved, Refusals
<1>5. CASE Undo(r)
  <2>1. row[r] = "none" /\ row'[r] = "none" /\ Others(r)
    BY <1>5, UndoTyped, KeyTyped DEF Placed, Stepped
  <2> QED  BY <1>1, <2>1 DEF Moved
<1>6. CASE Recover(r)
  <2>1. /\ pc[r] = "recover" /\ row'[r] = row[r] /\ Others(r)
        /\ \/ UnderKey(ask[r]) # {} /\ answer'[r] = ReplayOrConflict(r)
           \/ answer'[r] = answer[r]
    BY <1>6, RecoverTyped DEF Stepped
  <2> QED  BY <1>1, <2>1 DEF Moved
<1>7. CASE ReleaseLocks(r)
  <2>1. row'[r] = row[r] /\ answer'[r] = answer[r] /\ Others(r)
    BY <1>7, ReleaseLocksTyped DEF Stepped
  <2> QED  BY <1>1, <2>1 DEF Moved
<1> QED  BY <1>2, <1>3, <1>4, <1>5, <1>6, <1>7

LEMMA LandMoved ==
    ASSUME TypeInv, NEW r \in Req, Close(r) \/ Land(r)
    PROVE  Moved(r) /\ Others(r)
<1>1. UNCHANGED <<ask, answer>>
  BY DEF Close, Land
<1>2. /\ Others(r)
      /\ \/ row[r] = "live" /\ row'[r] = "closed"
         \/ row[r] = "flight"
  BY CloseTyped, LandTyped DEF Stepped
<1> QED  BY <1>1, <1>2 DEF Moved

LEMMA NextMoves ==
    ASSUME TypeInv, [Next]_vars, NEW s \in Req
    PROVE  Moved(s)
<1>1. ASSUME NEW r \in Req, Moved(r) /\ Others(r)
      PROVE  Moved(s)
  BY <1>1, OthersMoved
<1>2. ASSUME NEW r \in Req, NEW c \in Channels, NEW k \in Keys \cup {NoKey}, NEW p \in Payload,
             Start(r, c, k, p)
      PROVE  Moved(s)
  BY <1>1, <1>2, AskerMoved
<1>3. ASSUME NEW r \in Req,
             \/ Lookup(r) \/ LockKey(r) \/ Relook(r) \/ LockPay(r) \/ LockBusy(r)
             \/ Check(r) \/ CommitRefused(r) \/ CommitFails(r) \/ Debit(r) \/ DebitRefused(r)
      PROVE  Moved(s)
  BY <1>1, <1>3, TakerMoved
<1>4. ASSUME NEW r \in Req,
             \/ Commit(r) \/ CommitUncertain(r) \/ Save(r) \/ Undo(r) \/ Recover(r)
             \/ ReleaseLocks(r) \/ Close(r) \/ Land(r)
      PROVE  Moved(s)
  BY <1>1, <1>4, MakerMoved, LandMoved
<1>5. CASE UNCHANGED <<ask, answer, row>>
  BY <1>5 DEF Moved
<1>6. ASSUME NEW r \in Req, Stop(r)
      PROVE  Moved(s)
  <2>1. UNCHANGED <<ask, row>> /\ answer'[s] \in {answer[s], "unknown"}
    BY <1>6, StopTyped
  <2> QED  BY <2>1 DEF Moved, Refusals
<1>7. ASSUME NEW r \in Req, Age(r)
      PROVE  Moved(s)
  BY <1>5, <1>7, AgeTyped
<1>8. ASSUME NEW k \in Key, KeyLapses(k) \/ \E r \in Req : LockLapses(r, k)
      PROVE  Moved(s)
  BY <1>5, <1>8, KeyLapsesTyped, LockLapsesTyped
<1>9. CASE UNCHANGED vars
  BY <1>5, <1>9 DEF vars
<1> QED  BY <1>2, <1>3, <1>4, <1>6, <1>7, <1>8, <1>9 DEF Next

\* What a request asked for is fixed once its transfer exists.
LEMMA AskFixed ==
    ASSUME TypeInv, [Next]_vars, NEW s \in Req, row[s] # "none"
    PROVE  ask'[s] = ask[s]
<1>1. pc[s] # "idle"
  BY KeyTyped DEF Placed, Early
<1> QED  BY <1>1, NextMoves DEF Moved

\* A key is taken by each transfer under it.
LEMMA TakenBy ==
    ASSUME NEW r \in Req, NEW s \in Req, ~KeyTaken(r), Keyed(r), row[s] # "none",
           ask[s].key = ask[r].key, SameKey(ask[r], ask[s])
    PROVE  FALSE
BY DEF KeyTaken, Keyed

LEMMA OnePerKeyKept ==
    ASSUME TypeInv, [Next]_vars, OneTransferPerKey
    PROVE  OneTransferPerKey'
<1> SUFFICES ASSUME NEW r \in Req, NEW s \in Req, row'[r] # "none", row'[s] # "none",
                    Keyed(r)', ask'[s].key = ask'[r].key, SameKey(ask'[r], ask'[s]), r # s
             PROVE  FALSE
  BY DEF OneTransferPerKey
<1>1. Moved(r) /\ Moved(s)
  BY NextMoves
<1>2. CASE row[r] = "none"
  <2>1. ~KeyTaken(r) /\ UNCHANGED ask /\ row'[s] = row[s]
    BY <1>1, <1>2 DEF Moved, Others
  <2> QED  BY <2>1, TakenBy DEF Keyed
<1>3. CASE row[s] = "none"
  <2>1. ~KeyTaken(s) /\ UNCHANGED ask /\ row'[r] = row[r]
    BY <1>1, <1>3 DEF Moved, Others
  <2> QED  BY <2>1, TakenBy DEF Keyed, SameKey
<1>4. CASE row[r] # "none" /\ row[s] # "none"
  <2>1. ask'[r] = ask[r] /\ ask'[s] = ask[s]
    BY <1>4, AskFixed
  <2> QED  BY <1>4, <2>1 DEF OneTransferPerKey, Keyed
<1> QED  BY <1>2, <1>3, <1>4

\* A key creates one transfer at most, whatever the deployment, the locks that lapse or
\* are fallen through, the processes that stop and the requests that race with it: the
\* unique index decides at the commit, and nothing changes what a transfer was asked with.
THEOREM CreationOneTransferPerKey == Spec => []OneTransferPerKey
<1>1. Init => TypeInv /\ OneTransferPerKey
  BY InitTyped DEF Init, OneTransferPerKey
<1>2. TypeInv /\ OneTransferPerKey /\ [Next]_vars => (TypeInv /\ OneTransferPerKey)'
  BY NextTyped, OnePerKeyKept
<1> QED  BY <1>1, <1>2, PTL DEF Spec

\* A refusal, from the moment it is decided to the moment it is given.
RefusedInv == \A r \in Req : answer[r] \in Refusals => row[r] = "none"

\* The merchants' API looks for its key's transfer before it tells a refusal: it finds its
\* own, or nothing.
LEMMA FoundIsOwn ==
    ASSUME TypeInv, OneTransferPerKey, NEW r \in Req, Keyed(r), row[r] # "none",
           UnderKey(ask[r]) # {}
    PROVE  ReplayOrConflict(r) = "replay"
<1>1. ASSUME NEW s \in UnderKey(ask[r])  PROVE SameRequest(ask[r], ask[s])
  <2>1. s \in Req /\ row[s] # "none" /\ Keyed(s) /\ SameKey(ask[r], ask[s])
    BY DEF UnderKey
  <2>2. s = r
    BY <2>1 DEF OneTransferPerKey, SameKey
  <2> QED  BY <2>2 DEF SameRequest
<1> QED  BY <1>1 DEF ReplayOrConflict

LEMMA RefusedKept ==
    ASSUME TypeInv, [Next]_vars, OneTransferPerKey, RefusedInv
    PROVE  RefusedInv'
<1> SUFFICES ASSUME NEW r \in Req, answer'[r] \in Refusals, row'[r] # "none"
             PROVE  FALSE
  BY DEF RefusedInv
<1>1. Moved(r)
  BY NextMoves
<1>2. CASE answer'[r] = answer[r] /\ row[r] # "none"
  BY <1>2 DEF RefusedInv
<1>3. CASE pc[r] = "recover" /\ UnderKey(ask[r]) # {} /\ answer'[r] = ReplayOrConflict(r)
  <2>1. Keyed(r)
    BY <1>3, KeyTyped DEF Placed
  <2>2. CASE row[r] # "none"
    BY <1>3, <2>1, <2>2, FoundIsOwn DEF Refusals
  <2>3. CASE row[r] = "none"
    <3>1. ~KeyTaken(r)
      BY <1>1, <2>3 DEF Moved
    <3>2. PICK s \in UnderKey(ask[r]) : TRUE
      BY <1>3
    <3>3. s \in Req /\ row[s] # "none" /\ Keyed(s) /\ SameKey(ask[r], ask[s])
      BY <3>2 DEF UnderKey
    <3> QED  BY <2>1, <3>1, <3>3 DEF KeyTaken
  <2> QED  BY <2>2, <2>3
<1> QED  BY <1>1, <1>2, <1>3 DEF Moved

\* A client that is told no, or to try again, has caused no transfer: not by a commit whose
\* acknowledgement was lost, nor by one that goes on behind the answer.
THEOREM CreationRefusalsAreTrue == Spec => []RefusalsAreTrue
<1>1. Init => TypeInv /\ OneTransferPerKey /\ RefusedInv
  BY InitTyped DEF Init, OneTransferPerKey, RefusedInv
<1>2. TypeInv /\ OneTransferPerKey /\ RefusedInv /\ [Next]_vars
      => (TypeInv /\ OneTransferPerKey /\ RefusedInv)'
  BY NextTyped, OnePerKeyKept, RefusedKept
<1>3. RefusedInv => RefusalsAreTrue
  BY DEF RefusedInv, RefusalsAreTrue, Refusals
<1> QED  BY <1>1, <1>2, <1>3, PTL DEF Spec

------------------------------------------------------------------------------
(* Repeated requests *)

\* The transfer that a repeated request is about.
Original(r, s) ==
    /\ row[s] \in {"live", "closed"} /\ Keyed(s)
    /\ SameKey(ask[r], ask[s]) /\ SameRequest(ask[r], ask[s])

\* Where a repeated request may be, and what it may say.
Repeating(r) ==
    /\ pc[r] \in {"lookup", "lockKey", "relook", "free", "done"}
    /\ answer[r] \in {"none", "replay", "busy", "unknown"}

Repeat(r) ==
    ask[r].after =>
        Keyed(r) /\ row[r] = "none" /\ Repeating(r) /\ \E s \in Req : Original(r, s)

RepeatInv == \A r \in Req : Repeat(r)

\* The lookup finds the original, and no other transfer.
LEMMA OriginalFound ==
    ASSUME TypeInv, OneTransferPerKey, NEW r \in Req, Keyed(r), NEW o \in Req, Original(r, o)
    PROVE  UnderKey(ask[r]) # {} /\ ReplayOrConflict(r) = "replay"
<1>1. o \in UnderKey(ask[r])
  BY DEF Original, UnderKey
<1>2. ASSUME NEW s \in UnderKey(ask[r])  PROVE SameRequest(ask[r], ask[s])
  <2>1. s \in Req /\ row[s] # "none" /\ Keyed(s) /\ SameKey(ask[r], ask[s])
    BY DEF UnderKey
  <2>2. row[o] # "none" /\ SameKey(ask[s], ask[o]) /\ ask[o].key = ask[s].key
    BY <2>1 DEF Original, SameKey
  <2>3. s = o
    BY <2>1, <2>2 DEF OneTransferPerKey
  <2> QED  BY <2>3 DEF Original
<1> QED  BY <1>1, <1>2 DEF ReplayOrConflict

LEMMA OriginalKept ==
    ASSUME TypeInv, [Next]_vars, NEW r \in Req, NEW o \in Req, Original(r, o), ask'[r] = ask[r]
    PROVE  Original(r, o)'
<1>1. row'[o] \in {"live", "closed"} /\ ask'[o] = ask[o]
  BY AskFixed, NextMoves DEF Original, Moved
<1> QED  BY <1>1 DEF Original, Keyed

LEMMA RepeatGoes ==
    ASSUME TypeInv, OneTransferPerKey, [Next]_vars, NEW r \in Req, Repeat(r), ask[r].after
    PROVE  Repeating(r)'
<1>1. Keyed(r) /\ row[r] = "none" /\ Repeating(r) /\ Placed(r)
  BY KeyTyped DEF Repeat
<1>2. UnderKey(ask[r]) # {} /\ ReplayOrConflict(r) = "replay"
  BY <1>1, OriginalFound DEF Repeat
<1>3. CASE pc'[r] = pc[r] /\ answer'[r] = answer[r]
  BY <1>1, <1>3 DEF Repeating
<1>4. ASSUME NEW s \in Req, Others(s), s # r
      PROVE  Repeating(r)'
  BY <1>3, <1>4 DEF Others
<1>5. ASSUME NEW s \in Req, NEW c \in Channels, NEW k \in Keys \cup {NoKey}, NEW p \in Payload,
             Start(s, c, k, p)
      PROVE  Repeating(r)'
  <2>1. s # r
    BY <1>1, <1>5 DEF Start, Repeating
  <2> QED  BY <1>4, <1>5, <2>1, AskerMoved
<1>6. CASE Lookup(r) \/ Relook(r)
  BY <1>2, <1>6, LookupTyped, RelookTyped DEF Repeating
<1>7. CASE LockKey(r)
  BY <1>7, LockKeyTyped DEF Repeating
<1>8. CASE LockBusy(r)
  <2>1. pc[r] = "lockKey" /\ ~Merchant(r)
    BY <1>1, <1>8, LockBusyTyped DEF Repeating, Placed
  <2> QED  BY <1>8, <2>1, LockBusyTyped DEF Repeating
<1>9. CASE ReleaseLocks(r)
  BY <1>1, <1>9, ReleaseLocksTyped DEF Repeating
<1>10. \/ LockPay(r) \/ Check(r) \/ Commit(r) \/ CommitRefused(r) \/ CommitFails(r)
       \/ CommitUncertain(r) \/ Recover(r) \/ Debit(r) \/ DebitRefused(r) \/ Save(r) \/ Undo(r)
       => FALSE
  BY <1>1 DEF Repeating, LockPay, Check, Commit, CommitRefused, CommitFails, CommitUncertain,
              Recover, Debit, DebitRefused, Save, Undo
<1>11. ASSUME NEW s \in Req,
              \/ Lookup(s) \/ LockKey(s) \/ Relook(s) \/ LockPay(s) \/ LockBusy(s)
              \/ Check(s) \/ CommitRefused(s) \/ CommitFails(s) \/ Debit(s) \/ DebitRefused(s)
       PROVE  Repeating(r)'
  BY <1>4, <1>6, <1>7, <1>8, <1>10, <1>11, TakerMoved
<1>12. ASSUME NEW s \in Req,
              Commit(s) \/ CommitUncertain(s) \/ Save(s) \/ Undo(s) \/ Recover(s)
              \/ ReleaseLocks(s)
       PROVE  Repeating(r)'
  BY <1>4, <1>9, <1>10, <1>12, MakerMoved
<1>13. CASE UNCHANGED <<pc, answer>>
  BY <1>3, <1>13
<1>14. ASSUME NEW s \in Req, Close(s) \/ Land(s) \/ Age(s)
       PROVE  Repeating(r)'
  BY <1>13, <1>14, CloseTyped, LandTyped, AgeTyped
<1>15. ASSUME NEW s \in Req, Stop(s)
       PROVE  Repeating(r)'
  BY <1>1, <1>15, StopTyped DEF Repeating
<1>16. ASSUME NEW k \in Key, KeyLapses(k) \/ \E s \in Req : LockLapses(s, k)
       PROVE  Repeating(r)'
  BY <1>13, <1>16, KeyLapsesTyped, LockLapsesTyped
<1>17. CASE UNCHANGED vars
  BY <1>13, <1>17 DEF vars
<1> QED  BY <1>5, <1>11, <1>12, <1>14, <1>15, <1>16, <1>17 DEF Next

\* Only the start of a request says what it asks for.
LEMMA AskChanges ==
    ASSUME TypeInv, [Next]_vars, NEW r \in Req, ask'[r] # ask[r]
    PROVE  \E c \in Channels, k \in Keys \cup {NoKey}, p \in Payload : Start(r, c, k, p)
<1>1. ASSUME NEW s \in Req, NEW c \in Channels, NEW k \in Keys \cup {NoKey}, NEW p \in Payload,
             Start(s, c, k, p)
      PROVE  s = r
  BY <1>1, AskerMoved DEF Others
<1>2. ASSUME NEW s \in Req,
             \/ Lookup(s) \/ LockKey(s) \/ Relook(s) \/ LockPay(s) \/ LockBusy(s)
             \/ Check(s) \/ Commit(s) \/ CommitRefused(s) \/ CommitFails(s)
             \/ CommitUncertain(s) \/ Recover(s)
      PROVE  FALSE
  BY <1>2 DEF Lookup, LockKey, Relook, LockPay, LockBusy, Check, Commit, CommitRefused,
              CommitFails, CommitUncertain, Recover
<1>3. ASSUME NEW s \in Req,
             \/ Debit(s) \/ DebitRefused(s) \/ Save(s) \/ Undo(s) \/ ReleaseLocks(s)
             \/ Close(s) \/ Land(s) \/ Age(s) \/ Stop(s) \/ \E k \in Key : LockLapses(s, k)
      PROVE  FALSE
  BY <1>3 DEF Debit, DebitRefused, Save, Undo, ReleaseLocks, Close, Land, Age, Stop, LockLapses
<1>4. ~(\E k \in Key : KeyLapses(k)) /\ ~UNCHANGED vars
  BY DEF KeyLapses, vars
<1> QED  BY <1>1, <1>2, <1>3, <1>4 DEF Next

LEMMA StartRepeats ==
    ASSUME TypeInv, NEW r \in Req, NEW c \in Channels, NEW k \in Keys \cup {NoKey},
           NEW p \in Payload, Start(r, c, k, p)
    PROVE  Repeat(r)'
<1> SUFFICES ASSUME ask'[r].after
             PROVE  Repeat(r)'
  BY DEF Repeat
<1> DEFINE q == [channel |-> c, key |-> k, payload |-> p, after |-> FALSE]
<1>1. pc[r] = "idle" /\ UNCHANGED <<row, answer>>
  BY DEF Start
<1>2. row[r] = "none" /\ answer[r] = "none"
  BY <1>1, KeyTyped DEF Placed, Early
<1>3. /\ ask' = [ask EXCEPT ![r] = [q EXCEPT !.after = k # NoKey /\
                      {s \in UnderKey(q) : SameRequest(q, ask[s])} # {}]]
      /\ c # "app" /\ k # NoKey => Goto(r, "lookup")
      /\ c = "app" => Goto(r, "lockKey")
  BY DEF Start
<1>4. k # NoKey /\ {s \in UnderKey(q) : SameRequest(q, ask[s])} # {}
  BY <1>3 DEF TypeInv, TypeOK
<1>5. pc'[r] \in {"lookup", "lockKey"}
  BY <1>3, <1>4 DEF Goto, TypeInv, TypeOK
<1>6. Repeating(r)'
  BY <1>1, <1>2, <1>5 DEF Repeating
<1>7. PICK o \in Req : row[o] \in {"live", "closed"} /\ Keyed(o) /\ SameKey(q, ask[o])
                       /\ SameRequest(q, ask[o])
  BY <1>4 DEF UnderKey
<1>8. o # r /\ ask'[o] = ask[o]
  BY <1>2, <1>3, <1>7 DEF TypeInv, TypeOK
<1>9. ask'[r].key = k /\ ask'[r].channel = c /\ ask'[r].payload = p
  BY StartTyped
<1>10. Original(r, o)'
  BY <1>1, <1>7, <1>8, <1>9 DEF Original, Keyed, SameKey, SameRequest
<1>11. Keyed(r)' /\ row'[r] = "none"
  BY <1>1, <1>2, <1>4, <1>9 DEF Keyed
<1> QED  BY <1>6, <1>10, <1>11 DEF Repeat

LEMMA RepeatKept ==
    ASSUME TypeInv, [Next]_vars, OneTransferPerKey, RepeatInv
    PROVE  RepeatInv'
<1> SUFFICES ASSUME NEW r \in Req
             PROVE  Repeat(r)'
  BY DEF RepeatInv
<1>1. CASE ask'[r] # ask[r]
  BY <1>1, AskChanges, StartRepeats
<1>2. CASE ask'[r] = ask[r] /\ ask[r].after
  <2>1. Repeat(r) /\ Keyed(r) /\ row[r] = "none"
    BY <1>2 DEF RepeatInv, Repeat
  <2>2. PICK o \in Req : Original(r, o)
    BY <1>2, <2>1 DEF Repeat
  <2>3. Original(r, o)'
    BY <1>2, <2>2, OriginalKept
  <2>4. Repeating(r)'
    BY <1>2, <2>1, RepeatGoes
  <2>5. KeyTaken(r)
    BY <2>1, <2>2 DEF Original, KeyTaken
  <2>6. row'[r] = "none"
    BY <2>1, <2>5, NextMoves DEF Moved
  <2> QED  BY <1>2, <2>1, <2>3, <2>4, <2>6 DEF Repeat, Keyed
<1>3. CASE ask'[r] = ask[r] /\ ~ask[r].after
  BY <1>3 DEF Repeat
<1> QED  BY <1>1, <1>2, <1>3

\* A request repeated with its key after its transfer exists is never charged again, nor
\* told that it was refused or that its key is another's: whichever way it came, it gets
\* to a lookup before anything else can answer it.
THEOREM CreationRepeatsReplay == Spec => []RepeatsReplay
<1>1. Init => TypeInv /\ OneTransferPerKey /\ RepeatInv
  <2>1. Init => OneTransferPerKey
    BY DEF Init, OneTransferPerKey
  <2>2. Init => RepeatInv
    BY DEF Init, RepeatInv, Repeat
  <2> QED  BY <2>1, <2>2, InitTyped
<1>2. TypeInv /\ OneTransferPerKey /\ RepeatInv /\ [Next]_vars
      => (TypeInv /\ OneTransferPerKey /\ RepeatInv)'
  BY NextTyped, OnePerKeyKept, RepeatKept
<1>3. RepeatInv => RepeatsReplay
  BY DEF RepeatInv, Repeat, Repeating, RepeatsReplay
<1> QED  BY <1>1, <1>2, <1>3, PTL DEF Spec

------------------------------------------------------------------------------
(* The cooldown: who is past its check, and who holds its lock *)

Unlocked == {"idle", "lookup", "lockKey", "relook", "lockPay"}
Past == {"commit", "debit", "save"}
Locked == {"check"} \cup Past

\* A request past the check, or a transfer that it does not let another one follow.
Fresh(r, n) == pc[r] \in Past \/ row[r] = "flight" \/ (row[r] = "live" /\ age[r] < n)

\* A step that takes a request neither into the lock nor past the check.
Steady(r) ==
    /\ pc'[r] \in Unlocked => pc[r] \in Unlocked
    /\ pc'[r] \in Locked => pc[r] \in Locked
    /\ pc'[r] \in Past => pc[r] \in Past
    /\ row'[r] = "live" => row[r] \in {"live", "flight"} \/ pc[r] \in Past
    /\ row'[r] = "flight" => row[r] = "flight" \/ pc[r] \in Past
    /\ age[r] <= age'[r]

LEMMA SameSteady ==
    ASSUME TypeInv, NEW r \in Req, UNCHANGED <<pc, row>>, age[r] <= age'[r]
    PROVE  Steady(r)
BY DEF Steady

LEMMA OthersSteady ==
    ASSUME TypeInv, NEW r \in Req, Others(r), NEW s \in Req \ {r}
    PROVE  Steady(s)
BY DEF Steady, Others, TypeInv, TypeOK

LEMMA StartSteady ==
    ASSUME TypeInv, NEW r \in Req, NEW c \in Channels, NEW k \in Keys \cup {NoKey},
           NEW p \in Payload, Start(r, c, k, p)
    PROVE  Steady(r)
<1>1. pc[r] = "idle" /\ UNCHANGED <<row, age>> /\ age[r] <= age'[r]
  BY DEF Start, TypeInv, TypeOK
<1>2. pc'[r] \in {"lookup", "lockKey", "lockPay"}
  BY StartTyped
<1> QED  BY <1>1, <1>2 DEF Steady, Unlocked, Locked, Past

LEMMA TakerSteady ==
    ASSUME TypeInv, NEW r \in Req,
           \/ Lookup(r) \/ LockKey(r) \/ Relook(r) \/ LockBusy(r)
           \/ CommitRefused(r) \/ CommitFails(r) \/ Debit(r) \/ DebitRefused(r)
    PROVE  Steady(r)
<1>1. UNCHANGED <<row, age>> /\ age[r] <= age'[r]
  BY DEF TypeInv, TypeOK, Lookup, LockKey, Relook, LockBusy, CommitRefused, CommitFails,
         Debit, DebitRefused
<1>2. CASE Lookup(r) \/ LockKey(r) \/ Relook(r)
  <2>1. pc[r] \in Unlocked /\ pc'[r] \in Unlocked \cup {"free"}
    BY <1>2, LookupTyped, LockKeyTyped, RelookTyped DEF Lookup, LockKey, Relook, Unlocked
  <2> QED  BY <1>1, <2>1 DEF Steady, Unlocked, Locked, Past
<1>3. CASE LockBusy(r) \/ CommitRefused(r) \/ CommitFails(r)
  <2>1. pc'[r] \in {"recover", "free"}
    BY <1>3, LockBusyTyped, CommitEndsTyped
  <2> QED  BY <1>1, <2>1 DEF Steady, Unlocked, Locked, Past
<1>4. CASE Debit(r) \/ DebitRefused(r)
  <2>1. pc[r] = "debit" /\ pc'[r] \in {"debit", "save", "undo"}
    BY <1>4, DebitTyped
  <2> QED  BY <1>1, <2>1 DEF Steady, Unlocked, Locked, Past
<1> QED  BY <1>2, <1>3, <1>4

LEMMA MakerSteady ==
    ASSUME TypeInv, NEW r \in Req,
           Commit(r) \/ CommitUncertain(r) \/ Save(r) \/ Undo(r) \/ Recover(r) \/ ReleaseLocks(r)
    PROVE  Steady(r)
<1>1. UNCHANGED age /\ age[r] <= age'[r]
  BY DEF TypeInv, TypeOK, Commit, CommitUncertain, Save, Undo, Recover, ReleaseLocks
<1>2. pc'[r] \in {"free", "undo", "recover", "done"}
  BY CommitTyped, CommitUncertainTyped, SaveTyped, UndoTyped, RecoverTyped, ReleaseLocksTyped
<1>3. CASE Commit(r) \/ CommitUncertain(r) \/ Save(r)
  <2>1. pc[r] \in Past
    BY <1>3 DEF Commit, CommitUncertain, Save, Past
  <2> QED  BY <1>1, <1>2, <2>1 DEF Steady, Unlocked, Locked, Past
<1>4. CASE Undo(r) \/ Recover(r) \/ ReleaseLocks(r)
  <2>1. UNCHANGED row
    BY <1>4 DEF Undo, Recover, ReleaseLocks
  <2> QED  BY <1>1, <1>2, <2>1 DEF Steady, Unlocked, Locked, Past
<1> QED  BY <1>3, <1>4

LEMMA LandSteady ==
    ASSUME TypeInv, NEW r \in Req, Close(r) \/ Land(r)
    PROVE  Steady(r)
<1>1. UNCHANGED <<pc, age>> /\ age[r] <= age'[r]
  BY DEF Close, Land, TypeInv, TypeOK
<1>2. /\ row'[r] = "live" => row[r] = "flight"
      /\ row'[r] # "flight"
  BY CloseTyped, LandTyped
<1> QED  BY <1>1, <1>2 DEF Steady

LEMMA StopSteady ==
    ASSUME TypeInv, NEW r \in Req, Stop(r), NEW s \in Req
    PROVE  Steady(s)
<1>1. UNCHANGED <<row, age>> /\ age[s] <= age'[s] /\ (pc'[s] = pc[s] \/ pc'[s] = "done")
  BY StopTyped DEF TypeInv, TypeOK
<1> QED  BY <1>1 DEF Steady, Unlocked, Locked, Past

\* Only taking the lock and passing the check are not steady.
LEMMA NextSteady ==
    ASSUME TypeInv, [Next]_vars, NEW s \in Req, ~LockPay(s), ~Check(s)
    PROVE  Steady(s)
<1>1. ASSUME NEW r \in Req, Others(r), r = s => Steady(s)
      PROVE  Steady(s)
  BY <1>1, OthersSteady
<1>2. ASSUME NEW r \in Req, NEW c \in Channels, NEW k \in Keys \cup {NoKey}, NEW p \in Payload,
             Start(r, c, k, p)
      PROVE  Steady(s)
  BY <1>1, <1>2, AskerMoved, StartSteady
<1>3. ASSUME NEW r \in Req,
             \/ Lookup(r) \/ LockKey(r) \/ Relook(r) \/ LockPay(r) \/ LockBusy(r)
             \/ Check(r) \/ CommitRefused(r) \/ CommitFails(r) \/ Debit(r) \/ DebitRefused(r)
      PROVE  Steady(s)
  BY <1>1, <1>3, TakerMoved, TakerSteady
<1>4. ASSUME NEW r \in Req,
             \/ Commit(r) \/ CommitUncertain(r) \/ Save(r) \/ Undo(r) \/ Recover(r)
             \/ ReleaseLocks(r) \/ Close(r) \/ Land(r)
      PROVE  Steady(s)
  BY <1>1, <1>4, MakerMoved, MakerSteady, LandMoved, LandSteady
<1>5. ASSUME NEW r \in Req, Stop(r)
      PROVE  Steady(s)
  BY <1>5, StopSteady
<1>6. ASSUME NEW r \in Req, Age(r)
      PROVE  Steady(s)
  BY <1>6, AgeTyped, SameSteady
<1>7. age[s] <= age[s]
  BY DEF TypeInv, TypeOK
<1>8. ASSUME NEW k \in Key, KeyLapses(k) \/ \E r \in Req : LockLapses(r, k)
      PROVE  Steady(s)
  <2>1. UNCHANGED <<pc, row, age>>
    BY <1>8, KeyLapsesTyped, LockLapsesTyped
  <2> QED  BY <1>7, <2>1, SameSteady
<1>9. CASE UNCHANGED vars
  BY <1>7, <1>9, SameSteady DEF vars
<1> QED  BY <1>2, <1>3, <1>4, <1>5, <1>6, <1>8, <1>9 DEF Next

Flight == {r \in Req : row[r] = "flight"}

\* The cooldown's lock is held from before the check to after the commit.
Gripping(r) ==
    /\ pc[r] \in Unlocked => grip[r][PayLock] = "none"
    /\ pc[r] \in Locked => grip[r][PayLock] # "none"

\* Of the requests that hold the lock, or whose commit goes on without it, all but one
\* have cost a lock that was loose.
SpareInv ==
    /\ HoldersGrip(PayLock)
    /\ Cardinality(Grippers(PayLock)) + Cardinality(Flight) <= loose + Room(PayLock)

LockInv == SpareInv /\ \A r \in Req : Gripping(r)

LEMMA FlightCounted ==
    /\ IsFiniteSet(Flight) /\ IsFiniteSet(Flight')
    /\ Cardinality(Flight) \in Nat /\ Cardinality(Flight') \in Nat
    /\ Flight' \subseteq Flight => Cardinality(Flight') <= Cardinality(Flight)
    /\ \A r \in Req : Flight' \subseteq Flight \cup {r} =>
          Cardinality(Flight') <= Cardinality(Flight) + 1
<1>1. IsFiniteSet(Flight) /\ IsFiniteSet(Flight')
  BY LockAssumption, FS_Subset DEF Flight
<1>2. Cardinality(Flight) \in Nat /\ Cardinality(Flight') \in Nat
  BY <1>1, FS_CardinalityType
<1>3. Flight' \subseteq Flight => Cardinality(Flight') <= Cardinality(Flight)
  BY <1>1, FS_Subset
<1>4. ASSUME NEW r \in Req, Flight' \subseteq Flight \cup {r}
      PROVE  Cardinality(Flight') <= Cardinality(Flight) + 1
  <2>1. IsFiniteSet(Flight \cup {r})
        /\ Cardinality(Flight \cup {r}) \in {Cardinality(Flight), Cardinality(Flight) + 1}
    BY <1>1, <1>2, FS_AddElement
  <2>2. Cardinality(Flight') <= Cardinality(Flight \cup {r})
    BY <1>4, <2>1, FS_Subset
  <2> QED  BY <1>2, <2>1, <2>2
<1> QED  BY <1>1, <1>2, <1>3, <1>4

\* What keeps the count: holders for whom there is room, or a lock that gets loose.
LEMMA SpareKept ==
    ASSUME TypeInv, SpareInv, HoldersGrip(PayLock)', TalliesGrow,
           \/ NoneExtra(PayLock) /\ Flight' \subseteq Flight
           \/ OneExtra(PayLock) /\ Flight' \subseteq Flight /\ loose' = loose + 1
           \/ /\ NoneExtra(PayLock) /\ loose' = loose + 1
              /\ \E r \in Req : Flight' \subseteq Flight \cup {r}
    PROVE  SpareInv'
<1> DEFINE g == Cardinality(Grippers(PayLock))
           h == Cardinality(Grippers(PayLock)')
           f == Cardinality(Flight)
           e == Cardinality(Flight')
<1>1. /\ g \in Nat /\ h \in Nat /\ Room(PayLock) \in {0, 1} /\ Room(PayLock)' \in {0, 1}
      /\ f \in Nat /\ e \in Nat /\ loose \in Nat /\ loose' \in Nat /\ loose <= loose'
  BY GrippersCounted, FlightCounted DEF TypeInv, TypeOK, TalliesGrow
<1>2. g + f <= loose + Room(PayLock)
  BY DEF SpareInv
<1>3. \/ h + Room(PayLock) <= g + Room(PayLock)' /\ e <= f
      \/ h + Room(PayLock) <= g + Room(PayLock)' + 1 /\ e <= f /\ loose' = loose + 1
      \/ h + Room(PayLock) <= g + Room(PayLock)' /\ e <= f + 1 /\ loose' = loose + 1
  BY FlightCounted DEF NoneExtra, OneExtra
<1> HIDE DEF g, h, f, e
<1>4. h + e <= loose' + Room(PayLock)'
  BY <1>1, <1>2, <1>3
<1> QED  BY <1>4 DEF SpareInv, h, e

\* Steps that leave the key of the lock alone.
LEMMA GripSame ==
    ASSUME TypeInv, LockInv, TalliesGrow, UNCHANGED fixed, KeySame(PayLock)
    PROVE  /\ HoldersGrip(PayLock)' /\ NoneExtra(PayLock)
           /\ Flight' \subseteq Flight => SpareInv'
           /\ \A s \in Req : Steady(s) => Gripping(s)'
<1>1. HoldersGrip(PayLock)' /\ NoneExtra(PayLock)
  BY KeySameRoom DEF fixed, LockInv, SpareInv
<1>2. Flight' \subseteq Flight => SpareInv'
  BY <1>1, SpareKept DEF LockInv
<1>3. ASSUME NEW s \in Req, Steady(s)  PROVE Gripping(s)'
  <2>1. grip'[s][PayLock] = grip[s][PayLock] /\ Gripping(s)
    BY DEF KeySame, LockInv
  <2> QED  BY <1>3, <2>1 DEF Steady, Gripping
<1> QED  BY <1>1, <1>2, <1>3

LEMMA LocksKeySame ==
    ASSUME UNCHANGED locks
    PROVE  KeySame(PayLock)
BY DEF locks, KeySame

LEMMA FlightOf ==
    ASSUME NEW r \in Req, Others(r)
    PROVE  /\ Flight' \subseteq Flight \cup {r}
           /\ row'[r] # "flight" => Flight' \subseteq Flight
           /\ row'[r] = row[r] => Flight' \subseteq Flight
BY DEF Others, Flight

\* The steps of one request that leave the lock alone.
LEMMA QuietLock ==
    ASSUME TypeInv, LockInv, NEW r \in Req, Stepped(r), UNCHANGED locks,
           Gripping(r)', row'[r] # "flight" \/ row'[r] = row[r]
    PROVE  LockInv'
<1>1. KeySame(PayLock) /\ TalliesGrow /\ UNCHANGED fixed /\ Others(r)
  BY LocksKeySame DEF Stepped
<1>2. SpareInv'
  BY <1>1, GripSame, FlightOf
<1>3. ASSUME NEW s \in Req  PROVE Gripping(s)'
  BY <1>1, GripSame, OthersSteady
<1> QED  BY <1>2, <1>3 DEF LockInv

LEMMA SteadyQuiet ==
    ASSUME TypeInv, LockInv, NEW r \in Req, Stepped(r), UNCHANGED locks, Steady(r),
           row'[r] # "flight" \/ row'[r] = row[r]
    PROVE  LockInv'
<1>1. Gripping(r)'
  BY LocksKeySame, GripSame DEF Stepped
<1> QED  BY <1>1, QuietLock

LEMMA CheckLock ==
    ASSUME TypeInv, LockInv, NEW r \in Req, Check(r)
    PROVE  LockInv'
<1>1. Stepped(r) /\ row'[r] = "none" /\ pc'[r] \in {"recover", "free", "commit", "debit"}
  BY CheckTyped
<1>2. UNCHANGED locks /\ pc[r] \in Locked
  BY DEF Check, Locked
<1>3. grip'[r][PayLock] # "none"
  BY <1>2 DEF LockInv, Gripping, locks
<1>4. Gripping(r)'
  BY <1>1, <1>3 DEF Gripping, Unlocked
<1> QED  BY <1>1, <1>2, <1>4, QuietLock

LEMMA QuietSteps ==
    ASSUME TypeInv, LockInv, NEW r \in Req,
           \/ Lookup(r) \/ Relook(r) \/ LockBusy(r) \/ Commit(r) \/ CommitRefused(r)
           \/ CommitFails(r) \/ Recover(r) \/ Debit(r) \/ DebitRefused(r) \/ Save(r) \/ Undo(r)
           \/ Close(r) \/ Land(r)
    PROVE  LockInv'
<1>1. UNCHANGED locks
  BY DEF Lookup, Relook, LockBusy, Commit, CommitRefused, CommitFails, Recover, Debit,
         DebitRefused, Save, Undo, Close, Land
<1>2. CASE \/ Lookup(r) \/ Relook(r) \/ LockBusy(r) \/ CommitRefused(r)
           \/ CommitFails(r) \/ Debit(r) \/ DebitRefused(r)
  <2>1. Stepped(r) /\ row'[r] = "none"
    BY <1>2, LookupTyped, RelookTyped, LockBusyTyped, CommitEndsTyped, DebitTyped
  <2> QED  BY <1>1, <1>2, <2>1, TakerSteady, SteadyQuiet
<1>3. CASE Commit(r) \/ Recover(r) \/ Save(r) \/ Undo(r)
  <2>1. Stepped(r) /\ (row'[r] # "flight" \/ row'[r] = row[r])
    BY <1>3, CommitTyped, RecoverTyped, SaveTyped, UndoTyped
  <2> QED  BY <1>1, <1>3, <2>1, MakerSteady, SteadyQuiet
<1>4. CASE Close(r) \/ Land(r)
  <2>1. Stepped(r) /\ row'[r] # "flight"
    BY <1>4, CloseTyped, LandTyped
  <2> QED  BY <1>1, <1>4, <2>1, LandSteady, SteadyQuiet
<1> QED  BY <1>2, <1>3, <1>4

LEMMA StartLock ==
    ASSUME TypeInv, LockInv, NEW r \in Req, NEW c \in Channels, NEW k \in Keys \cup {NoKey},
           NEW p \in Payload, Start(r, c, k, p)
    PROVE  LockInv'
<1>1. Stepped(r) /\ UNCHANGED <<row, locks>> /\ Steady(r)
  BY StartTyped, StartSteady
<1> QED  BY <1>1, SteadyQuiet

\* The commit goes on while the request gives up its locks: one more that is loose.
LEMMA UncertainLock ==
    ASSUME TypeInv, LockInv, NEW r \in Req, CommitUncertain(r)
    PROVE  LockInv'
<1>1. /\ Stepped(r) /\ UNCHANGED locks /\ Steady(r)
      /\ row'[r] = "live" \/ (row'[r] = "flight" /\ loose' = loose + 1)
  BY CommitUncertainTyped, MakerSteady DEF CommitUncertain
<1>2. CASE row'[r] = "live"
  BY <1>1, <1>2, SteadyQuiet
<1>3. CASE loose' = loose + 1
  <2>1. /\ KeySame(PayLock) /\ TalliesGrow /\ UNCHANGED fixed /\ Others(r)
    BY <1>1, LocksKeySame DEF Stepped
  <2>2. HoldersGrip(PayLock)' /\ NoneExtra(PayLock) /\ \A s \in Req : Steady(s) => Gripping(s)'
    BY <2>1, GripSame
  <2>3. SpareInv'
    BY <1>3, <2>1, <2>2, FlightOf, SpareKept DEF LockInv
  <2>4. ASSUME NEW s \in Req  PROVE Gripping(s)'
    BY <1>1, <2>1, <2>2, OthersSteady
  <2> QED  BY <2>3, <2>4 DEF LockInv
<1> QED  BY <1>1, <1>2, <1>3

\* The locks of the keys are not the cooldown's.
LEMMA KeyLockSteps ==
    ASSUME TypeInv, LockInv, NEW r \in Req, LockKey(r)
    PROVE  LockInv'
<1>1. Stepped(r) /\ row'[r] = "none" /\ Keyed(r) /\ Steady(r)
  BY LockKeyTyped, TakerSteady
<1>2. /\ TalliesGrow /\ UNCHANGED fixed /\ Others(r) /\ deployment' = deployment
      /\ ask[r].key \in Key /\ ask[r].key # PayLock /\ PayLock \in Key /\ LockTypeOK
  BY <1>1, KeyTyped DEF Stepped, fixed
<1>3. KeySame(PayLock)
  <2>1. CASE Acquire(r, ask[r].key) \/ FallThrough(r, ask[r].key)
    BY <1>2, <2>1, AcquireDoes DEF KeySame, Gripped
  <2>2. CASE UNCHANGED locks
    BY <2>2, LocksKeySame
  <2> QED  BY <2>1, <2>2 DEF LockKey
<1>4. SpareInv'
  BY <1>1, <1>2, <1>3, GripSame, FlightOf
<1>5. ASSUME NEW s \in Req  PROVE Gripping(s)'
  BY <1>1, <1>2, <1>3, GripSame, OthersSteady
<1> QED  BY <1>4, <1>5 DEF LockInv

LEMMA PayLockSteps ==
    ASSUME TypeInv, LockInv, NEW r \in Req, LockPay(r)
    PROVE  LockInv'
<1>1. /\ Stepped(r) /\ row'[r] = "none" /\ pc'[r] = "check" /\ pc[r] = "lockPay"
      /\ TalliesGrow /\ UNCHANGED fixed /\ Others(r) /\ deployment' = deployment
      /\ PayLock \in Key /\ LockTypeOK
  BY LockPayTyped, KeyTyped DEF Stepped, fixed, LockPay
<1>2. HoldersGrip(PayLock) /\ grip[r][PayLock] = "none"
  BY <1>1 DEF LockInv, SpareInv, Gripping, Unlocked
<1>3. Flight' \subseteq Flight
  BY <1>1, FlightOf
<1>4. Gripped(r, PayLock)
  BY <1>1, AcquireDoes DEF LockPay
<1>5. SpareInv'
  <2>1. CASE Acquire(r, PayLock)
    BY <1>1, <1>2, <1>3, <2>1, AcquireRoom, SpareKept DEF LockInv
  <2>2. CASE FallThrough(r, PayLock) /\ ALoose
    <3>1. loose' = loose + 1
      BY <2>2 DEF ALoose
    <3>2. HoldersGrip(PayLock)' /\ OneExtra(PayLock)
      BY <1>1, <1>2, <2>2, FallThroughRoom
    <3> QED  BY <1>1, <1>3, <3>1, <3>2, SpareKept DEF LockInv
  <2> QED  BY <2>1, <2>2 DEF LockPay
<1>6. ASSUME NEW s \in Req  PROVE Gripping(s)'
  <2>1. CASE s = r
    BY <1>1, <1>4, <2>1 DEF Gripped, Gripping, Unlocked
  <2>2. CASE s # r
    BY <1>1, <1>4, <2>2 DEF Gripped, Others, Gripping, LockInv
  <2> QED  BY <2>1, <2>2
<1> QED  BY <1>5, <1>6 DEF LockInv

LEMMA ReleaseSteps ==
    ASSUME TypeInv, LockInv, NEW r \in Req, ReleaseLocks(r)
    PROVE  LockInv'
<1>1. /\ Stepped(r) /\ row'[r] = row[r] /\ pc'[r] \in {"free", "done"}
      /\ TalliesGrow /\ UNCHANGED fixed /\ Others(r) /\ deployment' = deployment
      /\ PayLock \in Key /\ LockTypeOK /\ HoldersGrip(PayLock)
  BY ReleaseLocksTyped, KeyTyped DEF Stepped, fixed, LockInv, SpareInv
<1>2. Flight' \subseteq Flight /\ Gripping(r)'
  BY <1>1, FlightOf DEF Gripping, Unlocked, Locked, Past
<1>3. CASE UNCHANGED locks
  BY <1>1, <1>2, <1>3, QuietLock
<1>4. ASSUME NEW k \in Key, Release(r, k) \/ ReleaseFails(r, k)
      PROVE  LockInv'
  <2>1. LetGo(r, k)
    BY <1>1, <1>4, ReleaseDoes
  <2>2. HoldersGrip(PayLock)' /\ NoneExtra(PayLock)
    <3>1. CASE k = PayLock
      BY <1>1, <1>4, <3>1, ReleaseRoom
    <3>2. CASE k # PayLock
      <4>1. KeySame(PayLock)
        BY <1>1, <2>1, <3>2 DEF LetGo, KeySame
      <4> QED  BY <1>1, <4>1, GripSame
    <3> QED  BY <3>1, <3>2
  <2>3. SpareInv'
    BY <1>1, <1>2, <2>2, SpareKept DEF LockInv
  <2>4. ASSUME NEW s \in Req \ {r}  PROVE Gripping(s)'
    BY <1>1, <2>1 DEF LetGo, Others, Gripping, LockInv
  <2> QED  BY <1>2, <2>3, <2>4 DEF LockInv
<1> QED  BY <1>3, <1>4 DEF ReleaseLocks

LEMMA LapseSteps ==
    ASSUME TypeInv, LockInv, NEW r \in Req, NEW k \in Key, LockLapses(r, k)
    PROVE  LockInv'
<1>1. /\ UNCHANGED <<fixed, pc, row>> /\ loose' = loose + 1 /\ TalliesGrow
      /\ deployment' = deployment /\ PayLock \in Key /\ LockTypeOK /\ HoldersGrip(PayLock)
      /\ Lapse(r, k)
  BY LockLapsesTyped, TalliesDo, KeyTyped DEF LockLapses, fixed, LockInv, SpareInv, TypeInv
<1>2. /\ \A s \in Req, j \in Key : (grip'[s][j] = "none") <=> (grip[s][j] = "none")
      /\ \A s \in Req, j \in Key : s # r \/ j # k => grip'[s][j] = grip[s][j]
      /\ \A j \in Key \ {k} : redis'[j] = redis[j] /\ (j \in memory' <=> j \in memory)
  BY <1>1, LapseDoes
<1>3. Flight' \subseteq Flight
  BY <1>1 DEF Flight
<1>4. SpareInv'
  <2>1. CASE k = PayLock
    <3>1. HoldersGrip(PayLock)' /\ OneExtra(PayLock)
      BY <1>1, <2>1, LapseRoom
    <3> QED  BY <1>1, <1>3, <3>1, SpareKept DEF LockInv
  <2>2. CASE k # PayLock
    <3>1. KeySame(PayLock)
      BY <1>1, <1>2, <2>2 DEF KeySame
    <3> QED  BY <1>1, <1>3, <3>1, GripSame
  <2> QED  BY <2>1, <2>2
<1>5. ASSUME NEW s \in Req  PROVE Gripping(s)'
  BY <1>1, <1>2 DEF Gripping, LockInv
<1> QED  BY <1>4, <1>5 DEF LockInv

LEMMA OrphanSteps ==
    ASSUME TypeInv, LockInv, NEW k \in Key, KeyLapses(k)
    PROVE  LockInv'
<1>1. /\ UNCHANGED <<fixed, pc, row, loose, faults, grip>> /\ deployment' = deployment
      /\ PayLock \in Key /\ LockTypeOK /\ HoldersGrip(PayLock) /\ OrphanLapses(k)
  BY KeyLapsesTyped, KeysAssumption DEF KeyLapses, fixed, LockInv, SpareInv, TypeInv, TypeOK
<1>2. HoldersGrip(PayLock)' /\ NoneExtra(PayLock)
  BY <1>1, OrphanRoom
<1>3. Flight' \subseteq Flight /\ TalliesGrow
  BY <1>1 DEF Flight, TalliesGrow, TypeInv, TypeOK
<1>4. SpareInv'
  BY <1>2, <1>3, SpareKept DEF LockInv
<1>5. ASSUME NEW s \in Req  PROVE Gripping(s)'
  BY <1>1 DEF Gripping, LockInv
<1> QED  BY <1>4, <1>5 DEF LockInv

LEMMA StopSteps ==
    ASSUME TypeInv, LockInv, NEW r \in Req, Stop(r)
    PROVE  LockInv'
<1> DEFINE S == IF deployment = "production" THEN {r} ELSE Req
           Gone == {s \in S : pc[s] \notin {"idle", "done"}}
<1>1. /\ UNCHANGED <<fixed, row, loose>> /\ TalliesGrow /\ deployment' = deployment
      /\ LockTypeOK /\ HoldersGrip(PayLock) /\ PayLock \in Key
  BY StopTyped, KeyTyped DEF fixed, LockInv, SpareInv
<1>2. Abandon(S) /\ pc' = [s \in Req |-> IF s \in Gone THEN "done" ELSE pc[s]]
  BY DEF Stop
<1>3. HoldersGrip(PayLock)' /\ NoneExtra(PayLock)
  BY <1>1, <1>2, AbandonRoom
<1>4. Flight' \subseteq Flight
  BY <1>1 DEF Flight
<1>5. SpareInv'
  BY <1>1, <1>3, <1>4, SpareKept DEF LockInv
<1>6. \A s \in Req : grip'[s][PayLock] = IF s \in S THEN "none" ELSE grip[s][PayLock]
  BY <1>1, <1>2, AbandonDoes
<1>7. ASSUME NEW s \in Req  PROVE Gripping(s)'
  <2>1. Gripping(s)
    BY DEF LockInv
  <2>2. CASE s \in S
    <3>1. pc'[s] \in {"idle", "done"} /\ grip'[s][PayLock] = "none"
      BY <1>2, <1>6, <2>2
    <3> QED  BY <3>1 DEF Gripping, Unlocked, Locked, Past
  <2>3. CASE s \notin S
    <3>1. pc'[s] = pc[s] /\ grip'[s][PayLock] = grip[s][PayLock]
      BY <1>2, <1>6, <2>3
    <3> QED  BY <2>1, <3>1 DEF Gripping
  <2> QED  BY <2>2, <2>3
<1> QED  BY <1>5, <1>7 DEF LockInv

LEMMA LockKept ==
    ASSUME TypeInv, [Next]_vars, LockInv
    PROVE  LockInv'
<1>1. ASSUME UNCHANGED <<fixed, locks, pc, row, loose, faults>>
      PROVE  LockInv'
  <2>1. TalliesGrow /\ KeySame(PayLock) /\ Flight' \subseteq Flight
    BY <1>1, LocksKeySame DEF TalliesGrow, TypeInv, TypeOK, Flight
  <2>2. SpareInv'
    BY <1>1, <2>1, GripSame
  <2>3. ASSUME NEW s \in Req  PROVE Gripping(s)'
    BY <1>1, <2>1 DEF KeySame, Gripping, LockInv
  <2> QED  BY <2>2, <2>3 DEF LockInv
<1>2. ASSUME NEW r \in Req, NEW c \in Channels, NEW k \in Keys \cup {NoKey}, NEW p \in Payload,
             Start(r, c, k, p)
      PROVE  LockInv'
  BY <1>2, StartLock
<1>3. ASSUME NEW r \in Req,
             \/ Lookup(r) \/ Relook(r) \/ LockBusy(r) \/ Commit(r) \/ CommitRefused(r)
             \/ CommitFails(r) \/ Recover(r) \/ Debit(r) \/ DebitRefused(r) \/ Save(r)
             \/ Undo(r) \/ Close(r) \/ Land(r)
      PROVE  LockInv'
  BY <1>3, QuietSteps
<1>4. ASSUME NEW r \in Req,
             \/ LockKey(r) \/ LockPay(r) \/ Check(r) \/ CommitUncertain(r) \/ ReleaseLocks(r)
             \/ Stop(r) \/ \E k \in Key : LockLapses(r, k)
      PROVE  LockInv'
  BY <1>4, KeyLockSteps, PayLockSteps, CheckLock, UncertainLock, ReleaseSteps, StopSteps, LapseSteps
<1>5. ASSUME NEW r \in Req, Age(r)
      PROVE  LockInv'
  BY <1>1, <1>5, AgeTyped
<1>6. ASSUME NEW k \in Key, KeyLapses(k)
      PROVE  LockInv'
  BY <1>6, OrphanSteps
<1>7. CASE UNCHANGED vars
  BY <1>1, <1>7 DEF vars
<1> QED  BY <1>2, <1>3, <1>4, <1>5, <1>6, <1>7 DEF Next

------------------------------------------------------------------------------
(* The cooldown: how many transfers it lets through *)

\* The requests that a second transfer would follow too soon: of any payload, or of one.
Candidates(n, P) == {r \in Req : Fresh(r, n) /\ ask[r].payload \in P}

CandidateInv ==
    /\ Cardinality(Candidates(1, Payload)) <= 1 + loose
    /\ \A p \in Payload : Cardinality(Candidates(2, {p})) <= 1 + loose

LEMMA CandidatesCounted ==
    ASSUME NEW n, NEW P
    PROVE  /\ IsFiniteSet(Candidates(n, P)) /\ Cardinality(Candidates(n, P)) \in Nat
           /\ IsFiniteSet(Candidates(n, P)') /\ Cardinality(Candidates(n, P)') \in Nat
           /\ Candidates(n, P)' \subseteq Candidates(n, P) =>
                 Cardinality(Candidates(n, P)') <= Cardinality(Candidates(n, P))
<1>1. IsFiniteSet(Candidates(n, P)) /\ IsFiniteSet(Candidates(n, P)')
  BY LockAssumption, FS_Subset DEF Candidates
<1> QED  BY <1>1, FS_CardinalityType, FS_Subset

\* A request that is a candidate after a step other than its check was one before.
LEMMA CandidateWas ==
    ASSUME TypeInv, [Next]_vars, NEW s \in Req, ~Check(s), NEW n \in {1, 2}, NEW P,
           s \in Candidates(n, P)'
    PROVE  s \in Candidates(n, P)
<1>1. Fresh(s, n)
  <2>1. CASE LockPay(s)
    <3>1. pc'[s] = "check" /\ row'[s] = "none"
      BY <2>1, LockPayTyped
    <3> QED  BY <3>1 DEF Candidates, Fresh, Past
  <2>2. CASE ~LockPay(s)
    <3>1. Steady(s)
      BY <2>2, NextSteady
    <3>2. age[s] \in 0..2 /\ age'[s] \in 0..2
      BY NextTyped DEF TypeInv, TypeOK
    <3> QED  BY <3>1, <3>2 DEF Candidates, Fresh, Steady
  <2> QED  BY <2>1, <2>2
<1>2. pc[s] # "idle"
  BY <1>1, KeyTyped DEF Fresh, Past, Placed, Early
<1>3. ask'[s] = ask[s]
  BY <1>2, NextMoves DEF Moved
<1> QED  BY <1>1, <1>3 DEF Candidates

\* What a check that lets its request go on has found: all candidates hold the lock, or are
\* commits that went on without it.
LEMMA CandidatesHold ==
    ASSUME TypeInv, LockInv, NEW r \in Req, Check(r), ~Cooling(r), NEW n \in {1, 2}, NEW P,
           n = 2 => P = {ask[r].payload}
    PROVE  Candidates(n, P)' \subseteq Grippers(PayLock) \cup Flight
<1> SUFFICES ASSUME NEW s \in Req, Fresh(s, n)', ask'[s].payload \in P, s \notin Flight
             PROVE  grip[s][PayLock] # "none"
  BY DEF Candidates, Grippers
<1>1. UNCHANGED <<ask, row, age>> /\ Others(r) /\ pc[r] = "check"
  BY CheckTyped DEF Check, Stepped
<1>2. ~(row[s] = "live" /\ age[s] < n)
  <2>1. age[s] \in 0..2
    BY DEF TypeInv, TypeOK
  <2> QED  BY <1>1, <2>1 DEF Cooling
<1>3. pc'[s] \in Past
  BY <1>1, <1>2 DEF Fresh, Flight
<1>4. pc[s] \in Locked
  BY <1>1, <1>3 DEF Others, Locked
<1> QED  BY <1>4 DEF LockInv, Gripping

LEMMA CandidatesFew ==
    ASSUME TypeInv, LockInv, NEW r \in Req, Check(r), ~Cooling(r), NEW n \in {1, 2}, NEW P,
           n = 2 => P = {ask[r].payload}
    PROVE  Cardinality(Candidates(n, P)') <= 1 + loose'
<1> DEFINE G == Grippers(PayLock)
<1>1. Candidates(n, P)' \subseteq G \cup Flight
  BY CandidatesHold
<1>2. /\ IsFiniteSet(G) /\ IsFiniteSet(Flight) /\ Cardinality(G) \in Nat
      /\ Cardinality(Flight) \in Nat /\ Room(PayLock) \in {0, 1}
  BY GrippersCounted, FlightCounted
<1>3. IsFiniteSet(G \cup Flight) /\ Cardinality(G \cup Flight) \in Nat
  BY <1>2, FS_Union, FS_CardinalityType
<1>4. Cardinality(G \cup Flight) <= Cardinality(G) + Cardinality(Flight)
  <2>1. /\ Cardinality(G \cup Flight)
             = Cardinality(G) + Cardinality(Flight) - Cardinality(G \cap Flight)
        /\ IsFiniteSet(G \cap Flight)
    BY <1>2, FS_Union, FS_Intersection
  <2>2. Cardinality(G \cap Flight) \in Nat
    BY <2>1, FS_CardinalityType
  <2> QED  BY <1>2, <2>1, <2>2
<1>5. Cardinality(Candidates(n, P)') <= Cardinality(G \cup Flight)
  BY <1>1, <1>3, FS_Subset
<1>6. Cardinality(G) + Cardinality(Flight) <= loose + Room(PayLock)
  BY DEF LockInv, SpareInv
<1>7. loose' = loose /\ loose \in Nat
  BY DEF Check, TypeInv, TypeOK
<1>8. Cardinality(Candidates(n, P)') \in Nat
  BY CandidatesCounted
<1> HIDE DEF G
<1> QED  BY <1>2, <1>3, <1>4, <1>5, <1>6, <1>7, <1>8

LEMMA LooseGrows ==
    ASSUME TypeInv, [Next]_vars
    PROVE  loose <= loose'
<1>1. loose \in Nat
  BY DEF TypeInv, TypeOK
<1>2. NoFault \/ AFault \/ ALoose => loose <= loose'
  BY <1>1 DEF NoFault, AFault, ALoose
<1>3. CASE loose' = loose
  BY <1>1, <1>3
<1>4. ASSUME NEW r \in Req,
             \/ LockKey(r) \/ LockPay(r) \/ CommitUncertain(r) \/ Save(r) \/ Undo(r)
             \/ ReleaseLocks(r) \/ Stop(r) \/ \E k \in Key : LockLapses(r, k)
      PROVE  loose <= loose'
  BY <1>2, <1>4 DEF LockKey, LockPay, CommitUncertain, Save, Undo, ReleaseLocks, Stop, LockLapses
<1>5. ASSUME NEW r \in Req,
             \/ \E c \in Channels, k \in Keys \cup {NoKey}, p \in Payload : Start(r, c, k, p)
             \/ Lookup(r) \/ Relook(r) \/ LockBusy(r) \/ Check(r) \/ Commit(r)
             \/ CommitRefused(r) \/ CommitFails(r) \/ Recover(r) \/ Debit(r)
             \/ DebitRefused(r) \/ Close(r) \/ Land(r) \/ Age(r)
      PROVE  loose <= loose'
  BY <1>3, <1>5 DEF Start, Lookup, Relook, LockBusy, Check, Commit, CommitRefused, CommitFails,
                    Recover, Debit, DebitRefused, Close, Land, Age
<1>6. ASSUME NEW k \in Key, KeyLapses(k)
      PROVE  loose <= loose'
  BY <1>3, <1>6 DEF KeyLapses
<1>7. CASE UNCHANGED vars
  BY <1>3, <1>7 DEF vars
<1> QED  BY <1>4, <1>5, <1>6, <1>7 DEF Next

\* Only a check makes a new candidate, and it has found few.
LEMMA CandidatesBound ==
    ASSUME TypeInv, [Next]_vars, LockInv, NEW n \in {1, 2}, NEW P,
           n = 2 => \E p \in Payload : P = {p},
           Cardinality(Candidates(n, P)) <= 1 + loose
    PROVE  Cardinality(Candidates(n, P)') <= 1 + loose'
<1>1. CASE \E s \in Candidates(n, P)' : Check(s)
  <2>1. PICK s \in Candidates(n, P)' : Check(s)
    BY <1>1
  <2>2. s \in Req /\ Fresh(s, n)' /\ ask'[s].payload \in P
    BY DEF Candidates
  <2>3. ~Cooling(s)
    BY <2>1, <2>2, CheckTyped DEF Fresh, Past
  <2>4. ask'[s] = ask[s]
    BY <2>1 DEF Check
  <2>5. n = 2 => P = {ask[s].payload}
    BY <2>2, <2>4
  <2> QED  BY <2>1, <2>2, <2>3, <2>5, CandidatesFew
<1>2. CASE \A s \in Candidates(n, P)' : ~Check(s)
  <2>1. Candidates(n, P)' \subseteq Candidates(n, P)
    BY <1>2, CandidateWas DEF Candidates
  <2>2. loose \in Nat /\ loose' \in Nat /\ loose <= loose'
    BY LooseGrows, NextTyped DEF TypeInv, TypeOK
  <2> QED  BY <2>1, <2>2, CandidatesCounted
<1> QED  BY <1>1, <1>2

LEMMA CandidatesKept ==
    ASSUME TypeInv, [Next]_vars, LockInv, CandidateInv
    PROVE  CandidateInv'
<1>1. Cardinality(Candidates(1, Payload)') <= 1 + loose'
  BY CandidatesBound DEF CandidateInv
<1>2. ASSUME NEW p \in Payload
      PROVE  Cardinality(Candidates(2, {p})') <= 1 + loose'
  BY CandidatesBound DEF CandidateInv
<1> QED  BY <1>1, <1>2 DEF CandidateInv

LEMMA CooldownInit ==
    ASSUME Init
    PROVE  LockInv /\ CandidateInv
<1>1. TypeInv /\ loose = 0 /\ PayLock \in Key
  BY InitTyped, KeysAssumption DEF Init
<1>2. /\ \A r \in Req : grip[r][PayLock] = "none" /\ pc[r] = "idle" /\ row[r] = "none"
      /\ redis[PayLock] = Free /\ memory = {}
  BY <1>1 DEF Init, LockInit
<1>3. Grippers(PayLock) = {} /\ Flight = {} /\ \A n, P : Candidates(n, P) = {}
  BY <1>2 DEF Grippers, Flight, Candidates, Fresh, Past
<1>4. Cardinality({}) = 0
  BY FS_EmptySet
<1>5. Room(PayLock) \in {0, 1}
  BY GrippersCounted
<1>6. HoldersGrip(PayLock)
  BY <1>2, LockAssumption DEF HoldersGrip
<1>7. SpareInv
  BY <1>1, <1>3, <1>4, <1>5, <1>6 DEF SpareInv
<1>8. \A r \in Req : Gripping(r)
  BY <1>2 DEF Gripping, Locked, Past
<1>9. CandidateInv
  BY <1>1, <1>3, <1>4 DEF CandidateInv
<1> QED  BY <1>7, <1>8, <1>9 DEF LockInv

LEMMA CooldownHolds ==
    ASSUME TypeInv, CandidateInv
    PROVE  CooldownKept
<1> DEFINE L == {r \in Req : row[r] = "live" /\ age[r] = 0}
           M(p) == {r \in Req : row[r] = "live" /\ age[r] < 2 /\ ask[r].payload = p}
<1>1. \A r \in Req : ask[r].payload \in Payload /\ age[r] \in 0..2
  BY DEF TypeInv, TypeOK, Asking
<1>2. loose \in Nat
  BY DEF TypeInv, TypeOK
<1>3. Cardinality(L) <= 1 + loose
  <2>1. L \subseteq Candidates(1, Payload)
    BY <1>1 DEF Candidates, Fresh
  <2>2. /\ Cardinality(L) <= Cardinality(Candidates(1, Payload)) /\ Cardinality(L) \in Nat
        /\ Cardinality(Candidates(1, Payload)) \in Nat
    BY <2>1, CandidatesCounted, FS_Subset, FS_CardinalityType
  <2> QED  BY <1>2, <2>2 DEF CandidateInv
<1>4. ASSUME NEW p \in Payload
      PROVE  Cardinality(M(p)) <= 1 + loose
  <2>1. M(p) \subseteq Candidates(2, {p})
    BY <1>1 DEF Candidates, Fresh
  <2>2. /\ Cardinality(M(p)) <= Cardinality(Candidates(2, {p})) /\ Cardinality(M(p)) \in Nat
        /\ Cardinality(Candidates(2, {p})) \in Nat
    BY <2>1, CandidatesCounted, FS_Subset, FS_CardinalityType
  <2> QED  BY <1>2, <2>2 DEF CandidateInv
<1> QED  BY <1>3, <1>4 DEF CooldownKept

\* The cooldown holds across the three channels, whatever the number of requests: a second
\* live transfer to the recipient within two minutes, or of the same amount within five,
\* costs a lock that lapsed under its holder, was fallen through, or was released while its
\* holder's commit went on; with none of these there is never a second one.
THEOREM CreationCooldownKept == Spec => []CooldownKept
<1>1. Init => TypeInv /\ LockInv /\ CandidateInv
  BY InitTyped, CooldownInit
<1>2. TypeInv /\ LockInv /\ CandidateInv /\ [Next]_vars => (TypeInv /\ LockInv /\ CandidateInv)'
  BY NextTyped, LockKept, CandidatesKept
<1>3. TypeInv /\ CandidateInv => CooldownKept
  BY CooldownHolds
<1> QED  BY <1>1, <1>2, <1>3, PTL DEF Spec
==============================================================================
