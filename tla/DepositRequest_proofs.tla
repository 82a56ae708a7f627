------------------------- MODULE DepositRequest_proofs -------------------------
(***************************************************************************)
(* Proofs about deposits, for any finite numbers of deposits and requests, *)
(* any amounts and any number of faults.                                   *)
(***************************************************************************)
EXTENDS DepositRequest, FiniteSetTheorems, WellFoundedInduction, TLAPS

------------------------------------------------------------------------------
(* Sums over finite sets.  What MapThenSumSet computes is shown by an       *)
(* induction over subsets, which the least-number principle gives.          *)

\* A set of naturals that is not empty has a least one.
LEMMA NatMin ==
    ASSUME NEW T, T \subseteq Nat, T # {}
    PROVE  \E n \in T : \A k \in T : n <= k
<1> DEFINE R == {ss \in Nat \X Nat : ss[1] < ss[2]}
<1>1. IsWellFoundedOn(R, Nat)
  BY NatLessThanWellFounded DEF OpToRel
<1>2. PICK n \in T : \A k \in T : <<k, n>> \notin R
  BY <1>1, WFMin, Zenon
<1>3. \A k \in T : k \in Nat /\ n \in Nat /\ ~(k < n)
  BY <1>2
<1> QED  BY <1>3

\* What is true of a set when it is true of it without any one of its elements
\* is true of every subset of a finite set.
LEMMA SubsetInduction ==
    ASSUME NEW S, IsFiniteSet(S), NEW Good,
           \A s \in SUBSET S : (\A x \in s : s \ {x} \in Good) => s \in Good
    PROVE  SUBSET S \subseteq Good
<1> DEFINE Bad == {n \in Nat : \E s \in SUBSET S : Cardinality(s) = n /\ s \notin Good}
<1>1. \A s \in SUBSET S : IsFiniteSet(s) /\ Cardinality(s) \in Nat
  BY FS_Subset, FS_CardinalityType
<1>2. Bad = {}
  <2> SUFFICES ASSUME Bad # {} PROVE FALSE
    OBVIOUS
  <2>1. PICK n \in Bad : \A k \in Bad : n <= k
    <3> HIDE DEF Bad
    <3>1. Bad \subseteq Nat
      BY DEF Bad
    <3> QED  BY <3>1, NatMin
  <2>2. PICK s \in SUBSET S : Cardinality(s) = n /\ s \notin Good
    BY DEF Bad
  <2>3. ASSUME NEW x \in s
        PROVE  s \ {x} \in Good
    <3>1. /\ s \ {x} \in SUBSET S /\ Cardinality(s \ {x}) = n - 1
          /\ n \in Nat /\ Cardinality(s \ {x}) \in Nat
      BY <1>1, <2>2, FS_RemoveElement
    <3>2. n - 1 \notin Bad
      BY <2>1, <3>1
    <3> QED  BY <3>1, <3>2
  <2> QED  BY <2>2, <2>3
<1> QED  BY <1>1, <1>2

Sum(m, S) == MapThenSumSet(LAMBDA d : m[d], S)

\* The element a fold takes first, its equation, and a solution of it.
Pick(s) == CHOOSE x \in s : TRUE
Body(m, g, s) == IF s = {} THEN 0 ELSE m[Pick(s)] + g[s \ {Pick(s)}]

SumOf(m, S) == CHOOSE g : g = [s \in SUBSET S |-> Body(m, g, s)]

LEMMA SumIs ==
    ASSUME NEW m, NEW S
    PROVE  Sum(m, S) = SumOf(m, S)[S]
BY DEF Sum, SumOf, Body, Pick, MapThenSumSet, MapThenFoldSet

LEMMA PickIn ==
    ASSUME NEW s, s # {}
    PROVE  Pick(s) \in s
BY DEF Pick

\* The equation of the fold has a solution ...
LEMMA SumSolves ==
    ASSUME NEW S, IsFiniteSet(S), NEW m
    PROVE  \A s \in SUBSET S : SumOf(m, S)[s] = Body(m, SumOf(m, S), s)
<1> DEFINE Upto(n) == {s \in SUBSET S : Cardinality(s) <= n}
           Solves(g, n) == g = [s \in Upto(n) |-> Body(m, g, s)]
           Bad == {n \in Nat : ~ \E g : Solves(g, n)}
<1>1. \A s \in SUBSET S : IsFiniteSet(s) /\ Cardinality(s) \in Nat
  BY FS_Subset, FS_CardinalityType
<1>2. Bad = {}
  <2> SUFFICES ASSUME Bad # {} PROVE FALSE
    OBVIOUS
  <2>1. PICK n \in Bad : \A k \in Bad : n <= k
    <3> HIDE DEF Bad
    <3>1. Bad \subseteq Nat
      BY DEF Bad
    <3> QED  BY <3>1, NatMin
  <2>2. n \in Nat /\ ~ \E g : Solves(g, n)
    BY DEF Bad
  <2>3. CASE n = 0
    <3>1. Upto(0) = {{}}
      BY <1>1, FS_EmptySet
    <3>2. Solves([s \in Upto(0) |-> 0], 0)
      BY <3>1 DEF Body
    <3> QED  BY <2>2, <2>3, <3>2
  <2>4. CASE n # 0
    <3>1. n - 1 \in Nat /\ n - 1 \notin Bad
      <4>1. n - 1 \in Nat /\ ~(n <= n - 1)
        BY <2>2, <2>4
      <4> QED  BY <2>1, <4>1
    <3>2. PICK g : Solves(g, n - 1)
      BY <3>1 DEF Bad
    <3> DEFINE h == [s \in Upto(n) |-> Body(m, g, s)]
    <3>3. ASSUME NEW s \in Upto(n)
          PROVE  Body(m, g, s) = Body(m, h, s)
      <4>1. CASE s = {}
        BY <4>1 DEF Body
      <4>2. CASE s # {}
        <5> DEFINE r == s \ {Pick(s)}
        <5>1. Pick(s) \in s
          BY <4>2, PickIn
        <5>2. s \in SUBSET S /\ Cardinality(s) <= n /\ Cardinality(s) \in Nat /\ IsFiniteSet(s)
          BY <1>1
        <5>3. r \in SUBSET S /\ Cardinality(r) = Cardinality(s) - 1
          BY <5>1, <5>2, FS_RemoveElement
        <5>4. Cardinality(r) <= n - 1 /\ Cardinality(r) <= n
          BY <2>2, <5>2, <5>3
        <5>5. r \in Upto(n - 1) /\ r \in Upto(n)
          BY <5>3, <5>4
        <5>6. g[r] = Body(m, g, r)
          BY <3>2, <5>5
        <5>7. h[r] = Body(m, g, r)
          BY <5>5
        <5> QED  BY <4>2, <5>6, <5>7 DEF Body
      <4> QED  BY <4>1, <4>2
    <3>4. Solves(h, n)
      BY <3>3
    <3> QED  BY <2>2, <3>4
  <2> QED  BY <2>3, <2>4
<1>3. PICK g : Solves(g, Cardinality(S))
  BY <1>1, <1>2, FS_CardinalityType
<1>4. Upto(Cardinality(S)) = SUBSET S
  BY FS_Subset
<1>5. \E f : f = [s \in SUBSET S |-> Body(m, f, s)]
  BY <1>3, <1>4
<1>6. SumOf(m, S) = [s \in SUBSET S |-> Body(m, SumOf(m, S), s)]
  BY <1>5, Zenon DEF SumOf
<1> QED  BY <1>6

\* ... which is an integer where the projection is.
LEMMA SumInt ==
    ASSUME NEW S, IsFiniteSet(S), NEW m, \A d \in S : m[d] \in Int
    PROVE  Sum(m, S) \in Int
<1> DEFINE f == SumOf(m, S)
           Good == {s \in SUBSET S : f[s] \in Int}
<1>1. \A s \in SUBSET S : f[s] = Body(m, f, s)
  BY SumSolves
<1>2. Sum(m, S) = f[S]
  BY SumIs
<1> HIDE DEF f
<1>3. ASSUME NEW s \in SUBSET S, \A x \in s : s \ {x} \in Good
      PROVE  s \in Good
  <2>1. f[s] = Body(m, f, s)
    BY <1>1
  <2>2. s # {} => Pick(s) \in s
    BY PickIn
  <2>3. s # {} => f[s \ {Pick(s)}] \in Int
    BY <1>3, <2>2
  <2> QED  BY <2>1, <2>2, <2>3 DEF Body
<1>4. SUBSET S \subseteq Good
  <2> HIDE DEF Good
  <2> QED  BY <1>3, SubsetInduction
<1> QED  BY <1>2, <1>4

LEMMA SumEmpty ==
    ASSUME NEW m
    PROVE  Sum(m, {}) = 0
<1>1. SumOf(m, {})[{}] = Body(m, SumOf(m, {}), {})
  BY SumSolves, FS_EmptySet
<1> QED  BY <1>1, SumIs DEF Body

LEMMA SumZero ==
    ASSUME NEW S, IsFiniteSet(S), NEW m, \A d \in S : m[d] = 0
    PROVE  Sum(m, S) = 0
<1> DEFINE f == SumOf(m, S)
           Good == {s \in SUBSET S : f[s] = 0}
<1>1. \A s \in SUBSET S : f[s] = Body(m, f, s)
  BY SumSolves
<1>2. Sum(m, S) = f[S]
  BY SumIs
<1> HIDE DEF f
<1>3. ASSUME NEW s \in SUBSET S, \A x \in s : s \ {x} \in Good
      PROVE  s \in Good
  <2>1. f[s] = Body(m, f, s)
    BY <1>1
  <2>2. s # {} => Pick(s) \in s
    BY PickIn
  <2>3. s # {} => f[s \ {Pick(s)}] = 0
    BY <1>3, <2>2
  <2> QED  BY <2>1, <2>2, <2>3 DEF Body
<1>4. SUBSET S \subseteq Good
  <2> HIDE DEF Good
  <2> QED  BY <1>3, SubsetInduction
<1> QED  BY <1>2, <1>4

\* Folds over S and over R give the subsets of both the same sums, if the
\* projections agree on them.
LEMMA SumAgrees ==
    ASSUME NEW S, IsFiniteSet(S), NEW R \in SUBSET S, NEW m, NEW n,
           \A d \in R : m[d] = n[d]
    PROVE  \A s \in SUBSET R : SumOf(m, S)[s] = SumOf(n, R)[s]
<1> DEFINE f == SumOf(m, S)
           g == SumOf(n, R)
           Good == {s \in SUBSET R : f[s] = g[s]}
<1>1. IsFiniteSet(R)
  BY FS_Subset
<1>2. /\ \A s \in SUBSET S : f[s] = Body(m, f, s)
      /\ \A s \in SUBSET R : g[s] = Body(n, g, s)
  BY <1>1, SumSolves
<1> HIDE DEF f, g
<1>3. ASSUME NEW s \in SUBSET R, \A x \in s : s \ {x} \in Good
      PROVE  s \in Good
  <2>1. s # {} => Pick(s) \in s
    BY PickIn
  <2>2. f[s] = Body(m, f, s) /\ g[s] = Body(n, g, s)
    BY <1>2
  <2> QED  BY <1>3, <2>1, <2>2 DEF Body
<1>4. SUBSET R \subseteq Good
  <2> HIDE DEF Good
  <2> QED  BY <1>1, <1>3, SubsetInduction
<1> QED  BY <1>4 DEF f, g

\* Sums of what is equal are equal.
LEMMA SumSame ==
    ASSUME NEW S, IsFiniteSet(S), NEW m, NEW n, \A d \in S : m[d] = n[d]
    PROVE  Sum(m, S) = Sum(n, S)
<1>1. S \in SUBSET S
  OBVIOUS
<1>2. SumOf(m, S)[S] = SumOf(n, S)[S]
  BY <1>1, SumAgrees
<1> QED  BY <1>2, SumIs

LEMMA SumStep ==
    ASSUME NEW S, IsFiniteSet(S), NEW m, S # {}
    PROVE  /\ Pick(S) \in S
           /\ Sum(m, S) = m[Pick(S)] + Sum(m, S \ {Pick(S)})
<1>1. Pick(S) \in S
  BY PickIn
<1>2. SumOf(m, S)[S] = Body(m, SumOf(m, S), S)
  BY SumSolves
<1>3. SumOf(m, S)[S \ {Pick(S)}] = SumOf(m, S \ {Pick(S)})[S \ {Pick(S)}]
  BY SumAgrees
<1> QED  BY <1>1, <1>2, <1>3, SumIs DEF Body

\* Any element may be taken out first.
LEMMA SumRemove ==
    ASSUME NEW S, IsFiniteSet(S), NEW m, \A d \in S : m[d] \in Int, NEW y \in S
    PROVE  Sum(m, S) = m[y] + Sum(m, S \ {y})
<1> DEFINE Splits(s) == \A z \in s : Sum(m, s) = m[z] + Sum(m, s \ {z})
           Good == {s \in SUBSET S : Splits(s)}
<1>1. \A s \in SUBSET S : IsFiniteSet(s) /\ Sum(m, s) \in Int
  BY FS_Subset, SumInt
<1>2. ASSUME NEW s \in SUBSET S, \A x \in s : s \ {x} \in Good
      PROVE  s \in Good
  <2> SUFFICES ASSUME NEW z \in s
               PROVE  Sum(m, s) = m[z] + Sum(m, s \ {z})
    OBVIOUS
  <2> DEFINE p == Pick(s)
             a == s \ {p}
             b == s \ {z}
             c == s \ {p, z}
  <2>1. p \in s /\ Sum(m, s) = m[p] + Sum(m, a)
    BY <1>1, SumStep
  <2> HIDE DEF p
  <2>2. CASE p = z
    BY <2>1, <2>2
  <2>3. CASE p # z
    <3>1. z \in a /\ p \in b /\ a \ {z} = c /\ b \ {p} = c /\ c \in SUBSET S
      BY <2>1, <2>3
    <3>2. Splits(a) /\ Splits(b)
      BY <1>2, <2>1
    <3>3. Sum(m, a) = m[z] + Sum(m, c) /\ Sum(m, b) = m[p] + Sum(m, c)
      <4> HIDE DEF a, b, c
      <4> QED  BY <3>1, <3>2
    <3>4. m[z] \in Int /\ m[p] \in Int /\ Sum(m, c) \in Int
      BY <1>1, <2>1, <3>1
    <3> QED  BY <2>1, <3>3, <3>4
  <2> QED  BY <2>2, <2>3
<1>3. SUBSET S \subseteq Good
  <2> HIDE DEF Good
  <2> QED  BY <1>2, SubsetInduction
<1> QED  BY <1>3

\* Where the projections differ at one element, so do their sums.
LEMMA SumChange ==
    ASSUME NEW S, IsFiniteSet(S), NEW m, NEW n, NEW y \in S,
           \A d \in S : m[d] \in Int /\ n[d] \in Int,
           \A d \in S : d # y => m[d] = n[d]
    PROVE  Sum(n, S) = Sum(m, S) + n[y] - m[y]
<1>1. IsFiniteSet(S \ {y})
  BY FS_RemoveElement
<1>2. Sum(m, S \ {y}) = Sum(n, S \ {y}) /\ Sum(m, S \ {y}) \in Int
  BY <1>1, SumSame, SumInt
<1>3. Sum(m, S) = m[y] + Sum(m, S \ {y}) /\ Sum(n, S) = n[y] + Sum(n, S \ {y})
  BY SumRemove
<1> QED  BY <1>2, <1>3

------------------------------------------------------------------------------
(* Types, and what a request's step says of its deposit.                    *)

\* A deposit that has not been decided on.
Fresh == {"none", "deposit_pending"}
Verdicts == {"deposit", "rejected"}
VoidSteps == {"voidLook", "voidPay", "voidSave"}

\* Nobody else is in the middle of something about r's deposit.
Sole(r) == \A s \in Req : s # r => req[s].dep # req[r].dep

Stage(r) == LET d == req[r].dep IN
    /\ req[r].pc # "idle" => d \in Deposit
    /\ req[r].pc = "idle" => d = NoDeposit
    /\ req[r].pc = "create" => kind[d] = "request" /\ status[d] = "none" /\ Sole(r)
    /\ req[r].pc = "link" => kind[d] = "request" /\ status[d] # "none"
    /\ req[r].pc = "credit" =>
          /\ req[r].verdict = "deposit"
          /\ kind[d] = "request" => /\ req[r].seen = "deposit_pending"
                                    /\ status[d] # "none"
          /\ kind[d] # "request" => /\ kind[d] = "direct"
                                    /\ status[d] = "none" /\ Sole(r)
    /\ req[r].pc = "enter" =>
          req[r].verdict = "deposit" /\ kind[d] = "direct" /\ status[d] = "none" /\ Sole(r)
    /\ req[r].pc = "save" =>
          /\ kind[d] = "request" /\ req[r].verdict \in Verdicts
          /\ req[r].seen = "deposit_pending" /\ status[d] # "none"
    /\ req[r].pc = "webSave" =>
          /\ kind[d] # "direct" /\ req[r].verdict \in Verdicts
          /\ req[r].seen = "deposit_pending" /\ status[d] # "none"
    /\ req[r].pc \in {"sync", "syncWrite"} => kind[d] = "company"
    /\ req[r].pc = "syncWrite" => ~transactions
    /\ req[r].pc = "editSave" =>
          /\ ~transactions /\ req[r].seen = "deposit" /\ req[r].want \in Amounts
          /\ status[d] \notin Fresh
    /\ req[r].pc \in VoidSteps =>
          ~transactions /\ Customers(d) /\ status[d] \notin Fresh

\* Of such a deposit nothing has been edited, claimed or taken back.
FreshRow(d) ==
    status[d] \in Fresh =>
        /\ token[d] = Nobody /\ ~stale[d]
        /\ amount[d] = original[d] /\ reversals[d] = 0

TypeInv ==
    /\ TypeOK
    /\ \A r \in Req : Stage(r)
    /\ \A d \in Deposit : FreshRow(d)

LEMMA InitTyped == Init => TypeInv
BY NamesAssumption
DEF Init, TypeInv, TypeOK, Stage, FreshRow, Idle, Request, Kinds, Statuses, Steps, VoidSteps, Fresh

\* A step of request r, or of none of them, about deposit d.
OnlyReq(r, d) ==
    /\ \A s \in Req : s # r => req'[s] = req[s]
    /\ r \in Req => req[r].dep \in {d, NoDeposit} /\ req'[r].dep \in {d, NoDeposit}

OnlyRow(d) ==
    \A e \in Deposit : e # d =>
        /\ status'[e] = status[e] /\ amount'[e] = amount[e]
        /\ balance'[e] = balance[e] /\ entries'[e] = entries[e]
        /\ reversals'[e] = reversals[e]

OnlyToken(d) ==
    \A e \in Deposit : e # d => token'[e] = token[e] /\ stale'[e] = stale[e]

Forward(d) ==
    /\ status[d] # "none" => status'[d] # "none"
    /\ status[d] \notin Fresh => status'[d] \notin Fresh

\* Nobody whose step relies on the deposit not being there yet is disturbed.
Alone(r, d) ==
    \/ status[d] # "none"
    \/ kind[d] = "company"
    \/ \A s \in Req : s # r => req[s].dep # d

Local(r, d) ==
    /\ transactions' = transactions /\ kind' = kind /\ original' = original
    /\ OnlyReq(r, d) /\ OnlyRow(d) /\ Forward(d) /\ Alone(r, d)
    /\ late' \in Nat /\ faults' \in Nat /\ late <= late' /\ faults <= faults'

Sound(r, d) ==
    /\ TypeOK' /\ d \in Deposit /\ Local(r, d)
    /\ r \in Req => Stage(r)'
    /\ \A e \in Deposit : FreshRow(e)'

LEMMA Typed ==
    ASSUME TypeInv
    PROVE  /\ kind \in [Deposit -> Kinds] /\ original \in [Deposit -> Amounts]
           /\ status \in [Deposit -> Statuses] /\ amount \in [Deposit -> Amounts]
           /\ linked \in [Deposit -> BOOLEAN]
           /\ token \in [Deposit -> Req \cup {Nobody, Voided, Orphan}]
           /\ stale \in [Deposit -> BOOLEAN]
           /\ balance \in [Deposit -> Int]
           /\ entries \in [Deposit -> Nat] /\ reversals \in [Deposit -> Nat]
           /\ pool \in Int /\ req \in [Req -> Request]
           /\ late \in Nat /\ faults \in Nat
           /\ Amounts \subseteq Int /\ Nobody \notin Req
           /\ transactions \in BOOLEAN
BY NamesAssumption, AmountsAssumption DEF TypeInv, TypeOK

LEMMA Step ==
    ASSUME TypeOK, NoFault \/ AFault \/ ALate
    PROVE  late' \in Nat /\ faults' \in Nat /\ late <= late' /\ faults <= faults'
BY DEF TypeOK, NoFault, AFault, ALate, tallies

\* A request goes on to a step, or is over.
Went(r, step) ==
    /\ req' \in [Req -> Request]
    /\ \A s \in Req : s # r => req'[s] = req[s]
    /\ req'[r].pc = step /\ req'[r].dep = req[r].dep /\ req'[r].verdict = req[r].verdict
    /\ req'[r].seen = req[r].seen /\ req'[r].old = req[r].old /\ req'[r].want = req[r].want

Ended(r) ==
    /\ req' \in [Req -> Request]
    /\ \A s \in Req : s # r => req'[s] = req[s]
    /\ req'[r] = Idle

LEMMA GoWent ==
    ASSUME TypeInv, NEW r \in Req, NEW step \in Steps, Go(r, step)
    PROVE  Went(r, step)
BY Typed DEF Go, Went, Request

LEMMA EndEnded ==
    ASSUME TypeInv, NEW r \in Req, End(r)
    PROVE  Ended(r)
BY Typed DEF End, Ended, Idle, Request, Steps, Statuses

LEMMA ReqMoved ==
    ASSUME NEW r \in Req, req[r].dep \in Deposit, NEW step, Went(r, step) \/ Ended(r)
    PROVE  OnlyReq(r, req[r].dep) /\ req' \in [Req -> Request]
BY DEF Went, Ended, OnlyReq, Idle

LEMMA EndedStage ==
    ASSUME NEW r \in Req, Ended(r)
    PROVE  Stage(r)'
BY NamesAssumption DEF Ended, Stage, Idle, VoidSteps

LEMMA SaveSound ==
    ASSUME TypeInv, NEW r \in Req, Save(r)
    PROVE  Sound(r, req[r].dep)
<1> DEFINE d == req[r].dep
<1>1. d \in Deposit /\ Stage(r) /\ req[r].pc = "save"
  BY DEF Save, TypeInv, Stage
<1>2. TypeOK'
  BY <1>1, Typed, Step, NamesAssumption DEF Save, Set, End, Writes, Idle, Request, TypeOK, fixed, money, Steps, Statuses, Stage, Verdicts
<1>3. Local(r, d)
  BY <1>1, Typed, Step DEF Save, Set, End, Writes, Idle, Local, fixed, money, Stage, Verdicts, OnlyReq, OnlyRow, Forward, Alone, Fresh, TypeInv
<1>4. Stage(r)'
  BY <1>1, Typed, NamesAssumption DEF Save, End, Idle, Stage, VoidSteps
<1>5. ASSUME NEW e \in Deposit PROVE FreshRow(e)'
  BY <1>1, Typed DEF Save, Set, TypeInv, FreshRow, fixed, money, Fresh, Stage, Verdicts
<1> QED  BY <1>1, <1>2, <1>3, <1>4, <1>5 DEF Sound

LEMMA AskSound ==
    ASSUME TypeInv, NEW r \in Req, NEW d \in Deposit, Ask(r, d)
    PROVE  Sound(r, d)
<1>1. Stage(r) /\ req[r].pc = "idle" /\ d \in Deposit
  BY DEF Ask, TypeInv, Stage, VoidSteps, Reviewable, Voidable, Start
<1>2. TypeOK'
  BY <1>1, Typed, Step, NamesAssumption
  DEF Ask, Start, Request, TypeOK, fixed, rows, money, tallies, Steps, Statuses,
      Stage, Verdicts
<1>3. Local(r, d)
  BY <1>1, Typed, Step
  DEF Ask, Start, Local, fixed, rows, money, tallies, Stage, Verdicts, OnlyReq, OnlyRow,
      Forward, Alone, Fresh, TypeInv
<1>4. Stage(r)'
  BY <1>1, Typed, NamesAssumption
  DEF Ask, Start, Stage, VoidSteps, Verdicts, Fresh, fixed, rows, Sole, Customers
<1>5. ASSUME NEW e \in Deposit PROVE FreshRow(e)'
  BY <1>1, Typed
  DEF Ask, Start, TypeInv, FreshRow, fixed, rows, money, Fresh, Stage, Verdicts, VoidSteps
<1> QED  BY <1>1, <1>2, <1>3, <1>4, <1>5 DEF Sound

LEMMA CreateSound ==
    ASSUME TypeInv, NEW r \in Req, Create(r)
    PROVE  Sound(r, req[r].dep)
<1> DEFINE d == req[r].dep
<1>1. d \in Deposit /\ Stage(r) /\ req[r].pc = "create"
  BY DEF Create, TypeInv, Stage, VoidSteps
<1>2. TypeOK'
  BY <1>1, Typed, Step, NamesAssumption
  DEF Create, Set, Go, Request, TypeOK, fixed, rows, money, tallies, Steps, Statuses,
      Stage, Verdicts
<1>3. Local(r, d)
  <2>1. late' \in Nat /\ faults' \in Nat /\ late <= late' /\ faults <= faults'
    BY Typed DEF Create, Writes, NoFault, AFault, ALate, tallies
  <2>2. OnlyReq(r, d)
    BY <1>1, Typed DEF Create, Set, Go, OnlyReq
  <2>3. OnlyRow(d)
    BY <1>1, Typed DEF Create, Set, Go, OnlyRow, rows, money
  <2>4. Forward(d) /\ Alone(r, d)
    BY <1>1, Typed DEF Create, Set, Go, Forward, Alone, rows, Fresh, Stage, Verdicts, Sole, VoidSteps
  <2> QED  BY <2>1, <2>2, <2>3, <2>4 DEF Create, Local, fixed
<1>4. Stage(r)'
  BY <1>1, Typed, NamesAssumption
  DEF Create, Set, Go, Stage, VoidSteps, Verdicts, Fresh, fixed, rows, Sole, Customers
<1>5. ASSUME NEW e \in Deposit PROVE FreshRow(e)'
  BY <1>1, Typed
  DEF Create, Set, Go, TypeInv, FreshRow, fixed, rows, money, Fresh, Stage, Verdicts, VoidSteps
<1> QED  BY <1>1, <1>2, <1>3, <1>4, <1>5 DEF Sound

LEMMA LinkSound ==
    ASSUME TypeInv, NEW r \in Req, Link(r)
    PROVE  Sound(r, req[r].dep)
<1> DEFINE d == req[r].dep
<1>1. d \in Deposit /\ Stage(r) /\ req[r].pc = "link"
  BY DEF Link, TypeInv, Stage, VoidSteps
<1>2. TypeOK'
  BY <1>1, Typed, Step, NamesAssumption
  DEF Link, End, Idle, Request, TypeOK, fixed, rows, money, tallies, Steps, Statuses,
      Stage, Verdicts
<1>3. Local(r, d)
  BY <1>1, Typed, Step
  DEF Link, End, Idle, Local, fixed, rows, money, tallies, Stage, Verdicts, OnlyReq, OnlyRow,
      Forward, Alone, Fresh, TypeInv
<1>4. Stage(r)'
  BY <1>1, Typed, NamesAssumption
  DEF Link, End, Idle, Stage, VoidSteps, Verdicts, Fresh, fixed, rows, Sole, Customers
<1>5. ASSUME NEW e \in Deposit PROVE FreshRow(e)'
  BY <1>1, Typed
  DEF Link, End, Idle, TypeInv, FreshRow, fixed, rows, money, Fresh, Stage, Verdicts, VoidSteps
<1> QED  BY <1>1, <1>2, <1>3, <1>4, <1>5 DEF Sound

LEMMA SubmitSound ==
    ASSUME TypeInv, NEW d \in Deposit, Submit(d)
    PROVE  Sound(Nobody, d)
<1>1. status[d] = "none" /\ kind[d] = "company" /\ d \in Deposit
  BY DEF Submit, TypeInv, Stage, VoidSteps, Reviewable, Voidable, Start
<1>2. TypeOK'
  BY <1>1, Typed, Step, NamesAssumption
  DEF Submit, Set, Request, TypeOK, fixed, rows, money, tallies, Steps, Statuses,
      Stage, Verdicts
<1>3. Local(Nobody, d)
  BY <1>1, Typed, Step
  DEF Submit, Set, Local, fixed, rows, money, tallies, Stage, Verdicts, OnlyReq, OnlyRow,
      Forward, Alone, Fresh, TypeInv
<1>5. ASSUME NEW e \in Deposit PROVE FreshRow(e)'
  BY <1>1, Typed
  DEF Submit, Set, TypeInv, FreshRow, fixed, rows, money, Fresh, Stage, Verdicts, VoidSteps
<1> QED  BY <1>1, <1>2, <1>3, <1>5, Typed DEF Sound

LEMMA EnterSound ==
    ASSUME TypeInv, NEW r \in Req, Enter(r)
    PROVE  Sound(r, req[r].dep)
<1> DEFINE d == req[r].dep
<1>1. d \in Deposit /\ Stage(r) /\ req[r].pc = "enter"
  BY DEF Enter, TypeInv, Stage, VoidSteps
<1>2. TypeOK'
  BY <1>1, Typed, Step, NamesAssumption
  DEF Enter, Set, End, Idle, Request, TypeOK, fixed, rows, money, tallies, Steps, Statuses,
      Stage, Verdicts
<1>3. Local(r, d)
  <2>1. late' \in Nat /\ faults' \in Nat /\ late <= late' /\ faults <= faults'
    BY Typed DEF Enter, Writes, NoFault, AFault, ALate, tallies
  <2>2. OnlyReq(r, d)
    BY <1>1, Typed DEF Enter, Set, End, Idle, OnlyReq
  <2>3. OnlyRow(d)
    BY <1>1, Typed DEF Enter, Set, End, Idle, OnlyRow, rows, money
  <2>4. Forward(d) /\ Alone(r, d)
    BY <1>1, Typed DEF Enter, Set, End, Idle, Forward, Alone, rows, Fresh, Stage, Verdicts, Sole, VoidSteps
  <2> QED  BY <2>1, <2>2, <2>3, <2>4 DEF Enter, Local, fixed
<1>4. Stage(r)'
  BY <1>1, Typed, NamesAssumption
  DEF Enter, Set, End, Idle, Stage, VoidSteps, Verdicts, Fresh, fixed, rows, Sole, Customers
<1>5. ASSUME NEW e \in Deposit PROVE FreshRow(e)'
  BY <1>1, Typed
  DEF Enter, Set, End, Idle, TypeInv, FreshRow, fixed, rows, money, Fresh, Stage, Verdicts, VoidSteps
<1> QED  BY <1>1, <1>2, <1>3, <1>4, <1>5 DEF Sound

LEMMA ReviewSound ==
    ASSUME TypeInv, NEW r \in Req, NEW d \in Deposit, NEW v \in Verdicts, Review(r, d, v)
    PROVE  Sound(r, d)
<1>1. Stage(r) /\ req[r].pc = "idle" /\ d \in Deposit
  BY DEF Review, TypeInv, Stage, VoidSteps, Reviewable, Voidable, Start
<1>2. TypeOK'
  BY <1>1, Typed, Step, NamesAssumption
  DEF Review, Start, Reviewable, Request, TypeOK, fixed, rows, money, tallies, Steps, Statuses,
      Stage, Verdicts
<1>3. Local(r, d)
  BY <1>1, Typed, Step
  DEF Review, Start, Reviewable, Local, fixed, rows, money, tallies, Stage, Verdicts, OnlyReq, OnlyRow,
      Forward, Alone, Fresh, TypeInv
<1>4. Stage(r)'
  BY <1>1, Typed, NamesAssumption
  DEF Review, Start, Reviewable, Stage, VoidSteps, Verdicts, Fresh, fixed, rows, Sole, Customers
<1>5. ASSUME NEW e \in Deposit PROVE FreshRow(e)'
  BY <1>1, Typed
  DEF Review, Start, Reviewable, TypeInv, FreshRow, fixed, rows, money, Fresh, Stage, Verdicts, VoidSteps
<1> QED  BY <1>1, <1>2, <1>3, <1>4, <1>5 DEF Sound

LEMMA CreditSound ==
    ASSUME TypeInv, NEW r \in Req, Credit(r)
    PROVE  Sound(r, req[r].dep)
<1> DEFINE d == req[r].dep
<1>1. d \in Deposit /\ Stage(r) /\ req[r].pc = "credit"
  BY DEF Credit, TypeInv, Stage, VoidSteps
<1>0. Ended(r) \/ Went(r, IF kind[d] = "direct" THEN "enter" ELSE "save")
  BY <1>1, Typed, GoWent, EndEnded DEF Credit, Steps
<1>2. TypeOK'
  <2>1. req' \in [Req -> Request]
    BY <1>0 DEF Ended, Went
  <2>2. balance' \in [Deposit -> Int] /\ entries' \in [Deposit -> Nat]
    <3>1. original[d] \in Int /\ balance[d] \in Int /\ entries[d] \in Nat
      BY <1>1, Typed
    <3>2. balance' = [balance EXCEPT ![d] = balance[d] + original[d]]
      BY DEF Credit
    <3>3. entries' = entries \/ entries' = [entries EXCEPT ![d] = entries[d] + 1]
      BY DEF Credit
    <3>4. balance[d] + original[d] \in Int /\ entries[d] + 1 \in Nat
      BY <3>1
    <3>5. balance' \in [Deposit -> Int]
      BY <3>2, <3>4, Typed
    <3>6. entries' \in [Deposit -> Nat]
      BY <3>3, <3>4, Typed
    <3> QED  BY <3>5, <3>6
  <2>3. late' \in Nat /\ faults' \in Nat
    BY Typed DEF Credit, NoFault, AFault, tallies
  <2> QED  BY <2>1, <2>2, <2>3, Typed DEF Credit, TypeOK, fixed, rows
<1>3. Local(r, d)
  <2>1. late' \in Nat /\ faults' \in Nat /\ late <= late' /\ faults <= faults'
    BY Typed DEF Credit, Writes, NoFault, AFault, ALate, tallies
  <2>2. OnlyReq(r, d)
    BY <1>0, <1>1, ReqMoved
  <2>3. OnlyRow(d)
    BY <1>1, Typed DEF Credit, Go, End, Idle, Kinds, OnlyRow, rows, money
  <2>4. Forward(d) /\ Alone(r, d)
    BY <1>1, Typed DEF Credit, Go, End, Idle, Kinds, Forward, Alone, rows, Fresh, Stage, Verdicts, Sole, VoidSteps
  <2> QED  BY <2>1, <2>2, <2>3, <2>4 DEF Credit, Local, fixed
<1>4. Stage(r)'
  <2>1. CASE Ended(r)
    BY <2>1, EndedStage
  <2>2. CASE ~Ended(r)
    <3>1. transactions' = transactions /\ kind' = kind /\ Forward(d)
      BY <1>3 DEF Local
    <3> QED
      BY <1>0, <1>1, <2>2, <3>1
      DEF Credit, rows,  Went, Stage, VoidSteps, Forward, Customers, Fresh, Sole, Verdicts
  <2> QED  BY <2>1, <2>2
<1>5. ASSUME NEW e \in Deposit PROVE FreshRow(e)'
  BY <1>1, Typed
  DEF Credit, Go, End, Idle, Kinds, TypeInv, FreshRow, fixed, rows, money, Fresh, Stage, Verdicts, VoidSteps
<1> QED  BY <1>1, <1>2, <1>3, <1>4, <1>5 DEF Sound

LEMMA WebReviewSound ==
    ASSUME TypeInv, NEW r \in Req, NEW d \in Deposit, NEW v \in Verdicts, WebReview(r, d, v)
    PROVE  Sound(r, d)
<1>1. Stage(r) /\ req[r].pc = "idle" /\ d \in Deposit
  BY DEF WebReview, TypeInv, Stage, VoidSteps, Reviewable, Voidable, Start
<1>2. TypeOK'
  BY <1>1, Typed, Step, NamesAssumption
  DEF WebReview, Start, Request, TypeOK, fixed, rows, money, tallies, Steps, Statuses,
      Stage, Verdicts
<1>3. Local(r, d)
  BY <1>1, Typed, Step
  DEF WebReview, Start, Local, fixed, rows, money, tallies, Stage, Verdicts, OnlyReq, OnlyRow,
      Forward, Alone, Fresh, TypeInv
<1>4. Stage(r)'
  BY <1>1, Typed, NamesAssumption
  DEF WebReview, Start, Stage, VoidSteps, Verdicts, Fresh, fixed, rows, Sole, Customers
<1>5. ASSUME NEW e \in Deposit PROVE FreshRow(e)'
  BY <1>1, Typed
  DEF WebReview, Start, TypeInv, FreshRow, fixed, rows, money, Fresh, Stage, Verdicts, VoidSteps
<1> QED  BY <1>1, <1>2, <1>3, <1>4, <1>5 DEF Sound

LEMMA WebSaveSound ==
    ASSUME TypeInv, NEW r \in Req, WebSave(r)
    PROVE  Sound(r, req[r].dep)
<1> DEFINE d == req[r].dep
<1>1. d \in Deposit /\ Stage(r) /\ req[r].pc = "webSave"
  BY DEF WebSave, TypeInv, Stage, VoidSteps
<1>0. Ended(r) \/ (Went(r, "sync") /\ kind[d] = "company")
  BY <1>1, Typed, GoWent, EndEnded DEF WebSave, Steps
<1>2. TypeOK'
  BY SMTT(20), <1>1, Typed, Step, NamesAssumption
  DEF WebSave, Set, Go, End, Idle, Writes, Request, TypeOK, fixed, rows, money, tallies, Steps, Statuses,
      Stage, Verdicts
<1>3. Local(r, d)
  <2>1. late' \in Nat /\ faults' \in Nat /\ late <= late' /\ faults <= faults'
    BY Typed DEF WebSave, Writes, NoFault, AFault, ALate, tallies
  <2>2. OnlyReq(r, d)
    BY <1>0, <1>1, ReqMoved
  <2>3. OnlyRow(d)
    BY <1>1, Typed DEF WebSave, Set, Go, End, Idle, Writes, OnlyRow, rows, money
  <2>4. Forward(d) /\ Alone(r, d)
    BY <1>1, Typed DEF WebSave, Set, Go, End, Idle, Writes, Forward, Alone, rows, Fresh, Stage, Verdicts, Sole, VoidSteps
  <2> QED  BY <2>1, <2>2, <2>3, <2>4 DEF WebSave, Local, fixed
<1>4. Stage(r)'
  <2>1. CASE Ended(r)
    BY <2>1, EndedStage
  <2>2. CASE ~Ended(r)
    <3>1. transactions' = transactions /\ kind' = kind /\ Forward(d)
      BY <1>3 DEF Local
    <3> QED
      BY <1>0, <1>1, <2>2, <3>1
      DEF  Went, Stage, VoidSteps, Forward, Customers, Fresh, Sole, Verdicts
  <2> QED  BY <2>1, <2>2
<1>5. ASSUME NEW e \in Deposit PROVE FreshRow(e)'
  BY <1>1, Typed
  DEF WebSave, Set, Go, End, Idle, Writes, TypeInv, FreshRow, fixed, rows, money, Fresh, Stage, Verdicts, VoidSteps
<1> QED  BY <1>1, <1>2, <1>3, <1>4, <1>5 DEF Sound

LEMMA EditSaveSound ==
    ASSUME TypeInv, NEW r \in Req, EditSave(r)
    PROVE  Sound(r, req[r].dep)
<1> DEFINE d == req[r].dep
<1>1. d \in Deposit /\ Stage(r) /\ req[r].pc = "editSave"
  BY DEF EditSave, TypeInv, Stage, VoidSteps
<1>0. Ended(r) \/ (Went(r, "sync") /\ kind[d] = "company")
  BY <1>1, Typed, GoWent, EndEnded DEF EditSave, Steps, Customers, Kinds
<1>2. TypeOK'
  BY SMTT(20), <1>1, Typed, Step, NamesAssumption
  DEF EditSave, Go, End, Idle, Writes, Customers, Kinds, Request, TypeOK, fixed, rows, money, tallies, Steps, Statuses,
      Stage, Verdicts
<1>3. Local(r, d)
  <2>1. late' \in Nat /\ faults' \in Nat /\ late <= late' /\ faults <= faults'
    BY Typed DEF EditSave, Writes, NoFault, AFault, ALate, tallies
  <2>2. OnlyReq(r, d)
    BY <1>0, <1>1, ReqMoved
  <2>3. OnlyRow(d)
    BY <1>1, Typed DEF EditSave, Go, End, Idle, Writes, Customers, Kinds, OnlyRow, rows, money
  <2>4. Forward(d) /\ Alone(r, d)
    BY <1>1, Typed DEF EditSave, Go, End, Idle, Writes, Customers, Kinds, Forward, Alone, rows, Fresh, Stage, Verdicts, Sole, VoidSteps
  <2> QED  BY <2>1, <2>2, <2>3, <2>4 DEF EditSave, Local, fixed
<1>4. Stage(r)'
  <2>1. CASE Ended(r)
    BY <2>1, EndedStage
  <2>2. CASE ~Ended(r)
    <3>1. transactions' = transactions /\ kind' = kind /\ Forward(d)
      BY <1>3 DEF Local
    <3> QED
      BY <1>0, <1>1, <2>2, <3>1
      DEF  Went, Stage, VoidSteps, Forward, Customers, Fresh, Sole, Verdicts
  <2> QED  BY <2>1, <2>2
<1>5. ASSUME NEW e \in Deposit PROVE FreshRow(e)'
  BY <1>1, Typed
  DEF EditSave, Go, End, Idle, Writes, Customers, Kinds, TypeInv, FreshRow, fixed, rows, money, Fresh, Stage, Verdicts, VoidSteps
<1> QED  BY <1>1, <1>2, <1>3, <1>4, <1>5 DEF Sound

LEMMA VoidClaimSound ==
    ASSUME TypeInv, NEW r \in Req, NEW d \in Deposit, VoidClaim(r, d)
    PROVE  Sound(r, d)
<1>1. Stage(r) /\ req[r].pc = "idle" /\ d \in Deposit
  BY DEF VoidClaim, TypeInv, Stage, VoidSteps, Reviewable, Voidable, Start
<1>2. TypeOK'
  BY <1>1, Typed, Step, NamesAssumption
  DEF VoidClaim, Start, Voidable, Customers, Request, TypeOK, fixed, rows, money, tallies, Steps, Statuses,
      Stage, Verdicts
<1>3. Local(r, d)
  BY <1>1, Typed, Step
  DEF VoidClaim, Start, Voidable, Customers, Local, fixed, rows, money, tallies, Stage, Verdicts, OnlyReq, OnlyRow,
      Forward, Alone, Fresh, TypeInv
<1>4. Stage(r)'
  BY <1>1, Typed, NamesAssumption
  DEF VoidClaim, Start, Voidable, Customers, Stage, VoidSteps, Verdicts, Fresh, fixed, rows, Sole, Customers
<1>5. ASSUME NEW e \in Deposit PROVE FreshRow(e)'
  BY <1>1, Typed
  DEF VoidClaim, Start, Voidable, Customers, TypeInv, FreshRow, fixed, rows, money, Fresh, Stage, Verdicts, VoidSteps
<1> QED  BY <1>1, <1>2, <1>3, <1>4, <1>5 DEF Sound

LEMMA VoidLookSound ==
    ASSUME TypeInv, NEW r \in Req, VoidLook(r)
    PROVE  Sound(r, req[r].dep)
<1> DEFINE d == req[r].dep
<1>1. d \in Deposit /\ Stage(r) /\ req[r].pc = "voidLook"
  BY DEF VoidLook, TypeInv, Stage, VoidSteps
<1>0. Ended(r) \/ Went(r, IF reversals[d] = 0 THEN "voidPay" ELSE "voidSave")
  BY <1>1, Typed, GoWent, EndEnded DEF VoidLook, Steps
<1>2. TypeOK'
  <2>1. token' \in [Deposit -> Req \cup {Nobody, Voided, Orphan}] /\ stale' \in [Deposit -> BOOLEAN]
    BY <1>1, Typed DEF VoidLook, Go, End, Idle, Untoken, rows
  <2>2. req' \in [Req -> Request]
    BY <1>0, <1>1, ReqMoved
  <2>3. status' \in [Deposit -> Statuses]
    BY <1>1, Typed DEF VoidLook, Go, End, Idle, Untoken, rows, Statuses
  <2>4. /\ balance' \in [Deposit -> Int] /\ entries' \in [Deposit -> Nat]
        /\ reversals' \in [Deposit -> Nat]
    BY <1>1, Typed DEF VoidLook, money
  <2>5. late' \in Nat /\ faults' \in Nat
    BY Typed DEF VoidLook, NoFault, AFault, ALate, Writes, tallies
  <2> QED  BY <1>1, <2>1, <2>2, <2>3, <2>4, <2>5, Typed DEF VoidLook, TypeOK, fixed, rows, money
<1>3. Local(r, d)
  <2>1. late' \in Nat /\ faults' \in Nat /\ late <= late' /\ faults <= faults'
    BY Typed DEF VoidLook, Writes, NoFault, AFault, ALate, tallies
  <2>2. OnlyReq(r, d)
    BY <1>0, <1>1, ReqMoved
  <2>3. OnlyRow(d)
    BY <1>1, Typed DEF VoidLook, Go, End, Idle, Untoken, OnlyRow, rows, money
  <2>4. Forward(d) /\ Alone(r, d)
    BY <1>1, Typed DEF VoidLook, Go, End, Idle, Untoken, Forward, Alone, rows, Fresh, Stage, Verdicts, Sole, VoidSteps
  <2> QED  BY <2>1, <2>2, <2>3, <2>4 DEF VoidLook, Local, fixed
<1>4. Stage(r)'
  <2>1. CASE Ended(r)
    BY <2>1, EndedStage
  <2>2. CASE ~Ended(r)
    <3>1. transactions' = transactions /\ kind' = kind /\ Forward(d)
      BY <1>3 DEF Local
    <3> QED
      BY <1>0, <1>1, <2>2, <3>1
      DEF  Went, Stage, VoidSteps, Forward, Customers, Fresh, Sole, Verdicts
  <2> QED  BY <2>1, <2>2
<1>5. ASSUME NEW e \in Deposit PROVE FreshRow(e)'
  BY <1>1, Typed
  DEF VoidLook, Go, End, Idle, Untoken, TypeInv, FreshRow, fixed, rows, money, Fresh, Stage, Verdicts, VoidSteps
<1> QED  BY <1>1, <1>2, <1>3, <1>4, <1>5 DEF Sound

LEMMA VoidPaySound ==
    ASSUME TypeInv, NEW r \in Req, VoidPay(r)
    PROVE  Sound(r, req[r].dep)
<1> DEFINE d == req[r].dep
<1>1. d \in Deposit /\ Stage(r) /\ req[r].pc = "voidPay"
  BY DEF VoidPay, TypeInv, Stage, VoidSteps
<1>0. Ended(r) \/ Went(r, "voidSave")
  BY <1>1, Typed, GoWent, EndEnded DEF VoidPay, Steps
<1>2. TypeOK'
  <2>1. token' \in [Deposit -> Req \cup {Nobody, Voided, Orphan}] /\ stale' \in [Deposit -> BOOLEAN]
    BY <1>1, Typed DEF VoidPay, Go, End, Idle, Untoken, rows
  <2>2. req' \in [Req -> Request]
    BY <1>0, <1>1, ReqMoved
  <2>3. status' \in [Deposit -> Statuses]
    BY <1>1, Typed DEF VoidPay, Go, End, Idle, Untoken, rows, Statuses
  <2>4. /\ balance' \in [Deposit -> Int] /\ entries' \in [Deposit -> Nat]
        /\ reversals' \in [Deposit -> Nat]
    BY <1>1, Typed DEF VoidPay, money
  <2>5. late' \in Nat /\ faults' \in Nat
    BY Typed DEF VoidPay, NoFault, AFault, ALate, Writes, tallies
  <2> QED  BY <1>1, <2>1, <2>2, <2>3, <2>4, <2>5, Typed DEF VoidPay, TypeOK, fixed, rows, money
<1>3. Local(r, d)
  <2>1. late' \in Nat /\ faults' \in Nat /\ late <= late' /\ faults <= faults'
    BY Typed DEF VoidPay, Writes, NoFault, AFault, ALate, tallies
  <2>2. OnlyReq(r, d)
    BY <1>0, <1>1, ReqMoved
  <2>3. OnlyRow(d)
    BY <1>1, Typed DEF VoidPay, Go, End, Idle, Untoken, OnlyRow, rows, money
  <2>4. Forward(d) /\ Alone(r, d)
    BY <1>1, Typed DEF VoidPay, Go, End, Idle, Untoken, Forward, Alone, rows, Fresh, Stage, Verdicts, Sole, VoidSteps
  <2> QED  BY <2>1, <2>2, <2>3, <2>4 DEF VoidPay, Local, fixed
<1>4. Stage(r)'
  <2>1. CASE Ended(r)
    BY <2>1, EndedStage
  <2>2. CASE ~Ended(r)
    <3>1. transactions' = transactions /\ kind' = kind /\ Forward(d)
      BY <1>3 DEF Local
    <3> QED
      BY <1>0, <1>1, <2>2, <3>1
      DEF  Went, Stage, VoidSteps, Forward, Customers, Fresh, Sole, Verdicts
  <2> QED  BY <2>1, <2>2
<1>5. ASSUME NEW e \in Deposit PROVE FreshRow(e)'
  BY <1>1, Typed
  DEF VoidPay, Go, End, Idle, Untoken, TypeInv, FreshRow, fixed, rows, money, Fresh, Stage, Verdicts, VoidSteps
<1> QED  BY <1>1, <1>2, <1>3, <1>4, <1>5 DEF Sound

LEMMA VoidSaveSound ==
    ASSUME TypeInv, NEW r \in Req, VoidSave(r)
    PROVE  Sound(r, req[r].dep)
<1> DEFINE d == req[r].dep
<1>1. d \in Deposit /\ Stage(r) /\ req[r].pc = "voidSave"
  BY DEF VoidSave, TypeInv, Stage, VoidSteps
<1>0. Ended(r)
  BY <1>1, Typed, GoWent, EndEnded DEF VoidSave, Steps
<1>2. TypeOK'
  <2>1. token' \in [Deposit -> Req \cup {Nobody, Voided, Orphan}] /\ stale' \in [Deposit -> BOOLEAN]
    BY <1>1, Typed DEF VoidSave, Set, End, Idle, rows
  <2>2. req' \in [Req -> Request]
    BY <1>0, <1>1, ReqMoved
  <2>3. status' \in [Deposit -> Statuses]
    BY <1>1, Typed DEF VoidSave, Set, End, Idle, rows, Statuses
  <2>4. /\ balance' \in [Deposit -> Int] /\ entries' \in [Deposit -> Nat]
        /\ reversals' \in [Deposit -> Nat]
    BY <1>1, Typed DEF VoidSave, money
  <2>5. late' \in Nat /\ faults' \in Nat
    BY Typed DEF VoidSave, NoFault, AFault, ALate, Writes, tallies
  <2> QED  BY <1>1, <2>1, <2>2, <2>3, <2>4, <2>5, Typed DEF VoidSave, TypeOK, fixed, rows, money
<1>3. Local(r, d)
  <2>1. late' \in Nat /\ faults' \in Nat /\ late <= late' /\ faults <= faults'
    BY Typed DEF VoidSave, Writes, NoFault, AFault, ALate, tallies
  <2>2. OnlyReq(r, d)
    BY <1>0, <1>1, ReqMoved
  <2>3. OnlyRow(d)
    BY <1>1, Typed DEF VoidSave, Set, End, Idle, OnlyRow, rows, money
  <2>4. Forward(d) /\ Alone(r, d)
    BY <1>1, Typed DEF VoidSave, Set, End, Idle, Forward, Alone, rows, Fresh, Stage, Verdicts, Sole, VoidSteps
  <2> QED  BY <2>1, <2>2, <2>3, <2>4 DEF VoidSave, Local, fixed
<1>4. Stage(r)'
  <2>1. CASE Ended(r)
    BY <2>1, EndedStage
  <2>2. CASE ~Ended(r)
    <3>1. transactions' = transactions /\ kind' = kind /\ Forward(d)
      BY <1>3 DEF Local
    <3> QED
      BY <1>0, <1>1, <2>2, <3>1
      DEF  Went, Stage, VoidSteps, Forward, Customers, Fresh, Sole, Verdicts
  <2> QED  BY <2>1, <2>2
<1>5. ASSUME NEW e \in Deposit PROVE FreshRow(e)'
  BY <1>1, Typed
  DEF VoidSave, Set, End, Idle, TypeInv, FreshRow, fixed, rows, money, Fresh, Stage, Verdicts, VoidSteps
<1> QED  BY <1>1, <1>2, <1>3, <1>4, <1>5 DEF Sound

LEMMA VoidSound ==
    ASSUME TypeInv, NEW d \in Deposit, Void(d)
    PROVE  Sound(Nobody, d)
<1>1. d \in Deposit /\ status[d] = "deposit"
  BY DEF Void, TypeInv, Stage, VoidSteps, Reviewable, Voidable, Start
<1>2. TypeOK'
  BY <1>1, Typed, Step, NamesAssumption
  DEF Void, Set, Voidable, Request, TypeOK, fixed, rows, money, tallies, Steps, Statuses,
      Stage, Verdicts
<1>3. Local(Nobody, d)
  BY <1>1, Typed, Step
  DEF Void, Set, Voidable, Local, fixed, rows, money, tallies, Stage, Verdicts, OnlyReq, OnlyRow,
      Forward, Alone, Fresh, TypeInv
<1>5. ASSUME NEW e \in Deposit PROVE FreshRow(e)'
  BY <1>1, Typed
  DEF Void, Set, Voidable, TypeInv, FreshRow, fixed, rows, money, Fresh, Stage, Verdicts, VoidSteps
<1> QED  BY <1>1, <1>2, <1>3, <1>5, Typed DEF Sound

LEMMA TokenLapsesSound ==
    ASSUME TypeInv, NEW d \in Deposit, TokenLapses(d)
    PROVE  Sound(Nobody, d)
<1>1. d \in Deposit /\ status[d] \notin Fresh
  BY DEF TokenLapses, TypeInv, Stage, VoidSteps, FreshRow, Reviewable, Voidable, Start
<1>2. TypeOK'
  BY <1>1, Typed, Step, NamesAssumption
  DEF TokenLapses, Set, Request, TypeOK, fixed, rows, money, tallies, Steps, Statuses,
      Stage, Verdicts
<1>3. Local(Nobody, d)
  <2>1. late' \in Nat /\ faults' \in Nat /\ late <= late' /\ faults <= faults'
    BY Typed DEF TokenLapses, Writes, NoFault, AFault, ALate, tallies
  <2>2. OnlyReq(Nobody, d)
    BY <1>1, Typed DEF TokenLapses, Set, OnlyReq
  <2>3. OnlyRow(d)
    BY <1>1, Typed DEF TokenLapses, Set, OnlyRow, rows, money
  <2>4. Forward(d) /\ Alone(Nobody, d)
    BY <1>1, Typed DEF TokenLapses, Set, Forward, Alone, rows, Fresh, Stage, Verdicts, Sole, VoidSteps
  <2> QED  BY <2>1, <2>2, <2>3, <2>4 DEF TokenLapses, Local, fixed
<1>5. ASSUME NEW e \in Deposit PROVE FreshRow(e)'
  BY <1>1, Typed
  DEF TokenLapses, Set, TypeInv, FreshRow, fixed, rows, money, Fresh, Stage, Verdicts, VoidSteps
<1> QED  BY <1>1, <1>2, <1>3, <1>5, Typed DEF Sound

\* What the pool must hold is an integer, and a sum over the accepted rows.
LEMMA TotalIs ==
    ASSUME NEW st, NEW am
    PROVE  Total(st, am)
             = Sum(am, {d \in Deposit : kind[d] = "company" /\ st[d] = "deposit"})
BY DEF Total, Sum

LEMMA TotalInt ==
    ASSUME NEW st, NEW am \in [Deposit -> Amounts]
    PROVE  Total(st, am) \in Int
<1> DEFINE S == {d \in Deposit : kind[d] = "company" /\ st[d] = "deposit"}
<1>1. IsFiniteSet(S) /\ \A d \in S : am[d] \in Int
  <2>1. S \in SUBSET Deposit
    OBVIOUS
  <2>2. \A d \in S : am[d] \in Int
    <3>1. Amounts \subseteq Int /\ \A d \in Deposit : am[d] \in Amounts
      BY AmountsAssumption
    <3> QED  BY <3>1
  <2> HIDE DEF S
  <2> QED  BY <2>1, <2>2, FiniteAssumption, FS_Subset
<1> QED  BY <1>1, TotalIs, SumInt

LEMMA AddBalanceSound ==
    ASSUME TypeInv, NEW r \in Req, NEW d \in Deposit, AddBalance(r, d)
    PROVE  Sound(r, d)
<1>1. Stage(r) /\ req[r].pc = "idle" /\ kind[d] = "direct" /\ status[d] = "none"
      /\ \A s \in Req : req[s].dep # d
  BY DEF AddBalance, Start, TypeInv
<1>2. TypeOK'
  <2>1. CASE transactions
    BY <1>1, <2>1, Typed DEF AddBalance, Set, TypeOK, fixed, tallies, Statuses
  <2>2. CASE ~transactions
    <3>1. req' \in [Req -> Request]
      BY <1>1, <2>2, Typed DEF AddBalance, Start, Request, Steps
    <3> QED  BY <2>2, <3>1, Typed DEF AddBalance, TypeOK, fixed, tallies
  <2> QED  BY <2>1, <2>2
<1>3. /\ \A s \in Req : s # r => req'[s] = req[s]
      /\ \/ transactions /\ req' = req
         \/ /\ req'[r].dep = d /\ req'[r].pc = "credit" /\ req'[r].verdict = "deposit"
            /\ status' = status
  BY <1>1, Typed DEF AddBalance, Start
<1>4. Local(r, d)
  <2>1. late' \in Nat /\ faults' \in Nat /\ late <= late' /\ faults <= faults'
    BY Typed DEF AddBalance, tallies
  <2>2. OnlyReq(r, d)
    BY <1>1, <1>3 DEF OnlyReq, Stage
  <2>3. OnlyRow(d)
    BY Typed DEF AddBalance, Set, OnlyRow
  <2>4. Forward(d) /\ Alone(r, d)
    BY <1>1, Typed DEF AddBalance, Set, Forward, Alone, Fresh
  <2> QED  BY <2>1, <2>2, <2>3, <2>4 DEF AddBalance, Local, fixed
<1>5. Stage(r)'
  <2>1. kind' = kind /\ transactions' = transactions
    BY DEF AddBalance, fixed
  <2> QED  BY <1>1, <1>3, <2>1, NamesAssumption DEF Stage, Sole, VoidSteps
<1>6. ASSUME NEW e \in Deposit PROVE FreshRow(e)'
  BY <1>1, Typed DEF AddBalance, Set, TypeInv, FreshRow, fixed, Fresh
<1> QED  BY <1>2, <1>4, <1>5, <1>6 DEF Sound

\* A step that leaves the requests alone is nobody's.
LEMMA NobodyMoved ==
    ASSUME TypeInv, NEW d, req' = req
    PROVE  OnlyReq(Nobody, d) /\ Nobody \notin Req
BY Typed DEF OnlyReq

LEMMA StartMoved ==
    ASSUME TypeInv, NEW r \in Req, NEW step \in Steps, NEW d \in Deposit,
           NEW v \in Verdicts \cup {"none"}, NEW a \in Int, Start(r, step, d, v, a)
    PROVE  /\ OnlyReq(r, d) /\ req' \in [Req -> Request]
           /\ req[r].pc = "idle" /\ req'[r].pc = step /\ req'[r].dep = d
           /\ req'[r].verdict = v /\ req'[r].seen = status[d]
           /\ req'[r].old = amount[d] /\ req'[r].want = a
<1>1. req[r].pc = "idle" /\ req[r].dep = NoDeposit
  BY DEF Start, TypeInv, Stage
<1> QED  BY <1>1, Typed DEF Start, OnlyReq, Request, Verdicts

LEMMA ReviewCompanySound ==
    ASSUME TypeInv, NEW r \in Req, NEW d \in Deposit, NEW v \in Verdicts,
           ReviewCompany(r, d, v)
    PROVE  Sound(r, d) \/ Sound(Nobody, d)
<1>1. /\ kind[d] = "company" /\ status[d] = "deposit_pending"
      /\ status' = [status EXCEPT ![d] = v]
      /\ v \in {"deposit", "rejected"}
      /\ UNCHANGED <<fixed, amount, linked, token, stale, money, tallies>>
  BY DEF ReviewCompany, Set, Verdicts
<1>2. \/ UNCHANGED <<pool, req>>
      \/ pool' = Total(status', amount) /\ UNCHANGED req
      \/ Start(r, "sync", d, v, 0) /\ UNCHANGED pool
  BY <1>1 DEF ReviewCompany, PoolAfter
<1>3. ASSUME NEW q \in {r, Nobody}, OnlyReq(q, d), req' \in [Req -> Request],
             pool' \in Int, q \in Req => req'[q].pc = "sync" /\ req'[q].dep = d
      PROVE  Sound(q, d)
  <2>1. TypeOK'
    BY <1>1, <1>3, Typed DEF TypeOK, fixed, money, tallies, Statuses
  <2>2. Local(q, d)
    <3>1. OnlyRow(d) /\ Forward(d) /\ Alone(q, d)
      BY <1>1, Typed DEF OnlyRow, Forward, Alone, Fresh, money
    <3> QED  BY <1>1, <1>3, <3>1, Typed DEF Local, fixed, tallies
  <2>3. q \in Req => Stage(q)'
    BY <1>1, <1>3 DEF Stage, VoidSteps, fixed
  <2>4. ASSUME NEW e \in Deposit PROVE FreshRow(e)'
    BY <1>1, Typed DEF TypeInv, FreshRow, fixed, money, Fresh
  <2> QED  BY <2>1, <2>2, <2>3, <2>4 DEF Sound
<1>4. CASE req' = req
  <2>1. pool' \in Int
    <3>1. status' \in [Deposit -> Statuses] /\ amount \in [Deposit -> Amounts]
      BY <1>1, Typed DEF Statuses
    <3>2. Total(status', amount) \in Int
      BY <3>1, TotalInt
    <3>3. Start(r, "sync", d, v, 0) => req[r].pc = "idle" /\ req'[r].pc = "sync"
      BY StartMoved DEF Steps
    <3> QED  BY <1>2, <1>4, <3>2, <3>3, Typed
  <2> QED  BY <1>3, <1>4, <2>1, NobodyMoved, Typed
<1>5. CASE Start(r, "sync", d, v, 0) /\ UNCHANGED pool
  BY <1>3, <1>5, StartMoved, Typed DEF Steps
<1> QED  BY <1>2, <1>4, <1>5

LEMMA SyncSound ==
    ASSUME TypeInv, NEW r \in Req, Sync(r) \/ SyncWrite(r)
    PROVE  Sound(r, req[r].dep)
<1> DEFINE d == req[r].dep
<1>1. /\ d \in Deposit /\ kind[d] = "company" /\ req[r].pc \in {"sync", "syncWrite"}
      /\ req[r].want \in Int
  BY Typed DEF Sync, SyncWrite, TypeInv, Stage, Request
<1>2. UNCHANGED <<fixed, rows, money, tallies>>
  BY DEF Sync, SyncWrite
<1>3. Total(status, amount) \in Int
  BY Typed, TotalInt
<1>4. /\ pool' \in Int
      /\ \/ Ended(r)
         \/ /\ ~transactions
            /\ req' = [req EXCEPT ![r].pc = "syncWrite", ![r].old = pool,
                                  ![r].want = Total(status, amount)]
  BY <1>1, <1>3, Typed, EndEnded DEF Sync, SyncWrite
<1>5. /\ req' \in [Req -> Request] /\ OnlyReq(r, d)
      /\ \/ Ended(r)
         \/ ~transactions /\ req'[r].pc = "syncWrite" /\ req'[r].dep = d
  <2>1. CASE Ended(r)
    BY <1>1, <2>1, ReqMoved
  <2>2. CASE /\ ~transactions
             /\ req' = [req EXCEPT ![r].pc = "syncWrite", ![r].old = pool,
                                  ![r].want = Total(status, amount)]
    <3>1. \A s \in Req : s # r => req'[s] = req[s]
      BY <2>2, Typed
    <3>2. /\ req'[r] \in Request
          /\ req'[r].pc = "syncWrite" /\ req'[r].dep = d
      BY ZenonT(30), <1>1, <1>3, <2>2, Typed DEF Request, Steps
    <3>3. req' \in [Req -> Request]
      BY <2>2, <3>1, <3>2, Typed
    <3> QED  BY <2>2, <3>1, <3>2, <3>3 DEF OnlyReq
  <2> QED  BY <1>4, <2>1, <2>2
<1>6. TypeOK'
  BY <1>2, <1>4, <1>5, Typed DEF TypeOK, fixed, rows, money, tallies
<1>7. Local(r, d)
  BY <1>1, <1>2, <1>5, Typed
  DEF Local, OnlyRow, Forward, Alone, fixed, rows, money, tallies
<1>8. Stage(r)'
  <2>1. CASE Ended(r)
    BY <2>1, EndedStage
  <2>2. CASE ~Ended(r)
    BY <1>1, <1>2, <1>5, <2>2 DEF Stage, VoidSteps, fixed
  <2> QED  BY <2>1, <2>2
<1>9. ASSUME NEW e \in Deposit PROVE FreshRow(e)'
  BY <1>2 DEF TypeInv, FreshRow, fixed, rows, money
<1> QED  BY <1>1, <1>6, <1>7, <1>8, <1>9 DEF Sound

LEMMA EditAmountSound ==
    ASSUME TypeInv, NEW r \in Req, NEW d \in Deposit, NEW a \in Amounts,
           EditAmount(r, d, a)
    PROVE  Sound(r, d) \/ Sound(Nobody, d)
<1>0. a \in Int
  BY Typed
<1>1. /\ status[d] = "deposit"
      /\ UNCHANGED <<fixed, status, linked, token, stale, entries, reversals, pool, tallies>>
  BY DEF EditAmount
<1>2. balance' \in [Deposit -> Int] /\ \A e \in Deposit : e # d => balance'[e] = balance[e]
  <2>1. amount[d] \in Int /\ balance[d] \in Int
    BY Typed
  <2>2. balance' = balance \/ balance' = [balance EXCEPT ![d] = balance[d] + a - amount[d]]
    BY DEF EditAmount
  <2> QED  BY <1>0, <2>1, <2>2, Typed
<1>3. amount' \in [Deposit -> Amounts] /\ \A e \in Deposit : e # d => amount'[e] = amount[e]
  BY Typed DEF EditAmount
<1>4. \/ req' = req
      \/ Start(r, "sync", d, "none", 0) /\ kind[d] = "company"
      \/ Start(r, "editSave", d, "none", a) /\ ~transactions
  BY Typed DEF EditAmount, Customers, Kinds
<1>5. ASSUME NEW q \in {r, Nobody}, OnlyReq(q, d), req' \in [Req -> Request],
             q \in Req => Stage(q)'
      PROVE  Sound(q, d)
  <2>1. TypeOK'
    BY <1>1, <1>2, <1>3, <1>5, Typed DEF TypeOK, fixed, tallies
  <2>2. Local(q, d)
    BY <1>1, <1>2, <1>3, <1>5, Typed DEF Local, OnlyRow, Forward, Alone, fixed, tallies
  <2>3. ASSUME NEW e \in Deposit PROVE FreshRow(e)'
    BY <1>1, <1>2, <1>3 DEF TypeInv, FreshRow, fixed, Fresh
  <2> QED  BY <1>5, <2>1, <2>2, <2>3 DEF Sound
<1>6. CASE req' = req
  BY <1>5, <1>6, NobodyMoved, Typed
<1>7. CASE Start(r, "sync", d, "none", 0) /\ kind[d] = "company"
  <2>1. OnlyReq(r, d) /\ req' \in [Req -> Request] /\ req'[r].pc = "sync" /\ req'[r].dep = d
    BY <1>7, StartMoved DEF Steps
  <2>2. Stage(r)'
    BY <1>1, <1>7, <2>1 DEF Stage, VoidSteps, fixed
  <2> QED  BY <1>5, <2>1, <2>2
<1>8. CASE Start(r, "editSave", d, "none", a) /\ ~transactions
  <2>1. /\ OnlyReq(r, d) /\ req' \in [Req -> Request] /\ req'[r].pc = "editSave"
        /\ req'[r].dep = d /\ req'[r].seen = "deposit" /\ req'[r].want = a
    BY <1>0, <1>1, <1>8, StartMoved DEF Steps
  <2>2. Stage(r)'
    BY <1>1, <1>8, <2>1 DEF Stage, VoidSteps, fixed, Fresh
  <2> QED  BY <1>5, <2>1, <2>2
<1> QED  BY <1>4, <1>6, <1>7, <1>8

LEMMA StopSound ==
    ASSUME TypeInv, NEW r \in Req, Stop(r)
    PROVE  Sound(r, req[r].dep)
<1> DEFINE d == req[r].dep
<1>1. d \in Deposit /\ Ended(r) /\ UNCHANGED <<fixed, status, amount, linked, stale, money, pool>>
  BY EndEnded DEF Stop, TypeInv, Stage
<1>2. token' \in [Deposit -> Req \cup {Nobody, Voided, Orphan}]
  BY Typed DEF Stop
<1>3. late' \in Nat /\ faults' \in Nat /\ late <= late' /\ faults <= faults'
  BY Typed DEF Stop, AFault
<1>4. OnlyReq(r, d) /\ req' \in [Req -> Request]
  BY <1>1, ReqMoved
<1>5. TypeOK'
  BY <1>1, <1>2, <1>3, <1>4, Typed DEF TypeOK, fixed, money
<1>6. Alone(r, d)
  <2>1. status[d] = "none" /\ kind[d] # "company" => Sole(r)
    BY <1>1, Typed DEF TypeInv, Stage, Stop, Fresh, VoidSteps, Request, Steps, Kinds
  <2> QED  BY <2>1 DEF Alone, Sole
<1>7. Local(r, d)
  BY <1>1, <1>3, <1>4, <1>6 DEF Local, OnlyRow, Forward, fixed, money
<1>8. Stage(r)'
  BY <1>1, EndedStage
<1>9. ASSUME NEW e \in Deposit PROVE FreshRow(e)'
  <2>1. token[e] = Nobody => token'[e] = Nobody
    BY Typed DEF Stop
  <2> QED  BY <1>1, <2>1 DEF TypeInv, FreshRow, fixed, money
<1> QED  BY <1>1, <1>5, <1>7, <1>8, <1>9 DEF Sound

\* Every step is a sound one, about one deposit.
LEMMA SoundTyped ==
    ASSUME TypeInv, NEW r, NEW d, Sound(r, d)
    PROVE  TypeInv'
<1>1. ASSUME NEW s \in Req, s # r PROVE Stage(s)'
  <2>1. req'[s] = req[s] /\ Stage(s)
    BY <1>1 DEF Sound, Local, OnlyReq, TypeInv
  <2>2. CASE req[s].dep # d
    <3>1. req[s].dep \in Deposit => status'[req[s].dep] = status[req[s].dep]
      BY <2>2 DEF Sound, Local, OnlyRow
    <3>2. Sole(s) => Sole(s)' \/ (r \in Req /\ req'[r].dep = req[s].dep)
      BY <2>1, <1>1 DEF Sound, Local, OnlyReq, Sole
    <3>3. req[s].pc # "idle" => ~(r \in Req /\ req'[r].dep = req[s].dep)
      BY <2>1, <2>2, NamesAssumption DEF Sound, Local, OnlyReq, Stage
    <3> QED  BY <2>1, <3>1, <3>2, <3>3 DEF Sound, Local, Stage, VoidSteps, Customers
  <2>3. CASE req[s].dep = d
    <3>1. req[s].pc \notin {"create", "enter"}
          /\ (req[s].pc = "credit" => kind[d] = "request")
      BY <1>1, <2>1, <2>3 DEF Sound, Local, Alone, Stage
    <3>2. Forward(d) /\ kind' = kind /\ transactions' = transactions
      BY DEF Sound, Local
    <3> QED  BY <2>1, <2>3, <3>1, <3>2 DEF Stage, VoidSteps, Customers, Forward, Fresh
  <2> QED  BY <2>2, <2>3
<1> QED  BY <1>1 DEF Sound, TypeInv

\* The steps that are a request's own.
OwnStep(r) ==
    \/ Create(r) \/ Link(r) \/ Enter(r) \/ Credit(r) \/ Save(r) \/ WebSave(r)
    \/ Sync(r) \/ SyncWrite(r) \/ EditSave(r) \/ VoidLook(r) \/ VoidPay(r)
    \/ VoidSave(r) \/ Stop(r)

\* The steps that begin something about a deposit.
FirstStep(r, d) ==
    \/ Ask(r, d) \/ AddBalance(r, d) \/ VoidClaim(r, d)
    \/ \E v \in Verdicts : Review(r, d, v) \/ ReviewCompany(r, d, v) \/ WebReview(r, d, v)
    \/ \E a \in Amounts : EditAmount(r, d, a)

RowStep(d) == Submit(d) \/ Void(d) \/ TokenLapses(d)

LEMMA NextSteps ==
    Next <=> \/ \E r \in Req, d \in Deposit : FirstStep(r, d)
             \/ \E d \in Deposit : RowStep(d)
             \/ \E r \in Req : OwnStep(r)
BY DEF Next, FirstStep, RowStep, OwnStep, Verdicts

LEMMA OwnSound ==
    ASSUME TypeInv, NEW r \in Req, OwnStep(r)
    PROVE  Sound(r, req[r].dep)
BY CreateSound, LinkSound, EnterSound, CreditSound, SaveSound, WebSaveSound, SyncSound,
   EditSaveSound, VoidLookSound, VoidPaySound, VoidSaveSound, StopSound
DEF OwnStep

LEMMA FirstSound ==
    ASSUME TypeInv, NEW r \in Req, NEW d \in Deposit, FirstStep(r, d)
    PROVE  Sound(r, d) \/ Sound(Nobody, d)
BY AskSound, AddBalanceSound, VoidClaimSound, ReviewSound, ReviewCompanySound,
   WebReviewSound, EditAmountSound
DEF FirstStep

LEMMA RowSound ==
    ASSUME TypeInv, NEW d \in Deposit, RowStep(d)
    PROVE  Sound(Nobody, d)
BY SubmitSound, VoidSound, TokenLapsesSound DEF RowStep

LEMMA NextTyped == TypeInv /\ [Next]_vars => TypeInv'
<1> SUFFICES ASSUME TypeInv, [Next]_vars PROVE TypeInv'
  OBVIOUS
<1>1. CASE Next
  <2>1. CASE \E r \in Req : OwnStep(r)
    BY <2>1, OwnSound, SoundTyped
  <2>2. CASE \E d \in Deposit : RowStep(d)
    BY <2>2, RowSound, SoundTyped
  <2>3. CASE \E r \in Req, d \in Deposit : FirstStep(r, d)
    BY <2>3, FirstSound, SoundTyped
  <2> QED  BY <1>1, <2>1, <2>2, <2>3, NextSteps
<1>2. CASE UNCHANGED vars
  BY <1>2 DEF TypeInv, TypeOK, Stage, Sole, FreshRow, Customers, vars, fixed, rows, money, tallies
<1> QED  BY <1>1, <1>2

LEMMA TypeInvariant == Spec => []TypeInv
BY InitTyped, NextTyped, PTL DEF Spec

\* Every variable keeps its type: in particular the pool is an integer, the
\* amounts that requests carry to a row are ones a deposit may have, and a
\* request at work is about a deposit.
THEOREM DepositTypeCorrect == Spec => []TypeOK
<1>1. TypeInv => TypeOK
  BY DEF TypeInv
<1> QED  BY <1>1, TypeInvariant, PTL

------------------------------------------------------------------------------
(* Deposits are added once.  What the ledger has beyond the deposit itself   *)
(* has been paid for by a fault, or is a review's that has still to write    *)
(* the row, and will then find it written.                                   *)

Crediting(r, d) ==
    r \in Req /\ req[r].dep = d /\ req[r].verdict = "deposit" /\ req[r].pc \in {"save", "enter"}

Unsaved(d) == {r \in Req : Crediting(r, d)}

Decided(d) == IF status[d] \in Fresh THEN 0 ELSE 1

EntryInv ==
    \A d \in Deposit :
        entries[d] <= Cardinality(Unsaved(d)) + late + faults + Decided(d)

LEMMA InitEntries == Init => EntryInv
<1> SUFFICES ASSUME Init, NEW d \in Deposit
             PROVE  entries[d] <= Cardinality(Unsaved(d)) + late + faults + Decided(d)
  BY DEF EntryInv
<1>1. Unsaved(d) = {}
  BY DEF Init, Unsaved, Crediting, Idle
<1> QED  BY <1>1, FS_EmptySet DEF Init, Decided, Fresh

LEMMA FiniteReq ==
    ASSUME NEW S, S \subseteq Req
    PROVE  IsFiniteSet(S) /\ Cardinality(S) \in Nat
BY FiniteAssumption, FS_Subset, FS_CardinalityType

\* Sets that differ at most at one element.
LEMMA DiffersAt ==
    ASSUME NEW U, NEW V, NEW x, IsFiniteSet(U), IsFiniteSet(V), V \ {x} = U \ {x}
    PROVE  Cardinality(V) + (IF x \in U THEN 1 ELSE 0)
             = Cardinality(U) + (IF x \in V THEN 1 ELSE 0)
<1>1. Cardinality(U) \in Nat /\ Cardinality(V) \in Nat
  BY FS_CardinalityType
<1>2. Cardinality(U \ {x}) = IF x \in U THEN Cardinality(U) - 1 ELSE Cardinality(U)
  BY FS_RemoveElement
<1>3. Cardinality(V \ {x}) = IF x \in V THEN Cardinality(V) - 1 ELSE Cardinality(V)
  BY FS_RemoveElement
<1>4. Cardinality(V \ {x}) = Cardinality(U \ {x})
  OBVIOUS
<1> QED  BY <1>1, <1>2, <1>3, <1>4

\* Others' credits stay as they are.
LEMMA UnsavedMoves ==
    ASSUME NEW r, NEW d \in Deposit, Sound(r, d)
    PROVE  /\ \A e \in Deposit : e # d => Unsaved(e)' = Unsaved(e)
           /\ Cardinality(Unsaved(d)') + (IF Crediting(r, d) THEN 1 ELSE 0)
                = Cardinality(Unsaved(d)) + (IF Crediting(r, d)' THEN 1 ELSE 0)
<1>1. /\ \A s \in Req : s # r => req'[s] = req[s]
      /\ r \in Req => req[r].dep \in {d, NoDeposit} /\ req'[r].dep \in {d, NoDeposit}
  BY DEF Sound, Local, OnlyReq
<1>2. \A e \in Deposit : e # d => Unsaved(e)' = Unsaved(e)
  BY <1>1, NamesAssumption DEF Unsaved, Crediting
<1>3. Unsaved(d)' \ {r} = Unsaved(d) \ {r}
  BY <1>1 DEF Unsaved, Crediting
<1>4. /\ r \in Unsaved(d) <=> Crediting(r, d)
      /\ r \in Unsaved(d)' <=> Crediting(r, d)'
  BY DEF Unsaved, Crediting
<1>5. /\ Unsaved(d) \subseteq Req /\ Unsaved(d)' \subseteq Req
  BY DEF Unsaved
<1>6. IsFiniteSet(Unsaved(d)) /\ IsFiniteSet(Unsaved(d)')
  BY <1>5, FiniteReq
<1> QED  BY <1>2, <1>3, <1>4, <1>6, DiffersAt

\* A step keeps the balance of the books at its deposit.
EntriesPaid(r, d) ==
    entries'[d] + (IF Crediting(r, d) THEN 1 ELSE 0) + late + faults + Decided(d)
      <= entries[d] + (IF Crediting(r, d)' THEN 1 ELSE 0) + late' + faults' + Decided(d)'

LEMMA EntryStep ==
    ASSUME TypeInv, EntryInv, NEW r, NEW d \in Deposit, Sound(r, d), EntriesPaid(r, d)
    PROVE  EntryInv'
<1>1. TypeInv'
  BY SoundTyped
<1>2. late \in Nat /\ late' \in Nat /\ faults \in Nat /\ faults' \in Nat
      /\ late <= late' /\ faults <= faults'
  BY <1>1, Typed DEF TypeInv, TypeOK, Sound, Local
<1>3. ASSUME NEW e \in Deposit
      PROVE  /\ entries[e] \in Nat /\ entries'[e] \in Nat
             /\ Decided(e) \in Int /\ Decided(e)' \in Int
             /\ Cardinality(Unsaved(e)) \in Nat /\ Cardinality(Unsaved(e)') \in Nat
  <2>1. Unsaved(e) \subseteq Req /\ Unsaved(e)' \subseteq Req
    BY DEF Unsaved
  <2> QED  BY <1>1, <2>1, Typed, FiniteReq DEF Decided, TypeInv, TypeOK
<1>4. ASSUME NEW e \in Deposit, e # d
      PROVE  entries'[e] = entries[e] /\ Decided(e)' = Decided(e)
  BY <1>4 DEF Sound, Local, OnlyRow, Decided
<1> SUFFICES ASSUME NEW e \in Deposit
             PROVE  entries'[e] <= Cardinality(Unsaved(e)') + late' + faults' + Decided(e)'
  BY DEF EntryInv
<1>5. entries[e] <= Cardinality(Unsaved(e)) + late + faults + Decided(e)
  BY DEF EntryInv
<1>6. CASE e # d
  <2>1. Unsaved(e)' = Unsaved(e)
    BY <1>6, UnsavedMoves
  <2> QED  BY <1>2, <1>3, <1>4, <1>5, <1>6, <2>1
<1>7. CASE e = d
  <2>1. Cardinality(Unsaved(d)') + (IF Crediting(r, d) THEN 1 ELSE 0)
          = Cardinality(Unsaved(d)) + (IF Crediting(r, d)' THEN 1 ELSE 0)
    BY UnsavedMoves
  <2> QED  BY <1>2, <1>3, <1>5, <1>7, <2>1 DEF EntriesPaid
<1> QED  BY <1>6, <1>7

LEMMA EntryFacts ==
    ASSUME TypeInv, NEW r, NEW d \in Deposit, Sound(r, d)
    PROVE  /\ late \in Nat /\ late' \in Nat /\ faults \in Nat /\ faults' \in Nat
           /\ late <= late' /\ faults <= faults'
           /\ entries[d] \in Nat /\ entries'[d] \in Nat
           /\ Decided(d) \in {0, 1} /\ Decided(d)' \in {0, 1} /\ Decided(d) <= Decided(d)'
<1>1. TypeInv'
  BY SoundTyped
<1>2. TypeOK' /\ Forward(d) /\ late <= late' /\ faults <= faults'
  BY DEF Sound, Local
<1> QED  BY <1>1, <1>2, Typed DEF TypeInv, TypeOK, Decided, Forward

\* Most steps add no entry and end no request that has credited.
LEMMA EntriesQuiet ==
    ASSUME TypeInv, NEW r, NEW d \in Deposit, Sound(r, d),
           entries'[d] = entries[d], Crediting(r, d) => Crediting(r, d)'
    PROVE  EntriesPaid(r, d)
BY EntryFacts DEF EntriesPaid

LEMMA OwnEntries ==
    ASSUME TypeInv, NEW r \in Req, NEW d \in Deposit, d = req[r].dep, OwnStep(r)
    PROVE  EntriesPaid(r, d)
<1>1. Sound(r, d)
  BY OwnSound
<1>2. CASE Create(r) \/ Link(r) \/ WebSave(r) \/ Sync(r) \/ SyncWrite(r) \/ EditSave(r)
           \/ VoidLook(r) \/ VoidPay(r) \/ VoidSave(r)
  <2>1. entries' = entries /\ ~Crediting(r, d)
    BY <1>2 DEF Create, Link, WebSave, Sync, SyncWrite, EditSave, VoidLook, VoidPay, VoidSave,
       money, Crediting
  <2> QED  BY <1>1, <2>1, EntriesQuiet
<1>3. CASE Credit(r)
  <2>1. ~Crediting(r, d) /\ Stage(r) /\ req[r].pc = "credit" /\ req[r].verdict = "deposit"
    BY <1>3 DEF Credit, Crediting, TypeInv, Stage
  <2>2. CASE entries' = entries
    BY <1>1, <2>1, <2>2, EntriesQuiet
  <2>3. CASE /\ entries' = [entries EXCEPT ![d] = @ + 1]
             /\ Go(r, IF kind[d] = "direct" THEN "enter" ELSE "save")
    <3>1. Went(r, IF kind[d] = "direct" THEN "enter" ELSE "save")
      BY <2>3, GoWent DEF Steps
    <3>2. Crediting(r, d)'
      BY <2>1, <3>1 DEF Went, Crediting
    <3>3. entries'[d] = entries[d] + 1
      BY <1>1, <2>3, Typed
    <3> QED  BY <1>1, <2>1, <3>2, <3>3, EntryFacts DEF EntriesPaid
  <2> QED  BY <1>3, <2>2, <2>3 DEF Credit
<1>4. CASE Enter(r)
  <2>1. entries' = entries /\ Decided(d) = 0
    BY <1>4 DEF Enter, money, TypeInv, Stage, Decided, Fresh
  <2>2. status'[d] = "deposit"
    BY <1>1, <1>4, Typed DEF Enter, Set
  <2>3. Decided(d)' = 1
    BY <2>2 DEF Decided, Fresh
  <2> QED  BY <1>1, <2>1, <2>3, EntryFacts DEF EntriesPaid
<1>5. CASE Save(r)
  <2>1. entries' = entries /\ Stage(r) /\ req[r].pc = "save"
        /\ status' = [status EXCEPT ![d] = req[r].verdict]
        /\ Writes(d, req[r].seen, req[r].old)
    BY <1>5 DEF Save, Set, money, TypeInv
  <2>2. status'[d] \in Verdicts /\ req[r].seen = "deposit_pending"
    BY <1>1, <2>1, Typed DEF Stage
  <2>3. Decided(d)' = 1
    BY <2>2 DEF Decided, Fresh, Verdicts
  <2>4. Decided(d) = 0 \/ late' = late + 1
    BY <2>1, <2>2 DEF Decided, Fresh, Writes, ALate
  <2> QED  BY <1>1, <2>1, <2>3, <2>4, EntryFacts DEF EntriesPaid
<1>6. CASE Stop(r)
  <2>1. entries' = entries /\ faults' = faults + 1
    BY <1>6 DEF Stop, money, AFault
  <2> QED  BY <1>1, <2>1, EntryFacts DEF EntriesPaid
<1> QED  BY <1>2, <1>3, <1>4, <1>5, <1>6 DEF OwnStep

LEMMA FirstEntries ==
    ASSUME TypeInv, NEW r \in Req, NEW d \in Deposit, FirstStep(r, d), NEW q \in {r, Nobody},
           Sound(q, d)
    PROVE  EntriesPaid(q, d)
<1>1. CASE AddBalance(r, d) /\ transactions
  <2>1. entries'[d] = entries[d] + 1 /\ status'[d] = "deposit" /\ status[d] = "none"
    BY <1>1, Typed DEF AddBalance, Set
  <2>2. Decided(d) = 0 /\ Decided(d)' = 1
    BY <2>1 DEF Decided, Fresh
  <2>3. ~Crediting(q, d)
    BY <1>1, Typed DEF AddBalance, Crediting
  <2> QED  BY <2>1, <2>2, <2>3, EntryFacts DEF EntriesPaid
<1>2. CASE ~(AddBalance(r, d) /\ transactions)
  <2>1. entries' = entries
    BY <1>2 DEF FirstStep, Ask, AddBalance, VoidClaim, Review, ReviewCompany, WebReview,
       EditAmount, money
  <2>2. req' = req \/ req[r].pc = "idle"
    BY <1>2 DEF FirstStep, Ask, AddBalance, VoidClaim, Review, ReviewCompany, WebReview,
       EditAmount, Start
  <2>3. Crediting(q, d) => Crediting(q, d)'
    BY <2>2, Typed DEF Crediting
  <2> QED  BY <2>1, <2>3, EntriesQuiet
<1> QED  BY <1>1, <1>2

LEMMA NextEntries == TypeInv /\ EntryInv /\ [Next]_vars => EntryInv'
<1> SUFFICES ASSUME TypeInv, EntryInv, [Next]_vars PROVE EntryInv'
  OBVIOUS
<1>1. ASSUME NEW r \in Req, OwnStep(r) PROVE EntryInv'
  <2>1. PICK d \in Deposit : d = req[r].dep
    BY <1>1, OwnSound DEF Sound
  <2> QED  BY <1>1, <2>1, OwnSound, OwnEntries, EntryStep
<1>2. ASSUME NEW r \in Req, NEW d \in Deposit, FirstStep(r, d) PROVE EntryInv'
  <2>1. PICK q \in {r, Nobody} : Sound(q, d)
    BY <1>2, FirstSound
  <2> QED  BY <1>2, <2>1, FirstEntries, EntryStep
<1>3. ASSUME NEW d \in Deposit, RowStep(d) PROVE EntryInv'
  <2>1. Sound(Nobody, d)
    BY <1>3, RowSound
  <2>2. entries' = entries /\ ~Crediting(Nobody, d)
    BY <1>3, Typed DEF RowStep, Submit, Void, TokenLapses, money, Crediting
  <2> QED  BY <2>1, <2>2, EntriesQuiet, EntryStep
<1>4. CASE UNCHANGED vars
  BY <1>4 DEF EntryInv, Unsaved, Crediting, Decided, vars, rows, money, tallies
<1> QED  BY <1>1, <1>2, <1>3, <1>4, NextSteps

------------------------------------------------------------------------------
(* Deposits are taken back once.  Without MongoDB transactions each reversal *)
(* in the ledger but that of the void whose token is good, or that has       *)
(* marked the row, has been paid for by a fault; so has each void that may   *)
(* still pay although its token is gone.                                     *)

Holds(r, d) == token[d] = r /\ ~stale[d]

Straying(r, d) ==
    r \in Req /\ req[r].dep = d /\ req[r].pc \in {"voidLook", "voidPay"} /\ ~Holds(r, d)

Lost(d) == {r \in Req : Straying(r, d)}

Finishing(d) ==
    token[d] \in Req /\ ~stale[d] /\ req[token[d]].dep = d /\ req[token[d]].pc = "voidSave"

TakenBack(d) == IF token[d] = Voided \/ Finishing(d) THEN 1 ELSE 0

ReversalInv ==
    \A d \in Deposit :
        /\ transactions => reversals[d] <= 1
        /\ ~transactions =>
              /\ reversals[d] + Cardinality(Lost(d)) <= late + faults + TakenBack(d)
              /\ token[d] = Voided => ~stale[d]

LEMMA InitReversals == Init => ReversalInv
<1> SUFFICES ASSUME Init, NEW d \in Deposit
             PROVE  /\ reversals[d] = 0 /\ Lost(d) = {}
                    /\ late + faults + TakenBack(d) >= 0
                    /\ token[d] = Voided => ~stale[d]
  BY FS_EmptySet DEF ReversalInv
<1>1. Lost(d) = {} /\ reversals[d] = 0 /\ ~stale[d]
  BY DEF Init, Lost, Straying, Idle
<1> QED  BY <1>1 DEF Init, TakenBack

\* Tokens of other deposits stay, but for those of a request that stops.
Elsewhere(r, d) ==
    \A e \in Deposit : e # d =>
        /\ stale'[e] = stale[e]
        /\ token'[e] = token[e] \/ (r \in Req /\ token[e] = r /\ token'[e] = Orphan)

LEMMA LostElsewhere ==
    ASSUME NEW r, NEW d \in Deposit, Sound(r, d), Elsewhere(r, d), NEW e \in Deposit, e # d
    PROVE  /\ Lost(e)' = Lost(e) /\ TakenBack(e)' = TakenBack(e)
           /\ token'[e] = Voided => token[e] = Voided
<1>1. /\ \A s \in Req : s # r => req'[s] = req[s]
      /\ r \in Req => req[r].dep # e /\ req'[r].dep # e
  BY NamesAssumption DEF Sound, Local, OnlyReq
<1>2. /\ stale'[e] = stale[e]
      /\ token'[e] = token[e] \/ (r \in Req /\ token[e] = r /\ token'[e] = Orphan)
  BY DEF Elsewhere
<1>3. \A s \in Req : Straying(s, e)' <=> Straying(s, e)
  <2> SUFFICES ASSUME NEW s \in Req PROVE Straying(s, e)' <=> Straying(s, e)
    OBVIOUS
  <2>1. CASE s = r
    BY <1>1, <2>1 DEF Straying
  <2>2. CASE s # r
    BY <1>1, <1>2, <2>2, NamesAssumption DEF Straying, Holds
  <2> QED  BY <2>1, <2>2
<1>4. Lost(e)' = Lost(e)
  BY <1>3 DEF Lost
<1>5. Finishing(e)' <=> Finishing(e)
  <2>1. CASE token'[e] = token[e]
    BY <1>1, <1>2, <2>1 DEF Finishing
  <2>2. CASE token[e] = r /\ r \in Req /\ token'[e] = Orphan
    BY <1>1, <2>2, NamesAssumption DEF Finishing
  <2> QED  BY <1>2, <2>1, <2>2
<1>6. token'[e] = Voided <=> token[e] = Voided
  BY <1>2, NamesAssumption
<1> QED  BY <1>4, <1>5, <1>6 DEF TakenBack

\* No other request's token is given or taken.
OthersKeep(r, d) == \A s \in Req : s # r => (Holds(s, d)' <=> Holds(s, d))

LEMMA LostMoves ==
    ASSUME NEW r, NEW d \in Deposit, Sound(r, d), OthersKeep(r, d)
    PROVE  Cardinality(Lost(d)') + (IF Straying(r, d) THEN 1 ELSE 0)
             = Cardinality(Lost(d)) + (IF Straying(r, d)' THEN 1 ELSE 0)
<1>1. \A s \in Req : s # r => req'[s] = req[s]
  BY DEF Sound, Local, OnlyReq
<1>2. Lost(d)' \ {r} = Lost(d) \ {r}
  BY <1>1 DEF Lost, Straying, OthersKeep
<1>3. /\ r \in Lost(d) <=> Straying(r, d)
      /\ r \in Lost(d)' <=> Straying(r, d)'
  BY DEF Lost, Straying
<1>4. /\ Lost(d) \subseteq Req /\ Lost(d)' \subseteq Req
  BY DEF Lost
<1>5. IsFiniteSet(Lost(d)) /\ IsFiniteSet(Lost(d)')
  BY <1>4, FiniteReq
<1> QED  BY <1>2, <1>3, <1>5, DiffersAt

LEMMA AddsOne ==
    ASSUME NEW U, NEW V, NEW x, IsFiniteSet(U), V \subseteq U \cup {x}
    PROVE  Cardinality(V) <= Cardinality(U) + 1
<1>1. /\ IsFiniteSet(U \cup {x}) /\ Cardinality(U) \in Nat
      /\ Cardinality(U \cup {x}) = Cardinality(U) \/ Cardinality(U \cup {x}) = Cardinality(U) + 1
  BY FS_AddElement, FS_CardinalityType
<1>2. IsFiniteSet(V) /\ Cardinality(V) <= Cardinality(U \cup {x}) /\ Cardinality(V) \in Nat
  BY <1>1, FS_Subset, FS_CardinalityType
<1> QED  BY <1>1, <1>2

\* A void that loses its token may go astray.
LEMMA LostGrows ==
    ASSUME NEW d \in Deposit, \A s \in Req : req'[s].dep = d /\ req'[s].pc \in VoidSteps
                                                => req'[s] = req[s],
           \A s \in Req : s # token[d] => (Holds(s, d)' <=> Holds(s, d))
    PROVE  Cardinality(Lost(d)') + TakenBack(d) <= Cardinality(Lost(d)) + 1
<1>1. Lost(d)' \subseteq Lost(d) \cup {token[d]}
  BY DEF Lost, Straying, VoidSteps
<1>2. TakenBack(d) = 1 => Lost(d)' \subseteq Lost(d)
  <2>1. TakenBack(d) = 1 => token[d] = Voided \/ Finishing(d)
    BY DEF TakenBack
  <2>2. token[d] = Voided => Lost(d)' \subseteq Lost(d)
    BY NamesAssumption DEF Lost, Straying, VoidSteps
  <2>3. Finishing(d) => Lost(d)' \subseteq Lost(d)
    BY DEF Finishing, Lost, Straying, VoidSteps
  <2> QED  BY <2>1, <2>2, <2>3
<1>3. /\ Lost(d) \subseteq Req /\ Lost(d)' \subseteq Req
  BY DEF Lost
<1> DEFINE U == Lost(d)
           V == Lost(d)'
<1>4. /\ IsFiniteSet(U) /\ IsFiniteSet(V) /\ Cardinality(U) \in Nat /\ Cardinality(V) \in Nat
  BY <1>3, FiniteReq
<1>5. TakenBack(d) \in {0, 1}
  BY DEF TakenBack
<1>6. Cardinality(V) <= Cardinality(U) + 1
  <2> HIDE DEF U, V
  <2> QED  BY <1>1, <1>4, AddsOne DEF U, V
<1>7. TakenBack(d) = 1 => Cardinality(V) <= Cardinality(U)
  BY <1>2, <1>4, FS_Subset
<1> QED  BY <1>4, <1>5, <1>6, <1>7

\* A step pays for each reversal it adds and each void that goes astray.
Paid(d) ==
    reversals'[d] + Cardinality(Lost(d)') + late + faults + TakenBack(d)
      <= reversals[d] + Cardinality(Lost(d)) + late' + faults' + TakenBack(d)'

LEMMA ReversalFacts ==
    ASSUME TypeInv, NEW r, NEW d \in Deposit, Sound(r, d)
    PROVE  /\ late \in Nat /\ late' \in Nat /\ faults \in Nat /\ faults' \in Nat
           /\ late <= late' /\ faults <= faults'
           /\ \A e \in Deposit :
                 /\ reversals[e] \in Nat /\ reversals'[e] \in Nat
                 /\ TakenBack(e) \in {0, 1} /\ TakenBack(e)' \in {0, 1}
                 /\ Cardinality(Lost(e)) \in Nat /\ Cardinality(Lost(e)') \in Nat
<1>1. TypeOK' /\ late <= late' /\ faults <= faults'
  BY DEF Sound, Local
<1>2. \A e \in Deposit : Lost(e) \subseteq Req /\ Lost(e)' \subseteq Req
  BY DEF Lost
<1>3. \A e \in Deposit : Cardinality(Lost(e)) \in Nat /\ Cardinality(Lost(e)') \in Nat
  BY <1>2, FiniteReq
<1> QED  BY <1>1, <1>3, Typed DEF TypeOK, TakenBack

LEMMA ReversalStep ==
    ASSUME TypeInv, ReversalInv, ~transactions, NEW r, NEW d \in Deposit, Sound(r, d),
           Elsewhere(r, d), Paid(d), token'[d] = Voided => ~stale'[d]
    PROVE  ReversalInv'
<1>1. ~transactions'
  BY DEF Sound, Local
<1> SUFFICES ASSUME NEW e \in Deposit
             PROVE  /\ reversals'[e] + Cardinality(Lost(e)')
                         <= late' + faults' + TakenBack(e)'
                    /\ token'[e] = Voided => ~stale'[e]
  BY <1>1 DEF ReversalInv
<1>2. /\ reversals[e] + Cardinality(Lost(e)) <= late + faults + TakenBack(e)
      /\ token[e] = Voided => ~stale[e]
  BY DEF ReversalInv
<1>3. CASE e = d
  <2>1. reversals'[d] + Cardinality(Lost(d)') <= late' + faults' + TakenBack(d)'
    BY <1>2, <1>3, ReversalFacts DEF Paid
  <2> QED  BY <1>3, <2>1
<1>4. CASE e # d
  <2>1. /\ Lost(e)' = Lost(e) /\ TakenBack(e)' = TakenBack(e)
        /\ token'[e] = Voided => token[e] = Voided
    BY <1>4, LostElsewhere
  <2>2. reversals'[e] = reversals[e] /\ stale'[e] = stale[e]
    BY <1>4 DEF Sound, Local, OnlyRow, Elsewhere
  <2> QED  BY <1>2, <2>1, <2>2, ReversalFacts
<1> QED  BY <1>3, <1>4

\* It is enough to look at the request that moves.
LEMMA HeldPaid ==
    ASSUME TypeInv, NEW r, NEW d \in Deposit, Sound(r, d), OthersKeep(r, d),
           reversals'[d] + (IF Straying(r, d)' THEN 1 ELSE 0) + late + faults + TakenBack(d)
             <= reversals[d] + (IF Straying(r, d) THEN 1 ELSE 0) + late' + faults' + TakenBack(d)'
    PROVE  Paid(d)
BY ReversalFacts, LostMoves DEF Paid

\* Nothing that a void has to do with.
Quiet(r, d) ==
    /\ reversals'[d] = reversals[d] /\ token'[d] = token[d] /\ stale'[d] = stale[d]
    /\ r \in Req /\ req'[r] # req[r] =>
          /\ req[r].dep = d => req[r].pc \notin VoidSteps
          /\ req'[r].dep = d => req'[r].pc \notin VoidSteps

LEMMA QuietPaid ==
    ASSUME TypeInv, NEW r, NEW d \in Deposit, Sound(r, d), Quiet(r, d)
    PROVE  Paid(d)
<1>1. OthersKeep(r, d)
  BY DEF OthersKeep, Holds, Quiet
<1>2. Straying(r, d)' <=> Straying(r, d)
  <2>1. CASE r \in Req /\ req'[r] # req[r]
    BY <2>1 DEF Quiet, Straying, VoidSteps
  <2>2. CASE ~(r \in Req /\ req'[r] # req[r])
    BY <2>2 DEF Quiet, Straying, Holds
  <2> QED  BY <2>1, <2>2
<1>3. TakenBack(d)' = TakenBack(d)
  <2>1. \A s \in Req : s # r => req'[s] = req[s]
    BY DEF Sound, Local, OnlyReq
  <2>2. Finishing(d)' <=> Finishing(d)
    BY <2>1 DEF Quiet, Finishing, VoidSteps
  <2> QED  BY <2>2 DEF TakenBack, Quiet
<1> QED  BY <1>1, <1>2, <1>3, HeldPaid, ReversalFacts DEF Quiet

\* Tokens stay where they are, or change at one deposit only.
LEMMA TokensElsewhere ==
    ASSUME TypeInv, NEW r, NEW d \in Deposit,
           \A e \in Deposit : e # d => token'[e] = token[e] /\ stale'[e] = stale[e]
    PROVE  Elsewhere(r, d)
BY DEF Elsewhere

LEMMA QuietReversals ==
    ASSUME TypeInv, ReversalInv, ~transactions, NEW r, NEW d \in Deposit, Sound(r, d),
           Quiet(r, d), token' = token, stale' = stale
    PROVE  ReversalInv'
<1>1. Elsewhere(r, d) /\ (token'[d] = Voided => ~stale'[d])
  BY DEF Elsewhere, ReversalInv
<1> QED  BY <1>1, QuietPaid, ReversalStep

\* The decision of a review makes the row forget a void.
LEMMA SaveReversals ==
    ASSUME TypeInv, ReversalInv, ~transactions, NEW r \in Req, NEW d \in Deposit,
           d = req[r].dep, Save(r)
    PROVE  ReversalInv'
<1>1. Sound(r, d)
  BY SaveSound
<1>2. /\ req[r].pc = "save" /\ Stage(r) /\ Ended(r) /\ reversals' = reversals
      /\ Writes(d, req[r].seen, req[r].old)
      /\ token' = IF req[r].verdict = "deposit" THEN [token EXCEPT ![d] = Nobody] ELSE token
      /\ stale' = IF req[r].verdict = "deposit" THEN [stale EXCEPT ![d] = FALSE] ELSE stale
  BY EndEnded DEF Save, TypeInv, money
<1>3. Elsewhere(r, d)
  BY <1>2, Typed DEF Elsewhere
<1>4. token'[d] = Voided => ~stale'[d]
  BY <1>2, Typed DEF ReversalInv
<1>5. CASE token'[d] = token[d] /\ stale'[d] = stale[d]
  <2>1. req'[r].pc = "idle"
    BY <1>2 DEF Ended, Idle
  <2>2. Quiet(r, d)
    BY <1>2, <1>5, <2>1 DEF Quiet, VoidSteps
  <2> QED  BY <1>1, <1>3, <1>4, <2>2, QuietPaid, ReversalStep
<1>6. CASE ~(token'[d] = token[d] /\ stale'[d] = stale[d])
  <2>1. token'[d] = Nobody
    BY <1>2, <1>6, Typed
  <2>2. late' = late + 1
    <3>1. status[d] # "deposit_pending"
      BY <1>2, <1>6, Typed DEF TypeInv, FreshRow, Fresh
    <3> QED  BY <1>2, <3>1 DEF Stage, Writes, ALate
  <2>3. \A s \in Req : s # token[d] => (Holds(s, d)' <=> Holds(s, d))
    BY <2>1, NamesAssumption DEF Holds
  <2>4. \A s \in Req : req'[s].dep = d /\ req'[s].pc \in VoidSteps => req'[s] = req[s]
    BY <1>2 DEF Ended, Idle, VoidSteps
  <2>5. Cardinality(Lost(d)') + TakenBack(d) <= Cardinality(Lost(d)) + 1
    BY <2>3, <2>4, LostGrows
  <2>6. Paid(d)
    BY <1>1, <1>2, <2>2, <2>5, ReversalFacts DEF Paid
  <2> QED  BY <1>1, <1>3, <1>4, <2>6, ReversalStep
<1> QED  BY <1>5, <1>6

LEMMA LapseReversals ==
    ASSUME TypeInv, ReversalInv, ~transactions, NEW d \in Deposit, TokenLapses(d)
    PROVE  ReversalInv'
<1>1. Sound(Nobody, d)
  BY TokenLapsesSound
<1>2. /\ token[d] \notin {Nobody, Voided} /\ ~stale[d]
      /\ stale' = [stale EXCEPT ![d] = TRUE] /\ token' = token
      /\ req' = req /\ reversals' = reversals
      /\ IF token[d] = Orphan THEN NoFault ELSE AFault
  BY DEF TokenLapses, money
<1>3. Elsewhere(Nobody, d) /\ (token'[d] = Voided => ~stale'[d])
  BY <1>2, Typed DEF Elsewhere
<1>4. CASE token[d] = Orphan
  <2>1. /\ OthersKeep(Nobody, d) /\ ~Straying(Nobody, d) /\ ~Straying(Nobody, d)'
    BY <1>2, <1>4, NamesAssumption DEF OthersKeep, Holds, Straying
  <2>2. TakenBack(d) = 0
    BY <1>4, NamesAssumption DEF TakenBack, Finishing
  <2>3. late' = late /\ faults' = faults
    BY <1>2, <1>4 DEF NoFault, tallies
  <2>4. Paid(d)
    BY <1>1, <1>2, <2>1, <2>2, <2>3, HeldPaid, ReversalFacts
  <2> QED  BY <1>1, <1>3, <2>4, ReversalStep
<1>5. CASE token[d] # Orphan
  <2>1. faults' = faults + 1
    BY <1>2, <1>5 DEF AFault
  <2>2. \A s \in Req : s # token[d] => (Holds(s, d)' <=> Holds(s, d))
    BY <1>2 DEF Holds
  <2>3. Cardinality(Lost(d)') + TakenBack(d) <= Cardinality(Lost(d)) + 1
    BY <1>2, <2>2, LostGrows
  <2>4. Paid(d)
    BY <1>1, <1>2, <2>1, <2>3, ReversalFacts DEF Paid
  <2> QED  BY <1>1, <1>3, <2>4, ReversalStep
<1> QED  BY <1>4, <1>5

\* A void begins with a token of its own.
LEMMA ClaimReversals ==
    ASSUME TypeInv, ReversalInv, NEW r \in Req, NEW d \in Deposit, VoidClaim(r, d)
    PROVE  ReversalInv'
<1>1. Sound(r, d) /\ ~transactions
  BY VoidClaimSound DEF VoidClaim
<1>2. /\ Start(r, "voidLook", d, "none", 0)
      /\ token[d] = Nobody \/ stale[d]
      /\ token' = [token EXCEPT ![d] = r] /\ stale' = [stale EXCEPT ![d] = FALSE]
      /\ reversals' = reversals /\ late' = late /\ faults' = faults
  BY DEF VoidClaim, Voidable, money, tallies
<1>3. /\ req[r].pc = "idle" /\ req'[r].pc = "voidLook" /\ req'[r].dep = d
      /\ token'[d] = r /\ ~stale'[d]
  <2>1. "voidLook" \in Steps /\ "none" \in Verdicts \cup {"none"} /\ 0 \in Int
    BY DEF Steps
  <2>2. req[r].pc = "idle" /\ req'[r].pc = "voidLook" /\ req'[r].dep = d
    BY <1>2, <2>1, StartMoved
  <2>3. token'[d] = r /\ stale'[d] = FALSE
    BY <1>2, Typed
  <2> QED  BY <2>2, <2>3
<1>4. Elsewhere(r, d) /\ (token'[d] = Voided => ~stale'[d])
  BY <1>2, <1>3, Typed DEF Elsewhere
<1>5. OthersKeep(r, d)
  BY <1>2, <1>3, NamesAssumption DEF OthersKeep, Holds
<1>6. ~Straying(r, d) /\ ~Straying(r, d)'
  BY <1>3 DEF Straying, Holds
<1>7. TakenBack(d) = 0
  BY <1>1, <1>2, NamesAssumption DEF TakenBack, Finishing, ReversalInv
<1>8. Paid(d)
  BY <1>1, <1>2, <1>5, <1>6, <1>7, HeldPaid, ReversalFacts
<1> QED  BY <1>1, <1>4, <1>8, ReversalStep

\* The token of a void that gives up is taken off, if it is still there.
LEMMA UntokenKeeps ==
    ASSUME TypeInv, ReversalInv, ~transactions, NEW r \in Req, NEW d \in Deposit, Sound(r, d),
           Untoken(r, d), Ended(r), req[r].pc # "voidSave"
    PROVE  /\ Elsewhere(r, d) /\ OthersKeep(r, d)
           /\ token'[d] = Voided => ~stale'[d]
           /\ ~Straying(r, d)' /\ TakenBack(d)' = TakenBack(d)
<1>1. Elsewhere(r, d)
  BY Typed DEF Untoken, Elsewhere
<1>2. \/ token[d] = r /\ token'[d] = Nobody /\ ~stale'[d]
      \/ token[d] # r /\ token'[d] = token[d] /\ stale'[d] = stale[d]
  BY Typed DEF Untoken
<1>3. OthersKeep(r, d)
  BY <1>2, NamesAssumption DEF OthersKeep, Holds
<1>4. token'[d] = Voided => ~stale'[d]
  BY <1>2, NamesAssumption DEF ReversalInv
<1>5. ~Straying(r, d)'
  BY DEF Straying, Ended, Idle
<1>6. TakenBack(d)' = TakenBack(d)
  <2>1. CASE token[d] = r
    BY <1>2, <2>1, NamesAssumption DEF TakenBack, Finishing
  <2>2. CASE token[d] # r
    <3>1. \A s \in Req : s # r => req'[s] = req[s]
      BY DEF Ended
    <3>2. Finishing(d)' <=> Finishing(d)
      BY <1>2, <2>2, <3>1 DEF Finishing
    <3> QED  BY <1>2, <2>2, <3>2 DEF TakenBack
  <2> QED  BY <2>1, <2>2
<1> QED  BY <1>1, <1>3, <1>4, <1>5, <1>6

\* A void that goes on with its token on the row, or without it.
LEMMA WentKeeps ==
    ASSUME TypeInv, ReversalInv, ~transactions, NEW r \in Req, NEW d \in Deposit,
           d = req[r].dep, NEW step \in {"voidPay", "voidSave"}, Went(r, step),
           token' = token, stale' = stale, req[r].pc \in {"voidLook", "voidPay"}
    PROVE  /\ Elsewhere(r, d) /\ OthersKeep(r, d)
           /\ token'[d] = Voided => ~stale'[d]
           /\ Straying(r, d)' => Straying(r, d)
           /\ step = "voidSave" => ~Straying(r, d)'
           /\ Straying(r, d) <=> ~Holds(r, d)
           /\ ~Holds(r, d) => TakenBack(d)' = TakenBack(d)
           /\ Holds(r, d) => TakenBack(d) = 0 /\ (step = "voidSave" => TakenBack(d)' = 1)
<1>1. /\ \A s \in Req : s # r => req'[s] = req[s]
      /\ req'[r].pc = step /\ req'[r].dep = d
  BY DEF Went
<1>2. Elsewhere(r, d) /\ OthersKeep(r, d) /\ (token'[d] = Voided => ~stale'[d])
  BY DEF Elsewhere, OthersKeep, Holds, ReversalInv
<1>3. /\ Straying(r, d)' => Straying(r, d)
      /\ step = "voidSave" => ~Straying(r, d)'
      /\ Straying(r, d) <=> ~Holds(r, d)
  BY <1>1 DEF Straying, Holds
<1>4. ASSUME ~Holds(r, d) PROVE TakenBack(d)' = TakenBack(d)
  <2>1. Finishing(d)' <=> Finishing(d)
    BY <1>1, <1>4 DEF Finishing, Holds
  <2> QED  BY <2>1 DEF TakenBack
<1>5. ASSUME Holds(r, d) PROVE TakenBack(d) = 0 /\ (step = "voidSave" => TakenBack(d)' = 1)
  BY <1>1, <1>5, NamesAssumption DEF TakenBack, Finishing, Holds
<1> QED  BY <1>2, <1>3, <1>4, <1>5

LEMMA LookReversals ==
    ASSUME TypeInv, ReversalInv, ~transactions, NEW r \in Req, NEW d \in Deposit,
           d = req[r].dep, VoidLook(r)
    PROVE  ReversalInv'
<1>1. Sound(r, d) /\ req[r].pc = "voidLook" /\ reversals' = reversals
      /\ late' = late /\ faults' = faults
  BY VoidLookSound DEF VoidLook, money, tallies
<1>2. CASE Untoken(r, d) /\ End(r)
  <2>1. /\ Elsewhere(r, d) /\ OthersKeep(r, d)
        /\ token'[d] = Voided => ~stale'[d]
        /\ ~Straying(r, d)' /\ TakenBack(d)' = TakenBack(d)
    BY <1>1, <1>2, EndEnded, UntokenKeeps
  <2>2. Paid(d)
    BY <1>1, <2>1, HeldPaid, ReversalFacts
  <2> QED  BY <1>1, <2>1, <2>2, ReversalStep
<1>3. ASSUME NEW step \in {"voidPay", "voidSave"}, Go(r, step), token' = token, stale' = stale
      PROVE  ReversalInv'
  <2>1. Went(r, step)
    BY <1>3, GoWent DEF Steps
  <2>2. /\ Elsewhere(r, d) /\ OthersKeep(r, d)
        /\ token'[d] = Voided => ~stale'[d]
        /\ Straying(r, d)' => Straying(r, d)
        /\ ~Holds(r, d) => TakenBack(d)' = TakenBack(d)
        /\ Holds(r, d) => TakenBack(d) = 0
    BY <1>1, <1>3, <2>1, WentKeeps
  <2>3. TakenBack(d) <= TakenBack(d)'
    BY <1>1, <2>2, ReversalFacts
  <2>4. Paid(d)
    BY <1>1, <2>2, <2>3, HeldPaid, ReversalFacts
  <2> QED  BY <1>1, <2>2, <2>4, ReversalStep
<1>4. \/ Untoken(r, d) /\ End(r)
      \/ \E step \in {"voidPay", "voidSave"} : Go(r, step) /\ token' = token /\ stale' = stale
  BY DEF VoidLook
<1> QED  BY <1>2, <1>3, <1>4

\* The money goes back once for each void whose token is good; what a void that
\* has lost its token takes back was paid for when it lost it.
LEMMA PayReversals ==
    ASSUME TypeInv, ReversalInv, ~transactions, NEW r \in Req, NEW d \in Deposit,
           d = req[r].dep, VoidPay(r)
    PROVE  ReversalInv'
<1>1. Sound(r, d) /\ req[r].pc = "voidPay"
  BY VoidPaySound DEF VoidPay
<1>2. CASE reversals' = reversals /\ End(r) /\ Untoken(r, d) /\ AFault
  <2>1. /\ Elsewhere(r, d) /\ OthersKeep(r, d)
        /\ token'[d] = Voided => ~stale'[d]
        /\ ~Straying(r, d)' /\ TakenBack(d)' = TakenBack(d)
    BY <1>1, <1>2, EndEnded, UntokenKeeps
  <2>2. Paid(d)
    BY <1>1, <1>2, <2>1, HeldPaid, ReversalFacts
  <2> QED  BY <1>1, <2>1, <2>2, ReversalStep
<1>3. CASE /\ reversals' = [reversals EXCEPT ![d] = @ + 1]
           /\ Go(r, "voidSave") /\ token' = token /\ stale' = stale
           /\ late' = late /\ faults' = faults
  <2>1. Went(r, "voidSave")
    BY <1>3, GoWent DEF Steps
  <2>2. /\ Elsewhere(r, d) /\ OthersKeep(r, d)
        /\ token'[d] = Voided => ~stale'[d]
        /\ ~Straying(r, d)'
        /\ Straying(r, d) <=> ~Holds(r, d)
        /\ ~Holds(r, d) => TakenBack(d)' = TakenBack(d)
        /\ Holds(r, d) => TakenBack(d) = 0 /\ TakenBack(d)' = 1
    BY <1>1, <1>3, <2>1, WentKeeps
  <2>3. reversals'[d] = reversals[d] + 1
    BY <1>3, Typed
  <2>4. reversals'[d] + 0 + late + faults + TakenBack(d)
          <= reversals[d] + (IF Straying(r, d) THEN 1 ELSE 0) + late' + faults' + TakenBack(d)'
    <3>1. CASE Holds(r, d)
      BY <1>1, <1>3, <2>2, <2>3, <3>1, ReversalFacts
    <3>2. CASE ~Holds(r, d)
      BY <1>1, <1>3, <2>2, <2>3, <3>2, ReversalFacts
    <3> QED  BY <3>1, <3>2
  <2>5. Paid(d)
    BY <1>1, <2>2, <2>4, HeldPaid
  <2> QED  BY <1>1, <2>2, <2>5, ReversalStep
<1> QED  BY <1>2, <1>3 DEF VoidPay, NoFault, tallies

LEMMA VoidSaveReversals ==
    ASSUME TypeInv, ReversalInv, ~transactions, NEW r \in Req, NEW d \in Deposit,
           d = req[r].dep, VoidSave(r)
    PROVE  ReversalInv'
<1>1. /\ Sound(r, d) /\ req[r].pc = "voidSave" /\ reversals' = reversals
      /\ late' = late /\ faults' = faults /\ Ended(r)
  BY VoidSaveSound, EndEnded DEF VoidSave, money, tallies
<1>2. \/ /\ token[d] = r
         /\ token' = [token EXCEPT ![d] = Voided] /\ stale' = [stale EXCEPT ![d] = FALSE]
      \/ token[d] # r /\ token' = token /\ stale' = stale
  BY DEF VoidSave
<1>3. /\ Elsewhere(r, d) /\ OthersKeep(r, d)
      /\ token'[d] = Voided => ~stale'[d]
  BY <1>2, Typed, NamesAssumption DEF Elsewhere, OthersKeep, Holds, ReversalInv
<1>4. ~Straying(r, d) /\ ~Straying(r, d)'
  BY <1>1 DEF Straying, Ended, Idle
<1>5. TakenBack(d) <= TakenBack(d)'
  <2>1. CASE token'[d] = Voided
    BY <1>1, <2>1, ReversalFacts DEF TakenBack
  <2>2. CASE token[d] # r /\ token' = token /\ stale' = stale
    <3>1. \A s \in Req : s # r => req'[s] = req[s]
      BY <1>1 DEF Ended
    <3>2. Finishing(d)' <=> Finishing(d)
      BY <2>2, <3>1 DEF Finishing
    <3> QED  BY <2>2, <3>2 DEF TakenBack
  <2> QED  BY <1>2, <2>1, <2>2, Typed
<1>6. Paid(d)
  BY <1>1, <1>3, <1>4, <1>5, HeldPaid, ReversalFacts
<1> QED  BY <1>1, <1>3, <1>6, ReversalStep

LEMMA StopReversals ==
    ASSUME TypeInv, ReversalInv, ~transactions, NEW r \in Req, NEW d \in Deposit,
           d = req[r].dep, Stop(r)
    PROVE  ReversalInv'
<1>1. /\ Sound(r, d) /\ reversals' = reversals /\ stale' = stale /\ Ended(r)
      /\ late' = late /\ faults' = faults + 1
      /\ \A e \in Deposit : token'[e] = IF token[e] = r THEN Orphan ELSE token[e]
  BY StopSound, EndEnded DEF Stop, money, AFault
<1>2. /\ Elsewhere(r, d) /\ OthersKeep(r, d)
      /\ token'[d] = Voided => ~stale'[d]
  BY <1>1, NamesAssumption DEF Elsewhere, OthersKeep, Holds, ReversalInv
<1>3. ~Straying(r, d)'
  BY <1>1 DEF Straying, Ended, Idle
<1>4. Paid(d)
  BY <1>1, <1>2, <1>3, HeldPaid, ReversalFacts
<1> QED  BY <1>1, <1>2, <1>4, ReversalStep

\* With MongoDB transactions a void looks for the reversal in the one it writes in.
LEMMA ReversedOnce ==
    ASSUME TypeInv, ReversalInv, transactions, Next, NEW d \in Deposit
    PROVE  reversals'[d] <= 1
<1>1. reversals[d] <= 1
  BY DEF ReversalInv
<1>2. reversals' = reversals \/ \E e \in Deposit : reversals' = [reversals EXCEPT ![e] = 1]
  <2>1. CASE \E r \in Req : OwnStep(r)
    <3>1. PICK r \in Req : OwnStep(r)
      BY <2>1
    <3>2. ~VoidPay(r)
      BY DEF VoidPay, TypeInv, Stage, VoidSteps
    <3> QED  BY <3>1, <3>2
      DEF OwnStep, Create, Link, Enter, Credit, Save, WebSave, Sync, SyncWrite, EditSave,
          VoidLook, VoidSave, Stop, money
  <2>2. CASE \E e \in Deposit : RowStep(e)
    BY <2>2 DEF RowStep, Submit, Void, TokenLapses, money
  <2>3. CASE \E r \in Req, e \in Deposit : FirstStep(r, e)
    BY <2>3 DEF FirstStep, Ask, AddBalance, VoidClaim, Review, ReviewCompany, WebReview,
       EditAmount, money
  <2> QED  BY <2>1, <2>2, <2>3, NextSteps
<1> QED  BY <1>1, <1>2, Typed

LEMMA OwnReversals ==
    ASSUME TypeInv, ReversalInv, ~transactions, NEW r \in Req, NEW d \in Deposit,
           d = req[r].dep, OwnStep(r)
    PROVE  ReversalInv'
<1>1. Sound(r, d)
  BY OwnSound
<1>2. CASE Create(r) \/ Link(r) \/ Enter(r) \/ Credit(r) \/ WebSave(r) \/ Sync(r)
           \/ SyncWrite(r) \/ EditSave(r)
  <2>1. reversals' = reversals /\ token' = token /\ stale' = stale
    BY <1>2 DEF Create, Link, Enter, Credit, WebSave, Sync, SyncWrite, EditSave, rows, money
  <2>2. req[r].pc \notin VoidSteps
    BY <1>2 DEF Create, Link, Enter, Credit, WebSave, Sync, SyncWrite, EditSave, VoidSteps
  <2>3. req'[r].pc \notin VoidSteps
    <3>1. ASSUME NEW step \in Steps \ VoidSteps, Go(r, step) PROVE req'[r].pc \notin VoidSteps
      BY <3>1, GoWent DEF Went
    <3>2. ASSUME End(r) PROVE req'[r].pc \notin VoidSteps
      BY <3>2, EndEnded DEF Ended, Idle, VoidSteps
    <3>3. ASSUME Sync(r) PROVE req'[r].pc \notin VoidSteps
      <4>1. CASE End(r)
        BY <3>2, <4>1
      <4>2. CASE ~End(r)
        BY <3>3, <4>2, Typed DEF Sync, VoidSteps, Request
      <4> QED  BY <4>1, <4>2
    <3>4. \/ Sync(r) \/ End(r)
          \/ \E step \in {"link", "enter", "save", "sync"} : Go(r, step)
      BY <1>2 DEF Create, Link, Enter, Credit, WebSave, SyncWrite, EditSave
    <3> QED  BY <3>1, <3>2, <3>3, <3>4 DEF Steps, VoidSteps
  <2> QED  BY <1>1, <2>1, <2>2, <2>3, QuietReversals DEF Quiet
<1> QED  BY <1>2, SaveReversals, LookReversals, PayReversals, VoidSaveReversals, StopReversals
         DEF OwnStep

LEMMA FirstReversals ==
    ASSUME TypeInv, ReversalInv, ~transactions, NEW r \in Req, NEW d \in Deposit,
           FirstStep(r, d), NEW q \in {r, Nobody}, Sound(q, d)
    PROVE  ReversalInv'
<1>1. CASE VoidClaim(r, d)
  BY <1>1, ClaimReversals
<1>2. CASE ~VoidClaim(r, d)
  <2>1. reversals' = reversals /\ token' = token /\ stale' = stale
    BY <1>2 DEF FirstStep, Ask, AddBalance, Review, ReviewCompany, WebReview, EditAmount,
       rows, money
  <2>2. \/ req' = req
        \/ \E step \in Steps \ VoidSteps, v \in Verdicts \cup {"none"}, a \in Amounts \cup {0} :
              Start(r, step, d, v, a)
    <3>1. Ask(r, d) => Start(r, "create", d, "none", amount[d]) /\ amount[d] \in Amounts
      BY Typed DEF Ask
    <3>2. AddBalance(r, d) => req' = req \/ Start(r, "credit", d, "deposit", 0)
      BY DEF AddBalance
    <3>3. ASSUME NEW v \in Verdicts
          PROVE  /\ Review(r, d, v) => Start(r, "credit", d, v, 0) \/ Start(r, "save", d, v, 0)
                 /\ ReviewCompany(r, d, v) => req' = req \/ Start(r, "sync", d, v, 0)
                 /\ WebReview(r, d, v) => Start(r, "webSave", d, v, 0)
      BY <3>3 DEF Review, ReviewCompany, WebReview, Verdicts
    <3>4. ASSUME NEW a \in Amounts
          PROVE  EditAmount(r, d, a) => \/ req' = req \/ Start(r, "sync", d, "none", 0)
                                        \/ Start(r, "editSave", d, "none", a)
      BY DEF EditAmount
    <3>5. /\ {"create", "credit", "save", "sync", "webSave", "editSave"} \subseteq Steps \ VoidSteps
          /\ "deposit" \in Verdicts
      BY DEF Steps, VoidSteps, Verdicts
    <3> QED  BY <1>2, <3>1, <3>2, <3>3, <3>4, <3>5 DEF FirstStep
  <2>3. CASE req' = req
    <3>1. Quiet(q, d)
      BY <2>1, <2>3 DEF Quiet
    <3> QED  BY <2>1, <3>1, QuietReversals
  <2>4. ASSUME NEW step \in Steps \ VoidSteps, NEW v \in Verdicts \cup {"none"},
               NEW a \in Amounts \cup {0}, Start(r, step, d, v, a)
        PROVE  ReversalInv'
    <3>1. a \in Int
      BY Typed
    <3>2. req[r].pc = "idle" /\ req'[r].pc = step /\ req'[r].dep = d
      BY <2>4, <3>1, StartMoved
    <3>3. Quiet(q, d)
      BY <2>1, <3>2, Typed DEF Quiet, VoidSteps
    <3> QED  BY <2>1, <3>3, QuietReversals
  <2> QED  BY <2>2, <2>3, <2>4
<1> QED  BY <1>1, <1>2

LEMMA NextReversals == TypeInv /\ ReversalInv /\ [Next]_vars => ReversalInv'
<1> SUFFICES ASSUME TypeInv, ReversalInv, [Next]_vars PROVE ReversalInv'
  OBVIOUS
<1>1. CASE UNCHANGED vars
  BY <1>1 DEF ReversalInv, Lost, Straying, Holds, TakenBack, Finishing, vars, fixed, rows, money,
     tallies
<1>2. CASE Next /\ transactions
  <2>1. transactions'
    <3>1. \E r, d : Sound(r, d)
      BY <1>2, NextSteps, OwnSound, FirstSound, RowSound
    <3> QED  BY <1>2, <3>1 DEF Sound, Local
  <2> QED  BY <1>2, <2>1, ReversedOnce DEF ReversalInv
<1>3. CASE Next /\ ~transactions
  <2>1. ASSUME NEW r \in Req, OwnStep(r) PROVE ReversalInv'
    <3>1. PICK d \in Deposit : d = req[r].dep
      BY <2>1, OwnSound DEF Sound
    <3> QED  BY <1>3, <2>1, <3>1, OwnReversals
  <2>2. ASSUME NEW r \in Req, NEW d \in Deposit, FirstStep(r, d) PROVE ReversalInv'
    <3>1. PICK q \in {r, Nobody} : Sound(q, d)
      BY <2>2, FirstSound
    <3> QED  BY <1>3, <2>2, <3>1, FirstReversals
  <2>3. ASSUME NEW d \in Deposit, RowStep(d) PROVE ReversalInv'
    <3>1. Sound(Nobody, d)
      BY <2>3, RowSound
    <3>2. CASE Submit(d)
      BY <1>3, <3>1, <3>2, Typed, QuietReversals DEF Submit, Quiet, money
    <3> QED  BY <1>3, <2>3, <3>2, LapseReversals DEF RowStep, Void
  <2> QED  BY <1>3, <2>1, <2>2, <2>3, NextSteps
<1> QED  BY <1>1, <1>2, <1>3

\* A deposit is added once and taken back once, but for what reviews that write
\* over another, stops, and voids that outlive their tokens have paid for; with
\* MongoDB transactions it is never taken back twice.
THEOREM DepositDepositedOnce == Spec => []DepositedOnce
<1>1. Init => TypeInv /\ EntryInv /\ ReversalInv
  BY InitTyped, InitEntries, InitReversals
<1>2. TypeInv /\ EntryInv /\ ReversalInv /\ [Next]_vars => (TypeInv /\ EntryInv /\ ReversalInv)'
  BY NextTyped, NextEntries, NextReversals
<1>3. TypeInv /\ EntryInv /\ ReversalInv => DepositedOnce
  <2> SUFFICES ASSUME TypeInv, EntryInv, ReversalInv, NEW d \in Deposit, AtRest(d)
               PROVE  /\ entries[d] <= 1 + late + faults
                      /\ reversals[d] <= IF transactions THEN 1 ELSE 1 + late + faults
    BY DEF DepositedOnce
  <2>1. Unsaved(d) = {} /\ Cardinality(Unsaved(d)) = 0
    BY FS_EmptySet DEF Unsaved, Crediting, AtRest
  <2>2. Lost(d) = {} /\ Cardinality(Lost(d)) = 0
    BY FS_EmptySet DEF Lost, Straying, AtRest
  <2>3. Decided(d) \in {0, 1} /\ TakenBack(d) \in {0, 1}
    BY DEF Decided, TakenBack
  <2>4. /\ entries[d] \in Nat /\ reversals[d] \in Nat /\ late \in Nat /\ faults \in Nat
    BY Typed
  <2>5. entries[d] <= 1 + late + faults
    <3>1. entries[d] <= Cardinality(Unsaved(d)) + late + faults + Decided(d)
      BY DEF EntryInv
    <3> QED  BY <2>1, <2>3, <2>4, <3>1
  <2>6. reversals[d] <= IF transactions THEN 1 ELSE 1 + late + faults
    <3>1. /\ transactions => reversals[d] <= 1
          /\ ~transactions => reversals[d] + Cardinality(Lost(d)) <= late + faults + TakenBack(d)
      BY DEF ReversalInv
    <3> QED  BY <2>2, <2>3, <2>4, <3>1
  <2> QED  BY <2>5, <2>6
<1> QED  BY <1>1, <1>2, <1>3, PTL DEF Spec

------------------------------------------------------------------------------
(* The company's pool follows its rows.  The invariant is inductive as it    *)
(* stands: a step that changes what the rows add up to computes the pool in  *)
(* the same transaction, leaves a request that will, or is a late write.     *)

LEMMA TotalPrimed ==
    Total(status, amount)'
      = Sum(amount', {d \in Deposit : kind'[d] = "company" /\ status'[d] = "deposit"})
BY DEF Total, Sum, MapThenSumSet, MapThenFoldSet

LEMMA TotalKept ==
    ASSUME TypeInv, TypeOK', kind' = kind,
           \A d \in Deposit : kind[d] = "company" =>
               /\ status'[d] = "deposit" <=> status[d] = "deposit"
               /\ status[d] = "deposit" => amount'[d] = amount[d]
    PROVE  Total(status, amount)' = Total(status, amount)
<1> DEFINE S == {d \in Deposit : kind[d] = "company" /\ status[d] = "deposit"}
           T == {d \in Deposit : kind'[d] = "company" /\ status'[d] = "deposit"}
<1>1. Total(status, amount) = Sum(amount, S)
  BY TotalIs
<1>2. Total(status, amount)' = Sum(amount', T)
  BY TotalPrimed
<1>3. T = S
  OBVIOUS
<1>4. IsFiniteSet(S) /\ \A d \in S : amount[d] = amount'[d]
  <2>1. S \subseteq Deposit
    OBVIOUS
  <2>2. IsFiniteSet(S)
    BY <2>1, FiniteAssumption, FS_Subset
  <2> QED  BY <2>2
<1>5. Sum(amount, S) = Sum(amount', S)
  <2> HIDE DEF S
  <2> QED  BY <1>4, SumSame
<1> QED  BY <1>1, <1>2, <1>3, <1>5

LEMMA ZeroSum ==
    ASSUME NEW a \in Nat, NEW b \in Nat, a + b = 0
    PROVE  a = 0 /\ b = 0
OBVIOUS

LEMMA StillCalm ==
    ASSUME TypeInv, NEW r, NEW d, Sound(r, d), late' + faults' = 0
    PROVE  late = 0 /\ faults = 0 /\ late + faults = 0 /\ late' = late /\ faults' = faults
<1>1. /\ late \in Nat /\ faults \in Nat /\ late' \in Nat /\ faults' \in Nat
      /\ late <= late' /\ faults <= faults'
  BY Typed DEF Sound, Local
<1>2. late' = 0 /\ faults' = 0
  BY <1>1, ZeroSum
<1> QED  BY <1>1, <1>2

\* The rows of the company add up to what they did.
SameRow(d) ==
    kind[d] = "company" =>
        /\ status'[d] = "deposit" <=> status[d] = "deposit"
        /\ status[d] = "deposit" => amount'[d] = amount[d]

LEMMA PoolKept ==
    ASSUME TypeInv, PoolFollowsRows, NEW r, NEW d \in Deposit, Sound(r, d),
           pool' = pool, SameRow(d),
           r \in Req /\ req[r].pc = "sync" => req'[r].pc = "sync"
    PROVE  PoolFollowsRows'
<1> SUFFICES ASSUME transactions', late' + faults' = 0, \A s \in Req : req'[s].pc # "sync"
             PROVE  pool' = Total(status, amount)'
  BY DEF PoolFollowsRows
<1>1. transactions /\ late + faults = 0
  <2>1. late + faults = 0
    BY StillCalm
  <2>2. transactions
    BY DEF Sound, Local
  <2> QED  BY <2>1, <2>2
<1>2. \A s \in Req : req[s].pc # "sync"
  BY DEF Sound, Local, OnlyReq
<1>3. pool = Total(status, amount)
  BY <1>1, <1>2 DEF PoolFollowsRows
<1>4. Total(status, amount)' = Total(status, amount)
  <2>1. TypeOK' /\ kind' = kind
    BY DEF Sound, Local
  <2>2. \A e \in Deposit : SameRow(e)
    BY DEF Sound, Local, OnlyRow, SameRow
  <2> QED  BY <2>1, <2>2, TotalKept DEF SameRow
<1> QED  BY <1>3, <1>4

LEMMA OwnPool ==
    ASSUME TypeInv, PoolFollowsRows, NEW r \in Req, NEW d \in Deposit, d = req[r].dep, OwnStep(r)
    PROVE  PoolFollowsRows'
<1>0. Sound(r, d) /\ Stage(r)
  BY OwnSound DEF TypeInv
<1>1. CASE Create(r) \/ Enter(r) \/ Save(r) \/ VoidSave(r)
  <2>1. kind[d] # "company" /\ pool' = pool /\ req[r].pc # "sync"
    BY <1>0, <1>1 DEF Create, Enter, Save, VoidSave, Stage, VoidSteps, Customers
  <2> QED  BY <1>0, <2>1, PoolKept DEF SameRow
<1>2. CASE Link(r) \/ Credit(r) \/ VoidLook(r) \/ VoidPay(r)
  <2>1. status' = status /\ amount' = amount /\ pool' = pool /\ req[r].pc # "sync"
    BY <1>2 DEF Link, Credit, VoidLook, VoidPay, rows
  <2> QED  BY <1>0, <2>1, PoolKept DEF SameRow
<1>3. CASE SyncWrite(r) \/ EditSave(r)
  <2>1. ~transactions'
    BY <1>0, <1>3 DEF SyncWrite, EditSave, Stage, Sound, Local
  <2> QED  BY <2>1 DEF PoolFollowsRows
<1>4. CASE Stop(r)
  <2>1. late' + faults' # 0
    BY <1>4, Typed DEF Stop, AFault
  <2> QED  BY <2>1 DEF PoolFollowsRows
<1>5. CASE Sync(r)
  <2>1. CASE transactions
    <3>1. pool' = Total(status, amount) /\ UNCHANGED <<fixed, rows, money, tallies>>
      BY <1>5, <2>1 DEF Sync
    <3>2. Total(status, amount)' = Total(status, amount)
      BY <1>0, <3>1, TotalKept DEF Sound, fixed, rows
    <3> QED  BY <3>1, <3>2 DEF PoolFollowsRows
  <2>2. CASE ~transactions
    BY <1>0, <2>2 DEF Sound, Local, PoolFollowsRows
  <2> QED  BY <2>1, <2>2
<1>6. CASE WebSave(r)
  <2>1. /\ req[r].pc = "webSave" /\ pool' = pool /\ amount' = amount
        /\ req[r].seen = "deposit_pending" /\ req[r].verdict \in Verdicts
        /\ status'[d] = req[r].verdict
        /\ Writes(d, req[r].seen, req[r].old)
    BY <1>0, <1>6, Typed DEF WebSave, Set, Stage
  <2>2. CASE kind[d] = "company" /\ req[r].verdict = "deposit"
    <3>1. req'[r].pc = "sync"
      BY <1>6, <2>2, Typed DEF WebSave, Go, Request
    <3> QED  BY <3>1 DEF PoolFollowsRows
  <2>3. CASE kind[d] = "company" /\ req[r].verdict = "rejected"
    <3>1. CASE status[d] = "deposit_pending"
      <4>1. SameRow(d)
        BY <2>1, <2>3, <3>1 DEF SameRow
      <4> QED  BY <1>0, <2>1, <4>1, PoolKept
    <3>2. CASE status[d] # "deposit_pending"
      <4>1. late' + faults' # 0
        BY <2>1, <3>2, Typed DEF Writes, ALate
      <4> QED  BY <4>1 DEF PoolFollowsRows
    <3> QED  BY <3>1, <3>2
  <2>4. CASE kind[d] # "company"
    BY <1>0, <2>1, <2>4, PoolKept DEF SameRow
  <2> QED  BY <2>1, <2>2, <2>3, <2>4 DEF Verdicts
<1> QED  BY <1>1, <1>2, <1>3, <1>4, <1>5, <1>6 DEF OwnStep

LEMMA FirstPool ==
    ASSUME TypeInv, PoolFollowsRows, NEW r \in Req, NEW d \in Deposit, FirstStep(r, d),
           NEW q \in {r, Nobody}, Sound(q, d)
    PROVE  PoolFollowsRows'
<1>1. ASSUME pool' = pool, SameRow(d), req' = req \/ req[r].pc = "idle"
      PROVE  PoolFollowsRows'
  BY <1>1, PoolKept, Typed
<1>2. CASE Ask(r, d) \/ VoidClaim(r, d) \/ \E v \in Verdicts : Review(r, d, v) \/ WebReview(r, d, v)
  BY <1>1, <1>2 DEF Ask, VoidClaim, Review, WebReview, Start, SameRow, rows
<1>3. CASE AddBalance(r, d)
  <2>1. kind[d] # "company" /\ pool' = pool /\ (req' = req \/ req[r].pc = "idle")
    BY <1>3 DEF AddBalance, Start
  <2> QED  BY <1>1, <2>1 DEF SameRow
<1>4. ASSUME NEW v \in Verdicts, ReviewCompany(r, d, v) PROVE PoolFollowsRows'
  <2>1. /\ kind[d] = "company" /\ status[d] = "deposit_pending" /\ status'[d] = v
        /\ amount' = amount /\ kind' = kind
    BY <1>4, Typed DEF ReviewCompany, Set, fixed
  <2>2. CASE v = "rejected"
    <3>1. pool' = pool /\ req' = req
      BY <1>4, <2>2 DEF ReviewCompany
    <3>2. SameRow(d)
      BY <2>1, <2>2 DEF SameRow
    <3> QED  BY <1>1, <3>1, <3>2
  <2>3. CASE v = "deposit" /\ transactions
    <3>1. pool' = Total(status', amount)
      BY <1>4, <2>3 DEF ReviewCompany, PoolAfter
    <3>2. Total(status, amount)' = Total(status', amount)
      BY <2>1, TotalPrimed, TotalIs
    <3> QED  BY <3>1, <3>2 DEF PoolFollowsRows
  <2>4. CASE ~transactions
    BY <2>4 DEF Sound, Local, PoolFollowsRows
  <2> QED  BY <2>2, <2>3, <2>4 DEF Verdicts
<1>5. ASSUME NEW a \in Amounts, EditAmount(r, d, a) PROVE PoolFollowsRows'
  <2>1. CASE ~transactions
    BY <2>1 DEF Sound, Local, PoolFollowsRows
  <2>2. CASE transactions /\ Customers(d)
    <3>1. pool' = pool /\ req' = req /\ kind[d] # "company"
      BY <1>5, <2>2 DEF EditAmount, Customers
    <3> QED  BY <1>1, <3>1 DEF SameRow
  <2>3. CASE transactions /\ ~Customers(d)
    <3>1. Start(r, "sync", d, "none", 0)
      BY <1>5, <2>3 DEF EditAmount
    <3>2. req'[r].pc = "sync"
      BY <3>1, Typed DEF Start
    <3> QED  BY <3>2 DEF PoolFollowsRows
  <2> QED  BY <2>1, <2>2, <2>3
<1> QED  BY <1>2, <1>3, <1>4, <1>5 DEF FirstStep

LEMMA NextPool == TypeInv /\ PoolFollowsRows /\ [Next]_vars => PoolFollowsRows'
<1> SUFFICES ASSUME TypeInv, PoolFollowsRows, [Next]_vars PROVE PoolFollowsRows'
  OBVIOUS
<1>1. ASSUME NEW r \in Req, OwnStep(r) PROVE PoolFollowsRows'
  <2>1. PICK d \in Deposit : d = req[r].dep
    BY <1>1, OwnSound DEF Sound
  <2> QED  BY <1>1, <2>1, OwnPool
<1>2. ASSUME NEW r \in Req, NEW d \in Deposit, FirstStep(r, d) PROVE PoolFollowsRows'
  <2>1. PICK q \in {r, Nobody} : Sound(q, d)
    BY <1>2, FirstSound
  <2> QED  BY <1>2, <2>1, FirstPool
<1>3. ASSUME NEW d \in Deposit, RowStep(d) PROVE PoolFollowsRows'
  <2>1. Sound(Nobody, d) /\ pool' = pool /\ Nobody \notin Req
    BY <1>3, RowSound, Typed DEF RowStep, Submit, Void, TokenLapses
  <2>2. SameRow(d)
    BY <1>3, Typed DEF RowStep, Submit, Void, TokenLapses, SameRow, Set, Customers
  <2> QED  BY <2>1, <2>2, PoolKept
<1>4. CASE UNCHANGED vars
  <2>1. Total(status, amount)' = Total(status, amount)
    BY <1>4, TotalPrimed, TotalIs DEF vars, fixed, rows
  <2> QED  BY <1>4, <2>1 DEF PoolFollowsRows, vars, fixed, rows, tallies
<1> QED  BY <1>1, <1>2, <1>3, <1>4, NextSteps

\* With MongoDB transactions the company's pool is the sum of its accepted
\* deposits, once the requests that have to compute it are over, and unless one
\* was stopped or wrote over another's decision.
THEOREM DepositPoolFollowsRows == Spec => []PoolFollowsRows
<1>1. Init => PoolFollowsRows
  <2> SUFFICES ASSUME Init PROVE pool = Total(status, amount)
    BY DEF PoolFollowsRows
  <2>1. {d \in Deposit : kind[d] = "company" /\ status[d] = "deposit"} = {}
    BY DEF Init
  <2> QED  BY <2>1, TotalIs, SumEmpty DEF Init
<1> QED  BY <1>1, TypeInvariant, NextPool, PTL DEF Spec

------------------------------------------------------------------------------
(* Balances follow the rows.  As long as nothing has gone wrong a void holds *)
(* the token of its row to the end, and a balance differs from what the row  *)
(* is worth by what the requests at work have still to write to the row.     *)

Taking(d) == token[d] \in Req /\ req[token[d]].pc = "voidSave" /\ req[token[d]].dep = d

CalmRow(d) ==
    /\ ~stale[d] /\ token[d] # Orphan
    /\ status[d] = "rejected" => token[d] = Nobody /\ reversals[d] = 0
    /\ Customers(d) /\ status[d] = "deposit" =>
          token[d] # Voided /\ (reversals[d] = 0 \/ Taking(d))

CalmReq(r) == LET d == req[r].dep IN
    /\ req[r].pc \in VoidSteps => token[d] = r /\ status[d] = "deposit"
    /\ req[r].pc \in {"voidLook", "voidPay"} => reversals[d] = 0
    /\ req[r].pc = "webSave" => kind[d] = "company"

CalmInv ==
    late + faults = 0 => (\A d \in Deposit : CalmRow(d)) /\ (\A r \in Req : CalmReq(r))

Owed(r, d) ==
    IF req[r].dep # d THEN 0
    ELSE CASE req[r].pc \in {"save", "enter"} /\ req[r].verdict = "deposit" -> original[d]
           [] req[r].pc = "editSave" -> req[r].want - req[r].old
           [] req[r].pc = "voidSave" -> 0 - original[d]
           [] OTHER -> 0

OwedMap(d) == [r \in Req |-> Owed(r, d)]
Owing(d) == Sum(OwedMap(d), Req)

Worth(d) == CASE status[d] = "deposit" -> amount[d]
              [] status[d] = "cancelled_by_admin" -> amount[d] - original[d]
              [] OTHER -> 0

BalanceInv ==
    late + faults = 0 => \A d \in Deposit : Customers(d) => balance[d] = Worth(d) + Owing(d)

LEMMA InitCalm == Init => CalmInv /\ BalanceInv
<1> SUFFICES ASSUME Init PROVE CalmInv /\ BalanceInv
  OBVIOUS
<1>1. CalmInv
  BY NamesAssumption DEF Init, CalmInv, CalmRow, CalmReq, Idle, VoidSteps
<1>2. BalanceInv
  <2> SUFFICES ASSUME NEW d \in Deposit PROVE balance[d] = Worth(d) + Owing(d)
    BY DEF BalanceInv
  <2>1. \A r \in Req : OwedMap(d)[r] = 0
    BY NamesAssumption DEF Init, OwedMap, Owed, Idle
  <2>2. Owing(d) = 0
    BY <2>1, FiniteAssumption, SumZero DEF Owing
  <2>3. balance[d] = 0 /\ Worth(d) = 0
    BY DEF Init, Worth
  <2> QED  BY <2>2, <2>3
<1> QED  BY <1>1, <1>2

\* What a request that moves has still to write.
Mine(r, d) == IF r \in Req THEN Owed(r, d) ELSE 0

Balanced(r, d) == balance'[d] = balance[d] + (Worth(d)' - Worth(d)) + (Mine(r, d)' - Mine(r, d))

LEMMA AmountsInt == \A a \in Amounts : a \in Int
BY AmountsAssumption

LEMMA OwedInt ==
    ASSUME TypeOK, NEW r \in Req, NEW d \in Deposit
    PROVE  Owed(r, d) \in Int
<1>1. original[d] \in Int /\ req[r].want \in Int /\ req[r].old \in Int
  BY AmountsInt DEF TypeOK, Request
<1> QED  BY <1>1 DEF Owed

LEMMA WorthInt ==
    ASSUME TypeOK, NEW d \in Deposit
    PROVE  Worth(d) \in Int /\ balance[d] \in Int
<1>1. original[d] \in Int /\ amount[d] \in Int /\ balance[d] \in Int
  BY AmountsInt DEF TypeOK
<1> QED  BY <1>1 DEF Worth

\* The same of the next state.
LEMMA NextInts ==
    ASSUME TypeOK', NEW d \in Deposit
    PROVE  /\ Worth(d)' \in Int /\ balance'[d] \in Int
           /\ \A r \in Req : Owed(r, d)' \in Int
<1>1. original'[d] \in Int /\ amount'[d] \in Int /\ balance'[d] \in Int
  BY AmountsInt DEF TypeOK
<1>2. \A r \in Req : req'[r].want \in Int /\ req'[r].old \in Int
  BY DEF TypeOK, Request
<1> QED  BY <1>1, <1>2 DEF Owed, Worth

LEMMA OwingMoves ==
    ASSUME TypeInv, NEW r, NEW d \in Deposit, Sound(r, d)
    PROVE  /\ Owing(d)' = Owing(d) + (Mine(r, d)' - Mine(r, d))
           /\ Owing(d) \in Int
           /\ \A e \in Deposit : e # d => Owing(e)' = Owing(e)
<1>1. TypeOK /\ TypeOK' /\ original' = original
  BY DEF TypeInv, Sound, Local
<1>2. /\ \A s \in Req : s # r => req'[s] = req[s]
      /\ r \in Req => req[r].dep \in {d, NoDeposit} /\ req'[r].dep \in {d, NoDeposit}
  BY DEF Sound, Local, OnlyReq
<1>3. ASSUME NEW e \in Deposit
      PROVE  /\ Owing(e) = Sum(OwedMap(e), Req) /\ Owing(e)' = Sum(OwedMap(e)', Req)
             /\ \A s \in Req : OwedMap(e)[s] = Owed(s, e) /\ OwedMap(e)'[s] = Owed(s, e)'
             /\ \A s \in Req : Owed(s, e) \in Int /\ Owed(s, e)' \in Int
  <2>1. Owing(e) = Sum(OwedMap(e), Req) /\ Owing(e)' = Sum(OwedMap(e)', Req)
    BY DEF Owing
  <2>2. \A s \in Req : OwedMap(e)[s] = Owed(s, e) /\ OwedMap(e)'[s] = Owed(s, e)'
    BY DEF OwedMap
  <2> QED  BY <1>1, <2>1, <2>2, OwedInt, NextInts
<1>4. ASSUME NEW e \in Deposit, NEW s \in Req, s # r
      PROVE  Owed(s, e)' = Owed(s, e)
  BY <1>1, <1>2, <1>4 DEF Owed
<1>5. ASSUME NEW e \in Deposit, e # d PROVE Owing(e)' = Owing(e)
  <2>1. \A s \in Req : Owed(s, e)' = Owed(s, e)
    <3>1. r \in Req => req[r].dep # e /\ req'[r].dep # e
      BY <1>2, <1>5, NamesAssumption
    <3>2. r \in Req => Owed(r, e)' = Owed(r, e)
      BY <3>1 DEF Owed
    <3> QED  BY <1>4, <3>2
  <2>2. Sum(OwedMap(e), Req) = Sum(OwedMap(e)', Req)
    BY <1>3, <2>1, FiniteAssumption, SumSame
  <2> QED  BY <1>3, <2>2
<1>6. Owing(d) \in Int
  BY <1>3, FiniteAssumption, SumInt
<1>7. Owing(d)' = Owing(d) + (Mine(r, d)' - Mine(r, d))
  <2>1. CASE r \in Req
    <3>1. Sum(OwedMap(d)', Req) = Sum(OwedMap(d), Req) + OwedMap(d)'[r] - OwedMap(d)[r]
      BY <1>3, <1>4, <2>1, FiniteAssumption, SumChange
    <3>2. Owing(d)' = Owing(d) + Owed(r, d)' - Owed(r, d)
      BY <1>3, <2>1, <3>1
    <3>3. Owed(r, d)' \in Int /\ Owed(r, d) \in Int
      BY <1>3, <2>1
    <3> QED  BY <1>6, <2>1, <3>2, <3>3 DEF Mine
  <2>2. CASE r \notin Req
    <3>1. Sum(OwedMap(d), Req) = Sum(OwedMap(d)', Req)
      BY <1>3, <1>4, <2>2, FiniteAssumption, SumSame
    <3> QED  BY <1>3, <1>6, <2>2, <3>1 DEF Mine
  <2> QED  BY <2>1, <2>2
<1> QED  BY <1>5, <1>6, <1>7

LEMMA BalanceStep ==
    ASSUME TypeInv, BalanceInv, NEW r, NEW d \in Deposit, Sound(r, d),
           late' + faults' = 0, Customers(d) => Balanced(r, d)
    PROVE  BalanceInv'
<1>1. late + faults = 0 /\ kind' = kind
  BY StillCalm DEF Sound, Local
<1> SUFFICES ASSUME NEW e \in Deposit, Customers(e)
             PROVE  balance'[e] = Worth(e)' + Owing(e)'
  BY <1>1 DEF BalanceInv, Customers
<1>2. balance[e] = Worth(e) + Owing(e)
  BY <1>1 DEF BalanceInv
<1>3. CASE e # d
  <2>1. balance'[e] = balance[e] /\ Worth(e)' = Worth(e)
    BY <1>3 DEF Sound, Local, OnlyRow, Worth
  <2>2. Owing(e)' = Owing(e)
    BY <1>3, OwingMoves
  <2> QED  BY <1>2, <2>1, <2>2
<1>4. CASE e = d
  <2>1. /\ balance'[d] = balance[d] + (Worth(d)' - Worth(d)) + (Mine(r, d)' - Mine(r, d))
        /\ balance[d] = Worth(d) + Owing(d)
    BY <1>2, <1>4 DEF Balanced
  <2>2. Owing(d)' = Owing(d) + (Mine(r, d)' - Mine(r, d)) /\ Owing(d) \in Int
    BY OwingMoves
  <2>3. /\ Worth(d) \in Int /\ Worth(d)' \in Int /\ Mine(r, d) \in Int /\ Mine(r, d)' \in Int
    BY WorthInt, NextInts, OwedInt DEF TypeInv, Sound, Mine
  <2>4. balance'[d] = Worth(d)' + Owing(d)'
    BY <2>1, <2>2, <2>3
  <2> QED  BY <1>4, <2>4
<1> QED  BY <1>3, <1>4

\* A void about the deposit that is not r's finds its row as it left it.
Undisturbed(r, d) ==
    \A s \in Req : s # r /\ req[s].dep = d /\ req[s].pc \in VoidSteps =>
        status'[d] = status[d] /\ token'[d] = token[d] /\ reversals'[d] = reversals[d]

Calmly(r, d) ==
    /\ \A e \in Deposit : e # d => token'[e] = token[e] /\ stale'[e] = stale[e]
    /\ CalmRow(d)'
    /\ r \in Req => CalmReq(r)'
    /\ Undisturbed(r, d)
    /\ Customers(d) => Balanced(r, d)

LEMMA CalmStep ==
    ASSUME TypeInv, CalmInv, BalanceInv, NEW r, NEW d \in Deposit, Sound(r, d),
           late' + faults' = 0, Calmly(r, d)
    PROVE  CalmInv' /\ BalanceInv'
<1>1. late + faults = 0 /\ kind' = kind
  BY StillCalm DEF Sound, Local
<1>2. /\ \A s \in Req : s # r => req'[s] = req[s]
      /\ r \in Req => req[r].dep \in {d, NoDeposit} /\ req'[r].dep \in {d, NoDeposit}
      /\ \A e \in Deposit : e # d => status'[e] = status[e] /\ reversals'[e] = reversals[e]
      /\ \A e \in Deposit : e # d => token'[e] = token[e] /\ stale'[e] = stale[e]
  BY DEF Sound, Local, OnlyReq, OnlyRow, Calmly
<1>3. ASSUME NEW e \in Deposit PROVE CalmRow(e)'
  <2>1. CASE e = d
    BY <2>1 DEF Calmly
  <2>2. CASE e # d
    <3>1. CalmRow(e)
      BY <1>1 DEF CalmInv
    <3>2. Taking(e) => Taking(e)'
      BY <1>2, <2>2, NamesAssumption DEF Taking
    <3> QED  BY <1>1, <1>2, <2>2, <3>1, <3>2 DEF CalmRow, Customers
  <2> QED  BY <2>1, <2>2
<1>4. ASSUME NEW s \in Req PROVE CalmReq(s)'
  <2>1. CASE s = r
    BY <2>1 DEF Calmly
  <2>2. CASE s # r
    <3>1. CalmReq(s) /\ req'[s] = req[s] /\ Stage(s)
      BY <1>1, <1>2, <2>2 DEF CalmInv, TypeInv
    <3>2. CASE req[s].dep \in Deposit /\ req[s].dep # d
      BY <1>1, <1>2, <3>1, <3>2 DEF CalmReq
    <3>3. CASE req[s].dep = d
      BY <1>1, <2>2, <3>1, <3>3 DEF CalmReq, Calmly, Undisturbed, VoidSteps
    <3>4. CASE req[s].dep \notin Deposit
      BY <3>1, <3>4 DEF CalmReq, Stage, VoidSteps
    <3> QED  BY <3>2, <3>3, <3>4
  <2> QED  BY <2>1, <2>2
<1>5. CalmInv'
  BY <1>3, <1>4 DEF CalmInv
<1> QED  BY <1>5, BalanceStep DEF Calmly

\* What is known before a step after which nothing has gone wrong yet.
LEMMA CalmFacts ==
    ASSUME TypeInv, CalmInv, NEW r, NEW d \in Deposit, Sound(r, d), late' + faults' = 0
    PROVE  /\ CalmRow(d) /\ (r \in Req => CalmReq(r) /\ Stage(r))
           /\ late' = late /\ faults' = faults
           /\ kind' = kind /\ original' = original
           /\ \A s \in Req : s # r => req'[s] = req[s]
           /\ r \in Req => req[r].dep \in {d, NoDeposit}
           /\ Worth(d) \in Int /\ Worth(d)' \in Int /\ balance[d] \in Int
           /\ Mine(r, d) \in Int /\ Mine(r, d)' \in Int
           /\ original[d] \in Int /\ amount[d] \in Int /\ amount'[d] \in Int
<1>1. late + faults = 0 /\ late' = late /\ faults' = faults
  BY StillCalm
<1>2. TypeOK /\ TypeOK'
  BY DEF TypeInv, Sound
<1>3. Mine(r, d) \in Int /\ Mine(r, d)' \in Int
  BY <1>2, OwedInt, NextInts DEF Mine
<1>4. original[d] \in Int /\ amount[d] \in Int /\ amount'[d] \in Int
  BY <1>2, AmountsInt DEF TypeOK
<1>5. Worth(d) \in Int /\ Worth(d)' \in Int /\ balance[d] \in Int
  BY <1>2, WorthInt, NextInts
<1> QED  BY <1>1, <1>3, <1>4, <1>5 DEF CalmInv, TypeInv, Sound, Local, OnlyReq

\* A step that leaves the row as voids know it.
LEMMA QuietCalm ==
    ASSUME TypeInv, CalmInv, NEW r, NEW d \in Deposit, Sound(r, d), late' + faults' = 0,
           status' = status, token' = token, stale' = stale, reversals' = reversals,
           r \in Req /\ req'[r] # req[r] =>
               req[r].pc \notin VoidSteps /\ req'[r].pc \notin VoidSteps,
           r \in Req /\ req'[r].pc = "webSave" => kind[d] = "company",
           Customers(d) => Balanced(r, d)
    PROVE  Calmly(r, d)
<1>1. /\ CalmRow(d) /\ (r \in Req => CalmReq(r)) /\ kind' = kind
      /\ \A s \in Req : s # r => req'[s] = req[s]
  BY CalmFacts
<1>2. Taking(d) => Taking(d)'
  BY <1>1 DEF Taking, VoidSteps
<1>3. CalmRow(d)'
  BY <1>1, <1>2 DEF CalmRow, Customers
<1>4. ASSUME r \in Req PROVE CalmReq(r)'
  <2>1. CASE req'[r] = req[r]
    BY <1>1, <1>4, <2>1 DEF CalmReq
  <2>2. CASE req'[r] # req[r]
    <3>1. req'[r].pc # "idle" => req'[r].dep = d
      BY <1>4, NamesAssumption DEF Sound, Local, OnlyReq, Stage
    <3> QED  BY <1>1, <1>4, <2>2, <3>1 DEF CalmReq, VoidSteps
  <2> QED  BY <2>1, <2>2
<1> QED  BY <1>3, <1>4 DEF Calmly, Undisturbed

\* What is owed at each step of a request.
LEMMA OwedAt ==
    ASSUME NEW r \in Req, NEW d \in Deposit
    PROVE  /\ req[r].pc \notin {"save", "enter", "editSave", "voidSave"} => Owed(r, d) = 0
           /\ req[r].dep # d => Owed(r, d) = 0
           /\ req[r].pc = "save" /\ req[r].verdict # "deposit" => Owed(r, d) = 0
           /\ req[r].dep = d /\ req[r].pc \in {"save", "enter"} /\ req[r].verdict = "deposit"
                 => Owed(r, d) = original[d]
           /\ req[r].dep = d /\ req[r].pc = "editSave" => Owed(r, d) = req[r].want - req[r].old
           /\ req[r].dep = d /\ req[r].pc = "voidSave" => Owed(r, d) = 0 - original[d]
BY DEF Owed

LEMMA OwedThen ==
    ASSUME NEW r \in Req, NEW d \in Deposit
    PROVE  /\ req'[r].pc \notin {"save", "enter", "editSave", "voidSave"} => Owed(r, d)' = 0
           /\ req'[r].dep # d => Owed(r, d)' = 0
           /\ req'[r].pc = "save" /\ req'[r].verdict # "deposit" => Owed(r, d)' = 0
           /\ req'[r].dep = d /\ req'[r].pc \in {"save", "enter"} /\ req'[r].verdict = "deposit"
                 => Owed(r, d)' = original'[d]
           /\ req'[r].dep = d /\ req'[r].pc = "editSave"
                 => Owed(r, d)' = req'[r].want - req'[r].old
           /\ req'[r].dep = d /\ req'[r].pc = "voidSave" => Owed(r, d)' = 0 - original'[d]
BY DEF Owed

\* Nothing is owed by a request that is over.
LEMMA EndedOwes ==
    ASSUME NEW r \in Req, NEW d \in Deposit, Ended(r)
    PROVE  Mine(r, d)' = 0 /\ CalmReq(r)' /\ req'[r].pc = "idle"
<1>1. req'[r].pc = "idle"
  BY DEF Ended, Idle
<1> QED  BY <1>1, OwedThen DEF Mine, CalmReq, VoidSteps

LEMMA LinkCalm ==
    ASSUME TypeInv, CalmInv, NEW r \in Req, NEW d \in Deposit, d = req[r].dep,
           Link(r), late' + faults' = 0
    PROVE  Calmly(r, d)
<1>1. Sound(r, d) /\ req[r].pc = "link" /\ Ended(r)
      /\ UNCHANGED <<fixed, status, amount, token, stale, money, pool, tallies>>
  BY LinkSound, EndEnded DEF Link
<1>2. Mine(r, d) = 0 /\ Mine(r, d)' = 0 /\ req'[r].pc = "idle"
  BY <1>1, OwedAt, EndedOwes DEF Mine
<1>3. Worth(d)' = Worth(d) /\ balance'[d] = balance[d]
  BY <1>1 DEF Worth, fixed, money
<1>4. Balanced(r, d)
  BY <1>1, <1>2, <1>3, CalmFacts DEF Balanced
<1> QED  BY <1>1, <1>2, <1>4, QuietCalm DEF VoidSteps, money

\* What the pool is computed from is no customer's.
LEMMA SyncCalm ==
    ASSUME TypeInv, CalmInv, NEW r \in Req, NEW d \in Deposit, d = req[r].dep,
           Sync(r) \/ SyncWrite(r), late' + faults' = 0
    PROVE  Calmly(r, d)
<1>1. Sound(r, d) /\ req[r].pc \in {"sync", "syncWrite"} /\ kind[d] = "company"
      /\ UNCHANGED <<fixed, rows, money, tallies>>
  BY SyncSound DEF Sync, SyncWrite, TypeInv, Stage
<1>2. req'[r].pc \in {"idle", "syncWrite"}
  <2>1. End(r) => req'[r].pc = "idle"
    BY Typed DEF End, Idle
  <2>2. ~End(r) => req'[r].pc = "syncWrite"
    BY Typed DEF Sync, SyncWrite, Request
  <2> QED  BY <2>1, <2>2
<1> QED  BY <1>1, <1>2, QuietCalm DEF VoidSteps, Customers, rows, money

LEMMA CreditCalm ==
    ASSUME TypeInv, CalmInv, NEW r \in Req, NEW d \in Deposit, d = req[r].dep,
           Credit(r), late' + faults' = 0
    PROVE  Calmly(r, d)
<1>1. Sound(r, d) /\ req[r].pc = "credit" /\ Stage(r) /\ req[r].verdict = "deposit"
      /\ UNCHANGED <<fixed, rows, reversals, pool>>
      /\ balance' = [balance EXCEPT ![d] = balance[d] + original[d]]
  BY CreditSound DEF Credit, TypeInv, Stage
<1>2. PICK step \in {"save", "enter"} : Went(r, step)
  <2>1. late' = late /\ faults' = faults /\ faults \in Nat
    BY <1>1, CalmFacts, Typed
  <2>2. ~AFault
    BY <2>1 DEF AFault
  <2>3. Go(r, IF kind[d] = "direct" THEN "enter" ELSE "save")
    BY <2>2 DEF Credit
  <2> QED  BY <2>3, GoWent DEF Steps
<1>3. req'[r].pc = step /\ req'[r].dep = d /\ req'[r].verdict = "deposit"
  BY <1>1, <1>2 DEF Went
<1>4. Mine(r, d) = 0 /\ Mine(r, d)' = original[d]
  BY <1>1, <1>3, OwedAt, OwedThen DEF Mine, fixed
<1>5. Worth(d)' = Worth(d) /\ balance'[d] = balance[d] + original[d]
  BY <1>1, Typed DEF Worth, fixed, rows
<1>6. Balanced(r, d)
  BY <1>1, <1>4, <1>5, CalmFacts DEF Balanced
<1> QED  BY <1>1, <1>3, <1>6, QuietCalm DEF VoidSteps, rows

LEMMA EditSaveCalm ==
    ASSUME TypeInv, CalmInv, NEW r \in Req, NEW d \in Deposit, d = req[r].dep,
           EditSave(r), late' + faults' = 0
    PROVE  Calmly(r, d)
<1>1. Sound(r, d) /\ req[r].pc = "editSave" /\ Stage(r) /\ req[r].seen = "deposit"
      /\ UNCHANGED <<fixed, status, linked, token, stale, money, pool>>
      /\ amount'[d] = req[r].want
      /\ Writes(d, req[r].seen, req[r].old)
  BY EditSaveSound, Typed DEF EditSave, TypeInv, Stage
<1>2. status[d] = "deposit" /\ amount[d] = req[r].old
  <2>1. late' = late /\ late \in Nat
    BY <1>1, CalmFacts, Typed
  <2>2. ~ALate
    BY <2>1 DEF ALate
  <2> QED  BY <1>1, <2>2 DEF Writes
<1>3. req'[r].pc \in {"idle", "sync"}
  BY Typed DEF EditSave, End, Go, Idle, Request
<1>4. Mine(r, d) = req[r].want - req[r].old /\ Mine(r, d)' = 0
  BY <1>1, <1>3, OwedAt, OwedThen DEF Mine
<1>5. Worth(d) = amount[d] /\ Worth(d)' = req[r].want /\ balance'[d] = balance[d]
  BY <1>1, <1>2 DEF Worth, money
<1>6. Balanced(r, d)
  <2>1. amount'[d] \in Int /\ amount[d] \in Int /\ balance[d] \in Int
    BY <1>1, CalmFacts
  <2> QED  BY <1>1, <1>2, <1>4, <1>5, <2>1 DEF Balanced
<1> QED  BY <1>1, <1>3, <1>6, QuietCalm DEF VoidSteps, money

\* A row that has not been decided on is written by one request.
LEMMA FreshCalm ==
    ASSUME TypeInv, CalmInv, NEW r, NEW d \in Deposit, Sound(r, d), late' + faults' = 0,
           status[d] \in Fresh, token'[d] = token[d], stale'[d] = stale[d],
           reversals'[d] = reversals[d],
           \A e \in Deposit : e # d => token'[e] = token[e] /\ stale'[e] = stale[e],
           r \in Req => CalmReq(r)', Customers(d) => Balanced(r, d)
    PROVE  Calmly(r, d)
<1>1. token[d] = Nobody /\ ~stale[d] /\ reversals[d] = 0
  BY DEF TypeInv, FreshRow
<1>2. CalmRow(d)'
  BY <1>1, NamesAssumption DEF CalmRow
<1>3. Undisturbed(r, d)
  <2> SUFFICES ASSUME NEW s \in Req, req[s].dep = d, req[s].pc \in VoidSteps
               PROVE  FALSE
    BY DEF Undisturbed
  <2>1. Stage(s)
    BY DEF TypeInv
  <2> QED  BY <2>1 DEF Stage
<1> QED  BY <1>2, <1>3 DEF Calmly

LEMMA CreateCalm ==
    ASSUME TypeInv, CalmInv, NEW r \in Req, NEW d \in Deposit, d = req[r].dep,
           Create(r), late' + faults' = 0
    PROVE  Calmly(r, d)
<1>1. Sound(r, d) /\ req[r].pc = "create" /\ Stage(r) /\ status[d] = "none"
      /\ UNCHANGED <<fixed, amount, linked, token, stale, money, pool, tallies>>
      /\ status'[d] = "deposit_pending"
      /\ Went(r, "link")
  BY CreateSound, GoWent, Typed DEF Create, TypeInv, Stage, Set, Steps
<1>2. req'[r].pc = "link"
  BY <1>1 DEF Went
<1>3. Mine(r, d) = 0 /\ Mine(r, d)' = 0 /\ CalmReq(r)'
  BY <1>1, <1>2, OwedAt, OwedThen DEF Mine, CalmReq, VoidSteps
<1>4. Worth(d)' = 0 /\ Worth(d) = 0 /\ balance'[d] = balance[d]
  BY <1>1 DEF Worth, money
<1>5. Balanced(r, d)
  BY <1>1, <1>3, <1>4, CalmFacts DEF Balanced
<1> QED  BY <1>1, <1>3, <1>5, FreshCalm DEF Fresh, money

LEMMA EnterCalm ==
    ASSUME TypeInv, CalmInv, NEW r \in Req, NEW d \in Deposit, d = req[r].dep,
           Enter(r), late' + faults' = 0
    PROVE  Calmly(r, d)
<1>1. Sound(r, d) /\ req[r].pc = "enter" /\ Stage(r) /\ status[d] = "none"
      /\ req[r].verdict = "deposit"
      /\ UNCHANGED <<fixed, amount, linked, token, stale, money, pool, tallies>>
      /\ status'[d] = "deposit" /\ Ended(r)
  BY EnterSound, EndEnded, Typed DEF Enter, TypeInv, Stage, Set
<1>2. amount[d] = original[d]
  BY <1>1 DEF TypeInv, FreshRow, Fresh
<1>3. Mine(r, d) = original[d] /\ Mine(r, d)' = 0 /\ CalmReq(r)'
  BY <1>1, OwedAt, EndedOwes DEF Mine
<1>4. Worth(d)' = original[d] /\ Worth(d) = 0 /\ balance'[d] = balance[d]
  BY <1>1, <1>2 DEF Worth, money
<1>5. Balanced(r, d)
  BY <1>1, <1>3, <1>4, CalmFacts DEF Balanced
<1> QED  BY <1>1, <1>3, <1>5, FreshCalm DEF Fresh, money

LEMMA SaveCalm ==
    ASSUME TypeInv, CalmInv, NEW r \in Req, NEW d \in Deposit, d = req[r].dep,
           Save(r), late' + faults' = 0
    PROVE  Calmly(r, d)
<1>1. Sound(r, d) /\ req[r].pc = "save" /\ Stage(r) /\ req[r].verdict \in Verdicts
      /\ req[r].seen = "deposit_pending" /\ Writes(d, req[r].seen, req[r].old)
      /\ UNCHANGED <<fixed, amount, linked, money, pool>>
      /\ status'[d] = req[r].verdict /\ Ended(r)
  BY SaveSound, EndEnded, Typed DEF Save, TypeInv, Stage, Set
<1>2. status[d] = "deposit_pending"
  <2>1. late' = late /\ late \in Nat
    BY <1>1, CalmFacts, Typed
  <2>2. ~ALate
    BY <2>1 DEF ALate
  <2> QED  BY <1>1, <2>2 DEF Writes
<1>3. amount[d] = original[d] /\ token[d] = Nobody /\ stale[d] = FALSE
  BY <1>2, Typed DEF TypeInv, FreshRow, Fresh
<1>4. /\ token'[d] = token[d] /\ stale'[d] = stale[d]
      /\ \A e \in Deposit : e # d => token'[e] = token[e] /\ stale'[e] = stale[e]
  BY <1>3, Typed DEF Save
<1>5. Mine(r, d)' = 0 /\ CalmReq(r)'
  BY <1>1, EndedOwes
<1>6. Worth(d) = 0 /\ balance'[d] = balance[d]
  BY <1>1, <1>2 DEF Worth, money
<1>7. Worth(d)' = Mine(r, d)
  <2>1. CASE req[r].verdict = "deposit"
    BY <1>1, <1>3, <2>1, OwedAt DEF Worth, Mine
  <2>2. CASE req[r].verdict = "rejected"
    BY <1>1, <2>2, OwedAt DEF Worth, Mine
  <2> QED  BY <1>1, <2>1, <2>2 DEF Verdicts
<1>8. Balanced(r, d)
  BY <1>1, <1>5, <1>6, <1>7, CalmFacts DEF Balanced
<1> QED  BY <1>1, <1>2, <1>4, <1>5, <1>8, FreshCalm DEF Fresh, money

LEMMA WebSaveCalm ==
    ASSUME TypeInv, CalmInv, NEW r \in Req, NEW d \in Deposit, d = req[r].dep,
           WebSave(r), late' + faults' = 0
    PROVE  Calmly(r, d)
<1>1. Sound(r, d) /\ req[r].pc = "webSave"
      /\ req[r].seen = "deposit_pending" /\ Writes(d, req[r].seen, req[r].old)
      /\ UNCHANGED <<fixed, amount, linked, token, stale, money, pool>>
  BY WebSaveSound DEF WebSave, TypeInv, Stage
<1>2. status[d] = "deposit_pending"
  <2>1. late' = late /\ late \in Nat
    BY <1>1, CalmFacts, Typed
  <2>2. ~ALate
    BY <2>1 DEF ALate
  <2> QED  BY <1>1, <2>2 DEF Writes
<1>3. kind[d] = "company"
  BY <1>1, CalmFacts DEF CalmReq
<1>4. req'[r].pc \in {"idle", "sync"}
  BY Typed DEF WebSave, End, Go, Idle, Request
<1>5. CalmReq(r)'
  BY <1>4 DEF CalmReq, VoidSteps
<1> QED  BY <1>1, <1>2, <1>3, <1>5, FreshCalm DEF Fresh, money, Customers

\* The token says which void is at work.
LEMMA OneVoid ==
    ASSUME TypeInv, CalmInv, NEW r \in Req, NEW d \in Deposit, d = req[r].dep, Sound(r, d),
           req[r].pc \in VoidSteps, late' + faults' = 0
    PROVE  Undisturbed(r, d) /\ token[d] = r /\ status[d] = "deposit" /\ stale[d] = FALSE
<1>1. late + faults = 0
  BY StillCalm
<1>2. token[d] = r /\ status[d] = "deposit" /\ ~stale[d]
  BY <1>1 DEF CalmInv, CalmReq, CalmRow
<1>3. \A s \in Req : req[s].dep = d /\ req[s].pc \in VoidSteps => token[d] = s
  BY <1>1 DEF CalmInv, CalmReq
<1> QED  BY <1>2, <1>3, Typed DEF Undisturbed

LEMMA VoidLookCalm ==
    ASSUME TypeInv, CalmInv, NEW r \in Req, NEW d \in Deposit, d = req[r].dep,
           VoidLook(r), late' + faults' = 0
    PROVE  Calmly(r, d)
<1>1. Sound(r, d) /\ req[r].pc = "voidLook"
      /\ UNCHANGED <<fixed, status, amount, linked, money, pool, tallies>>
  BY VoidLookSound DEF VoidLook
<1>2. Undisturbed(r, d) /\ token[d] = r /\ status[d] = "deposit" /\ stale[d] = FALSE
  BY <1>1, OneVoid DEF VoidSteps
<1>3. reversals[d] = 0 /\ reversals' = reversals
  BY <1>1, CalmFacts DEF CalmReq, money
<1>4. Worth(d)' = Worth(d) /\ balance'[d] = balance[d] /\ Mine(r, d) = 0
  BY <1>1, OwedAt DEF Worth, fixed, money, Mine
<1>5. CASE Untoken(r, d) /\ End(r)
  <2>1. token' = [token EXCEPT ![d] = Nobody] /\ stale' = [stale EXCEPT ![d] = FALSE]
    BY <1>2, <1>5 DEF Untoken
  <2>2. CalmRow(d)'
    BY <1>1, <1>2, <1>3, <2>1, Typed, NamesAssumption DEF CalmRow
  <2>3. Mine(r, d)' = 0 /\ CalmReq(r)'
    BY <1>5, EndEnded, EndedOwes
  <2>4. Balanced(r, d)
    BY <1>1, <1>4, <2>3, CalmFacts DEF Balanced
  <2> QED  BY <1>2, <2>1, <2>2, <2>3, <2>4, Typed DEF Calmly
<1>6. CASE Go(r, "voidPay") /\ token' = token /\ stale' = stale
  <2>1. Went(r, "voidPay")
    BY <1>6, GoWent DEF Steps
  <2>2. req'[r].pc = "voidPay" /\ req'[r].dep = d
    BY <2>1 DEF Went
  <2>3. CalmRow(d)'
    BY <1>1, <1>2, <1>3, <1>6, Typed, NamesAssumption DEF CalmRow
  <2>4. Mine(r, d)' = 0 /\ CalmReq(r)'
    BY <1>1, <1>2, <1>3, <1>6, <2>2, OwedThen DEF Mine, CalmReq, VoidSteps
  <2>5. Balanced(r, d)
    BY <1>1, <1>4, <2>4, CalmFacts DEF Balanced
  <2> QED  BY <1>2, <1>6, <2>3, <2>4, <2>5 DEF Calmly
<1> QED  BY <1>3, <1>5, <1>6 DEF VoidLook

LEMMA VoidPayCalm ==
    ASSUME TypeInv, CalmInv, NEW r \in Req, NEW d \in Deposit, d = req[r].dep,
           VoidPay(r), late' + faults' = 0
    PROVE  Calmly(r, d)
<1>1. Sound(r, d) /\ req[r].pc = "voidPay"
      /\ UNCHANGED <<fixed, status, amount, linked, entries, pool>>
      /\ balance' = [balance EXCEPT ![d] = balance[d] - original[d]]
  BY VoidPaySound DEF VoidPay
<1>2. Undisturbed(r, d) /\ token[d] = r /\ status[d] = "deposit" /\ stale[d] = FALSE
  BY <1>1, OneVoid DEF VoidSteps
<1>3. Go(r, "voidSave") /\ token' = token /\ stale' = stale
  <2>1. late' = late /\ faults' = faults /\ faults \in Nat
    BY <1>1, CalmFacts, Typed
  <2>2. ~AFault
    BY <2>1 DEF AFault
  <2> QED  BY <2>2 DEF VoidPay
<1>4. req'[r].pc = "voidSave" /\ req'[r].dep = d
  BY <1>3, GoWent DEF Went, Steps
<1>5. CalmRow(d)'
  BY <1>1, <1>2, <1>3, <1>4, Typed, NamesAssumption DEF CalmRow, Taking
<1>6. CalmReq(r)'
  BY <1>1, <1>2, <1>3, <1>4 DEF CalmReq
<1>7. Mine(r, d) = 0 /\ Mine(r, d)' = 0 - original[d]
  BY <1>1, <1>4, OwedAt, OwedThen DEF Mine, fixed
<1>8. Worth(d)' = Worth(d) /\ balance'[d] = balance[d] - original[d]
  BY <1>1, Typed DEF Worth, fixed
<1>9. Balanced(r, d)
  BY <1>1, <1>7, <1>8, CalmFacts DEF Balanced
<1> QED  BY <1>2, <1>3, <1>5, <1>6, <1>9 DEF Calmly

LEMMA VoidSaveCalm ==
    ASSUME TypeInv, CalmInv, NEW r \in Req, NEW d \in Deposit, d = req[r].dep,
           VoidSave(r), late' + faults' = 0
    PROVE  Calmly(r, d)
<1>1. Sound(r, d) /\ req[r].pc = "voidSave" /\ Ended(r)
      /\ UNCHANGED <<fixed, amount, linked, money, pool, tallies>>
  BY VoidSaveSound, EndEnded DEF VoidSave
<1>2. Undisturbed(r, d) /\ token[d] = r /\ status[d] = "deposit"
  BY <1>1, OneVoid DEF VoidSteps
<1>3. /\ status' = [status EXCEPT ![d] = "cancelled_by_admin"]
      /\ token' = [token EXCEPT ![d] = Voided] /\ stale' = [stale EXCEPT ![d] = FALSE]
  BY <1>2 DEF VoidSave, Set
<1>4. CalmRow(d)'
  BY <1>3, Typed, NamesAssumption DEF CalmRow
<1>5. Mine(r, d) = 0 - original[d] /\ Mine(r, d)' = 0 /\ CalmReq(r)'
  BY <1>1, OwedAt, EndedOwes DEF Mine
<1>6. Worth(d) = amount[d] /\ Worth(d)' = amount[d] - original[d] /\ balance'[d] = balance[d]
  <2>1. status'[d] = "cancelled_by_admin"
    BY <1>3, Typed
  <2> QED  BY <1>1, <1>2, <2>1 DEF Worth, fixed, money
<1>7. Balanced(r, d)
  BY <1>1, <1>5, <1>6, CalmFacts DEF Balanced
<1> QED  BY <1>2, <1>3, <1>4, <1>5, <1>7, Typed DEF Calmly

LEMMA OwnCalm ==
    ASSUME TypeInv, CalmInv, NEW r \in Req, NEW d \in Deposit, d = req[r].dep,
           OwnStep(r), late' + faults' = 0
    PROVE  Calmly(r, d)
<1>1. ~Stop(r)
  <2>1. faults' = faults
    BY OwnSound, StillCalm
  <2> QED  BY <2>1, Typed DEF Stop, AFault
<1> QED  BY <1>1, CreateCalm, LinkCalm, EnterCalm, CreditCalm, SaveCalm, WebSaveCalm, SyncCalm,
            EditSaveCalm, VoidLookCalm, VoidPayCalm, VoidSaveCalm
         DEF OwnStep

\* A request that begins has nothing to write that the row does not know.
LEMMA StartCalm ==
    ASSUME TypeInv, CalmInv, NEW r \in Req, NEW d \in Deposit, Sound(r, d), late' + faults' = 0,
           NEW step \in {"create", "credit", "save", "webSave", "sync"},
           NEW v \in Verdicts \cup {"none"}, NEW a \in Int, Start(r, step, d, v, a),
           step = "save" => v # "deposit", step = "webSave" => kind[d] = "company",
           UNCHANGED <<fixed, rows, money>>
    PROVE  Calmly(r, d)
<1>1. req[r].pc = "idle" /\ req'[r].pc = step /\ req'[r].dep = d /\ req'[r].verdict = v
  BY StartMoved DEF Steps
<1>2. Mine(r, d) = 0 /\ Mine(r, d)' = 0
  BY <1>1, OwedAt, OwedThen DEF Mine
<1>3. Worth(d)' = Worth(d) /\ balance'[d] = balance[d]
  BY DEF Worth, fixed, rows, money
<1>4. Balanced(r, d)
  BY <1>2, <1>3, CalmFacts DEF Balanced
<1> QED  BY <1>1, <1>4, QuietCalm DEF VoidSteps, rows, money

LEMMA AddBalanceCalm ==
    ASSUME TypeInv, CalmInv, NEW r \in Req, NEW d \in Deposit,
           AddBalance(r, d), late' + faults' = 0
    PROVE  Sound(r, d) /\ Calmly(r, d)
<1>1. Sound(r, d) /\ status[d] = "none"
      /\ UNCHANGED <<fixed, amount, linked, token, stale, reversals, pool, tallies>>
  BY AddBalanceSound DEF AddBalance
<1>2. CASE transactions
  <2>1. /\ req' = req /\ req[r].pc = "idle"
        /\ balance'[d] = balance[d] + original[d] /\ status'[d] = "deposit"
    BY <1>2, Typed DEF AddBalance, Set
  <2>2. amount[d] = original[d]
    BY <1>1 DEF TypeInv, FreshRow, Fresh
  <2>3. Mine(r, d) = 0 /\ Mine(r, d)' = 0 /\ CalmReq(r)'
    BY <2>1, OwedAt, OwedThen DEF Mine, CalmReq, VoidSteps
  <2>4. Worth(d)' = original[d] /\ Worth(d) = 0
    BY <1>1, <2>1, <2>2 DEF Worth
  <2>5. Balanced(r, d)
    BY <1>1, <2>1, <2>3, <2>4, CalmFacts DEF Balanced
  <2> QED  BY <1>1, <2>3, <2>5, FreshCalm DEF Fresh
<1>3. CASE ~transactions
  BY <1>1, <1>3, StartCalm DEF AddBalance, Verdicts, rows, money
<1> QED  BY <1>1, <1>2, <1>3

LEMMA ReviewCompanyCalm ==
    ASSUME TypeInv, CalmInv, NEW r \in Req, NEW d \in Deposit, NEW v \in Verdicts,
           ReviewCompany(r, d, v), late' + faults' = 0
    PROVE  \E q \in {r, Nobody} : Sound(q, d) /\ Calmly(q, d)
<1>1. PICK q \in {r, Nobody} : Sound(q, d)
  BY ReviewCompanySound
<1>2. /\ kind[d] = "company" /\ status[d] = "deposit_pending"
      /\ UNCHANGED <<fixed, amount, linked, token, stale, money, tallies>>
      /\ req' = req \/ Start(r, "sync", d, v, 0)
  BY DEF ReviewCompany
<1>3. ASSUME q \in Req PROVE CalmReq(q)'
  <2>1. q = r /\ CalmReq(r) /\ Stage(r) /\ req[r].dep \in {d, NoDeposit} /\ kind' = kind
    BY <1>1, <1>3, CalmFacts, Typed
  <2>2. CASE req' = req
    <3>1. req[r].pc \notin VoidSteps
      BY <1>2, <2>1, NamesAssumption DEF Stage, VoidSteps, Fresh
    <3>2. req[r].pc = "webSave" => req[r].dep = d
      BY <2>1, NamesAssumption DEF Stage
    <3> QED  BY <1>2, <2>1, <2>2, <3>1, <3>2 DEF CalmReq, VoidSteps
  <2>3. CASE Start(r, "sync", d, v, 0)
    <3>1. req'[r].pc = "sync"
      BY <2>3, Typed DEF Start
    <3> QED  BY <2>1, <3>1 DEF CalmReq, VoidSteps
  <2> QED  BY <1>2, <2>2, <2>3
<1>4. Calmly(q, d)
  BY <1>1, <1>2, <1>3, FreshCalm DEF Fresh, Customers, money
<1> QED  BY <1>1, <1>4

LEMMA EditAmountCalm ==
    ASSUME TypeInv, CalmInv, NEW r \in Req, NEW d \in Deposit, NEW a \in Amounts,
           EditAmount(r, d, a), late' + faults' = 0
    PROVE  \E q \in {r, Nobody} : Sound(q, d) /\ Calmly(q, d)
<1>1. PICK q \in {r, Nobody} : Sound(q, d)
  BY EditAmountSound
<1>2. /\ status[d] = "deposit" /\ a \in Int
      /\ UNCHANGED <<fixed, status, linked, token, stale, entries, reversals, pool, tallies>>
      /\ Customers(d) => balance'[d] = balance[d] + a - amount[d]
  BY AmountsInt, Typed DEF EditAmount
<1>3. CASE req' = req
  <2>1. Customers(d) => amount'[d] = a
    BY <1>3, Typed DEF EditAmount, Start
  <2>2. Worth(d) = amount[d] /\ Worth(d)' = amount'[d]
    BY <1>2 DEF Worth
  <2>3. Mine(q, d)' = Mine(q, d)
    BY <1>2, <1>3 DEF Mine, Owed, fixed
  <2>4. Customers(d) => Balanced(q, d)
    BY <1>1, <1>2, <2>1, <2>2, <2>3, CalmFacts DEF Balanced
  <2>5. q \in Req /\ req'[q].pc = "webSave" => kind[d] = "company"
    <3>1. q \in Req => CalmReq(q) /\ Stage(q) /\ req[q].dep \in {d, NoDeposit}
      BY <1>1, CalmFacts
    <3> QED  BY <1>3, <3>1, NamesAssumption DEF CalmReq, Stage
  <2>6. Calmly(q, d)
    BY <1>1, <1>2, <1>3, <2>4, <2>5, QuietCalm
  <2> QED  BY <1>1, <2>6
<1>4. CASE req' # req
  <2>1. \/ transactions /\ ~Customers(d) /\ Start(r, "sync", d, "none", 0)
        \/ ~transactions /\ Start(r, "editSave", d, "none", a) /\ amount' = amount
    BY <1>4 DEF EditAmount
  <2>2. PICK step \in {"sync", "editSave"} :
           /\ req[r].pc = "idle" /\ req'[r].pc = step /\ req'[r].dep = d
           /\ Customers(d) => /\ step = "editSave" /\ req'[r].want = a
                              /\ req'[r].old = amount[d] /\ amount' = amount
    BY <1>2, <2>1, StartMoved DEF Steps
  <2>3. q = r
    <3>1. ~Sound(Nobody, d)
      BY <2>2, Typed DEF Sound, Local, OnlyReq
    <3> QED  BY <1>1, <3>1
  <2>4. Customers(d) => Balanced(r, d)
    <3> SUFFICES ASSUME Customers(d) PROVE Balanced(r, d)
      OBVIOUS
    <3>1. Mine(r, d) = 0 /\ Mine(r, d)' = a - amount[d]
      BY <2>2, OwedAt, OwedThen DEF Mine
    <3>2. Worth(d)' = Worth(d)
      BY <1>2, <2>2 DEF Worth, fixed
    <3> QED  BY <1>1, <1>2, <2>3, <3>1, <3>2, CalmFacts DEF Balanced
  <2>5. Calmly(r, d)
    BY <1>1, <1>2, <2>2, <2>3, <2>4, QuietCalm DEF VoidSteps
  <2> QED  BY <1>1, <2>3, <2>5
<1> QED  BY <1>3, <1>4

LEMMA VoidClaimCalm ==
    ASSUME TypeInv, CalmInv, NEW r \in Req, NEW d \in Deposit,
           VoidClaim(r, d), late' + faults' = 0
    PROVE  Sound(r, d) /\ Calmly(r, d)
<1>1. /\ Sound(r, d) /\ Customers(d) /\ status[d] = "deposit"
      /\ token[d] = Nobody \/ stale[d]
      /\ token' = [token EXCEPT ![d] = r] /\ stale' = [stale EXCEPT ![d] = FALSE]
      /\ UNCHANGED <<fixed, status, amount, linked, money, pool, tallies>>
      /\ Start(r, "voidLook", d, "none", 0)
  BY VoidClaimSound DEF VoidClaim, Voidable
<1>2. req[r].pc = "idle" /\ req'[r].pc = "voidLook" /\ req'[r].dep = d
  BY <1>1, StartMoved DEF Steps
<1>3. CalmRow(d) /\ late + faults = 0
  BY <1>1, CalmFacts, StillCalm
<1>4. token[d] = Nobody /\ reversals[d] = 0
  BY <1>1, <1>3, NamesAssumption DEF CalmRow, Taking
<1>5. token'[d] = r /\ stale'[d] = FALSE
  BY <1>1, Typed
<1>6. CalmRow(d)'
  BY <1>1, <1>4, <1>5, NamesAssumption DEF CalmRow, money
<1>7. CalmReq(r)'
  BY <1>1, <1>2, <1>4, <1>5 DEF CalmReq, money
<1>8. Undisturbed(r, d)
  <2>1. \A s \in Req : req[s].dep = d /\ req[s].pc \in VoidSteps => token[d] = s
    BY <1>3 DEF CalmInv, CalmReq
  <2> QED  BY <1>4, <2>1, NamesAssumption DEF Undisturbed
<1>9. Balanced(r, d)
  <2>1. Mine(r, d) = 0 /\ Mine(r, d)' = 0
    BY <1>2, OwedAt, OwedThen DEF Mine
  <2>2. Worth(d)' = Worth(d) /\ balance'[d] = balance[d]
    BY <1>1 DEF Worth, fixed, money
  <2> QED  BY <1>1, <2>1, <2>2, CalmFacts DEF Balanced
<1> QED  BY <1>1, <1>6, <1>7, <1>8, <1>9, Typed DEF Calmly

LEMMA FirstCalm ==
    ASSUME TypeInv, CalmInv, NEW r \in Req, NEW d \in Deposit,
           FirstStep(r, d), late' + faults' = 0
    PROVE  \E q \in {r, Nobody} : Sound(q, d) /\ Calmly(q, d)
<1>1. CASE Ask(r, d)
  <2>1. Sound(r, d) /\ amount[d] \in Int
    BY <1>1, AskSound, Typed, AmountsInt
  <2> QED  BY <1>1, <2>1, StartCalm DEF Ask
<1>2. ASSUME NEW v \in Verdicts, Review(r, d, v) PROVE Sound(r, d) /\ Calmly(r, d)
  <2>1. Sound(r, d)
    BY <1>2, ReviewSound
  <2> QED  BY <1>2, <2>1, StartCalm DEF Review, Verdicts
<1>3. ASSUME NEW v \in Verdicts, WebReview(r, d, v) PROVE Sound(r, d) /\ Calmly(r, d)
  <2>1. Sound(r, d)
    BY <1>3, WebReviewSound
  <2>2. faults' = faults /\ faults \in Nat
    BY <2>1, StillCalm, Typed
  <2>3. ~AFault
    BY <2>2 DEF AFault
  <2>4. kind[d] = "company"
    BY <1>3, <2>3 DEF WebReview
  <2> QED  BY <1>3, <2>1, <2>4, StartCalm DEF WebReview, Verdicts
<1> QED  BY <1>1, <1>2, <1>3, AddBalanceCalm, VoidClaimCalm, ReviewCompanyCalm, EditAmountCalm
         DEF FirstStep

LEMMA RowCalm ==
    ASSUME TypeInv, CalmInv, NEW d \in Deposit, RowStep(d), late' + faults' = 0
    PROVE  Calmly(Nobody, d)
<1>1. Sound(Nobody, d) /\ Nobody \notin Req
  BY RowSound, Typed
<1>2. CASE Submit(d)
  BY <1>1, <1>2, FreshCalm DEF Submit, Fresh, Customers, money
<1>3. CASE Void(d)
  <2>0. transactions /\ Customers(d) /\ Voidable(d)
    BY <1>3 DEF Void
  <2>1. /\ transactions /\ status[d] = "deposit" /\ Customers(d)
        /\ UNCHANGED <<fixed, amount, linked, stale, entries, pool, req, tallies>>
        /\ status' = [status EXCEPT ![d] = "cancelled_by_admin"]
        /\ token' = [token EXCEPT ![d] = Voided]
    BY <1>3, <2>0 DEF Void, Set, Voidable
  <2>2. CalmRow(d)
    BY <1>1, CalmFacts
  <2>3. ~Taking(d)
    <3>1. \A s \in Req : req[s].pc # "voidSave"
      BY <2>1 DEF TypeInv, Stage, VoidSteps
    <3> QED  BY <3>1 DEF Taking
  <2>4. reversals[d] = 0
    BY <2>1, <2>2, <2>3 DEF CalmRow
  <2>5. balance'[d] = balance[d] - original[d]
    BY <1>3, <2>4, Typed DEF Void
  <2>6. status'[d] = "cancelled_by_admin" /\ token'[d] = Voided
    BY <2>1, Typed
  <2>7. CalmRow(d)'
    BY <2>1, <2>2, <2>6, NamesAssumption DEF CalmRow
  <2>8. Undisturbed(Nobody, d)
    BY <2>1 DEF Undisturbed, TypeInv, Stage
  <2>9. Balanced(Nobody, d)
    <3>1. Mine(Nobody, d) = 0 /\ Mine(Nobody, d)' = 0
      BY <1>1 DEF Mine
    <3>2. Worth(d) = amount[d] /\ Worth(d)' = amount[d] - original[d]
      BY <2>1, <2>6 DEF Worth, fixed
    <3> QED  BY <1>1, <2>5, <3>1, <3>2, CalmFacts DEF Balanced
  <2> QED  BY <1>1, <2>1, <2>7, <2>8, <2>9, Typed DEF Calmly
<1>4. CASE TokenLapses(d)
  <2>1. faults' = faults /\ faults \in Nat /\ CalmRow(d)
    BY <1>1, CalmFacts, Typed
  <2>2. token[d] # Orphan /\ ~AFault
    BY <2>1 DEF CalmRow, AFault
  <2> QED  BY <1>4, <2>2 DEF TokenLapses
<1> QED  BY <1>2, <1>3, <1>4 DEF RowStep

LEMMA NextCalm == TypeInv /\ CalmInv /\ BalanceInv /\ [Next]_vars => CalmInv' /\ BalanceInv'
<1> SUFFICES ASSUME TypeInv, CalmInv, BalanceInv, [Next]_vars PROVE CalmInv' /\ BalanceInv'
  OBVIOUS
<1>1. CASE late' + faults' # 0
  BY <1>1 DEF CalmInv, BalanceInv
<1>2. CASE late' + faults' = 0
  <2>1. ASSUME NEW r \in Req, OwnStep(r) PROVE CalmInv' /\ BalanceInv'
    <3>1. PICK d \in Deposit : d = req[r].dep
      BY <2>1, OwnSound DEF Sound
    <3> QED  BY <1>2, <2>1, <3>1, OwnSound, OwnCalm, CalmStep
  <2>2. ASSUME NEW r \in Req, NEW d \in Deposit, FirstStep(r, d) PROVE CalmInv' /\ BalanceInv'
    BY <1>2, <2>2, FirstCalm, CalmStep
  <2>3. ASSUME NEW d \in Deposit, RowStep(d) PROVE CalmInv' /\ BalanceInv'
    BY <1>2, <2>3, RowSound, RowCalm, CalmStep
  <2>4. CASE UNCHANGED vars
    <3>1. \A d \in Deposit : Owing(d)' = Owing(d) /\ Worth(d)' = Worth(d)
      BY <2>4 DEF Owing, OwedMap, Owed, Worth, vars, fixed, rows
    <3> QED  BY <2>4, <3>1 DEF CalmInv, CalmRow, CalmReq, Taking, BalanceInv, Customers,
                vars, fixed, rows, money, tallies
  <2> QED  BY <2>1, <2>2, <2>3, <2>4, NextSteps
<1> QED  BY <1>1, <1>2

\* As long as nothing has gone wrong, a deposit that nobody is in the middle of,
\* and that has the amount it was asked for, is in the customer's balance exactly
\* if it was accepted and not voided.
THEOREM DepositBalanceFollowsRows == Spec => []BalanceFollowsRows
<1>1. Init => TypeInv /\ CalmInv /\ BalanceInv
  BY InitTyped, InitCalm
<1>2. TypeInv /\ CalmInv /\ BalanceInv /\ [Next]_vars => (TypeInv /\ CalmInv /\ BalanceInv)'
  BY NextTyped, NextCalm
<1>3. TypeInv /\ BalanceInv => BalanceFollowsRows
  <2> SUFFICES ASSUME TypeInv, BalanceInv, late + faults = 0, NEW d \in Deposit,
                      Customers(d), AtRest(d), amount[d] = original[d]
               PROVE  balance[d] = IF status[d] = "deposit" THEN amount[d] ELSE 0
    BY DEF BalanceFollowsRows
  <2>1. balance[d] = Worth(d) + Owing(d)
    BY DEF BalanceInv
  <2>2. \A r \in Req : OwedMap(d)[r] = 0
    BY DEF OwedMap, Owed, AtRest
  <2>3. Owing(d) = 0
    BY <2>2, FiniteAssumption, SumZero DEF Owing
  <2>4. amount[d] \in Int
    BY Typed, AmountsInt
  <2> QED  BY <2>1, <2>3, <2>4 DEF Worth
<1> QED  BY <1>1, <1>2, <1>3, PTL DEF Spec
==============================================================================
