---------------------------- MODULE InventoryProofs ----------------------------
(***************************************************************************)
(* Proofs about Inventory, for any number of stock items, material         *)
(* requests and requests in flight, and any quantities, negative ones too. *)
(***************************************************************************)
EXTENDS Inventory, FiniteSetTheorems, TLAPS

(* What a request in flight does, by handler: move stock alone, ...        *)
Moves(t) == t.mr = NoMr /\ t.target = NoMr

\* ... submit, reject or approve a material request without touching an item,
Decides(t) ==
    /\ t.mr # NoMr /\ t.target = NoMr /\ t.amount = 0
    /\ \/ t.from = "draft" /\ t.to = "submitted"
       \/ t.from = "submitted" /\ t.to \in {"rejected", "approved"}

\* approve a quantity of an item, perhaps another request's,
Approves(t) ==
    /\ t.target # NoMr /\ t.amount = 0
    /\ t.from = "submitted" /\ t.to = "approved"
    /\ t.given.issued = t.seen.issued

\* issue a request that has nothing to issue,
IssuesNothing(t) ==
    /\ t.mr # NoMr /\ t.target = NoMr /\ t.amount = 0
    /\ t.from = "approved" /\ t.to = "issued"

\* or issue what is approved, and draw it.
Issues(t) ==
    /\ t.mr # NoMr /\ t.target = t.mr
    /\ t.from = "approved" /\ t.to = "issued"
    /\ t.seen.approved > 0
    /\ t.given.approved = t.seen.approved
    /\ t.given.issued = t.seen.approved
    /\ t.amount = -t.seen.approved

Effect(t) == Moves(t) \/ Decides(t) \/ Approves(t) \/ IssuesNothing(t) \/ Issues(t)

\* A request that found no row for the material, and is about to add one.
Adds(t) == t.item # NoItem /\ ~t.loaded.exists

\* What is known of a request in flight that moves stock; one that adds a row
\* found none, and there is still none unless two add one.
StockTxn(r) ==
    txn[r] # NoTxn /\ txn[r].item # NoItem =>
        /\ txn[r].level = txn[r].loaded.onHand + txn[r].amount
        /\ negative \/ txn[r].entered < 0 \/ txn[r].level >= 0
        /\ Adds(txn[r]) \/ txn[r].item \in Stocked
        /\ Adds(txn[r]) => doubled \/ Stocked = {}

\* What is known of one that works on a material request: its status has not gone
\* back behind what was read of it, and nothing was approved after a request
\* found nothing to issue.
MrTxn(r) ==
    txn[r] # NoTxn =>
        /\ Effect(txn[r])
        /\ txn[r].mr # NoMr /\ txn[r].mr \notin crossed =>
              /\ txn[r].from = "submitted" => mr[txn[r].mr] # "draft"
              /\ txn[r].from = "approved" => mr[txn[r].mr] \in {"approved", "issued"}
        /\ /\ IssuesNothing(txn[r]) /\ txn[r].mr \notin crossed \union foreign
           /\ mr[txn[r].mr] = "approved"
           => line[txn[r].mr].approved <= 0

StockInv ==
    /\ OnHandIsLedger
    /\ NeverNegative
    /\ ~doubled => \A x, y \in Stocked : x = y
    /\ \A r \in Requests : StockTxn(r)

MrInv ==
    /\ DrawnOnce
    /\ IssuedAsApproved
    /\ \A r \in Requests : MrTxn(r)

IInv == TypeOK /\ StockInv /\ MrInv

-----------------------------------------------------------------------------

LEMMA InitIInv == Init => IInv
<1> SUFFICES ASSUME Init
             PROVE  IInv
  OBVIOUS
<1>1. TypeOK
  <2>1. NoRow \in Row /\ [approved |-> 0, issued |-> 0] \in Line /\ "draft" \in Status
    BY DEF NoRow, Row, Line, Status
  <2>2. /\ stock \in [StockItems -> Row] /\ ledger \in [StockItems -> Int]
        /\ mr \in [Mrs -> Status] /\ line \in [Mrs -> Line] /\ drawn \in [Mrs -> Int]
        /\ txn \in [Requests -> Txn \union {NoTxn}]
    BY <2>1 DEF Init
  <2> QED BY <2>2 DEF Init, TypeOK
<1>2. Stocked = {}
  BY DEF Init, Stocked, NoRow
<1>3. StockInv
  BY <1>2 DEF Init, StockInv, OnHandIsLedger, NeverNegative, NoRow, StockTxn
<1>4. MrInv
  BY DEF Init, MrInv, DrawnOnce, IssuedAsApproved, MrTxn
<1> QED BY <1>1, <1>3, <1>4 DEF IInv

-----------------------------------------------------------------------------
(* Handlers. *)

\* A request that has only read disturbs nothing, if it is known what it will do.
LEMMA WorkIInv ==
    ASSUME IInv, NEW r \in Requests, NEW t \in Txn, Work(r, t), StockTxn(r)', MrTxn(r)'
    PROVE  IInv'
<1>1. /\ txn' = [txn EXCEPT ![r] = t]
      /\ UNCHANGED <<stock, ledger, mr, line, drawn, stale, doubled, crossed, foreign, negative>>
  BY DEF Work
<1>2. txn \in [Requests -> Txn \union {NoTxn}]
  BY DEF IInv, TypeOK
<1>3. TypeOK'
  BY <1>1, <1>2 DEF IInv, TypeOK
<1>4. \A q \in Requests \ {r} : txn'[q] = txn[q]
  BY <1>1, <1>2
<1>5. Stocked' = Stocked
  BY <1>1 DEF Stocked
<1>6. StockInv'
  <2>1. OnHandIsLedger' /\ NeverNegative'
    BY <1>1 DEF IInv, StockInv, OnHandIsLedger, NeverNegative
  <2>2. ASSUME NEW q \in Requests \ {r}
        PROVE  StockTxn(q)'
    BY <1>1, <1>4, <1>5 DEF IInv, StockInv, StockTxn
  <2> QED BY <1>1, <1>5, <2>1, <2>2 DEF IInv, StockInv
<1>7. MrInv'
  <2>1. DrawnOnce' /\ IssuedAsApproved'
    BY <1>1 DEF IInv, MrInv, DrawnOnce, IssuedAsApproved
  <2>2. ASSUME NEW q \in Requests \ {r}
        PROVE  MrTxn(q)'
    BY <1>1, <1>4 DEF IInv, MrInv, MrTxn
  <2> QED BY <2>1, <2>2 DEF MrInv
<1> QED BY <1>3, <1>6, <1>7 DEF IInv

LEMMA IdleType ==
    /\ Idle \in Txn
    /\ Idle.item = NoItem /\ Idle.amount = 0 /\ Idle.mr = NoMr /\ Idle.target = NoMr
    /\ Idle.entered = 0
BY DEF Idle, Txn, NoRow, Row, Line, Status

\* What Moved adds to a transaction, and what it leaves.
LEMMA MovedType ==
    ASSUME TypeOK, NEW t \in Txn, NEW s \in StockItems, NEW q \in Int
    PROVE  LET u == Moved(t, s, q) IN
           /\ u \in Txn
           /\ u.item = s /\ u.loaded = stock[s] /\ u.amount = q
           /\ u.level = stock[s].onHand + q
           /\ u.mr = t.mr /\ u.from = t.from /\ u.to = t.to
           /\ u.target = t.target /\ u.seen = t.seen /\ u.given = t.given
           /\ u.entered = t.entered
<1>1. stock[s] \in Row /\ stock[s].onHand \in Int
  BY DEF TypeOK, Row
<1>2. stock[s].onHand + q \in Int
  BY <1>1
<1> HIDE DEF Row
<1> QED BY <1>1, <1>2 DEF Moved, Txn

LEMMA StockStepIInv ==
    ASSUME IInv, NEW r \in Requests, NEW s \in StockItems, NEW q \in Quantities,
           StockIn(r, s, q) \/ StockOut(r, s, q)
    PROVE  IInv'
<1>1. q \in Int /\ -q \in Int
  BY QuantitiesAssumption
<1>2. PICK a \in Int :
         /\ StockItem(s)
         /\ Work(r, [Moved(Idle, s, a) EXCEPT !.entered = q])
         /\ \/ a = q
            \/ a = -q /\ q <= stock[s].onHand
  BY <1>1 DEF StockIn, StockOut
<1> DEFINE u == Moved(Idle, s, a)
           t == [u EXCEPT !.entered = q]
<1>3. /\ u \in Txn /\ u.item = s /\ u.loaded = stock[s] /\ u.amount = a
      /\ u.level = stock[s].onHand + a /\ u.mr = NoMr /\ u.target = NoMr
  BY MovedType, IdleType DEF IInv
<1> HIDE DEF u
<1>4. /\ t \in Txn /\ t.item = s /\ t.loaded = stock[s] /\ t.amount = a
      /\ t.level = stock[s].onHand + a /\ t.mr = NoMr /\ t.target = NoMr
      /\ t.entered = q
  BY <1>1, <1>3 DEF Txn
<1>5. Work(r, t)
  BY <1>2 DEF u
<1> HIDE DEF t
<1>6. txn'[r] = t /\ Stocked' = Stocked /\ doubled' = doubled /\ negative' = negative
  BY <1>5 DEF Work, Stocked, IInv, TypeOK
<1>7. StockTxn(r)'
  <2>1. negative \/ stock[s].onHand >= 0
    BY DEF IInv, StockInv, NeverNegative
  <2>2. stock[s].onHand \in Int /\ (stock[s].exists <=> s \in Stocked)
    BY DEF IInv, TypeOK, Row, Stocked
  <2>3. negative \/ t.entered < 0 \/ t.level >= 0
    BY <1>1, <1>2, <1>4, <2>1, <2>2
  <2>4. Adds(t) => Stocked = {}
    BY <1>2, <1>4, <2>2 DEF Adds, StockItem
  <2>5. Adds(t) \/ s \in Stocked
    BY <1>4, <2>2, NoneAssumption DEF Adds
  <2> QED BY <1>4, <1>6, <2>3, <2>4, <2>5 DEF StockTxn
<1>8. MrTxn(r)'
  BY <1>4, <1>6 DEF MrTxn, Effect, Moves, IssuesNothing
<1> QED BY <1>4, <1>5, <1>7, <1>8, WorkIInv

LEMMA MovingType ==
    ASSUME NEW m \in Mrs \union {NoMr}, NEW from \in Status, NEW to \in Status
    PROVE  LET u == Moving(m, from, to) IN
           /\ u \in Txn
           /\ u.item = NoItem /\ u.amount = 0 /\ u.mr = m /\ u.from = from /\ u.to = to
           /\ u.target = NoMr /\ u.entered = 0
BY IdleType DEF Moving, Txn

\* A step that changes the status of a material request and touches no stock.
LEMMA StatusStepIInv ==
    ASSUME IInv, NEW r \in Requests, NEW t \in Txn, Work(r, t),
           t.item = NoItem, t.mr \in Mrs => mr[t.mr] = t.from,
           \/ Decides(t) \/ Approves(t)
           \/ IssuesNothing(t) /\ line[t.mr].approved <= 0
    PROVE  IInv'
<1>1. /\ txn'[r] = t
      /\ UNCHANGED <<mr, line, crossed, foreign>>
  BY DEF Work, IInv, TypeOK
<1>2. StockTxn(r)'
  BY <1>1 DEF StockTxn
<1>3. MrTxn(r)'
  <2>1. Effect(t)
    BY DEF Effect
  <2>2. t.mr # NoMr =>
           /\ t.from = "submitted" => mr[t.mr] # "draft"
           /\ t.from = "approved" => mr[t.mr] \in {"approved", "issued"}
    BY DEF Txn
  <2>3. IssuesNothing(t) => line[t.mr].approved <= 0
    BY DEF Decides, Approves, IssuesNothing
  <2> QED BY <1>1, <2>1, <2>2, <2>3 DEF MrTxn
<1> QED BY <1>2, <1>3, WorkIInv

LEMMA DecideIInv ==
    ASSUME IInv, NEW r \in Requests, NEW m \in Mrs,
           SubmitMr(r, m) \/ RejectMr(r, m) \/ ApproveMrEmpty(r, m)
    PROVE  IInv'
<1>1. PICK from \in Status, to \in Status :
         /\ mr[m] = from
         /\ Work(r, Moving(m, from, to))
         /\ \/ from = "draft" /\ to = "submitted"
            \/ from = "submitted" /\ to \in {"rejected", "approved"}
  BY DEF SubmitMr, RejectMr, ApproveMrEmpty, Status
<1> DEFINE t == Moving(m, from, to)
<1>2. /\ t \in Txn /\ t.item = NoItem /\ t.amount = 0 /\ t.mr = m
      /\ t.from = from /\ t.to = to /\ t.target = NoMr
  BY MovingType
<1>3. Work(r, t)
  BY <1>1
<1> HIDE DEF t
<1>4. Decides(t)
  BY <1>1, <1>2, NoneAssumption DEF Decides
<1> QED BY <1>1, <1>2, <1>3, <1>4, StatusStepIInv

LEMMA ApproveMrIInv ==
    ASSUME IInv, NEW r \in Requests, NEW m \in Mrs \union {NoMr}, NEW target \in Mrs,
           NEW q \in Approvals, ApproveMr(r, m, target, q)
    PROVE  IInv'
<1> DEFINE u == Moving(m, "submitted", "approved")
           given == [line[target] EXCEPT !.approved = q]
           t == [u EXCEPT !.target = target, !.seen = line[target], !.given = given]
<1>1. /\ u \in Txn /\ u.item = NoItem /\ u.amount = 0 /\ u.mr = m
      /\ u.from = "submitted" /\ u.to = "approved"
  BY MovingType DEF Status
<1>2. line[target] \in Line /\ given \in Line /\ given.issued = line[target].issued
  BY QuantitiesAssumption DEF IInv, TypeOK, Line
<1>3. Work(r, t) /\ (m # NoMr => mr[m] = "submitted")
  BY DEF ApproveMr
<1> HIDE DEF u, given
<1>4. /\ t \in Txn /\ t.item = NoItem /\ t.amount = 0 /\ t.mr = m
      /\ t.from = "submitted" /\ t.to = "approved"
      /\ t.target = target /\ t.seen = line[target] /\ t.given = given
  BY <1>1, <1>2 DEF Txn
<1> HIDE DEF t
<1>5. Approves(t)
  BY <1>2, <1>4, NoneAssumption DEF Approves
<1>6. t.mr \in Mrs => mr[t.mr] = t.from
  BY <1>3, <1>4, NoneAssumption
<1> QED BY <1>3, <1>4, <1>5, <1>6, StatusStepIInv

LEMMA IssueMrIInv ==
    ASSUME IInv, NEW r \in Requests, NEW m \in Mrs, NEW s \in StockItems,
           IssueMr(r, m, s)
    PROVE  IInv'
<1> DEFINE u == Moving(m, "approved", "issued")
           q == line[m].approved
<1>1. /\ u \in Txn /\ u.item = NoItem /\ u.amount = 0 /\ u.mr = m /\ u.target = NoMr
      /\ u.from = "approved" /\ u.to = "issued" /\ u.entered = 0
  BY MovingType DEF Status
<1>2. line[m] \in Line /\ q \in Int /\ -q \in Int
  BY DEF IInv, TypeOK, Line
<1>3. mr[m] = "approved"
  BY DEF IssueMr
<1>4. CASE q <= 0
  <2>1. Work(r, u)
    BY <1>2, <1>4 DEF IssueMr
  <2> HIDE DEF u
  <2>2. IssuesNothing(u)
    BY <1>1, NoneAssumption DEF IssuesNothing
  <2> QED BY <1>1, <1>3, <1>4, <2>1, <2>2, StatusStepIInv
<1>5. CASE q > 0
  <2> DEFINE v == Moved(u, s, -q)
             given == [line[m] EXCEPT !.issued = q]
             t == [v EXCEPT !.target = m, !.seen = line[m], !.given = given]
  <2>1. StockItem(s) /\ q <= stock[s].onHand /\ Work(r, t)
    BY <1>5 DEF IssueMr
  <2> HIDE DEF u
  <2>2. /\ v \in Txn /\ v.item = s /\ v.loaded = stock[s] /\ v.amount = -q
        /\ v.level = stock[s].onHand + (-q) /\ v.mr = m
        /\ v.from = "approved" /\ v.to = "issued" /\ v.entered = 0
    BY <1>1, <1>2, MovedType DEF IInv
  <2> HIDE DEF v
  <2>3. given \in Line /\ given.approved = q /\ given.issued = q
    BY <1>2 DEF Line
  <2> HIDE DEF given
  <2>4. /\ t \in Txn /\ t.item = s /\ t.loaded = stock[s] /\ t.amount = -q
        /\ t.level = stock[s].onHand - q /\ t.mr = m
        /\ t.from = "approved" /\ t.to = "issued" /\ t.entered = 0
        /\ t.target = m /\ t.seen = line[m] /\ t.given = given
    BY <1>2, <2>2, <2>3 DEF Txn
  <2> HIDE DEF t
  <2>5. /\ txn'[r] = t /\ Stocked' = Stocked
        /\ UNCHANGED <<doubled, negative, mr, line, crossed, foreign>>
    BY <2>1 DEF Work, Stocked, IInv, TypeOK
  <2>6. StockTxn(r)'
    <3>1. stock[s].onHand \in Int /\ (stock[s].exists <=> s \in Stocked)
      BY DEF IInv, TypeOK, Row, Stocked
    <3>2. t.level >= 0 /\ t.level = t.loaded.onHand + t.amount
      BY <1>2, <2>1, <2>4, <3>1
    <3>3. Adds(t) => Stocked = {}
      BY <2>1, <2>4, <3>1 DEF Adds, StockItem
    <3>4. Adds(t) \/ s \in Stocked
      BY <2>4, <3>1, NoneAssumption DEF Adds
    <3> QED BY <2>4, <2>5, <3>2, <3>3, <3>4 DEF StockTxn
  <2>7. MrTxn(r)'
    <3>1. Issues(t)
      BY <1>5, <2>3, <2>4, NoneAssumption DEF Issues
    <3>2. ~IssuesNothing(t)
      BY <2>4, NoneAssumption DEF IssuesNothing
    <3> QED BY <1>3, <2>4, <2>5, <3>1, <3>2 DEF MrTxn, Effect
  <2> QED BY <2>1, <2>4, <2>6, <2>7, WorkIInv
<1> QED BY <1>2, <1>4, <1>5

-----------------------------------------------------------------------------
(* The commit. *)

\* A flush writes the quantity the request has worked out, or what it left alone
\* and was never below zero.
LEMMA FlushType ==
    ASSUME TypeOK, NEW t \in Txn, t.item # NoItem
    PROVE  /\ Flush(t) \in Row /\ Flush(t).exists
           /\ Flush(t).onHand \in {t.level, stock[t.item].onHand}
           /\ stock[t.item] = t.loaded => Flush(t).onHand = t.level
<1>1. t.item \in StockItems /\ t.level \in Int /\ t.loaded \in Row /\ stock[t.item] \in Row
  BY DEF Txn, TypeOK
<1> QED BY <1>1 DEF Flush, Flushed, Row

LEMMA CommitType ==
    ASSUME IInv, NEW r \in Requests, Commit(r)
    PROVE  TypeOK'
<1> DEFINE t == txn[r]
<1>1. t \in Txn /\ t # NoTxn
  BY DEF Commit, IInv, TypeOK
<1>2. TypeOK
  BY DEF IInv
<1>3. stock' \in [StockItems -> Row] /\ ledger' \in [StockItems -> Int]
  <2>1. CASE t.item = NoItem
    BY <1>2, <2>1 DEF Commit, CommitStock, TypeOK
  <2>2. CASE t.item # NoItem
    <3>1. stock' = [stock EXCEPT ![t.item] = Flush(t)]
          /\ ledger' = [ledger EXCEPT ![t.item] = @ + t.amount]
      BY <2>2 DEF Commit, CommitStock
    <3>2. Flush(t) \in Row
      BY <1>1, <1>2, <2>2, FlushType
    <3>3. t.amount \in Int /\ t.item \in StockItems
      BY <1>1, <2>2 DEF Txn
    <3> HIDE DEF t
    <3>4. ledger[t.item] + t.amount \in Int
      BY <1>2, <3>3 DEF TypeOK
    <3> QED BY <1>2, <3>1, <3>2, <3>4 DEF TypeOK
  <2> QED BY <2>1, <2>2
<1>4. line' \in [Mrs -> Line]
  <2>1. CASE t.target = NoMr
    BY <1>2, <2>1 DEF Commit, CommitLine, TypeOK
  <2>2. CASE t.target # NoMr
    <3>1. line' = [line EXCEPT
            ![t.target].approved = Flushed(t.seen.approved, t.given.approved, @),
            ![t.target].issued = Flushed(t.seen.issued, t.given.issued, @)]
      BY <2>2 DEF Commit, CommitLine
    <3>2. t.seen \in Line /\ t.given \in Line /\ t.target \in Mrs
      BY <1>1, <2>2 DEF Txn
    <3> HIDE DEF t
    <3> QED BY <1>2, <3>1, <3>2 DEF TypeOK, Line, Flushed
  <2> QED BY <2>1, <2>2
<1>5. mr' \in [Mrs -> Status] /\ drawn' \in [Mrs -> Int]
  <2>1. t.to \in Status /\ t.amount \in Int /\ t.mr \in Mrs \union {NoMr}
    BY <1>1 DEF Txn
  <2>2. IF t.mr = NoMr
        THEN UNCHANGED <<mr, drawn>>
        ELSE /\ mr' = [mr EXCEPT ![t.mr] = t.to]
             /\ drawn' = [drawn EXCEPT ![t.mr] = @ - t.amount]
    BY DEF Commit
  <2> HIDE DEF t
  <2> QED BY <1>2, <2>1, <2>2 DEF TypeOK
<1>6. txn' \in [Requests -> Txn \union {NoTxn}]
  BY <1>2 DEF Commit, TypeOK
<1>7. stale' \subseteq StockItems /\ doubled' \in BOOLEAN
  BY <1>1, <1>2, ZenonT(60) DEF Commit, CommitStock, TypeOK, Txn
<1>8. crossed' \subseteq Mrs /\ foreign' \subseteq Mrs /\ negative' \in BOOLEAN
  BY <1>1, <1>2 DEF Commit, TypeOK, Txn
<1> QED BY <1>3, <1>4, <1>5, <1>6, <1>7, <1>8 DEF TypeOK

LEMMA CommitStockInv ==
    ASSUME IInv, NEW r \in Requests, Commit(r)
    PROVE  StockInv'
<1> DEFINE t == txn[r]
           s == t.item
<1>1. t \in Txn /\ t # NoTxn /\ TypeOK
  BY DEF Commit, IInv, TypeOK
<1>2. /\ txn' = [txn EXCEPT ![r] = NoTxn]
      /\ negative' = (negative \/ t.entered < 0)
  BY DEF Commit
<1>3. StockTxn(r) /\ OnHandIsLedger /\ NeverNegative
  BY DEF IInv, StockInv
<1>4. ASSUME NEW q \in Requests, txn'[q] # NoTxn
      PROVE  q # r /\ txn'[q] = txn[q] /\ txn[q] # NoTxn /\ txn[q] \in Txn
  BY <1>1, <1>2, <1>4 DEF TypeOK
<1>5. CASE s = NoItem
  <2>1. UNCHANGED <<stock, ledger, stale, doubled>>
    BY <1>5 DEF Commit, CommitStock
  <2>2. Stocked' = Stocked
    BY <2>1 DEF Stocked
  <2>3. OnHandIsLedger' /\ NeverNegative'
    BY <1>2, <1>3, <2>1 DEF OnHandIsLedger, NeverNegative
  <2>4. negative => negative'
    BY <1>2
  <2>5. ASSUME NEW q \in Requests
        PROVE  StockTxn(q)'
    <3>1. CASE txn'[q] = NoTxn
      BY <3>1 DEF StockTxn
    <3>2. CASE txn'[q] # NoTxn
      <4>1. txn'[q] = txn[q] /\ StockTxn(q)
        BY <1>4, <3>2 DEF IInv, StockInv
      <4> QED BY <2>1, <2>2, <2>4, <4>1 DEF StockTxn, Adds
    <3> QED BY <3>1, <3>2
  <2> QED BY <2>1, <2>2, <2>3, <2>5 DEF StockInv, IInv
<1>6. CASE s # NoItem
  <2>1. /\ s \in StockItems /\ t.level \in Int /\ t.amount \in Int /\ t.loaded \in Row
        /\ t.loaded.exists \in BOOLEAN /\ t.entered \in Int
    BY <1>1, <1>6 DEF Txn, Row
  <2>2. /\ stock' = [stock EXCEPT ![s] = Flush(t)]
        /\ ledger' = [ledger EXCEPT ![s] = @ + t.amount]
        /\ stale' = IF stock[s] = t.loaded THEN stale ELSE stale \union {s}
        /\ doubled' = (doubled \/ (r \in Adding /\ Adding # {r}))
    BY <1>6 DEF Commit, CommitStock
  <2>3. /\ Flush(t) \in Row /\ Flush(t).exists
        /\ Flush(t).onHand \in {t.level, stock[s].onHand}
        /\ stock[s] = t.loaded => Flush(t).onHand = t.level
    BY <1>1, <1>6, FlushType
  <2>4. /\ stock'[s] = Flush(t) /\ \A x \in StockItems \ {s} : stock'[x] = stock[x]
        /\ ledger'[s] = ledger[s] + t.amount /\ \A x \in StockItems \ {s} : ledger'[x] = ledger[x]
    BY <1>1, <2>1, <2>2 DEF TypeOK
  <2>5. /\ t.level = t.loaded.onHand + t.amount
        /\ negative \/ t.entered < 0 \/ t.level >= 0
        /\ Adds(t) \/ s \in Stocked
        /\ Adds(t) => doubled \/ Stocked = {}
    BY <1>1, <1>3, <1>6 DEF StockTxn
  <2>6. r \in Adding <=> Adds(t)
    BY <1>1 DEF Adding, Adds
  <2>7. ASSUME NEW q \in Requests, txn'[q] # NoTxn, Adds(txn'[q])
        PROVE  q \in Adding /\ q # r
    BY <1>4, <2>7 DEF Adding, Adds
  <2> HIDE DEF t, s
  <2>8. Stocked' = Stocked \union {s}
    BY <2>1, <2>3, <2>4 DEF Stocked
  <2>9. OnHandIsLedger'
    <3> SUFFICES ASSUME NEW x \in StockItems \ stale'
                 PROVE  stock'[x].onHand = ledger'[x]
      BY DEF OnHandIsLedger
    <3>1. x \notin stale /\ stock[x].onHand = ledger[x]
      BY <1>3, <2>2 DEF OnHandIsLedger
    <3>2. CASE x = s
      <4>1. stock[s] = t.loaded
        BY <2>2, <3>2
      <4> QED BY <2>3, <2>4, <2>5, <3>1, <3>2, <4>1
    <3> QED BY <2>4, <3>1, <3>2
  <2>10. NeverNegative'
    BY <1>2, <1>3, <2>1, <2>3, <2>4, <2>5 DEF NeverNegative
  <2>11. ASSUME ~doubled'
         PROVE  \A x, y \in Stocked' : x = y
    <3>1. ~doubled
      BY <2>2, <2>11
    <3> QED BY <2>5, <2>8, <3>1 DEF IInv, StockInv
  <2>12. ASSUME NEW q \in Requests
         PROVE  StockTxn(q)'
    <3> SUFFICES ASSUME txn'[q] # NoTxn, txn'[q].item # NoItem
                 PROVE  /\ txn'[q].level = txn'[q].loaded.onHand + txn'[q].amount
                        /\ negative' \/ txn'[q].entered < 0 \/ txn'[q].level >= 0
                        /\ Adds(txn'[q]) \/ txn'[q].item \in Stocked'
                        /\ Adds(txn'[q]) => doubled' \/ Stocked' = {}
      BY DEF StockTxn, Adds
    <3>1. q # r /\ txn'[q] = txn[q] /\ txn[q] # NoTxn /\ StockTxn(q)
      BY <1>4 DEF IInv, StockInv
    <3>2. /\ txn'[q].level = txn'[q].loaded.onHand + txn'[q].amount
          /\ negative' \/ txn'[q].entered < 0 \/ txn'[q].level >= 0
          /\ Adds(txn'[q]) \/ txn'[q].item \in Stocked'
      <4>1. negative => negative'
        BY <1>2
      <4> QED BY <2>8, <3>1, <4>1 DEF StockTxn, Adds
    <3>3. ASSUME Adds(txn'[q]), ~doubled'
          PROVE  FALSE
      <4>1. q \in Adding /\ q # r /\ ~doubled /\ Stocked = {}
        BY <2>2, <2>7, <3>1, <3>3 DEF StockTxn
      <4>2. Adds(t)
        BY <2>5, <4>1
      <4> QED BY <2>2, <2>6, <3>3, <4>1, <4>2
    <3> QED BY <3>2, <3>3
  <2> QED BY <2>9, <2>10, <2>11, <2>12 DEF StockInv
<1> QED BY <1>5, <1>6

LEMMA CommitMrInv ==
    ASSUME IInv, NEW r \in Requests, Commit(r)
    PROVE  MrInv'
<1> DEFINE t == txn[r]
           m == t.mr
           a == t.target
<1>1. t \in Txn /\ t # NoTxn /\ TypeOK
  BY DEF Commit, IInv, TypeOK
<1>2. /\ txn' = [txn EXCEPT ![r] = NoTxn]
      /\ crossed' = crossed
            \union {x \in {m} \ {NoMr} : mr[x] # t.from}
            \union {x \in {a} \ {NoMr} : line[x] # t.seen}
      /\ foreign' = foreign \union ({a} \ {m, NoMr})
  BY DEF Commit
<1>3. /\ m \in Mrs \union {NoMr} /\ a \in Mrs \union {NoMr} /\ t.amount \in Int
      /\ t.from \in Status /\ t.to \in Status /\ t.seen \in Line /\ t.given \in Line
  BY <1>1 DEF Txn
<1>4. Effect(t) /\ DrawnOnce /\ IssuedAsApproved
  BY <1>1 DEF IInv, MrInv, MrTxn
<1>5. /\ m = NoMr => mr' = mr /\ drawn' = drawn
      /\ m # NoMr => /\ mr' = [mr EXCEPT ![m] = t.to]
                     /\ drawn' = [drawn EXCEPT ![m] = @ - t.amount]
  BY DEF Commit
<1>6. /\ a = NoMr => line' = line
      /\ a # NoMr => line' = [line EXCEPT
            ![a].approved = Flushed(t.seen.approved, t.given.approved, @),
            ![a].issued = Flushed(t.seen.issued, t.given.issued, @)]
  BY DEF Commit, CommitLine
<1>7. \A q \in Requests : txn'[q] # NoTxn => q # r /\ txn'[q] = txn[q]
  BY <1>1, <1>2 DEF TypeOK
<1>8. ASSUME NEW q \in Requests
      PROVE  MrTxn(q)
  BY DEF IInv, MrInv
<1>9. MrTxn(r)
  BY <1>8
<1>10. /\ m # NoMr /\ m \notin crossed /\ t.from = "submitted" => mr[m] # "draft"
       /\ m # NoMr /\ m \notin crossed /\ t.from = "approved" => mr[m] \in {"approved", "issued"}
       /\ IssuesNothing(t) /\ m \notin crossed \union foreign /\ mr[m] = "approved"
             => line[m].approved <= 0
  BY <1>1, <1>9 DEF MrTxn
<1> HIDE DEF t, m, a
<1>11. \A x \in Mrs : /\ mr[x] \in Status /\ line[x] \in Line /\ drawn[x] \in Int
                      /\ line[x].approved \in Int /\ line[x].issued \in Int
  BY <1>1 DEF TypeOK, Line
\* What the commit does to a material request nothing has crossed.
<1>12. ASSUME NEW x \in Mrs
       PROVE  /\ mr'[x] = IF x = m THEN t.to ELSE mr[x]
              /\ drawn'[x] = IF x = m THEN drawn[x] - t.amount ELSE drawn[x]
  <2>1. x # NoMr /\ mr \in [Mrs -> Status] /\ drawn \in [Mrs -> Int]
    BY <1>1, NoneAssumption DEF TypeOK
  <2>2. CASE m = NoMr
    BY <1>5, <2>1, <2>2
  <2>3. CASE m # NoMr
    BY <1>3, <1>5, <2>1, <2>3
  <2> QED BY <2>2, <2>3
<1>13. ASSUME NEW x \in Mrs
       PROVE  /\ x # a => line'[x] = line[x]
              /\ x = a =>
                    /\ line'[x].approved =
                          Flushed(t.seen.approved, t.given.approved, line[x].approved)
                    /\ line'[x].issued =
                          Flushed(t.seen.issued, t.given.issued, line[x].issued)
  <2>1. CASE a = NoMr
    BY <1>6, <2>1, NoneAssumption
  <2>2. CASE a # NoMr
    <3> DEFINE approved == Flushed(t.seen.approved, t.given.approved, line[a].approved)
               issued == Flushed(t.seen.issued, t.given.issued, line[a].issued)
    <3> HIDE DEF approved, issued
    <3>1. a \in Mrs /\ line[a] \in Line /\ line \in [Mrs -> Line]
      BY <1>1, <1>3, <2>2 DEF TypeOK
    <3>2. line' = [line EXCEPT ![a].approved = approved, ![a].issued = issued]
      BY <1>6, <2>2 DEF approved, issued
    <3>3. /\ line'[a].approved = approved /\ line'[a].issued = issued
          /\ x # a => line'[x] = line[x]
      BY <3>1, <3>2 DEF Line
    <3> QED BY <3>3 DEF approved, issued
  <2> QED BY <2>1, <2>2
<1>14. ASSUME NEW x \in Mrs \ crossed'
       PROVE  /\ x \notin crossed
              /\ x = m => mr[x] = t.from
              /\ x = a => line[x] = t.seen
  BY <1>2, NoneAssumption
<1>15. ASSUME NEW x \in Mrs \ foreign'
       PROVE  x \notin foreign /\ (x = a => x = m)
  BY <1>2, NoneAssumption
<1>16. DrawnOnce'
  <2> SUFFICES ASSUME NEW x \in Mrs \ crossed'
               PROVE  drawn'[x] = line'[x].issued /\ (mr'[x] # "issued" => drawn'[x] = 0)
    BY DEF DrawnOnce
  <2>1. x \notin crossed /\ drawn[x] = line[x].issued /\ (mr[x] # "issued" => drawn[x] = 0)
    BY <1>4, <1>14 DEF DrawnOnce
  <2>2. CASE x = m /\ Issues(t)
    <3>1. mr[x] = "approved" /\ line[x] = t.seen /\ x = a
      BY <1>14, <2>2 DEF Issues, m, a
    <3>2. /\ drawn'[x] = t.seen.approved /\ mr'[x] = "issued"
          /\ line'[x].issued = Flushed(t.seen.issued, t.seen.approved, t.seen.issued)
      BY <1>3, <1>11, <1>12, <1>13, <2>1, <2>2, <3>1 DEF Issues
    <3> QED BY <3>2 DEF Flushed
  <2>3. CASE ~(x = m /\ Issues(t))
    <3>1. x = m => t.amount = 0 /\ mr[x] # "issued"
      BY <1>3, <1>4, <1>14, <2>3, NoneAssumption
         DEF Effect, Moves, Decides, Approves, IssuesNothing, m
    <3>2. drawn'[x] = drawn[x] /\ (x = m => drawn[x] = 0)
      BY <1>3, <1>11, <1>12, <2>1, <3>1
    <3>3. line'[x].issued = line[x].issued
      <4>1. x = a => t.given.issued = t.seen.issued
        BY <1>4, <2>3, NoneAssumption DEF Effect, Moves, Decides, Approves, IssuesNothing, Issues,
           m, a
      <4> QED BY <1>13, <4>1 DEF Flushed
    <3> QED BY <1>12, <2>1, <3>2, <3>3
  <2> QED BY <2>2, <2>3
<1>17. IssuedAsApproved'
  <2> SUFFICES ASSUME NEW x \in Mrs \ (crossed' \union foreign'), mr'[x] = "issued"
               PROVE  line'[x].issued = IF line'[x].approved > 0 THEN line'[x].approved ELSE 0
    BY DEF IssuedAsApproved
  <2>1. /\ x \notin crossed \union foreign /\ (x = a => x = m)
        /\ mr[x] = "issued" => line[x].issued = IF line[x].approved > 0
                                                THEN line[x].approved ELSE 0
        /\ drawn[x] = line[x].issued /\ (mr[x] # "issued" => drawn[x] = 0)
    BY <1>4, <1>14, <1>15 DEF IssuedAsApproved, DrawnOnce
  <2>2. CASE x # m
    BY <1>12, <1>13, <2>1, <2>2
  <2>3. CASE x = m
    <3>1. mr[x] = t.from /\ t.to = "issued" /\ m # NoMr
      BY <1>12, <1>14, <2>3, NoneAssumption
    <3>2. CASE Issues(t)
      <4>1. x = a /\ line[x] = t.seen /\ t.seen.approved > 0
        BY <1>14, <2>3, <3>2 DEF Issues, m, a
      <4>2. line'[x].approved = t.seen.approved /\ line'[x].issued = t.seen.approved
        BY <1>13, <3>2, <4>1 DEF Flushed, Issues
      <4> QED BY <4>1, <4>2
    <3>3. CASE IssuesNothing(t)
      <4>1. mr[x] = "approved" /\ line'[x] = line[x]
        BY <1>13, <2>3, <3>1, <3>3, NoneAssumption DEF IssuesNothing, a
      <4>2. line[x].approved <= 0 /\ line[x].issued = 0
        BY <1>10, <2>1, <2>3, <3>3, <4>1
      <4> QED BY <1>11, <4>1, <4>2
    <3>4. Issues(t) \/ IssuesNothing(t)
      BY <1>4, <3>1 DEF Effect, Moves, Decides, Approves, m
    <3> QED BY <3>2, <3>3, <3>4
  <2> QED BY <2>2, <2>3
<1>18. ASSUME NEW q \in Requests
       PROVE  MrTxn(q)'
  <2> DEFINE u == txn[q]
             x == u.mr
  <2> SUFFICES ASSUME txn'[q] # NoTxn
               PROVE  MrTxn(q)'
    BY DEF MrTxn
  <2>1. q # r /\ txn'[q] = u /\ u # NoTxn /\ Effect(u)
    BY <1>7, <1>8 DEF MrTxn
  <2>2. u \in Txn /\ x \in Mrs \union {NoMr}
    BY <1>1, <2>1 DEF TypeOK, Txn
  <2>3. /\ x # NoMr /\ x \notin crossed =>
              /\ u.from = "submitted" => mr[x] # "draft"
              /\ u.from = "approved" => mr[x] \in {"approved", "issued"}
        /\ IssuesNothing(u) /\ x \notin crossed \union foreign /\ mr[x] = "approved" =>
              line[x].approved <= 0
    BY <1>8, <2>1 DEF MrTxn
  <2> HIDE DEF u, x
  <2>4. ASSUME x # NoMr, x \notin crossed'
        PROVE  /\ u.from = "submitted" => mr'[x] # "draft"
               /\ u.from = "approved" => mr'[x] \in {"approved", "issued"}
    <3>1. x \in Mrs /\ x \notin crossed /\ (x = m => mr[x] = t.from)
      BY <1>14, <2>2, <2>4
    <3>2. x = m => /\ t.to # "draft"
                   /\ t.from \in {"approved", "issued"} => t.to \in {"approved", "issued"}
      BY <1>3, <1>4, <2>4 DEF Effect, Moves, Decides, Approves, IssuesNothing, Issues, m
    <3> QED BY <1>12, <2>3, <2>4, <3>1, <3>2
  <2>5. ASSUME IssuesNothing(u), x \notin crossed' \union foreign', mr'[x] = "approved"
        PROVE  line'[x].approved <= 0
    <3>1. x \in Mrs /\ x # NoMr /\ u.from = "approved"
      BY <2>2, <2>5 DEF IssuesNothing, x
    <3>2. /\ x \notin crossed \union foreign
          /\ x = m => mr[x] = t.from
          /\ x = a => x = m /\ line[x] = t.seen
      BY <1>14, <1>15, <2>5, <3>1
    <3>3. mr[x] \in {"approved", "issued"}
      BY <2>3, <3>1, <3>2
    <3>4. x # m
      <4>1. x = m => t.from \in {"approved", "issued"} /\ t.to = "approved"
        BY <1>12, <2>5, <3>1, <3>2, <3>3
      <4> QED BY <1>4, <3>1, <4>1 DEF Effect, Moves, Decides, Approves, IssuesNothing, Issues, m
    <3>5. mr'[x] = mr[x] /\ line'[x] = line[x]
      BY <1>12, <1>13, <3>1, <3>2, <3>4
    <3> QED BY <2>3, <2>5, <3>2, <3>5
  <2> QED BY <2>1, <2>4, <2>5 DEF MrTxn, u, x
<1> QED BY <1>16, <1>17, <1>18 DEF MrInv

LEMMA CommitIInv ==
    ASSUME IInv, NEW r \in Requests, Commit(r)
    PROVE  IInv'
BY CommitType, CommitStockInv, CommitMrInv DEF IInv

LEMMA RollbackIInv ==
    ASSUME IInv, NEW r \in Requests, Rollback(r)
    PROVE  IInv'
<1>1. /\ txn' = [txn EXCEPT ![r] = NoTxn]
      /\ UNCHANGED <<stock, ledger, mr, line, drawn, stale, doubled, crossed, foreign, negative>>
  BY DEF Rollback
<1>2. txn \in [Requests -> Txn \union {NoTxn}]
  BY DEF IInv, TypeOK
<1>3. TypeOK'
  BY <1>1, <1>2 DEF IInv, TypeOK
<1>4. txn'[r] = NoTxn /\ \A q \in Requests \ {r} : txn'[q] = txn[q]
  BY <1>1, <1>2
<1>5. Stocked' = Stocked
  BY <1>1 DEF Stocked
<1>6. StockInv'
  <2>1. OnHandIsLedger' /\ NeverNegative'
    BY <1>1 DEF IInv, StockInv, OnHandIsLedger, NeverNegative
  <2>2. ASSUME NEW q \in Requests
        PROVE  StockTxn(q)'
    BY <1>1, <1>4, <1>5 DEF IInv, StockInv, StockTxn
  <2> QED BY <1>1, <1>5, <2>1, <2>2 DEF IInv, StockInv
<1>7. MrInv'
  <2>1. DrawnOnce' /\ IssuedAsApproved'
    BY <1>1 DEF IInv, MrInv, DrawnOnce, IssuedAsApproved
  <2>2. ASSUME NEW q \in Requests
        PROVE  MrTxn(q)'
    BY <1>1, <1>4 DEF IInv, MrInv, MrTxn
  <2> QED BY <2>1, <2>2 DEF MrInv
<1> QED BY <1>3, <1>6, <1>7 DEF IInv

LEMMA StutterIInv == IInv /\ UNCHANGED vars => IInv'
<1> SUFFICES ASSUME IInv, UNCHANGED vars
             PROVE  IInv'
  OBVIOUS
<1>1. TypeOK'
  BY DEF IInv, TypeOK, vars
<1>2. StockInv'
  BY DEF IInv, StockInv, OnHandIsLedger, NeverNegative, StockTxn, Stocked, vars
<1>3. MrInv'
  BY DEF IInv, MrInv, DrawnOnce, IssuedAsApproved, MrTxn, vars
<1> QED BY <1>1, <1>2, <1>3 DEF IInv

LEMMA StepIInv == IInv /\ [Next]_vars => IInv'
<1> SUFFICES ASSUME IInv, [Next]_vars
             PROVE  IInv'
  OBVIOUS
<1>1. CASE UNCHANGED vars
  BY <1>1, StutterIInv
<1>2. CASE \E r \in Requests : Commit(r) \/ Rollback(r)
  BY <1>2, CommitIInv, RollbackIInv
<1>3. CASE \E r \in Requests, s \in StockItems, q \in Quantities :
              StockIn(r, s, q) \/ StockOut(r, s, q)
  BY <1>3, StockStepIInv
<1>4. CASE \E r \in Requests, m \in Mrs : SubmitMr(r, m) \/ RejectMr(r, m) \/ ApproveMrEmpty(r, m)
  BY <1>4, DecideIInv
<1>5. CASE \E r \in Requests, m \in Mrs, other \in Mrs \union {NoMr}, q \in Approvals :
              ApproveMr(r, other, m, q)
  BY <1>5, ApproveMrIInv
<1>6. CASE \E r \in Requests, m \in Mrs, s \in StockItems : IssueMr(r, m, s)
  BY <1>6, IssueMrIInv
<1> QED BY <1>1, <1>2, <1>3, <1>4, <1>5, <1>6 DEF Next

LEMMA Inductive == Spec => []IInv
BY InitIInv, StepIInv, PTL DEF Spec

-----------------------------------------------------------------------------

\* Every reachable row, request in flight and history variable has its type.
THEOREM TypeCorrect == Spec => []TypeOK
<1>1. IInv => TypeOK
  BY DEF IInv
<1> QED BY Inductive, <1>1, PTL

\* The quantity on hand is what the ledger adds up to, unless two movements read
\* the same quantity; negative quantities change nothing about it.
THEOREM StockIsLedger == Spec => []OnHandIsLedger
<1>1. IInv => OnHandIsLedger
  BY DEF IInv, StockInv
<1> QED BY Inductive, <1>1, PTL

\* No interleaving of movements takes stock below zero, as long as no negative
\* quantity is entered.
THEOREM StockNeverNegative == Spec => []NeverNegative
<1>1. IInv => NeverNegative
  BY DEF IInv, StockInv
<1> QED BY Inductive, <1>1, PTL

\* Stock is drawn for a material request once, and as much as its item says,
\* unless two requests crossed on it.
THEOREM RequestDrawnOnce == Spec => []DrawnOnce
<1>1. IInv => DrawnOnce
  BY DEF IInv, MrInv
<1> QED BY Inductive, <1>1, PTL

\* What is issued is what was approved, unless the approval came with another
\* material request's, or two requests crossed on it.
THEOREM ApprovedIsIssued == Spec => []IssuedAsApproved
<1>1. IInv => IssuedAsApproved
  BY DEF IInv, MrInv
<1> QED BY Inductive, <1>1, PTL

\* A second stock item of a material takes two requests that found none.
THEOREM StockItemIsUnique == Spec => []OneStockItem
<1>1. IInv => OneStockItem
  <2> SUFFICES ASSUME IInv, ~doubled
               PROVE  Cardinality(Stocked) <= 1
    BY DEF OneStockItem
  <2>1. \A x, y \in Stocked : x = y
    BY DEF IInv, StockInv
  <2>2. CASE Stocked = {}
    BY <2>2, FS_EmptySet
  <2>3. CASE Stocked # {}
    <3>1. PICK x : Stocked = {x}
      BY <2>1, <2>3
    <3> QED BY <3>1, FS_Singleton
  <2> QED BY <2>2, <2>3
<1> QED BY Inductive, <1>1, PTL

-----------------------------------------------------------------------------
(* One request at a time.  Of the exceptions of the properties only what a  *)
(* caller enters is left: negative quantities, and an approval that names   *)
(* the item of another material request.                                    *)

OneClient == \A q, r \in Requests : q = r

\* What the request in flight has read is still so.
UpToDate(t) ==
    /\ t.item # NoItem => t.loaded = stock[t.item]
    /\ t.mr # NoMr => mr[t.mr] = t.from
    /\ t.target # NoMr => line[t.target] = t.seen

AloneInv ==
    /\ \A r \in Requests : txn[r] # NoTxn => UpToDate(txn[r])
    /\ stale = {} /\ crossed = {} /\ ~doubled

LEMMA AloneWork ==
    ASSUME OneClient, IInv, AloneInv, NEW r \in Requests, NEW t, Work(r, t), UpToDate(t)
    PROVE  AloneInv'
<1>1. txn'[r] = t /\ \A q \in Requests : q = r
  BY DEF Work, OneClient, IInv, TypeOK
<1>2. UNCHANGED <<stock, mr, line, stale, crossed, doubled>>
  BY DEF Work
<1> QED BY <1>1, <1>2 DEF AloneInv, UpToDate

LEMMA AloneStockStep ==
    ASSUME OneClient, IInv, AloneInv, NEW r \in Requests, NEW s \in StockItems,
           NEW q \in Quantities, StockIn(r, s, q) \/ StockOut(r, s, q)
    PROVE  AloneInv'
<1>1. q \in Int /\ -q \in Int
  BY QuantitiesAssumption
<1>2. PICK a \in Int : Work(r, [Moved(Idle, s, a) EXCEPT !.entered = q])
  BY <1>1 DEF StockIn, StockOut
<1> DEFINE u == Moved(Idle, s, a)
           t == [u EXCEPT !.entered = q]
<1>3. u \in Txn /\ u.item = s /\ u.loaded = stock[s] /\ u.mr = NoMr /\ u.target = NoMr
  BY MovedType, IdleType DEF IInv
<1> HIDE DEF u
<1>4. t.item = s /\ t.loaded = stock[s] /\ t.mr = NoMr /\ t.target = NoMr
  BY <1>3 DEF Txn
<1>5. Work(r, t)
  BY <1>2 DEF u
<1> HIDE DEF t
<1>6. UpToDate(t)
  BY <1>4 DEF UpToDate
<1> QED BY <1>5, <1>6, AloneWork

LEMMA AloneDecide ==
    ASSUME OneClient, IInv, AloneInv, NEW r \in Requests, NEW m \in Mrs, NEW to \in Status,
           Work(r, Moving(m, mr[m], to))
    PROVE  AloneInv'
<1> DEFINE t == Moving(m, mr[m], to)
<1>1. mr[m] \in Status
  BY DEF IInv, TypeOK
<1>2. t.item = NoItem /\ t.mr = m /\ t.from = mr[m] /\ t.target = NoMr
  BY <1>1, MovingType
<1>3. Work(r, t)
  OBVIOUS
<1> HIDE DEF t
<1>4. UpToDate(t)
  BY <1>2 DEF UpToDate
<1> QED BY <1>3, <1>4, AloneWork

LEMMA AloneApproveMr ==
    ASSUME OneClient, IInv, AloneInv, NEW r \in Requests, NEW m \in Mrs \union {NoMr},
           NEW target \in Mrs, NEW q \in Approvals, ApproveMr(r, m, target, q)
    PROVE  AloneInv'
<1> DEFINE u == Moving(m, "submitted", "approved")
           given == [line[target] EXCEPT !.approved = q]
           t == [u EXCEPT !.target = target, !.seen = line[target], !.given = given]
<1>1. u \in Txn /\ u.item = NoItem /\ u.mr = m /\ u.from = "submitted"
  BY MovingType DEF Status
<1>2. Work(r, t) /\ (m # NoMr => mr[m] = "submitted")
  BY DEF ApproveMr
<1> HIDE DEF u, given
<1>3. /\ t.item = NoItem /\ t.mr = m /\ t.from = "submitted"
      /\ t.target = target /\ t.seen = line[target]
  BY <1>1 DEF Txn
<1> HIDE DEF t
<1>4. UpToDate(t)
  BY <1>2, <1>3 DEF UpToDate
<1> QED BY <1>2, <1>4, AloneWork

LEMMA AloneIssueMr ==
    ASSUME OneClient, IInv, AloneInv, NEW r \in Requests, NEW m \in Mrs, NEW s \in StockItems,
           IssueMr(r, m, s)
    PROVE  AloneInv'
<1> DEFINE u == Moving(m, "approved", "issued")
           q == line[m].approved
<1>1. u \in Txn /\ u.mr = m /\ u.from = "approved"
  BY MovingType DEF Status
<1>2. line[m] \in Line /\ q \in Int /\ -q \in Int
  BY DEF IInv, TypeOK, Line
<1>3. mr[m] = "approved"
  BY DEF IssueMr
<1>4. CASE q <= 0
  <2>1. Work(r, u)
    BY <1>2, <1>4 DEF IssueMr
  <2>2. Work(r, Moving(m, mr[m], "issued")) /\ "issued" \in Status
    BY <1>3, <2>1 DEF Status
  <2> QED BY <2>2, AloneDecide
<1>5. CASE q > 0
  <2> DEFINE v == Moved(u, s, -q)
             given == [line[m] EXCEPT !.issued = q]
             t == [v EXCEPT !.target = m, !.seen = line[m], !.given = given]
  <2>1. Work(r, t)
    BY <1>5 DEF IssueMr
  <2> HIDE DEF u
  <2>2. v \in Txn /\ v.item = s /\ v.loaded = stock[s] /\ v.mr = m /\ v.from = "approved"
    BY <1>1, <1>2, MovedType DEF IInv
  <2> HIDE DEF v, given
  <2>3. /\ t.item = s /\ t.loaded = stock[s] /\ t.mr = m /\ t.from = "approved"
        /\ t.target = m /\ t.seen = line[m]
    BY <2>2 DEF Txn
  <2> HIDE DEF t
  <2>4. UpToDate(t)
    BY <1>3, <2>3 DEF UpToDate
  <2> QED BY <2>1, <2>4, AloneWork
<1> QED BY <1>2, <1>4, <1>5

LEMMA AloneCommit ==
    ASSUME OneClient, IInv, AloneInv, NEW r \in Requests, Commit(r)
    PROVE  AloneInv'
<1>1. txn[r] # NoTxn /\ txn' = [txn EXCEPT ![r] = NoTxn]
  BY DEF Commit
<1>2. \A q \in Requests : q = r /\ txn'[q] = NoTxn
  BY <1>1 DEF OneClient, IInv, TypeOK
<1>3. UpToDate(txn[r]) /\ stale = {} /\ crossed = {} /\ ~doubled
  BY <1>1 DEF AloneInv
<1>4. r \in Adding => Adding = {r}
  BY <1>2 DEF Adding
<1>5. stale' = {} /\ ~doubled'
  BY <1>3, <1>4 DEF Commit, CommitStock, UpToDate
<1>6. crossed' = {}
  BY <1>3 DEF Commit, UpToDate
<1> QED BY <1>2, <1>5, <1>6 DEF AloneInv

LEMMA AloneStep == OneClient /\ IInv /\ AloneInv /\ [Next]_vars => AloneInv'
<1> SUFFICES ASSUME OneClient, IInv, AloneInv, [Next]_vars
             PROVE  AloneInv'
  OBVIOUS
<1>1. ASSUME NEW r \in Requests, NEW m \in Mrs,
             SubmitMr(r, m) \/ RejectMr(r, m) \/ ApproveMrEmpty(r, m)
      PROVE  AloneInv'
  <2>1. PICK to \in Status : Work(r, Moving(m, mr[m], to))
    BY <1>1 DEF SubmitMr, RejectMr, ApproveMrEmpty, Status
  <2> QED BY <2>1, AloneDecide
<1>2. ASSUME NEW r \in Requests, Rollback(r)
      PROVE  AloneInv'
  <2>1. \A q \in Requests : txn'[q] = NoTxn
    BY <1>2 DEF Rollback, OneClient, IInv, TypeOK
  <2> QED BY <1>2, <2>1 DEF Rollback, AloneInv
<1>3. CASE UNCHANGED vars
  BY <1>3 DEF vars, AloneInv, UpToDate
<1> QED BY <1>1, <1>2, <1>3, AloneStockStep, AloneApproveMr, AloneIssueMr, AloneCommit DEF Next

\* For a client that sends one request at a time stock and ledger agree without
\* exception, a material has one stock item, and a material request draws what its
\* item says, once it is issued and not before (record_transaction, issue_mr).
THEOREM AloneStockIsLedger ==
    ASSUME OneClient
    PROVE  Spec => [](/\ \A s \in StockItems : stock[s].onHand = ledger[s]
                      /\ \A x, y \in Stocked : x = y
                      /\ \A m \in Mrs : /\ drawn[m] = line[m].issued
                                        /\ mr[m] # "issued" => drawn[m] = 0)
<1>1. Init => AloneInv
  BY DEF Init, AloneInv
<1>2. IInv /\ AloneInv /\ [Next]_vars => AloneInv'
  BY AloneStep
<1>3. IInv /\ AloneInv => /\ \A s \in StockItems : stock[s].onHand = ledger[s]
                          /\ \A x, y \in Stocked : x = y
                          /\ \A m \in Mrs : /\ drawn[m] = line[m].issued
                                            /\ mr[m] # "issued" => drawn[m] = 0
  BY DEF IInv, StockInv, MrInv, AloneInv, OnHandIsLedger, DrawnOnce
<1> QED BY <1>1, <1>2, <1>3, Inductive, PTL DEF Spec

================================================================================
