------------------------------ MODULE BudgetProofs ------------------------------
(***************************************************************************)
(* Proofs about Budget, for any number of versions, items and requests in  *)
(* flight, and any amounts.                                                *)
(***************************************************************************)
EXTENDS Budget, AggregateTheorems

\* What is known of a request in flight: one that numbers a version is the only
\* one to use its id, ...
Numbering(r) ==
    r \in InFlight("number") =>
        /\ txn[r].version \notin Existing
        /\ \A q \in InFlight("number") \ {r} : txn[q].version # txn[r].version
        /\ txn[r].row.status = "draft"
        /\ txn[r].row.total = Sum(txn[r].items)
        /\ txn[r].fresh => txn[r].row.number = NextNumber

\* one that approves supersedes what is approved while it has read the latest, ...
Approving(r) ==
    r \in InFlight("approve") =>
        /\ txn[r].version \in Existing
        /\ txn[r].fresh => txn[r].approved = Approved

\* and so one that writes an item writes the total of the items and its own.
Writing(r) ==
    r \in InFlight("item") =>
        /\ txn[r].version \in Existing
        /\ txn[r].fresh =>
              /\ txn[r].version \notin Approved
              /\ txn[r].total =
                    Sum([item[txn[r].version] EXCEPT ![txn[r].slot] = txn[r].amount])

InFlightInv == \A r \in Requests : Numbering(r) /\ Approving(r) /\ Writing(r)

IInv ==
    /\ TypeOK
    /\ IsFiniteSet(Existing)
    /\ OneApprovedUnlessCrossed
    /\ TotalIsSum
    /\ NumbersCount
    /\ InFlightInv

-----------------------------------------------------------------------------
(* Lemmas about the operators. *)

\* The numbers of finitely many versions have a next one; it is the next in
\* order if they count without a gap.
LEMMA NextNumberType ==
    ASSUME TypeOK, IsFiniteSet(Existing)
    PROVE  /\ NextNumber \in Nat
           /\ Cardinality(Existing) \in Nat
           /\ NumbersCount /\ ~numbered => NextNumber = 1 + Cardinality(Existing)
<1>. DEFINE Numbers == {version[v].number : v \in Existing}
            n == Cardinality(Existing)
<1>1. IsFiniteSet(Numbers)
  <2>. DEFINE number == [v \in Existing |-> version[v].number]
  <2>1. number \in Surjection(Existing, Numbers)
    BY DEF Surjection
  <2>. QED
    BY <2>1, FS_Surjection
<1>2. Numbers \in SUBSET Nat
    BY DEF TypeOK, Row, Existing
<1>. HIDE DEF Numbers
<1>3. {0} \union Numbers \in SUBSET Nat /\ {0} \union Numbers \in SUBSET Int
    BY <1>2
<1>4. IsFiniteSet({0} \union Numbers)
    BY <1>1, FS_Singleton, FS_Union
<1>5. /\ Max({0} \union Numbers) \in {0} \union Numbers
      /\ \A x \in {0} \union Numbers : Max({0} \union Numbers) >= x
    BY <1>3, <1>4, MaxIsLargest
<1>6. n \in Nat
    BY FS_CardinalityType
<1>7. NextNumber = 1 + Max({0} \union Numbers)
    BY DEF NextNumber, Numbers
<1>8. ASSUME Numbers = 1..n
      PROVE  Max({0} \union Numbers) = n
  <2>. HIDE DEF n
  <2>1. n \in {0} \union Numbers
    BY <1>6, <1>8
  <2>2. \A x \in {0} \union Numbers : n >= x
    BY <1>6, <1>8
  <2>. QED
    BY <1>3, <1>5, <1>6, <2>1, <2>2
<1>9. Max({0} \union Numbers) \in Nat
    BY <1>3, <1>5
<1>. QED
    BY <1>6, <1>7, <1>8, <1>9 DEF NumbersCount, Numbers

LEMMA SumOfItems ==
    /\ Sum(NoItems) = 0
    /\ \A items \in ItemsOf : Sum(items) \in Int
<1>1. Sum(NoItems) = 0
    BY SlotsAssumption, SumZero DEF Sum, NoItems, NoItem
<1>2. ASSUME NEW items \in ItemsOf
      PROVE  Sum(items) \in Int
  <2>1. Amounts \union {0} \subseteq Int
    BY AmountsAssumption
  <2>2. \A s \in Slots : items[s] \in Int
    BY <2>1 DEF ItemsOf, NoItem
  <2>. QED
    BY <2>2, SlotsAssumption, SumType DEF Sum
<1>. QED
    BY <1>1, <1>2

\* The kind of a request in flight tells what it has in hand.
LEMMA KindType ==
    ASSUME TypeOK, NEW r \in Requests
    PROVE  /\ r \in InFlight("number") => txn[r] \in NumberTxn
           /\ r \in InFlight("approve") => txn[r] \in ApproveTxn
           /\ r \in InFlight("item") => txn[r] \in ItemTxn
<1>1. txn[r] # NoTxn => txn[r] \in NumberTxn \union ApproveTxn \union ItemTxn
    BY DEF TypeOK
<1>2. /\ \A t \in NumberTxn : t.kind = "number"
      /\ \A t \in ApproveTxn : t.kind = "approve"
      /\ \A t \in ItemTxn : t.kind = "item"
    BY DEF NumberTxn, ApproveTxn, ItemTxn
<1>3. "number" # "approve" /\ "number" # "item" /\ "approve" # "item"
    OBVIOUS
<1>. QED
    BY <1>1, <1>2, <1>3, Zenon DEF InFlight

LEMMA InitIInv == Init => IInv
<1>. SUFFICES ASSUME Init PROVE IInv
    OBVIOUS
<1>1. TypeOK
  <2>1. NoVersion \in Row /\ NoItems \in ItemsOf
    BY DEF NoVersion, Row, NoItems, ItemsOf
  <2>2. version \in [Versions -> Row] /\ item \in [Versions -> ItemsOf]
    BY <2>1 DEF Init
  <2>. QED
    BY <2>2 DEF Init, TypeOK
<1>2. Existing = {} /\ Approved = {}
    BY DEF Init, Existing, Approved, NoVersion
<1>3. IsFiniteSet(Existing) /\ Cardinality(Existing) = 0
    BY <1>2, FS_EmptySet
<1>4. NumbersCount
    BY <1>2, <1>3 DEF NumbersCount
<1>5. OneApprovedUnlessCrossed /\ TotalIsSum
    BY <1>2 DEF OneApprovedUnlessCrossed, TotalIsSum
<1>6. InFlightInv
    BY DEF Init, InFlightInv, Numbering, Approving, Writing, InFlight
<1>. QED
    BY <1>1, <1>3, <1>4, <1>5, <1>6 DEF IInv

-----------------------------------------------------------------------------
(* The handlers. *)

\* A request that has only read disturbs nothing, if it is known what it will write.
LEMMA WorkIInv ==
    ASSUME IInv, NEW r \in Requests, NEW t \in NumberTxn \union ApproveTxn \union ItemTxn,
           Work(r, t), Numbering(r)', Approving(r)', Writing(r)'
    PROVE  IInv'
<1>1. /\ txn' = [txn EXCEPT ![r] = t]
      /\ UNCHANGED <<version, item, crossed, numbered, stale>>
    BY DEF Work
<1>2. TypeOK'
    BY <1>1 DEF IInv, TypeOK
<1>3. \A q \in Requests \ {r} : txn'[q] = txn[q]
    BY <1>1 DEF IInv, TypeOK
<1>4. Existing' = Existing /\ Approved' = Approved /\ NextNumber' = NextNumber
    BY <1>1 DEF Existing, Approved, NextNumber
<1>5. /\ IsFiniteSet(Existing)' /\ OneApprovedUnlessCrossed' /\ TotalIsSum' /\ NumbersCount'
    BY <1>1, <1>4 DEF IInv, OneApprovedUnlessCrossed, TotalIsSum, NumbersCount
<1>6. ASSUME NEW q \in Requests \ {r}
      PROVE  Numbering(q)' /\ Approving(q)' /\ Writing(q)'
  <2>1. \A k \in {"number", "approve", "item"} : q \in InFlight(k)' <=> q \in InFlight(k)
    BY <1>3 DEF InFlight
  <2>2. Numbering(q) /\ Approving(q) /\ Writing(q)
    BY DEF IInv, InFlightInv
  <2>3. \A p \in InFlight("number")' \ {q} : p = r \/ p \in InFlight("number") \ {q}
    BY <1>3 DEF InFlight
  <2>4. ASSUME q \in InFlight("number")', NEW p \in InFlight("number")' \ {q}
        PROVE  txn'[p].version # txn'[q].version
    <3>1. CASE p = r
        BY <2>4, <3>1 DEF Numbering
    <3>2. CASE p # r
      <4>1. p \in Requests \ {r} /\ p \in InFlight("number") \ {q}
        BY <2>3, <3>2 DEF InFlight
      <4>. QED
        BY <1>3, <2>1, <2>2, <2>4, <4>1 DEF Numbering
    <3>. QED
        BY <3>1, <3>2
  <2>5. Numbering(q)'
    BY <1>3, <1>4, <2>1, <2>2, <2>4 DEF Numbering
  <2>6. Approving(q)'
    BY <1>3, <1>4, <2>1, <2>2 DEF Approving
  <2>7. Writing(q)'
    BY <1>1, <1>3, <1>4, <2>1, <2>2 DEF Writing
  <2>. QED
    BY <2>5, <2>6, <2>7
<1>7. InFlightInv'
    BY <1>6 DEF InFlightInv
<1>. QED
    BY <1>2, <1>5, <1>7 DEF IInv

LEMMA NumberStepIInv ==
    ASSUME IInv, NEW r \in Requests, NEW v \in Versions, NEW items \in ItemsOf,
           NEW total \in Int, total = Sum(items), FreshId(v),
           Work(r, [kind |-> "number", version |-> v, row |-> NewVersion(total),
                    items |-> items, fresh |-> TRUE])
    PROVE  IInv'
<1>. DEFINE row == NewVersion(total)
            t == [kind |-> "number", version |-> v, row |-> row, items |-> items,
                  fresh |-> TRUE]
<1>1. /\ row \in Row /\ row.status = "draft" /\ row.total = total
      /\ row.number = NextNumber
    BY NextNumberType DEF IInv, NewVersion, Row
<1>2. /\ t \in NumberTxn
      /\ t.kind = "number" /\ t.version = v /\ t.row = row /\ t.items = items
  <2>. HIDE DEF row, Row, ItemsOf
  <2>. QED
    BY <1>1 DEF NumberTxn
<1>3. Work(r, t)
    OBVIOUS
<1>. HIDE DEF t, row
<1>4. txn'[r] = t /\ \A q \in Requests \ {r} : txn'[q] = txn[q]
    BY <1>3 DEF Work, IInv, TypeOK
<1>5. Existing' = Existing /\ NextNumber' = NextNumber
    BY <1>3 DEF Work, Existing, NextNumber
<1>6. v \notin Existing
    BY DEF FreshId
<1>7. ASSUME NEW q \in InFlight("number")' \ {r}
      PROVE  txn'[q].version # v
  <2>1. q \in Requests /\ txn'[q] = txn[q] /\ txn[q] # NoTxn
    BY <1>4, <1>7 DEF InFlight
  <2>. QED
    BY <2>1 DEF FreshId
<1>8. Numbering(r)'
    BY <1>1, <1>2, <1>4, <1>5, <1>6, <1>7 DEF Numbering
<1>9. Approving(r)' /\ Writing(r)'
    BY <1>2, <1>4 DEF Approving, Writing, InFlight
<1>. QED
    BY <1>2, <1>3, <1>8, <1>9, WorkIInv

LEMMA CreateIInv ==
    ASSUME IInv, NEW r \in Requests, NEW v \in Versions, CreateBudgetVersion(r, v)
    PROVE  IInv'
<1>1. NoItems \in ItemsOf
    BY DEF NoItems, ItemsOf
<1>. QED
    BY <1>1, SumOfItems, NumberStepIInv DEF CreateBudgetVersion

LEMMA CopyIInv ==
    ASSUME IInv, NEW r \in Requests, NEW v \in Versions, NEW source \in Versions,
           CopyBudgetVersion(r, v, source)
    PROVE  IInv'
<1>1. item[source] \in ItemsOf
    BY DEF IInv, TypeOK
<1>2. Sum(item[source]) \in Int
    BY <1>1, SumOfItems
<1>. QED
    BY <1>1, <1>2, NumberStepIInv DEF CopyBudgetVersion

LEMMA ApproveIInv ==
    ASSUME IInv, NEW r \in Requests, NEW v \in Versions, ApproveBudgetVersion(r, v)
    PROVE  IInv'
<1>. DEFINE t == [kind |-> "approve", version |-> v, approved |-> Approved, fresh |-> TRUE]
<1>1. /\ t \in ApproveTxn
      /\ t.kind = "approve" /\ t.version = v /\ t.approved = Approved
    BY DEF ApproveTxn, Approved
<1>2. Work(r, t) /\ v \in Existing
    BY DEF ApproveBudgetVersion
<1>. HIDE DEF t
<1>3. txn'[r] = t
    BY <1>2 DEF Work, IInv, TypeOK
<1>4. Existing' = Existing /\ Approved' = Approved
    BY <1>2 DEF Work, Existing, Approved
<1>5. Approving(r)'
    BY <1>1, <1>2, <1>3, <1>4 DEF Approving
<1>6. Numbering(r)' /\ Writing(r)'
    BY <1>1, <1>3 DEF Numbering, Writing, InFlight
<1>. QED
    BY <1>1, <1>2, <1>5, <1>6, WorkIInv

LEMMA WriteItemIInv ==
    ASSUME IInv, NEW r \in Requests, NEW v \in Versions, NEW s \in Slots,
           NEW amount \in Amounts \union {NoItem}, WriteItem(r, v, s, amount)
    PROVE  IInv'
<1>. DEFINE items == [item[v] EXCEPT ![s] = amount]
            total == Sum(items)
            t == [kind |-> "item", version |-> v, slot |-> s, amount |-> amount,
                  total |-> total, fresh |-> TRUE]
<1>1. items \in ItemsOf
    BY DEF IInv, TypeOK, ItemsOf
<1>2. total \in Int
  <2>. HIDE DEF items
  <2>. QED
    BY <1>1, SumOfItems
<1>3. /\ t \in ItemTxn
      /\ t.kind = "item" /\ t.version = v /\ t.slot = s /\ t.amount = amount
      /\ t.total = total
  <2>. HIDE DEF total
  <2>. QED
    BY <1>2 DEF ItemTxn
<1>4. Work(r, t) /\ v \in Existing \ Approved
    BY DEF WriteItem
<1>. HIDE DEF t
<1>5. txn'[r] = t
    BY <1>4 DEF Work, IInv, TypeOK
<1>6. Existing' = Existing /\ Approved' = Approved /\ item' = item
    BY <1>4 DEF Work, Existing, Approved
<1>7. Writing(r)'
    BY <1>3, <1>4, <1>5, <1>6 DEF Writing
<1>8. Numbering(r)' /\ Approving(r)'
    BY <1>3, <1>5 DEF Numbering, Approving, InFlight
<1>. QED
    BY <1>3, <1>4, <1>7, <1>8, WorkIInv

-----------------------------------------------------------------------------
(* The commits. *)

\* The requests that stay in flight keep all they have in hand, but for those
\* in S, which is outdated.
LEMMA FinishKeeps ==
    ASSUME TypeOK, NEW r \in Requests, NEW S \in SUBSET Requests,
           \A q \in S : txn[q] # NoTxn, Finish(r, S)
    PROVE  /\ txn' \in [Requests -> NumberTxn \union ApproveTxn \union ItemTxn \union {NoTxn}]
           /\ \A q \in InFlight("number")' :
                 /\ q \in InFlight("number") \ {r}
                 /\ txn'[q].version = txn[q].version
                 /\ txn'[q].row = txn[q].row
                 /\ txn'[q].items = txn[q].items
                 /\ txn'[q].fresh => txn[q].fresh /\ q \notin S
           /\ \A q \in InFlight("approve")' :
                 /\ q \in InFlight("approve") \ {r}
                 /\ txn'[q].version = txn[q].version
                 /\ txn'[q].approved = txn[q].approved
                 /\ txn'[q].fresh => txn[q].fresh /\ q \notin S
           /\ \A q \in InFlight("item")' :
                 /\ q \in InFlight("item") \ {r}
                 /\ txn'[q].version = txn[q].version
                 /\ txn'[q].slot = txn[q].slot
                 /\ txn'[q].amount = txn[q].amount
                 /\ txn'[q].total = txn[q].total
                 /\ txn'[q].fresh => txn[q].fresh /\ q \notin S
<1>. DEFINE old(q) == [txn[q] EXCEPT !.fresh = FALSE]
<1>1. ASSUME NEW q \in Requests
      PROVE  /\ \/ txn'[q] = NoTxn
                \/ txn'[q] = txn[q]
                \/ q \in S /\ txn'[q] = old(q)
             /\ q = r => txn'[q] = NoTxn
             /\ q # r /\ q \in S => txn'[q] = old(q)
    BY DEF Finish
<1>2. ASSUME NEW q \in Requests, txn[q] # NoTxn
      PROVE  \/ txn[q] \in NumberTxn /\ old(q) \in NumberTxn /\ txn[q].kind = "number"
             \/ txn[q] \in ApproveTxn /\ old(q) \in ApproveTxn /\ txn[q].kind = "approve"
             \/ txn[q] \in ItemTxn /\ old(q) \in ItemTxn /\ txn[q].kind = "item"
  <2>1. txn[q] \in NumberTxn \/ txn[q] \in ApproveTxn \/ txn[q] \in ItemTxn
    BY <1>2 DEF TypeOK
  <2>2. txn[q] \in NumberTxn => old(q) \in NumberTxn /\ txn[q].kind = "number"
    BY DEF NumberTxn
  <2>3. txn[q] \in ApproveTxn => old(q) \in ApproveTxn /\ txn[q].kind = "approve"
    BY DEF ApproveTxn
  <2>4. txn[q] \in ItemTxn => old(q) \in ItemTxn /\ txn[q].kind = "item"
    BY DEF ItemTxn
  <2>. QED
    BY <2>1, <2>2, <2>3, <2>4
<1>3. txn' \in [Requests -> NumberTxn \union ApproveTxn \union ItemTxn \union {NoTxn}]
  <2>1. \A q \in Requests :
           txn'[q] \in NumberTxn \union ApproveTxn \union ItemTxn \union {NoTxn}
    BY <1>1, <1>2, Zenon DEF TypeOK
  <2>2. DOMAIN txn' = Requests /\ txn' = [q \in Requests |-> txn'[q]]
    BY DEF Finish
  <2>. QED
    BY <2>1, <2>2
<1>4. ASSUME NEW q \in InFlight("number")'
      PROVE  /\ q \in InFlight("number") \ {r}
             /\ txn'[q].version = txn[q].version
             /\ txn'[q].row = txn[q].row
             /\ txn'[q].items = txn[q].items
             /\ txn'[q].fresh => txn[q].fresh /\ q \notin S
  <2>1. q \in Requests /\ txn'[q] # NoTxn /\ txn'[q].kind = "number" /\ q # r
    BY <1>1, <1>4 DEF InFlight
  <2>2. txn[q] # NoTxn
    BY <1>1, <2>1
  <2>3. txn[q] \in NumberTxn /\ txn[q].kind = "number"
    <3>1. txn[q] \in ApproveTxn => old(q).kind = "approve" /\ txn[q].kind = "approve"
        BY DEF ApproveTxn
    <3>2. txn[q] \in ItemTxn => old(q).kind = "item" /\ txn[q].kind = "item"
        BY DEF ItemTxn
    <3>. QED
        BY <1>1, <1>2, <2>1, <2>2, <3>1, <3>2, Zenon
  <2>. QED
    BY <1>1, <2>1, <2>2, <2>3 DEF InFlight, NumberTxn
<1>5. ASSUME NEW q \in InFlight("approve")'
      PROVE  /\ q \in InFlight("approve") \ {r}
             /\ txn'[q].version = txn[q].version
             /\ txn'[q].approved = txn[q].approved
             /\ txn'[q].fresh => txn[q].fresh /\ q \notin S
  <2>1. q \in Requests /\ txn'[q] # NoTxn /\ txn'[q].kind = "approve" /\ q # r
    BY <1>1, <1>5 DEF InFlight
  <2>2. txn[q] # NoTxn
    BY <1>1, <2>1
  <2>3. txn[q] \in ApproveTxn /\ txn[q].kind = "approve"
    <3>1. txn[q] \in NumberTxn => old(q).kind = "number" /\ txn[q].kind = "number"
        BY DEF NumberTxn
    <3>2. txn[q] \in ItemTxn => old(q).kind = "item" /\ txn[q].kind = "item"
        BY DEF ItemTxn
    <3>. QED
        BY <1>1, <1>2, <2>1, <2>2, <3>1, <3>2, Zenon
  <2>. QED
    BY <1>1, <2>1, <2>2, <2>3 DEF InFlight, ApproveTxn
<1>6. ASSUME NEW q \in InFlight("item")'
      PROVE  /\ q \in InFlight("item") \ {r}
             /\ txn'[q].version = txn[q].version
             /\ txn'[q].slot = txn[q].slot
             /\ txn'[q].amount = txn[q].amount
             /\ txn'[q].total = txn[q].total
             /\ txn'[q].fresh => txn[q].fresh /\ q \notin S
  <2>1. q \in Requests /\ txn'[q] # NoTxn /\ txn'[q].kind = "item" /\ q # r
    BY <1>1, <1>6 DEF InFlight
  <2>2. txn[q] # NoTxn
    BY <1>1, <2>1
  <2>3. txn[q] \in ItemTxn /\ txn[q].kind = "item"
    <3>1. txn[q] \in NumberTxn => old(q).kind = "number" /\ txn[q].kind = "number"
        BY DEF NumberTxn
    <3>2. txn[q] \in ApproveTxn => old(q).kind = "approve" /\ txn[q].kind = "approve"
        BY DEF ApproveTxn
    <3>. QED
        BY <1>1, <1>2, <2>1, <2>2, <3>1, <3>2, Zenon
  <2>. QED
    BY <1>1, <2>1, <2>2, <2>3 DEF InFlight, ItemTxn
<1>. QED
    BY <1>3, <1>4, <1>5, <1>6

LEMMA CommitNumberIInv ==
    ASSUME IInv, NEW r \in Requests, CommitNumber(r)
    PROVE  IInv'
<1>. DEFINE v == txn[r].version
            S == InFlight("number")
<1>1. /\ r \in InFlight("number")
      /\ version' = [version EXCEPT ![v] = txn[r].row]
      /\ item' = [item EXCEPT ![v] = txn[r].items]
      /\ Finish(r, S)
      /\ crossed' = crossed /\ stale' = stale
    BY DEF CommitNumber
<1>2. txn[r] \in NumberTxn
    BY <1>1, KindType DEF IInv
<1>3. v \in Versions /\ txn[r].row \in Row /\ txn[r].items \in ItemsOf
    BY <1>2 DEF NumberTxn
<1>4. /\ v \notin Existing /\ txn[r].row.status = "draft"
      /\ txn[r].row.total = Sum(txn[r].items)
      /\ txn[r].fresh => txn[r].row.number = NextNumber
      /\ \A q \in InFlight("number") \ {r} : txn[q].version # v
    BY <1>1 DEF IInv, InFlightInv, Numbering
<1>5. S \in SUBSET Requests /\ \A q \in S : txn[q] # NoTxn
    BY DEF InFlight
<1>6. TypeOK
    BY DEF IInv
<1>7. /\ version \in [Versions -> Row] /\ item \in [Versions -> ItemsOf]
      /\ stale \subseteq Versions /\ crossed \in BOOLEAN
    BY <1>6 DEF TypeOK
<1>. HIDE DEF S, v
<1>8. /\ version'[v] = txn[r].row /\ item'[v] = txn[r].items
      /\ \A w \in Versions \ {v} : version'[w] = version[w] /\ item'[w] = item[w]
    BY <1>1, <1>3, <1>7
<1>9. TypeOK'
  <2>1. version' \in [Versions -> Row] /\ item' \in [Versions -> ItemsOf]
    BY <1>1, <1>3, <1>7
  <2>2. txn' \in [Requests -> NumberTxn \union ApproveTxn \union ItemTxn \union {NoTxn}]
    BY <1>1, <1>5, <1>6, FinishKeeps
  <2>3. numbered' \in BOOLEAN
    BY DEF CommitNumber
  <2>. QED
    BY <1>1, <1>7, <2>1, <2>2, <2>3 DEF TypeOK
<1>10. Existing' = Existing \union {v}
    BY <1>3, <1>4, <1>8 DEF Existing
<1>11. Approved' = Approved
    BY <1>3, <1>4, <1>8 DEF Approved, Existing
<1>12. /\ IsFiniteSet(Existing)'
       /\ Cardinality(Existing)' = Cardinality(Existing) + 1
    BY <1>4, <1>10, FS_AddElement DEF IInv
<1>13. OneApprovedUnlessCrossed'
    BY <1>1, <1>11 DEF IInv, OneApprovedUnlessCrossed
<1>14. TotalIsSum'
  <2>. SUFFICES ASSUME NEW w \in Existing', w \notin stale
                PROVE  version'[w].total = Sum(item'[w])
    BY <1>1 DEF TotalIsSum, Sum
  <2>1. CASE w = v
    BY <1>4, <1>8, <2>1
  <2>2. CASE w # v
    BY <1>8, <1>10, <2>2 DEF IInv, TotalIsSum, Existing
  <2>. QED
    BY <2>1, <2>2
<1>15. NumbersCount'
  <2>. DEFINE n == Cardinality(Existing)
              Numbers == {version[w].number : w \in Existing}
  <2>1. SUFFICES ASSUME ~numbered, txn[r].fresh
                 PROVE  {version'[w].number : w \in Existing'} = 1..(n + 1)
    BY <1>12 DEF NumbersCount, CommitNumber
  <2>2. Numbers = 1..n /\ n \in Nat /\ txn[r].row.number = 1 + n
    BY <1>4, <2>1, NextNumberType DEF IInv, NumbersCount
  <2>3. {version'[w].number : w \in Existing'} = Numbers \union {txn[r].row.number}
    BY <1>4, <1>8, <1>10 DEF Existing
  <2>. HIDE DEF n, Numbers
  <2>. QED
    BY <2>2, <2>3
<1>16. ASSUME NEW q \in Requests
       PROVE  Numbering(q)' /\ Approving(q)' /\ Writing(q)'
  <2>1. Numbering(q) /\ Approving(q) /\ Writing(q)
    BY DEF IInv, InFlightInv
  <2>2. Numbering(q)'
    <3>1. SUFFICES ASSUME q \in InFlight("number")'
                   PROVE  /\ txn'[q].version \notin Existing'
                          /\ \A p \in InFlight("number")' \ {q} : txn'[p].version # txn'[q].version
                          /\ txn'[q].row.status = "draft"
                          /\ txn'[q].row.total = Sum(txn'[q].items)
                          /\ ~txn'[q].fresh
        BY DEF Numbering, Sum
    <3>2. /\ q \in InFlight("number") \ {r}
          /\ txn'[q].version = txn[q].version
          /\ txn'[q].row = txn[q].row
          /\ txn'[q].items = txn[q].items
          /\ ~txn'[q].fresh
        BY <1>1, <1>5, <1>6, <3>1, FinishKeeps DEF S
    <3>3. \A p \in InFlight("number")' :
             p \in InFlight("number") /\ txn'[p].version = txn[p].version
        BY <1>1, <1>5, <1>6, FinishKeeps
    <3>. QED
        BY <1>4, <1>10, <2>1, <3>2, <3>3 DEF Numbering
  <2>3. Approving(q)'
    <3>1. SUFFICES ASSUME q \in InFlight("approve")'
                   PROVE  /\ txn'[q].version \in Existing'
                          /\ txn'[q].fresh => txn'[q].approved = Approved'
        BY DEF Approving
    <3>2. /\ q \in InFlight("approve")
          /\ txn'[q].version = txn[q].version
          /\ txn'[q].approved = txn[q].approved
          /\ txn'[q].fresh => txn[q].fresh
        BY <1>1, <1>5, <1>6, <3>1, FinishKeeps
    <3>. QED
        BY <1>10, <1>11, <2>1, <3>2 DEF Approving
  <2>4. Writing(q)'
    <3>1. SUFFICES ASSUME q \in InFlight("item")'
                   PROVE  /\ txn'[q].version \in Existing'
                          /\ txn'[q].fresh =>
                                /\ txn'[q].version \notin Approved'
                                /\ txn'[q].total =
                                      Sum([item'[txn'[q].version]
                                              EXCEPT ![txn'[q].slot] = txn'[q].amount])
        BY DEF Writing, Sum
    <3>2. /\ q \in InFlight("item")
          /\ txn'[q].version = txn[q].version
          /\ txn'[q].slot = txn[q].slot
          /\ txn'[q].amount = txn[q].amount
          /\ txn'[q].total = txn[q].total
          /\ txn'[q].fresh => txn[q].fresh
        BY <1>1, <1>5, <1>6, <3>1, FinishKeeps
    <3>3. txn[q].version \in Existing /\ txn[q].version \in Versions /\ txn[q].version # v
        BY <1>4, <2>1, <3>2 DEF Writing, Existing
    <3>4. item'[txn'[q].version] = item[txn[q].version]
        BY <1>8, <3>2, <3>3
    <3>. QED
        BY <1>10, <1>11, <2>1, <3>2, <3>3, <3>4 DEF Writing
  <2>. QED
    BY <2>2, <2>3, <2>4
<1>17. InFlightInv'
    BY <1>16 DEF InFlightInv
<1>. QED
    BY <1>9, <1>12, <1>13, <1>14, <1>15, <1>17 DEF IInv

LEMMA CommitApproveIInv ==
    ASSUME IInv, NEW r \in Requests, CommitApprove(r)
    PROVE  IInv'
<1>. DEFINE v == txn[r].version
            S == InFlight("approve") \union WritingItemsOf(v)
<1>1. /\ r \in InFlight("approve")
      /\ version' = [w \in Versions |->
            IF w = v THEN [version[w] EXCEPT !.status = "approved"]
            ELSE IF w \in txn[r].approved \intersect Approved
                 THEN [version[w] EXCEPT !.status = "superseded"]
            ELSE version[w]]
      /\ Finish(r, S)
      /\ item' = item /\ numbered' = numbered /\ stale' = stale
    BY DEF CommitApprove
<1>2. v \in Existing /\ v \in Versions
    BY <1>1 DEF IInv, InFlightInv, Approving, Existing
<1>3. txn[r].fresh => txn[r].approved = Approved
    BY <1>1 DEF IInv, InFlightInv, Approving
<1>4. S \in SUBSET Requests /\ \A q \in S : txn[q] # NoTxn
    BY DEF InFlight, WritingItemsOf
<1>5. TypeOK
    BY DEF IInv
<1>6. version \in [Versions -> Row]
    BY <1>5 DEF TypeOK
<1>. HIDE DEF S, v
<1>7. ASSUME NEW w \in Versions
      PROVE  /\ version'[w] \in Row
             /\ version'[w].number = version[w].number /\ version'[w].total = version[w].total
             /\ w = v => version'[w].status = "approved"
             /\ w # v /\ w \in txn[r].approved \intersect Approved =>
                   version'[w].status = "superseded"
             /\ w # v /\ w \notin txn[r].approved \intersect Approved =>
                   version'[w].status = version[w].status
  <2>1. version[w] \in Row
    BY <1>6
  <2>. QED
    BY <1>1, <2>1 DEF Row
<1>8. Existing' = Existing
  <2>1. \A w \in Versions : version'[w].status # "absent" <=> version[w].status # "absent"
    BY <1>2, <1>7 DEF Existing, Approved
  <2>. QED
    BY <2>1 DEF Existing
<1>9. Approved' \subseteq Approved \union {v}
    BY <1>7 DEF Approved
<1>10. TypeOK'
  <2>1. version' \in [Versions -> Row]
    BY <1>1, <1>7
  <2>2. txn' \in [Requests -> NumberTxn \union ApproveTxn \union ItemTxn \union {NoTxn}]
    BY <1>1, <1>4, <1>5, FinishKeeps
  <2>3. crossed' \in BOOLEAN
    BY DEF CommitApprove
  <2>. QED
    BY <1>1, <1>5, <2>1, <2>2, <2>3 DEF TypeOK
<1>11. IsFiniteSet(Existing)'
    BY <1>8 DEF IInv
<1>12. OneApprovedUnlessCrossed'
  <2>1. SUFFICES ASSUME txn[r].fresh PROVE Approved' \subseteq {v}
    BY DEF OneApprovedUnlessCrossed, CommitApprove
  <2>2. txn[r].approved \intersect Approved = Approved
    BY <1>3, <2>1
  <2>. QED
    BY <1>7, <2>2 DEF Approved
<1>13. TotalIsSum'
    BY <1>1, <1>7, <1>8, ZenonT(60) DEF IInv, TotalIsSum, Existing, Sum
<1>14. {version'[w].number : w \in Existing'} = {version[w].number : w \in Existing}
    BY <1>7, <1>8 DEF Existing
<1>15. NumbersCount'
    BY <1>1, <1>8, <1>14 DEF IInv, NumbersCount
<1>16. NextNumber' = NextNumber
    BY <1>14 DEF NextNumber
<1>17. ASSUME NEW q \in Requests
       PROVE  Numbering(q)' /\ Approving(q)' /\ Writing(q)'
  <2>1. Numbering(q) /\ Approving(q) /\ Writing(q)
    BY DEF IInv, InFlightInv
  <2>2. Numbering(q)'
    <3>1. SUFFICES ASSUME q \in InFlight("number")'
                   PROVE  /\ txn'[q].version \notin Existing'
                          /\ \A p \in InFlight("number")' \ {q} : txn'[p].version # txn'[q].version
                          /\ txn'[q].row.status = "draft"
                          /\ txn'[q].row.total = Sum(txn'[q].items)
                          /\ txn'[q].fresh => txn'[q].row.number = NextNumber'
        BY DEF Numbering, Sum
    <3>2. /\ q \in InFlight("number")
          /\ txn'[q].version = txn[q].version
          /\ txn'[q].row = txn[q].row
          /\ txn'[q].items = txn[q].items
          /\ txn'[q].fresh => txn[q].fresh
        BY <1>1, <1>4, <1>5, <3>1, FinishKeeps
    <3>3. \A p \in InFlight("number")' :
             p \in InFlight("number") /\ txn'[p].version = txn[p].version
        BY <1>1, <1>4, <1>5, FinishKeeps
    <3>. QED
        BY <1>8, <1>16, <2>1, <3>2, <3>3 DEF Numbering
  <2>3. Approving(q)'
    <3>1. SUFFICES ASSUME q \in InFlight("approve")'
                   PROVE  txn'[q].version \in Existing' /\ ~txn'[q].fresh
        BY DEF Approving
    <3>2. /\ q \in InFlight("approve")
          /\ txn'[q].version = txn[q].version
          /\ ~txn'[q].fresh
        BY <1>1, <1>4, <1>5, <3>1, FinishKeeps DEF S
    <3>. QED
        BY <1>8, <2>1, <3>2 DEF Approving
  <2>4. Writing(q)'
    <3>1. SUFFICES ASSUME q \in InFlight("item")'
                   PROVE  /\ txn'[q].version \in Existing'
                          /\ txn'[q].fresh =>
                                /\ txn'[q].version \notin Approved'
                                /\ txn'[q].total =
                                      Sum([item'[txn'[q].version]
                                              EXCEPT ![txn'[q].slot] = txn'[q].amount])
        BY DEF Writing, Sum
    <3>2. /\ q \in InFlight("item")
          /\ txn'[q].version = txn[q].version
          /\ txn'[q].slot = txn[q].slot
          /\ txn'[q].amount = txn[q].amount
          /\ txn'[q].total = txn[q].total
          /\ txn'[q].fresh => txn[q].fresh /\ q \notin S
        BY <1>1, <1>4, <1>5, <3>1, FinishKeeps
    <3>3. txn'[q].fresh => txn[q].version # v
        BY <3>2 DEF S, WritingItemsOf
    <3>. QED
        BY <1>1, <1>8, <1>9, <2>1, <3>2, <3>3 DEF Writing
  <2>. QED
    BY <2>2, <2>3, <2>4
<1>18. InFlightInv'
    BY <1>17 DEF InFlightInv
<1>. QED
    BY <1>10, <1>11, <1>12, <1>13, <1>15, <1>18 DEF IInv

\* What an item request commits.
LEMMA CommitItemEffect ==
    ASSUME IInv, NEW r \in Requests, CommitItem(r)
    PROVE  LET v == txn[r].version IN
           /\ v \in Existing /\ v \in Versions /\ txn[r] \in ItemTxn
           /\ txn[r].fresh =>
                 v \notin Approved
                 /\ txn[r].total = Sum([item[v] EXCEPT ![txn[r].slot] = txn[r].amount])
           /\ \A w \in Versions \ {v} : version'[w] = version[w] /\ item'[w] = item[w]
           /\ version'[v] = [version[v] EXCEPT !.total = txn[r].total]
           /\ item'[v] = [item[v] EXCEPT ![txn[r].slot] = txn[r].amount]
<1>. DEFINE v == txn[r].version
<1>1. /\ r \in InFlight("item")
      /\ item' = [item EXCEPT ![v][txn[r].slot] = txn[r].amount]
      /\ version' = [version EXCEPT ![v].total = txn[r].total]
    BY DEF CommitItem
<1>2. txn[r] \in ItemTxn
    BY <1>1, KindType DEF IInv
<1>3. /\ v \in Existing /\ v \in Versions
      /\ txn[r].fresh =>
            v \notin Approved
            /\ txn[r].total = Sum([item[v] EXCEPT ![txn[r].slot] = txn[r].amount])
    BY <1>1 DEF IInv, InFlightInv, Writing, Existing
<1>4. version \in [Versions -> Row] /\ item \in [Versions -> ItemsOf]
    BY DEF IInv, TypeOK
<1>. HIDE DEF v
<1>5. \A w \in Versions \ {v} : version'[w] = version[w] /\ item'[w] = item[w]
    BY <1>1, <1>3, <1>4
<1>6. /\ version'[v] = [version[v] EXCEPT !.total = txn[r].total]
      /\ item'[v] = [item[v] EXCEPT ![txn[r].slot] = txn[r].amount]
    BY <1>1, <1>3, <1>4
<1>. QED
    BY <1>2, <1>3, <1>5, <1>6 DEF v

LEMMA CommitItemIInv ==
    ASSUME IInv, NEW r \in Requests, CommitItem(r)
    PROVE  IInv'
<1>. DEFINE v == txn[r].version
            S == WritingItemsOf(v)
<1>1. /\ Finish(r, S)
      /\ stale' = IF txn[r].fresh THEN stale ELSE stale \union {v}
      /\ crossed' = crossed /\ numbered' = numbered
      /\ version' = [version EXCEPT ![v].total = txn[r].total]
      /\ item' = [item EXCEPT ![v][txn[r].slot] = txn[r].amount]
    BY DEF CommitItem
<1>2. /\ v \in Existing /\ v \in Versions /\ txn[r] \in ItemTxn
      /\ txn[r].fresh => txn[r].total = Sum([item[v] EXCEPT ![txn[r].slot] = txn[r].amount])
      /\ \A w \in Versions \ {v} : version'[w] = version[w] /\ item'[w] = item[w]
      /\ version'[v] = [version[v] EXCEPT !.total = txn[r].total]
      /\ item'[v] = [item[v] EXCEPT ![txn[r].slot] = txn[r].amount]
    BY CommitItemEffect
<1>3. S \in SUBSET Requests /\ \A q \in S : txn[q] # NoTxn
    BY DEF InFlight, WritingItemsOf
<1>4. TypeOK
    BY DEF IInv
<1>5. version \in [Versions -> Row] /\ item \in [Versions -> ItemsOf] /\ stale \subseteq Versions
    BY <1>4 DEF TypeOK
<1>6. txn[r].total \in Int /\ txn[r].slot \in Slots /\ txn[r].amount \in Amounts \union {NoItem}
    BY <1>2 DEF ItemTxn
<1>. HIDE DEF S, v
<1>7. /\ version'[v] \in Row /\ version'[v].total = txn[r].total
      /\ \A w \in Versions : /\ version'[w].status = version[w].status
                             /\ version'[w].number = version[w].number
  <2>1. version[v] \in Row
    BY <1>2, <1>5
  <2>2. version'[v] \in Row /\ version'[v].total = txn[r].total
    BY <1>2, <1>6, <2>1 DEF Row
  <2>3. version'[v].status = version[v].status /\ version'[v].number = version[v].number
    BY <1>2, <2>1 DEF Row
  <2>. QED
    BY <1>2, <2>2, <2>3
<1>8. Existing' = Existing /\ Approved' = Approved
    BY <1>7 DEF Existing, Approved
<1>9. TypeOK'
  <2>1. version' \in [Versions -> Row]
    BY <1>1, <1>2, <1>5, <1>7
  <2>2. item' \in [Versions -> ItemsOf]
    BY <1>1, <1>2, <1>5, <1>6 DEF ItemsOf
  <2>3. txn' \in [Requests -> NumberTxn \union ApproveTxn \union ItemTxn \union {NoTxn}]
    BY <1>1, <1>3, <1>4, FinishKeeps
  <2>4. stale' \subseteq Versions
    BY <1>1, <1>2, <1>5
  <2>. QED
    BY <1>1, <1>4, <2>1, <2>2, <2>3, <2>4 DEF TypeOK
<1>10. IsFiniteSet(Existing)' /\ OneApprovedUnlessCrossed'
    BY <1>1, <1>8 DEF IInv, OneApprovedUnlessCrossed
<1>11. TotalIsSum'
  <2>. SUFFICES ASSUME NEW w \in Existing, w \notin stale'
                PROVE  version'[w].total = Sum(item'[w])
    BY <1>8 DEF TotalIsSum, Sum
  <2>1. CASE w = v
    BY <1>1, <1>2, <1>7, <2>1
  <2>2. CASE w # v
    BY <1>1, <1>2, <2>2 DEF IInv, TotalIsSum, Existing
  <2>. QED
    BY <2>1, <2>2
<1>12. {version'[w].number : w \in Existing'} = {version[w].number : w \in Existing}
    BY <1>7, <1>8 DEF Existing
<1>13. NumbersCount'
    BY <1>1, <1>8, <1>12 DEF IInv, NumbersCount
<1>14. NextNumber' = NextNumber
    BY <1>12 DEF NextNumber
<1>15. ASSUME NEW q \in Requests
       PROVE  Numbering(q)' /\ Approving(q)' /\ Writing(q)'
  <2>1. Numbering(q) /\ Approving(q) /\ Writing(q)
    BY DEF IInv, InFlightInv
  <2>2. Numbering(q)'
    <3>1. SUFFICES ASSUME q \in InFlight("number")'
                   PROVE  /\ txn'[q].version \notin Existing'
                          /\ \A p \in InFlight("number")' \ {q} : txn'[p].version # txn'[q].version
                          /\ txn'[q].row.status = "draft"
                          /\ txn'[q].row.total = Sum(txn'[q].items)
                          /\ txn'[q].fresh => txn'[q].row.number = NextNumber'
        BY DEF Numbering, Sum
    <3>2. /\ q \in InFlight("number")
          /\ txn'[q].version = txn[q].version
          /\ txn'[q].row = txn[q].row
          /\ txn'[q].items = txn[q].items
          /\ txn'[q].fresh => txn[q].fresh
        BY <1>1, <1>3, <1>4, <3>1, FinishKeeps
    <3>3. \A p \in InFlight("number")' :
             p \in InFlight("number") /\ txn'[p].version = txn[p].version
        BY <1>1, <1>3, <1>4, FinishKeeps
    <3>. QED
        BY <1>8, <1>14, <2>1, <3>2, <3>3 DEF Numbering
  <2>3. Approving(q)'
    <3>1. SUFFICES ASSUME q \in InFlight("approve")'
                   PROVE  /\ txn'[q].version \in Existing'
                          /\ txn'[q].fresh => txn'[q].approved = Approved'
        BY DEF Approving
    <3>2. /\ q \in InFlight("approve")
          /\ txn'[q].version = txn[q].version
          /\ txn'[q].approved = txn[q].approved
          /\ txn'[q].fresh => txn[q].fresh
        BY <1>1, <1>3, <1>4, <3>1, FinishKeeps
    <3>. QED
        BY <1>8, <2>1, <3>2 DEF Approving
  <2>4. Writing(q)'
    <3>1. SUFFICES ASSUME q \in InFlight("item")'
                   PROVE  /\ txn'[q].version \in Existing'
                          /\ txn'[q].fresh =>
                                /\ txn'[q].version \notin Approved'
                                /\ txn'[q].total =
                                      Sum([item'[txn'[q].version]
                                              EXCEPT ![txn'[q].slot] = txn'[q].amount])
        BY DEF Writing, Sum
    <3>2. /\ q \in InFlight("item")
          /\ txn'[q].version = txn[q].version
          /\ txn'[q].slot = txn[q].slot
          /\ txn'[q].amount = txn[q].amount
          /\ txn'[q].total = txn[q].total
          /\ txn'[q].fresh => txn[q].fresh /\ q \notin S
        BY <1>1, <1>3, <1>4, <3>1, FinishKeeps
    <3>3. txn'[q].fresh => txn[q].version # v
        BY <3>2 DEF S, WritingItemsOf
    <3>4. txn[q].version \in Versions
        BY <2>1, <3>2 DEF Writing, Existing
    <3>5. txn'[q].fresh => item'[txn'[q].version] = item[txn[q].version]
        BY <1>2, <3>2, <3>3, <3>4
    <3>. QED
        BY <1>8, <2>1, <3>2, <3>5 DEF Writing
  <2>. QED
    BY <2>2, <2>3, <2>4
<1>16. InFlightInv'
    BY <1>15 DEF InFlightInv
<1>. QED
    BY <1>9, <1>10, <1>11, <1>13, <1>16 DEF IInv

LEMMA RollbackIInv ==
    ASSUME IInv, NEW r \in Requests, Rollback(r)
    PROVE  IInv'
<1>1. UNCHANGED <<version, item, crossed, numbered, stale>>
    BY DEF Rollback
<1>2. TypeOK /\ txn \in [Requests -> NumberTxn \union ApproveTxn \union ItemTxn \union {NoTxn}]
    BY DEF IInv, TypeOK
<1>3. Finish(r, {})
    BY <1>2 DEF Rollback, Finish
<1>4. Existing' = Existing /\ Approved' = Approved /\ NextNumber' = NextNumber
    BY <1>1 DEF Existing, Approved, NextNumber
<1>5. TypeOK'
  <2>1. txn' \in [Requests -> NumberTxn \union ApproveTxn \union ItemTxn \union {NoTxn}]
    BY <1>2 DEF Rollback
  <2>. QED
    BY <1>1, <1>2, <2>1 DEF TypeOK
<1>6. /\ IsFiniteSet(Existing)' /\ OneApprovedUnlessCrossed' /\ TotalIsSum' /\ NumbersCount'
    BY <1>1, <1>4 DEF IInv, OneApprovedUnlessCrossed, TotalIsSum, NumbersCount, Sum
<1>7. \A q \in Requests : txn'[q] = txn[q] \/ txn'[q] = NoTxn
    BY <1>2 DEF Rollback
<1>8. ASSUME NEW q \in Requests
      PROVE  Numbering(q)' /\ Approving(q)' /\ Writing(q)'
  <2>1. Numbering(q) /\ Approving(q) /\ Writing(q)
    BY DEF IInv, InFlightInv
  <2>2. \A k \in {"number", "approve", "item"}, p \in Requests :
           p \in InFlight(k)' => p \in InFlight(k) /\ txn'[p] = txn[p]
    BY <1>7 DEF InFlight
  <2>3. \A p \in InFlight("number")' :
           p \in InFlight("number") /\ txn'[p] = txn[p]
    BY <1>7 DEF InFlight
  <2>4. Numbering(q)'
    BY <1>4, <2>1, <2>2, <2>3 DEF Numbering, Sum
  <2>5. Approving(q)'
    BY <1>4, <2>1, <2>2 DEF Approving
  <2>6. Writing(q)'
    BY <1>1, <1>4, <2>1, <2>2 DEF Writing, Sum
  <2>. QED
    BY <2>4, <2>5, <2>6
<1>. QED
    BY <1>5, <1>6, <1>8 DEF IInv, InFlightInv

LEMMA StutterIInv == IInv /\ UNCHANGED vars => IInv'
<1>. SUFFICES ASSUME IInv, UNCHANGED vars PROVE IInv'
    OBVIOUS
<1>1. UNCHANGED <<version, item, txn, crossed, numbered, stale>>
    BY DEF vars
<1>2. Existing' = Existing /\ Approved' = Approved /\ NextNumber' = NextNumber
    BY <1>1 DEF Existing, Approved, NextNumber
<1>3. \A k \in {"number", "approve", "item"} : InFlight(k)' = InFlight(k)
    BY <1>1 DEF InFlight
<1>4. TypeOK'
    BY <1>1 DEF IInv, TypeOK
<1>5. /\ IsFiniteSet(Existing)' /\ OneApprovedUnlessCrossed' /\ TotalIsSum' /\ NumbersCount'
    BY <1>1, <1>2 DEF IInv, OneApprovedUnlessCrossed, TotalIsSum, NumbersCount, Sum
<1>6. ASSUME NEW r \in Requests
      PROVE  Numbering(r)' /\ Approving(r)' /\ Writing(r)'
  <2>1. Numbering(r) /\ Approving(r) /\ Writing(r)
    BY DEF IInv, InFlightInv
  <2>. QED
    BY <1>1, <1>2, <1>3, <2>1 DEF Numbering, Approving, Writing, Sum
<1>. QED
    BY <1>4, <1>5, <1>6 DEF IInv, InFlightInv

-----------------------------------------------------------------------------

LEMMA StepIInv == IInv /\ [Next]_vars => IInv'
<1>. SUFFICES ASSUME IInv, [Next]_vars PROVE IInv'
    OBVIOUS
<1>1. ASSUME NEW r \in Requests, NEW v \in Versions, CreateBudgetVersion(r, v)
      PROVE  IInv'
    BY <1>1, CreateIInv
<1>2. ASSUME NEW r \in Requests, NEW v \in Versions, NEW source \in Versions,
             CopyBudgetVersion(r, v, source)
      PROVE  IInv'
    BY <1>2, CopyIInv
<1>3. ASSUME NEW r \in Requests, NEW v \in Versions, ApproveBudgetVersion(r, v)
      PROVE  IInv'
    BY <1>3, ApproveIInv
<1>4. ASSUME NEW r \in Requests, NEW v \in Versions, NEW s \in Slots,
             NEW a \in Amounts \union {NoItem}, WriteItem(r, v, s, a)
      PROVE  IInv'
    BY <1>4, WriteItemIInv
<1>5. ASSUME NEW r \in Requests, CommitNumber(r) PROVE IInv'
    BY <1>5, CommitNumberIInv
<1>6. ASSUME NEW r \in Requests, CommitApprove(r) PROVE IInv'
    BY <1>6, CommitApproveIInv
<1>7. ASSUME NEW r \in Requests, CommitItem(r) PROVE IInv'
    BY <1>7, CommitItemIInv
<1>8. ASSUME NEW r \in Requests, Rollback(r) PROVE IInv'
    BY <1>8, RollbackIInv
<1>9. CASE UNCHANGED vars
    BY <1>9, StutterIInv
<1>. QED
    BY <1>1, <1>2, <1>3, <1>4, <1>5, <1>6, <1>7, <1>8, <1>9 DEF Next

LEMMA Inductive == Spec => []IInv
BY InitIInv, StepIInv, PTL DEF Spec

\* Every reachable state is well-typed, the totals integers.
THEOREM TypeCorrect == Spec => []TypeOK
<1>1. IInv => TypeOK
    BY DEF IInv
<1>. QED
    BY <1>1, Inductive, PTL

\* approve_budget_version leaves one version approved, unless two approvals
\* overlapped.
THEOREM OneApproved == Spec => []OneApprovedUnlessCrossed
<1>1. IInv => OneApprovedUnlessCrossed
    BY DEF IInv
<1>. QED
    BY <1>1, Inductive, PTL

\* _recalculate_version_totals keeps the total of a version the sum of its items,
\* however many, unless two requests changed items of it at the same time.
THEOREM TotalsAreSums == Spec => []TotalIsSum
<1>1. IInv => TotalIsSum
    BY DEF IInv
<1>. QED
    BY <1>1, Inductive, PTL

\* create_budget_version and copy_budget_version number the versions 1, 2, 3, ...
\* unless two of them took the same maximum.
THEOREM NumbersAreConsecutive == Spec => []NumbersCount
<1>1. IInv => NumbersCount
    BY DEF IInv
<1>. QED
    BY <1>1, Inductive, PTL

\* No step changes an item or a total of an approved version, but an item request
\* that had read the version before the approval.
LEMMA StepFrozen ==
    ASSUME IInv, [Next]_vars, NEW v \in Approved \ stale'
    PROVE  item'[v] = item[v] /\ version'[v].total = version[v].total
<1>1. v \in Versions /\ v \in Existing
    BY DEF Approved, Existing
<1>2. ASSUME NEW r \in Requests, CommitNumber(r)
      PROVE  item'[v] = item[v] /\ version'[v] = version[v]
  <2>1. txn[r].version # v
    BY <1>1, <1>2 DEF CommitNumber, IInv, InFlightInv, Numbering
  <2>2. version \in [Versions -> Row] /\ item \in [Versions -> ItemsOf]
    BY DEF IInv, TypeOK
  <2>. QED
    BY <1>1, <1>2, <2>1, <2>2 DEF CommitNumber
<1>3. ASSUME NEW r \in Requests, CommitApprove(r)
      PROVE  item'[v] = item[v] /\ version'[v].total = version[v].total
  <2>1. version[v] \in Row
    BY <1>1 DEF IInv, TypeOK
  <2>. QED
    BY <1>1, <1>3, <2>1 DEF CommitApprove, Row
<1>4. ASSUME NEW r \in Requests, CommitItem(r)
      PROVE  item'[v] = item[v] /\ version'[v] = version[v]
  <2>1. txn[r].version # v
    BY <1>4, CommitItemEffect DEF CommitItem
  <2>. QED
    BY <1>1, <1>4, <2>1, CommitItemEffect
<1>5. CASE UNCHANGED <<version, item>>
    BY <1>5
<1>6. \/ \E r \in Requests : CommitNumber(r) \/ CommitApprove(r) \/ CommitItem(r)
      \/ UNCHANGED <<version, item>>
    BY ZenonT(60) DEF Next, vars, CreateBudgetVersion, CopyBudgetVersion, ApproveBudgetVersion,
           WriteItem, Work, Rollback
<1>. QED
    BY <1>2, <1>3, <1>4, <1>5, <1>6

\* No step changes the items or the total of an approved version, for any number
\* of versions, items and requests, but the commit of an item request that has
\* read the version before it was approved (the guard of create_boq_item).
THEOREM ApprovedStaysFrozen == Spec => ApprovedIsFrozen
<1>1. IInv /\ [Next]_vars =>
         [\A v \in Approved \ stale' :
             /\ item'[v] = item[v]
             /\ version'[v].total = version[v].total]_vars
    BY StepFrozen
<1>. QED
    BY <1>1, Inductive, PTL DEF Spec, ApprovedIsFrozen

-----------------------------------------------------------------------------
(* One request at a time.  The exceptions of the properties are overlaps of *)
(* requests and nothing else: without overlap there are none.               *)

OneClient == \A q, r \in Requests : q = r

AloneInv ==
    /\ \A r \in Requests : txn[r] # NoTxn => txn[r].fresh
    /\ ~crossed /\ ~numbered /\ stale = {}

LEMMA AloneStep ==
    ASSUME OneClient, IInv, AloneInv, [Next]_vars
    PROVE  AloneInv'
<1>1. ASSUME NEW r \in Requests, NEW t, Work(r, t), t.fresh
      PROVE  AloneInv'
  <2>1. txn' = [txn EXCEPT ![r] = t] /\ UNCHANGED <<crossed, numbered, stale>>
    BY <1>1 DEF Work
  <2>2. txn'[r] = t /\ \A q \in Requests : q = r
    BY <2>1 DEF IInv, TypeOK, OneClient
  <2>. QED
    BY <1>1, <2>1, <2>2 DEF AloneInv
<1>2. ASSUME NEW r \in Requests,
             \/ CommitNumber(r) \/ CommitApprove(r) \/ CommitItem(r) \/ Rollback(r)
      PROVE  AloneInv'
  <2>1. txn[r] # NoTxn
    BY <1>2 DEF CommitNumber, CommitApprove, CommitItem, Rollback, InFlight
  <2>2. txn[r].fresh
    BY <2>1 DEF AloneInv
  <2>3. txn'[r] = NoTxn /\ \A q \in Requests : q = r
    BY <1>2 DEF CommitNumber, CommitApprove, CommitItem, Rollback, Finish, OneClient, IInv, TypeOK
  <2>4. ~crossed /\ ~numbered /\ stale = {}
    BY DEF AloneInv
  <2>5. \A q \in Requests : txn'[q] = NoTxn
    BY <2>3
  <2>6. CASE CommitNumber(r)
    BY <2>2, <2>4, <2>5, <2>6 DEF CommitNumber, AloneInv
  <2>7. CASE CommitApprove(r)
    BY <2>2, <2>4, <2>5, <2>7 DEF CommitApprove, AloneInv
  <2>8. CASE CommitItem(r)
    BY <2>2, <2>4, <2>5, <2>8 DEF CommitItem, AloneInv
  <2>9. CASE Rollback(r)
    BY <2>4, <2>5, <2>9 DEF Rollback, AloneInv
  <2>. QED
    BY <1>2, <2>6, <2>7, <2>8, <2>9
<1>3. CASE UNCHANGED vars
    BY <1>3 DEF vars, AloneInv
<1>4. ASSUME NEW r \in Requests, NEW v \in Versions,
             \/ CreateBudgetVersion(r, v)
             \/ \E source \in Versions : CopyBudgetVersion(r, v, source)
             \/ ApproveBudgetVersion(r, v)
             \/ \E s \in Slots, a \in Amounts \union {NoItem} : WriteItem(r, v, s, a)
      PROVE  \E t : Work(r, t) /\ t.fresh
  <2>1. CASE CreateBudgetVersion(r, v)
      BY <2>1 DEF CreateBudgetVersion
  <2>2. CASE \E source \in Versions : CopyBudgetVersion(r, v, source)
      BY <2>2 DEF CopyBudgetVersion
  <2>3. CASE ApproveBudgetVersion(r, v)
      BY <2>3 DEF ApproveBudgetVersion
  <2>4. CASE \E s \in Slots, a \in Amounts \union {NoItem} : WriteItem(r, v, s, a)
      BY <2>4 DEF WriteItem
  <2>. QED
    BY <1>4, <2>1, <2>2, <2>3, <2>4
<1>. QED
    BY <1>1, <1>2, <1>3, <1>4 DEF Next

\* A client that sends one request at a time gets what the service promises
\* without exception: one approved version at most, every total the sum of its
\* items, versions numbered 1, 2, 3, ...
THEOREM AloneAsPromised ==
    ASSUME OneClient
    PROVE  Spec => [](/\ \A u, v \in Approved : u = v
                      /\ \A v \in Existing : version[v].total = Sum(item[v])
                      /\ {version[v].number : v \in Existing} = 1..Cardinality(Existing))
<1>1. Init => AloneInv
    BY DEF Init, AloneInv
<1>2. IInv /\ AloneInv /\ [Next]_vars => AloneInv'
    BY AloneStep
<1>3. IInv /\ AloneInv => /\ \A u, v \in Approved : u = v
                          /\ \A v \in Existing : version[v].total = Sum(item[v])
                          /\ {version[v].number : v \in Existing} = 1..Cardinality(Existing)
    BY DEF IInv, AloneInv, OneApprovedUnlessCrossed, TotalIsSum, NumbersCount
<1>. QED
    BY <1>1, <1>2, <1>3, Inductive, PTL DEF Spec

================================================================================
