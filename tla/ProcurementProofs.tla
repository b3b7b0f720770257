--------------------------- MODULE ProcurementProofs ---------------------------
(***************************************************************************)
(* Proofs about Procurement, for any number of orders and items, any       *)
(* receipts, of negative quantities too, and any number of requests in     *)
(* flight.                                                                 *)
(***************************************************************************)
EXTENDS Procurement, AggregateTheorems

\* How many lines of its receipt a request has received.
Done(t) == Len(t.lines) - Len(t.todo)

\* What the lines of a receipt list for an item, line by line.
ListedBy(lines, p) ==
    [n \in DOMAIN lines |-> IF lines[n].item = p THEN lines[n].quantity ELSE 0]

\* A status request has read the status it moves on from.
StatusInv(t) ==
    \/ t.loaded = "draft" /\ t.to = "pending_approval"
    \/ t.loaded = "pending_approval" /\ t.to \in {"approved", "rejected"}

\* A receipt holds the items it has received, each with what is committed and
\* what its lines add to it so far; and its order has been approved.
GrnInv(t) ==
    /\ Len(t.todo) <= Len(t.lines)
    /\ \A n \in 1..Len(t.todo) : t.todo[n] = t.lines[Done(t) + n]
    /\ \A p \in Items :
          LET sofar == SumFunctionOnSet(ListedBy(t.lines, p), 1..Done(t))
          IN  IF p \in t.locked THEN t.value[p] = received[p] + sofar ELSE sofar = 0
    /\ t.summed => t.todo = <<>>
    /\ po[t.order].approvedBy

TxnInv(r) ==
    txn[r] # NoTxn =>
        IF txn[r].kind = "grn" THEN GrnInv(txn[r]) ELSE StatusInv(txn[r])

\* No two receipts hold the same item.
LocksExclude ==
    \A r, q \in Requests :
        Receiving(r) /\ Receiving(q) /\ r # q => txn[r].locked \intersect txn[q].locked = {}

ApprovedInv ==
    \A o \in Orders :
        po[o].status \in {"approved", "partially_received", "fully_received"}
        => po[o].approvedBy

IInv ==
    /\ TypeOK
    /\ \A r \in Requests : TxnInv(r)
    /\ LocksExclude
    /\ ApprovedInv
    /\ ReceiptsAddUp
    /\ GoodsNeedApproval
    /\ StatusTellsReceipt

\* Who receives goods has the columns of a receipt.
LEMMA ReceivesType ==
    ASSUME TypeOK, NEW r \in Requests
    PROVE  /\ Receiving(r) => txn[r] \in GrnTxn
           /\ txn[r] # NoTxn /\ txn[r].kind = "status" => txn[r] \in StatusTxn
           /\ txn[r] # NoTxn => Receiving(r) \/ txn[r].kind = "status"
           /\ Receiving(r) => txn[r].kind # "status"
<1>1. txn[r] \in StatusTxn \union GrnTxn \union {NoTxn}
    BY DEF TypeOK
<1>2. \A t \in StatusTxn : t.kind = "status"
    BY DEF StatusTxn
<1>3. \A t \in GrnTxn : t.kind = "grn"
    BY DEF GrnTxn
<1>. QED
    BY <1>1, <1>2, <1>3 DEF Receiving

LEMMA GrnType ==
    ASSUME NEW t \in GrnTxn
    PROVE  /\ t.order \in Orders /\ t.lines \in Deliveries
           /\ t.todo \in Seq([item : Items, quantity : Int])
           /\ t.locked \in SUBSET Items /\ t.value \in [Items -> Int]
           /\ t.summed \in BOOLEAN /\ t.sum \in Int
BY DEF GrnTxn

\* How many lines are done, and after one more.
LEMMA Counting ==
    ASSUME NEW all \in Nat, NEW left \in Nat, left # 0, left <= all
    PROVE  /\ all - left \in Nat /\ all - left < all /\ all - left <= all
           /\ all - (left - 1) = (all - left) + 1
           /\ left - 1 <= all /\ left >= 1
OBVIOUS

LEMMA Shifting ==
    ASSUME NEW k \in Nat, NEW n \in Int
    PROVE  k + (n + 1) = (k + 1) + n
OBVIOUS

\* What a sequence of lines, its head and its tail consist of.
LEMMA LinesType ==
    ASSUME NEW Line, NEW lines \in Seq(Line)
    PROVE  /\ DOMAIN lines = 1..Len(lines) /\ Len(lines) \in Nat
           /\ \A n \in 1..Len(lines) : lines[n] \in Line
           /\ lines = <<>> <=> Len(lines) = 0
           /\ lines # <<>> =>
                 /\ Head(lines) = lines[1] /\ Head(lines) \in Line
                 /\ Tail(lines) \in Seq(Line)
                 /\ Len(Tail(lines)) = Len(lines) - 1
                 /\ \A n \in 1..(Len(lines) - 1) : Tail(lines)[n] = lines[n + 1]
OBVIOUS

\* What the first lines of a receipt list for an item grows line by line.
LEMMA SofarGrows ==
    ASSUME NEW lines \in Deliveries, NEW p \in Items,
           NEW k \in Nat, k <= Len(lines)
    PROVE  /\ SumFunctionOnSet(ListedBy(lines, p), 1..k) \in Int
           /\ k = 0 => SumFunctionOnSet(ListedBy(lines, p), 1..k) = 0
           /\ k = Len(lines) =>
                 SumFunctionOnSet(ListedBy(lines, p), 1..k) = Delivered(lines, p)
           /\ k < Len(lines) =>
                 SumFunctionOnSet(ListedBy(lines, p), 1..(k + 1)) =
                    (IF lines[k + 1].item = p THEN lines[k + 1].quantity ELSE 0)
                    + SumFunctionOnSet(ListedBy(lines, p), 1..k)
<1>. DEFINE f == ListedBy(lines, p)
<1>1. DOMAIN lines = 1..Len(lines) /\ Len(lines) \in Nat
      /\ \A n \in 1..Len(lines) : lines[n] \in [item : Items, quantity : Int]
    BY LinesType, DeliveriesAssumption
<1>2. ASSUME NEW n \in 1..Len(lines)
      PROVE  f[n] = (IF lines[n].item = p THEN lines[n].quantity ELSE 0) /\ f[n] \in Int
  <2>1. lines[n] \in [item : Items, quantity : Int]
    BY <1>1
  <2>2. lines[n].quantity \in Int
    BY <2>1
  <2>3. f[n] = IF lines[n].item = p THEN lines[n].quantity ELSE 0
    BY <1>1 DEF ListedBy
  <2>. QED
    BY <2>2, <2>3
<1>3. IsFiniteSet(1..k)
    BY FS_Interval
<1>4. \A n \in 1..k : f[n] \in Int
    BY <1>1, <1>2
<1>. HIDE DEF f
<1>5. SumFunctionOnSet(f, 1..k) \in Int
    BY <1>3, <1>4, SumType
<1>6. k = 0 => SumFunctionOnSet(f, 1..k) = 0
  <2>1. k = 0 => 1..k = {}
    OBVIOUS
  <2>. QED
    BY <2>1, SumEmpty
<1>7. k = Len(lines) => SumFunctionOnSet(f, 1..k) = Delivered(lines, p)
    BY <1>1 DEF f, ListedBy, Delivered
<1>8. ASSUME k < Len(lines)
      PROVE  SumFunctionOnSet(f, 1..(k + 1)) =
                (IF lines[k + 1].item = p THEN lines[k + 1].quantity ELSE 0)
                + SumFunctionOnSet(f, 1..k)
  <2>1. k + 1 \in 1..Len(lines) /\ k + 1 \notin 1..k /\ 1..(k + 1) = 1..k \union {k + 1}
    BY <1>1, <1>8
  <2>2. f[k + 1] = (IF lines[k + 1].item = p THEN lines[k + 1].quantity ELSE 0)
        /\ f[k + 1] \in Int
    BY <1>2, <2>1
  <2>3. SumFunctionOnSet(f, 1..k \union {k + 1}) = f[k + 1] + SumFunctionOnSet(f, 1..k)
    BY <1>3, <1>4, <2>1, <2>2, SumAdd
  <2>. QED
    BY <2>1, <2>2, <2>3
<1>. QED
    BY <1>5, <1>6, <1>7, <1>8 DEF f

\* The sums over the items of an order are integers.
LEMMA SumsType ==
    ASSUME TypeOK, NEW o \in Orders
    PROVE  /\ IsFiniteSet(ItemsOf(o)) /\ ItemsOf(o) \subseteq Items
           /\ OrderedOn(o) \in Int /\ SumOn(o) \in Int
<1>1. ItemsOf(o) \subseteq Items
    BY DEF ItemsOf
<1>2. IsFiniteSet(ItemsOf(o))
    BY <1>1, FS_Subset, ItemsAssumption
<1>3. (\A p \in ItemsOf(o) : Ordered[p] \in Int) /\ (\A p \in ItemsOf(o) : received[p] \in Int)
    BY <1>1, ItemsAssumption DEF TypeOK
<1>4. /\ SumFunctionOnSet(Ordered, ItemsOf(o)) \in Int
      /\ SumFunctionOnSet(received, ItemsOf(o)) \in Int
    BY <1>2, <1>3, SumType
<1>. QED
    BY <1>1, <1>2, <1>4 DEF OrderedOn, SumOn

\* A receipt in flight sees integers, and its sum is one.
LEMMA SeenType ==
    ASSUME TypeOK, NEW t \in GrnTxn
    PROVE  (\A p \in Items : Seen(t, p) \in Int) /\ SumSeen(t) \in Int
<1>1. \A p \in Items : Seen(t, p) \in Int
    BY GrnType DEF Seen, TypeOK
<1>2. t.order \in Orders
    BY GrnType
<1>. DEFINE f == [p \in Items |-> Seen(t, p)]
<1>3. IsFiniteSet(ItemsOf(t.order)) /\ ItemsOf(t.order) \subseteq Items
    BY <1>2, SumsType
<1>4. \A p \in ItemsOf(t.order) : f[p] \in Int
    BY <1>1, <1>3
<1>5. SumFunctionOnSet(f, ItemsOf(t.order)) \in Int
  <2>. HIDE DEF f
  <2>. QED
    BY <1>3, <1>4, SumType
<1>. QED
    BY <1>1, <1>5 DEF SumSeen

LEMMA InitIInv ==
    ASSUME Init
    PROVE  IInv
<1>. USE DEF Init
<1>1. TypeOK
  <2>. DEFINE no == FALSE row == [status |-> "draft", approvedBy |-> no]
  <2>1. row \in Order
    <3>1. no \in BOOLEAN
      OBVIOUS
    <3>. HIDE DEF no
    <3>. QED
      BY <3>1 DEF Order, Status
  <2>2. po = [o \in Orders |-> row]
    OBVIOUS
  <2>3. po \in [Orders -> Order]
    <3>. HIDE DEF row
    <3>. QED
      BY <2>1, <2>2
  <2>. QED
    BY <2>3 DEF TypeOK
<1>2. \A r \in Requests : TxnInv(r)
    BY DEF TxnInv
<1>3. LocksExclude
    BY DEF LocksExclude, Receiving
<1>4. ApprovedInv
    BY DEF ApprovedInv
<1>5. ReceiptsAddUp /\ GoodsNeedApproval
    BY ItemsAssumption DEF ReceiptsAddUp, GoodsNeedApproval
<1>6. StatusTellsReceipt
  <2>1. ASSUME NEW o \in Orders
        PROVE  SumOn(o) = 0
    <3>1. IsFiniteSet(ItemsOf(o)) /\ ItemsOf(o) \subseteq Items
      BY <1>1, SumsType
    <3>2. \A p \in ItemsOf(o) : received[p] = 0
      BY <3>1
    <3>. QED
      BY <3>1, <3>2, SumZero DEF SumOn
  <2>. QED
    BY <2>1 DEF StatusTellsReceipt
<1>. QED
    BY <1>1, <1>2, <1>3, <1>4, <1>5, <1>6 DEF IInv

\* A request that leaves its slot as it is keeps what it knows, when its items
\* stay as they were and approvals stand.
LEMMA KeepsTxnInv ==
    ASSUME IInv, NEW r \in Requests, txn'[r] = txn[r],
           Receiving(r) => \A p \in txn[r].locked : received'[p] = received[p],
           \A o \in Orders : po[o].approvedBy => po'[o].approvedBy
    PROVE  TxnInv(r)'
<1>1. CASE txn[r] = NoTxn
    BY <1>1 DEF TxnInv
<1>2. CASE txn[r] # NoTxn /\ txn[r].kind # "grn"
  <2>1. StatusInv(txn[r])
    BY <1>2 DEF IInv, TxnInv
  <2>2. txn[r]' = txn[r]
    OBVIOUS
  <2>3. StatusInv(txn[r])'
    BY <2>1, <2>2 DEF StatusInv
  <2>. QED
    BY <1>2, <2>2, <2>3, Zenon DEF TxnInv
<1>3. CASE Receiving(r)
  <2>. DEFINE t == txn[r]
  <2>1. GrnInv(t) /\ t.order \in Orders
    BY <1>3, ReceivesType, GrnType, Zenon DEF IInv, TxnInv, Receiving
  <2>2. t' = t
    OBVIOUS
  <2>3. \A p \in t.locked : received'[p] = received[p]
    BY <1>3
  <2>4. t.order \in Orders => po'[t.order].approvedBy
    BY <2>1 DEF GrnInv
  <2>5. GrnInv(t)'
    <3>. HIDE DEF t
    <3>. QED
      BY <2>1, <2>2, <2>3, <2>4 DEF GrnInv, Done, ListedBy
  <2>. QED
    BY <1>3, <2>2, <2>5, Zenon DEF TxnInv, Receiving
<1>. QED
    BY <1>1, <1>2, <1>3 DEF Receiving

\* A step that changes the request of one slot only preserves the invariant, if
\* the new request knows what it has to and holds no item another one holds.
LEMMA OnlyIInv ==
    ASSUME IInv, NEW r \in Requests, NEW t \in StatusTxn \union GrnTxn \union {NoTxn},
           Only(r, t), TxnInv(r)',
           \A q \in Requests \ {r} :
              Receiving(q) /\ t # NoTxn /\ t.kind = "grn" => t.locked \intersect txn[q].locked = {}
    PROVE  IInv'
<1>1. TypeOK'
    BY DEF Only, IInv, TypeOK
<1>2. txn'[r] = t /\ \A q \in Requests \ {r} : txn'[q] = txn[q]
    BY DEF Only, IInv, TypeOK
<1>3. UNCHANGED <<po, received, listed, crossed, missed, misdirected>>
    BY DEF Only
<1>4. ASSUME NEW q \in Requests
      PROVE  TxnInv(q)'
    BY <1>2, <1>3, KeepsTxnInv
<1>5. LocksExclude'
  <2>1. ASSUME NEW q \in Requests \ {r}
        PROVE  Receiving(q)' <=> Receiving(q)
    BY <1>2 DEF Receiving
  <2>2. Receiving(r)' <=> t # NoTxn /\ t.kind = "grn"
    BY <1>2 DEF Receiving
  <2>3. ASSUME NEW u \in Requests, NEW q \in Requests, Receiving(u)', Receiving(q)', u # q
        PROVE  txn'[u].locked \intersect txn'[q].locked = {}
    <3>1. CASE u = r
      BY <1>2, <2>1, <2>2, <2>3, <3>1
    <3>2. CASE q = r
      BY <1>2, <2>1, <2>2, <2>3, <3>2
    <3>3. CASE u # r /\ q # r
      BY <1>2, <2>1, <2>3, <3>3 DEF IInv, LocksExclude
    <3>. QED
      BY <3>1, <3>2, <3>3
  <2>. QED
    BY <2>3, Zenon DEF LocksExclude
<1>6. ApprovedInv' /\ ReceiptsAddUp' /\ GoodsNeedApproval'
    BY <1>3 DEF IInv, ApprovedInv, ReceiptsAddUp, GoodsNeedApproval
<1>7. StatusTellsReceipt'
    BY <1>3 DEF IInv, StatusTellsReceipt, SumOn, OrderedOn
<1>. QED
    BY <1>1, <1>4, <1>5, <1>6, <1>7 DEF IInv

LEMMA MoveIInv ==
    ASSUME IInv, NEW r \in Requests, NEW o \in Orders, NEW from \in Status, NEW to \in Status,
           \/ from = "draft" /\ to = "pending_approval"
           \/ from = "pending_approval" /\ to \in {"approved", "rejected"},
           Move(r, o, from, to)
    PROVE  IInv'
<1>. DEFINE status == "status"
            t == [kind |-> status, order |-> o, loaded |-> from, to |-> to]
<1>1. status = "status" /\ status # "grn"
    OBVIOUS
<1>2. Only(r, t)
    BY DEF Move
<1>. HIDE DEF status
<1>3. t \in StatusTxn
    BY <1>1 DEF StatusTxn
<1>4. t.kind # "grn" /\ StatusInv(t)
    BY <1>1 DEF StatusInv
<1>. HIDE DEF t
<1>5. txn'[r] = t
    BY <1>2 DEF Only, IInv, TypeOK
<1>6. TxnInv(r)'
  <2>1. txn[r]' = t
    BY <1>5
  <2>2. StatusInv(txn[r])'
    BY <1>4, <2>1 DEF StatusInv
  <2>. QED
    BY <1>4, <2>1, <2>2, Zenon DEF TxnInv
<1>. QED
    BY <1>2, <1>3, <1>4, <1>6, OnlyIInv, Zenon

LEMMA CreateGrnIInv ==
    ASSUME IInv, NEW r \in Requests, NEW o \in Orders,
           NEW lines \in Deliveries, CreateGrn(r, o, lines)
    PROVE  IInv'
<1>. DEFINE grn == "grn" no == FALSE none == {}
            zero == [p \in Items |-> 0]
            t == [kind |-> grn, order |-> o, lines |-> lines, todo |-> lines,
                  locked |-> none, value |-> zero, summed |-> no, sum |-> 0]
<1>1. grn = "grn" /\ no = FALSE /\ no \in BOOLEAN /\ none = {} /\ none \in SUBSET Items
      /\ zero \in [Items -> Int]
    OBVIOUS
<1>2. Only(r, t)
    BY DEF CreateGrn
<1>3. po[o].approvedBy
    BY DEF CreateGrn, IInv, ApprovedInv
<1>4. lines \in Seq([item : Items, quantity : Int])
    BY DeliveriesAssumption
<1>. HIDE DEF grn, no, none, zero
<1>5. t \in GrnTxn
    BY <1>1, <1>4 DEF GrnTxn
<1>6. /\ t.kind = "grn" /\ t.locked = {} /\ ~t.summed /\ t.order = o
      /\ t.todo = lines /\ t.lines = lines
    BY <1>1
<1>. HIDE DEF t
<1>7. txn'[r] = t
    BY <1>2 DEF Only, IInv, TypeOK
<1>8. txn[r]' = t
    BY <1>7
<1>9. GrnInv(txn[r])'
  <2>1. Len(lines) \in Nat
    BY <1>4, LinesType
  <2>2. Done(t) = 0
    BY <1>6, <2>1 DEF Done
  <2>3. \A p \in Items : SumFunctionOnSet(ListedBy(lines, p), 1..0) = 0
    BY <2>1, SofarGrows
  <2>4. UNCHANGED po
    BY <1>2 DEF Only
  <2>5. Done(txn[r])' = 0
    BY <1>8, <2>2 DEF Done
  <2>6. \A p \in Items : ListedBy(txn[r].lines, p)' = ListedBy(lines, p)
    BY <1>6, <1>8 DEF ListedBy
  <2>7. txn'[r].lines = lines /\ txn'[r].todo = lines /\ txn'[r].locked = {} /\ ~txn'[r].summed
        /\ txn'[r].order = o
    BY <1>6, <1>8
  <2>8. \A n \in 1..Len(lines) : lines[n] = lines[0 + n]
    BY <2>1
  <2>9. po'[o].approvedBy
    BY <1>3, <2>4
  <2>. QED
    BY <2>1, <2>3, <2>5, <2>6, <2>7, <2>8, <2>9 DEF GrnInv
<1>10. TxnInv(r)'
    BY <1>6, <1>8, <1>9, Zenon DEF TxnInv
<1>. QED
    BY <1>2, <1>5, <1>6, <1>10, OnlyIInv

LEMMA ReceiveLineIInv ==
    ASSUME IInv, NEW r \in Requests, ReceiveLine(r)
    PROVE  IInv'
<1>. DEFINE t == txn[r] line == Head(t.todo) p == line.item
            q == Seen(t, p) + line.quantity
            u == [t EXCEPT !.todo = Tail(@), !.locked = @ \union {p}, !.value[p] = q]
<1>1. Receiving(r) /\ t.todo # <<>> /\ (p \notin t.locked => ~Locked(p)) /\ Only(r, u)
    BY DEF ReceiveLine
<1>2. t \in GrnTxn /\ t.kind = "grn" /\ GrnInv(t) /\ TypeOK
    BY <1>1, ReceivesType, Zenon DEF IInv, TxnInv, Receiving
<1>. HIDE DEF t
<1>3. /\ t.order \in Orders /\ t.lines \in Deliveries /\ t.value \in [Items -> Int]
      /\ t.todo \in Seq([item : Items, quantity : Int]) /\ t.locked \in SUBSET Items
      /\ t.summed \in BOOLEAN /\ t.sum \in Int
    BY <1>2, GrnType
<1>4. /\ line \in [item : Items, quantity : Int]
      /\ Tail(t.todo) \in Seq([item : Items, quantity : Int])
      /\ line = t.todo[1] /\ Len(t.todo) \in Nat /\ Len(t.todo) >= 1
      /\ Len(Tail(t.todo)) = Len(t.todo) - 1
      /\ \A n \in 1..(Len(t.todo) - 1) : Tail(t.todo)[n] = t.todo[n + 1]
  <2>1. /\ Len(t.todo) \in Nat /\ Len(t.todo) # 0
        /\ Head(t.todo) = t.todo[1] /\ Head(t.todo) \in [item : Items, quantity : Int]
        /\ Tail(t.todo) \in Seq([item : Items, quantity : Int])
        /\ Len(Tail(t.todo)) = Len(t.todo) - 1
        /\ \A n \in 1..(Len(t.todo) - 1) : Tail(t.todo)[n] = t.todo[n + 1]
    <3>. DEFINE Line == [item : Items, quantity : Int]
    <3>1. t.todo \in Seq(Line) /\ t.todo # <<>>
      BY <1>1, <1>3
    <3>. HIDE DEF Line
    <3>2. /\ Len(t.todo) \in Nat /\ Len(t.todo) # 0
          /\ Head(t.todo) = t.todo[1] /\ Head(t.todo) \in Line
          /\ Tail(t.todo) \in Seq(Line)
          /\ Len(Tail(t.todo)) = Len(t.todo) - 1
          /\ \A n \in 1..(Len(t.todo) - 1) : Tail(t.todo)[n] = t.todo[n + 1]
      BY <3>1, LinesType
    <3>. QED
      BY <3>2 DEF Line
  <2>2. Len(t.todo) >= 1
    BY <2>1
  <2>. QED
    BY <2>1, <2>2
<1>. HIDE DEF line
<1>5. p \in Items /\ line.quantity \in Int
    BY <1>4
<1>6. q \in Int /\ q = (IF p \in t.locked THEN t.value[p] ELSE received[p]) + line.quantity
  <2>1. Seen(t, p) \in Int
    BY <1>2, <1>5, SeenType
  <2>. QED
    BY <1>5, <2>1 DEF Seen
<1>. HIDE DEF p, q
<1>7. u \in GrnTxn /\ u.kind = "grn" /\ u.lines = t.lines /\ u.order = t.order
      /\ u.todo = Tail(t.todo) /\ u.summed = t.summed
      /\ u.locked = t.locked \union {p} /\ u.value = [t.value EXCEPT ![p] = q]
  <2>. DEFINE todo == Tail(t.todo) locked == t.locked \union {p}
              value == [t.value EXCEPT ![p] = q]
  <2>1. u = [t EXCEPT !.todo = todo, !.locked = locked, !.value = value]
    BY <1>2 DEF GrnTxn
  <2>2. todo \in Seq([item : Items, quantity : Int]) /\ locked \in SUBSET Items
        /\ value \in [Items -> Int]
    BY <1>3, <1>4, <1>5, <1>6
  <2>. HIDE DEF u, todo, locked, value
  <2>3. u \in GrnTxn /\ u.kind = t.kind /\ u.lines = t.lines /\ u.order = t.order
        /\ u.todo = todo /\ u.summed = t.summed /\ u.locked = locked /\ u.value = value
    BY <1>2, <2>1, <2>2 DEF GrnTxn
  <2>. QED
    BY <1>2, <2>3 DEF todo, locked, value
<1>. HIDE DEF u
<1>8. txn[r]' = u
    BY <1>1, <1>2 DEF Only, TypeOK
<1>9. UNCHANGED <<po, received>>
    BY <1>1 DEF Only
<1>. DEFINE k == Done(t)
<1>10. k \in Nat /\ k < Len(t.lines) /\ k <= Len(t.lines) /\ Len(t.lines) \in Nat /\ Done(u) = k + 1
       /\ line = t.lines[k + 1] /\ k = Len(t.lines) - Len(t.todo)
  <2>1. Len(t.lines) \in Nat
    BY <1>3, LinesType, DeliveriesAssumption
  <2>2. Len(t.todo) <= Len(t.lines)
    BY <1>2 DEF GrnInv
  <2>3. 1 \in 1..Len(t.todo)
    BY <1>4
  <2>4. t.todo[1] = t.lines[Done(t) + 1]
    BY <1>2, <2>3 DEF GrnInv
  <2>5. Len(t.todo) \in Nat /\ Len(t.todo) # 0 /\ Len(u.todo) = Len(t.todo) - 1
    BY <1>4, <1>7
  <2>6. k \in Nat /\ k < Len(t.lines) /\ k = Len(t.lines) - Len(t.todo)
    BY <2>1, <2>2, <2>5, Counting, Zenon DEF Done
  <2>7. Done(u) = k + 1
    BY <1>7, <2>1, <2>2, <2>5, Counting, Zenon DEF Done
  <2>8. line = t.lines[k + 1]
    BY <1>4, <2>4
  <2>9. k <= Len(t.lines)
    BY <2>1, <2>2, <2>5, Counting, Zenon DEF Done
  <2>. QED
    BY <2>1, <2>6, <2>7, <2>8, <2>9
<1>. HIDE DEF k
<1>11. GrnInv(txn[r])'
  <2>1. Len(u.todo) <= Len(u.lines)
    BY <1>4, <1>7, <1>10
  <2>2. ASSUME NEW n \in 1..Len(u.todo)
        PROVE  u.todo[n] = u.lines[Done(u) + n]
    <3>1. n \in 1..(Len(t.todo) - 1) /\ n + 1 \in 1..Len(t.todo)
      BY <1>4, <1>7
    <3>2. t.todo[n + 1] = t.lines[k + (n + 1)]
      BY <1>2, <3>1 DEF GrnInv, k
    <3>3. k + (n + 1) = (k + 1) + n
      <4>1. n \in Int
        BY <1>4, <3>1
      <4>. QED
        BY <1>10, <4>1, Shifting, Zenon
    <3>. QED
      BY <1>4, <1>7, <1>10, <3>1, <3>2, <3>3
  <2>3. ASSUME NEW i \in Items
        PROVE  LET sofar == SumFunctionOnSet(ListedBy(u.lines, i), 1..Done(u))
               IN  IF i \in u.locked THEN u.value[i] = received[i] + sofar ELSE sofar = 0
    <3>. DEFINE before == SumFunctionOnSet(ListedBy(t.lines, i), 1..k)
                after == SumFunctionOnSet(ListedBy(t.lines, i), 1..(k + 1))
    <3>1. before \in Int /\ after = (IF line.item = i THEN line.quantity ELSE 0) + before
      <4>1. before \in Int
        BY <1>3, <1>10, SofarGrows, Zenon
      <4>2. after = (IF t.lines[k + 1].item = i THEN t.lines[k + 1].quantity ELSE 0) + before
        BY <1>3, <1>10, SofarGrows, Zenon
      <4>. QED
        BY <1>10, <4>1, <4>2, Zenon
    <3>2. IF i \in t.locked THEN t.value[i] = received[i] + before ELSE before = 0
      BY <1>2 DEF GrnInv, k
    <3>3. received[i] \in Int /\ t.value[i] \in Int
      BY <1>2, <1>3 DEF TypeOK
    <3>4. SumFunctionOnSet(ListedBy(u.lines, i), 1..Done(u)) = after
      BY <1>7, <1>10
    <3>5. u.value[i] = IF i = p THEN q ELSE t.value[i]
      BY <1>3, <1>7
    <3>. HIDE DEF before, after
    <3>6. IF i \in u.locked THEN u.value[i] = received[i] + after ELSE after = 0
      <4>1. CASE i = p
        BY <1>5, <1>6, <1>7, <3>1, <3>2, <3>3, <3>5, <4>1 DEF p
      <4>2. CASE i # p
        BY <1>7, <3>1, <3>2, <3>3, <3>5, <4>2 DEF p
      <4>. QED
        BY <4>1, <4>2
    <3>. QED
      BY <3>4, <3>6
  <2>4. ~u.summed
    BY <1>1, <1>2, <1>7 DEF GrnInv
  <2>5. po[u.order].approvedBy
    BY <1>2, <1>7 DEF GrnInv
  <2>6. GrnInv(u)
    BY <2>1, <2>2, <2>3, <2>4, <2>5, Zenon DEF GrnInv
  <2>. QED
    BY <1>8, <1>9, <2>6 DEF GrnInv, Done, ListedBy
<1>12. TxnInv(r)'
    BY <1>7, <1>8, <1>11, Zenon DEF TxnInv
<1>13. ASSUME NEW other \in Requests \ {r}, Receiving(other)
       PROVE  u.locked \intersect txn[other].locked = {}
  <2>1. t.locked \intersect txn[other].locked = {}
    BY <1>1, <1>13 DEF IInv, LocksExclude, t
  <2>2. p \in txn[other].locked => p \in t.locked
    BY <1>1, <1>13 DEF Locked
  <2>. QED
    BY <1>7, <2>1, <2>2
<1>. QED
    BY <1>1, <1>7, <1>12, <1>13, OnlyIInv, Zenon

LEMMA SumUpIInv ==
    ASSUME IInv, NEW r \in Requests, SumUp(r)
    PROVE  IInv'
<1>. DEFINE t == txn[r] yes == TRUE sum == SumSeen(t)
            u == [t EXCEPT !.summed = yes, !.sum = sum]
<1>1. Receiving(r) /\ t.todo = <<>> /\ Only(r, u)
    BY DEF SumUp
<1>2. t \in GrnTxn /\ t.kind = "grn" /\ GrnInv(t) /\ TypeOK
    BY <1>1, ReceivesType, Zenon DEF IInv, TxnInv, Receiving
<1>3. yes \in BOOLEAN /\ sum \in Int
    BY <1>2, SeenType
<1>. HIDE DEF t, yes, sum
<1>4. u \in GrnTxn /\ u.kind = t.kind /\ u.lines = t.lines /\ u.order = t.order
      /\ u.todo = t.todo /\ u.locked = t.locked /\ u.value = t.value
    BY <1>2, <1>3 DEF GrnTxn
<1>. HIDE DEF u
<1>5. txn[r]' = u
    BY <1>1, <1>2 DEF Only, TypeOK
<1>6. UNCHANGED <<po, received>>
    BY <1>1 DEF Only
<1>7. GrnInv(txn[r])'
  <2>1. GrnInv(u)
    BY <1>1, <1>2, <1>4 DEF GrnInv, Done, t
  <2>. QED
    BY <1>5, <1>6, <2>1 DEF GrnInv, Done, ListedBy
<1>8. TxnInv(r)'
    BY <1>2, <1>4, <1>5, <1>7, Zenon DEF TxnInv
<1>9. ASSUME NEW other \in Requests \ {r}, Receiving(other)
      PROVE  u.locked \intersect txn[other].locked = {}
    BY <1>1, <1>4, <1>9 DEF IInv, LocksExclude, t
<1>. QED
    BY <1>1, <1>4, <1>8, <1>9, OnlyIInv, Zenon

LEMMA RollbackIInv ==
    ASSUME IInv, NEW r \in Requests, Rollback(r)
    PROVE  IInv'
<1>1. Only(r, NoTxn)
    BY DEF Rollback
<1>2. txn[r]' = NoTxn
    BY <1>1 DEF Only, IInv, TypeOK
<1>3. TxnInv(r)'
    BY <1>2 DEF TxnInv
<1>. QED
    BY <1>1, <1>3, OnlyIInv, Zenon

\* A request that ends leaves the others their items.
LEMMA EndsTxn ==
    ASSUME IInv, NEW r \in Requests, txn' = [txn EXCEPT ![r] = NoTxn]
    PROVE  /\ txn'[r] = NoTxn /\ \A q \in Requests \ {r} : txn'[q] = txn[q]
           /\ TxnInv(r)' /\ LocksExclude'
           /\ txn' \in [Requests -> StatusTxn \union GrnTxn \union {NoTxn}]
<1>1. txn'[r] = NoTxn /\ \A q \in Requests \ {r} : txn'[q] = txn[q]
    BY DEF IInv, TypeOK
<1>2. txn' \in [Requests -> StatusTxn \union GrnTxn \union {NoTxn}]
    BY DEF IInv, TypeOK
<1>3. TxnInv(r)'
    BY <1>1 DEF TxnInv
<1>4. LocksExclude'
  <2>1. ~Receiving(r)' /\ \A q \in Requests \ {r} : Receiving(q)' <=> Receiving(q)
    BY <1>1 DEF Receiving
  <2>2. ASSUME NEW u \in Requests, NEW q \in Requests, Receiving(u)', Receiving(q)', u # q
        PROVE  txn'[u].locked \intersect txn'[q].locked = {}
    BY <1>1, <2>1, <2>2 DEF IInv, LocksExclude
  <2>. QED
    BY <2>2, Zenon DEF LocksExclude
<1>. QED
    BY <1>1, <1>2, <1>3, <1>4

LEMMA CommitStatusIInv ==
    ASSUME IInv, NEW r \in Requests, CommitStatus(r)
    PROVE  IInv'
<1>. DEFINE t == txn[r] to == t.to
            approved == po[t.order].approvedBy \/ to = "approved"
<1>1. /\ t # NoTxn /\ t.kind = "status"
      /\ txn' = [txn EXCEPT ![r] = NoTxn]
      /\ po' = [po EXCEPT ![t.order].status = to, ![t.order].approvedBy = @ \/ to = "approved"]
      /\ crossed' = IF po[t.order].status = t.loaded THEN crossed ELSE crossed \union {t.order}
      /\ UNCHANGED <<received, listed, missed, misdirected>>
    BY DEF CommitStatus
<1>2. TypeOK /\ t \in StatusTxn /\ StatusInv(t)
    BY <1>1, ReceivesType, Zenon DEF IInv, TxnInv
<1>3. t.order \in Orders /\ to \in Status /\ t.loaded \in Status
    BY <1>2 DEF StatusTxn
<1>4. approved \in BOOLEAN
    BY <1>2, <1>3 DEF TypeOK, Order
<1>5. to # "partially_received" /\ to # "fully_received" /\ (to = "approved" => approved)
      /\ (po[t.order].approvedBy => approved)
      /\ t.loaded \in {"draft", "pending_approval"}
    BY <1>2 DEF StatusInv
<1>6. po' = [po EXCEPT ![t.order] = [status |-> to, approvedBy |-> approved]]
  <2>1. po[t.order] \in Order
    BY <1>2, <1>3 DEF TypeOK
  <2>2. [[po[t.order] EXCEPT !.status = to] EXCEPT !.approvedBy = approved]
           = [status |-> to, approvedBy |-> approved]
    <3>. DEFINE first == [po[t.order] EXCEPT !.status = to]
    <3>. HIDE DEF to, approved
    <3>1. first = [status |-> to, approvedBy |-> po[t.order].approvedBy]
      BY <2>1 DEF Order
    <3>2. [first EXCEPT !.approvedBy = approved] = [status |-> to, approvedBy |-> approved]
      <4>. HIDE DEF first
      <4>. QED
        BY <3>1
    <3>. QED
      BY <3>2
  <2>3. po' = [po EXCEPT ![t.order] =
                  [[po[t.order] EXCEPT !.status = to] EXCEPT !.approvedBy = approved]]
    <3>1. po \in [Orders -> Order]
      BY <1>2 DEF TypeOK
    <3>2. [[po EXCEPT ![t.order].status = to]
               EXCEPT ![t.order].approvedBy = @ \/ to = "approved"]
             = [po EXCEPT ![t.order] =
                  [[po[t.order] EXCEPT !.status = to] EXCEPT !.approvedBy = approved]]
      <4>. DEFINE first == [po EXCEPT ![t.order].status = to]
      <4>1. first[t.order] = [po[t.order] EXCEPT !.status = to]
        BY <1>3, <3>1, Zenon
      <4>2. first[t.order].approvedBy = po[t.order].approvedBy
        <5>. HIDE DEF to, first
        <5>. QED
          BY <2>1, <4>1 DEF Order
      <4>. QED
        BY <1>3, <3>1, <4>1, <4>2, Zenon
    <3>. QED
      BY <1>1, <3>2, Zenon
  <2>. QED
    BY <2>2, <2>3
<1>. HIDE DEF to, approved
<1>7. /\ po'[t.order].status = to /\ po'[t.order].approvedBy = approved
      /\ \A o \in Orders \ {t.order} : po'[o] = po[o]
    BY <1>2, <1>3, <1>6 DEF TypeOK
<1>8. po' \in [Orders -> Order]
  <2>1. [status |-> to, approvedBy |-> approved] \in Order
    BY <1>3, <1>4 DEF Order
  <2>. QED
    BY <1>2, <1>6, <2>1 DEF TypeOK
<1>9. \A o \in Orders : po[o].approvedBy => po'[o].approvedBy
    BY <1>5, <1>7
<1>10. TypeOK'
  <2>1. txn' \in [Requests -> StatusTxn \union GrnTxn \union {NoTxn}]
    BY <1>1, EndsTxn
  <2>2. crossed' \subseteq Orders
    BY <1>1, <1>2, <1>3 DEF TypeOK
  <2>. QED
    BY <1>1, <1>2, <1>8, <2>1, <2>2 DEF TypeOK
<1>11. \A q \in Requests : TxnInv(q)'
    BY <1>1, <1>9, EndsTxn, KeepsTxnInv
<1>12. LocksExclude'
    BY <1>1, EndsTxn
<1>13. ApprovedInv'
    BY <1>5, <1>7 DEF IInv, ApprovedInv
<1>14. ReceiptsAddUp'
    BY <1>1 DEF IInv, ReceiptsAddUp
<1>15. GoodsNeedApproval'
  <2>1. \A p \in Items : OrderOf[p] \in Orders
    BY ItemsAssumption
  <2>. QED
    BY <1>1, <1>9, <2>1 DEF IInv, GoodsNeedApproval
<1>16. StatusTellsReceipt'
  <2>1. SUFFICES ASSUME NEW o \in Orders,
                        o \notin crossed' \union missed' \union misdirected', SumOn(o)' > 0
                 PROVE  po'[o].status = IF SumOn(o)' < OrderedOn(o)'
                                        THEN "partially_received" ELSE "fully_received"
    BY Zenon DEF StatusTellsReceipt
  <2>2. SumOn(o)' = SumOn(o) /\ OrderedOn(o)' = OrderedOn(o)
    BY <1>1 DEF SumOn, OrderedOn
  <2>3. o \in Orders \ (crossed \union missed \union misdirected)
    BY <1>1, <2>1
  <2>4. po[o].status = IF SumOn(o) < OrderedOn(o)
                       THEN "partially_received" ELSE "fully_received"
    BY <2>1, <2>2, <2>3 DEF IInv, StatusTellsReceipt
  <2>5. o # t.order
    BY <1>1, <1>5, <2>1, <2>4
  <2>. QED
    BY <1>7, <2>2, <2>4, <2>5
<1>. QED
    BY <1>10, <1>11, <1>12, <1>13, <1>14, <1>15, <1>16 DEF IInv

\* A receipt whose lines are all received holds what it found and what it lists.
LEMMA AllReceived ==
    ASSUME TypeOK, NEW t \in GrnTxn, GrnInv(t), t.todo = <<>>, NEW p \in Items
    PROVE  Seen(t, p) = received[p] + Delivered(t.lines, p) /\ Delivered(t.lines, p) \in Int
<1>1. t.lines \in Deliveries
    BY GrnType
<1>2. Len(t.lines) \in Nat
    BY <1>1, LinesType, DeliveriesAssumption
<1>3. Done(t) = Len(t.lines)
  <2>1. Len(t.todo) = 0
    OBVIOUS
  <2>. QED
    BY <1>2, <2>1 DEF Done
<1>. DEFINE sofar == SumFunctionOnSet(ListedBy(t.lines, p), 1..Done(t))
<1>4. sofar = Delivered(t.lines, p) /\ sofar \in Int
  <2>1. Len(t.lines) <= Len(t.lines)
    BY <1>2
  <2>. QED
    BY <1>1, <1>2, <1>3, <2>1, SofarGrows, Zenon
<1>5. IF p \in t.locked THEN t.value[p] = received[p] + sofar ELSE sofar = 0
    BY DEF GrnInv
<1>6. received[p] \in Int
    BY DEF TypeOK
<1>. HIDE DEF sofar
<1>. QED
    BY <1>4, <1>5, <1>6 DEF Seen

LEMMA CommitGrnIInv ==
    ASSUME IInv, NEW r \in Requests, CommitGrn(r)
    PROVE  IInv'
<1>. DEFINE t == txn[r] status == ReceiptStatus(t.order, t.sum)
<1>1. /\ Receiving(r) /\ t.summed
      /\ received' = [p \in Items |-> Seen(t, p)]
      /\ listed' = [p \in Items |-> listed[p] + Delivered(t.lines, p)]
      /\ po' = [po EXCEPT ![t.order].status = status]
      /\ txn' = [txn EXCEPT ![r] = NoTxn]
      /\ missed' = IF SumSeen(t) = t.sum THEN missed ELSE missed \union {t.order}
      /\ misdirected' = misdirected \union ({OrderOf[p] : p \in t.locked} \ {t.order})
      /\ UNCHANGED crossed
    BY DEF CommitGrn
<1>2. t \in GrnTxn /\ GrnInv(t) /\ TypeOK
    BY <1>1, ReceivesType, Zenon DEF IInv, TxnInv, Receiving
<1>3. t.order \in Orders /\ t.lines \in Deliveries /\ t.locked \in SUBSET Items /\ t.sum \in Int
    BY <1>2, GrnType
<1>4. t.todo = <<>> /\ po[t.order].approvedBy
    BY <1>1, <1>2 DEF GrnInv
<1>5. \A p \in Items : Seen(t, p) = received[p] + Delivered(t.lines, p) /\ Seen(t, p) \in Int
    BY <1>2, <1>4, AllReceived, SeenType
<1>6. status = IF t.sum >= OrderedOn(t.order) THEN "fully_received"
               ELSE IF t.sum > 0 THEN "partially_received" ELSE po[t.order].status
    BY DEF ReceiptStatus
<1>. HIDE DEF status
<1>7. status \in Status
    BY <1>2, <1>3, <1>6 DEF Status, TypeOK, Order
<1>8. /\ po' \in [Orders -> Order] /\ po'[t.order].status = status
      /\ \A o \in Orders : po'[o].approvedBy = po[o].approvedBy
      /\ \A o \in Orders \ {t.order} : po'[o] = po[o]
    BY <1>1, <1>2, <1>3, <1>7 DEF TypeOK, Order
<1>9. \A p \in Items \ t.locked : received'[p] = received[p]
    BY <1>1 DEF Seen
<1>10. TypeOK'
  <2>1. txn' \in [Requests -> StatusTxn \union GrnTxn \union {NoTxn}]
    BY <1>1, EndsTxn
  <2>2. received' \in [Items -> Int]
    BY <1>1, <1>5
  <2>3. listed' = received'
    BY <1>1, <1>5 DEF IInv, ReceiptsAddUp
  <2>4. missed' \subseteq Orders
    BY <1>1, <1>2, <1>3 DEF TypeOK
  <2>5. misdirected' \subseteq Orders
    BY <1>1, <1>2, <1>3, ItemsAssumption DEF TypeOK
  <2>. QED
    BY <1>1, <1>2, <1>8, <2>1, <2>2, <2>3, <2>4, <2>5 DEF TypeOK
<1>11. ASSUME NEW q \in Requests
       PROVE  TxnInv(q)'
  <2>1. CASE q = r
    BY <1>1, <2>1, EndsTxn
  <2>2. CASE q # r
    <3>1. txn'[q] = txn[q]
      BY <1>1, <2>2, EndsTxn
    <3>2. ASSUME Receiving(q), NEW p \in txn[q].locked
          PROVE  received'[p] = received[p]
      <4>1. txn[q].locked \subseteq Items
        BY <1>2, <3>2, ReceivesType, GrnType
      <4>2. t.locked \intersect txn[q].locked = {}
        BY <1>1, <2>2, <3>2 DEF IInv, LocksExclude
      <4>. QED
        BY <1>9, <3>2, <4>1, <4>2
    <3>. QED
      BY <1>8, <3>1, <3>2, KeepsTxnInv
  <2>. QED
    BY <2>1, <2>2
<1>12. LocksExclude'
    BY <1>1, EndsTxn
<1>13. ApprovedInv'
  <2>1. ASSUME NEW o \in Orders,
               po'[o].status \in {"approved", "partially_received", "fully_received"}
        PROVE  po'[o].approvedBy
    BY <1>4, <1>8, <2>1 DEF IInv, ApprovedInv
  <2>. QED
    BY <2>1 DEF ApprovedInv
<1>14. ReceiptsAddUp'
    BY <1>1, <1>5 DEF IInv, ReceiptsAddUp
<1>15. GoodsNeedApproval'
  <2>1. ASSUME NEW p \in Items, received'[p] # 0, OrderOf[p] \notin misdirected'
        PROVE  po'[OrderOf[p]].approvedBy
    <3>1. OrderOf[p] \in Orders
      BY ItemsAssumption
    <3>2. CASE p \in t.locked
      BY <1>1, <1>4, <1>8, <2>1, <3>1, <3>2
    <3>3. CASE p \notin t.locked
      BY <1>1, <1>8, <1>9, <2>1, <3>1, <3>3 DEF IInv, GoodsNeedApproval
    <3>. QED
      BY <3>2, <3>3
  <2>. QED
    BY <2>1 DEF GoodsNeedApproval
<1>16. StatusTellsReceipt'
  <2>1. SUFFICES ASSUME NEW o \in Orders,
                        o \notin crossed' \union missed' \union misdirected', SumOn(o)' > 0
                 PROVE  po'[o].status = IF SumOn(o)' < OrderedOn(o)'
                                        THEN "partially_received" ELSE "fully_received"
    BY Zenon DEF StatusTellsReceipt
  <2>2. OrderedOn(o)' = OrderedOn(o) /\ OrderedOn(o) \in Int
    BY <1>2, SumsType DEF OrderedOn
  <2>3. o \in Orders \ (crossed \union missed \union misdirected)
    BY <1>1, <2>1
  <2>4. CASE o = t.order
    <3>1. SumOn(o)' = SumSeen(t)
      BY <1>1, <2>4, Zenon DEF SumOn, SumSeen, ItemsOf
    <3>2. SumSeen(t) = t.sum
      BY <1>1, <2>1, <2>4
    <3>. QED
      BY <1>3, <1>6, <1>8, <2>1, <2>2, <2>4, <3>1, <3>2
  <2>5. CASE o # t.order
    <3>1. IsFiniteSet(ItemsOf(o)) /\ ItemsOf(o) \subseteq Items
      BY <1>2, SumsType
    <3>2. \A p \in ItemsOf(o) : received'[p] = received[p]
      BY <1>1, <1>9, <2>1, <2>5, <3>1 DEF ItemsOf
    <3>3. SumFunctionOnSet(received', ItemsOf(o)) = SumFunctionOnSet(received, ItemsOf(o))
      BY <3>1, <3>2, SumSame
    <3>4. SumOn(o)' = SumOn(o)
      BY <3>3 DEF SumOn, ItemsOf
    <3>. QED
      BY <1>8, <2>1, <2>2, <2>3, <2>5, <3>4 DEF IInv, StatusTellsReceipt
  <2>. QED
    BY <2>4, <2>5
<1>. QED
    BY <1>10, <1>11, <1>12, <1>13, <1>14, <1>15, <1>16 DEF IInv

LEMMA StutterIInv ==
    ASSUME IInv, UNCHANGED vars
    PROVE  IInv'
<1>1. ASSUME NEW r \in Requests
      PROVE  TxnInv(r)'
    BY KeepsTxnInv DEF vars
<1>2. TypeOK' /\ LocksExclude'
    BY DEF vars, IInv, TypeOK, LocksExclude, Receiving
<1>3. ApprovedInv' /\ ReceiptsAddUp' /\ GoodsNeedApproval' /\ StatusTellsReceipt'
    BY DEF vars, IInv, ApprovedInv, ReceiptsAddUp, GoodsNeedApproval, StatusTellsReceipt,
           SumOn, OrderedOn
<1>. QED
    BY <1>1, <1>2, <1>3 DEF IInv

LEMMA StepIInv ==
    ASSUME IInv, [Next]_vars
    PROVE  IInv'
<1>1. CASE Next
  <2>1. ASSUME NEW r \in Requests, NEW o \in Orders, SubmitPo(r, o)
        PROVE  IInv'
    BY <2>1, MoveIInv DEF SubmitPo, Status
  <2>2. ASSUME NEW r \in Requests, NEW o \in Orders, ApprovePo(r, o)
        PROVE  IInv'
    BY <2>2, MoveIInv DEF ApprovePo, Status
  <2>3. ASSUME NEW r \in Requests, NEW o \in Orders, RejectPo(r, o)
        PROVE  IInv'
    BY <2>3, MoveIInv DEF RejectPo, Status
  <2>. QED
    BY <1>1, <2>1, <2>2, <2>3, CreateGrnIInv, ReceiveLineIInv, SumUpIInv, CommitStatusIInv,
       CommitGrnIInv, RollbackIInv, Zenon DEF Next
<1>. QED
    BY <1>1, StutterIInv

LEMMA Inductive == Spec => []IInv
BY InitIInv, StepIInv, PTL DEF Spec

\* Whatever requests do, the rows and the requests in flight have the columns
\* they are declared with (ProcurementService).
THEOREM TypeCorrect == Spec => []TypeOK
<1>1. IInv => TypeOK
    BY DEF IInv
<1>. QED
    BY <1>1, Inductive, PTL

\* No receipt is lost: received_quantity of every item is what the committed
\* GRNs list for it, however many are received at the same time and in whatever
\* order their rows are locked (create_grn).
THEOREM NoReceiptIsLost == Spec => []ReceiptsAddUp
<1>1. IInv => ReceiptsAddUp
    BY DEF IInv
<1>. QED
    BY <1>1, Inductive, PTL

\* Goods come in on approved orders only, except on the GRN of another order
\* (create_grn).
THEOREM OnlyApprovedComesIn == Spec => []GoodsNeedApproval
<1>1. IInv => GoodsNeedApproval
    BY DEF IInv
<1>. QED
    BY <1>1, Inductive, PTL

\* The status of an order tells whether all goods, or some, have come, as long
\* as no receipt missed another, no late write hit the status and no GRN of
\* another order counted here (_update_po_receipt_status).
THEOREM StatusIsReceipt == Spec => []StatusTellsReceipt
<1>1. IInv => StatusTellsReceipt
    BY DEF IInv
<1>. QED
    BY <1>1, Inductive, PTL

-----------------------------------------------------------------------------
(* One request at a time.  Of the exceptions of the properties only the     *)
(* receipt that names an item of another order is left.                     *)

OneClient == \A q, r \in Requests : q = r

\* What the request in flight has read is still so.
UpToDate(t) ==
    /\ t.kind = "status" => po[t.order].status = t.loaded
    /\ t.kind = "grn" /\ t.summed => SumSeen(t) = t.sum

AloneInv ==
    /\ \A r \in Requests : txn[r] # NoTxn => UpToDate(txn[r])
    /\ crossed = {} /\ missed = {}

LEMMA AloneOnly ==
    ASSUME OneClient, IInv, AloneInv, NEW r \in Requests, NEW t, Only(r, t),
           t # NoTxn => UpToDate(t)
    PROVE  AloneInv'
<1>1. txn'[r] = t /\ \A q \in Requests : q = r
    BY DEF Only, OneClient, IInv, TypeOK
<1>2. po' = po /\ received' = received /\ crossed' = crossed /\ missed' = missed
    BY DEF Only
<1>3. t # NoTxn => UpToDate(t)'
    BY <1>2 DEF UpToDate, SumSeen, Seen, ItemsOf
<1>4. ASSUME NEW q \in Requests, txn[q]' # NoTxn
      PROVE  UpToDate(txn[q])'
  <2>1. txn[q]' = t
    BY <1>1
  <2>. QED
    BY <1>3, <1>4, <2>1 DEF UpToDate, SumSeen, Seen
<1>. QED
    BY <1>2, <1>4 DEF AloneInv

LEMMA AloneReceiveLine ==
    ASSUME OneClient, IInv, AloneInv, NEW r \in Requests, ReceiveLine(r)
    PROVE  AloneInv'
<1>. DEFINE t == txn[r] p == Head(t.todo).item q == Seen(t, p) + Head(t.todo).quantity
            todo == Tail(t.todo) locked == t.locked \union {p}
            value == [t.value EXCEPT ![p] = q]
            u == [t EXCEPT !.todo = Tail(@), !.locked = @ \union {p}, !.value[p] = q]
            w == [t EXCEPT !.todo = todo, !.locked = locked, !.value = value]
<1>1. Receiving(r) /\ t.todo # <<>> /\ Only(r, u)
    BY DEF ReceiveLine
<1>2. t \in GrnTxn /\ t.kind = "grn" /\ GrnInv(t)
    BY <1>1, ReceivesType, Zenon DEF IInv, TxnInv, Receiving
<1>3. ~t.summed
    BY <1>1, <1>2 DEF GrnInv
<1>. HIDE DEF t
<1>4. u = w
    BY <1>2 DEF GrnTxn
<1>. HIDE DEF u, todo, locked, value
<1>5. w.kind = t.kind /\ w.summed = t.summed
    BY <1>2 DEF GrnTxn
<1>. HIDE DEF w
<1>6. UpToDate(u)
    BY <1>2, <1>3, <1>4, <1>5 DEF UpToDate
<1>. QED
    BY <1>1, <1>6, AloneOnly

LEMMA AloneSumUp ==
    ASSUME OneClient, IInv, AloneInv, NEW r \in Requests, SumUp(r)
    PROVE  AloneInv'
<1>. DEFINE t == txn[r] yes == TRUE sum == SumSeen(t)
            u == [t EXCEPT !.summed = yes, !.sum = sum]
<1>1. Receiving(r) /\ Only(r, u)
    BY DEF SumUp
<1>2. t \in GrnTxn /\ t.kind = "grn"
    BY <1>1, ReceivesType, Zenon DEF IInv, Receiving
<1>3. sum = SumSeen(t)
    OBVIOUS
<1>. HIDE DEF t, yes, sum
<1>4. u.kind = t.kind /\ u.order = t.order /\ u.locked = t.locked /\ u.value = t.value
      /\ u.sum = sum
    BY <1>2 DEF GrnTxn
<1>. HIDE DEF u
<1>5. SumSeen(u) = SumSeen(t)
    BY <1>4 DEF SumSeen, Seen
<1>6. UpToDate(u)
    BY <1>2, <1>3, <1>4, <1>5 DEF UpToDate
<1>. QED
    BY <1>1, <1>6, AloneOnly

LEMMA AloneMove ==
    ASSUME OneClient, IInv, AloneInv, NEW r \in Requests, NEW o \in Orders, NEW from, NEW to,
           Move(r, o, from, to)
    PROVE  AloneInv'
<1>. DEFINE t == [kind |-> "status", order |-> o, loaded |-> from, to |-> to]
<1>1. Only(r, t) /\ po[o].status = from
    BY DEF Move
<1>2. UpToDate(t)
    BY <1>1 DEF UpToDate
<1>. HIDE DEF t
<1>. QED
    BY <1>1, <1>2, AloneOnly

LEMMA AloneCreateGrn ==
    ASSUME OneClient, IInv, AloneInv, NEW r \in Requests, NEW o, NEW lines,
           CreateGrn(r, o, lines)
    PROVE  AloneInv'
<1>. DEFINE no == FALSE
            t == [kind |-> "grn", order |-> o, lines |-> lines, todo |-> lines,
                  locked |-> {}, value |-> [p \in Items |-> 0], summed |-> no, sum |-> 0]
<1>1. Only(r, t) /\ ~no
    BY DEF CreateGrn
<1>. HIDE DEF no
<1>2. t.kind = "grn" /\ t.summed = no
    OBVIOUS
<1>. HIDE DEF t
<1>3. UpToDate(t)
    BY <1>1, <1>2 DEF UpToDate
<1>. QED
    BY <1>1, <1>3, AloneOnly

LEMMA AloneCommits ==
    ASSUME OneClient, IInv, AloneInv, NEW r \in Requests, CommitStatus(r) \/ CommitGrn(r)
    PROVE  AloneInv'
<1>1. txn[r] # NoTxn /\ txn' = [txn EXCEPT ![r] = NoTxn]
    BY DEF CommitStatus, CommitGrn, Receiving
<1>2. \A q \in Requests : txn'[q] = NoTxn
    BY <1>1, EndsTxn DEF OneClient
<1>3. UpToDate(txn[r]) /\ crossed = {} /\ missed = {}
    BY <1>1 DEF AloneInv
<1>4. CASE CommitStatus(r)
    BY <1>2, <1>3, <1>4 DEF CommitStatus, UpToDate, AloneInv
<1>5. CASE CommitGrn(r)
    BY <1>2, <1>3, <1>5 DEF CommitGrn, Receiving, UpToDate, AloneInv
<1>. QED
    BY <1>4, <1>5

LEMMA AloneStep ==
    ASSUME OneClient, IInv, AloneInv, [Next]_vars
    PROVE  AloneInv'
<1>1. ASSUME NEW r \in Requests, Rollback(r)
      PROVE  AloneInv'
    BY <1>1, AloneOnly DEF Rollback
<1>2. ASSUME NEW r \in Requests, NEW o \in Orders, SubmitPo(r, o) \/ ApprovePo(r, o)
               \/ RejectPo(r, o)
      PROVE  AloneInv'
    BY <1>2, AloneMove DEF SubmitPo, ApprovePo, RejectPo
<1>3. CASE UNCHANGED vars
  <2>1. UNCHANGED <<po, received, txn, crossed, missed>>
    BY <1>3 DEF vars
  <2>. QED
    BY <2>1 DEF AloneInv, UpToDate, SumSeen, Seen, ItemsOf
<1>. QED
    BY <1>1, <1>2, <1>3, AloneReceiveLine, AloneSumUp, AloneCreateGrn, AloneCommits DEF Next

\* For a client that sends one request at a time the status of an order tells what
\* has come, whatever it sends in which order, but for orders a receipt of another
\* order has booked on (_update_po_receipt_status).
THEOREM AloneStatusIsReceipt ==
    ASSUME OneClient
    PROVE  Spec => [](\A o \in Orders \ misdirected :
               SumOn(o) > 0 =>
                   po[o].status = IF SumOn(o) < OrderedOn(o)
                                  THEN "partially_received" ELSE "fully_received")
<1>1. Init => AloneInv
    BY DEF Init, AloneInv
<1>2. IInv /\ AloneInv /\ [Next]_vars => AloneInv'
    BY AloneStep
<1>3. IInv /\ AloneInv =>
          \A o \in Orders \ misdirected :
              SumOn(o) > 0 =>
                  po[o].status = IF SumOn(o) < OrderedOn(o)
                                 THEN "partially_received" ELSE "fully_received"
  <2>. SUFFICES ASSUME IInv, AloneInv, NEW o \in Orders \ misdirected, SumOn(o) > 0
                PROVE  po[o].status = IF SumOn(o) < OrderedOn(o)
                                      THEN "partially_received" ELSE "fully_received"
    OBVIOUS
  <2>1. o \in Orders \ (crossed \union missed \union misdirected)
    BY DEF AloneInv
  <2>. QED
    BY <2>1 DEF IInv, StatusTellsReceipt
<1>. QED
    BY <1>1, <1>2, <1>3, Inductive, PTL DEF Spec

================================================================================
