----------------------------- MODULE Procurement -----------------------------
(***************************************************************************)
(* Purchase orders and the goods received on them                          *)
(* (apps/procurement/service.py, ProcurementService) under concurrent      *)
(* requests.                                                               *)
(*                                                                         *)
(* Unlike the other components this one writes while it still has to read: *)
(* create_grn adds to po_items row by row, each by an UPDATE that computes *)
(* the new quantity in the database and keeps the row locked until the     *)
(* request ends, and sums the quantities up afterwards.                    *)
(***************************************************************************)
EXTENDS Integers, Sequences, FiniteSets, Functions

CONSTANTS
    Orders,         \* purchase orders
    Items,          \* rows of po_items
    OrderOf,        \* the order an item belongs to
    Ordered,        \* the quantity of an item
    Deliveries,     \* what a GRN may list: sequences of [item, quantity]
    Requests,       \* slots for requests in flight at the same time
    MaxReceived,    \* bound: no receipt that takes an item past it
    NoTxn           \* a slot without a request

\* An order without items, or for a quantity of 0, counts as received as soon
\* as the first GRN comes; such orders are left out.
ASSUME ItemsAssumption ==
    /\ IsFiniteSet(Items)
    /\ OrderOf \in [Items -> Orders]
    /\ Ordered \in [Items -> Nat \ {0}]
    /\ \A o \in Orders : \E p \in Items : OrderOf[p] = o

\* received_quantity is any float, and po_item_id any item.
ASSUME DeliveriesAssumption == Deliveries \subseteq Seq([item : Items, quantity : Int])

VARIABLES
    po,         \* the rows of purchase_orders
    received,   \* received_quantity of the rows of po_items
    listed,     \* per item, the sum over the rows of grn_items
    txn,        \* per slot, the request in flight
    crossed,    \* history: orders whose status a commit overwrote unread
    missed,     \* history: orders a GRN was committed on whose sum had missed
                \* what others had received meanwhile
    misdirected \* history: orders with an item received by the GRN of another

vars == <<po, received, listed, txn, crossed, missed, misdirected>>

-----------------------------------------------------------------------------

\* sent and cancelled are never set.
Status == {"draft", "pending_approval", "approved", "rejected",
           "partially_received", "fully_received"}

\* approvedBy stands for "approved_by is not null".
Order == [status : Status, approvedBy : BOOLEAN]

\* A request of submit_po, approve_po or reject_po.
StatusTxn == [kind : {"status"}, order : Orders, loaded : Status, to : Status]

\* A request of create_grn: the lines still to be received, the items its UPDATEs
\* have locked and what they hold now, and the sum once it is taken.
GrnTxn == [kind : {"grn"}, order : Orders, lines : Deliveries,
           todo : Seq([item : Items, quantity : Int]),
           locked : SUBSET Items, value : [Items -> Int],
           summed : BOOLEAN, sum : Int]

TypeOK ==
    /\ po \in [Orders -> Order]
    /\ received \in [Items -> Int]
    /\ listed \in [Items -> Int]
    /\ txn \in [Requests -> StatusTxn \union GrnTxn \union {NoTxn}]
    /\ crossed \subseteq Orders
    /\ missed \subseteq Orders
    /\ misdirected \subseteq Orders

\* create_po has just committed.
Init ==
    /\ po = [o \in Orders |-> [status |-> "draft", approvedBy |-> FALSE]]
    /\ received = [p \in Items |-> 0]
    /\ listed = [p \in Items |-> 0]
    /\ txn = [r \in Requests |-> NoTxn]
    /\ crossed = {}
    /\ missed = {}
    /\ misdirected = {}

-----------------------------------------------------------------------------

Only(r, t) ==
    /\ txn' = [txn EXCEPT ![r] = t]
    /\ UNCHANGED <<po, received, listed, crossed, missed, misdirected>>

Move(r, o, from, to) ==
    /\ txn[r] = NoTxn
    /\ po[o].status = from
    /\ Only(r, [kind |-> "status", order |-> o, loaded |-> from, to |-> to])

SubmitPo(r, o) == Move(r, o, "draft", "pending_approval")

ApprovePo(r, o) == Move(r, o, "pending_approval", "approved")

RejectPo(r, o) == Move(r, o, "pending_approval", "rejected")

\* Faulty variant: whether the order is approved is not asked.
CreateGrnAlways(r, o, lines) ==
    /\ txn[r] = NoTxn
    /\ Only(r, [kind |-> "grn", order |-> o, lines |-> lines, todo |-> lines,
                locked |-> {}, value |-> [p \in Items |-> 0], summed |-> FALSE, sum |-> 0])

CreateGrn(r, o, lines) ==
    /\ txn[r] = NoTxn
    /\ po[o].status \in {"approved", "partially_received"}
    /\ Only(r, [kind |-> "grn", order |-> o, lines |-> lines, todo |-> lines,
                locked |-> {}, value |-> [p \in Items |-> 0], summed |-> FALSE, sum |-> 0])

Receiving(r) == txn[r] # NoTxn /\ txn[r].kind = "grn"

Locked(p) == \E r \in Requests : Receiving(r) /\ p \in txn[r].locked

\* An item as the request sees it: its own changes and what is committed.
Seen(t, p) == IF p \in t.locked THEN t.value[p] ELSE received[p]

\* Faulty variant: the quantity is read, added to and written back without a
\* lock.
ReceiveLineUnlocked(r) ==
    LET t == txn[r] p == Head(t.todo).item IN
    /\ Receiving(r)
    /\ t.todo # <<>>
    /\ Seen(t, p) + Head(t.todo).quantity \in -MaxReceived..MaxReceived
    /\ Only(r, [t EXCEPT !.todo = Tail(@),
          !.locked = @ \union {p}, !.value[p] = Seen(t, p) + Head(t.todo).quantity])

(* One UPDATE of po_items, which waits while another request has the row.  *)
(* When two wait for each other the database cancels one: Rollback.        *)
ReceiveLine(r) ==
    LET t == txn[r] p == Head(t.todo).item IN
    /\ Receiving(r)
    /\ t.todo # <<>>
    /\ p \notin t.locked => ~Locked(p)
    /\ Seen(t, p) + Head(t.todo).quantity \in -MaxReceived..MaxReceived
    /\ Only(r, [t EXCEPT !.todo = Tail(@),
          !.locked = @ \union {p}, !.value[p] = Seen(t, p) + Head(t.todo).quantity])

ItemsOf(o) == {p \in Items : OrderOf[p] = o}

OrderedOn(o) == SumFunctionOnSet(Ordered, ItemsOf(o))

SumSeen(t) == SumFunctionOnSet([p \in Items |-> Seen(t, p)], ItemsOf(t.order))

(* _update_po_receipt_status: the SELECT.                                  *)
SumUp(r) ==
    /\ Receiving(r)
    /\ txn[r].todo = <<>> /\ ~txn[r].summed
    /\ Only(r, [txn[r] EXCEPT !.summed = TRUE, !.sum = SumSeen(txn[r])])

\* Faulty variant: an order is full only when more has come than was ordered.
ReceiptStatusOver(o, sum) ==
    IF sum > OrderedOn(o) THEN "fully_received"
    ELSE IF sum > 0 THEN "partially_received"
    ELSE po[o].status

ReceiptStatus(o, sum) ==
    IF sum >= OrderedOn(o) THEN "fully_received"
    ELSE IF sum > 0 THEN "partially_received"
    ELSE po[o].status

-----------------------------------------------------------------------------

CommitStatus(r) ==
    LET t == txn[r] IN
    /\ t # NoTxn /\ t.kind = "status"
    /\ po' = [po EXCEPT ![t.order].status = t.to,
                        ![t.order].approvedBy = @ \/ t.to = "approved"]
    /\ txn' = [txn EXCEPT ![r] = NoTxn]
    /\ crossed' = IF po[t.order].status = t.loaded THEN crossed ELSE crossed \union {t.order}
    /\ UNCHANGED <<received, listed, missed, misdirected>>

Delivered(lines, p) ==
    SumFunctionOnSet([n \in DOMAIN lines |->
                         IF lines[n].item = p THEN lines[n].quantity ELSE 0], DOMAIN lines)

CommitGrn(r) ==
    LET t == txn[r] IN
    /\ Receiving(r) /\ t.summed
    /\ received' = [p \in Items |-> Seen(t, p)]
    /\ listed' = [p \in Items |-> listed[p] + Delivered(t.lines, p)]
    /\ po' = [po EXCEPT ![t.order].status = ReceiptStatus(t.order, t.sum)]
    /\ txn' = [txn EXCEPT ![r] = NoTxn]
    /\ missed' = IF SumSeen(t) = t.sum THEN missed ELSE missed \union {t.order}
    /\ misdirected' = misdirected \union ({OrderOf[p] : p \in t.locked} \ {t.order})
    /\ UNCHANGED crossed

Rollback(r) ==
    /\ txn[r] # NoTxn
    /\ Only(r, NoTxn)

Next ==
    \E r \in Requests :
        \/ \E o \in Orders :
              \/ SubmitPo(r, o)
              \/ ApprovePo(r, o)
              \/ RejectPo(r, o)
              \/ \E lines \in Deliveries : CreateGrn(r, o, lines)
        \/ ReceiveLine(r)
        \/ SumUp(r)
        \/ CommitStatus(r)
        \/ CommitGrn(r)
        \/ Rollback(r)

Spec == Init /\ [][Next]_vars

-----------------------------------------------------------------------------
(* Properties *)

\* No receipt gets lost: however GRNs interleave, received_quantity of an item
\* is the sum of what the GRNs list for it (create_grn).
ReceiptsAddUp == received = listed

\* Goods come in on approved orders only, whatever late writes have made of
\* the status since, except on the GRN of another order.
GoodsNeedApproval ==
    \A p \in Items :
        received[p] # 0 /\ OrderOf[p] \notin misdirected => po[OrderOf[p]].approvedBy

SumOn(o) == SumFunctionOnSet(received, ItemsOf(o))

\* The status of an order tells whether all goods, or some, have come, unless
\* two GRNs summed up without each other, a late write hit the status, or the
\* GRN of another order counted here (_update_po_receipt_status).
StatusTellsReceipt ==
    \A o \in Orders \ (crossed \union missed \union misdirected) :
        SumOn(o) > 0 =>
            po[o].status = IF SumOn(o) < OrderedOn(o)
                           THEN "partially_received" ELSE "fully_received"

===============================================================================
