------------------------------ MODULE Inventory ------------------------------
(***************************************************************************)
(* The stock of one material in one warehouse, and the material requests   *)
(* that draw on it (apps/inventory/service.py, InventoryService) under     *)
(* concurrent requests.                                                    *)
(*                                                                         *)
(* A material request has one item and names the warehouse; one that does  *)
(* not can only fail to be issued.  Items of several materials touch       *)
(* several stock items the same way.                                       *)
(***************************************************************************)
EXTENDS Integers, FiniteSets, Session

CONSTANTS
    StockItems,     \* ids a row of stock_items for the material may get
    Mrs,            \* material requests
    Quantities,     \* quantities of a stock adjustment
    Approvals,      \* quantities approve_mr may be given
    Requests,       \* slots for requests in flight at the same time
    MaxMoved,       \* bound: no movement that takes stock or ledger past it
    NoTxn,          \* a slot without a request
    NoItem, NoMr    \* no stock item, no material request

\* Neither schema restricts them: a quantity may be negative.
ASSUME QuantitiesAssumption == Quantities \subseteq Int /\ Approvals \subseteq Int

ASSUME NoneAssumption == NoItem \notin StockItems /\ NoMr \notin Mrs

VARIABLES
    stock,      \* the rows of stock_items
    ledger,     \* per stock item, what its rows of stock_transactions add up to
    mr,         \* the status of the rows of material_requests
    line,       \* the rows of material_request_items
    drawn,      \* per material request, the sum of the issues that refer to it
    txn,        \* per slot, the request in flight
    stale,      \* history: stock items some commit overwrote unread
    doubled,    \* history: a stock item was added while another request was
                \* about to add one
    crossed,    \* history: material requests whose status or item a commit
                \* overwrote unread, or that one read and another changed
    foreign,    \* history: material requests whose item was approved with the
                \* approval of another
    negative    \* history: a negative quantity was entered

vars == <<stock, ledger, mr, line, drawn, txn, stale, doubled, crossed, foreign, negative>>

-----------------------------------------------------------------------------

Status == {"draft", "submitted", "approved", "issued", "rejected"}

Row == [exists : BOOLEAN, onHand : Int]

Line == [approved : Int, issued : Int]

\* A request that moves stock (item, loaded, level, amount), one that changes a
\* material request (mr, from, to), writes to an item of one (target, given), or
\* all of it; entered is the quantity somebody gave.
Txn == [item : StockItems \union {NoItem}, loaded : Row, level : Int, amount : Int,
        mr : Mrs \union {NoMr}, from : Status, to : Status,
        target : Mrs \union {NoMr}, seen : Line, given : Line, entered : Int]

TypeOK ==
    /\ stock \in [StockItems -> Row]
    /\ ledger \in [StockItems -> Int]
    /\ mr \in [Mrs -> Status]
    /\ line \in [Mrs -> Line]
    /\ drawn \in [Mrs -> Int]
    /\ txn \in [Requests -> Txn \union {NoTxn}]
    /\ stale \subseteq StockItems
    /\ crossed \subseteq Mrs
    /\ foreign \subseteq Mrs
    /\ doubled \in BOOLEAN /\ negative \in BOOLEAN

NoRow == [exists |-> FALSE, onHand |-> 0]

\* The material requests have just been created, the material is not stocked.
Init ==
    /\ stock = [s \in StockItems |-> NoRow]
    /\ ledger = [s \in StockItems |-> 0]
    /\ mr = [m \in Mrs |-> "draft"]
    /\ line = [m \in Mrs |-> [approved |-> 0, issued |-> 0]]
    /\ drawn = [m \in Mrs |-> 0]
    /\ txn = [r \in Requests |-> NoTxn]
    /\ stale = {} /\ crossed = {} /\ foreign = {}
    /\ doubled = FALSE /\ negative = FALSE

-----------------------------------------------------------------------------

Idle ==
    [item |-> NoItem, loaded |-> NoRow, level |-> 0, amount |-> 0,
     mr |-> NoMr, from |-> "draft", to |-> "draft",
     target |-> NoMr, seen |-> [approved |-> 0, issued |-> 0],
     given |-> [approved |-> 0, issued |-> 0], entered |-> 0]

Work(r, t) ==
    /\ txn[r] = NoTxn
    /\ txn' = [txn EXCEPT ![r] = t]
    /\ UNCHANGED <<stock, ledger, mr, line, drawn, stale, doubled, crossed, foreign, negative>>

Stocked == {s \in StockItems : stock[s].exists}

\* Faulty variant: a receipt always adds a row.
StockItemNew(s) ==
    /\ s \notin Stocked
    /\ \A r \in Requests : txn[r] # NoTxn => txn[r].item # s

\* get_or_create_stock_item: the row there is, or a new one with nothing on hand.
\* Two rows make scalar_one_or_none raise.
StockItem(s) ==
    \/ Stocked = {s}
    \/ /\ Stocked = {}
       /\ \A r \in Requests : txn[r] # NoTxn => txn[r].item # s

\* What record_transaction adds to t when it moves amount in or out of s.
Moved(t, s, amount) ==
    [t EXCEPT !.item = s, !.loaded = stock[s], !.level = stock[s].onHand + amount,
              !.amount = amount]

\* Receipts, returns and adjustments.
StockIn(r, s, q) ==
    /\ StockItem(s)
    /\ Work(r, [Moved(Idle, s, q) EXCEPT !.entered = q])

\* Faulty variant: the quantity is not compared with what is on hand.
StockOutUnchecked(r, s, q) ==
    /\ StockItem(s)
    /\ Work(r, [Moved(Idle, s, -q) EXCEPT !.entered = q])

\* Issues, consumption and transfers.
StockOut(r, s, q) ==
    /\ StockItem(s)
    /\ q <= stock[s].onHand
    /\ Work(r, [Moved(Idle, s, -q) EXCEPT !.entered = q])

Moving(m, from, to) == [Idle EXCEPT !.mr = m, !.from = from, !.to = to]

SubmitMr(r, m) ==
    /\ mr[m] = "draft"
    /\ Work(r, Moving(m, "draft", "submitted"))

RejectMr(r, m) ==
    /\ mr[m] = "submitted"
    /\ Work(r, Moving(m, "submitted", "rejected"))

\* The item is found by its id alone, and may be one of another material request;
\* NoMr is any that Mrs does not follow.
ApproveMr(r, m, target, q) ==
    /\ m # NoMr => mr[m] = "submitted"
    /\ Work(r, [Moving(m, "submitted", "approved") EXCEPT
          !.target = target, !.seen = line[target],
          !.given = [line[target] EXCEPT !.approved = q]])

\* Without lines nothing is approved, and the status moves on all the same.
ApproveMrEmpty(r, m) ==
    /\ mr[m] = "submitted"
    /\ Work(r, Moving(m, "submitted", "approved"))

\* Faulty variant: an issued request can be issued again.
IssueMrAgain(r, m, s) ==
    LET q == line[m].approved IN
    /\ mr[m] \in {"approved", "issued"}
    /\ IF q > 0
       THEN /\ StockItem(s)
            /\ q <= stock[s].onHand
            /\ Work(r, [Moved(Moving(m, mr[m], "issued"), s, -q) EXCEPT
                  !.target = m, !.seen = line[m],
                  !.given = [line[m] EXCEPT !.issued = q]])
       ELSE Work(r, Moving(m, mr[m], "issued"))

\* Faulty variant: what is issued is not noted with the item.
IssueMrUnnoted(r, m, s) ==
    LET q == line[m].approved IN
    /\ mr[m] = "approved"
    /\ IF q > 0
       THEN /\ StockItem(s)
            /\ q <= stock[s].onHand
            /\ Work(r, Moved(Moving(m, "approved", "issued"), s, -q))
       ELSE Work(r, Moving(m, "approved", "issued"))

IssueMr(r, m, s) ==
    LET q == line[m].approved IN
    /\ mr[m] = "approved"
    /\ IF q > 0
       THEN /\ StockItem(s)
            /\ q <= stock[s].onHand
            /\ Work(r, [Moved(Moving(m, "approved", "issued"), s, -q) EXCEPT
                  !.target = m, !.seen = line[m],
                  !.given = [line[m] EXCEPT !.issued = q]])
       ELSE Work(r, Moving(m, "approved", "issued"))

-----------------------------------------------------------------------------

\* Faulty variant: the new quantity is worked out, but not assigned.
FlushLoaded(t) == [exists |-> TRUE, onHand |-> t.loaded.onHand]

Flush(t) ==
    [exists |-> TRUE,
     onHand |-> IF t.loaded.exists
                THEN Flushed(t.loaded.onHand, t.level, stock[t.item].onHand)
                ELSE t.level]

Adding == {r \in Requests : txn[r] # NoTxn /\ txn[r].item # NoItem /\ ~txn[r].loaded.exists}

CommitStock(r) ==
    LET t == txn[r] IN
    IF t.item = NoItem
    THEN UNCHANGED <<stock, ledger, stale, doubled>>
    ELSE /\ {t.level, ledger[t.item] + t.amount} \subseteq -MaxMoved..MaxMoved
         /\ stock' = [stock EXCEPT ![t.item] = Flush(t)]
         /\ ledger' = [ledger EXCEPT ![t.item] = @ + t.amount]
         /\ stale' = IF stock[t.item] = t.loaded THEN stale ELSE stale \union {t.item}
         /\ doubled' = (doubled \/ (r \in Adding /\ Adding # {r}))

\* approve_mr and issue_mr write different columns of the item.
CommitLine(t) ==
    IF t.target = NoMr
    THEN UNCHANGED line
    ELSE line' = [line EXCEPT
            ![t.target].approved = Flushed(t.seen.approved, t.given.approved, @),
            ![t.target].issued = Flushed(t.seen.issued, t.given.issued, @)]

Commit(r) ==
    LET t == txn[r] IN
    /\ t # NoTxn
    /\ CommitStock(r)
    /\ CommitLine(t)
    /\ IF t.mr = NoMr
       THEN UNCHANGED <<mr, drawn>>
       ELSE /\ mr' = [mr EXCEPT ![t.mr] = t.to]
            /\ drawn' = [drawn EXCEPT ![t.mr] = @ - t.amount]
    /\ txn' = [txn EXCEPT ![r] = NoTxn]
    /\ crossed' = crossed
          \union {m \in {t.mr} \ {NoMr} : mr[m] # t.from}
          \union {m \in {t.target} \ {NoMr} : line[m] # t.seen}
    /\ foreign' = foreign \union ({t.target} \ {t.mr, NoMr})
    /\ negative' = (negative \/ t.entered < 0)

Rollback(r) ==
    /\ txn[r] # NoTxn
    /\ txn' = [txn EXCEPT ![r] = NoTxn]
    /\ UNCHANGED <<stock, ledger, mr, line, drawn, stale, doubled, crossed, foreign, negative>>

Next ==
    \E r \in Requests :
        \/ \E s \in StockItems, q \in Quantities : StockIn(r, s, q) \/ StockOut(r, s, q)
        \/ \E m \in Mrs :
              \/ SubmitMr(r, m)
              \/ RejectMr(r, m)
              \/ \E other \in Mrs \union {NoMr}, q \in Approvals : ApproveMr(r, other, m, q)
              \/ ApproveMrEmpty(r, m)
              \/ \E s \in StockItems : IssueMr(r, m, s)
        \/ Commit(r)
        \/ Rollback(r)

Spec == Init /\ [][Next]_vars

-----------------------------------------------------------------------------
(* Properties *)

\* What is on hand is what the ledger adds up to, unless two movements read the
\* same quantity (record_transaction).
OnHandIsLedger ==
    \A s \in StockItems \ stale : stock[s].onHand = ledger[s]

\* The quantity on hand never falls below zero, even when movements overwrite
\* each other, as long as nobody enters a negative quantity.
NeverNegative ==
    negative \/ \A s \in StockItems : stock[s].onHand >= 0

\* Every material request is issued once at most, and what it has drawn is what
\* its item says, unless two requests worked on it at the same time.
DrawnOnce ==
    \A m \in Mrs \ crossed :
        /\ drawn[m] = line[m].issued
        /\ mr[m] # "issued" => drawn[m] = 0

\* A material request is issued exactly what was approved for it, unless the
\* approval came with another request's, or two requests crossed each other.
IssuedAsApproved ==
    \A m \in Mrs \ (crossed \union foreign) :
        mr[m] = "issued" => line[m].issued = IF line[m].approved > 0
                                             THEN line[m].approved ELSE 0

\* A material has one stock item in a warehouse, unless two first movements
\* each found none; with two the material can no longer be moved.
OneStockItem == doubled \/ Cardinality(Stocked) <= 1

===============================================================================
