-------------------------------- MODULE Budget --------------------------------
(***************************************************************************)
(* The budget versions of one project and their BOQ items                  *)
(* (apps/boq/service.py, BOQService) under concurrent requests.            *)
(*                                                                         *)
(* A version has a slot per item.  Its total is total_amount, the sum of   *)
(* the items' amounts; the other totals are computed from the same items   *)
(* by the same statement.                                                  *)
(***************************************************************************)
EXTENDS Integers, FiniteSetsExt, Session

CONSTANTS
    Versions,       \* ids a budget version may get
    Slots,          \* items a version may have
    Amounts,        \* amounts of an item
    Requests,       \* slots for requests in flight at the same time
    NoTxn           \* a slot without a request

\* quantity and unit_rate are any floats; an item of amount 0 counts as none.
ASSUME AmountsAssumption == Amounts \subseteq Int \ {0}

\* The totals are sums of finitely many rows.
ASSUME SlotsAssumption == IsFiniteSet(Slots)

VARIABLES
    version,    \* the rows of budget_versions
    item,       \* per version, the amounts of its rows of boq_items
    txn,        \* per slot, the request in flight
    crossed,    \* history: an approval committed after another had committed
                \* since it read which version is approved
    numbered,   \* history: the same of two requests that number a version
    stale       \* history: versions with an item written by a request that had
                \* read another state of the version

vars == <<version, item, txn, crossed, numbered, stale>>

-----------------------------------------------------------------------------

NoItem == 0
NoItems == [s \in Slots |-> NoItem]

\* Nothing sets SUBMITTED; the version that approve_budget_version finds is a
\* draft or superseded.
Row == [status : {"absent", "draft", "approved", "superseded"}, number : Nat, total : Int]

NoVersion == [status |-> "absent", number |-> 0, total |-> 0]

ItemsOf == [Slots -> Amounts \union {NoItem}]

\* fresh: what the request has read has not been committed anew since.
NumberTxn == [kind : {"number"}, version : Versions, row : Row, items : ItemsOf,
              fresh : BOOLEAN]
ApproveTxn == [kind : {"approve"}, version : Versions, approved : SUBSET Versions,
               fresh : BOOLEAN]
ItemTxn == [kind : {"item"}, version : Versions, slot : Slots,
            amount : Amounts \union {NoItem}, total : Int, fresh : BOOLEAN]

TypeOK ==
    /\ version \in [Versions -> Row]
    /\ item \in [Versions -> ItemsOf]
    /\ txn \in [Requests -> NumberTxn \union ApproveTxn \union ItemTxn \union {NoTxn}]
    /\ crossed \in BOOLEAN
    /\ numbered \in BOOLEAN
    /\ stale \subseteq Versions

Init ==
    /\ version = [v \in Versions |-> NoVersion]
    /\ item = [v \in Versions |-> NoItems]
    /\ txn = [r \in Requests |-> NoTxn]
    /\ crossed = FALSE
    /\ numbered = FALSE
    /\ stale = {}

-----------------------------------------------------------------------------

Existing == {v \in Versions : version[v].status # "absent"}
Approved == {v \in Versions : version[v].status = "approved"}

Work(r, t) ==
    /\ txn[r] = NoTxn
    /\ txn' = [txn EXCEPT ![r] = t]
    /\ UNCHANGED <<version, item, crossed, numbered, stale>>

FreshId(v) ==
    /\ v \notin Existing
    /\ \A r \in Requests : txn[r] # NoTxn => txn[r].version # v

\* Faulty variant: counts on from the version in force.
NextNumberInForce == 1 + Max({0} \union {version[v].number : v \in Approved})

NextNumber == 1 + Max({0} \union {version[v].number : v \in Existing})

Sum(items) == SumFunctionOnSet(items, Slots)

NewVersion(total) == [status |-> "draft", number |-> NextNumber, total |-> total]

CreateBudgetVersion(r, v) ==
    /\ FreshId(v)
    /\ Work(r, [kind |-> "number", version |-> v, row |-> NewVersion(0),
                items |-> NoItems, fresh |-> TRUE])

CopyBudgetVersion(r, v, source) ==
    /\ FreshId(v)
    /\ source \in Existing
    /\ Work(r, [kind |-> "number", version |-> v, row |-> NewVersion(Sum(item[source])),
                items |-> item[source], fresh |-> TRUE])

\* Faulty variant: whatever was approved before stays approved.
ApproveBudgetVersionToo(r, v) ==
    /\ v \in Existing \ Approved
    /\ Work(r, [kind |-> "approve", version |-> v, approved |-> {}, fresh |-> TRUE])

(* The versions to supersede are selected here, by the UPDATE that also    *)
(* locks them; those another request has superseded meanwhile are passed   *)
(* over when the lock is free.                                             *)
ApproveBudgetVersion(r, v) ==
    /\ v \in Existing \ Approved
    /\ Work(r, [kind |-> "approve", version |-> v, approved |-> Approved, fresh |-> TRUE])

\* Faulty variant: the state of the version is not looked at.
WriteItemAlways(r, v, s, amount) ==
    /\ v \in Existing
    /\ item[v][s] # amount
    /\ Work(r, [kind |-> "item", version |-> v, slot |-> s, amount |-> amount,
                total |-> Sum([item[v] EXCEPT ![s] = amount]), fresh |-> TRUE])

\* Faulty variant: the totals are left as they were.
WriteItemOnly(r, v, s, amount) ==
    /\ v \in Existing \ Approved
    /\ item[v][s] # amount
    /\ Work(r, [kind |-> "item", version |-> v, slot |-> s, amount |-> amount,
                total |-> version[v].total, fresh |-> TRUE])

(* create_boq_item, update_boq_item and delete_boq_item; an import writes  *)
(* several slots of the same version the same way.                         *)
(* _recalculate_version_totals sums up the items as this request sees      *)
(* them, its own change included.                                          *)
WriteItem(r, v, s, amount) ==
    /\ v \in Existing \ Approved
    /\ item[v][s] # amount
    /\ Work(r, [kind |-> "item", version |-> v, slot |-> s, amount |-> amount,
                total |-> Sum([item[v] EXCEPT ![s] = amount]), fresh |-> TRUE])

-----------------------------------------------------------------------------

(* r is done, and what the requests q in S have read is outdated.          *)
Finish(r, S) ==
    txn' = [q \in Requests |->
        IF q = r THEN NoTxn
        ELSE IF q \in S THEN [txn[q] EXCEPT !.fresh = FALSE]
        ELSE txn[q]]

InFlight(kind) == {q \in Requests : txn[q] # NoTxn /\ txn[q].kind = kind}

WritingItemsOf(v) == {q \in InFlight("item") : txn[q].version = v}

CommitNumber(r) ==
    LET t == txn[r] IN
    /\ r \in InFlight("number")
    /\ version' = [version EXCEPT ![t.version] = t.row]
    /\ item' = [item EXCEPT ![t.version] = t.items]
    /\ Finish(r, InFlight("number"))
    /\ numbered' = (numbered \/ ~t.fresh)
    /\ UNCHANGED <<crossed, stale>>

CommitApprove(r) ==
    LET t == txn[r] IN
    /\ r \in InFlight("approve")
    /\ version' = [v \in Versions |->
          IF v = t.version THEN [version[v] EXCEPT !.status = "approved"]
          ELSE IF v \in t.approved \intersect Approved
               THEN [version[v] EXCEPT !.status = "superseded"]
          ELSE version[v]]
    /\ Finish(r, InFlight("approve") \union WritingItemsOf(t.version))
    /\ crossed' = (crossed \/ ~t.fresh)
    /\ UNCHANGED <<item, numbered, stale>>

(* The UPDATE of the totals writes the totals alone.                       *)
CommitItem(r) ==
    LET t == txn[r] IN
    /\ r \in InFlight("item")
    /\ item' = [item EXCEPT ![t.version][t.slot] = t.amount]
    /\ version' = [version EXCEPT ![t.version].total = t.total]
    /\ Finish(r, WritingItemsOf(t.version))
    /\ stale' = IF t.fresh THEN stale ELSE stale \union {t.version}
    /\ UNCHANGED <<crossed, numbered>>

Rollback(r) ==
    /\ txn[r] # NoTxn
    /\ txn' = [txn EXCEPT ![r] = NoTxn]
    /\ UNCHANGED <<version, item, crossed, numbered, stale>>

Next ==
    \E r \in Requests :
        \/ \E v \in Versions :
              \/ CreateBudgetVersion(r, v)
              \/ \E source \in Versions : CopyBudgetVersion(r, v, source)
              \/ ApproveBudgetVersion(r, v)
              \/ \E s \in Slots, a \in Amounts \union {NoItem} : WriteItem(r, v, s, a)
        \/ CommitNumber(r)
        \/ CommitApprove(r)
        \/ CommitItem(r)
        \/ Rollback(r)

Spec == Init /\ [][Next]_vars

-----------------------------------------------------------------------------
(* Properties *)

\* Two versions of a project are approved at the same time only after two
\* approvals overlapped (approve_budget_version, which supersedes and approves
\* in two statements).
OneApprovedUnlessCrossed ==
    crossed \/ \A u, v \in Approved : u = v

\* An approved version is what was approved: no item, no total of it changes,
\* but for an item request that had read the version before.
ApprovedIsFrozen ==
    [][\A v \in Approved \ stale' :
          /\ item'[v] = item[v]
          /\ version'[v].total = version[v].total]_vars

\* The total of a version is the sum of its items unless two requests changed
\* items of it at the same time, each blind to what the other had not committed.
TotalIsSum ==
    \A v \in Existing \ stale : version[v].total = Sum(item[v])

\* Version numbers count 1, 2, 3, ... in the order of creation, without
\* repetition, unless two requests took the same maximum.
NumbersCount ==
    numbered \/ {version[v].number : v \in Existing} = 1..Cardinality(Existing)

===============================================================================
