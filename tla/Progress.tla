------------------------------- MODULE Progress -------------------------------
(***************************************************************************)
(* Progress entries of one BOQ item under one contract, recorded by the    *)
(* staff (apps/progress/service.py, ProgressService) and by the            *)
(* subcontractor (apps/portal/service.py, PortalService) under concurrent  *)
(* requests.                                                               *)
(*                                                                         *)
(* Quantities are counted in the smallest unit the client uses.  Entries   *)
(* of other contracts and items are never read here: _calc_cumulative      *)
(* filters on both, even where its result is compared with the quantity    *)
(* of the whole project.                                                   *)
(***************************************************************************)
EXTENDS Integers, FiniteSetsExt, Session

CONSTANTS
    Entries,        \* ids an entry may get
    Requests,       \* slots for requests in flight at the same time
    Quantities,     \* quantities an entry may report
    Days,           \* work dates
    Assigned,       \* assigned_quantity of the item under the contract
    BoqTotal,       \* quantity of the item in the project's BOQ
    NoTxn           \* a slot without a request

\* quantity_completed is Field(gt=0) in both request schemas.
ASSUME QuantitiesAssumption == Quantities \subseteq Nat \ {0}

\* An item assigned with quantity 0 is not limited at all.
ASSUME AssignedAssumption == Assigned \in Nat \ {0} /\ BoqTotal \in Nat

\* The tallies are sums of finitely many rows, and every row has a work date.
ASSUME RowsAssumption == IsFiniteSet(Entries) /\ Days # {}

VARIABLES
    entry,      \* the rows of table progress_entries
    open,       \* project, contract and subcontractor accept work
    txn,        \* per slot, the request in flight
    raced,      \* history: entries some commit overwrote without having read
    piled       \* history: an entry was checked against a tally that did not
                \* count all the work already entered

vars == <<entry, open, txn, raced, piled>>

-----------------------------------------------------------------------------

Status == {"absent", "draft", "submitted", "approved", "rejected"}

Row == [status : Status, deleted : BOOLEAN,
        qty : Quantities \union {0}, day : Days]

\* tally is what _calc_cumulative returned to a handler that checked a
\* quantity, Unchecked for the others.
Unchecked == -1

Txn == [entry : Entries, loaded : Row, assigned : Row, tally : Nat \union {Unchecked}]

ASSUME NoTxnAssumption == NoTxn \notin Txn

NoEntry == [status |-> "absent", deleted |-> FALSE, qty |-> 0,
            day |-> CHOOSE d \in Days : TRUE]

TypeOK ==
    /\ entry \in [Entries -> Row]
    /\ open \in BOOLEAN
    /\ txn \in [Requests -> Txn \union {NoTxn}]
    /\ raced \subseteq Entries
    /\ piled \in BOOLEAN

Init ==
    /\ entry = [e \in Entries |-> NoEntry]
    /\ open \in BOOLEAN
    /\ txn = [r \in Requests |-> NoTxn]
    /\ raced = {}
    /\ piled = FALSE

-----------------------------------------------------------------------------

Live(e, statuses) == ~entry[e].deleted /\ entry[e].status \in statuses

Quantity(S) == SumFunctionOnSet([e \in Entries |-> entry[e].qty], S)

\* Faulty variant: claims that wait for approval are not counted.
CalcCumulativeApproved(S) == Quantity({e \in S : Live(e, {"approved"})})

CalcCumulative(S) == Quantity({e \in S : Live(e, {"submitted", "approved"})})

Exceeds(limit, cumulative) == limit > 0 /\ cumulative > limit

Work(r, e, row, tally) ==
    /\ txn[r] = NoTxn
    /\ txn' = [txn EXCEPT ![r] = [entry |-> e, loaded |-> entry[e],
                                  assigned |-> row, tally |-> tally]]
    /\ UNCHANGED <<entry, open, raced, piled>>

\* A new entry gets an id no other request has drawn.
FreshId(e) ==
    /\ entry[e].status = "absent"
    /\ \A r \in Requests : txn[r] # NoTxn => txn[r].entry # e

NewEntry(q, d) == [status |-> "draft", deleted |-> FALSE, qty |-> q, day |-> d]

CreateProgress(r, e, q, d) ==
    LET tally == CalcCumulative(Entries) IN
    /\ FreshId(e)
    /\ open
    /\ ~\E x \in Entries : Live(x, {"draft", "submitted"}) /\ entry[x].day = d
    /\ ~Exceeds(Assigned, tally + q)
    /\ ~Exceeds(BoqTotal, tally + q)
    /\ Work(r, e, NewEntry(q, d), tally)

\* The portal looks neither at the state of project, contract and
\* subcontractor, nor for an entry of the same day, nor at the BOQ's total.
PortalCreateProgress(r, e, q, d) ==
    LET tally == CalcCumulative(Entries) IN
    /\ FreshId(e)
    /\ tally + q <= Assigned
    /\ Work(r, e, NewEntry(q, d), tally)

(* A PATCH may change the quantity, which is checked again, and the work   *)
(* date, which is not.  Its version field is optional and compared with    *)
(* the row as loaded, so the check can stop it here and never later.       *)
UpdateProgress(r, e, q, d) ==
    LET tally == CalcCumulative(Entries \ {e})
        row   == [entry[e] EXCEPT !.qty = q, !.day = d]
    IN
    /\ Live(e, {"draft"})
    /\ IF q = entry[e].qty
       THEN Work(r, e, row, Unchecked)
       ELSE /\ ~Exceeds(Assigned, tally + q)
            /\ ~Exceeds(BoqTotal, tally + q)
            /\ Work(r, e, row, tally)

\* Faulty variant: an entry that waits for approval can be deleted.
DeleteProgressPending(r, e) ==
    /\ Live(e, {"draft", "submitted"})
    /\ Work(r, e, [entry[e] EXCEPT !.deleted = TRUE], Unchecked)

DeleteProgress(r, e) ==
    /\ Live(e, {"draft"})
    /\ Work(r, e, [entry[e] EXCEPT !.deleted = TRUE], Unchecked)

(* Staff and portal alike: the quantity is not checked again.              *)
SubmitProgress(r, e) ==
    /\ Live(e, {"draft"})
    /\ Work(r, e, [entry[e] EXCEPT !.status = "submitted"], Unchecked)

\* Faulty variant: a decision can be taken back.
ApproveProgressAgain(r, e, verdict) ==
    /\ Live(e, {"submitted", "approved"})
    /\ Work(r, e, [entry[e] EXCEPT !.status = verdict], Unchecked)

\* verdict is "rejected" when the request carries a rejection_reason.
ApproveProgress(r, e, verdict) ==
    /\ Live(e, {"submitted"})
    /\ Work(r, e, [entry[e] EXCEPT !.status = verdict], Unchecked)

-----------------------------------------------------------------------------

Flush(t, row) ==
    [status  |-> Flushed(t.loaded.status, t.assigned.status, row.status),
     deleted |-> Flushed(t.loaded.deleted, t.assigned.deleted, row.deleted),
     qty     |-> Flushed(t.loaded.qty, t.assigned.qty, row.qty),
     day     |-> Flushed(t.loaded.day, t.assigned.day, row.day)]

\* What the quantity check of t did not count, or counted differently.
Overlooked(t) ==
    \/ \E d \in Entries \ {t.entry} : Live(d, {"draft"})
    \/ CalcCumulative(Entries \ {t.entry}) # t.tally

Commit(r) ==
    LET t == txn[r] IN
    /\ t # NoTxn
    /\ entry' = [entry EXCEPT ![t.entry] = Flush(t, entry[t.entry])]
    /\ txn' = [txn EXCEPT ![r] = NoTxn]
    /\ raced' = IF entry[t.entry] = t.loaded THEN raced ELSE raced \union {t.entry}
    /\ piled' = (piled \/ (t.tally # Unchecked /\ Overlooked(t)))
    /\ UNCHANGED open

Rollback(r) ==
    /\ txn[r] # NoTxn
    /\ txn' = [txn EXCEPT ![r] = NoTxn]
    /\ UNCHANGED <<entry, open, raced, piled>>

(* Project, contract or subcontractor are closed or taken up again.        *)
OpenOrClose ==
    /\ open' = ~open
    /\ UNCHANGED <<entry, txn, raced, piled>>

Next ==
    \/ \E r \in Requests, e \in Entries :
          \/ \E q \in Quantities, d \in Days :
                \/ CreateProgress(r, e, q, d)
                \/ PortalCreateProgress(r, e, q, d)
                \/ UpdateProgress(r, e, q, d)
          \/ DeleteProgress(r, e)
          \/ SubmitProgress(r, e)
          \/ \E verdict \in {"approved", "rejected"} : ApproveProgress(r, e, verdict)
    \/ \E r \in Requests : Commit(r) \/ Rollback(r)
    \/ OpenOrClose

Spec == Init /\ [][Next]_vars

-----------------------------------------------------------------------------
(* Properties *)

\* A decided entry is the basis of payment certificates: once approved or
\* rejected it is never edited, deleted or decided again, except by a request
\* that had loaded it before the decision (update_, delete_, approve_progress).
DecidedIsFinal ==
    [][\A e \in Entries :
          /\ entry[e].status \in {"approved", "rejected"}
          /\ e \notin raced'
          => entry'[e] = entry[e]]_vars

\* Nobody can submit or approve a deleted entry, nor delete one that counts:
\* a row whose deleted_at is set beside a status past draft is the trace of two
\* requests that wrote the same row at the same time.
DeletedIsDraft ==
    \A e \in Entries \ raced : entry[e].deleted => entry[e].status = "draft"

\* The progress component implements WorkLog: within what is assigned, decided
\* once, unless entries were piled up behind the same check or writes raced.
Log == INSTANCE WorkLog WITH
    claimed <- Quantity({e \in Entries : Live(e, {"submitted"})}),
    confirmed <- Quantity({e \in Entries : Live(e, {"approved"})}),
    void <- piled \/ raced # {}

KeepsLog == Log!Spec

=============================================================================
