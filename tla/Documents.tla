------------------------------ MODULE Documents ------------------------------
(***************************************************************************)
(* One document, its revisions and its approvals                           *)
(* (apps/documents/service.py, DocumentService) under concurrent requests. *)
(***************************************************************************)
EXTENDS Integers, Session

CONSTANTS
    Approvers,      \* the rows of document_approvals the document may get
    Requests,       \* slots for requests in flight at the same time
    MaxRevision,    \* bound: revisions ever added
    Patches,        \* statuses a PATCH may set
    NoTxn,          \* a slot without a request
    NoOne           \* no approver

ASSUME BoundAssumption == MaxRevision \in Nat

ASSUME NoOneAssumption == NoOne \notin Approvers

VARIABLES
    doc,        \* the row of table documents
    approval,   \* per approver, the status of the row of document_approvals
    txn,        \* per slot, the request in flight
    reviewed,   \* history: per approver, the revision the approval was given
                \* for
    patched,    \* history: update_document has set the status
    crossed     \* history: a commit overwrote a document, or followed from
                \* approvals, that had changed since they were read

vars == <<doc, approval, txn, reviewed, patched, crossed>>

-----------------------------------------------------------------------------

\* superseded and archived are set by update_document alone.
Status == {"draft", "under_review", "approved", "rejected", "superseded", "archived"}

Decision == {"pending", "approved", "rejected", "revision_required"}

Document == [status : Status, revision : Nat, deleted : BOOLEAN]

NoApproval == "absent"

\* fresh: no approval has changed since the request read them; patch: it is a
\* request of update_document.
Txn == [loaded : Document, assigned : Document,
        approver : Approvers \union {NoOne},
        decision : Decision \union {NoApproval},
        fresh : BOOLEAN, patch : BOOLEAN]

\* UpdateDocumentRequest.status is any DocumentStatus.
ASSUME PatchesAssumption == Patches \subseteq Status

ASSUME NoTxnAssumption == NoTxn \notin Txn

TypeOK ==
    /\ doc \in Document
    /\ approval \in [Approvers -> Decision \union {NoApproval}]
    /\ txn \in [Requests -> Txn \union {NoTxn}]
    /\ reviewed \in [Approvers -> Nat]
    /\ patched \in BOOLEAN
    /\ crossed \in BOOLEAN

\* create_document has just committed.
Init ==
    /\ doc = [status |-> "draft", revision |-> 0, deleted |-> FALSE]
    /\ approval = [a \in Approvers |-> NoApproval]
    /\ txn = [r \in Requests |-> NoTxn]
    /\ reviewed = [a \in Approvers |-> 0]
    /\ patched = FALSE
    /\ crossed = FALSE

-----------------------------------------------------------------------------

Work(r, row, a, decision, patch) ==
    /\ txn[r] = NoTxn
    /\ ~doc.deleted
    /\ txn' = [txn EXCEPT ![r] = [loaded |-> doc, assigned |-> row, approver |-> a,
                                  decision |-> decision, fresh |-> TRUE, patch |-> patch]]
    /\ UNCHANGED <<doc, approval, reviewed, patched, crossed>>

Change(r, row) == Work(r, row, NoOne, NoApproval, FALSE)

(* A PATCH may set any status; the other fields are not modelled.          *)
UpdateDocument(r, status) ==
    Work(r, [doc EXCEPT !.status = status], NoOne, NoApproval, TRUE)

SubmitForReview(r) ==
    /\ doc.status = "draft"
    /\ Change(r, [doc EXCEPT !.status = "under_review"])

(* The approvals given so far are kept.                                    *)
AddRevision(r) ==
    /\ doc.revision < MaxRevision
    /\ Change(r, [doc EXCEPT !.revision = @ + 1, !.status = "draft"])

DeleteDocument(r) == Change(r, [doc EXCEPT !.deleted = TRUE])

Outdated(t) == IF t = NoTxn THEN t ELSE [t EXCEPT !.fresh = FALSE]

(* One INSERT; nothing else is written, and the document only looked up.   *)
AddApprover(a) ==
    /\ ~doc.deleted
    /\ approval[a] = NoApproval
    /\ approval' = [approval EXCEPT ![a] = "pending"]
    /\ txn' = [r \in Requests |-> Outdated(txn[r])]
    /\ UNCHANGED <<doc, reviewed, patched, crossed>>

Rows(seen) == {a \in Approvers : seen[a] # NoApproval}

\* Faulty variant: one approval is as good as all.
OutcomeAny(status, seen) ==
    IF \E a \in Rows(seen) : seen[a] = "approved" THEN "approved"
    ELSE IF \E a \in Rows(seen) : seen[a] = "rejected" THEN "rejected"
    ELSE status

\* Faulty variant: a rejection counts before anything else, and is not lifted
\* by the last approval.
OutcomeOnceRejected(status, seen) ==
    IF status = "rejected" \/ \E a \in Rows(seen) : seen[a] = "rejected" THEN "rejected"
    ELSE IF \A a \in Rows(seen) : seen[a] = "approved" THEN "approved"
    ELSE status

Outcome(status, seen) ==
    IF \A a \in Rows(seen) : seen[a] = "approved" THEN "approved"
    ELSE IF \E a \in Rows(seen) : seen[a] = "rejected" THEN "rejected"
    ELSE status

\* The first flush of action_approval keeps the row of an approval locked
\* until the commit, if it changes it.
Locked(a) ==
    \E r \in Requests :
        txn[r] # NoTxn /\ txn[r].approver = a /\ txn[r].decision # approval[a]

\* Whatever the status of the document, and by any user of the module.
ActionApproval(r, a, decision) ==
    LET seen == [approval EXCEPT ![a] = decision] IN
    /\ approval[a] # NoApproval
    /\ decision = approval[a] \/ ~Locked(a)
    /\ Work(r, [doc EXCEPT !.status = Outcome(@, seen)], a, decision, FALSE)

-----------------------------------------------------------------------------

Flush(t, row) ==
    [status   |-> Flushed(t.loaded.status, t.assigned.status, row.status),
     revision |-> Flushed(t.loaded.revision, t.assigned.revision, row.revision),
     deleted  |-> Flushed(t.loaded.deleted, t.assigned.deleted, row.deleted)]

Commit(r) ==
    LET t == txn[r] IN
    /\ t # NoTxn
    /\ doc' = Flush(t, doc)
    /\ IF t.approver = NoOne
       THEN UNCHANGED <<approval, reviewed>>
       ELSE /\ approval' = [approval EXCEPT ![t.approver] = t.decision]
            /\ reviewed' = [reviewed EXCEPT ![t.approver] = t.loaded.revision]
    /\ txn' = [q \in Requests |->
          IF q = r THEN NoTxn
          ELSE IF approval' = approval THEN txn[q]
          ELSE Outdated(txn[q])]
    /\ crossed' = (crossed \/ doc # t.loaded \/ (t.approver # NoOne /\ ~t.fresh))
    /\ patched' = (patched \/ t.patch)

Rollback(r) ==
    /\ txn[r] # NoTxn
    /\ txn' = [txn EXCEPT ![r] = NoTxn]
    /\ UNCHANGED <<doc, approval, reviewed, patched, crossed>>

Next ==
    \/ \E a \in Approvers : AddApprover(a)
    \/ \E r \in Requests :
          \/ \E s \in Patches : UpdateDocument(r, s)
          \/ SubmitForReview(r)
          \/ AddRevision(r)
          \/ DeleteDocument(r)
          \/ \E a \in Approvers, d \in Decision : ActionApproval(r, a, d)
          \/ Commit(r)
          \/ Rollback(r)

Spec == Init /\ [][Next]_vars

-----------------------------------------------------------------------------
(* Properties *)

\* Nothing but reviews decided: no PATCH set the status, and no two requests
\* crossed each other.
Reviewed == ~patched /\ ~crossed

\* As long as reviews decide, a document somebody has rejected is not approved,
\* in whatever order approvals, revisions and new approvers come.
RejectionHolds ==
    Reviewed /\ (\E a \in Approvers : approval[a] = "rejected") => doc.status # "approved"

\* As long as reviews decide, nobody waits for a decision that has been made:
\* when all approvers have approved, and one of them the present revision, the
\* document is approved.
ConsentCounts ==
    /\ Reviewed
    /\ Rows(approval) # {}
    /\ \A a \in Rows(approval) : approval[a] = "approved"
    /\ \E a \in Rows(approval) : reviewed[a] = doc.revision
    => doc.status = "approved"

=============================================================================
