------------------------------- MODULE Workflows -------------------------------
(***************************************************************************)
(* The life cycles of a project (apps/projects/service.py) and of the      *)
(* things that are made in it and then decided, sent, signed or closed:    *)
(* expenses and change orders (apps/finance), requests for quotation,      *)
(* quotations and goods receipts (apps/procurement), daily reports         *)
(* (apps/site_ops), inspections, non-conformances, incidents and punch     *)
(* items (apps/quality), subcontractors, their contracts and work orders   *)
(* (apps/subcontractors); and the approvals inbox (apps/approvals), which  *)
(* looks at the project and at the item.                                   *)
(*                                                                         *)
(* There is one project and one item in it, of a kind chosen in the        *)
(* initial state.  Of an invoice, an order, a material request, a budget   *)
(* version and an approval of a document there is here only what the inbox *)
(* sees, up to the decision; Invoicing, Procurement, Inventory, Budget and *)
(* Documents have the rest.                                                *)
(***************************************************************************)
EXTENDS Session

CONSTANTS
    Beside,         \* bound: the kinds of items beside which the project is
                    \* changed as well; their handlers know nothing of it
    Requests,       \* slots for requests in flight at the same time
    NoTxn           \* a slot without a request

VARIABLES
    kind,       \* the kind of the item
    row,        \* the rows of the project and of the item
    txn,        \* per slot, the request in flight
    crossed,    \* history: the rows a request was committed on whose status or
                \* deletion had changed since it read them
    patched     \* history: a PATCH has set the status of the inspection

vars == <<kind, row, txn, crossed, patched>>

-----------------------------------------------------------------------------

\* Kinds of which all is here, and kinds of which the decision is.
Signed == {"expense", "change_order"}

Elsewhere == {"invoice", "order", "material_request"}

Kind == Signed \union Elsewhere \union
    {"subcontractor", "contract", "work_order"} \union
    {"budget", "approval", "rfq", "quotation", "grn", "report", "inspection", "ncr", "incident",
     "punch_item"}

\* pending_approval of an order is "submitted", a report with is_submitted and a
\* pending approval too; an incident under investigation is in progress, a
\* blacklisted subcontractor inactive, a terminated contract cancelled.
Status ==
    {"none"}
    \union {"draft", "planning", "active", "on_hold", "completed", "cancelled"}
    \union {"submitted", "approved", "rejected", "sent", "confirmed"}
    \union {"received", "accepted"}
    \union {"scheduled", "in_progress", "passed", "failed"}
    \union {"open", "resolved", "closed", "reported", "verified"}
    \union {"pending", "inactive"}

\* Columns that are set at some time and never unset: approved_by, the actual
\* dates of a project, the date an item was closed or completed, deleted_at; and
\* that the text of a report is not the first.
Mark == {"signed", "started", "ended", "dated", "deleted", "edited"}

Row == [status : Status, marks : SUBSET Mark]

\* What a request has read and assigned of the status, and the marks it adds.
Txn == [target : {"project", "item"}, from : Status, to : Status, marks : SUBSET Mark,
        patches : BOOLEAN]

TypeOK ==
    /\ kind \in Kind
    /\ row \in [{"project", "item"} -> Row]
    /\ txn \in [Requests -> Txn \union {NoTxn}]
    /\ crossed \subseteq {"project", "item"}
    /\ patched \in BOOLEAN

\* The status an item is created with.
First(k) ==
    CASE k = "quotation" -> "received"
      [] k = "inspection" -> "scheduled"
      [] k \in {"ncr", "punch_item"} -> "open"
      [] k = "incident" -> "reported"
      [] k = "approval" -> "submitted"
      [] k = "subcontractor" -> "active"
      [] k = "work_order" -> "pending"
      [] OTHER -> "draft"

Init ==
    /\ kind \in Kind
    /\ row = [x \in {"project", "item"} |->
                 [status |-> IF x = "item" THEN "none" ELSE "draft", marks |-> {}]]
    /\ txn = [r \in Requests |-> NoTxn]
    /\ crossed = {}
    /\ patched = FALSE

-----------------------------------------------------------------------------

\* A request, and what it assigns.
Begin(r, x, to, marks, patches) ==
    /\ txn[r] = NoTxn
    /\ "deleted" \notin row[x].marks
    /\ x = "project" => kind \in Beside
    /\ txn' = [txn EXCEPT ![r] =
          [target |-> x, from |-> row[x].status, to |-> to,
           marks |-> marks \ row[x].marks, patches |-> patches]]
    /\ UNCHANGED <<kind, row, crossed, patched>>

\* A handler that finds the row.
Work(r, x, to, marks) == row[x].status # "none" /\ Begin(r, x, to, marks, FALSE)

\* STATUS_TRANSITIONS
Allowed(status) ==
    CASE status = "draft" -> {"planning", "cancelled"}
      [] status = "planning" -> {"active", "on_hold", "cancelled"}
      [] status = "active" -> {"on_hold", "completed", "cancelled"}
      [] status = "on_hold" -> {"active", "cancelled"}
      [] OTHER -> {}

\* Faulty variant: the start is noted when planning ends, and not when a project
\* that was put on hold before becomes active.
UpdateStatusOnce(r, to) ==
    LET from == row["project"].status IN
    /\ to \in Allowed(from)
    /\ Work(r, "project", to,
            (IF to = "active" /\ from = "planning" THEN {"started"} ELSE {})
            \union (IF to = "completed" THEN {"ended"} ELSE {}))

UpdateStatus(r, to) ==
    /\ to \in Allowed(row["project"].status)
    /\ Work(r, "project", to,
            (IF to = "active" THEN {"started"} ELSE {})
            \union (IF to = "completed" THEN {"ended"} ELSE {}))

\* A PATCH may give a project its actual dates, whatever its status.
UpdateProject(r, dates) == Work(r, "project", row["project"].status, dates)

\* Faulty variant: a project is deleted in any status.
DeleteProjectAnyTime(r) == Work(r, "project", row["project"].status, {"deleted"})

DeleteProject(r) ==
    /\ row["project"].status # "active"
    /\ Work(r, "project", row["project"].status, {"deleted"})

-----------------------------------------------------------------------------

\* None of these looks at the project.  Another request creates another item.
Create(r, k) ==
    /\ kind = k
    /\ row["item"].status = "none"
    /\ \A other \in Requests : txn[other] # NoTxn => txn[other].target = "project"
    /\ Begin(r, "item", First(k), {}, FALSE)

CreateExpense(r) == Create(r, "expense")

CreateChangeOrder(r) == Create(r, "change_order")

CreateRfq(r) == Create(r, "rfq")

CreateQuotation(r) == Create(r, "quotation")

CreateGrn(r) == Create(r, "grn")

CreateDpr(r) == Create(r, "report")

CreateInspection(r) == Create(r, "inspection")

CreateNcr(r) == Create(r, "ncr")

CreateIncident(r) == Create(r, "incident")

CreatePunchItem(r) == Create(r, "punch_item")

CreateSubcontractor(r) == Create(r, "subcontractor")

CreateContract(r) == Create(r, "contract")

CreateWorkOrder(r) == Create(r, "work_order")

CreateBudgetVersion(r) == Create(r, "budget")

AddApprover(r) == Create(r, "approval")

CreateElsewhere(r) == \E k \in Elsewhere : Create(r, k)

-----------------------------------------------------------------------------

\* A step of the item that asks for one status and gives it another; none asks
\* what the project is doing.
Step(r, k, from, to, marks) ==
    /\ kind = k
    /\ row["item"].status = from
    /\ Work(r, "item", to, marks)

SubmitExpense(r) == Step(r, "expense", "draft", "submitted", {})

ApproveExpense(r) == Step(r, "expense", "submitted", "approved", {"signed"})

RejectExpense(r) == Step(r, "expense", "submitted", "rejected", {})

SubmitChangeOrder(r) == Step(r, "change_order", "draft", "submitted", {})

ApproveChangeOrder(r) == Step(r, "change_order", "submitted", "approved", {"signed"})

RejectChangeOrder(r) == Step(r, "change_order", "submitted", "rejected", {})

Submit(r) == \E k \in Elsewhere : Step(r, k, "draft", "submitted", {})

Decide(r) ==
    \E k \in Elsewhere, to \in {"approved", "rejected"} : Step(r, k, "submitted", to, {})

\* A version is approved as it is; nothing submits it.
ApproveBudgetVersion(r) ==
    /\ kind = "budget"
    /\ row["item"].status # "approved"
    /\ Work(r, "item", "approved", {"signed"})

\* Whatever was decided before; asking for a revision is like a rejection.
ActionApproval(r, to) ==
    /\ kind = "approval"
    /\ to \in {"submitted", "approved", "rejected"}
    /\ Work(r, "item", to, {})

\* The document of the approval.
DeleteDocument(r) == kind = "approval" /\ Work(r, "item", row["item"].status, {"deleted"})

\* A PATCH sets any status; what a contract or a subcontractor with this status
\* may still do is asked where progress is recorded (Progress).
Patch(r, k, to, statuses) == kind = k /\ to \in statuses /\ Work(r, "item", to, {})

UpdateSubcontractor(r, to) == Patch(r, "subcontractor", to, {"active", "inactive"})

\* Whatever contracts it has.
DeleteSubcontractor(r) ==
    kind = "subcontractor" /\ Work(r, "item", row["item"].status, {"deleted"})

UpdateContract(r, to) ==
    Patch(r, "contract", to, {"draft", "active", "completed", "cancelled"})

UpdateWorkOrder(r, to) ==
    Patch(r, "work_order", to, {"pending", "in_progress", "completed", "cancelled"})

SendRfq(r) == Step(r, "rfq", "draft", "sent", {})

\* Neither asks for the status.
AcceptQuotation(r) == kind = "quotation" /\ Work(r, "item", "accepted", {})

ConfirmGrn(r) == kind = "grn" /\ Work(r, "item", "confirmed", {})

SubmitDpr(r) == Step(r, "report", "draft", "submitted", {})

\* Faulty variant: a submitted report is edited.
UpdateDprAlways(r) == kind = "report" /\ Work(r, "item", row["item"].status, {"edited"})

UpdateDpr(r) == Step(r, "report", "draft", "draft", {"edited"})

CompleteInspection(r, to) ==
    /\ kind = "inspection"
    /\ row["item"].status \notin {"passed", "failed"}
    /\ to \in {"passed", "failed"}
    /\ Work(r, "item", to, {"dated"})

\* A PATCH sets whatever it is given: any status, with a date or without.
UpdateInspection(r, to, marks) ==
    /\ kind = "inspection"
    /\ row["item"].status # "none"
    /\ to \in {"scheduled", "in_progress", "passed", "failed", "cancelled"}
    /\ Begin(r, "item", to, marks, to # row["item"].status)

\* Closing dates the report, and opening it again leaves the date.  Disputed and
\* acknowledged ones are like those in progress.
UpdateNcr(r, to) ==
    /\ kind = "ncr"
    /\ to \in {"open", "in_progress", "resolved", "closed"}
    /\ Work(r, "item", to, IF to = "closed" THEN {"dated"} ELSE {})

UpdateIncident(r, to) ==
    /\ kind = "incident"
    /\ to \in {"reported", "in_progress", "resolved", "closed"}
    /\ Work(r, "item", to, {})

UpdatePunchItem(r, to, marks) ==
    /\ kind = "punch_item"
    /\ to \in {"open", "in_progress", "completed", "verified", "rejected"}
    /\ Work(r, "item", to, IF to = "completed" THEN {"dated"} ELSE marks)

-----------------------------------------------------------------------------

\* No request has read a row that was deleted.  What only adds a date, or
\* nothing, does not cross anything.
Crosses(t) ==
    /\ row[t.target].status # t.from \/ "deleted" \in row[t.target].marks
    /\ t.to # t.from \/ t.marks \intersect {"deleted", "edited"} # {}

Commit(r) ==
    LET t == txn[r] IN
    /\ t # NoTxn
    /\ row' = [row EXCEPT ![t.target] =
          [status |-> Flushed(t.from, t.to, @.status), marks |-> @.marks \union t.marks]]
    /\ txn' = [txn EXCEPT ![r] = NoTxn]
    /\ crossed' = IF Crosses(t) THEN crossed \union {t.target} ELSE crossed
    /\ patched' = (patched \/ t.patches)
    /\ UNCHANGED kind

Rollback(r) ==
    /\ txn[r] # NoTxn
    /\ txn' = [txn EXCEPT ![r] = NoTxn]
    /\ UNCHANGED <<kind, row, crossed, patched>>

FinanceStep(r) ==
    \/ CreateExpense(r) \/ SubmitExpense(r) \/ ApproveExpense(r) \/ RejectExpense(r)
    \/ CreateChangeOrder(r) \/ SubmitChangeOrder(r)
    \/ ApproveChangeOrder(r) \/ RejectChangeOrder(r)

ProcurementStep(r) ==
    \/ CreateRfq(r) \/ SendRfq(r)
    \/ CreateQuotation(r) \/ AcceptQuotation(r)
    \/ CreateGrn(r) \/ ConfirmGrn(r)

SiteOpsStep(r) == CreateDpr(r) \/ UpdateDpr(r) \/ SubmitDpr(r)

QualityStep(r) ==
    \/ CreateInspection(r) \/ CreateNcr(r) \/ CreateIncident(r) \/ CreatePunchItem(r)
    \/ \E to \in Status :
          \/ CompleteInspection(r, to)
          \/ UpdateNcr(r, to)
          \/ UpdateIncident(r, to)
          \/ \E marks \in SUBSET {"dated"} :
                UpdateInspection(r, to, marks) \/ UpdatePunchItem(r, to, marks)

SubcontractorStep(r) ==
    \/ CreateSubcontractor(r) \/ DeleteSubcontractor(r)
    \/ CreateContract(r) \/ CreateWorkOrder(r)
    \/ \E to \in Status :
          UpdateSubcontractor(r, to) \/ UpdateContract(r, to) \/ UpdateWorkOrder(r, to)

\* Of the items that other modules have.
DecisionStep(r) ==
    \/ CreateElsewhere(r) \/ Submit(r) \/ Decide(r)
    \/ CreateBudgetVersion(r) \/ ApproveBudgetVersion(r)
    \/ AddApprover(r) \/ (\E to \in Status : ActionApproval(r, to)) \/ DeleteDocument(r)

ProjectStep(r) ==
    \/ \E to \in Status : UpdateStatus(r, to)
    \/ \E dates \in SUBSET {"started", "ended"} : UpdateProject(r, dates)
    \/ DeleteProject(r)

Next ==
    \E r \in Requests :
        \/ ProjectStep(r) \/ FinanceStep(r) \/ ProcurementStep(r) \/ SiteOpsStep(r)
        \/ QualityStep(r) \/ SubcontractorStep(r) \/ DecisionStep(r)
        \/ Commit(r) \/ Rollback(r)

Spec == Init /\ [][Next]_vars

-----------------------------------------------------------------------------
(* What the inbox shows to a user who may see every module: items joined    *)
(* with their project, neither deleted.  No budget version is ever         *)
(* submitted, and the approval of a document is shown to its approver.     *)

Pending(kinds) ==
    /\ kind \in kinds
    /\ row["item"].status = "submitted"
    /\ \A x \in {"project", "item"} : "deleted" \notin row[x].marks

PendingFinance == Pending({"invoice", "expense", "change_order"})

PendingProcurement == Pending({"order"})

PendingInventory == Pending({"material_request"})

PendingBoq == Pending({"budget"})

PendingDocuments == Pending({"approval"})

\* What its total counts; the list is cut to the newest of these, as many as the
\* request asks for (100, and 500 at most).
Counted ==
    PendingFinance \/ PendingProcurement \/ PendingInventory \/ PendingBoq \/ PendingDocuments

-----------------------------------------------------------------------------
(* Properties *)

\* Deleted, or in a status that nothing leads out of.
Settled(x) ==
    \/ "deleted" \in row[x].marks
    \/ x = "project" /\ row[x].status \in {"completed", "cancelled"}
    \/ x = "item" /\ row[x].status \in
        CASE kind \in Signed -> {"approved", "rejected"}
          [] kind = "inspection" -> {"passed", "failed"}
          [] kind = "report" -> {"submitted"}
          [] kind = "rfq" -> {"sent"}
          [] kind \in Elsewhere -> {"rejected"}
          [] OTHER -> {}

\* Nothing happens to an item once it is decided, sent, submitted or deleted, and
\* the status of a project stays once it is completed, cancelled or deleted, but
\* for a request that had read the row before (a PATCH of an inspection apart).
SettledStays ==
    [][/\ Settled("item") =>
              row'["item"] = row["item"] \/ "item" \in crossed' \/ patched'
       /\ Settled("project") =>
              \/ row'["project"].status = row["project"].status
              \/ "project" \in crossed']_vars

\* Dates do not lag behind the status, however requests cross: a project that is
\* active or completed has started, a completed one has ended, and a closed
\* non-conformance, a completed punch item and a completed inspection are dated,
\* the inspection unless its status came from a PATCH.
DatesTellStatus ==
    /\ row["project"].status \in {"active", "completed"} => "started" \in row["project"].marks
    /\ row["project"].status = "completed" => "ended" \in row["project"].marks
    /\ kind \in {"ncr", "punch_item", "inspection"} =>
           (row["item"].status \in {"closed", "completed", "passed", "failed"} =>
                "dated" \in row["item"].marks \/ patched)

Awaits ==
    /\ kind \in Signed \union Elsewhere \union {"approval"}
    /\ row["item"].status = "submitted"
    /\ "deleted" \notin row["item"].marks

\* What awaits a decision in an active project counts in the total of somebody's
\* inbox, unless the deletion of the project crossed its activation
\* (delete_project, get_inbox); whether it is listed too depends on how many newer
\* items wait.  A budget version, which awaits its approval as a draft, counts in
\* none.
ActiveIsCounted ==
    row["project"].status = "active" /\ "project" \notin crossed => (Awaits => Counted)

================================================================================
