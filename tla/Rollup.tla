-------------------------------- MODULE Rollup ---------------------------------
(***************************************************************************)
(* A figure of a parent that is worked out from its children: the progress *)
(* of a project from its milestones (apps/projects/service.py), and the    *)
(* score of an inspection from its checklist (apps/quality/service.py).    *)
(* Both are built the same way: the child is flushed, a SELECT takes the   *)
(* average, an UPDATE writes it to the parent.                             *)
(*                                                                         *)
(* The UPDATE of a flush locks its row until the commit, and work goes on  *)
(* after it; so the steps in between are steps of their own here, and a    *)
(* request waits for the row another one holds.                            *)
(*                                                                         *)
(* Of a parent there is the figure alone; status, dates and deletion are   *)
(* in Workflows.  An answer is 100 if it is passed, 0 if not.              *)
(***************************************************************************)
EXTENDS Integers, FiniteSets, Functions, Session

CONSTANTS
    Children,       \* ids of milestones or checklist items
    Percents,       \* values a caller gives for a percentage
    Requests,       \* slots for requests in flight at the same time
    NoTxn,          \* a slot without a request
    NoChild,        \* no child
    NoRow,          \* a milestone not yet created, an item not yet answered
    DeletedRow      \* a milestone with deleted_at

ASSUME ChildrenAssumption == IsFiniteSet(Children)

\* Neither schema restricts a percentage.
ASSUME PercentsAssumption == Percents \subseteq Int

ASSUME NoneAssumption ==
    NoChild \notin Children /\ NoRow # DeletedRow /\ {NoRow, DeletedRow} \intersect Int = {}

VARIABLES
    parent,     \* what the parent is, "project" or "inspection"
    figure,     \* its progress_percentage or score
    child,      \* per child, its percentage or answer, NoRow or DeletedRow
    txn,        \* per slot, the request in flight
    drift       \* history: since the last recalculation that had every child
                \* before it, something else bore on the figure

vars == <<parent, figure, child, txn, drift>>

-----------------------------------------------------------------------------

Row == Int \union {NoRow, DeletedRow}

\* How far a handler has come: rows read, child written, average taken, parent
\* written with mails still to send, ready to commit.
Stage == {"read", "written", "averaged", "mailing", "done"}

\* A request on the parent (target is NoChild) or on a child that was one row
\* and becomes another.  from and to are the figure it has loaded and assigned;
\* fresh says no child has changed since it took its average.
Txn == [stage : Stage, target : Children \union {NoChild}, was : Row, becomes : Row,
        recalculates : BOOLEAN, from : Int, to : Int, mails : BOOLEAN,
        fresh : BOOLEAN]

TypeOK ==
    /\ parent \in {"project", "inspection"}
    /\ figure \in Int
    /\ child \in [Children -> Row]
    /\ txn \in [Requests -> Txn \union {NoTxn}]
    /\ drift \in BOOLEAN

\* A project without milestones, or an inspection without answers.
Init ==
    /\ parent \in {"project", "inspection"}
    /\ figure = 0
    /\ child = [c \in Children |-> NoRow]
    /\ txn = [r \in Requests |-> NoTxn]
    /\ drift = FALSE

-----------------------------------------------------------------------------

InFlight(r) == txn[r] # NoTxn

At(r, stage) == InFlight(r) /\ txn[r].stage = stage

\* A flush that changes nothing writes nothing, and waits for nobody.
Writes(t) == t.was # t.becomes

\* The rows a request has written are locked until it ends.
HoldsChild(r, c) ==
    /\ InFlight(r)
    /\ txn[r].target = c
    /\ txn[r].stage # "read"
    /\ Writes(txn[r])

HoldsParent(r) ==
    /\ At(r, "mailing") \/ At(r, "done")
    /\ txn[r].target = NoChild \/ txn[r].recalculates

\* Faulty variant: the SELECT of the average locks every child (FOR UPDATE).
WaitsForChildren(r, other) ==
    /\ other # r
    /\ \/ At(r, "read") /\ Writes(txn[r]) /\ HoldsChild(other, txn[r].target)
       \/ At(r, "written") /\ \E c \in Children : HoldsChild(other, c)
       \/ At(r, "read") /\ txn[r].target = NoChild /\ HoldsParent(other)
       \/ At(r, "averaged") /\ HoldsParent(other)

\* The next step of r is an UPDATE of a row that other has locked: of the child,
\* or of the parent, be it of a handler on it or of a recalculation.
WaitsFor(r, other) ==
    \/ /\ At(r, "read") /\ txn[r].target # NoChild /\ Writes(txn[r])
       /\ HoldsChild(other, txn[r].target)
    \/ /\ At(r, "averaged") \/ (At(r, "read") /\ txn[r].target = NoChild)
       /\ HoldsParent(other)

Waits(r) == \E other \in Requests : WaitsFor(r, other)

Begin(r, t) ==
    /\ ~InFlight(r)
    /\ txn' = [txn EXCEPT ![r] = t]
    /\ UNCHANGED <<parent, figure, child, drift>>

Reach(r, stage) ==
    /\ txn' = [txn EXCEPT ![r].stage = stage]
    /\ UNCHANGED <<parent, figure, child, drift>>

OnParent(from, to, mails) ==
    [stage |-> "read", target |-> NoChild, was |-> NoRow, becomes |-> NoRow,
     recalculates |-> FALSE, from |-> from, to |-> to, mails |-> mails,
     fresh |-> TRUE]

OnChild(c, becomes, recalculates) ==
    [stage |-> "read", target |-> c, was |-> child[c], becomes |-> becomes,
     recalculates |-> recalculates, from |-> 0, to |-> 0, mails |-> FALSE,
     fresh |-> TRUE]

Live == {c \in Children : child[c] \notin {NoRow, DeletedRow}}

\* A change of status writes the row, then tells the members by mail; which
\* status may follow which is in Workflows.
UpdateStatus(r) == parent = "project" /\ Begin(r, OnParent(0, 0, TRUE))

\* A PATCH may set the progress by hand.
UpdateProject(r, percent) == parent = "project" /\ Begin(r, OnParent(figure, percent, FALSE))

\* An insert waits for nobody, and nothing is recalculated.
CreateMilestone(r, c, percent) ==
    /\ parent = "project"
    /\ child[c] = NoRow
    /\ \A other \in Requests : ~HoldsChild(other, c)
    /\ Begin(r, [OnChild(c, percent, FALSE) EXCEPT !.stage = "done"])

\* update and delete find the milestone, and do not look at the project.
UpdateMilestone(r, c, percent) ==
    /\ parent = "project"
    /\ c \in Live
    /\ Begin(r, OnChild(c, percent, TRUE))

DeleteMilestone(r, c) ==
    /\ parent = "project"
    /\ c \in Live
    /\ Begin(r, OnChild(c, DeletedRow, FALSE))

\* An item that was answered cannot be taken back to unanswered.
UpdateChecklistItem(r, c, percent) ==
    /\ parent = "inspection"
    /\ percent \in {0, 100}
    /\ Begin(r, OnChild(c, percent, TRUE))

\* A PATCH may set the score by hand.
UpdateInspection(r, score) ==
    parent = "inspection" /\ Begin(r, OnParent(figure, score, FALSE))

CompleteInspection(r) == parent = "inspection" /\ Begin(r, OnParent(0, 0, FALSE))

-----------------------------------------------------------------------------

\* The flush of a handler on the parent.
WriteParent(r) ==
    /\ At(r, "read")
    /\ txn[r].target = NoChild
    /\ Reach(r, IF txn[r].mails THEN "mailing" ELSE "done")

\* _notify_project_members, between flush and commit.
SendMails(r) == At(r, "mailing") /\ Reach(r, "done")

\* The flush of a handler on a child.
WriteChild(r) ==
    /\ At(r, "read")
    /\ txn[r].target # NoChild
    /\ Reach(r, IF txn[r].recalculates THEN "written" ELSE "done")

\* The row of its child once t has been flushed; a deleted row is not found
\* again, and what an update still writes to it does not matter.
Becomes(t) ==
    IF child[t.target] = DeletedRow THEN DeletedRow
    ELSE Flushed(t.was, t.becomes, child[t.target])

\* AVG of no rows is null.
Average(rows) ==
    LET live == {c \in Children : rows[c] \notin {NoRow, DeletedRow}} IN
    IF live = {} THEN 0
    ELSE SumFunctionOnSet(rows, live) \div Cardinality(live)

Averaged(r, average) ==
    /\ txn' = [txn EXCEPT ![r] = [@ EXCEPT !.stage = "averaged", !.to = average]]
    /\ UNCHANGED <<parent, figure, child, drift>>

\* Faulty variant: the average is taken before the child is flushed.
TakeAverageBefore(r) == At(r, "written") /\ Averaged(r, Average(child))

\* The SELECT of the recalculation: what is committed, and its own.
TakeAverage(r) ==
    /\ At(r, "written")
    /\ Averaged(r, Average([child EXCEPT ![txn[r].target] = Becomes(txn[r])]))

\* Its UPDATE.
WriteFigure(r) == At(r, "averaged") /\ Reach(r, "done")

\* Averages taken before a child changes are no longer fresh.
Ended(r) ==
    [other \in Requests |->
        IF other = r THEN NoTxn
        ELSE IF /\ At(other, "averaged") \/ At(other, "done")
                /\ txn[r].target # NoChild
                /\ Writes(txn[r])
             THEN [txn[other] EXCEPT !.fresh = FALSE]
             ELSE txn[other]]

\* The UPDATE of the recalculation names the figure, whatever it was.
Commit(r) ==
    LET t == txn[r] IN
    /\ At(r, "done")
    /\ figure' = IF t.recalculates THEN t.to ELSE Flushed(t.from, t.to, figure)
    /\ child' = IF t.target = NoChild THEN child ELSE [child EXCEPT ![t.target] = Becomes(t)]
    /\ txn' = Ended(r)
    /\ drift' = IF t.recalculates THEN ~t.fresh
                ELSE drift \/ t.target # NoChild \/ t.from # t.to
    /\ UNCHANGED parent

Rollback(r) ==
    /\ InFlight(r)
    /\ txn' = [txn EXCEPT ![r] = NoTxn]
    /\ UNCHANGED <<parent, figure, child, drift>>

\* A step of the handler itself, mails apart, once nobody has its row.
Proceed(r) ==
    /\ ~Waits(r)
    /\ \/ WriteParent(r) \/ WriteChild(r)
       \/ TakeAverage(r) \/ WriteFigure(r)
       \/ Commit(r)

Next ==
    \E r \in Requests :
        \/ UpdateStatus(r) \/ CompleteInspection(r)
        \/ \E percent \in Percents : UpdateProject(r, percent) \/ UpdateInspection(r, percent)
        \/ \E c \in Children :
              \/ \E percent \in Percents :
                    \/ CreateMilestone(r, c, percent)
                    \/ UpdateMilestone(r, c, percent)
                    \/ UpdateChecklistItem(r, c, percent)
              \/ DeleteMilestone(r, c)
        \/ Proceed(r)
        \/ SendMails(r)
        \/ Rollback(r)

\* A handler that has begun goes on: its coroutine is scheduled again, and the
\* database grants a row in the order it was asked for, so that a request is not
\* passed over for ever.  Nobody is bound to send a request, none to fail, and
\* nothing is said of the mail server: SMTP is called without a timeout.
Fairness == \A r \in Requests : SF_vars(Proceed(r))

Spec == Init /\ [][Next]_vars /\ Fairness

-----------------------------------------------------------------------------
(* Properties *)

\* The progress of a project, or the score of an inspection, is the average over
\* its children from a recalculation that saw all of them until a milestone is
\* added or deleted or somebody enters another figure
\* (_recalculate_project_progress, update_checklist_item).
FigureIsAverage == ~drift => figure = Average(child)

\* A row is locked by one request at a time, and in no set of requests does each
\* wait for another of the set: every handler writes the child before the parent
\* and nothing after it, so that the database never has to cancel one.
LocksInOrder ==
    /\ \A r, other \in Requests :
          (\/ HoldsParent(r) /\ HoldsParent(other)
           \/ \E c \in Children : HoldsChild(r, c) /\ HoldsChild(other, c))
              => r = other
    /\ \A waiting \in (SUBSET Requests) \ {{}} :
          \E r \in waiting : \A other \in waiting : ~WaitsFor(r, other)

\* Every request ends, of itself, as long as no mail keeps one for ever: no two
\* requests ever wait for each other's rows, since all of them write the child
\* before the parent.
RequestsEnd ==
    (\A r \in Requests : []<>~At(r, "mailing"))
        => \A r \in Requests : InFlight(r) ~> ~InFlight(r)

================================================================================
