------------------------------ MODULE Compliance -------------------------------
(***************************************************************************)
(* A compliance document of a subcontractor, a license or an insurance     *)
(* with a date of expiry (apps/compliance/service.py, ComplianceService).  *)
(* Its status follows the date only when somebody asks: no job runs in the *)
(* background, so days pass between one request and the next.              *)
(*                                                                         *)
(* Reminders are mailed while the request is under way, and the day of the *)
(* last one is saved with its commit.                                      *)
(***************************************************************************)
EXTENDS Naturals

CONSTANTS
    LastDay,        \* bound: days are counted up to this one
    Window,         \* reminder_days_before, alike for all documents
    Requests,       \* slots for requests in flight at the same time
    NoTxn,          \* a slot without a request
    NoDoc,          \* the document before it is created
    NoDate,         \* no date
    Kept            \* the value of a column a request does not change

ASSUME DaysAssumption ==
    LastDay \in Nat /\ Window \in Nat /\ {NoDate, Kept} \intersect Nat = {} /\ NoDate # Kept

VARIABLES
    today,      \* date.today()
    doc,        \* the row of the document
    txn,        \* per slot, the request in flight
    checked,    \* history: the status was last worked out from the date today, and
                \* nothing was changed in between
    how,        \* history: what the last commit was
    mailed,     \* history: reminders mailed today, up to two
    overlapped  \* history: today a request reminded that did not
                \* know of another, or the date of one got lost

vars == <<today, doc, txn, checked, how, mailed, overlapped>>

-----------------------------------------------------------------------------

Day == 0..LastDay

Date == Day \union {NoDate}

\* pending_renewal is like active: it is only ever set by hand.
Status == {"active", "expiring_soon", "expired", "revoked"}

\* reminded is last_reminded_at.
Row == [status : Status, expiry : Date, reminded : Date, deleted : BOOLEAN]

\* The columns a request changes; the day on which it worked out the status;
\* whether it was given a status; whether it reminds; and what others have changed
\* since it read the row.
Txn == [status : Status \union {Kept}, expiry : Date \union {Kept},
        reminded : Day \union {Kept}, deletes : BOOLEAN, day : Date,
        names : BOOLEAN, reminds : BOOLEAN, stale : SUBSET {"status", "reminded"}]

ASSUME KeptAssumption == Kept \notin Status

ASSUME NoneAssumption == NoDoc \notin Row /\ NoTxn \notin Txn

TypeOK ==
    /\ today \in Day
    /\ doc \in Row \union {NoDoc}
    /\ txn \in [Requests -> Txn \union {NoTxn}]
    /\ checked \in BOOLEAN
    /\ how \in {"plain", "named", "crossed"}
    /\ mailed \in 0..2
    /\ overlapped \in BOOLEAN

Init ==
    /\ today = 0
    /\ doc = NoDoc
    /\ txn = [r \in Requests |-> NoTxn]
    /\ checked = FALSE
    /\ how = "plain"
    /\ mailed = 0
    /\ overlapped = FALSE

-----------------------------------------------------------------------------

Before(date, day) == date # NoDate /\ date < day

Within(date, days) == date # NoDate /\ today <= date /\ date <= today + days

\* Faulty variant: a document that was revoked is soon to expire, like others.
UpdateExpiryStatusOf(status, expiry) ==
    IF Before(expiry, today) THEN "expired"
    ELSE IF Within(expiry, Window) /\ status # "expired" THEN "expiring_soon"
    ELSE status

\* The status with regard to the date: it is never better than it was.
UpdateExpiryStatus(status, expiry) ==
    IF Before(expiry, today) THEN "expired"
    ELSE IF Within(expiry, Window) /\ status \notin {"expired", "revoked"} THEN "expiring_soon"
    ELSE status

Begin(r, t) ==
    /\ txn[r] = NoTxn
    /\ txn' = [txn EXCEPT ![r] = t]
    /\ UNCHANGED <<today, doc, checked, how, mailed, overlapped>>

Found == doc # NoDoc /\ ~doc.deleted

\* A flush leaves out the columns that are what they were.
Changed(now, to) == IF now = to THEN Kept ELSE to

Plain ==
    [status |-> Kept, expiry |-> Kept, reminded |-> Kept, deletes |-> FALSE, day |-> NoDate,
     names |-> FALSE, reminds |-> FALSE, stale |-> {}]

\* The date may be past: it is compared with the date of issue alone.  The new
\* row is not seen before it is committed.
CreateDoc(r, expiry) ==
    /\ doc = NoDoc
    /\ \A other \in Requests : txn[other] = NoTxn
    /\ Begin(r, [Plain EXCEPT !.status = UpdateExpiryStatus("active", expiry),
                              !.expiry = expiry, !.day = today])

\* Faulty variant: the status is worked out before the new values are there.
UpdateDocFirst(r, status, expiry) ==
    /\ Found
    /\ Begin(r, [Plain EXCEPT
          !.status = Changed(doc.status, IF status # doc.status THEN status
                                         ELSE UpdateExpiryStatus(status, doc.expiry)),
          !.expiry = Changed(doc.expiry, expiry),
          !.day = today,
          !.names = status # doc.status])

\* A PATCH sets the status and the date it is given, and keeps the others; a
\* date cannot be taken away.
UpdateDoc(r, status, expiry) ==
    /\ Found
    /\ expiry = NoDate => doc.expiry = NoDate
    /\ Begin(r, [Plain EXCEPT
          !.status = Changed(doc.status, UpdateExpiryStatus(status, expiry)),
          !.expiry = Changed(doc.expiry, expiry),
          !.day = today,
          !.names = status # doc.status])

DeleteDoc(r) == Found /\ Begin(r, [Plain EXCEPT !.deletes = TRUE])

\* Only who verified it, and when, is set.
VerifyDoc(r) == Found /\ Begin(r, Plain)

RefreshExpiryStatuses(r) ==
    /\ Found
    /\ doc.expiry # NoDate
    /\ Begin(r, [Plain EXCEPT
          !.status = Changed(doc.status, UpdateExpiryStatus(doc.status, doc.expiry)),
          !.day = today])

\* Faulty variant: whether there was a reminder today is not asked.
NotifyExpiringDocsAgain(r, days) ==
    /\ Found
    /\ Within(doc.expiry, days)
    /\ Begin(r, [Plain EXCEPT !.reminds = TRUE])

\* Documents reminded of today are passed over.
NotifyExpiringDocs(r, days) ==
    /\ Found
    /\ Within(doc.expiry, days)
    /\ doc.reminded # today
    /\ Begin(r, [Plain EXCEPT !.reminds = TRUE])

-----------------------------------------------------------------------------

InFlight(r) == txn[r] # NoTxn

Reminded(r) == InFlight(r) /\ txn[r].reminded # Kept

\* The mail goes out, and then the date is set, also when the mail has failed, which
\* send_email tells to a caller that does not look, or nobody is there to mail.
\* Only another error leaves the date alone: the request commits without it.
Remind(r, sent) ==
    /\ InFlight(r) /\ txn[r].reminds /\ ~Reminded(r)
    /\ txn' = [txn EXCEPT ![r].reminded = today]
    /\ mailed' = IF sent /\ mailed < 2 THEN mailed + 1 ELSE mailed
    /\ overlapped' = \/ overlapped
                     \/ "reminded" \in txn[r].stale
                     \/ \E other \in Requests : Reminded(other)
    /\ UNCHANGED <<today, doc, checked, how>>

\* The row after a flush of t.
Merged(t) ==
    LET now == IF doc = NoDoc
               THEN [status |-> t.status, expiry |-> t.expiry, reminded |-> NoDate,
                     deleted |-> FALSE]
               ELSE doc
        column(c) == IF t[c] = Kept THEN now[c] ELSE t[c]
    IN  [status |-> column("status"), expiry |-> column("expiry"),
         reminded |-> column("reminded"), deleted |-> now.deleted \/ t.deletes]

\* What others had read and is not so any more.
Outdated(t) ==
    (IF t.status # Kept \/ t.expiry # Kept THEN {"status"} ELSE {})
    \union (IF t.reminded # Kept THEN {"reminded"} ELSE {})

Commit(r) ==
    LET t == txn[r]
        crosses == "status" \in t.stale
    IN
    /\ InFlight(r)
    /\ doc' = Merged(t)
    /\ txn' = [other \in Requests |->
          IF other = r \/ ~InFlight(other) THEN NoTxn
          ELSE [txn[other] EXCEPT !.stale = @ \union Outdated(t)]]
    /\ checked' = IF t.day = NoDate THEN checked ELSE t.day = today /\ ~crosses
    /\ how' = IF crosses THEN "crossed" ELSE IF t.names THEN "named" ELSE "plain"
    /\ overlapped' = (overlapped \/ (Reminded(r) /\ "reminded" \in t.stale))
    /\ UNCHANGED <<today, mailed>>

\* A mail that went out is not taken back.
Rollback(r) ==
    /\ InFlight(r)
    /\ txn' = [txn EXCEPT ![r] = NoTxn]
    /\ overlapped' = (overlapped \/ Reminded(r))
    /\ UNCHANGED <<today, doc, checked, how, mailed>>

\* Midnight, also while requests are under way.
DayPasses ==
    /\ today < LastDay
    /\ today' = today + 1
    /\ checked' = FALSE
    /\ mailed' = 0
    /\ overlapped' = FALSE
    /\ UNCHANGED <<doc, txn, how>>

Next ==
    \/ \E r \in Requests :
          \/ \E expiry \in Date :
                \/ CreateDoc(r, expiry)
                \/ \E status \in Status : UpdateDoc(r, status, expiry)
          \/ DeleteDoc(r) \/ VerifyDoc(r)
          \/ RefreshExpiryStatuses(r)
          \/ \E days \in {Window, LastDay} : NotifyExpiringDocs(r, days)
          \/ \E sent \in BOOLEAN : Remind(r, sent)
          \/ Commit(r)
          \/ Rollback(r)
    \/ DayPasses

Spec == Init /\ [][Next]_vars

-----------------------------------------------------------------------------
(* Properties *)

\* On the day the status was worked out it does not look better than the date:
\* past the date the document is expired, and within the window not active, be
\* the date and the status entered by hand or not (update_doc,
\* refresh_expiry_statuses).
StatusTellsDate ==
    Found /\ checked =>
        /\ Before(doc.expiry, today) => doc.status = "expired"
        /\ Within(doc.expiry, Window) => doc.status # "active"

Standing(status) ==
    CASE status = "active" -> 0
      [] status = "expiring_soon" -> 1
      [] status = "revoked" -> 2
      [] status = "expired" -> 3

\* A document gets no better by itself, be it by a check or a later date: only a
\* request that names another status lifts a revocation or an expiry, or one that
\* had read the document before another request changed it.
NoBetterByItself ==
    [][doc # NoDoc =>
          \/ Standing(doc'.status) >= Standing(doc.status)
          \/ how' # "plain"]_vars

\* A document is reminded of once a day, unless two requests remind at the same
\* time or one fails after it has mailed (notify_expiring_docs).
OneReminderADay == mailed <= 1 \/ overlapped

================================================================================
