------------------------------ MODULE Invoicing ------------------------------
(***************************************************************************)
(* Invoices and their payments (apps/finance/service.py, FinanceService)   *)
(* under concurrent requests.                                              *)
(*                                                                         *)
(* Money is counted in thirds of a paisa: prices, totals and balances that *)
(* the code has rounded to two decimals are multiples of Paisa, while the  *)
(* amount of a payment is whatever positive number the client sends.       *)
(***************************************************************************)
EXTENDS Integers, Session

CONSTANTS
    Invoices,       \* the invoices of one project
    Requests,       \* slots for requests in flight at the same time
    Totals,         \* grand totals an invoice may be created with
    Amounts,        \* amounts a payment request may carry
    MaxReceived,    \* bound: no payment that takes the ledger past it
    NoTxn           \* a slot without a request

Paisa == 3

Whole(x) == x % Paisa = 0

\* The totals are rounded by _calculate_invoice_totals; a discount larger than
\* the subtotal makes them negative.
ASSUME TotalsAssumption == Totals \subseteq {x \in Int : Whole(x)}

\* RecordPaymentRequest.amount is Field(gt=0).
ASSUME AmountsAssumption == Amounts \subseteq Nat \ {0}

ASSUME BoundAssumption == MaxReceived \in Nat

VARIABLES
    invoice,    \* the rows of table invoices
    received,   \* per invoice, the sum over its rows of table payments
    lapsed,     \* invoices whose due_date is before today
    txn,        \* per slot, the request in flight
    raced,      \* history: invoices some commit overwrote without having read
    rounded     \* history: invoices with a payment rounding changed

vars == <<invoice, received, lapsed, txn, raced, rounded>>

-----------------------------------------------------------------------------

Status == {"absent", "draft", "submitted", "approved", "rejected",
           "partially_paid", "paid", "overdue"}

\* approvedBy stands for "approved_by is not null".
InvoiceRow == [status : Status, approvedBy : BOOLEAN,
               total : Int, paid : Int, balance : Int]

\* A request between its SELECT and its COMMIT: the row as loaded, the row as
\* assigned, and the amount of the payments row it inserts (0 for none).
Txn == [inv : Invoices, loaded : InvoiceRow, assigned : InvoiceRow, amount : Nat]

ASSUME NoTxnAssumption == NoTxn \notin Txn

Payable == {"approved", "partially_paid", "overdue"}

TypeOK ==
    /\ invoice \in [Invoices -> InvoiceRow]
    /\ received \in [Invoices -> Nat]
    /\ lapsed \subseteq Invoices
    /\ txn \in [Requests -> Txn \union {NoTxn}]
    /\ raced \subseteq Invoices
    /\ rounded \subseteq Invoices

NoInvoice == [status |-> "absent", approvedBy |-> FALSE,
              total |-> 0, paid |-> 0, balance |-> 0]

Init ==
    /\ invoice = [i \in Invoices |-> NoInvoice]
    /\ received = [i \in Invoices |-> 0]
    /\ lapsed = {}
    /\ txn = [r \in Requests |-> NoTxn]
    /\ raced = {}
    /\ rounded = {}

-----------------------------------------------------------------------------
(* round(x, 2): to the nearest paisa.  Thirds of a paisa have no ties.     *)

Round2(x) == Paisa * ((x + 1) \div Paisa)

NewInvoice(t) == [status |-> "draft", approvedBy |-> FALSE,
                  total |-> t, paid |-> 0, balance |-> t]

CreateInvoice(i) ==
    /\ invoice[i].status = "absent"
    /\ \E t \in Totals : invoice' = [invoice EXCEPT ![i] = NewInvoice(t)]
    /\ UNCHANGED <<received, lapsed, txn, raced, rounded>>

(* The handler of r has loaded invoice i, assigned row to it and added a   *)
(* payments row of the given amount.                                       *)
Work(r, i, row, amount) ==
    /\ txn[r] = NoTxn
    /\ txn' = [txn EXCEPT ![r] = [inv |-> i, loaded |-> invoice[i],
                                  assigned |-> row, amount |-> amount]]
    /\ UNCHANGED <<invoice, received, lapsed, raced, rounded>>

SubmitInvoice(r, i) ==
    /\ invoice[i].status = "draft"
    /\ Work(r, i, [invoice[i] EXCEPT !.status = "submitted"], 0)

ApproveInvoice(r, i) ==
    /\ invoice[i].status = "submitted"
    /\ Work(r, i, [invoice[i] EXCEPT !.status = "approved",
                                     !.approvedBy = TRUE], 0)

\* Faulty variant: an approved invoice can still be rejected.
RejectInvoiceLate(r, i) ==
    /\ invoice[i].status \in {"submitted", "approved"}
    /\ Work(r, i, [invoice[i] EXCEPT !.status = "rejected"], 0)

RejectInvoice(r, i) ==
    /\ invoice[i].status = "submitted"
    /\ Work(r, i, [invoice[i] EXCEPT !.status = "rejected"], 0)

\* Faulty variant: balance_due is left to the next reader to work out.
PaidRowStaleBalance(row, amount) ==
    LET newPaid == Round2(row.paid + amount)
    IN  [row EXCEPT !.paid = newPaid,
                    !.status = IF row.total - newPaid <= 0
                               THEN "paid" ELSE "partially_paid"]

\* Faulty variant: the status compares with the balance before this payment,
\* off by one paisa.
PaidRowEarly(row, amount) ==
    LET newPaid == Round2(row.paid + amount)
    IN  [row EXCEPT !.paid = newPaid,
                    !.balance = row.total - newPaid,
                    !.status = IF row.total - newPaid <= Paisa
                               THEN "paid" ELSE "partially_paid"]

(* paid_amount and grand_total are whole paisa, so the second round() of   *)
(* record_payment, on their difference, changes nothing.                   *)
PaidRow(row, amount) ==
    LET newPaid == Round2(row.paid + amount)
    IN  [row EXCEPT !.paid = newPaid,
                    !.balance = row.total - newPaid,
                    !.status = IF row.total - newPaid <= 0
                               THEN "paid" ELSE "partially_paid"]

\* Faulty variant: an invoice that waits for approval takes payments.
RecordPaymentUnapproved(r, i, amount) ==
    /\ invoice[i].status \in Payable \union {"submitted"}
    /\ amount <= invoice[i].balance
    /\ Work(r, i, PaidRow(invoice[i], amount), amount)

\* Faulty variant: the amount is not compared with the balance due.
RecordPaymentUnchecked(r, i, amount) ==
    /\ invoice[i].status \in Payable
    /\ Work(r, i, PaidRow(invoice[i], amount), amount)

RecordPayment(r, i, amount) ==
    /\ invoice[i].status \in Payable
    /\ amount <= invoice[i].balance
    /\ Work(r, i, PaidRow(invoice[i], amount), amount)

-----------------------------------------------------------------------------

Flush(t, row) ==
    [status     |-> Flushed(t.loaded.status, t.assigned.status, row.status),
     approvedBy |-> Flushed(t.loaded.approvedBy, t.assigned.approvedBy, row.approvedBy),
     total      |-> Flushed(t.loaded.total, t.assigned.total, row.total),
     paid       |-> Flushed(t.loaded.paid, t.assigned.paid, row.paid),
     balance    |-> Flushed(t.loaded.balance, t.assigned.balance, row.balance)]

Commit(r) ==
    LET t == txn[r] IN
    /\ t # NoTxn
    /\ received[t.inv] + t.amount <= MaxReceived
    /\ invoice' = [invoice EXCEPT ![t.inv] = Flush(t, invoice[t.inv])]
    /\ received' = [received EXCEPT ![t.inv] = @ + t.amount]
    /\ txn' = [txn EXCEPT ![r] = NoTxn]
    /\ raced' = IF invoice[t.inv] = t.loaded THEN raced ELSE raced \union {t.inv}
    /\ rounded' = IF t.assigned.paid = t.loaded.paid + t.amount
                  THEN rounded ELSE rounded \union {t.inv}
    /\ UNCHANGED lapsed

(* The handler, or the connection, fails after the rows were read.         *)
Rollback(r) ==
    /\ txn[r] # NoTxn
    /\ txn' = [txn EXCEPT ![r] = NoTxn]
    /\ UNCHANGED <<invoice, received, lapsed, raced, rounded>>

(* check_overdue is one UPDATE ... WHERE, evaluated on the stored rows.    *)
Overdue(i) ==
    /\ invoice[i].status = "approved"
    /\ i \in lapsed
    /\ invoice[i].balance > 0

CheckOverdue ==
    /\ \E i \in Invoices : Overdue(i)
    /\ invoice' = [i \in Invoices |->
          IF Overdue(i) THEN [invoice[i] EXCEPT !.status = "overdue"]
                        ELSE invoice[i]]
    /\ UNCHANGED <<received, lapsed, txn, raced, rounded>>

(* Time passes.  due_date may be null, so an invoice need not ever lapse.  *)
DueDatePasses(i) ==
    /\ invoice[i].status # "absent"
    /\ i \notin lapsed
    /\ lapsed' = lapsed \union {i}
    /\ UNCHANGED <<invoice, received, txn, raced, rounded>>

Next ==
    \/ \E i \in Invoices : CreateInvoice(i) \/ DueDatePasses(i)
    \/ \E r \in Requests, i \in Invoices :
          \/ SubmitInvoice(r, i)
          \/ ApproveInvoice(r, i)
          \/ RejectInvoice(r, i)
          \/ \E a \in Amounts : RecordPayment(r, i, a)
    \/ \E r \in Requests : Commit(r) \/ Rollback(r)
    \/ CheckOverdue

Spec == Init /\ [][Next]_vars

-----------------------------------------------------------------------------
(* Properties *)

\* However the requests interleave, a row's own figures agree: paid_amount and
\* balance_due, which two requests may write at the same time, always add up
\* to grand_total, more than grand_total is never booked as paid, and nothing is
\* booked as paid that no payments row accounts for (record_payment).
BooksBalance ==
    \A i \in Invoices :
        /\ invoice[i].balance = invoice[i].total - invoice[i].paid
        /\ invoice[i].paid > 0 => invoice[i].paid <= invoice[i].total
        /\ i \notin rounded => invoice[i].paid <= received[i]

\* An invoice that says PAID has had its whole total paid in, even when a
\* concurrent record_payment has since overwritten paid_amount with less.
PaidMeansCollected ==
    \A i \in Invoices :
        invoice[i].status = "paid" /\ i \notin rounded
            => received[i] >= invoice[i].total

\* No money is ever received on an invoice nobody approved, and no invoice is
\* payable without an approver on record, even when late writes of other
\* requests have moved its status back (submit, approve, reject_invoice).
MoneyNeedsApproval ==
    \A i \in Invoices :
        received[i] > 0 \/ invoice[i].status \in Payable \union {"paid"}
            => invoice[i].approvedBy

\* As long as every commit on an invoice wrote over the row it had read, and
\* no payment was rounded, the payments table and the row tell the same story
\* and the status says exactly how far the invoice is paid.
Clean(i) == i \notin raced \union rounded

StatusTells(row, money) ==
    /\ money = row.paid
    /\ row.status \notin {"partially_paid", "paid"} => money = 0
    /\ row.status = "partially_paid" => 0 < money /\ money < row.total
    /\ row.status = "paid" => 0 < money /\ money = row.total

CleanInvoice ==
    \A i \in Invoices : Clean(i) => StatusTells(invoice[i], received[i])

\* The finance component keeps the promise of Receivable: a request that
\* overwrites what it has not read, or a fraction of a paisa, is the only way
\* to break it.
PhaseOf(status) ==
    CASE status = "absent" -> "none"
      [] status \in {"draft", "submitted"} -> "open"
      [] status = "rejected" -> "refused"
      [] status \in Payable -> "collecting"
      [] status = "paid" -> "settled"

Promise == INSTANCE Receivable WITH
    phase <- [i \in Invoices |-> PhaseOf(invoice[i].status)],
    due <- [i \in Invoices |-> invoice[i].total],
    collected <- received,
    void <- raced \union rounded

KeepsPromise == Promise!Spec

=============================================================================
