---------------------------- MODULE Certification ----------------------------
(***************************************************************************)
(* Payment certificates of one subcontractor contract                      *)
(* (apps/progress/service.py), the invoices and payments they create, and  *)
(* the payments finance records on those invoices                          *)
(* (apps/finance/service.py, record_payment), under concurrent requests.   *)
(*                                                                         *)
(* The contract is active (a cancelled one takes no new certificate) and   *)
(* has one BOQ item.  The quantity done on it is what WorkLog              *)
(* promises: claimed counts entries that are submitted, confirmed those    *)
(* that are approved.  Money is counted in units that need no rounding.    *)
(*                                                                         *)
(* Rows have the columns that decide what can happen.  Those that          *)
(* update_certificate edits, deductions and remarks, are not among them:   *)
(* after create_certificate nothing is computed from them any more.        *)
(***************************************************************************)
EXTENDS Integers, FiniteSetsExt, Session

CONSTANTS
    MaxCerts,       \* bound: certificates ever created
    MaxInvoices,    \* bound: invoices ever created
    Requests,       \* slots for requests in flight at the same time
    Assigned,       \* assigned_quantity of the item
    Rate,           \* unit_rate of the item
    RetentionPct,   \* retention_percentage of the contract
    Deductions,     \* deductions a certificate may carry
    Amounts,        \* amounts record_payment may be asked for
    MaxReceived,    \* bound: no payment that takes an invoice past it
    NoTxn           \* a slot without a request

ASSUME CountsAssumption == {MaxCerts, MaxInvoices, Assigned, Rate, MaxReceived} \subseteq Nat

ASSUME RetentionAssumption == RetentionPct \in 0..100 /\ (Rate * RetentionPct) % 100 = 0

\* create_certificate refuses negative deductions, RecordPaymentRequest an
\* amount that is not positive.
ASSUME MoneyAssumption == Deductions \subseteq Nat /\ Amounts \subseteq Nat \ {0}

VARIABLES
    claimed, confirmed,  \* quantity submitted and quantity approved
    cert,       \* the rows of subcontractor_certificates, in order of creation
    invoice,    \* the rows of table invoices that belong to the contract
    received,   \* per invoice, the sum over its rows of table payments
    txn,        \* per slot, the request in flight
    raced,      \* history: certificates some commit overwrote without having
                \* read, they or their invoice
    overlap     \* history: a certificate was approved although what was
                \* certified had changed since it was created, or after a
                \* certificate created later

vars == <<claimed, confirmed, cert, invoice, received, txn, raced, overlap>>

-----------------------------------------------------------------------------

Certs == 1..MaxCerts
Invoices == 1..MaxInvoices
NoId == 0

\* qty is the current_qty of the item, prevQty its previous_certified_qty,
\* total the total_certified_value, due the amount_due.
Certificate ==
    [status : {"absent", "draft", "submitted", "approved", "paid"}, deleted : BOOLEAN,
     prevQty : Nat, qty : Nat, total : Nat, net : Nat, due : Nat,
     invoice : Invoices \union {NoId}]

InvoiceRow ==
    [status : {"absent", "approved", "partially_paid", "paid"},
     cert : Certs \union {NoId}, total : Nat, paid : Nat, balance : Int]

NoCertificate ==
    [status |-> "absent", deleted |-> FALSE, prevQty |-> 0, qty |-> 0, total |-> 0,
     net |-> 0, due |-> 0, invoice |-> NoId]

NoInvoice ==
    [status |-> "absent", cert |-> NoId, total |-> 0, paid |-> 0, balance |-> 0]

\* A request writes at most one certificate and one invoice.
Txn == [cert : Certs, loaded : Certificate, assigned : Certificate,
        inv : Invoices \union {NoId}, invLoaded : InvoiceRow, invAssigned : InvoiceRow,
        amount : Nat]

TypeOK ==
    /\ claimed \in Nat /\ confirmed \in Nat
    /\ cert \in [Certs -> Certificate]
    /\ invoice \in [Invoices -> InvoiceRow]
    /\ received \in [Invoices -> Nat]
    /\ txn \in [Requests -> Txn \union {NoTxn}]
    /\ raced \subseteq Certs
    /\ overlap \in BOOLEAN

Init ==
    /\ claimed = 0 /\ confirmed = 0
    /\ cert = [c \in Certs |-> NoCertificate]
    /\ invoice = [i \in Invoices |-> NoInvoice]
    /\ received = [i \in Invoices |-> 0]
    /\ txn = [r \in Requests |-> NoTxn]
    /\ raced = {}
    /\ overlap = FALSE

-----------------------------------------------------------------------------
(* The progress component, as WorkLog specifies it.                        *)

Log == INSTANCE WorkLog WITH void <- FALSE

Progress ==
    /\ Log!Claim \/ Log!Confirm \/ Log!Withdraw
    /\ UNCHANGED <<cert, invoice, received, txn, raced, overlap>>

-----------------------------------------------------------------------------

InFlight == {txn[r] : r \in {q \in Requests : txn[q] # NoTxn}}

\* created_at of a new certificate is later than that of all others.
NextCert ==
    1 + Max({NoId} \union {c \in Certs : cert[c].status # "absent"}
                   \union {t.cert : t \in InFlight})

NextInvoice ==
    1 + Max({NoId} \union {i \in Invoices : invoice[i].status # "absent"}
                   \union {t.inv : t \in InFlight})

Exists(c) == cert[c].status # "absent" /\ ~cert[c].deleted

CertifiedCerts == {c \in Certs : Exists(c) /\ cert[c].status \in {"approved", "paid"}}

PrevCertified == SumFunctionOnSet([c \in Certs |-> cert[c].qty], CertifiedCerts)

\* Faulty variant: the order of creation the wrong way round.
PrevCertOldest == IF CertifiedCerts = {} THEN NoCertificate ELSE cert[Min(CertifiedCerts)]

PrevCert == IF CertifiedCerts = {} THEN NoCertificate ELSE cert[Max(CertifiedCerts)]

Retained(value) == (value * RetentionPct) \div 100

Read(c) ==
    [cert |-> c, loaded |-> cert[c], assigned |-> cert[c],
     inv |-> NoId, invLoaded |-> NoInvoice, invAssigned |-> NoInvoice, amount |-> 0]

Work(r, t) ==
    /\ txn[r] = NoTxn
    /\ txn' = [txn EXCEPT ![r] = t]
    /\ UNCHANGED <<claimed, confirmed, cert, invoice, received, raced, overlap>>

CreateCertificate(r, ded) ==
    LET qty == claimed + confirmed - PrevCertified
        value == qty * Rate
        net == value - ded - Retained(value)
    IN
    /\ NextCert \in Certs
    /\ qty > 0
    /\ net >= 0
    /\ Work(r, [Read(NextCert) EXCEPT !.assigned =
          [status |-> "draft", deleted |-> FALSE, prevQty |-> PrevCertified, qty |-> qty,
           total |-> PrevCert.total + value, net |-> net, due |-> PrevCert.due + net,
           invoice |-> NoId]])

\* Faulty variant: everything short of payment can be deleted.
DeleteCertificateUnpaid(r, c) ==
    /\ Exists(c) /\ cert[c].status # "paid"
    /\ Work(r, [Read(c) EXCEPT !.assigned.deleted = TRUE])

DeleteCertificate(r, c) ==
    /\ Exists(c) /\ cert[c].status = "draft"
    /\ Work(r, [Read(c) EXCEPT !.assigned.deleted = TRUE])

SubmitCertificate(r, c) ==
    /\ Exists(c) /\ cert[c].status = "draft"
    /\ Work(r, [Read(c) EXCEPT !.assigned.status = "submitted"])

InvoiceFor(c) ==
    [status |-> "approved", cert |-> c,
     total |-> cert[c].net, paid |-> 0, balance |-> cert[c].due]

\* Faulty variant: a certificate that was approved before gets a second invoice.
ApproveCertificateAgain(r, c) ==
    /\ Exists(c) /\ cert[c].status \in {"submitted", "approved"}
    /\ NextInvoice \in Invoices
    /\ Work(r, [Read(c) EXCEPT !.assigned.status = "approved",
                               !.assigned.invoice = NextInvoice,
                               !.inv = NextInvoice, !.invAssigned = InvoiceFor(c)])

ApproveCertificate(r, c) ==
    /\ Exists(c) /\ cert[c].status = "submitted"
    /\ NextInvoice \in Invoices
    /\ Work(r, [Read(c) EXCEPT !.assigned.status = "approved",
                               !.assigned.invoice = NextInvoice,
                               !.inv = NextInvoice, !.invAssigned = InvoiceFor(c)])

\* Faulty variant: the invoice keeps what finance has booked on it.
MarkPaidLoose(r, c) ==
    LET i == cert[c].invoice IN
    /\ Exists(c) /\ cert[c].status = "approved"
    /\ Work(r, [Read(c) EXCEPT !.assigned.status = "paid", !.inv = i,
          !.invLoaded = invoice[i], !.invAssigned = invoice[i], !.amount = cert[c].due])

MarkPaid(r, c) ==
    LET i == cert[c].invoice IN
    /\ Exists(c) /\ cert[c].status = "approved"
    /\ Work(r, [Read(c) EXCEPT !.assigned.status = "paid", !.inv = i,
          !.invLoaded = invoice[i],
          !.invAssigned = [invoice[i] EXCEPT !.status = "paid",
                                             !.paid = cert[c].due, !.balance = 0],
          !.amount = cert[c].due])

\* Faulty variant: the revision takes the parent's quantity along.
ReviseCertificateCopy(r, c) ==
    /\ c \in CertifiedCerts
    /\ NextCert \in Certs
    /\ Work(r, [Read(NextCert) EXCEPT !.assigned =
          [cert[c] EXCEPT !.status = "draft", !.prevQty = @ + cert[c].qty,
                          !.net = 0, !.due = 0, !.invoice = NoId]])

(* The revision starts from what its parent has certified, with nothing to *)
(* certify, to pay or to deduct of its own.                                *)
ReviseCertificate(r, c) ==
    /\ c \in CertifiedCerts
    /\ NextCert \in Certs
    /\ Work(r, [Read(NextCert) EXCEPT !.assigned =
          [cert[c] EXCEPT !.status = "draft", !.prevQty = @ + cert[c].qty, !.qty = 0,
                          !.net = 0, !.due = 0, !.invoice = NoId]])

(* finance/service.py; the certificate is only named here, not written.    *)
RecordPayment(r, i, amount) ==
    LET row == invoice[i]
        balance == row.total - (row.paid + amount)
    IN
    /\ row.status \in {"approved", "partially_paid"}
    /\ amount <= row.balance
    /\ Work(r, [Read(row.cert) EXCEPT !.inv = i, !.invLoaded = row, !.amount = amount,
          !.invAssigned = [row EXCEPT !.paid = @ + amount, !.balance = balance,
                !.status = IF balance <= 0 THEN "paid" ELSE "partially_paid"]])

-----------------------------------------------------------------------------

FlushRow(loaded, assigned, stored) ==
    [column \in DOMAIN stored |->
        Flushed(loaded[column], assigned[column], stored[column])]

Stale(t) ==
    \/ t.assigned # t.loaded /\ cert[t.cert] # t.loaded
    \/ t.inv # NoId /\ invoice[t.inv] # t.invLoaded

\* t approves a certificate that others, or a newer one, have overtaken.
Overtaken(t) ==
    /\ t.loaded.status # "approved" /\ t.assigned.status = "approved"
    /\ \/ t.loaded.prevQty # PrevCertified
       \/ \E c \in CertifiedCerts : c > t.cert

Commit(r) ==
    LET t == txn[r] IN
    /\ t # NoTxn
    /\ cert' = [cert EXCEPT ![t.cert] = FlushRow(t.loaded, t.assigned, @)]
    /\ IF t.inv = NoId
       THEN UNCHANGED <<invoice, received>>
       ELSE /\ received[t.inv] + t.amount <= MaxReceived
            /\ invoice' = [invoice EXCEPT ![t.inv] = FlushRow(t.invLoaded, t.invAssigned, @)]
            /\ received' = [received EXCEPT ![t.inv] = @ + t.amount]
    /\ txn' = [txn EXCEPT ![r] = NoTxn]
    /\ raced' = IF Stale(t) THEN raced \union {t.cert} ELSE raced
    /\ overlap' = (overlap \/ Overtaken(t))
    /\ UNCHANGED <<claimed, confirmed>>

Rollback(r) ==
    /\ txn[r] # NoTxn
    /\ txn' = [txn EXCEPT ![r] = NoTxn]
    /\ UNCHANGED <<claimed, confirmed, cert, invoice, received, raced, overlap>>

Next ==
    \/ Progress
    \/ \E r \in Requests :
          \/ \E ded \in Deductions : CreateCertificate(r, ded)
          \/ \E c \in Certs :
                \/ DeleteCertificate(r, c)
                \/ SubmitCertificate(r, c)
                \/ ApproveCertificate(r, c)
                \/ MarkPaid(r, c)
                \/ ReviseCertificate(r, c)
          \/ \E i \in Invoices, a \in Amounts : RecordPayment(r, i, a)
          \/ Commit(r)
          \/ Rollback(r)

Spec == Init /\ [][Next]_vars

-----------------------------------------------------------------------------
(* Properties *)

\* Nothing is certified twice: the quantities of all approved and paid
\* certificates stay within what is assigned, unless certificates overtook each
\* other between create_certificate and approve_certificate, or writes raced.
CertifiedOnce == ~overlap /\ raced = {} => PrevCertified <= Assigned

\* The certified value a certificate shows to date, carried from certificate to
\* certificate, agrees with the quantities certified, summed over all of them.
TotalsTrack == ~overlap /\ raced = {} => PrevCert.total = PrevCertified * Rate

\* A certificate has an invoice exactly when it is approved or paid, and only
\* one, of the amount it asks for (approve_certificate).
InvoiceBacks ==
    \A c \in Certs \ raced :
        LET own == {i \in Invoices : invoice[i].cert = c}
        IN  IF cert[c].status \in {"approved", "paid"}
            THEN own = {cert[c].invoice} /\ invoice[cert[c].invoice].total = cert[c].net
            ELSE own = {}

\* What mark_paid settles is settled: the invoice of a paid certificate is paid,
\* nothing is due on it, and at least the amount due has come in, whatever
\* finance had recorded on it before.
PaidIsSettled ==
    \A c \in Certs \ raced :
        cert[c].status = "paid" =>
            LET i == cert[c].invoice
            IN  invoice[i].status = "paid" /\ invoice[i].balance = 0 /\ received[i] >= cert[c].due

\* An approved certificate is not touched any more, except to be marked paid.
CertifiedStands ==
    [][\A c \in Certs :
          c \in CertifiedCerts /\ c \notin raced' =>
              \/ cert'[c] = cert[c]
              \/ cert[c].status = "approved" /\ cert'[c] = [cert[c] EXCEPT !.status = "paid"]]_vars

\* The grand totals of all invoices of the contract.
Invoiced == SumFunctionOnSet([i \in Invoices |-> invoice[i].total], Invoices)

Bill == INSTANCE Billing WITH
    certified <- PrevCertified,
    invoiced <- Invoiced,
    void <- overlap \/ raced # {}

\* What the invoices of a contract ask for is covered by the work its certificates
\* certify, and that by what is assigned: deductions and retention make an invoice
\* smaller, and none comes without a quantity certified with it, unless
\* certificates overtook each other or writes raced (approve_certificate).
KeepsBilling == Bill!Spec

=============================================================================
