-------------------------- MODULE CertificationProofs --------------------------
(***************************************************************************)
(* Proofs about Certification, for any number of certificates, invoices    *)
(* and requests in flight, any assigned quantity, rate and retention.      *)
(***************************************************************************)
EXTENDS Certification, AggregateTheorems

(* What a request in flight is about to write, by handler: a new           *)
(* certificate, ...                                                        *)
Drafts(t) ==
    /\ t.loaded = NoCertificate
    /\ t.assigned.status = "draft" /\ t.assigned.invoice = NoId
    /\ t.inv = NoId

\* the mark of a deleted one, ...
Deletes(t) ==
    /\ t.loaded.status = "draft" /\ ~t.loaded.deleted
    /\ t.assigned = [t.loaded EXCEPT !.deleted = TRUE]
    /\ t.inv = NoId

\* one submitted, ...
Submits(t) ==
    /\ t.loaded.status = "draft"
    /\ t.assigned = [t.loaded EXCEPT !.status = "submitted"]
    /\ t.inv = NoId

\* one approved with a new invoice, ...
Approves(t) ==
    /\ t.loaded.status = "submitted"
    /\ t.assigned = [t.loaded EXCEPT !.status = "approved", !.invoice = t.inv]
    /\ t.inv # NoId /\ t.loaded.invoice # t.inv
    /\ t.invLoaded = NoInvoice
    /\ t.invAssigned = [status |-> "approved", cert |-> t.cert, total |-> t.loaded.net,
                        paid |-> 0, balance |-> t.loaded.due]

\* one settled with its invoice, ...
Settles(t) ==
    /\ t.loaded.status = "approved"
    /\ t.assigned = [t.loaded EXCEPT !.status = "paid"]
    /\ t.inv # NoId /\ t.inv = t.loaded.invoice
    /\ t.invAssigned = [t.invLoaded EXCEPT !.status = "paid", !.paid = t.loaded.due,
                                           !.balance = 0]
    /\ t.amount = t.loaded.due

\* or a payment on an invoice that is not paid.
Records(t) ==
    /\ t.assigned = t.loaded
    /\ t.inv # NoId
    /\ t.invLoaded.status \in {"approved", "partially_paid"}
    /\ t.invAssigned.status \in {"partially_paid", "paid"}
    /\ t.invAssigned.cert = t.invLoaded.cert
    /\ t.invAssigned.total = t.invLoaded.total

\* Both work on an invoice that is there, and on the certificate it names.
OnInvoice(t) == (Settles(t) \/ Records(t)) /\ t.invLoaded.cert = t.cert

Handles(t) == Drafts(t) \/ Deletes(t) \/ Submits(t) \/ Approves(t) \/ OnInvoice(t)

\* The quantity of a certificate comes on top of what was certified before it,
\* and its total is the value of both, while nothing has raced or overlapped.
Adds(row) ==
    /\ raced = {} => row.prevQty + row.qty <= Assigned
    /\ raced = {} /\ ~overlap => row.total = (row.prevQty + row.qty) * Rate

\* What is known of a request in flight: nobody else has the id of its new
\* invoice, and the invoice it works on, the certificate it deletes are there.
TxnInv(r) ==
    txn[r] # NoTxn =>
        /\ Handles(txn[r])
        /\ Drafts(txn[r]) => Adds(txn[r].assigned)
        /\ Deletes(txn[r]) => cert[txn[r].cert].status # "absent"
        /\ Approves(txn[r]) =>
              /\ invoice[txn[r].inv] = NoInvoice
              /\ \A q \in Requests \ {r} : txn[q] # NoTxn => txn[q].inv # txn[r].inv
        /\ OnInvoice(txn[r]) =>
              /\ invoice[txn[r].inv].status # "absent"
              /\ invoice[txn[r].inv].cert = txn[r].cert
        /\ Settles(txn[r]) => cert[txn[r].cert].invoice # NoId

\* The invoice a certificate names is there and names the certificate.
Backed(c) ==
    /\ cert[c].status = "absent" => cert[c] = NoCertificate
    /\ cert[c].status \in {"approved", "paid"} => cert[c].invoice # NoId
    /\ cert[c].invoice # NoId =>
          /\ invoice[cert[c].invoice].status # "absent"
          /\ invoice[cert[c].invoice].cert = c

Named(i) ==
    IF invoice[i].status = "absent" THEN invoice[i] = NoInvoice ELSE invoice[i].cert \in Certs

RowInv ==
    /\ \A c \in Certs : Backed(c) /\ Adds(cert[c])
    /\ \A i \in Invoices : Named(i)

IInv ==
    /\ TypeOK
    /\ claimed + confirmed <= Assigned
    /\ RowInv
    /\ \A r \in Requests : TxnInv(r)
    /\ CertifiedOnce
    /\ TotalsTrack
    /\ InvoiceBacks
    /\ PaidIsSettled

-----------------------------------------------------------------------------
(* Lemmas about the operators. *)

LEMMA Constants ==
    /\ MaxCerts \in Nat /\ MaxInvoices \in Nat /\ Assigned \in Nat /\ Rate \in Nat
    /\ RetentionPct \in Nat /\ Deductions \subseteq Nat /\ Amounts \subseteq Nat
    /\ NoId = 0
    /\ \A c \in Certs : c \in Nat /\ c # NoId
    /\ \A i \in Invoices : i \in Nat /\ i # NoId
    /\ IsFiniteSet(Certs) /\ IsFiniteSet(Invoices)
<1>1. /\ MaxCerts \in Nat /\ MaxInvoices \in Nat /\ Assigned \in Nat /\ Rate \in Nat
      /\ RetentionPct \in Nat /\ Deductions \subseteq Nat /\ Amounts \subseteq Nat
    BY CountsAssumption, RetentionAssumption, MoneyAssumption
<1>2. IsFiniteSet(1..MaxCerts) /\ IsFiniteSet(1..MaxInvoices)
    BY <1>1, FS_Interval
<1>. QED
    BY <1>1, <1>2 DEF Certs, Invoices, NoId

\* What is certified is a sum of quantities of certificates.
LEMMA PrevCertifiedType ==
    ASSUME TypeOK
    PROVE  PrevCertified \in Nat /\ IsFiniteSet(CertifiedCerts)
<1>1. CertifiedCerts \subseteq Certs /\ IsFiniteSet(CertifiedCerts)
    BY Constants, FS_Subset DEF CertifiedCerts
<1>2. \A c \in CertifiedCerts : [d \in Certs |-> cert[d].qty][c] \in Nat
    BY <1>1 DEF TypeOK, Certificate
<1>. QED
    BY <1>1, <1>2, SumNat DEF PrevCertified

\* The latest certificate that is certified, if there is one.
LEMMA LatestCertified ==
    ASSUME TypeOK
    PROVE  /\ CertifiedCerts = {} => PrevCert = NoCertificate
           /\ CertifiedCerts # {} =>
                 /\ Max(CertifiedCerts) \in CertifiedCerts
                 /\ \A c \in CertifiedCerts : Max(CertifiedCerts) >= c
                 /\ PrevCert = cert[Max(CertifiedCerts)]
           /\ PrevCert \in Certificate
<1>1. CertifiedCerts \subseteq Certs /\ IsFiniteSet(CertifiedCerts)
    BY PrevCertifiedType DEF CertifiedCerts
<1>2. CertifiedCerts # {} =>
         /\ Max(CertifiedCerts) \in CertifiedCerts
         /\ \A c \in CertifiedCerts : Max(CertifiedCerts) >= c
  <2>1. CertifiedCerts \subseteq Int
    BY <1>1, Constants
  <2>. QED
    BY <1>1, <2>1, MaxIsLargest
<1>3. NoCertificate \in Certificate
    BY DEF NoCertificate, Certificate
<1>. QED
    BY <1>1, <1>2, <1>3 DEF PrevCert, TypeOK

\* A new id is nobody's.
LEMMA NextIds ==
    ASSUME TypeOK
    PROVE  /\ NextCert \in Certs => cert[NextCert].status = "absent"
           /\ NextInvoice \in Invoices =>
                 /\ invoice[NextInvoice].status = "absent"
                 /\ \A r \in Requests : txn[r] # NoTxn => txn[r].inv # NextInvoice
<1>. DEFINE C == {NoId} \union {c \in Certs : cert[c].status # "absent"}
                        \union {t.cert : t \in InFlight}
            I == {NoId} \union {i \in Invoices : invoice[i].status # "absent"}
                        \union {t.inv : t \in InFlight}
<1>1. \A t \in InFlight : t.cert \in Certs /\ t.inv \in Invoices \union {NoId}
    BY DEF InFlight, TypeOK, Txn
<1>2. C \subseteq Certs \union {NoId} /\ I \subseteq Invoices \union {NoId}
    BY <1>1
<1>3. \A r \in Requests : txn[r] # NoTxn => txn[r].inv \in I
    BY DEF InFlight
<1>4. /\ \A c \in Certs : cert[c].status # "absent" => c \in C
      /\ \A i \in Invoices : invoice[i].status # "absent" => i \in I
      /\ NoId \in C /\ NoId \in I
    OBVIOUS
<1>5. NextCert = 1 + Max(C) /\ NextInvoice = 1 + Max(I)
    BY DEF NextCert, NextInvoice
<1>. HIDE DEF C, I
<1>6. IsFiniteSet(C) /\ IsFiniteSet(I)
    BY <1>2, Constants, FS_AddElement, FS_Subset
<1>7. C \subseteq Int /\ I \subseteq Int
    BY <1>2, Constants
<1>8. /\ Max(C) \in Int /\ \A x \in C : Max(C) >= x
      /\ Max(I) \in Int /\ \A x \in I : Max(I) >= x
    BY <1>4, <1>6, <1>7, MaxIsLargest
<1>9. NextCert \notin C /\ NextInvoice \notin I
    BY <1>5, <1>7, <1>8
<1>. QED
    BY <1>3, <1>4, <1>9

LEMMA InitIInv == Init => IInv
<1>. SUFFICES ASSUME Init PROVE IInv
    OBVIOUS
<1>1. TypeOK
  <2>1. NoCertificate \in Certificate /\ NoInvoice \in InvoiceRow
    BY Constants DEF NoCertificate, Certificate, NoInvoice, InvoiceRow
  <2>2. cert \in [Certs -> Certificate] /\ invoice \in [Invoices -> InvoiceRow]
    BY <2>1 DEF Init
  <2>. QED
    BY <2>2 DEF Init, TypeOK
<1>2. \A c \in Certs : cert[c].status = "absent"
    BY DEF Init, NoCertificate
<1>3. CertifiedCerts = {}
    BY <1>2 DEF CertifiedCerts
<1>4. PrevCertified = 0 /\ PrevCert = NoCertificate
    BY <1>3, SumEmpty DEF PrevCertified, PrevCert
<1>5. CertifiedOnce /\ TotalsTrack
    BY <1>4, Constants DEF CertifiedOnce, TotalsTrack, NoCertificate
<1>6. InvoiceBacks /\ PaidIsSettled
  <2>1. \A c \in Certs : {i \in Invoices : invoice[i].cert = c} = {}
    BY Constants DEF Init, NoInvoice
  <2>. QED
    BY <1>2, <2>1 DEF InvoiceBacks, PaidIsSettled
<1>7. RowInv
    BY <1>2, Constants DEF Init, RowInv, Backed, Adds, Named, NoCertificate, NoInvoice
<1>8. \A r \in Requests : TxnInv(r)
    BY DEF Init, TxnInv
<1>9. claimed + confirmed <= Assigned
    BY Constants DEF Init
<1>. QED
    BY <1>1, <1>5, <1>6, <1>7, <1>8, <1>9 DEF IInv

-----------------------------------------------------------------------------
(* The handlers. *)

\* A request that has only read disturbs nothing, if it is known what it will
\* write, and its invoice is not the new one of another.
LEMMA WorkIInv ==
    ASSUME IInv, NEW r \in Requests, NEW t \in Txn, Work(r, t), TxnInv(r)',
           \A q \in Requests \ {r} : txn[q] # NoTxn /\ Approves(txn[q]) => t.inv # txn[q].inv
    PROVE  IInv'
<1>1. /\ txn' = [txn EXCEPT ![r] = t]
      /\ UNCHANGED <<claimed, confirmed, cert, invoice, received, raced, overlap>>
    BY DEF Work
<1>2. TypeOK'
    BY <1>1 DEF IInv, TypeOK
<1>3. txn'[r] = t /\ \A q \in Requests \ {r} : txn'[q] = txn[q]
    BY <1>1 DEF IInv, TypeOK
<1>4. CertifiedCerts' = CertifiedCerts
    BY <1>1 DEF CertifiedCerts, Exists
<1>5. PrevCertified' = PrevCertified /\ PrevCert' = PrevCert
    BY <1>1, <1>4 DEF PrevCertified, PrevCert
<1>6. CertifiedOnce' /\ TotalsTrack'
    BY <1>1, <1>5 DEF IInv, CertifiedOnce, TotalsTrack
<1>7. InvoiceBacks' /\ PaidIsSettled' /\ (claimed + confirmed <= Assigned)'
    BY <1>1 DEF IInv, InvoiceBacks, PaidIsSettled
<1>8. RowInv'
    BY <1>1 DEF IInv, RowInv, Backed, Adds, Named
<1>9. ASSUME NEW q \in Requests \ {r}
      PROVE  TxnInv(q)'
  <2>1. TxnInv(q)
    BY DEF IInv
  <2>2. ASSUME txn[q] # NoTxn, Approves(txn[q]), NEW p \in Requests \ {q}, txn'[p] # NoTxn
        PROVE  txn'[p].inv # txn[q].inv
    BY <1>3, <2>1, <2>2 DEF TxnInv
  <2>. QED
    BY <1>1, <1>3, <2>1, <2>2 DEF TxnInv, Adds
<1>. QED
    BY <1>2, <1>6, <1>7, <1>8, <1>9 DEF IInv

\* What a handler starts from.
LEMMA ReadType ==
    ASSUME TypeOK, NEW c \in Certs
    PROVE  /\ Read(c) \in Txn
           /\ Read(c).cert = c /\ Read(c).loaded = cert[c] /\ Read(c).assigned = cert[c]
           /\ Read(c).inv = NoId /\ Read(c).invLoaded = NoInvoice /\ Read(c).amount = 0
           /\ cert[c] \in Certificate
<1>1. cert[c] \in Certificate /\ NoInvoice \in InvoiceRow
    BY Constants DEF TypeOK, NoInvoice, InvoiceRow
<1>. HIDE DEF Certificate, InvoiceRow, NoInvoice
<1>. QED
    BY <1>1 DEF Read, Txn

\* A handler that writes a certificate alone.
LEMMA WriteCertIInv ==
    ASSUME IInv, NEW r \in Requests, NEW c \in Certs, NEW row \in Certificate,
           Work(r, [Read(c) EXCEPT !.assigned = row]),
           \/ /\ cert[c] = NoCertificate
              /\ row.status = "draft" /\ row.invoice = NoId
              /\ Adds(row)
           \/ /\ cert[c].status = "draft" /\ ~cert[c].deleted
              /\ row = [cert[c] EXCEPT !.deleted = TRUE]
           \/ cert[c].status = "draft" /\ row = [cert[c] EXCEPT !.status = "submitted"]
    PROVE  IInv'
<1>. DEFINE t == [Read(c) EXCEPT !.assigned = row]
<1>1. /\ t \in Txn /\ t.cert = c /\ t.loaded = cert[c] /\ t.assigned = row
      /\ t.inv = NoId /\ cert[c] \in Certificate
  <2>. HIDE DEF Certificate, InvoiceRow
  <2>. QED
    BY ReadType DEF IInv, Txn
<1>2. Work(r, t)
    OBVIOUS
<1>. HIDE DEF t
<1>3. txn'[r] = t
    BY <1>2 DEF Work, IInv, TypeOK
<1>4. UNCHANGED <<cert, raced, overlap>>
    BY <1>2 DEF Work
<1>5. row.status \in {"draft", "submitted"}
    BY <1>1 DEF Certificate
<1>6. Handles(t) /\ ~Approves(t) /\ ~OnInvoice(t) /\ ~Settles(t)
    BY <1>1 DEF Handles, Drafts, Deletes, Submits, Approves, OnInvoice, Settles, Records
<1>7. Drafts(t) => Adds(row)
  <2>1. cert[c].status = "draft" => cert[c] # NoCertificate
    BY DEF NoCertificate
  <2>. QED
    BY <1>1, <2>1 DEF Drafts
<1>8. Deletes(t) => cert[c].status # "absent"
    BY <1>1 DEF Deletes
<1>9. TxnInv(r)'
    BY <1>1, <1>3, <1>4, <1>6, <1>7, <1>8 DEF TxnInv, Adds
<1>10. \A q \in Requests \ {r} : txn[q] # NoTxn /\ Approves(txn[q]) => t.inv # txn[q].inv
    BY <1>1 DEF Approves
<1>. QED
    BY <1>1, <1>2, <1>9, <1>10, WorkIInv

\* The new certificate takes up what was certified, its value on top of it.
LEMMA CreateIInv ==
    ASSUME IInv, NEW r \in Requests, NEW ded \in Deductions, CreateCertificate(r, ded)
    PROVE  IInv'
<1>. DEFINE qty == claimed + confirmed - PrevCertified
            value == qty * Rate
            net == value - ded - Retained(value)
            row == [status |-> "draft", deleted |-> FALSE, prevQty |-> PrevCertified,
                    qty |-> qty, total |-> PrevCert.total + value, net |-> net,
                    due |-> PrevCert.due + net, invoice |-> NoId]
<1>1. /\ NextCert \in Certs /\ qty > 0 /\ net >= 0
      /\ Work(r, [Read(NextCert) EXCEPT !.assigned = row])
    BY DEF CreateCertificate
<1>2. TypeOK /\ PrevCertified \in Nat /\ PrevCert \in Certificate
    BY PrevCertifiedType, LatestCertified DEF IInv
<1>3. PrevCert.total \in Nat /\ PrevCert.due \in Nat
    BY <1>2 DEF Certificate
<1>4. qty \in Nat /\ value \in Nat
  <2>1. qty \in Nat
    BY <1>1, <1>2 DEF TypeOK
  <2>. HIDE DEF qty
  <2>. QED
    BY <2>1, Constants
<1>5. net \in Nat
  <2>1. Retained(value) \in Int
    <3>. HIDE DEF value
    <3>1. value * RetentionPct \in Int
        BY <1>4, Constants
    <3>. QED
        BY <3>1 DEF Retained
  <2>2. ded \in Nat
    BY Constants
  <2>. HIDE DEF value
  <2>. QED
    BY <1>1, <1>4, <2>1, <2>2
<1>. HIDE DEF net
<1>6. row \in Certificate
  <2>. HIDE DEF qty, value
  <2>1. PrevCert.total + value \in Nat /\ PrevCert.due + net \in Nat
    BY <1>3, <1>4, <1>5
  <2>. QED
    BY <1>2, <1>4, <1>5, <2>1 DEF Certificate
<1>7. Adds(row)
  <2>1. PrevCertified + qty = claimed + confirmed
    BY <1>2 DEF TypeOK
  <2>2. PrevCertified + qty <= Assigned
    BY <2>1 DEF IInv
  <2>3. raced = {} /\ ~overlap => PrevCert.total = PrevCertified * Rate
    BY DEF IInv, TotalsTrack
  <2>. HIDE DEF qty
  <2>4. PrevCertified * Rate + qty * Rate = (PrevCertified + qty) * Rate
    BY <1>2, <1>4, Constants
  <2>. QED
    BY <2>2, <2>3, <2>4 DEF Adds
<1>8. cert[NextCert] = NoCertificate
    BY <1>1, <1>2, NextIds DEF IInv, RowInv, Backed
<1>9. row.status = "draft" /\ row.invoice = NoId
    OBVIOUS
<1>. HIDE DEF row
<1>. QED
    BY <1>1, <1>6, <1>7, <1>8, <1>9, WriteCertIInv

LEMMA ReviseIInv ==
    ASSUME IInv, NEW r \in Requests, NEW c \in Certs, ReviseCertificate(r, c)
    PROVE  IInv'
<1>. DEFINE row == [cert[c] EXCEPT !.status = "draft", !.prevQty = @ + cert[c].qty, !.qty = 0,
                                   !.net = 0, !.due = 0, !.invoice = NoId]
<1>1. NextCert \in Certs /\ Work(r, [Read(NextCert) EXCEPT !.assigned = row])
    BY DEF ReviseCertificate
<1>2. cert[c] \in Certificate /\ TypeOK
    BY DEF IInv, TypeOK
<1>3. /\ row \in Certificate
      /\ row.status = "draft" /\ row.invoice = NoId
      /\ row.prevQty = cert[c].prevQty + cert[c].qty /\ row.qty = 0
      /\ row.total = cert[c].total
  <2>. DEFINE sum == cert[c].prevQty + cert[c].qty
  <2>1. sum \in Nat
    BY <1>2 DEF Certificate
  <2>2. row = [cert[c] EXCEPT !.status = "draft", !.prevQty = sum, !.qty = 0,
                              !.net = 0, !.due = 0, !.invoice = NoId]
    OBVIOUS
  <2>. HIDE DEF sum, row
  <2>3. \A x \in Certificate, p \in Nat :
           LET y == [x EXCEPT !.status = "draft", !.prevQty = p, !.qty = 0,
                              !.net = 0, !.due = 0, !.invoice = NoId]
           IN  /\ y \in Certificate
               /\ y.status = "draft" /\ y.invoice = NoId /\ y.prevQty = p /\ y.qty = 0
               /\ y.total = x.total
    BY ZenonT(60) DEF Certificate
  <2>4. row.prevQty = sum
    BY <1>2, <2>1, <2>2, <2>3
  <2>. QED
    BY <1>2, <2>1, <2>2, <2>3, <2>4 DEF sum
<1>4. cert[c].prevQty \in Nat /\ cert[c].qty \in Nat
    BY <1>2 DEF Certificate
<1>. HIDE DEF row
<1>5. row.prevQty + row.qty = cert[c].prevQty + cert[c].qty
    BY <1>3, <1>4
<1>6. Adds(row)
    BY <1>3, <1>5 DEF IInv, RowInv, Adds
<1>7. cert[NextCert] = NoCertificate
    BY <1>1, <1>2, NextIds DEF IInv, RowInv, Backed
<1>. QED
    BY <1>1, <1>3, <1>6, <1>7, WriteCertIInv

LEMMA DeleteOrSubmitIInv ==
    ASSUME IInv, NEW r \in Requests, NEW c \in Certs,
           DeleteCertificate(r, c) \/ SubmitCertificate(r, c)
    PROVE  IInv'
<1>1. cert[c] \in Certificate
    BY DEF IInv, TypeOK
<1>2. Read(c).assigned = cert[c]
    BY ReadType DEF IInv
<1>3. CASE DeleteCertificate(r, c)
  <2>. DEFINE row == [cert[c] EXCEPT !.deleted = TRUE]
  <2>1. row \in Certificate
    BY <1>1 DEF Certificate
  <2>2. [Read(c) EXCEPT !.assigned.deleted = TRUE] = [Read(c) EXCEPT !.assigned = row]
    BY DEF Read
  <2>3. /\ cert[c].status = "draft" /\ ~cert[c].deleted
        /\ Work(r, [Read(c) EXCEPT !.assigned = row])
    BY <1>3, <2>2 DEF DeleteCertificate, Exists
  <2>. QED
    BY <2>1, <2>3, WriteCertIInv
<1>4. CASE SubmitCertificate(r, c)
  <2>. DEFINE row == [cert[c] EXCEPT !.status = "submitted"]
  <2>1. row \in Certificate
    BY <1>1 DEF Certificate
  <2>2. [Read(c) EXCEPT !.assigned.status = "submitted"] = [Read(c) EXCEPT !.assigned = row]
    BY DEF Read
  <2>3. cert[c].status = "draft" /\ Work(r, [Read(c) EXCEPT !.assigned = row])
    BY <1>4, <2>2 DEF SubmitCertificate
  <2>. QED
    BY <2>1, <2>3, WriteCertIInv
<1>. QED
    BY <1>3, <1>4

\* The handlers that work on an invoice as well.
LEMMA ApproveIInv ==
    ASSUME IInv, NEW r \in Requests, NEW c \in Certs, ApproveCertificate(r, c)
    PROVE  IInv'
<1>. DEFINE i == NextInvoice
            row == [cert[c] EXCEPT !.status = "approved", !.invoice = i]
            u == Read(c)
            new == InvoiceFor(c)
            t == [u EXCEPT !.assigned = row, !.inv = i, !.invAssigned = new]
<1>1. TypeOK /\ cert[c] \in Certificate /\ i \in Invoices /\ cert[c].status = "submitted"
    BY DEF IInv, TypeOK, ApproveCertificate
<1>2. /\ invoice[i].status = "absent"
      /\ \A q \in Requests : txn[q] # NoTxn => txn[q].inv # i
      /\ invoice[i] = NoInvoice
      /\ i # NoId /\ cert[c].invoice # i
    BY <1>1, NextIds, Constants DEF IInv, RowInv, Named, Backed
<1>3. /\ u \in Txn /\ u.cert = c /\ u.loaded = cert[c] /\ u.assigned = cert[c]
      /\ u.invLoaded = NoInvoice /\ u.amount = 0
    BY <1>1, ReadType
<1>4. Work(r, t)
  <2>1. Work(r, [u EXCEPT !.assigned.status = "approved", !.assigned.invoice = i,
                          !.inv = i, !.invAssigned = new])
    BY DEF ApproveCertificate
  <2>. HIDE DEF i, u, new
  <2>2. [u EXCEPT !.assigned.status = "approved", !.assigned.invoice = i,
                  !.inv = i, !.invAssigned = new] = t
    BY <1>3 DEF Txn
  <2>. QED
    BY <2>1, <2>2
<1>. HIDE DEF i, u
<1>5. row \in Certificate
    BY <1>1 DEF Certificate
<1>6. new \in InvoiceRow
    BY <1>1 DEF InvoiceFor, InvoiceRow, Certificate
<1>7. /\ t \in Txn /\ t.cert = c /\ t.loaded = cert[c] /\ t.assigned = row
      /\ t.inv = i /\ t.invLoaded = NoInvoice /\ t.invAssigned = new
  <2>. HIDE DEF row, new, Certificate, InvoiceRow
  <2>. QED
    BY <1>1, <1>3, <1>5, <1>6 DEF Txn
<1>. HIDE DEF t
<1>8. /\ txn'[r] = t /\ UNCHANGED <<cert, invoice>>
      /\ \A q \in Requests \ {r} : txn'[q] = txn[q]
    BY <1>1, <1>4 DEF Work, TypeOK
<1>9. Approves(t)
    BY <1>1, <1>2, <1>7 DEF Approves, InvoiceFor
<1>10. ~Drafts(t) /\ ~Deletes(t) /\ ~OnInvoice(t) /\ ~Settles(t)
  <2>1. t.assigned.status = "approved" /\ t.assigned # t.loaded
    BY <1>1, <1>7 DEF Certificate
  <2>. QED
    BY <1>1, <1>7, <2>1 DEF Drafts, Deletes, OnInvoice, Settles, Records
<1>11. TxnInv(r)'
    BY <1>2, <1>7, <1>8, <1>9, <1>10 DEF TxnInv, Handles
<1>12. \A q \in Requests \ {r} : txn[q] # NoTxn /\ Approves(txn[q]) => t.inv # txn[q].inv
    BY <1>2, <1>7
<1>. QED
    BY <1>4, <1>7, <1>11, <1>12, WorkIInv

\* One that works on an invoice that is there.
LEMMA OnInvoiceIInv ==
    ASSUME IInv, NEW r \in Requests, NEW t \in Txn, Work(r, t), OnInvoice(t),
           invoice[t.inv].status # "absent", invoice[t.inv].cert = t.cert,
           Settles(t) => cert[t.cert].invoice # NoId
    PROVE  IInv'
<1>1. txn'[r] = t /\ UNCHANGED <<cert, invoice>>
    BY DEF Work, IInv, TypeOK
<1>2. ~Drafts(t) /\ ~Deletes(t) /\ ~Approves(t)
  <2>1. t.loaded \in Certificate
    BY DEF Txn
  <2>2. CASE Settles(t)
    BY <2>1, <2>2 DEF Settles, Drafts, Deletes, Approves, NoCertificate
  <2>3. CASE Records(t)
    BY <2>1, <2>3 DEF Records, Drafts, Deletes, Approves, NoCertificate, NoInvoice, Certificate
  <2>. QED
    BY <2>2, <2>3 DEF OnInvoice
<1>3. TxnInv(r)'
    BY <1>1, <1>2 DEF TxnInv, Handles
<1>4. \A q \in Requests \ {r} : txn[q] # NoTxn /\ Approves(txn[q]) => t.inv # txn[q].inv
  <2>1. \A q \in Requests : txn[q] # NoTxn /\ Approves(txn[q]) => invoice[txn[q].inv] = NoInvoice
    BY DEF IInv, TxnInv
  <2>. QED
    BY <2>1 DEF NoInvoice
<1>. QED
    BY <1>3, <1>4, WorkIInv

LEMMA MarkPaidIInv ==
    ASSUME IInv, NEW r \in Requests, NEW c \in Certs, MarkPaid(r, c)
    PROVE  IInv'
<1>. DEFINE i == cert[c].invoice
            due == cert[c].due
            row == [cert[c] EXCEPT !.status = "paid"]
            paid == [invoice[i] EXCEPT !.status = "paid", !.paid = due, !.balance = 0]
            u == Read(c)
            t == [u EXCEPT !.assigned = row, !.inv = i, !.invLoaded = invoice[i],
                           !.invAssigned = paid, !.amount = due]
<1>1. TypeOK /\ cert[c] \in Certificate /\ cert[c].status = "approved"
    BY DEF IInv, TypeOK, MarkPaid
<1>2. i \in Invoices /\ i # NoId /\ invoice[i].status # "absent" /\ invoice[i].cert = c
    BY <1>1 DEF IInv, RowInv, Backed, Certificate
<1>3. invoice[i] \in InvoiceRow /\ due \in Nat
    BY <1>1, <1>2 DEF TypeOK, Certificate
<1>4. u \in Txn /\ u.cert = c /\ u.loaded = cert[c] /\ u.assigned = cert[c]
    BY <1>1, ReadType
<1>5. Work(r, t)
  <2>1. Work(r, [u EXCEPT !.assigned.status = "paid", !.inv = i, !.invLoaded = invoice[i],
                          !.invAssigned = paid, !.amount = due])
    BY DEF MarkPaid
  <2>. HIDE DEF i, u, paid, due
  <2>2. [u EXCEPT !.assigned.status = "paid", !.inv = i, !.invLoaded = invoice[i],
                  !.invAssigned = paid, !.amount = due] = t
    BY <1>4 DEF Txn
  <2>. QED
    BY <2>1, <2>2
<1>. HIDE DEF u, i, due
<1>6. row \in Certificate
    BY <1>1 DEF Certificate
<1>7. paid \in InvoiceRow
  <2>1. 0 \in Int
    OBVIOUS
  <2>. QED
    BY <1>3, <2>1 DEF InvoiceRow
<1>8. /\ t \in Txn /\ t.cert = c /\ t.loaded = cert[c] /\ t.assigned = row
      /\ t.inv = i /\ t.invLoaded = invoice[i] /\ t.invAssigned = paid /\ t.amount = due
  <2>. HIDE DEF row, paid, Certificate, InvoiceRow
  <2>. QED
    BY <1>2, <1>3, <1>4, <1>6, <1>7 DEF Txn
<1>. HIDE DEF t
<1>9. Settles(t) /\ OnInvoice(t)
    BY <1>1, <1>2, <1>8 DEF Settles, OnInvoice, i, due
<1>10. cert[t.cert].invoice # NoId
    BY <1>2, <1>8 DEF i
<1>. QED
    BY <1>2, <1>5, <1>8, <1>9, <1>10, OnInvoiceIInv

LEMMA RecordPaymentIInv ==
    ASSUME IInv, NEW r \in Requests, NEW i \in Invoices, NEW amount \in Amounts,
           RecordPayment(r, i, amount)
    PROVE  IInv'
<1>. DEFINE row == invoice[i]
            sum == row.paid + amount
            balance == row.total - sum
            status == IF balance <= 0 THEN "paid" ELSE "partially_paid"
            booked == [row EXCEPT !.paid = sum, !.balance = balance, !.status = status]
            u == Read(row.cert)
            t == [u EXCEPT !.inv = i, !.invLoaded = row, !.amount = amount,
                           !.invAssigned = booked]
<1>1. TypeOK /\ row \in InvoiceRow /\ row.status \in {"approved", "partially_paid"}
    BY DEF IInv, TypeOK, RecordPayment
<1>2. row.cert \in Certs /\ i # NoId /\ amount \in Nat
    BY <1>1, Constants DEF IInv, RowInv, Named
<1>3. Work(r, t)
    BY DEF RecordPayment
<1>4. u \in Txn /\ u.cert = row.cert /\ u.loaded = u.assigned
    BY <1>1, <1>2, ReadType
<1>5. sum \in Nat /\ balance \in Int /\ status \in {"partially_paid", "paid"}
    BY <1>1, <1>2 DEF InvoiceRow
<1>. HIDE DEF u, row, sum, balance, status
<1>6. booked \in InvoiceRow /\ booked.status = status /\ booked.cert = row.cert
      /\ booked.total = row.total
    BY <1>1, <1>5 DEF InvoiceRow
<1>. HIDE DEF booked
<1>7. /\ t \in Txn /\ t.cert = row.cert /\ t.assigned = t.loaded
      /\ t.inv = i /\ t.invLoaded = row /\ t.invAssigned = booked
  <2>. HIDE DEF Certificate, InvoiceRow
  <2>. QED
    BY <1>1, <1>2, <1>4, <1>6 DEF Txn
<1>. HIDE DEF t
<1>8. Records(t) /\ OnInvoice(t)
    BY <1>1, <1>2, <1>5, <1>6, <1>7 DEF Records, OnInvoice
<1>9. ~Settles(t)
  <2>1. t.loaded \in Certificate
    BY <1>7 DEF Txn
  <2>. QED
    BY <1>7, <2>1 DEF Settles, Certificate
<1>10. invoice[t.inv].status # "absent" /\ invoice[t.inv].cert = t.cert
    BY <1>1, <1>7 DEF row
<1>. QED
    BY <1>3, <1>7, <1>8, <1>9, <1>10, OnInvoiceIInv

\* The other component, while work is claimed, confirmed and withdrawn.
LEMMA ProgressIInv ==
    ASSUME IInv, Progress
    PROVE  IInv'
<1>1. UNCHANGED <<cert, invoice, received, txn, raced, overlap>>
    BY DEF Progress
<1>2. claimed \in Nat /\ confirmed \in Nat /\ claimed + confirmed <= Assigned
    BY DEF IInv, TypeOK
<1>3. claimed' \in Nat /\ confirmed' \in Nat /\ claimed' + confirmed' <= Assigned
  <2>1. CASE Log!Claim
    BY <1>2, <2>1, Constants DEF Log!Claim
  <2>2. CASE Log!Confirm
    BY <1>2, <2>2, Constants DEF Log!Confirm
  <2>3. CASE Log!Withdraw
    BY <1>2, <2>3, Constants DEF Log!Withdraw
  <2>. QED
    BY <2>1, <2>2, <2>3 DEF Progress
<1>4. TypeOK'
    BY <1>1, <1>3 DEF IInv, TypeOK
<1>5. CertifiedCerts' = CertifiedCerts
    BY <1>1 DEF CertifiedCerts, Exists
<1>6. PrevCertified' = PrevCertified /\ PrevCert' = PrevCert
    BY <1>1, <1>5 DEF PrevCertified, PrevCert
<1>7. CertifiedOnce' /\ TotalsTrack'
    BY <1>1, <1>6 DEF IInv, CertifiedOnce, TotalsTrack
<1>8. InvoiceBacks' /\ PaidIsSettled'
    BY <1>1 DEF IInv, InvoiceBacks, PaidIsSettled
<1>9. RowInv' /\ \A r \in Requests : TxnInv(r)'
    BY <1>1 DEF IInv, RowInv, Backed, Adds, Named, TxnInv
<1>. QED
    BY <1>3, <1>4, <1>7, <1>8, <1>9 DEF IInv

-----------------------------------------------------------------------------
(* The commit. *)

\* A flush writes what was assigned over a row nobody has changed since it was
\* loaded, and nothing if nothing was assigned.
LEMMA FlushCert ==
    ASSUME NEW l \in Certificate, NEW a \in Certificate, NEW s \in Certificate
    PROVE  LET n == FlushRow(l, a, s) IN
           /\ n \in Certificate
           /\ n.status = Flushed(l.status, a.status, s.status)
           /\ n.invoice = Flushed(l.invoice, a.invoice, s.invoice)
           /\ l = a => n = s
           /\ l = s => n = a
<1>1. FlushRow(l, a, s) \in Certificate
    BY DEF FlushRow, Flushed, Certificate
<1>2. /\ FlushRow(l, a, s).status = Flushed(l.status, a.status, s.status)
      /\ FlushRow(l, a, s).invoice = Flushed(l.invoice, a.invoice, s.invoice)
    BY DEF FlushRow, Certificate
<1>3. l = a => FlushRow(l, a, s) = s
    BY DEF FlushRow, Flushed, Certificate
<1>4. l = s => FlushRow(l, a, s) = a
    BY DEF FlushRow, Flushed, Certificate
<1>. QED
    BY <1>1, <1>2, <1>3, <1>4

LEMMA FlushInvoice ==
    ASSUME NEW l \in InvoiceRow, NEW a \in InvoiceRow, NEW s \in InvoiceRow
    PROVE  LET n == FlushRow(l, a, s) IN
           /\ n \in InvoiceRow
           /\ n.status = Flushed(l.status, a.status, s.status)
           /\ n.cert = Flushed(l.cert, a.cert, s.cert)
           /\ l = s => n = a
<1>1. FlushRow(l, a, s) \in InvoiceRow
    BY DEF FlushRow, Flushed, InvoiceRow
<1>2. /\ FlushRow(l, a, s).status = Flushed(l.status, a.status, s.status)
      /\ FlushRow(l, a, s).cert = Flushed(l.cert, a.cert, s.cert)
    BY DEF FlushRow, InvoiceRow
<1>3. l = s => FlushRow(l, a, s) = a
    BY DEF FlushRow, Flushed, InvoiceRow
<1>. QED
    BY <1>1, <1>2, <1>3

\* What a commit leaves alone, and what it writes, column by column.
LEMMA CommitEffect ==
    ASSUME IInv, NEW r \in Requests, Commit(r)
    PROVE  LET t == txn[r]
               c == t.cert
               i == t.inv
           IN  /\ t # NoTxn /\ t \in Txn /\ Handles(t)
               /\ c \in Certs /\ i \in Invoices \union {NoId}
               /\ cert' \in [Certs -> Certificate]
               /\ \A d \in Certs \ {c} : cert'[d] = cert[d]
               /\ cert'[c].status = Flushed(t.loaded.status, t.assigned.status, cert[c].status)
               /\ cert'[c].invoice = Flushed(t.loaded.invoice, t.assigned.invoice, cert[c].invoice)
               /\ t.loaded = t.assigned => cert'[c] = cert[c]
               /\ invoice' \in [Invoices -> InvoiceRow] /\ received' \in [Invoices -> Nat]
               /\ \A j \in Invoices \ {i} : invoice'[j] = invoice[j] /\ received'[j] = received[j]
               /\ i # NoId =>
                     /\ invoice'[i].status = Flushed(t.invLoaded.status, t.invAssigned.status,
                        invoice[i].status)
                     /\ invoice'[i].cert = Flushed(t.invLoaded.cert, t.invAssigned.cert,
                        invoice[i].cert)
                     /\ t.invLoaded = invoice[i] => invoice'[i] = t.invAssigned
                     /\ received'[i] = received[i] + t.amount
<1>. DEFINE t == txn[r]
            c == t.cert
            i == t.inv
<1>1. t # NoTxn /\ t \in Txn /\ Handles(t)
    BY DEF Commit, IInv, TypeOK, TxnInv
<1>2. /\ c \in Certs /\ i \in Invoices \union {NoId}
      /\ t.loaded \in Certificate /\ t.assigned \in Certificate
      /\ t.invLoaded \in InvoiceRow /\ t.invAssigned \in InvoiceRow /\ t.amount \in Nat
    BY <1>1 DEF Txn
<1>3. /\ cert \in [Certs -> Certificate] /\ invoice \in [Invoices -> InvoiceRow]
      /\ received \in [Invoices -> Nat]
    BY DEF IInv, TypeOK
<1>4. cert' = [cert EXCEPT ![c] = FlushRow(t.loaded, t.assigned, cert[c])]
    BY DEF Commit
<1>5. IF i = NoId
      THEN UNCHANGED <<invoice, received>>
      ELSE /\ invoice' = [invoice EXCEPT ![i] = FlushRow(t.invLoaded, t.invAssigned, invoice[i])]
           /\ received' = [received EXCEPT ![i] = received[i] + t.amount]
    BY DEF Commit
<1>. HIDE DEF t, c, i, Certificate, InvoiceRow
<1>6. /\ cert' \in [Certs -> Certificate]
      /\ \A d \in Certs \ {c} : cert'[d] = cert[d]
      /\ cert'[c].status = Flushed(t.loaded.status, t.assigned.status, cert[c].status)
      /\ cert'[c].invoice = Flushed(t.loaded.invoice, t.assigned.invoice, cert[c].invoice)
      /\ t.loaded = t.assigned => cert'[c] = cert[c]
  <2>1. cert[c] \in Certificate
    BY <1>2, <1>3
  <2>. DEFINE n == FlushRow(t.loaded, t.assigned, cert[c])
  <2>2. /\ n \in Certificate
        /\ n.status = Flushed(t.loaded.status, t.assigned.status, cert[c].status)
        /\ n.invoice = Flushed(t.loaded.invoice, t.assigned.invoice, cert[c].invoice)
        /\ t.loaded = t.assigned => n = cert[c]
    BY <1>2, <2>1, FlushCert
  <2>3. cert' = [cert EXCEPT ![c] = n]
    BY <1>4
  <2>. HIDE DEF n
  <2>. QED
    BY <1>2, <1>3, <2>2, <2>3
<1>7. CASE i = NoId
  <2>1. invoice' = invoice /\ received' = received
    BY <1>5, <1>7
  <2>. QED
    BY <1>1, <1>2, <1>3, <1>6, <1>7, <2>1 DEF t, c, i
<1>8. CASE i # NoId
  <2>1. i \in Invoices /\ invoice[i] \in InvoiceRow /\ received[i] \in Nat
    BY <1>2, <1>3, <1>8
  <2>. DEFINE n == FlushRow(t.invLoaded, t.invAssigned, invoice[i])
              m == received[i] + t.amount
  <2>2. /\ n \in InvoiceRow
        /\ n.status = Flushed(t.invLoaded.status, t.invAssigned.status, invoice[i].status)
        /\ n.cert = Flushed(t.invLoaded.cert, t.invAssigned.cert, invoice[i].cert)
        /\ t.invLoaded = invoice[i] => n = t.invAssigned
    BY <1>2, <2>1, FlushInvoice
  <2>3. invoice' = [invoice EXCEPT ![i] = n] /\ received' = [received EXCEPT ![i] = m]
    BY <1>5, <1>8
  <2>4. m \in Nat
    BY <1>2, <2>1
  <2>. HIDE DEF n
  <2>5. /\ invoice' \in [Invoices -> InvoiceRow]
        /\ \A j \in Invoices \ {i} : invoice'[j] = invoice[j]
        /\ invoice'[i] = n
    BY <1>3, <2>1, <2>2, <2>3
  <2>6. /\ received' \in [Invoices -> Nat]
        /\ \A j \in Invoices \ {i} : received'[j] = received[j]
        /\ received'[i] = m
    <3>. HIDE DEF m
    <3>. QED
        BY <1>3, <2>1, <2>3, <2>4
  <2>. QED
    BY <1>1, <1>2, <1>6, <2>2, <2>5, <2>6 DEF t, c, i
<1>. QED
    BY <1>7, <1>8

\* Unless it raced, it has found the rows it writes as they were loaded.
LEMMA CommitFresh ==
    ASSUME IInv, NEW r \in Requests, Commit(r)
    PROVE  LET t == txn[r]
               c == t.cert
               i == t.inv
           IN  /\ raced \subseteq raced' /\ raced' \subseteq raced \union {c}
               /\ c \notin raced' =>
                     /\ t.loaded # t.assigned => cert[c] = t.loaded /\ cert'[c] = t.assigned
                     /\ i # NoId => invoice[i] = t.invLoaded /\ invoice'[i] = t.invAssigned
<1>. DEFINE t == txn[r]
            c == t.cert
            i == t.inv
<1>1. raced' = IF Stale(t) THEN raced \union {c} ELSE raced
    BY DEF Commit
<1>2. c \notin raced' => ~Stale(t)
    BY <1>1
<1>3. t \in Txn /\ cert \in [Certs -> Certificate] /\ c \in Certs
    BY CommitEffect DEF IInv, TypeOK
<1>4. t.loaded \in Certificate /\ t.assigned \in Certificate
    BY <1>3 DEF Txn
<1>5. cert' = [cert EXCEPT ![c] = FlushRow(t.loaded, t.assigned, cert[c])]
    BY DEF Commit
<1>6. ASSUME c \notin raced', t.loaded # t.assigned
      PROVE  cert[c] = t.loaded /\ cert'[c] = t.assigned
  <2>1. cert[c] = t.loaded
    BY <1>2, <1>6 DEF Stale
  <2>2. FlushRow(t.loaded, t.assigned, cert[c]) = t.assigned
    BY <1>4, <2>1, FlushCert
  <2>. HIDE DEF t, c
  <2>. QED
    BY <1>3, <1>5, <2>1, <2>2
<1>7. ASSUME c \notin raced', i # NoId
      PROVE  invoice[i] = t.invLoaded /\ invoice'[i] = t.invAssigned
    BY <1>2, <1>7, CommitEffect DEF Stale
<1>. QED
    BY <1>1, <1>6, <1>7

\* No commit takes back that a row exists, that a certificate has an invoice, or
\* what certificate an invoice is for.
LEMMA CommitKeeps ==
    ASSUME IInv, NEW r \in Requests, Commit(r)
    PROVE  /\ \A d \in Certs :
                 /\ cert[d].status # "absent" => cert'[d].status # "absent"
                 /\ cert[d].invoice # NoId => cert'[d].invoice # NoId
           /\ \A j \in Invoices :
                 invoice[j].status # "absent" =>
                    /\ invoice'[j].status # "absent"
                    /\ invoice'[j].cert = invoice[j].cert
<1>. DEFINE t == txn[r]
            c == t.cert
            i == t.inv
<1>1. t # NoTxn /\ t \in Txn /\ Handles(t) /\ TxnInv(r)
    BY CommitEffect DEF IInv
<1>2. /\ c \in Certs /\ i \in Invoices \union {NoId}
      /\ cert'[c].status = Flushed(t.loaded.status, t.assigned.status, cert[c].status)
      /\ cert'[c].invoice = Flushed(t.loaded.invoice, t.assigned.invoice, cert[c].invoice)
      /\ t.loaded \in Certificate /\ t.assigned \in Certificate
    BY CommitEffect DEF Txn
<1>3. i # NoId =>
         /\ invoice'[i].status = Flushed(t.invLoaded.status, t.invAssigned.status,
            invoice[i].status)
         /\ invoice'[i].cert = Flushed(t.invLoaded.cert, t.invAssigned.cert, invoice[i].cert)
         /\ t.invLoaded \in InvoiceRow /\ t.invAssigned \in InvoiceRow
    BY CommitEffect DEF Txn
<1>4. \A d \in Certs \ {c} : cert'[d] = cert[d]
    BY CommitEffect
<1>5. \A j \in Invoices \ {i} : invoice'[j] = invoice[j]
    BY CommitEffect
<1>6. t.assigned.status # "absent" \/ t.assigned.status = t.loaded.status
  <2>1. Deletes(t) => t.assigned.status = t.loaded.status
    BY <1>2 DEF Deletes, Certificate
  <2>2. Submits(t) => t.assigned.status = "submitted"
    BY <1>2 DEF Submits, Certificate
  <2>3. Approves(t) => t.assigned.status = "approved"
    BY <1>2 DEF Approves, Certificate
  <2>4. Settles(t) => t.assigned.status = "paid"
    BY <1>2 DEF Settles, Certificate
  <2>5. Drafts(t) => t.assigned.status = "draft"
    BY DEF Drafts
  <2>6. Records(t) => t.assigned = t.loaded
    BY DEF Records
  <2>. QED
    BY <1>1, <2>1, <2>2, <2>3, <2>4, <2>5, <2>6 DEF Handles, OnInvoice
<1>7. t.assigned.invoice # NoId \/ t.assigned.invoice = t.loaded.invoice
  <2>1. Drafts(t) => t.assigned.invoice = t.loaded.invoice
    BY DEF Drafts, NoCertificate
  <2>2. Deletes(t) \/ Submits(t) \/ Settles(t) => t.assigned.invoice = t.loaded.invoice
    BY <1>2 DEF Deletes, Submits, Settles, Certificate
  <2>3. Approves(t) => t.assigned.invoice = i /\ i # NoId
    BY <1>2 DEF Approves, Certificate
  <2>4. Records(t) => t.assigned = t.loaded
    BY DEF Records
  <2>. QED
    BY <1>1, <2>1, <2>2, <2>3, <2>4 DEF Handles, OnInvoice
<1>8. i # NoId => Approves(t) \/ OnInvoice(t)
    BY <1>1 DEF Handles, Drafts, Deletes, Submits
<1>9. Approves(t) => invoice[i] = NoInvoice
    BY <1>1 DEF TxnInv
<1>10. OnInvoice(t) => t.invAssigned.status # "absent" /\ t.invAssigned.cert = t.invLoaded.cert
  <2>1. Records(t) => t.invAssigned.status # "absent" /\ t.invAssigned.cert = t.invLoaded.cert
    BY DEF Records
  <2>2. Settles(t) => t.invAssigned.status # "absent" /\ t.invAssigned.cert = t.invLoaded.cert
    BY <1>3 DEF Settles, InvoiceRow
  <2>. QED
    BY <2>1, <2>2 DEF OnInvoice
<1>. HIDE DEF t, c, i
<1>11. ASSUME NEW d \in Certs
       PROVE  /\ cert[d].status # "absent" => cert'[d].status # "absent"
              /\ cert[d].invoice # NoId => cert'[d].invoice # NoId
    BY <1>2, <1>4, <1>6, <1>7 DEF Flushed
<1>12. ASSUME NEW j \in Invoices, invoice[j].status # "absent"
       PROVE  invoice'[j].status # "absent" /\ invoice'[j].cert = invoice[j].cert
  <2>1. CASE j # i
    BY <1>5, <1>12, <2>1
  <2>2. CASE j = i
    <3>1. i # NoId
        BY <2>2, Constants
    <3>2. OnInvoice(t)
        BY <1>8, <1>9, <1>12, <2>2, <3>1 DEF NoInvoice
    <3>. QED
        BY <1>3, <1>10, <1>12, <2>2, <3>1, <3>2 DEF Flushed
  <2>. QED
    BY <2>1, <2>2
<1>. QED
    BY <1>11, <1>12

\* What a commit does to the invoices of a certificate: the new one is the only
\* row that comes to name one, the one that it approves.
LEMMA CommitInvoice ==
    ASSUME IInv, NEW r \in Requests, Commit(r)
    PROVE  LET t == txn[r]
               c == t.cert
               i == t.inv
           IN  /\ Approves(t) =>
                     /\ i \in Invoices /\ invoice[i] = NoInvoice
                     /\ invoice'[i] = t.invAssigned /\ t.invAssigned.cert = c
                     /\ \A j \in Invoices \ {i} : invoice'[j].cert = invoice[j].cert
               /\ ~Approves(t) => \A j \in Invoices : invoice'[j].cert = invoice[j].cert
               /\ \A d \in Certs \ {c} : \A j \in Invoices :
                     /\ invoice'[j].cert = d <=> invoice[j].cert = d
                     /\ invoice[j].cert = d =>
                           invoice'[j] = invoice[j] /\ received'[j] = received[j]
<1>. DEFINE t == txn[r]
            c == t.cert
            i == t.inv
<1>1. t \in Txn /\ Handles(t) /\ TxnInv(r) /\ t # NoTxn
    BY CommitEffect DEF IInv
<1>2. /\ c \in Certs /\ i \in Invoices \union {NoId}
      /\ \A j \in Invoices \ {i} : invoice'[j] = invoice[j] /\ received'[j] = received[j]
      /\ i # NoId => (t.invLoaded = invoice[i] => invoice'[i] = t.invAssigned)
    BY CommitEffect
<1>3. Approves(t) =>
         /\ i \in Invoices /\ invoice[i] = NoInvoice
         /\ invoice'[i] = t.invAssigned /\ t.invAssigned.cert = c
    BY <1>1, <1>2 DEF TxnInv, Approves
<1>4. OnInvoice(t) => i # NoId /\ invoice[i].status # "absent" /\ invoice[i].cert = c
    BY <1>1 DEF TxnInv, OnInvoice, Settles, Records
<1>5. OnInvoice(t) => i \in Invoices /\ invoice'[i].cert = invoice[i].cert
    BY <1>2, <1>4, CommitKeeps
<1>6. i # NoId => Approves(t) \/ OnInvoice(t)
    BY <1>1 DEF Handles, Drafts, Deletes, Submits
<1>. HIDE DEF t, c, i
<1>7. Approves(t) => \A j \in Invoices \ {i} : invoice'[j].cert = invoice[j].cert
    BY <1>2
<1>8. ~Approves(t) => \A j \in Invoices : invoice'[j].cert = invoice[j].cert
    BY <1>2, <1>5, <1>6, Constants
<1>9. ASSUME NEW d \in Certs \ {c}, NEW j \in Invoices
      PROVE  /\ invoice'[j].cert = d <=> invoice[j].cert = d
             /\ invoice[j].cert = d =>
                   invoice'[j] = invoice[j] /\ received'[j] = received[j]
  <2>1. CASE j # i
    BY <1>2, <2>1
  <2>2. CASE j = i
    <3>1. Approves(t) \/ OnInvoice(t)
        BY <1>6, <2>2, Constants
    <3>2. d # NoId
        BY Constants
    <3>3. CASE Approves(t)
        BY <1>3, <2>2, <3>2, <3>3 DEF NoInvoice
    <3>4. CASE OnInvoice(t)
        BY <1>4, <1>5, <2>2, <3>4
    <3>. QED
        BY <3>1, <3>3, <3>4
  <2>. QED
    BY <2>1, <2>2
<1>. QED
    BY <1>3, <1>7, <1>8, <1>9 DEF t, c, i

\* A certificate whose commit did not race becomes what the handler made of the
\* row that is there, and its invoice likewise.
LEMMA CommitOwn ==
    ASSUME IInv, NEW r \in Requests, Commit(r), txn[r].cert \notin raced'
    PROVE  LET t == txn[r]
               c == t.cert
               i == t.inv
           IN  /\ c \notin raced
               /\ \/ Drafts(t) /\ cert[c] = NoCertificate /\ cert'[c] = t.assigned
                  \/ /\ cert[c].status = "draft"
                     /\ \/ cert'[c] = [cert[c] EXCEPT !.deleted = TRUE]
                        \/ cert'[c] = [cert[c] EXCEPT !.status = "submitted"]
                     /\ ~Approves(t) /\ i = NoId
                  \/ /\ Approves(t) /\ cert[c] = t.loaded /\ cert[c].status = "submitted"
                     /\ cert'[c] = [cert[c] EXCEPT !.status = "approved", !.invoice = i]
                     /\ t.invAssigned.total = cert[c].net
                  \/ /\ cert[c].status = "approved" /\ cert'[c] = [cert[c] EXCEPT !.status = "paid"]
                     /\ ~Approves(t)
                     /\ i \in Invoices /\ cert[c].invoice = i
                     /\ invoice'[i].status = "paid" /\ invoice'[i].balance = 0
                     /\ invoice'[i].total = invoice[i].total
                     /\ received'[i] >= cert[c].due
                  \/ /\ cert'[c] = cert[c]
                     /\ ~Approves(t)
                     /\ i \in Invoices /\ invoice[i].cert = c
                     /\ invoice[i].status # "paid"
                     /\ invoice'[i].total = invoice[i].total
<1>. DEFINE t == txn[r]
            c == t.cert
            i == t.inv
<1>1. t \in Txn /\ Handles(t) /\ TxnInv(r) /\ t # NoTxn /\ TypeOK
    BY CommitEffect DEF IInv
<1>2. /\ c \in Certs /\ i \in Invoices \union {NoId}
      /\ t.loaded \in Certificate /\ t.assigned \in Certificate
      /\ t.invLoaded \in InvoiceRow /\ t.invAssigned \in InvoiceRow /\ t.amount \in Nat
    BY <1>1 DEF Txn
<1>3. /\ c \notin raced
      /\ t.loaded # t.assigned => cert[c] = t.loaded /\ cert'[c] = t.assigned
      /\ i # NoId => invoice[i] = t.invLoaded /\ invoice'[i] = t.invAssigned
      /\ t.loaded = t.assigned => cert'[c] = cert[c]
    BY CommitFresh, CommitEffect
<1>4. i # NoId => received'[i] = received[i] + t.amount
    BY CommitEffect
<1>5. cert \in [Certs -> Certificate] /\ received \in [Invoices -> Nat]
    BY <1>1 DEF TypeOK
<1>. HIDE DEF t, c, i
<1>6. CASE Drafts(t)
  <2>1. t.loaded # t.assigned
    BY <1>6 DEF Drafts, NoCertificate
  <2>. QED
    BY <1>3, <1>6, <2>1 DEF Drafts, t, c
<1>7. CASE Deletes(t)
  <2>1. /\ t.assigned = [t.loaded EXCEPT !.deleted = TRUE]
        /\ t.loaded.status = "draft" /\ ~t.loaded.deleted /\ i = NoId
    BY <1>7 DEF Deletes, i
  <2>2. cert[c].status = "draft" /\ cert'[c] = [cert[c] EXCEPT !.deleted = TRUE]
    <3>1. t.loaded # t.assigned
        BY <1>2, <2>1 DEF Certificate
    <3>. QED
        BY <1>3, <2>1, <3>1
  <2>3. ~Approves(t)
    BY <2>1 DEF Approves
  <2>. QED
    BY <1>3, <2>1, <2>2, <2>3 DEF t, c, i
<1>8. CASE Submits(t)
  <2>1. t.assigned = [t.loaded EXCEPT !.status = "submitted"] /\ t.loaded.status = "draft"
          /\ i = NoId
    BY <1>8 DEF Submits, i
  <2>2. t.loaded # t.assigned /\ ~Approves(t)
    BY <1>2, <2>1 DEF Approves, Certificate
  <2>. QED
    BY <1>3, <2>1, <2>2 DEF t, c, i
<1>9. CASE Approves(t)
  <2>1. /\ t.assigned = [t.loaded EXCEPT !.status = "approved", !.invoice = i]
        /\ t.loaded.status = "submitted" /\ t.invAssigned.total = t.loaded.net
    BY <1>9 DEF Approves, i
  <2>2. t.loaded # t.assigned
    BY <1>2, <2>1 DEF Certificate
  <2>. QED
    BY <1>3, <1>9, <2>1, <2>2 DEF t, c, i
<1>10. CASE OnInvoice(t) /\ Settles(t)
  <2>1. /\ t.assigned = [t.loaded EXCEPT !.status = "paid"] /\ t.loaded.status = "approved"
        /\ i = t.loaded.invoice /\ i \in Invoices /\ i # NoId /\ t.amount = t.loaded.due
    BY <1>2, <1>10 DEF Settles, i
  <2>2. t.invAssigned = [t.invLoaded EXCEPT !.status = "paid", !.paid = t.loaded.due,
                                           !.balance = 0]
    BY <1>10 DEF Settles
  <2>3. /\ t.invAssigned.status = "paid" /\ t.invAssigned.balance = 0
        /\ t.invAssigned.total = t.invLoaded.total
    BY <1>2, <2>2 DEF InvoiceRow
  <2>4. t.loaded # t.assigned /\ ~Approves(t)
    BY <1>2, <2>1 DEF Approves, Certificate
  <2>5. cert[c].due \in Nat /\ received[i] \in Nat
    BY <1>2, <1>5, <2>1 DEF Certificate
  <2>6. received'[i] >= cert[c].due
    BY <1>3, <1>4, <2>1, <2>4, <2>5
  <2>. QED
    BY <1>3, <2>1, <2>3, <2>4, <2>6 DEF t, c, i
<1>11. CASE OnInvoice(t) /\ Records(t)
  <2>1. /\ t.assigned = t.loaded /\ i # NoId /\ i \in Invoices
        /\ t.invLoaded.status # "paid" /\ t.invLoaded.cert = c
        /\ t.invAssigned.total = t.invLoaded.total
    BY <1>2, <1>11 DEF Records, OnInvoice, i, c
  <2>2. ~Approves(t)
    BY <1>2, <2>1 DEF Approves, Certificate
  <2>. QED
    BY <1>3, <2>1, <2>2 DEF t, c, i
<1>. QED
    BY <1>1, <1>6, <1>7, <1>8, <1>9, <1>10, <1>11 DEF Handles, OnInvoice, t

LEMMA CommitRowInv ==
    ASSUME IInv, NEW r \in Requests, Commit(r)
    PROVE  RowInv'
<1>. DEFINE t == txn[r]
            c == t.cert
            i == t.inv
<1>1. TypeOK /\ t \in Txn /\ Handles(t) /\ TxnInv(r) /\ RowInv /\ t # NoTxn
    BY CommitEffect DEF IInv
<1>2. /\ c \in Certs /\ i \in Invoices \union {NoId}
      /\ t.loaded \in Certificate /\ t.assigned \in Certificate
    BY <1>1 DEF Txn
<1>3. /\ \A d \in Certs \ {c} : cert'[d] = cert[d]
      /\ cert'[c].status = Flushed(t.loaded.status, t.assigned.status, cert[c].status)
      /\ cert'[c].invoice = Flushed(t.loaded.invoice, t.assigned.invoice, cert[c].invoice)
      /\ t.loaded = t.assigned => cert'[c] = cert[c]
      /\ cert' \in [Certs -> Certificate] /\ invoice' \in [Invoices -> InvoiceRow]
    BY CommitEffect
<1>4. raced \subseteq raced' /\ (overlap => overlap')
  <2>1. raced \subseteq raced'
    BY CommitFresh
  <2>2. overlap' = (overlap \/ Overtaken(txn[r]))
    BY DEF Commit
  <2>. QED
    BY <2>1, <2>2
<1>5. \A d \in Certs : cert[d].invoice \in Invoices \union {NoId}
    BY <1>1 DEF TypeOK, Certificate
<1>6. ASSUME NEW d \in Certs PROVE Backed(d)'
  <2>1. Backed(d)
    BY <1>1 DEF RowInv
  <2>2. cert[d].invoice # NoId =>
           /\ invoice'[cert[d].invoice].status # "absent"
           /\ invoice'[cert[d].invoice].cert = d
    BY <1>5, <2>1, CommitKeeps DEF Backed
  <2>3. CASE d # c
    <3>1. cert'[d] = cert[d]
        BY <1>3, <2>3
    <3>. QED
        BY <2>1, <2>2, <3>1 DEF Backed
  <2>4. CASE d = c /\ t.loaded = t.assigned
    <3>1. cert'[d] = cert[d]
        BY <1>3, <2>4
    <3>. QED
        BY <2>1, <2>2, <3>1 DEF Backed
  <2>5. CASE d = c /\ Drafts(t)
    <3>1. cert'[d].status = "draft" /\ cert'[d].invoice = cert[d].invoice
        BY <1>3, <2>5 DEF Drafts, NoCertificate, Flushed
    <3>. QED
        BY <2>2, <3>1 DEF Backed
  <2>6. CASE d = c /\ Deletes(t)
    <3>1. t.loaded.status = t.assigned.status /\ t.loaded.invoice = t.assigned.invoice
        BY <1>2, <2>6 DEF Deletes, Certificate
    <3>2. cert'[d].status = cert[d].status /\ cert'[d].invoice = cert[d].invoice
        BY <1>3, <2>6, <3>1 DEF Flushed
    <3>3. cert[d].status # "absent"
        BY <1>1, <2>6 DEF TxnInv
    <3>. QED
        BY <2>1, <2>2, <3>2, <3>3 DEF Backed
  <2>7. CASE d = c /\ Submits(t)
    <3>1. /\ t.loaded.status = "draft" /\ t.assigned.status = "submitted"
          /\ t.loaded.invoice = t.assigned.invoice
        BY <1>2, <2>7 DEF Submits, Certificate
    <3>2. cert'[d].status = "submitted" /\ cert'[d].invoice = cert[d].invoice
        BY <1>3, <2>7, <3>1 DEF Flushed
    <3>. QED
        BY <2>2, <3>2 DEF Backed
  <2>8. CASE d = c /\ Approves(t)
    <3>1. /\ t.loaded.status = "submitted" /\ t.assigned.status = "approved"
          /\ t.assigned.invoice = i /\ t.loaded.invoice # i /\ i # NoId
        BY <1>2, <2>8 DEF Approves, Certificate
    <3>2. cert'[d].status = "approved" /\ cert'[d].invoice = i
        BY <1>3, <2>8, <3>1 DEF Flushed
    <3>3. invoice'[i] = t.invAssigned
        BY <2>8, CommitInvoice
    <3>4. t.invAssigned.status = "approved" /\ t.invAssigned.cert = c
        BY <2>8 DEF Approves
    <3>. QED
        BY <2>8, <3>1, <3>2, <3>3, <3>4 DEF Backed
  <2>9. CASE d = c /\ Settles(t)
    <3>1. /\ t.loaded.status = "approved" /\ t.assigned.status = "paid"
          /\ t.loaded.invoice = t.assigned.invoice
        BY <1>2, <2>9 DEF Settles, Certificate
    <3>2. cert'[d].status = "paid" /\ cert'[d].invoice = cert[d].invoice
        BY <1>3, <2>9, <3>1 DEF Flushed
    <3>3. cert[d].invoice # NoId
        BY <1>1, <2>9 DEF TxnInv
    <3>. QED
        BY <2>2, <3>2, <3>3 DEF Backed
  <2>. QED
    BY <1>1, <2>3, <2>4, <2>5, <2>6, <2>7, <2>8, <2>9 DEF Handles, OnInvoice, Records
<1>7. ASSUME NEW d \in Certs PROVE Adds(cert[d])'
  <2>1. Adds(cert[d])
    BY <1>1 DEF RowInv
  <2>2. CASE /\ cert'[d].prevQty = cert[d].prevQty /\ cert'[d].qty = cert[d].qty
             /\ cert'[d].total = cert[d].total
    BY <1>4, <2>1, <2>2 DEF Adds
  <2>3. CASE d = c /\ raced' = {}
    <3>1. c \notin raced' /\ cert[c] \in Certificate
        BY <1>1, <1>2, <2>3 DEF TypeOK
    <3>2. \/ Drafts(t) /\ cert'[c] = t.assigned
          \/ cert'[c] = [cert[c] EXCEPT !.deleted = TRUE]
          \/ cert'[c] = [cert[c] EXCEPT !.status = "submitted"]
          \/ cert'[c] = [cert[c] EXCEPT !.status = "approved", !.invoice = i]
          \/ cert'[c] = [cert[c] EXCEPT !.status = "paid"]
          \/ cert'[c] = cert[c]
        BY <3>1, CommitOwn
    <3>3. CASE Drafts(t) /\ cert'[c] = t.assigned
        BY <1>1, <1>4, <2>3, <3>3 DEF TxnInv, Adds
    <3>4. CASE ~(Drafts(t) /\ cert'[c] = t.assigned)
      <4>1. /\ cert'[c].prevQty = cert[c].prevQty /\ cert'[c].qty = cert[c].qty
            /\ cert'[c].total = cert[c].total
        <5>. HIDE DEF t, c, i
        <5>. QED
            BY <3>1, <3>2, <3>4 DEF Certificate
      <4>. QED
        BY <2>2, <2>3, <4>1
    <3>. QED
        BY <3>3, <3>4
  <2>4. CASE raced' # {}
    BY <2>4 DEF Adds
  <2>5. CASE d # c
    BY <1>3, <2>2, <2>5
  <2>. QED
    BY <2>3, <2>4, <2>5
<1>8. ASSUME NEW j \in Invoices PROVE Named(j)'
  <2>1. Named(j) /\ j # NoId
    BY <1>1, Constants DEF RowInv
  <2>2. CASE invoice[j].status # "absent"
    <3>1. invoice'[j].status # "absent" /\ invoice'[j].cert \in Certs
        BY <2>1, <2>2, CommitKeeps DEF Named
    <3>. QED
        BY <3>1 DEF Named
  <2>3. CASE invoice[j].status = "absent" /\ j # i
    <3>1. invoice'[j] = invoice[j]
        BY <2>3, CommitEffect
    <3>. QED
        BY <2>1, <3>1 DEF Named
  <2>4. CASE invoice[j].status = "absent" /\ j = i
    <3>1. Approves(t)
        BY <1>1, <2>1, <2>4 DEF Handles, TxnInv, Drafts, Deletes, Submits
    <3>2. invoice'[j] = t.invAssigned
        BY <2>4, <3>1, CommitInvoice
    <3>3. t.invAssigned.status = "approved" /\ t.invAssigned.cert = c
        BY <3>1 DEF Approves
    <3>. QED
        BY <1>2, <3>2, <3>3 DEF Named
  <2>. QED
    BY <2>2, <2>3, <2>4
<1>. QED
    BY <1>6, <1>7, <1>8 DEF RowInv

LEMMA CommitTxnInv ==
    ASSUME IInv, NEW r \in Requests, Commit(r), NEW q \in Requests
    PROVE  TxnInv(q)'
<1>1. txn' = [txn EXCEPT ![r] = NoTxn] /\ TypeOK /\ TxnInv(q)
    BY DEF Commit, IInv
<1>2. txn'[r] = NoTxn /\ \A p \in Requests \ {r} : txn'[p] = txn[p]
    BY <1>1 DEF TypeOK
<1>3. CASE q = r
    BY <1>2, <1>3 DEF TxnInv
<1>4. CASE q # r /\ txn[q] = NoTxn
    BY <1>2, <1>4 DEF TxnInv
<1>5. CASE q # r /\ txn[q] # NoTxn
  <2>. DEFINE u == txn[q]
  <2>1. txn'[q] = u /\ u \in Txn
    BY <1>1, <1>2, <1>5 DEF TypeOK
  <2>2. u.cert \in Certs /\ u.inv \in Invoices \union {NoId}
    BY <2>1 DEF Txn
  <2>3. Drafts(u) => Adds(u.assigned)'
    <3>1. raced \subseteq raced' /\ (overlap => overlap')
      <4>1. raced \subseteq raced'
        BY CommitFresh
      <4>2. overlap' = (overlap \/ Overtaken(txn[r]))
        BY DEF Commit
      <4>. QED
        BY <4>1, <4>2
    <3>2. Drafts(u) => Adds(u.assigned)
        BY <1>1, <1>5 DEF TxnInv
    <3>3. u.assigned' = u.assigned
        BY <1>2, <1>5
    <3>. QED
        BY <3>1, <3>2, <3>3 DEF Adds
  <2>4. Deletes(u) => cert'[u.cert].status # "absent"
    BY <1>1, <1>5, <2>2, CommitKeeps DEF TxnInv
  <2>5. Approves(u) =>
           /\ invoice'[u.inv] = NoInvoice
           /\ \A p \in Requests \ {q} : txn'[p] # NoTxn => txn'[p].inv # u.inv
    <3>1. SUFFICES ASSUME Approves(u)
                   PROVE  /\ invoice'[u.inv] = NoInvoice
                          /\ \A p \in Requests \ {q} : txn'[p] # NoTxn => txn'[p].inv # u.inv
        OBVIOUS
    <3>2. /\ invoice[u.inv] = NoInvoice
          /\ \A p \in Requests \ {q} : txn[p] # NoTxn => txn[p].inv # u.inv
        BY <1>1, <1>5, <3>1 DEF TxnInv
    <3>3. txn[r].inv # u.inv /\ u.inv \in Invoices
        BY <1>5, <2>2, <3>1, <3>2 DEF Commit, Approves
    <3>4. invoice'[u.inv] = invoice[u.inv]
        BY <3>3, CommitEffect
    <3>. QED
        BY <1>2, <3>2, <3>4
  <2>6. OnInvoice(u) => invoice'[u.inv].status # "absent" /\ invoice'[u.inv].cert = u.cert
    <3>1. OnInvoice(u) => u.inv # NoId
        BY DEF OnInvoice, Settles, Records
    <3>. QED
        BY <1>1, <1>5, <2>2, <3>1, CommitKeeps DEF TxnInv
  <2>7. Settles(u) => cert'[u.cert].invoice # NoId
    BY <1>1, <1>5, <2>2, CommitKeeps DEF TxnInv
  <2>8. Handles(u)
    BY <1>1, <1>5 DEF TxnInv
  <2>9. u.assigned = txn[q].assigned /\ txn'[q].assigned = txn[q].assigned
    BY <2>1
  <2>10. Drafts(u) => Adds(txn[q].assigned)'
    BY <2>3
  <2>11. Drafts(u) =>
            /\ raced' = {} => u.assigned.prevQty + u.assigned.qty <= Assigned
            /\ raced' = {} /\ ~overlap' =>
                  u.assigned.total = (u.assigned.prevQty + u.assigned.qty) * Rate
    BY <2>9, <2>10 DEF Adds
  <2>. HIDE DEF u
  <2>. QED
    BY <2>1, <2>4, <2>5, <2>6, <2>7, <2>8, <2>11 DEF TxnInv, Adds
<1>. QED
    BY <1>3, <1>4, <1>5

LEMMA CommitInvoiceBacks ==
    ASSUME IInv, NEW r \in Requests, Commit(r)
    PROVE  InvoiceBacks'
<1>. DEFINE t == txn[r]
            c == t.cert
            i == t.inv
            own(d) == {j \in Invoices : invoice[j].cert = d}
            after(d) == {j \in Invoices : invoice'[j].cert = d}
            Shown(d) == IF cert'[d].status \in {"approved", "paid"}
                        THEN after(d) = {cert'[d].invoice}
                             /\ invoice'[cert'[d].invoice].total = cert'[d].net
                        ELSE after(d) = {}
<1>1. SUFFICES ASSUME NEW d \in Certs, d \notin raced' PROVE Shown(d)
    BY DEF InvoiceBacks
<1>2. TypeOK /\ InvoiceBacks /\ d \notin raced
    BY <1>1, CommitFresh DEF IInv
<1>3. IF cert[d].status \in {"approved", "paid"}
      THEN own(d) = {cert[d].invoice} /\ invoice[cert[d].invoice].total = cert[d].net
      ELSE own(d) = {}
    BY <1>2 DEF InvoiceBacks
<1>4. cert[d] \in Certificate
    BY <1>2 DEF TypeOK
<1>5. CASE d # c
  <2>1. cert'[d] = cert[d] /\ \A j \in Invoices : invoice'[j].cert = d <=> invoice[j].cert = d
    BY <1>5, CommitEffect, CommitInvoice
  <2>2. after(d) = own(d)
    BY <2>1
  <2>3. \A j \in own(d) : invoice'[j] = invoice[j]
    BY <1>5, CommitInvoice
  <2>4. CASE cert[d].status \in {"approved", "paid"}
    <3>1. cert[d].invoice \in own(d)
        BY <1>3, <2>4
    <3>2. invoice'[cert[d].invoice] = invoice[cert[d].invoice]
        BY <2>3, <3>1
    <3>. HIDE DEF own, after
    <3>. QED
        BY <1>3, <2>1, <2>2, <2>4, <3>2
  <2>5. CASE cert[d].status \notin {"approved", "paid"}
    <3>. HIDE DEF own, after
    <3>. QED
        BY <1>3, <2>1, <2>2, <2>5
  <2>. QED
    BY <2>4, <2>5
<1>6. CASE d = c
  <2>1. c \notin raced'
    BY <1>1, <1>6
  <2>2. ~Approves(t) => after(d) = own(d)
    BY CommitInvoice
  <2>3. CASE Drafts(t) /\ cert[c] = NoCertificate /\ cert'[c] = t.assigned
    <3>1. own(d) = {} /\ cert'[d].status = "draft" /\ ~Approves(t)
        BY <1>3, <1>6, <2>3 DEF NoCertificate, Drafts, Approves
    <3>. HIDE DEF own, after
    <3>. QED
        BY <2>2, <3>1
  <2>4. CASE /\ cert[c].status = "draft"
             /\ \/ cert'[c] = [cert[c] EXCEPT !.deleted = TRUE]
                \/ cert'[c] = [cert[c] EXCEPT !.status = "submitted"]
             /\ ~Approves(t) /\ i = NoId
    <3>1. cert'[d].status \in {"draft", "submitted"}
        BY <1>4, <1>6, <2>4 DEF Certificate
    <3>2. own(d) = {}
        BY <1>3, <1>6, <2>4
    <3>. HIDE DEF own, after
    <3>. QED
        BY <2>2, <2>4, <3>1, <3>2
  <2>5. CASE /\ Approves(t) /\ cert[c] = t.loaded /\ cert[c].status = "submitted"
             /\ cert'[c] = [cert[c] EXCEPT !.status = "approved", !.invoice = i]
             /\ t.invAssigned.total = cert[c].net
    <3>1. /\ i \in Invoices /\ invoice[i] = NoInvoice
          /\ invoice'[i] = t.invAssigned /\ t.invAssigned.cert = c
          /\ \A j \in Invoices \ {i} : invoice'[j].cert = invoice[j].cert
        BY <2>5, CommitInvoice
    <3>2. own(d) = {}
        BY <1>3, <1>6, <2>5
    <3>3. after(d) = {i}
        BY <1>6, <3>1, <3>2
    <3>4. /\ cert'[d].status = "approved" /\ cert'[d].invoice = i
          /\ cert'[d].net = cert[d].net
        BY <1>4, <1>6, <2>5, <3>1 DEF Certificate
    <3>. HIDE DEF after
    <3>. QED
        BY <1>6, <2>5, <3>1, <3>3, <3>4
  <2>6. CASE /\ cert[c].status = "approved" /\ cert'[c] = [cert[c] EXCEPT !.status = "paid"]
             /\ ~Approves(t)
             /\ i \in Invoices /\ cert[c].invoice = i
             /\ invoice'[i].total = invoice[i].total
    <3>1. /\ cert'[d].status = "paid" /\ cert'[d].invoice = i
          /\ cert'[d].net = cert[d].net
        BY <1>4, <1>6, <2>6 DEF Certificate
    <3>2. own(d) = {i} /\ invoice[i].total = cert[d].net
        BY <1>3, <1>6, <2>6
    <3>. HIDE DEF after, own
    <3>. QED
        BY <2>2, <2>6, <3>1, <3>2
  <2>7. CASE /\ cert'[c] = cert[c]
             /\ ~Approves(t)
             /\ i \in Invoices /\ invoice[i].cert = c
             /\ invoice'[i].total = invoice[i].total
    <3>1. i \in own(d)
        BY <1>6, <2>7
    <3>2. cert[d].status \in {"approved", "paid"} /\ i = cert[d].invoice
        BY <1>3, <3>1
    <3>. HIDE DEF after, own
    <3>. QED
        BY <1>3, <1>6, <2>2, <2>7, <3>2
  <2>. QED
    BY <2>1, <2>3, <2>4, <2>5, <2>6, <2>7, CommitOwn, ZenonT(60)
<1>. QED
    BY <1>5, <1>6

LEMMA CommitPaidIsSettled ==
    ASSUME IInv, NEW r \in Requests, Commit(r)
    PROVE  PaidIsSettled'
<1>. DEFINE t == txn[r]
            c == t.cert
            i == t.inv
<1>1. SUFFICES ASSUME NEW d \in Certs, d \notin raced', cert'[d].status = "paid"
               PROVE  /\ invoice'[cert'[d].invoice].status = "paid"
                      /\ invoice'[cert'[d].invoice].balance = 0
                      /\ received'[cert'[d].invoice] >= cert'[d].due
    BY DEF PaidIsSettled
<1>2. TypeOK /\ InvoiceBacks /\ PaidIsSettled /\ d \notin raced
    BY <1>1, CommitFresh DEF IInv
<1>3. cert[d] \in Certificate
    BY <1>2 DEF TypeOK
<1>4. cert[d].status = "paid" =>
         /\ {j \in Invoices : invoice[j].cert = d} = {cert[d].invoice}
         /\ invoice[cert[d].invoice].status = "paid"
         /\ invoice[cert[d].invoice].balance = 0
         /\ received[cert[d].invoice] >= cert[d].due
    BY <1>2 DEF InvoiceBacks, PaidIsSettled
<1>5. CASE d # c
  <2>1. cert'[d] = cert[d]
    BY <1>5, CommitEffect
  <2>2. cert[d].invoice \in Invoices /\ invoice[cert[d].invoice].cert = d
    BY <1>1, <1>4, <2>1
  <2>3. /\ invoice'[cert[d].invoice] = invoice[cert[d].invoice]
        /\ received'[cert[d].invoice] = received[cert[d].invoice]
    BY <1>5, <2>2, CommitInvoice
  <2>. QED
    BY <1>1, <1>4, <2>1, <2>3
<1>6. CASE d = c
  <2>1. c \notin raced'
    BY <1>1, <1>6
  <2>2. CASE Drafts(t) /\ cert'[c] = t.assigned
    BY <1>1, <1>6, <2>2 DEF Drafts
  <2>3. CASE /\ cert[c].status = "draft"
             /\ \/ cert'[c] = [cert[c] EXCEPT !.deleted = TRUE]
                \/ cert'[c] = [cert[c] EXCEPT !.status = "submitted"]
    BY <1>1, <1>3, <1>6, <2>3 DEF Certificate
  <2>4. CASE cert'[c] = [cert[c] EXCEPT !.status = "approved", !.invoice = i]
    BY <1>1, <1>3, <1>6, <2>4 DEF Certificate
  <2>5. CASE /\ cert'[c] = [cert[c] EXCEPT !.status = "paid"]
             /\ cert[c].invoice = i
             /\ invoice'[i].status = "paid" /\ invoice'[i].balance = 0
             /\ received'[i] >= cert[c].due
    <3>1. cert'[d].invoice = i /\ cert'[d].due = cert[d].due
        BY <1>3, <1>6, <2>5 DEF Certificate
    <3>. QED
        BY <1>6, <2>5, <3>1
  <2>6. CASE /\ cert'[c] = cert[c]
             /\ i \in Invoices /\ invoice[i].cert = c
             /\ invoice[i].status # "paid"
    <3>1. i = cert[d].invoice
        BY <1>1, <1>4, <1>6, <2>6
    <3>. QED
        BY <1>1, <1>4, <1>6, <2>6, <3>1
  <2>. QED
    BY <2>1, <2>2, <2>3, <2>4, <2>5, <2>6, CommitOwn
<1>. QED
    BY <1>5, <1>6

\* Approving is the only commit that certifies anything: on top of what was
\* certified, as long as nothing raced and nothing overlapped.
LEMMA CommitCertified ==
    ASSUME IInv, NEW r \in Requests, Commit(r), raced' = {}, ~overlap'
    PROVE  LET t == txn[r]
               c == t.cert
           IN  /\ PrevCertified' <= Assigned /\ PrevCert'.total = PrevCertified' * Rate
               /\ \/ PrevCertified' = PrevCertified /\ (Approves(t) => cert[c].deleted)
                  \/ /\ Approves(t) /\ cert[c] = t.loaded
                     /\ PrevCertified' = PrevCertified + cert[c].qty
<1>. DEFINE t == txn[r]
            c == t.cert
            qty == [d \in Certs |-> cert[d].qty]
            newQty == [d \in Certs |-> cert'[d].qty]
<1>1. TypeOK /\ TypeOK' /\ c \in Certs /\ c \notin raced' /\ raced = {} /\ ~overlap /\ ~Overtaken(t)
  <2>1. TypeOK /\ c \in Certs /\ c \notin raced'
    BY CommitEffect DEF IInv
  <2>2. raced = {} /\ ~overlap /\ ~Overtaken(t)
    BY CommitFresh DEF Commit
  <2>3. TypeOK'
    <3>1. cert' \in [Certs -> Certificate] /\ invoice' \in [Invoices -> InvoiceRow]
          /\ received' \in [Invoices -> Nat]
        BY CommitEffect
    <3>2. claimed' \in Nat /\ confirmed' \in Nat /\ txn' \in [Requests -> Txn \union {NoTxn}]
        BY <2>1 DEF TypeOK, Commit
    <3>3. raced' \subseteq Certs /\ overlap' \in BOOLEAN
        BY <2>1 DEF TypeOK, Commit
    <3>. QED
        BY <3>1, <3>2, <3>3 DEF TypeOK
  <2>. QED
    BY <2>1, <2>2, <2>3
<1>2. /\ cert \in [Certs -> Certificate] /\ cert' \in [Certs -> Certificate]
      /\ \A d \in Certs \ {c} : cert'[d] = cert[d]
    BY <1>1, CommitEffect DEF TypeOK
<1>3. PrevCertified \in Nat /\ IsFiniteSet(CertifiedCerts) /\ CertifiedCerts \subseteq Certs
    BY <1>1, PrevCertifiedType DEF CertifiedCerts
<1>4. PrevCertified <= Assigned /\ PrevCert.total = PrevCertified * Rate
    BY <1>1 DEF IInv, CertifiedOnce, TotalsTrack
<1>5. \A d \in CertifiedCerts : qty[d] \in Nat
    BY <1>2, <1>3 DEF Certificate
<1>6. \/ /\ ~Approves(t) \/ cert[c].deleted
         /\ cert'[c].qty = cert[c].qty /\ cert'[c].total = cert[c].total
         /\ c \in CertifiedCerts' <=> c \in CertifiedCerts
      \/ ~Approves(t) /\ c \notin CertifiedCerts /\ c \notin CertifiedCerts'
      \/ /\ Approves(t) /\ cert[c] = t.loaded
         /\ c \notin CertifiedCerts /\ c \in CertifiedCerts'
         /\ cert'[c].qty = cert[c].qty /\ cert'[c].total = cert[c].total
  <2>. HIDE DEF t, c
  <2>1. cert[c] \in Certificate
    BY <1>1, <1>2
  <2>2. CASE Drafts(t) /\ cert[c] = NoCertificate /\ cert'[c] = t.assigned
    <3>1. c \notin CertifiedCerts /\ c \notin CertifiedCerts'
        BY <2>2 DEF CertifiedCerts, Drafts, NoCertificate
    <3>2. ~Approves(t)
        BY <2>2 DEF Drafts, Approves, NoCertificate
    <3>. QED
        BY <3>1, <3>2
  <2>3. CASE /\ cert[c].status = "draft"
             /\ \/ cert'[c] = [cert[c] EXCEPT !.deleted = TRUE]
                \/ cert'[c] = [cert[c] EXCEPT !.status = "submitted"]
             /\ ~Approves(t)
    <3>1. /\ cert'[c].qty = cert[c].qty /\ cert'[c].total = cert[c].total
          /\ cert'[c].status \notin {"approved", "paid"}
        BY <2>1, <2>3 DEF Certificate
    <3>. QED
        BY <2>3, <3>1 DEF CertifiedCerts
  <2>4. CASE /\ Approves(t) /\ cert[c] = t.loaded /\ cert[c].status = "submitted"
             /\ cert'[c] = [cert[c] EXCEPT !.status = "approved", !.invoice = t.inv]
    <3>1. /\ cert'[c].qty = cert[c].qty /\ cert'[c].total = cert[c].total
          /\ cert'[c].status = "approved" /\ cert'[c].deleted = cert[c].deleted
        BY <2>1, <2>4 DEF Certificate
    <3>. QED
        BY <1>1, <2>4, <3>1 DEF CertifiedCerts, Exists
  <2>5. CASE /\ cert[c].status = "approved" /\ cert'[c] = [cert[c] EXCEPT !.status = "paid"]
             /\ ~Approves(t)
    <3>1. /\ cert'[c].qty = cert[c].qty /\ cert'[c].total = cert[c].total
          /\ cert'[c].status = "paid" /\ cert'[c].deleted = cert[c].deleted
        BY <2>1, <2>5 DEF Certificate
    <3>. QED
        BY <2>5, <3>1 DEF CertifiedCerts, Exists
  <2>6. CASE cert'[c] = cert[c] /\ ~Approves(t)
    BY <2>6 DEF CertifiedCerts, Exists
  <2>7. \/ Drafts(t) /\ cert[c] = NoCertificate /\ cert'[c] = t.assigned
        \/ /\ cert[c].status = "draft"
           /\ \/ cert'[c] = [cert[c] EXCEPT !.deleted = TRUE]
              \/ cert'[c] = [cert[c] EXCEPT !.status = "submitted"]
           /\ ~Approves(t)
        \/ /\ Approves(t) /\ cert[c] = t.loaded /\ cert[c].status = "submitted"
           /\ cert'[c] = [cert[c] EXCEPT !.status = "approved", !.invoice = t.inv]
        \/ /\ cert[c].status = "approved" /\ cert'[c] = [cert[c] EXCEPT !.status = "paid"]
           /\ ~Approves(t)
        \/ cert'[c] = cert[c] /\ ~Approves(t)
    BY <1>1, CommitOwn DEF t, c
  <2>. QED
    BY <2>2, <2>3, <2>4, <2>5, <2>6, <2>7
<1>7. \A d \in Certs \ {c} : d \in CertifiedCerts' <=> d \in CertifiedCerts
    BY <1>2 DEF CertifiedCerts, Exists
<1>8. PrevCertified = SumFunctionOnSet(qty, CertifiedCerts)
      /\ PrevCertified' = SumFunctionOnSet(newQty, CertifiedCerts')
    BY DEF PrevCertified
<1>9. \A d \in Certs \ {c} : newQty[d] = qty[d]
    BY <1>2
<1>10. CertifiedCerts' \subseteq Certs
    BY DEF CertifiedCerts
<1>11. ASSUME NEW d \in Certs PROVE newQty[d] = cert'[d].qty /\ qty[d] = cert[d].qty
    OBVIOUS
<1>12. CASE /\ CertifiedCerts' = CertifiedCerts /\ (Approves(t) => cert[c].deleted)
            /\ c \in CertifiedCerts =>
                  cert'[c].qty = cert[c].qty /\ cert'[c].total = cert[c].total
  <2>1. \A d \in CertifiedCerts : newQty[d] = qty[d] /\ cert'[d].total = cert[d].total
    <3>. HIDE DEF t, c, qty, newQty
    <3>. QED
        BY <1>1, <1>2, <1>3, <1>9, <1>11, <1>12
  <2>. HIDE DEF qty, newQty
  <2>2. PrevCertified' = PrevCertified
    BY <1>3, <1>8, <1>12, <2>1, SumSame
  <2>3. PrevCert'.total = PrevCert.total
    <3>1. CASE CertifiedCerts = {}
        BY <1>12, <3>1 DEF PrevCert
    <3>2. CASE CertifiedCerts # {}
      <4>1. Max(CertifiedCerts) \in CertifiedCerts /\ PrevCert = cert[Max(CertifiedCerts)]
        BY <1>1, <3>2, LatestCertified
      <4>2. PrevCert' = cert'[Max(CertifiedCerts)]
        BY <1>12, <3>2 DEF PrevCert
      <4>. QED
        BY <2>1, <4>1, <4>2
    <3>. QED
        BY <3>1, <3>2
  <2>. QED
    BY <1>4, <1>12, <2>2, <2>3
<1>13. CASE /\ Approves(t) /\ cert[c] = t.loaded
            /\ c \notin CertifiedCerts /\ c \in CertifiedCerts'
            /\ cert'[c].qty = cert[c].qty /\ cert'[c].total = cert[c].total
  <2>1. t.loaded.status # "approved" /\ t.assigned.status = "approved"
    <3>1. t.loaded \in Certificate
        BY <1>1, CommitEffect DEF Txn
    <3>. QED
        BY <1>13, <3>1 DEF Approves, Certificate
  <2>2. cert[c].prevQty = PrevCertified /\ \A d \in CertifiedCerts : ~(d > c)
    BY <1>1, <1>13, <2>1 DEF Overtaken
  <2>3. Adds(cert[c]) /\ cert[c] \in Certificate
    BY <1>1, <1>2 DEF IInv, RowInv
  <2>4. cert[c].qty \in Nat /\ cert[c].prevQty \in Nat
    BY <2>3 DEF Certificate
  <2>5. CertifiedCerts' = CertifiedCerts \union {c}
    <3>. HIDE DEF t, c
    <3>. QED
        BY <1>1, <1>3, <1>7, <1>10, <1>13
  <2>6. PrevCertified' = cert[c].qty + PrevCertified
    <3>1. newQty[c] = cert[c].qty /\ \A d \in CertifiedCerts : newQty[d] = qty[d]
            /\ newQty[d] \in Int
        BY <1>1, <1>3, <1>5, <1>9, <1>11, <1>13
    <3>2. newQty[c] \in Int
        BY <2>4, <3>1
    <3>. HIDE DEF t, c, qty, newQty
    <3>3. SumFunctionOnSet(newQty, CertifiedCerts \union {c})
            = newQty[c] + SumFunctionOnSet(newQty, CertifiedCerts)
        BY <1>3, <1>13, <3>1, <3>2, SumAdd
    <3>4. SumFunctionOnSet(newQty, CertifiedCerts) = SumFunctionOnSet(qty, CertifiedCerts)
        BY <1>3, <3>1, SumSame
    <3>. QED
        BY <1>8, <2>5, <3>1, <3>3, <3>4
  <2>7. PrevCert' = cert'[c]
    <3>1. CertifiedCerts' # {}
        BY <2>5
    <3>2. /\ Max(CertifiedCerts') \in CertifiedCerts'
          /\ \A d \in CertifiedCerts' : Max(CertifiedCerts') >= d
      <4>1. IsFiniteSet(CertifiedCerts')
        BY <1>10, Constants, FS_Subset
      <4>2. CertifiedCerts' \subseteq Int
        BY <1>10, Constants
      <4>. QED
        BY <3>1, <4>1, <4>2, MaxIsLargest
    <3>3. Max(CertifiedCerts') = c
      <4>1. Max(CertifiedCerts') \in Nat /\ c \in Nat
        BY <1>1, <1>10, <3>2, Constants
      <4>2. Max(CertifiedCerts') >= c
        BY <2>5, <3>2
      <4>3. Max(CertifiedCerts') = c \/ ~(Max(CertifiedCerts') > c)
        BY <2>2, <2>5, <3>2
      <4>. HIDE DEF t, c
      <4>. QED
        BY <4>1, <4>2, <4>3
    <3>. QED
        BY <3>1, <3>3 DEF PrevCert
  <2>8. /\ cert[c].prevQty + cert[c].qty <= Assigned
        /\ cert[c].total = (cert[c].prevQty + cert[c].qty) * Rate
    BY <1>1, <2>3 DEF Adds
  <2>9. PrevCertified' = cert[c].prevQty + cert[c].qty
    <3>. HIDE DEF t, c
    <3>. QED
        BY <1>3, <2>2, <2>4, <2>6
  <2>. QED
    <3>1. PrevCertified' = PrevCertified + cert[c].qty
        BY <1>3, <2>4, <2>6
    <3>. QED
        BY <1>13, <2>7, <2>8, <2>9, <3>1
<1>14. \/ c \in CertifiedCerts' <=> c \in CertifiedCerts
       \/ c \notin CertifiedCerts /\ c \in CertifiedCerts'
    BY <1>6
<1>15. (c \in CertifiedCerts' <=> c \in CertifiedCerts) => CertifiedCerts' = CertifiedCerts
    BY <1>3, <1>7, <1>10
<1>. HIDE DEF t, c
<1>. QED
    BY <1>6, <1>12, <1>13, <1>15

LEMMA CommitIInv ==
    ASSUME IInv, NEW r \in Requests, Commit(r)
    PROVE  IInv'
<1>1. TypeOK'
  <2>1. cert' \in [Certs -> Certificate] /\ invoice' \in [Invoices -> InvoiceRow]
        /\ received' \in [Invoices -> Nat] /\ txn[r].cert \in Certs
    BY CommitEffect
  <2>2. claimed' \in Nat /\ confirmed' \in Nat /\ txn' \in [Requests -> Txn \union {NoTxn}]
    BY DEF IInv, TypeOK, Commit
  <2>3. raced' \subseteq Certs /\ overlap' \in BOOLEAN
    BY <2>1 DEF IInv, TypeOK, Commit
  <2>. QED
    BY <2>1, <2>2, <2>3 DEF TypeOK
<1>2. (claimed + confirmed <= Assigned)'
    BY DEF IInv, Commit
<1>3. CertifiedOnce' /\ TotalsTrack'
    BY CommitCertified DEF CertifiedOnce, TotalsTrack
<1>. QED
    BY <1>1, <1>2, <1>3, CommitRowInv, CommitTxnInv, CommitInvoiceBacks,
       CommitPaidIsSettled DEF IInv

\* A request that is dropped, and a step that changes nothing.
LEMMA DropIInv ==
    ASSUME IInv, UNCHANGED <<claimed, confirmed, cert, invoice, received, raced, overlap>>,
           \/ txn' = txn
           \/ \E r \in Requests : txn' = [txn EXCEPT ![r] = NoTxn]
    PROVE  IInv'
<1>1. TypeOK'
    BY DEF IInv, TypeOK
<1>2. \A q \in Requests : txn'[q] = txn[q] \/ txn'[q] = NoTxn
    BY DEF IInv, TypeOK
<1>3. CertifiedCerts' = CertifiedCerts
    BY DEF CertifiedCerts, Exists
<1>4. PrevCertified' = PrevCertified /\ PrevCert' = PrevCert
    BY <1>3 DEF PrevCertified, PrevCert
<1>5. CertifiedOnce' /\ TotalsTrack'
    BY <1>4 DEF IInv, CertifiedOnce, TotalsTrack
<1>6. InvoiceBacks' /\ PaidIsSettled' /\ (claimed + confirmed <= Assigned)'
    BY DEF IInv, InvoiceBacks, PaidIsSettled
<1>7. RowInv'
    BY DEF IInv, RowInv, Backed, Adds, Named
<1>8. ASSUME NEW q \in Requests PROVE TxnInv(q)'
  <2>1. TxnInv(q)
    BY DEF IInv
  <2>2. CASE txn'[q] = NoTxn
    BY <2>2 DEF TxnInv
  <2>3. CASE txn'[q] = txn[q] /\ txn[q] # NoTxn
    <3>1. Approves(txn[q]) =>
             \A p \in Requests \ {q} : txn'[p] # NoTxn => txn'[p].inv # txn[q].inv
        BY <1>2, <2>1, <2>3 DEF TxnInv
    <3>. QED
        BY <2>1, <2>3, <3>1 DEF TxnInv, Adds
  <2>. QED
    BY <1>2, <2>2, <2>3
<1>. QED
    BY <1>1, <1>5, <1>6, <1>7, <1>8 DEF IInv

LEMMA StepIInv ==
    ASSUME IInv, [Next]_vars
    PROVE  IInv'
<1>1. CASE Progress
    BY <1>1, ProgressIInv
<1>2. CASE \E r \in Requests, ded \in Deductions : CreateCertificate(r, ded)
    BY <1>2, CreateIInv
<1>3. CASE \E r \in Requests, c \in Certs : DeleteCertificate(r, c) \/ SubmitCertificate(r, c)
    BY <1>3, DeleteOrSubmitIInv
<1>4. CASE \E r \in Requests, c \in Certs : ApproveCertificate(r, c)
    BY <1>4, ApproveIInv
<1>5. CASE \E r \in Requests, c \in Certs : MarkPaid(r, c)
    BY <1>5, MarkPaidIInv
<1>6. CASE \E r \in Requests, c \in Certs : ReviseCertificate(r, c)
    BY <1>6, ReviseIInv
<1>7. CASE \E r \in Requests, i \in Invoices, a \in Amounts : RecordPayment(r, i, a)
    BY <1>7, RecordPaymentIInv
<1>8. CASE \E r \in Requests : Commit(r)
    BY <1>8, CommitIInv
<1>9. CASE \E r \in Requests : Rollback(r)
    BY <1>9, DropIInv DEF Rollback
<1>10. CASE UNCHANGED vars
    BY <1>10, DropIInv DEF vars
<1>. QED
    BY <1>1, <1>2, <1>3, <1>4, <1>5, <1>6, <1>7, <1>8, <1>9, <1>10 DEF Next

LEMMA Inductive == Spec => []IInv
<1>. QED
    BY InitIInv, StepIInv, PTL DEF Spec

-----------------------------------------------------------------------------
(* The theorems. *)

\* Type correctness: every row and every request in flight has its columns.
THEOREM TypeCorrect == Spec => []TypeOK
<1>1. IInv => TypeOK
    BY DEF IInv
<1>. QED
    BY <1>1, Inductive, PTL

\* What create_certificate certifies of the work done is certified once: the
\* approved and paid certificates stay within what is assigned, unless
\* certificates overtook each other or writes raced.
THEOREM NothingCertifiedTwice == Spec => []CertifiedOnce
<1>1. IInv => CertifiedOnce
    BY DEF IInv
<1>. QED
    BY <1>1, Inductive, PTL

\* The value create_certificate carries from certificate to certificate is that
\* of the quantities certified, summed over all of them.
THEOREM TotalsTrackQuantities == Spec => []TotalsTrack
<1>1. IInv => TotalsTrack
    BY DEF IInv
<1>. QED
    BY <1>1, Inductive, PTL

\* approve_certificate leaves every approved certificate with one invoice, of
\* the amount it asks for, and no other certificate has any.
THEOREM OneInvoiceEach == Spec => []InvoiceBacks
<1>1. IInv => InvoiceBacks
    BY DEF IInv
<1>. QED
    BY <1>1, Inductive, PTL

\* mark_paid settles the invoice, whatever record_payment has booked before.
THEOREM PaidCertificateIsSettled == Spec => []PaidIsSettled
<1>1. IInv => PaidIsSettled
    BY DEF IInv
<1>. QED
    BY <1>1, Inductive, PTL

\* A certificate that is approved changes in no step but that of mark_paid,
\* which changes its status alone, unless writes raced.
LEMMA StepStands ==
    ASSUME IInv, [Next]_vars, NEW c \in Certs, c \in CertifiedCerts, c \notin raced'
    PROVE  \/ cert'[c] = cert[c]
           \/ cert[c].status = "approved" /\ cert'[c] = [cert[c] EXCEPT !.status = "paid"]
<1>1. CASE \E r \in Requests : Commit(r)
  <2>1. PICK r \in Requests : Commit(r)
    BY <1>1
  <2>2. cert[c].status \in {"approved", "paid"}
    BY DEF CertifiedCerts
  <2>3. CASE txn[r].cert # c
    BY <2>1, <2>3, CommitEffect
  <2>4. CASE txn[r].cert = c
    <3>1. cert[c] # NoCertificate
        BY <2>2 DEF NoCertificate
    <3>2. cert[c].status # "draft" /\ cert[c].status # "submitted"
        BY <2>2
    <3>. QED
        BY <2>1, <2>4, <3>1, <3>2, CommitOwn
  <2>. QED
    BY <2>3, <2>4
<1>2. CASE ~ \E r \in Requests : Commit(r)
  <2>1. cert' = cert
    BY <1>2, ZenonT(60) DEF Next, Progress, Rollback, vars, Work, CreateCertificate, DeleteCertificate,
           SubmitCertificate, ApproveCertificate, MarkPaid, ReviseCertificate, RecordPayment
  <2>. QED
    BY <2>1
<1>. QED
    BY <1>1, <1>2

\* An approved certificate is not touched any more, except to be marked paid:
\* neither update_certificate nor delete_certificate accepts it.
THEOREM ApprovedCertificateStands == Spec => CertifiedStands
<1>1. IInv /\ [Next]_vars =>
        [\A c \in Certs :
            c \in CertifiedCerts /\ c \notin raced' =>
                \/ cert'[c] = cert[c]
                \/ cert[c].status = "approved"
                     /\ cert'[c] = [cert[c] EXCEPT !.status = "paid"]]_vars
    BY StepStands
<1>. QED
    BY <1>1, Inductive, PTL DEF Spec, CertifiedStands

-----------------------------------------------------------------------------
(* Billing: what is invoiced is covered by what is certified.               *)

\* A certificate asks for no more than the value of its quantity.
Covered(row) == row.net <= row.qty * Rate

\* The certificates are covered while nothing has raced; a new one is when its
\* request has worked it out, and one that is approved was not deleted when read.
TxnBill(r) ==
    txn[r] # NoTxn =>
        /\ Drafts(txn[r]) => Covered(txn[r].assigned)
        /\ Approves(txn[r]) => ~txn[r].loaded.deleted

BillInv ==
    /\ raced = {} => \A c \in Certs : Covered(cert[c])
    /\ \A r \in Requests : TxnBill(r)

LEMMA WorkBill ==
    ASSUME IInv, BillInv, NEW r \in Requests, NEW t, Work(r, t),
           Drafts(t) => Covered(t.assigned),
           Approves(t) => ~t.loaded.deleted
    PROVE  BillInv'
<1>1. txn'[r] = t /\ \A q \in Requests \ {r} : txn'[q] = txn[q]
    BY DEF Work, IInv, TypeOK
<1>2. UNCHANGED <<cert, raced>>
    BY DEF Work
<1>. QED
    BY <1>1, <1>2 DEF BillInv, TxnBill, Covered

\* What is retained and deducted makes a certificate smaller.
LEMMA CreateBill ==
    ASSUME IInv, BillInv, NEW r \in Requests, NEW ded \in Deductions, CreateCertificate(r, ded)
    PROVE  BillInv'
<1>. DEFINE qty == claimed + confirmed - PrevCertified
            value == qty * Rate
            net == value - ded - Retained(value)
            row == [status |-> "draft", deleted |-> FALSE, prevQty |-> PrevCertified,
                    qty |-> qty, total |-> PrevCert.total + value, net |-> net,
                    due |-> PrevCert.due + net, invoice |-> NoId]
            t == [Read(NextCert) EXCEPT !.assigned = row]
<1>1. qty > 0 /\ Work(r, t)
    BY DEF CreateCertificate
<1>2. t.assigned = row /\ row.net = net /\ row.qty = qty /\ row.status = "draft"
    BY DEF Read
<1>3. t.loaded = cert[NextCert]
    BY DEF Read
<1>4. net <= qty * Rate
  <2>1. qty \in Nat /\ value = qty * Rate
    BY <1>1, PrevCertifiedType DEF IInv, TypeOK
  <2>. HIDE DEF qty
  <2>2. value \in Nat /\ ded \in Nat
    BY <2>1, Constants
  <2>. HIDE DEF value
  <2>3. value * RetentionPct \in Nat
    BY <2>2, Constants
  <2>4. Retained(value) \in Nat
    BY <2>3 DEF Retained
  <2>. QED
    BY <2>1, <2>2, <2>4
<1>5. Approves(t) => t.assigned.status = "approved"
  <2>1. NextCert \in Certs
    BY DEF CreateCertificate
  <2>2. t.loaded \in Certificate
    BY <1>3, <2>1 DEF IInv, TypeOK
  <2>. HIDE DEF t
  <2>. QED
    BY <2>2 DEF Approves, Certificate
<1>. HIDE DEF t, row, net, qty
<1>6. Covered(t.assigned)
    BY <1>2, <1>4 DEF Covered
<1>. QED
    BY <1>1, <1>2, <1>5, <1>6, WorkBill

LEMMA ReviseBill ==
    ASSUME IInv, BillInv, NEW r \in Requests, NEW c \in Certs, ReviseCertificate(r, c)
    PROVE  BillInv'
<1>. DEFINE row == [cert[c] EXCEPT !.status = "draft", !.prevQty = @ + cert[c].qty, !.qty = 0,
                                   !.net = 0, !.due = 0, !.invoice = NoId]
            t == [Read(NextCert) EXCEPT !.assigned = row]
<1>1. NextCert \in Certs /\ Work(r, t) /\ cert[c] \in Certificate
    BY DEF ReviseCertificate, IInv, TypeOK
<1>2. t.assigned = row /\ t.loaded = cert[NextCert]
    BY DEF Read
<1>3. row.net = 0 /\ row.qty = 0 /\ row.status = "draft"
    BY <1>1 DEF Certificate
<1>4. t.loaded \in Certificate
    BY <1>1, <1>2 DEF IInv, TypeOK
<1>. HIDE DEF t, row
<1>5. ~Approves(t)
    BY <1>2, <1>3, <1>4 DEF Approves, Certificate
<1>6. Covered(t.assigned)
    BY <1>2, <1>3, Constants DEF Covered
<1>. QED
    BY <1>1, <1>5, <1>6, WorkBill

\* The other handlers make no new certificate, and find the one they approve.
LEMMA FoundBill ==
    ASSUME IInv, BillInv, NEW r \in Requests, NEW c \in Certs, Exists(c),
           NEW t, Work(r, t), t.loaded = cert[c]
    PROVE  BillInv'
<1>1. ~Drafts(t)
    BY DEF Drafts, NoCertificate, Exists
<1>2. ~t.loaded.deleted
    BY DEF Exists
<1>. QED
    BY <1>1, <1>2, WorkBill

LEMMA DeleteOrSubmitBill ==
    ASSUME IInv, BillInv, NEW r \in Requests, NEW c \in Certs,
           DeleteCertificate(r, c) \/ SubmitCertificate(r, c)
    PROVE  BillInv'
<1>. DEFINE u == Read(c)
            d == [u EXCEPT !.assigned.deleted = TRUE]
            s == [u EXCEPT !.assigned.status = "submitted"]
<1>1. u \in Txn /\ u.loaded = cert[c]
    BY ReadType DEF IInv
<1>2. Exists(c) /\ (Work(r, d) \/ Work(r, s))
    BY DEF DeleteCertificate, SubmitCertificate
<1>. HIDE DEF u
<1>3. d.loaded = cert[c] /\ s.loaded = cert[c]
    BY <1>1 DEF Txn
<1>. HIDE DEF d, s
<1>. QED
    BY <1>2, <1>3, FoundBill

LEMMA ApproveBill ==
    ASSUME IInv, BillInv, NEW r \in Requests, NEW c \in Certs, ApproveCertificate(r, c)
    PROVE  BillInv'
<1>. DEFINE u == Read(c)
            i == NextInvoice
            new == InvoiceFor(c)
            t == [u EXCEPT !.assigned.status = "approved", !.assigned.invoice = i,
                           !.inv = i, !.invAssigned = new]
<1>1. u \in Txn /\ u.loaded = cert[c]
    BY ReadType DEF IInv
<1>2. Exists(c) /\ Work(r, t)
    BY DEF ApproveCertificate
<1>. HIDE DEF u, i, new
<1>3. t.loaded = cert[c]
    BY <1>1 DEF Txn
<1>. HIDE DEF t
<1>. QED
    BY <1>2, <1>3, FoundBill

LEMMA MarkPaidBill ==
    ASSUME IInv, BillInv, NEW r \in Requests, NEW c \in Certs, MarkPaid(r, c)
    PROVE  BillInv'
<1>. DEFINE u == Read(c)
            i == cert[c].invoice
            due == cert[c].due
            paid == [invoice[i] EXCEPT !.status = "paid", !.paid = due, !.balance = 0]
            t == [u EXCEPT !.assigned.status = "paid", !.inv = i, !.invLoaded = invoice[i],
                           !.invAssigned = paid, !.amount = due]
<1>1. u \in Txn /\ u.loaded = cert[c]
    BY ReadType DEF IInv
<1>2. Exists(c) /\ Work(r, t)
    BY DEF MarkPaid
<1>. HIDE DEF u, i, due, paid
<1>3. t.loaded = cert[c]
    BY <1>1 DEF Txn
<1>. HIDE DEF t
<1>. QED
    BY <1>2, <1>3, FoundBill

\* record_payment writes no certificate at all.
LEMMA RecordPaymentBill ==
    ASSUME IInv, BillInv, NEW r \in Requests, NEW i \in Invoices, NEW a \in Amounts,
           RecordPayment(r, i, a)
    PROVE  BillInv'
<1>. DEFINE row == invoice[i]
            balance == row.total - (row.paid + a)
            u == Read(row.cert)
            booked == [row EXCEPT !.paid = @ + a, !.balance = balance,
                         !.status = IF balance <= 0 THEN "paid" ELSE "partially_paid"]
            t == [u EXCEPT !.inv = i, !.invLoaded = row, !.amount = a, !.invAssigned = booked]
<1>1. row.cert \in Certs /\ Work(r, t)
    BY DEF RecordPayment, IInv, RowInv, Named
<1>2. u \in Txn /\ u.loaded = u.assigned
    BY <1>1, ReadType DEF IInv
<1>3. i # NoId
    BY Constants
<1>. HIDE DEF u, row, booked, balance
<1>4. t.loaded = t.assigned /\ t.inv = i
    BY <1>2 DEF Txn
<1>5. t.loaded \in Certificate
    BY <1>2 DEF Txn
<1>. HIDE DEF t
<1>6. ~Drafts(t) /\ ~Approves(t)
    BY <1>3, <1>4, <1>5 DEF Drafts, Approves, Certificate
<1>. QED
    BY <1>1, <1>6, WorkBill

\* The quantity and the net value of a certificate are written once.
LEMMA CommitBill ==
    ASSUME IInv, BillInv, NEW r \in Requests, Commit(r)
    PROVE  BillInv'
<1>. DEFINE t == txn[r]
            c == t.cert
<1>1. /\ t # NoTxn /\ c \in Certs /\ cert \in [Certs -> Certificate]
      /\ \A d \in Certs \ {c} : cert'[d] = cert[d]
    BY CommitEffect DEF IInv, TypeOK
<1>2. \A q \in Requests : txn'[q] # NoTxn => txn'[q] = txn[q]
    BY DEF Commit, IInv, TypeOK
<1>3. ASSUME raced' = {} PROVE raced = {} /\ Covered(cert'[c])
  <2>1. raced = {} /\ c \notin raced'
    BY <1>3, CommitFresh
  <2>2. Covered(cert[c]) /\ cert[c] \in Certificate /\ (Drafts(t) => Covered(t.assigned))
    BY <1>1, <2>1 DEF BillInv, TxnBill
  <2>. HIDE DEF t, c
  <2>3. \/ Drafts(t) /\ cert'[c] = t.assigned
        \/ cert'[c] = [cert[c] EXCEPT !.deleted = TRUE]
        \/ cert'[c] = [cert[c] EXCEPT !.status = "submitted"]
        \/ cert'[c] = [cert[c] EXCEPT !.status = "approved", !.invoice = t.inv]
        \/ cert'[c] = [cert[c] EXCEPT !.status = "paid"]
        \/ cert'[c] = cert[c]
    BY <2>1, CommitOwn DEF t, c
  <2>4. \/ Drafts(t) /\ cert'[c] = t.assigned
        \/ cert'[c].net = cert[c].net /\ cert'[c].qty = cert[c].qty
    BY <2>2, <2>3 DEF Certificate
  <2>. QED
    BY <2>1, <2>2, <2>4 DEF Covered
<1>. HIDE DEF t, c
<1>. QED
    BY <1>1, <1>2, <1>3 DEF BillInv, TxnBill, Covered

LEMMA StepBill ==
    ASSUME IInv, BillInv, [Next]_vars
    PROVE  BillInv'
<1>1. CASE Progress \/ UNCHANGED vars
    BY <1>1 DEF Progress, vars, BillInv, TxnBill, Covered
<1>2. CASE \E r \in Requests : Rollback(r)
  <2>1. UNCHANGED <<cert, raced>> /\ \A q \in Requests : txn'[q] # NoTxn => txn'[q] = txn[q]
    BY <1>2 DEF Rollback, IInv, TypeOK
  <2>. QED
    BY <2>1 DEF BillInv, TxnBill, Covered
<1>. QED
    BY <1>1, <1>2, CreateBill, ReviseBill, DeleteOrSubmitBill, ApproveBill, MarkPaidBill,
       RecordPaymentBill, CommitBill DEF Next

LEMMA InitBill ==
    ASSUME Init
    PROVE  BillInv /\ Bill!Init
<1>1. \A c \in Certs : cert[c] = NoCertificate
    BY DEF Init
<1>2. PrevCertified = 0
  <2>1. CertifiedCerts = {}
    BY <1>1 DEF CertifiedCerts, NoCertificate
  <2>. QED
    BY <2>1, SumEmpty DEF PrevCertified
<1>3. Invoiced = 0
  <2>1. \A i \in Invoices : [j \in Invoices |-> invoice[j].total][i] = 0
    BY DEF Init, NoInvoice
  <2>. QED
    BY <2>1, SumZero, Constants DEF Invoiced
<1>4. BillInv
    BY <1>1, Constants DEF Init, BillInv, TxnBill, Covered, NoCertificate
<1>. QED
    BY <1>2, <1>3, <1>4 DEF Init, Bill!Init

LEMMA CommitApproves ==
    ASSUME IInv, NEW r \in Requests, Commit(r), txn[r].cert \notin raced'
    PROVE  LET t == txn[r]
               c == t.cert
               i == t.inv
           IN  IF Approves(t)
               THEN cert[c] = t.loaded /\ t.invAssigned.total = cert[c].net
               ELSE i \in Invoices => invoice'[i].total = invoice[i].total
<1>. DEFINE t == txn[r]
            c == t.cert
            i == t.inv
<1>1. \/ Drafts(t)
      \/ cert[c].status = "draft" /\ ~Approves(t) /\ i = NoId
      \/ Approves(t) /\ cert[c] = t.loaded /\ t.invAssigned.total = cert[c].net
      \/ ~Approves(t) /\ invoice'[i].total = invoice[i].total
    BY CommitOwn, Zenon
<1>. HIDE DEF t, c, i
<1>2. Drafts(t) => ~Approves(t) /\ i = NoId
    BY DEF Drafts, Approves, NoCertificate, i
<1>3. i = NoId => i \notin Invoices
    BY Constants
<1>4. IF Approves(t)
      THEN cert[c] = t.loaded /\ t.invAssigned.total = cert[c].net
      ELSE i \in Invoices => invoice'[i].total = invoice[i].total
    BY <1>1, <1>2, <1>3
<1>. QED
    BY <1>4 DEF t, c, i

\* Only approve_certificate adds to what is invoiced, the net value of its
\* certificate.
LEMMA CommitInvoiced ==
    ASSUME IInv, NEW r \in Requests, Commit(r), raced' = {}
    PROVE  IF Approves(txn[r])
           THEN Invoiced' = Invoiced + cert[txn[r].cert].net
           ELSE Invoiced' = Invoiced
<1>. DEFINE t == txn[r]
            c == t.cert
            i == t.inv
            f == [j \in Invoices |-> invoice[j].total]
            g == [j \in Invoices |-> invoice'[j].total]
<1>1. /\ IsFiniteSet(Invoices)
      /\ \A j \in Invoices : f[j] \in Int /\ g[j] \in Int
      /\ \A j \in Invoices \ {i} : f[j] = g[j]
  <2>1. /\ invoice \in [Invoices -> InvoiceRow] /\ invoice' \in [Invoices -> InvoiceRow]
        /\ \A j \in Invoices \ {i} : invoice'[j] = invoice[j]
    BY CommitEffect DEF IInv, TypeOK
  <2>. QED
    BY <2>1, Constants DEF InvoiceRow
<1>2. Invoiced = SumFunctionOnSet(f, Invoices) /\ Invoiced' = SumFunctionOnSet(g, Invoices)
    BY DEF Invoiced
<1>3. c \notin raced'
    OBVIOUS
<1>4. CASE Approves(t)
  <2>1. i \in Invoices /\ invoice[i] = NoInvoice /\ invoice'[i] = t.invAssigned
    BY <1>4, CommitInvoice
  <2>2. t.invAssigned.total = cert[c].net
    BY <1>3, <1>4, CommitApproves
  <2>3. f[i] = 0 /\ g[i] = cert[c].net
    BY <2>1, <2>2 DEF NoInvoice
  <2>. HIDE DEF f, g, t, c, i
  <2>4. SumFunctionOnSet(g, Invoices) = SumFunctionOnSet(f, Invoices) + g[i] - f[i]
    BY <1>1, <2>1, SumChange
  <2>5. SumFunctionOnSet(f, Invoices) \in Int /\ g[i] \in Int
    BY <1>1, <2>1, SumType
  <2>6. SumFunctionOnSet(g, Invoices) = SumFunctionOnSet(f, Invoices) + cert[c].net
    BY <2>3, <2>4, <2>5
  <2>. QED
    BY <1>2, <1>4, <2>6 DEF t, c
<1>5. CASE ~Approves(t)
  <2>1. i \in Invoices => f[i] = g[i]
    BY <1>3, <1>5, CommitApproves
  <2>2. \A j \in Invoices : f[j] = g[j]
    BY <1>1, <2>1
  <2>. HIDE DEF f, g
  <2>3. SumFunctionOnSet(f, Invoices) = SumFunctionOnSet(g, Invoices)
    BY <1>1, <2>2, SumSame
  <2>. QED
    BY <1>2, <1>5, <2>3
<1>. QED
    BY <1>4, <1>5

LEMMA OnlyCommitWrites ==
    ASSUME [Next]_vars, ~ \E r \in Requests : Commit(r)
    PROVE  UNCHANGED <<cert, invoice, raced, overlap>>
<1>1. CASE Progress \/ UNCHANGED vars
    BY <1>1 DEF Progress, vars
<1>2. ASSUME NEW r \in Requests, NEW ded \in Deductions, CreateCertificate(r, ded)
      PROVE  UNCHANGED <<cert, invoice, raced, overlap>>
    BY <1>2 DEF CreateCertificate, Work
<1>3. ASSUME NEW r \in Requests, NEW c \in Certs,
             DeleteCertificate(r, c) \/ SubmitCertificate(r, c) \/ ApproveCertificate(r, c)
      PROVE  UNCHANGED <<cert, invoice, raced, overlap>>
    BY <1>3 DEF DeleteCertificate, SubmitCertificate, ApproveCertificate, Work
<1>4. ASSUME NEW r \in Requests, NEW c \in Certs, MarkPaid(r, c) \/ ReviseCertificate(r, c)
      PROVE  UNCHANGED <<cert, invoice, raced, overlap>>
    BY <1>4 DEF MarkPaid, ReviseCertificate, Work
<1>5. ASSUME NEW r \in Requests, NEW i \in Invoices, NEW a \in Amounts, RecordPayment(r, i, a)
      PROVE  UNCHANGED <<cert, invoice, raced, overlap>>
    BY <1>5 DEF RecordPayment, Work
<1>6. CASE \E r \in Requests : Rollback(r)
    BY <1>6 DEF Rollback
<1>. QED
    BY <1>1, <1>2, <1>3, <1>4, <1>5, <1>6, Zenon DEF Next

LEMMA StepBilling ==
    ASSUME IInv, BillInv, [Next]_vars
    PROVE  [Bill!Next]_(Bill!bvars)
<1>1. CASE overlap' \/ raced' # {}
    BY <1>1 DEF Bill!Next, Bill!Conflict
<1>2. CASE ~overlap' /\ raced' = {} /\ \E r \in Requests : Commit(r)
  <2>1. PICK r \in Requests : Commit(r)
    BY <1>2
  <2>. DEFINE t == txn[r]
              c == t.cert
  <2>2. ~overlap /\ raced = {}
    BY <1>2, <2>1, CommitFresh DEF Commit
  <2>3. /\ c \in Certs /\ cert[c] \in Certificate /\ c \notin raced'
        /\ t # NoTxn /\ TxnBill(r) /\ Covered(cert[c])
    BY <1>2, <2>1, <2>2, CommitEffect DEF IInv, TypeOK, BillInv
  <2>4. CASE Approves(t)
    <3>1. cert[c] = t.loaded
        BY <2>1, <2>3, <2>4, CommitApproves
    <3>2. PrevCertified' = PrevCertified + cert[c].qty /\ PrevCertified' <= Assigned
        BY <1>2, <2>1, <2>3, <2>4, <3>1, CommitCertified DEF TxnBill
    <3>3. Invoiced' = Invoiced + cert[c].net
        BY <1>2, <2>1, <2>4, CommitInvoiced
    <3>4. cert[c].qty \in 0..(Assigned - PrevCertified)
        BY <2>3, <3>2, PrevCertifiedType, Constants DEF IInv, Certificate
    <3>5. cert[c].net \in 0..(cert[c].qty * Rate)
      <4>1. cert[c].qty * Rate \in Nat /\ cert[c].net \in Nat
        BY <2>3, Constants DEF Certificate
      <4>. QED
        BY <2>3, <4>1 DEF Covered
    <3>6. (overlap \/ raced # {})' = (overlap \/ raced # {})
        BY <1>2, <2>2
    <3>. QED
        BY <3>2, <3>3, <3>4, <3>5, <3>6 DEF Bill!Next, Bill!Certify
  <2>5. CASE ~Approves(t)
    <3>1. PrevCertified' = PrevCertified
        BY <1>2, <2>1, <2>5, CommitCertified
    <3>2. Invoiced' = Invoiced
        BY <1>2, <2>1, <2>5, CommitInvoiced
    <3>. QED
        BY <1>2, <2>2, <3>1, <3>2 DEF Bill!bvars
  <2>. QED
    BY <2>4, <2>5
<1>3. CASE ~ \E r \in Requests : Commit(r)
  <2>1. UNCHANGED <<cert, invoice, raced, overlap>>
    BY <1>3, OnlyCommitWrites
  <2>. QED
    BY <2>1 DEF Bill!bvars, PrevCertified, CertifiedCerts, Exists, Invoiced
<1>. QED
    BY <1>1, <1>2, <1>3

\* Certificates, with the payments finance records, implement Billing: what is
\* invoiced is covered by what is certified with it, and that by what is assigned,
\* until certificates overtake each other or writes race.
THEOREM ImplementsBilling == Spec => KeepsBilling
<1>1. Init => Bill!Init /\ BillInv
    BY InitBill
<1>2. IInv /\ BillInv /\ [Next]_vars => BillInv'
    BY StepBill
<1>3. IInv /\ BillInv /\ [Next]_vars => [Bill!Next]_(Bill!bvars)
    BY StepBilling
<1>. QED
    BY <1>1, <1>2, <1>3, Inductive, PTL DEF Spec, KeepsBilling, Bill!Spec

\* The invariant of Billing, carried over to the rows.
BilledWithin ==
    ~overlap /\ raced = {} =>
        /\ Invoiced \in Nat
        /\ Invoiced <= PrevCertified * Rate
        /\ PrevCertified <= Assigned

LEMMA StepWithin ==
    ASSUME IInv, BilledWithin, [Next]_vars, [Bill!Next]_(Bill!bvars), CertifiedOnce'
    PROVE  BilledWithin'
<1>. SUFFICES ASSUME ~overlap', raced' = {} PROVE BilledWithin'
    BY DEF BilledWithin
<1>1. PrevCertified \in Nat /\ Rate \in Nat
    BY PrevCertifiedType, Constants DEF IInv
<1>2. PrevCertified' <= Assigned
    BY DEF CertifiedOnce
<1>3. CASE UNCHANGED Bill!bvars
    BY <1>3 DEF Bill!bvars, BilledWithin
<1>4. CASE Bill!Next
  <2>1. Bill!Certify /\ ~overlap /\ raced = {}
    BY <1>4 DEF Bill!Next, Bill!Conflict
  <2>2. PICK qty \in 0..(Assigned - PrevCertified) :
            /\ PrevCertified' = PrevCertified + qty
            /\ \E net \in 0..(qty * Rate) : Invoiced' = Invoiced + net
    BY <2>1 DEF Bill!Certify
  <2>3. PICK net \in 0..(qty * Rate) : Invoiced' = Invoiced + net
    BY <2>2
  <2>4. qty \in Nat /\ qty * Rate \in Nat /\ net \in Nat /\ net <= qty * Rate
    BY <1>1, <2>2, <2>3, Constants
  <2>5. (PrevCertified + qty) * Rate = PrevCertified * Rate + qty * Rate
    BY <1>1, <2>4
  <2>6. PrevCertified * Rate \in Nat /\ Invoiced \in Nat /\ Invoiced <= PrevCertified * Rate
    BY <1>1, <2>1 DEF BilledWithin
  <2>7. Invoiced' \in Nat /\ Invoiced' <= PrevCertified' * Rate
    BY <2>2, <2>3, <2>4, <2>5, <2>6
  <2>. QED
    BY <1>2, <2>7 DEF BilledWithin
<1>. QED
    BY <1>3, <1>4

\* All invoices approve_certificate has created for a contract never ask for more
\* than the contract is worth, unless certificates overtook each other or writes
\* raced.
THEOREM InvoicedWithinContract ==
    Spec => [](~overlap /\ raced = {} => Invoiced <= Assigned * Rate)
<1>1. Init => BilledWithin
  <2>1. SUFFICES ASSUME Init PROVE BilledWithin
    OBVIOUS
  <2>2. PrevCertified = 0 /\ Invoiced = 0
    BY <2>1, InitBill DEF Bill!Init
  <2>. QED
    BY <2>2, Constants DEF BilledWithin
<1>2. IInv /\ BilledWithin /\ [Next]_vars /\ [Bill!Next]_(Bill!bvars) /\ IInv' => BilledWithin'
    BY StepWithin DEF IInv
<1>3. IInv /\ BilledWithin => (~overlap /\ raced = {} => Invoiced <= Assigned * Rate)
  <2>1. SUFFICES ASSUME IInv, BilledWithin, ~overlap, raced = {}
                 PROVE  Invoiced <= Assigned * Rate
    OBVIOUS
  <2>2. /\ PrevCertified \in Nat /\ Rate \in Nat /\ Assigned \in Nat
        /\ PrevCertified <= Assigned /\ Invoiced \in Nat /\ Invoiced <= PrevCertified * Rate
    BY <2>1, PrevCertifiedType, Constants DEF IInv, BilledWithin
  <2>3. PrevCertified * Rate <= Assigned * Rate
    BY <2>2
  <2>4. PrevCertified * Rate \in Nat /\ Assigned * Rate \in Nat
    BY <2>2
  <2>. QED
    BY <2>2, <2>3, <2>4
<1>4. Spec => [][Bill!Next]_(Bill!bvars)
    BY ImplementsBilling, PTL DEF KeepsBilling, Bill!Spec
<1>. QED
    BY <1>1, <1>2, <1>3, <1>4, Inductive, PTL DEF Spec

-----------------------------------------------------------------------------
(* One request at a time: no commit ever meets a row it has not read.  That *)
(* certificates overtake each other needs no concurrency, so overlap stays. *)

OneClient == \A q, r \in Requests : q = r

\* What the request in flight has read is still so.
UpToDate(t) ==
    /\ t.loaded = cert[t.cert]
    /\ t.inv # NoId => t.invLoaded = invoice[t.inv]

AloneInv ==
    /\ \A r \in Requests : txn[r] # NoTxn => UpToDate(txn[r])
    /\ raced = {}

LEMMA AloneWork ==
    ASSUME OneClient, IInv, AloneInv, NEW r \in Requests, NEW t, Work(r, t), UpToDate(t)
    PROVE  AloneInv'
<1>1. txn'[r] = t /\ \A q \in Requests : q = r
    BY DEF Work, OneClient, IInv, TypeOK
<1>2. UNCHANGED <<cert, invoice, raced>>
    BY DEF Work
<1>. QED
    BY <1>1, <1>2 DEF AloneInv, UpToDate

\* A handler that works on a certificate alone.
LEMMA AloneCert ==
    ASSUME OneClient, IInv, AloneInv, NEW r \in Requests, NEW c \in Certs, NEW row,
           Work(r, [Read(c) EXCEPT !.assigned = row])
    PROVE  AloneInv'
<1>. DEFINE u == Read(c)
            t == [u EXCEPT !.assigned = row]
<1>1. u \in Txn /\ u.cert = c /\ u.loaded = cert[c] /\ u.inv = NoId
    BY ReadType DEF IInv
<1>2. Work(r, t)
    OBVIOUS
<1>. HIDE DEF u
<1>3. t.cert = c /\ t.loaded = cert[c] /\ t.inv = NoId
    BY <1>1 DEF Txn
<1>. HIDE DEF t
<1>4. UpToDate(t)
    BY <1>3 DEF UpToDate
<1>. QED
    BY <1>2, <1>4, AloneWork

LEMMA AloneCertStep ==
    ASSUME OneClient, IInv, AloneInv, NEW r \in Requests,
           \/ \E ded \in Deductions : CreateCertificate(r, ded)
           \/ \E c \in Certs : \/ DeleteCertificate(r, c)
                               \/ SubmitCertificate(r, c)
                               \/ ReviseCertificate(r, c)
    PROVE  AloneInv'
<1>1. CASE \E ded \in Deductions : CreateCertificate(r, ded)
  <2>1. NextCert \in Certs /\ \E row : Work(r, [Read(NextCert) EXCEPT !.assigned = row])
    BY <1>1 DEF CreateCertificate
  <2>. QED
    BY <2>1, AloneCert
<1>2. CASE \E c \in Certs : DeleteCertificate(r, c)
  <2>1. PICK c \in Certs : Work(r, [Read(c) EXCEPT !.assigned.deleted = TRUE])
    BY <1>2 DEF DeleteCertificate
  <2>2. [Read(c) EXCEPT !.assigned.deleted = TRUE]
            = [Read(c) EXCEPT !.assigned = [cert[c] EXCEPT !.deleted = TRUE]]
    BY DEF Read
  <2>. QED
    BY <2>1, <2>2, AloneCert
<1>3. CASE \E c \in Certs : SubmitCertificate(r, c)
  <2>1. PICK c \in Certs : Work(r, [Read(c) EXCEPT !.assigned.status = "submitted"])
    BY <1>3 DEF SubmitCertificate
  <2>2. [Read(c) EXCEPT !.assigned.status = "submitted"]
            = [Read(c) EXCEPT !.assigned = [cert[c] EXCEPT !.status = "submitted"]]
    BY DEF Read
  <2>. QED
    BY <2>1, <2>2, AloneCert
<1>4. CASE \E c \in Certs : ReviseCertificate(r, c)
  <2>1. NextCert \in Certs /\ \E row : Work(r, [Read(NextCert) EXCEPT !.assigned = row])
    BY <1>4 DEF ReviseCertificate
  <2>. QED
    BY <2>1, AloneCert
<1>. QED
    BY <1>1, <1>2, <1>3, <1>4

\* The new invoice of approve_certificate is nobody's yet.
LEMMA AloneApprove ==
    ASSUME OneClient, IInv, AloneInv, NEW r \in Requests, NEW c \in Certs,
           ApproveCertificate(r, c)
    PROVE  AloneInv'
<1>. DEFINE i == NextInvoice
            u == Read(c)
            new == InvoiceFor(c)
            t == [u EXCEPT !.assigned.status = "approved", !.assigned.invoice = i,
                           !.inv = i, !.invAssigned = new]
<1>1. Work(r, t) /\ i \in Invoices
    BY DEF ApproveCertificate
<1>2. invoice[i] = NoInvoice
    BY <1>1, NextIds DEF IInv, RowInv, Named
<1>3. u \in Txn /\ u.cert = c /\ u.loaded = cert[c] /\ u.invLoaded = NoInvoice
    BY ReadType DEF IInv
<1>. HIDE DEF i, u, new
<1>4. t.cert = c /\ t.loaded = cert[c] /\ t.inv = i /\ t.invLoaded = NoInvoice
    BY <1>3 DEF Txn
<1>. HIDE DEF t
<1>5. UpToDate(t)
    BY <1>2, <1>4 DEF UpToDate
<1>. QED
    BY <1>1, <1>5, AloneWork

LEMMA AloneMarkPaid ==
    ASSUME OneClient, IInv, AloneInv, NEW r \in Requests, NEW c \in Certs, MarkPaid(r, c)
    PROVE  AloneInv'
<1>. DEFINE i == cert[c].invoice
            due == cert[c].due
            row == invoice[i]
            paid == [row EXCEPT !.status = "paid", !.paid = due, !.balance = 0]
            u == Read(c)
            t == [u EXCEPT !.assigned.status = "paid", !.inv = i, !.invLoaded = row,
                           !.invAssigned = paid, !.amount = due]
<1>1. Work(r, t)
    BY DEF MarkPaid
<1>2. u \in Txn /\ u.cert = c /\ u.loaded = cert[c]
    BY ReadType DEF IInv
<1>. HIDE DEF i, u, due, row, paid
<1>3. t.cert = c /\ t.loaded = cert[c] /\ t.inv = i /\ t.invLoaded = row
    BY <1>2 DEF Txn
<1>. HIDE DEF t
<1>4. UpToDate(t)
    BY <1>3 DEF UpToDate, row
<1>. QED
    BY <1>1, <1>4, AloneWork

LEMMA AloneRecordPayment ==
    ASSUME OneClient, IInv, AloneInv, NEW r \in Requests, NEW i \in Invoices,
           NEW amount \in Amounts, RecordPayment(r, i, amount)
    PROVE  AloneInv'
<1>. DEFINE row == invoice[i]
            u == Read(row.cert)
<1>1. row.status \in {"approved", "partially_paid"}
      /\ \E booked : Work(r, [u EXCEPT !.inv = i, !.invLoaded = row, !.amount = amount,
                                       !.invAssigned = booked])
    BY DEF RecordPayment
<1>2. row.cert \in Certs
    BY <1>1 DEF IInv, RowInv, Named
<1>3. u \in Txn /\ u.cert = row.cert /\ u.loaded = cert[row.cert]
    BY <1>2, ReadType DEF IInv
<1>4. PICK booked : Work(r, [u EXCEPT !.inv = i, !.invLoaded = row, !.amount = amount,
                                      !.invAssigned = booked])
    BY <1>1
<1>. DEFINE t == [u EXCEPT !.inv = i, !.invLoaded = row, !.amount = amount,
                           !.invAssigned = booked]
<1>5. Work(r, t)
    BY <1>4
<1>. HIDE DEF u, row
<1>6. t.cert = row.cert /\ t.loaded = cert[row.cert] /\ t.inv = i /\ t.invLoaded = row
    BY <1>3 DEF Txn
<1>. HIDE DEF t
<1>7. UpToDate(t)
    BY <1>6 DEF UpToDate, row
<1>. QED
    BY <1>5, <1>7, AloneWork

LEMMA AloneStep ==
    ASSUME OneClient, IInv, AloneInv, [Next]_vars
    PROVE  AloneInv'
<1>1. ASSUME NEW r \in Requests, Commit(r)
      PROVE  AloneInv'
  <2>1. txn[r] # NoTxn /\ UpToDate(txn[r]) /\ raced = {}
    BY <1>1 DEF Commit, AloneInv
  <2>2. \A q \in Requests : txn'[q] = NoTxn
    BY <1>1 DEF Commit, OneClient, IInv, TypeOK
  <2>3. ~Stale(txn[r])
    BY <2>1 DEF UpToDate, Stale
  <2>. QED
    BY <1>1, <2>1, <2>2, <2>3 DEF Commit, AloneInv
<1>2. ASSUME NEW r \in Requests, Rollback(r)
      PROVE  AloneInv'
  <2>1. \A q \in Requests : txn'[q] = NoTxn
    BY <1>2 DEF Rollback, OneClient, IInv, TypeOK
  <2>. QED
    BY <1>2, <2>1 DEF Rollback, AloneInv
<1>3. CASE Progress \/ UNCHANGED vars
  <2>1. UNCHANGED <<cert, invoice, txn, raced>>
    BY <1>3 DEF Progress, vars
  <2>. QED
    BY <2>1 DEF AloneInv, UpToDate
<1>. QED
    BY <1>1, <1>2, <1>3, AloneCertStep, AloneApprove, AloneMarkPaid, AloneRecordPayment DEF Next

\* For a client that sends one request at a time every certificate that is
\* approved or paid has one invoice, of the amount it asks for, no other has any,
\* a paid one is settled, and an approved one is only ever marked paid, without
\* exception.
THEOREM AloneCertificatesStand ==
    ASSUME OneClient
    PROVE  Spec =>
              /\ [](\A c \in Certs :
                       LET own == {i \in Invoices : invoice[i].cert = c}
                           i == cert[c].invoice
                       IN  /\ cert[c].status \in {"approved", "paid"} =>
                                 own = {i} /\ invoice[i].total = cert[c].net
                           /\ cert[c].status \notin {"approved", "paid"} => own = {}
                           /\ cert[c].status = "paid" =>
                                 /\ invoice[i].status = "paid" /\ invoice[i].balance = 0
                                 /\ received[i] >= cert[c].due)
              /\ [][\A c \in CertifiedCerts :
                       \/ cert'[c] = cert[c]
                       \/ /\ cert[c].status = "approved"
                          /\ cert'[c] = [cert[c] EXCEPT !.status = "paid"]]_vars
<1>1. Init => AloneInv
    BY DEF Init, AloneInv
<1>2. IInv /\ AloneInv /\ [Next]_vars => AloneInv'
    BY AloneStep
<1>3. IInv /\ AloneInv =>
         \A c \in Certs :
            LET own == {i \in Invoices : invoice[i].cert = c}
                i == cert[c].invoice
            IN  /\ cert[c].status \in {"approved", "paid"} =>
                      own = {i} /\ invoice[i].total = cert[c].net
                /\ cert[c].status \notin {"approved", "paid"} => own = {}
                /\ cert[c].status = "paid" =>
                      /\ invoice[i].status = "paid" /\ invoice[i].balance = 0
                      /\ received[i] >= cert[c].due
    BY DEF IInv, AloneInv, InvoiceBacks, PaidIsSettled
<1>4. IInv /\ AloneInv' /\ [Next]_vars =>
         [\A c \in CertifiedCerts :
             \/ cert'[c] = cert[c]
             \/ /\ cert[c].status = "approved"
                /\ cert'[c] = [cert[c] EXCEPT !.status = "paid"]]_vars
    BY StepStands DEF AloneInv, CertifiedCerts
<1>. QED
    BY <1>1, <1>2, <1>3, <1>4, Inductive, PTL DEF Spec

================================================================================
