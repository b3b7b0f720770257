--------------------------- MODULE InvoicingProofs ---------------------------
(***************************************************************************)
(* Proofs about Invoicing, for any set of invoices, any number of requests *)
(* in flight and any amounts.                                              *)
(***************************************************************************)
EXTENDS Invoicing, TLAPS

(* What a request may be about to write, given the row it has loaded: one  *)
(* disjunct per handler.                                                   *)
Effect(t) ==
    \/ /\ t.loaded.status = "draft"
       /\ t.assigned = [t.loaded EXCEPT !.status = "submitted"]
       /\ t.amount = 0
    \/ /\ t.loaded.status = "submitted"
       /\ t.assigned = [t.loaded EXCEPT !.status = "approved", !.approvedBy = TRUE]
       /\ t.amount = 0
    \/ /\ t.loaded.status = "submitted"
       /\ t.assigned = [t.loaded EXCEPT !.status = "rejected"]
       /\ t.amount = 0
    \/ /\ t.loaded.status \in Payable
       /\ t.amount \in Amounts
       /\ t.amount <= t.loaded.balance
       /\ t.assigned = PaidRow(t.loaded, t.amount)

(* The figures of one row agree.                                           *)
RowBooks(row) ==
    /\ Whole(row.total)
    /\ row.balance = row.total - row.paid
    /\ row.paid >= 0
    /\ row.paid > 0 => row.paid <= row.total

(* A row that was loaded is an earlier version of the stored one, rows[t.inv]; *)
(* money is what the ledger holds and off the invoices that rounding changed.  *)
TxnInv(t, rows, money, off) ==
    /\ Effect(t)
    /\ RowBooks(t.loaded)
    /\ rows[t.inv].status # "absent"
    /\ t.loaded.total = rows[t.inv].total
    /\ t.inv \notin off => t.loaded.paid <= money[t.inv]
    /\ t.loaded.approvedBy => rows[t.inv].approvedBy
    /\ t.loaded.status \in Payable => t.loaded.approvedBy

AllTxnInv ==
    \A r \in Requests :
        txn[r] # NoTxn => TxnInv(txn[r], invoice, received, rounded)

InvoiceInv(i) ==
    /\ RowBooks(invoice[i])
    /\ i \notin rounded => invoice[i].paid <= received[i]
    /\ invoice[i].status = "absent" => invoice[i] = NoInvoice /\ received[i] = 0

IInv ==
    /\ TypeOK
    /\ \A i \in Invoices : InvoiceInv(i)
    /\ AllTxnInv
    /\ PaidMeansCollected
    /\ MoneyNeedsApproval
    /\ CleanInvoice

-----------------------------------------------------------------------------

\* round(x, 2) is a whole number of paisa and never passes one.
LEMMA RoundFacts ==
    ASSUME NEW x \in Int
    PROVE  /\ Round2(x) \in Int
           /\ Whole(Round2(x))
           /\ x >= 0 => Round2(x) >= 0
           /\ \A t \in Int : Whole(t) /\ x <= t => Round2(x) <= t
BY DEF Round2, Whole, Paisa

\* A payment that fits the balance of a sound row leaves a sound row, which is
\* PAID just when its whole total is booked.
LEMMA PaidRowFacts ==
    ASSUME NEW row \in InvoiceRow, RowBooks(row),
           NEW amount \in Nat, amount > 0, amount <= row.balance
    PROVE  LET new == PaidRow(row, amount)
           IN  /\ new \in InvoiceRow
               /\ RowBooks(new)
               /\ new.total = row.total
               /\ new.approvedBy = row.approvedBy
               /\ new.status \in {"paid", "partially_paid"}
               /\ new.status = "paid" <=> new.paid = new.total
<1> DEFINE n == Round2(row.paid + amount)
<1>1. /\ row.paid \in Int /\ row.total \in Int /\ row.balance \in Int
      /\ row.approvedBy \in BOOLEAN
  BY DEF InvoiceRow
<1>2. /\ n \in Int /\ n >= 0 /\ n <= row.total /\ Whole(row.total)
  <2>1. row.paid + amount \in Int /\ row.paid + amount >= 0
        /\ row.paid + amount <= row.total /\ Whole(row.total)
    BY <1>1 DEF RowBooks
  <2> QED BY <1>1, <2>1, RoundFacts
<1>3. PaidRow(row, amount) =
        [row EXCEPT !.paid = n, !.balance = row.total - n,
                    !.status = IF row.total - n <= 0 THEN "paid" ELSE "partially_paid"]
  BY DEF PaidRow
<1> HIDE DEF n
<1> DEFINE new == PaidRow(row, amount)
<1>4. /\ new.status = IF row.total - n <= 0 THEN "paid" ELSE "partially_paid"
      /\ new.approvedBy = row.approvedBy
      /\ new.total = row.total /\ new.paid = n /\ new.balance = row.total - n
  BY <1>3 DEF InvoiceRow
<1>5. new \in InvoiceRow
  <2> DEFINE st == IF row.total - n <= 0 THEN "paid" ELSE "partially_paid"
  <2>1. st \in Status
    BY DEF Status
  <2>2. new = [row EXCEPT !.paid = n, !.balance = row.total - n, !.status = st]
    BY <1>3
  <2> HIDE DEF st, new
  <2>3. new = [status |-> st, approvedBy |-> row.approvedBy, total |-> row.total,
               paid |-> n, balance |-> row.total - n]
    BY <2>2 DEF InvoiceRow
  <2>4. row.total - n \in Int
    BY <1>1, <1>2
  <2> QED BY <1>1, <1>2, <2>1, <2>3, <2>4 DEF InvoiceRow
<1>6. RowBooks(new)
  BY <1>1, <1>2, <1>4 DEF RowBooks
<1>7. /\ new.status \in {"paid", "partially_paid"}
      /\ new.status = "paid" <=> new.paid = new.total
  BY <1>1, <1>2, <1>4
<1> QED BY <1>4, <1>5, <1>6, <1>7

-----------------------------------------------------------------------------

\* Everything a request may assign is a row, of the same total, and it keeps
\* the approver.
LEMMA EffectFacts ==
    ASSUME NEW t \in Txn, Effect(t), RowBooks(t.loaded)
    PROVE  /\ t.assigned \in InvoiceRow
           /\ RowBooks(t.assigned)
           /\ t.assigned.total = t.loaded.total
           /\ t.assigned.status # "absent"
           /\ t.loaded.approvedBy => t.assigned.approvedBy
           /\ t.assigned.paid # t.loaded.paid =>
                 t.assigned.status \in {"paid", "partially_paid"}
<1>1. t.loaded \in InvoiceRow /\ t.assigned \in InvoiceRow /\ t.amount \in Nat
  BY DEF Txn
<1>2. CASE t.loaded.status \in Payable /\ t.amount \in Amounts
           /\ t.amount <= t.loaded.balance /\ t.assigned = PaidRow(t.loaded, t.amount)
  BY <1>1, <1>2, PaidRowFacts, AmountsAssumption
<1>3. CASE ~(t.loaded.status \in Payable /\ t.amount \in Amounts
           /\ t.amount <= t.loaded.balance /\ t.assigned = PaidRow(t.loaded, t.amount))
  BY <1>1, <1>3, ZenonT(60) DEF Effect, RowBooks, InvoiceRow
<1> QED BY <1>2, <1>3

\* The columns a commit leaves in the row.
LEMMA FlushFacts ==
    ASSUME NEW t \in Txn, Effect(t), RowBooks(t.loaded),
           NEW row \in InvoiceRow, RowBooks(row), row.status # "absent",
           row.total = t.loaded.total
    PROVE  LET new == Flush(t, row)
           IN  /\ new \in InvoiceRow
               /\ RowBooks(new)
               /\ new.total = row.total
               /\ new.status # "absent"
               /\ new.status \in {row.status, t.assigned.status}
               /\ new.paid \in {row.paid, t.assigned.paid}
               /\ row.approvedBy => (t.loaded.approvedBy => new.approvedBy)
               /\ row = t.loaded => new = t.assigned
<1>1. /\ t.loaded \in InvoiceRow /\ t.assigned \in InvoiceRow
      /\ RowBooks(t.assigned) /\ t.assigned.total = t.loaded.total
      /\ t.assigned.status # "absent"
      /\ t.loaded.approvedBy => t.assigned.approvedBy
  BY EffectFacts DEF Txn
<1>2. Flush(t, row).balance = row.total - Flush(t, row).paid
  BY <1>1 DEF Flush, Flushed, InvoiceRow, RowBooks
<1>3. /\ Flush(t, row) \in InvoiceRow
      /\ Flush(t, row).total = row.total
      /\ Flush(t, row).paid \in {row.paid, t.assigned.paid}
      /\ Flush(t, row).status \in {row.status, t.assigned.status}
  BY <1>1 DEF Flush, Flushed, InvoiceRow
<1>4. row.approvedBy => (t.loaded.approvedBy => Flush(t, row).approvedBy)
  BY <1>1 DEF Flush, Flushed, InvoiceRow
<1>5. row = t.loaded => Flush(t, row) = t.assigned
  BY <1>1 DEF Flush, Flushed, InvoiceRow
<1> QED BY <1>1, <1>2, <1>3, <1>4, <1>5 DEF RowBooks

-----------------------------------------------------------------------------

LEMMA InitIInv == Init => IInv
<1> SUFFICES ASSUME Init PROVE IInv
  OBVIOUS
<1>1. NoInvoice \in InvoiceRow
  BY DEF NoInvoice, InvoiceRow, Status
<1>2. TypeOK
  BY <1>1 DEF Init, TypeOK
<1>3. \A i \in Invoices : InvoiceInv(i)
  BY DEF Init, InvoiceInv, RowBooks, NoInvoice, Whole, Paisa
<1>4. AllTxnInv
  BY DEF Init, AllTxnInv
<1>5. PaidMeansCollected /\ MoneyNeedsApproval /\ CleanInvoice
  BY DEF Init, NoInvoice, PaidMeansCollected, MoneyNeedsApproval, CleanInvoice,
         StatusTells, Payable
<1> QED BY <1>2, <1>3, <1>4, <1>5 DEF IInv

\* A request that has only loaded and assigned disturbs nothing that is stored.
LEMMA WorkIInv ==
    ASSUME IInv, NEW r \in Requests, NEW i \in Invoices,
           NEW row \in InvoiceRow, NEW amount \in Nat,
           Work(r, i, row, amount), invoice[i].status # "absent",
           Effect([inv |-> i, loaded |-> invoice[i], assigned |-> row, amount |-> amount])
    PROVE  IInv'
<1> DEFINE t == [inv |-> i, loaded |-> invoice[i], assigned |-> row, amount |-> amount]
<1>1. /\ txn' = [txn EXCEPT ![r] = t]
      /\ invoice' = invoice /\ received' = received /\ lapsed' = lapsed
      /\ raced' = raced /\ rounded' = rounded
  BY DEF Work
<1>2. /\ invoice \in [Invoices -> InvoiceRow] /\ received \in [Invoices -> Nat]
      /\ txn \in [Requests -> Txn \union {NoTxn}]
  BY DEF IInv, TypeOK
<1>3. t \in Txn
  BY <1>2 DEF Txn
<1>4. TypeOK'
  BY <1>1, <1>2, <1>3 DEF IInv, TypeOK
<1>5. (\A j \in Invoices : InvoiceInv(j))'
  BY <1>1 DEF IInv, InvoiceInv
<1>6. TxnInv(t, invoice, received, rounded)
  <2>1. /\ t.inv = i /\ t.loaded = invoice[i] /\ Effect(t)
    OBVIOUS
  <2>2. RowBooks(invoice[i]) /\ (i \notin rounded => invoice[i].paid <= received[i])
    BY DEF IInv, InvoiceInv
  <2>3. invoice[i].status \in Payable => invoice[i].approvedBy
    BY DEF IInv, MoneyNeedsApproval
  <2> HIDE DEF t
  <2> QED BY <2>1, <2>2, <2>3 DEF TxnInv
<1>7. AllTxnInv'
  <2> SUFFICES ASSUME NEW q \in Requests, txn'[q] # NoTxn
               PROVE  TxnInv(txn'[q], invoice, received, rounded)
    BY <1>1 DEF AllTxnInv
  <2>1. CASE q = r
    BY <1>1, <1>2, <1>6, <2>1
  <2>2. CASE q # r
    BY <1>1, <1>2, <2>2 DEF IInv, AllTxnInv
  <2> QED BY <2>1, <2>2
<1>8. (PaidMeansCollected /\ MoneyNeedsApproval /\ CleanInvoice)'
  BY <1>1 DEF IInv, PaidMeansCollected, MoneyNeedsApproval, CleanInvoice, Clean
<1> QED BY <1>4, <1>5, <1>7, <1>8 DEF IInv

\* Creating an invoice: a row of its own, which no request can have loaded.
LEMMA CreateIInv ==
    ASSUME IInv, NEW i \in Invoices, CreateInvoice(i)
    PROVE  IInv'
<1>1. PICK t \in Totals : invoice' = [invoice EXCEPT ![i] = NewInvoice(t)]
  BY DEF CreateInvoice
<1> DEFINE row == NewInvoice(t)
<1>2. invoice' = [invoice EXCEPT ![i] = row]
  BY <1>1
<1>3. /\ invoice[i].status = "absent"
      /\ received' = received /\ lapsed' = lapsed /\ txn' = txn
      /\ raced' = raced /\ rounded' = rounded
  BY DEF CreateInvoice
<1>4. /\ invoice \in [Invoices -> InvoiceRow] /\ received \in [Invoices -> Nat]
      /\ txn \in [Requests -> Txn \union {NoTxn}]
  BY DEF IInv, TypeOK
<1>5. t \in Int /\ Whole(t)
  BY TotalsAssumption
<1>6. row \in InvoiceRow
  BY <1>5 DEF NewInvoice, InvoiceRow, Status
<1>7. RowBooks(row)
  BY <1>5 DEF NewInvoice, RowBooks
<1>8. /\ row.status = "draft" /\ row.paid = 0 /\ row.total = t
      /\ row.approvedBy = FALSE
  BY DEF NewInvoice
<1>9. received[i] = 0
  BY <1>3 DEF IInv, InvoiceInv
<1> HIDE DEF row
<1>10. TypeOK'
  BY <1>2, <1>3, <1>4, <1>6 DEF IInv, TypeOK
<1>11. (\A j \in Invoices : InvoiceInv(j))'
  BY <1>2, <1>3, <1>4, <1>7, <1>8, <1>9 DEF IInv, InvoiceInv
<1>12. AllTxnInv'
  <2> SUFFICES ASSUME NEW q \in Requests, txn[q] # NoTxn
               PROVE  TxnInv(txn[q], invoice', received, rounded)
    BY <1>3 DEF AllTxnInv
  <2>1. txn[q] \in Txn /\ TxnInv(txn[q], invoice, received, rounded)
    BY <1>4 DEF IInv, AllTxnInv
  <2>2. txn[q].inv # i
    BY <1>3, <2>1 DEF TxnInv
  <2>3. invoice'[txn[q].inv] = invoice[txn[q].inv]
    BY <1>2, <1>4, <2>1, <2>2 DEF Txn
  <2> QED BY <2>1, <2>3 DEF TxnInv
<1>13. PaidMeansCollected' /\ MoneyNeedsApproval' /\ CleanInvoice'
  BY <1>2, <1>3, <1>4, <1>8, <1>9
  DEF IInv, PaidMeansCollected, MoneyNeedsApproval, CleanInvoice, Clean,
      StatusTells, Payable
<1> QED BY <1>10, <1>11, <1>12, <1>13 DEF IInv

\* check_overdue changes a status, of rows that stay payable.
LEMMA CheckOverdueIInv ==
    ASSUME IInv, CheckOverdue
    PROVE  IInv'
<1>1. /\ invoice' = [i \in Invoices |->
             IF Overdue(i) THEN [invoice[i] EXCEPT !.status = "overdue"]
                           ELSE invoice[i]]
      /\ received' = received /\ lapsed' = lapsed /\ txn' = txn
      /\ raced' = raced /\ rounded' = rounded
  BY DEF CheckOverdue
<1>2. /\ invoice \in [Invoices -> InvoiceRow] /\ received \in [Invoices -> Nat]
      /\ txn \in [Requests -> Txn \union {NoTxn}]
  BY DEF IInv, TypeOK
<1>3. \A i \in Invoices :
         /\ invoice'[i] \in InvoiceRow
         /\ invoice'[i].total = invoice[i].total
         /\ invoice'[i].paid = invoice[i].paid
         /\ invoice'[i].balance = invoice[i].balance
         /\ invoice'[i].approvedBy = invoice[i].approvedBy
         /\ \/ invoice'[i] = invoice[i]
            \/ invoice[i].status = "approved" /\ invoice'[i].status = "overdue"
  BY <1>1, <1>2 DEF Overdue, InvoiceRow, Status
<1>4. TypeOK'
  <2>1. invoice' \in [Invoices -> InvoiceRow]
    BY <1>1, <1>3
  <2> QED BY <1>1, <2>1 DEF IInv, TypeOK
<1>5. (\A j \in Invoices : InvoiceInv(j))'
  BY <1>1, <1>3 DEF IInv, InvoiceInv, RowBooks
<1>6. AllTxnInv'
  <2> SUFFICES ASSUME NEW q \in Requests, txn[q] # NoTxn
               PROVE  TxnInv(txn[q], invoice', received, rounded)
    BY <1>1 DEF AllTxnInv
  <2>1. txn[q] \in Txn /\ TxnInv(txn[q], invoice, received, rounded)
    BY <1>2 DEF IInv, AllTxnInv
  <2>2. txn[q].inv \in Invoices
    BY <2>1 DEF Txn
  <2> QED BY <1>3, <2>1, <2>2 DEF TxnInv
<1>7. PaidMeansCollected' /\ MoneyNeedsApproval' /\ CleanInvoice'
  <2>1. PaidMeansCollected'
    BY <1>1, <1>3 DEF IInv, PaidMeansCollected
  <2>2. MoneyNeedsApproval'
    BY <1>1, <1>3, ZenonT(60) DEF IInv, MoneyNeedsApproval, Payable
  <2>3. CleanInvoice'
    <3> SUFFICES ASSUME NEW i \in Invoices, i \notin raced \union rounded
                 PROVE  StatusTells(invoice'[i], received[i])
      BY <1>1 DEF CleanInvoice, Clean
    <3>1. StatusTells(invoice[i], received[i])
      BY DEF IInv, CleanInvoice, Clean
    <3> QED BY <1>3, <3>1 DEF StatusTells
  <2> QED BY <2>1, <2>2, <2>3
<1> QED BY <1>4, <1>5, <1>6, <1>7 DEF IInv

LEMMA RollbackIInv ==
    ASSUME IInv, NEW r \in Requests, Rollback(r)
    PROVE  IInv'
<1>1. /\ txn' = [txn EXCEPT ![r] = NoTxn]
      /\ invoice' = invoice /\ received' = received /\ lapsed' = lapsed
      /\ raced' = raced /\ rounded' = rounded
  BY DEF Rollback
<1>2. TypeOK'
  BY <1>1 DEF IInv, TypeOK
<1>3. AllTxnInv'
  BY <1>1 DEF IInv, TypeOK, AllTxnInv
<1>4. (\A j \in Invoices : InvoiceInv(j))'
  BY <1>1 DEF IInv, InvoiceInv
<1>5. (PaidMeansCollected /\ MoneyNeedsApproval /\ CleanInvoice)'
  BY <1>1 DEF IInv, PaidMeansCollected, MoneyNeedsApproval, CleanInvoice, Clean
<1> QED BY <1>2, <1>3, <1>4, <1>5 DEF IInv

\* A commit, whatever was committed since the row was loaded.
LEMMA CommitIInv ==
    ASSUME IInv, NEW r \in Requests, Commit(r)
    PROVE  IInv'
<1> DEFINE t == txn[r]
           i == t.inv
           old == invoice[i]
           new == Flush(t, old)
<1>1. /\ t # NoTxn
      /\ invoice' = [invoice EXCEPT ![i] = new]
      /\ received' = [received EXCEPT ![i] = @ + t.amount]
      /\ txn' = [txn EXCEPT ![r] = NoTxn]
      /\ raced' = IF old = t.loaded THEN raced ELSE raced \union {i}
      /\ rounded' = IF t.assigned.paid = t.loaded.paid + t.amount
                    THEN rounded ELSE rounded \union {i}
      /\ lapsed' = lapsed
  BY DEF Commit
<1>2. /\ invoice \in [Invoices -> InvoiceRow] /\ received \in [Invoices -> Nat]
      /\ txn \in [Requests -> Txn \union {NoTxn}]
      /\ raced \subseteq Invoices /\ rounded \subseteq Invoices
  BY DEF IInv, TypeOK
<1>3. /\ t \in Txn /\ i \in Invoices /\ t.amount \in Nat
      /\ t.loaded \in InvoiceRow
  BY <1>1, <1>2 DEF Txn
<1>4. TxnInv(t, invoice, received, rounded)
  BY <1>1 DEF IInv, AllTxnInv
<1>5. old \in InvoiceRow /\ RowBooks(old) /\ old.status # "absent"
      /\ old.total = t.loaded.total
  BY <1>2, <1>3, <1>4 DEF IInv, InvoiceInv, TxnInv
<1>6. /\ t.assigned \in InvoiceRow /\ RowBooks(t.assigned)
      /\ t.assigned.total = t.loaded.total
      /\ t.loaded.approvedBy => t.assigned.approvedBy
  BY <1>3, <1>4, EffectFacts DEF TxnInv
<1>7. /\ new \in InvoiceRow /\ RowBooks(new) /\ new.total = old.total
      /\ new.status # "absent"
      /\ new.status \in {old.status, t.assigned.status}
      /\ new.paid \in {old.paid, t.assigned.paid}
      /\ old = t.loaded => new = t.assigned
  BY <1>3, <1>4, <1>5, FlushFacts DEF TxnInv
<1>8. old.approvedBy => new.approvedBy
  BY <1>3, <1>4, <1>6 DEF Flush, Flushed, TxnInv, InvoiceRow
<1>9. i \notin rounded' => /\ i \notin rounded
                          /\ t.assigned.paid = t.loaded.paid + t.amount
                          /\ t.assigned.paid <= received[i] + t.amount
  BY <1>1, <1>2, <1>3, <1>4 DEF TxnInv, InvoiceRow
<1>10. rounded \subseteq rounded' /\ raced \subseteq raced'
  BY <1>1
<1>11. /\ received[i] \in Nat /\ received'[i] = received[i] + t.amount
       /\ invoice'[i] = new
  BY <1>1, <1>2, <1>3
<1>12. \A j \in Invoices : j # i => /\ invoice'[j] = invoice[j]
                                    /\ received'[j] = received[j]
                                    /\ j \in rounded' <=> j \in rounded
                                    /\ j \in raced' <=> j \in raced
  BY <1>1, <1>2
<1> HIDE DEF t, i, old, new
<1>13. TypeOK'
  BY <1>1, <1>2, <1>3, <1>7 DEF IInv, TypeOK
<1>14. (\A j \in Invoices : InvoiceInv(j))'
  <2> SUFFICES ASSUME NEW j \in Invoices PROVE InvoiceInv(j)'
    OBVIOUS
  <2>1. CASE j = i
    <3>1. i \notin rounded' => new.paid <= received'[i]
      <4>1. i \notin rounded => old.paid <= received[i]
        BY <1>3 DEF IInv, InvoiceInv, old
      <4> QED BY <1>3, <1>5, <1>7, <1>9, <1>10, <1>11, <4>1 DEF InvoiceRow
    <3> QED BY <1>7, <1>11, <2>1, <3>1 DEF InvoiceInv
  <2>2. CASE j # i
    BY <1>12, <2>2 DEF IInv, InvoiceInv
  <2> QED BY <2>1, <2>2
<1>15. AllTxnInv'
  <2> SUFFICES ASSUME NEW q \in Requests, txn'[q] # NoTxn
               PROVE  TxnInv(txn'[q], invoice', received', rounded')
    BY DEF AllTxnInv
  <2>1. txn'[q] = txn[q] /\ txn[q] # NoTxn
    BY <1>1, <1>2
  <2>2. TxnInv(txn[q], invoice, received, rounded) /\ txn[q] \in Txn
    BY <1>2, <2>1 DEF IInv, AllTxnInv
  <2> DEFINE k == txn[q].inv
  <2>3. k \in Invoices /\ txn[q].loaded \in InvoiceRow
    BY <2>2 DEF Txn
  <2>4. /\ invoice'[k].status # "absent"
        /\ invoice'[k].total = invoice[k].total
        /\ invoice[k].approvedBy => invoice'[k].approvedBy
        /\ received[k] \in Nat /\ received'[k] \in Nat
        /\ received[k] <= received'[k]
        /\ k \notin rounded' => k \notin rounded
    <3>1. CASE k = i
      BY <1>3, <1>7, <1>8, <1>10, <1>11, <2>2, <3>1 DEF old
    <3>2. CASE k # i
      BY <1>2, <1>12, <2>2, <2>3, <3>2 DEF TxnInv
    <3> QED BY <3>1, <3>2
  <2> QED BY <2>1, <2>2, <2>3, <2>4 DEF TxnInv, InvoiceRow
<1>16. PaidMeansCollected'
  <2> SUFFICES ASSUME NEW j \in Invoices, invoice'[j].status = "paid", j \notin rounded'
               PROVE  received'[j] >= invoice'[j].total
    BY DEF PaidMeansCollected
  <2>1. CASE j # i
    BY <1>12, <2>1 DEF IInv, PaidMeansCollected
  <2>2. CASE j = i /\ new.status = old.status
    <3>1. received[i] >= old.total
      BY <1>9, <1>11, <2>2 DEF IInv, PaidMeansCollected, old
    <3> QED BY <1>3, <1>5, <1>7, <1>11, <2>2, <3>1 DEF InvoiceRow
  <2>3. CASE j = i /\ new.status = t.assigned.status
    <3>1. t.assigned.status = "paid"
      BY <1>11, <2>3
    <3>2. t.assigned.paid = t.assigned.total
      <4>1. /\ t.amount \in Amounts /\ t.amount <= t.loaded.balance
            /\ t.assigned = PaidRow(t.loaded, t.amount)
        BY <1>3, <1>4, <3>1 DEF TxnInv, Effect, InvoiceRow
      <4> QED BY <1>3, <1>4, <3>1, <4>1, PaidRowFacts, AmountsAssumption DEF TxnInv
    <3> QED BY <1>3, <1>5, <1>6, <1>7, <1>9, <1>11, <2>3, <3>2 DEF InvoiceRow
  <2> QED BY <1>7, <2>1, <2>2, <2>3
<1>17. MoneyNeedsApproval'
  <2> SUFFICES ASSUME NEW j \in Invoices,
                      received'[j] > 0 \/ invoice'[j].status \in Payable \union {"paid"}
               PROVE  invoice'[j].approvedBy
    BY DEF MoneyNeedsApproval
  <2>1. CASE j # i
    BY <1>12, <2>1 DEF IInv, MoneyNeedsApproval
  <2>2. CASE j = i /\ (received[i] > 0 \/ old.status \in Payable \union {"paid"})
    BY <1>3, <1>8, <1>11, <2>2 DEF IInv, MoneyNeedsApproval, old
  <2>3. CASE j = i /\ (t.amount > 0 \/ t.assigned.status \in Payable \union {"paid"})
    <3>1. CASE t.loaded.status \in Payable
      BY <1>4, <1>8, <1>11, <2>3, <3>1 DEF TxnInv, old, i
    <3>2. CASE t.loaded.status \notin Payable
      <4>1. t.assigned = [t.loaded EXCEPT !.status = "approved", !.approvedBy = TRUE]
        BY <1>3, <1>4, <2>3, <3>2 DEF TxnInv, Effect, InvoiceRow, Payable
      <4>2. t.assigned.approvedBy = TRUE
        BY <1>3, <4>1 DEF InvoiceRow
      <4>3. t.loaded.approvedBy => old.approvedBy
        BY <1>4 DEF TxnInv, old, i
      <4>4. new.approvedBy = Flushed(t.loaded.approvedBy, t.assigned.approvedBy,
                                     old.approvedBy)
        BY DEF new, Flush
      <4> QED BY <1>11, <2>3, <4>2, <4>3, <4>4 DEF Flushed
    <3> QED BY <3>1, <3>2
  <2> QED BY <1>3, <1>7, <1>11, <2>1, <2>2, <2>3
<1>18. CleanInvoice'
  <2> SUFFICES ASSUME NEW j \in Invoices, j \notin raced', j \notin rounded'
               PROVE  StatusTells(invoice'[j], received'[j])
    BY DEF CleanInvoice, Clean
  <2>1. CASE j # i
    BY <1>12, <2>1 DEF IInv, CleanInvoice, Clean
  <2>2. CASE j = i
    <3>1. /\ old = t.loaded /\ new = t.assigned
          /\ t.assigned.paid = t.loaded.paid + t.amount
          /\ StatusTells(t.loaded, received[i])
      <4>1. old = t.loaded
        BY <1>1, <2>2
      <4>2. StatusTells(old, received[i])
        BY <1>3, <1>10, <2>2 DEF IInv, CleanInvoice, Clean, old
      <4> QED BY <1>7, <1>9, <2>2, <4>1, <4>2
    <3>2. StatusTells(t.assigned, received[i] + t.amount)
      <4>1. CASE t.loaded.status \in Payable
        <5>1. /\ t.amount > 0 /\ t.amount <= t.loaded.balance
              /\ t.assigned = PaidRow(t.loaded, t.amount)
          BY <1>3, <1>4, <4>1, AmountsAssumption DEF TxnInv, Effect, Payable
        <5>2. /\ t.assigned.status \in {"paid", "partially_paid"}
              /\ t.assigned.status = "paid" <=> t.assigned.paid = t.assigned.total
          BY <1>3, <1>4, <5>1, PaidRowFacts DEF TxnInv
        <5> QED BY <1>3, <1>6, <1>11, <3>1, <5>1, <5>2
                DEF StatusTells, InvoiceRow, RowBooks
      <4>2. CASE t.loaded.status \notin Payable
        BY <1>3, <1>4, <3>1, <4>2 DEF TxnInv, Effect, StatusTells, InvoiceRow
      <4> QED BY <4>1, <4>2
    <3> QED BY <1>11, <2>2, <3>1, <3>2
  <2> QED BY <2>1, <2>2
<1> QED BY <1>13, <1>14, <1>15, <1>16, <1>17, <1>18 DEF IInv

\* The handlers that load an invoice and assign its columns.
LEMMA HandlerIInv ==
    ASSUME IInv, NEW r \in Requests, NEW i \in Invoices,
           \/ SubmitInvoice(r, i)
           \/ ApproveInvoice(r, i)
           \/ RejectInvoice(r, i)
           \/ \E a \in Amounts : RecordPayment(r, i, a)
    PROVE  IInv'
<1> DEFINE row == invoice[i]
           T(assigned, amount) == [inv |-> i, loaded |-> invoice[i],
                                   assigned |-> assigned, amount |-> amount]
<1>1. row \in InvoiceRow /\ RowBooks(row)
  BY DEF IInv, TypeOK, InvoiceInv
<1>2. CASE SubmitInvoice(r, i)
  <2> DEFINE new == [row EXCEPT !.status = "submitted"]
  <2>1. new \in InvoiceRow
    BY <1>1 DEF InvoiceRow, Status
  <2>2. Effect(T(new, 0))
    BY <1>2 DEF SubmitInvoice, Effect
  <2> QED BY <1>2, <2>1, <2>2, WorkIInv DEF SubmitInvoice
<1>3. CASE ApproveInvoice(r, i)
  <2> DEFINE new == [row EXCEPT !.status = "approved", !.approvedBy = TRUE]
  <2>1. new \in InvoiceRow
    BY <1>1 DEF InvoiceRow, Status
  <2>2. Effect(T(new, 0))
    BY <1>3 DEF ApproveInvoice, Effect
  <2> QED BY <1>3, <2>1, <2>2, WorkIInv DEF ApproveInvoice
<1>4. CASE RejectInvoice(r, i)
  <2> DEFINE new == [row EXCEPT !.status = "rejected"]
  <2>1. new \in InvoiceRow
    BY <1>1 DEF InvoiceRow, Status
  <2>2. Effect(T(new, 0))
    BY <1>4 DEF RejectInvoice, Effect
  <2> QED BY <1>4, <2>1, <2>2, WorkIInv DEF RejectInvoice
<1>5. CASE \E a \in Amounts : RecordPayment(r, i, a)
  <2>1. PICK a \in Amounts : RecordPayment(r, i, a)
    BY <1>5
  <2> DEFINE new == PaidRow(row, a)
  <2>2. a \in Nat /\ a > 0 /\ a <= row.balance
    BY <2>1, AmountsAssumption DEF RecordPayment
  <2>3. new \in InvoiceRow
    BY <1>1, <2>2, PaidRowFacts
  <2>4. Effect(T(new, a))
    BY <2>1 DEF RecordPayment, Effect
  <2> QED BY <2>1, <2>2, <2>3, <2>4, WorkIInv DEF RecordPayment, Payable
<1> QED BY <1>2, <1>3, <1>4, <1>5

LEMMA NextIInv == IInv /\ [Next]_vars => IInv'
<1> SUFFICES ASSUME IInv, [Next]_vars PROVE IInv'
  OBVIOUS
<1>1. CASE \E i \in Invoices : CreateInvoice(i)
  BY <1>1, CreateIInv
<1>2. CASE \E i \in Invoices : DueDatePasses(i)
  BY <1>2 DEF DueDatePasses, IInv, TypeOK, InvoiceInv, AllTxnInv, PaidMeansCollected,
              MoneyNeedsApproval, CleanInvoice, Clean
<1>3. CASE \E r \in Requests, i \in Invoices :
              \/ SubmitInvoice(r, i)
              \/ ApproveInvoice(r, i)
              \/ RejectInvoice(r, i)
              \/ \E a \in Amounts : RecordPayment(r, i, a)
  BY <1>3, HandlerIInv
<1>4. CASE \E r \in Requests : Commit(r)
  BY <1>4, CommitIInv
<1>5. CASE \E r \in Requests : Rollback(r)
  BY <1>5, RollbackIInv
<1>6. CASE CheckOverdue
  BY <1>6, CheckOverdueIInv
<1>7. CASE UNCHANGED vars
  BY <1>7 DEF vars, IInv, TypeOK, InvoiceInv, AllTxnInv, PaidMeansCollected,
              MoneyNeedsApproval, CleanInvoice, Clean
<1> QED BY <1>1, <1>2, <1>3, <1>4, <1>5, <1>6, <1>7 DEF Next

LEMMA Inductive == Spec => []IInv
BY InitIInv, NextIInv, PTL DEF Spec

-----------------------------------------------------------------------------

\* Every variable keeps its type, for any constants.
THEOREM TypeCorrect == Spec => []TypeOK
<1>1. IInv => TypeOK
  BY DEF IInv
<1> QED BY Inductive, <1>1, PTL

\* However many requests interleave, the figures of an invoice add up and no
\* more than its total is ever booked as paid (record_payment).
THEOREM BooksAlwaysBalance == Spec => []BooksBalance
<1>1. IInv => BooksBalance
  BY DEF IInv, InvoiceInv, RowBooks, BooksBalance
<1> QED BY Inductive, <1>1, PTL

\* An invoice marked PAID has had its whole total paid in.
THEOREM PaidIsCollected == Spec => []PaidMeansCollected
<1>1. IInv => PaidMeansCollected
  BY DEF IInv
<1> QED BY Inductive, <1>1, PTL

\* No money comes in on an invoice without an approver on record.
THEOREM MoneyIsApproved == Spec => []MoneyNeedsApproval
<1>1. IInv => MoneyNeedsApproval
  BY DEF IInv
<1> QED BY Inductive, <1>1, PTL

\* Without a stale write and without rounding, status, row and payments agree.
THEOREM CleanInvoices == Spec => []CleanInvoice
<1>1. IInv => CleanInvoice
  BY DEF IInv
<1> QED BY Inductive, <1>1, PTL

-----------------------------------------------------------------------------
(* Invoicing implements Receivable.                                        *)

phase == [i \in Invoices |-> PhaseOf(invoice[i].status)]
due == [i \in Invoices |-> invoice[i].total]
void == raced \union rounded

LEMMA PhaseFacts ==
    /\ PhaseOf("absent") = "none"
    /\ PhaseOf("draft") = "open"
    /\ PhaseOf("submitted") = "open"
    /\ PhaseOf("rejected") = "refused"
    /\ \A s \in Payable : PhaseOf(s) = "collecting"
    /\ PhaseOf("paid") = "settled"
BY DEF PhaseOf, Payable

LEMMA CreateRefines ==
    ASSUME IInv, NEW i \in Invoices, CreateInvoice(i)
    PROVE  Promise!Next
<1>1. PICK t \in Totals : invoice' = [invoice EXCEPT ![i] = NewInvoice(t)]
  BY DEF CreateInvoice
<1>2. invoice \in [Invoices -> InvoiceRow] /\ t \in Int
  BY TotalsAssumption DEF IInv, TypeOK
<1>3. phase[i] = "none"
  BY PhaseFacts DEF CreateInvoice, phase
<1>4. phase' = [phase EXCEPT ![i] = "open"]
  BY <1>1, <1>2, PhaseFacts DEF phase, NewInvoice
<1>5. due' = [due EXCEPT ![i] = t]
  BY <1>1, <1>2 DEF due, NewInvoice
<1>6. due' = [due EXCEPT ![i] = due'[i]] /\ due'[i] \in Int
  BY <1>2, <1>5 DEF due
<1>7. received' = received /\ void' = void
  BY DEF CreateInvoice, void
<1>8. Promise!Issue(i)
  BY <1>3, <1>4, <1>6, <1>7 DEF Promise!Issue, phase, due, void
<1> QED BY <1>8 DEF Promise!Next

LEMMA CommitRefines ==
    ASSUME IInv, NEW r \in Requests, Commit(r)
    PROVE  Promise!Next \/ UNCHANGED <<phase, due, received, void>>
<1>0. PICK i \in Invoices : txn[r].inv = i
  BY DEF Commit, IInv, TypeOK, Txn
<1> DEFINE t == txn[r]
           old == invoice[i]
           new == Flush(t, old)
<1>1. /\ t # NoTxn
      /\ invoice' = [invoice EXCEPT ![i] = new]
      /\ received' = [received EXCEPT ![i] = @ + t.amount]
      /\ raced' = IF old = t.loaded THEN raced ELSE raced \union {i}
      /\ rounded' = IF t.assigned.paid = t.loaded.paid + t.amount
                    THEN rounded ELSE rounded \union {i}
  BY <1>0 DEF Commit
<1>2. /\ invoice \in [Invoices -> InvoiceRow] /\ received \in [Invoices -> Nat]
      /\ txn \in [Requests -> Txn \union {NoTxn}]
  BY DEF IInv, TypeOK
<1>3. /\ t \in Txn /\ t.inv = i /\ t.amount \in Nat
      /\ t.loaded \in InvoiceRow
  BY <1>0, <1>1, <1>2 DEF Txn
<1>4. TxnInv(t, invoice, received, rounded)
  BY <1>1 DEF IInv, AllTxnInv
<1>5. old \in InvoiceRow /\ RowBooks(old) /\ old.status # "absent"
      /\ old.total = t.loaded.total
  BY <1>2, <1>3, <1>4 DEF IInv, InvoiceInv, TxnInv
<1>6. /\ t.assigned \in InvoiceRow /\ RowBooks(t.assigned)
      /\ t.assigned.total = t.loaded.total
  BY <1>3, <1>4, EffectFacts DEF TxnInv
<1>7. new.total = old.total /\ (old = t.loaded => new = t.assigned)
  BY <1>3, <1>4, <1>5, FlushFacts DEF TxnInv
<1>8. (i \in void' => void' = void \union {i}) /\ (i \notin void' => void' = void)
  BY <1>1 DEF void
<1>9. due' = due
  BY <1>1, <1>2, <1>7 DEF due
<1>10. phase' = [phase EXCEPT ![i] = PhaseOf(new.status)]
  BY <1>1, <1>2, <1>3 DEF phase
<1>11. CASE i \in void'
  <2>1. \A j \in Invoices \ {i} :
           phase'[j] = phase[j] /\ due'[j] = due[j] /\ received'[j] = received[j]
    BY <1>1, <1>2, <1>9, <1>10 DEF phase
  <2>2. Promise!Conflict(i)
    BY <1>8, <1>11, <2>1 DEF Promise!Conflict, Promise!OnlyTouches, phase, due, void
  <2> QED BY <2>2 DEF Promise!Next
<1>12. CASE i \notin void'
  <2>1. /\ old = t.loaded /\ new = t.assigned
        /\ t.assigned.paid = t.loaded.paid + t.amount
    BY <1>1, <1>7, <1>12 DEF void
  <2>2. StatusTells(t.loaded, received[i])
    BY <1>3, <1>8, <1>12, <2>1 DEF IInv, CleanInvoice, Clean, void
  <2>3. phase[i] = PhaseOf(t.loaded.status)
    BY <1>3, <2>1 DEF phase
  <2>4. received[i] \in Nat /\ void' = void
    BY <1>2, <1>3, <1>8, <1>12
  <2> HIDE DEF t, old, new
  <2>5. CASE t.loaded.status = "draft" /\ t.amount = 0
             /\ t.assigned = [t.loaded EXCEPT !.status = "submitted"]
    <3>1. new.status = "submitted"
      BY <1>3, <2>1, <2>5 DEF InvoiceRow
    <3>2. phase' = phase
      <4>1. phase[i] = "open" /\ PhaseOf(new.status) = "open"
        BY <2>3, <2>5, <3>1, PhaseFacts
      <4> QED BY <1>3, <1>10, <4>1 DEF phase
    <3>3. received' = received
      BY <1>1, <1>2, <1>3, <2>5
    <3> QED BY <1>9, <2>4, <3>2, <3>3
  <2>6. CASE t.loaded.status = "submitted" /\ t.amount = 0
             /\ \/ t.assigned = [t.loaded EXCEPT !.status = "rejected"]
                \/ t.assigned = [t.loaded EXCEPT !.status = "approved", !.approvedBy = TRUE]
    <3>1. new.status \in {"rejected", "approved"}
      BY <1>3, <2>1, <2>6 DEF InvoiceRow
    <3>2. received' = received
      BY <1>1, <1>2, <1>3, <2>6
    <3>3. phase[i] = "open" /\ PhaseOf(new.status) \in {"refused", "collecting"}
      BY <2>3, <2>6, <3>1, PhaseFacts DEF Payable
    <3>4. Promise!Decide(i, PhaseOf(new.status))
      BY <1>9, <1>10, <2>4, <3>2, <3>3 DEF Promise!Decide, phase, due, void
    <3> QED BY <1>3, <3>3, <3>4 DEF Promise!Next
  <2>7. CASE t.loaded.status \in Payable /\ t.amount \in Amounts
             /\ t.amount <= t.loaded.balance /\ t.assigned = PaidRow(t.loaded, t.amount)
    <3>1. /\ new.status \in {"paid", "partially_paid"}
          /\ new.status = "paid" <=> new.paid = new.total
          /\ t.amount > 0
      BY <1>3, <1>4, <2>1, <2>7, PaidRowFacts, AmountsAssumption DEF TxnInv
    <3>2. due[i] = t.loaded.total /\ due[i] \in Int
      BY <1>3, <1>5, <2>1 DEF due, old, InvoiceRow
    <3>3. t.amount \in 1 .. (due[i] - received[i])
      BY <1>3, <1>4, <2>2, <2>4, <2>7, <3>1, <3>2 DEF TxnInv, StatusTells, RowBooks, InvoiceRow
    <3>4. phase[i] = "collecting"
      BY <2>3, <2>7, PhaseFacts
    <3>5. PhaseOf(new.status) = IF received[i] + t.amount = due[i] THEN "settled" ELSE phase[i]
      BY <1>3, <1>6, <2>1, <2>2, <2>4, <3>1, <3>2, <3>4, PhaseFacts
      DEF StatusTells, InvoiceRow, Payable
    <3>6. phase' = [phase EXCEPT ![i] =
                      IF received[i] + t.amount = due[i] THEN "settled" ELSE @]
      BY <1>3, <1>10, <3>5 DEF phase
    <3>7. Promise!Collect(i)
      BY <1>1, <1>9, <2>4, <3>3, <3>4, <3>6 DEF Promise!Collect, phase, due, void
    <3> QED BY <1>3, <3>7 DEF Promise!Next
  <2> QED BY <1>4, <2>5, <2>6, <2>7 DEF TxnInv, Effect
<1> QED BY <1>11, <1>12

LEMMA StepRefines ==
    IInv /\ [Next]_vars => Promise!Next \/ UNCHANGED <<phase, due, received, void>>
<1> SUFFICES ASSUME IInv, [Next]_vars
             PROVE  Promise!Next \/ UNCHANGED <<phase, due, received, void>>
  OBVIOUS
<1>1. CASE \E i \in Invoices : CreateInvoice(i)
  BY <1>1, CreateRefines
<1>2. CASE \E r \in Requests : Commit(r)
  BY <1>2, CommitRefines
<1>3. CASE CheckOverdue
  <2>1. \A i \in Invoices :
           /\ invoice'[i].total = invoice[i].total
           /\ PhaseOf(invoice'[i].status) = PhaseOf(invoice[i].status)
    <3> SUFFICES ASSUME NEW i \in Invoices
                 PROVE  /\ invoice'[i].total = invoice[i].total
                        /\ PhaseOf(invoice'[i].status) = PhaseOf(invoice[i].status)
      OBVIOUS
    <3>1. invoice[i] \in InvoiceRow
      BY DEF IInv, TypeOK
    <3>2. \/ invoice'[i] = invoice[i]
          \/ /\ invoice[i].status = "approved"
             /\ invoice'[i] = [invoice[i] EXCEPT !.status = "overdue"]
      BY <1>3 DEF CheckOverdue, Overdue
    <3> QED BY <3>1, <3>2, PhaseFacts DEF InvoiceRow, Payable
  <2> QED BY <1>3, <2>1 DEF CheckOverdue, phase, due, void
<1>4. CASE UNCHANGED <<invoice, received, raced, rounded>>
  BY <1>4 DEF phase, due, void
<1>5. \/ \E i \in Invoices : CreateInvoice(i)
      \/ \E r \in Requests : Commit(r)
      \/ CheckOverdue
      \/ UNCHANGED <<invoice, received, raced, rounded>>
  BY ZenonT(60) DEF Next, vars, DueDatePasses, SubmitInvoice, ApproveInvoice, RejectInvoice,
         RecordPayment, Work, Rollback
<1> QED BY <1>1, <1>2, <1>3, <1>4, <1>5

\* Every behaviour of the invoices is one of Receivable: but for an invoice that
\* a stale write or a rounded payment has touched, money is only collected on
\* accepted invoices, never beyond what is due, and settled is final.
THEOREM ImplementsReceivable == Spec => KeepsPromise
<1>1. Init => Promise!Init
  BY PhaseFacts DEF Init, NoInvoice, Promise!Init
<1>2. IInv /\ [Next]_vars => [Promise!Next]_Promise!rvars
  BY StepRefines DEF Promise!rvars, phase, due, void
<1> QED BY Inductive, <1>1, <1>2, PTL DEF Spec, KeepsPromise, Promise!Spec

-----------------------------------------------------------------------------
(* One request at a time, in whole paisa: the promise is never void.        *)

WholeAmounts == \A a \in Amounts : Whole(a)

OneClient == \A q, r \in Requests : q = r

\* check_overdue is a request too, but one that is over in a single step.
Idle == \A r \in Requests : txn[r] = NoTxn

WholeInv ==
    /\ \A i \in Invoices : Whole(invoice[i].paid)
    /\ \A r \in Requests : txn[r] # NoTxn => Whole(txn[r].loaded.paid)
    /\ rounded = {}

LEMMA RoundWhole ==
    ASSUME NEW x \in Int, Whole(x)
    PROVE  Round2(x) = x
BY DEF Round2, Whole, Paisa

LEMMA SumWhole ==
    ASSUME NEW x \in Int, Whole(x), NEW y \in Int, Whole(y)
    PROVE  Whole(x + y)
BY DEF Whole, Paisa

\* What a request books as paid is what was, and the amount of its payment.
LEMMA EffectWhole ==
    ASSUME WholeAmounts, NEW t \in Txn, Effect(t), Whole(t.loaded.paid)
    PROVE  t.assigned.paid = t.loaded.paid + t.amount /\ Whole(t.assigned.paid)
<1>1. t.loaded \in InvoiceRow /\ t.loaded.paid \in Int /\ t.amount \in Nat
  BY DEF Txn, InvoiceRow
<1>2. CASE t.amount \in Amounts /\ t.assigned = PaidRow(t.loaded, t.amount)
  <2>1. Whole(t.loaded.paid + t.amount)
    BY <1>1, <1>2, SumWhole DEF WholeAmounts
  <2>2. Round2(t.loaded.paid + t.amount) = t.loaded.paid + t.amount
    BY <1>1, <2>1, RoundWhole
  <2>3. t.assigned.paid = Round2(t.loaded.paid + t.amount)
    BY <1>1, <1>2 DEF PaidRow, InvoiceRow
  <2> QED BY <2>1, <2>2, <2>3
<1>3. CASE t.amount = 0 /\ t.assigned.paid = t.loaded.paid
  BY <1>1, <1>3
<1>4. (t.amount = 0 /\ t.assigned.paid = t.loaded.paid)
        \/ (t.amount \in Amounts /\ t.assigned = PaidRow(t.loaded, t.amount))
  BY <1>1 DEF Effect, InvoiceRow
<1> QED BY <1>2, <1>3, <1>4

LEMMA WorkWhole ==
    ASSUME IInv, WholeInv, NEW r \in Requests, NEW i \in Invoices, NEW row, NEW amount,
           Work(r, i, row, amount)
    PROVE  WholeInv'
<1>1. /\ txn'[r].loaded = invoice[i]
      /\ \A q \in Requests \ {r} : txn'[q] = txn[q]
      /\ invoice' = invoice /\ rounded' = rounded
  BY DEF Work, IInv, TypeOK
<1> QED BY <1>1 DEF WholeInv

LEMMA CommitWhole ==
    ASSUME WholeAmounts, IInv, WholeInv, NEW r \in Requests, Commit(r)
    PROVE  WholeInv'
<1> DEFINE t == txn[r]
           i == t.inv
<1>1. /\ t \in Txn /\ i \in Invoices /\ Effect(t) /\ Whole(t.loaded.paid)
      /\ invoice \in [Invoices -> InvoiceRow]
  BY DEF Commit, IInv, TypeOK, AllTxnInv, TxnInv, WholeInv, Txn
<1>2. t.assigned.paid = t.loaded.paid + t.amount /\ Whole(t.assigned.paid)
  BY <1>1, EffectWhole
<1>3. rounded' = {}
  BY <1>2 DEF Commit, WholeInv
<1>4. \A q \in Requests : txn'[q] # NoTxn => txn'[q] = txn[q]
  BY DEF Commit, IInv, TypeOK
<1>5. \A j \in Invoices : invoice'[j] = IF j = i THEN Flush(t, invoice[i]) ELSE invoice[j]
  BY <1>1 DEF Commit
<1> HIDE DEF t, i
<1>6. Flush(t, invoice[i]).paid \in {t.assigned.paid, invoice[i].paid}
  BY DEF Flush, Flushed
<1>7. \A j \in Invoices : Whole(invoice'[j].paid)
  BY <1>1, <1>2, <1>5, <1>6 DEF WholeInv
<1> QED BY <1>3, <1>4, <1>7 DEF WholeInv

LEMMA StepWhole ==
    ASSUME WholeAmounts, IInv, WholeInv, [Next]_vars
    PROVE  WholeInv'
<1>1. CASE \E i \in Invoices : CreateInvoice(i)
  <2>1. PICK i \in Invoices, t \in Totals : invoice' = [invoice EXCEPT ![i] = NewInvoice(t)]
    BY <1>1 DEF CreateInvoice
  <2>2. \A j \in Invoices : invoice'[j].paid \in {0, invoice[j].paid}
    BY <2>1 DEF NewInvoice, IInv, TypeOK
  <2>3. Whole(0)
    BY DEF Whole, Paisa
  <2>4. UNCHANGED <<txn, rounded>>
    BY <1>1 DEF CreateInvoice
  <2> QED BY <2>2, <2>3, <2>4 DEF WholeInv
<1>2. CASE \E r \in Requests, i \in Invoices :
              \/ SubmitInvoice(r, i)
              \/ ApproveInvoice(r, i)
              \/ RejectInvoice(r, i)
              \/ \E a \in Amounts : RecordPayment(r, i, a)
  BY <1>2, WorkWhole DEF SubmitInvoice, ApproveInvoice, RejectInvoice, RecordPayment
<1>3. CASE \E r \in Requests : Commit(r)
  BY <1>3, CommitWhole
<1>4. CASE \E r \in Requests : Rollback(r)
  BY <1>4 DEF Rollback, IInv, TypeOK, WholeInv
<1>5. CASE CheckOverdue
  <2>1. \A i \in Invoices : invoice'[i].paid = invoice[i].paid
    BY <1>5 DEF CheckOverdue, IInv, TypeOK, InvoiceRow
  <2> QED BY <1>5, <2>1 DEF CheckOverdue, WholeInv
<1>6. CASE (\E i \in Invoices : DueDatePasses(i)) \/ UNCHANGED vars
  BY <1>6 DEF DueDatePasses, vars, WholeInv
<1> QED BY <1>1, <1>2, <1>3, <1>4, <1>5, <1>6 DEF Next

LEMMA InitWhole == Init => WholeInv
BY DEF Init, WholeInv, NoInvoice, Whole, Paisa

\* What the request in flight has read is still so.
AloneInv ==
    /\ \A r \in Requests : txn[r] # NoTxn => txn[r].loaded = invoice[txn[r].inv]
    /\ raced = {}

LEMMA AloneStep ==
    ASSUME OneClient, IInv, AloneInv, [Next]_vars, [CheckOverdue => Idle]_vars
    PROVE  AloneInv'
<1>1. CASE \E i \in Invoices : CreateInvoice(i)
  <2>1. PICK i \in Invoices : CreateInvoice(i)
    BY <1>1
  <2>2. \A r \in Requests : txn[r] # NoTxn => txn[r].inv # i
    BY <2>1 DEF CreateInvoice, IInv, AllTxnInv, TxnInv
  <2>3. \A j \in Invoices \ {i} : invoice'[j] = invoice[j]
    BY <2>1 DEF CreateInvoice, IInv, TypeOK
  <2>4. \A r \in Requests : txn[r] # NoTxn => txn[r].inv \in Invoices
    BY DEF IInv, TypeOK, Txn
  <2> QED BY <2>1, <2>2, <2>3, <2>4 DEF CreateInvoice, AloneInv
<1>2. ASSUME NEW r \in Requests, NEW i \in Invoices, NEW row, NEW amount,
             Work(r, i, row, amount)
      PROVE  AloneInv'
  <2>1. \A q \in Requests : txn'[q].loaded = invoice[i] /\ txn'[q].inv = i
    BY <1>2 DEF Work, OneClient, IInv, TypeOK
  <2> QED BY <1>2, <2>1 DEF Work, AloneInv
<1>3. CASE \E r \in Requests, i \in Invoices :
              \/ SubmitInvoice(r, i)
              \/ ApproveInvoice(r, i)
              \/ RejectInvoice(r, i)
              \/ \E a \in Amounts : RecordPayment(r, i, a)
  BY <1>2, <1>3 DEF SubmitInvoice, ApproveInvoice, RejectInvoice, RecordPayment
<1>4. CASE \E r \in Requests : Commit(r)
  <2>1. PICK r \in Requests : Commit(r)
    BY <1>4
  <2>2. txn[r].loaded = invoice[txn[r].inv]
    BY <2>1 DEF Commit, AloneInv
  <2>3. raced' = {}
    BY <2>1, <2>2 DEF Commit, AloneInv
  <2>4. \A q \in Requests : txn'[q] = NoTxn
    BY <2>1 DEF Commit, OneClient, IInv, TypeOK
  <2> QED BY <2>3, <2>4 DEF AloneInv
<1>5. CASE \E r \in Requests : Rollback(r)
  BY <1>5 DEF Rollback, IInv, TypeOK, AloneInv
<1>6. CASE CheckOverdue
  <2>1. invoice' # invoice
    <3>1. PICK i \in Invoices : Overdue(i)
      BY <1>6 DEF CheckOverdue
    <3>2. invoice[i].status = "approved" /\ invoice'[i].status = "overdue"
      BY <1>6, <3>1 DEF CheckOverdue, Overdue, IInv, TypeOK, InvoiceRow
    <3> QED BY <3>2
  <2>2. Idle
    BY <1>6, <2>1 DEF vars
  <2> QED BY <1>6, <2>2 DEF CheckOverdue, Idle, AloneInv
<1>7. CASE (\E i \in Invoices : DueDatePasses(i)) \/ UNCHANGED vars
  BY <1>7 DEF DueDatePasses, vars, AloneInv
<1> QED BY <1>1, <1>3, <1>4, <1>5, <1>6, <1>7 DEF Next

\* Amounts of whole paisa are never rounded by record_payment, however many
\* requests overlap.
THEOREM WholeAmountsStay ==
    ASSUME WholeAmounts
    PROVE  Spec => [](rounded = {})
<1>1. IInv /\ WholeInv /\ [Next]_vars => WholeInv'
  BY StepWhole
<1>2. WholeInv => rounded = {}
  BY DEF WholeInv
<1> QED BY InitWhole, Inductive, <1>1, <1>2, PTL DEF Spec

\* With one request at a time, check_overdue among them, and amounts of whole
\* paisa, payments, row and status of every invoice agree, and Receivable keeps
\* its promise for all of them: nothing ever voids it.
THEOREM AloneInvoicesAgree ==
    ASSUME OneClient, WholeAmounts
    PROVE  Spec /\ [][CheckOverdue => Idle]_vars =>
              [](/\ \A i \in Invoices : StatusTells(invoice[i], received[i])
                 /\ raced \union rounded = {})
<1>1. Init => AloneInv
  BY DEF Init, AloneInv
<1>2. IInv /\ AloneInv /\ [Next]_vars /\ [CheckOverdue => Idle]_vars => AloneInv'
  BY AloneStep
<1>3. IInv /\ AloneInv /\ rounded = {} =>
         /\ \A i \in Invoices : StatusTells(invoice[i], received[i])
         /\ raced \union rounded = {}
  BY DEF IInv, AloneInv, CleanInvoice, Clean
<1>4. Spec => [](rounded = {})
  BY WholeAmountsStay
<1> QED BY Inductive, <1>1, <1>2, <1>3, <1>4, PTL DEF Spec

=============================================================================
