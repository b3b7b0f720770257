---------------------------- MODULE ProgressProofs ----------------------------
(***************************************************************************)
(* Proofs about Progress, for any number of entries, days and requests in  *)
(* flight, and any quantities.                                             *)
(***************************************************************************)
EXTENDS Progress, AggregateTheorems

(* What a request in flight has read and is about to write, by handler: a  *)
(* new entry, ...                                                          *)
Creates(t) ==
    /\ t.loaded.status = "absent"
    /\ t.assigned.status = "draft" /\ ~t.assigned.deleted
    /\ t.tally # Unchecked

\* a draft that is edited, its quantity checked again if it changes, ...
Updates(t) ==
    /\ t.loaded.status = "draft" /\ ~t.loaded.deleted
    /\ t.assigned.status = "draft" /\ ~t.assigned.deleted
    /\ t.tally = Unchecked => t.assigned.qty = t.loaded.qty

\* deleted ...
Deletes(t) ==
    /\ t.loaded.status = "draft" /\ ~t.loaded.deleted
    /\ t.assigned = [t.loaded EXCEPT !.deleted = TRUE]
    /\ t.tally = Unchecked

\* or submitted, ...
Submits(t) ==
    /\ t.loaded.status = "draft" /\ ~t.loaded.deleted
    /\ t.assigned = [t.loaded EXCEPT !.status = "submitted"]
    /\ t.tally = Unchecked

\* or a submitted entry with its verdict.
Decides(t) ==
    /\ t.loaded.status = "submitted" /\ ~t.loaded.deleted
    /\ \E verdict \in {"approved", "rejected"} :
          t.assigned = [t.loaded EXCEPT !.status = verdict]
    /\ t.tally = Unchecked

Handles(t) == Creates(t) \/ Updates(t) \/ Deletes(t) \/ Submits(t) \/ Decides(t)

\* A quantity that was checked has passed the check.
TxnInv(r) ==
    txn[r] # NoTxn =>
        /\ Handles(txn[r])
        /\ txn[r].tally # Unchecked => txn[r].tally + txn[r].assigned.qty <= Assigned
        /\ txn[r].entry \notin raced => txn[r].assigned.qty \in Quantities

Reported(e) == entry[e].status # "absent" /\ e \notin raced => entry[e].qty \in Quantities

Drafts == {e \in Entries : Live(e, {"draft"})}
Claimed == {e \in Entries : Live(e, {"submitted"})}
Confirmed == {e \in Entries : Live(e, {"approved"})}

\* While nothing has raced or piled up there is at most one draft, and room for
\* it: this is what makes submit_progress, which checks nothing, a claim within
\* what is assigned.
DraftFits ==
    ~piled /\ raced = {} =>
        \A e \in Drafts :
            /\ Drafts = {e}
            /\ Quantity(Claimed) + Quantity(Confirmed) + entry[e].qty <= Assigned

IInv ==
    /\ TypeOK
    /\ \A r \in Requests : TxnInv(r)
    /\ \A e \in Entries : Reported(e)
    /\ DeletedIsDraft
    /\ DraftFits

-----------------------------------------------------------------------------
(* Lemmas about the operators. *)

LEMMA Constants ==
    /\ Quantities \subseteq Nat /\ \A q \in Quantities : q >= 1
    /\ Assigned \in Nat /\ Assigned > 0 /\ BoqTotal \in Nat
    /\ IsFiniteSet(Entries)
    /\ Unchecked \in Int /\ Unchecked \notin Nat
BY QuantitiesAssumption, AssignedAssumption, RowsAssumption DEF Unchecked

LEMMA RowType ==
    ASSUME TypeOK, NEW e \in Entries
    PROVE  entry[e] \in Row /\ entry[e].qty \in Nat
<1>1. entry[e] \in Row
    BY DEF TypeOK
<1>2. entry[e].qty \in Quantities \union {0}
    BY <1>1 DEF Row
<1>3. Quantities \union {0} \subseteq Nat
    BY QuantitiesAssumption
<1>. QED
    BY <1>1, <1>2, <1>3, Zenon

\* A tally is a sum of quantities.
LEMMA QuantityType ==
    ASSUME TypeOK, NEW S \in SUBSET Entries
    PROVE  IsFiniteSet(S) /\ Quantity(S) \in Nat
<1>. DEFINE qty == [e \in Entries |-> entry[e].qty]
<1>1. IsFiniteSet(S)
    BY Constants, FS_Subset
<1>2. \A e \in S : qty[e] \in Nat
    BY RowType
<1>. HIDE DEF qty
<1>3. SumFunctionOnSet(qty, S) \in Nat
    BY <1>1, <1>2, SumNat
<1>. QED
    BY <1>1, <1>3 DEF Quantity, qty

\* What _calc_cumulative counts is what is claimed and what is confirmed, of
\* the entry at hand only if it counts.
LEMMA Cumulative ==
    ASSUME TypeOK
    PROVE  /\ CalcCumulative(Entries) = Quantity(Claimed) + Quantity(Confirmed)
           /\ \A e \in Entries \ (Claimed \union Confirmed) :
                 CalcCumulative(Entries \ {e}) = Quantity(Claimed) + Quantity(Confirmed)
           /\ \A S \in SUBSET Entries : CalcCumulative(S) \in Nat
<1>. DEFINE qty == [e \in Entries |-> entry[e].qty]
            Counted(S) == {e \in S : Live(e, {"submitted", "approved"})}
<1>1. Claimed \subseteq Entries /\ Confirmed \subseteq Entries /\ Claimed \intersect Confirmed = {}
    BY DEF Claimed, Confirmed, Live
<1>2. Counted(Entries) = Claimed \union Confirmed
    BY DEF Claimed, Confirmed, Live
<1>3. \A e \in Entries \ (Claimed \union Confirmed) :
      Counted(Entries \ {e}) = Claimed \union Confirmed
    BY <1>2
<1>4. \A e \in Entries : qty[e] \in Int
    BY RowType
<1>5. IsFiniteSet(Claimed) /\ IsFiniteSet(Confirmed)
    BY <1>1, QuantityType
<1>6. SumFunctionOnSet(qty, Claimed \union Confirmed)
         = SumFunctionOnSet(qty, Claimed) + SumFunctionOnSet(qty, Confirmed)
  <2>1. \A e \in Claimed \union Confirmed : qty[e] \in Int
    BY <1>1, <1>4
  <2>. HIDE DEF qty
  <2>. QED
    BY <1>1, <1>5, <2>1, SumUnion
<1>7. Quantity(Claimed \union Confirmed) = Quantity(Claimed) + Quantity(Confirmed)
    BY <1>6 DEF Quantity
<1>8. \A S : CalcCumulative(S) = Quantity(Counted(S))
    BY DEF CalcCumulative
<1>9. \A S \in SUBSET Entries : Counted(S) \in SUBSET Entries
    OBVIOUS
<1>. HIDE DEF Counted, qty
<1>. QED
    BY <1>2, <1>3, <1>7, <1>8, <1>9, QuantityType

LEMMA InitIInv == Init => IInv
<1>. SUFFICES ASSUME Init PROVE IInv
    OBVIOUS
<1>1. NoEntry \in Row
    BY RowsAssumption DEF NoEntry, Row, Status
<1>2. TypeOK
    BY <1>1 DEF Init, TypeOK
<1>3. \A e \in Entries : entry[e].status = "absent"
    BY DEF Init, NoEntry
<1>4. (\A r \in Requests : TxnInv(r)) /\ (\A e \in Entries : Reported(e))
    BY <1>3 DEF Init, TxnInv, Reported
<1>5. DeletedIsDraft
    BY DEF Init, DeletedIsDraft, NoEntry
<1>6. DraftFits
    BY <1>3 DEF DraftFits, Drafts, Live
<1>. QED
    BY <1>2, <1>4, <1>5, <1>6 DEF IInv

-----------------------------------------------------------------------------
(* The handlers. *)

\* A request that has only read disturbs nothing, if it is known what it will
\* write.
LEMMA WorkIInv ==
    ASSUME IInv, NEW r \in Requests, NEW e \in Entries, NEW row \in Row,
           NEW tally \in Nat \union {Unchecked}, Work(r, e, row, tally),
           Handles([entry |-> e, loaded |-> entry[e], assigned |-> row, tally |-> tally]),
           tally # Unchecked => tally + row.qty <= Assigned,
           e \notin raced => row.qty \in Quantities
    PROVE  IInv'
<1>. DEFINE t == [entry |-> e, loaded |-> entry[e], assigned |-> row, tally |-> tally]
<1>1. txn' = [txn EXCEPT ![r] = t] /\ UNCHANGED <<entry, open, raced, piled>>
    BY DEF Work
<1>2. t \in Txn
    BY RowType DEF IInv, Txn
<1>3. /\ t.entry = e /\ t.assigned = row /\ t.tally = tally /\ Handles(t)
    OBVIOUS
<1>. HIDE DEF t
<1>4. TypeOK'
    BY <1>1, <1>2 DEF IInv, TypeOK
<1>5. txn'[r] = t /\ \A q \in Requests \ {r} : txn'[q] = txn[q]
    BY <1>1 DEF IInv, TypeOK
<1>6. TxnInv(r)'
    BY <1>1, <1>3, <1>5 DEF TxnInv
<1>7. ASSUME NEW q \in Requests \ {r} PROVE TxnInv(q)'
    BY <1>1, <1>5 DEF IInv, TxnInv
<1>8. DeletedIsDraft' /\ \A d \in Entries : Reported(d)'
    BY <1>1 DEF IInv, DeletedIsDraft, Reported
<1>9. DraftFits'
  <2>1. Drafts' = Drafts /\ Claimed' = Claimed /\ Confirmed' = Confirmed
    BY <1>1 DEF Drafts, Claimed, Confirmed, Live
  <2>2. Quantity(Claimed)' = Quantity(Claimed) /\ Quantity(Confirmed)' = Quantity(Confirmed)
    BY <1>1, <2>1 DEF Quantity
  <2>. QED
    BY <1>1, <2>1, <2>2 DEF IInv, DraftFits
<1>. QED
    BY <1>4, <1>6, <1>7, <1>8, <1>9 DEF IInv

\* create_progress of the staff and of the portal.
LEMMA CreateIInv ==
    ASSUME IInv, NEW r \in Requests, NEW e \in Entries, NEW q \in Quantities, NEW d \in Days,
           CreateProgress(r, e, q, d) \/ PortalCreateProgress(r, e, q, d)
    PROVE  IInv'
<1>. DEFINE tally == CalcCumulative(Entries)
            row == NewEntry(q, d)
<1>1. tally \in Nat
    BY Cumulative DEF IInv
<1>2. row \in Row /\ row.status = "draft" /\ ~row.deleted /\ row.qty = q
    BY DEF NewEntry, Row, Status
<1>3. /\ entry[e].status = "absent" /\ Work(r, e, row, tally)
      /\ tally + q <= Assigned \/ ~Exceeds(Assigned, tally + q)
    BY DEF CreateProgress, PortalCreateProgress, FreshId
<1>. HIDE DEF tally, row
<1>4. tally + q <= Assigned
    BY <1>1, <1>3, Constants DEF Exceeds
<1>5. tally # Unchecked
    BY <1>1, Constants
<1>6. Handles([entry |-> e, loaded |-> entry[e], assigned |-> row, tally |-> tally])
    BY <1>2, <1>3, <1>5 DEF Handles, Creates
<1>. QED
    BY <1>1, <1>2, <1>3, <1>4, <1>6, WorkIInv

LEMMA UpdateIInv ==
    ASSUME IInv, NEW r \in Requests, NEW e \in Entries, NEW q \in Quantities, NEW d \in Days,
           UpdateProgress(r, e, q, d)
    PROVE  IInv'
<1>. DEFINE tally == CalcCumulative(Entries \ {e})
            row == [entry[e] EXCEPT !.qty = q, !.day = d]
<1>1. tally \in Nat
    BY Cumulative DEF IInv
<1>2. /\ row \in Row /\ row.status = entry[e].status /\ row.deleted = entry[e].deleted
      /\ row.qty = q
    BY RowType DEF IInv, Row
<1>3. /\ entry[e].status = "draft" /\ ~entry[e].deleted
      /\ IF q = entry[e].qty
         THEN Work(r, e, row, Unchecked)
         ELSE Work(r, e, row, tally) /\ ~Exceeds(Assigned, tally + q)
    BY DEF UpdateProgress, Live
<1>. HIDE DEF tally, row
<1>4. CASE q = entry[e].qty
  <2>1. Handles([entry |-> e, loaded |-> entry[e], assigned |-> row, tally |-> Unchecked])
    BY <1>2, <1>3, <1>4 DEF Handles, Updates
  <2>. QED
    BY <1>2, <1>3, <1>4, <2>1, WorkIInv
<1>5. CASE q # entry[e].qty
  <2>1. tally + q <= Assigned /\ tally # Unchecked
    BY <1>1, <1>3, <1>5, Constants DEF Exceeds
  <2>2. Handles([entry |-> e, loaded |-> entry[e], assigned |-> row, tally |-> tally])
    BY <1>2, <1>3, <2>1 DEF Handles, Updates
  <2>. QED
    BY <1>1, <1>2, <1>3, <1>5, <2>1, <2>2, WorkIInv
<1>. QED
    BY <1>4, <1>5

\* The handlers that leave the quantity alone.
LEMMA MarkIInv ==
    ASSUME IInv, NEW r \in Requests, NEW e \in Entries,
           \/ DeleteProgress(r, e)
           \/ SubmitProgress(r, e)
           \/ \E verdict \in {"approved", "rejected"} : ApproveProgress(r, e, verdict)
    PROVE  IInv'
<1>1. entry[e] \in Row
    BY RowType DEF IInv
<1>2. entry[e].status # "absent" /\ e \notin raced => entry[e].qty \in Quantities
    BY DEF IInv, Reported
<1>3. CASE DeleteProgress(r, e)
  <2>. DEFINE row == [entry[e] EXCEPT !.deleted = TRUE]
  <2>1. entry[e].status = "draft" /\ ~entry[e].deleted /\ Work(r, e, row, Unchecked)
    BY <1>3 DEF DeleteProgress, Live
  <2>2. row \in Row /\ row.qty = entry[e].qty
    BY <1>1 DEF Row
  <2>3. Handles([entry |-> e, loaded |-> entry[e], assigned |-> row, tally |-> Unchecked])
    BY <2>1 DEF Handles, Deletes
  <2>. HIDE DEF row
  <2>. QED
    BY <1>2, <2>1, <2>2, <2>3, WorkIInv
<1>4. CASE SubmitProgress(r, e)
  <2>. DEFINE row == [entry[e] EXCEPT !.status = "submitted"]
  <2>1. entry[e].status = "draft" /\ ~entry[e].deleted /\ Work(r, e, row, Unchecked)
    BY <1>4 DEF SubmitProgress, Live
  <2>2. row \in Row /\ row.qty = entry[e].qty
    BY <1>1 DEF Row, Status
  <2>3. Handles([entry |-> e, loaded |-> entry[e], assigned |-> row, tally |-> Unchecked])
    BY <2>1 DEF Handles, Submits
  <2>. HIDE DEF row
  <2>. QED
    BY <1>2, <2>1, <2>2, <2>3, WorkIInv
<1>5. ASSUME NEW verdict \in {"approved", "rejected"}, ApproveProgress(r, e, verdict)
      PROVE  IInv'
  <2>. DEFINE row == [entry[e] EXCEPT !.status = verdict]
  <2>1. entry[e].status = "submitted" /\ ~entry[e].deleted /\ Work(r, e, row, Unchecked)
    BY <1>5 DEF ApproveProgress, Live
  <2>2. row \in Row /\ row.qty = entry[e].qty
    BY <1>1 DEF Row, Status
  <2>3. Handles([entry |-> e, loaded |-> entry[e], assigned |-> row, tally |-> Unchecked])
    BY <2>1 DEF Handles, Decides
  <2>. HIDE DEF row
  <2>. QED
    BY <1>2, <2>1, <2>2, <2>3, WorkIInv
<1>. QED
    BY <1>3, <1>4, <1>5

-----------------------------------------------------------------------------
(* The commit. *)

\* Unless it raced, a commit writes what was assigned over the row that was
\* loaded.
LEMMA CommitEffect ==
    ASSUME IInv, NEW r \in Requests, Commit(r)
    PROVE  LET t == txn[r]
               e == t.entry
           IN  /\ t \in Txn /\ TxnInv(r) /\ Handles(t) /\ e \in Entries
               /\ entry' \in [Entries -> Row]
               /\ \A d \in Entries \ {e} : entry'[d] = entry[d]
               /\ raced \subseteq raced' /\ raced' \subseteq raced \union {e}
               /\ e \notin raced' =>
                     e \notin raced /\ entry[e] = t.loaded /\ entry'[e] = t.assigned
<1>. DEFINE t == txn[r]
            e == t.entry
<1>1. t \in Txn /\ TxnInv(r) /\ Handles(t)
    BY DEF Commit, IInv, TypeOK, TxnInv
<1>2. e \in Entries /\ t.loaded \in Row /\ t.assigned \in Row /\ entry \in [Entries -> Row]
    BY <1>1 DEF Txn, IInv, TypeOK
<1>3. /\ entry' = [entry EXCEPT ![e] = Flush(t, entry[e])]
      /\ raced' = IF entry[e] = t.loaded THEN raced ELSE raced \union {e}
    BY DEF Commit
<1>. HIDE DEF t, e
<1>4. Flush(t, entry[e]) \in Row
    BY <1>2 DEF Flush, Flushed, Row
<1>5. entry[e] = t.loaded => Flush(t, entry[e]) = t.assigned
    BY <1>2 DEF Flush, Flushed, Row
<1>. DEFINE row == Flush(t, entry[e])
<1>6. entry' = [entry EXCEPT ![e] = row] /\ row \in Row /\ (entry[e] = t.loaded => row = t.assigned)
    BY <1>3, <1>4, <1>5
<1>. HIDE DEF row
<1>7. /\ entry' \in [Entries -> Row] /\ entry'[e] = row
      /\ \A d \in Entries \ {e} : entry'[d] = entry[d]
    BY <1>2, <1>6
<1>. QED
    BY <1>1, <1>2, <1>3, <1>6, <1>7 DEF t, e

\* What a row that did not race was and becomes.
LEMMA CommitOwn ==
    ASSUME IInv, NEW r \in Requests, Commit(r), txn[r].entry \notin raced'
    PROVE  LET t == txn[r]
               e == t.entry
           IN  \/ /\ entry[e].status = "absent" /\ t.tally # Unchecked
                  /\ entry'[e].status = "draft" /\ ~entry'[e].deleted
               \/ /\ entry[e].status = "draft" /\ ~entry[e].deleted
                  /\ entry'[e].status = "draft" /\ ~entry'[e].deleted
                  /\ t.tally = Unchecked => entry'[e].qty = entry[e].qty
               \/ /\ entry[e].status = "draft" /\ ~entry[e].deleted
                  /\ entry'[e].status = "draft" /\ entry'[e].deleted
                  /\ t.tally = Unchecked
               \/ /\ entry[e].status = "draft" /\ ~entry[e].deleted
                  /\ entry'[e].status = "submitted" /\ ~entry'[e].deleted
                  /\ entry'[e].qty = entry[e].qty
                  /\ t.tally = Unchecked
               \/ /\ entry[e].status = "submitted" /\ ~entry[e].deleted
                  /\ entry'[e].status \in {"approved", "rejected"} /\ ~entry'[e].deleted
                  /\ entry'[e].qty = entry[e].qty
                  /\ t.tally = Unchecked
<1>. DEFINE t == txn[r]
            e == t.entry
<1>1. Handles(t) /\ t \in Txn /\ entry[e] = t.loaded /\ entry'[e] = t.assigned
    BY CommitEffect
<1>2. t.loaded \in Row
    BY <1>1 DEF Txn
<1>. HIDE DEF t, e
<1>3. CASE Creates(t)
    BY <1>1, <1>3 DEF Creates, t, e
<1>4. CASE Updates(t)
    BY <1>1, <1>4 DEF Updates, t, e
<1>5. CASE Deletes(t)
  <2>1. t.assigned.status = t.loaded.status /\ t.assigned.deleted
    BY <1>2, <1>5 DEF Deletes, Row
  <2>. QED
    BY <1>1, <1>5, <2>1 DEF Deletes, t, e
<1>6. CASE Submits(t)
  <2>1. /\ t.assigned.status = "submitted" /\ t.assigned.deleted = t.loaded.deleted
        /\ t.assigned.qty = t.loaded.qty
    BY <1>2, <1>6 DEF Submits, Row
  <2>. QED
    BY <1>1, <1>6, <2>1 DEF Submits, t, e
<1>7. CASE Decides(t)
  <2>1. /\ t.assigned.status \in {"approved", "rejected"}
        /\ t.assigned.deleted = t.loaded.deleted
        /\ t.assigned.qty = t.loaded.qty
    BY <1>2, <1>7 DEF Decides, Row
  <2>. QED
    BY <1>1, <1>7, <2>1 DEF Decides, t, e
<1>. QED
    BY <1>1, <1>3, <1>4, <1>5, <1>6, <1>7 DEF Handles

\* A commit moves its entry from one tally to the next.
LEMMA CommitTallies ==
    ASSUME IInv, NEW r \in Requests, Commit(r), raced' = {}, ~piled'
    PROVE  LET e == txn[r].entry
               C == Quantity(Claimed)
               F == Quantity(Confirmed)
               q == entry'[e].qty
           IN  \* nothing but a draft is written, what was checked fits, or
               \/ /\ Quantity(Claimed)' = C /\ Quantity(Confirmed)' = F
                  /\ Drafts' \subseteq Drafts \union {e}
                  /\ e \in Drafts' => Drafts' = {e} /\ C + F + q <= Assigned
               \* a draft is claimed, or
               \/ /\ Quantity(Claimed)' = C + q /\ Quantity(Confirmed)' = F
                  /\ q \in Quantities /\ C + F + q <= Assigned
                  /\ Drafts' = {}
               \* a claim is confirmed or withdrawn.
               \/ /\ Quantity(Claimed)' = C - q
                  /\ Quantity(Confirmed)' = F + q \/ Quantity(Confirmed)' = F
                  /\ q \in Quantities /\ q <= C
                  /\ Drafts' = Drafts /\ e \notin Drafts
<1>. DEFINE t == txn[r]
            e == t.entry
            q == entry'[e].qty
            qty == [d \in Entries |-> entry[d].qty]
            new == [d \in Entries |-> entry'[d].qty]
            C == Quantity(Claimed)
            F == Quantity(Confirmed)
<1>1. /\ t \in Txn /\ e \in Entries /\ entry' \in [Entries -> Row]
      /\ \A d \in Entries \ {e} : entry'[d] = entry[d]
      /\ raced = {} /\ e \notin raced' /\ TypeOK /\ TxnInv(r)
      /\ entry[e] = t.loaded /\ entry'[e] = t.assigned
    BY CommitEffect DEF IInv
<1>2. ~piled /\ (t.tally # Unchecked => ~Overlooked(t))
    BY DEF Commit
<1>3. C \in Nat /\ F \in Nat /\ Claimed \subseteq Entries /\ Confirmed \subseteq Entries
      /\ IsFiniteSet(Claimed) /\ IsFiniteSet(Confirmed)
    BY <1>1, QuantityType DEF Claimed, Confirmed
<1>4. Quantity(Claimed)' = SumFunctionOnSet(new, Claimed')
      /\ Quantity(Confirmed)' = SumFunctionOnSet(new, Confirmed')
      /\ C = SumFunctionOnSet(qty, Claimed) /\ F = SumFunctionOnSet(qty, Confirmed)
    BY DEF Quantity
<1>5. \A d \in Entries \ {e} : new[d] = qty[d]
    BY <1>1
<1>6. \A d \in Entries : qty[d] \in Nat /\ new[d] \in Nat
  <2>1. \A d \in Entries : entry[d].qty \in Nat
    BY <1>1, RowType
  <2>2. \A d \in Entries : entry'[d].qty \in Nat
    <3>1. \A d \in Entries : entry'[d].qty \in Quantities \union {0}
        BY <1>1 DEF Row
    <3>2. Quantities \union {0} \subseteq Nat
        BY QuantitiesAssumption
    <3>. QED
        BY <3>1, <3>2, Zenon
  <2>. QED
    BY <2>1, <2>2
<1>7. q = new[e] /\ q \in Nat
    BY <1>1, <1>6
<1>8. \A d \in Entries \ {e} :
         /\ d \in Drafts' <=> d \in Drafts
         /\ d \in Claimed' <=> d \in Claimed
         /\ d \in Confirmed' <=> d \in Confirmed
    BY <1>1 DEF Drafts, Claimed, Confirmed, Live
<1>9. Drafts' \subseteq Entries /\ Claimed' \subseteq Entries /\ Confirmed' \subseteq Entries
      /\ Drafts \subseteq Entries
    BY DEF Drafts, Claimed, Confirmed
<1>10. DraftFits
    BY DEF IInv
<1>11. q \in Quantities
    BY <1>1 DEF TxnInv, Commit
<1>12. t.tally # Unchecked => t.tally + q <= Assigned
    BY <1>1 DEF TxnInv, Commit
<1>13. t.tally # Unchecked /\ e \notin Claimed \union Confirmed =>
          t.tally = C + F /\ \A d \in Drafts : d = e
  <2>1. e \notin Claimed \union Confirmed => CalcCumulative(Entries \ {e}) = C + F
    BY <1>1, Cumulative
  <2>2. ~Overlooked(t) => CalcCumulative(Entries \ {e}) = t.tally /\ \A d \in Drafts : d = e
    BY DEF Overlooked, Drafts
  <2>. QED
    BY <1>2, <2>1, <2>2
<1>14. \A S \in SUBSET (Entries \ {e}) : SumFunctionOnSet(new, S) = SumFunctionOnSet(qty, S)
  <2>1. SUFFICES ASSUME NEW S \in SUBSET (Entries \ {e})
                 PROVE  SumFunctionOnSet(new, S) = SumFunctionOnSet(qty, S)
    OBVIOUS
  <2>2. IsFiniteSet(S)
    BY Constants, FS_Subset
  <2>3. \A d \in S : new[d] = qty[d]
    BY <1>5
  <2>. HIDE DEF new, qty
  <2>. QED
    BY <2>2, <2>3, SumSame
<1>. HIDE DEF t, e, q, qty, new, C, F
<1>15. CASE /\ e \notin Claimed \union Confirmed /\ e \notin Claimed' \union Confirmed'
            /\ e \in Drafts' => \/ e \in Drafts /\ q = entry[e].qty
                               \/ t.tally # Unchecked
  <2>1. Claimed' = Claimed /\ Confirmed' = Confirmed /\ Drafts' \subseteq Drafts \union {e}
    BY <1>3, <1>8, <1>9, <1>15
  <2>2. Claimed \in SUBSET (Entries \ {e}) /\ Confirmed \in SUBSET (Entries \ {e})
    BY <1>3, <1>15
  <2>3. Quantity(Claimed)' = C /\ Quantity(Confirmed)' = F
    BY <1>4, <1>14, <2>1, <2>2
  <2>4. ASSUME e \in Drafts'
        PROVE  Drafts' = {e} /\ C + F + q <= Assigned
    <3>1. CASE t.tally # Unchecked
        BY <1>12, <1>13, <1>15, <2>1, <2>4, <3>1
    <3>2. CASE e \in Drafts /\ q = entry[e].qty
      <4>1. Drafts = {e} /\ C + F + entry[e].qty <= Assigned
        BY <1>1, <1>2, <1>10, <3>2 DEF DraftFits, C, F
      <4>. QED
        BY <2>1, <2>4, <3>2, <4>1
    <3>. QED
        BY <1>15, <2>4, <3>1, <3>2
  <2>. QED
    BY <2>1, <2>3, <2>4 DEF C, F, q, e, t
<1>16. CASE /\ e \in Drafts /\ q = entry[e].qty
            /\ e \notin Drafts' /\ e \in Claimed' /\ e \notin Claimed
            /\ e \notin Confirmed' /\ e \notin Confirmed
  <2>1. Drafts = {e} /\ C + F + entry[e].qty <= Assigned
    BY <1>1, <1>2, <1>10, <1>16 DEF DraftFits, C, F
  <2>2. Drafts' = {} /\ Claimed' = Claimed \union {e} /\ Confirmed' = Confirmed
    <3>1. e \in Entries /\ Drafts = {e}
        BY <1>1, <2>1
    <3>2. Claimed' = Claimed \union {e}
        BY <1>3, <1>8, <1>9, <1>16, <3>1
    <3>3. Confirmed' = Confirmed
        BY <1>3, <1>8, <1>9, <1>16, <3>1
    <3>4. Drafts' = {}
        BY <1>8, <1>9, <1>16, <3>1
    <3>. QED
        BY <3>2, <3>3, <3>4
  <2>3. Claimed \in SUBSET (Entries \ {e}) /\ Confirmed \in SUBSET (Entries \ {e})
    BY <1>3, <1>16
  <2>4. SumFunctionOnSet(new, Claimed \union {e}) = new[e] + SumFunctionOnSet(new, Claimed)
    <3>1. \A d \in Claimed : new[d] \in Int
        BY <1>3, <1>6
    <3>2. new[e] \in Int
        BY <1>1, <1>6
    <3>. QED
        BY <1>3, <1>16, <3>1, <3>2, SumAdd
  <2>5. SumFunctionOnSet(new, Claimed) = C /\ SumFunctionOnSet(new, Confirmed) = F
    BY <1>4, <1>14, <2>3
  <2>6. Quantity(Claimed)' = C + q /\ Quantity(Confirmed)' = F
    BY <1>3, <1>4, <1>7, <2>2, <2>4, <2>5
  <2>. QED
    BY <1>11, <1>16, <2>1, <2>2, <2>6 DEF C, F, q, e, t
<1>17. CASE /\ e \notin Drafts /\ q = entry[e].qty
            /\ e \notin Drafts' /\ e \notin Claimed' /\ e \in Claimed
            /\ e \notin Confirmed
  <2>1. Drafts' = Drafts /\ Claimed' = Claimed \ {e}
          /\ Confirmed' \in {Confirmed, Confirmed \union {e}}
    BY <1>1, <1>3, <1>8, <1>9, <1>17
  <2>2. Claimed \ {e} \in SUBSET (Entries \ {e}) /\ Confirmed \in SUBSET (Entries \ {e})
    BY <1>3, <1>17
  <2>3. C = qty[e] + SumFunctionOnSet(qty, Claimed \ {e})
    <3>1. \A d \in Claimed : qty[d] \in Int
        BY <1>3, <1>6
    <3>. QED
        BY <1>3, <1>4, <1>17, <3>1, SumRemove
  <2>4. qty[e] = q
    BY <1>1, <1>17 DEF qty
  <2>5. SumFunctionOnSet(qty, Claimed \ {e}) \in Nat
    <3>1. IsFiniteSet(Claimed \ {e})
        BY <1>3, FS_RemoveElement
    <3>2. \A d \in Claimed \ {e} : qty[d] \in Nat
        BY <1>3, <1>6
    <3>. QED
        BY <3>1, <3>2, SumNat
  <2>6. Quantity(Claimed)' = C - q /\ q <= C
    <3>1. Quantity(Claimed)' = SumFunctionOnSet(qty, Claimed \ {e})
        BY <1>4, <1>14, <2>1, <2>2
    <3>. QED
        BY <1>3, <1>7, <2>3, <2>4, <2>5, <3>1
  <2>7. SumFunctionOnSet(new, Confirmed) = F
    BY <1>4, <1>14, <2>2
  <2>8. SumFunctionOnSet(new, Confirmed \union {e}) = new[e] + SumFunctionOnSet(new, Confirmed)
    <3>1. \A d \in Confirmed : new[d] \in Int
        BY <1>3, <1>6
    <3>2. new[e] \in Int
        BY <1>1, <1>6
    <3>. QED
        BY <1>3, <1>17, <3>1, <3>2, SumAdd
  <2>9. Quantity(Confirmed)' = F + q \/ Quantity(Confirmed)' = F
    BY <1>3, <1>4, <1>7, <2>1, <2>7, <2>8
  <2>. QED
    BY <1>11, <1>17, <2>1, <2>6, <2>9 DEF C, F, q, e, t
<1>18. \/ /\ entry[e].status = "absent" /\ t.tally # Unchecked
          /\ entry'[e].status = "draft" /\ ~entry'[e].deleted
       \/ /\ entry[e].status = "draft" /\ ~entry[e].deleted
          /\ entry'[e].status = "draft" /\ ~entry'[e].deleted
          /\ t.tally = Unchecked => q = entry[e].qty
       \/ /\ entry[e].status = "draft" /\ ~entry[e].deleted
          /\ entry'[e].status = "draft" /\ entry'[e].deleted
          /\ t.tally = Unchecked
       \/ /\ entry[e].status = "draft" /\ ~entry[e].deleted
          /\ entry'[e].status = "submitted" /\ ~entry'[e].deleted
          /\ q = entry[e].qty
          /\ t.tally = Unchecked
       \/ /\ entry[e].status = "submitted" /\ ~entry[e].deleted
          /\ entry'[e].status \in {"approved", "rejected"} /\ ~entry'[e].deleted
          /\ q = entry[e].qty
          /\ t.tally = Unchecked
    BY <1>1, CommitOwn DEF t, e, q
<1>19. /\ e \in Drafts <=> ~entry[e].deleted /\ entry[e].status = "draft"
       /\ e \in Drafts' <=> ~entry'[e].deleted /\ entry'[e].status = "draft"
       /\ e \in Claimed <=> ~entry[e].deleted /\ entry[e].status = "submitted"
       /\ e \in Claimed' <=> ~entry'[e].deleted /\ entry'[e].status = "submitted"
       /\ e \in Confirmed <=> ~entry[e].deleted /\ entry[e].status = "approved"
       /\ e \in Confirmed' <=> ~entry'[e].deleted /\ entry'[e].status = "approved"
    BY <1>1 DEF Drafts, Claimed, Confirmed, Live
<1>. QED
    BY <1>15, <1>16, <1>17, <1>18, <1>19

LEMMA CommitIInv ==
    ASSUME IInv, NEW r \in Requests, Commit(r)
    PROVE  IInv'
<1>. DEFINE t == txn[r]
            e == t.entry
<1>1. /\ e \in Entries /\ entry' \in [Entries -> Row] /\ TypeOK
      /\ \A d \in Entries \ {e} : entry'[d] = entry[d]
      /\ raced \subseteq raced' /\ raced' \subseteq raced \union {e}
    BY CommitEffect DEF IInv
<1>2. txn' = [txn EXCEPT ![r] = NoTxn] /\ open' = open
      /\ piled' = (piled \/ (t.tally # Unchecked /\ Overlooked(t)))
    BY DEF Commit
<1>3. TypeOK'
  <2>1. txn' \in [Requests -> Txn \union {NoTxn}] /\ open' \in BOOLEAN /\ piled' \in BOOLEAN
    BY <1>1, <1>2 DEF TypeOK
  <2>2. raced' \subseteq Entries
    BY <1>1 DEF TypeOK
  <2>. QED
    BY <1>1, <2>1, <2>2 DEF TypeOK
<1>4. ASSUME NEW q \in Requests PROVE TxnInv(q)'
  <2>1. txn'[q] = txn[q] \/ txn'[q] = NoTxn
    BY <1>1, <1>2 DEF TypeOK
  <2>. QED
    BY <1>1, <2>1 DEF IInv, TxnInv
<1>5. ASSUME NEW d \in Entries PROVE Reported(d)'
  <2>1. CASE d # e
    BY <1>1, <2>1 DEF IInv, Reported
  <2>2. CASE d = e
    <3>1. e \notin raced' => t.assigned.qty \in Quantities /\ entry'[e] = t.assigned
        BY CommitEffect DEF TxnInv, Commit
    <3>. QED
        BY <2>2, <3>1 DEF Reported
  <2>. QED
    BY <2>1, <2>2
<1>6. DeletedIsDraft'
  <2>1. SUFFICES ASSUME NEW d \in Entries \ raced', entry'[d].deleted
                 PROVE  entry'[d].status = "draft"
    BY DEF DeletedIsDraft
  <2>2. CASE d # e
    BY <1>1, <2>1, <2>2 DEF IInv, DeletedIsDraft
  <2>3. CASE d = e
    BY <2>1, <2>3, CommitOwn
  <2>. QED
    BY <2>2, <2>3
<1>7. DraftFits'
  <2>1. SUFFICES ASSUME ~piled', raced' = {}, NEW d \in Drafts'
                 PROVE  /\ Drafts' = {d}
                        /\ Quantity(Claimed)' + Quantity(Confirmed)' + entry'[d].qty <= Assigned
    BY DEF DraftFits
  <2>. DEFINE C == Quantity(Claimed)
              F == Quantity(Confirmed)
              q == entry'[e].qty
  <2>2. C \in Nat /\ F \in Nat /\ ~piled /\ raced = {} /\ entry'[d].qty \in Nat
    <3>1. C \in Nat /\ F \in Nat
        BY <1>1, QuantityType DEF Claimed, Confirmed
    <3>2. entry'[d].qty \in Quantities \union {0} /\ Quantities \union {0} \subseteq Nat
        BY <1>1, <2>1, QuantitiesAssumption DEF Drafts, Row
    <3>3. entry'[d].qty \in Nat
        BY <3>2, Zenon
    <3>. QED
        BY <1>1, <1>2, <2>1, <3>1, <3>3
  <2>3. DraftFits
    BY DEF IInv
  <2>4. CASE /\ Quantity(Claimed)' = C /\ Quantity(Confirmed)' = F
             /\ Drafts' \subseteq Drafts \union {e}
             /\ e \in Drafts' => Drafts' = {e} /\ C + F + q <= Assigned
    <3>1. CASE e \in Drafts'
        BY <2>1, <2>4, <3>1
    <3>2. CASE e \notin Drafts'
      <4>1. d \in Drafts /\ d # e
        BY <2>1, <2>4, <3>2
      <4>2. Drafts = {d} /\ C + F + entry[d].qty <= Assigned
        BY <2>2, <2>3, <4>1 DEF DraftFits
      <4>3. entry'[d] = entry[d]
        BY <1>1, <4>1 DEF Drafts
      <4>4. Drafts' = {d}
        BY <2>1, <2>4, <3>2, <4>2
      <4>. HIDE DEF C, F, e, t
      <4>. QED
        BY <2>4, <4>2, <4>3, <4>4
    <3>. QED
        BY <3>1, <3>2
  <2>5. CASE /\ Quantity(Claimed)' = C - q
             /\ Quantity(Confirmed)' = F + q \/ Quantity(Confirmed)' = F
             /\ q \in Quantities /\ q <= C
             /\ Drafts' = Drafts /\ e \notin Drafts
    <3>1. Drafts = {d} /\ C + F + entry[d].qty <= Assigned
        BY <2>1, <2>2, <2>3, <2>5 DEF DraftFits
    <3>2. entry'[d] = entry[d]
        BY <1>1, <2>1, <2>5 DEF Drafts
    <3>3. q \in Nat
        BY <2>5, QuantitiesAssumption
    <3>. HIDE DEF C, F, e, t, q
    <3>4. Quantity(Claimed)' + Quantity(Confirmed)' + entry'[d].qty <= Assigned
      <4>1. Quantity(Claimed)' + Quantity(Confirmed)' <= C + F
        BY <2>2, <2>5, <3>3
      <4>2. Quantity(Claimed)' \in Int /\ Quantity(Confirmed)' \in Int
        BY <2>2, <2>5, <3>3
      <4>. QED
        BY <2>2, <3>1, <3>2, <4>1, <4>2, Constants
    <3>. QED
        BY <2>5, <3>1, <3>4
  <2>6. CASE Drafts' = {}
    BY <2>1, <2>6
  <2>. QED
    BY <2>1, <2>4, <2>5, <2>6, CommitTallies
<1>. QED
    BY <1>3, <1>4, <1>5, <1>6, <1>7 DEF IInv

\* Everything else that leaves the entries alone.
LEMMA KeepIInv ==
    ASSUME IInv, UNCHANGED <<entry, raced, piled>>, open' \in BOOLEAN,
           \/ txn' = txn
           \/ \E r \in Requests : txn' = [txn EXCEPT ![r] = NoTxn]
    PROVE  IInv'
<1>1. TypeOK'
    BY DEF IInv, TypeOK
<1>2. \A q \in Requests : txn'[q] = txn[q] \/ txn'[q] = NoTxn
    BY DEF IInv, TypeOK
<1>3. \A q \in Requests : TxnInv(q)'
    BY <1>2 DEF IInv, TxnInv
<1>4. DeletedIsDraft' /\ \A d \in Entries : Reported(d)'
    BY DEF IInv, DeletedIsDraft, Reported
<1>5. Drafts' = Drafts /\ Claimed' = Claimed /\ Confirmed' = Confirmed
    BY DEF Drafts, Claimed, Confirmed, Live
<1>6. Quantity(Claimed)' = Quantity(Claimed) /\ Quantity(Confirmed)' = Quantity(Confirmed)
    BY <1>5 DEF Quantity
<1>7. DraftFits'
    BY <1>5, <1>6 DEF IInv, DraftFits
<1>. QED
    BY <1>1, <1>3, <1>4, <1>7 DEF IInv

LEMMA StepIInv ==
    ASSUME IInv, [Next]_vars
    PROVE  IInv'
<1>1. CASE \E r \in Requests, e \in Entries, q \in Quantities, d \in Days :
              CreateProgress(r, e, q, d) \/ PortalCreateProgress(r, e, q, d)
    BY <1>1, CreateIInv
<1>2. CASE \E r \in Requests, e \in Entries, q \in Quantities, d \in Days :
              UpdateProgress(r, e, q, d)
    BY <1>2, UpdateIInv
<1>3. CASE \E r \in Requests, e \in Entries :
              \/ DeleteProgress(r, e)
              \/ SubmitProgress(r, e)
              \/ \E verdict \in {"approved", "rejected"} : ApproveProgress(r, e, verdict)
    BY <1>3, MarkIInv
<1>4. CASE \E r \in Requests : Commit(r)
    BY <1>4, CommitIInv
<1>5. open \in BOOLEAN
    BY DEF IInv, TypeOK
<1>6. CASE \E r \in Requests : Rollback(r)
    BY <1>5, <1>6, KeepIInv DEF Rollback
<1>7. CASE OpenOrClose
    BY <1>5, <1>7, KeepIInv DEF OpenOrClose
<1>8. CASE UNCHANGED vars
    BY <1>5, <1>8, KeepIInv DEF vars
<1>. QED
    BY <1>1, <1>2, <1>3, <1>4, <1>6, <1>7, <1>8 DEF Next

LEMMA Inductive == Spec => []IInv
<1>. QED
    BY InitIInv, StepIInv, PTL DEF Spec

-----------------------------------------------------------------------------
(* The theorems. *)

\* Type correctness: every entry and every request in flight has its columns.
THEOREM TypeCorrect == Spec => []TypeOK
<1>1. IInv => TypeOK
    BY DEF IInv
<1>. QED
    BY <1>1, Inductive, PTL

\* delete_progress takes drafts only, and the others nothing that is deleted:
\* without a race every deleted entry is a draft.
THEOREM OnlyDraftsAreDeleted == Spec => []DeletedIsDraft
<1>1. IInv => DeletedIsDraft
    BY DEF IInv
<1>. QED
    BY <1>1, Inductive, PTL

\* A step changes an entry only by a commit.
LEMMA OtherSteps ==
    ASSUME [Next]_vars, ~ \E r \in Requests : Commit(r)
    PROVE  UNCHANGED <<entry, raced, piled>>
<1>1. \A r, e, row, tally : Work(r, e, row, tally) => UNCHANGED <<entry, raced, piled>>
    BY DEF Work
<1>2. \A r, e, q, d : CreateProgress(r, e, q, d) \/ PortalCreateProgress(r, e, q, d)
                        => UNCHANGED <<entry, raced, piled>>
    BY <1>1, Zenon DEF CreateProgress, PortalCreateProgress
<1>3. \A r, e, q, d : UpdateProgress(r, e, q, d) => UNCHANGED <<entry, raced, piled>>
    BY <1>1, Zenon DEF UpdateProgress
<1>4. \A r, e : DeleteProgress(r, e) \/ SubmitProgress(r, e) => UNCHANGED <<entry, raced, piled>>
    BY <1>1, Zenon DEF DeleteProgress, SubmitProgress
<1>5. \A r, e, verdict : ApproveProgress(r, e, verdict) => UNCHANGED <<entry, raced, piled>>
    BY <1>1, Zenon DEF ApproveProgress
<1>6. \A r : Rollback(r) => UNCHANGED <<entry, raced, piled>>
    BY DEF Rollback
<1>7. OpenOrClose \/ UNCHANGED vars => UNCHANGED <<entry, raced, piled>>
    BY DEF OpenOrClose, vars
<1>. QED
    BY <1>2, <1>3, <1>4, <1>5, <1>6, <1>7, Zenon DEF Next

\* What approve_progress has decided stays as it is, unless a commit overwrites
\* it that had loaded the entry before.
LEMMA StepDecided ==
    ASSUME IInv, [Next]_vars, NEW e \in Entries,
           entry[e].status \in {"approved", "rejected"}, e \notin raced'
    PROVE  entry'[e] = entry[e]
<1>1. CASE \E r \in Requests : Commit(r)
  <2>1. PICK r \in Requests : Commit(r)
    BY <1>1
  <2>2. CASE txn[r].entry = e
    BY <2>1, <2>2, CommitOwn
  <2>3. CASE txn[r].entry # e
    BY <2>1, <2>3, CommitEffect
  <2>. QED
    BY <2>2, <2>3
<1>. QED
    BY <1>1, OtherSteps

\* A decided entry, on which certificates are based, is never edited, deleted or
\* decided again, unless writes raced.
THEOREM DecisionsAreFinal == Spec => DecidedIsFinal
<1>1. IInv /\ [Next]_vars =>
        [\A e \in Entries :
            /\ entry[e].status \in {"approved", "rejected"}
            /\ e \notin raced'
            => entry'[e] = entry[e]]_vars
    BY StepDecided
<1>. QED
    BY <1>1, Inductive, PTL DEF Spec, DecidedIsFinal

\* The refinement: before the first conflict a commit is a step of WorkLog or
\* leaves its quantities alone.
LEMMA CommitLog ==
    ASSUME IInv, NEW r \in Requests, Commit(r)
    PROVE  Log!Next \/ UNCHANGED Log!wvars
<1>. DEFINE C == Quantity(Claimed)
            F == Quantity(Confirmed)
            q == entry'[txn[r].entry].qty
<1>1. CASE piled' \/ raced' # {}
    BY <1>1 DEF Log!Next, Log!Conflict
<1>2. CASE ~piled' /\ raced' = {}
  <2>1. ~piled /\ raced = {}
    BY <1>2, CommitEffect DEF Commit
  <2>2. C \in Nat /\ F \in Nat /\ Assigned \in Nat /\ \A x \in Quantities : x \in Nat /\ x >= 1
    BY QuantityType, Constants DEF IInv, Claimed, Confirmed
  <2>3. \/ C' = C /\ F' = F
        \/ C' = C + q /\ F' = F /\ q \in Quantities /\ C + F + q <= Assigned
        \/ C' = C - q /\ (F' = F + q \/ F' = F) /\ q \in Quantities /\ q <= C
    BY <1>2, CommitTallies
  <2>4. UNCHANGED (piled \/ raced # {})
    BY <1>2, <2>1
  <2>. HIDE DEF q, C, F
  <2>5. CASE C' = C /\ F' = F
    BY <2>4, <2>5 DEF Log!wvars, C, F, Claimed, Confirmed
  <2>6. CASE C' = C + q /\ F' = F /\ q \in Quantities /\ C + F + q <= Assigned
    <3>1. q \in 1..(Assigned - C - F)
        BY <2>2, <2>6
    <3>2. Log!Claim
        BY <2>6, <3>1 DEF Log!Claim, C, F, Claimed, Confirmed
    <3>. QED
        BY <2>4, <3>2 DEF Log!Next
  <2>7. CASE C' = C - q /\ F' = F + q /\ q \in Quantities /\ q <= C
    <3>1. q \in 1..C
        BY <2>2, <2>7
    <3>2. Log!Confirm
        BY <2>7, <3>1 DEF Log!Confirm, C, F, Claimed, Confirmed
    <3>. QED
        BY <2>4, <3>2 DEF Log!Next
  <2>8. CASE C' = C - q /\ F' = F /\ q \in Quantities /\ q <= C
    <3>1. q \in 1..C
        BY <2>2, <2>8
    <3>2. Log!Withdraw
        BY <2>8, <3>1 DEF Log!Withdraw, C, F, Claimed, Confirmed
    <3>. QED
        BY <2>4, <3>2 DEF Log!Next
  <2>. QED
    BY <2>3, <2>5, <2>6, <2>7, <2>8
<1>. QED
    BY <1>1, <1>2

LEMMA StepLog ==
    ASSUME IInv, [Next]_vars
    PROVE  Log!Next \/ UNCHANGED Log!wvars
<1>1. CASE \E r \in Requests : Commit(r)
    BY <1>1, CommitLog
<1>2. CASE ~ \E r \in Requests : Commit(r)
  <2>1. UNCHANGED <<entry, raced, piled>>
    BY <1>2, OtherSteps
  <2>2. Claimed' = Claimed /\ Confirmed' = Confirmed
    BY <2>1 DEF Claimed, Confirmed, Live
  <2>3. Quantity(Claimed)' = Quantity(Claimed) /\ Quantity(Confirmed)' = Quantity(Confirmed)
    BY <2>1, <2>2 DEF Quantity
  <2>4. UNCHANGED (piled \/ raced # {})
    BY <2>1
  <2>. QED
    BY <2>3, <2>4 DEF Log!wvars, Claimed, Confirmed
<1>. QED
    BY <1>1, <1>2

\* Entries, with their handlers of staff and portal, implement WorkLog: work is
\* claimed within what is assigned, then confirmed for good or withdrawn, until
\* entries pile up behind one check or writes race.
THEOREM ImplementsWorkLog == Spec => KeepsLog
<1>1. Init => Log!Init
  <2>1. SUFFICES ASSUME Init PROVE Log!Init
    OBVIOUS
  <2>2. Claimed = {} /\ Confirmed = {}
    BY <2>1 DEF Init, NoEntry, Claimed, Confirmed, Live
  <2>3. Quantity(Claimed) = 0 /\ Quantity(Confirmed) = 0
    BY <2>2, SumEmpty DEF Quantity
  <2>. QED
    BY <2>1, <2>3 DEF Log!Init, Init, Claimed, Confirmed
<1>2. IInv /\ [Next]_vars => [Log!Next]_(Log!wvars)
    BY StepLog
<1>. QED
    BY <1>1, <1>2, Inductive, PTL DEF Spec, KeepsLog, Log!Spec

-----------------------------------------------------------------------------
(* One request at a time: no write ever meets a row that was not read.      *)

OneClient == \A q, r \in Requests : q = r

AloneInv ==
    /\ \A r \in Requests : txn[r] # NoTxn => txn[r].loaded = entry[txn[r].entry]
    /\ raced = {}

LEMMA AloneStep ==
    ASSUME OneClient, IInv, AloneInv, [Next]_vars
    PROVE  AloneInv'
<1>1. ASSUME NEW r \in Requests, Commit(r)
      PROVE  AloneInv'
  <2>1. txn[r] # NoTxn /\ txn[r].loaded = entry[txn[r].entry] /\ raced = {}
    BY <1>1 DEF Commit, AloneInv
  <2>2. \A q \in Requests : txn'[q] = NoTxn
    BY <1>1 DEF Commit, OneClient, IInv, TypeOK
  <2>. QED
    BY <1>1, <2>1, <2>2 DEF Commit, AloneInv
<1>2. ASSUME NEW r \in Requests, Rollback(r)
      PROVE  AloneInv'
  <2>1. \A q \in Requests : txn'[q] = NoTxn
    BY <1>2 DEF Rollback, OneClient, IInv, TypeOK
  <2>. QED
    BY <1>2, <2>1 DEF Rollback, AloneInv
<1>3. ASSUME NEW r \in Requests, NEW e \in Entries, NEW row, NEW tally, Work(r, e, row, tally)
      PROVE  AloneInv'
  <2>. DEFINE t == [entry |-> e, loaded |-> entry[e], assigned |-> row, tally |-> tally]
  <2>1. t.entry = e /\ t.loaded = entry[e]
    OBVIOUS
  <2>2. txn' = [txn EXCEPT ![r] = t] /\ UNCHANGED <<entry, raced>>
    BY <1>3 DEF Work
  <2>. HIDE DEF t
  <2>3. \A q \in Requests : txn'[q] = t
    BY <2>2 DEF OneClient, IInv, TypeOK
  <2>. QED
    BY <2>1, <2>2, <2>3 DEF AloneInv
<1>4. CASE OpenOrClose \/ UNCHANGED vars
    BY <1>4 DEF OpenOrClose, vars, AloneInv
<1>5. ASSUME NEW r \in Requests, NEW e \in Entries,
             \/ \E q \in Quantities, d \in Days :
                   \/ CreateProgress(r, e, q, d)
                   \/ PortalCreateProgress(r, e, q, d)
                   \/ UpdateProgress(r, e, q, d)
             \/ DeleteProgress(r, e)
             \/ SubmitProgress(r, e)
             \/ \E verdict \in {"approved", "rejected"} : ApproveProgress(r, e, verdict)
      PROVE  AloneInv'
  <2>1. \E row, tally : Work(r, e, row, tally)
    BY <1>5 DEF CreateProgress, PortalCreateProgress, UpdateProgress, DeleteProgress,
               SubmitProgress, ApproveProgress
  <2>. QED
    BY <1>3, <2>1
<1>. QED
    BY <1>1, <1>2, <1>4, <1>5 DEF Next

\* For a client that sends one request at a time a deleted entry is a draft, and an
\* approved or rejected one never changes, without exception.
THEOREM AloneDecisionsAreFinal ==
    ASSUME OneClient
    PROVE  Spec => /\ [](\A e \in Entries : entry[e].deleted => entry[e].status = "draft")
                   /\ [][\A e \in Entries :
                            entry[e].status \in {"approved", "rejected"}
                            => entry'[e] = entry[e]]_vars
<1>1. Init => AloneInv
    BY DEF Init, AloneInv
<1>2. IInv /\ AloneInv /\ [Next]_vars => AloneInv'
    BY AloneStep
<1>3. IInv /\ AloneInv =>
          \A e \in Entries : entry[e].deleted => entry[e].status = "draft"
    BY DEF IInv, AloneInv, DeletedIsDraft
<1>4. IInv /\ AloneInv' /\ [Next]_vars =>
          [\A e \in Entries :
              entry[e].status \in {"approved", "rejected"} => entry'[e] = entry[e]]_vars
    BY StepDecided DEF AloneInv
<1>. QED
    BY <1>1, <1>2, <1>3, <1>4, Inductive, PTL DEF Spec

================================================================================
