---------------------------- MODULE BillingProofs ----------------------------
(***************************************************************************)
(* Proofs about Billing, for any number of batches, orders, failing tasks  *)
(* and invoices of other organisations.                                    *)
(***************************************************************************)
EXTENDS Billing, TLAPS

(***************************************************************************)
(* The inductive invariant.  A transaction relies on what it has read of   *)
(* rows it has not locked, and an invoice on a number nobody has kept for  *)
(* it: the conjuncts added to the properties say what of that stays true.  *)
(***************************************************************************)

\* The row a transaction has locked is still pending, and the event it works on was sent
LockedIsPending ==
    \A p \in Payments :
        tx[p] # Idle => payment[p].status = "PENDING" /\ <<p, tx[p].kind>> \in sent

\* An order was made for a batch that existed, and a transaction that did not read
\* DRAFT read PAID
BatchesExist ==
    \A p \in Payments :
        /\ payment[p].status # "NONE" => batch[payment[p].of] # "NONE"
        /\ tx[p] # Idle /\ ~tx[p].draft => batch[payment[p].of] = "PAID"

CtHasCapture == \A p \in Payments : ct[p] # "NONE" => p \in Captured

\* A number that is about to be inserted follows one that is taken
DraftFollows ==
    \A p \in Payments :
        draft[p] # 0 => /\ payment[p].status = "SUCCESS" /\ number[p] = 0
                        /\ draft[p] = 1 \/ draft[p] - 1 \in Numbers

\* A transaction that is about to insert a number belongs to a task with attempts left
DraftsAreQueued == \A p \in Payments : draft[p] # 0 => jobs[p] > 0

NumbersAreAnInterval == \E k \in Nat : Numbers = 1..k

IInv ==
    /\ RowsOK
    /\ LockedIsPending /\ BatchesExist /\ CtHasCapture
    /\ ChargedOnce /\ BooksAgree
    /\ DraftFollows /\ DraftsAreQueued /\ NumbersAreAnInterval /\ InvoicesAreNumbered

----------------------------------------------------------------------------
(* The administrators.                                                     *)

\* A batch that is paid is a step of the organisation's module, or none of it.
LEMMA BatchPaidIsAStep == Admins!BatchPaid => [Admins!Next]_(Admins!vars)
BY DEF Admins!Next, Admins!BatchPaid, Admins!vars

LEMMA StepsAreAdminsSteps == [Next]_vars => [Admins!Next]_(Admins!vars)
<1> SUFFICES ASSUME [Next]_vars PROVE [Admins!Next]_(Admins!vars)
  OBVIOUS
<1>1. CASE AdminsStep
  BY <1>1 DEF AdminsStep
<1>2. CASE Admins!BatchPaid
  BY <1>2, BatchPaidIsAStep
<1>3. CASE UNCHANGED adminVars
  BY <1>3 DEF adminVars, Admins!vars
<1> QED
  BY <1>1, <1>2, <1>3
     DEF Next, vars, CreateBatch, MarkPaid, CreateOrder, Authorise, Capture, Refund, Emit,
         WebhookTask, BeginWebhook, CommitWebhook, GatewayMarksPaid, AbortWebhook, InvoiceTask,
         InvoiceTooEarly, NumberInvoice, StoreInvoice, StorageFails, OtherInvoice, CtReceive,
         CtApply, CtDie

\* The billing of an organisation is one more part of its life: whatever it does, the
\* organisation and its administrators behave as OrgAdmins says, so that what is proved
\* of OrgAdmins holds here as well (mark_licence_batch_paid and its three callers).
THEOREM BillingImplementsAdmins == Spec => Admins!Spec
<1>1. Init => Admins!Init
  BY DEF Init
<1> QED
  BY <1>1, StepsAreAdminsSteps, PTL DEF Spec, Admins!Spec

----------------------------------------------------------------------------
(* Lemmas about invoice numbers.                                           *)

\* The next number is the first that is free.
LEMMA NextIsFree ==
    ASSUME NEW k \in Nat, Numbers = 1..k
    PROVE  NextNumber = k + 1
<1>1. CASE k = 0
  BY <1>1 DEF NextNumber
<1>2. CASE k > 0
  <2>1. k \in Numbers /\ \A m \in Numbers : m <= k
    BY <1>2
  <2> DEFINE top == CHOOSE n \in Numbers : \A m \in Numbers : m <= n
  <2>2. top \in Numbers /\ \A m \in Numbers : m <= top
    BY <2>1
  <2>3. top = k
    BY <2>1, <2>2
  <2> QED
    BY <2>1, <2>3 DEF NextNumber
<1> QED
  BY <1>1, <1>2

\* Nothing happens to the invoices.
LEMMA InvoicesKept ==
    ASSUME IInv, UNCHANGED <<draft, number, others>>,
           \A p \in Payments : payment[p].status = "SUCCESS" => payment'[p].status = "SUCCESS",
           \A p \in Payments : payment[p].status = "SUCCESS" => jobs'[p] = jobs[p]
    PROVE  DraftFollows' /\ DraftsAreQueued' /\ NumbersAreAnInterval' /\ InvoicesAreNumbered'
<1>1. Numbers' = Numbers
  BY DEF Numbers
<1> QED
  BY <1>1 DEF IInv, DraftFollows, DraftsAreQueued, NumbersAreAnInterval, InvoicesAreNumbered

\* Nothing happens to the batches, payments, webhooks and transactions.
LEMMA BooksKept ==
    ASSUME IInv, UNCHANGED <<batch, marked, payment, sent, tx, ct>>
    PROVE  LockedIsPending' /\ BatchesExist' /\ CtHasCapture' /\ ChargedOnce' /\ BooksAgree'
<1>1. Captured' = Captured
  BY DEF Captured
<1> QED
  BY <1>1 DEF IInv, LockedIsPending, BatchesExist, CtHasCapture, ChargedOnce, BooksAgree

LEMMA InitInv == Init => IInv
<1> SUFFICES ASSUME Init PROVE IInv
  OBVIOUS
<1>1. RowsOK
  BY BillingAssumption DEF Init, RowsOK, BatchStatus, PaymentStatus, Kinds, Idle
<1>2. LockedIsPending /\ BatchesExist /\ CtHasCapture
  BY DEF Init, LockedIsPending, BatchesExist, CtHasCapture
<1>3. ChargedOnce /\ BooksAgree
  BY DEF Init, ChargedOnce, BooksAgree
<1>4. Numbers = {}
  BY DEF Init, Numbers
<1>5. DraftFollows /\ DraftsAreQueued /\ InvoicesAreNumbered
  BY <1>4 DEF Init, DraftFollows, DraftsAreQueued, InvoicesAreNumbered
<1>6. NumbersAreAnInterval
  <2>1. Numbers = 1..0
    BY <1>4
  <2> QED
    BY <2>1 DEF NumbersAreAnInterval
<1> QED
  BY <1>1, <1>2, <1>3, <1>5, <1>6 DEF IInv

----------------------------------------------------------------------------
(* One lemma for each kind of step.                                        *)

LEMMA CreateBatchKeeps ==
    ASSUME IInv, NEW b \in Batches, CreateBatch(b)
    PROVE  IInv'
<1>1. RowsOK
  BY DEF IInv
<1>2. /\ batch[b] = "NONE" /\ batch' = [batch EXCEPT ![b] = "DRAFT"]
      /\ UNCHANGED <<marked, payment, sent, tx, jobs, draft, number, others, faults, ct>>
  BY DEF CreateBatch, invoiceVars
<1>3. RowsOK'
  BY <1>1, <1>2 DEF RowsOK, BatchStatus
<1>4. Captured' = Captured
  BY <1>2 DEF Captured
<1>5. \A c \in Batches : batch'[c] # batch[c] => batch[c] = "NONE" /\ batch'[c] = "DRAFT"
  BY <1>1, <1>2 DEF RowsOK
<1>6. \A p \in Payments : payment[p].of \in Batches
  BY <1>1 DEF RowsOK
<1>7. LockedIsPending' /\ CtHasCapture' /\ ChargedOnce'
  BY <1>2, <1>4 DEF IInv, LockedIsPending, CtHasCapture, ChargedOnce
<1>8. BatchesExist' /\ BooksAgree'
  BY <1>2, <1>4, <1>5, <1>6 DEF IInv, BatchesExist, BooksAgree
<1> QED
  BY <1>2, <1>3, <1>7, <1>8, InvoicesKept DEF IInv

\* A batch is marked paid, by staff or for a capture: the books stay in agreement.
LEMMA PaidKeeps ==
    ASSUME IInv, NEW b \in Batches,
           batch' = [batch EXCEPT ![b] = "PAID"],
           \/ marked' = marked \cup {b}
           \/ marked' = marked \ {b} /\ \E p \in Captured : payment[p].of = b,
           UNCHANGED <<payment, sent>>
    PROVE  /\ batch' \in [Batches -> BatchStatus] /\ marked' \in SUBSET Batches
           /\ \A p \in Payments : payment[p].status # "NONE" => batch'[payment[p].of] # "NONE"
           /\ \A p \in Payments : batch[payment[p].of] = "PAID" => batch'[payment[p].of] = "PAID"
           /\ BooksAgree' /\ ChargedOnce'
<1>1. RowsOK
  BY DEF IInv
<1>2. Captured' = Captured
  BY DEF Captured
<1>3. batch' \in [Batches -> BatchStatus] /\ marked' \in SUBSET Batches
  BY <1>1 DEF RowsOK, BatchStatus
<1>4. \A c \in Batches : batch'[c] = IF c = b THEN "PAID" ELSE batch[c]
  BY <1>1 DEF RowsOK
<1>5. \A p \in Payments : payment[p].of \in Batches
  BY <1>1 DEF RowsOK
<1>6. BooksAgree'
  BY <1>2, <1>4, <1>5 DEF IInv, BooksAgree
<1> QED
  BY <1>3, <1>4, <1>5, <1>6 DEF IInv, BatchesExist, ChargedOnce

LEMMA MarkPaidKeeps ==
    ASSUME IInv, NEW b \in Batches, MarkPaid(b)
    PROVE  IInv'
<1>1. /\ batch' = [batch EXCEPT ![b] = "PAID"] /\ marked' = marked \cup {b}
      /\ UNCHANGED <<payment, sent, tx, jobs, draft, number, others, faults, ct>>
  BY DEF MarkPaid, invoiceVars
<1>2. RowsOK'
  BY <1>1, PaidKeeps DEF IInv, RowsOK
<1>3. Captured' = Captured
  BY <1>1 DEF Captured
<1>4. LockedIsPending' /\ CtHasCapture' /\ BatchesExist'
  BY <1>1, <1>3, PaidKeeps DEF IInv, LockedIsPending, CtHasCapture, BatchesExist
<1> QED
  BY <1>1, <1>2, <1>4, PaidKeeps, InvoicesKept DEF IInv

LEMMA CreateOrderKeeps ==
    ASSUME IInv, NEW p \in Payments, CreateOrder(p)
    PROVE  IInv'
<1>1. RowsOK
  BY DEF IInv
<1>2. /\ payment[p].status = "NONE" /\ payment' = [payment EXCEPT ![p].status = "PENDING"]
      /\ batch[payment[p].of] = "DRAFT" /\ PendingOf(payment[p].of) = {}
      /\ UNCHANGED <<batch, marked, sent, tx, jobs, draft, number, others, faults, ct>>
  BY DEF CreateOrder, invoiceVars, batchVars
<1>3. \A q \in Payments : payment'[q].of = payment[q].of
                            /\ payment'[q].status = IF q = p THEN "PENDING" ELSE payment[q].status
  BY <1>1, <1>2 DEF RowsOK
<1>4. RowsOK'
  BY <1>1, <1>2 DEF RowsOK, PaymentStatus
<1>5. Captured' = Captured
  BY <1>2 DEF Captured
<1>6. LockedIsPending' /\ BatchesExist' /\ CtHasCapture' /\ BooksAgree'
  BY <1>2, <1>3, <1>5 DEF IInv, LockedIsPending, BatchesExist, CtHasCapture, BooksAgree
\* The batch is a draft, so no payment of it is a success, and none is pending
<1>7. \A q \in Payments : payment[q].of = payment[p].of
                            => payment[q].status \notin {"PENDING", "SUCCESS"}
  BY <1>2 DEF IInv, BooksAgree, PendingOf
<1>8. ChargedOnce'
  BY <1>3, <1>7 DEF IInv, ChargedOnce
<1>9. DraftFollows' /\ DraftsAreQueued' /\ NumbersAreAnInterval' /\ InvoicesAreNumbered'
  BY <1>2, <1>3, InvoicesKept
<1> QED
  BY <1>4, <1>6, <1>8, <1>9 DEF IInv

LEMMA EmitKeeps ==
    ASSUME IInv, NEW p \in Payments, NEW kind \in Kinds, Emit(p, kind)
    PROVE  IInv'
<1>1. RowsOK
  BY DEF IInv
<1>2. /\ sent' = sent \cup {<<p, kind>>}
      /\ UNCHANGED <<batch, marked, payment, tx, jobs, draft, number, others, faults, ct>>
  BY DEF Emit, invoiceVars, batchVars
<1>3. RowsOK'
  BY <1>1, <1>2 DEF RowsOK
<1>4. Captured \subseteq Captured'
  BY <1>2 DEF Captured
<1>5. LockedIsPending' /\ BatchesExist' /\ CtHasCapture' /\ ChargedOnce'
  BY <1>2, <1>4 DEF IInv, LockedIsPending, BatchesExist, CtHasCapture, ChargedOnce
<1>6. BooksAgree'
  BY <1>2, <1>4 DEF IInv, BooksAgree
<1> QED
  BY <1>2, <1>3, <1>5, <1>6, InvoicesKept DEF IInv

----------------------------------------------------------------------------
(* The webhook's transaction.                                              *)

LEMMA BeginWebhookKeeps ==
    ASSUME IInv, NEW p \in Payments, NEW kind \in Kinds, BeginWebhook(p, kind)
    PROVE  IInv'
<1>1. RowsOK
  BY DEF IInv
<1>2. /\ <<p, kind>> \in sent /\ payment[p].status = "PENDING"
      /\ tx' = [tx EXCEPT ![p] = [kind |-> kind, draft |-> batch[payment[p].of] = "DRAFT"]]
      /\ jobs' = (IF kind = "captured" THEN [jobs EXCEPT ![p] = Attempts] ELSE jobs)
      /\ UNCHANGED <<batch, marked, payment, sent, draft, number, others, faults, ct>>
  BY DEF BeginWebhook, batchVars
<1>3. RowsOK'
  <2>1. jobs' \in [Payments -> 0..Attempts]
    BY <1>1, <1>2, BillingAssumption DEF RowsOK
  <2>2. tx' \in [Payments -> [kind : Kinds \cup {"none"}, draft : BOOLEAN]]
    BY <1>1, <1>2 DEF RowsOK
  <2> QED
    BY <1>1, <1>2, <2>1, <2>2 DEF RowsOK
<1>4. Captured' = Captured
  BY <1>2 DEF Captured
<1>5. /\ tx'[p].kind = kind /\ tx'[p].draft = (batch[payment[p].of] = "DRAFT")
      /\ \A q \in Payments : q # p => tx'[q] = tx[q]
  BY <1>1, <1>2 DEF RowsOK
<1>6. LockedIsPending'
  BY <1>2, <1>5 DEF IInv, LockedIsPending
<1>7. BatchesExist'
  <2>1. batch[payment[p].of] \in BatchStatus /\ batch[payment[p].of] # "NONE"
    BY <1>1, <1>2 DEF RowsOK, IInv, BatchesExist
  <2> QED
    BY <1>2, <1>5, <2>1 DEF IInv, BatchesExist, BatchStatus
<1>8. CtHasCapture' /\ ChargedOnce' /\ BooksAgree'
  BY <1>2, <1>4 DEF IInv, CtHasCapture, ChargedOnce, BooksAgree
<1>9. \A q \in Payments : payment[q].status = "SUCCESS" => jobs'[q] = jobs[q]
  BY <1>1, <1>2 DEF RowsOK
<1>10. DraftFollows' /\ DraftsAreQueued' /\ NumbersAreAnInterval' /\ InvoicesAreNumbered'
  BY <1>2, <1>9, InvoicesKept
<1> QED
  BY <1>3, <1>6, <1>7, <1>8, <1>10 DEF IInv

LEMMA CommitWebhookKeeps ==
    ASSUME IInv, NEW p \in Payments, CommitWebhook(p)
    PROVE  IInv'
<1> DEFINE b == payment[p].of
<1>1. RowsOK /\ b \in Batches
  BY DEF IInv, RowsOK
<1>2. /\ tx[p] # Idle /\ payment' = [payment EXCEPT ![p].status = Answer(tx[p].kind)]
      /\ tx' = [tx EXCEPT ![p] = Idle]
      /\ IF tx[p].kind = "captured" /\ tx[p].draft
           THEN batch' = [batch EXCEPT ![b] = "PAID"] /\ marked' = marked \ {b}
           ELSE UNCHANGED <<batch, marked>>
      /\ UNCHANGED <<sent, jobs, draft, number, others, faults, ct>>
  BY DEF CommitWebhook, GatewayMarksPaid, invoiceVars, batchVars
<1>3. payment[p].status = "PENDING" /\ <<p, tx[p].kind>> \in sent
  BY <1>2 DEF IInv, LockedIsPending
<1>4. Captured' = Captured
  BY <1>2 DEF Captured
<1>5. /\ Answer(tx[p].kind) \in {"SUCCESS", "FAILED", "REFUNDED"}
      /\ Answer(tx[p].kind) = "SUCCESS" => tx[p].kind = "captured"
  BY DEF Answer
<1>6. \A q \in Payments :
        /\ payment'[q].of = payment[q].of /\ payment[q].of \in Batches
        /\ payment'[q].status = IF q = p THEN Answer(tx[p].kind) ELSE payment[q].status
        /\ tx'[q] = IF q = p THEN Idle ELSE tx[q]
  BY <1>1, <1>2 DEF RowsOK
<1>7. /\ batch' \in [Batches -> BatchStatus] /\ marked' \in SUBSET Batches
      /\ \A c \in Batches : /\ batch[c] = "PAID" => batch'[c] = "PAID"
                            /\ batch[c] # "NONE" => batch'[c] # "NONE"
                            /\ c # b => batch'[c] = batch[c] /\ (c \in marked' <=> c \in marked)
                            /\ batch'[c] = batch[c] \/ batch'[c] = "PAID"
  BY <1>1, <1>2 DEF RowsOK, BatchStatus
<1>8. RowsOK'
  <2>1. payment' \in [Payments -> [of : Batches, status : PaymentStatus]]
    BY <1>1, <1>2, <1>5 DEF RowsOK, PaymentStatus
  <2>2. tx' \in [Payments -> [kind : Kinds \cup {"none"}, draft : BOOLEAN]]
    BY <1>1, <1>2 DEF RowsOK, Idle
  <2> QED
    BY <1>1, <1>2, <1>7, <2>1, <2>2 DEF RowsOK
<1>9. LockedIsPending' /\ CtHasCapture'
  BY <1>2, <1>4, <1>6 DEF IInv, LockedIsPending, CtHasCapture
<1>10. BatchesExist'
  BY <1>3, <1>6, <1>7 DEF IInv, BatchesExist
<1>11. ChargedOnce'
  BY <1>3, <1>5, <1>6 DEF IInv, ChargedOnce
\* What the transaction read of the batch is still so, or it has been paid since
<1>12. tx[p].kind = "captured" => p \in Captured /\ batch'[b] = "PAID"
  <2>1. ASSUME tx[p].kind = "captured" PROVE p \in Captured
    BY <1>3, <2>1 DEF Captured
  <2>2. CASE tx[p].draft
    BY <1>1, <1>2, <2>1, <2>2 DEF RowsOK
  <2>3. CASE ~tx[p].draft
    BY <1>1, <1>2, <1>7, <2>1, <2>3 DEF IInv, BatchesExist
  <2> QED
    BY <2>1, <2>2, <2>3
<1>13. BooksAgree'
  <2>1. ASSUME NEW q \in Payments, payment'[q].status = "SUCCESS"
        PROVE  q \in Captured' /\ batch'[payment'[q].of] = "PAID"
    BY <1>4, <1>5, <1>6, <1>7, <1>12, <2>1 DEF IInv, BooksAgree
  <2>2. ASSUME NEW c \in Batches, batch'[c] = "PAID"
        PROVE  c \in marked' \/ \E q \in Captured' : payment'[q].of = c
    <3>1. CASE tx[p].kind = "captured" /\ tx[p].draft
      <4>1. CASE c = b
        BY <1>4, <1>6, <1>12, <3>1, <4>1
      <4>2. CASE c # b
        <5>1. c \in marked \/ \E q \in Captured : payment[q].of = c
          BY <1>7, <2>2, <4>2 DEF IInv, BooksAgree
        <5> QED
          BY <1>4, <1>6, <1>7, <4>2, <5>1 DEF Captured
      <4> QED
        BY <4>1, <4>2
    <3>2. CASE ~(tx[p].kind = "captured" /\ tx[p].draft)
      <4>1. c \in marked \/ \E q \in Captured : payment[q].of = c
        BY <1>2, <2>2, <3>2 DEF IInv, BooksAgree
      <4> QED
        BY <1>2, <1>4, <1>6, <3>2, <4>1 DEF Captured
    <3> QED
      BY <3>1, <3>2
  <2> QED
    BY <2>1, <2>2 DEF BooksAgree
<1>14. DraftFollows' /\ DraftsAreQueued' /\ NumbersAreAnInterval' /\ InvoicesAreNumbered'
  BY <1>2, <1>3, <1>6, InvoicesKept
<1> QED
  BY <1>8, <1>9, <1>10, <1>11, <1>13, <1>14 DEF IInv

LEMMA AbortWebhookKeeps ==
    ASSUME IInv, NEW p \in Payments, AbortWebhook(p)
    PROVE  IInv'
<1>1. RowsOK
  BY DEF IInv
<1>2. /\ tx' = [tx EXCEPT ![p] = Idle] /\ faults < MaxFaults /\ faults' = faults + 1
      /\ UNCHANGED <<batch, marked, payment, sent, jobs, draft, number, others, ct>>
  BY DEF AbortWebhook, invoiceVars, batchVars
<1>3. RowsOK'
  BY <1>1, <1>2, BillingAssumption DEF RowsOK, Idle
<1>4. \A q \in Payments : tx'[q] # Idle => tx'[q] = tx[q]
  BY <1>1, <1>2 DEF RowsOK
<1>5. Captured' = Captured
  BY <1>2 DEF Captured
<1>6. LockedIsPending' /\ BatchesExist' /\ CtHasCapture' /\ ChargedOnce' /\ BooksAgree'
  BY <1>2, <1>4, <1>5
     DEF IInv, LockedIsPending, BatchesExist, CtHasCapture, ChargedOnce, BooksAgree
<1> QED
  BY <1>2, <1>3, <1>6, InvoicesKept DEF IInv

----------------------------------------------------------------------------
(* The invoice tasks.                                                      *)

LEMMA JobsKeep ==
    ASSUME IInv, jobs' \in [Payments -> 0..Attempts], draft' \in [Payments -> Nat],
           faults' \in 0..MaxFaults,
           \A p \in Payments : draft'[p] = 0 \/ (draft'[p] = draft[p] /\ jobs'[p] = jobs[p]),
           UNCHANGED <<batch, marked, payment, sent, tx, number, others, ct>>
    PROVE  IInv'
<1>1. RowsOK'
  BY DEF IInv, RowsOK
<1>2. Numbers' = Numbers
  BY DEF Numbers
<1>3. DraftFollows' /\ DraftsAreQueued' /\ NumbersAreAnInterval' /\ InvoicesAreNumbered'
  BY <1>2 DEF IInv, DraftFollows, DraftsAreQueued, NumbersAreAnInterval, InvoicesAreNumbered
<1> QED
  BY <1>1, <1>3, BooksKept DEF IInv

LEMMA NumberInvoiceKeeps ==
    ASSUME IInv, NEW p \in Payments, NumberInvoice(p)
    PROVE  IInv'
<1>1. RowsOK
  BY DEF IInv
<1>2. /\ payment[p].status = "SUCCESS" /\ number[p] = 0 /\ jobs[p] > 0
      /\ draft' = [draft EXCEPT ![p] = NextNumber]
      /\ UNCHANGED <<batch, marked, payment, sent, tx, jobs, number, others, faults, ct>>
  BY DEF NumberInvoice, batchVars
<1>3. PICK k \in Nat : Numbers = 1..k
  BY DEF IInv, NumbersAreAnInterval
<1>4. NextNumber = k + 1
  BY <1>3, NextIsFree
<1>5. RowsOK'
  BY <1>1, <1>2, <1>4 DEF RowsOK
<1>6. Numbers' = Numbers
  BY <1>2 DEF Numbers
<1>7. DraftFollows'
  <2> SUFFICES ASSUME NEW q \in Payments, draft'[q] # 0
               PROVE  /\ payment[q].status = "SUCCESS" /\ number[q] = 0
                      /\ draft'[q] = 1 \/ draft'[q] - 1 \in Numbers
    BY <1>2, <1>6 DEF DraftFollows
  <2>1. CASE q = p
    <3>1. draft'[q] = k + 1
      BY <2>1, <1>1, <1>2, <1>4 DEF RowsOK
    <3>2. k + 1 = 1 \/ (k + 1) - 1 \in 1..k
      OBVIOUS
    <3> QED
      BY <1>2, <1>3, <2>1, <3>1, <3>2
  <2>2. CASE q # p
    BY <2>2, <1>1, <1>2 DEF RowsOK, IInv, DraftFollows
  <2> QED
    BY <2>1, <2>2
<1>8. NumbersAreAnInterval' /\ InvoicesAreNumbered'
  BY <1>2, <1>6 DEF IInv, NumbersAreAnInterval, InvoicesAreNumbered
<1>9. DraftsAreQueued'
  BY <1>1, <1>2 DEF RowsOK, IInv, DraftsAreQueued
<1> QED
  BY <1>2, <1>5, <1>7, <1>8, <1>9, BooksKept DEF IInv

\* One more number is taken, the first that is free: they are an interval still.
LEMMA OneMoreNumber ==
    ASSUME NEW k \in Nat, Numbers = 1..k, Numbers' = Numbers \cup {k + 1}
    PROVE  NumbersAreAnInterval' /\ \A n \in Numbers' : n = 1 \/ n - 1 \in Numbers'
<1>1. Numbers' = 1..(k + 1)
  OBVIOUS
<1>2. NumbersAreAnInterval'
  BY <1>1 DEF NumbersAreAnInterval
<1> QED
  BY <1>1, <1>2

LEMMA StoreInvoiceKeeps ==
    ASSUME IInv, NEW p \in Payments, StoreInvoice(p)
    PROVE  IInv'
<1>1. RowsOK /\ DraftFollows
  BY DEF IInv
<1>2. draft[p] # 0 /\ draft' = [draft EXCEPT ![p] = 0]
  BY DEF StoreInvoice
<1>3. UNCHANGED <<batch, marked, payment, sent, tx, others, faults, ct>>
  BY DEF StoreInvoice, batchVars
<1>4. \A q \in Payments : draft'[q] = IF q = p THEN 0 ELSE draft[q]
  BY <1>1, <1>2 DEF RowsOK
<1>5. draft' \in [Payments -> Nat]
  BY <1>1, <1>2 DEF RowsOK
<1>6. CASE draft[p] \in Numbers
  <2>1. jobs' = [jobs EXCEPT ![p] = @ - 1] /\ number' = number /\ jobs[p] > 0
    BY <1>2, <1>6 DEF StoreInvoice, IInv, DraftsAreQueued
  <2>2. /\ jobs' \in [Payments -> 0..Attempts]
        /\ \A q \in Payments : q # p => jobs'[q] = jobs[q]
    BY <1>1, <2>1, BillingAssumption DEF RowsOK
  <2>3. faults' \in 0..MaxFaults
    BY <1>1, <1>3 DEF RowsOK
  <2>4. \A q \in Payments : draft'[q] = 0 \/ (draft'[q] = draft[q] /\ jobs'[q] = jobs[q])
    BY <1>4, <2>2
  <2>5. UNCHANGED <<batch, marked, payment, sent, tx, number, others, ct>>
    BY <1>3, <2>1
  <2> QED
    BY <1>5, <2>2, <2>3, <2>4, <2>5, JobsKeep
<1>7. CASE draft[p] \notin Numbers
  <2>1. jobs' = [jobs EXCEPT ![p] = 0] /\ number' = [number EXCEPT ![p] = draft[p]]
    BY <1>7 DEF StoreInvoice
  <2>2. RowsOK'
    BY <1>1, <1>3, <1>5, <2>1, BillingAssumption DEF RowsOK
  <2>3. \A q \in Payments : number'[q] = IF q = p THEN draft[p] ELSE number[q]
    BY <1>1, <2>1 DEF RowsOK
  <2>4. PICK k \in Nat : Numbers = 1..k
    BY DEF IInv, NumbersAreAnInterval
  <2>5. /\ draft[p] \in Nat /\ payment[p].status = "SUCCESS" /\ number[p] = 0
        /\ draft[p] = 1 \/ draft[p] - 1 \in Numbers
    BY <1>1, <1>2 DEF RowsOK, DraftFollows
  <2>6. draft[p] = k + 1
    BY <1>2, <1>7, <2>4, <2>5
  <2>7. Numbers' = Numbers \cup {k + 1}
    BY <1>2, <1>3, <2>3, <2>5, <2>6 DEF Numbers
  <2>8. NumbersAreAnInterval' /\ \A n \in Numbers' : n = 1 \/ n - 1 \in Numbers'
    BY <2>4, <2>7, OneMoreNumber
  <2>9. DraftFollows'
    BY <1>1, <1>3, <1>4, <2>3, <2>7 DEF DraftFollows
  <2>10. DraftsAreQueued'
    BY <1>1, <1>4, <2>1 DEF RowsOK, IInv, DraftsAreQueued
  <2>11. draft[p] \notin others /\ \A q \in Payments : number[q] # draft[p]
    BY <1>2, <1>7 DEF Numbers
  <2>12. InvoicesAreNumbered'
    BY <1>3, <2>3, <2>5, <2>8, <2>11 DEF IInv, InvoicesAreNumbered
  <2> QED
    BY <1>3, <2>2, <2>8, <2>9, <2>12, <2>10, BooksKept DEF IInv
<1> QED
  BY <1>6, <1>7

LEMMA InvoiceTooEarlyKeeps ==
    ASSUME IInv, NEW p \in Payments, InvoiceTooEarly(p)
    PROVE  IInv'
<1>1. RowsOK
  BY DEF IInv
<1>2. /\ jobs[p] > 0 /\ payment[p].status # "SUCCESS" /\ jobs' = [jobs EXCEPT ![p] = @ - 1]
      /\ UNCHANGED <<batch, marked, payment, sent, tx, draft, number, others, faults, ct>>
  BY DEF InvoiceTooEarly, batchVars
<1>3. draft[p] = 0
  BY <1>2 DEF IInv, DraftFollows
<1>4. /\ jobs' \in [Payments -> 0..Attempts]
      /\ \A q \in Payments : q # p => jobs'[q] = jobs[q]
  BY <1>1, <1>2, BillingAssumption DEF RowsOK
<1>5. draft' \in [Payments -> Nat] /\ faults' \in 0..MaxFaults
  BY <1>1, <1>2 DEF RowsOK
<1>6. \A q \in Payments : draft'[q] = 0 \/ (draft'[q] = draft[q] /\ jobs'[q] = jobs[q])
  BY <1>2, <1>3, <1>4
<1> QED
  BY <1>2, <1>4, <1>5, <1>6, JobsKeep

LEMMA StorageFailsKeeps ==
    ASSUME IInv, NEW p \in Payments, StorageFails(p)
    PROVE  IInv'
<1>1. RowsOK
  BY DEF IInv
<1>2. /\ draft[p] # 0 /\ jobs' = [jobs EXCEPT ![p] = @ - 1]
      /\ draft' = [draft EXCEPT ![p] = 0]
      /\ faults < MaxFaults /\ faults' = faults + 1
      /\ UNCHANGED <<batch, marked, payment, sent, tx, number, others, ct>>
  BY DEF StorageFails, batchVars
<1>3. jobs[p] > 0
  BY <1>2 DEF IInv, DraftsAreQueued
<1>4. /\ jobs' \in [Payments -> 0..Attempts]
      /\ \A q \in Payments : q # p => jobs'[q] = jobs[q]
  BY <1>1, <1>2, <1>3, BillingAssumption DEF RowsOK
<1>5. draft' \in [Payments -> Nat] /\ faults' \in 0..MaxFaults
  BY <1>1, <1>2, BillingAssumption DEF RowsOK
<1>6. \A q \in Payments : draft'[q] = 0 \/ (draft'[q] = draft[q] /\ jobs'[q] = jobs[q])
  BY <1>1, <1>2, <1>4 DEF RowsOK
<1> QED
  BY <1>2, <1>4, <1>5, <1>6, JobsKeep

LEMMA OtherInvoiceKeeps ==
    ASSUME IInv, OtherInvoice
    PROVE  IInv'
<1>1. RowsOK
  BY DEF IInv
<1>2. /\ others' = others \cup {NextNumber}
      /\ UNCHANGED <<batch, marked, payment, sent, tx, jobs, draft, number, faults, ct>>
  BY DEF OtherInvoice, batchVars
<1>3. PICK k \in Nat : Numbers = 1..k
  BY DEF IInv, NumbersAreAnInterval
<1>4. NextNumber = k + 1
  BY <1>3, NextIsFree
<1>5. RowsOK'
  BY <1>1, <1>2, <1>4 DEF RowsOK
<1>6. Numbers' = Numbers \cup {k + 1}
  BY <1>2, <1>4 DEF Numbers
<1>7. NumbersAreAnInterval' /\ \A n \in Numbers' : n = 1 \/ n - 1 \in Numbers'
  BY <1>3, <1>6, OneMoreNumber
<1>8. DraftFollows' /\ DraftsAreQueued'
  BY <1>2, <1>6 DEF IInv, DraftFollows, DraftsAreQueued
<1>9. \A p \in Payments : number[p] # k + 1
  <2> SUFFICES ASSUME NEW p \in Payments, number[p] = k + 1 PROVE FALSE
    OBVIOUS
  <2>1. k + 1 \in Numbers
    BY DEF Numbers
  <2> QED
    BY <1>3, <2>1
<1>10. InvoicesAreNumbered'
  BY <1>2, <1>4, <1>7, <1>9 DEF IInv, InvoicesAreNumbered
<1> QED
  BY <1>2, <1>5, <1>7, <1>8, <1>10, BooksKept DEF IInv

----------------------------------------------------------------------------
(* The control tower's webhook.                                            *)

LEMMA CtReceiveKeeps ==
    ASSUME IInv, NEW p \in Payments, CtReceive(p) \/ CtDie(p)
    PROVE  IInv'
<1>1. RowsOK
  BY DEF IInv
<1>2. UNCHANGED <<batch, marked, payment, sent, tx, jobs, draft, number, others, faults>>
  BY DEF CtReceive, CtDie, invoiceVars, batchVars
<1>3. /\ \E s \in {"SAW_DRAFT", "OVER"} : ct' = [ct EXCEPT ![p] = s]
      /\ p \in Captured
  BY DEF CtReceive, CtDie, IInv, CtHasCapture
<1>4. RowsOK'
  BY <1>1, <1>2, <1>3 DEF RowsOK
<1>5. Captured' = Captured
  BY <1>2 DEF Captured
<1>6. CtHasCapture'
  BY <1>1, <1>3, <1>5 DEF RowsOK, IInv, CtHasCapture
<1>7. LockedIsPending' /\ BatchesExist' /\ ChargedOnce' /\ BooksAgree'
  BY <1>2, <1>5 DEF IInv, LockedIsPending, BatchesExist, ChargedOnce, BooksAgree
<1> QED
  BY <1>2, <1>4, <1>6, <1>7, InvoicesKept DEF IInv

LEMMA CtApplyKeeps ==
    ASSUME IInv, NEW p \in Payments, CtApply(p)
    PROVE  IInv'
<1> DEFINE b == payment[p].of
<1>1. RowsOK /\ b \in Batches
  BY DEF IInv, RowsOK
<1>2. /\ ct[p] = "SAW_DRAFT" /\ ct' = [ct EXCEPT ![p] = "OVER"]
      /\ batch' = [batch EXCEPT ![b] = "PAID"] /\ marked' = marked \ {b}
      /\ UNCHANGED <<payment, sent, tx, jobs, draft, number, others, faults>>
  BY DEF CtApply, GatewayMarksPaid, invoiceVars
<1>3. p \in Captured
  BY <1>2 DEF IInv, CtHasCapture
<1>4. Captured' = Captured
  BY <1>2 DEF Captured
<1> HIDE DEF b
<1>5. \E q \in Captured : payment[q].of = b
  BY <1>3 DEF b
<1>6. /\ batch' \in [Batches -> BatchStatus] /\ marked' \in SUBSET Batches
      /\ \A q \in Payments : payment[q].status # "NONE" => batch'[payment[q].of] # "NONE"
      /\ \A q \in Payments : batch[payment[q].of] = "PAID" => batch'[payment[q].of] = "PAID"
      /\ BooksAgree' /\ ChargedOnce'
  BY <1>1, <1>2, <1>5, PaidKeeps
<1>7. RowsOK'
  BY <1>1, <1>2, <1>6 DEF RowsOK
<1>8. LockedIsPending' /\ CtHasCapture'
  BY <1>1, <1>2, <1>4 DEF RowsOK, IInv, LockedIsPending, CtHasCapture
<1>9. BatchesExist'
  BY <1>2, <1>6 DEF IInv, BatchesExist
<1> QED
  BY <1>2, <1>6, <1>7, <1>8, <1>9, InvoicesKept DEF IInv

----------------------------------------------------------------------------
LEMMA UnchangedKeeps ==
    ASSUME IInv,
           UNCHANGED <<batch, marked, payment, sent, tx, jobs, draft, number, others, faults, ct>>
    PROVE  IInv'
<1>1. RowsOK'
  BY DEF IInv, RowsOK
<1> QED
  BY <1>1, BooksKept, InvoicesKept DEF IInv

LEMMA NextInv == IInv /\ [Next]_vars => IInv'
<1> SUFFICES ASSUME IInv, [Next]_vars PROVE IInv'
  OBVIOUS
<1>1. ASSUME NEW b \in Batches, CreateBatch(b) \/ MarkPaid(b) PROVE IInv'
  BY <1>1, CreateBatchKeeps, MarkPaidKeeps
<1>2. ASSUME NEW p \in Payments, Authorise(p) \/ Capture(p) \/ Refund(p) PROVE IInv'
  BY <1>2, EmitKeeps DEF Authorise, Capture, Refund, Kinds
<1>3. ASSUME NEW p \in Payments, CreateOrder(p) PROVE IInv'
  BY <1>3, CreateOrderKeeps
<1>4. ASSUME NEW p \in Payments, WebhookTask(p) \/ AbortWebhook(p) PROVE IInv'
  BY <1>4, BeginWebhookKeeps, CommitWebhookKeeps, AbortWebhookKeeps DEF WebhookTask
<1>5. ASSUME NEW p \in Payments, InvoiceTask(p) \/ StorageFails(p) PROVE IInv'
  BY <1>5, InvoiceTooEarlyKeeps, NumberInvoiceKeeps, StoreInvoiceKeeps, StorageFailsKeeps
     DEF InvoiceTask
<1>6. ASSUME NEW p \in Payments, CtReceive(p) \/ CtApply(p) \/ CtDie(p) PROVE IInv'
  BY <1>6, CtReceiveKeeps, CtApplyKeeps
<1>7. CASE OtherInvoice
  BY <1>7, OtherInvoiceKeeps
<1>8. CASE AdminsStep \/ UNCHANGED vars
  BY <1>8, UnchangedKeeps DEF AdminsStep, vars, batchVars, invoiceVars
<1> QED
  BY <1>1, <1>2, <1>3, <1>4, <1>5, <1>6, <1>7, <1>8 DEF Next

\* IInv holds in every reachable state.
THEOREM Invariance == Spec => []IInv
BY InitInv, NextInv, PTL DEF Spec

----------------------------------------------------------------------------
(* The theorems.                                                           *)

\* No batch is ever charged twice, whatever the order of the gateway's news.
THEOREM NeverChargedTwice == Spec => []ChargedOnce
<1>1. IInv => ChargedOnce
  BY DEF IInv
<1> QED
  BY <1>1, Invariance, PTL

\* Payments, batches and captures agree, with three writers of the batch's status.
THEOREM TheBooksAgree == Spec => []BooksAgree
<1>1. IInv => BooksAgree
  BY DEF IInv
<1> QED
  BY <1>1, Invariance, PTL

\* Invoices are numbered without a gap or a repetition, although no lock is held
\* between the choice of a number and its insert.
THEOREM NumbersHaveNoGap == Spec => []InvoicesAreNumbered
<1>1. IInv => InvoicesAreNumbered
  BY DEF IInv
<1> QED
  BY <1>1, Invariance, PTL
=============================================================================
