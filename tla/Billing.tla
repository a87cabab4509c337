------------------------------- MODULE Billing -------------------------------
(***************************************************************************)
(* The licence batches of one organisation of backend/apps/organisations,  *)
(* the online payments of them, and their invoices.  A payment's news come *)
(* as webhooks of the gateway; each becomes a Celery task, which may run   *)
(* late, out of order, again, or die half way (tasks are acknowledged late *)
(* and retried).  The state of the organisation and of its administrators  *)
(* is OrgAdmins.  Requests of staff are served alone.  Amounts are left    *)
(* out: the code never compares what was captured with what a batch costs. *)
(***************************************************************************)
EXTENDS Naturals, FiniteSets

CONSTANTS
    People, Boot, Nobody, Invites,   \* as in OrgAdmins
    Batches,       \* rows organisation_licence_batches may get
    MaxOrders,     \* bound on the orders created at the gateway
    Attempts,      \* runs of a failing task: the first and max_retries more
    MaxFaults,     \* bound on the tasks that fail half way
    MaxOthers      \* bound on the invoices of other organisations

\* The storage recovers before a task has used up its attempts: one of them may
\* be lost to every failure, and to every other payment that is first to store an
\* invoice of the same number
ASSUME BillingAssumption ==
    /\ Boot \in People
    /\ Nobody \notin People
    /\ MaxOrders \in Nat /\ Attempts \in Nat /\ MaxFaults \in Nat /\ MaxOthers \in Nat
    /\ Attempts >= MaxFaults + MaxOthers + MaxOrders

VARIABLES
    org, boot, account, member, primary, invite,
    batch,      \* batch[b]: payment_status of the licence batch
    marked,     \* batches whose paid_by is a member of staff
    payment,    \* payment[p]: the payment row
    sent,       \* webhooks the gateway has sent, each any number of times
    tx,         \* tx[p]: transaction of a webhook task that has locked p
    jobs,       \* jobs[p]: attempts left to the invoice task of p, 0 when there is none
    draft,      \* draft[p]: invoice number a transaction is about to insert
    number,     \* number[p]: invoice_number of p's invoice, 0 when there is none
    others,     \* numbers of the invoices of other organisations
    faults,     \* tasks that have failed half way so far
    ct          \* ct[p]: event row of p's capture at the control tower's webhook

adminVars == <<org, boot, account, member, primary, invite>>
batchVars == <<batch, marked>>
invoiceVars == <<jobs, draft, number, others>>
vars == <<adminVars, batchVars, payment, sent, tx, invoiceVars, faults, ct>>

Admins == INSTANCE OrgAdmins

\* The payments of the organisation, in the order in which they are created
Payments == 1..MaxOrders

BatchStatus == {"NONE", "DRAFT", "PAID"}
PaymentStatus == {"NONE", "PENDING", "SUCCESS", "FAILED", "REFUNDED"}
\* "attempt" stands for every event that is neither a capture nor a refund
Kinds == {"captured", "refunded", "attempt"}

RowsOK ==
    /\ batch \in [Batches -> BatchStatus] /\ marked \in SUBSET Batches
    /\ payment \in [Payments -> [of : Batches, status : PaymentStatus]]
    /\ sent \in SUBSET (Payments \X Kinds)
    /\ tx \in [Payments -> [kind : Kinds \cup {"none"}, draft : BOOLEAN]]
    /\ faults \in 0..MaxFaults
    /\ jobs \in [Payments -> 0..Attempts]
    /\ draft \in [Payments -> Nat] /\ number \in [Payments -> Nat] /\ others \in SUBSET Nat
    /\ ct \in [Payments -> {"NONE", "SAW_DRAFT", "OVER"}]

TypeOK == Admins!TypeOK /\ RowsOK

Idle == [kind |-> "none", draft |-> FALSE]

Init ==
    /\ Admins!Init
    /\ batch = [b \in Batches |-> "NONE"] /\ marked = {}
    /\ payment \in [Payments -> [of : Batches, status : {"NONE"}]]
    /\ sent = {}
    /\ tx = [p \in Payments |-> Idle]
    /\ jobs = [p \in Payments |-> 0] /\ draft = [p \in Payments |-> 0]
    /\ number = [p \in Payments |-> 0] /\ others = {} /\ faults = 0
    /\ ct = [p \in Payments |-> "NONE"]

\* The gateway has taken the money
Captured == {p \in Payments : <<p, "captured">> \in sent}

PendingOf(b) == {p \in Payments : payment[p].of = b /\ payment[p].status = "PENDING"}

----------------------------------------------------------------------------
(* Requests: the staff's and the organisation's own administrators'.       *)

CreateBatch(b) ==
    /\ batch[b] = "NONE"
    /\ batch' = [batch EXCEPT ![b] = "DRAFT"]
    /\ UNCHANGED <<adminVars, marked, payment, sent, tx, invoiceVars, faults, ct>>

\* mark_licence_batch_paid, by staff
MarkPaid(b) ==
    /\ batch[b] = "DRAFT"
    /\ batch' = [batch EXCEPT ![b] = "PAID"]
    /\ marked' = marked \cup {b}
    /\ Admins!BatchPaid
    /\ UNCHANGED <<payment, sent, tx, invoiceVars, faults, ct>>

\* Mutant: a second order may be made while the first is pending
CreateSecondOrder(p) ==
    LET b == payment[p].of IN
    /\ Admins!ActiveAdmins # {}
    /\ batch[b] = "DRAFT"
    /\ payment[p].status = "NONE" /\ \A q \in 1..(p - 1) : payment[q].status # "NONE"
    /\ payment' = [payment EXCEPT ![p].status = "PENDING"]
    /\ UNCHANGED <<adminVars, batchVars, sent, tx, invoiceVars, faults, ct>>

\* create_payment_order; a batch with a pending payment gets that one again
CreateOrder(p) ==
    LET b == payment[p].of IN
    /\ Admins!ActiveAdmins # {}
    /\ batch[b] = "DRAFT" /\ PendingOf(b) = {}
    /\ payment[p].status = "NONE" /\ \A q \in 1..(p - 1) : payment[q].status # "NONE"
    /\ payment' = [payment EXCEPT ![p].status = "PENDING"]
    /\ UNCHANGED <<adminVars, batchVars, sent, tx, invoiceVars, faults, ct>>

----------------------------------------------------------------------------
(* The gateway, which knows nothing of the status of the row.              *)

Emit(p, kind) ==
    /\ payment[p].status # "NONE"
    /\ sent' = sent \cup {<<p, kind>>}
    /\ UNCHANGED <<adminVars, batchVars, payment, tx, invoiceVars, faults, ct>>

Authorise(p) == p \notin Captured /\ Emit(p, "attempt")
Capture(p) == p \notin Captured /\ Emit(p, "captured")
Refund(p) == p \in Captured /\ Emit(p, "refunded")

----------------------------------------------------------------------------
(* process_payment_webhook: one transaction, which holds the payment's row. *)

\* The row is locked, found pending, and read with its batch.  Of a capture the
\* invoice task is queued here and now: the workers see it before the commit.
BeginWebhook(p, kind) ==
    /\ <<p, kind>> \in sent
    /\ tx[p] = Idle
    /\ payment[p].status = "PENDING"
    /\ tx' = [tx EXCEPT ![p] = [kind |-> kind, draft |-> batch[payment[p].of] = "DRAFT"]]
    /\ jobs' = IF kind = "captured" THEN [jobs EXCEPT ![p] = Attempts] ELSE jobs
    /\ UNCHANGED <<adminVars, batchVars, payment, sent, draft, number, others, faults, ct>>

Answer(kind) ==
    CASE kind = "captured" -> "SUCCESS" [] kind = "refunded" -> "REFUNDED" [] OTHER -> "FAILED"

\* What mark_licence_batch_paid writes for a gateway: paid_by is emptied
GatewayMarksPaid(b) ==
    /\ batch' = [batch EXCEPT ![b] = "PAID"]
    /\ marked' = marked \ {b}
    /\ Admins!BatchPaid

\* Mutant: every payment that is answered pays the batch
CommitAnyAnswer(p) ==
    /\ tx[p] # Idle
    /\ payment' = [payment EXCEPT ![p].status = Answer(tx[p].kind)]
    /\ IF tx[p].draft THEN GatewayMarksPaid(payment[p].of)
                      ELSE UNCHANGED <<adminVars, batchVars>>
    /\ tx' = [tx EXCEPT ![p] = Idle]
    /\ UNCHANGED <<sent, invoiceVars, faults, ct>>

CommitWebhook(p) ==
    /\ tx[p] # Idle
    /\ payment' = [payment EXCEPT ![p].status = Answer(tx[p].kind)]
    /\ IF tx[p].kind = "captured" /\ tx[p].draft THEN GatewayMarksPaid(payment[p].of)
                                                 ELSE UNCHANGED <<adminVars, batchVars>>
    /\ tx' = [tx EXCEPT ![p] = Idle]
    /\ UNCHANGED <<sent, invoiceVars, faults, ct>>

\* An exception, or a worker that dies; the task will run again
AbortWebhook(p) ==
    /\ tx[p] # Idle
    /\ faults < MaxFaults
    /\ faults' = faults + 1
    /\ tx' = [tx EXCEPT ![p] = Idle]
    /\ UNCHANGED <<adminVars, batchVars, payment, sent, invoiceVars, ct>>

----------------------------------------------------------------------------
(* generate_invoice_task.                                                  *)

\* Numbers of the year that are taken, by invoices of any organisation
Numbers == ({number[p] : p \in Payments} \ {0}) \cup others

\* _next_invoice_number
NextNumber == IF Numbers = {} THEN 1
                              ELSE 1 + CHOOSE n \in Numbers : \A m \in Numbers : m <= n

\* The payment is not yet, or not any more, a success: the task fails and is
\* tried again later.  Its pauses outlast a webhook transaction that is open.
InvoiceTooEarly(p) ==
    /\ jobs[p] > 0 /\ payment[p].status # "SUCCESS"
    /\ tx[p].kind # "captured"
    /\ jobs' = [jobs EXCEPT ![p] = @ - 1]
    /\ UNCHANGED <<adminVars, batchVars, payment, sent, tx, draft, number, others, faults, ct>>

\* Mutant: the number is taken before it is known that the payment is a success
NumberAnyPayment(p) ==
    /\ jobs[p] > 0
    /\ number[p] = 0 /\ draft[p] = 0
    /\ draft' = [draft EXCEPT ![p] = NextNumber]
    /\ UNCHANGED <<adminVars, batchVars, payment, sent, tx, jobs, number, others, faults, ct>>

\* generate_invoice up to the INSERT: _next_invoice_number locks nothing
NumberInvoice(p) ==
    /\ jobs[p] > 0 /\ payment[p].status = "SUCCESS"
    /\ number[p] = 0 /\ draft[p] = 0
    /\ draft' = [draft EXCEPT ![p] = NextNumber]
    /\ UNCHANGED <<adminVars, batchVars, payment, sent, tx, jobs, number, others, faults, ct>>

\* Mutant: a task that lost its number is not tried again
StoreOnce(p) ==
    /\ draft[p] # 0
    /\ jobs' = [jobs EXCEPT ![p] = 0]
    /\ number' = IF draft[p] \in Numbers THEN number ELSE [number EXCEPT ![p] = draft[p]]
    /\ draft' = [draft EXCEPT ![p] = 0]
    /\ UNCHANGED <<adminVars, batchVars, payment, sent, tx, others, faults, ct>>

\* The insert and the commit: invoice_number is unique, so the second of two
\* transactions with one number fails and is tried again
StoreInvoice(p) ==
    /\ draft[p] # 0
    /\ IF draft[p] \in Numbers
         THEN jobs' = [jobs EXCEPT ![p] = @ - 1] /\ UNCHANGED number
         ELSE jobs' = [jobs EXCEPT ![p] = 0] /\ number' = [number EXCEPT ![p] = draft[p]]
    /\ draft' = [draft EXCEPT ![p] = 0]
    /\ UNCHANGED <<adminVars, batchVars, payment, sent, tx, others, faults, ct>>

StorageFails(p) ==
    /\ draft[p] # 0
    /\ faults < MaxFaults
    /\ faults' = faults + 1
    /\ jobs' = [jobs EXCEPT ![p] = @ - 1]
    /\ draft' = [draft EXCEPT ![p] = 0]
    /\ UNCHANGED <<adminVars, batchVars, payment, sent, tx, number, others, ct>>

OtherInvoice ==
    /\ Cardinality(others) < MaxOthers
    /\ others' = others \cup {NextNumber}
    /\ UNCHANGED <<adminVars, batchVars, payment, sent, tx, jobs, draft, number, faults, ct>>

----------------------------------------------------------------------------
(* process_razorpay_webhook, of a capture.  It is no transaction: the event *)
(* row is there before the batch is marked, and a task that finds the row   *)
(* stops.                                                                   *)

CtReceive(p) ==
    /\ p \in Captured /\ ct[p] = "NONE"
    /\ ct' = [ct EXCEPT ![p] = IF batch[payment[p].of] = "DRAFT" THEN "SAW_DRAFT" ELSE "OVER"]
    /\ UNCHANGED <<adminVars, batchVars, payment, sent, tx, invoiceVars, faults>>

CtApply(p) ==
    /\ ct[p] = "SAW_DRAFT"
    /\ GatewayMarksPaid(payment[p].of)
    /\ ct' = [ct EXCEPT ![p] = "OVER"]
    /\ UNCHANGED <<payment, sent, tx, invoiceVars, faults>>

CtDie(p) ==
    /\ ct[p] = "SAW_DRAFT"
    /\ ct' = [ct EXCEPT ![p] = "OVER"]
    /\ UNCHANGED <<adminVars, batchVars, payment, sent, tx, invoiceVars, faults>>

----------------------------------------------------------------------------
AdminsStep ==
    /\ Admins!Next
    /\ UNCHANGED <<batchVars, payment, sent, tx, invoiceVars, faults, ct>>

WebhookTask(p) == (\E kind \in Kinds : BeginWebhook(p, kind)) \/ CommitWebhook(p)
InvoiceTask(p) == InvoiceTooEarly(p) \/ NumberInvoice(p) \/ StoreInvoice(p)

Next ==
    \/ AdminsStep \/ OtherInvoice
    \/ \E b \in Batches : CreateBatch(b) \/ MarkPaid(b)
    \/ \E p \in Payments :
          \/ CreateOrder(p) \/ Authorise(p) \/ Capture(p) \/ Refund(p)
          \/ WebhookTask(p) \/ AbortWebhook(p)
          \/ InvoiceTask(p) \/ StorageFails(p)
          \/ CtReceive(p) \/ CtApply(p) \/ CtDie(p)

\* Celery keeps a task until it has run to its end (CELERY_TASK_ACKS_LATE), and
\* the gateway repeats a webhook that was not accepted
Fairness == \A p \in Payments : WF_vars(WebhookTask(p)) /\ WF_vars(InvoiceTask(p))

Spec == Init /\ [][Next]_vars /\ Fairness

----------------------------------------------------------------------------
(* Properties.                                                             *)

\* A batch is never charged twice: of the orders made for it at most one is
\* waiting for money or has got it, whatever the order in which captures,
\* failures and refunds are told (create_payment_order, process_payment_webhook).
ChargedOnce ==
    \A p, q \in Payments :
        /\ payment[p].of = payment[q].of
        /\ payment[p].status \in {"PENDING", "SUCCESS"}
        /\ payment[q].status \in {"PENDING", "SUCCESS"}
        => p = q

\* The three books agree: a payment that is a success was captured and its batch
\* is paid; a batch that is paid was paid for, or a member of staff says so
\* (process_payment_webhook, process_razorpay_webhook, mark_licence_batch_paid).
BooksAgree ==
    /\ \A p \in Payments :
          payment[p].status = "SUCCESS" => p \in Captured /\ batch[payment[p].of] = "PAID"
    /\ \A b \in Batches :
          batch[b] = "PAID" => b \in marked \/ \E p \in Captured : payment[p].of = b

\* The invoices of the year are numbered from 1 without a gap or a repetition, and are for
\* payments that succeeded, though their tasks start before the payment is saved
\* and choose their number without a lock (generate_invoice, _next_invoice_number).
InvoicesAreNumbered ==
    /\ \A p \in Payments : number[p] # 0 => payment[p].status = "SUCCESS"
    /\ \A p, q \in Payments : number[p] # 0 /\ number[p] = number[q] => p = q
    /\ \A p \in Payments : number[p] \notin others
    /\ \A n \in Numbers : n = 1 \/ n - 1 \in Numbers

\* Every payment that was captured is answered, and gets its invoice when the answer
\* is a success, in spite of failed transactions, early tasks and lost numbers
\* (process_payment_webhook_task, generate_invoice_task).
CapturedIsAnswered ==
    \A p \in Payments :
        p \in Captured ~> \/ payment[p].status \in {"FAILED", "REFUNDED"}
                          \/ payment[p].status = "SUCCESS" /\ number[p] # 0

\* docs/plans/P36: a webhook of a successful payment marks the payment SUCCESS and
\* activates the licence.  Any other event that comes first marks it FAILED, and
\* the capture then finds it already processed (process_payment_webhook).
CapturedIsPaid == \A p \in Payments : p \in Captured ~> payment[p].status = "SUCCESS"
=============================================================================
