------------------------- MODULE FiscalOperations_proofs -------------------------
(***************************************************************************)
(* Theorems about FiscalOperations, for every value of its constants.      *)
(***************************************************************************)
EXTENDS FiscalOperations, TLAPS

(* The fields of a result that the handlers copy. *)
LEMMA ResultFields ==
  ASSUME NEW r \in Results
  PROVE  /\ r.op \in Ops
         /\ r.outcome = "normalized" => r.sig \in Sigs /\ r.tc \in 0..MaxTC
  BY DEF Results, NormalizedResults, RejectedResults, UncertainResults

(* Operation numbers are positive integers, and created operations are among them. *)
LEMMA NormalizedAreNormalized ==
  ASSUME NEW r \in Results, r.outcome = "normalized"
  PROVE  r \in NormalizedResults
BY DEF Results, RejectedResults, UncertainResults

LEMMA OpsAreNumbers ==
  /\ Ops \subseteq Nat \ {0}
  /\ TypeOK => Created \subseteq Ops
  /\ TypeOK /\ nOps < MaxOps => nOps + 1 \in Ops /\ nOps + 1 \notin Created
BY ConstantsAssumption DEF Ops, Created, TypeOK

LEMMA StatusNames ==
  /\ {"Queued", "Uncertain", "Leased", "Checking", "Dispute", "Normalized", "Rejected",
      "Cancelled", "Done", "None"} = OpStatus
  /\ Held = {"Leased", "Checking"}
BY DEF OpStatus, Active, Waiting, Held, Closed

LEMMA TypeInit == Init => TypeOK
<1> SUFFICES ASSUME Init PROVE TypeOK
  OBVIOUS
<1>1. NoDoc \in Docs /\ NoLease \in Leases /\ NoResult \in Accepted
  BY ConstantsAssumption DEF NoDoc, Docs, NoLease, Leases, NoResult, Accepted
<1>2. [status |-> "Pending", sig |-> None, op |-> None] \in InvoiceRows
  BY DEF InvoiceRows
<1>3. [actif |-> TRUE, lastTc |-> 0] \in DeviceRows
  BY ConstantsAssumption DEF DeviceRows
<1> QED BY <1>1, <1>2, <1>3, StatusNames, ConstantsAssumption DEF Init, TypeOK

(* Insert writes one row of doc. *)
LEMMA TypeInsert ==
  ASSUME TypeOK, NEW k \in {"NORMALIZE", "RESYNC", "None"}, NEW i \in Invoices \cup {None},
         NEW d \in Devices \cup {None}, NEW n \in Nat, Insert(k, i, d, n)
  PROVE  doc' \in [Ops -> Docs] /\ nOps' \in 0..MaxOps /\ nOps + 1 \in Ops
<1>1. [kind |-> k, inv |-> i, dev |-> d, attempt |-> n] \in Docs
  BY DEF Docs
<1>2. nOps + 1 \in Ops /\ nOps' \in 0..MaxOps
  BY ConstantsAssumption DEF TypeOK, Insert, Ops
<1> QED BY <1>1, <1>2 DEF TypeOK, Insert

(* Insert creates one operation and leaves the rows of the others. *)
LEMMA InsertCreates ==
  ASSUME TypeOK, NEW k, NEW i, NEW d, NEW n, Insert(k, i, d, n)
  PROVE  /\ Created' = Created \cup {nOps + 1} /\ Created' \subseteq Ops
         /\ \A o \in Created : doc'[o] = doc[o]
<1>1. nOps \in Nat /\ MaxOps \in Nat /\ nOps' = nOps + 1 /\ nOps + 1 <= MaxOps
  BY ConstantsAssumption DEF TypeOK, Insert
<1>2. Created' = Created \cup {nOps + 1}
  BY <1>1 DEF Created
<1>3. Created' \subseteq Ops
  BY <1>1 DEF Created, Ops
<1>4. \A o \in Created : doc'[o] = doc[o]
  BY <1>1, OpsAreNumbers DEF TypeOK, Insert
<1> QED BY <1>2, <1>3, <1>4

(* What requests and results write on an invoice: its status and its operation.        *)
LEMMA TypeInvoiceOf ==
  ASSUME TypeOK, NEW i, NEW st \in {"Pending", "Error"}, NEW p \in Ops \cup {None}
  PROVE  /\ [invoice EXCEPT ![i].status = st] \in [Invoices -> InvoiceRows]
         /\ [invoice EXCEPT ![i].status = st, ![i].op = p] \in [Invoices -> InvoiceRows]
<1>1. invoice \in [Invoices -> InvoiceRows]
  BY DEF TypeOK
<1>2. \A r \in InvoiceRows : /\ [r EXCEPT !.status = st] \in InvoiceRows
                             /\ [[r EXCEPT !.status = st] EXCEPT !.op = p] \in InvoiceRows
  BY DEF InvoiceRows
<1>3. \A f \in [Invoices -> InvoiceRows], r \in InvoiceRows : [f EXCEPT ![i] = r] \in [Invoices -> InvoiceRows]
  OBVIOUS
<1> QED BY <1>1, <1>2, <1>3

LEMMA TypeRequest ==
  ASSUME TypeOK, NEW i \in Invoices, Request(i)
  PROVE  TypeOK'
<1>1. PICK n \in NextAttempts(i) : Insert("NORMALIZE", i, DeviceOfInvoice[i], n)
  BY DEF Request
<1>2. n \in Nat
  <2>1. CASE OpsOf(i) = {}
    BY <2>1 DEF NextAttempts
  <2>2. CASE OpsOf(i) # {}
    <3>1. PICK o \in Newest(OpsOf(i)) : n = doc[o].attempt + 1
      BY <2>2 DEF NextAttempts
    <3>2. o \in Ops
      BY OpsAreNumbers DEF Newest, OpsOf
    <3> QED BY <3>1, <3>2 DEF TypeOK, Docs
  <2> QED BY <2>1, <2>2
<1>3. doc' \in [Ops -> Docs] /\ nOps' \in 0..MaxOps /\ nOps + 1 \in Ops
  BY <1>1, <1>2, TypeInsert, ConstantsAssumption
<1>4. invoice' \in [Invoices -> InvoiceRows]
  BY <1>3, TypeInvoiceOf DEF Request
<1> QED BY <1>3, <1>4, StatusNames DEF TypeOK, Request, windows

LEMMA TypeRequestResync ==
  ASSUME TypeOK, NEW d \in Devices, RequestResync(d)
  PROVE  TypeOK'
<1>1. doc' \in [Ops -> Docs] /\ nOps' \in 0..MaxOps /\ nOps + 1 \in Ops
  BY TypeInsert DEF RequestResync
<1> QED BY <1>1, StatusNames DEF TypeOK, RequestResync, windows
(* The statuses after a lease expiry are statuses. *)
LEMMA TypeExpired ==
  ASSUME TypeOK, NEW d
  PROVE  Expired(d) \in [Ops -> OpStatus]
BY StatusNames DEF TypeOK, Expired

LEMMA TypeGrants ==
  ASSUME TypeOK, NEW g \in Gateways, NEW st, NEW c \in Grants(g, st)
  PROVE  /\ c \in OpenGrants
         /\ c.op \in Created /\ doc[c.op].dev = DeviceOfGateway[g]
         /\ ~Barred(DeviceOfGateway[g], st)
<1> DEFINE d == DeviceOfGateway[g]
<1>1. PICK o \in Oldest(Choices(d, st)) :
        c = [gw |-> g, op |-> o, to |-> IF st[o] = "Uncertain" THEN "Checking" ELSE "Leased"]
  BY DEF Grants
<1>2. o \in OpsOn(d)
  BY DEF Oldest, Choices
<1>3. o \in Created /\ doc[o].dev = d
  BY <1>2 DEF OpsOn
<1>4. ~Barred(d, st)
  BY DEF Grants
<1> QED BY <1>1, <1>3, <1>4, OpsAreNumbers, StatusNames DEF OpenGrants

LEMMA TypeWriteGrant ==
  ASSUME TypeOK, NEW st \in [Ops -> OpStatus], NEW c \in OpenGrants, WriteGrant(c, st)
  PROVE  status' \in [Ops -> OpStatus] /\ lease' \in [Ops -> Leases] /\ nTokens' \in 0..MaxTokens
<1>1. c.gw \in Gateways /\ c.op \in Ops /\ c.to \in OpStatus
  BY StatusNames DEF OpenGrants
<1>2. nTokens' \in 0..MaxTokens /\ nTokens + 1 \in 0..MaxTokens
  BY ConstantsAssumption DEF TypeOK, WriteGrant
<1>3. [gw |-> c.gw, token |-> nTokens + 1, lapsed |-> FALSE] \in Leases
  BY <1>1, <1>2 DEF Leases
<1> QED BY <1>1, <1>2, <1>3 DEF TypeOK, WriteGrant

LEMMA TypeLease ==
  ASSUME TypeOK, NEW o \in Ops
  PROVE  /\ [lease[o] EXCEPT !.lapsed = FALSE] \in Leases
         /\ [lease[o] EXCEPT !.lapsed = TRUE] \in Leases
         /\ lease[o] \in Leases
<1>1. lease[o] \in Leases
  BY DEF TypeOK
<1> QED BY <1>1 DEF Leases

LEMMA TypePolls ==
  ASSUME TypeOK, NEW g \in Gateways, PollHeld(g) \/ PollGrant(g) \/ PollReads(g)
  PROVE  TypeOK'
<1> DEFINE d == DeviceOfGateway[g]
<1>1. Expired(d) \in [Ops -> OpStatus]
  BY TypeExpired
<1>2. CASE PollHeld(g)
  BY <1>1, <1>2, TypeLease DEF PollHeld, TypeOK, windows
<1>3. CASE PollGrant(g)
  <2>1. PICK c \in Grants(g, Expired(d)) : WriteGrant(c, Expired(d))
    BY <1>3 DEF PollGrant
  <2>2. status' \in [Ops -> OpStatus] /\ lease' \in [Ops -> Leases] /\ nTokens' \in 0..MaxTokens
    BY <1>1, <2>1, TypeGrants, TypeWriteGrant
  <2> QED BY <1>3, <2>2 DEF PollGrant, TypeOK, windows
<1>4. CASE PollReads(g)
  <2>1. PICK c \in Grants(g, status) : leasing' = [leasing EXCEPT ![d] = c]
    BY <1>4 DEF PollReads
  <2>2. c \in OpenGrants
    BY TypeGrants
  <2> QED BY <1>4, <2>1, <2>2 DEF PollReads, TypeOK, queue
<1> QED BY <1>2, <1>3, <1>4

LEMMA TypePollWrites ==
  ASSUME TypeOK, NEW d \in Devices, PollWrites(d)
  PROVE  TypeOK'
<1>1. leasing[d] \in OpenGrants
  BY DEF PollWrites, Unlocked, TypeOK
<1>2. status' \in [Ops -> OpStatus] /\ lease' \in [Ops -> Leases] /\ nTokens' \in 0..MaxTokens
  BY <1>1, TypeWriteGrant DEF PollWrites, TypeOK
<1> QED BY <1>2 DEF PollWrites, TypeOK

LEMMA TypeAccept ==
  ASSUME TypeOK, NEW r \in NormalizedResults, NEW last, Accept(r, last)
  PROVE  judging' \in SUBSET [res : NormalizedResults, last : 0..MaxTC] => TypeOK'
<1>1. r.op \in Ops /\ r.sig \in Sigs /\ r.tc \in 0..MaxTC
  BY DEF NormalizedResults
<1>2. status' \in [Ops -> OpStatus]
  BY StatusNames DEF TypeOK, Accept
<1>3. result' \in [Ops -> Accepted]
  BY <1>1 DEF TypeOK, Accept, Accepted
<1>4. invoice' \in [Invoices -> InvoiceRows]
  BY <1>1 DEF TypeOK, Accept, InvoiceRows
<1>5. device' \in [Devices -> DeviceRows]
  BY <1>1 DEF TypeOK, Accept, RaiseCounter, DeviceRows
<1> QED BY <1>2, <1>3, <1>4, <1>5 DEF TypeOK, Accept

(* A result judged without the lock of the device has the type of a normalized result, *)
(* and the counter it is compared to is the one of a device.                           *)
LEMMA TypeResultReads ==
  ASSUME TypeOK, NEW g \in Gateways, NEW r \in NormalizedResults, ResultReads(g, r)
  PROVE  TypeOK'
<1>1. doc[r.op].dev \in Devices
  BY ConstantsAssumption DEF ResultReads, Acceptable, MayReport
<1>2. device[doc[r.op].dev].lastTc \in 0..MaxTC
  BY <1>1 DEF TypeOK, DeviceRows
<1>3. judging' \in SUBSET [res : NormalizedResults, last : 0..MaxTC]
  BY <1>2 DEF ResultReads
<1> QED BY <1>3 DEF ResultReads, TypeOK, queue

LEMMA TypeResultWrites ==
  ASSUME TypeOK, ResultWrites
  PROVE  TypeOK'
<1>1. PICK j \in judging : Accept(j.res, j.last)
  BY DEF ResultWrites
<1>2. j.res \in NormalizedResults
  BY DEF TypeOK
<1> QED BY <1>1, <1>2, TypeAccept DEF ResultWrites

LEMMA TypeReportRequeued ==
  ASSUME TypeOK, NEW g \in Gateways, NEW r \in Results, ReportRequeued(g, r)
  PROVE  TypeOK'
<1>1. r.op \in Ops
  BY ResultFields
<1>2. doc[r.op] \in Docs
  BY <1>1 DEF TypeOK
<1>3. doc' \in [Ops -> Docs] /\ nOps' \in 0..MaxOps /\ nOps + 1 \in Ops
  <2>1. /\ doc[r.op].kind \in {"NORMALIZE", "RESYNC", "None"} /\ doc[r.op].inv \in Invoices \cup {None}
        /\ doc[r.op].dev \in Devices \cup {None} /\ doc[r.op].attempt + 1 \in Nat
    BY <1>2 DEF Docs
  <2>2. Insert(doc[r.op].kind, doc[r.op].inv, doc[r.op].dev, doc[r.op].attempt + 1)
    BY DEF ReportRequeued
  <2> QED BY <2>1, <2>2, TypeInsert
<1>4. invoice' \in [Invoices -> InvoiceRows]
  BY <1>3, TypeInvoiceOf DEF ReportRequeued
<1> QED BY <1>3, <1>4, StatusNames DEF TypeOK, ReportRequeued, windows

LEMMA TypeApplyResult ==
  ASSUME TypeOK, NEW g \in Gateways, NEW r \in Results, ApplyResult(g, r)
  PROVE  TypeOK'
<1>1. CASE ReportResync(g, r)
  BY <1>1, StatusNames DEF TypeOK, ReportResync, windows
<1>2. CASE ReportContested(g, r)
  BY <1>2, StatusNames, TypeInvoiceOf DEF TypeOK, ReportContested, InvoiceError, windows
<1>3. CASE r.outcome = "normalized" /\ (ReportNormalized(g, r) \/ ResultReads(g, r))
  <2>1. r \in NormalizedResults
    BY <1>3, NormalizedAreNormalized
  <2>2. ReportNormalized(g, r) => TypeOK'
    BY <2>1, TypeAccept DEF ReportNormalized, TypeOK
  <2> QED BY <1>3, <2>1, <2>2, TypeResultReads
<1>4. CASE ReportRequeued(g, r)
  BY <1>4, TypeReportRequeued
<1>5. CASE ReportRejected(g, r)
  BY <1>5, StatusNames, TypeInvoiceOf DEF TypeOK, ReportRejected, InvoiceError, windows
<1>6. CASE ReportUncertain(g, r)
  BY <1>6, StatusNames DEF TypeOK, ReportUncertain, windows
<1> QED BY <1>1, <1>2, <1>3, <1>4, <1>5, <1>6 DEF ApplyResult

LEMMA TypeHeartbeat ==
  ASSUME TypeOK, NEW g \in Gateways, NEW tc \in 0..MaxTC, NEW seen, Heartbeat(g, tc, seen)
  PROVE  TypeOK'
<1>1. lease' \in [Ops -> Leases]
  BY TypeLease DEF Heartbeat
<1>2. device' \in [Devices -> DeviceRows]
  BY DEF TypeOK, Heartbeat, DeviceRows
<1> QED BY <1>1, <1>2 DEF TypeOK, Heartbeat, windows
(* A handler writes a status name and, at most, an invoice row. *)
LEMMA TypeWriteBack ==
  ASSUME TypeOK, NEW h \in Handlers, NEW S, WriteBack(h, S)
  PROVE  status' \in [Ops -> OpStatus] /\ invoice' \in [Invoices -> InvoiceRows]
<1>1. Written(h) \in OpStatus
  BY StatusNames DEF Written, Handlers
<1>2. ASSUME NEW i \in Invoices, NEW p \in {None, invoice[i].op}
      PROVE  [invoice[i] EXCEPT !.status = "Pending", !.op = p] \in InvoiceRows
  <2>1. invoice[i] \in InvoiceRows
    BY DEF TypeOK
  <2> QED BY <2>1 DEF InvoiceRows
<1> QED BY <1>1, <1>2 DEF TypeOK, WriteBack

LEMMA TypeHandler ==
  ASSUME TypeOK, NEW h \in Handlers, Handler(h)
  PROVE  TypeOK'
<1>1. CASE AtOnce(h)
  BY <1>1, TypeWriteBack DEF AtOnce, TypeOK, windows
<1>2. CASE StartReading(h)
  <2>1. PICK S \in Reads(h) : reading' = {[handler |-> h, rows |-> S]}
    BY <1>2 DEF StartReading
  <2>2. S \in SUBSET Ops
    BY <2>1, OpsAreNumbers DEF Reads, Handlers, In, OpsOf, OpsOn
  <2>3. [handler |-> h, rows |-> S] \in [handler : Handlers, rows : SUBSET Ops]
    BY <2>2
  <2>4. reading' \in SUBSET [handler : Handlers, rows : SUBSET Ops]
    BY <2>1, <2>3
  <2> QED BY <1>2, <2>4 DEF StartReading, TypeOK, queue
<1>3. CASE FinishReading(h)
  <2>1. PICK t \in reading : WriteBack(h, t.rows)
    BY <1>3 DEF FinishReading
  <2>2. status' \in [Ops -> OpStatus] /\ invoice' \in [Invoices -> InvoiceRows]
    BY <2>1, TypeWriteBack
  <2> QED BY <1>3, <2>2 DEF FinishReading, TypeOK
<1> QED BY <1>1, <1>2, <1>3 DEF Handler

LEMMA TypeNext ==
  ASSUME TypeOK, [Next]_vars
  PROVE  TypeOK'
<1>1. CASE UNCHANGED vars
  BY <1>1 DEF vars, TypeOK
<1>2. ASSUME NEW i \in Invoices, Request(i) PROVE TypeOK'
  BY <1>2, TypeRequest
<1>3. ASSUME NEW d \in Devices, RequestResync(d) PROVE TypeOK'
  BY <1>3, TypeRequestResync
<1>4. ASSUME NEW d \in Devices, ValidateDevice(d) PROVE TypeOK'
  BY <1>4 DEF ValidateDevice, TypeOK, DeviceRows, windows
<1>5. ASSUME NEW d \in Devices, PollWrites(d) PROVE TypeOK'
  BY <1>5, TypePollWrites
<1>6. ASSUME NEW o \in Ops, LeaseLapses(o) PROVE TypeOK'
  BY <1>6, TypeLease DEF LeaseLapses, TypeOK, Leases, windows
<1>7. ASSUME NEW o \in Ops, Withdraw(o) PROVE TypeOK'
  BY <1>7, StatusNames, TypeInvoiceOf DEF Withdraw, TypeOK, windows
<1>8. ASSUME NEW g \in Gateways, PollHeld(g) \/ PollGrant(g) \/ PollReads(g) PROVE TypeOK'
  BY <1>8, TypePolls
<1>9. ASSUME NEW g \in Gateways, NEW r \in Results, ApplyResult(g, r) PROVE TypeOK'
  BY <1>9, TypeApplyResult
<1>10. ASSUME NEW g \in Gateways, NEW tc \in 0..MaxTC, NEW seen, Heartbeat(g, tc, seen)
       PROVE  TypeOK'
  BY <1>10, TypeHeartbeat
<1>11. ASSUME NEW h \in Handlers, Handler(h) PROVE TypeOK'
  BY <1>11, TypeHandler
<1>12. CASE ResultWrites
  BY <1>12, TypeResultWrites
<1> QED
  BY <1>1, <1>2, <1>3, <1>4, <1>5, <1>6, <1>7, <1>8, <1>9, <1>10, <1>11, <1>12
  DEF Next, Handlers, ExpireLeases, CancelQueued, EditDraft, SubmitSwitch, ResolveDispute

(* The rows of the queue, of the invoices and of the devices hold what their columns *)
(* may hold, whatever the gateways report and however the handlers interleave.       *)
THEOREM TypeCorrect == Spec => []TypeOK
  BY TypeInit, TypeNext, PTL DEF Spec

----
(***************************************************************************)
(* The barrier. OneHeldPerDevice is not inductive alone: between the two   *)
(* steps of a poll it rests on PollAlone, which rests on the row lock of   *)
(* the device (Unlocked) and on OneHeldPerDevice itself.                   *)
(***************************************************************************)
Barrier == OneHeldPerDevice /\ PollAlone

(* A step that grants nothing: an operation held after it was held before. *)
NothingGranted ==
  /\ leasing' = leasing
  /\ Created \subseteq Created'
  /\ \A o \in Created : doc'[o] = doc[o]
  /\ \A o \in Created' : status'[o] \in Held => o \in Created /\ status[o] \in Held

LEMMA BarrierKept ==
  ASSUME TypeOK, Barrier, NothingGranted
  PROVE  Barrier'
<1>1. OneHeldPerDevice'
  BY DEF Barrier, OneHeldPerDevice, NothingGranted
<1>2. PollAlone'
  BY DEF Barrier, PollAlone, NothingGranted, Unlocked, OpsOn
<1> QED BY <1>1, <1>2 DEF Barrier

LEMMA InsertGrantsNothing ==
  ASSUME TypeOK, NEW k, NEW i, NEW d, NEW n, Insert(k, i, d, n),
         leasing' = leasing,
         \A o \in Ops : status'[o] \in Held => o # nOps + 1 /\ status[o] \in Held
  PROVE  NothingGranted
<1>1. Created' = Created \cup {nOps + 1} /\ Created' \subseteq Ops
  BY InsertCreates
<1>2. \A o \in Created : doc'[o] = doc[o]
  BY InsertCreates
<1> QED BY <1>1, <1>2 DEF NothingGranted

(* A step that creates nothing and grants nothing. *)
LEMMA SettlingGrantsNothing ==
  ASSUME TypeOK, UNCHANGED <<doc, nOps, leasing>>,
         \A o \in Ops : status'[o] \in Held => status[o] \in Held
  PROVE  NothingGranted
BY OpsAreNumbers DEF NothingGranted, Created

LEMMA ResultsGrantNothing ==
  ASSUME TypeOK, NEW g \in Gateways, NEW r \in Results, ApplyResult(g, r)
  PROVE  NothingGranted
<1>1. CASE ReportResync(g, r)
  BY <1>1, SettlingGrantsNothing DEF TypeOK, ReportResync, windows, Held
<1>2. CASE ReportContested(g, r)
  BY <1>2, SettlingGrantsNothing DEF TypeOK, ReportContested, windows, Held
<1>3. CASE ReportNormalized(g, r)
  BY <1>3, SettlingGrantsNothing DEF TypeOK, ReportNormalized, Accept, Held
<1>4. CASE ReportRequeued(g, r)
  <2>1. r.op \in Ops
    BY ResultFields
  <2>2. nOps + 1 \in Ops /\ nOps + 1 \notin Created
    BY <1>4, OpsAreNumbers DEF ReportRequeued, Insert
  <2>3. \A o \in Ops : status'[o] \in Held => o # nOps + 1 /\ status[o] \in Held
    BY <1>4, <2>1, <2>2 DEF TypeOK, ReportRequeued, Held
  <2>4. Insert(doc[r.op].kind, doc[r.op].inv, doc[r.op].dev, doc[r.op].attempt + 1)
    BY <1>4 DEF ReportRequeued
  <2>5. leasing' = leasing
    BY <1>4 DEF ReportRequeued, windows
  <2> QED BY <2>3, <2>4, <2>5, InsertGrantsNothing
<1>5. CASE ReportRejected(g, r)
  BY <1>5, SettlingGrantsNothing DEF TypeOK, ReportRejected, windows, Held
<1>6. CASE ReportUncertain(g, r)
  BY <1>6, SettlingGrantsNothing DEF TypeOK, ReportUncertain, windows, Held
<1>7. CASE ResultReads(g, r)
  BY <1>7, SettlingGrantsNothing DEF ResultReads, queue
<1> QED BY <1>1, <1>2, <1>3, <1>4, <1>5, <1>6, <1>7 DEF ApplyResult

LEMMA HandlersGrantNothing ==
  ASSUME TypeOK, NEW h \in Handlers, Handler(h)
  PROVE  NothingGranted
<1>1. ASSUME NEW S, WriteBack(h, S), UNCHANGED <<doc, nOps, leasing>> PROVE NothingGranted
  <2>1. Written(h) \notin Held
    BY DEF Written, Handlers, Held
  <2> QED BY <1>1, <2>1, SettlingGrantsNothing DEF WriteBack
<1>2. CASE AtOnce(h)
  BY <1>1, <1>2 DEF AtOnce, windows
<1>3. CASE StartReading(h)
  BY <1>3, SettlingGrantsNothing DEF StartReading, queue
<1>4. CASE FinishReading(h)
  BY <1>1, <1>4 DEF FinishReading
<1> QED BY <1>2, <1>3, <1>4 DEF Handler

LEMMA RequestsGrantNothing ==
  ASSUME TypeOK,
         \/ \E i \in Invoices : Request(i)
         \/ \E d \in Devices : RequestResync(d)
  PROVE  NothingGranted
<1>1. ASSUME NEW k, NEW i, NEW d, NEW n, Insert(k, i, d, n), leasing' = leasing,
             status' = [status EXCEPT ![nOps + 1] = "Queued"]
      PROVE  NothingGranted
  <2>1. \A o \in Ops : status'[o] \in Held => o # nOps + 1 /\ status[o] \in Held
    BY <1>1 DEF TypeOK, Held
  <2> QED BY <1>1, <2>1, InsertGrantsNothing
<1>2. ASSUME NEW i \in Invoices, Request(i) PROVE NothingGranted
  BY <1>1, <1>2 DEF Request, windows
<1>3. ASSUME NEW d \in Devices, RequestResync(d) PROVE NothingGranted
  BY <1>1, <1>3 DEF RequestResync, windows
<1> QED BY <1>2, <1>3

(* The two ways a poll grants: both found nothing held on the device. *)
LEMMA ExpiredHeld ==
  ASSUME TypeOK, NEW d, NEW o \in Ops, Expired(d)[o] \in Held
  PROVE  status[o] \in Held
BY DEF Expired, Held

LEMMA BarrierPollGrant ==
  ASSUME TypeOK, Barrier, NEW g \in Gateways, PollGrant(g)
  PROVE  Barrier'
<1> DEFINE d == DeviceOfGateway[g]
           st == Expired(d)
<1>1. PICK c \in Grants(g, st) : WriteGrant(c, st)
  BY DEF PollGrant
<1>2. c.op \in Created /\ doc[c.op].dev = d /\ ~Barred(d, st)
  BY <1>1, TypeGrants
<1>3. \A o \in OpsOn(d) : st[o] \notin Held
  BY <1>2 DEF Barred
<1>4. UNCHANGED <<doc, nOps, leasing>> /\ Unlocked(d)
  BY DEF PollGrant, MayPoll, windows
<1>5. Created' = Created /\ \A e : OpsOn(e)' = OpsOn(e)
  BY <1>4 DEF Created, OpsOn
<1>6. \A o \in Created : status'[o] \in Held => o = c.op \/ (doc[o].dev # d /\ status[o] \in Held)
  BY <1>1, <1>2, <1>3, OpsAreNumbers, ExpiredHeld, TypeExpired DEF WriteGrant, OpsOn
<1>7. OneHeldPerDevice'
  BY <1>2, <1>4, <1>5, <1>6 DEF Barrier, OneHeldPerDevice
<1>8. PollAlone'
  <2> SUFFICES ASSUME NEW e \in Devices, ~Unlocked(e)'
               PROVE  leasing'[e].op \in OpsOn(e) /\ \A o \in OpsOn(e) : status'[o] \notin Held
    BY <1>5 DEF PollAlone
  <2>1. ~Unlocked(e) /\ e # d
    BY <1>4 DEF Unlocked
  <2>2. leasing[e].op \in OpsOn(e) /\ \A o \in OpsOn(e) : status[o] \notin Held
    BY <2>1 DEF Barrier, PollAlone
  <2> QED BY <1>2, <1>4, <1>6, <2>1, <2>2 DEF OpsOn
<1> QED BY <1>7, <1>8 DEF Barrier

LEMMA BarrierPollReads ==
  ASSUME TypeOK, Barrier, NEW g \in Gateways, PollReads(g)
  PROVE  Barrier'
<1> DEFINE d == DeviceOfGateway[g]
<1>1. PICK c \in Grants(g, status) : leasing' = [leasing EXCEPT ![d] = c]
  BY DEF PollReads
<1>2. c.op \in OpsOn(d) /\ ~Barred(d, status)
  BY TypeGrants DEF OpsOn
<1>3. \A o \in OpsOn(d) : status[o] \notin Held
  BY <1>2 DEF Barred
<1>4. UNCHANGED <<doc, nOps, status>>
  BY DEF PollReads, queue
<1>5. Created' = Created /\ \A e : OpsOn(e)' = OpsOn(e)
  BY <1>4 DEF Created, OpsOn
<1>6. OneHeldPerDevice'
  BY <1>4, <1>5 DEF Barrier, OneHeldPerDevice
<1>7. PollAlone'
  BY <1>1, <1>2, <1>3, <1>4, <1>5 DEF Barrier, PollAlone, Unlocked, TypeOK
<1> QED BY <1>6, <1>7 DEF Barrier

LEMMA BarrierPollWrites ==
  ASSUME TypeOK, Barrier, NEW d \in Devices, PollWrites(d)
  PROVE  Barrier'
<1> DEFINE c == leasing[d]
<1>1. c.op \in OpsOn(d) /\ \A o \in OpsOn(d) : status[o] \notin Held
  BY DEF Barrier, PollAlone, PollWrites
<1>2. status' = [status EXCEPT ![c.op] = c.to] /\ leasing' = [leasing EXCEPT ![d] = NoGrant]
  BY DEF PollWrites, WriteGrant
<1>3. UNCHANGED <<doc, nOps>>
  BY DEF PollWrites
<1>4. Created' = Created /\ \A e : OpsOn(e)' = OpsOn(e)
  BY <1>3 DEF Created, OpsOn
<1>5. \A o \in Created : status'[o] \in Held => o = c.op \/ (doc[o].dev # d /\ status[o] \in Held)
  BY <1>1, <1>2, OpsAreNumbers DEF OpsOn, TypeOK
<1>6. OneHeldPerDevice'
  BY <1>1, <1>3, <1>4, <1>5 DEF Barrier, OneHeldPerDevice, OpsOn
<1>7. PollAlone'
  <2> SUFFICES ASSUME NEW e \in Devices, ~Unlocked(e)'
               PROVE  leasing'[e].op \in OpsOn(e) /\ \A o \in OpsOn(e) : status'[o] \notin Held
    BY <1>4 DEF PollAlone
  <2>1. e # d /\ leasing'[e] = leasing[e] /\ ~Unlocked(e)
    BY <1>2 DEF Unlocked, TypeOK
  <2>2. leasing[e].op \in OpsOn(e) /\ \A o \in OpsOn(e) : status[o] \notin Held
    BY <2>1 DEF Barrier, PollAlone
  <2> QED BY <1>1, <1>5, <2>1, <2>2 DEF OpsOn
<1> QED BY <1>6, <1>7 DEF Barrier

LEMMA BarrierInit == Init => Barrier
  BY DEF Init, Barrier, OneHeldPerDevice, PollAlone, Unlocked, Created

LEMMA BarrierNext ==
  ASSUME TypeOK, Barrier, [Next]_vars
  PROVE  Barrier'
<1>1. CASE UNCHANGED vars
  BY <1>1, SettlingGrantsNothing, BarrierKept DEF vars
<1>2. ASSUME \/ \E i \in Invoices : Request(i)
             \/ \E d \in Devices : RequestResync(d)
      PROVE  Barrier'
  BY <1>2, RequestsGrantNothing, BarrierKept
<1>3. ASSUME NEW d \in Devices, ValidateDevice(d) PROVE Barrier'
  BY <1>3, SettlingGrantsNothing, BarrierKept DEF ValidateDevice, windows
<1>4. ASSUME NEW d \in Devices, PollWrites(d) PROVE Barrier'
  BY <1>4, BarrierPollWrites
<1>5. ASSUME NEW o \in Ops, LeaseLapses(o) PROVE Barrier'
  BY <1>5, SettlingGrantsNothing, BarrierKept DEF LeaseLapses, windows
<1>6. ASSUME NEW o \in Ops, Withdraw(o) PROVE Barrier'
  BY <1>6, SettlingGrantsNothing, BarrierKept DEF Withdraw, windows, Held, TypeOK
<1>7. ASSUME NEW g \in Gateways, PollHeld(g) PROVE Barrier'
  <2>1. \A o \in Ops : status'[o] \in Held => status[o] \in Held
    BY <1>7, ExpiredHeld DEF PollHeld
  <2> QED BY <1>7, <2>1, SettlingGrantsNothing, BarrierKept DEF PollHeld, windows
<1>8. ASSUME NEW g \in Gateways, PollGrant(g) PROVE Barrier'
  BY <1>8, BarrierPollGrant
<1>9. ASSUME NEW g \in Gateways, PollReads(g) PROVE Barrier'
  BY <1>9, BarrierPollReads
<1>10. ASSUME NEW g \in Gateways, NEW r \in Results, ApplyResult(g, r) PROVE Barrier'
  BY <1>10, ResultsGrantNothing, BarrierKept
<1>11. ASSUME NEW g \in Gateways, NEW tc, NEW seen, Heartbeat(g, tc, seen) PROVE Barrier'
  BY <1>11, SettlingGrantsNothing, BarrierKept DEF Heartbeat, windows
<1>12. ASSUME NEW h \in Handlers, Handler(h) PROVE Barrier'
  BY <1>12, HandlersGrantNothing, BarrierKept
<1>13. ASSUME ResultWrites PROVE Barrier'
  BY <1>13, SettlingGrantsNothing, BarrierKept DEF ResultWrites, Accept, TypeOK, Held
<1> QED
  BY <1>1, <1>2, <1>3, <1>4, <1>5, <1>6, <1>7, <1>8, <1>9, <1>10, <1>11, <1>12, <1>13
  DEF Next, Handlers, ExpireLeases, CancelQueued, EditDraft, SubmitSwitch, ResolveDispute

(* An MCF never has two held operations: not with several gateways polling for it, not *)
(* when a poll is overtaken by results, expiries, cancellations or decisions.          *)
THEOREM BarrierHolds == Spec => []OneHeldPerDevice
<1>1. Barrier => OneHeldPerDevice
  BY DEF Barrier
<1> QED BY <1>1, TypeCorrect, BarrierInit, BarrierNext, PTL DEF Spec

(* While a poll holds the row of its device, no operation of that device becomes held. *)
THEOREM PollIsAlone == Spec => []PollAlone
<1>1. Barrier => PollAlone
  BY DEF Barrier
<1> QED BY <1>1, TypeCorrect, BarrierInit, BarrierNext, PTL DEF Spec

----
(***************************************************************************)
(* The counters. Two accepted results cannot share a TC because last_tc    *)
(* stays at or above every TC accepted (LastTcCovers), which makes a       *)
(* second use of a TC a contested result. A result under way goes by the   *)
(* last_tc it has read (JudgedApart): this holds as long as no other       *)
(* result of its MCF is accepted meanwhile (ResultsTakeTurns). Without     *)
(* that hypothesis two results judged together may carry the same TC.      *)
(***************************************************************************)
LastTcCovers ==
  \A o \in Created : status[o] = "Normalized" =>
    doc[o].dev \in Devices /\ result[o].tc <= device[doc[o].dev].lastTc

(* A result under way belongs to an operation of an MCF; it exceeds the counter it     *)
(* has read, which is at or above every TC accepted of this MCF.                       *)
JudgedApart ==
  \A j \in judging :
    /\ j.res.op \in Created /\ doc[j.res.op].dev \in Devices
    /\ j.last = 0 \/ j.res.tc = 0 \/ j.res.tc > j.last
    /\ \A o \in Created :
         status[o] = "Normalized" /\ doc[o].dev = doc[j.res.op].dev => result[o].tc <= j.last

Counters == LastTcCovers /\ AcceptedCountersDistinct

LEMMA CountersAreNumbers ==
  ASSUME TypeOK
  PROVE  /\ \A o \in Ops : result[o].tc \in Nat
         /\ \A d \in Devices : device[d].lastTc \in Nat
         /\ 0..MaxTC \subseteq Nat
<1>1. 0..MaxTC \subseteq Nat
  BY ConstantsAssumption
<1>2. \A o \in Ops : result[o] \in Accepted
  BY DEF TypeOK
<1>3. \A d \in Devices : device[d] \in DeviceRows
  BY DEF TypeOK
<1> QED BY <1>1, <1>2, <1>3 DEF Accepted, DeviceRows

(* A step that accepts nothing: an accepted operation was accepted before, with the *)
(* same TC, and last_tc does not go down.                                           *)
NothingAccepted ==
  /\ result' = result
  /\ \A d \in Devices : device'[d].lastTc \in Nat /\ device[d].lastTc <= device'[d].lastTc
  /\ \A o \in Created : doc'[o] = doc[o]
  /\ \A o \in Created' :
       status'[o] = "Normalized" => o \in Created /\ status[o] = "Normalized"

LEMMA CountersKept ==
  ASSUME TypeOK, Counters, NothingAccepted
  PROVE  Counters'
<1>1. \A o \in Created : result[o].tc \in Nat
  BY OpsAreNumbers, CountersAreNumbers
<1>2. \A d \in Devices : device[d].lastTc \in Nat
  BY CountersAreNumbers
<1>3. LastTcCovers'
  <2> SUFFICES ASSUME NEW o \in Created', status'[o] = "Normalized"
               PROVE  doc'[o].dev \in Devices /\ result'[o].tc <= device'[doc'[o].dev].lastTc
    BY DEF LastTcCovers
  <2>1. o \in Created /\ status[o] = "Normalized" /\ doc'[o] = doc[o] /\ result'[o] = result[o]
    BY DEF NothingAccepted
  <2>2. doc[o].dev \in Devices /\ result[o].tc <= device[doc[o].dev].lastTc
    BY <2>1 DEF Counters, LastTcCovers
  <2>3. device[doc[o].dev].lastTc <= device'[doc[o].dev].lastTc
        /\ device'[doc[o].dev].lastTc \in Nat
    BY <2>2 DEF NothingAccepted
  <2> QED BY <1>1, <1>2, <2>1, <2>2, <2>3
<1>4. AcceptedCountersDistinct'
  BY DEF Counters, AcceptedCountersDistinct, NothingAccepted
<1> QED BY <1>3, <1>4 DEF Counters

LEMMA InsertAcceptsNothing ==
  ASSUME TypeOK, NEW k, NEW i, NEW d, NEW n, Insert(k, i, d, n),
         UNCHANGED <<result, device>>,
         \A o \in Ops : status'[o] = "Normalized" => o # nOps + 1 /\ status[o] = "Normalized"
  PROVE  NothingAccepted
<1>1. Created' = Created \cup {nOps + 1} /\ Created' \subseteq Ops
  BY InsertCreates
<1>2. \A o \in Created : doc'[o] = doc[o]
  BY InsertCreates
<1>3. \A e \in Devices : device[e].lastTc \in Nat /\ device[e].lastTc <= device[e].lastTc
  BY CountersAreNumbers
<1> QED BY <1>1, <1>2, <1>3 DEF NothingAccepted

(* A step that creates nothing, accepts nothing and leaves the counters alone. *)
LEMMA SettlingAcceptsNothing ==
  ASSUME TypeOK, UNCHANGED <<doc, nOps, result>>,
         \A d \in Devices : device'[d].lastTc = device[d].lastTc,
         \A o \in Ops : status'[o] = "Normalized" => status[o] = "Normalized"
  PROVE  NothingAccepted
<1>1. \A d \in Devices : device[d].lastTc \in Nat /\ device[d].lastTc <= device[d].lastTc
  BY CountersAreNumbers
<1> QED BY <1>1, OpsAreNumbers DEF NothingAccepted, Created

LEMMA CountersReportNormalized ==
  ASSUME TypeOK, Counters, NEW g \in Gateways, NEW r \in Results, r.outcome = "normalized",
         ReportNormalized(g, r)
  PROVE  Counters'
<1> DEFINE d == doc[r.op].dev
           last == device[d].lastTc
<1>1. r.op \in Ops /\ r.tc \in Nat /\ d \in Devices /\ last \in Nat
  BY ResultFields, CountersAreNumbers, ConstantsAssumption
  DEF ReportNormalized, Acceptable, MayReport
<1>2. result' = [result EXCEPT ![r.op] = [sig |-> r.sig, tc |-> r.tc]] /\ UNCHANGED <<doc, nOps>>
      /\ status' = [status EXCEPT ![r.op] = "Normalized"]
  BY DEF ReportNormalized, Accept
<1>3. Created' = Created /\ Created \subseteq Ops
  BY <1>2, OpsAreNumbers DEF Created
<1>4. \A e \in Devices : device'[e].lastTc \in Nat /\ device[e].lastTc <= device'[e].lastTc
  BY <1>1, CountersAreNumbers DEF ReportNormalized, Accept, RaiseCounter, TypeOK, DeviceRows
<1>5. r.tc <= device'[d].lastTc
  BY <1>1 DEF ReportNormalized, Accept, RaiseCounter, TypeOK, DeviceRows
<1>6. last = 0 \/ r.tc = 0 \/ r.tc > last
  BY <1>1 DEF ReportNormalized, Acceptable, Contested, CounterProblem
<1>7. \A o \in Created : status'[o] = "Normalized" =>
        IF o = r.op THEN result'[o].tc = r.tc
        ELSE result'[o] = result[o] /\ status[o] = "Normalized"
  BY <1>1, <1>2, <1>3 DEF TypeOK
<1>8. LastTcCovers'
  <2> SUFFICES ASSUME NEW o \in Created, status'[o] = "Normalized"
               PROVE  doc[o].dev \in Devices /\ result'[o].tc <= device'[doc[o].dev].lastTc
    BY <1>2, <1>3 DEF LastTcCovers
  <2>1. CASE o = r.op
    BY <1>1, <1>5, <1>7, <2>1
  <2>2. CASE o # r.op
    <3>1. doc[o].dev \in Devices /\ result[o].tc <= device[doc[o].dev].lastTc
      BY <1>7, <2>2 DEF Counters, LastTcCovers
    <3>2. result[o].tc \in Nat /\ device[doc[o].dev].lastTc \in Nat
      BY <1>3, <3>1, CountersAreNumbers
    <3> QED BY <1>4, <1>7, <2>2, <3>1, <3>2
  <2> QED BY <2>1, <2>2
<1>9. AcceptedCountersDistinct'
  <2> SUFFICES ASSUME NEW o \in Created, NEW p \in Created, o # p,
                      status'[o] = "Normalized", status'[p] = "Normalized",
                      doc[o].dev = doc[p].dev, result'[o].tc = result'[p].tc, result'[o].tc # 0
               PROVE  FALSE
    BY <1>2, <1>3 DEF AcceptedCountersDistinct
  <2>1. ASSUME NEW q \in Created, q # r.op, status'[q] = "Normalized", doc[q].dev = d,
               result'[q].tc = r.tc, r.tc # 0
        PROVE  FALSE
    <3>1. result[q].tc = r.tc /\ r.tc <= last
      BY <1>7, <2>1 DEF Counters, LastTcCovers
    <3> QED BY <1>1, <1>6, <2>1, <3>1
  <2>2. CASE o = r.op
    BY <1>7, <2>1, <2>2
  <2>3. CASE p = r.op
    BY <1>7, <2>1, <2>3
  <2>4. CASE o # r.op /\ p # r.op
    BY <1>7, <2>4 DEF Counters, AcceptedCountersDistinct
  <2> QED BY <2>2, <2>3, <2>4
<1> QED BY <1>8, <1>9 DEF Counters

LEMMA CountersApplyResult ==
  ASSUME TypeOK, Counters, NEW g \in Gateways, NEW r \in Results, ApplyResult(g, r)
  PROVE  Counters'
<1>1. CASE ReportResync(g, r)
  BY <1>1, SettlingAcceptsNothing, CountersKept DEF TypeOK, ReportResync
<1>2. CASE ReportContested(g, r)
  BY <1>2, SettlingAcceptsNothing, CountersKept DEF TypeOK, ReportContested
<1>3. CASE r.outcome = "normalized" /\ ReportNormalized(g, r)
  BY <1>3, CountersReportNormalized
<1>4. CASE ReportRequeued(g, r)
  <2>1. r.op \in Ops
    BY ResultFields
  <2>2. nOps + 1 \in Ops /\ r.op # nOps + 1
    BY <1>4, OpsAreNumbers DEF ReportRequeued, Insert, MayReport
  <2>3. \A o \in Ops : status'[o] = "Normalized" => o # nOps + 1 /\ status[o] = "Normalized"
    BY <1>4, <2>1, <2>2 DEF TypeOK, ReportRequeued
  <2>4. Insert(doc[r.op].kind, doc[r.op].inv, doc[r.op].dev, doc[r.op].attempt + 1)
    BY <1>4 DEF ReportRequeued
  <2>5. UNCHANGED <<result, device>>
    BY <1>4 DEF ReportRequeued
  <2> QED BY <2>3, <2>4, <2>5, InsertAcceptsNothing, CountersKept
<1>5. CASE ReportRejected(g, r)
  BY <1>5, SettlingAcceptsNothing, CountersKept DEF TypeOK, ReportRejected
<1>6. CASE ReportUncertain(g, r)
  BY <1>6, SettlingAcceptsNothing, CountersKept DEF TypeOK, ReportUncertain
<1>7. CASE r.outcome = "normalized" /\ ResultReads(g, r)
  BY <1>7, SettlingAcceptsNothing, CountersKept DEF ResultReads, queue
<1> QED BY <1>1, <1>2, <1>3, <1>4, <1>5, <1>6, <1>7 DEF ApplyResult

LEMMA CountersPolls ==
  ASSUME TypeOK, Counters, NEW g \in Gateways, PollHeld(g) \/ PollGrant(g) \/ PollReads(g)
  PROVE  Counters'
<1> DEFINE st == Expired(DeviceOfGateway[g])
<1>1. \A o \in Ops : st[o] = "Normalized" => status[o] = "Normalized"
  BY DEF Expired
<1>2. CASE PollHeld(g)
  BY <1>1, <1>2, SettlingAcceptsNothing, CountersKept DEF PollHeld
<1>3. CASE PollGrant(g)
  <2>1. PICK c \in Grants(g, st) : WriteGrant(c, st)
    BY <1>3 DEF PollGrant
  <2>2. c.to # "Normalized"
    BY <2>1, TypeGrants DEF OpenGrants, Held
  <2>3. \A o \in Ops : status'[o] = "Normalized" => status[o] = "Normalized"
    BY <1>1, <2>1, <2>2, TypeExpired DEF WriteGrant
  <2> QED BY <1>3, <2>3, SettlingAcceptsNothing, CountersKept DEF PollGrant
<1>4. CASE PollReads(g)
  BY <1>4, SettlingAcceptsNothing, CountersKept DEF PollReads, queue
<1> QED BY <1>2, <1>3, <1>4

LEMMA CountersPollWrites ==
  ASSUME TypeOK, Counters, NEW d \in Devices, PollWrites(d)
  PROVE  Counters'
<1>1. leasing[d].to # "Normalized"
  BY DEF PollWrites, Unlocked, TypeOK, OpenGrants, Held
<1>2. \A o \in Ops : status'[o] = "Normalized" => status[o] = "Normalized"
  BY <1>1 DEF PollWrites, WriteGrant, TypeOK
<1> QED BY <1>2, SettlingAcceptsNothing, CountersKept DEF PollWrites

LEMMA CountersHandler ==
  ASSUME TypeOK, Counters, NEW h \in Handlers, Handler(h)
  PROVE  Counters'
<1>1. ASSUME NEW S, WriteBack(h, S), UNCHANGED <<doc, nOps, result, device>> PROVE Counters'
  <2>1. Written(h) # "Normalized"
    BY DEF Written, Handlers
  <2> QED BY <1>1, <2>1, SettlingAcceptsNothing, CountersKept DEF WriteBack
<1>2. CASE AtOnce(h)
  BY <1>1, <1>2 DEF AtOnce
<1>3. CASE StartReading(h)
  BY <1>3, SettlingAcceptsNothing, CountersKept DEF StartReading, queue
<1>4. CASE FinishReading(h)
  BY <1>1, <1>4 DEF FinishReading
<1> QED BY <1>2, <1>3, <1>4 DEF Handler

LEMMA CountersHeartbeat ==
  ASSUME TypeOK, Counters, NEW g \in Gateways, NEW tc \in 0..MaxTC, NEW seen,
         Heartbeat(g, tc, seen)
  PROVE  Counters'
<1>1. \A d \in Devices : device'[d].lastTc \in Nat /\ device[d].lastTc <= device'[d].lastTc
  BY CountersAreNumbers DEF Heartbeat, TypeOK, DeviceRows
<1>2. UNCHANGED <<doc, nOps, result, status>>
  BY DEF Heartbeat
<1>3. NothingAccepted
  BY <1>1, <1>2 DEF NothingAccepted, Created
<1> QED BY <1>3, CountersKept

LEMMA CountersRequests ==
  ASSUME TypeOK, Counters,
         \/ \E i \in Invoices : Request(i)
         \/ \E d \in Devices : RequestResync(d)
  PROVE  Counters'
<1>1. ASSUME NEW k, NEW i, NEW d, NEW n, Insert(k, i, d, n), UNCHANGED <<result, device>>,
             status' = [status EXCEPT ![nOps + 1] = "Queued"]
      PROVE  Counters'
  <2>1. \A o \in Ops : status'[o] = "Normalized" => o # nOps + 1 /\ status[o] = "Normalized"
    BY <1>1 DEF TypeOK
  <2> QED BY <1>1, <2>1, InsertAcceptsNothing, CountersKept
<1>2. ASSUME NEW i \in Invoices, Request(i) PROVE Counters'
  BY <1>1, <1>2 DEF Request
<1>3. ASSUME NEW d \in Devices, RequestResync(d) PROVE Counters'
  BY <1>1, <1>3 DEF RequestResync
<1> QED BY <1>2, <1>3

LEMMA CountersInit == Init => Counters
  BY DEF Init, Counters, LastTcCovers, AcceptedCountersDistinct, Created

(* The result under way is accepted.                                                   *)
LEMMA CountersResultWrites ==
  ASSUME TypeOK, Counters, JudgedApart, ResultWrites
  PROVE  Counters' /\ JudgedApart'
<1>1. PICK j \in judging : Accept(j.res, j.last)
  BY DEF ResultWrites
<1> DEFINE r == j.res
           d == doc[r.op].dev
<1>2. /\ r \in NormalizedResults /\ j.last \in Nat /\ r.op \in Created /\ d \in Devices
      /\ j.last = 0 \/ r.tc = 0 \/ r.tc > j.last
      /\ \A o \in Created : status[o] = "Normalized" /\ doc[o].dev = d => result[o].tc <= j.last
  <2>1. j \in [res : NormalizedResults, last : 0..MaxTC]
    BY DEF TypeOK
  <2> QED BY <2>1, CountersAreNumbers DEF JudgedApart
<1>3. r.op \in Ops /\ r.tc \in Nat /\ Created \subseteq Ops
  BY <1>2, CountersAreNumbers, OpsAreNumbers DEF NormalizedResults
<1>4. /\ result' = [result EXCEPT ![r.op] = [sig |-> r.sig, tc |-> r.tc]] /\ UNCHANGED <<doc, nOps>>
      /\ status' = [status EXCEPT ![r.op] = "Normalized"]
      /\ device' = [device EXCEPT ![d].lastTc = IF r.tc > j.last THEN r.tc ELSE @]
  BY <1>1 DEF Accept, RaiseCounter
<1>5. Created' = Created
  BY <1>4 DEF Created
<1>6. \A o \in Created : status'[o] = "Normalized" =>
        IF o = r.op THEN result'[o].tc = r.tc
        ELSE result'[o] = result[o] /\ status[o] = "Normalized" /\ result[o].tc \in Nat
  BY <1>3, <1>4, CountersAreNumbers DEF TypeOK
<1>7. /\ \A e \in Devices : e # d => device'[e].lastTc = device[e].lastTc
      /\ device'[d].lastTc = IF r.tc > j.last THEN r.tc ELSE device[d].lastTc
      /\ \A e \in Devices : device[e].lastTc \in Nat
  BY <1>2, <1>4, CountersAreNumbers DEF TypeOK, DeviceRows
<1>8. LastTcCovers'
  <2> SUFFICES ASSUME NEW o \in Created, status'[o] = "Normalized"
               PROVE  doc[o].dev \in Devices /\ result'[o].tc <= device'[doc[o].dev].lastTc
    BY <1>4, <1>5 DEF LastTcCovers
  <2>1. CASE o = r.op
    BY <1>2, <1>3, <1>6, <1>7, <2>1
  <2>2. CASE o # r.op
    <3>1. doc[o].dev \in Devices /\ result[o].tc <= device[doc[o].dev].lastTc
          /\ result'[o] = result[o] /\ status[o] = "Normalized" /\ result[o].tc \in Nat
      BY <1>6, <2>2 DEF Counters, LastTcCovers
    <3>2. CASE doc[o].dev = d /\ r.tc > j.last
      BY <1>2, <1>3, <1>7, <3>1, <3>2
    <3>3. CASE ~(doc[o].dev = d /\ r.tc > j.last)
      BY <1>7, <3>1, <3>3
    <3> QED BY <3>2, <3>3
  <2> QED BY <2>1, <2>2
<1>9. AcceptedCountersDistinct'
  <2> SUFFICES ASSUME NEW o \in Created, NEW p \in Created, o # p,
                      status'[o] = "Normalized", status'[p] = "Normalized",
                      doc[o].dev = doc[p].dev, result'[o].tc = result'[p].tc, result'[o].tc # 0
               PROVE  FALSE
    BY <1>4, <1>5 DEF AcceptedCountersDistinct
  <2>1. ASSUME NEW q \in Created, q # r.op, status'[q] = "Normalized", doc[q].dev = d,
               result'[q].tc = r.tc, r.tc # 0
        PROVE  FALSE
    <3>1. result[q].tc = r.tc /\ r.tc <= j.last
      BY <1>2, <1>6, <2>1
    <3> QED BY <1>2, <1>3, <2>1, <3>1
  <2>2. CASE o = r.op
    BY <1>6, <2>1, <2>2
  <2>3. CASE p = r.op
    BY <1>6, <2>1, <2>3
  <2>4. CASE o # r.op /\ p # r.op
    BY <1>6, <2>4 DEF Counters, AcceptedCountersDistinct
  <2> QED BY <2>2, <2>3, <2>4
<1>10. JudgedApart'
  BY DEF ResultWrites, JudgedApart
<1> QED BY <1>8, <1>9, <1>10 DEF Counters

(* A result that starts being judged.                                                  *)
LEMMA ReadsApart ==
  ASSUME TypeOK, Counters, NEW g \in Gateways, NEW r \in Results, r.outcome = "normalized", ResultReads(g, r)
  PROVE  JudgedApart'
<1>1. /\ judging' = {[res |-> r, last |-> device[doc[r.op].dev].lastTc]}
      /\ UNCHANGED <<status, doc, result, nOps>>
  BY DEF ResultReads, queue
<1>2. r.op \in Created /\ doc[r.op].dev \in Devices
  BY ConstantsAssumption DEF ResultReads, Acceptable, MayReport
<1> DEFINE last == device[doc[r.op].dev].lastTc
<1>3. last = 0 \/ r.tc = 0 \/ r.tc > last
  <2>1. ~CounterProblem(r.op, r.tc)
    BY DEF ResultReads, Acceptable, Contested
  <2>2. r.tc \in Nat /\ last \in Nat
    <3>1. r \in NormalizedResults
      BY NormalizedAreNormalized
    <3> QED BY <1>2, <3>1, CountersAreNumbers DEF NormalizedResults
  <2> QED BY <2>1, <2>2 DEF CounterProblem
<1>4. \A o \in Created : status[o] = "Normalized" /\ doc[o].dev = doc[r.op].dev => result[o].tc <= last
  BY DEF Counters, LastTcCovers
<1> QED BY <1>1, <1>2, <1>3, <1>4 DEF JudgedApart, Created

(* Any other step leaves the result under way alone: its turn is not taken.            *)
LEMMA ApartKept ==
  ASSUME TypeOK, JudgedApart, judging' = judging, ResultsTakeTurns,
         Created \subseteq Created', Created' \subseteq Ops,
         \A o \in Created : doc'[o] = doc[o],
         \A o \in Created' : o \notin Created => status'[o] # "Normalized"
  PROVE  JudgedApart'
<1> SUFFICES ASSUME NEW j \in judging
             PROVE  /\ j.res.op \in Created' /\ doc'[j.res.op].dev \in Devices
                    /\ j.last = 0 \/ j.res.tc = 0 \/ j.res.tc > j.last
                    /\ \A o \in Created' :
                         status'[o] = "Normalized" /\ doc'[o].dev = doc'[j.res.op].dev
                           => result'[o].tc <= j.last
  BY DEF JudgedApart
<1>1. /\ j.res.op \in Created /\ doc[j.res.op].dev \in Devices
      /\ j.last = 0 \/ j.res.tc = 0 \/ j.res.tc > j.last
      /\ \A o \in Created :
           status[o] = "Normalized" /\ doc[o].dev = doc[j.res.op].dev => result[o].tc <= j.last
  BY DEF JudgedApart
<1>2. ASSUME NEW o \in Created', status'[o] = "Normalized", doc'[o].dev = doc'[j.res.op].dev
      PROVE  result'[o].tc <= j.last
  <2>1. o \in Created /\ doc[o].dev = doc[j.res.op].dev
    BY <1>1, <1>2
  <2>2. status[o] = "Normalized" /\ result'[o] = result[o]
    BY <1>2, <2>1 DEF ResultsTakeTurns, OpsOn
  <2> QED BY <1>1, <2>1, <2>2
<1> QED BY <1>1, <1>2

LEMMA CountersNext ==
  ASSUME TypeOK, Counters, JudgedApart, [Next]_vars
  PROVE  Counters'
<1>1. CASE UNCHANGED vars
  BY <1>1, SettlingAcceptsNothing, CountersKept DEF vars
<1>2. ASSUME \/ \E i \in Invoices : Request(i)
             \/ \E d \in Devices : RequestResync(d)
      PROVE  Counters'
  BY <1>2, CountersRequests
<1>3. ASSUME NEW d \in Devices, ValidateDevice(d) PROVE Counters'
  BY <1>3, SettlingAcceptsNothing, CountersKept DEF ValidateDevice, TypeOK, DeviceRows
<1>4. ASSUME NEW d \in Devices, PollWrites(d) PROVE Counters'
  BY <1>4, CountersPollWrites
<1>5. ASSUME NEW o \in Ops, LeaseLapses(o) PROVE Counters'
  BY <1>5, SettlingAcceptsNothing, CountersKept DEF LeaseLapses
<1>6. ASSUME NEW o \in Ops, Withdraw(o) PROVE Counters'
  BY <1>6, SettlingAcceptsNothing, CountersKept DEF Withdraw, TypeOK
<1>7. ASSUME NEW g \in Gateways, PollHeld(g) \/ PollGrant(g) \/ PollReads(g) PROVE Counters'
  BY <1>7, CountersPolls
<1>8. ASSUME NEW g \in Gateways, NEW r \in Results, ApplyResult(g, r) PROVE Counters'
  BY <1>8, CountersApplyResult
<1>9. ASSUME NEW g \in Gateways, NEW tc \in 0..MaxTC, NEW seen, Heartbeat(g, tc, seen)
      PROVE  Counters'
  BY <1>9, CountersHeartbeat
<1>10. ASSUME NEW h \in Handlers, Handler(h) PROVE Counters'
  BY <1>10, CountersHandler
<1>11. ASSUME ResultWrites PROVE Counters'
  BY <1>11, CountersResultWrites
<1> QED
  BY <1>1, <1>2, <1>3, <1>4, <1>5, <1>6, <1>7, <1>8, <1>9, <1>10, <1>11
  DEF Next, Handlers, ExpireLeases, CancelQueued, EditDraft, SubmitSwitch, ResolveDispute

LEMMA ApartNext ==
  ASSUME TypeOK, Counters, JudgedApart, ResultsTakeTurns, [Next]_vars
  PROVE  JudgedApart'
<1>1. CASE ResultWrites
  BY <1>1, CountersResultWrites
<1>2. CASE \E g \in Gateways, r \in Results : r.outcome = "normalized" /\ ResultReads(g, r)
  BY <1>2, ReadsApart
<1>3. ASSUME UNCHANGED <<doc, nOps, judging>> PROVE JudgedApart'
  BY <1>3, OpsAreNumbers, ApartKept DEF Created
<1>4. ASSUME NEW k, NEW i, NEW d, NEW n, Insert(k, i, d, n), judging' = judging,
             status'[nOps + 1] # "Normalized"
      PROVE  JudgedApart'
  <2>1. /\ Created' = Created \cup {nOps + 1} /\ Created' \subseteq Ops
        /\ \A o \in Created : doc'[o] = doc[o]
    BY <1>4, InsertCreates
  <2> QED BY <1>4, <2>1, ApartKept
<1>5. nOps < MaxOps => nOps + 1 \in Ops
  BY ConstantsAssumption DEF TypeOK, Ops
<1>6. ASSUME NEW i \in Invoices, Request(i) PROVE JudgedApart'
  BY <1>4, <1>5, <1>6 DEF Request, Insert, windows, TypeOK
<1>7. ASSUME NEW d \in Devices, RequestResync(d) PROVE JudgedApart'
  BY <1>4, <1>5, <1>7 DEF RequestResync, Insert, windows, TypeOK
<1>8. ASSUME NEW g \in Gateways, NEW r \in Results, ApplyResult(g, r) PROVE JudgedApart'
  <2>1. CASE ReportResync(g, r) \/ ReportContested(g, r) \/ ReportRejected(g, r) \/ ReportUncertain(g, r)
    BY <1>3, <2>1 DEF ReportResync, ReportContested, ReportRejected, ReportUncertain, windows
  <2>2. CASE ReportNormalized(g, r)
    BY <1>3, <2>2 DEF ReportNormalized, Accept
  <2>3. CASE ReportRequeued(g, r)
    BY <1>4, <1>5, <2>3 DEF ReportRequeued, Insert, windows, TypeOK
  <2> QED BY <1>2, <1>8, <2>1, <2>2, <2>3 DEF ApplyResult
<1>9. ASSUME NEW h \in Handlers, Handler(h) PROVE JudgedApart'
  BY <1>3, <1>9 DEF Handler, AtOnce, StartReading, FinishReading, windows, queue
<1> QED
  BY <1>1, <1>3, <1>6, <1>7, <1>8, <1>9
  DEF Next, vars, windows, queue, ValidateDevice, PollWrites, LeaseLapses, Withdraw, PollHeld, PollGrant,
      PollReads, Heartbeat, Handlers, ExpireLeases, CancelQueued, EditDraft, SubmitSwitch, ResolveDispute

LEMMA CountersTurn ==
  TypeOK /\ Counters /\ JudgedApart /\ [Next]_vars /\ [ResultsTakeTurns]_vars => Counters' /\ JudgedApart'
<1> SUFFICES ASSUME TypeOK, Counters, JudgedApart, [Next]_vars, [ResultsTakeTurns]_vars
             PROVE  Counters' /\ JudgedApart'
  OBVIOUS
<1>1. Counters'
  BY CountersNext
<1>2. CASE ResultsTakeTurns
  BY <1>1, <1>2, ApartNext
<1>3. CASE UNCHANGED vars
  BY <1>1, <1>3 DEF JudgedApart, vars, Created
<1> QED BY <1>2, <1>3

(* No TC of an MCF is ever accepted for two operations, whatever results the gateways  *)
(* replay or invent and whatever is open in the code, as long as no result is accepted *)
(* between the read of last_tc (operations.py:341) and the write of another result of  *)
(* the same MCF.                                                                       *)
THEOREM CountersHold == Spec /\ [][ResultsTakeTurns]_vars => []AcceptedCountersDistinct
<1>1. Counters => AcceptedCountersDistinct
  BY DEF Counters
<1>2. Init => Counters /\ JudgedApart
  BY CountersInit DEF Init, JudgedApart
<1> QED BY <1>1, <1>2, CountersTurn, TypeCorrect, PTL DEF Spec

----
(***************************************************************************)
(* What holds when a lease expiry of the scheduler and a poll are one step *)
(* each, however the handlers of the users interleave (WholeLeases). The   *)
(* run lease_race shows what an interrupted poll breaks; an interrupted    *)
(* expiry undoes a result accepted since.                                  *)
(***************************************************************************)
WholeLeases == Windows \cap {"expire", "lease"} = {}

Busy == Held \cup {"Uncertain"}

(* No poll is open, no expiry was read and not written; operations not created have no *)
(* status and nobody read or judges them; a resynchronization has no invoice.          *)
Quiet ==
  /\ Judged \subseteq Created
  /\ \A d \in Devices : Unlocked(d)
  /\ \A t \in reading : t.handler # "expire" /\ t.rows \subseteq Created
  /\ \A o \in Ops \ Created : status[o] = "None"
  /\ \A o \in Created : doc[o].kind = "RESYNC" => doc[o].inv = None

(* A step that leases nothing: an operation is busy, leased or queued after it only if *)
(* it was before, or was just created.                                                 *)
NothingTaken ==
  \A o \in Ops :
    /\ status'[o] \in Busy => status[o] \in Busy
    /\ status'[o] = "Leased" => status[o] = "Leased"
    /\ status'[o] = "Queued" /\ o \in Created => status[o] = "Queued"

LEMMA WrittenBack ==
  ASSUME TypeOK, NEW h \in Handlers, NEW S, WriteBack(h, S),
         h = "expire" => \A o \in S : status[o] \in Held
  PROVE  NothingTaken
<1>1. CASE h = "expire"
  <2>1. Written(h) = "Uncertain"
    BY <1>1 DEF Written
  <2> QED BY <1>1, <2>1 DEF WriteBack, NothingTaken, Busy, Held
<1>2. CASE h # "expire"
  <2>1. Written(h) \in {"Cancelled", "Rejected"}
    BY <1>2 DEF Written, Handlers
  <2> QED BY <2>1 DEF WriteBack, NothingTaken, Busy, Held
<1> QED BY <1>1, <1>2

LEMMA HandlersTakeNothing ==
  ASSUME TypeOK, Quiet, NEW h \in Handlers, Handler(h)
  PROVE  NothingTaken
<1>1. CASE AtOnce(h)
  <2>1. PICK S \in Reads(h) : WriteBack(h, S)
    BY <1>1 DEF AtOnce
  <2>2. h = "expire" => \A o \in S : status[o] \in Held
    BY <2>1 DEF Reads, Lapsed
  <2> QED BY <2>1, <2>2, WrittenBack
<1>2. CASE StartReading(h)
  BY <1>2 DEF StartReading, queue, NothingTaken
<1>3. CASE FinishReading(h)
  <2>1. PICK t \in reading : t.handler = h /\ WriteBack(h, t.rows)
    BY <1>3 DEF FinishReading
  <2>2. h # "expire"
    BY <2>1 DEF Quiet
  <2> QED BY <2>1, <2>2, WrittenBack
<1> QED BY <1>1, <1>2, <1>3 DEF Handler

LEMMA ResultsTakeNothing ==
  ASSUME TypeOK, NEW g \in Gateways, NEW r \in Results, ApplyResult(g, r)
  PROVE  NothingTaken
<1> USE DEF NothingTaken, Busy, Held
<1>1. CASE ReportResync(g, r)
  BY <1>1 DEF TypeOK, ReportResync
<1>2. CASE ReportContested(g, r)
  BY <1>2 DEF TypeOK, ReportContested
<1>3. CASE ReportNormalized(g, r)
  BY <1>3 DEF TypeOK, ReportNormalized, Accept
<1>4. CASE ReportRequeued(g, r)
  <2>1. r.op \in Ops /\ nOps + 1 \in Ops /\ nOps + 1 \notin Created
    BY <1>4, ResultFields, OpsAreNumbers DEF ReportRequeued, Insert
  <2> QED BY <1>4, <2>1 DEF TypeOK, ReportRequeued
<1>5. CASE ReportRejected(g, r)
  BY <1>5 DEF TypeOK, ReportRejected
<1>6. CASE ReportUncertain(g, r)
  BY <1>6 DEF TypeOK, ReportUncertain
<1>7. CASE ResultReads(g, r)
  BY <1>7 DEF ResultReads, queue
<1> QED BY <1>1, <1>2, <1>3, <1>4, <1>5, <1>6, <1>7 DEF ApplyResult

LEMMA RequestsTakeNothing ==
  ASSUME TypeOK, status' = [status EXCEPT ![nOps + 1] = "Queued"], nOps < MaxOps
  PROVE  NothingTaken
BY OpsAreNumbers DEF TypeOK, NothingTaken, Busy, Held

LEMMA OnlyPollsTake ==
  ASSUME TypeOK, Quiet, [Next]_vars
  PROVE  NothingTaken \/ \E g \in Gateways : PollGrant(g)
<1> USE DEF NothingTaken
<1>1. CASE UNCHANGED vars
  BY <1>1 DEF vars
<1>2. ASSUME NEW i \in Invoices, Request(i) PROVE NothingTaken
  BY <1>2, RequestsTakeNothing DEF Request, Insert
<1>3. ASSUME NEW d \in Devices, RequestResync(d) PROVE NothingTaken
  BY <1>3, RequestsTakeNothing DEF RequestResync, Insert
<1>4. ASSUME NEW d \in Devices, ValidateDevice(d) PROVE NothingTaken
  BY <1>4 DEF ValidateDevice
<1>5. ASSUME NEW d \in Devices, PollWrites(d) PROVE FALSE
  BY <1>5 DEF PollWrites, Quiet
<1>6. ASSUME NEW o \in Ops, LeaseLapses(o) PROVE NothingTaken
  BY <1>6 DEF LeaseLapses
<1>7. ASSUME NEW o \in Ops, Withdraw(o) PROVE NothingTaken
  BY <1>7 DEF Withdraw, TypeOK, Busy, Held
<1>8. ASSUME NEW g \in Gateways, PollHeld(g) PROVE NothingTaken
  BY <1>8 DEF PollHeld, Expired, Lapsed, Busy, Held
<1>9. ASSUME NEW g \in Gateways, PollReads(g) PROVE NothingTaken
  BY <1>9 DEF PollReads, queue
<1>10. ASSUME NEW g \in Gateways, NEW r \in Results, ApplyResult(g, r) PROVE NothingTaken
  BY <1>10, ResultsTakeNothing
<1>11. ASSUME NEW g \in Gateways, NEW tc, NEW seen, Heartbeat(g, tc, seen) PROVE NothingTaken
  BY <1>11 DEF Heartbeat
<1>12. ASSUME NEW h \in Handlers, Handler(h) PROVE NothingTaken
  BY <1>12, HandlersTakeNothing
<1>13. ASSUME ResultWrites PROVE NothingTaken
  BY <1>13 DEF ResultWrites, Accept, TypeOK, Busy, Held
<1> QED
  BY <1>1, <1>2, <1>3, <1>4, <1>5, <1>6, <1>7, <1>8, <1>9, <1>10, <1>11, <1>12, <1>13
  DEF Next, Handlers, ExpireLeases, CancelQueued, EditDraft, SubmitSwitch, ResolveDispute

LEMMA QuietInit == Init => Quiet
  BY DEF Init, Quiet, Unlocked, Created, Judged

(* A step that creates nothing and writes only rows of created operations. *)
LEMMA QuietKept ==
  ASSUME Quiet, UNCHANGED <<doc, nOps, reading, leasing>>,
         Judged' \subseteq Created,
         \A o \in Ops \ Created : status'[o] = status[o]
  PROVE  Quiet'
<1>1. Created' = Created
  BY DEF Created
<1> QED BY <1>1 DEF Quiet, Unlocked

(* The same, and it judges no result. *)
LEMMA QuietUnjudged ==
  ASSUME Quiet, UNCHANGED <<doc, nOps, windows>>,
         \A o \in Ops \ Created : status'[o] = status[o]
  PROVE  Quiet'
<1>1. Judged' = Judged /\ UNCHANGED <<reading, leasing>>
  BY DEF Judged, windows
<1>2. Judged' \subseteq Created
  BY <1>1 DEF Quiet
<1> QED BY <1>1, <1>2, QuietKept

(* The rows a result writes: those of one created operation. *)
LEMMA AcceptWrites ==
  ASSUME TypeOK, NEW r, NEW last, Accept(r, last), r.op \in Created
  PROVE  \A o \in Ops \ Created : status'[o] = status[o]
BY DEF Accept, TypeOK

LEMMA QuietInsert ==
  ASSUME TypeOK, Quiet, NEW k, NEW i, NEW d, NEW n, Insert(k, i, d, n), UNCHANGED windows,
         k = "RESYNC" => i = None,
         \A o \in Ops \ Created : o # nOps + 1 => status'[o] = status[o]
  PROVE  Quiet'
<1>1. Created' = Created \cup {nOps + 1} /\ \A o \in Created : doc'[o] = doc[o]
  BY InsertCreates
<1>2. nOps + 1 \in Ops
  BY OpsAreNumbers DEF Insert
<1>3. doc'[nOps + 1].kind = "RESYNC" => doc'[nOps + 1].inv = None
  BY <1>2 DEF Insert, TypeOK
<1>4. Judged' = Judged
  BY DEF Judged, windows
<1> QED BY <1>1, <1>3, <1>4 DEF Quiet, Unlocked, windows

LEMMA QuietResults ==
  ASSUME TypeOK, Quiet, NEW g \in Gateways, NEW r \in Results, ApplyResult(g, r)
  PROVE  Quiet'
<1>1. CASE ReportResync(g, r)
  BY <1>1, QuietUnjudged DEF TypeOK, ReportResync, MayReport
<1>2. CASE ReportContested(g, r)
  BY <1>2, QuietUnjudged DEF TypeOK, ReportContested, MayReport
<1>3. CASE ReportNormalized(g, r)
  <2>1. r.op \in Created
    BY <1>3 DEF ReportNormalized, Acceptable, MayReport
  <2>2. UNCHANGED <<doc, nOps, windows>> /\ \A o \in Ops \ Created : status'[o] = status[o]
    BY <1>3, <2>1, AcceptWrites DEF ReportNormalized, Accept, windows
  <2> QED BY <2>2, QuietUnjudged
<1>4. CASE ReportRequeued(g, r)
  <2>1. r.op \in Created /\ doc[r.op].kind # "RESYNC"
    BY <1>4 DEF ReportRequeued, MayReport
  <2>2. Insert(doc[r.op].kind, doc[r.op].inv, doc[r.op].dev, doc[r.op].attempt + 1)
    BY <1>4 DEF ReportRequeued
  <2>3. UNCHANGED windows /\ \A o \in Ops \ Created : o # nOps + 1 => status'[o] = status[o]
    BY <1>4, <2>1 DEF ReportRequeued, TypeOK
  <2> QED BY <2>1, <2>2, <2>3, QuietInsert
<1>5. CASE ReportRejected(g, r)
  BY <1>5, QuietUnjudged DEF TypeOK, ReportRejected, MayReport
<1>6. CASE ReportUncertain(g, r)
  BY <1>6, QuietUnjudged DEF TypeOK, ReportUncertain, MayReport
<1>7. CASE ResultReads(g, r)
  <2>1. UNCHANGED <<status, doc, nOps, reading, leasing>>
    BY <1>7 DEF ResultReads, queue
  <2>2. Judged' = {r.op} /\ r.op \in Created
    BY <1>7 DEF ResultReads, Judged, Acceptable, MayReport
  <2> QED BY <2>1, <2>2, QuietKept
<1> QED BY <1>1, <1>2, <1>3, <1>4, <1>5, <1>6, <1>7 DEF ApplyResult

LEMMA QuietHandler ==
  ASSUME TypeOK, Quiet, WholeLeases, NEW h \in Handlers, Handler(h)
  PROVE  Quiet'
<1>1. \A S \in Reads(h) : S \subseteq Created
  BY DEF Reads, Handlers, In, OpsOf, OpsOn
<1>2. ASSUME NEW S \in SUBSET Created, WriteBack(h, S)
      PROVE  \A o \in Ops \ Created : status'[o] = status[o]
  BY <1>2 DEF WriteBack
<1>3. CASE AtOnce(h)
  BY <1>1, <1>2, <1>3, QuietUnjudged DEF AtOnce
<1>4. CASE StartReading(h)
  <2>1. h # "expire"
    BY <1>4 DEF StartReading, WholeLeases
  <2>2. PICK S \in Reads(h) : reading' = {[handler |-> h, rows |-> S]}
    BY <1>4 DEF StartReading
  <2>3. UNCHANGED <<status, doc, nOps, leasing>> /\ Judged' = Judged
    BY <1>4 DEF StartReading, queue, Judged
  <2> QED BY <1>1, <2>1, <2>2, <2>3 DEF Quiet, Created, Unlocked
<1>5. CASE FinishReading(h)
  <2>1. PICK t \in reading : WriteBack(h, t.rows)
    BY <1>5 DEF FinishReading
  <2>2. \A o \in Ops \ Created : status'[o] = status[o]
    BY <1>2, <2>1 DEF Quiet
  <2>3. UNCHANGED <<doc, nOps, leasing>> /\ reading' = {} /\ Judged' = Judged
    BY <1>5 DEF FinishReading, Judged
  <2> QED BY <2>2, <2>3 DEF Quiet, Created, Unlocked
<1> QED BY <1>3, <1>4, <1>5 DEF Handler

LEMMA QuietNext ==
  ASSUME TypeOK, Quiet, WholeLeases, [Next]_vars
  PROVE  Quiet'
<1>1. CASE UNCHANGED vars
  BY <1>1, QuietUnjudged DEF vars, windows
<1>2. ASSUME NEW i \in Invoices, Request(i) PROVE Quiet'
  <2>1. PICK n \in NextAttempts(i) : Insert("NORMALIZE", i, DeviceOfInvoice[i], n)
    BY <1>2 DEF Request
  <2>2. UNCHANGED windows /\ \A o \in Ops \ Created : o # nOps + 1 => status'[o] = status[o]
    BY <1>2 DEF Request, TypeOK
  <2> QED BY <2>1, <2>2, QuietInsert
<1>3. ASSUME NEW d \in Devices, RequestResync(d) PROVE Quiet'
  <2>1. UNCHANGED windows /\ \A o \in Ops \ Created : o # nOps + 1 => status'[o] = status[o]
    BY <1>3 DEF RequestResync, TypeOK
  <2> QED BY <1>3, <2>1, QuietInsert DEF RequestResync
<1>4. ASSUME NEW d \in Devices, ValidateDevice(d) PROVE Quiet'
  BY <1>4, QuietUnjudged DEF ValidateDevice
<1>5. ASSUME NEW d \in Devices, PollWrites(d) PROVE FALSE
  BY <1>5 DEF PollWrites, Quiet
<1>6. ASSUME NEW o \in Ops, LeaseLapses(o) PROVE Quiet'
  BY <1>6, QuietUnjudged DEF LeaseLapses
<1>7. ASSUME NEW o \in Ops, Withdraw(o) PROVE Quiet'
  BY <1>7, QuietUnjudged DEF Withdraw, TypeOK, In
<1>8. ASSUME NEW g \in Gateways, PollHeld(g) PROVE Quiet'
  BY <1>8, QuietUnjudged DEF PollHeld, Expired, OpsOn
<1>9. ASSUME NEW g \in Gateways, PollGrant(g) PROVE Quiet'
  <2> DEFINE st == Expired(DeviceOfGateway[g])
  <2>1. PICK c \in Grants(g, st) : WriteGrant(c, st)
    BY <1>9 DEF PollGrant
  <2>2. c.op \in Created
    BY <2>1, TypeGrants
  <2>3. \A o \in Ops \ Created : status'[o] = status[o]
    BY <2>1, <2>2, TypeExpired DEF WriteGrant, Expired, OpsOn
  <2> QED BY <1>9, <2>3, QuietUnjudged DEF PollGrant
<1>10. ASSUME NEW g \in Gateways, PollReads(g) PROVE FALSE
  BY <1>10 DEF PollReads, InTwoSteps, WholeLeases
<1>11. ASSUME NEW g \in Gateways, NEW r \in Results, ApplyResult(g, r) PROVE Quiet'
  BY <1>11, QuietResults
<1>12. ASSUME NEW g \in Gateways, NEW tc, NEW seen, Heartbeat(g, tc, seen) PROVE Quiet'
  BY <1>12, QuietUnjudged DEF Heartbeat
<1>13. ASSUME NEW h \in Handlers, Handler(h) PROVE Quiet'
  BY <1>13, QuietHandler
<1>14. ASSUME ResultWrites PROVE Quiet'
  <2>1. PICK j \in judging : Accept(j.res, j.last)
    BY <1>14 DEF ResultWrites
  <2>2. j.res.op \in Created
    BY DEF Quiet, Judged
  <2>3. Judged' = {} /\ UNCHANGED <<doc, nOps, reading, leasing>>
    BY <1>14, <2>1 DEF ResultWrites, Accept, Judged
  <2> QED BY <2>1, <2>2, <2>3, AcceptWrites, QuietKept
<1> QED
  BY <1>1, <1>2, <1>3, <1>4, <1>5, <1>6, <1>7, <1>8, <1>9, <1>10, <1>11, <1>12, <1>13, <1>14
  DEF Next, Handlers, ExpireLeases, CancelQueued, EditDraft, SubmitSwitch, ResolveDispute

(* What a poll in one step leases was queued or of unknown outcome. *)
LEMMA PollGrantTakes ==
  ASSUME TypeOK, NEW g \in Gateways, PollGrant(g)
  PROVE  \E o \in OpsOn(DeviceOfGateway[g]) :
           /\ status[o] \in Held \cup {"Uncertain", "Queued"}
           /\ status'[o] \in Held
           /\ \A p \in OpsOn(DeviceOfGateway[g]) :
                /\ p # o => status'[p] \notin Held
                /\ p # o /\ status'[o] = "Leased" => status'[p] \notin Busy
           /\ \A p \in Ops : p # o =>
                \/ status'[p] = status[p]
                \/ status[p] \in Held /\ status'[p] = "Uncertain"
<1> DEFINE d == DeviceOfGateway[g]
           st == Expired(d)
<1>1. PICK o \in Oldest(Choices(d, st)) :
        /\ ~Barred(d, st)
        /\ WriteGrant([gw |-> g, op |-> o,
                       to |-> IF st[o] = "Uncertain" THEN "Checking" ELSE "Leased"], st)
  BY DEF PollGrant, Grants
<1>2. o \in OpsOn(d) /\ st[o] \in {"Uncertain", "Queued"}
      /\ (st[o] = "Queued" => \A p \in OpsOn(d) : st[p] # "Uncertain")
  BY <1>1 DEF Oldest, Choices
<1>3. o \in Ops /\ st \in [Ops -> OpStatus] /\ OpsOn(d) \subseteq Ops
  BY <1>2, OpsAreNumbers, TypeExpired DEF OpsOn
<1>4. status' = [st EXCEPT ![o] = IF st[o] = "Uncertain" THEN "Checking" ELSE "Leased"]
  BY <1>1 DEF WriteGrant
<1>5. \A p \in Ops : st[p] = status[p] \/ (status[p] \in Held /\ st[p] = "Uncertain")
  BY DEF Expired, Lapsed
<1>6. \A p \in OpsOn(d) : st[p] \notin Held
  BY <1>1 DEF Barred
<1> QED BY <1>2, <1>3, <1>4, <1>5, <1>6 DEF Held, Busy

LEMMA NoRevival ==
  ASSUME TypeOK, Quiet, [Next]_vars, NEW o \in Created, status'[o] \in Waiting
  PROVE  status[o] \in Waiting
<1>1. CASE NothingTaken
  BY <1>1, OpsAreNumbers DEF NothingTaken, Waiting, Busy
<1>2. CASE \E g \in Gateways : PollGrant(g)
  BY <1>2, PollGrantTakes, OpsAreNumbers DEF Waiting, OpsOn
<1> QED BY <1>1, <1>2, OnlyPollsTake

LEMMA SettledStep ==
  ASSUME TypeOK, Quiet, [Next]_vars, NEW o \in Ops, status[o] \in Closed \cup {"Dispute"}
  PROVE  status'[o] \notin Waiting
<1>1. o \in Created
  BY DEF Quiet, Closed
<1>2. status[o] \notin Waiting
  BY DEF Closed, Waiting, Held
<1> QED BY <1>1, <1>2, NoRevival

(* With whole leases a settled or disputed operation never goes back to an MCF. *)
THEOREM SettledForGood ==
  ASSUME WholeLeases
  PROVE  Spec => SettledStaysSettled
<1>1. TypeOK /\ Quiet /\ [Next]_vars
        => [\A o \in Ops : status[o] \in Closed \cup {"Dispute"} => status'[o] \notin Waiting]_vars
  BY SettledStep
<1>2. TypeOK /\ Quiet /\ [Next]_vars => Quiet'
  BY QuietNext
<1> QED BY <1>1, <1>2, TypeCorrect, QuietInit, PTL DEF Spec, SettledStaysSettled

(* New operations are queued, and the rows of doc never change. *)
LEMMA Frame ==
  ASSUME TypeOK, [Next]_vars
  PROVE  /\ Created \subseteq Created' /\ Created' \subseteq Ops
         /\ \A o \in Created : doc'[o] = doc[o]
         /\ Created' \subseteq Created \cup {nOps + 1}
<1>1. ASSUME UNCHANGED <<doc, nOps>>
      PROVE  /\ Created' = Created /\ Created \subseteq Ops
             /\ \A o \in Created : doc'[o] = doc[o]
  BY <1>1, OpsAreNumbers DEF Created
<1>2. ASSUME NEW i \in Invoices, Request(i) PROVE \E k, d, n : Insert(k, i, d, n)
  BY <1>2 DEF Request
<1>3. ASSUME NEW d \in Devices, RequestResync(d) PROVE \E k, i, n : Insert(k, i, d, n)
  BY <1>3 DEF RequestResync
<1>4. ASSUME NEW g \in Gateways, NEW r \in Results, ApplyResult(g, r)
      PROVE  UNCHANGED <<doc, nOps>> \/ \E k, i, d, n : Insert(k, i, d, n)
  BY <1>4 DEF ApplyResult, ReportResync, ReportContested, ReportNormalized, Accept, ResultReads,
              queue, ReportRequeued, ReportRejected, ReportUncertain
<1>5. ASSUME NEW h \in Handlers, Handler(h) PROVE UNCHANGED <<doc, nOps>>
  BY <1>5 DEF Handler, AtOnce, StartReading, FinishReading, queue
<1>6. UNCHANGED <<doc, nOps>> \/ \E k, i, d, n : Insert(k, i, d, n)
  BY <1>2, <1>3, <1>4, <1>5
  DEF Next, vars, queue, ValidateDevice, PollWrites, LeaseLapses, Withdraw, PollHeld, PollGrant,
      PollReads, ResultWrites, Accept, Heartbeat, Handlers, ExpireLeases, CancelQueued,
      EditDraft, SubmitSwitch, ResolveDispute
<1> QED BY <1>1, <1>6, InsertCreates

LEMMA LeasedStep ==
  ASSUME TypeOK, Quiet, LeasedStandsAlone, OneHeldPerDevice, [Next]_vars
  PROVE  LeasedStandsAlone'
<1> SUFFICES ASSUME NEW o \in Created', NEW p \in Created', o # p, status'[o] = "Leased",
                    status'[p] \in Busy, doc'[o].dev = doc'[p].dev
             PROVE  FALSE
  BY DEF LeasedStandsAlone, Busy
<1>1. o \in Ops /\ p \in Ops
  BY Frame
<1>2. CASE NothingTaken
  <2>1. status[o] = "Leased" /\ status[p] \in Busy
    BY <1>1, <1>2 DEF NothingTaken
  <2>2. o \in Created /\ p \in Created
    BY <1>1, <2>1 DEF Quiet, Busy, Held
  <2>3. doc[o].dev = doc[p].dev
    BY <2>2, Frame
  <2> QED BY <2>1, <2>2, <2>3 DEF LeasedStandsAlone, Busy
<1>3. ASSUME NEW g \in Gateways, PollGrant(g) PROVE FALSE
  <2> DEFINE d == DeviceOfGateway[g]
  <2>1. PICK q \in OpsOn(d) :
          /\ status'[q] \in Held
          /\ \A x \in OpsOn(d) : x # q => status'[x] \notin Held
          /\ \A x \in OpsOn(d) : x # q /\ status'[q] = "Leased" => status'[x] \notin Busy
          /\ \A x \in Ops : x # q => \/ status'[x] = status[x]
                                     \/ status[x] \in Held /\ status'[x] = "Uncertain"
    BY <1>3, PollGrantTakes
  <2>2. o \in Created /\ p \in Created /\ doc[o].dev = doc[p].dev
    BY <1>3, Frame DEF PollGrant, Created
  <2>3. CASE doc[o].dev = d
    BY <2>1, <2>2, <2>3 DEF OpsOn, Held
  <2>4. CASE doc[o].dev # d
    <3>1. o # q /\ p # q
      BY <2>2, <2>4 DEF OpsOn
    <3>2. status[o] = "Leased" /\ status[p] \in Busy
      BY <1>1, <2>1, <3>1 DEF Busy, Held
    <3> QED BY <2>2, <3>2 DEF LeasedStandsAlone, Busy
  <2> QED BY <2>3, <2>4
<1> QED BY <1>2, <1>3, OnlyPollsTake

(* With whole leases an operation in execution on an MCF is the only one of this MCF *)
(* whose outcome is open.                                                            *)
THEOREM ExecutionStandsAlone ==
  ASSUME WholeLeases
  PROVE  Spec => []LeasedStandsAlone
<1>1. Init => LeasedStandsAlone
  BY DEF Init, LeasedStandsAlone, Created
<1>2. TypeOK /\ Quiet /\ OneHeldPerDevice /\ LeasedStandsAlone /\ [Next]_vars => LeasedStandsAlone'
  BY LeasedStep
<1>3. TypeOK /\ Quiet /\ [Next]_vars => Quiet'
  BY QuietNext
<1> QED BY <1>1, <1>2, <1>3, TypeCorrect, BarrierHolds, QuietInit, PTL DEF Spec

(* A new operation of an invoice is created when no other one of it waits any more. *)
LEMMA NewStandsAlone ==
  ASSUME TypeOK, Quiet, WaitingIsNewest, [Next]_vars, nOps + 1 \in Created',
         doc'[nOps + 1].inv # None,
         NEW p \in Created, doc[p].inv = doc'[nOps + 1].inv
  PROVE  status'[p] \notin Waiting
<1>1. nOps + 1 \notin Created
  BY DEF TypeOK, Created
<1>2. nOps + 1 \in Ops /\ p # nOps + 1 /\ p \in Ops
  BY <1>1, Frame
<1>3. ASSUME NEW i \in Invoices, Request(i) PROVE status'[p] \notin Waiting
  <2>1. PICK n \in NextAttempts(i) : Insert("NORMALIZE", i, DeviceOfInvoice[i], n)
    BY <1>3 DEF Request
  <2>2. doc[p].inv = i
    BY <2>1, <1>2 DEF Insert, TypeOK
  <2>3. status[p] \notin Active
    BY <1>3, <2>2 DEF Request, MayRequest, In, OpsOf
  <2>4. status'[p] = status[p]
    BY <1>2, <1>3 DEF Request, TypeOK
  <2> QED BY <2>3, <2>4 DEF Active
<1>4. ASSUME NEW d \in Devices, RequestResync(d) PROVE FALSE
  BY <1>2, <1>4 DEF RequestResync, Insert, TypeOK
<1>5. ASSUME NEW g \in Gateways, NEW r \in Results, ApplyResult(g, r),
             ~(nOps' = nOps)
      PROVE  status'[p] \notin Waiting
  <2>1. ReportRequeued(g, r)
    BY <1>5 DEF ApplyResult, ReportResync, ReportContested, ReportNormalized, Accept,
                ResultReads, queue, ReportRejected, ReportUncertain
  <2>2. r.op \in Created /\ status[r.op] \in Waiting
    BY <2>1 DEF ReportRequeued, MayReport, MayReject, Waiting
  <2>3. doc[p].inv = doc[r.op].inv /\ doc[r.op].inv # None
    BY <2>1, <1>2 DEF ReportRequeued, Insert, TypeOK
  <2>4. status'[r.op] = "Rejected"
    BY <1>1, <1>2, <2>1, <2>2, OpsAreNumbers DEF ReportRequeued, TypeOK
  <2>5. CASE p = r.op
    BY <2>4, <2>5 DEF Waiting, Held
  <2>6. CASE p # r.op
    <3>1. status'[p] = status[p]
      BY <1>2, <2>1, <2>6 DEF ReportRequeued, TypeOK
    <3>2. p \in Nat /\ r.op \in Nat
      BY <1>2, <2>2, OpsAreNumbers
    <3>3. ~(p <= r.op /\ r.op <= p)
      BY <2>6, <3>2
    <3> QED BY <2>2, <2>3, <3>1, <3>3 DEF WaitingIsNewest
  <2> QED BY <2>5, <2>6
<1>6. nOps' # nOps
  BY <1>1 DEF Created
<1> QED
  BY <1>3, <1>4, <1>5, <1>6
  DEF Next, vars, queue, ValidateDevice, PollWrites, LeaseLapses, Withdraw, PollHeld, PollGrant,
      PollReads, ResultWrites, Accept, Heartbeat, Handlers, ExpireLeases, CancelQueued,
      EditDraft, SubmitSwitch, ResolveDispute, Handler, AtOnce, StartReading, FinishReading

LEMMA NewestStep ==
  ASSUME TypeOK, Quiet, WaitingIsNewest, [Next]_vars
  PROVE  WaitingIsNewest'
<1> SUFFICES ASSUME NEW o \in Created', NEW p \in Created', status'[o] \in Waiting,
                    doc'[p].inv = doc'[o].inv, doc'[o].inv # None
             PROVE  p <= o
  BY DEF WaitingIsNewest
<1>1. nOps \in Nat /\ o \in Nat /\ p \in Nat
  <2>1. o \in Ops /\ p \in Ops
    BY Frame
  <2>2. nOps \in Nat
    BY ConstantsAssumption DEF TypeOK
  <2> QED BY <2>1, <2>2, OpsAreNumbers
<1>2. CASE o \in Created /\ p \in Created
  <2>1. status[o] \in Waiting /\ doc'[o] = doc[o] /\ doc'[p] = doc[p]
    BY <1>2, NoRevival, Frame
  <2> QED BY <1>2, <2>1 DEF WaitingIsNewest
<1>3. CASE o \notin Created
  <2>1. o = nOps + 1 /\ (p = nOps + 1 \/ p \in 1..nOps)
    BY <1>3, Frame DEF Created
  <2> QED BY <1>1, <2>1
<1>4. CASE o \in Created /\ p \notin Created
  <2>1. p = nOps + 1 /\ doc'[o] = doc[o]
    BY <1>4, Frame
  <2> QED BY <1>4, <2>1, NewStandsAlone
<1> QED BY <1>2, <1>3, <1>4

(* With whole leases two attempts of an invoice never wait together: only the last *)
(* operation created for an invoice may still reach an MCF.                        *)
THEOREM OneAttemptWaits ==
  ASSUME WholeLeases
  PROVE  Spec => []WaitingIsNewest
<1>1. Init => WaitingIsNewest
  BY DEF Init, WaitingIsNewest, Created
<1>2. TypeOK /\ Quiet /\ WaitingIsNewest /\ [Next]_vars => WaitingIsNewest'
  BY NewestStep
<1>3. TypeOK /\ Quiet /\ [Next]_vars => Quiet'
  BY QuietNext
<1> QED BY <1>1, <1>2, <1>3, TypeCorrect, QuietInit, PTL DEF Spec

(* A step that normalizes no invoice, and leaves none normalized whose operation it *)
(* takes back.                                                                      *)
NothingNormalized ==
  /\ result' = result
  /\ \A j \in Invoices : invoice'[j].status = "Normalized" => invoice'[j] = invoice[j]
  /\ \A o \in Created : status[o] = "Normalized" /\ doc[o].inv \in Invoices =>
       status'[o] = "Normalized" \/ invoice'[doc[o].inv].status # "Normalized"

LEMMA MatchKept ==
  ASSUME TypeOK, NormalizedInvoiceMatchesOp, NothingNormalized, [Next]_vars
  PROVE  NormalizedInvoiceMatchesOp'
<1> SUFFICES ASSUME NEW j \in Invoices, invoice'[j].status = "Normalized"
             PROVE  /\ invoice'[j].op \in Created'
                    /\ LET o == invoice'[j].op IN
                         /\ status'[o] = "Normalized" /\ doc'[o].inv = j
                         /\ result'[o].sig = invoice'[j].sig
  BY DEF NormalizedInvoiceMatchesOp
<1> DEFINE o == invoice[j].op
<1>1. invoice'[j] = invoice[j]
  BY DEF NothingNormalized
<1>2. o \in Created /\ status[o] = "Normalized" /\ doc[o].inv = j /\ result[o].sig = invoice[j].sig
  BY <1>1 DEF NormalizedInvoiceMatchesOp
<1>3. o \in Created' /\ doc'[o] = doc[o]
  BY <1>2, Frame
<1>4. status'[o] = "Normalized" /\ result'[o] = result[o]
  BY <1>2 DEF NothingNormalized
<1> QED BY <1>1, <1>2, <1>3, <1>4

LEMMA MatchAccept ==
  ASSUME TypeOK, NormalizedInvoiceMatchesOp, NEW r, NEW last, Accept(r, last),
         r.op \in Created
  PROVE  NormalizedInvoiceMatchesOp'
<1> SUFFICES ASSUME NEW j \in Invoices, invoice'[j].status = "Normalized"
             PROVE  /\ invoice'[j].op \in Created
                    /\ LET o == invoice'[j].op IN
                         /\ status'[o] = "Normalized" /\ doc[o].inv = j
                         /\ result'[o].sig = invoice'[j].sig
  BY DEF NormalizedInvoiceMatchesOp, Accept, Created
<1>1. r.op \in Created /\ r.op \in Ops
  BY OpsAreNumbers
<1>2. status' = [status EXCEPT ![r.op] = "Normalized"]
      /\ result' = [result EXCEPT ![r.op] = [sig |-> r.sig, tc |-> r.tc]]
      /\ invoice' = [invoice EXCEPT ![doc[r.op].inv] =
                       [status |-> "Normalized", sig |-> r.sig, op |-> r.op]]
  BY DEF Accept
<1>3. CASE j = doc[r.op].inv
  BY <1>1, <1>2, <1>3 DEF TypeOK
<1>4. CASE j # doc[r.op].inv
  <2>1. invoice'[j] = invoice[j]
    BY <1>2, <1>4 DEF TypeOK
  <2>2. invoice[j].op \in Created /\ status[invoice[j].op] = "Normalized"
        /\ doc[invoice[j].op].inv = j /\ result[invoice[j].op].sig = invoice[j].sig
    BY <2>1 DEF NormalizedInvoiceMatchesOp
  <2>3. invoice[j].op # r.op
    BY <1>4, <2>2
  <2> QED BY <1>1, <1>2, <2>1, <2>2, <2>3, OpsAreNumbers DEF TypeOK
<1> QED BY <1>3, <1>4

(* An invoice row whose status is written with another value is not normalized. *)
LEMMA RowsAreRecords ==
  ASSUME TypeOK
  PROVE  \A j \in Invoices : invoice[j] \in InvoiceRows /\ "status" \in DOMAIN invoice[j]
BY DEF TypeOK, InvoiceRows

LEMMA MatchApplyResult ==
  ASSUME TypeOK, Quiet, NEW g \in Gateways, NEW r \in Results, ApplyResult(g, r)
  PROVE  NothingNormalized \/ (Accept(r, device[doc[r.op].dev].lastTc) /\ r.op \in Created)
<1> USE DEF NothingNormalized
<1>1. CASE ReportResync(g, r)
  <2>1. r.op \in Created /\ doc[r.op].inv \notin Invoices
    BY <1>1, ConstantsAssumption DEF ReportResync, MayReport, Quiet
  <2> QED BY <1>1, <2>1 DEF ReportResync, TypeOK
<1>2. CASE ReportContested(g, r)
  BY <1>2, RowsAreRecords DEF TypeOK, ReportContested, InvoiceError, InvoiceRows
<1>3. CASE ReportRequeued(g, r)
  <2>1. r.op \in Created /\ status[r.op] # "Normalized" /\ nOps + 1 \notin Created
    BY <1>3, OpsAreNumbers DEF ReportRequeued, MayReport, MayReject, Held, Insert
  <2>2. \A o \in Created : status[o] = "Normalized" => status'[o] = "Normalized"
    BY <1>3, <2>1, OpsAreNumbers DEF ReportRequeued, TypeOK
  <2>3. \A j \in Invoices : invoice'[j].status = "Normalized" => invoice'[j] = invoice[j]
    BY <1>3, RowsAreRecords DEF ReportRequeued, TypeOK, InvoiceRows
  <2> QED BY <1>3, <2>2, <2>3 DEF ReportRequeued
<1>4. CASE ReportRejected(g, r)
  <2>1. status[r.op] # "Normalized"
    BY <1>4 DEF ReportRejected, MayReject, Held
  <2> QED BY <1>4, <2>1, RowsAreRecords DEF TypeOK, ReportRejected, InvoiceError, InvoiceRows
<1>5. CASE ReportUncertain(g, r)
  BY <1>5 DEF TypeOK, ReportUncertain, Held
<1>6. CASE ReportNormalized(g, r)
  BY <1>6 DEF ReportNormalized, Acceptable, MayReport
<1>7. CASE ResultReads(g, r)
  BY <1>7 DEF ResultReads, queue
<1> QED BY <1>1, <1>2, <1>3, <1>4, <1>5, <1>6, <1>7 DEF ApplyResult

(* What a handler takes back leaves its invoice to be normalized again. *)
LEMMA MatchWriteBack ==
  ASSUME TypeOK, NEW h \in Handlers, NEW S, WriteBack(h, S), result' = result,
         h = "expire" => \A o \in S : status[o] \in Held
  PROVE  NothingNormalized
<1>1. CASE h = "expire"
  <2>1. invoice' = invoice
    BY <1>1 DEF WriteBack, TypeOK
  <2>2. \A o \in Ops : status[o] = "Normalized" => status'[o] = "Normalized"
    BY <1>1 DEF WriteBack, Held
  <2> QED BY <2>1, <2>2, OpsAreNumbers DEF NothingNormalized
<1>2. CASE h # "expire"
  <2>1. \A j \in Invoices :
          IF \A o \in S : doc[o].inv # j THEN invoice'[j] = invoice[j]
          ELSE invoice'[j].status = "Pending"
    BY <1>2, RowsAreRecords DEF WriteBack
  <2>2. \A o \in Ops : o \notin S => status'[o] = status[o]
    BY DEF WriteBack
  <2> QED BY <2>1, <2>2, OpsAreNumbers DEF NothingNormalized
<1> QED BY <1>1, <1>2

LEMMA MatchHandler ==
  ASSUME TypeOK, Quiet, NEW h \in Handlers, Handler(h)
  PROVE  NothingNormalized
<1>1. CASE AtOnce(h)
  <2>1. PICK S \in Reads(h) : WriteBack(h, S)
    BY <1>1 DEF AtOnce
  <2>2. h = "expire" => \A o \in S : status[o] \in Held
    BY <2>1 DEF Reads, Lapsed
  <2> QED BY <1>1, <2>1, <2>2, MatchWriteBack DEF AtOnce
<1>2. CASE StartReading(h)
  BY <1>2 DEF StartReading, queue, NothingNormalized
<1>3. CASE FinishReading(h)
  <2>1. PICK t \in reading : t.handler = h /\ WriteBack(h, t.rows)
    BY <1>3 DEF FinishReading
  <2>2. h # "expire"
    BY <2>1 DEF Quiet
  <2> QED BY <1>3, <2>1, <2>2, MatchWriteBack DEF FinishReading
<1> QED BY <1>1, <1>2, <1>3 DEF Handler

LEMMA MatchNext ==
  ASSUME TypeOK, Quiet, NormalizedInvoiceMatchesOp, [Next]_vars
  PROVE  NormalizedInvoiceMatchesOp'
<1> USE DEF NothingNormalized
<1>1. CASE UNCHANGED vars
  BY <1>1, MatchKept DEF vars
<1>2. ASSUME NEW i \in Invoices, Request(i) PROVE NothingNormalized
  <2>1. nOps + 1 \notin Created
    BY DEF TypeOK, Created
  <2>2. \A o \in Created : status'[o] = status[o]
    BY <1>2, <2>1, OpsAreNumbers DEF Request, TypeOK
  <2>3. \A j \in Invoices : invoice'[j].status = "Normalized" => invoice'[j] = invoice[j]
    BY <1>2, RowsAreRecords DEF Request, TypeOK, InvoiceRows
  <2> QED BY <1>2, <2>2, <2>3 DEF Request
<1>3. ASSUME NEW d \in Devices, RequestResync(d) PROVE NothingNormalized
  <2>1. nOps + 1 \notin Created
    BY DEF TypeOK, Created
  <2> QED BY <1>3, <2>1, OpsAreNumbers DEF RequestResync, TypeOK
<1>4. ASSUME NEW d \in Devices, ValidateDevice(d) PROVE NothingNormalized
  BY <1>4 DEF ValidateDevice
<1>5. ASSUME NEW d \in Devices, PollWrites(d) PROVE FALSE
  BY <1>5 DEF PollWrites, Quiet
<1>6. ASSUME NEW o \in Ops, LeaseLapses(o) PROVE NothingNormalized
  BY <1>6 DEF LeaseLapses
<1>7. ASSUME NEW o \in Ops, Withdraw(o) PROVE NothingNormalized
  <2>1. \A x \in Ops : status[x] = "Normalized" => status'[x] = "Normalized"
    BY <1>7 DEF Withdraw, In, TypeOK
  <2>2. \A j \in Invoices : invoice'[j].status = "Normalized" => invoice'[j] = invoice[j]
    BY <1>7, RowsAreRecords DEF Withdraw, TypeOK, InvoiceRows
  <2> QED BY <1>7, <2>1, <2>2, OpsAreNumbers DEF Withdraw
<1>8. ASSUME NEW g \in Gateways, PollHeld(g) PROVE NothingNormalized
  BY <1>8, OpsAreNumbers DEF PollHeld, Expired, Lapsed, Held
<1>9. ASSUME NEW g \in Gateways, PollGrant(g) PROVE NothingNormalized
  <2>1. \A o \in Ops : status[o] = "Normalized" => status'[o] = "Normalized"
    BY <1>9, PollGrantTakes DEF Held
  <2> QED BY <1>9, <2>1, OpsAreNumbers DEF PollGrant
<1>10. ASSUME NEW g \in Gateways, PollReads(g) PROVE NothingNormalized
  BY <1>10 DEF PollReads, queue
<1>11. ASSUME NEW g \in Gateways, NEW r \in Results, ApplyResult(g, r)
       PROVE  NormalizedInvoiceMatchesOp'
  BY <1>11, MatchApplyResult, MatchAccept, MatchKept
<1>12. ASSUME NEW g \in Gateways, NEW tc, NEW seen, Heartbeat(g, tc, seen)
       PROVE  NothingNormalized
  BY <1>12 DEF Heartbeat
<1>13. ASSUME NEW h \in Handlers, Handler(h) PROVE NothingNormalized
  BY <1>13, MatchHandler
<1>14. ASSUME ResultWrites PROVE NormalizedInvoiceMatchesOp'
  <2>1. PICK j \in judging : Accept(j.res, j.last)
    BY <1>14 DEF ResultWrites
  <2>2. j.res.op \in Created
    BY DEF Quiet, Judged
  <2> QED BY <2>1, <2>2, MatchAccept
<1> QED
  BY <1>1, <1>2, <1>3, <1>4, <1>5, <1>6, <1>7, <1>8, <1>9, <1>10, <1>11, <1>12, <1>13, <1>14,
     MatchKept
  DEF Next, Handlers, ExpireLeases, CancelQueued, EditDraft, SubmitSwitch, ResolveDispute

(* With whole leases an invoice shown as normalized carries the security code of the *)
(* accepted operation it points to, also when that operation is contested, cancelled  *)
(* or decided upon later: the invoice then stops being normalized.                    *)
THEOREM InvoiceMatchesOp ==
  ASSUME WholeLeases
  PROVE  Spec => []NormalizedInvoiceMatchesOp
<1>1. Init => NormalizedInvoiceMatchesOp
  BY DEF Init, NormalizedInvoiceMatchesOp
<1>2. TypeOK /\ Quiet /\ NormalizedInvoiceMatchesOp /\ [Next]_vars => NormalizedInvoiceMatchesOp'
  BY MatchNext
<1>3. TypeOK /\ Quiet /\ [Next]_vars => Quiet'
  BY QuietNext
<1> QED BY <1>1, <1>2, <1>3, TypeCorrect, QuietInit, PTL DEF Spec
=================================================================================
