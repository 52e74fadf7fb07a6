---------------------------- MODULE FiscalOperations ----------------------------
(***************************************************************************)
(* The queue of fiscal operations that ERPNext keeps for the MCF devices   *)
(* (dgi_compliance/fiscal/operations.py and the handlers of fiscal/api.py, *)
(* edef/tasks.py, fiscal/fallback.py and DGI Channel Switch that write its *)
(* rows): creation, lease, barrier, lease expiry, results, requeue,        *)
(* dispute, cancellation.                                                  *)
(*                                                                         *)
(* The gateways are adversaries here: any gateway may post any result for  *)
(* any operation, at any time and any number of times, which covers lost,  *)
(* late, duplicated, reordered and forged results.                         *)
(*                                                                         *)
(* One action is one committed database transaction, except for those      *)
(* named in Windows: these read rows without locking them and write later, *)
(* so they take two steps and other transactions may commit in between.    *)
(***************************************************************************)
EXTENDS Naturals, FiniteSets

CONSTANTS
  Invoices,          \* sales invoices
  Devices,           \* MCF devices
  Gateways,          \* site gateways (service or browser station)
  Sigs,              \* security codes an MCF can issue
  None,              \* no invoice, no gateway, no operation
  DeviceOfGateway,   \* gw.mcf_device
  DeviceOfInvoice,   \* the device the router gives to the invoice
  MaxAttempts,       \* setting mcf_max_attempts
  MaxOps,            \* bound: operations ever created
  MaxTokens,         \* bound: leases ever granted
  MaxTC,             \* bound: total counter of an MCF
  Windows            \* transactions whose reads and writes are two steps

Ops == 1..MaxOps
Handlers == {"expire", "cancel", "edit", "switch", "dispute"}

ASSUME ConstantsAssumption ==
  /\ DeviceOfGateway \in [Gateways -> Devices]
  /\ DeviceOfInvoice \in [Invoices -> Devices]
  /\ None \notin Invoices \cup Devices \cup Gateways \cup Sigs \cup Nat
  /\ MaxAttempts \in Nat /\ MaxOps \in Nat /\ MaxTokens \in Nat /\ MaxTC \in Nat
  /\ Windows \subseteq Handlers \cup {"lease", "result"}

VARIABLES
  status,    \* status of each operation ("None": not created yet)
  doc,       \* what its creation froze: kind, invoice, device, attempt
  lease,     \* gateway, lease_token, and whether lease_expires_at has passed
  result,    \* security code and TC of the last normalized result accepted
  nOps,      \* operations created so far; numbers follow creation order
  nTokens,   \* lease tokens drawn so far
  invoice,   \* custom_dgi_status, security code, custom_dgi_operation
  device,    \* status "Actif" or not, last_tc
  reading,   \* rows read by a handler of Windows and not yet written back
  leasing,   \* lease being granted under the row lock of the device
  judging    \* result being accepted under the row lock of its operation

queue   == <<status, doc, lease, result, nOps, nTokens>>
windows == <<reading, leasing, judging>>
vars    == <<status, doc, lease, result, nOps, nTokens, invoice, device,
             reading, leasing, judging>>

Held      == {"Leased", "Checking"}
Waiting   == {"Queued", "Uncertain"} \cup Held
Closed    == {"Normalized", "Rejected", "Cancelled"}
Active    == Waiting \cup {"Dispute"}
InFlight  == Active \ {"Queued"}
OpStatus  == Active \cup Closed \cup {"None", "Done"}

NoLease  == [gw |-> None, token |-> 0, lapsed |-> FALSE]
NoResult == [sig |-> None, tc |-> 0]
NoDoc    == [kind |-> "None", inv |-> None, dev |-> None, attempt |-> 0]
NoGrant  == [gw |-> None, op |-> 0, to |-> "None"]

Created == 1..nOps
OpsOf(i) == {o \in Created : doc[o].inv = i}
OpsOn(d) == {o \in Created : doc[o].dev = d}
Judged == {j.res.op : j \in judging}
In(S, st) == {o \in Created : status[o] \in st} \cap S
Oldest(S) == {o \in S : \A p \in S : o <= p}
Newest(S) == {o \in S : \A p \in S : p <= o}

----
(* Creation *)

\* A new row. The caller gives the status of the new operation.
Insert(kind, i, d, attempt) ==
  /\ nOps < MaxOps
  /\ nOps' = nOps + 1
  /\ doc' = [doc EXCEPT ![nOps + 1] = [kind |-> kind, inv |-> i, dev |-> d, attempt |-> attempt]]

NextAttempts(i) ==
  IF OpsOf(i) = {} THEN {1} ELSE {doc[o].attempt + 1 : o \in Newest(OpsOf(i))}

ForgetsUncertain(i) ==
  /\ invoice[i].status # "Normalized"
  /\ In(OpsOf(i), {"Queued", "Leased"}) = {}
  /\ device[DeviceOfInvoice[i]].actif

\* normalize_invoice returns at once for a normalized invoice; an active operation
\* of the invoice is returned as it is.
MayRequest(i) ==
  /\ invoice[i].status # "Normalized"
  /\ In(OpsOf(i), Active) = {}
  /\ device[DeviceOfInvoice[i]].actif

Request(i) ==
  /\ MayRequest(i)
  /\ \E n \in NextAttempts(i) : Insert("NORMALIZE", i, DeviceOfInvoice[i], n)
  /\ status' = [status EXCEPT ![nOps + 1] = "Queued"]
  /\ invoice' = [invoice EXCEPT ![i].status = "Pending", ![i].op = nOps + 1]
  /\ UNCHANGED <<lease, result, nTokens, device, windows>>

RequestResync(d) ==
  /\ Insert("RESYNC", None, d, 1)
  /\ status' = [status EXCEPT ![nOps + 1] = "Queued"]
  /\ UNCHANGED <<lease, result, nTokens, invoice, device, windows>>

----
(* Lease *)

\* Time passes lease_expires_at of a held operation.
LeaseLapses(o) ==
  /\ o \in Created /\ status[o] \in Held /\ ~lease[o].lapsed
  /\ lease' = [lease EXCEPT ![o].lapsed = TRUE]
  /\ UNCHANGED <<status, doc, result, nOps, nTokens, invoice, device, windows>>

LapsedWhateverStatus(o) == o \in Ops /\ lease[o].lapsed

Lapsed(o) == status[o] \in Held /\ lease[o].lapsed

\* The statuses once expire_leases has run for device d.
Expired(d) ==
  [o \in Ops |-> IF o \in OpsOn(d) /\ Lapsed(o) THEN "Uncertain" ELSE status[o]]

BarredByExecution(d, st) ==
  ~device[d].actif \/ \E o \in OpsOn(d) : st[o] \in {"Leased", "Dispute"}

BarredByCheck(d, st) ==
  ~device[d].actif \/ \E o \in OpsOn(d) : st[o] \in {"Checking", "Dispute"}

\* Nothing is granted on an MCF out of service, nor while it has a held or disputed
\* operation. Here and below st are the statuses after the expiry.
Barred(d, st) == ~device[d].actif \/ \E o \in OpsOn(d) : st[o] \in Held \cup {"Dispute"}

QueuedFirst(d, st) ==
  LET on(s) == {o \in OpsOn(d) : st[o] = s}
  IN  IF on("Queued") # {} THEN on("Queued") ELSE on("Uncertain")

\* The operations a poll chooses from: those of unknown outcome before the others.
Choices(d, st) ==
  LET on(s) == {o \in OpsOn(d) : st[o] = s}
  IN  IF on("Uncertain") # {} THEN on("Uncertain") ELSE on("Queued")

\* The operation a poll of gateway g gets and the status it goes to; none when the poll
\* is idle or renews a held operation.
Grants(g, st) ==
  LET d == DeviceOfGateway[g]
  IN  IF Barred(d, st) THEN {}
      ELSE {[gw |-> g, op |-> o, to |-> IF st[o] = "Uncertain" THEN "Checking" ELSE "Leased"] :
              o \in Oldest(Choices(d, st))}

RenewsNothing(g, st) == {}

\* The operation g holds and is sent again, its lease renewed.
Renewed(g, st) ==
  LET d    == DeviceOfGateway[g]
      held == {o \in OpsOn(d) : st[o] \in Held}
  IN  {o \in Oldest(held) : device[d].actif /\ lease[o].gw = g}

WriteGrant(c, st) ==
  /\ nTokens < MaxTokens
  /\ nTokens' = nTokens + 1
  /\ status' = [st EXCEPT ![c.op] = c.to]
  /\ lease' = [lease EXCEPT ![c.op] = [gw |-> c.gw, token |-> nTokens + 1, lapsed |-> FALSE]]

\* A poll keeps the row of its device locked until it commits.
Unlocked(d) == leasing[d] = NoGrant

\* A poll is not overtaken by a result that already has its operation locked: had it
\* read before this result, it would have read the same.
MayPoll(d) == Unlocked(d) /\ Judged \cap OpsOn(d) = {}

\* The poll that gives nothing new: idle, or the held operation with a longer lease.
PollHeld(g) ==
  LET st == Expired(DeviceOfGateway[g])
  IN  /\ MayPoll(DeviceOfGateway[g])
      /\ Grants(g, st) = {}
      /\ status' = st
      /\ lease' = [o \in Ops |-> IF o \in Renewed(g, st)
                                 THEN [lease[o] EXCEPT !.lapsed = FALSE] ELSE lease[o]]
      /\ UNCHANGED <<doc, result, nOps, nTokens, invoice, device, windows>>

\* Whether a poll that expires no lease on its way is modelled in two steps.
InTwoSteps(d) == "lease" \in Windows /\ Expired(d) = status

\* The poll that leases the oldest Uncertain operation as a CHECK, else the oldest Queued.
PollGrant(g) ==
  LET st == Expired(DeviceOfGateway[g])
  IN  /\ MayPoll(DeviceOfGateway[g]) /\ ~InTwoSteps(DeviceOfGateway[g])
      /\ \E c \in Grants(g, st) : WriteGrant(c, st)
      /\ UNCHANGED <<doc, result, nOps, invoice, device, windows>>

\* The same poll in two steps: the row of the device is locked, not the row of the
\* operation, so a result may settle the operation between the read and the write.
PollReads(g) ==
  LET d == DeviceOfGateway[g]
  IN  /\ MayPoll(d) /\ InTwoSteps(d) /\ nTokens < MaxTokens
      /\ \E c \in Grants(g, status) : leasing' = [leasing EXCEPT ![d] = c]
      /\ UNCHANGED <<queue, invoice, device, reading, judging>>

PollWrites(d) ==
  /\ ~Unlocked(d) /\ leasing[d].op \notin Judged
  /\ WriteGrant(leasing[d], status)
  /\ leasing' = [leasing EXCEPT ![d] = NoGrant]
  /\ UNCHANGED <<doc, result, nOps, invoice, device, reading, judging>>

----
(* Results *)

NormalizedResults ==
  [op : Ops, outcome : {"normalized"}, valid : BOOLEAN, sig : Sigs, tc : 0..MaxTC]
RejectedResults   ==
  [op : Ops, outcome : {"rejected"}, token : 0..MaxTokens, requeue : BOOLEAN]
UncertainResults  ==
  [op : Ops, outcome : {"uncertain"}, token : 0..MaxTokens]
Results == NormalizedResults \cup RejectedResults \cup UncertainResults

\* The result is about an operation of the gateway's device, and one that is not
\* settled was leased to this very gateway.
MayReport(g, o) ==
  /\ o \in Created \ Judged
  /\ doc[o].dev = DeviceOfGateway[g]
  /\ \/ doc[o].kind = "RESYNC"
     \/ status[o] \in Closed \cup {"Dispute"}
     \/ lease[o].gw = g

TokenOk(o, t) == t # 0 /\ t = lease[o].token

\* Any result settles a RESYNC.
ReportResync(g, r) ==
  /\ MayReport(g, r.op) /\ doc[r.op].kind = "RESYNC"
  /\ status' = [status EXCEPT ![r.op] = "Done"]
  /\ UNCHANGED <<doc, lease, result, nOps, nTokens, invoice, device, windows>>

\* counter_problem: the TC of a result, when it has one (not 0), must exceed last_tc.
CounterProblem(o, tc) ==
  LET last == device[doc[o].dev].lastTc IN last # 0 /\ tc # 0 /\ tc <= last

Duplicate(r) == status[r.op] = "Normalized" /\ result[r.op].sig = r.sig
Contested(r) == ~r.valid \/ CounterProblem(r.op, r.tc) \/ status[r.op] \in Closed

KeepsNormalizedInvoice(i) ==
  IF invoice[i].status = "Normalized" THEN invoice ELSE [invoice EXCEPT ![i].status = "Error"]

\* _invoice_error
InvoiceError(i) == [invoice EXCEPT ![i].status = "Error"]

\* A contested result opens a dispute, whatever the status of the operation. (What it
\* stores is compared again only once another result has been accepted over it.)
ReportContested(g, r) ==
  /\ MayReport(g, r.op) /\ doc[r.op].kind # "RESYNC"
  /\ ~Duplicate(r) /\ Contested(r)
  /\ status' = [status EXCEPT ![r.op] = "Dispute"]
  /\ invoice' = InvoiceError(doc[r.op].inv)
  /\ UNCHANGED <<doc, lease, result, nOps, nTokens, device, windows>>

FirstCounterOnly(d, tc, last) ==
  [device EXCEPT ![d].lastTc = IF last = 0 THEN tc ELSE @]

\* _check_counter: last_tc, read as last, follows the largest TC accepted.
RaiseCounter(d, tc, last) ==
  [device EXCEPT ![d].lastTc = IF tc > last THEN tc ELSE @]

Acceptable(g, r) ==
  /\ MayReport(g, r.op) /\ doc[r.op].kind # "RESYNC"
  /\ ~Duplicate(r) /\ ~Contested(r)

Accept(r, last) ==
  /\ status' = [status EXCEPT ![r.op] = "Normalized"]
  /\ result' = [result EXCEPT ![r.op] = [sig |-> r.sig, tc |-> r.tc]]
  /\ invoice' = [invoice EXCEPT ![doc[r.op].inv] =
                   [status |-> "Normalized", sig |-> r.sig, op |-> r.op]]
  /\ device' = RaiseCounter(doc[r.op].dev, r.tc, last)
  /\ r.tc > last => Unlocked(doc[r.op].dev)
  /\ UNCHANGED <<doc, lease, nOps, nTokens, reading, leasing>>

ReportNormalized(g, r) ==
  /\ Acceptable(g, r)
  /\ Accept(r, device[doc[r.op].dev].lastTc)
  /\ UNCHANGED judging

\* The same in two steps: the row of the operation is locked, not the row of the device
\* with the counter the result is compared to. One such result is open at a time: it
\* races with the results accepted in one step.
ResultReads(g, r) ==
  /\ "result" \in Windows /\ judging = {}
  /\ Acceptable(g, r)
  /\ judging' = {[res |-> r, last |-> device[doc[r.op].dev].lastTc]}
  /\ UNCHANGED <<queue, invoice, device, reading, leasing>>

ResultWrites ==
  /\ \E j \in judging : Accept(j.res, j.last)
  /\ judging' = {}

\* A rejection counts only under the current lease token of an unsettled operation.
MayReject(o, t) == status[o] \in Held \cup {"Uncertain"} /\ TokenOk(o, t)

\* Proven not normalized and retryable: _requeue inserts the next attempt.
ReportRequeued(g, r) ==
  LET o == r.op
  IN  /\ MayReport(g, o) /\ doc[o].kind # "RESYNC"
      /\ MayReject(o, r.token)
      /\ r.requeue /\ doc[o].attempt < MaxAttempts
      /\ Insert(doc[o].kind, doc[o].inv, doc[o].dev, doc[o].attempt + 1)
      /\ status' = [status EXCEPT ![o] = "Rejected", ![nOps + 1] = "Queued"]
      /\ invoice' = [invoice EXCEPT ![doc[o].inv].status = "Pending",
                                    ![doc[o].inv].op = nOps + 1]
      /\ UNCHANGED <<lease, result, nTokens, device, windows>>

ReportRejected(g, r) ==
  LET o == r.op
  IN  /\ MayReport(g, o) /\ doc[o].kind # "RESYNC"
      /\ MayReject(o, r.token)
      /\ ~(r.requeue /\ doc[o].attempt < MaxAttempts)
      /\ status' = [status EXCEPT ![o] = "Rejected"]
      /\ invoice' = InvoiceError(doc[o].inv)
      /\ UNCHANGED <<doc, lease, result, nOps, nTokens, device, windows>>

ReportUncertain(g, r) ==
  /\ MayReport(g, r.op) /\ doc[r.op].kind # "RESYNC"
  /\ status[r.op] \in Held /\ TokenOk(r.op, r.token)
  /\ status' = [status EXCEPT ![r.op] = "Uncertain"]
  /\ UNCHANGED <<doc, lease, result, nOps, nTokens, invoice, device, windows>>

\* apply_result: the row of the operation is locked all along. An ignored, duplicate or
\* refused result changes nothing.
ApplyResult(g, r) ==
  \/ ReportResync(g, r)
  \/ r.outcome = "normalized" /\ (\/ ReportContested(g, r)
                                 \/ ReportNormalized(g, r)
                                 \/ ResultReads(g, r))
  \/ r.outcome = "rejected" /\ (ReportRequeued(g, r) \/ ReportRejected(g, r))
  \/ r.outcome = "uncertain" /\ ReportUncertain(g, r)

----
(* Heartbeat and device *)

TakesAnyCounter(g, tc, seen) ==
  LET d == DeviceOfGateway[g]
  IN  /\ Unlocked(d)
      /\ lease' = [o \in Ops |->
                     IF o \in In(OpsOn(d), Held) /\ lease[o].gw = g
                     THEN [lease[o] EXCEPT !.lapsed = FALSE] ELSE lease[o]]
      /\ device' = [device EXCEPT ![d].lastTc = IF @ = 0 THEN tc ELSE @]
      /\ UNCHANGED <<status, doc, result, nOps, nTokens, invoice, windows>>

\* record_heartbeat: renews the leases of g, takes over the TC of the MCF when none is
\* known and nothing is in progress; an MID or NIF other than the validated one takes
\* the device out of service, and a wrong NID skips both controls.
Heartbeat(g, tc, seen) ==
  LET d    == DeviceOfGateway[g]
      busy == In(OpsOn(d), Held \cup {"Uncertain"}) # {}
  IN  /\ Unlocked(d)
      /\ \A o \in Judged \cap In(OpsOn(d), Held) : lease[o].gw # g
      /\ lease' = [o \in Ops |->
                     IF o \in In(OpsOn(d), Held) /\ lease[o].gw = g
                     THEN [lease[o] EXCEPT !.lapsed = FALSE] ELSE lease[o]]
      /\ device' = [device EXCEPT ![d] =
                      [actif  |-> @.actif /\ seen # "other_identity",
                       lastTc |-> IF seen # "other_nid" /\ ~busy /\ @.lastTc = 0
                                  THEN tc ELSE @.lastTc]]
      /\ UNCHANGED <<status, doc, result, nOps, nTokens, invoice, windows>>

\* validate_device: "A revalider" back to "Actif".
ValidateDevice(d) ==
  /\ ~device[d].actif /\ Unlocked(d)
  /\ device' = [device EXCEPT ![d].actif = TRUE]
  /\ UNCHANGED <<status, doc, lease, result, nOps, nTokens, invoice, windows>>

----
(* Handlers that read rows without locking them and write them back *)

\* The sets of rows each of them may have read.
Reads(h) ==
  CASE h = "expire"  -> {{o \in Created : Lapsed(o)}}
    [] h = "cancel"  -> {{o} : o \in In(Created, {"Queued"})}
    [] h = "edit"    -> {In(OpsOf(i), {"Queued"}) : i \in
                           {j \in Invoices : /\ invoice[j].status # "Normalized"
                                             /\ In(OpsOf(j), Active) # {}
                                             /\ \A o \in Newest(In(OpsOf(j), Active)) : status[o] = "Queued"}}
    [] h = "switch"  -> {In(OpsOn(d), {"Queued"}) : d \in
                           {e \in Devices : In(OpsOn(e), InFlight) = {}}}
    [] h = "dispute" -> {{o} : o \in In(Created, {"Dispute"})}

WritesInvoiceStatus(h) ==
  CASE h = "expire" -> "Uncertain" [] h = "dispute" -> "Pending" [] OTHER -> "Cancelled"

Written(h) ==
  CASE h = "expire" -> "Uncertain" [] h = "dispute" -> "Rejected" [] OTHER -> "Cancelled"

\* What is written back, whatever the rows have become since they were read.
WriteBack(h, S) ==
  /\ S \cap Judged = {}
  /\ status' = [o \in Ops |-> IF o \in S THEN Written(h) ELSE status[o]]
  /\ invoice' = [i \in Invoices |->
       IF h = "expire" \/ \A o \in S : doc[o].inv # i THEN invoice[i]
       ELSE [invoice[i] EXCEPT !.status = "Pending", !.op = IF h = "edit" THEN None ELSE @]]

AtOnce(h) ==
  /\ h \notin Windows
  /\ \E S \in Reads(h) \ {{}} : WriteBack(h, S)
  /\ UNCHANGED <<doc, lease, result, nOps, nTokens, device, windows>>

\* One such transaction is open at a time: each handler races with the locked ones.
StartReading(h) ==
  /\ h \in Windows
  /\ reading = {}
  /\ \E S \in Reads(h) \ {{}} : reading' = {[handler |-> h, rows |-> S]}
  /\ UNCHANGED <<queue, invoice, device, leasing, judging>>

FinishReading(h) ==
  /\ \E t \in reading : t.handler = h /\ WriteBack(h, t.rows)
  /\ reading' = {}
  /\ UNCHANGED <<doc, lease, result, nOps, nTokens, device, leasing, judging>>

Handler(h) == AtOnce(h) \/ StartReading(h) \/ FinishReading(h)

ExpireLeases   == Handler("expire")    \* scheduled_maintenance
CancelQueued   == Handler("cancel")    \* button of the operation
EditDraft      == Handler("edit")      \* the draft of a queued operation is changed
SubmitSwitch   == Handler("switch")    \* DGI Channel Switch
ResolveDispute == Handler("dispute")   \* DGI Fiscal Manager, after checking the portal

\* fallback._withdraw: Queued to Cancelled under the row lock of the operation.
Withdraw(o) ==
  /\ o \in In(Created \ Judged, {"Queued"}) /\ doc[o].kind = "NORMALIZE"
  /\ status' = [status EXCEPT ![o] = "Cancelled"]
  /\ invoice' = [invoice EXCEPT ![doc[o].inv].status = "Pending", ![doc[o].inv].op = None]
  /\ UNCHANGED <<doc, lease, result, nOps, nTokens, device, windows>>

----
Init ==
  /\ status = [o \in Ops |-> "None"]
  /\ doc = [o \in Ops |-> NoDoc]
  /\ lease = [o \in Ops |-> NoLease]
  /\ result = [o \in Ops |-> NoResult]
  /\ nOps = 0 /\ nTokens = 0
  /\ invoice = [i \in Invoices |-> [status |-> "Pending", sig |-> None, op |-> None]]
  /\ device = [d \in Devices |-> [actif |-> TRUE, lastTc |-> 0]]
  /\ reading = {}
  /\ leasing = [d \in Devices |-> NoGrant]
  /\ judging = {}

Next ==
  \/ \E i \in Invoices : Request(i)
  \/ \E d \in Devices : RequestResync(d) \/ ValidateDevice(d) \/ PollWrites(d)
  \/ \E o \in Ops : LeaseLapses(o) \/ Withdraw(o)
  \/ \E g \in Gateways : PollHeld(g) \/ PollGrant(g) \/ PollReads(g)
  \/ \E g \in Gateways, r \in Results : ApplyResult(g, r)
  \/ ResultWrites
  \/ \E g \in Gateways, tc \in 0..MaxTC, seen \in {"same", "other_nid", "other_identity"} :
       Heartbeat(g, tc, seen)
  \/ ExpireLeases \/ CancelQueued \/ EditDraft \/ SubmitSwitch \/ ResolveDispute

Spec == Init /\ [][Next]_vars

----
(* Properties *)

Docs     == [kind : {"NORMALIZE", "RESYNC", "None"}, inv : Invoices \cup {None},
             dev : Devices \cup {None}, attempt : Nat]
Leases   == [gw : Gateways \cup {None}, token : 0..MaxTokens, lapsed : BOOLEAN]
Accepted == [sig : Sigs \cup {None}, tc : 0..MaxTC]
InvoiceRows == [status : {"Pending", "Normalized", "Error"}, sig : Sigs \cup {None},
                op : Ops \cup {None}]
DeviceRows  == [actif : BOOLEAN, lastTc : 0..MaxTC]
OpenGrants  == [gw : Gateways, op : Ops, to : Held]

\* Every row holds what its columns may hold.
TypeOK ==
  /\ status \in [Ops -> OpStatus]
  /\ doc \in [Ops -> Docs]
  /\ lease \in [Ops -> Leases]
  /\ result \in [Ops -> Accepted]
  /\ nOps \in 0..MaxOps /\ nTokens \in 0..MaxTokens
  /\ invoice \in [Invoices -> InvoiceRows]
  /\ device \in [Devices -> DeviceRows]
  /\ reading \in SUBSET [handler : Handlers, rows : SUBSET Ops]
  /\ leasing \in [Devices -> OpenGrants \cup {NoGrant}]
  /\ judging \in SUBSET [res : NormalizedResults, last : 0..MaxTC]

\* Barrier: at any time one operation at most of an MCF is leased, for execution or for
\* a check, to any of its gateways.
OneHeldPerDevice ==
  \A o, p \in Created :
    status[o] \in Held /\ status[p] \in Held /\ doc[o].dev = doc[p].dev => o = p

\* Between the read and the write of a poll no operation of its MCF gets held: the row of
\* the device serializes the polls of its gateways.
PollAlone ==
  \A d \in Devices : ~Unlocked(d) =>
    /\ leasing[d].op \in OpsOn(d)
    /\ \A o \in OpsOn(d) : status[o] \notin Held

\* Barrier, second half: while an operation is executed by an MCF, no other operation
\* of this MCF has an unknown outcome.
LeasedStandsAlone ==
  \A o, p \in Created :
    status[o] = "Leased" /\ status[p] \in Held \cup {"Uncertain"} /\ doc[o].dev = doc[p].dev
      => o = p

\* Of the operations of an invoice only the last one created may still reach an MCF, so
\* two attempts never wait together and the attempt numbers grow.
WaitingIsNewest ==
  \A o, p \in Created :
    status[o] \in Waiting /\ doc[p].inv = doc[o].inv /\ doc[o].inv # None => p <= o

\* An invoice shown as normalized carries the security code of the very operation it
\* points to, and this operation is still accepted.
NormalizedInvoiceMatchesOp ==
  \A i \in Invoices : invoice[i].status = "Normalized" =>
    /\ invoice[i].op \in Created
    /\ LET o == invoice[i].op IN
         status[o] = "Normalized" /\ doc[o].inv = i /\ result[o].sig = invoice[i].sig

\* Two accepted normalizations of one MCF never carry the same total counter: no
\* transaction of an MCF is credited to two operations (0: a result without counter).
AcceptedCountersDistinct ==
  \A o, p \in Created :
    /\ status[o] = "Normalized" /\ status[p] = "Normalized" /\ doc[o].dev = doc[p].dev
    /\ result[o].tc = result[p].tc /\ result[o].tc # 0
    => o = p

\* What the code does not ensure: of the results of one MCF, none is accepted between the
\* read and the write of another (a premise of AcceptedCountersDistinct).
ResultsTakeTurns ==
  \A j \in judging \cap judging' : \A o \in OpsOn(doc[j.res.op].dev) :
    status'[o] = "Normalized" => status[o] = "Normalized" /\ result'[o] = result[o]

\* A settled or disputed operation never waits for an MCF again.
SettledStaysSettled ==
  [][\A o \in Ops : status[o] \in Closed \cup {"Dispute"} => status'[o] \notin Waiting]_vars

\* fallback.py: "withdrawn from the queue under row lock, which proves that the station
\* never got it": what was withdrawn is not handed to a gateway afterwards.
WithdrawnIsNeverLeased ==
  [][\A o \in Ops : status[o] = "Cancelled" => status'[o] \notin Held]_vars
=================================================================================
