# Verification of dgi_compliance

TLA+ specifications, model-checking runs and machine-checked proofs for
`dgi_compliance`, the ERPNext (Frappe) application that registers the sales
invoices of a company with the tax authority of the DR Congo (DGI), and for the
site gateway `dgi_gateway` that drives the fiscal devices.

An invoice is *normalized*: registered once, by one of two channels, and stamped
with the security code that the channel returns.

* **MCF**: a device on a serial port of the shop. ERPNext queues an operation; a
  gateway (a service, or a page open in a browser) leases it, drives the device
  and posts the result.
* **e-MCF**: a web service of the DGI. ERPNext creates a request and confirms it.

What can go wrong is hard to test: two normalizations of one invoice, a code
credited to the wrong invoice, or a queue that stops. Handlers of several
processes meet on the same rows, results come late, twice or never, and both
ERPNext and the gateways crash.

## Inventory

| Component | State | Operations | Meets | Correct when |
|---|---|---|---|---|
| MCF queue (`fiscal/operations.py`) | table DGI Fiscal Operation: status, lease, result, attempt; `last_tc` of the device | request, poll, lease expiry, result, requeue, heartbeat | gateways (HTTP), scheduler, desk, invoice hooks | one held operation per MCF; one live attempt per invoice; invoice and operation agree; no counter credited twice |
| Desk actions (`fiscal/api.py`) | none of their own | cancel, resolve dispute, resync | queue, by stale reads | only what no MCF ever got is cancelled |
| Invoice hooks (`edef/tasks.py`) | `custom_dgi_*` fields of Sales Invoice | validate, submit gate, cancel, trash | queue, e-MCF client | the fiscal content of an operation in progress is frozen |
| e-MCF normalization (`edef/tasks.py`, `edef/client.py`) | UID on the invoice, exchange log | create or reuse, check amounts, confirm, cancel | DGI web service | one registration per invoice through lost answers and crashes |
| Journal of both channels (`fiscal/journal.py`) | e-MCF rows of the same table | check_active, start, finish, close | both channels | one active attempt over both channels |
| Fallback (`fiscal/fallback.py`) | Redis key per point of sale, mirrored in its row | activate, deactivate, withdraw, probe, stale queue | scheduler, router, queue | an invoice goes to the other channel only when the first certainly did not get it |
| Router (`fiscal/router.py`) | none | resolve, equipped, route | settings, fallback | one deterministic decision or a block |
| Device registry (`fiscal/registry.py`) | status and identity of the MCF | observe, propose, validate, refuse, reroute | heartbeat, router | no invoice to a device whose identity changed |
| Diagnosis (`fiscal/mcf_status.py`) | last test of the MCF | compare a reading, indicator | registry, desk | a green light never hides a refused identity |
| Channel switch (`dgi_channel_switch.py`) | active channel, forced switch | validate, before_submit, on_submit | queue | no switch over an operation in progress |
| Gateway lifecycle (`dgi_gateway.py`) | Nouvelle, Code emis, A approuver, Active, Revoquee | enrol, approve, revoke | authentication | only an approved gateway acts |
| Gateway API (`gateway/api.py`, `auth.py`) | nonces and operator tokens in Redis | authenticate, lease, result, heartbeat | queue | a signed request acts once |
| Gateway (`fiscalize.py`, `journal.py`, `service.py`) | SQLite journal: RECEIVED, OPENING, FINALIZING, DONE, REJECTED, UNCERTAIN | execute, check, reconcile, flush | MCF, ERPNext | a rejection is posted only for an invoice that is not registered |
| Serial link (`device.py`, `protocol.py`) | sequence number | transact, retransmit | MCF | a command is executed once |
| Browser station (`public/js/dgi_mcf.js`) | IndexedDB journal | as the gateway | MCF, ERPNext | as the gateway |
| Amounts (`calc.py`, `rounding.py`, `payments.py`, `mcf_payload.py`) | none | compute, compare | both channels | totals equal those of the fiscal system |
| Rules on an invoice (`matrix.py`, `mapper.py`) | none | violations, request | hooks, both channels | what is saved can be declared |
| Reports (`fiscal_reports.py`) | DGI Rapport Fiscal | X, Z, A | invoices | each registered invoice is in exactly one Z |
| Catalogues, print, audit, legacy jobs, patches | reference tables | sync, render, log, migrate | | not behaviour to model-check |

Every hazard the code is exposed to is listed in `PROJECT.json`, at its line,
with the properties that would catch it.

## The modules

| Module | Models | Checked by |
|---|---|---|
| `FiscalOperations` | the queue of ERPNext against arbitrary gateways | `handlers`, `windows`, `lease_race`; `FiscalOperations_proofs` |
| `Normalization` | what a channel promises (abstract specification) | implemented by the next two |
| `McfChain` | queue, gateways with their journals, MCF | `chain`; `McfChain_proofs` |
| `Channels` (with `Routing`) | one invoice over e-MCF and MCF, fallback and switch | `routes`, `forgotten_confirm`, `second_request`; `Channels_proofs` |
| `SerialLink` | frames, retries and commands between gateway and MCF | `serial`; `SerialLink_proofs` |
| `Access` | registration of MCFs, life cycle of stations and keys | `access`, `overlapping_approvals`; `Access_proofs` |
| `Reports` | periods, numbers and figures of X, Z, A | `functions`, `missed_invoice`; `Reports_proofs` |
| `Frames`, `Diagnosis`, `Amounts`, `InvoiceRules`, `Routing` | pure functions | `functions`; `Functions_proofs` |
| `SumTheorems` | sums over finite sets, for the last two proof modules | |

`MC*` modules give the constants that a `.cfg` cannot write. Operators beside a
definition with another way to write it (`KeepsSeq` beside `NextSeq`,
`TrustsLink` beside `CreditViolations`) are the plausible errors that
`PROJECT.json` lists as mutants: each checked property is violated once the
model is changed so.

### FiscalOperations: the MCF queue

| Code | Specification |
|---|---|
| columns of DGI Fiscal Operation | `status`, `doc` (frozen at creation), `lease`, `result`; operations are numbered in creation order, which is the order of every `order_by="creation"` |
| `custom_dgi_status`, `custom_dgi_code_def`, `custom_dgi_operation` | `invoice` |
| `status = "Actif"`, `last_tc` of DGI MCF Device | `device` |
| `request_mcf_normalization` | `Request`; `request_resync`: `RequestResync` |
| `lease_for_gateway` | `PollHeld` (idle or renewed lease), `PollGrant` (one step), `PollReads` then `PollWrites` |
| `lease_expires_at` passes | `LeaseLapses`; the expiry itself is part of each poll and is `ExpireLeases` in the scheduler |
| `apply_result` | `ApplyResult`: resync, contested, accepted, requeued, rejected, uncertain; an accepted result also in two steps, `ResultReads` then `ResultWrites` |
| `record_heartbeat`, `check_identity`, `_audit_counters` | `Heartbeat`; `validate_device`: `ValidateDevice` |
| `cancel_queued`, `_guard_mcf_operation`, DGI Channel Switch, `resolve_dispute` | `Handler(h)`: `CancelQueued`, `EditDraft`, `SubmitSwitch`, `ResolveDispute` |
| `fallback._withdraw` | `Withdraw` |

**Gateways are adversaries.** Any gateway may post any result for any operation
of its MCF, at any time, again and again. This covers lost, late, duplicated and
reordered results, crashed gateways and wrong ones: what holds here does not rest
on the behaviour of a gateway. What the MCF really registered is the subject of
`McfChain`, where the gateways are those of the code.

**Transactions.** One action is one committed transaction. Handlers that take the
row lock of all they depend on (`_withdraw`) are one step. Handlers that read rows
and write them back without a lock are one step or two, by the constant `Windows`,
and with two steps other transactions commit in between. A poll locks the row of
its *device* only: with `"lease"` in `Windows` it is two steps, and while it is
open, everything that needs the device row waits (`Unlocked`): other polls,
heartbeats, a device validation, a result that raises `last_tc`. `apply_result`
locks the row of its *operation* only and compares the TC with the counter of a
device it did not lock: with `"result"` in `Windows` a result that is accepted is
two steps (`judging`), and while it is open, what writes the row of its operation
waits (`Judged`). A poll of that device is taken to come before the read or after
the write, where it reads the same.

Assumptions on the platform: `db_set` writes without comparing what it
overwrites; a read after `SELECT ... FOR UPDATE` sees the last committed row
(the snapshot that InnoDB may take earlier in a transaction is not modelled, nor
`innodb_snapshot_isolation`); a transaction chosen as deadlock victim is rolled
back as a whole. A poll that expires a lease on its way is one step. Only one
handler of `Windows`, and one result, is open at a time; that result races with those accepted in one step.
No run opens everything at once: `handlers` has `"result"`, `windows` has `"expire"`, `"lease"`
and `"result"`, `lease_race` has `"lease"`. The theorems say of each window whether they need it closed.

A poll and a result may wait for each other: the poll holds the row of the device and wants that of the
operation, the result the reverse. The database then undoes one of them, which had only read; the outcome is
the behaviour where it did not begin, so the model lets both wait (`CHECK_DEADLOCK FALSE` in `windows`).

Abstracted: payloads, messages and events; the content checks of
`validate_security_data`, which are the field `valid` of a result; time, which is
whether a lease lapsed. A result with counter 0 is one without counter, which
`counter_problem` lets through.

### McfChain: from the queue to the device

The variables of `FiscalOperations` and, for each gateway, `journal` (the SQLite
file: survives a crash) and `work` (the process: lost in a crash); `mcf`, the
invoice open on the device and the list of those it registered (its length is the
counter TC, and only the last entry can be read, as by C1h); `shop`, which
gateway is Active and where the MCF is plugged in; `late`, results whose posting
timed out before ERPNext processed them.

| Code | Specification |
|---|---|
| `run_once`, `process` (`service.py`) | the order `Reconcile`, `Flush`, `Lease`, `Execute`, `PostResult`: a poll only when nothing is open in the journal and everything is delivered |
| `normalize` (`fiscalize.py`) | `Receive`, `Prepare`, `OpenInvoice`, `FailsBefore38h`, `RecordFinalizing`, `Finalize`, `RecordDone`: one action per write of the journal or exchange with the MCF, so that a crash falls between any two |
| `check`, `reconcile_journal` | `Check`, under the token of the journal (`Reconcile`) or of the lease (`CheckWork`) |
| `record_received`, `set_state` (`journal.py`) | `Received`, `Conclude` |
| `flush_results`, the posting in `process` | `Post` (answered, or processed with its answer lost), `PostFails` (processed later, `LateResult`, or never) |
| `approve_gateway` | `Replace`; the old process goes on (`Plug` is a person who moves the cable) |

The ERPNext side are the actions of `FiscalOperations`, conjoined: what the
chain shows is shown of the same definitions the proofs are about. Every loss,
refusal, crash or early lapse takes one of `MaxTroubles`.

### Channels: both channels of a point of sale

The e-MCF channel step by step and the MCF side reduced to what `McfChain`
refines (queued, leased, registered or proven not to be). `worker` is a call of
`normalize_invoice` under way, with what its transaction has not committed yet.

| Code | Specification |
|---|---|
| `normalize_invoice` up to the row lock, `route`, `check_active`, `start_emcf` | `Begin`, `Enter` |
| `_reuse_or_create`, `create_invoice` (error 63, lost answers, the pending list) | `Create`, `Post` |
| e-MCF out of reach with an MCF at hand | `NotReceived`, then `TakeOver` |
| commit of the UID, `verify_amounts` | `KeepUid`, `Differs` |
| CONFIRM, `_confirm_was_sent` and its log, `finish_emcf` | `Confirm`, `Record`, `Finish` |
| any exception of the code between `start_emcf` and `finish_emcf` (*tasks.py:577*) | `Raises` |
| a request that cannot be built or validated (*tasks.py:612*) | `Invalid` |
| `clear_uncertain_confirmation` | `Release` |
| `activate`, `_withdraw`, `send_stale_mcf_queue_to_emcf` | `Opened`, `Withdraw`, `StaleQueue` |
| `deactivate`: the key in Redis, then the queue | `Deactivate`, then `RerouteQueued`, which may never come |
| DGI Channel Switch | `Switch` |

What the worker did not commit is lost with it (`Crash`). `Windows` names four
openings of the code:

| Opening | What may then happen | Shown by |
|---|---|---|
| `"raised"` | an exception after the CONFIRM, or a retry of an Uncertain attempt that fails before its UID is looked at, closes as Rejected an attempt that may be registered | `forgotten_confirm` |
| `"unclosed"` | the process dies after `_fail` committed the log of an unanswered CONFIRM (*tasks.py:421*) and before `finish_emcf` commits (*tasks.py:585*): the operation stays Pending and unconfirmed | `forgotten_confirm` |
| `"unlogged"` | the process dies between the CONFIRM (*tasks.py:659*) and the commit of its log (*tasks.py:660-693*, or 421) | no run of its own: the trace that is missing is the one of `second_request` |
| `"twice"` | a second call for the invoice, or a result of the MCF, between two commits of a call | `second_request` |

All four are closed in `routes`. A death at any other point, and an exception wherever the attempt
is certainly not registered, is in. `NothingForgotten` and `OneActive` are proved with the first two open.

### SerialLink and Frames

`SerialLink` is `MCFDevice.transact` frame by frame under the commands of one
invoice: the frame and its answer may be lost, garbled or late, the driver repeats
with the same SEQ, opens the port again with the first SEQ, and `fiscalize.py`
concludes from what it got. A write or read that fails at once (`Breaks`) ends an exchange
like its last silence. `Frames` has the encoding itself: frames with their
sum byte by byte, the status bits, the two layouts of the sub-totals, the two
orders of FN and SIG.

### Access

MCFs, their records, the shops, the stations and their keys. frappe refuses to save
a document that was saved since it was read; nothing protects what a handler read of *other*
documents. The approval of a gateway depends on such documents, the other gateways
of the MCF, so it is two steps: `StartApproval` reads them, `FinishApproval` writes if none of
those *it saves* was saved meanwhile, `ApprovalRefused` undoes it otherwise. With `Overlap` two approvals for
one MCF may be under way together: FALSE in `access`, TRUE in `overlapping_approvals`.
Every other handler is one action, although a few of them read other documents too
(*registry.py* reads the shops of a device). That a document was not saved since it was read is equality
of its row.

The forms of DGI MCF Device and DGI Point of Sale are actions too (`EditDevice`, `EditShop`),
because they reach most of the states that the handlers do not expect. A service gateway
enrols without a user (*gateway/api.py:23*): `Enroll` then records nobody, and the rule
of the second person does not ask anything of its approval. The point of sale of a gateway is fixed.
A NIF stands for the texts that every comparison takes for the same.

### Reports and the functions

`Reports` in two granularities: `ReportsSpec` takes each request whole, `RacesSpec`
opens the windows between a date and its commit and between the figures of a
report and its number. `Amounts` works on hundredths of CDF with the roundings of
the code (`HalfUp`, `Ceil`; `round()` of a float is either neighbour at an exact
half); `InvoiceRules` has the matrices, the priority of their rules, the override,
the request and what each channel refuses of it; `Routing` the choice of the point
of sale and of the channel (the very operators `Channels` uses); `Diagnosis` the
connection test next to `check_identity`, each with its own comparison of the NIF
(a text, and the blanks inside it): the test drops all blanks, `check_identity` those at the ends.

## Runs

`tlc -config <cfg> <module>`. Distinct states in brackets.

| Run | Instance and bounds | Result |
|---|---|---|
| `handlers` | `FiscalOperations`: 2 invoices, 1 MCF, 2 gateways, 2 codes, 2 attempts, 3 leases, accepted results in two steps | holds [189,080] |
| `windows` | `FiscalOperations`: 2 invoices, 1 gateway, 1 attempt, counters to 2; poll, expiry and accepted result in two steps, results of the MCF in turn | holds [374,795] |
| `chain` | `McfChain`: 2 invoices, 2 stations that succeed each other, 2 attempts, any 1 trouble, with fairness | holds [147,985] |
| `serial` | `SerialLink`: 2 invoices, SEQ modulo 7, 3 attempts, any 5 troubles, with fairness | holds [1,638,546] |
| `routes` | `Channels`: 1 invoice, 3 operations, 2 requests, any 2 troubles, no window | holds [687,812] |
| `access` | `Access`: 2 MCFs, 2 shops, 2 stations of the first shop, 2 people, 2 keys, 2 codes, 1 edit by hand, approvals for one MCF in turn | holds [374,095] |
| `functions` | `Reports` request by request (7 instants, 4 reports), and every probe of the functions | holds [727,405] |
| `lease_race` | 1 of each, `Windows = {"lease"}` | `WithdrawnIsNeverLeased` violated |
| `forgotten_confirm` | 1 invoice, 1 worker, `Windows = {"raised", "unclosed"}` | `NoTakeOverInDoubt` violated |
| `second_request` | 1 invoice, 2 workers, no trouble, `Windows = {"twice"}` | `OneRegistration` violated |
| `overlapping_approvals` | `Access` with `Overlap` | `OneActivePerMcf` violated |
| `missed_invoice` | `Reports`, `RacesSpec`, 1 worker | `ZPartition` violated |

### What the passing runs show

**Queue.** `OneHeldPerDevice`: the barrier of the module's docstring, one held
operation per MCF, whatever is interrupted; `PollAlone` says why. `LeasedStandsAlone`:
while an invoice is executed, no other outcome on this MCF is unknown; the gateway
decides by the *last* invoice of the device, so this carries the whole
reconciliation. `WaitingIsNewest`: only the last operation of an invoice may still
reach a device. `NormalizedInvoiceMatchesOp`: what the invoice shows is the accepted
result of the operation it points to. `AcceptedCountersDistinct`: no transaction of a
device is credited twice, as long as its results take turns (`ResultsTakeTurns`, an action constraint of `windows`). `SettledStaysSettled`: what was settled is not sent again.

**Chain.** `OneRegistration`, over crashes, lost answers, requeues and a replaced
station. `ProvenRejection`: when ERPNext accepts a rejection, however late, the
device does not hold the invoice. `LocalBarrier`: a gateway never starts an
invoice while another of its journal is uncertain. `NoDispute`: with the gateways
of the code no result is ever contested (in `FiscalOperations` it may be, and a
dispute stops the MCF). `ReportsWelcome`: what the active gateway still has to
deliver, ERPNext will accept from it; a refusal would stop its cycle for ever.
`QueueDrains` and `ImplementsNormalization`: every operation is settled, and each
invoice that the device registered is stamped with its own code.

**Both channels.** `OneRegistration` and `OneActive` over the two; `NothingForgotten`: once no call is under way, what the e-MCF or the MCF registered
is normalized, or ERPNext has a trace of it: the UID on the invoice with the log of its CONFIRM, an operation of
the MCF in flight;
`RefusalProven`: an operation is Rejected only if nothing is registered;
`NoTakeOverInDoubt`: nothing is queued for the MCF while a CONFIRM may have been
applied; `ImplementsNormalization`.

**Link.** `LinesCounted`: two identical lines are both recorded and none is recorded
twice, whatever is repeated. `VerdictsHold`: a rejected invoice is not registered, now or
later by a frame still on the wire; a normalized one is registered once and complete.
`EveryInvoiceSettled`.

**Access.** `KeyApproved`: an enabled station uses exactly the key that was
approved, over rotations, and approved by a second person where an operator enrolled it (a browser
station). `OneActivePerMcf`, whatever the shops are edited to
meanwhile, as long as approvals for one MCF do not overlap. `RevokedStaysOut`: no code issued before brings a revoked station back.
`ActiveIsAccepted`: an active MCF has an accepted identity and a shop of its own.

**Functions.** `ZPartition`: every registered invoice is in one Z and one A, and their
nets add up. `FramesSafe`: a frame is read as written and one wrong byte is always
refused; figures and codes are read in their place in every layout. `DiagnosisSafe`: a
test that reassures never hides an identity that the next heartbeat would refuse, but
where the NIF differs by blanks alone (`OnlyBlanksDiffer`).
`ChannelsAmountsAgree`: taxable and tax add up, the payments aligned on the e-MCF
total cover the total of the MCF, and without specific tax the channels differ by at
most a hundredth per group. `PaymentsAddUp`: whatever the source of the lines,
they sum to the fiscal total and none is negative. `SavedCanBeDeclared`: a saved credit
note has a nature and a reference that the e-MCF and the MCF accept, also under
override and "Warn only"; what the message to the gateway accepts, no command
refuses. `RoutingSafe`: the point of sale is active and of the right company, the
channel equipped and allowed by the policy, a second save decides the same, and a
fallback opened at routing time sends the next invoice the same way.

### Bounds and why they are enough

* Two operations in `FiscalOperations`: each property relates at most two; two
  invoices give both the competition for the device and the succession of attempts,
  two gateways the competition for the lease, three tokens a lapsed and a current
  lease beside another.
* `McfChain`: `Ask` leaves room for every requeue (`Room`), so `MaxOps` never stops one, and
  eight tokens and three registrations are never exhausted by two invoices of two
  attempts with the given troubles. One trouble puts any crash or any lost answer
  anywhere; the safety theorems take any number of them.
* `SerialLink`: three attempts need three losses to give up; the fourth and the fifth trouble fall
  on the reconciliation. SEQ modulo 7 makes it wrap within one invoice, whose commands begin
  at 1; the code has 224 values (`MaxSeq` = 223). Five troubles are within the bound of the
  theorems, `MaxTroubles < MaxSeq`.
* `Channels`: one invoice, since its two channels never read another invoice except
  through the fallback, the switch and the station, which change freely here. Three operations are
  an attempt on one channel, its retry and the other channel; two requests allow the
  double registration.
* `Access`: one edit by hand anywhere; two codes rotate the key of an active station
  or bring back a revoked one.
* The probes of the functions: every field that a decision reads takes each value
  the decision tells apart; amounts around an exact half, a zero and the tolerances of
  the code, combinations of up to two lines.

`CHECK_DEADLOCK FALSE` stands where the system may stop: `Channels` (an invoice waits
for a person to release it, or a bound is reached) and the runs over `Reports` and the
functions (a probe is one state; the clock ends). `Maintain`, `LateResult` and the heartbeats
keep the others going.

### Fairness

* `McfChain`: weak fairness of the process of the *active* gateway (`run_forever` loops for
  ever and its service is restarted), of `Plug` (the person who replaced a station moves the
  cable) and of the lapse of a lease held by a gateway that is not active (nobody
  renews it, and time passes). Nothing is assumed of late results, of the button, of
  requests or of ERPNext's scheduler: each poll expires leases itself.
* `SerialLink`: weak fairness of the gateway loop and of the device. `Wake` waits until
  the wire is empty, which is the pause of `run_once` between two cycles: without
  this pause, an answer could be late for every question in turn.
* `Normalization`: weak fairness of `Stamp`.

### Refinement

`Normalization` says what either channel promises: an invoice gets one code, no code
serves two, and an invoice is stamped with its own. `McfChain` implements it with its
liveness (`Abstract!Spec`), `issued` being the entries of the MCF's book and `stamp`
the code of a normalized invoice. `Channels` implements its safety part
(`Abstract!Safe`): an invoice whose CONFIRM was lost stays uncertain until a manager
looks at the portal of the DGI, which no fairness justifies.

### What the violations show

`lease_race`: *fallback.py:12* says that an operation withdrawn under its row lock
never reached the station. But a poll that read it before, and locked only the
row of the device, then writes "Leased" over "Cancelled": the station executes it
while the invoice goes to the e-MCF. The last four theorems on the queue exclude
`"lease"` from `Windows` for this reason, and `"expire"`.

`forgotten_confirm`: *fallback.py:13* never leaves the e-MCF after a CONFIRM without answer. But `finish_emcf`
closes as Rejected whatever ended otherwise than expected: an exception after the CONFIRM, or the retry of an
attempt whose CONFIRM was applied and not answered, when the request no longer builds (a customer or an
item edited since) and the UID is not even looked at. The next attempt may then queue for the MCF an invoice that
is registered; that a refusal proves the contrary (*registry.py:223*, `RefusalProven`) fails as well. The run also opens the
death between the commit of the log of a CONFIRM and that of its Uncertain (*tasks.py:421*, 585): the operation
stays Pending with `confirm_sent` = 0, which *journal.py:72* takes as never confirmed and withdraws
for the MCF. TLC shows the exception, which is the shorter; with `Windows = {"unclosed"}` it shows the death.

`second_request`: *edef/tasks.py:10* says that a lost response never creates a second DGI invoice. The commit
that keeps the UID (*tasks.py:635*) releases the row lock before the CONFIRM is sent, and its log is
committed only with its outcome: a second call for the same draft finds a UID that is neither pending nor
known as confirmed, takes it as stale and registers the invoice again. Two workers, no fault. TLC
shows the shorter case where the channel was switched in between: the second call takes the first one's
attempt for unconfirmed and goes to the MCF. A death after the CONFIRM and before the commit of its log
(`"unlogged"`) leaves the same missing trace to the next attempt. A mark committed before the CONFIRM would close both.

`overlapping_approvals`: *dgi_gateway.py:53* refuses a second active gateway of an MCF. Two approvals that overlap
find none, each saves documents the other did not, and two are Active.

`missed_invoice`: an invoice is dated when its normalization is written and visible when it
is committed; a Z computed in between ends after the date without seeing it, and the next
starts later: the invoice is in no Z (*fiscal_reports.py:8*).

### Seen while modelling, without a run

* The cancel button (*api.py:33*), the withdrawal at an edit (*operations.py:143-150*) and the channel switch
  write Cancelled over an operation that a station leased since they read it, the expiry of leases
  (*operations.py:161*) writes Uncertain and the decision on a dispute (*api.py:53*) Rejected over a result accepted
  since. `Windows` has these handlers in two steps; the theorems on the queue say what holds nevertheless.
* Two results of one MCF judged together are compared with the same `last_tc` (*operations.py:341*), so both
  may be accepted with one TC: without `ResultsTakeTurns`, `windows` violates `AcceptedCountersDistinct`.
  A normalized result without TC is accepted (*operations.py:262*).
* The connection test drops every blank of a NIF (*mcf_status.py:129*), `check_identity` only those at the ends
  (*operations.py:469*): an MCF whose NIF has a blank inside may be tested OK and taken out of service by the
  same reading.
* A normalization that checked the status of its invoice (*tasks.py:538-540*) before the
  result of the MCF commits, and takes the row lock after it, queues the invoice again;
  `routes` excludes this with `Loading`, and `"twice"` opens it.
* The check of a channel switch ignores Pending e-MCF operations.
* Routing: `PRIORITAIRE_NON_EQUIPE` accepts the general token although *router.py:268* wants a
  token of the shop for the other channel; policy "Manuelle" still leaves the
  priority channel when it is not equipped.
* Access: a desk test that expects another MCF, and a heartbeat with a foreign NID, are
  stored without the identity check; `discovered_by` is set once, so the person who proposed a
  device long ago counts as the proposer; the setting for two people has another default in the registry than in the gateway.
* Reports recompute the invoices of the MCF with the rules of the e-MCF
  (*fiscal_reports.py:46*), which differ by the hundredths that `ChannelsAmountsAgree` bounds.
* Payments: change larger than the line it is deducted from drops that line
  (*payments.py:112*), and a rounding gap below zero that is larger than the credit line, or the
  largest, makes it negative (*payments.py:97-98*): 10.00 due, 9.95 paid, and a total 1.00 lower
  leave a credit of -0.95. `PaymentsAddUp` excludes both by name (`TooMuchChange`, `GapExceedsLine`).
* Unit prices are rounded to a hundredth before the total is computed, so large
  quantities drift by more than the tolerance of the comparison. The specific tax enters the VAT base
  of one channel only, and group N is computed differently: `ChannelsAgree` compares without them.
* A comment is cut at 255 characters for a command of at most 200 (*protocol.py:391*).
* A return typed FV passes under mode "Off" or with the override, and is normalized as a
  sale (*matrix.py:195*, 488): the last conjunct of `SavedCanBeDeclared` asks for "Enforce".

## Proofs

`tlapm <module>_proofs.tla` checks every proof. Each theorem holds for every value of the
constants that the named assumptions of its module allow: any number of invoices,
devices, stations, workers, people and keys, any bound.

| Component | Theorem | States |
|---|---|---|
| Queue | `TypeCorrect` | `TypeOK` |
| | `BarrierHolds`, `PollIsAlone` | `OneHeldPerDevice`, `PollAlone` |
| | `CountersHold` | `AcceptedCountersDistinct` |
| | `SettledForGood`, `ExecutionStandsAlone`, `OneAttemptWaits`, `InvoiceMatchesOp` | `SettledStaysSettled`, `LeasedStandsAlone`, `WaitingIsNewest`, `NormalizedInvoiceMatchesOp` |
| Chain | `ChainTypeCorrect` | `ChainTypeOK` |
| | `OneRegistrationHolds`, `RejectionIsCertain` | `OneRegistration`, `ProvenRejection` |
| | `NoDisputeHolds`, `ReportsAreWelcome`, `LocalBarrierHolds` | `NoDispute`, `ReportsWelcome`, `LocalBarrier` |
| | `QueueIsKept` | the chain implements `FiscalOperations` |
| | `ChainKeepsPromise` | the chain implements `Normalization` but for its fairness |
| Both channels | `ChannelsTypeCorrect` | `ChannelsTypeOK` |
| | `RegistrationCorrect`, `ActiveCorrect`, `RememberedCorrect` | `OneRegistration`, `OneActive`, `NothingForgotten` |
| | `RefusalCorrect`, `TakeOverCorrect` | `RefusalProven`, `NoTakeOverInDoubt` |
| | `PromiseKept` | `ImplementsNormalization` |
| Serial link | `LinkTypeCorrect`, `LinesAlwaysCounted`, `VerdictsAlwaysHold` | `LinkTypeOK`, `LinesCounted`, `VerdictsHold` |
| Access | `AccessTypeCorrect`, `ActivationCorrect` | `AccessTypeOK`, `ActiveIsAccepted` |
| | `KeysCorrect`, `OneStationCorrect`, `RevocationCorrect` | `KeyApproved`, `OneActivePerMcf`, `RevokedStaysOut` |
| Reports | `ReportsTypeCorrect`, `PeriodsPartition` | `ReportsTypeOK`, `ZPartition` |
| Functions | `EveryCommandIsRead`, `EveryAnswerIsRead`; `FramesCorrect` | `FramesSafe` |
| | `EveryDiagnosisTells`; `DiagnosisCorrect` | `DiagnosisSafe` |
| | `EveryInvoiceAgrees`, `EveryCeilingBalances`; `AmountsCorrect` | `ChannelsAmountsAgree` |
| | `EveryPaymentAddsUp`; `PaymentsCorrect` | `PaymentsAddUp` |
| | `EverySavedIsExpressible`; `RulesCorrect` | `SavedCanBeDeclared` |
| | `EveryRouteAllowed`, `EverySourceAllowed`; `RoutingCorrect` | `RoutingSafe` |

### Queue

From `ConstantsAssumption` alone, for every assignment of gateways and invoices to devices.

* `TypeCorrect`: by one lemma per action.
* `BarrierHolds`, `PollIsAlone`: neither is inductive alone. `Barrier` is their
  conjunction: a poll in two steps is safe because no other poll of the device
  may pass, and no other action makes an operation held. The lemmas say of each
  action that it *grants nothing*, and only the poll remains.
* `CountersHold`: needs `LastTcCovers`, that `last_tc` is at least every counter
  accepted, so that a larger counter is new. Its premise is on
  behaviours, not on `Windows`: `ResultsTakeTurns`, that no result of an MCF is accepted between the
  read and the write of another of the same MCF. Results may be read and written in two steps,
  with any other handler in between, and those of other MCFs meet freely. TLC shows that the premise is needed (see above).
* `SettledForGood`, `ExecutionStandsAlone`, `OneAttemptWaits`,
  `InvoiceMatchesOp`: under `WholeLeases`, that polls and the expiry are not
  interrupted (`Windows` without `"lease"` and `"expire"`; results and the other
  handlers may be). The assumption is needed, as `lease_race` shows. The
  strengthening `Quiet` says that no poll and no expiry is open and that handlers and
  results only hold rows that exist. On it rest the lemmas on what a step cannot do
  (`NothingTaken`: no step but a poll makes an operation busy, none puts an existing
  one back in the queue; `NoRevival`: none revives a closed one), and each property
  adds its own inductive invariant to it.

### Chain

From `ChainAssumption`: one MCF (the case of each device, since neither the queue nor a
gateway relates two), whole transactions, and a code for each counter. `MaxTroubles` is
any number: crashes, losses and lapses may come at every step.

None of the properties is inductive. `IInv` says what the three parties know of each other:

* of ERPNext: at most one operation is busy (leased, or of unknown outcome), and it is the
  newest of its invoice (`RowsOk`, `OneBusy`, `WaitingIsNewest`, `Quiet`);
* of the MCF (`Known`): what it registered is on the invoice, or is its *last* registration and
  its operation is the busy one. This is why C1h, which tells the last one only, is enough to
  reconcile; `CounterOk` is why the counter of that registration is never refused;
* of the journals: only the Active station and those it replaced ever ran (`Shops`), and for the
  one that has the MCF (`Station`) each entry, each step of its work and each result on its way
  says something true of the operation and of the book: a DONE entry names its registration, a
  REJECTED one whose lease is still current has none, and the steps up to 38h have none
  (`EntryOk`, `StepOk`, `LateOk`);
* `Handed1`: a registration of an operation still leased is known to the journal of the station
  that has the MCF, or was made by a station that is no longer Active;
* `BarrierAt`: the barrier of a station holds wherever the MCF is, also for a station that was
  replaced and goes on; it is proved for all of them, the rest only for the one plugged in.

`ChainStep` proves once that a step preserves `IInv` and that it *advances* the chain in one of
two ways: it registers the invoice of one operation and leaves ERPNext alone, or it leaves the
book alone and changes the queue as `Gentle` says. The action properties, `QueueIsKept` and
the refinement `ChainKeepsPromise` are read off this fact; what `FiscalOperations_proofs` shows of
the queue then holds of the chain.

### Both channels

From `ChannelsAssumption`, with a priority on either channel.

| Theorems | Windows |
|---|---|
| `ChannelsTypeCorrect` | any |
| `ActiveCorrect`, `RememberedCorrect` | neither `"twice"` nor `"unlogged"`: attempts closed wrongly, or never closed, are in |
| `RegistrationCorrect`, `RefusalCorrect`, `TakeOverCorrect`, `PromiseKept` | none |

The last is the hypothesis of the run `routes`. Each opening left out breaks one of these
properties, as the violations show; the death between the commit of `_fail` and that of `finish_emcf` is one of them. Deaths and
exceptions everywhere else, lost answers, fallback, switch and the return of a
channel are in. The theorems with windows open rest on a weaker invariant of their own, which
says of an invoice only what those windows leave true.

`IInv`: an operation is in the states of its channel (`Shapes`); two workers never deal with one
invoice or operation (`Alone`); and of each invoice (`InvoiceOk`), a registration is either on
it, or in the MCF with its operation active (`InMcf`), or possibly in the e-MCF under
the UID that the invoice still carries, with the trace of the CONFIRM kept and the operation
Uncertain, or a worker about to record it (`InEmcf`). `WorkerOk` says what a worker holds at each
stage, in particular that before the CONFIRM its request is unconfirmed and nothing is
registered. One active operation per invoice is a conjunct of it. The action properties and the
refinement ask of each action which registrations, rejections and stamps it makes.

### Serial link

From `LinkAssumption`, for any number of attempts and of invoices, under two hypotheses.

* `MaxTroubles < MaxSeq`: in all, at most 222 losses, garbled frames, late answers and restarts
  with the 224 values of the code. It keeps a SEQ from coming round while a frame or an answer of
  its former use is unread, which would look like the new one. `Budget` is the argument: each command that
  ages an unread frame, each frame before it, each garbled one behind it and each unread answer was
  paid for with a trouble, but for the attempt in progress, and `Slack` says that an attempt that
  will end in silence is paid for too. An unread frame is thus never `MaxSeq` commands old. The
  hypothesis belongs to this argument: TLC finds no violation without it in small instances (SEQ
  modulo 2 or 3, up to 9 troubles), and troubles that the link has recovered from are not forgiven.
* `PatientStart`: the gateway is not stopped again before the MCF has read the first C1h it was
  sent. Every start opens the port with the same SEQ, so the C1h of two starts on the wire cannot
  be told apart, and the proof does not follow the frames between them. The run `serial` has no
  such hypothesis.

`LinkInv`, whose other parts say:

* the copies of a frame follow one another on the wire, and so do they and the last frame that the
  MCF executed (`WireOK`): a frame that was executed is then never executed again;
* the frames of the exchange in progress come last, and an answer that the gateway would accept
  is the one the MCF has in memory (`OwnOK`);
* an unread 38h finds the invoice of the moment, complete, while its outcome is open, and an
  unread 31h at most one line (`LiveOK`): this is why "rejected" stays true whatever is
  still on the wire;
* the place of the gateway agrees with the open invoice, the book and the answer it is about to
  read (`BuildOK`, `AnswerOK`), and the verdicts with the book (`BookOK`, `VerdictOK`).

There is one lemma for each form a step can take (a command is issued, repeated, answered, left
without answer; the gateway starts, wakes, is stopped; the MCF reads a frame, or refuses it).

### Access

From `AccessAssumption`. `ActiveIsAccepted` is preserved by each action
once the types are known. Of an approval under way `PlansApproved` says that the rows it will write are
those it read, with the station approved and the others revoked. `KeyApproved` is strengthened to `KeyOk`, where enabled and Active are
the same. `OneStationCorrect` has the hypothesis `~Overlap`, that approvals for one MCF do not overlap
(`overlapping_approvals` shows that it is needed); approvals for other MCFs, and every
other handler, may come between its two steps. `TakenInTurns` adds that an approval under way read every gateway that is active on its MCF. `RevocationCorrect` needs `NoCodeLeft`: a revocation clears the code, so no
code issued before is left to enrol with.

### Reports

For `ReportsSpec`, where each request is taken whole (`missed_invoice` is what happens
otherwise). `Clock`: every reading is a new instant, and no invoice is dated later than now.
`Numbers`: the numbers of a code are 1 to the number of its reports. `Partition`: a report begins
where the one before it ended, the last ended last, and an invoice that some report passed
is in exactly one. `Balanced`: the nets of the Z add up to that of the invoices they passed,
which are those of the new report and of all before it, two disjoint sets.

### Functions

The theorems `Every...` take any input: any reading of an MCF and any record, any rules and
settings that are mapped, any sequence of lines with amounts of any size, any payments and schedule
of an invoice with a positive total, any finite set of points of
sale, any command and any data that fit in a frame, any wrong byte at any place. The run's
probes are some of these inputs, and `FramesCorrect` to `RoutingCorrect` conclude that
the six properties of the run hold in each of its states; only figures and orders of codes,
whose layouts are finite, are proved from the probes themselves. The diagnosis is of readings whose
NIF does not differ by blanks alone. `EveryCeilingBalances` is of sales and returns: the code rounds the
magnitude up. `NoneIsNoValue` is the only
assumption: the absence of a channel or of a point of sale is none of them.

Sums over a finite set are folds, and the induction theorems of the library cannot be
instantiated. `SumTheorems` reasons by smallest counterexample: a table of sums exists for
every finite set (`SumsExist`), two of them agree (on a smallest subset where they did not, they
would), hence the fold is that table, and sums over disjoint sets add up (`SumOverUnion`), keep
an order and a bound. A sum does not change when its set is renamed one to one
(`SumOverRenamed`) or cut into parts (`SumOverParts`): filtering, ordering and merging payments
keep their sum. These are written with `InOrder`, which numbers a finite set of naturals, because
the prover has no definition of what `SelectSeq` and `SetToSortSeq` call. `Amounts`, `Reports` and the sums of bytes in `Frames` use it.

### Only model-checked

* Liveness: `QueueDrains`, `EveryInvoiceSettled` (of `SerialLink`) and the fairness in `ImplementsNormalization` of the
  chain. Neither fairness nor ENABLED is in the prover's reach.
* The link without `PatientStart`, within the bounds of `serial`, or with `MaxTroubles >= MaxSeq`.
* The five violations.

## Not modelled

* The browser station (`dgi_mcf.js`): a second gateway with a journal of its own. The
  queue sees one more gateway (`FiscalOperations`); its code is JavaScript on the same
  protocol as `fiscalize.py` and would repeat `McfChain`.
* Submit gate, cancellation and deletion of a Sales Invoice, and the return of a POS
  invoice when its normalization fails; the edit of a draft between the amounts and the
  CONFIRM. The queue side of an edit is `EditDraft`.
* Signatures, nonces and operator tokens: taken as given; `Access` has what a valid
  signature gives the right to.
* `refuse_device` and `record_connectivity` (a status, an event), alerts and reminders,
  the approvals of a channel switch, the matrix of a point of sale (*matrix.py:279-299*),
  foreign currencies in `Amounts`.
* Key files and command line of the gateway, synchronization of reference tables,
  print formats, amounts in words, audit, legacy MCF jobs, patches, simulators: input and
  output, layout, retired code or test doubles.

## Plan

Modelling is complete up to the list above, and every safety property of a passing run is
stated by a theorem. Next:

1. `SerialLink` without `PatientStart` (an invariant that tells the C1h of two starts apart by what
   is between them) and with a budget that is refilled when the wire is empty.
2. `Channels`: whether `RegistrationCorrect` and `PromiseKept` survive `"unclosed"` or `"raised"` in a
   weaker form, since TLC only refutes the take-over and the refusal there.
3. The browser station, as a second gateway of `McfChain`.
