------------------------------- MODULE Channels -------------------------------
(***************************************************************************)
(* The normalization of an invoice over both channels of a point de vente   *)
(* (edef/tasks.py, fiscal/journal.py, fallback.py, DGI Channel Switch).     *)
(*                                                                         *)
(* A worker of ERPNext holds the row of the invoice from its `for update`   *)
(* to its first commit: what it wrote by then is kept in the worker, and    *)
(* lost with it.  Each exchange with the e-MCF and each commit is a step.   *)
(* The MCF side is what McfChain refines: an operation is queued, leased,   *)
(* and either registered or proven not to be.                               *)
(***************************************************************************)
EXTENDS Naturals, FiniteSets

CONSTANTS
  Invoices, Workers, None,
  Priority,      \* canal prioritaire of the point de vente
  MaxOps,        \* bound: operations ever created
  MaxRequests,   \* bound: requests the e-MCF ever creates
  MaxTroubles,   \* bound: lost calls, refusals, crashes, differences
  Windows        \* what the code leaves open, see Openings

INSTANCE Routing

\* "twice": another call, or the result of the MCF, comes between two commits of a call.
\* "raised": an attempt that may be registered ends before its UID was looked at, or recorded.
\* "unlogged", "unclosed": the process dies between the CONFIRM and the commit of its trace;
\* between that commit and the one that closes the operation.
Openings == {"twice", "raised", "unlogged", "unclosed"}

ASSUME ChannelsAssumption ==
  /\ Priority \in Channels
  /\ {MaxOps, MaxRequests, MaxTroubles} \subseteq Nat
  /\ Windows \subseteq Openings
  /\ None \notin Invoices \cup Channels

VARIABLES
  ops,       \* DGI Fiscal Operation
  invoice,   \* fiscal fields of the Sales Invoice
  logged,    \* requests with a "confirm" row in DGI Exchange Log
  emcf,      \* requests of the e-MCF
  mcf,       \* operations whose invoice the MCF registered
  worker,    \* normalize_invoice under way
  pvf,       \* fallback open (in Redis), its queue to withdraw, manual switch, signal of the station
  troubles

vars == <<ops, invoice, logged, emcf, mcf, worker, pvf, troubles>>

Ops      == 1..MaxOps
Requests == 1..MaxRequests

NoOp      == [inv |-> None, ch |-> None, st |-> "None", sent |-> FALSE, fallback |-> FALSE]
NoRequest == [inv |-> None, st |-> "None"]
Idle      == [pc |-> "idle", inv |-> None, uid |-> 0, force |-> None, op |-> 0, drop |-> {},
              out |-> "None", auto |-> FALSE, alternate |-> FALSE]

Active   == {"Queued", "Leased", "Uncertain", "Pending"}
InFlight == {"Leased", "Uncertain"}

Trouble   == troubles < MaxTroubles /\ troubles' = troubles + 1
NoTrouble == UNCHANGED troubles

ActiveOps(i)     == {o \in Ops : ops[o].inv = i /\ ops[o].st \in Active}
Of(i, st)        == {u \in Requests : emcf[u].inv = i /\ emcf[u].st = st}
Registrations(i) == Of(i, "confirmed") \cup {MaxRequests + o : o \in {p \in mcf : ops[p].inv = i}}
At(w, pc)        == worker[w].pc = pc
Inv(w)           == worker[w].inv
Normal(i)        == invoice[i].status = "Normalized" /\ invoice[i].code # 0
BusyOn(i)        == \E w \in Workers : worker[w].inv = i
Loading(i)       == \E w \in Workers : worker[w].inv = i /\ At(w, "loaded")

\* The row lock of the invoice, and those of the operations withdrawn under it.
Locking(w)   == worker[w].pc \in {"entered", "created", "failed"}
RowFree(i)   == \A w \in Workers : worker[w].inv = i => ~Locking(w)
Unlocked(o)  == \A w \in Workers : o \notin worker[w].drop

Goto(w, pc)     == worker' = [worker EXCEPT ![w].pc = pc]
Outcome(w, out) == worker' = [worker EXCEPT ![w].pc = "finish", ![w].out = out]

FreeOps  == {o \in Ops : ops[o] = NoOp /\ \A w \in Workers : worker[w].op # o}
NewOp    == CHOOSE o \in FreeOps : \A p \in FreeOps : o <= p
FreshUid == CHOOSE u \in Requests : emcf[u] = NoRequest /\ \A v \in 1..(u - 1) : emcf[v] # NoRequest

Drop(D) == [o \in Ops |-> IF o \in D THEN [ops[o] EXCEPT !.st = "Cancelled"] ELSE ops[o]]

----
(* Routing and rule 1 *)

Config(force) ==
  [priority |-> Priority, policy |-> "Automatique", switch |-> pvf.switch, fallback |-> pvf.fallback,
   force |-> force, ownToken |-> TRUE, generalToken |-> FALSE, tokenOfAnother |-> FALSE,
   mcf |-> TRUE, reachable |-> pvf.reachable]

\* activate: the first proven failure opens the fallback, the next ones leave it alone.
Opened(to) == [pvf EXCEPT !.fallback = IF @ = None THEN to ELSE @]

TrustsNothingSent(o) ==
  \/ ops[o].ch = "MCF" /\ ops[o].st = "Queued"
  \/ ops[o].ch = "e-MCF"

\* check_active: what was never received may be withdrawn for another channel.
NeverReceived(o) ==
  \/ ops[o].ch = "MCF" /\ ops[o].st = "Queued"
  \/ ops[o].ch = "e-MCF" /\ ops[o].st = "Pending" /\ ~ops[o].sent

OnOther(i, c) == {o \in ActiveOps(i) : ops[o].ch # c}
MayGo(i, c)   == \A o \in OnOther(i, c) : NeverReceived(o)

WithdrawsNothing(i, c) == {}
Withdrawn(i, c)        == {o \in OnOther(i, c) : NeverReceived(o)}

\* request_mcf_normalization, after check_active withdrew D: the active operation of the
\* invoice is returned, else a new one is queued.
QueueMcf(i, D, fallback) ==
  IF ActiveOps(i) \ D # {} THEN ops' = Drop(D) /\ UNCHANGED invoice
  ELSE /\ FreeOps # {}
       /\ ops' = [Drop(D) EXCEPT ![NewOp] = [inv |-> i, ch |-> "MCF", st |-> "Queued",
                                             sent |-> FALSE, fallback |-> fallback]]
       /\ invoice' = [invoice EXCEPT ![i].status = "Pending"]

----
(* normalize_invoice *)

\* The document is loaded, its UID with it.  The button, the submission, the retry and the
\* background job all end here; reroute_rejected imposes the other channel.
Begin(w, i) ==
  /\ At(w, "idle") /\ ~Normal(i)
  /\ BusyOn(i) => "twice" \in Windows
  /\ \E f \in {None} \cup {OtherChannel(ops[o].ch) : o \in {p \in Ops :
                            ops[p].inv = i /\ ops[p].st = "Rejected" /\ ActiveOps(i) = {}}} :
       worker' = [worker EXCEPT ![w] = [Idle EXCEPT !.pc = "loaded", !.inv = i,
                                                    !.uid = invoice[i].uid, !.force = f]]
  /\ UNCHANGED <<ops, invoice, logged, emcf, mcf, pvf, troubles>>

\* From the row lock to the start of the attempt.
Enter(w) ==
  LET i == Inv(w)
      r == Route(Config(worker[w].force))
      D == Withdrawn(i, r.channel)
      E == OnOther(i, OtherChannel(r.channel))
  IN  /\ At(w, "loaded") /\ RowFree(i)
      /\ \A o \in OnOther(i, r.channel) : Unlocked(o)
      /\ IF MayGo(i, r.channel)
         THEN /\ pvf' = IF r.opens THEN Opened("e-MCF") ELSE pvf
              /\ IF r.channel = "MCF"
                 THEN QueueMcf(i, D, r.auto) /\ worker' = [worker EXCEPT ![w] = Idle]
                 ELSE /\ E = {} => FreeOps # {}
                      /\ worker' = [worker EXCEPT ![w] =
                           [@ EXCEPT !.pc = "entered", !.drop = D, !.auto = r.auto,
                                     !.alternate = r.alternate,
                                     !.op = IF E = {} THEN NewOp ELSE CHOOSE o \in E : TRUE]]
                      /\ UNCHANGED <<ops, invoice>>
         ELSE worker' = [worker EXCEPT ![w] = Idle] /\ UNCHANGED <<ops, invoice, pvf>>
      /\ UNCHANGED <<logged, emcf, mcf, troubles>>

\* What the first commit makes of the operations: those withdrawn, and the attempt.
Committed(w, st) ==
  LET x == worker[w]
      started == [inv |-> x.inv, ch |-> "e-MCF", st |-> "Pending", sent |-> FALSE, fallback |-> x.auto]
      kept    == IF ops[x.op] = NoOp THEN started ELSE ops[x.op]
  IN  [Drop(x.drop) EXCEPT ![x.op] = IF st = "None" THEN kept ELSE [kept EXCEPT !.st = st]]

----
(* _reuse_or_create *)

Created(w, u) == worker' = [worker EXCEPT ![w].pc = "created", ![w].uid = u]

NotCreated(w, why) ==
  worker' = [worker EXCEPT ![w].pc = "failed", ![w].out = why,
                           ![w].uid = IF why = "lost" THEN @ ELSE 0]

Posted(i) ==
  /\ \E u \in Requests : emcf[u] = NoRequest
  /\ emcf' = [emcf EXCEPT ![FreshUid] = [inv |-> i, st |-> "pending"]]

\* create_invoice: answered, already pending (error 63), refused, not answered and looked
\* for in the pending list, or not answered and not found.
Post(w) ==
  LET i == Inv(w)
  IN  \/ Posted(i) /\ NoTrouble /\ Created(w, FreshUid)
      \/ /\ NoTrouble /\ UNCHANGED emcf
         /\ \E u \in Of(i, "pending") : Created(w, u)
      \/ Trouble /\ UNCHANGED emcf /\ NotCreated(w, "refused")
      \/ Trouble /\ Posted(i) /\ \E u \in Of(i, "pending") \cup {FreshUid} : Created(w, u)
      \/ Trouble /\ (Posted(i) \/ UNCHANGED emcf) /\ NotCreated(w, "unavailable")

CreatesAnyway(w) ==
  /\ At(w, "entered") /\ Post(w)
  /\ UNCHANGED <<ops, invoice, logged, mcf, pvf>>

\* The UID the document carries: pending, it is reused; not shown as pending after a CONFIRM,
\* nothing is known of it; never confirmed, it is forgotten and a request is created.
Create(w) ==
  LET u == worker[w].uid
  IN  /\ At(w, "entered")
      /\ \/ /\ u \in Of(Inv(w), "pending")
            /\ Created(w, u) /\ NoTrouble /\ UNCHANGED emcf
         \/ /\ u # 0 /\ u \in logged
            /\ IF u \in Of(Inv(w), "pending") THEN Trouble ELSE NoTrouble
            /\ NotCreated(w, "lost") /\ UNCHANGED emcf
         \/ /\ u # 0 => u \notin logged
            /\ Post(w)
      /\ UNCHANGED <<ops, invoice, logged, mcf, pvf>>

\* No request: without a word of the e-MCF and with an MCF at hand, the attempt is proven not
\* received (one commit); otherwise the error is committed first.
NotReceived(w) ==
  /\ At(w, "failed") /\ worker[w].out = "unavailable" /\ worker[w].alternate
  /\ ops' = Committed(w, "Cancelled")
  /\ invoice' = [invoice EXCEPT ![Inv(w)].uid = 0]
  /\ pvf' = Opened("MCF")
  /\ worker' = [worker EXCEPT ![w].pc = "alternate", ![w].drop = {}]
  /\ UNCHANGED <<logged, emcf, mcf, troubles>>

Fails(w) ==
  /\ At(w, "failed") /\ ~(worker[w].out = "unavailable" /\ worker[w].alternate)
  /\ ops' = Committed(w, "None")
  /\ invoice' = [invoice EXCEPT ![Inv(w)].status = "Error", ![Inv(w)].uid = worker[w].uid]
  /\ worker' = [worker EXCEPT ![w].pc = "finish", ![w].drop = {}]
  /\ UNCHANGED <<logged, emcf, mcf, pvf, troubles>>

\* The MCF takes over: its operation carries the fallback mark.
TakeOver(w) ==
  /\ At(w, "alternate") /\ RowFree(Inv(w))
  /\ QueueMcf(Inv(w), {}, TRUE)
  /\ worker' = [worker EXCEPT ![w] = Idle]
  /\ UNCHANGED <<logged, emcf, mcf, pvf, troubles>>

\* The request cannot be built or is not valid: the error is committed, then the attempt closed.
Invalid(w) ==
  /\ At(w, "entered") /\ Trouble
  /\ ops[worker[w].op].st = "Uncertain" => "raised" \in Windows
  /\ ops' = Committed(w, "None")
  /\ invoice' = [invoice EXCEPT ![Inv(w)].status = "Error"]
  /\ worker' = [worker EXCEPT ![w].pc = "finish", ![w].out = "refused", ![w].drop = {}]
  /\ UNCHANGED <<logged, emcf, mcf, pvf>>

----
(* Check of the amounts, CONFIRM, and its record *)

KeepsUidInMemory(w) ==
  /\ At(w, "created")
  /\ ops' = Committed(w, "None")
  /\ worker' = [worker EXCEPT ![w].pc = "kept", ![w].drop = {}]
  /\ UNCHANGED <<invoice, logged, emcf, mcf, pvf, troubles>>

KeepUid(w) ==
  /\ At(w, "created")
  /\ ops' = Committed(w, "None")
  /\ invoice' = [invoice EXCEPT ![Inv(w)].uid = worker[w].uid]
  /\ worker' = [worker EXCEPT ![w].pc = "kept", ![w].drop = {}]
  /\ UNCHANGED <<logged, emcf, mcf, pvf, troubles>>

\* cancel_invoice: taken by a pending request, or lost; the request then expires.
Cancel(u) == emcf' = [emcf EXCEPT ![u].st = IF @ = "pending" THEN "closed" ELSE @] \/ UNCHANGED emcf

Differs(w) ==
  /\ At(w, "kept") /\ Trouble
  /\ Cancel(worker[w].uid)
  /\ invoice' = [invoice EXCEPT ![Inv(w)].uid = 0, ![Inv(w)].status = "Error"]
  /\ Outcome(w, "refused")
  /\ UNCHANGED <<ops, logged, mcf, pvf>>

Answer(w, a) == worker' = [worker EXCEPT ![w].pc = "answered", ![w].out = a]

Confirm(w) ==
  LET u == worker[w].uid
      taken == emcf' = [emcf EXCEPT ![u].st = "confirmed"]
  IN  /\ At(w, "kept")
      /\ \/ emcf[u].st = "pending" /\ NoTrouble /\ taken /\ Answer(w, "ok")
         \/ emcf[u].st = "pending" /\ Trouble /\ taken /\ Answer(w, "lost")
         \/ Trouble /\ Answer(w, "lost") /\ UNCHANGED emcf
         \/ /\ IF emcf[u].st = "pending" THEN Trouble ELSE NoTrouble
            /\ Answer(w, "refused") /\ UNCHANGED emcf
      /\ UNCHANGED <<ops, invoice, logged, mcf, pvf>>

TakesSilenceForRefusal(w) ==
  /\ At(w, "answered") /\ RowFree(Inv(w))
  /\ logged' = logged \cup {worker[w].uid}
  /\ IF worker[w].out = "ok"
     THEN invoice' = [invoice EXCEPT ![Inv(w)] = [@ EXCEPT !.status = "Normalized", !.code = worker[w].uid]]
     ELSE invoice' = [invoice EXCEPT ![Inv(w)].status = "Error", ![Inv(w)].uid = 0]
  /\ worker' = [worker EXCEPT ![w].pc = "finish", ![w].out = IF @ = "ok" THEN "ok" ELSE "refused"]
  /\ UNCHANGED <<ops, emcf, mcf, pvf, troubles>>

\* The log of the CONFIRM and what it means are one commit.
Record(w) ==
  LET u == worker[w].uid
      i == Inv(w)
  IN  /\ At(w, "answered") /\ RowFree(i)
      /\ logged' = logged \cup {u}
      /\ CASE worker[w].out = "ok" ->
                invoice' = [invoice EXCEPT ![i] = [@ EXCEPT !.status = "Normalized", !.code = u]]
                /\ UNCHANGED emcf
           [] worker[w].out = "lost" ->
                invoice' = [invoice EXCEPT ![i].status = "Error"] /\ UNCHANGED emcf
           [] worker[w].out = "refused" ->
                invoice' = [invoice EXCEPT ![i].status = "Error", ![i].uid = 0] /\ Cancel(u)
      /\ Goto(w, "finish")
      /\ UNCHANGED <<ops, mcf, pvf, troubles>>

ClosesWithStage(w) == IF Normal(Inv(w)) THEN "Normalized" ELSE worker[w].out

ClosesAll(w) == IF Normal(Inv(w)) THEN "Normalized" ELSE "Rejected"

\* finish_emcf.
Closed(w) ==
  CASE Normal(Inv(w)) -> "Normalized"
    [] ~Normal(Inv(w)) /\ worker[w].out = "unavailable" -> "Cancelled"
    [] ~Normal(Inv(w)) /\ worker[w].out = "lost" -> "Uncertain"
    [] OTHER -> "Rejected"

Finish(w) ==
  /\ At(w, "finish")
  /\ ops' = [ops EXCEPT ![worker[w].op].st = Closed(w),
                        ![worker[w].op].sent = worker[w].out = "lost" \/ invoice[Inv(w)].uid \in logged]
  /\ worker' = [worker EXCEPT ![w] = Idle]
  /\ UNCHANGED <<invoice, logged, emcf, mcf, pvf, troubles>>

\* Any other exception, wherever the attempt is: finish_emcf closes it in the transaction
\* that the exception interrupted, with the log of a CONFIRM and without its outcome.
MayBeRegistered(w) ==
  \/ ops[worker[w].op].st = "Uncertain"
  \/ At(w, "answered") /\ worker[w].out # "refused"

Raises(w) ==
  LET x == worker[w]
      traced == IF At(w, "answered") THEN logged \cup {x.uid} ELSE logged
  IN  /\ x.pc \in {"entered", "created", "kept", "answered"} /\ Trouble
      /\ MayBeRegistered(w) => "raised" \in Windows
      /\ logged' = traced
      /\ ops' = [Committed(w, "Rejected") EXCEPT ![x.op].sent = invoice[x.inv].uid \in traced]
      /\ worker' = [worker EXCEPT ![w] = Idle]
      /\ UNCHANGED <<invoice, emcf, mcf, pvf>>

\* The process dies; what it did not commit is rolled back.
Unlogged(w) == At(w, "answered")
Unclosed(w) == At(w, "finish") /\ worker[w].out = "lost" /\ ops[worker[w].op].st # "Uncertain"

Crash(w) ==
  /\ ~At(w, "idle") /\ Trouble
  /\ Unlogged(w) => "unlogged" \in Windows
  /\ Unclosed(w) => "unclosed" \in Windows
  /\ worker' = [worker EXCEPT ![w] = Idle]
  /\ UNCHANGED <<ops, invoice, logged, emcf, mcf, pvf>>

----
(* e-MCF and MCF *)

\* A request never confirmed expires by itself.
Expire(u) ==
  /\ emcf[u].st = "pending"
  /\ emcf' = [emcf EXCEPT ![u].st = "closed"]
  /\ UNCHANGED <<ops, invoice, logged, mcf, worker, pvf, troubles>>

Station ==
  /\ pvf' = [pvf EXCEPT !.reachable = ~@]
  /\ UNCHANGED <<ops, invoice, logged, emcf, mcf, worker, troubles>>

Lease(o) ==
  /\ ops[o].st = "Queued" /\ Unlocked(o)
  /\ ops' = [ops EXCEPT ![o].st = "Leased"]
  /\ UNCHANGED <<invoice, logged, emcf, mcf, worker, pvf, troubles>>

Register(o) ==
  /\ ops[o].st = "Leased" /\ mcf' = mcf \cup {o}
  /\ UNCHANGED <<ops, invoice, logged, emcf, worker, pvf, troubles>>

\* Normalized, or proven not registered: refused, or queued again.
Result(o) ==
  LET i == ops[o].inv
  IN  /\ ops[o].st = "Leased" /\ RowFree(i)
      /\ Loading(i) => "twice" \in Windows
      /\ \/ /\ o \in mcf /\ NoTrouble
            /\ ops' = [ops EXCEPT ![o].st = "Normalized"]
            /\ invoice' = [invoice EXCEPT ![i] = [@ EXCEPT !.status = "Normalized", !.code = MaxRequests + o]]
         \/ /\ o \notin mcf /\ Trouble
            /\ ops' = [ops EXCEPT ![o].st = "Rejected"]
            /\ invoice' = [invoice EXCEPT ![i].status = "Error"]
         \/ /\ o \notin mcf /\ Trouble /\ FreeOps # {}
            /\ ops' = [ops EXCEPT ![o].st = "Rejected", ![NewOp] = [ops[o] EXCEPT !.st = "Queued"]]
            /\ invoice' = [invoice EXCEPT ![i].status = "Pending"]
      /\ UNCHANGED <<logged, emcf, mcf, worker, pvf>>

----
(* Decisions on the point de vente and on an invoice *)

\* _withdraw: only what is still queued when its row is locked.
Withdraw(D) ==
  /\ \A o \in D : ops[o].st = "Queued" /\ Unlocked(o) /\ RowFree(ops[o].inv)
  /\ ops' = Drop(D)
  /\ invoice' = [i \in Invoices |-> IF \E o \in D : ops[o].inv = i
                                    THEN [invoice[i] EXCEPT !.status = "Pending"] ELSE invoice[i]]

QueuedFallback == {o \in Ops : ops[o].ch = "MCF" /\ ops[o].st = "Queued" /\ ops[o].fallback}

\* send_stale_mcf_queue_to_emcf: queued too long and the station took nothing.
StaleQueue(o) ==
  /\ ops[o].ch = "MCF" /\ ops[o].st = "Queued" /\ ~ops[o].fallback
  /\ Withdraw({o})
  /\ pvf' = Opened("e-MCF")
  /\ UNCHANGED <<logged, emcf, mcf, worker, troubles>>

\* probe_all and close_fallback, through deactivate: the key in Redis first, for all to see; then
\* the queue of the fallback, or never when the process dies (or the key was only flushed).
Deactivate ==
  /\ pvf.fallback # None
  /\ pvf' = [pvf EXCEPT !.fallback = None, !.closing = @ \/ pvf.fallback = "MCF"]
  /\ UNCHANGED <<ops, invoice, logged, emcf, mcf, worker, troubles>>

RerouteQueued ==
  /\ pvf.closing
  /\ pvf' = [pvf EXCEPT !.closing = FALSE]
  /\ Withdraw(QueuedFallback)
  /\ UNCHANGED <<logged, emcf, mcf, worker, troubles>>

\* DGI Channel Switch: a switch to another channel, or the return to the priority.
Switch(to) ==
  /\ pvf.switch # to
  /\ \A o \in Ops : ops[o].st \notin InFlight
  /\ Withdraw({o \in Ops : ops[o].st = "Queued"})
  /\ pvf' = [pvf EXCEPT !.switch = to]
  /\ UNCHANGED <<logged, emcf, mcf, worker, troubles>>

\* clear_uncertain_confirmation: a manager saw on the portal of the DGI that it is not there.
Release(i) ==
  /\ invoice[i].uid # 0 /\ invoice[i].status # "Normalized" /\ invoice[i].code = 0
  /\ Of(i, "confirmed") = {}
  /\ RowFree(i) /\ (BusyOn(i) => "twice" \in Windows)
  /\ invoice' = [invoice EXCEPT ![i].uid = 0, ![i].status = "Pending"]
  /\ ops' = Drop({o \in Ops : ops[o].inv = i /\ ops[o].ch = "e-MCF" /\ ops[o].st \in Active})
  /\ UNCHANGED <<logged, emcf, mcf, worker, pvf, troubles>>

----
Init ==
  /\ ops = [o \in Ops |-> NoOp]
  /\ invoice = [i \in Invoices |-> [status |-> "Pending", uid |-> 0, code |-> 0]]
  /\ logged = {} /\ mcf = {}
  /\ emcf = [u \in Requests |-> NoRequest]
  /\ worker = [w \in Workers |-> Idle]
  /\ pvf = [fallback |-> None, closing |-> FALSE, switch |-> None, reachable |-> TRUE]
  /\ troubles = 0

Next ==
  \/ \E w \in Workers :
       \/ \E i \in Invoices : Begin(w, i)
       \/ Enter(w) \/ Create(w) \/ NotReceived(w) \/ Fails(w) \/ TakeOver(w) \/ Invalid(w)
       \/ KeepUid(w) \/ Differs(w) \/ Confirm(w) \/ Record(w) \/ Finish(w) \/ Raises(w) \/ Crash(w)
  \/ \E u \in Requests : Expire(u)
  \/ \E o \in Ops : Lease(o) \/ Register(o) \/ Result(o) \/ StaleQueue(o)
  \/ \E i \in Invoices : Release(i)
  \/ \E to \in {None, OtherChannel(Priority)} : Switch(to)
  \/ Station \/ Deactivate \/ RerouteQueued

Spec == Init /\ [][Next]_vars

----
(* Properties *)

ChannelsTypeOK ==
  /\ ops \in [Ops -> [inv : Invoices \cup {None}, ch : Channels \cup {None}, sent : BOOLEAN, fallback : BOOLEAN,
                      st : Active \cup {"None", "Normalized", "Rejected", "Cancelled"}]]
  /\ invoice \in [Invoices -> [status : {"Pending", "Error", "Normalized"}, uid : 0..MaxRequests,
                               code : 0..(MaxRequests + MaxOps)]]
  /\ emcf \in [Requests -> [inv : Invoices \cup {None}, st : {"None", "pending", "confirmed", "closed"}]]
  /\ logged \subseteq Requests /\ mcf \subseteq Ops
  /\ \A w \in Workers : worker[w].op \in 0..MaxOps /\ worker[w].drop \subseteq Ops
  /\ pvf \in [fallback : Channels \cup {None}, closing : BOOLEAN, switch : Channels \cup {None},
              reachable : BOOLEAN]
  /\ troubles \in 0..MaxTroubles

\* Whatever is lost, refused, rerouted or switched, the two channels together register an
\* invoice once (tasks.py:10, journal.py:4, fallback.py:6).
OneRegistration == \A i \in Invoices : Cardinality(Registrations(i)) <= 1

\* journal.py:4: one active operation per invoice, all channels together.
OneActive == \A i \in Invoices : Cardinality(ActiveOps(i)) <= 1

\* tasks.py:470: an invoice the e-MCF knows and no worker deals with is normalized, or carries
\* the UID of the request and its logged CONFIRM, on which every later attempt stops; one the MCF
\* knows is normalized, or its operation waits for its result.  This survives an attempt that
\* raised and one that was never closed.
NothingForgotten ==
  \A i \in Invoices : ~Normal(i) /\ ~BusyOn(i) =>
    /\ Of(i, "confirmed") \subseteq {invoice[i].uid} \cap logged
    /\ \A o \in mcf : ops[o].inv = i => ops[o].st \in InFlight

\* registry.py:223: a refusal proves that the invoice was not fiscalized.  An operation
\* becomes Rejected only when no channel has registered its invoice.
RefusalProven ==
  [][\A o \in Ops, i \in Invoices :
       ops'[o].inv = i /\ ops'[o].st = "Rejected" /\ ops[o].st # "Rejected" => Registrations(i)' = {}]_vars

\* fallback.py:10: the MCF never receives an invoice while a CONFIRM of it may have been applied.
NoTakeOverInDoubt ==
  [][\A o \in Ops, i \in Invoices :
       ops'[o].inv = i /\ ops'[o].st = "Queued" /\ ops[o].st # "Queued"
         => Registrations(i)' = {} /\ Cardinality(ActiveOps(i)') = 1]_vars

\* The promise of a channel, kept by the two of them.
Abstract == INSTANCE Normalization WITH
  Codes <- 1..(MaxRequests + MaxOps), None <- 0,
  issued <- [i \in Invoices |-> Registrations(i)],
  stamp <- [i \in Invoices |-> invoice[i].code]

ImplementsNormalization == Abstract!Safe
===============================================================================
