------------------------------- MODULE McfChain -------------------------------
(***************************************************************************)
(* The whole MCF channel: the queue of ERPNext (FiscalOperations), the site *)
(* gateway that leases its operations (dgi_gateway/service.py, fiscalize.py *)
(* and journal.py), and the MCF it drives.  Each step of the gateway is one *)
(* write of its journal, one exchange with the MCF or one call to ERPNext,  *)
(* so that a crash may fall between any two of them.                        *)
(*                                                                         *)
(* One MCF, and the gateways that succeed each other on it: approving one   *)
(* revokes the former, whose process goes on until the MCF is unplugged.    *)
(* No RESYNC here; transactions of ERPNext are whole (Windows = {}).        *)
(***************************************************************************)
EXTENDS FiscalOperations, Sequences

CONSTANT MaxTroubles   \* bound: refusals, errors, losses, crashes and lapses

\* One MCF; the code of a registration is its counter; whole transactions.
ASSUME ChainAssumption ==
  /\ \E d \in Devices : (\A g \in Gateways : DeviceOfGateway[g] = d)
                         /\ (\A i \in Invoices : DeviceOfInvoice[i] = d)
  /\ Gateways # {} /\ 1..MaxTC \subseteq Sigs /\ Windows = {}
  /\ MaxTroubles \in Nat

VARIABLES
  journal,   \* SQLite journal of each gateway: survives a crash
  work,      \* what the process of each gateway is doing: lost in a crash
  mcf,       \* invoice open on the MCF, and the invoices it registered
  shop,      \* the gateway that is Active, those revoked, and where the MCF is plugged in
  late,      \* results whose posting timed out before ERPNext processed them
  troubles

erp     == <<queue, invoice, device, windows>>
chain   == <<erp, journal, work, mcf, shop, late, troubles>>

NoRes   == [outcome |-> "None"]
NoEntry == [state |-> "None", token |-> 0, res |-> NoRes, delivered |-> FALSE]
NoWork  == [op |-> 0, kind |-> "None", token |-> 0, step |-> "idle", code |-> 0]

Trouble   == troubles < MaxTroubles /\ troubles' = troubles + 1
NoTrouble == UNCHANGED troubles

Inv(o)        == doc[o].inv
Counter       == Len(mcf.book)
Registered(i) == {n \in 1..Counter : mcf.book[n] = i}
LastIs(i)     == Counter > 0 /\ mcf.book[Counter] = i
Plugged(g)    == shop.at = g

\* The MCF cannot be read: it is plugged in elsewhere, or its link fails.
Unreachable(g) == IF Plugged(g) THEN Trouble ELSE NoTrouble

----
(* Results and the journal *)

Normalized(o, c)      == [op |-> o, outcome |-> "normalized", valid |-> TRUE, sig |-> c, tc |-> c]
Rejected(o, t, again) == [op |-> o, outcome |-> "rejected", token |-> t, requeue |-> again]
Uncertain(o, t)       == [op |-> o, outcome |-> "uncertain", token |-> t]

Open(g)        == {o \in Ops : journal[g][o].state \in {"RECEIVED", "OPENING", "FINALIZING", "UNCERTAIN"}}
Undelivered(g) == {o \in Ops : journal[g][o].res # NoRes /\ ~journal[g][o].delivered
                                 /\ journal[g][o].state \in {"DONE", "REJECTED", "UNCERTAIN"}}

\* record_received: the state of an operation already known is kept, its token renewed.
Received(e, t) == IF e.state = "None" THEN [e EXCEPT !.state = "RECEIVED", !.token = t]
                                      ELSE [e EXCEPT !.token = t]

KeepsToken(e, t) == IF e.state = "None" THEN [e EXCEPT !.state = "RECEIVED", !.token = t] ELSE e

SetState(g, o, s) == journal' = [journal EXCEPT ![g][o].state = s]

\* set_state with a result, which is to be delivered. check records an unknown operation first.
Conclude(g, o, t, s, r) ==
  journal' = [journal EXCEPT ![g][o] =
                [KeepsToken(@, t) EXCEPT !.state = s, !.res = r, !.delivered = FALSE]]

Goto(g, s) == work' = [work EXCEPT ![g].step = s]
At(g, s)   == work[g].step = s

----
(* Lease *)

\* What the answer of the poll hands over: an operation just leased, or held and renewed.
Handed(g) ==
  LET st == Expired(DeviceOfGateway[g])
      kind(s) == IF s = "Checking" THEN "CHECK" ELSE "NORMALIZE"
  IN  {[op |-> c.op, kind |-> kind(c.to), token |-> nTokens + 1, step |-> "leased", code |-> 0] :
         c \in Grants(g, st)}
      \cup {[op |-> o, kind |-> kind(st[o]), token |-> lease[o].token, step |-> "leased", code |-> 0] :
         o \in Renewed(g, st)}

Poll(g) == shop.active = g /\ (PollGrant(g) \/ PollHeld(g))

\* A cycle leases only when nothing is open in the journal and all results are delivered.
ReadyToLease(g) == At(g, "idle") /\ Plugged(g) /\ Open(g) = {} /\ Undelivered(g) = {}

Lease(g) ==
  /\ ReadyToLease(g) \/ At(g, "next")
  /\ Poll(g)
  /\ work' = [work EXCEPT ![g] = IF Handed(g) = {} THEN NoWork ELSE CHOOSE w \in Handed(g) : TRUE]
  /\ UNCHANGED <<journal, mcf, shop, late, troubles>>

\* A poll whose answer is lost, or left aside: the one that ends the posting of a result
\* by flush_results.
PollUnseen(g) ==
  /\ Poll(g)
  /\ UNCHANGED <<journal, work, mcf, shop, late, troubles>>

----
(* check: was the invoice of operation o registered? Only the last one is known to the MCF. *)

ClosesOpen == mcf' = [mcf EXCEPT !.open = None]

\* _cancel_quietly: best effort, a cancellation that fails leaves the invoice open.
CancelQuietly == (NoTrouble /\ ClosesOpen) \/ (Trouble /\ UNCHANGED mcf)

TakesSilenceForNo(g, o, t) ==
  \/ /\ Unreachable(g)
     /\ Conclude(g, o, t, "REJECTED", Rejected(o, t, TRUE))
     /\ UNCHANGED mcf
  \/ /\ Plugged(g) /\ NoTrouble /\ ClosesOpen
     /\ IF LastIs(Inv(o)) THEN Conclude(g, o, t, "DONE", Normalized(o, Counter))
                          ELSE Conclude(g, o, t, "REJECTED", Rejected(o, t, TRUE))

Check(g, o, t) ==
  \/ /\ Unreachable(g)
     /\ Conclude(g, o, t, "UNCERTAIN", Uncertain(o, t))
     /\ UNCHANGED mcf
  \/ /\ Plugged(g) /\ NoTrouble /\ LastIs(Inv(o))
     /\ Conclude(g, o, t, "DONE", Normalized(o, Counter))
     /\ UNCHANGED mcf
  \/ /\ Plugged(g) /\ ~LastIs(Inv(o)) /\ CancelQuietly
     /\ Conclude(g, o, t, "REJECTED", Rejected(o, t, TRUE))

\* The operation leased as a CHECK, or one whose execution has to be looked at again.
CheckWork(g) ==
  /\ At(g, "check") \/ (At(g, "leased") /\ work[g].kind = "CHECK")
  /\ IF journal[g][work[g].op].state = "DONE" THEN NoTrouble /\ UNCHANGED <<journal, mcf>>
                                              ELSE Check(g, work[g].op, work[g].token)
  /\ Goto(g, "post")
  /\ UNCHANGED <<erp, shop, late>>

\* reconcile_journal: what was interrupted is checked before anything else, under the token
\* of the journal.
Reconcile(g) ==
  /\ At(g, "idle")
  /\ \E o \in Open(g) : Check(g, o, journal[g][o].token)
  /\ UNCHANGED <<erp, work, shop, late>>

----
(* normalize *)

Receive(g) ==
  LET o == work[g].op
      e == journal[g][o]
  IN  /\ At(g, "leased") /\ work[g].kind = "NORMALIZE"
      /\ journal' = [journal EXCEPT ![g][o] = Received(e, work[g].token)]
      /\ Goto(g, CASE e.state \in {"DONE", "REJECTED"} -> "post"
                   [] e.state \in {"OPENING", "FINALIZING", "UNCERTAIN"} -> "check"
                   [] OTHER -> "prepare")
      /\ UNCHANGED <<erp, mcf, shop, late, troubles>>

\* A rejection before 38h; what stays open on the MCF is the choice of the caller.
Fails(g, again) ==
  LET w == work[g] IN Conclude(g, w.op, w.token, "REJECTED", Rejected(w.op, w.token, again)) /\ Goto(g, "post")

DoneBefore(g, o) == {p \in Ops \ {o} : journal[g][p].state = "DONE" /\ Inv(p) = Inv(o)}

\* An earlier result of the same invoice, the MCF out of reach, the invoice already
\* registered, a refused rate, or the invoice is about to be opened.
Prepare(g) ==
  LET w == work[g] IN
  /\ At(g, "prepare")
  /\ \/ /\ NoTrouble /\ UNCHANGED mcf
        /\ \E p \in DoneBefore(g, w.op) :
             Conclude(g, w.op, w.token, "DONE", [journal[g][p].res EXCEPT !.op = w.op])
        /\ Goto(g, "post")
     \/ /\ DoneBefore(g, w.op) = {}
        /\ Unreachable(g)
        /\ Fails(g, TRUE) /\ UNCHANGED mcf
     \/ /\ DoneBefore(g, w.op) = {} /\ Plugged(g) /\ LastIs(Inv(w.op))
        /\ NoTrouble /\ UNCHANGED mcf
        /\ Conclude(g, w.op, w.token, "DONE", Normalized(w.op, Counter)) /\ Goto(g, "post")
     \/ /\ DoneBefore(g, w.op) = {} /\ Plugged(g) /\ ~LastIs(Inv(w.op))
        /\ \/ Trouble /\ (ClosesOpen \/ UNCHANGED mcf) /\ Fails(g, FALSE)
           \/ CancelQuietly /\ SetState(g, w.op, "OPENING") /\ Goto(g, "open")
  /\ UNCHANGED <<erp, shop, late>>

\* C3h and C0h, the latter refused while another invoice is open.
OpenInvoice(g) ==
  /\ At(g, "open") /\ Plugged(g) /\ mcf.open = None
  /\ mcf' = [mcf EXCEPT !.open = Inv(work[g].op)]
  /\ Goto(g, "opened")
  /\ UNCHANGED <<erp, journal, shop, late, troubles>>

GivesUp(g) == \E again \in BOOLEAN : Fails(g, again)

\* The number is said to be in use, or the link fails during 38h: the MCF is asked what it did.
Doubt(g) == Goto(g, "check") /\ UNCHANGED journal

\* A command up to 35h is refused (C0h always while another invoice is open), the totals
\* differ, or the link fails: the cancellation that follows may fail as well.
FailsBefore38h(g) ==
  /\ At(g, "open") \/ At(g, "opened")
  /\ IF Plugged(g) /\ (At(g, "open") => mcf.open = None) THEN Trouble ELSE NoTrouble
  /\ \/ UNCHANGED mcf /\ Fails(g, TRUE)
     \/ Plugged(g) /\ (ClosesOpen \/ UNCHANGED mcf) /\ \E again \in BOOLEAN : Fails(g, again)
     \/ Plugged(g) /\ UNCHANGED mcf /\ Doubt(g)
  /\ UNCHANGED <<erp, shop, late>>

\* The journal says so before 38h is sent.
RecordFinalizing(g) ==
  /\ At(g, "opened")
  /\ SetState(g, work[g].op, "FINALIZING")
  /\ Goto(g, "final")
  /\ UNCHANGED <<erp, mcf, shop, late, troubles>>

ClosesThenRegisters == mcf' = [open |-> None, book |-> Append(mcf.book, None)]

Registers == mcf' = [open |-> None, book |-> Append(mcf.book, mcf.open)]

\* 38h: registered, and the answer arrives, is unreadable or incoherent; refused or still
\* waiting for the DGI, and cancelled (looked at again when that fails while it waits); or
\* the link fails before the MCF gets it.
Finalize(g) ==
  LET w == work[g] IN
  /\ At(g, "final")
  /\ \/ /\ Plugged(g) /\ mcf.open = Inv(w.op) /\ Counter < MaxTC
        /\ Registers
        /\ \/ /\ NoTrouble /\ UNCHANGED journal
              /\ work' = [work EXCEPT ![g].step = "answered", ![g].code = Counter + 1]
           \/ Trouble /\ Doubt(g)
           \/ Trouble /\ Goto(g, "post")
              /\ Conclude(g, w.op, w.token, "UNCERTAIN", Uncertain(w.op, w.token))
     \/ /\ Plugged(g)
        /\ IF mcf.open = Inv(w.op) THEN Trouble ELSE NoTrouble
        /\ \/ (ClosesOpen \/ UNCHANGED mcf) /\ \E again \in BOOLEAN : Fails(g, again)
           \/ UNCHANGED mcf /\ Doubt(g)
     \/ /\ Unreachable(g)
        /\ Doubt(g) /\ UNCHANGED mcf
  /\ UNCHANGED <<erp, shop, late>>

RecordDone(g) ==
  LET w == work[g] IN
  /\ At(g, "answered")
  /\ Conclude(g, w.op, w.token, "DONE", Normalized(w.op, w.code))
  /\ Goto(g, "post")
  /\ UNCHANGED <<erp, mcf, shop, late, troubles>>

Execute(g) ==
  \/ Receive(g) \/ Prepare(g) \/ OpenInvoice(g) \/ FailsBefore38h(g)
  \/ RecordFinalizing(g) \/ Finalize(g) \/ RecordDone(g) \/ CheckWork(g)

----
(* Delivery of the results *)

HasEffect(r) ==
  CASE r.outcome = "normalized" -> ~Duplicate(r)
    [] r.outcome = "rejected"   -> MayReject(r.op, r.token)
    [] r.outcome = "uncertain"  -> status[r.op] \in Held /\ TokenOk(r.op, r.token)

\* What the posting of a result by g does in ERPNext: an ignored one changes nothing.
Apply(g, r) ==
  /\ shop.active = g /\ MayReport(g, r.op)
  /\ IF HasEffect(r) THEN ApplyResult(g, r) ELSE UNCHANGED erp

\* The result of o is posted: it is answered, or processed but the answer is lost.
Post(g, o, after) ==
  /\ Apply(g, journal[g][o].res)
  /\ \/ /\ journal' = [journal EXCEPT ![g][o].delivered = TRUE]
        /\ work' = [work EXCEPT ![g] = [NoWork EXCEPT !.step = after]]
        /\ NoTrouble
     \/ Trouble /\ work' = [work EXCEPT ![g] = NoWork] /\ UNCHANGED journal
  /\ UNCHANGED <<mcf, shop, late>>

\* process: the answer to the result of an execution may hand over the next operation.
PostResult(g) == At(g, "post") /\ Post(g, work[g].op, "next")

\* flush_results: only once nothing is open in the journal.
Flush(g) ==
  /\ At(g, "idle") /\ Plugged(g) /\ Open(g) = {}
  /\ \E o \in Undelivered(g) : Post(g, o, "idle")

\* The posting times out: ERPNext may process it later, or never. A revoked gateway is refused.
PostFails(g) ==
  /\ At(g, "post")
  /\ IF shop.active = g
     THEN /\ Trouble
          /\ \E kept \in {{}, {[gw |-> g, res |-> journal[g][work[g].op].res]}} : late' = late \cup kept
     ELSE NoTrouble /\ UNCHANGED late
  /\ work' = [work EXCEPT ![g] = NoWork]
  /\ UNCHANGED <<erp, journal, mcf, shop>>

LateResult ==
  /\ \E m \in late : Apply(m.gw, m.res) /\ late' = late \ {m}
  /\ UNCHANGED <<journal, work, mcf, shop, troubles>>

----
(* The gateways, the MCF and ERPNext *)

Crash(g) ==
  /\ work[g] # NoWork /\ Trouble
  /\ work' = [work EXCEPT ![g] = NoWork]
  /\ UNCHANGED <<erp, journal, mcf, shop, late>>

\* record_heartbeat, sent between two executions; the MCF is read when it is plugged in.
Beat(g) ==
  /\ shop.active = g /\ At(g, "idle")
  /\ Heartbeat(g, IF Plugged(g) THEN Counter ELSE 0, "same")
  /\ UNCHANGED <<journal, work, mcf, shop, late, troubles>>

ReplaceForNow(g) ==
  /\ g # shop.active
  /\ shop' = [shop EXCEPT !.active = g]
  /\ UNCHANGED <<erp, journal, work, mcf, late, troubles>>

\* approve_gateway: revokes the gateway that was Active, which never comes back.
Replace(g) ==
  /\ g \notin shop.revoked \cup {shop.active}
  /\ shop' = [shop EXCEPT !.active = g, !.revoked = @ \cup {shop.active}]
  /\ UNCHANGED <<erp, journal, work, mcf, late, troubles>>

Plug ==
  /\ shop.at # shop.active
  /\ shop' = [shop EXCEPT !.at = shop.active]
  /\ UNCHANGED <<erp, journal, work, mcf, late, troubles>>

\* A lease lapses on its own once no heartbeat renews it, otherwise only by some trouble.
Lapses(o) ==
  /\ LeaseLapses(o)
  /\ IF lease[o].gw = shop.active THEN Trouble ELSE NoTrouble
  /\ UNCHANGED <<journal, work, mcf, shop, late>>

\* Room for the attempts that may still be requeued: the bound MaxOps never stops one.
Room == {o \in Created : status[o] \in Waiting /\ doc[o].attempt < MaxAttempts}

Ask(i) ==
  /\ Request(i) /\ nOps + Cardinality(Room) + MaxAttempts <= MaxOps
  /\ UNCHANGED <<journal, work, mcf, shop, late, troubles>>

\* The scheduler, the button of the operation and the decision on a dispute.
Maintain ==
  /\ ExpireLeases \/ CancelQueued \/ ResolveDispute
  /\ UNCHANGED <<journal, work, mcf, shop, late, troubles>>

ChainInit ==
  /\ Init
  /\ journal = [g \in Gateways |-> [o \in Ops |-> NoEntry]]
  /\ work = [g \in Gateways |-> NoWork]
  /\ mcf = [open |-> None, book |-> <<>>]
  /\ LET g == CHOOSE g \in Gateways : TRUE IN shop = [active |-> g, at |-> g, revoked |-> {}]
  /\ late = {} /\ troubles = 0

\* The process of a gateway: its next step, if it has one.
Process(g) == Reconcile(g) \/ Flush(g) \/ Lease(g) \/ Execute(g) \/ PostResult(g) \/ PostFails(g)

ChainNext ==
  \/ \E g \in Gateways : Process(g) \/ PollUnseen(g) \/ Crash(g) \/ Beat(g) \/ Replace(g)
  \/ LateResult \/ Plug \/ Maintain
  \/ \E o \in Ops : Lapses(o)
  \/ \E i \in Invoices : Ask(i)

ChainSpec == ChainInit /\ [][ChainNext]_chain

\* The service is restarted after a crash and runs its cycle for ever; the MCF is plugged in
\* the station that is Active; time passes for a lease nobody renews.
Fairness ==
  /\ \A g \in Gateways : WF_chain(shop.active = g /\ Process(g))
  /\ WF_chain(Plug)
  /\ \A o \in Ops : WF_chain(lease[o].gw # shop.active /\ Lapses(o))

FairChainSpec == ChainSpec /\ Fairness

----
(* Properties *)

Entries == [state : {"None", "RECEIVED", "OPENING", "FINALIZING", "DONE", "REJECTED", "UNCERTAIN"},
            token : 0..MaxTokens, res : Results \cup {NoRes}, delivered : BOOLEAN]

\* The journals, the MCF and the messages hold what they may hold.
ChainTypeOK ==
  /\ journal \in [Gateways -> [Ops -> Entries]]
  /\ \A g \in Gateways : work[g].op \in 0..MaxOps /\ work[g].token \in 0..MaxTokens
  /\ mcf.open \in Invoices \cup {None} /\ \A n \in 1..Counter : mcf.book[n] \in Invoices
  /\ shop \in [active : Gateways, at : Gateways, revoked : SUBSET Gateways]
  /\ late \subseteq [gw : Gateways, res : Results]

\* An invoice is registered at most once by the MCF, over crashes, lost answers, attempts
\* and the replacement of the station.
OneRegistration == \A i \in Invoices : Cardinality(Registered(i)) <= 1

\* fiscalize.py: "the invoice is CERTAINLY not normalized": when ERPNext accepts a rejection,
\* possibly late, after a crash or from a station replaced since, the invoice is not registered.
ProvenRejection ==
  [][\A o \in Ops : status[o] # "Rejected" /\ status'[o] = "Rejected" => Registered(Inv(o)) = {}]_chain

\* fiscalize.py: the reconciliation "is conclusive because the gateway (and the ERPNext barrier)
\* never start another invoice while an operation of the same MCF is uncertain".
LocalBarrier ==
  \A g \in Gateways, p \in Ops :
    journal[g][p].state = "UNCERTAIN" /\ work[g].step \in {"open", "opened", "final"} => work[g].op = p

\* With honest stations no result is ever contested: no dispute, which would stop the MCF.
NoDispute == \A o \in Created : status[o] # "Dispute"

\* The active gateway always has the right to report what its journal keeps: a refusal (403)
\* would stop its cycle before any lease, for ever.
ReportsWelcome ==
  \A o \in Undelivered(shop.active) : MayReport(shop.active, o)

\* Whatever happens to calls, stations and results, every operation is settled in the end:
\* the barrier never stays closed.
QueueDrains == <>[](In(Ops, Waiting) = {})

\* The chain implements Normalization: one registration, and the very code of this registration
\* ends on the invoice.
Abstract == INSTANCE Normalization WITH
  Codes  <- Sigs,
  issued <- [i \in Invoices |-> Registered(i)],
  stamp  <- [i \in Invoices |-> IF invoice[i].status = "Normalized" THEN invoice[i].sig ELSE None]

ImplementsNormalization == Abstract!Spec
===============================================================================
