----------------------------- MODULE McfChain_proofs -----------------------------
(***************************************************************************)
(* Theorems about McfChain, for every value of its constants.              *)
(***************************************************************************)
EXTENDS McfChain, FiscalOperations_proofs, FiniteSetTheorems

TheMcf == CHOOSE d \in Devices :
            (\A g \in Gateways : DeviceOfGateway[g] = d) /\ (\A i \in Invoices : DeviceOfInvoice[i] = d)

Steps == {"idle", "leased", "prepare", "open", "opened", "final", "answered", "check", "post", "next"}

(* What the process of a gateway may be doing: it works on an operation except between two, *)
(* and knows the counter of a registration that was answered.                               *)
Works ==
  {w \in [op : 0..MaxOps, kind : {"None", "CHECK", "NORMALIZE"}, token : 0..MaxTokens,
          step : Steps, code : 0..MaxTC] :
     /\ w.op = 0 <=> w.step \in {"idle", "next"}
     /\ w.step = "answered" => w.code # 0}

(* A concluded operation has a result. *)
Journals ==
  [Gateways -> [Ops -> {e \in Entries : e.state \in {"DONE", "REJECTED", "UNCERTAIN"} => e.res # NoRes}]]

Types ==
  /\ TypeOK
  /\ journal \in Journals
  /\ work \in [Gateways -> Works]
  /\ mcf \in [open : Invoices \cup {None}, book : Seq(Invoices)] /\ Len(mcf.book) <= MaxTC
  /\ shop \in [active : Gateways, at : Gateways, revoked : SUBSET Gateways]
  /\ late \subseteq [gw : Gateways, res : Results]

IsBusy(o) == status[o] \in Busy

(* The rows of the queue, of which one at most may be on the MCF. *)
RowsOk ==
  /\ reading = {} /\ judging = {} /\ \A d \in Devices : leasing[d] = NoGrant
  /\ \A o \in Created : doc[o].kind = "NORMALIZE" /\ Inv(o) \in Invoices /\ doc[o].dev = TheMcf
  /\ \A o \in Created : status[o] \in Waiting \cup Closed
  /\ \A o \in Created : status[o] \in Waiting => invoice[Inv(o)].status # "Normalized"

OneBusy == \A o, p \in Ops : IsBusy(o) /\ IsBusy(p) => o = p

(* What the MCF registered is on the invoice, or it is its last registration and the     *)
(* operation of this invoice is the busy one.                                            *)
Known(i) ==
  /\ invoice[i].status = "Normalized" => Registered(i) = {invoice[i].sig}
  /\ invoice[i].status # "Normalized" =>
       \/ Registered(i) = {}
       \/ Registered(i) = {Counter} /\ \E o \in Ops : IsBusy(o) /\ Inv(o) = i

LastTc == device[TheMcf].lastTc

CounterOk ==
  /\ LastTc <= Counter
  /\ \A o \in Ops : IsBusy(o) /\ Registered(Inv(o)) # {} => LastTc < Counter

(* The stations: the MCF is on the Active one or on one revoked; the others never ran. *)
Unused(g) ==
  /\ \A o \in Ops : journal[g][o] = NoEntry
  /\ work[g] = NoWork
  /\ \A x \in late : x.gw # g

Shops ==
  /\ shop.active \notin shop.revoked
  /\ shop.at \in shop.revoked \cup {shop.active}
  /\ \A g \in Gateways : g \notin shop.revoked \cup {shop.at} => Unused(g)
  /\ \A o \in Ops : IsBusy(o) =>
       lease[o].token \in 1..nTokens /\ lease[o].gw \in shop.revoked \cup {shop.active}

(* A registration of an operation still leased for execution is the work of the station *)
(* that has the MCF, which remembers it.                                                *)
Handed1 ==
  \A o \in Ops : status[o] = "Leased" /\ Registered(Inv(o)) # {} =>
    \/ lease[o].gw # shop.active
    \/ shop.active = shop.at /\ journal[shop.at][o].state # "None"

(* Registration n is the one of operation o, which awaits it or has taken it. *)
Settles(o, n) ==
  /\ n \in 1..Counter /\ Registered(Inv(o)) = {n}
  /\ IsBusy(o) \/ (status[o] = "Normalized" /\ result[o].sig = n)

OpenStates == {"RECEIVED", "OPENING", "FINALIZING", "UNCERTAIN"}

Current(o, t) == IsBusy(o) /\ t = lease[o].token

(* An entry of the journal of the station g that has the MCF. *)
EntryOk(g, o) ==
  LET e == journal[g][o] IN
  /\ e.state # "None" => status[o] \in Busy \cup Closed
  /\ e.state \in OpenStates => IsBusy(o)
  /\ e.state = "DONE" => e.res = Normalized(o, e.res.sig) /\ Settles(o, e.res.sig)
  /\ e.state = "REJECTED" =>
       /\ e.res.op = o /\ e.res.outcome = "rejected" /\ e.res.token <= nTokens
       /\ Current(o, e.res.token) => Registered(Inv(o)) = {} /\ ~e.delivered
  /\ e.state = "UNCERTAIN" => e.res.op = o /\ e.res.outcome = "uncertain"
  /\ e.token <= nTokens

(* Station g works on what it holds. *)
Mine(g) ==
  \A o \in Ops :
    /\ journal[g][o].state # "None" \/ work[g].op = o
    /\ IsBusy(o) /\ (shop.active = g \/ status[o] = "Leased")
    => lease[o].gw = g

WorkHolds(g) ==
  LET w == work[g] IN
  /\ w.token <= nTokens
  /\ w.op # 0 => status[w.op] \in Busy \cup Closed
  /\ w.step # "idle" =>
       /\ Undelivered(g) \subseteq {w.op}
       /\ \A o \in Open(g) : o # w.op => journal[g][o].state = "UNCERTAIN"

(* What the journal and the MCF hold at each step of the work of station g. *)
StepOk(g) ==
  LET w == work[g]
      e == journal[g][w.op]
  IN
  /\ w.step = "leased" =>
       /\ Undelivered(g) = {}
       /\ IsBusy(w.op) \/ e.state = "DONE"
       /\ e.state \in {"None", "UNCERTAIN", "DONE", "REJECTED"}
       /\ w.kind = "NORMALIZE" /\ e.state = "None" => Registered(Inv(w.op)) = {}
  /\ w.step = "prepare" => e.state = "RECEIVED"
  /\ w.step \in {"open", "opened"} => e.state = "OPENING"
  /\ w.step \in {"final", "answered"} => e.state = "FINALIZING"
  /\ w.step \in {"prepare", "open", "opened", "final"} => Registered(Inv(w.op)) = {}
  /\ w.step = "answered" => w.code = Counter /\ Registered(Inv(w.op)) = {Counter}
  /\ w.step = "check" => e.state \in {"OPENING", "FINALIZING", "UNCERTAIN"}
  /\ w.step = "post" => e.state \in {"DONE", "REJECTED", "UNCERTAIN"}

(* A result of station g on its way. *)
LateOk(g) ==
  \A x \in late : x.gw = g =>
    LET o == x.res.op
        e == journal[g][o]
    IN
    /\ e.state # "None"
    /\ x.res.outcome = "normalized" => e.state = "DONE" /\ x.res = e.res
    /\ x.res.outcome = "rejected" =>
         /\ x.res.token <= nTokens
         /\ Current(o, x.res.token) => e.state = "REJECTED" /\ e.res.token = x.res.token

Station(g) == (\A o \in Ops : EntryOk(g, o)) /\ Mine(g) /\ WorkHolds(g) /\ StepOk(g) /\ LateOk(g)

BarrierAt(g) ==
  \A p \in Ops :
    journal[g][p].state = "UNCERTAIN" /\ work[g].step \in {"open", "opened", "final"} => work[g].op = p

IInv ==
  /\ Types /\ Quiet /\ WaitingIsNewest /\ RowsOk /\ OneBusy
  /\ \A i \in Invoices : Known(i)
  /\ CounterOk /\ Shops /\ Handed1
  /\ \A g \in Gateways : Plugged(g) => Station(g)
  /\ \A g \in Gateways : BarrierAt(g)

----
(* The constants *)

LEMMA OneMcf ==
  /\ TheMcf \in Devices
  /\ \A g \in Gateways : DeviceOfGateway[g] = TheMcf
  /\ \A i \in Invoices : DeviceOfInvoice[i] = TheMcf
BY ChainAssumption DEF TheMcf

LEMMA Numbers ==
  /\ Ops \subseteq Nat \ {0} /\ MaxOps \in Nat /\ MaxTokens \in Nat /\ MaxTC \in Nat
  /\ 1..MaxTC \subseteq Sigs
  /\ None \notin Invoices /\ None \notin Nat /\ None \notin Gateways
BY ConstantsAssumption, ChainAssumption DEF Ops

LEMMA NoWindows == WholeLeases /\ Windows = {}
BY ChainAssumption DEF WholeLeases

LEMMA BusyNames ==
  /\ Busy = {"Leased", "Checking", "Uncertain"}
  /\ Waiting = {"Queued", "Leased", "Checking", "Uncertain"}
  /\ Closed = {"Normalized", "Rejected", "Cancelled"}
  /\ Held = {"Leased", "Checking"}
BY DEF Busy, Waiting, Closed, Held

(* Only created operations have a status. *)
LEMMA BusyCreated ==
  ASSUME Quiet, NEW o \in Ops, status[o] \in Waiting \cup Closed
  PROVE  o \in Created
BY BusyNames DEF Quiet

LEMMA ResultRecords ==
  /\ \A o \in Ops, c \in 1..MaxTC : Normalized(o, c) \in Results
  /\ \A o \in Ops, t \in 0..MaxTokens, again \in BOOLEAN : Rejected(o, t, again) \in Results
  /\ \A o \in Ops, t \in 0..MaxTokens : Uncertain(o, t) \in Results
<1>1. ASSUME NEW o \in Ops, NEW c \in 1..MaxTC PROVE Normalized(o, c) \in NormalizedResults
  BY Numbers DEF Normalized, NormalizedResults
<1>2. ASSUME NEW o \in Ops, NEW t \in 0..MaxTokens, NEW again \in BOOLEAN
      PROVE  Rejected(o, t, again) \in RejectedResults
  BY DEF Rejected, RejectedResults
<1>3. ASSUME NEW o \in Ops, NEW t \in 0..MaxTokens PROVE Uncertain(o, t) \in UncertainResults
  BY DEF Uncertain, UncertainResults
<1> QED BY <1>1, <1>2, <1>3 DEF Results

LEMMA ResultsAreNot == \A r \in Results : r # NoRes /\ r.outcome \in {"normalized", "rejected", "uncertain"}
<1>1. NoRes.outcome = "None"
  BY DEF NoRes
<1>2. \A r \in Results : r.outcome \in {"normalized", "rejected", "uncertain"}
  BY DEF Results, NormalizedResults, RejectedResults, UncertainResults
<1> QED BY <1>1, <1>2

----
(* The journal and the work of a station *)

EntryRows == {e \in Entries : e.state \in {"DONE", "REJECTED", "UNCERTAIN"} => e.res # NoRes}

(* Station g writes entry e of operation o. *)
Wrote(g, o, e) ==
  /\ journal' \in Journals
  /\ journal'[g][o] = e
  /\ \A p \in Ops : p # o => journal'[g][p] = journal[g][p]
  /\ \A h \in Gateways : h # g => journal'[h] = journal[h]

(* Station g goes to step s of its work. *)
Moves(g, s) ==
  /\ work' \in [Gateways -> Works]
  /\ work'[g].step = s /\ work'[g].op = work[g].op /\ work'[g].kind = work[g].kind
  /\ work'[g].token = work[g].token
  /\ \A h \in Gateways : h # g => work'[h] = work[h]

(* The entry that concludes an operation. *)
Concluded(e, t, s, r) ==
  [state |-> s, token |-> IF e.state = "None" THEN t ELSE e.token, res |-> r, delivered |-> FALSE]

States == {"None", "RECEIVED", "OPENING", "FINALIZING", "DONE", "REJECTED", "UNCERTAIN"}

LEMMA EntryFields ==
  ASSUME Types, NEW g \in Gateways, NEW o \in Ops
  PROVE  /\ journal[g][o] \in Entries /\ journal[g][o] \in EntryRows
         /\ journal[g][o].state \in States /\ journal[g][o].token \in 0..MaxTokens
         /\ journal[g][o].res \in Results \cup {NoRes} /\ journal[g][o].delivered \in BOOLEAN
         /\ journal[g][o].state \in {"DONE", "REJECTED", "UNCERTAIN"} => journal[g][o].res \in Results
<1>1. journal[g][o] \in EntryRows
  BY DEF Types, Journals, EntryRows
<1> QED BY <1>1 DEF EntryRows, Entries, States

LEMMA WorkFields ==
  ASSUME Types, NEW g \in Gateways
  PROVE  /\ work[g] \in Works /\ work[g].op \in 0..MaxOps /\ work[g].token \in 0..MaxTokens
         /\ work[g].step \in Steps /\ work[g].kind \in {"None", "CHECK", "NORMALIZE"}
         /\ work[g].code \in 0..MaxTC
         /\ work[g].op = 0 <=> work[g].step \in {"idle", "next"}
         /\ work[g].op # 0 => work[g].op \in Ops
         /\ work[g].step = "answered" => work[g].code \in 1..MaxTC
<1>1. work[g] \in Works
  BY DEF Types
<1> QED BY <1>1, Numbers DEF Works, Ops

LEMMA Wrote1 ==
  ASSUME Types, NEW g \in Gateways, NEW o \in Ops, NEW e \in EntryRows,
         journal' = [journal EXCEPT ![g][o] = e]
  PROVE  Wrote(g, o, e)
<1>1. journal \in Journals
  BY DEF Types
<1> QED BY <1>1 DEF Wrote, Journals, EntryRows

LEMMA EntriesEqual ==
  ASSUME NEW e \in Entries, NEW f \in Entries, e.state = f.state, e.token = f.token,
         e.res = f.res, e.delivered = f.delivered
  PROVE  e = f
BY DEF Entries

LEMMA ConcludeWrites ==
  ASSUME Types, NEW g \in Gateways, NEW o \in Ops, NEW t \in 0..MaxTokens, NEW s \in States,
         NEW r \in Results, Conclude(g, o, t, s, r)
  PROVE  Wrote(g, o, Concluded(journal[g][o], t, s, r))
<1> DEFINE e == journal[g][o]
           f == [KeepsToken(e, t) EXCEPT !.state = s, !.res = r, !.delivered = FALSE]
<1>1. e \in Entries
  BY EntryFields
<1>2. f = Concluded(e, t, s, r)
  <2> DEFINE k == KeepsToken(e, t)
             n == IF e.state = "None" THEN t ELSE e.token
             c == [state |-> s, token |-> n, res |-> r, delivered |-> FALSE]
  <2>1. k \in Entries /\ k.token = n
    BY <1>1 DEF Entries, KeepsToken
  <2>2. c \in Entries /\ c.state = s /\ c.token = n /\ c.res = r /\ c.delivered = FALSE
    BY <1>1 DEF Entries, States
  <2>3. f \in Entries /\ f.state = s /\ f.token = n /\ f.res = r /\ f.delivered = FALSE
    <3> HIDE DEF n, c
    <3> QED BY <2>1 DEF Entries, States
  <2> HIDE DEF f, c, n
  <2>4. f = c
    BY <2>2, <2>3, EntriesEqual
  <2> QED BY <2>4 DEF Concluded, c, n
<1>3. Concluded(e, t, s, r) \in EntryRows
  BY <1>1, ResultsAreNot DEF Entries, EntryRows, Concluded, States
<1>4. journal' = [journal EXCEPT ![g][o] = f]
  BY DEF Conclude, Types, Journals
<1> QED BY <1>2, <1>3, <1>4, Wrote1

LEMMA SetStateWrites ==
  ASSUME Types, NEW g \in Gateways, NEW o \in Ops, NEW s \in {"OPENING", "FINALIZING"}, SetState(g, o, s)
  PROVE  Wrote(g, o, [journal[g][o] EXCEPT !.state = s])
<1> DEFINE e == [journal[g][o] EXCEPT !.state = s]
<1>1. e \in EntryRows
  BY EntryFields DEF Entries, EntryRows
<1>2. journal' = [journal EXCEPT ![g][o] = e]
  BY DEF SetState, Types, Journals
<1> QED BY <1>1, <1>2, Wrote1

LEMMA GotoMoves ==
  ASSUME Types, NEW g \in Gateways, work[g].op # 0, NEW s \in Steps \ {"idle", "next", "answered"},
         Goto(g, s)
  PROVE  Moves(g, s)
<1> DEFINE w == [work[g] EXCEPT !.step = s]
<1>1. work[g] \in Works
  BY WorkFields
<1>2. w \in Works
  BY <1>1 DEF Works
<1>3. work' = [work EXCEPT ![g] = w]
  BY DEF Goto, Types
<1>4. work'[g] = w /\ \A h \in Gateways : h # g => work'[h] = work[h]
  BY <1>3 DEF Types
<1>5. w.step = s /\ w.op = work[g].op /\ w.kind = work[g].kind /\ w.token = work[g].token
  BY <1>1 DEF Works
<1>6. work' \in [Gateways -> Works]
  BY <1>2, <1>3 DEF Types
<1> QED BY <1>4, <1>5, <1>6 DEF Moves

----
(***************************************************************************)
(* The steps of a station between two calls to ERPNext.                    *)
(***************************************************************************)

(* Only what station g does, and the MCF, may change. *)
Own(g) ==
  /\ UNCHANGED <<erp, shop, late>>
  /\ journal' \in Journals /\ work' \in [Gateways -> Works]
  /\ \A h \in Gateways : h # g => journal'[h] = journal[h] /\ work'[h] = work[h]
  /\ mcf' \in [open : Invoices \cup {None}, book : Seq(Invoices)] /\ Len(mcf'.book) <= MaxTC

SameBook == mcf'.book = mcf.book

SameErp ==
  /\ UNCHANGED <<status, doc, lease, result, nOps, nTokens, invoice, device,
                 reading, leasing, judging>>

LEMMA OwnSame == ASSUME NEW g, Own(g) PROVE SameErp /\ shop' = shop /\ late' = late
BY DEF Own, SameErp, erp, queue, windows

LEMMA BookSame ==
  ASSUME SameBook
  PROVE  Counter' = Counter /\ \A i : Registered(i)' = Registered(i)
BY DEF SameBook, Counter, Registered

(* The registrations: a new one concerns invoice i only, which had none. *)
OnlyFor(i) ==
  /\ Counter \in Nat /\ Counter' \in Nat /\ Counter <= Counter'
  /\ \A j \in Invoices : Registered(j)' = Registered(j) \/ (j = i /\ Registered(i) = {})

LEMMA CounterIsNat ==
  ASSUME Types
  PROVE  /\ Counter \in 0..MaxTC /\ mcf.book \in Seq(Invoices) /\ mcf.open \in Invoices \cup {None}
         /\ \A i : Registered(i) \subseteq 1..Counter
BY Numbers DEF Types, Counter, Registered

LEMMA SameBookOnlyFor ==
  ASSUME Types, SameBook, NEW i
  PROVE  OnlyFor(i)
BY BookSame, CounterIsNat DEF OnlyFor

LEMMA InvOfOp ==
  ASSUME RowsOk, Quiet, NEW o \in Ops, status[o] \in Waiting \cup Closed
  PROVE  Inv(o) \in Invoices /\ o \in Created
BY BusyCreated DEF RowsOk

(* What the verdict on operation o, under token t, writes in a journal. *)
Verdict(o, t, s, r) ==
  \/ s = "DONE" /\ r = Normalized(o, Counter) /\ Registered(Inv(o)) = {Counter}
  \/ s = "REJECTED" /\ (\E again \in BOOLEAN : r = Rejected(o, t, again)) /\ Registered(Inv(o)) = {}
  \/ s = "UNCERTAIN" /\ r = Uncertain(o, t)

ResultsOk(g) == (\A o \in Ops : EntryOk(g, o)) /\ LateOk(g)

(* No rejection under its present lease is recorded for operation o. *)
NoProof(g, o) ==
  ~(journal[g][o].state = "REJECTED" /\ Current(o, journal[g][o].res.token))

LEMMA SettlesKept ==
  ASSUME SameErp, RowsOk, Quiet, NEW q \in Ops, OnlyFor(Inv(q)), NEW p \in Ops, NEW n, Settles(p, n)
  PROVE  Settles(p, n)'
<1>1. status[p] \in Waiting \cup Closed
  BY BusyNames DEF Settles, IsBusy
<1>2. Inv(p) \in Invoices
  BY <1>1, InvOfOp
<1>3. Registered(Inv(p)) = {n} /\ n \in 1..Counter
  BY DEF Settles
<1>4. Registered(Inv(p))' = {n} /\ n \in 1..Counter'
  <2>1. Registered(Inv(p)) # {}
    BY <1>3
  <2>2. Registered(Inv(p))' = Registered(Inv(p))
    <3>1. Inv(p)' = Inv(p)
      BY DEF SameErp, Inv
    <3>2. Registered(Inv(p))' = Registered(Inv(p)) \/ (Inv(p) = Inv(q) /\ Registered(Inv(q)) = {})
      BY <1>2, <3>1 DEF OnlyFor, Inv, SameErp
    <3> QED BY <2>1, <3>2
  <2>3. Counter \in Nat /\ Counter' \in Nat /\ Counter <= Counter'
    BY DEF OnlyFor
  <2> QED BY <1>3, <2>2, <2>3
<1>5. IsBusy(p)' <=> IsBusy(p)
  BY DEF SameErp, IsBusy
<1>6. status'[p] = status[p] /\ result'[p] = result[p]
  BY DEF SameErp
<1> QED BY <1>4, <1>5, <1>6 DEF Settles

(* Other operations than the busy one: nothing written or registered for it touches them. *)
LEMMA OthersKept ==
  ASSUME IInv, SameErp, NEW g \in Gateways, Plugged(g), NEW o \in Ops, IsBusy(o), OnlyFor(Inv(o)),
         NEW p \in Ops, p # o, journal'[g][p] = journal[g][p]
  PROVE  EntryOk(g, p)'
<1>1. EntryOk(g, p) /\ ~IsBusy(p)
  BY DEF IInv, Station, OneBusy
<1>2. ~IsBusy(p)' /\ ~(\E t : Current(p, t)')
  BY <1>1 DEF SameErp, IsBusy, Current
<1>0. PICK e \in Entries : e = journal[g][p]
  BY EntryFields DEF IInv
<1>3. e.state = "DONE" => e.res = Normalized(p, e.res.sig) /\ Settles(p, e.res.sig)'
  <2>1. e.state = "DONE" => e.res = Normalized(p, e.res.sig) /\ Settles(p, e.res.sig)
    BY <1>0, <1>1 DEF EntryOk
  <2> QED BY <2>1, SettlesKept DEF IInv
<1>4. status' = status /\ nTokens' = nTokens
  BY DEF SameErp
<1>5. /\ e.state # "None" => status[p] \in Busy \cup Closed
      /\ e.state \notin OpenStates
      /\ e.state = "REJECTED" => e.res.op = p /\ e.res.outcome = "rejected" /\ e.res.token <= nTokens
      /\ e.token <= nTokens
  BY <1>0, <1>1 DEF EntryOk
<1>6. e.state # "UNCERTAIN"
  BY <1>5 DEF OpenStates
<1>7. journal'[g][p] = e
  BY <1>0
<1> QED BY <1>2, <1>3, <1>4, <1>5, <1>6, <1>7 DEF EntryOk, Normalized

LEMMA LateFields ==
  ASSUME Types, NEW x \in late
  PROVE  /\ x.gw \in Gateways /\ x.res \in Results /\ x.res.op \in Ops
         /\ x.res.outcome \in {"normalized", "rejected", "uncertain"}
<1>1. x.gw \in Gateways /\ x.res \in Results
  BY DEF Types
<1> QED BY <1>1, ResultFields, ResultsAreNot

(* A late result of g is not about an entry that was neither DONE nor a present proof. *)
LEMMA LateKept ==
  ASSUME IInv, SameErp, late' = late, NEW g \in Gateways, Plugged(g), NEW o \in Ops,
         journal[g][o].state # "DONE", NoProof(g, o), journal'[g][o].state # "None",
         \A p \in Ops : p # o => journal'[g][p] = journal[g][p]
  PROVE  LateOk(g)'
<1>1. LateOk(g) /\ Types
  BY DEF IInv, Station
<1>2. ASSUME NEW x \in late, x.gw = g
      PROVE  /\ journal'[g][x.res.op].state # "None"
             /\ x.res.outcome = "normalized" =>
                  journal'[g][x.res.op].state = "DONE" /\ x.res = journal'[g][x.res.op].res
             /\ x.res.outcome = "rejected" =>
                  /\ x.res.token <= nTokens
                  /\ Current(x.res.op, x.res.token) =>
                       /\ journal'[g][x.res.op].state = "REJECTED"
                       /\ journal'[g][x.res.op].res.token = x.res.token
  <2>1. x.res.op \in Ops
    BY <1>1, LateFields
  <2>2. /\ journal[g][x.res.op].state # "None"
        /\ x.res.outcome = "normalized" =>
             journal[g][x.res.op].state = "DONE" /\ x.res = journal[g][x.res.op].res
        /\ x.res.outcome = "rejected" =>
             /\ x.res.token <= nTokens
             /\ Current(x.res.op, x.res.token) =>
                  /\ journal[g][x.res.op].state = "REJECTED"
                  /\ journal[g][x.res.op].res.token = x.res.token
    BY <1>1, <1>2 DEF LateOk
  <2>3. CASE x.res.op # o
    BY <2>1, <2>2, <2>3
  <2>4. CASE x.res.op = o
    BY <2>2, <2>4 DEF NoProof
  <2> QED BY <2>3, <2>4
<1>3. nTokens' = nTokens /\ \A p, t : Current(p, t)' = Current(p, t)
  BY DEF SameErp, Current, IsBusy
<1> QED BY <1>2, <1>3 DEF LateOk

LEMMA Concluding ==
  ASSUME IInv, SameErp, late' = late, NEW g \in Gateways, Plugged(g), NEW o \in Ops,
         IsBusy(o), OnlyFor(Inv(o)), journal[g][o].state # "DONE", NoProof(g, o),
         NEW t \in 0..MaxTokens, t <= nTokens, NEW s \in States, NEW r \in Results,
         Verdict(o, t, s, r)', Wrote(g, o, Concluded(journal[g][o], t, s, r))
  PROVE  ResultsOk(g)'
<1>0. PICK f : f = Concluded(journal[g][o], t, s, r)
  OBVIOUS
<1>1. /\ f.state = s /\ f.res = r /\ f.delivered = FALSE /\ f.token <= nTokens
      /\ journal'[g][o] = f /\ \A p \in Ops : p # o => journal'[g][p] = journal[g][p]
  <2>1. journal[g][o].token <= nTokens
    BY DEF IInv, Station, EntryOk
  <2> QED BY <1>0, <2>1 DEF Concluded, Wrote
<1>2. s \in {"DONE", "REJECTED", "UNCERTAIN"}
  BY DEF Verdict
<1>3. \A p \in Ops : p # o => EntryOk(g, p)'
  BY <1>1, OthersKept
<1>4. LateOk(g)'
  BY <1>1, <1>2, LateKept
<1>5. IsBusy(o)' /\ status'[o] \in Busy /\ Inv(o)' = Inv(o) /\ nTokens' = nTokens
  BY DEF SameErp, IsBusy, Inv
<1>6. ASSUME s = "DONE" PROVE f.res = Normalized(o, f.res.sig) /\ Settles(o, f.res.sig)'
  <2>1. PICK n : n = Counter'
    OBVIOUS
  <2>2. r = Normalized(o, n) /\ Registered(Inv(o))' = {n}
    BY <1>6, <2>1 DEF Verdict, Normalized
  <2>3. r.sig = n
    BY <2>2 DEF Normalized
  <2>4. n \in 1..Counter'
    BY <2>2 DEF Registered
  <2>5. Settles(o, n)'
    BY <1>5, <2>2, <2>4 DEF Settles
  <2> QED BY <1>1, <2>2, <2>3, <2>5
<1>7. ASSUME s = "REJECTED"
      PROVE  /\ f.res.op = o /\ f.res.outcome = "rejected" /\ f.res.token <= nTokens
             /\ Registered(Inv(o))' = {}
  <2>1. PICK again \in BOOLEAN : r = Rejected(o, t, again)
    BY <1>7 DEF Verdict
  <2>2. Registered(Inv(o))' = {}
    BY <1>7 DEF Verdict
  <2> QED BY <1>1, <2>1, <2>2 DEF Rejected
<1>8. s = "UNCERTAIN" => f.res.op = o /\ f.res.outcome = "uncertain"
  BY <1>1 DEF Verdict, Uncertain
<1>9. EntryOk(g, o)'
  <2>1. PICK n : n = f.res.sig
    OBVIOUS
  <2>2. s = "DONE" => f.res = Normalized(o, n) /\ Settles(o, n)'
    BY <1>6, <2>1
  <2> QED BY <1>1, <1>5, <1>7, <1>8, <2>1, <2>2 DEF EntryOk, Normalized
<1> QED BY <1>3, <1>4, <1>9 DEF ResultsOk

(* An entry that goes on, or is given another token. *)
LEMMA GoingOn ==
  ASSUME IInv, SameErp, late' = late, NEW g \in Gateways, Plugged(g), NEW o \in Ops, NEW f,
         Wrote(g, o, f), OnlyFor(Inv(o)), IsBusy(o), f.token <= nTokens,
         journal[g][o].state \notin {"DONE", "REJECTED"},
         f.state \in {"RECEIVED", "OPENING", "FINALIZING"}
  PROVE  ResultsOk(g)'
<1>1. journal'[g][o] = f /\ \A p \in Ops : p # o => journal'[g][p] = journal[g][p]
  BY DEF Wrote
<1>2. \A p \in Ops : p # o => EntryOk(g, p)'
  BY <1>1, OthersKept
<1>3. LateOk(g)'
  BY <1>1, LateKept DEF NoProof
<1>4. IsBusy(o)' /\ status'[o] \in Busy /\ nTokens' = nTokens
  BY DEF SameErp, IsBusy
<1>5. EntryOk(g, o)'
  BY <1>1, <1>4 DEF EntryOk, OpenStates
<1> QED BY <1>2, <1>3, <1>5 DEF ResultsOk

(* Entries left as they are, or given another token. *)
LEMMA SameResults ==
  ASSUME IInv, SameErp, SameBook, late' = late, NEW g \in Gateways, Plugged(g),
         \A p \in Ops :
           /\ journal'[g][p].state = journal[g][p].state /\ journal'[g][p].res = journal[g][p].res
           /\ journal'[g][p].delivered = journal[g][p].delivered /\ journal'[g][p].token <= nTokens
  PROVE  ResultsOk(g)'
<1>1. LateOk(g)'
  <2>1. LateOk(g) /\ \A x \in late : x.res.op \in Ops
    BY LateFields DEF IInv, Station
  <2>2. nTokens' = nTokens /\ \A p, t : Current(p, t)' = Current(p, t)
    BY DEF SameErp, Current, IsBusy
  <2> QED BY <2>1, <2>2 DEF LateOk
<1>2. ASSUME NEW p \in Ops PROVE EntryOk(g, p)'
  <2>1. EntryOk(g, p) /\ Types
    BY DEF IInv, Station
  <2>2. Counter' = Counter /\ nTokens' = nTokens /\ status' = status /\ IsBusy(p)' = IsBusy(p)
    BY BookSame DEF SameErp, IsBusy
  <2>3. \A n : Settles(p, n)' = Settles(p, n)
    BY <2>2, BookSame DEF SameErp, Settles, Inv
  <2>4. \A t : Current(p, t)' = Current(p, t)
    BY DEF SameErp, Current, IsBusy
  <2>5. Registered(Inv(p))' = Registered(Inv(p))
    BY BookSame DEF SameErp, Inv
  <2>6. \A n : Normalized(p, n)' = Normalized(p, n)
    BY DEF Normalized
  <2> QED BY <2>1, <2>2, <2>3, <2>4, <2>5, <2>6 DEF EntryOk
<1> QED BY <1>1, <1>2 DEF ResultsOk

----
(* The work of a station *)

(* What station g remembers of an operation, or works on, it did before. *)
LEMMA MineKept ==
  ASSUME SameErp, shop' = shop, NEW g \in Gateways, Mine(g),
         \A o \in Ops :
           journal'[g][o].state # "None" \/ work'[g].op = o =>
             journal[g][o].state # "None" \/ work[g].op = o
  PROVE  Mine(g)'
BY DEF Mine, SameErp, IsBusy

LEMMA HoldsKept ==
  ASSUME IInv, SameErp, NEW g \in Gateways, Plugged(g),
         work[g].step # "idle", work[g].op # 0, work'[g].op = work[g].op,
         work'[g].token = work[g].token,
         \A p \in Ops : p # work[g].op => journal'[g][p] = journal[g][p]
  PROVE  WorkHolds(g)'
<1>1. WorkHolds(g) /\ Types
  BY DEF IInv, Station
<1>2. Undelivered(g)' \subseteq {work[g].op}
  BY <1>1 DEF WorkHolds, Undelivered
<1>3. \A o \in Open(g)' : o # work[g].op => o \in Open(g) /\ journal'[g][o] = journal[g][o]
  BY DEF Open
<1> QED BY <1>1, <1>2, <1>3 DEF WorkHolds, SameErp

LEMMA StationFrom ==
  ASSUME NEW g, ResultsOk(g)', Mine(g)', WorkHolds(g)', StepOk(g)'
  PROVE  Station(g)'
BY DEF ResultsOk, Station

(* A station with nothing to do. *)
LEMMA IdleOk ==
  ASSUME IInv, SameErp, NEW g \in Gateways, Plugged(g), work'[g] = NoWork
  PROVE  WorkHolds(g)' /\ StepOk(g)'
<1>1. work'[g].step = "idle" /\ work'[g].op = 0 /\ work'[g].token = 0 /\ nTokens' \in Nat
  BY Numbers DEF NoWork, IInv, Types, TypeOK, SameErp
<1> QED BY <1>1 DEF WorkHolds, StepOk

(* The outcome of the step of a station: see Own, and what it knows stays true. *)
Kept(g) ==
  /\ Own(g)
  /\ Plugged(g) => Station(g)'
  /\ Plugged(g) \/ BarrierAt(g)'
  /\ \A o \in Ops : journal[g][o].state # "None" => journal'[g][o].state # "None"

(* A step of its work on its operation: what is left to show of it. *)
LEMMA KeptFrom ==
  ASSUME IInv, NEW g \in Gateways, NEW s, Own(g), work[g].op # 0, Moves(g, s),
         \A p \in Ops : p # work[g].op => journal'[g][p] = journal[g][p],
         journal[g][work[g].op].state # "None" => journal'[g][work[g].op].state # "None",
         Plugged(g) => ResultsOk(g)' /\ StepOk(g)',
         Plugged(g) \/ s \notin {"open", "opened", "final"}
           \/ (work[g].step \in {"open", "opened", "final"} /\ journal'[g][work[g].op].state # "UNCERTAIN")
  PROVE  Kept(g)
<1>1. SameErp /\ shop' = shop /\ late' = late
  BY OwnSame
<1>2. work[g].op \in Ops /\ work[g].step # "idle" /\ Types
  BY WorkFields DEF IInv
<1>3. work'[g].op = work[g].op /\ work'[g].token = work[g].token /\ work'[g].step = s
  BY DEF Moves
<1>4. ASSUME Plugged(g) PROVE Station(g)'
  <2>1. Mine(g)'
    BY <1>1, <1>3, <1>4, MineKept DEF IInv, Station
  <2>2. WorkHolds(g)'
    BY <1>1, <1>2, <1>3, <1>4, HoldsKept
  <2> QED BY <1>4, <2>1, <2>2, StationFrom
<1>5. Plugged(g) \/ BarrierAt(g)'
  BY <1>3 DEF BarrierAt, IInv
<1> QED BY <1>2, <1>4, <1>5 DEF Kept

----
(* The actions of a station, each with what it keeps *)

LEMMA McfKept ==
  ASSUME Types, UNCHANGED mcf \/ ClosesOpen
  PROVE  /\ SameBook /\ mcf' \in [open : Invoices \cup {None}, book : Seq(Invoices)]
         /\ Len(mcf'.book) <= MaxTC
<1>1. mcf \in [open : Invoices \cup {None}, book : Seq(Invoices)] /\ Len(mcf.book) <= MaxTC
  BY DEF Types
<1>2. CASE UNCHANGED mcf
  BY <1>1, <1>2 DEF SameBook
<1>3. CASE ClosesOpen
  <2>1. mcf' = [mcf EXCEPT !.open = None]
    BY <1>3 DEF ClosesOpen
  <2>2. mcf' \in [open : Invoices \cup {None}, book : Seq(Invoices)] /\ mcf'.book = mcf.book
    BY <1>1, <2>1
  <2> QED BY <1>1, <2>2 DEF SameBook
<1> QED BY <1>2, <1>3

LEMMA OwnFrom ==
  ASSUME Types, NEW g \in Gateways, UNCHANGED <<erp, shop, late>>,
         UNCHANGED journal \/ \E o \in Ops : \E f : Wrote(g, o, f),
         UNCHANGED work \/ \E s : Moves(g, s),
         mcf' \in [open : Invoices \cup {None}, book : Seq(Invoices)], Len(mcf'.book) <= MaxTC
  PROVE  Own(g)
<1>1. /\ journal' \in Journals
      /\ \A h \in Gateways : h # g => journal'[h] = journal[h]
  BY DEF Types, Wrote
<1>2. /\ work' \in [Gateways -> Works]
      /\ \A h \in Gateways : h # g => work'[h] = work[h]
  BY DEF Types, Moves
<1> QED BY <1>1, <1>2 DEF Own

(* What holds at a station that works on an operation. *)
LEMMA AtStep ==
  ASSUME IInv, NEW g \in Gateways, work[g].step \notin {"idle", "next"}
  PROVE  \E o \in Ops, t \in 0..MaxTokens, e \in EntryRows :
           /\ o = work[g].op /\ t = work[g].token /\ e = journal[g][o] /\ o # 0 /\ Types
           /\ Plugged(g) => StepOk(g) /\ EntryOk(g, o) /\ t <= nTokens /\ e.token <= nTokens
<1>1. Types /\ work[g].op \in Ops /\ work[g].op # 0 /\ work[g].token \in 0..MaxTokens
  BY WorkFields DEF IInv
<1>2. journal[g][work[g].op] \in EntryRows
  BY <1>1, EntryFields
<1>3. Plugged(g) => StepOk(g) /\ EntryOk(g, work[g].op) /\ work[g].token <= nTokens
                    /\ journal[g][work[g].op].token <= nTokens
  BY <1>1 DEF IInv, Station, WorkHolds, EntryOk
<1> QED BY <1>1, <1>2, <1>3

LEMMA ReceiveKept ==
  ASSUME IInv, NEW g \in Gateways, Receive(g)
  PROVE  Kept(g) /\ SameBook
<1>1. /\ work[g].step = "leased" /\ work[g].kind = "NORMALIZE" /\ UNCHANGED <<erp, mcf, shop, late>>
  BY DEF Receive, At
<1>2. PICK o \in Ops, t \in 0..MaxTokens, e \in EntryRows :
           /\ o = work[g].op /\ t = work[g].token /\ e = journal[g][o] /\ o # 0 /\ Types
           /\ Plugged(g) => StepOk(g) /\ EntryOk(g, o) /\ t <= nTokens /\ e.token <= nTokens
  BY <1>1, AtStep
<1>3. PICK f : f = Received(e, t)
  OBVIOUS
<1>4. /\ f \in EntryRows /\ f.token = t /\ f.res = e.res /\ f.delivered = e.delivered
      /\ f.state = IF e.state = "None" THEN "RECEIVED" ELSE e.state
  BY <1>3 DEF Received, EntryRows, Entries
<1>5. Wrote(g, o, f)
  <2>1. journal' = [journal EXCEPT ![g][o] = f]
    BY <1>2, <1>3 DEF Receive
  <2> QED BY <1>2, <1>4, <2>1, Wrote1
<1>6. PICK s \in {"post", "check", "prepare"} :
        /\ Goto(g, s)
        /\ s = "post" => e.state \in {"DONE", "REJECTED"}
        /\ s = "check" => e.state \in {"OPENING", "FINALIZING", "UNCERTAIN"}
        /\ s = "prepare" => e.state \notin {"DONE", "REJECTED", "OPENING", "FINALIZING", "UNCERTAIN"}
  BY <1>2 DEF Receive
<1>7. Moves(g, s)
  BY <1>2, <1>6, GotoMoves DEF Steps
<1>8. SameBook /\ Own(g)
  BY <1>1, <1>2, <1>5, <1>7, McfKept, OwnFrom
<1>9. SameErp /\ shop' = shop /\ late' = late
  BY <1>8, OwnSame
<1>10. journal'[g][o] = f /\ \A p \in Ops : p # o => journal'[g][p] = journal[g][p]
  BY <1>5 DEF Wrote
<1>11. ASSUME Plugged(g) PROVE ResultsOk(g)' /\ StepOk(g)'
  <2>1. /\ IsBusy(o) \/ e.state = "DONE"
        /\ e.state \in {"None", "UNCERTAIN", "DONE", "REJECTED"}
        /\ e.state = "None" => Registered(Inv(o)) = {}
    BY <1>1, <1>2, <1>11 DEF StepOk
  <2>2. ResultsOk(g)'
    <3>1. CASE e.state = "None"
      <4>1. f.state = "RECEIVED" /\ f.token <= nTokens /\ IsBusy(o)
        BY <1>2, <1>4, <1>11, <2>1, <3>1
      <4>2. OnlyFor(Inv(o))
        BY <1>2, <1>8, SameBookOnlyFor
      <4> QED BY <1>2, <1>5, <1>9, <1>11, <3>1, <4>1, <4>2, GoingOn
    <3>2. CASE e.state # "None"
      <4>1. f.token <= nTokens /\ f.state = e.state
        BY <1>2, <1>4, <1>11, <3>2
      <4>2. \A p \in Ops : journal[g][p].token <= nTokens
        BY <1>11 DEF IInv, Station, EntryOk
      <4> QED BY <1>2, <1>4, <1>8, <1>9, <1>10, <1>11, <4>1, <4>2, SameResults
    <3> QED BY <3>1, <3>2
  <2>3. StepOk(g)'
    <3>1. work'[g].step = s /\ work'[g].op = o
      BY <1>2, <1>7 DEF Moves
    <3>2. Registered(Inv(o))' = Registered(Inv(o))
      BY <1>8, <1>9, BookSame DEF SameErp, Inv
    <3>3. s = "prepare" => e.state = "None"
      BY <1>6, <2>1
    <3> QED BY <1>4, <1>6, <1>10, <2>1, <3>1, <3>2, <3>3 DEF StepOk
  <2> QED BY <2>2, <2>3
<1>12. journal'[g][o].state # "None" /\ s \notin {"open", "opened", "final"}
  BY <1>4, <1>6, <1>10
<1> QED BY <1>2, <1>7, <1>8, <1>10, <1>11, <1>12, KeptFrom

LEMMA LastKnown ==
  ASSUME IInv, NEW o \in Ops, IsBusy(o)
  PROVE  /\ LastIs(Inv(o)) => Registered(Inv(o)) = {Counter} /\ Counter \in 1..MaxTC
         /\ ~LastIs(Inv(o)) => Registered(Inv(o)) = {}
<1>1. Inv(o) \in Invoices /\ o \in Created
  BY InvOfOp, BusyNames DEF IInv, IsBusy
<1>2. invoice[Inv(o)].status # "Normalized"
  BY <1>1, BusyNames DEF IInv, RowsOk, IsBusy
<1>3. Registered(Inv(o)) = {} \/ Registered(Inv(o)) = {Counter}
  BY <1>1, <1>2 DEF IInv, Known
<1>4. Counter \in 0..MaxTC
  BY CounterIsNat DEF IInv
<1>5. LastIs(Inv(o)) => Counter \in Registered(Inv(o)) /\ Counter \in 1..MaxTC
  BY <1>4, Numbers DEF LastIs, Registered
<1>6. Counter \in Registered(Inv(o)) => LastIs(Inv(o))
  BY <1>4 DEF LastIs, Registered
<1> QED BY <1>3, <1>5, <1>6

(* What a check of operation o concludes. *)
LEMMA CheckConcludes ==
  ASSUME IInv, NEW g \in Gateways, NEW o \in Ops, NEW t \in 0..MaxTokens, Check(g, o, t),
         Plugged(g) => IsBusy(o)
  PROVE  /\ SameBook /\ mcf' \in [open : Invoices \cup {None}, book : Seq(Invoices)]
         /\ Len(mcf'.book) <= MaxTC
         /\ \E s \in {"DONE", "REJECTED", "UNCERTAIN"}, r \in Results :
              Conclude(g, o, t, s, r) /\ (Plugged(g) => Verdict(o, t, s, r))
<1>0. Types
  BY DEF IInv
<1>1. UNCHANGED mcf \/ ClosesOpen
  BY DEF Check, CancelQuietly
<1>2. \/ Conclude(g, o, t, "UNCERTAIN", Uncertain(o, t))
      \/ Plugged(g) /\ LastIs(Inv(o)) /\ Conclude(g, o, t, "DONE", Normalized(o, Counter))
      \/ Plugged(g) /\ ~LastIs(Inv(o)) /\ Conclude(g, o, t, "REJECTED", Rejected(o, t, TRUE))
  BY DEF Check
<1>3. CASE Conclude(g, o, t, "UNCERTAIN", Uncertain(o, t))
  BY <1>0, <1>1, <1>3, McfKept, ResultRecords DEF Verdict
<1>4. CASE Plugged(g) /\ LastIs(Inv(o)) /\ Conclude(g, o, t, "DONE", Normalized(o, Counter))
  <2>1. Registered(Inv(o)) = {Counter} /\ Counter \in 1..MaxTC
    BY <1>4, LastKnown
  <2>2. Normalized(o, Counter) \in Results
    BY <2>1, ResultRecords
  <2> QED BY <1>0, <1>1, <1>4, <2>1, <2>2, McfKept DEF Verdict
<1>5. CASE Plugged(g) /\ ~LastIs(Inv(o)) /\ Conclude(g, o, t, "REJECTED", Rejected(o, t, TRUE))
  <2>1. Registered(Inv(o)) = {}
    BY <1>5, LastKnown
  <2>2. Rejected(o, t, TRUE) \in Results
    BY ResultRecords
  <2> QED BY <1>0, <1>1, <1>5, <2>1, <2>2, McfKept DEF Verdict
<1> QED BY <1>2, <1>3, <1>4, <1>5

LEMMA SameVerdict ==
  ASSUME SameErp, SameBook, NEW o \in Ops, NEW t, NEW s, NEW r, Verdict(o, t, s, r)
  PROVE  Verdict(o, t, s, r)'
BY BookSame DEF SameErp, Verdict, Inv, Normalized, Rejected, Uncertain

(* A station concludes its work. *)
LEMMA PostKept ==
  ASSUME IInv, NEW g \in Gateways, work[g].step \notin {"idle", "next"},
         NEW o \in Ops, NEW t \in 0..MaxTokens, o = work[g].op, t = work[g].token, o # 0,
         NEW s \in {"DONE", "REJECTED", "UNCERTAIN"}, NEW r \in Results,
         Conclude(g, o, t, s, r), Goto(g, "post"), UNCHANGED <<erp, shop, late>>,
         mcf' \in [open : Invoices \cup {None}, book : Seq(Invoices)], Len(mcf'.book) <= MaxTC,
         Plugged(g) => /\ IsBusy(o) /\ OnlyFor(Inv(o)) /\ journal[g][o].state # "DONE"
                       /\ NoProof(g, o) /\ t <= nTokens /\ Verdict(o, t, s, r)'
  PROVE  Kept(g)
<1>0. Types /\ s \in States
  BY DEF IInv, States
<1>1. PICK f : f = Concluded(journal[g][o], t, s, r)
  OBVIOUS
<1>2. Wrote(g, o, f) /\ f.state = s
  BY <1>0, <1>1, ConcludeWrites DEF Concluded
<1>3. Moves(g, "post")
  BY <1>0, GotoMoves DEF Steps
<1>4. Own(g)
  BY <1>0, <1>2, <1>3, OwnFrom
<1>5. SameErp /\ late' = late
  BY <1>4, OwnSame
<1>6. journal'[g][o].state = s /\ \A p \in Ops : p # o => journal'[g][p] = journal[g][p]
  BY <1>2 DEF Wrote
<1>7. Plugged(g) => ResultsOk(g)'
  BY <1>0, <1>1, <1>2, <1>5, Concluding
<1>8. StepOk(g)'
  BY <1>3, <1>6 DEF Moves, StepOk
<1> QED BY <1>3, <1>4, <1>6, <1>7, <1>8, KeptFrom

(* Before the end of its work a station that has the MCF has no proof of rejection yet. *)
LEMMA NotProven ==
  ASSUME IInv, NEW g \in Gateways, Plugged(g), NEW o \in Ops, o = work[g].op,
         \/ work[g].step = "leased" /\ journal[g][o].state # "DONE"
         \/ work[g].step \in {"prepare", "open", "opened", "final", "answered", "check"}
  PROVE  IsBusy(o) /\ NoProof(g, o) /\ journal[g][o].state # "DONE"
<1>1. StepOk(g) /\ EntryOk(g, o) /\ Types
  BY DEF IInv, Station
<1>2. CASE work[g].step = "leased" /\ journal[g][o].state # "DONE"
  <2>1. Undelivered(g) = {} /\ IsBusy(o)
    BY <1>1, <1>2 DEF StepOk
  <2>2. ASSUME journal[g][o].state = "REJECTED", Current(o, journal[g][o].res.token) PROVE FALSE
    <3>1. ~journal[g][o].delivered
      BY <1>1, <2>2 DEF EntryOk
    <3>2. journal[g][o].res # NoRes
      BY <1>1, <2>2, EntryFields, ResultsAreNot
    <3> QED BY <2>1, <2>2, <3>1, <3>2 DEF Undelivered
  <2> QED BY <1>2, <2>1, <2>2 DEF NoProof
<1>3. CASE work[g].step \in {"prepare", "open", "opened", "final", "answered", "check"}
  <2>1. journal[g][o].state \in OpenStates
    BY <1>1, <1>3 DEF StepOk, OpenStates
  <2> QED BY <1>1, <2>1 DEF EntryOk, NoProof, OpenStates
<1> QED BY <1>2, <1>3

LEMMA CheckWorkKept ==
  ASSUME IInv, NEW g \in Gateways, CheckWork(g)
  PROVE  Kept(g) /\ SameBook
<1>1. /\ work[g].step = "check" \/ work[g].step = "leased"
      /\ UNCHANGED <<erp, shop, late>> /\ Goto(g, "post")
  BY DEF CheckWork, At
<1>2. PICK o \in Ops, t \in 0..MaxTokens, e \in EntryRows :
           /\ o = work[g].op /\ t = work[g].token /\ e = journal[g][o] /\ o # 0 /\ Types
           /\ Plugged(g) => StepOk(g) /\ EntryOk(g, o) /\ t <= nTokens /\ e.token <= nTokens
  BY <1>1, AtStep
<1>3. CASE e.state = "DONE"
  <2>1. UNCHANGED <<journal, mcf>>
    BY <1>2, <1>3 DEF CheckWork
  <2>2. Moves(g, "post")
    BY <1>1, <1>2, GotoMoves DEF Steps
  <2>3. Own(g) /\ SameBook
    BY <1>1, <1>2, <2>1, <2>2, McfKept, OwnFrom
  <2>4. SameErp /\ late' = late
    BY <2>3, OwnSame
  <2>5. Plugged(g) => \A p \in Ops : journal[g][p].token <= nTokens
    BY DEF IInv, Station, EntryOk
  <2>6. Plugged(g) => ResultsOk(g)'
    BY <2>1, <2>3, <2>4, <2>5, SameResults
  <2>7. StepOk(g)'
    BY <1>2, <1>3, <2>1, <2>2 DEF Moves, StepOk
  <2> QED BY <1>2, <2>1, <2>2, <2>3, <2>6, <2>7, KeptFrom
<1>4. CASE e.state # "DONE"
  <2>1. Check(g, o, t)
    BY <1>2, <1>4 DEF CheckWork
  <2>2. Plugged(g) => IsBusy(o) /\ NoProof(g, o)
    BY <1>1, <1>2, <1>4, NotProven
  <2>3. PICK s \in {"DONE", "REJECTED", "UNCERTAIN"}, r \in Results :
          Conclude(g, o, t, s, r) /\ (Plugged(g) => Verdict(o, t, s, r))
    BY <2>1, <2>2, CheckConcludes
  <2>4. /\ SameBook /\ mcf' \in [open : Invoices \cup {None}, book : Seq(Invoices)]
        /\ Len(mcf'.book) <= MaxTC
    BY <2>1, <2>2, CheckConcludes
  <2>5. SameErp
    BY <1>1 DEF SameErp, erp, queue, windows
  <2>6. Plugged(g) => OnlyFor(Inv(o)) /\ Verdict(o, t, s, r)'
    BY <1>2, <2>3, <2>4, <2>5, SameBookOnlyFor, SameVerdict
  <2> QED BY <1>1, <1>2, <1>4, <2>2, <2>3, <2>4, <2>6, PostKept
<1> QED BY <1>3, <1>4

(* A rejection while the invoice is not registered, at any step before the answer to 38h. *)
LEMMA FailsKept ==
  ASSUME IInv, NEW g \in Gateways, work[g].step \in {"prepare", "open", "opened", "final"},
         NEW again \in BOOLEAN, Fails(g, again), UNCHANGED mcf \/ ClosesOpen,
         UNCHANGED <<erp, shop, late>>
  PROVE  Kept(g) /\ SameBook
<1>1. PICK o \in Ops, t \in 0..MaxTokens, e \in EntryRows :
           /\ o = work[g].op /\ t = work[g].token /\ e = journal[g][o] /\ o # 0 /\ Types
           /\ Plugged(g) => StepOk(g) /\ EntryOk(g, o) /\ t <= nTokens /\ e.token <= nTokens
  BY AtStep
<1>2. PICK r \in Results : r = Rejected(o, t, again)
  BY ResultRecords
<1>3. Conclude(g, o, t, "REJECTED", r) /\ Goto(g, "post")
  BY <1>1, <1>2 DEF Fails
<1>4. /\ SameBook /\ mcf' \in [open : Invoices \cup {None}, book : Seq(Invoices)]
      /\ Len(mcf'.book) <= MaxTC
  BY <1>1, McfKept
<1>5. SameErp
  BY DEF SameErp, erp, queue, windows
<1>6. Plugged(g) => /\ IsBusy(o) /\ NoProof(g, o) /\ journal[g][o].state # "DONE"
                    /\ OnlyFor(Inv(o)) /\ Verdict(o, t, "REJECTED", r)'
  <2>1. Plugged(g) => IsBusy(o) /\ NoProof(g, o) /\ journal[g][o].state # "DONE"
    BY <1>1, NotProven
  <2>2. Plugged(g) => Registered(Inv(o)) = {}
    BY <1>1 DEF StepOk
  <2>3. Plugged(g) => Verdict(o, t, "REJECTED", r)
    BY <1>2, <2>2 DEF Verdict
  <2> QED BY <1>1, <1>4, <1>5, <2>1, <2>3, SameBookOnlyFor, SameVerdict
<1> QED BY <1>1, <1>3, <1>4, <1>6, PostKept

(* A step of the work that writes the next state of the operation. *)
LEMMA ProgressKept ==
  ASSUME IInv, NEW g \in Gateways, NEW o \in Ops, o = work[g].op, NEW f, Wrote(g, o, f), f.state # "None",
         NEW s, Moves(g, s), UNCHANGED <<erp, shop, late>>, UNCHANGED mcf \/ ClosesOpen,
         work[g].step \in {"prepare", "open", "opened", "final"},
         f.state \in {"OPENING", "FINALIZING"},
         Plugged(g) => f.token <= nTokens,
         (s = "open" /\ f.state = "OPENING") \/ (s = "final" /\ f.state = "FINALIZING"),
         Plugged(g) \/ work[g].step \in {"open", "opened", "final"}
  PROVE  Kept(g) /\ SameBook
<1>1. Types /\ o # 0 /\ o \in Ops /\ Moves(g, s)
  BY Numbers DEF IInv
<1>2. /\ SameBook /\ mcf' \in [open : Invoices \cup {None}, book : Seq(Invoices)]
      /\ Len(mcf'.book) <= MaxTC
  BY <1>1, McfKept
<1>3. Own(g)
  BY <1>1, <1>2, OwnFrom
<1>4. SameErp /\ late' = late
  BY <1>3, OwnSame
<1>5. journal'[g][o] = f /\ \A p \in Ops : p # o => journal'[g][p] = journal[g][p]
  BY DEF Wrote
<1>6. ASSUME Plugged(g) PROVE ResultsOk(g)' /\ StepOk(g)'
  <2>1. IsBusy(o) /\ Registered(Inv(o)) = {} /\ journal[g][o].state \notin {"DONE", "REJECTED"}
    <3>1. StepOk(g)
      BY <1>6 DEF IInv, Station
    <3>2. journal[g][o].state \notin {"DONE", "REJECTED"} /\ Registered(Inv(o)) = {}
      BY <3>1 DEF StepOk
    <3> QED BY <1>6, <3>2, NotProven
  <2>2. Registered(Inv(o))' = {}
    BY <1>2, <1>4, <2>1, BookSame DEF SameErp, Inv
  <2>3. StepOk(g)'
    BY <1>5, <2>2 DEF Moves, StepOk
  <2>4. OnlyFor(Inv(o))
    BY <1>1, <1>2, SameBookOnlyFor
  <2> QED BY <1>4, <1>6, <2>1, <2>3, <2>4, GoingOn
<1> QED BY <1>1, <1>2, <1>3, <1>5, <1>6, KeptFrom

LEMMA Relabelled ==
  ASSUME NEW r \in Results, NEW o \in Ops
  PROVE  [r EXCEPT !.op = o] \in Results
<1>1. r \in NormalizedResults => [r EXCEPT !.op = o] \in NormalizedResults
  BY DEF NormalizedResults
<1>2. r \in RejectedResults => [r EXCEPT !.op = o] \in RejectedResults
  BY DEF RejectedResults
<1>3. r \in UncertainResults => [r EXCEPT !.op = o] \in UncertainResults
  BY DEF UncertainResults
<1> QED BY <1>1, <1>2, <1>3 DEF Results

LEMMA PrepareKept ==
  ASSUME IInv, NEW g \in Gateways, Prepare(g)
  PROVE  Kept(g) /\ SameBook
<1>1. work[g].step = "prepare" /\ UNCHANGED <<erp, shop, late>>
  BY DEF Prepare, At
<1>2. PICK o \in Ops, t \in 0..MaxTokens, e \in EntryRows :
           /\ o = work[g].op /\ t = work[g].token /\ e = journal[g][o] /\ o # 0 /\ Types
           /\ Plugged(g) => StepOk(g) /\ EntryOk(g, o) /\ t <= nTokens /\ e.token <= nTokens
  BY <1>1, AtStep
<1>3. Plugged(g) => /\ Registered(Inv(o)) = {} /\ DoneBefore(g, o) = {} /\ ~LastIs(Inv(o))
                    /\ e.state = "RECEIVED"
  <2> SUFFICES ASSUME Plugged(g)
               PROVE  /\ Registered(Inv(o)) = {} /\ DoneBefore(g, o) = {} /\ ~LastIs(Inv(o))
                      /\ e.state = "RECEIVED"
    OBVIOUS
  <2>1. Registered(Inv(o)) = {} /\ e.state = "RECEIVED"
    BY <1>1, <1>2 DEF StepOk
  <2>2. ASSUME NEW p \in DoneBefore(g, o) PROVE FALSE
    <3>1. EntryOk(g, p) /\ journal[g][p].state = "DONE" /\ Inv(p) = Inv(o)
      BY DEF DoneBefore, IInv, Station
    <3>2. Registered(Inv(p)) # {}
      BY <3>1 DEF EntryOk, Settles
    <3> QED BY <2>1, <3>1, <3>2
  <2>3. IsBusy(o)
    BY <1>1, <1>2, NotProven
  <2> QED BY <2>1, <2>2, <2>3, LastKnown
<1>4. CASE ~Plugged(g) /\ DoneBefore(g, o) # {}
  <2>1. PICK p \in DoneBefore(g, o) : Conclude(g, o, t, "DONE", [journal[g][p].res EXCEPT !.op = o])
    BY <1>2, <1>4 DEF Prepare
  <2>2. UNCHANGED mcf /\ Goto(g, "post")
    BY <1>2, <1>4 DEF Prepare
  <2>3. journal[g][p].res \in Results
    BY <1>2, <2>1, EntryFields DEF DoneBefore
  <2>4. PICK r \in Results : r = [journal[g][p].res EXCEPT !.op = o]
    BY <2>3, Relabelled
  <2>5. /\ SameBook /\ mcf' \in [open : Invoices \cup {None}, book : Seq(Invoices)]
        /\ Len(mcf'.book) <= MaxTC
    BY <1>2, <2>2, McfKept
  <2> QED BY <1>1, <1>2, <1>4, <2>1, <2>2, <2>4, <2>5, PostKept
<1>5. CASE Plugged(g) \/ DoneBefore(g, o) = {}
  <2>1. \/ (UNCHANGED mcf \/ ClosesOpen) /\ \E again \in BOOLEAN : Fails(g, again)
        \/ /\ Plugged(g) /\ (UNCHANGED mcf \/ ClosesOpen)
           /\ SetState(g, o, "OPENING") /\ Goto(g, "open")
    BY <1>2, <1>3, <1>5 DEF Prepare, CancelQuietly
  <2>2. CASE (UNCHANGED mcf \/ ClosesOpen) /\ \E again \in BOOLEAN : Fails(g, again)
    BY <1>1, <2>2, FailsKept
  <2>3. CASE /\ Plugged(g) /\ (UNCHANGED mcf \/ ClosesOpen)
             /\ SetState(g, o, "OPENING") /\ Goto(g, "open")
    <3>1. PICK f : f = [e EXCEPT !.state = "OPENING"]
      OBVIOUS
    <3>2. Wrote(g, o, f)
      BY <1>2, <2>3, <3>1, SetStateWrites
    <3>3. f.state = "OPENING" /\ f.token = e.token
      BY <1>2, <3>1 DEF EntryRows, Entries
    <3>4. Moves(g, "open")
      BY <1>2, <2>3, GotoMoves DEF Steps
    <3>5. f.token <= nTokens /\ f.state \in {"OPENING", "FINALIZING"} /\ f.state # "None"
      BY <1>2, <2>3, <3>3
    <3>6. Plugged(g) /\ (UNCHANGED mcf \/ ClosesOpen) /\ UNCHANGED <<erp, shop, late>>
      BY <1>1, <2>3
    <3>7. work[g].step = "prepare" /\ o = work[g].op
      BY <1>1, <1>2
    <3> QED BY <3>2, <3>3, <3>4, <3>5, <3>6, <3>7, ProgressKept
  <2> QED BY <2>1, <2>2, <2>3
<1> QED BY <1>4, <1>5

LEMMA OpenInvoiceKept ==
  ASSUME IInv, NEW g \in Gateways, OpenInvoice(g)
  PROVE  Kept(g) /\ SameBook
<1>1. work[g].step = "open" /\ Plugged(g) /\ UNCHANGED <<erp, journal, shop, late>> /\ Goto(g, "opened")
  BY DEF OpenInvoice, At
<1>2. PICK o \in Ops, t \in 0..MaxTokens, e \in EntryRows :
           /\ o = work[g].op /\ t = work[g].token /\ e = journal[g][o] /\ o # 0 /\ Types
           /\ Plugged(g) => StepOk(g) /\ EntryOk(g, o) /\ t <= nTokens /\ e.token <= nTokens
  BY <1>1, AtStep
<1>3. IsBusy(o) /\ Inv(o) \in Invoices
  BY <1>1, <1>2, NotProven, InvOfOp, BusyNames DEF IInv, IsBusy
<1>4. /\ SameBook /\ mcf' \in [open : Invoices \cup {None}, book : Seq(Invoices)]
      /\ Len(mcf'.book) <= MaxTC
  <2>1. mcf \in [open : Invoices \cup {None}, book : Seq(Invoices)] /\ Len(mcf.book) <= MaxTC
    BY <1>2 DEF Types
  <2>2. mcf' = [mcf EXCEPT !.open = Inv(o)]
    BY <1>2 DEF OpenInvoice
  <2>3. mcf' \in [open : Invoices \cup {None}, book : Seq(Invoices)] /\ mcf'.book = mcf.book
    BY <1>3, <2>1, <2>2
  <2> QED BY <2>1, <2>3 DEF SameBook
<1>5. Moves(g, "opened")
  BY <1>1, <1>2, GotoMoves DEF Steps
<1>6. Own(g)
  BY <1>1, <1>2, <1>4, <1>5, OwnFrom
<1>7. SameErp /\ late' = late
  BY <1>6, OwnSame
<1>8. ResultsOk(g)'
  <2>1. \A p \in Ops : journal[g][p].token <= nTokens
    BY <1>1 DEF IInv, Station, EntryOk
  <2> QED BY <1>1, <1>4, <1>7, <2>1, SameResults
<1>9. StepOk(g)'
  <2>1. e.state = "OPENING" /\ Registered(Inv(o)) = {}
    BY <1>1, <1>2 DEF StepOk
  <2>2. Registered(Inv(o))' = {}
    BY <1>4, <1>7, <2>1, BookSame DEF SameErp, Inv
  <2> QED BY <1>1, <1>2, <1>5, <2>1, <2>2 DEF Moves, StepOk
<1> QED BY <1>1, <1>2, <1>4, <1>5, <1>6, <1>8, <1>9, KeptFrom

(* The MCF is to be asked what became of the invoice. *)
LEMMA DoubtKept ==
  ASSUME IInv, NEW g \in Gateways, work[g].step \in {"open", "opened", "final"}, Doubt(g),
         UNCHANGED <<erp, mcf, shop, late>>
  PROVE  Kept(g) /\ SameBook
<1>1. PICK o \in Ops, t \in 0..MaxTokens, e \in EntryRows :
           /\ o = work[g].op /\ t = work[g].token /\ e = journal[g][o] /\ o # 0 /\ Types
           /\ Plugged(g) => StepOk(g) /\ EntryOk(g, o) /\ t <= nTokens /\ e.token <= nTokens
  BY AtStep
<1>2. SameErp /\ late' = late
  BY DEF SameErp, erp, queue, windows
<1>3. UNCHANGED journal /\ Goto(g, "check")
  BY DEF Doubt
<1>4. Moves(g, "check")
  BY <1>1, <1>3, GotoMoves DEF Steps
<1>5. /\ SameBook /\ mcf' \in [open : Invoices \cup {None}, book : Seq(Invoices)]
      /\ Len(mcf'.book) <= MaxTC
  BY <1>1, McfKept
<1>6. Own(g)
  BY <1>1, <1>3, <1>4, <1>5, OwnFrom
<1>7. Plugged(g) => ResultsOk(g)'
  <2>1. Plugged(g) => \A p \in Ops : journal[g][p].token <= nTokens
    BY DEF IInv, Station, EntryOk
  <2> QED BY <1>2, <1>3, <1>5, <2>1, SameResults
<1>8. Plugged(g) => StepOk(g)'
  <2>1. Plugged(g) => e.state \in {"OPENING", "FINALIZING"}
    BY <1>1 DEF StepOk
  <2> QED BY <1>1, <1>3, <1>4, <2>1 DEF Moves, StepOk
<1> QED BY <1>1, <1>3, <1>4, <1>5, <1>6, <1>7, <1>8, KeptFrom

LEMMA FailsBefore38hKept ==
  ASSUME IInv, NEW g \in Gateways, FailsBefore38h(g)
  PROVE  Kept(g) /\ SameBook
<1>1. work[g].step \in {"open", "opened"} /\ UNCHANGED <<erp, shop, late>>
  BY DEF FailsBefore38h, At
<1>2. \/ (UNCHANGED mcf \/ ClosesOpen) /\ \E again \in BOOLEAN : Fails(g, again)
      \/ UNCHANGED mcf /\ Doubt(g)
  BY DEF FailsBefore38h
<1> QED BY <1>1, <1>2, FailsKept, DoubtKept

LEMMA RecordFinalizingKept ==
  ASSUME IInv, NEW g \in Gateways, RecordFinalizing(g)
  PROVE  Kept(g) /\ SameBook
<1>1. work[g].step = "opened" /\ UNCHANGED <<erp, mcf, shop, late>> /\ Goto(g, "final")
  BY DEF RecordFinalizing, At
<1>2. PICK o \in Ops, t \in 0..MaxTokens, e \in EntryRows :
           /\ o = work[g].op /\ t = work[g].token /\ e = journal[g][o] /\ o # 0 /\ Types
           /\ Plugged(g) => StepOk(g) /\ EntryOk(g, o) /\ t <= nTokens /\ e.token <= nTokens
  BY <1>1, AtStep
<1>3. PICK f : f = [e EXCEPT !.state = "FINALIZING"]
  OBVIOUS
<1>4. Wrote(g, o, f)
  <2>1. SetState(g, o, "FINALIZING")
    BY <1>2 DEF RecordFinalizing
  <2> QED BY <1>2, <1>3, <2>1, SetStateWrites
<1>5. f.state = "FINALIZING" /\ f.token = e.token
  BY <1>2, <1>3 DEF EntryRows, Entries
<1>6. Moves(g, "final")
  BY <1>1, <1>2, GotoMoves DEF Steps
<1> QED BY <1>1, <1>2, <1>4, <1>5, <1>6, ProgressKept

LEMMA RecordDoneKept ==
  ASSUME IInv, NEW g \in Gateways, RecordDone(g)
  PROVE  Kept(g) /\ SameBook
<1>1. work[g].step = "answered" /\ UNCHANGED <<erp, mcf, shop, late>> /\ Goto(g, "post")
  BY DEF RecordDone, At
<1>2. PICK o \in Ops, t \in 0..MaxTokens, e \in EntryRows :
           /\ o = work[g].op /\ t = work[g].token /\ e = journal[g][o] /\ o # 0 /\ Types
           /\ Plugged(g) => StepOk(g) /\ EntryOk(g, o) /\ t <= nTokens /\ e.token <= nTokens
  BY <1>1, AtStep
<1>3. work[g].code \in 1..MaxTC
  BY <1>1, <1>2, WorkFields
<1>4. PICK r \in Results : r = Normalized(o, work[g].code)
  BY <1>3, ResultRecords
<1>5. Conclude(g, o, t, "DONE", r)
  BY <1>2, <1>4 DEF RecordDone
<1>6. /\ SameBook /\ mcf' \in [open : Invoices \cup {None}, book : Seq(Invoices)]
      /\ Len(mcf'.book) <= MaxTC
  BY <1>1, <1>2, McfKept
<1>7. SameErp
  BY <1>1 DEF SameErp, erp, queue, windows
<1>8. Plugged(g) => /\ IsBusy(o) /\ NoProof(g, o) /\ journal[g][o].state # "DONE"
                    /\ OnlyFor(Inv(o)) /\ Verdict(o, t, "DONE", r)'
  <2>1. Plugged(g) => IsBusy(o) /\ NoProof(g, o) /\ journal[g][o].state # "DONE"
    BY <1>1, <1>2, NotProven
  <2>2. Plugged(g) => work[g].code = Counter /\ Registered(Inv(o)) = {Counter}
    BY <1>1, <1>2 DEF StepOk
  <2>3. Plugged(g) => Verdict(o, t, "DONE", r)
    BY <1>4, <2>2 DEF Verdict
  <2> QED BY <1>2, <1>6, <1>7, <2>1, <2>3, SameBookOnlyFor, SameVerdict
<1> QED BY <1>1, <1>2, <1>5, <1>6, <1>8, PostKept

(* 38h: the MCF registers the invoice of the busy operation, which it had not. *)
LEMMA Registering ==
  ASSUME IInv, NEW o \in Ops, IsBusy(o), Registered(Inv(o)) = {}, mcf.open = Inv(o),
         Counter < MaxTC, Registers, SameErp
  PROVE  /\ mcf' \in [open : Invoices \cup {None}, book : Seq(Invoices)]
         /\ Counter' = Counter + 1 /\ Counter' \in 1..MaxTC /\ Len(mcf'.book) = Counter'
         /\ Registered(Inv(o))' = {Counter'} /\ OnlyFor(Inv(o))
         /\ \A j \in Invoices : j # Inv(o) => Registered(j)' = Registered(j)
<1> DEFINE b == mcf.book
<1>1. PICK i \in Invoices : i = Inv(o)
  BY InvOfOp, BusyNames DEF IInv, IsBusy
<1>2. b \in Seq(Invoices) /\ Counter = Len(b) /\ Counter \in 0..MaxTC
  BY CounterIsNat DEF IInv, Counter
<1>3. mcf' = [open |-> None, book |-> Append(b, i)]
  BY <1>1 DEF Registers
<1>4. mcf'.book = Append(b, i) /\ mcf'.open = None /\ Append(b, i) \in Seq(Invoices)
  BY <1>1, <1>2, <1>3
<1>5. mcf' \in [open : Invoices \cup {None}, book : Seq(Invoices)]
  BY <1>3, <1>4
<1>6. Counter' = Counter + 1 /\ Counter' \in 1..MaxTC /\ Len(mcf'.book) = Counter'
  BY <1>1, <1>2, <1>4, Numbers DEF Counter
<1>7. \A n \in 1..Counter : mcf'.book[n] = b[n]
  BY <1>1, <1>2, <1>4
<1>8. mcf'.book[Counter + 1] = i
  BY <1>1, <1>2, <1>4
<1>9. 1..(Counter + 1) = 1..Counter \cup {Counter + 1} /\ Counter + 1 \notin 1..Counter
  BY <1>2
<1>10. ASSUME NEW j
       PROVE  Registered(j)' = Registered(j) \cup (IF j = i THEN {Counter + 1} ELSE {})
  BY <1>6, <1>7, <1>8, <1>9 DEF Registered
<1>11. Inv(o)' = i
  BY <1>1 DEF SameErp, Inv
<1>12. Registered(i)' = {Counter'} /\ Registered(Inv(o))' = {Counter'}
  <2>1. Registered(i)' = {Counter'}
    BY <1>1, <1>6, <1>10
  <2> QED BY <1>11, <2>1 DEF Registered
<1>13. \A j \in Invoices : j # i => Registered(j)' = Registered(j)
  BY <1>10
<1>14. OnlyFor(i) /\ OnlyFor(Inv(o))
  BY <1>1, <1>2, <1>6, <1>13 DEF OnlyFor
<1> QED BY <1>1, <1>5, <1>6, <1>12, <1>13, <1>14

(* The step in which the MCF registers an invoice. *)
RegistersFor(o) ==
  /\ IsBusy(o) /\ Registered(Inv(o)) = {} /\ mcf.open = Inv(o) /\ Counter < MaxTC /\ Registers

LEMMA FinalizeKept ==
  ASSUME IInv, NEW g \in Gateways, Finalize(g)
  PROVE  Kept(g) /\ (SameBook \/ (Plugged(g) /\ RegistersFor(work[g].op) /\ work[g].op \in Ops
                                  /\ journal[g][work[g].op].state # "None"))
<1>1. work[g].step = "final" /\ UNCHANGED <<erp, shop, late>>
  BY DEF Finalize, At
<1>2. PICK o \in Ops, t \in 0..MaxTokens, e \in EntryRows :
           /\ o = work[g].op /\ t = work[g].token /\ e = journal[g][o] /\ o # 0 /\ Types
           /\ Plugged(g) => StepOk(g) /\ EntryOk(g, o) /\ t <= nTokens /\ e.token <= nTokens
  BY <1>1, AtStep
<1>3. SameErp
  BY <1>1 DEF SameErp, erp, queue, windows
<1>4. CASE (UNCHANGED mcf \/ ClosesOpen) /\ \E again \in BOOLEAN : Fails(g, again)
  BY <1>1, <1>4, FailsKept
<1>5. CASE Doubt(g) /\ UNCHANGED mcf
  BY <1>1, <1>5, DoubtKept
<1>6. CASE /\ Plugged(g) /\ mcf.open = Inv(o) /\ Counter < MaxTC /\ Registers
        /\ \/ /\ UNCHANGED journal
              /\ work' = [work EXCEPT ![g].step = "answered", ![g].code = Counter + 1]
           \/ Doubt(g)
           \/ Goto(g, "post") /\ Conclude(g, o, t, "UNCERTAIN", Uncertain(o, t))
  <2>1. IsBusy(o) /\ NoProof(g, o) /\ e.state = "FINALIZING" /\ Registered(Inv(o)) = {}
    <3>1. e.state = "FINALIZING" /\ Registered(Inv(o)) = {}
      BY <1>1, <1>2, <1>6 DEF StepOk
    <3> QED BY <1>1, <1>2, <1>6, <3>1, NotProven
  <2>2. /\ mcf' \in [open : Invoices \cup {None}, book : Seq(Invoices)] /\ Len(mcf'.book) <= MaxTC
        /\ Counter' = Counter + 1 /\ Counter' \in 1..MaxTC
        /\ Registered(Inv(o))' = {Counter'} /\ OnlyFor(Inv(o))
    BY <1>3, <1>6, <2>1, Registering, Numbers
  <2>3. RegistersFor(o)
    BY <1>6, <2>1 DEF RegistersFor
  <2>4. \/ /\ UNCHANGED journal
           /\ work' = [work EXCEPT ![g].step = "answered", ![g].code = Counter + 1]
        \/ Doubt(g)
        \/ Goto(g, "post") /\ Conclude(g, o, t, "UNCERTAIN", Uncertain(o, t))
    BY <1>6
  <2>5. ASSUME UNCHANGED journal PROVE ResultsOk(g)'
    <3>1. Wrote(g, o, e)
      BY <1>2, <2>5 DEF Wrote, Types
    <3> QED BY <1>1, <1>2, <1>3, <1>6, <2>1, <2>2, <3>1, GoingOn
  <2>6. CASE UNCHANGED journal /\ work' = [work EXCEPT ![g].step = "answered", ![g].code = Counter + 1]
    <3>1. PICK c \in 1..MaxTC : c = Counter'
      BY <2>2
    <3>2. PICK w : w = [work[g] EXCEPT !.step = "answered", !.code = c]
      OBVIOUS
    <3>3. work[g] \in [op : 0..MaxOps, kind : {"None", "CHECK", "NORMALIZE"}, token : 0..MaxTokens,
                       step : Steps, code : 0..MaxTC]
      BY <1>2, WorkFields DEF Works
    <3>10. c \in 0..MaxTC /\ "answered" \in Steps /\ c # 0
      BY Numbers DEF Steps
    <3>11. /\ w \in [op : 0..MaxOps, kind : {"None", "CHECK", "NORMALIZE"}, token : 0..MaxTokens,
                       step : Steps, code : 0..MaxTC]
           /\ w.step = "answered" /\ w.op = work[g].op /\ w.kind = work[g].kind
           /\ w.token = work[g].token /\ w.code = c
      BY <3>2, <3>3, <3>10
    <3>4. /\ w \in Works /\ w.step = "answered" /\ w.op = o /\ w.kind = work[g].kind
          /\ w.token = work[g].token /\ w.code = c
      BY <1>2, <3>10, <3>11 DEF Works
    <3>5. work' = [work EXCEPT ![g] = w]
      BY <1>2, <2>2, <2>6, <3>1, <3>2 DEF Types
    <3>6. work' \in [Gateways -> Works] /\ work'[g] = w /\ \A h \in Gateways : h # g => work'[h] = work[h]
      BY <1>2, <3>4, <3>5 DEF Types
    <3>7. Moves(g, "answered")
      BY <1>2, <3>4, <3>6 DEF Moves
    <3>8. Own(g)
      BY <1>1, <1>2, <2>2, <2>6, <3>7, OwnFrom
    <3>9. StepOk(g)'
      BY <1>2, <2>1, <2>2, <2>6, <3>1, <3>4, <3>6 DEF StepOk, SameErp, Inv
    <3> QED BY <1>2, <1>6, <2>1, <2>3, <2>5, <2>6, <3>7, <3>8, <3>9, KeptFrom
  <2>7. CASE Doubt(g)
    <3>1. UNCHANGED journal /\ Goto(g, "check")
      BY <2>7 DEF Doubt
    <3>2. Moves(g, "check")
      BY <1>2, <3>1, GotoMoves DEF Steps
    <3>3. Own(g)
      BY <1>1, <1>2, <2>2, <3>1, <3>2, OwnFrom
    <3>4. StepOk(g)'
      BY <1>2, <2>1, <3>1, <3>2 DEF Moves, StepOk
    <3> QED BY <1>2, <1>6, <2>1, <2>3, <2>5, <3>1, <3>2, <3>3, <3>4, KeptFrom
  <2>8. CASE Goto(g, "post") /\ Conclude(g, o, t, "UNCERTAIN", Uncertain(o, t))
    <3>1. PICK r \in Results : r = Uncertain(o, t)
      BY ResultRecords
    <3>2. Verdict(o, t, "UNCERTAIN", r)'
      BY <3>1 DEF Verdict, Uncertain
    <3>3. Kept(g)
      BY <1>1, <1>2, <1>6, <2>1, <2>2, <2>8, <3>1, <3>2, PostKept
    <3> QED BY <1>2, <1>6, <2>1, <2>3, <3>3
  <2> QED BY <2>4, <2>6, <2>7, <2>8
<1>7. \/ (UNCHANGED mcf \/ ClosesOpen) /\ \E again \in BOOLEAN : Fails(g, again)
      \/ Doubt(g) /\ UNCHANGED mcf
      \/ /\ Plugged(g) /\ mcf.open = Inv(o) /\ Counter < MaxTC /\ Registers
          /\ \/ /\ UNCHANGED journal
                /\ work' = [work EXCEPT ![g].step = "answered", ![g].code = Counter + 1]
             \/ Doubt(g)
             \/ Goto(g, "post") /\ Conclude(g, o, t, "UNCERTAIN", Uncertain(o, t))
  BY <1>2 DEF Finalize
<1> QED BY <1>4, <1>5, <1>6, <1>7

LEMMA ReconcileKept ==
  ASSUME IInv, NEW g \in Gateways, Reconcile(g)
  PROVE  Kept(g) /\ SameBook /\ ~Unused(g)
<1>1. work[g].step = "idle" /\ UNCHANGED <<erp, work, shop, late>> /\ Types
  BY DEF Reconcile, At, IInv
<1>2. PICK o \in Ops : o \in Open(g) /\ Check(g, o, journal[g][o].token)
  BY DEF Reconcile, Open
<1>3. PICK t \in 0..MaxTokens : t = journal[g][o].token
  BY <1>1, EntryFields
<1>4. journal[g][o].state \in OpenStates
  BY <1>2 DEF Open, OpenStates
<1>5. Plugged(g) => EntryOk(g, o) /\ IsBusy(o) /\ t <= nTokens
  BY <1>3, <1>4 DEF IInv, Station, EntryOk
<1>6. /\ SameBook /\ mcf' \in [open : Invoices \cup {None}, book : Seq(Invoices)]
      /\ Len(mcf'.book) <= MaxTC
  BY <1>2, <1>3, <1>5, CheckConcludes
<1>7. PICK s \in {"DONE", "REJECTED", "UNCERTAIN"}, r \in Results :
        Conclude(g, o, t, s, r) /\ (Plugged(g) => Verdict(o, t, s, r))
  BY <1>2, <1>3, <1>5, CheckConcludes
<1>8. PICK f : f = Concluded(journal[g][o], t, s, r)
  OBVIOUS
<1>9. s \in States /\ Wrote(g, o, f) /\ f.state = s
  BY <1>1, <1>7, <1>8, ConcludeWrites DEF Concluded, States
<1>10. Own(g)
  BY <1>1, <1>6, <1>9, OwnFrom
<1>11. SameErp /\ late' = late /\ shop' = shop
  BY <1>10, OwnSame
<1>12. journal'[g][o] = f /\ \A p \in Ops : p # o => journal'[g][p] = journal[g][p]
  BY <1>9 DEF Wrote
<1>13. ASSUME Plugged(g) PROVE Station(g)'
  <2>1. OnlyFor(Inv(o)) /\ Verdict(o, t, s, r)'
    BY <1>1, <1>6, <1>7, <1>11, <1>13, SameBookOnlyFor, SameVerdict
  <2>2. ResultsOk(g)'
    BY <1>4, <1>5, <1>8, <1>9, <1>11, <1>13, <2>1, Concluding DEF NoProof, OpenStates
  <2>3. Mine(g)'
    BY <1>1, <1>4, <1>11, <1>12, <1>13, MineKept DEF IInv, Station, OpenStates
  <2>4. WorkHolds(g)' /\ StepOk(g)'
    BY <1>1, <1>11, <1>13 DEF IInv, Station, WorkHolds, StepOk, SameErp
  <2> QED BY <2>2, <2>3, <2>4, StationFrom
<1>14. BarrierAt(g)'
  BY <1>1 DEF BarrierAt
<1>15. \A p \in Ops : journal[g][p].state # "None" => journal'[g][p].state # "None"
  BY <1>9, <1>12
<1>16. ~Unused(g)
  BY <1>4 DEF Unused, NoEntry, OpenStates
<1> QED BY <1>6, <1>10, <1>13, <1>14, <1>15, <1>16 DEF Kept

LEMMA StopKept ==
  ASSUME IInv, NEW g \in Gateways, work' = [work EXCEPT ![g] = NoWork],
         UNCHANGED <<erp, journal, mcf, shop>>
  PROVE  /\ UNCHANGED late => Kept(g) /\ SameBook
         /\ Plugged(g) => Mine(g)' /\ WorkHolds(g)' /\ StepOk(g)'
         /\ work' \in [Gateways -> Works] /\ work'[g] = NoWork
         /\ \A h \in Gateways : h # g => work'[h] = work[h]
<1>1. Types
  BY DEF IInv
<1>2. NoWork \in Works
  BY Numbers DEF NoWork, Works, Steps
<1>3. /\ work' \in [Gateways -> Works] /\ work'[g] = NoWork
      /\ \A h \in Gateways : h # g => work'[h] = work[h]
  BY <1>1, <1>2 DEF Types
<1>4. SameErp /\ SameBook
  BY <1>1, McfKept DEF SameErp, erp, queue, windows
<1>5. Plugged(g) => Mine(g)' /\ WorkHolds(g)' /\ StepOk(g)'
  <2>1. \A o \in Ops : work'[g].op # o
    BY <1>3, Numbers DEF NoWork
  <2>2. Plugged(g) => Mine(g)'
    BY <1>4, <2>1, MineKept DEF IInv, Station
  <2> QED BY <1>3, <1>4, <2>2, IdleOk
<1>6. ASSUME UNCHANGED late PROVE Kept(g)
  <2>1. Own(g)
    BY <1>1, <1>3, <1>6 DEF Own, Types
  <2>2. Plugged(g) => ResultsOk(g)'
    <3>1. Plugged(g) => \A p \in Ops : journal[g][p].token <= nTokens
      BY DEF IInv, Station, EntryOk
    <3> QED BY <1>4, <1>6, <3>1, SameResults
  <2>3. BarrierAt(g)'
    BY <1>3 DEF BarrierAt, NoWork
  <2> QED BY <1>5, <2>1, <2>2, <2>3, StationFrom DEF Kept
<1> QED BY <1>3, <1>4, <1>5, <1>6

----
(* Every step of a station keeps the invariant *)

LEMMA SameRows ==
  ASSUME IInv, SameErp
  PROVE  TypeOK' /\ Quiet' /\ WaitingIsNewest' /\ RowsOk' /\ OneBusy'
<1>1. UNCHANGED vars
  BY DEF SameErp, vars
<1>2. TypeOK' /\ Quiet' /\ WaitingIsNewest'
  BY <1>1, NoWindows, TypeNext, QuietNext, NewestStep DEF IInv, Types
<1>3. RowsOk'
  BY DEF SameErp, IInv, RowsOk, Created, Inv
<1>4. OneBusy'
  BY DEF SameErp, IInv, OneBusy, IsBusy
<1> QED BY <1>2, <1>3, <1>4

(* The other stations. *)
LEMMA StationSame ==
  ASSUME IInv, SameErp, SameBook, shop' = shop, late' = late, NEW h \in Gateways, Plugged(h),
         journal'[h] = journal[h], work'[h] = work[h]
  PROVE  Station(h)'
<1>1. Station(h)
  BY DEF IInv
<1>2. ResultsOk(h)'
  <2>1. \A p \in Ops : journal[h][p].token <= nTokens
    BY <1>1 DEF Station, EntryOk
  <2> QED BY <2>1, SameResults
<1>3. Mine(h)'
  BY <1>1, MineKept DEF Station
<1>4. WorkHolds(h)'
  BY <1>1 DEF Station, WorkHolds, SameErp, Undelivered, Open
<1>5. StepOk(h)'
  <2>1. \A i : Registered(i)' = Registered(i) /\ Counter' = Counter
    BY BookSame
  <2>2. StepOk(h) /\ Undelivered(h)' = Undelivered(h) /\ IsBusy(work[h].op)' = IsBusy(work[h].op)
        /\ Inv(work[h].op)' = Inv(work[h].op)
    BY <1>1 DEF Station, Undelivered, SameErp, IsBusy, Inv
  <2>3. Registered(Inv(work[h].op))' = Registered(Inv(work[h].op))
    BY <2>2 DEF Registered, SameBook, Counter
  <2> QED BY <2>1, <2>2, <2>3 DEF StepOk
<1> QED BY <1>2, <1>3, <1>4, <1>5, StationFrom

LEMMA BarrierHere ==
  ASSUME OneBusy', Types', NEW g \in Gateways, Station(g)'
  PROVE  BarrierAt(g)'
<1> SUFFICES ASSUME NEW p \in Ops, journal'[g][p].state = "UNCERTAIN",
                    work'[g].step \in {"open", "opened", "final"}
             PROVE  work'[g].op = p
  BY DEF BarrierAt
<1>1. work'[g] \in Works
  BY DEF Types
<1>2. PICK o \in Ops : o = work'[g].op
  BY <1>1, Numbers DEF Works, Ops
<1>3. journal'[g][o].state \in OpenStates /\ journal'[g][p].state \in OpenStates
  BY <1>2 DEF Station, StepOk, OpenStates
<1>4. IsBusy(o)' /\ IsBusy(p)'
  BY <1>3 DEF Station, EntryOk
<1> QED BY <1>2, <1>4 DEF OneBusy

BookFacts == (\A i \in Invoices : Known(i)) /\ CounterOk /\ Handed1

LEMMA SameBusy ==
  ASSUME SameErp
  PROVE  /\ \A o : IsBusy(o)' = IsBusy(o) /\ Inv(o)' = Inv(o) /\ status'[o] = status[o]
         /\ LastTc' = LastTc /\ invoice' = invoice /\ lease' = lease
BY DEF SameErp, IsBusy, Inv, LastTc

LEMMA SameKnown ==
  ASSUME IInv, SameErp, SameBook
  PROVE  (\A i \in Invoices : Known(i)') /\ CounterOk' /\ \A o : Registered(Inv(o))' = Registered(Inv(o))
<1>1. \A i : Registered(i)' = Registered(i) /\ Counter' = Counter
  BY BookSame
<1>2. ASSUME NEW i \in Invoices PROVE Known(i)'
  <2>1. Known(i)
    BY DEF IInv
  <2> QED BY <1>1, <2>1, SameBusy DEF Known
<1>3. ASSUME NEW o PROVE Registered(Inv(o))' = Registered(Inv(o))
  BY <1>1, SameBusy DEF Registered
<1>4. CounterOk'
  BY <1>1, <1>3, SameBusy DEF IInv, CounterOk
<1> QED BY <1>2, <1>3, <1>4

LEMMA SameFacts ==
  ASSUME IInv, SameErp, SameBook, shop' = shop, NEW g \in Gateways, Kept(g)
  PROVE  BookFacts'
<1>1. Handed1'
  <2>1. shop.at \in Gateways
    BY DEF IInv, Types
  <2>2. \A o \in Ops : journal[shop.at][o].state # "None" => journal'[shop.at][o].state # "None"
    BY <2>1 DEF Kept, Own
  <2> QED BY <2>2, SameKnown, SameBusy DEF IInv, Handed1
<1> QED BY <1>1, SameKnown DEF BookFacts

LEMMA RegisteredFacts ==
  ASSUME IInv, SameErp, shop' = shop, NEW g \in Gateways, Plugged(g), Kept(g),
         NEW o \in Ops, RegistersFor(o), o = work[g].op, journal[g][o].state # "None"
  PROVE  BookFacts'
<1>1. /\ IsBusy(o) /\ Registered(Inv(o)) = {}
      /\ Counter' = Counter + 1 /\ Registered(Inv(o))' = {Counter'}
      /\ \A j \in Invoices : j # Inv(o) => Registered(j)' = Registered(j)
  BY Registering DEF RegistersFor
<1>2. PICK i \in Invoices : i = Inv(o)
  BY <1>1, InvOfOp, BusyNames DEF IInv, IsBusy
<1>3. Registered(i)' = {Counter'}
  BY <1>1, <1>2, SameBusy DEF Registered
<1>4. \A p \in Ops : p # o => ~IsBusy(p)
  BY <1>1 DEF IInv, OneBusy
<1>5. invoice[i].status # "Normalized"
  <2>1. o \in Created /\ status[o] \in Waiting
    BY <1>1, InvOfOp, BusyNames DEF IInv, IsBusy
  <2> QED BY <1>2, <2>1 DEF IInv, RowsOk
<1>6. ASSUME NEW j \in Invoices PROVE Known(j)'
  <2>1. CASE j = i
    BY <1>1, <1>2, <1>3, <1>5, <2>1, SameBusy DEF Known
  <2>2. CASE j # i
    <3>1. Known(j) /\ Registered(j)' = Registered(j)
      BY <1>1, <1>2, <2>2 DEF IInv
    <3>2. ~(\E p \in Ops : IsBusy(p) /\ Inv(p) = j)
      BY <1>2, <1>4, <2>2
    <3> QED BY <3>1, <3>2, SameBusy DEF Known
  <2> QED BY <2>1, <2>2
<1>7. CounterOk'
  <2>1. LastTc <= Counter
    BY DEF IInv, CounterOk
  <2>2. LastTc \in Nat /\ Counter \in Nat
    BY OneMcf, CountersAreNumbers, CounterIsNat, Numbers DEF IInv, Types, LastTc
  <2> QED BY <1>1, <2>1, <2>2, SameBusy DEF CounterOk
<1>8. Handed1'
  <2> SUFFICES ASSUME NEW p \in Ops, status[p] = "Leased", Registered(Inv(p))' # {}
               PROVE  \/ lease[p].gw # shop.active
                      \/ shop.active = shop.at /\ journal'[shop.at][p].state # "None"
    BY SameBusy DEF Handed1
  <2>1. p = o
    BY <1>4, BusyNames DEF IsBusy
  <2>2. lease[o].gw = g
    BY <1>1, <2>1 DEF IInv, Station, Mine
  <2>3. journal'[g][o].state # "None" /\ shop.at = g
    BY DEF Kept, Plugged
  <2> QED BY <2>1, <2>2, <2>3
<1> QED BY <1>6, <1>7, <1>8 DEF BookFacts

LEMMA OwnKeeps ==
  ASSUME IInv, NEW g \in Gateways, Kept(g), g \in shop.revoked \cup {shop.at},
         SameBook \/ (Plugged(g) /\ RegistersFor(work[g].op) /\ work[g].op \in Ops
                      /\ journal[g][work[g].op].state # "None")
  PROVE  IInv'
<1>1. Own(g) /\ SameErp /\ shop' = shop /\ late' = late
  BY OwnSame DEF Kept
<1>2. TypeOK' /\ Quiet' /\ WaitingIsNewest' /\ RowsOk' /\ OneBusy'
  BY <1>1, SameRows
<1>3. Types'
  <2>1. shop \in [active : Gateways, at : Gateways, revoked : SUBSET Gateways]
        /\ late \subseteq [gw : Gateways, res : Results]
    BY DEF IInv, Types
  <2> QED BY <1>1, <1>2, <2>1 DEF Types, Own
<1>4. BookFacts'
  <2>1. PICK o : o = work[g].op
    OBVIOUS
  <2> QED BY <1>1, <2>1, SameFacts, RegisteredFacts
<1>5. Shops'
  <2>1. \A h \in Gateways : h \notin shop.revoked \cup {shop.at} => Unused(h)'
    BY <1>1 DEF IInv, Shops, Unused, Own
  <2>2. \A o : IsBusy(o)' = IsBusy(o)
    BY <1>1, SameBusy
  <2>3. lease' = lease /\ nTokens' = nTokens
    BY <1>1 DEF SameErp
  <2> QED BY <1>1, <2>1, <2>2, <2>3 DEF IInv, Shops
<1>6. ASSUME NEW h \in Gateways, Plugged(h)' PROVE Station(h)'
  <2>1. Plugged(h)
    BY <1>1, <1>6 DEF Plugged
  <2>2. CASE h = g
    BY <2>1, <2>2 DEF Kept
  <2>3. CASE h # g
    <3>1. SameBook
      BY <2>1, <2>3 DEF Plugged
    <3>2. journal'[h] = journal[h] /\ work'[h] = work[h]
      BY <1>1, <2>3 DEF Own
    <3> QED BY <1>1, <2>1, <3>1, <3>2, StationSame
  <2> QED BY <2>2, <2>3
<1>7. ASSUME NEW h \in Gateways PROVE BarrierAt(h)'
  <2>1. CASE h = g
    <3>1. CASE Plugged(g)
      BY <1>2, <1>3, <2>1, <3>1, BarrierHere DEF Kept
    <3>2. CASE ~Plugged(g)
      BY <2>1, <3>2 DEF Kept
    <3> QED BY <3>1, <3>2
  <2>2. CASE h # g
    BY <1>1, <2>2 DEF Own, BarrierAt, IInv
  <2> QED BY <2>1, <2>2
<1> QED BY <1>2, <1>3, <1>4, <1>5, <1>6, <1>7 DEF IInv, BookFacts

LEMMA ExecuteKeeps == ASSUME IInv, NEW g \in Gateways, Execute(g) PROVE IInv'
<1>1. Kept(g)
  BY ReceiveKept, PrepareKept, OpenInvoiceKept, FailsBefore38hKept, RecordFinalizingKept,
     FinalizeKept, RecordDoneKept, CheckWorkKept DEF Execute
<1>2. SameBook \/ (Plugged(g) /\ RegistersFor(work[g].op) /\ work[g].op \in Ops
                   /\ journal[g][work[g].op].state # "None")
  BY ReceiveKept, PrepareKept, OpenInvoiceKept, FailsBefore38hKept, RecordFinalizingKept,
     FinalizeKept, RecordDoneKept, CheckWorkKept DEF Execute
<1>3. work[g].step # "idle"
  BY DEF Execute, Receive, Prepare, OpenInvoice, FailsBefore38h, RecordFinalizing, Finalize,
         RecordDone, CheckWork, At
<1>4. g \in shop.revoked \cup {shop.at}
  BY <1>3 DEF IInv, Shops, Unused, NoWork
<1> QED BY <1>1, <1>2, <1>4, OwnKeeps

LEMMA ReconcileKeeps == ASSUME IInv, NEW g \in Gateways, Reconcile(g) PROVE IInv'
<1>1. Kept(g) /\ SameBook /\ ~Unused(g)
  BY ReconcileKept
<1>2. g \in shop.revoked \cup {shop.at}
  BY <1>1 DEF IInv, Shops
<1> QED BY <1>1, <1>2, OwnKeeps

LEMMA CrashKeeps == ASSUME IInv, NEW g \in Gateways, Crash(g) PROVE IInv'
<1>1. work' = [work EXCEPT ![g] = NoWork] /\ UNCHANGED <<erp, journal, mcf, shop, late>>
  BY DEF Crash
<1>2. Kept(g) /\ SameBook
  BY <1>1, StopKept
<1>3. g \in shop.revoked \cup {shop.at}
  BY DEF Crash, IInv, Shops, Unused
<1> QED BY <1>2, <1>3, OwnKeeps

(* The posting of a result times out: it may arrive later. *)
LEMMA PostFailsKeeps == ASSUME IInv, NEW g \in Gateways, PostFails(g) PROVE IInv'
<1>1. /\ work[g].step = "post" /\ work' = [work EXCEPT ![g] = NoWork]
      /\ UNCHANGED <<erp, journal, mcf, shop>>
  BY DEF PostFails, At
<1>2. g \in shop.revoked \cup {shop.at}
  BY <1>1 DEF IInv, Shops, Unused, NoWork
<1>3. CASE late' = late
  <2>1. Kept(g) /\ SameBook
    BY <1>1, <1>3, StopKept
  <2> QED BY <1>2, <2>1, OwnKeeps
<1>4. CASE shop.active = g /\ late' = late \cup {[gw |-> g, res |-> journal[g][work[g].op].res]}
  <2>1. Plugged(g)
    BY <1>2, <1>4 DEF IInv, Shops, Plugged
  <2>2. PICK o \in Ops, t \in 0..MaxTokens, e \in EntryRows :
             /\ o = work[g].op /\ t = work[g].token /\ e = journal[g][o] /\ o # 0 /\ Types
             /\ Plugged(g) => StepOk(g) /\ EntryOk(g, o) /\ t <= nTokens /\ e.token <= nTokens
    BY <1>1, AtStep
  <2>3. e.state \in {"DONE", "REJECTED", "UNCERTAIN"}
    BY <1>1, <2>1, <2>2 DEF StepOk
  <2>4. PICK r \in Results : r = e.res
    BY <2>2, <2>3, EntryFields
  <2>5. PICK x : x = [gw |-> g, res |-> r]
    OBVIOUS
  <2>6. x.gw = g /\ x.res = r /\ late' = late \cup {x} /\ x \in [gw : Gateways, res : Results]
    BY <1>4, <2>2, <2>4, <2>5
  <2>7. /\ r.op = o
        /\ r.outcome = "normalized" => e.state = "DONE"
        /\ r.outcome = "rejected" => e.state = "REJECTED" /\ r.token <= nTokens
    <3>1. EntryOk(g, o)
      BY <2>1, <2>2
    <3>2. CASE e.state = "DONE"
      <4>1. r = Normalized(o, r.sig)
        BY <2>2, <2>4, <3>1, <3>2 DEF EntryOk
      <4>2. r.op = o /\ r.outcome = "normalized"
        BY <4>1 DEF Normalized
      <4> QED BY <3>2, <4>2
    <3>3. CASE e.state = "REJECTED"
      BY <2>2, <2>4, <3>1, <3>3 DEF EntryOk
    <3>4. CASE e.state = "UNCERTAIN"
      BY <2>2, <2>4, <3>1, <3>4 DEF EntryOk
    <3> QED BY <2>3, <3>2, <3>3, <3>4
  <2>8. SameErp /\ SameBook /\ shop' = shop /\ journal' = journal
    BY <1>1 DEF SameErp, erp, queue, windows, SameBook
  <2>9. TypeOK' /\ Quiet' /\ WaitingIsNewest' /\ RowsOk' /\ OneBusy'
    BY <2>8, SameRows
  <2>10. /\ Mine(g)' /\ WorkHolds(g)' /\ StepOk(g)'
         /\ work' \in [Gateways -> Works] /\ work'[g] = NoWork
         /\ \A h \in Gateways : h # g => work'[h] = work[h]
    BY <1>1, <2>1, StopKept
  <2>11. Types'
    <3>1. late' \subseteq [gw : Gateways, res : Results]
      BY <2>2, <2>6 DEF Types
    <3> QED BY <1>1, <2>2, <2>9, <2>10, <3>1 DEF Types
  <2>12. Handed1'
    BY <2>8, SameKnown, SameBusy DEF IInv, Handed1
  <2>13. Shops'
    <3>1. \A h \in Gateways : h \notin shop.revoked \cup {shop.at} => Unused(h)'
      BY <2>1, <2>6, <2>8, <2>10 DEF IInv, Shops, Unused, Plugged
    <3>2. \A p : IsBusy(p)' = IsBusy(p)
      BY <2>8, SameBusy
    <3> QED BY <2>8, <3>1, <3>2 DEF IInv, Shops, SameErp
  <2>14. Station(g)'
    <3>1. \A p, n : Current(p, n)' = Current(p, n)
      BY <2>8 DEF SameErp, Current, IsBusy
    <3>2. LateOk(g)'
      <4> SUFFICES ASSUME NEW y \in late', y.gw = g
                   PROVE  /\ journal[g][y.res.op].state # "None"
                          /\ y.res.outcome = "normalized" =>
                               journal[g][y.res.op].state = "DONE" /\ y.res = journal[g][y.res.op].res
                          /\ y.res.outcome = "rejected" =>
                               /\ y.res.token <= nTokens
                               /\ Current(y.res.op, y.res.token) =>
                                    /\ journal[g][y.res.op].state = "REJECTED"
                                    /\ journal[g][y.res.op].res.token = y.res.token
        BY <2>8, <3>1 DEF LateOk, SameErp
      <4>1. CASE y \in late
        BY <2>1, <4>1 DEF IInv, Station, LateOk
      <4>2. CASE y = x
        BY <2>2, <2>3, <2>4, <2>6, <2>7, <4>2
      <4> QED BY <2>6, <4>1, <4>2
    <3>3. \A p \in Ops : EntryOk(g, p)'
      <4>1. \A p \in Ops : EntryOk(g, p)
        BY <2>1 DEF IInv, Station
      <4>2. \A p, n : Settles(p, n)' = Settles(p, n)
        BY <2>8, BookSame, SameKnown, SameBusy DEF Settles, SameErp
      <4>3. \A p : IsBusy(p)' = IsBusy(p) /\ status' = status /\ nTokens' = nTokens
        BY <2>8, SameBusy DEF SameErp
      <4>4. \A p, n : Normalized(p, n)' = Normalized(p, n)
        BY DEF Normalized
      <4>5. \A p : Registered(Inv(p))' = Registered(Inv(p))
        BY <2>8, SameKnown
      <4> QED BY <2>8, <3>1, <4>1, <4>2, <4>3, <4>4, <4>5 DEF EntryOk
    <3> QED BY <2>10, <3>2, <3>3 DEF Station
  <2>15. ASSUME NEW h \in Gateways PROVE (Plugged(h)' => Station(h)') /\ BarrierAt(h)'
    <3>1. Plugged(h)' => h = g
      BY <2>1, <2>8 DEF Plugged
    <3>2. BarrierAt(h)'
      BY <2>8, <2>10 DEF IInv, BarrierAt, NoWork
    <3> QED BY <2>14, <3>1, <3>2
  <2> QED BY <2>8, <2>9, <2>11, <2>12, <2>13, <2>15, SameKnown DEF IInv
<1> QED BY <1>3, <1>4 DEF PostFails

(* Another gateway is approved, or the MCF is plugged in the station approved last. *)
LEMMA ShopKeeps ==
  ASSUME IInv, UNCHANGED <<erp, journal, work, mcf, late>>,
         shop' \in [active : Gateways, at : Gateways, revoked : SUBSET Gateways],
         Shops', Handed1',
         \A h \in Gateways : shop'.at = h => Station(h)'
  PROVE  IInv'
<1>1. SameErp /\ SameBook
  BY DEF SameErp, erp, queue, windows, SameBook
<1>2. TypeOK' /\ Quiet' /\ WaitingIsNewest' /\ RowsOk' /\ OneBusy'
  BY <1>1, SameRows
<1>3. Types'
  BY <1>2 DEF IInv, Types
<1>4. \A h \in Gateways : BarrierAt(h)'
  BY DEF IInv, BarrierAt
<1> QED BY <1>1, <1>2, <1>3, <1>4, SameKnown DEF IInv, Plugged

LEMMA ReplaceKeeps == ASSUME IInv, NEW g \in Gateways, Replace(g) PROVE IInv'
<1>1. /\ g \notin shop.revoked \cup {shop.active}
      /\ UNCHANGED <<erp, journal, work, mcf, late>>
      /\ shop' = [shop EXCEPT !.active = g, !.revoked = shop.revoked \cup {shop.active}]
  BY DEF Replace
<1>2. shop \in [active : Gateways, at : Gateways, revoked : SUBSET Gateways]
  BY DEF IInv, Types
<1>3. PICK rv \in SUBSET Gateways : rv = shop.revoked \cup {shop.active}
  BY <1>2
<1>4. /\ shop' \in [active : Gateways, at : Gateways, revoked : SUBSET Gateways]
      /\ shop'.active = g /\ shop'.at = shop.at /\ shop'.revoked = rv
  BY <1>1, <1>2, <1>3
<1>5. SameErp /\ SameBook /\ journal' = journal /\ late' = late /\ work' = work
  BY <1>1 DEF SameErp, erp, queue, windows, SameBook
<1>6. \A o : IsBusy(o)' = IsBusy(o) /\ status' = status /\ lease' = lease /\ nTokens' = nTokens
  BY <1>5, SameBusy DEF SameErp
<1>7. Shops'
  <2>1. \A h \in Gateways : h \notin rv \cup {shop.at} => Unused(h)'
    BY <1>3, <1>5 DEF IInv, Shops, Unused
  <2>2. shop.at \in rv \cup {g} /\ g \notin rv
    BY <1>1, <1>3 DEF IInv, Shops
  <2>3. \A o \in Ops : IsBusy(o) => lease[o].token \in 1..nTokens /\ lease[o].gw \in rv \cup {g}
    BY <1>3 DEF IInv, Shops
  <2> QED BY <1>4, <1>6, <2>1, <2>2, <2>3 DEF Shops
<1>8. Handed1'
  <2>1. \A o \in Ops : status[o] = "Leased" => lease[o].gw # g
    BY <1>1, BusyNames DEF IInv, Shops, IsBusy
  <2> QED BY <1>4, <1>6, <2>1 DEF Handed1
<1>9. ASSUME NEW h \in Gateways, shop'.at = h PROVE Station(h)'
  <2>1. Station(h) /\ Plugged(h)
    BY <1>4, <1>9 DEF IInv, Plugged
  <2>2. h # g
    BY <1>1, <1>4, <1>9 DEF IInv, Shops
  <2>3. Mine(h)'
    BY <1>4, <1>5, <1>6, <2>1, <2>2 DEF Station, Mine
  <2>4. ResultsOk(h)'
    <3>1. \A p \in Ops : journal[h][p].token <= nTokens
      BY <2>1 DEF Station, EntryOk
    <3> QED BY <1>5, <2>1, <3>1, SameResults
  <2>5. WorkHolds(h)' /\ StepOk(h)'
    <3>1. WorkHolds(h) /\ StepOk(h)
      BY <2>1 DEF Station
    <3>2. Registered(Inv(work[h].op))' = Registered(Inv(work[h].op)) /\ Counter' = Counter
      BY <1>5, BookSame, SameBusy DEF Registered, SameErp, Inv
    <3>3. Undelivered(h)' = Undelivered(h) /\ Open(h)' = Open(h)
      BY <1>5 DEF Undelivered, Open
    <3>4. IsBusy(work[h].op)' = IsBusy(work[h].op)
      BY <1>5 DEF SameErp, IsBusy
    <3>5. WorkHolds(h)'
      BY <1>5, <1>6, <3>1, <3>3 DEF WorkHolds
    <3> QED BY <1>5, <3>1, <3>2, <3>3, <3>4, <3>5 DEF StepOk
  <2> QED BY <2>3, <2>4, <2>5, StationFrom
<1> QED BY <1>1, <1>4, <1>7, <1>8, <1>9, ShopKeeps

LEMMA PlugKeeps == ASSUME IInv, Plug PROVE IInv'
<1>1. /\ shop.at # shop.active /\ UNCHANGED <<erp, journal, work, mcf, late>>
      /\ shop' = [shop EXCEPT !.at = shop.active]
  BY DEF Plug
<1>2. shop \in [active : Gateways, at : Gateways, revoked : SUBSET Gateways]
  BY DEF IInv, Types
<1>3. PICK g \in Gateways : g = shop.active
  BY <1>2
<1>4. /\ shop' \in [active : Gateways, at : Gateways, revoked : SUBSET Gateways]
      /\ shop'.active = g /\ shop'.at = g /\ shop'.revoked = shop.revoked
  BY <1>1, <1>2, <1>3
<1>5. SameErp /\ SameBook /\ journal' = journal /\ late' = late /\ work' = work
  BY <1>1 DEF SameErp, erp, queue, windows, SameBook
<1>6. \A o : IsBusy(o)' = IsBusy(o) /\ status' = status /\ lease' = lease /\ nTokens' = nTokens
  BY <1>5, SameBusy DEF SameErp
<1>7. Unused(g) /\ shop.at \in shop.revoked
  BY <1>1, <1>3 DEF IInv, Shops
<1>8. Shops'
  <2>1. \A h \in Gateways : h \notin shop.revoked \cup {g} => Unused(h)'
    BY <1>5, <1>7 DEF IInv, Shops, Unused
  <2> QED BY <1>3, <1>4, <1>6, <2>1 DEF IInv, Shops
<1>9. Handed1'
  <2>1. \A o \in Ops : status[o] = "Leased" /\ Registered(Inv(o)) # {} => lease[o].gw # g
    BY <1>1, <1>3 DEF IInv, Handed1
  <2> QED BY <1>4, <1>5, <1>6, <2>1, SameKnown DEF Handed1
<1>10. Station(g)'
  <2>1. nTokens \in Nat
    BY Numbers DEF IInv, Types, TypeOK
  <2>2. \A p \in Ops : EntryOk(g, p)'
    BY <1>5, <1>6, <1>7, <2>1 DEF Unused, EntryOk, NoEntry, OpenStates
  <2>3. Mine(g)'
    BY <1>5, <1>7, Numbers DEF Unused, Mine, NoEntry, NoWork
  <2>4. WorkHolds(g)' /\ StepOk(g)'
    BY <1>5, <1>6, <1>7, <2>1 DEF Unused, WorkHolds, StepOk, NoWork
  <2>5. LateOk(g)'
    BY <1>5, <1>7 DEF Unused, LateOk
  <2> QED BY <2>2, <2>3, <2>4, <2>5 DEF Station
<1> QED BY <1>1, <1>4, <1>8, <1>9, <1>10, ShopKeeps

----
(***************************************************************************)
(* The steps of ERPNext: requests, polls, heartbeats, expiries, the        *)
(* withdrawals of queued operations, and the results it takes.             *)
(***************************************************************************)

SameLease(o) == lease'[o].gw = lease[o].gw /\ lease'[o].token = lease[o].token

FreshLease(o) ==
  lease'[o].gw = shop.active /\ lease'[o].token = nTokens + 1 /\ nTokens' = nTokens + 1

(* What may become of a busy operation. *)
StaysBusy(o) ==
  /\ status'[o] \in Busy
  /\ \/ SameLease(o) /\ (status'[o] = "Leased" => status[o] = "Leased")
     \/ FreshLease(o) /\ status'[o] = "Checking"

IsAccepted(o) ==
  /\ status'[o] = "Normalized" /\ Registered(Inv(o)) = {result'[o].sig}
  /\ invoice'[Inv(o)].status = "Normalized" /\ invoice'[Inv(o)].sig = result'[o].sig

IsRejected(o) == status'[o] = "Rejected" /\ Registered(Inv(o)) = {}

(* An operation gets busy when no other one is. *)
GetsBusy(o) ==
  /\ status[o] = "Queued" /\ FreshLease(o)
  /\ \A p \in Ops : ~IsBusy(p) /\ (p # o => status'[p] \notin Busy)

InvoiceGoes(i) ==
  /\ invoice[i].status = "Normalized" =>
       invoice'[i].status = "Normalized" /\ invoice'[i].sig = invoice[i].sig
  /\ invoice'[i].status = "Normalized" =>
       \/ invoice[i].status = "Normalized"
       \/ \E o \in Ops : IsBusy(o) /\ Inv(o) = i /\ status'[o] = "Normalized"

Gentle ==
  /\ nTokens' \in Nat /\ nTokens <= nTokens'
  /\ \A o \in Ops : status[o] \in Closed => status'[o] = status[o] /\ result'[o] = result[o]
  /\ \A o \in Ops : IsBusy(o) => StaysBusy(o) \/ IsAccepted(o) \/ IsRejected(o)
  /\ \A o \in Ops : ~IsBusy(o) /\ status'[o] \in Busy => GetsBusy(o)
  /\ \A o \in Ops : ~IsBusy(o) => status'[o] # "Rejected" \/ status[o] = "Rejected"
  /\ \A i \in Invoices : InvoiceGoes(i)
  /\ \/ LastTc' = LastTc
     \/ LastTc' \in 0..Counter /\ \A o \in Ops : status'[o] \notin Busy

(* The journals, in which a result may get delivered: a rejection only once ERPNext took *)
(* it, or when it does not count any more.                                               *)
JournalGoes ==
  /\ journal' \in Journals
  /\ \A g \in Gateways, p \in Ops :
       /\ journal'[g][p].state = journal[g][p].state /\ journal'[g][p].token = journal[g][p].token
       /\ journal'[g][p].res = journal[g][p].res
       /\ \/ journal'[g][p].delivered = journal[g][p].delivered
          \/ /\ journal[g][p].state # "None"
             /\ ~(journal[g][p].state = "REJECTED" /\ Current(p, journal[g][p].res.token)')

ErpStep == UNCHANGED <<mcf, shop>> /\ late' \subseteq late /\ JournalGoes /\ [Next]_vars

(* A settled operation had its conclusion in the journal of the station of the MCF, and *)
(* the execution of a rejected one is not started again.                                *)
SettlesWell(g) ==
  \A o \in Ops : IsBusy(o) /\ status'[o] \notin Busy =>
    \/ journal[g][o].state = "DONE"
    \/ journal[g][o].state = "REJECTED" /\ ~(work'[g].op = o /\ work'[g].step = "leased")

LEMMA ErpFrame ==
  ASSUME IInv, ErpStep
  PROVE  /\ TypeOK' /\ Quiet' /\ WaitingIsNewest' /\ SameBook
         /\ \A o \in Created : doc'[o] = doc[o] /\ Inv(o)' = Inv(o)
         /\ \A o \in Ops : status[o] \in Waiting \cup Closed =>
              Inv(o)' = Inv(o) /\ Registered(Inv(o))' = Registered(Inv(o)) /\ Inv(o) \in Invoices
<1>1. TypeOK' /\ Quiet' /\ WaitingIsNewest' /\ SameBook
  BY NoWindows, TypeNext, QuietNext, NewestStep DEF IInv, Types, ErpStep, SameBook
<1>2. \A o \in Created : doc'[o] = doc[o] /\ Inv(o)' = Inv(o)
  BY Frame DEF IInv, Types, ErpStep, Inv
<1>3. ASSUME NEW o \in Ops, status[o] \in Waiting \cup Closed
      PROVE  Inv(o)' = Inv(o) /\ Registered(Inv(o))' = Registered(Inv(o)) /\ Inv(o) \in Invoices
  <2>1. o \in Created /\ Inv(o) \in Invoices
    BY <1>3, InvOfOp DEF IInv
  <2>2. \A i : Registered(i)' = Registered(i)
    BY <1>1, BookSame
  <2>3. PICK i : i = Inv(o)
    OBVIOUS
  <2>4. Inv(o)' = i
    BY <1>2, <2>1, <2>3
  <2>5. Registered(i)' = Registered(i)
    BY <2>2
  <2> QED BY <2>1, <2>3, <2>4, <2>5 DEF Registered
<1> QED BY <1>1, <1>2, <1>3

LEMMA GentleFacts ==
  ASSUME IInv, ErpStep, Gentle
  PROVE  /\ OneBusy' /\ BookFacts'
         /\ \A o \in Ops : IsBusy(o)' =>
              lease'[o].token \in 1..nTokens' /\ lease'[o].gw \in shop.revoked \cup {shop.active}
<1>0. shop' = shop /\ Counter' = Counter /\ (\A i : Registered(i)' = Registered(i)) /\ Types
  BY ErpFrame, BookSame DEF ErpStep, IInv
<1>1. OneBusy'
  <2> SUFFICES ASSUME NEW o \in Ops, NEW p \in Ops, status'[o] \in Busy, status'[p] \in Busy, o # p
               PROVE  FALSE
    BY DEF OneBusy, IsBusy
  <2>1. IsBusy(o) /\ IsBusy(p)
    BY DEF Gentle, GetsBusy
  <2> QED BY <2>1 DEF IInv, OneBusy
<1>2. ASSUME NEW i \in Invoices PROVE Known(i)'
  <2>1. Known(i) /\ InvoiceGoes(i)
    BY DEF IInv, Gentle
  <2>2. ASSUME NEW o \in Ops, IsBusy(o), Inv(o) = i, status'[o] = "Normalized"
        PROVE  invoice'[i].status = "Normalized" /\ Registered(i) = {invoice'[i].sig}
    <3>1. ~StaysBusy(o) /\ ~IsRejected(o)
      BY <2>2, BusyNames DEF StaysBusy, IsRejected
    <3> QED BY <2>2, <3>1 DEF Gentle, IsAccepted
  <2>3. CASE invoice[i].status = "Normalized"
    BY <1>0, <2>1, <2>3 DEF InvoiceGoes, Known
  <2>4. CASE invoice[i].status # "Normalized" /\ invoice'[i].status = "Normalized"
    <3>1. PICK o \in Ops : IsBusy(o) /\ Inv(o) = i /\ status'[o] = "Normalized"
      BY <2>1, <2>4 DEF InvoiceGoes
    <3>2. Registered(i) = {invoice'[i].sig}
      BY <2>2, <3>1
    <3> QED BY <1>0, <2>4, <3>2 DEF Known
  <2>5. CASE invoice[i].status # "Normalized" /\ invoice'[i].status # "Normalized"
    <3>1. CASE Registered(i) = {}
      BY <1>0, <2>5, <3>1 DEF Known
    <3>2. CASE Registered(i) # {}
      <4>1. PICK o \in Ops : IsBusy(o) /\ Inv(o) = i /\ Registered(i) = {Counter}
        BY <2>1, <2>5, <3>2 DEF Known
      <4>2. StaysBusy(o)
        BY <2>2, <2>5, <3>2, <4>1 DEF Gentle, IsAccepted, IsRejected
      <4>3. IsBusy(o)' /\ Inv(o)' = i
        BY <4>1, <4>2, ErpFrame, BusyNames DEF StaysBusy, IsBusy
      <4> QED BY <1>0, <2>5, <4>1, <4>3 DEF Known
    <3> QED BY <3>1, <3>2
  <2> QED BY <2>3, <2>4, <2>5
<1>3. ASSUME NEW o \in Ops, status'[o] \in Busy, ~IsBusy(o)
      PROVE  Registered(Inv(o))' = {}
  <2>1. status[o] = "Queued" /\ \A p \in Ops : ~IsBusy(p)
    BY <1>3 DEF Gentle, GetsBusy
  <2>2. o \in Created /\ Inv(o) \in Invoices /\ status[o] \in Waiting
    BY <2>1, InvOfOp, BusyNames DEF IInv
  <2>3. invoice[Inv(o)].status # "Normalized"
    BY <2>2 DEF IInv, RowsOk
  <2>4. Registered(Inv(o)) = {}
    BY <2>1, <2>2, <2>3 DEF IInv, Known
  <2> QED BY <2>2, <2>4, ErpFrame
<1>4. CounterOk'
  <2>1. LastTc \in Nat /\ Counter \in Nat /\ LastTc <= Counter
    BY <1>0, OneMcf, CountersAreNumbers, CounterIsNat, Numbers DEF IInv, Types, LastTc, CounterOk
  <2>2. LastTc' <= Counter
    BY <2>1 DEF Gentle
  <2>3. ASSUME NEW o \in Ops, status'[o] \in Busy, Registered(Inv(o))' # {} PROVE LastTc' < Counter
    <3>1. IsBusy(o)
      BY <1>3, <2>3
    <3>2. Registered(Inv(o)) # {}
      BY <2>3, <3>1, ErpFrame, BusyNames DEF IsBusy
    <3> QED BY <2>3, <3>1, <3>2 DEF IInv, CounterOk, Gentle
  <2> QED BY <1>0, <2>2, <2>3 DEF CounterOk, IsBusy
<1>5. Handed1'
  <2> SUFFICES ASSUME NEW o \in Ops, status'[o] = "Leased", Registered(Inv(o))' # {}
               PROVE  \/ lease'[o].gw # shop.active
                      \/ shop.active = shop.at /\ journal'[shop.at][o].state # "None"
    BY <1>0 DEF Handed1
  <2>1. IsBusy(o)
    BY <1>3, BusyNames
  <2>2. status[o] = "Leased" /\ SameLease(o)
    BY <2>1 DEF Gentle, StaysBusy, IsAccepted, IsRejected
  <2>3. Registered(Inv(o)) # {}
    BY <2>1, ErpFrame, BusyNames DEF IsBusy
  <2>4. shop.at \in Gateways
    BY <1>0 DEF Types
  <2>5. journal'[shop.at][o].state = journal[shop.at][o].state
    BY <2>4 DEF ErpStep, JournalGoes
  <2> QED BY <2>2, <2>3, <2>5 DEF IInv, Handed1, SameLease
<1>6. ASSUME NEW o \in Ops, status'[o] \in Busy
      PROVE  lease'[o].token \in 1..nTokens' /\ lease'[o].gw \in shop.revoked \cup {shop.active}
  <2>1. nTokens \in Nat /\ nTokens' \in Nat /\ nTokens <= nTokens'
    BY <1>0, Numbers DEF Types, TypeOK, Gentle
  <2>2. FreshLease(o) \/ (IsBusy(o) /\ SameLease(o))
    BY <1>6, BusyNames DEF Gentle, StaysBusy, GetsBusy, IsAccepted, IsRejected
  <2>3. CASE FreshLease(o)
    BY <2>1, <2>3 DEF FreshLease
  <2>4. CASE IsBusy(o) /\ SameLease(o)
    BY <2>1, <2>4 DEF IInv, Shops, SameLease
  <2> QED BY <2>2, <2>3, <2>4
<1> QED BY <1>1, <1>2, <1>4, <1>5, <1>6 DEF BookFacts, IsBusy

(* What a station knows stays true. *)
LEMMA StillCurrent ==
  ASSUME IInv, Gentle, NEW o \in Ops, status[o] \in Busy \cup Closed, NEW t \in Nat, t <= nTokens,
         Current(o, t)'
  PROVE  Current(o, t)
<1>1. nTokens \in Nat
  BY Numbers DEF IInv, Types, TypeOK
<1>2. status'[o] \in Busy /\ IsBusy(o)
  BY BusyNames DEF Gentle, GetsBusy, Current, IsBusy
<1>3. SameLease(o)
  BY <1>1, <1>2, BusyNames DEF Gentle, StaysBusy, FreshLease, Current, IsAccepted, IsRejected
<1> QED BY <1>2, <1>3 DEF Current, SameLease

LEMMA StillSettles ==
  ASSUME IInv, ErpStep, Gentle, NEW o \in Ops, NEW n, Settles(o, n)
  PROVE  Settles(o, n)'
<1>1. status[o] \in Waiting \cup Closed /\ n \in 1..Counter /\ Registered(Inv(o)) = {n}
  BY BusyNames DEF Settles, IsBusy
<1>2. n \in 1..Counter' /\ Registered(Inv(o))' = {n}
  BY <1>1, ErpFrame, BookSame
<1>3. IsBusy(o)' \/ (status'[o] = "Normalized" /\ result'[o].sig = n)
  <2>1. CASE IsBusy(o)
    BY <1>1, <2>1 DEF Gentle, StaysBusy, IsAccepted, IsRejected, IsBusy
  <2>2. CASE status[o] = "Normalized" /\ result[o].sig = n
    BY <2>2, BusyNames DEF Gentle
  <2> QED BY <2>1, <2>2 DEF Settles
<1> QED BY <1>2, <1>3 DEF Settles

LEMMA GentleResults ==
  ASSUME IInv, ErpStep, Gentle, NEW g \in Gateways, Plugged(g), SettlesWell(g)
  PROVE  ResultsOk(g)'
<1>0. Types /\ nTokens \in Nat /\ nTokens' \in Nat /\ nTokens <= nTokens'
  BY Numbers DEF IInv, Types, TypeOK, Gentle
<1>1. ASSUME NEW o \in Ops PROVE EntryOk(g, o)'
  <2>1. PICK e \in EntryRows : e = journal[g][o]
    BY <1>0, EntryFields
  <2>2. EntryOk(g, o)
    BY DEF IInv, Station
  <2>3. e.state # "None" => status[o] \in Busy \cup Closed
    BY <2>1, <2>2 DEF EntryOk
  <2>4. status[o] \in Busy \cup Closed => status'[o] \in Busy \cup Closed
    BY BusyNames DEF Gentle, StaysBusy, IsAccepted, IsRejected, IsBusy
  <2>5. e.state \in OpenStates => IsBusy(o)'
    BY <2>1, <2>2 DEF EntryOk, SettlesWell, IsBusy, OpenStates
  <2>6. PICK n : n = e.res.sig
    OBVIOUS
  <2>7. e.state = "DONE" => e.res = Normalized(o, n) /\ Settles(o, n)'
    BY <2>1, <2>2, <2>6, StillSettles DEF EntryOk
  <2>8. PICK f : f = journal'[g][o]
    OBVIOUS
  <2>9. /\ f.state = e.state /\ f.res = e.res /\ f.token = e.token
        /\ f.delivered = e.delivered \/ ~(e.state = "REJECTED" /\ Current(o, e.res.token)')
    BY <2>1, <2>8 DEF ErpStep, JournalGoes
  <2>10. ASSUME e.state = "REJECTED"
         PROVE  /\ e.res.op = o /\ e.res.outcome = "rejected" /\ e.res.token <= nTokens'
                /\ Current(o, e.res.token)' => Registered(Inv(o))' = {} /\ ~e.delivered
    <3>1. /\ e.res.op = o /\ e.res.outcome = "rejected" /\ e.res.token <= nTokens
          /\ Current(o, e.res.token) => Registered(Inv(o)) = {} /\ ~e.delivered
      BY <2>1, <2>2, <2>10 DEF EntryOk
    <3>2. e.res \in Results
      BY <1>0, <2>1, <2>10, EntryFields
    <3>3. e.res \in RejectedResults
      BY <3>1, <3>2 DEF Results, NormalizedResults, UncertainResults
    <3>4. PICK t \in Nat : t = e.res.token
      BY <3>3, Numbers DEF RejectedResults
    <3>5. Current(o, t)' => Current(o, t)
      BY <1>0, <2>3, <2>10, <3>1, <3>4, StillCurrent
    <3>6. Registered(Inv(o))' = Registered(Inv(o))
      BY <2>3, <2>10, ErpFrame, BusyNames
    <3> QED BY <1>0, <3>1, <3>4, <3>5, <3>6
  <2>11. e.state = "UNCERTAIN" => e.res.op = o /\ e.res.outcome = "uncertain"
    BY <2>1, <2>2 DEF EntryOk
  <2>12. e.token <= nTokens'
    <3>1. e.token <= nTokens /\ e.token \in Nat
      BY <1>0, <2>1, <2>2, EntryFields, Numbers DEF EntryOk
    <3> QED BY <1>0, <3>1
  <2>13. PICK t : t = e.res.token
    OBVIOUS
  <2>14. f.state = "REJECTED" =>
           /\ f.res.op = o /\ f.res.outcome = "rejected" /\ f.res.token <= nTokens'
           /\ Current(o, t)' => Registered(Inv(o))' = {} /\ ~f.delivered
    BY <2>9, <2>10, <2>13
  <2> QED BY <2>3, <2>4, <2>5, <2>6, <2>7, <2>8, <2>9, <2>11, <2>12, <2>13, <2>14 DEF EntryOk, Normalized
<1>2. LateOk(g)'
  <2> SUFFICES ASSUME NEW x \in late', x.gw = g
               PROVE  /\ journal'[g][x.res.op].state # "None"
                      /\ x.res.outcome = "normalized" =>
                           journal'[g][x.res.op].state = "DONE" /\ x.res = journal'[g][x.res.op].res
                      /\ x.res.outcome = "rejected" =>
                           /\ x.res.token <= nTokens'
                           /\ Current(x.res.op, x.res.token)' =>
                                /\ journal'[g][x.res.op].state = "REJECTED"
                                /\ journal'[g][x.res.op].res.token = x.res.token
    BY DEF LateOk
  <2>0. x \in late
    BY DEF ErpStep
  <2>1. x.res \in Results /\ x.res.op \in Ops
    BY <1>0, <2>0, LateFields
  <2>2. /\ journal[g][x.res.op].state # "None"
        /\ x.res.outcome = "normalized" =>
             journal[g][x.res.op].state = "DONE" /\ x.res = journal[g][x.res.op].res
        /\ x.res.outcome = "rejected" =>
             /\ x.res.token <= nTokens
             /\ Current(x.res.op, x.res.token) =>
                  /\ journal[g][x.res.op].state = "REJECTED"
                  /\ journal[g][x.res.op].res.token = x.res.token
    BY <2>0 DEF IInv, Station, LateOk
  <2>3. status[x.res.op] \in Busy \cup Closed
    BY <2>1, <2>2 DEF IInv, Station, EntryOk
  <2>4. ASSUME x.res.outcome = "rejected"
        PROVE  /\ x.res.token <= nTokens'
               /\ Current(x.res.op, x.res.token)' => Current(x.res.op, x.res.token)
    <3>1. x.res \in RejectedResults
      BY <2>1, <2>4 DEF Results, NormalizedResults, UncertainResults
    <3>2. x.res.token \in Nat
      BY <3>1, Numbers DEF RejectedResults
    <3> QED BY <1>0, <2>1, <2>2, <2>3, <2>4, <3>2, StillCurrent
  <2>5. /\ journal'[g][x.res.op].state = journal[g][x.res.op].state
        /\ journal'[g][x.res.op].res = journal[g][x.res.op].res
    BY <2>1 DEF ErpStep, JournalGoes
  <2> QED BY <2>2, <2>4, <2>5
<1> QED BY <1>1, <1>2 DEF ResultsOk

(* What the work of the station that has the MCF becomes: the same, or NewWork. *)
NewWork(g) ==
  /\ WorkHolds(g)' /\ StepOk(g)'
  /\ \A o \in Ops : work'[g].op = o /\ IsBusy(o)' => lease'[o].gw = g

LEMMA GentleMine ==
  ASSUME IInv, ErpStep, Gentle, NEW g \in Gateways, Plugged(g), work'[g] = work[g] \/ NewWork(g)
  PROVE  Mine(g)'
<1> SUFFICES ASSUME NEW o \in Ops, journal'[g][o].state # "None" \/ work'[g].op = o,
                    status'[o] \in Busy, shop.active = g \/ status'[o] = "Leased"
             PROVE  lease'[o].gw = g
  BY DEF Mine, ErpStep, IsBusy
<1>1. journal'[g][o].state = journal[g][o].state
  BY DEF ErpStep, JournalGoes
<1>2. CASE work'[g].op = o /\ NewWork(g)
  BY <1>2 DEF NewWork, IsBusy
<1>3. CASE journal[g][o].state # "None" \/ work[g].op = o
  <2>1. status[o] \in Busy \cup Closed
    <3>1. EntryOk(g, o) /\ WorkHolds(g)
      BY DEF IInv, Station
    <3>2. o # 0
      BY Numbers
    <3> QED BY <1>3, <3>1, <3>2 DEF EntryOk, WorkHolds
  <2>2. IsBusy(o) /\ StaysBusy(o)
    BY <2>1, BusyNames DEF Gentle, GetsBusy, IsAccepted, IsRejected, IsBusy
  <2>3. CASE FreshLease(o) /\ status'[o] = "Checking"
    BY <2>3 DEF FreshLease
  <2>4. CASE SameLease(o) /\ (status'[o] = "Leased" => status[o] = "Leased")
    BY <1>3, <2>2, <2>4 DEF IInv, Station, Mine, SameLease
  <2> QED BY <2>2, <2>3, <2>4 DEF StaysBusy
<1> QED BY <1>1, <1>2, <1>3

LEMMA GentleWork ==
  ASSUME IInv, ErpStep, Gentle, NEW g \in Gateways, Plugged(g), SettlesWell(g),
         work'[g] = work[g], journal' = journal
  PROVE  WorkHolds(g)' /\ StepOk(g)'
<1>1. WorkHolds(g) /\ StepOk(g) /\ Types
  BY DEF IInv, Station
<1>2. Undelivered(g)' = Undelivered(g) /\ Open(g)' = Open(g)
  BY DEF Undelivered, Open
<1>3. nTokens \in Nat /\ nTokens' \in Nat /\ nTokens <= nTokens' /\ work[g].token \in Nat
  BY <1>1, WorkFields, Numbers DEF Types, TypeOK, Gentle
<1>4. work[g].op = 0 \/ work[g].op \in Ops
  BY <1>1, WorkFields
<1>5. PICK o : o = work[g].op
  OBVIOUS
<1>6. ASSUME o # 0
      PROVE  /\ status[o] \in Busy \cup Closed /\ status'[o] \in Busy \cup Closed
             /\ Registered(Inv(o))' = Registered(Inv(o))
  <2>1. o \in Ops /\ status[o] \in Busy \cup Closed
    BY <1>1, <1>4, <1>5, <1>6 DEF WorkHolds
  <2>2. status'[o] \in Busy \cup Closed
    BY <2>1, BusyNames DEF Gentle, StaysBusy, IsAccepted, IsRejected, IsBusy
  <2>3. Registered(Inv(o))' = Registered(Inv(o))
    BY <2>1, ErpFrame, BusyNames
  <2> QED BY <2>1, <2>2, <2>3
<1>7. WorkHolds(g)'
  BY <1>1, <1>2, <1>3, <1>5, <1>6 DEF WorkHolds
<1>8. StepOk(g)'
  <2>1. CASE o = 0
    <3>1. work[g].step \in {"idle", "next"}
      BY <1>1, <1>5, <2>1, WorkFields
    <3> QED BY <3>1 DEF StepOk
  <2>2. CASE o # 0
    <3>1. Counter' = Counter
      BY ErpFrame, BookSame
    <3>2. work[g].step = "leased" => IsBusy(o)' \/ journal[g][o].state = "DONE"
      BY <1>1, <1>4, <1>5, <2>2 DEF StepOk, SettlesWell, IsBusy
    <3>3. Registered(Inv(o))' = Registered(Inv(o))
      BY <1>6, <2>2
    <3> QED BY <1>1, <1>2, <1>5, <3>1, <3>2, <3>3 DEF StepOk
  <2> QED BY <2>1, <2>2
<1> QED BY <1>7, <1>8

(* Such a step keeps the invariant. *)
GoesOn == IInv' /\ Gentle /\ SameBook /\ [Next]_vars

LEMMA ErpKeeps ==
  ASSUME IInv, ErpStep, Gentle, RowsOk', work' \in [Gateways -> Works],
         \A g \in Gateways : ~Plugged(g) => work'[g] = work[g],
         \A g \in Gateways : Plugged(g) =>
           SettlesWell(g) /\ (NewWork(g) \/ (work'[g] = work[g] /\ journal' = journal))
  PROVE  GoesOn
<1>1. TypeOK' /\ Quiet' /\ WaitingIsNewest' /\ SameBook
  BY ErpFrame
<1>2. mcf' = mcf /\ shop' = shop /\ late' \subseteq late /\ journal' \in Journals
  BY DEF ErpStep, JournalGoes
<1>3. Types'
  BY <1>1, <1>2 DEF IInv, Types
<1>4. \A g \in Gateways, p \in Ops : journal'[g][p].state = journal[g][p].state
  BY DEF ErpStep, JournalGoes
<1>5. OneBusy' /\ BookFacts'
      /\ \A o \in Ops : IsBusy(o)' =>
           lease'[o].token \in 1..nTokens' /\ lease'[o].gw \in shop.revoked \cup {shop.active}
  BY GentleFacts
<1>6. Shops'
  <2>1. ASSUME NEW g \in Gateways, g \notin shop.revoked \cup {shop.at} PROVE Unused(g)'
    <3>1. Unused(g) /\ ~Plugged(g)
      BY <2>1 DEF IInv, Shops, Plugged
    <3>2. work'[g] = NoWork /\ \A x \in late' : x.gw # g
      BY <1>2, <3>1 DEF Unused
    <3>3. ASSUME NEW o \in Ops PROVE journal'[g][o] = NoEntry
      <4>1. PICK e \in Entries : e = journal[g][o]
        BY EntryFields DEF IInv
      <4>2. PICK f \in Entries : f = journal'[g][o]
        BY <1>2 DEF Journals
      <4>3. e = NoEntry
        BY <3>1, <4>1 DEF Unused
      <4>4. f.state = e.state /\ f.token = e.token /\ f.res = e.res
            /\ (f.delivered = e.delivered \/ e.state # "None")
        BY <4>1, <4>2 DEF ErpStep, JournalGoes
      <4>5. e.state = "None"
        BY <4>3 DEF NoEntry
      <4>6. f = e
        BY <4>4, <4>5, EntriesEqual
      <4> QED BY <4>2, <4>3, <4>6
    <3> QED BY <3>2, <3>3 DEF Unused, NoWork, NoEntry, NoRes
  <2> QED BY <1>2, <1>5, <2>1 DEF IInv, Shops
<1>7. ASSUME NEW g \in Gateways, Plugged(g)' PROVE Station(g)'
  <2>1. Plugged(g)
    BY <1>2, <1>7 DEF Plugged
  <2>2. ResultsOk(g)'
    BY <2>1, GentleResults
  <2>3. Mine(g)'
    BY <2>1, GentleMine
  <2>4. WorkHolds(g)' /\ StepOk(g)'
    BY <2>1, GentleWork DEF NewWork
  <2> QED BY <2>2, <2>3, <2>4, StationFrom
<1>8. ASSUME NEW g \in Gateways PROVE BarrierAt(g)'
  <2>1. CASE Plugged(g)
    <3>1. Plugged(g)'
      BY <1>2, <2>1 DEF Plugged
    <3> QED BY <1>3, <1>5, <1>7, <3>1, BarrierHere
  <2>2. CASE ~Plugged(g)
    <3>1. BarrierAt(g) /\ work'[g] = work[g]
      BY <2>2 DEF IInv
    <3> QED BY <1>4, <3>1 DEF BarrierAt
  <2> QED BY <2>1, <2>2
<1>9. IInv'
  BY <1>1, <1>3, <1>5, <1>6, <1>7, <1>8 DEF IInv, BookFacts
<1> QED BY <1>1, <1>9 DEF GoesOn, ErpStep

(* The rows of the queue. *)
LEMMA RowsKept ==
  ASSUME IInv, UNCHANGED <<doc, nOps, windows>>,
         \A o \in Created : status'[o] \in Waiting \cup Closed,
         \A o \in Created : status'[o] \in Waiting =>
           /\ status[o] \in Waiting
           /\ invoice'[Inv(o)].status = "Normalized" => invoice[Inv(o)].status = "Normalized"
  PROVE  RowsOk'
<1>1. Created' = Created /\ \A o : Inv(o)' = Inv(o)
  BY DEF Created, Inv
<1>2. reading' = reading /\ judging' = judging /\ leasing' = leasing
  BY DEF windows
<1>3. \A o \in Created : doc[o].kind = "NORMALIZE" /\ Inv(o) \in Invoices /\ doc[o].dev = TheMcf
  BY DEF IInv, RowsOk
<1>4. reading = {} /\ judging = {} /\ \A d \in Devices : leasing[d] = NoGrant
  BY DEF IInv, RowsOk
<1>5. ASSUME NEW o \in Created, status'[o] \in Waiting PROVE invoice'[Inv(o)].status # "Normalized"
  BY <1>5 DEF IInv, RowsOk
<1>6. ASSUME NEW o \in Created' PROVE doc'[o].kind = "NORMALIZE" /\ Inv(o)' \in Invoices /\ doc'[o].dev = TheMcf
  BY <1>1, <1>3, <1>6
<1>7. ASSUME NEW o \in Created' PROVE status'[o] \in Waiting => invoice'[Inv(o)'].status # "Normalized"
  BY <1>1, <1>5, <1>7
<1>8. \A o \in Created' : status'[o] \in Waiting \cup Closed
  BY <1>1
<1> QED BY <1>2, <1>4, <1>6, <1>7, <1>8 DEF RowsOk

(* A new operation, Queued. *)
LEMMA RowsAdded ==
  ASSUME IInv, UNCHANGED windows, NEW i \in Invoices, NEW a,
         Insert("NORMALIZE", i, TheMcf, a), status'[nOps + 1] = "Queued",
         invoice'[i].status # "Normalized",
         \A o \in Created : status'[o] \in Waiting \cup Closed,
         \A o \in Created : status'[o] \in Waiting =>
           /\ status[o] \in Waiting
           /\ invoice'[Inv(o)].status = "Normalized" => invoice[Inv(o)].status = "Normalized"
  PROVE  RowsOk'
<1>0. doc \in [Ops -> Docs] /\ nOps \in Nat
  BY Numbers DEF IInv, Types, TypeOK
<1>1. PICK n \in Ops : n = nOps + 1
  BY <1>0, Numbers DEF Insert, Ops
<1>2. Created' = Created \cup {n} /\ Created \subseteq Ops /\ n \notin Created
  BY <1>0, <1>1, Numbers DEF Insert, Created, Ops
<1>3. doc' = [doc EXCEPT ![n] = [kind |-> "NORMALIZE", inv |-> i, dev |-> TheMcf, attempt |-> a]]
  BY <1>1 DEF Insert
<1>4. doc'[n] = [kind |-> "NORMALIZE", inv |-> i, dev |-> TheMcf, attempt |-> a]
      /\ \A o \in Created : doc'[o] = doc[o]
  BY <1>0, <1>2, <1>3
<1>5. reading' = reading /\ judging' = judging /\ leasing' = leasing
  BY DEF windows
<1>6. reading = {} /\ judging = {} /\ \A d \in Devices : leasing[d] = NoGrant
  BY DEF IInv, RowsOk
<1>7. ASSUME NEW o \in Created
      PROVE  /\ doc'[o].kind = "NORMALIZE" /\ doc'[o].inv \in Invoices /\ doc'[o].dev = TheMcf
             /\ status'[o] \in Waiting => invoice'[doc'[o].inv].status # "Normalized"
  BY <1>4, <1>7 DEF IInv, RowsOk, Inv
<1>8. /\ doc'[n].kind = "NORMALIZE" /\ doc'[n].inv = i /\ doc'[n].dev = TheMcf
      /\ status'[n] = "Queued"
  BY <1>1, <1>4
<1>9. ASSUME NEW o \in Created'
      PROVE  /\ doc'[o].kind = "NORMALIZE" /\ doc'[o].inv \in Invoices /\ doc'[o].dev = TheMcf
             /\ status'[o] \in Waiting \cup Closed
             /\ status'[o] \in Waiting => invoice'[doc'[o].inv].status # "Normalized"
  BY <1>2, <1>7, <1>8, BusyNames
<1> QED BY <1>5, <1>6, <1>9 DEF RowsOk, Inv

----
(* The steps that settle nothing and lease nothing *)

Calm ==
  /\ nTokens' = nTokens /\ result' = result
  /\ \A o \in Ops : SameLease(o)
  /\ \A o \in Ops :
       \/ status'[o] = status[o]
       \/ status[o] = "Queued" /\ status'[o] = "Cancelled"
       \/ status[o] \in Held /\ status'[o] = "Uncertain"
       \/ status[o] = "None" /\ status'[o] = "Queued"
  /\ \A i \in Invoices : \/ invoice'[i] = invoice[i]
                         \/ invoice[i].status # "Normalized" /\ invoice'[i].status # "Normalized"
  /\ \/ LastTc' = LastTc
     \/ LastTc' \in 0..Counter /\ \A o \in Ops : status'[o] \notin Busy

LEMMA CalmGentle ==
  ASSUME IInv, Calm
  PROVE  Gentle /\ \A o \in Ops : IsBusy(o) => status'[o] \in Busy
<1>1. nTokens' \in Nat /\ nTokens <= nTokens'
  BY Numbers DEF Calm, IInv, Types, TypeOK
<1>2. \A o \in Ops : status[o] \in Closed => status'[o] = status[o] /\ result'[o] = result[o]
  BY BusyNames DEF Calm
<1>3. \A o \in Ops : IsBusy(o) => StaysBusy(o)
  BY BusyNames DEF Calm, IsBusy, StaysBusy
<1>4. \A o \in Ops : IsBusy(o) => status'[o] \in Busy
  BY <1>3 DEF StaysBusy
<1>5. \A o \in Ops : ~IsBusy(o) => status'[o] \notin Busy /\ (status'[o] # "Rejected" \/ status[o] = "Rejected")
  BY BusyNames DEF Calm, IsBusy
<1>6. \A i \in Invoices : InvoiceGoes(i)
  BY DEF Calm, InvoiceGoes
<1>7. \/ LastTc' = LastTc
      \/ LastTc' \in 0..Counter /\ \A o \in Ops : status'[o] \notin Busy
  BY DEF Calm
<1> QED BY <1>1, <1>2, <1>3, <1>4, <1>5, <1>6, <1>7 DEF Gentle

LEMMA Statuses ==
  ASSUME IInv
  PROVE  /\ \A o \in Ops \ Created : status[o] = "None"
         /\ \A o \in Created : o \in Ops /\ status[o] \in Waiting \cup Closed /\ status[o] # "None"
         /\ \A o \in Created : Inv(o) \in Invoices /\ doc[o].dev = TheMcf /\ doc[o].kind = "NORMALIZE"
<1>1. Created \subseteq Ops
  BY Numbers DEF IInv, Types, TypeOK, Created, Ops
<1> QED BY <1>1, BusyNames DEF IInv, Quiet, RowsOk

LEMMA CalmRows ==
  ASSUME IInv, Calm, UNCHANGED <<doc, nOps, windows>>
  PROVE  RowsOk'
<1>1. ASSUME NEW o \in Created PROVE status'[o] \in Waiting \cup Closed /\ (status'[o] \in Waiting => status[o] \in Waiting)
  BY <1>1, Statuses, BusyNames DEF Calm
<1>2. ASSUME NEW o \in Created
      PROVE  invoice'[Inv(o)].status = "Normalized" => invoice[Inv(o)].status = "Normalized"
  BY Statuses DEF Calm
<1> QED BY <1>1, <1>2, RowsKept

LEMMA SameCalm ==
  ASSUME IInv, SameErp
  PROVE  Calm /\ RowsOk' /\ [Next]_vars
<1>1. Calm
  BY SameBusy DEF Calm, SameErp, SameLease
<1>2. UNCHANGED vars
  BY DEF SameErp, vars
<1> QED BY <1>1, <1>2, SameRows

LEMMA PollHeldCalm ==
  ASSUME IInv, NEW g \in Gateways, PollHeld(g)
  PROVE  Calm /\ RowsOk' /\ [Next]_vars
<1>1. DeviceOfGateway[g] = TheMcf
  BY OneMcf
<1>2. /\ status' = Expired(TheMcf)
      /\ lease' = [o \in Ops |-> IF o \in Renewed(g, Expired(TheMcf))
                                 THEN [lease[o] EXCEPT !.lapsed = FALSE] ELSE lease[o]]
      /\ UNCHANGED <<doc, result, nOps, nTokens, invoice, device, windows>>
  BY <1>1 DEF PollHeld
<1>3. \A o \in Ops : SameLease(o)
  <2>1. \A o \in Ops : lease[o] \in Leases
    BY DEF IInv, Types, TypeOK
  <2> QED BY <1>2, <2>1 DEF SameLease, Leases
<1>4. \A o \in Ops : status'[o] = status[o] \/ (status[o] \in Held /\ status'[o] = "Uncertain")
  BY <1>2 DEF Expired, Lapsed
<1>5. Calm
  BY <1>2, <1>3, <1>4 DEF Calm, LastTc
<1> QED BY <1>2, <1>5, CalmRows DEF Next

LEMMA HeartbeatCalm ==
  ASSUME IInv, NEW g \in Gateways, NEW tc \in 0..Counter, Heartbeat(g, tc, "same")
  PROVE  Calm /\ RowsOk' /\ [Next]_vars
<1>1. DeviceOfGateway[g] = TheMcf /\ Types
  BY OneMcf DEF IInv
<1>2. UNCHANGED <<status, doc, result, nOps, nTokens, invoice, windows>>
  BY DEF Heartbeat
<1>3. \A o \in Ops : SameLease(o)
  <2>1. \A o \in Ops : lease[o] \in Leases
    BY <1>1 DEF Types, TypeOK
  <2>2. \A o \in Ops : lease'[o] = lease[o] \/ lease'[o] = [lease[o] EXCEPT !.lapsed = FALSE]
    BY DEF Heartbeat
  <2> QED BY <2>1, <2>2 DEF SameLease, Leases
<1>4. LastTc' = LastTc \/ (LastTc' \in 0..Counter /\ \A o \in Ops : status'[o] \notin Busy)
  <2>1. PICK last : last = IF ~(In(OpsOn(TheMcf), Held \cup {"Uncertain"}) # {}) /\ device[TheMcf].lastTc = 0
                           THEN tc ELSE device[TheMcf].lastTc
    OBVIOUS
  <2>2. device' = [device EXCEPT ![TheMcf] = [actif |-> device[TheMcf].actif /\ "same" # "other_identity",
                                              lastTc |-> last]]
    BY <1>1, <2>1 DEF Heartbeat
  <2>3. device'[TheMcf].lastTc = last
    BY <1>1, <2>2, OneMcf DEF Types, TypeOK
  <2>4. In(OpsOn(TheMcf), Held \cup {"Uncertain"}) = {} => \A o \in Ops : status[o] \notin Busy
    <3>1. \A o \in Ops : status[o] \in Busy => o \in Created /\ doc[o].dev = TheMcf
      BY Statuses, BusyNames
    <3> QED BY <3>1 DEF In, OpsOn, Busy
  <2> QED BY <1>2, <2>1, <2>3, <2>4 DEF LastTc
<1>5. Calm
  BY <1>2, <1>3, <1>4 DEF Calm
<1>6. tc \in 0..MaxTC
  BY <1>1, CounterIsNat, Numbers
<1> QED BY <1>2, <1>5, <1>6, CalmRows DEF Next

LEMMA LapseCalm ==
  ASSUME IInv, NEW o \in Ops, LeaseLapses(o)
  PROVE  Calm /\ RowsOk' /\ [Next]_vars
<1>1. /\ lease' = [lease EXCEPT ![o].lapsed = TRUE]
      /\ UNCHANGED <<status, doc, result, nOps, nTokens, invoice, device, windows>>
  BY DEF LeaseLapses
<1>2. \A p \in Ops : SameLease(p)
  <2>1. lease \in [Ops -> Leases]
    BY DEF IInv, Types, TypeOK
  <2> QED BY <1>1, <2>1 DEF SameLease, Leases
<1>3. Calm
  BY <1>1, <1>2 DEF Calm, LastTc
<1> QED BY <1>1, <1>3, CalmRows DEF Next

LEMMA MaintainCalm ==
  ASSUME IInv, ExpireLeases \/ CancelQueued \/ ResolveDispute
  PROVE  Calm /\ RowsOk' /\ [Next]_vars
<1>1. PICK h \in {"expire", "cancel", "dispute"} : Handler(h)
  BY DEF ExpireLeases, CancelQueued, ResolveDispute
<1>2. AtOnce(h)
  <2>1. reading = {} /\ Windows = {}
    BY NoWindows DEF IInv, RowsOk
  <2> QED BY <1>1, <2>1 DEF Handler, StartReading, FinishReading
<1>3. PICK S \in Reads(h) \ {{}} : WriteBack(h, S)
  BY <1>2 DEF AtOnce
<1>4. UNCHANGED <<doc, lease, result, nOps, nTokens, device, windows>>
  BY <1>2 DEF AtOnce
<1>5. /\ status' = [o \in Ops |-> IF o \in S THEN Written(h) ELSE status[o]]
      /\ invoice' = [i \in Invoices |->
           IF h = "expire" \/ \A o \in S : doc[o].inv # i THEN invoice[i]
           ELSE [invoice[i] EXCEPT !.status = "Pending", !.op = IF h = "edit" THEN None ELSE @]]
  BY <1>3 DEF WriteBack
<1>6. CASE h = "expire"
  <2>1. S = {o \in Created : Lapsed(o)}
    BY <1>3, <1>6 DEF Reads
  <2>2. \A o \in Ops : status'[o] = status[o] \/ (status[o] \in Held /\ status'[o] = "Uncertain")
    BY <1>5, <1>6, <2>1 DEF Lapsed, Written
  <2>3. \A i \in Invoices : invoice'[i] = invoice[i]
    BY <1>5, <1>6
  <2>4. Calm
    BY <1>4, <2>2, <2>3 DEF Calm, SameLease, LastTc
  <2> QED BY <1>1, <1>4, <1>6, <2>4, CalmRows DEF Next, ExpireLeases
<1>7. CASE h = "cancel"
  <2>1. PICK o \in Created : S = {o} /\ status[o] = "Queued"
    BY <1>3, <1>7 DEF Reads, In
  <2>2. \A p \in Ops : status'[p] = status[p] \/ (status[p] = "Queued" /\ status'[p] = "Cancelled")
    BY <1>5, <1>7, <2>1 DEF Written
  <2>3. ASSUME NEW i \in Invoices
        PROVE  invoice'[i] = invoice[i] \/ (invoice[i].status # "Normalized" /\ invoice'[i].status # "Normalized")
    <3>1. CASE doc[o].inv # i
      BY <1>5, <2>1, <3>1
    <3>2. CASE doc[o].inv = i
      <4>1. invoice[i].status # "Normalized"
        BY <2>1, <3>2, BusyNames DEF IInv, RowsOk, Inv
      <4>2. invoice[i] \in InvoiceRows
        BY DEF IInv, Types, TypeOK
      <4>3. invoice'[i] = [invoice[i] EXCEPT !.status = "Pending", !.op = invoice[i].op]
        BY <1>5, <1>7, <2>1, <3>2
      <4>4. invoice'[i].status = "Pending"
        BY <4>2, <4>3 DEF InvoiceRows
      <4> QED BY <4>1, <4>4
    <3> QED BY <3>1, <3>2
  <2>4. Calm
    BY <1>4, <2>2, <2>3 DEF Calm, SameLease, LastTc
  <2> QED BY <1>1, <1>4, <1>7, <2>4, CalmRows DEF Next, CancelQueued
<1>8. h # "dispute"
  <2>1. In(Created, {"Dispute"}) = {}
    BY Statuses, BusyNames DEF In
  <2> QED BY <1>3, <2>1 DEF Reads
<1> QED BY <1>1, <1>6, <1>7, <1>8

LEMMA RequestCalm ==
  ASSUME IInv, NEW i \in Invoices, Request(i)
  PROVE  Calm /\ RowsOk' /\ [Next]_vars
<1>0. Types /\ DeviceOfInvoice[i] = TheMcf
  BY OneMcf DEF IInv
<1>1. PICK a : Insert("NORMALIZE", i, TheMcf, a)
  BY <1>0 DEF Request
<1>2. /\ invoice[i].status # "Normalized"
      /\ status' = [status EXCEPT ![nOps + 1] = "Queued"]
      /\ invoice' = [invoice EXCEPT ![i].status = "Pending", ![i].op = nOps + 1]
      /\ UNCHANGED <<lease, result, nTokens, device, windows>>
  BY DEF Request, MayRequest
<1>3. PICK n \in Ops : n = nOps + 1 /\ n \notin Created
  <2>1. nOps \in Nat /\ nOps < MaxOps
    BY <1>0, <1>1, Numbers DEF Types, TypeOK, Insert
  <2> QED BY <2>1, Numbers DEF Ops, Created
<1>4. status'[n] = "Queued" /\ status[n] = "None" /\ \A o \in Ops : o # n => status'[o] = status[o]
  BY <1>0, <1>2, <1>3, Statuses DEF Types, TypeOK
<1>5. invoice'[i].status = "Pending" /\ \A j \in Invoices : j # i => invoice'[j] = invoice[j]
  BY <1>0, <1>2 DEF Types, TypeOK, InvoiceRows
<1>6. Calm
  BY <1>2, <1>4, <1>5 DEF Calm, SameLease, LastTc
<1>7. RowsOk'
  <2>1. \A o \in Created : status'[o] = status[o] /\ status[o] \in Waiting \cup Closed
    BY <1>3, <1>4, Statuses
  <2>2. \A o \in Created : invoice'[Inv(o)].status = "Normalized" => invoice[Inv(o)].status = "Normalized"
    BY <1>5, Statuses
  <2> QED BY <1>1, <1>2, <1>3, <1>4, <1>5, <2>1, <2>2, RowsAdded
<1> QED BY <1>6, <1>7 DEF Next

----
(* Polls *)

(* The operation that a poll of g hands over is leased to it. *)
Delivered(g, w) ==
  /\ w.op \in Ops /\ status'[w.op] \in Held /\ lease'[w.op].gw = g
  /\ w.token = lease'[w.op].token /\ w.step = "leased" /\ w.code = 0
  /\ w.kind = IF status'[w.op] = "Checking" THEN "CHECK" ELSE "NORMALIZE"

LEMMA PollHeldHands ==
  ASSUME IInv, NEW g \in Gateways, PollHeld(g), NEW w \in Handed(g)
  PROVE  Delivered(g, w)
<1>1. DeviceOfGateway[g] = TheMcf /\ lease \in [Ops -> Leases]
  BY OneMcf DEF IInv, Types, TypeOK
<1>2. PICK st : st = Expired(TheMcf)
  OBVIOUS
<1>3. Grants(g, st) = {} /\ status' = st
      /\ lease' = [o \in Ops |-> IF o \in Renewed(g, st)
                                 THEN [lease[o] EXCEPT !.lapsed = FALSE] ELSE lease[o]]
  BY <1>1, <1>2 DEF PollHeld
<1>4. PICK o \in Renewed(g, st) :
        w = [op |-> o, kind |-> IF st[o] = "Checking" THEN "CHECK" ELSE "NORMALIZE",
             token |-> lease[o].token, step |-> "leased", code |-> 0]
  BY <1>1, <1>2, <1>3 DEF Handed
<1>5. o \in Created /\ st[o] \in Held /\ lease[o].gw = g
  BY <1>1, <1>4 DEF Renewed, Oldest, OpsOn
<1>6. o \in Ops
  BY <1>5, Statuses
<1>7. lease'[o].gw = g /\ lease'[o].token = lease[o].token
  BY <1>1, <1>3, <1>5, <1>6 DEF Leases
<1> QED BY <1>3, <1>4, <1>5, <1>6, <1>7 DEF Delivered

(* A granted operation was the only one to choose: nothing else is on the MCF. *)
LEMMA PollGrantWrites ==
  ASSUME IInv, NEW g \in Gateways, PollGrant(g)
  PROVE  \E o \in Created, s \in Held :
           /\ \A p \in Ops : p # o => SameLease(p)
           /\ lease'[o].gw = g /\ lease'[o].token = nTokens + 1 /\ nTokens' = nTokens + 1
           /\ status'[o] = s
           /\ \A p \in Ops : p # o =>
                status'[p] = status[p] \/ (status[p] \in Held /\ status'[p] = "Uncertain")
           /\ \A p \in Ops : p # o => status'[p] \notin Held
           /\ \/ status[o] \in Busy /\ s = "Checking"
              \/ status[o] = "Queued" /\ s = "Leased" /\ \A p \in Ops : ~IsBusy(p)
           /\ \A w \in Handed(g) : Delivered(g, w)
<1>1. DeviceOfGateway[g] = TheMcf /\ lease \in [Ops -> Leases] /\ status \in [Ops -> OpStatus]
  BY OneMcf DEF IInv, Types, TypeOK
<1>2. PICK st : st = Expired(TheMcf)
  OBVIOUS
<1>3. PICK c \in Grants(g, st) : WriteGrant(c, st)
  BY <1>1, <1>2 DEF PollGrant
<1>4. ~Barred(TheMcf, st)
  BY <1>1, <1>3 DEF Grants
<1>5. PICK o \in Oldest(Choices(TheMcf, st)) :
        c = [gw |-> g, op |-> o, to |-> IF st[o] = "Uncertain" THEN "Checking" ELSE "Leased"]
  BY <1>1, <1>3, <1>4 DEF Grants
<1>6. \A p \in Ops : p \in Created /\ st[p] \in Held => FALSE
  BY <1>4, Statuses DEF Barred, OpsOn
<1>7. \A p \in Ops : IsBusy(p) => p \in Created /\ st[p] = "Uncertain"
  <2> SUFFICES ASSUME NEW p \in Ops, IsBusy(p) PROVE p \in Created /\ st[p] = "Uncertain"
    OBVIOUS
  <2>1. p \in Created
    BY Statuses, BusyNames DEF IsBusy
  <2>2. st[p] = status[p] \/ st[p] = "Uncertain"
    BY <1>2 DEF Expired
  <2> QED BY <1>6, <2>1, <2>2, BusyNames DEF IsBusy
<1>8. o \in Created /\ o \in Ops /\ st[o] \in {"Uncertain", "Queued"}
      /\ (st[o] # "Uncertain" => \A p \in Ops : ~IsBusy(p))
  <2>1. o \in Choices(TheMcf, st)
    BY <1>5 DEF Oldest
  <2>2. o \in Created /\ st[o] \in {"Uncertain", "Queued"}
    BY <2>1 DEF Choices, OpsOn
  <2>3. ASSUME NEW p \in Ops, IsBusy(p) PROVE st[o] = "Uncertain"
    <3>1. p \in OpsOn(TheMcf) /\ st[p] = "Uncertain"
      BY <1>7, <2>3, Statuses DEF OpsOn
    <3> QED BY <2>1, <3>1 DEF Choices
  <2> QED BY <2>2, <2>3, Statuses
<1>9. PICK s \in Held : s = IF st[o] = "Uncertain" THEN "Checking" ELSE "Leased"
  BY BusyNames
<1>10. /\ nTokens' = nTokens + 1 /\ status' = [st EXCEPT ![o] = s]
       /\ lease' = [lease EXCEPT ![o] = [gw |-> g, token |-> nTokens + 1, lapsed |-> FALSE]]
  BY <1>3, <1>5, <1>9 DEF WriteGrant
<1>11. status'[o] = s /\ \A p \in Ops : p # o => status'[p] = st[p]
  BY <1>2, <1>8, <1>10 DEF Expired
<1>12. \A p \in Ops : st[p] = status[p] \/ (status[p] \in Held /\ st[p] = "Uncertain")
  BY <1>2 DEF Expired, Lapsed
<1>13. lease'[o].gw = g /\ lease'[o].token = nTokens + 1 /\ \A p \in Ops : p # o => SameLease(p)
  BY <1>1, <1>8, <1>10 DEF SameLease
<1>14. \A p \in Ops : p # o => status'[p] \notin Held
  <2>1. \A p \in Ops : p \notin Created => status[p] = "None"
    BY Statuses
  <2> QED BY <1>6, <1>11, <1>12, <2>1, BusyNames
<1>15. \/ status[o] \in Busy /\ s = "Checking"
       \/ status[o] = "Queued" /\ s = "Leased" /\ \A p \in Ops : ~IsBusy(p)
  BY <1>8, <1>9, <1>12, BusyNames
<1>16. ASSUME NEW w \in Handed(g) PROVE Delivered(g, w)
  <2>1. Renewed(g, st) = {}
    BY <1>1, <1>6, Statuses DEF Renewed, Oldest, OpsOn
  <2>2. PICK d \in Grants(g, st) :
          w = [op |-> d.op, kind |-> IF d.to = "Checking" THEN "CHECK" ELSE "NORMALIZE",
               token |-> nTokens + 1, step |-> "leased", code |-> 0]
    BY <1>1, <1>2, <2>1 DEF Handed
  <2>3. PICK q \in Oldest(Choices(TheMcf, st)) :
          d = [gw |-> g, op |-> q, to |-> IF st[q] = "Uncertain" THEN "Checking" ELSE "Leased"]
    BY <1>1, <1>4, <2>2 DEF Grants
  <2>4. q \in Created /\ o \in Created /\ q <= o /\ o <= q
    BY <1>5, <2>3 DEF Oldest, Choices, OpsOn
  <2>5. q = o
    BY <2>4, Statuses, Numbers
  <2>6. d.op = o /\ d.to = s
    BY <1>9, <2>3, <2>5
  <2>7. /\ w.op = o /\ w.token = nTokens + 1 /\ w.step = "leased" /\ w.code = 0
        /\ w.kind = IF s = "Checking" THEN "CHECK" ELSE "NORMALIZE"
    BY <2>2, <2>6
  <2> QED BY <1>8, <1>11, <1>13, <2>7 DEF Delivered
<1> QED BY <1>8, <1>10, <1>11, <1>12, <1>13, <1>14, <1>15, <1>16

LEMMA PollGrantGentle ==
  ASSUME IInv, NEW g \in Gateways, shop.active = g, PollGrant(g)
  PROVE  /\ Gentle /\ RowsOk' /\ [Next]_vars
         /\ \A o \in Ops : IsBusy(o) => status'[o] \in Busy
         /\ \A w \in Handed(g) : Delivered(g, w)
<1>1. PICK o \in Created, s \in Held :
           /\ \A p \in Ops : p # o => SameLease(p)
           /\ lease'[o].gw = g /\ lease'[o].token = nTokens + 1 /\ nTokens' = nTokens + 1
           /\ status'[o] = s
           /\ \A p \in Ops : p # o =>
                status'[p] = status[p] \/ (status[p] \in Held /\ status'[p] = "Uncertain")
           /\ \A p \in Ops : p # o => status'[p] \notin Held
           /\ \/ status[o] \in Busy /\ s = "Checking"
              \/ status[o] = "Queued" /\ s = "Leased" /\ \A p \in Ops : ~IsBusy(p)
           /\ \A w \in Handed(g) : Delivered(g, w)
  BY PollGrantWrites
<1>2. UNCHANGED <<doc, result, nOps, invoice, device, windows>>
  BY DEF PollGrant
<1>3. FreshLease(o)
  BY <1>1 DEF FreshLease
<1>4. nTokens' \in Nat /\ nTokens <= nTokens'
  BY <1>1, Numbers DEF IInv, Types, TypeOK
<1>5. ASSUME NEW p \in Ops, status[p] \in Closed PROVE status'[p] = status[p] /\ result'[p] = result[p]
  BY <1>1, <1>2, <1>5, BusyNames
<1>6. ASSUME NEW p \in Ops, IsBusy(p) PROVE StaysBusy(p)
  <2>1. CASE p = o
    BY <1>1, <1>3, <1>6, <2>1, BusyNames DEF StaysBusy, IsBusy
  <2>2. CASE p # o
    BY <1>1, <1>6, <2>2, BusyNames DEF StaysBusy, IsBusy
  <2> QED BY <2>1, <2>2
<1>7. ASSUME NEW p \in Ops, ~IsBusy(p)
      PROVE  (status'[p] \in Busy => GetsBusy(p)) /\ (status'[p] # "Rejected" \/ status[p] = "Rejected")
  <2>1. CASE p = o
    <3>1. status[o] = "Queued" /\ s = "Leased" /\ \A q \in Ops : ~IsBusy(q)
      BY <1>1, <1>7, <2>1 DEF IsBusy
    <3>2. \A q \in Ops : q # o => status'[q] \notin Busy
      BY <1>1, <3>1, BusyNames DEF IsBusy
    <3> QED BY <1>1, <1>3, <2>1, <3>1, <3>2 DEF GetsBusy
  <2>2. CASE p # o
    BY <1>1, <1>7, <2>2, BusyNames DEF IsBusy
  <2> QED BY <2>1, <2>2
<1>8. \A i \in Invoices : InvoiceGoes(i)
  BY <1>2 DEF InvoiceGoes
<1>9. Gentle
  BY <1>2, <1>4, <1>5, <1>6, <1>7, <1>8 DEF Gentle, LastTc
<1>10. RowsOk'
  <2>1. ASSUME NEW p \in Created
        PROVE  status'[p] \in Waiting \cup Closed /\ (status'[p] \in Waiting => status[p] \in Waiting)
    <3>1. p \in Ops /\ status[p] \in Waiting \cup Closed
      BY Statuses
    <3> QED BY <1>1, <3>1, BusyNames
  <2> QED BY <1>2, <2>1, RowsKept
<1> QED BY <1>1, <1>6, <1>9, <1>10 DEF StaysBusy, Next

LEMMA PollGentle ==
  ASSUME IInv, NEW g \in Gateways, Poll(g)
  PROVE  /\ Gentle /\ RowsOk' /\ [Next]_vars
         /\ \A o \in Ops : IsBusy(o) => status'[o] \in Busy
         /\ \A w \in Handed(g) : Delivered(g, w)
<1>1. CASE PollHeld(g)
  BY <1>1, PollHeldCalm, PollHeldHands, CalmGentle
<1>2. CASE PollGrant(g)
  BY <1>2, PollGrantGentle DEF Poll
<1> QED BY <1>1, <1>2 DEF Poll

(* Journal and messages are left alone. *)
LEMMA JournalStays ==
  ASSUME IInv, UNCHANGED <<journal, mcf, shop, late>>, [Next]_vars
  PROVE  ErpStep
BY DEF ErpStep, JournalGoes, IInv, Types

(* What settles nothing and gives no work keeps the invariant. *)
LEMMA GentleKeeps ==
  ASSUME IInv, Gentle, RowsOk', [Next]_vars, UNCHANGED <<journal, work, mcf, shop, late>>,
         \A o \in Ops : IsBusy(o) => status'[o] \in Busy
  PROVE  GoesOn
<1>1. ErpStep
  BY JournalStays
<1>2. \A g \in Gateways : SettlesWell(g)
  BY DEF SettlesWell
<1>3. work' \in [Gateways -> Works]
  BY DEF IInv, Types
<1> QED BY <1>1, <1>2, <1>3, ErpKeeps

LEMMA PollUnseenKeeps == ASSUME IInv, NEW g \in Gateways, PollUnseen(g) PROVE GoesOn
BY PollGentle, GentleKeeps DEF PollUnseen

LEMMA BeatKeeps == ASSUME IInv, NEW g \in Gateways, Beat(g) PROVE GoesOn
<1>1. Counter \in Nat
  BY CounterIsNat, Numbers DEF IInv
<1>2. PICK tc \in 0..Counter : Heartbeat(g, tc, "same")
  BY <1>1 DEF Beat
<1> QED BY <1>2, HeartbeatCalm, CalmGentle, GentleKeeps DEF Beat

LEMMA LapsesKeeps == ASSUME IInv, NEW o \in Ops, Lapses(o) PROVE GoesOn
BY LapseCalm, CalmGentle, GentleKeeps DEF Lapses

LEMMA AskKeeps == ASSUME IInv, NEW i \in Invoices, Ask(i) PROVE GoesOn
BY RequestCalm, CalmGentle, GentleKeeps DEF Ask

LEMMA MaintainKeeps == ASSUME IInv, Maintain PROVE GoesOn
BY MaintainCalm, CalmGentle, GentleKeeps DEF Maintain

(* A lease: what the poll hands over becomes the work of the station. *)
LEMMA LeaseKeeps == ASSUME IInv, NEW g \in Gateways, Lease(g) PROVE GoesOn
<1>1. /\ ReadyToLease(g) \/ work[g].step = "next"
      /\ Poll(g) /\ shop.active = g
      /\ work' = [work EXCEPT ![g] = IF Handed(g) = {} THEN NoWork ELSE CHOOSE w \in Handed(g) : TRUE]
      /\ UNCHANGED <<journal, mcf, shop, late, troubles>>
  BY DEF Lease, At, Poll
<1>2. Plugged(g)
  <2>1. CASE ReadyToLease(g)
    BY <2>1 DEF ReadyToLease
  <2>2. CASE work[g].step = "next"
    BY <1>1, <2>2 DEF IInv, Shops, Unused, NoWork, Plugged
  <2> QED BY <1>1, <2>1, <2>2
<1>3. /\ Gentle /\ RowsOk' /\ ErpStep
      /\ \A o \in Ops : IsBusy(o) => status'[o] \in Busy
      /\ \A w \in Handed(g) : Delivered(g, w)
  BY <1>1, PollGentle, JournalStays
<1>4. Types
  BY DEF IInv
<1>5. Undelivered(g) = {} /\ \A o \in Open(g) : journal[g][o].state = "UNCERTAIN"
  <2>1. CASE ReadyToLease(g)
    BY <2>1 DEF ReadyToLease
  <2>2. CASE work[g].step = "next"
    <3>1. WorkHolds(g) /\ work[g].op = 0
      BY <1>2, <1>4, <2>2, WorkFields DEF IInv, Station
    <3>2. 0 \notin Undelivered(g) /\ 0 \notin Open(g)
      BY Numbers DEF Undelivered, Open
    <3> QED BY <2>2, <3>1, <3>2 DEF WorkHolds
  <2> QED BY <1>1, <2>1, <2>2
<1>6. Undelivered(g)' = {} /\ \A o \in Open(g)' : journal'[g][o].state = "UNCERTAIN"
  BY <1>1, <1>5 DEF Undelivered, Open
<1>7. TypeOK' /\ nTokens' \in Nat
  BY <1>3, ErpFrame DEF Gentle
<1>8. PICK v : v = IF Handed(g) = {} THEN NoWork ELSE CHOOSE w \in Handed(g) : TRUE
  OBVIOUS
<1>9. CASE Handed(g) = {}
  <2>1. v = NoWork /\ v \in Works
    BY <1>8, <1>9, Numbers DEF NoWork, Works, Steps
  <2>2. work' = [work EXCEPT ![g] = v]
    BY <1>1, <1>8
  <2>3. work' \in [Gateways -> Works] /\ work'[g] = NoWork /\ \A h \in Gateways : h # g => work'[h] = work[h]
    BY <1>4, <2>1, <2>2 DEF Types
  <2>4. NewWork(g)
    BY <1>7, <2>3, Numbers DEF NewWork, NoWork, WorkHolds, StepOk
  <2> QED BY <1>2, <1>3, <2>3, <2>4, ErpKeeps DEF SettlesWell, Plugged
<1>10. CASE Handed(g) # {}
  <2>1. v \in Handed(g) /\ Delivered(g, v)
    <3>1. v \in Handed(g)
      BY <1>8, <1>10
    <3> QED BY <1>3, <3>1
  <2>2. PICK o \in Ops, t \in 0..MaxTokens : o = v.op /\ t = v.token /\ t = lease'[o].token
    <3>1. lease'[v.op] \in Leases
      BY <1>7, <2>1 DEF TypeOK, Delivered
    <3> QED BY <2>1, <3>1 DEF Delivered, Leases
  <2>3. /\ status'[o] \in Held /\ lease'[o].gw = g /\ v.step = "leased" /\ v.code = 0
        /\ v.kind = IF status'[o] = "Checking" THEN "CHECK" ELSE "NORMALIZE"
    BY <2>1, <2>2 DEF Delivered
  <2>4. v \in Works
    <3>1. v \in [op : 0..MaxOps, kind : {"None", "CHECK", "NORMALIZE"}, token : 0..MaxTokens,
                 step : Steps, code : 0..MaxTC]
      <4>1. v = [op |-> v.op, kind |-> v.kind, token |-> v.token, step |-> v.step, code |-> v.code]
        BY <2>1 DEF Handed
      <4>2. v.op \in 0..MaxOps /\ v.kind \in {"None", "CHECK", "NORMALIZE"} /\ v.token \in 0..MaxTokens
            /\ v.step \in Steps /\ v.code \in 0..MaxTC
        BY <2>2, <2>3, Numbers DEF Ops, Steps
      <4> QED BY <4>1, <4>2
    <3> QED BY <2>2, <2>3, <3>1, Numbers DEF Works
  <2>5. work' = [work EXCEPT ![g] = v]
    BY <1>1, <1>8
  <2>6. work' \in [Gateways -> Works] /\ work'[g] = v /\ \A h \in Gateways : h # g => work'[h] = work[h]
    BY <1>4, <2>4, <2>5 DEF Types
  <2>7. IsBusy(o)' /\ status'[o] \in Busy
    BY <2>3, BusyNames DEF IsBusy
  <2>8. WorkHolds(g)'
    <3>1. t <= nTokens'
      BY <1>3, <2>2, <2>7, GentleFacts, Numbers
    <3> QED BY <1>6, <2>2, <2>6, <2>7, <3>1 DEF WorkHolds
  <2>9. StepOk(g)'
    <3>1. journal'[g][o].state \in {"None", "UNCERTAIN", "DONE", "REJECTED"}
      <4>1. PICK s \in States : s = journal'[g][o].state
        BY <1>1, <1>4, EntryFields
      <4>2. s \in {"RECEIVED", "OPENING", "FINALIZING"} => o \in Open(g)'
        BY <4>1 DEF Open
      <4> QED BY <1>6, <4>1, <4>2 DEF States
    <3>2. v.kind = "NORMALIZE" /\ journal'[g][o].state = "None" => Registered(Inv(o))' = {}
      <4>1. v.kind = "NORMALIZE" => status'[o] = "Leased"
        BY <2>3, BusyNames
      <4>2. Handed1' /\ shop' = shop /\ shop.at = g
        BY <1>1, <1>2, <1>3, GentleFacts DEF BookFacts, Plugged
      <4> QED BY <1>1, <2>3, <4>1, <4>2 DEF Handed1
    <3> QED BY <1>6, <2>2, <2>3, <2>6, <2>7, <3>1, <3>2 DEF StepOk
  <2>10. NewWork(g)
    BY <2>2, <2>3, <2>6, <2>8, <2>9 DEF NewWork
  <2> QED BY <1>2, <1>3, <2>6, <2>10, ErpKeeps DEF SettlesWell, Plugged
<1> QED BY <1>9, <1>10

----
(***************************************************************************)
(* The results that ERPNext takes from the station that has the MCF.       *)
(***************************************************************************)

(* A result that station g posted: see what its journal and its messages hold. *)
Posted(g, r) ==
  LET o == r.op
      e == journal[g][o]
  IN
  /\ r \in Results
  /\ e.state # "None"
  /\ r.outcome = "normalized" => e.state = "DONE" /\ r = e.res
  /\ r.outcome = "rejected" /\ Current(o, r.token) => e.state = "REJECTED" /\ e.res.token = r.token

(* What ERPNext takes is right, and it settles the operation if it can. *)
Taken(g, r) ==
  /\ Gentle /\ RowsOk' /\ [Next]_vars
  /\ \A p \in Ops : IsBusy(p) /\ status'[p] \notin Busy =>
       /\ p = r.op
       /\ \/ journal[g][p].state = "DONE"
          \/ journal[g][p].state = "REJECTED" /\ ~journal[g][p].delivered
  /\ r.outcome = "rejected" => ~Current(r.op, r.token)'

LEMMA CurrentIsWelcome ==
  ASSUME IInv, NEW o \in Ops, NEW t
  PROVE  Current(o, t) <=> MayReject(o, t)
<1>1. MayReject(o, t) => Current(o, t)
  BY BusyNames DEF MayReject, Current, TokenOk, IsBusy
<1>2. ASSUME Current(o, t) PROVE MayReject(o, t)
  <2>1. t \in 1..nTokens /\ t = lease[o].token
    BY <1>2 DEF IInv, Shops, Current
  <2>2. t # 0
    BY <2>1, Numbers DEF IInv, Types, TypeOK
  <2> QED BY <1>2, <2>1, <2>2, BusyNames DEF MayReject, Current, TokenOk, IsBusy
<1> QED BY <1>1, <1>2

LEMMA NoEffect ==
  ASSUME IInv, NEW g \in Gateways, NEW r \in Results, ~HasEffect(r), UNCHANGED erp
  PROVE  Taken(g, r)
<1>1. SameErp
  BY DEF SameErp, erp, queue, windows
<1>2. Gentle /\ RowsOk' /\ [Next]_vars
  BY <1>1, SameCalm, CalmGentle
<1>3. \A p \in Ops : status'[p] = status[p]
  BY <1>1 DEF SameErp
<1>4. ASSUME r.outcome = "rejected" PROVE ~Current(r.op, r.token)'
  <2>1. r.op \in Ops
    BY ResultFields
  <2>2. ~MayReject(r.op, r.token)
    BY <1>4 DEF HasEffect
  <2>3. ~Current(r.op, r.token)
    BY <2>1, <2>2, CurrentIsWelcome
  <2> QED BY <1>1, <2>3 DEF SameErp, Current, IsBusy
<1> QED BY <1>2, <1>3, <1>4 DEF Taken, IsBusy

LEMMA UnknownTaken ==
  ASSUME IInv, NEW g \in Gateways, NEW r \in Results, r.outcome = "uncertain", ReportUncertain(g, r)
  PROVE  Taken(g, r)
<1>1. r.op \in Ops
  BY ResultFields
<1>2. /\ status[r.op] \in Held /\ status' = [status EXCEPT ![r.op] = "Uncertain"]
      /\ UNCHANGED <<doc, lease, result, nOps, nTokens, invoice, device, windows>>
  BY DEF ReportUncertain
<1>3. \A p \in Ops : status'[p] = status[p] \/ (status[p] \in Held /\ status'[p] = "Uncertain")
  BY <1>2 DEF IInv, Types, TypeOK
<1>4. Calm
  BY <1>2, <1>3 DEF Calm, SameLease, LastTc
<1>5. Next
  BY DEF Next, ApplyResult
<1> QED BY <1>2, <1>4, <1>5, CalmGentle, CalmRows DEF Taken

(* A busy operation whose invoice was registered has the last registration. *)
LEMMA BusyRegistered ==
  ASSUME IInv, NEW o \in Ops, IsBusy(o)
  PROVE  /\ o \in Created /\ Inv(o) \in Invoices /\ invoice[Inv(o)].status # "Normalized"
         /\ Registered(Inv(o)) # {} => Registered(Inv(o)) = {Counter} /\ LastTc < Counter
<1>1. o \in Created /\ Inv(o) \in Invoices /\ status[o] \in Waiting
  BY InvOfOp, BusyNames DEF IInv, IsBusy
<1>2. invoice[Inv(o)].status # "Normalized"
  BY <1>1 DEF IInv, RowsOk
<1>3. Known(Inv(o)) /\ CounterOk
  BY <1>1 DEF IInv
<1> QED BY <1>1, <1>2, <1>3 DEF Known, CounterOk

LEMMA NormalizedTaken ==
  ASSUME IInv, NEW g \in Gateways, Plugged(g), NEW r \in Results, Posted(g, r),
         r.outcome = "normalized", MayReport(g, r.op), ~Duplicate(r),
         ReportContested(g, r) \/ ReportNormalized(g, r) \/ ResultReads(g, r)
  PROVE  Taken(g, r)
<1>1. PICK o \in Ops : o = r.op
  BY ResultFields
<1>2. PICK n : n = r.sig
  OBVIOUS
<1>3. r = Normalized(o, n) /\ Settles(o, n) /\ journal[g][o].state = "DONE"
  BY <1>1, <1>2 DEF Posted, IInv, Station, EntryOk
<1>4. r.sig = n /\ r.tc = n /\ r.valid = TRUE /\ r.op = o
  BY <1>3 DEF Normalized
<1>5. IsBusy(o) /\ Registered(Inv(o)) = {n}
  BY <1>3, <1>4 DEF Settles, Duplicate
<1>6. /\ o \in Created /\ Inv(o) \in Invoices /\ invoice[Inv(o)].status # "Normalized"
      /\ n = Counter /\ LastTc < Counter
  BY <1>5, BusyRegistered
<1>7. Counter \in Nat /\ LastTc \in Nat /\ Types
  BY OneMcf, CountersAreNumbers, CounterIsNat, Numbers DEF IInv, Types, LastTc
<1>8. device[doc[o].dev].lastTc = LastTc /\ doc[o].dev = TheMcf
  BY <1>6, Statuses DEF LastTc
<1>9. ~Contested(r)
  BY <1>4, <1>5, <1>6, <1>7, <1>8, BusyNames DEF Contested, CounterProblem, IsBusy
<1>10. ReportNormalized(g, r)
  BY <1>9, NoWindows DEF ReportContested, ResultReads
<1>11. /\ status' = [status EXCEPT ![o] = "Normalized"]
       /\ result' = [result EXCEPT ![o] = [sig |-> n, tc |-> n]]
       /\ invoice' = [invoice EXCEPT ![doc[o].inv] = [status |-> "Normalized", sig |-> n, op |-> o]]
       /\ device' = RaiseCounter(doc[o].dev, n, LastTc)
       /\ UNCHANGED <<doc, lease, nOps, nTokens, reading, leasing, judging>>
  BY <1>4, <1>8, <1>10 DEF ReportNormalized, Accept
<1>12. status'[o] = "Normalized" /\ \A p \in Ops : p # o => status'[p] = status[p]
  BY <1>7, <1>11 DEF Types, TypeOK
<1>13. result'[o].sig = n /\ \A p \in Ops : p # o => result'[p] = result[p]
  BY <1>7, <1>11 DEF Types, TypeOK
<1>14. PICK i \in Invoices : i = Inv(o)
  BY <1>6
<1>15. /\ invoice'[i].status = "Normalized" /\ invoice'[i].sig = n
       /\ \A j \in Invoices : j # i => invoice'[j] = invoice[j]
  BY <1>7, <1>11, <1>14 DEF Types, TypeOK, Inv
<1>16. LastTc' = Counter
  <2>1. device' = [device EXCEPT ![TheMcf].lastTc = IF n > LastTc THEN n ELSE @]
    BY <1>8, <1>11 DEF RaiseCounter
  <2>2. device[TheMcf] \in DeviceRows
    BY <1>7, OneMcf DEF Types, TypeOK
  <2>3. device'[TheMcf].lastTc = IF n > LastTc THEN n ELSE device[TheMcf].lastTc
    BY <1>7, <2>1, <2>2, OneMcf DEF Types, TypeOK, DeviceRows
  <2> QED BY <1>6, <1>7, <2>3 DEF LastTc
<1>17. \A p \in Ops : status'[p] \notin Busy
  BY <1>5, <1>12, BusyNames DEF IInv, OneBusy, IsBusy
<1>18. Gentle
  <2>1. nTokens' \in Nat /\ nTokens <= nTokens'
    BY <1>7, <1>11, Numbers DEF Types, TypeOK
  <2>2. ASSUME NEW p \in Ops, status[p] \in Closed PROVE status'[p] = status[p] /\ result'[p] = result[p]
    BY <1>5, <1>12, <1>13, <2>2, BusyNames DEF IsBusy
  <2>3. ASSUME NEW p \in Ops, IsBusy(p) PROVE IsAccepted(p)
    <3>1. p = o
      BY <1>5, <2>3 DEF IInv, OneBusy
    <3>2. invoice'[Inv(o)] = invoice'[i]
      BY <1>14
    <3> QED BY <1>5, <1>12, <1>13, <1>15, <3>1, <3>2 DEF IsAccepted
  <2>4. ASSUME NEW p \in Ops, ~IsBusy(p) PROVE status'[p] # "Rejected" \/ status[p] = "Rejected"
    BY <1>12
  <2>5. ASSUME NEW j \in Invoices PROVE InvoiceGoes(j)
    <3>1. CASE j = i
      BY <1>5, <1>6, <1>12, <1>14, <1>15, <3>1 DEF InvoiceGoes
    <3>2. CASE j # i
      BY <1>15, <3>2 DEF InvoiceGoes
    <3> QED BY <3>1, <3>2
  <2>6. LastTc' \in 0..Counter
    BY <1>7, <1>16
  <2> QED BY <1>17, <2>1, <2>2, <2>3, <2>4, <2>5, <2>6 DEF Gentle
<1>19. RowsOk'
  <2>1. \A p \in Created : status'[p] \in Waiting \cup Closed
    BY <1>12, Statuses, BusyNames
  <2>2. ASSUME NEW p \in Created, status'[p] \in Waiting
        PROVE  status[p] \in Waiting /\ (invoice'[Inv(p)].status = "Normalized" => invoice[Inv(p)].status = "Normalized")
    <3>1. p # o /\ p \in Ops /\ status[p] \in Waiting /\ Inv(p) \in Invoices
      BY <1>12, <2>2, Statuses, BusyNames
    <3>2. Inv(p) # i
      <4> SUFFICES ASSUME Inv(p) = i PROVE FALSE
        OBVIOUS
      <4>1. doc[p].inv = doc[o].inv /\ doc[o].inv # None
        BY <1>14, Numbers DEF Inv
      <4>2. status[o] \in Waiting
        BY <1>5, BusyNames DEF IsBusy
      <4>3. p <= o /\ o <= p
        BY <1>6, <3>1, <4>1, <4>2 DEF IInv, WaitingIsNewest
      <4> QED BY <3>1, <4>3, Numbers
    <3> QED BY <1>15, <3>1, <3>2
  <2> QED BY <1>11, <2>1, <2>2, RowsKept DEF windows
<1>20. Next
  BY <1>10 DEF Next, ApplyResult
<1>21. \A p \in Ops : IsBusy(p) => p = o
  BY <1>5 DEF IInv, OneBusy
<1> QED BY <1>1, <1>3, <1>18, <1>19, <1>20, <1>21 DEF Taken

(* A rejection that counts is the undelivered conclusion of the busy operation. *)
LEMMA RejectionIsProven ==
  ASSUME IInv, NEW g \in Gateways, Plugged(g), NEW r \in Results, Posted(g, r),
         r.outcome = "rejected", MayReject(r.op, r.token)
  PROVE  /\ IsBusy(r.op) /\ Registered(Inv(r.op)) = {}
         /\ journal[g][r.op].state = "REJECTED" /\ ~journal[g][r.op].delivered
<1>1. PICK o \in Ops : o = r.op
  BY ResultFields
<1>2. Current(o, r.token)
  BY <1>1, CurrentIsWelcome
<1>3. journal[g][o].state = "REJECTED" /\ journal[g][o].res.token = r.token
  BY <1>1, <1>2 DEF Posted
<1>4. EntryOk(g, o)
  BY DEF IInv, Station
<1>5. Current(o, journal[g][o].res.token)
  BY <1>2, <1>3
<1> QED BY <1>1, <1>3, <1>4, <1>5 DEF EntryOk, Current

LEMMA RejectedTaken ==
  ASSUME IInv, NEW g \in Gateways, Plugged(g), NEW r \in Results, Posted(g, r),
         r.outcome = "rejected", MayReject(r.op, r.token),
         ReportRequeued(g, r) \/ ReportRejected(g, r)
  PROVE  Taken(g, r)
<1>1. PICK o \in Ops : o = r.op
  BY ResultFields
<1>2. /\ IsBusy(o) /\ Registered(Inv(o)) = {}
      /\ journal[g][o].state = "REJECTED" /\ ~journal[g][o].delivered
  BY <1>1, RejectionIsProven
<1>3. o \in Created /\ Inv(o) \in Invoices /\ invoice[Inv(o)].status # "Normalized"
      /\ doc[o].kind = "NORMALIZE" /\ doc[o].dev = TheMcf /\ Types
  BY <1>2, BusyRegistered, Statuses DEF IInv
<1>4. PICK i \in Invoices : i = doc[o].inv
  BY <1>3 DEF Inv
<1>5. invoice[i].status # "Normalized" /\ invoice[i] \in InvoiceRows
  BY <1>3, <1>4 DEF Inv, Types, TypeOK
<1>6. UNCHANGED <<lease, result, nTokens, device, windows>>
  BY DEF ReportRequeued, ReportRejected
<1>7. /\ status'[o] = "Rejected"
      /\ \A p \in Created : p # o => status'[p] = status[p]
      /\ \A p \in Ops : p # o => status'[p] = status[p] \/ (status[p] = "None" /\ status'[p] = "Queued")
      /\ invoice'[i].status # "Normalized"
      /\ \A j \in Invoices : j # i => invoice'[j] = invoice[j]
      /\ \/ UNCHANGED <<doc, nOps>>
         \/ status'[nOps + 1] = "Queued" /\ \E a : Insert("NORMALIZE", i, TheMcf, a)
  <2>1. CASE ReportRejected(g, r)
    <3>1. /\ status' = [status EXCEPT ![o] = "Rejected"]
          /\ invoice' = [invoice EXCEPT ![i].status = "Error"]
          /\ UNCHANGED <<doc, nOps>>
      BY <1>1, <1>4, <2>1 DEF ReportRejected, InvoiceError
    <3>2. status'[o] = "Rejected" /\ \A p \in Ops : p # o => status'[p] = status[p]
      BY <1>3, <3>1 DEF Types, TypeOK
    <3>3. invoice'[i].status = "Error" /\ \A j \in Invoices : j # i => invoice'[j] = invoice[j]
      BY <1>3, <1>5, <3>1 DEF Types, TypeOK, InvoiceRows
    <3> QED BY <3>1, <3>2, <3>3, Statuses
  <2>2. CASE ReportRequeued(g, r)
    <3>1. PICK a : Insert("NORMALIZE", i, TheMcf, a)
      BY <1>1, <1>3, <1>4, <2>2 DEF ReportRequeued
    <3>2. PICK n \in Ops : n = nOps + 1 /\ n \notin Created
      <4>1. nOps \in Nat /\ nOps < MaxOps
        BY <1>3, <3>1, Numbers DEF Types, TypeOK, Insert
      <4> QED BY <4>1, Numbers DEF Ops, Created
    <3>3. /\ status' = [status EXCEPT ![o] = "Rejected", ![n] = "Queued"]
          /\ invoice' = [invoice EXCEPT ![i].status = "Pending", ![i].op = n]
      BY <1>1, <1>4, <2>2, <3>2 DEF ReportRequeued
    <3>4. n # o /\ status[n] = "None"
      BY <1>3, <3>2, Statuses
    <3>5. /\ status'[o] = "Rejected" /\ status'[n] = "Queued"
          /\ \A p \in Ops : p # o /\ p # n => status'[p] = status[p]
      BY <1>3, <3>3, <3>4 DEF Types, TypeOK
    <3>6. invoice'[i].status = "Pending" /\ \A j \in Invoices : j # i => invoice'[j] = invoice[j]
      BY <1>3, <1>5, <3>3 DEF Types, TypeOK, InvoiceRows
    <3> QED BY <3>1, <3>2, <3>4, <3>5, <3>6, Statuses
  <2> QED BY <2>1, <2>2
<1>8. Gentle
  <2>1. nTokens' \in Nat /\ nTokens <= nTokens'
    BY <1>3, <1>6, Numbers DEF Types, TypeOK
  <2>2. ASSUME NEW p \in Ops, status[p] \in Closed PROVE status'[p] = status[p] /\ result'[p] = result[p]
    BY <1>2, <1>6, <1>7, <2>2, BusyNames DEF IsBusy
  <2>3. ASSUME NEW p \in Ops, IsBusy(p) PROVE IsRejected(p)
    <3>1. p = o
      BY <1>2, <2>3 DEF IInv, OneBusy
    <3> QED BY <1>2, <1>7, <3>1 DEF IsRejected
  <2>4. ASSUME NEW p \in Ops, ~IsBusy(p)
        PROVE  status'[p] \notin Busy /\ (status'[p] # "Rejected" \/ status[p] = "Rejected")
    <3>1. p # o
      BY <1>2, <2>4
    <3> QED BY <1>7, <2>4, <3>1, BusyNames DEF IsBusy
  <2>5. ASSUME NEW j \in Invoices PROVE InvoiceGoes(j)
    BY <1>5, <1>7 DEF InvoiceGoes
  <2>6. LastTc' = LastTc
    BY <1>6 DEF LastTc
  <2> QED BY <2>1, <2>2, <2>3, <2>4, <2>5, <2>6 DEF Gentle
<1>9. RowsOk'
  <2>1. ASSUME NEW p \in Created
        PROVE  status'[p] \in Waiting \cup Closed /\ (status'[p] \in Waiting => status[p] \in Waiting)
    BY <1>7, Statuses, BusyNames
  <2>2. ASSUME NEW p \in Created
        PROVE  invoice'[Inv(p)].status = "Normalized" => invoice[Inv(p)].status = "Normalized"
    BY <1>7, Statuses
  <2>3. CASE UNCHANGED <<doc, nOps>>
    BY <1>6, <2>1, <2>2, <2>3, RowsKept
  <2>4. CASE status'[nOps + 1] = "Queued" /\ \E a : Insert("NORMALIZE", i, TheMcf, a)
    BY <1>6, <1>7, <2>1, <2>2, <2>4, RowsAdded
  <2> QED BY <1>7, <2>3, <2>4
<1>10. Next
  BY DEF Next, ApplyResult
<1>11. \A p \in Ops : IsBusy(p) => p = o
  BY <1>2 DEF IInv, OneBusy
<1>12. ~Current(o, r.token)'
  BY <1>7, BusyNames DEF Current, IsBusy
<1> QED BY <1>1, <1>2, <1>8, <1>9, <1>10, <1>11, <1>12 DEF Taken

LEMMA ApplyTaken ==
  ASSUME IInv, NEW g \in Gateways, Plugged(g), NEW r, Posted(g, r), Apply(g, r)
  PROVE  Taken(g, r)
<1>0. r \in Results
  BY DEF Posted
<1>1. CASE ~HasEffect(r)
  BY <1>0, <1>1, NoEffect DEF Apply
<1>2. CASE HasEffect(r)
  <2>1. MayReport(g, r.op) /\ ApplyResult(g, r)
    BY <1>2 DEF Apply
  <2>2. r.op \in Created
    BY <2>1 DEF MayReport
  <2>3. ~ReportResync(g, r)
    BY <2>2, Statuses DEF ReportResync
  <2>4. CASE r.outcome = "normalized"
    BY <1>0, <1>2, <2>1, <2>3, <2>4, NormalizedTaken DEF ApplyResult, HasEffect
  <2>5. CASE r.outcome = "rejected"
    BY <1>0, <1>2, <2>1, <2>3, <2>5, RejectedTaken DEF ApplyResult, HasEffect
  <2>6. CASE r.outcome = "uncertain"
    BY <1>0, <2>1, <2>3, <2>6, UnknownTaken DEF ApplyResult
  <2> QED BY <1>0, <2>4, <2>5, <2>6, ResultsAreNot
<1> QED BY <1>1, <1>2

(* A result that station g posts from its journal. *)
LEMMA ConcludedIsPosted ==
  ASSUME IInv, NEW g \in Gateways, Plugged(g), NEW o \in Ops,
         journal[g][o].state \in {"DONE", "REJECTED", "UNCERTAIN"}
  PROVE  Posted(g, journal[g][o].res) /\ journal[g][o].res.op = o
         /\ (journal[g][o].state = "REJECTED" <=> journal[g][o].res.outcome = "rejected")
<1>1. PICK e \in EntryRows : e = journal[g][o]
  BY EntryFields DEF IInv
<1>2. e.res \in Results
  BY <1>1, EntryFields DEF IInv
<1>3. EntryOk(g, o)
  BY DEF IInv, Station
<1>4. CASE e.state = "DONE"
  <2>1. PICK n : e.res = Normalized(o, n)
    BY <1>1, <1>3, <1>4 DEF EntryOk
  <2>2. e.res.op = o /\ e.res.outcome = "normalized"
    BY <2>1 DEF Normalized
  <2> QED BY <1>1, <1>2, <1>4, <2>2 DEF Posted
<1>5. CASE e.state = "REJECTED"
  <2>1. e.res.op = o /\ e.res.outcome = "rejected"
    BY <1>1, <1>3, <1>5 DEF EntryOk
  <2> QED BY <1>1, <1>2, <1>5, <2>1 DEF Posted
<1>6. CASE e.state = "UNCERTAIN"
  <2>1. e.res.op = o /\ e.res.outcome = "uncertain"
    BY <1>1, <1>3, <1>6 DEF EntryOk
  <2> QED BY <1>1, <1>2, <1>6, <2>1 DEF Posted
<1> QED BY <1>1, <1>4, <1>5, <1>6

LEMMA PostKeeps ==
  ASSUME IInv, NEW g \in Gateways, Plugged(g), NEW o \in Ops, NEW after \in {"idle", "next"},
         journal[g][o].state \in {"DONE", "REJECTED", "UNCERTAIN"},
         after = "next" => work[g].op = o /\ work[g].step # "idle",
         Post(g, o, after)
  PROVE  GoesOn
<1>1. PICK r : r = journal[g][o].res
  OBVIOUS
<1>2. Posted(g, r) /\ r.op = o /\ (journal[g][o].state = "REJECTED" <=> r.outcome = "rejected")
  BY <1>1, ConcludedIsPosted
<1>3. Taken(g, r)
  BY <1>1, <1>2, ApplyTaken DEF Post
<1>4. UNCHANGED <<mcf, shop, late>> /\ Types
  BY DEF Post, IInv
<1>5. JournalGoes
  <2>1. CASE journal' = journal
    BY <1>4, <2>1 DEF JournalGoes, Types
  <2>2. CASE journal' = [journal EXCEPT ![g][o].delivered = TRUE]
    <3>1. PICK e \in Entries : e = journal[g][o] /\ e \in EntryRows
      BY <1>4, EntryFields
    <3>2. PICK f : f = [e EXCEPT !.delivered = TRUE]
      OBVIOUS
    <3>3. /\ f \in EntryRows /\ f.state = e.state /\ f.token = e.token /\ f.res = e.res
      BY <3>1, <3>2 DEF EntryRows, Entries
    <3>4. journal' = [journal EXCEPT ![g][o] = f]
      BY <1>4, <2>2, <3>1, <3>2 DEF Types, Journals
    <3>5. Wrote(g, o, f)
      BY <1>4, <3>3, <3>4, Wrote1
    <3>6. ~(e.state = "REJECTED" /\ Current(o, r.token)') /\ e.state # "None"
      BY <1>2, <1>3, <3>1 DEF Taken
    <3>7. ASSUME NEW h \in Gateways, NEW p \in Ops
          PROVE  /\ journal'[h][p].state = journal[h][p].state /\ journal'[h][p].token = journal[h][p].token
                 /\ journal'[h][p].res = journal[h][p].res
                 /\ \/ journal'[h][p].delivered = journal[h][p].delivered
                    \/ /\ journal[h][p].state # "None"
                       /\ ~(journal[h][p].state = "REJECTED" /\ Current(p, journal[h][p].res.token)')
      <4>1. CASE h = g /\ p = o
        <5>1. journal'[h][p] = f /\ journal[h][p] = e
          BY <3>1, <3>5, <4>1 DEF Wrote
        <5>2. PICK t : t = journal[h][p].res.token
          OBVIOUS
        <5>3. ~(e.state = "REJECTED" /\ Current(p, t)')
          BY <1>1, <3>6, <4>1, <5>2
        <5> QED BY <3>3, <3>6, <5>1, <5>2, <5>3
      <4>2. CASE ~(h = g /\ p = o)
        <5>1. journal'[h][p] = journal[h][p]
          BY <3>5, <4>2 DEF Wrote
        <5> QED BY <5>1
      <4> QED BY <4>1, <4>2
    <3> QED BY <3>5, <3>7 DEF JournalGoes, Wrote
  <2> QED BY <2>1, <2>2 DEF Post
<1>6. ErpStep
  BY <1>3, <1>4, <1>5 DEF ErpStep, Taken
<1>7. PICK s \in {"idle", "next"} :
        /\ work' = [work EXCEPT ![g] = [NoWork EXCEPT !.step = s]]
        /\ s = "next" => after = "next" /\ journal' = [journal EXCEPT ![g][o].delivered = TRUE]
  <2>1. [NoWork EXCEPT !.step = "idle"] = NoWork
    BY DEF NoWork
  <2> QED BY <2>1 DEF Post
<1>8. PICK v : v = [NoWork EXCEPT !.step = s]
  OBVIOUS
<1>9. v \in Works /\ v.op = 0 /\ v.token = 0 /\ v.step = s
  BY <1>8, Numbers DEF NoWork, Works, Steps
<1>10. work' \in [Gateways -> Works] /\ work'[g] = v /\ \A h \in Gateways : h # g => work'[h] = work[h]
  BY <1>4, <1>7, <1>8, <1>9 DEF Types
<1>11. SettlesWell(g)
  BY <1>2, <1>3, <1>9, <1>10 DEF SettlesWell, Taken
<1>12. NewWork(g)
  <2>1. nTokens' \in Nat
    BY <1>3 DEF Taken, Gentle
  <2>2. StepOk(g)'
    BY <1>9, <1>10 DEF StepOk
  <2>3. \A p \in Ops : work'[g].op # p
    BY <1>9, <1>10, Numbers
  <2>4. s = "next" => Undelivered(g)' = {} /\ \A p \in Open(g)' : journal'[g][p].state = "UNCERTAIN"
    <3> SUFFICES ASSUME s = "next"
                 PROVE  Undelivered(g)' = {} /\ \A p \in Open(g)' : journal'[g][p].state = "UNCERTAIN"
      OBVIOUS
    <3>1. WorkHolds(g) /\ work[g].op = o /\ work[g].step # "idle"
      BY <1>7 DEF IInv, Station
    <3>2. Undelivered(g) \subseteq {o} /\ \A p \in Open(g) : p # o => journal[g][p].state = "UNCERTAIN"
      BY <3>1 DEF WorkHolds
    <3>3. \A p \in Ops : p # o => journal'[g][p] = journal[g][p]
      BY <1>4, <1>7 DEF Types, Journals
    <3>4. journal'[g][o].delivered = TRUE
      BY <1>4, <1>7 DEF Types, Journals, Entries
    <3>5. \A p \in Ops : journal'[g][p].state = journal[g][p].state
      BY <1>5 DEF JournalGoes
    <3>6. Undelivered(g)' = {}
      BY <3>2, <3>3, <3>4 DEF Undelivered
    <3>7. ASSUME NEW p \in Open(g)' PROVE journal'[g][p].state = "UNCERTAIN"
      <4>1. p \in Open(g)
        BY <3>5 DEF Open
      <4>2. p \in Ops
        BY DEF Open
      <4>3. journal[g][o].state = "UNCERTAIN" \/ o \notin Open(g)
        BY DEF Open
      <4> QED BY <3>2, <3>5, <4>1, <4>2, <4>3
    <3> QED BY <3>6, <3>7
  <2>5. WorkHolds(g)'
    BY <1>9, <1>10, <2>1, <2>4 DEF WorkHolds
  <2> QED BY <2>2, <2>3, <2>5 DEF NewWork
<1>13. \A h \in Gateways : Plugged(h) <=> h = g
  BY DEF Plugged
<1> QED BY <1>3, <1>6, <1>10, <1>11, <1>12, <1>13, ErpKeeps DEF Taken

LEMMA PostResultKeeps == ASSUME IInv, NEW g \in Gateways, PostResult(g) PROVE GoesOn
<1>1. work[g].step = "post" /\ Post(g, work[g].op, "next") /\ shop.active = g
  BY DEF PostResult, At, Post, Apply
<1>2. Plugged(g)
  BY <1>1 DEF IInv, Shops, Unused, NoWork, Plugged
<1>3. PICK o \in Ops : o = work[g].op
  BY <1>1, WorkFields DEF IInv
<1>4. journal[g][o].state \in {"DONE", "REJECTED", "UNCERTAIN"}
  BY <1>1, <1>2, <1>3 DEF IInv, Station, StepOk
<1> QED BY <1>1, <1>2, <1>3, <1>4, PostKeeps

LEMMA FlushKeeps == ASSUME IInv, NEW g \in Gateways, Flush(g) PROVE GoesOn
<1>1. PICK o \in Undelivered(g) : Post(g, o, "idle")
  BY DEF Flush
<1>2. o \in Ops /\ journal[g][o].state \in {"DONE", "REJECTED", "UNCERTAIN"}
  BY <1>1 DEF Undelivered
<1> QED BY <1>1, <1>2, PostKeeps DEF Flush

LEMMA LateResultKeeps == ASSUME IInv, LateResult PROVE GoesOn
<1>1. PICK x \in late : Apply(x.gw, x.res) /\ late' = late \ {x}
  BY DEF LateResult
<1>2. UNCHANGED <<journal, work, mcf, shop, troubles>> /\ Types
  BY DEF LateResult, IInv
<1>3. PICK g \in Gateways : g = x.gw
  BY <1>2, LateFields
<1>4. Plugged(g)
  BY <1>1, <1>3 DEF Apply, IInv, Shops, Unused, Plugged
<1>5. PICK r \in Results : r = x.res
  BY <1>2, LateFields
<1>6. Posted(g, r)
  BY <1>3, <1>4, <1>5 DEF IInv, Station, LateOk, Posted
<1>7. Taken(g, r)
  BY <1>1, <1>3, <1>4, <1>5, <1>6, ApplyTaken
<1>8. ErpStep
  BY <1>1, <1>2, <1>7 DEF ErpStep, Taken, JournalGoes, Types
<1>9. SettlesWell(g)
  <2> SUFFICES ASSUME NEW p \in Ops, IsBusy(p), status'[p] \notin Busy, journal[g][p].state # "DONE",
                      work[g].op = p, work[g].step = "leased"
               PROVE  FALSE
    BY <1>2, <1>7 DEF SettlesWell, Taken
  <2>1. journal[g][p].state = "REJECTED" /\ ~journal[g][p].delivered
    BY <1>7 DEF Taken
  <2>2. journal[g][p].res # NoRes
    BY <1>2, <2>1, EntryFields, ResultsAreNot
  <2>3. p \in Undelivered(g)
    BY <2>1, <2>2 DEF Undelivered
  <2> QED BY <1>4, <2>3 DEF IInv, Station, StepOk
<1>10. \A h \in Gateways : Plugged(h) <=> h = g
  BY <1>4 DEF Plugged
<1>11. work' \in [Gateways -> Works]
  BY <1>2 DEF Types
<1> QED BY <1>2, <1>7, <1>8, <1>9, <1>10, <1>11, ErpKeeps DEF Taken

----
(***************************************************************************)
(* The invariant                                                           *)
(***************************************************************************)

LEMMA NothingYet ==
  ASSUME ChainInit
  PROVE  /\ \A o \in Ops : status[o] = "None" /\ \A g \in Gateways : journal[g][o] = NoEntry
         /\ Created = {} /\ late = {} /\ \A g \in Gateways : work[g] = NoWork
         /\ shop \in [active : Gateways, at : Gateways, revoked : SUBSET Gateways]
         /\ shop.revoked = {} /\ shop.at = shop.active
         /\ mcf = [open |-> None, book |-> <<>>] /\ nOps = 0 /\ nTokens = 0
<1>1. Init /\ journal = [g \in Gateways |-> [o \in Ops |-> NoEntry]]
      /\ work = [g \in Gateways |-> NoWork] /\ late = {} /\ mcf = [open |-> None, book |-> <<>>]
  BY DEF ChainInit
<1>2. PICK g \in Gateways : shop = [active |-> g, at |-> g, revoked |-> {}]
  <2>1. (CHOOSE g \in Gateways : TRUE) \in Gateways
    BY ChainAssumption
  <2> QED BY <2>1 DEF ChainInit
<1>3. Created = {} /\ nOps = 0 /\ nTokens = 0
  BY <1>1 DEF Init, Created
<1> QED BY <1>1, <1>2, <1>3 DEF Init

LEMMA InvariantInit == ASSUME ChainInit PROVE IInv
<1>1. Init
  BY DEF ChainInit
<1>2. TypeOK /\ Quiet
  BY <1>1, TypeInit, QuietInit
<1>3. Created = {} /\ \A o \in Ops : ~IsBusy(o) /\ status[o] # "Leased"
  BY NothingYet, BusyNames DEF IsBusy
<1>4. Types
  <2>1. NoEntry \in EntryRows
    BY Numbers DEF NoEntry, EntryRows, Entries
  <2>2. journal \in Journals
    BY <2>1 DEF ChainInit, Journals, EntryRows
  <2>3. NoWork \in Works
    BY Numbers DEF NoWork, Works, Steps
  <2>4. work \in [Gateways -> Works]
    BY <2>3 DEF ChainInit
  <2>5. mcf \in [open : Invoices \cup {None}, book : Seq(Invoices)] /\ Len(mcf.book) <= MaxTC
    <3>1. PICK b : b = <<>>
      OBVIOUS
    <3>2. b \in Seq(Invoices) /\ Len(b) = 0
      BY <3>1
    <3>3. mcf = [open |-> None, book |-> b]
      BY <3>1, NothingYet
    <3> QED BY <3>2, <3>3, Numbers
  <2> QED BY <1>2, <2>2, <2>4, <2>5, NothingYet DEF Types
<1>5. WaitingIsNewest /\ OneBusy /\ Handed1
  BY <1>3 DEF WaitingIsNewest, OneBusy, Handed1
<1>6. RowsOk
  BY <1>1, <1>3 DEF RowsOk, Init
<1>7. Counter = 0 /\ \A i : Registered(i) = {}
  BY NothingYet DEF Counter, Registered
<1>8. \A i \in Invoices : Known(i)
  BY <1>1, <1>7 DEF Known, Init
<1>9. CounterOk
  <2>1. LastTc = 0
    BY <1>1, OneMcf DEF LastTc, Init
  <2> QED BY <1>3, <1>7, <2>1 DEF CounterOk
<1>10. \A g \in Gateways : Unused(g)
  BY NothingYet DEF Unused
<1>11. Shops
  BY <1>3, <1>10, NothingYet DEF Shops
<1>12. ASSUME NEW g \in Gateways PROVE Station(g) /\ BarrierAt(g)
  <2>1. \A o \in Ops : EntryOk(g, o)
    BY <1>10, NothingYet DEF Unused, EntryOk, NoEntry, OpenStates
  <2>2. Mine(g)
    BY <1>3 DEF Mine
  <2>3. WorkHolds(g) /\ StepOk(g)
    BY <1>10, NothingYet DEF Unused, NoWork, WorkHolds, StepOk
  <2>4. LateOk(g)
    BY NothingYet DEF LateOk
  <2>5. BarrierAt(g)
    BY <1>10 DEF Unused, NoWork, BarrierAt
  <2> QED BY <2>1, <2>2, <2>3, <2>4, <2>5 DEF Station
<1> QED BY <1>2, <1>4, <1>5, <1>6, <1>8, <1>9, <1>11, <1>12 DEF IInv

(* What a step of the chain is for the queue and for the registrations. *)
Advances ==
  /\ Gentle /\ [Next]_vars
  /\ SameBook \/ (SameErp /\ \E o \in Ops : RegistersFor(o))

LEMMA StationAdvances ==
  ASSUME IInv, NEW g \in Gateways,
         Execute(g) \/ Reconcile(g) \/ Crash(g) \/ PostFails(g) \/ Replace(g) \/ Plug
  PROVE  Advances
<1>1. SameErp /\ (SameBook \/ \E o \in Ops : RegistersFor(o))
  <2>1. CASE Execute(g)
    <3>1. Kept(g)
      BY <2>1, ReceiveKept, PrepareKept, OpenInvoiceKept, FailsBefore38hKept, RecordFinalizingKept,
         FinalizeKept, RecordDoneKept, CheckWorkKept DEF Execute
    <3>2. SameBook \/ (RegistersFor(work[g].op) /\ work[g].op \in Ops)
      BY <2>1, ReceiveKept, PrepareKept, OpenInvoiceKept, FailsBefore38hKept, RecordFinalizingKept,
         FinalizeKept, RecordDoneKept, CheckWorkKept DEF Execute
    <3> QED BY <3>1, <3>2, OwnSame DEF Kept
  <2>2. CASE Reconcile(g)
    BY <2>2, ReconcileKept, OwnSame DEF Kept
  <2>3. CASE Crash(g) \/ PostFails(g) \/ Replace(g) \/ Plug
    BY <2>3 DEF Crash, PostFails, Replace, Plug, SameErp, erp, queue, windows, SameBook
  <2> QED BY <2>1, <2>2, <2>3
<1>2. Gentle /\ [Next]_vars
  BY <1>1, SameCalm, CalmGentle
<1> QED BY <1>1, <1>2 DEF Advances

LEMMA ChainStep ==
  ASSUME IInv, [ChainNext]_chain
  PROVE  IInv' /\ Advances
<1>1. ASSUME NEW g \in Gateways, Process(g) PROVE IInv' /\ Advances
  BY <1>1, ReconcileKeeps, ExecuteKeeps, PostFailsKeeps, StationAdvances,
     FlushKeeps, LeaseKeeps, PostResultKeeps DEF Process, GoesOn, Advances
<1>2. ASSUME NEW g \in Gateways, PollUnseen(g) \/ Crash(g) \/ Beat(g) \/ Replace(g)
      PROVE  IInv' /\ Advances
  BY <1>2, PollUnseenKeeps, BeatKeeps, CrashKeeps, ReplaceKeeps, StationAdvances DEF GoesOn, Advances
<1>3. CASE LateResult
  BY <1>3, LateResultKeeps DEF GoesOn, Advances
<1>4. CASE Plug
  <2>1. shop.at \in Gateways
    BY DEF IInv, Types
  <2> QED BY <1>4, <2>1, PlugKeeps, StationAdvances
<1>5. CASE Maintain
  BY <1>5, MaintainKeeps DEF GoesOn, Advances
<1>6. CASE \E o \in Ops : Lapses(o)
  BY <1>6, LapsesKeeps DEF GoesOn, Advances
<1>7. CASE \E i \in Invoices : Ask(i)
  BY <1>7, AskKeeps DEF GoesOn, Advances
<1>8. CASE UNCHANGED chain
  <2>1. SameErp /\ UNCHANGED <<journal, work, mcf, shop, late>>
    BY <1>8 DEF chain, SameErp, erp, queue, windows
  <2>2. Gentle /\ RowsOk' /\ [Next]_vars
    BY <2>1, SameCalm, CalmGentle
  <2>3. \A o \in Ops : IsBusy(o) => status'[o] \in Busy
    BY <2>1 DEF SameErp, IsBusy
  <2> QED BY <2>1, <2>2, <2>3, GentleKeeps DEF GoesOn, Advances
<1> QED BY <1>1, <1>2, <1>3, <1>4, <1>5, <1>6, <1>7, <1>8 DEF ChainNext

LEMMA ChainInvariant == ChainSpec => []IInv
<1>1. ChainInit => IInv
  BY InvariantInit
<1>2. IInv /\ [ChainNext]_chain => IInv'
  BY ChainStep
<1> QED BY <1>1, <1>2, PTL DEF ChainSpec

----
(* The results *)

(* The journals, the work of the stations, the MCF and the messages hold what they may. *)
THEOREM ChainTypeCorrect == ChainSpec => []ChainTypeOK
<1>1. IInv => ChainTypeOK
  <2> SUFFICES ASSUME IInv PROVE ChainTypeOK
    OBVIOUS
  <2>1. Types
    BY DEF IInv
  <2>2. journal \in [Gateways -> [Ops -> Entries]]
    BY <2>1 DEF Types, Journals
  <2>3. \A g \in Gateways : work[g].op \in 0..MaxOps /\ work[g].token \in 0..MaxTokens
    BY <2>1, WorkFields
  <2>4. mcf.open \in Invoices \cup {None} /\ \A n \in 1..Counter : mcf.book[n] \in Invoices
    BY <2>1 DEF Types, Counter
  <2> QED BY <2>1, <2>2, <2>3, <2>4 DEF ChainTypeOK, Types
<1> QED BY <1>1, ChainInvariant, PTL

(* The MCF registers an invoice at most once, over crashes, lost answers, attempts and  *)
(* the replacement of the station.                                                       *)
THEOREM OneRegistrationHolds == ChainSpec => []OneRegistration
<1>1. IInv => OneRegistration
  <2> SUFFICES ASSUME IInv, NEW i \in Invoices PROVE Cardinality(Registered(i)) <= 1
    BY DEF OneRegistration
  <2>1. Known(i)
    BY DEF IInv
  <2>2. Registered(i) = {} \/ \E n : Registered(i) = {n}
    BY <2>1 DEF Known
  <2>3. Cardinality(Registered(i)) \in {0, 1}
    BY <2>2, FS_EmptySet, FS_Singleton
  <2> QED BY <2>3
<1> QED BY <1>1, ChainInvariant, PTL

(* With the stations of this code no result is ever contested. *)
THEOREM NoDisputeHolds == ChainSpec => []NoDispute
<1>1. IInv => NoDispute
  BY BusyNames DEF IInv, RowsOk, NoDispute
<1> QED BY <1>1, ChainInvariant, PTL

(* ERPNext always lets the Active station report what its journal keeps. *)
THEOREM ReportsAreWelcome == ChainSpec => []ReportsWelcome
<1>1. IInv => ReportsWelcome
  <2> SUFFICES ASSUME IInv, NEW o \in Undelivered(shop.active) PROVE MayReport(shop.active, o)
    BY DEF ReportsWelcome
  <2>1. PICK g \in Gateways : g = shop.active
    BY DEF IInv, Types
  <2>2. o \in Ops /\ journal[g][o].state # "None"
    BY <2>1 DEF Undelivered
  <2>3. Plugged(g)
    BY <2>1, <2>2 DEF IInv, Shops, Unused, NoEntry, Plugged
  <2>4. status[o] \in Busy \cup Closed /\ Mine(g)
    BY <2>2, <2>3 DEF IInv, Station, EntryOk
  <2>5. o \in Created /\ doc[o].dev = DeviceOfGateway[g]
    BY <2>2, <2>4, OneMcf, Statuses, BusyNames
  <2>6. o \notin Judged
    BY DEF IInv, RowsOk, Judged
  <2>7. status[o] \in Closed \/ lease[o].gw = g
    BY <2>1, <2>2, <2>4 DEF Mine, IsBusy
  <2> QED BY <2>1, <2>5, <2>6, <2>7 DEF MayReport
<1> QED BY <1>1, ChainInvariant, PTL

(* A station starts no invoice while an operation of its journal has an unknown outcome, *)
(* wherever the MCF is plugged in.                                                        *)
THEOREM LocalBarrierHolds == ChainSpec => []LocalBarrier
<1>1. IInv => LocalBarrier
  <2> SUFFICES ASSUME IInv, NEW g \in Gateways, NEW p \in Ops, journal[g][p].state = "UNCERTAIN",
                      work[g].step \in {"open", "opened", "final"}
               PROVE  work[g].op = p
    BY DEF LocalBarrier
  <2> QED BY DEF IInv, BarrierAt
<1> QED BY <1>1, ChainInvariant, PTL

(* When ERPNext accepts a rejection, the MCF has not registered the invoice. *)
THEOREM RejectionIsCertain == ChainSpec => ProvenRejection
<1>1. IInv /\ [ChainNext]_chain =>
        [\A o \in Ops : status[o] # "Rejected" /\ status'[o] = "Rejected" => Registered(Inv(o)) = {}]_chain
  <2> SUFFICES ASSUME IInv, [ChainNext]_chain, NEW o \in Ops,
                      status[o] # "Rejected", status'[o] = "Rejected"
               PROVE  Registered(Inv(o)) = {}
    OBVIOUS
  <2>1. Gentle
    BY ChainStep DEF Advances
  <2>2. IsBusy(o)
    BY <2>1 DEF Gentle
  <2> QED BY <2>1, <2>2, BusyNames DEF Gentle, StaysBusy, IsAccepted, IsRejected
<1> QED BY <1>1, ChainInvariant, PTL DEF ChainSpec, ProvenRejection

(* The chain uses the queue of ERPNext as it is: what is proved of FiscalOperations holds *)
(* of the chain.                                                                          *)
THEOREM QueueIsKept == ChainSpec => Spec
<1>1. ChainInit => Init
  BY DEF ChainInit
<1>2. IInv /\ [ChainNext]_chain => [Next]_vars
  BY ChainStep DEF Advances
<1> QED BY <1>1, <1>2, ChainInvariant, PTL DEF ChainSpec, Spec

----
(***************************************************************************)
(* The refinement: what the chain does, seen from Normalization            *)
(***************************************************************************)

Issued == [i \in Invoices |-> Registered(i)]

Stamps == [i \in Invoices |-> IF invoice[i].status = "Normalized" THEN invoice[i].sig ELSE None]

Promised == [Abstract!Next]_<<Issued, Stamps>>

LEMMA IssuedSame ==
  ASSUME SameBook
  PROVE  Issued' = Issued
<1>1. \A i : Registered(i)' = Registered(i)
  BY BookSame
<1> QED BY <1>1 DEF Issued

(* ERPNext puts the code of an invoice on it, at most on one. *)
LEMMA StampPromised ==
  ASSUME IInv, Gentle, SameBook
  PROVE  Promised
<1>1. Issued' = Issued
  BY IssuedSame
<1>2. \A i \in Invoices : InvoiceGoes(i)
  BY DEF Gentle
<1>3. CASE \A i \in Invoices : invoice'[i].status = "Normalized" => invoice[i].status = "Normalized"
  <2>1. Stamps' = Stamps
    BY <1>2, <1>3 DEF Stamps, InvoiceGoes
  <2> QED BY <1>1, <2>1 DEF Promised
<1>4. ASSUME NEW i \in Invoices, invoice'[i].status = "Normalized", invoice[i].status # "Normalized"
      PROVE  Promised
  <2>1. PICK o \in Ops : IsBusy(o) /\ Inv(o) = i /\ status'[o] = "Normalized"
    BY <1>2, <1>4 DEF InvoiceGoes
  <2>2. IsAccepted(o)
    BY <2>1, BusyNames DEF Gentle, StaysBusy, IsRejected
  <2>3. PICK n : n = invoice'[i].sig
    OBVIOUS
  <2>4. Registered(i) = {n}
    BY <2>1, <2>2, <2>3 DEF IsAccepted
  <2>5. ASSUME NEW j \in Invoices, j # i
        PROVE  invoice'[j].status = "Normalized" => invoice[j].status = "Normalized"
    <3> SUFFICES ASSUME invoice'[j].status = "Normalized", invoice[j].status # "Normalized" PROVE FALSE
      OBVIOUS
    <3>1. PICK p \in Ops : IsBusy(p) /\ Inv(p) = j
      BY <1>2, <2>5 DEF InvoiceGoes
    <3> QED BY <2>1, <2>5, <3>1 DEF IInv, OneBusy
  <2>6. Stamps[i] = None /\ Stamps' = [Stamps EXCEPT ![i] = n]
    <3>1. \A j \in Invoices : j # i => Stamps'[j] = Stamps[j]
      BY <1>2, <2>5 DEF Stamps, InvoiceGoes
    <3>2. Stamps'[i] = n /\ Stamps[i] = None
      BY <1>4, <2>3 DEF Stamps
    <3> QED BY <3>1, <3>2 DEF Stamps
  <2>7. Issued[i] = {n}
    BY <2>4 DEF Issued
  <2>8. n \in Issued[i] /\ Stamps[i] = None /\ Stamps' = [Stamps EXCEPT ![i] = n] /\ Issued' = Issued
    BY <1>1, <2>6, <2>7
  <2>9. Abstract!Stamp(i)
    BY <2>8 DEF Abstract!Stamp, Issued, Stamps
  <2> QED BY <2>9 DEF Promised, Abstract!Next
<1> QED BY <1>3, <1>4

(* The MCF registers an invoice, with a code nobody has. *)
LEMMA RegisterPromised ==
  ASSUME IInv, IInv', SameErp, NEW o \in Ops, RegistersFor(o)
  PROVE  Promised
<1>1. /\ IsBusy(o) /\ Registered(Inv(o)) = {}
      /\ Counter' = Counter + 1 /\ Registered(Inv(o))' = {Counter'}
      /\ \A j \in Invoices : j # Inv(o) => Registered(j)' = Registered(j)
  BY Registering DEF RegistersFor
<1>2. PICK i \in Invoices : i = Inv(o)
  BY <1>1, InvOfOp, BusyNames DEF IInv, IsBusy
<1>3. PICK c : c = Counter'
  OBVIOUS
<1>4. Registered(i)' = {c} /\ \A j \in Invoices : j # i => Registered(j)' = Registered(j)
  BY <1>1, <1>2, <1>3, SameBusy DEF Registered
<1>5. c \in Sigs /\ \A j \in Invoices : c \notin Registered(j)
  <2>1. Counter \in Nat /\ \A j : Registered(j) \subseteq 1..Counter
    BY CounterIsNat, Numbers DEF IInv
  <2>2. Counter < MaxTC
    BY DEF RegistersFor
  <2> QED BY <1>1, <1>3, <2>1, <2>2, Numbers
<1>6. Issued[i] = {} /\ (\A j \in Invoices : c \notin Issued[j]) /\ Issued' = [Issued EXCEPT ![i] = {c}]
  <2>1. \A j \in Invoices : Issued'[j] = IF j = i THEN {c} ELSE Issued[j]
    BY <1>4 DEF Issued
  <2>2. Issued' = [Issued EXCEPT ![i] = {c}]
    BY <2>1 DEF Issued
  <2>3. Issued[i] = {} /\ \A j \in Invoices : c \notin Issued[j]
    BY <1>1, <1>2, <1>5 DEF Issued
  <2> QED BY <2>2, <2>3
<1>7. Stamps' = Stamps
  BY DEF SameErp, Stamps
<1>8. Abstract!Register(i, c)
  BY <1>6, <1>7 DEF Abstract!Register, Issued, Stamps
<1> QED BY <1>5, <1>8 DEF Promised, Abstract!Next

LEMMA PromisedInit == ChainInit => Abstract!Init
<1> SUFFICES ASSUME ChainInit PROVE Abstract!Init
  OBVIOUS
<1>1. Counter = 0 /\ \A i : Registered(i) = {}
  BY NothingYet DEF Counter, Registered
<1>2. \A i \in Invoices : invoice[i].status = "Pending"
  BY DEF ChainInit, Init
<1> QED BY <1>1, <1>2 DEF Abstract!Init

(* The chain implements Normalization: the MCF registers each invoice once, with a code *)
(* no other invoice has, and this very code, once on the invoice, stays.                *)
THEOREM ChainKeepsPromise == ChainSpec => Abstract!Safe
<1>1. ChainInit => Abstract!Init
  BY PromisedInit
<1>2. IInv /\ [ChainNext]_chain => [Abstract!Next]_<<Issued, Stamps>>
  <2> SUFFICES ASSUME IInv, [ChainNext]_chain PROVE Promised
    BY DEF Promised
  <2>1. IInv' /\ Advances
    BY ChainStep
  <2>2. CASE SameBook
    BY <2>1, <2>2, StampPromised DEF Advances
  <2>3. CASE SameErp /\ \E o \in Ops : RegistersFor(o)
    BY <2>1, <2>3, RegisterPromised
  <2> QED BY <2>1, <2>2, <2>3 DEF Advances
<1>3. [Abstract!Next]_<<Issued, Stamps>> => [Abstract!Next]_<<[i \in Invoices |-> Registered(i)],
        [i \in Invoices |-> IF invoice[i].status = "Normalized" THEN invoice[i].sig ELSE None]>>
  BY DEF Issued, Stamps
<1> QED BY <1>1, <1>2, <1>3, ChainInvariant, PTL DEF ChainSpec, Abstract!Safe
=================================================================================
