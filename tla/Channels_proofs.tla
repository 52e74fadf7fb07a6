----------------------------- MODULE Channels_proofs -----------------------------
(***************************************************************************)
(* Theorems about Channels, for every set of invoices and of workers, every *)
(* priority and every bound.  The types hold whatever the code leaves open. *)
(* One registration, proven refusals, safe take overs and the promise of a  *)
(* channel are proved where none of Openings is open (Windows = {}): the    *)
(* runs show that each opening breaks one of them.  One active operation    *)
(* and a trace of every registration are proved with "raised" and           *)
(* "unclosed" open.                                                         *)
(***************************************************************************)
EXTENDS Channels, NaturalsInduction, FiniteSetTheorems, TLAPS

Stages    == {"idle", "loaded", "entered", "created", "failed", "alternate", "kept", "answered", "finish"}
OpStates  == Active \cup {"None", "Normalized", "Rejected", "Cancelled"}
ReqStates == {"None", "pending", "confirmed", "closed"}

OpRows  == [inv : Invoices \cup {None}, ch : Channels \cup {None}, sent : BOOLEAN, fallback : BOOLEAN, st : OpStates]
InvRows == [status : {"Pending", "Error", "Normalized"}, uid : 0..MaxRequests, code : 0..(MaxRequests + MaxOps)]
ReqRows == [inv : Invoices \cup {None}, st : ReqStates]
PvfRows == [fallback : Channels \cup {None}, closing : BOOLEAN, switch : Channels \cup {None}, reachable : BOOLEAN]

WorkerRows ==
  [pc : Stages, inv : Invoices \cup {None}, uid : 0..MaxRequests, force : Channels \cup {None},
   op : 0..MaxOps, drop : SUBSET Ops, out : {"None", "ok", "lost", "refused", "unavailable"},
   auto : BOOLEAN, alternate : BOOLEAN]

(* What a worker holds at each of its stages.                               *)
Holds(x) ==
  /\ x.pc # "idle" => x.inv \in Invoices
  /\ x.pc \notin {"idle", "loaded"} => x.op \in Ops
  /\ x.pc \in {"created", "kept", "answered"} => x.uid \in Requests
  /\ x.pc = "failed" => x.out \in {"lost", "refused", "unavailable"}
  /\ x.pc = "answered" => x.out \in {"ok", "lost", "refused"}

Types ==
  /\ ops \in [Ops -> OpRows] /\ invoice \in [Invoices -> InvRows] /\ emcf \in [Requests -> ReqRows]
  /\ logged \subseteq Requests /\ mcf \subseteq Ops /\ pvf \in PvfRows /\ troubles \in 0..MaxTroubles
  /\ worker \in [Workers -> WorkerRows] /\ \A w \in Workers : Holds(worker[w])

LEMMA TypesGiveTypeOK == Types => ChannelsTypeOK
BY DEF Types, ChannelsTypeOK, OpRows, InvRows, ReqRows, PvfRows, WorkerRows, OpStates, ReqStates

(* A set of naturals that is not empty has a smallest element.              *)
LEMMA LeastNatural ==
  ASSUME NEW S \in SUBSET Nat, S # {}
  PROVE  \E m \in S : \A n \in S : m <= n
<1> DEFINE R == OpToRel(<, Nat)
<1>1. IsWellFoundedOn(R, Nat)
  BY NatLessThanWellFounded
<1>2. \A x, y \in Nat : x < y => <<x, y>> \in R
  BY DEF OpToRel
<1> HIDE DEF R
<1>3. PICK k \in S : \A n \in S : <<n, k>> \notin R
  BY <1>1, WFMin
<1>4. \A n \in S : k <= n
  <2> TAKE n \in S
  <2>1. ~(n < k)
    BY <1>2, <1>3
  <2> QED BY <2>1
<1> QED BY <1>3, <1>4

LEMMA NewOpIsFree == FreeOps # {} => NewOp \in FreeOps /\ NewOp \in Ops /\ ops[NewOp] = NoOp
<1> SUFFICES ASSUME FreeOps # {} PROVE NewOp \in FreeOps
  BY DEF FreeOps
<1>1. FreeOps \in SUBSET Nat
  BY DEF FreeOps, Ops
<1>2. \E o \in FreeOps : \A p \in FreeOps : o <= p
  BY <1>1, LeastNatural
<1> QED BY <1>2 DEF NewOp

LEMMA FreshUidIsFresh ==
  (\E u \in Requests : emcf[u] = NoRequest) => FreshUid \in Requests /\ emcf[FreshUid] = NoRequest
<1> SUFFICES ASSUME \E u \in Requests : emcf[u] = NoRequest
             PROVE  FreshUid \in Requests /\ emcf[FreshUid] = NoRequest
  OBVIOUS
<1> DEFINE S == {u \in Requests : emcf[u] = NoRequest}
<1>1. S \in SUBSET Nat /\ S # {}
  BY DEF Requests
<1> HIDE DEF S
<1>2. PICK u \in S : \A v \in S : u <= v
  BY <1>1, LeastNatural
<1>3. \A v \in 1..(u - 1) : emcf[v] # NoRequest
  <2> SUFFICES ASSUME NEW v \in 1..(u - 1) PROVE v \notin S
    BY <1>2, ChannelsAssumption DEF Requests, S
  <2> QED BY <1>2, ChannelsAssumption DEF Requests, S
<1> QED BY <1>2, <1>3 DEF FreshUid, S

(* Both channels of the point de vente are equipped: there is always a route.*)
LEMMA RouteIsAChannel ==
  ASSUME Types, NEW f \in Channels \cup {None}
  PROVE  LET r == Route(Config(f))
         IN  /\ r.channel \in Channels
             /\ r.auto \in BOOLEAN /\ r.opens \in BOOLEAN /\ r.alternate \in BOOLEAN
<1> DEFINE q == Config(f)
<1>1. /\ q.force = f /\ q.switch \in Channels \cup {None} /\ q.fallback \in Channels \cup {None}
      /\ q.priority \in Channels /\ q.mcf = TRUE /\ q.ownToken = TRUE /\ q.tokenOfAnother = FALSE
      /\ q.policy = "Automatique"
  BY ChannelsAssumption DEF Config, Types, PvfRows
<1> HIDE DEF q
<1>2. Wanted(q) \in Channels
  BY <1>1 DEF Wanted, FallsBack, Imposed, OtherChannel, Channels
<1>3. \A c \in Channels, s \in BOOLEAN : Equipped(q, c, s)
  BY <1>1 DEF Equipped
<1>4. \A c \in Channels : LET r == Usable(q, c)
                          IN  r.channel \in Channels /\ r.auto \in BOOLEAN /\ r.opens \in BOOLEAN /\ r.alternate \in BOOLEAN
  BY DEF Usable, Via, FallsBack, Channels
<1>5. Route(q) = Usable(q, Wanted(q))
  BY <1>2, <1>3 DEF Route
<1> QED BY <1>2, <1>4, <1>5 DEF q

----
LEMMA TypesInit == Init => Types
BY ChannelsAssumption DEF Init, Types, OpRows, InvRows, ReqRows, PvfRows, WorkerRows, NoOp, NoRequest, Idle,
   Stages, OpStates, ReqStates, Ops, Requests, Active, Channels, Holds

LEMMA Bounds == MaxOps \in Nat /\ MaxRequests \in Nat /\ MaxTroubles \in Nat
BY ChannelsAssumption

(* The rows a step may write.                                               *)
LEMMA Rows ==
  ASSUME Types
  PROVE  /\ NoOp \in OpRows /\ Idle \in WorkerRows /\ Holds(Idle)
         /\ \A i \in Invoices, s \in OpStates, f \in BOOLEAN :
              [inv |-> i, ch |-> "MCF", st |-> s, sent |-> FALSE, fallback |-> f] \in OpRows
              /\ [inv |-> i, ch |-> "e-MCF", st |-> s, sent |-> FALSE, fallback |-> f] \in OpRows
         /\ {"Queued", "Leased", "Uncertain", "Pending", "Normalized", "Rejected", "Cancelled", "None"} = OpStates
         /\ MaxOps \in Nat /\ MaxRequests \in Nat /\ MaxTroubles \in Nat
BY ChannelsAssumption DEF OpRows, WorkerRows, NoOp, Idle, Stages, OpStates, Active, Channels, Holds

LEMMA RowOfWorker ==
  ASSUME Types, NEW w \in Workers
  PROVE  worker[w] \in WorkerRows /\ Holds(worker[w])
BY DEF Types

(* One worker moves, and its new row is of the type.                        *)
WorkersTyped == worker \in [Workers -> WorkerRows] /\ \A w \in Workers : Holds(worker[w])

LEMMA WorkerMoves ==
  ASSUME Types, NEW w \in Workers, NEW x \in WorkerRows, Holds(x),
         worker' = [worker EXCEPT ![w] = x]
  PROVE  WorkersTyped'
BY DEF Types, WorkersTyped

LEMMA WorkersStay == Types /\ UNCHANGED worker => WorkersTyped'
BY DEF Types, WorkersTyped

LEMMA DropTyped ==
  ASSUME Types, NEW D
  PROVE  /\ Drop(D) \in [Ops -> OpRows]
         /\ \A o \in Ops : o \notin D => Drop(D)[o] = ops[o]
         /\ \A o \in D : o \in Ops => Drop(D)[o] = [ops[o] EXCEPT !.st = "Cancelled"]
         /\ \A o \in Ops : Drop(D)[o].inv = ops[o].inv /\ Drop(D)[o].ch = ops[o].ch
         /\ \A o \in D : o \in Ops => Drop(D)[o].st = "Cancelled"
<1>1. \A o \in Ops : [ops[o] EXCEPT !.st = "Cancelled"] \in OpRows
  BY DEF Types, OpRows, OpStates
<1>2. \A o \in Ops : ops[o] \in OpRows
  BY DEF Types
<1>3. \A o \in Ops : Drop(D)[o] = IF o \in D THEN [ops[o] EXCEPT !.st = "Cancelled"] ELSE ops[o]
  BY DEF Drop
<1>4. Drop(D) \in [Ops -> OpRows]
  BY <1>1, <1>2 DEF Drop
<1> QED BY <1>2, <1>3, <1>4 DEF OpRows

(* The first commit: the operations withdrawn, and the attempt.             *)
LEMMA CommittedTyped ==
  ASSUME Types, NEW w \in Workers, NEW st \in {"None", "Cancelled", "Rejected"}, worker[w].op \in Ops, worker[w].inv \in Invoices
  PROVE  /\ Committed(w, st) \in [Ops -> OpRows]
         /\ \A o \in Ops : o # worker[w].op => Committed(w, st)[o] = Drop(worker[w].drop)[o]
         /\ LET o == worker[w].op
                c == Committed(w, st)[o]
            IN  /\ c.inv = IF ops[o] = NoOp THEN worker[w].inv ELSE ops[o].inv
                /\ c.ch  = IF ops[o] = NoOp THEN "e-MCF" ELSE ops[o].ch
                /\ c.st  = IF st # "None" THEN st ELSE IF ops[o] = NoOp THEN "Pending" ELSE ops[o].st
<1> DEFINE x == worker[w]
           started == [inv |-> x.inv, ch |-> "e-MCF", st |-> "Pending", sent |-> FALSE, fallback |-> x.auto]
           kept == IF ops[x.op] = NoOp THEN started ELSE ops[x.op]
           row == IF st = "None" THEN kept ELSE [kept EXCEPT !.st = st]
<1>1. started \in OpRows
  BY RowOfWorker, Rows DEF WorkerRows
<1>2. kept \in OpRows
  BY <1>1 DEF Types
<1>3. row \in OpRows
  <2> HIDE DEF kept
  <2> QED BY <1>2 DEF OpRows, OpStates
<1>4. Committed(w, st) = [Drop(x.drop) EXCEPT ![x.op] = row]
  BY DEF Committed
<1>5. Drop(x.drop) \in [Ops -> OpRows]
  BY DropTyped
<1>6. Committed(w, st)[x.op] = row
  BY <1>4, <1>5
<1>7. /\ row.inv = IF ops[x.op] = NoOp THEN x.inv ELSE ops[x.op].inv
      /\ row.ch  = IF ops[x.op] = NoOp THEN "e-MCF" ELSE ops[x.op].ch
      /\ row.st  = IF st # "None" THEN st ELSE IF ops[x.op] = NoOp THEN "Pending" ELSE ops[x.op].st
  <2>1. /\ kept.inv = IF ops[x.op] = NoOp THEN x.inv ELSE ops[x.op].inv
        /\ kept.ch  = IF ops[x.op] = NoOp THEN "e-MCF" ELSE ops[x.op].ch
        /\ kept.st  = IF ops[x.op] = NoOp THEN "Pending" ELSE ops[x.op].st
    OBVIOUS
  <2> HIDE DEF kept
  <2> QED BY <1>2, <2>1 DEF OpRows
<1> HIDE DEF row
<1> QED BY <1>3, <1>4, <1>5, <1>6, <1>7

(* An attempt that raised is closed by its first commit, or by a later one.  *)
LEMMA RaisesTyped ==
  ASSUME Types, NEW w \in Workers, Raises(w)
  PROVE  /\ worker[w].inv \in Invoices /\ worker[w].op \in Ops
         /\ ops' \in [Ops -> OpRows] /\ logged' \subseteq Requests /\ logged \subseteq logged'
         /\ \A o \in Ops : o # worker[w].op => ops'[o] = Committed(w, "Rejected")[o]
         /\ LET o == worker[w].op
                c == Committed(w, "Rejected")[o]
            IN  ops'[o].inv = c.inv /\ ops'[o].ch = c.ch /\ ops'[o].st = c.st
<1>1. worker[w].inv \in Invoices /\ worker[w].op \in Ops /\ (worker[w].pc = "answered" => worker[w].uid \in Requests)
  BY RowOfWorker DEF Raises, Holds
<1> DEFINE C == Committed(w, "Rejected")
<1>2. C \in [Ops -> OpRows]
  BY <1>1, CommittedTyped
<1>3. PICK b \in BOOLEAN : ops' = [C EXCEPT ![worker[w].op].sent = b]
  <2>1. ops' = [C EXCEPT ![worker[w].op].sent = invoice[worker[w].inv].uid \in logged']
    BY DEF Raises
  <2>2. (invoice[worker[w].inv].uid \in logged') \in BOOLEAN
    OBVIOUS
  <2> HIDE DEF C
  <2> QED BY <2>1, <2>2
<1>4. logged' = IF worker[w].pc = "answered" THEN logged \cup {worker[w].uid} ELSE logged
  BY DEF Raises, At
<1> HIDE DEF C
<1>5. \A r \in OpRows : /\ [r EXCEPT !.sent = b] \in OpRows
                        /\ [r EXCEPT !.sent = b].inv = r.inv
                        /\ [r EXCEPT !.sent = b].ch = r.ch
                        /\ [r EXCEPT !.sent = b].st = r.st
  BY DEF OpRows
<1>6. /\ ops' \in [Ops -> OpRows] /\ ops'[worker[w].op] = [C[worker[w].op] EXCEPT !.sent = b]
      /\ \A o \in Ops : o # worker[w].op => ops'[o] = C[o]
  BY <1>1, <1>2, <1>3, <1>5
<1>7. LET o == worker[w].op IN ops'[o].inv = C[o].inv /\ ops'[o].ch = C[o].ch /\ ops'[o].st = C[o].st
  BY <1>1, <1>2, <1>5, <1>6
<1>8. logged' \subseteq Requests /\ logged \subseteq logged'
  BY <1>1, <1>4 DEF Types
<1> QED BY <1>1, <1>6, <1>7, <1>8 DEF C

LEMMA QueueTyped ==
  ASSUME Types, NEW i \in Invoices, NEW D, NEW f \in BOOLEAN, QueueMcf(i, D, f)
  PROVE  ops' \in [Ops -> OpRows] /\ invoice' \in [Invoices -> InvRows]
<1>1. CASE ActiveOps(i) \ D # {}
  BY <1>1, DropTyped DEF QueueMcf, Types
<1>2. CASE ActiveOps(i) \ D = {}
  <2> DEFINE r == [inv |-> i, ch |-> "MCF", st |-> "Queued", sent |-> FALSE, fallback |-> f]
  <2>1. r \in OpRows
    BY Rows
  <2>2. ops' = [Drop(D) EXCEPT ![NewOp] = r] /\ invoice' = [invoice EXCEPT ![i].status = "Pending"]
    BY <1>2 DEF QueueMcf
  <2> HIDE DEF r
  <2>3. ops' \in [Ops -> OpRows]
    BY <2>1, <2>2, DropTyped
  <2>4. invoice' \in [Invoices -> InvRows]
    BY <2>2 DEF Types, InvRows
  <2> QED BY <2>3, <2>4
<1> QED BY <1>1, <1>2

LEMMA BeginTyped == ASSUME Types, NEW w \in Workers, NEW i \in Invoices, Begin(w, i) PROVE Types'
<1>1. PICK f \in Channels \cup {None} :
        worker' = [worker EXCEPT ![w] = [Idle EXCEPT !.pc = "loaded", !.inv = i,
                                                     !.uid = invoice[i].uid, !.force = f]]
  BY DEF Begin, OtherChannel, Channels
<1> DEFINE x == [Idle EXCEPT !.pc = "loaded", !.inv = i, !.uid = invoice[i].uid, !.force = f]
<1>2. invoice[i].uid \in 0..MaxRequests
  BY DEF Types, InvRows
<1>3. x \in WorkerRows /\ Holds(x)
  BY <1>2, Rows DEF Idle, WorkerRows, Holds, Stages
<1> HIDE DEF x
<1>4. WorkersTyped'
  BY <1>1, <1>3, WorkerMoves DEF x
<1> QED BY <1>4 DEF Begin, Types, WorkersTyped

LEMMA EnterTyped == ASSUME Types, NEW w \in Workers, Enter(w) PROVE Types'
<1> DEFINE i == Inv(w)
           r == Route(Config(worker[w].force))
           D == Withdrawn(i, r.channel)
           E == OnOther(i, OtherChannel(r.channel))
           row == [worker[w] EXCEPT !.pc = "entered", !.drop = D, !.auto = r.auto, !.alternate = r.alternate,
                                    !.op = IF E = {} THEN NewOp ELSE CHOOSE o \in E : TRUE]
<1>1. worker[w] \in WorkerRows /\ i \in Invoices
  BY RowOfWorker DEF Enter, At, Inv, Holds
<1>2. r.channel \in Channels /\ r.auto \in BOOLEAN /\ r.opens \in BOOLEAN /\ r.alternate \in BOOLEAN
  BY <1>1, RouteIsAChannel DEF WorkerRows
<1>3. pvf' \in PvfRows
  <2>1. Opened("e-MCF") \in PvfRows
    BY DEF Opened, Types, PvfRows, Channels
  <2> QED BY <2>1 DEF Enter, Types
<1>4. CASE worker' = [worker EXCEPT ![w] = Idle] /\ UNCHANGED <<ops, invoice>>
  BY <1>3, <1>4, Rows, WorkerMoves DEF Types, Enter, WorkersTyped
<1>5. CASE worker' = [worker EXCEPT ![w] = Idle] /\ QueueMcf(i, D, r.auto)
  <2>1. ops' \in [Ops -> OpRows] /\ invoice' \in [Invoices -> InvRows]
    BY <1>1, <1>2, <1>5, QueueTyped
  <2> QED BY <1>3, <1>5, <2>1, Rows, WorkerMoves DEF Types, Enter, WorkersTyped
<1>6. CASE /\ E = {} => FreeOps # {}
           /\ worker' = [worker EXCEPT ![w] = row]
           /\ UNCHANGED <<ops, invoice>>
  <2>1. D \subseteq Ops /\ E \subseteq Ops
    BY DEF Withdrawn, OnOther, ActiveOps
  <2>2. (IF E = {} THEN NewOp ELSE CHOOSE o \in E : TRUE) \in Ops
    <3> HIDE DEF E
    <3>1. E # {} => (CHOOSE o \in E : TRUE) \in E
      OBVIOUS
    <3> QED BY <1>6, <2>1, <3>1, NewOpIsFree
  <2>3. row \in WorkerRows /\ Holds(row)
    <3> HIDE DEF D, E, r, i
    <3>1. row.op \in Ops /\ row.op \in 0..MaxOps
      BY <1>1, <2>2, Rows DEF WorkerRows, Ops
    <3>2. row.pc = "entered" /\ row.inv = i
      BY <1>1 DEF WorkerRows, Inv, i
    <3>3. row \in WorkerRows
      BY <1>1, <1>2, <2>1, <3>1 DEF WorkerRows, Stages
    <3> QED BY <1>1, <3>1, <3>2, <3>3 DEF Holds
  <2> HIDE DEF row
  <2> QED BY <1>3, <1>6, <2>3, WorkerMoves DEF Types, Enter, WorkersTyped
<1> QED BY <1>2, <1>4, <1>5, <1>6 DEF Enter, Channels, Inv

(* A request that is created, or reused.                                    *)
LEMMA PostedTyped ==
  ASSUME Types, NEW i \in Invoices, Posted(i)
  PROVE  emcf' \in [Requests -> ReqRows] /\ FreshUid \in Requests
BY FreshUidIsFresh DEF Posted, Types, ReqRows, ReqStates

LEMMA CreatedTyped ==
  ASSUME Types, NEW w \in Workers, NEW u \in Requests, worker[w].inv \in Invoices, worker[w].op \in Ops,
         At(w, "entered"), Created(w, u)
  PROVE  WorkersTyped'
<1> DEFINE x == [worker[w] EXCEPT !.pc = "created", !.uid = u]
<1>1. worker' = [worker EXCEPT ![w] = x]
  BY RowOfWorker DEF Created, Types
<1>2. x \in WorkerRows
  <2>1. worker[w] \in WorkerRows
    BY RowOfWorker
  <2>2. u \in 0..MaxRequests
    BY Bounds DEF Requests
  <2> QED BY <2>1, <2>2 DEF WorkerRows, Stages
<1>3. x.pc = "created" /\ x.uid = u /\ x.op = worker[w].op /\ x.inv = worker[w].inv
  BY RowOfWorker DEF WorkerRows
<1> HIDE DEF x
<1>4. Holds(x)
  BY <1>3 DEF Holds
<1> QED BY <1>1, <1>2, <1>4, WorkerMoves

LEMMA NotCreatedTyped ==
  ASSUME Types, NEW w \in Workers, NEW why \in {"lost", "refused", "unavailable"},
         worker[w].inv \in Invoices, worker[w].op \in Ops, At(w, "entered"), NotCreated(w, why)
  PROVE  WorkersTyped'
<1> DEFINE x == [worker[w] EXCEPT !.pc = "failed", !.out = why, !.uid = IF why = "lost" THEN @ ELSE 0]
<1>1. worker' = [worker EXCEPT ![w] = x]
  BY RowOfWorker DEF NotCreated, Types
<1>2. x \in WorkerRows
  <2>1. worker[w] \in WorkerRows
    BY RowOfWorker
  <2>2. 0 \in 0..MaxRequests
    BY Bounds
  <2> QED BY <2>1, <2>2 DEF WorkerRows, Stages
<1>3. x.pc = "failed" /\ x.out = why /\ x.op = worker[w].op /\ x.inv = worker[w].inv
  BY RowOfWorker DEF WorkerRows
<1> HIDE DEF x
<1>4. Holds(x)
  BY <1>3 DEF Holds
<1> QED BY <1>1, <1>2, <1>4, WorkerMoves

(* What became of a worker that tries to have a request.                    *)
Tried(w) ==
  \/ \E u \in Requests : Created(w, u)
  \/ \E why \in {"lost", "refused", "unavailable"} : NotCreated(w, why)

LEMMA PostTyped ==
  ASSUME Types, NEW w \in Workers, Inv(w) \in Invoices, Post(w)
  PROVE  emcf' \in [Requests -> ReqRows] /\ troubles' \in 0..MaxTroubles /\ Tried(w)
<1>1. emcf' \in [Requests -> ReqRows] /\ (Posted(Inv(w)) => FreshUid \in Requests)
  BY PostedTyped DEF Post, Types
<1>2. troubles' \in 0..MaxTroubles
  BY Rows DEF Post, Trouble, NoTrouble, Types
<1>3. Of(Inv(w), "pending") \subseteq Requests
  BY DEF Of
<1>4. Tried(w)
  BY <1>1, <1>3 DEF Post, Tried
<1> QED BY <1>1, <1>2, <1>4

LEMMA TriedTyped ==
  ASSUME Types, NEW w \in Workers, At(w, "entered"), Tried(w)
  PROVE  WorkersTyped'
<1>1. worker[w].inv \in Invoices /\ worker[w].op \in Ops
  BY RowOfWorker DEF At, Holds
<1> QED BY <1>1, CreatedTyped, NotCreatedTyped DEF Tried

LEMMA CreateTyped == ASSUME Types, NEW w \in Workers, Create(w) PROVE Types'
<1>1. At(w, "entered") /\ Inv(w) \in Invoices
  BY RowOfWorker DEF Create, At, Inv, Holds
<1>2. Tried(w) /\ emcf' \in [Requests -> ReqRows] /\ troubles' \in 0..MaxTroubles
  <2> DEFINE u == worker[w].uid
  <2>1. CASE u \in Of(Inv(w), "pending") /\ Created(w, u) /\ NoTrouble /\ UNCHANGED emcf
    BY <2>1 DEF Of, Tried, NoTrouble, Types
  <2>2. CASE NotCreated(w, "lost") /\ UNCHANGED emcf /\ (Trouble \/ NoTrouble)
    BY <2>2, Rows DEF Tried, NoTrouble, Trouble, Types
  <2>3. CASE Post(w)
    BY <1>1, <2>3, PostTyped
  <2> QED BY <2>1, <2>2, <2>3 DEF Create
<1>3. WorkersTyped'
  BY <1>1, <1>2, TriedTyped
<1> QED BY <1>2, <1>3 DEF Create, Types, WorkersTyped

(* A worker that goes on to a later stage, with an outcome or without.      *)
Further(w) ==
  \E pc \in {"alternate", "kept", "answered", "finish"}, D \in {{}, worker[w].drop} :
    /\ pc \in {"kept", "answered"} => worker[w].uid \in Requests
    /\ \/ /\ pc # "answered"
          /\ worker' = [worker EXCEPT ![w] = [@ EXCEPT !.pc = pc, !.drop = D]]
       \/ \E out \in {"ok", "lost", "refused"} :
            worker' = [worker EXCEPT ![w] = [@ EXCEPT !.pc = pc, !.drop = D, !.out = out]]

LEMMA FurtherTyped ==
  ASSUME Types, NEW w \in Workers, worker[w].inv \in Invoices, worker[w].op \in Ops, Further(w)
  PROVE  WorkersTyped'
<1>1. PICK pc \in {"alternate", "kept", "answered", "finish"}, D \in {{}, worker[w].drop} :
        /\ pc \in {"kept", "answered"} => worker[w].uid \in Requests
        /\ \/ /\ pc # "answered"
              /\ worker' = [worker EXCEPT ![w] = [@ EXCEPT !.pc = pc, !.drop = D]]
           \/ \E out \in {"ok", "lost", "refused"} :
                worker' = [worker EXCEPT ![w] = [@ EXCEPT !.pc = pc, !.drop = D, !.out = out]]
  BY DEF Further
<1>2. CASE pc # "answered" /\ worker' = [worker EXCEPT ![w] = [@ EXCEPT !.pc = pc, !.drop = D]]
  <2> DEFINE x == [worker[w] EXCEPT !.pc = pc, !.drop = D]
  <2>1. x \in WorkerRows
    BY RowOfWorker DEF WorkerRows, Stages
  <2>2. x.pc = pc /\ x.op = worker[w].op /\ x.inv = worker[w].inv /\ x.uid = worker[w].uid
    BY RowOfWorker DEF WorkerRows
  <2>3. worker' = [worker EXCEPT ![w] = x]
    BY <1>2
  <2> HIDE DEF x
  <2>4. Holds(x)
    BY <1>1, <1>2, <2>2 DEF Holds
  <2> QED BY <2>1, <2>3, <2>4, WorkerMoves
<1>3. ASSUME NEW out \in {"ok", "lost", "refused"},
             worker' = [worker EXCEPT ![w] = [@ EXCEPT !.pc = pc, !.drop = D, !.out = out]]
      PROVE  WorkersTyped'
  <2> DEFINE x == [worker[w] EXCEPT !.pc = pc, !.drop = D, !.out = out]
  <2>1. x \in WorkerRows
    BY RowOfWorker DEF WorkerRows, Stages
  <2>2. x.pc = pc /\ x.out = out /\ x.op = worker[w].op /\ x.inv = worker[w].inv /\ x.uid = worker[w].uid
    BY RowOfWorker DEF WorkerRows
  <2>3. worker' = [worker EXCEPT ![w] = x]
    BY <1>3
  <2> HIDE DEF x
  <2>4. Holds(x)
    BY <1>1, <2>2 DEF Holds
  <2> QED BY <2>1, <2>3, <2>4, WorkerMoves
<1> QED BY <1>1, <1>2, <1>3

LEMMA CommitTyped ==
  ASSUME Types, NEW w \in Workers,
         \/ NotReceived(w) \/ Fails(w) \/ Invalid(w) \/ KeepUid(w)
  PROVE  Types'
<1>1. /\ worker[w] \in WorkerRows /\ worker[w].inv \in Invoices /\ worker[w].op \in Ops
      /\ worker[w].pc = "created" => worker[w].uid \in Requests
  BY RowOfWorker DEF NotReceived, Fails, Invalid, KeepUid, At, Holds
<1>2. ops' \in [Ops -> OpRows]
  BY <1>1, CommittedTyped DEF NotReceived, Fails, Invalid, KeepUid
<1>3. invoice' \in [Invoices -> InvRows]
  <2>1. worker[w].uid \in 0..MaxRequests /\ 0 \in 0..MaxRequests
    BY <1>1, Bounds DEF WorkerRows
  <2> QED BY <2>1 DEF NotReceived, Fails, Invalid, KeepUid, Types, InvRows
<1>4. Further(w)
  <2>1. CASE NotReceived(w)
    <3>1. worker' = [worker EXCEPT ![w] = [@ EXCEPT !.pc = "alternate", !.drop = {}]]
      BY <2>1 DEF NotReceived
    <3> QED BY <3>1 DEF Further
  <2>2. CASE Fails(w)
    <3>1. worker' = [worker EXCEPT ![w] = [@ EXCEPT !.pc = "finish", !.drop = {}]]
      BY <2>2 DEF Fails
    <3> QED BY <3>1 DEF Further
  <2>3. CASE Invalid(w)
    <3>1. worker' = [worker EXCEPT ![w] = [@ EXCEPT !.pc = "finish", !.drop = {}, !.out = "refused"]]
      BY <2>3 DEF Invalid
    <3> QED BY <3>1 DEF Further
  <2>4. CASE KeepUid(w)
    <3>1. worker' = [worker EXCEPT ![w] = [@ EXCEPT !.pc = "kept", !.drop = {}]]
      BY <2>4 DEF KeepUid
    <3> QED BY <1>1, <2>4, <3>1 DEF Further, KeepUid, At
  <2> QED BY <2>1, <2>2, <2>3, <2>4
<1>5. WorkersTyped'
  BY <1>1, <1>4, FurtherTyped
<1>6. UNCHANGED <<logged, emcf, mcf>> /\ pvf' \in PvfRows /\ troubles' \in 0..MaxTroubles
  <2>1. Opened("MCF") \in PvfRows
    BY DEF Opened, Types, PvfRows, Channels
  <2> QED BY <2>1, Bounds DEF NotReceived, Fails, Invalid, KeepUid, Trouble, Types
<1> QED BY <1>2, <1>3, <1>5, <1>6 DEF Types, WorkersTyped

LEMMA CancelTyped ==
  ASSUME Types, NEW u \in Requests, Cancel(u) \/ UNCHANGED emcf \/ emcf' = [emcf EXCEPT ![u].st = "confirmed"]
         \/ emcf' = [emcf EXCEPT ![u].st = "closed"]
  PROVE  emcf' \in [Requests -> ReqRows]
BY DEF Cancel, Types, ReqRows, ReqStates

LEMMA ConfirmTyped ==
  ASSUME Types, NEW w \in Workers, Differs(w) \/ Confirm(w) \/ Record(w)
  PROVE  Types'
<1>1. worker[w] \in WorkerRows /\ worker[w].inv \in Invoices /\ worker[w].op \in Ops /\ worker[w].uid \in Requests
  BY RowOfWorker DEF Differs, Confirm, Record, At, Holds
<1>2. emcf' \in [Requests -> ReqRows]
  <2>1. CASE Differs(w)
    BY <1>1, <2>1, CancelTyped DEF Differs
  <2>2. CASE Confirm(w)
    BY <1>1, <2>2, CancelTyped DEF Confirm
  <2>3. CASE Record(w)
    <3>1. worker[w].out \in {"ok", "lost", "refused"}
      BY <2>3, RowOfWorker DEF Record, At, Holds
    <3>2. Cancel(worker[w].uid) \/ UNCHANGED emcf
      BY <2>3, <3>1 DEF Record
    <3> QED BY <1>1, <3>2, CancelTyped
  <2> QED BY <2>1, <2>2, <2>3
<1>3. invoice' \in [Invoices -> InvRows]
  <2>1. 0 \in 0..MaxRequests /\ worker[w].uid \in 0..(MaxRequests + MaxOps)
    BY <1>1, Bounds DEF Requests
  <2>2. CASE Record(w)
    <3>1. worker[w].out \in {"ok", "lost", "refused"}
      BY <2>2, RowOfWorker DEF Record, At, Holds
    <3>2. \/ invoice' = [invoice EXCEPT ![Inv(w)] = [@ EXCEPT !.status = "Normalized", !.code = worker[w].uid]]
          \/ invoice' = [invoice EXCEPT ![Inv(w)].status = "Error"]
          \/ invoice' = [invoice EXCEPT ![Inv(w)].status = "Error", ![Inv(w)].uid = 0]
      BY <2>2, <3>1 DEF Record
    <3>3. invoice[Inv(w)] \in InvRows
      BY <1>1 DEF Inv, Types
    <3>4. /\ [invoice[Inv(w)] EXCEPT !.status = "Normalized", !.code = worker[w].uid] \in InvRows
          /\ [invoice[Inv(w)] EXCEPT !.status = "Error"] \in InvRows
          /\ [invoice[Inv(w)] EXCEPT !.status = "Error", !.uid = 0] \in InvRows
      BY <2>1, <3>3 DEF InvRows
    <3>5. \E r \in InvRows : invoice' = [invoice EXCEPT ![Inv(w)] = r]
      BY <3>2, <3>4
    <3> QED BY <3>5 DEF Types
  <2> QED BY <2>1, <2>2 DEF Differs, Confirm, Types, InvRows
<1>4. Further(w)
  <2>1. worker[w] = [worker[w] EXCEPT !.drop = worker[w].drop]
    BY <1>1 DEF WorkerRows
  <2>2. CASE Differs(w)
    <3>1. worker' = [worker EXCEPT ![w] = [@ EXCEPT !.pc = "finish", !.drop = worker[w].drop, !.out = "refused"]]
      BY <1>1, <2>2 DEF Differs, Outcome, WorkerRows, Types
    <3> QED BY <3>1 DEF Further
  <2>3. CASE Confirm(w)
    <3>1. PICK a \in {"ok", "lost", "refused"} : Answer(w, a)
      BY <2>3 DEF Confirm
    <3>2. worker' = [worker EXCEPT ![w] = [@ EXCEPT !.pc = "answered", !.drop = worker[w].drop, !.out = a]]
      BY <1>1, <3>1 DEF Answer, WorkerRows, Types
    <3> QED BY <1>1, <3>2 DEF Further
  <2>4. CASE Record(w)
    <3>1. worker' = [worker EXCEPT ![w] = [@ EXCEPT !.pc = "finish", !.drop = worker[w].drop]]
      BY <1>1, <2>4 DEF Record, Goto, WorkerRows, Types
    <3> QED BY <3>1 DEF Further
  <2> QED BY <2>2, <2>3, <2>4
<1>5. WorkersTyped'
  BY <1>1, <1>4, FurtherTyped
<1>6. UNCHANGED <<ops, mcf, pvf>> /\ logged' \subseteq Requests /\ troubles' \in 0..MaxTroubles
  <2>1. UNCHANGED <<ops, mcf, pvf>> /\ logged' \subseteq Requests
    BY <1>1 DEF Differs, Confirm, Record, Types
  <2>2. Trouble \/ NoTrouble
    BY DEF Differs, Confirm, Record, NoTrouble
  <2> QED BY <2>1, <2>2, Bounds DEF Trouble, NoTrouble, Types
<1> QED BY <1>2, <1>3, <1>5, <1>6 DEF Types, WorkersTyped

LEMMA ReleasedTyped ==
  ASSUME Types, NEW w \in Workers, TakeOver(w) \/ Finish(w) \/ Raises(w) \/ Crash(w)
  PROVE  Types'
<1>1. worker[w] \in WorkerRows /\ worker[w].inv \in Invoices
  BY RowOfWorker DEF TakeOver, Finish, Raises, Crash, At, Holds
<1>2. WorkersTyped'
  BY Rows, WorkerMoves DEF TakeOver, Finish, Raises, Crash
<1>3. CASE TakeOver(w)
  <2>1. ops' \in [Ops -> OpRows] /\ invoice' \in [Invoices -> InvRows]
    BY <1>1, <1>3, QueueTyped DEF TakeOver, Inv
  <2> QED BY <1>2, <1>3, <2>1 DEF TakeOver, Types, WorkersTyped
<1>4. CASE Finish(w)
  <2>1. Closed(w) \in OpStates
    BY DEF Closed, OpStates, Active
  <2>2. \A b \in BOOLEAN : [ops EXCEPT ![worker[w].op].st = Closed(w), ![worker[w].op].sent = b] \in [Ops -> OpRows]
    <3>1. ops \in [Ops -> OpRows]
      BY DEF Types
    <3>2. \A r \in OpRows, b \in BOOLEAN : [[r EXCEPT !.st = Closed(w)] EXCEPT !.sent = b] \in OpRows
      BY <2>1 DEF OpRows
    <3> QED BY <3>1, <3>2
  <2>3. (worker[w].out = "lost" \/ invoice[Inv(w)].uid \in logged) \in BOOLEAN
    OBVIOUS
  <2>4. ops' \in [Ops -> OpRows]
    BY <1>4, <2>2, <2>3 DEF Finish
  <2> QED BY <1>2, <1>4, <2>4 DEF Finish, Types, WorkersTyped
<1>5. CASE Crash(w)
  BY <1>2, <1>5, Bounds DEF Crash, Trouble, Types, WorkersTyped
<1>6. CASE Raises(w)
  <2>1. ops' \in [Ops -> OpRows] /\ logged' \subseteq Requests
    BY <1>6, RaisesTyped
  <2> QED BY <1>2, <1>6, <2>1, Bounds DEF Raises, Trouble, Types, WorkersTyped
<1> QED BY <1>3, <1>4, <1>5, <1>6

LEMMA McfTyped ==
  ASSUME Types, NEW o \in Ops, Lease(o) \/ Register(o) \/ Result(o)
  PROVE  Types'
<1>1. ops[o] \in OpRows
  BY DEF Types
<1>2. ops' \in [Ops -> OpRows]
  <2>1. \A s \in OpStates : [ops EXCEPT ![o].st = s] \in [Ops -> OpRows]
    BY DEF Types, OpRows
  <2>2. {"Leased", "Normalized", "Rejected", "Queued"} \subseteq OpStates
    BY Rows
  <2>3. ASSUME ops' = [ops EXCEPT ![o].st = "Rejected", ![NewOp] = [ops[o] EXCEPT !.st = "Queued"]]
        PROVE  ops' \in [Ops -> OpRows]
    <3> DEFINE r == [ops[o] EXCEPT !.st = "Queued"]
               f == [ops EXCEPT ![o].st = "Rejected"]
    <3>1. r \in OpRows /\ f \in [Ops -> OpRows]
      BY <1>1, <2>1, <2>2 DEF OpRows
    <3>2. ops' = [f EXCEPT ![NewOp] = r]
      BY <2>3
    <3> HIDE DEF r, f
    <3> QED BY <3>1, <3>2
  <2> QED BY <2>1, <2>2, <2>3 DEF Lease, Register, Result, Types
<1>3. invoice' \in [Invoices -> InvRows]
  <2>1. MaxRequests + o \in 0..(MaxRequests + MaxOps)
    BY Bounds DEF Ops
  <2> DEFINE i == ops[o].inv
  <2>2. /\ [invoice EXCEPT ![i] = [@ EXCEPT !.status = "Normalized", !.code = MaxRequests + o]] \in [Invoices -> InvRows]
        /\ [invoice EXCEPT ![i].status = "Error"] \in [Invoices -> InvRows]
        /\ [invoice EXCEPT ![i].status = "Pending"] \in [Invoices -> InvRows]
    BY <2>1 DEF Types, InvRows
  <2> QED BY <2>2 DEF Lease, Register, Result, Types
<1>4. mcf' \subseteq Ops /\ troubles' \in 0..MaxTroubles
  BY Bounds DEF Lease, Register, Result, Trouble, NoTrouble, Types
<1>5. UNCHANGED <<logged, emcf, worker, pvf>>
  BY DEF Lease, Register, Result
<1> QED BY <1>2, <1>3, <1>4, <1>5 DEF Types

LEMMA WithdrawTyped ==
  ASSUME Types, NEW D, Withdraw(D)
  PROVE  ops' \in [Ops -> OpRows] /\ invoice' \in [Invoices -> InvRows]
<1>1. ops' \in [Ops -> OpRows]
  BY DropTyped DEF Withdraw
<1>2. \A i \in Invoices : [invoice[i] EXCEPT !.status = "Pending"] \in InvRows /\ invoice[i] \in InvRows
  BY DEF Types, InvRows
<1>3. invoice' \in [Invoices -> InvRows]
  BY <1>2 DEF Withdraw
<1> QED BY <1>1, <1>3

LEMMA DecisionsTyped ==
  ASSUME Types,
         \/ \E o \in Ops : StaleQueue(o)
         \/ \E to \in {None, OtherChannel(Priority)} : Switch(to)
         \/ Deactivate \/ RerouteQueued \/ Station
         \/ \E i \in Invoices : Release(i)
         \/ \E u \in Requests : Expire(u)
  PROVE  Types'
<1>1. pvf \in PvfRows /\ Opened("e-MCF") \in PvfRows
  BY DEF Opened, Types, PvfRows, Channels
<1>2. CASE \E o \in Ops : StaleQueue(o)
  BY <1>1, <1>2, WithdrawTyped DEF StaleQueue, Types
<1>3. CASE \E to \in {None, OtherChannel(Priority)} : Switch(to)
  <2>1. PICK to \in {None, OtherChannel(Priority)} : Switch(to)
    BY <1>3
  <2>2. to \in Channels \cup {None}
    BY DEF OtherChannel, Channels
  <2>3. pvf' \in PvfRows
    BY <1>1, <2>1, <2>2 DEF Switch, PvfRows
  <2> QED BY <2>1, <2>3, WithdrawTyped DEF Switch, Types
<1>4. CASE Deactivate
  <2>1. pvf' \in PvfRows
    BY <1>1, <1>4 DEF Deactivate, PvfRows
  <2> QED BY <1>4, <2>1 DEF Deactivate, Types
<1>5. CASE Station
  <2>1. pvf' \in PvfRows
    BY <1>1, <1>5 DEF Station, PvfRows
  <2> QED BY <1>5, <2>1 DEF Station, Types
<1>6. CASE \E i \in Invoices : Release(i)
  <2>1. PICK i \in Invoices : Release(i)
    BY <1>6
  <2>2. invoice' \in [Invoices -> InvRows]
    BY <2>1, Bounds DEF Release, Types, InvRows
  <2>3. ops' \in [Ops -> OpRows]
    BY <2>1, DropTyped DEF Release
  <2> QED BY <2>1, <2>2, <2>3 DEF Release, Types
<1>7. CASE \E u \in Requests : Expire(u)
  BY <1>7, CancelTyped DEF Expire, Types
<1>8. CASE RerouteQueued
  <2>1. pvf' \in PvfRows
    BY <1>1, <1>8 DEF RerouteQueued, PvfRows
  <2> QED BY <1>8, <2>1, WithdrawTyped DEF RerouteQueued, Types
<1> QED BY <1>2, <1>3, <1>4, <1>5, <1>6, <1>7, <1>8

LEMMA TypesNext == Types /\ [Next]_vars => Types'
<1> SUFFICES ASSUME Types, [Next]_vars PROVE Types'
  OBVIOUS
<1>1. CASE UNCHANGED vars
  BY <1>1 DEF vars, Types
<1>2. CASE Next
  BY <1>2, BeginTyped, EnterTyped, CreateTyped, CommitTyped, ConfirmTyped, ReleasedTyped, McfTyped,
     DecisionsTyped DEF Next
<1> QED BY <1>1, <1>2

(* Whatever the code leaves open, each field of an operation, of an invoice, *)
(* of a request and of the point de vente has its type.                      *)
THEOREM ChannelsTypeCorrect == Spec => []ChannelsTypeOK
<1>1. Init => Types
  BY TypesInit
<1>2. Types /\ [Next]_vars => Types'
  BY TypesNext
<1>3. Types => ChannelsTypeOK
  BY TypesGiveTypeOK
<1> QED BY <1>1, <1>2, <1>3, PTL DEF Spec

----
(* The inductive invariant when no window opens.                            *)

(* Each operation is on a channel, in the states of this channel.           *)
OpOk(r) ==
  r # NoOp =>
    /\ r.inv \in Invoices
    /\ \/ r.ch = "MCF" /\ r.st \in {"Queued", "Leased", "Normalized", "Rejected", "Cancelled"}
       \/ r.ch = "e-MCF" /\ r.st \in {"Pending", "Uncertain", "Normalized", "Rejected", "Cancelled"}

Shapes ==
  /\ \A o \in Ops : OpOk(ops[o])
  /\ \A o \in mcf : ops[o].ch = "MCF" /\ ops[o].st \in {"Leased", "Normalized"}

(* Two workers never deal with one invoice or one operation.                *)
Alone ==
  \A w, v \in Workers : w # v =>
    /\ worker[w].inv = worker[v].inv => worker[w].inv = None
    /\ worker[w].op = worker[v].op => worker[w].op = 0

(* The MCF registered it and its result is on its way; or the e-MCF may     *)
(* have, and the invoice still carries the UID of the request.              *)
InMcf(i)   == \E o \in mcf : o \in ActiveOps(i) /\ Registrations(i) = {MaxRequests + o}
Doubted(i) == \E o \in ActiveOps(i) : ops[o].st = "Uncertain"
Waits(x)   == x.pc = "answered" \/ (x.pc = "finish" /\ x.out = "lost")
InEmcf(i)  ==
  /\ invoice[i].uid \in Requests /\ Registrations(i) = {invoice[i].uid}
  /\ \/ invoice[i].uid \in logged /\ Doubted(i)
     \/ \E w \in Workers : worker[w].inv = i /\ Waits(worker[w])

InvoiceOk(i) ==
  /\ \A o, p \in ActiveOps(i) : o = p
  /\ invoice[i].status = "Normalized" <=> invoice[i].code # 0
  /\ Normal(i) => Registrations(i) = {invoice[i].code}
  /\ ~Normal(i) => Registrations(i) = {} \/ InMcf(i) \/ InEmcf(i)
  /\ \A o \in ActiveOps(i) : ops[o].ch = "MCF" => ~Normal(i)
  /\ \A o \in ActiveOps(i) : ops[o].st = "Queued" => Registrations(i) = {}

(* What a worker holds under the row lock, and after its first commit.      *)
HoldsRow(x) ==
  /\ x.drop \subseteq ActiveOps(x.inv) /\ \A o \in x.drop : ops[o].st = "Queued"
  /\ \/ ops[x.op] = NoOp /\ ActiveOps(x.inv) \subseteq x.drop
     \/ x.op \in ActiveOps(x.inv) /\ ops[x.op].ch = "e-MCF" /\ x.drop = {}

Attempts(x) == x.op \in ActiveOps(x.inv) /\ ops[x.op].ch = "e-MCF" /\ x.drop = {}

Unconfirmed == {"pending", "closed"}

WorkerOk(x) ==
  /\ x.pc = "idle" <=> x.inv = None
  /\ x.pc \in {"idle", "loaded"} => x.op = 0 /\ x.drop = {}
  /\ x.pc \notin {"idle", "finish"} => ~Normal(x.inv)
  /\ x.pc \in {"loaded", "entered"} => x.uid = invoice[x.inv].uid
  /\ x.pc \in {"entered", "created", "failed"} => HoldsRow(x)
  /\ x.pc \in {"kept", "answered", "finish"} => Attempts(x)
  /\ x.pc \in {"created", "kept", "answered"} => emcf[x.uid].inv = x.inv
  /\ x.pc \in {"created", "kept"} => emcf[x.uid].st \in Unconfirmed /\ Registrations(x.inv) = {}
  /\ x.pc \in {"kept", "answered"} => invoice[x.inv].uid = x.uid
  /\ x.pc = "failed" =>
       \/ x.out = "lost" /\ x.uid = invoice[x.inv].uid /\ x.uid \in logged
       \/ x.out \in {"refused", "unavailable"} /\ x.uid = 0 /\ Registrations(x.inv) = {}
  /\ x.pc = "alternate" =>
       x.drop = {} /\ ActiveOps(x.inv) = {} /\ Registrations(x.inv) = {} /\ ops[x.op].inv = x.inv
  /\ x.pc = "answered" =>
       \/ x.out = "ok" /\ Registrations(x.inv) = {x.uid}
       \/ x.out = "lost" /\ Registrations(x.inv) \subseteq {x.uid}
       \/ x.out = "refused" /\ Registrations(x.inv) = {}
  /\ x.pc = "finish" =>
       \/ x.out = "ok" /\ Normal(x.inv)
       \/ x.out = "lost" /\ ~Normal(x.inv) /\ invoice[x.inv].uid \in logged
       \/ x.out \in {"refused", "unavailable"} /\ ~Normal(x.inv) /\ Registrations(x.inv) = {}

IInv ==
  /\ Types /\ Shapes /\ Alone
  /\ \A i \in Invoices : InvoiceOk(i)
  /\ \A w \in Workers : WorkerOk(worker[w])

LEMMA IInvInit == Init => IInv
<1> SUFFICES ASSUME Init PROVE IInv
  OBVIOUS
<1>1. Types
  BY TypesInit
<1>2. /\ \A o \in Ops : ops[o] = NoOp
      /\ \A u \in Requests : emcf[u] = NoRequest
      /\ \A w \in Workers : worker[w] = Idle
      /\ \A i \in Invoices : invoice[i] = [status |-> "Pending", uid |-> 0, code |-> 0]
      /\ mcf = {}
  BY DEF Init
<1>3. \A i \in Invoices : ActiveOps(i) = {} /\ Registrations(i) = {}
  BY <1>2 DEF ActiveOps, Active, NoOp, Registrations, Of, NoRequest
<1>4. Shapes
  BY <1>2 DEF Shapes, OpOk
<1>5. Alone
  BY <1>2 DEF Alone, Idle
<1>6. \A i \in Invoices : InvoiceOk(i)
  BY <1>2, <1>3 DEF InvoiceOk, Normal
<1>7. \A w \in Workers : WorkerOk(worker[w])
  BY <1>2 DEF WorkerOk, Idle
<1> QED BY <1>1, <1>4, <1>5, <1>6, <1>7 DEF IInv

(* What a step leaves of an invoice it does not deal with.                  *)
Same(j) ==
  /\ invoice'[j] = invoice[j]
  /\ ActiveOps(j)' = ActiveOps(j) /\ \A o \in ActiveOps(j) : ops'[o] = ops[o]
  /\ Registrations(j)' = Registrations(j)

LEMMA Elsewhere ==
  ASSUME NEW j \in Invoices, invoice'[j] = invoice[j],
         \A o \in Ops : ops'[o] = ops[o] \/ (ops[o].inv # j /\ ops'[o].inv # j),
         \A u \in Requests : emcf'[u] = emcf[u] \/ (emcf[u].inv # j /\ emcf'[u].inv # j),
         mcf \subseteq mcf', mcf' \subseteq Ops, \A o \in mcf' : o \in mcf \/ ops'[o].inv # j
  PROVE  Same(j)
<1>1. ActiveOps(j)' = ActiveOps(j)
  BY DEF ActiveOps
<1>2. \A o \in ActiveOps(j) : ops'[o] = ops[o]
  BY DEF ActiveOps
<1>3. Of(j, "confirmed")' = Of(j, "confirmed")
  BY DEF Of
<1>4. {p \in mcf' : ops'[p].inv = j} = {p \in mcf : ops[p].inv = j}
  OBVIOUS
<1>5. Registrations(j)' = Registrations(j)
  BY <1>3, <1>4 DEF Registrations
<1> QED BY <1>1, <1>2, <1>5 DEF Same

(* The registrations of all the invoices, when a step confirms nothing and  *)
(* the MCF registers nothing.                                               *)
LEMMA NothingRegistered ==
  ASSUME NEW j \in Invoices, mcf' = mcf, \A o \in mcf : ops'[o].inv = ops[o].inv,
         \A u \in Requests : \/ emcf'[u] = emcf[u]
                             \/ emcf[u].st # "confirmed" /\ emcf'[u].st # "confirmed"
  PROVE  Registrations(j)' = Registrations(j)
<1>1. Of(j, "confirmed")' = Of(j, "confirmed")
  BY DEF Of
<1>2. {p \in mcf' : ops'[p].inv = j} = {p \in mcf : ops[p].inv = j}
  OBVIOUS
<1> QED BY <1>1, <1>2 DEF Registrations

LEMMA InvoiceKept ==
  ASSUME NEW j \in Invoices, InvoiceOk(j), Same(j), logged \subseteq logged', mcf \subseteq mcf',
         \A w \in Workers : worker[w].inv = j => worker'[w] = worker[w]
  PROVE  InvoiceOk(j)'
<1> USE DEF Same
<1>1. Normal(j)' <=> Normal(j)
  BY DEF Normal
<1>2. InMcf(j) => InMcf(j)'
  BY DEF InMcf
<1>3. Doubted(j) => Doubted(j)'
  BY DEF Doubted
<1>4. InEmcf(j) => InEmcf(j)'
  BY <1>3 DEF InEmcf, Waits
<1> QED BY <1>1, <1>2, <1>4 DEF InvoiceOk

LEMMA WorkerKept ==
  ASSUME NEW w \in Workers, NEW x, x = worker[w], x = worker'[w], WorkerOk(x), Holds(x),
         x.inv \in Invoices => Same(x.inv),
         logged \subseteq logged',
         x.op \in Ops => (ops[x.op] = NoOp => ops'[x.op] = NoOp) /\ (ops[x.op].inv = x.inv => ops'[x.op].inv = x.inv),
         x.uid \in Requests /\ emcf[x.uid].inv = x.inv =>
           /\ emcf'[x.uid].inv = x.inv
           /\ emcf[x.uid].st \in Unconfirmed => emcf'[x.uid].st \in Unconfirmed
  PROVE  WorkerOk(worker[w])'
<1>1. CASE x.pc = "idle"
  BY <1>1 DEF WorkerOk
<1>2. CASE x.pc # "idle"
  <2>1. x.inv \in Invoices /\ Same(x.inv)
    BY <1>2 DEF Holds
  <2>2. Normal(x.inv)' <=> Normal(x.inv)
    BY <2>1 DEF Normal, Same
  <2>3. x.pc \notin {"idle", "loaded"} => x.op \in Ops
    BY DEF Holds
  <2>4. HoldsRow(x) /\ x.op \in Ops => HoldsRow(worker[w])'
    BY <2>1 DEF HoldsRow, Same
  <2>5. Attempts(x) => Attempts(worker[w])'
    BY <2>1 DEF Attempts, Same
  <2>6. x.pc \in {"created", "kept", "answered"} => x.uid \in Requests
    BY DEF Holds
  <2>7. Registrations(x.inv)' = Registrations(x.inv) /\ invoice'[x.inv] = invoice[x.inv] /\ ActiveOps(x.inv)' = ActiveOps(x.inv)
    BY <2>1 DEF Same
  <2> QED BY <1>2, <2>2, <2>3, <2>4, <2>5, <2>6, <2>7 DEF WorkerOk
<1> QED BY <1>1, <1>2

LEMMA FreeWorker == ASSUME NEW w \in Workers, worker'[w] = Idle PROVE WorkerOk(worker[w])'
BY DEF WorkerOk, Idle

(* A step that deals with one invoice.                                      *)
StepOn(i) ==
  /\ \A o \in Ops : ops'[o] = ops[o] \/ ((ops[o] = NoOp \/ ops[o].inv = i) /\ ops'[o].inv = i)
  /\ \A u \in Requests : emcf'[u] = emcf[u] \/ (emcf[u].inv \in {i, None} /\ emcf'[u].inv = i)
  /\ \A j \in Invoices : j # i => invoice'[j] = invoice[j]
  /\ logged \subseteq logged' /\ mcf \subseteq mcf' /\ \A o \in mcf' : o \in mcf \/ ops'[o].inv = i
  /\ \A w \in Workers : \/ worker'[w] = worker[w]
                        \/ worker[w].inv \in {i, None} /\ worker'[w].inv = i
                        \/ worker[w].inv = i /\ worker'[w] = Idle
  /\ \A w \in Workers : worker[w].inv # i /\ worker[w].op \in Ops /\ ops[worker[w].op] = NoOp =>
                          ops'[worker[w].op] = NoOp

LEMMA OnInvoice ==
  ASSUME IInv, Types', Shapes', Alone', NEW i \in Invoices, StepOn(i), InvoiceOk(i)',
         \A w \in Workers : worker'[w].inv = i => WorkerOk(worker[w])'
  PROVE  IInv'
<1>1. i # None
  BY ChannelsAssumption
<1>2. ASSUME NEW j \in Invoices, j # i PROVE Same(j)
  <2>1. \A o \in Ops : ops'[o] = ops[o] \/ (ops[o].inv # j /\ ops'[o].inv # j)
    BY <1>2, ChannelsAssumption DEF StepOn, NoOp
  <2>2. \A u \in Requests : emcf'[u] = emcf[u] \/ (emcf[u].inv # j /\ emcf'[u].inv # j)
    BY <1>2, ChannelsAssumption DEF StepOn
  <2>3. mcf \subseteq mcf' /\ mcf' \subseteq Ops /\ \A o \in mcf' : o \in mcf \/ ops'[o].inv # j
    BY <1>2 DEF StepOn, Types
  <2>4. invoice'[j] = invoice[j]
    BY <1>2 DEF StepOn
  <2> QED BY <2>1, <2>2, <2>3, <2>4, Elsewhere
<1>3. ASSUME NEW j \in Invoices, j # i PROVE InvoiceOk(j)'
  <2>1. \A w \in Workers : worker[w].inv = j => worker'[w] = worker[w]
    BY <1>3, ChannelsAssumption DEF StepOn
  <2>2. InvoiceOk(j) /\ logged \subseteq logged' /\ mcf \subseteq mcf'
    BY DEF IInv, StepOn
  <2> QED BY <1>2, <1>3, <2>1, <2>2, InvoiceKept
<1>4. ASSUME NEW w \in Workers, worker'[w].inv # i PROVE WorkerOk(worker[w])'
  <2>1. CASE worker'[w] = Idle
    BY <2>1, FreeWorker
  <2>2. CASE worker'[w] = worker[w]
    <3> DEFINE x == worker[w]
    <3>1. x.inv \in Invoices => Same(x.inv)
      BY <1>2, <1>4, <2>2
    <3>2. x.op \in Ops => (ops[x.op] = NoOp => ops'[x.op] = NoOp) /\ (ops[x.op].inv = x.inv => ops'[x.op].inv = x.inv)
      <4>1. x.op \in Ops /\ ops[x.op] = NoOp => ops'[x.op] = NoOp
        BY <1>4, <2>2 DEF StepOn
      <4> QED BY <1>4, <2>2, <4>1 DEF StepOn
    <3>3. x.uid \in Requests /\ emcf[x.uid].inv = x.inv /\ x.inv \in Invoices => emcf'[x.uid] = emcf[x.uid]
      BY <1>4, <2>2, ChannelsAssumption DEF StepOn
    <3>4. WorkerOk(x) /\ Holds(x) /\ logged \subseteq logged'
      BY DEF IInv, Types, StepOn
    <3> HIDE DEF x
    <3>5. CASE x.inv \in Invoices
      BY <2>2, <3>1, <3>2, <3>3, <3>4, <3>5, WorkerKept DEF x
    <3>6. CASE x.inv \notin Invoices
      <4>1. x.pc = "idle"
        BY <3>4, <3>6 DEF Holds
      <4> QED BY <2>2, <3>4, <4>1 DEF WorkerOk, x
    <3> QED BY <3>5, <3>6
  <2> QED BY <1>4, <2>1, <2>2 DEF StepOn
<1>5. \A j \in Invoices : InvoiceOk(j)'
  BY <1>3
<1>6. \A w \in Workers : WorkerOk(worker[w])'
  BY <1>4
<1> QED BY <1>5, <1>6 DEF IInv

----
(* What the steps have in common.                                           *)

LEMMA Moved ==
  ASSUME Types, NEW w \in Workers, NEW x, worker' = [worker EXCEPT ![w] = x]
  PROVE  worker'[w] = x /\ \A v \in Workers : v # w => worker'[v] = worker[v]
BY DEF Types

LEMMA StaysAlone ==
  ASSUME Types, Alone, NEW w \in Workers, NEW x, worker' = [worker EXCEPT ![w] = x],
         \A v \in Workers : v # w => /\ x.inv = None \/ worker[v].inv # x.inv
                                     /\ x.op = 0 \/ worker[v].op # x.op
  PROVE  Alone'
<1>1. worker'[w] = x /\ \A v \in Workers : v # w => worker'[v] = worker[v]
  BY Moved
<1> QED BY <1>1 DEF Alone

LEMMA KeepsAlone ==
  ASSUME Types, Alone, NEW w \in Workers, NEW x, worker' = [worker EXCEPT ![w] = x],
         (x.inv = worker[w].inv /\ x.op = worker[w].op) \/ x = Idle
  PROVE  Alone'
<1>1. \A v \in Workers : v # w => /\ x.inv = None \/ worker[v].inv # x.inv
                                  /\ x.op = 0 \/ worker[v].op # x.op
  BY DEF Alone, Idle
<1> QED BY <1>1, StaysAlone

LEMMA OnlyWorker ==
  ASSUME IInv, NEW w \in Workers, NEW v \in Workers, worker[w].inv \in Invoices, worker[v].inv = worker[w].inv
  PROVE  v = w
BY ChannelsAssumption DEF IInv, Alone

(* The codes of the two channels do not meet.                               *)
LEMMA CodesApart ==
  ASSUME Types, NEW i
  PROVE  /\ \A u \in Requests : u \in Registrations(i) <=> emcf[u].inv = i /\ emcf[u].st = "confirmed"
         /\ \A o \in Ops : MaxRequests + o \in Registrations(i) <=> o \in mcf /\ ops[o].inv = i
         /\ \A c \in Registrations(i) : c \in Requests \/ \E o \in mcf : c = MaxRequests + o /\ ops[o].inv = i
<1>1. \A u \in Requests, o \in Ops : u # MaxRequests + o
  BY Bounds DEF Requests, Ops
<1>2. \A o, p \in Ops : MaxRequests + o = MaxRequests + p => o = p
  BY Bounds DEF Ops
<1>3. mcf \subseteq Ops
  BY DEF Types
<1>4. \A o \in Ops : MaxRequests + o \notin Requests
  BY <1>1
<1>5. Of(i, "confirmed") \subseteq Requests
  BY DEF Of
<1>6. \A u \in Requests : u \in Registrations(i) <=> emcf[u].inv = i /\ emcf[u].st = "confirmed"
  BY <1>1, <1>3 DEF Registrations, Of
<1>7. \A o \in Ops : MaxRequests + o \in Registrations(i) <=> o \in mcf /\ ops[o].inv = i
  BY <1>2, <1>3, <1>4, <1>5 DEF Registrations
<1>8. \A c \in Registrations(i) : c \in Requests \/ \E o \in mcf : c = MaxRequests + o /\ ops[o].inv = i
  BY <1>5 DEF Registrations
<1> QED BY <1>6, <1>7, <1>8

(* Nobody waits for the e-MCF, nothing is in doubt and the MCF has none of   *)
(* its operations: the invoice is not registered.                            *)
LEMMA NotRegistered ==
  ASSUME NEW i \in Invoices, InvoiceOk(i), ~Normal(i), ~Doubted(i) \/ invoice[i].uid \notin logged,
         \A o \in ActiveOps(i) : o \notin mcf,
         \A w \in Workers : worker[w].inv = i => ~Waits(worker[w])
  PROVE  Registrations(i) = {}
BY DEF InvoiceOk, InMcf, InEmcf

(* An active operation settles which of the two channels has the invoice.   *)
LEMMA ActiveSettles ==
  ASSUME IInv, NEW o \in Ops, ops[o].inv \in Invoices, ops[o].st \in Active
  PROVE  /\ o \in ActiveOps(ops[o].inv) /\ ActiveOps(ops[o].inv) = {o}
         /\ ops[o].st \in {"Queued", "Leased"} => ops[o].ch = "MCF" /\ ~Normal(ops[o].inv)
         /\ ops[o].st \in {"Pending", "Uncertain"} => ops[o].ch = "e-MCF"
         /\ ops[o].st = "Uncertain" \/ ~Doubted(ops[o].inv)
<1> DEFINE i == ops[o].inv
<1>1. o \in ActiveOps(i)
  BY DEF ActiveOps
<1>2. \A p \in ActiveOps(i) : p = o
  BY <1>1 DEF IInv, InvoiceOk
<1>3. ActiveOps(i) = {o}
  BY <1>1, <1>2
<1>4. ops[o] # NoOp
  BY DEF NoOp, Active
<1>5. /\ ops[o].st \in {"Queued", "Leased"} => ops[o].ch = "MCF"
      /\ ops[o].st \in {"Pending", "Uncertain"} => ops[o].ch = "e-MCF"
  BY <1>4 DEF IInv, Shapes, OpOk
<1>6. ops[o].ch = "MCF" => ~Normal(i)
  BY <1>1 DEF IInv, InvoiceOk
<1>7. ops[o].st = "Uncertain" \/ ~Doubted(i)
  BY <1>2 DEF Doubted
<1> QED BY <1>1, <1>3, <1>5, <1>6, <1>7

(* A step that moves a worker that did not wait, or that an operation in     *)
(* doubt stands for, and nothing else of what the invariant speaks of.       *)
LEMMA WorkerOnly ==
  ASSUME IInv, Types', Alone', NEW w \in Workers, NEW i \in Invoices, NEW x,
         worker' = [worker EXCEPT ![w] = x], ~Waits(worker[w]) \/ (Doubted(i) /\ invoice[i].uid \in logged),
         UNCHANGED <<ops, invoice, logged, emcf, mcf>>,
         \/ worker[w].inv \in {i, None} /\ x.inv = i
         \/ worker[w].inv = i /\ x = Idle,
         x # Idle => WorkerOk(worker[w])'
  PROVE  IInv'
<1>1. worker'[w] = x /\ \A v \in Workers : v # w => worker'[v] = worker[v]
  BY Moved DEF IInv
<1>2. StepOn(i)
  BY <1>1, ChannelsAssumption DEF StepOn, IInv, WorkerOk, Ops
<1>3. Shapes'
  BY DEF IInv, Shapes
<1>4. InvoiceOk(i)'
  <2>1. InEmcf(i) => InEmcf(i)'
    BY <1>1 DEF InEmcf, Doubted, ActiveOps, Registrations, Of
  <2>2. InMcf(i) => InMcf(i)'
    BY DEF InMcf, ActiveOps, Registrations, Of
  <2>3. /\ Normal(i)' <=> Normal(i)
        /\ ActiveOps(i)' = ActiveOps(i)
        /\ Registrations(i)' = Registrations(i)
    BY DEF Normal, ActiveOps, Registrations, Of
  <2>4. InvoiceOk(i)
    BY DEF IInv
  <2> QED BY <2>1, <2>2, <2>3, <2>4 DEF InvoiceOk
<1>5. \A v \in Workers : worker'[v].inv = i => WorkerOk(worker[v])'
  <2> TAKE v \in Workers
  <2> HAVE worker'[v].inv = i
  <2>1. CASE v = w
    <3>1. x # Idle
      BY <1>1, <2>1, ChannelsAssumption DEF Idle
    <3> QED BY <2>1, <3>1
  <2>2. CASE v # w
    <3>1. worker[v].inv = i /\ worker[w].inv # i
      BY <1>1, <2>2, ChannelsAssumption DEF IInv, Alone
    <3>2. x.inv = i
      BY <3>1
    <3> QED BY <1>1, <2>2, <3>1, <3>2, ChannelsAssumption DEF Alone
  <2> QED BY <2>1, <2>2
<1> QED BY <1>2, <1>3, <1>4, <1>5, OnInvoice

LEMMA BeginNext ==
  ASSUME IInv, Windows = {}, NEW w \in Workers, NEW i \in Invoices, Begin(w, i)
  PROVE  IInv'
<1>1. Types'
  BY BeginTyped DEF IInv
<1>2. PICK f : worker' = [worker EXCEPT ![w] = [Idle EXCEPT !.pc = "loaded", !.inv = i,
                                                           !.uid = invoice[i].uid, !.force = f]]
  BY DEF Begin
<1> DEFINE x == [Idle EXCEPT !.pc = "loaded", !.inv = i, !.uid = invoice[i].uid, !.force = f]
<1>3. x.pc = "loaded" /\ x.inv = i /\ x.uid = invoice[i].uid /\ x.op = 0 /\ x.drop = {}
  BY DEF Idle
<1>4. worker' = [worker EXCEPT ![w] = x]
  BY <1>2
<1> HIDE DEF x
<1>5. worker[w].pc = "idle" /\ worker[w].inv = None /\ ~Normal(i) /\ \A v \in Workers : worker[v].inv # i
  BY DEF Begin, BusyOn, At, IInv, WorkerOk
<1>6. Alone'
  BY <1>3, <1>4, <1>5, StaysAlone DEF IInv
<1>7. WorkerOk(worker[w])'
  <2>1. worker'[w] = x
    BY <1>4, Moved DEF IInv
  <2>2. UNCHANGED invoice
    BY DEF Begin
  <2> QED BY <1>3, <1>5, <2>1, <2>2, ChannelsAssumption DEF WorkerOk, Normal
<1>8. ~Waits(worker[w])
  BY <1>5 DEF Waits
<1> QED BY <1>1, <1>3, <1>4, <1>5, <1>6, <1>7, <1>8, WorkerOnly DEF Begin

LEMMA CrashNext ==
  ASSUME IInv, Windows = {}, NEW w \in Workers, Crash(w)
  PROVE  IInv'
<1>1. Types'
  BY ReleasedTyped DEF IInv
<1>2. PICK i \in Invoices : i = worker[w].inv
  BY DEF Crash, IInv, Types, Holds, At
<1>3. ~Waits(worker[w]) \/ (Doubted(i) /\ invoice[i].uid \in logged)
  <2> SUFFICES ASSUME Waits(worker[w]) PROVE Doubted(i) /\ invoice[i].uid \in logged
    OBVIOUS
  <2>1. worker[w].pc = "finish" /\ worker[w].out = "lost" /\ ops[worker[w].op].st = "Uncertain"
    BY DEF Crash, Unlogged, Unclosed, At, Waits
  <2>2. worker[w].op \in ActiveOps(i) /\ invoice[i].uid \in logged
    BY <1>2, <2>1 DEF IInv, WorkerOk, Attempts
  <2> QED BY <2>1, <2>2 DEF Doubted
<1>4. worker' = [worker EXCEPT ![w] = Idle]
  BY DEF Crash
<1>5. Alone'
  BY <1>4, KeepsAlone DEF IInv
<1> QED BY <1>1, <1>2, <1>3, <1>4, <1>5, WorkerOnly DEF Crash

(* An active operation is of its channel.                                   *)
LEMMA ActiveShapes ==
  ASSUME IInv, NEW i \in Invoices, NEW o \in ActiveOps(i)
  PROVE  /\ o \in Ops /\ ops[o].inv = i /\ ActiveOps(i) = {o} /\ ops[o] # NoOp
         /\ \/ ops[o].ch = "MCF" /\ ops[o].st \in {"Queued", "Leased"} /\ ~Normal(i)
            \/ ops[o].ch = "e-MCF" /\ ops[o].st \in {"Pending", "Uncertain"}
<1>1. o \in Ops /\ ops[o].inv = i /\ ops[o].st \in Active
  BY DEF ActiveOps
<1>2. ops[o] # NoOp
  BY <1>1 DEF NoOp, Active
<1>3. \/ ops[o].ch = "MCF" /\ ops[o].st \in {"Queued", "Leased"}
      \/ ops[o].ch = "e-MCF" /\ ops[o].st \in {"Pending", "Uncertain"}
  BY <1>1, <1>2 DEF IInv, Shapes, OpOk, Active
<1> QED BY <1>1, <1>2, <1>3, ActiveSettles

(* The invoice is queued for the MCF by the worker that leaves it.          *)
LEMMA QueueNext ==
  ASSUME IInv, Types', NEW w \in Workers, NEW i \in Invoices, worker[w].inv = i, ~Waits(worker[w]),
         NEW D, NEW f, QueueMcf(i, D, f), worker' = [worker EXCEPT ![w] = Idle],
         UNCHANGED <<logged, emcf, mcf>>, ~Normal(i),
         D \subseteq ActiveOps(i), \A o \in D : ops[o].st = "Pending"
  PROVE  IInv'
<1>1. Alone'
  BY KeepsAlone DEF IInv
<1>2. CASE ActiveOps(i) \ D # {}
  <2>1. D = {}
    <3>1. PICK o \in ActiveOps(i) : o \notin D
      BY <1>2
    <3>2. ActiveOps(i) = {o}
      BY <3>1, ActiveShapes
    <3> QED BY <3>1, <3>2
  <2>2. Drop({}) = ops
    <3>1. Drop({}) = [o \in Ops |-> ops[o]]
      BY DEF Drop
    <3> QED BY <3>1 DEF IInv, Types
  <2>3. UNCHANGED <<ops, invoice>>
    BY <1>2, <2>1, <2>2 DEF QueueMcf
  <2> QED BY <1>1, <2>3, WorkerOnly
<1>3. CASE ActiveOps(i) \ D = {}
  <2> DEFINE n == NewOp
             r == [inv |-> i, ch |-> "MCF", st |-> "Queued", sent |-> FALSE, fallback |-> f]
  <2>1. /\ n \in Ops /\ ops[n] = NoOp /\ \A v \in Workers : worker[v].op # n
        /\ ops' = [Drop(D) EXCEPT ![n] = r]
        /\ invoice' = [invoice EXCEPT ![i].status = "Pending"]
    BY <1>3, NewOpIsFree DEF QueueMcf, FreeOps
  <2>2. r.inv = i /\ r.ch = "MCF" /\ r.st = "Queued" /\ r # NoOp
    BY ChannelsAssumption DEF NoOp
  <2> HIDE DEF n, r
  <2>3. /\ ops'[n] = r
        /\ \A o \in Ops : o # n /\ o \notin D => ops'[o] = ops[o]
        /\ \A o \in Ops : o # n /\ o \in D => ops'[o].inv = i /\ ops'[o].ch = "e-MCF" /\ ops'[o].st = "Cancelled"
    <3>1. \A o \in Ops : o # n => ops'[o] = Drop(D)[o]
      BY <2>1, DropTyped DEF IInv
    <3>2. \A o \in D : ops[o].inv = i /\ ops[o].ch = "e-MCF"
      BY ActiveShapes
    <3> QED BY <2>1, <3>1, <3>2, DropTyped DEF IInv
  <2>4. n \notin D /\ n \notin ActiveOps(i) /\ n \notin mcf
    BY <2>1, ChannelsAssumption DEF IInv, Shapes, NoOp, ActiveOps, Active
  <2>5. \A o \in D : o \in Ops /\ o \notin mcf /\ ops[o].inv = i
    BY DEF IInv, Shapes, ActiveOps
  <2>6. \A o \in Ops : ops[o].inv = i /\ ops[o].st \in Active => o \in D
    BY <1>3 DEF ActiveOps
  <2>7. ActiveOps(i)' = {n}
    <3>1. n \in ActiveOps(i)'
      BY <2>1, <2>2, <2>3 DEF ActiveOps, Active
    <3>2. \A o \in Ops : o # n => o \notin ActiveOps(i)'
      BY <2>3, <2>6 DEF ActiveOps, Active
    <3> QED BY <3>1, <3>2 DEF ActiveOps
  <2>8. Registrations(i) = {}
    <3>1. ~Doubted(i) /\ \A o \in ActiveOps(i) : o \notin mcf
      BY <1>3, <2>5 DEF Doubted
    <3>2. \A v \in Workers : worker[v].inv = i => ~Waits(worker[v])
      BY OnlyWorker
    <3> QED BY <3>1, <3>2, NotRegistered DEF IInv
  <2>9. Registrations(i)' = {}
    <3>1. \A o \in mcf : ops'[o].inv = ops[o].inv
      BY <2>3, <2>4, <2>5 DEF IInv, Types
    <3> QED BY <2>8, <3>1, NothingRegistered
  <2>10. invoice'[i].code = invoice[i].code /\ invoice'[i].status = "Pending"
    BY <2>1 DEF IInv, Types, InvRows
  <2>11. invoice[i].code = 0
    BY DEF IInv, InvoiceOk, Normal
  <2>12. InvoiceOk(i)'
    <3>1. ~Normal(i)'
      BY <2>10, <2>11 DEF Normal
    <3> QED BY <2>7, <2>9, <2>10, <2>11, <3>1 DEF InvoiceOk
  <2>13. Shapes'
    <3>1. \A o \in Ops : OpOk(ops'[o])
      <4>1. OpOk(ops'[n])
        BY <2>2, <2>3 DEF OpOk
      <4>2. \A o \in Ops : o \in D /\ o # n => OpOk(ops'[o])
        BY <2>3 DEF OpOk
      <4> QED BY <2>3, <4>1, <4>2 DEF IInv, Shapes
    <3>2. \A o \in mcf : ops'[o] = ops[o]
      BY <2>3, <2>4, <2>5 DEF IInv, Types
    <3> QED BY <3>1, <3>2 DEF IInv, Shapes
  <2>14. worker'[w] = Idle /\ \A v \in Workers : v # w => worker'[v] = worker[v]
    BY Moved DEF IInv
  <2>15. StepOn(i)
    <3>1. \A o \in Ops : ops'[o] = ops[o] \/ ((ops[o] = NoOp \/ ops[o].inv = i) /\ ops'[o].inv = i)
      BY <2>1, <2>2, <2>3, <2>5
    <3>2. \A j \in Invoices : j # i => invoice'[j] = invoice[j]
      BY <2>1 DEF IInv, Types
    <3>3. \A v \in Workers : worker[v].inv # i /\ worker[v].op \in Ops /\ ops[worker[v].op] = NoOp =>
                               ops'[worker[v].op] = NoOp
      BY <2>1, <2>3, <2>5, ChannelsAssumption DEF NoOp
    <3> QED BY <2>14, <3>1, <3>2, <3>3 DEF StepOn
  <2>16. \A v \in Workers : worker'[v].inv # i
    BY <2>14, OnlyWorker, ChannelsAssumption DEF Idle
  <2> QED BY <1>1, <2>12, <2>13, <2>15, <2>16, OnInvoice
<1> QED BY <1>2, <1>3

LEMMA TakeOverNext ==
  ASSUME IInv, NEW w \in Workers, TakeOver(w)
  PROVE  IInv'
<1>1. Types'
  BY ReleasedTyped DEF IInv
<1>2. worker[w].inv \in Invoices /\ ~Waits(worker[w]) /\ ~Normal(worker[w].inv)
  BY DEF TakeOver, At, IInv, Types, Holds, WorkerOk, Waits
<1> DEFINE D == {}
<1>3. D \subseteq ActiveOps(worker[w].inv) /\ \A o \in D : ops[o].st = "Pending"
  OBVIOUS
<1>4. QueueMcf(worker[w].inv, D, TRUE)
  BY DEF TakeOver, Inv
<1> HIDE DEF D
<1> QED BY <1>1, <1>2, <1>3, <1>4, QueueNext DEF TakeOver

LEMMA EnterNext ==
  ASSUME IInv, NEW w \in Workers, Enter(w)
  PROVE  IInv'
<1> DEFINE i == Inv(w)
           c == Route(Config(worker[w].force)).channel
           auto == Route(Config(worker[w].force)).auto
           alt == Route(Config(worker[w].force)).alternate
           D == Withdrawn(i, c)
           E == OnOther(i, OtherChannel(c))
           x == [worker[w] EXCEPT !.pc = "entered", !.drop = D, !.auto = auto, !.alternate = alt,
                                  !.op = IF E = {} THEN NewOp ELSE CHOOSE o \in E : TRUE]
<1>1. Types' /\ UNCHANGED <<logged, emcf, mcf>>
  BY EnterTyped DEF IInv, Enter
<1>2. worker[w].pc = "loaded" /\ worker[w] \in WorkerRows /\ i \in Invoices
  BY RowOfWorker DEF Enter, At, Inv, IInv, Holds
<1>3. ~Waits(worker[w]) /\ ~Normal(i) /\ worker[w].uid = invoice[i].uid
  BY <1>2 DEF Waits, IInv, WorkerOk, Inv
<1>4. c \in Channels
  BY <1>2, RouteIsAChannel DEF IInv, WorkerRows
<1>5. CASE worker' = [worker EXCEPT ![w] = Idle] /\ UNCHANGED <<ops, invoice>>
  <2>1. Alone'
    BY <1>5, KeepsAlone DEF IInv
  <2> QED BY <1>1, <1>2, <1>3, <1>5, <2>1, WorkerOnly DEF Inv
<1>6. CASE MayGo(i, c) /\ c = "MCF" /\ QueueMcf(i, D, auto) /\ worker' = [worker EXCEPT ![w] = Idle]
  <2>1. D \subseteq ActiveOps(i)
    BY DEF Withdrawn, OnOther
  <2>2. \A o \in D : ops[o].st = "Pending"
    BY <1>6 DEF Withdrawn, OnOther, NeverReceived
  <2> QED BY <1>1, <1>2, <1>3, <1>6, <2>1, <2>2, QueueNext DEF Inv
<1>7. CASE /\ MayGo(i, c) /\ c = "e-MCF"
           /\ E = {} => FreeOps # {}
           /\ worker' = [worker EXCEPT ![w] = x]
           /\ UNCHANGED <<ops, invoice>>
  <2>1. D = OnOther(i, c) /\ D \subseteq ActiveOps(i) /\ \A o \in D : ops[o].st = "Queued" /\ ops[o].ch = "MCF"
    <3>1. \A o \in ActiveOps(i) : ops[o].ch # "e-MCF" => ops[o].ch = "MCF"
      BY <1>2, ActiveShapes
    <3> QED BY <1>7, <3>1 DEF MayGo, Withdrawn, OnOther, NeverReceived
  <2>2. E \subseteq ActiveOps(i) /\ \A o \in E : ops[o].ch = "e-MCF"
    <3>1. \A o \in ActiveOps(i) : ops[o].ch # "MCF" => ops[o].ch = "e-MCF"
      BY <1>2, ActiveShapes
    <3> QED BY <1>7, <3>1 DEF OnOther, OtherChannel
  <2>3. ActiveOps(i) \subseteq D \cup E
    BY <1>7, <2>1 DEF OnOther, OtherChannel
  <2> DEFINE n == IF E = {} THEN NewOp ELSE CHOOSE o \in E : TRUE
  <2>4. x.pc = "entered" /\ x.drop = D /\ x.op = n /\ x.inv = i /\ x.uid = worker[w].uid
    BY <1>2 DEF WorkerRows, Inv
  <2>5. x # Idle
    BY <2>4 DEF Idle
  <2>6. worker'[w] = x /\ \A v \in Workers : v # w => worker'[v] = worker[v]
    <3> HIDE DEF x
    <3> QED BY <1>7, Moved DEF IInv
  <2>7. worker' = [worker EXCEPT ![w] = x]
    BY <1>7
  <2>8. n \in Ops /\ (E = {} => ops[n] = NoOp /\ n \in FreeOps) /\ (E # {} => n \in E)
    <3>1. E # {} => (CHOOSE o \in E : TRUE) \in E
      <4> HIDE DEF E
      <4> QED OBVIOUS
    <3>2. E \subseteq Ops
      BY <2>2 DEF ActiveOps
    <3> HIDE DEF E
    <3> QED BY <1>7, <3>1, <3>2, NewOpIsFree
  <2>9. E # {} => D = {} /\ n \in ActiveOps(i) /\ ops[n].ch = "e-MCF"
    <3>1. ASSUME E # {} PROVE D = {}
      <4>1. n \in ActiveOps(i) /\ ops[n].ch = "e-MCF"
        BY <2>2, <2>8, <3>1
      <4>2. ActiveOps(i) = {n}
        BY <1>2, <4>1, ActiveShapes
      <4> HIDE DEF n, D
      <4> QED BY <2>1, <4>1, <4>2
    <3> HIDE DEF n, E, D
    <3> QED BY <2>2, <2>8, <3>1
  <2> HIDE DEF x, n, D, E, c, auto, alt
  <2>10. \A v \in Workers : v # w => worker[v].inv # i /\ worker[v].op # n
    <3> SUFFICES ASSUME NEW v \in Workers, v # w PROVE worker[v].inv # i /\ worker[v].op # n
      OBVIOUS
    <3>1. worker[v].inv # i
      BY <1>2, OnlyWorker DEF Inv
    <3>2. CASE E = {}
      BY <2>8, <3>1, <3>2 DEF FreeOps
    <3>3. CASE E # {}
      <4> SUFFICES ASSUME worker[v].op = n PROVE FALSE
        BY <3>1
      <4>1. ops[n].inv = i /\ n # 0 /\ ops[n] # NoOp
        BY <1>2, <2>8, <2>9, <3>3, ActiveShapes DEF Ops
      <4>2. WorkerOk(worker[v]) /\ worker[v].pc \in Stages
        BY RowOfWorker DEF IInv, WorkerRows
      <4>3. worker[v].pc \notin {"idle", "loaded"}
        BY <4>1, <4>2 DEF WorkerOk
      <4>4. ops[n].inv = worker[v].inv
        <5>1. n \in ActiveOps(worker[v].inv) => ops[n].inv = worker[v].inv
          BY DEF ActiveOps
        <5> QED BY <4>1, <4>2, <4>3, <5>1 DEF WorkerOk, HoldsRow, Attempts, Stages
      <4> QED BY <3>1, <4>1, <4>4
    <3> QED BY <3>2, <3>3
  <2>11. Alone'
    <3>1. \A v \in Workers : v # w => /\ x.inv = None \/ worker[v].inv # x.inv
                                      /\ x.op = 0 \/ worker[v].op # x.op
      BY <2>4, <2>10
    <3> QED BY <2>7, <3>1, StaysAlone DEF IInv
  <2>12. HoldsRow(worker[w])'
    BY <1>7, <2>1, <2>3, <2>4, <2>6, <2>8, <2>9 DEF HoldsRow, ActiveOps
  <2>13. WorkerOk(worker[w])'
    BY <1>2, <1>3, <1>7, <2>4, <2>6, <2>12, ChannelsAssumption DEF WorkerOk, Normal
  <2> QED BY <1>1, <1>2, <1>3, <1>7, <2>4, <2>7, <2>11, <2>13, WorkerOnly DEF Inv
<1> QED BY <1>4, <1>5, <1>6, <1>7 DEF Enter, Channels

(* The MCF has nothing of an invoice a worker holds the row of.             *)
LEMMA HeldNotInMcf ==
  ASSUME IInv, NEW w \in Workers, NEW i \in Invoices, i = worker[w].inv, HoldsRow(worker[w])
  PROVE  \A o \in ActiveOps(i) : o \notin mcf
<1>1. \A o \in ActiveOps(i) : ActiveOps(i) = {o}
  BY ActiveShapes
<1>2. HoldsRow(worker[w])
  OBVIOUS
<1> QED BY <1>1, <1>2 DEF HoldsRow, IInv, Shapes

(* The worker looks for a request: the e-MCF may have a new one, pending.   *)
LEMMA CreateNext ==
  ASSUME IInv, NEW w \in Workers, Create(w)
  PROVE  IInv'
<1>0. PICK i \in Invoices, u \in Nat : i = worker[w].inv /\ u = worker[w].uid
  <2>1. worker[w].pc = "entered" /\ worker[w] \in WorkerRows /\ Holds(worker[w])
    BY RowOfWorker DEF Create, At, IInv
  <2> QED BY <2>1, Bounds DEF Holds, WorkerRows
<1>1. Types' /\ UNCHANGED <<ops, invoice, logged, mcf>>
  BY CreateTyped DEF IInv, Create
<1>2. worker[w].pc = "entered" /\ worker[w] \in WorkerRows /\ worker[w].op \in Ops
  BY RowOfWorker DEF Create, At, IInv, Holds
<1>3. /\ ~Normal(i) /\ u = invoice[i].uid /\ HoldsRow(worker[w])
      /\ InvoiceOk(i)
  BY <1>0, <1>2 DEF IInv, WorkerOk
<1>4. \A v \in Workers : worker[v].inv = i => v = w
  BY <1>0, OnlyWorker
<1>5. \A o \in ActiveOps(i) : o \notin mcf
  BY <1>0, <1>3, HeldNotInMcf
<1>6. Registrations(i) = {} \/ (u \in Requests /\ Registrations(i) = {u} /\ u \in logged)
  <2>1. \A v \in Workers : worker[v].inv = i => ~Waits(worker[v])
    BY <1>2, <1>4 DEF Waits
  <2> QED BY <1>3, <1>5, <2>1 DEF InvoiceOk, InMcf, InEmcf
<1>7. u \in Of(i, "pending") => Registrations(i) = {}
  BY <1>6, CodesApart DEF Of, IInv
<1>8. (u # 0 /\ u \notin logged) \/ u = 0 => Registrations(i) = {}
  BY <1>6 DEF Requests
(* What became of the worker and of the requests.                           *)
<1>9. \/ \E q \in Requests :
           /\ Created(w, q) /\ emcf'[q].inv = i /\ emcf'[q].st = "pending" /\ Registrations(i) = {}
      \/ /\ NotCreated(w, "lost") /\ u \in logged
      \/ \E why \in {"refused", "unavailable"} : NotCreated(w, why) /\ Registrations(i) = {}
  <2>1. CASE u \in Of(Inv(w), "pending") /\ Created(w, u) /\ NoTrouble /\ UNCHANGED emcf
    BY <1>0, <1>7, <2>1 DEF Of, Inv
  <2>2. CASE u # 0 /\ u \in logged /\ NotCreated(w, "lost")
    BY <2>2
  <2>3. CASE (u # 0 => u \notin logged) /\ Post(w)
    <3>1. Registrations(i) = {}
      BY <1>8, <2>3
    <3>2. \A q \in Of(i, "pending") : q \in Requests /\ emcf[q].inv = i /\ emcf[q].st = "pending"
      BY DEF Of
    <3>3. ASSUME Posted(i)
          PROVE  /\ FreshUid \in Requests /\ emcf'[FreshUid].inv = i /\ emcf'[FreshUid].st = "pending"
                 /\ \A q \in Of(i, "pending") : emcf'[q].inv = i /\ emcf'[q].st = "pending"
      BY <3>2, <3>3, FreshUidIsFresh DEF Posted, IInv, Types
    <3>4. \/ \E q \in Requests : Created(w, q) /\ emcf'[q].inv = i /\ emcf'[q].st = "pending"
          \/ \E why \in {"refused", "unavailable"} : NotCreated(w, why)
      BY <1>0, <2>3, <3>2, <3>3 DEF Post, Inv
    <3> QED BY <3>1, <3>4
  <2> QED BY <1>0, <2>1, <2>2, <2>3 DEF Create
<1>10. /\ \A q \in Requests : \/ emcf'[q] = emcf[q]
                              \/ emcf[q] = NoRequest /\ emcf'[q].inv = i /\ emcf'[q].st = "pending"
  <2>1. CASE Posted(i)
    <3>1. FreshUid \in Requests /\ emcf[FreshUid] = NoRequest /\ emcf' = [emcf EXCEPT ![FreshUid] = [inv |-> i, st |-> "pending"]]
      BY <2>1, FreshUidIsFresh DEF Posted
    <3> QED BY <3>1 DEF IInv, Types
  <2>2. CASE UNCHANGED emcf
    BY <2>2
  <2> QED BY <1>0, <2>1, <2>2 DEF Create, Post, Inv
<1>11. Registrations(i)' = Registrations(i) /\ ActiveOps(i)' = ActiveOps(i)
  <2>1. Registrations(i)' = Registrations(i)
    BY <1>1, <1>10, NothingRegistered DEF NoRequest
  <2> QED BY <1>1, <2>1 DEF ActiveOps
<1> DEFINE Became(x) ==
             /\ worker' = [worker EXCEPT ![w] = x] /\ x.inv = i /\ x.op = worker[w].op /\ x.drop = worker[w].drop
             /\ x.pc \in {"created", "failed"}
             /\ x.pc = "created" => emcf'[x.uid].inv = i /\ emcf'[x.uid].st = "pending" /\ Registrations(i) = {}
             /\ x.pc = "failed" => \/ x.out = "lost" /\ x.uid = u /\ u \in logged
                                   \/ x.out \in {"refused", "unavailable"} /\ x.uid = 0 /\ Registrations(i) = {}
<1>12. \E x : Became(x)
  <2>1. ASSUME NEW q \in Requests, Created(w, q), emcf'[q].inv = i, emcf'[q].st = "pending", Registrations(i) = {}
        PROVE  \E x : Became(x)
    <3> DEFINE x == [worker[w] EXCEPT !.pc = "created", !.uid = q]
    <3>1. x.inv = i /\ x.op = worker[w].op /\ x.drop = worker[w].drop /\ x.pc = "created" /\ x.uid = q
      BY <1>0, <1>2 DEF WorkerRows
    <3>2. worker' = [worker EXCEPT ![w] = x]
      BY <2>1 DEF Created
    <3> HIDE DEF x
    <3> QED BY <2>1, <3>1, <3>2
  <2>2. ASSUME NEW why \in {"lost", "refused", "unavailable"}, NotCreated(w, why),
               IF why = "lost" THEN u \in logged ELSE Registrations(i) = {}
        PROVE  \E x : Became(x)
    <3> DEFINE x == [worker[w] EXCEPT !.pc = "failed", !.out = why, !.uid = IF why = "lost" THEN @ ELSE 0]
    <3>1. /\ x.inv = i /\ x.op = worker[w].op /\ x.drop = worker[w].drop /\ x.pc = "failed" /\ x.out = why
          /\ x.uid = IF why = "lost" THEN u ELSE 0
      BY <1>0, <1>2 DEF WorkerRows
    <3>2. worker' = [worker EXCEPT ![w] = x]
      BY <2>2 DEF NotCreated
    <3> HIDE DEF x
    <3> QED BY <2>2, <3>1, <3>2
  <2> QED BY <1>9, <2>1, <2>2
<1>13. PICK x : Became(x)
  BY <1>12
<1>14. worker'[w] = x /\ \A v \in Workers : v # w => worker'[v] = worker[v]
  BY <1>13, Moved DEF IInv
<1>15. Alone'
  BY <1>0, <1>13, KeepsAlone DEF IInv
<1>16. Shapes'
  BY <1>1 DEF IInv, Shapes
<1>17. StepOn(i)
  <2>1. \A q \in Requests : emcf'[q] = emcf[q] \/ (emcf[q].inv \in {i, None} /\ emcf'[q].inv = i)
    BY <1>10 DEF NoRequest
  <2>2. \A v \in Workers : worker'[v] = worker[v] \/ (worker[v].inv = i /\ worker'[v].inv = i)
    BY <1>0, <1>13, <1>14
  <2> QED BY <1>1, <2>1, <2>2 DEF StepOn
<1>18. InvoiceOk(i)'
  <2>1. Normal(i)' <=> Normal(i)
    BY <1>1 DEF Normal
  <2>2. InEmcf(i) => InEmcf(i)'
    BY <1>0, <1>1, <1>2, <1>4, <1>11 DEF InEmcf, Doubted, Waits
  <2>3. InMcf(i) => InMcf(i)'
    BY <1>1, <1>11 DEF InMcf
  <2> QED BY <1>1, <1>3, <1>11, <2>1, <2>2, <2>3 DEF InvoiceOk
<1>19. WorkerOk(worker[w])'
  <2>1. HoldsRow(worker[w])'
    BY <1>0, <1>1, <1>3, <1>11, <1>13, <1>14 DEF HoldsRow
  <2>2. ~Normal(i)'
    BY <1>1, <1>3 DEF Normal
  <2> QED BY <1>0, <1>1, <1>2, <1>3, <1>11, <1>13, <1>14, <2>1, <2>2, ChannelsAssumption DEF WorkerOk, Unconfirmed
<1>20. \A v \in Workers : worker'[v].inv = i => WorkerOk(worker[v])'
  BY <1>4, <1>14, <1>19
<1> QED BY <1>1, <1>2, <1>15, <1>16, <1>17, <1>18, <1>20, OnInvoice

(* The first commit, seen from the invoice: the operations withdrawn are     *)
(* cancelled, and the attempt is the only one that may stay active.          *)
Commits(i, op, st) ==
  /\ \A o \in Ops : ops'[o] = ops[o] \/ ((ops[o] = NoOp \/ ops[o].inv = i) /\ ops'[o].inv = i)
  /\ \A o \in Ops : ops[o] = NoOp => ops'[o] = NoOp \/ o = op
  /\ ops'[op].inv = i /\ ops'[op].ch = "e-MCF"
  /\ ops'[op].st = IF st # "None" THEN st ELSE IF ops[op] = NoOp THEN "Pending" ELSE ops[op].st
  /\ ActiveOps(i)' = IF st = "None" THEN {op} ELSE {}
  /\ Shapes' /\ Registrations(i)' = Registrations(i) /\ \A o \in mcf : ops'[o] = ops[o]

OneActiveOf(i) ==
  \A o \in ActiveOps(i) :
    /\ ActiveOps(i) = {o}
    /\ \/ ops[o].ch = "MCF" /\ ops[o].st \in {"Queued", "Leased"}
       \/ ops[o].ch = "e-MCF" /\ ops[o].st \in {"Pending", "Uncertain"}

LEMMA CommitRows ==
  ASSUME Types, Shapes, NEW w \in Workers, NEW i \in Invoices, NEW op \in Ops, i = worker[w].inv, op = worker[w].op,
         OneActiveOf(i),
         HoldsRow(worker[w]), NEW st \in {"None", "Cancelled", "Rejected"}, UNCHANGED <<emcf, mcf>>,
         \A o \in Ops : o # op => ops'[o] = Committed(w, st)[o],
         LET c == Committed(w, st)[op] IN ops'[op].inv = c.inv /\ ops'[op].ch = c.ch /\ ops'[op].st = c.st
  PROVE  Commits(i, op, st)
<1>1. Types /\ Shapes
  OBVIOUS
<1>2. HoldsRow(worker[w])
  OBVIOUS
<1>3. \A o \in ActiveOps(i) :
        /\ ActiveOps(i) = {o}
        /\ \/ ops[o].ch = "MCF" /\ ops[o].st \in {"Queued", "Leased"}
           \/ ops[o].ch = "e-MCF" /\ ops[o].st \in {"Pending", "Uncertain"}
  BY DEF OneActiveOf
<1>4. /\ worker[w].drop \subseteq ActiveOps(i) /\ \A o \in worker[w].drop : ops[o].st = "Queued"
      /\ op \notin worker[w].drop
      /\ ActiveOps(i) \subseteq worker[w].drop \cup {op}
      /\ ops[op] = NoOp \/ (op \in ActiveOps(i) /\ ops[op].ch = "e-MCF" /\ ops[op].inv = i)
  <2>1. ops[op] = NoOp => op \notin ActiveOps(i)
    BY DEF NoOp, ActiveOps, Active
  <2>2. op \in ActiveOps(i) => ops[op].inv = i
    BY DEF ActiveOps
  <2> QED BY <1>2, <1>3, <2>1, <2>2 DEF HoldsRow
<1>5. \A o \in Ops : o # op => ops'[o] = Drop(worker[w].drop)[o]
  BY <1>1, CommittedTyped
<1>6. /\ \A o \in Ops : o # op /\ o \notin worker[w].drop => ops'[o] = ops[o]
      /\ \A o \in worker[w].drop : ops'[o].inv = i /\ ops[o].inv = i /\ ops'[o].st = "Cancelled" /\ ops'[o].ch = ops[o].ch
  <2>1. \A o \in worker[w].drop : o \in Ops /\ o # op /\ ops[o].inv = i
    BY <1>4 DEF ActiveOps
  <2> QED BY <1>1, <1>5, <2>1, DropTyped
<1>7. /\ ops'[op].inv = i /\ ops'[op].ch = "e-MCF"
      /\ ops'[op].st = IF st # "None" THEN st ELSE IF ops[op] = NoOp THEN "Pending" ELSE ops[op].st
  BY <1>1, <1>4, CommittedTyped
<1>8. \A o \in Ops : ops'[o] = ops[o] \/ ((ops[o] = NoOp \/ ops[o].inv = i) /\ ops'[o].inv = i)
  BY <1>4, <1>6, <1>7
<1>9. \A o \in Ops : ops[o] = NoOp => ops'[o] = NoOp \/ o = op
  BY <1>6, ChannelsAssumption DEF NoOp
<1>10. op \in ActiveOps(i) => ops[op].st \in {"Pending", "Uncertain"}
  BY <1>3, <1>4 DEF ActiveOps, NoOp, Active
<1>11. ActiveOps(i)' = IF st = "None" THEN {op} ELSE {}
  <2>1. st = "None" => op \in ActiveOps(i)'
    BY <1>4, <1>7, <1>10 DEF ActiveOps, Active
  <2>2. st # "None" => op \notin ActiveOps(i)'
    BY <1>7 DEF ActiveOps, Active
  <2>3. \A o \in Ops : o # op => o \notin ActiveOps(i)'
    BY <1>4, <1>6 DEF ActiveOps, Active
  <2> QED BY <2>1, <2>2, <2>3 DEF ActiveOps
<1>12. \A o \in mcf : ops'[o] = ops[o]
  <2>1. op \notin mcf /\ \A o \in worker[w].drop : o \notin mcf
    BY <1>1, <1>4, ChannelsAssumption DEF Shapes, NoOp, Channels
  <2> QED BY <1>1, <1>6, <2>1 DEF Types
<1>13. \A o \in Ops : OpOk(ops'[o])
  <2>1. OpOk(ops'[op])
    BY <1>4, <1>7, <1>10 DEF OpOk
  <2>2. \A o \in worker[w].drop : OpOk(ops'[o])
    <3>1. \A o \in worker[w].drop : ops[o].ch = "MCF"
      BY <1>3, <1>4
    <3> QED BY <1>6, <3>1 DEF OpOk
  <2> QED BY <1>1, <1>6, <2>1, <2>2 DEF Shapes
<1>14. Shapes'
  BY <1>1, <1>12, <1>13 DEF Shapes
<1>15. Registrations(i)' = Registrations(i)
  BY <1>12, NothingRegistered
<1> QED BY <1>7, <1>8, <1>9, <1>11, <1>12, <1>14, <1>15 DEF Commits

LEMMA CommitFacts ==
  ASSUME IInv, NEW w \in Workers, NEW i \in Invoices, NEW op \in Ops, i = worker[w].inv, op = worker[w].op,
         HoldsRow(worker[w]), NEW st \in {"None", "Cancelled", "Rejected"}, UNCHANGED <<emcf, mcf>>,
         \A o \in Ops : o # op => ops'[o] = Committed(w, st)[o],
         LET c == Committed(w, st)[op] IN ops'[op].inv = c.inv /\ ops'[op].ch = c.ch /\ ops'[op].st = c.st
  PROVE  Commits(i, op, st)
<1>1. Types /\ Shapes /\ OneActiveOf(i)
  BY ActiveShapes DEF IInv, OneActiveOf
<1> QED BY <1>1, CommitRows

(* A commit that keeps the attempt active, or cancels it: what is left to    *)
(* show is about the invoice and the new row of the worker.                  *)
LEMMA CommitNext ==
  ASSUME IInv, Types', NEW w \in Workers, NEW i \in Invoices, NEW op \in Ops, i = worker[w].inv, op = worker[w].op,
         HoldsRow(worker[w]), NEW st \in {"None", "Cancelled"},
         ops' = Committed(w, st), UNCHANGED <<logged, emcf, mcf>>,
         NEW x, worker' = [worker EXCEPT ![w] = x], x.inv = i, x.op = op,
         \A j \in Invoices : j # i => invoice'[j] = invoice[j],
         ~Normal(i)', invoice'[i].code = invoice[i].code, invoice'[i].status # "Normalized", ~Normal(i),
         \/ Registrations(i) = {}
         \/ /\ st = "None" /\ invoice'[i].uid = invoice[i].uid /\ InEmcf(i) /\ ~Waits(worker[w]),
         WorkerOk(worker[w])'
  PROVE  IInv'
<1>1. Commits(i, op, st)
  <2>1. UNCHANGED <<emcf, mcf>>
    OBVIOUS
  <2> QED BY <2>1, CommitFacts
<1>2. worker'[w] = x /\ \A v \in Workers : v # w => worker'[v] = worker[v]
  BY Moved DEF IInv
<1>3. Alone'
  BY KeepsAlone DEF IInv
<1>4. \A v \in Workers : worker[v].inv = i => v = w
  BY OnlyWorker
<1>5. op # 0
  BY DEF Ops
<1>6. \A v \in Workers : v # w => worker[v].op # op
  BY <1>5 DEF IInv, Alone
<1>7. StepOn(i)
  <2>1. \A v \in Workers : worker'[v] = worker[v] \/ (worker[v].inv = i /\ worker'[v].inv = i)
    BY <1>2
  <2>2. \A v \in Workers : worker[v].inv # i /\ worker[v].op \in Ops /\ ops[worker[v].op] = NoOp =>
                             ops'[worker[v].op] = NoOp
    BY <1>1, <1>6 DEF Commits
  <2> QED BY <1>1, <2>1, <2>2 DEF StepOn, Commits
<1>8. invoice[i].code = 0
  BY DEF IInv, InvoiceOk, Normal
<1>9. InvoiceOk(i)'
  <2>1. Registrations(i) # {} => InEmcf(i)'
    <3> SUFFICES ASSUME Registrations(i) # {} PROVE InEmcf(i)'
      OBVIOUS
    <3>1. st = "None" /\ invoice'[i].uid = invoice[i].uid /\ InEmcf(i) /\ ~Waits(worker[w])
      OBVIOUS
    <3>2. invoice[i].uid \in logged /\ Doubted(i)
      BY <1>4, <3>1 DEF InEmcf
    <3>3. \A o \in ActiveOps(i) : ActiveOps(i) = {o}
      BY ActiveShapes
    <3>4. ActiveOps(i) = {op} /\ ops[op].st = "Uncertain"
      BY <3>2, <3>3 DEF Doubted, HoldsRow
    <3>5. ops[op] # NoOp
      BY <3>4 DEF NoOp
    <3>6. Doubted(i)'
      BY <1>1, <3>1, <3>4, <3>5 DEF Doubted, Commits
    <3> QED BY <1>1, <3>1, <3>2, <3>6 DEF InEmcf, Commits
  <2>2. \A o \in ActiveOps(i)' : o = op
    BY <1>1 DEF Commits
  <2>3. ops'[op].st # "Queued" \/ st = "Cancelled"
    <3>1. op \in ActiveOps(i) /\ ops[op].ch = "e-MCF" => ops[op].st # "Queued"
      BY ActiveShapes
    <3> QED BY <1>1, <3>1 DEF HoldsRow, Commits
  <2> QED BY <1>1, <1>8, <2>1, <2>2, <2>3 DEF InvoiceOk, Commits
<1>10. \A v \in Workers : worker'[v].inv = i => WorkerOk(worker[v])'
  BY <1>2, <1>4
<1> QED BY <1>1, <1>3, <1>7, <1>9, <1>10, OnInvoice DEF Commits

(* What a worker that holds the row of its invoice has.                     *)
LEMMA HolderFacts ==
  ASSUME IInv, NEW w \in Workers, worker[w].pc \in {"entered", "created", "failed"}
  PROVE  \E i \in Invoices, op \in Ops :
           /\ i = worker[w].inv /\ op = worker[w].op /\ HoldsRow(worker[w]) /\ ~Normal(i)
           /\ invoice[i].status # "Normalized" /\ invoice[i].code = 0 /\ invoice[i] \in InvRows
           /\ worker[w] \in WorkerRows /\ ~Waits(worker[w])
           /\ Registrations(i) = {} \/ InEmcf(i)
<1>1. worker[w].inv \in Invoices /\ worker[w].op \in Ops /\ worker[w] \in WorkerRows
  BY RowOfWorker DEF IInv, Holds
<1>2. PICK i \in Invoices, op \in Ops : i = worker[w].inv /\ op = worker[w].op
  BY <1>1
<1>3. HoldsRow(worker[w]) /\ ~Normal(i) /\ ~Waits(worker[w])
  BY <1>2 DEF IInv, WorkerOk, Waits
<1>4. InvoiceOk(i) /\ invoice[i] \in InvRows
  BY DEF IInv, Types
<1>5. ~InMcf(i)
  BY <1>2, <1>3, HeldNotInMcf DEF InMcf
<1> QED BY <1>1, <1>2, <1>3, <1>4, <1>5 DEF InvoiceOk, Normal

LEMMA NotReceivedNext ==
  ASSUME IInv, NEW w \in Workers, NotReceived(w)
  PROVE  IInv'
<1>1. Types' /\ worker[w].pc = "failed" /\ worker[w].out = "unavailable"
  BY CommitTyped DEF IInv, NotReceived, At
<1>2. PICK i \in Invoices, op \in Ops :
           /\ i = worker[w].inv /\ op = worker[w].op /\ HoldsRow(worker[w]) /\ ~Normal(i)
           /\ invoice[i].status # "Normalized" /\ invoice[i].code = 0 /\ invoice[i] \in InvRows
           /\ worker[w] \in WorkerRows /\ ~Waits(worker[w])
           /\ Registrations(i) = {} \/ InEmcf(i)
  BY <1>1, HolderFacts
<1> DEFINE x == [worker[w] EXCEPT !.pc = "alternate", !.drop = {}]
           st == "Cancelled"
<1>3. x.inv = i /\ x.op = op /\ x.pc = "alternate" /\ x.drop = {}
  BY <1>2 DEF WorkerRows
<1>4. worker' = [worker EXCEPT ![w] = x]
  BY DEF NotReceived
<1>5. ops' = Committed(w, st) /\ UNCHANGED <<logged, emcf, mcf>> /\ invoice' = [invoice EXCEPT ![i].uid = 0]
  BY <1>2 DEF NotReceived, Inv
<1>6. st \in {"None", "Cancelled"} /\ st = "Cancelled"
  OBVIOUS
<1> HIDE DEF x, st
<1>7. Commits(i, op, st)
  BY <1>2, <1>5, <1>6, CommitFacts
<1>8. Registrations(i) = {}
  BY <1>1, <1>2 DEF IInv, WorkerOk
<1>9. /\ invoice'[i].code = 0 /\ invoice'[i].status # "Normalized"
      /\ \A j \in Invoices : j # i => invoice'[j] = invoice[j]
  BY <1>2, <1>5 DEF IInv, Types, InvRows
<1>10. ~Normal(i)'
  BY <1>9 DEF Normal
<1>11. worker'[w] = x
  BY <1>4, Moved DEF IInv
<1>12. WorkerOk(worker[w])'
  BY <1>3, <1>6, <1>7, <1>8, <1>10, <1>11, ChannelsAssumption DEF WorkerOk, Commits
<1>13. /\ invoice'[i].code = invoice[i].code /\ invoice'[i].status # "Normalized"
       /\ \/ Registrations(i) = {}
          \/ st = "None" /\ invoice'[i].uid = invoice[i].uid /\ InEmcf(i) /\ ~Waits(worker[w])
  BY <1>2, <1>6, <1>8, <1>9
<1>14. /\ Types' /\ i = worker[w].inv /\ op = worker[w].op /\ HoldsRow(worker[w]) /\ ~Normal(i)
       /\ x.inv = i /\ x.op = op
  BY <1>1, <1>2, <1>3
<1>15. ops' = Committed(w, st) /\ UNCHANGED <<logged, emcf, mcf>> /\ \A j \in Invoices : j # i => invoice'[j] = invoice[j]
  BY <1>5, <1>9
<1> QED BY <1>4, <1>6, <1>10, <1>12, <1>13, <1>14, <1>15, CommitNext

LEMMA FailsNext ==
  ASSUME IInv, NEW w \in Workers, Fails(w)
  PROVE  IInv'
<1>1. Types' /\ worker[w].pc = "failed"
  BY CommitTyped DEF IInv, Fails, At
<1>2. PICK i \in Invoices, op \in Ops :
           /\ i = worker[w].inv /\ op = worker[w].op /\ HoldsRow(worker[w]) /\ ~Normal(i)
           /\ invoice[i].status # "Normalized" /\ invoice[i].code = 0 /\ invoice[i] \in InvRows
           /\ worker[w] \in WorkerRows /\ ~Waits(worker[w])
           /\ Registrations(i) = {} \/ InEmcf(i)
  BY <1>1, HolderFacts
<1> DEFINE x == [worker[w] EXCEPT !.pc = "finish", !.drop = {}]
           st == "None"
<1>3. x.inv = i /\ x.op = op /\ x.pc = "finish" /\ x.drop = {} /\ x.out = worker[w].out
  BY <1>2 DEF WorkerRows
<1>4. worker' = [worker EXCEPT ![w] = x]
  BY DEF Fails
<1>5. /\ ops' = Committed(w, st) /\ UNCHANGED <<logged, emcf, mcf>>
      /\ invoice' = [invoice EXCEPT ![i].status = "Error", ![i].uid = worker[w].uid]
  BY <1>2 DEF Fails, Inv
<1>6. st \in {"None", "Cancelled"} /\ st = "None"
  OBVIOUS
<1> HIDE DEF x, st
<1>7. Commits(i, op, st)
  BY <1>2, <1>5, <1>6, CommitFacts
<1>8. \/ worker[w].out = "lost" /\ worker[w].uid = invoice[i].uid /\ worker[w].uid \in logged
      \/ worker[w].out \in {"refused", "unavailable"} /\ Registrations(i) = {}
  BY <1>1, <1>2 DEF IInv, WorkerOk
<1>9. /\ invoice'[i].code = 0 /\ invoice'[i].status = "Error" /\ invoice'[i].uid = worker[w].uid
      /\ \A j \in Invoices : j # i => invoice'[j] = invoice[j]
  BY <1>2, <1>5 DEF IInv, Types, InvRows
<1>10. ~Normal(i)'
  BY <1>9 DEF Normal
<1>11. worker'[w] = x
  BY <1>4, Moved DEF IInv
<1>12. WorkerOk(worker[w])'
  <2>1. Attempts(worker[w])'
    BY <1>3, <1>6, <1>7, <1>11 DEF Attempts, Commits
  <2>2. logged' = logged /\ Registrations(i)' = Registrations(i) /\ x.out = worker[w].out
    BY <1>3, <1>5, <1>7 DEF Commits
  <2>3. \/ x.out = "lost" /\ invoice'[i].uid \in logged'
        \/ x.out \in {"refused", "unavailable"} /\ Registrations(i)' = {}
    BY <1>8, <1>9, <2>2
  <2> QED BY <1>3, <1>10, <1>11, <2>1, <2>3, ChannelsAssumption DEF WorkerOk
<1>13. /\ invoice'[i].code = invoice[i].code /\ invoice'[i].status # "Normalized"
       /\ \/ Registrations(i) = {}
          \/ st = "None" /\ invoice'[i].uid = invoice[i].uid /\ InEmcf(i) /\ ~Waits(worker[w])
  BY <1>2, <1>6, <1>8, <1>9
<1>14. /\ Types' /\ i = worker[w].inv /\ op = worker[w].op /\ HoldsRow(worker[w]) /\ ~Normal(i)
       /\ x.inv = i /\ x.op = op
  BY <1>1, <1>2, <1>3
<1>15. ops' = Committed(w, st) /\ UNCHANGED <<logged, emcf, mcf>> /\ \A j \in Invoices : j # i => invoice'[j] = invoice[j]
  BY <1>5, <1>9
<1> QED BY <1>4, <1>6, <1>10, <1>12, <1>13, <1>14, <1>15, CommitNext

LEMMA InvalidNext ==
  ASSUME IInv, Windows = {}, NEW w \in Workers, Invalid(w)
  PROVE  IInv'
<1>1. Types' /\ worker[w].pc = "entered"
  BY CommitTyped DEF IInv, Invalid, At
<1>2. PICK i \in Invoices, op \in Ops :
           /\ i = worker[w].inv /\ op = worker[w].op /\ HoldsRow(worker[w]) /\ ~Normal(i)
           /\ invoice[i].status # "Normalized" /\ invoice[i].code = 0 /\ invoice[i] \in InvRows
           /\ worker[w] \in WorkerRows /\ ~Waits(worker[w])
           /\ Registrations(i) = {} \/ InEmcf(i)
  BY <1>1, HolderFacts
<1> DEFINE x == [worker[w] EXCEPT !.pc = "finish", !.out = "refused", !.drop = {}]
           st == "None"
<1>3. x.inv = i /\ x.op = op /\ x.pc = "finish" /\ x.drop = {} /\ x.out = "refused"
  BY <1>2 DEF WorkerRows
<1>4. worker' = [worker EXCEPT ![w] = x]
  BY DEF Invalid
<1>5. /\ ops' = Committed(w, st) /\ UNCHANGED <<logged, emcf, mcf>>
      /\ invoice' = [invoice EXCEPT ![i].status = "Error"] /\ ops[op].st # "Uncertain"
  BY <1>2 DEF Invalid, Inv
<1>6. st \in {"None", "Cancelled"} /\ st = "None"
  OBVIOUS
<1> HIDE DEF x, st
<1>7. Commits(i, op, st)
  BY <1>2, <1>5, <1>6, CommitFacts
<1>8. Registrations(i) = {}
  <2>1. ~Doubted(i)
    <3>1. \A o \in ActiveOps(i) : ActiveOps(i) = {o}
      BY ActiveShapes
    <3> QED BY <1>2, <1>5, <3>1 DEF Doubted, HoldsRow
  <2>2. \A v \in Workers : worker[v].inv = i => v = w
    BY <1>2, OnlyWorker
  <2> QED BY <1>2, <2>1, <2>2 DEF InEmcf
<1>9. /\ invoice'[i].code = 0 /\ invoice'[i].status = "Error"
      /\ \A j \in Invoices : j # i => invoice'[j] = invoice[j]
  BY <1>2, <1>5 DEF IInv, Types, InvRows
<1>10. ~Normal(i)'
  BY <1>9 DEF Normal
<1>11. worker'[w] = x
  BY <1>4, Moved DEF IInv
<1>12. WorkerOk(worker[w])'
  <2>1. Attempts(worker[w])'
    BY <1>3, <1>6, <1>7, <1>11 DEF Attempts, Commits
  <2> QED BY <1>3, <1>7, <1>8, <1>10, <1>11, <2>1, ChannelsAssumption DEF WorkerOk, Commits
<1>13. /\ invoice'[i].code = invoice[i].code /\ invoice'[i].status # "Normalized"
       /\ \/ Registrations(i) = {}
          \/ st = "None" /\ invoice'[i].uid = invoice[i].uid /\ InEmcf(i) /\ ~Waits(worker[w])
  BY <1>2, <1>6, <1>8, <1>9
<1>14. /\ Types' /\ i = worker[w].inv /\ op = worker[w].op /\ HoldsRow(worker[w]) /\ ~Normal(i)
       /\ x.inv = i /\ x.op = op
  BY <1>1, <1>2, <1>3
<1>15. ops' = Committed(w, st) /\ UNCHANGED <<logged, emcf, mcf>> /\ \A j \in Invoices : j # i => invoice'[j] = invoice[j]
  BY <1>5, <1>9
<1> QED BY <1>4, <1>6, <1>10, <1>12, <1>13, <1>14, <1>15, CommitNext

LEMMA KeepUidNext ==
  ASSUME IInv, NEW w \in Workers, KeepUid(w)
  PROVE  IInv'
<1>1. Types' /\ worker[w].pc = "created"
  BY CommitTyped DEF IInv, KeepUid, At
<1>2. PICK i \in Invoices, op \in Ops :
           /\ i = worker[w].inv /\ op = worker[w].op /\ HoldsRow(worker[w]) /\ ~Normal(i)
           /\ invoice[i].status # "Normalized" /\ invoice[i].code = 0 /\ invoice[i] \in InvRows
           /\ worker[w] \in WorkerRows /\ ~Waits(worker[w])
           /\ Registrations(i) = {} \/ InEmcf(i)
  BY <1>1, HolderFacts
<1> DEFINE x == [worker[w] EXCEPT !.pc = "kept", !.drop = {}]
           st == "None"
<1>3. x.inv = i /\ x.op = op /\ x.pc = "kept" /\ x.drop = {} /\ x.uid = worker[w].uid
  BY <1>2 DEF WorkerRows
<1>4. worker' = [worker EXCEPT ![w] = x]
  BY DEF KeepUid
<1>5. /\ ops' = Committed(w, st) /\ UNCHANGED <<logged, emcf, mcf>>
      /\ invoice' = [invoice EXCEPT ![i].uid = worker[w].uid]
  BY <1>2 DEF KeepUid, Inv
<1>6. st \in {"None", "Cancelled"} /\ st = "None"
  OBVIOUS
<1> HIDE DEF x, st
<1>7. Commits(i, op, st)
  BY <1>2, <1>5, <1>6, CommitFacts
<1>8. Registrations(i) = {} /\ emcf[worker[w].uid].inv = i /\ emcf[worker[w].uid].st \in Unconfirmed
  BY <1>1, <1>2 DEF IInv, WorkerOk
<1>9. /\ invoice'[i].code = 0 /\ invoice'[i].status # "Normalized" /\ invoice'[i].uid = worker[w].uid
      /\ \A j \in Invoices : j # i => invoice'[j] = invoice[j]
  BY <1>2, <1>5 DEF IInv, Types, InvRows
<1>10. ~Normal(i)'
  BY <1>9 DEF Normal
<1>11. worker'[w] = x
  BY <1>4, Moved DEF IInv
<1>12. WorkerOk(worker[w])'
  <2>1. Attempts(worker[w])'
    BY <1>3, <1>6, <1>7, <1>11 DEF Attempts, Commits
  <2> QED BY <1>3, <1>5, <1>7, <1>8, <1>9, <1>10, <1>11, <2>1, ChannelsAssumption DEF WorkerOk, Commits
<1>13. /\ invoice'[i].code = invoice[i].code /\ invoice'[i].status # "Normalized"
       /\ \/ Registrations(i) = {}
          \/ st = "None" /\ invoice'[i].uid = invoice[i].uid /\ InEmcf(i) /\ ~Waits(worker[w])
  BY <1>2, <1>6, <1>8, <1>9
<1>14. /\ Types' /\ i = worker[w].inv /\ op = worker[w].op /\ HoldsRow(worker[w]) /\ ~Normal(i)
       /\ x.inv = i /\ x.op = op
  BY <1>1, <1>2, <1>3
<1>15. ops' = Committed(w, st) /\ UNCHANGED <<logged, emcf, mcf>> /\ \A j \in Invoices : j # i => invoice'[j] = invoice[j]
  BY <1>5, <1>9
<1> QED BY <1>4, <1>6, <1>10, <1>12, <1>13, <1>14, <1>15, CommitNext

(* What a worker has after its first commit.                                *)
LEMMA AttemptFacts ==
  ASSUME IInv, NEW w \in Workers, worker[w].pc \in {"kept", "answered", "finish"}
  PROVE  \E i \in Invoices, op \in Ops :
           /\ i = worker[w].inv /\ op = worker[w].op /\ worker[w].drop = {} /\ ActiveOps(i) = {op}
           /\ ops[op].ch = "e-MCF" /\ ops[op].inv = i /\ ops[op].st \in {"Pending", "Uncertain"}
           /\ op \notin mcf /\ ~InMcf(i)
           /\ invoice[i] \in InvRows /\ worker[w] \in WorkerRows
<1>1. worker[w].inv \in Invoices /\ worker[w].op \in Ops /\ worker[w] \in WorkerRows
  BY RowOfWorker DEF IInv, Holds
<1>2. PICK i \in Invoices, op \in Ops : i = worker[w].inv /\ op = worker[w].op
  BY <1>1
<1>3. op \in ActiveOps(i) /\ ops[op].ch = "e-MCF" /\ worker[w].drop = {}
  BY <1>2 DEF IInv, WorkerOk, Attempts
<1>4. ActiveOps(i) = {op} /\ ops[op].inv = i /\ ops[op].st \in {"Pending", "Uncertain"}
  BY <1>3, ActiveShapes
<1>5. op \notin mcf
  BY <1>3 DEF IInv, Shapes
<1>6. ~InMcf(i)
  BY <1>4, <1>5 DEF InMcf
<1>7. invoice[i] \in InvRows
  BY DEF IInv, Types
<1> QED BY <1>1, <1>2, <1>3, <1>4, <1>5, <1>6, <1>7

(* Such a worker goes on, and no operation changes.                         *)
LEMMA AttemptNext ==
  ASSUME IInv, Types', NEW w \in Workers, NEW i \in Invoices, i = worker[w].inv,
         NEW x, worker' = [worker EXCEPT ![w] = x], x.inv = i, x.op = worker[w].op,
         UNCHANGED <<ops, mcf>>, logged \subseteq logged',
         \A u \in Requests : emcf'[u] = emcf[u] \/ (emcf[u].inv = i /\ emcf'[u].inv = i),
         \A j \in Invoices : j # i => invoice'[j] = invoice[j],
         InvoiceOk(i)', WorkerOk(worker[w])'
  PROVE  IInv'
<1>1. worker'[w] = x /\ \A v \in Workers : v # w => worker'[v] = worker[v]
  BY Moved DEF IInv
<1>2. Alone'
  BY KeepsAlone DEF IInv
<1>3. Shapes'
  BY DEF IInv, Shapes
<1>4. StepOn(i)
  <2>1. \A v \in Workers : worker'[v] = worker[v] \/ (worker[v].inv = i /\ worker'[v].inv = i)
    BY <1>1
  <2> QED BY <2>1 DEF StepOn
<1>5. \A v \in Workers : worker[v].inv = i => v = w
  BY OnlyWorker
<1>6. \A v \in Workers : worker'[v].inv = i => WorkerOk(worker[v])'
  BY <1>1, <1>5
<1> QED BY <1>2, <1>3, <1>4, <1>6, OnInvoice

(* An attempt that raised and cannot be registered: the operation is closed. *)
LEMMA RaisedFacts ==
  ASSUME IInv, Windows = {}, NEW w \in Workers, Raises(w)
  PROVE  \E i \in Invoices, op \in Ops :
           /\ i = worker[w].inv /\ op = worker[w].op /\ ~Normal(i)
           /\ Commits(i, op, "Rejected") /\ Registrations(i) = {}
<1>1. worker[w].pc \in {"entered", "created", "kept", "answered"} /\ ~MayBeRegistered(w)
  BY DEF Raises
<1>2. PICK i \in Invoices, op \in Ops : i = worker[w].inv /\ op = worker[w].op
  BY RaisesTyped DEF IInv
<1>3. ~Normal(i) /\ HoldsRow(worker[w])
  <2>1. ~Normal(i) /\ (HoldsRow(worker[w]) \/ Attempts(worker[w]))
    BY <1>1, <1>2 DEF IInv, WorkerOk
  <2>2. Attempts(worker[w]) => HoldsRow(worker[w])
    BY DEF Attempts, HoldsRow
  <2> QED BY <2>1, <2>2
<1>4. Registrations(i) = {}
  <2>1. CASE worker[w].pc \in {"created", "kept"}
    BY <1>2, <2>1 DEF IInv, WorkerOk
  <2>2. CASE worker[w].pc = "answered"
    BY <1>1, <1>2, <2>2 DEF IInv, WorkerOk, MayBeRegistered, At
  <2>3. CASE worker[w].pc = "entered"
    <3>1. Registrations(i) = {} \/ InEmcf(i)
      BY <1>2, <2>3, HolderFacts
    <3>2. ~Doubted(i)
      <4>1. \A o \in ActiveOps(i) : ActiveOps(i) = {o}
        BY ActiveShapes
      <4> QED BY <1>1, <1>2, <1>3, <4>1 DEF Doubted, HoldsRow, MayBeRegistered
    <3>3. \A v \in Workers : worker[v].inv = i => ~Waits(worker[v])
      BY <1>2, <2>3, OnlyWorker DEF Waits
    <3> QED BY <3>1, <3>2, <3>3 DEF InEmcf
  <2> QED BY <1>1, <2>1, <2>2, <2>3
<1>5. Commits(i, op, "Rejected")
  <2>1. UNCHANGED <<emcf, mcf>>
    BY DEF Raises
  <2>2. /\ \A o \in Ops : o # op => ops'[o] = Committed(w, "Rejected")[o]
        /\ LET c == Committed(w, "Rejected")[op] IN ops'[op].inv = c.inv /\ ops'[op].ch = c.ch /\ ops'[op].st = c.st
    BY <1>2, RaisesTyped DEF IInv
  <2> QED BY <1>2, <1>3, <2>1, <2>2, CommitFacts
<1> QED BY <1>2, <1>3, <1>4, <1>5

LEMMA RaisesNext ==
  ASSUME IInv, Windows = {}, NEW w \in Workers, Raises(w)
  PROVE  IInv'
<1>1. Types' /\ logged \subseteq logged'
  BY ReleasedTyped, RaisesTyped DEF IInv
<1>2. PICK i \in Invoices, op \in Ops :
        /\ i = worker[w].inv /\ op = worker[w].op /\ ~Normal(i)
        /\ Commits(i, op, "Rejected") /\ Registrations(i) = {}
  BY RaisedFacts
<1>3. UNCHANGED <<invoice, emcf, mcf>> /\ worker' = [worker EXCEPT ![w] = Idle]
  BY DEF Raises
<1>4. worker'[w] = Idle /\ \A v \in Workers : v # w => worker'[v] = worker[v]
  BY <1>3, Moved DEF IInv
<1>5. Alone'
  BY <1>3, KeepsAlone DEF IInv
<1>6. \A v \in Workers : worker[v].inv = i => v = w
  BY <1>2, OnlyWorker
<1>7. \A v \in Workers : v # w => worker[v].op # op
  BY <1>2 DEF IInv, Alone, Ops
<1>8. StepOn(i)
  <2>1. \A v \in Workers : worker'[v] = worker[v] \/ (worker[v].inv = i /\ worker'[v] = Idle)
    BY <1>2, <1>4
  <2>2. \A v \in Workers : worker[v].inv # i /\ worker[v].op \in Ops /\ ops[worker[v].op] = NoOp =>
                             ops'[worker[v].op] = NoOp
    BY <1>2, <1>7 DEF Commits
  <2> QED BY <1>1, <1>2, <1>3, <2>1, <2>2 DEF StepOn, Commits
<1>9. InvoiceOk(i)'
  <2>1. ~Normal(i)' /\ (invoice'[i].status = "Normalized" <=> invoice'[i].code # 0)
    BY <1>2, <1>3 DEF IInv, InvoiceOk, Normal
  <2> QED BY <1>2, <2>1 DEF InvoiceOk, Commits
<1>10. \A v \in Workers : worker'[v].inv # i
  BY <1>4, <1>6, ChannelsAssumption DEF Idle
<1> QED BY <1>1, <1>2, <1>5, <1>8, <1>9, <1>10, OnInvoice DEF Commits

LEMMA DiffersNext ==
  ASSUME IInv, NEW w \in Workers, Differs(w)
  PROVE  IInv'
<1>1. Types' /\ worker[w].pc = "kept"
  BY ConfirmTyped DEF IInv, Differs, At
<1>2. PICK i \in Invoices, op \in Ops :
           /\ i = worker[w].inv /\ op = worker[w].op /\ worker[w].drop = {} /\ ActiveOps(i) = {op}
           /\ ops[op].ch = "e-MCF" /\ ops[op].inv = i /\ ops[op].st \in {"Pending", "Uncertain"}
           /\ op \notin mcf /\ ~InMcf(i)
           /\ invoice[i] \in InvRows /\ worker[w] \in WorkerRows
  BY <1>1, AttemptFacts
<1>3. PICK u \in Requests : u = worker[w].uid
  BY <1>1, RowOfWorker DEF IInv, Holds
<1>4. ~Normal(i) /\ Registrations(i) = {} /\ emcf[u].inv = i /\ emcf[u].st \in Unconfirmed
  BY <1>1, <1>2, <1>3 DEF IInv, WorkerOk
<1> DEFINE x == [worker[w] EXCEPT !.pc = "finish", !.out = "refused"]
<1>5. x.inv = i /\ x.op = op /\ x.pc = "finish" /\ x.drop = {} /\ x.out = "refused"
  BY <1>2 DEF WorkerRows
<1>6. worker' = [worker EXCEPT ![w] = x]
  BY DEF Differs, Outcome
<1> HIDE DEF x
<1>7. /\ UNCHANGED <<ops, mcf, logged>>
      /\ invoice' = [invoice EXCEPT ![i].uid = 0, ![i].status = "Error"]
      /\ emcf' = [emcf EXCEPT ![u].st = IF @ = "pending" THEN "closed" ELSE @] \/ UNCHANGED emcf
  BY <1>2, <1>3 DEF Differs, Cancel, Inv
<1>8. \A q \in Requests : \/ emcf'[q] = emcf[q]
                          \/ /\ emcf[q].inv = i /\ emcf'[q].inv = i
                             /\ emcf[q].st # "confirmed" /\ emcf'[q].st # "confirmed"
  BY <1>4, <1>7 DEF IInv, Types, ReqRows, Unconfirmed
<1>9. Registrations(i)' = {} /\ ActiveOps(i)' = {op}
  <2>1. Registrations(i)' = Registrations(i)
    BY <1>7, <1>8, NothingRegistered
  <2> QED BY <1>2, <1>4, <1>7, <2>1 DEF ActiveOps
<1>10. /\ invoice'[i].code = 0 /\ invoice'[i].status = "Error"
       /\ \A j \in Invoices : j # i => invoice'[j] = invoice[j]
  <2>1. invoice[i].code = 0
    BY <1>4 DEF IInv, InvoiceOk, Normal
  <2> QED BY <1>2, <1>7, <2>1 DEF IInv, Types, InvRows
<1>11. ~Normal(i)' /\ worker'[w] = x
  BY <1>6, <1>10, Moved DEF Normal, IInv
<1>12. InvoiceOk(i)'
  BY <1>2, <1>7, <1>9, <1>10, <1>11 DEF InvoiceOk
<1>13. WorkerOk(worker[w])'
  <2>1. Attempts(worker[w])'
    BY <1>2, <1>5, <1>7, <1>9, <1>11 DEF Attempts
  <2> QED BY <1>5, <1>9, <1>11, <2>1, ChannelsAssumption DEF WorkerOk
<1>14. /\ x.inv = i /\ x.op = worker[w].op /\ UNCHANGED <<ops, mcf>> /\ logged \subseteq logged'
       /\ \A q \in Requests : emcf'[q] = emcf[q] \/ (emcf[q].inv = i /\ emcf'[q].inv = i)
  BY <1>2, <1>5, <1>7, <1>8
<1> QED BY <1>1, <1>2, <1>6, <1>10, <1>12, <1>13, <1>14, AttemptNext

(* A request is confirmed.                                                  *)
LEMMA Registered ==
  ASSUME Types, NEW u \in Requests, emcf' = [emcf EXCEPT ![u].st = "confirmed"], UNCHANGED <<ops, mcf>>,
         NEW j \in Invoices
  PROVE  Registrations(j)' = Registrations(j) \cup (IF emcf[u].inv = j THEN {u} ELSE {})
<1>1. /\ emcf'[u].inv = emcf[u].inv /\ emcf'[u].st = "confirmed"
      /\ \A v \in Requests : v # u => emcf'[v] = emcf[v]
  BY DEF Types, ReqRows
<1>2. Of(j, "confirmed")' = Of(j, "confirmed") \cup (IF emcf[u].inv = j THEN {u} ELSE {})
  BY <1>1 DEF Of
<1> QED BY <1>2 DEF Registrations

LEMMA ConfirmNext ==
  ASSUME IInv, NEW w \in Workers, Confirm(w)
  PROVE  IInv'
<1>1. Types' /\ worker[w].pc = "kept"
  BY ConfirmTyped DEF IInv, Confirm, At
<1>2. PICK i \in Invoices, op \in Ops :
           /\ i = worker[w].inv /\ op = worker[w].op /\ worker[w].drop = {} /\ ActiveOps(i) = {op}
           /\ ops[op].ch = "e-MCF" /\ ops[op].inv = i /\ ops[op].st \in {"Pending", "Uncertain"}
           /\ op \notin mcf /\ ~InMcf(i)
           /\ invoice[i] \in InvRows /\ worker[w] \in WorkerRows
  BY <1>1, AttemptFacts
<1>3. PICK u \in Requests : u = worker[w].uid
  BY <1>1, RowOfWorker DEF IInv, Holds
<1>4. ~Normal(i) /\ Registrations(i) = {} /\ emcf[u].inv = i /\ invoice[i].uid = u
  BY <1>1, <1>2, <1>3 DEF IInv, WorkerOk
<1>5. UNCHANGED <<ops, mcf, logged, invoice>>
  BY DEF Confirm
<1>6. \/ emcf' = [emcf EXCEPT ![u].st = "confirmed"] /\ \E a \in {"ok", "lost"} : Answer(w, a)
      \/ UNCHANGED emcf /\ \E a \in {"lost", "refused"} : Answer(w, a)
  BY <1>3 DEF Confirm
<1>7. /\ \A q \in Requests : emcf'[q] = emcf[q] \/ (emcf[q].inv = i /\ emcf'[q].inv = i)
      /\ emcf'[u].inv = i
  BY <1>4, <1>6 DEF IInv, Types, ReqRows
<1>8. PICK a : /\ Answer(w, a)
               /\ \/ a = "ok" /\ Registrations(i)' = {u}
                  \/ a = "lost" /\ Registrations(i)' \in {{}, {u}}
                  \/ a = "refused" /\ Registrations(i)' = {}
  <2>1. CASE emcf' = [emcf EXCEPT ![u].st = "confirmed"]
    <3>1. Registrations(i)' = {u}
      BY <1>4, <1>5, <2>1, Registered DEF IInv
    <3>2. \E a \in {"ok", "lost"} : Answer(w, a)
      BY <1>6, <2>1, <3>1, <1>4, <1>5, NothingRegistered
    <3> QED BY <3>1, <3>2
  <2>2. CASE UNCHANGED emcf /\ \E a \in {"lost", "refused"} : Answer(w, a)
    <3>1. Registrations(i)' = {}
      BY <1>4, <1>5, <2>2 DEF Registrations, Of
    <3> QED BY <2>2, <3>1
  <2> QED BY <1>6, <2>1, <2>2
<1> DEFINE x == [worker[w] EXCEPT !.pc = "answered", !.out = a]
<1>9. x.inv = i /\ x.op = op /\ x.pc = "answered" /\ x.drop = {} /\ x.out = a /\ x.uid = u
  BY <1>2, <1>3 DEF WorkerRows
<1>10. worker' = [worker EXCEPT ![w] = x]
  BY <1>8 DEF Answer
<1> HIDE DEF x
<1>11. worker'[w] = x
  BY <1>10, Moved DEF IInv
<1>12. ~Normal(i)' /\ ActiveOps(i)' = {op}
  BY <1>2, <1>4, <1>5 DEF Normal, ActiveOps
<1>13. InvoiceOk(i)'
  <2>1. Registrations(i)' = {} \/ InEmcf(i)'
    <3>1. Waits(worker[w])' /\ worker'[w].inv = i
      BY <1>9, <1>11 DEF Waits
    <3> QED BY <1>4, <1>5, <1>8, <3>1 DEF InEmcf
  <2>2. InvoiceOk(i)
    BY DEF IInv
  <2> QED BY <1>2, <1>5, <1>12, <2>1, <2>2 DEF InvoiceOk
<1>14. WorkerOk(worker[w])'
  <2>1. Attempts(worker[w])'
    BY <1>2, <1>5, <1>9, <1>11, <1>12 DEF Attempts
  <2> QED BY <1>4, <1>5, <1>7, <1>8, <1>9, <1>11, <1>12, <2>1, ChannelsAssumption DEF WorkerOk
<1>15. x.inv = i /\ x.op = worker[w].op
  BY <1>2, <1>9
<1> QED BY <1>1, <1>2, <1>5, <1>7, <1>10, <1>13, <1>14, <1>15, AttemptNext

LEMMA RecordNext ==
  ASSUME IInv, NEW w \in Workers, Record(w)
  PROVE  IInv'
<1>1. Types' /\ worker[w].pc = "answered"
  BY ConfirmTyped DEF IInv, Record, At
<1>2. PICK i \in Invoices, op \in Ops :
           /\ i = worker[w].inv /\ op = worker[w].op /\ worker[w].drop = {} /\ ActiveOps(i) = {op}
           /\ ops[op].ch = "e-MCF" /\ ops[op].inv = i /\ ops[op].st \in {"Pending", "Uncertain"}
           /\ op \notin mcf /\ ~InMcf(i)
           /\ invoice[i] \in InvRows /\ worker[w] \in WorkerRows
  BY <1>1, AttemptFacts
<1>3. PICK u \in Requests : u = worker[w].uid
  BY <1>1, RowOfWorker DEF IInv, Holds
<1>4. /\ ~Normal(i) /\ emcf[u].inv = i /\ invoice[i].uid = u
      /\ \/ worker[w].out = "ok" /\ Registrations(i) = {u}
         \/ worker[w].out = "lost" /\ Registrations(i) \subseteq {u}
         \/ worker[w].out = "refused" /\ Registrations(i) = {}
  BY <1>1, <1>2, <1>3 DEF IInv, WorkerOk
<1> DEFINE x == [worker[w] EXCEPT !.pc = "finish"]
<1>5. x.inv = i /\ x.op = op /\ x.pc = "finish" /\ x.drop = {} /\ x.out = worker[w].out
  BY <1>2 DEF WorkerRows
<1>6. worker' = [worker EXCEPT ![w] = x]
  BY DEF Record, Goto
<1> HIDE DEF x
<1>7. worker'[w] = x
  BY <1>6, Moved DEF IInv
<1>8. UNCHANGED <<ops, mcf>> /\ logged' = logged \cup {u}
  BY <1>3 DEF Record
<1>9. /\ worker[w].out = "ok" => UNCHANGED emcf /\ invoice' = [invoice EXCEPT ![i] = [@ EXCEPT !.status = "Normalized", !.code = u]]
      /\ worker[w].out = "lost" => UNCHANGED emcf /\ invoice' = [invoice EXCEPT ![i].status = "Error"]
      /\ worker[w].out = "refused" =>
           /\ emcf' = [emcf EXCEPT ![u].st = IF @ = "pending" THEN "closed" ELSE @] \/ UNCHANGED emcf
           /\ invoice' = [invoice EXCEPT ![i].status = "Error", ![i].uid = 0]
  BY <1>2, <1>3 DEF Record, Cancel, Inv
<1>10. /\ worker[w].out = "ok" => invoice'[i].status = "Normalized" /\ invoice'[i].code = u
       /\ worker[w].out = "lost" => invoice'[i].status = "Error" /\ invoice'[i].code = invoice[i].code /\ invoice'[i].uid = u
       /\ worker[w].out = "refused" => invoice'[i].status = "Error" /\ invoice'[i].code = invoice[i].code
  <2>1. invoice \in [Invoices -> InvRows] /\ invoice[i].uid = u
    BY <1>4 DEF IInv, Types
  <2>2. CASE worker[w].out = "ok"
    BY <1>9, <2>1, <2>2 DEF InvRows
  <2>3. CASE worker[w].out = "lost"
    BY <1>9, <2>1, <2>3 DEF InvRows
  <2>4. CASE worker[w].out = "refused"
    BY <1>9, <2>1, <2>4 DEF InvRows
  <2> QED BY <1>4, <2>2, <2>3, <2>4
<1>11. \A j \in Invoices : j # i => invoice'[j] = invoice[j]
  BY <1>4, <1>9 DEF IInv, Types
<1>12. \A q \in Requests : \/ emcf'[q] = emcf[q]
                           \/ /\ emcf[q].inv = i /\ emcf'[q].inv = i
                              /\ emcf[q].st # "confirmed" /\ emcf'[q].st # "confirmed"
  BY <1>4, <1>9 DEF IInv, Types, ReqRows
<1>13. Registrations(i)' = Registrations(i)
  BY <1>8, <1>12, NothingRegistered
<1>14. ActiveOps(i)' = {op}
  BY <1>2, <1>8 DEF ActiveOps
<1>15. invoice[i].code = 0 /\ u # 0
  BY <1>4 DEF IInv, InvoiceOk, Normal, Requests
<1>16. InvoiceOk(i)'
  <2>1. /\ worker[w].out = "ok" => Normal(i)'
        /\ worker[w].out \in {"lost", "refused"} => ~Normal(i)' /\ invoice'[i].status # "Normalized" /\ invoice'[i].code = 0
    BY <1>10, <1>15 DEF Normal
  <2>2. worker[w].out = "lost" => Registrations(i)' = {} \/ InEmcf(i)'
    <3>1. worker[w].out = "lost" => Waits(worker[w])' /\ worker'[w].inv = i
      BY <1>5, <1>7 DEF Waits
    <3> QED BY <1>4, <1>10, <1>13, <3>1 DEF InEmcf
  <2>3. \A o \in ActiveOps(i)' : o = op
    BY <1>14
  <2>4. ops'[op].ch # "MCF" /\ ops'[op].st # "Queued"
    BY <1>2, <1>8
  <2> QED BY <1>4, <1>10, <1>13, <1>15, <2>1, <2>2, <2>3, <2>4 DEF InvoiceOk
<1>17. WorkerOk(worker[w])'
  <2>1. Attempts(worker[w])'
    BY <1>2, <1>5, <1>7, <1>8, <1>14 DEF Attempts
  <2>2. \/ x.out = "ok" /\ Normal(i)'
        \/ x.out = "lost" /\ ~Normal(i)' /\ invoice'[i].uid \in logged'
        \/ x.out \in {"refused", "unavailable"} /\ ~Normal(i)' /\ Registrations(i)' = {}
    BY <1>4, <1>5, <1>8, <1>10, <1>13, <1>15 DEF Normal
  <2> QED BY <1>5, <1>7, <2>1, <2>2, ChannelsAssumption DEF WorkerOk
<1>18. /\ x.inv = i /\ x.op = worker[w].op /\ UNCHANGED <<ops, mcf>> /\ logged \subseteq logged'
       /\ \A q \in Requests : emcf'[q] = emcf[q] \/ (emcf[q].inv = i /\ emcf'[q].inv = i)
  BY <1>2, <1>5, <1>8, <1>12
<1> QED BY <1>1, <1>2, <1>6, <1>11, <1>16, <1>17, <1>18, AttemptNext

(* The operation takes the state that the invoice and the stage give it.    *)
LEMMA FinishNext ==
  ASSUME IInv, NEW w \in Workers, Finish(w)
  PROVE  IInv'
<1>1. Types' /\ worker[w].pc = "finish"
  BY ReleasedTyped DEF IInv, Finish, At
<1>2. PICK i \in Invoices, op \in Ops :
           /\ i = worker[w].inv /\ op = worker[w].op /\ worker[w].drop = {} /\ ActiveOps(i) = {op}
           /\ ops[op].ch = "e-MCF" /\ ops[op].inv = i /\ ops[op].st \in {"Pending", "Uncertain"}
           /\ op \notin mcf /\ ~InMcf(i)
           /\ invoice[i] \in InvRows /\ worker[w] \in WorkerRows
  BY <1>1, AttemptFacts
<1>3. \/ worker[w].out = "ok" /\ Normal(i)
      \/ worker[w].out = "lost" /\ ~Normal(i) /\ invoice[i].uid \in logged
      \/ worker[w].out \in {"refused", "unavailable"} /\ ~Normal(i) /\ Registrations(i) = {}
  BY <1>1, <1>2 DEF IInv, WorkerOk
<1>4. UNCHANGED <<invoice, logged, emcf, mcf>> /\ worker' = [worker EXCEPT ![w] = Idle]
  BY DEF Finish
<1>5. /\ ops'[op].inv = i /\ ops'[op].ch = "e-MCF" /\ ops'[op].st = Closed(w)
      /\ \A o \in Ops : o # op => ops'[o] = ops[o]
  BY <1>2 DEF Finish, IInv, Types, OpRows
<1>6. /\ Closed(w) \in {"Normalized", "Cancelled", "Uncertain", "Rejected"}
      /\ Closed(w) = "Uncertain" <=> worker[w].out = "lost"
  BY <1>2, <1>3 DEF Closed, Inv
<1>7. worker'[w] = Idle /\ \A v \in Workers : v # w => worker'[v] = worker[v]
  BY <1>4, Moved DEF IInv
<1>8. ActiveOps(i)' = IF worker[w].out = "lost" THEN {op} ELSE {}
  <2>1. \A o \in Ops : o # op => o \notin ActiveOps(i)'
    BY <1>2, <1>5 DEF ActiveOps
  <2>2. op \in ActiveOps(i)' <=> worker[w].out = "lost"
    BY <1>5, <1>6 DEF ActiveOps, Active
  <2> QED BY <2>1, <2>2 DEF ActiveOps
<1>9. Registrations(i)' = Registrations(i)
  BY <1>2, <1>4, <1>5, NothingRegistered DEF IInv, Types
<1>10. Shapes'
  <2>1. OpOk(ops'[op])
    BY <1>5, <1>6 DEF OpOk
  <2>2. \A o \in mcf : ops'[o] = ops[o]
    BY <1>2, <1>5 DEF IInv, Types
  <2> QED BY <1>4, <1>5, <2>1, <2>2 DEF IInv, Shapes
<1>11. Alone'
  BY <1>4, KeepsAlone DEF IInv
<1>12. \A v \in Workers : worker[v].inv = i => v = w
  BY <1>2, OnlyWorker
<1>13. StepOn(i)
  <2>1. \A o \in Ops : ops'[o] = ops[o] \/ ((ops[o] = NoOp \/ ops[o].inv = i) /\ ops'[o].inv = i)
    BY <1>2, <1>5
  <2>2. \A v \in Workers : worker'[v] = worker[v] \/ (worker[v].inv = i /\ worker'[v] = Idle)
    BY <1>2, <1>7
  <2>3. ops[op] # NoOp
    BY <1>2 DEF NoOp
  <2>4. \A o \in Ops : ops[o] = NoOp => ops'[o] = NoOp
    BY <1>5, <2>3
  <2> QED BY <1>4, <2>1, <2>2, <2>4 DEF StepOn
<1>14. InvoiceOk(i)'
  <2>1. Normal(i)' <=> Normal(i)
    BY <1>4 DEF Normal
  <2>2. worker[w].out = "lost" => Registrations(i)' = {} \/ InEmcf(i)'
    <3> SUFFICES ASSUME worker[w].out = "lost", Registrations(i) # {} PROVE InEmcf(i)'
      BY <1>9
    <3>1. InEmcf(i)
      BY <1>2, <1>3 DEF IInv, InvoiceOk
    <3>2. Doubted(i)'
      BY <1>5, <1>6, <1>8 DEF Doubted
    <3> QED BY <1>3, <1>4, <1>9, <3>1, <3>2 DEF InEmcf
  <2>3. InvoiceOk(i)
    BY DEF IInv
  <2>4. \A o \in ActiveOps(i)' : o = op
    BY <1>8
  <2>5. ops'[op].ch # "MCF" /\ ops'[op].st # "Queued"
    BY <1>5, <1>6
  <2> QED BY <1>3, <1>4, <1>9, <2>1, <2>2, <2>3, <2>4, <2>5 DEF InvoiceOk
<1>15. \A v \in Workers : worker'[v].inv # i
  BY <1>7, <1>12, ChannelsAssumption DEF Idle
<1> QED BY <1>1, <1>10, <1>11, <1>13, <1>14, <1>15, OnInvoice

----
(* The e-MCF, the MCF, and the decisions.                                   *)

LEMMA ExpireNext ==
  ASSUME IInv, NEW u \in Requests, Expire(u)
  PROVE  IInv'
<1>1. Types'
  BY DecisionsTyped DEF IInv
<1>2. /\ emcf[u].st = "pending" /\ emcf'[u].inv = emcf[u].inv /\ emcf'[u].st = "closed"
      /\ \A v \in Requests : v # u => emcf'[v] = emcf[v]
      /\ UNCHANGED <<ops, invoice, logged, mcf, worker>>
  BY DEF Expire, IInv, Types, ReqRows
<1>3. \A j \in Invoices : Same(j)
  <2> TAKE j \in Invoices
  <2>1. Registrations(j)' = Registrations(j)
    BY <1>2, NothingRegistered
  <2> QED BY <1>2, <2>1 DEF Same, ActiveOps
<1>4. \A j \in Invoices : InvoiceOk(j)'
  BY <1>2, <1>3, InvoiceKept DEF IInv
<1>5. ASSUME NEW w \in Workers PROVE WorkerOk(worker[w])'
  <2> DEFINE x == worker[w]
  <2>1. WorkerOk(x) /\ Holds(x)
    BY DEF IInv, Types
  <2>2. x.uid \in Requests /\ emcf[x.uid].inv = x.inv =>
           /\ emcf'[x.uid].inv = x.inv
           /\ emcf[x.uid].st \in Unconfirmed => emcf'[x.uid].st \in Unconfirmed
    BY <1>2 DEF Unconfirmed
  <2>3. x = worker[w] /\ x = worker'[w]
    BY <1>2
  <2> HIDE DEF x
  <2>4. x.op \in Ops => (ops[x.op] = NoOp => ops'[x.op] = NoOp) /\ (ops[x.op].inv = x.inv => ops'[x.op].inv = x.inv)
    BY <1>2
  <2> QED BY <1>2, <1>3, <2>1, <2>2, <2>3, <2>4, WorkerKept
<1>6. Shapes' /\ Alone'
  BY <1>2 DEF IInv, Shapes, Alone
<1> QED BY <1>1, <1>4, <1>5, <1>6 DEF IInv

(* Who deals with an invoice whose operation is with the MCF.               *)
LEMMA WithMcf ==
  ASSUME IInv, NEW o \in Ops, ops[o].st \in {"Queued", "Leased"}
  PROVE  \E i \in Invoices :
           /\ i = ops[o].inv /\ ActiveOps(i) = {o} /\ ops[o].ch = "MCF" /\ ops[o] # NoOp /\ ~Normal(i)
           /\ invoice[i].status # "Normalized" /\ invoice[i].code = 0
           /\ ~InEmcf(i)
           /\ \A w \in Workers : worker[w].inv = i =>
                \/ worker[w].pc = "loaded"
                \/ /\ worker[w].pc \in {"entered", "created", "failed"} /\ HoldsRow(worker[w])
                   /\ ops[o].st = "Queued" /\ o \in worker[w].drop
<1>1. ops[o] # NoOp
  BY DEF NoOp
<1>2. PICK i \in Invoices : i = ops[o].inv
  BY <1>1 DEF IInv, Shapes, OpOk
<1>3. ActiveOps(i) = {o} /\ ops[o].ch = "MCF" /\ ~Normal(i) /\ ~Doubted(i)
  BY <1>2, ActiveSettles DEF Active
<1>4. ASSUME NEW w \in Workers, worker[w].inv = i
      PROVE  \/ worker[w].pc = "loaded"
             \/ /\ worker[w].pc \in {"entered", "created", "failed"} /\ HoldsRow(worker[w])
                /\ ops[o].st = "Queued" /\ o \in worker[w].drop
  <2>1. WorkerOk(worker[w]) /\ worker[w].pc \in Stages
    BY RowOfWorker DEF IInv, WorkerRows
  <2>2. worker[w].pc # "idle"
    BY <1>4, <2>1, ChannelsAssumption DEF WorkerOk
  <2>3. worker[w].pc \notin {"kept", "answered", "finish"}
    BY <1>3, <1>4, <2>1 DEF WorkerOk, Attempts
  <2>4. worker[w].pc # "alternate"
    BY <1>3, <1>4, <2>1 DEF WorkerOk
  <2>5. worker[w].pc \in {"entered", "created", "failed"} => HoldsRow(worker[w])
    BY <2>1 DEF WorkerOk
  <2>6. HoldsRow(worker[w]) => o \in worker[w].drop /\ ops[o].st = "Queued"
    BY <1>3, <1>4 DEF HoldsRow
  <2> QED BY <2>1, <2>2, <2>3, <2>4, <2>5, <2>6 DEF Stages
<1>5. ~InEmcf(i)
  BY <1>3, <1>4 DEF InEmcf, Waits
<1>6. invoice[i].status # "Normalized" /\ invoice[i].code = 0
  BY <1>3 DEF IInv, InvoiceOk, Normal
<1> QED BY <1>1, <1>2, <1>3, <1>4, <1>5, <1>6

LEMMA LeaseNext ==
  ASSUME IInv, NEW o \in Ops, Lease(o)
  PROVE  IInv'
<1>1. Types' /\ ops[o].st = "Queued"
  BY McfTyped DEF IInv, Lease
<1>2. PICK i \in Invoices :
           /\ i = ops[o].inv /\ ActiveOps(i) = {o} /\ ops[o].ch = "MCF" /\ ops[o] # NoOp /\ ~Normal(i)
           /\ invoice[i].status # "Normalized" /\ invoice[i].code = 0
           /\ ~InEmcf(i)
           /\ \A w \in Workers : worker[w].inv = i =>
                \/ worker[w].pc = "loaded"
                \/ /\ worker[w].pc \in {"entered", "created", "failed"} /\ HoldsRow(worker[w])
                   /\ ops[o].st = "Queued" /\ o \in worker[w].drop
  BY <1>1, WithMcf
<1>3. /\ ops'[o].inv = i /\ ops'[o].ch = "MCF" /\ ops'[o].st = "Leased"
      /\ \A p \in Ops : p # o => ops'[p] = ops[p]
      /\ UNCHANGED <<invoice, logged, emcf, mcf, worker>>
      /\ \A w \in Workers : o \notin worker[w].drop
  BY <1>2 DEF Lease, Unlocked, IInv, Types, OpRows
<1>4. \A w \in Workers : worker[w].inv = i => worker[w].pc = "loaded"
  BY <1>2, <1>3
<1>5. ActiveOps(i)' = {o}
  BY <1>2, <1>3 DEF ActiveOps, Active
<1>6. o \notin mcf
  BY <1>1 DEF IInv, Shapes
<1>7. Registrations(i) = {}
  BY <1>1, <1>2 DEF IInv, InvoiceOk
<1>8. Registrations(i)' = {}
  <2>1. \A p \in mcf : ops'[p].inv = ops[p].inv
    BY <1>3, <1>6 DEF IInv, Types
  <2> QED BY <1>3, <1>7, <2>1, NothingRegistered
<1>9. Shapes'
  <2>1. OpOk(ops'[o])
    BY <1>3 DEF OpOk
  <2>2. \A p \in mcf : ops'[p] = ops[p]
    BY <1>3, <1>6 DEF IInv, Types
  <2> QED BY <1>3, <2>1, <2>2 DEF IInv, Shapes
<1>10. Alone'
  BY <1>3 DEF IInv, Alone
<1>11. StepOn(i)
  BY <1>2, <1>3 DEF StepOn
<1>12. InvoiceOk(i)'
  <2>1. ~Normal(i)'
    BY <1>2, <1>3 DEF Normal
  <2> QED BY <1>2, <1>3, <1>5, <1>8, <2>1 DEF InvoiceOk
<1>13. \A w \in Workers : worker'[w].inv = i => WorkerOk(worker[w])'
  <2> SUFFICES ASSUME NEW w \in Workers, worker[w].inv = i PROVE WorkerOk(worker[w])'
    BY <1>3
  <2>1. worker[w].pc = "loaded" /\ WorkerOk(worker[w])
    BY <1>4 DEF IInv
  <2> QED BY <1>3, <2>1 DEF WorkerOk, Normal
<1> QED BY <1>1, <1>9, <1>10, <1>11, <1>12, <1>13, OnInvoice

LEMMA RegisterNext ==
  ASSUME IInv, NEW o \in Ops, Register(o)
  PROVE  IInv'
<1>1. Types' /\ ops[o].st = "Leased"
  BY McfTyped DEF IInv, Register
<1>2. PICK i \in Invoices :
           /\ i = ops[o].inv /\ ActiveOps(i) = {o} /\ ops[o].ch = "MCF" /\ ops[o] # NoOp /\ ~Normal(i)
           /\ invoice[i].status # "Normalized" /\ invoice[i].code = 0
           /\ ~InEmcf(i)
           /\ \A w \in Workers : worker[w].inv = i =>
                \/ worker[w].pc = "loaded"
                \/ /\ worker[w].pc \in {"entered", "created", "failed"} /\ HoldsRow(worker[w])
                   /\ ops[o].st = "Queued" /\ o \in worker[w].drop
  BY <1>1, WithMcf
<1>3. mcf' = mcf \cup {o} /\ UNCHANGED <<ops, invoice, logged, emcf, worker>>
  BY DEF Register
<1>4. \A w \in Workers : worker[w].inv = i => worker[w].pc = "loaded"
  BY <1>1, <1>2
<1>5. ActiveOps(i)' = {o}
  BY <1>2, <1>3 DEF ActiveOps
<1>6. Registrations(i) \subseteq {MaxRequests + o}
  <2>1. Registrations(i) = {} \/ InMcf(i)
    BY <1>2 DEF IInv, InvoiceOk
  <2> QED BY <1>2, <2>1 DEF InMcf
<1>7. Registrations(i)' = {MaxRequests + o}
  <2>1. Registrations(i)' = Registrations(i) \cup {MaxRequests + o}
    BY <1>2, <1>3 DEF Registrations, Of
  <2> QED BY <1>6, <2>1
<1>8. Shapes' /\ Alone'
  BY <1>1, <1>2, <1>3 DEF IInv, Shapes, Alone
<1>9. StepOn(i)
  BY <1>2, <1>3 DEF StepOn
<1>10. InvoiceOk(i)'
  <2>1. ~Normal(i)'
    BY <1>2, <1>3 DEF Normal
  <2>2. InMcf(i)'
    BY <1>3, <1>5, <1>7 DEF InMcf
  <2> QED BY <1>1, <1>2, <1>3, <1>5, <1>7, <2>1, <2>2 DEF InvoiceOk
<1>11. \A w \in Workers : worker'[w].inv = i => WorkerOk(worker[w])'
  <2> SUFFICES ASSUME NEW w \in Workers, worker[w].inv = i PROVE WorkerOk(worker[w])'
    BY <1>3
  <2>1. worker[w].pc = "loaded" /\ WorkerOk(worker[w])
    BY <1>4 DEF IInv
  <2> QED BY <1>3, <2>1 DEF WorkerOk, Normal
<1> QED BY <1>1, <1>8, <1>9, <1>10, <1>11, OnInvoice

LEMMA ResultNext ==
  ASSUME IInv, Windows = {}, NEW o \in Ops, Result(o)
  PROVE  IInv'
<1>1. Types' /\ ops[o].st = "Leased"
  BY McfTyped DEF IInv, Result
<1>2. PICK i \in Invoices :
           /\ i = ops[o].inv /\ ActiveOps(i) = {o} /\ ops[o].ch = "MCF" /\ ops[o] # NoOp /\ ~Normal(i)
           /\ invoice[i].status # "Normalized" /\ invoice[i].code = 0
           /\ ~InEmcf(i)
           /\ \A w \in Workers : worker[w].inv = i =>
                \/ worker[w].pc = "loaded"
                \/ /\ worker[w].pc \in {"entered", "created", "failed"} /\ HoldsRow(worker[w])
                   /\ ops[o].st = "Queued" /\ o \in worker[w].drop
  BY <1>1, WithMcf
<1>3. UNCHANGED <<logged, emcf, mcf, worker>>
  BY DEF Result
<1>4. \A w \in Workers : worker[w].inv # i
  BY <1>1, <1>2 DEF Result, Loading, At
<1>5. Registrations(i) = {} \/ (o \in mcf /\ Registrations(i) = {MaxRequests + o})
  <2>1. Registrations(i) = {} \/ InMcf(i)
    BY <1>2 DEF IInv, InvoiceOk
  <2> QED BY <1>2, <2>1 DEF InMcf
<1>6. o \in mcf => MaxRequests + o \in Registrations(i)
  BY <1>2, CodesApart DEF IInv
<1>7. Alone'
  BY <1>3 DEF IInv, Alone
<1>8. ASSUME NEW c \in {0, MaxRequests + o}, NEW s \in {"Normalized", "Rejected"},
             ops' = [ops EXCEPT ![o].st = s],
             \/ s = "Normalized" /\ o \in mcf /\ invoice' = [invoice EXCEPT ![i] = [@ EXCEPT !.status = "Normalized", !.code = MaxRequests + o]]
             \/ s = "Rejected" /\ o \notin mcf /\ invoice' = [invoice EXCEPT ![i].status = "Error"]
      PROVE  IInv'
  <2>1. /\ ops'[o].inv = i /\ ops'[o].ch = "MCF" /\ ops'[o].st = s
        /\ \A p \in Ops : p # o => ops'[p] = ops[p]
    BY <1>2, <1>8 DEF IInv, Types, OpRows
  <2>2. ActiveOps(i)' = {}
    BY <1>2, <2>1 DEF ActiveOps, Active
  <2>3. Registrations(i)' = Registrations(i)
    BY <1>2, <1>3, <2>1, NothingRegistered DEF IInv, Types
  <2>4. /\ s = "Normalized" => invoice'[i].status = "Normalized" /\ invoice'[i].code = MaxRequests + o
        /\ s = "Rejected" => invoice'[i].status = "Error" /\ invoice'[i].code = 0
        /\ \A j \in Invoices : j # i => invoice'[j] = invoice[j]
    <3>1. invoice \in [Invoices -> InvRows]
      BY DEF IInv, Types
    <3>2. CASE s = "Normalized"
      <4>1. invoice' = [invoice EXCEPT ![i] = [@ EXCEPT !.status = "Normalized", !.code = MaxRequests + o]]
        BY <1>8, <3>2
      <4>2. /\ invoice'[i] = [invoice[i] EXCEPT !.status = "Normalized", !.code = MaxRequests + o]
            /\ \A j \in Invoices : j # i => invoice'[j] = invoice[j]
        BY <3>1, <4>1
      <4>3. invoice[i] \in InvRows
        BY <3>1
      <4>4. invoice'[i].status = "Normalized" /\ invoice'[i].code = MaxRequests + o
        BY <4>2, <4>3 DEF InvRows
      <4> QED BY <3>2, <4>2, <4>4
    <3>3. CASE s = "Rejected"
      BY <1>2, <1>8, <3>1, <3>3 DEF InvRows
    <3> QED BY <3>2, <3>3
  <2>5. MaxRequests + o # 0
    BY Bounds DEF Ops
  <2>6. InvoiceOk(i)'
    BY <1>5, <1>6, <1>8, <2>2, <2>3, <2>4, <2>5 DEF InvoiceOk, Normal
  <2>7. Shapes'
    <3>1. OpOk(ops'[o])
      BY <2>1 DEF OpOk
    <3>2. o \in mcf => s = "Normalized"
      BY <1>8
    <3>3. \A p \in mcf : p # o => ops'[p] = ops[p]
      BY <2>1 DEF IInv, Types
    <3> QED BY <1>3, <2>1, <3>1, <3>2, <3>3 DEF IInv, Shapes
  <2>8. StepOn(i)
    <3>1. \A p \in Ops : ops'[p] = ops[p] \/ ((ops[p] = NoOp \/ ops[p].inv = i) /\ ops'[p].inv = i)
      BY <1>2, <2>1
    <3>2. \A p \in Ops : ops[p] = NoOp => ops'[p] = NoOp
      BY <1>2, <2>1
    <3> QED BY <1>3, <2>4, <3>1, <3>2 DEF StepOn
  <2> QED BY <1>1, <1>3, <1>4, <1>7, <2>6, <2>7, <2>8, OnInvoice
<1>9. ASSUME o \notin mcf, FreeOps # {},
             ops' = [ops EXCEPT ![o].st = "Rejected", ![NewOp] = [ops[o] EXCEPT !.st = "Queued"]],
             invoice' = [invoice EXCEPT ![i].status = "Pending"]
      PROVE  IInv'
  <2> DEFINE n == NewOp
  <2>1. n \in Ops /\ ops[n] = NoOp /\ \A w \in Workers : worker[w].op # n
    BY <1>9, NewOpIsFree DEF FreeOps
  <2>2. n # o /\ n \notin mcf
    BY <1>2, <2>1, ChannelsAssumption DEF NoOp, IInv, Shapes, Channels
  <2>3. ops' = [ops EXCEPT ![o].st = "Rejected", ![n] = [ops[o] EXCEPT !.st = "Queued"]]
    BY <1>9
  <2> HIDE DEF n
  <2>4. /\ ops'[o].inv = i /\ ops'[o].ch = "MCF" /\ ops'[o].st = "Rejected"
        /\ ops'[n].inv = i /\ ops'[n].ch = "MCF" /\ ops'[n].st = "Queued"
        /\ \A p \in Ops : p # o /\ p # n => ops'[p] = ops[p]
    BY <1>2, <2>1, <2>2, <2>3 DEF IInv, Types, OpRows
  <2>5. ActiveOps(i)' = {n}
    <3>1. n \in ActiveOps(i)'
      BY <2>1, <2>4 DEF ActiveOps, Active
    <3>2. \A p \in Ops : p # n => p \notin ActiveOps(i)'
      BY <1>2, <2>4 DEF ActiveOps, Active
    <3> QED BY <3>1, <3>2 DEF ActiveOps
  <2>6. \A p \in mcf : ops'[p] = ops[p]
    BY <1>9, <2>2, <2>4 DEF IInv, Types
  <2>7. Registrations(i)' = {}
    <3>1. Registrations(i)' = Registrations(i)
      BY <1>3, <2>6, NothingRegistered
    <3> QED BY <1>5, <1>9, <3>1
  <2>8. /\ invoice'[i].status = "Pending" /\ invoice'[i].code = 0
        /\ \A j \in Invoices : j # i => invoice'[j] = invoice[j]
    BY <1>2, <1>9 DEF IInv, Types, InvRows
  <2>9. InvoiceOk(i)'
    BY <2>5, <2>7, <2>8 DEF InvoiceOk, Normal
  <2>10. Shapes'
    <3>1. OpOk(ops'[o]) /\ OpOk(ops'[n])
      BY <2>4 DEF OpOk
    <3> QED BY <1>3, <2>4, <2>6, <3>1 DEF IInv, Shapes
  <2>11. StepOn(i)
    <3>1. \A p \in Ops : ops'[p] = ops[p] \/ ((ops[p] = NoOp \/ ops[p].inv = i) /\ ops'[p].inv = i)
      BY <1>2, <2>1, <2>4
    <3>2. \A w \in Workers : worker[w].op \in Ops /\ ops[worker[w].op] = NoOp => ops'[worker[w].op] = NoOp
      BY <1>2, <2>1, <2>4
    <3> QED BY <1>3, <2>8, <3>1, <3>2 DEF StepOn
  <2> QED BY <1>1, <1>3, <1>4, <1>7, <2>9, <2>10, <2>11, OnInvoice
<1>10. \/ /\ o \in mcf /\ ops' = [ops EXCEPT ![o].st = "Normalized"]
          /\ invoice' = [invoice EXCEPT ![i] = [@ EXCEPT !.status = "Normalized", !.code = MaxRequests + o]]
       \/ /\ o \notin mcf /\ ops' = [ops EXCEPT ![o].st = "Rejected"]
          /\ invoice' = [invoice EXCEPT ![i].status = "Error"]
       \/ /\ o \notin mcf /\ FreeOps # {}
          /\ ops' = [ops EXCEPT ![o].st = "Rejected", ![NewOp] = [ops[o] EXCEPT !.st = "Queued"]]
          /\ invoice' = [invoice EXCEPT ![i].status = "Pending"]
  BY <1>2 DEF Result
<1> QED BY <1>8, <1>9, <1>10

(* Queued operations are withdrawn: nobody has their invoice, and no worker  *)
(* holds its row.                                                            *)
LEMMA WithdrawNext ==
  ASSUME IInv, Types', NEW D \in SUBSET Ops, Withdraw(D), UNCHANGED <<logged, emcf, mcf, worker>>
  PROVE  IInv'
<1>1. /\ \A o \in D : ops[o].st = "Queued" /\ Unlocked(o) /\ RowFree(ops[o].inv)
      /\ ops' = Drop(D)
      /\ \A i \in Invoices : invoice'[i] = IF \E o \in D : ops[o].inv = i
                                           THEN [invoice[i] EXCEPT !.status = "Pending"] ELSE invoice[i]
  BY DEF Withdraw
<1>2. /\ \A o \in Ops : o \notin D => ops'[o] = ops[o]
      /\ \A o \in Ops : ops'[o].inv = ops[o].inv /\ ops'[o].ch = ops[o].ch
      /\ \A o \in D : ops'[o].st = "Cancelled"
  BY <1>1, DropTyped DEF IInv
<1>3. \A o \in D : o \notin mcf
  BY <1>1 DEF IInv, Shapes
<1>4. ASSUME NEW i \in Invoices PROVE Registrations(i)' = Registrations(i)
  BY <1>2, NothingRegistered DEF IInv, Types
<1>5. Shapes'
  <2>1. \A o \in D : OpOk(ops'[o])
    <3>1. \A o \in D : ops[o] # NoOp
      BY <1>1 DEF NoOp
    <3> QED BY <1>1, <1>2, <3>1 DEF OpOk, IInv, Shapes
  <2>2. \A o \in mcf : ops'[o] = ops[o]
    BY <1>2, <1>3 DEF IInv, Types
  <2> QED BY <1>2, <2>1, <2>2 DEF IInv, Shapes
<1>6. Alone'
  BY DEF IInv, Alone
(* The invoices of the operations withdrawn.                                *)
<1>7. ASSUME NEW o \in D, NEW i \in Invoices, ops[o].inv = i
      PROVE  /\ InvoiceOk(i)'
             /\ \A w \in Workers : worker[w].inv = i => WorkerOk(worker[w])'
  <2>1. /\ ActiveOps(i) = {o} /\ ~Normal(i) /\ invoice[i].code = 0
        /\ \A w \in Workers : worker[w].inv = i => worker[w].pc = "loaded"
    <3>1. ops[o].st \in {"Queued", "Leased"} /\ \A w \in Workers : o \notin worker[w].drop
      BY <1>1 DEF Unlocked
    <3> QED BY <1>7, <3>1, WithMcf
  <2>2. ActiveOps(i)' = {}
    BY <1>2, <2>1 DEF ActiveOps, Active
  <2>3. Registrations(i) = {}
    BY <1>1, <2>1 DEF IInv, InvoiceOk
  <2>4. invoice'[i].status = "Pending" /\ invoice'[i].code = 0 /\ invoice'[i].uid = invoice[i].uid
    <3>1. invoice[i] \in InvRows
      BY DEF IInv, Types
    <3>2. invoice'[i] = [invoice[i] EXCEPT !.status = "Pending"]
      BY <1>1, <1>7
    <3> QED BY <2>1, <3>1, <3>2 DEF InvRows
  <2>5. ~Normal(i)'
    BY <2>4 DEF Normal
  <2>6. InvoiceOk(i)'
    BY <1>4, <2>2, <2>3, <2>4, <2>5 DEF InvoiceOk
  <2>7. ASSUME NEW w \in Workers, worker[w].inv = i PROVE WorkerOk(worker[w])'
    <3>1. worker[w].pc = "loaded" /\ WorkerOk(worker[w]) /\ worker'[w] = worker[w]
      BY <2>1, <2>7 DEF IInv
    <3> QED BY <2>4, <2>5, <2>7, <3>1 DEF WorkerOk
  <2> QED BY <2>6, <2>7
(* The others.                                                              *)
<1>8. ASSUME NEW i \in Invoices, \A o \in D : ops[o].inv # i
      PROVE  Same(i) /\ InvoiceOk(i)'
  <2>1. Same(i)
    <3>1. ActiveOps(i)' = ActiveOps(i) /\ \A o \in ActiveOps(i) : ops'[o] = ops[o]
      BY <1>2, <1>8 DEF ActiveOps
    <3>2. invoice'[i] = invoice[i]
      BY <1>1, <1>8
    <3> QED BY <1>4, <3>1, <3>2 DEF Same
  <2> QED BY <2>1, InvoiceKept DEF IInv
<1>9. \A i \in Invoices : InvoiceOk(i)'
  BY <1>7, <1>8
<1>10. ASSUME NEW w \in Workers PROVE WorkerOk(worker[w])'
  <2> DEFINE x == worker[w]
  <2>1. CASE \E o \in D : ops[o].inv = x.inv /\ x.inv \in Invoices
    BY <1>7, <2>1
  <2>2. CASE ~ \E o \in D : ops[o].inv = x.inv /\ x.inv \in Invoices
    <3>1. x.inv \in Invoices => Same(x.inv)
      BY <1>8, <2>2
    <3>2. WorkerOk(x) /\ Holds(x) /\ x = worker[w] /\ x = worker'[w]
      BY DEF IInv, Types
    <3>3. x.op \in Ops => (ops[x.op] = NoOp => ops'[x.op] = NoOp) /\ (ops[x.op].inv = x.inv => ops'[x.op].inv = x.inv)
      <4>1. \A o \in D : ops[o] # NoOp
        BY <1>1 DEF NoOp
      <4> QED BY <1>2, <4>1
    <3>4. x.uid \in Requests /\ emcf[x.uid].inv = x.inv =>
            /\ emcf'[x.uid].inv = x.inv
            /\ emcf[x.uid].st \in Unconfirmed => emcf'[x.uid].st \in Unconfirmed
      OBVIOUS
    <3> HIDE DEF x
    <3> QED BY <3>1, <3>2, <3>3, <3>4, WorkerKept
  <2> QED BY <2>1, <2>2
<1> QED BY <1>5, <1>6, <1>9, <1>10 DEF IInv

LEMMA DecisionsNext ==
  ASSUME IInv,
         \/ \E o \in Ops : StaleQueue(o)
         \/ \E to \in {None, OtherChannel(Priority)} : Switch(to)
         \/ RerouteQueued
  PROVE  IInv'
<1>1. Types'
  BY DecisionsTyped DEF IInv
<1>2. UNCHANGED <<logged, emcf, mcf, worker>>
  BY DEF StaleQueue, Switch, RerouteQueued
<1>3. \E D \in SUBSET Ops : Withdraw(D)
  <2>1. CASE \E o \in Ops : StaleQueue(o)
    <3>1. PICK o \in Ops : StaleQueue(o)
      BY <2>1
    <3>2. {o} \in SUBSET Ops /\ Withdraw({o})
      BY <3>1 DEF StaleQueue
    <3> QED BY <3>2
  <2>2. CASE \E to \in {None, OtherChannel(Priority)} : Switch(to)
    BY <2>2 DEF Switch
  <2>3. CASE RerouteQueued
    <3>1. QueuedFallback \in SUBSET Ops
      BY DEF QueuedFallback
    <3> QED BY <2>3, <3>1 DEF RerouteQueued
  <2> QED BY <2>1, <2>2, <2>3
<1> QED BY <1>1, <1>2, <1>3, WithdrawNext

LEMMA StationNext == ASSUME IInv, Station \/ Deactivate \/ UNCHANGED vars PROVE IInv'
<1>1. Types'
  <2>1. CASE Station \/ Deactivate
    BY <2>1, DecisionsTyped DEF IInv
  <2>2. CASE UNCHANGED vars
    BY <2>2 DEF vars, IInv, Types
  <2> QED BY <2>1, <2>2
<1>2. UNCHANGED <<ops, invoice, logged, emcf, mcf, worker>>
  BY DEF Station, Deactivate, vars
<1>3. \A j \in Invoices : Same(j)
  BY <1>2 DEF Same, ActiveOps, Registrations, Of
<1>4. \A j \in Invoices : InvoiceOk(j)'
  BY <1>2, <1>3, InvoiceKept DEF IInv
<1>5. ASSUME NEW w \in Workers PROVE WorkerOk(worker[w])'
  <2> DEFINE x == worker[w]
  <2>1. WorkerOk(x) /\ Holds(x) /\ x = worker[w] /\ x = worker'[w]
    BY <1>2 DEF IInv, Types
  <2>2. x.op \in Ops => (ops[x.op] = NoOp => ops'[x.op] = NoOp) /\ (ops[x.op].inv = x.inv => ops'[x.op].inv = x.inv)
    BY <1>2
  <2>3. x.uid \in Requests /\ emcf[x.uid].inv = x.inv =>
          /\ emcf'[x.uid].inv = x.inv
          /\ emcf[x.uid].st \in Unconfirmed => emcf'[x.uid].st \in Unconfirmed
    BY <1>2
  <2> HIDE DEF x
  <2> QED BY <1>2, <1>3, <2>1, <2>2, <2>3, WorkerKept
<1>6. Shapes' /\ Alone'
  BY <1>2 DEF IInv, Shapes, Alone
<1> QED BY <1>1, <1>4, <1>5, <1>6 DEF IInv

LEMMA ReleaseNext ==
  ASSUME IInv, Windows = {}, NEW i \in Invoices, Release(i)
  PROVE  IInv'
<1> DEFINE D == {o \in Ops : ops[o].inv = i /\ ops[o].ch = "e-MCF" /\ ops[o].st \in Active}
<1>1. Types'
  BY DecisionsTyped DEF IInv
<1>2. /\ invoice[i].uid # 0 /\ invoice[i].status # "Normalized" /\ invoice[i].code = 0
      /\ Of(i, "confirmed") = {} /\ \A w \in Workers : worker[w].inv # i
      /\ invoice' = [invoice EXCEPT ![i].uid = 0, ![i].status = "Pending"]
      /\ ops' = Drop(D)
      /\ UNCHANGED <<logged, emcf, mcf, worker>>
  BY DEF Release, BusyOn
<1>3. D \subseteq ActiveOps(i) /\ \A o \in D : ops[o].inv = i /\ ops[o].ch = "e-MCF" /\ o \in Ops /\ ops[o] # NoOp
  BY DEF ActiveOps, NoOp, Active
<1>4. /\ \A o \in Ops : o \notin D => ops'[o] = ops[o]
      /\ \A o \in D : ops'[o].inv = i /\ ops'[o].ch = "e-MCF" /\ ops'[o].st = "Cancelled"
  BY <1>2, <1>3, DropTyped DEF IInv
<1> HIDE DEF D
<1>5. ~Normal(i) /\ ~InEmcf(i)
  <2>1. \A u \in Requests : u \notin Registrations(i)
    BY <1>2, CodesApart DEF Of, IInv
  <2> QED BY <1>2, <2>1 DEF Normal, InEmcf
<1>6. \A o \in D : o \notin mcf
  BY <1>3 DEF IInv, Shapes
<1>7. \A o \in mcf : ops'[o] = ops[o]
  BY <1>4, <1>6 DEF IInv, Types
<1>8. Registrations(i)' = Registrations(i)
  BY <1>2, <1>7, NothingRegistered
<1>9. ActiveOps(i)' = ActiveOps(i) \ D
  BY <1>3, <1>4 DEF ActiveOps, Active
<1>10. /\ invoice'[i].code = 0 /\ invoice'[i].status = "Pending"
       /\ \A j \in Invoices : j # i => invoice'[j] = invoice[j]
  BY <1>2 DEF IInv, Types, InvRows
<1>11. InvoiceOk(i)'
  <2>1. ~Normal(i)'
    BY <1>10 DEF Normal
  <2>2. InvoiceOk(i)
    BY DEF IInv
  <2>3. \A o \in ActiveOps(i)' : o \in ActiveOps(i) /\ ops'[o] = ops[o]
    BY <1>4, <1>9 DEF ActiveOps
  <2>4. InMcf(i) => InMcf(i)'
    BY <1>2, <1>6, <1>8, <1>9 DEF InMcf
  <2> QED BY <1>5, <1>8, <1>10, <2>1, <2>2, <2>3, <2>4 DEF InvoiceOk
<1>12. Shapes'
  <2>1. \A o \in D : OpOk(ops'[o])
    BY <1>4 DEF OpOk
  <2> QED BY <1>2, <1>4, <1>7, <2>1 DEF IInv, Shapes
<1>13. Alone'
  BY <1>2 DEF IInv, Alone
<1>14. StepOn(i)
  BY <1>2, <1>3, <1>4, <1>10 DEF StepOn
<1> QED BY <1>1, <1>2, <1>11, <1>12, <1>13, <1>14, OnInvoice

LEMMA IInvNext == Windows = {} /\ IInv /\ [Next]_vars => IInv'
<1> SUFFICES ASSUME Windows = {}, IInv, [Next]_vars PROVE IInv'
  OBVIOUS
<1>1. CASE \E w \in Workers :
             \/ \E i \in Invoices : Begin(w, i)
             \/ Enter(w) \/ Create(w) \/ NotReceived(w) \/ Fails(w) \/ TakeOver(w) \/ Invalid(w)
             \/ KeepUid(w) \/ Differs(w) \/ Confirm(w) \/ Record(w) \/ Finish(w) \/ Raises(w) \/ Crash(w)
  BY <1>1, BeginNext, EnterNext, CreateNext, NotReceivedNext, FailsNext, TakeOverNext, InvalidNext,
     KeepUidNext, DiffersNext, ConfirmNext, RecordNext, FinishNext, RaisesNext, CrashNext
<1>2. CASE \E u \in Requests : Expire(u)
  BY <1>2, ExpireNext
<1>3. CASE \E o \in Ops : Lease(o) \/ Register(o) \/ Result(o)
  BY <1>3, LeaseNext, RegisterNext, ResultNext
<1>4. CASE \E i \in Invoices : Release(i)
  BY <1>4, ReleaseNext
<1>5. CASE \/ \E o \in Ops : StaleQueue(o)
           \/ \E to \in {None, OtherChannel(Priority)} : Switch(to)
           \/ RerouteQueued
  BY <1>5, DecisionsNext
<1>6. CASE Station \/ Deactivate \/ UNCHANGED vars
  BY <1>6, StationNext
<1> QED BY <1>1, <1>2, <1>3, <1>4, <1>5, <1>6 DEF Next

LEMMA Invariant == ASSUME Windows = {} PROVE Spec => []IInv
<1>1. Init => IInv
  BY IInvInit
<1>2. IInv /\ [Next]_vars => IInv'
  BY IInvNext
<1> QED BY <1>1, <1>2, PTL DEF Spec

----
(* What follows from it.                                                    *)

LEMMA AtMostOne ==
  ASSUME NEW S, \A x, y \in S : x = y
  PROVE  Cardinality(S) <= 1
<1>1. CASE S = {}
  BY <1>1, FS_EmptySet
<1>2. CASE S # {}
  <2>1. PICK x : S = {x}
    BY <1>2
  <2> QED BY <2>1, FS_Singleton
<1> QED BY <1>1, <1>2

LEMMA RegisteredOnce == IInv => OneRegistration
<1> SUFFICES ASSUME IInv, NEW i \in Invoices PROVE Cardinality(Registrations(i)) <= 1
  BY DEF OneRegistration
<1>1. Registrations(i) = {} \/ \E c : Registrations(i) = {c}
  BY DEF IInv, InvoiceOk, InMcf, InEmcf
<1>2. \A x, y \in Registrations(i) : x = y
  BY <1>1
<1> QED BY <1>2, AtMostOne

(* Whatever is lost, refused, rerouted or switched, the two channels         *)
(* together register an invoice once, where none of Openings is open.        *)
THEOREM RegistrationCorrect == ASSUME Windows = {} PROVE Spec => []OneRegistration
BY Invariant, RegisteredOnce, PTL

----
(* What a step does to the operations, to the security codes of the         *)
(* invoices and to what is registered.                                      *)

RowKept(o) ==
  /\ ops[o] # NoOp => ops'[o].inv = ops[o].inv
  /\ ops'[o].st = "Rejected" => ops[o].st = "Rejected"

NoneConfirmed ==
  /\ mcf' = mcf
  /\ \A u \in Requests : emcf'[u] = emcf[u] \/ (emcf[u].st # "confirmed" /\ emcf'[u].st # "confirmed")

NoneStamped == \A i \in Invoices : invoice'[i].code = invoice[i].code

Quiet == NoneConfirmed /\ NoneStamped /\ \A o \in Ops : RowKept(o)

LEMMA StatusOnly ==
  ASSUME Types, NEW i \in Invoices,
         \/ UNCHANGED invoice
         \/ \E s, u : \/ invoice' = [invoice EXCEPT ![i].status = s]
                      \/ invoice' = [invoice EXCEPT ![i].uid = u]
                      \/ invoice' = [invoice EXCEPT ![i].status = s, ![i].uid = u]
                      \/ invoice' = [invoice EXCEPT ![i].uid = u, ![i].status = s]
  PROVE  NoneStamped
<1>1. invoice \in [Invoices -> InvRows] /\ invoice[i] \in InvRows
  BY DEF Types
<1>2. ASSUME NEW s, invoice' = [invoice EXCEPT ![i].status = s] PROVE NoneStamped
  <2>1. invoice'[i] = [invoice[i] EXCEPT !.status = s] /\ \A j \in Invoices : j # i => invoice'[j] = invoice[j]
    BY <1>1, <1>2
  <2>2. invoice'[i].code = invoice[i].code
    BY <1>1, <2>1 DEF InvRows
  <2> QED BY <2>1, <2>2 DEF NoneStamped
<1>3. ASSUME NEW u, invoice' = [invoice EXCEPT ![i].uid = u] PROVE NoneStamped
  <2>1. invoice'[i] = [invoice[i] EXCEPT !.uid = u] /\ \A j \in Invoices : j # i => invoice'[j] = invoice[j]
    BY <1>1, <1>3
  <2>2. invoice'[i].code = invoice[i].code
    BY <1>1, <2>1 DEF InvRows
  <2> QED BY <2>1, <2>2 DEF NoneStamped
<1>4. ASSUME NEW s, NEW u, invoice' = [invoice EXCEPT ![i].status = s, ![i].uid = u] PROVE NoneStamped
  <2>1. invoice'[i] = [invoice[i] EXCEPT !.status = s, !.uid = u] /\ \A j \in Invoices : j # i => invoice'[j] = invoice[j]
    BY <1>1, <1>4
  <2>2. invoice'[i].code = invoice[i].code
    BY <1>1, <2>1 DEF InvRows
  <2> QED BY <2>1, <2>2 DEF NoneStamped
<1>5. ASSUME NEW s, NEW u, invoice' = [invoice EXCEPT ![i].uid = u, ![i].status = s] PROVE NoneStamped
  <2>1. invoice'[i] = [invoice[i] EXCEPT !.uid = u, !.status = s] /\ \A j \in Invoices : j # i => invoice'[j] = invoice[j]
    BY <1>1, <1>5
  <2>2. invoice'[i].code = invoice[i].code
    BY <1>1, <2>1 DEF InvRows
  <2> QED BY <2>1, <2>2 DEF NoneStamped
<1>6. CASE UNCHANGED invoice
  BY <1>6 DEF NoneStamped
<1> QED BY <1>2, <1>3, <1>4, <1>5, <1>6

LEMMA DropKeeps == ASSUME Types, NEW D, ops' = Drop(D) PROVE \A o \in Ops : RowKept(o)
<1> TAKE o \in Ops
<1>1. ops'[o].inv = ops[o].inv /\ (o \in D => ops'[o].st = "Cancelled") /\ (o \notin D => ops'[o] = ops[o])
  BY DropTyped
<1> QED BY <1>1 DEF RowKept

LEMMA QueueKeeps ==
  ASSUME Types, NEW i \in Invoices, NEW D, NEW f, QueueMcf(i, D, f)
  PROVE  NoneStamped /\ \A o \in Ops : RowKept(o)
<1>1. CASE ActiveOps(i) \ D # {}
  BY <1>1, DropKeeps DEF QueueMcf, NoneStamped
<1>2. CASE ActiveOps(i) \ D = {}
  <2> DEFINE n == NewOp
             r == [inv |-> i, ch |-> "MCF", st |-> "Queued", sent |-> FALSE, fallback |-> f]
  <2>1. /\ n \in Ops /\ ops[n] = NoOp /\ ops' = [Drop(D) EXCEPT ![n] = r]
        /\ invoice' = [invoice EXCEPT ![i].status = "Pending"]
    BY <1>2, NewOpIsFree DEF QueueMcf
  <2>2. r.st = "Queued"
    OBVIOUS
  <2> HIDE DEF n, r
  <2>3. ops'[n] = r /\ \A o \in Ops : o # n => ops'[o] = Drop(D)[o]
    BY <2>1, DropTyped
  <2>4. RowKept(n)
    BY <2>1, <2>2, <2>3 DEF RowKept
  <2>5. ASSUME NEW o \in Ops, o # n PROVE RowKept(o)
    <3>1. Drop(D)[o].inv = ops[o].inv /\ (o \in D => Drop(D)[o].st = "Cancelled") /\ (o \notin D => Drop(D)[o] = ops[o])
      BY DropTyped
    <3> QED BY <2>3, <2>5, <3>1 DEF RowKept
  <2> QED BY <2>1, <2>4, <2>5, StatusOnly
<1> QED BY <1>1, <1>2

LEMMA CommitKeeps ==
  ASSUME Types, NEW w \in Workers, NEW st \in {"None", "Cancelled"}, worker[w].op \in Ops, worker[w].inv \in Invoices,
         ops' = Committed(w, st)
  PROVE  \A o \in Ops : RowKept(o)
<1> DEFINE op == worker[w].op
           D  == worker[w].drop
<1>1. RowKept(op)
  BY CommittedTyped DEF RowKept
<1>2. ASSUME NEW o \in Ops, o # op PROVE RowKept(o)
  <2>1. ops'[o] = Drop(D)[o]
    BY <1>2, CommittedTyped
  <2>2. Drop(D)[o].inv = ops[o].inv /\ (o \in D => Drop(D)[o].st = "Cancelled") /\ (o \notin D => Drop(D)[o] = ops[o])
    BY DropTyped
  <2> QED BY <2>1, <2>2 DEF RowKept
<1> QED BY <1>1, <1>2

LEMMA CancelConfirmsNone ==
  ASSUME Types, NEW u \in Requests, emcf' = [emcf EXCEPT ![u].st = IF @ = "pending" THEN "closed" ELSE @] \/ UNCHANGED emcf,
         UNCHANGED mcf
  PROVE  NoneConfirmed
BY DEF NoneConfirmed, Types, ReqRows

(* All the steps but the CONFIRM, its record, the registration by the MCF,   *)
(* its result and the end of an attempt.                                     *)
LEMMA QuietWorkers ==
  ASSUME Types, NEW w \in Workers,
         \/ \E i \in Invoices : Begin(w, i)
         \/ Enter(w) \/ Create(w) \/ NotReceived(w) \/ Fails(w) \/ TakeOver(w) \/ Invalid(w)
         \/ KeepUid(w) \/ Differs(w) \/ Crash(w)
  PROVE  Quiet
<1>1. UNCHANGED ops => \A o \in Ops : RowKept(o)
  BY DEF RowKept
<1>2. UNCHANGED invoice => NoneStamped
  BY DEF NoneStamped
<1>3. UNCHANGED <<emcf, mcf>> => NoneConfirmed
  BY DEF NoneConfirmed
<1>4. worker[w].pc \notin {"idle", "loaded"} => worker[w].inv \in Invoices /\ worker[w].op \in Ops
  BY RowOfWorker DEF Holds
<1>5. CASE (\E i \in Invoices : Begin(w, i)) \/ Crash(w)
  BY <1>1, <1>2, <1>3, <1>5 DEF Begin, Crash, Quiet
<1>6. CASE Enter(w)
  <2>1. worker[w].inv \in Invoices
    BY <1>6, RowOfWorker DEF Enter, At, Holds
  <2>2. \/ UNCHANGED <<ops, invoice>>
        \/ \E D, f : QueueMcf(worker[w].inv, D, f)
    BY <1>6 DEF Enter, Inv
  <2>3. UNCHANGED <<emcf, mcf>>
    BY <1>6 DEF Enter
  <2> QED BY <1>1, <1>2, <1>3, <2>1, <2>2, <2>3, QueueKeeps DEF Quiet
<1>7. CASE TakeOver(w)
  <2>1. worker[w].inv \in Invoices
    BY <1>4, <1>7 DEF TakeOver, At
  <2>2. QueueMcf(worker[w].inv, {}, TRUE) /\ UNCHANGED <<emcf, mcf>>
    BY <1>7 DEF TakeOver, Inv
  <2> QED BY <1>3, <2>1, <2>2, QueueKeeps DEF Quiet
<1>8. CASE Create(w)
  <2>1. UNCHANGED emcf \/ Posted(worker[w].inv)
    BY <1>8 DEF Create, Post, Inv
  <2>2. ASSUME Posted(worker[w].inv), UNCHANGED mcf PROVE NoneConfirmed
    <3>1. FreshUid \in Requests /\ emcf[FreshUid] = NoRequest
      BY <2>2, FreshUidIsFresh DEF Posted
    <3>2. emcf' = [emcf EXCEPT ![FreshUid] = [inv |-> worker[w].inv, st |-> "pending"]]
      BY <2>2 DEF Posted
    <3> QED BY <2>2, <3>1, <3>2 DEF NoneConfirmed, Types, NoRequest
  <2>3. UNCHANGED <<ops, invoice, mcf>>
    BY <1>8 DEF Create
  <2> QED BY <1>1, <1>2, <1>3, <2>1, <2>2, <2>3 DEF Quiet
<1>9. CASE NotReceived(w) \/ Fails(w) \/ Invalid(w) \/ KeepUid(w)
  <2>1. PICK st \in {"None", "Cancelled"} : ops' = Committed(w, st)
    BY <1>9 DEF NotReceived, Fails, Invalid, KeepUid
  <2>2. UNCHANGED <<emcf, mcf>> /\ worker[w].inv \in Invoices /\ worker[w].op \in Ops
    BY <1>4, <1>9 DEF NotReceived, Fails, Invalid, KeepUid, At
  <2>3. \E s, u : \/ invoice' = [invoice EXCEPT ![worker[w].inv].status = s]
                  \/ invoice' = [invoice EXCEPT ![worker[w].inv].uid = u]
                  \/ invoice' = [invoice EXCEPT ![worker[w].inv].status = s, ![worker[w].inv].uid = u]
    BY <1>9 DEF NotReceived, Fails, Invalid, KeepUid, Inv
  <2>4. NoneStamped
    BY <2>2, <2>3, StatusOnly
  <2> QED BY <1>3, <2>1, <2>2, <2>4, CommitKeeps DEF Quiet
<1>10. CASE Differs(w)
  <2>1. /\ worker[w].inv \in Invoices /\ worker[w].uid \in Requests /\ UNCHANGED <<ops, mcf>>
        /\ Cancel(worker[w].uid)
        /\ invoice' = [invoice EXCEPT ![worker[w].inv].uid = 0, ![worker[w].inv].status = "Error"]
    BY <1>4, <1>10, RowOfWorker DEF Differs, At, Inv, Holds
  <2>2. NoneConfirmed
    BY <2>1, CancelConfirmsNone DEF Cancel
  <2> QED BY <1>1, <2>1, <2>2, StatusOnly DEF Quiet
<1> QED BY <1>5, <1>6, <1>7, <1>8, <1>9, <1>10

LEMMA QuietOthers ==
  ASSUME Types,
         \/ \E u \in Requests : Expire(u)
         \/ \E o \in Ops : Lease(o) \/ StaleQueue(o)
         \/ \E i \in Invoices : Release(i)
         \/ \E to \in {None, OtherChannel(Priority)} : Switch(to)
         \/ Station \/ Deactivate \/ RerouteQueued \/ UNCHANGED vars
  PROVE  Quiet
<1>1. UNCHANGED ops => \A o \in Ops : RowKept(o)
  BY DEF RowKept
<1>2. UNCHANGED invoice => NoneStamped
  BY DEF NoneStamped
<1>3. UNCHANGED <<emcf, mcf>> => NoneConfirmed
  BY DEF NoneConfirmed
<1>4. CASE Station \/ Deactivate \/ UNCHANGED vars
  BY <1>1, <1>2, <1>3, <1>4 DEF Station, Deactivate, vars, Quiet
<1>5. CASE \E u \in Requests : Expire(u)
  <2>1. PICK u \in Requests : emcf[u].st = "pending" /\ emcf' = [emcf EXCEPT ![u].st = "closed"]
                              /\ UNCHANGED <<ops, invoice, mcf>>
    BY <1>5 DEF Expire
  <2>2. NoneConfirmed
    BY <2>1 DEF NoneConfirmed, Types, ReqRows
  <2> QED BY <1>1, <1>2, <2>1, <2>2 DEF Quiet
<1>6. CASE \E o \in Ops : Lease(o)
  <2>1. PICK o \in Ops : ops' = [ops EXCEPT ![o].st = "Leased"]
    BY <1>6 DEF Lease
  <2>2. \A p \in Ops : RowKept(p)
    BY <2>1 DEF RowKept, Types, OpRows
  <2>3. UNCHANGED <<invoice, emcf, mcf>>
    BY <1>6 DEF Lease
  <2> QED BY <1>2, <1>3, <2>2, <2>3 DEF Quiet
<1>7. CASE \E i \in Invoices : Release(i)
  <2>1. PICK i \in Invoices : Release(i)
    BY <1>7
  <2>2. NoneStamped
    BY <2>1, StatusOnly DEF Release
  <2> QED BY <1>3, <2>1, <2>2, DropKeeps DEF Release, Quiet
<1>8. CASE \/ \E o \in Ops : StaleQueue(o)
           \/ \E to \in {None, OtherChannel(Priority)} : Switch(to)
           \/ RerouteQueued
  <2>1. PICK D : Withdraw(D)
    BY <1>8 DEF StaleQueue, Switch, RerouteQueued
  <2>2. UNCHANGED <<emcf, mcf>>
    BY <1>8 DEF StaleQueue, Switch, RerouteQueued
  <2>3. \A i \in Invoices : [invoice[i] EXCEPT !.status = "Pending"].code = invoice[i].code
    BY DEF Types, InvRows
  <2>4. NoneStamped
    BY <2>1, <2>3 DEF Withdraw, NoneStamped
  <2>5. ops' = Drop(D)
    BY <2>1 DEF Withdraw
  <2> QED BY <1>3, <2>2, <2>4, <2>5, DropKeeps DEF Quiet
<1> QED BY <1>4, <1>5, <1>6, <1>7, <1>8

----
(* A refusal is proven, and what is queued again is in no doubt.            *)

RejectsProven ==
  \A o \in Ops, i \in Invoices :
    ops'[o].inv = i /\ ops'[o].st = "Rejected" /\ ops[o].st # "Rejected" => Registrations(i)' = {}

(* What a step that confirms nothing leaves of the registrations.           *)
LEMMA RegistrationsKept ==
  ASSUME IInv, NoneConfirmed, \A o \in Ops : ops[o] # NoOp => ops'[o].inv = ops[o].inv
  PROVE  \A i \in Invoices : Registrations(i)' = Registrations(i)
<1> TAKE i \in Invoices
<1>1. \A o \in mcf : ops'[o].inv = ops[o].inv
  BY DEF IInv, Shapes, Types, NoOp
<1> QED BY <1>1, NothingRegistered DEF NoneConfirmed

LEMMA FinishRejects ==
  ASSUME IInv, NEW w \in Workers, Finish(w)
  PROVE  RejectsProven /\ NoneConfirmed /\ NoneStamped /\ \A o \in Ops : ops[o] # NoOp => ops'[o].inv = ops[o].inv
<1>1. worker[w].pc = "finish"
  BY DEF Finish, At
<1>2. PICK i \in Invoices, op \in Ops :
           /\ i = worker[w].inv /\ op = worker[w].op /\ worker[w].drop = {} /\ ActiveOps(i) = {op}
           /\ ops[op].ch = "e-MCF" /\ ops[op].inv = i /\ ops[op].st \in {"Pending", "Uncertain"}
           /\ op \notin mcf /\ ~InMcf(i)
           /\ invoice[i] \in InvRows /\ worker[w] \in WorkerRows
  BY <1>1, AttemptFacts
<1>3. \/ worker[w].out = "ok" /\ Normal(i)
      \/ worker[w].out = "lost" /\ ~Normal(i)
      \/ worker[w].out \in {"refused", "unavailable"} /\ ~Normal(i) /\ Registrations(i) = {}
  BY <1>1, <1>2 DEF IInv, WorkerOk
<1>4. UNCHANGED <<invoice, emcf, mcf>>
  BY DEF Finish
<1>5. /\ ops'[op].inv = i /\ ops'[op].st = Closed(w)
      /\ \A o \in Ops : o # op => ops'[o] = ops[o]
  BY <1>2 DEF Finish, IInv, Types, OpRows
<1>6. Closed(w) = "Rejected" => Registrations(i) = {}
  BY <1>2, <1>3 DEF Closed, Inv
<1>7. NoneConfirmed /\ NoneStamped
  BY <1>4 DEF NoneConfirmed, NoneStamped
<1>8. \A o \in Ops : ops[o] # NoOp => ops'[o].inv = ops[o].inv
  BY <1>2, <1>5
<1>9. \A j \in Invoices : Registrations(j)' = Registrations(j)
  BY <1>7, <1>8, RegistrationsKept
<1>10. RejectsProven
  BY <1>5, <1>6, <1>9 DEF RejectsProven
<1> QED BY <1>7, <1>8, <1>10

LEMMA RaisesRejects ==
  ASSUME IInv, Windows = {}, NEW w \in Workers, Raises(w)
  PROVE  RejectsProven /\ NoneConfirmed /\ NoneStamped /\ \A o \in Ops : ops[o] # NoOp => ops'[o].inv = ops[o].inv
<1>1. PICK i \in Invoices, op \in Ops :
        /\ i = worker[w].inv /\ op = worker[w].op /\ ~Normal(i)
        /\ Commits(i, op, "Rejected") /\ Registrations(i) = {}
  BY RaisedFacts
<1>2. NoneConfirmed /\ NoneStamped
  BY DEF Raises, NoneConfirmed, NoneStamped
<1>3. \A o \in Ops : ops'[o] = ops[o] \/ ((ops[o] = NoOp \/ ops[o].inv = i) /\ ops'[o].inv = i)
  BY <1>1 DEF Commits
<1>4. \A o \in Ops : ops[o] # NoOp => ops'[o].inv = ops[o].inv
  BY <1>3
<1>5. RejectsProven
  BY <1>1, <1>3 DEF RejectsProven, Commits
<1> QED BY <1>2, <1>4, <1>5

LEMMA ResultRejects ==
  ASSUME IInv, NEW o \in Ops, Result(o)
  PROVE  /\ RejectsProven /\ NoneConfirmed /\ \A p \in Ops : ops[p] # NoOp => ops'[p].inv = ops[p].inv
         /\ \/ NoneStamped
            \/ \E i \in Invoices :
                 /\ invoice[i].code = 0 /\ invoice'[i].code \in Registrations(i)
                 /\ \A j \in Invoices : j # i => invoice'[j] = invoice[j]
<1>1. ops[o].st = "Leased"
  BY DEF Result
<1>2. PICK i \in Invoices :
           /\ i = ops[o].inv /\ ActiveOps(i) = {o} /\ ops[o].ch = "MCF" /\ ops[o] # NoOp /\ ~Normal(i)
           /\ invoice[i].status # "Normalized" /\ invoice[i].code = 0
           /\ ~InEmcf(i)
           /\ \A w \in Workers : worker[w].inv = i =>
                \/ worker[w].pc = "loaded"
                \/ /\ worker[w].pc \in {"entered", "created", "failed"} /\ HoldsRow(worker[w])
                   /\ ops[o].st = "Queued" /\ o \in worker[w].drop
  BY <1>1, WithMcf
<1>3. NoneConfirmed /\ ops \in [Ops -> OpRows] /\ Types
  BY DEF Result, NoneConfirmed, IInv, Types
<1>4. o \notin mcf => Registrations(i) = {}
  BY <1>2 DEF IInv, InvoiceOk, InMcf
<1>5. o \in mcf => MaxRequests + o \in Registrations(i)
  BY <1>2, CodesApart DEF IInv
<1>6. CASE /\ o \in mcf /\ ops' = [ops EXCEPT ![o].st = "Normalized"]
           /\ invoice' = [invoice EXCEPT ![i] = [@ EXCEPT !.status = "Normalized", !.code = MaxRequests + o]]
  <2>1. ops'[o].inv = i /\ ops'[o].st = "Normalized" /\ \A p \in Ops : p # o => ops'[p] = ops[p]
    BY <1>2, <1>3, <1>6 DEF OpRows
  <2>2. RejectsProven
    BY <2>1 DEF RejectsProven
  <2>3. /\ invoice'[i] = [invoice[i] EXCEPT !.status = "Normalized", !.code = MaxRequests + o]
        /\ \A j \in Invoices : j # i => invoice'[j] = invoice[j]
    BY <1>3, <1>6 DEF Types
  <2>4. invoice[i] \in InvRows
    BY <1>3 DEF Types
  <2>5. invoice'[i].code = MaxRequests + o
    BY <2>3, <2>4 DEF InvRows
  <2> QED BY <1>2, <1>3, <1>5, <1>6, <2>1, <2>2, <2>3, <2>5
<1>7. CASE /\ o \notin mcf /\ ops' = [ops EXCEPT ![o].st = "Rejected"]
           /\ invoice' = [invoice EXCEPT ![i].status = "Error"]
  <2>1. ops'[o].inv = i /\ \A p \in Ops : p # o => ops'[p] = ops[p]
    BY <1>2, <1>3, <1>7 DEF OpRows
  <2>2. \A p \in Ops : ops[p] # NoOp => ops'[p].inv = ops[p].inv
    BY <1>2, <2>1
  <2>3. Registrations(i)' = {}
    BY <1>3, <1>4, <1>7, <2>2, RegistrationsKept
  <2>4. RejectsProven
    BY <2>1, <2>3 DEF RejectsProven
  <2>5. NoneStamped
    BY <1>3, <1>7, StatusOnly
  <2> QED BY <1>3, <2>2, <2>4, <2>5
<1>8. CASE /\ o \notin mcf /\ FreeOps # {}
           /\ ops' = [ops EXCEPT ![o].st = "Rejected", ![NewOp] = [ops[o] EXCEPT !.st = "Queued"]]
           /\ invoice' = [invoice EXCEPT ![i].status = "Pending"]
  <2>1. NewOp \in Ops /\ ops[NewOp] = NoOp /\ NewOp # o
    BY <1>2, <1>8, NewOpIsFree
  <2> DEFINE n == NewOp
             r == [ops[o] EXCEPT !.st = "Queued"]
  <2>2. r.st = "Queued" /\ ops[o] \in OpRows
    BY <1>3 DEF OpRows
  <2>3. ops' = [[ops EXCEPT ![o].st = "Rejected"] EXCEPT ![n] = r]
    BY <1>8
  <2> HIDE DEF n, r
  <2>4. n \in Ops /\ ops[n] = NoOp /\ n # o
    BY <2>1 DEF n
  <2>5. ops'[n] = r /\ ops'[o].inv = i /\ \A p \in Ops : p \notin {o, n} => ops'[p] = ops[p]
    BY <1>2, <1>3, <2>2, <2>3, <2>4 DEF OpRows
  <2>6. \A p \in Ops : ops[p] # NoOp => ops'[p].inv = ops[p].inv
    BY <1>2, <2>4, <2>5
  <2>7. Registrations(i)' = {}
    BY <1>3, <1>4, <1>8, <2>6, RegistrationsKept
  <2>8. RejectsProven
    BY <2>2, <2>5, <2>7 DEF RejectsProven
  <2>9. NoneStamped
    BY <1>3, <1>8, StatusOnly
  <2> QED BY <1>3, <2>6, <2>8, <2>9
<1> QED BY <1>2, <1>6, <1>7, <1>8 DEF Result

LEMMA StepRejectsProven == Windows = {} /\ IInv /\ [Next]_vars => RejectsProven
<1> SUFFICES ASSUME Windows = {}, IInv, [Next]_vars PROVE RejectsProven
  OBVIOUS
<1>1. Quiet => RejectsProven
  BY DEF Quiet, RowKept, RejectsProven
<1>2. UNCHANGED ops => RejectsProven
  BY DEF RejectsProven
<1>3. Types
  BY DEF IInv
<1>4. CASE \E w \in Workers : Confirm(w) \/ Record(w)
  BY <1>2, <1>4 DEF Confirm, Record
<1>5. CASE \E o \in Ops : Register(o)
  BY <1>2, <1>5 DEF Register
<1>6. CASE \E w \in Workers : Finish(w)
  BY <1>6, FinishRejects
<1>7. CASE \E o \in Ops : Result(o)
  BY <1>7, ResultRejects
<1>10. CASE \E w \in Workers : Raises(w)
  BY <1>10, RaisesRejects
<1>8. CASE \E w \in Workers :
             \/ \E i \in Invoices : Begin(w, i)
             \/ Enter(w) \/ Create(w) \/ NotReceived(w) \/ Fails(w) \/ TakeOver(w) \/ Invalid(w)
             \/ KeepUid(w) \/ Differs(w) \/ Crash(w)
  BY <1>1, <1>3, <1>8, QuietWorkers
<1>9. CASE \/ \E u \in Requests : Expire(u)
           \/ \E o \in Ops : Lease(o) \/ StaleQueue(o)
           \/ \E i \in Invoices : Release(i)
           \/ \E to \in {None, OtherChannel(Priority)} : Switch(to)
           \/ Station \/ Deactivate \/ RerouteQueued \/ UNCHANGED vars
  BY <1>1, <1>3, <1>9, QuietOthers
<1> QED BY <1>4, <1>5, <1>6, <1>7, <1>8, <1>9, <1>10 DEF Next

QueuedAlone ==
  \A o \in Ops, i \in Invoices :
    ops[o].inv = i /\ ops[o].st = "Queued" => Registrations(i) = {} /\ Cardinality(ActiveOps(i)) = 1

LEMMA QueuedIsAlone == IInv => QueuedAlone
<1> SUFFICES ASSUME IInv, NEW o \in Ops, NEW i \in Invoices, ops[o].inv = i, ops[o].st = "Queued"
             PROVE  Registrations(i) = {} /\ Cardinality(ActiveOps(i)) = 1
  BY DEF QueuedAlone
<1>1. o \in ActiveOps(i)
  BY DEF ActiveOps, Active
<1>2. ActiveOps(i) = {o}
  BY <1>1, ActiveShapes
<1>3. Cardinality(ActiveOps(i)) = 1
  BY <1>2, FS_Singleton
<1> QED BY <1>1, <1>3 DEF IInv, InvoiceOk

(* When an operation becomes Rejected, by the end of an attempt on the e-MCF *)
(* or by the result of the MCF, neither channel has registered its invoice.  *)
THEOREM RefusalCorrect == ASSUME Windows = {} PROVE Spec => RefusalProven
<1>1. IInv /\ [Next]_vars => [RejectsProven]_vars
  BY StepRejectsProven
<1>2. [RejectsProven]_vars => [\A o \in Ops, i \in Invoices :
         ops'[o].inv = i /\ ops'[o].st = "Rejected" /\ ops[o].st # "Rejected" => Registrations(i)' = {}]_vars
  BY DEF RejectsProven
<1> QED BY <1>1, <1>2, Invariant, PTL DEF Spec, RefusalProven

(* The MCF receives an invoice, as a new operation or as one queued again,   *)
(* only when no CONFIRM of it may have been applied and when this operation   *)
(* is its only active one.                                                    *)
THEOREM TakeOverCorrect == ASSUME Windows = {} PROVE Spec => NoTakeOverInDoubt
<1>1. IInv => QueuedAlone
  BY QueuedIsAlone
<1>2. QueuedAlone' => [\A o \in Ops, i \in Invoices :
         ops'[o].inv = i /\ ops'[o].st = "Queued" /\ ops[o].st # "Queued"
           => Registrations(i)' = {} /\ Cardinality(ActiveOps(i)') = 1]_vars
  BY DEF QueuedAlone
<1> QED BY <1>1, <1>2, Invariant, PTL DEF NoTakeOverInDoubt

----
(* Channels implements Normalization.                                       *)

Issued == [i \in Invoices |-> Registrations(i)]
Stamps == [i \in Invoices |-> invoice[i].code]

\* A step of the channels is a step of the promise, or none.
Promised == Abstract!Next \/ (Issued' = Issued /\ Stamps' = Stamps)

LEMMA PromisedSilence ==
  ASSUME NoneStamped, \A i \in Invoices : Registrations(i)' = Registrations(i)
  PROVE  Promised
BY DEF Promised, Issued, Stamps, NoneStamped

LEMMA PromisedRegistration ==
  ASSUME NEW i \in Invoices, NEW c \in 1..(MaxRequests + MaxOps), NoneStamped,
         Registrations(i) = {}, \A j \in Invoices : c \notin Registrations(j),
         Registrations(i)' = {c}, \A j \in Invoices : j # i => Registrations(j)' = Registrations(j)
  PROVE  Promised
<1>1. Issued[i] = {} /\ \A j \in Invoices : c \notin Issued[j]
  BY DEF Issued
<1>2. Issued' = [Issued EXCEPT ![i] = {c}] /\ Stamps' = Stamps
  BY DEF Issued, Stamps, NoneStamped
<1>3. Abstract!Register(i, c)
  BY <1>1, <1>2 DEF Abstract!Register, Issued, Stamps
<1> QED BY <1>3 DEF Promised, Abstract!Next

LEMMA PromisedStamp ==
  ASSUME NEW i \in Invoices, invoice[i].code = 0, invoice'[i].code \in Registrations(i),
         \A j \in Invoices : j # i => invoice'[j] = invoice[j],
         \A j \in Invoices : Registrations(j)' = Registrations(j)
  PROVE  Promised
<1>1. Stamps[i] = 0 /\ Issued' = Issued /\ invoice'[i].code \in Issued[i]
  BY DEF Issued, Stamps
<1>2. Stamps' = [Stamps EXCEPT ![i] = invoice'[i].code]
  BY DEF Stamps
<1>3. Abstract!Stamp(i)
  BY <1>1, <1>2 DEF Abstract!Stamp, Issued, Stamps
<1> QED BY <1>3 DEF Promised, Abstract!Next

LEMMA ConfirmPromised == ASSUME IInv, NEW w \in Workers, Confirm(w) PROVE Promised
<1>1. worker[w].pc = "kept" /\ UNCHANGED <<ops, mcf, invoice>> /\ Types
  BY DEF Confirm, At, IInv
<1>2. PICK u \in Requests : u = worker[w].uid
  BY <1>1, RowOfWorker DEF IInv, Holds
<1>3. PICK i \in Invoices : i = worker[w].inv
  BY <1>1, RowOfWorker DEF IInv, Holds
<1>4. Registrations(i) = {} /\ emcf[u].inv = i
  BY <1>1, <1>2, <1>3 DEF IInv, WorkerOk
<1>5. NoneStamped
  BY <1>1 DEF NoneStamped
<1>6. CASE UNCHANGED emcf
  <2>1. \A j \in Invoices : Registrations(j)' = Registrations(j)
    BY <1>1, <1>6 DEF Registrations, Of
  <2> QED BY <1>5, <2>1, PromisedSilence
<1>7. CASE emcf' = [emcf EXCEPT ![u].st = "confirmed"]
  <2>1. \A j \in Invoices : Registrations(j)' = Registrations(j) \cup (IF emcf[u].inv = j THEN {u} ELSE {})
    BY <1>1, <1>7, Registered
  <2>2. \A j \in Invoices : u \notin Registrations(j)
    BY <1>1, <1>4, CodesApart
  <2>3. u \in 1..(MaxRequests + MaxOps)
    BY Bounds DEF Requests
  <2>4. Registrations(i)' = {u} /\ \A j \in Invoices : j # i => Registrations(j)' = Registrations(j)
    BY <1>4, <2>1
  <2> QED BY <1>4, <1>5, <2>2, <2>3, <2>4, PromisedRegistration
<1> QED BY <1>2, <1>6, <1>7 DEF Confirm

LEMMA RegisterPromised == ASSUME IInv, NEW o \in Ops, Register(o) PROVE Promised
<1>1. /\ ops[o].st = "Leased" /\ mcf' = mcf \cup {o} /\ UNCHANGED <<ops, emcf, invoice>> /\ Types
  BY DEF Register, IInv
<1>2. PICK i \in Invoices :
           /\ i = ops[o].inv /\ ActiveOps(i) = {o} /\ ops[o].ch = "MCF" /\ ops[o] # NoOp /\ ~Normal(i)
           /\ invoice[i].status # "Normalized" /\ invoice[i].code = 0
           /\ ~InEmcf(i)
           /\ \A w \in Workers : worker[w].inv = i =>
                \/ worker[w].pc = "loaded"
                \/ /\ worker[w].pc \in {"entered", "created", "failed"} /\ HoldsRow(worker[w])
                   /\ ops[o].st = "Queued" /\ o \in worker[w].drop
  BY <1>1, WithMcf
<1>3. NoneStamped
  BY <1>1 DEF NoneStamped
<1>4. CASE o \in mcf
  <2>1. \A j \in Invoices : Registrations(j)' = Registrations(j)
    BY <1>1, <1>4 DEF Registrations, Of
  <2> QED BY <1>3, <2>1, PromisedSilence
<1>5. CASE o \notin mcf
  <2>1. Registrations(i) = {}
    BY <1>2, <1>5 DEF IInv, InvoiceOk, InMcf
  <2>2. \A j \in Invoices : MaxRequests + o \notin Registrations(j)
    BY <1>1, <1>5, CodesApart
  <2>3. \A j \in Invoices : Registrations(j)' = Registrations(j) \cup (IF ops[o].inv = j THEN {MaxRequests + o} ELSE {})
    BY <1>1 DEF Registrations, Of
  <2>4. MaxRequests + o \in 1..(MaxRequests + MaxOps)
    BY Bounds DEF Ops
  <2> DEFINE c == MaxRequests + o
  <2>5. Registrations(i)' = {c} /\ \A j \in Invoices : j # i => Registrations(j)' = Registrations(j)
    BY <1>2, <2>1, <2>3
  <2>6. c \in 1..(MaxRequests + MaxOps) /\ \A j \in Invoices : c \notin Registrations(j)
    BY <2>2, <2>4
  <2> HIDE DEF c
  <2> QED BY <1>3, <2>1, <2>5, <2>6, PromisedRegistration
<1> QED BY <1>4, <1>5

LEMMA RecordPromised == ASSUME IInv, NEW w \in Workers, Record(w) PROVE Promised
<1>1. worker[w].pc = "answered" /\ UNCHANGED <<ops, mcf>> /\ Types
  BY DEF Record, At, IInv
<1>2. PICK u \in Requests : u = worker[w].uid
  BY <1>1, RowOfWorker DEF IInv, Holds
<1>3. PICK i \in Invoices : i = worker[w].inv
  BY <1>1, RowOfWorker DEF IInv, Holds
<1>4. /\ ~Normal(i) /\ invoice[i].code = 0
      /\ worker[w].out = "ok" => Registrations(i) = {u}
      /\ worker[w].out \in {"ok", "lost", "refused"}
  <2>1. /\ ~Normal(i) /\ worker[w].out = "ok" => Registrations(i) = {u}
        /\ worker[w].out \in {"ok", "lost", "refused"} /\ ~Normal(i)
    BY <1>1, <1>2, <1>3 DEF IInv, WorkerOk
  <2> QED BY <2>1 DEF IInv, InvoiceOk, Normal
<1>5. CASE worker[w].out = "ok"
  <2>1. UNCHANGED emcf /\ invoice' = [invoice EXCEPT ![i] = [@ EXCEPT !.status = "Normalized", !.code = u]]
    BY <1>2, <1>3, <1>5 DEF Record, Inv
  <2>2. /\ invoice'[i] = [invoice[i] EXCEPT !.status = "Normalized", !.code = u]
        /\ \A j \in Invoices : j # i => invoice'[j] = invoice[j]
    BY <1>1, <2>1 DEF Types
  <2>3. invoice[i] \in InvRows
    BY <1>1 DEF Types
  <2>4. invoice'[i].code = u
    BY <2>2, <2>3 DEF InvRows
  <2>5. \A j \in Invoices : Registrations(j)' = Registrations(j)
    BY <1>1, <2>1 DEF Registrations, Of
  <2>6. invoice'[i].code \in Registrations(i)
    BY <1>4, <1>5, <2>4
  <2> QED BY <1>4, <2>2, <2>5, <2>6, PromisedStamp
<1>6. CASE worker[w].out \in {"lost", "refused"}
  <2>1. /\ UNCHANGED emcf \/ emcf' = [emcf EXCEPT ![u].st = IF @ = "pending" THEN "closed" ELSE @]
        /\ \/ invoice' = [invoice EXCEPT ![i].status = "Error"]
           \/ invoice' = [invoice EXCEPT ![i].status = "Error", ![i].uid = 0]
    BY <1>2, <1>3, <1>6 DEF Record, Inv, Cancel
  <2>2. NoneStamped
    BY <1>1, <2>1, StatusOnly
  <2>3. NoneConfirmed
    BY <1>1, <2>1, CancelConfirmsNone
  <2>4. \A o \in Ops : ops[o] # NoOp => ops'[o].inv = ops[o].inv
    BY <1>1
  <2>5. \A j \in Invoices : Registrations(j)' = Registrations(j)
    BY <2>3, <2>4, RegistrationsKept
  <2> QED BY <2>2, <2>5, PromisedSilence
<1> QED BY <1>4, <1>5, <1>6

LEMMA StepPromised == Windows = {} /\ IInv /\ [Next]_vars => Promised
<1> SUFFICES ASSUME Windows = {}, IInv, [Next]_vars PROVE Promised
  OBVIOUS
<1>1. Quiet => Promised
  BY RegistrationsKept, PromisedSilence DEF Quiet, RowKept
<1>2. Types
  BY DEF IInv
<1>3. CASE \E w \in Workers : Confirm(w) \/ Record(w)
  BY <1>3, ConfirmPromised, RecordPromised
<1>4. CASE \E o \in Ops : Register(o)
  BY <1>4, RegisterPromised
<1>5. CASE \E w \in Workers : Finish(w)
  BY <1>5, FinishRejects, RegistrationsKept, PromisedSilence
<1>9. CASE \E w \in Workers : Raises(w)
  BY <1>9, RaisesRejects, RegistrationsKept, PromisedSilence
<1>6. CASE \E o \in Ops : Result(o)
  <2>1. \A i \in Invoices : Registrations(i)' = Registrations(i)
    BY <1>6, ResultRejects, RegistrationsKept
  <2>2. NoneStamped => Promised
    BY <2>1, PromisedSilence
  <2>3. \/ NoneStamped
        \/ \E i \in Invoices :
                 /\ invoice[i].code = 0 /\ invoice'[i].code \in Registrations(i)
                 /\ \A j \in Invoices : j # i => invoice'[j] = invoice[j]
    BY <1>6, ResultRejects
  <2> QED BY <2>1, <2>2, <2>3, PromisedStamp
<1>7. CASE \E w \in Workers :
             \/ \E i \in Invoices : Begin(w, i)
             \/ Enter(w) \/ Create(w) \/ NotReceived(w) \/ Fails(w) \/ TakeOver(w) \/ Invalid(w)
             \/ KeepUid(w) \/ Differs(w) \/ Crash(w)
  BY <1>1, <1>2, <1>7, QuietWorkers
<1>8. CASE \/ \E u \in Requests : Expire(u)
           \/ \E o \in Ops : Lease(o) \/ StaleQueue(o)
           \/ \E i \in Invoices : Release(i)
           \/ \E to \in {None, OtherChannel(Priority)} : Switch(to)
           \/ Station \/ Deactivate \/ RerouteQueued \/ UNCHANGED vars
  BY <1>1, <1>2, <1>8, QuietOthers
<1> QED BY <1>3, <1>4, <1>5, <1>6, <1>7, <1>8, <1>9 DEF Next

LEMMA InitPromised == Init => Abstract!Init
<1> SUFFICES ASSUME Init PROVE Abstract!Init
  OBVIOUS
<1>1. \A i \in Invoices : Registrations(i) = {} /\ invoice[i].code = 0
  BY DEF Init, Registrations, Of, NoRequest
<1> QED BY <1>1 DEF Abstract!Init

(* The two channels together keep the promise of one: the DGI registers each *)
(* invoice once, with a code no other invoice has, and this code, once on    *)
(* the invoice, stays.                                                       *)
THEOREM PromiseKept == ASSUME Windows = {} PROVE Spec => ImplementsNormalization
<1>1. Init => Abstract!Init
  BY InitPromised
<1>2. IInv /\ [Next]_vars => [Abstract!Next]_<<Issued, Stamps>>
  BY StepPromised DEF Promised
<1>3. [Abstract!Next]_<<Issued, Stamps>> => [Abstract!Next]_<<[i \in Invoices |-> Registrations(i)], [i \in Invoices |-> invoice[i].code]>>
  BY DEF Issued, Stamps
<1> QED BY <1>1, <1>2, <1>3, Invariant, PTL DEF Spec, ImplementsNormalization, Abstract!Safe
----
(* What survives an attempt that raised, and one that was never closed: the *)
(* invariant speaks of the requests confirmed and of the operations the MCF *)
(* registered apart, where IInv counts the registrations of both.           *)

Confirmed(i) == Of(i, "confirmed")

TraceOk(i) ==
  /\ \A o, p \in ActiveOps(i) : o = p
  /\ invoice[i].status = "Normalized" <=> invoice[i].code # 0
  /\ \A o \in ActiveOps(i) : ops[o].ch = "MCF" => ~Normal(i)
  /\ ~Normal(i) =>
       /\ Confirmed(i) \subseteq {invoice[i].uid}
       /\ \/ Confirmed(i) = {} \/ invoice[i].uid \in logged
          \/ \E w \in Workers : worker[w].inv = i /\ worker[w].pc = "answered"
       /\ \A o \in mcf : ops[o].inv = i => o \in ActiveOps(i)

TracerOk(x) ==
  /\ x.pc = "idle" <=> x.inv = None
  /\ x.pc \in {"idle", "loaded"} => x.op = 0 /\ x.drop = {}
  /\ x.pc \notin {"idle", "finish"} => ~Normal(x.inv)
  /\ x.pc \in {"loaded", "entered"} => x.uid = invoice[x.inv].uid
  /\ x.pc \in {"entered", "created", "failed"} => HoldsRow(x)
  /\ x.pc \in {"kept", "answered", "finish"} => Attempts(x)
  /\ x.pc \in {"created", "kept", "answered"} => emcf[x.uid].inv = x.inv
  /\ x.pc \in {"created", "kept"} => emcf[x.uid].st \in Unconfirmed /\ Confirmed(x.inv) = {}
  /\ x.pc \in {"kept", "answered"} => invoice[x.inv].uid = x.uid
  /\ x.pc = "failed" =>
       \/ x.out = "lost" /\ x.uid = invoice[x.inv].uid /\ x.uid \in logged
       \/ x.out \in {"refused", "unavailable"} /\ x.uid = 0 /\ Confirmed(x.inv) = {}
  /\ x.pc = "alternate" => x.drop = {} /\ ActiveOps(x.inv) = {} /\ ops[x.op].inv = x.inv
  /\ x.pc = "answered" /\ x.out = "refused" => Confirmed(x.inv) = {}

TInv ==
  /\ Types /\ Shapes /\ Alone
  /\ \A i \in Invoices : TraceOk(i)
  /\ \A w \in Workers : TracerOk(worker[w])

LEMMA TInvInit == Init => TInv
<1> SUFFICES ASSUME Init PROVE TInv
  OBVIOUS
<1>1. IInv
  BY IInvInit
<1>2. /\ \A w \in Workers : worker[w] = Idle
      /\ \A i \in Invoices : invoice[i] = [status |-> "Pending", uid |-> 0, code |-> 0]
      /\ \A u \in Requests : emcf[u] = NoRequest
      /\ \A o \in Ops : ops[o] = NoOp
      /\ mcf = {}
  BY DEF Init
<1>3. \A i \in Invoices : ActiveOps(i) = {} /\ Confirmed(i) = {}
  BY <1>2 DEF ActiveOps, Active, NoOp, Confirmed, Of, NoRequest
<1>4. \A i \in Invoices : TraceOk(i)
  BY <1>2, <1>3 DEF TraceOk
<1>5. \A w \in Workers : TracerOk(worker[w])
  BY <1>2 DEF TracerOk, Idle
<1> QED BY <1>1, <1>4, <1>5 DEF TInv, IInv

(* What a step leaves of an invoice it does not deal with.                  *)
SameTrace(j) ==
  /\ invoice'[j] = invoice[j]
  /\ ActiveOps(j)' = ActiveOps(j) /\ \A o \in ActiveOps(j) : ops'[o] = ops[o]
  /\ Confirmed(j)' = Confirmed(j)
  /\ \A o \in mcf' : ops'[o].inv = j => o \in mcf /\ ops[o].inv = j

LEMMA TraceKept ==
  ASSUME NEW j \in Invoices, TraceOk(j), SameTrace(j), logged \subseteq logged',
         \A w \in Workers : worker[w].inv = j => worker'[w] = worker[w]
  PROVE  TraceOk(j)'
<1>1. Normal(j)' <=> Normal(j)
  BY DEF Normal, SameTrace
<1>2. (\E w \in Workers : worker[w].inv = j /\ worker[w].pc = "answered") =>
        \E w \in Workers : worker'[w].inv = j /\ worker'[w].pc = "answered"
  OBVIOUS
<1> QED BY <1>1, <1>2 DEF TraceOk, SameTrace

LEMMA TracerKept ==
  ASSUME NEW w \in Workers, NEW x, x = worker[w], x = worker'[w], TracerOk(x), Holds(x),
         x.inv \in Invoices => SameTrace(x.inv),
         logged \subseteq logged',
         x.op \in Ops => (ops[x.op] = NoOp => ops'[x.op] = NoOp) /\ (ops[x.op].inv = x.inv => ops'[x.op].inv = x.inv),
         x.uid \in Requests /\ emcf[x.uid].inv = x.inv =>
           /\ emcf'[x.uid].inv = x.inv
           /\ emcf[x.uid].st \in Unconfirmed => emcf'[x.uid].st \in Unconfirmed
  PROVE  TracerOk(worker[w])'
<1>1. CASE x.pc = "idle"
  BY <1>1 DEF TracerOk
<1>2. CASE x.pc # "idle"
  <2>1. x.inv \in Invoices /\ SameTrace(x.inv)
    BY <1>2 DEF Holds
  <2>2. Normal(x.inv)' <=> Normal(x.inv)
    BY <2>1 DEF Normal, SameTrace
  <2>3. x.pc \notin {"idle", "loaded"} => x.op \in Ops
    BY DEF Holds
  <2>4. HoldsRow(x) /\ x.op \in Ops => HoldsRow(worker[w])'
    BY <2>1 DEF HoldsRow, SameTrace
  <2>5. Attempts(x) => Attempts(worker[w])'
    BY <2>1 DEF Attempts, SameTrace
  <2>6. x.pc \in {"created", "kept", "answered"} => x.uid \in Requests
    BY DEF Holds
  <2>7. /\ Confirmed(x.inv)' = Confirmed(x.inv) /\ invoice'[x.inv] = invoice[x.inv]
        /\ ActiveOps(x.inv)' = ActiveOps(x.inv)
    BY <2>1 DEF SameTrace
  <2> QED BY <1>2, <2>2, <2>3, <2>4, <2>5, <2>6, <2>7 DEF TracerOk
<1> QED BY <1>1, <1>2

LEMMA FreeTracer == ASSUME NEW w \in Workers, worker'[w] = Idle PROVE TracerOk(worker[w])'
BY DEF TracerOk, Idle

(* A step that deals with one invoice: the others are as they were.         *)
LEMMA TraceOnInvoice ==
  ASSUME TInv, Types', Shapes', Alone', NEW i \in Invoices, StepOn(i), TraceOk(i)',
         \A w \in Workers : worker'[w].inv = i => TracerOk(worker[w])'
  PROVE  TInv'
<1>1. i # None
  BY ChannelsAssumption
<1>2. ASSUME NEW j \in Invoices, j # i PROVE SameTrace(j)
  <2>1. \A o \in Ops : ops'[o] = ops[o] \/ (ops[o].inv # j /\ ops'[o].inv # j)
    BY <1>2, ChannelsAssumption DEF StepOn, NoOp
  <2>2. \A u \in Requests : emcf'[u] = emcf[u] \/ (emcf[u].inv # j /\ emcf'[u].inv # j)
    BY <1>2, ChannelsAssumption DEF StepOn
  <2>3. \A o \in mcf' : ops'[o].inv = j => o \in mcf /\ ops[o].inv = j
    BY <1>2, <2>1 DEF StepOn, Types
  <2>4. invoice'[j] = invoice[j]
    BY <1>2 DEF StepOn
  <2>5. ActiveOps(j)' = ActiveOps(j) /\ \A o \in ActiveOps(j) : ops'[o] = ops[o]
    BY <2>1 DEF ActiveOps
  <2>6. Confirmed(j)' = Confirmed(j)
    BY <2>2 DEF Confirmed, Of
  <2> QED BY <2>3, <2>4, <2>5, <2>6 DEF SameTrace
<1>3. ASSUME NEW j \in Invoices, j # i PROVE TraceOk(j)'
  <2>1. \A w \in Workers : worker[w].inv = j => worker'[w] = worker[w]
    BY <1>3, ChannelsAssumption DEF StepOn
  <2>2. TraceOk(j) /\ logged \subseteq logged'
    BY DEF TInv, StepOn
  <2> QED BY <1>2, <1>3, <2>1, <2>2, TraceKept
<1>4. ASSUME NEW w \in Workers, worker'[w].inv # i PROVE TracerOk(worker[w])'
  <2>1. CASE worker'[w] = Idle
    BY <2>1, FreeTracer
  <2>2. CASE worker'[w] = worker[w]
    <3> DEFINE x == worker[w]
    <3>1. x.inv \in Invoices => SameTrace(x.inv)
      BY <1>2, <1>4, <2>2
    <3>2. x.op \in Ops => (ops[x.op] = NoOp => ops'[x.op] = NoOp) /\ (ops[x.op].inv = x.inv => ops'[x.op].inv = x.inv)
      <4>1. x.op \in Ops /\ ops[x.op] = NoOp => ops'[x.op] = NoOp
        BY <1>4, <2>2 DEF StepOn
      <4> QED BY <1>4, <2>2, <4>1 DEF StepOn
    <3>3. x.uid \in Requests /\ emcf[x.uid].inv = x.inv /\ x.inv \in Invoices => emcf'[x.uid] = emcf[x.uid]
      BY <1>4, <2>2, ChannelsAssumption DEF StepOn
    <3>4. TracerOk(x) /\ Holds(x) /\ logged \subseteq logged'
      BY DEF TInv, Types, StepOn
    <3> HIDE DEF x
    <3>5. CASE x.inv \in Invoices
      BY <2>2, <3>1, <3>2, <3>3, <3>4, <3>5, TracerKept DEF x
    <3>6. CASE x.inv \notin Invoices
      <4>1. x.pc = "idle"
        BY <3>4, <3>6 DEF Holds
      <4> QED BY <2>2, <3>4, <4>1 DEF TracerOk, x
    <3> QED BY <3>5, <3>6
  <2> QED BY <1>4, <2>1, <2>2 DEF StepOn
<1>5. \A j \in Invoices : TraceOk(j)'
  BY <1>3
<1>6. \A w \in Workers : TracerOk(worker[w])'
  BY <1>4
<1> QED BY <1>5, <1>6 DEF TInv

LEMMA OnlyTracer ==
  ASSUME TInv, NEW w \in Workers, NEW v \in Workers, worker[w].inv \in Invoices, worker[v].inv = worker[w].inv
  PROVE  v = w
BY ChannelsAssumption DEF TInv, Alone

LEMMA ActiveTrace ==
  ASSUME TInv, NEW i \in Invoices, NEW o \in ActiveOps(i)
  PROVE  /\ o \in Ops /\ ops[o].inv = i /\ ActiveOps(i) = {o} /\ ops[o] # NoOp
         /\ \/ ops[o].ch = "MCF" /\ ops[o].st \in {"Queued", "Leased"} /\ ~Normal(i)
            \/ ops[o].ch = "e-MCF" /\ ops[o].st \in {"Pending", "Uncertain"}
<1>1. o \in Ops /\ ops[o].inv = i /\ ops[o].st \in Active
  BY DEF ActiveOps
<1>2. ops[o] # NoOp
  BY <1>1 DEF NoOp, Active
<1>3. \/ ops[o].ch = "MCF" /\ ops[o].st \in {"Queued", "Leased"}
      \/ ops[o].ch = "e-MCF" /\ ops[o].st \in {"Pending", "Uncertain"}
  BY <1>1, <1>2 DEF TInv, Shapes, OpOk, Active
<1>4. TraceOk(i)
  BY DEF TInv
<1>5. \A p \in ActiveOps(i) : p = o
  BY <1>4 DEF TraceOk
<1>6. ActiveOps(i) = {o}
  BY <1>5
<1>7. ops[o].ch = "MCF" => ~Normal(i)
  BY <1>4 DEF TraceOk
<1> QED BY <1>1, <1>2, <1>3, <1>6, <1>7

(* A step that moves a worker, and nothing else of what TInv speaks of.     *)
LEMMA TracerOnly ==
  ASSUME TInv, Types', NEW w \in Workers, NEW i \in Invoices, NEW x,
         worker' = [worker EXCEPT ![w] = x], worker[w].pc # "answered", Alone',
         UNCHANGED <<ops, invoice, logged, emcf, mcf>>,
         \/ worker[w].inv \in {i, None} /\ x.inv = i
         \/ worker[w].inv = i /\ x = Idle,
         x # Idle => TracerOk(worker[w])'
  PROVE  TInv'
<1>1. worker'[w] = x /\ \A v \in Workers : v # w => worker'[v] = worker[v]
  BY Moved DEF TInv
<1>2. StepOn(i)
  BY <1>1, ChannelsAssumption DEF StepOn, TInv, TracerOk, Ops
<1>3. Shapes'
  BY DEF TInv, Shapes
<1>4. TraceOk(i)'
  <2>1. (\E v \in Workers : worker[v].inv = i /\ worker[v].pc = "answered") =>
          \E v \in Workers : worker'[v].inv = i /\ worker'[v].pc = "answered"
    BY <1>1
  <2>2. /\ Normal(i)' <=> Normal(i)
        /\ ActiveOps(i)' = ActiveOps(i)
        /\ Confirmed(i)' = Confirmed(i)
    BY DEF Normal, ActiveOps, Confirmed, Of
  <2>3. TraceOk(i)
    BY DEF TInv
  <2> QED BY <2>1, <2>2, <2>3 DEF TraceOk
<1>5. \A v \in Workers : worker'[v].inv = i => TracerOk(worker[v])'
  <2> TAKE v \in Workers
  <2> HAVE worker'[v].inv = i
  <2>1. CASE v = w
    <3>1. x # Idle
      BY <1>1, <2>1, ChannelsAssumption DEF Idle
    <3> QED BY <2>1, <3>1
  <2>2. CASE v # w
    <3>1. worker[v].inv = i /\ worker[w].inv # i
      BY <1>1, <2>2, ChannelsAssumption DEF TInv, Alone
    <3>2. x.inv = i
      BY <3>1
    <3> QED BY <1>1, <2>2, <3>1, <3>2, ChannelsAssumption DEF Alone
  <2> QED BY <2>1, <2>2
<1> QED BY <1>2, <1>3, <1>4, <1>5, TraceOnInvoice

LEMMA BeginTraced ==
  ASSUME TInv, "twice" \notin Windows, NEW w \in Workers, NEW i \in Invoices, Begin(w, i)
  PROVE  TInv'
<1>1. Types'
  BY BeginTyped DEF TInv
<1>2. PICK f : worker' = [worker EXCEPT ![w] = [Idle EXCEPT !.pc = "loaded", !.inv = i,
                                                           !.uid = invoice[i].uid, !.force = f]]
  BY DEF Begin
<1> DEFINE x == [Idle EXCEPT !.pc = "loaded", !.inv = i, !.uid = invoice[i].uid, !.force = f]
<1>3. x.pc = "loaded" /\ x.inv = i /\ x.uid = invoice[i].uid /\ x.op = 0 /\ x.drop = {}
  BY DEF Idle
<1>4. worker' = [worker EXCEPT ![w] = x]
  BY <1>2
<1> HIDE DEF x
<1>5. worker[w].pc = "idle" /\ worker[w].inv = None /\ ~Normal(i) /\ \A v \in Workers : worker[v].inv # i
  BY DEF Begin, BusyOn, At, TInv, TracerOk
<1>6. Alone'
  BY <1>3, <1>4, <1>5, StaysAlone DEF TInv
<1>7. TracerOk(worker[w])'
  <2>1. worker'[w] = x
    BY <1>4, Moved DEF TInv
  <2>2. UNCHANGED invoice
    BY DEF Begin
  <2> QED BY <1>3, <1>5, <2>1, <2>2, ChannelsAssumption DEF TracerOk, Normal
<1> QED BY <1>1, <1>3, <1>4, <1>5, <1>6, <1>7, TracerOnly DEF Begin

LEMMA CrashTraced ==
  ASSUME TInv, "unlogged" \notin Windows, NEW w \in Workers, Crash(w)
  PROVE  TInv'
<1>1. Types'
  BY ReleasedTyped DEF TInv
<1>2. worker[w].inv \in Invoices /\ worker[w].pc # "answered"
  BY DEF Crash, TInv, Types, Holds, At, Unlogged
<1>3. worker' = [worker EXCEPT ![w] = Idle]
  BY DEF Crash
<1>4. Alone'
  BY <1>3, KeepsAlone DEF TInv
<1> QED BY <1>1, <1>2, <1>3, <1>4, TracerOnly DEF Crash

(* The invoice is queued for the MCF by the worker that leaves it.          *)
LEMMA QueueTraced ==
  ASSUME TInv, Types', NEW w \in Workers, NEW i \in Invoices, worker[w].inv = i, worker[w].pc # "answered",
         NEW D, NEW f, QueueMcf(i, D, f), worker' = [worker EXCEPT ![w] = Idle],
         UNCHANGED <<logged, emcf, mcf>>, ~Normal(i),
         D \subseteq ActiveOps(i), \A o \in D : ops[o].st = "Pending"
  PROVE  TInv'
<1>1. Alone'
  BY KeepsAlone DEF TInv
<1>2. CASE ActiveOps(i) \ D # {}
  <2>1. D = {}
    <3>1. PICK o \in ActiveOps(i) : o \notin D
      BY <1>2
    <3>2. ActiveOps(i) = {o}
      BY <3>1, ActiveTrace
    <3> QED BY <3>1, <3>2
  <2>2. Drop({}) = ops
    <3>1. Drop({}) = [o \in Ops |-> ops[o]]
      BY DEF Drop
    <3> QED BY <3>1 DEF TInv, Types
  <2>3. UNCHANGED <<ops, invoice>>
    BY <1>2, <2>1, <2>2 DEF QueueMcf
  <2> QED BY <1>1, <2>3, TracerOnly
<1>3. CASE ActiveOps(i) \ D = {}
  <2> DEFINE n == NewOp
             r == [inv |-> i, ch |-> "MCF", st |-> "Queued", sent |-> FALSE, fallback |-> f]
  <2>1. /\ n \in Ops /\ ops[n] = NoOp /\ \A v \in Workers : worker[v].op # n
        /\ ops' = [Drop(D) EXCEPT ![n] = r]
        /\ invoice' = [invoice EXCEPT ![i].status = "Pending"]
    BY <1>3, NewOpIsFree DEF QueueMcf, FreeOps
  <2>2. r.inv = i /\ r.ch = "MCF" /\ r.st = "Queued" /\ r # NoOp
    BY ChannelsAssumption DEF NoOp
  <2> HIDE DEF n, r
  <2>3. /\ ops'[n] = r
        /\ \A o \in Ops : o # n /\ o \notin D => ops'[o] = ops[o]
        /\ \A o \in Ops : o # n /\ o \in D => ops'[o].inv = i /\ ops'[o].ch = "e-MCF" /\ ops'[o].st = "Cancelled"
    <3>1. \A o \in Ops : o # n => ops'[o] = Drop(D)[o]
      BY <2>1, DropTyped DEF TInv
    <3>2. \A o \in D : ops[o].inv = i /\ ops[o].ch = "e-MCF"
      BY ActiveTrace
    <3> QED BY <2>1, <3>1, <3>2, DropTyped DEF TInv
  <2>4. n \notin D /\ n \notin ActiveOps(i) /\ n \notin mcf
    BY <2>1, ChannelsAssumption DEF TInv, Shapes, NoOp, ActiveOps, Active
  <2>5. \A o \in D : o \in Ops /\ o \notin mcf /\ ops[o].inv = i
    BY DEF TInv, Shapes, ActiveOps
  <2>6. \A o \in Ops : ops[o].inv = i /\ ops[o].st \in Active => o \in D
    BY <1>3 DEF ActiveOps
  <2>7. ActiveOps(i)' = {n}
    <3>1. n \in ActiveOps(i)'
      BY <2>1, <2>2, <2>3 DEF ActiveOps, Active
    <3>2. \A o \in Ops : o # n => o \notin ActiveOps(i)'
      BY <2>3, <2>6 DEF ActiveOps, Active
    <3> QED BY <3>1, <3>2 DEF ActiveOps
  <2>8. \A o \in mcf : ops'[o] = ops[o]
    BY <2>3, <2>4, <2>5 DEF TInv, Types
  <2>9. /\ invoice'[i].code = invoice[i].code /\ invoice'[i].status = "Pending" /\ invoice'[i].uid = invoice[i].uid
        /\ \A j \in Invoices : j # i => invoice'[j] = invoice[j]
    BY <2>1 DEF TInv, Types, InvRows
  <2>10. TraceOk(i) /\ invoice[i].code = 0
    BY DEF TInv, TraceOk, Normal
  <2>11. TraceOk(i)'
    <3>1. \A o \in mcf : ops[o].inv # i
      BY <1>3, <2>5, <2>10 DEF TraceOk
    <3>2. \A o \in mcf' : ops'[o].inv # i
      BY <2>8, <3>1
    <3>3. Confirmed(i)' = Confirmed(i)
      BY DEF Confirmed, Of
    <3>4. \A v \in Workers : worker[v].inv = i => v = w
      BY OnlyTracer
    <3>5. Confirmed(i) = {} \/ invoice[i].uid \in logged
      BY <2>10, <3>4 DEF TraceOk
    <3>6. ~Normal(i)'
      BY <2>9, <2>10 DEF Normal
    <3> QED BY <2>7, <2>9, <2>10, <3>2, <3>3, <3>5, <3>6 DEF TraceOk
  <2>12. Shapes'
    <3>1. \A o \in Ops : OpOk(ops'[o])
      <4>1. OpOk(ops'[n])
        BY <2>2, <2>3 DEF OpOk
      <4>2. \A o \in Ops : o \in D /\ o # n => OpOk(ops'[o])
        BY <2>3 DEF OpOk
      <4> QED BY <2>3, <4>1, <4>2 DEF TInv, Shapes
    <3> QED BY <2>8, <3>1 DEF TInv, Shapes
  <2>13. worker'[w] = Idle /\ \A v \in Workers : v # w => worker'[v] = worker[v]
    BY Moved DEF TInv
  <2>14. StepOn(i)
    <3>1. \A o \in Ops : ops'[o] = ops[o] \/ ((ops[o] = NoOp \/ ops[o].inv = i) /\ ops'[o].inv = i)
      BY <2>1, <2>2, <2>3, <2>5
    <3>2. \A v \in Workers : worker[v].inv # i /\ worker[v].op \in Ops /\ ops[worker[v].op] = NoOp =>
                               ops'[worker[v].op] = NoOp
      BY <2>1, <2>3, <2>5, ChannelsAssumption DEF NoOp
    <3> QED BY <2>9, <2>13, <3>1, <3>2 DEF StepOn
  <2>15. \A v \in Workers : worker'[v].inv # i
    BY <2>13, OnlyTracer, ChannelsAssumption DEF Idle
  <2> QED BY <1>1, <2>11, <2>12, <2>14, <2>15, TraceOnInvoice
<1> QED BY <1>2, <1>3

LEMMA TakeOverTraced ==
  ASSUME TInv, NEW w \in Workers, TakeOver(w)
  PROVE  TInv'
<1>1. Types'
  BY ReleasedTyped DEF TInv
<1>2. worker[w].inv \in Invoices /\ worker[w].pc # "answered" /\ ~Normal(worker[w].inv)
  BY DEF TakeOver, At, TInv, Types, Holds, TracerOk
<1> DEFINE D == {}
<1>3. D \subseteq ActiveOps(worker[w].inv) /\ \A o \in D : ops[o].st = "Pending"
  OBVIOUS
<1>4. QueueMcf(worker[w].inv, D, TRUE)
  BY DEF TakeOver, Inv
<1> HIDE DEF D
<1> QED BY <1>1, <1>2, <1>3, <1>4, QueueTraced DEF TakeOver

LEMMA EnterTraced ==
  ASSUME TInv, NEW w \in Workers, Enter(w)
  PROVE  TInv'
<1> DEFINE i == Inv(w)
           c == Route(Config(worker[w].force)).channel
           auto == Route(Config(worker[w].force)).auto
           alt == Route(Config(worker[w].force)).alternate
           D == Withdrawn(i, c)
           E == OnOther(i, OtherChannel(c))
           x == [worker[w] EXCEPT !.pc = "entered", !.drop = D, !.auto = auto, !.alternate = alt,
                                  !.op = IF E = {} THEN NewOp ELSE CHOOSE o \in E : TRUE]
<1>1. Types' /\ UNCHANGED <<logged, emcf, mcf>>
  BY EnterTyped DEF TInv, Enter
<1>2. worker[w].pc = "loaded" /\ worker[w] \in WorkerRows /\ i \in Invoices
  BY RowOfWorker DEF Enter, At, Inv, TInv, Holds
<1>3. worker[w].pc # "answered" /\ ~Normal(i) /\ worker[w].uid = invoice[i].uid
  BY <1>2 DEF TInv, TracerOk, Inv
<1>4. c \in Channels
  BY <1>2, RouteIsAChannel DEF TInv, WorkerRows
<1>5. CASE worker' = [worker EXCEPT ![w] = Idle] /\ UNCHANGED <<ops, invoice>>
  <2>1. Alone'
    BY <1>5, KeepsAlone DEF TInv
  <2> QED BY <1>1, <1>2, <1>3, <1>5, <2>1, TracerOnly DEF Inv
<1>6. CASE MayGo(i, c) /\ c = "MCF" /\ QueueMcf(i, D, auto) /\ worker' = [worker EXCEPT ![w] = Idle]
  <2>1. D \subseteq ActiveOps(i)
    BY DEF Withdrawn, OnOther
  <2>2. \A o \in D : ops[o].st = "Pending"
    BY <1>6 DEF Withdrawn, OnOther, NeverReceived
  <2> QED BY <1>1, <1>2, <1>3, <1>6, <2>1, <2>2, QueueTraced DEF Inv
<1>7. CASE /\ MayGo(i, c) /\ c = "e-MCF"
           /\ E = {} => FreeOps # {}
           /\ worker' = [worker EXCEPT ![w] = x]
           /\ UNCHANGED <<ops, invoice>>
  <2>1. D = OnOther(i, c) /\ D \subseteq ActiveOps(i) /\ \A o \in D : ops[o].st = "Queued" /\ ops[o].ch = "MCF"
    <3>1. \A o \in ActiveOps(i) : ops[o].ch # "e-MCF" => ops[o].ch = "MCF"
      BY <1>2, ActiveTrace
    <3> QED BY <1>7, <3>1 DEF MayGo, Withdrawn, OnOther, NeverReceived
  <2>2. E \subseteq ActiveOps(i) /\ \A o \in E : ops[o].ch = "e-MCF"
    <3>1. \A o \in ActiveOps(i) : ops[o].ch # "MCF" => ops[o].ch = "e-MCF"
      BY <1>2, ActiveTrace
    <3> QED BY <1>7, <3>1 DEF OnOther, OtherChannel
  <2>3. ActiveOps(i) \subseteq D \cup E
    BY <1>7, <2>1 DEF OnOther, OtherChannel
  <2> DEFINE n == IF E = {} THEN NewOp ELSE CHOOSE o \in E : TRUE
  <2>4. x.pc = "entered" /\ x.drop = D /\ x.op = n /\ x.inv = i /\ x.uid = worker[w].uid
    BY <1>2 DEF WorkerRows, Inv
  <2>5. x # Idle
    BY <2>4 DEF Idle
  <2>6. worker'[w] = x /\ \A v \in Workers : v # w => worker'[v] = worker[v]
    <3> HIDE DEF x
    <3> QED BY <1>7, Moved DEF TInv
  <2>7. worker' = [worker EXCEPT ![w] = x]
    BY <1>7
  <2>8. n \in Ops /\ (E = {} => ops[n] = NoOp /\ n \in FreeOps) /\ (E # {} => n \in E)
    <3>1. E # {} => (CHOOSE o \in E : TRUE) \in E
      <4> HIDE DEF E
      <4> QED OBVIOUS
    <3>2. E \subseteq Ops
      BY <2>2 DEF ActiveOps
    <3> HIDE DEF E
    <3> QED BY <1>7, <3>1, <3>2, NewOpIsFree
  <2>9. E # {} => D = {} /\ n \in ActiveOps(i) /\ ops[n].ch = "e-MCF"
    <3>1. ASSUME E # {} PROVE D = {}
      <4>1. n \in ActiveOps(i) /\ ops[n].ch = "e-MCF"
        BY <2>2, <2>8, <3>1
      <4>2. ActiveOps(i) = {n}
        BY <1>2, <4>1, ActiveTrace
      <4> HIDE DEF n, D
      <4> QED BY <2>1, <4>1, <4>2
    <3> HIDE DEF n, E, D
    <3> QED BY <2>2, <2>8, <3>1
  <2> HIDE DEF x, n, D, E, c, auto, alt
  <2>10. \A v \in Workers : v # w => worker[v].inv # i /\ worker[v].op # n
    <3> SUFFICES ASSUME NEW v \in Workers, v # w PROVE worker[v].inv # i /\ worker[v].op # n
      OBVIOUS
    <3>1. worker[v].inv # i
      BY <1>2, OnlyTracer DEF Inv
    <3>2. CASE E = {}
      BY <2>8, <3>1, <3>2 DEF FreeOps
    <3>3. CASE E # {}
      <4> SUFFICES ASSUME worker[v].op = n PROVE FALSE
        BY <3>1
      <4>1. ops[n].inv = i /\ n # 0 /\ ops[n] # NoOp
        BY <1>2, <2>8, <2>9, <3>3, ActiveTrace DEF Ops
      <4>2. TracerOk(worker[v]) /\ worker[v].pc \in Stages
        BY RowOfWorker DEF TInv, WorkerRows
      <4>3. worker[v].pc \notin {"idle", "loaded"}
        BY <4>1, <4>2 DEF TracerOk
      <4>4. ops[n].inv = worker[v].inv
        <5>1. n \in ActiveOps(worker[v].inv) => ops[n].inv = worker[v].inv
          BY DEF ActiveOps
        <5> QED BY <4>1, <4>2, <4>3, <5>1 DEF TracerOk, HoldsRow, Attempts, Stages
      <4> QED BY <3>1, <4>1, <4>4
    <3> QED BY <3>2, <3>3
  <2>11. Alone'
    <3>1. \A v \in Workers : v # w => /\ x.inv = None \/ worker[v].inv # x.inv
                                      /\ x.op = 0 \/ worker[v].op # x.op
      BY <2>4, <2>10
    <3> QED BY <2>7, <3>1, StaysAlone DEF TInv
  <2>12. HoldsRow(worker[w])'
    BY <1>7, <2>1, <2>3, <2>4, <2>6, <2>8, <2>9 DEF HoldsRow, ActiveOps
  <2>13. TracerOk(worker[w])'
    BY <1>2, <1>3, <1>7, <2>4, <2>6, <2>12, ChannelsAssumption DEF TracerOk, Normal
  <2> QED BY <1>1, <1>2, <1>3, <1>7, <2>4, <2>7, <2>11, <2>13, TracerOnly DEF Inv
<1> QED BY <1>4, <1>5, <1>6, <1>7 DEF Enter, Channels

(* The worker looks for a request.                                          *)
LEMMA CreateTraced ==
  ASSUME TInv, NEW w \in Workers, Create(w)
  PROVE  TInv'
<1>0. PICK i \in Invoices, u \in Nat : i = worker[w].inv /\ u = worker[w].uid
  <2>1. worker[w].pc = "entered" /\ worker[w] \in WorkerRows /\ Holds(worker[w])
    BY RowOfWorker DEF Create, At, TInv
  <2> QED BY <2>1, Bounds DEF Holds, WorkerRows
<1>1. Types' /\ UNCHANGED <<ops, invoice, logged, mcf>>
  BY CreateTyped DEF TInv, Create
<1>2. worker[w].pc = "entered" /\ worker[w] \in WorkerRows /\ worker[w].op \in Ops
  BY RowOfWorker DEF Create, At, TInv, Holds
<1>3. /\ ~Normal(i) /\ u = invoice[i].uid /\ HoldsRow(worker[w])
      /\ TraceOk(i)
  BY <1>0, <1>2 DEF TInv, TracerOk
<1>4. \A v \in Workers : worker[v].inv = i => v = w
  BY <1>0, OnlyTracer
<1>6. Confirmed(i) = {} \/ (u \in Requests /\ Confirmed(i) = {u} /\ u \in logged)
  <2>1. \A v \in Workers : worker[v].inv = i => worker[v].pc # "answered"
    BY <1>2, <1>4
  <2>2. Confirmed(i) \subseteq {u} /\ Confirmed(i) \subseteq Requests /\ (Confirmed(i) = {} \/ u \in logged)
    BY <1>3, <2>1 DEF TraceOk, Confirmed, Of
  <2> QED BY <2>2
<1>7. u \in Of(i, "pending") => Confirmed(i) = {}
  BY <1>6 DEF Of, Confirmed
<1>8. (u # 0 /\ u \notin logged) \/ u = 0 => Confirmed(i) = {}
  BY <1>6 DEF Requests
(* What became of the worker and of the requests.                           *)
<1>9. \/ \E q \in Requests :
           /\ Created(w, q) /\ emcf'[q].inv = i /\ emcf'[q].st = "pending" /\ Confirmed(i) = {}
      \/ /\ NotCreated(w, "lost") /\ u \in logged
      \/ \E why \in {"refused", "unavailable"} : NotCreated(w, why) /\ Confirmed(i) = {}
  <2>1. CASE u \in Of(Inv(w), "pending") /\ Created(w, u) /\ NoTrouble /\ UNCHANGED emcf
    BY <1>0, <1>7, <2>1 DEF Of, Inv
  <2>2. CASE u # 0 /\ u \in logged /\ NotCreated(w, "lost")
    BY <2>2
  <2>3. CASE (u # 0 => u \notin logged) /\ Post(w)
    <3>1. Confirmed(i) = {}
      BY <1>8, <2>3
    <3>2. \A q \in Of(i, "pending") : q \in Requests /\ emcf[q].inv = i /\ emcf[q].st = "pending"
      BY DEF Of
    <3>3. ASSUME Posted(i)
          PROVE  /\ FreshUid \in Requests /\ emcf'[FreshUid].inv = i /\ emcf'[FreshUid].st = "pending"
                 /\ \A q \in Of(i, "pending") : emcf'[q].inv = i /\ emcf'[q].st = "pending"
      BY <3>2, <3>3, FreshUidIsFresh DEF Posted, TInv, Types
    <3>4. \/ \E q \in Requests : Created(w, q) /\ emcf'[q].inv = i /\ emcf'[q].st = "pending"
          \/ \E why \in {"refused", "unavailable"} : NotCreated(w, why)
      BY <1>0, <2>3, <3>2, <3>3 DEF Post, Inv
    <3> QED BY <3>1, <3>4
  <2> QED BY <1>0, <2>1, <2>2, <2>3 DEF Create
<1>10. /\ \A q \in Requests : \/ emcf'[q] = emcf[q]
                              \/ emcf[q] = NoRequest /\ emcf'[q].inv = i /\ emcf'[q].st = "pending"
  <2>1. CASE Posted(i)
    <3>1. FreshUid \in Requests /\ emcf[FreshUid] = NoRequest /\ emcf' = [emcf EXCEPT ![FreshUid] = [inv |-> i, st |-> "pending"]]
      BY <2>1, FreshUidIsFresh DEF Posted
    <3> QED BY <3>1 DEF TInv, Types
  <2>2. CASE UNCHANGED emcf
    BY <2>2
  <2> QED BY <1>0, <2>1, <2>2 DEF Create, Post, Inv
<1>11. Confirmed(i)' = Confirmed(i) /\ ActiveOps(i)' = ActiveOps(i)
  <2>1. \A q \in Requests : emcf'[q] = emcf[q] \/ (emcf[q].st # "confirmed" /\ emcf'[q].st # "confirmed")
    BY <1>10 DEF NoRequest
  <2>2. Confirmed(i)' = Confirmed(i)
    BY <2>1 DEF Confirmed, Of
  <2> QED BY <1>1, <2>2 DEF ActiveOps
<1> DEFINE Became(x) ==
             /\ worker' = [worker EXCEPT ![w] = x] /\ x.inv = i /\ x.op = worker[w].op /\ x.drop = worker[w].drop
             /\ x.pc \in {"created", "failed"}
             /\ x.pc = "created" => emcf'[x.uid].inv = i /\ emcf'[x.uid].st = "pending" /\ Confirmed(i) = {}
             /\ x.pc = "failed" => \/ x.out = "lost" /\ x.uid = u /\ u \in logged
                                   \/ x.out \in {"refused", "unavailable"} /\ x.uid = 0 /\ Confirmed(i) = {}
<1>12. \E x : Became(x)
  <2>1. ASSUME NEW q \in Requests, Created(w, q), emcf'[q].inv = i, emcf'[q].st = "pending", Confirmed(i) = {}
        PROVE  \E x : Became(x)
    <3> DEFINE x == [worker[w] EXCEPT !.pc = "created", !.uid = q]
    <3>1. x.inv = i /\ x.op = worker[w].op /\ x.drop = worker[w].drop /\ x.pc = "created" /\ x.uid = q
      BY <1>0, <1>2 DEF WorkerRows
    <3>2. worker' = [worker EXCEPT ![w] = x]
      BY <2>1 DEF Created
    <3> HIDE DEF x
    <3> QED BY <2>1, <3>1, <3>2
  <2>2. ASSUME NEW why \in {"lost", "refused", "unavailable"}, NotCreated(w, why),
               IF why = "lost" THEN u \in logged ELSE Confirmed(i) = {}
        PROVE  \E x : Became(x)
    <3> DEFINE x == [worker[w] EXCEPT !.pc = "failed", !.out = why, !.uid = IF why = "lost" THEN @ ELSE 0]
    <3>1. /\ x.inv = i /\ x.op = worker[w].op /\ x.drop = worker[w].drop /\ x.pc = "failed" /\ x.out = why
          /\ x.uid = IF why = "lost" THEN u ELSE 0
      BY <1>0, <1>2 DEF WorkerRows
    <3>2. worker' = [worker EXCEPT ![w] = x]
      BY <2>2 DEF NotCreated
    <3> HIDE DEF x
    <3> QED BY <2>2, <3>1, <3>2
  <2> QED BY <1>9, <2>1, <2>2
<1>13. PICK x : Became(x)
  BY <1>12
<1>14. worker'[w] = x /\ \A v \in Workers : v # w => worker'[v] = worker[v]
  BY <1>13, Moved DEF TInv
<1>15. Alone'
  BY <1>0, <1>13, KeepsAlone DEF TInv
<1>16. Shapes'
  BY <1>1 DEF TInv, Shapes
<1>17. StepOn(i)
  <2>1. \A q \in Requests : emcf'[q] = emcf[q] \/ (emcf[q].inv \in {i, None} /\ emcf'[q].inv = i)
    BY <1>10 DEF NoRequest
  <2>2. \A v \in Workers : worker'[v] = worker[v] \/ (worker[v].inv = i /\ worker'[v].inv = i)
    BY <1>0, <1>13, <1>14
  <2> QED BY <1>1, <2>1, <2>2 DEF StepOn
<1>18. TraceOk(i)'
  <2>1. Normal(i)' <=> Normal(i)
    BY <1>1 DEF Normal
  <2>2. Confirmed(i) = {} \/ invoice[i].uid \in logged
    BY <1>3, <1>6
  <2> QED BY <1>1, <1>3, <1>11, <2>1, <2>2 DEF TraceOk
<1>19. TracerOk(worker[w])'
  <2>1. HoldsRow(worker[w])'
    BY <1>0, <1>1, <1>3, <1>11, <1>13, <1>14 DEF HoldsRow
  <2>2. ~Normal(i)'
    BY <1>1, <1>3 DEF Normal
  <2> QED BY <1>0, <1>1, <1>2, <1>3, <1>11, <1>13, <1>14, <2>1, <2>2, ChannelsAssumption DEF TracerOk, Unconfirmed
<1>20. \A v \in Workers : worker'[v].inv = i => TracerOk(worker[v])'
  BY <1>4, <1>14, <1>19
<1> QED BY <1>1, <1>2, <1>15, <1>16, <1>17, <1>18, <1>20, TraceOnInvoice

(* A commit that keeps the attempt active, or cancels it.                   *)
LEMMA CommitTraced ==
  ASSUME TInv, Types', NEW w \in Workers, NEW i \in Invoices, NEW op \in Ops, i = worker[w].inv, op = worker[w].op,
         HoldsRow(worker[w]), NEW st \in {"None", "Cancelled"},
         ops' = Committed(w, st), UNCHANGED <<logged, emcf, mcf>>,
         NEW x, worker' = [worker EXCEPT ![w] = x], x.inv = i, x.op = op,
         \A j \in Invoices : j # i => invoice'[j] = invoice[j],
         ~Normal(i)', invoice'[i].code = invoice[i].code, invoice'[i].status # "Normalized", ~Normal(i),
         Confirmed(i) = {} \/ invoice'[i].uid = invoice[i].uid, worker[w].pc # "answered",
         TracerOk(worker[w])'
  PROVE  TInv'
<1>1. Commits(i, op, st)
  <2>1. UNCHANGED <<emcf, mcf>> /\ OneActiveOf(i) /\ Types /\ Shapes
    BY ActiveTrace DEF OneActiveOf, TInv
  <2> QED BY <2>1, CommitRows
<1>2. worker'[w] = x /\ \A v \in Workers : v # w => worker'[v] = worker[v]
  BY Moved DEF TInv
<1>3. Alone'
  BY KeepsAlone DEF TInv
<1>4. \A v \in Workers : worker[v].inv = i => v = w
  BY OnlyTracer
<1>5. op # 0
  BY DEF Ops
<1>6. \A v \in Workers : v # w => worker[v].op # op
  BY <1>5 DEF TInv, Alone
<1>7. StepOn(i)
  <2>1. \A v \in Workers : worker'[v] = worker[v] \/ (worker[v].inv = i /\ worker'[v].inv = i)
    BY <1>2
  <2>2. \A v \in Workers : worker[v].inv # i /\ worker[v].op \in Ops /\ ops[worker[v].op] = NoOp =>
                             ops'[worker[v].op] = NoOp
    BY <1>1, <1>6 DEF Commits
  <2> QED BY <1>1, <2>1, <2>2 DEF StepOn, Commits
<1>8. invoice[i].code = 0
  BY DEF TInv, TraceOk, Normal
<1>9. TraceOk(i)'
  <2>1. Confirmed(i)' = Confirmed(i)
    BY DEF Confirmed, Of
  <2>4. Confirmed(i) \subseteq {invoice[i].uid} /\ (Confirmed(i) = {} \/ invoice[i].uid \in logged)
    BY <1>4 DEF TInv, TraceOk
  <2>5. \A o \in mcf' : ops'[o].inv # i
    <3>1. \A o \in ActiveOps(i) : o \notin mcf
      <4>1. \A o \in ActiveOps(i) : ActiveOps(i) = {o}
        BY ActiveTrace
      <4> QED BY <4>1 DEF HoldsRow, TInv, Shapes
    <3>2. \A o \in mcf : ops[o].inv # i
      BY <3>1 DEF TInv, TraceOk
    <3> QED BY <1>1, <3>2 DEF Commits
  <2>2. \A o \in ActiveOps(i)' : o = op
    BY <1>1 DEF Commits
  <2> QED BY <1>1, <1>8, <2>1, <2>2, <2>4, <2>5 DEF TraceOk, Commits
<1>10. \A v \in Workers : worker'[v].inv = i => TracerOk(worker[v])'
  BY <1>2, <1>4
<1> QED BY <1>1, <1>3, <1>7, <1>9, <1>10, TraceOnInvoice DEF Commits

LEMMA HolderTrace ==
  ASSUME TInv, NEW w \in Workers, worker[w].pc \in {"entered", "created", "failed"}
  PROVE  \E i \in Invoices, op \in Ops :
           /\ i = worker[w].inv /\ op = worker[w].op /\ HoldsRow(worker[w]) /\ ~Normal(i)
           /\ invoice[i].status # "Normalized" /\ invoice[i].code = 0 /\ invoice[i] \in InvRows
           /\ worker[w] \in WorkerRows
<1>1. worker[w].inv \in Invoices /\ worker[w].op \in Ops /\ worker[w] \in WorkerRows
  BY RowOfWorker DEF TInv, Holds
<1>2. PICK i \in Invoices, op \in Ops : i = worker[w].inv /\ op = worker[w].op
  BY <1>1
<1>3. HoldsRow(worker[w]) /\ ~Normal(i)
  BY <1>2 DEF TInv, TracerOk
<1>4. TraceOk(i) /\ invoice[i] \in InvRows
  BY DEF TInv, Types
<1> QED BY <1>1, <1>2, <1>3, <1>4 DEF TraceOk, Normal

LEMMA NotReceivedTraced ==
  ASSUME TInv, NEW w \in Workers, NotReceived(w)
  PROVE  TInv'
<1>1. Types' /\ worker[w].pc = "failed" /\ worker[w].out = "unavailable"
  BY CommitTyped DEF TInv, NotReceived, At
<1>2. PICK i \in Invoices, op \in Ops :
           /\ i = worker[w].inv /\ op = worker[w].op /\ HoldsRow(worker[w]) /\ ~Normal(i)
           /\ invoice[i].status # "Normalized" /\ invoice[i].code = 0 /\ invoice[i] \in InvRows
           /\ worker[w] \in WorkerRows
  BY <1>1, HolderTrace
<1> DEFINE x == [worker[w] EXCEPT !.pc = "alternate", !.drop = {}]
           st == "Cancelled"
<1>3. x.inv = i /\ x.op = op /\ x.pc = "alternate" /\ x.drop = {}
  BY <1>2 DEF WorkerRows
<1>4. worker' = [worker EXCEPT ![w] = x]
  BY DEF NotReceived
<1>5. ops' = Committed(w, st) /\ UNCHANGED <<logged, emcf, mcf>> /\ invoice' = [invoice EXCEPT ![i].uid = 0]
  BY <1>2 DEF NotReceived, Inv
<1>6. st \in {"None", "Cancelled"} /\ st = "Cancelled"
  OBVIOUS
<1> HIDE DEF x, st
<1>7. Commits(i, op, st)
  <2>1. OneActiveOf(i) /\ Types /\ Shapes
    BY ActiveTrace DEF OneActiveOf, TInv
  <2> QED BY <1>2, <1>5, <1>6, <2>1, CommitRows
<1>8. Confirmed(i) = {}
  BY <1>1, <1>2 DEF TInv, TracerOk
<1>9. /\ invoice'[i].code = 0 /\ invoice'[i].status # "Normalized"
      /\ \A j \in Invoices : j # i => invoice'[j] = invoice[j]
  BY <1>2, <1>5 DEF TInv, Types, InvRows
<1>10. ~Normal(i)'
  BY <1>9 DEF Normal
<1>11. worker'[w] = x
  BY <1>4, Moved DEF TInv
<1>12. TracerOk(worker[w])'
  BY <1>3, <1>6, <1>7, <1>8, <1>10, <1>11, ChannelsAssumption DEF TracerOk, Commits
<1>13. /\ invoice'[i].code = invoice[i].code /\ invoice'[i].status # "Normalized" /\ worker[w].pc # "answered"
       /\ Confirmed(i) = {} \/ invoice'[i].uid = invoice[i].uid
  BY <1>1, <1>2, <1>8, <1>9
<1>14. /\ Types' /\ i = worker[w].inv /\ op = worker[w].op /\ HoldsRow(worker[w]) /\ ~Normal(i)
       /\ x.inv = i /\ x.op = op
  BY <1>1, <1>2, <1>3
<1>15. ops' = Committed(w, st) /\ UNCHANGED <<logged, emcf, mcf>> /\ \A j \in Invoices : j # i => invoice'[j] = invoice[j]
  BY <1>5, <1>9
<1> QED BY <1>4, <1>6, <1>10, <1>12, <1>13, <1>14, <1>15, CommitTraced

LEMMA FailsTraced ==
  ASSUME TInv, NEW w \in Workers, Fails(w)
  PROVE  TInv'
<1>1. Types' /\ worker[w].pc = "failed"
  BY CommitTyped DEF TInv, Fails, At
<1>2. PICK i \in Invoices, op \in Ops :
           /\ i = worker[w].inv /\ op = worker[w].op /\ HoldsRow(worker[w]) /\ ~Normal(i)
           /\ invoice[i].status # "Normalized" /\ invoice[i].code = 0 /\ invoice[i] \in InvRows
           /\ worker[w] \in WorkerRows
  BY <1>1, HolderTrace
<1> DEFINE x == [worker[w] EXCEPT !.pc = "finish", !.drop = {}]
           st == "None"
<1>3. x.inv = i /\ x.op = op /\ x.pc = "finish" /\ x.drop = {} /\ x.out = worker[w].out
  BY <1>2 DEF WorkerRows
<1>4. worker' = [worker EXCEPT ![w] = x]
  BY DEF Fails
<1>5. /\ ops' = Committed(w, st) /\ UNCHANGED <<logged, emcf, mcf>>
      /\ invoice' = [invoice EXCEPT ![i].status = "Error", ![i].uid = worker[w].uid]
  BY <1>2 DEF Fails, Inv
<1>6. st \in {"None", "Cancelled"} /\ st = "None"
  OBVIOUS
<1> HIDE DEF x, st
<1>7. Commits(i, op, st)
  <2>1. OneActiveOf(i) /\ Types /\ Shapes
    BY ActiveTrace DEF OneActiveOf, TInv
  <2> QED BY <1>2, <1>5, <1>6, <2>1, CommitRows
<1>8. \/ worker[w].out = "lost" /\ worker[w].uid = invoice[i].uid /\ worker[w].uid \in logged
      \/ worker[w].out \in {"refused", "unavailable"} /\ Confirmed(i) = {}
  BY <1>1, <1>2 DEF TInv, TracerOk
<1>9. /\ invoice'[i].code = 0 /\ invoice'[i].status = "Error" /\ invoice'[i].uid = worker[w].uid
      /\ \A j \in Invoices : j # i => invoice'[j] = invoice[j]
  BY <1>2, <1>5 DEF TInv, Types, InvRows
<1>10. ~Normal(i)'
  BY <1>9 DEF Normal
<1>11. worker'[w] = x
  BY <1>4, Moved DEF TInv
<1>12. TracerOk(worker[w])'
  <2>1. Attempts(worker[w])'
    BY <1>3, <1>6, <1>7, <1>11 DEF Attempts, Commits
  <2> QED BY <1>3, <1>10, <1>11, <2>1, ChannelsAssumption DEF TracerOk
<1>13. /\ invoice'[i].code = invoice[i].code /\ invoice'[i].status # "Normalized" /\ worker[w].pc # "answered"
       /\ Confirmed(i) = {} \/ invoice'[i].uid = invoice[i].uid
  BY <1>1, <1>2, <1>8, <1>9
<1>14. /\ Types' /\ i = worker[w].inv /\ op = worker[w].op /\ HoldsRow(worker[w]) /\ ~Normal(i)
       /\ x.inv = i /\ x.op = op
  BY <1>1, <1>2, <1>3
<1>15. ops' = Committed(w, st) /\ UNCHANGED <<logged, emcf, mcf>> /\ \A j \in Invoices : j # i => invoice'[j] = invoice[j]
  BY <1>5, <1>9
<1> QED BY <1>4, <1>6, <1>10, <1>12, <1>13, <1>14, <1>15, CommitTraced

LEMMA InvalidTraced ==
  ASSUME TInv, NEW w \in Workers, Invalid(w)
  PROVE  TInv'
<1>1. Types' /\ worker[w].pc = "entered"
  BY CommitTyped DEF TInv, Invalid, At
<1>2. PICK i \in Invoices, op \in Ops :
           /\ i = worker[w].inv /\ op = worker[w].op /\ HoldsRow(worker[w]) /\ ~Normal(i)
           /\ invoice[i].status # "Normalized" /\ invoice[i].code = 0 /\ invoice[i] \in InvRows
           /\ worker[w] \in WorkerRows
  BY <1>1, HolderTrace
<1> DEFINE x == [worker[w] EXCEPT !.pc = "finish", !.out = "refused", !.drop = {}]
           st == "None"
<1>3. x.inv = i /\ x.op = op /\ x.pc = "finish" /\ x.drop = {} /\ x.out = "refused"
  BY <1>2 DEF WorkerRows
<1>4. worker' = [worker EXCEPT ![w] = x]
  BY DEF Invalid
<1>5. /\ ops' = Committed(w, st) /\ UNCHANGED <<logged, emcf, mcf>>
      /\ invoice' = [invoice EXCEPT ![i].status = "Error"]
  BY <1>2 DEF Invalid, Inv
<1>6. st \in {"None", "Cancelled"} /\ st = "None"
  OBVIOUS
<1> HIDE DEF x, st
<1>7. Commits(i, op, st)
  <2>1. OneActiveOf(i) /\ Types /\ Shapes
    BY ActiveTrace DEF OneActiveOf, TInv
  <2> QED BY <1>2, <1>5, <1>6, <2>1, CommitRows
<1>9. /\ invoice'[i].code = 0 /\ invoice'[i].status = "Error" /\ invoice'[i].uid = invoice[i].uid
      /\ \A j \in Invoices : j # i => invoice'[j] = invoice[j]
  BY <1>2, <1>5 DEF TInv, Types, InvRows
<1>10. ~Normal(i)'
  BY <1>9 DEF Normal
<1>11. worker'[w] = x
  BY <1>4, Moved DEF TInv
<1>12. TracerOk(worker[w])'
  <2>1. Attempts(worker[w])'
    BY <1>3, <1>6, <1>7, <1>11 DEF Attempts, Commits
  <2> QED BY <1>3, <1>7, <1>10, <1>11, <2>1, ChannelsAssumption DEF TracerOk, Commits
<1>13. /\ invoice'[i].code = invoice[i].code /\ invoice'[i].status # "Normalized" /\ worker[w].pc # "answered"
       /\ Confirmed(i) = {} \/ invoice'[i].uid = invoice[i].uid
  BY <1>1, <1>2, <1>9
<1>14. /\ Types' /\ i = worker[w].inv /\ op = worker[w].op /\ HoldsRow(worker[w]) /\ ~Normal(i)
       /\ x.inv = i /\ x.op = op
  BY <1>1, <1>2, <1>3
<1>15. ops' = Committed(w, st) /\ UNCHANGED <<logged, emcf, mcf>> /\ \A j \in Invoices : j # i => invoice'[j] = invoice[j]
  BY <1>5, <1>9
<1> QED BY <1>4, <1>6, <1>10, <1>12, <1>13, <1>14, <1>15, CommitTraced

LEMMA KeepUidTraced ==
  ASSUME TInv, NEW w \in Workers, KeepUid(w)
  PROVE  TInv'
<1>1. Types' /\ worker[w].pc = "created"
  BY CommitTyped DEF TInv, KeepUid, At
<1>2. PICK i \in Invoices, op \in Ops :
           /\ i = worker[w].inv /\ op = worker[w].op /\ HoldsRow(worker[w]) /\ ~Normal(i)
           /\ invoice[i].status # "Normalized" /\ invoice[i].code = 0 /\ invoice[i] \in InvRows
           /\ worker[w] \in WorkerRows
  BY <1>1, HolderTrace
<1> DEFINE x == [worker[w] EXCEPT !.pc = "kept", !.drop = {}]
           st == "None"
<1>3. x.inv = i /\ x.op = op /\ x.pc = "kept" /\ x.drop = {} /\ x.uid = worker[w].uid
  BY <1>2 DEF WorkerRows
<1>4. worker' = [worker EXCEPT ![w] = x]
  BY DEF KeepUid
<1>5. /\ ops' = Committed(w, st) /\ UNCHANGED <<logged, emcf, mcf>>
      /\ invoice' = [invoice EXCEPT ![i].uid = worker[w].uid]
  BY <1>2 DEF KeepUid, Inv
<1>6. st \in {"None", "Cancelled"} /\ st = "None"
  OBVIOUS
<1> HIDE DEF x, st
<1>7. Commits(i, op, st)
  <2>1. OneActiveOf(i) /\ Types /\ Shapes
    BY ActiveTrace DEF OneActiveOf, TInv
  <2> QED BY <1>2, <1>5, <1>6, <2>1, CommitRows
<1>8. Confirmed(i) = {} /\ emcf[worker[w].uid].inv = i /\ emcf[worker[w].uid].st \in Unconfirmed
  BY <1>1, <1>2 DEF TInv, TracerOk
<1>9. /\ invoice'[i].code = 0 /\ invoice'[i].status # "Normalized" /\ invoice'[i].uid = worker[w].uid
      /\ \A j \in Invoices : j # i => invoice'[j] = invoice[j]
  BY <1>2, <1>5 DEF TInv, Types, InvRows
<1>10. ~Normal(i)'
  BY <1>9 DEF Normal
<1>11. worker'[w] = x
  BY <1>4, Moved DEF TInv
<1>12. TracerOk(worker[w])'
  <2>1. Attempts(worker[w])'
    BY <1>3, <1>6, <1>7, <1>11 DEF Attempts, Commits
  <2>2. Confirmed(i)' = {}
    BY <1>5, <1>8 DEF Confirmed, Of
  <2> QED BY <1>3, <1>5, <1>8, <1>9, <1>10, <1>11, <2>1, <2>2, ChannelsAssumption DEF TracerOk
<1>13. /\ invoice'[i].code = invoice[i].code /\ invoice'[i].status # "Normalized" /\ worker[w].pc # "answered"
       /\ Confirmed(i) = {} \/ invoice'[i].uid = invoice[i].uid
  BY <1>1, <1>2, <1>8, <1>9
<1>14. /\ Types' /\ i = worker[w].inv /\ op = worker[w].op /\ HoldsRow(worker[w]) /\ ~Normal(i)
       /\ x.inv = i /\ x.op = op
  BY <1>1, <1>2, <1>3
<1>15. ops' = Committed(w, st) /\ UNCHANGED <<logged, emcf, mcf>> /\ \A j \in Invoices : j # i => invoice'[j] = invoice[j]
  BY <1>5, <1>9
<1> QED BY <1>4, <1>6, <1>10, <1>12, <1>13, <1>14, <1>15, CommitTraced

LEMMA ConfirmedKept ==
  ASSUME NEW j, \A q \in Requests : emcf'[q] = emcf[q] \/ (emcf[q].st # "confirmed" /\ emcf'[q].st # "confirmed")
  PROVE  Confirmed(j)' = Confirmed(j)
BY DEF Confirmed, Of

(* A worker that has made its first commit owns the only active operation.  *)
LEMMA AttemptTrace ==
  ASSUME TInv, NEW w \in Workers, worker[w].pc \in {"kept", "answered", "finish"}
  PROVE  \E i \in Invoices, op \in Ops :
           /\ i = worker[w].inv /\ op = worker[w].op /\ worker[w].drop = {} /\ ActiveOps(i) = {op}
           /\ ops[op].ch = "e-MCF" /\ ops[op].inv = i /\ ops[op].st \in {"Pending", "Uncertain"}
           /\ op \notin mcf /\ (Normal(i) \/ \A o \in mcf : ops[o].inv # i)
           /\ invoice[i] \in InvRows /\ worker[w] \in WorkerRows
<1>1. worker[w].inv \in Invoices /\ worker[w].op \in Ops /\ worker[w] \in WorkerRows
  BY RowOfWorker DEF TInv, Holds
<1>2. PICK i \in Invoices, op \in Ops : i = worker[w].inv /\ op = worker[w].op
  BY <1>1
<1>3. op \in ActiveOps(i) /\ ops[op].ch = "e-MCF" /\ worker[w].drop = {}
  BY <1>2 DEF TInv, TracerOk, Attempts
<1>4. ActiveOps(i) = {op} /\ ops[op].inv = i /\ ops[op].st \in {"Pending", "Uncertain"}
  BY <1>3, ActiveTrace
<1>5. op \notin mcf
  BY <1>3 DEF TInv, Shapes
<1>6. Normal(i) \/ \A o \in mcf : ops[o].inv # i
  BY <1>4, <1>5 DEF TInv, TraceOk
<1>7. invoice[i] \in InvRows
  BY DEF TInv, Types
<1> QED BY <1>1, <1>2, <1>3, <1>4, <1>5, <1>6, <1>7

LEMMA AttemptTraced ==
  ASSUME TInv, Types', NEW w \in Workers, NEW i \in Invoices, i = worker[w].inv,
         NEW x, worker' = [worker EXCEPT ![w] = x], x.inv = i, x.op = worker[w].op,
         UNCHANGED <<ops, mcf>>, logged \subseteq logged',
         \A u \in Requests : emcf'[u] = emcf[u] \/ (emcf[u].inv = i /\ emcf'[u].inv = i),
         \A j \in Invoices : j # i => invoice'[j] = invoice[j],
         TraceOk(i)', TracerOk(worker[w])'
  PROVE  TInv'
<1>1. worker'[w] = x /\ \A v \in Workers : v # w => worker'[v] = worker[v]
  BY Moved DEF TInv
<1>2. Alone'
  BY KeepsAlone DEF TInv
<1>3. Shapes'
  BY DEF TInv, Shapes
<1>4. StepOn(i)
  <2>1. \A v \in Workers : worker'[v] = worker[v] \/ (worker[v].inv = i /\ worker'[v].inv = i)
    BY <1>1
  <2> QED BY <2>1 DEF StepOn
<1>5. \A v \in Workers : worker[v].inv = i => v = w
  BY OnlyTracer
<1>6. \A v \in Workers : worker'[v].inv = i => TracerOk(worker[v])'
  BY <1>1, <1>5
<1> QED BY <1>2, <1>3, <1>4, <1>6, TraceOnInvoice

LEMMA DiffersTraced ==
  ASSUME TInv, NEW w \in Workers, Differs(w)
  PROVE  TInv'
<1>1. Types' /\ worker[w].pc = "kept"
  BY ConfirmTyped DEF TInv, Differs, At
<1>2. PICK i \in Invoices, op \in Ops :
           /\ i = worker[w].inv /\ op = worker[w].op /\ worker[w].drop = {} /\ ActiveOps(i) = {op}
           /\ ops[op].ch = "e-MCF" /\ ops[op].inv = i /\ ops[op].st \in {"Pending", "Uncertain"}
           /\ op \notin mcf /\ (Normal(i) \/ \A o \in mcf : ops[o].inv # i)
           /\ invoice[i] \in InvRows /\ worker[w] \in WorkerRows
  BY <1>1, AttemptTrace
<1>3. PICK u \in Requests : u = worker[w].uid
  BY <1>1, RowOfWorker DEF TInv, Holds
<1>4. ~Normal(i) /\ Confirmed(i) = {} /\ emcf[u].inv = i /\ emcf[u].st \in Unconfirmed
  BY <1>1, <1>2, <1>3 DEF TInv, TracerOk
<1> DEFINE x == [worker[w] EXCEPT !.pc = "finish", !.out = "refused"]
<1>5. x.inv = i /\ x.op = op /\ x.pc = "finish" /\ x.drop = {} /\ x.out = "refused"
  BY <1>2 DEF WorkerRows
<1>6. worker' = [worker EXCEPT ![w] = x]
  BY DEF Differs, Outcome
<1> HIDE DEF x
<1>7. /\ UNCHANGED <<ops, mcf, logged>>
      /\ invoice' = [invoice EXCEPT ![i].uid = 0, ![i].status = "Error"]
      /\ emcf' = [emcf EXCEPT ![u].st = IF @ = "pending" THEN "closed" ELSE @] \/ UNCHANGED emcf
  BY <1>2, <1>3 DEF Differs, Cancel, Inv
<1>8. \A q \in Requests : \/ emcf'[q] = emcf[q]
                          \/ /\ emcf[q].inv = i /\ emcf'[q].inv = i
                             /\ emcf[q].st # "confirmed" /\ emcf'[q].st # "confirmed"
  BY <1>4, <1>7 DEF TInv, Types, ReqRows, Unconfirmed
<1>9. Confirmed(i)' = {} /\ ActiveOps(i)' = {op}
  <2>1. Confirmed(i)' = Confirmed(i)
    BY <1>8, ConfirmedKept
  <2> QED BY <1>2, <1>4, <1>7, <2>1 DEF ActiveOps
<1>10. /\ invoice'[i].code = 0 /\ invoice'[i].status = "Error"
       /\ \A j \in Invoices : j # i => invoice'[j] = invoice[j]
  <2>1. invoice[i].code = 0
    BY <1>4 DEF TInv, TraceOk, Normal
  <2> QED BY <1>2, <1>7, <2>1 DEF TInv, Types, InvRows
<1>11. ~Normal(i)' /\ worker'[w] = x
  BY <1>6, <1>10, Moved DEF Normal, TInv
<1>12. TraceOk(i)'
  BY <1>2, <1>4, <1>7, <1>9, <1>10, <1>11 DEF TraceOk
<1>13. TracerOk(worker[w])'
  <2>1. Attempts(worker[w])'
    BY <1>2, <1>5, <1>7, <1>9, <1>11 DEF Attempts
  <2> QED BY <1>5, <1>9, <1>11, <2>1, ChannelsAssumption DEF TracerOk
<1>14. /\ x.inv = i /\ x.op = worker[w].op /\ UNCHANGED <<ops, mcf>> /\ logged \subseteq logged'
       /\ \A q \in Requests : emcf'[q] = emcf[q] \/ (emcf[q].inv = i /\ emcf'[q].inv = i)
  BY <1>2, <1>5, <1>7, <1>8
<1> QED BY <1>1, <1>2, <1>6, <1>10, <1>12, <1>13, <1>14, AttemptTraced

LEMMA ConfirmTraced ==
  ASSUME TInv, NEW w \in Workers, Confirm(w)
  PROVE  TInv'
<1>1. Types' /\ worker[w].pc = "kept"
  BY ConfirmTyped DEF TInv, Confirm, At
<1>2. PICK i \in Invoices, op \in Ops :
           /\ i = worker[w].inv /\ op = worker[w].op /\ worker[w].drop = {} /\ ActiveOps(i) = {op}
           /\ ops[op].ch = "e-MCF" /\ ops[op].inv = i /\ ops[op].st \in {"Pending", "Uncertain"}
           /\ op \notin mcf /\ (Normal(i) \/ \A o \in mcf : ops[o].inv # i)
           /\ invoice[i] \in InvRows /\ worker[w] \in WorkerRows
  BY <1>1, AttemptTrace
<1>3. PICK u \in Requests : u = worker[w].uid
  BY <1>1, RowOfWorker DEF TInv, Holds
<1>4. ~Normal(i) /\ Confirmed(i) = {} /\ emcf[u].inv = i /\ invoice[i].uid = u
  BY <1>1, <1>2, <1>3 DEF TInv, TracerOk
<1>5. UNCHANGED <<ops, mcf, logged, invoice>>
  BY DEF Confirm
<1>6. \/ emcf' = [emcf EXCEPT ![u].st = "confirmed"] /\ \E a \in {"ok", "lost"} : Answer(w, a)
      \/ UNCHANGED emcf /\ \E a \in {"lost", "refused"} : Answer(w, a)
  BY <1>3 DEF Confirm
<1>7. /\ \A q \in Requests : emcf'[q] = emcf[q] \/ (emcf[q].inv = i /\ emcf'[q].inv = i)
      /\ emcf'[u].inv = i
  BY <1>4, <1>6 DEF TInv, Types, ReqRows
<1>8. PICK a : Answer(w, a) /\ Confirmed(i)' \subseteq {u} /\ (a = "refused" => Confirmed(i)' = {})
  <2>1. emcf' = [emcf EXCEPT ![u].st = "confirmed"] => Confirmed(i)' \subseteq {u}
    BY <1>4 DEF Confirmed, Of, TInv, Types, ReqRows
  <2>2. UNCHANGED emcf => Confirmed(i)' = {}
    BY <1>4 DEF Confirmed, Of
  <2> QED BY <1>6, <2>1, <2>2
<1> DEFINE x == [worker[w] EXCEPT !.pc = "answered", !.out = a]
<1>9. x.inv = i /\ x.op = op /\ x.pc = "answered" /\ x.drop = {} /\ x.out = a /\ x.uid = u
  BY <1>2, <1>3 DEF WorkerRows
<1>10. worker' = [worker EXCEPT ![w] = x]
  BY <1>8 DEF Answer
<1> HIDE DEF x
<1>11. worker'[w] = x
  BY <1>10, Moved DEF TInv
<1>12. ~Normal(i)' /\ ActiveOps(i)' = {op}
  BY <1>2, <1>4, <1>5 DEF Normal, ActiveOps
<1>13. TraceOk(i)'
  <2>1. worker'[w].inv = i /\ worker'[w].pc = "answered"
    BY <1>9, <1>11
  <2>2. TraceOk(i)
    BY DEF TInv
  <2> QED BY <1>2, <1>4, <1>5, <1>8, <1>12, <2>1, <2>2 DEF TraceOk
<1>14. TracerOk(worker[w])'
  <2>1. Attempts(worker[w])'
    BY <1>2, <1>5, <1>9, <1>11, <1>12 DEF Attempts
  <2> QED BY <1>4, <1>5, <1>7, <1>8, <1>9, <1>11, <1>12, <2>1, ChannelsAssumption DEF TracerOk
<1>15. x.inv = i /\ x.op = worker[w].op
  BY <1>2, <1>9
<1> QED BY <1>1, <1>2, <1>5, <1>7, <1>10, <1>13, <1>14, <1>15, AttemptTraced

LEMMA RecordTraced ==
  ASSUME TInv, NEW w \in Workers, Record(w)
  PROVE  TInv'
<1>1. Types' /\ worker[w].pc = "answered"
  BY ConfirmTyped DEF TInv, Record, At
<1>2. PICK i \in Invoices, op \in Ops :
           /\ i = worker[w].inv /\ op = worker[w].op /\ worker[w].drop = {} /\ ActiveOps(i) = {op}
           /\ ops[op].ch = "e-MCF" /\ ops[op].inv = i /\ ops[op].st \in {"Pending", "Uncertain"}
           /\ op \notin mcf /\ (Normal(i) \/ \A o \in mcf : ops[o].inv # i)
           /\ invoice[i] \in InvRows /\ worker[w] \in WorkerRows
  BY <1>1, AttemptTrace
<1>3. PICK u \in Requests : u = worker[w].uid
  BY <1>1, RowOfWorker DEF TInv, Holds
<1>4. /\ ~Normal(i) /\ emcf[u].inv = i /\ invoice[i].uid = u
      /\ worker[w].out \in {"ok", "lost", "refused"} /\ Confirmed(i) \subseteq {u}
      /\ worker[w].out = "refused" => Confirmed(i) = {}
  <2>1. Holds(worker[w]) /\ TracerOk(worker[w]) /\ TraceOk(i)
    BY DEF TInv, Types
  <2> QED BY <1>1, <1>2, <1>3, <2>1 DEF TracerOk, TraceOk, Holds
<1> DEFINE x == [worker[w] EXCEPT !.pc = "finish"]
<1>5. x.inv = i /\ x.op = op /\ x.pc = "finish" /\ x.drop = {} /\ x.out = worker[w].out
  BY <1>2 DEF WorkerRows
<1>6. worker' = [worker EXCEPT ![w] = x]
  BY DEF Record, Goto
<1> HIDE DEF x
<1>7. worker'[w] = x
  BY <1>6, Moved DEF TInv
<1>8. UNCHANGED <<ops, mcf>> /\ logged' = logged \cup {u}
  BY <1>3 DEF Record
<1>9. /\ worker[w].out = "ok" => UNCHANGED emcf /\ invoice' = [invoice EXCEPT ![i] = [@ EXCEPT !.status = "Normalized", !.code = u]]
      /\ worker[w].out = "lost" => UNCHANGED emcf /\ invoice' = [invoice EXCEPT ![i].status = "Error"]
      /\ worker[w].out = "refused" =>
           /\ emcf' = [emcf EXCEPT ![u].st = IF @ = "pending" THEN "closed" ELSE @] \/ UNCHANGED emcf
           /\ invoice' = [invoice EXCEPT ![i].status = "Error", ![i].uid = 0]
  BY <1>2, <1>3 DEF Record, Cancel, Inv
<1>10. /\ worker[w].out = "ok" => invoice'[i].status = "Normalized" /\ invoice'[i].code = u
       /\ worker[w].out = "lost" => invoice'[i].status = "Error" /\ invoice'[i].code = invoice[i].code /\ invoice'[i].uid = u
       /\ worker[w].out = "refused" => invoice'[i].status = "Error" /\ invoice'[i].code = invoice[i].code
  <2>1. invoice \in [Invoices -> InvRows] /\ invoice[i].uid = u
    BY <1>4 DEF TInv, Types
  <2>2. CASE worker[w].out = "ok"
    BY <1>9, <2>1, <2>2 DEF InvRows
  <2>3. CASE worker[w].out = "lost"
    BY <1>9, <2>1, <2>3 DEF InvRows
  <2>4. CASE worker[w].out = "refused"
    BY <1>9, <2>1, <2>4 DEF InvRows
  <2> QED BY <1>4, <2>2, <2>3, <2>4
<1>11. \A j \in Invoices : j # i => invoice'[j] = invoice[j]
  BY <1>4, <1>9 DEF TInv, Types
<1>12. \A q \in Requests : \/ emcf'[q] = emcf[q]
                           \/ /\ emcf[q].inv = i /\ emcf'[q].inv = i
                              /\ emcf[q].st # "confirmed" /\ emcf'[q].st # "confirmed"
  BY <1>4, <1>9 DEF TInv, Types, ReqRows
<1>13. Confirmed(i)' = Confirmed(i)
  BY <1>12, ConfirmedKept
<1>14. ActiveOps(i)' = {op}
  BY <1>2, <1>8 DEF ActiveOps
<1>15. invoice[i].code = 0 /\ u # 0
  BY <1>4 DEF TInv, TraceOk, Normal, Requests
<1>16. TraceOk(i)'
  <2>1. /\ worker[w].out = "ok" => Normal(i)' /\ invoice'[i].status = "Normalized" /\ invoice'[i].code # 0
        /\ worker[w].out \in {"lost", "refused"} => ~Normal(i)' /\ invoice'[i].status # "Normalized" /\ invoice'[i].code = 0
    BY <1>10, <1>15 DEF Normal
  <2>2. worker[w].out = "lost" => invoice'[i].uid = u /\ u \in logged'
    BY <1>8, <1>10
  <2>3. \A o \in ActiveOps(i)' : o = op
    BY <1>14
  <2>4. ops'[op].ch # "MCF" /\ \A o \in mcf' : ops'[o].inv # i
    BY <1>2, <1>4, <1>8
  <2> QED BY <1>4, <1>13, <2>1, <2>2, <2>3, <2>4 DEF TraceOk
<1>17. TracerOk(worker[w])'
  <2>1. Attempts(worker[w])'
    BY <1>2, <1>5, <1>7, <1>8, <1>14 DEF Attempts
  <2> QED BY <1>5, <1>7, <2>1, ChannelsAssumption DEF TracerOk
<1>18. /\ x.inv = i /\ x.op = worker[w].op /\ UNCHANGED <<ops, mcf>> /\ logged \subseteq logged'
       /\ \A q \in Requests : emcf'[q] = emcf[q] \/ (emcf[q].inv = i /\ emcf'[q].inv = i)
  BY <1>2, <1>5, <1>8, <1>12
<1> QED BY <1>1, <1>2, <1>6, <1>11, <1>16, <1>17, <1>18, AttemptTraced

LEMMA FinishTraced ==
  ASSUME TInv, NEW w \in Workers, Finish(w)
  PROVE  TInv'
<1>1. Types' /\ worker[w].pc = "finish"
  BY ReleasedTyped DEF TInv, Finish, At
<1>2. PICK i \in Invoices, op \in Ops :
           /\ i = worker[w].inv /\ op = worker[w].op /\ worker[w].drop = {} /\ ActiveOps(i) = {op}
           /\ ops[op].ch = "e-MCF" /\ ops[op].inv = i /\ ops[op].st \in {"Pending", "Uncertain"}
           /\ op \notin mcf /\ (Normal(i) \/ \A o \in mcf : ops[o].inv # i)
           /\ invoice[i] \in InvRows /\ worker[w] \in WorkerRows
  BY <1>1, AttemptTrace
<1>3. TraceOk(i)
  BY DEF TInv
<1>4. UNCHANGED <<invoice, logged, emcf, mcf>> /\ worker' = [worker EXCEPT ![w] = Idle]
  BY DEF Finish
<1>5. /\ ops'[op].inv = i /\ ops'[op].ch = "e-MCF" /\ ops'[op].st = Closed(w)
      /\ \A o \in Ops : o # op => ops'[o] = ops[o]
  BY <1>2 DEF Finish, TInv, Types, OpRows
<1>6. Closed(w) \in {"Normalized", "Cancelled", "Uncertain", "Rejected"}
  BY DEF Closed
<1>7. worker'[w] = Idle /\ \A v \in Workers : v # w => worker'[v] = worker[v]
  BY <1>4, Moved DEF TInv
<1>8. ActiveOps(i)' \subseteq {op}
  BY <1>2, <1>5 DEF ActiveOps
<1>9. Confirmed(i)' = Confirmed(i)
  BY <1>4 DEF Confirmed, Of
<1>10. Shapes'
  <2>1. OpOk(ops'[op])
    BY <1>5, <1>6 DEF OpOk
  <2>2. \A o \in mcf : ops'[o] = ops[o]
    BY <1>2, <1>5 DEF TInv, Types
  <2> QED BY <1>4, <1>5, <2>1, <2>2 DEF TInv, Shapes
<1>11. Alone'
  BY <1>4, KeepsAlone DEF TInv
<1>12. \A v \in Workers : worker[v].inv = i => v = w
  BY <1>2, OnlyTracer
<1>13. StepOn(i)
  <2>1. \A o \in Ops : ops'[o] = ops[o] \/ ((ops[o] = NoOp \/ ops[o].inv = i) /\ ops'[o].inv = i)
    BY <1>2, <1>5
  <2>2. \A v \in Workers : worker'[v] = worker[v] \/ (worker[v].inv = i /\ worker'[v] = Idle)
    BY <1>2, <1>7
  <2>3. ops[op] # NoOp
    BY <1>2 DEF NoOp
  <2>4. \A o \in Ops : ops[o] = NoOp => ops'[o] = NoOp
    BY <1>5, <2>3
  <2> QED BY <1>4, <2>1, <2>2, <2>4 DEF StepOn
<1>14. TraceOk(i)'
  <2>1. Normal(i)' <=> Normal(i)
    BY <1>4 DEF Normal
  <2>2. \A o \in ActiveOps(i)' : o = op
    BY <1>8
  <2>3. ops'[op].ch # "MCF"
    BY <1>5
  <2>4. ~Normal(i) => Confirmed(i) = {} \/ invoice[i].uid \in logged
    BY <1>1, <1>3, <1>12 DEF TraceOk
  <2>5. ~Normal(i) => \A o \in mcf' : ops'[o].inv # i
    BY <1>2, <1>4, <1>5 DEF TInv, Types
  <2> QED BY <1>3, <1>4, <1>9, <2>1, <2>2, <2>3, <2>4, <2>5 DEF TraceOk
<1>15. \A v \in Workers : worker'[v].inv # i
  BY <1>7, <1>12, ChannelsAssumption DEF Idle
<1> QED BY <1>1, <1>10, <1>11, <1>13, <1>14, <1>15, TraceOnInvoice

(* An attempt that raised, wherever it was: a CONFIRM that was sent is in    *)
(* the log, under the UID that the invoice carries.                          *)
LEMMA RaisesTraced ==
  ASSUME TInv, NEW w \in Workers, Raises(w)
  PROVE  TInv'
<1>1. Types' /\ logged \subseteq logged'
  BY ReleasedTyped, RaisesTyped DEF TInv
<1>2. PICK i \in Invoices, op \in Ops : i = worker[w].inv /\ op = worker[w].op
  BY RaisesTyped DEF TInv
<1>3. worker[w].pc \in {"entered", "created", "kept", "answered"} /\ UNCHANGED <<invoice, emcf, mcf>>
      /\ worker' = [worker EXCEPT ![w] = Idle]
  BY DEF Raises
<1>4. ~Normal(i) /\ HoldsRow(worker[w]) /\ TraceOk(i)
  <2>1. ~Normal(i) /\ (HoldsRow(worker[w]) \/ Attempts(worker[w]))
    BY <1>2, <1>3 DEF TInv, TracerOk
  <2>2. Attempts(worker[w]) => HoldsRow(worker[w])
    BY DEF Attempts, HoldsRow
  <2> QED BY <2>1, <2>2 DEF TInv
<1>5. Commits(i, op, "Rejected")
  <2>1. UNCHANGED <<emcf, mcf>> /\ OneActiveOf(i) /\ Types /\ Shapes
    BY <1>3, ActiveTrace DEF OneActiveOf, TInv
  <2>2. /\ \A o \in Ops : o # op => ops'[o] = Committed(w, "Rejected")[o]
        /\ LET c == Committed(w, "Rejected")[op] IN ops'[op].inv = c.inv /\ ops'[op].ch = c.ch /\ ops'[op].st = c.st
    BY <1>2, RaisesTyped DEF TInv
  <2> QED BY <1>2, <1>4, <2>1, <2>2, CommitRows
<1>6. worker'[w] = Idle /\ \A v \in Workers : v # w => worker'[v] = worker[v]
  BY <1>3, Moved DEF TInv
<1>7. Alone'
  BY <1>3, KeepsAlone DEF TInv
<1>8. \A v \in Workers : worker[v].inv = i => v = w
  BY <1>2, OnlyTracer
<1>9. \A v \in Workers : v # w => worker[v].op # op
  BY <1>2 DEF TInv, Alone, Ops
<1>10. StepOn(i)
  <2>1. \A v \in Workers : worker'[v] = worker[v] \/ (worker[v].inv = i /\ worker'[v] = Idle)
    BY <1>2, <1>6
  <2>2. \A v \in Workers : worker[v].inv # i /\ worker[v].op \in Ops /\ ops[worker[v].op] = NoOp =>
                             ops'[worker[v].op] = NoOp
    BY <1>2, <1>5, <1>9 DEF Commits
  <2> QED BY <1>1, <1>3, <1>5, <2>1, <2>2 DEF StepOn, Commits
<1>11. TraceOk(i)'
  <2>1. Confirmed(i)' = Confirmed(i) /\ (Normal(i)' <=> Normal(i))
    BY <1>3 DEF Confirmed, Of, Normal
  <2>2. worker[w].pc = "answered" => invoice[i].uid \in logged'
    <3>1. worker[w].pc = "answered" => worker[w].uid = invoice[i].uid
      BY <1>2 DEF TInv, TracerOk
    <3>2. worker[w].pc = "answered" => logged' = logged \cup {worker[w].uid}
      BY DEF Raises, At
    <3> QED BY <3>1, <3>2
  <2>3. Confirmed(i) \subseteq {invoice[i].uid} /\ (Confirmed(i) = {} \/ invoice[i].uid \in logged')
    BY <1>1, <1>4, <1>8, <2>2 DEF TraceOk
  <2>4. \A o \in mcf' : ops'[o].inv # i
    <3>1. \A o \in ActiveOps(i) : o \notin mcf
      <4>1. \A o \in ActiveOps(i) : ActiveOps(i) = {o}
        BY ActiveTrace
      <4> QED BY <1>2, <1>4, <4>1 DEF HoldsRow, TInv, Shapes
    <3>2. \A o \in mcf : ops[o].inv # i
      BY <1>4, <3>1 DEF TraceOk
    <3> QED BY <1>3, <1>5, <3>2 DEF Commits
  <2>5. ActiveOps(i)' = {}
    BY <1>5 DEF Commits
  <2> QED BY <1>3, <1>4, <2>1, <2>3, <2>4, <2>5 DEF TraceOk
<1>12. \A v \in Workers : worker'[v].inv # i
  BY <1>6, <1>8, ChannelsAssumption DEF Idle
<1> QED BY <1>1, <1>5, <1>7, <1>10, <1>11, <1>12, TraceOnInvoice DEF Commits

LEMMA ExpireTraced ==
  ASSUME TInv, NEW u \in Requests, Expire(u)
  PROVE  TInv'
<1>1. Types'
  BY DecisionsTyped DEF TInv
<1>2. /\ emcf[u].st = "pending" /\ emcf'[u].inv = emcf[u].inv /\ emcf'[u].st = "closed"
      /\ \A v \in Requests : v # u => emcf'[v] = emcf[v]
      /\ UNCHANGED <<ops, invoice, logged, mcf, worker>>
  BY DEF Expire, TInv, Types, ReqRows
<1>3. \A j \in Invoices : SameTrace(j)
  <2> TAKE j \in Invoices
  <2>1. Confirmed(j)' = Confirmed(j)
    BY <1>2, ConfirmedKept
  <2> QED BY <1>2, <2>1 DEF SameTrace, ActiveOps
<1>4. \A j \in Invoices : TraceOk(j)'
  BY <1>2, <1>3, TraceKept DEF TInv
<1>5. ASSUME NEW w \in Workers PROVE TracerOk(worker[w])'
  <2> DEFINE x == worker[w]
  <2>1. TracerOk(x) /\ Holds(x)
    BY DEF TInv, Types
  <2>2. x.uid \in Requests /\ emcf[x.uid].inv = x.inv =>
           /\ emcf'[x.uid].inv = x.inv
           /\ emcf[x.uid].st \in Unconfirmed => emcf'[x.uid].st \in Unconfirmed
    BY <1>2 DEF Unconfirmed
  <2>3. x = worker[w] /\ x = worker'[w]
    BY <1>2
  <2> HIDE DEF x
  <2>4. x.op \in Ops => (ops[x.op] = NoOp => ops'[x.op] = NoOp) /\ (ops[x.op].inv = x.inv => ops'[x.op].inv = x.inv)
    BY <1>2
  <2> QED BY <1>2, <1>3, <2>1, <2>2, <2>3, <2>4, TracerKept
<1>6. Shapes' /\ Alone'
  BY <1>2 DEF TInv, Shapes, Alone
<1> QED BY <1>1, <1>4, <1>5, <1>6 DEF TInv

(* What an operation that the MCF may still take says of its invoice.        *)
LEMMA WithMcfTrace ==
  ASSUME TInv, NEW o \in Ops, ops[o].st \in {"Queued", "Leased"}
  PROVE  \E i \in Invoices :
           /\ i = ops[o].inv /\ ActiveOps(i) = {o} /\ ops[o].ch = "MCF" /\ ops[o] # NoOp /\ ~Normal(i)
           /\ invoice[i].status # "Normalized" /\ invoice[i].code = 0
           /\ Confirmed(i) \subseteq {invoice[i].uid} /\ (Confirmed(i) = {} \/ invoice[i].uid \in logged)
           /\ \A p \in mcf : ops[p].inv = i => p = o
           /\ \A w \in Workers : worker[w].inv = i =>
                \/ worker[w].pc = "loaded"
                \/ /\ worker[w].pc \in {"entered", "created", "failed"} /\ HoldsRow(worker[w])
                   /\ ops[o].st = "Queued" /\ o \in worker[w].drop
<1>1. ops[o] # NoOp
  BY DEF NoOp
<1>2. PICK i \in Invoices : i = ops[o].inv
  BY <1>1 DEF TInv, Shapes, OpOk
<1>3. ActiveOps(i) = {o} /\ ops[o].ch = "MCF" /\ ~Normal(i)
  <2>1. o \in ActiveOps(i)
    BY <1>2 DEF ActiveOps, Active
  <2> QED BY <2>1, ActiveTrace
<1>4. ASSUME NEW w \in Workers, worker[w].inv = i
      PROVE  \/ worker[w].pc = "loaded"
             \/ /\ worker[w].pc \in {"entered", "created", "failed"} /\ HoldsRow(worker[w])
                /\ ops[o].st = "Queued" /\ o \in worker[w].drop
  <2>1. TracerOk(worker[w]) /\ worker[w].pc \in Stages
    BY RowOfWorker DEF TInv, WorkerRows
  <2>2. worker[w].pc # "idle"
    BY <1>4, <2>1, ChannelsAssumption DEF TracerOk
  <2>3. worker[w].pc \notin {"kept", "answered", "finish"}
    BY <1>3, <1>4, <2>1 DEF TracerOk, Attempts
  <2>4. worker[w].pc # "alternate"
    BY <1>3, <1>4, <2>1 DEF TracerOk
  <2>5. worker[w].pc \in {"entered", "created", "failed"} => HoldsRow(worker[w])
    BY <2>1 DEF TracerOk
  <2>6. HoldsRow(worker[w]) => o \in worker[w].drop /\ ops[o].st = "Queued"
    BY <1>3, <1>4 DEF HoldsRow
  <2> QED BY <2>1, <2>2, <2>3, <2>4, <2>5, <2>6 DEF Stages
<1>5. /\ Confirmed(i) \subseteq {invoice[i].uid} /\ (Confirmed(i) = {} \/ invoice[i].uid \in logged)
      /\ \A p \in mcf : ops[p].inv = i => p = o
  <2>1. \A w \in Workers : worker[w].inv = i => worker[w].pc # "answered"
    BY <1>4
  <2> QED BY <1>3, <2>1 DEF TInv, TraceOk
<1>6. invoice[i].status # "Normalized" /\ invoice[i].code = 0
  BY <1>3 DEF TInv, TraceOk, Normal
<1> QED BY <1>1, <1>2, <1>3, <1>4, <1>5, <1>6

LEMMA LeaseTraced ==
  ASSUME TInv, NEW o \in Ops, Lease(o)
  PROVE  TInv'
<1>1. Types' /\ ops[o].st = "Queued"
  BY McfTyped DEF TInv, Lease
<1>2. PICK i \in Invoices :
           /\ i = ops[o].inv /\ ActiveOps(i) = {o} /\ ops[o].ch = "MCF" /\ ops[o] # NoOp /\ ~Normal(i)
           /\ invoice[i].status # "Normalized" /\ invoice[i].code = 0
           /\ Confirmed(i) \subseteq {invoice[i].uid} /\ (Confirmed(i) = {} \/ invoice[i].uid \in logged)
           /\ \A p \in mcf : ops[p].inv = i => p = o
           /\ \A w \in Workers : worker[w].inv = i =>
                \/ worker[w].pc = "loaded"
                \/ /\ worker[w].pc \in {"entered", "created", "failed"} /\ HoldsRow(worker[w])
                   /\ ops[o].st = "Queued" /\ o \in worker[w].drop
  BY <1>1, WithMcfTrace
<1>3. /\ ops'[o].inv = i /\ ops'[o].ch = "MCF" /\ ops'[o].st = "Leased"
      /\ \A p \in Ops : p # o => ops'[p] = ops[p]
      /\ UNCHANGED <<invoice, logged, emcf, mcf, worker>>
      /\ \A w \in Workers : o \notin worker[w].drop
  BY <1>2 DEF Lease, Unlocked, TInv, Types, OpRows
<1>4. \A w \in Workers : worker[w].inv = i => worker[w].pc = "loaded"
  BY <1>2, <1>3
<1>5. ActiveOps(i)' = {o}
  BY <1>2, <1>3 DEF ActiveOps, Active
<1>6. o \notin mcf
  BY <1>1 DEF TInv, Shapes
<1>7. Confirmed(i)' = Confirmed(i) /\ \A p \in mcf' : ops'[p].inv # i
  BY <1>2, <1>3, <1>6 DEF Confirmed, Of, TInv, Types
<1>9. Shapes'
  <2>1. OpOk(ops'[o])
    BY <1>3 DEF OpOk
  <2>2. \A p \in mcf : ops'[p] = ops[p]
    BY <1>3, <1>6 DEF TInv, Types
  <2> QED BY <1>3, <2>1, <2>2 DEF TInv, Shapes
<1>10. Alone'
  BY <1>3 DEF TInv, Alone
<1>11. StepOn(i)
  BY <1>2, <1>3 DEF StepOn
<1>12. TraceOk(i)'
  <2>1. ~Normal(i)'
    BY <1>2, <1>3 DEF Normal
  <2> QED BY <1>2, <1>3, <1>5, <1>7, <2>1 DEF TraceOk
<1>13. \A w \in Workers : worker'[w].inv = i => TracerOk(worker[w])'
  <2> SUFFICES ASSUME NEW w \in Workers, worker[w].inv = i PROVE TracerOk(worker[w])'
    BY <1>3
  <2>1. worker[w].pc = "loaded" /\ TracerOk(worker[w])
    BY <1>4 DEF TInv
  <2> QED BY <1>3, <2>1 DEF TracerOk, Normal
<1> QED BY <1>1, <1>9, <1>10, <1>11, <1>12, <1>13, TraceOnInvoice

LEMMA RegisterTraced ==
  ASSUME TInv, NEW o \in Ops, Register(o)
  PROVE  TInv'
<1>1. Types' /\ ops[o].st = "Leased"
  BY McfTyped DEF TInv, Register
<1>2. PICK i \in Invoices :
           /\ i = ops[o].inv /\ ActiveOps(i) = {o} /\ ops[o].ch = "MCF" /\ ops[o] # NoOp /\ ~Normal(i)
           /\ invoice[i].status # "Normalized" /\ invoice[i].code = 0
           /\ Confirmed(i) \subseteq {invoice[i].uid} /\ (Confirmed(i) = {} \/ invoice[i].uid \in logged)
           /\ \A p \in mcf : ops[p].inv = i => p = o
           /\ \A w \in Workers : worker[w].inv = i =>
                \/ worker[w].pc = "loaded"
                \/ /\ worker[w].pc \in {"entered", "created", "failed"} /\ HoldsRow(worker[w])
                   /\ ops[o].st = "Queued" /\ o \in worker[w].drop
  BY <1>1, WithMcfTrace
<1>3. mcf' = mcf \cup {o} /\ UNCHANGED <<ops, invoice, logged, emcf, worker>>
  BY DEF Register
<1>4. \A w \in Workers : worker[w].inv = i => worker[w].pc = "loaded"
  BY <1>1, <1>2
<1>5. ActiveOps(i)' = {o}
  BY <1>2, <1>3 DEF ActiveOps
<1>7. Confirmed(i)' = Confirmed(i)
  BY <1>3 DEF Confirmed, Of
<1>8. Shapes' /\ Alone'
  BY <1>1, <1>2, <1>3 DEF TInv, Shapes, Alone
<1>9. StepOn(i)
  BY <1>2, <1>3 DEF StepOn
<1>10. TraceOk(i)'
  <2>1. ~Normal(i)'
    BY <1>2, <1>3 DEF Normal
  <2>2. \A p \in mcf' : ops'[p].inv = i => p = o
    BY <1>2, <1>3
  <2> QED BY <1>1, <1>2, <1>3, <1>5, <1>7, <2>1, <2>2 DEF TraceOk
<1>11. \A w \in Workers : worker'[w].inv = i => TracerOk(worker[w])'
  <2> SUFFICES ASSUME NEW w \in Workers, worker[w].inv = i PROVE TracerOk(worker[w])'
    BY <1>3
  <2>1. worker[w].pc = "loaded" /\ TracerOk(worker[w])
    BY <1>4 DEF TInv
  <2> QED BY <1>3, <2>1 DEF TracerOk, Normal
<1> QED BY <1>1, <1>8, <1>9, <1>10, <1>11, TraceOnInvoice

LEMMA ResultTraced ==
  ASSUME TInv, "twice" \notin Windows, NEW o \in Ops, Result(o)
  PROVE  TInv'
<1>1. Types' /\ ops[o].st = "Leased"
  BY McfTyped DEF TInv, Result
<1>2. PICK i \in Invoices :
           /\ i = ops[o].inv /\ ActiveOps(i) = {o} /\ ops[o].ch = "MCF" /\ ops[o] # NoOp /\ ~Normal(i)
           /\ invoice[i].status # "Normalized" /\ invoice[i].code = 0
           /\ Confirmed(i) \subseteq {invoice[i].uid} /\ (Confirmed(i) = {} \/ invoice[i].uid \in logged)
           /\ \A p \in mcf : ops[p].inv = i => p = o
           /\ \A w \in Workers : worker[w].inv = i =>
                \/ worker[w].pc = "loaded"
                \/ /\ worker[w].pc \in {"entered", "created", "failed"} /\ HoldsRow(worker[w])
                   /\ ops[o].st = "Queued" /\ o \in worker[w].drop
  BY <1>1, WithMcfTrace
<1>3. UNCHANGED <<logged, emcf, mcf, worker>>
  BY DEF Result
<1>4. \A w \in Workers : worker[w].inv # i
  BY <1>1, <1>2 DEF Result, Loading, At
<1>7. Alone'
  BY <1>3 DEF TInv, Alone
<1>8. ASSUME NEW c \in {0, MaxRequests + o}, NEW s \in {"Normalized", "Rejected"},
             ops' = [ops EXCEPT ![o].st = s],
             \/ s = "Normalized" /\ o \in mcf /\ invoice' = [invoice EXCEPT ![i] = [@ EXCEPT !.status = "Normalized", !.code = MaxRequests + o]]
             \/ s = "Rejected" /\ o \notin mcf /\ invoice' = [invoice EXCEPT ![i].status = "Error"]
      PROVE  TInv'
  <2>1. /\ ops'[o].inv = i /\ ops'[o].ch = "MCF" /\ ops'[o].st = s
        /\ \A p \in Ops : p # o => ops'[p] = ops[p]
    BY <1>2, <1>8 DEF TInv, Types, OpRows
  <2>2. ActiveOps(i)' = {}
    BY <1>2, <2>1 DEF ActiveOps, Active
  <2>3. Confirmed(i)' = Confirmed(i)
    BY <1>3 DEF Confirmed, Of
  <2>4. /\ s = "Normalized" => invoice'[i].status = "Normalized" /\ invoice'[i].code = MaxRequests + o
        /\ s = "Rejected" => invoice'[i].status = "Error" /\ invoice'[i].code = 0
        /\ \A j \in Invoices : j # i => invoice'[j] = invoice[j]
    <3>1. invoice \in [Invoices -> InvRows]
      BY DEF TInv, Types
    <3>2. CASE s = "Normalized"
      <4>1. invoice' = [invoice EXCEPT ![i] = [@ EXCEPT !.status = "Normalized", !.code = MaxRequests + o]]
        BY <1>8, <3>2
      <4>2. /\ invoice'[i] = [invoice[i] EXCEPT !.status = "Normalized", !.code = MaxRequests + o]
            /\ \A j \in Invoices : j # i => invoice'[j] = invoice[j]
        BY <3>1, <4>1
      <4>3. invoice[i] \in InvRows
        BY <3>1
      <4>4. invoice'[i].status = "Normalized" /\ invoice'[i].code = MaxRequests + o
        BY <4>2, <4>3 DEF InvRows
      <4> QED BY <3>2, <4>2, <4>4
    <3>3. CASE s = "Rejected"
      BY <1>2, <1>8, <3>1, <3>3 DEF InvRows
    <3> QED BY <3>2, <3>3
  <2>5. MaxRequests + o # 0
    BY Bounds DEF Ops
  <2>6. TraceOk(i)'
    <3>1. s = "Rejected" => \A p \in mcf' : ops'[p].inv # i
      BY <1>2, <1>3, <1>8, <2>1 DEF TInv, Types
    <3>2. s = "Rejected" => invoice'[i].uid = invoice[i].uid
      BY <1>8 DEF TInv, Types, InvRows
    <3> QED BY <1>2, <1>3, <1>8, <2>2, <2>3, <2>4, <2>5, <3>1, <3>2 DEF TraceOk, Normal
  <2>7. Shapes'
    <3>1. OpOk(ops'[o])
      BY <2>1 DEF OpOk
    <3>2. o \in mcf => s = "Normalized"
      BY <1>8
    <3>3. \A p \in mcf : p # o => ops'[p] = ops[p]
      BY <2>1 DEF TInv, Types
    <3> QED BY <1>3, <2>1, <3>1, <3>2, <3>3 DEF TInv, Shapes
  <2>8. StepOn(i)
    <3>1. \A p \in Ops : ops'[p] = ops[p] \/ ((ops[p] = NoOp \/ ops[p].inv = i) /\ ops'[p].inv = i)
      BY <1>2, <2>1
    <3>2. \A p \in Ops : ops[p] = NoOp => ops'[p] = NoOp
      BY <1>2, <2>1
    <3> QED BY <1>3, <2>4, <3>1, <3>2 DEF StepOn
  <2> QED BY <1>1, <1>3, <1>4, <1>7, <2>6, <2>7, <2>8, TraceOnInvoice
<1>9. ASSUME o \notin mcf, FreeOps # {},
             ops' = [ops EXCEPT ![o].st = "Rejected", ![NewOp] = [ops[o] EXCEPT !.st = "Queued"]],
             invoice' = [invoice EXCEPT ![i].status = "Pending"]
      PROVE  TInv'
  <2> DEFINE n == NewOp
  <2>1. n \in Ops /\ ops[n] = NoOp /\ \A w \in Workers : worker[w].op # n
    BY <1>9, NewOpIsFree DEF FreeOps
  <2>2. n # o /\ n \notin mcf
    BY <1>2, <2>1, ChannelsAssumption DEF NoOp, TInv, Shapes, Channels
  <2>3. ops' = [ops EXCEPT ![o].st = "Rejected", ![n] = [ops[o] EXCEPT !.st = "Queued"]]
    BY <1>9
  <2> HIDE DEF n
  <2>4. /\ ops'[o].inv = i /\ ops'[o].ch = "MCF" /\ ops'[o].st = "Rejected"
        /\ ops'[n].inv = i /\ ops'[n].ch = "MCF" /\ ops'[n].st = "Queued"
        /\ \A p \in Ops : p # o /\ p # n => ops'[p] = ops[p]
    BY <1>2, <2>1, <2>2, <2>3 DEF TInv, Types, OpRows
  <2>5. ActiveOps(i)' = {n}
    <3>1. n \in ActiveOps(i)'
      BY <2>1, <2>4 DEF ActiveOps, Active
    <3>2. \A p \in Ops : p # n => p \notin ActiveOps(i)'
      BY <1>2, <2>4 DEF ActiveOps, Active
    <3> QED BY <3>1, <3>2 DEF ActiveOps
  <2>6. \A p \in mcf : ops'[p] = ops[p]
    BY <1>9, <2>2, <2>4 DEF TInv, Types
  <2>7. Confirmed(i)' = Confirmed(i) /\ \A p \in mcf' : ops'[p].inv # i
    BY <1>2, <1>3, <1>9, <2>6 DEF Confirmed, Of
  <2>8. /\ invoice'[i].status = "Pending" /\ invoice'[i].code = 0 /\ invoice'[i].uid = invoice[i].uid
        /\ \A j \in Invoices : j # i => invoice'[j] = invoice[j]
    BY <1>2, <1>9 DEF TInv, Types, InvRows
  <2>9. TraceOk(i)'
    BY <1>2, <1>3, <2>5, <2>7, <2>8 DEF TraceOk, Normal
  <2>10. Shapes'
    <3>1. OpOk(ops'[o]) /\ OpOk(ops'[n])
      BY <2>4 DEF OpOk
    <3> QED BY <1>3, <2>4, <2>6, <3>1 DEF TInv, Shapes
  <2>11. StepOn(i)
    <3>1. \A p \in Ops : ops'[p] = ops[p] \/ ((ops[p] = NoOp \/ ops[p].inv = i) /\ ops'[p].inv = i)
      BY <1>2, <2>1, <2>4
    <3>2. \A w \in Workers : worker[w].op \in Ops /\ ops[worker[w].op] = NoOp => ops'[worker[w].op] = NoOp
      BY <1>2, <2>1, <2>4
    <3> QED BY <1>3, <2>8, <3>1, <3>2 DEF StepOn
  <2> QED BY <1>1, <1>3, <1>4, <1>7, <2>9, <2>10, <2>11, TraceOnInvoice
<1>10. \/ /\ o \in mcf /\ ops' = [ops EXCEPT ![o].st = "Normalized"]
          /\ invoice' = [invoice EXCEPT ![i] = [@ EXCEPT !.status = "Normalized", !.code = MaxRequests + o]]
       \/ /\ o \notin mcf /\ ops' = [ops EXCEPT ![o].st = "Rejected"]
          /\ invoice' = [invoice EXCEPT ![i].status = "Error"]
       \/ /\ o \notin mcf /\ FreeOps # {}
          /\ ops' = [ops EXCEPT ![o].st = "Rejected", ![NewOp] = [ops[o] EXCEPT !.st = "Queued"]]
          /\ invoice' = [invoice EXCEPT ![i].status = "Pending"]
  BY <1>2 DEF Result
<1> QED BY <1>8, <1>9, <1>10

LEMMA WithdrawTraced ==
  ASSUME TInv, Types', NEW D \in SUBSET Ops, Withdraw(D), UNCHANGED <<logged, emcf, mcf, worker>>
  PROVE  TInv'
<1>1. /\ \A o \in D : ops[o].st = "Queued" /\ Unlocked(o) /\ RowFree(ops[o].inv)
      /\ ops' = Drop(D)
      /\ \A i \in Invoices : invoice'[i] = IF \E o \in D : ops[o].inv = i
                                           THEN [invoice[i] EXCEPT !.status = "Pending"] ELSE invoice[i]
  BY DEF Withdraw
<1>2. /\ \A o \in Ops : o \notin D => ops'[o] = ops[o]
      /\ \A o \in Ops : ops'[o].inv = ops[o].inv /\ ops'[o].ch = ops[o].ch
      /\ \A o \in D : ops'[o].st = "Cancelled"
  BY <1>1, DropTyped DEF TInv
<1>3. \A o \in D : o \notin mcf
  BY <1>1 DEF TInv, Shapes
<1>4. ASSUME NEW i \in Invoices PROVE Confirmed(i)' = Confirmed(i)
  BY DEF Confirmed, Of
<1>5. Shapes'
  <2>1. \A o \in D : OpOk(ops'[o])
    <3>1. \A o \in D : ops[o] # NoOp
      BY <1>1 DEF NoOp
    <3> QED BY <1>1, <1>2, <3>1 DEF OpOk, TInv, Shapes
  <2>2. \A o \in mcf : ops'[o] = ops[o]
    BY <1>2, <1>3 DEF TInv, Types
  <2> QED BY <1>2, <2>1, <2>2 DEF TInv, Shapes
<1>6. Alone'
  BY DEF TInv, Alone
(* The invoices of the operations withdrawn.                                *)
<1>7. ASSUME NEW o \in D, NEW i \in Invoices, ops[o].inv = i
      PROVE  /\ TraceOk(i)'
             /\ \A w \in Workers : worker[w].inv = i => TracerOk(worker[w])'
  <2>1. /\ ActiveOps(i) = {o} /\ ~Normal(i) /\ invoice[i].code = 0
        /\ \A w \in Workers : worker[w].inv = i => worker[w].pc = "loaded"
        /\ Confirmed(i) \subseteq {invoice[i].uid} /\ (Confirmed(i) = {} \/ invoice[i].uid \in logged)
        /\ \A p \in mcf : ops[p].inv # i
    <3>1. ops[o].st \in {"Queued", "Leased"} /\ \A w \in Workers : o \notin worker[w].drop
      BY <1>1 DEF Unlocked
    <3> QED BY <1>3, <1>7, <3>1, WithMcfTrace
  <2>2. ActiveOps(i)' = {}
    BY <1>2, <2>1 DEF ActiveOps, Active
  <2>3. \A p \in mcf' : ops'[p].inv # i
    BY <1>2, <2>1 DEF TInv, Types
  <2>4. invoice'[i].status = "Pending" /\ invoice'[i].code = 0 /\ invoice'[i].uid = invoice[i].uid
    <3>1. invoice[i] \in InvRows
      BY DEF TInv, Types
    <3>2. invoice'[i] = [invoice[i] EXCEPT !.status = "Pending"]
      BY <1>1, <1>7
    <3> QED BY <2>1, <3>1, <3>2 DEF InvRows
  <2>5. ~Normal(i)'
    BY <2>4 DEF Normal
  <2>6. TraceOk(i)'
    BY <1>4, <2>1, <2>2, <2>3, <2>4, <2>5 DEF TraceOk
  <2>7. ASSUME NEW w \in Workers, worker[w].inv = i PROVE TracerOk(worker[w])'
    <3>1. worker[w].pc = "loaded" /\ TracerOk(worker[w]) /\ worker'[w] = worker[w]
      BY <2>1, <2>7 DEF TInv
    <3> QED BY <2>4, <2>5, <2>7, <3>1 DEF TracerOk
  <2> QED BY <2>6, <2>7
(* The others.                                                              *)
<1>8. ASSUME NEW i \in Invoices, \A o \in D : ops[o].inv # i
      PROVE  SameTrace(i) /\ TraceOk(i)'
  <2>1. SameTrace(i)
    <3>1. ActiveOps(i)' = ActiveOps(i) /\ \A o \in ActiveOps(i) : ops'[o] = ops[o]
      BY <1>2, <1>8 DEF ActiveOps
    <3>2. invoice'[i] = invoice[i]
      BY <1>1, <1>8
    <3>3. \A o \in mcf' : ops'[o].inv = i => o \in mcf /\ ops[o].inv = i
      BY <1>2 DEF TInv, Types
    <3> QED BY <1>4, <3>1, <3>2, <3>3 DEF SameTrace
  <2> QED BY <2>1, TraceKept DEF TInv
<1>9. \A i \in Invoices : TraceOk(i)'
  BY <1>7, <1>8
<1>10. ASSUME NEW w \in Workers PROVE TracerOk(worker[w])'
  <2> DEFINE x == worker[w]
  <2>1. CASE \E o \in D : ops[o].inv = x.inv /\ x.inv \in Invoices
    BY <1>7, <2>1
  <2>2. CASE ~ \E o \in D : ops[o].inv = x.inv /\ x.inv \in Invoices
    <3>1. x.inv \in Invoices => SameTrace(x.inv)
      BY <1>8, <2>2
    <3>2. TracerOk(x) /\ Holds(x) /\ x = worker[w] /\ x = worker'[w]
      BY DEF TInv, Types
    <3>3. x.op \in Ops => (ops[x.op] = NoOp => ops'[x.op] = NoOp) /\ (ops[x.op].inv = x.inv => ops'[x.op].inv = x.inv)
      <4>1. \A o \in D : ops[o] # NoOp
        BY <1>1 DEF NoOp
      <4> QED BY <1>2, <4>1
    <3>4. x.uid \in Requests /\ emcf[x.uid].inv = x.inv =>
            /\ emcf'[x.uid].inv = x.inv
            /\ emcf[x.uid].st \in Unconfirmed => emcf'[x.uid].st \in Unconfirmed
      OBVIOUS
    <3> HIDE DEF x
    <3> QED BY <3>1, <3>2, <3>3, <3>4, TracerKept
  <2> QED BY <2>1, <2>2
<1> QED BY <1>5, <1>6, <1>9, <1>10 DEF TInv

LEMMA DecisionsTraced ==
  ASSUME TInv,
         \/ \E o \in Ops : StaleQueue(o)
         \/ \E to \in {None, OtherChannel(Priority)} : Switch(to)
         \/ RerouteQueued
  PROVE  TInv'
<1>1. Types'
  BY DecisionsTyped DEF TInv
<1>2. UNCHANGED <<logged, emcf, mcf, worker>>
  BY DEF StaleQueue, Switch, RerouteQueued
<1>3. \E D \in SUBSET Ops : Withdraw(D)
  <2>1. CASE \E o \in Ops : StaleQueue(o)
    <3>1. PICK o \in Ops : StaleQueue(o)
      BY <2>1
    <3>2. {o} \in SUBSET Ops /\ Withdraw({o})
      BY <3>1 DEF StaleQueue
    <3> QED BY <3>2
  <2>2. CASE \E to \in {None, OtherChannel(Priority)} : Switch(to)
    BY <2>2 DEF Switch
  <2>3. CASE RerouteQueued
    <3>1. QueuedFallback \in SUBSET Ops
      BY DEF QueuedFallback
    <3> QED BY <2>3, <3>1 DEF RerouteQueued
  <2> QED BY <2>1, <2>2, <2>3
<1> QED BY <1>1, <1>2, <1>3, WithdrawTraced

LEMMA StationTraced == ASSUME TInv, Station \/ Deactivate \/ UNCHANGED vars PROVE TInv'
<1>1. Types'
  <2>1. CASE Station \/ Deactivate
    BY <2>1, DecisionsTyped DEF TInv
  <2>2. CASE UNCHANGED vars
    BY <2>2 DEF vars, TInv, Types
  <2> QED BY <2>1, <2>2
<1>2. UNCHANGED <<ops, invoice, logged, emcf, mcf, worker>>
  BY DEF Station, Deactivate, vars
<1>3. \A j \in Invoices : SameTrace(j)
  BY <1>2 DEF SameTrace, ActiveOps, Confirmed, Of, TInv, Types
<1>4. \A j \in Invoices : TraceOk(j)'
  BY <1>2, <1>3, TraceKept DEF TInv
<1>5. ASSUME NEW w \in Workers PROVE TracerOk(worker[w])'
  <2> DEFINE x == worker[w]
  <2>1. TracerOk(x) /\ Holds(x) /\ x = worker[w] /\ x = worker'[w]
    BY <1>2 DEF TInv, Types
  <2>2. x.op \in Ops => (ops[x.op] = NoOp => ops'[x.op] = NoOp) /\ (ops[x.op].inv = x.inv => ops'[x.op].inv = x.inv)
    BY <1>2
  <2>3. x.uid \in Requests /\ emcf[x.uid].inv = x.inv =>
          /\ emcf'[x.uid].inv = x.inv
          /\ emcf[x.uid].st \in Unconfirmed => emcf'[x.uid].st \in Unconfirmed
    BY <1>2
  <2> HIDE DEF x
  <2> QED BY <1>2, <1>3, <2>1, <2>2, <2>3, TracerKept
<1>6. Shapes' /\ Alone'
  BY <1>2 DEF TInv, Shapes, Alone
<1> QED BY <1>1, <1>4, <1>5, <1>6 DEF TInv

LEMMA ReleaseTraced ==
  ASSUME TInv, "twice" \notin Windows, NEW i \in Invoices, Release(i)
  PROVE  TInv'
<1> DEFINE D == {o \in Ops : ops[o].inv = i /\ ops[o].ch = "e-MCF" /\ ops[o].st \in Active}
<1>1. Types'
  BY DecisionsTyped DEF TInv
<1>2. /\ invoice[i].uid # 0 /\ invoice[i].status # "Normalized" /\ invoice[i].code = 0
      /\ Of(i, "confirmed") = {} /\ \A w \in Workers : worker[w].inv # i
      /\ invoice' = [invoice EXCEPT ![i].uid = 0, ![i].status = "Pending"]
      /\ ops' = Drop(D)
      /\ UNCHANGED <<logged, emcf, mcf, worker>>
  BY DEF Release, BusyOn
<1>3. D \subseteq ActiveOps(i) /\ \A o \in D : ops[o].inv = i /\ ops[o].ch = "e-MCF" /\ o \in Ops /\ ops[o] # NoOp
  BY DEF ActiveOps, NoOp, Active
<1>4. /\ \A o \in Ops : o \notin D => ops'[o] = ops[o]
      /\ \A o \in D : ops'[o].inv = i /\ ops'[o].ch = "e-MCF" /\ ops'[o].st = "Cancelled"
  BY <1>2, <1>3, DropTyped DEF TInv
<1> HIDE DEF D
<1>5. ~Normal(i)
  BY <1>2 DEF Normal
<1>6. \A o \in D : o \notin mcf
  BY <1>3 DEF TInv, Shapes
<1>7. \A o \in mcf : ops'[o] = ops[o]
  BY <1>4, <1>6 DEF TInv, Types
<1>8. Confirmed(i)' = {}
  BY <1>2 DEF Confirmed, Of
<1>9. ActiveOps(i)' = ActiveOps(i) \ D
  BY <1>3, <1>4 DEF ActiveOps, Active
<1>10. /\ invoice'[i].code = 0 /\ invoice'[i].status = "Pending"
       /\ \A j \in Invoices : j # i => invoice'[j] = invoice[j]
  BY <1>2 DEF TInv, Types, InvRows
<1>11. TraceOk(i)'
  <2>1. ~Normal(i)'
    BY <1>10 DEF Normal
  <2>2. TraceOk(i)
    BY DEF TInv
  <2>3. \A o \in ActiveOps(i)' : o \in ActiveOps(i) /\ ops'[o] = ops[o]
    BY <1>4, <1>9 DEF ActiveOps
  <2>4. \A o \in mcf' : ops'[o].inv = i => o \in ActiveOps(i)'
    BY <1>2, <1>5, <1>6, <1>7, <1>9, <2>2 DEF TraceOk
  <2> QED BY <1>5, <1>8, <1>10, <2>1, <2>2, <2>3, <2>4 DEF TraceOk
<1>12. Shapes'
  <2>1. \A o \in D : OpOk(ops'[o])
    BY <1>4 DEF OpOk
  <2> QED BY <1>2, <1>4, <1>7, <2>1 DEF TInv, Shapes
<1>13. Alone'
  BY <1>2 DEF TInv, Alone
<1>14. StepOn(i)
  BY <1>2, <1>3, <1>4, <1>10 DEF StepOn
<1> QED BY <1>1, <1>2, <1>11, <1>12, <1>13, <1>14, TraceOnInvoice

LEMMA TInvNext == Windows \cap {"twice", "unlogged"} = {} /\ TInv /\ [Next]_vars => TInv'
<1> SUFFICES ASSUME "twice" \notin Windows, "unlogged" \notin Windows, TInv, [Next]_vars PROVE TInv'
  OBVIOUS
<1>1. CASE \E w \in Workers :
             \/ \E i \in Invoices : Begin(w, i)
             \/ Enter(w) \/ Create(w) \/ NotReceived(w) \/ Fails(w) \/ TakeOver(w) \/ Invalid(w)
             \/ KeepUid(w) \/ Differs(w) \/ Confirm(w) \/ Record(w) \/ Finish(w) \/ Raises(w) \/ Crash(w)
  BY <1>1, BeginTraced, EnterTraced, CreateTraced, NotReceivedTraced, FailsTraced, TakeOverTraced, InvalidTraced,
     KeepUidTraced, DiffersTraced, ConfirmTraced, RecordTraced, FinishTraced, RaisesTraced, CrashTraced
<1>2. CASE \E u \in Requests : Expire(u)
  BY <1>2, ExpireTraced
<1>3. CASE \E o \in Ops : Lease(o) \/ Register(o) \/ Result(o)
  BY <1>3, LeaseTraced, RegisterTraced, ResultTraced
<1>4. CASE \E i \in Invoices : Release(i)
  BY <1>4, ReleaseTraced
<1>5. CASE \/ \E o \in Ops : StaleQueue(o)
           \/ \E to \in {None, OtherChannel(Priority)} : Switch(to)
           \/ RerouteQueued
  BY <1>5, DecisionsTraced
<1>6. CASE Station \/ Deactivate \/ UNCHANGED vars
  BY <1>6, StationTraced
<1> QED BY <1>1, <1>2, <1>3, <1>4, <1>5, <1>6 DEF Next

LEMMA Traced == ASSUME Windows \cap {"twice", "unlogged"} = {} PROVE Spec => []TInv
<1>1. Init => TInv
  BY TInvInit
<1>2. TInv /\ [Next]_vars => TInv'
  BY TInvNext
<1> QED BY <1>1, <1>2, PTL DEF Spec

LEMMA ActiveAlone == TInv => OneActive
BY AtMostOne DEF TInv, TraceOk, OneActive

LEMMA StillRemembered == TInv => NothingForgotten
<1> SUFFICES ASSUME TInv, NEW i \in Invoices, ~Normal(i), ~BusyOn(i)
             PROVE  /\ Of(i, "confirmed") \subseteq {invoice[i].uid} \cap logged
                    /\ \A o \in mcf : ops[o].inv = i => ops[o].st \in InFlight
  BY DEF NothingForgotten
<1>1. TraceOk(i) /\ Shapes
  BY DEF TInv
<1>2. Of(i, "confirmed") \subseteq {invoice[i].uid} \cap logged
  BY <1>1 DEF TraceOk, Confirmed, BusyOn
<1>3. \A o \in mcf : ops[o].inv = i => ops[o].st \in InFlight
  BY <1>1 DEF TraceOk, Shapes, ActiveOps, Active, InFlight
<1> QED BY <1>2, <1>3

(* journal.py:4: one operation is active on an invoice, all channels         *)
(* together, also when an attempt raised after its CONFIRM or was left open  *)
(* by a death between two commits.                                           *)
THEOREM ActiveCorrect == ASSUME Windows \cap {"twice", "unlogged"} = {} PROVE Spec => []OneActive
BY Traced, ActiveAlone, PTL

(* tasks.py:470: what a channel registered is never lost from sight: the UID *)
(* and the log of its CONFIRM stay with the invoice, or its operation waits, *)
(* also after an attempt that raised, or that a death left open.             *)
THEOREM RememberedCorrect == ASSUME Windows \cap {"twice", "unlogged"} = {} PROVE Spec => []NothingForgotten
BY Traced, StillRemembered, PTL
================================================================================
