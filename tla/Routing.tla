-------------------------------- MODULE Routing --------------------------------
(***************************************************************************)
(* Fiscal routing (fiscal/router.py): from an invoice to its point de vente *)
(* (PVF), from the PVF to a channel, from the channel to its equipment.     *)
(* Pure functions of what the code reads: names of PVFs and of companies    *)
(* are members of small sets, texts are left out, rules are kept as sets.   *)
(***************************************************************************)
EXTENDS Naturals, FiniteSets

CONSTANT None   \* an empty field

Channels == {"e-MCF", "MCF"}
Policies == {"Automatique", "Manuelle", "Aucune"}

OtherChannel(c) == IF c = "e-MCF" THEN "MCF" ELSE "e-MCF"

\* Canal prioritaire of the settings: the setting, else the mode of v4.
DefaultChannel(setting, usbMode) ==
  IF setting \in Channels THEN setting ELSE IF usbMode THEN "MCF" ELSE "e-MCF"

----
(* Point de vente.  d is the invoice: the PVF of its field and whether ERPNext filled it *)
(* in, an arbitration, the PVFs its POS Profile, its Branch and its warehouses designate.*)
(* s is the settings and the PVFs that exist: pvfs[p] = [company, active].               *)

Fits(pvf, company) == None \in {pvf.company, company} \/ pvf.company = company

ActivePvfs(d, s) == {p \in DOMAIN s.pvfs : s.pvfs[p].active /\ Fits(s.pvfs[p], d.company)}

Emission(d) ==
  {p \in {IF d.auto THEN None ELSE d.pos, d.profile, d.branch} : p # None}

Delivery(d, s) == IF s.useWarehouses THEN d.warehouses \ {None} ELSE {}

TheOnly(S) == CHOOSE p \in S : TRUE

Is(rule, p)   == [pvf |-> p, rule |-> rule, blocked |-> FALSE]
Blocked(rule) == [pvf |-> None, rule |-> rule, blocked |-> TRUE]

\* No source: the default PVF of the settings, else the only one of the company.
Fallen(d, s) ==
  IF s.default \in ActivePvfs(d, s) THEN Is("DEFAUT_PARAMETRES", s.default)
  ELSE CASE Cardinality(ActivePvfs(d, s)) = 1 -> Is("UNIQUE_SOCIETE", TheOnly(ActivePvfs(d, s)))
         [] ActivePvfs(d, s) = {}             -> Is("MODE_GLOBAL", None)
         [] OTHER                             -> Blocked("AUCUNE_SOURCE")

\* Emission decides; the warehouses do only when nothing else does.
BySources(d, s) ==
  LET em == Emission(d)
      de == Delivery(d, s)
  IN  CASE Cardinality(em) > 1 -> Blocked("CONFLIT_SOURCES")
        [] Cardinality(em) = 1 /\ ~(de \subseteq em) /\ s.mismatch = "Bloquer" ->
             Blocked("EMISSION_CENTRALISEE")
        [] Cardinality(em) = 1 /\ (de \subseteq em \/ s.mismatch # "Bloquer") ->
             Is("EMISSION", TheOnly(em))
        [] em = {} /\ Cardinality(de) = 1 -> Is("ENTREPOT", TheOnly(de))
        [] em = {} /\ Cardinality(de) > 1 -> Blocked("CONFLIT_ENTREPOTS")
        [] em = {} /\ de = {} -> Fallen(d, s)

Chosen(d, s) ==
  IF d.arbitrated /\ d.pos # None THEN Is("ARBITRAGE", d.pos) ELSE BySources(d, s)

SkipsCompany(d, s) ==
  LET c == Chosen(d, s)
  IN  IF c.pvf # None /\ ~s.pvfs[c.pvf].active THEN Blocked("PVF_INACTIF") ELSE c

Resolve(d, s) ==
  LET c == Chosen(d, s)
  IN  CASE c.pvf = None -> c
        [] c.pvf # None /\ ~Fits(s.pvfs[c.pvf], d.company) -> Blocked("SOCIETE_DIFFERENTE")
        [] c.pvf # None /\ Fits(s.pvfs[c.pvf], d.company) ->
             IF s.pvfs[c.pvf].active THEN c ELSE Blocked("PVF_INACTIF")

\* The validate hook of a draft: a PVF ERPNext filled in is recomputed, a person's is kept.
Refilled(d, s) ==
  LET r == Resolve(d, s)
  IN  CASE r.blocked -> [pos |-> d.pos, auto |-> d.auto]
        [] ~r.blocked /\ r.pvf # None /\ (d.pos = None \/ d.auto) -> [pos |-> r.pvf, auto |-> TRUE]
        [] ~r.blocked /\ r.pvf = None /\ d.auto -> [pos |-> None, auto |-> FALSE]
        [] OTHER -> [pos |-> d.pos, auto |-> d.auto]

----
(* Channel.  q is the configuration of the PVF: policy, priority (its own or the       *)
(* setting), manual switch in force, fallback open (to a channel), forced resend, the   *)
(* tokens (own, general), whether the token answers another NIM, whether the MCF is      *)
(* approved and attached, and whether its station gave a recent signal.                 *)

Equipped(q, c, fallback) ==
  IF c = "MCF" THEN q.mcf
  ELSE (q.ownToken \/ (q.generalToken /\ ~fallback)) /\ ~q.tokenOfAnother

Imposed(q) == IF q.switch \in Channels THEN q.switch ELSE q.priority

\* The open fallback leaves from the channel opposite to the one it goes to.
FallsBack(q) ==
  /\ q.force = None /\ q.policy = "Automatique"
  /\ q.fallback = OtherChannel(Imposed(q))
  /\ Equipped(q, q.fallback, TRUE)

Wanted(q) ==
  CASE q.force \in Channels -> q.force
    [] q.force = None /\ FallsBack(q) -> q.fallback
    [] q.force = None /\ ~FallsBack(q) -> Imposed(q)

NoRoute == [channel |-> None, auto |-> FALSE, opens |-> FALSE, alternate |-> FALSE]

\* auto: SECOURS_AUTO among the rules; opens: the fallback is opened at routing time;
\* alternate: the MCF takes over if the e-MCF proves out of reach during the attempt.
Via(c, auto, opens, q) ==
  [channel |-> c, auto |-> auto, opens |-> opens,
   alternate |-> c = "e-MCF" /\ ~auto /\ q.policy = "Automatique" /\ q.force = None
                   /\ Equipped(q, "MCF", TRUE)]

\* A company without any PVF: the general token, if the e-MCF has the priority.
GlobalRoute(priority) ==
  IF priority = "MCF" THEN NoRoute ELSE [NoRoute EXCEPT !.channel = "e-MCF"]

\* The MCF is chosen but its station is silent: the e-MCF now, if the PVF has its own.
Silent(q) ==
  /\ q.policy = "Automatique" /\ q.force = None /\ ~FallsBack(q)
  /\ ~q.reachable /\ Equipped(q, "e-MCF", TRUE)

Usable(q, c) ==
  IF c = "MCF" /\ Silent(q) THEN Via("e-MCF", TRUE, TRUE, q) ELSE Via(c, FallsBack(q), FALSE, q)

Route(q) ==
  LET c == Wanted(q)
  IN  CASE Equipped(q, c, FALSE) -> Usable(q, c)
        [] ~Equipped(q, c, FALSE) /\ Equipped(q, OtherChannel(c), FALSE)
             /\ q.policy # "Aucune" /\ q.force = None -> Usable(q, OtherChannel(c))
        [] OTHER -> NoRoute

----
(* Configurations to evaluate the routing on: two PVFs of two companies.    *)

TwoPvfs == {"p1", "p2"}
PvfRecords ==
  {[company |-> "c1", active |-> TRUE], [company |-> None, active |-> TRUE],
   [company |-> "c1", active |-> FALSE], [company |-> "c2", active |-> TRUE]}
Draft(x, a, b, f, h, w) ==
  [pos |-> x, auto |-> a, arbitrated |-> b, profile |-> f, branch |-> h, warehouses |-> w, company |-> "c1"]
Site(v, e, u, m) == [pvfs |-> v, default |-> e, useWarehouses |-> u, mismatch |-> m]
SourceProbes ==
  {[kind |-> "sources", doc |-> Draft(x, a, b, f, h, w), settings |-> Site(v, e, u, m)] :
     x \in TwoPvfs \cup {None}, a \in BOOLEAN, b \in BOOLEAN, f \in {None, "p1"}, h \in {None, "p2"},
     w \in SUBSET TwoPvfs, e \in {None, "p1"}, u \in BOOLEAN, m \in {"Bloquer", "Avertir"},
     v \in [TwoPvfs -> PvfRecords]}

RouteProbes ==
  {[kind |-> "route",
    q |-> [policy |-> p, priority |-> DefaultChannel(k, usb), switch |-> w, fallback |-> f, force |-> o,
           ownToken |-> t, generalToken |-> g, tokenOfAnother |-> z, mcf |-> m, reachable |-> r]] :
     p \in Policies, k \in Channels \cup {None}, usb \in BOOLEAN, w \in Channels \cup {None},
     f \in Channels \cup {None}, o \in Channels \cup {None}, t \in BOOLEAN, g \in BOOLEAN,
     z \in BOOLEAN, m \in BOOLEAN, r \in BOOLEAN}

\* The PVF found is active and of the invoice's company, "MODE_GLOBAL" only when there is
\* none, and a second save of the draft finds the PVF the first one filled in.
SourcesAllowed(d, s) ==
  LET r == Resolve(d, s)
      f == Refilled(d, s)
      again == [d EXCEPT !.pos = f.pos, !.auto = f.auto]
  IN  /\ r.pvf # None => s.pvfs[r.pvf].active /\ Fits(s.pvfs[r.pvf], d.company)
      /\ r.blocked => r.pvf = None
      /\ ~r.blocked /\ r.pvf = None => ActivePvfs(d, s) = {}
      /\ Refilled(again, s) = f /\ (~r.blocked => Resolve(again, s).pvf = r.pvf)

\* The channel has its equipment; only an automatic policy leaves the imposed channel
\* while it is equipped, and then for a token of the PVF itself; "Aucune" never leaves
\* it; a resend to a channel goes there or nowhere; and the fallback opened at routing
\* time sends the next invoice the same way.
RouteAllowed(q) ==
  LET r == Route(q)
      other == r.channel # None /\ r.channel # Imposed(q)
  IN  /\ r.channel # None => Equipped(q, r.channel, FALSE)
      /\ q.force # None => r.channel \in {None, q.force}
      /\ other /\ q.force = None => q.policy # "Aucune"
      /\ other /\ q.force = None /\ Equipped(q, Imposed(q), FALSE) =>
           q.policy = "Automatique" /\ Equipped(q, r.channel, TRUE)
      /\ r.alternate => r.channel = "e-MCF" /\ q.mcf /\ q.policy = "Automatique" /\ q.force = None
      /\ r.opens => Route([q EXCEPT !.fallback = r.channel]).channel = r.channel

RoutesAllowed(p) ==
  CASE p.kind = "sources" -> SourcesAllowed(p.doc, p.settings)
    [] p.kind = "route"   -> RouteAllowed(p.q)
    [] OTHER -> TRUE
================================================================================
