----------------------------- MODULE Functions_proofs -----------------------------
(***************************************************************************)
(* Theorems about the pure functions, for every input and not only for the *)
(* probes of the run: routing, diagnosis, controls of an invoice, amounts   *)
(* and frames; at the end, what they say of the run itself (FunctionsSpec). *)
(***************************************************************************)
EXTENDS MCFunctions, SumTheorems, SequenceTheorems

----
(* Channel of an invoice.                                                   *)

Configurations ==
  [policy : Policies, priority : Channels, switch : Channels \cup {None},
   fallback : Channels \cup {None}, force : Channels \cup {None}, ownToken : BOOLEAN,
   generalToken : BOOLEAN, tokenOfAnother : BOOLEAN, mcf : BOOLEAN, reachable : BOOLEAN]

NoneIsNoChannel == None \notin Channels

LEMMA OtherOfOther ==
  \A c \in Channels : OtherChannel(c) \in Channels /\ OtherChannel(c) # c /\ OtherChannel(OtherChannel(c)) = c
BY DEF Channels, OtherChannel

LEMMA ImposedIs == \A q \in Configurations : Imposed(q) \in Channels
BY DEF Configurations, Imposed

(* A route is none, or goes to an equipped channel.                           *)
Routes(q, r) ==
  \/ r = NoRoute
  \/ \E c \in Channels :
       /\ Equipped(q, c, FALSE)
       /\ c # Wanted(q) => /\ ~Equipped(q, Wanted(q), FALSE) /\ q.policy # "Aucune" /\ q.force = None
       /\ r = Usable(q, c)

LEMMA RouteIs ==
  ASSUME NEW q \in Configurations, NoneIsNoChannel
  PROVE  Routes(q, Route(q)) /\ Wanted(q) \in Channels
<1>1. Wanted(q) \in Channels
  <2>1. q.force \in Channels \cup {None} /\ q.fallback \in Channels \cup {None} /\ Imposed(q) \in Channels
    BY ImposedIs DEF Configurations
  <2>2. FallsBack(q) => q.fallback \in Channels
    BY <2>1, OtherOfOther DEF FallsBack
  <2> QED BY <2>1, <2>2 DEF Wanted, NoneIsNoChannel
<1>2. OtherChannel(Wanted(q)) \in Channels /\ OtherChannel(Wanted(q)) # Wanted(q)
  BY <1>1, OtherOfOther
<1>3. CASE Equipped(q, Wanted(q), FALSE)
  BY <1>1, <1>3 DEF Route, Routes
<1>4. CASE /\ ~Equipped(q, Wanted(q), FALSE) /\ Equipped(q, OtherChannel(Wanted(q)), FALSE)
           /\ q.policy # "Aucune" /\ q.force = None
  BY <1>1, <1>2, <1>4 DEF Route, Routes
<1>5. CASE /\ ~Equipped(q, Wanted(q), FALSE)
           /\ ~(Equipped(q, OtherChannel(Wanted(q)), FALSE) /\ q.policy # "Aucune" /\ q.force = None)
  BY <1>1, <1>5 DEF Route, Routes
<1> QED BY <1>1, <1>3, <1>4, <1>5

(* Where Usable sends, and what it asks of the equipment.                     *)
UsableAllowed(q, c, u) ==
  /\ u.channel = IF c = "MCF" /\ Silent(q) THEN "e-MCF" ELSE c
  /\ u.opens <=> c = "MCF" /\ Silent(q)
  /\ u.alternate => u.channel = "e-MCF" /\ q.mcf /\ q.policy = "Automatique" /\ q.force = None
  /\ Equipped(q, u.channel, FALSE)

LEMMA UsableIs ==
  ASSUME NEW q \in Configurations, NEW c \in Channels, Equipped(q, c, FALSE)
  PROVE  UsableAllowed(q, c, Usable(q, c))
<1>1. /\ q.ownToken \in BOOLEAN /\ q.mcf \in BOOLEAN /\ q.reachable \in BOOLEAN
      /\ q.generalToken \in BOOLEAN /\ q.tokenOfAnother \in BOOLEAN
  BY DEF Configurations
<1>2. FallsBack(q) \in BOOLEAN /\ Silent(q) \in BOOLEAN
  BY DEF FallsBack, Silent
<1>3. CASE c = "MCF" /\ Silent(q)
  BY <1>1, <1>3 DEF Usable, Via, UsableAllowed, Silent, Equipped
<1>4. CASE ~(c = "MCF" /\ Silent(q))
  BY <1>1, <1>2, <1>4 DEF Usable, Via, UsableAllowed, Equipped
<1> QED BY <1>3, <1>4

(* Once the fallback is open, the next invoice goes the same way.              *)
LEMMA OpenedHolds ==
  ASSUME NEW q \in Configurations, NoneIsNoChannel, Route(q).opens
  PROVE  Route([q EXCEPT !.fallback = Route(q).channel]).channel = Route(q).channel
<1> DEFINE p == [q EXCEPT !.fallback = "e-MCF"]
<1>1. PICK c \in Channels : Equipped(q, c, FALSE) /\ Route(q) = Usable(q, c)
  <2>1. Routes(q, Route(q))
    BY RouteIs
  <2>2. Route(q) # NoRoute
    BY DEF NoRoute
  <2> QED BY <2>1, <2>2 DEF Routes
<1>2. UsableAllowed(q, c, Usable(q, c))
  BY <1>1, UsableIs
<1>3. c = "MCF" /\ Silent(q) /\ Route(q).channel = "e-MCF"
  BY <1>1, <1>2 DEF UsableAllowed
<1>4. /\ p \in Configurations /\ p.fallback = "e-MCF" /\ p.force = q.force /\ p.policy = q.policy
      /\ p.switch = q.switch /\ p.priority = q.priority /\ p.mcf = q.mcf
      /\ p.ownToken = q.ownToken /\ p.generalToken = q.generalToken
      /\ p.tokenOfAnother = q.tokenOfAnother
  BY DEF Configurations, Channels
<1>5. Imposed(p) = Imposed(q) /\ \A d, b : Equipped(p, d, b) = Equipped(q, d, b)
  BY <1>4 DEF Imposed, Equipped
<1>6. Equipped(p, "e-MCF", TRUE) /\ Equipped(p, "e-MCF", FALSE) /\ p.policy = "Automatique" /\ p.force = None
  BY <1>3, <1>4, <1>5 DEF Silent, Equipped
<1>7. Wanted(p) = "e-MCF"
  <2>1. CASE Imposed(p) = "MCF"
    <3>1. FallsBack(p)
      BY <1>4, <1>6, <2>1 DEF FallsBack, OtherChannel
    <3> QED BY <1>4, <1>6, <3>1 DEF Wanted, NoneIsNoChannel
  <2>2. CASE Imposed(p) = "e-MCF"
    <3>1. ~FallsBack(p)
      BY <1>4, <1>6, <2>2 DEF FallsBack, OtherChannel
    <3> QED BY <1>6, <2>2, <3>1 DEF Wanted, NoneIsNoChannel
  <2> QED BY <1>4, <2>1, <2>2, ImposedIs DEF Channels
<1> HIDE DEF p
<1>8. Route(p) = Usable(p, "e-MCF")
  BY <1>6, <1>7 DEF Route
<1>9. UsableAllowed(p, "e-MCF", Usable(p, "e-MCF"))
  BY <1>4, <1>6, UsableIs DEF Channels
<1>10. Route(p).channel = "e-MCF"
  BY <1>8, <1>9 DEF UsableAllowed
<1> QED BY <1>3, <1>10 DEF p

(* For every configuration of a PVF, its channel has its equipment, respects   *)
(* the policy and the forced resend, and an opened fallback holds              *)
(* (fiscal/router.py, resolve_route).                                          *)
THEOREM EveryRouteAllowed ==
  ASSUME NoneIsNoChannel, NEW q \in Configurations
  PROVE  RouteAllowed(q)
<1> DEFINE r == Route(q)
<1>0. Routes(q, r) /\ Wanted(q) \in Channels /\ Imposed(q) \in Channels
  BY RouteIs, ImposedIs
<1>1. CASE r = NoRoute
  <2>1. r.channel = None /\ ~r.alternate /\ ~r.opens
    BY <1>1 DEF NoRoute
  <2> QED BY <2>1 DEF RouteAllowed
<1>2. ASSUME NEW c \in Channels, Equipped(q, c, FALSE),
             c # Wanted(q) => /\ ~Equipped(q, Wanted(q), FALSE) /\ q.policy # "Aucune" /\ q.force = None,
             r = Usable(q, c)
      PROVE  RouteAllowed(q)
  <2>1. UsableAllowed(q, c, r)
    BY <1>2, UsableIs
  <2>2. r.channel # None => Equipped(q, r.channel, FALSE)
    BY <2>1 DEF UsableAllowed
  <2>3. q.force # None => r.channel = q.force
    <3>1. q.force # None => Wanted(q) = q.force /\ q.force \in Channels
      BY DEF Wanted, Configurations
    <3> QED BY <1>2, <2>1, <3>1 DEF UsableAllowed, Silent
  <2>4. r.channel # Imposed(q) /\ q.force = None => q.policy # "Aucune"
    <3>1. q.policy = "Aucune" => ~FallsBack(q) /\ ~Silent(q)
      BY DEF FallsBack, Silent
    <3>2. q.force = None /\ q.policy = "Aucune" => Wanted(q) = Imposed(q)
      BY <3>1 DEF Wanted, NoneIsNoChannel
    <3> QED BY <1>2, <2>1, <3>1, <3>2 DEF UsableAllowed
  <2>5. r.channel # Imposed(q) /\ q.force = None /\ Equipped(q, Imposed(q), FALSE) =>
          q.policy = "Automatique" /\ Equipped(q, r.channel, TRUE)
    <3> SUFFICES ASSUME r.channel # Imposed(q), q.force = None, Equipped(q, Imposed(q), FALSE)
                 PROVE  q.policy = "Automatique" /\ Equipped(q, r.channel, TRUE)
      OBVIOUS
    <3>1. CASE c = "MCF" /\ Silent(q)
      BY <2>1, <3>1 DEF UsableAllowed, Silent
    <3>2. CASE ~(c = "MCF" /\ Silent(q))
      <4>1. r.channel = c
        BY <2>1, <3>2 DEF UsableAllowed
      <4>2. CASE FallsBack(q)
        <5>1. Wanted(q) = q.fallback /\ Equipped(q, q.fallback, TRUE) /\ q.policy = "Automatique"
          BY <4>2 DEF Wanted, FallsBack, NoneIsNoChannel
        <5>2. Equipped(q, q.fallback, FALSE)
          BY <5>1 DEF Equipped
        <5> QED BY <1>2, <4>1, <5>1, <5>2
      <4>3. CASE ~FallsBack(q)
        BY <1>2, <4>1, <4>3 DEF Wanted, NoneIsNoChannel
      <4> QED BY <4>2, <4>3
    <3> QED BY <3>1, <3>2
  <2>6. r.alternate => r.channel = "e-MCF" /\ q.mcf /\ q.policy = "Automatique" /\ q.force = None
    BY <2>1 DEF UsableAllowed
  <2>7. r.opens => Route([q EXCEPT !.fallback = r.channel]).channel = r.channel
    BY OpenedHolds
  <2> HIDE DEF r
  <2> QED BY <2>2, <2>3, <2>4, <2>5, <2>6, <2>7 DEF RouteAllowed, r
<1> QED BY <1>0, <1>1, <1>2 DEF Routes

----
(* Point de vente of an invoice.                                            *)

Drafts(P, C) ==
  [pos : P \cup {None}, auto : BOOLEAN, arbitrated : BOOLEAN, profile : P \cup {None},
   branch : P \cup {None}, warehouses : SUBSET (P \cup {None}), company : C]

Sites(P, C) ==
  [pvfs : [P -> [company : C, active : BOOLEAN]], default : P \cup {None},
   useWarehouses : BOOLEAN, mismatch : {"Bloquer", "Avertir"}]

LEMMA CountIs ==
  ASSUME NEW S, IsFiniteSet(S)
  PROVE  /\ Cardinality(S) \in Nat
         /\ Cardinality(S) = 0 <=> S = {}
         /\ Cardinality(S) = 1 => S = {TheOnly(S)}
<1>1. Cardinality(S) \in Nat /\ (Cardinality(S) = 0 <=> S = {})
  BY FS_CardinalityType, FS_EmptySet
<1>2. Cardinality(S) = 1 => \E x : S = {x}
  BY FS_Singleton
<1>3. ASSUME NEW x, S = {x} PROVE S = {TheOnly(S)}
  BY <1>3 DEF TheOnly
<1> QED BY <1>1, <1>2, <1>3

(* What the sources find: nothing allowed, a PVF, or no PVF at all.          *)
Found(P, d, s, c) ==
  \/ c.pvf = None /\ c.blocked = TRUE
  \/ c.pvf \in P /\ c.blocked = FALSE
  \/ c.pvf = None /\ c.blocked = FALSE /\ ActivePvfs(d, s) = {}

LEMMA IsFound ==
  ASSUME NEW P, NEW d, NEW s, NEW rule
  PROVE  /\ Found(P, d, s, Blocked(rule))
         /\ \A p \in P : Found(P, d, s, Is(rule, p))
BY DEF Found, Blocked, Is

LEMMA ChosenIs ==
  ASSUME NEW P, IsFiniteSet(P), NEW C, NEW d \in Drafts(P, C), NEW s \in Sites(P, C)
  PROVE  Found(P, d, s, Chosen(d, s))
<1>1. Emission(d) \subseteq P /\ IsFiniteSet(Emission(d))
  <2>1. Emission(d) \subseteq P
    BY DEF Drafts, Emission
  <2> QED BY <2>1, FS_Subset
<1>2. Delivery(d, s) \subseteq P /\ IsFiniteSet(Delivery(d, s))
  <2>1. Delivery(d, s) \subseteq P
    BY DEF Drafts, Delivery
  <2> QED BY <2>1, FS_Subset
<1>3. ActivePvfs(d, s) \subseteq P /\ IsFiniteSet(ActivePvfs(d, s))
  <2>1. ActivePvfs(d, s) \subseteq P
    BY DEF Sites, ActivePvfs
  <2> QED BY <2>1, FS_Subset
<1>4. Found(P, d, s, Fallen(d, s))
  <2>1. CASE s.default \in ActivePvfs(d, s)
    BY <1>3, <2>1, IsFound DEF Fallen
  <2>2. CASE s.default \notin ActivePvfs(d, s) /\ Cardinality(ActivePvfs(d, s)) = 1
    <3>1. TheOnly(ActivePvfs(d, s)) \in P
      BY <1>3, <2>2, CountIs
    <3>2. Fallen(d, s) = Is("UNIQUE_SOCIETE", TheOnly(ActivePvfs(d, s)))
      <4>1. ActivePvfs(d, s) # {}
        BY <1>3, <2>2, CountIs
      <4> QED BY <2>2, <4>1 DEF Fallen
    <3> QED BY <3>1, <3>2, IsFound
  <2>3. CASE s.default \notin ActivePvfs(d, s) /\ ActivePvfs(d, s) = {}
    <3>1. Cardinality(ActivePvfs(d, s)) # 1
      BY <1>3, <2>3, CountIs
    <3>2. Fallen(d, s) = Is("MODE_GLOBAL", None)
      BY <2>3, <3>1 DEF Fallen
    <3> QED BY <2>3, <3>2 DEF Found, Is
  <2>4. CASE /\ s.default \notin ActivePvfs(d, s) /\ ActivePvfs(d, s) # {}
             /\ Cardinality(ActivePvfs(d, s)) # 1
    BY <2>4, IsFound DEF Fallen
  <2> QED BY <2>1, <2>2, <2>3, <2>4
<1>5. Found(P, d, s, BySources(d, s))
  <2> DEFINE em == Emission(d)
             de == Delivery(d, s)
  <2>1. CASE Cardinality(em) > 1
    <3>1. Cardinality(em) # 1 /\ em # {}
      BY <1>1, <2>1, CountIs
    <3>2. BySources(d, s) = Blocked("CONFLIT_SOURCES")
      BY <2>1, <3>1 DEF BySources
    <3> QED BY <3>2, IsFound
  <2>2. CASE Cardinality(em) = 1
    <3>1. TheOnly(em) \in P /\ em # {} /\ ~(Cardinality(em) > 1)
      BY <1>1, <2>2, CountIs
    <3>2. CASE ~(de \subseteq em) /\ s.mismatch = "Bloquer"
      <4>1. BySources(d, s) = Blocked("EMISSION_CENTRALISEE")
        BY <2>2, <3>1, <3>2 DEF BySources
      <4> QED BY <4>1, IsFound
    <3>3. CASE de \subseteq em \/ s.mismatch # "Bloquer"
      <4>1. BySources(d, s) = Is("EMISSION", TheOnly(em))
        BY <2>2, <3>1, <3>3 DEF BySources
      <4> QED BY <3>1, <4>1, IsFound
    <3> QED BY <3>2, <3>3
  <2>3. CASE em = {}
    <3>1. ~(Cardinality(em) > 1) /\ Cardinality(em) # 1
      BY <1>1, <2>3, CountIs
    <3>2. CASE Cardinality(de) = 1
      <4>1. TheOnly(de) \in P /\ de # {} /\ ~(Cardinality(de) > 1)
        BY <1>2, <3>2, CountIs
      <4>2. BySources(d, s) = Is("ENTREPOT", TheOnly(de))
        BY <2>3, <3>1, <3>2, <4>1 DEF BySources
      <4> QED BY <4>1, <4>2, IsFound
    <3>3. CASE Cardinality(de) > 1
      <4>1. de # {} /\ Cardinality(de) # 1
        BY <1>2, <3>3, CountIs
      <4>2. BySources(d, s) = Blocked("CONFLIT_ENTREPOTS")
        BY <2>3, <3>1, <3>3, <4>1 DEF BySources
      <4> QED BY <4>2, IsFound
    <3>4. CASE de = {}
      <4>1. Cardinality(de) # 1 /\ ~(Cardinality(de) > 1)
        BY <1>2, <3>4, CountIs
      <4>2. BySources(d, s) = Fallen(d, s)
        BY <2>3, <3>1, <3>4, <4>1 DEF BySources
      <4> QED BY <1>4, <4>2
    <3>5. Cardinality(de) = 1 \/ Cardinality(de) > 1 \/ de = {}
      BY <1>2, CountIs
    <3> QED BY <3>2, <3>3, <3>4, <3>5
  <2>4. Cardinality(em) = 1 \/ Cardinality(em) > 1 \/ em = {}
    BY <1>1, CountIs
  <2> QED BY <2>1, <2>2, <2>3, <2>4
<1>6. CASE d.arbitrated /\ d.pos # None
  <2>1. d.pos \in P
    BY <1>6 DEF Drafts
  <2> QED BY <1>6, <2>1, IsFound DEF Chosen
<1>7. CASE ~(d.arbitrated /\ d.pos # None)
  BY <1>5, <1>7 DEF Chosen
<1> QED BY <1>6, <1>7

(* What the resolution keeps of what the sources found.                      *)
LEMMA ResolveIs ==
  ASSUME NEW P, IsFiniteSet(P), None \notin P, NEW C, NEW d \in Drafts(P, C), NEW s \in Sites(P, C)
  PROVE  /\ Resolve(d, s).blocked \in BOOLEAN
         /\ Resolve(d, s).blocked => Resolve(d, s).pvf = None
         /\ ~Resolve(d, s).blocked => Resolve(d, s) = Chosen(d, s)
         /\ ~Resolve(d, s).blocked /\ Resolve(d, s).pvf # None =>
              /\ Resolve(d, s).pvf \in P /\ s.pvfs[Resolve(d, s).pvf].active
              /\ Fits(s.pvfs[Resolve(d, s).pvf], d.company)
         /\ ~Resolve(d, s).blocked /\ Resolve(d, s).pvf = None => ActivePvfs(d, s) = {}
<1> DEFINE c == Chosen(d, s)
<1>1. Found(P, d, s, c)
  BY ChosenIs
<1> HIDE DEF c
<1>2. \A rule : Blocked(rule).pvf = None /\ Blocked(rule).blocked = TRUE
  BY DEF Blocked
<1>3. CASE c.pvf = None
  <2>1. Resolve(d, s) = c
    BY <1>3 DEF Resolve, c
  <2> QED BY <1>1, <1>3, <2>1 DEF Found, c
<1>4. CASE c.pvf # None /\ ~Fits(s.pvfs[c.pvf], d.company)
  <2>1. Resolve(d, s) = Blocked("SOCIETE_DIFFERENTE")
    BY <1>4 DEF Resolve, c
  <2> QED BY <1>2, <2>1
<1>5. CASE c.pvf # None /\ Fits(s.pvfs[c.pvf], d.company) /\ ~s.pvfs[c.pvf].active
  <2>1. Resolve(d, s) = Blocked("PVF_INACTIF")
    BY <1>5 DEF Resolve, c
  <2> QED BY <1>2, <2>1
<1>6. CASE c.pvf # None /\ Fits(s.pvfs[c.pvf], d.company) /\ s.pvfs[c.pvf].active
  <2>1. Resolve(d, s) = c
    BY <1>6 DEF Resolve, c
  <2> QED BY <1>1, <1>6, <2>1 DEF Found, c
<1> QED BY <1>3, <1>4, <1>5, <1>6

(* A draft in which only a PVF that ERPNext filled in has changed.            *)
Again(d, x, b) == [d EXCEPT !.pos = x, !.auto = b]

LEMMA AgainIs ==
  ASSUME NEW P, NEW C, NEW d \in Drafts(P, C), NEW x, NEW b, x \in P \cup {None}, b \in BOOLEAN
  PROVE  /\ Again(d, x, b) \in Drafts(P, C)
         /\ Again(d, x, b).pos = x /\ Again(d, x, b).auto = b
         /\ Again(d, x, b).arbitrated = d.arbitrated /\ Again(d, x, b).company = d.company
         /\ Again(d, x, b).profile = d.profile /\ Again(d, x, b).branch = d.branch
         /\ Again(d, x, b).warehouses = d.warehouses
         /\ x = d.pos /\ b = d.auto => Again(d, x, b) = d
BY DEF Again, Drafts

LEMMA SameSources ==
  ASSUME NEW P, NEW C, NEW d \in Drafts(P, C), NEW s \in Sites(P, C),
         NEW x, NEW b, x \in P \cup {None}, b \in BOOLEAN, d.auto \/ d.pos = None, b \/ x = None
  PROVE  BySources(Again(d, x, b), s) = BySources(d, s)
<1> DEFINE e == Again(d, x, b)
<1>1. /\ e.pos = x /\ e.auto = b /\ e.company = d.company /\ e.profile = d.profile
      /\ e.branch = d.branch /\ e.warehouses = d.warehouses
  BY AgainIs
<1> HIDE DEF e
<1>2. Emission(e) = Emission(d)
  BY <1>1 DEF Emission
<1>3. Delivery(e, s) = Delivery(d, s) /\ ActivePvfs(e, s) = ActivePvfs(d, s)
  BY <1>1 DEF Delivery, ActivePvfs
<1>4. Fallen(e, s) = Fallen(d, s)
  BY <1>3 DEF Fallen
<1>5. BySources(e, s) = BySources(d, s)
  BY <1>2, <1>3, <1>4 DEF BySources
<1> QED BY <1>5 DEF e

(* Two drafts with the same company for which the sources find the same.      *)
LEMMA SameResolve ==
  ASSUME NEW d, NEW e, NEW s, d.company = e.company, Chosen(e, s) = Chosen(d, s)
  PROVE  Resolve(e, s) = Resolve(d, s)
BY DEF Resolve

Twice(d, s, e) ==
  Refilled(e, s) = Refilled(d, s) /\ (~Resolve(d, s).blocked => Resolve(e, s).pvf = Resolve(d, s).pvf)

(* A second save of the draft changes nothing.                                *)
LEMMA SavedTwice ==
  ASSUME NEW P, IsFiniteSet(P), None \notin P, NEW C, NEW d \in Drafts(P, C), NEW s \in Sites(P, C)
  PROVE  Twice(d, s, Again(d, Refilled(d, s).pos, Refilled(d, s).auto))
<1> DEFINE r == Resolve(d, s)
<1>0. /\ r.blocked \in BOOLEAN
      /\ ~r.blocked => r = Chosen(d, s)
      /\ ~r.blocked /\ r.pvf # None => /\ r.pvf \in P /\ s.pvfs[r.pvf].active
                                       /\ Fits(s.pvfs[r.pvf], d.company)
      /\ d.auto \in BOOLEAN /\ d.pos \in P \cup {None} /\ d.arbitrated \in BOOLEAN
  BY ResolveIs DEF Drafts
<1> HIDE DEF r
<1>1. ASSUME Refilled(d, s).pos = d.pos, Refilled(d, s).auto = d.auto
      PROVE  Twice(d, s, Again(d, Refilled(d, s).pos, Refilled(d, s).auto))
  <2>1. Again(d, d.pos, d.auto) = d
    BY <1>0, AgainIs
  <2> QED BY <1>1, <2>1 DEF Twice
<1>2. CASE r.blocked
  <2>1. Refilled(d, s).pos = d.pos /\ Refilled(d, s).auto = d.auto
    BY <1>2 DEF Refilled, r
  <2> QED BY <1>1, <2>1
<1>3. CASE ~r.blocked /\ r.pvf # None /\ (d.pos = None \/ d.auto)
  <2>0. PICK yes \in BOOLEAN : yes = TRUE
    OBVIOUS
  <2>9. PICK x \in P : x = r.pvf
    BY <1>0, <1>3
  <2> DEFINE e == Again(d, x, yes)
  <2>1. Refilled(d, s) = [pos |-> r.pvf, auto |-> yes]
    BY <1>3, <2>0 DEF Refilled, r
  <2>2. Refilled(d, s).pos = r.pvf /\ Refilled(d, s).auto = yes
    BY <2>1
  <2>3. /\ e.pos = x /\ e.auto = yes /\ e.arbitrated = d.arbitrated /\ e.company = d.company
    <3>1. x \in P \cup {None} /\ yes \in BOOLEAN
      BY <2>0, <2>9
    <3> QED BY <3>1, AgainIs
  <2> HIDE DEF e
  <2>4. ~Resolve(e, s).blocked /\ Resolve(e, s).pvf = r.pvf
    <3>1. CASE d.arbitrated
      <4>1. Chosen(e, s) = Is("ARBITRAGE", r.pvf)
        BY <1>3, <2>3, <2>9, <3>1 DEF Chosen
      <4>2. Chosen(e, s).pvf = r.pvf /\ Chosen(e, s).blocked = FALSE
        BY <4>1 DEF Is
      <4>3. Resolve(e, s) = Chosen(e, s)
        BY <1>0, <1>3, <2>3, <2>9, <4>2 DEF Resolve
      <4> QED BY <4>2, <4>3
    <3>2. CASE ~d.arbitrated
      <4>1. BySources(e, s) = BySources(d, s)
        <5>1. x \in P \cup {None} /\ yes \in BOOLEAN
          BY <2>0, <2>9
        <5>2. (d.auto \/ d.pos = None) /\ (yes \/ x = None)
          BY <1>3, <2>0
        <5> QED BY <5>1, <5>2, SameSources DEF e
      <4>2. Chosen(e, s) = Chosen(d, s)
        BY <2>3, <3>2, <4>1 DEF Chosen
      <4>3. Resolve(e, s) = r
        BY <2>3, <4>2, SameResolve DEF r
      <4> QED BY <1>3, <4>3
    <3> QED BY <1>0, <3>1, <3>2
  <2>5. Refilled(e, s) = [pos |-> r.pvf, auto |-> yes]
    BY <1>3, <2>0, <2>3, <2>4, <2>9 DEF Refilled
  <2> QED BY <2>1, <2>2, <2>4, <2>5, <2>9 DEF Twice, e, r
<1>4. CASE ~r.blocked /\ r.pvf = None /\ d.auto
  <2>0. PICK no \in BOOLEAN : no = FALSE
    OBVIOUS
  <2> DEFINE e == Again(d, None, no)
  <2>1. Refilled(d, s) = [pos |-> None, auto |-> no]
    BY <1>4, <2>0 DEF Refilled, r
  <2>2. Refilled(d, s).pos = None /\ Refilled(d, s).auto = no
    BY <2>1
  <2>3. /\ e.pos = None /\ e.auto = no /\ e.arbitrated = d.arbitrated /\ e.company = d.company
    BY <1>0, <2>0, AgainIs
  <2>4. ~(d.arbitrated /\ d.pos # None)
    <3>1. d.arbitrated /\ d.pos # None => Chosen(d, s).pvf = d.pos
      BY DEF Chosen, Is
    <3> QED BY <1>0, <1>4, <3>1
  <2>5. BySources(e, s) = BySources(d, s)
    BY <1>0, <1>4, SameSources
  <2> HIDE DEF e
  <2>6. Chosen(e, s) = Chosen(d, s)
    BY <2>3, <2>4, <2>5 DEF Chosen
  <2>7. Resolve(e, s) = r
    BY <2>3, <2>6, SameResolve DEF r
  <2>8. Refilled(e, s) = [pos |-> None, auto |-> no]
    BY <1>4, <2>0, <2>3, <2>7 DEF Refilled
  <2> QED BY <2>1, <2>2, <2>7, <2>8 DEF Twice, e, r
<1>5. CASE /\ ~r.blocked /\ ~(r.pvf # None /\ (d.pos = None \/ d.auto))
           /\ ~(r.pvf = None /\ d.auto)
  <2>1. Refilled(d, s) = [pos |-> d.pos, auto |-> d.auto]
    BY <1>5 DEF Refilled, r
  <2>2. Refilled(d, s).pos = d.pos /\ Refilled(d, s).auto = d.auto
    BY <2>1
  <2> QED BY <1>1, <2>2
<1> QED BY <1>0, <1>2, <1>3, <1>4, <1>5

(* Whatever the PVFs, the settings and the draft, the PVF found is active and of  *)
(* the company of the invoice, none is found only when the company has none, and  *)
(* the PVF that ERPNext fills in is the one it finds again at the next save       *)
(* (fiscal/router.py, resolve_pos).                                               *)
THEOREM EverySourceAllowed ==
  ASSUME NEW P, IsFiniteSet(P), None \notin P, NEW C, NEW d \in Drafts(P, C), NEW s \in Sites(P, C)
  PROVE  SourcesAllowed(d, s)
<1> DEFINE f == Refilled(d, s)
<1>1. Twice(d, s, Again(d, f.pos, f.auto))
  BY SavedTwice
<1>2. /\ Refilled([d EXCEPT !.pos = f.pos, !.auto = f.auto], s) = f
      /\ ~Resolve(d, s).blocked => Resolve([d EXCEPT !.pos = f.pos, !.auto = f.auto], s).pvf = Resolve(d, s).pvf
  BY <1>1 DEF Twice, Again
<1>3. Resolve(d, s).pvf # None => ~Resolve(d, s).blocked
  BY ResolveIs
<1> HIDE DEF f
<1> QED BY <1>2, <1>3, ResolveIs DEF SourcesAllowed, f

----
(* The connection test of an MCF.                                            *)

Readings(N, K, F) ==
  [error : BOOLEAN, nid : N, count : K, nif : F, rates : BOOLEAN, alert : BOOLEAN,
   clock : {"none", "near", "far"}, dgi : {"none", "error", "CON", "DIS"}, old : BOOLEAN, unsent : BOOLEAN]

Devices(K, F, S) ==
  [known : BOOLEAN, status : S, validated : K, shop : {"none", "bare", "company"}, nifShop : F, nifOwn : F,
   stations : SUBSET [status : S, online : BOOLEAN]]

(* What a test without any "fail" has found.                                  *)
NothingFails(checks) == \A c \in checks : c.level # "fail"
NothingWarns(checks) == \A c \in checks : c.level # "warn"

LEMMA UnlessIs == \A level : \A ok \in BOOLEAN : (ok => Unless(ok, level) = "ok") /\ (~ok => Unless(ok, level) = level)
BY DEF Unless

LEMMA CheckIs == \A code, level : Check(code, level).code = code /\ Check(code, level).level = level
BY DEF Check

LEMMA ReassuringIdentity ==
  ASSUME NEW obs, NEW dev, NothingFails(IdentityChecks(obs, dev))
  PROVE  /\ dev.validated # 0 => obs.count = dev.validated
         /\ ExpectedNif(dev) # NoNif => obs.nif.text = ExpectedNif(dev).text
<1>1. ASSUME dev.validated # 0, obs.count # dev.validated PROVE FALSE
  <2>1. Check("MID", Unless(obs.count = dev.validated, "fail")) \in IdentityChecks(obs, dev)
    BY <1>1 DEF IdentityChecks
  <2>2. Unless(obs.count = dev.validated, "fail") = "fail"
    BY <1>1 DEF Unless
  <2> QED BY <2>1, <2>2, CheckIs DEF NothingFails
<1>2. ASSUME ExpectedNif(dev) # NoNif, obs.nif.text # ExpectedNif(dev).text PROVE FALSE
  <2>1. Check("NIF", NifLevel(obs, dev)) \in IdentityChecks(obs, dev)
    BY DEF IdentityChecks
  <2>2. NifLevel(obs, dev) = "fail"
    BY <1>2 DEF NifLevel, Unless
  <2> QED BY <2>1, <2>2, CheckIs DEF NothingFails
<1> QED BY <1>1, <1>2

(* The comparisons went to their end, or one of them failed.                   *)
LEMMA ReassuringTest ==
  ASSUME NEW obs, NEW dev, NEW nid, NothingFails(ComputeChecks(obs, dev, nid))
  PROVE  /\ ~obs.error /\ obs.nid # "" /\ dev.known
         /\ ComputeChecks(obs, dev, nid) =
              {Check("LECTURE", "ok")} \cup IdentityChecks(obs, dev) \cup StateChecks(obs)
                 \cup DgiChecks(obs) \cup StationChecks(dev)
         /\ NothingFails(IdentityChecks(obs, dev))
<1>1. ASSUME obs.error \/ obs.nid = "" PROVE FALSE
  <2>1. Check("LECTURE", "fail") \in ComputeChecks(obs, dev, nid)
    BY <1>1 DEF ComputeChecks
  <2> QED BY <2>1, CheckIs DEF NothingFails
<1>2. ASSUME ~(obs.error \/ obs.nid = ""), nid # "" /\ obs.nid # nid PROVE FALSE
  <2>1. Check("NID", "fail") \in ComputeChecks(obs, dev, nid)
    BY <1>2 DEF ComputeChecks
  <2> QED BY <2>1, CheckIs DEF NothingFails
<1>3. ASSUME ~(obs.error \/ obs.nid = ""), ~(nid # "" /\ obs.nid # nid), ~dev.known PROVE FALSE
  <2>1. Check("FICHE", "fail") \in ComputeChecks(obs, dev, nid)
    BY <1>3 DEF ComputeChecks
  <2> QED BY <2>1, CheckIs DEF NothingFails
<1>4. ComputeChecks(obs, dev, nid) =
        {Check("LECTURE", "ok")} \cup (IdentityChecks(obs, dev) \cup StateChecks(obs)
           \cup DgiChecks(obs) \cup StationChecks(dev))
  BY <1>1, <1>2, <1>3 DEF ComputeChecks
<1> QED BY <1>1, <1>2, <1>3, <1>4 DEF NothingFails

(* An identity that nothing fails is not demoted.                               *)
LEMMA ReassuredIsKept ==
  ASSUME NEW obs, NEW dev, NEW nid, NothingFails(ComputeChecks(obs, dev, nid)), ~OnlyBlanksDiffer(obs, dev)
  PROVE  dev.known /\ ~Demotes(obs, dev)
<1>1. dev.known /\ NothingFails(IdentityChecks(obs, dev))
  BY ReassuringTest
<1> QED BY <1>1, ReassuringIdentity DEF Demotes, ExpectedNif, OnlyBlanksDiffer

LEMMA OverallIs ==
  ASSUME NEW checks
  PROVE  /\ Overall(checks) \in {"OK", "Avertissement"} <=> NothingFails(checks)
         /\ Overall(checks) = "OK" => NothingWarns(checks)
         /\ ~NothingFails(checks) => Overall(checks) \in {"Ecart", "Echec"}
BY DEF Overall, NothingFails, NothingWarns

(* Whatever was read and whatever the record holds, a test that reassures never   *)
(* hides an identity that ERPNext rejects, OK means that the MCF may receive      *)
(* invoices, and a rejected identity shows red as long as no station is online,    *)
(* unless the NIF read and that of the company differ in blanks inside them only,  *)
(* which the test ignores and check_identity does not (fiscal/mcf_status.py,       *)
(* compute_checks and record_desk_test).                                          *)
THEOREM EveryDiagnosisTells ==
  ASSUME NEW N, NEW K, NEW F, NEW S, NEW obs \in Readings(N, K, F), NEW dev \in Devices(K, F, S), NEW nid
  PROVE  DiagnosisTells(obs, dev, nid)
<1> DEFINE r == Records(obs, dev, nid)
           checks == ComputeChecks(obs, dev, nid)
           online == \E s \in dev.stations : s.status = "Active" /\ s.online
<1>1. /\ r.result = Overall(checks)
      /\ r.status = IF /\ dev.known /\ ~obs.error /\ (nid = "" \/ obs.nid \in {"", nid}) /\ Demotes(obs, dev)
                    THEN "A revalider" ELSE dev.status
  BY DEF Records
<1> SUFFICES ASSUME ~OnlyBlanksDiffer(obs, dev) PROVE DiagnosisTells(obs, dev, nid)
  BY DEF DiagnosisTells
<1> HIDE DEF r, checks
<1>2. r.result \in {"OK", "Avertissement"} => dev.known /\ ~Demotes(obs, dev)
  BY <1>1, OverallIs, ReassuredIsKept DEF checks
<1>3. ASSUME r.result = "OK" PROVE r.status = "Actif"
  <2>1. NothingFails(checks) /\ NothingWarns(checks) /\ ~Demotes(obs, dev)
    BY <1>1, <1>2, <1>3, OverallIs
  <2>2. Check("STATUT", Unless(dev.status = "Actif", "warn")) \in checks
    <3>1. Check("STATUT", Unless(dev.status = "Actif", "warn")) \in IdentityChecks(obs, dev)
      BY DEF IdentityChecks
    <3>2. NothingFails(ComputeChecks(obs, dev, nid))
      BY <2>1 DEF checks
    <3>3. IdentityChecks(obs, dev) \subseteq ComputeChecks(obs, dev, nid)
      BY <3>2, ReassuringTest
    <3> QED BY <3>1, <3>3 DEF checks
  <2>3. dev.status = "Actif"
    BY <2>1, <2>2, CheckIs DEF NothingWarns, Unless
  <2> QED BY <1>1, <2>1, <2>3
<1>4. ASSUME r.status # dev.status, ~online, NEW age \in {"fresh", "stale"}
      PROVE  Indicator(dev, r.result, age) = "red"
  <2>1. Demotes(obs, dev)
    BY <1>1, <1>4
  <2>2. ~NothingFails(checks)
    BY <2>1, ReassuredIsKept DEF checks
  <2>3. r.result \in {"Ecart", "Echec"}
    BY <1>1, <2>2, OverallIs
  <2> QED BY <1>4, <2>3 DEF Indicator
<1> QED BY <1>2, <1>3, <1>4 DEF DiagnosisTells, r

----
(* Controls of an invoice.                                                    *)

Linkable(d) ==
  d.linked \in {"no", "coded", "uncoded"} /\ d.client \in ClientTypes \cup {""} /\ d.customer \in ClientTypes \cup {""}
Mapped(s)   == IsFiniteSet(s.clientMap) /\ \A row \in s.clientMap : row.type \in ClientTypes

LEMMA ClientIs ==
  ASSUME NEW d, NEW s, Linkable(d), Mapped(s)
  PROVE  ClientType(d, s) \in ClientTypes \cup {""}
<1> DEFINE rows == {r \in s.clientMap : r.native = d.native}
           marked == {r \in rows : r.default}
<1>1. CASE d.client # "" \/ d.customer # ""
  BY <1>1 DEF ClientType, Linkable
<1>2. CASE d.client = "" /\ d.customer = "" /\ marked # {}
  <2>1. (CHOOSE r \in marked : TRUE) \in s.clientMap
    BY <1>2
  <2>2. ClientType(d, s) = (CHOOSE r \in marked : TRUE).type
    BY <1>2 DEF ClientType, DefaultClient
  <2> QED BY <2>1, <2>2 DEF Mapped
<1>3. CASE d.client = "" /\ d.customer = "" /\ marked = {} /\ Cardinality(rows) = 1
  <2>1. IsFiniteSet(rows)
    BY FS_Subset DEF Mapped
  <2>2. (CHOOSE r \in rows : TRUE) \in s.clientMap
    <3>1. rows # {}
      BY <1>3, <2>1, CountIs
    <3> QED BY <3>1
  <2>3. ClientType(d, s) = (CHOOSE r \in rows : TRUE).type
    BY <1>3 DEF ClientType, DefaultClient
  <2> QED BY <2>2, <2>3 DEF Mapped
<1>4. CASE d.client = "" /\ d.customer = "" /\ marked = {} /\ Cardinality(rows) # 1
  BY <1>4 DEF ClientType, DefaultClient
<1> QED BY <1>1, <1>2, <1>3, <1>4

(* No legal control is overridden.                                             *)
LEMMA SavedIsLegal ==
  ASSUME NEW d, NEW s, s.enabled, Saved(d, s)
  PROVE  /\ ExemptionViolations(d, s) = {} /\ CreditViolations(d, s) = {}
         /\ s.mode = "Enforce" /\ ~Overridden(d) => ContextViolations(d, s) = {}
<1> DEFINE all == IF s.mode = "Off" THEN Legal(d, s) ELSE Collected(d, s)
<1>1. ~\E v \in all : v.hard
  BY DEF Saved
<1>2. Legal(d, s) \subseteq all
  BY DEF Collected
<1>3. Hard("Exoneration").hard /\ Hard("Avoir").hard
  BY DEF Hard
<1>4. ExemptionViolations(d, s) = {}
  <2>1. ExemptionViolations(d, s) # {} => Hard("Exoneration") \in ExemptionViolations(d, s)
    BY DEF ExemptionViolations, When
  <2>2. ExemptionViolations(d, s) \subseteq all
    BY <1>2 DEF Legal
  <2> HIDE DEF all
  <2> QED BY <1>1, <1>3, <2>1, <2>2
<1>5. CreditViolations(d, s) = {}
  <2>1. CreditViolations(d, s) # {} => Hard("Avoir") \in CreditViolations(d, s)
    BY DEF CreditViolations, When
  <2>2. CreditViolations(d, s) \subseteq all
    BY <1>2 DEF Legal
  <2> HIDE DEF all
  <2> QED BY <1>1, <1>3, <2>1, <2>2
<1>6. ASSUME s.mode = "Enforce", ~Overridden(d) PROVE ContextViolations(d, s) = {}
  <2>1. ContextViolations(d, s) \subseteq {Violation("type", "Block")}
    BY DEF ContextViolations, When
  <2>2. Violation("type", "Block").enforcement = "Block"
    BY DEF Violation
  <2>3. ContextViolations(d, s) \subseteq all
    BY <1>6 DEF Collected
  <2>4. ~\E v \in all : v.enforcement = "Block"
    BY <1>6 DEF Saved
  <2> HIDE DEF all
  <2> QED BY <2>1, <2>2, <2>3, <2>4
<1> QED BY <1>4, <1>5, <1>6

LEMMA SavedCredit ==
  ASSUME NEW d, NEW s, s.enabled, Saved(d, s), InvoiceType(d, s) \in CreditTypes, Linkable(d)
  PROVE  /\ d.nature \in Natures /\ Reference(d) \in {"code", "other", "RRR"}
         /\ d.nature # "RRR" => Reference(d) \in {"code", "other"}
<1>1. CreditViolations(d, s) = {}
  BY SavedIsLegal
<1>2. /\ d.nature \in Natures /\ d.linked # "uncoded"
      /\ d.linked = "no" /\ d.nature # "RRR" => d.reference \in {"code", "other"}
  BY <1>1 DEF CreditViolations, When
<1>3. CASE d.linked = "coded"
  <2>1. Reference(d) = "code"
    BY <1>3 DEF Reference
  <2> QED BY <1>2, <2>1
<1>4. CASE d.linked = "no" /\ d.nature = "RRR"
  <2>1. Reference(d) = "RRR"
    BY <1>4 DEF Reference
  <2> QED BY <1>2, <1>4, <2>1
<1>5. CASE d.linked = "no" /\ d.nature # "RRR"
  <2>1. Reference(d) = d.reference
    BY <1>5 DEF Reference
  <2> QED BY <1>2, <1>5, <2>1
<1> QED BY <1>2, <1>3, <1>4, <1>5 DEF Linkable

(* Whatever the invoice, the settings and the rules of the matrices, an invoice   *)
(* that the controls save can be declared: the request of a credit note is        *)
(* accepted, no command of the MCF refuses what its message accepts, an exempted  *)
(* sale has its reference, and a return is a credit note                          *)
(* (edef/matrix.py, edef/mapper.py, fiscal/mcf_payload.py).                       *)
THEOREM EverySavedIsExpressible ==
  ASSUME NEW d, NEW s, Linkable(d), Mapped(s)
  PROVE  SavedIsExpressible(d, s)
<1> DEFINE r == Request(d, s)
<1> SUFFICES ASSUME s.enabled, Saved(d, s)
             PROVE  /\ r.type \in CreditTypes /\ r.group # "" => ~RequestRefused(r)
                    /\ \A known \in {{}, {"A", "B"}} : ~PayloadRefused(r, s, known) => ~CommandRefused(r, s)
                    /\ r.group = "D" \/ r.client = "AO" => d.commentA
                    /\ s.mode = "Enforce" /\ ~Overridden(d) /\ d.return => r.type \in CreditTypes
  BY DEF SavedIsExpressible
<1>1. /\ r.type = InvoiceType(d, s) /\ r.group = MappedGroup(d, s) /\ r.client = ClientType(d, s)
      /\ r.reference = Reference(d) /\ r.nature = d.nature
  BY DEF Request
<1>2. r.client \in ClientTypes \cup {""}
  BY <1>1, ClientIs
<1>3. r.type \in CreditTypes =>
        /\ r.nature \in Natures /\ r.reference \in {"code", "other", "RRR"}
        /\ r.nature # "RRR" => r.reference \in {"code", "other"}
  BY <1>1, SavedCredit
<1> HIDE DEF r
<1>4. r.type \in CreditTypes /\ r.group # "" => ~RequestRefused(r)
  BY <1>2, <1>3 DEF RequestRefused
<1>5. \A known : ~PayloadRefused(r, s, known) => ~CommandRefused(r, s)
  BY <1>3 DEF PayloadRefused, CommandRefused, RequestRefused
<1>6. r.group = "D" \/ r.client = "AO" => d.commentA
  <2>1. ExemptionViolations(d, s) = {}
    BY SavedIsLegal
  <2>2. r.group = "D" => TaxGroup(d, s) = "D"
    BY <1>1 DEF TaxGroup
  <2> QED BY <1>1, <2>1, <2>2 DEF ExemptionViolations, When
<1>7. s.mode = "Enforce" /\ ~Overridden(d) /\ d.return => r.type \in CreditTypes
  <2>1. s.mode = "Enforce" /\ ~Overridden(d) => ContextViolations(d, s) = {}
    BY SavedIsLegal
  <2> QED BY <1>1, <2>1 DEF ContextViolations, When
<1> QED BY <1>4, <1>5, <1>6, <1>7

----
(* Rounding.                                                                  *)

Positive == Nat \ {0}

LEMMA DivIs ==
  ASSUME NEW n \in Int, NEW d \in Positive
  PROVE  /\ n \div d \in Int /\ n % d \in Int
         /\ n % d = n - d * (n \div d) /\ 0 <= n % d /\ n % d < d
<1>1. d \in Int /\ d > 0
  BY DEF Positive
<1>2. n \div d \in Int /\ n % d \in Int
  BY <1>1
<1>3. n % d = n - d * (n \div d)
  BY <1>1, Z3
<1>4. 0 <= n % d /\ n % d < d
  BY <1>1
<1> QED BY <1>2, <1>3, <1>4

(* A product with a positive number keeps the order.                          *)
LEMMA ProductGrows ==
  ASSUME NEW a \in Int, NEW b \in Int, NEW d \in Positive, a <= b
  PROVE  d * a <= d * b
<1>1. d \in Nat /\ b - a \in Nat
  BY DEF Positive
<1>2. d * (b - a) >= 0
  BY <1>1
<1>3. d * (b - a) = d * b - d * a /\ d * b \in Int /\ d * a \in Int
  BY <1>1
<1> QED BY <1>2, <1>3

(* A quotient is the only number of its interval.                             *)
LEMMA QuotientOf ==
  ASSUME NEW n \in Int, NEW d \in Positive, NEW q \in Int
  PROVE  /\ d * q <= n => q <= n \div d
         /\ n < d * q + d => n \div d <= q
<1> DEFINE p == n \div d
<1>1. p \in Int /\ d \in Int /\ d * p \in Int /\ d * q \in Int /\ d * p <= n /\ n < d * p + d
  BY DivIs DEF Positive
<1> HIDE DEF p
<1>2. ASSUME d * q <= n, ~(q <= p) PROVE FALSE
  <2>1. p + 1 <= q /\ p + 1 \in Int
    BY <1>1, <1>2
  <2>2. d * (p + 1) <= d * q
    BY <2>1, ProductGrows
  <2>3. d * (p + 1) = d * p + d
    BY <1>1
  <2> QED BY <1>1, <1>2, <2>2, <2>3
<1>3. ASSUME n < d * q + d, ~(p <= q) PROVE FALSE
  <2>1. q + 1 <= p /\ q + 1 \in Int
    BY <1>1, <1>3
  <2>2. d * (q + 1) <= d * p
    BY <1>1, <2>1, ProductGrows
  <2>3. d * (q + 1) = d * q + d
    BY <1>1
  <2> QED BY <1>1, <1>3, <2>2, <2>3
<1> QED BY <1>2, <1>3 DEF p

(* Rounded up is never less than rounded to the nearest, whichever way a half   *)
(* goes, and never more than one above it.                                      *)
LEMMA CeilIs ==
  ASSUME NEW n \in Int, NEW d \in Positive
  PROVE  /\ Ceil(n, d) \in Int /\ n <= d * Ceil(n, d) /\ d * Ceil(n, d) < n + d
<1>1. d \in Int /\ n + d - 1 \in Int
  BY DEF Positive
<1>2. Ceil(n, d) \in Int /\ d * Ceil(n, d) <= n + d - 1 /\ n + d - 1 < d * Ceil(n, d) + d
  <2> DEFINE m == n + d - 1
             q == m \div d
  <2>1. m \in Int /\ Ceil(n, d) = q
    BY <1>1 DEF Ceil
  <2>2. q \in Int /\ m % d \in Int /\ m % d = m - d * q /\ 0 <= m % d /\ m % d < d
    <3> HIDE DEF m
    <3> QED BY <2>1, DivIs
  <2>3. d * q \in Int
    BY <1>1, <2>2
  <2>4. d * q <= m /\ m < d * q + d
    <3> DEFINE b == d * q
               a == m % d
    <3> HIDE DEF m, q, a, b
    <3>1. b \in Int /\ a \in Int /\ a = m - b /\ 0 <= a /\ a < d
      BY <2>2, <2>3 DEF a, b
    <3>2. b <= m /\ m < b + d
      BY <1>1, <2>1, <3>1
    <3> QED BY <3>2 DEF b
  <2> QED BY <2>1, <2>2, <2>4
<1>3. d * Ceil(n, d) \in Int
  BY <1>1, <1>2
<1> QED BY <1>1, <1>2, <1>3

LEMMA CeilGrows ==
  ASSUME NEW m \in Int, NEW n \in Int, NEW d \in Positive, m <= n
  PROVE  Ceil(m, d) <= Ceil(n, d)
<1> DEFINE a == Ceil(m, d)
           b == Ceil(n, d)
<1>1. a \in Int /\ b \in Int /\ d * a < m + d /\ n <= d * b
  BY CeilIs
<1> HIDE DEF a, b
<1>2. ASSUME b + 1 <= a PROVE FALSE
  <2>1. d * (b + 1) <= d * a
    BY <1>1, <1>2, ProductGrows
  <2>2. d * (b + 1) = d * b + d /\ d * b \in Int /\ d * a \in Int /\ d \in Int
    BY <1>1 DEF Positive
  <2> QED BY <1>1, <2>1, <2>2
<1> QED BY <1>1, <1>2 DEF a, b

LEMMA NearestIs ==
  ASSUME NEW n \in Int, NEW d \in Positive, NEW half \in {0, 1}
  PROVE  /\ Nearest(n, d, half) \in Int
         /\ Nearest(n, d, half) <= Ceil(n, d) /\ Ceil(n, d) <= Nearest(n, d, half) + 1
<1> DEFINE q == n \div d
           r == n % d
           c == Ceil(n, d)
<1>1. q \in Int /\ r \in Int /\ n = d * q + r /\ 0 <= r /\ r < d /\ d \in Int /\ d >= 1 /\ d * q \in Int
  BY DivIs DEF Positive
<1>2. c \in Int /\ n <= d * c /\ d * c < n + d /\ d * c \in Int
  BY CeilIs DEF Positive
<1> HIDE DEF q, r, c
<1>3. q <= c
  <2>1. ASSUME c + 1 <= q PROVE FALSE
    <3>1. d * (c + 1) <= d * q
      BY <1>1, <1>2, <2>1, ProductGrows
    <3>2. d * (c + 1) = d * c + d
      BY <1>1, <1>2
    <3> QED BY <1>1, <1>2, <3>1, <3>2
  <2> QED BY <1>1, <1>2, <2>1
<1>4. c <= q + 1
  <2>1. ASSUME q + 2 <= c PROVE FALSE
    <3>1. d * (q + 2) <= d * c
      BY <1>1, <1>2, <2>1, ProductGrows
    <3>2. d * (q + 2) = d * q + 2 * d
      BY <1>1, <1>2
    <3> QED BY <1>1, <1>2, <3>1, <3>2
  <2> QED BY <1>1, <1>2, <2>1
<1>5. r # 0 => c = q + 1
  <2>1. ASSUME r # 0, c = q PROVE FALSE
    BY <1>1, <1>2, <2>1
  <2> QED BY <1>1, <1>2, <1>3, <1>4, <2>1
<1>6. CASE 2 * r = d
  <2>1. Nearest(n, d, half) = q + half
    BY <1>6 DEF Nearest, q, r
  <2>2. r # 0
    BY <1>1, <1>6
  <2> QED BY <1>1, <1>2, <1>5, <2>1, <2>2 DEF c
<1>7. CASE 2 * r # d
  <2> DEFINE h == (2 * n + d) \div (2 * d)
  <2>1. Nearest(n, d, half) = h
    BY <1>7 DEF Nearest, HalfUp, r
  <2>2. 2 * n + d \in Int /\ 2 * d \in Positive /\ n \in Int
    BY <1>1 DEF Positive
  <2>3. \A t \in Int : (2 * d) * t = 2 * (d * t)
    BY <1>1
  <2>4. h \in Int
    BY <2>2, DivIs
  <2>5. ASSUME 2 * r < d PROVE h = q
    <3>1. (2 * d) * q <= 2 * n + d /\ 2 * n + d < (2 * d) * q + 2 * d
      BY <1>1, <2>3, <2>5
    <3> HIDE DEF h
    <3>2. q <= h /\ h <= q
      BY <1>1, <2>2, <3>1, QuotientOf DEF h
    <3> QED BY <1>1, <2>4, <3>2
  <2>6. ASSUME 2 * r > d PROVE h = q + 1
    <3>1. (2 * d) * (q + 1) <= 2 * n + d /\ 2 * n + d < (2 * d) * (q + 1) + 2 * d
      <4>1. (2 * d) * (q + 1) = 2 * (d * q) + 2 * d
        BY <1>1
      <4> QED BY <1>1, <2>6, <4>1
    <3> HIDE DEF h
    <3>2. q + 1 \in Int
      BY <1>1
    <3>3. q + 1 <= h /\ h <= q + 1
      BY <2>2, <3>1, <3>2, QuotientOf DEF h
    <3> QED BY <1>1, <2>4, <3>3
  <2> HIDE DEF h
  <2>7. CASE 2 * r < d
    BY <1>1, <1>2, <1>3, <1>4, <2>1, <2>5, <2>7 DEF c
  <2>8. CASE 2 * r > d
    <3>1. r # 0
      BY <1>1, <2>8
    <3> QED BY <1>1, <1>2, <1>5, <2>1, <2>6, <2>8, <3>1 DEF c
  <2> QED BY <1>1, <1>7, <2>7, <2>8
<1> QED BY <1>6, <1>7

LEMMA HalfUpIs ==
  ASSUME NEW n \in Int, NEW d \in Positive
  PROVE  /\ HalfUp(n, d) \in Int
         /\ \A q \in Int : /\ (2 * d) * q <= 2 * n + d => q <= HalfUp(n, d)
                           /\ 2 * n + d < (2 * d) * q + 2 * d => HalfUp(n, d) <= q
<1> DEFINE m == 2 * n + d
           e == 2 * d
<1>1. m \in Int /\ e \in Positive /\ HalfUp(n, d) = m \div e
  BY DEF Positive, HalfUp
<1> HIDE DEF m, e
<1>2. \A q \in Int : (e * q <= m => q <= m \div e) /\ (m < e * q + e => m \div e <= q)
  BY <1>1, QuotientOf
<1>3. m \div e \in Int
  BY <1>1, DivIs
<1> QED BY <1>1, <1>2, <1>3 DEF m, e

----
(* The sums of the model.                                                      *)

LEMMA SumOfIs == \A w, S : SumOf(w, S) = SumOver(w, S)
BY DEF SumOf, SumOver, MapThenSumSet, MapThenFoldSet

Letters == {"A", "B", "C", "D", "E", "F", "G", "H", "I", "J", "K", "L", "M",
            "N", "O", "P", "Q", "R", "S", "T", "U", "V", "W", "X", "Y", "Z"}

Invoiced == [net : Nat, qty : Positive, entered : Int, group : Letters, rate : Nat,
             tax : {"none", "unit", "percent"}, number : Nat, discount : BOOLEAN]
Modes == {"ttc", "ht"}

LEMMA SpecificTaxIs == \A l \in Invoiced : SpecificTax(l) \in Nat
<1> SUFFICES ASSUME NEW l \in Invoiced PROVE SpecificTax(l) \in Nat
  OBVIOUS
<1>1. l.net \in Nat /\ l.number \in Nat /\ l.qty \in Nat /\ l.tax \in {"none", "unit", "percent"}
  BY DEF Invoiced, Positive
<1>2. CASE l.tax = "none"
  BY <1>2 DEF SpecificTax
<1>3. CASE l.tax = "unit"
  <2>1. SpecificTax(l) = l.number * l.qty
    BY <1>3 DEF SpecificTax
  <2> QED BY <1>1, <2>1
<1>4. CASE l.tax = "percent"
  <2> DEFINE n == 100 * l.net
             d == 100 + l.number
             h == HalfUp(n, d)
  <2>1. SpecificTax(l) = l.net - h
    BY <1>4 DEF SpecificTax
  <2>2. n \in Int /\ d \in Positive
    BY <1>1 DEF Positive
  <2>3. 2 * n + d < (2 * d) * l.net + 2 * d
    <3>1. (2 * d) * l.net = 200 * l.net + 2 * (l.number * l.net) /\ l.number * l.net \in Nat
      BY <1>1
    <3> QED BY <1>1, <3>1
  <2> HIDE DEF n, d
  <2>4. h \in Int /\ h <= l.net
    BY <1>1, <2>2, <2>3, HalfUpIs
  <2> QED BY <1>1, <2>1, <2>4
<1> QED BY <1>1, <1>2, <1>3, <1>4

LEMMA PriceIs ==
  ASSUME NEW l \in Invoiced, NEW mode \in Modes
  PROVE  Price(l, mode) \in Int
<1>1. l.entered \in Int /\ l.net \in Int /\ l.rate \in Nat /\ SpecificTax(l) \in Int /\ l.qty \in Nat /\ l.qty > 0
  BY SpecificTaxIs DEF Invoiced, Positive
<1> DEFINE f == IF mode = "ttc" THEN Factor(l) ELSE 100
           n == (l.net - SpecificTax(l)) * f
           d == 100 * l.qty
<1>2. f \in Int
  BY <1>1 DEF Factor
<1>3. n \in Int /\ d \in Positive
  BY <1>1, <1>2 DEF Positive
<1>4. Price(l, mode) \in {l.entered, HalfUp(n, d)}
  BY DEF Price
<1> HIDE DEF n, d
<1>5. HalfUp(n, d) \in Int
  BY <1>3, HalfUpIs
<1> QED BY <1>1, <1>4, <1>5

Priced(items) ==
  /\ IsFiniteSet(DOMAIN items)
  /\ \A k \in DOMAIN items : /\ items[k].price \in Nat /\ items[k].qty \in Nat
                             /\ items[k].ts \in Nat /\ items[k].rate \in Nat

LEMMA ItemsArePriced ==
  ASSUME NEW lines, lines \in Seq(Invoiced), NEW mode \in Modes, \A k \in DOMAIN Items(lines, mode) : Items(lines, mode)[k].price > 0
  PROVE  Priced(Items(lines, mode))
<1> DEFINE items == Items(lines, mode)
<1>1. DOMAIN lines = 1..Len(lines) /\ Len(lines) \in Nat /\ \A k \in DOMAIN lines : lines[k] \in Invoiced
  OBVIOUS
<1>2. DOMAIN items = DOMAIN lines /\ \A k \in DOMAIN lines : items[k] = Item(lines[k], mode)
  BY DEF Items
<1>3. IsFiniteSet(DOMAIN items)
  <2>1. IsFiniteSet(1..Len(lines))
    BY <1>1, FS_Interval
  <2> QED BY <1>1, <1>2, <2>1
<1>4. ASSUME NEW k \in DOMAIN items
      PROVE  /\ items[k].price \in Nat /\ items[k].qty \in Nat
             /\ items[k].ts \in Nat /\ items[k].rate \in Nat
  <2> DEFINE l == lines[k]
  <2>1. l \in Invoiced
    BY <1>1, <1>2, <1>4
  <2>2. /\ items[k].price = Price(l, mode) /\ items[k].qty = l.qty
        /\ items[k].ts = SpecificTax(l) /\ items[k].rate = l.rate
    BY <1>2, <1>4 DEF Item
  <2>3. Price(l, mode) \in Int /\ SpecificTax(l) \in Nat /\ l.qty \in Nat /\ l.rate \in Nat
    <3> HIDE DEF l
    <3> QED BY <2>1, PriceIs, SpecificTaxIs DEF Invoiced, Positive
  <2>4. items[k].price > 0
    BY <1>4
  <2> QED BY <2>2, <2>3, <2>4
<1> HIDE DEF items
<1> QED BY <1>3, <1>4 DEF Priced, items

(* What each group sums.                                                        *)
LEMMA GroupSums ==
  ASSUME NEW items, Priced(items), NEW g \in GroupsOf(items)
  PROVE  /\ AmountIn(items, g) \in Nat /\ SpecificIn(items, g) \in Nat /\ RateOf(items, g) \in Nat
         /\ NoSpecific(items) => SpecificIn(items, g) = 0
<1>1. IsFiniteSet(Of(items, g))
  BY FS_Subset DEF Of, Priced
<1> DEFINE w == [k \in Of(items, g) |-> items[k].price * items[k].qty]
           t == [k \in Of(items, g) |-> items[k].ts]
<1>2. \A k \in Of(items, g) : w[k] \in Nat
  BY DEF Of, Priced
<1>3. \A k \in Of(items, g) : t[k] \in Nat
  BY DEF Of, Priced
<1>4. AmountIn(items, g) = SumOver(w, Of(items, g)) /\ SpecificIn(items, g) = SumOver(t, Of(items, g))
  BY SumOfIs DEF AmountIn, SpecificIn
<1>5. NoSpecific(items) => \A k \in Of(items, g) : t[k] \in Int /\ 0 <= t[k] /\ t[k] <= 0
  BY DEF NoSpecific, Of
<1> HIDE DEF w, t
<1>6. AmountIn(items, g) \in Nat
  BY <1>1, <1>2, <1>4, SumOverNatural
<1>7. SpecificIn(items, g) \in Nat
  BY <1>1, <1>3, <1>4, SumOverNatural
<1>8. NoSpecific(items) => SpecificIn(items, g) = 0
  <2> SUFFICES ASSUME NoSpecific(items) PROVE SpecificIn(items, g) = 0
    OBVIOUS
  <2>1. 0 <= SumOver(t, Of(items, g)) /\ SumOver(t, Of(items, g)) <= 0 * Cardinality(Of(items, g))
    BY <1>1, <1>5, SumOverBounds
  <2>2. Cardinality(Of(items, g)) \in Nat
    BY <1>1, FS_CardinalityType
  <2> QED BY <1>4, <1>7, <2>1, <2>2
<1>9. RateOf(items, g) \in Nat
  <2> DEFINE k == CHOOSE j \in DOMAIN items : items[j].group = g
  <2>1. k \in DOMAIN items
    BY DEF GroupsOf
  <2>2. RateOf(items, g) = items[k].rate
    BY DEF RateOf
  <2> HIDE DEF k
  <2> QED BY <2>1, <2>2 DEF Priced
<1> QED BY <1>6, <1>7, <1>8, <1>9

(* Of what the VAT is taken: from a price with VAT, or on top of it.              *)
Part(mode, r) == IF mode = "ttc" THEN 100 + r ELSE 100

GroupParts(a, base, r, mode, g) ==
  /\ a.ht \in Nat /\ a.vat \in Nat /\ a.total \in Int /\ a.ht + a.vat = a.total
  /\ ~VatOnly(g) => /\ a.vat = Ceil(base * r, Part(mode, r))
                    /\ a.total = IF mode = "ttc" THEN base ELSE base + a.vat

LEMMA GroupAmountsIs ==
  ASSUME NEW base \in Nat, NEW r \in Nat, NEW mode \in Modes, NEW g
  PROVE  GroupParts(GroupAmounts(base, r, mode, g), base, r, mode, g)
<1> DEFINE a == GroupAmounts(base, r, mode, g)
           n == base * r
           d == Part(mode, r)
           v == Ceil(n, d)
<1>1. n \in Nat /\ n \in Int /\ d \in Positive /\ d \in Nat
  BY DEF Positive, Part
<1>2. v \in Int /\ n <= d * v /\ d * v < n + d
  <2> HIDE DEF n, d
  <2> QED BY <1>1, CeilIs
<1>3. v >= 0
  <2> HIDE DEF n, d, v
  <2>1. ASSUME v + 1 <= 0 PROVE FALSE
    <3>1. d * (v + 1) <= d * 0
      BY <1>1, <1>2, <2>1, ProductGrows
    <3>2. d * (v + 1) = d * v + d /\ d * 0 = 0 /\ d * v \in Int
      BY <1>1, <1>2
    <3> QED BY <1>1, <1>2, <3>1, <3>2 DEF Positive
  <2> QED BY <1>2, <2>1
<1>4. mode = "ttc" => v <= base
  <2> SUFFICES ASSUME mode = "ttc", base + 1 <= v PROVE FALSE
    <3> HIDE DEF v
    <3> QED BY <1>2
  <2>1. d = 100 + r /\ d * (base + 1) = 100 * base + n + 100 + r
    BY DEF Part
  <2> HIDE DEF n, d, v
  <2>2. d * (base + 1) <= d * v
    BY <1>1, <1>2, ProductGrows
  <2>3. d * v \in Int
    BY <1>1, <1>2
  <2> QED BY <1>1, <1>2, <2>1, <2>2, <2>3
<1>5. CASE VatOnly(g)
  <2>1. a = [total |-> base, ht |-> 0, vat |-> base]
    BY <1>5 DEF GroupAmounts
  <2> QED BY <1>5, <2>1 DEF GroupParts
<1>6. CASE ~VatOnly(g) /\ mode = "ttc"
  <2>1. a = [total |-> base, ht |-> base - v, vat |-> v]
    BY <1>6 DEF GroupAmounts, Part
  <2> HIDE DEF v
  <2>2. a.total = base /\ a.ht = base - v /\ a.vat = v
    BY <2>1
  <2>3. base - v \in Nat /\ v \in Nat /\ (base - v) + v = base
    BY <1>2, <1>3, <1>4, <1>6
  <2> QED BY <1>6, <2>2, <2>3 DEF v, GroupParts
<1>7. CASE ~VatOnly(g) /\ mode = "ht"
  <2>1. a = [total |-> base + v, ht |-> base, vat |-> v]
    BY <1>7 DEF GroupAmounts, Part
  <2> HIDE DEF v
  <2>2. a.total = base + v /\ a.ht = base /\ a.vat = v
    BY <2>1
  <2>3. v \in Nat
    BY <1>2, <1>3
  <2> QED BY <1>7, <2>2, <2>3 DEF v, GroupParts
<1> QED BY <1>5, <1>6, <1>7 DEF Modes

(* The base the e-MCF takes: the specific tax with its VAT, or without.            *)
Base(items, mode, g) ==
  AmountIn(items, g) + (IF mode = "ttc" THEN HalfUp(SpecificIn(items, g) * (100 + RateOf(items, g)), 100)
                        ELSE SpecificIn(items, g))

LEMMA BaseIs ==
  ASSUME NEW items, Priced(items), NEW mode \in Modes, NEW g \in GroupsOf(items)
  PROVE  /\ Base(items, mode, g) \in Nat
         /\ Base(items, mode, g) >= AmountIn(items, g) + SpecificIn(items, g)
         /\ SpecificIn(items, g) = 0 => Base(items, mode, g) = AmountIn(items, g)
<1> DEFINE A == AmountIn(items, g)
           T == SpecificIn(items, g)
           R == RateOf(items, g)
           n == T * (100 + R)
           h == HalfUp(n, 100)
<1>1. A \in Nat /\ T \in Nat /\ R \in Nat
  BY GroupSums
<1> HIDE DEF A, T, R
<1>2. T * R \in Nat /\ n = 100 * T + T * R
  BY <1>1
<1> HIDE DEF n
<1>3. h \in Int /\ T <= h
  <2>1. n \in Int /\ 100 \in Positive
    BY <1>1, <1>2 DEF Positive
  <2>2. (2 * 100) * T <= 2 * n + 100
    BY <1>1, <1>2
  <2> QED BY <1>1, <2>1, <2>2, HalfUpIs
<1>4. T = 0 => h = 0
  <2> SUFFICES ASSUME T = 0 PROVE h = 0
    OBVIOUS
  <2>1. n = 0
    BY <1>1 DEF n
  <2>2. HalfUp(0, 100) = 0
    BY DEF HalfUp
  <2> QED BY <2>1, <2>2
<1> HIDE DEF h
<1>5. Base(items, mode, g) = A + (IF mode = "ttc" THEN h ELSE T)
  BY DEF Base, A, T, R, n, h
<1>6. CASE mode = "ttc"
  BY <1>1, <1>3, <1>4, <1>5, <1>6 DEF A, T
<1>7. CASE mode = "ht"
  BY <1>1, <1>5, <1>7 DEF A, T
<1> QED BY <1>6, <1>7 DEF Modes

(* One group of the two channels: the total and the VAT of the e-MCF are never less, *)
(* and without a specific tax the VAT is at most a hundredth more.                   *)
GroupAgrees(items, mode, g, half) ==
  LET a  == Group(items, mode, g)
      mt == McfVat(items, mode, g, half)
      mv == McfGross(items, mode, g, half)
  IN  /\ a.ht \in Nat /\ a.vat \in Nat /\ a.total \in Int /\ a.ht + a.vat = a.total
      /\ mt \in Int /\ mv \in Int
      /\ ~VatOnly(g) =>
           /\ a.total >= mv /\ a.vat >= mt
           /\ NoSpecific(items) =>
                /\ a.vat <= mt + 1
                /\ a.total - mv = (IF mode = "ttc" THEN 0 ELSE a.vat - mt)

LEMMA GroupsAgree ==
  ASSUME NEW items, Priced(items), NEW mode \in Modes, NEW g \in GroupsOf(items), NEW half \in {0, 1}
  PROVE  GroupAgrees(items, mode, g, half)
<1> DEFINE A == AmountIn(items, g)
           T == SpecificIn(items, g)
           R == RateOf(items, g)
           B == Base(items, mode, g)
           a == Group(items, mode, g)
           d == Part(mode, R)
           mt == McfVat(items, mode, g, half)
           mv == McfGross(items, mode, g, half)
<1>1. A \in Nat /\ T \in Nat /\ R \in Nat /\ (NoSpecific(items) => T = 0)
  BY GroupSums
<1>2. B \in Nat /\ B >= A + T /\ (T = 0 => B = A)
  BY BaseIs
<1>3. a = GroupAmounts(B, R, mode, g)
  BY DEF Group, Base
<1>4. mt = Nearest(A * R, d, half)
  BY DEF McfVat, Part
<1>5. mv = A + (IF mode = "ttc" THEN 0 ELSE mt) + T
  BY DEF McfGross
<1>6. d \in Positive
  BY <1>1 DEF Part, Positive
<1> HIDE DEF A, T, R, B, a, d, mt, mv
<1>7. /\ a.ht \in Nat /\ a.vat \in Nat /\ a.total \in Int /\ a.ht + a.vat = a.total
      /\ ~VatOnly(g) => /\ a.vat = Ceil(B * R, d)
                        /\ a.total = IF mode = "ttc" THEN B ELSE B + a.vat
  <2>1. GroupParts(GroupAmounts(B, R, mode, g), B, R, mode, g)
    BY <1>1, <1>2, GroupAmountsIs
  <2>2. d = Part(mode, R)
    BY DEF d
  <2> QED BY <1>3, <2>1, <2>2 DEF GroupParts
<1>8. A * R \in Int /\ B * R \in Int /\ A * R <= B * R
  <2>1. A <= B
    BY <1>1, <1>2
  <2>2. B - A \in Nat /\ (B - A) * R = B * R - A * R /\ (B - A) * R >= 0 /\ A * R \in Int /\ B * R \in Int
    <3>1. B - A \in Nat /\ A * R \in Int /\ B * R \in Int
      BY <1>1, <1>2, <2>1
    <3>2. (B - A) * R >= 0
      BY <1>1, <3>1
    <3>3. (B - A) * R = B * R - A * R
      BY <1>1, <1>2
    <3> QED BY <3>1, <3>2, <3>3
  <2> QED BY <2>2
<1>9. mt \in Int /\ mt <= Ceil(A * R, d) /\ Ceil(A * R, d) <= mt + 1
  BY <1>4, <1>6, <1>8, NearestIs
<1>10. Ceil(A * R, d) <= Ceil(B * R, d) /\ Ceil(A * R, d) \in Int /\ Ceil(B * R, d) \in Int
  BY <1>6, <1>8, CeilGrows, CeilIs
<1>11. mv \in Int
  BY <1>1, <1>5, <1>9
<1>12. ASSUME ~VatOnly(g)
       PROVE  /\ a.total >= mv /\ a.vat >= mt
              /\ NoSpecific(items) => /\ a.vat <= mt + 1
                                      /\ a.total - mv = (IF mode = "ttc" THEN 0 ELSE a.vat - mt)
  <2>1. a.vat = Ceil(B * R, d) /\ a.total = IF mode = "ttc" THEN B ELSE B + a.vat
    BY <1>7, <1>12
  <2>2. a.vat >= mt
    BY <1>9, <1>10, <2>1
  <2>3. a.total >= mv
    <3>1. CASE mode = "ttc"
      BY <1>1, <1>2, <1>5, <2>1, <3>1
    <3>2. CASE mode # "ttc"
      <4>1. a.total = B + a.vat /\ mv = A + mt + T
        BY <1>5, <2>1, <3>2
      <4> QED BY <1>1, <1>2, <1>7, <1>9, <2>2, <4>1
    <3> QED BY <3>1, <3>2
  <2>4. ASSUME NoSpecific(items)
        PROVE  a.vat <= mt + 1 /\ a.total - mv = (IF mode = "ttc" THEN 0 ELSE a.vat - mt)
    <3>1. T = 0 /\ B = A
      BY <1>1, <1>2, <2>4
    <3>2. a.vat <= mt + 1
      BY <1>9, <1>10, <2>1, <3>1
    <3>3. CASE mode = "ttc"
      BY <1>1, <1>5, <2>1, <3>1, <3>2, <3>3
    <3>4. CASE mode # "ttc"
      <4>1. a.total = A + a.vat /\ mv = A + mt + 0
        BY <1>5, <2>1, <3>1, <3>4
      <4>2. a.total - mv = a.vat - mt
        BY <1>1, <1>7, <1>9, <4>1
      <4> QED BY <3>2, <3>4, <4>2
    <3> QED BY <3>3, <3>4
  <2> QED BY <2>2, <2>3, <2>4
<1> QED BY <1>7, <1>9, <1>11, <1>12 DEF GroupAgrees, a, mt, mv

LEMMA GroupsAreFinite ==
  ASSUME NEW items, Priced(items)
  PROVE  IsFiniteSet(GroupsOf(items))
<1> DEFINE f == [k \in DOMAIN items |-> items[k].group]
<1>1. f \in [DOMAIN items -> GroupsOf(items)] /\ \A g \in GroupsOf(items) : \E k \in DOMAIN items : f[k] = g
  BY DEF GroupsOf
<1>2. f \in Surjection(DOMAIN items, GroupsOf(items))
  BY <1>1 DEF Surjection
<1> QED BY <1>2, FS_Surjection DEF Priced

(* The two channels on a whole invoice.                                              *)
TotalsAgree(items, mode, half) ==
  LET more == FiscalTotal(items, mode) - McfMV(items, mode, half)
      vat  == FiscalVat(items, mode) - McfMT(items, mode, half)
  IN  /\ more >= 0 /\ vat >= 0
      /\ NoSpecific(items) => vat <= Cardinality(GroupsOf(items)) /\ more = (IF mode = "ttc" THEN 0 ELSE vat)

LEMMA InvoiceAgrees ==
  ASSUME NEW items, Priced(items), NEW mode \in Modes, NoGroupN(items), NEW half \in {0, 1}
  PROVE  TotalsAgree(items, mode, half)
<1> DEFINE S == GroupsOf(items)
           tot == [g \in S |-> Group(items, mode, g).total]
           mv  == [g \in S |-> McfGross(items, mode, g, half)]
           vat == [g \in S |-> Group(items, mode, g).vat]
           mt  == [g \in S |-> McfVat(items, mode, g, half)]
           w   == [g \in S |-> tot[g] - mv[g]]
           v   == [g \in S |-> vat[g] - mt[g]]
<1>1. IsFiniteSet(S) /\ Cardinality(S) \in Nat
  BY GroupsAreFinite, FS_CardinalityType
<1>2. \A g \in S : ~VatOnly(g)
  BY DEF NoGroupN, GroupsOf
<1>3. /\ FiscalTotal(items, mode) = SumOver(tot, S) /\ McfMV(items, mode, half) = SumOver(mv, S)
      /\ FiscalVat(items, mode) = SumOver(vat, S) /\ McfMT(items, mode, half) = SumOver(mt, S)
  BY SumOfIs DEF FiscalTotal, McfMV, FiscalVat, McfMT
<1>4. ASSUME NEW g \in S
      PROVE  /\ tot[g] \in Int /\ mv[g] \in Int /\ vat[g] \in Int /\ mt[g] \in Int
             /\ tot[g] >= mv[g] /\ vat[g] >= mt[g]
             /\ NoSpecific(items) => /\ vat[g] <= mt[g] + 1
                                     /\ tot[g] - mv[g] = (IF mode = "ttc" THEN 0 ELSE vat[g] - mt[g])
  <2>1. GroupAgrees(items, mode, g, half)
    BY GroupsAgree
  <2> QED BY <1>2, <2>1 DEF GroupAgrees
<1> HIDE DEF S, tot, mv, vat, mt
<1>5. ASSUME NEW g \in S
      PROVE  /\ w[g] \in Nat /\ w[g] \in Int /\ tot[g] = mv[g] + w[g]
             /\ v[g] \in Nat /\ v[g] \in Int /\ vat[g] = mt[g] + v[g]
             /\ NoSpecific(items) => v[g] <= 1 /\ w[g] = (IF mode = "ttc" THEN 0 ELSE v[g])
  <2>1. w[g] = tot[g] - mv[g] /\ v[g] = vat[g] - mt[g]
    OBVIOUS
  <2> HIDE DEF w, v
  <2> QED BY <1>4, <2>1
<1> HIDE DEF w, v
<1>6. SumOver(tot, S) = SumOver(mv, S) + SumOver(w, S)
  BY <1>1, <1>4, <1>5, SumOverPlus
<1>7. SumOver(vat, S) = SumOver(mt, S) + SumOver(v, S)
  BY <1>1, <1>4, <1>5, SumOverPlus
<1>8. SumOver(w, S) \in Nat /\ SumOver(v, S) \in Nat
  BY <1>1, <1>5, SumOverNatural
<1>9. SumOver(mv, S) \in Int /\ SumOver(mt, S) \in Int
  BY <1>1, <1>4, SumOverType
<1>10. ASSUME NoSpecific(items)
       PROVE  SumOver(v, S) <= Cardinality(S) /\ SumOver(w, S) = (IF mode = "ttc" THEN 0 ELSE SumOver(v, S))
  <2>1. SumOver(v, S) <= 1 * Cardinality(S)
    <3>1. \A g \in S : v[g] \in Int /\ 0 <= v[g] /\ v[g] <= 1
      BY <1>5, <1>10
    <3> QED BY <1>1, <3>1, SumOverBounds
  <2>2. CASE mode = "ttc"
    <3>1. PICK zero \in Int : zero = 0
      OBVIOUS
    <3>2. \A g \in S : w[g] \in Int /\ 0 <= w[g] /\ w[g] <= zero
      BY <1>5, <1>10, <2>2, <3>1
    <3>3. SumOver(w, S) <= zero * Cardinality(S)
      BY <1>1, <3>1, <3>2, SumOverBounds
    <3> QED BY <1>1, <1>8, <2>1, <2>2, <3>1, <3>3
  <2>3. CASE mode # "ttc"
    <3>1. \A g \in S : v[g] \in Int /\ w[g] = v[g]
      BY <1>5, <1>10, <2>3
    <3>2. SumOver(w, S) = SumOver(v, S)
      BY <1>1, <3>1, SumOverSame
    <3> QED BY <1>1, <2>1, <2>3, <3>2
  <2> QED BY <2>2, <2>3
<1>11. FiscalTotal(items, mode) - McfMV(items, mode, half) = SumOver(w, S)
  BY <1>3, <1>6, <1>8, <1>9
<1>12. FiscalVat(items, mode) - McfMT(items, mode, half) = SumOver(v, S)
  BY <1>3, <1>7, <1>8, <1>9
<1> QED BY <1>8, <1>10, <1>11, <1>12 DEF TotalsAgree, S

(* For every invoice, with or without VAT in its prices: taxable and tax add up to   *)
(* the total of each group; the e-MCF's total and VAT, on which the payments are      *)
(* aligned, are never less than the MCF's; without a specific tax they differ by at   *)
(* most a hundredth per group, and the totals not at all when prices include VAT      *)
(* (edef/calc.py, fiscal/mcf_payload.py).                                             *)
THEOREM EveryInvoiceAgrees ==
  ASSUME NEW lines, lines \in Seq(Invoiced), NEW mode \in Modes
  PROVE  ChannelsAgree(lines, mode)
<1> DEFINE items == Items(lines, mode)
<1> SUFFICES ASSUME \A k \in DOMAIN items : items[k].price > 0
             PROVE  /\ \A g \in GroupsOf(items) :
                         LET a == Group(items, mode, g) IN a.ht + a.vat = a.total /\ a.ht >= 0 /\ a.vat >= 0
                    /\ NoGroupN(items) => \A half \in {0, 1} : TotalsAgree(items, mode, half)
  BY DEF ChannelsAgree, TotalsAgree
<1>1. Priced(items)
  BY ItemsArePriced
<1> HIDE DEF items
<1>2. ASSUME NEW g \in GroupsOf(items)
      PROVE  LET a == Group(items, mode, g) IN a.ht + a.vat = a.total /\ a.ht >= 0 /\ a.vat >= 0
  <2>1. GroupAgrees(items, mode, g, 0)
    BY <1>1, GroupsAgree
  <2> QED BY <2>1 DEF GroupAgrees
<1> QED BY <1>1, <1>2, InvoiceAgrees

----
(* Payments.                                                                          *)

(* A line of payment; T holds the types and the modes of payment.                       *)
Payment(T) == [type : T, mode : T, amount : Int]
Texts(T)   == {"", "selected", "CREDIT", "ESPECES"} \subseteq T

LEMMA LinesAre ==
  ASSUME NEW T, NEW n \in Nat, NEW f \in [1..n -> Payment(T)]
  PROVE  f \in Seq(Payment(T)) /\ Len(f) = n /\ DOMAIN f = 1..n
<1>1. f \in Seq(Payment(T))
  BY SeqDef
<1> QED BY <1>1, LenProperties

LEMMA PaidLineIs ==
  ASSUME NEW T, NEW lines \in Seq(Payment(T))
  PROVE  /\ Len(lines) \in Nat /\ DOMAIN lines = 1..Len(lines) /\ IsFiniteSet(DOMAIN lines)
         /\ \A k \in DOMAIN lines : lines[k] \in Payment(T) /\ lines[k].amount \in Int
         /\ DOMAIN lines \subseteq Nat
         /\ lines = <<>> <=> DOMAIN lines = {}
<1>1. Len(lines) \in Nat /\ DOMAIN lines = 1..Len(lines)
  OBVIOUS
<1>2. ASSUME NEW k \in DOMAIN lines PROVE lines[k] \in Payment(T) /\ lines[k].amount \in Int
  <2>1. lines[k] \in Payment(T)
    OBVIOUS
  <2> QED BY <2>1 DEF Payment
<1>3. IsFiniteSet(DOMAIN lines)
  BY <1>1, FS_Interval
<1>4. lines = <<>> <=> DOMAIN lines = {}
  <2>1. lines = <<>> => DOMAIN lines = {}
    OBVIOUS
  <2>2. lines # <<>> => Len(lines) # 0
    BY EmptySeq
  <2>3. DOMAIN lines = {} => Len(lines) = 0
    BY <1>1
  <2> QED BY <2>1, <2>2, <2>3
<1> QED BY <1>1, <1>2, <1>3, <1>4

LEMMA AmountIs ==
  ASSUME NEW T, NEW lines \in Seq(Payment(T)), NEW w, \A k \in DOMAIN lines : w[k] = lines[k].amount
  PROVE  Amount(lines) = SumOver(w, DOMAIN lines) /\ Amount(lines) \in Int
<1> DEFINE D == DOMAIN lines
           u == [k \in D |-> lines[k].amount]
<1>1. Amount(lines) = SumOver(u, D)
  BY SumOfIs DEF Amount
<1>2. IsFiniteSet(D) /\ \A k \in D : u[k] \in Int /\ w[k] \in Int /\ w[k] = u[k]
  BY PaidLineIs
<1> HIDE DEF u, D
<1>3. SumOver(w, D) = SumOver(u, D) /\ SumOver(u, D) \in Int
  BY <1>2, SumOverSame, SumOverType
<1> QED BY <1>1, <1>3 DEF D

LEMMA AmountOfNone == ASSUME NEW T PROVE Amount(<<>>) = 0
<1>1. <<>> \in Seq(Payment(T)) /\ DOMAIN <<>> = {}
  OBVIOUS
<1>2. PICK lines \in Seq(Payment(T)) : lines = <<>> /\ DOMAIN lines = {}
  BY <1>1
<1> DEFINE w == [k \in {} |-> 0]
<1>3. Amount(lines) = SumOver(w, DOMAIN lines)
  <2>1. \A k \in DOMAIN lines : w[k] = lines[k].amount
    BY <1>2
  <2> HIDE DEF w
  <2> QED BY <2>1, AmountIs
<1> QED BY <1>2, <1>3, SumOverEmpty

(* Amounts that are not negative sum to nothing only when each is nothing.                *)
LEMMA AmountPositive ==
  ASSUME NEW T, NEW lines \in Seq(Payment(T)), lines # <<>>, \A k \in DOMAIN lines : lines[k].amount > 0
  PROVE  Amount(lines) > 0
<1> DEFINE D == DOMAIN lines
           w == [k \in D |-> lines[k].amount]
<1>1. IsFiniteSet(D) /\ D # {} /\ \A k \in D : w[k] \in Int /\ w[k] > 0
  BY PaidLineIs
<1>2. Amount(lines) = SumOver(w, D)
  <2>1. \A k \in D : w[k] = lines[k].amount
    OBVIOUS
  <2> HIDE DEF w
  <2> QED BY <2>1, AmountIs
<1> HIDE DEF D, w
<1>3. PICK x \in D : TRUE
  BY <1>1
<1> DEFINE R == D \ {x}
<1>4. IsFiniteSet(R) /\ x \notin R /\ R \cup {x} = D /\ \A k \in R : w[k] \in Int /\ w[k] \in Nat
  BY <1>1, FS_Subset
<1> HIDE DEF R
<1>5. SumOver(w, R \cup {x}) = SumOver(w, R) + w[x] /\ SumOver(w, R) \in Nat
  BY <1>1, <1>4, SumOverAdd, SumOverNatural
<1>6. w[x] \in Int /\ w[x] > 0
  BY <1>1
<1>7. Amount(lines) = SumOver(w, R) + w[x]
  BY <1>2, <1>4, <1>5
<1> QED BY <1>5, <1>6, <1>7

(* Each number of a finite set comes once in the order.                                   *)
LEMMA InOrderIs ==
  ASSUME NEW S \in SUBSET Nat, IsFiniteSet(S)
  PROVE  /\ Cardinality(S) \in Nat /\ DOMAIN InOrder(S) = 1..Cardinality(S)
         /\ OneToOne(InOrder(S), 1..Cardinality(S), S)
<1> DEFINE N == Cardinality(S)
           Upto(k) == {j \in S : j <= k}
           rank == [k \in S |-> Cardinality(Upto(k))]
           ord == InOrder(S)
<1>1. N \in Nat /\ IsFiniteSet(1..N) /\ Cardinality(1..N) = N
  BY FS_CardinalityType, FS_Interval
<1>2. ASSUME NEW k \in S PROVE rank[k] \in 1..N
  <2>1. IsFiniteSet(Upto(k)) /\ Cardinality(Upto(k)) <= N /\ Upto(k) # {}
    BY FS_Subset
  <2>2. Cardinality(Upto(k)) \in Nat /\ Cardinality(Upto(k)) # 0
    BY <2>1, FS_CardinalityType, FS_EmptySet
  <2> QED BY <1>1, <2>1, <2>2
<1>3. ASSUME NEW i \in S, NEW j \in S, i < j PROVE rank[i] # rank[j]
  <2>1. i \in Nat /\ j \in Nat /\ S \subseteq Nat
    OBVIOUS
  <2>2. Upto(i) \in SUBSET Upto(j) /\ j \in Upto(j) /\ j \notin Upto(i)
    <3>1. (\A q \in Nat : q <= i => q <= j) /\ j <= j /\ ~(j <= i)
      BY <1>3, <2>1
    <3>2. \A q \in Upto(i) : q \in S /\ q \in Nat /\ q <= i
      BY <2>1
    <3> QED BY <3>1, <3>2
  <2>3. IsFiniteSet(Upto(j))
    BY FS_Subset
  <2> HIDE DEF Upto
  <2>4. Cardinality(Upto(j)) # Cardinality(Upto(i))
    BY <2>2, <2>3, FS_Subset
  <2> QED BY <2>4
<1>4. rank \in Injection(S, 1..N)
  <2>1. \A i, j \in S : rank[i] = rank[j] => i = j
    BY <1>3
  <2>2. rank \in [S -> 1..N]
    BY <1>2
  <2> HIDE DEF rank
  <2> QED BY <2>1, <2>2 DEF Injection, IsInjective
<1>5. rank \in Surjection(S, 1..N)
  <2> HIDE DEF rank
  <2> QED BY <1>1, <1>4, FS_Injection
<1>6. \A n \in 1..N : \E k \in S : rank[k] = n
  <2> HIDE DEF rank
  <2> QED BY <1>5 DEF Surjection
<1>7. DOMAIN ord = 1..N
  BY DEF InOrder
<1>8. ASSUME NEW n \in 1..N PROVE ord[n] \in S /\ rank[ord[n]] = n
  <2>1. ord[n] = CHOOSE k \in S : Cardinality(Upto(k)) = n
    BY DEF InOrder
  <2>2. \E k \in S : Cardinality(Upto(k)) = n
    BY <1>6
  <2> QED BY <2>1, <2>2
<1> HIDE DEF rank, ord
<1>9. \A m, n \in 1..N : ord[m] = ord[n] => m = n
  BY <1>8
<1>10. \A k \in S : \E n \in 1..N : ord[n] = k
  <2> TAKE k \in S
  <2>1. rank[k] \in 1..N /\ rank[ord[rank[k]]] = rank[k] /\ ord[rank[k]] \in S
    BY <1>2, <1>8
  <2>2. ord[rank[k]] = k
    BY <1>4, <2>1 DEF Injection, IsInjective
  <2> QED BY <2>1, <2>2
<1>11. OneToOne(ord, 1..N, S)
  BY <1>8, <1>9, <1>10 DEF OneToOne
<1> QED BY <1>1, <1>7, <1>11 DEF ord

(* The lines at some places are these lines, and their amounts sum to those there.          *)
LEMMA LinesAtAre ==
  ASSUME NEW T, NEW lines \in Seq(Payment(T)), NEW S \in SUBSET DOMAIN lines,
         NEW w, \A k \in DOMAIN lines : w[k] = lines[k].amount
  PROVE  /\ LinesAt(lines, S) \in Seq(Payment(T))
         /\ \A n \in DOMAIN LinesAt(lines, S) : \E k \in S : LinesAt(lines, S)[n] = lines[k]
         /\ \A k \in S : \E n \in DOMAIN LinesAt(lines, S) : LinesAt(lines, S)[n] = lines[k]
         /\ Amount(LinesAt(lines, S)) = SumOver(w, S)
<1> DEFINE N == Cardinality(S)
           ord == InOrder(S)
           at == LinesAt(lines, S)
<1>1. S \in SUBSET Nat /\ IsFiniteSet(S)
  BY PaidLineIs, FS_Subset
<1>2. /\ N \in Nat /\ DOMAIN ord = 1..N
      /\ OneToOne(ord, 1..N, S)
  BY <1>1, InOrderIs
<1>3. /\ \A n \in 1..N : ord[n] \in S
      /\ \A k \in S : \E n \in 1..N : ord[n] = k
  <2> HIDE DEF N, ord
  <2> QED BY <1>2 DEF OneToOne
<1>4. at = [n \in 1..N |-> lines[ord[n]]]
  BY <1>2 DEF LinesAt
<1> HIDE DEF N, ord, at
<1>5. ASSUME NEW n \in 1..N PROVE at[n] = lines[ord[n]] /\ ord[n] \in S /\ at[n] \in Payment(T)
  <2>1. ord[n] \in S /\ at[n] = lines[ord[n]]
    BY <1>4, <1>3
  <2> QED BY <2>1, PaidLineIs
<1>6. at \in Seq(Payment(T)) /\ DOMAIN at = 1..N
  <2>1. at \in [1..N -> Payment(T)]
    BY <1>4, <1>5
  <2> QED BY <1>2, <2>1, LinesAre
<1>7. Amount(at) = SumOver(w, S)
  <2> DEFINE v == [n \in 1..N |-> w[ord[n]]]
  <2>1. \A n \in 1..N : v[n] = w[ord[n]]
    OBVIOUS
  <2>2. \A n \in DOMAIN at : v[n] = at[n].amount
    BY <1>5, <1>6
  <2> HIDE DEF v
  <2>3. Amount(at) = SumOver(v, 1..N)
    BY <1>6, <2>2, AmountIs
  <2>4. IsFiniteSet(1..N)
    BY <1>2, FS_Interval
  <2>5. \A k \in S : w[k] \in Int
    BY PaidLineIs
  <2>6. SumOver(v, 1..N) = SumOver(w, S)
    BY <1>1, <1>2, <2>1, <2>4, <2>5, SumOverRenamed
  <2> QED BY <2>3, <2>6
<1>8. \A k \in S : \E n \in DOMAIN at : at[n] = lines[k]
  BY <1>5, <1>6, <1>3
<1>9. \A n \in DOMAIN at : \E k \in S : at[n] = lines[k]
  BY <1>5, <1>6
<1> QED BY <1>6, <1>7, <1>8, <1>9 DEF at

(* Lines without an amount may be left out.                                                  *)
LEMMA NothingLost ==
  ASSUME NEW T, NEW lines \in Seq(Payment(T)), NEW S \in SUBSET DOMAIN lines,
         \A k \in DOMAIN lines \ S : lines[k].amount = 0
  PROVE  Amount(LinesAt(lines, S)) = Amount(lines)
<1> DEFINE D == DOMAIN lines
           w == [k \in D |-> lines[k].amount]
           R == D \ S
<1>1. \A k \in D : w[k] = lines[k].amount
  OBVIOUS
<1>2. \A k \in R : w[k] = 0
  OBVIOUS
<1> HIDE DEF w
<1>3. Amount(lines) = SumOver(w, D) /\ Amount(LinesAt(lines, S)) = SumOver(w, S)
  BY <1>1, AmountIs, LinesAtAre
<1>4. /\ IsFiniteSet(S) /\ IsFiniteSet(R) /\ S \cap R = {} /\ S \cup R = D
      /\ \A k \in S \cup R : w[k] \in Int
  BY <1>1, PaidLineIs, FS_Subset
<1> HIDE DEF D, R
<1>5. SumOver(w, S \cup R) = SumOver(w, S) + SumOver(w, R) /\ SumOver(w, S) \in Int
  BY <1>4, SumOverUnion, SumOverType
<1>6. SumOver(w, R) = 0
  <2>1. PICK zero \in Int : zero = 0
    OBVIOUS
  <2>2. \A k \in R : w[k] \in Int /\ 0 <= w[k] /\ w[k] <= zero
    BY <1>2, <2>1
  <2>3. 0 <= SumOver(w, R) /\ SumOver(w, R) <= zero * Cardinality(R)
    BY <1>4, <2>1, <2>2, SumOverBounds
  <2>4. Cardinality(R) \in Nat /\ SumOver(w, R) \in Int
    BY <1>2, <1>4, FS_CardinalityType, SumOverType
  <2> QED BY <2>1, <2>3, <2>4
<1>7. SumOver(w, D) = SumOver(w, S) + SumOver(w, R)
  BY <1>4, <1>5
<1>8. SumOver(w, D) = SumOver(w, S)
  BY <1>5, <1>6, <1>7
<1> QED BY <1>3, <1>8

(* What is left when lines without an amount, or with none above zero, are left out.          *)
LEMMA NonZeroAre ==
  ASSUME NEW T, NEW lines \in Seq(Payment(T))
  PROVE  /\ NonZero(lines) \in Seq(Payment(T)) /\ Amount(NonZero(lines)) = Amount(lines)
         /\ (\A k \in DOMAIN lines : lines[k].amount >= 0) =>
              \A n \in DOMAIN NonZero(lines) : NonZero(lines)[n].amount > 0
<1> DEFINE S == {k \in DOMAIN lines : lines[k].amount # 0}
           w == [k \in DOMAIN lines |-> lines[k].amount]
<1>1. S \in SUBSET DOMAIN lines /\ \A k \in DOMAIN lines \ S : lines[k].amount = 0
  OBVIOUS
<1>2. \A k \in DOMAIN lines : w[k] = lines[k].amount
  OBVIOUS
<1>3. \A k \in S : k \in DOMAIN lines /\ lines[k].amount # 0
  OBVIOUS
<1>4. NonZero(lines) = LinesAt(lines, S)
  BY DEF NonZero
<1> HIDE DEF S, w
<1>5. /\ LinesAt(lines, S) \in Seq(Payment(T))
      /\ \A n \in DOMAIN LinesAt(lines, S) : \E k \in S : LinesAt(lines, S)[n] = lines[k]
  BY <1>1, <1>2, LinesAtAre
<1>6. Amount(LinesAt(lines, S)) = Amount(lines)
  BY <1>1, NothingLost
<1>7. ASSUME \A k \in DOMAIN lines : lines[k].amount >= 0, NEW n \in DOMAIN NonZero(lines)
      PROVE  NonZero(lines)[n].amount > 0
  <2>1. PICK k \in S : NonZero(lines)[n] = lines[k]
    BY <1>4, <1>5
  <2>2. lines[k].amount >= 0 /\ lines[k].amount # 0 /\ lines[k].amount \in Int
    BY <1>3, <1>7, PaidLineIs
  <2> QED BY <2>1, <2>2
<1> QED BY <1>4, <1>5, <1>6, <1>7

LEMMA PositiveAre ==
  ASSUME NEW T, NEW lines \in Seq(Payment(T))
  PROVE  /\ PositiveLines(lines) \in Seq(Payment(T))
         /\ \A n \in DOMAIN PositiveLines(lines) : PositiveLines(lines)[n].amount > 0
         /\ (\A k \in DOMAIN lines : lines[k].amount >= 0) => Amount(PositiveLines(lines)) = Amount(lines)
<1> DEFINE S == {k \in DOMAIN lines : lines[k].amount > 0}
           w == [k \in DOMAIN lines |-> lines[k].amount]
<1>1. S \in SUBSET DOMAIN lines
  OBVIOUS
<1>2. \A k \in DOMAIN lines : w[k] = lines[k].amount
  OBVIOUS
<1>3. (\A k \in S : k \in DOMAIN lines /\ lines[k].amount > 0) /\ \A k \in DOMAIN lines \ S : ~(lines[k].amount > 0)
  OBVIOUS
<1>4. PositiveLines(lines) = LinesAt(lines, S)
  BY DEF PositiveLines
<1> HIDE DEF S, w
<1>5. /\ LinesAt(lines, S) \in Seq(Payment(T))
      /\ \A n \in DOMAIN LinesAt(lines, S) : \E k \in S : LinesAt(lines, S)[n] = lines[k]
  BY <1>1, <1>2, LinesAtAre
<1>6. ASSUME \A k \in DOMAIN lines : lines[k].amount >= 0
      PROVE  Amount(LinesAt(lines, S)) = Amount(lines)
  <2>1. \A k \in DOMAIN lines \ S : lines[k].amount = 0
    <3> TAKE k \in DOMAIN lines \ S
    <3>1. lines[k].amount >= 0 /\ ~(lines[k].amount > 0) /\ lines[k].amount \in Int
      BY <1>3, <1>6, PaidLineIs
    <3> QED BY <3>1
  <2> QED BY <1>1, <2>1, NothingLost
<1>7. ASSUME NEW n \in DOMAIN PositiveLines(lines) PROVE PositiveLines(lines)[n].amount > 0
  BY <1>3, <1>4, <1>5
<1> QED BY <1>4, <1>5, <1>6, <1>7

(* Merging: each line counts in one merged line, that of the first of its kind.                *)
SameKind(lines, j, k) == lines[j].type = lines[k].type /\ lines[j].mode = lines[k].mode
Firsts(lines)  == {k \in DOMAIN lines : NoneBefore(lines, k)}
Kind(lines, k) == {j \in DOMAIN lines : SameKind(lines, j, k)}

LEMMA LowestExists ==
  ASSUME NEW S \in SUBSET Nat, IsFiniteSet(S), S # {}
  PROVE  \E k \in S : \A j \in S : k <= j
<1> DEFINE w == [k \in S |-> 0 - k]
<1>1. \A k \in S : w[k] \in Int /\ w[k] = 0 - k /\ k \in Nat
  OBVIOUS
<1> HIDE DEF w
<1>2. PICK k \in S : \A j \in S : w[j] <= w[k]
  BY <1>1, GreatestExists
<1>3. \A j \in S : k <= j
  <2> TAKE j \in S
  <2>1. w[j] <= w[k] /\ w[j] = 0 - j /\ w[k] = 0 - k /\ j \in Nat /\ k \in Nat
    BY <1>1, <1>2
  <2> QED BY <2>1
<1> QED BY <1>2, <1>3

LEMMA OneFirst ==
  ASSUME NEW T, NEW lines \in Seq(Payment(T)), NEW j \in DOMAIN lines
  PROVE  /\ \E k \in Firsts(lines) : SameKind(lines, j, k)
         /\ \A i, k \in Firsts(lines) : SameKind(lines, j, i) /\ SameKind(lines, j, k) => i = k
<1> DEFINE D == DOMAIN lines
           S == Kind(lines, j)
<1>1. D \subseteq Nat /\ IsFiniteSet(D) /\ D = 1..Len(lines) /\ Len(lines) \in Nat
  BY PaidLineIs
<1>2. \E k \in Firsts(lines) : SameKind(lines, j, k)
  <2>1. S \in SUBSET Nat /\ IsFiniteSet(S) /\ S # {}
    <3>1. S \in SUBSET D /\ j \in S
      BY DEF Kind, SameKind
    <3> QED BY <1>1, <3>1, FS_Subset
  <2>2. PICK k \in S : \A i \in S : k <= i
    BY <2>1, LowestExists
  <2>3. k \in D /\ SameKind(lines, k, j)
    BY <2>2 DEF Kind
  <2>4. NoneBefore(lines, k)
    <3> SUFFICES ASSUME NEW i \in 1..(k - 1), SameKind(lines, i, k) PROVE FALSE
      BY DEF NoneBefore, SameKind
    <3>1. i \in D /\ ~(k <= i)
      BY <1>1, <2>3
    <3>2. i \in S
      BY <2>3, <3>1 DEF Kind, SameKind
    <3> QED BY <2>2, <3>1, <3>2
  <2> QED BY <2>3, <2>4 DEF Firsts, SameKind
<1>3. ASSUME NEW i \in Firsts(lines), NEW k \in Firsts(lines), SameKind(lines, i, k) PROVE ~(i < k)
  <2> SUFFICES ASSUME i < k PROVE FALSE
    OBVIOUS
  <2>1. i \in Nat /\ k \in Nat /\ i \in D /\ NoneBefore(lines, k)
    BY <1>1 DEF Firsts
  <2>2. i \in 1..(k - 1)
    BY <1>1, <2>1
  <2> QED BY <1>3, <2>1, <2>2 DEF NoneBefore, SameKind
<1>4. ASSUME NEW i \in Firsts(lines), NEW k \in Firsts(lines), SameKind(lines, j, i), SameKind(lines, j, k)
      PROVE  i = k
  <2>1. SameKind(lines, i, k) /\ SameKind(lines, k, i)
    BY <1>4 DEF SameKind
  <2>2. ~(i < k) /\ ~(k < i)
    BY <1>3, <2>1
  <2>3. i \in Nat /\ k \in Nat
    BY <1>1 DEF Firsts
  <2> QED BY <2>2, <2>3
<1> QED BY <1>2, <1>4

LEMMA Repaid ==
  ASSUME NEW T, NEW l \in Payment(T), NEW m \in Int
  PROVE  [l EXCEPT !.amount = m] \in Payment(T) /\ [l EXCEPT !.amount = m].amount = m
BY DEF Payment

LEMMA MergeIs ==
  ASSUME NEW T, NEW lines \in Seq(Payment(T)), \A k \in DOMAIN lines : lines[k].amount >= 0
  PROVE  /\ Merge(lines) \in Seq(Payment(T)) /\ Amount(Merge(lines)) = Amount(lines)
         /\ \A n \in DOMAIN Merge(lines) : Merge(lines)[n].amount > 0
<1> DEFINE D == DOMAIN lines
           F == Firsts(lines)
           N == Cardinality(F)
           first == InOrder(F)
           w == [k \in D |-> lines[k].amount]
           sum(k) == SumOf([j \in Kind(lines, k) |-> lines[j].amount], Kind(lines, k))
           all == [n \in 1..N |-> [lines[first[n]] EXCEPT !.amount = sum(first[n])]]
           v == [n \in 1..N |-> sum(first[n])]
           g == [j \in D |-> CHOOSE n \in 1..N : SameKind(lines, j, first[n])]
<1>1. /\ D \subseteq Nat /\ IsFiniteSet(D)
      /\ \A k \in D : lines[k] \in Payment(T) /\ lines[k].amount \in Int
  BY PaidLineIs
<1>2. F \in SUBSET D /\ F \in SUBSET Nat /\ IsFiniteSet(F)
  <2>1. F \in SUBSET D
    BY DEF Firsts
  <2> HIDE DEF D, F
  <2> QED BY <1>1, <2>1, FS_Subset
<1>3. N \in Nat /\ DOMAIN first = 1..N /\ OneToOne(first, 1..N, F)
  BY <1>2, InOrderIs
<1>4. Merge(lines) = NonZero(all)
  BY <1>3 DEF Merge, Firsts, Kind, SameKind
<1>5. \A k \in D : w[k] = lines[k].amount /\ w[k] \in Int /\ w[k] \in Nat
  BY <1>1
<1>6. ASSUME NEW k \in D PROVE sum(k) = SumOver(w, Kind(lines, k)) /\ sum(k) \in Nat
  <2> DEFINE u == [j \in Kind(lines, k) |-> lines[j].amount]
  <2>1. Kind(lines, k) \in SUBSET D
    BY DEF Kind
  <2>2. IsFiniteSet(Kind(lines, k))
    BY <1>1, <2>1, FS_Subset
  <2>3. \A j \in Kind(lines, k) : w[j] \in Int /\ w[j] \in Nat /\ u[j] = w[j]
    BY <1>5, <2>1
  <2>4. sum(k) = SumOver(u, Kind(lines, k))
    BY SumOfIs
  <2> HIDE DEF u, w, D, sum
  <2>5. SumOver(u, Kind(lines, k)) = SumOver(w, Kind(lines, k)) /\ SumOver(w, Kind(lines, k)) \in Nat
    BY <2>2, <2>3, SumOverSame, SumOverNatural
  <2> QED BY <2>4, <2>5
<1> HIDE DEF sum, first, N, w, F, D
<1>7. /\ \A n \in 1..N : first[n] \in F /\ first[n] \in D
      /\ \A m, n \in 1..N : first[m] = first[n] => m = n
      /\ \A k \in F : \E n \in 1..N : first[n] = k
  BY <1>2, <1>3 DEF OneToOne
<1>8. ASSUME NEW n \in 1..N
      PROVE  all[n] \in Payment(T) /\ all[n].amount = v[n] /\ v[n] = sum(first[n]) /\ v[n] \in Nat
  <2>1. first[n] \in D /\ sum(first[n]) \in Nat /\ sum(first[n]) \in Int /\ lines[first[n]] \in Payment(T)
    <3>1. PICK k \in D : k = first[n]
      BY <1>7
    <3>2. sum(k) \in Nat /\ lines[k] \in Payment(T)
      BY <1>1, <1>6
    <3> QED BY <3>1, <3>2
  <2>2. /\ [lines[first[n]] EXCEPT !.amount = sum(first[n])] \in Payment(T)
        /\ [lines[first[n]] EXCEPT !.amount = sum(first[n])].amount = sum(first[n])
    BY <2>1, Repaid
  <2> QED BY <2>1, <2>2
<1>9. all \in Seq(Payment(T)) /\ DOMAIN all = 1..N
  <2>1. all \in [1..N -> Payment(T)]
    BY <1>8
  <2> HIDE DEF all
  <2> QED BY <1>3, <2>1, LinesAre
<1>10. ASSUME NEW j \in D PROVE g[j] \in 1..N /\ SameKind(lines, j, first[g[j]])
  <2>1. PICK k \in F : SameKind(lines, j, k)
    BY OneFirst DEF D, F
  <2>2. PICK n \in 1..N : first[n] = k
    BY <1>7
  <2>3. SameKind(lines, j, first[n])
    BY <2>1, <2>2
  <2> QED BY <2>3
<1> HIDE DEF g, v, all
<1>11. ASSUME NEW n \in 1..N PROVE v[n] = SumOver(w, {j \in D : g[j] = n})
  <2>1. {j \in D : g[j] = n} = Kind(lines, first[n])
    <3>1. ASSUME NEW j \in D, g[j] = n PROVE SameKind(lines, j, first[n])
      BY <1>10, <3>1
    <3>2. ASSUME NEW j \in D, SameKind(lines, j, first[n]) PROVE g[j] = n
      <4>1. g[j] \in 1..N /\ SameKind(lines, j, first[g[j]])
        BY <1>10
      <4>2. first[g[j]] = first[n]
        BY <1>7, <3>2, <4>1, OneFirst DEF D, F
      <4> QED BY <1>7, <4>1, <4>2
    <3> QED BY <3>1, <3>2 DEF Kind, D
  <2>2. v[n] = SumOver(w, Kind(lines, first[n]))
    BY <1>6, <1>7, <1>8
  <2> QED BY <2>1, <2>2
<1>12. Amount(all) = Amount(lines)
  <2> DEFINE P == 1..N
  <2>1. IsFiniteSet(P)
    BY <1>3, FS_Interval
  <2>2. PartSums(v, P, w, D, g)
    BY <1>10, <1>11 DEF PartSums
  <2>3. \A n \in P : v[n] = all[n].amount
    BY <1>8
  <2> HIDE DEF P
  <2>4. SumOver(v, P) = SumOver(w, D)
    <3>1. IsFiniteSet(D) /\ \A x \in D : w[x] \in Int
      BY <1>1, <1>5
    <3> QED BY <2>1, <2>2, <3>1, SumOverParts
  <2>5. Amount(all) = SumOver(v, P)
    <3>1. DOMAIN all = P
      BY <1>9 DEF P
    <3> QED BY <1>9, <2>3, <3>1, AmountIs
  <2>6. Amount(lines) = SumOver(w, D)
    BY <1>5, AmountIs DEF D
  <2> QED BY <2>4, <2>5, <2>6
<1>13. \A n \in DOMAIN all : all[n].amount >= 0
  <2> TAKE n \in DOMAIN all
  <2>1. all[n].amount \in Nat
    BY <1>8, <1>9
  <2> QED BY <2>1
<1> QED BY <1>4, <1>9, <1>12, <1>13, NonZeroAre

(* One line changed, one line more.                                                             *)
LEMMA LineChanged ==
  ASSUME NEW T, NEW rows \in Seq(Payment(T)), NEW t \in DOMAIN rows, NEW d \in Int
  PROVE  LET more == [rows EXCEPT ![t].amount = @ + d]
         IN  /\ more \in Seq(Payment(T)) /\ DOMAIN more = DOMAIN rows
             /\ more[t].amount = rows[t].amount + d
             /\ \A k \in DOMAIN rows : k # t => more[k] = rows[k]
             /\ Amount(more) = Amount(rows) + d
<1> DEFINE D == DOMAIN rows
           l == [rows[t] EXCEPT !.amount = rows[t].amount + d]
           more == [rows EXCEPT ![t].amount = @ + d]
           w == [k \in D |-> rows[k].amount]
           u == [k \in D |-> more[k].amount]
<1>1. /\ rows[t] \in Payment(T) /\ rows[t].amount \in Int /\ rows[t].amount + d \in Int
      /\ D = 1..Len(rows) /\ Len(rows) \in Nat /\ IsFiniteSet(D)
      /\ \A k \in D : rows[k] \in Payment(T)
  BY PaidLineIs
<1>2. l \in Payment(T) /\ l.amount = rows[t].amount + d
  BY <1>1, Repaid
<1> HIDE DEF l
<1>3. more = [rows EXCEPT ![t] = l]
  BY DEF l
<1>4. rows \in [D -> Payment(T)]
  BY <1>1, LenProperties
<1>5. more \in [1..Len(rows) -> Payment(T)] /\ more[t] = l /\ \A k \in D : k # t => more[k] = rows[k]
  BY <1>1, <1>2, <1>3, <1>4
<1> HIDE DEF more
<1>6. more \in Seq(Payment(T)) /\ DOMAIN more = D
  BY <1>1, <1>5, LinesAre
<1>7. Amount(more) = Amount(rows) + d
  <2>1. \A k \in D : w[k] = rows[k].amount /\ w[k] \in Int
    BY PaidLineIs
  <2>2. \A k \in D : u[k] = more[k].amount /\ u[k] \in Int
    BY <1>6, PaidLineIs
  <2>3. (\A k \in D : k # t => u[k] = w[k]) /\ u[t] - w[t] = d
    BY <1>1, <1>2, <1>5
  <2> HIDE DEF u, w
  <2>4. Amount(rows) = SumOver(w, D) /\ Amount(rows) \in Int
    BY <2>1, AmountIs
  <2>5. Amount(more) = SumOver(u, D) /\ Amount(more) \in Int
    <3>1. \A k \in DOMAIN more : u[k] = more[k].amount
      BY <1>6, <2>2
    <3> QED BY <1>6, <3>1, AmountIs
  <2>6. t \in D /\ \A k \in D : w[k] \in Int /\ u[k] \in Int
    BY <2>1, <2>2
  <2>7. SumOver(u, D) - SumOver(w, D) = u[t] - w[t]
    <3>1. IsFiniteSet(D) /\ \A k \in D : k # t => u[k] = w[k]
      BY <1>1, <2>3
    <3> HIDE DEF D
    <3> QED BY <2>6, <3>1, SumChanged
  <2> QED BY <2>3, <2>4, <2>5, <2>7
<1> QED BY <1>2, <1>5, <1>6, <1>7 DEF more

LEMMA LineAdded ==
  ASSUME NEW T, NEW rows \in Seq(Payment(T)), NEW l \in Payment(T)
  PROVE  /\ Append(rows, l) \in Seq(Payment(T))
         /\ \A k \in DOMAIN Append(rows, l) : (k \in DOMAIN rows /\ Append(rows, l)[k] = rows[k]) \/ Append(rows, l)[k] = l
         /\ Amount(Append(rows, l)) = Amount(rows) + l.amount
<1> DEFINE n == Len(rows)
           more == Append(rows, l)
           w == [k \in DOMAIN more |-> more[k].amount]
<1>1. /\ more \in Seq(Payment(T)) /\ n \in Nat /\ DOMAIN rows = 1..n /\ DOMAIN more = 1..(n + 1)
      /\ more[n + 1] = l /\ \A k \in 1..n : more[k] = rows[k]
  OBVIOUS
<1> HIDE DEF more, n
<1>2. \A k \in DOMAIN more : (k \in DOMAIN rows /\ more[k] = rows[k]) \/ more[k] = l
  <2>1. \A k \in 1..(n + 1) : k \in 1..n \/ k = n + 1
    BY <1>1
  <2> QED BY <1>1, <2>1
<1>3. \A k \in DOMAIN more : w[k] = more[k].amount /\ w[k] \in Int
  BY <1>1, PaidLineIs
<1> HIDE DEF w
<1>4. Amount(more) = SumOver(w, DOMAIN more)
  BY <1>1, <1>3, AmountIs
<1>5. Amount(rows) = SumOver(w, 1..n)
  <2>1. \A k \in DOMAIN rows : w[k] = rows[k].amount
    <3>1. \A k \in 1..n : k \in 1..(n + 1)
      BY <1>1
    <3> QED BY <1>1, <1>3, <3>1
  <2> QED BY <1>1, <2>1, AmountIs
<1> DEFINE D == 1..n
           m == n + 1
<1>6. D \cup {m} = DOMAIN more /\ m \notin D /\ IsFiniteSet(D)
  <2>1. 1..n \cup {n + 1} = 1..(n + 1) /\ n + 1 \notin 1..n
    BY <1>1
  <2>2. IsFiniteSet(1..n)
    BY <1>1, PaidLineIs
  <2> QED BY <1>1, <2>1, <2>2
<1>7. w[m] = l.amount
  BY <1>1, <1>3
<1> HIDE DEF D, m
<1>8. SumOver(w, D \cup {m}) = SumOver(w, D) + w[m]
  BY <1>3, <1>6, SumOverAdd
<1> QED BY <1>1, <1>2, <1>4, <1>5, <1>6, <1>7, <1>8 DEF more, D

(* The line that the change comes out of, the line that takes up a gap.                           *)
LEMMA LowestIs ==
  ASSUME NEW S \in SUBSET Nat, IsFiniteSet(S), S # {}
  PROVE  Min(S) \in S
BY LowestExists DEF Min

LEMMA FirstOfIs ==
  ASSUME NEW T, NEW rows \in Seq(Payment(T)), NEW type, HasType(rows, type)
  PROVE  FirstOf(rows, type) \in DOMAIN rows
<1> DEFINE S == {k \in DOMAIN rows : rows[k].type = type}
<1>1. S \in SUBSET DOMAIN rows /\ S # {}
  BY DEF HasType
<1>2. FirstOf(rows, type) = Min(S)
  BY DEF FirstOf
<1> HIDE DEF S
<1>3. S \in SUBSET Nat /\ IsFiniteSet(S)
  BY <1>1, PaidLineIs, FS_Subset
<1>4. Min(S) \in S
  BY <1>1, <1>3, LowestIs
<1> QED BY <1>1, <1>2, <1>4

LEMMA LargestIs ==
  ASSUME NEW T, NEW rows \in Seq(Payment(T)), rows # <<>>
  PROVE  Largest(rows) \in DOMAIN rows
<1> DEFINE D == DOMAIN rows
           w == [k \in D |-> rows[k].amount]
           S == {k \in D : \A j \in D : rows[j].amount <= rows[k].amount}
<1>1. IsFiniteSet(D) /\ D # {} /\ \A k \in D : w[k] \in Int /\ w[k] = rows[k].amount
  BY PaidLineIs
<1>2. S # {}
  <2> HIDE DEF w, D
  <2>1. PICK k \in D : \A j \in D : w[j] <= w[k]
    BY <1>1, GreatestExists
  <2> QED BY <1>1, <2>1
<1>3. S \in SUBSET D /\ Largest(rows) = Min(S)
  BY DEF Largest
<1> HIDE DEF S
<1>4. S \in SUBSET Nat /\ IsFiniteSet(S)
  BY <1>3, PaidLineIs, FS_Subset
<1>5. Min(S) \in S
  BY <1>2, <1>4, LowestIs
<1> QED BY <1>3, <1>5

LEMMA ChangeFromIs ==
  ASSUME NEW T, NEW rows \in Seq(Payment(T)), rows # <<>>
  PROVE  ChangeFrom(rows) \in DOMAIN rows
<1>1. Len(rows) \in DOMAIN rows
  BY EmptySeq
<1> QED BY <1>1, FirstOfIs DEF ChangeFrom

LEMMA GapToIs ==
  ASSUME NEW T, NEW rows \in Seq(Payment(T)), rows # <<>>
  PROVE  GapTo(rows) \in DOMAIN rows
BY FirstOfIs, LargestIs DEF GapTo

(* The lines sum to the total, unless the change exceeds the line it comes out of.                 *)
LEMMA AdjustIs ==
  ASSUME NEW T, Texts(T), NEW lines \in Seq(Payment(T)), \A k \in DOMAIN lines : lines[k].amount > 0,
         NEW total \in Nat
  PROVE  /\ AdjustToTotal(lines, total) \in Seq(Payment(T))
         /\ \A k \in DOMAIN AdjustToTotal(lines, total) : AdjustToTotal(lines, total)[k].amount > 0
         /\ ~ChangeExceedsLine(lines, total) => Amount(AdjustToTotal(lines, total)) = total
<1> DEFINE diff == total - Amount(lines)
           t == ChangeFrom(lines)
           less == [lines EXCEPT ![t].amount = @ + diff]
           credit == [type |-> "CREDIT", mode |-> "", amount |-> diff]
<1>1. Amount(lines) \in Int
  <2> DEFINE w == [k \in DOMAIN lines |-> lines[k].amount]
  <2>1. \A k \in DOMAIN lines : w[k] = lines[k].amount
    OBVIOUS
  <2> HIDE DEF w
  <2> QED BY <2>1, AmountIs
<1>2. diff \in Int /\ Amount(lines) + diff = total
  BY <1>1
<1>3. AdjustToTotal(lines, total) =
        IF diff = 0 THEN lines ELSE IF diff > 0 THEN Append(lines, credit) ELSE PositiveLines(less)
  BY DEF AdjustToTotal
<1>4. credit \in Payment(T) /\ credit.amount = diff
  BY <1>2 DEF Payment, Texts
<1> HIDE DEF credit, less, diff, t
<1>5. CASE diff = 0
  BY <1>1, <1>2, <1>3, <1>5
<1>6. CASE diff > 0
  <2> DEFINE a == Append(lines, credit)
  <2>1. /\ a \in Seq(Payment(T)) /\ Amount(a) = Amount(lines) + diff
        /\ \A k \in DOMAIN a : (k \in DOMAIN lines /\ a[k] = lines[k]) \/ a[k] = credit
    BY <1>4, LineAdded
  <2>2. AdjustToTotal(lines, total) = a
    BY <1>2, <1>3, <1>6
  <2> HIDE DEF a
  <2>3. \A k \in DOMAIN a : a[k].amount > 0
    BY <1>4, <1>6, <2>1
  <2> QED BY <1>2, <2>1, <2>2, <2>3
<1>7. CASE ~(diff = 0) /\ ~(diff > 0)
  <2>1. AdjustToTotal(lines, total) = PositiveLines(less)
    BY <1>3, <1>7
  <2>2. lines # <<>>
    <3> SUFFICES ASSUME lines = <<>> PROVE FALSE
      OBVIOUS
    <3>1. Amount(lines) = 0
      BY AmountOfNone
    <3> QED BY <1>2, <1>7, <3>1
  <2>3. t \in DOMAIN lines
    BY <2>2, ChangeFromIs DEF t
  <2>4. /\ less \in Seq(Payment(T)) /\ DOMAIN less = DOMAIN lines
        /\ less[t].amount = lines[t].amount + diff
        /\ \A k \in DOMAIN lines : k # t => less[k] = lines[k]
        /\ Amount(less) = Amount(lines) + diff
    BY <1>2, <2>3, LineChanged DEF less
  <2>5. ASSUME ~ChangeExceedsLine(lines, total)
        PROVE  \A k \in DOMAIN less : less[k].amount >= 0
    <3>1. ~(Amount(lines) - total > lines[t].amount)
      BY <2>2, <2>5 DEF ChangeExceedsLine, t
    <3>2. lines[t].amount \in Int
      BY <2>3, PaidLineIs
    <3>3. less[t].amount >= 0
      BY <1>1, <1>2, <2>4, <3>1, <3>2
    <3> TAKE k \in DOMAIN less
    <3>4. CASE k = t
      BY <3>3, <3>4
    <3>5. CASE k # t
      <4>1. less[k] = lines[k] /\ lines[k].amount > 0 /\ lines[k].amount \in Int
        BY <2>4, <3>5, PaidLineIs
      <4> QED BY <4>1
    <3> QED BY <3>4, <3>5
  <2>6. /\ PositiveLines(less) \in Seq(Payment(T))
        /\ \A k \in DOMAIN PositiveLines(less) : PositiveLines(less)[k].amount > 0
        /\ ~ChangeExceedsLine(lines, total) => Amount(PositiveLines(less)) = Amount(less)
    BY <2>4, <2>5, PositiveAre
  <2> QED BY <1>2, <2>1, <2>4, <2>6
<1> QED BY <1>5, <1>6, <1>7

(* Merged, adjusted and merged again.                                                               *)
LEMMA MergedIs ==
  ASSUME NEW T, Texts(T), NEW lines \in Seq(Payment(T)), \A k \in DOMAIN lines : lines[k].amount >= 0,
         NEW total \in Nat
  PROVE  LET rows == Merge(AdjustToTotal(Merge(lines), total))
         IN  /\ rows \in Seq(Payment(T)) /\ \A k \in DOMAIN rows : rows[k].amount >= 0
             /\ ~ChangeExceedsLine(Merge(lines), total) => Amount(rows) = total
<1> DEFINE m == Merge(lines)
           a == AdjustToTotal(m, total)
           rows == Merge(a)
<1>1. m \in Seq(Payment(T)) /\ \A k \in DOMAIN m : m[k].amount > 0
  BY MergeIs
<1> HIDE DEF m
<1>2. /\ a \in Seq(Payment(T)) /\ \A k \in DOMAIN a : a[k].amount > 0
      /\ ~ChangeExceedsLine(m, total) => Amount(a) = total
  BY <1>1, AdjustIs
<1> HIDE DEF a
<1>3. \A k \in DOMAIN a : a[k].amount >= 0
  BY <1>2, PaidLineIs
<1>4. rows \in Seq(Payment(T)) /\ Amount(rows) = Amount(a) /\ \A k \in DOMAIN rows : rows[k].amount > 0
  BY <1>2, <1>3, MergeIs
<1> HIDE DEF rows
<1>5. \A k \in DOMAIN rows : rows[k].amount >= 0
  BY <1>4, PaidLineIs
<1> QED BY <1>2, <1>4, <1>5 DEF rows, a, m

LEMMA SingleIs ==
  ASSUME NEW T, NEW l \in Payment(T)
  PROVE  /\ <<l>> \in Seq(Payment(T)) /\ Amount(<<l>>) = l.amount
         /\ \A k \in DOMAIN <<l>> : <<l>>[k] = l
<1> DEFINE s == <<l>>
           w == [k \in {1} |-> l.amount]
<1>1. s \in Seq(Payment(T)) /\ DOMAIN s = {1} /\ s[1] = l
  <2>1. s \in Seq(Payment(T)) /\ Len(s) = 1 /\ s[1] = l
    OBVIOUS
  <2> HIDE DEF s
  <2>2. DOMAIN s = 1..1 /\ 1..1 = {1}
    BY <2>1, LenProperties
  <2> QED BY <2>1, <2>2
<1>2. l.amount \in Int /\ w[1] = l.amount
  BY DEF Payment
<1> HIDE DEF s, w
<1>3. Amount(s) = SumOver(w, {1})
  <2>1. \A k \in DOMAIN s : w[k] = s[k].amount
    BY <1>1, <1>2
  <2> QED BY <1>1, <2>1, AmountIs
<1>4. SumOver(w, {1}) = w[1]
  BY <1>2, SumOverOne
<1> QED BY <1>1, <1>2, <1>3, <1>4 DEF s

(* An invoice to be paid, with the rows of its payments and of its schedule.                         *)
PaidRows(T) == Seq([type : T, mode : T, amount : Nat])
Payable(T, doc) ==
  /\ Texts(T) /\ doc.total \in Nat \ {0} /\ doc.selected \in T
  /\ doc.payments \in PaidRows(T) /\ doc.schedule \in PaidRows(T)

LEMMA RowsAre ==
  ASSUME NEW T, NEW rows \in PaidRows(T)
  PROVE  rows \in Seq(Payment(T)) /\ \A k \in DOMAIN rows : rows[k].amount >= 0
<1> DEFINE Row == [type : T, mode : T, amount : Nat]
<1>1. \A l \in Row : l \in Payment(T) /\ l.amount >= 0
  BY DEF Payment
<1>2. rows \in Seq(Row)
  BY DEF PaidRows
<1> HIDE DEF Row
<1>3. Row \subseteq Payment(T)
  BY <1>1
<1>4. rows \in Seq(Payment(T))
  BY <1>2, <1>3, SeqMonotonic
<1>5. \A k \in DOMAIN rows : rows[k] \in Row
  BY <1>2
<1> QED BY <1>1, <1>4, <1>5

LEMMA PaymentMade ==
  ASSUME NEW T, NEW a \in T, NEW b \in T, NEW m \in Int
  PROVE  /\ [type |-> a, mode |-> b, amount |-> m] \in Payment(T)
         /\ [type |-> a, mode |-> b, amount |-> m].amount = m
BY DEF Payment

LEMMA ResolvedIs ==
  ASSUME NEW T, NEW doc, Payable(T, doc)
  PROVE  /\ ResolvePaymentLines(doc) \in Seq(Payment(T))
         /\ \A k \in DOMAIN ResolvePaymentLines(doc) : ResolvePaymentLines(doc)[k].amount >= 0
         /\ ~TooMuchChange(doc) => Amount(ResolvePaymentLines(doc)) = doc.total
<1> DEFINE pos == NonZero(doc.payments)
           total == doc.total
           sold == [type |-> doc.selected, mode |-> "selected", amount |-> total]
           cash == [type |-> "ESPECES", mode |-> "", amount |-> total]
           Lines == ResolvePaymentLines(doc)
           Settles(rows) == /\ rows \in Seq(Payment(T)) /\ \A k \in DOMAIN rows : rows[k].amount >= 0
                            /\ ~TooMuchChange(doc) => Amount(rows) = total
<1>1. total \in Nat /\ total > 0 /\ Texts(T)
  BY DEF Payable
<1>2. pos \in Seq(Payment(T)) /\ \A k \in DOMAIN pos : pos[k].amount > 0
  <2>1. doc.payments \in Seq(Payment(T)) /\ \A k \in DOMAIN doc.payments : doc.payments[k].amount >= 0
    BY RowsAre DEF Payable
  <2> QED BY <2>1, NonZeroAre
<1>3. doc.schedule \in Seq(Payment(T)) /\ \A k \in DOMAIN doc.schedule : doc.schedule[k].amount >= 0
  BY RowsAre DEF Payable
<1>4. sold \in Payment(T) /\ sold.amount = total /\ cash \in Payment(T) /\ cash.amount = total
  <2>1. doc.selected \in T /\ "selected" \in T /\ "ESPECES" \in T /\ "" \in T /\ total \in Int
    <3>1. doc.selected \in T
      BY DEF Payable
    <3>2. "selected" \in T /\ "ESPECES" \in T /\ "" \in T
      BY <1>1 DEF Texts
    <3>3. \A n \in Nat : n \in Int
      OBVIOUS
    <3> HIDE DEF total, sold, cash
    <3> QED BY <1>1, <3>1, <3>2, <3>3
  <2> HIDE DEF total
  <2> QED BY <2>1, PaymentMade
<1>5. Lines = IF pos # <<>> THEN Merge(AdjustToTotal(Merge(pos), total))
              ELSE IF doc.selected # "" THEN <<sold>>
              ELSE IF doc.schedule # <<>> THEN Merge(AdjustToTotal(Merge(doc.schedule), total))
              ELSE <<cash>>
  BY DEF ResolvePaymentLines
<1>6. TooMuchChange(doc) = IF Merge(pos) # <<>> THEN ChangeExceedsLine(Merge(pos), total)
                           ELSE doc.selected = "" /\ ChangeExceedsLine(Merge(doc.schedule), total)
  BY DEF TooMuchChange
<1>7. Merge(pos) = <<>> <=> pos = <<>>
  <2>1. pos # <<>> => Amount(pos) > 0
    BY <1>2, AmountPositive
  <2>2. Amount(Merge(pos)) = Amount(pos) /\ Merge(pos) \in Seq(Payment(T))
    <3>1. \A k \in DOMAIN pos : pos[k].amount >= 0
      BY <1>2, PaidLineIs
    <3> HIDE DEF pos
    <3> QED BY <1>2, <3>1, MergeIs
  <2>3. Amount(<<>>) = 0
    BY AmountOfNone
  <2>4. pos # <<>> => Merge(pos) # <<>>
    <3> HIDE DEF pos
    <3> QED BY <2>1, <2>2, <2>3
  <2>5. pos = <<>> => Merge(pos) = <<>>
    <3> SUFFICES ASSUME pos = <<>>, Merge(pos) # <<>> PROVE FALSE
      OBVIOUS
    <3> HIDE DEF pos
    <3>1. \A k \in DOMAIN Merge(pos) : Merge(pos)[k].amount > 0
      <4>1. \A k \in DOMAIN pos : pos[k].amount >= 0
        BY <1>2, PaidLineIs
      <4> QED BY <1>2, <4>1, MergeIs
    <3>2. Amount(Merge(pos)) > 0
      BY <2>2, <3>1, AmountPositive
    <3> QED BY <2>2, <2>3, <3>2
  <2> QED BY <2>4, <2>5
<1> HIDE DEF pos, sold, cash, total, Lines
<1>8. CASE pos # <<>>
  <2>1. \A k \in DOMAIN pos : pos[k].amount >= 0
    BY <1>2, PaidLineIs
  <2> DEFINE rows == Merge(AdjustToTotal(Merge(pos), total))
  <2>2. /\ rows \in Seq(Payment(T)) /\ \A k \in DOMAIN rows : rows[k].amount >= 0
        /\ ~ChangeExceedsLine(Merge(pos), total) => Amount(rows) = total
    BY <1>1, <1>2, <2>1, MergedIs
  <2> HIDE DEF rows
  <2>3. Lines = rows
    BY <1>5, <1>8 DEF rows
  <2>4. TooMuchChange(doc) = ChangeExceedsLine(Merge(pos), total)
    BY <1>6, <1>7, <1>8
  <2>5. Settles(rows)
    BY <2>2, <2>4
  <2> HIDE DEF Settles
  <2>6. Settles(Lines)
    BY <2>3, <2>5
  <2> QED BY <2>6 DEF Settles, Lines, total
<1>9. CASE pos = <<>> /\ doc.selected # ""
  <2> DEFINE rows == <<sold>>
  <2>1. /\ rows \in Seq(Payment(T)) /\ Amount(rows) = total
        /\ \A k \in DOMAIN rows : rows[k] = sold
    BY <1>4, SingleIs
  <2> HIDE DEF rows
  <2>2. Lines = rows
    BY <1>5, <1>9 DEF rows
  <2>3. \A k \in DOMAIN rows : rows[k].amount >= 0
    BY <1>1, <1>4, <2>1
  <2> QED BY <2>1, <2>2, <2>3 DEF Lines, total
<1>10. CASE pos = <<>> /\ doc.selected = "" /\ doc.schedule # <<>>
  <2> DEFINE rows == Merge(AdjustToTotal(Merge(doc.schedule), total))
  <2>2. /\ rows \in Seq(Payment(T)) /\ \A k \in DOMAIN rows : rows[k].amount >= 0
        /\ ~ChangeExceedsLine(Merge(doc.schedule), total) => Amount(rows) = total
    BY <1>1, <1>3, MergedIs
  <2> HIDE DEF rows
  <2>3. Lines = rows
    BY <1>5, <1>10 DEF rows
  <2>4. ~TooMuchChange(doc) => ~ChangeExceedsLine(Merge(doc.schedule), total)
    BY <1>6, <1>7, <1>10
  <2>5. Settles(rows)
    BY <2>2, <2>4
  <2> HIDE DEF Settles
  <2>6. Settles(Lines)
    BY <2>3, <2>5
  <2> QED BY <2>6 DEF Settles, Lines, total
<1>11. CASE pos = <<>> /\ doc.selected = "" /\ ~(doc.schedule # <<>>)
  <2> DEFINE rows == <<cash>>
  <2>1. /\ rows \in Seq(Payment(T)) /\ Amount(rows) = total
        /\ \A k \in DOMAIN rows : rows[k] = cash
    BY <1>4, SingleIs
  <2> HIDE DEF rows
  <2>2. Lines = rows
    BY <1>5, <1>11 DEF rows
  <2>3. \A k \in DOMAIN rows : rows[k].amount >= 0
    BY <1>1, <1>4, <2>1
  <2> QED BY <2>1, <2>2, <2>3 DEF Lines, total
<1> QED BY <1>8, <1>9, <1>10, <1>11

LEMMA AlignIs ==
  ASSUME NEW T, NEW rows \in Seq(Payment(T)), \A k \in DOMAIN rows : rows[k].amount >= 0, NEW total \in Int
  PROVE  /\ rows # <<>> /\ Abs(total - Amount(rows)) <= MaxGap => Amount(Align(rows, total)) = total
         /\ ~GapExceedsLine(rows, total) => \A k \in DOMAIN Align(rows, total) : Align(rows, total)[k].amount >= 0
<1> DEFINE gap == total - Amount(rows)
           t == GapTo(rows)
           more == [rows EXCEPT ![t].amount = @ + gap]
           Still == rows = <<>> \/ gap = 0 \/ Abs(gap) > MaxGap
<1>1. Amount(rows) \in Int
  <2> DEFINE w == [k \in DOMAIN rows |-> rows[k].amount]
  <2>1. \A k \in DOMAIN rows : w[k] = rows[k].amount
    OBVIOUS
  <2> HIDE DEF w
  <2> QED BY <2>1, AmountIs
<1>2. gap \in Int /\ Amount(rows) + gap = total /\ (gap = 0 => Amount(rows) = total)
  BY <1>1
<1>3. Align(rows, total) = IF Still THEN rows ELSE more
  BY DEF Align
<1>4. Abs(gap) \in Int /\ MaxGap \in Int
  BY <1>2 DEF Abs, MaxGap
<1> HIDE DEF gap, t, more
<1>5. CASE Still
  <2>1. Align(rows, total) = rows
    BY <1>3, <1>5
  <2>2. rows # <<>> /\ Abs(gap) <= MaxGap => Amount(rows) = total
    BY <1>2, <1>4, <1>5
  <2> QED BY <2>1, <2>2 DEF gap
<1>6. CASE ~Still
  <2>1. rows # <<>> /\ Align(rows, total) = more
    BY <1>3, <1>6
  <2>2. t \in DOMAIN rows
    BY <2>1, GapToIs DEF t
  <2>3. /\ DOMAIN more = DOMAIN rows /\ more[t].amount = rows[t].amount + gap
        /\ \A k \in DOMAIN rows : k # t => more[k] = rows[k]
        /\ Amount(more) = Amount(rows) + gap
    BY <1>2, <2>2, LineChanged DEF more
  <2>4. ASSUME ~GapExceedsLine(rows, total), NEW k \in DOMAIN more PROVE more[k].amount >= 0
    <3>1. ~(Amount(rows) - total > rows[t].amount)
      BY <2>1, <2>4 DEF GapExceedsLine, t
    <3>2. rows[t].amount \in Int
      BY <2>2, PaidLineIs
    <3>3. more[t].amount >= 0
      BY <1>1, <1>2, <2>3, <3>1, <3>2
    <3>4. CASE k = t
      BY <3>3, <3>4
    <3>5. CASE k # t
      BY <2>3, <3>5
    <3> QED BY <3>4, <3>5
  <2> QED BY <1>2, <2>1, <2>3, <2>4
<1> QED BY <1>5, <1>6

(* Whatever the rows and the schedule of an invoice, their types, modes and amounts: the payments   *)
(* declared sum to the fiscal total when it is within the gap for rounding and the change does not   *)
(* exceed the line it comes out of; none is negative when the gap does not exceed the line that      *)
(* takes it up (edef/payments.py).                                                                   *)
THEOREM EveryPaymentAddsUp ==
  ASSUME NEW T, NEW doc, Payable(T, doc), NEW gap \in Int
  PROVE  PaymentsSum(doc, gap)
<1> DEFINE lines == ResolvePaymentLines(doc)
           fiscal == doc.total + gap
           rows == Align(lines, fiscal)
<1>1. /\ lines \in Seq(Payment(T)) /\ \A k \in DOMAIN lines : lines[k].amount >= 0
      /\ ~TooMuchChange(doc) => Amount(lines) = doc.total
  BY ResolvedIs
<1>2. doc.total \in Nat /\ doc.total > 0 /\ fiscal \in Int
  BY DEF Payable
<1> HIDE DEF lines
<1>3. /\ lines # <<>> /\ Abs(fiscal - Amount(lines)) <= MaxGap => Amount(rows) = fiscal
      /\ ~GapExceedsLine(lines, fiscal) => \A k \in DOMAIN rows : rows[k].amount >= 0
  <2> HIDE DEF fiscal
  <2> QED BY <1>1, <1>2, AlignIs
<1>4. ASSUME Abs(gap) <= MaxGap, ~TooMuchChange(doc) PROVE Amount(rows) = fiscal
  <2>1. Amount(lines) = doc.total
    BY <1>1, <1>4
  <2>2. lines # <<>>
    <3>1. Amount(<<>>) = 0
      BY AmountOfNone
    <3> QED BY <1>2, <2>1, <3>1
  <2>3. fiscal - Amount(lines) = gap
    BY <1>2, <2>1
  <2> HIDE DEF fiscal, rows
  <2> QED BY <1>3, <1>4, <2>2, <2>3
<1> QED BY <1>3, <1>4 DEF PaymentsSum, lines

----
(* VAT rounded up on the invoice.                                                     *)

TaxRows == [vat : BOOLEAN, amount : Int, running : Int]
Balanced(inv) ==
  inv.rows \in Seq(TaxRows) /\ inv.taxes \in Int /\ inv.grand \in Int /\ inv.taxes = RowsTotal(inv.rows)

LEMMA MultipleOf ==
  ASSUME NEW c \in Int, NEW step \in Positive
  PROVE  (step * c) % step = 0 /\ step * c \in Int
<1> DEFINE p == step * c
           q == p \div step
<1>1. step \in Int /\ step > 0
  BY DEF Positive
<1>2. p \in Int
  BY <1>1
<1>3. step * c <= p /\ p < step * c + step
  BY <1>1, <1>2
<1> HIDE DEF p
<1>4. c <= q /\ q <= c
  BY <1>1, <1>2, <1>3, QuotientOf
<1>5. q \in Int /\ p % step = p - step * q
  BY <1>1, <1>2, DivIs
<1>6. q = c
  BY <1>4, <1>5
<1> HIDE DEF q
<1>7. p - step * c = 0
  BY <1>1, <1>2 DEF p
<1>8. p % step = 0
  BY <1>5, <1>6, <1>7
<1> QED BY <1>2, <1>8 DEF p

LEMMA AwayIs ==
  ASSUME NEW n \in Int, NEW step \in Positive
  PROVE  /\ AwayFromZero(n, step) \in Int /\ AwayFromZero(n, step) % step = 0
         /\ IF n < 0 THEN AwayFromZero(n, step) <= n ELSE AwayFromZero(n, step) >= n
<1>1. step \in Int /\ step > 0
  BY DEF Positive
<1>2. CASE n < 0
  <2> DEFINE c == Ceil(-n, step)
             b == -c
  <2>1. -n \in Int
    OBVIOUS
  <2>2. c \in Int /\ -n <= step * c
    BY <1>1, <2>1, CeilIs
  <2>3. AwayFromZero(n, step) = -(step * c)
    BY <1>2 DEF AwayFromZero
  <2> HIDE DEF c
  <2>4. b \in Int /\ -(step * c) = step * b
    BY <1>1, <2>2
  <2> HIDE DEF b
  <2>5. (step * b) % step = 0 /\ step * b \in Int
    BY <2>4, MultipleOf
  <2>6. step * c \in Int
    BY <1>1, <2>2
  <2>7. -(step * c) <= n
    BY <2>2, <2>6
  <2> QED BY <1>2, <2>3, <2>4, <2>5, <2>7
<1>3. CASE ~(n < 0)
  <2> DEFINE c == Ceil(n, step)
  <2>1. c \in Int /\ n <= step * c
    BY <1>1, CeilIs
  <2>2. AwayFromZero(n, step) = step * c
    BY <1>3 DEF AwayFromZero
  <2> HIDE DEF c
  <2>3. (step * c) % step = 0 /\ step * c \in Int
    BY <2>1, MultipleOf
  <2> QED BY <1>3, <2>1, <2>2, <2>3
<1> QED BY <1>2, <1>3

LEMMA CeiledIs ==
  ASSUME NEW row \in TaxRows, NEW step \in Positive
  PROVE  /\ Ceiled(row, step) \in Int
         /\ row.vat => Ceiled(row, step) % step = 0
         /\ IF row.amount < 0 THEN Ceiled(row, step) <= row.amount ELSE Ceiled(row, step) >= row.amount
<1> DEFINE n == row.amount
           away == AwayFromZero(n, step)
<1>1. n \in Int
  BY DEF TaxRows
<1>2. away \in Int /\ away % step = 0 /\ IF n < 0 THEN away <= n ELSE away >= n
  BY <1>1, AwayIs
<1>3. Ceiled(row, step) = IF row.vat THEN away ELSE n
  BY DEF Ceiled
<1> HIDE DEF away, n
<1>4. CASE row.vat
  BY <1>2, <1>3, <1>4 DEF n
<1>5. CASE ~row.vat
  BY <1>1, <1>3, <1>5 DEF n
<1> QED BY <1>4, <1>5

LEMMA RowsTotalIs ==
  ASSUME NEW rows, NEW w, DOMAIN w = DOMAIN rows, \A k \in DOMAIN rows : w[k] \in Int /\ rows[k].amount = w[k],
         IsFiniteSet(DOMAIN rows)
  PROVE  RowsTotal(rows) = SumOver(w, DOMAIN rows)
<1> DEFINE D == DOMAIN rows
           u == [k \in D |-> rows[k].amount]
<1>1. RowsTotal(rows) = SumOver(u, D)
  BY SumOfIs DEF RowsTotal
<1>2. \A k \in D : w[k] \in Int /\ u[k] = w[k]
  OBVIOUS
<1> HIDE DEF u, D
<1>3. SumOver(u, D) = SumOver(w, D)
  BY <1>2, SumOverSame DEF D
<1> QED BY <1>1, <1>3 DEF D

(* Rounding up the VAT of a balanced invoice, to any unit, leaves it balanced: the   *)
(* tax and the receivable move by the same amount, each VAT row is a multiple of the *)
(* unit, and none moves towards zero, whether the invoice is a sale or a return      *)
(* (edef/rounding.py, round_up and apply_vat_ceiling).                               *)
THEOREM EveryCeilingBalances ==
  ASSUME NEW inv, Balanced(inv), NEW step \in Positive
  PROVE  StaysBalanced(inv, step)
<1> DEFINE rows == inv.rows
           D == DOMAIN rows
           up == [k \in D |-> Ceiled(rows[k], step) - rows[k].amount]
           am == [k \in D |-> rows[k].amount]
           ce == [k \in D |-> Ceiled(rows[k], step)]
           more == [k \in D |-> [rows[k] EXCEPT !.amount = @ + up[k], !.running = @ + up[k]]]
           delta == SumOf(up, D)
<1>1. D = 1..Len(rows) /\ Len(rows) \in Nat /\ \A k \in D : rows[k] \in TaxRows
  BY DEF Balanced
<1>2. IsFiniteSet(D)
  <2>1. IsFiniteSet(1..Len(rows))
    BY <1>1, FS_Interval
  <2> QED BY <1>1, <2>1
<1>3. ASSUME NEW k \in D
      PROVE  /\ up[k] \in Int /\ am[k] \in Int /\ ce[k] \in Int /\ ce[k] = am[k] + up[k]
             /\ more[k].amount = ce[k] /\ more[k].vat = rows[k].vat
             /\ rows[k].vat => more[k].amount % step = 0
             /\ IF rows[k].amount < 0 THEN more[k].amount <= rows[k].amount
                                      ELSE more[k].amount >= rows[k].amount
  <2>1. /\ rows[k] \in TaxRows /\ Ceiled(rows[k], step) \in Int
        /\ rows[k].vat => Ceiled(rows[k], step) % step = 0
        /\ IF rows[k].amount < 0 THEN Ceiled(rows[k], step) <= rows[k].amount
                                 ELSE Ceiled(rows[k], step) >= rows[k].amount
    BY <1>1, CeiledIs
  <2>2. rows[k].amount \in Int
    BY <2>1 DEF TaxRows
  <2>3. up[k] \in Int /\ rows[k].amount + up[k] = Ceiled(rows[k], step)
    BY <2>1, <2>2
  <2>4. more[k] = [rows[k] EXCEPT !.amount = @ + up[k], !.running = @ + up[k]]
    OBVIOUS
  <2>5. am[k] = rows[k].amount /\ ce[k] = Ceiled(rows[k], step)
    OBVIOUS
  <2> HIDE DEF more, up, am, ce
  <2>6. more[k].amount = rows[k].amount + up[k] /\ more[k].vat = rows[k].vat
    BY <2>1, <2>4 DEF TaxRows
  <2> QED BY <2>1, <2>2, <2>3, <2>5, <2>6
<1>4. DOMAIN more = D /\ DOMAIN up = D /\ DOMAIN am = D /\ DOMAIN ce = D
  OBVIOUS
<1>5. CeilVat(inv, step) = [rows |-> more, taxes |-> inv.taxes + delta, grand |-> inv.grand + delta]
  BY <1>4 DEF CeilVat
<1>6. /\ CeilVat(inv, step).rows = more /\ CeilVat(inv, step).taxes = inv.taxes + delta
      /\ CeilVat(inv, step).grand = inv.grand + delta
  <2> HIDE DEF more, delta
  <2> QED BY <1>5
<1>7. inv.taxes = RowsTotal(rows) /\ inv.taxes \in Int /\ inv.grand \in Int
  BY DEF Balanced
<1>8. \A k \in D : rows[k].amount = am[k]
  OBVIOUS
<1>9. delta = SumOver(up, D)
  BY SumOfIs
<1> DEFINE c == CeilVat(inv, step)
<1> HIDE DEF rows, up, am, ce, more, delta
<1>10. RowsTotal(rows) = SumOver(am, D)
  BY <1>2, <1>3, <1>4, <1>8, RowsTotalIs
<1>11. RowsTotal(more) = SumOver(ce, D)
  <2>1. RowsTotal(more) = SumOver(ce, DOMAIN more)
    BY <1>2, <1>3, <1>4, RowsTotalIs
  <2> QED BY <1>4, <2>1
<1> HIDE DEF D, c
<1>12. SumOver(ce, D) = SumOver(am, D) + SumOver(up, D)
  <2>1. \A k \in D : am[k] \in Int /\ up[k] \in Int /\ ce[k] = am[k] + up[k]
    BY <1>3
  <2> QED BY <1>2, <2>1, SumOverPlus
<1>13. delta \in Int
  BY <1>2, <1>3, <1>9, SumOverType
<1>14. c.grand - c.taxes = inv.grand - inv.taxes
  BY <1>6, <1>7, <1>13 DEF c
<1>15. c.taxes = RowsTotal(c.rows)
  BY <1>6, <1>7, <1>9, <1>10, <1>11, <1>12 DEF c
<1>16. \A k \in DOMAIN c.rows :
         /\ c.rows[k].vat => c.rows[k].amount % step = 0
         /\ IF inv.rows[k].amount < 0 THEN c.rows[k].amount <= inv.rows[k].amount
                                      ELSE c.rows[k].amount >= inv.rows[k].amount
  <2>1. c.rows = more /\ DOMAIN more = D
    BY <1>4, <1>6 DEF c
  <2> QED BY <1>3, <2>1 DEF rows
<1> QED BY <1>14, <1>15, <1>16 DEF StaysBalanced, c

(* Frames of the protocol.                                                            *)

Bytes == 0..255

LEMMA ByteIs == \A b \in Bytes : b \in Nat /\ b \in Int /\ b <= 255
BY DEF Bytes

LEMMA BytesOf ==
  ASSUME NEW c, c \in Seq(Bytes)
  PROVE  /\ Len(c) \in Nat /\ DOMAIN c = 1..Len(c)
         /\ \A k \in 1..Len(c) : c[k] \in Bytes /\ c[k] \in Nat /\ c[k] \in Int
<1>1. Len(c) \in Nat /\ DOMAIN c = 1..Len(c) /\ \A k \in 1..Len(c) : c[k] \in Bytes
  OBVIOUS
<1> QED BY <1>1, ByteIs

SumOfBytes(c) == SumOver(c, 1..Len(c))

LEMMA SumIs ==
  ASSUME NEW c, c \in Seq(Bytes)
  PROVE  /\ Sum16(c) = SumOfBytes(c) % 65536 /\ SumOfBytes(c) \in Nat
         /\ IsFiniteSet(1..Len(c)) /\ \A k \in 1..Len(c) : c[k] \in Nat
<1>1. Len(c) \in Nat /\ DOMAIN c = 1..Len(c) /\ \A k \in 1..Len(c) : c[k] \in Nat
  BY BytesOf
<1>2. IsFiniteSet(1..Len(c))
  BY <1>1, FS_Interval
<1>3. Sum16(c) = SumOver(c, DOMAIN c) % 65536
  BY DEF Sum16, FoldSeq, FoldFunction, FoldFunctionOnSet, SumOver, MapThenFoldSet
<1>4. SumOver(c, 1..Len(c)) \in Nat
  BY <1>1, <1>2, SumOverNatural
<1> QED BY <1>1, <1>2, <1>3, <1>4 DEF SumOfBytes

Sum16s == {s \in Nat : s < 65536}

LEMMA Sum16sIs == \A s \in Sum16s : s \in Nat /\ s \in Int /\ s <= 65535
BY DEF Sum16s

LEMMA Remainder == \A s \in Nat : s % 65536 \in Sum16s
BY DEF Sum16s

LEMMA RemaindersTell ==
  ASSUME NEW s \in Nat, NEW t \in Nat, s # t, s - t <= 255, t - s <= 255
  PROVE  s % 65536 # t % 65536
OBVIOUS

LEMMA Sum16Is ==
  ASSUME NEW c, c \in Seq(Bytes)
  PROVE  Sum16(c) \in Sum16s
BY SumIs, Remainder

(* One other byte gives another sum.                                                   *)
LEMMA SumTells ==
  ASSUME NEW c, c \in Seq(Bytes), NEW e, e \in Seq(Bytes), Len(c) = Len(e),
         NEW x \in 1..Len(c), c[x] # e[x], \A y \in 1..Len(c) : y # x => e[y] = c[y]
  PROVE  Sum16(c) # Sum16(e)
<1> DEFINE s == SumOfBytes(c)
           t == SumOfBytes(e)
<1>1. s \in Nat /\ IsFiniteSet(1..Len(c)) /\ \A y \in 1..Len(c) : c[y] \in Nat
  BY SumIs
<1>2. t \in Nat /\ \A y \in 1..Len(c) : e[y] \in Nat
  BY SumIs
<1>3. Sum16(c) = s % 65536 /\ Sum16(e) = t % 65536
  BY SumIs
<1>4. c[x] \in Nat /\ e[x] \in Nat /\ c[x] <= 255 /\ e[x] <= 255
  <2>1. c[x] \in Bytes /\ e[x] \in Bytes
    BY BytesOf
  <2> QED BY <2>1, ByteIs
<1>5. t - s = e[x] - c[x]
  <2>1. \A y \in 1..Len(c) : c[y] \in Int /\ e[y] \in Int
    BY <1>1, <1>2
  <2>2. SumOver(e, 1..Len(c)) - SumOver(c, 1..Len(c)) = e[x] - c[x]
    BY <1>1, <2>1, SumChanged
  <2> QED BY <2>2 DEF SumOfBytes
<1> HIDE DEF s, t
<1>6. s \in Nat /\ t \in Nat
  BY <1>1, <1>2
<1>7. s # t /\ s - t <= 255 /\ t - s <= 255
  BY <1>4, <1>5, <1>6
<1>8. s % 65536 # t % 65536
  BY <1>6, <1>7, RemaindersTell
<1> QED BY <1>3, <1>8

LEMMA HexDigit == \A t \in Nat, d \in {1, 16, 256, 4096} : (t \div d) % 16 \in 0..15
OBVIOUS

LEMMA DigitByte ==
  ASSUME NEW t \in Nat, NEW d \in {1, 16, 256, 4096}
  PROVE  48 + ((t \div d) % 16) \in Bytes
<1>1. \A x \in 0..15 : 48 + x \in Bytes
  BY DEF Bytes
<1>2. (t \div d) % 16 \in 0..15
  BY HexDigit
<1> QED BY <1>1, <1>2

LEMMA FourOf ==
  ASSUME NEW S, NEW b, b \in [1..4 -> S]
  PROVE  b \in Seq(S) /\ Len(b) = 4
<1>1. 4 \in Nat
  OBVIOUS
<1>2. b \in Seq(S)
  BY <1>1, SeqDef
<1>3. DOMAIN b = 1..4
  OBVIOUS
<1> QED BY <1>1, <1>2, <1>3, LenProperties

LEMMA BccIs ==
  ASSUME NEW c, c \in Seq(Bytes)
  PROVE  /\ BCC16(c) \in Seq(Bytes) /\ Len(BCC16(c)) = 4
         /\ BCC16(c)[1] = 48 + ((Sum16(c) \div 4096) % 16) /\ BCC16(c)[2] = 48 + ((Sum16(c) \div 256) % 16)
         /\ BCC16(c)[3] = 48 + ((Sum16(c) \div 16) % 16) /\ BCC16(c)[4] = 48 + ((Sum16(c) \div 1) % 16)
<1> DEFINE t == Sum16(c)
           w == <<4096, 256, 16, 1>>
           b == [k \in 1..4 |-> 48 + ((t \div w[k]) % 16)]
<1>1. t \in Nat
  BY Sum16Is, Sum16sIs
<1>4. w[1] = 4096 /\ w[2] = 256 /\ w[3] = 16 /\ w[4] = 1
  OBVIOUS
<1>0. b = BCC16(c)
  BY Zenon DEF BCC16
<1> HIDE DEF t, w
<1>2. b = BCC16(c) /\ DOMAIN b = 1..4 /\ b = [k \in 1..4 |-> b[k]]
  BY <1>0
<1>3. /\ b[1] = 48 + ((t \div 4096) % 16) /\ b[2] = 48 + ((t \div 256) % 16)
      /\ b[3] = 48 + ((t \div 16) % 16) /\ b[4] = 48 + ((t \div 1) % 16)
  <2>2. \A k \in 1..4 : b[k] = 48 + ((t \div w[k]) % 16)
    OBVIOUS
  <2> HIDE DEF b
  <2>3. b[1] = 48 + ((t \div w[1]) % 16) /\ b[2] = 48 + ((t \div w[2]) % 16)
    BY <2>2
  <2>4. b[3] = 48 + ((t \div w[3]) % 16) /\ b[4] = 48 + ((t \div w[4]) % 16)
    BY <2>2
  <2> QED BY <1>4, <2>3, <2>4
<1> HIDE DEF b
<1>5. b[1] \in Bytes /\ b[2] \in Bytes /\ b[3] \in Bytes /\ b[4] \in Bytes
  <2>1. /\ 48 + ((t \div 4096) % 16) \in Bytes /\ 48 + ((t \div 256) % 16) \in Bytes
        /\ 48 + ((t \div 16) % 16) \in Bytes /\ 48 + ((t \div 1) % 16) \in Bytes
    BY <1>1, DigitByte
  <2> QED BY <1>3, <2>1
<1>6. b \in [1..4 -> Bytes]
  <2>1. \A k \in 1..4 : b[k] \in Bytes
    BY <1>5
  <2> QED BY <1>2, <2>1
<1>7. b \in Seq(Bytes) /\ Len(b) = 4
  BY <1>6, FourOf
<1> QED BY <1>2, <1>3, <1>7 DEF t

(* The four bytes tell the sums apart.                                                 *)
Rebuilt(t) == 4096 * (t \div 4096) + 256 * ((t \div 256) % 16) + 16 * ((t \div 16) % 16) + ((t \div 1) % 16)

LEMMA DigitsOf ==
  ASSUME NEW t \in Nat, t <= 65535
  PROVE  Rebuilt(t) = t /\ (t \div 4096) % 16 = t \div 4096
<1> DEFINE a == t \div 16
           b == t \div 256
           d == t \div 4096
           x == b % 16
           y == a % 16
           z == (t \div 1) % 16
<1>1. a \in Nat /\ 16 * a <= t /\ t < 16 * a + 16 /\ z = t - 16 * a
  OBVIOUS
<1>2. b \in Nat /\ 256 * b <= t /\ t < 256 * b + 256
  OBVIOUS
<1>3. d \in Nat /\ 4096 * d <= t /\ t < 4096 * d + 4096
  OBVIOUS
<1> HIDE DEF a, b, d, z
<1>4. 16 * b <= a /\ a < 16 * b + 16
  BY <1>1, <1>2
<1>5. 16 * d <= b /\ b < 16 * d + 16
  BY <1>2, <1>3
<1>6. y = a - 16 * b /\ x = b - 16 * d
  BY <1>1, <1>2, <1>3, <1>4, <1>5
<1>7. d % 16 = d
  BY <1>3
<1> HIDE DEF x, y
<1>8. 4096 * d + 256 * x + 16 * y + z = t
  BY <1>1, <1>2, <1>3, <1>6
<1>9. Rebuilt(t) = 4096 * d + 256 * x + 16 * y + z
  <2>1. t \div 4096 = d /\ (t \div 256) % 16 = x /\ (t \div 16) % 16 = y /\ (t \div 1) % 16 = z
    BY DEF a, b, d, x, y, z
  <2> QED BY <2>1 DEF Rebuilt
<1> QED BY <1>7, <1>8, <1>9 DEF d

LEMMA SameDigit ==
  ASSUME NEW t \in Nat, NEW u \in Nat, NEW n \in {1, 16, 256, 4096},
         48 + ((t \div n) % 16) = 48 + ((u \div n) % 16)
  PROVE  (t \div n) % 16 = (u \div n) % 16
<1> DEFINE a == (t \div n) % 16
           b == (u \div n) % 16
<1>1. a \in 0..15 /\ b \in 0..15
  BY HexDigit
<1>2. 48 + a = 48 + b
  OBVIOUS
<1> HIDE DEF a, b
<1>3. a = b
  BY <1>1, <1>2
<1> QED BY <1>3 DEF a, b

LEMMA BccTells ==
  ASSUME NEW c, c \in Seq(Bytes), NEW e, e \in Seq(Bytes), BCC16(c) = BCC16(e)
  PROVE  Sum16(c) = Sum16(e)
<1> DEFINE t == Sum16(c)
           u == Sum16(e)
<1>1. t \in Nat /\ u \in Nat /\ t <= 65535 /\ u <= 65535
  BY Sum16Is, Sum16sIs
<1>2. /\ 48 + ((t \div 4096) % 16) = 48 + ((u \div 4096) % 16) /\ 48 + ((t \div 256) % 16) = 48 + ((u \div 256) % 16)
      /\ 48 + ((t \div 16) % 16) = 48 + ((u \div 16) % 16) /\ 48 + ((t \div 1) % 16) = 48 + ((u \div 1) % 16)
  BY BccIs
<1> HIDE DEF t, u
<1>3. /\ (t \div 4096) % 16 = (u \div 4096) % 16 /\ (t \div 256) % 16 = (u \div 256) % 16
      /\ (t \div 16) % 16 = (u \div 16) % 16 /\ (t \div 1) % 16 = (u \div 1) % 16
  BY <1>1, <1>2, SameDigit
<1>4. t \div 4096 = u \div 4096
  BY <1>1, <1>3, DigitsOf
<1>5. Rebuilt(t) = Rebuilt(u)
  BY <1>1, <1>3, <1>4 DEF Rebuilt
<1>6. t = u
  BY <1>1, <1>5, DigitsOf
<1> QED BY <1>6 DEF t, u


(* The parts of a frame.                                                               *)
LEMMA Joined ==
  ASSUME NEW S, NEW a, a \in Seq(S), NEW b, b \in Seq(S)
  PROVE  /\ a \o b \in Seq(S) /\ Len(a) \in Nat /\ Len(b) \in Nat /\ Len(a \o b) = Len(a) + Len(b)
         /\ \A k \in 1..Len(a) : (a \o b)[k] = a[k]
         /\ \A k \in 1..Len(b) : (a \o b)[Len(a) + k] = b[k]
OBVIOUS

Appended(c, a, b) ==
  /\ c \in Seq(Bytes) /\ Len(c) = Len(a) + Len(b)
  /\ \A k \in 1..Len(a) : c[k] = a[k]
  /\ \A k \in 1..Len(b) : c[Len(a) + k] = b[k]

LEMMA AppendedIs ==
  ASSUME NEW a, a \in Seq(Bytes), NEW b, b \in Seq(Bytes)
  PROVE  Appended(a \o b, a, b)
BY Joined DEF Appended

LEMMA CutOut ==
  ASSUME NEW S, NEW a, a \in Seq(S), NEW m \in Nat, NEW n \in Nat, 1 <= m, m <= n + 1, n <= Len(a)
  PROVE  /\ SubSeq(a, m, n) \in Seq(S) /\ Len(SubSeq(a, m, n)) = n + 1 - m
         /\ \A k \in 1..(n + 1 - m) : SubSeq(a, m, n)[k] = a[m - 1 + k]
OBVIOUS

LEMMA One == ASSUME NEW S, NEW x \in S PROVE <<x>> \in Seq(S) /\ Len(<<x>>) = 1 /\ <<x>>[1] = x
OBVIOUS

LEMMA SameElements ==
  ASSUME NEW S, NEW a, a \in Seq(S), NEW b, b \in Seq(S), Len(a) = Len(b), \A k \in 1..Len(a) : a[k] = b[k]
  PROVE  a = b
OBVIOUS

FrameParts(f, c) ==
  LET n == Len(c)
  IN  /\ f \in Seq(Bytes) /\ Len(f) = n + 6
      /\ f[1] = 1 /\ f[n + 6] = 3
      /\ \A k \in 1..n : f[1 + k] = c[k]
      /\ \A k \in 1..4 : f[n + 1 + k] = BCC16(c)[k]

LEMMA WrappedIs ==
  ASSUME NEW c, c \in Seq(Bytes)
  PROVE  FrameParts(Wrapped(c), c)
<1> DEFINE n == Len(c)
           b == BCC16(c)
           o == <<SOH>>
           e == <<ETX>>
           p == o \o c
           q == p \o b
           f == q \o e
<1>1. b \in Seq(Bytes) /\ Len(b) = 4
  BY BccIs
<1>2. o \in Seq(Bytes) /\ Len(o) = 1 /\ o[1] = 1 /\ e \in Seq(Bytes) /\ Len(e) = 1 /\ e[1] = 3
  <2>1. SOH \in Bytes /\ ETX \in Bytes /\ SOH = 1 /\ ETX = 3
    BY DEF Bytes, SOH, ETX
  <2> QED BY <2>1, One
<1>3. Wrapped(c) = f
  BY DEF Wrapped
<1> HIDE DEF b, o, e
<1>4. /\ p \in Seq(Bytes) /\ n \in Nat /\ Len(p) = 1 + n /\ p[1] = 1
      /\ \A k \in 1..n : p[1 + k] = c[k]
  <2>1. /\ p \in Seq(Bytes) /\ Len(o) \in Nat /\ n \in Nat /\ Len(p) = Len(o) + n
        /\ \A k \in 1..Len(o) : p[k] = o[k]
        /\ \A k \in 1..n : p[Len(o) + k] = c[k]
    BY <1>2, Joined
  <2> HIDE DEF p
  <2> QED BY <1>2, <2>1
<1> HIDE DEF p
<1>5. /\ q \in Seq(Bytes) /\ Len(q) = n + 5 /\ q[1] = 1
      /\ \A k \in 1..n : q[1 + k] = c[k]
      /\ \A k \in 1..4 : q[n + 1 + k] = b[k]
  <2>1. /\ q \in Seq(Bytes) /\ Len(q) = Len(p) + Len(b)
        /\ \A k \in 1..Len(p) : q[k] = p[k]
        /\ \A k \in 1..Len(b) : q[Len(p) + k] = b[k]
    <3>1. p \in Seq(Bytes) /\ b \in Seq(Bytes)
      BY <1>1, <1>4
    <3>2. Appended(q, p, b)
      BY <3>1, AppendedIs
    <3> HIDE DEF q
    <3> QED BY <3>2 DEF Appended
  <2> HIDE DEF q
  <2>2. Len(q) = n + 5 /\ q[1] = 1
    BY <1>1, <1>4, <2>1
  <2>3. \A k \in 1..n : q[1 + k] = c[k]
    BY <1>4, <2>1
  <2>4. \A k \in 1..4 : q[n + 1 + k] = b[k]
    BY <1>1, <1>4, <2>1
  <2> QED BY <2>1, <2>2, <2>3, <2>4
<1> HIDE DEF q
<1>6. /\ f \in Seq(Bytes) /\ Len(f) = n + 6 /\ f[1] = 1 /\ f[n + 6] = 3
      /\ \A k \in 1..n : f[1 + k] = c[k]
      /\ \A k \in 1..4 : f[n + 1 + k] = b[k]
  <2>1. /\ f \in Seq(Bytes) /\ Len(f) = Len(q) + Len(e)
        /\ \A k \in 1..Len(q) : f[k] = q[k]
        /\ \A k \in 1..Len(e) : f[Len(q) + k] = e[k]
    <3>1. q \in Seq(Bytes) /\ e \in Seq(Bytes)
      BY <1>2, <1>5
    <3>2. Appended(f, q, e)
      BY <3>1, AppendedIs
    <3> HIDE DEF f
    <3> QED BY <3>2 DEF Appended
  <2> HIDE DEF f
  <2>2. Len(f) = n + 6 /\ f[1] = 1
    BY <1>2, <1>4, <1>5, <2>1
  <2>3. f[n + 6] = 3
    <3>1. f[Len(q) + 1] = e[1]
      BY <1>2, <2>1
    <3>2. Len(q) + 1 = n + 6
      BY <1>4, <1>5
    <3> QED BY <1>2, <3>1, <3>2
  <2>4. \A k \in 1..n : f[1 + k] = c[k]
    <3> TAKE k \in 1..n
    <3>1. 1 + k \in 1..Len(q)
      BY <1>4, <1>5
    <3> QED BY <1>5, <2>1, <3>1
  <2>5. \A k \in 1..4 : f[n + 1 + k] = b[k]
    BY <1>4, <1>5, <2>1
  <2> QED BY <2>1, <2>2, <2>3, <2>4, <2>5
<1> QED BY <1>3, <1>6 DEF FrameParts, b

FrameCut(g, n) ==
  /\ Core(g) \in Seq(Bytes) /\ Len(Core(g)) = n /\ \A k \in 1..n : Core(g)[k] = g[1 + k]
  /\ Received(g) \in Seq(Bytes) /\ Len(Received(g)) = 4 /\ \A k \in 1..4 : Received(g)[k] = g[n + 1 + k]
  /\ Delimited(g) <=> g[1] = 1 /\ g[n + 6] = 3

LEMMA CutIs ==
  ASSUME NEW g, g \in Seq(Bytes), NEW n \in Nat, Len(g) = n + 6
  PROVE  FrameCut(g, n)
<1>1. /\ SubSeq(g, 2, n + 1) \in Seq(Bytes) /\ Len(SubSeq(g, 2, n + 1)) = n
      /\ \A k \in 1..n : SubSeq(g, 2, n + 1)[k] = g[1 + k]
  <2>1. 2 \in Nat /\ n + 1 \in Nat /\ 1 <= 2 /\ 2 <= (n + 1) + 1 /\ n + 1 <= Len(g)
        /\ (n + 1) + 1 - 2 = n /\ 2 - 1 = 1
    OBVIOUS
  <2>2. /\ SubSeq(g, 2, n + 1) \in Seq(Bytes) /\ Len(SubSeq(g, 2, n + 1)) = (n + 1) + 1 - 2
        /\ \A k \in 1..((n + 1) + 1 - 2) : SubSeq(g, 2, n + 1)[k] = g[2 - 1 + k]
    BY <2>1, CutOut
  <2> QED BY <2>1, <2>2
<1>2. /\ SubSeq(g, n + 2, n + 5) \in Seq(Bytes) /\ Len(SubSeq(g, n + 2, n + 5)) = 4
      /\ \A k \in 1..4 : SubSeq(g, n + 2, n + 5)[k] = g[n + 1 + k]
  <2>1. n + 2 \in Nat /\ n + 5 \in Nat /\ 1 <= n + 2 /\ n + 2 <= (n + 5) + 1 /\ n + 5 <= Len(g)
        /\ (n + 5) + 1 - (n + 2) = 4 /\ (n + 2) - 1 = n + 1
    OBVIOUS
  <2>2. /\ SubSeq(g, n + 2, n + 5) \in Seq(Bytes) /\ Len(SubSeq(g, n + 2, n + 5)) = (n + 5) + 1 - (n + 2)
        /\ \A k \in 1..((n + 5) + 1 - (n + 2)) : SubSeq(g, n + 2, n + 5)[k] = g[(n + 2) - 1 + k]
    BY <2>1, CutOut
  <2> QED BY <2>1, <2>2
<1>3. Core(g) = SubSeq(g, 2, n + 1) /\ Received(g) = SubSeq(g, n + 2, n + 5)
  <2>1. Len(g) - 5 = n + 1 /\ Len(g) - 4 = n + 2 /\ Len(g) - 1 = n + 5
    OBVIOUS
  <2> QED BY <2>1 DEF Core, Received
<1>4. Delimited(g) <=> g[1] = 1 /\ g[n + 6] = 3
  <2>1. Head(g) = g[1] /\ Last(g) = g[Len(g)]
    BY DEF Last
  <2> QED BY <2>1 DEF Delimited, SOH, ETX
<1> QED BY <1>1, <1>2, <1>3, <1>4 DEF FrameCut

(* One byte received otherwise than it was sent is refused, wherever it is.            *)
LEMMA Corrupted ==
  ASSUME NEW c, c \in Seq(Bytes), NEW x \in 1..Len(Wrapped(c)), NEW byte \in Bytes, byte # Wrapped(c)[x]
  PROVE  LET g == [Wrapped(c) EXCEPT ![x] = byte]
         IN  Len(g) = Len(Wrapped(c)) /\ (~Delimited(g) \/ ~SumsUp(g))
<1> DEFINE f == Wrapped(c)
           g == [f EXCEPT ![x] = byte]
           n == Len(c)
           b == BCC16(c)
           h == Core(g)
           r == Received(g)
<1>1. FrameParts(f, c)
  BY WrappedIs
<1>2. b \in Seq(Bytes) /\ Len(b) = 4 /\ n \in Nat
  BY BccIs
<1>3. f \in Seq(Bytes) /\ Len(f) = n + 6
  BY <1>1 DEF FrameParts
<1>4. x \in 1..Len(f) /\ byte # f[x]
  OBVIOUS
<1> HIDE DEF f, b
<1>5. g \in Seq(Bytes) /\ Len(g) = n + 6
  BY <1>3, <1>4, ExceptSeq
<1>6. g[x] = byte /\ \A y \in 1..n + 6 : y # x => g[y] = f[y]
  BY <1>3, <1>4
<1> HIDE DEF g
<1>7. FrameCut(g, n)
  BY <1>2, <1>5, CutIs
<1>8. /\ h \in Seq(Bytes) /\ Len(h) = n /\ \A k \in 1..n : h[k] = g[1 + k]
      /\ r \in Seq(Bytes) /\ Len(r) = 4 /\ \A k \in 1..4 : r[k] = g[n + 1 + k]
  BY <1>7 DEF FrameCut
<1>9. /\ f[1] = 1 /\ f[n + 6] = 3
      /\ \A k \in 1..n : f[1 + k] = c[k]
      /\ \A k \in 1..4 : f[n + 1 + k] = b[k]
  BY <1>1 DEF FrameParts, b
<1>10. ~Delimited(g) \/ ~(BCC16(h) = r)
  <2>0. x \in Nat /\ (x = 1 \/ x = n + 6 \/ (2 <= x /\ x <= n + 1) \/ (n + 2 <= x /\ x <= n + 5))
    BY <1>2, <1>3, <1>4
  <2>1. CASE x = 1 \/ x = n + 6
    <3>1. ~(g[1] = 1 /\ g[n + 6] = 3)
      BY <1>4, <1>6, <1>9, <2>1
    <3> QED BY <1>7, <3>1 DEF FrameCut
  <2>2. CASE 2 <= x /\ x <= n + 1
    <3> DEFINE z == x - 1
    <3>1. z \in 1..n /\ x = 1 + z
      BY <1>2, <2>0, <2>2
    <3> HIDE DEF z
    <3>2. r = b
      <4>1. \A k \in 1..4 : r[k] = b[k]
        <5> TAKE k \in 1..4
        <5>1. n + 1 + k \in 1..n + 6 /\ n + 1 + k # x
          BY <1>2, <2>0, <2>2
        <5>2. g[n + 1 + k] = f[n + 1 + k]
          BY <1>6, <5>1
        <5> QED BY <1>8, <1>9, <5>2
      <4> HIDE DEF r
      <4>2. r \in Seq(Bytes) /\ b \in Seq(Bytes) /\ Len(r) = Len(b)
        BY <1>2, <1>8
      <4>3. \A k \in 1..Len(r) : r[k] = b[k]
        BY <4>1, <1>8
      <4> QED BY <4>2, <4>3, SameElements
    <3>3. c[z] # h[z]
      BY <1>4, <1>6, <1>8, <1>9, <3>1
    <3>4. \A y \in 1..n : y # z => h[y] = c[y]
      <4> SUFFICES ASSUME NEW y \in 1..n, y # z PROVE h[y] = c[y]
        OBVIOUS
      <4>1. 1 + y \in 1..n + 6 /\ 1 + y # x
        BY <1>2, <3>1
      <4>2. g[1 + y] = f[1 + y]
        BY <1>6, <4>1
      <4> QED BY <1>8, <1>9, <4>2
    <3> HIDE DEF h, r
    <3>5. Sum16(c) # Sum16(h)
      BY <1>8, <3>1, <3>3, <3>4, SumTells
    <3>6. BCC16(c) # BCC16(h)
      BY <1>8, <3>5, BccTells
    <3> QED BY <3>2, <3>6 DEF b
  <2>3. CASE n + 2 <= x /\ x <= n + 5
    <3> DEFINE z == x - n - 1
    <3>1. z \in 1..4 /\ x = n + 1 + z
      BY <1>2, <2>0, <2>3
    <3> HIDE DEF z
    <3>2. r[z] # b[z]
      BY <1>4, <1>6, <1>8, <1>9, <3>1
    <3>3. h = c
      <4>1. \A k \in 1..n : h[k] = c[k]
        <5> TAKE k \in 1..n
        <5>1. 1 + k \in 1..n + 6 /\ 1 + k # x
          BY <1>2, <2>0, <2>3
        <5>2. g[1 + k] = f[1 + k]
          BY <1>6, <5>1
        <5> QED BY <1>8, <1>9, <5>2
      <4> HIDE DEF h
      <4>2. h \in Seq(Bytes) /\ c \in Seq(Bytes) /\ Len(h) = Len(c)
        BY <1>8
      <4>3. \A k \in 1..Len(h) : h[k] = c[k]
        BY <4>1, <4>2
      <4> QED BY <4>2, <4>3, SameElements
    <3> QED BY <3>2, <3>3 DEF b
  <2> QED BY <2>0, <2>1, <2>2, <2>3
<1> QED BY <1>3, <1>5, <1>10 DEF SumsUp, f, g


(* What a command says is read as it was sent.                                         *)
CommandCore(seq, cmd, data) == <<36 + Len(data), seq, cmd>> \o data \o <<AMB>>

CommandParts(c, seq, cmd, data) ==
  LET n == Len(data)
  IN  /\ c \in Seq(Bytes) /\ Len(c) = n + 4 /\ c[2] = seq /\ c[3] = cmd /\ c[n + 4] = AMB
      /\ SubSeq(c, 4, n + 3) = data

LEMMA Three ==
  ASSUME NEW S, NEW x \in S, NEW y \in S, NEW z \in S
  PROVE  /\ <<x, y, z>> \in Seq(S) /\ Len(<<x, y, z>>) = 3
         /\ <<x, y, z>>[1] = x /\ <<x, y, z>>[2] = y /\ <<x, y, z>>[3] = z
OBVIOUS

LEMMA Middle ==
  ASSUME NEW S, NEW c, c \in Seq(S), NEW d, d \in Seq(S), NEW m \in Nat, m + Len(d) <= Len(c),
         \A k \in 1..Len(d) : c[m + k] = d[k]
  PROVE  SubSeq(c, m + 1, m + Len(d)) = d
<1> DEFINE s == SubSeq(c, m + 1, m + Len(d))
<1>1. Len(d) \in Nat /\ Len(c) \in Nat
  OBVIOUS
<1>2. /\ m + 1 \in Nat /\ m + Len(d) \in Nat /\ 1 <= m + 1 /\ m + 1 <= (m + Len(d)) + 1
      /\ (m + Len(d)) + 1 - (m + 1) = Len(d) /\ (m + 1) - 1 = m
  BY <1>1
<1>3. /\ s \in Seq(S) /\ Len(s) = (m + Len(d)) + 1 - (m + 1)
      /\ \A k \in 1..((m + Len(d)) + 1 - (m + 1)) : s[k] = c[(m + 1) - 1 + k]
  BY <1>2, CutOut
<1> HIDE DEF s
<1>4. Len(s) = Len(d) /\ \A k \in 1..Len(d) : s[k] = d[k]
  BY <1>2, <1>3
<1>5. s = d
  BY <1>3, <1>4, SameElements
<1> QED BY <1>5 DEF s

LEMMA CommandIs ==
  ASSUME NEW seq \in Bytes, NEW cmd \in Bytes, NEW data, data \in Seq(Bytes), Len(data) <= MaxData
  PROVE  CommandParts(CommandCore(seq, cmd, data), seq, cmd, data)
<1> DEFINE n == Len(data)
           a == <<36 + n, seq, cmd>>
           e == <<AMB>>
           p == a \o data
           c == p \o e
<1>1. n \in Nat /\ 36 + n \in Bytes
  <2>1. n \in Nat /\ n <= 200
    BY DEF MaxData
  <2> HIDE DEF n
  <2> QED BY <2>1 DEF Bytes
<1>2. a \in Seq(Bytes) /\ Len(a) = 3 /\ a[2] = seq /\ a[3] = cmd
  BY <1>1, Three
<1>3. e \in Seq(Bytes) /\ Len(e) = 1 /\ e[1] = AMB
  <2>1. AMB \in Bytes
    BY DEF AMB, Bytes
  <2> QED BY <2>1, One
<1>4. CommandCore(seq, cmd, data) = c
  BY DEF CommandCore
<1> HIDE DEF a, e
<1>5. /\ p \in Seq(Bytes) /\ Len(p) = 3 + n /\ p[2] = seq /\ p[3] = cmd
      /\ \A k \in 1..n : p[3 + k] = data[k]
  <2>1. /\ p \in Seq(Bytes) /\ Len(p) = Len(a) + n
        /\ \A k \in 1..Len(a) : p[k] = a[k]
        /\ \A k \in 1..n : p[Len(a) + k] = data[k]
    <3>1. Appended(p, a, data)
      BY <1>2, AppendedIs
    <3> HIDE DEF p
    <3> QED BY <3>1 DEF Appended
  <2> HIDE DEF p
  <2> QED BY <1>2, <2>1
<1> HIDE DEF p
<1>6. /\ c \in Seq(Bytes) /\ Len(c) = n + 4 /\ c[2] = seq /\ c[3] = cmd /\ c[n + 4] = AMB
      /\ \A k \in 1..n : c[3 + k] = data[k]
  <2>1. /\ c \in Seq(Bytes) /\ Len(c) = Len(p) + Len(e)
        /\ \A k \in 1..Len(p) : c[k] = p[k]
        /\ \A k \in 1..Len(e) : c[Len(p) + k] = e[k]
    <3>1. p \in Seq(Bytes) /\ e \in Seq(Bytes)
      BY <1>3, <1>5
    <3>2. Appended(c, p, e)
      BY <3>1, AppendedIs
    <3> HIDE DEF c
    <3> QED BY <3>2 DEF Appended
  <2> HIDE DEF c
  <2>2. Len(c) = n + 4 /\ c[2] = seq /\ c[3] = cmd
    BY <1>1, <1>3, <1>5, <2>1
  <2>3. c[n + 4] = AMB
    <3>1. c[Len(p) + 1] = e[1]
      BY <1>3, <2>1
    <3>2. Len(p) + 1 = n + 4
      BY <1>1, <1>5
    <3> QED BY <1>3, <3>1, <3>2
  <2>4. \A k \in 1..n : c[3 + k] = data[k]
    BY <1>1, <1>5, <2>1
  <2> QED BY <2>1, <2>2, <2>3, <2>4
<1> HIDE DEF c
<1>7. SubSeq(c, 4, n + 3) = data
  <2>1. 3 \in Nat /\ 3 + Len(data) <= Len(c) /\ 3 + 1 = 4 /\ 3 + n = n + 3
    BY <1>1, <1>6
  <2>2. SubSeq(c, 3 + 1, 3 + Len(data)) = data
    BY <1>6, <2>1, Middle
  <2> QED BY <2>1, <2>2
<1> QED BY <1>4, <1>6, <1>7 DEF CommandParts

(* A frame sent whole is delimited, sums up, and has the core it was made of.          *)
LEMMA Whole ==
  ASSUME NEW c, c \in Seq(Bytes)
  PROVE  /\ Wrapped(c) \in Seq(Bytes) /\ Len(Wrapped(c)) = Len(c) + 6 /\ Len(c) \in Nat
         /\ Delimited(Wrapped(c)) /\ SumsUp(Wrapped(c)) /\ Core(Wrapped(c)) = c
<1> DEFINE f == Wrapped(c)
           n == Len(c)
           b == BCC16(c)
           h == Core(f)
           r == Received(f)
<1>1. FrameParts(f, c)
  BY WrappedIs
<1>2. b \in Seq(Bytes) /\ Len(b) = 4 /\ n \in Nat
  BY BccIs
<1> HIDE DEF f, b
<1>3. /\ f \in Seq(Bytes) /\ Len(f) = n + 6
      /\ f[1] = 1 /\ f[n + 6] = 3
      /\ \A k \in 1..n : f[1 + k] = c[k]
      /\ \A k \in 1..4 : f[n + 1 + k] = b[k]
  BY <1>1 DEF FrameParts, b
<1>4. FrameCut(f, n)
  BY <1>2, <1>3, CutIs
<1>5. /\ h \in Seq(Bytes) /\ Len(h) = n /\ \A k \in 1..n : h[k] = f[1 + k]
      /\ r \in Seq(Bytes) /\ Len(r) = 4 /\ \A k \in 1..4 : r[k] = f[n + 1 + k]
      /\ Delimited(f)
  BY <1>3, <1>4 DEF FrameCut
<1> HIDE DEF h, r
<1>6. h = c
  <2>1. Len(h) = Len(c) /\ \A k \in 1..Len(h) : h[k] = c[k]
    BY <1>3, <1>5
  <2> QED BY <1>5, <2>1, SameElements
<1>7. r = b
  <2>1. Len(r) = Len(b) /\ \A k \in 1..Len(r) : r[k] = b[k]
    BY <1>2, <1>3, <1>5
  <2> QED BY <1>2, <1>5, <2>1, SameElements
<1> QED BY <1>2, <1>3, <1>5, <1>6, <1>7 DEF f, b, h, r, SumsUp

(* The answer of the MCF.                                                              *)
AnswerBody(seq, cmd, data, sta) == <<seq, cmd>> \o data \o <<BRK>> \o sta \o <<AMB>>
AnswerCore(seq, cmd, data, sta) ==
  <<(Len(AnswerBody(seq, cmd, data, sta)) + 33) % 256>> \o AnswerBody(seq, cmd, data, sta)

BodyParts(b, seq, cmd, data, sta) ==
  LET n == Len(data)
  IN  /\ b \in Seq(Bytes) /\ Len(b) = n + 10 /\ b[1] = seq /\ b[2] = cmd /\ b[n + 3] = BRK /\ b[n + 10] = AMB
      /\ \A k \in 1..n : b[2 + k] = data[k]
      /\ \A k \in 1..6 : b[n + 3 + k] = sta[k]

AnswerParts(c, seq, cmd, data, sta) ==
  LET n == Len(data)
  IN  /\ c \in Seq(Bytes) /\ Len(c) = n + 11 /\ c[1] = (n + 43) % 256 /\ c[2] = seq /\ c[3] = cmd
      /\ c[n + 4] = BRK /\ c[n + 11] = AMB
      /\ SubSeq(c, 4, n + 3) = data /\ SubSeq(c, n + 5, n + 10) = sta

LEMMA Two ==
  ASSUME NEW S, NEW x \in S, NEW y \in S
  PROVE  <<x, y>> \in Seq(S) /\ Len(<<x, y>>) = 2 /\ <<x, y>>[1] = x /\ <<x, y>>[2] = y
OBVIOUS

LEMMA BodyIs ==
  ASSUME NEW seq \in Bytes, NEW cmd \in Bytes, NEW data, data \in Seq(Bytes), NEW sta, sta \in Seq(Bytes), Len(sta) = 6
  PROVE  BodyParts(AnswerBody(seq, cmd, data, sta), seq, cmd, data, sta)
<1> DEFINE n == Len(data)
           a == <<seq, cmd>>
           e == <<AMB>>
           k3 == <<BRK>>
           p == a \o data
           q == p \o k3
           r == q \o sta
           b == r \o e
<1>1. n \in Nat /\ a \in Seq(Bytes) /\ Len(a) = 2 /\ a[1] = seq /\ a[2] = cmd
  BY Two
<1>2. e \in Seq(Bytes) /\ Len(e) = 1 /\ e[1] = AMB /\ k3 \in Seq(Bytes) /\ Len(k3) = 1 /\ k3[1] = BRK
  <2>1. AMB \in Bytes /\ BRK \in Bytes
    BY DEF AMB, BRK, Bytes
  <2> QED BY <2>1, One
<1>3. AnswerBody(seq, cmd, data, sta) = b
  BY DEF AnswerBody
<1> HIDE DEF a, e, k3
<1>4. /\ p \in Seq(Bytes) /\ Len(p) = n + 2 /\ p[1] = seq /\ p[2] = cmd
      /\ \A k \in 1..n : p[2 + k] = data[k]
  <2>1. /\ p \in Seq(Bytes) /\ Len(p) = Len(a) + n
        /\ \A k \in 1..Len(a) : p[k] = a[k]
        /\ \A k \in 1..n : p[Len(a) + k] = data[k]
    <3>1. Appended(p, a, data)
      BY <1>1, AppendedIs
    <3> HIDE DEF p
    <3> QED BY <3>1 DEF Appended
  <2> HIDE DEF p
  <2> QED BY <1>1, <2>1
<1> HIDE DEF p
<1>5. /\ q \in Seq(Bytes) /\ Len(q) = n + 3 /\ q[1] = seq /\ q[2] = cmd /\ q[n + 3] = BRK
      /\ \A k \in 1..n : q[2 + k] = data[k]
  <2>1. /\ q \in Seq(Bytes) /\ Len(q) = Len(p) + Len(k3)
        /\ \A k \in 1..Len(p) : q[k] = p[k]
        /\ \A k \in 1..Len(k3) : q[Len(p) + k] = k3[k]
    <3>1. p \in Seq(Bytes) /\ k3 \in Seq(Bytes)
      BY <1>2, <1>4
    <3>2. Appended(q, p, k3)
      BY <3>1, AppendedIs
    <3> HIDE DEF q
    <3> QED BY <3>2 DEF Appended
  <2> HIDE DEF q
  <2>2. q[Len(p) + 1] = k3[1] /\ Len(p) + 1 = n + 3
    BY <1>1, <1>2, <1>4, <2>1
  <2>3. q[n + 3] = BRK
    BY <1>2, <2>2
  <2>4. Len(q) = n + 3 /\ q[1] = seq /\ q[2] = cmd
    BY <1>1, <1>2, <1>4, <2>1
  <2>5. \A k \in 1..n : q[2 + k] = data[k]
    BY <1>1, <1>4, <2>1
  <2> QED BY <2>1, <2>3, <2>4, <2>5
<1> HIDE DEF q
<1>6. /\ r \in Seq(Bytes) /\ Len(r) = n + 9 /\ r[1] = seq /\ r[2] = cmd /\ r[n + 3] = BRK
      /\ \A k \in 1..n : r[2 + k] = data[k]
      /\ \A k \in 1..6 : r[n + 3 + k] = sta[k]
  <2>1. /\ r \in Seq(Bytes) /\ Len(r) = Len(q) + Len(sta)
        /\ \A k \in 1..Len(q) : r[k] = q[k]
        /\ \A k \in 1..Len(sta) : r[Len(q) + k] = sta[k]
    <3>1. q \in Seq(Bytes) /\ sta \in Seq(Bytes)
      BY <1>5
    <3>2. Appended(r, q, sta)
      BY <3>1, AppendedIs
    <3> HIDE DEF r
    <3> QED BY <3>2 DEF Appended
  <2> HIDE DEF r
  <2>2. Len(r) = n + 9 /\ r[1] = seq /\ r[2] = cmd /\ r[n + 3] = BRK
    <3>1. 1 \in 1..Len(q) /\ 2 \in 1..Len(q) /\ n + 3 \in 1..Len(q)
      BY <1>1, <1>5
    <3>2. r[1] = q[1] /\ r[2] = q[2] /\ r[n + 3] = q[n + 3]
      BY <2>1, <3>1
    <3>3. Len(r) = n + 9
      BY <1>1, <1>5, <2>1
    <3> QED BY <1>5, <3>2, <3>3
  <2>3. \A k \in 1..n : r[2 + k] = data[k]
    <3> TAKE k \in 1..n
    <3>1. 2 + k \in 1..Len(q)
      BY <1>1, <1>5
    <3> QED BY <1>5, <2>1, <3>1
  <2>4. \A k \in 1..6 : r[n + 3 + k] = sta[k]
    BY <1>1, <1>5, <2>1
  <2> QED BY <2>1, <2>2, <2>3, <2>4
<1> HIDE DEF r
<1>7. BodyParts(b, seq, cmd, data, sta)
  <2>1. /\ b \in Seq(Bytes) /\ Len(b) = Len(r) + Len(e)
        /\ \A k \in 1..Len(r) : b[k] = r[k]
        /\ \A k \in 1..Len(e) : b[Len(r) + k] = e[k]
    <3>1. r \in Seq(Bytes) /\ e \in Seq(Bytes)
      BY <1>2, <1>6
    <3>2. Appended(b, r, e)
      BY <3>1, AppendedIs
    <3> HIDE DEF b
    <3> QED BY <3>2 DEF Appended
  <2> HIDE DEF b
  <2>2. b[Len(r) + 1] = e[1] /\ Len(r) + 1 = n + 10
    BY <1>1, <1>2, <1>6, <2>1
  <2>3. b[n + 10] = AMB
    BY <1>2, <2>2
  <2>4. Len(b) = n + 10 /\ b[1] = seq /\ b[2] = cmd /\ b[n + 3] = BRK
    <3>1. 1 \in 1..Len(r) /\ 2 \in 1..Len(r) /\ n + 3 \in 1..Len(r)
      BY <1>1, <1>6
    <3>2. b[1] = r[1] /\ b[2] = r[2] /\ b[n + 3] = r[n + 3]
      BY <3>1, <2>1
    <3>3. Len(b) = n + 10
      BY <1>1, <1>2, <1>6, <2>1
    <3> QED BY <1>6, <3>2, <3>3
  <2>5. \A k \in 1..n : b[2 + k] = data[k]
    <3> TAKE k \in 1..n
    <3>1. 2 + k \in 1..Len(r)
      BY <1>1, <1>6
    <3> QED BY <1>6, <2>1, <3>1
  <2>6. \A k \in 1..6 : b[n + 3 + k] = sta[k]
    <3> TAKE k \in 1..6
    <3>1. n + 3 + k \in 1..Len(r)
      BY <1>1, <1>6
    <3> QED BY <1>6, <2>1, <3>1
  <2> QED BY <2>1, <2>3, <2>4, <2>5, <2>6 DEF BodyParts
<1> QED BY <1>3, <1>7


LEMMA Modulo256 == \A x \in Nat : x % 256 \in Bytes
BY DEF Bytes

LEMMA AnswerIs ==
  ASSUME NEW seq \in Bytes, NEW cmd \in Bytes, NEW data, data \in Seq(Bytes), NEW sta, sta \in Seq(Bytes), Len(sta) = 6
  PROVE  AnswerParts(AnswerCore(seq, cmd, data, sta), seq, cmd, data, sta)
<1> DEFINE n == Len(data)
           b == AnswerBody(seq, cmd, data, sta)
           l == (Len(b) + 33) % 256
           a == <<l>>
           c == a \o b
<1>1. BodyParts(b, seq, cmd, data, sta)
  BY BodyIs
<1>2. AnswerCore(seq, cmd, data, sta) = c
  BY DEF AnswerCore
<1> HIDE DEF b
<1>3. /\ b \in Seq(Bytes) /\ Len(b) = n + 10 /\ b[1] = seq /\ b[2] = cmd /\ b[n + 3] = BRK /\ b[n + 10] = AMB
      /\ \A k \in 1..n : b[2 + k] = data[k]
      /\ \A k \in 1..6 : b[n + 3 + k] = sta[k]
      /\ n \in Nat
  BY <1>1 DEF BodyParts
<1>4. l = (n + 43) % 256 /\ l \in Bytes
  <2>1. (n + 10) + 33 = n + 43 /\ n + 43 \in Nat
    BY <1>3
  <2>2. l = (n + 43) % 256
    BY <1>3, <2>1
  <2>3. (n + 43) % 256 \in Bytes
    BY <2>1, Modulo256
  <2> QED BY <2>2, <2>3
<1> HIDE DEF l
<1>5. a \in Seq(Bytes) /\ Len(a) = 1 /\ a[1] = l
  BY <1>4, One
<1> HIDE DEF a
<1>6. /\ c \in Seq(Bytes) /\ Len(c) = n + 11 /\ c[1] = l
      /\ \A k \in 1..n + 10 : c[1 + k] = b[k]
  <2>1. /\ c \in Seq(Bytes) /\ Len(c) = Len(a) + Len(b)
        /\ \A k \in 1..Len(a) : c[k] = a[k]
        /\ \A k \in 1..Len(b) : c[Len(a) + k] = b[k]
    <3>1. b \in Seq(Bytes)
      BY <1>3
    <3>2. Appended(c, a, b)
      BY <1>5, <3>1, AppendedIs
    <3> HIDE DEF c
    <3> QED BY <3>2 DEF Appended
  <2> HIDE DEF c
  <2> QED BY <1>3, <1>5, <2>1
<1> HIDE DEF c
<1>7. c[2] = seq /\ c[3] = cmd /\ c[n + 4] = BRK /\ c[n + 11] = AMB
  <2>1. 1 \in 1..n + 10 /\ 2 \in 1..n + 10 /\ n + 3 \in 1..n + 10 /\ n + 10 \in 1..n + 10
    BY <1>3
  <2>2. 1 + 1 = 2 /\ 1 + 2 = 3 /\ 1 + (n + 3) = n + 4 /\ 1 + (n + 10) = n + 11
    BY <1>3
  <2>3. c[1 + 1] = b[1] /\ c[1 + 2] = b[2] /\ c[1 + (n + 3)] = b[n + 3] /\ c[1 + (n + 10)] = b[n + 10]
    BY <1>6, <2>1
  <2> QED BY <1>3, <2>2, <2>3
<1>8. SubSeq(c, 4, n + 3) = data
  <2>1. 3 \in Nat /\ 3 + Len(data) <= Len(c) /\ 3 + 1 = 4 /\ 3 + Len(data) = n + 3
    BY <1>3, <1>6
  <2>2. \A k \in 1..Len(data) : c[3 + k] = data[k]
    <3> TAKE k \in 1..Len(data)
    <3>1. 2 + k \in 1..n + 10 /\ 1 + (2 + k) = 3 + k
      BY <1>3
    <3>2. c[1 + (2 + k)] = b[2 + k]
      BY <1>6, <3>1
    <3> QED BY <1>3, <3>1, <3>2
  <2>3. SubSeq(c, 3 + 1, 3 + Len(data)) = data
    BY <1>6, <2>1, <2>2, Middle
  <2> QED BY <2>1, <2>3
<1>9. SubSeq(c, n + 5, n + 10) = sta
  <2>1. n + 4 \in Nat /\ (n + 4) + Len(sta) <= Len(c) /\ (n + 4) + 1 = n + 5 /\ (n + 4) + Len(sta) = n + 10
    BY <1>3, <1>6
  <2>2. \A k \in 1..Len(sta) : c[(n + 4) + k] = sta[k]
    <3> TAKE k \in 1..Len(sta)
    <3>1. k \in 1..6 /\ n + 3 + k \in 1..n + 10 /\ 1 + (n + 3 + k) = (n + 4) + k
      BY <1>3
    <3>2. c[1 + (n + 3 + k)] = b[n + 3 + k]
      BY <1>6, <3>1
    <3> QED BY <1>3, <3>1, <3>2
  <2>3. SubSeq(c, (n + 4) + 1, (n + 4) + Len(sta)) = sta
    BY <1>6, <2>1, <2>2, Middle
  <2> QED BY <2>1, <2>3
<1> QED BY <1>2, <1>4, <1>6, <1>7, <1>8, <1>9 DEF AnswerParts

CommandSafe(seq, cmd, data) ==
  /\ ParseCommandFrame(BuildFrame(seq, cmd, data)) = [seq |-> seq, cmd |-> cmd, data |-> data]
  /\ \A at \in 1..Len(BuildFrame(seq, cmd, data)), byte \in Bytes :
       BuildFrame(seq, cmd, data)[at] # byte
         => ParseCommandFrame([BuildFrame(seq, cmd, data) EXCEPT ![at] = byte]) = Refused

LEMMA CommandIsSafe ==
  ASSUME NEW seq \in 32..255, NEW cmd \in 0..255, NEW data, data \in Seq(Bytes), Len(data) <= MaxData
  PROVE  CommandSafe(seq, cmd, data)
<1> DEFINE c == CommandCore(seq, cmd, data)
           f == Wrapped(c)
<1>1. seq \in Bytes /\ cmd \in Bytes
  BY DEF Bytes
<1>2. CommandParts(c, seq, cmd, data)
  BY <1>1, CommandIs
<1>3. BuildFrame(seq, cmd, data) = f
  <2>1. ~(seq \notin 32..255 \/ cmd \notin 0..255 \/ Len(data) > MaxData)
    <3>1. Len(data) \in Nat /\ MaxData \in Nat
      BY DEF MaxData
    <3> QED BY <3>1
  <2> QED BY <2>1, Zenon DEF BuildFrame, CommandCore
<1> HIDE DEF c
<1>4. /\ c \in Seq(Bytes) /\ Len(c) = Len(data) + 4 /\ c[2] = seq /\ c[3] = cmd /\ c[Len(data) + 4] = AMB
      /\ SubSeq(c, 4, Len(data) + 3) = data /\ Len(data) \in Nat
  BY <1>2 DEF CommandParts
<1>5. /\ f \in Seq(Bytes) /\ Len(f) = Len(c) + 6
      /\ Delimited(f) /\ SumsUp(f) /\ Core(f) = c
  BY <1>4, Whole
<1> HIDE DEF f
<1>6. ParseCommandFrame(f) = [seq |-> seq, cmd |-> cmd, data |-> data]
  <2>1. Len(f) >= 10 /\ Len(c) - 1 = Len(data) + 3
    BY <1>4, <1>5
  <2>2. Last(c) = AMB
    BY <1>4 DEF Last
  <2> QED BY <1>4, <1>5, <2>1, <2>2 DEF ParseCommandFrame
<1>7. \A at \in 1..Len(f), byte \in Bytes : f[at] # byte => ParseCommandFrame([f EXCEPT ![at] = byte]) = Refused
  <2> SUFFICES ASSUME NEW at \in 1..Len(f), NEW byte \in Bytes, f[at] # byte
               PROVE  ParseCommandFrame([f EXCEPT ![at] = byte]) = Refused
    OBVIOUS
  <2> DEFINE g == [f EXCEPT ![at] = byte]
  <2>1. ~Delimited(g) \/ ~SumsUp(g)
    BY <1>4, Corrupted DEF f
  <2> HIDE DEF g
  <2>2. ParseCommandFrame(g) = Refused
    BY <2>1 DEF ParseCommandFrame
  <2> QED BY <2>2 DEF g
<1> QED BY <1>3, <1>6, <1>7 DEF CommandSafe

(* Every command is read as it was built, and with one wrong byte it is refused, for   *)
(* any sequence number, command and data of at most MaxData bytes.                     *)
THEOREM EveryCommandIsRead ==
  ASSUME NEW seq \in 32..255, NEW cmd \in 0..255, NEW data, data \in Seq(Bytes), Len(data) <= MaxData
  PROVE  /\ ParseCommandFrame(BuildFrame(seq, cmd, data)) = [seq |-> seq, cmd |-> cmd, data |-> data]
         /\ \A at \in 1..Len(BuildFrame(seq, cmd, data)), byte \in Bytes :
              BuildFrame(seq, cmd, data)[at] # byte
                => ParseCommandFrame([BuildFrame(seq, cmd, data) EXCEPT ![at] = byte]) = Refused
<1>1. CommandSafe(seq, cmd, data)
  BY CommandIsSafe
<1> QED BY <1>1 DEF CommandSafe

(* So is every answer of the MCF, however long, with its six status bytes.             *)
THEOREM EveryAnswerIsRead ==
  ASSUME NEW seq \in Bytes, NEW cmd \in Bytes, NEW data, data \in Seq(Bytes), NEW sta, sta \in Seq(Bytes), Len(sta) = 6
  PROVE  /\ ParseResponseFrame(AnswerFrame(seq, cmd, data, sta)) = [seq |-> seq, cmd |-> cmd, data |-> data, sta |-> sta]
         /\ \A at \in 1..Len(AnswerFrame(seq, cmd, data, sta)), byte \in Bytes :
              AnswerFrame(seq, cmd, data, sta)[at] # byte
                => ParseResponseFrame([AnswerFrame(seq, cmd, data, sta) EXCEPT ![at] = byte]) = Refused
<1> DEFINE c == AnswerCore(seq, cmd, data, sta)
           f == Wrapped(c)
           n == Len(data)
<1>2. AnswerParts(c, seq, cmd, data, sta)
  BY AnswerIs
<1>3. AnswerFrame(seq, cmd, data, sta) = f
  BY Zenon DEF AnswerFrame, AnswerCore, AnswerBody
<1> HIDE DEF c
<1>4. /\ c \in Seq(Bytes) /\ Len(c) = n + 11 /\ c[1] = (n + 43) % 256 /\ c[2] = seq /\ c[3] = cmd
      /\ c[n + 4] = BRK /\ c[n + 11] = AMB
      /\ SubSeq(c, 4, n + 3) = data /\ SubSeq(c, n + 5, n + 10) = sta
      /\ n \in Nat
  BY <1>2 DEF AnswerParts
<1>5. /\ f \in Seq(Bytes) /\ Len(f) = Len(c) + 6
      /\ Delimited(f) /\ SumsUp(f) /\ Core(f) = c
  BY <1>4, Whole
<1> HIDE DEF f
<1>6. ParseResponseFrame(f) = [seq |-> seq, cmd |-> cmd, data |-> data, sta |-> sta]
  <2>1. StaLen = 6 /\ Len(f) >= 10 + StaLen + 1
    BY <1>4, <1>5 DEF StaLen
  <2>2. /\ Len(c) - 1 - StaLen = n + 4 /\ n + 4 >= 4 /\ (n + 4) - 1 = n + 3 /\ (n + 4) + 1 = n + 5
        /\ (n + 4) + StaLen = n + 10
    BY <1>4, <2>1
  <2>3. (Len(c) + 32) % 256 = c[1]
    <3>1. Len(c) + 32 = n + 43
      BY <1>4
    <3> QED BY <1>4, <3>1
  <2>4. Last(c) = AMB
    BY <1>4 DEF Last
  <2>5. /\ Len(f) >= 10 + StaLen + 1 /\ Delimited(f) /\ SumsUp(f) /\ Core(f) = c
        /\ (Len(c) + 32) % 256 = c[1] /\ Last(c) = AMB
    BY <1>5, <2>1, <2>3, <2>4
  <2>6. Len(c) - 1 - StaLen >= 4 /\ c[Len(c) - 1 - StaLen] = BRK
    BY <1>4, <2>2
  <2>7. /\ SubSeq(c, 4, Len(c) - 1 - StaLen - 1) = data
        /\ SubSeq(c, Len(c) - 1 - StaLen + 1, Len(c) - 1 - StaLen + StaLen) = sta
    BY <1>4, <2>2
  <2> QED BY <1>4, <2>5, <2>6, <2>7 DEF ParseResponseFrame
<1>7. \A at \in 1..Len(f), byte \in Bytes : f[at] # byte => ParseResponseFrame([f EXCEPT ![at] = byte]) = Refused
  <2> SUFFICES ASSUME NEW at \in 1..Len(f), NEW byte \in Bytes, f[at] # byte
               PROVE  ParseResponseFrame([f EXCEPT ![at] = byte]) = Refused
    OBVIOUS
  <2> DEFINE g == [f EXCEPT ![at] = byte]
  <2>1. ~Delimited(g) \/ ~SumsUp(g)
    BY <1>4, Corrupted DEF f
  <2> HIDE DEF g
  <2>2. ParseResponseFrame(g) = Refused
    BY <2>1 DEF ParseResponseFrame
  <2> QED BY <2>2 DEF g
<1> QED BY <1>3, <1>6, <1>7

(* The status, the subtotal and the normalized invoice.                                *)
LEMMA StatusIsRead == \A p : StatusRead(p)
<1> SUFFICES ASSUME NEW p PROVE StatusRead(p)
  OBVIOUS
<1> DEFINE sta == <<128, 128, p.byte, 128, 128, 128>>
<1>1. Len(sta) = 6 /\ <<2, 3>> \in StatusBits /\ <<2, 3>>[1] = 2 /\ <<2, 3>>[2] = 3
  BY DEF StatusBits
<1> HIDE DEF sta
<1>2. <<2, 3>> \in StatusFlags(sta) <=> 2 < Len(sta) /\ Bit(sta[2 + 1], 3)
  BY <1>1 DEF StatusFlags
<1>3. Len(sta) > 2 /\ 2 < Len(sta) /\ 2 + 1 = 3
  BY <1>1
<1>4. InvoiceOpen(sta) <=> <<2, 3>> \in StatusFlags(sta)
  BY <1>2, <1>3 DEF InvoiceOpen
<1> QED BY <1>4 DEF StatusRead, sta

LEMMA NormalizedIsRead ==
  ASSUME NEW p, p \in NormalizedProbes
  PROVE  NormalizedRead(p)
<1> DEFINE sig == [what |-> "sig", looksLikeSig |-> TRUE]
           fn == p.fn
<1>1. p.fn \in Names /\ p.swapped \in BOOLEAN /\ p.expected \in BOOLEAN
  BY DEF NormalizedProbes
<1>2. fn # sig /\ sig.looksLikeSig = TRUE /\ fn.looksLikeSig \in BOOLEAN
  BY <1>1 DEF Names
<1> HIDE DEF sig, fn
<1>3. /\ ParseNormalized(sig, fn, {fn}) = [fn |-> fn, sig |-> sig]
      /\ ParseNormalized(fn, sig, {fn}) = [fn |-> fn, sig |-> sig]
  BY <1>2 DEF ParseNormalized
<1>4. ~fn.looksLikeSig => /\ ParseNormalized(sig, fn, {}) = [fn |-> fn, sig |-> sig]
                          /\ ParseNormalized(fn, sig, {}) = [fn |-> fn, sig |-> sig]
  BY <1>2 DEF ParseNormalized
<1>5. p.expected \/ ~fn.looksLikeSig =>
        ParseNormalized(IF p.swapped THEN sig ELSE fn, IF p.swapped THEN fn ELSE sig, IF p.expected THEN {fn} ELSE {})
          = [fn |-> fn, sig |-> sig]
  BY <1>1, <1>3, <1>4
<1> QED BY <1>5 DEF NormalizedRead, fn, sig


(* The answer has 2 g + 3 fields, or 2 g + 4: never both, so one layout fits.          *)
Fitting(n) == {l \in Layouts : (n - l.extra) % 2 = 0 /\ (n - l.extra) \div 2 \in 16..26}
SpecLayout == [name |-> "spec", base |-> 1, extra |-> 3]
EltradeLayout == [name |-> "eltrade", base |-> 2, extra |-> 4]

LEMMA OneLayoutFits ==
  ASSUME NEW g \in 16..26
  PROVE  Fitting(2 * g + 3) = {SpecLayout} /\ Fitting(2 * g + 4) = {EltradeLayout}
<1>1. Layouts = {SpecLayout, EltradeLayout} /\ SpecLayout.extra = 3 /\ EltradeLayout.extra = 4 /\ SpecLayout # EltradeLayout
  BY DEF Layouts, SpecLayout, EltradeLayout
<1>2. /\ ((2 * g + 3) - 3) % 2 = 0 /\ ((2 * g + 3) - 3) \div 2 \in 16..26 /\ ((2 * g + 3) - 4) % 2 # 0
      /\ ((2 * g + 4) - 4) % 2 = 0 /\ ((2 * g + 4) - 4) \div 2 \in 16..26 /\ ((2 * g + 4) - 3) % 2 # 0
  OBVIOUS
<1>3. Fitting(2 * g + 3) = {SpecLayout}
  <2>1. \A l : l \in Fitting(2 * g + 3) <=>
               (l = SpecLayout \/ l = EltradeLayout) /\ ((2 * g + 3) - l.extra) % 2 = 0 /\ ((2 * g + 3) - l.extra) \div 2 \in 16..26
    BY <1>1 DEF Fitting
  <2>2. \A l : l \in Fitting(2 * g + 3) <=> l = SpecLayout
    BY <1>1, <1>2, <2>1
  <2> QED BY <2>2, Zenon
<1>4. Fitting(2 * g + 4) = {EltradeLayout}
  <2>1. \A l : l \in Fitting(2 * g + 4) <=>
               (l = SpecLayout \/ l = EltradeLayout) /\ ((2 * g + 4) - l.extra) % 2 = 0 /\ ((2 * g + 4) - l.extra) \div 2 \in 16..26
    BY <1>1 DEF Fitting
  <2>2. \A l : l \in Fitting(2 * g + 4) <=> l = EltradeLayout
    BY <1>1, <1>2, <2>1
  <2> QED BY <2>2, Zenon
<1> QED BY <1>3, <1>4

LEMMA OnlyLayout ==
  ASSUME NEW n \in Int, NEW l, Fitting(n) = {l}, NEW known
  PROVE  SubtotalLayout(n, known)
           = [base |-> l.base, groups |-> (n - l.extra) \div 2, mt |-> l.name = "eltrade"]
<1> DEFINE agree == {x \in Fitting(n) : (n - x.extra) \div 2 = known}
           chosen == IF agree # {} THEN CHOOSE x \in agree : TRUE ELSE CHOOSE x \in Fitting(n) : TRUE
<1>1. agree # {} => (CHOOSE x \in agree : TRUE) = l
  <2>1. \A x \in agree : x = l
    OBVIOUS
  <2> HIDE DEF agree
  <2>2. agree # {} => (CHOOSE x \in agree : TRUE) \in agree
    OBVIOUS
  <2> QED BY <2>1, <2>2
<1>2. (CHOOSE x \in Fitting(n) : TRUE) = l
  OBVIOUS
<1>3. chosen = l
  BY <1>1, <1>2
<1>4. SubtotalLayout(n, known)
        = [base |-> chosen.base, groups |-> (n - chosen.extra) \div 2, mt |-> chosen.name = "eltrade"]
  <2>1. Fitting(n) # {}
    OBVIOUS
  <2> QED BY <2>1, Zenon DEF SubtotalLayout, Fitting
<1> HIDE DEF chosen
<1> QED BY <1>3, <1>4

LEMMA Tabulated ==
  ASSUME NEW S, NEW n \in Nat, NEW b, b \in [1..n -> S]
  PROVE  b \in Seq(S) /\ Len(b) = n
<1>1. b \in Seq(S)
  BY SeqDef
<1>2. DOMAIN b = 1..n
  OBVIOUS
<1> QED BY <1>1, <1>2, LenProperties

(* The fields of the answer, by their place.                                           *)
Places(f, g, o) ==
  /\ Len(f) = 2 * g + o + 3 /\ f[1] = "mv" /\ f[2 * g + o + 2] = "mts" /\ f[2 * g + o + 3] = "mcur"
  /\ \A i \in 1..g : f[o + 1 + i] = <<"total", i>>
  /\ \A i \in 1..g : f[o + 1 + g + i] = <<"vat", i>>

Joint(c, S, a, m, b, n) ==
  /\ c \in Seq(S) /\ Len(c) = m + n
  /\ \A k \in 1..m : c[k] = a[k]
  /\ \A k \in 1..n : c[m + k] = b[k]

LEMMA JointIs ==
  ASSUME NEW S, NEW a, a \in Seq(S), NEW b, b \in Seq(S), NEW m \in Nat, Len(a) = m, NEW n \in Nat, Len(b) = n
  PROVE  Joint(a \o b, S, a, m, b, n)
BY DEF Joint

LEMMA SubtotalIs ==
  ASSUME NEW g \in 16..26, NEW eltrade \in BOOLEAN
  PROVE  /\ Places(Subtotal(g, eltrade), g, IF eltrade THEN 1 ELSE 0)
         /\ eltrade => Subtotal(g, eltrade)[2] = "mt"
<1> DEFINE S == {"mv", "mt", "mts", "mcur"} \cup ({"total", "vat"} \X (1..g))
           o == IF eltrade THEN 1 ELSE 0
           a == <<"mv">>
           m == IF eltrade THEN <<"mt">> ELSE <<>>
           t == [i \in 1..g |-> <<"total", i>>]
           v == [i \in 1..g |-> <<"vat", i>>]
           e == <<"mts", "mcur">>
           p == a \o m
           q == p \o t
           r == q \o v
           f == r \o e
<1>1. g \in Nat /\ o \in Nat
  OBVIOUS
<1>2. "mv" \in S /\ "mt" \in S /\ "mts" \in S /\ "mcur" \in S /\ \A i \in 1..g : <<"total", i>> \in S /\ <<"vat", i>> \in S
  OBVIOUS
<1>3. t \in [1..g -> S] /\ v \in [1..g -> S]
  BY <1>2
<1>4. /\ \A i \in 1..g : t[i] = <<"total", i>>
      /\ \A i \in 1..g : v[i] = <<"vat", i>>
  OBVIOUS
<1> HIDE DEF S, t, v
<1>5. t \in Seq(S) /\ Len(t) = g /\ v \in Seq(S) /\ Len(v) = g
  BY <1>1, <1>3, Tabulated
<1>6. a \in Seq(S) /\ Len(a) = 1 /\ a[1] = "mv"
  BY <1>2, One
<1>7. m \in Seq(S) /\ Len(m) = o /\ (eltrade => m[1] = "mt")
  BY <1>2, One
<1>8. e \in Seq(S) /\ Len(e) = 2 /\ e[1] = "mts" /\ e[2] = "mcur"
  BY <1>2, Two
<1>9. Subtotal(g, eltrade) = f
  BY Zenon DEF Subtotal, t, v
<1>10. (eltrade => o = 1) /\ (~eltrade => o = 0)
  OBVIOUS
<1> HIDE DEF a, m, e, o
<1>11. /\ p \in Seq(S) /\ Len(p) = 1 + o /\ \A k \in 1..1 : p[k] = a[k]
       /\ \A k \in 1..o : p[1 + k] = m[k]
  <2>1. 1 \in Nat /\ o \in Nat /\ a \in Seq(S) /\ Len(a) = 1 /\ m \in Seq(S) /\ Len(m) = o
    BY <1>1, <1>6, <1>7
  <2>2. Joint(p, S, a, 1, m, o)
    BY <2>1, JointIs
  <2> HIDE DEF p
  <2> QED BY <2>2 DEF Joint
<1> HIDE DEF p
<1>12. 1 + o \in Nat /\ 1 + o + g \in Nat /\ 1 + o + g + g \in Nat /\ 2 \in Nat
  BY <1>1
<1>13. /\ q \in Seq(S) /\ Len(q) = 1 + o + g /\ \A k \in 1..1 + o : q[k] = p[k]
       /\ \A k \in 1..g : q[1 + o + k] = t[k]
  <2>1. 1 + o \in Nat /\ g \in Nat /\ p \in Seq(S) /\ Len(p) = 1 + o /\ t \in Seq(S) /\ Len(t) = g
    BY <1>1, <1>5, <1>11, <1>12
  <2>2. Joint(q, S, p, 1 + o, t, g)
    BY <2>1, JointIs
  <2> HIDE DEF q
  <2> QED BY <2>2 DEF Joint
<1> HIDE DEF q
<1>14. /\ r \in Seq(S) /\ Len(r) = 1 + o + g + g /\ \A k \in 1..1 + o + g : r[k] = q[k]
       /\ \A k \in 1..g : r[1 + o + g + k] = v[k]
  <2>1. 1 + o + g \in Nat /\ g \in Nat /\ q \in Seq(S) /\ Len(q) = 1 + o + g /\ v \in Seq(S) /\ Len(v) = g
    BY <1>1, <1>5, <1>13, <1>12
  <2>2. Joint(r, S, q, 1 + o + g, v, g)
    BY <2>1, JointIs
  <2> HIDE DEF r
  <2> QED BY <2>2 DEF Joint
<1> HIDE DEF r
<1>15. /\ f \in Seq(S) /\ Len(f) = 1 + o + g + g + 2 /\ \A k \in 1..1 + o + g + g : f[k] = r[k]
       /\ \A k \in 1..2 : f[1 + o + g + g + k] = e[k]
  <2>1. 1 + o + g + g \in Nat /\ 2 \in Nat /\ r \in Seq(S) /\ Len(r) = 1 + o + g + g /\ e \in Seq(S) /\ Len(e) = 2
    BY <1>8, <1>14, <1>12
  <2>2. Joint(f, S, r, 1 + o + g + g, e, 2)
    BY <2>1, JointIs
  <2> HIDE DEF f
  <2> QED BY <2>2 DEF Joint
<1> HIDE DEF f
<1>16. f[1] = "mv"
  <2>1. 1 \in 1..1 + o + g + g /\ 1 \in 1..1 + o + g /\ 1 \in 1..1 + o /\ 1 \in 1..1
    BY <1>1
  <2> QED BY <1>6, <1>11, <1>13, <1>14, <1>15, <2>1
<1>17. eltrade => f[2] = "mt"
  <2> SUFFICES ASSUME eltrade PROVE f[2] = "mt"
    OBVIOUS
  <2>1. 2 \in 1..1 + o + g + g /\ 2 \in 1..1 + o + g /\ 2 \in 1..1 + o /\ 1 \in 1..o /\ 1 + 1 = 2
    BY <1>1, <1>10
  <2>2. p[1 + 1] = m[1]
    BY <1>11, <2>1
  <2> QED BY <1>7, <1>13, <1>14, <1>15, <2>1, <2>2
<1>18. f[2 * g + o + 2] = "mts" /\ f[2 * g + o + 3] = "mcur" /\ Len(f) = 2 * g + o + 3
  <2>1. 1 + o + g + g + 1 = 2 * g + o + 2 /\ 1 + o + g + g + 2 = 2 * g + o + 3 /\ 1 \in 1..2 /\ 2 \in 1..2
    BY <1>1
  <2>2. f[1 + o + g + g + 1] = e[1] /\ f[1 + o + g + g + 2] = e[2]
    BY <1>15, <2>1
  <2> QED BY <1>8, <1>15, <2>1, <2>2
<1>19. \A i \in 1..g : f[o + 1 + i] = <<"total", i>>
  <2> TAKE i \in 1..g
  <2>1. 1 + o + i \in 1..1 + o + g + g /\ 1 + o + i \in 1..1 + o + g /\ 1 + o + i = o + 1 + i
    BY <1>1
  <2>2. q[1 + o + i] = t[i]
    BY <1>13
  <2>3. f[1 + o + i] = r[1 + o + i] /\ r[1 + o + i] = q[1 + o + i]
    BY <1>14, <1>15, <2>1
  <2> QED BY <1>4, <2>1, <2>2, <2>3
<1>20. \A i \in 1..g : f[o + 1 + g + i] = <<"vat", i>>
  <2> TAKE i \in 1..g
  <2>1. 1 + o + g + i \in 1..1 + o + g + g /\ 1 + o + g + i = o + 1 + g + i
    BY <1>1
  <2>2. r[1 + o + g + i] = v[i]
    BY <1>14
  <2>3. f[1 + o + g + i] = r[1 + o + g + i]
    BY <1>15, <2>1
  <2> QED BY <1>4, <2>1, <2>2, <2>3
<1> QED BY <1>9, <1>16, <1>17, <1>18, <1>19, <1>20 DEF Places, o

LEMMA SubtotalIsRead ==
  ASSUME NEW p, p \in SubtotalProbes
  PROVE  SubtotalRead(p)
<1> DEFINE g == p.groups
           o == IF p.eltrade THEN 1 ELSE 0
           f == Subtotal(g, p.eltrade)
           y == IF p.eltrade THEN EltradeLayout ELSE SpecLayout
           l == SubtotalLayout(Len(f), p.known)
           At(i) == f[i + 1]
<1>1. g \in 16..26 /\ p.eltrade \in BOOLEAN /\ g \in Nat /\ o \in Nat
  BY DEF SubtotalProbes
<1>2. Places(f, g, o) /\ (p.eltrade => f[2] = "mt")
  BY <1>1, SubtotalIs
<1> HIDE DEF f
<1>3. /\ Len(f) = 2 * g + o + 3 /\ f[1] = "mv" /\ f[2 * g + o + 2] = "mts" /\ f[2 * g + o + 3] = "mcur"
      /\ \A i \in 1..g : f[o + 1 + i] = <<"total", i>>
      /\ \A i \in 1..g : f[o + 1 + g + i] = <<"vat", i>>
  BY <1>2 DEF Places
<1>4. Len(f) \in Int /\ Fitting(Len(f)) = {y} /\ y.base = o + 1 /\ y.extra = o + 3 /\ (y.name = "eltrade" <=> p.eltrade)
  <2>1. CASE p.eltrade
    <3>1. Len(f) = 2 * g + 4
      BY <1>1, <1>3, <2>1
    <3>2. y = EltradeLayout /\ Fitting(Len(f)) = {EltradeLayout}
      BY <1>1, <2>1, <3>1, OneLayoutFits
    <3> QED BY <1>1, <2>1, <3>1, <3>2 DEF EltradeLayout
  <2>2. CASE ~p.eltrade
    <3>1. Len(f) = 2 * g + 3
      BY <1>1, <1>3, <2>2
    <3>2. y = SpecLayout /\ Fitting(Len(f)) = {SpecLayout}
      BY <1>1, <2>2, <3>1, OneLayoutFits
    <3> QED BY <1>1, <2>2, <3>1, <3>2 DEF SpecLayout
  <2> QED BY <1>1, <2>1, <2>2
<1>5. (Len(f) - y.extra) \div 2 = g
  <2>1. Len(f) - (o + 3) = 2 * g
    BY <1>1, <1>3
  <2>2. (2 * g) \div 2 = g
    BY <1>1
  <2> QED BY <1>4, <2>1, <2>2
<1> HIDE DEF y
<1>6. l = [base |-> o + 1, groups |-> g, mt |-> p.eltrade]
  <2>1. l = [base |-> y.base, groups |-> (Len(f) - y.extra) \div 2, mt |-> y.name = "eltrade"]
    BY <1>4, OnlyLayout
  <2>2. (y.name = "eltrade") = p.eltrade
    BY <1>1, <1>4
  <2> QED BY <1>4, <1>5, <2>1, <2>2
<1> HIDE DEF l
<1>7. l # Refused
  <2>1. DOMAIN l = {"base", "groups", "mt"} /\ DOMAIN Refused = {"error"}
    BY <1>6 DEF Refused
  <2> QED BY <2>1
<1>8. l.base = o + 1 /\ l.groups = g /\ l.mt = p.eltrade
  BY <1>6
<1>9. ParseSubtotal(f, p.known)
        = [mv |-> At(0), mt |-> IF l.mt THEN At(1) ELSE "sum",
           total |-> [i \in 1..l.groups |-> At(l.base + i - 1)],
           vat |-> [i \in 1..l.groups |-> At(l.base + l.groups + i - 1)],
           mts |-> At(l.base + 2 * l.groups), mcur |-> At(l.base + 2 * l.groups + 1)]
  BY <1>7, Zenon DEF ParseSubtotal, l
<1>10. At(0) = "mv" /\ (p.eltrade => At(1) = "mt")
  BY <1>2, <1>3
<1>11. At(l.base + 2 * l.groups) = "mts" /\ At(l.base + 2 * l.groups + 1) = "mcur"
  <2>1. (o + 1) + 2 * g + 1 = 2 * g + o + 2 /\ ((o + 1) + 2 * g + 1) + 1 = 2 * g + o + 3
    BY <1>1
  <2> QED BY <1>3, <1>8, <2>1
<1>12. [i \in 1..l.groups |-> At(l.base + i - 1)] = [i \in 1..g |-> <<"total", i>>]
  <2>1. \A i \in 1..g : At((o + 1) + i - 1) = <<"total", i>>
    <3> TAKE i \in 1..g
    <3>1. ((o + 1) + i - 1) + 1 = o + 1 + i
      BY <1>1
    <3> QED BY <1>3, <3>1
  <2> HIDE DEF At
  <2> QED BY <1>8, <2>1
<1>13. [i \in 1..l.groups |-> At(l.base + l.groups + i - 1)] = [i \in 1..g |-> <<"vat", i>>]
  <2>1. \A i \in 1..g : At((o + 1) + g + i - 1) = <<"vat", i>>
    <3> TAKE i \in 1..g
    <3>1. ((o + 1) + g + i - 1) + 1 = o + 1 + g + i
      BY <1>1
    <3> QED BY <1>3, <3>1
  <2> HIDE DEF At
  <2> QED BY <1>8, <2>1
<1> HIDE DEF At
<1>14. ParseSubtotal(f, p.known)
         = [mv |-> "mv", mt |-> IF p.eltrade THEN "mt" ELSE "sum",
            total |-> [i \in 1..p.groups |-> <<"total", i>>],
            vat |-> [i \in 1..p.groups |-> <<"vat", i>>], mts |-> "mts", mcur |-> "mcur"]
  <2>1. (IF l.mt THEN At(1) ELSE "sum") = (IF p.eltrade THEN "mt" ELSE "sum")
    BY <1>1, <1>8, <1>10
  <2> QED BY <1>9, <1>10, <1>11, <1>12, <1>13, <2>1, Zenon DEF g
<1> QED BY <1>14 DEF SubtotalRead, f, g

(* A frame of any sequence number and any data, one wrong byte at any place.           *)
LEMMA FrameIsRead ==
  ASSUME NEW p, p.seq \in 32..255, p.data \in Seq(Bytes), Len(p.data) <= MaxData, p.at \in Nat \ {0}, p.byte \in Bytes
  PROVE  FrameRead(p)
<1> DEFINE seq == p.seq
           data == p.data
           sta == <<128, 128, 136, 128, 128, 128>>
           command == BuildFrame(seq, 49, data)
           answer == AnswerFrame(seq, 49, data, sta)
<1>1. seq \in 32..255 /\ 49 \in 0..255 /\ data \in Seq(Bytes) /\ Len(data) <= MaxData /\ seq \in Bytes /\ 49 \in Bytes
  BY DEF Bytes
<1>2. sta \in Seq(Bytes) /\ Len(sta) = 6
  <2>1. 128 \in Bytes /\ 136 \in Bytes
    BY DEF Bytes
  <2> QED BY <2>1
<1> HIDE DEF sta, seq, data
<1>3. /\ ParseCommandFrame(command) = [seq |-> seq, cmd |-> 49, data |-> data]
      /\ \A at \in 1..Len(command), byte \in Bytes :
           command[at] # byte => ParseCommandFrame([command EXCEPT ![at] = byte]) = Refused
  <2>1. PICK cmd \in 0..255 : cmd = 49
    BY <1>1
  <2>2. CommandSafe(seq, cmd, data)
    BY <1>1, CommandIsSafe
  <2> QED BY <2>1, <2>2 DEF CommandSafe
<1>4. /\ ParseResponseFrame(answer) = [seq |-> seq, cmd |-> 49, data |-> data, sta |-> sta]
      /\ \A at \in 1..Len(answer), byte \in Bytes :
           answer[at] # byte => ParseResponseFrame([answer EXCEPT ![at] = byte]) = Refused
  BY <1>1, <1>2, EveryAnswerIsRead
<1>5. /\ (p.at <= Len(command) => p.at \in 1..Len(command))
      /\ (p.at <= Len(answer) => p.at \in 1..Len(answer))
  <2>1. Len(command) \in Nat /\ Len(answer) \in Nat
    <3>1. CommandParts(CommandCore(seq, 49, data), seq, 49, data)
      BY <1>1, CommandIs
    <3>2. CommandCore(seq, 49, data) \in Seq(Bytes)
      BY <3>1 DEF CommandParts
    <3>3. AnswerParts(AnswerCore(seq, 49, data, sta), seq, 49, data, sta)
      BY <1>1, <1>2, AnswerIs
    <3>4. AnswerCore(seq, 49, data, sta) \in Seq(Bytes)
      BY <3>3 DEF AnswerParts
    <3>5. command = Wrapped(CommandCore(seq, 49, data))
      <4>1. ~(seq \notin 32..255 \/ 49 \notin 0..255 \/ Len(data) > MaxData)
        <5>1. Len(data) \in Nat /\ MaxData \in Nat
          BY <1>1 DEF MaxData
        <5> QED BY <1>1, <5>1
      <4> QED BY <4>1, Zenon DEF BuildFrame, CommandCore
    <3>6. answer = Wrapped(AnswerCore(seq, 49, data, sta))
      BY Zenon DEF AnswerFrame, AnswerCore, AnswerBody
    <3>7. Wrapped(CommandCore(seq, 49, data)) \in Seq(Bytes) /\ Wrapped(AnswerCore(seq, 49, data, sta)) \in Seq(Bytes)
      BY <3>2, <3>4, Whole
    <3>8. command \in Seq(Bytes) /\ answer \in Seq(Bytes)
      BY <3>5, <3>6, <3>7
    <3> HIDE DEF command, answer
    <3> QED BY <3>8, LenProperties
  <2> HIDE DEF command, answer
  <2> QED BY <2>1
<1> HIDE DEF command, answer
<1>6. /\ p.at <= Len(command) /\ command[p.at] # p.byte => ParseCommandFrame([command EXCEPT ![p.at] = p.byte]) = Refused
      /\ p.at <= Len(answer) /\ answer[p.at] # p.byte => ParseResponseFrame([answer EXCEPT ![p.at] = p.byte]) = Refused
  BY <1>3, <1>4, <1>5
<1> QED BY <1>3, <1>4, <1>6, Zenon DEF FrameRead, command, answer, sta, seq, data


----
(* The probes of the run are such inputs.                                             *)

Probed ==
  \/ probe = NoProbe
  \/ probe \in FrameProbes \/ probe \in StatusProbes
  \/ probe \in SubtotalProbes \/ probe \in NormalizedProbes
  \/ probe \in DiagnosisProbes
  \/ probe \in LineProbes \/ probe \in CeilProbes \/ probe \in PaymentProbes
  \/ probe \in CreditProbes \/ probe \in SaleProbes
  \/ probe \in SourceProbes \/ probe \in RouteProbes

LEMMA ProbeStays == FunctionsSpec => []Probed
<1>1. FunctionsInit => Probed
  BY Zenon DEF FunctionsInit, Probed
<1>2. Probed /\ [probe = NoProbe /\ ReportsNext /\ UNCHANGED probe]_<<reportVars, probe>> => Probed'
  <2> SUFFICES ASSUME Probed, probe' = probe PROVE Probed'
    OBVIOUS
  <2> QED BY DEF Probed
<1> QED BY <1>1, <1>2, PTL DEF FunctionsSpec

(* The kind of a probe tells its set.                                                  *)
LEMMA KindsOfFrames ==
  /\ NoProbe.kind = "reports"
  /\ \A p \in FrameProbes : p.kind = "frame"
  /\ \A p \in StatusProbes : p.kind = "status"
  /\ \A p \in SubtotalProbes : p.kind = "subtotal"
  /\ \A p \in NormalizedProbes : p.kind = "normalized"
BY DEF NoProbe, FrameProbes, StatusProbes, SubtotalProbes, NormalizedProbes

LEMMA KindOfDiagnoses == \A p \in DiagnosisProbes : p.kind = "diagnosis"
BY DEF DiagnosisProbes

LEMMA KindsOfAmounts ==
  /\ \A p \in LineProbes : p.kind = "lines"
  /\ \A p \in CeilProbes : p.kind = "ceil"
  /\ \A p \in PaymentProbes : p.kind = "payments"
<1>1. \A p \in LineProbes : p.kind = "lines"
  BY DEF LineProbes
<1>2. \A p \in CeilProbes : p.kind = "ceil"
  BY DEF CeilProbes
<1>3. \A p \in PaymentProbes : p.kind = "payments"
  <2> DEFINE G == {-101, -100, -1, 0, 1, 100, 101}
             E == [total : {1000}, payments : BoundedSeq(PaymentLines, 2), selected : {""}, schedule : {<<>>}]
                  \cup [total : {1000}, payments : {<<>>}, selected : {"", "VIREMENT"}, schedule : BoundedSeq(PaymentLines, 2)]
  <2>1. PaymentProbes = [kind : {"payments"}, gap : G, doc : E]
    BY Zenon DEF PaymentProbes
  <2> HIDE DEF G, E
  <2> QED BY <2>1
<1> QED BY <1>1, <1>2, <1>3

LEMMA KindsOfRules ==
  /\ \A p \in CreditProbes : p.kind = "rules"
  /\ \A p \in SaleProbes : p.kind = "rules"
<1>1. \A p \in CreditProbes : p.kind = "rules"
  BY DEF CreditProbes
<1>2. \A p \in SaleProbes : p.kind = "rules"
  BY DEF SaleProbes
<1> QED BY <1>1, <1>2

LEMMA KindsOfRoutes ==
  /\ \A p \in SourceProbes : p.kind = "sources"
  /\ \A p \in RouteProbes : p.kind = "route"
<1>1. \A p \in SourceProbes : p.kind = "sources"
  BY DEF SourceProbes
<1>2. \A p \in RouteProbes : p.kind = "route"
  BY DEF RouteProbes
<1> QED BY <1>1, <1>2

(* Every one of them is one of the inputs the theorems are about.                      *)
LEMMA RouteProbeIs == \A p \in RouteProbes : p.q \in Configurations
<1> SUFFICES ASSUME NEW p \in RouteProbes PROVE p.q \in Configurations
  OBVIOUS
<1>1. \A k, usb : DefaultChannel(k, usb) \in Channels
  BY DEF DefaultChannel, Channels
<1> QED BY <1>1 DEF RouteProbes, Configurations

Companies == {"c1", "c2", None}

LEMMA SourceProbeIs == \A p \in SourceProbes : p.doc \in Drafts(TwoPvfs, Companies) /\ p.settings \in Sites(TwoPvfs, Companies)
<1> SUFFICES ASSUME NEW p \in SourceProbes PROVE p.doc \in Drafts(TwoPvfs, Companies) /\ p.settings \in Sites(TwoPvfs, Companies)
  OBVIOUS
<1>2. [TwoPvfs -> PvfRecords] \subseteq [TwoPvfs -> [company : Companies, active : BOOLEAN]]
  <2>1. "c1" \in Companies /\ "c2" \in Companies /\ None \in Companies
    BY DEF Companies
  <2>2. \A r \in PvfRecords : r \in [company : Companies, active : BOOLEAN]
    <3>1. \A c \in Companies, yes \in BOOLEAN : [company |-> c, active |-> yes] \in [company : Companies, active : BOOLEAN]
      OBVIOUS
    <3>2. TRUE \in BOOLEAN /\ FALSE \in BOOLEAN
      OBVIOUS
    <3>3. /\ [company |-> "c1", active |-> TRUE] \in [company : Companies, active : BOOLEAN]
          /\ [company |-> None, active |-> TRUE] \in [company : Companies, active : BOOLEAN]
          /\ [company |-> "c1", active |-> FALSE] \in [company : Companies, active : BOOLEAN]
          /\ [company |-> "c2", active |-> TRUE] \in [company : Companies, active : BOOLEAN]
      BY <2>1, <3>1, <3>2, Zenon
    <3> QED BY <3>3, Zenon DEF PvfRecords
  <2> QED BY <2>2
<1>3. p.doc \in Drafts(TwoPvfs, Companies)
  <2>1. "p1" \in TwoPvfs /\ "p2" \in TwoPvfs /\ "c1" \in Companies
    BY DEF TwoPvfs, Companies
  <2>2. \A x, a, b, f, h, w :
          /\ x \in TwoPvfs \cup {None} /\ a \in BOOLEAN /\ b \in BOOLEAN /\ f \in {None, "p1"} /\ h \in {None, "p2"}
          /\ w \subseteq TwoPvfs
          => Draft(x, a, b, f, h, w) \in Drafts(TwoPvfs, Companies)
    BY <2>1 DEF Draft, Drafts
  <2> QED BY <2>2 DEF SourceProbes
<1>4. p.settings \in Sites(TwoPvfs, Companies)
  <2>1. "p1" \in TwoPvfs
    BY DEF TwoPvfs
  <2>2. \A v \in [TwoPvfs -> PvfRecords], e \in {None, "p1"}, u \in BOOLEAN, m \in {"Bloquer", "Avertir"} :
          Site(v, e, u, m) \in Sites(TwoPvfs, Companies)
    BY <1>2, <2>1 DEF Site, Sites
  <2> QED BY <2>2 DEF SourceProbes
<1> QED BY <1>3, <1>4

LEMMA ReadingOf ==
  ASSUME NEW o \in Observations
  PROVE  \E e \in BOOLEAN, i \in ReadNids, c \in {1, 2}, f \in ReadNifs, s \in States : o = Reading(e, i, c, f, s)
<1>1. o \in AnyReading
  BY DEF Observations
<1> QED BY <1>1 DEF AnyReading

LEMMA DiagnosisProbeIs ==
  ASSUME NEW p \in DiagnosisProbes
  PROVE  DiagnosisTells(p.obs, p.dev, p.nid)
<1> DEFINE N == {"", "n1", "n2"}
           K == {0, 1, 2}
           F == ReadNifs
           S == {"Actif", "A revalider", "Suspendu", "Active", "A approuver"}
<1>1. PICK o \in Observations, d \in DeviceRecords, n \in ExpectedNids :
        p = [kind |-> "diagnosis", obs |-> o, dev |-> d, nid |-> n]
  BY DEF DiagnosisProbes
<1>2. o \in Readings(N, K, F)
  <2>1. PICK e \in BOOLEAN, i \in ReadNids, c \in {1, 2}, f \in ReadNifs, s \in States : o = Reading(e, i, c, f, s)
    BY ReadingOf
  <2>2. s \in [rates : BOOLEAN, alert : BOOLEAN, clock : {"none", "near", "far"}, dgi : {"none", "error", "CON", "DIS"},
               old : BOOLEAN, unsent : BOOLEAN]
    <3> DEFINE R == [rates : BOOLEAN, alert : BOOLEAN, clock : {"none", "near", "far"},
                     dgi : {"none", "error", "CON", "DIS"}, old : BOOLEAN, unsent : BOOLEAN]
    <3>1. Sound \in R
      BY DEF Sound
    <3>2. /\ [Sound EXCEPT !.rates = TRUE] \in R /\ [Sound EXCEPT !.alert = TRUE] \in R
          /\ [Sound EXCEPT !.clock = "far"] \in R /\ [Sound EXCEPT !.clock = "none", !.dgi = "none"] \in R
      BY <3>1
    <3>3. /\ [Sound EXCEPT !.dgi = "error"] \in R
          /\ [Sound EXCEPT !.dgi = "DIS", !.old = TRUE] \in R /\ [Sound EXCEPT !.unsent = TRUE] \in R
      BY <3>1
    <3> HIDE DEF R
    <3>4. s \in R
      BY <3>1, <3>2, <3>3 DEF States
    <3> QED BY <3>4 DEF R
  <2>3. e \in BOOLEAN /\ i \in N /\ c \in K /\ f \in F
    BY DEF ReadNids
  <2> HIDE DEF N, K, F
  <2> QED BY <2>1, <2>2, <2>3 DEF Readings, Reading
<1>3. d \in Devices(K, F, S)
  <2>1. d.stations \in SUBSET [status : S, online : BOOLEAN]
    <3>1. d.stations \in Stations
      BY DEF DeviceRecords
    <3> QED BY <3>1 DEF Stations
  <2>2. {NoNif, Ours, Spaced} \subseteq F
    BY DEF ReadNifs
  <2> HIDE DEF K, F, S
  <2>3. {0, 1} \subseteq K /\ {"Actif", "A revalider", "Suspendu"} \subseteq S
    BY DEF K, S
  <2> QED BY <2>1, <2>2, <2>3 DEF DeviceRecords, Devices
<1>4. p.obs = o /\ p.dev = d
  BY <1>1
<1> HIDE DEF N, K, F, S
<1>5. DiagnosisTells(o, d, p.nid)
  BY <1>2, <1>3, EveryDiagnosisTells
<1> QED BY <1>4, <1>5

LEMMA RulesProbeIs == \A p \in CreditProbes \cup SaleProbes : Linkable(p.invoice) /\ Mapped(p.settings)
<1>1. Linkable(BaseInvoice) /\ BaseInvoice.client = "" /\ BaseInvoice.customer = "" /\ BaseInvoice.linked = "no"
  BY DEF Linkable, BaseInvoice
<1>2. Mapped(BaseSettings)
  <2>1. PICK x, y, z : BaseSettings.clientMap = {x, y, z} /\ {x.type, y.type, z.type} \subseteq {"PP", "PM", "AO"}
    <3> DEFINE x == [native |-> "Individual", type |-> "PP", default |-> TRUE]
               y == [native |-> "Individual", type |-> "AO", default |-> FALSE]
               z == [native |-> "Company", type |-> "PM", default |-> FALSE]
    <3>1. BaseSettings.clientMap = {x, y, z}
      BY DEF BaseSettings
    <3>2. x.type = "PP" /\ y.type = "AO" /\ z.type = "PM"
      OBVIOUS
    <3> HIDE DEF x, y, z
    <3> QED BY <3>1, <3>2
  <2>2. IsFiniteSet(BaseSettings.clientMap)
    <3>1. \A a, b, c : IsFiniteSet({a, b, c})
      <4> TAKE a, b, c
      <4>1. IsFiniteSet({}) /\ {a, b, c} = {a, b} \cup {c} /\ {a, b} = {a} \cup {b} /\ {a} = {} \cup {a}
        BY FS_EmptySet
      <4>2. IsFiniteSet({a})
        BY <4>1, FS_AddElement
      <4>3. IsFiniteSet({a, b})
        BY <4>1, <4>2, FS_AddElement
      <4> QED BY <4>1, <4>3, FS_AddElement
    <3>2. IsFiniteSet({x, y, z})
      BY <3>1
    <3> QED BY <2>1, <3>2, Zenon
  <2> QED BY <2>1, <2>2 DEF Mapped, ClientTypes
<1>3. ASSUME NEW p \in CreditProbes PROVE Linkable(p.invoice) /\ Mapped(p.settings)
  <2>1. PICK m \in ControlModes, t \in OrEmpty({"FV", "EA"}), ret \in BOOLEAN,
             n \in OrEmpty({"COR", "RAN", "RRR"}), l \in {"no", "coded", "uncoded"},
             r \in OrEmpty({"code", "other", "RRR", "short"}), i \in BOOLEAN, o \in BOOLEAN :
          p = [kind |-> "rules", settings |-> Controlled(m), invoice |-> Returned(t, ret, n, l, r, i, o)]
    BY DEF CreditProbes
  <2>2. p.settings = Controlled(m) /\ p.invoice = Returned(t, ret, n, l, r, i, o)
    BY <2>1
  <2>3. p.settings.clientMap = BaseSettings.clientMap
    BY <2>2 DEF Controlled
  <2>4. p.invoice.client = BaseInvoice.client /\ p.invoice.customer = BaseInvoice.customer /\ p.invoice.linked = l
    BY <2>2 DEF Returned, BaseInvoice
  <2> QED BY <1>1, <1>2, <2>3, <2>4 DEF Linkable, Mapped
<1>4. ASSUME NEW p \in SaleProbes PROVE Linkable(p.invoice) /\ Mapped(p.settings)
  <2>1. PICK m \in {"Off", "Enforce"}, cp \in {"A", "letter", "off"}, t \in {"FV", "FT"}, i \in {"BIE", "SER"},
             g \in OrEmpty({"T1", "T2"}), n \in {"Individual", "Company"}, c \in OrEmpty({"AO", "PM"}),
             k \in OrEmpty({"AO"}), a \in BOOLEAN, cur \in {"CDF", "USD", "EUR"}, pay \in {"CHEQUES", "CREDIT"} :
          p = [kind |-> "rules", settings |-> Governed(m, cp), invoice |-> Sold(t, i, g, n, c, k, a, cur, pay)]
    BY DEF SaleProbes
  <2>2. p.settings = Governed(m, cp) /\ p.invoice = Sold(t, i, g, n, c, k, a, cur, pay)
    BY <2>1
  <2>3. p.settings.clientMap = BaseSettings.clientMap
    BY <2>2 DEF Governed
  <2>4. p.invoice.client = c /\ p.invoice.customer = k /\ p.invoice.linked = BaseInvoice.linked
    BY <2>2 DEF Sold, BaseInvoice
  <2>5. c \in ClientTypes \cup {""} /\ k \in ClientTypes \cup {""}
    BY DEF OrEmpty, ClientTypes
  <2> QED BY <1>1, <1>2, <2>3, <2>4, <2>5 DEF Linkable, Mapped
<1> QED BY <1>3, <1>4

LEMMA LineIs ==
  ASSUME NEW net \in Nat, NEW qty \in Positive, NEW more \in Int, NEW g \in {"A", "B", "C", "N"},
         NEW t \in {"none", "unit", "percent"}, NEW d \in BOOLEAN
  PROVE  Line(net, qty, more, g, t, d) \in Invoiced
<1>1. Rates[g] \in Nat
  BY DEF Rates
<1>2. HalfUp(net * (100 + Rates[g]), 100 * qty) + more \in Int
  <2>1. net * (100 + Rates[g]) \in Int /\ 100 * qty \in Positive
    BY <1>1 DEF Positive
  <2>2. HalfUp(net * (100 + Rates[g]), 100 * qty) \in Int
    BY <2>1, HalfUpIs
  <2> QED BY <2>2
<1> DEFINE e == HalfUp(net * (100 + Rates[g]), 100 * qty) + more
           v == Rates[g]
<1>3. Line(net, qty, more, g, t, d)
        = [net |-> net, qty |-> qty, entered |-> e, group |-> g, rate |-> v, tax |-> t, number |-> 10, discount |-> d]
  BY Zenon DEF Line
<1>4. e \in Int /\ v \in Nat
  BY <1>1, <1>2, Zenon
<1>5. g \in Letters
  BY DEF Letters
<1>6. 10 \in Nat
  OBVIOUS
<1> HIDE DEF e, v
<1> QED BY <1>3, <1>4, <1>5, <1>6 DEF Invoiced

LEMMA PlainLineIs ==
  ASSUME NEW net \in Nat, NEW qty \in Positive, NEW g \in {"A", "B", "C", "N"},
         NEW t \in {"none", "unit", "percent"}
  PROVE  PlainLine(net, qty, g, t) \in Invoiced
<1>1. PICK zero \in Int : zero = 0
  OBVIOUS
<1>2. PICK no \in BOOLEAN : no = FALSE
  BY Zenon
<1>3. Line(net, qty, zero, g, t, no) \in Invoiced
  BY LineIs
<1>4. PlainLine(net, qty, g, t) = Line(net, qty, zero, g, t, no)
  BY <1>1, <1>2, Zenon DEF PlainLine
<1> QED BY <1>3, <1>4

LEMMA LineProbeIs == \A p \in LineProbes : p.lines \in Seq(Invoiced) /\ p.mode \in Modes
<1>1. \A l \in SingleLines : l \in Invoiced
  <2> SUFFICES ASSUME NEW l \in SingleLines PROVE l \in Invoiced
    OBVIOUS
  <2>1. PICK net \in {99, 1005, 12345}, qty \in {1, 3, 7}, more \in {0, 5},
             g \in {"A", "B", "C", "N"}, t \in {"none", "unit", "percent"}, d \in BOOLEAN :
          l = Line(net, qty, more, g, t, d)
    BY DEF SingleLines
  <2>2. net \in Nat /\ qty \in Positive /\ more \in Int
    BY DEF Positive
  <2> QED BY <2>1, <2>2, LineIs
<1>2. \A l \in FewLines : l \in Invoiced
  <2> SUFFICES ASSUME NEW l \in FewLines PROVE l \in Invoiced
    OBVIOUS
  <2>1. PICK net \in {99, 1005}, qty \in {1, 7}, g \in {"A", "B", "C"}, t \in {"none", "unit"} : l = PlainLine(net, qty, g, t)
    BY DEF FewLines
  <2>2. net \in Nat /\ qty \in Positive /\ g \in {"A", "B", "C", "N"} /\ t \in {"none", "unit", "percent"}
    BY DEF Positive
  <2> QED BY <2>1, <2>2, PlainLineIs
<1> SUFFICES ASSUME NEW p \in LineProbes PROVE p.lines \in Seq(Invoiced) /\ p.mode \in Modes
  OBVIOUS
<1>3. p.mode \in Modes /\ p.lines \in {<<l>> : l \in SingleLines} \cup (FewLines \X FewLines)
  BY DEF LineProbes, Modes
<1>4. CASE p.lines \in {<<l>> : l \in SingleLines}
  <2>1. PICK l \in SingleLines : p.lines = <<l>>
    BY <1>4
  <2> QED BY <1>1, <1>3, <2>1, One
<1>5. CASE p.lines \in FewLines \X FewLines
  <2>1. PICK l \in FewLines, m \in FewLines : p.lines = <<l, m>>
    BY <1>5
  <2>2. l \in Invoiced /\ m \in Invoiced
    BY <1>2
  <2> QED BY <1>3, <2>1, <2>2, Two
<1> QED BY <1>3, <1>4, <1>5

LEMMA TwoRows ==
  ASSUME NEW r \in TaxRows, NEW s \in TaxRows
  PROVE  RowsTotal(<<r, s>>) = r.amount + s.amount
<1> DEFINE rows == <<r, s>>
           w == <<r.amount, s.amount>>
<1>1. r.amount \in Int /\ s.amount \in Int
  BY DEF TaxRows
<1>2. DOMAIN rows = {1, 2} /\ DOMAIN w = {1, 2} /\ w[1] = r.amount /\ w[2] = s.amount
      /\ rows[1] = r /\ rows[2] = s
  OBVIOUS
<1>3. IsFiniteSet({}) /\ IsFiniteSet({1}) /\ IsFiniteSet({1, 2}) /\ {1} = {} \cup {1} /\ {1, 2} = {1} \cup {2}
  <2>1. IsFiniteSet({}) /\ {1} = {} \cup {1} /\ {1, 2} = {1} \cup {2}
    BY FS_EmptySet
  <2>2. IsFiniteSet({1})
    BY <2>1, FS_AddElement
  <2> QED BY <2>1, <2>2, FS_AddElement
<1> HIDE DEF rows, w
<1>4. \A k \in DOMAIN rows : w[k] \in Int /\ rows[k].amount = w[k]
  BY <1>1, <1>2
<1>5. RowsTotal(rows) = SumOver(w, {1, 2})
  BY <1>2, <1>3, <1>4, RowsTotalIs
<1>6. SumOver(w, {1}) = w[1] /\ SumOver(w, {1, 2}) = w[1] + w[2]
  <2>1. SumOver(w, {}) = 0
    BY SumOverEmpty
  <2>2. \A x \in {1, 2} : w[x] \in Int
    BY <1>1, <1>2
  <2>3. SumOver(w, {} \cup {1}) = SumOver(w, {}) + w[1]
    <3>1. IsFiniteSet({}) /\ 1 \notin {} /\ \A x \in {} \cup {1} : w[x] \in Int
      BY <1>3, <2>2
    <3> QED BY <3>1, SumOverAdd, Zenon
  <2>4. SumOver(w, {1} \cup {2}) = SumOver(w, {1}) + w[2]
    <3>1. IsFiniteSet({1}) /\ 2 \notin {1} /\ \A x \in {1} \cup {2} : w[x] \in Int
      BY <1>3, <2>2
    <3> QED BY <3>1, SumOverAdd, Zenon
  <2>5. SumOver(w, {1}) = SumOver(w, {}) + w[1] /\ SumOver(w, {1, 2}) = SumOver(w, {1}) + w[2]
    BY <1>3, <2>3, <2>4, Zenon
  <2>6. w[1] \in Int
    BY <2>2
  <2> QED BY <2>1, <2>5, <2>6
<1> QED BY <1>2, <1>5, <1>6 DEF rows

LEMMA CeilProbeIs == \A p \in CeilProbes : Balanced(p.inv) /\ p.step \in Positive
<1> SUFFICES ASSUME NEW p \in CeilProbes PROVE Balanced(p.inv) /\ p.step \in Positive
  OBVIOUS
<1>1. PICK step \in {1, 100}, v \in BOOLEAN, x \in BOOLEAN, a \in {-200, -160, 0, 160, 200},
            b \in {-300, -99, -1, 1, 99, 300} :
        p = [kind |-> "ceil", step |-> step,
             inv |-> [rows |-> <<[vat |-> v, amount |-> a, running |-> 1000 + a], [vat |-> x, amount |-> b, running |-> 1000 + a + b]>>,
                      taxes |-> a + b, grand |-> 1000 + a + b]]
  BY DEF CeilProbes
<1> DEFINE r == [vat |-> v, amount |-> a, running |-> 1000 + a]
           s == [vat |-> x, amount |-> b, running |-> 1000 + a + b]
<1>2. p.step \in Positive /\ p.inv.rows = <<r, s>> /\ p.inv.taxes = a + b /\ p.inv.grand = 1000 + a + b
  BY <1>1 DEF Positive
<1>3. a \in Int /\ b \in Int /\ a + b \in Int /\ 1000 + a \in Int /\ 1000 + a + b \in Int
  OBVIOUS
<1>4. r \in TaxRows /\ s \in TaxRows /\ r.amount = a /\ s.amount = b
  BY <1>3 DEF TaxRows
<1> HIDE DEF r, s
<1>5. RowsTotal(<<r, s>>) = a + b /\ <<r, s>> \in Seq(TaxRows)
  BY <1>4, TwoRows, Two
<1> QED BY <1>2, <1>3, <1>5 DEF Balanced

PaymentTexts == {"ESPECES", "CARTEBANCAIRE", "VIREMENT", "CREDIT", "m1", "m2", "selected", ""}

LEMMA PaymentProbeIs == \A p \in PaymentProbes : Payable(PaymentTexts, p.doc) /\ p.gap \in Int
<1> DEFINE Row == [type : PaymentTexts, mode : PaymentTexts, amount : Nat]
<1>1. PaymentLines \subseteq Row
  <2> DEFINE types == {"ESPECES", "CARTEBANCAIRE"}
             modes == {"m1", "m2"}
             amounts == {0, 300, 700, 995, 1500}
  <2>1. PaymentLines = [type : types, mode : modes, amount : amounts]
    BY DEF PaymentLines
  <2>2. types \subseteq PaymentTexts /\ modes \subseteq PaymentTexts
    BY DEF PaymentTexts
  <2>3. amounts \subseteq Nat
    OBVIOUS
  <2> HIDE DEF types, modes, amounts
  <2> QED BY <2>1, <2>2, <2>3
<1> DEFINE G == {-101, -100, -1, 0, 1, 100, 101}
           B == BoundedSeq(PaymentLines, 2)
           none == {<<>>}
           some == {"", "VIREMENT"}
           sum == {1000}
           E == [total : sum, payments : B, selected : {""}, schedule : none]
                \cup [total : sum, payments : none, selected : some, schedule : B]
<1>2. B \subseteq PaidRows(PaymentTexts)
  <2> SUFFICES ASSUME NEW m \in 0..2, NEW f \in [1..m -> PaymentLines] PROVE f \in Seq(Row)
    BY DEF BoundedSeq, SeqOf, PaidRows
  <2> HIDE DEF Row
  <2>1. f \in [1..m -> Row] /\ m \in Nat
    BY <1>1
  <2> QED BY <2>1, SeqDef
<1>3. <<>> \in PaidRows(PaymentTexts)
  BY DEF PaidRows
<1>4. Texts(PaymentTexts)
  BY DEF Texts, PaymentTexts
<1>5. PaymentProbes = [kind : {"payments"}, gap : G, doc : E]
  BY Zenon DEF PaymentProbes
<1>6. \A g \in G : g \in Int
  OBVIOUS
<1>7. none \subseteq PaidRows(PaymentTexts) /\ sum \subseteq Nat \ {0}
  BY <1>3
<1>8. "" \in PaymentTexts /\ some \subseteq PaymentTexts
  BY DEF PaymentTexts
<1> HIDE DEF B, G, Row, none, some, sum
<1>9. ASSUME NEW d \in E PROVE Payable(PaymentTexts, d)
  <2>1. CASE d \in [total : sum, payments : B, selected : {""}, schedule : none]
    <3>1. d.total \in sum /\ d.payments \in B /\ d.selected = "" /\ d.schedule \in none
      BY <2>1
    <3> QED BY <1>2, <1>4, <1>7, <1>8, <3>1 DEF Payable
  <2>2. CASE d \in [total : sum, payments : none, selected : some, schedule : B]
    <3>1. d.total \in sum /\ d.payments \in none /\ d.selected \in some /\ d.schedule \in B
      BY <2>2
    <3> QED BY <1>2, <1>4, <1>7, <1>8, <3>1 DEF Payable
  <2> QED BY <2>1, <2>2
<1> HIDE DEF E
<1>10. ASSUME NEW p \in PaymentProbes PROVE p.gap \in G /\ p.doc \in E
  BY <1>5
<1> QED BY <1>6, <1>9, <1>10

LEMMA FrameProbeIs == \A p \in FrameProbes :
  p.seq \in 32..255 /\ p.data \in Seq(Bytes) /\ Len(p.data) <= MaxData /\ p.at \in Nat \ {0} /\ p.byte \in Bytes
<1> SUFFICES ASSUME NEW p \in FrameProbes
             PROVE  p.seq \in 32..255 /\ p.data \in Seq(Bytes) /\ Len(p.data) <= MaxData /\ p.at \in Nat \ {0} /\ p.byte \in Bytes
  OBVIOUS
<1>1. p.seq \in {32, 255} /\ p.data \in BoundedSeq({65, 255}, 2) /\ p.at \in 1..20 /\ p.byte \in {0, 1, 3, 4, 5, 48, 63, 65, 66, 255}
  BY DEF FrameProbes
<1>2. PICK m \in 0..2 : p.data \in [1..m -> {65, 255}]
  BY <1>1 DEF BoundedSeq, SeqOf
<1>3. p.data \in [1..m -> Bytes] /\ m \in Nat /\ m <= 2
  BY <1>2 DEF Bytes
<1>4. p.data \in Seq(Bytes) /\ Len(p.data) = m
  BY <1>3, Tabulated
<1>5. Len(p.data) <= MaxData
  BY <1>3, <1>4 DEF MaxData
<1>6. p.seq \in 32..255 /\ p.at \in Nat \ {0} /\ p.byte \in Bytes
  BY <1>1 DEF Bytes
<1> QED BY <1>4, <1>5, <1>6

(* In every state of the run: a frame of the device is accepted only as it was sent,   *)
(* and read as the MCF wrote it.                                                       *)
THEOREM FramesCorrect == FunctionsSpec => []FramesSafe
<1>1. Probed => FramesSafe
  <2>1. \A p \in FrameProbes : FrameRead(p)
    BY FrameProbeIs, FrameIsRead
  <2>2. \A p \in SubtotalProbes : SubtotalRead(p)
    BY SubtotalIsRead
  <2>3. \A p \in NormalizedProbes : NormalizedRead(p)
    BY NormalizedIsRead
  <2> SUFFICES ASSUME Probed PROVE FramesRead(probe)
    BY DEF FramesSafe
  <2>4. probe.kind = "frame" => FrameRead(probe)
    BY <2>1, KindsOfFrames, KindOfDiagnoses, KindsOfAmounts, KindsOfRules, KindsOfRoutes DEF Probed
  <2>5. probe.kind = "subtotal" => SubtotalRead(probe)
    BY <2>2, KindsOfFrames, KindOfDiagnoses, KindsOfAmounts, KindsOfRules, KindsOfRoutes DEF Probed
  <2>6. probe.kind = "normalized" => NormalizedRead(probe)
    BY <2>3, KindsOfFrames, KindOfDiagnoses, KindsOfAmounts, KindsOfRules, KindsOfRoutes DEF Probed
  <2>7. StatusRead(probe)
    BY StatusIsRead
  <2> QED BY <2>4, <2>5, <2>6, <2>7 DEF FramesRead
<1> QED BY <1>1, ProbeStays, PTL

(* A test of an MCF that reassures never hides an identity the registry rejects.       *)
THEOREM DiagnosisCorrect == FunctionsSpec => []DiagnosisSafe
<1>1. Probed => DiagnosisSafe
  <2>1. \A p \in DiagnosisProbes : DiagnosisTells(p.obs, p.dev, p.nid)
    BY DiagnosisProbeIs
  <2> QED BY <2>1, KindsOfFrames, KindOfDiagnoses, KindsOfAmounts, KindsOfRules, KindsOfRoutes DEF Probed, DiagnosisSafe
<1> QED BY <1>1, ProbeStays, PTL

(* The two channels charge the same, and the VAT rounded up keeps an invoice balanced. *)
THEOREM AmountsCorrect == FunctionsSpec => []ChannelsAmountsAgree
<1>1. Probed => ChannelsAmountsAgree
  <2>1. \A p \in LineProbes : ChannelsAgree(p.lines, p.mode)
    BY LineProbeIs, EveryInvoiceAgrees
  <2>2. \A p \in CeilProbes : StaysBalanced(p.inv, p.step)
    BY CeilProbeIs, EveryCeilingBalances
  <2> SUFFICES ASSUME Probed PROVE AmountsAgree(probe)
    BY DEF ChannelsAmountsAgree
  <2>3. probe.kind = "lines" => ChannelsAgree(probe.lines, probe.mode)
    BY <2>1, KindsOfFrames, KindOfDiagnoses, KindsOfAmounts, KindsOfRules, KindsOfRoutes DEF Probed
  <2>4. probe.kind = "ceil" => StaysBalanced(probe.inv, probe.step)
    BY <2>2, KindsOfFrames, KindOfDiagnoses, KindsOfAmounts, KindsOfRules, KindsOfRoutes DEF Probed
  <2> QED BY <2>3, <2>4 DEF AmountsAgree
<1> QED BY <1>1, ProbeStays, PTL

(* The payments declared for each probe sum to the fiscal total and none is negative, unless the  *)
(* change or the gap of rounding exceeds the line it is taken off.                                *)
THEOREM PaymentsCorrect == FunctionsSpec => []PaymentsAddUp
<1>1. Probed => PaymentsAddUp
  <2>1. \A p \in PaymentProbes : PaymentsSum(p.doc, p.gap)
    BY PaymentProbeIs, EveryPaymentAddsUp
  <2> QED BY <2>1, KindsOfFrames, KindOfDiagnoses, KindsOfAmounts, KindsOfRules, KindsOfRoutes DEF Probed, PaymentsAddUp
<1> QED BY <1>1, ProbeStays, PTL

(* What the controls of an invoice let through can be declared on both channels.       *)
THEOREM RulesCorrect == FunctionsSpec => []SavedCanBeDeclared
<1>1. Probed => SavedCanBeDeclared
  <2>1. \A p \in CreditProbes \cup SaleProbes : SavedIsExpressible(p.invoice, p.settings)
    BY RulesProbeIs, EverySavedIsExpressible
  <2> QED BY <2>1, KindsOfFrames, KindOfDiagnoses, KindsOfAmounts, KindsOfRules, KindsOfRoutes DEF Probed, SavedCanBeDeclared
<1> QED BY <1>1, ProbeStays, PTL

(* An invoice is routed to a point de vente of its company and to a channel that has   *)
(* its equipment and that the policy allows.                                           *)
THEOREM RoutingCorrect == FunctionsSpec => []RoutingSafe
<1>1. Probed => RoutingSafe
  <2>1. \A p \in SourceProbes : SourcesAllowed(p.doc, p.settings)
    <3> SUFFICES ASSUME NEW p \in SourceProbes PROVE SourcesAllowed(p.doc, p.settings)
      OBVIOUS
    <3>1. IsFiniteSet(TwoPvfs) /\ None \notin TwoPvfs
      <4>1. IsFiniteSet({}) /\ TwoPvfs = ({} \cup {"p1"}) \cup {"p2"}
        BY FS_EmptySet DEF TwoPvfs
      <4>2. IsFiniteSet(TwoPvfs)
        BY <4>1, FS_AddElement
      <4> QED BY <4>2, NoneIsNoValue DEF TwoPvfs
    <3>2. p.doc \in Drafts(TwoPvfs, Companies) /\ p.settings \in Sites(TwoPvfs, Companies)
      BY SourceProbeIs
    <3> QED BY <3>1, <3>2, EverySourceAllowed
  <2>2. \A p \in RouteProbes : RouteAllowed(p.q)
    <3>1. NoneIsNoChannel
      BY NoneIsNoValue DEF NoneIsNoChannel
    <3> QED BY <3>1, RouteProbeIs, EveryRouteAllowed
  <2> SUFFICES ASSUME Probed PROVE RoutesAllowed(probe)
    BY DEF RoutingSafe
  <2>3. probe.kind = "sources" => SourcesAllowed(probe.doc, probe.settings)
    BY <2>1, KindsOfFrames, KindOfDiagnoses, KindsOfAmounts, KindsOfRules, KindsOfRoutes DEF Probed
  <2>4. probe.kind = "route" => RouteAllowed(probe.q)
    BY <2>2, KindsOfFrames, KindOfDiagnoses, KindsOfAmounts, KindsOfRules, KindsOfRoutes DEF Probed
  <2> QED BY <2>3, <2>4 DEF RoutesAllowed
<1> QED BY <1>1, ProbeStays, PTL

================================================================================
