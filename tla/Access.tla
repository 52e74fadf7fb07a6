--------------------------------- MODULE Access ---------------------------------
(***************************************************************************)
(* What may send a fiscal result: the registration of the MCFs              *)
(* (fiscal/registry.py, check_identity, record_desk_test, the forms of      *)
(* DGI MCF Device and DGI Point of Sale) and the life cycle of the gateways *)
(* (dgi_gateway.py).  A handler is one transaction, and one action: frappe  *)
(* refuses to save a document that was saved since it was read.  Nothing    *)
(* protects what a handler reads of other documents.  The approval of a     *)
(* gateway, which must leave one of them active, therefore takes two steps: *)
(* it reads the gateways of the MCF, and it writes.                         *)
(*                                                                         *)
(* A MID is <<NID, activation counter>>: only the counter may change.  A    *)
(* key is a model value, its fingerprint identifies it.                     *)
(***************************************************************************)
EXTENDS Naturals, FiniteSets

CONSTANTS
  Devices, Shops, Gateways, Users, Keys, None,
  ShopOf(_),     \* point de vente of a gateway
  TwoPeople,     \* setting station_approval_two_people
  Overlap,       \* whether two approvals for one MCF may overlap
  MaxEdits,      \* bound: forms edited by hand, MCFs reconfigured by a technician
  MaxCodes       \* bound: enrolment codes issued

ASSUME AccessAssumption ==
  /\ \A g \in Gateways : ShopOf(g) \in Shops
  /\ {TwoPeople, Overlap} \subseteq BOOLEAN
  /\ {MaxEdits, MaxCodes} \subseteq Nat
  /\ None \notin Devices \cup Shops \cup Users \cup Keys

VARIABLES
  mcf,        \* the MCFs themselves: activation counter, NIF
  device,     \* DGI MCF Device
  shop,       \* DGI Point of Sale: its MCF, whether it is active
  gate,       \* DGI Gateway
  enabled,    \* gateways whose technical user is enabled
  approving,  \* approvals under way: by whom, the rows read and those to write
  approvals,  \* history: who enrolled and who approved which key
  edits, codes

vars == <<mcf, device, shop, gate, enabled, approving, approvals, edits, codes>>

Nifs     == {"ours", "another"}   \* NIF of the company, any other
Counters == 0..1
Mids     == Devices \X Counters

DeviceStatus  == {"None", "Detecte", "Declare", "Actif", "A revalider", "Suspendu"}
Validatable   == {"Detecte", "Declare", "A revalider"}
Kinds         == {"browser", "service"}
GatewayStatus == {"None", "Nouvelle", "Code emis", "A approuver", "Active", "Revoquee"}

NoDevice  == [st |-> "None", shop |-> None, mid |-> None, nif |-> None, validated |-> None, by |-> None]
NoGateway == [st |-> "None", kind |-> "browser", mcf |-> None, code |-> FALSE, key |-> None, by |-> None]

Guest     == "Guest"    \* who reads an MCF through a service gateway

Known    == {d \in Devices : device[d].st # "None"}
Mid(d)   == <<d, mcf[d].counter>>
Other(d, s) == \E t \in Shops \ {s} : shop[t].mcf = d /\ shop[t].active
Edit     == edits < MaxEdits /\ edits' = edits + 1

----
(* Readings of an MCF *)

\* check_identity: the MID and the NIF read in an active MCF against those accepted.
Differs(d, mid, nif) == mid # device[d].validated \/ nif # "ours"
Checked(d, mid, nif) ==
  IF device[d].st = "Actif" /\ Differs(d, mid, nif) THEN "A revalider" ELSE device[d].st

\* record_observation: what was read is stored, an unknown MCF is 'Detecte', the first
\* reader is the one who proposed it.
Observed(d, u) ==
  LET row == device[d]
  IN  [device EXCEPT ![d] =
         [row EXCEPT !.st  = IF row.st = "None" THEN "Detecte" ELSE Checked(d, Mid(d), mcf[d].nif),
                     !.mid = Mid(d),
                     !.nif = mcf[d].nif,
                     !.by  = IF row.by = None /\ row.st \in Validatable \cup {"None"} THEN u ELSE row.by]]

\* propose_from_browser for the point de vente s, propose_device from one of its stations.
Propose(u, d, s) ==
  /\ ~(Other(d, s) /\ device[d].st = "Actif")
  /\ device' = Observed(d, u)
  /\ UNCHANGED <<mcf, shop, gate, enabled, approving, approvals, edits, codes>>

\* record_desk_test from a page that expects the MCF e: what does not answer as e is stored,
\* and not compared.
DeskTest(d, e) ==
  /\ d \in Known
  /\ device' = [device EXCEPT ![d].mid = Mid(d),
                              ![d].st  = IF e \in {d, None} THEN Checked(d, Mid(d), mcf[d].nif) ELSE @]
  /\ UNCHANGED <<mcf, shop, gate, enabled, approving, approvals, edits, codes>>

\* record_heartbeat of a station where d is plugged in: the MID goes to the MCF of the
\* station, and another NID is not compared.
Heartbeat(g, d) ==
  LET m == gate[g].mcf
  IN  /\ gate[g].st = "Active" /\ g \in enabled
      /\ device' = [device EXCEPT ![m].mid = Mid(d),
                                  ![m].st  = IF m = d THEN Checked(m, Mid(d), mcf[d].nif) ELSE @]
      /\ UNCHANGED <<mcf, shop, gate, enabled, approving, approvals, edits, codes>>

----
(* Registration of an MCF *)

\* Gateways that follow the MCF of their point de vente: DGIPointofSale.on_update.
Followed(s, d) ==
  [g \in Gateways |->
     IF ShopOf(g) = s /\ gate[g].st \in {"Nouvelle", "Code emis"} /\ d # shop[s].mcf /\ d # None
     THEN [gate[g] EXCEPT !.mcf = d] ELSE gate[g]]

HasActive(d, s) == \E e \in Devices \ {d} : device[e].st = "Actif" /\ device[e].shop = s

\* comparison, the blocking rows: NIF, NID of another point de vente, MID of another MCF.
Comparable(d, s) ==
  /\ device[d].nif = "ours"
  /\ ~Other(d, s)
  /\ device[d].mid # None /\ device[d].mid[1] = d

ValidateDevice(u, d, s) ==
  /\ device[d].st \in Validatable
  /\ TwoPeople => device[d].by # u
  /\ Comparable(d, s)
  /\ ~(shop[s].mcf \in Devices \ {d} /\ device[shop[s].mcf].st = "Actif")
  /\ ~HasActive(d, s)
  /\ device' = [device EXCEPT ![d].st = "Actif", ![d].shop = s, ![d].validated = device[d].mid]
  /\ shop' = [shop EXCEPT ![s].mcf = d]
  /\ gate' = Followed(s, d)
  /\ UNCHANGED <<mcf, enabled, approving, approvals, edits, codes>>

\* The form of DGI MCF Device: only validate_device activates.
ActivatesFromForm(d, st, s) == st = "Actif" => s # None /\ ~HasActive(d, s)
MaySave(d, st, s) == st = "Actif" => device[d].st = "Actif" /\ s # None /\ ~HasActive(d, s)

EditDevice(d, st, s) ==
  /\ Edit
  /\ MaySave(d, st, s)
  /\ device' = [device EXCEPT ![d].st = st, ![d].shop = s]
  /\ UNCHANGED <<mcf, shop, gate, enabled, approving, approvals, codes>>

\* The form of DGI Point of Sale.
AttachesAny(s, d) == d # None => device[d].shop \in {None, s}
Attachable(s, d)  == d # None => d \in Known /\ device[d].shop \in {None, s}

EditShop(s, d, active) ==
  /\ Edit
  /\ Attachable(s, d)
  /\ shop' = [shop EXCEPT ![s] = [mcf |-> d, active |-> active]]
  /\ device' = IF d = None THEN device ELSE [device EXCEPT ![d].shop = s]
  /\ gate' = Followed(s, d)
  /\ UNCHANGED <<mcf, enabled, approving, approvals, codes>>

\* A technician changes the activation counter or the NIF of an MCF.
Reconfigure(d, c, nif) ==
  /\ Edit
  /\ mcf' = [mcf EXCEPT ![d] = [counter |-> c, nif |-> nif]]
  /\ UNCHANGED <<device, shop, gate, enabled, approving, approvals, codes>>

----
(* Life cycle of a gateway *)

\* DGIGateway.validate: every save takes the MCF of the point de vente.
Save(g, r) ==
  LET d == shop[ShopOf(g)].mcf
  IN  /\ d = None => r.st \in {"Nouvelle", "Revoquee"}
      /\ r.st = "Active" => r.mcf \in {None, d}
      /\ r.st = "Active" => \A o \in Gateways \ {g} : ~(gate[o].st = "Active" /\ gate[o].mcf = d)
      /\ gate' = [gate EXCEPT ![g] = [r EXCEPT !.mcf = d]]

\* create_station: one browser station not revoked per point de vente.
CreateStation(g) ==
  /\ gate[g].st = "None"
  /\ \A o \in Gateways : ShopOf(o) = ShopOf(g) /\ gate[o].kind = "browser" => gate[o].st \in {"None", "Revoquee"}
  /\ Save(g, [NoGateway EXCEPT !.st = "Nouvelle"])
  /\ UNCHANGED <<mcf, device, shop, enabled, approving, approvals, edits, codes>>

\* The form: a gateway of either kind is created, or its kind changed.
EditGateway(g, kind) ==
  /\ Edit
  /\ Save(g, IF gate[g].st = "None" THEN [NoGateway EXCEPT !.st = "Nouvelle", !.kind = kind]
                                    ELSE [gate[g] EXCEPT !.kind = kind])
  /\ UNCHANGED <<mcf, device, shop, enabled, approving, approvals, codes>>

GenerateCode(g) ==
  /\ gate[g].st \notin {"None", "Revoquee"}
  /\ gate[g].mcf # None
  /\ codes < MaxCodes /\ codes' = codes + 1
  /\ Save(g, [gate[g] EXCEPT !.code = TRUE, !.st = IF @ = "Active" THEN @ ELSE "Code emis"])
  /\ UNCHANGED <<mcf, device, shop, enabled, approving, approvals, edits>>

\* Its 30 minutes are over.
CodeLapses(g) ==
  /\ gate[g].code
  /\ gate' = [gate EXCEPT ![g].code = FALSE]
  /\ UNCHANGED <<mcf, device, shop, enabled, approving, approvals, edits, codes>>

\* Who enrols: an operator on the page Poste MCF; the program of a service has no user.
Enrols(g, u) == u = None <=> gate[g].kind = "service"

\* enroll_gateway refused after the code was read: the code is consumed, and an MCF never
\* seen is recorded.
EnrollRefused(g, u, d) ==
  /\ gate[g].code
  /\ Enrols(g, u)
  /\ Save(g, [gate[g] EXCEPT !.code = FALSE])
  /\ device' = IF d \in Devices \ (Known \cup {gate[g].mcf}) 
               THEN Observed(d, IF u = None THEN Guest ELSE u) ELSE device
  /\ UNCHANGED <<mcf, shop, enabled, approving, approvals, edits, codes>>

KeepsActive(g, u, k) == [gate[g] EXCEPT !.code = FALSE, !.key = k, !.by = u,
                                        !.st = IF @ = "Active" THEN @ ELSE "A approuver"]
NewKey(g, u, k) == [gate[g] EXCEPT !.code = FALSE, !.key = k, !.by = u, !.st = "A approuver"]

\* enroll_gateway accepted: a new key of an active gateway disables its user until it is
\* approved again.
Enroll(g, u, k) ==
  /\ gate[g].code
  /\ Enrols(g, u)
  /\ mcf[gate[g].mcf].nif = "ours"
  /\ Save(g, NewKey(g, u, k))
  /\ enabled' = IF gate[g].st = "Active" THEN enabled \ {g} ELSE enabled
  /\ device' = [device EXCEPT ![gate[g].mcf].nif = "ours"]
  /\ UNCHANGED <<mcf, shop, approving, approvals, edits, codes>>

\* The gateways of one MCF that an approval replaces.
KeepsOthers(g) == {}
Replaced(g)    == {o \in Gateways \ {g} : gate[o].st = "Active" /\ gate[o].mcf = gate[g].mcf}

KeepsCode(r) == [r EXCEPT !.st = "Revoquee"]
Revoked(r)   == [r EXCEPT !.st = "Revoquee", !.code = FALSE]

\* approve_gateway up to its save: the fingerprint typed is that of the key received, and
\* the active gateways of the MCF are those of the rows read.
StartApproval(g, u) ==
  LET read     == Replaced(g) \cup {g}
      after(o) == IF o = g THEN [gate[o] EXCEPT !.st = "Active"]
                           ELSE [Revoked(gate[o]) EXCEPT !.mcf = shop[ShopOf(o)].mcf]
  IN  /\ approving[g] = None
      /\ gate[g].st = "A approuver"
      /\ TwoPeople /\ gate[g].by # None => gate[g].by # u
      /\ gate[g].mcf # None /\ gate[g].mcf = shop[ShopOf(g)].mcf
      /\ Overlap \/ \A o \in Gateways : approving[o] # None => approving[o].read[o].mcf # gate[g].mcf
      /\ approving' = [approving EXCEPT ![g] = [by |-> u, read    |-> [o \in read |-> gate[o]],
                                                         written |-> [o \in read |-> after(o)]]]
      /\ UNCHANGED <<mcf, device, shop, gate, enabled, approvals, edits, codes>>

\* The rows it saves are those it read.
UpToDate(g) == \A o \in DOMAIN approving[g].read : gate[o] = approving[g].read[o]

FinishApproval(g) ==
  LET a == approving[g]
  IN  /\ a # None
      /\ UpToDate(g)
      /\ gate' = [o \in Gateways |-> IF o \in DOMAIN a.written THEN a.written[o] ELSE gate[o]]
      /\ enabled' = (enabled \ DOMAIN a.written) \cup {g}
      /\ approvals' = approvals \cup {[gate |-> g, key |-> gate[g].key, enrolled |-> gate[g].by, by |-> a.by]}
      /\ approving' = [approving EXCEPT ![g] = None]
      /\ UNCHANGED <<mcf, device, shop, edits, codes>>

\* One of them was saved since: the whole transaction is undone.
ApprovalRefused(g) ==
  /\ approving[g] # None
  /\ ~UpToDate(g)
  /\ approving' = [approving EXCEPT ![g] = None]
  /\ UNCHANGED <<mcf, device, shop, gate, enabled, approvals, edits, codes>>

Revoke(g) ==
  /\ gate[g].st # "None"
  /\ Save(g, Revoked(gate[g]))
  /\ enabled' = enabled \ {g}
  /\ UNCHANGED <<mcf, device, shop, approving, approvals, edits, codes>>

----
Init ==
  /\ mcf = [d \in Devices |-> [counter |-> 0, nif |-> "ours"]]
  /\ device = [d \in Devices |-> NoDevice]
  /\ shop = [s \in Shops |-> [mcf |-> None, active |-> TRUE]]
  /\ gate = [g \in Gateways |-> NoGateway]
  /\ enabled = {}
  /\ approving = [g \in Gateways |-> None]
  /\ approvals = {}
  /\ edits = 0 /\ codes = 0

Register(d) ==
  \/ \E u \in Users, s \in Shops : Propose(u, d, s) \/ ValidateDevice(u, d, s)
  \/ \E e \in Devices \cup {None} : DeskTest(d, e)
  \/ \E g \in Gateways : Heartbeat(g, d)
  \/ \E st \in DeviceStatus \ {"None"}, s \in Shops \cup {None} : EditDevice(d, st, s)
  \/ \E c \in Counters, nif \in Nifs : Reconfigure(d, c, nif)

Station(g) ==
  \/ CreateStation(g) \/ GenerateCode(g) \/ CodeLapses(g) \/ Revoke(g)
  \/ \E kind \in Kinds : EditGateway(g, kind)
  \/ FinishApproval(g) \/ ApprovalRefused(g)
  \/ \E u \in Users : StartApproval(g, u)
  \/ \E u \in Users \cup {None}, d \in Devices : EnrollRefused(g, u, d)
  \/ \E u \in Users \cup {None}, k \in Keys : Enroll(g, u, k)

Next ==
  \/ \E d \in Devices : Register(d)
  \/ \E g \in Gateways : Station(g)
  \/ \E s \in Shops, d \in Devices \cup {None}, a \in BOOLEAN : EditShop(s, d, a)

Spec == Init /\ [][Next]_vars

----
GatewayRows == [st : GatewayStatus, kind : Kinds, mcf : Known \cup {None}, code : BOOLEAN,
                key : Keys \cup {None}, by : Users \cup {None}]
RowsOf(f)   == f \in [DOMAIN f -> GatewayRows]
ApprovingOK ==
  /\ DOMAIN approving = Gateways
  /\ \A g \in Gateways : approving[g] # None =>
       /\ approving[g].by \in Users
       /\ g \in DOMAIN approving[g].read /\ DOMAIN approving[g].read \subseteq Gateways
       /\ DOMAIN approving[g].written = DOMAIN approving[g].read
       /\ RowsOf(approving[g].read) /\ RowsOf(approving[g].written)

\* The documents are well formed; the MCF of a point de vente and of a gateway exists.
AccessTypeOK ==
  /\ mcf \in [Devices -> [counter : Counters, nif : Nifs]]
  /\ device \in [Devices -> [st : DeviceStatus, shop : Shops \cup {None}, mid : Mids \cup {None},
                             nif : Nifs \cup {None}, validated : Mids \cup {None}, by : Users \cup {None, Guest}]]
  /\ shop \in [Shops -> [mcf : Known \cup {None}, active : BOOLEAN]]
  /\ gate \in [Gateways -> GatewayRows]
  /\ ApprovingOK
  /\ enabled \subseteq Gateways
  /\ edits \in 0..MaxEdits /\ codes \in 0..MaxCodes

\* A gateway whose user is enabled is Active, and the very key that its requests are verified
\* with was approved, rotations included, by a second person when an operator enrolled it
\* (auth.authenticate, approve_gateway).
KeyApproved ==
  \A g \in Gateways : g \in enabled \/ gate[g].st = "Active" =>
    /\ g \in enabled /\ gate[g].st = "Active"
    /\ \E a \in approvals : /\ a.gate = g /\ a.key = gate[g].key
                            /\ TwoPeople /\ a.enrolled # None => a.by # a.enrolled

\* Two gateways never answer for one MCF, however stations are replaced, whatever MCF their
\* points de vente are given meanwhile, and whatever happens between the two steps of an
\* approval, another approval for the same MCF apart (DGIGateway.validate, approve_gateway).
OneActivePerMcf ==
  \A g, o \in Gateways :
    gate[g].st = "Active" /\ gate[o].st = "Active" /\ gate[g].mcf = gate[o].mcf => g = o

\* A revoked gateway is out for good: no code issued before enrols it again.
RevokedStaysOut ==
  [][\A g \in Gateways : gate[g].st = "Revoquee" => gate'[g].st = "Revoquee" /\ g \notin enabled']_vars

\* An active MCF carries the MID that a responsible accepted, is attached to a point de vente,
\* and shares it with no other active MCF (DGIMCFDevice.validate, validate_device).
ActiveIsAccepted ==
  \A d \in Devices : device[d].st = "Actif" =>
    /\ device[d].validated # None /\ device[d].validated[1] = d
    /\ device[d].shop # None
    /\ ~HasActive(d, device[d].shop)

================================================================================
