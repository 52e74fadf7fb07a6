------------------------------ MODULE Access_proofs ------------------------------
(***************************************************************************)
(* Theorems about Access, for every set of MCFs, points de vente, stations, *)
(* people and keys, and every assignment of the stations.                   *)
(***************************************************************************)
EXTENDS Access, TLAPS

Docs  == [st : DeviceStatus, shop : Shops \cup {None}, mid : Mids \cup {None},
          nif : Nifs \cup {None}, validated : Mids \cup {None}, by : Users \cup {None, Guest}]

----
(* Type correctness.                                                        *)

LEMMA InitType == Init => AccessTypeOK
BY AccessAssumption
DEF Init, AccessTypeOK, NoDevice, NoGateway, DeviceStatus, GatewayStatus, GatewayRows, Kinds, Counters,
    Nifs, Known, ApprovingOK

(* A reading that the registry compares leaves a status of an MCF.           *)
LEMMA CheckedStatus ==
  ASSUME AccessTypeOK, NEW d \in Devices, NEW mid, NEW nif
  PROVE  /\ Checked(d, mid, nif) \in DeviceStatus
         /\ Checked(d, mid, nif) \in {device[d].st, "A revalider"}
         /\ Checked(d, mid, nif) = "Actif" => device[d].st = "Actif"
BY DEF AccessTypeOK, Checked, DeviceStatus

(* What was read in d goes to its record and to no other.                    *)
LEMMA ObservedRow ==
  ASSUME AccessTypeOK, NEW d \in Devices, NEW u \in Users \cup {Guest}
  PROVE  /\ Observed(d, u) \in [Devices -> Docs]
         /\ \A e \in Devices \ {d} : Observed(d, u)[e] = device[e]
         /\ Observed(d, u)[d].st # "None"
         /\ Observed(d, u)[d].shop = device[d].shop
         /\ Observed(d, u)[d].validated = device[d].validated
         /\ Observed(d, u)[d].st = "Actif" => device[d].st = "Actif"
<1>1. Mid(d) \in Mids /\ mcf[d].nif \in Nifs
  BY DEF AccessTypeOK, Mid, Mids
<1>2. device[d] \in Docs /\ device \in [Devices -> Docs]
  BY DEF AccessTypeOK, Docs
<1> DEFINE st == IF device[d].st = "None" THEN "Detecte" ELSE Checked(d, Mid(d), mcf[d].nif)
<1>3. st \in DeviceStatus \ {"None"} /\ (st = "Actif" => device[d].st = "Actif")
  BY CheckedStatus DEF DeviceStatus
<1> HIDE DEF st
<1> DEFINE row == [device[d] EXCEPT !.st = st, !.mid = Mid(d), !.nif = mcf[d].nif,
                     !.by = IF device[d].by = None /\ device[d].st \in Validatable \cup {"None"}
                            THEN u ELSE device[d].by]
<1>4. /\ row \in Docs /\ row.st = st
      /\ row.shop = device[d].shop /\ row.validated = device[d].validated
  BY <1>1, <1>2, <1>3 DEF Docs
<1>5. Observed(d, u) = [device EXCEPT ![d] = row]
  BY DEF Observed, st
<1> QED BY <1>2, <1>3, <1>4, <1>5

LEMMA Rows ==
  ASSUME AccessTypeOK
  PROVE  /\ device \in [Devices -> Docs] /\ gate \in [Gateways -> GatewayRows]
         /\ \A d \in Devices : Mid(d) \in Mids /\ mcf[d].nif \in Nifs
BY DEF AccessTypeOK, Docs, GatewayRows, Mid, Mids

(* A record that is written with another status than "None" stays or becomes known. *)
LEMMA RecordWritten ==
  ASSUME AccessTypeOK, NEW d \in Devices, NEW r \in Docs, r.st # "None" \/ d \notin Known,
         device' = [device EXCEPT ![d] = r]
  PROVE  device' \in [Devices -> Docs] /\ Known \subseteq Known'
BY Rows DEF Known

(* The rows that name an MCF keep their type when records of MCFs are only added.  *)
LEMMA KnownGrows ==
  ASSUME AccessTypeOK, Known \subseteq Known'
  PROVE  /\ shop \in [Shops -> [mcf : Known' \cup {None}, active : BOOLEAN]]
         /\ gate \in [Gateways -> GatewayRows']
         /\ GatewayRows \subseteq GatewayRows'
         /\ approving' = approving => ApprovingOK'
<1>1. ASSUME NEW s \in Shops PROVE shop[s] \in [mcf : Known' \cup {None}, active : BOOLEAN]
  BY DEF AccessTypeOK
<1>2. GatewayRows \subseteq GatewayRows'
  BY DEF GatewayRows
<1>3. ApprovingOK
  BY DEF AccessTypeOK
<1>4. ASSUME approving' = approving PROVE ApprovingOK'
  <2>1. ASSUME NEW f, RowsOf(f) PROVE f \in [DOMAIN f -> GatewayRows']
    BY <1>2, <2>1 DEF RowsOf
  <2>2. ASSUME NEW g \in Gateways, approving[g] # None
        PROVE  RowsOf(approving[g].read)' /\ RowsOf(approving[g].written)'
    BY <1>3, <1>4, <2>1, <2>2 DEF ApprovingOK, RowsOf
  <2> QED BY <1>3, <1>4, <2>2 DEF ApprovingOK
<1> QED BY <1>1, <1>2, <1>4 DEF AccessTypeOK

(* A step that only writes a record of an MCF, and maybe the counters.              *)
LEMMA DeviceOnly ==
  ASSUME AccessTypeOK, device' \in [Devices -> Docs], Known \subseteq Known',
         UNCHANGED <<mcf, shop, gate, enabled, approving>>, edits' \in 0..MaxEdits, codes' \in 0..MaxCodes
  PROVE  AccessTypeOK'
<1>1. /\ shop' \in [Shops -> [mcf : Known' \cup {None}, active : BOOLEAN]]
      /\ gate' \in [Gateways -> GatewayRows'] /\ ApprovingOK'
  BY KnownGrows
<1> QED BY <1>1 DEF AccessTypeOK, Docs

(* A step that only writes the row of a station, the users and the counters.        *)
LEMMA GateOnly ==
  ASSUME AccessTypeOK, gate' \in [Gateways -> GatewayRows], enabled' \subseteq Gateways,
         approving' = approving \/ ApprovingOK',
         UNCHANGED <<mcf, device, shop>>, edits' \in 0..MaxEdits, codes' \in 0..MaxCodes
  PROVE  AccessTypeOK'
<1>1. Known' = Known
  BY DEF Known
<1>2. GatewayRows' = GatewayRows /\ ApprovingOK'
  BY <1>1, KnownGrows DEF GatewayRows
<1> QED BY <1>1, <1>2 DEF AccessTypeOK

LEMMA Counts ==
  ASSUME AccessTypeOK
  PROVE  /\ Edit => edits' \in 0..MaxEdits
         /\ codes < MaxCodes /\ codes' = codes + 1 => codes' \in 0..MaxCodes
         /\ edits \in 0..MaxEdits /\ codes \in 0..MaxCodes
         /\ enabled \subseteq Gateways
BY AccessAssumption DEF AccessTypeOK, Edit

LEMMA TypeRegister ==
  ASSUME AccessTypeOK, NEW d \in Devices, Register(d)
  PROVE  AccessTypeOK'
<1>1. ASSUME NEW u \in Users, NEW s \in Shops, Propose(u, d, s) PROVE AccessTypeOK'
  <2>1. device' \in [Devices -> Docs] /\ Known \subseteq Known'
    BY <1>1, ObservedRow DEF Propose, Known
  <2> QED BY <1>1, <2>1, DeviceOnly, Counts DEF Propose
<1>2. ASSUME NEW u \in Users, NEW s \in Shops, ValidateDevice(u, d, s) PROVE AccessTypeOK'
  <2>1. device' \in [Devices -> Docs]
    <3>1. [device[d] EXCEPT !.st = "Actif", !.shop = s, !.validated = device[d].mid] \in Docs
      BY Rows DEF Docs, DeviceStatus
    <3> QED BY <1>2, <3>1, Rows DEF ValidateDevice
  <2>2. d \in Known' /\ Known \subseteq Known'
    BY <1>2, Rows DEF ValidateDevice, Known, Docs
  <2>3. shop' \in [Shops -> [mcf : Known' \cup {None}, active : BOOLEAN]]
    <3>1. shop \in [Shops -> [mcf : Known' \cup {None}, active : BOOLEAN]]
      BY <2>2, KnownGrows
    <3> QED BY <1>2, <2>2, <3>1 DEF ValidateDevice
  <2>4. gate' \in [Gateways -> GatewayRows']
    <3>1. gate \in [Gateways -> GatewayRows']
      BY <2>2, KnownGrows
    <3>2. \A g \in Gateways : [gate[g] EXCEPT !.mcf = d] \in GatewayRows'
      BY <3>1, <2>2 DEF GatewayRows
    <3> QED BY <1>2, <3>1, <3>2 DEF ValidateDevice, Followed
  <2> QED
    BY <1>2, <2>1, <2>2, <2>3, <2>4, KnownGrows DEF ValidateDevice, AccessTypeOK, Docs
<1>3. ASSUME NEW e \in Devices \cup {None}, DeskTest(d, e) PROVE AccessTypeOK'
  <2> DEFINE st == IF e \in {d, None} THEN Checked(d, Mid(d), mcf[d].nif) ELSE device[d].st
             row == [device[d] EXCEPT !.mid = Mid(d), !.st = st]
  <2>1. st \in {device[d].st, "A revalider"}
    BY CheckedStatus
  <2> HIDE DEF st
  <2>2. row \in Docs /\ (row.st # "None" \/ d \notin Known)
    BY <2>1, Rows DEF Docs, DeviceStatus, Known
  <2>3. device' \in [Devices -> Docs] /\ Known \subseteq Known'
    <3>1. device' = [device EXCEPT ![d] = row]
      BY <1>3, Rows DEF DeskTest, st, Docs
    <3> QED BY <2>2, <3>1, RecordWritten
  <2> QED BY <1>3, <2>3, DeviceOnly, Counts DEF DeskTest
<1>4. ASSUME NEW g \in Gateways, Heartbeat(g, d) PROVE AccessTypeOK'
  <2> DEFINE m   == gate[g].mcf
             st  == IF m = d THEN Checked(m, Mid(d), mcf[d].nif) ELSE device[m].st
             row == [device[m] EXCEPT !.mid = Mid(d), !.st = st]
  <2>1. device' \in [Devices -> Docs] /\ Known \subseteq Known'
    <3>1. m \in Known \cup {None}
      BY Rows DEF GatewayRows
    <3>2. CASE m \in Known
      <4>1. m \in Devices /\ device[m].st # "None" /\ st \in {device[m].st, "A revalider"}
        BY <3>2, CheckedStatus DEF Known
      <4> HIDE DEF st, m
      <4>2. row \in Docs /\ row.st # "None"
        BY <4>1, Rows DEF Docs, DeviceStatus
      <4>3. device' = [device EXCEPT ![m] = row]
        BY <1>4, <4>1, Rows DEF Heartbeat, st, m, Docs
      <4> HIDE DEF row
      <4> QED BY <4>1, <4>2, <4>3, RecordWritten
    <3>3. CASE m = None
      <4>1. None \notin Devices
        BY AccessAssumption
      <4>2. device' = device
        BY <1>4, <3>3, <4>1, Rows DEF Heartbeat
      <4> QED BY <4>2, Rows DEF Known
    <3> QED BY <3>1, <3>2, <3>3
  <2> QED BY <1>4, <2>1, DeviceOnly, Counts DEF Heartbeat
<1>5. ASSUME NEW st \in DeviceStatus \ {"None"}, NEW s \in Shops \cup {None}, EditDevice(d, st, s)
      PROVE  AccessTypeOK'
  <2>1. device' \in [Devices -> Docs] /\ Known \subseteq Known'
    <3>1. [device[d] EXCEPT !.st = st, !.shop = s] \in Docs
      BY Rows DEF Docs
    <3>2. [device[d] EXCEPT !.st = st, !.shop = s].st # "None"
      BY Rows DEF Docs
    <3>3. device' = [device EXCEPT ![d] = [device[d] EXCEPT !.st = st, !.shop = s]]
      BY <1>5, Rows DEF EditDevice, Docs
    <3> QED BY <3>1, <3>2, <3>3, RecordWritten
  <2> QED BY <1>5, <2>1, DeviceOnly, Counts DEF EditDevice
<1>6. ASSUME NEW c \in Counters, NEW nif \in Nifs, Reconfigure(d, c, nif) PROVE AccessTypeOK'
  <2>1. ApprovingOK' /\ GatewayRows' = GatewayRows /\ Known' = Known
    BY <1>6, KnownGrows DEF Reconfigure, GatewayRows, Known
  <2> QED BY <1>6, <2>1, AccessAssumption DEF Reconfigure, Edit, AccessTypeOK
<1> QED BY <1>1, <1>2, <1>3, <1>4, <1>5, <1>6 DEF Register

LEMMA TypeSave ==
  ASSUME AccessTypeOK, NEW g \in Gateways, NEW r \in GatewayRows, Save(g, r)
  PROVE  gate' \in [Gateways -> GatewayRows]
<1>1. shop[ShopOf(g)].mcf \in Known \cup {None}
  BY AccessAssumption DEF AccessTypeOK
<1>2. [r EXCEPT !.mcf = shop[ShopOf(g)].mcf] \in GatewayRows
  BY <1>1 DEF GatewayRows
<1> QED BY <1>2, Rows DEF Save

LEMMA TypeStation ==
  ASSUME AccessTypeOK, NEW g \in Gateways, Station(g)
  PROVE  AccessTypeOK'
<1>1. /\ gate \in [Gateways -> GatewayRows] /\ gate[g] \in GatewayRows
      /\ [NoGateway EXCEPT !.st = "Nouvelle"] \in GatewayRows
  BY DEF AccessTypeOK, GatewayRows, NoGateway, GatewayStatus, Kinds
<1>2. CASE CreateStation(g)
  <2>1. gate' \in [Gateways -> GatewayRows]
    BY <1>1, <1>2, TypeSave DEF CreateStation
  <2> QED BY <1>2, <2>1, GateOnly, Counts DEF CreateStation
<1>3. ASSUME NEW kind \in Kinds, EditGateway(g, kind) PROVE AccessTypeOK'
  <2>1. /\ [NoGateway EXCEPT !.st = "Nouvelle", !.kind = kind] \in GatewayRows
        /\ [gate[g] EXCEPT !.kind = kind] \in GatewayRows
    BY <1>1 DEF NoGateway, GatewayRows, GatewayStatus, Kinds
  <2>2. gate' \in [Gateways -> GatewayRows]
    BY <1>3, <2>1, TypeSave DEF EditGateway
  <2> QED BY <1>3, <2>2, GateOnly, Counts DEF EditGateway
<1>4. CASE GenerateCode(g)
  <2>1. [gate[g] EXCEPT !.code = TRUE, !.st = IF gate[g].st = "Active" THEN gate[g].st ELSE "Code emis"] \in GatewayRows
    BY <1>1 DEF GatewayRows, GatewayStatus
  <2>2. gate' \in [Gateways -> GatewayRows]
    BY <1>4, <2>1, TypeSave DEF GenerateCode
  <2> QED BY <1>4, <2>2, GateOnly, Counts DEF GenerateCode
<1>5. CASE CodeLapses(g)
  <2>1. gate' \in [Gateways -> GatewayRows]
    BY <1>1, <1>5 DEF CodeLapses, GatewayRows
  <2> QED BY <1>5, <2>1, GateOnly, Counts DEF CodeLapses
<1>6. CASE Revoke(g)
  <2>1. Revoked(gate[g]) \in GatewayRows
    BY <1>1 DEF Revoked, GatewayRows, GatewayStatus
  <2>2. gate' \in [Gateways -> GatewayRows]
    BY <1>6, <2>1, TypeSave DEF Revoke
  <2> QED BY <1>6, <2>2, GateOnly, Counts DEF Revoke
<1>7. ASSUME NEW u \in Users, StartApproval(g, u) PROVE AccessTypeOK'
  <2> DEFINE read == Replaced(g) \cup {g}
             after(o) == IF o = g THEN [gate[o] EXCEPT !.st = "Active"]
                                  ELSE [Revoked(gate[o]) EXCEPT !.mcf = shop[ShopOf(o)].mcf]
             a == [by |-> u, read |-> [o \in read |-> gate[o]], written |-> [o \in read |-> after(o)]]
  <2>1. \A o \in Gateways : gate[o] \in GatewayRows /\ after(o) \in GatewayRows
    BY <1>1, AccessAssumption DEF Revoked, GatewayRows, GatewayStatus, AccessTypeOK
  <2>2. read \subseteq Gateways /\ g \in read
    BY DEF Replaced
  <2>3. /\ DOMAIN a.read = read /\ DOMAIN a.written = read /\ a.by = u
        /\ a.read \in [read -> GatewayRows] /\ a.written \in [read -> GatewayRows]
    BY <2>1, <2>2
  <2>4. approving' = [approving EXCEPT ![g] = a]
    BY <1>7 DEF StartApproval
  <2>5. Known' = Known /\ GatewayRows' = GatewayRows
    BY <1>7 DEF StartApproval, Known, GatewayRows
  <2> HIDE DEF a, read
  <2>6. DOMAIN approving = Gateways /\ ApprovingOK
    BY DEF AccessTypeOK, ApprovingOK
  <2>7. DOMAIN approving' = Gateways /\ approving'[g] = a /\ \A o \in Gateways \ {g} : approving'[o] = approving[o]
    BY <2>4, <2>6
  <2>8. ASSUME NEW o \in Gateways, approving'[o] # None
        PROVE  /\ approving'[o].by \in Users
               /\ o \in DOMAIN approving'[o].read /\ DOMAIN approving'[o].read \subseteq Gateways
               /\ DOMAIN approving'[o].written = DOMAIN approving'[o].read
               /\ RowsOf(approving'[o].read) /\ RowsOf(approving'[o].written)
    <3>1. CASE o = g
      BY <2>2, <2>3, <2>7, <3>1 DEF RowsOf
    <3>2. CASE o # g
      BY <2>6, <2>7, <2>8, <3>2 DEF ApprovingOK
    <3> QED BY <3>1, <3>2
  <2>9. ApprovingOK'
    BY <2>5, <2>7, <2>8 DEF ApprovingOK, RowsOf
  <2>10. gate' \in [Gateways -> GatewayRows] /\ enabled' \subseteq Gateways
    BY <1>1, <1>7, Counts DEF StartApproval
  <2> QED BY <1>7, <2>9, <2>10, GateOnly, Counts DEF StartApproval
<1>10. ASSUME approving' = [approving EXCEPT ![g] = None] /\ UNCHANGED device PROVE ApprovingOK'
  <2>1. Known' = Known /\ GatewayRows' = GatewayRows
    BY <1>10 DEF Known, GatewayRows
  <2> QED BY <1>10, <2>1 DEF AccessTypeOK, ApprovingOK, RowsOf
<1>11. CASE FinishApproval(g)
  <2>1. /\ approving[g] # None /\ DOMAIN approving[g].written \subseteq Gateways
        /\ approving[g].written \in [DOMAIN approving[g].written -> GatewayRows]
    BY <1>11 DEF FinishApproval, AccessTypeOK, ApprovingOK, RowsOf
  <2>2. gate' \in [Gateways -> GatewayRows]
    BY <1>1, <1>11, <2>1 DEF FinishApproval
  <2>3. ApprovingOK' /\ enabled' \subseteq Gateways
    BY <1>10, <1>11, Counts DEF FinishApproval
  <2> QED BY <1>11, <2>2, <2>3, GateOnly, Counts DEF FinishApproval
<1>12. CASE ApprovalRefused(g)
  <2>1. ApprovingOK'
    BY <1>10, <1>12 DEF ApprovalRefused
  <2> QED BY <1>1, <1>12, <2>1, GateOnly, Counts DEF ApprovalRefused
<1>8. ASSUME NEW u \in Users \cup {None}, NEW d \in Devices, EnrollRefused(g, u, d) PROVE AccessTypeOK'
  <2>1. [gate[g] EXCEPT !.code = FALSE] \in GatewayRows
    BY <1>1 DEF GatewayRows
  <2>2. gate' \in [Gateways -> GatewayRows]
    BY <1>8, <2>1, TypeSave DEF EnrollRefused
  <2>3. device' \in [Devices -> Docs] /\ Known \subseteq Known'
    <3>1. CASE d \in Devices \ (Known \cup {gate[g].mcf})
      <4>1. device' = Observed(d, IF u = None THEN Guest ELSE u)
        BY <1>8, <3>1 DEF EnrollRefused
      <4>2. (IF u = None THEN Guest ELSE u) \in Users \cup {Guest}
        BY AccessAssumption
      <4> QED BY <3>1, <4>1, <4>2, ObservedRow DEF Known
    <3>2. CASE d \notin Devices \ (Known \cup {gate[g].mcf})
      BY <1>8, <3>2, Rows DEF EnrollRefused, Known
    <3> QED BY <3>1, <3>2
  <2>4. /\ shop' \in [Shops -> [mcf : Known' \cup {None}, active : BOOLEAN]]
        /\ gate' \in [Gateways -> GatewayRows'] /\ ApprovingOK'
    <3>1. GatewayRows \subseteq GatewayRows'
      BY <2>3 DEF GatewayRows
    <3> QED BY <1>8, <2>2, <2>3, <3>1, KnownGrows DEF EnrollRefused
  <2> QED BY <1>8, <2>3, <2>4 DEF EnrollRefused, AccessTypeOK, Docs
<1>9. ASSUME NEW u \in Users \cup {None}, NEW k \in Keys, Enroll(g, u, k) PROVE AccessTypeOK'
  <2>1. NewKey(g, u, k) \in GatewayRows
    BY <1>1 DEF NewKey, GatewayRows, GatewayStatus
  <2>2. gate' \in [Gateways -> GatewayRows]
    BY <1>9, <2>1, TypeSave DEF Enroll
  <2>3. device' \in [Devices -> Docs] /\ Known' = Known
    <3>1. \A d \in Devices : [device[d] EXCEPT !.nif = "ours"] \in Docs
      BY Rows DEF Docs, Nifs
    <3>2. device' \in [Devices -> Docs]
      BY <1>9, <3>1, Rows DEF Enroll
    <3>3. \A d \in Devices : device'[d].st = device[d].st
      BY <1>9, Rows DEF Enroll, Docs
    <3> QED BY <3>2, <3>3 DEF Known
  <2>4. enabled' \subseteq Gateways
    BY <1>9, Counts DEF Enroll
  <2>5. UNCHANGED <<mcf, shop, edits, codes>>
    BY <1>9 DEF Enroll
  <2>6. ApprovingOK' /\ GatewayRows' = GatewayRows
    BY <1>9, <2>3, KnownGrows DEF Enroll, GatewayRows
  <2> QED BY <2>2, <2>3, <2>4, <2>5, <2>6 DEF AccessTypeOK, Docs
<1> QED BY <1>2, <1>3, <1>4, <1>5, <1>6, <1>7, <1>8, <1>9, <1>11, <1>12 DEF Station

LEMMA TypeEditShop ==
  ASSUME AccessTypeOK, NEW s \in Shops, NEW d \in Devices \cup {None}, NEW a \in BOOLEAN,
         EditShop(s, d, a)
  PROVE  AccessTypeOK'
<1>1. d \in Known \cup {None}
  BY DEF EditShop, Attachable
<1>2. device' \in [Devices -> Docs] /\ Known' = Known
  <2>1. \A e \in Devices : [device[e] EXCEPT !.shop = s] \in Docs
    BY Rows DEF Docs
  <2>2. device' \in [Devices -> Docs]
    BY <2>1, Rows DEF EditShop
  <2>3. \A e \in Devices : device'[e].st = device[e].st
    BY Rows DEF EditShop, Docs
  <2> QED BY <2>2, <2>3 DEF Known
<1>3. gate' \in [Gateways -> GatewayRows]
  <2>1. \A g \in Gateways : gate[g] \in GatewayRows
    BY Rows
  <2>2. \A g \in Gateways : d # None => [gate[g] EXCEPT !.mcf = d] \in GatewayRows
    BY <1>1, <2>1 DEF GatewayRows
  <2>3. Followed(s, d) \in [Gateways -> GatewayRows]
    BY <2>1, <2>2 DEF Followed
  <2> QED BY <2>3 DEF EditShop
<1>4. shop' \in [Shops -> [mcf : Known \cup {None}, active : BOOLEAN]]
  BY <1>1 DEF EditShop, AccessTypeOK
<1>5. ApprovingOK' /\ GatewayRows' = GatewayRows
  BY <1>2, KnownGrows DEF EditShop, GatewayRows
<1> QED BY <1>2, <1>3, <1>4, <1>5, AccessAssumption DEF EditShop, Edit, AccessTypeOK, Docs

LEMMA TypeNext == AccessTypeOK /\ [Next]_vars => AccessTypeOK'
<1>1. ASSUME AccessTypeOK, UNCHANGED vars PROVE AccessTypeOK'
  <2>1. ApprovingOK' /\ GatewayRows' = GatewayRows /\ Known' = Known
    BY <1>1, KnownGrows DEF vars, GatewayRows, Known
  <2> QED BY <1>1, <2>1 DEF AccessTypeOK, vars
<1> QED BY <1>1, TypeRegister, TypeStation, TypeEditShop DEF Next

(* Every document of the registry and of the stations stays well formed, and the MCF *)
(* that a point de vente or a station names has a record.                            *)
THEOREM AccessTypeCorrect == Spec => []AccessTypeOK
BY InitType, TypeNext, PTL DEF Spec

----
(* What an active MCF carries was accepted.                                 *)

(* A step after which every active MCF already was one, attached and accepted as before. *)
LEMMA NothingActivated ==
  ASSUME ActiveIsAccepted,
         \A d \in Devices : device'[d].st = "Actif" =>
           /\ device[d].st = "Actif"
           /\ device'[d].shop = device[d].shop
           /\ device'[d].validated = device[d].validated
  PROVE  ActiveIsAccepted'
BY DEF ActiveIsAccepted, HasActive

LEMMA AcceptedRegister ==
  ASSUME AccessTypeOK, ActiveIsAccepted, NEW d \in Devices, Register(d)
  PROVE  ActiveIsAccepted'
<1>1. ASSUME NEW u \in Users, NEW s \in Shops, Propose(u, d, s) PROVE ActiveIsAccepted'
  BY <1>1, ObservedRow, NothingActivated DEF Propose
<1>2. ASSUME NEW u \in Users, NEW s \in Shops, ValidateDevice(u, d, s) PROVE ActiveIsAccepted'
  <2>1. /\ device'[d].st = "Actif" /\ device'[d].shop = s
        /\ device'[d].validated = device[d].mid
        /\ \A e \in Devices \ {d} : device'[e] = device[e]
    BY <1>2, Rows DEF ValidateDevice, Docs
  <2>2. device[d].mid # None /\ device[d].mid[1] = d /\ s # None
    BY <1>2, AccessAssumption DEF ValidateDevice, Comparable
  <2>3. \A e \in Devices \ {d} : device[e].st = "Actif" => device[e].shop # s
    BY <1>2 DEF ValidateDevice, HasActive
  <2> QED BY <2>1, <2>2, <2>3 DEF ActiveIsAccepted, HasActive
<1>3. ASSUME NEW e \in Devices \cup {None}, DeskTest(d, e) PROVE ActiveIsAccepted'
  <2>1. \A f \in Devices : /\ device'[f].shop = device[f].shop
                           /\ device'[f].validated = device[f].validated
                           /\ device'[f].st \in {device[f].st, "A revalider"}
    BY <1>3, Rows, CheckedStatus DEF DeskTest, Docs
  <2> QED BY <2>1, NothingActivated
<1>4. ASSUME NEW g \in Gateways, Heartbeat(g, d) PROVE ActiveIsAccepted'
  <2>1. \A f \in Devices : /\ device'[f].shop = device[f].shop
                           /\ device'[f].validated = device[f].validated
                           /\ device'[f].st \in {device[f].st, "A revalider"}
    <3> DEFINE m  == gate[g].mcf
               st == IF m = d THEN Checked(m, Mid(d), mcf[d].nif) ELSE device[m].st
    <3>1. m \in Devices => st \in {device[m].st, "A revalider"}
      BY CheckedStatus
    <3>2. device' = [device EXCEPT ![m].mid = Mid(d), ![m].st = st]
      BY <1>4 DEF Heartbeat
    <3> HIDE DEF m, st
    <3> QED BY <3>1, <3>2, Rows DEF Docs
  <2> QED BY <2>1, NothingActivated
<1>5. ASSUME NEW st \in DeviceStatus \ {"None"}, NEW s \in Shops \cup {None}, EditDevice(d, st, s)
      PROVE  ActiveIsAccepted'
  <2>1. /\ device'[d].st = st /\ device'[d].shop = s
        /\ device'[d].validated = device[d].validated
        /\ \A e \in Devices \ {d} : device'[e] = device[e]
    BY <1>5, Rows DEF EditDevice, Docs
  <2>2. st = "Actif" => device[d].st = "Actif" /\ s # None /\ ~HasActive(d, s)
    BY <1>5 DEF EditDevice, MaySave
  <2> QED BY <2>1, <2>2 DEF ActiveIsAccepted, HasActive
<1>6. ASSUME NEW c \in Counters, NEW nif \in Nifs, Reconfigure(d, c, nif) PROVE ActiveIsAccepted'
  BY <1>6, NothingActivated DEF Reconfigure
<1> QED BY <1>1, <1>2, <1>3, <1>4, <1>5, <1>6 DEF Register

LEMMA AcceptedStation ==
  ASSUME AccessTypeOK, ActiveIsAccepted, NEW g \in Gateways, Station(g)
  PROVE  ActiveIsAccepted'
<1>1. CASE \/ CreateStation(g) \/ GenerateCode(g) \/ CodeLapses(g) \/ Revoke(g)
           \/ FinishApproval(g) \/ ApprovalRefused(g)
           \/ \E kind \in Kinds : EditGateway(g, kind)
  BY <1>1, NothingActivated
  DEF CreateStation, EditGateway, GenerateCode, CodeLapses, Revoke, FinishApproval, ApprovalRefused
<1>2. ASSUME NEW u \in Users, StartApproval(g, u) PROVE ActiveIsAccepted'
  BY <1>2, NothingActivated DEF StartApproval
<1>3. ASSUME NEW u \in Users \cup {None}, NEW d \in Devices, EnrollRefused(g, u, d) PROVE ActiveIsAccepted'
  <2> DEFINE reader == IF u = None THEN Guest ELSE u
  <2>1. device' \in {device, Observed(d, reader)}
    BY <1>3 DEF EnrollRefused
  <2>2. reader \in Users \cup {Guest}
    BY AccessAssumption
  <2> QED BY <2>1, <2>2, ObservedRow, NothingActivated
<1>4. ASSUME NEW u \in Users \cup {None}, NEW k \in Keys, Enroll(g, u, k) PROVE ActiveIsAccepted'
  <2>1. \A d \in Devices : /\ device'[d].st = device[d].st /\ device'[d].shop = device[d].shop
                           /\ device'[d].validated = device[d].validated
    BY <1>4, Rows DEF Enroll, Docs
  <2> QED BY <2>1, NothingActivated
<1> QED BY <1>1, <1>2, <1>3, <1>4 DEF Station

LEMMA AcceptedEditShop ==
  ASSUME AccessTypeOK, ActiveIsAccepted, NEW s \in Shops, NEW d \in Devices \cup {None},
         NEW a \in BOOLEAN, EditShop(s, d, a)
  PROVE  ActiveIsAccepted'
<1>1. d # None => device[d].shop \in {None, s} /\ d \in Devices
  BY DEF EditShop, Attachable
<1>2. \A e \in Devices : /\ device'[e].st = device[e].st
                         /\ device'[e].validated = device[e].validated
                         /\ device'[e].shop = IF e = d THEN s ELSE device[e].shop
  BY AccessAssumption, Rows DEF EditShop, Docs
<1>3. \A e \in Devices : device[e].st = "Actif" => device[e].shop # None
  BY DEF ActiveIsAccepted
<1>4. \A e \in Devices : device'[e].st = "Actif" =>
        device[e].st = "Actif" /\ device'[e].shop = device[e].shop
  BY <1>1, <1>2, <1>3, AccessAssumption
<1> QED BY <1>2, <1>4, NothingActivated

LEMMA AcceptedNext == AccessTypeOK /\ ActiveIsAccepted /\ [Next]_vars => ActiveIsAccepted'
<1>1. ASSUME ActiveIsAccepted, UNCHANGED vars PROVE ActiveIsAccepted'
  BY <1>1, NothingActivated DEF vars
<1> QED BY <1>1, AcceptedRegister, AcceptedStation, AcceptedEditShop DEF Next

(* An active MCF carries a MID of its own that a responsible accepted, is attached to a  *)
(* point de vente and shares it with no other active one: no reading, form, or moved    *)
(* point de vente gets around validate_device.                                          *)
THEOREM ActivationCorrect == Spec => []ActiveIsAccepted
<1>1. Init => ActiveIsAccepted
  BY DEF Init, ActiveIsAccepted, NoDevice
<1> QED BY <1>1, AccessTypeCorrect, AcceptedNext, PTL DEF Spec

----
(* The keys of the enabled stations were approved.                          *)

KeyOk(g) ==
  g \in enabled \/ gate[g].st = "Active" =>
    /\ g \in enabled /\ gate[g].st = "Active"
    /\ \E a \in approvals : /\ a.gate = g /\ a.key = gate[g].key
                            /\ TwoPeople /\ a.enrolled # None => a.by # a.enrolled

\* What an approval under way has read and will write.
Plan(g, a) ==
  /\ a.read[g].st = "A approuver" /\ a.read[g].mcf # None
  /\ TwoPeople /\ a.read[g].by # None => a.by # a.read[g].by
  /\ a.written[g] = [a.read[g] EXCEPT !.st = "Active"]
  /\ \A o \in DOMAIN a.read \ {g} :
       a.read[o].st = "Active" /\ a.written[o].st = "Revoquee" /\ ~a.written[o].code

Pending(g)    == approving[g] # None => Plan(g, approving[g])
PlansApproved == \A g \in Gateways : Pending(g)

(* A station that keeps its key and its user, or that is left out.           *)
LEMMA KeyKept ==
  ASSUME NEW g \in Gateways, KeyOk(g), approvals \subseteq approvals',
         \/ /\ gate'[g].st = gate[g].st /\ gate'[g].key = gate[g].key
            /\ g \in enabled <=> g \in enabled'
         \/ gate'[g].st # "Active" /\ g \notin enabled'
  PROVE  KeyOk(g)'
BY DEF KeyOk

(* What a save writes: the row it was given but for its MCF, and no other row. *)
LEMMA SaveWrites ==
  ASSUME AccessTypeOK, NEW g \in Gateways, NEW r \in GatewayRows, Save(g, r)
  PROVE  /\ \A o \in Gateways \ {g} : gate'[o] = gate[o]
         /\ gate'[g].st = r.st /\ gate'[g].key = r.key /\ gate'[g].code = r.code
         /\ gate'[g].mcf = shop[ShopOf(g)].mcf
         /\ r.st = "Active" =>
              \A o \in Gateways \ {g} : ~(gate[o].st = "Active" /\ gate[o].mcf = gate'[g].mcf)
BY Rows DEF Save, GatewayRows

(* The rows that the actions of a station give to save.                      *)
LEMMA SavedRows ==
  ASSUME AccessTypeOK, NEW g \in Gateways
  PROVE  /\ gate[g] \in GatewayRows
         /\ \A kind \in Kinds : /\ [NoGateway EXCEPT !.st = "Nouvelle", !.kind = kind] \in GatewayRows
                                /\ [gate[g] EXCEPT !.kind = kind] \in GatewayRows
         /\ [NoGateway EXCEPT !.st = "Nouvelle"] \in GatewayRows
         /\ [gate[g] EXCEPT !.code = TRUE, !.st = IF gate[g].st = "Active" THEN gate[g].st ELSE "Code emis"] \in GatewayRows
         /\ [gate[g] EXCEPT !.code = FALSE] \in GatewayRows
         /\ Revoked(gate[g]) \in GatewayRows
         /\ \A u \in Users \cup {None}, k \in Keys : NewKey(g, u, k) \in GatewayRows
BY Rows DEF GatewayRows, GatewayStatus, Kinds, NoGateway, Revoked, NewKey

(* An enrolment with a new key: the station waits, and its user is disabled.   *)
LEMMA EnrollWaits ==
  ASSUME AccessTypeOK, NEW g \in Gateways, NEW u \in Users \cup {None}, NEW k \in Keys, Enroll(g, u, k)
  PROVE  /\ gate[g].code /\ gate'[g].st = "A approuver" /\ ~gate'[g].code
         /\ \A o \in Gateways \ {g} : gate'[o] = gate[o]
         /\ enabled' = IF gate[g].st = "Active" THEN enabled \ {g} ELSE enabled
         /\ approvals' = approvals
<1>1. NewKey(g, u, k) \in GatewayRows /\ Save(g, NewKey(g, u, k))
  BY SavedRows DEF Enroll
<1>2. NewKey(g, u, k).st = "A approuver" /\ NewKey(g, u, k).code = FALSE
  BY Rows DEF NewKey, GatewayRows
<1> QED BY <1>1, <1>2, SaveWrites DEF Enroll

(* An approval that starts: what it has read of the stations of the MCF.        *)
LEMMA ApprovalReads ==
  ASSUME AccessTypeOK, NEW g \in Gateways, NEW u \in Users, StartApproval(g, u)
  PROVE  /\ Pending(g)'
         /\ DOMAIN approving'[g].read = Replaced(g) \cup {g}
         /\ approving'[g].read[g] = gate[g]
         /\ \A o \in Gateways \ {g} : approving'[o] = approving[o]
         /\ UNCHANGED <<gate, enabled, approvals, shop>>
<1> DEFINE read == Replaced(g) \cup {g}
           after(o) == IF o = g THEN [gate[o] EXCEPT !.st = "Active"]
                                ELSE [Revoked(gate[o]) EXCEPT !.mcf = shop[ShopOf(o)].mcf]
           a == [by |-> u, read |-> [o \in read |-> gate[o]], written |-> [o \in read |-> after(o)]]
<1>1. approving' = [approving EXCEPT ![g] = a]
  BY DEF StartApproval
<1>2. \A o \in Replaced(g) : o \in Gateways /\ o # g /\ gate[o].st = "Active"
  BY DEF Replaced
<1>3. \A o \in Replaced(g) : after(o).st = "Revoquee" /\ ~after(o).code
  BY <1>2, Rows DEF Revoked, GatewayRows
<1>4. /\ DOMAIN a.read = read /\ a.by = u /\ a.written[g] = [gate[g] EXCEPT !.st = "Active"]
      /\ \A o \in read : a.read[o] = gate[o] /\ a.written[o] = after(o)
      /\ g \in read
  OBVIOUS
<1>5. /\ gate[g].st = "A approuver" /\ gate[g].mcf # None
      /\ TwoPeople /\ gate[g].by # None => u # gate[g].by
      /\ UNCHANGED <<gate, enabled, approvals, shop>>
  BY DEF StartApproval
<1> HIDE DEF a, after
<1>6. /\ approving'[g] = a /\ \A o \in Gateways \ {g} : approving'[o] = approving[o]
  BY <1>1 DEF AccessTypeOK, ApprovingOK
<1>7. \A o \in DOMAIN a.read \ {g} : a.read[o].st = "Active" /\ a.written[o].st = "Revoquee" /\ ~a.written[o].code
  BY <1>2, <1>3, <1>4
<1>8. Plan(g, a)
  BY <1>4, <1>5, <1>7 DEF Plan
<1> QED BY <1>4, <1>5, <1>6, <1>8 DEF Pending

(* An approval that ends: the station is active, those that it read as active are revoked. *)
LEMMA ApprovalWrites ==
  ASSUME AccessTypeOK, NEW g \in Gateways, Pending(g), FinishApproval(g)
  PROVE  LET others == DOMAIN approving[g].read \ {g}
         IN  /\ others \subseteq Gateways
             /\ gate[g].st = "A approuver" /\ gate[g].mcf = approving[g].read[g].mcf /\ gate[g].mcf # None
             /\ gate'[g].st = "Active" /\ gate'[g].key = gate[g].key /\ gate'[g].mcf = gate[g].mcf
             /\ TwoPeople /\ gate[g].by # None => approving[g].by # gate[g].by
             /\ \A o \in others : gate[o].st = "Active" /\ gate'[o].st = "Revoquee" /\ ~gate'[o].code
             /\ \A o \in Gateways \ (others \cup {g}) : gate'[o] = gate[o]
             /\ enabled' = (enabled \ (others \cup {g})) \cup {g}
             /\ approvals' = approvals \cup {[gate |-> g, key |-> gate[g].key, enrolled |-> gate[g].by,
                                              by |-> approving[g].by]}
<1> DEFINE a == approving[g]
<1>1. /\ a # None /\ g \in DOMAIN a.read /\ DOMAIN a.read \subseteq Gateways
      /\ DOMAIN a.written = DOMAIN a.read
  BY DEF FinishApproval, AccessTypeOK, ApprovingOK
<1>2. \A o \in DOMAIN a.read : gate[o] = a.read[o]
  BY DEF FinishApproval, UpToDate
<1>3. /\ \A o \in Gateways : gate'[o] = IF o \in DOMAIN a.written THEN a.written[o] ELSE gate[o]
      /\ enabled' = (enabled \ DOMAIN a.written) \cup {g}
      /\ approvals' = approvals \cup {[gate |-> g, key |-> gate[g].key, enrolled |-> gate[g].by, by |-> a.by]}
  BY DEF FinishApproval
<1>4. /\ a.read[g].st = "A approuver" /\ a.read[g].mcf # None
      /\ TwoPeople /\ a.read[g].by # None => a.by # a.read[g].by
      /\ a.written[g] = [a.read[g] EXCEPT !.st = "Active"]
      /\ \A o \in DOMAIN a.read \ {g} :
           a.read[o].st = "Active" /\ a.written[o].st = "Revoquee" /\ ~a.written[o].code
  BY <1>1 DEF Pending, Plan
<1>5. gate'[g] = [gate[g] EXCEPT !.st = "Active"]
  BY <1>1, <1>2, <1>3, <1>4
<1>6. gate'[g].st = "Active" /\ gate'[g].key = gate[g].key /\ gate'[g].mcf = gate[g].mcf
  BY <1>5, Rows DEF GatewayRows
<1> QED BY <1>1, <1>2, <1>3, <1>4, <1>6

(* A code: issued to a station that is not revoked, which keeps its key.        *)
LEMMA CodeWrites ==
  ASSUME AccessTypeOK, NEW g \in Gateways, GenerateCode(g)
  PROVE  /\ gate[g].st # "Revoquee" /\ gate'[g].st # "Revoquee"
         /\ gate'[g].key = gate[g].key
         /\ gate'[g].st = "Active" <=> gate[g].st = "Active"
         /\ \A o \in Gateways \ {g} : gate'[o] = gate[o]
<1> DEFINE r == [gate[g] EXCEPT !.code = TRUE,
                   !.st = IF gate[g].st = "Active" THEN gate[g].st ELSE "Code emis"]
<1>1. r \in GatewayRows /\ Save(g, r)
  BY SavedRows DEF GenerateCode
<1>2. /\ r.key = gate[g].key /\ r.st \in {gate[g].st, "Code emis"}
      /\ r.st = "Active" <=> gate[g].st = "Active"
  BY Rows DEF GatewayRows
<1> HIDE DEF r
<1> QED BY <1>1, <1>2, SaveWrites DEF GenerateCode

(* The steps that do not touch the status, the key or the user of a station.     *)
Quiet(g) ==
  \/ \E kind \in Kinds : EditGateway(g, kind) /\ gate[g].st # "None"
  \/ CodeLapses(g)
  \/ \E u \in Users \cup {None}, d \in Devices : EnrollRefused(g, u, d)
  \/ \E u \in Users : StartApproval(g, u)
  \/ ApprovalRefused(g)

Created(g) == CreateStation(g) \/ \E kind \in Kinds : EditGateway(g, kind) /\ gate[g].st = "None"

LEMMA StationKept ==
  ASSUME AccessTypeOK, NEW g \in Gateways, Quiet(g)
  PROVE  /\ gate'[g].st = gate[g].st /\ gate'[g].key = gate[g].key
         /\ gate'[g].code => gate[g].code
         /\ \A o \in Gateways \ {g} : gate'[o] = gate[o]
         /\ UNCHANGED <<enabled, approvals>>
<1>1. ASSUME NEW kind \in Kinds, EditGateway(g, kind) /\ gate[g].st # "None"
      PROVE  /\ gate'[g].st = gate[g].st /\ gate'[g].key = gate[g].key
             /\ gate'[g].code => gate[g].code
             /\ \A o \in Gateways \ {g} : gate'[o] = gate[o]
             /\ UNCHANGED <<enabled, approvals>>
  <2> DEFINE r == [gate[g] EXCEPT !.kind = kind]
  <2>1. /\ r \in GatewayRows /\ Save(g, r)
        /\ r.st = gate[g].st /\ r.key = gate[g].key /\ r.code = gate[g].code
    BY <1>1, SavedRows DEF EditGateway, GatewayRows
  <2> HIDE DEF r
  <2> QED BY <1>1, <2>1, SaveWrites DEF EditGateway
<1>2. CASE CodeLapses(g)
  BY <1>2, Rows DEF CodeLapses, GatewayRows
<1>3. ASSUME NEW u \in Users \cup {None}, NEW d \in Devices, EnrollRefused(g, u, d)
      PROVE  /\ gate'[g].st = gate[g].st /\ gate'[g].key = gate[g].key
             /\ gate'[g].code => gate[g].code
             /\ \A o \in Gateways \ {g} : gate'[o] = gate[o]
             /\ UNCHANGED <<enabled, approvals>>
  <2>1. [gate[g] EXCEPT !.code = FALSE] \in GatewayRows /\ Save(g, [gate[g] EXCEPT !.code = FALSE])
    BY <1>3, SavedRows DEF EnrollRefused
  <2>2. /\ [gate[g] EXCEPT !.code = FALSE].st = gate[g].st
        /\ [gate[g] EXCEPT !.code = FALSE].key = gate[g].key
    BY Rows DEF GatewayRows
  <2>3. gate[g].code
    BY <1>3 DEF EnrollRefused
  <2> QED BY <1>3, <2>1, <2>2, <2>3, SaveWrites DEF EnrollRefused
<1>4. CASE (\E u \in Users : StartApproval(g, u)) \/ ApprovalRefused(g)
  BY <1>4 DEF StartApproval, ApprovalRefused
<1> QED BY <1>1, <1>2, <1>3, <1>4 DEF Quiet

(* A station that is created: no user, and not yet enrolled.                      *)
LEMMA StationCreated ==
  ASSUME AccessTypeOK, NEW g \in Gateways, Created(g)
  PROVE  /\ gate[g].st = "None" /\ gate'[g].st = "Nouvelle" /\ ~gate'[g].code
         /\ \A o \in Gateways \ {g} : gate'[o] = gate[o]
         /\ UNCHANGED <<enabled, approvals>>
<1>1. PICK r \in GatewayRows : Save(g, r) /\ r.st = "Nouvelle" /\ r.code = FALSE
  <2>1. \A kind \in Kinds : LET r == [NoGateway EXCEPT !.st = "Nouvelle", !.kind = kind]
                            IN  r \in GatewayRows /\ r.st = "Nouvelle" /\ r.code = FALSE
    BY SavedRows DEF NoGateway
  <2>2. LET r == [NoGateway EXCEPT !.st = "Nouvelle"] IN r \in GatewayRows /\ r.st = "Nouvelle" /\ r.code = FALSE
    BY SavedRows DEF NoGateway
  <2> QED BY <2>1, <2>2 DEF Created, CreateStation, EditGateway
<1>2. gate[g].st = "None" /\ UNCHANGED <<enabled, approvals>>
  BY DEF Created, CreateStation, EditGateway
<1> QED BY <1>1, <1>2, SaveWrites

(* A revocation.                                                                  *)
LEMMA RevokeWrites ==
  ASSUME AccessTypeOK, NEW g \in Gateways, Revoke(g)
  PROVE  /\ gate'[g].st = "Revoquee" /\ ~gate'[g].code
         /\ \A o \in Gateways \ {g} : gate'[o] = gate[o]
         /\ enabled' = enabled \ {g} /\ approvals' = approvals
<1>1. /\ Revoked(gate[g]) \in GatewayRows /\ Save(g, Revoked(gate[g]))
      /\ Revoked(gate[g]).st = "Revoquee" /\ Revoked(gate[g]).code = FALSE
  BY Rows, SavedRows DEF Revoke, Revoked, GatewayRows
<1> QED BY <1>1, SaveWrites DEF Revoke

(* A point de vente that takes another MCF: only its stations without a key follow. *)
LEMMA FollowedWrites ==
  ASSUME AccessTypeOK, NEW s \in Shops, NEW d, NEW g \in Gateways
  PROVE  /\ Followed(s, d)[g].st = gate[g].st /\ Followed(s, d)[g].key = gate[g].key
         /\ Followed(s, d)[g].code = gate[g].code
         /\ gate[g].st = "Active" => Followed(s, d)[g] = gate[g]
BY Rows DEF Followed, GatewayRows

(* The actions on MCFs and points de vente leave the status, the key and the user of the stations. *)
LEMMA RegistryKeepsStations ==
  ASSUME AccessTypeOK,
         \/ \E d \in Devices : Register(d)
         \/ \E s \in Shops, d \in Devices \cup {None}, a \in BOOLEAN : EditShop(s, d, a)
  PROVE  /\ UNCHANGED <<enabled, approvals>>
         /\ \A g \in Gateways : /\ gate'[g].st = gate[g].st /\ gate'[g].key = gate[g].key
                                /\ gate'[g].code = gate[g].code
                                /\ gate[g].st = "Active" => gate'[g] = gate[g]
<1>1. \/ gate' = gate /\ UNCHANGED <<enabled, approvals>>
      \/ \E s \in Shops, d \in Devices \cup {None} :
           gate' = Followed(s, d) /\ UNCHANGED <<enabled, approvals>>
  <2>1. ASSUME NEW d \in Devices, NEW u \in Users, NEW s \in Shops, ValidateDevice(u, d, s)
        PROVE  gate' = Followed(s, d) /\ UNCHANGED <<enabled, approvals>>
    BY <2>1 DEF ValidateDevice
  <2>2. ASSUME NEW s \in Shops, NEW d \in Devices \cup {None}, NEW a \in BOOLEAN, EditShop(s, d, a)
        PROVE  gate' = Followed(s, d) /\ UNCHANGED <<enabled, approvals>>
    BY <2>2 DEF EditShop
  <2>3. ASSUME NEW d \in Devices, Register(d),
               ~ \E u \in Users, s \in Shops : ValidateDevice(u, d, s)
        PROVE  gate' = gate /\ UNCHANGED <<enabled, approvals>>
    BY <2>3 DEF Register, Propose, DeskTest, Heartbeat, EditDevice, Reconfigure
  <2> QED BY <2>1, <2>2, <2>3
<1> QED BY <1>1, FollowedWrites

(* The steps of the system, as the proofs below split them.                        *)
LEMMA Steps ==
  ASSUME Next
  PROVE  \/ \E d \in Devices : Register(d)
         \/ \E s \in Shops, d \in Devices \cup {None}, a \in BOOLEAN : EditShop(s, d, a)
         \/ \E g \in Gateways :
              \/ Created(g) \/ Quiet(g)
              \/ GenerateCode(g) \/ Revoke(g)
              \/ FinishApproval(g)
              \/ \E u \in Users \cup {None}, k \in Keys : Enroll(g, u, k)
BY DEF Next, Station, Created, Quiet

(* A step on another station, an MCF or a point de vente leaves the approvals under way. *)
LEMMA ApprovingSteps == AccessTypeOK /\ PlansApproved /\ [Next]_vars => PlansApproved'
<1> SUFFICES ASSUME AccessTypeOK, [Next]_vars, \A g \in Gateways : Pending(g)
             PROVE  \A g \in Gateways : Pending(g)'
  BY DEF PlansApproved
<1>1. CASE UNCHANGED approving
  BY <1>1 DEF Pending
<1>2. ASSUME NEW g \in Gateways, NEW u \in Users, StartApproval(g, u)
      PROVE  \A o \in Gateways : Pending(o)'
  BY <1>2, ApprovalReads DEF Pending
<1>3. ASSUME NEW g \in Gateways, FinishApproval(g) \/ ApprovalRefused(g)
      PROVE  \A o \in Gateways : Pending(o)'
  <2>1. approving' = [approving EXCEPT ![g] = None] /\ DOMAIN approving = Gateways
    BY <1>3 DEF FinishApproval, ApprovalRefused, AccessTypeOK, ApprovingOK
  <2> QED BY <2>1 DEF Pending
<1>4. \/ UNCHANGED approving
      \/ \E g \in Gateways : \/ \E u \in Users : StartApproval(g, u)
                            \/ FinishApproval(g) \/ ApprovalRefused(g)
  <2>1. ASSUME NEW d \in Devices, Register(d) PROVE UNCHANGED approving
    BY <2>1 DEF Register, Propose, ValidateDevice, DeskTest, Heartbeat, EditDevice, Reconfigure
  <2>2. ASSUME NEW g \in Gateways, Station(g)
        PROVE  \/ UNCHANGED approving \/ \E u \in Users : StartApproval(g, u)
               \/ FinishApproval(g) \/ ApprovalRefused(g)
    BY <2>2 DEF Station, CreateStation, EditGateway, GenerateCode, CodeLapses, Revoke, EnrollRefused, Enroll
  <2>3. ASSUME NEW s \in Shops, NEW d \in Devices \cup {None}, NEW b \in BOOLEAN, EditShop(s, d, b)
        PROVE  UNCHANGED approving
    BY <2>3 DEF EditShop
  <2>4. UNCHANGED vars => UNCHANGED approving
    BY DEF vars
  <2> QED BY <2>1, <2>2, <2>3, <2>4 DEF Next
<1> QED BY <1>1, <1>2, <1>3, <1>4

(* An approval under way writes what it read: the gateway with the key that its approver  *)
(* saw, and the gateways that were active then, revoked.                                 *)
THEOREM ApprovalsKept == Spec => []PlansApproved
<1>1. Init => PlansApproved
  BY DEF Init, Pending, PlansApproved
<1> QED BY <1>1, ApprovingSteps, AccessTypeCorrect, PTL DEF Spec

LEMMA KeyNext ==
  ASSUME AccessTypeOK, \A g \in Gateways : KeyOk(g) /\ Pending(g), Next
  PROVE  \A g \in Gateways : KeyOk(g)'
<1>1. CASE \/ \E d \in Devices : Register(d)
           \/ \E s \in Shops, d \in Devices \cup {None}, a \in BOOLEAN : EditShop(s, d, a)
  BY <1>1, RegistryKeepsStations, KeyKept
<1>2. ASSUME NEW g \in Gateways, Created(g)
      PROVE  \A o \in Gateways : KeyOk(o)'
  BY <1>2, StationCreated, KeyKept DEF KeyOk
<1>3. ASSUME NEW g \in Gateways, Quiet(g)
      PROVE  \A o \in Gateways : KeyOk(o)'
  BY <1>3, StationKept, KeyKept
<1>4. ASSUME NEW g \in Gateways, GenerateCode(g) PROVE \A o \in Gateways : KeyOk(o)'
  <2>1. UNCHANGED <<enabled, approvals>>
    BY <1>4 DEF GenerateCode
  <2>2. KeyOk(g)'
    BY <1>4, <2>1, CodeWrites DEF KeyOk
  <2> QED BY <1>4, <2>1, <2>2, CodeWrites, KeyKept
<1>5. ASSUME NEW g \in Gateways, Revoke(g) PROVE \A o \in Gateways : KeyOk(o)'
  BY <1>5, RevokeWrites, KeyKept
<1>6. ASSUME NEW g \in Gateways, FinishApproval(g) PROVE \A o \in Gateways : KeyOk(o)'
  <2> DEFINE others == DOMAIN approving[g].read \ {g}
             a == [gate |-> g, key |-> gate[g].key, enrolled |-> gate[g].by, by |-> approving[g].by]
  <2>1. KeyOk(g)'
    <3>1. a \in approvals' /\ a.gate = g /\ a.key = gate[g].key /\ (TwoPeople /\ a.enrolled # None => a.by # a.enrolled)
      BY <1>6, ApprovalWrites
    <3>2. g \in enabled' /\ gate'[g].st = "Active" /\ gate'[g].key = gate[g].key
      BY <1>6, ApprovalWrites
    <3> HIDE DEF a
    <3> QED BY <3>1, <3>2 DEF KeyOk
  <2>2. ASSUME NEW o \in Gateways \ {g} PROVE KeyOk(o)'
    <3>1. approvals \subseteq approvals' /\ enabled' = (enabled \ (others \cup {g})) \cup {g}
      BY <1>6, ApprovalWrites
    <3>2. o \in others => gate'[o].st = "Revoquee"
      BY <1>6, ApprovalWrites
    <3>3. o \notin others => gate'[o] = gate[o]
      BY <1>6, ApprovalWrites
    <3> HIDE DEF others, a
    <3>4. KeyOk(o)
      OBVIOUS
    <3>5. CASE o \in others
      BY <3>1, <3>2, <3>4, <3>5, KeyKept
    <3>6. CASE o \notin others
      BY <3>1, <3>3, <3>4, <3>6, KeyKept
    <3> QED BY <3>5, <3>6
  <2> QED BY <2>1, <2>2
<1>7. ASSUME NEW g \in Gateways, NEW u \in Users \cup {None}, NEW k \in Keys, Enroll(g, u, k)
      PROVE  \A o \in Gateways : KeyOk(o)'
  <2>1. /\ gate'[g].st = "A approuver"
        /\ enabled' = IF gate[g].st = "Active" THEN enabled \ {g} ELSE enabled
    BY <1>7, EnrollWaits
  <2>2. gate[g].st # "Active" => g \notin enabled
    BY DEF KeyOk
  <2>3. gate'[g].st # "Active" /\ g \notin enabled'
    BY <2>1, <2>2
  <2>4. approvals' = approvals /\ \A o \in Gateways \ {g} : gate'[o] = gate[o]
    BY <1>7, EnrollWaits
  <2>5. \A o \in Gateways \ {g} : o \in enabled <=> o \in enabled'
    BY <2>1
  <2> QED BY <2>3, <2>4, <2>5, KeyKept
<1> QED BY <1>1, <1>2, <1>3, <1>4, <1>5, <1>6, <1>7, Steps

(* A station whose user is enabled is Active, and the key its requests are verified with *)
(* is one that somebody approved, under two people somebody else than who enrolled it,   *)
(* if an operator did:                                                                   *)
(* no rotation, replacement, revocation or form gets around approve_gateway.             *)
THEOREM KeysCorrect == Spec => []KeyApproved
<1>1. KeyApproved <=> \A g \in Gateways : KeyOk(g)
  BY DEF KeyApproved, KeyOk
<1>2. Init => KeyApproved
  BY DEF Init, KeyApproved, NoGateway
<1>3. ASSUME AccessTypeOK, KeyApproved, PlansApproved, [Next]_vars PROVE KeyApproved'
  <2>1. CASE Next
    <3>1. \A g \in Gateways : KeyOk(g)'
      BY <1>1, <1>3, <2>1, KeyNext DEF PlansApproved
    <3> QED BY <3>1 DEF KeyApproved, KeyOk
  <2>2. CASE UNCHANGED vars
    BY <1>3, <2>2 DEF KeyApproved, vars
  <2> QED BY <1>3, <2>1, <2>2
<1> QED BY <1>2, <1>3, AccessTypeCorrect, ApprovalsKept, PTL DEF Spec

----
(* One active station per MCF.                                              *)

(* A step that activates nobody, and gives no active station another MCF.    *)
LEMMA NobodyActivated ==
  ASSUME OneActivePerMcf,
         \A g \in Gateways : gate'[g].st = "Active" => gate[g].st = "Active" /\ gate'[g].mcf = gate[g].mcf
  PROVE  OneActivePerMcf'
BY DEF OneActivePerMcf

(* What approvals that take turns keep: no active station is without MCF, two approvals   *)
(* under way are for two MCFs, and each of them read every active station of its own.     *)
Alone(g) ==
  approving[g] # None =>
    \A o \in Gateways :
      /\ o # g /\ approving[o] # None => approving[o].read[o].mcf # approving[g].read[g].mcf
      /\ gate[o].st = "Active" /\ gate[o].mcf = approving[g].read[g].mcf => o \in DOMAIN approving[g].read

TakenInTurns ==
  /\ \A g \in Gateways : gate[g].st = "Active" => gate[g].mcf # None
  /\ \A g \in Gateways : Alone(g)
  /\ OneActivePerMcf

(* A step that activates nobody, gives no active station another MCF and starts no approval. *)
LEMMA TurnKept ==
  ASSUME TakenInTurns,
         \A g \in Gateways : gate'[g].st = "Active" => gate[g].st = "Active" /\ gate'[g].mcf = gate[g].mcf,
         \A g \in Gateways : approving'[g] \in {approving[g], None}
  PROVE  TakenInTurns'
<1>1. OneActivePerMcf'
  BY NobodyActivated DEF TakenInTurns
<1>2. ASSUME NEW g \in Gateways PROVE Alone(g)'
  BY DEF TakenInTurns, Alone
<1> QED BY <1>1, <1>2 DEF TakenInTurns

LEMMA TurnSaved ==
  ASSUME AccessTypeOK, TakenInTurns, NEW g \in Gateways, NEW r \in GatewayRows, Save(g, r),
         r.st = "Active" => gate[g].st = "Active" /\ r.mcf = gate[g].mcf,
         approving' = approving
  PROVE  TakenInTurns'
<1>1. r.st = "Active" => gate[g].mcf # None
  BY DEF TakenInTurns
<1>2. r.st = "Active" => r.mcf = shop[ShopOf(g)].mcf
  BY <1>1 DEF Save
<1>3. \A o \in Gateways : gate'[o].st = "Active" => gate[o].st = "Active" /\ gate'[o].mcf = gate[o].mcf
  BY <1>2, SaveWrites
<1> QED BY <1>3, TurnKept

LEMMA TurnFinished ==
  ASSUME AccessTypeOK, TakenInTurns, NEW g \in Gateways, Pending(g), FinishApproval(g)
  PROVE  TakenInTurns'
<1> DEFINE others == DOMAIN approving[g].read \ {g}
           m == approving[g].read[g].mcf
<1>1. /\ gate'[g].st = "Active" /\ gate'[g].mcf = m /\ m # None
      /\ \A o \in others : gate'[o].st = "Revoquee"
      /\ \A o \in Gateways \ (others \cup {g}) : gate'[o] = gate[o]
  BY ApprovalWrites
<1>2. /\ approving[g] # None /\ approving'[g] = None
      /\ \A o \in Gateways \ {g} : approving'[o] = approving[o]
  BY DEF FinishApproval, AccessTypeOK, ApprovingOK
<1>3. \A o \in Gateways \ {g} : gate'[o].st = "Active" =>
        gate[o].st = "Active" /\ gate'[o] = gate[o] /\ gate[o].mcf # m
  BY <1>1, <1>2 DEF TakenInTurns, Alone
<1>4. OneActivePerMcf'
  BY <1>1, <1>3 DEF OneActivePerMcf, TakenInTurns
<1>5. ASSUME NEW h \in Gateways PROVE Alone(h)'
  <2> SUFFICES ASSUME approving'[h] # None, NEW o \in Gateways
               PROVE  /\ o # h /\ approving'[o] # None => approving'[o].read[o].mcf # approving'[h].read[h].mcf
                      /\ gate'[o].st = "Active" /\ gate'[o].mcf = approving'[h].read[h].mcf =>
                           o \in DOMAIN approving'[h].read
    BY DEF Alone
  <2>1. h # g /\ approving'[h] = approving[h]
    BY <1>2
  <2>2. Alone(h)
    BY DEF TakenInTurns
  <2>3. approving[h].read[h].mcf # m
    BY <1>2, <2>1, <2>2 DEF Alone
  <2>4. CASE o = g
    BY <1>1, <1>2, <2>3, <2>4
  <2>5. CASE o # g
    BY <1>2, <1>3, <2>1, <2>2, <2>5 DEF Alone
  <2> QED BY <2>4, <2>5
<1>6. \A o \in Gateways : gate'[o].st = "Active" => gate'[o].mcf # None
  BY <1>1, <1>3 DEF TakenInTurns
<1> QED BY <1>4, <1>5, <1>6 DEF TakenInTurns

LEMMA TurnStarted ==
  ASSUME ~Overlap, AccessTypeOK, TakenInTurns, \A o \in Gateways : Pending(o),
         NEW g \in Gateways, NEW u \in Users, StartApproval(g, u)
  PROVE  TakenInTurns'
<1>1. /\ UNCHANGED gate /\ approving'[g].read[g] = gate[g]
      /\ DOMAIN approving'[g].read = Replaced(g) \cup {g}
      /\ \A o \in Gateways \ {g} : approving'[o] = approving[o]
  BY ApprovalReads
<1>2. \A o \in Gateways : approving[o] # None => approving[o].read[o].mcf # gate[g].mcf
  BY DEF StartApproval
<1>3. Alone(g)'
  BY <1>1, <1>2 DEF Alone, Replaced
<1>4. ASSUME NEW h \in Gateways \ {g} PROVE Alone(h)'
  <2>1. Alone(h)
    BY DEF TakenInTurns
  <2> SUFFICES ASSUME approving[h] # None PROVE Alone(h)'
    BY <1>1 DEF Alone
  <2>2. \A o \in Gateways \ {h} : approving'[o] # None => approving'[o].read[o].mcf # approving'[h].read[h].mcf
    BY <1>1, <1>2, <2>1 DEF Alone
  <2> QED BY <1>1, <2>1, <2>2 DEF Alone
<1>5. OneActivePerMcf' /\ \A o \in Gateways : gate'[o].st = "Active" => gate'[o].mcf # None
  BY <1>1 DEF TakenInTurns, OneActivePerMcf
<1> QED BY <1>3, <1>4, <1>5 DEF TakenInTurns

LEMMA OneActiveNext ==
  ~Overlap /\ AccessTypeOK /\ TakenInTurns /\ PlansApproved /\ [Next]_vars => TakenInTurns'
<1> SUFFICES ASSUME ~Overlap, AccessTypeOK, TakenInTurns, \A g \in Gateways : Pending(g), [Next]_vars
             PROVE  TakenInTurns'
  BY DEF PlansApproved
<1>1. CASE \/ \E d \in Devices : Register(d)
           \/ \E s \in Shops, d \in Devices \cup {None}, a \in BOOLEAN : EditShop(s, d, a)
  <2>1. UNCHANGED approving
    BY <1>1 DEF Register, Propose, ValidateDevice, DeskTest, Heartbeat, EditDevice, Reconfigure, EditShop
  <2> QED BY <1>1, <2>1, RegistryKeepsStations, TurnKept
<1>2. ASSUME NEW g \in Gateways, CreateStation(g) PROVE TakenInTurns'
  BY <1>2, SavedRows, TurnSaved DEF CreateStation, NoGateway
<1>3. ASSUME NEW g \in Gateways, NEW kind \in Kinds, EditGateway(g, kind) PROVE TakenInTurns'
  <2> DEFINE r == IF gate[g].st = "None" THEN [NoGateway EXCEPT !.st = "Nouvelle", !.kind = kind]
                                         ELSE [gate[g] EXCEPT !.kind = kind]
  <2>1. r \in GatewayRows /\ (r.st = "Active" => gate[g].st = "Active" /\ r.mcf = gate[g].mcf)
    BY SavedRows DEF NoGateway, GatewayRows
  <2>2. Save(g, r) /\ approving' = approving
    BY <1>3 DEF EditGateway
  <2> HIDE DEF r
  <2> QED BY <2>1, <2>2, TurnSaved
<1>4. ASSUME NEW g \in Gateways, GenerateCode(g) PROVE TakenInTurns'
  <2> DEFINE r == [gate[g] EXCEPT !.code = TRUE,
                     !.st = IF gate[g].st = "Active" THEN gate[g].st ELSE "Code emis"]
  <2>1. r \in GatewayRows /\ (r.st = "Active" => gate[g].st = "Active" /\ r.mcf = gate[g].mcf)
    BY SavedRows DEF GatewayRows
  <2>2. Save(g, r) /\ approving' = approving
    BY <1>4 DEF GenerateCode
  <2> HIDE DEF r
  <2> QED BY <2>1, <2>2, TurnSaved
<1>5. ASSUME NEW g \in Gateways, CodeLapses(g) PROVE TakenInTurns'
  BY <1>5, Rows, TurnKept DEF CodeLapses, GatewayRows
<1>6. ASSUME NEW g \in Gateways, Revoke(g) PROVE TakenInTurns'
  <2>1. Revoked(gate[g]) \in GatewayRows /\ Revoked(gate[g]).st = "Revoquee"
    BY Rows, SavedRows DEF Revoked, GatewayRows
  <2> QED BY <1>6, <2>1, TurnSaved DEF Revoke
<1>7. ASSUME NEW g \in Gateways, ApprovalRefused(g) PROVE TakenInTurns'
  BY <1>7, TurnKept DEF ApprovalRefused, AccessTypeOK, ApprovingOK
<1>8. ASSUME NEW g \in Gateways, NEW u \in Users \cup {None}, NEW d \in Devices, EnrollRefused(g, u, d)
      PROVE  TakenInTurns'
  <2> DEFINE r == [gate[g] EXCEPT !.code = FALSE]
  <2>1. r \in GatewayRows /\ (r.st = "Active" => gate[g].st = "Active" /\ r.mcf = gate[g].mcf)
    BY SavedRows DEF GatewayRows
  <2>2. Save(g, r) /\ approving' = approving
    BY <1>8 DEF EnrollRefused
  <2> HIDE DEF r
  <2> QED BY <2>1, <2>2, TurnSaved
<1>9. ASSUME NEW g \in Gateways, NEW u \in Users \cup {None}, NEW k \in Keys, Enroll(g, u, k)
      PROVE  TakenInTurns'
  <2>1. NewKey(g, u, k) \in GatewayRows /\ NewKey(g, u, k).st = "A approuver"
    BY Rows, SavedRows DEF NewKey, GatewayRows
  <2> QED BY <1>9, <2>1, TurnSaved DEF Enroll
<1>10. CASE UNCHANGED vars
  BY <1>10, TurnKept DEF vars
<1> QED BY <1>1, <1>2, <1>3, <1>4, <1>5, <1>6, <1>7, <1>8, <1>9, <1>10, TurnStarted, TurnFinished DEF Next, Station

(* Two stations never answer for one MCF, whatever points de vente are given it meanwhile,  *)
(* however stations are replaced and whatever is saved between the reads and the writes of  *)
(* an approval, as long as no other approval for the same MCF is under way.                 *)
THEOREM OneStationCorrect ==
  ASSUME ~Overlap
  PROVE  Spec => []OneActivePerMcf
<1>1. Init => TakenInTurns
  BY DEF Init, TakenInTurns, Alone, OneActivePerMcf, NoGateway
<1>2. TakenInTurns => OneActivePerMcf
  BY DEF TakenInTurns
<1>3. AccessTypeOK /\ TakenInTurns /\ PlansApproved /\ [Next]_vars => TakenInTurns'
  BY OneActiveNext
<1> QED BY <1>1, <1>2, <1>3, AccessTypeCorrect, ApprovalsKept, PTL DEF Spec

----
(* A revoked station is out for good.                                       *)

(* No code is left that could enrol it, and its user is disabled.            *)
NoCodeLeft == \A g \in Gateways : gate[g].st = "Revoquee" => ~gate[g].code

OutForGood(g) == gate[g].st = "Revoquee" => gate'[g].st = "Revoquee" /\ ~gate'[g].code

LEMMA RevokedStep ==
  ASSUME AccessTypeOK, NoCodeLeft, \A g \in Gateways : Pending(g), Next
  PROVE  /\ \A g \in Gateways : OutForGood(g)
         /\ NoCodeLeft'
<1> SUFFICES ASSUME NEW o \in Gateways
             PROVE  OutForGood(o) /\ (gate'[o].st = "Revoquee" => ~gate'[o].code)
  BY DEF NoCodeLeft
<1>1. CASE \/ \E d \in Devices : Register(d)
           \/ \E s \in Shops, d \in Devices \cup {None}, a \in BOOLEAN : EditShop(s, d, a)
  BY <1>1, RegistryKeepsStations DEF OutForGood, NoCodeLeft
<1>2. ASSUME NEW g \in Gateways, Created(g)
      PROVE  OutForGood(o) /\ (gate'[o].st = "Revoquee" => ~gate'[o].code)
  BY <1>2, StationCreated DEF OutForGood, NoCodeLeft
<1>3. ASSUME NEW g \in Gateways, Quiet(g)
      PROVE  OutForGood(o) /\ (gate'[o].st = "Revoquee" => ~gate'[o].code)
  BY <1>3, StationKept DEF OutForGood, NoCodeLeft
<1>4. ASSUME NEW g \in Gateways, GenerateCode(g)
      PROVE  OutForGood(o) /\ (gate'[o].st = "Revoquee" => ~gate'[o].code)
  BY <1>4, CodeWrites DEF OutForGood, NoCodeLeft
<1>5. ASSUME NEW g \in Gateways, Revoke(g)
      PROVE  OutForGood(o) /\ (gate'[o].st = "Revoquee" => ~gate'[o].code)
  BY <1>5, RevokeWrites DEF OutForGood, NoCodeLeft
<1>6. ASSUME NEW g \in Gateways, FinishApproval(g)
      PROVE  OutForGood(o) /\ (gate'[o].st = "Revoquee" => ~gate'[o].code)
  BY <1>6, ApprovalWrites DEF OutForGood, NoCodeLeft
<1>7. ASSUME NEW g \in Gateways, NEW u \in Users \cup {None}, NEW k \in Keys, Enroll(g, u, k)
      PROVE  OutForGood(o) /\ (gate'[o].st = "Revoquee" => ~gate'[o].code)
  BY <1>7, EnrollWaits DEF OutForGood, NoCodeLeft
<1> QED BY <1>1, <1>2, <1>3, <1>4, <1>5, <1>6, <1>7, Steps

(* A revoked station stays revoked and its user disabled: a code issued before the     *)
(* revocation does not enrol it, and nothing approves or creates it again.             *)
THEOREM RevocationCorrect == Spec => RevokedStaysOut
<1>1. Init => NoCodeLeft
  BY DEF Init, NoCodeLeft, NoGateway
<1>2. NoCodeLeft /\ UNCHANGED vars => NoCodeLeft'
  BY DEF NoCodeLeft, vars
<1>3. ASSUME AccessTypeOK, NoCodeLeft, PlansApproved, KeyApproved', [Next]_vars
      PROVE  [\A g \in Gateways : gate[g].st = "Revoquee" => gate'[g].st = "Revoquee" /\ g \notin enabled']_vars
  <2>1. CASE Next
    BY <1>3, <2>1, RevokedStep DEF OutForGood, KeyApproved, PlansApproved
  <2>2. CASE UNCHANGED vars
    BY <2>2
  <2> QED BY <1>3, <2>1, <2>2
<1>4. AccessTypeOK /\ NoCodeLeft /\ PlansApproved /\ [Next]_vars => NoCodeLeft'
  BY <1>2, RevokedStep DEF PlansApproved
<1> QED BY <1>1, <1>3, <1>4, AccessTypeCorrect, ApprovalsKept, KeysCorrect, PTL DEF Spec, RevokedStaysOut

================================================================================
