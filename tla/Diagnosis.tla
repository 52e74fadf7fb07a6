-------------------------------- MODULE Diagnosis --------------------------------
(***************************************************************************)
(* The connection test of an MCF (fiscal/mcf_status.py): the comparisons    *)
(* made on one reading, the result shown to the user, the indicator of the  *)
(* MCF, beside the identity check (operations.check_identity) that every    *)
(* reading goes through.  The two do not compare NIFs alike: the test drops *)
(* every blank, check_identity only those at the ends.  Ages are in the     *)
(* intervals the code tells apart.                                         *)
(*                                                                         *)
(* obs: what the page read.  error, the MID as nid ("" when absent) and     *)
(*      activation count, nif, rates (they differ from ERPNext's), alert    *)
(*      (a flag or an open invoice), clock ("none", "near", "far"), dgi     *)
(*      ("none", "error", "CON", "DIS"), old, unsent.                       *)
(* dev: the record of the MCF of that NID.  known, status, validated (the   *)
(*      count validated, 0 when none), shop ("none", "bare" when its point  *)
(*      de vente names no company, "company"), nifShop (NIF of that         *)
(*      company), nifOwn (of its own company), stations of the point de     *)
(*      vente.                                                             *)
(***************************************************************************)
EXTENDS Naturals, FiniteSets

Check(code, level) == [code |-> code, level |-> level]
Unless(ok, level)  == IF ok THEN "ok" ELSE level

\* A NIF, without the blanks at its ends and in capitals: its text without blanks, and the
\* blanks inside.
Nif(text, blanks) == [text |-> text, blanks |-> blanks]
NoNif             == Nif("", "none")

\* _expected_nif: the company of the point de vente, else the MCF's own.
ExpectedNif(dev) == IF dev.shop = "company" THEN dev.nifShop ELSE dev.nifOwn

\* The NIF as the test shows it (_norm).
NifLevel(obs, dev) ==
  IF ExpectedNif(dev) = NoNif THEN "warn" ELSE Unless(obs.nif.text = ExpectedNif(dev).text, "fail")

ComparesNifOnly(obs, dev) ==
  {Check("STATUT", Unless(dev.status = "Actif", "warn")),
   Check("NIF", NifLevel(obs, dev))}

IdentityChecks(obs, dev) ==
  {Check("STATUT", Unless(dev.status = "Actif", "warn"))}
  \cup (IF dev.validated = 0 THEN {}
        ELSE {Check("MID", Unless(obs.count = dev.validated, "fail"))})
  \cup {Check("NIF", NifLevel(obs, dev))}

StateChecks(obs) ==
  {Check("TAUX", Unless(~obs.rates, "warn")), Check("ETAT", Unless(~obs.alert, "warn"))}
  \cup (IF obs.clock = "none" THEN {} ELSE {Check("HORLOGE", Unless(obs.clock = "near", "warn"))})

DgiChecks(obs) ==
  IF obs.dgi = "none" THEN {}
  ELSE {Check("DGI", Unless(obs.dgi = "CON" /\ ~obs.old /\ ~obs.unsent, "warn"))}

\* The first active station stands for the point de vente.
StationChecks(dev) ==
  {Check("POSTE", Unless(dev.shop # "none" /\ \E s \in dev.stations : s.status = "Active" /\ s.online, "warn"))}

\* compute_checks: what stops the comparisons stops them there.
ComputeChecks(obs, dev, expectedNid) ==
  IF obs.error \/ obs.nid = "" THEN {Check("LECTURE", "fail")}
  ELSE {Check("LECTURE", "ok")} \cup
       (IF expectedNid # "" /\ obs.nid # expectedNid THEN {Check("NID", "fail")}
        ELSE IF ~dev.known THEN {Check("FICHE", "fail")}
        ELSE IdentityChecks(obs, dev) \cup StateChecks(obs) \cup DgiChecks(obs) \cup StationChecks(dev))

Overall(checks) ==
  IF \E c \in checks : c.code \in {"LECTURE", "NID"} /\ c.level = "fail" THEN "Echec"
  ELSE IF \E c \in checks : c.level = "fail" THEN "Ecart"
  ELSE IF \E c \in checks : c.level = "warn" THEN "Avertissement"
  ELSE "OK"

\* check_identity: the reading that takes an active MCF back to "A revalider".
Demotes(obs, dev) ==
  /\ dev.status = "Actif"
  /\ \/ obs.nid # "" /\ dev.validated # 0 /\ obs.count # dev.validated
     \/ obs.nif # NoNif /\ dev.shop = "company" /\ dev.nifShop # NoNif /\ obs.nif # dev.nifShop

\* record_desk_test: the result kept on the record, and whether the identity is checked.
Records(obs, dev, expectedNid) ==
  [result |-> Overall(ComputeChecks(obs, dev, expectedNid)),
   status |-> IF /\ dev.known /\ ~obs.error /\ (expectedNid = "" \/ obs.nid \in {"", expectedNid})
                 /\ Demotes(obs, dev)
              THEN "A revalider" ELSE dev.status]

\* mcf_status: the colour of the MCF, from its stations then from its last test
\* (age: "none", "fresh" within 900 s, "stale").
Indicator(dev, result, age) ==
  IF \E s \in dev.stations : s.status = "Active" /\ s.online THEN "green"
  ELSE IF age = "fresh" /\ result = "OK" THEN "green"
  ELSE IF age = "fresh" /\ result = "Avertissement" THEN "orange"
  ELSE IF result \in {"Ecart", "Echec"} \/ (\E s \in dev.stations : s.status = "Active") THEN "red"
  ELSE "gray"

----
Sound == [rates |-> FALSE, alert |-> FALSE, clock |-> "near", dgi |-> "CON", old |-> FALSE, unsent |-> FALSE]
States ==
  {Sound, [Sound EXCEPT !.rates = TRUE], [Sound EXCEPT !.alert = TRUE], [Sound EXCEPT !.clock = "far"],
   [Sound EXCEPT !.clock = "none", !.dgi = "none"], [Sound EXCEPT !.dgi = "error"],
   [Sound EXCEPT !.dgi = "DIS", !.old = TRUE], [Sound EXCEPT !.unsent = TRUE]}
ReadNids == {"", "n1", "n2"}
Ours     == Nif("ours", "none")
Spaced   == Nif("ours", "inside")
ReadNifs == {NoNif, Ours, Spaced, Nif("other", "none")}
Reading(e, n, c, f, s) ==
  [error |-> e, nid |-> n, count |-> c, nif |-> f, rates |-> s.rates, alert |-> s.alert, clock |-> s.clock,
   dgi |-> s.dgi, old |-> s.old, unsent |-> s.unsent]
AnyReading == {Reading(e, n, c, f, s) : e \in BOOLEAN, n \in ReadNids, c \in {1, 2}, f \in ReadNifs, s \in States}
Observations == {o \in AnyReading : o.error => o = Reading(TRUE, o.nid, 1, o.nif, Sound)}
Stations == {{}} \cup {{s} : s \in [status : {"Active", "A approuver"}, online : BOOLEAN]}
DeviceRecords ==
  [known : BOOLEAN, status : {"Actif", "A revalider", "Suspendu"}, validated : {0, 1},
   shop : {"none", "bare", "company"}, nifShop : {NoNif, Ours, Spaced}, nifOwn : {NoNif, Ours}, stations : Stations]

\* The NIF read differs from the company's in blanks inside it, and in nothing else.
OnlyBlanksDiffer(obs, dev) == obs.nif # dev.nifShop /\ obs.nif.text = dev.nifShop.text

\* A test that reassures (OK or Avertissement) never hides an identity that ERPNext
\* rejects, OK means that the MCF may receive invoices, and an identity rejected by the
\* reading shows red as long as no station is online, unless the two NIFs only differ in
\* blanks inside them.
DiagnosisTells(obs, dev, expectedNid) ==
  LET r == Records(obs, dev, expectedNid)
      online == \E s \in dev.stations : s.status = "Active" /\ s.online
  IN  ~OnlyBlanksDiffer(obs, dev) =>
        /\ r.result \in {"OK", "Avertissement"} => dev.known /\ ~Demotes(obs, dev)
        /\ r.result = "OK" => r.status = "Actif"
        /\ r.status # dev.status /\ ~online
             => \A age \in {"fresh", "stale"} : Indicator(dev, r.result, age) = "red"
================================================================================
