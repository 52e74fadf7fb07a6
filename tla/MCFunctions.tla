------------------------------ MODULE MCFunctions ------------------------------
(* The functions on every probe of their module, and the statistical reports, which *)
(* start from the state that has no probe.                                          *)
EXTENDS MCReports, Frames, Diagnosis, Amounts, InvoiceRules, Routing

VARIABLE probe

\* An empty field is neither a channel nor a point de vente.
ASSUME NoneIsNoValue == None \notin Channels \cup TwoPvfs

NoProbe == [kind |-> "reports"]

ExpectedNids == {"", "n1"}
DiagnosisProbes ==
  {[kind |-> "diagnosis", obs |-> o, dev |-> d, nid |-> n] : o \in Observations, d \in DeviceRecords, n \in ExpectedNids}

FunctionsInit ==
  /\ ReportsInit
  /\ \/ probe = NoProbe
     \/ probe \in FrameProbes \/ probe \in StatusProbes
     \/ probe \in SubtotalProbes \/ probe \in NormalizedProbes
     \/ probe \in DiagnosisProbes
     \/ probe \in LineProbes \/ probe \in CeilProbes \/ probe \in PaymentProbes
     \/ probe \in CreditProbes \/ probe \in SaleProbes
     \/ probe \in SourceProbes \/ probe \in RouteProbes

FunctionsSpec ==
  FunctionsInit /\ [][probe = NoProbe /\ ReportsNext /\ UNCHANGED probe]_<<reportVars, probe>>

\* A frame of the device is accepted only as it was sent, and read as the MCF wrote it.
FramesSafe == FramesRead(probe)

\* A connection test never says OK of an MCF whose identity the same reading rejects, blanks
\* inside a NIF apart (compute_checks, check_identity).
DiagnosisSafe == probe.kind = "diagnosis" => DiagnosisTells(probe.obs, probe.dev, probe.nid)

\* The two channels charge the same total, and rounding keeps an invoice balanced.
ChannelsAmountsAgree == AmountsAgree(probe)

\* Payments sum to the fiscal total of the invoice, and none is negative, unless the change or the
\* gap of rounding exceeds the line it is taken off.
PaymentsAddUp == probe.kind = "payments" => PaymentsSum(probe.doc, probe.gap)

\* What the controls of a Sales Invoice let through can be declared to the DGI.
SavedCanBeDeclared == probe.kind = "rules" => SavedIsExpressible(probe.invoice, probe.settings)

\* The routing finds a PVF of the company and a channel its equipment and policy allow.
RoutingSafe == RoutesAllowed(probe)
================================================================================
