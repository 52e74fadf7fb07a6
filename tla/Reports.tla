-------------------------------- MODULE Reports --------------------------------
(***************************************************************************)
(* The statistical reports X, Z and A (edef/fiscal_reports.py,             *)
(* dgi_rapport_fiscal.py).  A report reads the invoices registered in a     *)
(* period, ]from, to], and is frozen; a Z or an A opens the next period.    *)
(*                                                                         *)
(* ReportsSpec takes each request whole.  RacesSpec opens the two windows   *)
(* of the code: an invoice is dated when its normalization writes it and    *)
(* seen by others only once committed; a report computes its period and     *)
(* figures (before_insert) before it takes its number (autoname).           *)
(* Every reading of the clock is a new instant.                             *)
(***************************************************************************)
EXTENDS Integers, FiniteSets, Folds

CONSTANTS
  Invoices, Workers,
  TypeOf(_),     \* type of an invoice: FV, FT, FA, EV, ET or EA
  AmountOf(_),   \* its total, tax included
  Asked,         \* periods <<from, to>> users ask a periodic X for
  MaxTime,       \* bound: readings of the clock
  MaxReports     \* bound: reports

ASSUME ReportsAssumption ==
  /\ {MaxTime, MaxReports} \subseteq Nat /\ Asked \subseteq Nat \X Nat
  /\ \A i \in Invoices : AmountOf(i) \in Int   \* in the smallest unit of the currency

VARIABLES
  now,
  started,   \* DGI Exchange Log "create" of the invoice: its date, or 0
  dated,     \* custom_dgi_normalized_on, or 0
  seen,      \* invoices whose normalization is committed
  reports,   \* DGI Rapport Fiscal
  draft      \* the report a worker has computed and not inserted

reportVars == <<now, started, dated, seen, reports, draft>>

Kinds   == {"X quotidien", "X periodique", "Z", "A"}
Code(k) == IF k \in {"X quotidien", "X periodique"} THEN "X" ELSE k
Credit(i) == TypeOf(i) \in {"FA", "EA"}
NoDraft == [kind |-> "none"]

Latest(S)   == CHOOSE t \in S : \A u \in S : u <= t
Earliest(S) == CHOOSE t \in S : \A u \in S : t <= u

\* last_report_end, of the reports already committed.
Ends(k) == {r.to : r \in {q \in reports : q.kind = k}}

\* first_registration: one second before the first registered invoice.
FirstRegistration == IF seen = {} THEN 0 ELSE Earliest({dated[i] : i \in seen}) - 1

RestartsAtFirst(k) == FirstRegistration
SinceLast(k)       == IF Ends(k) = {} THEN FirstRegistration ELSE Latest(Ends(k))

\* period_for, at instant t: the user gives both ends of a periodic X.
Periods(k, t) ==
  IF k = "X periodique" THEN {p \in Asked : p[1] <= p[2]}
  ELSE {<<SinceLast(IF k = "A" THEN "A" ELSE "Z"), t>>}

\* _registered_invoices, _incomplete_by_type
Within(a, b)     == {i \in seen : a < dated[i] /\ dated[i] <= b}
Incomplete(a, b) == {i \in Invoices \ seen : a < started[i] /\ started[i] <= b}

Total(S) == MapThenFoldSet(+, 0, AmountOf, LAMBDA T : CHOOSE i \in T : TRUE, S)

\* summary of compute_xz and compute_a: sales less credit notes.
Net(S) == Total({i \in S : ~Credit(i)}) - Total({i \in S : Credit(i)})

\* before_insert
Computed(k, a, b) ==
  [kind |-> k, from |-> a, to |-> b, invoices |-> Within(a, b), net |-> Net(Within(a, b)),
   incomplete |-> IF k = "A" THEN {} ELSE Incomplete(a, b)]

ReusesNumber(k) == Cardinality({r \in reports : r.kind = k}) + 1

\* autoname: the next number of the code, under the lock of the reports of that code.
Number(k) == Cardinality({r \in reports : Code(r.kind) = Code(k)}) + 1

Numbered(d) ==
  [kind |-> d.kind, no |-> Number(d.kind), from |-> d.from, to |-> d.to,
   invoices |-> d.invoices, net |-> d.net, incomplete |-> d.incomplete]

----
ReadsClock == now < MaxTime /\ now' = now + 1

\* normalize_invoice sends the request; the invoice is incomplete until it is registered.
Start(i) ==
  /\ started[i] = 0
  /\ ReadsClock
  /\ started' = [started EXCEPT ![i] = now']
  /\ UNCHANGED <<dated, seen, reports, draft>>

\* normalize_invoice, apply_to_invoice: custom_dgi_normalized_on = now_datetime().
Dates(i) ==
  /\ started[i] # 0 /\ dated[i] = 0
  /\ ReadsClock
  /\ dated' = [dated EXCEPT ![i] = now']
  /\ UNCHANGED <<started, reports, draft>>

Register(i) == Dates(i) /\ seen' = seen \cup {i}
Write(i)    == Dates(i) /\ UNCHANGED seen

Commit(i) ==
  /\ dated[i] # 0 /\ i \notin seen
  /\ seen' = seen \cup {i}
  /\ UNCHANGED <<now, started, dated, reports, draft>>

Room == Cardinality(reports) < MaxReports

Report(k) ==
  /\ Room /\ ReadsClock
  /\ \E p \in Periods(k, now') : reports' = reports \cup {Numbered(Computed(k, p[1], p[2]))}
  /\ UNCHANGED <<started, dated, seen, draft>>

Compute(w, k) ==
  /\ draft[w] = NoDraft /\ Room /\ ReadsClock
  /\ \E p \in Periods(k, now') : draft' = [draft EXCEPT ![w] = Computed(k, p[1], p[2])]
  /\ UNCHANGED <<started, dated, seen, reports>>

Insert(w) ==
  /\ draft[w] # NoDraft
  /\ reports' = reports \cup {Numbered(draft[w])}
  /\ draft' = [draft EXCEPT ![w] = NoDraft]
  /\ UNCHANGED <<now, started, dated, seen>>

ReportsInit ==
  /\ now = 0
  /\ started = [i \in Invoices |-> 0]
  /\ dated = [i \in Invoices |-> 0]
  /\ seen = {}
  /\ reports = {}
  /\ draft = [w \in Workers |-> NoDraft]

ReportsNext ==
  \/ \E i \in Invoices : Start(i) \/ Register(i)
  \/ \E k \in Kinds : Report(k)

RacesNext ==
  \/ \E i \in Invoices : Start(i) \/ Write(i) \/ Commit(i)
  \/ \E w \in Workers : Compute(w, "Z") \/ Insert(w)

ReportsSpec == ReportsInit /\ [][ReportsNext]_reportVars
RacesSpec == ReportsInit /\ [][RacesNext]_reportVars

----
\* Types, and the numbers of one code (X, Z or A) follow each other without a gap
\* and are never given twice.
ReportsTypeOK ==
  /\ now \in 0..MaxTime
  /\ seen \subseteq {i \in Invoices : dated[i] # 0}
  /\ \A i \in Invoices : started[i] \in 0..now /\ dated[i] \in 0..now
  /\ \A c \in {"X", "Z", "A"} :
       LET R == {r \in reports : Code(r.kind) = c}
       IN  {r.no : r \in R} = 1..Cardinality(R)

ClosedBy(k) == {r \in reports : r.kind = k}

\* A Z or an A "opens a new period": the periods follow each other, and an invoice
\* registered up to the last of them is counted in one and only one.
ClosesOnce(k) ==
  /\ \A q, r \in ClosedBy(k) : r.no = q.no + 1 => r.from = q.to
  /\ \A i \in seen : (\E r \in ClosedBy(k) : dated[i] <= r.to)
       => Cardinality({r \in ClosedBy(k) : i \in r.invoices}) = 1
\* The nets of the Z reports sum to the sales less the credit notes they closed.
AddsUp ==
  MapThenFoldSet(+, 0, LAMBDA r : r.net, LAMBDA T : CHOOSE r \in T : TRUE, ClosedBy("Z"))
    = Net({i \in seen : \E r \in ClosedBy("Z") : dated[i] <= r.to})

\* Every registered invoice is in one Z and one A once they pass its date, and the
\* Z reports add up to the invoices they closed.
ZPartition == ClosesOnce("Z") /\ ClosesOnce("A") /\ AddsUp
================================================================================
