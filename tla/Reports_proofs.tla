------------------------------ MODULE Reports_proofs ------------------------------
(***************************************************************************)
(* Theorems about Reports when each request is taken whole (ReportsSpec),   *)
(* for every set of invoices, every type and amount they have, every period *)
(* asked for and every bound.                                               *)
(***************************************************************************)
EXTENDS Reports, SumTheorems

Codes == {"X", "Z", "A"}
Of(c) == {r \in reports : Code(r.kind) = c}

(* The clock and the dates.                                                 *)
Clock ==
  /\ now \in 0..MaxTime
  /\ started \in [Invoices -> Nat] /\ dated \in [Invoices -> Nat]
  /\ \A i \in Invoices : started[i] <= now /\ dated[i] <= now
  /\ seen \subseteq {i \in Invoices : dated[i] # 0}

(* The numbers of each code, and what a report holds.                        *)
Numbers ==
  /\ IsFiniteSet(reports)
  /\ \A c \in Codes : {r.no : r \in Of(c)} = 1..Cardinality(Of(c))
  /\ \A r \in reports : r.kind \in Kinds /\ r.to \in Nat /\ r.no \in Nat

LEMMA CodesOfKinds ==
  /\ \A k \in Kinds : Code(k) \in Codes
  /\ \A k \in {"Z", "A"} : k \in Kinds /\ k \in Codes /\ Of(k) = {r \in reports : Code(r.kind) = k}
BY DEF Kinds, Code, Codes, Of

(* The clock never goes back, and every reading of it is a new instant.      *)
LEMMA ClockInit == ReportsInit => Clock
BY ReportsAssumption DEF ReportsInit, Clock

LEMMA ClockNext == Clock /\ [ReportsNext]_reportVars => Clock'
<1> SUFFICES ASSUME Clock, [ReportsNext]_reportVars PROVE Clock'
  OBVIOUS
<1>1. MaxTime \in Nat
  BY ReportsAssumption
<1>2. ASSUME NEW i \in Invoices, Start(i) PROVE Clock'
  BY <1>1, <1>2 DEF Start, ReadsClock, Clock
<1>3. ASSUME NEW i \in Invoices, Register(i) PROVE Clock'
  BY <1>1, <1>3 DEF Register, Dates, ReadsClock, Clock
<1>4. ASSUME NEW k \in Kinds, Report(k) PROVE Clock'
  BY <1>1, <1>4 DEF Report, ReadsClock, Clock
<1>5. CASE UNCHANGED reportVars
  BY <1>5 DEF Clock, reportVars
<1> QED BY <1>2, <1>3, <1>4, <1>5 DEF ReportsNext

(* A report that is added: the next number of its code.                       *)
LEMMA Added ==
  ASSUME Clock, NEW k \in Kinds, Report(k)
  PROVE  \E p \in Periods(k, now') :
           /\ reports' = reports \cup {Numbered(Computed(k, p[1], p[2]))}
           /\ Numbered(Computed(k, p[1], p[2])).kind = k
           /\ Numbered(Computed(k, p[1], p[2])).no = Cardinality(Of(Code(k))) + 1
           /\ Numbered(Computed(k, p[1], p[2])).from = p[1]
           /\ Numbered(Computed(k, p[1], p[2])).to = p[2]
           /\ Numbered(Computed(k, p[1], p[2])).invoices = Within(p[1], p[2])
           /\ Numbered(Computed(k, p[1], p[2])).net = Net(Within(p[1], p[2]))
           /\ p[2] \in Nat
           /\ k \in {"Z", "A"} => p = <<SinceLast(k), now'>> /\ now' = now + 1
<1>1. PICK p \in Periods(k, now') : reports' = reports \cup {Numbered(Computed(k, p[1], p[2]))}
  BY DEF Report
<1>2. now \in Nat /\ now' = now + 1
  BY DEF Report, ReadsClock, Clock
<1>3. p[2] \in Nat
  <2>1. CASE k = "X periodique"
    BY <2>1, ReportsAssumption DEF Periods
  <2>2. CASE k # "X periodique"
    <3>1. p = <<SinceLast(IF k = "A" THEN "A" ELSE "Z"), now'>>
      BY <2>2 DEF Periods
    <3>2. p[2] = now'
      BY <3>1
    <3> QED BY <1>2, <3>2
  <2> QED BY <2>1, <2>2
<1>4. k \in {"Z", "A"} => p = <<SinceLast(k), now'>>
  BY DEF Periods
<1>5. LET r == Numbered(Computed(k, p[1], p[2]))
      IN  /\ r.kind = k /\ r.no = Cardinality(Of(Code(k))) + 1
          /\ r.from = p[1] /\ r.to = p[2]
          /\ r.invoices = Within(p[1], p[2]) /\ r.net = Net(Within(p[1], p[2]))
  BY DEF Numbered, Computed, Number, Of
<1> QED BY <1>1, <1>2, <1>3, <1>4, <1>5

LEMMA NumbersNext == Clock /\ Numbers /\ [ReportsNext]_reportVars => Numbers'
<1> SUFFICES ASSUME Clock, Numbers, [ReportsNext]_reportVars PROVE Numbers'
  OBVIOUS
<1>1. CASE reports' = reports
  BY <1>1 DEF Numbers, Of
<1>2. ASSUME NEW k \in Kinds, Report(k) PROVE Numbers'
  <2>1. PICK r : /\ reports' = reports \cup {r}
                 /\ r.kind = k /\ r.no = Cardinality(Of(Code(k))) + 1 /\ r.to \in Nat
    BY <1>2, Added
  <2>2. \A c \in Codes : IsFiniteSet(Of(c)) /\ Cardinality(Of(c)) \in Nat
    BY FS_Subset, FS_CardinalityType DEF Numbers, Of
  <2>3. Code(k) \in Codes
    BY CodesOfKinds
  <2>4. r \notin Of(Code(k))
    <3>1. Cardinality(Of(Code(k))) + 1 \notin 1..Cardinality(Of(Code(k)))
      BY <2>2, <2>3
    <3> QED BY <2>1, <2>3, <3>1 DEF Numbers
  <2>5. ASSUME NEW c \in Codes PROVE {q.no : q \in Of(c)'} = 1..Cardinality(Of(c)')
    <3>1. CASE c = Code(k)
      <4>1. Of(c)' = Of(c) \cup {r}
        BY <2>1, <3>1 DEF Of
      <4>2. Cardinality(Of(c)') = Cardinality(Of(c)) + 1
        BY <2>2, <2>4, <3>1, <4>1, FS_AddElement
      <4>3. {q.no : q \in Of(c)'} = {q.no : q \in Of(c)} \cup {Cardinality(Of(c)) + 1}
        BY <2>1, <3>1, <4>1
      <4>4. 1..(Cardinality(Of(c)) + 1) = (1..Cardinality(Of(c))) \cup {Cardinality(Of(c)) + 1}
        BY <2>2
      <4> QED BY <4>2, <4>3, <4>4 DEF Numbers
    <3>2. CASE c # Code(k)
      <4>1. Of(c)' = Of(c)
        BY <2>1, <3>2 DEF Of
      <4> QED BY <4>1 DEF Numbers
    <3> QED BY <3>1, <3>2
  <2>6. IsFiniteSet(reports')
    BY <2>1, FS_AddElement DEF Numbers
  <2>7. \A q \in reports' : q.kind \in Kinds /\ q.to \in Nat /\ q.no \in Nat
    BY <2>1, <2>2, <2>3 DEF Numbers
  <2> QED BY <2>5, <2>6, <2>7 DEF Numbers
<1> QED BY <1>1, <1>2 DEF ReportsNext, Start, Register, Dates, reportVars

(* The reports of one code, X, Z or A, are numbered without a gap and without a repeat, and  *)
(* an invoice is dated when it is registered, at an instant the clock has reached.           *)
THEOREM ReportsTypeCorrect == ReportsSpec => []ReportsTypeOK
<1>1. ReportsInit => Numbers
  BY FS_EmptySet DEF ReportsInit, Numbers, Of
<1>2. Clock /\ Numbers => ReportsTypeOK
  <2> SUFFICES ASSUME Clock, Numbers PROVE ReportsTypeOK
    OBVIOUS
  <2>1. \A i \in Invoices : started[i] \in 0..now /\ dated[i] \in 0..now
    BY DEF Clock
  <2>2. \A c \in {"X", "Z", "A"} :
          {r.no : r \in {q \in reports : Code(q.kind) = c}} = 1..Cardinality({q \in reports : Code(q.kind) = c})
    BY DEF Numbers, Codes, Of
  <2> QED BY <2>1, <2>2 DEF Clock, ReportsTypeOK
<1> QED BY <1>1, <1>2, ClockInit, ClockNext, NumbersNext, PTL DEF ReportsSpec

----
(* The periods of a kind of report that closes them.                        *)

(* Well-founded minimum: a set of instants has an earliest one.              *)
LEMMA EarliestOf ==
  ASSUME NEW S \in SUBSET Nat, S # {}
  PROVE  Earliest(S) \in S /\ \A t \in S : Earliest(S) <= t
<1> DEFINE R == OpToRel(<, Nat)
<1>1. IsWellFoundedOn(R, Nat)
  BY NatLessThanWellFounded
<1>2. \A x, y \in Nat : x < y => <<x, y>> \in R
  BY DEF OpToRel
<1> HIDE DEF R
<1>3. PICK x \in S : \A y \in S : <<y, x>> \notin R
  BY <1>1, WFMin
<1>4. \A y \in S : x <= y
  <2> TAKE y \in S
  <2>1. ~(y < x)
    BY <1>2, <1>3
  <2> QED BY <2>1
<1> QED BY <1>4 DEF Earliest

(* A set of instants that has a bound of its own.                            *)
LEMMA LatestOf ==
  ASSUME NEW S, NEW t \in S, \A u \in S : u <= t, S \subseteq Nat
  PROVE  Latest(S) = t
<1>1. \A v \in S : (\A u \in S : u <= v) => v = t
  OBVIOUS
<1> QED BY <1>1 DEF Latest

(* A report of kind k, Z or A, holds the invoices dated in its period, begins where the one *)
(* before it ended, and the last one ends last; an invoice that one of them passed is in    *)
(* exactly one.                                                                             *)
Holds(k, i) == {r \in ClosedBy(k) : i \in r.invoices}

Partition(k) ==
  /\ \A q, r \in ClosedBy(k) : r.no = q.no + 1 => r.from = q.to
  /\ \A r \in ClosedBy(k) : r.to <= now /\ r.invoices \subseteq {i \in seen : dated[i] <= r.to}
  /\ \A q \in ClosedBy(k) :
       q.no = Cardinality(ClosedBy(k)) => \A r \in ClosedBy(k) : r.to <= q.to
  /\ \A i \in seen, r \in ClosedBy(k) : dated[i] <= r.to => \E q \in ClosedBy(k) : Holds(k, i) = {q}

LEMMA ClosedIsOf ==
  ASSUME Numbers, NEW k \in {"Z", "A"}
  PROVE  /\ ClosedBy(k) = Of(k) /\ Code(k) = k /\ k \in Kinds
         /\ IsFiniteSet(ClosedBy(k)) /\ Cardinality(ClosedBy(k)) \in Nat
         /\ {r.no : r \in ClosedBy(k)} = 1..Cardinality(ClosedBy(k))
         /\ \A r \in ClosedBy(k) : r.to \in Nat /\ r.no \in 1..Cardinality(ClosedBy(k))
         /\ ClosedBy(k) # {} => Cardinality(ClosedBy(k)) # 0
<1>1. ClosedBy(k) = Of(k) /\ Code(k) = k /\ k \in Kinds
  BY DEF ClosedBy, Of, Code, Numbers, Kinds
<1>2. IsFiniteSet(ClosedBy(k)) /\ ClosedBy(k) \subseteq reports
  BY FS_Subset DEF ClosedBy, Numbers
<1>3. {r.no : r \in ClosedBy(k)} = 1..Cardinality(ClosedBy(k))
  BY <1>1 DEF Numbers, Codes
<1> QED BY <1>1, <1>2, <1>3, FS_CardinalityType, FS_EmptySet DEF Numbers

(* The next period begins where the last one ended; the first one, before any invoice.       *)
LEMMA NextPeriod ==
  ASSUME Clock, Numbers, NEW k \in {"Z", "A"}, Partition(k)
  PROVE  /\ \A r \in ClosedBy(k) : r.to <= SinceLast(k)
         /\ \A q \in ClosedBy(k) : q.no = Cardinality(ClosedBy(k)) => SinceLast(k) = q.to
         /\ \A i \in seen : (\A r \in ClosedBy(k) : r.to < dated[i]) => SinceLast(k) < dated[i]
<1>1. Ends(k) = {r.to : r \in ClosedBy(k)}
  BY DEF Ends, ClosedBy
<1>2. CASE ClosedBy(k) = {}
  <2>1. SinceLast(k) = FirstRegistration
    BY <1>1, <1>2 DEF SinceLast
  <2>2. ASSUME NEW i \in seen PROVE FirstRegistration < dated[i]
    <3> DEFINE S == {dated[j] : j \in seen}
    <3>1. S \in SUBSET Nat /\ dated[i] \in S /\ dated[i] \in Nat /\ seen # {}
      BY <2>2 DEF Clock
    <3>2. Earliest(S) \in Nat /\ Earliest(S) <= dated[i]
      BY <3>1, EarliestOf
    <3>3. FirstRegistration = Earliest(S) - 1
      BY <3>1 DEF FirstRegistration
    <3> DEFINE e == Earliest(S)
    <3> HIDE DEF S, e
    <3>4. e \in Nat /\ e <= dated[i] /\ FirstRegistration = e - 1
      BY <3>2, <3>3 DEF e
    <3> QED BY <3>1, <3>4
  <2> QED BY <1>2, <2>1, <2>2
<1>3. CASE ClosedBy(k) # {}
  <2>1. PICK q \in ClosedBy(k) : q.no = Cardinality(ClosedBy(k))
    BY <1>3, ClosedIsOf
  <2>2. \A r \in ClosedBy(k) : r.to <= q.to /\ r.to \in Nat
    BY <2>1, ClosedIsOf DEF Partition
  <2>3. Latest(Ends(k)) = q.to
    <3>1. q.to \in Ends(k) /\ Ends(k) \subseteq Nat /\ \A t \in Ends(k) : t <= q.to
      BY <1>1, <2>2
    <3> QED BY <3>1, LatestOf
  <2>4. SinceLast(k) = q.to
    BY <1>1, <1>3, <2>3 DEF SinceLast
  <2>5. \A p \in ClosedBy(k) : p.no = Cardinality(ClosedBy(k)) => p.to = q.to
    BY <2>1, <2>2 DEF Partition
  <2> QED BY <2>2, <2>4, <2>5
<1> QED BY <1>2, <1>3

(* The step that closes a period.                                                            *)
LEMMA PartitionReport ==
  ASSUME Clock, Numbers, NEW k \in {"Z", "A"}, Partition(k), Report(k)
  PROVE  Partition(k)'
<1> DEFINE n == Cardinality(ClosedBy(k))
<1>1. PICK r : /\ reports' = reports \cup {r}
               /\ r.kind = k /\ r.no = n + 1
               /\ r.from = SinceLast(k) /\ r.to = now'
               /\ r.invoices = Within(SinceLast(k), now')
  <2>1. k \in Kinds /\ Code(k) = k /\ ClosedBy(k) = Of(k)
    BY ClosedIsOf
  <2> QED BY <2>1, Added
<1>2. ClosedBy(k)' = ClosedBy(k) \cup {r}
  BY <1>1 DEF ClosedBy
<1>3. n \in Nat /\ \A q \in ClosedBy(k) : q.to \in Nat /\ q.no \in 1..n
  BY ClosedIsOf
<1>4. r \notin ClosedBy(k)
  BY <1>1, <1>3
<1>5. Cardinality(ClosedBy(k)') = n + 1
  <2>1. IsFiniteSet(ClosedBy(k))
    BY ClosedIsOf
  <2> QED BY <1>2, <1>4, <2>1, FS_AddElement
<1> HIDE DEF n
<1>6. /\ now' = now + 1 /\ now \in Nat /\ UNCHANGED <<seen, dated>>
      /\ \A i \in seen : dated[i] \in Nat /\ dated[i] <= now
  BY DEF Report, ReadsClock, Clock
<1>7. \A q \in ClosedBy(k) : q.to <= now
  BY DEF Partition
<1>8. \A p, q \in ClosedBy(k)' : q.no = p.no + 1 => q.from = p.to
  <2> SUFFICES ASSUME NEW p \in ClosedBy(k)', NEW q \in ClosedBy(k)', q.no = p.no + 1 PROVE q.from = p.to
    OBVIOUS
  <2>1. CASE q = r
    <3>1. p.no = n /\ p \in ClosedBy(k)
      BY <1>1, <1>2, <1>3, <2>1
    <3> QED BY <1>1, <2>1, <3>1, NextPeriod DEF n
  <2>2. CASE q # r
    <3>1. q \in ClosedBy(k) /\ p \in ClosedBy(k)
      BY <1>1, <1>2, <1>3, <2>2
    <3> QED BY <3>1 DEF Partition
  <2> QED BY <2>1, <2>2
<1>9. \A q \in ClosedBy(k)' : q.to <= now' /\ q.invoices \subseteq {i \in seen : dated[i] <= q.to}
  <2>1. r.to <= now' /\ r.invoices \subseteq {i \in seen : dated[i] <= r.to}
    BY <1>1, <1>6 DEF Within
  <2>2. \A q \in ClosedBy(k) : q.to <= now' /\ q.invoices \subseteq {i \in seen : dated[i] <= q.to}
    BY <1>3, <1>6 DEF Partition
  <2> QED BY <1>2, <2>1, <2>2
<1>10. \A q \in ClosedBy(k)' : q.no = n + 1 => \A p \in ClosedBy(k)' : p.to <= q.to
  <2>1. \A q \in ClosedBy(k)' : q.no = n + 1 => q = r
    BY <1>2, <1>3
  <2>2. \A p \in ClosedBy(k)' : p.to <= r.to
    BY <1>1, <1>2, <1>3, <1>6, <1>7
  <2> QED BY <2>1, <2>2
<1>11. ASSUME NEW i \in seen PROVE \E q \in ClosedBy(k)' : Holds(k, i)' = {q}
  <2>1. Holds(k, i)' = Holds(k, i) \cup (IF i \in r.invoices THEN {r} ELSE {})
    BY <1>2 DEF Holds
  <2>2. CASE \E q \in ClosedBy(k) : dated[i] <= q.to
    <3>1. PICK q \in ClosedBy(k) : dated[i] <= q.to
      BY <2>2
    <3>2. q.to <= SinceLast(k)
      BY NextPeriod
    <3>3. SinceLast(k) \in Nat
      BY <1>3, NextPeriod, <3>1, ClosedIsOf
    <3>4. i \notin r.invoices
      BY <1>1, <1>3, <1>6, <3>1, <3>2, <3>3 DEF Within
    <3>5. \E p \in ClosedBy(k) : Holds(k, i) = {p}
      BY <3>1 DEF Partition
    <3> QED BY <1>2, <2>1, <3>4, <3>5
  <2>3. CASE ~ \E q \in ClosedBy(k) : dated[i] <= q.to
    <3>1. SinceLast(k) < dated[i]
      BY <1>3, <1>6, <2>3, NextPeriod
    <3>2. i \in r.invoices
      BY <1>1, <1>6, <3>1 DEF Within
    <3>3. Holds(k, i) = {}
      BY <2>3 DEF Holds, Partition
    <3> QED BY <1>2, <2>1, <3>2, <3>3
  <2> QED BY <2>2, <2>3
<1> QED BY <1>5, <1>6, <1>8, <1>9, <1>10, <1>11 DEF Partition, n

LEMMA PartitionNext ==
  ASSUME Clock, Numbers, NEW k \in {"Z", "A"}, Partition(k), [ReportsNext]_reportVars
  PROVE  Partition(k)'
<1>1. ASSUME ClosedBy(k)' = ClosedBy(k), now' \in {now, now + 1}, UNCHANGED <<seen, dated>>
      PROVE  Partition(k)'
  <2>1. \A r \in ClosedBy(k) : r.to <= now'
    BY <1>1, ClosedIsOf DEF Partition, Clock
  <2>2. \A i : Holds(k, i)' = Holds(k, i)
    BY <1>1 DEF Holds
  <2> QED BY <1>1, <2>1, <2>2 DEF Partition
<1>2. ASSUME NEW i \in Invoices, Register(i) PROVE Partition(k)'
  <2>1. /\ dated[i] = 0 /\ now \in Nat /\ now' = now + 1
        /\ dated' = [dated EXCEPT ![i] = now'] /\ seen' = seen \cup {i} /\ reports' = reports
    BY <1>2 DEF Register, Dates, ReadsClock, Clock
  <2>2. i \notin seen /\ dated'[i] = now + 1 /\ \A j \in seen : dated'[j] = dated[j]
    BY <2>1 DEF Clock
  <2>3. ClosedBy(k)' = ClosedBy(k) /\ \A j : Holds(k, j)' = Holds(k, j)
    BY <2>1 DEF ClosedBy, Holds
  <2>4. \A r \in ClosedBy(k) : r.to \in Nat /\ r.to <= now /\ r.to <= now'
    BY <2>1, ClosedIsOf DEF Partition
  <2>5. \A r \in ClosedBy(k) : r.invoices \subseteq {j \in seen' : dated'[j] <= r.to}
    BY <2>1, <2>2 DEF Partition
  <2>6. ASSUME NEW j \in seen', NEW r \in ClosedBy(k), dated'[j] <= r.to
        PROVE  \E q \in ClosedBy(k) : Holds(k, j) = {q}
    <3>1. j # i
      BY <2>1, <2>2, <2>4, <2>6
    <3> QED BY <2>1, <2>2, <2>6, <3>1 DEF Partition
  <2> QED BY <2>3, <2>4, <2>5, <2>6 DEF Partition
<1>3. ASSUME NEW j \in Kinds, j # k, Report(j) PROVE Partition(k)'
  <2>1. ClosedBy(k)' = ClosedBy(k)
    BY <1>3, Added DEF ClosedBy
  <2>2. now' = now + 1 /\ UNCHANGED <<seen, dated>>
    BY <1>3 DEF Report, ReadsClock
  <2> QED BY <1>1, <2>1, <2>2
<1>4. ASSUME NEW i \in Invoices, Start(i) PROVE Partition(k)'
  BY <1>1, <1>4 DEF Start, ReadsClock, ClosedBy
<1>5. CASE UNCHANGED reportVars
  BY <1>1, <1>5 DEF reportVars, ClosedBy
<1> QED BY <1>2, <1>3, <1>4, <1>5, PartitionReport DEF ReportsNext

LEMMA PartitionCloses ==
  ASSUME Clock, Numbers, NEW k \in {"Z", "A"}, Partition(k)
  PROVE  ClosesOnce(k)
<1>1. \A i \in seen : (\E r \in ClosedBy(k) : dated[i] <= r.to) => Cardinality(Holds(k, i)) = 1
  BY FS_Singleton DEF Partition
<1> QED BY <1>1 DEF ClosesOnce, Holds, Partition

----
(* The nets of the Z reports add up.                                        *)

amounts == [i \in Invoices |-> AmountOf(i)]

(* The sum of AddsUp, over a set R of reports.                               *)
Nets(R) == MapThenFoldSet(+, 0, LAMBDA r : r.net, LAMBDA T : CHOOSE r \in T : TRUE, R)
nets(R) == [r \in R |-> r.net]

LEMMA TotalIsSum ==
  ASSUME NEW S \in SUBSET Invoices, IsFiniteSet(S)
  PROVE  Total(S) = SumOver(amounts, S) /\ \A i \in S : amounts[i] \in Int
<1> DEFINE Eq(f) == f = [s \in SUBSET S |-> IF s = {} THEN 0
                          ELSE AmountOf(CHOOSE x \in s : TRUE) + f[s \ {CHOOSE x \in s : TRUE}]]
           ft == CHOOSE f : Eq(f)
<1>1. \A i \in S : amounts[i] \in Int /\ amounts[i] = AmountOf(i)
  BY ReportsAssumption DEF amounts
<1>2. PICK gt : IntSums(amounts, S, gt)
  BY <1>1, SumsExist
<1>3. \A s \in SUBSET S : s # {} => amounts[CHOOSE x \in s : TRUE] = AmountOf(CHOOSE x \in s : TRUE)
  BY <1>1
<1>4. Eq(gt)
  BY <1>2, <1>3 DEF Sums, IntSums, Pick
<1>5. Eq(ft)
  <2> HIDE DEF Eq
  <2> QED BY <1>4
<1>6. Sums(amounts, S, ft)
  <2> HIDE DEF ft
  <2> QED BY <1>3, <1>5 DEF Sums, Pick
<1>7. Total(S) = ft[S]
  BY DEF Total, MapThenFoldSet
<1>8. SumOver(amounts, S) = gt[S]
  BY <1>1, <1>2, SumOverIs DEF IntSums
<1>9. ft[S] = gt[S]
  <2> HIDE DEF ft
  <2> QED BY <1>2, <1>6, SumsAgree DEF IntSums
<1> QED BY <1>1, <1>7, <1>8, <1>9

LEMMA NetsIsSum ==
  ASSUME NEW R, IsFiniteSet(R), \A r \in R : r.net \in Int, NEW S \in SUBSET R
  PROVE  Nets(S) = SumOver(nets(R), S)
<1> DEFINE Eq(f) == f = [s \in SUBSET S |-> IF s = {} THEN 0
                          ELSE (CHOOSE x \in s : TRUE).net + f[s \ {CHOOSE x \in s : TRUE}]]
           ft == CHOOSE f : Eq(f)
           w  == nets(R)
<1>1. IsFiniteSet(S) /\ \A r \in R : w[r] \in Int /\ w[r] = r.net
  BY FS_Subset DEF nets
<1> HIDE DEF w
<1>2. PICK gt : IntSums(w, S, gt)
  BY <1>1, SumsExist
<1>3. \A s \in SUBSET S : s # {} => w[CHOOSE x \in s : TRUE] = (CHOOSE x \in s : TRUE).net
  BY <1>1
<1>4. Eq(gt)
  BY <1>2, <1>3 DEF Sums, IntSums, Pick
<1>5. Eq(ft)
  <2> HIDE DEF Eq
  <2> QED BY <1>4
<1>6. Sums(w, S, ft)
  <2> HIDE DEF ft
  <2> QED BY <1>3, <1>5 DEF Sums, Pick
<1>7. Nets(S) = ft[S]
  BY DEF Nets, MapThenFoldSet
<1>8. SumOver(w, S) = gt[S]
  BY <1>1, <1>2, SumOverIs DEF IntSums
<1>9. ft[S] = gt[S]
  <2> HIDE DEF ft
  <2> QED BY <1>1, <1>2, <1>6, SumsAgree DEF IntSums
<1> QED BY <1>7, <1>8, <1>9 DEF w

(* Disjoint sets of invoices: their nets add up.                             *)
LEMMA NetUnion ==
  ASSUME NEW S \in SUBSET Invoices, NEW T \in SUBSET Invoices, S \cap T = {},
         IsFiniteSet(S), IsFiniteSet(T)
  PROVE  Net(S \cup T) = Net(S) + Net(T) /\ Net(S) \in Int /\ Net(T) \in Int
<1> DEFINE Debit(U)  == {i \in U : ~Credit(i)}
           Refund(U) == {i \in U : Credit(i)}
<1>1. ASSUME NEW A \in SUBSET S, NEW B \in SUBSET T
      PROVE  Total(A \cup B) = Total(A) + Total(B) /\ Total(A) \in Int /\ Total(B) \in Int
  <2>1. /\ IsFiniteSet(A) /\ IsFiniteSet(B) /\ A \cap B = {} /\ A \cup B \in SUBSET Invoices
        /\ IsFiniteSet(A \cup B)
    BY FS_Subset, FS_Union
  <2>2. Total(A \cup B) = SumOver(amounts, A \cup B) /\ \A i \in A \cup B : amounts[i] \in Int
    BY <2>1, TotalIsSum
  <2>3. Total(A) = SumOver(amounts, A) /\ Total(B) = SumOver(amounts, B)
    BY <2>1, TotalIsSum
  <2>4. SumOver(amounts, A) \in Int /\ SumOver(amounts, B) \in Int
    BY <2>1, <2>2, SumOverType
  <2>5. SumOver(amounts, A \cup B) = SumOver(amounts, A) + SumOver(amounts, B)
    BY <2>1, <2>2, SumOverUnion
  <2> QED BY <2>2, <2>3, <2>4, <2>5
<1>2. Debit(S \cup T) = Debit(S) \cup Debit(T) /\ Refund(S \cup T) = Refund(S) \cup Refund(T)
  OBVIOUS
<1>3. /\ Total(Debit(S \cup T)) = Total(Debit(S)) + Total(Debit(T))
      /\ Total(Debit(S)) \in Int /\ Total(Debit(T)) \in Int
  BY <1>1, <1>2
<1>4. /\ Total(Refund(S \cup T)) = Total(Refund(S)) + Total(Refund(T))
      /\ Total(Refund(S)) \in Int /\ Total(Refund(T)) \in Int
  BY <1>1, <1>2
<1>5. \A U : Net(U) = Total(Debit(U)) - Total(Refund(U))
  BY DEF Net
<1> HIDE DEF Debit, Refund
<1> QED BY <1>3, <1>4, <1>5

(* What the Z reports closed, and the sum of their nets.                      *)
Counted == {i \in seen : \E r \in ClosedBy("Z") : dated[i] <= r.to}

Balanced ==
  /\ IsFiniteSet(seen)
  /\ \A r \in ClosedBy("Z") : r.net \in Int
  /\ Nets(ClosedBy("Z")) = Net(Counted)

LEMMA BalancedReport ==
  ASSUME Clock, Numbers, Partition("Z"), Balanced, Report("Z")
  PROVE  Balanced'
<1> DEFINE W == Within(SinceLast("Z"), now')
           Z == ClosedBy("Z")
<1>1. PICK r : /\ reports' = reports \cup {r}
               /\ r.kind = "Z" /\ r.no = Cardinality(Z) + 1
               /\ r.to = now' /\ r.net = Net(W)
  BY ClosedIsOf, Added
<1>2. /\ Z' = Z \cup {r} /\ r \notin Z /\ IsFiniteSet(Z) /\ IsFiniteSet(Z')
  <2>1. IsFiniteSet(Z) /\ Cardinality(Z) \in Nat /\ \A q \in Z : q.no \in 1..Cardinality(Z)
    BY ClosedIsOf
  <2>2. Z' = Z \cup {r}
    BY <1>1 DEF ClosedBy
  <2>3. r \notin Z
    BY <1>1, <2>1
  <2> HIDE DEF Z
  <2> QED BY <2>1, <2>2, <2>3, FS_AddElement
<1>3. /\ now' = now + 1 /\ now \in Nat /\ UNCHANGED <<seen, dated>> /\ seen \subseteq Invoices
      /\ \A i \in seen : dated[i] \in Nat /\ dated[i] <= now
  BY DEF Report, ReadsClock, Clock
<1>4. Counted \cup W = seen /\ Counted' = seen
  <2>1. \A i \in seen : i \notin Counted => SinceLast("Z") < dated[i]
    <3>1. \A q \in Z : q.to \in Nat
      BY ClosedIsOf
    <3> QED BY <1>3, <3>1, NextPeriod DEF Counted
  <2>2. \A i \in seen : dated[i] <= now'
    BY <1>3
  <2>3. \A i \in seen : i \in Counted'
    BY <1>1, <1>2, <1>3, <2>2 DEF Counted
  <2>4. Counted \subseteq seen /\ W \subseteq seen /\ Counted' \subseteq seen
    BY <1>3 DEF Counted, Within
  <2> QED BY <2>1, <2>2, <2>3, <2>4 DEF Within
<1>5. Counted \cap W = {}
  <2> SUFFICES ASSUME NEW i \in Counted, i \in W PROVE FALSE
    OBVIOUS
  <2>1. PICK q \in Z : dated[i] <= q.to
    BY DEF Counted
  <2>2. q.to <= SinceLast("Z") /\ q.to \in Nat
    BY NextPeriod, ClosedIsOf
  <2>3. SinceLast("Z") < dated[i] /\ dated[i] \in Nat
    BY <1>3 DEF Within, Counted
  <2>4. SinceLast("Z") \in Nat
    BY <2>1, NextPeriod, ClosedIsOf
  <2> QED BY <2>1, <2>2, <2>3, <2>4
<1>6. Net(seen) = Net(Counted) + Net(W) /\ Net(W) \in Int
  <2>1. IsFiniteSet(Counted) /\ IsFiniteSet(W) /\ Counted \in SUBSET Invoices /\ W \in SUBSET Invoices
    BY <1>3, <1>4, FS_Subset DEF Balanced
  <2> HIDE DEF W
  <2> QED BY <1>4, <1>5, <2>1, NetUnion
<1>7. Nets(Z \cup {r}) = Nets(Z) + Net(W)
  <2> DEFINE R == Z \cup {r}
             w == nets(R)
  <2>1. \A q \in R : q.net \in Int
    BY <1>1, <1>6 DEF Balanced
  <2>2. IsFiniteSet(R) /\ Z \in SUBSET R /\ r \in R
    BY <1>2
  <2>3. \A q \in R : w[q] = q.net
    BY DEF nets
  <2>4. Nets(R) = SumOver(w, R) /\ Nets(Z) = SumOver(w, Z)
    <3> HIDE DEF R, Z
    <3> QED BY <2>1, <2>2, NetsIsSum
  <2> HIDE DEF w
  <2>5. SumOver(w, Z \cup {r}) = SumOver(w, Z) + w[r]
    <3>1. /\ \A q \in Z : w[q] \in Int
          /\ w[r] \in Int
      BY <2>1, <2>2, <2>3
    <3> HIDE DEF Z
    <3> QED BY <1>2, <3>1, SumOverAdd
  <2> QED BY <1>1, <2>2, <2>3, <2>4, <2>5
<1>8. \A q \in Z' : q.net \in Int
  BY <1>1, <1>2, <1>6 DEF Balanced
<1> HIDE DEF Z, W
<1> QED BY <1>2, <1>3, <1>4, <1>6, <1>7, <1>8 DEF Balanced, Z

LEMMA BalancedNext ==
  ASSUME Clock, Numbers, Partition("Z"), Balanced, [ReportsNext]_reportVars
  PROVE  Balanced'
<1>1. ASSUME ClosedBy("Z")' = ClosedBy("Z"), UNCHANGED <<seen, dated>>
      PROVE  Balanced'
  BY <1>1 DEF Balanced, Counted
<1>2. ASSUME NEW i \in Invoices, Register(i) PROVE Balanced'
  <2>1. /\ dated[i] = 0 /\ now \in Nat /\ now' = now + 1
        /\ dated' = [dated EXCEPT ![i] = now'] /\ seen' = seen \cup {i} /\ reports' = reports
    BY <1>2 DEF Register, Dates, ReadsClock, Clock
  <2>2. i \notin seen /\ dated'[i] = now + 1 /\ \A j \in seen : dated'[j] = dated[j]
    BY <2>1 DEF Clock
  <2>3. ClosedBy("Z")' = ClosedBy("Z")
    BY <2>1 DEF ClosedBy
  <2>4. \A r \in ClosedBy("Z") : r.to \in Nat /\ r.to <= now
    BY ClosedIsOf DEF Partition
  <2>5. Counted' = Counted
    <3>1. ~ \E r \in ClosedBy("Z") : dated'[i] <= r.to
      BY <2>1, <2>2, <2>4
    <3> QED BY <2>1, <2>2, <2>3, <3>1 DEF Counted
  <2>6. IsFiniteSet(seen')
    BY <2>1, FS_AddElement DEF Balanced
  <2> QED BY <2>3, <2>5, <2>6 DEF Balanced
<1>3. ASSUME NEW j \in Kinds, j # "Z", Report(j) PROVE Balanced'
  <2>1. ClosedBy("Z")' = ClosedBy("Z")
    BY <1>3, Added DEF ClosedBy
  <2>2. UNCHANGED <<seen, dated>>
    BY <1>3 DEF Report
  <2> QED BY <1>1, <2>1, <2>2
<1>4. ASSUME NEW i \in Invoices, Start(i) PROVE Balanced'
  BY <1>1, <1>4 DEF Start, ClosedBy
<1>5. CASE UNCHANGED reportVars
  BY <1>1, <1>5 DEF reportVars, ClosedBy
<1> QED BY <1>2, <1>3, <1>4, <1>5, BalancedReport DEF ReportsNext

(* The Z reports, and the A reports, partition the registered invoices: periods follow each   *)
(* other, an invoice that a report has passed is counted in one report and only one, and the  *)
(* nets of the Z reports sum to the sales less the credit notes of the invoices they closed.  *)
THEOREM PeriodsPartition == ReportsSpec => []ZPartition
<1> DEFINE Inv == Clock /\ Numbers /\ Partition("Z") /\ Partition("A") /\ Balanced
<1>1. ReportsInit => Inv
  <2> SUFFICES ASSUME ReportsInit PROVE Inv
    OBVIOUS
  <2>1. Numbers /\ Partition("Z") /\ Partition("A")
    BY FS_EmptySet DEF ReportsInit, Numbers, Of, Partition, ClosedBy
  <2>2. ClosedBy("Z") = {} /\ Counted = {} /\ seen = {} /\ IsFiniteSet({})
    BY FS_EmptySet DEF ReportsInit, ClosedBy, Counted
  <2>3. Nets({}) = 0
    <3>1. Nets({}) = SumOver(nets({}), {})
      BY <2>2, NetsIsSum
    <3> QED BY <3>1, SumOverEmpty
  <2>4. Net({}) = 0
    <3>1. Total({}) = SumOver(amounts, {})
      BY <2>2, TotalIsSum
    <3>2. Total({}) = 0
      BY <3>1, SumOverEmpty
    <3>3. {i \in {} : ~Credit(i)} = {} /\ {i \in {} : Credit(i)} = {}
      OBVIOUS
    <3> QED BY <3>2, <3>3 DEF Net
  <2> QED BY <2>1, <2>2, <2>3, <2>4, ClockInit DEF Balanced
<1>2. Inv /\ [ReportsNext]_reportVars => Inv'
  BY ClockNext, NumbersNext, PartitionNext, BalancedNext
<1>3. Inv => ZPartition
  BY PartitionCloses DEF Balanced, Nets, Counted, ZPartition, AddsUp
<1> HIDE DEF Inv
<1> QED BY <1>1, <1>2, <1>3, PTL DEF ReportsSpec

================================================================================
