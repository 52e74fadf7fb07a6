--------------------------- MODULE SerialLink_proofs ---------------------------
(***************************************************************************)
(* What SerialLink promises for every SEQ range, number of attempts, number *)
(* of invoices and number of troubles below the SEQ range, proved with       *)
(* TLAPS: LinkTypeOK, LinesCounted and VerdictsHold.                         *)
(***************************************************************************)
EXTENDS SerialLink, FiniteSetTheorems, TLAPS

----
(* What is on the line *)

Key(f) == <<f.seq, Code(f.cmd)>>          \* what the MCF and the gateway tell a frame by
Own    == <<call.seq, Code(call.cmd)>>
First  == <<1, "C1">>                     \* the command that opens a port

Busy    == call # NoCall
Opening == at \in {"hello", "closed"}
AllOwn  == \A k \in DOMAIN wire : Key(wire[k]) = Own
Live(k) == Key(wire[k]) # mcf.last        \* the MCF will execute this frame, not repeat an answer
Leads(k) == \A j \in DOMAIN wire : j < k => Key(wire[j]) \in {mcf.last, Key(wire[k])}

Registered(n) == \E k \in DOMAIN mcf.book : mcf.book[k].fn = n

FrameSet == [cmd : Commands, seq : 0..MaxSeq, fn : 1..MaxInvoices, ok : BOOLEAN]
Rows     == [fn : 1..MaxInvoices, lines : 0..2]
McfSet   == [last : (0..MaxSeq) \X (Commands \cup {"None"}), answer : Answers,
             open : 0..MaxInvoices, lines : 0..2, book : Seq(Rows)]

(* The inductive invariant, part by part *)

StateTyped ==
  /\ inv \in 1..MaxInvoices /\ at \in Places /\ seq \in 0..MaxSeq
  /\ verdict \in [1..MaxInvoices -> {"none", "normalized", "rejected"}]
  /\ call \in [cmd : Commands, seq : 0..MaxSeq, try : 1..Retries] \cup {NoCall}
  /\ wire \in Seq(FrameSet) /\ inbox \in Seq(Replies) /\ mcf \in McfSet
  /\ troubles \in 0..MaxTroubles

\* How many commands ago a SEQ was taken, from 1 to MaxSeq; a port just opened counts afresh.
Back(q, s)    == IF s <= q THEN q - s ELSE q + MaxSeq + 1 - s
Age(s)        == IF Opening THEN 0 ELSE Back(seq, s)
AgeAt(k)      == IF k = 0 THEN Age(mcf.last[1]) ELSE Age(wire[k].seq)
BadFrom(w, k) == {j \in DOMAIN w : j > k /\ ~w[j].ok}
Garbled(w, k) == Cardinality(BadFrom(w, k))
Spent(k)      == AgeAt(k) + k + Garbled(wire, k) + (IF Busy THEN Len(inbox) ELSE 0)

\* Every command that ages an unread frame, every frame before it, every garbled one behind it and
\* every answer not read was paid for with a trouble, but the attempt in progress.
Budget == \A k \in 0..Len(wire) : Spent(k) <= (IF Busy THEN troubles + 1 ELSE troubles)

\* An attempt that will end in silence was paid for already.
Slack ==
  Busy /\ at # "hello" =>
    \/ mcf.last = Own
    \/ inbox # <<>>
    \/ \E k \in DOMAIN wire : Key(wire[k]) = Own
    \/ \A k \in 0..Len(wire) : Spent(k) <= troubles

CallOK ==
  /\ Busy => at \notin Resting /\ call.cmd = CommandAt[at] /\ call.seq = seq
  /\ at = "hello" => seq = (IF Busy THEN 1 ELSE 0)
  /\ at = "hello" /\ ~Busy => \A k \in DOMAIN wire : Key(wire[k]) # First

\* The copies of a frame follow one another, and so do they and the last frame executed.
WireOK ==
  /\ \A k \in DOMAIN wire : wire[k].fn \in 1..inv
  /\ \A i, j, k \in DOMAIN wire :
       i < j /\ j < k /\ Key(wire[i]) = Key(wire[k]) => Key(wire[j]) = Key(wire[k])
  /\ \A j, k \in DOMAIN wire :
       j < k /\ Key(wire[k]) = mcf.last /\ ~(Opening /\ Key(wire[k]) = First) => Key(wire[j]) = mcf.last

\* The frames of the exchange come last; its answer is the present answer of the MCF, and nothing
\* else is on the line behind it.
OwnOK ==
  Busy =>
    /\ \A k \in DOMAIN wire : Key(wire[k]) = Own => wire[k].cmd = call.cmd /\ wire[k].fn = inv
    /\ \A j, k \in DOMAIN wire : j < k /\ Key(wire[j]) = Own => Key(wire[k]) = Own
    /\ at # "hello" /\ mcf.last = Own => AllOwn
    /\ \A i \in DOMAIN inbox :
         inbox[i].kind \notin {"NAK", "invalid"} /\ Matches(inbox[i]) =>
           mcf.last = Own /\ AllOwn /\ inbox[i] = Reply(call.seq, Code(call.cmd), mcf.answer)

\* An unread 38h finds the invoice of the moment, complete, while its outcome is still open; an
\* unread 31h finds at most one line.
LiveOK ==
  \A k \in DOMAIN wire : Live(k) =>
    /\ wire[k].cmd = "38" =>
         /\ at \in {"final", "check", "pause", "hello", "closed"}
         /\ mcf.open = inv /\ mcf.lines = 2 /\ ~Registered(inv) /\ Leads(k)
    /\ wire[k].cmd = "31" => mcf.lines <= 1 /\ Leads(k)

BookOK ==
  \A k \in DOMAIN mcf.book :
    /\ mcf.book[k].fn <= inv /\ mcf.book[k].lines = 2
    /\ \A j \in DOMAIN mcf.book : j < k => mcf.book[j].fn < mcf.book[k].fn

VerdictOK ==
  /\ \A n \in 1..MaxInvoices : /\ verdict[n] = "rejected" => ~Registered(n)
                               /\ verdict[n] = "normalized" => Registered(n)
                               /\ n > inv => verdict[n] = "none"
  /\ at # "idle" => verdict[inv] = "none"

Build      == {"line1", "line2", "sum", "final"}
NotFinal   == {"prepare", "clean", "open", "line1", "line2", "sum", "abandon", "giveup", "tidy"}
Counted(p) == IF p = "line1" THEN 0 ELSE IF p = "line2" THEN 1 ELSE 2
Ours(n)    == mcf.open = inv /\ mcf.lines = n
Done       == Busy /\ mcf.last = Own

BuildOK ==
  /\ at \in Build => \A k \in DOMAIN wire : Key(wire[k]) = mcf.last \/ (Busy /\ Key(wire[k]) = Own)
  /\ at \in Build /\ ~Done => Ours(Counted(at))
  /\ at \in NotFinal => ~Registered(inv)
  /\ at = "final" /\ ~Done => ~Registered(inv)

AnswerOK ==
  Done =>
    /\ call.cmd = "C1" /\ at # "hello" => mcf.answer.last = LastOf(mcf.book)
    /\ at = "open" => mcf.answer.kind = "E" \/ Ours(0)
    /\ at = "line1" => Ours(1)
    /\ at = "line2" => Ours(2)
    /\ at = "sum" => Ours(2)
    /\ at = "final" =>
         \/ mcf.answer.kind = "R" /\ mcf.answer.last = inv /\ Registered(inv)
         \/ mcf.answer.kind \in {"E", "P"} /\ Ours(2) /\ ~Registered(inv)

LinkInv ==
  /\ StateTyped /\ CallOK /\ WireOK /\ OwnOK /\ LiveOK
  /\ BookOK /\ VerdictOK /\ BuildOK /\ AnswerOK /\ Budget /\ Slack

\* The gateway is not stopped again before the MCF has read the first command it was sent.
PatientStart == [][Restart => \A k \in DOMAIN wire : Key(wire[k]) # First]_vars

----
(* The vocabulary of the commands *)

AllPlaces == {"hello", "prepare", "clean", "open", "line1", "line2", "sum", "final", "abandon",
              "giveup", "check", "tidy", "idle", "pause", "closed"}

LEMMA PlacesListed == Places = AllPlaces
  BY DEF Places, CommandAt, Resting, AllPlaces

CommandOf(p, c) ==
  \/ p \in {"hello", "prepare", "check"} /\ c = "C1"
  \/ p = "open" /\ c = "C0"
  \/ p \in {"line1", "line2"} /\ c = "31"
  \/ p = "sum" /\ c = "33"
  \/ p = "final" /\ c = "38"
  \/ p \in {"clean", "abandon", "giveup", "tidy"} /\ c = "C"

LEMMA CommandsListed ==
  ASSUME NEW p \in Places, p \notin Resting
  PROVE  CommandOf(p, CommandAt[p])
  BY PlacesListed DEF CommandAt, AllPlaces, Resting, CommandOf

LEMMA CommandTyped ==
  ASSUME NEW p \in Places, p \notin Resting
  PROVE  CommandAt[p] \in Commands
  BY CommandsListed DEF CommandOf, Commands

LEMMA NextSeqTyped ==
  ASSUME NEW s \in 0..MaxSeq
  PROVE  NextSeq(s) \in 0..MaxSeq
  BY LinkAssumption DEF NextSeq

\* An exchange has a command of the protocol, a SEQ and an attempt.
LEMMA BusyCall ==
  ASSUME StateTyped, Busy
  PROVE  /\ call \in [cmd : Commands, seq : 0..MaxSeq, try : 1..Retries]
         /\ call.cmd \in Commands /\ call.seq \in 0..MaxSeq /\ call.try \in 1..Retries
  BY DEF StateTyped, Busy

LEMMA NotBusy == call.cmd \in Commands => Busy
  BY DEF Busy, NoCall, Commands

----
(* The forms a step takes *)

\* The frame of a command is appended, or lost; a loss and a garbled frame cost a trouble.
Sends(c, s) ==
  \/ wire' = wire /\ troubles' = troubles + 1
  \/ \E f \in FrameSet : /\ wire' = Append(wire, f)
                         /\ f.cmd = c /\ f.seq = s /\ f.fn = inv
                         /\ troubles' >= (IF f.ok THEN troubles ELSE troubles + 1)

Pays == inbox # <<>> \/ wire = <<>> \/ troubles' = troubles + 1

Issues ==
  /\ call = NoCall /\ at \notin Resting
  /\ seq' = NextSeq(seq)
  /\ call' = [cmd |-> CommandAt[at], seq |-> seq', try |-> 1]
  /\ inbox' = <<>> /\ Sends(CommandAt[at], seq') /\ troubles' \in 0..MaxTroubles
  /\ UNCHANGED <<inv, at, verdict, mcf>>

Resends ==
  /\ Busy /\ call.try < Retries /\ call' = [call EXCEPT !.try = @ + 1]
  /\ inbox' = <<>> /\ Sends(call.cmd, call.seq) /\ troubles' \in 0..MaxTroubles
  /\ Pays
  /\ UNCHANGED <<inv, at, verdict, seq, mcf>>

Answered(a) ==
  /\ Busy /\ inbox # <<>> /\ a = Head(inbox)
  /\ a.kind \notin {"NAK", "invalid"} /\ Matches(a) /\ Returns(a)
  /\ inbox' = Tail(inbox) /\ UNCHANGED <<wire, mcf, troubles>>

Silent ==
  /\ Busy /\ Returns(Silence) /\ UNCHANGED <<wire, inbox, mcf>>
  /\ Pays /\ troubles' \in {troubles, troubles + 1} /\ troubles' \in 0..MaxTroubles

LEMMA TroublesStep ==
  ASSUME StateTyped, Trouble \/ NoTrouble
  PROVE  troubles' \in 0..MaxTroubles /\ troubles' \in {troubles, troubles + 1}
  BY LinkAssumption DEF StateTyped, Trouble, NoTrouble

LEMMA WriteSends ==
  ASSUME StateTyped, NEW c \in Commands, NEW s \in 0..MaxSeq, Write(c, s)
  PROVE  inbox' = <<>> /\ Sends(c, s) /\ troubles' \in 0..MaxTroubles
<1> DEFINE fr(b) == [cmd |-> c, seq |-> s, fn |-> inv, ok |-> b]
<1>1. \A b \in BOOLEAN : /\ fr(b) \in FrameSet /\ fr(b).cmd = c /\ fr(b).seq = s
                         /\ fr(b).fn = inv /\ fr(b).ok = b
  BY DEF StateTyped, FrameSet
<1>2. inbox' = <<>> /\ (Trouble \/ NoTrouble)
  BY DEF Write
<1>3. troubles' \in 0..MaxTroubles
  BY <1>2, TroublesStep
<1>4. \/ NoTrouble /\ wire' = Append(wire, fr(TRUE))
      \/ Trouble /\ wire' = Append(wire, fr(FALSE))
      \/ Trouble /\ wire' = wire
  BY DEF Write
<1>5. troubles \in Nat
  BY LinkAssumption DEF StateTyped
<1> HIDE DEF fr
<1>6. Sends(c, s)
  <2>1. CASE NoTrouble /\ wire' = Append(wire, fr(TRUE))
    <3>1. PICK f \in FrameSet : /\ wire' = Append(wire, f)
                                 /\ f.cmd = c /\ f.seq = s /\ f.fn = inv /\ f.ok = TRUE
      BY <1>1, <2>1
    <3>2. troubles' >= (IF f.ok THEN troubles ELSE troubles + 1)
      BY <3>1, <1>5, <2>1 DEF NoTrouble
    <3>3. QED
      BY <3>1, <3>2 DEF Sends
  <2>2. CASE Trouble /\ wire' = Append(wire, fr(FALSE))
    <3>1. PICK f \in FrameSet : /\ wire' = Append(wire, f)
                                 /\ f.cmd = c /\ f.seq = s /\ f.fn = inv /\ f.ok = FALSE
      BY <1>1, <2>2
    <3>2. troubles' >= (IF f.ok THEN troubles ELSE troubles + 1)
      BY <3>1, <1>5, <2>2 DEF Trouble
    <3>3. QED
      BY <3>1, <3>2 DEF Sends
  <2>3. CASE Trouble /\ wire' = wire
    BY <2>3 DEF Sends, Trouble
  <2>4. QED
    BY <1>4, <2>1, <2>2, <2>3
<1>7. QED
  BY <1>2, <1>3, <1>6

LEMMA IssueForm ==
  ASSUME StateTyped, Issue
  PROVE  Issues
<1>1. CommandAt[at] \in Commands
  BY CommandTyped DEF StateTyped, Issue
<1>2. seq' \in 0..MaxSeq /\ Write(CommandAt[at], seq')
  BY NextSeqTyped DEF Issue, StateTyped
<1>3. inbox' = <<>> /\ Sends(CommandAt[at], seq') /\ troubles' \in 0..MaxTroubles
  BY <1>1, <1>2, WriteSends
<1>4. QED
  BY <1>3 DEF Issue, Issues

LEMMA RepeatForm ==
  ASSUME StateTyped, Busy, Repeat, UNCHANGED mcf, inbox # <<>> \/ wire = <<>>
  PROVE  Resends
<1>1. Write(call.cmd, call.seq) /\ call.cmd \in Commands /\ call.seq \in 0..MaxSeq
  BY BusyCall DEF Repeat
<1>2. inbox' = <<>> /\ Sends(call.cmd, call.seq) /\ troubles' \in 0..MaxTroubles
  BY <1>1, WriteSends
<1>3. QED
  BY <1>2 DEF Repeat, Resends, Pays

LEMMA GivesUpForm ==
  ASSUME StateTyped, Busy, GivesUp, UNCHANGED mcf, inbox # <<>> \/ wire = <<>>
  PROVE  Silent
  BY TroublesStep DEF GivesUp, Silent, Pays

LEMMA BreaksForm ==
  ASSUME StateTyped, Breaks
  PROVE  Silent
  BY TroublesStep DEF Breaks, Busy, Trouble, Silent, Pays

LEMMA ReceiveForm ==
  ASSUME StateTyped, Receive
  PROVE  Resends \/ Silent \/ \E a \in Replies : Answered(a)
<1> DEFINE a == Head(inbox)
<1>1. Busy /\ inbox # <<>> /\ UNCHANGED mcf
  BY DEF Receive, Busy
<1>2. a \in Replies
  BY <1>1 DEF StateTyped
<1>3. CASE a.kind \notin {"NAK", "invalid"} /\ Matches(a)
  <2>1. Returns(a) /\ inbox' = Tail(inbox) /\ NoTrouble /\ UNCHANGED wire
    BY <1>3 DEF Receive
  <2>2. Answered(a)
    BY <1>1, <1>3, <2>1 DEF Answered, NoTrouble
  <2>3. QED
    BY <1>2, <2>2
<1>4. CASE ~(a.kind \notin {"NAK", "invalid"} /\ Matches(a))
  <2>1. Repeat \/ GivesUp
    BY <1>4 DEF Receive
  <2>2. QED
    BY <1>1, <2>1, RepeatForm, GivesUpForm
<1>5. QED
  BY <1>3, <1>4

LEMMA TimeoutForm ==
  ASSUME StateTyped, Timeout
  PROVE  Resends \/ Silent
<1>1. Busy /\ inbox = <<>> /\ UNCHANGED mcf
  BY DEF Timeout, Busy
<1>2. CASE wire = <<>>
  <2>1. Repeat \/ GivesUp
    BY <1>2 DEF Timeout
  <2>2. QED
    BY <1>1, <1>2, <2>1, RepeatForm, GivesUpForm
<1>3. CASE wire # <<>>
  <2> DEFINE f == [cmd |-> call.cmd, seq |-> call.seq, fn |-> inv, ok |-> TRUE]
  <2>1. Trouble /\ inbox' = inbox
    BY <1>3 DEF Timeout
  <2>2. troubles' \in 0..MaxTroubles /\ troubles' = troubles + 1
    BY <2>1, TroublesStep DEF Trouble
  <2>3. CASE /\ call.try < Retries
             /\ call' = [call EXCEPT !.try = @ + 1]
             /\ wire' = Append(wire, f)
             /\ UNCHANGED <<inv, at, verdict, seq>>
    <3>1. f \in FrameSet /\ f.cmd = call.cmd /\ f.seq = call.seq /\ f.fn = inv /\ f.ok = TRUE
      BY <1>1, BusyCall DEF StateTyped, FrameSet
    <3>2. troubles' >= (IF f.ok THEN troubles ELSE troubles + 1)
      BY <2>2, <3>1, LinkAssumption DEF StateTyped
    <3> HIDE DEF f
    <3>3. Sends(call.cmd, call.seq)
      BY <2>3, <3>1, <3>2 DEF Sends
    <3>4. QED
      BY <1>1, <2>1, <2>2, <2>3, <3>3 DEF Resends, Pays
  <2>4. CASE call.try = Retries /\ Returns(Silence) /\ UNCHANGED wire
    BY <1>1, <2>1, <2>2, <2>4 DEF Silent, Pays
  <2>5. QED
    BY <1>3, <2>3, <2>4 DEF Timeout
<1>4. QED
  BY <1>2, <1>3

\* What the wire holds after a frame is written: what it held, then perhaps that frame.
Grows(key, c) ==
  \A k \in DOMAIN wire' :
    \/ k \in DOMAIN wire /\ wire'[k] = wire[k]
    \/ k = Len(wire) + 1 /\ Key(wire'[k]) = key /\ wire'[k].cmd = c /\ wire'[k].fn = inv

LEMMA WireSlots ==
  ASSUME StateTyped
  PROVE  /\ Len(wire) \in Nat /\ DOMAIN wire = 1..Len(wire)
         /\ \A k \in DOMAIN wire : wire[k] \in FrameSet
  BY DEF StateTyped

LEMMA AppendSlots ==
  ASSUME StateTyped, NEW f \in FrameSet, wire' = Append(wire, f)
  PROVE  /\ wire' \in Seq(FrameSet) /\ Len(wire') = Len(wire) + 1
         /\ DOMAIN wire' = 1..(Len(wire) + 1)
         /\ \A k \in DOMAIN wire : wire'[k] = wire[k]
         /\ wire'[Len(wire) + 1] = f
  BY DEF StateTyped

LEMMA SendsGrows ==
  ASSUME StateTyped, NEW c \in Commands, NEW s \in 0..MaxSeq, Sends(c, s)
  PROVE  Grows(<<s, Code(c)>>, c) /\ wire' \in Seq(FrameSet)
<1>1. CASE wire' = wire
  BY <1>1 DEF Grows, StateTyped
<1>2. ASSUME NEW f \in FrameSet, wire' = Append(wire, f), f.cmd = c, f.seq = s, f.fn = inv
      PROVE  Grows(<<s, Code(c)>>, c) /\ wire' \in Seq(FrameSet)
  <2>1. Key(f) = <<s, Code(c)>>
    BY <1>2 DEF Key
  <2>2. \A k \in DOMAIN wire' : k \in DOMAIN wire \/ k = Len(wire) + 1
    BY <1>2, AppendSlots, WireSlots
  <2>3. QED
    BY <1>2, <2>1, <2>2, AppendSlots DEF Grows
<1>3. QED
  BY <1>1, <1>2 DEF Sends

\* The MCF takes the first frame off the wire.
LEMMA TailSlots ==
  ASSUME StateTyped, wire # <<>>, wire' = Tail(wire)
  PROVE  /\ wire' \in Seq(FrameSet) /\ Len(wire') = Len(wire) - 1 /\ Len(wire) >= 1
         /\ 1 \in DOMAIN wire /\ Head(wire) = wire[1] /\ Head(wire) \in FrameSet
         /\ \A k \in DOMAIN wire' : k + 1 \in DOMAIN wire /\ wire'[k] = wire[k + 1] /\ k >= 1
  BY DEF StateTyped

----
(* What the MCF does with a frame *)

Same(m) == mcf.open = m.open /\ mcf.lines = m.lines /\ mcf.book = m.book

Does(f, m) ==
  \/ f.cmd = "C1" /\ Same(m) /\ m.answer.kind = "S" /\ m.answer.last = LastOf(mcf.book)
  \/ f.cmd = "C0" /\ mcf.open = 0 /\ m.open = f.fn /\ m.lines = 0 /\ m.book = mcf.book /\ m.answer.kind = "R"
  \/ f.cmd = "C0" /\ Same(m) /\ mcf.open # 0 /\ m.answer.kind = "E"
  \/ f.cmd \in {"31", "33", "38"} /\ Same(m) /\ mcf.open = 0 /\ m.answer.kind = "E"
  \/ /\ f.cmd = "31" /\ mcf.open # 0 /\ m.open = mcf.open /\ m.lines = mcf.lines + 1
     /\ m.book = mcf.book /\ m.answer.kind = "R"
  \/ f.cmd = "33" /\ mcf.open # 0 /\ Same(m) /\ m.answer.kind = "S" /\ m.answer.lines = mcf.lines
  \/ /\ f.cmd = "38" /\ mcf.open # 0 /\ m.open = 0 /\ m.lines = 0
     /\ m.book = Append(mcf.book, [fn |-> mcf.open, lines |-> mcf.lines])
     /\ m.answer.kind = "R" /\ m.answer.last = mcf.open
  \/ f.cmd = "38" /\ mcf.open # 0 /\ Same(m) /\ m.answer.kind \in {"E", "P"}
  \/ f.cmd = "C" /\ m.open = 0 /\ m.lines = 0 /\ m.book = mcf.book /\ m.answer.kind = "E"

Memory(l, a, o, n, b) == [last |-> l, answer |-> a, open |-> o, lines |-> n, book |-> b]

LEMMA MemoryFields ==
  ASSUME NEW l, NEW a, NEW o, NEW n, NEW b
  PROVE  /\ Memory(l, a, o, n, b).last = l /\ Memory(l, a, o, n, b).answer = a
         /\ Memory(l, a, o, n, b).open = o /\ Memory(l, a, o, n, b).lines = n
         /\ Memory(l, a, o, n, b).book = b
  BY DEF Memory

LEMMA AnswerUpdates ==
  ASSUME NEW k, NEW x, NEW y
  PROVE  /\ Plain(k).kind = k
         /\ [Plain(k) EXCEPT !.last = x].kind = k /\ [Plain(k) EXCEPT !.last = x].last = x
         /\ [Plain(k) EXCEPT !.lines = x].kind = k /\ [Plain(k) EXCEPT !.lines = x].lines = x
         /\ [Plain(k) EXCEPT !.last = x, !.open = y].kind = k
         /\ [Plain(k) EXCEPT !.last = x, !.open = y].last = x
  BY DEF Plain

LEMMA McfFields ==
  ASSUME StateTyped
  PROVE  /\ mcf.last \in (0..MaxSeq) \X (Commands \cup {"None"}) /\ mcf.answer \in Answers
         /\ mcf.open \in 0..MaxInvoices /\ mcf.lines \in 0..2 /\ mcf.book \in Seq(Rows)
  BY DEF StateTyped, McfSet

LEMMA PlainTyped ==
  ASSUME NEW k \in {"R", "E", "P", "S", "NAK"}, NEW x \in 0..MaxInvoices, NEW y \in BOOLEAN,
         NEW z \in 0..2
  PROVE  /\ Plain(k) \in Answers /\ [Plain(k) EXCEPT !.last = x] \in Answers
         /\ [Plain(k) EXCEPT !.last = x, !.open = y] \in Answers
         /\ [Plain(k) EXCEPT !.lines = z] \in Answers
<1>1. 0 \in 0..MaxInvoices
  BY LinkAssumption
<1>2. Plain(k) \in Answers
  BY <1>1 DEF Plain, Answers
<1>3. [Plain(k) EXCEPT !.last = x] \in Answers
  BY <1>2 DEF Plain, Answers
<1>4. [Plain(k) EXCEPT !.last = x, !.open = y] \in Answers
  BY <1>3 DEF Plain, Answers
<1>5. [Plain(k) EXCEPT !.lines = z] \in Answers
  BY <1>2 DEF Plain, Answers
<1>6. QED
  BY <1>2, <1>3, <1>4, <1>5

LEMMA StatusTyped ==
  ASSUME NEW x \in 0..MaxInvoices, NEW y \in BOOLEAN
  PROVE  [Plain("S") EXCEPT !.last = x, !.open = y] \in Answers
<1>0. 0 \in 0..MaxInvoices
  BY LinkAssumption
<1>1. Plain("S") \in Answers
  BY <1>0 DEF Plain, Answers
<1>2. [Plain("S") EXCEPT !.last = x] \in Answers
  BY <1>1 DEF Plain, Answers
<1>3. QED
  BY <1>2 DEF Plain, Answers

LEMMA LastOfTyped ==
  ASSUME NEW b \in Seq(Rows)
  PROVE  LastOf(b) \in 0..MaxInvoices
<1>1. CASE b = <<>>
  BY <1>1, LinkAssumption DEF LastOf
<1>2. CASE b # <<>>
  <2>1. b[Len(b)] \in Rows
    BY <1>2
  <2>2. QED
    BY <1>2, <2>1 DEF LastOf, Last, Rows
<1>3. QED
  BY <1>1, <1>2

LEMMA McfMemory ==
  ASSUME StateTyped
  PROVE  mcf = Memory(mcf.last, mcf.answer, mcf.open, mcf.lines, mcf.book)
  BY DEF StateTyped, McfSet, Memory

LEMMA McfUpdates ==
  ASSUME StateTyped, NEW x, NEW y, NEW z
  PROVE  /\ [mcf EXCEPT !.answer = x] = Memory(mcf.last, x, mcf.open, mcf.lines, mcf.book)
         /\ [mcf EXCEPT !.answer = x, !.lines = @ + 1]
              = Memory(mcf.last, x, mcf.open, mcf.lines + 1, mcf.book)
         /\ [mcf EXCEPT !.answer = x, !.open = y, !.lines = z] = Memory(mcf.last, x, y, z, mcf.book)
<1> DEFINE l == mcf.last  a == mcf.answer  o == mcf.open  n == mcf.lines  b == mcf.book
<1>1. mcf = Memory(l, a, o, n, b)
  BY McfMemory
<1>2. Memory(l, a, o, n, b).lines = n
  BY MemoryFields
<1> HIDE DEF l, a, o, n, b
<1>3. [Memory(l, a, o, n, b) EXCEPT !.answer = x] = Memory(l, x, o, n, b)
  BY DEF Memory
<1>4. [Memory(l, x, o, n, b) EXCEPT !.open = y] = Memory(l, x, y, n, b)
  BY DEF Memory
<1>5. [Memory(l, x, y, n, b) EXCEPT !.lines = z] = Memory(l, x, y, z, b)
  BY DEF Memory
<1>7. [Memory(l, x, o, n, b) EXCEPT !.lines = n + 1] = Memory(l, x, o, n + 1, b)
  BY DEF Memory
<1>8. mcf.lines = n
  BY <1>1, <1>2
<1>9. [mcf EXCEPT !.answer = x, !.lines = @ + 1] = Memory(l, x, o, n + 1, b)
  BY <1>1, <1>3, <1>7, <1>8, Zenon
<1>10. [mcf EXCEPT !.answer = x, !.open = y, !.lines = z] = Memory(l, x, y, z, b)
  BY <1>1, <1>3, <1>4, <1>5, Zenon
<1>12. [mcf EXCEPT !.answer = x] = Memory(l, x, o, n, b)
  BY <1>1, <1>3, Zenon
<1>13. QED
  BY <1>9, <1>10, <1>12, Zenon DEF l, a, o, n, b

LEMMA McfRegisters ==
  ASSUME StateTyped, NEW x, NEW w
  PROVE  [mcf EXCEPT !.answer = x, !.open = 0, !.lines = 0, !.book = w] = Memory(mcf.last, x, 0, 0, w)
<1> DEFINE l == mcf.last  a == mcf.answer  o == mcf.open  n == mcf.lines  b == mcf.book
<1>1. mcf = Memory(l, a, o, n, b)
  BY McfMemory
<1> HIDE DEF l, a, o, n, b
<1>2. [Memory(l, a, o, n, b) EXCEPT !.answer = x] = Memory(l, x, o, n, b)
  BY DEF Memory
<1>3. [Memory(l, x, o, n, b) EXCEPT !.open = 0] = Memory(l, x, 0, n, b)
  BY DEF Memory
<1>4. [Memory(l, x, 0, n, b) EXCEPT !.lines = 0] = Memory(l, x, 0, 0, b)
  BY DEF Memory
<1>5. [Memory(l, x, 0, 0, b) EXCEPT !.book = w] = Memory(l, x, 0, 0, w)
  BY DEF Memory
<1>6. [mcf EXCEPT !.answer = x, !.open = 0, !.lines = 0, !.book = w] = Memory(l, x, 0, 0, w)
  BY <1>1, <1>2, <1>3, <1>4, <1>5, Zenon
<1>7. QED
  BY <1>6, Zenon DEF l

\* What is left of the memory of the MCF once it has executed a frame.
LEMMA ExecutedDoes ==
  ASSUME StateTyped, NEW f \in FrameSet, NEW m \in Executed(f) \cup Hesitated(f)
  PROVE  /\ m = Memory(mcf.last, m.answer, m.open, m.lines, m.book)
         /\ Does(f, m) /\ m.answer \in Answers
<1> DEFINE none == mcf.open = 0
           Kept(a) == Memory(mcf.last, a, mcf.open, mcf.lines, mcf.book)
           Is(a, o, n, b) == m = Memory(mcf.last, a, o, n, b)
           Booked == Append(mcf.book, [fn |-> mcf.open, lines |-> mcf.lines])
<1>1. f.cmd \in Commands
  BY DEF FrameSet
<1>2. \A a, o, n, b : Is(a, o, n, b) =>
        /\ m = Memory(mcf.last, m.answer, m.open, m.lines, m.book)
        /\ m.answer = a /\ m.open = o /\ m.lines = n /\ m.book = b
  BY MemoryFields
<1>3. \A a : m = Kept(a) => Is(a, mcf.open, mcf.lines, mcf.book)
  OBVIOUS
<1> HIDE DEF Is
<1>7. SUFFICES \E a, o, n, b : Is(a, o, n, b) /\ a \in Answers /\ \A x : x.answer = a /\ x.open = o /\ x.lines = n /\ x.book = b => Does(f, x)
  BY <1>2
<1>4. CASE m \in Hesitated(f)
  <2>1. f.cmd = "38" /\ ~none /\ \E k \in {"E", "P"} : m = [mcf EXCEPT !.answer = Plain(k)]
    BY <1>4 DEF Hesitated
  <2>2. PICK k \in {"E", "P"} : m = [mcf EXCEPT !.answer = Plain(k)]
    BY <2>1
  <2>3. Is(Plain(k), mcf.open, mcf.lines, mcf.book)
    BY <2>2, McfUpdates, Zenon DEF Is
  <2>4. \A x : x.answer = Plain(k) /\ x.open = mcf.open /\ x.lines = mcf.lines /\ x.book = mcf.book => Does(f, x)
    BY <2>1, <2>2, AnswerUpdates DEF Does, Same
  <2>9. Plain(k) \in Answers
    BY PlainTyped, LinkAssumption, McfFields, LastOfTyped
  <2>5. QED
    BY <2>3, <2>4, <2>9
<1>5. CASE m \in Executed(f)
  <2>1. CASE f.cmd = "C1"
    <3> DEFINE o == ~none
               a == [Plain("S") EXCEPT !.last = LastOf(mcf.book), !.open = o]
    <3>1. m = [mcf EXCEPT !.answer = a]
      BY <1>5, <2>1 DEF Executed
    <3> HIDE DEF o
    <3>2. a.kind = "S" /\ a.last = LastOf(mcf.book)
      BY DEF Plain
    <3> HIDE DEF a
    <3>3. Is(a, mcf.open, mcf.lines, mcf.book)
      BY <3>1, McfUpdates, Zenon DEF Is
    <3>4. \A x : x.answer = a /\ x.open = mcf.open /\ x.lines = mcf.lines /\ x.book = mcf.book => Does(f, x)
      BY <2>1, <3>2 DEF Does, Same
    <3>9. a \in Answers
      <4>1. PICK x, y : x = LastOf(mcf.book) /\ y = o
        OBVIOUS
      <4>2. x \in 0..MaxInvoices /\ y \in BOOLEAN
        BY <4>1, McfFields, LastOfTyped DEF o
      <4>3. [Plain("S") EXCEPT !.last = x, !.open = y] \in Answers
        BY <4>2, StatusTyped, Zenon
      <4>4. QED
        BY <4>1, <4>3 DEF a
    <3>5. QED
      BY <3>3, <3>4, <3>9
  <2>2. CASE f.cmd = "C0"
    <3>1. CASE none
      <4>1. m = [mcf EXCEPT !.answer = Plain("R"), !.open = f.fn, !.lines = 0]
        BY <1>5, <2>2, <3>1 DEF Executed
      <4>2. Is(Plain("R"), f.fn, 0, mcf.book)
        BY <4>1, McfUpdates, Zenon DEF Is
      <4>3. \A x : x.answer = Plain("R") /\ x.open = f.fn /\ x.lines = 0 /\ x.book = mcf.book => Does(f, x)
        BY <2>2, <3>1, AnswerUpdates DEF Does
      <4>9. Plain("R") \in Answers
        BY PlainTyped, LinkAssumption, McfFields, LastOfTyped
      <4>4. QED
        BY <4>2, <4>3, <4>9
    <3>2. CASE ~none
      <4>1. m = [mcf EXCEPT !.answer = Plain("E")]
        BY <1>5, <2>2, <3>2 DEF Executed
      <4>2. Is(Plain("E"), mcf.open, mcf.lines, mcf.book)
        BY <4>1, McfUpdates, Zenon DEF Is
      <4>3. \A x : x.answer = Plain("E") /\ x.open = mcf.open /\ x.lines = mcf.lines /\ x.book = mcf.book => Does(f, x)
        BY <2>2, <3>2, AnswerUpdates DEF Does, Same
      <4>9. Plain("E") \in Answers
        BY PlainTyped, LinkAssumption, McfFields, LastOfTyped
      <4>4. QED
        BY <4>2, <4>3, <4>9
    <3>9. Plain("E") \in Answers
      BY PlainTyped, LinkAssumption, McfFields, LastOfTyped
    <3>3. QED
      BY <3>1, <3>2, <3>9
  <2>3. CASE f.cmd = "31" /\ ~none
    <3>1. m = [mcf EXCEPT !.answer = Plain("R"), !.lines = @ + 1]
      BY <1>5, <2>3 DEF Executed
    <3>2. Is(Plain("R"), mcf.open, mcf.lines + 1, mcf.book)
      BY <3>1, McfUpdates, Zenon DEF Is
    <3>3. \A x : x.answer = Plain("R") /\ x.open = mcf.open /\ x.lines = mcf.lines + 1 /\ x.book = mcf.book => Does(f, x)
      BY <2>3, AnswerUpdates DEF Does
    <3>9. Plain("R") \in Answers
      BY PlainTyped, LinkAssumption, McfFields, LastOfTyped
    <3>4. QED
      BY <3>2, <3>3, <3>9
  <2>4. CASE f.cmd = "33" /\ ~none
    <3> DEFINE a == [Plain("S") EXCEPT !.lines = mcf.lines]
    <3>1. m = [mcf EXCEPT !.answer = a]
      BY <1>5, <2>4 DEF Executed
    <3>2. a.kind = "S" /\ a.lines = mcf.lines
      BY DEF Plain
    <3> HIDE DEF a
    <3>3. Is(a, mcf.open, mcf.lines, mcf.book)
      BY <3>1, McfUpdates, Zenon DEF Is
    <3>4. \A x : x.answer = a /\ x.open = mcf.open /\ x.lines = mcf.lines /\ x.book = mcf.book => Does(f, x)
      BY <2>4, <3>2 DEF Does, Same
    <3>9. a \in Answers
      BY PlainTyped, LinkAssumption, McfFields, LastOfTyped DEF a
    <3>5. QED
      BY <3>3, <3>4, <3>9
  <2>5. CASE f.cmd = "38" /\ ~none
    <3> DEFINE a == [Plain("R") EXCEPT !.last = mcf.open]
    <3>1. m = [mcf EXCEPT !.answer = a, !.open = 0, !.lines = 0, !.book = Booked]
      BY <1>5, <2>5 DEF Executed
    <3>2. a.kind = "R" /\ a.last = mcf.open
      BY DEF Plain
    <3> HIDE DEF a, Booked
    <3>6. PICK r, b : r = a /\ b = Booked
      OBVIOUS
    <3>7. [mcf EXCEPT !.answer = r, !.open = 0, !.lines = 0, !.book = b] = Memory(mcf.last, r, 0, 0, b)
      BY McfRegisters, Zenon
    <3>3. Is(a, 0, 0, Booked)
      BY <3>1, <3>6, <3>7, Zenon DEF Is
    <3>4. \A x : x.answer = a /\ x.open = 0 /\ x.lines = 0 /\ x.book = Booked => Does(f, x)
      BY <2>5, <3>2 DEF Does, Booked
    <3>9. a \in Answers
      BY PlainTyped, LinkAssumption, McfFields, LastOfTyped DEF a
    <3>5. QED
      BY <3>3, <3>4, <3>9
  <2>6. CASE f.cmd \in {"31", "33", "38"} /\ none
    <3>1. m = [mcf EXCEPT !.answer = Plain("E")]
      BY <1>5, <2>6 DEF Executed
    <3>2. Is(Plain("E"), mcf.open, mcf.lines, mcf.book)
      BY <3>1, McfUpdates, Zenon DEF Is
    <3>3. \A x : x.answer = Plain("E") /\ x.open = mcf.open /\ x.lines = mcf.lines /\ x.book = mcf.book => Does(f, x)
      BY <2>6, AnswerUpdates DEF Does, Same
    <3>9. Plain("E") \in Answers
      BY PlainTyped, LinkAssumption, McfFields, LastOfTyped
    <3>4. QED
      BY <3>2, <3>3, <3>9
  <2>7. CASE f.cmd = "C"
    <3>1. m = [mcf EXCEPT !.answer = Plain("E"), !.open = 0, !.lines = 0]
      BY <1>5, <2>7 DEF Executed
    <3>2. Is(Plain("E"), 0, 0, mcf.book)
      BY <3>1, McfUpdates, Zenon DEF Is
    <3>3. \A x : x.answer = Plain("E") /\ x.open = 0 /\ x.lines = 0 /\ x.book = mcf.book => Does(f, x)
      BY <2>7, AnswerUpdates DEF Does
    <3>9. Plain("E") \in Answers
      BY PlainTyped, LinkAssumption, McfFields, LastOfTyped
    <3>4. QED
      BY <3>2, <3>3, <3>9
  <2>8. QED
    BY <1>1, <2>1, <2>2, <2>3, <2>4, <2>5, <2>6, <2>7 DEF Commands
<1>6. QED
  BY <1>4, <1>5

----
(* The forms a step of the MCF takes *)

Untouched == UNCHANGED <<inv, at, verdict, seq, call>>

ReadsBad ==
  /\ wire # <<>> /\ ~wire[1].ok /\ wire' = Tail(wire)
  /\ UNCHANGED <<mcf, troubles>> /\ Untouched
  /\ \E r \in Replies : inbox' = Append(inbox, r) /\ r.kind = "NAK"

Emits(f) ==
  \/ inbox' = inbox /\ troubles' = troubles + 1
  \/ \E r \in Replies :
       /\ inbox' = Append(inbox, r) /\ troubles' >= troubles
       /\ r.kind = "invalid" \/ r = Reply(f.seq, Code(f.cmd), mcf'.answer)

ReadsGood ==
  /\ wire # <<>> /\ wire[1].ok /\ wire' = Tail(wire) /\ Untouched
  /\ mcf'.last = Key(wire[1]) /\ Emits(wire[1]) /\ troubles' \in 0..MaxTroubles
  /\ \/ mcf.last = Key(wire[1]) /\ mcf' = mcf
     \/ /\ mcf.last # Key(wire[1]) /\ Does(wire[1], mcf') /\ mcf'.answer \in Answers
        /\ mcf' = Memory(mcf'.last, mcf'.answer, mcf'.open, mcf'.lines, mcf'.book)

LEMMA CodeTyped ==
  ASSUME NEW c \in Commands
  PROVE  Code(c) \in Commands
  BY DEF Code, Commands

LEMMA ReplyTyped ==
  ASSUME NEW s \in 0..MaxSeq, NEW c \in Commands, NEW a \in Answers
  PROVE  /\ Reply(s, c, a) \in Replies
         /\ Reply(s, c, a).kind = a.kind /\ Reply(s, c, a).seq = s /\ Reply(s, c, a).cmd = c
         /\ Reply(s, c, a).last = a.last /\ Reply(s, c, a).lines = a.lines
  BY DEF Reply, Replies, Answers

LEMMA GarbledTyped ==
  ASSUME NEW r \in Replies
  PROVE  [r EXCEPT !.kind = "invalid"] \in Replies /\ [r EXCEPT !.kind = "invalid"].kind = "invalid"
  BY DEF Replies

LEMMA EmitForm ==
  ASSUME StateTyped, NEW f \in FrameSet, NEW a \in Answers, mcf'.answer = a,
         \/ Emit(Reply(f.seq, Code(f.cmd), a))
         \/ Trouble /\ inbox' = Append(inbox, Reply(f.seq, Code(f.cmd), a))
  PROVE  Emits(f) /\ troubles' \in 0..MaxTroubles
<1> DEFINE r == Reply(f.seq, Code(f.cmd), a)
           g == [r EXCEPT !.kind = "invalid"]
<1>1. f.seq \in 0..MaxSeq /\ Code(f.cmd) \in Commands
  BY CodeTyped DEF FrameSet
<1>2. r \in Replies /\ g \in Replies /\ g.kind = "invalid"
  <2>1. r \in Replies
    BY <1>1, ReplyTyped
  <2>2. QED
    BY <2>1, GarbledTyped, Zenon
<1>3. Trouble \/ NoTrouble
  BY DEF Emit
<1>4. troubles' \in 0..MaxTroubles /\ troubles' \in {troubles, troubles + 1} /\ troubles \in Nat
  BY <1>3, TroublesStep, LinkAssumption DEF StateTyped
<1>5. \/ inbox' = Append(inbox, r)
      \/ inbox' = Append(inbox, g)
      \/ Trouble /\ inbox' = inbox
  BY Zenon DEF Emit
<1>6. r = Reply(f.seq, Code(f.cmd), mcf'.answer)
  OBVIOUS
<1> HIDE DEF r, g
<1>7. troubles' >= troubles
  BY <1>4
<1>8. QED
  BY <1>2, <1>4, <1>5, <1>6, <1>7 DEF Emits, Trouble

LEMMA McfForm ==
  ASSUME StateTyped, McfReads
  PROVE  ReadsBad \/ ReadsGood
<1> DEFINE f == wire[1]
<1>1. wire # <<>> /\ wire' = Tail(wire) /\ Untouched
  BY DEF McfReads, Untouched
<1>2. f \in FrameSet /\ Head(wire) = f
  BY <1>1 DEF StateTyped
<1>3. f.seq \in 0..MaxSeq /\ Code(f.cmd) \in Commands /\ Key(f) = <<f.seq, Code(f.cmd)>>
  BY <1>2, CodeTyped DEF FrameSet, Key
<1> HIDE DEF f
<1>4. CASE /\ ~f.ok /\ NoTrouble /\ inbox' = Append(inbox, Reply(f.seq, Code(f.cmd), Plain("NAK")))
           /\ UNCHANGED mcf
  <2>1. Plain("NAK") \in Answers /\ Plain("NAK").kind = "NAK"
    <3>1. 0 \in 0..MaxInvoices
      BY LinkAssumption
    <3>2. QED
      BY <3>1 DEF Plain, Answers
  <2>2. PICK r : r = Reply(f.seq, Code(f.cmd), Plain("NAK"))
    OBVIOUS
  <2>3. r \in Replies /\ r.kind = "NAK"
    BY <1>3, <2>1, <2>2, ReplyTyped
  <2>4. QED
    BY <1>1, <1>4, <2>2, <2>3 DEF ReadsBad, NoTrouble, f
<1>5. CASE /\ f.ok /\ mcf.last = <<f.seq, Code(f.cmd)>>
           /\ Emit(Reply(f.seq, Code(f.cmd), mcf.answer)) /\ UNCHANGED mcf
  <2>1. PICK a \in Answers : a = mcf.answer
    BY McfFields
  <2>2. Emits(f) /\ troubles' \in 0..MaxTroubles
    BY <1>2, <1>5, <2>1, EmitForm
  <2>3. QED
    BY <1>1, <1>3, <1>5, <2>2 DEF ReadsGood, f
<1>6. CASE /\ f.ok /\ mcf.last # <<f.seq, Code(f.cmd)>>
           /\ \E m \in Executed(f) \cup Hesitated(f) :
                /\ mcf' = [m EXCEPT !.last = <<f.seq, Code(f.cmd)>>]
                /\ \/ Emit(Reply(f.seq, Code(f.cmd), m.answer))
                   \/ Trouble /\ inbox' = Append(inbox, Reply(f.seq, Code(f.cmd), m.answer))
  <2>1. PICK m \in Executed(f) \cup Hesitated(f) :
          /\ mcf' = [m EXCEPT !.last = <<f.seq, Code(f.cmd)>>]
          /\ \/ Emit(Reply(f.seq, Code(f.cmd), m.answer))
             \/ Trouble /\ inbox' = Append(inbox, Reply(f.seq, Code(f.cmd), m.answer))
    BY <1>6, Zenon
  <2>2. /\ m = Memory(mcf.last, m.answer, m.open, m.lines, m.book)
        /\ Does(f, m) /\ m.answer \in Answers
    BY <1>2, ExecutedDoes
  <2>3. PICK l, o, a, n, b : /\ l = mcf.last /\ a = m.answer /\ o = m.open /\ n = m.lines /\ b = m.book
    OBVIOUS
  <2>4. m = Memory(l, a, o, n, b)
    BY <2>2, <2>3
  <2>5. [Memory(l, a, o, n, b) EXCEPT !.last = Key(f)] = Memory(Key(f), a, o, n, b)
    BY DEF Memory
  <2>6. mcf' = Memory(Key(f), a, o, n, b)
    BY <1>3, <2>1, <2>4, <2>5, Zenon
  <2>7. /\ mcf'.last = Key(f) /\ mcf'.answer = a /\ mcf'.open = o /\ mcf'.lines = n /\ mcf'.book = b
    BY <2>6, MemoryFields
  <2>8. Does(f, mcf')
    BY <2>2, <2>3, <2>7 DEF Does, Same
  <2>9. Emits(f) /\ troubles' \in 0..MaxTroubles
    BY <1>2, <2>1, <2>2, <2>3, <2>7, EmitForm
  <2>10. mcf' = Memory(mcf'.last, mcf'.answer, mcf'.open, mcf'.lines, mcf'.book) /\ mcf'.answer \in Answers
    BY <2>2, <2>3, <2>6, <2>7
  <2>11. QED
    BY <1>1, <1>3, <1>6, <2>7, <2>8, <2>9, <2>10 DEF ReadsGood, f
<1>7. QED
  <2>1. \/ /\ ~f.ok /\ NoTrouble /\ inbox' = Append(inbox, Reply(f.seq, Code(f.cmd), Plain("NAK")))
           /\ UNCHANGED mcf
        \/ /\ f.ok /\ mcf.last = <<f.seq, Code(f.cmd)>>
           /\ Emit(Reply(f.seq, Code(f.cmd), mcf.answer)) /\ UNCHANGED mcf
        \/ /\ f.ok /\ mcf.last # <<f.seq, Code(f.cmd)>>
           /\ \/ \E m \in Executed(f) : mcf' = [m EXCEPT !.last = <<f.seq, Code(f.cmd)>>]
                                         /\ Emit(Reply(f.seq, Code(f.cmd), m.answer))
              \/ \E m \in Hesitated(f) : /\ mcf' = [m EXCEPT !.last = <<f.seq, Code(f.cmd)>>]
                                         /\ Trouble
                                         /\ inbox' = Append(inbox, Reply(f.seq, Code(f.cmd), m.answer))
    BY <1>2, Zenon DEF McfReads
  <2>2. QED
    BY <1>4, <1>5, <1>6, <2>1, Zenon

----
(* Where an answer, or the lack of one, leads *)

Verdicts == {"none", "normalized", "rejected"}

Route(a, q, v) ==
  \/ at = "hello" /\ v = "none" /\ (IF a = Silence THEN q = "closed" ELSE q = "check")
  \/ at = "prepare" /\ a = Silence /\ q = "idle" /\ v = "rejected"
  \/ at = "prepare" /\ a # Silence /\ a.last = inv /\ q = "idle" /\ v = "normalized"
  \/ at = "prepare" /\ a # Silence /\ q \in {"clean", "open"} /\ v = "none"
  \/ at = "check" /\ a = Silence /\ q = "pause" /\ v = "none"
  \/ at = "check" /\ a # Silence /\ a.last = inv /\ q = "idle" /\ v = "normalized"
  \/ at = "check" /\ a # Silence /\ a.last # inv /\ q = "tidy" /\ v = "none"
  \/ at = "check" /\ a # Silence /\ a.last # inv /\ q = "idle" /\ v = "rejected"
  \/ at \in {"open", "line1", "line2", "sum"} /\ q = "abandon" /\ v = "none"
  \/ at = "open" /\ a # Silence /\ a.kind # "E" /\ q = "line1" /\ v = "none"
  \/ at = "line1" /\ a # Silence /\ q = "line2" /\ v = "none"
  \/ at = "line2" /\ a # Silence /\ q = "sum" /\ v = "none"
  \/ at = "sum" /\ a # Silence /\ q = "final" /\ v = "none"
  \/ at = "final" /\ a = Silence /\ q = "check" /\ v = "none"
  \/ at = "final" /\ a # Silence /\ a.kind = "E" /\ q = "abandon" /\ v = "none"
  \/ at = "final" /\ a # Silence /\ a.kind = "P" /\ q \in {"final", "giveup"} /\ v = "none"
  \/ at = "final" /\ a # Silence /\ a.kind = "R" /\ a.last = inv /\ q = "idle" /\ v = "normalized"
  \/ at = "final" /\ a # Silence /\ a.kind = "R" /\ a.last # inv /\ q = "check" /\ v = "none"
  \/ at = "clean" /\ q = "open" /\ v = "none"
  \/ at = "giveup" /\ a = Silence /\ q = "check" /\ v = "none"
  \/ at = "giveup" /\ a # Silence /\ q = "idle" /\ v = "rejected"
  \/ at \in {"abandon", "tidy"} /\ q = "idle" /\ v = "rejected"

Goes(a) ==
  /\ \E q \in Places, v \in Verdicts :
       Route(a, q, v) /\ at' = q /\ verdict' = [verdict EXCEPT ![inv] = v]
  /\ call' = NoCall /\ UNCHANGED <<inv, seq>>

LEMMA AnswerKinds ==
  ASSUME NEW a \in Replies
  PROVE  /\ a # Silence /\ a.last \in 0..MaxInvoices
         /\ a.kind \in {"R", "E", "P", "S", "NAK", "invalid"}
<1>1. a.kind # "LinkError"
  BY DEF Replies
<1>2. Silence.kind = "LinkError"
  BY DEF Silence
<1>3. QED
  BY <1>1, <1>2 DEF Replies

LEMMA ReturnsGoes ==
  ASSUME StateTyped, CallOK, Busy, NEW a, a = Silence \/ a \in Replies, Returns(a),
         at = "final" /\ a # Silence => a.kind \in {"E", "P", "R"}
  PROVE  Goes(a)
<1> DEFINE Allows(r) == \E q \in Places, v \in Verdicts :
                    Route(a, q, v) /\ r.at = q /\ r.verdict = v
<1>1. at \in AllPlaces /\ at \notin Resting /\ CommandOf(at, call.cmd)
  BY PlacesListed, CommandsListed DEF CallOK, StateTyped
<1>2. PICK r \in After(a) : at' = r.at /\ verdict' = [verdict EXCEPT ![inv] = r.verdict]
  BY DEF Returns
<1>3. \A q \in AllPlaces, v \in Verdicts : Route(a, q, v) /\ r.at = q /\ r.verdict = v => Allows(r)
  BY PlacesListed
<1>4. /\ \A p : To(p).at = p /\ To(p).verdict = "none"
      /\ \A v : Ends(v).at = "idle" /\ Ends(v).verdict = v
  BY DEF To, Ends
<1>8. a # Silence => a.kind \in {"R", "E", "P", "S", "NAK", "invalid"}
  BY AnswerKinds
<1> HIDE DEF Allows
<1>5. /\ \A p \in AllPlaces : r = To(p) /\ Route(a, p, "none") => Allows(r)
      /\ \A v \in Verdicts : r = Ends(v) /\ Route(a, "idle", v) => Allows(r)
  <2>1. ASSUME NEW p \in AllPlaces, r = To(p), Route(a, p, "none")
        PROVE  Allows(r)
    <3>1. r.at = p /\ r.verdict = "none" /\ "none" \in Verdicts
      BY <1>4, <2>1 DEF Verdicts
    <3>2. QED
      BY <1>3, <2>1, <3>1
  <2>2. ASSUME NEW v \in Verdicts, r = Ends(v), Route(a, "idle", v)
        PROVE  Allows(r)
    <3>1. r.at = "idle" /\ r.verdict = v /\ "idle" \in AllPlaces
      BY <1>4, <2>2 DEF AllPlaces
    <3>2. QED
      BY <1>3, <2>2, <3>1
  <2>3. QED
    BY <2>1, <2>2
<1>6. Allows(r)
  <2> USE DEF AllPlaces, Verdicts
  <2>1. CASE at = "hello"
    <3>1. call.cmd = "C1"
      BY <1>1, <2>1 DEF CommandOf
    <3>2. r = To(IF a = Silence THEN "closed" ELSE "check")
      BY <1>2, <2>1, <3>1 DEF After, AfterStatus
    <3>3. CASE a = Silence
      BY <1>5, <2>1, <3>2, <3>3 DEF Route
    <3>4. CASE a # Silence
      BY <1>5, <2>1, <3>2, <3>4 DEF Route
    <3>5. QED
      BY <3>3, <3>4
  <2>2. CASE at = "prepare"
    <3>1. call.cmd = "C1"
      BY <1>1, <2>2 DEF CommandOf
    <3>2. r = IF a = Silence THEN Ends("rejected")
              ELSE IF a.last = inv THEN Ends("normalized")
              ELSE To(IF a.open THEN "clean" ELSE "open")
      BY <1>2, <2>2, <3>1 DEF After, AfterStatus
    <3>3. CASE a = Silence
      BY <1>5, <2>2, <3>2, <3>3 DEF Route
    <3>4. CASE a # Silence /\ a.last = inv
      BY <1>5, <2>2, <3>2, <3>4 DEF Route
    <3>5. CASE a # Silence /\ a.last # inv
      <4>1. r = To("clean") \/ r = To("open")
        BY <3>2, <3>5
      <4>2. QED
        BY <1>5, <2>2, <3>5, <4>1 DEF Route
    <3>6. QED
      BY <3>3, <3>4, <3>5
  <2>3. CASE at = "check"
    <3>1. call.cmd = "C1"
      BY <1>1, <2>3 DEF CommandOf
    <3>2. r = AfterCheck(a)
      BY <1>2, <2>3, <3>1 DEF After, AfterStatus
    <3>3. CASE a = Silence
      BY <1>5, <2>3, <3>2, <3>3 DEF Route, AfterCheck
    <3>4. CASE a # Silence /\ a.last = inv
      BY <1>5, <2>3, <3>2, <3>4 DEF Route, AfterCheck
    <3>5. CASE a # Silence /\ a.last # inv
      <4>1. r = To("tidy") \/ r = Ends("rejected")
        BY <3>2, <3>5 DEF AfterCheck
      <4>2. QED
        BY <1>5, <2>3, <3>5, <4>1 DEF Route
    <3>6. QED
      BY <3>3, <3>4, <3>5
  <2>4. CASE at \in {"open", "line1", "line2", "sum"}
    <3>1. call.cmd \in {"C0", "31", "33"}
      BY <1>1, <2>4 DEF CommandOf
    <3>2. r \in AfterBuild(a)
      BY <1>2, <3>1 DEF After
    <3>3. CASE Refused(a)
      <4>1. r = To("abandon")
        BY <3>2, <3>3 DEF AfterBuild
      <4>2. QED
        BY <1>5, <2>4, <4>1 DEF Route
    <3>4. CASE ~Refused(a)
      <4>1. a # Silence /\ a.kind # "E"
        BY <3>4 DEF Refused
      <4>2. \/ at = "open" /\ r = To("line1")
            \/ at = "line1" /\ r = To("line2")
            \/ at = "line2" /\ r = To("sum")
            \/ at = "sum" /\ (r = To("final") \/ r = To("abandon"))
        BY <2>4, <3>2, <3>4 DEF AfterBuild
      <4>3. QED
        BY <1>5, <4>1, <4>2 DEF Route
    <3>5. QED
      BY <3>3, <3>4
  <2>5. CASE at = "final"
    <3>1. call.cmd = "38"
      BY <1>1, <2>5 DEF CommandOf
    <3>2. r \in AfterFinalize(a)
      BY <1>2, <3>1 DEF After
    <3>3. CASE a = Silence
      BY <1>5, <2>5, <3>2, <3>3 DEF Route, AfterFinalize
    <3>4. CASE a # Silence /\ a.kind = "E"
      BY <1>5, <2>5, <3>2, <3>4 DEF Route, AfterFinalize
    <3>5. CASE a # Silence /\ a.kind = "P"
      <4>1. r = To("final") \/ r = To("giveup")
        BY <3>2, <3>5 DEF AfterFinalize
      <4>2. QED
        BY <1>5, <2>5, <3>5, <4>1 DEF Route
    <3>6. CASE a # Silence /\ a.kind = "R"
      <4>1. r = IF a.last = inv THEN Ends("normalized") ELSE To("check")
        BY <3>2, <3>6 DEF AfterFinalize
      <4>2. CASE a.last = inv
        BY <1>5, <2>5, <3>6, <4>1, <4>2 DEF Route
      <4>3. CASE a.last # inv
        BY <1>5, <2>5, <3>6, <4>1, <4>3 DEF Route
      <4>4. QED
        BY <4>2, <4>3
    <3>7. QED
      BY <2>5, <3>3, <3>4, <3>5, <3>6
  <2>6. CASE at \in {"clean", "giveup", "abandon", "tidy"}
    <3>1. call.cmd = "C"
      BY <1>1, <2>6 DEF CommandOf
    <3>2. r \in AfterCancel(a)
      BY <1>2, <3>1 DEF After
    <3>3. CASE at = "clean"
      BY <1>5, <3>2, <3>3 DEF Route, AfterCancel
    <3>4. CASE at = "giveup" /\ a = Silence
      BY <1>5, <3>2, <3>4 DEF Route, AfterCancel
    <3>5. CASE at = "giveup" /\ a # Silence
      BY <1>5, <3>2, <3>5 DEF Route, AfterCancel
    <3>6. CASE at \in {"abandon", "tidy"}
      BY <1>5, <3>2, <3>6 DEF Route, AfterCancel
    <3>7. QED
      BY <2>6, <3>3, <3>4, <3>5, <3>6
  <2>7. QED
    BY <1>1, <2>1, <2>2, <2>3, <2>4, <2>5, <2>6 DEF Resting
<1>7. QED
  BY <1>2, <1>6 DEF Goes, Returns, Allows

----
(* Garbled frames are counted, ages are followed *)

LEMMA GarbledCount ==
  ASSUME NEW w \in Seq(FrameSet), NEW k \in Nat
  PROVE  IsFiniteSet(BadFrom(w, k)) /\ Garbled(w, k) \in Nat
<1>1. DOMAIN w = 1..Len(w) /\ Len(w) \in Nat
  OBVIOUS
<1>2. IsFiniteSet(1..Len(w))
  BY <1>1, FS_Interval
<1>3. BadFrom(w, k) \subseteq 1..Len(w)
  BY <1>1 DEF BadFrom
<1>4. IsFiniteSet(BadFrom(w, k))
  BY <1>2, <1>3, FS_Subset
<1>5. QED
  BY <1>4, FS_CardinalityType DEF Garbled

LEMMA GarbledNone ==
  ASSUME NEW w \in Seq(FrameSet)
  PROVE  Garbled(w, Len(w)) = 0
<1>1. BadFrom(w, Len(w)) = {}
  BY DEF BadFrom
<1>2. QED
  BY <1>1, FS_EmptySet DEF Garbled

LEMMA GarbledAppend ==
  ASSUME NEW w \in Seq(FrameSet), NEW f \in FrameSet, NEW k \in 0..Len(w)
  PROVE  Garbled(Append(w, f), k) = Garbled(w, k) + (IF f.ok THEN 0 ELSE 1)
<1> DEFINE v == Append(w, f)  n == Len(w) + 1
<1>1. /\ DOMAIN v = 1..n /\ DOMAIN w = 1..Len(w) /\ Len(w) \in Nat /\ v[n] = f
      /\ \A j \in DOMAIN w : v[j] = w[j]
  OBVIOUS
<1>2. IsFiniteSet(BadFrom(w, k)) /\ Garbled(w, k) \in Nat
  BY GarbledCount
<1> HIDE DEF v
<1>3. CASE f.ok
  <2>1. BadFrom(v, k) = BadFrom(w, k)
    BY <1>1, <1>3 DEF BadFrom
  <2>2. QED
    BY <1>2, <1>3, <2>1 DEF Garbled, v
<1>4. CASE ~f.ok
  <2>1. BadFrom(v, k) = BadFrom(w, k) \cup {n}
    BY <1>1, <1>4 DEF BadFrom
  <2>2. n \notin BadFrom(w, k)
    BY <1>1 DEF BadFrom
  <2>3. Cardinality(BadFrom(w, k) \cup {n}) = Cardinality(BadFrom(w, k)) + 1
    BY <1>2, <2>2, FS_AddElement
  <2>4. QED
    BY <1>4, <2>1, <2>3 DEF Garbled, v
<1>5. QED
  BY <1>3, <1>4

LEMMA GarbledFirst ==
  ASSUME NEW w \in Seq(FrameSet), w # <<>>
  PROVE  Garbled(w, 0) = Garbled(w, 1) + (IF w[1].ok THEN 0 ELSE 1)
<1>1. DOMAIN w = 1..Len(w) /\ Len(w) \in Nat /\ 1 \in DOMAIN w
  OBVIOUS
<1>2. IsFiniteSet(BadFrom(w, 1)) /\ Garbled(w, 1) \in Nat
  BY GarbledCount
<1>3. CASE w[1].ok
  <2>1. BadFrom(w, 0) = BadFrom(w, 1)
    BY <1>1, <1>3 DEF BadFrom
  <2>2. QED
    BY <1>2, <1>3, <2>1 DEF Garbled
<1>4. CASE ~w[1].ok
  <2>1. BadFrom(w, 0) = BadFrom(w, 1) \cup {1}
    BY <1>1, <1>4 DEF BadFrom
  <2>2. 1 \notin BadFrom(w, 1)
    BY DEF BadFrom
  <2>3. Cardinality(BadFrom(w, 1) \cup {1}) = Cardinality(BadFrom(w, 1)) + 1
    BY <1>2, <2>2, FS_AddElement
  <2>4. QED
    BY <1>4, <2>1, <2>3 DEF Garbled
<1>5. QED
  BY <1>3, <1>4

LEMMA GarbledTail ==
  ASSUME NEW w \in Seq(FrameSet), w # <<>>, NEW k \in Nat
  PROVE  Garbled(Tail(w), k) = Garbled(w, k + 1)
<1> DEFINE v == Tail(w)  S == BadFrom(v, k)  T == BadFrom(w, k + 1)  g == [j \in S |-> j + 1]
<1>1. /\ DOMAIN w = 1..Len(w) /\ Len(w) \in Nat /\ Len(w) >= 1
      /\ v \in Seq(FrameSet) /\ DOMAIN v = 1..(Len(w) - 1)
      /\ \A j \in DOMAIN v : v[j] = w[j + 1]
  OBVIOUS
<1>2. IsFiniteSet(S)
  BY <1>1, GarbledCount
<1> HIDE DEF v
<1>3. \A j \in S : j \in Nat /\ j + 1 \in T
  BY <1>1 DEF BadFrom
<1>4. \A i \in T : i - 1 \in S /\ (i - 1) + 1 = i
  BY <1>1 DEF BadFrom
<1>5. g \in Bijection(S, T)
  <2>1. g \in Injection(S, T)
    BY <1>3 DEF Injection, IsInjective
  <2>2. g \in Surjection(S, T)
    <3>1. \A i \in T : g[i - 1] = i
      BY <1>4
    <3>2. QED
      BY <1>3, <1>4, <3>1 DEF Surjection
  <2>3. QED
    BY <2>1, <2>2 DEF Bijection
<1>6. Cardinality(T) = Cardinality(S)
  BY <1>2, <1>5, FS_Bijection DEF ExistsBijection
<1>7. QED
  BY <1>6 DEF Garbled, v

LEMMA BackTyped ==
  ASSUME NEW q \in 0..MaxSeq, NEW s \in 0..MaxSeq
  PROVE  Back(q, s) \in 0..MaxSeq /\ Back(q, q) = 0
  BY LinkAssumption DEF Back

\* A SEQ that is not the oldest possible ages by one command, and is not taken again.
LEMMA BackNext ==
  ASSUME NEW q \in 0..MaxSeq, NEW s \in 0..MaxSeq, Back(q, s) < MaxSeq
  PROVE  s # NextSeq(q) /\ Back(NextSeq(q), s) = Back(q, s) + 1
  BY LinkAssumption DEF Back, NextSeq

LEMMA AgeTyped ==
  ASSUME StateTyped
  PROVE  /\ \A k \in 0..Len(wire) : AgeAt(k) \in 0..MaxSeq /\ Garbled(wire, k) \in Nat
         /\ Len(wire) \in Nat /\ Len(inbox) \in Nat /\ troubles \in Nat /\ MaxSeq \in Nat
         /\ inbox # <<>> => Len(inbox) >= 1
         /\ inbox = <<>> => Len(inbox) = 0
<1>1. mcf.last[1] \in 0..MaxSeq /\ seq \in 0..MaxSeq /\ MaxSeq \in Nat
  BY McfFields, LinkAssumption DEF StateTyped
<1>2. \A k \in 1..Len(wire) : wire[k].seq \in 0..MaxSeq
  BY WireSlots DEF FrameSet
<1>3. ASSUME NEW k \in 0..Len(wire)
      PROVE  AgeAt(k) \in 0..MaxSeq /\ Garbled(wire, k) \in Nat
  <2>1. wire \in Seq(FrameSet) /\ k \in Nat
    BY DEF StateTyped
  <2>2. Garbled(wire, k) \in Nat
    BY <2>1, GarbledCount
  <2>3. \A s \in 0..MaxSeq : Age(s) \in 0..MaxSeq
    BY <1>1, BackTyped DEF Age
  <2>4. CASE k = 0
    BY <1>1, <2>2, <2>3, <2>4 DEF AgeAt
  <2>5. CASE k # 0
    <3>1. wire[k].seq \in 0..MaxSeq
      BY <1>2, <2>5
    <3>2. QED
      BY <2>2, <2>3, <2>5, <3>1 DEF AgeAt
  <2>6. QED
    BY <2>4, <2>5
<1>4. QED
  BY <1>1, <1>3, LinkAssumption DEF StateTyped

----
(* Consequences of the invariant *)

\* The last invoice the MCF knows tells whether the invoice of the moment is registered.
LEMMA LastTells ==
  ASSUME StateTyped, BookOK
  PROVE  Registered(inv) <=> LastOf(mcf.book) = inv
<1> DEFINE b == mcf.book
<1>1. b \in Seq(Rows) /\ inv \in 1..MaxInvoices /\ DOMAIN b = 1..Len(b) /\ Len(b) \in Nat
  BY McfFields DEF StateTyped
<1>2. CASE b = <<>>
  BY <1>1, <1>2 DEF Registered, LastOf
<1>3. CASE b # <<>>
  <2>1. Len(b) \in DOMAIN b /\ LastOf(b) = b[Len(b)].fn
    BY <1>1, <1>3 DEF LastOf, Last
  <2>2. ASSUME NEW k \in DOMAIN b, b[k].fn = inv
        PROVE  b[Len(b)].fn = inv
    <3>1. CASE k = Len(b)
      BY <2>2, <3>1
    <3>2. CASE k # Len(b)
      <4>1. k < Len(b)
        BY <1>1, <3>2
      <4>2. b[k].fn < b[Len(b)].fn /\ b[Len(b)].fn <= inv
        BY <2>1, <4>1 DEF BookOK
      <4>3. b[Len(b)].fn \in 1..MaxInvoices
        <5>1. b[Len(b)] \in Rows
          BY <1>1, <2>1
        <5>2. QED
          BY <5>1 DEF Rows
      <4>4. QED
        BY <1>1, <2>2, <4>2, <4>3
    <3>3. QED
      BY <3>1, <3>2
  <2>3. QED
    BY <2>1, <2>2 DEF Registered
<1>4. QED
  BY <1>2, <1>3

\* The answer the gateway takes is the present one of the MCF, with nothing else on the line.
LEMMA OwnAnswer ==
  ASSUME StateTyped, OwnOK, NEW a \in Replies, Answered(a)
  PROVE  /\ Busy /\ mcf.last = Own /\ AllOwn
         /\ a.kind = mcf.answer.kind /\ a.last = mcf.answer.last
<1>1. 1 \in DOMAIN inbox /\ a = inbox[1]
  BY DEF StateTyped, Answered
<1>2. mcf.last = Own /\ AllOwn /\ a = Reply(call.seq, Code(call.cmd), mcf.answer)
  BY <1>1 DEF Answered, OwnOK
<1>3. PICK s \in 0..MaxSeq, c \in Commands, w \in Answers :
        s = call.seq /\ c = Code(call.cmd) /\ w = mcf.answer
  BY BusyCall, CodeTyped, McfFields DEF Answered
<1>4. a.kind = mcf.answer.kind /\ a.last = mcf.answer.last
  BY <1>2, <1>3, ReplyTyped
<1>5. QED
  BY <1>2, <1>4 DEF Answered

\* Between two commands no frame, read or not, has the age at which its SEQ comes again.
LEMMA AgeBelow ==
  ASSUME StateTyped, Budget, ~Busy, MaxTroubles < MaxSeq
  PROVE  \A k \in 0..Len(wire) : AgeAt(k) < MaxSeq
<1>1. TAKE k \in 0..Len(wire)
<1>2. Spent(k) = AgeAt(k) + k + Garbled(wire, k) /\ Spent(k) <= troubles
  BY AgeTyped DEF Spent, Budget
<1>3. troubles \in 0..MaxTroubles
  BY DEF StateTyped
<1>4. QED
  BY <1>1, <1>2, <1>3, AgeTyped, LinkAssumption

\* The SEQ and code of the next command.
Coming == <<NextSeq(seq), Code(CommandAt[at])>>

\* No frame on the wire can be taken for the next command, and the MCF does not remember one,
\* but for the command that opens a port.
LEMMA Fresh ==
  ASSUME StateTyped, CallOK, Budget, ~Busy, at \notin Resting, MaxTroubles < MaxSeq
  PROVE  /\ \A k \in DOMAIN wire : Key(wire[k]) # Coming
         /\ at # "hello" => mcf.last # Coming
         /\ at = "hello" => Coming = First
<1>1. \A k \in 0..Len(wire) : AgeAt(k) < MaxSeq
  BY AgeBelow
<1>2. seq \in 0..MaxSeq /\ mcf.last[1] \in 0..MaxSeq
  BY McfFields DEF StateTyped
<1>3. CASE at = "hello"
  <2>1. seq = 0 /\ \A k \in DOMAIN wire : Key(wire[k]) # First
    BY <1>3 DEF CallOK
  <2>2. Coming = First
    <3>1. NextSeq(seq) = 1
      BY <2>1, LinkAssumption DEF NextSeq
    <3>2. Code(CommandAt[at]) = "C1"
      BY <1>3 DEF CommandAt, Code
    <3>3. QED
      BY <3>1, <3>2 DEF Coming, First
  <2>3. QED
    BY <1>3, <2>1, <2>2
<1>4. CASE at # "hello"
  <2>1. \A s : Age(s) = Back(seq, s)
    BY <1>4 DEF Age, Opening, Resting
  <2>2. \A s \in 0..MaxSeq : Back(seq, s) < MaxSeq => s # NextSeq(seq)
    BY <1>2, BackNext
  <2>3. ASSUME NEW k \in DOMAIN wire
        PROVE  Key(wire[k]) # Coming
    <3>1. k \in 0..Len(wire) /\ k # 0 /\ wire[k].seq \in 0..MaxSeq
      BY WireSlots DEF FrameSet
    <3>2. AgeAt(k) = Back(seq, wire[k].seq)
      BY <2>1, <3>1 DEF AgeAt
    <3>3. wire[k].seq # NextSeq(seq)
      BY <1>1, <2>2, <3>1, <3>2
    <3>4. QED
      BY <3>3 DEF Key, Coming
  <2>4. mcf.last # Coming
    <3>1. AgeAt(0) = Back(seq, mcf.last[1]) /\ 0 \in 0..Len(wire)
      BY <2>1, WireSlots DEF AgeAt
    <3>2. mcf.last[1] # NextSeq(seq)
      BY <1>1, <1>2, <2>2, <3>1
    <3>3. QED
      BY <3>2 DEF Coming
  <2>5. QED
    BY <1>4, <2>3, <2>4
<1>5. QED
  BY <1>3, <1>4
----
(* Steps of the gateway outside of an exchange *)

LEMMA StutterKeeps ==
  ASSUME LinkInv, UNCHANGED vars
  PROVE  LinkInv'
<1> USE DEF vars
<1>1. StateTyped' BY DEF LinkInv, StateTyped, McfSet, FrameSet, Rows
<1>2. CallOK' BY DEF LinkInv, CallOK, Busy, Key
<1>3. WireOK' BY DEF LinkInv, WireOK, Key, Opening
<1>4. OwnOK' BY DEF LinkInv, OwnOK, Busy, Own, AllOwn, Key, Matches
<1>5. LiveOK' BY DEF LinkInv, LiveOK, Live, Leads, Key, Registered
<1>6. BookOK' BY DEF LinkInv, BookOK
<1>7. VerdictOK' BY DEF LinkInv, VerdictOK, Registered
<1>8. BuildOK' BY DEF LinkInv, BuildOK, Done, Busy, Own, Ours, Registered, Key
<1>9. AnswerOK' BY DEF LinkInv, AnswerOK, Done, Busy, Own, Ours, Registered
<1>10. Budget' BY DEF LinkInv, Budget, Spent, AgeAt, Age, Opening, Busy
<1>11. Slack' BY DEF LinkInv, Slack, Spent, AgeAt, Age, Opening, Busy, Own, Key
<1>12. QED BY <1>1, <1>2, <1>3, <1>4, <1>5, <1>6, <1>7, <1>8, <1>9, <1>10, <1>11 DEF LinkInv

LEMMA StartKeeps ==
  ASSUME LinkInv, Start
  PROVE  LinkInv'
<1>1. /\ at = "idle" /\ inv < MaxInvoices /\ inv' = inv + 1 /\ at' = "prepare"
      /\ UNCHANGED <<verdict, seq, call, wire, inbox, mcf, troubles>>
  BY DEF Start
<1>2. ~Busy /\ ~Busy'
  BY <1>1 DEF LinkInv, CallOK, Busy, Resting
<1>3. inv \in 1..MaxInvoices /\ inv' \in 1..MaxInvoices
  BY <1>1, LinkAssumption DEF LinkInv, StateTyped
<1>4. ~Opening /\ ~Opening'
  BY <1>1 DEF Opening
<1>5. StateTyped'
  BY <1>1, <1>3, PlacesListed DEF LinkInv, StateTyped, AllPlaces
<1>6. CallOK'
  BY <1>1, <1>2 DEF CallOK
<1>7. WireOK'
  BY <1>1, <1>3, <1>4 DEF LinkInv, WireOK, Key
<1>8. OwnOK'
  BY <1>2 DEF OwnOK
<1>9. LiveOK'
  BY <1>1 DEF LinkInv, LiveOK, Live, Leads, Key
<1>10. \A k \in DOMAIN mcf.book : mcf.book[k].fn \in 1..MaxInvoices /\ mcf.book[k].fn <= inv
  <2>1. mcf.book \in Seq(Rows)
    BY McfFields DEF LinkInv
  <2>2. \A k \in DOMAIN mcf.book : mcf.book[k] \in Rows
    BY <2>1
  <2>3. QED
    BY <2>2 DEF LinkInv, BookOK, Rows
<1>11. BookOK'
  <2>1. \A k \in DOMAIN mcf.book : mcf.book[k].fn <= inv + 1
    BY <1>3, <1>10
  <2>2. QED
    BY <1>1, <2>1 DEF LinkInv, BookOK
<1>12. ~Registered(inv)'
  <2>1. \A k \in DOMAIN mcf.book : mcf.book[k].fn # inv + 1
    BY <1>3, <1>10
  <2>2. QED
    BY <1>1, <2>1 DEF Registered
<1>13. VerdictOK'
  <2>1. \A n \in 1..MaxInvoices : n > inv + 1 => n > inv
    BY <1>3
  <2>2. verdict[inv + 1] = "none"
    BY <1>1, <1>3 DEF LinkInv, VerdictOK
  <2>3. QED
    BY <1>1, <2>1, <2>2 DEF LinkInv, VerdictOK, Registered
<1>14. BuildOK'
  BY <1>1, <1>12 DEF BuildOK, Build, NotFinal
<1>15. AnswerOK'
  BY <1>2 DEF AnswerOK, Done
<1>16. Budget'
  BY <1>1, <1>2, <1>4 DEF LinkInv, Budget, Spent, AgeAt, Age
<1>17. Slack'
  BY <1>2 DEF Slack
<1>18. QED
  BY <1>5, <1>6, <1>7, <1>8, <1>9, <1>11, <1>13, <1>14, <1>15, <1>16, <1>17 DEF LinkInv

LEMMA WakeKeeps ==
  ASSUME LinkInv, Wake
  PROVE  LinkInv'
<1>1. /\ at \in {"pause", "closed"} /\ wire = <<>>
      /\ (at = "pause" /\ at' = "check" /\ seq' = seq) \/ (at' = "hello" /\ seq' = 0)
      /\ UNCHANGED <<inv, verdict, call, wire, inbox, mcf, troubles>>
  BY DEF Wake
<1>2. ~Busy /\ ~Busy'
  BY <1>1 DEF LinkInv, CallOK, Busy, Resting
<1>3. DOMAIN wire = {} /\ DOMAIN wire' = {}
  BY <1>1
<1>4. at' \in {"check", "hello"}
  BY <1>1
<1>5. StateTyped'
  BY <1>1, <1>4, PlacesListed, LinkAssumption DEF LinkInv, StateTyped, AllPlaces
<1>6. CallOK'
  BY <1>1, <1>2, <1>3 DEF CallOK
<1>7. WireOK'
  BY <1>3 DEF WireOK
<1>8. OwnOK'
  BY <1>2 DEF OwnOK
<1>9. LiveOK'
  BY <1>3 DEF LiveOK
<1>10. BookOK'
  BY <1>1 DEF LinkInv, BookOK
<1>11. VerdictOK'
  BY <1>1 DEF LinkInv, VerdictOK, Registered
<1>12. BuildOK'
  BY <1>4 DEF BuildOK, Build, NotFinal
<1>13. AnswerOK'
  BY <1>2 DEF AnswerOK, Done
<1>14. Budget'
  <2>1. CASE at = "pause" /\ at' = "check" /\ seq' = seq
    BY <1>1, <1>2, <2>1 DEF LinkInv, Budget, Spent, AgeAt, Age, Opening
  <2>2. CASE at' = "hello" /\ seq' = 0
    <3>1. Len(wire') = 0 /\ \A k \in 0..0 : k = 0
      BY <1>1
    <3>2. AgeAt(0)' = 0
      BY <2>2 DEF AgeAt, Age, Opening
    <3>3. Garbled(wire, 0)' = 0
      <4>1. BadFrom(wire, 0)' = {}
        BY <1>3 DEF BadFrom
      <4>2. QED
        BY <4>1, FS_EmptySet DEF Garbled
    <3>4. troubles' \in Nat
      BY <1>1, AgeTyped DEF LinkInv
    <3>5. QED
      BY <1>2, <3>1, <3>2, <3>3, <3>4 DEF Budget, Spent
  <2>3. QED
    BY <1>1, <2>1, <2>2
<1>15. Slack'
  BY <1>2 DEF Slack
<1>16. QED
  BY <1>5, <1>6, <1>7, <1>8, <1>9, <1>10, <1>11, <1>12, <1>13, <1>14, <1>15 DEF LinkInv

LEMMA RestartKeeps ==
  ASSUME LinkInv, Restart, \A k \in DOMAIN wire : Key(wire[k]) # First
  PROVE  LinkInv'
<1>1. /\ at # "idle" /\ Trouble /\ at' = "hello" /\ seq' = 0 /\ call' = NoCall
      /\ UNCHANGED <<inv, verdict, wire, inbox, mcf>>
  BY DEF Restart
<1>2. ~Busy' /\ Opening'
  BY <1>1 DEF Busy, Opening
<1>3. troubles' \in 0..MaxTroubles /\ troubles' = troubles + 1
  BY <1>1, TroublesStep DEF LinkInv, Trouble
<1>4. StateTyped'
  BY <1>1, <1>3, PlacesListed, LinkAssumption DEF LinkInv, StateTyped, AllPlaces
<1>5. CallOK'
  BY <1>1, <1>2 DEF CallOK, Key, First
<1>6. WireOK'
  BY <1>1, <1>2 DEF LinkInv, WireOK, Key
<1>7. OwnOK'
  BY <1>2 DEF OwnOK
<1>8. LiveOK'
  BY <1>1 DEF LinkInv, LiveOK, Live, Leads, Key, Registered
<1>9. BookOK'
  BY <1>1 DEF LinkInv, BookOK
<1>10. VerdictOK'
  BY <1>1 DEF LinkInv, VerdictOK, Registered
<1>11. BuildOK'
  BY <1>1 DEF BuildOK, Build, NotFinal
<1>12. AnswerOK'
  BY <1>2 DEF AnswerOK, Done
<1>13. Budget'
  <2>1. \A k \in 0..Len(wire) : k + Garbled(wire, k) <= troubles + 1
    <3>1. TAKE k \in 0..Len(wire)
    <3>2. Spent(k) <= troubles + 1
      BY AgeTyped DEF LinkInv, Budget, Spent
    <3>3. Spent(k) = AgeAt(k) + k + Garbled(wire, k) + (IF Busy THEN Len(inbox) ELSE 0)
      BY DEF Spent
    <3>4. AgeAt(k) \in Nat /\ Garbled(wire, k) \in Nat /\ Len(inbox) \in Nat /\ troubles \in Nat
      BY AgeTyped DEF LinkInv
    <3>5. QED
      BY <3>2, <3>3, <3>4
  <2>2. \A k \in 0..Len(wire) : AgeAt(k)' = 0
    BY <1>2 DEF AgeAt, Age
  <2>3. ASSUME NEW k \in 0..Len(wire)
        PROVE  Spent(k)' <= troubles'
    <3>1. Garbled(wire, k)' = Garbled(wire, k) /\ Garbled(wire, k) \in Nat
      BY <1>1, AgeTyped DEF LinkInv, Garbled, BadFrom
    <3>2. Spent(k)' = AgeAt(k)' + k + Garbled(wire, k)' + 0
      BY <1>2 DEF Spent
    <3>3. QED
      BY <1>3, <2>1, <2>2, <3>1, <3>2
  <2>4. QED
    BY <1>1, <1>2, <2>3 DEF Budget
<1>14. Slack'
  BY <1>2 DEF Slack
<1>15. QED
  BY <1>4, <1>5, <1>6, <1>7, <1>8, <1>9, <1>10, <1>11, <1>12, <1>13, <1>14 DEF LinkInv
----
(* An exchange that ends *)

\* The verdict of the invoice of the moment is the only one to change.
LEMMA VerdictMoves ==
  ASSUME StateTyped, NEW q \in Places, NEW v \in Verdicts, VerdictOK,
         inv' = inv, mcf' = mcf, at' = q, verdict' = [verdict EXCEPT ![inv] = v],
         q # "idle" => v = "none",
         v = "rejected" => ~Registered(inv),
         v = "normalized" => Registered(inv)
  PROVE  VerdictOK' /\ verdict' \in [1..MaxInvoices -> Verdicts]
<1>1. inv \in 1..MaxInvoices /\ verdict \in [1..MaxInvoices -> Verdicts]
  BY DEF StateTyped, Verdicts
<1>2. verdict' \in [1..MaxInvoices -> Verdicts] /\ verdict'[inv] = v
  BY <1>1
<1>3. \A n \in 1..MaxInvoices : n # inv => verdict'[n] = verdict[n]
  BY <1>1
<1>4. \A n : Registered(n)' <=> Registered(n)
  BY DEF Registered
<1>5. ASSUME NEW n \in 1..MaxInvoices
      PROVE  /\ verdict'[n] = "rejected" => ~Registered(n)
             /\ verdict'[n] = "normalized" => Registered(n)
             /\ n > inv => verdict'[n] = "none"
  <2>1. CASE n = inv
    BY <1>1, <1>2, <2>1
  <2>2. CASE n # inv
    BY <1>3, <2>2 DEF VerdictOK
  <2>3. QED
    BY <2>1, <2>2
<1>6. QED
  BY <1>2, <1>4, <1>5 DEF VerdictOK

\* Nothing of the books is concerned when an exchange ends.
LEMMA EndsCommon ==
  ASSUME LinkInv, NEW q \in Places, NEW v \in Verdicts,
         call' = NoCall, at' = q, UNCHANGED <<inv, seq, wire, mcf>>,
         inbox' \in Seq(Replies), troubles' \in 0..MaxTroubles, q # "hello",
         verdict' \in [1..MaxInvoices -> Verdicts]
  PROVE  ~Busy' /\ StateTyped' /\ CallOK' /\ OwnOK' /\ BookOK' /\ AnswerOK' /\ Slack'
<1>1. ~Busy'
  BY DEF Busy
<1>2. StateTyped'
  BY DEF LinkInv, StateTyped, Verdicts
<1>3. CallOK' /\ OwnOK' /\ AnswerOK' /\ Slack'
  BY <1>1 DEF CallOK, OwnOK, AnswerOK, Slack, Done
<1>4. BookOK'
  BY DEF LinkInv, BookOK
<1>5. QED
  BY <1>1, <1>2, <1>3, <1>4

\* Where a LinkError leads.
SilentRoute(q, v) ==
  \/ at = "hello" /\ q = "closed" /\ v = "none"
  \/ at = "prepare" /\ q = "idle" /\ v = "rejected"
  \/ at = "check" /\ q = "pause" /\ v = "none"
  \/ at \in {"open", "line1", "line2", "sum"} /\ q = "abandon" /\ v = "none"
  \/ at = "final" /\ q = "check" /\ v = "none"
  \/ at = "clean" /\ q = "open" /\ v = "none"
  \/ at = "giveup" /\ q = "check" /\ v = "none"
  \/ at \in {"abandon", "tidy"} /\ q = "idle" /\ v = "rejected"

LEMMA SilentRoutes ==
  ASSUME NEW q, NEW v, Route(Silence, q, v)
  PROVE  SilentRoute(q, v)
  BY DEF Route, SilentRoute

LEMMA SilentKeeps ==
  ASSUME LinkInv, Silent
  PROVE  LinkInv'
<1>1. /\ Busy /\ Returns(Silence) /\ UNCHANGED <<wire, inbox, mcf>> /\ Pays
      /\ troubles' \in {troubles, troubles + 1} /\ troubles' \in 0..MaxTroubles
  BY DEF Silent
<1>2. Goes(Silence)
  <2>1. PICK a : a = Silence
    OBVIOUS
  <2>2. Goes(a)
    BY <1>1, <2>1, ReturnsGoes DEF LinkInv
  <2>3. QED
    BY <2>1, <2>2
<1>3. PICK q \in Places, v \in Verdicts :
        SilentRoute(q, v) /\ at' = q /\ verdict' = [verdict EXCEPT ![inv] = v]
  BY <1>2, SilentRoutes DEF Goes
<1>4. call' = NoCall /\ inv' = inv /\ seq' = seq
  BY <1>2 DEF Goes
<1>5. VerdictOK' /\ verdict' \in [1..MaxInvoices -> Verdicts]
  <2>1. q # "idle" => v = "none"
    BY <1>3 DEF SilentRoute
  <2>2. v = "rejected" => ~Registered(inv)
    BY <1>3 DEF SilentRoute, LinkInv, BuildOK, NotFinal
  <2>3. v # "normalized"
    BY <1>3 DEF SilentRoute
  <2>4. QED
    BY <1>1, <1>3, <1>4, <2>1, <2>2, <2>3, VerdictMoves DEF LinkInv
<1>6. ~Busy' /\ StateTyped' /\ CallOK' /\ OwnOK' /\ BookOK' /\ AnswerOK' /\ Slack'
  <2>1. q # "hello" /\ inbox' \in Seq(Replies)
    BY <1>1, <1>3 DEF SilentRoute, LinkInv, StateTyped
  <2>2. QED
    BY <1>1, <1>3, <1>4, <1>5, <2>1, EndsCommon
<1>7. Opening' = Opening
  BY <1>3 DEF SilentRoute, Opening
<1>8. WireOK'
  BY <1>1, <1>4, <1>7 DEF LinkInv, WireOK, Key
<1>9. LiveOK'
  <2>1. at \in {"final", "check", "pause", "hello", "closed"}
          => at' \in {"final", "check", "pause", "hello", "closed"}
    BY <1>3 DEF SilentRoute
  <2>2. QED
    BY <1>1, <1>4, <2>1 DEF LinkInv, LiveOK, Live, Leads, Key, Registered
<1>10. BuildOK'
  <2>1. at' \notin Build
    BY <1>3 DEF SilentRoute, Build
  <2>2. at' \in NotFinal => at \in NotFinal
    BY <1>3 DEF SilentRoute, NotFinal
  <2>3. QED
    BY <1>1, <1>4, <2>1, <2>2 DEF LinkInv, BuildOK, Build, Registered
<1>11. Budget'
  <2>1. \A k : AgeAt(k)' = AgeAt(k) /\ Garbled(wire, k)' = Garbled(wire, k)
    BY <1>1, <1>4, <1>7 DEF AgeAt, Age, Garbled, BadFrom
  <2>2. ASSUME NEW k \in 0..Len(wire)
        PROVE  Spent(k)' <= troubles'
    <3>1. Spent(k)' = AgeAt(k) + k + Garbled(wire, k) + 0
      BY <1>6, <2>1 DEF Spent
    <3>2. Spent(k) = AgeAt(k) + k + Garbled(wire, k) + Len(inbox) /\ Spent(k) <= troubles + 1
      BY <1>1 DEF Spent, LinkInv, Budget
    <3>3. /\ AgeAt(k) \in Nat /\ Garbled(wire, k) \in Nat /\ Len(inbox) \in Nat
          /\ troubles \in Nat
      BY AgeTyped DEF LinkInv
    <3>4. CASE inbox # <<>>
      <4>1. Len(inbox) >= 1
        BY <3>4, AgeTyped DEF LinkInv
      <4>2. QED
        BY <1>1, <3>1, <3>2, <3>3, <4>1
    <3>5. CASE troubles' = troubles + 1
      BY <3>1, <3>2, <3>3, <3>5
    <3>6. CASE inbox = <<>> /\ wire = <<>>
      <4>1. k = 0 /\ Garbled(wire, k) = 0 /\ Len(inbox) = 0
        <5>1. Len(wire) = 0 /\ k = 0 /\ wire \in Seq(FrameSet)
          BY <3>6 DEF LinkInv, StateTyped
        <5>2. QED
          BY <3>6, <5>1, GarbledNone
      <4>2. CASE at = "hello"
        <5>1. AgeAt(0) = 0
          BY <4>2 DEF AgeAt, Age, Opening
        <5>2. QED
          BY <1>1, <3>1, <3>3, <4>1, <5>1
      <4>3. CASE at # "hello" /\ mcf.last = Own
        <5>1. at # "closed" /\ mcf.last[1] = seq
          BY <1>1, <4>3 DEF LinkInv, CallOK, Own, Resting
        <5>2. AgeAt(0) = 0
          BY <4>3, <5>1, BackTyped DEF AgeAt, Age, Opening, LinkInv, StateTyped
        <5>3. QED
          BY <1>1, <3>1, <3>3, <4>1, <5>2
      <4>4. CASE at # "hello" /\ mcf.last # Own
        <5>1. \A i \in 0..Len(wire) : Spent(i) <= troubles
          BY <1>1, <3>6, <4>4 DEF LinkInv, Slack
        <5>2. Spent(k) <= troubles
          BY <5>1
        <5>3. QED
          BY <1>1, <3>1, <3>2, <3>3, <5>2
      <4>5. QED
        BY <4>2, <4>3, <4>4
    <3>7. QED
      BY <1>1, <3>4, <3>5, <3>6 DEF Pays
  <2>3. QED
    BY <1>1, <1>6, <2>2 DEF Budget
<1>12. QED
  BY <1>5, <1>6, <1>8, <1>9, <1>10, <1>11 DEF LinkInv

\* Where the answer of the MCF leads.
AnswerRoute(a, q, v) ==
  \/ at = "hello" /\ q = "check" /\ v = "none"
  \/ at \in {"prepare", "check"} /\ a.last = inv /\ q = "idle" /\ v = "normalized"
  \/ at = "prepare" /\ q \in {"clean", "open"} /\ v = "none"
  \/ at = "check" /\ a.last # inv /\ q = "tidy" /\ v = "none"
  \/ at = "check" /\ a.last # inv /\ q = "idle" /\ v = "rejected"
  \/ at \in {"open", "line1", "line2", "sum"} /\ q = "abandon" /\ v = "none"
  \/ at = "open" /\ a.kind # "E" /\ q = "line1" /\ v = "none"
  \/ at = "line1" /\ q = "line2" /\ v = "none"
  \/ at = "line2" /\ q = "sum" /\ v = "none"
  \/ at = "sum" /\ q = "final" /\ v = "none"
  \/ at = "final" /\ a.kind = "E" /\ q = "abandon" /\ v = "none"
  \/ at = "final" /\ a.kind = "P" /\ q \in {"final", "giveup"} /\ v = "none"
  \/ at = "final" /\ a.kind = "R" /\ a.last = inv /\ q = "idle" /\ v = "normalized"
  \/ at = "final" /\ a.kind = "R" /\ q = "check" /\ v = "none"
  \/ at = "clean" /\ q = "open" /\ v = "none"
  \/ at \in {"giveup", "abandon", "tidy"} /\ q = "idle" /\ v = "rejected"

LEMMA AnswerRoutes ==
  ASSUME NEW a, NEW q, NEW v, Route(a, q, v), a # Silence
  PROVE  AnswerRoute(a, q, v)
  BY DEF Route, AnswerRoute

LEMMA AnsweredKeeps ==
  ASSUME LinkInv, NEW a \in Replies, Answered(a)
  PROVE  LinkInv'
<1>1. /\ Busy /\ Returns(a) /\ inbox # <<>> /\ inbox' = Tail(inbox) /\ UNCHANGED <<wire, mcf, troubles>>
  BY DEF Answered
<1>2. Done /\ AllOwn /\ mcf.last = Own /\ a.kind = mcf.answer.kind /\ a.last = mcf.answer.last
  BY OwnAnswer DEF LinkInv, Done
<1>3. /\ at = "final" => a.kind \in {"E", "P", "R"}
      /\ call.cmd = CommandAt[at] /\ call.seq = seq /\ at \notin Resting
  BY <1>1, <1>2 DEF LinkInv, AnswerOK, CallOK
<1>4. a # Silence /\ Goes(a)
  BY <1>1, <1>3, AnswerKinds, ReturnsGoes DEF LinkInv
<1>5. PICK q \in Places, v \in Verdicts :
        AnswerRoute(a, q, v) /\ at' = q /\ verdict' = [verdict EXCEPT ![inv] = v]
  BY <1>4, AnswerRoutes DEF Goes
<1>6. call' = NoCall /\ inv' = inv /\ seq' = seq
  BY <1>4 DEF Goes
<1>7. at \in {"prepare", "check"} => (a.last = inv <=> Registered(inv))
  <2>1. at \in {"prepare", "check"} => call.cmd = "C1" /\ at # "hello"
    BY <1>3 DEF CommandAt
  <2>2. at \in {"prepare", "check"} => a.last = LastOf(mcf.book)
    BY <1>2, <2>1 DEF LinkInv, AnswerOK
  <2>3. QED
    BY <2>2, LastTells DEF LinkInv
<1>8. /\ at = "final" /\ a.kind \in {"E", "P"} => Ours(2) /\ ~Registered(inv)
      /\ at = "final" /\ a.kind = "R" => Registered(inv)
  BY <1>2 DEF LinkInv, AnswerOK
<1>9. at \in NotFinal => ~Registered(inv)
  BY DEF LinkInv, BuildOK
<1>10. VerdictOK' /\ verdict' \in [1..MaxInvoices -> Verdicts]
  <2>1. q # "idle" => v = "none"
    BY <1>5 DEF AnswerRoute
  <2>2. v = "rejected" => ~Registered(inv)
    BY <1>5, <1>7, <1>9 DEF AnswerRoute, NotFinal
  <2>3. v = "normalized" => Registered(inv)
    BY <1>5, <1>7, <1>8 DEF AnswerRoute
  <2>4. QED
    BY <1>1, <1>5, <1>6, <2>1, <2>2, <2>3, VerdictMoves DEF LinkInv
<1>11. ~Busy' /\ StateTyped' /\ CallOK' /\ OwnOK' /\ BookOK' /\ AnswerOK' /\ Slack'
  <2>1. q # "hello"
    BY <1>5 DEF AnswerRoute
  <2>2. inbox' \in Seq(Replies)
    BY <1>1 DEF LinkInv, StateTyped
  <2>3. troubles' \in 0..MaxTroubles
    BY <1>1 DEF LinkInv, StateTyped
  <2>4. QED
    BY <1>1, <1>5, <1>6, <1>10, <2>1, <2>2, <2>3, EndsCommon
<1>12. \A k \in DOMAIN wire : Key(wire[k]) = mcf.last /\ Key(wire[k]) = Own
  BY <1>2 DEF AllOwn
<1>13. WireOK'
  BY <1>1, <1>6, <1>12 DEF LinkInv, WireOK, Key
<1>14. LiveOK'
  BY <1>1, <1>12 DEF LiveOK, Live, Key
<1>15. BuildOK'
  <2>1. at' \in NotFinal => ~Registered(inv)
    BY <1>5, <1>7, <1>8, <1>9 DEF AnswerRoute, NotFinal
  <2>2. at' = "final" => ~Registered(inv)
    BY <1>5, <1>8, <1>9 DEF AnswerRoute, NotFinal
  <2>3. at' \in Build => Ours(Counted(at'))
    <3>1. at' = "line1" => Ours(0)
      BY <1>2, <1>5 DEF AnswerRoute, LinkInv, AnswerOK
    <3>2. at' = "line2" => Ours(1)
      BY <1>2, <1>5 DEF AnswerRoute, LinkInv, AnswerOK
    <3>3. at' = "sum" => Ours(2)
      BY <1>2, <1>5 DEF AnswerRoute, LinkInv, AnswerOK
    <3>4. at' = "final" => Ours(2)
      BY <1>2, <1>5, <1>8 DEF AnswerRoute, LinkInv, AnswerOK
    <3>5. QED
      BY <3>1, <3>2, <3>3, <3>4 DEF Build, Counted
  <2>4. /\ at' \in NotFinal => ~Registered(inv)'
        /\ at' = "final" => ~Registered(inv)'
        /\ at' \in Build => Ours(Counted(at))'
    <3>1. Registered(inv)' <=> Registered(inv)
      BY <1>1, <1>6 DEF Registered
    <3>2. Ours(Counted(at))' <=> Ours(Counted(at'))
      BY <1>1, <1>6 DEF Ours, Counted
    <3>3. QED
      BY <2>1, <2>2, <2>3, <3>1, <3>2
  <2>5. \A k \in DOMAIN wire' : Key(wire'[k]) = mcf'.last
    BY <1>1, <1>12
  <2>6. QED
    BY <2>4, <2>5 DEF BuildOK, Key
<1>16. \A k \in 0..Len(wire) : AgeAt(k)' <= AgeAt(k)
  <2>1. CASE at = "hello"
    <3>1. ~Opening' /\ seq \in 0..MaxSeq
      BY <1>5, <2>1 DEF AnswerRoute, Opening, LinkInv, StateTyped
    <3>2. mcf.last[1] = seq /\ \A k \in DOMAIN wire : wire[k].seq = seq
      BY <1>2, <1>3, <1>12 DEF Own, Key
    <3>3. Age(seq)' = 0
      BY <1>6, <3>1, BackTyped DEF Age, Back
    <3>4. \A k \in 0..Len(wire) : AgeAt(k)' = 0
      <4>1. TAKE k \in 0..Len(wire)
      <4>2. k = 0 \/ k \in DOMAIN wire
        BY <4>1, WireSlots DEF LinkInv
      <4>3. AgeAt(k)' = Age(seq)'
        BY <1>1, <1>6, <3>2, <4>2 DEF AgeAt, Age
      <4>4. QED
        BY <3>3, <4>3
    <3>5. QED
      BY <3>4, AgeTyped DEF LinkInv
  <2>2. CASE at # "hello"
    <3>1. Opening' = Opening
      BY <1>3, <1>5, <2>2 DEF AnswerRoute, Opening, Resting
    <3>2. \A k : AgeAt(k)' = AgeAt(k)
      BY <1>1, <1>6, <3>1 DEF AgeAt, Age
    <3>3. QED
      BY <3>2, AgeTyped DEF LinkInv
  <2>3. QED
    BY <2>1, <2>2
<1>17. Budget'
  <2>1. ASSUME NEW k \in 0..Len(wire)
        PROVE  Spent(k)' <= troubles
    <3>1. Spent(k) = AgeAt(k) + k + Garbled(wire, k) + Len(inbox) /\ Spent(k) <= troubles + 1
      BY <1>1 DEF Spent, LinkInv, Budget
    <3>2. Garbled(wire, k)' = Garbled(wire, k)
      BY <1>1 DEF Garbled, BadFrom
    <3>3. Spent(k)' = AgeAt(k)' + k + Garbled(wire, k) + 0
      BY <1>11, <3>2 DEF Spent
    <3>4. /\ AgeAt(k) \in Nat /\ Garbled(wire, k) \in Nat /\ Len(inbox) \in Nat
          /\ troubles \in Nat /\ Len(inbox) >= 1
      BY <1>1, AgeTyped DEF LinkInv
    <3>5. AgeAt(k)' \in Nat
      <4>1. CASE Opening'
        BY <4>1 DEF AgeAt, Age
      <4>2. CASE ~Opening'
        <5>1. seq \in 0..MaxSeq /\ mcf.last[1] \in 0..MaxSeq
          BY McfFields DEF LinkInv, StateTyped
        <5>2. k # 0 => wire[k].seq \in 0..MaxSeq
          BY WireSlots DEF LinkInv, FrameSet
        <5>3. PICK s \in 0..MaxSeq : s = (IF k = 0 THEN mcf.last[1] ELSE wire[k].seq)
          BY <5>1, <5>2
        <5>4. AgeAt(k)' = Back(seq, s)
          BY <1>1, <1>6, <4>2, <5>3 DEF AgeAt, Age, Back
        <5>5. QED
          BY <5>1, <5>4, BackTyped
      <4>3. QED
        BY <4>1, <4>2
    <3>6. AgeAt(k)' <= AgeAt(k)
      BY <1>16
    <3>7. QED
      BY <3>1, <3>3, <3>4, <3>5, <3>6
  <2>2. QED
    BY <1>1, <1>11, <2>1 DEF Budget
<1>18. QED
  BY <1>10, <1>11, <1>13, <1>14, <1>15, <1>17 DEF LinkInv
----
(* A frame is written *)

\* Either the frame is lost, or it is the last one on the wire; a garbled one is paid for.
Written(key, c) ==
  /\ Grows(key, c) /\ wire' \in Seq(FrameSet) /\ troubles' >= troubles
  /\ \/ wire' = wire /\ troubles' = troubles + 1
     \/ /\ Len(wire') = Len(wire) + 1 /\ Key(wire'[Len(wire) + 1]) = key
        /\ Garbled(wire', Len(wire) + 1) = 0
        /\ \A k \in 0..Len(wire) : Garbled(wire', k) - Garbled(wire, k) <= troubles' - troubles

LEMMA WrittenPaid ==
  ASSUME NEW a \in Nat, NEW b \in Nat, NEW i \in Nat, NEW g \in Nat, NEW d \in Nat,
         NEW t \in Nat, NEW u \in Nat,
         d - g <= u - t, b <= a + 1, a + i + g <= t
  PROVE  b + i + d <= u + 1
  OBVIOUS

LEMMA RewrittenPaid ==
  ASSUME NEW a \in Nat, NEW i \in Nat, NEW g \in Nat, NEW d \in Nat, NEW l \in Nat,
         NEW t \in Nat, NEW u \in Nat,
         d - g <= u - t, a + i + g + l <= t + 1
  PROVE  a + i + d <= u + 1
  OBVIOUS

LEMMA SendsWritten ==
  ASSUME StateTyped, NEW c \in Commands, NEW s \in 0..MaxSeq, Sends(c, s), troubles' \in 0..MaxTroubles
  PROVE  Written(<<s, Code(c)>>, c)
<1>1. Grows(<<s, Code(c)>>, c) /\ wire' \in Seq(FrameSet)
  BY SendsGrows
<1>2. troubles \in Nat /\ troubles' \in Nat /\ Len(wire) \in Nat
  BY AgeTyped
<1>3. CASE wire' = wire /\ troubles' = troubles + 1
  BY <1>1, <1>2, <1>3 DEF Written
<1>4. ASSUME NEW f \in FrameSet, wire' = Append(wire, f), f.cmd = c, f.seq = s,
             troubles' >= (IF f.ok THEN troubles ELSE troubles + 1)
      PROVE  Written(<<s, Code(c)>>, c)
  <2>1. /\ Len(wire') = Len(wire) + 1 /\ wire'[Len(wire) + 1] = f
        /\ Key(f) = <<s, Code(c)>>
    BY <1>4, AppendSlots DEF Key
  <2>2. Garbled(wire', Len(wire) + 1) = 0
    <3>1. PICK w \in Seq(FrameSet) : w = wire'
      BY <1>1
    <3>2. Garbled(w, Len(w)) = 0
      BY GarbledNone
    <3>3. QED
      BY <2>1, <3>1, <3>2
  <2>3. troubles' >= troubles
    BY <1>2, <1>4
  <2>4. ASSUME NEW k \in 0..Len(wire)
        PROVE  Garbled(wire', k) - Garbled(wire, k) <= troubles' - troubles
    <3>1. PICK w \in Seq(FrameSet) : w = wire
      BY DEF StateTyped
    <3>2. Garbled(Append(w, f), k) = Garbled(w, k) + (IF f.ok THEN 0 ELSE 1)
      BY <3>1, GarbledAppend
    <3>3. Garbled(wire', k) = Garbled(wire, k) + (IF f.ok THEN 0 ELSE 1)
      BY <1>4, <3>1, <3>2
    <3>4. Garbled(wire, k) \in Nat
      BY AgeTyped
    <3>5. CASE f.ok
      BY <1>2, <1>4, <3>3, <3>4, <3>5
    <3>6. CASE ~f.ok
      BY <1>2, <1>4, <3>3, <3>4, <3>6
    <3>7. QED
      BY <3>5, <3>6
  <2>5. QED
    BY <1>1, <2>1, <2>2, <2>3, <2>4 DEF Written
<1>5. QED
  BY <1>3, <1>4 DEF Sends

\* A command just issued: its SEQ and code are those to come, and its frame is the last one if any.
LEMMA IssuesFacts ==
  ASSUME LinkInv, Issues
  PROVE  /\ ~Busy /\ Busy' /\ Own' = Coming /\ at \notin Resting
         /\ CommandAt[at] \in Commands /\ NextSeq(seq) \in 0..MaxSeq
         /\ Written(Coming, CommandAt[at])
         /\ call' \in [cmd : Commands, seq : 0..MaxSeq, try : 1..Retries]
         /\ call'.cmd = CommandAt[at] /\ call'.seq = seq' /\ call'.try = 1
<1>1. CommandAt[at] \in Commands /\ NextSeq(seq) \in 0..MaxSeq
  BY CommandTyped, NextSeqTyped DEF LinkInv, StateTyped, Issues
<1>2. call'.cmd = CommandAt[at] /\ call'.seq = seq' /\ call'.try = 1
  BY DEF Issues
<1>3. call' \in [cmd : Commands, seq : 0..MaxSeq, try : 1..Retries]
  BY <1>1, LinkAssumption DEF Issues
<1>4. ~Busy /\ at \notin Resting
  BY DEF Issues, Busy
<1>5. Busy'
  BY <1>1, <1>2 DEF Busy, NoCall, Commands
<1>6. Own' = Coming
  BY <1>2 DEF Own, Coming, Issues
<1>7. Sends(CommandAt[at], NextSeq(seq)) /\ troubles' \in 0..MaxTroubles
  BY DEF Issues
<1>8. PICK c \in Commands, s \in 0..MaxSeq : c = CommandAt[at] /\ s = NextSeq(seq)
  BY <1>1
<1>9. Written(<<s, Code(c)>>, c)
  BY <1>7, <1>8, SendsWritten DEF LinkInv
<1>10. Written(Coming, CommandAt[at])
  BY <1>8, <1>9 DEF Coming
<1>11. QED
  BY <1>1, <1>2, <1>3, <1>4, <1>5, <1>6, <1>10

LEMMA IssuesKeeps ==
  ASSUME LinkInv, Issues, MaxTroubles < MaxSeq
  PROVE  LinkInv'
<1>1. /\ ~Busy /\ Busy' /\ Own' = Coming /\ at \notin Resting
      /\ CommandAt[at] \in Commands /\ NextSeq(seq) \in 0..MaxSeq
      /\ Written(Coming, CommandAt[at])
      /\ call' \in [cmd : Commands, seq : 0..MaxSeq, try : 1..Retries]
      /\ call'.cmd = CommandAt[at] /\ call'.seq = seq' /\ call'.try = 1
  BY IssuesFacts
<1>2. /\ inbox' = <<>> /\ seq' = NextSeq(seq) /\ troubles' \in 0..MaxTroubles
      /\ UNCHANGED <<inv, at, verdict, mcf>>
  BY DEF Issues
<1>3. /\ \A k \in DOMAIN wire : Key(wire[k]) # Coming
      /\ at # "hello" => mcf.last # Coming
      /\ at = "hello" => Coming = First
  BY <1>1, Fresh DEF LinkInv
<1>4. \A k \in DOMAIN wire' :
        \/ k \in DOMAIN wire /\ wire'[k] = wire[k]
        \/ k = Len(wire) + 1 /\ Key(wire'[k]) = Coming /\ wire'[k].cmd = CommandAt[at] /\ wire'[k].fn = inv
  BY <1>1 DEF Written, Grows
<1>5. DOMAIN wire = 1..Len(wire) /\ Len(wire) \in Nat
  BY WireSlots DEF LinkInv
<1>6. StateTyped'
  BY <1>1, <1>2 DEF Written, LinkInv, StateTyped
<1>7. CallOK'
  <2>1. at = "hello" => seq' = 1
    BY <1>2, LinkAssumption DEF LinkInv, CallOK, Busy, NextSeq, Issues
  <2>2. QED
    BY <1>1, <1>2, <2>1 DEF CallOK
<1>8. WireOK'
  <2>1. \A k \in DOMAIN wire' : wire'[k].fn \in 1..inv
    BY <1>4, <1>2 DEF LinkInv, WireOK, StateTyped
  <2>2. ASSUME NEW i \in DOMAIN wire', NEW j \in DOMAIN wire', NEW k \in DOMAIN wire',
               i < j, j < k, Key(wire'[i]) = Key(wire'[k])
        PROVE  Key(wire'[j]) = Key(wire'[k])
    <3>1. i \in DOMAIN wire /\ j \in DOMAIN wire /\ wire'[i] = wire[i] /\ wire'[j] = wire[j]
      BY <1>4, <1>5, <2>2
    <3>2. k \in DOMAIN wire /\ wire'[k] = wire[k]
      BY <1>3, <1>4, <2>2, <3>1
    <3>3. QED
      BY <2>2, <3>1, <3>2 DEF LinkInv, WireOK
  <2>3. ASSUME NEW j \in DOMAIN wire', NEW k \in DOMAIN wire',
               j < k, Key(wire'[k]) = mcf.last, ~(Opening /\ Key(wire'[k]) = First)
        PROVE  Key(wire'[j]) = mcf.last
    <3>1. j \in DOMAIN wire /\ wire'[j] = wire[j]
      BY <1>4, <1>5, <2>3
    <3>2. k \in DOMAIN wire /\ wire'[k] = wire[k]
      <4>1. Key(wire'[k]) # Coming
        BY <1>3, <2>3 DEF Opening
      <4>2. QED
        BY <1>4, <4>1
    <3>3. QED
      BY <2>3, <3>1, <3>2 DEF LinkInv, WireOK
  <2>4. Opening' = Opening
    BY <1>2 DEF Opening
  <2>5. QED
    BY <1>2, <2>1, <2>2, <2>3, <2>4 DEF WireOK, Key
<1>9. OwnOK'
  <2>1. \A k \in DOMAIN wire' : Key(wire'[k]) = Coming => k = Len(wire) + 1
                                 /\ wire'[k].cmd = CommandAt[at] /\ wire'[k].fn = inv
    BY <1>3, <1>4
  <2>2. ASSUME NEW j \in DOMAIN wire', NEW k \in DOMAIN wire', j < k, Key(wire'[j]) = Coming
        PROVE  FALSE
    <3>1. j = Len(wire) + 1
      BY <2>1, <2>2
    <3>2. k \in 1..(Len(wire) + 1)
      BY <1>4, <1>5
    <3>3. QED
      BY <1>5, <2>2, <3>1, <3>2
  <2>3. at' # "hello" => mcf'.last # Own'
    BY <1>1, <1>2, <1>3
  <2>4. DOMAIN inbox' = {}
    BY <1>2
  <2>5. QED
    BY <1>1, <1>2, <2>1, <2>2, <2>3, <2>4 DEF OwnOK, Key
<1>10. LiveOK'
  <2>1. ASSUME NEW k \in DOMAIN wire, wire'[k] = wire[k], Leads(k)
        PROVE  Leads(k)'
    <3>1. \A j \in DOMAIN wire' : j < k => j \in DOMAIN wire /\ wire'[j] = wire[j]
      BY <1>4, <1>5
    <3>2. QED
      BY <1>2, <2>1, <3>1 DEF Leads, Key
  <2>2. at \in Build => \A j \in DOMAIN wire : Key(wire[j]) = mcf.last
    BY <1>1 DEF LinkInv, BuildOK
  <2>3. ASSUME NEW k \in DOMAIN wire', k = Len(wire) + 1, at \in Build
        PROVE  Leads(k)'
    <3>1. \A j \in DOMAIN wire' : j < k => j \in DOMAIN wire /\ wire'[j] = wire[j]
      BY <1>4, <1>5, <2>3
    <3>2. QED
      BY <1>2, <2>2, <2>3, <3>1 DEF Leads, Key
  <2>4. ASSUME NEW k \in DOMAIN wire', Live(k)'
        PROVE  /\ wire'[k].cmd = "38" =>
                    /\ at \in {"final", "check", "pause", "hello", "closed"}
                    /\ mcf.open = inv /\ mcf.lines = 2 /\ ~Registered(inv) /\ Leads(k)'
               /\ wire'[k].cmd = "31" => mcf.lines <= 1 /\ Leads(k)'
    <3>1. CASE k \in DOMAIN wire /\ wire'[k] = wire[k]
      <4>1. Live(k)
        BY <1>2, <2>4, <3>1 DEF Live, Key
      <4>2. QED
        BY <2>1, <3>1, <4>1 DEF LinkInv, LiveOK
    <3>2. CASE k = Len(wire) + 1 /\ wire'[k].cmd = CommandAt[at]
      <4>1. at \in Places /\ CommandOf(at, CommandAt[at])
        BY <1>1, CommandsListed DEF LinkInv, StateTyped
      <4>2. wire'[k].cmd = "38" => at = "final"
        BY <3>2, <4>1 DEF CommandOf
      <4>3. wire'[k].cmd = "31" => at \in {"line1", "line2"}
        BY <3>2, <4>1 DEF CommandOf
      <4>4. at \in Build => Ours(Counted(at))
        BY <1>1 DEF LinkInv, BuildOK, Done
      <4>5. at = "final" => ~Registered(inv)
        BY <1>1 DEF LinkInv, BuildOK, Done
      <4>6. at \in Build => Leads(k)'
        BY <2>3, <3>2
      <4>7. QED
        BY <4>2, <4>3, <4>4, <4>5, <4>6 DEF Build, Ours, Counted
    <3>3. QED
      BY <1>4, <3>1, <3>2
  <2>5. QED
    BY <1>2, <2>4 DEF LiveOK, Registered
<1>11. BookOK' /\ VerdictOK'
  BY <1>2 DEF LinkInv, BookOK, VerdictOK, Registered
<1>12. BuildOK'
  <2>1. at \in Build => \A k \in DOMAIN wire' : Key(wire'[k]) = mcf.last \/ Key(wire'[k]) = Coming
    BY <1>1, <1>4 DEF LinkInv, BuildOK
  <2>2. at \in Build => Ours(Counted(at))
    BY <1>1 DEF LinkInv, BuildOK, Done
  <2>3. (at \in NotFinal \/ at = "final") => ~Registered(inv)
    BY <1>1 DEF LinkInv, BuildOK, Done
  <2>4. QED
    BY <1>1, <1>2, <2>1, <2>2, <2>3 DEF BuildOK, Key, Ours, Registered
<1>13. AnswerOK'
  BY <1>1, <1>2, <1>3 DEF AnswerOK, Done
<1>14. \A k \in 0..Len(wire) : AgeAt(k) + k + Garbled(wire, k) <= troubles
  <2>1. TAKE k \in 0..Len(wire)
  <2>2. Spent(k) <= troubles /\ Spent(k) = AgeAt(k) + k + Garbled(wire, k) + 0
    BY <1>1, <2>1 DEF LinkInv, Budget, Spent
  <2>3. AgeAt(k) \in Nat /\ Garbled(wire, k) \in Nat
    BY <2>1, AgeTyped DEF LinkInv
  <2>4. QED
    BY <2>2, <2>3
<1>15. \A k \in 0..Len(wire) : AgeAt(k)' \in Nat /\ AgeAt(k)' <= AgeAt(k) + 1
  <2>1. TAKE k \in 0..Len(wire)
  <2>2. AgeAt(k) \in Nat
    BY AgeTyped DEF LinkInv
  <2>3. CASE at = "hello"
    <3>1. AgeAt(k)' = 0
      BY <1>2, <2>3 DEF AgeAt, Age, Opening
    <3>2. QED
      BY <2>2, <3>1
  <2>4. CASE at # "hello"
    <3>1. ~Opening /\ ~Opening'
      BY <1>1, <1>2, <2>4 DEF Opening, Resting
    <3>2. k # 0 => k \in DOMAIN wire /\ wire[k] = wire'[k] /\ wire[k].seq \in 0..MaxSeq
      <4>1. k # 0 => k \in DOMAIN wire /\ k \in DOMAIN wire'
        BY <1>1, <1>5, <2>1 DEF Written
      <4>2. k # Len(wire) + 1
        BY <1>5, <2>1
      <4>3. QED
        BY <1>4, <4>1, <4>2, WireSlots DEF LinkInv, FrameSet
    <3>3. PICK s \in 0..MaxSeq : s = (IF k = 0 THEN mcf.last[1] ELSE wire[k].seq)
      BY <3>2, McfFields DEF LinkInv
    <3>4. AgeAt(k) = Back(seq, s)
      BY <3>1, <3>3 DEF AgeAt, Age
    <3>5. AgeAt(k)' = Back(NextSeq(seq), s)
      BY <1>2, <3>1, <3>2, <3>3 DEF AgeAt, Age
    <3>6. AgeAt(k) < MaxSeq
      BY <1>1, <2>1, AgeBelow DEF LinkInv
    <3>7. seq \in 0..MaxSeq
      BY DEF LinkInv, StateTyped
    <3>8. Back(NextSeq(seq), s) = Back(seq, s) + 1
      BY <3>4, <3>6, <3>7, BackNext
    <3>9. QED
      BY <2>2, <3>4, <3>5, <3>8
  <2>5. QED
    BY <2>3, <2>4
<1>16. \A k : Spent(k)' = AgeAt(k)' + k + Garbled(wire', k) + 0
  BY <1>1, <1>2 DEF Spent, Garbled, BadFrom
<1>17. CASE wire' = wire /\ troubles' = troubles + 1
  <2>1. \A k \in 0..Len(wire) : Spent(k)' <= troubles'
    <3>1. TAKE k \in 0..Len(wire)
    <3>2. Garbled(wire', k) = Garbled(wire, k)
      BY <1>17
    <3>3. Spent(k)' = AgeAt(k)' + k + Garbled(wire, k) + 0
      BY <1>16, <3>2
    <3>4. /\ AgeAt(k)' \in Nat /\ AgeAt(k)' <= AgeAt(k) + 1
          /\ AgeAt(k) + k + Garbled(wire, k) <= troubles
      BY <1>14, <1>15
    <3>5. AgeAt(k) \in Nat /\ Garbled(wire, k) \in Nat /\ troubles \in Nat
      BY AgeTyped DEF LinkInv
    <3>6. QED
      BY <1>17, <3>3, <3>4, <3>5
  <2>2. \A k \in 0..Len(wire) : Spent(k)' <= troubles' + 1
    <3>1. TAKE k \in 0..Len(wire)
    <3>2. AgeAt(k)' \in Nat /\ Garbled(wire', k) \in Nat /\ troubles' \in Nat
      BY <1>2, <1>15, <1>17, AgeTyped DEF LinkInv
    <3>3. QED
      BY <1>16, <2>1, <3>2
  <2>3. Budget' /\ Slack'
    BY <1>1, <1>17, <2>1, <2>2 DEF Budget, Slack
  <2>4. QED
    BY <1>6, <1>7, <1>8, <1>9, <1>10, <1>11, <1>12, <1>13, <2>3 DEF LinkInv
<1>18. CASE /\ Len(wire') = Len(wire) + 1 /\ Key(wire'[Len(wire) + 1]) = Coming
            /\ Garbled(wire', Len(wire) + 1) = 0
            /\ \A k \in 0..Len(wire) : Garbled(wire', k) - Garbled(wire, k) <= troubles' - troubles
  <2>1. ASSUME NEW k \in 0..Len(wire)
        PROVE  Spent(k)' <= troubles' + 1
    <3>1. PICK d : d = Garbled(wire', k)
      OBVIOUS
    <3>2. d - Garbled(wire, k) <= troubles' - troubles
      BY <1>18, <3>1
    <3>4. d \in Nat
      <4>1. PICK w \in Seq(FrameSet) : w = wire'
        BY <1>1 DEF Written
      <4>2. Garbled(w, k) \in Nat /\ k \in Nat
        BY <1>5, GarbledCount
      <4>3. QED
        BY <3>1, <4>1, <4>2
    <3>5. Spent(k)' = AgeAt(k)' + k + d
      BY <1>15, <1>16, <3>1, <3>4
    <3>6. troubles' \in Nat
      BY <1>2
    <3>7. /\ AgeAt(k)' \in Nat /\ AgeAt(k)' <= AgeAt(k) + 1
          /\ AgeAt(k) + k + Garbled(wire, k) <= troubles
      BY <1>14, <1>15
    <3>8. AgeAt(k) \in Nat /\ Garbled(wire, k) \in Nat /\ troubles \in Nat
      BY AgeTyped DEF LinkInv
    <3>20. k \in Nat
      OBVIOUS
    <3>9. PICK i \in Nat, a \in Nat, b \in Nat, g \in Nat, t \in Nat, u \in Nat :
            i = k /\ a = AgeAt(k) /\ b = AgeAt(k)' /\ g = Garbled(wire, k) /\ t = troubles /\ u = troubles'
      BY <3>6, <3>7, <3>8, <3>20
    <3>10. d \in Nat /\ d - g <= u - t /\ b <= a + 1 /\ a + i + g <= t
      BY <3>2, <3>4, <3>7, <3>9
    <3>11. b + i + d <= u + 1
      BY <3>10, WrittenPaid
    <3>12. QED
      BY <3>5, <3>9, <3>11
  <2>2. ASSUME NEW n, n = Len(wire) + 1
        PROVE  Spent(n)' <= troubles' + 1
    <3>1. wire'[n].seq = NextSeq(seq) /\ n # 0 /\ n \in Nat
      BY <1>5, <1>18, <2>2 DEF Key, Coming
    <3>3. AgeAt(n)' = 0
      <4>1. CASE Opening'
        BY <4>1 DEF AgeAt, Age
      <4>2. CASE ~Opening'
        <5>1. AgeAt(n)' = Back(NextSeq(seq), NextSeq(seq))
          BY <1>2, <3>1, <4>2 DEF AgeAt, Age
        <5>2. QED
          BY <1>1, <5>1, BackTyped
      <4>3. QED
        BY <4>1, <4>2
    <3>4. Len(wire) <= troubles
      <4>0. Len(wire) \in 0..Len(wire)
        BY <1>5
      <4>1. PICK k \in 0..Len(wire) : k = Len(wire)
        BY <4>0
      <4>2. AgeAt(k) + k + Garbled(wire, k) <= troubles
        BY <1>14
      <4>3. AgeAt(k) \in Nat /\ Garbled(wire, k) \in Nat /\ troubles \in Nat
        BY AgeTyped DEF LinkInv
      <4>4. QED
        BY <4>1, <4>2, <4>3
    <3>5. troubles' >= troubles /\ troubles' \in Nat /\ troubles \in Nat
      BY <1>1, <1>2, AgeTyped DEF Written, LinkInv
    <3>6. Garbled(wire', n) = 0
      BY <1>18, <2>2
    <3>7. Spent(n)' = 0 + n + 0 + 0
      BY <1>16, <3>3, <3>6
    <3>8. QED
      BY <1>5, <2>2, <3>1, <3>4, <3>5, <3>7
  <2>3. Budget'
    <3>1. \A k \in 0..Len(wire') : k \in 0..Len(wire) \/ k = Len(wire) + 1
      BY <1>5, <1>18
    <3>2. ASSUME NEW k \in 0..Len(wire')
          PROVE  Spent(k)' <= troubles' + 1
      BY <2>1, <2>2, <3>1, <3>2
    <3>3. QED
      BY <1>1, <3>2 DEF Budget
  <2>4. Slack'
    <3>1. Len(wire) + 1 \in DOMAIN wire'
      BY <1>1, <1>5, <1>18 DEF Written
    <3>2. \E k \in DOMAIN wire' : Key(wire'[k]) = Own'
      BY <1>1, <1>18, <3>1
    <3>3. QED
      BY <3>2 DEF Slack, Key
  <2>5. QED
    BY <1>6, <1>7, <1>8, <1>9, <1>10, <1>11, <1>12, <1>13, <2>3, <2>4 DEF LinkInv
<1>19. QED
  BY <1>1, <1>17, <1>18 DEF Written

LEMMA ResendsFacts ==
  ASSUME LinkInv, Resends
  PROVE  /\ Busy /\ Busy' /\ Own' = Own /\ at \notin Resting
         /\ call.cmd = CommandAt[at] /\ call.seq = seq
         /\ Written(Own, call.cmd)
         /\ call' \in [cmd : Commands, seq : 0..MaxSeq, try : 1..Retries]
         /\ call'.cmd = call.cmd /\ call'.seq = call.seq
<1>1. Busy /\ call' = [call EXCEPT !.try = @ + 1] /\ call.try < Retries
  BY DEF Resends
<1>2. /\ call \in [cmd : Commands, seq : 0..MaxSeq, try : 1..Retries]
      /\ call.cmd \in Commands /\ call.seq \in 0..MaxSeq /\ call.try \in 1..Retries
  BY <1>1, BusyCall DEF LinkInv
<1>3. call.try + 1 \in 1..Retries
  BY <1>1, <1>2, LinkAssumption
<1>4. call' \in [cmd : Commands, seq : 0..MaxSeq, try : 1..Retries]
  BY <1>1, <1>2, <1>3
<1>5. call'.cmd = call.cmd /\ call'.seq = call.seq
  BY <1>1, <1>2
<1>6. Busy'
  BY <1>2, <1>5 DEF Busy, NoCall, Commands
<1>7. Own' = Own
  BY <1>5 DEF Own
<1>8. PICK c \in Commands, s \in 0..MaxSeq : c = call.cmd /\ s = call.seq
  BY <1>2
<1>9. Sends(call.cmd, call.seq) /\ troubles' \in 0..MaxTroubles
  BY DEF Resends
<1>10. Written(<<s, Code(c)>>, c)
  BY <1>8, <1>9, SendsWritten DEF LinkInv
<1>11. Written(Own, call.cmd)
  BY <1>8, <1>10 DEF Own
<1>12. at \notin Resting /\ call.cmd = CommandAt[at] /\ call.seq = seq
  BY <1>1 DEF LinkInv, CallOK
<1>13. QED
  BY <1>1, <1>4, <1>5, <1>6, <1>7, <1>11, <1>12

LEMMA ResendsKeeps ==
  ASSUME LinkInv, Resends
  PROVE  LinkInv'
<1>1. /\ Busy /\ Busy' /\ Own' = Own /\ at \notin Resting
      /\ call.cmd = CommandAt[at] /\ call.seq = seq
      /\ Written(Own, call.cmd)
      /\ call' \in [cmd : Commands, seq : 0..MaxSeq, try : 1..Retries]
      /\ call'.cmd = call.cmd /\ call'.seq = call.seq
  BY ResendsFacts
<1>2. /\ inbox' = <<>> /\ troubles' \in 0..MaxTroubles /\ Pays
      /\ UNCHANGED <<inv, at, verdict, seq, mcf>>
  BY DEF Resends
<1>3. \A k \in DOMAIN wire' :
        \/ k \in DOMAIN wire /\ wire'[k] = wire[k]
        \/ k = Len(wire) + 1 /\ Key(wire'[k]) = Own /\ wire'[k].cmd = call.cmd /\ wire'[k].fn = inv
  BY <1>1 DEF Written, Grows
<1>4. DOMAIN wire = 1..Len(wire) /\ Len(wire) \in Nat
  BY WireSlots DEF LinkInv
<1>5. /\ \A k \in DOMAIN wire : Key(wire[k]) = Own => wire[k].cmd = call.cmd /\ wire[k].fn = inv
      /\ \A j, k \in DOMAIN wire : j < k /\ Key(wire[j]) = Own => Key(wire[k]) = Own
      /\ at # "hello" /\ mcf.last = Own => \A k \in DOMAIN wire : Key(wire[k]) = Own
  BY <1>1 DEF LinkInv, OwnOK, AllOwn
<1>6. at = "hello" => Own = First
  BY <1>1 DEF LinkInv, CallOK, Own, First, CommandAt, Code
<1>7. StateTyped'
  BY <1>1, <1>2 DEF Written, LinkInv, StateTyped
<1>8. CallOK'
  BY <1>1, <1>2 DEF LinkInv, CallOK
<1>9. WireOK'
  <2>1. \A k \in DOMAIN wire' : wire'[k].fn \in 1..inv
    BY <1>2, <1>3 DEF LinkInv, WireOK, StateTyped
  <2>2. ASSUME NEW i \in DOMAIN wire', NEW j \in DOMAIN wire', NEW k \in DOMAIN wire',
               i < j, j < k, Key(wire'[i]) = Key(wire'[k])
        PROVE  Key(wire'[j]) = Key(wire'[k])
    <3>1. i \in DOMAIN wire /\ j \in DOMAIN wire /\ wire'[i] = wire[i] /\ wire'[j] = wire[j]
      BY <1>3, <1>4, <2>2
    <3>2. CASE k \in DOMAIN wire /\ wire'[k] = wire[k]
      BY <2>2, <3>1, <3>2 DEF LinkInv, WireOK
    <3>3. CASE Key(wire'[k]) = Own
      BY <1>5, <2>2, <3>1, <3>3
    <3>4. QED
      BY <1>3, <3>2, <3>3
  <2>3. ASSUME NEW j \in DOMAIN wire', NEW k \in DOMAIN wire',
               j < k, Key(wire'[k]) = mcf.last, ~(Opening /\ Key(wire'[k]) = First)
        PROVE  Key(wire'[j]) = mcf.last
    <3>1. j \in DOMAIN wire /\ wire'[j] = wire[j]
      BY <1>3, <1>4, <2>3
    <3>2. CASE k \in DOMAIN wire /\ wire'[k] = wire[k]
      BY <2>3, <3>1, <3>2 DEF LinkInv, WireOK
    <3>3. CASE Key(wire'[k]) = Own
      <4>1. at # "hello"
        BY <1>6, <2>3, <3>3 DEF Opening
      <4>2. QED
        BY <1>5, <2>3, <3>1, <3>3, <4>1
    <3>4. QED
      BY <1>3, <3>2, <3>3
  <2>4. Opening' = Opening
    BY <1>2 DEF Opening
  <2>5. QED
    BY <1>2, <2>1, <2>2, <2>3, <2>4 DEF WireOK, Key
<1>10. OwnOK'
  <2>1. \A k \in DOMAIN wire' : Key(wire'[k]) = Own => wire'[k].cmd = call.cmd /\ wire'[k].fn = inv
    BY <1>3, <1>5
  <2>2. ASSUME NEW j \in DOMAIN wire', NEW k \in DOMAIN wire', j < k, Key(wire'[j]) = Own
        PROVE  Key(wire'[k]) = Own
    <3>1. CASE k \in DOMAIN wire /\ wire'[k] = wire[k]
      <4>1. j \in DOMAIN wire /\ wire'[j] = wire[j]
        BY <1>3, <1>4, <2>2, <3>1
      <4>2. QED
        BY <1>5, <2>2, <3>1, <4>1
    <3>2. QED
      BY <1>3, <3>1
  <2>3. at # "hello" /\ mcf.last = Own => \A k \in DOMAIN wire' : Key(wire'[k]) = Own
    BY <1>3, <1>5
  <2>4. DOMAIN inbox' = {}
    BY <1>2
  <2>5. QED
    BY <1>1, <1>2, <2>1, <2>2, <2>3, <2>4 DEF OwnOK, Key, AllOwn
<1>11. at \in Build => \A k \in DOMAIN wire' : Key(wire'[k]) = mcf.last \/ Key(wire'[k]) = Own
  BY <1>1, <1>3 DEF LinkInv, BuildOK
<1>12. LiveOK'
  <2>1. ASSUME NEW k \in DOMAIN wire, wire'[k] = wire[k], Leads(k)
        PROVE  Leads(k)'
    <3>1. \A j \in DOMAIN wire' : j < k => j \in DOMAIN wire /\ wire'[j] = wire[j]
      BY <1>3, <1>4
    <3>2. QED
      BY <1>2, <2>1, <3>1 DEF Leads, Key
  <2>2. ASSUME NEW k \in DOMAIN wire', Live(k)'
        PROVE  /\ wire'[k].cmd = "38" =>
                    /\ at \in {"final", "check", "pause", "hello", "closed"}
                    /\ mcf.open = inv /\ mcf.lines = 2 /\ ~Registered(inv) /\ Leads(k)'
               /\ wire'[k].cmd = "31" => mcf.lines <= 1 /\ Leads(k)'
    <3>1. CASE k \in DOMAIN wire /\ wire'[k] = wire[k]
      <4>1. Live(k)
        BY <1>2, <2>2, <3>1 DEF Live, Key
      <4>2. QED
        BY <2>1, <3>1, <4>1 DEF LinkInv, LiveOK
    <3>2. CASE Key(wire'[k]) = Own /\ wire'[k].cmd = call.cmd
      <4>1. at \in Places /\ CommandOf(at, call.cmd)
        BY <1>1, CommandsListed DEF LinkInv, StateTyped
      <4>2. wire'[k].cmd = "38" => at = "final"
        BY <3>2, <4>1 DEF CommandOf
      <4>3. wire'[k].cmd = "31" => at \in {"line1", "line2"}
        BY <3>2, <4>1 DEF CommandOf
      <4>4. ~Done
        BY <1>2, <2>2, <3>2 DEF Live, Done, Key
      <4>5. /\ at \in Build => Ours(Counted(at))
            /\ at = "final" => ~Registered(inv)
        BY <4>4 DEF LinkInv, BuildOK
      <4>6. at \in Build => Leads(k)'
        BY <1>2, <1>11, <3>2 DEF Leads, Key
      <4>7. QED
        BY <4>2, <4>3, <4>5, <4>6 DEF Build, Ours, Counted
    <3>3. QED
      BY <1>3, <3>1, <3>2
  <2>3. QED
    BY <1>2, <2>2 DEF LiveOK, Registered
<1>13. BookOK' /\ VerdictOK'
  BY <1>2 DEF LinkInv, BookOK, VerdictOK, Registered
<1>14. Done' <=> Done
  BY <1>1, <1>2 DEF Done
<1>15. BuildOK'
  BY <1>1, <1>2, <1>11, <1>14 DEF LinkInv, BuildOK, Key, Ours, Registered
<1>16. AnswerOK'
  BY <1>1, <1>2, <1>14 DEF LinkInv, AnswerOK, Ours, Registered
<1>17. \A k \in 0..Len(wire) : AgeAt(k) + k + Garbled(wire, k) + Len(inbox) <= troubles + 1
  BY <1>1 DEF LinkInv, Budget, Spent
<1>18. \A k \in 0..Len(wire) : AgeAt(k)' = AgeAt(k)
  <2>1. TAKE k \in 0..Len(wire)
  <2>2. k # 0 => wire[k] = wire'[k]
    <3>1. k # 0 => k \in DOMAIN wire /\ k \in DOMAIN wire' /\ k # Len(wire) + 1
      BY <1>1, <1>4, <2>1 DEF Written
    <3>2. QED
      BY <1>3, <3>1
  <2>3. QED
    BY <1>2, <2>2 DEF AgeAt, Age, Opening
<1>19. \A k : Spent(k)' = AgeAt(k)' + k + Garbled(wire', k) + 0
  BY <1>1, <1>2 DEF Spent, Garbled, BadFrom
<1>20. \A k \in 0..Len(wire) :
         /\ AgeAt(k) \in Nat /\ Garbled(wire, k) \in Nat /\ Garbled(wire', k) \in Nat
         /\ Len(inbox) \in Nat /\ troubles \in Nat /\ troubles' \in Nat
         /\ inbox # <<>> => Len(inbox) >= 1
  <2>1. TAKE k \in 0..Len(wire)
  <2>2. Garbled(wire', k) \in Nat
    <3>1. PICK w \in Seq(FrameSet) : w = wire'
      BY <1>1 DEF Written
    <3>2. Garbled(w, k) \in Nat
      BY <1>4, GarbledCount
    <3>3. QED
      BY <3>1, <3>2
  <2>3. troubles' \in Nat
    BY <1>2
  <2>4. QED
    BY <2>2, <2>3, AgeTyped DEF LinkInv
<1>21. CASE wire' = wire /\ troubles' = troubles + 1
  <2>1. ASSUME NEW k \in 0..Len(wire)
        PROVE  Spent(k)' <= troubles' /\ Spent(k)' <= troubles' + 1
    <3>1. Spent(k)' = AgeAt(k) + k + Garbled(wire, k) + 0
      BY <1>18, <1>19, <1>21
    <3>2. AgeAt(k) + k + Garbled(wire, k) + Len(inbox) <= troubles + 1
      BY <1>17
    <3>3. QED
      BY <1>20, <1>21, <3>1, <3>2
  <2>2. Budget' /\ Slack'
    BY <1>1, <1>21, <2>1 DEF Budget, Slack
  <2>3. QED
    BY <1>7, <1>8, <1>9, <1>10, <1>12, <1>13, <1>15, <1>16, <2>2 DEF LinkInv
<1>22. CASE /\ Len(wire') = Len(wire) + 1 /\ Key(wire'[Len(wire) + 1]) = Own
            /\ Garbled(wire', Len(wire) + 1) = 0
            /\ \A k \in 0..Len(wire) : Garbled(wire', k) - Garbled(wire, k) <= troubles' - troubles
  <2>1. ASSUME NEW k \in 0..Len(wire)
        PROVE  Spent(k)' <= troubles' + 1
    <3>1. Garbled(wire', k) - Garbled(wire, k) <= troubles' - troubles
      BY <1>22
    <3>2. Spent(k)' = AgeAt(k) + k + Garbled(wire', k) + 0
      BY <1>18, <1>19
    <3>3. AgeAt(k) + k + Garbled(wire, k) + Len(inbox) <= troubles + 1
      BY <1>17
    <3>4. /\ AgeAt(k) \in Nat /\ Garbled(wire, k) \in Nat /\ Garbled(wire', k) \in Nat
          /\ Len(inbox) \in Nat /\ troubles \in Nat /\ troubles' \in Nat /\ k \in Nat
      BY <1>20
    <3>5. PICK i \in Nat, a \in Nat, g \in Nat, d \in Nat, l \in Nat, t \in Nat, u \in Nat :
            /\ i = k /\ a = AgeAt(k) /\ g = Garbled(wire, k) /\ d = Garbled(wire', k)
            /\ l = Len(inbox) /\ t = troubles /\ u = troubles'
      BY <3>4
    <3>6. d - g <= u - t /\ a + i + g + l <= t + 1
      BY <3>1, <3>3, <3>5
    <3>7. a + i + d <= u + 1
      BY <3>6, RewrittenPaid
    <3>8. QED
      BY <3>2, <3>5, <3>7
  <2>2. ASSUME NEW n, n = Len(wire) + 1
        PROVE  Spent(n)' <= troubles' + 1
    <3>1. wire'[n].seq = seq /\ n # 0 /\ n \in Nat
      BY <1>1, <1>4, <1>22, <2>2 DEF Key, Own
    <3>2. AgeAt(n)' = 0
      <4>1. CASE Opening'
        BY <4>1 DEF AgeAt, Age
      <4>2. CASE ~Opening'
        <5>1. AgeAt(n)' = Back(seq, seq) /\ seq \in 0..MaxSeq
          BY <1>2, <3>1, <4>2 DEF AgeAt, Age, LinkInv, StateTyped
        <5>2. QED
          BY <5>1, BackTyped
      <4>3. QED
        BY <4>1, <4>2
    <3>3. Len(wire) <= troubles'
      <4>0. Len(wire) \in 0..Len(wire)
        BY <1>4
      <4>1. PICK k \in 0..Len(wire) : k = Len(wire)
        BY <4>0
      <4>2. AgeAt(k) + k + Garbled(wire, k) + Len(inbox) <= troubles + 1
        BY <1>17
      <4>3. troubles' >= troubles
        BY <1>1 DEF Written
      <4>4. CASE inbox # <<>> \/ troubles' = troubles + 1
        <5>1. /\ AgeAt(k) \in Nat /\ Garbled(wire, k) \in Nat
              /\ Len(inbox) \in Nat /\ troubles \in Nat /\ troubles' \in Nat
              /\ inbox # <<>> => Len(inbox) >= 1
          BY <1>20
        <5>2. QED
          BY <4>1, <4>2, <4>3, <4>4, <5>1
      <4>5. CASE wire = <<>>
        BY <1>20, <4>1, <4>5
      <4>6. QED
        BY <1>2, <4>4, <4>5 DEF Pays
    <3>4. Garbled(wire', n) = 0
      BY <1>22, <2>2
    <3>5. Spent(n)' = 0 + n + 0 + 0
      BY <1>19, <3>2, <3>4
    <3>6. QED
      BY <1>2, <1>4, <2>2, <3>3, <3>5
  <2>3. Budget'
    <3>1. \A k \in 0..Len(wire') : k \in 0..Len(wire) \/ k = Len(wire) + 1
      BY <1>4, <1>22
    <3>2. ASSUME NEW k \in 0..Len(wire')
          PROVE  Spent(k)' <= troubles' + 1
      BY <2>1, <2>2, <3>1, <3>2
    <3>3. QED
      BY <1>1, <3>2 DEF Budget
  <2>4. Slack'
    <3>1. Len(wire) + 1 \in DOMAIN wire'
      BY <1>1, <1>4, <1>22 DEF Written
    <3>2. \E k \in DOMAIN wire' : Key(wire'[k]) = Own'
      BY <1>1, <1>22, <3>1
    <3>3. QED
      BY <3>2 DEF Slack, Key
  <2>5. QED
    BY <1>7, <1>8, <1>9, <1>10, <1>12, <1>13, <1>15, <1>16, <2>3, <2>4 DEF LinkInv
<1>23. QED
  BY <1>1, <1>21, <1>22 DEF Written
----
(* The MCF reads a frame *)

\* What is left on the wire, and its place before.
LEMMA Shift ==
  ASSUME StateTyped, wire # <<>>, wire' = Tail(wire)
  PROVE  /\ wire' \in Seq(FrameSet) /\ Len(wire') = Len(wire) - 1 /\ 1 \in DOMAIN wire
         /\ Len(wire) \in Nat /\ Len(wire) >= 1 /\ wire[1] \in FrameSet
         /\ \A k \in DOMAIN wire' : /\ k \in Nat /\ k >= 1 /\ k + 1 \in DOMAIN wire /\ wire'[k] = wire[k + 1]
         /\ \A k \in DOMAIN wire : k = 1 \/ (k - 1 \in DOMAIN wire' /\ wire'[k - 1] = wire[k])
         /\ \A k \in 0..Len(wire') : k \in Nat /\ k + 1 \in 0..Len(wire) /\ Garbled(wire', k) = Garbled(wire, k + 1)
<1>1. /\ wire' \in Seq(FrameSet) /\ Len(wire') = Len(wire) - 1 /\ Len(wire) >= 1
      /\ 1 \in DOMAIN wire /\ wire[1] \in FrameSet
      /\ \A k \in DOMAIN wire' : k + 1 \in DOMAIN wire /\ wire'[k] = wire[k + 1] /\ k >= 1
  BY TailSlots
<1>2. DOMAIN wire = 1..Len(wire) /\ Len(wire) \in Nat
  BY WireSlots
<1>3. DOMAIN wire' = 1..(Len(wire) - 1)
  BY <1>1, <1>2
<1>4. \A k \in DOMAIN wire' : k \in Nat
  BY <1>2, <1>3
<1>5. \A k \in DOMAIN wire : k = 1 \/ (k - 1 \in DOMAIN wire' /\ wire'[k - 1] = wire[k])
  <2>1. TAKE k \in DOMAIN wire
  <2>2. CASE k # 1
    <3>1. k - 1 \in DOMAIN wire' /\ (k - 1) + 1 = k
      BY <1>2, <1>3, <2>1, <2>2
    <3>2. QED
      BY <1>1, <3>1
  <2>3. QED
    BY <2>2
<1>6. ASSUME NEW k \in 0..Len(wire')
      PROVE  k \in Nat /\ k + 1 \in 0..Len(wire) /\ Garbled(wire', k) = Garbled(wire, k + 1)
  <2>1. k \in Nat /\ k + 1 \in 0..Len(wire)
    BY <1>1, <1>2
  <2>2. PICK w \in Seq(FrameSet) : w = wire
    BY DEF StateTyped
  <2>3. Garbled(Tail(w), k) = Garbled(w, k + 1)
    BY <2>1, <2>2, GarbledTail
  <2>4. QED
    BY <2>1, <2>2, <2>3
<1>7. QED
  BY <1>1, <1>2, <1>4, <1>5, <1>6

\* The frames in what is left keep the order they had.
LEMMA ShiftOrder ==
  ASSUME StateTyped, WireOK, wire # <<>>, wire' = Tail(wire), Untouched
  PROVE  /\ \A k \in DOMAIN wire' : wire'[k].fn \in 1..inv'
         /\ \A i, j, k \in DOMAIN wire' :
              i < j /\ j < k /\ Key(wire'[i]) = Key(wire'[k]) => Key(wire'[j]) = Key(wire'[k])
         /\ \A j, k \in DOMAIN wire' :
              j < k /\ Key(wire'[k]) = mcf.last /\ ~(Opening /\ Key(wire'[k]) = First)
                => Key(wire'[j]) = mcf.last
<1>1. \A k \in DOMAIN wire' : k \in Nat /\ k >= 1 /\ k + 1 \in DOMAIN wire /\ wire'[k] = wire[k + 1]
  BY Shift
<1>2. \A k \in DOMAIN wire' : wire'[k].fn \in 1..inv'
  BY <1>1 DEF WireOK, Untouched
<1>3. ASSUME NEW i \in DOMAIN wire', NEW j \in DOMAIN wire', NEW k \in DOMAIN wire',
             i < j, j < k, Key(wire'[i]) = Key(wire'[k])
      PROVE  Key(wire'[j]) = Key(wire'[k])
  <2>1. i + 1 < j + 1 /\ j + 1 < k + 1
    BY <1>1, <1>3
  <2>2. /\ i + 1 \in DOMAIN wire /\ j + 1 \in DOMAIN wire /\ k + 1 \in DOMAIN wire
        /\ wire'[i] = wire[i + 1] /\ wire'[j] = wire[j + 1] /\ wire'[k] = wire[k + 1]
    BY <1>1
  <2>3. QED
    BY <1>3, <2>1, <2>2 DEF WireOK
<1>4. ASSUME NEW j \in DOMAIN wire', NEW k \in DOMAIN wire',
             j < k, Key(wire'[k]) = mcf.last, ~(Opening /\ Key(wire'[k]) = First)
      PROVE  Key(wire'[j]) = mcf.last
  <2>1. j + 1 < k + 1
    BY <1>1, <1>4
  <2>2. /\ j + 1 \in DOMAIN wire /\ k + 1 \in DOMAIN wire
        /\ wire'[j] = wire[j + 1] /\ wire'[k] = wire[k + 1]
    BY <1>1
  <2>3. QED
    BY <1>4, <2>1, <2>2 DEF WireOK
<1>5. QED
  BY <1>2, <1>3, <1>4

\* The frames of the exchange are still the last ones.
LEMMA ShiftOwn ==
  ASSUME StateTyped, OwnOK, Busy, wire # <<>>, wire' = Tail(wire)
  PROVE  /\ \A k \in DOMAIN wire' : Key(wire'[k]) = Own => wire'[k].cmd = call.cmd /\ wire'[k].fn = inv
         /\ \A j, k \in DOMAIN wire' : j < k /\ Key(wire'[j]) = Own => Key(wire'[k]) = Own
         /\ AllOwn => \A k \in DOMAIN wire' : Key(wire'[k]) = Own
         /\ Key(wire[1]) = Own => AllOwn
<1>1. \A k \in DOMAIN wire' : k \in Nat /\ k >= 1 /\ k + 1 \in DOMAIN wire /\ wire'[k] = wire[k + 1]
  BY Shift
<1>2. \A j, k \in DOMAIN wire : j < k /\ Key(wire[j]) = Own => Key(wire[k]) = Own
  BY DEF OwnOK
<1>3. \A k \in DOMAIN wire' : Key(wire'[k]) = Own => wire'[k].cmd = call.cmd /\ wire'[k].fn = inv
  BY <1>1 DEF OwnOK
<1>4. ASSUME NEW j \in DOMAIN wire', NEW k \in DOMAIN wire', j < k, Key(wire'[j]) = Own
      PROVE  Key(wire'[k]) = Own
  <2>1. j + 1 < k + 1
    BY <1>1, <1>4
  <2>2. /\ j + 1 \in DOMAIN wire /\ k + 1 \in DOMAIN wire
        /\ wire'[j] = wire[j + 1] /\ wire'[k] = wire[k + 1]
    BY <1>1
  <2>3. QED
    BY <1>2, <1>4, <2>1, <2>2
<1>5. AllOwn => \A k \in DOMAIN wire' : Key(wire'[k]) = Own
  BY <1>1 DEF AllOwn
<1>6. Key(wire[1]) = Own => AllOwn
  <2>1. SUFFICES ASSUME Key(wire[1]) = Own, NEW k \in DOMAIN wire
                 PROVE  Key(wire[k]) = Own
    BY DEF AllOwn
  <2>2. 1 \in DOMAIN wire /\ (k = 1 \/ 1 < k)
    BY <2>1, WireSlots, Shift
  <2>3. QED
    BY <1>2, <2>1, <2>2
<1>7. QED
  BY <1>3, <1>4, <1>5, <1>6

LEMMA ReadsBadKeeps ==
  ASSUME LinkInv, ReadsBad
  PROVE  LinkInv'
<1>1. /\ wire # <<>> /\ ~wire[1].ok /\ wire' = Tail(wire)
      /\ UNCHANGED <<mcf, troubles, inv, at, verdict, seq, call>>
  BY DEF ReadsBad, Untouched
<1>2. PICK r \in Replies : inbox' = Append(inbox, r) /\ r.kind = "NAK"
  BY DEF ReadsBad
<1>3. /\ wire' \in Seq(FrameSet) /\ Len(wire') = Len(wire) - 1 /\ 1 \in DOMAIN wire
      /\ Len(wire) \in Nat /\ Len(wire) >= 1 /\ wire[1] \in FrameSet
      /\ \A k \in DOMAIN wire' : k \in Nat /\ k >= 1 /\ k + 1 \in DOMAIN wire /\ wire'[k] = wire[k + 1]
      /\ \A k \in 0..Len(wire') : k \in Nat /\ k + 1 \in 0..Len(wire) /\ Garbled(wire', k) = Garbled(wire, k + 1)
  BY <1>1, Shift DEF LinkInv
<1>4. /\ inbox \in Seq(Replies) /\ inbox' \in Seq(Replies) /\ inbox' # <<>>
      /\ Len(inbox') = Len(inbox) + 1 /\ Len(inbox) \in Nat
      /\ \A i \in DOMAIN inbox' : (i \in DOMAIN inbox /\ inbox'[i] = inbox[i]) \/ inbox'[i] = r
  <2>1. inbox \in Seq(Replies)
    BY DEF LinkInv, StateTyped
  <2>2. QED
    BY <1>2, <2>1
<1>5. Busy' = Busy /\ Opening' = Opening /\ Own' = Own /\ Done' = Done
  BY <1>1 DEF Busy, Opening, Own, Done
<1>6. StateTyped'
  BY <1>1, <1>3, <1>4 DEF LinkInv, StateTyped
<1>7. CallOK'
  BY <1>1, <1>3, <1>5 DEF LinkInv, CallOK, Key
<1>8. WireOK'
  <2>1. Untouched
    BY DEF ReadsBad
  <2>2. QED
    BY <1>1, <1>5, <2>1, ShiftOrder DEF LinkInv, WireOK, Key
<1>9. OwnOK'
  <2>1. CASE Busy
    <3>1. /\ \A k \in DOMAIN wire' : Key(wire'[k]) = Own => wire'[k].cmd = call.cmd /\ wire'[k].fn = inv
          /\ \A j, k \in DOMAIN wire' : j < k /\ Key(wire'[j]) = Own => Key(wire'[k]) = Own
          /\ AllOwn => \A k \in DOMAIN wire' : Key(wire'[k]) = Own
      BY <1>1, <2>1, ShiftOwn DEF LinkInv
    <3>2. AllOwn => AllOwn'
      BY <1>5, <3>1 DEF AllOwn, Key
    <3>3. at # "hello" /\ mcf.last = Own => AllOwn
      BY <2>1 DEF LinkInv, OwnOK
    <3>4. ASSUME NEW i \in DOMAIN inbox', inbox'[i].kind \notin {"NAK", "invalid"}, Matches(inbox'[i])
          PROVE  mcf.last = Own /\ AllOwn' /\ inbox'[i] = Reply(call.seq, Code(call.cmd), mcf.answer)
      <4>1. i \in DOMAIN inbox /\ inbox'[i] = inbox[i]
        BY <1>2, <1>4, <3>4
      <4>2. QED
        BY <2>1, <3>2, <3>4, <4>1 DEF LinkInv, OwnOK
    <3>5. QED
      BY <1>1, <1>5, <3>1, <3>2, <3>3, <3>4 DEF OwnOK, Key, Matches
  <2>2. CASE ~Busy
    BY <1>5, <2>2 DEF OwnOK
  <2>3. QED
    BY <2>1, <2>2
<1>10. LiveOK'
  <2>1. ASSUME NEW k \in DOMAIN wire', Leads(k + 1)
        PROVE  Leads(k)'
    <3>1. \A j \in DOMAIN wire' : j < k => /\ j + 1 \in DOMAIN wire /\ j + 1 < k + 1
                                           /\ wire'[j] = wire[j + 1] /\ wire'[k] = wire[k + 1]
      BY <1>3
    <3>2. QED
      BY <1>1, <2>1, <3>1 DEF Leads, Key
  <2>2. ASSUME NEW k \in DOMAIN wire', Live(k)'
        PROVE  Live(k + 1) /\ k + 1 \in DOMAIN wire /\ wire'[k] = wire[k + 1]
    BY <1>1, <1>3, <2>2 DEF Live, Key
  <2>3. QED
    BY <1>1, <2>1, <2>2 DEF LinkInv, LiveOK, Registered
<1>11. BookOK' /\ VerdictOK'
  BY <1>1 DEF LinkInv, BookOK, VerdictOK, Registered
<1>12. BuildOK'
  <2>1. at \in Build => \A k \in DOMAIN wire' : Key(wire'[k]) = mcf.last \/ (Busy /\ Key(wire'[k]) = Own)
    BY <1>3 DEF LinkInv, BuildOK
  <2>2. QED
    BY <1>1, <1>5, <2>1 DEF LinkInv, BuildOK, Key, Ours, Registered
<1>13. AnswerOK'
  BY <1>1, <1>5 DEF LinkInv, AnswerOK, Ours, Registered
<1>14. Budget'
  <2>1. ASSUME NEW k \in 0..Len(wire')
        PROVE  Spent(k)' <= (IF Busy THEN troubles + 1 ELSE troubles)
    <3>1. Spent(k)' = AgeAt(k)' + k + Garbled(wire, k + 1) + (IF Busy THEN Len(inbox) + 1 ELSE 0)
      <4>1. Garbled(wire', k) = Garbled(wire, k + 1)
        BY <1>3
      <4>2. QED
        BY <1>4, <1>5, <4>1 DEF Spent, Garbled, BadFrom
    <3>2. CASE k = 0
      <4>1. AgeAt(0)' = AgeAt(0)
        BY <1>1, <1>5 DEF AgeAt, Age
      <4>2. Garbled(wire, 0) = Garbled(wire, 1) + 1
        <5>1. PICK w \in Seq(FrameSet) : w = wire
          BY DEF LinkInv, StateTyped
        <5>2. Garbled(w, 0) = Garbled(w, 1) + (IF w[1].ok THEN 0 ELSE 1)
          BY <1>1, <5>1, GarbledFirst
        <5>3. QED
          BY <1>1, <5>1, <5>2
      <4>3. 0 \in 0..Len(wire) /\ 1 \in 0..Len(wire)
        BY <1>3
      <4>4. /\ Spent(0) = AgeAt(0) + 0 + Garbled(wire, 0) + (IF Busy THEN Len(inbox) ELSE 0)
            /\ Spent(0) <= (IF Busy THEN troubles + 1 ELSE troubles)
        BY <4>3 DEF Spent, LinkInv, Budget
      <4>5. /\ AgeAt(0) \in Nat /\ Garbled(wire, 1) \in Nat /\ troubles \in Nat
        BY <4>3, AgeTyped DEF LinkInv
      <4>6. Spent(k)' = AgeAt(0) + 0 + Garbled(wire, 1) + (IF Busy THEN Len(inbox) + 1 ELSE 0)
        BY <3>1, <3>2, <4>1
      <4>7. QED
        BY <1>4, <4>2, <4>4, <4>5, <4>6
    <3>3. CASE k # 0
      <4>1. k \in DOMAIN wire' /\ k + 1 # 0
        BY <1>3, <3>3
      <4>2. AgeAt(k)' = AgeAt(k + 1)
        BY <1>1, <1>3, <1>5, <3>3, <4>1 DEF AgeAt, Age
      <4>3. k + 1 \in 0..Len(wire) /\ k \in Nat
        BY <1>3
      <4>4. /\ Spent(k + 1) = AgeAt(k + 1) + (k + 1) + Garbled(wire, k + 1) + (IF Busy THEN Len(inbox) ELSE 0)
            /\ Spent(k + 1) <= (IF Busy THEN troubles + 1 ELSE troubles)
        BY <4>3 DEF Spent, LinkInv, Budget
      <4>5. AgeAt(k + 1) \in Nat /\ Garbled(wire, k + 1) \in Nat /\ troubles \in Nat
        BY <4>3, AgeTyped DEF LinkInv
      <4>6. QED
        BY <1>4, <3>1, <4>2, <4>3, <4>4, <4>5
    <3>4. QED
      BY <3>2, <3>3
  <2>2. QED
    BY <1>1, <1>5, <2>1 DEF Budget
<1>15. Slack'
  BY <1>4 DEF Slack
<1>16. QED
  BY <1>6, <1>7, <1>8, <1>9, <1>10, <1>11, <1>12, <1>13, <1>14, <1>15 DEF LinkInv

Late == {"final", "check", "pause", "hello", "closed"}   \* where the outcome of a 38h is still open

\* What a frame changes in the memory of the MCF, when the invariant holds.
McfStep ==
  /\ mcf'.last = Key(wire[1]) /\ mcf'.answer \in Answers
  /\ mcf'.open \in 0..MaxInvoices /\ mcf'.lines \in 0..2
  /\ \/ mcf'.book = mcf.book
     \/ /\ at \in Late /\ mcf.lines = 2 /\ ~Registered(inv)
        /\ mcf'.book = Append(mcf.book, [fn |-> inv, lines |-> 2])

LEMMA McfSteps ==
  ASSUME LinkInv, ReadsGood
  PROVE  McfStep
<1> DEFINE f == wire[1]
<1>1. 1 \in DOMAIN wire /\ f \in FrameSet
  BY Shift DEF LinkInv, ReadsGood
<1>2. /\ mcf.answer \in Answers /\ mcf.open \in 0..MaxInvoices /\ mcf.lines \in 0..2
      /\ f.fn \in 1..MaxInvoices /\ inv \in 1..MaxInvoices /\ 0 \in 0..MaxInvoices
  BY <1>1, McfFields, LinkAssumption DEF LinkInv, StateTyped, FrameSet
<1>3. CASE mcf.last = Key(f) /\ mcf' = mcf
  BY <1>2, <1>3 DEF McfStep
<1>4. CASE mcf.last # Key(f) /\ Does(f, mcf') /\ mcf'.answer \in Answers
  <2>1. Live(1)
    BY <1>4 DEF Live
  <2>2. /\ f.cmd = "38" => at \in Late /\ mcf.open = inv /\ mcf.lines = 2 /\ ~Registered(inv)
        /\ f.cmd = "31" => mcf.lines <= 1
    BY <1>1, <2>1 DEF LinkInv, LiveOK, Late
  <2>3. mcf'.last = Key(wire[1])
    BY DEF ReadsGood
  <2> HIDE DEF f
  <2>4. mcf'.open \in 0..MaxInvoices
    BY <1>2, <1>4 DEF Does, Same
  <2>5. mcf'.lines \in 0..2
    <3>1. CASE f.cmd = "31" /\ mcf'.lines = mcf.lines + 1
      BY <1>2, <2>2, <3>1
    <3>2. CASE mcf'.lines \in {0, mcf.lines}
      BY <1>2, <3>2
    <3>3. QED
      BY <1>4, <3>1, <3>2 DEF Does, Same
  <2>6. \/ mcf'.book = mcf.book
        \/ f.cmd = "38" /\ mcf'.book = Append(mcf.book, [fn |-> mcf.open, lines |-> mcf.lines])
    BY <1>4 DEF Does, Same
  <2>7. \/ mcf'.book = mcf.book
        \/ /\ at \in Late /\ mcf.lines = 2 /\ ~Registered(inv)
           /\ mcf'.book = Append(mcf.book, [fn |-> inv, lines |-> 2])
    BY <2>2, <2>6
  <2>8. QED
    BY <1>4, <2>3, <2>4, <2>5, <2>7 DEF McfStep
<1>5. QED
  BY <1>3, <1>4 DEF ReadsGood

LEMMA McfStays ==
  ASSUME LinkInv, ReadsGood
  PROVE  mcf' \in McfSet
<1>1. McfStep
  BY McfSteps
<1>2. mcf'.book \in Seq(Rows)
  <2>1. mcf.book \in Seq(Rows) /\ inv \in 1..MaxInvoices
    BY McfFields DEF LinkInv, StateTyped
  <2>2. [fn |-> inv, lines |-> 2] \in Rows
    BY <2>1 DEF Rows
  <2>3. PICK r \in Rows, b \in Seq(Rows) : r = [fn |-> inv, lines |-> 2] /\ b = mcf.book
    BY <2>1, <2>2
  <2>4. Append(b, r) \in Seq(Rows)
    OBVIOUS
  <2>5. mcf'.book = b \/ mcf'.book = Append(b, r)
    BY <1>1, <2>3 DEF McfStep
  <2>6. QED
    BY <2>4, <2>5
<1>3. mcf'.last \in (0..MaxSeq) \X (Commands \cup {"None"})
  <2>1. wire[1] \in FrameSet
    BY Shift DEF LinkInv, ReadsGood
  <2>2. wire[1].seq \in 0..MaxSeq /\ Code(wire[1].cmd) \in Commands
    BY <2>1, CodeTyped DEF FrameSet
  <2>3. QED
    BY <1>1, <2>2 DEF McfStep, Key
<1>4. mcf' = Memory(mcf'.last, mcf'.answer, mcf'.open, mcf'.lines, mcf'.book)
  <2>1. mcf = Memory(mcf.last, mcf.answer, mcf.open, mcf.lines, mcf.book)
    BY McfMemory DEF LinkInv
  <2>2. QED
    BY <2>1 DEF ReadsGood
<1>5. QED
  BY <1>1, <1>2, <1>3, <1>4 DEF McfStep, McfSet, Memory

\* A registration concerns the invoice of the moment, whose outcome is open.
LEMMA BookStays ==
  ASSUME LinkInv, ReadsGood
  PROVE  /\ BookOK' /\ VerdictOK'
         /\ at \notin Late => \A n : Registered(n)' <=> Registered(n)
<1>1. McfStep /\ inv' = inv /\ verdict' = verdict /\ at' = at
  BY McfSteps DEF ReadsGood, Untouched
<1>2. BookOK /\ VerdictOK /\ mcf.book \in Seq(Rows) /\ inv \in 1..MaxInvoices
  BY McfFields DEF LinkInv, StateTyped
<1>3. CASE mcf'.book = mcf.book
  BY <1>1, <1>2, <1>3 DEF BookOK, VerdictOK, Registered
<1>4. CASE /\ at \in Late /\ mcf.lines = 2 /\ ~Registered(inv)
           /\ mcf'.book = Append(mcf.book, [fn |-> inv, lines |-> 2])
  <2> DEFINE b == mcf.book  n == Len(b) + 1
  <2>1. /\ Len(b) \in Nat /\ DOMAIN b = 1..Len(b) /\ DOMAIN mcf'.book = 1..n
        /\ mcf'.book[n] = [fn |-> inv, lines |-> 2]
        /\ \A k \in DOMAIN b : mcf'.book[k] = b[k]
    BY <1>2, <1>4
  <2>2. \A k \in DOMAIN b : b[k].fn < inv
    <3>1. TAKE k \in DOMAIN b
    <3>2. b[k].fn <= inv /\ b[k].fn # inv
      BY <1>2, <1>4, <3>1 DEF BookOK, Registered
    <3>3. b[k] \in Rows
      BY <1>2, <3>1
    <3>4. b[k].fn \in 1..MaxInvoices
      BY <3>3 DEF Rows
    <3>5. QED
      BY <1>2, <3>2, <3>4
  <2>3. \A k \in 1..n : k \in DOMAIN b \/ k = n
    BY <2>1
  <2>4. BookOK'
    <3>1. ASSUME NEW k \in DOMAIN mcf'.book
          PROVE  mcf'.book[k].fn <= inv /\ mcf'.book[k].lines = 2
      <4>1. CASE k \in DOMAIN b
        BY <1>2, <2>1, <4>1 DEF BookOK
      <4>2. CASE k = n
        BY <1>2, <2>1, <4>2
      <4>3. QED
        BY <2>1, <2>3, <4>1, <4>2
    <3>2. ASSUME NEW k \in DOMAIN mcf'.book, NEW j \in DOMAIN mcf'.book, j < k
          PROVE  mcf'.book[j].fn < mcf'.book[k].fn
      <4>1. j \in DOMAIN b
        BY <2>1, <3>2
      <4>2. CASE k \in DOMAIN b
        BY <1>2, <2>1, <3>2, <4>1, <4>2 DEF BookOK
      <4>3. CASE k = n
        BY <2>1, <2>2, <4>1, <4>3
      <4>4. QED
        BY <2>1, <2>3, <4>2, <4>3
    <3>3. QED
      BY <1>1, <3>1, <3>2 DEF BookOK
  <2>5. \A m : Registered(m)' <=> (Registered(m) \/ m = inv)
    <3>1. TAKE m
    <3>2. (\E k \in DOMAIN mcf'.book : mcf'.book[k].fn = m) <=> ((\E k \in DOMAIN b : b[k].fn = m) \/ m = inv)
      <4>1. n \in DOMAIN mcf'.book /\ mcf'.book[n].fn = inv
        BY <2>1
      <4>2. \A k \in DOMAIN mcf'.book : mcf'.book[k].fn = inv \/ (k \in DOMAIN b /\ mcf'.book[k] = b[k])
        BY <2>1, <2>3
      <4>3. \A k \in DOMAIN b : k \in DOMAIN mcf'.book
        BY <2>1
      <4> HIDE DEF n, b
      <4>4. QED
        BY <2>1, <4>1, <4>2, <4>3
    <3>3. QED
      BY <3>2 DEF Registered
  <2>6. verdict[inv] = "none"
    BY <1>2, <1>4 DEF Late, VerdictOK
  <2>7. VerdictOK'
    <3>1. \A m \in 1..MaxInvoices :
            /\ verdict[m] = "rejected" => ~Registered(m)'
            /\ verdict[m] = "normalized" => Registered(m)'
            /\ m > inv => verdict[m] = "none"
      BY <1>2, <2>5, <2>6 DEF VerdictOK
    <3>2. QED
      BY <1>1, <2>6, <3>1 DEF VerdictOK
  <2>8. QED
    BY <1>4, <2>4, <2>7
<1>5. QED
  BY <1>1, <1>3, <1>4 DEF McfStep

\* The exchange finds its answer in the memory of the MCF once one of its frames was read.
LEMMA AnswerStays ==
  ASSUME LinkInv, ReadsGood, mcf.last # Key(wire[1])
  PROVE  AnswerOK'
<1> DEFINE f == wire[1]
<1>1. Untouched /\ wire # <<>> /\ wire' = Tail(wire) /\ mcf'.last = Key(f) /\ Does(f, mcf')
  BY DEF ReadsGood
<1>2. Own' = Own /\ Busy' = Busy
  BY <1>1 DEF Untouched, Own, Busy
<1>3. SUFFICES ASSUME Busy, Key(f) = Own, mcf.last # Own
               PROVE  AnswerOK'
  BY <1>1, <1>2 DEF AnswerOK, Done
<1>4. 1 \in DOMAIN wire /\ f \in FrameSet
  BY <1>1, Shift DEF LinkInv
<1>5. f.cmd = call.cmd /\ f.fn = inv
  BY <1>3, <1>4 DEF LinkInv, OwnOK
<1>6. at \in Places /\ CommandOf(at, f.cmd) /\ at' = at /\ inv' = inv /\ call' = call
  BY <1>1, <1>3, <1>5, CommandsListed DEF LinkInv, StateTyped, CallOK, Untouched
<1>7. inv \in 1..MaxInvoices /\ inv # 0
  BY DEF LinkInv, StateTyped
<1>8. ~Done /\ (at \in Build => Ours(Counted(at))) /\ (at = "final" => ~Registered(inv))
  BY <1>3 DEF Done, LinkInv, BuildOK
<1> HIDE DEF f
<1>9. call.cmd = "C1" => mcf'.answer.last = LastOf(mcf'.book)
  BY <1>1, <1>5 DEF Does, Same
<1>10. at = "open" => mcf'.answer.kind = "E" \/ (mcf'.open = inv /\ mcf'.lines = 0)
  BY <1>1, <1>5, <1>6 DEF Does, Same, CommandOf
<1>11. at = "line1" => mcf'.open = inv /\ mcf'.lines = 1
  BY <1>1, <1>6, <1>7, <1>8 DEF Does, CommandOf, Build, Counted, Ours
<1>12. at = "line2" => mcf'.open = inv /\ mcf'.lines = 2
  BY <1>1, <1>6, <1>7, <1>8 DEF Does, CommandOf, Build, Counted, Ours
<1>13. at = "sum" => mcf'.open = inv /\ mcf'.lines = 2
  BY <1>1, <1>6, <1>7, <1>8 DEF Does, Same, CommandOf, Build, Counted, Ours
<1>14. at = "final" =>
         \/ mcf'.answer.kind = "R" /\ mcf'.answer.last = inv /\ Registered(inv)'
         \/ mcf'.answer.kind \in {"E", "P"} /\ mcf'.open = inv /\ mcf'.lines = 2 /\ ~Registered(inv)'
  <2>1. SUFFICES ASSUME at = "final" PROVE <1>14!2
    OBVIOUS
  <2>2. f.cmd = "38" /\ mcf.open = inv /\ mcf.lines = 2 /\ ~Registered(inv)
    BY <1>6, <1>8, <2>1 DEF CommandOf, Build, Counted, Ours
  <2>3. \/ Same(mcf') /\ mcf'.answer.kind \in {"E", "P"}
        \/ /\ mcf'.book = Append(mcf.book, [fn |-> inv, lines |-> 2])
           /\ mcf'.answer.kind = "R" /\ mcf'.answer.last = inv
    BY <1>1, <1>7, <2>2 DEF Does
  <2>4. CASE Same(mcf') /\ mcf'.answer.kind \in {"E", "P"}
    BY <1>6, <2>2, <2>4 DEF Same, Registered
  <2>5. CASE /\ mcf'.book = Append(mcf.book, [fn |-> inv, lines |-> 2])
             /\ mcf'.answer.kind = "R" /\ mcf'.answer.last = inv
    <3>0. mcf.book \in Seq(Rows) /\ [fn |-> inv, lines |-> 2] \in Rows
      BY <1>7, McfFields DEF LinkInv, Rows
    <3>1. PICK b \in Seq(Rows), r \in Rows : b = mcf.book /\ r = [fn |-> inv, lines |-> 2]
      BY <3>0
    <3>2. Len(b) + 1 \in DOMAIN Append(b, r) /\ Append(b, r)[Len(b) + 1] = r
      OBVIOUS
    <3>3. Registered(inv)'
      BY <1>6, <2>5, <3>1, <3>2 DEF Registered
    <3>4. QED
      BY <2>5, <3>3
  <2>6. QED
    BY <2>3, <2>4, <2>5
<1>15. QED
  BY <1>6, <1>9, <1>10, <1>11, <1>12, <1>13, <1>14 DEF AnswerOK, Ours

LEMMA ReadsGoodKeeps ==
  ASSUME LinkInv, ReadsGood
  PROVE  LinkInv'
<1> DEFINE f == wire[1]
<1>1. /\ wire # <<>> /\ f.ok /\ wire' = Tail(wire) /\ mcf'.last = Key(f) /\ Emits(f)
      /\ troubles' \in 0..MaxTroubles /\ Untouched
      /\ UNCHANGED <<inv, at, verdict, seq, call>>
      /\ mcf.last = Key(f) => mcf' = mcf
      /\ mcf.last # Key(f) => Does(f, mcf')
  BY DEF ReadsGood, Untouched
<1>2. /\ wire' \in Seq(FrameSet) /\ Len(wire') = Len(wire) - 1 /\ 1 \in DOMAIN wire
      /\ Len(wire) \in Nat /\ Len(wire) >= 1 /\ f \in FrameSet
      /\ \A k \in DOMAIN wire' : k \in Nat /\ k >= 1 /\ k + 1 \in DOMAIN wire /\ wire'[k] = wire[k + 1]
      /\ \A k \in 0..Len(wire') : k \in Nat /\ k + 1 \in 0..Len(wire) /\ Garbled(wire', k) = Garbled(wire, k + 1)
  BY <1>1, Shift DEF LinkInv
<1>3. Busy' = Busy /\ Opening' = Opening /\ Own' = Own
  BY <1>1 DEF Busy, Opening, Own
<1> HIDE DEF f
<1>4. inbox \in Seq(Replies) /\ Len(inbox) \in Nat /\ troubles \in Nat /\ troubles' \in Nat
  BY <1>1, AgeTyped DEF LinkInv, StateTyped
<1>5. \/ inbox' = inbox /\ troubles' = troubles + 1
      \/ \E r \in Replies :
           /\ inbox' = Append(inbox, r) /\ troubles' >= troubles
           /\ r.kind = "invalid" \/ r = Reply(f.seq, Code(f.cmd), mcf'.answer)
  BY <1>1 DEF Emits
<1>6. /\ inbox' \in Seq(Replies) /\ Len(inbox') \in {Len(inbox), Len(inbox) + 1} /\ troubles' >= troubles
      /\ inbox' = inbox \/ inbox' # <<>>
      /\ \A i \in DOMAIN inbox' :
           \/ i \in DOMAIN inbox /\ inbox'[i] = inbox[i]
           \/ inbox'[i].kind = "invalid"
           \/ inbox'[i] = Reply(f.seq, Code(f.cmd), mcf'.answer) /\ inbox'[i] \in Replies
  <2>1. CASE inbox' = inbox /\ troubles' = troubles + 1
    BY <1>4, <2>1
  <2>2. ASSUME NEW r \in Replies, inbox' = Append(inbox, r), troubles' >= troubles,
               r.kind = "invalid" \/ r = Reply(f.seq, Code(f.cmd), mcf'.answer)
        PROVE  <1>6
    <3>1. /\ inbox' \in Seq(Replies) /\ Len(inbox') = Len(inbox) + 1 /\ inbox' # <<>>
          /\ \A i \in DOMAIN inbox' : (i \in DOMAIN inbox /\ inbox'[i] = inbox[i]) \/ inbox'[i] = r
      BY <1>4, <2>2
    <3>2. QED
      BY <2>2, <3>1
  <2>3. QED
    BY <1>5, <2>1, <2>2
<1>7. StateTyped'
  BY <1>1, <1>2, <1>6, McfStays DEF LinkInv, StateTyped
<1>8. CallOK'
  BY <1>1, <1>2, <1>3 DEF LinkInv, CallOK, Key
<1>9. /\ \A k \in DOMAIN wire' : wire'[k].fn \in 1..inv'
      /\ \A i, j, k \in DOMAIN wire' :
           i < j /\ j < k /\ Key(wire'[i]) = Key(wire'[k]) => Key(wire'[j]) = Key(wire'[k])
  BY <1>1, ShiftOrder DEF LinkInv
<1>10. WireOK'
  <2>1. ASSUME NEW j \in DOMAIN wire', NEW k \in DOMAIN wire', j < k, Key(wire'[k]) = Key(f)
        PROVE  Key(wire'[j]) = Key(f)
    <3>1. 1 < j + 1 /\ j + 1 < k + 1 /\ 1 \in DOMAIN wire /\ j + 1 \in DOMAIN wire /\ k + 1 \in DOMAIN wire
      BY <1>2, <2>1
    <3>2. wire'[j] = wire[j + 1] /\ wire'[k] = wire[k + 1]
      BY <1>2
    <3>3. Key(wire[1]) = Key(wire[k + 1])
      BY <2>1, <3>2 DEF f
    <3>4. Key(wire[j + 1]) = Key(wire[k + 1])
      BY <3>1, <3>3 DEF LinkInv, WireOK
    <3>5. QED
      BY <2>1, <3>2, <3>4
  <2>2. QED
    BY <1>1, <1>3, <1>9, <2>1 DEF WireOK, Key
<1>11. OwnOK'
  <2>1. CASE Busy
    <3>1. /\ \A k \in DOMAIN wire' : Key(wire'[k]) = Own => wire'[k].cmd = call.cmd /\ wire'[k].fn = inv
          /\ \A j, k \in DOMAIN wire' : j < k /\ Key(wire'[j]) = Own => Key(wire'[k]) = Own
          /\ AllOwn => \A k \in DOMAIN wire' : Key(wire'[k]) = Own
          /\ Key(f) = Own => AllOwn
      BY <1>1, <2>1, ShiftOwn DEF LinkInv, f
    <3>2. AllOwn => AllOwn'
      BY <1>3, <3>1 DEF AllOwn, Key
    <3>3. mcf'.last = Own => AllOwn'
      BY <1>1, <3>1, <3>2
    <3>4. ASSUME NEW i \in DOMAIN inbox', inbox'[i].kind \notin {"NAK", "invalid"}, Matches(inbox'[i])
          PROVE  mcf'.last = Own /\ AllOwn' /\ inbox'[i] = Reply(call.seq, Code(call.cmd), mcf'.answer)
      <4>1. CASE i \in DOMAIN inbox /\ inbox'[i] = inbox[i]
        <5>1. mcf.last = Own /\ AllOwn /\ inbox[i] = Reply(call.seq, Code(call.cmd), mcf.answer)
          BY <2>1, <3>4, <4>1 DEF LinkInv, OwnOK
        <5>2. Key(f) = Own
          BY <1>2, <5>1 DEF AllOwn, f
        <5>3. mcf' = mcf
          BY <1>1, <5>1, <5>2
        <5>4. QED
          BY <3>2, <4>1, <5>1, <5>3
      <4>2. CASE inbox'[i] = Reply(f.seq, Code(f.cmd), mcf'.answer)
        <5>1. PICK s \in 0..MaxSeq, c \in Commands, w \in Answers :
                s = f.seq /\ c = Code(f.cmd) /\ w = mcf'.answer
          BY <1>2, CodeTyped, McfSteps DEF McfStep, FrameSet
        <5>2. inbox'[i].seq = f.seq /\ inbox'[i].cmd = Code(f.cmd)
          BY <4>2, <5>1, ReplyTyped
        <5>3. f.seq = call.seq /\ Code(f.cmd) = Code(call.cmd)
          BY <3>4, <5>2 DEF Matches
        <5>4. Key(f) = Own
          BY <5>3 DEF Key, Own
        <5>5. QED
          BY <1>1, <3>3, <4>2, <5>3, <5>4
      <4>3. QED
        BY <1>6, <3>4, <4>1, <4>2
    <3>5. QED
      BY <1>1, <1>3, <3>1, <3>3, <3>4 DEF OwnOK, Key, Matches
  <2>2. CASE ~Busy
    BY <1>3, <2>2 DEF OwnOK
  <2>3. QED
    BY <2>1, <2>2
<1>12. LiveOK'
  <2>1. ASSUME NEW k \in DOMAIN wire', Live(k)', wire'[k].cmd \in {"38", "31"}
        PROVE  /\ k + 1 \in DOMAIN wire /\ wire'[k] = wire[k + 1] /\ Live(k + 1)
               /\ Leads(k + 1) => Leads(k)' /\ mcf' = mcf
    <3>1. k + 1 \in DOMAIN wire /\ wire'[k] = wire[k + 1] /\ 1 < k + 1
      BY <1>2
    <3>2. Key(wire[k + 1]) # Key(f)
      BY <1>1, <2>1, <3>1 DEF Live, Key
    <3>3. Key(wire[k + 1]) # First
      BY <2>1, <3>1 DEF Key, First, Code
    <3>4. Live(k + 1)
      <4>1. Key(wire[k + 1]) = mcf.last => Key(wire[1]) = mcf.last
        BY <1>2, <3>1, <3>3 DEF LinkInv, WireOK
      <4>2. QED
        BY <3>2, <4>1 DEF Live, f
    <3>5. ASSUME Leads(k + 1)
          PROVE  Leads(k)' /\ mcf' = mcf
      <4>1. Key(f) = mcf.last
        BY <1>2, <3>1, <3>2, <3>5 DEF Leads, f
      <4>2. mcf' = mcf
        BY <1>1, <4>1
      <4>3. \A j \in DOMAIN wire' : j < k => j + 1 \in DOMAIN wire /\ j + 1 < k + 1 /\ wire'[j] = wire[j + 1]
        BY <1>2
      <4>4. QED
        BY <3>1, <3>5, <4>2, <4>3 DEF Leads, Key
    <3>6. QED
      BY <3>1, <3>4, <3>5
  <2>2. QED
    BY <1>1, <2>1 DEF LinkInv, LiveOK, Registered
<1>13. /\ BookOK' /\ VerdictOK'
       /\ at \notin Late => \A n : Registered(n)' <=> Registered(n)
  BY BookStays
<1>14. AnswerOK'
  <2>1. CASE mcf.last = Key(f)
    <3>1. mcf' = mcf /\ Done' = Done
      BY <1>1, <1>3, <2>1 DEF Done
    <3>2. QED
      BY <1>1, <3>1 DEF LinkInv, AnswerOK, Ours, Registered
  <2>2. CASE mcf.last # Key(f)
    BY <2>2, AnswerStays DEF f
  <2>3. QED
    BY <2>1, <2>2
<1>15. BuildOK'
  <2>1. at \in NotFinal => at \notin Late
    BY DEF NotFinal, Late
  <2>2. at \in NotFinal => ~Registered(inv)'
    <3>1. PICK n : n = inv
      OBVIOUS
    <3>2. at \notin Late => (Registered(n)' <=> Registered(n))
      BY <1>13
    <3>3. Registered(n)' <=> Registered(inv)'
      BY <1>1, <3>1 DEF Registered
    <3>4. Registered(n) <=> Registered(inv)
      BY <3>1
    <3>5. at \in NotFinal => ~Registered(inv)
      BY DEF LinkInv, BuildOK
    <3>6. QED
      BY <2>1, <3>2, <3>3, <3>4, <3>5
  <2>3. at \in Build => Key(f) = mcf.last \/ (Busy /\ Key(f) = Own)
    BY <1>2 DEF LinkInv, BuildOK, f
  <2>4. ASSUME at \in Build, Key(f) = mcf.last
        PROVE  BuildOK'
    <3>1. mcf' = mcf /\ Done' = Done
      BY <1>1, <1>3, <2>4 DEF Done
    <3>2. \A k \in DOMAIN wire' : Key(wire'[k]) = mcf.last \/ (Busy /\ Key(wire'[k]) = Own)
      BY <1>2, <2>4 DEF LinkInv, BuildOK
    <3>3. QED
      BY <1>1, <1>3, <3>1, <3>2 DEF LinkInv, BuildOK, Key, Ours, Registered
  <2>5. ASSUME at \in Build, Busy, Key(f) = Own
        PROVE  BuildOK'
    <3>1. Done'
      BY <1>1, <1>3, <2>5 DEF Done
    <3>2. \A k \in DOMAIN wire' : Key(wire'[k]) = Own
      BY <1>1, <2>5, ShiftOwn DEF LinkInv, f
    <3>3. QED
      BY <1>1, <1>3, <2>2, <2>5, <3>1, <3>2 DEF BuildOK, Key
  <2>6. CASE at \notin Build
    <3>1. at' \notin Build /\ at' # "final"
      BY <1>1, <2>6 DEF Build
    <3>2. at' \in NotFinal => ~Registered(inv)'
      BY <1>1, <2>2
    <3>3. QED
      BY <3>1, <3>2 DEF BuildOK
  <2>7. QED
    BY <2>3, <2>4, <2>5, <2>6
<1>16. \A k \in 0..Len(wire) :
         /\ AgeAt(k) \in Nat /\ Garbled(wire, k) \in Nat
         /\ Spent(k) = AgeAt(k) + k + Garbled(wire, k) + (IF Busy THEN Len(inbox) ELSE 0)
         /\ Spent(k) <= (IF Busy THEN troubles + 1 ELSE troubles)
  BY AgeTyped DEF LinkInv, Budget, Spent
<1>17. \A k \in 0..Len(wire') : AgeAt(k)' = AgeAt(k + 1)
  <2>1. TAKE k \in 0..Len(wire')
  <2>2. k \in Nat /\ k + 1 # 0 /\ (k # 0 => k \in DOMAIN wire')
    BY <1>2
  <2>3. CASE k = 0
    <3>1. mcf'.last[1] = wire[1].seq
      BY <1>1 DEF Key, f
    <3>2. AgeAt(k)' = Age(mcf'.last[1])
      BY <1>1, <1>3, <2>3 DEF AgeAt, Age
    <3>3. AgeAt(k + 1) = Age(wire[1].seq)
      BY <2>3 DEF AgeAt
    <3>4. QED
      BY <3>1, <3>2, <3>3
  <2>4. CASE k # 0
    <3>1. wire'[k] = wire[k + 1]
      BY <1>2, <2>2, <2>4
    <3>2. QED
      BY <1>1, <1>3, <2>2, <2>4, <3>1 DEF AgeAt, Age
  <2>5. QED
    BY <2>3, <2>4
\* A frame less before the others makes up for the answer; only a lost answer does not count, but
\* it was a trouble.
<1>18. ASSUME NEW k \in 0..Len(wire')
       PROVE  /\ Spent(k)' <= Spent(k + 1)
              /\ Spent(k)' \in Int /\ Spent(k + 1) \in Int /\ k + 1 \in 0..Len(wire)
  <2>1. k \in Nat /\ k + 1 \in 0..Len(wire) /\ Garbled(wire', k) = Garbled(wire, k + 1)
    BY <1>2
  <2>2. Spent(k)' = AgeAt(k + 1) + k + Garbled(wire, k + 1) + (IF Busy THEN Len(inbox') ELSE 0)
    BY <1>3, <1>17, <2>1 DEF Spent, Garbled, BadFrom
  <2>3. /\ AgeAt(k + 1) \in Nat /\ Garbled(wire, k + 1) \in Nat
        /\ Spent(k + 1) = AgeAt(k + 1) + (k + 1) + Garbled(wire, k + 1) + (IF Busy THEN Len(inbox) ELSE 0)
    BY <1>16, <2>1
  <2>4. Len(inbox') \in Nat /\ Len(inbox') <= Len(inbox) + 1
    BY <1>4, <1>6
  <2>5. CASE Busy
    <3>1. PICK i \in Nat, a \in Nat, g \in Nat, l \in Nat, m \in Nat :
            /\ i = k /\ a = AgeAt(k + 1) /\ g = Garbled(wire, k + 1) /\ l = Len(inbox) /\ m = Len(inbox')
      BY <1>4, <2>1, <2>3, <2>4
    <3>5. m <= l + 1
      BY <2>4, <3>1
    <3>2. a + i + g + m <= a + (i + 1) + g + l
      BY <3>5
    <3>3. Spent(k)' = a + i + g + m /\ Spent(k + 1) = a + (i + 1) + g + l
      BY <2>2, <2>3, <2>5, <3>1
    <3>4. QED
      BY <2>1, <3>2, <3>3
  <2>6. CASE ~Busy
    BY <2>1, <2>2, <2>3, <2>6
  <2>7. QED
    BY <2>5, <2>6
<1>19. Budget'
  <2>1. ASSUME NEW k \in 0..Len(wire')
        PROVE  Spent(k)' <= (IF Busy THEN troubles' + 1 ELSE troubles')
    <3>1. Spent(k + 1) <= (IF Busy THEN troubles + 1 ELSE troubles)
      BY <1>16, <1>18
    <3>2. QED
      BY <1>4, <1>6, <1>18, <3>1
  <2>2. QED
    BY <1>3, <2>1 DEF Budget
<1>20. Slack'
  <2>1. SUFFICES ASSUME Busy, at # "hello", inbox' = inbox, inbox = <<>>
                 PROVE  \/ mcf'.last = Own
                        \/ \E k \in DOMAIN wire' : Key(wire'[k]) = Own
                        \/ \A k \in 0..Len(wire') : Spent(k)' <= troubles'
    BY <1>1, <1>3, <1>6 DEF Slack, Key
  <2>2. CASE mcf.last = Own
    <3>1. Key(f) = Own
      BY <1>2, <2>1, <2>2 DEF LinkInv, OwnOK, AllOwn, f
    <3>2. QED
      BY <1>1, <3>1
  <2>3. ASSUME NEW k \in DOMAIN wire, Key(wire[k]) = Own
        PROVE  mcf'.last = Own \/ \E j \in DOMAIN wire' : Key(wire'[j]) = Own
    <3>1. k = 1 \/ (k - 1 \in DOMAIN wire' /\ wire'[k - 1] = wire[k])
      BY <1>1, Shift DEF LinkInv
    <3>2. QED
      BY <1>1, <2>3, <3>1 DEF f
  <2>4. CASE \A k \in 0..Len(wire) : Spent(k) <= troubles
    <3>1. ASSUME NEW k \in 0..Len(wire')
          PROVE  Spent(k)' <= troubles'
      <4>1. Spent(k + 1) <= troubles
        BY <1>18, <2>4
      <4>2. QED
        BY <1>4, <1>6, <1>18, <4>1
    <3>2. QED
      BY <3>1
  <2>5. QED
    BY <2>1, <2>2, <2>3, <2>4 DEF LinkInv, Slack
<1>21. QED
  BY <1>7, <1>8, <1>10, <1>11, <1>12, <1>13, <1>14, <1>15, <1>19, <1>20 DEF LinkInv
----
(* The invariant *)

LEMMA InitHolds == Init => LinkInv
<1> SUFFICES ASSUME Init PROVE LinkInv
  OBVIOUS
<1>1. /\ inv = 1 /\ at = "prepare" /\ verdict = [n \in 1..MaxInvoices |-> "none"]
      /\ seq = 0 /\ call = NoCall /\ wire = <<>> /\ inbox = <<>> /\ troubles = 0
      /\ mcf = [last |-> <<0, "None">>, answer |-> Plain("NAK"), open |-> 0, lines |-> 0, book |-> <<>>]
  BY DEF Init
<1>2. ~Busy /\ DOMAIN wire = {} /\ Len(wire) = 0
  BY <1>1 DEF Busy
<1>3. mcf.book = <<>> /\ DOMAIN mcf.book = {} /\ mcf.last[1] = 0
  BY <1>1
<1>4. StateTyped
  <2>1. 0 \in 0..MaxInvoices /\ 1 \in 1..MaxInvoices /\ 0 \in 0..MaxSeq /\ 0 \in 0..MaxTroubles
    BY LinkAssumption
  <2>2. Plain("NAK") \in Answers
    BY <2>1 DEF Plain, Answers
  <2>3. mcf \in McfSet
    BY <1>1, <2>1, <2>2 DEF McfSet
  <2>4. wire \in Seq(FrameSet) /\ inbox \in Seq(Replies)
    BY <1>1
  <2>5. QED
    BY <1>1, <2>1, <2>3, <2>4, PlacesListed DEF StateTyped, AllPlaces
<1>5. CallOK /\ OwnOK /\ AnswerOK /\ Slack
  BY <1>1, <1>2 DEF CallOK, OwnOK, AnswerOK, Done, Slack
<1>6. WireOK /\ LiveOK /\ BookOK
  BY <1>2, <1>3 DEF WireOK, LiveOK, BookOK
<1>7. VerdictOK
  BY <1>1, LinkAssumption DEF VerdictOK
<1>8. BuildOK
  BY <1>1, <1>3 DEF BuildOK, Build, Registered
<1>9. Budget
  <2>1. AgeAt(0) = 0
    BY <1>1, <1>3, LinkAssumption DEF AgeAt, Age, Back, Opening
  <2>2. Garbled(wire, 0) = 0
    <3>1. BadFrom(wire, 0) = {}
      BY <1>2 DEF BadFrom
    <3>2. QED
      BY <3>1, FS_EmptySet DEF Garbled
  <2>3. \A k \in 0..Len(wire) : k = 0
    BY <1>2
  <2>4. Spent(0) = 0
    BY <1>2, <2>1, <2>2 DEF Spent
  <2>5. QED
    BY <1>1, <1>2, <2>3, <2>4 DEF Budget
<1>10. QED
  BY <1>4, <1>5, <1>6, <1>7, <1>8, <1>9 DEF LinkInv

Patient == Restart => \A k \in DOMAIN wire : Key(wire[k]) # First

LEMMA LinkStep ==
  ASSUME MaxTroubles < MaxSeq
  PROVE  LinkInv /\ [Next]_vars /\ [Patient]_vars => LinkInv'
<1> SUFFICES ASSUME LinkInv, [Next]_vars, [Patient]_vars PROVE LinkInv'
  OBVIOUS
<1>0. StateTyped
  BY DEF LinkInv
<1>1. CASE Issue
  <2>1. Issues
    BY <1>0, <1>1, IssueForm
  <2>2. QED
    BY <2>1, IssuesKeeps
<1>2. CASE Receive \/ Timeout
  <2>1. Resends \/ Silent \/ \E a \in Replies : Answered(a)
    BY <1>0, <1>2, ReceiveForm, TimeoutForm
  <2>2. QED
    BY <2>1, ResendsKeeps, SilentKeeps, AnsweredKeeps
<1>3. CASE Wake
  BY <1>3, WakeKeeps
<1>4. CASE Start
  BY <1>4, StartKeeps
<1>5. CASE McfReads
  <2>1. ReadsBad \/ ReadsGood
    BY <1>0, <1>5, McfForm
  <2>2. QED
    BY <2>1, ReadsBadKeeps, ReadsGoodKeeps
<1>6. CASE UNCHANGED vars \/ Finished
  BY <1>6, StutterKeeps DEF Finished
<1>7. CASE Restart /\ ~UNCHANGED vars
  <2>1. \A k \in DOMAIN wire : Key(wire[k]) # First
    BY <1>7 DEF Patient
  <2>2. QED
    BY <1>7, <2>1, RestartKeeps
<1>8. CASE Breaks
  <2>1. Silent
    BY <1>0, <1>8, BreaksForm
  <2>2. QED
    BY <2>1, SilentKeeps
<1>9. QED
  BY <1>1, <1>2, <1>3, <1>4, <1>5, <1>6, <1>7, <1>8 DEF Next, Gateway

LEMMA LinkAlways ==
  ASSUME MaxTroubles < MaxSeq
  PROVE  Spec /\ PatientStart => []LinkInv
<1>1. LinkInv /\ [Next]_vars /\ [Patient]_vars => LinkInv'
  BY LinkStep
<1>2. PatientStart => [][Patient]_vars
  BY PTL DEF PatientStart, Patient
<1>3. QED
  BY <1>1, <1>2, InitHolds, PTL DEF Spec

LEMMA TypesFollow == LinkInv => LinkTypeOK
<1> SUFFICES ASSUME LinkInv PROVE LinkTypeOK
  OBVIOUS
<1>1. \A k \in DOMAIN wire : wire[k] \in [cmd : Commands, seq : 0..MaxSeq, fn : 1..MaxInvoices, ok : BOOLEAN]
  BY WireSlots DEF LinkInv, FrameSet
<1>2. \A k \in DOMAIN inbox : inbox[k] \in Replies
  BY DEF LinkInv, StateTyped
<1>3. mcf.answer \in Answers /\ mcf.open \in 0..MaxInvoices /\ mcf.lines \in 0..2
  BY McfFields DEF LinkInv
<1>4. QED
  BY <1>1, <1>2, <1>3 DEF LinkInv, StateTyped, LinkTypeOK

LEMMA LinesFollow == LinkInv => LinesCounted
  BY DEF LinkInv, BuildOK, Done, Busy, Build, Counted, Ours, LinesCounted

LEMMA VerdictsFollow == LinkInv => VerdictsHold
<1> SUFFICES ASSUME LinkInv, NEW n \in 1..MaxInvoices
             PROVE  LET own == {k \in DOMAIN mcf.book : mcf.book[k].fn = n}
                    IN  /\ verdict[n] = "rejected" => own = {}
                        /\ verdict[n] = "normalized" => \E k \in own : own = {k} /\ mcf.book[k].lines = 2
  BY DEF VerdictsHold
<1> DEFINE own == {k \in DOMAIN mcf.book : mcf.book[k].fn = n}
<1>1. mcf.book \in Seq(Rows) /\ DOMAIN mcf.book = 1..Len(mcf.book) /\ Len(mcf.book) \in Nat
  BY McfFields DEF LinkInv
<1>2. verdict[n] = "rejected" => own = {}
  BY DEF LinkInv, VerdictOK, Registered
<1>3. ASSUME verdict[n] = "normalized"
      PROVE  \E k \in own : own = {k} /\ mcf.book[k].lines = 2
  <2>1. PICK k \in DOMAIN mcf.book : mcf.book[k].fn = n
    BY <1>3 DEF LinkInv, VerdictOK, Registered
  <2>2. \A j \in DOMAIN mcf.book : mcf.book[j].fn = n => j = k
    <3>1. SUFFICES ASSUME NEW j \in DOMAIN mcf.book, mcf.book[j].fn = n, j # k
                   PROVE  FALSE
      OBVIOUS
    <3>2. j < k \/ k < j
      BY <1>1, <3>1
    <3>3. mcf.book[j].fn < mcf.book[k].fn \/ mcf.book[k].fn < mcf.book[j].fn
      BY <3>2 DEF LinkInv, BookOK
    <3>4. QED
      BY <2>1, <3>1, <3>3
  <2>3. mcf.book[k].lines = 2
    BY DEF LinkInv, BookOK
  <2>4. QED
    BY <2>1, <2>2, <2>3
<1>4. QED
  BY <1>2, <1>3

----
(* The frames in both directions are commands and answers of the protocol. *)
THEOREM LinkTypeCorrect ==
  ASSUME MaxTroubles < MaxSeq
  PROVE  Spec /\ PatientStart => []LinkTypeOK
  BY LinkAlways, TypesFollow, PTL

(* No line of an invoice is recorded twice or answered from the cache: between two commands the    *)
(* open invoice is ours and has the lines the gateway counts, whatever was lost, garbled, repeated *)
(* or late before.                                                                                 *)
THEOREM LinesAlwaysCounted ==
  ASSUME MaxTroubles < MaxSeq
  PROVE  Spec /\ PatientStart => []LinesCounted
  BY LinkAlways, LinesFollow, PTL

(* An invoice rejected for ERPNext is not registered and never will be, with whatever is still on *)
(* the wire; a normalized one is registered once, with its two lines.                             *)
THEOREM VerdictsAlwaysHold ==
  ASSUME MaxTroubles < MaxSeq
  PROVE  Spec /\ PatientStart => []VerdictsHold
  BY LinkAlways, VerdictsFollow, PTL

===============================================================================
