------------------------------ MODULE SerialLink ------------------------------
(***************************************************************************)
(* The serial link between a gateway and its MCF (dgi_gateway/device.py),   *)
(* frame by frame, under the commands fiscalize.py sends for an invoice:    *)
(* C1h, C0h, two identical 31h lines, 33h, 38h, and 38h C to cancel.        *)
(*                                                                         *)
(* The line may lose or garble a frame either way, the MCF may be slow, the *)
(* gateway may stop and open the port again with the first SEQ.  The MCF is *)
(* external: it executes the frames in the order of its input, answers NAK  *)
(* to a garbled one, and answers a repeated (SEQ, CMD) from its memory.     *)
(***************************************************************************)
EXTENDS Naturals, Sequences, SequencesExt

CONSTANTS
  MaxSeq,        \* the SEQ of a frame goes round 0..MaxSeq (SEQ_MIN..SEQ_MAX in the code)
  Retries,       \* MCFDevice.retries
  MaxInvoices,   \* bound: invoices to normalize, one after the other
  MaxTroubles    \* bound: frames lost or garbled, slow answers, P: answers, refusals, restarts

ASSUME LinkAssumption ==
  /\ MaxSeq \in Nat \ {0} /\ Retries \in Nat \ {0}
  /\ MaxInvoices \in Nat \ {0} /\ MaxTroubles \in Nat

VARIABLES
  inv,       \* invoice being normalized
  at,        \* command of fiscalize.py the gateway is at
  verdict,   \* outcome of each invoice for ERPNext
  seq,       \* _seq: SEQ of the last command
  call,      \* exchange in progress: command, SEQ and attempt
  wire,      \* frames written and not yet read by the MCF
  inbox,     \* what the MCF answered and the gateway has not read
  mcf,       \* last (SEQ, CMD) received and its answer; open invoice, its lines; invoices registered
  troubles

vars == <<inv, at, verdict, seq, call, wire, inbox, mcf, troubles>>

CommandAt ==
  [hello |-> "C1", prepare |-> "C1", clean |-> "C", open |-> "C0", line1 |-> "31", line2 |-> "31",
   sum |-> "33", final |-> "38", abandon |-> "C", giveup |-> "C", check |-> "C1", tidy |-> "C"]

Resting  == {"idle", "pause", "closed"}
Places   == DOMAIN CommandAt \cup Resting
Commands == {"C1", "C0", "31", "33", "38", "C"}
Code(c)  == IF c = "C" THEN "38" ELSE c      \* the cancellation is 38h with the data C

NoCall   == [cmd |-> "None", seq |-> 0, try |-> 0]
Silence  == [kind |-> "LinkError"]

Trouble   == troubles < MaxTroubles /\ troubles' = troubles + 1
NoTrouble == UNCHANGED troubles

----
(* transact *)

KeepsSeq(s) == s

NeverWraps(s) == s + 1

\* next_seq
NextSeq(s) == IF s = MaxSeq THEN 0 ELSE s + 1

\* Clears what was received so far and writes the frame, which may be lost or garbled.
Write(c, s) ==
  LET frame(ok) == [cmd |-> c, seq |-> s, fn |-> inv, ok |-> ok]
  IN  /\ inbox' = <<>>
      /\ \/ NoTrouble /\ wire' = Append(wire, frame(TRUE))
         \/ Trouble /\ wire' = Append(wire, frame(FALSE))
         \/ Trouble /\ UNCHANGED wire

\* A new command takes a new SEQ, whatever became of the one before.
Issue ==
  /\ call = NoCall /\ at \notin Resting
  /\ seq' = NextSeq(seq)
  /\ call' = [cmd |-> CommandAt[at], seq |-> seq', try |-> 1]
  /\ Write(CommandAt[at], seq')
  /\ UNCHANGED <<inv, at, verdict, mcf>>

RepeatsAsNew ==
  /\ call.try < Retries
  /\ seq' = NextSeq(seq)
  /\ call' = [call EXCEPT !.try = @ + 1, !.seq = seq']
  /\ Write(call.cmd, seq')
  /\ UNCHANGED <<inv, at, verdict>>

\* The same frame again, with the same SEQ.
Repeat ==
  /\ call.try < Retries
  /\ call' = [call EXCEPT !.try = @ + 1]
  /\ Write(call.cmd, call.seq)
  /\ UNCHANGED <<inv, at, verdict, seq>>

----
(* fiscalize.py: where an answer leads, Silence standing for LinkError *)

To(p)     == [at |-> p, verdict |-> "none"]
Ends(v)   == [at |-> "idle", verdict |-> v]
Refused(a) == a = Silence \/ a.kind = "E"

LeavesUncertain(a) ==
  IF a = Silence THEN Ends("none")
  ELSE IF a.last = inv THEN Ends("normalized") ELSE IF a.open THEN To("tidy") ELSE Ends("rejected")

\* check: the last invoice the MCF knows decides, an open one is cancelled.
AfterCheck(a) ==
  IF a = Silence THEN To("pause")
  ELSE IF a.last = inv THEN Ends("normalized") ELSE IF a.open THEN To("tidy") ELSE Ends("rejected")

\* The C1h that opens a port, the one of check_device before an execution, the one of check.
AfterStatus(a) ==
  {CASE at = "hello"   -> To(IF a = Silence THEN "closed" ELSE "check")
     [] at = "prepare" -> IF a = Silence THEN Ends("rejected")
                          ELSE IF a.last = inv THEN Ends("normalized")
                          ELSE To(IF a.open THEN "clean" ELSE "open")
     [] at = "check"   -> AfterCheck(a)}

AfterBuild(a) ==
  {IF Refused(a) THEN To("abandon")
   ELSE CASE at = "open" -> To("line1") [] at = "line1" -> To("line2") [] at = "line2" -> To("sum")
          [] at = "sum" -> IF a.lines = 2 THEN To("final") ELSE To("abandon")}

ForgetsAfterFinalize(a) ==
  IF a # Silence /\ a.kind = "R" THEN {Ends("normalized")} ELSE {To("abandon")}

\* 38h: P is asked again until pending_timeout; a link failure leads to C1h.
AfterFinalize(a) ==
  IF a = Silence THEN {To("check")}
  ELSE CASE a.kind = "E" -> {To("abandon")}
         [] a.kind = "P" -> {To("final"), To("giveup")}
         [] a.kind = "R" -> {IF a.last = inv THEN Ends("normalized") ELSE To("check")}

\* _cancel_quietly: best effort, except after a timeout of the DGI, where a failure leads to C1h.
AfterCancel(a) ==
  {CASE at = "clean" -> To("open")
     [] at = "giveup" -> IF a = Silence THEN To("check") ELSE Ends("rejected")
     [] at \in {"abandon", "tidy"} -> Ends("rejected")}

After(a) ==
  CASE call.cmd = "C1" -> AfterStatus(a)
    [] call.cmd \in {"C0", "31", "33"} -> AfterBuild(a)
    [] call.cmd = "38" -> AfterFinalize(a)
    [] call.cmd = "C" -> AfterCancel(a)

Returns(a) ==
  /\ \E r \in After(a) : at' = r.at /\ verdict' = [verdict EXCEPT ![inv] = r.verdict]
  /\ call' = NoCall
  /\ UNCHANGED <<inv, seq>>

GivesUp == call.try = Retries /\ Returns(Silence) /\ NoTrouble /\ UNCHANGED <<wire, inbox>>

MatchesAnything(a) == a.seq \in 0..MaxSeq

\* The answer of this exchange and of no other.
Matches(a) == a.seq = call.seq /\ a.cmd = Code(call.cmd)

\* The first thing received is the answer; a NAK, an invalid frame or the answer of another
\* exchange costs an attempt.
Receive ==
  /\ call # NoCall /\ inbox # <<>>
  /\ LET a == Head(inbox) IN
       IF a.kind \notin {"NAK", "invalid"} /\ Matches(a)
       THEN Returns(a) /\ inbox' = Tail(inbox) /\ NoTrouble /\ UNCHANGED wire
       ELSE Repeat \/ GivesUp
  /\ UNCHANGED mcf

\* Nothing came in time, because nothing was to come or because the MCF is slow (then the
\* repetition finds no further trouble on the line).
Timeout ==
  /\ call # NoCall /\ inbox = <<>>
  /\ IF wire = <<>> THEN Repeat \/ GivesUp
     ELSE /\ Trouble
          /\ \/ /\ call.try < Retries
                /\ call' = [call EXCEPT !.try = @ + 1]
                /\ wire' = Append(wire, [cmd |-> call.cmd, seq |-> call.seq, fn |-> inv, ok |-> TRUE])
                /\ UNCHANGED <<inv, at, verdict, seq>>
             \/ call.try = Retries /\ Returns(Silence) /\ UNCHANGED wire
          /\ UNCHANGED inbox
  /\ UNCHANGED mcf

\* The port itself fails, on a write or a read: LinkError at any attempt.
Breaks ==
  /\ call # NoCall /\ Trouble
  /\ Returns(Silence) /\ UNCHANGED <<wire, inbox, mcf>>

----
(* The MCF (external) *)

Plain(k) == [kind |-> k, last |-> 0, open |-> FALSE, lines |-> 0]
LastOf(book) == IF book = <<>> THEN 0 ELSE Last(book).fn

\* What a command does, and its answer.
Executed(f) ==
  LET none == mcf.open = 0
      keep(a) == [mcf EXCEPT !.answer = a]
      registers == Append(mcf.book, [fn |-> mcf.open, lines |-> mcf.lines])
  IN  CASE f.cmd = "C1" -> {keep([Plain("S") EXCEPT !.last = LastOf(mcf.book), !.open = ~none])}
        [] f.cmd = "C0" -> {IF none THEN [mcf EXCEPT !.answer = Plain("R"), !.open = f.fn, !.lines = 0]
                            ELSE keep(Plain("E"))}
        [] f.cmd = "31" -> {IF none THEN keep(Plain("E"))
                            ELSE [mcf EXCEPT !.answer = Plain("R"), !.lines = @ + 1]}
        [] f.cmd = "33" -> {IF none THEN keep(Plain("E")) ELSE keep([Plain("S") EXCEPT !.lines = mcf.lines])}
        [] f.cmd = "38" -> IF none THEN {keep(Plain("E"))}
                           ELSE {[mcf EXCEPT !.answer = [Plain("R") EXCEPT !.last = mcf.open],
                                             !.open = 0, !.lines = 0, !.book = registers]}
        [] f.cmd = "C"  -> {[mcf EXCEPT !.answer = Plain("E"), !.open = 0, !.lines = 0]}

\* 38h refused, or the DGI is not reached yet.
Hesitated(f) ==
  IF f.cmd = "38" /\ mcf.open # 0 THEN {[mcf EXCEPT !.answer = Plain(k)] : k \in {"E", "P"}} ELSE {}

Reply(s, c, a) == [kind |-> a.kind, seq |-> s, cmd |-> c, last |-> a.last, open |-> a.open, lines |-> a.lines]

\* The reply goes into the input buffer of the port, is garbled, or is lost.
Emit(r) ==
  \/ NoTrouble /\ inbox' = Append(inbox, r)
  \/ Trouble /\ inbox' = Append(inbox, [r EXCEPT !.kind = "invalid"])
  \/ Trouble /\ UNCHANGED inbox

McfReads ==
  /\ wire # <<>>
  /\ LET f == Head(wire) IN
       \/ /\ ~f.ok
          /\ NoTrouble /\ inbox' = Append(inbox, Reply(f.seq, Code(f.cmd), Plain("NAK")))
          /\ UNCHANGED mcf
       \/ /\ f.ok /\ mcf.last = <<f.seq, Code(f.cmd)>>
          /\ Emit(Reply(f.seq, Code(f.cmd), mcf.answer))
          /\ UNCHANGED mcf
       \/ /\ f.ok /\ mcf.last # <<f.seq, Code(f.cmd)>>
          /\ \/ \E m \in Executed(f) : mcf' = [m EXCEPT !.last = <<f.seq, Code(f.cmd)>>]
                                        /\ Emit(Reply(f.seq, Code(f.cmd), m.answer))
             \/ \E m \in Hesitated(f) : /\ mcf' = [m EXCEPT !.last = <<f.seq, Code(f.cmd)>>]
                                        /\ Trouble
                                        /\ inbox' = Append(inbox, Reply(f.seq, Code(f.cmd), m.answer))
  /\ wire' = Tail(wire)
  /\ UNCHANGED <<inv, at, verdict, seq, call>>

----
\* The next invoice, only once the former one has its verdict.
Start ==
  /\ at = "idle" /\ inv < MaxInvoices
  /\ inv' = inv + 1 /\ at' = "prepare"
  /\ UNCHANGED <<verdict, seq, call, wire, inbox, mcf, troubles>>

\* run_once: the seconds of pause after an unreadable MCF, in which it answers what it still has
\* to answer; the port may be opened again.
Wake ==
  /\ at \in {"pause", "closed"} /\ wire = <<>>
  /\ \/ at = "pause" /\ at' = "check" /\ UNCHANGED seq
     \/ at' = "hello" /\ seq' = 0
  /\ UNCHANGED <<inv, verdict, call, wire, inbox, mcf, troubles>>

\* The gateway stops and opens the port again: C1h with the first SEQ, then the interrupted
\* invoice is checked.
Restart ==
  /\ at # "idle" /\ Trouble
  /\ at' = "hello" /\ seq' = 0 /\ call' = NoCall
  /\ UNCHANGED <<inv, verdict, wire, inbox, mcf>>

Init ==
  /\ inv = 1 /\ at = "prepare" /\ verdict = [n \in 1..MaxInvoices |-> "none"]
  /\ seq = 0 /\ call = NoCall /\ wire = <<>> /\ inbox = <<>>
  /\ mcf = [last |-> <<0, "None">>, answer |-> Plain("NAK"), open |-> 0, lines |-> 0, book |-> <<>>]
  /\ troubles = 0

Gateway == Issue \/ Receive \/ Timeout \/ Wake \/ Start

\* All invoices settled: nothing left to do.
Finished == at = "idle" /\ inv = MaxInvoices /\ wire = <<>> /\ UNCHANGED vars

Next == Gateway \/ McfReads \/ Breaks \/ Restart \/ Finished

\* The loop of the gateway and the MCF go on.
Spec == Init /\ [][Next]_vars /\ WF_vars(Gateway) /\ WF_vars(McfReads)

----
Answers == [kind : {"R", "E", "P", "S", "NAK"}, last : 0..MaxInvoices, open : BOOLEAN, lines : 0..2]
Replies == [kind : {"R", "E", "P", "S", "NAK", "invalid"}, seq : 0..MaxSeq, cmd : Commands,
            last : 0..MaxInvoices, open : BOOLEAN, lines : 0..2]

\* The frames in both directions are commands and answers of the protocol.
LinkTypeOK ==
  /\ inv \in 1..MaxInvoices /\ at \in Places /\ seq \in 0..MaxSeq
  /\ verdict \in [1..MaxInvoices -> {"none", "normalized", "rejected"}]
  /\ call \in [cmd : Commands, seq : 0..MaxSeq, try : 1..Retries] \cup {NoCall}
  /\ \A k \in DOMAIN wire : wire[k] \in [cmd : Commands, seq : 0..MaxSeq, fn : 1..MaxInvoices, ok : BOOLEAN]
  /\ \A k \in DOMAIN inbox : inbox[k] \in Replies
  /\ mcf.answer \in Answers /\ mcf.open \in 0..MaxInvoices /\ mcf.lines \in 0..2

\* device.py: "otherwise two identical 31h lines would be answered from the cache without being
\* recorded": between two commands the open invoice is ours and has the lines the gateway counts,
\* over lost, garbled, repeated and late frames.
LinesCounted ==
  call = NoCall =>
    /\ at = "line2" => mcf.open = inv /\ mcf.lines = 1
    /\ at \in {"sum", "final"} => mcf.open = inv /\ mcf.lines = 2

\* fiscalize.py: "rejected: the invoice is CERTAINLY not normalized", now or later, with whatever
\* is still on the wire; a normalized one is registered once, complete.
VerdictsHold ==
  \A n \in 1..MaxInvoices :
    LET own == {k \in DOMAIN mcf.book : mcf.book[k].fn = n}
    IN  /\ verdict[n] = "rejected" => own = {}
        /\ verdict[n] = "normalized" => \E k \in own : own = {k} /\ mcf.book[k].lines = 2

\* Every exchange ends, with an answer or a LinkError, and every invoice gets its verdict.
EveryInvoiceSettled == \A n \in 1..MaxInvoices : <>(verdict[n] # "none")
===============================================================================
