-------------------------------- MODULE Frames --------------------------------
(***************************************************************************)
(* The MCF-SFE protocol as the gateway encodes and reads it                *)
(* (dgi_gateway/protocol.py): the frames, byte by byte, and the answers by  *)
(* fields.  A frame is a sequence of numbers 0..255; a field is its place   *)
(* in the answer, since only where it is read matters.                      *)
(***************************************************************************)
EXTENDS Integers, Sequences, SequencesExt, FiniteSets

SOH == 1   ETX == 3   BRK == 4   AMB == 5
StaLen == 6
MaxData == 200
Refused == [error |-> "ProtocolError"]

Sum16(core) == FoldSeq(+, 0, core) % 65536

\* bcc16: the sum in four bytes 30h..3Fh, one per hexadecimal digit.
BCC16(core) == [k \in 1..4 |-> 48 + ((Sum16(core) \div <<4096, 256, 16, 1>>[k]) % 16)]

Wrapped(core) == <<SOH>> \o core \o BCC16(core) \o <<ETX>>

BuildFrame(seq, cmd, data) ==
  IF seq \notin 32..255 \/ cmd \notin 0..255 \/ Len(data) > MaxData THEN Refused
  ELSE Wrapped(<<36 + Len(data), seq, cmd>> \o data \o <<AMB>>)

Core(frame)     == SubSeq(frame, 2, Len(frame) - 5)
Received(frame) == SubSeq(frame, Len(frame) - 4, Len(frame) - 1)

TrustsSum(frame) == Len(Core(frame)) > 0
SumsUp(frame)    == BCC16(Core(frame)) = Received(frame)
Delimited(frame) == Head(frame) = SOH /\ Last(frame) = ETX

ParseCommandFrame(frame) ==
  IF Len(frame) >= 10 /\ Delimited(frame) /\ SumsUp(frame) /\ Last(Core(frame)) = AMB
  THEN LET c == Core(frame) IN [seq |-> c[2], cmd |-> c[3], data |-> SubSeq(c, 4, Len(c) - 1)]
  ELSE Refused

\* parse_response_frame: LEN is the length of the core modulo 256; BRK separates the
\* data from the six status bytes.
ParseResponseFrame(frame) ==
  LET c   == Core(frame)
      brk == Len(c) - 1 - StaLen
  IN  IF /\ Len(frame) >= 10 + StaLen + 1 /\ Delimited(frame) /\ SumsUp(frame)
         /\ (Len(c) + 32) % 256 = c[1] /\ Last(c) = AMB /\ brk >= 4 /\ c[brk] = BRK
      THEN [seq |-> c[2], cmd |-> c[3], data |-> SubSeq(c, 4, brk - 1),
            sta |-> SubSeq(c, brk + 1, brk + StaLen)]
      ELSE Refused

\* The MCF's answer (external).
AnswerFrame(seq, cmd, data, sta) ==
  LET body == <<seq, cmd>> \o data \o <<BRK>> \o sta \o <<AMB>>
  IN  Wrapped(<<(Len(body) + 33) % 256>> \o body)

----
\* Status bytes (annexe): the bits the gateway names.
StatusBits ==
  {<<0, 2>>, <<0, 1>>, <<0, 0>>, <<1, 4>>, <<1, 2>>, <<1, 1>>, <<1, 0>>, <<2, 3>>,
   <<4, 4>>, <<4, 3>>, <<4, 2>>, <<4, 0>>}
Bit(byte, b) == (byte \div 2^b) % 2 = 1
StatusFlags(sta) == {f \in StatusBits : f[1] < Len(sta) /\ Bit(sta[f[1] + 1], f[2])}
InvoiceOpen(sta) == Len(sta) > 2 /\ Bit(sta[3], 3)

----
\* 33h: MV, one total and one VAT per group, the specific tax, then the currency total;
\* the ELTRADE devices add the VAT total (MT) in second place.
Layouts == {[name |-> "spec", base |-> 1, extra |-> 3], [name |-> "eltrade", base |-> 2, extra |-> 4]}

SubtotalLayout(n, known) ==
  LET fit == {l \in Layouts : (n - l.extra) % 2 = 0 /\ (n - l.extra) \div 2 \in 16..26}
      Groups(l) == (n - l.extra) \div 2
      agree == {l \in fit : Groups(l) = known}
      l == IF agree # {} THEN CHOOSE x \in agree : TRUE ELSE CHOOSE x \in fit : TRUE
  IN  IF fit = {} THEN Refused ELSE [base |-> l.base, groups |-> Groups(l), mt |-> l.name = "eltrade"]

ParseSubtotal(fields, known) ==
  LET l == SubtotalLayout(Len(fields), known)
      At(i) == fields[i + 1]
  IN  IF l = Refused THEN Refused
      ELSE [mv |-> At(0), mt |-> IF l.mt THEN At(1) ELSE "sum",
            total |-> [i \in 1..l.groups |-> At(l.base + i - 1)],
            vat |-> [i \in 1..l.groups |-> At(l.base + l.groups + i - 1)],
            mts |-> At(l.base + 2 * l.groups), mcur |-> At(l.base + 2 * l.groups + 1)]

\* 38h: eight fields, of which the last two are FN and SIG, or SIG and FN.  A value is
\* known by what it is and by whether it has the format of a SIG (24 capitals or digits);
\* "expected" holds the number of the invoice, when known.
ParseNormalized(a, b, expected) ==
  IF a \in expected THEN [fn |-> a, sig |-> b]
  ELSE IF b \in expected THEN [fn |-> b, sig |-> a]
  ELSE IF a.looksLikeSig /\ ~b.looksLikeSig THEN [fn |-> b, sig |-> a]
  ELSE [fn |-> a, sig |-> b]

----
(* What a reader of the protocol relies on.                                *)

FrameProbes ==
  [kind : {"frame"}, seq : {32, 255}, data : BoundedSeq({65, 255}, 2), at : 1..20, byte : {0, 1, 3, 4, 5, 48, 63, 65, 66, 255}]
StatusProbes == [kind : {"status"}, byte : 0..255]
SubtotalProbes == [kind : {"subtotal"}, groups : 16..26, eltrade : BOOLEAN, known : {0} \cup 16..26]
Names == [what : {"fn"}, looksLikeSig : BOOLEAN]
NormalizedProbes == [kind : {"normalized"}, fn : Names, swapped : BOOLEAN, expected : BOOLEAN]

\* The fields of a 33h answer in the order the device sends them (external).
Subtotal(g, eltrade) ==
  <<"mv">> \o (IF eltrade THEN <<"mt">> ELSE <<>>) \o [i \in 1..g |-> <<"total", i>>]
  \o [i \in 1..g |-> <<"vat", i>>] \o <<"mts", "mcur">>

\* A frame is read back as it was built, and one wrong byte in it is always refused.
FrameRead(p) ==
  LET command == BuildFrame(p.seq, 49, p.data)
      answer  == AnswerFrame(p.seq, 49, p.data, <<128, 128, 136, 128, 128, 128>>)
      Wrong(f) == [f EXCEPT ![p.at] = p.byte]
      Spoilt(f) == p.at <= Len(f) /\ f[p.at] # p.byte
  IN  /\ ParseCommandFrame(command) = [seq |-> p.seq, cmd |-> 49, data |-> p.data]
      /\ ParseResponseFrame(answer)
           = [seq |-> p.seq, cmd |-> 49, data |-> p.data, sta |-> <<128, 128, 136, 128, 128, 128>>]
      /\ Spoilt(command) => ParseCommandFrame(Wrong(command)) = Refused
      /\ Spoilt(answer) => ParseResponseFrame(Wrong(answer)) = Refused

\* An invoice left open is seen the same way by the driver and in the reported flags.
StatusRead(p) ==
  LET sta == <<128, 128, p.byte, 128, 128, 128>>
  IN  InvoiceOpen(sta) <=> <<2, 3>> \in StatusFlags(sta)

\* Every figure of a subtotal is read in its place, for any number of groups, either
\* layout, and whatever number of groups the last status announced.
SubtotalRead(p) ==
  LET s == ParseSubtotal(Subtotal(p.groups, p.eltrade), p.known)
  IN  s = [mv |-> "mv", mt |-> IF p.eltrade THEN "mt" ELSE "sum",
           total |-> [i \in 1..p.groups |-> <<"total", i>>],
           vat |-> [i \in 1..p.groups |-> <<"vat", i>>], mts |-> "mts", mcur |-> "mcur"]

\* The number and the signature are told apart in either order, given the number asked
\* for, or when the number does not look like a signature.
NormalizedRead(p) ==
  LET sig == [what |-> "sig", looksLikeSig |-> TRUE]
      got == ParseNormalized(IF p.swapped THEN sig ELSE p.fn, IF p.swapped THEN p.fn ELSE sig,
                             IF p.expected THEN {p.fn} ELSE {})
  IN  p.expected \/ ~p.fn.looksLikeSig => got = [fn |-> p.fn, sig |-> sig]

FramesRead(p) ==
  CASE p.kind = "frame" -> FrameRead(p)
    [] p.kind = "status" -> StatusRead(p)
    [] p.kind = "subtotal" -> SubtotalRead(p)
    [] p.kind = "normalized" -> NormalizedRead(p)
    [] OTHER -> TRUE
================================================================================
