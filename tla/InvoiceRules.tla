------------------------------ MODULE InvoiceRules ------------------------------
(***************************************************************************)
(* What a Sales Invoice must be to be saved (edef/matrix.py), the request   *)
(* built from it (edef/mapper.py), and what the MCF channel then accepts    *)
(* (fiscal/mcf_payload.py, dgi_gateway/protocol.py).                        *)
(*                                                                         *)
(* d, the invoice: explicit (its DGI type, "" when derived), return,        *)
(* export, nature, linked ("no", "coded", "uncoded": the original and       *)
(* whether it has its Code DEF/DGI), reference ("", "code" the original's,  *)
(* "other" 24 characters, "RRR", "short"), sameItems and samePrices as the  *)
(* original's, nil (an amount is), item (its type), template, taxes (does   *)
(* the invoice carry any), client (its DGI type), customer (the one of the  *)
(* Customer), native, card (the fields filled in), commentA, currency, pay, *)
(* override, mayOverride.                                                  *)
(* s, the settings: enabled, mode, defaultType, defaultGroup, groupMap      *)
(* (rows by priority), rules (rows of the matrices), clientMap, required    *)
(* (card fields by client type), currencies, currencyMode, creditPolicy,    *)
(* creditLetter.                                                           *)
(***************************************************************************)
EXTENDS Naturals, Sequences, SequencesExt, FiniteSets

CreditTypes == {"FA", "EA"}
ExportTypes == {"EV", "ET", "EA"}
SaleTypes   == {"FV", "FT", "EV", "ET"}
Natures     == {"COR", "RAN", "RAM", "RRR"}
ClientTypes == {"PP", "PM", "PC", "PL", "AO"}

InvoiceType(d, s) ==
  CASE d.explicit # ""               -> d.explicit
    [] d.explicit = "" /\ d.return   -> IF d.export THEN "EA" ELSE "FA"
    [] d.explicit = "" /\ ~d.return  -> IF d.export THEN "EV" ELSE s.defaultType

\* default_dgi_type_for_customer_type: the row marked default, else the only one.
DefaultClient(native, s) ==
  LET rows == {r \in s.clientMap : r.native = native}
      marked == {r \in rows : r.default}
  IN  IF marked # {} THEN (CHOOSE r \in marked : TRUE).type
      ELSE IF Cardinality(rows) = 1 THEN (CHOOSE r \in rows : TRUE).type ELSE ""
\* resolve_customer_dgi_type: the invoice's, else the Customer's, else from its native type.
ClientType(d, s) ==
  IF d.client # "" THEN d.client ELSE IF d.customer # "" THEN d.customer ELSE DefaultClient(d.native, s)

\* tax_group_for_invoice: the first row that matches the template of the line or of the
\* invoice; the default group when the invoice has no tax at all.
MappedGroup(d, s) ==
  LET rows == SelectSeq(s.groupMap, LAMBDA r : r.template = d.template)
  IN  IF rows # <<>> THEN rows[1].group
      ELSE IF d.template = "" /\ ~d.taxes THEN s.defaultGroup ELSE ""
TaxGroup(d, s) == IF MappedGroup(d, s) = "" THEN s.defaultGroup ELSE MappedGroup(d, s)

----
(* The matrices.                                                           *)

Violation(matrix, enforcement) == [matrix |-> matrix, enforcement |-> enforcement, hard |-> FALSE]
Hard(matrix) == [matrix |-> matrix, enforcement |-> "Block", hard |-> TRUE]
When(cond, v) == IF cond THEN {v} ELSE {}

\* _best_rule: the highest priority, then the most dimensions given, then the table order.
Beats(q, r) == q.priority > r.priority \/ (q.priority = r.priority /\ q.given > r.given)
BestRules(matrix, x, y, s) ==
  LET fits == SelectSeq(s.rules, LAMBDA r : r.matrix = matrix /\ r.x \in {"Any", x} /\ r.y \in {"Any", y})
  IN  SelectSeq(fits, LAMBDA r : \A k \in DOMAIN fits : ~Beats(fits[k], r))

\* _decide
Decided(matrix, x, y, s) ==
  LET best == BestRules(matrix, x, y, s)
  IN  IF best = <<>> \/ best[1].status = "Allow" THEN {} ELSE {Violation(matrix, best[1].enforcement)}

LineViolations(d, s) ==
  Decided("D", d.item, TaxGroup(d, s), s) \cup Decided("E", InvoiceType(d, s), d.item, s)
  \cup (IF d.nature = "" THEN {} ELSE Decided("F", d.nature, d.item, s))

\* evaluate_invoice_type_context
ContextViolations(d, s) ==
  LET t == InvoiceType(d, s)  v == Violation("type", "Block")
  IN  When(d.return /\ t \notin CreditTypes, v)
      \cup When(t \in CreditTypes /\ d.linked = "no" /\ d.reference = "" /\ d.nature # "RRR", v)
      \cup When(d.nature # "" /\ t \notin CreditTypes, v)
      \cup When(d.export /\ t \notin ExportTypes, v)

ClientViolations(d, s) ==
  LET c == ClientType(d, s)
      allowed == {r.type : r \in {q \in s.clientMap : q.native = d.native}}
  IN  When(c \in DOMAIN s.required /\ ~(s.required[c] \subseteq d.card), Violation("B", "Block"))
      \cup When(allowed # {} /\ c \notin allowed, Violation("G", "Block"))

\* evaluate_line_amounts, evaluate_exemption_reference
AmountViolations(d) == When(d.nil, Hard("Montants"))
ExemptionViolations(d, s) ==
  When(~d.commentA /\ (ClientType(d, s) = "AO" \/ TaxGroup(d, s) = "D"), Hard("Exoneration"))

TrustsLink(d, s) ==
  IF InvoiceType(d, s) \notin CreditTypes THEN {}
  ELSE When(d.nature \notin Natures
            \/ (d.linked = "no" /\ d.nature # "RRR" /\ d.reference \notin {"code", "other"}), Hard("Avoir"))

\* evaluate_credit_note
CreditViolations(d, s) ==
  IF InvoiceType(d, s) \notin CreditTypes THEN {}
  ELSE When(\/ d.nature \notin Natures
            \/ d.linked = "uncoded"
            \/ d.linked = "coded" /\ d.reference \notin {"", "code"}
            \/ d.linked # "no" /\ d.nature \in {"RAN", "RAM"} /\ ~(d.sameItems /\ d.samePrices)
            \/ d.linked = "no" /\ d.nature # "RRR" /\ d.reference \notin {"code", "other"}, Hard("Avoir"))

Legal(d, s) == AmountViolations(d) \cup ExemptionViolations(d, s) \cup CreditViolations(d, s)
Collected(d, s) ==
  Legal(d, s) \cup ContextViolations(d, s) \cup LineViolations(d, s) \cup ClientViolations(d, s)

Overridden(d) == d.override /\ d.mayOverride

\* validate_sales_invoice: legal controls cannot be overridden.
Saved(d, s) ==
  LET all == IF s.mode = "Off" THEN Legal(d, s) ELSE Collected(d, s)
  IN  ~s.enabled \/ /\ ~\E v \in all : v.hard
                    /\ (\E v \in all : v.enforcement = "Block") => s.mode = "Warn only" \/ Overridden(d)

\* validate_currency, currency_rule_for: an exact invoice type wins over "Any".
CurrencyRules(d, s) ==
  LET fits == {r \in s.currencies : r.currency = d.currency /\ r.type \in {"Any", InvoiceType(d, s)}}
  IN  IF \E r \in fits : r.type # "Any" THEN {r \in fits : r.type # "Any"} ELSE fits
CurrencyPasses(d, s) ==
  \/ ~s.enabled \/ s.currencyMode \in {"Off", "Warn only"} \/ s.currencies = {} \/ Overridden(d)
  \/ CurrencyRules(d, s) # {} /\ \A r \in CurrencyRules(d, s) : r.allowed

----
(* The request, and the message to the gateway.                            *)

\* credit_reference
Reference(d) ==
  CASE d.linked = "coded"   -> "code"
    [] d.linked = "uncoded" -> ""
    [] d.linked = "no" /\ d.nature = "RRR" -> "RRR"
    [] d.linked = "no" /\ d.nature # "RRR" -> d.reference

Request(d, s) ==
  [type |-> InvoiceType(d, s), group |-> MappedGroup(d, s), client |-> ClientType(d, s),
   reference |-> Reference(d), nature |-> d.nature, pay |-> d.pay, currency |-> d.currency]

\* build_invoice_request and validate_invoice_request, what depends on these fields.
RequestRefused(r) ==
  \/ r.group = "" \/ r.client \notin ClientTypes \cup {""}
  \/ r.type \notin CreditTypes \cup SaleTypes
  \/ r.type \in CreditTypes /\ (r.reference \notin {"code", "other", "RRR"} \/ r.nature \notin Natures)

PaymentLetters ==
  [ESPECES |-> "E", VIREMENT |-> "V", CARTEBANCAIRE |-> "C", MOBILEMONEY |-> "M", CHEQUES |-> "D", AUTRE |-> "A"]

\* credit_letter: "" when the credit sale is refused.
Letter(pay, s) ==
  CASE pay # "CREDIT" -> PaymentLetters[pay]
    [] pay = "CREDIT" /\ s.creditPolicy = "A" -> "A"
    [] pay = "CREDIT" /\ s.creditPolicy = "letter" -> s.creditLetter
    [] pay = "CREDIT" /\ s.creditPolicy = "off" -> ""

\* build_mcf_invoice; known: the groups the MCF announced, {} when unknown.
PayloadRefused(r, s, known) ==
  \/ RequestRefused(r) \/ r.currency \notin {"CDF", "USD"}
  \/ known # {} /\ r.group \notin known
  \/ Letter(r.pay, s) = ""

\* The commands of the invoice (client_data, open_invoice_data, item_data, payment_data).
CommandRefused(r, s) ==
  \/ r.client \notin ClientTypes \cup {""}
  \/ r.type \notin CreditTypes \cup SaleTypes
  \/ r.type \in CreditTypes /\ (r.nature \notin Natures \/ (r.nature # "RRR" /\ r.reference \notin {"code", "other"}))
  \/ Letter(r.pay, s) = ""

----
(* Invoices and settings to evaluate them on.                              *)

BaseInvoice ==
  [explicit |-> "", return |-> FALSE, export |-> FALSE, nature |-> "", linked |-> "no", reference |-> "",
   sameItems |-> TRUE, samePrices |-> TRUE, nil |-> FALSE, item |-> "BIE", template |-> "T1",
   taxes |-> TRUE, client |-> "", customer |-> "", native |-> "Individual", card |-> {}, commentA |-> TRUE,
   currency |-> "CDF", pay |-> "ESPECES", override |-> FALSE, mayOverride |-> TRUE]

Rule(x, y, status, priority, given) ==
  [matrix |-> "D", x |-> x, y |-> y, status |-> status, enforcement |-> "Block",
   priority |-> priority, given |-> given]

BaseSettings ==
  [enabled |-> TRUE, mode |-> "Enforce", defaultType |-> "FV", defaultGroup |-> "B",
   groupMap |-> <<[template |-> "T1", group |-> "A"], [template |-> "T2", group |-> "D"],
                  [template |-> "T2", group |-> "B"]>>,
   rules |-> <<Rule("SER", "Any", "Allow", 0, 1), Rule("SER", "D", "Deny", 0, 2), Rule("SER", "A", "Deny", 0, 2),
               Rule("SER", "A", "Allow", 1, 2)>>,
   clientMap |-> {[native |-> "Individual", type |-> "PP", default |-> TRUE],
                  [native |-> "Individual", type |-> "AO", default |-> FALSE],
                  [native |-> "Company", type |-> "PM", default |-> FALSE]},
   required |-> [PM |-> {"nif"}, PP |-> {}],
   currencies |-> {[currency |-> "CDF", type |-> "Any", allowed |-> TRUE],
                   [currency |-> "USD", type |-> "Any", allowed |-> TRUE],
                   [currency |-> "USD", type |-> "FT", allowed |-> FALSE]},
   currencyMode |-> "Enforce", creditPolicy |-> "A", creditLetter |-> "D"]

OrEmpty(S) == S \cup {""}

\* Returns and credit notes, under each mode.
Returned(t, ret, n, l, r, i, o) ==
  [BaseInvoice EXCEPT !.explicit = t, !.return = ret, !.nature = n, !.linked = l,
                      !.reference = r, !.sameItems = i, !.override = o]
ControlModes == {"Off", "Warn only", "Enforce"}
Controlled(m) == [BaseSettings EXCEPT !.mode = m]
CreditProbes ==
  {[kind |-> "rules", settings |-> Controlled(m), invoice |-> Returned(t, ret, n, l, r, i, o)] :
     m \in ControlModes, t \in OrEmpty({"FV", "EA"}), ret \in BOOLEAN,
     n \in OrEmpty({"COR", "RAN", "RRR"}), l \in {"no", "coded", "uncoded"},
     r \in OrEmpty({"code", "other", "RRR", "short"}), i \in BOOLEAN, o \in BOOLEAN}

\* Sales: groups, clients, exemption, currencies and credit.
Sold(t, i, g, n, c, k, a, cur, p) ==
  [BaseInvoice EXCEPT !.explicit = t, !.item = i, !.template = g, !.taxes = g = "T2",
                      !.native = n, !.client = c, !.customer = k, !.commentA = a, !.currency = cur, !.pay = p]
Governed(m, cp) == [BaseSettings EXCEPT !.mode = m, !.creditPolicy = cp]
SaleProbes ==
  {[kind |-> "rules", settings |-> Governed(m, cp), invoice |-> Sold(t, i, g, n, c, k, a, cur, p)] :
     m \in {"Off", "Enforce"}, cp \in {"A", "letter", "off"}, t \in {"FV", "FT"}, i \in {"BIE", "SER"},
     g \in OrEmpty({"T1", "T2"}), n \in {"Individual", "Company"}, c \in OrEmpty({"AO", "PM"}),
     k \in OrEmpty({"AO"}), a \in BOOLEAN, cur \in {"CDF", "USD", "EUR"}, p \in {"CHEQUES", "CREDIT"}}

\* An invoice saved under the controls can be declared: a credit note always has its
\* nature and a reference both the e-MCF and the MCF accept, whatever the mode and the
\* override; what the message to the gateway accepts, no command of it refuses; an
\* exempted sale carries its reference; under Enforce, a return is a credit note.
SavedIsExpressible(d, s) ==
  LET r == Request(d, s)
  IN  s.enabled /\ Saved(d, s) /\ CurrencyPasses(d, s) =>
      /\ r.type \in CreditTypes /\ r.group # "" => ~RequestRefused(r)
      /\ \A known \in {{}, {"A", "B"}} : ~PayloadRefused(r, s, known) => ~CommandRefused(r, s)
      /\ r.group = "D" \/ r.client = "AO" => d.commentA
      /\ s.mode = "Enforce" /\ ~Overridden(d) /\ d.return => r.type \in CreditTypes
================================================================================
