---------------------------- MODULE Normalization ----------------------------
(***************************************************************************)
(* What a channel promises, whichever it is: the tax authority registers an *)
(* invoice once, with a security code of its own, and this code ends on the *)
(* invoice.  McfChain and Channels implement it.                            *)
(***************************************************************************)
EXTENDS Naturals

CONSTANTS Invoices, Codes, None

VARIABLES
  issued,   \* the codes the tax authority issued for each invoice
  stamp     \* the code the invoice carries in ERPNext

Init ==
  /\ issued = [i \in Invoices |-> {}]
  /\ stamp = [i \in Invoices |-> None]

Register(i, c) ==
  /\ issued[i] = {} /\ \A j \in Invoices : c \notin issued[j]
  /\ issued' = [issued EXCEPT ![i] = {c}]
  /\ UNCHANGED stamp

Stamp(i) ==
  /\ stamp[i] = None
  /\ \E c \in issued[i] : stamp' = [stamp EXCEPT ![i] = c]
  /\ UNCHANGED issued

Next == \E i \in Invoices : Stamp(i) \/ \E c \in Codes : Register(i, c)

Safe == Init /\ [][Next]_<<issued, stamp>>
Spec == Safe /\ \A i \in Invoices : WF_<<issued, stamp>>(Stamp(i))
==============================================================================
