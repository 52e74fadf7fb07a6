-------------------------- MODULE MCFiscalOperations --------------------------
(* FiscalOperations on one MCF shared by all gateways, for TLC. *)
EXTENDS FiscalOperations, TLC

AllGatewaysOn == [g \in Gateways |-> CHOOSE d \in Devices : TRUE]
AllInvoicesOn == [i \in Invoices |-> CHOOSE d \in Devices : TRUE]

Alike == Permutations(Invoices) \cup Permutations(Gateways) \cup Permutations(Sigs)
===============================================================================
