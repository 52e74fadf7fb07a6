------------------------------ MODULE MCMcfChain ------------------------------
(* McfChain on one MCF and the gateways that succeed each other on it, for TLC. *)
EXTENDS McfChain

AllGatewaysOn == [g \in Gateways |-> CHOOSE d \in Devices : TRUE]
AllInvoicesOn == [i \in Invoices |-> CHOOSE d \in Devices : TRUE]
===============================================================================
