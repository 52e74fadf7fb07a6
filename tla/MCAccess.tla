------------------------------- MODULE MCAccess -------------------------------
EXTENDS Access, TLC

CONSTANTS s1, s2

\* Both stations on one shop, the second shop without station.
OneShop(g) == s1

Alike == Permutations(Devices) \cup Permutations(Gateways) \cup Permutations(Users) \cup Permutations(Keys)
================================================================================
