------------------------------- MODULE MCReports -------------------------------
(* A sale and a credit note, of different amounts. *)
EXTENDS Reports

MCType(i)   == IF i = 1 THEN "FV" ELSE "FA"
MCAmount(i) == 2 * i + 1
MCAsked     == {<<0, 3>>, <<2, 5>>, <<3, 1>>}
================================================================================
