------------------------------- MODULE MCClients -------------------------------
(* Two clients, the second without a phone; an appointment of the first and  *)
(* one that knows only the phone of nobody yet.                              *)
EXTENDS Clients

CONSTANTS p, q  \* two phones

MCIds == 1 .. 6
MCRows == 1 .. 6
MCKnown == <<p, None>>
MCBooked == <<[phone |-> p, client |-> 1], [phone |-> q, client |-> None]>>
================================================================================
