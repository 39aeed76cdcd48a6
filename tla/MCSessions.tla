------------------------------ MODULE MCSessions ------------------------------
(* Three messages of one task, for the claim about resumed sessions. *)
EXTENDS SessionsClaims

CONSTANTS first, second, third
ThreeMessages == <<first, second, third>>
=============================================================================
