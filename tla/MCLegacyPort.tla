---------------------------- MODULE MCLegacyPort -----------------------------
(***************************************************************************)
(* Addresses of which either end may have the lower one.                   *)
(***************************************************************************)
EXTENDS LegacyPort

MCAddressOf == [e \in {"a", "b"} |-> IF e = "a" THEN {1, 4} ELSE {2, 3}]
=============================================================================
