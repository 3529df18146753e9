------------------------------ MODULE Numbers ------------------------------
(***************************************************************************)
(* Powers of ten, for the digits of the decimals in a payload and of the   *)
(* numbers in an answer of the metrics server.                             *)
(***************************************************************************)
EXTENDS Integers

TenTo[k \in Nat] == IF k = 0 THEN 1 ELSE 10 * TenTo[k - 1]
=============================================================================
