-------------------------------- MODULE Floats --------------------------------
(***************************************************************************)
(* Integers as f64s.  Those up to ExactInt are exact; beyond it, each time *)
(* the magnitude doubles an f64 steps over twice as many.                  *)
(***************************************************************************)
EXTENDS Integers

CONSTANT ExactInt   \* 2^53

ASSUME ExactAssumption == ExactInt \in Nat

(* The integer nearest to a / b, of two the even one.                      *)
Nearest(a, b) ==
  IF 2 * (a % b) < b \/ (2 * (a % b) = b /\ (a \div b) % 2 = 0) THEN a \div b ELSE a \div b + 1

(* The distance of the f64s about x.  (It grows beyond 8 * ExactInt, where *)
(* the model's integers do not go.)                                        *)
Spacing(x) ==
  CASE x \in -ExactInt..ExactInt -> 1
    [] x \in -2 * ExactInt..2 * ExactInt -> 2
    [] x \in -4 * ExactInt..4 * ExactInt -> 4
    [] OTHER -> 8

(* An integer there and back through an f64.                               *)
AsF64(x) == Nearest(x, Spacing(x)) * Spacing(x)
===============================================================================
