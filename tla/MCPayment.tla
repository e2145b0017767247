------------------------------ MODULE MCPayment ------------------------------
(* Instances of Payment for TLC: two methods with the hook of their own,    *)
(* one amount below the minimum, two Creem products.                        *)
EXTENDS Payment

CONSTANTS large, small, stripe, waffo

OneEach == [m \in {stripe, waffo} |-> IF m = waffo THEN "waffo" ELSE "regular"]
=============================================================================
