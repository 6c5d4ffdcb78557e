-------------------------- MODULE MCModelSelection --------------------------
(* Instances of ModelSelection for TLC: one capsule has two models, one of  *)
(* them without limits, and shares a bare name with the other capsule.     *)
EXTENDS ModelSelection, TLC

CONSTANTS c1, c2, a1, a2, b1, x, y

MCOffer  == c1 :> <<a1, a2>> @@ c2 :> <<b1>>
MCName   == a1 :> x @@ a2 :> y @@ b1 :> x
MCLimits == a1 :> a1 @@ a2 :> None @@ b1 :> b1
=============================================================================
