------------------------------ MODULE MCHitMux ------------------------------
(* Instances of HitMux for TLC. *)
EXTENDS HitMux

\* One link alone, or all.
MCMasks == {{0}, Links}

\* One package of each link; the last link sends a second one.
MCPackages == [l \in Links |-> IF l = N - 1 THEN 2 ELSE 1]
MCOnePackage == [l \in Links |-> 1]
=============================================================================
