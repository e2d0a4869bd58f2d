------------------------------ MODULE MCSensor ------------------------------
(***************************************************************************)
(* Two payloads: one URL serves the first, another one either of them.     *)
(***************************************************************************)
EXTENDS Sensor, TLC

CONSTANTS u1, u2, u3, c1, c2

MCServes == u1 :> {c1} @@ u2 :> {c1, c2} @@ u3 :> {}

SessionSymmetry == Permutations(Sessions)
=============================================================================
