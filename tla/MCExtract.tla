----------------------------- MODULE MCExtract ------------------------------
(***************************************************************************)
(* A script that names both hosts, a part of it that names the first one,  *)
(* and a binary that names the second.                                     *)
(***************************************************************************)
EXTENDS Extract, TLC

CONSTANTS h1, h2, script, part, binary

MCNames == script :> {h1, h2} @@ part :> {h1} @@ binary :> {h2}
MCCutOf == script :> {part} @@ part :> {} @@ binary :> {}
=============================================================================
