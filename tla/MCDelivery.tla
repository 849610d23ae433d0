----------------------------- MODULE MCDelivery -----------------------------
(* Two releases that share a file, drop one and add one. *)
EXTENDS Delivery, TLC

CONSTANTS f1, f2, f3, r1, r2, b1, b2, b3, b4

MCPaths == {f1, f2, f3}
MCFiles == r1 :> <<f1, f2>> @@ r2 :> <<f1, f3>>
MCReleases == {r1, r2}
MCContent == r1 :> (f1 :> b1 @@ f2 :> b2) @@ r2 :> (f1 :> b3 @@ f3 :> b4)
=============================================================================
