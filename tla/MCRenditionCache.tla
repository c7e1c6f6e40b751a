-------------------------- MODULE MCRenditionCache --------------------------
(***************************************************************************)
(* Instances of RenditionCache for TLC.                                    *)
(***************************************************************************)
EXTENDS RenditionCache, TLC

CONSTANTS w1, w2, w3, p1, p2

\* Two workers of one helper, and a helper that knows nothing of them.
TwoHelpers == (w1 :> p1) @@ (w2 :> p1) @@ (w3 :> p2)
=============================================================================
