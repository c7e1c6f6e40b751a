------------------------------ MODULE MCRootScan ------------------------------
(***************************************************************************)
(* Instances of RootScan for TLC.  Names are numbers, in their order.      *)
(***************************************************************************)
EXTENDS RootScan, TLC

\* A file beside a folder, in that one a folder with a file in it, and a free
\* name after all of them.
DeepParent == (1 :> 0) @@ (2 :> 0) @@ (3 :> 2) @@ (4 :> 3) @@ (5 :> 0)
DeepAbove  == (0 :> {}) @@ (1 :> {0}) @@ (2 :> {0}) @@ (3 :> {0, 2})
                @@ (4 :> {0, 2, 3}) @@ (5 :> {0})
DeepDisk   == (1 :> 1) @@ (4 :> 2) @@ (5 :> 0)
TwoBytes   == (1 :> "x") @@ (2 :> "y")

\* One file and a free name.
FlatParent == (1 :> 0) @@ (2 :> 0)
FlatAbove  == (0 :> {}) @@ (1 :> {0}) @@ (2 :> {0})
OneFile    == (1 :> 1) @@ (2 :> 0)
SameBytes  == (1 :> "x") @@ (2 :> "x")
=============================================================================
