---------------------------- MODULE MCCoreEngine ----------------------------
(***************************************************************************)
(* Instances of CoreEngine for TLC.  Identifiers are model values; the     *)
(* maps below say which library a root and which root a job belongs to.    *)
(***************************************************************************)
EXTENDS CoreEngine, TLC

CONSTANTS l1, l2, r1, r2, s1, s2, s3, q1, q2

\* One root, alone or beside one of another library.
OneRoot  == r1 :> l1
TwoRoots == (r1 :> l1) @@ (r2 :> l2)

\* A root that is scanned twice, by scans that only their names tell apart, and
\* a scan in the other library.
RescanJobs     == (s1 :> r1) @@ (s2 :> r1) @@ (s3 :> r2)
RescanSymmetry == Permutations({s1, s2})

\* A scan to bring a root in, and authorizations beside it.
RenditionJobs     == (s1 :> r1) @@ (q1 :> r1) @@ (q2 :> r1)
RenditionSymmetry == Permutations({q1, q2})

\* Openings of the libraries.
OneOpening  == [l \in Libraries |-> 1]
TwoOpenings == [l \in Libraries |-> 2]
ReopenedOne == [l \in Libraries |-> IF l = l1 THEN 2 ELSE 1]

\* One scan, alone or with one authorization.
OneScan   == s1 :> r1
SmallJobs == (s1 :> r1) @@ (q1 :> r1)
=============================================================================
