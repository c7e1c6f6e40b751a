--------------------------- MODULE MCLibraryPackage ---------------------------
(***************************************************************************)
(* Instances of LibraryPackage for TLC.                                    *)
(***************************************************************************)
EXTENDS LibraryPackage, TLC

\* What releases leave: the marker in library_meta and the manifest may be
\* behind the migrations.
Left(user, meta, version) ==
  [data |-> [id |-> "lib", user |-> user, ledger |-> user, tables |-> user,
             meta |-> meta, wal |-> TRUE, flaw |-> "none"],
   manifest |-> [id |-> "lib", version |-> version]]

OldPackages == {Left(1, 1, 1), Left(3, 2, 2), Left(4, 3, 3)}

\* Packages that something else has written to, all in rollback-journal mode.
Tampered(k) == [k EXCEPT !.data.wal = FALSE]
DamagedPackages ==
  { Tampered(Left(2, 3, 2)),                                      \* marker ahead
    Tampered(Left(5, 5, 2)),                                      \* of the future
    Tampered([Left(1, 1, 1) EXCEPT !.data.ledger = 2]),
    Tampered([Left(1, 1, 1) EXCEPT !.data.tables = 2]),
    Tampered([Left(1, 1, 1) EXCEPT !.data.flaw = "bytes"]),
    Tampered([Left(1, 1, 1) EXCEPT !.manifest.id = "none"]),
    Tampered([Left(1, 1, 1) EXCEPT !.manifest.version = 5]),
    Tampered(Left(1, 1, 1)) }

DanglingPackages == {[Left(1, 1, 1) EXCEPT !.data.flaw = "keys"]}

AnyPackages == OldPackages \union DamagedPackages

SameRelease == [p \in Processes |-> 4]
TwoReleases == ("a" :> 3) @@ ("b" :> 4)
=============================================================================
