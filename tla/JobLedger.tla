------------------------------ MODULE JobLedger ------------------------------
(***************************************************************************)
(* What the rows of the jobs table promise to anyone who reads them,       *)
(* whatever threads, queues, closes and crashes lie behind: the abstract   *)
(* specification that CoreEngine implements.                               *)
(***************************************************************************)
CONSTANTS
  Scans,       (* identifiers of scan jobs                                 *)
  Renditions,  (* identifiers of rendition jobs                            *)
  LibraryOf,   (* the library a root belongs to                            *)
  RootOf       (* the root a job works on                                  *)

Jobs == Scans \union Renditions

VARIABLE ledger  (* the state of each job, "absent" before it has a row    *)

Active   == {"queued", "running"}
Final    == {"completed", "failed", "cancelled"}
RowState == {"absent"} \union Active \union Final

Init == ledger = [j \in Jobs |-> "absent"]

\* A scan starts running, on a root no active job works on.
StartScan(j) ==
  /\ ledger[j] = "absent"
  /\ \A k \in Jobs : RootOf[k] = RootOf[j] => ledger[k] \notin Active
  /\ ledger' = [ledger EXCEPT ![j] = "running"]

\* A rendition is queued, or fails at once.
Submit(j) ==
  /\ ledger[j] = "absent"
  /\ \E s \in {"queued", "failed"} : ledger' = [ledger EXCEPT ![j] = s]

Begin(j) ==
  /\ ledger[j] = "queued"
  /\ ledger' = [ledger EXCEPT ![j] = "running"]

End(j) ==
  /\ ledger[j] = "running"
  /\ \E s \in Final : ledger' = [ledger EXCEPT ![j] = s]

\* The library l is opened again: what was active has failed.
Recover(l) ==
  ledger' = [j \in Jobs |-> IF LibraryOf[RootOf[j]] = l /\ ledger[j] \in Active
                            THEN "failed" ELSE ledger[j]]

Next ==
  \/ \E j \in Scans : StartScan(j)
  \/ \E j \in Renditions : Submit(j) \/ Begin(j)
  \/ \E j \in Jobs : End(j)
  \/ \E r \in DOMAIN LibraryOf : Recover(LibraryOf[r])

Spec == Init /\ [][Next]_ledger
=============================================================================
