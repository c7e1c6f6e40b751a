------------------------------- MODULE Catalogue -------------------------------
(***************************************************************************)
(* What the scans of a root promise to whoever reads the catalogue: the    *)
(* curation refers to entries by identity, so no entry ever disappears and *)
(* no two share a path; an entry is only ever lost by a scan that read the *)
(* whole folder, at once with all others it lost, after everything the     *)
(* scan found was recorded; a scan that fails says the same of every       *)
(* entry, and never that it is missing.  How files are found and matched   *)
(* is left open.                                                           *)
(***************************************************************************)
EXTENDS Naturals, Sequences

CONSTANTS Places, Found, Lost

VARIABLES entries, phase, outcome

cvars == <<entries, phase, outcome>>

Entry == [path : Places, state : Found \union Lost]

\* No entry is forgotten or shares its place with another.
Keeps(old, new) ==
  /\ new \in Seq(Entry) /\ Len(old) <= Len(new)
  /\ \A a, b \in DOMAIN new : new[a].path = new[b].path => a = b

CatalogueInit == entries = <<>> /\ phase = "idle" /\ outcome = "none"

Start ==
  /\ phase = "idle" /\ phase' = "recording" /\ outcome' = "running"
  /\ UNCHANGED entries

\* One transaction: some entries are new, some were found where they were or elsewhere.
Record ==
  /\ phase = "recording" /\ UNCHANGED <<phase, outcome>>
  /\ Keeps(entries, entries')
  /\ \A a \in DOMAIN entries' :
       \/ entries'[a].state \in Found
       \/ a \in DOMAIN entries /\ entries'[a] = entries[a]

\* One transaction: what was not found is lost where it was.
Settle ==
  /\ phase = "recording" /\ phase' = "settled" /\ UNCHANGED outcome
  /\ Keeps(entries, entries')
  /\ DOMAIN entries' = DOMAIN entries
  /\ \A a \in DOMAIN entries : /\ entries'[a].path = entries[a].path
                              /\ \/ entries'[a] = entries[a]
                                 \/ entries'[a].state \in Lost

Complete ==
  /\ phase = "settled" /\ phase' = "idle" /\ outcome' = "completed"
  /\ UNCHANGED entries

Cancelled ==
  /\ phase = "recording" /\ phase' = "idle" /\ outcome' = "cancelled"
  /\ UNCHANGED entries

\* What stops the scan is found out first and recorded then, of all entries
\* alike; the process may also stop in between, or without finding out.
Break ==
  /\ phase \in {"recording", "settled"} /\ phase' = "broken"
  /\ UNCHANGED <<entries, outcome>>

Report ==
  /\ phase = "broken" /\ phase' = "idle" /\ outcome' = "failed"
  /\ \/ UNCHANGED entries
     \/ \E s \in Lost \ {"missing"} : entries' = [a \in DOMAIN entries |->
                                                    [entries[a] EXCEPT !.state = s]]

Stop ==
  /\ phase # "idle" /\ phase' = "idle" /\ outcome' = "failed"
  /\ UNCHANGED entries

CatalogueNext == Start \/ Record \/ Settle \/ Complete \/ Cancelled \/ Break \/ Report \/ Stop

CatalogueSpec == CatalogueInit /\ [][CatalogueNext]_cvars
=============================================================================
