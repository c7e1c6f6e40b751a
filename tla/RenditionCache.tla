---------------------------- MODULE RenditionCache ----------------------------
(***************************************************************************)
(* The cache of renditions (crates/reference-core/src/rendition.rs,        *)
(* authorize): the workers of one or several helper processes validate,    *)
(* remove, generate and publish the files of a cache folder they share,    *)
(* while the sources they read are edited and any process may be killed.   *)
(*                                                                         *)
(* An entry belongs to a revision, whose expected fingerprint never        *)
(* changes, and a profile.  Of any file only this matters here: whether it *)
(* is what the revision gives ("rev"), what an edited source gives         *)
(* ("other"), or no rendition at all ("junk").                             *)
(***************************************************************************)
EXTENDS Naturals

CONSTANTS
  Grids,       (* entries of the profile grid_standard                      *)
  Previews,    (* entries of the profile preview                            *)
  Processes,   (* helper processes that share the cache folder              *)
  Workers,     (* their rendition workers                                   *)
  ProcessOf,   (* the process of a worker                                   *)
  Faults,      (* whether operations on the cache folder may fail           *)
  Reverts,     (* whether an edited source may get its old contents back    *)
  MaxRequests, (* bound of the model: authorizations                        *)
  MaxEdits     (* bound of the model: changes of sources                    *)

Keys == Grids \union Previews

ASSUME CacheAssumption ==
  /\ Grids \intersect Previews = {}
  /\ ProcessOf \in [Workers -> Processes]
  /\ Faults \in BOOLEAN /\ Reverts \in BOOLEAN
  /\ MaxRequests \in Nat /\ MaxEdits \in Nat

VARIABLES
  source,    (* what the source of an entry holds now                       *)
  target,    (* the file at the path of the entry                           *)
  record,    (* the output fingerprint in its integrity file                *)
  at,        (* where a worker stands in authorize                          *)
  key,       (* the entry it works on                                       *)
  temporary, (* its temporary file                                          *)
  note,      (* its temporary integrity file                                *)
  gate,      (* entries whose KeyGate is active, per process                *)
  \* Observers.
  served,    (* what the file held that the latest descriptor named         *)
  users,     (* the processes that asked for an entry so far             *)
  requests,
  edits

files   == <<target, record>>
workers == <<at, key, temporary, note>>
counts  == <<users, requests, edits>>
vars    == <<source, files, workers, gate, served, counts>>

Images == {"rev", "other"}
Files  == {"none", "junk"} \union Images
NoKey  == "none"

Stages == {"idle", "evidence", "acquire", "validate", "dropTarget", "dropRecord",
           "generate", "recheck", "integrity", "publish", "publishRecord", "sync",
           "describe"}
\* The stages between acquire_key and the drop of its permit.
Inside == Stages \ {"idle", "evidence", "acquire"}

TypeOK ==
  /\ source \in [Keys -> Images]
  /\ target \in [Keys -> Files] /\ record \in [Keys -> Files]
  /\ at \in [Workers -> Stages] /\ key \in [Workers -> Keys \union {NoKey}]
  /\ temporary \in [Workers -> Files] /\ note \in [Workers -> Files]
  /\ gate \in [Processes -> SUBSET Keys]
  /\ served \in Files
  /\ users \in [Keys -> SUBSET Processes]
  /\ requests \in Nat /\ edits \in Nat

-----------------------------------------------------------------------------
(* The files.                                                              *)

\* validate_cached: a grid image is checked against its record and decoded,
\* whatever it shows; a preview against the fingerprint of the revision.
Valid(k) ==
  IF k \in Previews THEN target[k] = "rev"
  ELSE target[k] \in Images /\ record[k] = target[k]

\* A source is edited, or gets the contents of the revision back.
EditSource(k) ==
  /\ edits < MaxEdits /\ edits' = edits + 1
  /\ \/ source[k] = "rev" /\ source' = [source EXCEPT ![k] = "other"]
     \/ source[k] = "other" /\ Reverts /\ source' = [source EXCEPT ![k] = "rev"]
  /\ UNCHANGED <<files, workers, gate, served, users, requests>>

-----------------------------------------------------------------------------
(* One authorization.                                                      *)

Goes(w, stage) == at' = [at EXCEPT ![w] = stage]

Returns_Releases(w) ==
  /\ Goes(w, "idle")
  /\ key' = [key EXCEPT ![w] = NoKey]
  /\ temporary' = [temporary EXCEPT ![w] = "none"]
  /\ note' = [note EXCEPT ![w] = "none"]
  /\ gate' = [gate EXCEPT ![ProcessOf[w]] = @ \ {key[w]}]

\* authorize returns: its temporaries are removed and the permit is dropped.
Returns(w) ==
  /\ Goes(w, "idle")
  /\ key' = [key EXCEPT ![w] = NoKey]
  /\ temporary' = [temporary EXCEPT ![w] = "none"]
  /\ note' = [note EXCEPT ![w] = "none"]
  /\ gate' = IF at[w] \in Inside
             THEN [gate EXCEPT ![ProcessOf[w]] = @ \ {key[w]}] ELSE gate

\* A step of worker w from stage s that leaves everything not named alone.
Step(w, s) == at[w] = s /\ UNCHANGED <<source, key, served, counts>>

Request(w, k) ==
  /\ at[w] = "idle" /\ requests < MaxRequests
  /\ requests' = requests + 1
  /\ users' = [users EXCEPT ![k] = @ \union {ProcessOf[w]}]
  /\ Goes(w, "evidence") /\ key' = [key EXCEPT ![w] = k]
  /\ UNCHANGED <<source, files, temporary, note, gate, served, edits>>

\* Any stage may end with an error: a cancellation or the deadline seen by
\* checkpoint, a source that cannot be read, limits, a picture that does not
\* decode.  The temporaries are gone and the entry is as it stands.
Refused(w) ==
  /\ at[w] \notin {"idle", "publishRecord", "sync", "describe"}
  /\ Returns(w)
  /\ UNCHANGED <<source, files, served, counts>>

\* validate_source_evidence.
CheckEvidence(w) ==
  /\ Step(w, "evidence") /\ source[key[w]] = "rev"
  /\ Goes(w, "acquire")
  /\ UNCHANGED <<files, temporary, note, gate>>

\* acquire_key: the gate of the key in this process; a waiter polls.
AcquireKey(w) ==
  /\ Step(w, "acquire") /\ key[w] \notin gate[ProcessOf[w]]
  /\ gate' = [gate EXCEPT ![ProcessOf[w]] = @ \union {key[w]}]
  /\ Goes(w, "validate")
  /\ UNCHANGED <<files, temporary, note>>

Validate(w) ==
  /\ Step(w, "validate")
  /\ Goes(w, IF Valid(key[w]) THEN "describe" ELSE "dropTarget")
  /\ UNCHANGED <<files, temporary, note, gate>>

DropTarget(w) ==
  /\ Step(w, "dropTarget") /\ Goes(w, "dropRecord")
  /\ target' = [target EXCEPT ![key[w]] = "none"]
  /\ UNCHANGED <<record, temporary, note, gate>>

DropRecord(w) ==
  /\ Step(w, "dropRecord") /\ Goes(w, "generate")
  /\ record' = [record EXCEPT ![key[w]] = "none"]
  /\ UNCHANGED <<target, temporary, note, gate>>

\* publish_preview_snapshot copies and publish_grid decodes what is there now,
\* into a temporary file of its own.
Generate(w) ==
  /\ Step(w, "generate") /\ Goes(w, "recheck")
  /\ temporary' = [temporary EXCEPT ![w] = source[key[w]]]
  /\ UNCHANGED <<files, note, gate>>

Recheck_Skipped(w) ==
  /\ Step(w, "recheck")
  /\ Goes(w, IF key[w] \in Grids THEN "integrity" ELSE "publish")
  /\ UNCHANGED <<files, temporary, note, gate>>

\* ... and fingerprint the source once more.
Recheck(w) ==
  /\ Step(w, "recheck") /\ source[key[w]] = "rev"
  /\ Goes(w, IF key[w] \in Grids THEN "integrity" ELSE "publish")
  /\ UNCHANGED <<files, temporary, note, gate>>

SourceChanged_Retries(w) ==
  /\ at[w] = "evidence" /\ source[key[w]] # "rev"
  /\ Returns(w)
  /\ UNCHANGED <<source, files, served, counts>>

SourceChanged(w) ==
  /\ at[w] \in {"evidence", "recheck"} /\ source[key[w]] # "rev"
  /\ Returns(w)
  /\ UNCHANGED <<source, files, served, counts>>

WriteIntegrity_OfNothing(w) ==
  /\ Step(w, "integrity") /\ Goes(w, "publish")
  /\ note' = [note EXCEPT ![w] = "junk"]
  /\ UNCHANGED <<files, temporary, gate>>

WriteIntegrity(w) ==
  /\ Step(w, "integrity") /\ Goes(w, "publish")
  /\ note' = [note EXCEPT ![w] = temporary[w]]
  /\ UNCHANGED <<files, temporary, gate>>

\* fs::rename of the image, after the last checkpoint.
Publish(w) ==
  /\ Step(w, "publish")
  /\ Goes(w, IF key[w] \in Grids THEN "publishRecord" ELSE "sync")
  /\ target' = [target EXCEPT ![key[w]] = temporary[w]]
  /\ temporary' = [temporary EXCEPT ![w] = "none"]
  /\ UNCHANGED <<record, note, gate>>

\* fs::rename of its integrity file.
PublishRecord(w) ==
  /\ Step(w, "publishRecord") /\ Goes(w, "sync")
  /\ record' = [record EXCEPT ![key[w]] = note[w]]
  /\ note' = [note EXCEPT ![w] = "none"]
  /\ UNCHANGED <<target, temporary, gate>>

PublishRecordFails(w) ==
  /\ Faults /\ at[w] = "publishRecord"
  /\ target' = [target EXCEPT ![key[w]] = "none"]
  /\ Returns(w)
  /\ UNCHANGED <<source, record, served, counts>>

\* The fsync of the folder, which may fail with both files in place.
SyncDirectory(w) ==
  /\ Step(w, "sync") /\ Goes(w, "describe")
  /\ UNCHANGED <<files, temporary, note, gate>>

SyncFails(w) ==
  /\ Faults /\ at[w] = "sync" /\ Returns(w)
  /\ UNCHANGED <<source, files, served, counts>>

\* descriptor: the length of the file is all it looks at.
Describe(w) ==
  /\ at[w] = "describe" /\ Returns(w)
  /\ IF target[key[w]] = "none" THEN UNCHANGED served
     ELSE served' = target[key[w]]
  /\ UNCHANGED <<source, files, counts>>

\* The supervisor kills a helper that hangs, or it crashes: nothing is cleaned
\* up, and no later process looks at its temporaries, which carry fresh names.
Kill(p) ==
  LET mine == {w \in Workers : ProcessOf[w] = p} IN
  /\ \E w \in mine : at[w] # "idle"
  /\ at' = [w \in Workers |-> IF w \in mine THEN "idle" ELSE at[w]]
  /\ key' = [w \in Workers |-> IF w \in mine THEN NoKey ELSE key[w]]
  /\ temporary' = [w \in Workers |-> IF w \in mine THEN "none" ELSE temporary[w]]
  /\ note' = [w \in Workers |-> IF w \in mine THEN "none" ELSE note[w]]
  /\ gate' = [gate EXCEPT ![p] = {}]
  /\ UNCHANGED <<source, files, served, counts>>

-----------------------------------------------------------------------------

\* The folder may hold what earlier processes, versions or damage left.
Init ==
  /\ source = [k \in Keys |-> "rev"]
  /\ target \in [Keys -> {"none", "junk", "rev"}]
  /\ record \in [Keys -> {"none", "junk", "rev"}]
  /\ at = [w \in Workers |-> "idle"] /\ key = [w \in Workers |-> NoKey]
  /\ temporary = [w \in Workers |-> "none"] /\ note = [w \in Workers |-> "none"]
  /\ gate = [p \in Processes |-> {}]
  /\ served = "none" /\ users = [k \in Keys |-> {}]
  /\ requests = 0 /\ edits = 0

WorkerStep(w) ==
  \/ CheckEvidence(w) \/ AcquireKey(w) \/ Validate(w)
  \/ DropTarget(w) \/ DropRecord(w) \/ Generate(w) \/ Recheck(w)
  \/ SourceChanged(w) \/ WriteIntegrity(w) \/ Publish(w)
  \/ PublishRecord(w) \/ PublishRecordFails(w)
  \/ SyncDirectory(w) \/ SyncFails(w) \/ Describe(w)

\* Nobody asks for anything.
Quiet == (\A w \in Workers : at[w] = "idle") /\ UNCHANGED vars

Next ==
  \/ Quiet
  \/ \E w \in Workers : \/ WorkerStep(w) \/ Refused(w)
                        \/ \E k \in Keys : Request(w, k)
  \/ \E k \in Keys : EditSource(k)
  \/ \E p \in Processes : Kill(p)

Spec == Init /\ [][Next]_vars

\* The deadline, which a waiter looks at on every turn of its loop.
GiveUpWaiting(w) == at[w] = "acquire" /\ Refused(w)

\* A worker runs, and the deadline ends every wait: the condition variable is
\* polled, so a waiter needs nobody to wake it.
FairSpec == Spec /\ \A w \in Workers : /\ WF_vars(WorkerStep(w))
                                       /\ WF_vars(GiveUpWaiting(w))

-----------------------------------------------------------------------------
(* Properties.                                                             *)

Holding(p) == {w \in Workers : ProcessOf[w] = p /\ at[w] \in Inside}

\* Of the workers of a process one at a time is between the permit of a key
\* and its release, and a key is locked only while one is: no way out of
\* authorize, and no waiter that gives up, leaves a gate shut or opens the
\* gate of another.
OnePermitPerKey ==
  \A p \in Processes :
    /\ gate[p] = {key[w] : w \in Holding(p)}
    /\ \A v, w \in Holding(p) : key[v] = key[w] => v = w

\* The entry a worker is about to describe would satisfy the next request as
\* well, as long as one process alone asks for it: whatever kills, failed
\* renames or older versions left behind, the image and the record it leaves
\* belong together.
Shared(k) == \E p, q \in users[k] : p # q

DescribedEntriesAreValid ==
  ~Reverts => \A w \in Workers :
    at[w] = "describe" => Valid(key[w]) \/ Shared(key[w])

\* What a descriptor names shows the revision that was asked for, also when
\* helpers that know nothing of each other remove and publish the same files
\* and sources are edited while they are read.  An edit that is taken back
\* between two readings goes unnoticed, hence Reverts.
ServedIsRevision == ~Reverts => served \in {"none", "rev"}

\* Every authorization ends: nobody waits for a key longer than the deadline,
\* and the gates of a killed process are gone with it.
AuthorizationsEnd == \A w \in Workers : at[w] # "idle" ~> at[w] = "idle"
=============================================================================
