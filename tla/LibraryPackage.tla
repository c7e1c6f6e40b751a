---------------------------- MODULE LibraryPackage ----------------------------
(***************************************************************************)
(* A Library package on disk: how it is created, opened, migrated and      *)
(* closed (crates/reference-core/src/schema.rs and manifest.rs; create,    *)
(* open and close of session.rs), by helper processes of releases that     *)
(* support different schema versions, while any of them may fail or die    *)
(* at any step and the machine may lose its power.                         *)
(*                                                                         *)
(* SQLite runs in WAL mode with synchronous = NORMAL: a commit outlives    *)
(* its process at once and a power cut only once it is checkpointed.  The  *)
(* database is therefore the sequence of the contents it was committed     *)
(* with since the last checkpoint, of which a power cut keeps a prefix.    *)
(* The manifest is written to the disk before it is renamed into place.    *)
(***************************************************************************)
EXTENDS Naturals, Sequences, SequencesExt

CONSTANTS
  Processes,  (* helper processes                                          *)
  Supports,   (* SCHEMA_VERSION of the release a process runs              *)
  Packages,   (* packages that may be there at first, [data, manifest]     *)
  Exclusive,  (* whether the writer lock excludes (see WriterLock)         *)
  MaxFaults   (* bound of the model: failed or killed operations           *)

ASSUME PackageAssumption ==
  /\ Supports \in [Processes -> Nat \ {0}]
  /\ \E p \in Processes : \A q \in Processes : Supports[q] <= Supports[p]
  /\ Exclusive \in BOOLEAN /\ MaxFaults \in Nat

VARIABLES
  log,       (* the database, or << >> while there is no package            *)
  manifest,  (* manifest.json: the Library's identity and schema version    *)
  stable,    (* the manifest that a power cut leaves                        *)
  rooted,    (* whether a power cut leaves the package itself               *)
  at,        (* where a process stands                                      *)
  copy,      (* the manifest it has read                                    *)
  reached,   (* the schema version it has read or migrated to               *)
  staged,    (* the database of the package it is creating                  *)
  holder,    (* processes that hold the writer lock                         *)
  \* Observers and bounds.
  found,     (* the contents a process found when it took the lock          *)
  answer,    (* how its latest opening ended                                *)
  raced,     (* whether two processes ever held the lock                    *)
  faults

disk  == <<log, manifest, stable, rooted>>
local == <<at, copy, reached, staged, holder>>
seen  == <<found, answer, raced>>
vars  == <<disk, local, seen, faults>>

Newest     == CHOOSE v \in {Supports[p] : p \in Processes} :
                \A p \in Processes : Supports[p] <= v
NoManifest == [id |-> "none", version |-> 0]
Blank      == [id |-> "none", user |-> 0, ledger |-> 0, tables |-> 0, meta |-> 0,
               wal |-> TRUE, flaw |-> "none"]

Stages == {"idle", "staged", "publish", "parent", "lock", "readOnly", "writable",
           "configure", "migrate", "ledger", "check", "manifest", "sync", "reread",
           "open", "closing", "closeSync", "unlock"}
Flaws  == {"none", "bytes", "keys"}

Versions  == 0 .. Newest + 1
\* user: PRAGMA user_version; ledger: rows of schema_migrations that match the
\* embedded ones; tables: migrations the tables show; meta: the marker in
\* library_meta.  A flaw "bytes" fails quick_check and what goes with it, a
\* flaw "keys" only foreign_key_check.
Contents == [id : Processes \union {"none", "lib"}, user : Versions, ledger : Versions,
             tables : Versions, meta : Versions, wal : BOOLEAN, flaw : Flaws]
Manifests == [id : Processes \union {"none", "lib"}, version : Versions]

ASSUME FirstAssumption == Packages \subseteq [data : Contents, manifest : Manifests]

TypeOK ==
  /\ log \in Seq(Contents)
  /\ manifest \in Manifests /\ stable \in Manifests /\ rooted \in BOOLEAN
  /\ at \in [Processes -> Stages] /\ copy \in [Processes -> Manifests]
  /\ reached \in [Processes -> 0 .. Newest] /\ staged \in [Processes -> Seq(Contents)]
  /\ holder \subseteq Processes
  /\ found \in [Processes -> Contents]
  /\ answer \in [Processes -> {"none", "open", "preserved"}]
  /\ raced \in BOOLEAN /\ faults \in 0 .. MaxFaults

There == log # << >>
Data  == Last(log)

\* validate_existing against the manifest m, in a release of SCHEMA_VERSION v.
Acceptable(d, m, v) ==
  /\ d.flaw # "bytes" /\ d.id = m.id
  /\ d.user \in 1 .. v
  /\ d.ledger = d.user /\ d.tables = d.user
  /\ d.meta \in 1 .. d.user

-----------------------------------------------------------------------------
(* What a step changes.                                                    *)

Go(p, from, to) == at[p] = from /\ at' = [at EXCEPT ![p] = to]

Commit(d) == log' = Append(log, d) /\ UNCHANGED <<manifest, stable, rooted>>
Kept      == UNCHANGED <<staged, seen, faults>>

\* The process is out of the package: its descriptors, and its lock, are gone.
Leaves(p) ==
  /\ at' = [at EXCEPT ![p] = "idle"]
  /\ copy' = [copy EXCEPT ![p] = NoManifest]
  /\ reached' = [reached EXCEPT ![p] = 0]
  /\ staged' = [staged EXCEPT ![p] = << >>]
  /\ holder' = holder \ {p}

-----------------------------------------------------------------------------
(* LibrarySession::create.                                                 *)

\* The destination does not exist.  Under a name of its own a directory gets a
\* manifest and a database, created and migrated to the current schema.
Stage(p) ==
  /\ ~There /\ Go(p, "idle", "staged")
  /\ staged' = [staged EXCEPT ![p] =
       <<Blank, [id |-> p, user |-> Supports[p], ledger |-> Supports[p],
                 tables |-> Supports[p], meta |-> Supports[p],
                 wal |-> TRUE, flaw |-> "none"]>>]
  /\ UNCHANGED <<disk, copy, reached, holder, seen, faults>>

\* wal_checkpoint(TRUNCATE), the connection dropped, the directory synced.
CheckpointStaging_Skipped(p) ==
  /\ Go(p, "staged", "publish")
  /\ UNCHANGED <<disk, copy, reached, staged, holder, seen, faults>>
CheckpointStaging(p) ==
  /\ Go(p, "staged", "publish")
  /\ staged' = [staged EXCEPT ![p] = <<Last(@)>>]
  /\ UNCHANGED <<disk, copy, reached, holder, seen, faults>>

\* rename of the staging directory, which does not replace a package.
Publish_Replaces(p) ==
  /\ Go(p, "publish", "parent")
  /\ log' = staged[p] /\ rooted' = FALSE
  /\ manifest' = [id |-> p, version |-> Supports[p]] /\ stable' = manifest'
  /\ staged' = [staged EXCEPT ![p] = << >>]
  /\ UNCHANGED <<copy, reached, holder, seen, faults>>
Publish(p) ==
  /\ ~There /\ Go(p, "publish", "parent")
  /\ log' = staged[p] /\ rooted' = FALSE
  /\ manifest' = [id |-> p, version |-> Supports[p]] /\ stable' = manifest'
  /\ staged' = [staged EXCEPT ![p] = << >>]
  /\ UNCHANGED <<copy, reached, holder, seen, faults>>

\* The parent directory is synced; create goes on with open.
SyncParent(p) ==
  /\ Go(p, "parent", "idle") /\ rooted' = TRUE
  /\ UNCHANGED <<log, manifest, stable, copy, reached, staged, holder, seen, faults>>

-----------------------------------------------------------------------------
(* LibrarySession::open.                                                   *)

\* Manifest::read, before the lock.
ReadManifest(p) ==
  /\ There /\ manifest.version <= Supports[p]
  /\ Go(p, "idle", "lock")
  /\ copy' = [copy EXCEPT ![p] = manifest]
  /\ answer' = [answer EXCEPT ![p] = "none"]
  /\ UNCHANGED <<disk, reached, staged, holder, found, raced, faults>>

TryLock(p) ==
  /\ Exclusive => holder = {}
  /\ Go(p, "lock", "readOnly") /\ holder' = holder \union {p}
  /\ found' = [found EXCEPT ![p] = Data]
  /\ raced' = (raced \/ holder # {})
  /\ UNCHANGED <<disk, copy, reached, staged, answer, faults>>

Passes_MetaExact(p) ==
  Acceptable(Data, copy[p], Supports[p]) /\ Data.meta = Data.user
Passes(p) == Acceptable(Data, copy[p], Supports[p])

\* Through a read-only handle, before anything is changed.
ValidateReadOnly_Configures(p) ==
  /\ Go(p, "readOnly", "writable")
  /\ log' = IF Data.wal THEN log ELSE <<[Data EXCEPT !.wal = TRUE]>>
  /\ reached' = [reached EXCEPT ![p] = Data.user]
  /\ UNCHANGED <<manifest, stable, rooted, copy, holder>> /\ Kept
ValidateReadOnly(p) ==
  /\ Go(p, "readOnly", "writable") /\ Passes(p)
  /\ reached' = [reached EXCEPT ![p] = Data.user]
  /\ UNCHANGED <<disk, copy, holder>> /\ Kept

\* Through the writable one: the same checks, and the same version.
ValidateWritable(p) ==
  /\ Go(p, "writable", "configure") /\ Passes(p) /\ Data.user = reached[p]
  /\ UNCHANGED <<disk, copy, reached, holder>> /\ Kept

\* The change to WAL mode is on the disk when the pragma returns.
Configure(p) ==
  /\ Go(p, "configure", "migrate")
  /\ log' = IF Data.wal THEN log ELSE <<[Data EXCEPT !.wal = TRUE]>>
  /\ UNCHANGED <<manifest, stable, rooted, copy, reached, holder>> /\ Kept

\* One migration script: BEGIN IMMEDIATE, the tables, the marker in
\* library_meta, the row of the ledger, user_version, COMMIT.
ScriptApplies(p) == Data.tables = reached[p] /\ Data.ledger = reached[p]

RunScript(p) ==
  /\ Go(p, "migrate", "ledger") /\ reached[p] < Supports[p] /\ ScriptApplies(p)
  /\ LET next == reached[p] + 1
     IN  Commit([Data EXCEPT !.user = next, !.ledger = next,
                             !.tables = next, !.meta = next])
  /\ UNCHANGED <<copy, reached, holder>> /\ Kept

CheckLedger(p) ==
  /\ Go(p, "ledger", "migrate") /\ Data.ledger = reached[p] + 1
  /\ reached' = [reached EXCEPT ![p] = @ + 1]
  /\ UNCHANGED <<disk, copy, holder>> /\ Kept

\* A marker that an older release left behind is brought up to user_version.
ReconcileMeta(p) ==
  /\ reached[p] >= Supports[p] /\ Go(p, "migrate", "check")
  /\ IF Data.meta < Data.user THEN Commit([Data EXCEPT !.meta = Data.user])
     ELSE UNCHANGED disk
  /\ UNCHANGED <<copy, reached, holder>> /\ Kept

PostChecks(p) ==
  /\ Go(p, "check", "manifest") /\ Data.flaw # "keys"
  /\ UNCHANGED <<disk, copy, reached, holder>> /\ Kept

\* A manifest of another version is replaced: the rename, then the directory.
RewriteManifest(p) ==
  /\ \/ /\ Go(p, "manifest", "sync") /\ copy[p].version # Data.user
        /\ manifest' = [copy[p] EXCEPT !.version = Data.user]
     \/ /\ Go(p, "manifest", "reread") /\ copy[p].version = Data.user
        /\ UNCHANGED manifest
  /\ UNCHANGED <<log, stable, rooted, copy, reached, holder>> /\ Kept

SyncPackage(p) ==
  /\ Go(p, "sync", "reread") \/ Go(p, "closeSync", "unlock")
  /\ stable' = manifest
  /\ UNCHANGED <<log, manifest, rooted, copy, reached, holder>> /\ Kept

\* The session's manifest is the one on the disk now.
Reread_KeepsCopy(p) ==
  /\ manifest.version <= Supports[p] /\ Go(p, "reread", "open")
  /\ answer' = [answer EXCEPT ![p] = "open"]
  /\ UNCHANGED <<disk, copy, reached, staged, holder, found, raced, faults>>
Reread(p) ==
  /\ manifest.version <= Supports[p] /\ Go(p, "reread", "open")
  /\ copy' = [copy EXCEPT ![p] = manifest]
  /\ answer' = [answer EXCEPT ![p] = "open"]
  /\ UNCHANGED <<disk, reached, staged, holder, found, raced, faults>>

\* What open finds wrong with the package, and answers with an error.
Finds(p) ==
  \/ at[p] = "readOnly" /\ ~Passes(p)
  \/ at[p] = "writable" /\ ~(Passes(p) /\ Data.user = reached[p])
  \/ at[p] = "ledger" /\ Data.ledger # reached[p] + 1
  \/ at[p] = "check" /\ Data.flaw = "keys"

\* LibraryIntegrityFailedPreserved, or LibrarySchemaUnsupported.
RefusePackage(p) ==
  /\ Finds(p) /\ Leaves(p)
  /\ answer' = [answer EXCEPT ![p] = "preserved"]
  /\ UNCHANGED <<disk, found, raced, faults>>

\* A lock that is taken, a destination that has come into being, a script
\* that does not apply, a manifest of a newer release.
Turned(p) ==
  \/ at[p] = "lock" /\ Exclusive /\ holder # {}
  \/ at[p] = "publish" /\ There
  \/ at[p] = "migrate" /\ reached[p] < Supports[p] /\ ~ScriptApplies(p)
  \/ at[p] = "reread" /\ manifest.version > Supports[p]

TurnAway(p) ==
  /\ Turned(p) /\ Leaves(p)
  /\ UNCHANGED <<disk, seen, faults>>

-----------------------------------------------------------------------------
(* LibrarySession::close.                                                  *)

\* The checkpoint, which fails while another connection reads; the connection
\* is gone all the same, and a second close goes on with the manifest.
CloseCheckpoint(p) ==
  /\ Go(p, "open", "closing")
  /\ \/ log' = <<Data>>
     \/ holder # {p} /\ UNCHANGED log
  /\ UNCHANGED <<manifest, stable, rooted, copy, reached, holder>> /\ Kept

\* The manifest is written again from the session's copy.
CloseManifest(p) ==
  /\ Go(p, "closing", "closeSync")
  /\ manifest' = copy[p]
  /\ UNCHANGED <<log, stable, rooted, copy, reached, holder>> /\ Kept

Unlock(p) ==
  /\ at[p] = "unlock" /\ Leaves(p)
  /\ UNCHANGED <<disk, seen, faults>>

-----------------------------------------------------------------------------
(* Faults.                                                                 *)

Fault == faults < MaxFaults /\ faults' = faults + 1

\* An operation fails, or the process is killed.
GiveUp(p) ==
  /\ at[p] # "idle" /\ Fault /\ Leaves(p)
  /\ UNCHANGED <<disk, seen>>

\* SQLite checkpoints on its own when the WAL has grown.
AutoCheckpoint(p) ==
  /\ at[p] \in {"migrate", "ledger", "check", "open"} /\ Len(log) > 1
  /\ log' = <<Data>>
  /\ UNCHANGED <<manifest, stable, rooted, local, seen, faults>>

\* All processes stop, and what was not synced may be lost.
PowerCut ==
  /\ Fault
  /\ \/ /\ There
        /\ \E n \in 1 .. Len(log) : log' = SubSeq(log, 1, n)
        /\ manifest' \in {manifest, stable} /\ stable' = manifest' /\ rooted' = TRUE
     \/ /\ ~rooted
        /\ log' = << >> /\ manifest' = NoManifest /\ stable' = NoManifest
        /\ UNCHANGED rooted
  /\ at' = [p \in Processes |-> "idle"]
  /\ copy' = [p \in Processes |-> NoManifest]
  /\ reached' = [p \in Processes |-> 0]
  /\ staged' = [p \in Processes |-> << >>]
  /\ holder' = {}
  /\ UNCHANGED <<found, answer, raced>>

-----------------------------------------------------------------------------

Init ==
  /\ \/ /\ \E k \in Packages : log = <<k.data>> /\ manifest = k.manifest
        /\ rooted = TRUE
     \/ log = << >> /\ manifest = NoManifest /\ rooted = FALSE
  /\ stable = manifest
  /\ at = [p \in Processes |-> "idle"]
  /\ copy = [p \in Processes |-> NoManifest]
  /\ reached = [p \in Processes |-> 0]
  /\ staged = [p \in Processes |-> << >>]
  /\ holder = {}
  /\ found = [p \in Processes |-> Blank]
  /\ answer = [p \in Processes |-> "none"]
  /\ raced = FALSE /\ faults = 0

Create(p) == Stage(p) \/ CheckpointStaging(p) \/ Publish(p) \/ SyncParent(p)

Validate(p) == ValidateReadOnly(p) \/ ValidateWritable(p)

Upgrade(p) ==
  \/ Configure(p) \/ RunScript(p) \/ CheckLedger(p) \/ ReconcileMeta(p) \/ PostChecks(p)
  \/ RewriteManifest(p) \/ SyncPackage(p) \/ Reread(p)

Open(p) ==
  \/ ReadManifest(p) \/ TryLock(p) \/ Validate(p) \/ Upgrade(p)
  \/ RefusePackage(p) \/ TurnAway(p)

Close(p) == CloseCheckpoint(p) \/ CloseManifest(p) \/ Unlock(p)

Next ==
  \/ \E p \in Processes :
       Create(p) \/ Open(p) \/ Close(p) \/ GiveUp(p) \/ AutoCheckpoint(p)
  \/ PowerCut

Spec == Init /\ [][Next]_vars

\* A host that wants the Library creates or opens it again until it has it, and
\* what has begun to close goes on.
Proceed(p) == Create(p) \/ Open(p) \/ CloseManifest(p) \/ Unlock(p)
FairSpec == Spec /\ \A p \in Processes : WF_vars(Proceed(p))

-----------------------------------------------------------------------------
(* Properties.                                                             *)

\* Whatever prefix of the commits a power cut leaves, the newest release accepts
\* the package.
Openable ==
  /\ \A n \in DOMAIN log : \A m \in {manifest, stable} : Acceptable(log[n], m, Newest)
  /\ There => manifest.version <= Newest /\ stable.version <= Newest

\* "A migration ... is all-or-nothing across a crash" (V1_EXECUTION_CONTRACT,
\* line 21): an openable package stays openable, whatever fails, whoever dies,
\* whichever releases meet and whether or not the lock keeps them apart.
AnyStopIsOpenable == [][Openable => Openable']_vars

\* A session works on the schema of its own release, and user_version, ledger,
\* tables, the marker in library_meta, the manifest and the session's copy of
\* it agree on that (open, which migrates, reconciles and reads again), unless
\* the lock has let two sessions in.
OpenIsCurrent ==
  \A p \in Processes : at[p] = "open" /\ ~raced =>
    /\ Supports[p] = Data.user /\ Supports[p] = Data.meta
    /\ Acceptable(Data, copy[p], Supports[p])
    /\ copy[p] = manifest /\ manifest.version = Data.user

\* A package is never replaced by another one: creators that race for a
\* destination, and everyone who opens it, leave the Library its identity.
OneLibrary ==
  [][There /\ log' # << >> =>
       Last(log').id = Data.id /\ manifest'.id = manifest.id]_vars

\* "Refuse corrupt or tampered bytes through a read-only handle before any
\* connection setting, journal transition, or migration can mutate them"
\* (schema.rs, line 77): what validation refuses stays as it is.
RefusedStaysAsItWas ==
  [][There /\ ~Acceptable(Data, manifest, Newest) /\ ~PowerCut =>
       log' = log /\ manifest' = manifest]_vars

\* "an integrity failure is an explicit read-only/preserved error state and
\* never deletes or overwrites the Library" (V1_EXECUTION_CONTRACT, line 37):
\* an opening that ends in one leaves the contents it found.
PreservedMeansUntouched ==
  [][\A p \in Processes :
       (answer[p] = "none" /\ answer'[p] = "preserved") => Data = found[p]]_vars

\* After finitely many faults, wherever they struck, a Library that was openable
\* is created or opened, and migrated, in the end.
OpensInTheEnd == Openable ~> \E p \in Processes : at[p] = "open"
=============================================================================
