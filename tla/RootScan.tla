------------------------------- MODULE RootScan -------------------------------
(***************************************************************************)
(* The scan of one linked root (crates/reference-core/src/discovery.rs):   *)
(* the walk over the folder, the batches it writes, the identity decision  *)
(* made for every file it met, and the three ways a scan ends, while       *)
(* programs nobody coordinates with rename, edit, link and remove files.   *)
(*                                                                         *)
(* One scan of a root runs at a time (CoreEngine, OneScanPerRoot) and      *)
(* every lookup is limited to the root, so one root is the whole system.   *)
(* insert_new makes a source, its revision, its location, its asset and    *)
(* its origin together and nothing deletes any of them: one row stands     *)
(* for the five, and its position in the catalogue for their identifiers.  *)
(***************************************************************************)
EXTENDS Naturals, Sequences, FiniteSets

CONSTANTS
  Paths,      (* relative paths of files; numbers, in the order of names   *)
  Dirs,       (* folders, numbered along with the paths                    *)
  Top,        (* the linked folder itself                                  *)
  Parent,     (* the folder an entry is in                                 *)
  Above,      (* the folders on the way to an entry, or to a folder        *)
  Inodes,     (* platform file identities                                  *)
  Contents,   (* what a file may hold: size and fingerprint                *)
  Media,      (* contents that classify_media accepts                      *)
  Probed,     (* images, whose header is probed for their dimensions       *)
  Damaged,    (* images whose header gives none                            *)
  FirstDisk,  (* what the folder holds at first: path to inode             *)
  FirstData,  (* ... and the contents of every inode                       *)
  Kinds,      (* the changes other programs make, see Disk changes         *)
  Batch,      (* INSERT_BATCH                                              *)
  MaxChanges, (* bound of the model: changes of the folder                 *)
  MaxScans    (* bound of the model: scans started                         *)

Entries == Paths \union (Dirs \ {Top})
NoInode == 0

ASSUME FolderAssumption ==
  /\ Paths \subseteq Nat /\ Dirs \subseteq Nat /\ Top \in Dirs
  /\ IsFiniteSet(Paths) /\ Paths \intersect Dirs = {}
  /\ Inodes \subseteq Nat \ {NoInode}
  /\ FirstDisk \in [Paths -> Inodes \union {NoInode}]
  /\ FirstData \in [Inodes -> Contents]
  /\ Damaged \subseteq Probed /\ Probed \subseteq Media /\ Media \subseteq Contents

\* The folders form a tree of any depth: what is above an entry is the chain
\* of folders from its own up to the linked one.
ASSUME TreeAssumption ==
  /\ Parent \in [Entries -> Dirs] /\ Above \in [Paths \union Dirs -> SUBSET Dirs]
  /\ Above[Top] = {}
  /\ \A e \in Entries :
       /\ Top \in Above[e] /\ Above[e] = {Parent[e]} \union Above[Parent[e]]
       /\ \A d \in Above[e] : Above[d] \subseteq Above[e]
       /\ \A d \in Above[e] \ {Parent[e]} : \E f \in Above[e] \ {Top} : Parent[f] = d

ASSUME ScanBoundsAssumption ==
  Batch \in Nat \ {0} /\ MaxChanges \in Nat /\ MaxScans \in Nat

VARIABLES
  \* The folder.
  disk,       (* the inode at a path                                       *)
  data,       (* the contents of an inode                                  *)
  denied,     (* folders and inodes the user may not read                  *)
  \* In the database.
  rows,       (* the catalogue, as committed                               *)
  job,        (* jobs.state of the latest scan                             *)
  root,       (* roots.state                                               *)
  \* In the memory of the scan thread.
  pc,         (* where it stands                                           *)
  cancelled,  (* the flag it shares with the engine                        *)
  stack,      (* folders still to read                                     *)
  names,      (* entries of the current folder still to inspect            *)
  batch,      (* candidates not yet written                                *)
  seen,       (* the temporary table scan_seen                             *)
  excused,    (* unreadable_directories and per_entry_states               *)
  draft,      (* the catalogue inside the open transaction                 *)
  \* Observers: the code keeps none of these.
  life,       (* how often an inode was given to a new file                *)
  changes,    (* changes of the folder so far                              *)
  scans,      (* scans started so far                                      *)
  quiet,      (* the folder did not change since the latest scan began     *)
  standing,   (* paths that held media ever since then                     *)
  late,       (* paths whose probe ran out of time since then              *)
  steady,     (* paths occupied ever since a scan last inspected them      *)
  renamed     (* assets whose rename was evident when the scan began       *)

folder   == <<disk, data, denied>>
database == <<rows, job, root>>
walk     == <<stack, names, batch, seen, excused>>
ghosts   == <<life, changes, scans, quiet, standing, late, steady, renamed>>
vars     == <<folder, database, pc, cancelled, walk, draft, ghosts>>

-----------------------------------------------------------------------------
(* Types.                                                                  *)

\* locations.state; moved_candidate never leaves a transaction.
FoundStates == {"present", "unreadable"}
LostStates  == {"missing", "permission_denied", "offline_root", "unreadable"}
Row == [path : Paths, ino : Inodes, print : Contents,
        state : FoundStates \union LostStates,
        lineage : {"active", "missing"}, life : Nat]
Candidate == [path : Paths, ino : Inodes, links : Nat, print : Contents,
              state : FoundStates, life : Nat]

JobStates  == {"none", "running", "completed", "cancelled", "failed"}
RootStates == {"connected", "scanning", "ready", "error", "offline_volume",
               "needs_permission", "unavailable"}

\* The reasons a scan may fail for, as mark_failed tells them apart.
Reasons == {"offline_root", "permission_denied", "unreadable", "other"}
Flushing == [at : {"flush"}, next : {"entries", "unseen", "cancel"}]
Failing  == [at : {"fail"}, next : Reasons]
Place    == [at : {"idle", "walk", "entries", "probe", "unseen", "complete", "cancel", "lost"},
             next : {"none"}] \union Flushing \union Failing
At(s)       == [at |-> s, next |-> "none"]
Flush(next) == [at |-> "flush", next |-> next]

TypeOK ==
  /\ disk \in [Paths -> Inodes \union {NoInode}]
  /\ data \in [Inodes -> Contents]
  /\ denied \subseteq Dirs \union Inodes
  /\ rows \in Seq(Row) /\ draft \in Seq(Row)
  /\ job \in JobStates /\ root \in RootStates
  /\ pc \in Place /\ cancelled \in BOOLEAN
  /\ stack \in Seq(Dirs) /\ names \subseteq Entries /\ batch \in Seq(Candidate)
  /\ seen \subseteq Paths
  /\ excused \in [torn : SUBSET Paths, closed : SUBSET (Paths \union Dirs)]
  /\ life \in [Inodes -> Nat] /\ changes \in Nat /\ scans \in Nat
  /\ quiet \in BOOLEAN
  /\ standing \subseteq Paths /\ late \subseteq Paths /\ steady \subseteq Paths
  /\ renamed \subseteq Nat \X Paths

-----------------------------------------------------------------------------
(* The folder as the scan meets it.                                        *)

Occupied(d, p)  == d[p] # NoInode
HoldsMedia(d, c, p) == Occupied(d, p) /\ c[d[p]] \in Media
Links(i)        == Cardinality({p \in Paths : disk[p] = i})

\* A folder is reached through its own handle and its parents'.
Closed(d) == ({d} \union Above[d]) \intersect denied # {}

Readable(p) == Occupied(disk, p) /\ ~Closed(Parent[p]) /\ disk[p] \notin denied

\* open_relative_file answers NotFound, and nothing else.
StoredPathIsAbsent(p) == ~Occupied(disk, p) /\ ~Closed(Parent[p])

RowsAt(table, p) == {a \in DOMAIN table : table[a].path = p}

-----------------------------------------------------------------------------
(* Disk changes: what other programs do between any two steps of a scan.   *)

\* The folder is d, its inodes hold c and access is denied to n from here on.
Becomes(d, c, n) ==
  /\ disk' = d /\ data' = c /\ denied' = n
  /\ changes' = changes + 1
  /\ quiet' = FALSE
  /\ standing' = {p \in standing : HoldsMedia(d, c, p)} /\ UNCHANGED late
  /\ steady' = {p \in steady : Occupied(d, p)}

Elsewhere == UNCHANGED <<database, pc, cancelled, walk, draft, scans, renamed>>

\* A new file; its inode may have belonged to a file that was removed.
Create(p, i, c) ==
  /\ "create" \in Kinds /\ ~Occupied(disk, p) /\ Links(i) = 0
  /\ Becomes([disk EXCEPT ![p] = i], [data EXCEPT ![i] = c], denied \ {i})
  /\ life' = [life EXCEPT ![i] = @ + 1]
  /\ Elsewhere

Rename(p, q) ==
  /\ "rename" \in Kinds /\ p # q /\ Occupied(disk, p) /\ disk[p] # disk[q]
  /\ Becomes([disk EXCEPT ![p] = NoInode, ![q] = disk[p]], data, denied)
  /\ UNCHANGED life /\ Elsewhere

Link(p, q) ==
  /\ "link" \in Kinds /\ Occupied(disk, p) /\ ~Occupied(disk, q)
  /\ Becomes([disk EXCEPT ![q] = disk[p]], data, denied)
  /\ UNCHANGED life /\ Elsewhere

Remove(p) ==
  /\ "remove" \in Kinds /\ Occupied(disk, p)
  /\ Becomes([disk EXCEPT ![p] = NoInode], data, denied)
  /\ UNCHANGED life /\ Elsewhere

Edit(i, c) ==
  /\ "edit" \in Kinds /\ Links(i) > 0 /\ data[i] # c
  /\ Becomes(disk, [data EXCEPT ![i] = c], denied)
  /\ UNCHANGED life /\ Elsewhere

Protect(x) ==
  /\ "protect" \in Kinds
  /\ Becomes(disk, data, IF x \in denied THEN denied \ {x} ELSE denied \union {x})
  /\ UNCHANGED life /\ Elsewhere

DiskChange ==
  /\ changes < MaxChanges
  /\ \/ \E p \in Paths, i \in Inodes, c \in Contents : Create(p, i, c)
     \/ \E p, q \in Paths : Rename(p, q) \/ Link(p, q)
     \/ \E p \in Paths : Remove(p)
     \/ \E i \in Inodes, c \in Contents : Edit(i, c)
     \/ \E x \in Dirs \union Inodes : Protect(x)

-----------------------------------------------------------------------------
(* A scan begins; the walk.                                                *)

\* The assets a pure rename moved, on evidence a scan can see: their file has
\* one link and the contents of their revision, no other row knows its inode,
\* their own path is free and the new one was never catalogued.
EvidentRenames ==
  {move \in (DOMAIN rows) \X Paths : LET a == move[1]  q == move[2] IN
     /\ Readable(q) /\ disk[q] = rows[a].ino /\ Links(disk[q]) = 1
     /\ data[disk[q]] = rows[a].print
     /\ \A b \in DOMAIN rows \ {a} : rows[b].ino # rows[a].ino
     /\ StoredPathIsAbsent(rows[a].path)
     /\ RowsAt(rows, q) = {}}

\* Opening the database, the temporary table, the locals of run_scan.
Begin ==
  /\ pc = At("idle") /\ job # "running" /\ scans < MaxScans
  /\ pc' = At("walk") /\ job' = "running" /\ root' = "scanning"
  /\ stack' = <<Top>>
  /\ scans' = scans + 1 /\ quiet' = TRUE
  /\ standing' = {p \in Paths : HoldsMedia(disk, data, p)}
  /\ late' = {} /\ renamed' = EvidentRenames
  /\ UNCHANGED <<folder, rows, cancelled, names, batch, seen, excused, draft,
                 life, changes, steady>>

Walking == UNCHANGED <<folder, database, cancelled, draft, ghosts>>

SeeCancelled_FallsThrough ==
  /\ \/ pc = At("walk") /\ stack # <<>>
     \/ pc = At("entries") /\ names # {}
  /\ cancelled /\ pc' = Flush("unseen")
  /\ Walking /\ UNCHANGED walk

\* The flag is looked at before a folder, in it and before every entry.
SeeCancelled ==
  /\ \/ pc = At("walk") /\ stack # <<>>
     \/ pc = At("entries") /\ names # {}
  /\ cancelled
  /\ pc' = Flush("cancel")
  /\ Walking /\ UNCHANGED walk

\* A folder that is gone is skipped, which is what an empty one comes to.
ReadDirectory ==
  LET d == stack[Len(stack)] IN
  /\ pc = At("walk") /\ stack # <<>> /\ ~cancelled
  /\ stack' = SubSeq(stack, 1, Len(stack) - 1)
  /\ IF Closed(d)
     THEN /\ excused' = [excused EXCEPT !.closed = @ \union {d}]
          /\ UNCHANGED <<names, pc>>
     ELSE /\ names' = {e \in Entries : Parent[e] = d /\ (e \in Dirs \/ Occupied(disk, e))}
          /\ pc' = At("entries")
          /\ UNCHANGED excused
  /\ Walking /\ UNCHANGED <<batch, seen>>

WalkDone ==
  /\ \/ pc = At("entries") /\ names = {} /\ pc' = At("walk")
     \/ pc = At("walk") /\ stack = <<>> /\ pc' = Flush("unseen")
  /\ Walking /\ UNCHANGED walk

\* Names are sorted and taken from the last to the first.
Turn(e) == /\ pc = At("entries") /\ ~cancelled
           /\ e \in names /\ \A f \in names : f <= e
           /\ names' = names \ {e}

EnterDirectory_Upwards(d) ==
  /\ Turn(d) /\ stack' = Append(stack, Parent[d])
  /\ Walking /\ UNCHANGED <<pc, batch, seen, excused>>

EnterDirectory(d) ==
  /\ Turn(d)
  /\ IF Closed(d)
     THEN excused' = [excused EXCEPT !.closed = @ \union {d}] /\ UNCHANGED stack
     ELSE stack' = Append(stack, d) /\ UNCHANGED excused
  /\ Walking /\ UNCHANGED <<pc, batch, seen>>

\* The entry cannot be opened: through the folder, or the file itself.
EntryDenied(p) ==
  /\ Turn(p)
  /\ \/ Closed(Parent[p])
     \/ Occupied(disk, p) /\ disk[p] \in denied
  /\ excused' = [excused EXCEPT !.closed = @ \union {p}]
  /\ Walking /\ UNCHANGED <<pc, stack, batch, seen>>

\* Gone since the folder was read, or not a kind of media.
EntryIgnored(p) ==
  /\ Turn(p)
  /\ ~Closed(Parent[p])
  /\ \/ ~Occupied(disk, p)
     \/ Readable(p) /\ data[disk[p]] \notin Media
  /\ Walking /\ UNCHANGED <<pc, stack, batch, seen, excused>>

\* What the probe of a header comes to.  A sound image is unreadable too when
\* two seconds have passed, DIMENSION_READ_TIMEOUT, or a read fails.
ProbeMayFind(content) ==
  IF content \in Damaged THEN {"unreadable"}
  ELSE IF content \in Probed THEN FoundStates
  ELSE {"present"}

\* FileCandidate::inspect_file.
Inspect(p) ==
  LET i == disk[p] IN
  /\ Turn(p)
  /\ Readable(p) /\ data[i] \in Media
  /\ \E state \in ProbeMayFind(data[i]) :
       /\ batch' = Append(batch, [path |-> p, ino |-> i, links |-> Links(i),
                                  print |-> data[i], state |-> state, life |-> life[i]])
       /\ late' = IF state = "present" \/ data[i] \in Damaged THEN late ELSE late \union {p}
  /\ pc' = IF Len(batch') >= Batch THEN Flush("entries") ELSE pc
  /\ steady' = steady \union {p}
  /\ UNCHANGED <<folder, database, cancelled, draft, stack, seen, excused,
                 life, changes, scans, quiet, standing, renamed>>

\* The scan is cancelled while it probes a header.  InspectionReader refuses
\* from then on, with Interrupted, before it looks at its deadline.
CancelInProbe(p) ==
  /\ Turn(p) /\ Readable(p) /\ data[disk[p]] \in Probed
  /\ cancelled' = TRUE /\ pc' = At("probe")
  /\ UNCHANGED <<folder, database, draft, stack, batch, seen, excused, ghosts>>

\* A decoder that gives up lets the fingerprint find the flag.  One that reads
\* with read_exact asks again, for ever: nothing makes this step come.
GiveUpProbe ==
  /\ pc = At("probe") /\ pc' = Flush("cancel")
  /\ Walking /\ UNCHANGED walk

\* inspect_file found the file changed by the end of its reading: SourceRevisionChanged.
InspectTorn(p, c) ==
  LET i == disk[p] IN
  /\ "edit" \in Kinds /\ changes < MaxChanges
  /\ Turn(p) /\ Readable(p) /\ data[i] \in Media /\ data[i] # c
  /\ Becomes(disk, [data EXCEPT ![i] = c], denied)
  /\ excused' = [excused EXCEPT !.torn = @ \union {p}]
  /\ UNCHANGED <<database, pc, cancelled, stack, batch, seen, draft, life, scans, renamed>>

WalkStep ==
  \/ SeeCancelled \/ ReadDirectory \/ WalkDone
  \/ \E d \in Dirs : EnterDirectory(d)
  \/ \E p \in Paths : \/ EntryDenied(p) \/ EntryIgnored(p) \/ Inspect(p)
                      \/ \E c \in Contents : InspectTorn(p, c)

-----------------------------------------------------------------------------
(* flush_batch: one transaction; each candidate is matched in turn.        *)

\* The candidates whose turn it is, and the rows of its path.
Writing  == pc.at = "flush" /\ batch # <<>>
Here_FoundRows(c) == {a \in RowsAt(draft, c.path) : draft[a].state \in FoundStates}
Here(c)  == RowsAt(draft, c.path)

Relocatable_FoundRows(c) ==
  LET known == {a \in DOMAIN draft : draft[a].ino = c.ino /\ draft[a].path # c.path}
  IN {a \in known : /\ c.links = 1 /\ known = {a} /\ draft[a].print = c.print
                    /\ StoredPathIsAbsent(draft[a].path)
                    /\ draft[a].state \in FoundStates \union {"missing"}}
Relocatable_Occupied(c) ==
  LET known == {a \in DOMAIN draft : draft[a].ino = c.ino /\ draft[a].path # c.path}
  IN {a \in known : c.links = 1 /\ known = {a} /\ draft[a].print = c.print}
\* The one other row that knows the inode, when every other condition holds.
Relocatable(c) ==
  LET known == {a \in DOMAIN draft : draft[a].ino = c.ino /\ draft[a].path # c.path}
  IN {a \in known : /\ c.links = 1
                    /\ known = {a}
                    /\ draft[a].print = c.print
                    /\ StoredPathIsAbsent(draft[a].path)}

\* refresh_existing: a new revision when the fingerprint differs, and the
\* source is active again either way.
Refreshed(c) ==
  [path |-> c.path, ino |-> c.ino, print |-> c.print,
   state |-> c.state, lineage |-> "active", life |-> c.life]

Written ==
  /\ Writing /\ batch' = Tail(batch)
  /\ seen' = seen \union {Head(batch).path}
  /\ UNCHANGED <<folder, database, pc, cancelled, stack, names, excused, ghosts>>

RefreshKnown ==
  /\ Writing
  /\ \E a \in Here(Head(batch)) : draft' = [draft EXCEPT ![a] = Refreshed(Head(batch))]
  /\ Written

\* relocate_existing, then refresh_existing.
FollowRename ==
  /\ Writing /\ Here(Head(batch)) = {}
  /\ \E a \in Relocatable(Head(batch)) :
       draft' = [draft EXCEPT ![a] = Refreshed(Head(batch))]
  /\ Written

InsertNew ==
  /\ Writing /\ Here(Head(batch)) = {} /\ Relocatable(Head(batch)) = {}
  /\ draft' = Append(draft, Refreshed(Head(batch)))
  /\ Written

\* The commit; an empty batch returns before it, with nothing to commit.
Commit ==
  /\ pc.at = "flush" /\ batch = <<>>
  /\ rows' = draft
  /\ pc' = At(pc.next)
  /\ UNCHANGED <<folder, job, root, cancelled, walk, draft, ghosts>>

FlushStep == RefreshKnown \/ FollowRename \/ InsertNew \/ Commit

-----------------------------------------------------------------------------
(* How a scan ends.                                                        *)

Verdict_NextFolder(p) ==
  IF p \in excused.torn THEN "unreadable"
  ELSE IF {p, Parent[p]} \intersect excused.closed # {} THEN "permission_denied"
  ELSE "missing"

\* A path is excused by its own entry or by a folder on the way to it.
Verdict(p) ==
  IF p \in excused.torn THEN "unreadable"
  ELSE IF ({p} \union Above[p]) \intersect excused.closed # {} THEN "permission_denied"
  ELSE "missing"

\* mark_unseen: rows whose path this scan did not write.
Unseen(row) ==
  LET verdict == Verdict(row.path) IN
  IF row.path \in seen THEN row
  ELSE [row EXCEPT !.state = verdict,
                   !.lineage = IF verdict = "missing" THEN "missing" ELSE "active"]

MarkUnseen ==
  /\ pc = At("unseen")
  /\ draft' = [a \in DOMAIN rows |-> Unseen(rows[a])] /\ rows' = draft'
  /\ pc' = At("complete")
  /\ UNCHANGED <<folder, job, root, cancelled, walk, ghosts>>

\* run_scan has returned: its locals and its temporary table are gone.
Dropped ==
  /\ stack' = <<>> /\ names' = {} /\ batch' = <<>> /\ seen' = {}
  /\ excused' = [torn |-> {}, closed |-> {}]

\* The thread is gone, and what it held in memory.
Forget ==
  /\ pc' = At("idle") /\ cancelled' = FALSE
  /\ Dropped /\ standing' = {}
  /\ UNCHANGED <<folder, life, changes, scans, quiet, late, steady, renamed>>

Ends(outcome, state) == job' = outcome /\ root' = state /\ Forget

MarkCompleted == pc = At("complete") /\ Ends("completed", "ready") /\ UNCHANGED <<rows, draft>>
MarkCancelled == pc = At("cancel") /\ Ends("cancelled", "connected") /\ UNCHANGED <<rows, draft>>

\* The errors a stage lets out.  A folder removed while it is read answers
\* NotFound; a denied one ends the scan only where the package itself is
\* opened; what the database refuses is none of the three.
Fails ==
  /\ \E reason \in CASE pc.at = "walk"    -> Reasons
                    [] pc.at = "entries" -> {"unreadable", "other"}
                    [] pc.at \in {"flush", "unseen", "complete", "cancel"} -> {"other"}
                    [] OTHER             -> {} :
       pc' = [at |-> "fail", next |-> reason]
  /\ draft' = rows /\ Dropped
  /\ UNCHANGED <<folder, database, cancelled, ghosts>>

FailedRoot(reason) ==
  CASE reason = "offline_root"      -> "offline_volume"
    [] reason = "permission_denied" -> "needs_permission"
    [] reason = "unreadable"        -> "unavailable"
    [] reason = "other"             -> "error"

FailedRow_Missing(row) == [row EXCEPT !.state = "missing"]
FailedRow(row) == [row EXCEPT !.state = pc.next]

\* mark_failed: the state of every row, never its lineage or its evidence.
MarkFailed ==
  /\ pc.at = "fail"
  /\ draft' = IF pc.next = "other" THEN rows
              ELSE [a \in DOMAIN rows |-> FailedRow(rows[a])]
  /\ rows' = draft'
  /\ Ends("failed", FailedRoot(pc.next))

\* mark_failed fails too: the thread is gone and the engine asks for a restart.
MarkFails ==
  /\ pc.at = "fail" /\ pc' = At("lost")
  /\ UNCHANGED <<folder, database, cancelled, walk, draft, ghosts>>

EndStep == MarkUnseen \/ MarkCompleted \/ MarkCancelled \/ Fails \/ MarkFailed \/ MarkFails

\* CancelJob, or a library that closes.
Cancel ==
  /\ job = "running" /\ pc # At("lost") /\ ~cancelled
  /\ cancelled' = TRUE
  /\ UNCHANGED <<folder, database, pc, walk, draft, ghosts>>

\* The process stops at any point and the library is opened again.  An open
\* transaction is rolled back.
Restart ==
  /\ draft' = rows
  /\ job' = IF job = "running" THEN "failed" ELSE job
  /\ root' = IF root \in {"scanning", "error"} THEN "error" ELSE "needs_permission"
  /\ Forget /\ UNCHANGED rows

-----------------------------------------------------------------------------

Init ==
  /\ disk = FirstDisk /\ data = FirstData /\ denied = {}
  /\ rows = <<>> /\ job = "none" /\ root = "connected"
  /\ pc = At("idle") /\ cancelled = FALSE
  /\ stack = <<>> /\ names = {} /\ batch = <<>> /\ seen = {}
  /\ excused = [torn |-> {}, closed |-> {}]
  /\ draft = <<>>
  /\ life = [i \in Inodes |-> 0] /\ changes = 0 /\ scans = 0
  /\ quiet = FALSE /\ standing = {} /\ late = {} /\ steady = {} /\ renamed = {}

ScanStep == WalkStep \/ FlushStep \/ EndStep

Next ==
  \/ DiskChange \/ Begin \/ ScanStep \/ Cancel \/ Restart
  \/ GiveUpProbe \/ \E p \in Paths : CancelInProbe(p)

Spec == Init /\ [][Next]_vars

\* A scan thread runs until it returns, unless it is caught in a probe; nobody
\* else has to do anything.
FairSpec == Spec /\ WF_vars(ScanStep)

-----------------------------------------------------------------------------
(* Properties.                                                             *)

OnePerPath(table) == \A a, b \in DOMAIN table : table[a].path = table[b].path => a = b

\* UNIQUE (root_id, relative_path_bytes) is never what ends a scan: however
\* files are renamed between the entries of one batch, no row is moved onto
\* or inserted at a path the catalogue already has.
OneRowPerPath == OnePerPath(rows) /\ OnePerPath(draft)

\* A sound image is unreadable only where this very scan ran out of time.
MayShow(p, content) ==
  IF content \in Damaged THEN {"unreadable"}
  ELSE IF p \in late THEN FoundStates
  ELSE {"present"}

\* What the catalogue should say of path p, from what the folder holds there.
Mirrors(row, p) ==
  IF ~Occupied(disk, p)
  THEN row.state \in IF Closed(Parent[p]) THEN {"permission_denied"} ELSE {"missing"}
  ELSE IF ~Readable(p) THEN row.state = "permission_denied"
  ELSE IF data[disk[p]] \notin Media THEN row.state = "missing"
  ELSE /\ row.ino = disk[p] /\ row.print = data[disk[p]]
       /\ row.state \in MayShow(p, row.print)

\* A completed scan of a folder nobody touched meanwhile leaves a catalogue
\* that says of every path what the folder holds there, every readable media
\* file once, whatever cancelled, failed and interrupted scans came before and
\* whatever their probes had no time for.
CompletedScanMirrorsFolder ==
  job = "completed" /\ quiet =>
    /\ \A a \in DOMAIN rows :
         /\ Mirrors(rows[a], rows[a].path)
         /\ (rows[a].lineage = "missing") <=> (rows[a].state = "missing")
    /\ \A p \in Paths : Readable(p) /\ data[disk[p]] \in Media => RowsAt(rows, p) # {}

\* A rename that was evident when a quiet scan began keeps the asset, also
\* when scans failed, were cancelled or were cut off since the file was last
\* seen: none of them spoils the evidence it leaves behind.
EvidentRenamesAreFollowed ==
  job = "completed" /\ quiet => \A r \in renamed : rows[r[1]].path = r[2]

\* Nothing is reported missing while it stands: only a scan that read the
\* folder to its end marks rows missing, and only rows of paths that did not
\* hold media all through that scan.
MissingIsEarned ==
  [][\A a \in DOMAIN rows :
       rows'[a].state = "missing" /\ rows[a].state # "missing"
         => rows[a].path \notin standing]_vars

\* An asset is not taken from a path that was occupied ever since a scan last
\* inspected it: an editor that links a backup and replaces the file by a
\* rename does not move the curation to the backup.
StandingPathsKeepAssets ==
  [][\A a \in DOMAIN rows : rows'[a].path # rows[a].path => rows[a].path \notin steady]_vars

\* docs/specs/TRACER_T02.md:42 says that delete-plus-copy with identical bytes
\* never infers identity: a row moves only along with the very file it had.
DeletePlusCopyIsNotIdentity ==
  [][Written => \A a \in DOMAIN draft :
       draft'[a].path # draft[a].path => draft'[a].life = draft[a].life]_vars

\* The catalogue its readers see, and how far the scan that writes it is.
Shown(table) == [a \in DOMAIN table |-> [path |-> table[a].path, state |-> table[a].state]]

Phase ==
  CASE pc.at = "idle"             -> "idle"
    [] pc.at = "complete"         -> "settled"
    [] pc.at \in {"fail", "lost"} -> "broken"
    [] OTHER                      -> "recording"

Promised == INSTANCE Catalogue WITH
  Places  <- Paths, Found <- FoundStates, Lost <- LostStates,
  entries <- Shown(rows), phase <- Phase, outcome <- job

\* The scan keeps the promise: batches, moves, the loss of what was not seen
\* and the end of the scan are separate transactions, any of them may be the
\* last, and no reader ever sees half of one.
KeepsCatalogue == Promised!CatalogueSpec

\* A scan thread writes how it ended, whatever was renamed, denied and cancelled
\* on its way.  Two ends are no such end: one that the database refused, of which
\* nobody may hear, and a cancelled probe that never gives up.
ScanEnds == job = "running" ~> (job # "running" \/ pc \in {At("lost"), At("probe")})
=============================================================================
