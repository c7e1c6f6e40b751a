------------------------------ MODULE WriterLock ------------------------------
(***************************************************************************)
(* The lock file of one Library package (session.rs: open_writer_lock,     *)
(* open, close), taken by sessions of different helper processes.          *)
(*                                                                         *)
(* The name .writer.lock links to at most one inode.  An opener creates or *)
(* opens the file, inspects the link count of what it opened, and only     *)
(* then locks it.  A closer unlocks and then unlinks whatever the name     *)
(* links to at that moment.                                                *)
(***************************************************************************)
EXTENDS FiniteSets

CONSTANTS
  Processes,  (* sessions that open and close the package, again and again *)
  Inodes      (* identities a new lock file may get                        *)

VARIABLES
  linked,  (* what the name links to: no inode or one                      *)
  pc,      (* where a session stands                                       *)
  file,    (* the inode whose descriptor it keeps, if any                  *)
  raced    (* history: an unlink hit a file that an opener relied on       *)

vars == <<linked, pc, file, raced>>

\* opened: has the descriptor; checked: found it safe; locked: holds the lock
\* and migrates or recovers; open: has the session; unlocked: closing.
Stages == {"idle", "opened", "checked", "locked", "open", "unlocked"}

Holds(p)   == pc[p] \in {"locked", "open"}
Relies(p)  == pc[p] = "checked" \/ Holds(p)
Unlinked   == Inodes \ (linked \union UNION {file[p] : p \in Processes})

Init ==
  /\ linked = {}
  /\ pc = [p \in Processes |-> "idle"]
  /\ file = [p \in Processes |-> {}]
  /\ raced = FALSE

Move(p, from, to, f) ==
  /\ pc[p] = from
  /\ pc' = [pc EXCEPT ![p] = to]
  /\ file' = [file EXCEPT ![p] = f]

\* openat with O_CREAT: the file the name links to, or a new one.
OpenLockFile(p) ==
  /\ \/ linked # {} /\ UNCHANGED linked
     \/ linked = {} /\ \E i \in Unlinked : linked' = {i}
  /\ Move(p, "idle", "opened", linked')
  /\ UNCHANGED raced

\* metadata.nlink() != 1 refuses a file that was unlinked meanwhile.
CheckLinks_Skipped(p) ==
  /\ Move(p, "opened", "checked", file[p])
  /\ UNCHANGED <<linked, raced>>
CheckLinks(p) ==
  /\ \/ file[p] \subseteq linked /\ Move(p, "opened", "checked", file[p])
     \/ ~(file[p] \subseteq linked) /\ Move(p, "opened", "idle", {})
  /\ UNCHANGED <<linked, raced>>

LockTaken(p) == \E q \in Processes : Holds(q) /\ file[q] = file[p]

TryLock(p) ==
  /\ \/ ~LockTaken(p) /\ Move(p, "checked", "locked", file[p])
     \/ LockTaken(p) /\ Move(p, "checked", "idle", {})
  /\ UNCHANGED <<linked, raced>>

\* The schema is migrated, interrupted work recovered: the session exists.
FinishOpen(p) ==
  /\ Move(p, "locked", "open", file[p])
  /\ UNCHANGED <<linked, raced>>

\* close, after the checkpoint and the manifest: unlock, then remove_file.
Unlock(p) ==
  /\ Move(p, "open", "unlocked", {})
  /\ UNCHANGED <<linked, raced>>

Unlink(p) ==
  /\ Move(p, "unlocked", "idle", {})
  /\ linked' = {}
  /\ raced' = (raced \/ \E q \in Processes : Relies(q) /\ file[q] = linked)

\* The descriptor goes, and the lock with it, while the file stays: an open
\* that failed, a close that could not write the manifest, or a crash.
GiveUp(p) ==
  /\ pc[p] # "idle" /\ Move(p, pc[p], "idle", {})
  /\ UNCHANGED <<linked, raced>>

Next ==
  \E p \in Processes :
    \/ OpenLockFile(p) \/ CheckLinks(p) \/ TryLock(p) \/ FinishOpen(p)
    \/ Unlock(p) \/ Unlink(p) \/ GiveUp(p)

Spec == Init /\ [][Next]_vars

-----------------------------------------------------------------------------

\* Every variable has its type; the name links to one inode at most, and a
\* session has a descriptor exactly from opening the file to unlocking it.
TypeOK ==
  /\ linked \in SUBSET Inodes /\ \A i, k \in linked : i = k
  /\ pc \in [Processes -> Stages]
  /\ file \in [Processes -> SUBSET Inodes]
  /\ \A p \in Processes : file[p] = {} <=> pc[p] \in {"idle", "unlocked"}
  /\ raced \in BOOLEAN

\* "Core owns locking" (ADR-004, line 8), "locks one writer" (TRACER_T01.md,
\* line 42): two sessions never write one package at the same time.
OneWriter == \A p, q \in Processes : Holds(p) /\ Holds(q) => p = q

\* The inspection of the link count and the lock together keep two writers
\* apart through crashes, failed opens and failed closes, as long as no closer
\* unlinks a file that an opener has found safe: the gap between unlock and
\* remove_file in close is the only way to two writers.
OneWriterUnlessRaced == ~raced => OneWriter

\* What makes it inductive: without that race, everyone who relies on a file
\* relies on the one the name links to, and no lock is held twice.
ReliesOnName ==
  ~raced => \A p \in Processes : Relies(p) => file[p] = linked
OneHolder ==
  \A p, q \in Processes : Holds(p) /\ Holds(q) /\ file[p] = file[q] => p = q

LockInv == TypeOK /\ ReliesOnName /\ OneHolder
=============================================================================
