--------------------------- MODULE WriterLockProofs ---------------------------
(***************************************************************************)
(* The inductive invariant of WriterLock, and what follows for writers.    *)
(***************************************************************************)
EXTENDS WriterLock, TLAPS

\* Whatever a session does, Move is all it does to the stages and the files.
LEMMA MoveKeepsOthers ==
  ASSUME TypeOK, NEW p \in Processes, NEW from, NEW to, NEW f,
         Move(p, from, to, f)
  PROVE  /\ pc[p] = from /\ pc'[p] = to /\ file'[p] = f
         /\ \A q \in Processes \ {p} : pc'[q] = pc[q] /\ file'[q] = file[q]
BY DEF Move, TypeOK

\* Every variable keeps its type, and no session has two descriptors.
LEMMA TypeStep == TypeOK /\ [Next]_vars => TypeOK'
<1> SUFFICES ASSUME TypeOK, [Next]_vars PROVE TypeOK'
    OBVIOUS
<1>1. ASSUME NEW p \in Processes, OpenLockFile(p) PROVE TypeOK'
  <2>1. linked' \in SUBSET Inodes /\ linked' # {} /\ \A i, k \in linked' : i = k
    BY <1>1 DEF OpenLockFile, TypeOK, Unlinked
  <2> QED BY <1>1, <2>1 DEF OpenLockFile, Move, TypeOK, Stages
<1>2. ASSUME NEW p \in Processes, CheckLinks(p) PROVE TypeOK'
  BY <1>2 DEF CheckLinks, Move, TypeOK, Stages
<1>3. ASSUME NEW p \in Processes, TryLock(p) PROVE TypeOK'
  BY <1>3 DEF TryLock, Move, TypeOK, Stages
<1>4. ASSUME NEW p \in Processes, FinishOpen(p) PROVE TypeOK'
  BY <1>4 DEF FinishOpen, Move, TypeOK, Stages
<1>5. ASSUME NEW p \in Processes, Unlock(p) PROVE TypeOK'
  BY <1>5 DEF Unlock, Move, TypeOK, Stages
<1>6. ASSUME NEW p \in Processes, Unlink(p) PROVE TypeOK'
  BY <1>6 DEF Unlink, Move, TypeOK, Stages
<1>7. ASSUME NEW p \in Processes, GiveUp(p) PROVE TypeOK'
  BY <1>7 DEF GiveUp, Move, TypeOK, Stages
<1>8. CASE UNCHANGED vars
  BY <1>8 DEF vars, TypeOK
<1> QED BY <1>1, <1>2, <1>3, <1>4, <1>5, <1>6, <1>7, <1>8 DEF Next

\* A step that keeps the name, and lets p rely on a file only if the name links
\* to it, keeps everyone on the file the name links to.
LEMMA NameStep ==
  ASSUME LockInv, [Next]_vars PROVE ReliesOnName'
<1>1. ASSUME NEW p \in Processes, OpenLockFile(p) PROVE ReliesOnName'
  <2>1. linked # {} => linked' = linked
    BY <1>1 DEF OpenLockFile
  <2>2. pc'[p] = "opened"
     /\ \A q \in Processes \ {p} : pc'[q] = pc[q] /\ file'[q] = file[q]
    BY <1>1, MoveKeepsOthers DEF OpenLockFile, LockInv
  <2>3. \A q \in Processes : Relies(q) => file[q] # {}
    BY DEF LockInv, TypeOK, Relies, Holds
  <2> QED BY <1>1, <2>1, <2>2, <2>3
          DEF OpenLockFile, LockInv, ReliesOnName, Relies, Holds
<1>2. ASSUME NEW p \in Processes, CheckLinks(p) PROVE ReliesOnName'
  <2>1. pc[p] = "opened" /\ file'[p] \in {file[p], {}}
     /\ (pc'[p] = "checked" => file[p] \subseteq linked /\ file'[p] = file[p])
     /\ pc'[p] \in {"checked", "idle"}
     /\ \A q \in Processes \ {p} : pc'[q] = pc[q] /\ file'[q] = file[q]
    BY <1>2, MoveKeepsOthers DEF CheckLinks, LockInv
  <2>2. pc'[p] = "checked" => file'[p] = linked
    BY <2>1 DEF LockInv, TypeOK
  <2> QED BY <1>2, <2>1, <2>2
          DEF CheckLinks, LockInv, ReliesOnName, Relies, Holds
<1>3. ASSUME NEW p \in Processes, TryLock(p) \/ FinishOpen(p) PROVE ReliesOnName'
  <2>1. Relies(p) /\ (Relies(p)' => file'[p] = file[p])
     /\ \A q \in Processes \ {p} : pc'[q] = pc[q] /\ file'[q] = file[q]
    BY <1>3, MoveKeepsOthers DEF TryLock, FinishOpen, LockInv, Relies, Holds
  <2> QED BY <1>3, <2>1
          DEF TryLock, FinishOpen, LockInv, ReliesOnName, Relies, Holds
<1>4. ASSUME NEW p \in Processes, Unlock(p) \/ GiveUp(p) PROVE ReliesOnName'
  <2>1. pc'[p] \in {"unlocked", "idle"}
     /\ \A q \in Processes \ {p} : pc'[q] = pc[q] /\ file'[q] = file[q]
    BY <1>4, MoveKeepsOthers DEF Unlock, GiveUp, LockInv
  <2> QED BY <1>4, <2>1
          DEF Unlock, GiveUp, LockInv, ReliesOnName, Relies, Holds
<1>5. ASSUME NEW p \in Processes, Unlink(p) PROVE ReliesOnName'
  <2>1. pc'[p] = "idle"
     /\ \A q \in Processes \ {p} : pc'[q] = pc[q] /\ file'[q] = file[q]
    BY <1>5, MoveKeepsOthers DEF Unlink, LockInv
  <2>2. ~raced' => ~raced /\ \A q \in Processes : Relies(q) => file[q] # linked
    BY <1>5 DEF Unlink
  <2>3. ~raced' => \A q \in Processes : ~Relies(q)
    BY <2>2 DEF LockInv, ReliesOnName
  <2> QED BY <2>1, <2>3 DEF ReliesOnName, Relies, Holds
<1>6. CASE UNCHANGED vars
  BY <1>6 DEF vars, LockInv, ReliesOnName, Relies, Holds
<1> QED BY <1>1, <1>2, <1>3, <1>4, <1>5, <1>6 DEF Next

\* No lock is held twice: TryLock looks at every holder of the same file.
LEMMA HolderStep ==
  ASSUME LockInv, [Next]_vars PROVE OneHolder'
<1>1. ASSUME NEW p \in Processes, TryLock(p) PROVE OneHolder'
  <2>1. /\ pc'[p] = "locked" =>
             file'[p] = file[p] /\ \A q \in Processes : Holds(q) => file[q] # file[p]
        /\ pc'[p] \in {"locked", "idle"}
        /\ \A q \in Processes \ {p} : pc'[q] = pc[q] /\ file'[q] = file[q]
    BY <1>1, MoveKeepsOthers DEF TryLock, LockTaken, LockInv
  <2> QED BY <2>1 DEF LockInv, OneHolder, Holds
<1>2. ASSUME NEW p \in Processes, FinishOpen(p) PROVE OneHolder'
  <2>1. Holds(p) /\ file'[p] = file[p]
     /\ \A q \in Processes \ {p} : pc'[q] = pc[q] /\ file'[q] = file[q]
    BY <1>2, MoveKeepsOthers DEF FinishOpen, LockInv, Holds
  <2> QED BY <2>1 DEF LockInv, OneHolder, Holds
<1>3. ASSUME NEW p \in Processes,
             OpenLockFile(p) \/ CheckLinks(p) \/ Unlock(p) \/ Unlink(p) \/ GiveUp(p)
      PROVE  OneHolder'
  <2>1. pc'[p] \in {"opened", "checked", "unlocked", "idle"}
     /\ \A q \in Processes \ {p} : pc'[q] = pc[q] /\ file'[q] = file[q]
    BY <1>3, MoveKeepsOthers
       DEF OpenLockFile, CheckLinks, Unlock, Unlink, GiveUp, LockInv
  <2> QED BY <2>1 DEF LockInv, OneHolder, Holds
<1>4. CASE UNCHANGED vars
  BY <1>4 DEF vars, LockInv, OneHolder, Holds
<1> QED BY <1>1, <1>2, <1>3, <1>4 DEF Next

\* The invariant that ties the holders of the lock to the name of its file.
THEOREM LockInvariant == Spec => []LockInv
<1>1. Init => LockInv
  BY DEF Init, LockInv, TypeOK, ReliesOnName, OneHolder, Relies, Holds, Stages
<1>2. LockInv /\ [Next]_vars => LockInv'
  BY TypeStep, NameStep, HolderStep DEF LockInv
<1> QED BY <1>1, <1>2, PTL DEF Spec

\* For any number of processes, a removal that hits a file some opener has
\* found safe (close unlinks after unlocking) is the only way to two writers.
THEOREM WritersApartUnlessRaced == Spec => []OneWriterUnlessRaced
<1>1. LockInv => OneWriterUnlessRaced
  BY DEF LockInv, ReliesOnName, OneHolder, OneWriterUnlessRaced, OneWriter,
         Relies, Holds
<1> QED BY <1>1, LockInvariant, PTL
=============================================================================
