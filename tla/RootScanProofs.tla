---------------------------- MODULE RootScanProofs ----------------------------
(***************************************************************************)
(* The scan of a root for every folder of files, every number of scans and *)
(* of changes that others make meanwhile: what its transactions keep of    *)
(* the catalogue, and what a file must have done to be reported missing.   *)
(***************************************************************************)
EXTENDS RootScan, FiniteSetTheorems, SequenceTheorems, TLAPS

-----------------------------------------------------------------------------
(* Types.                                                                  *)

FolderTyped ==
  /\ disk \in [Paths -> Inodes \union {NoInode}]
  /\ data \in [Inodes -> Contents]
  /\ denied \subseteq Dirs \union Inodes
  /\ life \in [Inodes -> Nat] /\ changes \in Nat /\ scans \in Nat
  /\ quiet \in BOOLEAN
  /\ standing \subseteq Paths /\ late \subseteq Paths /\ steady \subseteq Paths
  /\ renamed \subseteq Nat \X Paths

TableTyped ==
  /\ rows \in Seq(Row) /\ draft \in Seq(Row)
  /\ job \in JobStates /\ root \in RootStates

WalkTyped ==
  /\ pc \in Place /\ cancelled \in BOOLEAN
  /\ stack \in Seq(Dirs) /\ names \subseteq Entries /\ batch \in Seq(Candidate)
  /\ seen \subseteq Paths
  /\ excused \in [torn : SUBSET Paths, closed : SUBSET (Paths \union Dirs)]

LEMMA TypesAreParts == TypeOK <=> FolderTyped /\ TableTyped /\ WalkTyped
BY DEF TypeOK, FolderTyped, TableTyped, WalkTyped

LEMMA TypesArePartsNext == TypeOK' <=> FolderTyped' /\ TableTyped' /\ WalkTyped'
BY DEF TypeOK, FolderTyped, TableTyped, WalkTyped

LEMMA LinksAreNatural == \A i \in Inodes : Links(i) \in Nat
<1> TAKE i \in Inodes
<1>1. {p \in Paths : disk[p] = i} \subseteq Paths
  OBVIOUS
<1>2. IsFiniteSet({p \in Paths : disk[p] = i})
  BY <1>1, FS_Subset, FolderAssumption
<1> QED BY <1>2, FS_CardinalityType DEF Links

LEMMA EntriesAreNamed ==
  /\ Paths \subseteq Entries /\ Dirs \ {Top} \subseteq Entries
  /\ Entries \subseteq Paths \union Dirs
  /\ \A p \in Paths : Parent[p] \in Dirs
BY FolderAssumption, TreeAssumption DEF Entries

\* A path is reached through the folders above it, and a folder that is not its
\* own leads to it by another one of them.
LEMMA TheWay ==
  ASSUME NEW p \in Paths
  PROVE  /\ Above[p] \subseteq Dirs /\ Top \in Above[p] /\ Parent[p] \in Above[p]
         /\ p \notin Above[p]
         /\ \A d \in Above[p] \ {Parent[p]} :
              \E f \in Above[p] : f \in Entries /\ f \in Dirs /\ Parent[f] = d
         /\ \A d \in Above[p] : Closed(d) => Closed(Parent[p])
<1>1. p \in Entries /\ p \notin Dirs
  BY EntriesAreNamed, FolderAssumption
<1>2. /\ Above[p] \in SUBSET Dirs /\ Top \in Above[p]
      /\ Above[p] = {Parent[p]} \union Above[Parent[p]]
      /\ \A d \in Above[p] : Above[d] \subseteq Above[p]
      /\ \A d \in Above[p] \ {Parent[p]} : \E f \in Above[p] \ {Top} : Parent[f] = d
  BY <1>1, TreeAssumption
<1>3. \A f \in Above[p] \ {Top} : f \in Entries /\ f \in Dirs
  BY <1>2, EntriesAreNamed
<1>4. \A d \in Above[p] : Closed(d) => Closed(Parent[p])
  BY <1>2 DEF Closed
<1> QED BY <1>1, <1>2, <1>3, <1>4

LEMMA RefreshedRow ==
  ASSUME NEW c \in Candidate
  PROVE  /\ Refreshed(c) \in Row
         /\ Refreshed(c).path = c.path /\ Refreshed(c).state \in FoundStates
<1>1. PICK s \in FoundStates : Refreshed(c) =
        [path |-> c.path, ino |-> c.ino, print |-> c.print, state |-> s,
         lineage |-> "active", life |-> c.life]
  BY DEF Refreshed, Candidate
<1>2. /\ c.path \in Paths /\ c.ino \in Inodes /\ c.print \in Contents /\ c.life \in Nat
  BY DEF Candidate
<1>3. s \in FoundStates \union LostStates /\ "active" \in {"active", "missing"}
  OBVIOUS
<1>4. Refreshed(c) \in Row
  <2> HIDE DEF FoundStates, LostStates
  <2> DEFINE states == FoundStates \union LostStates
             lines  == {"active", "missing"}
  <2> HIDE DEF states, lines
  <2>1. s \in states /\ "active" \in lines
    BY <1>3 DEF states, lines
  <2>2. Row = [path : Paths, ino : Inodes, print : Contents, state : states,
               lineage : lines, life : Nat]
    BY DEF Row, states, lines
  <2> QED BY <1>1, <1>2, <2>1, <2>2
<1> QED BY <1>1, <1>4

LEMMA LostRow ==
  ASSUME NEW row \in Row, NEW s \in LostStates, NEW l \in {"active", "missing"}
  PROVE  /\ [row EXCEPT !.state = s] \in Row
         /\ [row EXCEPT !.state = s, !.lineage = l] \in Row
<1> DEFINE states == FoundStates \union LostStates
           lines  == {"active", "missing"}
<1>1. Row = [path : Paths, ino : Inodes, print : Contents, state : states,
             lineage : lines, life : Nat]
  BY DEF Row
<1>2. s \in states /\ l \in lines
  OBVIOUS
<1> HIDE DEF states, lines
<1>3. [row EXCEPT !.state = s] \in Row
  BY <1>1, <1>2
<1>4. [[row EXCEPT !.state = s] EXCEPT !.lineage = l] \in Row
  BY <1>1, <1>2, <1>3
<1> QED BY <1>3, <1>4

LEMMA ChangeTyped ==
  ASSUME FolderTyped,
         NEW d \in [Paths -> Inodes \union {NoInode}], NEW c \in [Inodes -> Contents],
         NEW n \in SUBSET (Dirs \union Inodes), Becomes(d, c, n),
         life' \in [Inodes -> Nat], scans' = scans, renamed' = renamed
  PROVE  FolderTyped'
<1>1. /\ disk' = d /\ data' = c /\ denied' = n /\ changes' \in Nat
  BY DEF Becomes, FolderTyped
<1>2. quiet' = FALSE
  BY DEF Becomes
<1>3. standing' \subseteq Paths /\ late' \subseteq Paths /\ steady' \subseteq Paths
  BY DEF Becomes, FolderTyped
<1> QED BY <1>1, <1>2, <1>3 DEF FolderTyped

\* What other programs do stays in the folder.
LEMMA FolderStep ==
  ASSUME FolderTyped, DiskChange
  PROVE  FolderTyped' /\ UNCHANGED <<database, pc, cancelled, walk, draft>>
<1>1. Elsewhere /\ scans' = scans /\ renamed' = renamed
  BY DEF DiskChange, Create, Rename, Link, Remove, Edit, Protect, Elsewhere
<1>2. denied \subseteq Dirs \union Inodes /\ life \in [Inodes -> Nat]
  BY DEF FolderTyped
<1>3. ASSUME NEW p \in Paths, NEW i \in Inodes, NEW c \in Contents, Create(p, i, c)
      PROVE  FolderTyped'
  <2>1. Becomes([disk EXCEPT ![p] = i], [data EXCEPT ![i] = c], denied \ {i})
    BY <1>3 DEF Create
  <2>2. /\ [disk EXCEPT ![p] = i] \in [Paths -> Inodes \union {NoInode}]
        /\ [data EXCEPT ![i] = c] \in [Inodes -> Contents]
        /\ denied \ {i} \in SUBSET (Dirs \union Inodes)
    BY DEF FolderTyped
  <2>3. life' \in [Inodes -> Nat]
    BY <1>3 DEF Create, FolderTyped
  <2> QED BY <1>1, <2>1, <2>2, <2>3, ChangeTyped
<1>4. ASSUME NEW p \in Paths, NEW q \in Paths, Rename(p, q) \/ Link(p, q)
      PROVE  FolderTyped'
  <2>1. PICK d \in [Paths -> Inodes \union {NoInode}] : Becomes(d, data, denied)
    BY <1>4 DEF Rename, Link, FolderTyped
  <2>2. life' = life
    BY <1>4 DEF Rename, Link
  <2> QED BY <1>1, <1>2, <2>1, <2>2, ChangeTyped DEF FolderTyped
<1>5. ASSUME NEW p \in Paths, Remove(p) PROVE FolderTyped'
  <2>1. PICK d \in [Paths -> Inodes \union {NoInode}] : Becomes(d, data, denied)
    BY <1>5 DEF Remove, FolderTyped
  <2> QED BY <1>1, <1>2, <1>5, <2>1, ChangeTyped DEF Remove, FolderTyped
<1>6. ASSUME NEW i \in Inodes, NEW c \in Contents, Edit(i, c) PROVE FolderTyped'
  <2>1. PICK m \in [Inodes -> Contents] : Becomes(disk, m, denied)
    BY <1>6 DEF Edit, FolderTyped
  <2> QED BY <1>1, <1>2, <1>6, <2>1, ChangeTyped DEF Edit, FolderTyped
<1>7. ASSUME NEW x \in Dirs \union Inodes, Protect(x) PROVE FolderTyped'
  <2>1. PICK n \in SUBSET (Dirs \union Inodes) : Becomes(disk, data, n)
    BY <1>7 DEF Protect, FolderTyped
  <2> QED BY <1>1, <1>2, <1>7, <2>1, ChangeTyped DEF Protect, FolderTyped
<1> QED BY <1>1, <1>3, <1>4, <1>5, <1>6, <1>7 DEF DiskChange, Elsewhere

\* Where the walk stands, and where it goes.
LEMMA WalkPlaces ==
  ASSUME WalkStep
  PROVE  /\ pc.at \in {"walk", "entries"} /\ pc # At("idle") /\ pc' # At("idle")
         /\ pc'.at \in {"walk", "entries", "flush"}
         /\ pc' \in {pc, At("walk"), At("entries"),
                    Flush("cancel"), Flush("entries"), Flush("unseen")}
<1>1. pc \in {At("walk"), At("entries")}
  BY DEF WalkStep, SeeCancelled, ReadDirectory, WalkDone, EnterDirectory, EntryDenied,
         EntryIgnored, Inspect, InspectTorn, Turn
<1>2. pc' \in {pc, At("walk"), At("entries"), Flush("cancel"), Flush("entries"), Flush("unseen")}
  BY <1>1 DEF WalkStep, SeeCancelled, ReadDirectory, WalkDone, EnterDirectory, EntryDenied,
              EntryIgnored, Inspect, InspectTorn, Turn
<1> QED BY <1>1, <1>2 DEF At, Flush

\* The walk writes no table.
LEMMA WalkStepKeeps ==
  ASSUME WalkStep
  PROVE  UNCHANGED <<database, cancelled, draft, life, scans, renamed>>
<1>1. ASSUME NEW d \in Dirs, EnterDirectory(d)
      PROVE  UNCHANGED <<database, cancelled, draft, ghosts>>
  BY <1>1 DEF EnterDirectory, Walking
<1>2. ASSUME NEW p \in Paths, EntryDenied(p) \/ EntryIgnored(p)
      PROVE  UNCHANGED <<database, cancelled, draft, ghosts>>
  BY <1>2 DEF EntryDenied, EntryIgnored, Walking
<1>3. ASSUME NEW p \in Paths, Inspect(p)
      PROVE  UNCHANGED <<database, cancelled, draft, life, scans, renamed>>
  BY <1>3 DEF Inspect
<1>4. ASSUME NEW p \in Paths, NEW c \in Contents, InspectTorn(p, c)
      PROVE  UNCHANGED <<database, cancelled, draft, life, scans, renamed>>
  BY <1>4 DEF InspectTorn
<1>5. CASE SeeCancelled \/ ReadDirectory \/ WalkDone
  BY <1>5 DEF SeeCancelled, ReadDirectory, WalkDone, Walking, ghosts
<1> QED BY <1>1, <1>2, <1>3, <1>4, <1>5 DEF WalkStep, ghosts

LEMMA WalkStepTyped ==
  ASSUME TypeOK, WalkStep
  PROVE  FolderTyped' /\ WalkTyped'
<1> USE TypesAreParts
<1>1. CASE SeeCancelled
  BY <1>1 DEF SeeCancelled, Walking, folder, ghosts, walk, FolderTyped, WalkTyped, Flush,
              Place, Flushing
<1>2. CASE ReadDirectory
  <2>1. stack' \in Seq(Dirs)
    BY <1>2 DEF ReadDirectory, WalkTyped
  <2>2. stack[Len(stack)] \in Dirs
    BY <1>2 DEF ReadDirectory, WalkTyped
  <2>3. pc' \in Place
    BY <1>2 DEF ReadDirectory, WalkTyped, At, Place
  <2>4. names' \subseteq Entries /\ UNCHANGED <<cancelled, batch, seen>>
    BY <1>2 DEF ReadDirectory, WalkTyped, Walking
  <2>5. excused' \in [torn : SUBSET Paths, closed : SUBSET (Paths \union Dirs)]
    BY <1>2, <2>2 DEF ReadDirectory, WalkTyped
  <2>6. UNCHANGED <<folder, ghosts>>
    BY <1>2 DEF ReadDirectory, Walking
  <2> QED BY <2>1, <2>3, <2>4, <2>5, <2>6 DEF WalkTyped, FolderTyped, folder, ghosts
<1>3. CASE WalkDone
  BY <1>3 DEF WalkDone, Walking, folder, ghosts, walk, FolderTyped, WalkTyped, At, Flush,
              Place, Flushing
<1>4. ASSUME NEW d \in Dirs, EnterDirectory(d) PROVE FolderTyped' /\ WalkTyped'
  <2>1. stack' \in Seq(Dirs)
    BY <1>4 DEF EnterDirectory, WalkTyped
  <2>2. excused' \in [torn : SUBSET Paths, closed : SUBSET (Paths \union Dirs)]
    BY <1>4 DEF EnterDirectory, WalkTyped
  <2> QED BY <1>4, <2>1, <2>2 DEF EnterDirectory, Turn, Walking, WalkTyped, FolderTyped, folder, ghosts
<1>5. ASSUME NEW p \in Paths, EntryDenied(p) \/ EntryIgnored(p)
      PROVE  FolderTyped' /\ WalkTyped'
  <2>1. excused' \in [torn : SUBSET Paths, closed : SUBSET (Paths \union Dirs)]
    BY <1>5 DEF EntryDenied, EntryIgnored, WalkTyped
  <2> QED BY <1>5, <2>1 DEF EntryDenied, EntryIgnored, Turn, Walking, WalkTyped, FolderTyped,
                            folder, ghosts
<1>6. ASSUME NEW p \in Paths, Inspect(p) PROVE FolderTyped' /\ WalkTyped'
  <2>1. disk[p] \in Inodes
    BY <1>6 DEF Inspect, Readable, Occupied, FolderTyped
  <2>2. PICK state \in FoundStates :
          batch' = Append(batch, [path |-> p, ino |-> disk[p], links |-> Links(disk[p]),
                                  print |-> data[disk[p]], state |-> state,
                                  life |-> life[disk[p]]])
    BY <1>6 DEF Inspect, ProbeMayFind, FoundStates
  <2>3. [path |-> p, ino |-> disk[p], links |-> Links(disk[p]), print |-> data[disk[p]],
         state |-> state, life |-> life[disk[p]]] \in Candidate
    BY <2>1, LinksAreNatural DEF Candidate, FolderTyped
  <2>4. batch' \in Seq(Candidate)
    BY <2>2, <2>3 DEF WalkTyped
  <2>5. pc' \in Place
    BY <1>6 DEF Inspect, WalkTyped, Place, Flush, Flushing
  <2>6. late' \subseteq Paths
    BY <1>6 DEF Inspect, FolderTyped
  <2> QED BY <1>6, <2>4, <2>5, <2>6 DEF Inspect, Turn, WalkTyped, FolderTyped, folder
<1>7. ASSUME NEW p \in Paths, NEW c \in Contents, InspectTorn(p, c)
      PROVE  FolderTyped' /\ WalkTyped'
  <2>1. disk[p] \in Inodes
    BY <1>7 DEF InspectTorn, Readable, Occupied, FolderTyped
  <2>2. excused' \in [torn : SUBSET Paths, closed : SUBSET (Paths \union Dirs)]
    BY <1>7 DEF InspectTorn, WalkTyped
  <2>3. PICK m \in [Inodes -> Contents] : Becomes(disk, m, denied)
    BY <1>7, <2>1 DEF InspectTorn, FolderTyped
  <2>4. FolderTyped'
    BY <1>7, <2>3, ChangeTyped DEF InspectTorn, FolderTyped
  <2> QED BY <1>7, <2>2, <2>4 DEF InspectTorn, Turn, WalkTyped
<1> QED BY <1>1, <1>2, <1>3, <1>4, <1>5, <1>6, <1>7 DEF WalkStep

LEMMA DroppedTyped ==
  ASSUME Dropped, pc' \in Place, cancelled' \in BOOLEAN
  PROVE  WalkTyped'
<1>1. <<>> \in Seq(Dirs) /\ <<>> \in Seq(Candidate)
  BY EmptySeq
<1>2. /\ stack' = <<>> /\ names' = {} /\ batch' = <<>> /\ seen' = {}
      /\ excused' \in [torn : SUBSET Paths, closed : SUBSET (Paths \union Dirs)]
  BY DEF Dropped
<1>3. stack' \in Seq(Dirs) /\ batch' \in Seq(Candidate)
  BY <1>1, <1>2
<1> QED BY <1>2, <1>3 DEF WalkTyped

LEMMA ForgetTyped ==
  ASSUME TypeOK, Forget
  PROVE  FolderTyped' /\ WalkTyped' /\ pc' = At("idle")
<1>1. pc' = At("idle") /\ pc' \in Place /\ cancelled' \in BOOLEAN
  BY DEF Forget, At, Place
<1>2. WalkTyped'
  BY <1>1, DroppedTyped DEF Forget
<1>3. FolderTyped'
  BY DEF Forget, TypeOK, FolderTyped, folder
<1> QED BY <1>1, <1>2, <1>3

LEMMA BeginTyped ==
  ASSUME TypeOK, Begin
  PROVE  TypeOK' /\ UNCHANGED <<rows, draft, cancelled, names, batch, seen, excused>>
<1>1. EvidentRenames \subseteq Nat \X Paths
  BY DEF EvidentRenames, TypeOK
<1>2. /\ standing' \subseteq Paths /\ late' \subseteq Paths
      /\ renamed' \subseteq Nat \X Paths /\ quiet' = TRUE
  BY <1>1 DEF Begin
<1>3. FolderTyped'
  BY <1>2 DEF Begin, TypeOK, FolderTyped, folder
<1>4. At("walk") \in Place /\ <<Top>> \in Seq(Dirs)
  BY FolderAssumption DEF At, Place
<1>5. WalkTyped'
  BY <1>4 DEF Begin, TypeOK, WalkTyped
<1>6. TableTyped'
  BY DEF Begin, TypeOK, TableTyped, JobStates, RootStates
<1> QED BY <1>3, <1>5, <1>6, TypesArePartsNext DEF Begin

-----------------------------------------------------------------------------
(* What one transaction does to the table.                                 *)

\* The open transaction only adds rows and finds some of those there are, and
\* outside of a transaction there is nothing to roll back.
Follows(old, new) ==
  /\ Len(old) <= Len(new)
  /\ \A a \in DOMAIN new : \/ new[a].state \in FoundStates
                           \/ a \in DOMAIN old /\ new[a] = old[a]

DraftFollows == Follows(rows, draft) /\ (pc.at # "flush" => draft = rows)

\* A scan runs in the database while it runs in memory.
JobFollows == pc = At("idle") <=> job # "running"

TableInv == OneRowPerPath /\ DraftFollows /\ JobFollows

LEMMA FollowsItself == ASSUME NEW table \in Seq(Row) PROVE Follows(table, table)
BY DEF Follows

\* A row of the draft is written where it was, or moved to a free path.
LEMMA RowWritten ==
  ASSUME TypeOK, TableInv, NEW c \in Candidate, NEW a \in DOMAIN draft,
         draft[a].path = c.path \/ RowsAt(draft, c.path) = {},
         draft' = [draft EXCEPT ![a] = Refreshed(c)], rows' = rows
  PROVE  /\ draft' \in Seq(Row)
         /\ OnePerPath(draft') /\ Follows(rows', draft')
<1>1. /\ draft \in Seq(Row) /\ rows \in Seq(Row)
      /\ Refreshed(c) \in Row /\ Refreshed(c).path = c.path
      /\ Refreshed(c).state \in FoundStates
  BY RefreshedRow DEF TypeOK
<1>2. /\ draft' \in Seq(Row) /\ Len(draft') = Len(draft) /\ DOMAIN draft' = DOMAIN draft
      /\ \A b \in DOMAIN draft : draft'[b] = IF b = a THEN Refreshed(c) ELSE draft[b]
  BY <1>1, ExceptSeq, LenProperties
<1>3. \A b \in DOMAIN draft : b # a => draft[b].path # c.path
  BY DEF TableInv, OneRowPerPath, OnePerPath, RowsAt
<1>4. OnePerPath(draft')
  BY <1>1, <1>2, <1>3 DEF TableInv, OneRowPerPath, OnePerPath
<1>5. Follows(rows', draft')
  BY <1>1, <1>2 DEF TableInv, DraftFollows, Follows
<1> QED BY <1>2, <1>4, <1>5

LEMMA RowInserted ==
  ASSUME TypeOK, TableInv, NEW c \in Candidate, RowsAt(draft, c.path) = {},
         draft' = Append(draft, Refreshed(c)), rows' = rows
  PROVE  /\ draft' \in Seq(Row)
         /\ OnePerPath(draft') /\ Follows(rows', draft')
<1>1. /\ draft \in Seq(Row) /\ rows \in Seq(Row)
      /\ Refreshed(c) \in Row /\ Refreshed(c).path = c.path
      /\ Refreshed(c).state \in FoundStates
  BY RefreshedRow DEF TypeOK
<1>2. /\ draft' \in Seq(Row) /\ Len(draft') = Len(draft) + 1
      /\ DOMAIN draft' = 1 .. Len(draft) + 1 /\ DOMAIN draft = 1 .. Len(draft)
      /\ DOMAIN rows = 1 .. Len(rows)
      /\ \A b \in DOMAIN draft : draft'[b] = draft[b]
      /\ draft'[Len(draft) + 1] = Refreshed(c)
  BY <1>1
<1>3. \A b \in DOMAIN draft : draft[b].path # c.path
  BY DEF RowsAt
<1>4. OnePerPath(draft')
  BY <1>1, <1>2, <1>3 DEF TableInv, OneRowPerPath, OnePerPath
<1>5. Follows(rows', draft')
  BY <1>1, <1>2 DEF TableInv, DraftFollows, Follows
<1> QED BY <1>2, <1>4, <1>5

LEMMA FlushStepSafe ==
  ASSUME TypeOK, TableInv, FlushStep
  PROVE  /\ TypeOK' /\ TableInv'
         /\ Follows(rows, rows') /\ UNCHANGED <<job, cancelled, folder, ghosts>>
<1> DEFINE c == Head(batch)
<1>1. FolderTyped'
  BY DEF FlushStep, RefreshKnown, FollowRename, InsertNew, Commit, Written, TypeOK,
         FolderTyped, folder, ghosts
<1>2. CASE RefreshKnown \/ FollowRename \/ InsertNew
  <2>1. Written
    BY <1>2 DEF RefreshKnown, FollowRename, InsertNew
  <2>2. Writing /\ c \in Candidate /\ Tail(batch) \in Seq(Candidate)
    BY <1>2, HeadTailProperties DEF RefreshKnown, FollowRename, InsertNew, Writing, TypeOK
  <2>3. WalkTyped'
    BY <2>1, <2>2 DEF Written, TypeOK, WalkTyped, Candidate
  <2>4. /\ draft' \in Seq(Row)
        /\ OnePerPath(draft') /\ Follows(rows', draft')
    <3>1. rows' = rows
      BY <2>1 DEF Written, database
    <3>2. CASE RefreshKnown
      <4>1. PICK a \in Here(c) : draft' = [draft EXCEPT ![a] = Refreshed(c)]
        BY <3>2 DEF RefreshKnown
      <4> QED BY <2>2, <3>1, <4>1, RowWritten DEF Here, RowsAt
    <3>3. CASE FollowRename
      <4>1. PICK a \in Relocatable(c) : draft' = [draft EXCEPT ![a] = Refreshed(c)]
        BY <3>3 DEF FollowRename
      <4>2. a \in DOMAIN draft /\ RowsAt(draft, c.path) = {}
        BY <3>3, <4>1 DEF FollowRename, Relocatable, Here
      <4> QED BY <2>2, <3>1, <4>1, <4>2, RowWritten
    <3>4. CASE InsertNew
      BY <2>2, <3>1, <3>4, RowInserted DEF InsertNew, Here
    <3> QED BY <1>2, <3>2, <3>3, <3>4
  <2>5. UNCHANGED <<rows, job, root, pc, cancelled, folder, ghosts>>
    BY <2>1 DEF Written, database
  <2>6. pc.at = "flush"
    BY <2>2 DEF Writing
  <2>7. TableInv'
    BY <2>4, <2>5, <2>6 DEF TableInv, OneRowPerPath, DraftFollows, JobFollows
  <2>8. TableTyped'
    BY <2>4, <2>5 DEF TypeOK, TableTyped
  <2>9. Follows(rows, rows')
    BY <2>5, FollowsItself DEF TypeOK
  <2> QED BY <1>1, <2>3, <2>5, <2>7, <2>8, <2>9, TypesArePartsNext
<1>3. CASE Commit
  <2>1. pc.next \in {"entries", "unseen", "cancel"} /\ pc.at = "flush"
    BY <1>3 DEF Commit, TypeOK, Place, Flushing, Failing
  <2>2. pc' \in Place /\ pc'.at # "flush" /\ pc' # At("idle") /\ pc # At("idle")
    BY <1>3, <2>1 DEF Commit, At, Place
  <2>3. UNCHANGED <<job, root, cancelled, folder, ghosts, walk, draft>> /\ rows' = draft
    BY <1>3 DEF Commit
  <2>4. WalkTyped' /\ TableTyped'
    BY <2>2, <2>3 DEF TypeOK, WalkTyped, TableTyped, walk
  <2>5. Follows(rows', draft')
    BY <2>3, FollowsItself DEF TypeOK
  <2>6. TableInv'
    BY <2>2, <2>3, <2>5 DEF TableInv, OneRowPerPath, DraftFollows, JobFollows
  <2> QED BY <1>1, <2>3, <2>4, <2>6, TypesArePartsNext DEF TableInv, DraftFollows
<1> QED BY <1>2, <1>3 DEF FlushStep

LEMMA UnseenRow ==
  ASSUME TypeOK, NEW row \in Row
  PROVE  /\ Unseen(row) \in Row /\ Unseen(row).path = row.path
         /\ Unseen(row) = row \/ Unseen(row).state \in LostStates
         /\ (Unseen(row).state = "missing" /\ row.state # "missing") =>
              row.path \notin seen /\ Verdict(row.path) = "missing"
<1>1. Verdict(row.path) \in {"unreadable", "permission_denied", "missing"}
  BY DEF Verdict
<1>2. CASE row.path \in seen
  BY <1>2 DEF Unseen
<1>3. CASE row.path \notin seen
  <2>1. PICK s \in LostStates, l \in {"active", "missing"} :
          s = Verdict(row.path) /\ Unseen(row) = [row EXCEPT !.state = s, !.lineage = l]
    BY <1>1, <1>3 DEF Unseen, LostStates
  <2>2. Unseen(row) \in Row
    <3>1. [row EXCEPT !.state = s, !.lineage = l] \in Row
      BY LostRow
    <3> HIDE DEF Row
    <3> QED BY <2>1, <3>1
  <2>3. Unseen(row).path = row.path /\ Unseen(row).state = s
    BY <2>1 DEF Row
  <2> QED BY <1>3, <2>1, <2>2, <2>3
<1> QED BY <1>2, <1>3

LEMMA MarkUnseenSafe ==
  ASSUME TypeOK, TableInv, MarkUnseen
  PROVE  /\ TypeOK' /\ TableInv'
         /\ Len(rows') = Len(rows) /\ DOMAIN rows' = DOMAIN rows
         /\ \A a \in DOMAIN rows : rows'[a] = Unseen(rows[a])
<1>1. /\ rows' = [a \in DOMAIN rows |-> Unseen(rows[a])] /\ draft' = rows'
      /\ pc = At("unseen") /\ pc' = At("complete")
      /\ UNCHANGED <<folder, job, root, cancelled, walk, ghosts>>
  BY DEF MarkUnseen
<1>2. rows \in Seq(Row) /\ \A a \in DOMAIN rows : rows[a] \in Row
  BY ElementOfSeq DEF TypeOK
<1>3. rows' \in Seq(Row) /\ Len(rows') = Len(rows) /\ DOMAIN rows' = DOMAIN rows
  <2>1. \A a \in DOMAIN rows : Unseen(rows[a]) \in Row
    BY <1>2, UnseenRow
  <2> HIDE DEF Row
  <2>2. \A a \in DOMAIN rows : rows'[a] \in Row /\ DOMAIN rows' = 1 .. Len(rows)
    BY <1>1, <1>2, <2>1
  <2>3. rows' \in [1 .. Len(rows) -> Row]
    BY <1>1, <1>2, <2>1
  <2>4. Len(rows) \in Nat
    BY <1>2
  <2> QED BY <1>2, <2>3, <2>4, SeqDef
<1>4. \A a \in DOMAIN rows : rows'[a] = Unseen(rows[a])
  BY <1>1
<1>5. OneRowPerPath'
  BY <1>1, <1>2, <1>3, <1>4, UnseenRow DEF TableInv, OneRowPerPath, OnePerPath
<1>6. pc' \in Place /\ pc'.at = "complete" /\ pc' # At("idle") /\ pc # At("idle")
  BY <1>1 DEF At, Place
<1>7. TableInv'
  BY <1>1, <1>3, <1>5, <1>6, FollowsItself DEF TableInv, DraftFollows, JobFollows
<1>8. TypeOK'
  BY <1>1, <1>3, <1>6 DEF TypeOK, folder, walk, ghosts
<1> QED BY <1>3, <1>4, <1>7, <1>8

LEMMA FailedRows ==
  ASSUME TypeOK, TableInv, MarkFailed
  PROVE  /\ rows' \in Seq(Row) /\ OneRowPerPath' /\ draft' = rows' /\ Len(rows') = Len(rows)
         /\ \/ rows' = rows
            \/ /\ pc.next \in LostStates \ {"missing"}
               /\ rows' = [a \in DOMAIN rows |-> [rows[a] EXCEPT !.state = pc.next]]
<1>1. pc.at = "fail" /\ pc.next \in Reasons /\ draft = rows
  BY DEF MarkFailed, TypeOK, Place, At, Flushing, Failing, TableInv, DraftFollows
<1>2. draft' = rows' /\ rows \in Seq(Row) /\ OnePerPath(rows)
  BY DEF MarkFailed, TypeOK, TableInv, OneRowPerPath
<1>3. CASE pc.next = "other"
  BY <1>1, <1>2, <1>3 DEF MarkFailed, OneRowPerPath
<1>4. CASE pc.next # "other"
  <2>1. rows' = [a \in DOMAIN rows |-> [rows[a] EXCEPT !.state = pc.next]]
    BY <1>4 DEF MarkFailed, FailedRow
  <2>2. pc.next \in LostStates \ {"missing"}
    BY <1>1, <1>4 DEF Reasons, LostStates
  <2>3. \A a \in DOMAIN rows : rows[a] \in Row
    BY <1>2, ElementOfSeq
  <2>4. \A a \in DOMAIN rows : /\ [rows[a] EXCEPT !.state = pc.next] \in Row
                              /\ [rows[a] EXCEPT !.state = pc.next].path = rows[a].path
    <3> TAKE a \in DOMAIN rows
    <3>1. [rows[a] EXCEPT !.state = pc.next] \in Row
      BY <2>2, <2>3, LostRow
    <3>2. [rows[a] EXCEPT !.state = pc.next].path = rows[a].path
      BY <2>3 DEF Row
    <3> QED BY <3>1, <3>2
  <2>5. rows' \in [1 .. Len(rows) -> Row] /\ Len(rows) \in Nat
    BY <1>2, <2>1, <2>4
  <2>6. rows' \in Seq(Row) /\ Len(rows') = Len(rows)
    BY <2>5, SeqDef
  <2>7. \A a \in DOMAIN rows : rows'[a].path = rows[a].path
    BY <2>1, <2>4
  <2>8. DOMAIN rows' = DOMAIN rows
    BY <2>1
  <2>9. OnePerPath(rows')
    BY <1>2, <2>7, <2>8 DEF OnePerPath
  <2> QED BY <1>2, <2>1, <2>2, <2>6, <2>9 DEF OneRowPerPath
<1> QED BY <1>3, <1>4

LEMMA EndStepSafe ==
  ASSUME TypeOK, TableInv, EndStep
  PROVE  TypeOK' /\ TableInv'
<1>1. CASE MarkUnseen
  BY <1>1, MarkUnseenSafe
<1>2. ASSUME NEW outcome \in JobStates \ {"running"}, NEW state \in RootStates,
             Ends(outcome, state), rows' \in Seq(Row), draft' = rows', OneRowPerPath'
      PROVE  TypeOK' /\ TableInv'
  <2>1. Forget /\ job' = outcome /\ root' = state
    BY <1>2 DEF Ends
  <2>2. FolderTyped' /\ WalkTyped' /\ pc' = At("idle")
    BY <2>1, ForgetTyped
  <2>3. TableTyped'
    BY <1>2, <2>1 DEF TableTyped
  <2>4. TableInv'
    BY <1>2, <2>1, <2>2, FollowsItself DEF TableInv, DraftFollows, JobFollows
  <2> QED BY <2>2, <2>3, <2>4, TypesArePartsNext
<1>3. CASE MarkCompleted \/ MarkCancelled
  <2>1. rows' = rows /\ draft' = draft /\ pc.at # "flush"
    BY <1>3 DEF MarkCompleted, MarkCancelled, At
  <2>2. rows' \in Seq(Row) /\ draft' = rows' /\ OneRowPerPath'
    BY <2>1 DEF TypeOK, TableInv, DraftFollows, OneRowPerPath
  <2>3. \/ Ends("completed", "ready") \/ Ends("cancelled", "connected")
    BY <1>3 DEF MarkCompleted, MarkCancelled
  <2> QED BY <1>2, <2>2, <2>3 DEF JobStates, RootStates
<1>4. CASE Fails \/ MarkFails
  <2>1. /\ pc # At("idle") /\ pc'.at \in {"fail", "lost"} /\ pc' # At("idle") /\ pc' \in Place
        /\ draft' = rows
    <3>1. CASE Fails
      <4>1. PICK reason \in Reasons : pc' = [at |-> "fail", next |-> reason]
        BY <3>1 DEF Fails, Reasons
      <4>2. pc # At("idle")
        BY <3>1 DEF Fails, At
      <4> QED BY <3>1, <4>1, <4>2 DEF Fails, At, Place, Failing
    <3>2. CASE MarkFails
      BY <3>2 DEF MarkFails, At, Place, TableInv, DraftFollows
    <3> QED BY <1>4, <3>1, <3>2
  <2>2. UNCHANGED <<folder, database, cancelled, ghosts>> /\ (Dropped \/ UNCHANGED walk)
    BY <1>4 DEF Fails, MarkFails
  <2>3. rows \in Seq(Row)
    BY DEF TypeOK
  <2>4. FolderTyped' /\ WalkTyped'
    <3>1. CASE Dropped
      BY <2>1, <2>2, <3>1, DroppedTyped DEF TypeOK, FolderTyped, folder, ghosts
    <3>2. CASE UNCHANGED walk
      BY <2>1, <2>2, <3>2 DEF TypeOK, FolderTyped, WalkTyped, folder, walk, ghosts
    <3> QED BY <2>2, <3>1, <3>2
  <2>5. TableTyped'
    BY <2>1, <2>2 DEF TypeOK, TableTyped, database
  <2>6. TableInv'
    BY <2>1, <2>2, <2>3, FollowsItself
       DEF TableInv, DraftFollows, JobFollows, OneRowPerPath, database
  <2> QED BY <2>4, <2>5, <2>6, TypesArePartsNext
<1>5. CASE MarkFailed
  <2>1. pc.next \in Reasons
    BY <1>5 DEF MarkFailed, TypeOK, Place, At, Flushing, Failing
  <2>2. FailedRoot(pc.next) \in RootStates
    BY <2>1 DEF FailedRoot, RootStates, Reasons
  <2>3. Ends("failed", FailedRoot(pc.next))
    BY <1>5 DEF MarkFailed
  <2> QED BY <1>2, <1>5, <2>2, <2>3, FailedRows DEF JobStates
<1> QED BY <1>1, <1>3, <1>4, <1>5 DEF EndStep

\* A cancelled probe holds nothing but the walk it will not go on with.
ProbeStep == GiveUpProbe \/ \E p \in Paths : CancelInProbe(p)

LEMMA ProbeStepKeeps ==
  ASSUME TypeOK, ProbeStep
  PROVE  /\ UNCHANGED <<folder, database, draft, stack, batch, seen, excused, ghosts>>
         /\ names' \subseteq names
         /\ pc.at \in {"entries", "probe"} /\ pc # At("idle")
         /\ \/ pc' = [at |-> "probe", next |-> "none"]
            \/ pc' = [at |-> "flush", next |-> "cancel"]
         /\ pc' # At("idle") /\ FolderTyped' /\ WalkTyped'
<1>1. CASE GiveUpProbe
  <2>1. pc.at = "probe" /\ pc # At("idle") /\ pc' = [at |-> "flush", next |-> "cancel"]
    BY <1>1 DEF GiveUpProbe, At, Flush
  <2>2. UNCHANGED <<folder, database, cancelled, draft, walk, ghosts>>
    BY <1>1 DEF GiveUpProbe, Walking
  <2>3. pc' \in Place /\ pc' # At("idle")
    BY <2>1 DEF Place, Flushing, At
  <2> QED BY <2>1, <2>2, <2>3 DEF TypeOK, FolderTyped, WalkTyped, folder, walk, ghosts
<1>2. ASSUME NEW p \in Paths, CancelInProbe(p)
      PROVE  /\ UNCHANGED <<folder, database, draft, stack, batch, seen, excused, ghosts>>
             /\ names' \subseteq names /\ cancelled' = TRUE
             /\ pc.at = "entries" /\ pc # At("idle")
             /\ pc' = [at |-> "probe", next |-> "none"]
  BY <1>2 DEF CancelInProbe, Turn, At
<1>3. ASSUME NEW p \in Paths, CancelInProbe(p)
      PROVE  pc' # At("idle") /\ FolderTyped' /\ WalkTyped'
  <2>1. pc' = [at |-> "probe", next |-> "none"]
    BY <1>2, <1>3
  <2>2. pc' \in Place /\ pc' # At("idle")
    BY <2>1 DEF Place, At
  <2> QED BY <1>2, <1>3, <2>2 DEF TypeOK, FolderTyped, WalkTyped, folder, ghosts
<1> QED BY <1>1, <1>2, <1>3 DEF ProbeStep

LEMMA SafeStep == TypeOK /\ TableInv /\ [Next]_vars => TypeOK' /\ TableInv'
<1> SUFFICES ASSUME TypeOK, TableInv, [Next]_vars PROVE TypeOK' /\ TableInv'
    OBVIOUS
<1> USE TypesAreParts, TypesArePartsNext
<1>1. CASE DiskChange
  <2>1. FolderTyped' /\ UNCHANGED <<database, pc, cancelled, walk, draft>>
    BY <1>1, FolderStep
  <2> QED BY <2>1 DEF database, walk, TableTyped, WalkTyped, TableInv, OneRowPerPath,
                      DraftFollows, JobFollows
<1>2. CASE Begin
  <2>1. TypeOK' /\ UNCHANGED <<rows, draft>>
    BY <1>2, BeginTyped
  <2>2. pc # At("walk") /\ pc'.at # "flush" /\ pc' # At("idle") /\ job' = "running" /\ draft = rows
    BY <1>2 DEF Begin, At, TableInv, DraftFollows
  <2> QED BY <2>1, <2>2 DEF TableInv, OneRowPerPath, DraftFollows, JobFollows
<1>3. CASE WalkStep
  <2>1. FolderTyped' /\ WalkTyped' /\ UNCHANGED <<rows, job, root, draft>>
    BY <1>3, WalkStepTyped, WalkStepKeeps DEF database
  <2>2. pc # At("idle") /\ pc' # At("idle") /\ pc.at # "flush"
    BY <1>3, WalkPlaces
  <2> QED BY <2>1, <2>2 DEF TableTyped, TableInv, OneRowPerPath, DraftFollows, JobFollows
<1>4. CASE FlushStep
  BY <1>4, FlushStepSafe
<1>5. CASE EndStep
  BY <1>5, EndStepSafe
<1>6. CASE Cancel
  <2>1. cancelled' = TRUE /\ UNCHANGED <<folder, database, pc, walk, draft, ghosts>>
    BY <1>6 DEF Cancel
  <2> QED BY <2>1 DEF folder, database, walk, ghosts, FolderTyped, TableTyped, WalkTyped,
                      TableInv, OneRowPerPath, DraftFollows, JobFollows
<1>7. CASE Restart
  <2>1. Forget /\ rows' = rows /\ draft' = rows /\ job' \in JobStates \ {"running"}
        /\ root' \in RootStates
    BY <1>7 DEF Restart, TypeOK, JobStates, RootStates
  <2>2. FolderTyped' /\ WalkTyped' /\ pc' = At("idle")
    BY <2>1, ForgetTyped
  <2> QED BY <2>1, <2>2, FollowsItself
          DEF TypeOK, TableTyped, TableInv, OneRowPerPath, DraftFollows, JobFollows
<1>8. CASE UNCHANGED vars
  BY <1>8 DEF vars, folder, database, walk, ghosts, TypeOK, TableInv, OneRowPerPath,
              DraftFollows, JobFollows
<1>9. CASE ProbeStep
  <2>1. /\ UNCHANGED <<rows, job, root, draft>> /\ FolderTyped' /\ WalkTyped'
        /\ pc.at # "flush" /\ pc # At("idle") /\ pc' # At("idle")
    BY <1>9, ProbeStepKeeps DEF database
  <2> QED BY <2>1 DEF TableTyped, TableInv, OneRowPerPath, DraftFollows, JobFollows
<1> QED BY <1>1, <1>2, <1>3, <1>4, <1>5, <1>6, <1>7, <1>8, <1>9 DEF Next, ScanStep, ProbeStep

LEMMA InitSafe == Init => TypeOK /\ TableInv
<1> SUFFICES ASSUME Init PROVE TypeOK /\ TableInv
    OBVIOUS
<1>1. <<>> \in Seq(Row) /\ <<>> \in Seq(Dirs) /\ <<>> \in Seq(Candidate) /\ Len(<<>>) = 0
  BY EmptySeq
<1>2. At("idle") \in Place /\ At("idle").at # "flush"
  BY DEF At, Place
<1>3. FolderTyped
  BY FolderAssumption DEF Init, FolderTyped
<1>4. TableTyped
  BY <1>1 DEF Init, TableTyped, JobStates, RootStates
<1>5. excused \in [torn : SUBSET Paths, closed : SUBSET (Paths \union Dirs)]
  BY DEF Init
<1>6. WalkTyped
  <2>1. /\ pc = At("idle") /\ cancelled = FALSE /\ stack = <<>> /\ batch = <<>>
        /\ names = {} /\ seen = {}
    BY DEF Init
  <2>2. pc \in Place /\ stack \in Seq(Dirs) /\ batch \in Seq(Candidate)
    BY <1>1, <1>2, <2>1
  <2> QED BY <1>5, <2>1, <2>2 DEF WalkTyped
<1>7. TableInv
  <2>1. rows = <<>> /\ draft = <<>> /\ pc = At("idle") /\ job # "running"
    BY DEF Init
  <2>2. Follows(rows, draft)
    <3>1. Follows(<<>>, <<>>)
      BY <1>1, FollowsItself
    <3> QED BY <2>1, <3>1
  <2>3. DOMAIN rows = {}
    BY <2>1
  <2> QED BY <2>1, <2>2, <2>3
          DEF TableInv, OneRowPerPath, OnePerPath, DraftFollows, JobFollows
<1> QED BY <1>3, <1>4, <1>6, <1>7, TypesAreParts

\* Every variable of the scan keeps its type.
THEOREM TypeCorrect == Spec => []TypeOK
<1>1. TypeOK /\ TableInv /\ [Next]_vars => (TypeOK /\ TableInv)'
  BY SafeStep
<1> QED BY InitSafe, <1>1, PTL DEF Spec

\* No transaction ever moves a row onto a path the catalogue has, or inserts a
\* second one there: the UNIQUE constraint never ends a scan.
THEOREM PathsStayUnique == Spec => []OneRowPerPath
<1>1. TypeOK /\ TableInv /\ [Next]_vars => (TypeOK /\ TableInv)'
  BY SafeStep
<1>2. TableInv => OneRowPerPath
  BY DEF TableInv
<1> QED BY InitSafe, <1>1, <1>2, PTL DEF Spec

-----------------------------------------------------------------------------
(* The scan implements Catalogue.                                          *)

LEMMA ShownTable ==
  ASSUME NEW table \in Seq(Row)
  PROVE  /\ Shown(table) \in Seq(Promised!Entry)
         /\ Len(Shown(table)) = Len(table) /\ DOMAIN Shown(table) = DOMAIN table
         /\ \A a \in DOMAIN table : /\ Shown(table)[a].path = table[a].path
                                    /\ Shown(table)[a].state = table[a].state
<1>1. \A a \in DOMAIN table : table[a] \in Row
  BY ElementOfSeq
<1>2. \A row \in Row : [path |-> row.path, state |-> row.state] \in Promised!Entry
  BY DEF Row, Promised!Entry
<1>3. \A a \in DOMAIN table : Shown(table)[a] \in Promised!Entry
  BY <1>1, <1>2 DEF Shown
<1>4. DOMAIN Shown(table) = DOMAIN table /\ DOMAIN table = 1 .. Len(table) /\ Len(table) \in Nat
  BY DEF Shown
<1>5. Shown(table) \in [1 .. Len(table) -> Promised!Entry]
  BY <1>3, <1>4 DEF Shown
<1>6. Shown(table) \in Seq(Promised!Entry) /\ Len(Shown(table)) = Len(table)
  BY <1>4, <1>5, SeqDef
<1> QED BY <1>4, <1>6 DEF Shown

LEMMA ShownKeeps ==
  ASSUME NEW old \in Seq(Row), NEW new \in Seq(Row), Len(old) <= Len(new), OnePerPath(new)
  PROVE  Promised!Keeps(Shown(old), Shown(new))
BY ShownTable DEF Promised!Keeps, OnePerPath

LEMMA InitIsCatalogueInit == Init => Promised!CatalogueInit
<1> SUFFICES ASSUME Init PROVE Promised!CatalogueInit
    OBVIOUS
<1>1. Shown(<<>>) = <<>>
  BY DEF Shown
<1>2. At("idle").at = "idle"
  BY DEF At
<1> QED BY <1>1, <1>2 DEF Init, Promised!CatalogueInit, Phase

LEMMA PhaseOfPlace ==
  /\ pc = At("idle") => Phase = "idle"
  /\ pc.at = "complete" => Phase = "settled"
  /\ pc.at \in {"fail", "lost"} => Phase = "broken"
  /\ pc.at \in {"walk", "entries", "probe", "flush", "unseen", "cancel"} =>
       Phase = "recording"
BY DEF Phase, At

LEMMA PhaseOfNextPlace ==
  /\ pc' = At("idle") => Phase' = "idle"
  /\ pc'.at = "complete" => Phase' = "settled"
  /\ pc'.at \in {"fail", "lost"} => Phase' = "broken"
  /\ pc'.at \in {"walk", "entries", "probe", "flush", "unseen", "cancel"} =>
       Phase' = "recording"
BY DEF Phase, At

LEMMA CatalogueStep ==
  ASSUME TypeOK, TableInv, [Next]_vars
  PROVE  [Promised!CatalogueNext]_(Promised!cvars)
<1> USE PhaseOfPlace, PhaseOfNextPlace
<1>1. TypeOK' /\ TableInv'
  BY SafeStep
<1>2. ASSUME Shown(rows)' = Shown(rows), Phase' = Phase, job' = job
      PROVE  UNCHANGED Promised!cvars
  BY <1>2 DEF Promised!cvars
<1>3. CASE DiskChange \/ Cancel \/ UNCHANGED vars
  <2>1. rows' = rows /\ job' = job /\ pc' = pc
    BY <1>3, FolderStep, TypesAreParts DEF Cancel, vars, database
  <2> QED BY <1>2, <2>1 DEF Phase
<1>4. CASE Begin
  <2>1. /\ pc = At("idle") /\ pc' = At("walk") /\ job' = "running" /\ rows' = rows
    BY <1>4 DEF Begin
  <2>2. Promised!Start
    BY <2>1 DEF Promised!Start, At
  <2> QED BY <2>2 DEF Promised!CatalogueNext
<1>5. CASE WalkStep
  <2>1. rows' = rows /\ job' = job
    BY <1>5, WalkStepKeeps DEF database
  <2>2. pc.at \in {"walk", "entries"} /\ pc'.at \in {"walk", "entries", "flush"}
    BY <1>5, WalkPlaces
  <2> QED BY <1>2, <2>1, <2>2
<1>6. CASE FlushStep
  <2>1. /\ pc.at = "flush" /\ pc'.at \in {"flush", "entries", "unseen", "cancel"}
    BY <1>6 DEF FlushStep, RefreshKnown, FollowRename, InsertNew, Commit, Writing, Written,
                TypeOK, Place, Flushing, Failing, At
  <2>2. Follows(rows, rows') /\ job' = job
    BY <1>6, FlushStepSafe
  <2>3. rows \in Seq(Row) /\ rows' \in Seq(Row) /\ OnePerPath(rows')
    BY <1>1 DEF TypeOK, TableInv, OneRowPerPath
  <2>4. Promised!Keeps(Shown(rows), Shown(rows'))
    BY <2>2, <2>3, ShownKeeps DEF Follows
  <2>5. \A a \in DOMAIN Shown(rows') :
          \/ Shown(rows')[a].state \in FoundStates
          \/ a \in DOMAIN Shown(rows) /\ Shown(rows')[a] = Shown(rows)[a]
    BY <2>2, <2>3, ShownTable DEF Follows, Shown
  <2>6. Promised!Record
    BY <2>1, <2>2, <2>4, <2>5 DEF Promised!Record
  <2> QED BY <2>6 DEF Promised!CatalogueNext
<1>7. CASE MarkUnseen
  <2>1. /\ rows \in Seq(Row) /\ rows' \in Seq(Row) /\ OnePerPath(rows')
        /\ Len(rows') = Len(rows) /\ DOMAIN rows' = DOMAIN rows
        /\ \A a \in DOMAIN rows : rows'[a] = Unseen(rows[a])
    BY <1>1, <1>7, MarkUnseenSafe DEF TypeOK, TableInv, OneRowPerPath
  <2>2. \A a \in DOMAIN rows : /\ Unseen(rows[a]).path = rows[a].path
                              /\ \/ Unseen(rows[a]) = rows[a]
                                 \/ Unseen(rows[a]).state \in LostStates
    BY <2>1, ElementOfSeq, UnseenRow
  <2>3. Promised!Keeps(Shown(rows), Shown(rows'))
    BY <2>1, ShownKeeps
  <2>4. \A a \in DOMAIN Shown(rows) :
          /\ Shown(rows')[a].path = Shown(rows)[a].path
          /\ \/ Shown(rows')[a] = Shown(rows)[a]
             \/ Shown(rows')[a].state \in LostStates
    BY <2>1, <2>2, ShownTable DEF Shown
  <2>5. pc = At("unseen") /\ pc' = At("complete") /\ job' = job
    BY <1>7 DEF MarkUnseen
  <2>6. Promised!Settle
    BY <2>1, <2>3, <2>4, <2>5, ShownTable DEF Promised!Settle, At
  <2> QED BY <2>6 DEF Promised!CatalogueNext
<1>8. CASE MarkCompleted \/ MarkCancelled
  <2>1. Promised!Complete \/ Promised!Cancelled
    BY <1>8 DEF MarkCompleted, MarkCancelled, Ends, Forget, At,
                Promised!Complete, Promised!Cancelled
  <2> QED BY <2>1 DEF Promised!CatalogueNext
<1>9. CASE Fails
  <2>1. pc.at \in {"walk", "entries", "flush", "unseen", "complete", "cancel"}
    BY <1>9 DEF Fails
  <2>2. pc'.at = "fail" /\ rows' = rows /\ job' = job
    BY <1>9 DEF Fails, database
  <2>3. Promised!Break
    BY <2>1, <2>2 DEF Promised!Break
  <2> QED BY <2>3 DEF Promised!CatalogueNext
<1>10. CASE MarkFailed
  <2>1. pc.at = "fail" /\ pc' = At("idle") /\ job' = "failed"
    BY <1>10 DEF MarkFailed, Ends, Forget
  <2>2. \/ Shown(rows') = Shown(rows)
        \/ \E s \in LostStates \ {"missing"} :
             Shown(rows') = [a \in DOMAIN Shown(rows) |-> [Shown(rows)[a] EXCEPT !.state = s]]
    <3>1. CASE rows' = rows
      BY <3>1
    <3>2. CASE rows' = [a \in DOMAIN rows |-> [rows[a] EXCEPT !.state = pc.next]]
      <4>1. \A a \in DOMAIN rows : rows[a] \in Row
        BY ElementOfSeq DEF TypeOK
      <4>2. \A a \in DOMAIN rows :
              /\ rows'[a].path = rows[a].path /\ rows'[a].state = pc.next
        BY <3>2, <4>1 DEF Row
      <4>3. Shown(rows') = [a \in DOMAIN Shown(rows) |-> [Shown(rows)[a] EXCEPT !.state = pc.next]]
        BY <3>2, <4>2 DEF Shown
      <4> QED BY <1>10, <3>2, <4>3, FailedRows
    <3> QED BY <1>10, <3>1, <3>2, FailedRows
  <2>3. Promised!Report
    BY <2>1, <2>2 DEF Promised!Report
  <2> QED BY <2>3 DEF Promised!CatalogueNext
<1>11. CASE MarkFails
  <2>1. pc.at = "fail" /\ pc'.at = "lost" /\ rows' = rows /\ job' = job
    BY <1>11 DEF MarkFails, At, database
  <2> QED BY <1>2, <2>1
<1>12. CASE Restart
  <2>1. pc' = At("idle") /\ rows' = rows
    BY <1>12 DEF Restart, Forget
  <2>2. CASE pc = At("idle")
    <3>1. job' = job
      BY <1>12, <2>2 DEF Restart, TableInv, JobFollows
    <3> QED BY <1>2, <2>1, <2>2, <3>1
  <2>3. CASE pc # At("idle")
    <3>1. job' = "failed"
      BY <1>12, <2>3 DEF Restart, TableInv, JobFollows
    <3>2. Phase # "idle"
      BY <2>3 DEF TypeOK, Phase, Place, At, Flushing, Failing
    <3>3. Promised!Stop
      BY <2>1, <3>1, <3>2 DEF Promised!Stop
    <3> QED BY <3>3 DEF Promised!CatalogueNext
  <2> QED BY <2>2, <2>3
<1>13. CASE ProbeStep
  <2>1. /\ rows' = rows /\ job' = job
        /\ pc.at \in {"entries", "probe"} /\ pc'.at \in {"probe", "flush"}
    BY <1>13, ProbeStepKeeps DEF database
  <2> QED BY <1>2, <2>1
<1> QED BY <1>3, <1>4, <1>5, <1>6, <1>7, <1>8, <1>9, <1>10, <1>11, <1>12, <1>13
        DEF Next, ScanStep, EndStep, ProbeStep

\* Every step of a scan is a step of the catalogue or none: the batches, the
\* loss of what was not seen and the end of a scan are transactions any of
\* which may be the last, and no entry is forgotten or duplicated on the way.
THEOREM ScanImplementsCatalogue == Spec => KeepsCatalogue
<1>1. TypeOK /\ TableInv /\ [Next]_vars => (TypeOK /\ TableInv)'
  BY SafeStep
<1>2. TypeOK /\ TableInv /\ [Next]_vars => [Promised!CatalogueNext]_(Promised!cvars)
  BY CatalogueStep
<1> QED BY InitSafe, InitIsCatalogueInit, <1>1, <1>2, PTL
        DEF Spec, KeepsCatalogue, Promised!CatalogueSpec

-----------------------------------------------------------------------------
(* Nothing is lost that stands.                                            *)

Stacked(d) == \E k \in 1 .. Len(stack) : stack[k] = d
Batched(p) == \E k \in 1 .. Len(batch) : batch[k].path = p

\* A scan has path p in its hands: it was met, or it could not be, or it is
\* still to come, by itself or with a folder on the way to it.
Met(p)   == p \in seen \/ Batched(p)
Barred(p) == p \in excused.torn \/ ({p} \union Above[p]) \intersect excused.closed # {}
Ahead(p) == p \in names \/ \E d \in Above[p] : d \in names \/ Stacked(d)

\* A scan of which a path may still be reported missing.
Counting == \/ pc.at \in {"walk", "entries", "unseen"}
            \/ pc.at = "flush" /\ pc.next \in {"entries", "unseen"}

\* What stood all through the scan is in its hands, and the walk is over when
\* its last batch is written.
WalkInv ==
  /\ pc.at \in {"idle", "walk", "unseen"} => names = {}
  /\ pc.at = "flush" /\ pc.next = "unseen" => names = {} /\ stack = <<>>
  /\ pc.at = "unseen" => stack = <<>> /\ batch = <<>>
  /\ \A p \in standing : HoldsMedia(disk, data, p)
  /\ Counting => \A p \in standing : Met(p) \/ Barred(p) \/ Ahead(p)

LEMMA Pushed ==
  ASSUME NEW S, NEW s \in Seq(S), NEW e \in S
  PROVE  /\ Len(s) \in Nat /\ Len(Append(s, e)) = Len(s) + 1
         /\ Append(s, e)[Len(s) + 1] = e
         /\ \A k \in 1 .. Len(s) : Append(s, e)[k] = s[k]
OBVIOUS

LEMMA Popped ==
  ASSUME NEW S, NEW s \in Seq(S), s # <<>>
  PROVE  LET t == SubSeq(s, 1, Len(s) - 1)
         IN  /\ Len(s) \in Nat \ {0} /\ Len(t) = Len(s) - 1
             /\ \A k \in 1 .. Len(s) - 1 : t[k] = s[k]
<1>1. Len(s) \in Nat \ {0}
  BY EmptySeq
<1>2. \A k \in 1 .. Len(s) - 1 : s[k] \in S
  BY <1>1, ElementOfSeq
<1>3. /\ Len(SubSeq(s, 1, Len(s) - 1)) =
           IF 1 <= Len(s) - 1 THEN (Len(s) - 1) - 1 + 1 ELSE 0
      /\ \A i \in 1 .. (Len(s) - 1) - 1 + 1 : SubSeq(s, 1, Len(s) - 1)[i] = s[1 + i - 1]
  <2>1. 1 \in Int /\ Len(s) - 1 \in Int
    BY <1>1
  <2> DEFINE n == Len(s) - 1
  <2> HIDE DEF n
  <2>2. n \in Int /\ \A i \in 1 .. n : s[i] \in S
    BY <1>2, <2>1 DEF n
  <2>3. /\ Len(SubSeq(s, 1, n)) = IF 1 <= n THEN n - 1 + 1 ELSE 0
        /\ \A i \in 1 .. n - 1 + 1 : SubSeq(s, 1, n)[i] = s[1 + i - 1]
    BY <2>1, <2>2, SubSeqProperties
  <2> QED BY <2>3 DEF n
<1> DEFINE u == SubSeq(s, 1, Len(s) - 1)
<1>4. Len(u) = Len(s) - 1 /\ \A k \in 1 .. Len(s) - 1 : u[k] = s[k]
  <2>1. /\ Len(u) = IF 1 <= Len(s) - 1 THEN (Len(s) - 1) - 1 + 1 ELSE 0
        /\ \A i \in 1 .. (Len(s) - 1) - 1 + 1 : u[i] = s[1 + i - 1]
    BY <1>3
  <2> DEFINE n == Len(s)
  <2>2. n \in Nat /\ 1 <= n
    BY <1>1
  <2> HIDE DEF u, n
  <2>3. /\ Len(u) = IF 1 <= n - 1 THEN (n - 1) - 1 + 1 ELSE 0
        /\ \A i \in 1 .. (n - 1) - 1 + 1 : u[i] = s[1 + i - 1]
    BY <2>1 DEF n
  <2>4. Len(u) = n - 1
    BY <2>2, <2>3
  <2>5. ASSUME NEW k \in 1 .. n - 1 PROVE u[k] = s[k]
    <3>1. k \in 1 .. (n - 1) - 1 + 1 /\ 1 + k - 1 = k
      BY <2>2, <2>5
    <3> QED BY <2>3, <3>1
  <2> QED BY <2>4, <2>5 DEF n
<1> HIDE DEF u
<1>5. LET t == u IN /\ Len(s) \in Nat \ {0} /\ Len(t) = Len(s) - 1
                    /\ \A k \in 1 .. Len(s) - 1 : t[k] = s[k]
  BY <1>1, <1>4
<1> QED BY <1>5 DEF u

\* A folder that is read leads on to what is occupied in it, or is deeper.
LEMMA ReadingLeadsOn ==
  ASSUME NEW p \in Paths, NEW d, Ahead(p), names = {},
         Occupied(disk, p) \/ Parent[p] # d,
         \A x : Stacked(x) => x = d \/ Stacked(x)',
         names' = {e \in Entries : Parent[e] = d /\ (e \in Dirs \/ Occupied(disk, e))}
  PROVE  Ahead(p)'
<1>1. PICK x \in Above[p] : Stacked(x)
  BY DEF Ahead
<1>2. CASE Stacked(x)'
  BY <1>2 DEF Ahead
<1>3. CASE x = d /\ d = Parent[p]
  BY <1>3, EntriesAreNamed DEF Ahead
<1>4. CASE x = d /\ d # Parent[p]
  <2>1. PICK f \in Above[p] : f \in Entries /\ f \in Dirs /\ Parent[f] = d
    BY <1>4, TheWay
  <2> QED BY <2>1 DEF Ahead
<1> QED BY <1>1, <1>2, <1>3, <1>4

\* The turn of an entry leaves the rest of the walk ahead.
LEMMA TurnLeavesAhead ==
  ASSUME NEW p \in Paths, NEW e, Ahead(p), names' = names \ {e},
         \A x : Stacked(x) => Stacked(x)'
  PROVE  Ahead(p)' \/ e = p \/ e \in Above[p]
BY DEF Ahead

\* Other programs only make fewer paths stand.
LEMMA ChangeStanding ==
  ASSUME FolderTyped, DiskChange
  PROVE  /\ standing' \subseteq standing
         /\ \A p \in standing' : HoldsMedia(disk', data', p)
<1>1. ASSUME NEW d, NEW c, NEW n, Becomes(d, c, n)
      PROVE  /\ standing' \subseteq standing
             /\ \A p \in standing' : HoldsMedia(disk', data', p)
  BY <1>1 DEF Becomes
<1> QED BY <1>1 DEF DiskChange, Create, Rename, Link, Remove, Edit, Protect

LEMMA WalkInvWalks ==
  ASSUME TypeOK, WalkInv, WalkStep
  PROVE  WalkInv'
<1> USE WalkPlaces
<1>1. CASE SeeCancelled
  <2>1. pc' = [at |-> "flush", next |-> "cancel"]
    BY <1>1 DEF SeeCancelled, Flush
  <2> QED BY <1>1, <2>1 DEF SeeCancelled, Walking, folder, ghosts, WalkInv, Counting, HoldsMedia, Occupied
<1>2. CASE WalkDone
  <2>1. UNCHANGED <<stack, names, batch, seen, excused, standing, disk, data>>
    BY <1>2 DEF WalkDone, Walking, walk, folder, ghosts
  <2>2. \/ pc'.at = "walk" /\ names = {}
        \/ pc' = [at |-> "flush", next |-> "unseen"] /\ pc.at = "walk" /\ stack = <<>>
    BY <1>2 DEF WalkDone, At, Flush
  <2>3. pc'.at # "unseen"
    OBVIOUS
  <2>4. Counting
    BY DEF Counting
  <2> QED BY <2>1, <2>2, <2>3, <2>4 DEF WalkInv, Counting, Met, Barred, Ahead, Stacked, Batched,
                                   HoldsMedia, Occupied
<1>3. CASE ReadDirectory
  <2> DEFINE d == stack[Len(stack)]
  <2>1. /\ pc.at = "walk" /\ names = {} /\ stack # <<>> /\ stack \in Seq(Dirs)
        /\ UNCHANGED <<batch, seen, standing, disk, data>>
    BY <1>3 DEF ReadDirectory, At, Walking, folder, ghosts, WalkInv, TypeOK
  <2>2. /\ stack' = SubSeq(stack, 1, Len(stack) - 1) /\ Len(stack) \in Nat \ {0}
        /\ Len(stack') = Len(stack) - 1
        /\ \A k \in 1 .. Len(stack) - 1 : stack'[k] = stack[k]
    BY <1>3, <2>1, Popped DEF ReadDirectory
  <2>3. \A x : Stacked(x) => x = d \/ Stacked(x)'
    BY <2>2 DEF Stacked
  <2>4. \A p \in standing : Met(p) => Met(p)'
    BY <2>1 DEF Met, Batched
  <2>5. Counting
    BY <2>1 DEF Counting
  <2>6. CASE Closed(d)
    <3>1. /\ excused' = [excused EXCEPT !.closed = @ \union {d}]
          /\ names' = {} /\ pc' = pc
      BY <1>3, <2>1, <2>6 DEF ReadDirectory
    <3>2. excused'.closed = excused.closed \union {d} /\ excused'.torn = excused.torn
      BY <3>1 DEF TypeOK
    <3>3. \A p \in standing : Barred(p) => Barred(p)'
      BY <3>2 DEF Barred
    <3>4. \A p \in standing : Ahead(p) => Ahead(p)' \/ Barred(p)'
      BY <2>1, <2>3, <3>2 DEF Ahead, Barred
    <3> QED BY <2>1, <2>4, <2>5, <3>1, <3>3, <3>4 DEF WalkInv, Counting, HoldsMedia, Occupied
  <2>7. CASE ~Closed(d)
    <3>1. /\ names' = {e \in Entries : Parent[e] = d /\ (e \in Dirs \/ Occupied(disk, e))}
          /\ pc' = At("entries") /\ excused' = excused
      BY <1>3, <2>7 DEF ReadDirectory
    <3>2. \A p \in standing : Barred(p) => Barred(p)'
      BY <3>1 DEF Barred
    <3>3. \A p \in standing : Ahead(p) => Ahead(p)'
      BY <2>1, <2>3, <3>1, ReadingLeadsOn DEF TypeOK, WalkInv, HoldsMedia
    <3>4. pc'.at = "entries"
      BY <3>1 DEF At
    <3> QED BY <2>1, <2>4, <2>5, <3>2, <3>3, <3>4 DEF WalkInv, Counting, HoldsMedia, Occupied
  <2> QED BY <2>6, <2>7
<1>4. ASSUME NEW d \in Dirs, EnterDirectory(d) PROVE WalkInv'
  <2>1. /\ pc.at = "entries" /\ pc' = pc /\ names' = names \ {d}
        /\ UNCHANGED <<batch, seen, standing, disk, data>>
    BY <1>4 DEF EnterDirectory, Turn, At, Walking, folder, ghosts
  <2>2. \A p \in standing : Met(p) => Met(p)'
    BY <2>1 DEF Met, Batched
  <2>3. Counting /\ standing \subseteq Paths /\ standing \intersect Dirs = {}
    BY <2>1, FolderAssumption DEF Counting, TypeOK
  <2>4. CASE Closed(d)
    <3>1. /\ excused' = [excused EXCEPT !.closed = @ \union {d}] /\ stack' = stack
      BY <1>4, <2>4 DEF EnterDirectory
    <3>2. excused'.closed = excused.closed \union {d} /\ excused'.torn = excused.torn
      BY <3>1 DEF TypeOK
    <3>3. \A p \in standing : Barred(p) => Barred(p)'
      BY <3>2 DEF Barred
    <3>4. \A p \in standing : Ahead(p) => Ahead(p)' \/ Barred(p)'
      <4>1. \A p \in standing : Ahead(p) => Ahead(p)' \/ d \in Above[p]
        BY <2>1, <2>3, <3>1, TurnLeavesAhead DEF Stacked
      <4> QED BY <3>2, <4>1 DEF Barred
    <3> QED BY <2>1, <2>2, <2>3, <3>3, <3>4 DEF WalkInv, Counting, HoldsMedia, Occupied
  <2>5. CASE ~Closed(d)
    <3>1. /\ excused' = excused /\ stack' = Append(stack, d)
      BY <1>4, <2>5 DEF EnterDirectory
    <3>2. \A x : Stacked(x) \/ x = d => Stacked(x)'
      <4>1. stack \in Seq(Dirs)
        BY DEF TypeOK
      <4> QED BY <3>1, <4>1, Pushed DEF Stacked
    <3>3. \A p \in standing : Barred(p) => Barred(p)'
      BY <3>1 DEF Barred
    <3>4. \A p \in standing : Ahead(p) => Ahead(p)'
      <4>1. \A p \in standing : Ahead(p) => Ahead(p)' \/ d \in Above[p]
        BY <2>1, <2>3, <3>2, TurnLeavesAhead
      <4> QED BY <3>2, <4>1 DEF Ahead
    <3> QED BY <2>1, <2>2, <2>3, <3>3, <3>4 DEF WalkInv, Counting, HoldsMedia, Occupied
  <2> QED BY <2>4, <2>5
<1>5. ASSUME NEW q \in Paths, EntryDenied(q) \/ EntryIgnored(q) PROVE WalkInv'
  <2>1. /\ pc.at = "entries" /\ pc' = pc /\ names' = names \ {q}
        /\ UNCHANGED <<stack, batch, seen, standing, disk, data>>
    BY <1>5 DEF EntryDenied, EntryIgnored, Turn, At, Walking, folder, ghosts
  <2>2. \A p \in standing : Met(p) => Met(p)'
    BY <2>1 DEF Met, Batched
  <2>3. Counting /\ standing \subseteq Paths /\ \A p \in standing : q \notin Above[p]
    BY <2>1, FolderAssumption, TheWay DEF Counting, TypeOK
  <2>4. \A p \in standing : Ahead(p) => Ahead(p)' \/ p = q
    BY <2>1, <2>3, TurnLeavesAhead DEF Stacked
  <2>5. CASE EntryDenied(q)
    <3>1. excused'.closed = excused.closed \union {q} /\ excused'.torn = excused.torn
      BY <2>5 DEF EntryDenied, TypeOK
    <3>2. \A p \in standing : Barred(p) \/ p = q => Barred(p)'
      BY <3>1 DEF Barred
    <3> QED BY <2>1, <2>2, <2>3, <2>4, <3>2 DEF WalkInv, Counting, HoldsMedia, Occupied
  <2>6. CASE EntryIgnored(q)
    <3>1. excused' = excused /\ ~HoldsMedia(disk, data, q)
      BY <2>6 DEF EntryIgnored, HoldsMedia
    <3>2. q \notin standing /\ \A p \in standing : Barred(p) => Barred(p)'
      BY <3>1 DEF Barred, WalkInv
    <3> QED BY <2>1, <2>2, <2>3, <2>4, <3>2 DEF WalkInv, Counting, HoldsMedia, Occupied
  <2> QED BY <1>5, <2>5, <2>6
<1>6. ASSUME NEW q \in Paths, Inspect(q) PROVE WalkInv'
  <2>1. /\ pc.at = "entries" /\ names' = names \ {q}
        /\ UNCHANGED <<stack, seen, standing, excused, disk, data>>
    BY <1>6 DEF Inspect, Turn, At, folder
  <2>2. PICK c : batch' = Append(batch, c) /\ c.path = q
    BY <1>6 DEF Inspect
  <2>3. \A p \in standing : Met(p) \/ p = q => Met(p)'
    <3> DEFINE S == Candidate \union {c}
    <3>1. batch \in Seq(S) /\ c \in S
      BY SeqMonotonic DEF TypeOK
    <3> HIDE DEF S
    <3>2. \A p : Batched(p) \/ p = q => Batched(p)'
      BY <2>2, <3>1, Pushed DEF Batched
    <3> QED BY <2>1, <3>2 DEF Met
  <2>4. Counting /\ standing \subseteq Paths /\ \A p \in standing : q \notin Above[p]
    BY <2>1, FolderAssumption, TheWay DEF Counting, TypeOK
  <2>5. \A p \in standing : Ahead(p) => Ahead(p)' \/ p = q
    BY <2>1, <2>4, TurnLeavesAhead DEF Stacked
  <2>6. pc'.at = "entries" \/ pc' = [at |-> "flush", next |-> "entries"]
    BY <1>6, <2>1 DEF Inspect, Flush
  <2>7. \A p \in standing : Barred(p) => Barred(p)'
    BY <2>1 DEF Barred
  <2> QED BY <2>1, <2>3, <2>4, <2>5, <2>6, <2>7 DEF WalkInv, Counting, HoldsMedia, Occupied
<1>7. ASSUME NEW q \in Paths, NEW c \in Contents, InspectTorn(q, c) PROVE WalkInv'
  <2>1. /\ pc.at = "entries" /\ pc' = pc /\ names' = names \ {q}
        /\ UNCHANGED <<stack, batch, seen>>
    BY <1>7 DEF InspectTorn, Turn, At
  <2>2. standing' \subseteq standing /\ \A p \in standing' : HoldsMedia(disk', data', p)
    BY <1>7 DEF InspectTorn, Becomes
  <2>3. excused'.torn = excused.torn \union {q} /\ excused'.closed = excused.closed
    BY <1>7 DEF InspectTorn, TypeOK
  <2>4. \A p \in standing : (Met(p) => Met(p)') /\ (Barred(p) \/ p = q => Barred(p)')
    BY <2>1, <2>3 DEF Met, Batched, Barred
  <2>5. Counting /\ standing \subseteq Paths /\ \A p \in standing : q \notin Above[p]
    BY <2>1, FolderAssumption, TheWay DEF Counting, TypeOK
  <2>6. \A p \in standing : Ahead(p) => Ahead(p)' \/ p = q
    BY <2>1, <2>5, TurnLeavesAhead DEF Stacked
  <2> QED BY <2>1, <2>2, <2>4, <2>5, <2>6 DEF WalkInv, Counting
<1> QED BY <1>1, <1>2, <1>3, <1>4, <1>5, <1>6, <1>7 DEF WalkStep

LEMMA WalkInvFlushes ==
  ASSUME TypeOK, TableInv, WalkInv, FlushStep
  PROVE  WalkInv'
<1>1. UNCHANGED <<disk, data, standing>>
  BY FlushStepSafe DEF folder, ghosts
<1>2. CASE RefreshKnown \/ FollowRename \/ InsertNew
  <2>1. Written /\ Writing
    BY <1>2 DEF RefreshKnown, FollowRename, InsertNew
  <2>2. /\ batch' = Tail(batch) /\ seen' = seen \union {Head(batch).path}
        /\ UNCHANGED <<pc, stack, names, excused>>
    BY <2>1 DEF Written
  <2>3. /\ batch # <<>> /\ batch \in Seq(Candidate) /\ pc.at = "flush"
    BY <2>1 DEF Writing, TypeOK
  <2>4. \A p : Met(p) => Met(p)'
    <3> SUFFICES ASSUME NEW p, Met(p) PROVE Met(p)'
      OBVIOUS
    <3>1. CASE p \in seen
      BY <2>2, <3>1 DEF Met
    <3>2. ASSUME NEW k \in 1 .. Len(batch), batch[k].path = p PROVE Met(p)'
      <4>1. Len(batch') = Len(batch) - 1 /\ \A i \in 1 .. Len(batch') : batch'[i] = batch[i + 1]
        BY <2>2, <2>3, HeadTailProperties
      <4>2. CASE k = 1
        BY <2>2, <2>3, <3>2, <4>2 DEF Met
      <4>3. CASE k # 1
        <5>1. k - 1 \in 1 .. Len(batch') /\ batch'[k - 1] = batch[k]
          BY <2>3, <4>1, <4>3
        <5> QED BY <3>2, <5>1 DEF Met, Batched
      <4> QED BY <4>2, <4>3
    <3> QED BY <3>1, <3>2 DEF Met, Batched
  <2> QED BY <1>1, <2>2, <2>3, <2>4 DEF WalkInv, Counting, Barred, Ahead, Stacked, HoldsMedia, Occupied
<1>3. CASE Commit
  <2>1. /\ pc.at = "flush" /\ batch = <<>> /\ pc'.at = pc.next
        /\ UNCHANGED <<stack, names, batch, seen, excused>>
    BY <1>3 DEF Commit, At, walk
  <2>2. pc.next \in {"entries", "unseen", "cancel"}
    BY <2>1 DEF TypeOK, Place, Flushing, Failing
  <2>3. \A p : (Met(p) => Met(p)') /\ (Barred(p) => Barred(p)') /\ (Ahead(p) => Ahead(p)')
    BY <2>1 DEF Met, Batched, Barred, Ahead, Stacked
  <2> QED BY <1>1, <2>1, <2>2, <2>3 DEF WalkInv, Counting, HoldsMedia, Occupied
<1> QED BY <1>2, <1>3 DEF FlushStep

LEMMA WalkInvStep == TypeOK /\ TableInv /\ WalkInv /\ [Next]_vars => WalkInv'
<1> SUFFICES ASSUME TypeOK, TableInv, WalkInv, [Next]_vars PROVE WalkInv'
    OBVIOUS
<1>1. CASE WalkStep
  BY <1>1, WalkInvWalks
<1>2. CASE FlushStep
  BY <1>2, WalkInvFlushes
<1>3. ASSUME UNCHANGED <<pc, walk>>, standing' \subseteq standing,
             \A p \in standing' : HoldsMedia(disk', data', p)
      PROVE  WalkInv'
  BY <1>3 DEF walk, WalkInv, Counting, Met, Batched, Barred, Ahead, Stacked
<1>4. CASE DiskChange
  BY <1>3, <1>4, FolderStep, ChangeStanding, TypesAreParts
<1>5. CASE Cancel \/ UNCHANGED vars
  BY <1>3, <1>5 DEF Cancel, vars, folder, ghosts, WalkInv, HoldsMedia, Occupied
<1>6. CASE Begin
  <2>1. /\ pc' = At("walk") /\ stack' = <<Top>> /\ names' = names
        /\ standing' = {p \in Paths : HoldsMedia(disk, data, p)}
        /\ UNCHANGED <<disk, data>>
    BY <1>6 DEF Begin, folder
  <2>2. names = {}
    BY <1>6 DEF Begin, At, WalkInv
  <2>3. Stacked(Top)'
    BY <2>1 DEF Stacked
  <2>4. pc'.at = "walk"
    BY <2>1 DEF At
  <2>5. \A p \in Paths : Ahead(p)'
    BY <2>3, TheWay DEF Ahead
  <2> QED BY <2>1, <2>2, <2>4, <2>5 DEF WalkInv, Counting, HoldsMedia, Occupied
<1>7. ASSUME Forget PROVE WalkInv'
  BY <1>7 DEF Forget, Dropped, At, WalkInv, Counting
<1>8. CASE EndStep \/ Restart
  <2>1. CASE MarkUnseen \/ Fails \/ MarkFails
    <3>1. pc'.at \in {"complete", "fail", "lost"} /\ UNCHANGED <<disk, data, standing>>
      BY <2>1 DEF MarkUnseen, Fails, MarkFails, At, folder, ghosts
    <3> QED BY <3>1 DEF WalkInv, Counting, HoldsMedia, Occupied
  <2> QED BY <1>7, <1>8, <2>1 DEF EndStep, MarkCompleted, MarkCancelled, MarkFailed, Ends, Restart
<1>9. CASE ProbeStep
  <2>1. /\ UNCHANGED <<disk, data, standing>>
        /\ pc' \in {[at |-> "probe", next |-> "none"], [at |-> "flush", next |-> "cancel"]}
    BY <1>9, ProbeStepKeeps DEF folder, ghosts
  <2> QED BY <2>1 DEF WalkInv, Counting, HoldsMedia, Occupied
<1> QED BY <1>1, <1>2, <1>4, <1>5, <1>6, <1>8, <1>9 DEF Next, ScanStep, ProbeStep

\* A row is only reported missing by a scan that had every path in its hands
\* and did not find this one: never one that held media all through the scan.
THEOREM LossIsEarned == Spec => MissingIsEarned
<1> DEFINE Inv == TypeOK /\ TableInv /\ WalkInv
           Earned == \A a \in DOMAIN rows :
                       rows'[a].state = "missing" /\ rows[a].state # "missing"
                         => rows[a].path \notin standing
<1>1. Init => Inv
  <2> SUFFICES ASSUME Init PROVE WalkInv
    BY InitSafe
  <2>1. pc.at = "idle" /\ standing = {} /\ names = {}
    BY DEF Init, At
  <2> QED BY <2>1 DEF WalkInv, Counting
<1>2. Inv /\ [Next]_vars => Inv'
  BY SafeStep, WalkInvStep
<1>3. Inv /\ [Next]_vars => [Earned]_vars
  <2> SUFFICES ASSUME Inv, Next, NEW a \in DOMAIN rows,
                      rows'[a].state = "missing", rows[a].state # "missing"
               PROVE  rows[a].path \notin standing
    OBVIOUS
  <2>1. rows \in Seq(Row) /\ rows[a] \in Row
    BY ElementOfSeq DEF TypeOK
  <2>2. rows' # rows
    OBVIOUS
  <2>3. CASE FlushStep
    <3>1. Follows(rows, rows') /\ rows' \in Seq(Row)
      BY <2>3, FlushStepSafe DEF TypeOK
    <3>2. a \in DOMAIN rows' /\ rows'[a].state \notin FoundStates
      BY <2>1, <3>1 DEF Follows, FoundStates
    <3> QED BY <3>1, <3>2 DEF Follows
  <2>4. CASE MarkUnseen
    <3>1. rows'[a] = Unseen(rows[a])
      BY <2>4, MarkUnseenSafe
    <3>2. rows[a].path \notin seen /\ Verdict(rows[a].path) = "missing"
      BY <2>1, <3>1, UnseenRow
    <3>3. pc.at = "unseen" /\ batch = <<>> /\ stack = <<>> /\ names = {}
      BY <2>4 DEF MarkUnseen, At, WalkInv
    <3>4. ~Met(rows[a].path) /\ ~Ahead(rows[a].path)
      BY <3>2, <3>3 DEF Met, Batched, Ahead, Stacked
    <3>5. ~Barred(rows[a].path)
      BY <3>2 DEF Verdict, Barred
    <3> QED BY <3>3, <3>4, <3>5 DEF WalkInv, Counting
  <2>5. CASE MarkFailed
    <3>1. pc.next # "missing" /\ rows' = [b \in DOMAIN rows |-> [rows[b] EXCEPT !.state = pc.next]]
      BY <2>2, <2>5, FailedRows DEF LostStates
    <3> QED BY <2>1, <3>1 DEF Row
  <2>6. CASE ~(FlushStep \/ MarkUnseen \/ MarkFailed)
    <3>1. rows' = rows
      BY <2>6, FolderStep, BeginTyped, WalkStepKeeps, ProbeStepKeeps, TypesAreParts
         DEF Next, ScanStep, EndStep, Cancel, Restart, MarkCompleted, MarkCancelled, Fails,
             MarkFails, ProbeStep, database
    <3> QED BY <2>2, <3>1
  <2> QED BY <2>3, <2>4, <2>5, <2>6
<1> QED BY <1>1, <1>2, <1>3, PTL DEF Spec, MissingIsEarned

-----------------------------------------------------------------------------
(* An asset is not taken from a path that is occupied.                     *)

\* What the open transaction has moved was not there when it did, and no path
\* becomes steady while it is open.
SteadyInv ==
  /\ \A p \in steady : Occupied(disk, p)
  /\ \A a \in DOMAIN rows : draft[a].path # rows[a].path => rows[a].path \notin steady

LEMMA ChangeSteady ==
  ASSUME FolderTyped, DiskChange
  PROVE  steady' \subseteq steady /\ \A p \in steady' : Occupied(disk', p)
<1>1. ASSUME NEW d, NEW c, NEW n, Becomes(d, c, n)
      PROVE  steady' \subseteq steady /\ \A p \in steady' : Occupied(disk', p)
  BY <1>1 DEF Becomes
<1> QED BY <1>1 DEF DiskChange, Create, Rename, Link, Remove, Edit, Protect

LEMMA WalkSteady ==
  ASSUME WalkStep, SteadyInv
  PROVE  \A p \in steady' : Occupied(disk', p)
<1>1. ASSUME NEW p \in Paths, Inspect(p) PROVE \A q \in steady' : Occupied(disk', q)
  BY <1>1 DEF Inspect, Readable, folder, SteadyInv, Occupied
<1>2. ASSUME NEW p \in Paths, NEW c \in Contents, InspectTorn(p, c)
      PROVE  \A q \in steady' : Occupied(disk', q)
  BY <1>2 DEF InspectTorn, Becomes
<1>3. ASSUME UNCHANGED <<disk, steady>> PROVE \A q \in steady' : Occupied(disk', q)
  BY <1>3 DEF SteadyInv, Occupied
<1>4. \/ UNCHANGED <<disk, steady>>
      \/ \E p \in Paths : Inspect(p) \/ \E c \in Contents : InspectTorn(p, c)
  BY DEF WalkStep, SeeCancelled, ReadDirectory, WalkDone, EnterDirectory, EntryDenied,
         EntryIgnored, Walking, folder, ghosts
<1> QED BY <1>1, <1>2, <1>3, <1>4

\* A candidate is written to a row where that row is, or where it is not any more.
LEMMA WriteKeepsSteady ==
  ASSUME TypeOK, TableInv, SteadyInv, RefreshKnown \/ FollowRename \/ InsertNew
  PROVE  \A a \in DOMAIN rows : draft'[a].path # rows[a].path => rows[a].path \notin steady
<1> DEFINE c == Head(batch)
<1> SUFFICES ASSUME NEW a \in DOMAIN rows, draft'[a].path # rows[a].path
             PROVE  rows[a].path \notin steady
    OBVIOUS
<1>1. Writing /\ batch \in Seq(Candidate) /\ batch # <<>>
  BY DEF RefreshKnown, FollowRename, InsertNew, Writing, TypeOK
<1>2. c \in Candidate /\ Refreshed(c).path = c.path
  BY <1>1, HeadTailProperties, RefreshedRow
<1>3. /\ rows \in Seq(Row) /\ draft \in Seq(Row) /\ Len(rows) <= Len(draft)
      /\ DOMAIN rows = 1 .. Len(rows) /\ DOMAIN draft = 1 .. Len(draft)
  BY DEF TypeOK, TableInv, DraftFollows, Follows
<1>4. a \in DOMAIN draft
  BY <1>3
<1>5. CASE RefreshKnown
  <2>1. PICK b \in Here(c) : draft' = [draft EXCEPT ![b] = Refreshed(c)]
    BY <1>5 DEF RefreshKnown
  <2>2. draft[b].path = c.path
    BY <2>1 DEF Here, RowsAt
  <2>3. draft'[a].path = draft[a].path
    BY <1>2, <1>3, <1>4, <2>1, <2>2
  <2> QED BY <2>3 DEF SteadyInv
<1>6. CASE FollowRename
  <2>1. PICK b \in Relocatable(c) : draft' = [draft EXCEPT ![b] = Refreshed(c)]
    BY <1>6 DEF FollowRename
  <2>2. ~Occupied(disk, draft[b].path)
    BY <2>1 DEF Relocatable, StoredPathIsAbsent
  <2>3. CASE a = b
    BY <2>2, <2>3 DEF SteadyInv
  <2>4. CASE a # b
    BY <1>3, <1>4, <2>1, <2>4 DEF SteadyInv
  <2> QED BY <2>3, <2>4
<1>7. CASE InsertNew
  <2>1. draft'[a] = draft[a]
    BY <1>3, <1>4, <1>7 DEF InsertNew
  <2> QED BY <2>1 DEF SteadyInv
<1> QED BY <1>5, <1>6, <1>7

LEMMA SteadyStep == TypeOK /\ TableInv /\ SteadyInv /\ [Next]_vars => SteadyInv'
<1> SUFFICES ASSUME TypeOK, TableInv, SteadyInv, [Next]_vars PROVE SteadyInv'
    OBVIOUS
<1>1. CASE DiskChange
  BY <1>1, FolderStep, ChangeSteady, TypesAreParts DEF SteadyInv, database
<1>2. CASE WalkStep
  <2>1. rows' = rows /\ draft' = draft
    BY <1>2, WalkStepKeeps DEF database
  <2>2. draft = rows
    BY <1>2, WalkPlaces DEF TableInv, DraftFollows
  <2> QED BY <1>2, <2>1, <2>2, WalkSteady DEF SteadyInv
<1>3. CASE FlushStep
  <2>1. UNCHANGED <<disk, steady>>
    BY <1>3, FlushStepSafe DEF folder, ghosts
  <2>2. CASE Commit
    BY <2>1, <2>2 DEF Commit, SteadyInv, Occupied
  <2>3. CASE RefreshKnown \/ FollowRename \/ InsertNew
    <3>1. rows' = rows
      BY <2>3 DEF RefreshKnown, FollowRename, InsertNew, Written, database
    <3> QED BY <2>1, <2>3, <3>1, WriteKeepsSteady DEF SteadyInv, Occupied
  <2> QED BY <1>3, <2>2, <2>3 DEF FlushStep
<1>4. CASE Begin \/ EndStep \/ Cancel \/ Restart \/ UNCHANGED vars
  <2>1. UNCHANGED <<disk, steady>>
    BY <1>4 DEF Begin, EndStep, MarkUnseen, MarkCompleted, MarkCancelled, Fails, MarkFailed,
                MarkFails, Ends, Forget, Cancel, Restart, vars, folder, ghosts
  <2>2. draft' = rows' \/ (rows' = rows /\ draft' = draft)
    BY <1>4 DEF Begin, EndStep, MarkUnseen, MarkCompleted, MarkCancelled, Fails, MarkFailed,
                MarkFails, Cancel, Restart, vars, database
  <2> QED BY <2>1, <2>2 DEF SteadyInv, Occupied
<1>5. CASE ProbeStep
  BY <1>5, ProbeStepKeeps DEF SteadyInv, Occupied, folder, database, ghosts
<1> QED BY <1>1, <1>2, <1>3, <1>4, <1>5 DEF Next, ScanStep, ProbeStep

\* A rename takes an asset from a path that is free when the transaction looks
\* and was not inspected since: an asset stays at a path that is occupied ever
\* since a scan saw it there, whatever else has its inode or its contents.
THEOREM StandingKeepsItsAsset == Spec => StandingPathsKeepAssets
<1> DEFINE Inv == TypeOK /\ TableInv /\ SteadyInv
           Kept == \A a \in DOMAIN rows :
                     rows'[a].path # rows[a].path => rows[a].path \notin steady
<1>1. Init => Inv
  BY InitSafe DEF Init, SteadyInv
<1>2. Inv /\ [Next]_vars => Inv'
  BY SafeStep, SteadyStep
<1>3. Inv /\ [Next]_vars => [Kept]_vars
  <2> SUFFICES ASSUME Inv, Next, NEW a \in DOMAIN rows, rows'[a].path # rows[a].path
               PROVE  rows[a].path \notin steady
    OBVIOUS
  <2>1. rows \in Seq(Row) /\ rows[a] \in Row
    BY ElementOfSeq DEF TypeOK
  <2>2. CASE FlushStep
    <3>1. rows' = draft
      BY <2>2 DEF FlushStep, RefreshKnown, FollowRename, InsertNew, Commit, Written, database
    <3> QED BY <3>1 DEF SteadyInv
  <2>3. CASE MarkUnseen
    <3>1. rows'[a] = Unseen(rows[a])
      BY <2>3, MarkUnseenSafe
    <3> QED BY <2>1, <3>1, UnseenRow
  <2>4. CASE MarkFailed
    <3>1. rows' = [b \in DOMAIN rows |-> [rows[b] EXCEPT !.state = pc.next]]
      BY <2>4, FailedRows
    <3> QED BY <2>1, <3>1 DEF Row
  <2>5. CASE ~(FlushStep \/ MarkUnseen \/ MarkFailed)
    <3>1. rows' = rows
      BY <2>5, FolderStep, BeginTyped, WalkStepKeeps, ProbeStepKeeps, TypesAreParts
         DEF Next, ScanStep, EndStep, Cancel, Restart, MarkCompleted, MarkCancelled, Fails,
             MarkFails, ProbeStep, database
    <3> QED BY <3>1
  <2> QED BY <2>2, <2>3, <2>4, <2>5
<1> QED BY <1>1, <1>2, <1>3, PTL DEF Spec, StandingPathsKeepAssets

-----------------------------------------------------------------------------
(* What a scan of a quiet folder finds out.                                *)

\* What a path is to such a scan: a file to catalogue, or one it may not read.
Wanted(p) == Readable(p) /\ data[disk[p]] \in Media
Locked(p) == Closed(Parent[p]) \/ (Occupied(disk, p) /\ disk[p] \in denied)

\* The candidate and the row that tell what a path holds.
Tells(c, p) ==
  /\ c.path = p /\ c.ino = disk[p] /\ c.print = data[disk[p]]
  /\ c.links = Links(disk[p]) /\ c.state \in MayShow(p, c.print)
Exact(row, p) ==
  /\ row.path = p /\ row.ino = disk[p] /\ row.print = data[disk[p]]
  /\ row.state \in MayShow(p, row.print)
  /\ row.lineage = "active"

\* An evident rename is followed, or the evidence is still there.
Evident(table, a, q) ==
  /\ table[a].ino = disk[q] /\ table[a].print = data[disk[q]]
  /\ StoredPathIsAbsent(table[a].path)
  /\ \A b \in DOMAIN table \ {a} : table[b].ino # disk[q]
  /\ RowsAt(table, q) = {}
Followed(table, a, q) ==
  /\ a \in DOMAIN table /\ q \in Paths /\ Wanted(q) /\ Links(disk[q]) = 1
  /\ table[a].path = q \/ Evident(table, a, q)

\* Every file to catalogue is written as it is, or in the scan's hands; every
\* path it may not read is excused, or to come; and no other is either.
Excusing ==
  /\ excused.torn = {}
  /\ \A d \in Dirs : d \in excused.closed => Closed(d)
  /\ \A p \in Paths : p \in excused.closed => Locked(p)
Carrying ==
  \A k \in 1 .. Len(batch) : Wanted(batch[k].path) /\ Tells(batch[k], batch[k].path)
Recorded == \A p \in seen : Wanted(p) /\ \E a \in DOMAIN draft : Exact(draft[a], p)
Covered ==
  \A p \in Paths : /\ Wanted(p) => Met(p) \/ Ahead(p)
                   /\ Locked(p) => Barred(p) \/ Ahead(p)
Following == \A r \in renamed : Followed(draft, r[1], r[2])
Charted == Excusing /\ Carrying /\ Recorded /\ Covered /\ Following

\* What the scan leaves behind.
Mirrored ==
  /\ \A a \in DOMAIN rows :
       /\ Mirrors(rows[a], rows[a].path)
       /\ (rows[a].lineage = "missing") <=> (rows[a].state = "missing")
  /\ \A p \in Paths : Wanted(p) => RowsAt(rows, p) # {}
  /\ \A r \in renamed : rows[r[1]].path = r[2]

\* A scan begins with nothing in its hands.
Rested ==
  pc.at = "idle" => /\ names = {} /\ batch = <<>> /\ seen = {}
                    /\ excused = [torn |-> {}, closed |-> {}]

\* Only media are catalogued.
OnlyMedia ==
  /\ \A a \in DOMAIN rows : rows[a].print \in Media
  /\ \A a \in DOMAIN draft : draft[a].print \in Media
  /\ \A k \in 1 .. Len(batch) : batch[k].print \in Media

\* A scan of a quiet folder: what it charts while it runs, what it leaves.
QuietScan ==
  /\ quiet /\ Counting => Charted
  /\ quiet /\ (pc.at = "complete" \/ job = "completed") => Mirrored

\* What is known of every state: the tables, the walk, and a quiet scan.
QuietInv == TypeOK /\ TableInv /\ WalkInv /\ Rested /\ OnlyMedia /\ QuietScan

\* A step that leaves the folder alone leaves what its paths are to a scan.
LEMMA SameFolder ==
  ASSUME UNCHANGED folder
  PROVE  /\ \A p : Wanted(p)' = Wanted(p)
         /\ \A p : Locked(p)' = Locked(p)
         /\ \A d : Closed(d)' = Closed(d)
         /\ \A p : Readable(p)' = Readable(p)
         /\ \A p : StoredPathIsAbsent(p)' = StoredPathIsAbsent(p)
         /\ \A i : Links(i)' = Links(i)
BY DEF folder, Wanted, Locked, Closed, Readable, StoredPathIsAbsent, Occupied, Links

LEMMA MoreLate ==
  ASSUME late \subseteq late'
  PROVE  \A p, content : MayShow(p, content) \subseteq MayShow(p, content)'
BY DEF MayShow, FoundStates

\* The parts that are about what was written, when nothing is.
LEMMA NothingWritten ==
  ASSUME Charted, UNCHANGED <<folder, seen, draft, renamed>>, late \subseteq late'
  PROVE  Recorded' /\ Following'
<1>1. Recorded'
  <2>1. \A row, p : Exact(row, p) => Exact(row, p)'
    BY MoreLate DEF Exact, folder
  <2>2. \A p \in seen : Wanted(p)' /\ \E a \in DOMAIN draft : Exact(draft[a], p)'
    BY <2>1, SameFolder DEF Charted, Recorded
  <2> QED BY <2>2 DEF Recorded, Exact
<1>2. Following'
  BY SameFolder DEF Charted, Following, Followed, Evident, RowsAt, folder
<1> QED BY <1>1, <1>2

\* How much of a walk a step leaves as it is.
LEMMA WalkCharts ==
  ASSUME TypeOK, WalkInv, Charted, WalkStep, quiet', Counting'
  PROVE  Charted'
<1>1. UNCHANGED <<folder, seen, draft, renamed>> /\ late \subseteq late'
  <2>1. ~ \E p \in Paths, c \in Contents : InspectTorn(p, c)
    BY DEF InspectTorn, Becomes
  <2>2. UNCHANGED <<folder, seen>> /\ late \subseteq late'
    BY <2>1 DEF WalkStep, SeeCancelled, ReadDirectory, WalkDone, EnterDirectory, EntryDenied,
                EntryIgnored, Inspect, Walking, walk, ghosts
  <2> QED BY <2>2, WalkStepKeeps
<1>2. Recorded' /\ Following'
  BY <1>1, NothingWritten
<1> USE SameFolder
<1>3. \A p \in Paths : p \notin Dirs /\ \A q \in Paths : q \notin Above[p]
  BY TheWay, FolderAssumption
<1>4. ASSUME UNCHANGED batch PROVE Carrying' /\ \A p : Met(p) => Met(p)'
  BY <1>1, <1>4, MoreLate DEF Charted, Carrying, Tells, Met, Batched, folder
<1>5. ASSUME UNCHANGED excused PROVE Excusing' /\ \A p : Barred(p) => Barred(p)'
  BY <1>1, <1>5 DEF Charted, Excusing, Barred
<1>6. ASSUME NEW e \in Paths \union Dirs,
             e \in Dirs => Closed(e), e \in Paths => Locked(e),
             excused' = [excused EXCEPT !.closed = @ \union {e}]
      PROVE  /\ Excusing' /\ \A p : Barred(p) => Barred(p)'
             /\ \A p : e \in {p} \union Above[p] => Barred(p)'
  <2>1. excused'.closed = excused.closed \union {e} /\ excused'.torn = excused.torn
    BY <1>6 DEF TypeOK
  <2> QED BY <1>1, <1>6, <2>1 DEF Charted, Excusing, Barred
<1>7. CASE SeeCancelled
  <2>1. pc' = [at |-> "flush", next |-> "cancel"]
    BY <1>7 DEF SeeCancelled, Flush
  <2> QED BY <2>1 DEF Counting
<1>8. CASE WalkDone
  <2>1. UNCHANGED <<stack, names, batch, excused>>
    BY <1>8 DEF WalkDone, walk
  <2>2. Covered'
    BY <1>1, <1>4, <1>5, <2>1 DEF Charted, Covered, Ahead, Stacked
  <2> QED BY <1>2, <1>4, <1>5, <2>1, <2>2 DEF Charted
<1>9. CASE ReadDirectory
  <2> DEFINE d == stack[Len(stack)]
  <2>1. /\ names = {} /\ stack # <<>> /\ stack \in Seq(Dirs) /\ UNCHANGED batch
    BY <1>9 DEF ReadDirectory, At, WalkInv, TypeOK
  <2>2. /\ stack' = SubSeq(stack, 1, Len(stack) - 1) /\ Len(stack) \in Nat \ {0}
        /\ Len(stack') = Len(stack) - 1
        /\ \A k \in 1 .. Len(stack) - 1 : stack'[k] = stack[k]
    BY <1>9, <2>1, Popped DEF ReadDirectory
  <2>3. \A x : Stacked(x) => x = d \/ Stacked(x)'
    BY <2>2 DEF Stacked
  <2>4. d \in Dirs
    BY <2>1, <2>2, ElementOfSeq
  <2>5. CASE Closed(d)
    <3>1. excused' = [excused EXCEPT !.closed = @ \union {d}]
      BY <1>9, <2>5 DEF ReadDirectory
    <3>2. /\ Excusing' /\ \A p : Barred(p) => Barred(p)'
          /\ \A p : d \in Above[p] => Barred(p)'
      <4> HIDE DEF d
      <4>1. d \notin Paths
        BY <2>4, FolderAssumption
      <4> QED BY <1>6, <2>4, <2>5, <3>1, <4>1
    <3>3. \A p : Ahead(p) => Ahead(p)' \/ (Barred(p)' /\ d \in Above[p])
      BY <2>1, <2>3, <3>2 DEF Ahead
    <3>4. \A p \in Paths : Wanted(p) => d \notin Above[p]
      BY <2>5, TheWay DEF Wanted, Readable
    <3>5. Covered'
      BY <1>1, <1>4, <2>1, <3>2, <3>3, <3>4 DEF Charted, Covered
    <3> QED BY <1>2, <1>4, <2>1, <3>2, <3>5 DEF Charted
  <2>6. CASE ~Closed(d)
    <3>1. /\ names' = {e \in Entries : Parent[e] = d /\ (e \in Dirs \/ Occupied(disk, e))}
          /\ excused' = excused
      BY <1>9, <2>6 DEF ReadDirectory
    <3>2. ASSUME NEW p \in Paths, Ahead(p), Wanted(p) \/ Locked(p) PROVE Ahead(p)'
      <4>1. Occupied(disk, p) \/ Parent[p] # d
        BY <2>6, <3>2 DEF Wanted, Locked, Readable
      <4> QED BY <2>1, <2>3, <3>1, <3>2, <4>1, ReadingLeadsOn
    <3>3. Covered'
      BY <1>1, <1>4, <1>5, <2>1, <3>1, <3>2 DEF Charted, Covered
    <3> QED BY <1>2, <1>4, <1>5, <2>1, <3>1, <3>3 DEF Charted
  <2> QED BY <2>5, <2>6
<1>10. ASSUME NEW d \in Dirs, EnterDirectory(d) PROVE Charted'
  <2>1. /\ names' = names \ {d} /\ UNCHANGED batch
    BY <1>10 DEF EnterDirectory, Turn
  <2>2. \A p \in Paths : p # d /\ d \notin Paths
    BY FolderAssumption
  <2>3. CASE Closed(d)
    <3>1. /\ excused' = [excused EXCEPT !.closed = @ \union {d}] /\ stack' = stack
      BY <1>10, <2>3 DEF EnterDirectory
    <3>2. /\ Excusing' /\ \A p : Barred(p) => Barred(p)'
          /\ \A p : d \in Above[p] => Barred(p)'
      <4>1. d \notin Paths
        BY FolderAssumption
      <4> QED BY <1>6, <2>3, <3>1, <4>1
    <3>3. \A p \in Paths : Ahead(p) => Ahead(p)' \/ (Barred(p)' /\ d \in Above[p])
      BY <2>1, <2>2, <3>1, <3>2, TurnLeavesAhead DEF Stacked
    <3>4. \A p \in Paths : Wanted(p) => d \notin Above[p]
      BY <2>3, TheWay DEF Wanted, Readable
    <3>5. Covered'
      BY <1>1, <1>4, <2>1, <3>2, <3>3, <3>4 DEF Charted, Covered
    <3> QED BY <1>2, <1>4, <2>1, <3>2, <3>5 DEF Charted
  <2>4. CASE ~Closed(d)
    <3>1. /\ excused' = excused /\ stack' = Append(stack, d)
      BY <1>10, <2>4 DEF EnterDirectory
    <3>2. \A x : Stacked(x) \/ x = d => Stacked(x)'
      <4>1. stack \in Seq(Dirs)
        BY DEF TypeOK
      <4> QED BY <3>1, <4>1, Pushed DEF Stacked
    <3>3. \A p \in Paths : Ahead(p) => Ahead(p)'
      <4>1. \A p \in Paths : Ahead(p) => Ahead(p)' \/ d \in Above[p]
        BY <2>1, <2>2, <3>2, TurnLeavesAhead
      <4> QED BY <3>2, <4>1 DEF Ahead
    <3>4. Covered'
      BY <1>1, <1>4, <1>5, <2>1, <3>1, <3>3 DEF Charted, Covered
    <3> QED BY <1>2, <1>4, <1>5, <2>1, <3>1, <3>4 DEF Charted
  <2> QED BY <2>3, <2>4
<1>11. ASSUME NEW q \in Paths, EntryDenied(q) \/ EntryIgnored(q) PROVE Charted'
  <2>1. names' = names \ {q} /\ UNCHANGED <<stack, batch>>
    BY <1>11 DEF EntryDenied, EntryIgnored, Turn
  <2>2. \A p \in Paths : Ahead(p) => Ahead(p)' \/ p = q
    BY <1>3, <2>1, TurnLeavesAhead DEF Stacked
  <2>3. CASE EntryDenied(q)
    <3>1. excused' = [excused EXCEPT !.closed = @ \union {q}] /\ Locked(q) /\ ~Wanted(q)
      BY <2>3 DEF EntryDenied, Locked, Wanted, Readable
    <3>2. Excusing' /\ (\A p : Barred(p) => Barred(p)') /\ Barred(q)'
      <4>1. q \in Paths \union Dirs /\ q \notin Dirs
        BY <1>3
      <4> QED BY <1>6, <3>1, <4>1
    <3>3. Covered'
      BY <1>1, <1>4, <2>1, <2>2, <3>1, <3>2 DEF Charted, Covered
    <3> QED BY <1>2, <1>4, <2>1, <3>2, <3>3 DEF Charted
  <2>4. CASE EntryIgnored(q)
    <3>1. excused' = excused /\ ~Wanted(q) /\ ~Locked(q)
      BY <2>4 DEF EntryIgnored, Wanted, Locked, Readable
    <3>2. Covered'
      BY <1>1, <1>4, <1>5, <2>1, <2>2, <3>1 DEF Charted, Covered
    <3> QED BY <1>2, <1>4, <1>5, <2>1, <3>1, <3>2 DEF Charted
  <2> QED BY <1>11, <2>3, <2>4
<1>12. ASSUME NEW q \in Paths, Inspect(q) PROVE Charted'
  <2>1. /\ names' = names \ {q} /\ UNCHANGED <<stack, excused>>
        /\ Wanted(q) /\ ~Locked(q)
    BY <1>12 DEF Inspect, Turn, Wanted, Locked, Readable
  <2>2. PICK c : batch' = Append(batch, c) /\ Tells(c, q)'
    <3>1. \A state \in ProbeMayFind(data[disk[q]]) :
            state = "present" \/ data[disk[q]] \in Damaged \/ q \in late' =>
              state \in MayShow(q, data[disk[q]])'
      BY <1>1 DEF ProbeMayFind, MayShow, FoundStates, folder
    <3> QED BY <1>1, <1>12, <3>1 DEF Inspect, Tells, folder
  <2>3. Carrying' /\ \A p : Met(p) \/ p = q => Met(p)'
    <3> DEFINE S == Candidate \union {c}
    <3>1. batch \in Seq(S) /\ c \in S
      BY SeqMonotonic DEF TypeOK
    <3> HIDE DEF S
    <3>2. /\ Len(batch) \in Nat /\ Len(batch') = Len(batch) + 1
          /\ batch'[Len(batch) + 1] = c
          /\ \A k \in 1 .. Len(batch) : batch'[k] = batch[k]
      BY <2>2, <3>1, Pushed
    <3>3. \A p : Met(p) \/ p = q => Met(p)'
      BY <1>1, <2>2, <3>2 DEF Met, Batched, Tells
    <3>4. \A k \in 1 .. Len(batch') : \/ k \in 1 .. Len(batch) /\ batch'[k] = batch[k]
                                      \/ batch'[k] = c
      BY <3>2
    <3>5. Carrying'
      BY <1>1, <2>1, <2>2, <3>4, MoreLate DEF Charted, Carrying, Tells, folder
    <3> QED BY <3>3, <3>5
  <2>4. \A p \in Paths : Ahead(p) => Ahead(p)' \/ p = q
    BY <1>3, <2>1, TurnLeavesAhead DEF Stacked
  <2>5. Covered'
    BY <1>1, <1>5, <2>1, <2>3, <2>4 DEF Charted, Covered
  <2> QED BY <1>2, <1>5, <2>1, <2>3, <2>5 DEF Charted
<1> QED
  <2>1. ~ \E p \in Paths, c \in Contents : InspectTorn(p, c)
    BY DEF InspectTorn, Becomes
  <2> QED BY <1>7, <1>8, <1>9, <1>10, <1>11, <1>12, <2>1 DEF WalkStep

\* A file with one link has one path.
LEMMA OneLinkOnePath ==
  ASSUME TypeOK, NEW p \in Paths, NEW q \in Paths, Links(disk[p]) = 1, disk[q] = disk[p]
  PROVE  q = p
<1> DEFINE S == {x \in Paths : disk[x] = disk[p]}
<1>1. Cardinality(S) = 1
  BY DEF Links
<1>2. IsFiniteSet(S)
  <2>1. S \subseteq Paths /\ IsFiniteSet(Paths)
    BY FolderAssumption
  <2> QED BY <2>1, FS_Subset
<1>3. PICK x : S = {x}
  <2> HIDE DEF S
  <2> QED BY <1>1, <1>2, FS_Singleton
<1>4. p \in S /\ q \in S
  OBVIOUS
<1> QED BY <1>3, <1>4

\* One row is written, at the path of the candidate, where that path's row
\* is, at a row whose path is free and that has the same inode, or at the end.
LEMMA OneRowWritten ==
  ASSUME TypeOK, RefreshKnown \/ FollowRename \/ InsertNew
  PROVE  /\ Head(batch) \in Candidate /\ pc.at = "flush" /\ batch \in Seq(Candidate) /\ batch # <<>>
         /\ \E b \in Nat :
              /\ DOMAIN draft' = DOMAIN draft \union {b}
              /\ draft'[b] = Refreshed(Head(batch))
              /\ \A a \in DOMAIN draft \ {b} : draft'[a] = draft[a]
              /\ b \in DOMAIN draft =>
                   \/ draft[b].path = Head(batch).path
                   \/ /\ StoredPathIsAbsent(draft[b].path)
                      /\ draft[b].ino = Head(batch).ino
              /\ Here(Head(batch)) # {} => b \in Here(Head(batch))
              /\ Here(Head(batch)) = {} /\ Relocatable(Head(batch)) # {} =>
                   b \in Relocatable(Head(batch))
<1>1. Writing /\ batch \in Seq(Candidate) /\ batch # <<>>
  BY DEF RefreshKnown, FollowRename, InsertNew, Writing, TypeOK
<1>2. PICK c : c = Head(batch)
  OBVIOUS
<1>3. c \in Candidate /\ Refreshed(c) \in Row
  BY <1>1, <1>2, HeadTailProperties, RefreshedRow
<1>4. draft \in Seq(Row) /\ DOMAIN draft = 1 .. Len(draft) /\ Len(draft) \in Nat
  BY DEF TypeOK
<1>5. ASSUME NEW b \in DOMAIN draft, draft' = [draft EXCEPT ![b] = Refreshed(c)]
      PROVE  /\ b \in Nat /\ DOMAIN draft' = DOMAIN draft \union {b}
             /\ draft'[b] = Refreshed(c)
             /\ \A a \in DOMAIN draft \ {b} : draft'[a] = draft[a]
  BY <1>4, <1>5
<1>6. CASE RefreshKnown
  <2>1. PICK b \in Here(c) : draft' = [draft EXCEPT ![b] = Refreshed(c)]
    BY <1>2, <1>6 DEF RefreshKnown
  <2>2. b \in DOMAIN draft /\ draft[b].path = c.path
    BY <2>1 DEF Here, RowsAt
  <2> QED BY <1>1, <1>2, <1>3, <1>5, <2>1, <2>2 DEF Writing
<1>7. CASE FollowRename
  <2>1. PICK b \in Relocatable(c) : draft' = [draft EXCEPT ![b] = Refreshed(c)]
    BY <1>2, <1>7 DEF FollowRename
  <2>2. /\ b \in DOMAIN draft /\ StoredPathIsAbsent(draft[b].path) /\ draft[b].ino = c.ino
    BY <2>1 DEF Relocatable
  <2>3. Here(c) = {}
    BY <1>2, <1>7 DEF FollowRename
  <2> QED BY <1>1, <1>2, <1>3, <1>5, <2>1, <2>2, <2>3 DEF Writing
<1>8. CASE InsertNew
  <2> DEFINE b == Len(draft) + 1
  <2>1. draft' = Append(draft, Refreshed(c)) /\ Here(c) = {} /\ Relocatable(c) = {}
    BY <1>2, <1>8 DEF InsertNew
  <2>2. /\ b \in Nat /\ b \notin DOMAIN draft /\ DOMAIN draft' = DOMAIN draft \union {b}
        /\ draft'[b] = Refreshed(c)
        /\ \A a \in DOMAIN draft \ {b} : draft'[a] = draft[a]
    BY <1>3, <1>4, <2>1
  <2> QED BY <1>1, <1>2, <1>3, <2>1, <2>2 DEF Writing
<1> QED BY <1>6, <1>7, <1>8

\* A batch writes what its candidates tell, keeps what others told, follows
\* the rename of its own file and spoils the evidence of no other.
LEMMA WritesChart ==
  ASSUME TypeOK, TableInv, Charted, RefreshKnown \/ FollowRename \/ InsertNew
  PROVE  Charted'
<1>1. /\ batch' = Tail(batch) /\ seen' = seen \union {Head(batch).path}
      /\ UNCHANGED <<folder, renamed, late, stack, names, excused>>
  BY DEF RefreshKnown, FollowRename, InsertNew, Written, ghosts
<1>2. PICK c : c = Head(batch)
  OBVIOUS
<1>3. c \in Candidate /\ batch \in Seq(Candidate) /\ batch # <<>>
  BY <1>2, OneRowWritten
<1>4. PICK b \in Nat :
        /\ DOMAIN draft' = DOMAIN draft \union {b} /\ draft'[b] = Refreshed(c)
        /\ \A a \in DOMAIN draft \ {b} : draft'[a] = draft[a]
        /\ b \in DOMAIN draft =>
             \/ draft[b].path = c.path
             \/ StoredPathIsAbsent(draft[b].path) /\ draft[b].ino = c.ino
        /\ Here(c) # {} => b \in Here(c)
        /\ Here(c) = {} /\ Relocatable(c) # {} => b \in Relocatable(c)
  BY <1>2, OneRowWritten
<1>5. /\ Len(batch) \in Nat \ {0} /\ Len(batch') = Len(batch) - 1 /\ batch[1] = c
      /\ \A k \in 1 .. Len(batch) - 1 : batch'[k] = batch[k + 1]
  BY <1>1, <1>2, <1>3, EmptySeq, HeadTailProperties
<1>6. c.path \in Paths /\ Wanted(c.path) /\ Tells(c, c.path)
  BY <1>3, <1>5 DEF Charted, Carrying, Candidate
<1>7. Exact(Refreshed(c), c.path)
  BY <1>6 DEF Exact, Tells, Refreshed
<1> USE SameFolder
<1>8. Excusing'
  BY <1>1 DEF Charted, Excusing
<1>9. Carrying'
  <2>1. \A k \in 1 .. Len(batch') : k + 1 \in 1 .. Len(batch) /\ batch'[k] = batch[k + 1]
    BY <1>5
  <2> QED BY <1>1, <2>1 DEF Charted, Carrying, Tells, MayShow, folder
<1>10. Recorded'
  <2> SUFFICES ASSUME NEW p \in seen'
               PROVE  Wanted(p) /\ \E a \in DOMAIN draft' : Exact(draft'[a], p)
    BY <1>1 DEF Recorded, Exact, MayShow, folder
  <2>1. CASE p = c.path
    BY <1>4, <1>6, <1>7, <2>1
  <2>2. CASE p # c.path
    <3>1. PICK a \in DOMAIN draft : Exact(draft[a], p)
      BY <1>1, <1>2, <2>2 DEF Charted, Recorded
    <3>2. Wanted(p)
      BY <1>1, <1>2, <2>2 DEF Charted, Recorded
    <3>3. a # b
      BY <1>4, <2>2, <3>1, <3>2 DEF Exact, Wanted, Readable, StoredPathIsAbsent
    <3> QED BY <1>4, <3>1, <3>2, <3>3
  <2> QED BY <2>1, <2>2
<1>11. Covered'
  <2>1. \A p : Met(p) => Met(p)'
    <3> SUFFICES ASSUME NEW p, Met(p) PROVE Met(p)'
      OBVIOUS
    <3>1. CASE p \in seen
      BY <1>1, <3>1 DEF Met
    <3>2. ASSUME NEW k \in 1 .. Len(batch), batch[k].path = p PROVE Met(p)'
      <4>1. CASE k = 1
        BY <1>1, <1>2, <1>5, <3>2, <4>1 DEF Met
      <4>2. CASE k # 1
        <5>1. k - 1 \in 1 .. Len(batch') /\ batch'[k - 1] = batch[k]
          BY <1>5, <4>2
        <5> QED BY <3>2, <5>1 DEF Met, Batched
      <4> QED BY <4>1, <4>2
    <3> QED BY <3>1, <3>2 DEF Met, Batched
  <2> QED BY <1>1, <2>1 DEF Charted, Covered, Barred, Ahead, Stacked
<1>12. Following'
  <2> SUFFICES ASSUME NEW r \in renamed, NEW a, NEW q, a = r[1], q = r[2]
               PROVE  /\ a \in DOMAIN draft' /\ q \in Paths /\ Wanted(q) /\ Links(disk[q]) = 1
                      /\ \/ draft'[a].path = q
                         \/ /\ draft'[a].ino = disk[q] /\ draft'[a].print = data[disk[q]]
                            /\ StoredPathIsAbsent(draft'[a].path)
                            /\ \A x \in DOMAIN draft' \ {a} : draft'[x].ino # disk[q]
                            /\ RowsAt(draft', q) = {}
    BY <1>1 DEF Following, Followed, Evident, RowsAt, folder
  <2>1. Followed(draft, a, q)
    BY DEF Charted, Following
  <2>2. a \in DOMAIN draft /\ q \in Paths /\ Wanted(q) /\ Links(disk[q]) = 1
    BY <2>1 DEF Followed
  <2>3. /\ Refreshed(c).path = c.path /\ Refreshed(c).ino = disk[c.path]
    BY <1>7 DEF Exact
  <2>4. SUFFICES \/ draft'[a].path = q
                 \/ /\ draft'[a].ino = disk[q] /\ draft'[a].print = data[disk[q]]
                    /\ StoredPathIsAbsent(draft'[a].path)
                    /\ \A x \in DOMAIN draft' \ {a} : draft'[x].ino # disk[q]
                    /\ RowsAt(draft', q) = {}
    BY <1>4, <2>2
  <2>5. CASE c.path = q
    <3>1. CASE draft[a].path = q
      <4>1. a \in Here(c) /\ b \in Here(c)
        BY <1>4, <2>2, <2>5, <3>1 DEF Here, RowsAt
      <4>2. a = b
        BY <4>1 DEF Here, RowsAt, TableInv, OneRowPerPath, OnePerPath
      <4> QED BY <1>4, <2>3, <2>5, <4>2
    <3>2. CASE draft[a].path # q
      <4>1. Evident(draft, a, q)
        BY <2>1, <3>2 DEF Followed
      <4>2. Here(c) = {}
        BY <2>5, <4>1 DEF Evident, Here
      <4>3. {x \in DOMAIN draft : draft[x].ino = c.ino /\ draft[x].path # c.path} = {a}
        BY <1>6, <2>2, <2>5, <3>2, <4>1 DEF Evident, Tells
      <4>4. Relocatable(c) = {a}
        BY <1>6, <2>2, <2>5, <4>1, <4>3 DEF Relocatable, Evident, Tells
      <4> QED BY <1>4, <2>3, <2>5, <4>2, <4>4
    <3> QED BY <3>1, <3>2
  <2>6. CASE c.path # q
    <3>1. disk[c.path] # disk[q]
      BY <1>6, <2>2, <2>6, OneLinkOnePath
    <3>2. Occupied(disk, q) /\ Occupied(disk, c.path)
      BY <1>6, <2>2 DEF Wanted, Readable
    <3>3. CASE draft[a].path = q
      <4>1. a # b
        BY <1>4, <2>2, <2>6, <3>2, <3>3 DEF StoredPathIsAbsent
      <4> QED BY <1>4, <2>2, <3>3, <4>1
    <3>4. CASE draft[a].path # q
      <4>1. Evident(draft, a, q)
        BY <2>1, <3>4 DEF Followed
      <4>2. a # b
        BY <1>4, <1>6, <2>2, <3>1, <3>2, <4>1 DEF Evident, StoredPathIsAbsent, Tells
      <4>3. draft'[a] = draft[a]
        BY <1>4, <2>2, <4>2
      <4>4. \A x \in DOMAIN draft' \ {a} : draft'[x].ino # disk[q]
        BY <1>4, <2>3, <3>1, <4>1 DEF Evident
      <4>5. RowsAt(draft', q) = {}
        <5>1. \A x \in DOMAIN draft' : draft'[x].path # q
          BY <1>4, <2>3, <2>6, <4>1 DEF Evident, RowsAt
        <5> QED BY <5>1 DEF RowsAt
      <4> QED BY <4>1, <4>3, <4>4, <4>5 DEF Evident
    <3> QED BY <3>3, <3>4
  <2> QED BY <2>5, <2>6
<1> QED BY <1>8, <1>9, <1>10, <1>11, <1>12 DEF Charted

\* The end of such a walk tells the rows it found from those it could not read
\* and those that are gone, and leaves the catalogue a mirror of the folder.
LEMMA UnseenMirrors ==
  ASSUME TypeOK, TableInv, WalkInv, Charted, MarkUnseen
  PROVE  Mirrored'
<1>1. /\ pc.at = "unseen" /\ draft = rows /\ stack = <<>> /\ batch = <<>> /\ names = {}
  BY DEF MarkUnseen, At, WalkInv, TableInv, DraftFollows
<1>2. UNCHANGED <<folder, renamed, late>>
  BY DEF MarkUnseen, ghosts
<1>3. /\ DOMAIN rows' = DOMAIN rows
      /\ \A a \in DOMAIN rows : rows'[a] = Unseen(rows[a])
  BY MarkUnseenSafe
<1>4. \A a \in DOMAIN rows : rows[a] \in Row /\ rows[a].path \in Paths
  <2>1. \A a \in DOMAIN rows : rows[a] \in Row
    BY ElementOfSeq DEF TypeOK
  <2> QED BY <2>1 DEF Row
<1>5. \A p : ~Ahead(p) /\ (Met(p) => p \in seen)
  BY <1>1 DEF Ahead, Stacked, Met, Batched
<1>6. \A p \in Paths : Wanted(p) <=> p \in seen
  BY <1>5 DEF Charted, Covered, Recorded, TypeOK
<1>7. \A p \in Paths : Locked(p) <=> ({p} \union Above[p]) \intersect excused.closed # {}
  <2> TAKE p \in Paths
  <2>1. Locked(p) => ({p} \union Above[p]) \intersect excused.closed # {}
    BY <1>5 DEF Charted, Covered, Barred, Excusing
  <2>2. ({p} \union Above[p]) \intersect excused.closed # {} => Locked(p)
    BY TheWay DEF Charted, Excusing, Locked
  <2> QED BY <2>1, <2>2
<1>8. \A p \in Paths : Verdict(p) = IF Locked(p) THEN "permission_denied" ELSE "missing"
  BY <1>7 DEF Verdict, Charted, Excusing
<1>9. ASSUME NEW a \in DOMAIN rows, NEW p, p = rows[a].path
      PROVE  /\ Mirrors(rows'[a], p) /\ rows'[a].path = p
             /\ (rows'[a].lineage = "missing") <=> (rows'[a].state = "missing")
  <2>1. p \in Paths /\ rows[a] \in Row
    BY <1>4, <1>9
  <2>2. CASE p \in seen
    <3>1. rows'[a] = rows[a]
      BY <1>3, <1>9, <2>2 DEF Unseen
    <3>2. PICK b \in DOMAIN rows : Exact(rows[b], p)
      BY <1>1, <2>2 DEF Charted, Recorded
    <3>3. a = b
      BY <1>9, <3>2 DEF Exact, TableInv, OneRowPerPath, OnePerPath
    <3>4. Wanted(p) /\ Exact(rows[a], p)
      BY <1>6, <2>1, <2>2, <3>2, <3>3
    <3> QED BY <3>1, <3>4 DEF Mirrors, MayShow, FoundStates, Exact, Wanted, Readable
  <2>3. CASE p \notin seen
    <3>1. ~Wanted(p)
      BY <1>6, <2>1, <2>3
    <3>2. rows'[a] = [rows[a] EXCEPT !.state = Verdict(p),
                                     !.lineage = IF Verdict(p) = "missing" THEN "missing" ELSE "active"]
      BY <1>3, <1>9, <2>3 DEF Unseen
    <3>3. /\ rows'[a].path = p /\ rows'[a].state = Verdict(p)
          /\ rows'[a].lineage = IF Verdict(p) = "missing" THEN "missing" ELSE "active"
      BY <1>9, <2>1, <3>2 DEF Row
    <3>4. CASE Locked(p)
      BY <1>8, <2>1, <3>3, <3>4 DEF Locked, Mirrors, Readable
    <3>5. CASE ~Locked(p)
      BY <1>8, <2>1, <3>1, <3>3, <3>5 DEF Locked, Mirrors, Readable, Wanted
    <3> QED BY <3>4, <3>5
  <2> QED BY <2>2, <2>3
<1>10. ASSUME NEW p \in Paths, Wanted(p) PROVE \E a \in DOMAIN rows : rows[a].path = p
  BY <1>1, <1>6, <1>10 DEF Charted, Recorded, Exact
<1>11. ASSUME NEW r \in renamed PROVE r[1] \in DOMAIN rows /\ rows[r[1]].path = r[2]
  <2>1. Followed(rows, r[1], r[2])
    BY <1>1 DEF Charted, Following
  <2>2. RowsAt(rows, r[2]) # {}
    BY <1>10, <2>1 DEF Followed, RowsAt
  <2> QED BY <2>1, <2>2 DEF Followed, Evident
<1>12. \A a \in DOMAIN rows : /\ Mirrors(rows'[a], rows'[a].path) /\ rows'[a].path = rows[a].path
                              /\ (rows'[a].lineage = "missing") <=> (rows'[a].state = "missing")
  BY <1>9
<1>13. \A a \in DOMAIN rows' : Mirrors(rows[a], rows[a].path)'
  BY <1>2, <1>3, <1>12 DEF Mirrors, MayShow, folder, Occupied, Closed, Readable
<1>14. \A p \in Paths : Wanted(p)' => RowsAt(rows, p)' # {}
  BY <1>2, <1>3, <1>10, <1>12, SameFolder DEF RowsAt
<1>15. \A r \in renamed' : rows'[r[1]].path = r[2]
  BY <1>2, <1>11, <1>12
<1> QED BY <1>3, <1>12, <1>13, <1>14, <1>15 DEF Mirrored

\* A scan begins with the whole folder ahead of it and every rename evident.
LEMMA BeginCharts ==
  ASSUME TypeOK, TableInv, Rested, OnlyMedia, Begin
  PROVE  Charted'
<1>1. /\ pc.at = "idle" /\ draft = rows /\ stack' = <<Top>> /\ renamed' = EvidentRenames
      /\ UNCHANGED <<folder, names, batch, seen, excused, draft>>
  BY DEF Begin, At, TableInv, DraftFollows
<1>2. names = {} /\ batch = <<>> /\ seen = {} /\ excused = [torn |-> {}, closed |-> {}]
  BY <1>1 DEF Rested
<1>3. Excusing' /\ Carrying' /\ Recorded'
  BY <1>1, <1>2 DEF Excusing, Carrying, Recorded
<1>4. Covered'
  BY <1>1, TheWay DEF Covered, Ahead, Stacked
<1>5. Following'
  <2>1. ASSUME NEW r \in EvidentRenames, NEW a, NEW q, a = r[1], q = r[2]
        PROVE  Followed(draft, a, q)
    <3>1. /\ a \in DOMAIN rows /\ q \in Paths
          /\ Readable(q) /\ disk[q] = rows[a].ino /\ Links(disk[q]) = 1
          /\ data[disk[q]] = rows[a].print
          /\ \A b \in DOMAIN rows \ {a} : rows[b].ino # rows[a].ino
          /\ StoredPathIsAbsent(rows[a].path)
          /\ RowsAt(rows, q) = {}
      BY <2>1 DEF EvidentRenames
    <3> QED BY <1>1, <3>1 DEF Followed, Evident, Wanted, OnlyMedia
  <2> QED BY <1>1, <2>1, SameFolder DEF Following, Followed, Evident, RowsAt, folder
<1> QED BY <1>3, <1>4, <1>5 DEF Charted

LEMMA MirrorKept ==
  ASSUME Mirrored, UNCHANGED <<folder, rows, renamed, late>>
  PROVE  Mirrored'
BY SameFolder DEF Mirrored, Mirrors, MayShow, RowsAt, folder, Occupied

LEMMA ChartKept ==
  ASSUME Charted, UNCHANGED <<folder, walk, draft, renamed, late>>
  PROVE  Charted'
BY NothingWritten, SameFolder
   DEF walk, folder, Charted, Excusing, Carrying, Tells, MayShow, Covered, Met, Batched, Barred, Ahead, Stacked

LEMMA RestedStep == TypeOK /\ TableInv /\ Rested /\ [Next]_vars => Rested'
<1> SUFFICES ASSUME TypeOK, TableInv, Rested, [Next]_vars PROVE Rested'
    OBVIOUS
<1>1. ASSUME UNCHANGED <<pc, names, batch, seen, excused>> PROVE Rested'
  BY <1>1 DEF Rested
<1>2. CASE DiskChange \/ Cancel \/ UNCHANGED vars
  BY <1>1, <1>2, FolderStep, TypesAreParts DEF Cancel, vars, walk
<1>3. ASSUME pc'.at # "idle" PROVE Rested'
  BY <1>3 DEF Rested
<1>4. CASE Begin
  BY <1>3, <1>4 DEF Begin, At
<1>5. CASE WalkStep
  BY <1>3, <1>5, WalkPlaces
<1>6. CASE FlushStep
  <2>1. pc.at = "flush" /\ pc.next \in {"entries", "unseen", "cancel"}
    BY <1>6 DEF FlushStep, RefreshKnown, FollowRename, InsertNew, Commit, Writing,
                TypeOK, Place, Flushing, Failing, At
  <2> QED BY <1>3, <1>6, <2>1 DEF FlushStep, RefreshKnown, FollowRename, InsertNew, Commit, Written, At
<1>7. ASSUME Forget PROVE Rested'
  BY <1>7 DEF Forget, Dropped, Rested
<1>8. CASE EndStep \/ Restart
  <2>1. CASE MarkUnseen \/ Fails \/ MarkFails
    BY <1>3, <2>1 DEF MarkUnseen, Fails, MarkFails, At
  <2> QED BY <1>7, <1>8, <2>1 DEF EndStep, MarkCompleted, MarkCancelled, MarkFailed, Ends, Restart
<1>9. CASE ProbeStep
  <2>1. pc'.at \in {"probe", "flush"}
    BY <1>9, ProbeStepKeeps
  <2> QED BY <1>3, <2>1
<1> QED BY <1>2, <1>4, <1>5, <1>6, <1>8, <1>9 DEF Next, ScanStep, ProbeStep

LEMMA OnlyMediaStep == TypeOK /\ TableInv /\ OnlyMedia /\ [Next]_vars => OnlyMedia'
<1> SUFFICES ASSUME TypeOK, TableInv, OnlyMedia, [Next]_vars PROVE OnlyMedia'
    OBVIOUS
<1>1. ASSUME UNCHANGED <<rows, draft, batch>> PROVE OnlyMedia'
  BY <1>1 DEF OnlyMedia
<1>2. CASE DiskChange \/ Begin \/ Cancel \/ ProbeStep \/ UNCHANGED vars
  BY <1>1, <1>2, FolderStep, TypesAreParts, BeginTyped, ProbeStepKeeps
     DEF Cancel, vars, walk, database
<1>3. CASE WalkStep
  <2>1. UNCHANGED <<rows, draft>>
    BY <1>3, WalkStepKeeps DEF database
  <2>2. ASSUME NEW p \in Paths, Inspect(p) PROVE OnlyMedia'
    <3>1. PICK c : batch' = Append(batch, c) /\ c.print \in Media
      BY <2>2 DEF Inspect
    <3> DEFINE S == Candidate \union {c}
    <3>2. batch \in Seq(S) /\ c \in S
      BY SeqMonotonic DEF TypeOK
    <3> HIDE DEF S
    <3>3. /\ Len(batch) \in Nat /\ Len(batch') = Len(batch) + 1
          /\ batch'[Len(batch) + 1] = c
          /\ \A k \in 1 .. Len(batch) : batch'[k] = batch[k]
      BY <3>1, <3>2, Pushed
    <3>4. \A k \in 1 .. Len(batch') : batch'[k].print \in Media
      BY <3>1, <3>3 DEF OnlyMedia
    <3> QED BY <2>1, <3>4 DEF OnlyMedia
  <2>3. UNCHANGED batch \/ \E p \in Paths : Inspect(p)
    BY <1>3 DEF WalkStep, SeeCancelled, ReadDirectory, WalkDone, EnterDirectory, EntryDenied,
                EntryIgnored, InspectTorn, walk
  <2> QED BY <1>1, <2>1, <2>2, <2>3
<1>4. CASE RefreshKnown \/ FollowRename \/ InsertNew
  <2>1. rows' = rows /\ batch' = Tail(batch)
    BY <1>4 DEF RefreshKnown, FollowRename, InsertNew, Written, database
  <2>2. PICK c : c = Head(batch)
    OBVIOUS
  <2>3. batch \in Seq(Candidate) /\ batch # <<>>
    BY <1>4, OneRowWritten
  <2>4. PICK b \in Nat :
          /\ DOMAIN draft' = DOMAIN draft \union {b} /\ draft'[b] = Refreshed(c)
          /\ \A a \in DOMAIN draft \ {b} : draft'[a] = draft[a]
    BY <1>4, <2>2, OneRowWritten
  <2>5. /\ Len(batch) \in Nat \ {0} /\ Len(batch') = Len(batch) - 1 /\ batch[1] = c
        /\ \A k \in 1 .. Len(batch) - 1 : batch'[k] = batch[k + 1]
    BY <2>1, <2>2, <2>3, EmptySeq, HeadTailProperties
  <2>6. Refreshed(c).print \in Media
    BY <2>5 DEF OnlyMedia, Refreshed
  <2>7. \A a \in DOMAIN draft' : draft'[a].print \in Media
    BY <2>4, <2>6 DEF OnlyMedia
  <2>8. \A k \in 1 .. Len(batch') : batch'[k].print \in Media
    BY <2>5 DEF OnlyMedia
  <2> QED BY <2>1, <2>7, <2>8 DEF OnlyMedia
<1>5. CASE Commit
  BY <1>5 DEF Commit, OnlyMedia, walk
<1>6. CASE MarkUnseen
  <2>1. \A a \in DOMAIN rows : rows[a] \in Row
    BY ElementOfSeq DEF TypeOK
  <2>2. \A row \in Row : Unseen(row).print = row.print
    BY DEF Unseen, Row
  <2>3. draft' = rows' /\ DOMAIN rows' = DOMAIN rows /\ batch' = batch
        /\ \A a \in DOMAIN rows : rows'[a] = Unseen(rows[a])
    BY <1>6, MarkUnseenSafe DEF MarkUnseen, walk
  <2>4. \A a \in DOMAIN rows' : rows'[a].print \in Media
    BY <2>1, <2>2, <2>3 DEF OnlyMedia
  <2> QED BY <2>3, <2>4 DEF OnlyMedia
<1>7. ASSUME Dropped PROVE batch' = <<>> /\ 1 .. Len(batch') = {}
  BY <1>7 DEF Dropped
<1>8. CASE MarkFailed
  <2>1. \A a \in DOMAIN rows : rows[a] \in Row
    BY ElementOfSeq DEF TypeOK
  <2>2. \A a \in DOMAIN rows' : a \in DOMAIN rows /\ rows'[a].print = rows[a].print
    <3>1. CASE rows' = rows
      BY <3>1
    <3>2. CASE rows' = [a \in DOMAIN rows |-> [rows[a] EXCEPT !.state = pc.next]]
      BY <2>1, <3>2 DEF Row
    <3> QED BY <1>8, <3>1, <3>2, FailedRows
  <2>3. \A a \in DOMAIN rows' : rows'[a].print \in Media
    BY <2>2 DEF OnlyMedia
  <2>4. draft' = rows' /\ Forget
    BY <1>8 DEF MarkFailed, Ends
  <2> QED BY <1>7, <2>3, <2>4 DEF OnlyMedia, Forget
<1>9. CASE MarkCompleted \/ MarkCancelled \/ Restart
  <2>1. Forget /\ rows' = rows /\ (draft' = draft \/ draft' = rows)
    BY <1>9 DEF MarkCompleted, MarkCancelled, Ends, Restart
  <2> QED BY <1>7, <2>1 DEF OnlyMedia, Forget
<1>10. CASE Fails \/ MarkFails
  <2>1. rows' = rows /\ (draft' = draft \/ draft' = rows) /\ (batch' = batch \/ Dropped)
    BY <1>10 DEF Fails, MarkFails, database, walk
  <2> QED BY <1>7, <2>1 DEF OnlyMedia
<1> QED BY <1>2, <1>3, <1>4, <1>5, <1>6, <1>8, <1>9, <1>10
        DEF Next, ScanStep, FlushStep, EndStep, ProbeStep

LEMMA QuietStep ==
  TypeOK /\ TableInv /\ WalkInv /\ Rested /\ OnlyMedia /\ QuietScan /\ [Next]_vars => QuietScan'
<1> SUFFICES ASSUME TypeOK, TableInv, WalkInv, Rested, OnlyMedia, QuietScan, [Next]_vars,
                    quiet'
             PROVE  /\ Counting' => Charted'
                    /\ pc'.at = "complete" \/ job' = "completed" => Mirrored'
    BY DEF QuietScan
<1>1. job = "completed" <=> pc.at = "idle" /\ job = "completed"
  BY DEF TableInv, JobFollows, At
<1>2. CASE DiskChange
  BY <1>2 DEF DiskChange, Create, Rename, Link, Remove, Edit, Protect, Becomes
<1>3. CASE Begin
  <2>1. Charted' /\ pc'.at = "walk" /\ job' = "running"
    BY <1>3, BeginCharts DEF Begin, At
  <2> QED BY <2>1
<1>4. CASE WalkStep
  <2>1. quiet
    BY <1>4 DEF WalkStep, SeeCancelled, ReadDirectory, WalkDone, EnterDirectory, EntryDenied,
                EntryIgnored, Inspect, InspectTorn, Becomes, Walking, ghosts
  <2>2. pc.at \in {"walk", "entries"} /\ pc'.at \in {"walk", "entries", "flush"} /\ job' = job
    BY <1>4, WalkPlaces, WalkStepKeeps DEF database
  <2>3. Charted
    BY <2>1, <2>2 DEF QuietScan, Counting
  <2> QED BY <1>1, <1>4, <2>2, <2>3, WalkCharts
<1>5. CASE RefreshKnown \/ FollowRename \/ InsertNew
  <2>1. pc.at = "flush" /\ UNCHANGED <<pc, job, quiet>>
    BY <1>5 DEF RefreshKnown, FollowRename, InsertNew, Writing, Written, database, ghosts
  <2>2. Counting' => Charted
    BY <2>1 DEF QuietScan, Counting
  <2> QED BY <1>1, <1>5, <2>1, <2>2, WritesChart
<1>6. CASE Commit
  <2>1. /\ pc.at = "flush" /\ pc'.at = pc.next
        /\ UNCHANGED <<job, quiet, folder, walk, draft, renamed, late>>
    BY <1>6 DEF Commit, At, ghosts
  <2>2. pc.next \in {"entries", "unseen", "cancel"}
    BY <2>1 DEF TypeOK, Place, Flushing, Failing
  <2>3. Counting' => Charted
    BY <2>1, <2>2 DEF QuietScan, Counting
  <2> QED BY <1>1, <2>1, <2>2, <2>3, ChartKept
<1>7. CASE MarkUnseen
  <2>1. pc.at = "unseen" /\ pc'.at = "complete" /\ quiet
    BY <1>7 DEF MarkUnseen, At, ghosts
  <2>2. Charted
    BY <2>1 DEF QuietScan, Counting
  <2> QED BY <1>7, <2>1, <2>2, UnseenMirrors DEF Counting
<1>8. CASE MarkCompleted
  <2>1. /\ pc.at = "complete" /\ pc'.at = "idle"
        /\ UNCHANGED <<rows, folder, renamed, late, quiet>>
    BY <1>8 DEF MarkCompleted, Ends, Forget, At
  <2> QED BY <2>1, MirrorKept DEF QuietScan, Counting
<1>9. CASE MarkCancelled \/ MarkFailed
  <2>1. Forget /\ (job' = "cancelled" \/ job' = "failed")
    BY <1>9 DEF MarkCancelled, MarkFailed, Ends
  <2>2. pc'.at = "idle"
    BY <2>1 DEF Forget, At
  <2> QED BY <2>1, <2>2 DEF Counting
<1>10. CASE Fails \/ MarkFails
  <2>1. pc.at # "idle" /\ pc'.at \in {"fail", "lost"} /\ job' = job
    BY <1>10 DEF Fails, MarkFails, At, database
  <2> QED BY <1>1, <2>1 DEF Counting
<1>11. CASE Restart
  <2>1. /\ pc'.at = "idle" /\ (job' = "completed" => job = "completed")
        /\ UNCHANGED <<rows, folder, renamed, late, quiet>>
    BY <1>11 DEF Restart, Forget, At
  <2> QED BY <2>1, MirrorKept DEF QuietScan, Counting
<1>12. CASE Cancel \/ UNCHANGED vars
  <2>1. UNCHANGED <<pc, job, quiet, rows, folder, walk, draft, renamed, late>>
    BY <1>12 DEF Cancel, vars, database, ghosts
  <2>2. Counting' => Charted
    BY <2>1 DEF QuietScan, Counting
  <2> QED BY <2>1, <2>2, ChartKept, MirrorKept DEF QuietScan
<1>13. CASE ProbeStep
  <2>1. /\ pc.at # "idle" /\ job' = job
        /\ pc' \in {[at |-> "probe", next |-> "none"], [at |-> "flush", next |-> "cancel"]}
    BY <1>13, ProbeStepKeeps DEF database, At
  <2>2. ~Counting' /\ pc'.at # "complete"
    BY <2>1 DEF Counting
  <2> QED BY <1>1, <2>1, <2>2
<1> QED BY <1>2, <1>3, <1>4, <1>5, <1>6, <1>7, <1>8, <1>9, <1>10, <1>11, <1>12, <1>13
        DEF Next, ScanStep, FlushStep, EndStep, ProbeStep

\* What every step of a scan, of other programs and of the engine keeps: a
\* quiet scan charts the folder while it counts and mirrors it when it is done.
THEOREM QuietInvariance == Spec => []QuietInv
<1>1. Init => QuietInv
  <2> SUFFICES ASSUME Init PROVE WalkInv /\ Rested /\ OnlyMedia /\ QuietScan
    BY InitSafe DEF QuietInv
  <2>1. /\ pc.at = "idle" /\ standing = {} /\ names = {} /\ batch = <<>> /\ seen = {}
        /\ excused = [torn |-> {}, closed |-> {}] /\ quiet = FALSE
        /\ DOMAIN rows = {} /\ DOMAIN draft = {} /\ 1 .. Len(batch) = {}
    BY DEF Init, At
  <2> QED BY <2>1 DEF WalkInv, Counting, Rested, OnlyMedia, QuietScan
<1>2. QuietInv /\ [Next]_vars => QuietInv'
  BY SafeStep, WalkInvStep, RestedStep, OnlyMediaStep, QuietStep DEF QuietInv
<1> QED BY <1>1, <1>2, PTL DEF Spec

\* A completed scan of a folder nobody touched meanwhile leaves every row with
\* what the folder holds at its path, and a row for every readable media file,
\* whatever cancelled, failed and interrupted scans came before it.
THEOREM QuietScansMirrorTheFolder == Spec => []CompletedScanMirrorsFolder
<1>1. QuietInv => CompletedScanMirrorsFolder
  BY DEF QuietInv, QuietScan, Mirrored, Wanted, CompletedScanMirrorsFolder
<1> QED BY <1>1, QuietInvariance, PTL

\* ... and every asset whose rename was evident when it began at its new path.
THEOREM EvidentRenamesKeepTheirAssets == Spec => []EvidentRenamesAreFollowed
<1>1. QuietInv => EvidentRenamesAreFollowed
  BY DEF QuietInv, QuietScan, Mirrored, EvidentRenamesAreFollowed
<1> QED BY <1>1, QuietInvariance, PTL
=============================================================================
