------------------------- MODULE LibraryPackageProofs -------------------------
(***************************************************************************)
(* The package of a Library, for any number of helper processes of any     *)
(* releases: what creating, opening and closing it keep, wherever they     *)
(* fail or are killed and whenever the power is cut.                       *)
(***************************************************************************)
EXTENDS LibraryPackage, SequenceTheorems, TLAPS

-----------------------------------------------------------------------------
(* Types.                                                                  *)

LEMMA NewestSupports ==
  /\ Newest \in Nat \ {0}
  /\ \A p \in Processes : Supports[p] \in 1 .. Newest
<1>1. PICK q \in Processes : \A p \in Processes : Supports[p] <= Supports[q]
  BY PackageAssumption
<1>2. \E v \in {Supports[p] : p \in Processes} : \A p \in Processes : Supports[p] <= v
  BY <1>1
<1>3. Newest \in {Supports[p] : p \in Processes} /\ \A p \in Processes : Supports[p] <= Newest
  BY <1>2 DEF Newest
<1>4. \A p \in Processes : Supports[p] \in Nat \ {0}
  BY PackageAssumption
<1> QED BY <1>3, <1>4

LEMMA VersionsAreNatural == Versions = 0 .. Newest + 1 /\ Versions \subseteq Nat
BY NewestSupports DEF Versions

\* The record of a database, with a version changed and with all of them.
LEMMA ContentsChanged ==
  ASSUME NEW d \in Contents, NEW v \in Versions
  PROVE  /\ [d EXCEPT !.meta = v] \in Contents
         /\ [d EXCEPT !.wal = TRUE] \in Contents
         /\ [d EXCEPT !.user = v, !.ledger = v, !.tables = v, !.meta = v] \in Contents
<1> DEFINE bits == BOOLEAN
           ids  == Processes \union {"none", "lib"}
<1>1. Contents = [id : ids, user : Versions, ledger : Versions, tables : Versions,
                  meta : Versions, wal : bits, flaw : Flaws]
  BY DEF Contents
<1>2. TRUE \in bits
  OBVIOUS
<1> HIDE DEF bits, ids
<1>3. [d EXCEPT !.meta = v] \in Contents
  BY <1>1
<1>4. [d EXCEPT !.wal = TRUE] \in Contents
  BY <1>1, <1>2
<1>5. [d EXCEPT !.user = v] \in Contents
  BY <1>1
<1>6. [[d EXCEPT !.user = v] EXCEPT !.ledger = v] \in Contents
  BY <1>1, <1>5
<1>7. [[[d EXCEPT !.user = v] EXCEPT !.ledger = v] EXCEPT !.tables = v] \in Contents
  BY <1>1, <1>6
<1>8. [[[[d EXCEPT !.user = v] EXCEPT !.ledger = v] EXCEPT !.tables = v]
        EXCEPT !.meta = v] \in Contents
  BY <1>1, <1>7
<1> QED BY <1>3, <1>4, <1>8

LEMMA ManifestChanged ==
  ASSUME NEW m \in Manifests, NEW v \in Versions
  PROVE  [m EXCEPT !.version = v] \in Manifests
BY DEF Manifests

LEMMA LastElement ==
  ASSUME NEW S, NEW s \in Seq(S), s # << >>
  PROVE  /\ Len(s) \in Nat \ {0} /\ Last(s) \in S /\ Last(s) = s[Len(s)]
<1>1. Len(s) \in Nat \ {0}
  BY EmptySeq
<1> QED BY <1>1, ElementOfSeq DEF Last

LEMMA Committed ==
  ASSUME NEW S, NEW s \in Seq(S), NEW e \in S
  PROVE  /\ Append(s, e) \in Seq(S) /\ Append(s, e) # << >>
         /\ Len(Append(s, e)) = Len(s) + 1 /\ Last(Append(s, e)) = e
         /\ \A k \in 1 .. Len(s) : Append(s, e)[k] = s[k]
<1>1. /\ Append(s, e) \in Seq(S) /\ Len(Append(s, e)) = Len(s) + 1 /\ Len(s) \in Nat
      /\ Append(s, e)[Len(s) + 1] = e
      /\ \A k \in 1 .. Len(s) : Append(s, e)[k] = s[k]
  OBVIOUS
<1>2. Append(s, e) # << >>
  <2>1. Len(Append(s, e)) # 0
    BY <1>1
  <2> QED BY <2>1, EmptySeq
<1> QED BY <1>1, <1>2 DEF Last

LEMMA Single ==
  ASSUME NEW S, NEW e \in S
  PROVE  /\ <<e>> \in Seq(S) /\ <<e>> # << >> /\ Len(<<e>>) = 1
         /\ Last(<<e>>) = e /\ <<e>>[1] = e /\ DOMAIN <<e>> = {1}
BY DEF Last

LEMMA Prefix ==
  ASSUME NEW S, NEW s \in Seq(S), NEW n \in 1 .. Len(s)
  PROVE  /\ SubSeq(s, 1, n) \in Seq(S) /\ SubSeq(s, 1, n) # << >>
         /\ Len(SubSeq(s, 1, n)) = n
         /\ \A k \in 1 .. n : SubSeq(s, 1, n)[k] = s[k]
<1>1. n \in Nat \ {0} /\ 1 \in Int /\ n \in Int /\ Len(s) \in Nat
  BY LenProperties
<1>2. \A k \in 1 .. n : s[k] \in S
  BY <1>1, ElementOfSeq
<1>3. /\ SubSeq(s, 1, n) \in Seq(S)
      /\ Len(SubSeq(s, 1, n)) = IF 1 <= n THEN n - 1 + 1 ELSE 0
      /\ \A i \in 1 .. n - 1 + 1 : SubSeq(s, 1, n)[i] = s[1 + i - 1]
  BY <1>1, <1>2, SubSeqProperties
<1> DEFINE t == SubSeq(s, 1, n)
<1> HIDE DEF t
<1>4. /\ t \in Seq(S) /\ Len(t) = IF 1 <= n THEN n - 1 + 1 ELSE 0
      /\ \A i \in 1 .. n - 1 + 1 : t[i] = s[1 + i - 1]
  BY <1>3 DEF t
<1>5. Len(t) = n
  BY <1>1, <1>4
<1>6. ASSUME NEW k \in 1 .. n PROVE t[k] = s[k]
  <2>1. k \in 1 .. n - 1 + 1 /\ 1 + k - 1 = k
    BY <1>1, <1>6
  <2> QED BY <1>4, <2>1
<1>7. t # << >>
  BY <1>1, <1>5, EmptySeq
<1> QED BY <1>4, <1>5, <1>6, <1>7 DEF t

-----------------------------------------------------------------------------
(* The invariant.                                                          *)

\* Stages at which a process has read the manifest, and at which it or the
\* package has passed validation.
Past      == Stages \ {"idle", "staged", "publish", "parent"}
Validated == Past \ {"lock", "readOnly"}

Fresh(p) == [id |-> p, user |-> Supports[p], ledger |-> Supports[p], tables |-> Supports[p],
             meta |-> Supports[p], wal |-> TRUE, flaw |-> "none"]

\* A package has one identity wherever it is written.
OneIdentity ==
  /\ \A n \in 1 .. Len(log) : log[n].id = Data.id
  /\ stable.id = manifest.id

\* Who has read the manifest has read the one that is there.
Readers ==
  \A p \in Processes : at[p] \in Past =>
    There /\ copy[p].id = manifest.id /\ copy[p].version <= Newest

\* What has passed validation would pass again.
Sound == \A p \in Processes : at[p] \in Validated => Acceptable(Data, manifest, Newest)

Staging ==
  \A p \in Processes :
    /\ at[p] = "staged" => staged[p] # << >> /\ Last(staged[p]) = Fresh(p)
    /\ at[p] = "publish" => staged[p] = <<Fresh(p)>>

PackageInv == TypeOK /\ OneIdentity /\ Readers /\ Sound /\ Staging

DiskTyped ==
  log \in Seq(Contents) /\ manifest \in Manifests /\ stable \in Manifests /\ rooted \in BOOLEAN

LocalTyped ==
  /\ at \in [Processes -> Stages] /\ copy \in [Processes -> Manifests]
  /\ reached \in [Processes -> 0 .. Newest] /\ staged \in [Processes -> Seq(Contents)]
  /\ holder \subseteq Processes

SeenTyped ==
  /\ found \in [Processes -> Contents]
  /\ answer \in [Processes -> {"none", "open", "preserved"}]
  /\ raced \in BOOLEAN /\ faults \in 0 .. MaxFaults

LEMMA TypesAreParts ==
  /\ TypeOK <=> DiskTyped /\ LocalTyped /\ SeenTyped
  /\ TypeOK' <=> DiskTyped' /\ LocalTyped' /\ SeenTyped'
BY DEF TypeOK, DiskTyped, LocalTyped, SeenTyped

LEMMA FreshIsContents ==
  \A p \in Processes : /\ Fresh(p) \in Contents /\ Blank \in Contents
                       /\ NoManifest \in Manifests
                       /\ [id |-> p, version |-> Supports[p]] \in Manifests
<1> TAKE p \in Processes
<1> DEFINE bits == BOOLEAN
           ids  == Processes \union {"none", "lib"}
<1>1. Contents = [id : ids, user : Versions, ledger : Versions, tables : Versions,
                  meta : Versions, wal : bits, flaw : Flaws]
      /\ Manifests = [id : ids, version : Versions]
  BY DEF Contents, Manifests
<1>2. /\ TRUE \in bits /\ p \in ids /\ "none" \in ids /\ "none" \in Flaws
      /\ 0 \in Versions /\ Supports[p] \in Versions
  BY NewestSupports DEF Versions, Flaws
<1> HIDE DEF bits, ids
<1> QED BY <1>1, <1>2 DEF Fresh, Blank, NoManifest

LEMMA FreshIsAcceptable ==
  ASSUME NEW p \in Processes, NEW m, m.id = p
  PROVE  Acceptable(Fresh(p), m, Newest)
BY NewestSupports DEF Acceptable, Fresh

LEMMA DataIsContents ==
  ASSUME TypeOK, There
  PROVE  /\ Data \in Contents /\ Len(log) \in Nat \ {0} /\ Data = log[Len(log)]
         /\ log \in Seq(Contents)
BY LastElement DEF TypeOK, There, Data

\* What may take the place of the contents, for whoever wrote it.
Successor(d) ==
  /\ d \in Contents /\ d.id = Data.id
  /\ \A m : Acceptable(Data, m, Newest) => Acceptable(d, m, Newest)

\* A step that keeps what the package is.
Gentle ==
  \/ /\ There /\ UNCHANGED <<manifest, stable>>
     /\ \E d : Successor(d) /\ log' \in {Append(log, d), <<d>>}
  \/ /\ log' = log /\ stable' = stable
     /\ There /\ manifest' \in Manifests /\ manifest'.id = manifest.id /\ manifest'.version <= Newest
  \/ UNCHANGED <<log, manifest>> /\ stable' \in {stable, manifest}

LEMMA GentleKeeps ==
  ASSUME TypeOK, OneIdentity, Gentle
  PROVE  /\ log' \in Seq(Contents) /\ manifest' \in Manifests /\ stable' \in Manifests
         /\ OneIdentity'
         /\ There' <=> There
         /\ There => Data'.id = Data.id
         /\ There /\ Acceptable(Data, manifest, Newest) => Acceptable(Data', manifest', Newest)
         /\ manifest'.id = manifest.id
         /\ Openable => Openable'
<1>1. log \in Seq(Contents) /\ manifest \in Manifests /\ stable \in Manifests
  BY DEF TypeOK
<1>2. ASSUME There, UNCHANGED <<manifest, stable>>,
             NEW d, Successor(d), log' \in {Append(log, d), <<d>>}
      PROVE  /\ log' \in Seq(Contents) /\ OneIdentity' /\ There' /\ Data' = d
             /\ Openable => Openable'
  <2>1. d \in Contents /\ d.id = Data.id
    BY <1>2 DEF Successor
  <2>2. CASE log' = Append(log, d)
    <3>1. /\ log' \in Seq(Contents) /\ log' # << >> /\ Len(log') = Len(log) + 1 /\ Last(log') = d
          /\ log'[Len(log) + 1] = d /\ Len(log) \in Nat
          /\ \A k \in 1 .. Len(log) : log'[k] = log[k]
      BY <1>1, <2>1, <2>2, Committed
    <3>2. DOMAIN log = 1 .. Len(log) /\ DOMAIN log' = 1 .. Len(log) + 1
      BY <1>1, <3>1
    <3>3. Data' = d /\ There'
      BY <3>1 DEF Data, There
    <3>4. OneIdentity'
      BY <1>2, <2>1, <3>1, <3>3 DEF OneIdentity
    <3>5. Openable => Openable'
      <4> SUFFICES ASSUME Openable PROVE Openable'
        OBVIOUS
      <4>1. \A m \in {manifest, stable} : Acceptable(Data, m, Newest)
        BY <1>2, DataIsContents, <3>2 DEF Openable
      <4>2. \A n \in DOMAIN log' : \A m \in {manifest', stable'} : Acceptable(log'[n], m, Newest)
        BY <1>2, <3>1, <3>2, <4>1 DEF Openable, Successor
      <4> QED BY <1>2, <4>2 DEF Openable
    <3> QED BY <3>1, <3>3, <3>4, <3>5
  <2>3. CASE log' = <<d>>
    <3>1. /\ log' \in Seq(Contents) /\ log' # << >> /\ Len(log') = 1 /\ Last(log') = d
          /\ log'[1] = d /\ DOMAIN log' = {1}
      BY <2>1, <2>3, Single
    <3>2. Data' = d /\ There'
      BY <3>1 DEF Data, There
    <3>3. OneIdentity'
      BY <1>2, <3>1, <3>2 DEF OneIdentity
    <3>4. Openable => Openable'
      <4> SUFFICES ASSUME Openable PROVE Openable'
        OBVIOUS
      <4>1. \A m \in {manifest, stable} : Acceptable(Data, m, Newest)
        BY <1>2, DataIsContents DEF Openable
      <4>2. \A n \in DOMAIN log' : \A m \in {manifest', stable'} : Acceptable(log'[n], m, Newest)
        BY <1>2, <3>1, <4>1 DEF Successor
      <4> QED BY <1>2, <4>2 DEF Openable
    <3> QED BY <3>1, <3>2, <3>3, <3>4
  <2> QED BY <1>2, <2>2, <2>3
<1>3. CASE There /\ UNCHANGED <<manifest, stable>>
           /\ \E d : Successor(d) /\ log' \in {Append(log, d), <<d>>}
  <2>1. PICK d : Successor(d) /\ log' \in {Append(log, d), <<d>>}
    BY <1>3
  <2>2. /\ log' \in Seq(Contents) /\ OneIdentity' /\ There' /\ Data' = d
        /\ Openable => Openable'
    BY <1>2, <1>3, <2>1
  <2>3. Data'.id = Data.id
    BY <2>1, <2>2 DEF Successor
  <2>4. Acceptable(Data, manifest, Newest) => Acceptable(Data', manifest', Newest)
    <3>1. Acceptable(Data, manifest, Newest) => Acceptable(d, manifest, Newest)
      BY <2>1 DEF Successor
    <3> QED BY <1>3, <2>2, <3>1
  <2> QED BY <1>1, <1>3, <2>2, <2>3, <2>4
<1>4. CASE /\ log' = log /\ stable' = stable
           /\ There /\ manifest' \in Manifests /\ manifest'.id = manifest.id
           /\ manifest'.version <= Newest
  BY <1>1, <1>4 DEF OneIdentity, There, Data, Openable, Acceptable
<1>5. CASE UNCHANGED <<log, manifest>> /\ stable' \in {stable, manifest}
  BY <1>1, <1>5 DEF OneIdentity, There, Data, Openable, Acceptable
<1> QED BY <1>3, <1>4, <1>5 DEF Gentle

-----------------------------------------------------------------------------
(* The steps of one process, as far as it alone is concerned.              *)

StagingOf(p) ==
  /\ at[p] = "staged" => staged[p] # << >> /\ Last(staged[p]) = Fresh(p)
  /\ at[p] = "publish" => staged[p] = <<Fresh(p)>>

\* It has read the manifest, or does so now; it has passed validation, or does
\* so now; and nobody else is concerned.
Proper(p) ==
  /\ LocalTyped' /\ SeenTyped' /\ rooted' \in BOOLEAN
  /\ \A q \in Processes \ {p} :
       at'[q] = at[q] /\ copy'[q] = copy[q] /\ staged'[q] = staged[q]
  /\ at'[p] \in Past =>
       \/ at[p] \in Past /\ copy'[p] = copy[p]
       \/ There /\ copy'[p] = manifest /\ manifest.version <= Newest /\ UNCHANGED <<log, manifest>>
  /\ at'[p] \in Validated => at[p] \in Validated \/ (at[p] = "readOnly" /\ Passes(p))
  /\ StagingOf(p)'

LEMMA Goes ==
  ASSUME PackageInv, NEW p \in Processes, NEW from, NEW to \in Stages, Go(p, from, to)
  PROVE  /\ at' \in [Processes -> Stages] /\ at[p] = from /\ at'[p] = to
         /\ \A q \in Processes \ {p} : at'[q] = at[q]
BY DEF PackageInv, TypeOK, Go

LEMMA LeavesProper ==
  ASSUME PackageInv, NEW p \in Processes, Leaves(p), SeenTyped', rooted' \in BOOLEAN
  PROVE  Proper(p)
<1>1. /\ NoManifest \in Manifests /\ << >> \in Seq(Contents) /\ "idle" \in Stages
      /\ 0 \in 0 .. Newest
  <2>1. NoManifest \in Manifests
    BY FreshIsContents
  <2>2. << >> \in Seq(Contents)
    BY EmptySeq
  <2>3. "idle" \in Stages /\ 0 \in 0 .. Newest
    BY NewestSupports DEF Stages
  <2> QED BY <2>1, <2>2, <2>3
<1>2. /\ at' \in [Processes -> Stages] /\ copy' \in [Processes -> Manifests]
      /\ reached' \in [Processes -> 0 .. Newest] /\ staged' \in [Processes -> Seq(Contents)]
      /\ holder' \subseteq Processes
  BY <1>1 DEF Leaves, PackageInv, TypeOK
<1>3. at'[p] = "idle"
  BY DEF Leaves, PackageInv, TypeOK
<1>4. \A q \in Processes \ {p} :
        at'[q] = at[q] /\ copy'[q] = copy[q] /\ staged'[q] = staged[q]
  BY DEF Leaves, PackageInv, TypeOK
<1>5. "idle" \notin Past /\ "idle" \notin Validated
  BY DEF Past, Validated
<1> QED BY <1>2, <1>3, <1>4, <1>5 DEF Proper, LocalTyped, StagingOf

LEMMA CreateProper ==
  ASSUME PackageInv, NEW p \in Processes, Create(p)
  PROVE  Proper(p)
<1> USE TypesAreParts DEF PackageInv
<1>0. /\ SeenTyped' /\ rooted' \in BOOLEAN /\ UNCHANGED <<copy, reached, holder>>
  BY DEF Create, Stage, CheckpointStaging, Publish, SyncParent, disk, seen, TypeOK, SeenTyped
<1>1. Fresh(p) \in Contents /\ Blank \in Contents
  BY FreshIsContents
<1>2. CASE Stage(p)
  <2>1. at' \in [Processes -> Stages] /\ at'[p] = "staged"
        /\ \A q \in Processes \ {p} : at'[q] = at[q]
    BY <1>2, Goes DEF Stage, Stages
  <2>2. staged' = [staged EXCEPT ![p] = <<Blank, Fresh(p)>>]
    BY <1>2 DEF Stage, Fresh
  <2>3. <<Blank, Fresh(p)>> \in Seq(Contents) /\ Len(<<Blank, Fresh(p)>>) = 2
        /\ Last(<<Blank, Fresh(p)>>) = Fresh(p)
    BY <1>1 DEF Last
  <2>4. <<Blank, Fresh(p)>> # << >>
    OBVIOUS
  <2>5. staged' \in [Processes -> Seq(Contents)] /\ staged'[p] = <<Blank, Fresh(p)>>
        /\ \A q \in Processes \ {p} : staged'[q] = staged[q]
    <3> DEFINE pair == <<Blank, Fresh(p)>>
    <3> HIDE DEF pair
    <3>1. staged' = [staged EXCEPT ![p] = pair] /\ pair \in Seq(Contents)
      BY <2>2, <2>3 DEF pair
    <3>2. staged' \in [Processes -> Seq(Contents)] /\ staged'[p] = pair
          /\ \A q \in Processes \ {p} : staged'[q] = staged[q]
      BY <3>1 DEF TypeOK
    <3> QED BY <3>2 DEF pair
  <2>6. LocalTyped'
    BY <1>0, <2>1, <2>5 DEF TypeOK, LocalTyped
  <2>7. StagingOf(p)'
    BY <2>1, <2>3, <2>4, <2>5 DEF StagingOf
  <2>8. "staged" \notin Past /\ "staged" \notin Validated
    BY DEF Past, Validated
  <2> QED BY <1>0, <2>1, <2>5, <2>6, <2>7, <2>8 DEF Proper
<1>3. CASE CheckpointStaging(p)
  <2>1. /\ at' \in [Processes -> Stages] /\ at[p] = "staged" /\ at'[p] = "publish"
        /\ \A q \in Processes \ {p} : at'[q] = at[q]
    BY <1>3, Goes DEF CheckpointStaging, Stages
  <2>2. Last(staged[p]) = Fresh(p)
    BY <2>1 DEF Staging
  <2>3. staged' = [staged EXCEPT ![p] = <<Fresh(p)>>]
    BY <1>3, <2>2 DEF CheckpointStaging
  <2>4. <<Fresh(p)>> \in Seq(Contents)
    BY <1>1, Single
  <2>5. staged' \in [Processes -> Seq(Contents)] /\ staged'[p] = <<Fresh(p)>>
        /\ \A q \in Processes \ {p} : staged'[q] = staged[q]
    BY <2>3, <2>4 DEF TypeOK
  <2>6. "publish" \notin Past /\ "publish" \notin Validated
    BY DEF Past, Validated
  <2>7. LocalTyped'
    BY <1>0, <2>1, <2>5 DEF TypeOK, LocalTyped
  <2> QED BY <1>0, <2>1, <2>5, <2>6, <2>7 DEF Proper, StagingOf
<1>4. CASE Publish(p)
  <2>1. /\ at' \in [Processes -> Stages] /\ at'[p] = "parent"
        /\ \A q \in Processes \ {p} : at'[q] = at[q]
    BY <1>4, Goes DEF Publish, Stages
  <2>2. << >> \in Seq(Contents)
    BY EmptySeq
  <2>3. staged' \in [Processes -> Seq(Contents)]
        /\ \A q \in Processes \ {p} : staged'[q] = staged[q]
    BY <1>4, <2>2 DEF Publish, TypeOK
  <2>4. "parent" \notin Past /\ "parent" \notin Validated
    BY DEF Past, Validated
  <2>5. LocalTyped'
    BY <1>0, <2>1, <2>3 DEF TypeOK, LocalTyped
  <2> QED BY <1>0, <2>1, <2>3, <2>4, <2>5 DEF Proper, StagingOf
<1>5. CASE SyncParent(p)
  <2>1. /\ at' \in [Processes -> Stages] /\ at'[p] = "idle" /\ staged' = staged
        /\ \A q \in Processes \ {p} : at'[q] = at[q]
    BY <1>5, Goes DEF SyncParent, Stages
  <2>2. "idle" \notin Past /\ "idle" \notin Validated
    BY DEF Past, Validated
  <2>3. LocalTyped'
    BY <1>0, <2>1 DEF TypeOK, LocalTyped
  <2> QED BY <1>0, <2>1, <2>2, <2>3 DEF Proper, StagingOf
<1> QED BY <1>2, <1>3, <1>4, <1>5 DEF Create

\* The stages of open and close once the manifest is read.
LEMMA LaterProper ==
  ASSUME PackageInv, NEW p \in Processes,
         NEW from \in Past, NEW to \in Past, Go(p, from, to),
         copy' = copy, staged' = staged, reached' \in [Processes -> 0 .. Newest],
         holder' \subseteq Processes, SeenTyped', rooted' \in BOOLEAN,
         to \in Validated => from \in Validated \/ (from = "readOnly" /\ Passes(p))
  PROVE  Proper(p)
<1>1. to \in Stages /\ from \in Stages
  BY DEF Past
<1>2. /\ at' \in [Processes -> Stages] /\ at[p] = from /\ at'[p] = to
      /\ \A q \in Processes \ {p} : at'[q] = at[q]
  BY <1>1, Goes
<1>3. LocalTyped'
  BY <1>2 DEF PackageInv, TypeOK, LocalTyped
<1>4. to # "staged" /\ to # "publish"
  BY DEF Past
<1> QED BY <1>2, <1>3, <1>4 DEF Proper, StagingOf

LEMMA OpenProper ==
  ASSUME PackageInv, NEW p \in Processes, Open(p)
  PROVE  Proper(p)
<1> USE TypesAreParts
<1>1. CASE ReadManifest(p)
  <2>1. /\ at' \in [Processes -> Stages] /\ at'[p] = "lock"
        /\ \A q \in Processes \ {p} : at'[q] = at[q]
    BY <1>1, Goes DEF ReadManifest, Stages
  <2>2. manifest \in Manifests
    BY DEF PackageInv, TypeOK
  <2>3. /\ copy' \in [Processes -> Manifests] /\ copy'[p] = manifest
        /\ \A q \in Processes \ {p} : copy'[q] = copy[q]
    BY <1>1, <2>2 DEF ReadManifest, PackageInv, TypeOK
  <2>4. manifest.version <= Newest
    BY <1>1, <2>2, NewestSupports, VersionsAreNatural DEF ReadManifest, Manifests
  <2>5. LocalTyped' /\ SeenTyped' /\ rooted' \in BOOLEAN
    BY <1>1, <2>1, <2>3 DEF ReadManifest, disk, PackageInv, TypeOK, LocalTyped, SeenTyped
  <2>6. "lock" \notin Validated
    BY DEF Validated
  <2> QED BY <1>1, <2>1, <2>3, <2>4, <2>5, <2>6 DEF ReadManifest, disk, Proper, StagingOf
<1>2. CASE TryLock(p)
  <2>1. There /\ at[p] = "lock"
    BY <1>2 DEF TryLock, Go, PackageInv, Readers, Past, Stages
  <2>2. found' \in [Processes -> Contents]
    BY <1>2, <2>1, DataIsContents DEF TryLock, PackageInv, TypeOK
  <2>3. raced' \in BOOLEAN
    BY <1>2, Zenon DEF TryLock
  <2>4. SeenTyped' /\ rooted' \in BOOLEAN
    BY <1>2, <2>2, <2>3 DEF TryLock, disk, PackageInv, TypeOK, SeenTyped
  <2>5. "lock" \in Past /\ "readOnly" \in Past /\ "readOnly" \notin Validated
    BY DEF Past, Validated, Stages
  <2>6. holder' \subseteq Processes /\ UNCHANGED <<copy, staged>>
        /\ reached' \in [Processes -> 0 .. Newest] /\ Go(p, "lock", "readOnly")
    BY <1>2 DEF TryLock, PackageInv, TypeOK
  <2> QED BY <2>4, <2>5, <2>6, LaterProper
<1>3. CASE ValidateReadOnly(p)
  <2>1. There /\ Data.user \in 0 .. Newest
    <3>1. There
      BY <1>3 DEF ValidateReadOnly, Go, PackageInv, Readers, Past, Stages
    <3>2. Data \in Contents /\ Data.user \in 1 .. Supports[p]
      BY <1>3, <3>1, DataIsContents DEF ValidateReadOnly, Passes, Acceptable, PackageInv
    <3> QED BY <3>1, <3>2, NewestSupports
  <2>2. /\ reached' \in [Processes -> 0 .. Newest] /\ UNCHANGED <<copy, staged, holder>>
        /\ Go(p, "readOnly", "writable") /\ Passes(p)
    BY <1>3, <2>1 DEF ValidateReadOnly, Kept, PackageInv, TypeOK
  <2>3. SeenTyped' /\ rooted' \in BOOLEAN /\ holder' \subseteq Processes
    BY <1>3 DEF ValidateReadOnly, Kept, disk, seen, PackageInv, TypeOK, SeenTyped
  <2>4. "readOnly" \in Past /\ "writable" \in Past
    BY DEF Past, Stages
  <2> QED BY <2>2, <2>3, <2>4, LaterProper
<1>4. CASE ValidateWritable(p) \/ Configure(p) \/ RunScript(p) \/ ReconcileMeta(p)
           \/ PostChecks(p) \/ RewriteManifest(p) \/ SyncPackage(p) \/ CheckLedger(p)
  <2>1. PICK from \in Validated, to \in Past : Go(p, from, to)
    BY <1>4 DEF ValidateWritable, Configure, RunScript, ReconcileMeta, PostChecks,
                RewriteManifest, SyncPackage, CheckLedger, Validated, Past, Stages
  <2>2. from \in Past
    BY DEF Validated
  <2>3. UNCHANGED <<copy, staged, holder, rooted, found, answer, raced, faults>>
    BY <1>4 DEF ValidateWritable, Configure, RunScript, ReconcileMeta, PostChecks, Commit,
                RewriteManifest, SyncPackage, CheckLedger, Kept, disk, seen
  <2>4. reached' \in [Processes -> 0 .. Newest]
    <3>1. CASE CheckLedger(p)
      <4>1. at[p] = "ledger" /\ Data.ledger = reached[p] + 1
        BY <3>1 DEF CheckLedger, Go
      <4>2. There /\ Acceptable(Data, manifest, Newest)
        BY <4>1 DEF PackageInv, Readers, Sound, Past, Validated, Stages
      <4>3. reached[p] + 1 \in 0 .. Newest
        BY <4>1, <4>2 DEF Acceptable, PackageInv, TypeOK
      <4> QED BY <3>1, <4>3 DEF CheckLedger, PackageInv, TypeOK
    <3>2. CASE reached' = reached
      BY <3>2 DEF PackageInv, TypeOK
    <3> QED BY <1>4, <3>1, <3>2 DEF ValidateWritable, Configure, RunScript, ReconcileMeta,
                                    PostChecks, RewriteManifest, SyncPackage
  <2>5. SeenTyped' /\ rooted' \in BOOLEAN /\ holder' \subseteq Processes
    BY <2>3 DEF PackageInv, TypeOK, SeenTyped
  <2> QED BY <2>1, <2>2, <2>3, <2>4, <2>5, LaterProper
<1>5. CASE Reread(p)
  <2>1. /\ at' \in [Processes -> Stages] /\ at[p] = "reread" /\ at'[p] = "open"
        /\ \A q \in Processes \ {p} : at'[q] = at[q]
    BY <1>5, Goes DEF Reread, Stages
  <2>2. There /\ at[p] \in Validated
    BY <2>1 DEF PackageInv, Readers, Past, Validated, Stages
  <2>3. manifest \in Manifests
    BY DEF PackageInv, TypeOK
  <2>4. /\ copy' \in [Processes -> Manifests] /\ copy'[p] = manifest
        /\ \A q \in Processes \ {p} : copy'[q] = copy[q]
    BY <1>5, <2>3 DEF Reread, PackageInv, TypeOK
  <2>5. manifest.version <= Newest
    BY <1>5, <2>3, NewestSupports, VersionsAreNatural DEF Reread, Manifests
  <2>6. answer' \in [Processes -> {"none", "open", "preserved"}]
    BY <1>5 DEF Reread, PackageInv, TypeOK
  <2>7. LocalTyped' /\ SeenTyped' /\ rooted' \in BOOLEAN
    BY <1>5, <2>1, <2>4, <2>6 DEF Reread, disk, PackageInv, TypeOK, LocalTyped, SeenTyped
  <2> QED BY <1>5, <2>1, <2>2, <2>4, <2>5, <2>7 DEF Reread, disk, Proper, StagingOf
<1>6. CASE RefusePackage(p) \/ TurnAway(p)
  <2>1. answer' \in [Processes -> {"none", "open", "preserved"}]
    BY <1>6 DEF RefusePackage, TurnAway, seen, PackageInv, TypeOK
  <2>2. SeenTyped' /\ rooted' \in BOOLEAN
    BY <1>6, <2>1 DEF RefusePackage, TurnAway, seen, disk, PackageInv, TypeOK, SeenTyped
  <2> QED BY <1>6, <2>2, LeavesProper DEF RefusePackage, TurnAway
<1> QED BY <1>1, <1>2, <1>3, <1>4, <1>5, <1>6 DEF Open, Validate, Upgrade

LEMMA CloseProper ==
  ASSUME PackageInv, NEW p \in Processes, Close(p) \/ GiveUp(p) \/ AutoCheckpoint(p)
  PROVE  Proper(p)
<1>1. CASE CloseCheckpoint(p) \/ CloseManifest(p)
  <2>1. PICK from \in Validated, to \in Past : Go(p, from, to)
    BY <1>1 DEF CloseCheckpoint, CloseManifest, Validated, Past, Stages
  <2>2. from \in Past
    BY DEF Validated
  <2>3. UNCHANGED <<copy, staged, holder, reached, rooted, found, answer, raced, faults>>
    BY <1>1 DEF CloseCheckpoint, CloseManifest, Kept, seen
  <2>4. SeenTyped' /\ rooted' \in BOOLEAN /\ holder' \subseteq Processes
        /\ reached' \in [Processes -> 0 .. Newest]
    BY <2>3 DEF PackageInv, TypeOK, SeenTyped
  <2> QED BY <2>1, <2>2, <2>3, <2>4, LaterProper
<1>2. CASE Unlock(p)
  <2>1. SeenTyped' /\ rooted' \in BOOLEAN
    BY <1>2 DEF Unlock, seen, disk, PackageInv, TypeOK, SeenTyped
  <2> QED BY <1>2, <2>1, LeavesProper DEF Unlock
<1>3. CASE GiveUp(p)
  <2>1. faults' \in 0 .. MaxFaults
    BY <1>3, PackageAssumption DEF GiveUp, Fault, PackageInv, TypeOK
  <2>2. SeenTyped' /\ rooted' \in BOOLEAN
    BY <1>3, <2>1 DEF GiveUp, seen, disk, PackageInv, TypeOK, SeenTyped
  <2> QED BY <1>3, <2>2, LeavesProper DEF GiveUp
<1>4. CASE AutoCheckpoint(p)
  <2>1. UNCHANGED <<rooted, at, copy, reached, staged, holder, found, answer, raced, faults>>
    BY <1>4 DEF AutoCheckpoint, local, seen
  <2>2. LocalTyped' /\ SeenTyped' /\ rooted' \in BOOLEAN
    BY <2>1 DEF PackageInv, TypeOK, LocalTyped, SeenTyped
  <2>3. StagingOf(p)'
    BY <2>1 DEF PackageInv, Staging, StagingOf
  <2> QED BY <2>1, <2>2, <2>3 DEF Proper
<1> QED BY <1>1, <1>2, <1>3, <1>4 DEF Close

-----------------------------------------------------------------------------
(* The steps of one process, as far as the package is concerned.           *)

Creates(p) == ~There /\ Publish(p)

\* A process that is not past validation writes nothing to a package.
LEMMA StepGentle ==
  ASSUME PackageInv, NEW p \in Processes,
         Create(p) \/ Open(p) \/ Close(p) \/ GiveUp(p) \/ AutoCheckpoint(p)
  PROVE  /\ Creates(p) \/ Gentle
         /\ Creates(p) \/ at[p] \in Validated \/ UNCHANGED <<log, manifest>>
<1>1. ASSUME at[p] \in Validated
      PROVE  /\ There /\ Data \in Contents /\ Acceptable(Data, manifest, Newest)
             /\ copy[p] \in Manifests /\ copy[p].id = manifest.id /\ copy[p].version <= Newest
             /\ Data.user \in 1 .. Newest
  <2>1. at[p] \in Past
    BY <1>1 DEF Validated
  <2>2. /\ There /\ copy[p].id = manifest.id /\ copy[p].version <= Newest
        /\ Acceptable(Data, manifest, Newest) /\ copy[p] \in Manifests
    BY <1>1, <2>1 DEF PackageInv, Readers, Sound, TypeOK
  <2> QED BY <2>2, DataIsContents DEF Acceptable, PackageInv
<1>2. ASSUME There, UNCHANGED <<manifest, stable>>,
             NEW d, Successor(d), log' = Append(log, d) \/ log' = <<d>>
      PROVE  Gentle
  BY <1>2 DEF Gentle
<1>3. There => Successor(Data) /\ Successor([Data EXCEPT !.wal = TRUE])
  <2> SUFFICES ASSUME There PROVE Successor(Data) /\ Successor([Data EXCEPT !.wal = TRUE])
    OBVIOUS
  <2>1. Data \in Contents /\ 0 \in Versions
    BY DataIsContents, NewestSupports DEF PackageInv, Versions
  <2>2. [Data EXCEPT !.wal = TRUE] \in Contents
    BY <2>1, ContentsChanged
  <2>3. \A m : Acceptable(Data, m, Newest) => Acceptable([Data EXCEPT !.wal = TRUE], m, Newest)
    BY <2>1 DEF Acceptable, Contents
  <2>4. [Data EXCEPT !.wal = TRUE].id = Data.id
    BY <2>1 DEF Contents
  <2> QED BY <2>1, <2>2, <2>3, <2>4 DEF Successor
<1>4. CASE UNCHANGED <<log, manifest, stable>>
  BY <1>4 DEF Gentle
<1>5. CASE Create(p)
  <2>1. CASE Publish(p)
    BY <2>1 DEF Creates, Publish
  <2> QED BY <1>4, <1>5, <2>1 DEF Create, Stage, CheckpointStaging, SyncParent, disk
<1>6. CASE Configure(p)
  <2>1. at[p] \in Validated
    BY <1>6 DEF Configure, Go, Validated, Past, Stages
  <2> QED BY <1>1, <1>2, <1>3, <1>4, <1>6, <2>1 DEF Configure
<1>7. CASE RunScript(p)
  <2>1. at[p] \in Validated
    BY <1>7 DEF RunScript, Go, Validated, Past, Stages
  <2> DEFINE next == reached[p] + 1
             d == [Data EXCEPT !.user = next, !.ledger = next, !.tables = next, !.meta = next]
  <2>2. next \in 1 .. Newest /\ next \in Versions
    BY <1>7, NewestSupports DEF RunScript, PackageInv, TypeOK, Versions
  <2>3. Data \in Contents
    BY <1>1, <2>1
  <2>4. d \in Contents
    BY <2>2, <2>3, ContentsChanged
  <2>5. /\ d.id = Data.id /\ d.flaw = Data.flaw
        /\ d.user = next /\ d.ledger = next /\ d.tables = next /\ d.meta = next
    BY <2>3 DEF Contents
  <2>6. Successor(d)
    <3> HIDE DEF d
    <3>1. \A m : Acceptable(Data, m, Newest) => Acceptable(d, m, Newest)
      BY <2>2, <2>5 DEF Acceptable
    <3> QED BY <2>4, <2>5, <3>1 DEF Successor
  <2>7. log' = Append(log, d) /\ UNCHANGED <<manifest, stable>>
    BY <1>7 DEF RunScript, Commit
  <2> HIDE DEF d
  <2> QED BY <1>1, <1>2, <2>1, <2>6, <2>7
<1>8. CASE ReconcileMeta(p)
  <2>1. at[p] \in Validated
    BY <1>8 DEF ReconcileMeta, Go, Validated, Past, Stages
  <2> DEFINE d == [Data EXCEPT !.meta = Data.user]
  <2>2. Data \in Contents /\ Data.user \in 1 .. Newest /\ Data.user \in Versions
    BY <1>1, <2>1, NewestSupports DEF Contents
  <2>3. d \in Contents
    BY <2>2, ContentsChanged
  <2>4. /\ d.id = Data.id /\ d.flaw = Data.flaw /\ d.user = Data.user /\ d.ledger = Data.ledger
        /\ d.tables = Data.tables /\ d.meta = Data.user
    BY <2>2 DEF Contents
  <2>5. Successor(d)
    <3> HIDE DEF d
    <3>1. \A m : Acceptable(Data, m, Newest) => Acceptable(d, m, Newest)
      BY <2>2, <2>4 DEF Acceptable
    <3> QED BY <2>3, <2>4, <3>1 DEF Successor
  <2>6. \/ log' = Append(log, d) /\ UNCHANGED <<manifest, stable>>
        \/ UNCHANGED <<log, manifest, stable>>
    BY <1>8 DEF ReconcileMeta, Commit, disk
  <2> HIDE DEF d
  <2> QED BY <1>1, <1>2, <1>4, <2>1, <2>5, <2>6
<1>9. CASE RewriteManifest(p) \/ CloseManifest(p)
  <2>1. at[p] \in Validated
    BY <1>9 DEF RewriteManifest, CloseManifest, Go, Validated, Past, Stages
  <2>2. \/ manifest' = [copy[p] EXCEPT !.version = Data.user]
        \/ manifest' = copy[p] \/ manifest' = manifest
    BY <1>9 DEF RewriteManifest, CloseManifest
  <2>3. Data.user \in Versions /\ Data.user <= Newest
    BY <1>1, <2>1, NewestSupports DEF Versions
  <2>4. [copy[p] EXCEPT !.version = Data.user] \in Manifests
    BY <1>1, <2>1, <2>3, ManifestChanged
  <2>5. /\ [copy[p] EXCEPT !.version = Data.user].id = copy[p].id
        /\ [copy[p] EXCEPT !.version = Data.user].version = Data.user
    BY <1>1, <2>1 DEF Manifests
  <2>6. log' = log /\ stable' = stable
    BY <1>9 DEF RewriteManifest, CloseManifest
  <2>7. CASE manifest' = manifest
    BY <1>4, <2>6, <2>7
  <2>8. CASE manifest' # manifest
    <3>1. /\ manifest' \in Manifests /\ manifest'.id = manifest.id /\ manifest'.version <= Newest
      BY <1>1, <2>1, <2>2, <2>3, <2>4, <2>5, <2>8
    <3> QED BY <1>1, <2>1, <2>6, <3>1 DEF Gentle
  <2> QED BY <2>1, <2>7, <2>8
<1>10. CASE SyncPackage(p)
  BY <1>10 DEF SyncPackage, Gentle
<1>11. CASE CloseCheckpoint(p) \/ AutoCheckpoint(p)
  <2>1. at[p] \in Validated
    BY <1>11 DEF CloseCheckpoint, AutoCheckpoint, Go, Validated, Past, Stages
  <2>2. log' = <<Data>> \/ log' = log
    BY <1>11 DEF CloseCheckpoint, AutoCheckpoint
  <2>3. UNCHANGED <<manifest, stable>>
    BY <1>11 DEF CloseCheckpoint, AutoCheckpoint
  <2> QED BY <1>1, <1>2, <1>3, <1>4, <2>1, <2>2, <2>3
<1>12. CASE \/ ReadManifest(p) \/ TryLock(p) \/ Validate(p) \/ CheckLedger(p) \/ PostChecks(p)
            \/ Reread(p) \/ RefusePackage(p) \/ TurnAway(p) \/ Unlock(p) \/ GiveUp(p)
  BY <1>4, <1>12 DEF ReadManifest, TryLock, Validate, ValidateReadOnly, ValidateWritable,
                     CheckLedger, PostChecks, Reread, RefusePackage, TurnAway, Unlock, GiveUp, disk
<1> QED BY <1>5, <1>6, <1>7, <1>8, <1>9, <1>10, <1>11, <1>12 DEF Open, Upgrade, Close

ProcessStep(p) == Create(p) \/ Open(p) \/ Close(p) \/ GiveUp(p) \/ AutoCheckpoint(p)

\* A package that comes into being.
LEMMA Created ==
  ASSUME PackageInv, NEW p \in Processes, Creates(p)
  PROVE  /\ log' \in Seq(Contents) /\ manifest' \in Manifests /\ stable' \in Manifests
         /\ OneIdentity' /\ Openable'
         /\ \A q \in Processes : at[q] \notin Past
<1>1. staged[p] = <<Fresh(p)>>
  BY DEF Creates, Publish, Go, PackageInv, Staging
<1>2. /\ log' = <<Fresh(p)>> /\ manifest' = [id |-> p, version |-> Supports[p]]
      /\ stable' = manifest'
  BY <1>1 DEF Creates, Publish
<1>3. /\ log' \in Seq(Contents) /\ Last(log') = Fresh(p) /\ log'[1] = Fresh(p)
      /\ DOMAIN log' = {1} /\ Len(log') = 1 /\ manifest' \in Manifests
  BY <1>2, Single, FreshIsContents
<1>4. manifest'.id = p /\ manifest'.version <= Newest
  BY <1>2, NewestSupports
<1>5. OneIdentity'
  BY <1>2, <1>3 DEF OneIdentity, Data
<1>6. Openable'
  BY <1>2, <1>3, <1>4, FreshIsAcceptable DEF Openable
<1> QED BY <1>2, <1>3, <1>5, <1>6 DEF Creates, PackageInv, Readers

LEMMA ProcessStepSafe ==
  ASSUME PackageInv, NEW p \in Processes, ProcessStep(p)
  PROVE  PackageInv'
<1>1. Proper(p)
  BY CreateProper, OpenProper, CloseProper DEF ProcessStep
<1>2. Creates(p) \/ Gentle
  BY StepGentle DEF ProcessStep
<1>3. Staging'
  BY <1>1 DEF Proper, Staging, StagingOf, PackageInv
<1>4. \A q \in Processes : q # p => at'[q] = at[q] /\ copy'[q] = copy[q]
  BY <1>1 DEF Proper
<1>5. CASE Creates(p)
  <2>1. /\ log' \in Seq(Contents) /\ manifest' \in Manifests /\ stable' \in Manifests
        /\ OneIdentity'
    BY <1>5, Created
  <2>2. \A q \in Processes : at[q] \notin Past
    BY <1>5, Created
  <2>3. at'[p] \notin Past
    <3>1. at'[p] = "parent"
      BY <1>5, Goes DEF Creates, Publish, Stages
    <3> QED BY <3>1 DEF Past
  <2>4. \A q \in Processes : at'[q] \notin Past
    BY <1>4, <2>2, <2>3
  <2>5. TypeOK'
    BY <1>1, <2>1, TypesAreParts DEF Proper, DiskTyped
  <2>6. Readers' /\ Sound'
    BY <2>4 DEF Readers, Sound, Validated
  <2> QED BY <1>3, <2>1, <2>5, <2>6 DEF PackageInv
<1>6. CASE Gentle
  <2>1. /\ log' \in Seq(Contents) /\ manifest' \in Manifests /\ stable' \in Manifests
        /\ OneIdentity'
        /\ There' <=> There
        /\ There /\ Acceptable(Data, manifest, Newest) => Acceptable(Data', manifest', Newest)
        /\ manifest'.id = manifest.id
    BY <1>6, GentleKeeps DEF PackageInv
  <2>2. TypeOK'
    BY <1>1, <2>1, TypesAreParts DEF Proper, DiskTyped
  <2>3. Readers'
    <3> SUFFICES ASSUME NEW q \in Processes, at'[q] \in Past
                 PROVE  There' /\ copy'[q].id = manifest'.id /\ copy'[q].version <= Newest
      BY DEF Readers
    <3>1. CASE q # p
      BY <1>4, <2>1, <3>1 DEF PackageInv, Readers
    <3>2. CASE q = p
      BY <1>1, <2>1, <3>2 DEF Proper, PackageInv, Readers
    <3> QED BY <3>1, <3>2
  <2>4. Sound'
    <3> SUFFICES ASSUME NEW q \in Processes, at'[q] \in Validated
                 PROVE  Acceptable(Data', manifest', Newest)
      BY DEF Sound
    <3>1. There /\ Acceptable(Data, manifest, Newest)
      <4>1. CASE at[q] \in Validated
        BY <4>1 DEF PackageInv, Sound, Readers, Validated
      <4>2. CASE at[q] \notin Validated
        <5>1. q = p /\ at[p] = "readOnly" /\ Passes(p)
          BY <1>1, <1>4, <4>2 DEF Proper
        <5>2. There /\ copy[p].id = manifest.id
          BY <5>1 DEF PackageInv, Readers, Past, Stages
        <5>3. Data \in Contents
          BY <5>2, DataIsContents DEF PackageInv
        <5> QED BY <5>1, <5>2, <5>3, NewestSupports, VersionsAreNatural
                DEF Passes, Acceptable, Contents
      <4> QED BY <4>1, <4>2
    <3> QED BY <2>1, <3>1
  <2> QED BY <1>3, <2>1, <2>2, <2>3, <2>4 DEF PackageInv
<1> QED BY <1>2, <1>5, <1>6

\* The power is cut: a prefix of the commits, and either manifest, or nothing.
LEMMA PowerCutDisk ==
  ASSUME PackageInv, PowerCut
  PROVE  /\ DiskTyped' /\ OneIdentity'
         /\ Openable => Openable'
         /\ (log' # << >>) => Last(log').id = Data.id /\ manifest'.id = manifest.id
<1>1. /\ log \in Seq(Contents) /\ manifest \in Manifests /\ stable \in Manifests
      /\ stable.id = manifest.id /\ \A n \in 1 .. Len(log) : log[n].id = Data.id
      /\ DOMAIN log = 1 .. Len(log)
  BY DEF PackageInv, TypeOK, OneIdentity
<1>2. ASSUME NEW n \in 1 .. Len(log), log' = SubSeq(log, 1, n),
             manifest' \in {manifest, stable}, stable' = manifest', rooted' = TRUE
      PROVE  /\ DiskTyped' /\ OneIdentity'
             /\ Openable => Openable'
             /\ (log' # << >>) => Last(log').id = Data.id /\ manifest'.id = manifest.id
  <2>1. /\ log' \in Seq(Contents) /\ Len(log') = n /\ \A k \in 1 .. n : log'[k] = log[k]
        /\ DOMAIN log' = 1 .. n /\ n \in 1 .. n /\ 1 .. n \subseteq 1 .. Len(log)
    <3>1. /\ log' \in Seq(Contents) /\ Len(log') = n /\ \A k \in 1 .. n : log'[k] = log[k]
      BY <1>1, <1>2, Prefix
    <3>2. n \in Nat \ {0} /\ Len(log) \in Nat
      BY <1>1
    <3> QED BY <3>1, <3>2
  <2>2. Data' = log[n] /\ Last(log') = log[n]
    BY <2>1 DEF Data, Last
  <2>3. OneIdentity'
    BY <1>1, <1>2, <2>1, <2>2 DEF OneIdentity
  <2>4. log # << >>
    BY <1>1, <1>2, EmptySeq
  <2>5. Openable => Openable'
    BY <1>1, <1>2, <2>1, <2>4 DEF Openable, There
  <2> QED BY <1>1, <1>2, <2>1, <2>2, <2>3, <2>5 DEF DiskTyped
<1>3. CASE /\ log' = << >> /\ manifest' = NoManifest /\ stable' = NoManifest
           /\ rooted' = rooted
  <2>1. << >> \in Seq(Contents) /\ Len(<< >>) = 0
    BY EmptySeq
  <2>2. NoManifest \in Manifests
    BY NewestSupports DEF NoManifest, Manifests, Versions
  <2>3. DiskTyped'
    BY <1>3, <2>1, <2>2 DEF DiskTyped, PackageInv, TypeOK
  <2>4. OneIdentity'
    BY <1>3, <2>1 DEF OneIdentity
  <2>5. Openable'
    BY <1>3, <2>1 DEF Openable, There
  <2> QED BY <1>3, <2>3, <2>4, <2>5
<1> QED BY <1>2, <1>3 DEF PowerCut

LEMMA PackageStep == PackageInv /\ [Next]_vars => PackageInv'
<1> SUFFICES ASSUME PackageInv, [Next]_vars PROVE PackageInv'
    OBVIOUS
<1>1. ASSUME NEW p \in Processes, ProcessStep(p) PROVE PackageInv'
  BY <1>1, ProcessStepSafe
<1>2. CASE PowerCut
  <2>1. DiskTyped' /\ OneIdentity'
    BY <1>2, PowerCutDisk
  <2>2. << >> \in Seq(Contents) /\ "idle" \in Stages /\ 0 \in 0 .. Newest
    BY EmptySeq, NewestSupports DEF Stages
  <2>3. NoManifest \in Manifests
    BY NewestSupports DEF NoManifest, Manifests, Versions
  <2>4. LocalTyped'
    BY <1>2, <2>2, <2>3 DEF PowerCut, LocalTyped
  <2>5. faults' \in 0 .. MaxFaults
    BY <1>2, PackageAssumption DEF PowerCut, Fault, PackageInv, TypeOK
  <2>6. SeenTyped'
    BY <1>2, <2>5 DEF PowerCut, SeenTyped, PackageInv, TypeOK
  <2>7. \A p \in Processes : at'[p] = "idle"
    BY <1>2 DEF PowerCut
  <2>8. Readers' /\ Sound' /\ Staging'
    BY <2>7 DEF Readers, Sound, Staging, Past, Validated
  <2> QED BY <2>1, <2>4, <2>6, <2>8, TypesAreParts DEF PackageInv
<1>3. CASE UNCHANGED vars
  BY <1>3 DEF vars, disk, local, seen, PackageInv, TypeOK, OneIdentity, Readers, Sound, Staging,
              Data, There
<1> QED BY <1>1, <1>2, <1>3 DEF Next, ProcessStep

LEMMA PackageInit == Init => PackageInv
<1> SUFFICES ASSUME Init PROVE PackageInv
    OBVIOUS
<1>1. << >> \in Seq(Contents) /\ "idle" \in Stages /\ 0 \in 0 .. Newest /\ Len(<< >>) = 0
  BY EmptySeq, NewestSupports DEF Stages
<1>2. NoManifest \in Manifests
  BY NewestSupports DEF NoManifest, Manifests, Versions
<1>3. Blank \in Contents
  <2>1. PICK p \in Processes : TRUE
    BY PackageAssumption
  <2> QED BY <2>1, FreshIsContents
<1>4. DiskTyped /\ OneIdentity
  <2>1. CASE log = << >> /\ manifest = NoManifest /\ rooted = FALSE
    <3>1. stable = manifest
      BY DEF Init
    <3>2. Len(log) = 0 /\ log \in Seq(Contents)
      BY <1>1, <2>1
    <3>3. \A n \in 1 .. Len(log) : log[n].id = Data.id
      BY <3>2
    <3> QED BY <1>2, <2>1, <3>1, <3>2, <3>3 DEF DiskTyped, OneIdentity
  <2>2. ASSUME NEW k \in Packages, log = <<k.data>>, manifest = k.manifest, rooted = TRUE
        PROVE  DiskTyped /\ OneIdentity
    <3>1. k.data \in Contents /\ k.manifest \in Manifests
      BY FirstAssumption
    <3>2. log \in Seq(Contents) /\ Len(log) = 1 /\ log[1] = Last(log)
      BY <2>2, <3>1, Single
    <3> QED BY <2>2, <3>1, <3>2 DEF Init, DiskTyped, OneIdentity, Data
  <2> QED BY <2>1, <2>2 DEF Init
<1>5. LocalTyped
  BY <1>1, <1>2 DEF Init, LocalTyped
<1>6. SeenTyped
  <2>1. 0 \in 0 .. MaxFaults
    BY PackageAssumption
  <2> QED BY <1>3, <2>1 DEF Init, SeenTyped
<1>7. Readers /\ Sound /\ Staging
  BY DEF Init, Readers, Sound, Staging, Past, Validated
<1> QED BY <1>4, <1>5, <1>6, <1>7, TypesAreParts DEF PackageInv

-----------------------------------------------------------------------------
(* Theorems.                                                               *)

\* Every variable keeps its type: no version ever leaves what the releases know.
THEOREM TypeCorrect == Spec => []TypeOK
<1>1. PackageInv => TypeOK
  BY DEF PackageInv
<1> QED BY PackageInit, PackageStep, <1>1, PTL DEF Spec

\* Whoever races to create the package, migrates or opens it, fails or dies, and
\* whatever a power cut leaves: it is the same Library.
THEOREM LibraryStaysItself == Spec => OneLibrary
<1> DEFINE Same == There /\ log' # << >> =>
                     Last(log').id = Data.id /\ manifest'.id = manifest.id
<1>1. PackageInv /\ [Next]_vars => [Same]_vars
  <2> SUFFICES ASSUME PackageInv, Next, There, log' # << >>
               PROVE  Last(log').id = Data.id /\ manifest'.id = manifest.id
    OBVIOUS
  <2>1. ASSUME NEW p \in Processes, ProcessStep(p)
        PROVE  Last(log').id = Data.id /\ manifest'.id = manifest.id
    <3>1. Gentle
      BY <2>1, StepGentle DEF ProcessStep, Creates
    <3> QED BY <3>1, GentleKeeps DEF PackageInv, Data
  <2>2. CASE PowerCut
    BY <2>2, PowerCutDisk
  <2> QED BY <2>1, <2>2 DEF Next, ProcessStep
<1> QED BY PackageInit, PackageStep, <1>1, PTL DEF Spec, OneLibrary

\* A package that every prefix of its commits leaves openable stays so, at every
\* step of every process and in every power cut.
THEOREM EveryStopIsOpenable == Spec => AnyStopIsOpenable
<1>1. PackageInv /\ [Next]_vars => [Openable => Openable']_vars
  <2> SUFFICES ASSUME PackageInv, Next, Openable PROVE Openable'
    OBVIOUS
  <2>1. ASSUME NEW p \in Processes, ProcessStep(p) PROVE Openable'
    <3>1. CASE Creates(p)
      BY <3>1, Created
    <3>2. CASE Gentle
      BY <3>2, GentleKeeps DEF PackageInv
    <3> QED BY <2>1, <3>1, <3>2, StepGentle DEF ProcessStep
  <2>2. CASE PowerCut
    BY <2>2, PowerCutDisk
  <2> QED BY <2>1, <2>2 DEF Next, ProcessStep
<1> QED BY PackageInit, PackageStep, <1>1, PTL DEF Spec, AnyStopIsOpenable

\* Contents that validation refuses are not written by anybody: a process that
\* writes has seen them pass, and they would pass again.
THEOREM RefusedIsLeftAlone == Spec => RefusedStaysAsItWas
<1> DEFINE Alone == There /\ ~Acceptable(Data, manifest, Newest) /\ ~PowerCut =>
                      log' = log /\ manifest' = manifest
<1>1. PackageInv /\ [Next]_vars => [Alone]_vars
  <2> SUFFICES ASSUME PackageInv, Next, There, ~Acceptable(Data, manifest, Newest), ~PowerCut
               PROVE  log' = log /\ manifest' = manifest
    OBVIOUS
  <2>1. PICK p \in Processes : ProcessStep(p)
    BY DEF Next, ProcessStep
  <2>2. at[p] \notin Validated /\ ~Creates(p)
    BY DEF PackageInv, Sound, Creates
  <2> QED BY <2>1, <2>2, StepGentle DEF ProcessStep
<1> QED BY PackageInit, PackageStep, <1>1, PTL DEF Spec, RefusedStaysAsItWas

-----------------------------------------------------------------------------
(* What a process has established when its session opens.                  *)

Locked    == Past \ {"lock"}
Preparing == {"lock", "readOnly", "writable", "configure", "migrate", "ledger", "check", "manifest"}
Current   == {"check", "manifest", "sync", "reread", "open"}

Fits(p) == Acceptable(Data, copy[p], Supports[p])

\* The manifest was read before the lock was taken.  Who has written another one
\* since has migrated the database that far.
Latest(p) ==
  /\ copy[p].version <= Supports[p]
  /\ \/ manifest = copy[p]
     \/ copy[p].version <= manifest.version /\ manifest.version <= Data.user

StageInv(p) ==
  /\ at[p] \in Preparing => Latest(p)
  /\ at[p] \in {"writable", "configure", "migrate"} => Fits(p) /\ reached[p] = Data.user
  /\ at[p] = "ledger" => Fits(p) /\ reached[p] + 1 = Data.user
  /\ at[p] \in Current => Fits(p) /\ Data.user = Supports[p] /\ Data.meta = Supports[p]
  /\ at[p] \in {"sync", "reread", "open"} => manifest.version = Data.user
  /\ at[p] \in {"open", "closing"} => copy[p] = manifest

SessionInv ==
  /\ \A p \in Processes : at[p] \in Locked => p \in holder
  /\ ~raced => /\ \A p, q \in holder : p = q
               /\ \A p \in Processes : StageInv(p)

\* What a step of another process may do to whoever waits for the lock.
Grows ==
  /\ Data.user <= Data'.user
  /\ \/ manifest' = manifest
     \/ manifest.version <= Data'.user /\ manifest'.version = Data'.user

LEMMA LatestKept ==
  ASSUME PackageInv, PackageInv', There, There', NEW p \in Processes,
         Latest(p), Grows, copy'[p] = copy[p]
  PROVE  Latest(p)'
<1>1. /\ Data.user \in Nat /\ Data'.user \in Nat /\ manifest.version \in Nat
      /\ manifest'.version \in Nat /\ copy[p].version \in Nat
  <2>1. Data \in Contents /\ manifest \in Manifests /\ copy[p] \in Manifests
    BY DataIsContents DEF PackageInv, TypeOK
  <2>2. log' \in Seq(Contents) /\ log' # << >> /\ manifest' \in Manifests
    BY DEF PackageInv, TypeOK, There
  <2>3. Data' \in Contents
    BY <2>2, LastElement DEF Data
  <2> QED BY <2>1, <2>2, <2>3, VersionsAreNatural DEF Contents, Manifests
<1> QED BY <1>1 DEF Latest, Grows

\* What the actions do to the process, in a form that hides where it was.
LEMMA OwnStage ==
  ASSUME PackageInv, NEW p \in Processes, NEW from, NEW to \in Stages, Go(p, from, to)
  PROVE  at[p] = from /\ at'[p] = to
BY Goes

LEMMA OwnStep ==
  ASSUME PackageInv, SessionInv, NEW p \in Processes, ProcessStep(p), ~raced, at[p] \in Past
  PROVE  StageInv(p)' /\ Grows
<1> DEFINE u == Data.user
<1>1. /\ There /\ Data \in Contents /\ copy[p] \in Manifests /\ manifest \in Manifests
      /\ copy[p].id = manifest.id /\ reached[p] \in Nat
      /\ log \in Seq(Contents) /\ StageInv(p)
      /\ Supports[p] \in Nat \ {0} /\ Supports[p] <= Newest
  BY DataIsContents, NewestSupports DEF PackageInv, TypeOK, Readers, SessionInv
<1>2. /\ Data.user \in Nat /\ Data.meta \in Nat /\ Data.ledger \in Nat
      /\ manifest.version \in Nat /\ copy[p].version \in Nat
  BY <1>1, VersionsAreNatural DEF Contents, Manifests
<1>3. ASSUME UNCHANGED <<log, manifest>> PROVE Grows /\ Data' = Data
  BY <1>2, <1>3 DEF Grows, Data
<1>4. CASE Create(p)
  BY <1>4 DEF Create, Stage, CheckpointStaging, Publish, SyncParent, Go, Past
<1>5. CASE RefusePackage(p) \/ TurnAway(p) \/ Unlock(p) \/ GiveUp(p)
  <2>1. UNCHANGED <<log, manifest>> /\ Leaves(p)
    BY <1>5 DEF RefusePackage, TurnAway, Unlock, GiveUp, disk
  <2>2. at'[p] = "idle"
    BY <2>1 DEF Leaves, PackageInv, TypeOK
  <2> QED BY <1>3, <2>1, <2>2 DEF StageInv, Preparing, Current
<1>6. CASE ReadManifest(p)
  BY <1>6 DEF ReadManifest, Go, Past
<1>7. CASE TryLock(p)
  <2>1. at[p] = "lock" /\ at'[p] = "readOnly" /\ UNCHANGED <<log, manifest, copy>>
    BY <1>7, OwnStage DEF TryLock, disk, Stages
  <2> QED BY <1>1, <1>3, <2>1 DEF StageInv, Preparing, Current, Latest
<1>8. CASE ValidateReadOnly(p)
  <2>1. /\ at[p] = "readOnly" /\ at'[p] = "writable" /\ UNCHANGED <<log, manifest, copy>>
        /\ reached'[p] = Data.user /\ Fits(p)
    BY <1>8, OwnStage DEF ValidateReadOnly, disk, Stages, Passes, Fits, PackageInv, TypeOK
  <2> QED BY <1>1, <1>3, <2>1 DEF StageInv, Preparing, Current, Latest, Fits
<1>9. CASE ValidateWritable(p)
  <2>1. /\ at[p] = "writable" /\ at'[p] = "configure"
        /\ UNCHANGED <<log, manifest, copy, reached>>
    BY <1>9, OwnStage DEF ValidateWritable, disk, Stages
  <2> QED BY <1>1, <1>3, <2>1 DEF StageInv, Preparing, Current, Latest, Fits
<1>10. CASE Configure(p)
  <2>1. /\ at[p] = "configure" /\ at'[p] = "migrate" /\ UNCHANGED <<manifest, copy, reached>>
        /\ log' = log \/ log' = <<[Data EXCEPT !.wal = TRUE]>>
    BY <1>10, OwnStage DEF Configure, Stages
  <2>2. Data' = Data \/ Data' = [Data EXCEPT !.wal = TRUE]
    BY <2>1, Single DEF Data, Last
  <2>3. /\ Data'.user = Data.user /\ Data'.meta = Data.meta /\ Data'.id = Data.id
        /\ Data'.ledger = Data.ledger /\ Data'.tables = Data.tables /\ Data'.flaw = Data.flaw
    BY <1>1, <2>2 DEF Contents
  <2> QED BY <1>1, <1>2, <2>1, <2>3 DEF StageInv, Preparing, Current, Latest, Fits, Acceptable, Grows
<1>11. CASE RunScript(p)
  <2> DEFINE next == reached[p] + 1
             d == [Data EXCEPT !.user = next, !.ledger = next, !.tables = next, !.meta = next]
  <2>1. /\ at[p] = "migrate" /\ at'[p] = "ledger" /\ UNCHANGED <<manifest, copy, reached>>
        /\ log' = Append(log, d) /\ reached[p] < Supports[p]
    BY <1>11, OwnStage DEF RunScript, Commit, Stages
  <2>2. next \in Versions
    BY <1>1, <2>1, NewestSupports DEF Versions
  <2>3. d \in Contents
    BY <1>1, <2>2, ContentsChanged
  <2>4. /\ d.id = Data.id /\ d.flaw = Data.flaw /\ d.user = next /\ d.ledger = next
        /\ d.tables = next /\ d.meta = next
    BY <1>1 DEF Contents
  <2> HIDE DEF d
  <2>5. Data' = d
    <3>1. log' = Append(log, d)
      BY <2>1
    <3>2. log \in Seq(Contents)
      BY <1>1
    <3>3. Last(log') = d
      BY <2>3, <3>1, <3>2, Committed
    <3> QED BY <3>3 DEF Data
  <2>6. Fits(p) /\ reached[p] = Data.user /\ Latest(p)
    BY <1>1, <2>1 DEF StageInv, Preparing
  <2>7. Fits(p)' /\ reached'[p] + 1 = Data'.user /\ Latest(p)' /\ Grows
    BY <1>1, <1>2, <2>1, <2>4, <2>5, <2>6 DEF Fits, Acceptable, Latest, Grows
  <2> QED BY <2>1, <2>7 DEF StageInv, Current
<1>12. CASE CheckLedger(p)
  <2>1. /\ at[p] = "ledger" /\ at'[p] = "migrate" /\ UNCHANGED <<log, manifest, copy>>
        /\ reached'[p] = reached[p] + 1
    BY <1>12, OwnStage DEF CheckLedger, disk, Stages, PackageInv, TypeOK
  <2> QED BY <1>1, <1>3, <2>1 DEF StageInv, Preparing, Current, Latest, Fits
<1>13. CASE ReconcileMeta(p)
  <2> DEFINE d == [Data EXCEPT !.meta = Data.user]
  <2>1. /\ at[p] = "migrate" /\ at'[p] = "check" /\ UNCHANGED <<manifest, copy>>
        /\ reached[p] >= Supports[p]
        /\ IF Data.meta < Data.user THEN log' = Append(log, d) ELSE log' = log
    BY <1>13, OwnStage DEF ReconcileMeta, Commit, disk, Stages
  <2>2. Fits(p) /\ reached[p] = Data.user /\ Latest(p)
    BY <1>1, <2>1 DEF StageInv, Preparing
  <2>3. Data.user = Supports[p] /\ Data.meta <= Data.user /\ Data.user \in Versions
    BY <1>1, <1>2, <2>1, <2>2, NewestSupports DEF Fits, Acceptable, Versions
  <2>4. d \in Contents
    BY <1>1, <2>3, ContentsChanged
  <2>5. /\ d.id = Data.id /\ d.flaw = Data.flaw /\ d.user = Data.user /\ d.ledger = Data.ledger
        /\ d.tables = Data.tables /\ d.meta = Data.user
    BY <1>1 DEF Contents
  <2> HIDE DEF d
  <2>6. CASE Data.meta < Data.user
    <3>1. Data' = d
      <4>1. log' = Append(log, d) /\ log \in Seq(Contents)
        BY <1>1, <2>1, <2>6
      <4>2. Last(log') = d
        BY <2>4, <4>1, Committed
      <4> QED BY <4>2 DEF Data
    <3>2. Fits(p)' /\ Data'.user = Supports[p] /\ Data'.meta = Supports[p] /\ Latest(p)' /\ Grows
      BY <1>1, <1>2, <2>1, <2>2, <2>3, <2>5, <3>1 DEF Fits, Acceptable, Latest, Grows
    <3> QED BY <2>1, <3>2 DEF StageInv
  <2>7. CASE ~(Data.meta < Data.user)
    <3>1. Data' = Data
      BY <2>1, <2>7 DEF Data
    <3>2. Fits(p)' /\ Data'.user = Supports[p] /\ Data'.meta = Supports[p] /\ Latest(p)' /\ Grows
      BY <1>1, <1>2, <2>1, <2>2, <2>3, <2>7, <3>1 DEF Fits, Latest, Grows
    <3> QED BY <2>1, <3>2 DEF StageInv
  <2> QED BY <2>6, <2>7
<1>14. CASE PostChecks(p)
  <2>1. /\ at[p] = "check" /\ at'[p] = "manifest" /\ UNCHANGED <<log, manifest, copy>>
    BY <1>14, OwnStage DEF PostChecks, disk, Stages
  <2> QED BY <1>1, <1>3, <2>1 DEF StageInv, Preparing, Current, Latest, Fits
<1>15. CASE RewriteManifest(p)
  <2>1. at[p] = "manifest" /\ UNCHANGED <<log, copy>>
    BY <1>15 DEF RewriteManifest, Go
  <2>2. Fits(p) /\ Data.user = Supports[p] /\ Data.meta = Supports[p] /\ Latest(p) /\ Data' = Data
    BY <1>1, <2>1 DEF StageInv, Preparing, Current, Data
  <2>3. CASE at'[p] = "sync"
    <3>1. manifest' = [copy[p] EXCEPT !.version = Data.user]
      BY <1>15, <2>3, OwnStage DEF RewriteManifest, Stages
    <3>2. manifest'.version = Data.user
      BY <1>1, <3>1 DEF Manifests
    <3>3. Grows
      BY <1>2, <2>2, <3>2 DEF Latest, Grows
    <3> QED BY <2>1, <2>2, <2>3, <3>2, <3>3 DEF StageInv, Preparing, Fits
  <2>4. CASE at'[p] = "reread"
    <3>1. manifest' = manifest /\ copy[p].version = Data.user
      BY <1>15, <2>4, OwnStage DEF RewriteManifest, Stages
    <3>2. manifest.version = Data.user
      BY <1>2, <2>2, <3>1 DEF Latest
    <3> QED BY <1>2, <2>1, <2>2, <2>4, <3>1, <3>2 DEF StageInv, Preparing, Fits, Grows
  <2>5. at'[p] \in {"sync", "reread"}
    BY <1>15, OwnStage DEF RewriteManifest, Stages
  <2> QED BY <2>3, <2>4, <2>5
<1>16. CASE SyncPackage(p)
  <2>1. /\ \/ at[p] = "sync" /\ at'[p] = "reread"
           \/ at[p] = "closeSync" /\ at'[p] = "unlock"
        /\ UNCHANGED <<log, manifest, copy>>
    BY <1>16, OwnStage DEF SyncPackage, Stages
  <2> QED BY <1>1, <1>3, <2>1 DEF StageInv, Preparing, Current, Fits
<1>17. CASE Reread(p)
  <2>1. /\ at[p] = "reread" /\ at'[p] = "open" /\ UNCHANGED <<log, manifest>>
        /\ copy'[p] = manifest
    BY <1>17, OwnStage DEF Reread, disk, Stages, PackageInv, TypeOK
  <2> QED BY <1>1, <1>3, <2>1 DEF StageInv, Preparing, Current, Fits, Acceptable
<1>18. CASE CloseCheckpoint(p)
  <2>1. /\ at[p] = "open" /\ at'[p] = "closing" /\ UNCHANGED <<manifest, copy>>
        /\ log' = <<Data>> \/ log' = log
    BY <1>18, OwnStage DEF CloseCheckpoint, Stages
  <2>2. Data' = Data
    BY <2>1 DEF Data, Last
  <2> QED BY <1>1, <1>2, <2>1, <2>2 DEF StageInv, Preparing, Current, Grows
<1>19. CASE CloseManifest(p)
  <2>1. /\ at[p] = "closing" /\ at'[p] = "closeSync" /\ log' = log /\ manifest' = copy[p]
    BY <1>19, OwnStage DEF CloseManifest, Stages
  <2>2. manifest' = manifest
    BY <1>1, <2>1 DEF StageInv
  <2> QED BY <1>3, <2>1, <2>2 DEF StageInv, Preparing, Current
<1>20. CASE AutoCheckpoint(p)
  <2>1. UNCHANGED <<manifest, at, copy, reached>> /\ log' = <<Data>>
    BY <1>20 DEF AutoCheckpoint, local
  <2>2. Data' = Data
    BY <2>1 DEF Data, Last
  <2> QED BY <1>1, <1>2, <2>1, <2>2 DEF StageInv, Latest, Fits, Grows
<1> QED BY <1>4, <1>5, <1>6, <1>7, <1>8, <1>9, <1>10, <1>11, <1>12, <1>13, <1>14, <1>15,
           <1>16, <1>17, <1>18, <1>19, <1>20 DEF ProcessStep, Open, Close, Validate, Upgrade

\* What a step does to the lock, and that it leaves the other processes alone.
LEMMA LockStep ==
  ASSUME PackageInv, NEW p \in Processes, ProcessStep(p)
  PROVE  /\ \/ TryLock(p)
            \/ /\ raced' = raced /\ holder' \in {holder, holder \ {p}}
               /\ at'[p] \in Locked => at[p] \in Locked /\ holder' = holder
         /\ at'[p] \in Past => at[p] \in Past \/ ReadManifest(p)
         /\ \A q \in Processes \ {p} : reached'[q] = reached[q]
<1>1. at \in [Processes -> Stages] /\ reached \in [Processes -> 0 .. Newest]
  BY DEF PackageInv, TypeOK
<1>2. CASE Leaves(p) /\ raced' = raced
  <2>1. /\ at'[p] = "idle" /\ holder' = holder \ {p}
        /\ \A q \in Processes \ {p} : reached'[q] = reached[q]
    BY <1>1, <1>2 DEF Leaves
  <2> QED BY <1>2, <2>1 DEF Locked, Past
<1>3. CASE \E from, to \in Stages : /\ Go(p, from, to) /\ raced' = raced /\ holder' = holder
                                    /\ to \in Locked => from \in Locked
                                    /\ to \in Past => from \in Past
                                    /\ \A q \in Processes \ {p} : reached'[q] = reached[q]
  BY <1>3, OwnStage
<1>4. CASE Create(p)
  BY <1>3, <1>4 DEF Create, Stage, CheckpointStaging, Publish, SyncParent, Stages, seen, Locked, Past
<1>5. CASE RefusePackage(p) \/ TurnAway(p) \/ Unlock(p) \/ GiveUp(p)
  BY <1>2, <1>5 DEF RefusePackage, TurnAway, Unlock, GiveUp, seen
<1>6. CASE ReadManifest(p)
  <2>1. /\ raced' = raced /\ holder' = holder /\ at'[p] = "lock" /\ reached' = reached
    BY <1>6, OwnStage DEF ReadManifest, Stages
  <2> QED BY <1>6, <2>1 DEF Locked
<1>7. CASE TryLock(p)
  <2>1. at[p] = "lock" /\ reached' = reached
    BY <1>7 DEF TryLock, Go
  <2> QED BY <1>7, <2>1 DEF Past, Stages
<1>8. CASE Validate(p)
  BY <1>1, <1>3, <1>8 DEF Validate, ValidateReadOnly, ValidateWritable, Kept, seen, Stages, Locked, Past
<1>9. CASE Configure(p) \/ RunScript(p) \/ ReconcileMeta(p) \/ PostChecks(p) \/ RewriteManifest(p)
  BY <1>3, <1>9 DEF Configure, RunScript, ReconcileMeta, PostChecks, RewriteManifest,
                    Kept, seen, Stages, Locked, Past
<1>10. CASE CheckLedger(p) \/ SyncPackage(p) \/ Reread(p)
  BY <1>1, <1>3, <1>10 DEF CheckLedger, SyncPackage, Reread, Kept, seen, Stages, Locked, Past
<1>11. CASE CloseCheckpoint(p) \/ CloseManifest(p)
  BY <1>3, <1>11 DEF CloseCheckpoint, CloseManifest, Kept, seen, Stages, Locked, Past
<1>12. CASE AutoCheckpoint(p)
  BY <1>12 DEF AutoCheckpoint, local, seen
<1> QED BY <1>4, <1>5, <1>6, <1>7, <1>8, <1>9, <1>10, <1>11, <1>12
        DEF ProcessStep, Open, Close, Upgrade

LEMMA SessionStep ==
  ASSUME PackageInv, PackageInv', SessionInv, NEW p \in Processes, ProcessStep(p)
  PROVE  SessionInv'
<1>1. \A q \in Processes \ {p} : /\ at'[q] = at[q] /\ copy'[q] = copy[q]
                                 /\ reached'[q] = reached[q]
  BY LockStep, CreateProper, OpenProper, CloseProper DEF ProcessStep, Proper
<1>2. TryLock(p) => holder' = holder \union {p} /\ raced' = (raced \/ holder # {})
  BY DEF TryLock
<1>3. ~raced' => ~raced
  BY <1>2, LockStep
<1>4. \A q \in Processes : at'[q] \in Locked => q \in holder'
  <2> SUFFICES ASSUME NEW q \in Processes, at'[q] \in Locked PROVE q \in holder'
    OBVIOUS
  <2>1. CASE q # p
    <3>1. q \in holder
      BY <1>1, <2>1 DEF SessionInv
    <3> QED BY <1>2, <2>1, <3>1, LockStep
  <2>2. CASE q = p
    BY <1>2, <2>2, LockStep DEF SessionInv
  <2> QED BY <2>1, <2>2
<1>5. ~raced' => \A q, r \in holder' : q = r
  BY <1>2, LockStep DEF SessionInv
<1>6. ASSUME ~raced, at[p] \notin Past PROVE StageInv(p)'
  <2>1. CASE at'[p] \in Past
    <3>1. ReadManifest(p)
      BY <1>6, <2>1, LockStep
    <3>2. /\ at'[p] = "lock" /\ copy'[p] = manifest /\ manifest' = manifest
          /\ manifest.version <= Supports[p]
      BY <3>1, OwnStage DEF ReadManifest, disk, Stages, PackageInv, TypeOK
    <3> QED BY <3>2 DEF StageInv, Preparing, Current, Latest
  <2>2. CASE at'[p] \notin Past
    BY <2>2 DEF StageInv, Preparing, Current, Past, Stages
  <2> QED BY <2>1, <2>2
<1>7. ASSUME ~raced, NEW q \in Processes \ {p} PROVE StageInv(q)'
  <2>1. CASE at[q] \notin Past
    BY <1>1, <2>1 DEF StageInv, Preparing, Current, Past, Stages
  <2>2. CASE at[q] \in Past
    <3>1. There /\ There' /\ StageInv(q) /\ ~Creates(p)
      BY <1>1, <1>7, <2>2 DEF PackageInv, Readers, SessionInv, Creates
    <3>2. at[p] \in Validated \/ UNCHANGED <<log, manifest>>
      BY <3>1, StepGentle DEF ProcessStep
    <3>3. CASE at[q] = "lock"
      <4>1. Grows
        <5>1. CASE at[p] \in Past
          BY <1>7, <5>1, OwnStep
        <5>2. CASE at[p] \notin Past
          <6>1. UNCHANGED <<log, manifest>>
            BY <3>2, <5>2 DEF Validated
          <6>2. Data \in Contents
            BY <3>1, DataIsContents DEF PackageInv
          <6>3. Data.user \in Nat
            BY <6>2, VersionsAreNatural DEF Contents
          <6> QED BY <6>1, <6>3 DEF Grows, Data
        <5> QED BY <5>1, <5>2
      <4>2. Latest(q)'
        BY <1>1, <3>1, <3>3, <4>1, LatestKept DEF StageInv, Preparing
      <4>3. at'[q] = "lock"
        BY <1>1, <3>3
      <4> QED BY <4>2, <4>3 DEF StageInv, Preparing, Current
    <3>4. CASE at[q] # "lock"
      <4>1. at[q] \in Locked /\ at[p] \notin Locked
        BY <1>7, <2>2, <3>4 DEF Locked, SessionInv
      <4>2. UNCHANGED <<log, manifest>>
        BY <3>2, <4>1 DEF Validated, Locked
      <4>3. at'[q] = at[q] /\ copy'[q] = copy[q] /\ reached'[q] = reached[q]
        BY <1>1
      <4> QED BY <3>1, <4>2, <4>3 DEF StageInv, Latest, Fits, Data
    <3> QED BY <3>3, <3>4
  <2> QED BY <2>1, <2>2
<1>8. ~raced' => \A q \in Processes : StageInv(q)'
  BY <1>3, <1>6, <1>7, OwnStep
<1> QED BY <1>4, <1>5, <1>8 DEF SessionInv

LEMMA SessionPowerCut == PowerCut => SessionInv'
<1> SUFFICES ASSUME PowerCut PROVE SessionInv'
  OBVIOUS
<1>1. holder' = {} /\ \A q \in Processes : at'[q] = "idle"
  BY DEF PowerCut
<1> QED BY <1>1 DEF SessionInv, StageInv, Preparing, Current, Locked, Past

LEMMA SessionInit == Init => SessionInv
<1> SUFFICES ASSUME Init PROVE SessionInv
  OBVIOUS
<1>1. holder = {} /\ \A q \in Processes : at[q] = "idle"
  BY DEF Init
<1> QED BY <1>1 DEF SessionInv, StageInv, Preparing, Current, Locked, Past

\* Whoever has a session open works on the schema of its own release, and the
\* database, the manifest and its copy of it agree: the manifest it read before
\* it waited for the lock may be old by then, but is never ahead of the database.
THEOREM OpenSessionsAreCurrent == Spec => []OpenIsCurrent
<1>1. PackageInv /\ SessionInv => OpenIsCurrent
  <2> SUFFICES ASSUME PackageInv, SessionInv, NEW p \in Processes, at[p] = "open", ~raced
               PROVE  /\ Supports[p] = Data.user /\ Supports[p] = Data.meta
                      /\ Acceptable(Data, copy[p], Supports[p])
                      /\ copy[p] = manifest /\ manifest.version = Data.user
    BY DEF OpenIsCurrent
  <2> QED BY DEF SessionInv, StageInv, Current, Fits
<1>2. PackageInv /\ SessionInv /\ PackageInv' /\ [Next]_vars => SessionInv'
  <2> SUFFICES ASSUME PackageInv, SessionInv, PackageInv', [Next]_vars PROVE SessionInv'
    OBVIOUS
  <2>1. ASSUME NEW p \in Processes, ProcessStep(p) PROVE SessionInv'
    BY <2>1, SessionStep
  <2>2. CASE PowerCut
    BY <2>2, SessionPowerCut
  <2>3. CASE UNCHANGED vars
    BY <2>3 DEF vars, disk, local, seen, SessionInv, StageInv, Latest, Fits, Data
  <2> QED BY <2>1, <2>2, <2>3 DEF Next, ProcessStep
<1> QED BY PackageInit, PackageStep, SessionInit, <1>1, <1>2, PTL DEF Spec
=============================================================================
