--------------------------- MODULE CurationProofs ---------------------------
(***************************************************************************)
(* Concurrent writers and paged readers of Curation, for every number of   *)
(* sessions, clients, assets and collections: what revisions and checks    *)
(* before a transaction are good for, and what keeps pages together.       *)
(***************************************************************************)
EXTENDS Curation, TLAPS, FiniteSetTheorems, SequenceTheorems

-----------------------------------------------------------------------------
(* Types of what writers work on.                                          *)

AssetRow == [title : Titles, bytes : {0, 1}, present : BOOLEAN, revision : Nat]
Detail   == [asset : DOMAIN assets, title : Titles, revision : Nat]
Shelf    == [name : Names, revision : Nat, members : SUBSET Assets]

AssetsTyped ==
  /\ DOMAIN assets \subseteq Assets
  /\ assets \in [DOMAIN assets -> AssetRow]
  /\ DOMAIN detail = Clients
  /\ \A c \in Clients : detail[c] # Nothing => detail[c] \in Detail

ShelvesTyped ==
  /\ collections \in [DOMAIN collections -> Shelf]
  /\ DOMAIN doing = Sessions
  /\ \A s \in Sessions : Doing(s, "create") \/ Doing(s, "rename") =>
       doing[s].name \in Names

\* What every other action leaves alone.
LEMMA OnlyEditorsWrite ==
  ASSUME [Next]_vars
  PROVE  \/ UNCHANGED <<assets, detail>>
         \/ \E a \in Assets : ScanInserts(a) \/ ScanFinds(a)
         \/ Reopen
         \/ \E c \in Clients : \/ \E a \in Assets : GetAsset(c, a)
                               \/ \E t \in Titles : UpdateAsset(c, t)
                               \/ Conflict(c)
<1>1. CASE UNCHANGED vars \/ ScanGoesOn
  BY <1>1 DEF vars, library, readers, ScanGoesOn
<1>2. ASSUME NEW c \in Clients, Collect(c) PROVE UNCHANGED <<assets, detail>>
  <2>1. ASSUME NEW k \in Collections, NEW name \in Names,
               CheckCreate(c, k, name) \/ CheckRename(c, k, name)
        PROVE  UNCHANGED <<assets, detail>>
    BY <2>1 DEF CheckCreate, CheckRename, library, readers
  <2>2. ASSUME NEW k \in Collections, NEW batch \in Batches,
               \/ DeleteCollection(c, k)
               \/ AddMembers(c, k, batch) \/ RemoveMembers(c, k, batch)
        PROVE  UNCHANGED <<assets, detail>>
    BY <2>2 DEF DeleteCollection, AddMembers, RemoveMembers, readers
  <2> QED BY <1>2, <2>1, <2>2 DEF Collect, DeleteCollection, readers
<1>3. ASSUME NEW c \in Clients, Page(c) PROVE UNCHANGED <<assets, detail>>
  BY <1>3 DEF Page, FirstPage, NextPage, QueryRefused, CloseQuery, library
<1>4. ASSUME NEW c \in Clients, Prove(c) PROVE UNCHANGED <<assets, detail>>
  BY <1>4 DEF Prove, CanonicalDigest, FindSnapshot, DigestIsOld, library, readers
<1>5. ASSUME NEW s \in Sessions, Answer(s) PROVE UNCHANGED <<assets, detail>>
  BY <1>5 DEF Answer, InsertCollection, UpdateName, WriteFails, PageVerified, library, readers
<1> QED BY <1>1, <1>2, <1>3, <1>4, <1>5 DEF Next, Scan, Edit

LEMMA AssetsTypedStep == AssetsTyped /\ [Next]_vars => AssetsTyped'
<1> SUFFICES ASSUME AssetsTyped, [Next]_vars PROVE AssetsTyped'
    OBVIOUS
<1>1. CASE UNCHANGED <<assets, detail>>
  BY <1>1 DEF AssetsTyped, Detail
<1>2. ASSUME NEW a \in Assets, ScanInserts(a) PROVE AssetsTyped'
  <2>1. PICK t \in Titles : assets' = Put(assets, a, [title |-> t, bytes |-> 0,
                                                      present |-> TRUE, revision |-> 0])
    BY <1>2 DEF ScanInserts
  <2>2. DOMAIN assets' = DOMAIN assets \union {a} /\ assets' \in [DOMAIN assets' -> AssetRow]
    <3> DEFINE row == [title |-> t, bytes |-> 0, present |-> TRUE, revision |-> 0]
    <3>1. row \in AssetRow
      BY DEF AssetRow
    <3>2. assets' = [y \in DOMAIN assets \union {a} |-> IF y = a THEN row ELSE assets[y]]
      BY <2>1 DEF Put
    <3> HIDE DEF row
    <3> QED BY <3>1, <3>2 DEF AssetsTyped
  <2> QED BY <1>2, <2>2 DEF ScanInserts, readers, AssetsTyped, Detail
<1>3. ASSUME NEW a \in Assets, ScanFinds(a) PROVE AssetsTyped'
  <2>1. DOMAIN assets' = DOMAIN assets /\ assets' \in [DOMAIN assets -> AssetRow]
    <3>1. assets[a] \in AssetRow
      BY <1>3 DEF ScanFinds, AssetsTyped
    <3>2. [assets[a] EXCEPT !.bytes = 1 - @] \in AssetRow
      BY <3>1 DEF AssetRow
    <3>3. [assets[a] EXCEPT !.present = ~@] \in AssetRow
      <4>1. (~assets[a].present) \in BOOLEAN
        OBVIOUS
      <4> QED BY <3>1, <4>1 DEF AssetRow
    <3>4. \E row \in AssetRow : assets' = [assets EXCEPT ![a] = row]
      BY <1>3, <3>2, <3>3 DEF ScanFinds
    <3> QED BY <1>3, <3>4 DEF AssetsTyped
  <2> QED BY <1>3, <2>1 DEF ScanFinds, readers, AssetsTyped, Detail
<1>4. ASSUME NEW c \in Clients, NEW a \in Assets, GetAsset(c, a) PROVE AssetsTyped'
  <2>1. assets[a] \in AssetRow /\ a \in DOMAIN assets
    BY <1>4 DEF GetAsset, AssetsTyped
  <2>2. [asset |-> a, title |-> assets[a].title, revision |-> assets[a].revision] \in Detail
    BY <2>1 DEF AssetRow, Detail
  <2> QED BY <1>4, <2>2 DEF GetAsset, library, AssetsTyped, Detail
<1>5. ASSUME NEW c \in Clients, NEW t \in Titles, UpdateAsset(c, t) PROVE AssetsTyped'
  <2>1. DOMAIN assets' = DOMAIN assets /\ assets' \in [DOMAIN assets -> AssetRow]
    BY <1>5 DEF UpdateAsset, AssetsTyped, AssetRow, Detail
  <2>2. /\ DOMAIN detail' = Clients
        /\ \A d \in Clients : detail'[d] # Nothing => detail'[d] \in Detail
    BY <1>5 DEF UpdateAsset, AssetsTyped, Detail
  <2> QED BY <2>1, <2>2 DEF AssetsTyped, Detail
<1>6. ASSUME NEW c \in Clients, Conflict(c) PROVE AssetsTyped'
  BY <1>6 DEF Conflict, library, AssetsTyped, Detail
<1>7. CASE Reopen
  <2>1. assets' \in [DOMAIN assets -> AssetRow] /\ DOMAIN assets' = DOMAIN assets
    BY <1>7 DEF Reopen, AssetsTyped, AssetRow
  <2> QED BY <1>7, <2>1 DEF Reopen, AssetsTyped, Detail
<1> QED BY <1>1, <1>2, <1>3, <1>4, <1>5, <1>6, <1>7, OnlyEditorsWrite

LEMMA WiderRows ==
  ASSUME NEW T, NEW B1, NEW B2, NEW P1, NEW P2, NEW R1, NEW R2,
         B1 \subseteq B2, P1 \subseteq P2, R1 \subseteq R2
  PROVE  [title : T, bytes : B1, present : P1, revision : R1]
           \subseteq [title : T, bytes : B2, present : P2, revision : R2]
OBVIOUS

LEMMA InitAssetsTyped == Init => AssetsTyped /\ EqualRevisionsEqualTitle
<1> SUFFICES ASSUME Init PROVE AssetsTyped /\ EqualRevisionsEqualTitle
    OBVIOUS
<1>1. DOMAIN assets = FirstAssets /\ assets \in [FirstAssets -> AssetRow]
  <2> DEFINE First == [title : Titles, bytes : {0}, present : {TRUE}, revision : {0}]
  <2>1. First \subseteq AssetRow
    <3>1. {0} \subseteq {0, 1} /\ {0} \subseteq Nat
      OBVIOUS
    <3>2. {TRUE} \subseteq BOOLEAN
      BY Zenon
    <3> QED BY <3>1, <3>2, WiderRows DEF AssetRow
  <2>2. assets \in [FirstAssets -> First]
    BY DEF Init
  <2> HIDE DEF First
  <2> QED BY <2>1, <2>2
<1> QED BY <1>1, CurationAssumption DEF Init, AssetsTyped, EqualRevisionsEqualTitle

LEMMA TitlesStep ==
  ASSUME AssetsTyped, EqualRevisionsEqualTitle, [Next]_vars
  PROVE  EqualRevisionsEqualTitle'
<1> SUFFICES ASSUME NEW d \in Clients, detail'[d] # Nothing
    PROVE  /\ detail'[d].revision <= assets'[detail'[d].asset].revision
           /\ detail'[d].revision = assets'[detail'[d].asset].revision =>
                detail'[d].title = assets'[detail'[d].asset].title
    BY DEF EqualRevisionsEqualTitle
<1>1. CASE UNCHANGED <<assets, detail>>
  BY <1>1 DEF EqualRevisionsEqualTitle
<1>2. ASSUME NEW a \in Assets, ScanInserts(a) \/ ScanFinds(a)
      PROVE  /\ detail' = detail
             /\ \A b \in DOMAIN assets : /\ assets'[b].revision = assets[b].revision
                                         /\ assets'[b].title = assets[b].title
  <2>1. CASE ScanInserts(a)
    BY <2>1 DEF ScanInserts, Put, readers
  <2>2. CASE ScanFinds(a)
    BY <2>2 DEF ScanFinds, readers, AssetsTyped, AssetRow
  <2> QED BY <1>2, <2>1, <2>2
<1>3. CASE \E a \in Assets : ScanInserts(a) \/ ScanFinds(a)
  BY <1>2, <1>3 DEF EqualRevisionsEqualTitle, AssetsTyped, Detail
<1>4. ASSUME NEW c \in Clients, NEW a \in Assets, GetAsset(c, a)
      PROVE  /\ detail'[d].revision <= assets'[detail'[d].asset].revision
             /\ detail'[d].revision = assets'[detail'[d].asset].revision =>
                  detail'[d].title = assets'[detail'[d].asset].title
  <2>1. assets[a].revision \in Nat
    BY <1>4 DEF GetAsset, AssetsTyped, AssetRow
  <2> QED BY <1>4, <2>1 DEF GetAsset, library, AssetsTyped, EqualRevisionsEqualTitle
<1>5. ASSUME NEW c \in Clients, NEW t \in Titles, UpdateAsset(c, t)
      PROVE  /\ detail'[d].revision <= assets'[detail'[d].asset].revision
             /\ detail'[d].revision = assets'[detail'[d].asset].revision =>
                  detail'[d].title = assets'[detail'[d].asset].title
  <2> DEFINE b == detail[c].asset
  <2>1. /\ b \in DOMAIN assets /\ detail[c] \in Detail /\ assets[b] \in AssetRow
        /\ assets[b].revision = detail[c].revision
    BY <1>5 DEF UpdateAsset, AssetsTyped, Detail
  <2>2. assets'[b].revision = assets[b].revision + 1 /\ assets'[b].title = t
    BY <1>5, <2>1 DEF UpdateAsset, AssetsTyped, AssetRow
  <2>3. CASE d = c
    BY <1>5, <2>1, <2>2, <2>3 DEF UpdateAsset, AssetsTyped, Detail, AssetRow
  <2>4. CASE d # c
    <3>1. detail'[d] = detail[d] /\ detail[d] \in Detail
      BY <1>5, <2>4 DEF UpdateAsset, AssetsTyped
    <3>2. /\ detail[d].revision <= assets[detail[d].asset].revision
          /\ detail[d].revision = assets[detail[d].asset].revision =>
               detail[d].title = assets[detail[d].asset].title
      BY <3>1 DEF EqualRevisionsEqualTitle
    <3>3. CASE detail[d].asset = b
      BY <2>1, <2>2, <3>1, <3>2, <3>3 DEF Detail, AssetRow
    <3>4. CASE detail[d].asset # b
      <4>1. assets'[detail[d].asset] = assets[detail[d].asset]
        BY <1>5, <3>1, <3>4 DEF UpdateAsset, AssetsTyped, Detail
      <4> QED BY <3>1, <3>2, <4>1
    <3> QED BY <3>3, <3>4
  <2> QED BY <2>3, <2>4
<1>6. ASSUME NEW c \in Clients, Conflict(c)
      PROVE  assets' = assets /\ detail'[d] = detail[d]
  BY <1>6 DEF Conflict, library, AssetsTyped
<1>7. CASE \E c \in Clients : Conflict(c)
  BY <1>6, <1>7 DEF EqualRevisionsEqualTitle
<1>8. CASE Reopen
  <2>1. /\ detail' = detail
        /\ \A b \in DOMAIN assets : /\ assets'[b].revision = assets[b].revision
                                    /\ assets'[b].title = assets[b].title
    BY <1>8 DEF Reopen, AssetsTyped, AssetRow
  <2> QED BY <2>1 DEF EqualRevisionsEqualTitle, AssetsTyped, Detail
<1> QED BY <1>1, <1>3, <1>4, <1>5, <1>7, <1>8, OnlyEditorsWrite

\* However many editors and scans commit, whoever has read an asset at the
\* revision it has now has read its title (update_asset): no update that
\* expects this revision overwrites what its author has not seen.
THEOREM RevisionsNameTitles == Spec => []EqualRevisionsEqualTitle
<1>1. AssetsTyped /\ EqualRevisionsEqualTitle /\ [Next]_vars
        => (AssetsTyped /\ EqualRevisionsEqualTitle)'
  BY AssetsTypedStep, TitlesStep
<1> QED BY <1>1, InitAssetsTyped, PTL DEF Spec

-----------------------------------------------------------------------------
(* Collections.                                                            *)

\* A command that ends, and one that has nothing to do with collections.
Apart ==
  /\ collections' = collections /\ crossed' = crossed
  /\ DOMAIN doing' = DOMAIN doing
  /\ \A s \in Sessions :
       Doing(s, "create")' \/ Doing(s, "rename")' => doing'[s] = doing[s]

Checks(c, k, name) == CheckCreate(c, k, name) \/ CheckRename(c, k, name)
Changes(c, k, batch) == AddMembers(c, k, batch) \/ RemoveMembers(c, k, batch)

LEMMA OnlyCuratorsWrite ==
  ASSUME ShelvesTyped, [Next]_vars
  PROVE  \/ Apart
         \/ \E c \in Clients, k \in Collections, name \in Names : Checks(c, k, name)
         \/ \E c \in Clients, k \in Collections : DeleteCollection(c, k)
         \/ \E c \in Clients, k \in Collections, batch \in Batches : Changes(c, k, batch)
         \/ \E s \in Sessions : InsertCollection(s) \/ UpdateName(s)
<1>1. ASSUME UNCHANGED <<collections, crossed, doing>> PROVE Apart
  BY <1>1 DEF Apart, Doing
<1>2. CASE UNCHANGED vars \/ Scan
  BY <1>1, <1>2 DEF vars, library, readers, Scan, ScanInserts, ScanFinds, ScanGoesOn
<1>3. ASSUME NEW c \in Clients, Edit(c) \/ Page(c) PROVE Apart
  BY <1>1, <1>3 DEF Edit, GetAsset, UpdateAsset, Conflict, Page, FirstPage, NextPage,
                    QueryRefused, CloseQuery, Rests, library, readers
<1>4. ASSUME NEW c \in Clients, Prove(c) PROVE Apart
  <2>1. CASE CanonicalDigest(c) \/ \E e \in Entities : DigestIsOld(c, e)
    BY <1>1, <2>1 DEF CanonicalDigest, DigestIsOld, Rests, library
  <2>2. ASSUME NEW e \in Entities, FindSnapshot(c, e) PROVE Apart
    <3>1. \E v : v.kind = "page" /\ doing' = [doing EXCEPT ![SessionOf[c]] = v]
      BY <2>2 DEF FindSnapshot
    <3> QED BY <2>2, <3>1 DEF FindSnapshot, library, readers, Apart, Doing, ShelvesTyped
  <2> QED BY <1>4, <2>1, <2>2 DEF Prove
<1>5. ASSUME NEW s \in Sessions, WriteFails(s) \/ PageVerified(s) PROVE Apart
  <2>1. doing' = [doing EXCEPT ![s] = Nothing] /\ UNCHANGED <<collections, crossed>>
    BY <1>5 DEF WriteFails, PageVerified, Done, library, readers
  <2> QED BY <2>1 DEF Apart, Doing, ShelvesTyped
<1>6. ASSUME NEW c \in Clients, Collect(c)
      PROVE  \/ \E k \in Collections, name \in Names : Checks(c, k, name)
             \/ \E k \in Collections : DeleteCollection(c, k)
             \/ \E k \in Collections, batch \in Batches : Changes(c, k, batch)
  BY <1>6 DEF Collect, Checks, Changes
<1>7. CASE Reopen
  BY <1>7 DEF Reopen, Apart, Doing, ShelvesTyped
<1> QED BY <1>2, <1>3, <1>4, <1>5, <1>6, <1>7 DEF Next, Answer

\* What a commit does to the table, and that a session is done with it.
LEMMA Inserted ==
  ASSUME ShelvesTyped, NEW s \in Sessions, InsertCollection(s)
  PROVE  /\ Doing(s, "create") /\ doing' = [doing EXCEPT ![s] = Nothing]
         /\ crossed' = (crossed \/ Meets(s))
         /\ \/ collections' = collections
            \/ /\ doing[s].to \notin DOMAIN collections
               /\ collections' = Put(collections, doing[s].to,
                    [name |-> doing[s].name, revision |-> 0, members |-> {}])
BY DEF InsertCollection, Done, library

LEMMA Renamed ==
  ASSUME ShelvesTyped, NEW s \in Sessions, UpdateName(s)
  PROVE  /\ Doing(s, "rename") /\ doing' = [doing EXCEPT ![s] = Nothing]
         /\ crossed' = (crossed \/ Meets(s))
         /\ \/ collections' = collections
            \/ /\ doing[s].to \in DOMAIN collections
               /\ collections[doing[s].to].revision = doing[s].revision
               /\ collections' = [collections EXCEPT ![doing[s].to].name = doing[s].name,
                                                     ![doing[s].to].revision = @ + 1]
BY DEF UpdateName, Done, library

LEMMA ShelvesTypedStep == ShelvesTyped /\ [Next]_vars => ShelvesTyped'
<1> SUFFICES ASSUME ShelvesTyped, [Next]_vars PROVE ShelvesTyped'
    OBVIOUS
<1>1. CASE Apart
  <2>1. ASSUME NEW s \in Sessions, Doing(s, "create")' \/ Doing(s, "rename")'
        PROVE  doing'[s].name \in Names
    BY <1>1, <2>1 DEF Apart, Doing, ShelvesTyped
  <2> QED BY <1>1, <2>1 DEF Apart, ShelvesTyped
<1>2. ASSUME NEW c \in Clients, NEW k \in Collections, NEW name \in Names,
             Checks(c, k, name)
      PROVE  ShelvesTyped'
  <2>1. \E v : v.name = name /\ doing' = [doing EXCEPT ![SessionOf[c]] = v]
    BY <1>2 DEF Checks, CheckCreate, CheckRename
  <2> QED BY <1>2, <2>1 DEF Checks, CheckCreate, CheckRename, library, ShelvesTyped, Doing
<1>3. ASSUME NEW c \in Clients, NEW k \in Collections, DeleteCollection(c, k)
      PROVE  ShelvesTyped'
  BY <1>3 DEF DeleteCollection, Rests, ShelvesTyped, Doing
<1>4. ASSUME NEW c \in Clients, NEW k \in Collections, NEW batch \in Batches,
             Changes(c, k, batch)
      PROVE  ShelvesTyped'
  <2>1. batch \subseteq Assets /\ doing' = doing /\ k \in DOMAIN collections
    BY <1>4 DEF Changes, AddMembers, RemoveMembers, Rests, Batches
  <2>2. collections[k] \in Shelf
    BY <2>1 DEF ShelvesTyped
  <2>3. \E v \in Shelf : collections' = [collections EXCEPT ![k] = v]
    BY <1>4, <2>1, <2>2 DEF Changes, AddMembers, RemoveMembers, Shelf
  <2> QED BY <2>1, <2>3 DEF ShelvesTyped, Doing
<1>5. ASSUME NEW s \in Sessions, InsertCollection(s) PROVE ShelvesTyped'
  <2>1. doing[s].name \in Names
    BY <1>5, Inserted DEF ShelvesTyped
  <2>2. [name |-> doing[s].name, revision |-> 0, members |-> {}] \in Shelf
    BY <2>1 DEF Shelf
  <2>3. collections' \in [DOMAIN collections' -> Shelf]
    <3> DEFINE row == [name |-> doing[s].name, revision |-> 0, members |-> {}]
    <3>1. row \in Shelf
      BY <2>2
    <3>2. \/ collections' = collections
          \/ collections' = [y \in DOMAIN collections \union {doing[s].to} |->
                               IF y = doing[s].to THEN row ELSE collections[y]]
      BY <1>5, Inserted DEF Put
    <3> HIDE DEF row
    <3> QED BY <3>1, <3>2 DEF ShelvesTyped
  <2> QED BY <1>5, <2>3, Inserted DEF ShelvesTyped, Doing
<1>6. ASSUME NEW s \in Sessions, UpdateName(s) PROVE ShelvesTyped'
  <2>1. doing[s].name \in Names
    BY <1>6, Renamed DEF ShelvesTyped
  <2>2. collections' \in [DOMAIN collections' -> Shelf]
    <3> DEFINE k == doing[s].to
               row == [collections[k] EXCEPT !.name = doing[s].name, !.revision = @ + 1]
    <3>1. \/ collections' = collections
          \/ k \in DOMAIN collections /\ collections' = [collections EXCEPT ![k] = row]
      BY <1>6, Renamed
    <3>2. ASSUME k \in DOMAIN collections PROVE row \in Shelf
      <4>1. collections[k] \in Shelf
        BY <3>2 DEF ShelvesTyped
      <4>2. collections[k].revision \in Nat /\ collections[k].revision + 1 \in Nat
        BY <4>1 DEF Shelf
      <4>3. [collections[k] EXCEPT !.name = doing[s].name] \in Shelf
        BY <2>1, <4>1 DEF Shelf
      <4>4. row = [[collections[k] EXCEPT !.name = doing[s].name]
                    EXCEPT !.revision = collections[k].revision + 1]
        BY <4>1 DEF Shelf
      <4> QED BY <4>2, <4>3, <4>4 DEF Shelf
    <3> HIDE DEF k, row
    <3> QED BY <3>1, <3>2 DEF ShelvesTyped
  <2> QED BY <1>6, <2>2, Renamed DEF ShelvesTyped, Doing
<1> QED BY <1>1, <1>2, <1>3, <1>4, <1>5, <1>6, OnlyCuratorsWrite

LEMMA InitShelvesTyped == Init => ShelvesTyped
<1> SUFFICES ASSUME Init PROVE ShelvesTyped
    OBVIOUS
<1>1. ASSUME NEW k \in DOMAIN FirstNames
      PROVE  [name |-> FirstNames[k], revision |-> 0, members |-> {}] \in Shelf
  BY <1>1, CurationAssumption DEF Shelf
<1>2. collections \in [DOMAIN collections -> Shelf]
  BY <1>1 DEF Init
<1> QED BY <1>2 DEF Init, ShelvesTyped, Doing

\* However many sessions rename, delete and create, a collection gets another
\* name only from a command that has seen its present revision (rename_collection).
THEOREM NamesFollowRevisions == Spec => NamesChangeWithRevisions
<1>1. ASSUME ShelvesTyped, [Next]_vars,
             NEW k \in DOMAIN collections \intersect DOMAIN collections'
      PROVE  /\ collections'[k].name # collections[k].name =>
                  \E s \in Sessions : /\ Doing(s, "rename") /\ doing[s].to = k
                                      /\ doing[s].revision = collections[k].revision
             /\ collections'[k].revision >= collections[k].revision
  <2>1. collections[k] \in Shelf
    BY <1>1 DEF ShelvesTyped
  <2>2. collections[k].revision \in Nat
    BY <2>1 DEF Shelf
  <2>3. CASE collections'[k] = collections[k]
    BY <2>2, <2>3
  <2>4. CASE \E c \in Clients, j \in Collections, name \in Names : Checks(c, j, name)
    BY <2>2, <2>4 DEF Checks, CheckCreate, CheckRename, library
  <2>5. CASE \E c \in Clients, j \in Collections : DeleteCollection(c, j)
    BY <2>2, <2>5 DEF DeleteCollection
  <2>6. ASSUME NEW c \in Clients, NEW j \in Collections, NEW batch \in Batches,
               Changes(c, j, batch)
        PROVE  /\ collections'[k].name = collections[k].name
               /\ collections'[k].revision >= collections[k].revision
    BY <2>1, <2>2, <2>6 DEF Changes, AddMembers, RemoveMembers, Shelf, ShelvesTyped
  <2>7. ASSUME NEW s \in Sessions, InsertCollection(s)
        PROVE  collections'[k] = collections[k]
    BY <2>7, Inserted, <1>1 DEF Put
  <2>8. ASSUME NEW s \in Sessions, UpdateName(s), collections'[k] # collections[k]
        PROVE  /\ Doing(s, "rename") /\ doing[s].to = k
               /\ doing[s].revision = collections[k].revision
               /\ collections'[k].revision >= collections[k].revision
    <3> DEFINE j == doing[s].to
               row == [collections[j] EXCEPT !.name = doing[s].name, !.revision = @ + 1]
    <3>1. /\ Doing(s, "rename") /\ j \in DOMAIN collections
          /\ collections[j].revision = doing[s].revision
          /\ collections' = [collections EXCEPT ![j] = row]
      BY <1>1, <2>8, Renamed
    <3>2. j = k
      BY <1>1, <2>8, <3>1
    <3>3. collections'[k].revision = collections[k].revision + 1
      BY <2>1, <3>1, <3>2 DEF Shelf
    <3> QED BY <2>2, <3>1, <3>2, <3>3
  <2> QED BY <1>1, <2>3, <2>4, <2>5, <2>6, <2>7, <2>8, OnlyCuratorsWrite DEF Apart
<1>2. ShelvesTyped /\ [Next]_vars =>
        [\A k \in DOMAIN collections \intersect DOMAIN collections' :
           /\ collections'[k].name # collections[k].name =>
                \E s \in Sessions : /\ Doing(s, "rename") /\ doing[s].to = k
                                    /\ doing[s].revision = collections[k].revision
           /\ collections'[k].revision >= collections[k].revision]_vars
  BY <1>1
<1> QED BY <1>2, InitShelvesTyped, ShelvesTypedStep, PTL DEF Spec, NamesChangeWithRevisions

-----------------------------------------------------------------------------
(* What a check before the transaction is worth.                           *)

\* Until another session commits, what a session has checked still holds.
Checked ==
  \A s \in Sessions :
    /\ Doing(s, "create") \/ Doing(s, "rename") => Available(doing[s].name, doing[s].to)
    /\ Doing(s, "create") => Cardinality(DOMAIN collections) < MaxCollections

Distinct ==
  \A k, j \in DOMAIN collections :
    Lower[collections[k].name] = Lower[collections[j].name] => k = j

Listable ==
  /\ ShelvesTyped /\ IsFiniteSet(DOMAIN collections)
  /\ ~crossed => /\ Cardinality(DOMAIN collections) <= MaxCollections
                 /\ Distinct /\ Checked

\* Names that stay, and collections that go, spoil no check.
LEMMA ChecksKept ==
  ASSUME Listable, ~crossed,
         DOMAIN collections' \subseteq DOMAIN collections,
         \A k \in DOMAIN collections' : collections'[k].name = collections[k].name,
         \A s \in Sessions : Doing(s, "create")' \/ Doing(s, "rename")' => doing'[s] = doing[s]
  PROVE  /\ IsFiniteSet(DOMAIN collections') /\ Distinct' /\ Checked'
         /\ Cardinality(DOMAIN collections') <= MaxCollections
<1>1. /\ IsFiniteSet(DOMAIN collections')
      /\ Cardinality(DOMAIN collections') <= Cardinality(DOMAIN collections)
      /\ Cardinality(DOMAIN collections') \in Nat /\ Cardinality(DOMAIN collections) \in Nat
  BY FS_Subset, FS_CardinalityType DEF Listable
<1>2. Distinct'
  BY DEF Listable, Distinct
<1>3. ASSUME NEW s \in Sessions, Doing(s, "create")' \/ Doing(s, "rename")'
      PROVE  /\ Available(doing[s].name, doing[s].to)'
             /\ Doing(s, "create")' => Cardinality(DOMAIN collections') < MaxCollections
  <2>1. /\ doing'[s] = doing[s]
        /\ Doing(s, "create") \/ Doing(s, "rename")
        /\ Doing(s, "create")' => Doing(s, "create")
    BY <1>3 DEF Doing
  <2>2. Available(doing[s].name, doing[s].to)
    BY <2>1 DEF Listable, Checked
  <2>3. Available(doing[s].name, doing[s].to)'
    BY <2>1, <2>2 DEF Available
  <2>4. Doing(s, "create")' => Cardinality(DOMAIN collections') < MaxCollections
    BY <1>1, <2>1, CurationAssumption DEF Listable, Checked
  <2> QED BY <2>3, <2>4
<1>4. Checked'
  BY <1>3 DEF Checked
<1> QED BY <1>1, <1>2, <1>4, CurationAssumption DEF Listable

\* A commit spoils the checks of the others, if there are any: crossed.
LEMMA CommitKeeps ==
  ASSUME Listable, ~crossed', NEW s \in Sessions, InsertCollection(s) \/ UpdateName(s)
  PROVE  /\ ~crossed
         /\ \A t \in Sessions : ~Doing(t, "create")' /\ ~Doing(t, "rename")'
         /\ Checked'
<1>1. doing' = [doing EXCEPT ![s] = Nothing] /\ ~crossed /\ ~Meets(s)
  BY Inserted, Renamed DEF Listable
<1>2. ASSUME NEW t \in Sessions PROVE ~Doing(t, "create")' /\ ~Doing(t, "rename")'
  <2>1. CASE t = s
    BY <1>1, <2>1 DEF Doing, Listable, ShelvesTyped
  <2>2. CASE t # s
    BY <1>1, <2>2 DEF Doing, Meets, Listable, ShelvesTyped
  <2> QED BY <2>1, <2>2
<1> QED BY <1>1, <1>2 DEF Checked

LEMMA InsertListable ==
  ASSUME Listable, ShelvesTyped', NEW s \in Sessions, InsertCollection(s)
  PROVE  Listable'
<1> DEFINE k == doing[s].to
<1>1. CASE collections' = collections
  <2>1. ASSUME ~crossed' PROVE Distinct'
    BY <1>1, <2>1, CommitKeeps DEF Listable, Distinct
  <2> QED BY <1>1, <2>1, CommitKeeps DEF Listable
<1>2. CASE collections' # collections
  <2>1. /\ Doing(s, "create") /\ k \notin DOMAIN collections
        /\ collections' = Put(collections, k,
             [name |-> doing[s].name, revision |-> 0, members |-> {}])
    BY <1>2, Inserted DEF Listable
  <2>2. /\ DOMAIN collections' = DOMAIN collections \union {k}
        /\ \A j \in DOMAIN collections : collections'[j] = collections[j]
        /\ collections'[k].name = doing[s].name
    BY <2>1 DEF Put
  <2>3. /\ IsFiniteSet(DOMAIN collections')
        /\ Cardinality(DOMAIN collections') = Cardinality(DOMAIN collections) + 1
        /\ Cardinality(DOMAIN collections) \in Nat
    BY <2>1, <2>2, FS_AddElement, FS_CardinalityType DEF Listable
  <2>4. ASSUME ~crossed'
        PROVE  Cardinality(DOMAIN collections') <= MaxCollections /\ Distinct' /\ Checked'
    <3>1. ~crossed /\ Checked'
      BY <2>4, CommitKeeps
    <3>2. /\ Available(doing[s].name, k) /\ Distinct
          /\ Cardinality(DOMAIN collections) < MaxCollections
      BY <2>1, <3>1 DEF Listable, Checked
    <3>3. Distinct'
      BY <2>1, <2>2, <3>2 DEF Distinct, Available
    <3> QED BY <2>3, <3>1, <3>2, <3>3, CurationAssumption
  <2> QED BY <2>3, <2>4 DEF Listable
<1> QED BY <1>1, <1>2

LEMMA RenameListable ==
  ASSUME Listable, ShelvesTyped', NEW s \in Sessions, UpdateName(s)
  PROVE  Listable'
<1> DEFINE k == doing[s].to
<1>1. /\ Doing(s, "rename")
      /\ DOMAIN collections' = DOMAIN collections
      /\ \A j \in DOMAIN collections : j # k => collections'[j] = collections[j]
      /\ \/ collections' = collections
         \/ k \in DOMAIN collections /\ collections'[k].name = doing[s].name
  <2>1. /\ Doing(s, "rename")
        /\ \/ collections' = collections
           \/ /\ k \in DOMAIN collections
              /\ collections' = [collections EXCEPT ![k].name = doing[s].name,
                                                    ![k].revision = @ + 1]
    BY Renamed DEF Listable
  <2>2. k \in DOMAIN collections => collections[k] \in Shelf
    BY DEF Listable, ShelvesTyped
  <2> HIDE DEF k
  <2> QED BY <2>1, <2>2 DEF Shelf
<1>2. ASSUME ~crossed' PROVE Distinct' /\ Checked'
  <2>1. ~crossed /\ Checked'
    BY <1>2, CommitKeeps
  <2>2. Available(doing[s].name, k) /\ Distinct
    BY <1>1, <2>1 DEF Listable, Checked
  <2>3. Distinct'
    BY <1>1, <2>2 DEF Distinct, Available
  <2> QED BY <2>1, <2>3
<1>3. ~crossed' => ~crossed
  BY CommitKeeps
<1> QED BY <1>1, <1>2, <1>3 DEF Listable

LEMMA ListableStep == Listable /\ [Next]_vars => Listable'
<1> SUFFICES ASSUME Listable, [Next]_vars PROVE Listable'
    OBVIOUS
<1>0. ShelvesTyped /\ ShelvesTyped'
  BY ShelvesTypedStep DEF Listable
<1>1. CASE Apart
  <2>1. /\ collections' = collections /\ crossed' = crossed
        /\ \A s \in Sessions : Doing(s, "create")' \/ Doing(s, "rename")' => doing'[s] = doing[s]
    BY <1>1 DEF Apart
  <2> QED BY <1>0, <2>1, ChecksKept DEF Listable
<1>2. ASSUME NEW c \in Clients, NEW k \in Collections, NEW name \in Names,
             Checks(c, k, name)
      PROVE  Listable'
  <2> DEFINE s == SessionOf[c]
  <2>1. /\ collections' = collections /\ crossed' = crossed /\ Available(name, k)
        /\ \/ Cardinality(DOMAIN collections) < MaxCollections
           \/ ~Doing(s, "create")'
        /\ doing'[s].name = name /\ doing'[s].to = k
        /\ \A t \in Sessions : t # s => doing'[t] = doing[t]
    <3>1. s \in Sessions
      BY CurationAssumption
    <3> QED BY <1>0, <1>2, <3>1
            DEF Checks, CheckCreate, CheckRename, library, readers, ShelvesTyped, Doing
  <2>2. ASSUME NEW t \in Sessions, ~crossed
        PROVE  /\ Doing(t, "create")' \/ Doing(t, "rename")' =>
                    Available(doing[t].name, doing[t].to)'
               /\ Doing(t, "create")' => Cardinality(DOMAIN collections') < MaxCollections
    <3>1. CASE t = s
      BY <2>1, <3>1 DEF Available
    <3>2. CASE t # s
      BY <2>1, <2>2, <3>2 DEF Listable, Checked, Available, Doing
    <3> QED BY <3>1, <3>2
  <2> QED BY <1>0, <2>1, <2>2 DEF Listable, Checked, Distinct
<1>3. ASSUME NEW c \in Clients, NEW k \in Collections, DeleteCollection(c, k)
      PROVE  Listable'
  <2>1. /\ DOMAIN collections' \subseteq DOMAIN collections
        /\ \A j \in DOMAIN collections' : collections'[j].name = collections[j].name
        /\ doing' = doing /\ crossed' = crossed
    BY <1>3 DEF DeleteCollection, Rests, readers
  <2>2. IsFiniteSet(DOMAIN collections')
    BY <2>1, FS_Subset DEF Listable
  <2> QED BY <1>0, <2>1, <2>2, ChecksKept DEF Listable
<1>4. ASSUME NEW c \in Clients, NEW k \in Collections, NEW batch \in Batches,
             Changes(c, k, batch)
      PROVE  Listable'
  <2>1. collections \in [DOMAIN collections -> Shelf] /\ k \in DOMAIN collections
    BY <1>0, <1>4 DEF Changes, AddMembers, RemoveMembers, ShelvesTyped
  <2>2. /\ DOMAIN collections' = DOMAIN collections
        /\ \A j \in DOMAIN collections' : collections'[j].name = collections[j].name
        /\ doing' = doing /\ crossed' = crossed
    BY <1>4, <2>1 DEF Changes, AddMembers, RemoveMembers, Rests, readers, Shelf
  <2> QED BY <1>0, <2>2, ChecksKept DEF Listable
<1> QED BY <1>0, <1>1, <1>2, <1>3, <1>4, InsertListable, RenameListable, OnlyCuratorsWrite

LEMMA InitListable == Init => Listable
<1> SUFFICES ASSUME Init PROVE Listable
    OBVIOUS
<1>1. /\ DOMAIN collections = DOMAIN FirstNames
      /\ \A k \in DOMAIN collections : collections[k].name = FirstNames[k]
      /\ \A s \in Sessions : ~Doing(s, "create") /\ ~Doing(s, "rename")
  BY DEF Init, Doing
<1> QED BY <1>1, InitShelvesTyped, CurationAssumption DEF Listable, Distinct, Checked

\* Whatever scans, edits, failures and other sessions commit between the checks
\* of create_collection and rename_collection and their transactions: only two
\* sessions whose checks both precede a commit can exceed MAX_COLLECTIONS or
\* leave two names that differ in case only.
THEOREM CollectionsListable == Spec => []CollectionsStayListable
<1>1. Listable => CollectionsStayListable
  BY DEF Listable, Distinct, CollectionsStayListable
<1> QED BY <1>1, InitListable, ListableStep, PTL DEF Spec

-----------------------------------------------------------------------------
(* Sequences that a reader gets piece by piece.                            *)

\* Tables are finite, so that what is listed from them is a sequence.
Tables == IsFiniteSet(DOMAIN assets) /\ IsFiniteSet(DOMAIN collections) /\ revision \in Nat

\* A reader has the beginning of all it is to get.
Begun(some, all) ==
  /\ all \in Seq(Range(all)) /\ some \in Seq(Range(all))
  /\ IsPrefix(some, all)

\* While the Library has the revision of a reader's first page, the query still
\* selects what it selected then.
PagesInv ==
  /\ DOMAIN pages = Clients
  /\ \A c \in Clients : pages[c] # Nothing =>
       /\ DOMAIN pages[c] = {"query", "revision", "total", "items", "whole"}
       /\ Begun(pages[c].items, pages[c].whole)
       /\ pages[c].total = Len(pages[c].whole)
       /\ pages[c].revision \in 0 .. revision
       /\ pages[c].revision = revision => pages[c].whole = Listing(pages[c].query)

\* The snapshot of a session is the projection while the Library has its
\* revision, and a page being made is of the digest its prover asked for.
Fresh(s) ==
  /\ cached[s].revision \in 0 .. revision
  /\ cached[s].revision = revision => cached[s].digest = Projection

SnapshotInv ==
  /\ DOMAIN cached = Sessions /\ DOMAIN doing = Sessions
  /\ \A s \in Sessions :
       /\ cached[s] # Nothing => Fresh(s)
       /\ Doing(s, "page") =>
            /\ doing[s].client \in Clients /\ SessionOf[doing[s].client] = s
            /\ doing[s].entity \in Entities
            /\ proof[doing[s].client] # Nothing
            /\ Fresh(s) /\ cached[s].digest = proof[doing[s].client].digest

ProofInv ==
  /\ SnapshotInv
  /\ DOMAIN proof = Clients
  /\ \A c \in Clients : proof[c] # Nothing =>
       /\ DOMAIN proof[c] = {"digest", "read"} /\ DOMAIN proof[c].read = Entities
       /\ \A e \in Entities : Begun(proof[c].read[e], proof[c].digest[e])

LEMMA Listed ==
  ASSUME NEW n \in Nat, NEW f, f = [i \in 1 .. n |-> f[i]]
  PROVE  f \in Seq(Range(f)) /\ Len(f) = n
<1> DEFINE T == {f[i] : i \in 1 .. n}
<1>1. f \in [1 .. n -> T]
  <2>1. [i \in 1 .. n |-> f[i]] \in [1 .. n -> T]
    OBVIOUS
  <2> QED BY <2>1
<1>2. f \in Seq(T) /\ Len(f) = n
  <2> HIDE DEF T
  <2> QED BY <1>1
<1>3. DOMAIN f = 1 .. n
  BY <1>1
<1>4. Range(f) = T
  BY <1>3 DEF Range
<1> QED BY <1>2, <1>4

LEMMA NothingBegun == ASSUME NEW T, NEW all \in Seq(T) PROVE Begun(<< >>, all)
<1>1. all \in Seq(Range(all)) /\ << >> \in Seq(Range(all)) /\ Len(<< >>) = 0 /\ Len(all) \in Nat
  BY SeqOfRange, EmptySeq, LenProperties
<1>2. SubSeq(<< >>, 1, 0) = << >> /\ SubSeq(all, 1, 0) = << >>
  BY SubSeqEmpty
<1> QED BY <1>1, <1>2 DEF Begun, IsPrefix

LEMMA InOrderListed ==
  ASSUME NEW S, IsFiniteSet(S), NEW before
  PROVE  InOrder(S, before) \in Seq(Range(InOrder(S, before)))
<1> DEFINE f == InOrder(S, before)
<1>1. Cardinality(S) \in Nat
  BY FS_CardinalityType
<1>2. f = [i \in 1 .. Cardinality(S) |-> f[i]]
  <2> DEFINE row(i) == CHOOSE x \in S : Cardinality({y \in S : <<y, x>> \in before}) = i - 1
  <2>1. f = [i \in 1 .. Cardinality(S) |-> row(i)]
    BY DEF InOrder
  <2> HIDE DEF f, row
  <2> QED BY <2>1
<1> HIDE DEF f
<1>3. f \in Seq(Range(f))
  BY <1>1, <1>2, Listed
<1> QED BY <1>3 DEF f

LEMMA ListingListed ==
  ASSUME Tables, NEW q
  PROVE  Begun(<< >>, Listing(q))
<1>1. IsFiniteSet(Selected(q))
  BY FS_Subset DEF Selected, Tables
<1>2. Listing(q) \in Seq(Range(Listing(q)))
  BY <1>1, InOrderListed DEF Listing
<1> QED BY <1>2, NothingBegun

LEMMA ProjectionListed ==
  ASSUME Tables, NEW e \in Entities
  PROVE  Begun(<< >>, Projection[e])
<1> DEFINE members == {m \in (DOMAIN collections) \X (DOMAIN assets) :
                         m[2] \in collections[m[1]].members}
           A == Projection.assets
           C == Projection.collections
<1>1. Cardinality(DOMAIN assets) \in Nat /\ Cardinality(DOMAIN collections) \in Nat
  BY FS_CardinalityType DEF Tables
<1>2. A = [i \in 1 .. Cardinality(DOMAIN assets) |-> A[i]]
  BY DEF Projection
<1>3. C = [i \in 1 .. Cardinality(DOMAIN collections) |-> C[i]]
  BY DEF Projection
<1>4. Projection.memberships \in Seq(Range(Projection.memberships))
  <2>1. IsFiniteSet(members)
    <3>1. IsFiniteSet((DOMAIN collections) \X (DOMAIN assets))
      BY FS_Product DEF Tables
    <3> QED BY <3>1, FS_Subset
  <2> QED BY <2>1, InOrderListed DEF Projection
<1> HIDE DEF A, C
<1>5. A \in Seq(Range(A)) /\ C \in Seq(Range(C))
  BY <1>1, <1>2, <1>3, Listed
<1> QED BY <1>4, <1>5, NothingBegun DEF Entities, A, C

\* The next piece of what is left of a sequence.
LEMMA BegunGrows ==
  ASSUME NEW some, NEW all, Begun(some, all),
         NEW n \in 0 .. (Len(all) - Len(some))
  PROVE  Begun(some \o SubSeq(SubSeq(all, Len(some) + 1, Len(all)), 1, n), all)
<1> DEFINE T    == Range(all)
           rest == SubSeq(all, Len(some) + 1, Len(all))
           next == SubSeq(rest, 1, n)
           more == some \o next
<1>1. /\ all \in Seq(T) /\ some \in Seq(T) /\ Len(all) \in Nat /\ Len(some) \in Nat
      /\ Len(some) <= Len(all) /\ SubSeq(some, 1, Len(some)) = SubSeq(all, 1, Len(some))
  BY LenProperties DEF Begun, IsPrefix
<1>2. some = SubSeq(all, 1, Len(some))
  BY <1>1, SubSeqFull
<1> HIDE DEF T
<1>3. ASSUME NEW j \in Int, NEW k \in Int, 1 <= j, k <= Len(all)
      PROVE  SubSeq(all, j, k) \in Seq(T) /\ Len(SubSeq(all, j, k)) = IF j <= k THEN k - j + 1 ELSE 0
  <2>1. \A i \in j .. k : all[i] \in T
    BY <1>1, <1>3, ElementOfSeq
  <2> QED BY <2>1, SubSeqProperties
<1>4. next = SubSeq(all, Len(some) + 1, Len(some) + n)
  <2>1. CASE n = 0
    <3>1. next = << >>
      BY <2>1, SubSeqEmpty
    <3>2. SubSeq(all, Len(some) + 1, Len(some) + n) = << >>
      BY <1>1, <2>1, SubSeqEmpty
    <3> QED BY <3>1, <3>2
  <2>2. CASE n # 0
    <3> DEFINE i == Len(some) + 1
               j == Len(all)
    <3>1. i \in 1 .. Len(all) /\ j \in 1 .. Len(all) /\ n \in 1 .. j - i + 1 /\ 1 \in 1 .. j - i + 1
      BY <1>1, <2>2
    <3>2. SubSeq(SubSeq(all, i, j), 1, n) = SubSeq(all, i + 1 - 1, i + n - 1)
      BY <1>1, <3>1, SubSeqOfSubSeq
    <3>3. i + 1 - 1 = Len(some) + 1 /\ i + n - 1 = Len(some) + n
      BY <1>1, <2>2
    <3> QED BY <3>2, <3>3
  <2> QED BY <2>1, <2>2
<1>5. more = SubSeq(all, 1, Len(some) + n)
  <2>1. SubSeq(all, 1, Len(some)) \o SubSeq(all, Len(some) + 1, Len(some) + n)
          = SubSeq(all, 1, Len(some) + n)
    <3>1. 1 \in 1 .. Len(all) + 1 /\ Len(some) \in 1 - 1 .. Len(all)
          /\ Len(some) + n \in Len(some) .. Len(all)
      BY <1>1
    <3> QED BY <1>1, <3>1, ConcatAdjacentSubSeq
  <2> HIDE DEF next
  <2> QED BY <1>2, <1>4, <2>1
<1>6. more \in Seq(T) /\ Len(more) = Len(some) + n /\ Len(more) <= Len(all)
  <2>1. Len(some) + n \in Int /\ Len(some) + n <= Len(all)
    BY <1>1
  <2> HIDE DEF more
  <2> QED BY <1>1, <1>3, <1>5, <2>1
<1> HIDE DEF more
<1>7. SubSeq(more, 1, Len(more)) = SubSeq(all, 1, Len(more))
  BY <1>5, <1>6, SubSeqFull
<1> QED BY <1>1, <1>6, <1>7 DEF T, Begun, IsPrefix, more

\* A page holds something of what is left, and never more than that.
LEMMA FittingIsLeft ==
  ASSUME NEW rest \in Nat, NEW n \in Fitting(rest)
  PROVE  n \in 0 .. rest
<1>1. CASE rest = 0
  BY <1>1 DEF Fitting
<1>2. CASE rest # 0
  <2>1. PageSize \in Nat
    BY CurationAssumption
  <2>2. \E x \in {PageSize, rest} : \A y \in {PageSize, rest} : x =< y
    BY <2>1
  <2>3. Min({PageSize, rest}) \in {PageSize, rest} /\ Min({PageSize, rest}) =< rest
    <3> DEFINE m == CHOOSE x \in {PageSize, rest} : \A y \in {PageSize, rest} : x =< y
    <3>1. m \in {PageSize, rest} /\ \A y \in {PageSize, rest} : m =< y
      BY <2>2
    <3>2. m = Min({PageSize, rest})
      BY DEF Min
    <3> HIDE DEF m
    <3> QED BY <3>1, <3>2
  <2> QED BY <1>2, <2>1, <2>3 DEF Fitting
<1> QED BY <1>1, <1>2

LEMMA LenRest ==
  ASSUME NEW some, NEW all, Begun(some, all)
  PROVE  Len(SubSeq(all, Len(some) + 1, Len(all))) = Len(all) - Len(some)
         /\ Len(all) - Len(some) \in Nat
<1> DEFINE T == Range(all)
<1>1. /\ all \in Seq(T) /\ some \in Seq(T) /\ Len(all) \in Nat /\ Len(some) \in Nat
      /\ Len(some) <= Len(all)
  BY LenProperties DEF Begun, IsPrefix
<1> HIDE DEF T
<1>2. \A i \in Len(some) + 1 .. Len(all) : all[i] \in T
  BY <1>1, ElementOfSeq
<1>3. Len(SubSeq(all, Len(some) + 1, Len(all)))
        = IF Len(some) + 1 <= Len(all) THEN Len(all) - (Len(some) + 1) + 1 ELSE 0
  BY <1>1, <1>2, SubSeqProperties
<1> QED BY <1>1, <1>3

-----------------------------------------------------------------------------
(* What a step may do to the Library.                                      *)

\* A transaction that changes what is listed advances library_revision, unless
\* it opens the Library: then no session has pages or a snapshot from before.
LEMMA CommitsAreSeen ==
  ASSUME Tables, [Next]_vars
  PROVE  Tables' /\ (UNCHANGED library \/ revision' = revision + 1 \/ Reopen)
<1>1. ASSUME UNCHANGED library PROVE Tables'
  BY <1>1 DEF library, Tables
<1>2. CASE UNCHANGED vars
  BY <1>1, <1>2 DEF vars
<1>3. CASE Scan
  <2>1. ASSUME NEW a \in Assets, ScanInserts(a)
        PROVE  Tables' /\ revision' = revision + 1
    <3>1. /\ DOMAIN assets' = DOMAIN assets \union {a}
          /\ collections' = collections /\ revision' = revision + 1
      BY <2>1 DEF ScanInserts, Put, Bump
    <3> QED BY <3>1, FS_AddElement DEF Tables
  <2>2. ASSUME NEW a \in Assets, ScanFinds(a) \/ ScanGoesOn
        PROVE  Tables' /\ revision' = revision + 1
    BY <2>2 DEF ScanFinds, ScanGoesOn, Bump, Tables
  <2>3. CASE ScanGoesOn
    BY <2>3 DEF ScanGoesOn, Bump, Tables
  <2> QED BY <1>3, <2>1, <2>2, <2>3 DEF Scan
<1>4. ASSUME NEW c \in Clients, Edit(c)
      PROVE  Tables' /\ (UNCHANGED library \/ revision' = revision + 1)
  <2>1. ASSUME NEW t \in Titles, UpdateAsset(c, t)
        PROVE  Tables' /\ revision' = revision + 1
    BY <2>1 DEF UpdateAsset, Bump, Tables
  <2> QED BY <1>1, <1>4, <2>1 DEF Edit, GetAsset, Conflict
<1>5. ASSUME NEW c \in Clients, Collect(c)
      PROVE  Tables' /\ (UNCHANGED library \/ revision' = revision + 1)
  <2>1. ASSUME NEW k \in Collections, DeleteCollection(c, k)
        PROVE  Tables' /\ revision' = revision + 1
    <3>1. /\ DOMAIN collections' = DOMAIN collections \ {k}
          /\ assets' = assets /\ revision' = revision + 1
      BY <2>1 DEF DeleteCollection, Bump
    <3> QED BY <3>1, FS_RemoveElement DEF Tables
  <2>2. ASSUME NEW k \in Collections, NEW batch \in Batches, Changes(c, k, batch)
        PROVE  Tables' /\ revision' = revision + 1
    BY <2>2 DEF Changes, AddMembers, RemoveMembers, Bump, Tables
  <2>3. ASSUME NEW k \in Collections, NEW name \in Names, Checks(c, k, name)
        PROVE  UNCHANGED library
    BY <2>3 DEF Checks, CheckCreate, CheckRename
  <2> QED BY <1>1, <1>5, <2>1, <2>2, <2>3 DEF Collect, Changes, Checks
<1>6. ASSUME NEW c \in Clients, Page(c) \/ Prove(c) PROVE UNCHANGED library
  BY <1>6 DEF Page, FirstPage, NextPage, QueryRefused, CloseQuery,
              Prove, CanonicalDigest, FindSnapshot, DigestIsOld
<1>7. ASSUME NEW s \in Sessions, Answer(s)
      PROVE  Tables' /\ (UNCHANGED library \/ revision' = revision + 1)
  <2>1. CASE InsertCollection(s)
    <3>1. \/ UNCHANGED library
          \/ /\ DOMAIN collections' = DOMAIN collections \union {doing[s].to}
             /\ assets' = assets /\ revision' = revision + 1
      BY <2>1 DEF InsertCollection, Put, Bump
    <3> QED BY <1>1, <3>1, FS_AddElement DEF Tables
  <2>2. CASE UpdateName(s)
    <3>1. \/ UNCHANGED library
          \/ /\ DOMAIN collections' = DOMAIN collections
             /\ assets' = assets /\ revision' = revision + 1
      BY <2>2 DEF UpdateName, Bump
    <3> QED BY <1>1, <3>1 DEF Tables
  <2>3. CASE WriteFails(s) \/ PageVerified(s)
    BY <1>1, <2>3 DEF WriteFails, PageVerified
  <2> QED BY <1>7, <2>1, <2>2, <2>3 DEF Answer
<1>8. CASE Reopen
  BY <1>8 DEF Reopen, Tables
<1> QED BY <1>1, <1>2, <1>3, <1>4, <1>5, <1>6, <1>7, <1>8 DEF Next

LEMMA InitTables == Init => Tables
<1> SUFFICES ASSUME Init PROVE Tables
    OBVIOUS
<1>1. DOMAIN assets = FirstAssets
  BY DEF Init
<1>2. DOMAIN collections = DOMAIN FirstNames
  BY DEF Init
<1> QED BY <1>1, <1>2, CurationAssumption DEF Tables, Init

\* What is listed from the Library as it was is listed still.
LEMMA SameLibrary ==
  ASSUME UNCHANGED library
  PROVE  Projection' = Projection /\ \A q : Listing(q)' = Listing(q)
<1>1. Projection' = Projection
  BY DEF library, Projection, Ordered, InOrder
<1>2. ASSUME NEW q PROVE Listing(q)' = Listing(q)
  BY DEF library, Listing, Selected, InOrder
<1> QED BY <1>1, <1>2

-----------------------------------------------------------------------------
(* The pages of a query.                                                   *)

LEMMA OnlyReadersPage ==
  ASSUME [Next]_vars
  PROVE  UNCHANGED pages \/ Reopen \/ \E c \in Clients : Page(c)
<1>1. CASE UNCHANGED vars \/ Scan
  BY <1>1 DEF vars, readers, Scan, ScanInserts, ScanFinds, ScanGoesOn
<1>2. ASSUME NEW c \in Clients, Edit(c) \/ Prove(c) PROVE UNCHANGED pages
  BY <1>2 DEF Edit, GetAsset, UpdateAsset, Conflict, Prove, CanonicalDigest,
              FindSnapshot, DigestIsOld, readers
<1>3. ASSUME NEW c \in Clients, Collect(c) PROVE UNCHANGED pages
  BY <1>3 DEF Collect, CheckCreate, CheckRename, DeleteCollection, AddMembers,
              RemoveMembers, readers
<1>4. ASSUME NEW s \in Sessions, Answer(s) PROVE UNCHANGED pages
  BY <1>4 DEF Answer, InsertCollection, UpdateName, WriteFails, PageVerified, readers
<1> QED BY <1>1, <1>2, <1>3, <1>4 DEF Next

\* What PagesInv says of one client.
Paged(c) ==
  /\ DOMAIN pages[c] = {"query", "revision", "total", "items", "whole"}
  /\ Begun(pages[c].items, pages[c].whole)
  /\ pages[c].total = Len(pages[c].whole)
  /\ pages[c].revision \in 0 .. revision
  /\ pages[c].revision = revision => pages[c].whole = Listing(pages[c].query)

LEMMA FirstPaged ==
  ASSUME Tables, PagesInv, NEW c \in Clients, NEW q, FirstPage(c, q)
  PROVE  Paged(c)' /\ \E v : pages' = [pages EXCEPT ![c] = v]
<1> DEFINE all == Listing(q)
<1>1. /\ UNCHANGED library
      /\ \E n \in Fitting(Len(all)) :
           pages' = [pages EXCEPT ![c] =
             [query |-> q, revision |-> revision, total |-> Len(all),
              items |-> SubSeq(all, 1, n), whole |-> all]]
  BY DEF FirstPage
<1>2. PICK n \in Fitting(Len(all)) :
        pages' = [pages EXCEPT ![c] =
          [query |-> q, revision |-> revision, total |-> Len(all),
           items |-> SubSeq(all, 1, n), whole |-> all]]
  BY <1>1
<1>3. Begun(<< >>, all) /\ all \in Seq(Range(all)) /\ Len(all) \in Nat /\ Len(<< >>) = 0
  BY ListingListed, LenProperties, EmptySeq DEF Begun
<1>4. all' = all
  BY <1>1, SameLibrary
<1> HIDE DEF all
<1>5. n \in 0 .. Len(all)
  BY <1>3, FittingIsLeft
<1>6. Begun(SubSeq(all, 1, n), all)
  <2>1. Begun(<< >> \o SubSeq(SubSeq(all, 1, Len(all)), 1, n), all)
    <3>1. Len(<< >>) + 1 = 1 /\ n \in 0 .. Len(all) - Len(<< >>)
      BY <1>3, <1>5
    <3> QED BY <1>3, <3>1, BegunGrows
  <2>2. SubSeq(all, 1, Len(all)) = all
    BY <1>3, SubSeqFull
  <2>3. \A i \in 1 .. n : all[i] \in Range(all)
    BY <1>3, <1>5, ElementOfSeq
  <2>4. SubSeq(all, 1, n) \in Seq(Range(all))
    BY <1>5, <2>3, SubSeqProperties
  <2> QED BY <2>1, <2>2, <2>4, ConcatEmptySeq
<1>7. pages'[c] = [query |-> q, revision |-> revision, total |-> Len(all),
                    items |-> SubSeq(all, 1, n), whole |-> all]
  BY <1>2 DEF PagesInv
<1>8. DOMAIN pages'[c] = {"query", "revision", "total", "items", "whole"}
  BY <1>7
<1>9. /\ pages'[c].query = q /\ pages'[c].revision = revision /\ pages'[c].whole = all
      /\ pages'[c].total = Len(all) /\ pages'[c].items = SubSeq(all, 1, n)
  <2>1. PICK items, total : items = SubSeq(all, 1, n) /\ total = Len(all)
    OBVIOUS
  <2>2. pages'[c] = [query |-> q, revision |-> revision, total |-> total,
                     items |-> items, whole |-> all]
    BY <1>7, <2>1
  <2>3. /\ pages'[c].query = q /\ pages'[c].revision = revision /\ pages'[c].whole = all
        /\ pages'[c].total = total /\ pages'[c].items = items
    BY <2>2
  <2> QED BY <2>1, <2>3
<1>10. revision' = revision /\ revision \in Nat
  BY <1>1 DEF library, Tables
<1>11. Listing(q)' = all
  BY <1>4 DEF all
<1>12. Paged(c)'
  BY <1>6, <1>8, <1>9, <1>10, <1>11 DEF Paged
<1>13. \E v : pages' = [pages EXCEPT ![c] = v]
  BY <1>2
<1> QED BY <1>12, <1>13

LEMMA NextPaged ==
  ASSUME Tables, PagesInv, NEW c \in Clients, NextPage(c)
  PROVE  Paged(c)' /\ \E v : pages' = [pages EXCEPT ![c] = v]
<1>1. PICK q : q = pages[c].query
  OBVIOUS
<1>2. PICK all, some : all = Listing(q) /\ some = pages[c].items
  OBVIOUS
<1> DEFINE rest == SubSeq(all, Len(some) + 1, Len(all))
<1>3. /\ UNCHANGED library /\ pages[c] # Nothing /\ pages[c].revision = revision
      /\ \E n \in Fitting(Len(rest)) :
           pages' = [pages EXCEPT ![c].items = @ \o SubSeq(rest, 1, n),
                                  ![c].total = Len(all)]
  BY <1>1, <1>2 DEF NextPage, More, Rest
<1>4. PICK n \in Fitting(Len(rest)) :
        pages' = [pages EXCEPT ![c].items = @ \o SubSeq(rest, 1, n),
                               ![c].total = Len(all)]
  BY <1>3
<1>5. /\ DOMAIN pages = Clients
      /\ DOMAIN pages[c] = {"query", "revision", "total", "items", "whole"}
      /\ Begun(some, all) /\ pages[c].whole = all
      /\ pages[c].revision \in 0 .. revision
  BY <1>1, <1>2, <1>3 DEF PagesInv
<1>6. Listing(q)' = all /\ revision' = revision
  BY <1>2, <1>3, SameLibrary DEF library
<1> DEFINE more == some \o SubSeq(rest, 1, n)
<1>7. Begun(more, all)
  <2>1. Len(rest) \in Nat /\ Len(rest) = Len(all) - Len(some)
    BY <1>5, LenRest
  <2>2. n \in 0 .. Len(all) - Len(some)
    BY <2>1, FittingIsLeft
  <2> QED BY <1>5, <2>2, BegunGrows
<1>8. /\ DOMAIN pages'[c] = DOMAIN pages[c]
      /\ pages'[c].items = more /\ pages'[c].total = Len(all)
      /\ pages'[c].query = q /\ pages'[c].whole = all
      /\ pages'[c].revision = pages[c].revision
  <2> HIDE DEF rest
  <2> QED BY <1>1, <1>2, <1>4, <1>5
<1>9. pages' = [pages EXCEPT ![c] = pages'[c]]
  <2>1. /\ DOMAIN pages' = DOMAIN pages
        /\ \A d \in DOMAIN pages : d # c => pages'[d] = pages[d]
        /\ pages' = [d \in DOMAIN pages' |-> pages'[d]]
    BY <1>4
  <2> QED BY <1>5, <2>1
<1> HIDE DEF more
<1>10. Paged(c)'
  BY <1>3, <1>5, <1>6, <1>7, <1>8 DEF Paged
<1> QED BY <1>9, <1>10

LEMMA PagesInvStep == Tables /\ PagesInv /\ [Next]_vars => PagesInv'
<1> SUFFICES ASSUME Tables, PagesInv, [Next]_vars PROVE PagesInv'
    OBVIOUS
<1>1. ASSUME NEW c \in Clients, pages'[c] = pages[c], pages[c] # Nothing PROVE Paged(c)'
  <2>1. Paged(c)
    BY <1>1 DEF PagesInv, Paged
  <2>2. CASE UNCHANGED library
    <3>1. PICK q : q = pages[c].query
      OBVIOUS
    <3>2. Listing(q)' = Listing(q) /\ revision' = revision
      BY <2>2, SameLibrary DEF library
    <3> QED BY <1>1, <2>1, <3>1, <3>2 DEF Paged
  <2>3. CASE revision' = revision + 1
    BY <1>1, <2>1, <2>3 DEF Paged, Tables
  <2>4. CASE Reopen
    BY <1>1, <2>4 DEF Reopen
  <2> QED BY <2>2, <2>3, <2>4, CommitsAreSeen
<1>2. CASE UNCHANGED pages
  BY <1>1, <1>2 DEF PagesInv, Paged
<1>3. ASSUME NEW c \in Clients, Page(c) PROVE PagesInv'
  <2>1. (pages'[c] # Nothing => Paged(c)') /\ \E v : pages' = [pages EXCEPT ![c] = v]
    <3>1. CASE QueryRefused(c) \/ CloseQuery(c)
      BY <3>1 DEF QueryRefused, CloseQuery, PagesInv
    <3> QED BY <1>3, <3>1, FirstPaged, NextPaged DEF Page
  <2>2. ASSUME NEW d \in Clients, pages'[d] # Nothing PROVE Paged(d)'
    <3>1. CASE d = c
      BY <2>1, <2>2, <3>1
    <3>2. CASE d # c
      BY <1>1, <2>1, <2>2, <3>2 DEF PagesInv
    <3> QED BY <3>1, <3>2
  <2>3. DOMAIN pages' = Clients
    BY <2>1 DEF PagesInv
  <2> QED BY <2>2, <2>3 DEF PagesInv, Paged
<1>4. CASE Reopen
  BY <1>4 DEF Reopen, PagesInv
<1> QED BY <1>2, <1>3, <1>4, OnlyReadersPage

\* Whatever scans, editors and curators commit between two pages of a query, of
\* any number of clients and sessions: a reader's pages are the beginning of what
\* the query selected at the revision of the first, and their total is right
\* (query_assets with expected_library_revision).
THEOREM PagesAreOfOneSnapshot == Spec => []PagesShowOneSnapshot
<1>1. Init => Tables /\ PagesInv
  BY InitTables DEF Init, PagesInv
<1>2. Tables /\ PagesInv /\ [Next]_vars => (Tables /\ PagesInv)'
  BY CommitsAreSeen, PagesInvStep
<1>3. PagesInv => PagesShowOneSnapshot
  BY DEF PagesInv, Begun, PagesShowOneSnapshot
<1> QED BY <1>1, <1>2, <1>3, PTL DEF Spec

-----------------------------------------------------------------------------
(* The canonical digest and its pages.                                     *)

LEMMA OnlyProversRead ==
  ASSUME SnapshotInv, [Next]_vars
  PROVE  \/ UNCHANGED <<cached, proof>> /\ DOMAIN doing' = Sessions
            /\ \A s \in Sessions : Doing(s, "page")' => doing'[s] = doing[s]
         \/ Reopen
         \/ \E c \in Clients : Prove(c)
         \/ \E s \in Sessions : PageVerified(s)
<1> DEFINE Away == /\ UNCHANGED <<cached, proof>> /\ DOMAIN doing' = Sessions
                   /\ \A s \in Sessions : Doing(s, "page")' => doing'[s] = doing[s]
<1>1. ASSUME UNCHANGED <<cached, proof, doing>> PROVE Away
  BY <1>1 DEF SnapshotInv
<1>2. CASE UNCHANGED vars \/ Scan
  BY <1>1, <1>2 DEF vars, readers, Scan, ScanInserts, ScanFinds, ScanGoesOn
<1>3. ASSUME NEW c \in Clients, Edit(c) \/ Page(c) PROVE Away
  BY <1>1, <1>3 DEF Edit, GetAsset, UpdateAsset, Conflict, Page, FirstPage, NextPage,
                    QueryRefused, CloseQuery, Rests
<1>4. ASSUME NEW c \in Clients, Collect(c) PROVE Away
  <2>1. ASSUME NEW k \in Collections, NEW name \in Names, Checks(c, k, name) PROVE Away
    <3>1. \E v : v.kind # "page" /\ doing' = [doing EXCEPT ![SessionOf[c]] = v]
      <4>1. [kind |-> "create", to |-> k, name |-> name].kind # "page"
        OBVIOUS
      <4>2. [kind |-> "rename", to |-> k, name |-> name,
             revision |-> collections[k].revision].kind # "page"
        OBVIOUS
      <4> QED BY <2>1, <4>1, <4>2 DEF Checks, CheckCreate, CheckRename
    <3>2. UNCHANGED <<cached, proof>>
      BY <2>1 DEF Checks, CheckCreate, CheckRename, readers
    <3> QED BY <3>1, <3>2 DEF SnapshotInv, Doing
  <2>2. ASSUME NEW k \in Collections, NEW batch \in Batches,
               DeleteCollection(c, k) \/ Changes(c, k, batch)
        PROVE  Away
    BY <1>1, <2>2 DEF DeleteCollection, Changes, AddMembers, RemoveMembers, Rests, readers
  <2>3. ASSUME NEW k \in Collections, DeleteCollection(c, k) PROVE Away
    BY <1>1, <2>3 DEF DeleteCollection, Rests, readers
  <2> QED BY <1>4, <2>1, <2>2, <2>3 DEF Collect, Checks, Changes
<1>5. ASSUME NEW s \in Sessions, InsertCollection(s) \/ UpdateName(s) \/ WriteFails(s)
      PROVE  Away
  <2>1. doing' = [doing EXCEPT ![s] = Nothing] /\ UNCHANGED <<cached, proof>>
    BY <1>5 DEF InsertCollection, UpdateName, WriteFails, Done, readers
  <2> QED BY <2>1 DEF SnapshotInv, Doing
<1> QED BY <1>2, <1>3, <1>4, <1>5 DEF Next, Answer

\* What SnapshotInv says of one session, and what ProofInv says of one client.
Serving(s) ==
  Doing(s, "page") =>
    /\ doing[s].client \in Clients /\ SessionOf[doing[s].client] = s
    /\ doing[s].entity \in Entities
    /\ proof[doing[s].client] # Nothing
    /\ Fresh(s) /\ cached[s].digest = proof[doing[s].client].digest
Proved(c) ==
  proof[c] # Nothing =>
    /\ DOMAIN proof[c] = {"digest", "read"} /\ DOMAIN proof[c].read = Entities
    /\ \A e \in Entities : Begun(proof[c].read[e], proof[c].digest[e])

LEMMA ProofInvParts ==
  ProofInv <=> /\ DOMAIN cached = Sessions /\ DOMAIN doing = Sessions
               /\ DOMAIN proof = Clients
               /\ \A s \in Sessions : (cached[s] # Nothing => Fresh(s)) /\ Serving(s)
               /\ \A c \in Clients : Proved(c)
BY DEF ProofInv, SnapshotInv, Serving, Proved

\* No commit makes a snapshot that a session keeps say more than it did, and
\* who has one, or is in the middle of a command, has not just been opened.
LEMMA SnapshotsAge ==
  ASSUME Tables, [Next]_vars, NEW s \in Sessions, Fresh(s), cached'[s] = cached[s],
         cached'[s] # Nothing \/ doing'[s] # Nothing
  PROVE  Fresh(s)'
<1>1. CASE UNCHANGED library
  BY <1>1, SameLibrary DEF library, Fresh
<1>2. CASE revision' = revision + 1
  BY <1>2 DEF Fresh, Tables
<1> QED BY <1>1, <1>2, CommitsAreSeen DEF Reopen

LEMMA AwayStep ==
  ASSUME Tables, ProofInv, [Next]_vars, UNCHANGED <<cached, proof>>, DOMAIN doing' = Sessions,
         \A s \in Sessions : Doing(s, "page")' => doing'[s] = doing[s]
  PROVE  ProofInv'
<1>1. ASSUME NEW s \in Sessions, cached'[s] # Nothing PROVE Fresh(s)'
  BY <1>1, ProofInvParts, SnapshotsAge
<1>2. ASSUME NEW s \in Sessions PROVE Serving(s)'
  <2> SUFFICES ASSUME Doing(s, "page")'
      PROVE  /\ doing'[s].client \in Clients /\ SessionOf[doing'[s].client] = s
             /\ doing'[s].entity \in Entities
             /\ proof'[doing'[s].client] # Nothing
             /\ Fresh(s)' /\ cached'[s].digest = proof'[doing'[s].client].digest
      BY DEF Serving
  <2>1. doing'[s] = doing[s] /\ Doing(s, "page")
    BY DEF Doing
  <2>2. Serving(s)
    BY ProofInvParts
  <2>3. Fresh(s)'
    BY <2>1, <2>2, SnapshotsAge DEF Serving, Doing
  <2> QED BY <2>1, <2>2, <2>3 DEF Serving
<1>3. ASSUME NEW c \in Clients PROVE Proved(c)'
  BY ProofInvParts DEF Proved
<1> QED BY <1>1, <1>2, <1>3, ProofInvParts DEF ProofInv, SnapshotInv, Serving, Proved

LEMMA DigestStep ==
  ASSUME Tables, ProofInv, [Next]_vars, NEW c \in Clients, CanonicalDigest(c)
  PROVE  ProofInv'
<1> DEFINE s == SessionOf[c]
<1>1. PICK now : now = Projection
  OBVIOUS
<1>2. /\ UNCHANGED library /\ doing' = doing /\ doing[s] = Nothing /\ s \in Sessions
      /\ cached' = [cached EXCEPT ![s] = [digest |-> now, revision |-> revision]]
      /\ proof' = [proof EXCEPT ![c] = [digest |-> now, read |-> [e \in Entities |-> << >>]]]
  BY <1>1, CurationAssumption DEF CanonicalDigest, Idle
<1>3. revision' = revision /\ revision \in Nat /\ Projection' = now
  BY <1>1, <1>2, SameLibrary DEF library, Tables
<1>4. DOMAIN cached = Sessions /\ DOMAIN doing = Sessions /\ DOMAIN proof = Clients
  BY ProofInvParts
<1>5. ASSUME NEW t \in Sessions, cached'[t] # Nothing PROVE Fresh(t)'
  <2>1. CASE t = s
    <3>1. cached'[s] = [digest |-> now, revision |-> revision]
      BY <1>2, <1>4
    <3>2. cached'[s].digest = now /\ cached'[s].revision = revision
      BY <3>1
    <3> QED BY <1>3, <2>1, <3>2 DEF Fresh
  <2>2. CASE t # s
    BY <1>2, <1>4, <1>5, <2>2, ProofInvParts, SnapshotsAge
  <2> QED BY <2>1, <2>2
<1>6. ASSUME NEW t \in Sessions PROVE Serving(t)'
  <2>1. CASE t = s
    BY <1>2, <2>1 DEF Serving, Doing
  <2>2. CASE t # s
    <3>1. Serving(t)
      BY ProofInvParts
    <3>2. Doing(t, "page") => doing[t].client # c
      BY <2>2, <3>1 DEF Serving
    <3>3. cached'[t] = cached[t] /\ doing'[t] = doing[t]
      BY <1>2, <1>4, <2>2
    <3>4. Doing(t, "page") => Fresh(t)'
      BY <3>1, <3>3, SnapshotsAge DEF Serving, Doing
    <3> QED BY <1>2, <1>4, <3>1, <3>2, <3>3, <3>4 DEF Serving, Doing
  <2> QED BY <2>1, <2>2
<1>7. ASSUME NEW d \in Clients PROVE Proved(d)'
  <2>1. CASE d = c
    <3>1. proof'[c] = [digest |-> now, read |-> [e \in Entities |-> << >>]]
      BY <1>2, <1>4
    <3>2. /\ DOMAIN proof'[c] = {"digest", "read"} /\ DOMAIN proof'[c].read = Entities
          /\ proof'[c].digest = now /\ \A e \in Entities : proof'[c].read[e] = << >>
      BY <3>1
    <3>3. \A e \in Entities : Begun(<< >>, now[e])
      BY <1>1, ProjectionListed
    <3> QED BY <2>1, <3>2, <3>3 DEF Proved
  <2>2. CASE d # c
    BY <1>2, <1>4, <2>2, ProofInvParts DEF Proved
  <2> QED BY <2>1, <2>2
<1>8. DOMAIN cached' = Sessions /\ DOMAIN doing' = Sessions /\ DOMAIN proof' = Clients
  BY <1>2, <1>4
<1> QED BY <1>5, <1>6, <1>7, <1>8 DEF ProofInv, SnapshotInv, Serving, Proved

LEMMA FindStep ==
  ASSUME Tables, ProofInv, [Next]_vars, NEW c \in Clients, NEW e \in Entities,
         FindSnapshot(c, e)
  PROVE  ProofInv'
<1> DEFINE s == SessionOf[c]
<1>1. PICK now, v : now = Projection /\ v = [kind |-> "page", client |-> c, entity |-> e]
  OBVIOUS
<1>2. /\ UNCHANGED <<library, proof>> /\ s \in Sessions /\ proof[c] # Nothing
      /\ doing' = [doing EXCEPT ![s] = v]
      /\ \/ /\ cached[s] # Nothing /\ cached[s].digest = proof[c].digest
            /\ cached' = cached
         \/ /\ proof[c].digest = now
            /\ cached' = [cached EXCEPT ![s] = [digest |-> now, revision |-> revision]]
  BY <1>1, CurationAssumption DEF FindSnapshot, Unread, readers
<1>3. revision' = revision /\ revision \in Nat /\ Projection' = now
  BY <1>1, <1>2, SameLibrary DEF library, Tables
<1>4. DOMAIN cached = Sessions /\ DOMAIN doing = Sessions /\ DOMAIN proof = Clients
  BY ProofInvParts
<1>5. cached'[s].digest = proof[c].digest /\ Fresh(s)'
  <2>1. CASE /\ cached[s] # Nothing /\ cached[s].digest = proof[c].digest
             /\ cached' = cached
    BY <1>2, <2>1, ProofInvParts, SnapshotsAge
  <2>2. CASE /\ proof[c].digest = now
             /\ cached' = [cached EXCEPT ![s] = [digest |-> now, revision |-> revision]]
    <3>1. cached'[s] = [digest |-> now, revision |-> revision]
      BY <1>2, <1>4, <2>2
    <3>2. cached'[s].digest = now /\ cached'[s].revision = revision
      BY <3>1
    <3> QED BY <1>3, <2>2, <3>2 DEF Fresh
  <2> QED BY <1>2, <2>1, <2>2
<1>6. v.client = c /\ v.entity = e
  BY <1>1
<1>7. ASSUME NEW t \in Sessions, t # s, Fresh(t),
             cached'[t] # Nothing \/ doing'[t] # Nothing
      PROVE  Fresh(t)'
  BY <1>2, <1>4, <1>7, SnapshotsAge
<1>8. ASSUME NEW t \in Sessions PROVE Serving(t)'
  <2>1. CASE t = s
    <3>1. doing'[s].client = c /\ doing'[s].entity = e /\ proof' = proof
      BY <1>2, <1>4, <1>6
    <3> QED BY <1>2, <1>5, <2>1, <3>1 DEF Serving
  <2>2. CASE t # s
    <3>1. Serving(t) /\ doing'[t] = doing[t] /\ cached'[t] = cached[t] /\ proof' = proof
      BY <1>2, <1>4, <2>2, ProofInvParts
    <3>2. Doing(t, "page") => Fresh(t)'
      BY <1>7, <2>2, <3>1 DEF Serving, Doing
    <3> QED BY <3>1, <3>2 DEF Serving, Doing
  <2> QED BY <2>1, <2>2
<1>9. \A d \in Clients : Proved(d)'
  BY <1>2, ProofInvParts DEF Proved
<1>10. \A t \in Sessions : cached'[t] # Nothing => Fresh(t)'
  BY <1>2, <1>4, <1>5, <1>7, ProofInvParts
<1>11. DOMAIN cached' = Sessions /\ DOMAIN doing' = Sessions /\ DOMAIN proof' = Clients
  BY <1>2, <1>4
<1> QED BY <1>8, <1>9, <1>10, <1>11 DEF ProofInv, SnapshotInv, Serving, Proved

\* One prover's pages change while its session keeps its snapshot and serves
\* no other page.
LEMMA OneProverStep ==
  ASSUME Tables, ProofInv, [Next]_vars, NEW c \in Clients, UNCHANGED cached,
         DOMAIN doing' = Sessions, ~Doing(SessionOf[c], "page")',
         \A t \in Sessions : t # SessionOf[c] => doing'[t] = doing[t],
         DOMAIN proof' = Clients, \A d \in Clients : d # c => proof'[d] = proof[d],
         Proved(c)'
  PROVE  ProofInv'
<1>1. DOMAIN cached' = Sessions
  BY ProofInvParts
<1>2. ASSUME NEW t \in Sessions, Fresh(t), cached'[t] # Nothing \/ doing'[t] # Nothing
      PROVE  Fresh(t)'
  BY <1>2, SnapshotsAge
<1>3. \A t \in Sessions : cached'[t] # Nothing => Fresh(t)'
  BY <1>2, ProofInvParts
<1>4. ASSUME NEW t \in Sessions PROVE Serving(t)'
  <2>1. CASE t = SessionOf[c]
    BY <2>1 DEF Serving
  <2>2. CASE t # SessionOf[c]
    <3>1. Serving(t) /\ doing'[t] = doing[t] /\ cached'[t] = cached[t]
      BY <2>2, ProofInvParts
    <3>2. Doing(t, "page") => Fresh(t)'
      BY <1>2, <3>1 DEF Serving, Doing
    <3>3. Doing(t, "page") => proof'[doing[t].client] = proof[doing[t].client]
      BY <2>2, <3>1 DEF Serving
    <3> QED BY <3>1, <3>2, <3>3 DEF Serving, Doing
  <2> QED BY <2>1, <2>2
<1>5. ASSUME NEW d \in Clients PROVE Proved(d)'
  BY ProofInvParts DEF Proved
<1> QED BY <1>1, <1>3, <1>4, <1>5 DEF ProofInv, SnapshotInv, Serving, Proved

LEMMA OldStep ==
  ASSUME Tables, ProofInv, [Next]_vars, NEW c \in Clients, NEW e \in Entities,
         DigestIsOld(c, e)
  PROVE  ProofInv'
<1>1. /\ doing' = doing /\ cached' = cached /\ doing[SessionOf[c]] = Nothing
      /\ proof' = [proof EXCEPT ![c] = Nothing]
  BY DEF DigestIsOld, Idle, Rests
<1>2. DOMAIN doing = Sessions /\ DOMAIN proof = Clients
  BY ProofInvParts
<1>3. Proved(c)'
  BY <1>1, <1>2 DEF Proved
<1>4. ~Doing(SessionOf[c], "page")'
  BY <1>1 DEF Doing
<1> QED BY <1>1, <1>2, <1>3, <1>4, OneProverStep

LEMMA PageStep ==
  ASSUME Tables, ProofInv, [Next]_vars, NEW s \in Sessions, PageVerified(s)
  PROVE  ProofInv'
<1>1. PICK c, e : c = doing[s].client /\ e = doing[s].entity
  OBVIOUS
<1>2. PICK all : all = Projection[e]
  OBVIOUS
<1> DEFINE some == proof[c].read[e]
           rest == SubSeq(all, Len(some) + 1, Len(all))
<1>3. /\ Doing(s, "page") /\ cached' = cached /\ doing' = [doing EXCEPT ![s] = Nothing]
      /\ \/ /\ cached[s].revision = revision
            /\ \E n \in Fitting(Len(rest)) :
                 proof' = [proof EXCEPT ![c].read[e] = @ \o SubSeq(rest, 1, n)]
         \/ proof' = [proof EXCEPT ![c] = Nothing]
  BY <1>1, <1>2 DEF PageVerified, Done
<1>4. DOMAIN doing = Sessions /\ DOMAIN proof = Clients
  BY ProofInvParts
<1>5. /\ c \in Clients /\ SessionOf[c] = s /\ e \in Entities /\ proof[c] # Nothing
      /\ Fresh(s) /\ cached[s].digest = proof[c].digest
  BY <1>1, <1>3, ProofInvParts DEF Serving
<1>6. /\ DOMAIN proof[c] = {"digest", "read"} /\ DOMAIN proof[c].read = Entities
      /\ \A f \in Entities : Begun(proof[c].read[f], proof[c].digest[f])
  BY <1>5, ProofInvParts DEF Proved
<1>7. ASSUME cached[s].revision = revision, NEW n \in Fitting(Len(rest)),
             proof' = [proof EXCEPT ![c].read[e] = @ \o SubSeq(rest, 1, n)]
      PROVE  Proved(c)'
  <2>1. proof[c].digest[e] = all
    BY <1>2, <1>5, <1>7 DEF Fresh
  <2>2. Begun(some, all)
    BY <1>5, <1>6, <2>1
  <2> DEFINE more == some \o SubSeq(rest, 1, n)
  <2>3. Begun(more, all)
    <3>1. Len(rest) \in Nat /\ Len(rest) = Len(all) - Len(some)
      BY <2>2, LenRest
    <3>2. n \in 0 .. Len(all) - Len(some)
      BY <1>7, <3>1, FittingIsLeft
    <3> HIDE DEF some
    <3> QED BY <2>2, <3>2, BegunGrows DEF rest
  <2>4. proof' = [proof EXCEPT ![c].read[e] = more]
    BY <1>7
  <2> HIDE DEF more
  <2>5. /\ DOMAIN proof'[c] = DOMAIN proof[c] /\ proof'[c].digest = proof[c].digest
        /\ proof'[c].read = [proof[c].read EXCEPT ![e] = more]
    BY <1>4, <1>5, <1>6, <2>4
  <2>6. ASSUME NEW f \in Entities PROVE Begun(proof'[c].read[f], proof'[c].digest[f])
    <3>1. CASE f = e
      BY <1>6, <2>1, <2>3, <2>5, <3>1
    <3>2. CASE f # e
      BY <1>6, <2>5, <3>2
    <3> QED BY <3>1, <3>2
  <2> QED BY <1>6, <2>5, <2>6 DEF Proved
<1>8. Proved(c)'
  <2>1. CASE proof' = [proof EXCEPT ![c] = Nothing]
    BY <1>4, <1>5, <2>1 DEF Proved
  <2> QED BY <1>3, <1>7, <2>1
<1>9. DOMAIN proof' = Clients /\ \A d \in Clients : d # c => proof'[d] = proof[d]
  BY <1>3, <1>4
<1>10. DOMAIN doing' = Sessions /\ \A t \in Sessions : t # s => doing'[t] = doing[t]
  BY <1>3, <1>4
<1>11. ~Doing(s, "page")'
  BY <1>3, <1>4 DEF Doing
<1> QED BY <1>3, <1>5, <1>8, <1>9, <1>10, <1>11, OneProverStep

LEMMA ProofInvStep == Tables /\ ProofInv /\ [Next]_vars => ProofInv'
<1> SUFFICES ASSUME Tables, ProofInv, [Next]_vars PROVE ProofInv'
    OBVIOUS
<1>1. CASE /\ UNCHANGED <<cached, proof>> /\ DOMAIN doing' = Sessions
           /\ \A s \in Sessions : Doing(s, "page")' => doing'[s] = doing[s]
  BY <1>1, AwayStep
<1>2. ASSUME NEW c \in Clients, Prove(c) PROVE ProofInv'
  BY <1>2, DigestStep, FindStep, OldStep DEF Prove
<1>3. ASSUME NEW s \in Sessions, PageVerified(s) PROVE ProofInv'
  BY <1>3, PageStep
<1>4. SnapshotInv
  BY DEF ProofInv
<1>5. CASE Reopen
  BY <1>5 DEF Reopen, ProofInv, SnapshotInv, Doing
<1> QED BY <1>1, <1>2, <1>3, <1>4, <1>5, OnlyProversRead

\* However many provers share the one snapshot of a session, and whatever
\* commits between its being found and its page being made: what a prover has
\* read under a digest is what the digest was computed from (canonical_page,
\* page_verified).
THEOREM ProofPagesAreOfTheirDigest == Spec => []ProofPagesMatchDigest
<1>1. Init => Tables /\ ProofInv
  BY InitTables DEF Init, ProofInv, SnapshotInv, Doing
<1>2. Tables /\ ProofInv /\ [Next]_vars => (Tables /\ ProofInv)'
  BY CommitsAreSeen, ProofInvStep
<1>3. ProofInv => ProofPagesMatchDigest
  BY CurationAssumption DEF ProofInv, Begun, ProofPagesMatchDigest
<1> QED BY <1>1, <1>2, <1>3, PTL DEF Spec
=============================================================================
