------------------------------- MODULE Curation -------------------------------
(***************************************************************************)
(* Editorial commands and the paged readers of an open Library             *)
(* (crates/reference-core/src/editorial.rs and canonical.rs, with the      *)
(* canonical cache of session.rs).                                         *)
(*                                                                         *)
(* A session answers one command at a time, but the scans of its roots     *)
(* commit on connections of their own between any two transactions, and a  *)
(* reader gets its pages by one command each.  What keeps the pages of one *)
(* reader together is library_revision, which every transaction of an open *)
(* session that changes what is listed advances.  An opening does not: it  *)
(* takes all roots from view under the old revision, and only the end of   *)
(* the sessions before it keeps the two apart.  A transaction reads one    *)
(* snapshot; when it goes on to write after somebody else has committed,   *)
(* SQLite refuses it and the command fails without a trace.  So a          *)
(* transaction is one step, and a command has more steps than one where    *)
(* the code reads before it.                                               *)
(***************************************************************************)
EXTENDS Naturals, Sequences, SequencesExt, FiniteSets, FiniteSetsExt

CONSTANTS
  Assets,          (* identities of assets: numbers, in their order         *)
  Titles,          (* titles and display paths: numbers, in their order     *)
  Collections,     (* identities of collections                             *)
  Names,           (* names of collections                                  *)
  Lower,           (* the lower case of a name                              *)
  Sessions,        (* sessions on the package, one unless the lock was raced *)
  Clients,         (* who sends commands                                    *)
  SessionOf,       (* the session of a client                               *)
  Queries,         (* queries of assets, [collection, available]            *)
  Provers,         (* clients that follow the canonical projection          *)
  Editors,         (* clients that edit assets                              *)
  Readers,         (* clients that page through queries                     *)
  Curators,        (* clients that work on collections                      *)
  FirstAssets,     (* assets of the Library at first                        *)
  FirstNames,      (* names of the collections it has at first              *)
  PageSize,        (* limit of a page                                       *)
  MaxCollections,  (* MAX_COLLECTIONS                                       *)
  MaxMemberships,  (* MAX_ASSET_COLLECTIONS                                 *)
  MaxRevision,     (* bound of the model: library revisions                 *)
  OpenedAt,        (* bound of the model: revisions an opening may find     *)
  Nothing          (* None: no command, no page, no filter                  *)

ASSUME CurationAssumption ==
  /\ Assets \subseteq Nat /\ Titles \subseteq Nat
  /\ SessionOf \in [Clients -> Sessions]
  /\ Provers \union Editors \union Readers \union Curators \subseteq Clients
  /\ FirstAssets \subseteq Assets /\ IsFiniteSet(FirstAssets)
  /\ DOMAIN FirstNames \subseteq Collections
  /\ \A k \in DOMAIN FirstNames : FirstNames[k] \in Names
  /\ \A k, j \in DOMAIN FirstNames : Lower[FirstNames[k]] = Lower[FirstNames[j]] => k = j
  /\ IsFiniteSet(DOMAIN FirstNames) /\ Cardinality(DOMAIN FirstNames) <= MaxCollections
  /\ PageSize \in Nat \ {0} /\ MaxRevision \in Nat
  /\ MaxCollections \in Nat /\ MaxMemberships \in Nat
  /\ Nothing \notin Collections

VARIABLES
  assets,       (* rows of assets, [title, bytes, present, revision]         *)
  collections,  (* rows of collections and their members                     *)
  revision,     (* library_revision                                          *)
  cached,       (* the canonical snapshot a session keeps, or nothing        *)
  doing,        (* the command a session is in the middle of, or nothing     *)
  pages,        (* what a client has of a query, or nothing                  *)
  proof,        (* what it has of the canonical projection, or nothing       *)
  detail,       (* the asset it has read to edit it, or nothing              *)
  \* Observer.
  crossed       (* whether the checks of two sessions preceded both commits  *)

library == <<assets, collections, revision>>
readers == <<pages, proof, detail, crossed>>
vars    == <<library, cached, doing, readers>>

Entities == {"assets", "collections", "memberships"}

\* ORDER BY: the rows of a finite set, each behind those that come before it.
InOrder(S, before) ==
  [n \in 1 .. Cardinality(S) |->
     CHOOSE x \in S : Cardinality({y \in S : <<y, x>> \in before}) = n - 1]

\* What the canonical projection shows of the Library, entity by entity, in
\* the order of its pages.  It leaves out revisions and what is present.
Ordered(S) == InOrder(S, {p \in S \X S : p[1] < p[2]})

Projection ==
  LET members == {m \in (DOMAIN collections) \X (DOMAIN assets) :
                    m[2] \in collections[m[1]].members}
  IN  [assets      |-> [n \in 1 .. Cardinality(DOMAIN assets) |->
                          LET a == Ordered(DOMAIN assets)[n]
                          IN  <<a, assets[a].title, assets[a].bytes>>],
       collections |-> [n \in 1 .. Cardinality(DOMAIN collections) |->
                          LET k == Ordered(DOMAIN collections)[n]
                          IN  <<k, collections[k].name>>],
       memberships |-> InOrder(members, {p \in members \X members :
                         \/ p[1][1] < p[2][1]
                         \/ p[1][1] = p[2][1] /\ p[1][2] < p[2][2]})]

\* query_assets sorted by name: the assets a query selects, in their order.
Selected(q) ==
  {a \in DOMAIN assets :
     /\ q.available => assets[a].present
     /\ q.collection = Nothing \/ a \in collections[q.collection].members}

Listing(q) ==
  InOrder(Selected(q), {p \in Selected(q) \X Selected(q) :
    \/ assets[p[1]].title < assets[p[2]].title
    \/ assets[p[1]].title = assets[p[2]].title /\ p[1] < p[2]})

Exists(q) == q.collection = Nothing \/ q.collection \in DOMAIN collections

Memberships(a) == Cardinality({k \in DOMAIN collections : a \in collections[k].members})

TypeOK ==
  /\ DOMAIN assets \subseteq Assets
  /\ \A a \in DOMAIN assets : assets[a] \in
       [title : Titles, bytes : {0, 1}, present : BOOLEAN, revision : 0 .. MaxRevision]
  /\ DOMAIN collections \subseteq Collections
  /\ \A k \in DOMAIN collections : collections[k] \in
       [name : Names, revision : 0 .. MaxRevision, members : SUBSET DOMAIN assets]
  /\ revision \in 0 .. MaxRevision
  /\ \A s \in Sessions : cached[s] # Nothing => cached[s].revision <= revision
  /\ crossed \in BOOLEAN
  /\ DOMAIN doing = Sessions /\ DOMAIN pages = Clients
  /\ \A c \in Clients : proof[c] # Nothing => c \in Provers
  /\ \A c \in Clients : detail[c] # Nothing => detail[c].asset \in DOMAIN assets

-----------------------------------------------------------------------------
(* Commits.                                                                *)

Bump == revision < MaxRevision /\ revision' = revision + 1

Put(f, x, v) == [y \in DOMAIN f \union {x} |-> IF y = x THEN v ELSE f[y]]

Idle(c) == doing[SessionOf[c]] = Nothing
Rests   == UNCHANGED <<cached, doing>>

\* A scan inserts an asset, finds one changed, absent or back, or only moves
\* its job and root on; binding a root brings its assets back.  A relocation,
\* which changes the path an asset without a title is sorted by, advances the
\* revision as well (flush_batch) and is left out with the sorting by paths.
ScanInserts(a) ==
  /\ a \notin DOMAIN assets
  /\ \E t \in Titles : assets' = Put(assets, a, [title |-> t, bytes |-> 0,
                                                 present |-> TRUE, revision |-> 0])
  /\ Bump /\ UNCHANGED <<collections, cached, doing, readers>>

ScanFinds_Unannounced(a) ==
  /\ a \in DOMAIN assets
  /\ \/ assets' = [assets EXCEPT ![a].bytes = 1 - @] /\ Bump
     \/ assets' = [assets EXCEPT ![a].present = ~@] /\ UNCHANGED revision
  /\ UNCHANGED <<collections, cached, doing, readers>>
ScanFinds(a) ==
  /\ a \in DOMAIN assets
  /\ \/ assets' = [assets EXCEPT ![a].bytes = 1 - @]
     \/ assets' = [assets EXCEPT ![a].present = ~@]
  /\ Bump /\ UNCHANGED <<collections, cached, doing, readers>>

ScanGoesOn == Bump /\ UNCHANGED <<assets, collections, cached, doing, readers>>

\* The sessions end, in the middle of a command if they crash, and the Library
\* is opened again: mark_linked_roots_unbound makes every root wait for its
\* binding and leaves the revision.  Pages are asked for by session, so they
\* end; a digest and an asset's revision are good in the next session, too.
\* An opening that finds no root bound changes nothing and is left out, as is
\* one beside a session that stands, which needs the race of WriterLock.
Reopen ==
  /\ revision \in OpenedAt /\ \E a \in DOMAIN assets : assets[a].present
  /\ assets' = [a \in DOMAIN assets |-> [assets[a] EXCEPT !.present = FALSE]]
  /\ cached' = [s \in Sessions |-> Nothing]
  /\ doing' = [s \in Sessions |-> Nothing]
  /\ pages' = [c \in Clients |-> Nothing]
  /\ UNCHANGED <<collections, revision, proof, detail, crossed>>

-----------------------------------------------------------------------------
(* Assets.                                                                 *)

GetAsset(c, a) ==
  /\ c \in Editors /\ Idle(c) /\ a \in DOMAIN assets
  /\ detail' = [detail EXCEPT ![c] =
       [asset |-> a, title |-> assets[a].title, revision |-> assets[a].revision]]
  /\ Rests /\ UNCHANGED <<library, pages, proof, crossed>>

\* update_asset: the revision the client expects, and a patch of the title.
UpdateAsset_SameRevision(c, t) ==
  /\ Idle(c) /\ detail[c] # Nothing
  /\ LET a == detail[c].asset
     IN  /\ assets[a].revision = detail[c].revision
         /\ assets' = [assets EXCEPT ![a].title = t]
         /\ detail' = [detail EXCEPT ![c].title = t]
  /\ Bump /\ Rests /\ UNCHANGED <<collections, pages, proof, crossed>>
UpdateAsset(c, t) ==
  /\ Idle(c) /\ detail[c] # Nothing
  /\ LET a == detail[c].asset
     IN  /\ assets[a].revision = detail[c].revision
         /\ assets' = [assets EXCEPT ![a].title = t, ![a].revision = @ + 1]
         /\ detail' = [detail EXCEPT ![c].title = t, ![c].revision = @ + 1]
  /\ Bump /\ Rests /\ UNCHANGED <<collections, pages, proof, crossed>>

\* AssetRevisionConflict: the client reads the asset again.
Conflict(c) ==
  /\ Idle(c) /\ detail[c] # Nothing
  /\ assets[detail[c].asset].revision # detail[c].revision
  /\ detail' = [detail EXCEPT ![c] = Nothing]
  /\ Rests /\ UNCHANGED <<library, pages, proof, crossed>>

-----------------------------------------------------------------------------
(* Collections.                                                            *)

\* ensure_collection_name_available: no other collection has the name, in any
\* case.  The table itself only refuses the very same name.
Available_ExactCase(name, other) ==
  \A k \in DOMAIN collections \ {other} : collections[k].name # name
Available(name, other) ==
  \A k \in DOMAIN collections \ {other} : Lower[collections[k].name] # Lower[name]
Unique(name, other) ==
  \A k \in DOMAIN collections \ {other} : collections[k].name # name

\* create_collection checks the name and the count before its transaction.
CheckCreate(c, k, name) ==
  /\ Idle(c) /\ k \notin DOMAIN collections
  /\ Available(name, k) /\ Cardinality(DOMAIN collections) < MaxCollections
  /\ doing' = [doing EXCEPT ![SessionOf[c]] = [kind |-> "create", to |-> k, name |-> name]]
  /\ UNCHANGED <<library, cached, readers>>

\* rename_collection reads the row, its revision and the name before its own.
CheckRename(c, k, name) ==
  /\ Idle(c) /\ k \in DOMAIN collections /\ Available(name, k)
  /\ doing' = [doing EXCEPT ![SessionOf[c]] =
       [kind |-> "rename", to |-> k, name |-> name, revision |-> collections[k].revision]]
  /\ UNCHANGED <<library, cached, readers>>

Doing(s, kind) == doing[s] # Nothing /\ doing[s].kind = kind
Done(s) == doing' = [doing EXCEPT ![s] = Nothing]

\* Another session is between its check and its commit as well.
Meets(s) == \E t \in Sessions \ {s} : Doing(t, "create") \/ Doing(t, "rename")

InsertCollection(s) ==
  /\ Doing(s, "create") /\ Done(s)
  /\ LET k == doing[s].to
     IN  \/ /\ k \notin DOMAIN collections /\ Unique(doing[s].name, k)
            /\ collections' = Put(collections, k,
                 [name |-> doing[s].name, revision |-> 0, members |-> {}])
            /\ Bump /\ UNCHANGED assets
         \/ /\ k \in DOMAIN collections \/ ~Unique(doing[s].name, k)
            /\ UNCHANGED library
  /\ crossed' = (crossed \/ Meets(s))
  /\ UNCHANGED <<cached, pages, proof, detail>>

\* UPDATE ... WHERE revision = expected.  The number of rows is not looked at:
\* the revision of the Library advances even when there is none.
UpdateName_AnyRevision(s) ==
  /\ Doing(s, "rename") /\ Done(s)
  /\ LET k == doing[s].to
     IN  \/ /\ k \in DOMAIN collections /\ Unique(doing[s].name, k)
            /\ collections' = [collections EXCEPT ![k].name = doing[s].name,
                                                  ![k].revision = @ + 1]
            /\ Bump /\ UNCHANGED assets
         \/ /\ k \notin DOMAIN collections \/ ~Unique(doing[s].name, k)
            /\ UNCHANGED library
  /\ crossed' = (crossed \/ Meets(s))
  /\ UNCHANGED <<cached, pages, proof, detail>>
UpdateName(s) ==
  /\ Doing(s, "rename") /\ Done(s)
  /\ LET k == doing[s].to
         same == k \in DOMAIN collections /\ collections[k].revision = doing[s].revision
     IN  \/ /\ same /\ Unique(doing[s].name, k)
            /\ collections' = [collections EXCEPT ![k].name = doing[s].name,
                                                  ![k].revision = @ + 1]
            /\ Bump /\ UNCHANGED assets
         \/ /\ k \in DOMAIN collections /\ ~same
            /\ Bump /\ UNCHANGED <<assets, collections>>
         \/ /\ k \notin DOMAIN collections \/ (same /\ ~Unique(doing[s].name, k))
            /\ UNCHANGED library
  /\ crossed' = (crossed \/ Meets(s))
  /\ UNCHANGED <<cached, pages, proof, detail>>

\* The transaction is refused, as when another connection keeps the database
\* busy: the command fails without a trace.
WriteFails(s) ==
  /\ Doing(s, "create") \/ Doing(s, "rename")
  /\ Done(s)
  /\ UNCHANGED <<library, cached, readers>>

DeleteCollection(c, k) ==
  /\ Idle(c) /\ k \in DOMAIN collections
  /\ collections' = [j \in DOMAIN collections \ {k} |-> collections[j]]
  /\ Bump /\ Rests /\ UNCHANGED <<assets, readers>>

\* set_collection_membership: a batch, all of it or nothing.  Only a batch that
\* changes a membership advances the revisions.
AddMembers(c, k, batch) ==
  /\ Idle(c) /\ k \in DOMAIN collections /\ batch \subseteq DOMAIN assets
  /\ ~(batch \subseteq collections[k].members)
  /\ \A a \in batch \ collections[k].members : Memberships(a) < MaxMemberships
  /\ collections' = [collections EXCEPT ![k].members = @ \union batch,
                                        ![k].revision = @ + 1]
  /\ Bump /\ Rests /\ UNCHANGED <<assets, readers>>

RemoveMembers(c, k, batch) ==
  /\ Idle(c) /\ k \in DOMAIN collections /\ batch \subseteq DOMAIN assets
  /\ batch \intersect collections[k].members # {}
  /\ collections' = [collections EXCEPT ![k].members = @ \ batch,
                                        ![k].revision = @ + 1]
  /\ Bump /\ Rests /\ UNCHANGED <<assets, readers>>

-----------------------------------------------------------------------------
(* The pages of a query.                                                   *)

\* byte_bound_asset_page: as many items, of those the limit allows, as fit a
\* frame, and at least one.
Fitting_LastLeftOut(rest) == IF rest < 2 THEN {0} ELSE 1 .. Min({PageSize, rest - 1})
Fitting(rest) == IF rest = 0 THEN {0} ELSE 1 .. Min({PageSize, rest})

\* The first page comes with the revision that the next ones must expect; the
\* history "whole" is what the query selects at that revision.
FirstPage(c, q) ==
  /\ c \in Readers /\ Idle(c) /\ pages[c] = Nothing /\ Exists(q)
  /\ \E n \in Fitting(Len(Listing(q))) :
       pages' = [pages EXCEPT ![c] =
         [query |-> q, revision |-> revision, total |-> Len(Listing(q)),
          items |-> SubSeq(Listing(q), 1, n), whole |-> Listing(q)]]
  /\ Rests /\ UNCHANGED <<library, proof, detail, crossed>>

More(c) == pages[c] # Nothing /\ Len(pages[c].items) < pages[c].total

Rest(c) == LET all == Listing(pages[c].query)
           IN  SubSeq(all, Len(pages[c].items) + 1, Len(all))

\* At next_offset, with expected_library_revision.
NextPage(c) ==
  /\ Idle(c) /\ More(c) /\ Exists(pages[c].query) /\ pages[c].revision = revision
  /\ \E n \in Fitting(Len(Rest(c))) :
       pages' = [pages EXCEPT ![c].items = @ \o SubSeq(Rest(c), 1, n),
                              ![c].total = Len(Listing(pages[c].query))]
  /\ Rests /\ UNCHANGED <<library, proof, detail, crossed>>

\* QuerySnapshotChanged or CollectionNotFound: the reader starts anew.
QueryRefused(c) ==
  /\ Idle(c) /\ More(c)
  /\ ~Exists(pages[c].query) \/ pages[c].revision # revision
  /\ pages' = [pages EXCEPT ![c] = Nothing]
  /\ Rests /\ UNCHANGED <<library, proof, detail, crossed>>

\* The reader has seen all and asks again, sooner or later.
CloseQuery(c) ==
  /\ pages[c] # Nothing /\ ~More(c)
  /\ pages' = [pages EXCEPT ![c] = Nothing]
  /\ Rests /\ UNCHANGED <<library, proof, detail, crossed>>

-----------------------------------------------------------------------------
(* The canonical digest and its pages.  A digest is as good as what it was *)
(* computed from.                                                          *)

Unread(c, e) == proof[c] # Nothing /\ Len(proof[c].read[e]) < Len(proof[c].digest[e])
Proving(c)   == \E e \in Entities : Unread(c, e)

CanonicalDigest_KeepsSnapshot(c) ==
  /\ c \in Provers /\ Idle(c) /\ ~Proving(c)
  /\ cached' = IF cached[SessionOf[c]] = Nothing \/ cached[SessionOf[c]].digest # Projection
               THEN [cached EXCEPT ![SessionOf[c]] = [digest |-> Projection, revision |-> revision]]
               ELSE cached
  /\ proof' = [proof EXCEPT ![c] =
       [digest |-> Projection, read |-> [e \in Entities |-> << >>]]]
  /\ UNCHANGED <<library, doing, pages, detail, crossed>>
CanonicalDigest(c) ==
  /\ c \in Provers /\ Idle(c) /\ ~Proving(c)
  /\ cached' = [cached EXCEPT ![SessionOf[c]] =
       [digest |-> Projection, revision |-> revision]]
  /\ proof' = [proof EXCEPT ![c] =
       [digest |-> Projection, read |-> [e \in Entities |-> << >>]]]
  /\ UNCHANGED <<library, doing, pages, detail, crossed>>

\* canonical_page, first: the session's snapshot when it has the digest asked
\* for, or else the digest of what the Library shows now.
FindSnapshot_KeepsRevision(c, e) ==
  LET s == SessionOf[c] IN
  /\ Idle(c) /\ Unread(c, e)
  /\ proof[c].digest \in {Projection}
       \union (IF cached[s] = Nothing THEN {} ELSE {cached[s].digest})
  /\ cached' = [cached EXCEPT ![s] = [digest |-> proof[c].digest, revision |-> revision]]
  /\ doing' = [doing EXCEPT ![s] = [kind |-> "page", client |-> c, entity |-> e]]
  /\ UNCHANGED <<library, readers>>
FindSnapshot(c, e) ==
  LET s   == SessionOf[c]
      hit == cached[s] # Nothing /\ cached[s].digest = proof[c].digest
  IN  /\ Idle(c) /\ Unread(c, e)
      /\ hit \/ proof[c].digest = Projection
      /\ cached' = IF hit THEN cached ELSE
           [cached EXCEPT ![s] = [digest |-> Projection, revision |-> revision]]
      /\ doing' = [doing EXCEPT ![s] = [kind |-> "page", client |-> c, entity |-> e]]
      /\ UNCHANGED <<library, readers>>

\* CanonicalSnapshotChanged: the prover asks for a new digest.
DigestIsOld(c, e) ==
  LET s == SessionOf[c] IN
  /\ Idle(c) /\ Unread(c, e) /\ proof[c].digest # Projection
  /\ cached[s] # Nothing => cached[s].digest # proof[c].digest
  /\ proof' = [proof EXCEPT ![c] = Nothing]
  /\ Rests /\ UNCHANGED <<library, pages, detail, crossed>>

\* Then page_verified, in a transaction of its own.
PageVerified(s) ==
  /\ Doing(s, "page") /\ Done(s)
  /\ LET c    == doing[s].client
         e    == doing[s].entity
         read == Len(proof[c].read[e])
         rest == SubSeq(Projection[e], read + 1, Len(Projection[e]))
     IN  \/ /\ cached[s].revision = revision
            /\ \E n \in Fitting(Len(rest)) :
                 proof' = [proof EXCEPT ![c].read[e] = @ \o SubSeq(rest, 1, n)]
         \/ /\ cached[s].revision # revision
            /\ proof' = [proof EXCEPT ![c] = Nothing]
  /\ UNCHANGED <<library, cached, pages, detail, crossed>>

-----------------------------------------------------------------------------

Init ==
  /\ assets \in [FirstAssets -> [title : Titles, bytes : {0}, present : {TRUE},
                                 revision : {0}]]
  /\ collections = [k \in DOMAIN FirstNames |->
                      [name |-> FirstNames[k], revision |-> 0, members |-> {}]]
  /\ revision = 0
  /\ cached = [s \in Sessions |-> Nothing] /\ doing = [s \in Sessions |-> Nothing]
  /\ pages = [c \in Clients |-> Nothing] /\ proof = [c \in Clients |-> Nothing]
  /\ detail = [c \in Clients |-> Nothing] /\ crossed = FALSE

Scan == \/ \E a \in Assets : ScanInserts(a) \/ ScanFinds(a)
        \/ ScanGoesOn

Edit(c) == \/ \E a \in Assets : GetAsset(c, a)
           \/ \E t \in Titles : UpdateAsset(c, t)
           \/ Conflict(c)

Batches == SUBSET Assets \ {{}}

Collect(c) ==
  /\ c \in Curators
  /\ \E k \in Collections :
       \/ \E name \in Names : CheckCreate(c, k, name) \/ CheckRename(c, k, name)
       \/ DeleteCollection(c, k)
       \/ \E batch \in Batches : AddMembers(c, k, batch) \/ RemoveMembers(c, k, batch)

Page(c) == \/ \E q \in Queries : FirstPage(c, q)
           \/ NextPage(c) \/ QueryRefused(c) \/ CloseQuery(c)

Prove(c) == \/ CanonicalDigest(c)
            \/ \E e \in Entities : FindSnapshot(c, e) \/ DigestIsOld(c, e)

Answer(s) == InsertCollection(s) \/ UpdateName(s) \/ WriteFails(s) \/ PageVerified(s)

Next ==
  \/ Scan \/ Reopen
  \/ \E c \in Clients : Edit(c) \/ Collect(c) \/ Page(c) \/ Prove(c)
  \/ \E s \in Sessions : Answer(s)

Spec == Init /\ [][Next]_vars

\* A session answers what it began and takes its commands in their order, and
\* a client goes on to the end of what it began to read.
ReaderStep(c) == (\E q \in Queries : FirstPage(c, q)) \/ NextPage(c) \/ QueryRefused(c)

FairSpec ==
  /\ Spec
  /\ \A s \in Sessions : WF_vars(Answer(s))
  /\ \A c \in Readers : SF_vars(ReaderStep(c))
  /\ \A c \in Provers : SF_vars(Prove(c))

-----------------------------------------------------------------------------
(* Properties.                                                             *)

\* "query, filter and sort combinations page deterministically with no
\* duplicate or skipped IDs" (V1_EXECUTION_CONTRACT, line 121): the pages a
\* reader has, whatever was committed between them, are the beginning of what
\* the query selects at the revision of the first one, and its total is right.
\* The revision alone does not give this: an opening changes what a query
\* selects without advancing it.
PagesShowOneSnapshot ==
  \A c \in Clients : pages[c] # Nothing =>
    /\ IsPrefix(pages[c].items, pages[c].whole)
    /\ pages[c].total = Len(pages[c].whole)

\* "it must never silently page newer meaning" (V1_HOST_NEUTRAL_PROOF, line 29):
\* what a prover has read under a digest is what the digest was computed from,
\* though readers of a session share one cached snapshot, which a digest or a
\* page for somebody else replaces.
ProofPagesMatchDigest ==
  \A c \in Provers : proof[c] # Nothing =>
    \A e \in Entities : IsPrefix(proof[c].read[e], proof[c].digest[e])

\* A revision of an asset names one text: whoever has read an asset at the
\* revision it has now has read its title, so that an update that expects this
\* revision overwrites nothing its author has not seen, be the two writers of
\* one session or of two (update_asset).
EqualRevisionsEqualTitle ==
  \A c \in Clients : detail[c] # Nothing =>
    /\ detail[c].revision <= assets[detail[c].asset].revision
    /\ detail[c].revision = assets[detail[c].asset].revision =>
         detail[c].title = assets[detail[c].asset].title

\* No two collections have names that differ in case only, and no more than
\* list_collections can return exist, though the checks come before the
\* transaction and scans, edits and other sessions commit in between: only two
\* sessions that both check before either commits can break it.
CollectionsStayListable ==
  ~crossed =>
    /\ Cardinality(DOMAIN collections) <= MaxCollections
    /\ \A k, j \in DOMAIN collections :
         Lower[collections[k].name] = Lower[collections[j].name] => k = j

\* Even with two sessions a collection's name only changes with its revision,
\* so a rename never undoes one that came after its check.
NamesChangeWithRevisions ==
  [][\A k \in DOMAIN collections \intersect DOMAIN collections' :
       /\ collections'[k].name # collections[k].name =>
            \E s \in Sessions : /\ Doing(s, "rename") /\ doing[s].to = k
                                /\ doing[s].revision = collections[k].revision
       /\ collections'[k].revision >= collections[k].revision]_vars

\* Refusals do not go on for ever: a reader that starts anew each time its
\* revision is refused, and a prover that asks for a new digest each time its
\* own is, reaches the end of its pages once the commits have stopped, even if
\* others use the session's one snapshot, and though a commit that the
\* projection does not show leaves the same digest with an old revision.
ReadersFinish == \A c \in Readers : <>(pages[c] # Nothing /\ ~More(c))
ProversFinish == \A c \in Provers : <>(proof[c] # Nothing /\ ~Proving(c))
=============================================================================
