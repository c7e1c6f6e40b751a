------------------------------ MODULE AssetPager ------------------------------
(***************************************************************************)
(* The pager of the contact sheet (packages/workspace/src/                 *)
(* use-asset-pager.ts, with the effects of contact-sheet.tsx that call it). *)
(*                                                                         *)
(* The sheet shows a window of a long listing from a cache of a few pages.  *)
(* Requests are answered by the core in their order while the Library       *)
(* changes; events make the pager start again, and what an earlier          *)
(* generation asked for must not come back.  A listing is a row of pages,   *)
(* and of a page the model keeps the library revision it was read at, the   *)
(* query it was read for and whether the answer had all its items.  What    *)
(* refreshSummary puts in the place of a row is left out: it changes neither *)
(* a page that is loaded nor what the pager asks for.                       *)
(***************************************************************************)
EXTENDS Naturals, Sequences, SequencesExt

CONSTANTS
  LastPage,       (* the pages of the listing are 0 .. LastPage              *)
  MaxCached,      (* MAX_CACHED_PAGES                                        *)
  Truncates,      (* pages that exceed a frame before they have PAGE_SIZE     *)
  MaxRevision,    (* bound of the model: library revisions                   *)
  MaxGeneration,  (* bound of the model: refreshes of the person, and older   *)
  MaxQueries,     (* bound of the model: changes of the query                *)
  MaxFailures     (* bound of the model: queries that fail                   *)

Pages == 0 .. LastPage
None  == 0        \* null: no revision

ASSUME AssetPagerAssumption ==
  /\ LastPage \in Nat /\ MaxCached \in Nat \ {0} /\ Truncates \subseteq Pages
  /\ MaxRevision \in Nat \ {0} /\ MaxGeneration \in Nat
  /\ MaxQueries \in Nat /\ MaxFailures \in Nat

VARIABLES
  revision,   (* library_revision of the core                                *)
  news,       (* an event that invalidates the assets is on its way           *)
  failures,   (* how many queries failed                                     *)
  visible,    (* the page the window of the sheet is on                      *)
  failed,     (* the error the workspace shows instead of the sheet          *)
  pager       (* the refs of useAssetPager, and its requests in flight       *)

vars == <<revision, news, failures, visible, failed, pager>>

Blank == [revision |-> None, full |-> TRUE, query |-> 0]

\* An answer is none yet, an error, QuerySnapshotChanged or a page.
Answers == [kind : {"none", "failed", "changed", "page"}, page : [revision :
              None .. MaxRevision, full : BOOLEAN, query : Nat]]
Is(kind) == [kind |-> kind, page |-> Blank]

TypeOK ==
  /\ revision \in 1 .. MaxRevision /\ news \in BOOLEAN /\ failed \in BOOLEAN
  /\ failures \in 0 .. MaxFailures /\ visible \in Pages
  /\ pager.generation \in Nat /\ pager.query \in Nat
  /\ pager.older \in BOOLEAN /\ pager.announced \in BOOLEAN
  /\ pager.snapshot \in None .. MaxRevision
  /\ IsInjective(pager.access) /\ ToSet(pager.access) \subseteq Pages
  /\ pager.loaded \subseteq ToSet(pager.access)
  /\ \A p \in Pages : pager.shown[p].revision \in None .. MaxRevision
  /\ \A i \in DOMAIN pager.requests :
       pager.requests[i].page \in Pages /\ pager.requests[i].answer \in Answers

-----------------------------------------------------------------------------
(* loadPage.                                                               *)

Touched(pg, p) == [pg EXCEPT !.access = <<p>> \o RemoveFirst(@, p)]

InFlight(pg, p) ==
  \E i \in DOMAIN pg.requests :
    pg.requests[i].page = p /\ pg.requests[i].generation = pg.generation

Sent(pg, p, replace) ==
  [pg EXCEPT !.requests = Append(@,
     [page |-> p, replace |-> replace, generation |-> pg.generation, query |-> pg.query,
      expected |-> IF p = 0 THEN None ELSE pg.snapshot,
      after |-> << >>, answer |-> Is("none")])]

First(pg) == LET touched == Touched(pg, 0)
             IN  IF InFlight(pg, 0) THEN touched ELSE Sent(touched, 0, TRUE)

\* The page is called for again when the request of the first page is over;
\* a second call for it would then find the first one in flight.
Awaited(pg, r, p) ==
  IF r.page = 0 /\ r.generation = pg.generation
  THEN [r EXCEPT !.after = IF p \in ToSet(@) THEN @ ELSE Append(@, p)]
  ELSE r
AfterFirst(pg, p) ==
  [pg EXCEPT !.requests = [i \in DOMAIN @ |-> Awaited(pg, @[i], p)]]

Loading(pg, p, replace) ==
  LET touched == Touched(pg, p)
  IN  IF (~replace /\ p \in pg.loaded) \/ InFlight(pg, p) THEN touched
      ELSE IF p # 0 /\ pg.snapshot = None THEN AfterFirst(First(touched), p)
      ELSE Sent(touched, p, replace)

\* One call after the other, each on what the calls before it left.
Resumed(pg, later) ==
  LET calls[k \in 0 .. Len(later)] ==
        IF k = 0 THEN pg ELSE Loading(calls[k - 1], later[k], FALSE)
  IN  calls[Len(later)]

\* What refresh, restartSnapshot and a new query have in common.
Cleared(pg) == [pg EXCEPT !.generation = @ + 1, !.access = << >>,
                          !.loaded = {}, !.snapshot = None, !.older = FALSE]

-----------------------------------------------------------------------------
(* What an answer does.                                                    *)

\* Pages are dropped that are not among the latest called for.
Trimmed(pg) ==
  LET kept == SubSeq(pg.access, 1, IF Len(pg.access) < MaxCached
                                   THEN Len(pg.access) ELSE MaxCached)
  IN  [pg EXCEPT !.access = kept, !.loaded = @ \intersect ToSet(kept),
                 !.shown = [p \in Pages |-> IF p \in ToSet(kept) THEN @[p] ELSE Blank]]

Loaded(pg, r) ==
  Trimmed([pg EXCEPT
    !.snapshot = IF r.page = 0 THEN r.answer.page.revision ELSE @,
    !.loaded   = (IF r.replace THEN {} ELSE @) \union {r.page},
    !.shown    = [p \in Pages |-> IF p = r.page THEN r.answer.page
                                  ELSE IF r.replace THEN Blank ELSE @[p]]])

\* restartSnapshot, with the request its microtask makes.
Restarted_AsksNothing(pg) == [Cleared(pg) EXCEPT !.shown = [p \in Pages |-> Blank]]
Restarted(pg) ==
  Loading([Cleared(pg) EXCEPT !.shown = [p \in Pages |-> Blank]], 0, TRUE)

Answered(r) == r.answer.kind # "none"
Received    == [pager EXCEPT !.requests = Tail(@)]

\* An answer for an earlier generation.
Late_Never(r) == FALSE
Late(r) == r.generation # pager.generation

DropLate ==
  /\ pager.requests # << >> /\ Answered(Head(pager.requests))
  /\ Late(Head(pager.requests))
  /\ pager' = Received
  /\ UNCHANGED <<revision, news, failures, visible, failed>>

\* The error takes the place of the sheet, which begins at its top again.
ReceiveError ==
  /\ pager.requests # << >>
  /\ LET r == Head(pager.requests)
     IN  /\ ~Late(r) /\ r.answer.kind = "failed"
         /\ pager' = Resumed(Received, r.after)
  /\ failed' = TRUE /\ visible' = 0
  /\ UNCHANGED <<revision, news, failures>>

ReceiveChanged ==
  /\ pager.requests # << >>
  /\ LET r == Head(pager.requests)
     IN  ~Late(r) /\ r.answer.kind = "changed"
  /\ pager' = Restarted(Received)
  /\ failed' = FALSE /\ visible' = 0
  /\ UNCHANGED <<revision, news, failures>>

ReceivePage ==
  /\ pager.requests # << >>
  /\ LET r == Head(pager.requests)
     IN  /\ ~Late(r) /\ r.answer.kind = "page"
         /\ pager' = LET resumed == Resumed(Loaded(Received, r), r.after)
                     IN  IF failed THEN Loading(resumed, visible, FALSE) ELSE resumed
  /\ failed' = FALSE
  /\ UNCHANGED <<revision, news, failures, visible>>

-----------------------------------------------------------------------------
(* The person, the core and its events.                                    *)

\* The effect of contact-sheet.tsx: another window is ensured, the same never.
SheetIsThere == ~failed /\ \E q \in Pages : pager.shown[q] # Blank
Scroll(p) ==
  /\ p # visible /\ SheetIsThere
  /\ visible' = p /\ pager' = Loading(pager, p, FALSE)
  /\ UNCHANGED <<revision, news, failures, failed>>

\* refresh: an event, or the person.  What is shown stays until page 0 comes.
Refresh ==
  /\ news \/ pager.generation < MaxGeneration
  /\ pager' = Loading([Cleared(pager) EXCEPT !.announced = @ \/ news], 0, TRUE)
  /\ news' = FALSE
  /\ UNCHANGED <<revision, failures, visible, failed>>

\* What the effects do when the person changes the query.  The pager's own first
\* ends the generation; then that of the sheet asks, for nobody, unless it has
\* the page; then the pager begins again, twice once an event made it refresh.
Turned(pg, called) ==
  LET left   == [pg EXCEPT !.generation = @ + 1, !.query = @ + 1, !.older = TRUE]
      begins == Restarted(IF called THEN Loading(left, visible, FALSE) ELSE left)
  IN  IF pg.announced THEN Loading(Cleared(begins), 0, TRUE) ELSE begins

NewQuery ==
  /\ pager.query < MaxQueries
  /\ pager' = Turned(pager, SheetIsThere)
  /\ failed' = FALSE /\ visible' = 0
  /\ UNCHANGED <<revision, news, failures>>

\* A call of refresh that was waiting for the core since the query was another
\* (updateReview, performBatch, addShortlistToCollection) asks for that one's page 0.
RefreshOlder ==
  /\ pager.generation <= MaxGeneration
  /\ \E q \in 0 .. pager.query - 1 :
       pager' = [Loading([Cleared(pager) EXCEPT !.query = q], 0, TRUE)
                   EXCEPT !.query = pager.query, !.older = TRUE]
  /\ UNCHANGED <<revision, news, failures, visible, failed>>

\* What a scan does besides inserting assets is not announced before its end.
Commit ==
  /\ revision < MaxRevision /\ revision' = revision + 1 /\ news' \in {TRUE, news}
  /\ UNCHANGED <<failures, visible, failed, pager>>

\* queryAssets: the first request without an answer gets its own.
Answer ==
  \E i \in DOMAIN pager.requests :
    LET r == pager.requests[i] IN
    /\ ~Answered(r)
    /\ \A j \in 1 .. i - 1 : Answered(pager.requests[j])
    /\ \/ /\ failures < MaxFailures /\ failures' = failures + 1
          /\ pager' = [pager EXCEPT !.requests[i].answer = Is("failed")]
       \/ /\ r.expected \notin {None, revision} /\ UNCHANGED failures
          /\ pager' = [pager EXCEPT !.requests[i].answer = Is("changed")]
       \/ /\ r.expected \in {None, revision} /\ UNCHANGED failures
          /\ pager' = [pager EXCEPT !.requests[i].answer =
               [kind |-> "page", page |-> [revision |-> revision, query |-> r.query,
                                           full |-> r.page \notin Truncates]]]
    /\ UNCHANGED <<revision, news, visible, failed>>

Init ==
  /\ revision = 1 /\ news = FALSE /\ failures = 0 /\ visible = 0 /\ failed = FALSE
  /\ pager = Loading([generation |-> 0, snapshot |-> None, access |-> << >>,
                      loaded |-> {}, shown |-> [p \in Pages |-> Blank],
                      requests |-> << >>, query |-> 0, older |-> FALSE,
                      announced |-> FALSE], 0, TRUE)

Receive == DropLate \/ ReceiveError \/ ReceiveChanged \/ ReceivePage

Next == \/ Answer \/ Receive \/ Refresh \/ NewQuery \/ RefreshOlder \/ Commit
        \/ \E p \in Pages : Scroll(p)

Spec == Init /\ [][Next]_vars

\* The core answers, promises are settled, and events are delivered.
FairSpec ==
  Spec /\ WF_vars(Answer) /\ WF_vars(Receive) /\ WF_vars(news /\ Refresh)

-----------------------------------------------------------------------------
(* Properties.                                                             *)

\* "discards a changed multi-page snapshot and restarts without duplicates or
\* gaps" (use-asset-pager.snapshot.test.tsx, line 31): the pages the sheet takes
\* for loaded were read at one revision and for the query the person sees,
\* whatever was refreshed or asked anew while answers were on their way.  The
\* query may be another only after a refresh that an older one was waiting with.
OneSnapshotShown ==
  \A p \in pager.loaded :
    /\ pager.shown[p].revision = pager.snapshot
    /\ pager.older \/ pager.shown[p].query = pager.query

\* "query, filter and sort combinations page deterministically"
\* (V1_EXECUTION_CONTRACT, line 121): what is loaded is of the query the person
\* sees.
OneQueryShown == \A p \in pager.loaded : pager.shown[p].query = pager.query

\* "no duplicate or skipped IDs" (V1_EXECUTION_CONTRACT, line 121): a page that
\* is not asked for again has all its items.
NoSkippedIds == \A p \in pager.loaded : pager.shown[p].full

\* The sheet is never left without its first page and without a word, however
\* refreshes, restarts and failures meet.
SheetComesBack == []<>(0 \in pager.loaded \/ failed)

\* "Existing terminal job events cause the bounded workspace to refresh"
\* (TRACER_T02, line 35): what the person looks at is shown again after it.
VisiblePageComes == []<>(pager.shown[visible] # Blank \/ failed)
=============================================================================
