------------------------------ MODULE CoreEngine ------------------------------
(***************************************************************************)
(* The command engine of the Reference Library helper process              *)
(* (crates/reference-core/src/server.rs) with the work it starts: scan     *)
(* threads (discovery.rs), the rendition worker pool (rendition.rs), the   *)
(* job and root rows both write in the Library database (session.rs), and  *)
(* the bounded queues between them and the single main loop.               *)
(*                                                                         *)
(* One process at a time runs; it may crash at any step, and the database  *)
(* survives it.  Who may open a package is the subject of WriterLock.      *)
(*                                                                         *)
(* A job identifier is a fresh UUID.  Its kind, its root and so its        *)
(* library are functions of the identifier here; which identifiers get     *)
(* used, and when, is nondeterministic.                                    *)
(***************************************************************************)
EXTENDS Naturals, Sequences, FiniteSets

CONSTANTS
  Libraries,      (* packages the client may open                          *)
  Roots,          (* linked folders                                        *)
  LibraryOf,      (* the library a root belongs to                         *)
  Scans,          (* identifiers of scan jobs                              *)
  Renditions,     (* identifiers of rendition jobs                         *)
  RootOf,         (* the root a job works on                               *)
  ImageRoots,     (* roots that hold an image whose header a scan reads    *)
  MaxScans,       (* scan controls admitted at once: 2 in the code         *)
  Workers,        (* RENDITION_WORKERS                                     *)
  MaxWork,        (* MAX_RENDITION_WORK                                    *)
  EventCapacity,  (* bound of the event channel: 1024 in the code          *)
  MaxOpens        (* bound of the model: openings of one library           *)

Jobs == Scans \union Renditions

ASSUME JobsAssumption ==
  /\ Scans \intersect Renditions = {}
  /\ LibraryOf \in [Roots -> Libraries]
  /\ RootOf \in [Jobs -> Roots]
  /\ ImageRoots \subseteq Roots

ASSUME BoundsAssumption ==
  /\ MaxScans \in Nat \ {0}
  /\ Workers \in Nat \ {0}
  /\ MaxWork \in Nat /\ MaxWork > Workers
  /\ EventCapacity \in Nat \ {0}
  /\ MaxOpens \in [Libraries -> Nat]

VARIABLES
  \* In the database of the package; a crash leaves these alone.
  ledger,     (* jobs.state, "absent" where no row exists                  *)
  rootState,  (* roots.state, "absent" where no row exists                 *)
  \* In the memory of the process.
  open,       (* libraries with a session                                  *)
  epoch,      (* how often a library was opened: names its latest session  *)
  bound,      (* roots with an authority in their session                  *)
  sessionOf,  (* the opening of its library that started a job             *)
  controls,   (* keys of CommandEngine.jobs                                *)
  cancelled,  (* jobs whose cancellation flag is set                       *)
  stage,      (* where a job's thread or work item stands                  *)
  outbox,     (* events a finished job has still to emit                   *)
  channel,    (* the bounded work queue of the rendition workers           *)
  responses,  (* the unbounded queue of asynchronous responses             *)
  inflight,   (* CommandEngine.resource_inflight                           *)
  events,     (* the bounded event queue                                   *)
  mode,       (* where the main loop stands                                *)
  stop,       (* the sessions a stopping main loop waits for               *)
  eof,        (* the input was closed                                      *)
  \* What the client has seen of this process.
  asked,      (* authorization requests the engine gave a job              *)
  answered,   (* ... and that were answered                                *)
  granted,    (* ... with a descriptor                                     *)
  announced   (* CoreNeedsRestart was delivered                            *)

database == <<ledger, rootState>>
sessions == <<open, epoch, bound>>
work     == <<sessionOf, controls, cancelled, stage, outbox>>
pool     == <<channel, responses, inflight>>
loop     == <<mode, stop, eof>>
client   == <<asked, answered, granted, announced>>
vars     == <<database, sessions, work, pool, events, loop, client>>

-----------------------------------------------------------------------------
(* Types and the vocabulary of the code.                                   *)

ActiveStates   == {"queued", "running"}
TerminalStates == {"completed", "failed", "cancelled"}
JobStates      == {"absent"} \union ActiveStates \union TerminalStates

\* "offline" stands for needs_permission, offline_volume and unavailable.
RootStates == {"absent", "scanning", "ready", "connected", "offline", "error"}

\* "note" stands for every event whose delivery changes nothing in the engine:
\* progress with the root state that follows it, an authorization started, a
\* job running.
Event == [type : {"note", "restart"}] \union [type : {"terminal"}, job : Jobs]
Note        == [type |-> "note"]
Restart     == [type |-> "restart"]
Terminal(j) == [type |-> "terminal", job |-> j]

\* channel: queued for a worker; start: taken, not yet marked running; run:
\* walking the root or generating; probe: reading the header of an image; emit:
\* the database holds the outcome; abort: a write about the outcome failed;
\* done: completion is signalled.
Stages == {"idle", "channel", "start", "run", "probe", "emit", "abort", "done"}

Session == Libraries \X Nat
NoStop  == [why |-> "none", current |-> {}, rest |-> {}]
Stops   == [why : {"none", "close", "shutdown", "eof"},
            current : SUBSET Session, rest : SUBSET Session]
Modes   == {"events", "responses", "input", "stop", "crashed", "exited"}
Down    == mode \in {"crashed", "exited"}

Library(j)   == LibraryOf[RootOf[j]]
SessionOf(j) == <<Library(j), sessionOf[j]>>
SessionOpen(s) == s[1] \in open /\ epoch[s[1]] = s[2]

\* A job that may still write the database of its library.
Live(j) == stage[j] \in {"channel", "start", "run", "probe"}
\* A job that still occupies its thread, its worker or the work queue.
Unfinished(j) == stage[j] \notin {"idle", "done"}
\* The rendition jobs a request is still waiting for.
InPool(j) == Unfinished(j) \/ \E i \in DOMAIN responses : responses[i].job = j
Outstanding == {j \in Renditions : InPool(j)}

-----------------------------------------------------------------------------
(* Pieces of the handlers.                                                 *)

\* SyncSender::try_send through EventSink::emit: a full queue drops the event.
TrySend_Unbounded(e) == Append(events, e)
TrySend(e) == IF Len(events) < EventCapacity THEN Append(events, e) ELSE events

\* The EXISTS query in front of add_root, bind_root and scan_bound_root: jobs
\* of both kinds count.
RootBusy_ScansOnlyQueued(r) ==
  \E j \in Jobs : RootOf[j] = r /\ ledger[j] = "queued"
RootBusy(r) == \E j \in Jobs : RootOf[j] = r /\ ledger[j] \in ActiveStates

\* reap_finished_scans, in front of every command but AuthorizeResource.
FinishedScans_AnyScan == controls \intersect Scans
FinishedScans == {j \in controls \intersect Scans : stage[j] = "done"}
Reaped == controls \ FinishedScans

ScanSlotFree_OffByOne == Cardinality(Reaped \intersect Scans) <= MaxScans
ScanSlotFree == Cardinality(Reaped \intersect Scans) < MaxScans

\* recover_interrupted_scan: what an earlier process left active has failed.
RecoveredJobs_All(l) ==
  [j \in Jobs |-> IF Library(j) = l /\ ledger[j] # "absent"
                  THEN "failed" ELSE ledger[j]]
RecoveredJobs_OnlyQueued(l) ==
  [j \in Jobs |-> IF Library(j) = l /\ ledger[j] = "queued"
                  THEN "failed" ELSE ledger[j]]
RecoveredJobs(l) ==
  [j \in Jobs |-> IF Library(j) = l /\ ledger[j] \in ActiveStates
                  THEN "failed" ELSE ledger[j]]
RecoveredRoots(l) ==
  [r \in Roots |-> IF LibraryOf[r] = l /\ rootState[r] = "scanning"
                   THEN "error" ELSE rootState[r]]
\* mark_linked_roots_unbound, after the recovery of the roots.
UnboundRoots(l) ==
  [r \in Roots |->
     IF LibraryOf[r] = l /\ RecoveredRoots(l)[r] \notin {"absent", "error"}
     THEN "offline" ELSE RecoveredRoots(l)[r]]

\* The control map becomes c, with the flags of the jobs in raised set.  A
\* flag lives as long as its control: no one reads it once the job is done.
Control(c, raised) ==
  /\ controls' = c
  /\ cancelled' = (cancelled \union raised) \intersect c

-----------------------------------------------------------------------------
(* The process starts with nothing open; the packages were never scanned.  *)

Init ==
  /\ ledger = [j \in Jobs |-> "absent"]
  /\ rootState = [r \in Roots |-> "absent"]
  /\ epoch = [l \in Libraries |-> 0]
  /\ open = {} /\ bound = {}
  /\ sessionOf = [j \in Jobs |-> 0]
  /\ controls = {} /\ cancelled = {}
  /\ stage = [j \in Jobs |-> "idle"]
  /\ outbox = [j \in Jobs |-> << >>]
  /\ channel = << >> /\ responses = << >> /\ inflight = 0
  /\ events = << >>
  /\ mode = "events" /\ stop = NoStop /\ eof = FALSE
  /\ asked = {} /\ answered = {} /\ granted = {} /\ announced = FALSE

-----------------------------------------------------------------------------
(* The main loop: drain the events, drain the responses, read one input.   *)

\* next_event_frame: the terminal event of a scan also removes its control,
\* after joining the thread that sent it.
DeliverEvent ==
  /\ mode = "events" /\ events # << >>
  /\ LET e == Head(events)
         joined == IF e.type = "terminal"
                   THEN controls \intersect Scans \intersect {e.job} ELSE {}
     IN /\ \A j \in joined : stage[j] = "done"
        /\ Control(controls \ joined, {})
        /\ announced' = (announced \/ e.type = "restart")
  /\ events' = Tail(events)
  /\ UNCHANGED <<database, sessions, sessionOf, stage, outbox, pool,
                 loop, asked, answered, granted>>

EventsDrained ==
  /\ mode = "events" /\ events = << >>
  /\ mode' = "responses"
  /\ UNCHANGED <<database, sessions, work, pool, events, stop, eof, client>>

\* take_async_response: a descriptor reaches only the session that asked.
MayGrant_Always(r) == r.ok
MayGrant(r) == r.ok /\ SessionOpen(SessionOf(r.job))

Released_Never(n) == n
Released(n) == IF n > 0 THEN n - 1 ELSE 0

TakeResponse ==
  /\ mode = "responses" /\ responses # << >>
  /\ LET r == Head(responses)
     IN /\ Control(controls \ {r.job}, {})
        /\ answered' = answered \union {r.job}
        /\ granted' = IF MayGrant(r) THEN granted \union {r.job} ELSE granted
  /\ responses' = Tail(responses)
  /\ inflight' = Released(inflight)
  /\ UNCHANGED <<database, sessions, sessionOf, stage, outbox,
                 channel, events, loop, asked, announced>>

ResponsesDrained ==
  /\ mode = "responses" /\ responses = << >>
  /\ mode' = "input"
  /\ UNCHANGED <<database, sessions, work, pool, events, stop, eof, client>>

\* try_recv found nothing, or an Invalid frame was refused.
NoInput ==
  /\ mode = "input" /\ ~eof
  /\ mode' = "events"
  /\ UNCHANGED <<database, sessions, work, pool, events, stop, eof, client>>

\* A request reaches execute: every handler below starts with this.
Request ==
  /\ mode = "input" /\ ~eof
  /\ mode' = "events"
  /\ UNCHANGED <<stop, eof>>

\* Queries, refused commands and commands on a closed session.
OtherRequest ==
  /\ Request
  /\ Control(Reaped, {})
  /\ UNCHANGED <<database, sessions, sessionOf, stage, outbox, pool,
                 events, client>>

-----------------------------------------------------------------------------
(* Sessions.                                                               *)

OpenLibrary(l) ==
  /\ Request
  /\ l \notin open /\ epoch[l] < MaxOpens[l]
  /\ ledger' = RecoveredJobs(l)
  /\ rootState' = UnboundRoots(l)
  /\ open' = open \union {l}
  /\ epoch' = [epoch EXCEPT ![l] = @ + 1]
  /\ Control(Reaped, {})
  /\ UNCHANGED <<bound, sessionOf, stage, outbox, pool, events,
                 client>>

\* Memory is gone, the database stays.
Lose(m) ==
  /\ mode' = m /\ stop' = NoStop /\ eof' = FALSE
  /\ open' = {} /\ bound' = {}
  /\ sessionOf' = [j \in Jobs |-> 0]
  /\ controls' = {} /\ cancelled' = {}
  /\ stage' = [j \in Jobs |-> "idle"]
  /\ outbox' = [j \in Jobs |-> << >>]
  /\ channel' = << >> /\ responses' = << >> /\ inflight' = 0
  /\ events' = << >>
  /\ asked' = {} /\ answered' = {} /\ granted' = {} /\ announced' = FALSE

\* The statements of the recovery commit one by one, with no transaction
\* around them: it may stop after the jobs, after the roots, or at its end.
PartOfRecovery(l) ==
  /\ l \notin open /\ epoch[l] < MaxOpens[l]
  /\ ledger' = RecoveredJobs(l)
  /\ rootState' \in {rootState, RecoveredRoots(l), UnboundRoots(l)}

\* A statement failed: LibrarySession::open returns the error, no session.
OpenFails(l) ==
  /\ Request
  /\ PartOfRecovery(l)
  /\ Control(Reaped, {})
  /\ UNCHANGED <<sessions, sessionOf, stage, outbox, pool, events, client>>

\* The process died between two of them.
CrashWhileOpening(l) ==
  /\ mode = "input" /\ ~eof
  /\ PartOfRecovery(l)
  /\ Lose("crashed")
  /\ UNCHANGED epoch

\* The sessions that own one of the controls c.
StopTargets_AlreadyCancelled(c) == {SessionOf(j) : j \in c \intersect cancelled}
StopTargets(c) == {SessionOf(j) : j \in c}

\* stop_jobs_for_session first raises the flag of every job of the session.
Wait(why, current, rest, kept) ==
  /\ mode' = "stop"
  /\ stop' = [why |-> why, current |-> current, rest |-> rest]
  /\ Control(kept, {j \in kept : SessionOf(j) \in current})

CloseLibrary(l) ==
  /\ mode = "input" /\ ~eof
  /\ l \in open
  /\ Wait("close", {<<l, epoch[l]>>}, {}, Reaped)
  /\ UNCHANGED <<database, sessions, sessionOf, stage, outbox, pool, events,
                 eof, client>>

Shutdown ==
  /\ mode = "input" /\ ~eof
  /\ Wait("shutdown", {}, StopTargets(Reaped), Reaped)
  /\ UNCHANGED <<database, sessions, sessionOf, stage, outbox, pool, events,
                 eof, client>>

\* Eof, and afterwards Disconnected on every turn of the loop.
EndOfInput ==
  /\ mode = "input"
  /\ eof' = TRUE
  /\ Wait("eof", {}, StopTargets(controls), controls)
  /\ UNCHANGED <<database, sessions, sessionOf, stage, outbox, pool,
                 events, client>>

StopComplete_NoWait == TRUE
StopComplete ==
  \A j \in controls : SessionOf(j) \in stop.current => stage[j] = "done"

Remaining == {j \in controls : SessionOf(j) \notin stop.current}

\* The jobs of one session have ended; stop_all_jobs turns to another.
StopNext ==
  /\ mode = "stop" /\ StopComplete
  /\ \E s \in stop.rest : Wait(stop.why, {s}, stop.rest \ {s}, Remaining)
  /\ UNCHANGED <<database, sessions, sessionOf, stage, outbox, pool, events,
                 eof, client>>

\* CloseLibrary removes the session and closes it: connection, manifest, lock.
Closed ==
  /\ mode = "stop" /\ stop.why = "close" /\ StopComplete
  /\ mode' = "events" /\ stop' = NoStop
  /\ open' = {l \in open : <<l, epoch[l]>> \notin stop.current}
  /\ bound' = {r \in bound : LibraryOf[r] \in open'}
  /\ Control(Remaining, {})
  /\ UNCHANGED <<database, epoch, sessionOf, stage, outbox, pool,
                 events, eof, client>>

\* Shutdown and end of input: every session closes and the process ends.
Exit ==
  /\ mode = "stop" /\ stop.why \in {"shutdown", "eof"}
  /\ stop.rest = {} /\ StopComplete
  /\ Lose("exited")
  /\ UNCHANGED <<database, epoch>>

\* WORKER_STOP_TIMEOUT passed: sessions, flags and controls are retained.
StopTimeout ==
  /\ mode = "stop" /\ ~StopComplete
  /\ mode' = "events" /\ stop' = NoStop
  /\ UNCHANGED <<database, sessions, work, pool, events, eof, client>>

Crash ==
  /\ ~Down
  /\ Lose("crashed")
  /\ UNCHANGED <<database, epoch>>

\* The shell starts the helper again.
Start ==
  /\ Down
  /\ mode' = "events"
  /\ UNCHANGED <<database, sessions, work, pool, events, stop, eof, client>>

-----------------------------------------------------------------------------
(* Commands that start, bind and cancel.                                   *)

\* add_root and scan_bound_root write both rows in one transaction, then the
\* handler spawns the thread, keeps the control and queues RootStateChanged.
BeginScan(j) ==
  /\ ledger[j] = "absent" /\ Library(j) \in open
  /\ ScanSlotFree
  /\ ~RootBusy(RootOf[j])
  /\ ledger' = [ledger EXCEPT ![j] = "running"]
  /\ rootState' = [rootState EXCEPT ![RootOf[j]] = "scanning"]
  /\ sessionOf' = [sessionOf EXCEPT ![j] = epoch[Library(j)]]
  /\ stage' = [stage EXCEPT ![j] = "run"]
  /\ Control(Reaped \union {j}, {})
  /\ events' = TrySend(Note)
  /\ UNCHANGED <<open, epoch, outbox, pool, client>>

AddRoot(j) ==
  /\ Request
  /\ BeginScan(j)
  /\ bound' = bound \union {RootOf[j]}

ScanRoot(j) ==
  /\ Request
  /\ RootOf[j] \in bound
  /\ BeginScan(j)
  /\ UNCHANGED bound

BindRoot(r) ==
  /\ Request
  /\ LibraryOf[r] \in open /\ rootState[r] # "absent" /\ ~RootBusy(r)
  /\ rootState' = [rootState EXCEPT ![r] = "connected"]
  /\ bound' = bound \union {r}
  /\ Control(Reaped, {})
  /\ UNCHANGED <<ledger, open, epoch, sessionOf, stage, outbox, pool,
                 events, client>>

\* start_resource_authorization wrote the row before it found a queue full:
\* fail_resource_job marks it, or fails itself and leaves it queued.
Refuse(j) ==
  /\ \E s \in {"failed", "queued"} : ledger' = [ledger EXCEPT ![j] = s]
  /\ answered' = answered \union {j}
  /\ UNCHANGED <<sessionOf, controls, cancelled, stage, channel, inflight>>

Admit(j) ==
  /\ ledger' = [ledger EXCEPT ![j] = "queued"]
  /\ sessionOf' = [sessionOf EXCEPT ![j] = epoch[Library(j)]]
  /\ Control(controls \union {j}, {})
  /\ stage' = [stage EXCEPT ![j] = "channel"]
  /\ channel' = Append(channel, j)
  /\ inflight' = inflight + 1
  /\ UNCHANGED answered

WorkSlotFree == inflight < MaxWork
ChannelFull == Len(channel) >= MaxWork - Workers

AuthorizeResource(j) ==
  /\ Request
  /\ ledger[j] = "absent" /\ RootOf[j] \in bound
  /\ WorkSlotFree
  /\ asked' = asked \union {j}
  /\ \/ /\ Len(events) >= EventCapacity
        /\ Refuse(j)
        /\ UNCHANGED events
     \/ /\ Len(events) < EventCapacity
        /\ events' = Append(events, Note)
        /\ IF ChannelFull THEN Refuse(j) ELSE Admit(j)
  /\ UNCHANGED <<rootState, sessions, outbox, responses, granted,
                 announced>>

CancelJob(j) ==
  /\ Request
  /\ Library(j) \in open /\ ledger[j] \notin TerminalStates
  /\ j \in Reaped /\ SessionOpen(SessionOf(j))
  /\ Control(Reaped, {j})
  /\ UNCHANGED <<database, sessions, sessionOf, stage, outbox, pool, events,
                 client>>

-----------------------------------------------------------------------------
(* Scan threads: discovery::scan_root.                                     *)

\* A batch was flushed; its events are news, or are dropped.
ScanProgress(j) ==
  /\ stage[j] = "run"
  /\ events' = TrySend(Note)
  /\ UNCHANGED <<database, sessions, work, pool, loop, client>>

\* The walk turns to an entry, unless it was cancelled before; read_dimensions
\* hands the file to imagesize behind an InspectionReader.
MoveScan(j, from, to) ==
  /\ stage[j] = from
  /\ stage' = [stage EXCEPT ![j] = to]
  /\ UNCHANGED <<database, sessions, sessionOf, controls, cancelled, outbox,
                 pool, events, loop, client>>

BeginProbe(j) ==
  /\ RootOf[j] \in ImageRoots /\ j \notin cancelled
  /\ MoveScan(j, "run", "probe")

\* The header was read, or the budget of bytes or seconds ran out.
EndProbe(j) == j \notin cancelled /\ MoveScan(j, "probe", "run")

\* InspectionReader::check refuses a cancelled probe with Interrupted, before
\* it looks at the budget.  Refusing a seek ends the probe; refusing a read
\* does not: read_exact repeats a read that was Interrupted.
RefuseProbe(j) ==
  /\ j \in cancelled
  /\ \E to \in {"run", "probe"} : MoveScan(j, "probe", to)

\* The work of j is over: it goes on to next, with the news it will emit.
Leave(j, next, news) ==
  /\ stage[j] = "run"
  /\ stage' = [stage EXCEPT ![j] = next]
  /\ outbox' = [outbox EXCEPT ![j] = news]
  /\ UNCHANGED <<sessions, sessionOf, controls, cancelled, pool, events, loop,
                 client>>

\* One transaction wrote the outcome to the job and its root.
ConcludeScan(j, state, root) ==
  /\ Leave(j, "emit", <<Note, Terminal(j)>>)
  /\ ledger' = [ledger EXCEPT ![j] = state]
  /\ rootState' = [rootState EXCEPT ![RootOf[j]] = root]

FinishScan(j) ==
  \/ ConcludeScan(j, "completed", "ready")
  \/ j \in cancelled /\ ConcludeScan(j, "cancelled", "connected")
  \/ \E root \in {"offline", "error"} : ConcludeScan(j, "failed", root)
  \* mark_failed could not write either: the rows stay running and scanning.
  \/ Leave(j, "abort", <<Restart>>) /\ UNCHANGED database

-----------------------------------------------------------------------------
(* Rendition workers: the loop of CommandEngine::new and run_job_outcome.  *)

TakeWork ==
  /\ channel # << >>
  /\ Cardinality({j \in Renditions : stage[j] \in {"start", "run", "emit", "abort"}})
       < Workers
  /\ channel' = Tail(channel)
  /\ stage' = [stage EXCEPT ![Head(channel)] = "start"]
  /\ UNCHANGED <<database, sessions, sessionOf, controls, cancelled, outbox,
                 responses, inflight, events, loop, client>>

\* update_job(running), whose failure ends the job with its row still queued.
StartRendition(j) ==
  /\ stage[j] = "start"
  /\ \/ /\ ledger' = [ledger EXCEPT ![j] = "running"]
        /\ stage' = [stage EXCEPT ![j] = "run"]
        /\ events' = TrySend(Note)
        /\ UNCHANGED outbox
     \/ /\ stage' = [stage EXCEPT ![j] = "abort"]
        /\ outbox' = [outbox EXCEPT ![j] = <<Restart>>]
        /\ UNCHANGED <<ledger, events>>
  /\ UNCHANGED <<rootState, sessions, sessionOf, controls, cancelled, pool,
                 loop, client>>

\* update_job writes the row and then prunes old rows: when it fails, the row
\* is still running or, if only the pruning failed, terminal already.
FinishRendition(j) ==
  /\ \/ \E state \in {"completed", "failed"} \union
                       (IF j \in cancelled THEN {"cancelled"} ELSE {}) :
          /\ ledger' = [ledger EXCEPT ![j] = state]
          /\ \/ Leave(j, "emit", <<Terminal(j)>>)
             \/ Leave(j, "abort", <<Restart>>)
     \/ Leave(j, "abort", <<Restart>>) /\ UNCHANGED ledger
  /\ UNCHANGED rootState

-----------------------------------------------------------------------------
(* Both kinds end alike: emit, never blocking, then signal completion.     *)

EmitNext_Blocking(j) ==
  /\ outbox[j] # << >>
  /\ Len(events) < EventCapacity
  /\ events' = Append(events, Head(outbox[j]))
  /\ outbox' = [outbox EXCEPT ![j] = Tail(@)]
  /\ UNCHANGED <<database, sessions, sessionOf, controls, cancelled, stage,
                 pool, loop, client>>
EmitNext(j) ==
  /\ outbox[j] # << >>
  /\ events' = TrySend(Head(outbox[j]))
  /\ outbox' = [outbox EXCEPT ![j] = Tail(@)]
  /\ UNCHANGED <<database, sessions, sessionOf, controls, cancelled, stage,
                 pool, loop, client>>

\* The result is a descriptor only when every write about it succeeded.
Generated(j) == stage[j] = "emit" /\ ledger[j] = "completed"
Respond_OnlyIfPersisted(j) ==
  IF j \in Renditions /\ stage[j] = "emit"
  THEN Append(responses, [job |-> j, ok |-> Generated(j)])
  ELSE responses
Respond(j) ==
  IF j \in Renditions
  THEN Append(responses, [job |-> j, ok |-> Generated(j)])
  ELSE responses

\* A worker sends its response and then signals completion; nothing tells the
\* two apart, so they are one step, and so is the end of a scan thread.

Complete_OnlyIfPersisted(j) ==
  /\ stage[j] = "emit" /\ outbox[j] = << >>
  /\ stage' = [stage EXCEPT ![j] = "done"]
  /\ responses' = Respond(j)
  /\ UNCHANGED <<database, sessions, sessionOf, controls, cancelled, outbox,
                 channel, inflight, events, loop, client>>
Complete(j) ==
  /\ stage[j] \in {"emit", "abort"} /\ outbox[j] = << >>
  /\ stage' = [stage EXCEPT ![j] = "done"]
  /\ responses' = Respond(j)
  /\ UNCHANGED <<database, sessions, sessionOf, controls, cancelled, outbox,
                 channel, inflight, events, loop, client>>

-----------------------------------------------------------------------------

MainLoop ==
  \/ DeliverEvent \/ EventsDrained \/ TakeResponse \/ ResponsesDrained
  \/ NoInput \/ OtherRequest
  \/ \E l \in Libraries : OpenLibrary(l) \/ OpenFails(l) \/ CloseLibrary(l)
  \/ Shutdown \/ EndOfInput \/ StopNext \/ Closed \/ Exit
  \/ \E j \in Scans : AddRoot(j) \/ ScanRoot(j)
  \/ \E r \in Roots : BindRoot(r)
  \/ \E j \in Renditions : AuthorizeResource(j)
  \/ \E j \in Jobs : CancelJob(j)

ScanThread(j) ==
  \/ ScanProgress(j) \/ BeginProbe(j) \/ EndProbe(j) \/ RefuseProbe(j)
  \/ FinishScan(j)
Worker(j)   == StartRendition(j) \/ FinishRendition(j)
Farewell(j) == EmitNext(j) \/ Complete(j)

Next ==
  \/ MainLoop
  \/ StopTimeout \/ Crash \/ Start
  \/ \E l \in Libraries : CrashWhileOpening(l)
  \/ TakeWork
  \/ \E j \in Scans : ScanThread(j)
  \/ \E j \in Renditions : Worker(j)
  \/ \E j \in Jobs : Farewell(j)

Spec == Init /\ [][Next]_vars

\* The operating system schedules every thread.  A walk ends, since discovery
\* bounds its entries; it may stop between two of them again and again, hence
\* SF.  A generation ends by its deadline, and so does a probe that nobody
\* cancels; one that is cancelled need not.  Nothing forces a client to ask, a
\* timer to fire, or the process to crash or start.
FairSpec ==
  /\ Spec
  /\ WF_vars(MainLoop)
  /\ WF_vars(TakeWork)
  /\ \A j \in Scans : SF_vars(FinishScan(j)) /\ WF_vars(EndProbe(j))
  /\ \A j \in Renditions : WF_vars(Worker(j))
  /\ \A j \in Jobs : WF_vars(Farewell(j))

-----------------------------------------------------------------------------
(* Properties.                                                             *)

\* Every variable has its type and every bounded queue keeps its bound
\* (sync_channel(1_024), sync_channel(MAX_RENDITION_WORK - RENDITION_WORKERS)).
TypeOK ==
  /\ ledger \in [Jobs -> JobStates]
  /\ rootState \in [Roots -> RootStates]
  /\ open \subseteq Libraries
  /\ epoch \in [Libraries -> Nat]
  /\ bound \subseteq Roots
  /\ sessionOf \in [Jobs -> Nat]
  /\ controls \subseteq Jobs /\ cancelled \subseteq Jobs
  /\ stage \in [Jobs -> Stages]
  /\ outbox \in [Jobs -> Seq(Event)]
  /\ channel \in Seq(Renditions) /\ Len(channel) <= MaxWork - Workers
  /\ responses \in Seq([job : Renditions, ok : BOOLEAN])
  /\ inflight \in Nat
  /\ events \in Seq(Event) /\ Len(events) <= EventCapacity
  /\ mode \in Modes /\ stop \in Stops /\ eof \in BOOLEAN
  /\ asked \subseteq Renditions /\ answered \subseteq Renditions
  /\ granted \subseteq Renditions /\ announced \in BOOLEAN

\* Two threads never walk the same root: not through AddRoot and ScanRoot,
\* not across a close and a reopening, not after a crash.  The only guard is
\* the EXISTS query on rows that scan threads, workers and recovery rewrite.
OneScanPerRoot ==
  \A j, k \in Scans :
    Live(j) /\ Live(k) /\ RootOf[j] = RootOf[k] => j = k

\* While a job may still write a package, the session that started it is open
\* and so holds the writer lock of the package (server.rs, comment at
\* Input::Eof: sessions are retained until background writers are quiescent).
WritersHaveSession == \A j \in Jobs : Live(j) => SessionOpen(SessionOf(j))

\* A job that occupies a thread or a worker has a control: CancelJob and
\* CloseLibrary reach it whatever events were dropped or reaped before.
WorkIsReachable == \A j \in Jobs : Unfinished(j) => j \in controls

\* At most MaxScans threads walk at any time, though finished scans leave the
\* control map on three different paths.
ScanLimit == Cardinality({j \in Scans : Unfinished(j)}) <= MaxScans

\* resource_inflight counts exactly the requests queued, worked on or waiting
\* as a response: no slot leaks on a refusal, a close or a failed write, and
\* saturating_sub never hides a missing increment.
InflightIsExact ==
  inflight = Cardinality(Outstanding) /\ inflight <= MaxWork

\* Every authorization that got a job is answered once or will be: it is
\* either answered or still in the pool, never neither, never both.
OneReplyEach == asked = answered \union Outstanding /\ answered \intersect Outstanding = {}

\* In an open library a root says "scanning" exactly while an active scan row
\* exists, whatever crash or failed write came before.
ScanningIsExplained ==
  \A r \in Roots : LibraryOf[r] \in open =>
    (rootState[r] = "scanning"
       <=> \E j \in Scans : RootOf[j] = r /\ ledger[j] \in ActiveStates)

\* A job reaches one terminal state and keeps it: no late worker and no
\* recovery rewrites it (update_job and mark_failed do not test the old state).
TerminalIsFinal ==
  [][\A j \in Jobs : ledger[j] \in TerminalStates => ledger'[j] = ledger[j]]_vars

\* A descriptor is delivered only while the session that asked is open and
\* keeps the root bound, and only for a job whose row says completed: the
\* response was queued earlier, a close and a reopening may lie between.
GrantsAreCurrent ==
  [][\A j \in granted' \ granted :
       /\ SessionOpen(SessionOf(j)) /\ RootOf[j] \in bound
       /\ ledger[j] = "completed"]_vars

\* Shutdown and end of input leave no writer behind in any session.
CleanExit ==
  [][mode' = "exited" /\ mode # "exited" => \A j \in Jobs : ~Live(j)]_vars

\* A scan that was cancelled while it reads the header of an image.
Caught(j) == stage[j] = "probe" /\ j \in cancelled

\* A main loop that waits for jobs is released by the jobs, without the
\* timeout, unless a scan was caught in a probe: no thread waits for the loop
\* to drain the events (discovery.rs, comment in EventSink::emit), and failed
\* writes end a job like any other.
StopEnds == mode = "stop" ~> mode # "stop" \/ \E j \in Scans : Caught(j)

\* A cancelled job ends, in whatever state, unless it was caught in a probe.
CancelledEnds == \A j \in Jobs : j \in cancelled ~> ~Unfinished(j) \/ Caught(j)

\* Every authorization that got a job is answered, unless the process goes
\* down first or waits for a scan that was caught in a probe.
RequestsAnswered ==
  \A j \in Renditions :
    j \in asked ~> j \in answered \/ Down \/ \E k \in Scans : Caught(k)

\* "A cancelled scan reaches one terminal cancelled state" (V1-02 in
\* V1_EXECUTION_CONTRACT.md, line 59): at the least, its thread ends.
CancelledScanEnds == \A j \in Scans : j \in cancelled ~> ~Unfinished(j)

\* The rows of the jobs table, seen alone, obey JobLedger: no crash, close,
\* refusal or failed write takes a row along a path that is not in it.
Ledger == INSTANCE JobLedger
LedgerSpec == Ledger!Spec

\* A scan whose outcome could not be written leaves an active row that blocks
\* its root; the client is told that the helper needs a restart.
StuckScanIsAnnounced ==
  \A j \in Scans :
    stage[j] = "done" /\ ledger[j] \in ActiveStates =>
      announced \/ \E i \in DOMAIN events : events[i].type = "restart"
-----------------------------------------------------------------------------
(* The inductive invariant behind the safety properties, proved in         *)
(* CoreEngineProofs.                                                       *)

\* What the stage of a job says of its row.
StageMatchesRow ==
  \A j \in Jobs :
    /\ stage[j] # "idle" => ledger[j] # "absent"
    /\ stage[j] \in {"channel", "start"} => j \in Renditions /\ ledger[j] = "queued"
    /\ stage[j] = "run" => ledger[j] = "running"
    /\ stage[j] = "probe" => j \in Scans /\ ledger[j] = "running"

\* The work queue holds the queued jobs, each once.
ChannelMatchesStage ==
  /\ \A i \in DOMAIN channel : stage[channel[i]] = "channel"
  /\ \A i, k \in DOMAIN channel : channel[i] = channel[k] => i = k

\* A response is sent by a job that has ended.
ResponsesAreDone == \A i \in DOMAIN responses : stage[responses[i].job] = "done"

\* No root has two active scan rows.
OneActiveScan ==
  \A j, k \in Scans :
    RootOf[j] = RootOf[k] /\ ledger[j] \in ActiveStates /\ ledger[k] \in ActiveStates
      => j = k

\* An authority is kept by a session, which keeps its library open.
BoundRootsOpen == \A r \in bound : LibraryOf[r] \in open

JobInv ==
  /\ BoundRootsOpen
  /\ StageMatchesRow
  /\ ChannelMatchesStage
  /\ ResponsesAreDone
  /\ OneActiveScan
  /\ WritersHaveSession
  /\ WorkIsReachable

IInv == TypeOK /\ JobInv

-----------------------------------------------------------------------------
(* What the counts, the grants and the end of the process rest on, above   *)
(* IInv; proved in CoreEngineCountProofs.                                  *)

\* No job has two responses.
OneResponseEach ==
  \A i, k \in DOMAIN responses : responses[i].job = responses[k].job => i = k

\* A request that got past the checks wrote a row first.
AskedHaveRows == \A j \in asked : ledger[j] # "absent"

PoolInv ==
  /\ OneResponseEach
  /\ AskedHaveRows
  /\ IsFiniteSet(Outstanding) /\ InflightIsExact
  /\ OneReplyEach

\* The control map is finite, which is what makes its length a bound.
ScanInv == IsFiniteSet(controls) /\ ScanLimit /\ ScanningIsExplained

\* A session that is open and started a job holds the authority of its root,
\* and no job belongs to an opening that is still to come.
SessionsKeepRoots ==
  \A j \in Jobs : stage[j] # "idle" =>
    /\ sessionOf[j] <= epoch[Library(j)]
    /\ SessionOpen(SessionOf(j)) => RootOf[j] \in bound

\* Only a job whose row says completed responds with a descriptor.
DescriptorsAreCompleted ==
  \A i \in DOMAIN responses :
    responses[i].ok => ledger[responses[i].job] = "completed"

\* A process that is about to end still has to look at the session of every
\* job that runs.
StopCoversWork ==
  mode = "stop" /\ stop.why \in {"shutdown", "eof"} =>
    \A j \in controls :
      Unfinished(j) => SessionOf(j) \in stop.current \union stop.rest

EndInv == SessionsKeepRoots /\ DescriptorsAreCompleted /\ StopCoversWork
=============================================================================
