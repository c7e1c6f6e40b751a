------------------------ MODULE CoreEngineCountProofs ------------------------
(***************************************************************************)
(* The counts of CoreEngine (threads that walk, requests in the pool), the *)
(* replies and grants, the state of the roots, and the end of the process, *)
(* for every instance, above the invariant IInv of CoreEngineProofs.       *)
(***************************************************************************)
EXTENDS CoreEngineProofs, FiniteSetTheorems

-----------------------------------------------------------------------------
(* The steps, sorted by what they do to rows and stages.                   *)

\* Steps that leave every row and every stage alone, and the responses too.
Quiet ==
  \/ DeliverEvent \/ EventsDrained \/ ResponsesDrained \/ NoInput \/ OtherRequest
  \/ Shutdown \/ EndOfInput \/ StopNext \/ Closed \/ StopTimeout \/ Start
  \/ \E l \in Libraries : CloseLibrary(l)
  \/ \E r \in Roots : BindRoot(r)
  \/ \E j \in Jobs : CancelJob(j) \/ EmitNext(j)
  \/ \E j \in Scans : ScanProgress(j)
  \/ UNCHANGED vars

\* A job that has a thread or a worker goes on.
Advance(j) ==
  \/ j \in Scans /\ (BeginProbe(j) \/ EndProbe(j) \/ RefuseProbe(j) \/ FinishScan(j))
  \/ j \in Renditions /\ Worker(j)

Recover(l) == OpenLibrary(l) \/ OpenFails(l)

GoDown == Exit \/ Crash \/ \E l \in Libraries : CrashWhileOpening(l)

LEMMA Kinds ==
  ASSUME [Next]_vars
  PROVE  \/ Quiet \/ TakeResponse \/ TakeWork \/ GoDown
         \/ \E l \in Libraries : Recover(l)
         \/ \E j \in Scans : AddRoot(j) \/ ScanRoot(j)
         \/ \E j \in Renditions : AuthorizeResource(j)
         \/ \E j \in Jobs : Advance(j) \/ Complete(j)
<1>1. CASE MainLoop
  BY <1>1 DEF MainLoop, Quiet, Recover, GoDown
<1>2. CASE \E j \in Scans : ScanThread(j)
  BY <1>2 DEF ScanThread, Quiet, Advance, Jobs
<1>3. CASE Next /\ ~MainLoop
  BY <1>2, <1>3 DEF Next, Farewell, Quiet, Advance, Jobs, GoDown
<1>4. CASE UNCHANGED vars
  BY <1>4 DEF Quiet
<1> QED BY <1>1, <1>3, <1>4

LEMMA QuietKeeps ==
  ASSUME Quiet
  PROVE  /\ UNCHANGED <<ledger, stage, sessionOf, epoch, responses, inflight,
                        asked, answered>>
         /\ controls' \subseteq controls
         /\ open' \subseteq open
<1>1. CASE \/ DeliverEvent \/ EventsDrained \/ ResponsesDrained \/ NoInput
           \/ OtherRequest \/ Shutdown \/ EndOfInput \/ StopNext
  BY <1>1 DEF DeliverEvent, EventsDrained, ResponsesDrained, NoInput, OtherRequest,
              Shutdown, EndOfInput, StopNext, Wait, Control, Reaped, Remaining,
              database, sessions, work, pool, client
<1>2. CASE \/ Closed \/ StopTimeout \/ Start \/ UNCHANGED vars
           \/ \E l \in Libraries : CloseLibrary(l)
           \/ \E r \in Roots : BindRoot(r)
  BY <1>2 DEF Closed, StopTimeout, Start, CloseLibrary, BindRoot, Wait, Control,
              Reaped, Remaining, vars, database, sessions, work, pool, client
<1>3. CASE \/ \E j \in Jobs : CancelJob(j) \/ EmitNext(j)
           \/ \E j \in Scans : ScanProgress(j)
  BY <1>3 DEF CancelJob, EmitNext, ScanProgress, Control, Reaped, database,
              sessions, work, pool, client
<1> QED BY <1>1, <1>2, <1>3 DEF Quiet

LEMMA AdvanceKeeps ==
  ASSUME IInv, NEW j \in Jobs, Advance(j)
  PROVE  /\ UNCHANGED <<sessionOf, open, epoch, bound, controls, responses,
                        inflight, asked, answered, mode, stop>>
         /\ stage[j] \notin {"idle", "channel", "done"}
         /\ stage'[j] \notin {"idle", "channel", "done"}
         /\ ledger[j] \in ActiveStates /\ ledger'[j] # "absent"
         /\ \A k \in Jobs \ {j} : stage'[k] = stage[k] /\ ledger'[k] = ledger[k]
<1>1. ledger \in [Jobs -> JobStates] /\ stage \in [Jobs -> Stages]
  BY DEF IInv, TypeOK
<1>2. CASE j \in Scans /\ (BeginProbe(j) \/ EndProbe(j) \/ RefuseProbe(j))
  <2>1. PICK from, to \in {"run", "probe"} : MoveScan(j, from, to)
    BY <1>2 DEF BeginProbe, EndProbe, RefuseProbe
  <2>2. ledger[j] = "running"
    BY <2>1 DEF MoveScan, IInv, JobInv, StageMatchesRow
  <2> QED BY <1>1, <2>1, <2>2
          DEF MoveScan, database, sessions, pool, loop, client, ActiveStates
<1>3. CASE j \in Scans /\ FinishScan(j)
  <2>1. ledger[j] = "running" /\ stage[j] = "run"
    BY <1>3 DEF FinishScan, ConcludeScan, Leave, IInv, JobInv, StageMatchesRow
  <2>2. /\ \E to \in {"emit", "abort"} : stage' = [stage EXCEPT ![j] = to]
        /\ \E row \in {"running"} \union TerminalStates :
             ledger' = [ledger EXCEPT ![j] = row]
    BY <1>1, <1>3, <2>1 DEF FinishScan, ConcludeScan, Leave, TerminalStates, database
  <2>3. UNCHANGED <<sessionOf, open, epoch, bound, controls, responses,
                    inflight, asked, answered, mode, stop>>
    BY <1>3 DEF FinishScan, ConcludeScan, Leave, sessions, pool, loop, client
  <2> QED BY <1>1, <2>1, <2>2, <2>3 DEF ActiveStates, TerminalStates
<1>4. CASE j \in Renditions /\ StartRendition(j)
  <2>1. ledger[j] = "queued"
    BY <1>4 DEF StartRendition, IInv, JobInv, StageMatchesRow
  <2> QED BY <1>1, <1>4, <2>1
          DEF StartRendition, ActiveStates, sessions, pool, loop, client
<1>5. CASE j \in Renditions /\ FinishRendition(j)
  <2>1. ledger[j] = "running" /\ stage[j] = "run"
    BY <1>5 DEF FinishRendition, Leave, IInv, JobInv, StageMatchesRow
  <2>2. /\ \E to \in {"emit", "abort"} : stage' = [stage EXCEPT ![j] = to]
        /\ \E row \in {"running"} \union TerminalStates :
             ledger' = [ledger EXCEPT ![j] = row]
    BY <1>1, <1>5, <2>1 DEF FinishRendition, Leave, TerminalStates
  <2>3. UNCHANGED <<sessionOf, open, epoch, bound, controls, responses,
                    inflight, asked, answered, mode, stop>>
    BY <1>5 DEF FinishRendition, Leave, sessions, pool, loop, client
  <2> QED BY <1>1, <2>1, <2>2, <2>3 DEF ActiveStates, TerminalStates
<1> QED BY <1>2, <1>3, <1>4, <1>5 DEF Advance, Worker

\* A worker takes a job that was waiting in the queue.
LEMMA TakeWorkKeeps ==
  ASSUME IInv, TakeWork
  PROVE  /\ UNCHANGED <<ledger, rootState, sessionOf, open, epoch, bound, controls,
                        responses, inflight, asked, answered, mode, stop>>
         /\ \E j \in Renditions :
              /\ stage[j] = "channel" /\ stage'[j] = "start"
              /\ \A k \in Jobs \ {j} : stage'[k] = stage[k]
<1>1. Head(channel) \in Renditions /\ Head(channel) = channel[1] /\ 1 \in DOMAIN channel
  BY HeadTailProperties, LenProperties DEF TakeWork, IInv, TypeOK
<1>2. stage[Head(channel)] = "channel"
  BY <1>1 DEF IInv, JobInv, ChannelMatchesStage
<1>3. stage'[Head(channel)] = "start"
   /\ \A k \in Jobs \ {Head(channel)} : stage'[k] = stage[k]
  BY <1>1 DEF TakeWork, IInv, TypeOK, Jobs
<1>4. UNCHANGED <<ledger, rootState, sessionOf, open, epoch, bound, controls,
                  responses, inflight, asked, answered, mode, stop>>
  BY DEF TakeWork, database, sessions, loop, client
<1> QED BY <1>1, <1>2, <1>3, <1>4

LEMMA RecoverKeeps ==
  ASSUME IInv, NEW l \in Libraries, Recover(l)
  PROVE  /\ UNCHANGED <<sessionOf, bound, stage, responses, inflight, asked, answered>>
         /\ l \notin open /\ ledger' = RecoveredJobs(l)
         /\ \A j \in Jobs : ledger[j] # "absent" => ledger'[j] # "absent"
         /\ \A j \in Jobs : Library(j) # l => ledger'[j] = ledger[j]
         /\ controls' \subseteq controls /\ mode' = "events"
<1>1. /\ UNCHANGED <<sessionOf, bound, stage, responses, inflight, asked, answered>>
      /\ l \notin open /\ ledger' = RecoveredJobs(l)
      /\ controls' \subseteq controls /\ mode' = "events"
  <2>1. CASE OpenLibrary(l)
    BY <2>1 DEF OpenLibrary, Request, Control, Reaped, pool, client
  <2>2. CASE OpenFails(l)
    BY <2>2 DEF OpenFails, PartOfRecovery, Request, Control, Reaped, sessions,
                pool, client
  <2> QED BY <2>1, <2>2 DEF Recover
<1> QED BY <1>1 DEF RecoveredJobs

LEMMA BeginScanKeeps ==
  ASSUME IInv, NEW j \in Scans, AddRoot(j) \/ ScanRoot(j)
  PROVE  /\ UNCHANGED <<open, epoch, responses, inflight, asked, answered>>
         /\ Library(j) \in open /\ ScanSlotFree /\ ~RootBusy(RootOf[j])
         /\ stage[j] = "idle" /\ stage'[j] = "run" /\ ledger'[j] = "running"
         /\ sessionOf'[j] = epoch[Library(j)]
         /\ rootState' = [rootState EXCEPT ![RootOf[j]] = "scanning"]
         /\ \A k \in Jobs \ {j} : /\ stage'[k] = stage[k] /\ ledger'[k] = ledger[k]
                                  /\ sessionOf'[k] = sessionOf[k]
         /\ controls' = Reaped \union {j} /\ mode' = "events"
         /\ bound \subseteq bound' /\ RootOf[j] \in bound'
<1>1. j \in Jobs /\ BeginScan(j) /\ Request
  BY DEF AddRoot, ScanRoot, Jobs
<1>2. ledger[j] = "absent" /\ stage[j] = "idle"
  BY <1>1 DEF BeginScan, IInv, JobInv, StageMatchesRow
<1>3. bound \subseteq bound' /\ RootOf[j] \in bound'
  BY DEF AddRoot, ScanRoot
<1> QED BY <1>1, <1>2, <1>3 DEF BeginScan, Request, IInv, TypeOK, Control, pool, client

LEMMA AuthorizeKeeps ==
  ASSUME IInv, NEW j \in Renditions, AuthorizeResource(j)
  PROVE  /\ UNCHANGED <<rootState, open, epoch, bound, responses>>
         /\ ledger[j] = "absent" /\ stage[j] = "idle" /\ ledger'[j] # "absent"
         /\ \A k \in Jobs \ {j} : ledger'[k] = ledger[k]
         /\ asked' = asked \union {j} /\ mode' = "events"
         /\ \/ /\ UNCHANGED <<sessionOf, controls, stage, inflight>>
               /\ answered' = answered \union {j}
            \/ /\ \A k \in Jobs \ {j} : stage'[k] = stage[k] /\ sessionOf'[k] = sessionOf[k]
               /\ stage'[j] = "channel" /\ sessionOf'[j] = epoch[Library(j)]
               /\ RootOf[j] \in bound
               /\ controls' = controls \union {j}
               /\ inflight' = inflight + 1 /\ inflight < MaxWork
               /\ UNCHANGED answered
<1>1. j \in Jobs
  BY DEF Jobs
<1>2. ledger[j] = "absent" /\ stage[j] = "idle"
  BY <1>1 DEF AuthorizeResource, IInv, JobInv, StageMatchesRow
<1>3. UNCHANGED <<rootState, open, epoch, bound, responses>>
   /\ asked' = asked \union {j} /\ mode' = "events" /\ RootOf[j] \in bound
   /\ inflight < MaxWork /\ (Refuse(j) \/ Admit(j))
  BY DEF AuthorizeResource, WorkSlotFree, Request, sessions
<1>4. CASE Refuse(j)
  BY <1>1, <1>2, <1>3, <1>4 DEF Refuse, IInv, TypeOK
<1>5. CASE Admit(j)
  BY <1>1, <1>2, <1>3, <1>5 DEF Admit, IInv, TypeOK, Control
<1> QED BY <1>3, <1>4, <1>5

LEMMA CompleteKeeps ==
  ASSUME IInv, NEW j \in Jobs, Complete(j)
  PROVE  /\ UNCHANGED <<ledger, rootState, sessionOf, open, epoch, bound, controls,
                        inflight, asked, answered, mode, stop>>
         /\ stage[j] \in {"emit", "abort"} /\ stage'[j] = "done"
         /\ \A k \in Jobs \ {j} : stage'[k] = stage[k]
         /\ responses' = Respond(j)
BY DEF Complete, IInv, TypeOK, database, sessions, loop, client

LEMMA GoDownLoses ==
  ASSUME GoDown
  PROVE  \E m : Lose(m)
BY DEF GoDown, Exit, Crash, CrashWhileOpening

-----------------------------------------------------------------------------
(* The pool: one place counted for every request that waits for a reply.   *)

LEMMA OutstandingJobs == Outstanding \subseteq Renditions /\ Renditions \subseteq Jobs
BY DEF Outstanding, Jobs

\* Most steps neither fill nor empty a place.
LEMMA PoolSame ==
  ASSUME IInv, PoolInv, UNCHANGED <<responses, inflight, asked, answered>>,
         \A j \in Jobs : Unfinished(j)' <=> Unfinished(j),
         \A j \in Jobs : ledger[j] # "absent" => ledger'[j] # "absent"
  PROVE  PoolInv'
<1>1. Outstanding' = Outstanding
  BY DEF Outstanding, InPool, Jobs
<1>2. AskedHaveRows'
  BY DEF PoolInv, AskedHaveRows, IInv, TypeOK, Jobs
<1>3. OneResponseEach'
  BY DEF PoolInv, OneResponseEach
<1> QED BY <1>1, <1>2, <1>3 DEF PoolInv, InflightIsExact, OneReplyEach

\* A finished job leaves the pool through its response only.
LEMMA PoolComplete ==
  ASSUME IInv, PoolInv, NEW j \in Renditions, Complete(j)
  PROVE  PoolInv'
<1> DEFINE R == [job : Renditions, ok : BOOLEAN]
           e == [job |-> j, ok |-> Generated(j)]
<1>1. e \in R /\ e.job = j /\ responses \in Seq(R)
  BY DEF Generated, IInv, TypeOK
<1>2. responses' = Append(responses, e)
  BY CompleteKeeps DEF Respond, Jobs
<1> HIDE DEF R, e
<1>3. /\ Len(responses) \in Nat /\ DOMAIN responses = 1 .. Len(responses)
      /\ DOMAIN responses' = 1 .. Len(responses) + 1
      /\ responses'[Len(responses) + 1] = e
      /\ \A i \in 1 .. Len(responses) : responses'[i] = responses[i]
  BY <1>1, <1>2, AppendProperties, LenProperties
<1>4. /\ j \in Jobs /\ stage[j] \in {"emit", "abort"} /\ stage'[j] = "done"
      /\ \A k \in Jobs \ {j} : stage'[k] = stage[k]
      /\ UNCHANGED <<ledger, inflight, asked, answered>>
  BY CompleteKeeps DEF Jobs
<1>5. \A i \in DOMAIN responses : responses[i].job # j
  BY <1>4 DEF IInv, JobInv, ResponsesAreDone
<1>6. OneResponseEach'
  BY <1>1, <1>3, <1>5 DEF PoolInv, OneResponseEach
<1>7. Outstanding' = Outstanding
  <2>1. \A k \in Renditions \ {j} : InPool(k)' <=> InPool(k)
    BY <1>1, <1>3, <1>4 DEF InPool, Unfinished, Jobs
  <2>2. InPool(j)' /\ InPool(j)
    BY <1>1, <1>3, <1>4 DEF InPool, Unfinished
  <2> QED BY <2>1, <2>2 DEF Outstanding
<1>8. AskedHaveRows'
  BY <1>4 DEF PoolInv, AskedHaveRows
<1> QED BY <1>4, <1>6, <1>7, <1>8 DEF PoolInv, InflightIsExact, OneReplyEach

\* The main loop empties the place of the request it answers.
LEMMA PoolTake ==
  ASSUME IInv, PoolInv, TakeResponse
  PROVE  PoolInv'
<1> DEFINE R == [job : Renditions, ok : BOOLEAN]
<1>1. responses \in Seq(R) /\ responses # << >>
  BY DEF TakeResponse, IInv, TypeOK
<1> HIDE DEF R
<1>2. /\ Head(responses) = responses[1] /\ 1 \in DOMAIN responses
      /\ DOMAIN responses = 1 .. Len(responses) /\ Len(responses) \in Nat
      /\ responses' = Tail(responses)
      /\ DOMAIN responses' = 1 .. Len(responses) - 1
      /\ \A i \in DOMAIN responses' : responses'[i] = responses[i + 1]
  BY <1>1, HeadTailProperties, LenProperties DEF TakeResponse
<1>3. PICK j \in Renditions : j = Head(responses).job /\ stage[j] = "done"
  BY <1>2, QueuesTyped DEF IInv, JobInv, ResponsesAreDone
<1>4. /\ UNCHANGED <<ledger, stage, asked>> /\ answered' = answered \union {j}
      /\ inflight' = Released(inflight)
  BY <1>3 DEF TakeResponse, database
<1>5. \A i \in DOMAIN responses' : i + 1 \in DOMAIN responses /\ i + 1 # 1
  BY <1>2
<1>6. \A i, k \in DOMAIN responses' : i + 1 = k + 1 => i = k
  BY <1>2
<1>7. OneResponseEach'
  BY <1>2, <1>5, <1>6 DEF PoolInv, OneResponseEach
<1>8. \A i \in DOMAIN responses' : responses'[i].job # j
  BY <1>2, <1>3, <1>5 DEF PoolInv, OneResponseEach
<1>9. Outstanding' = Outstanding \ {j} /\ j \in Outstanding
  <2>1. ~InPool(j)' /\ InPool(j)
    BY <1>2, <1>3, <1>4, <1>8 DEF InPool, Unfinished
  <2>2. ASSUME NEW k \in Renditions \ {j} PROVE InPool(k)' <=> InPool(k)
    <3>1. ASSUME NEW i \in DOMAIN responses, responses[i].job = k
          PROVE  \E m \in DOMAIN responses' : responses'[m].job = k
      <4>1. i # 1
        BY <1>2, <1>3, <3>1
      <4>2. i - 1 \in DOMAIN responses' /\ (i - 1) + 1 = i
        BY <1>2, <4>1
      <4>3. responses'[i - 1] = responses[i]
        BY <1>2, <4>2
      <4> QED BY <3>1, <4>2, <4>3
    <3>2. ASSUME NEW m \in DOMAIN responses', responses'[m].job = k
          PROVE  \E i \in DOMAIN responses : responses[i].job = k
      BY <1>2, <1>5, <3>2
    <3> QED BY <1>4, <3>1, <3>2 DEF InPool, Unfinished
  <2> QED BY <1>3, <2>1, <2>2 DEF Outstanding
<1>10. IsFiniteSet(Outstanding') /\ InflightIsExact'
  <2>1. IsFiniteSet(Outstanding) /\ inflight = Cardinality(Outstanding)
     /\ inflight <= MaxWork
    BY DEF PoolInv, InflightIsExact
  <2>2. /\ IsFiniteSet(Outstanding \ {j})
        /\ Cardinality(Outstanding \ {j}) = Cardinality(Outstanding) - 1
        /\ Cardinality(Outstanding \ {j}) \in Nat
    BY <1>9, <2>1, FS_RemoveElement, FS_CardinalityType
  <2>3. inflight' = inflight - 1
    BY <1>4, <2>1, <2>2 DEF Released, IInv, TypeOK
  <2> QED BY <1>9, <2>1, <2>2, <2>3, BoundsAssumption DEF InflightIsExact, IInv, TypeOK
<1>11. AskedHaveRows' /\ OneReplyEach'
  BY <1>4, <1>9 DEF PoolInv, AskedHaveRows, OneReplyEach
<1> QED BY <1>7, <1>10, <1>11 DEF PoolInv

\* A request that gets a job gets its place, or its refusal, at once.
LEMMA PoolAuthorize ==
  ASSUME IInv, PoolInv, NEW j \in Renditions, AuthorizeResource(j)
  PROVE  PoolInv'
<1>1. j \in Jobs /\ ledger[j] = "absent" /\ UNCHANGED responses
   /\ asked' = asked \union {j} /\ ledger'[j] # "absent"
   /\ \A k \in Jobs \ {j} : ledger'[k] = ledger[k]
  BY AuthorizeKeeps DEF Jobs
<1>2. j \notin asked
  BY <1>1 DEF PoolInv, AskedHaveRows
<1>3. j \notin answered /\ j \notin Outstanding
  BY <1>2 DEF PoolInv, OneReplyEach
<1>4. AskedHaveRows'
  BY <1>1 DEF PoolInv, AskedHaveRows, IInv, TypeOK, Jobs
<1>5. OneResponseEach'
  BY <1>1 DEF PoolInv, OneResponseEach
<1>6. CASE UNCHANGED <<stage, inflight>> /\ answered' = answered \union {j}
  <2>1. Outstanding' = Outstanding
    BY <1>1, <1>6 DEF Outstanding, InPool, Unfinished
  <2> QED BY <1>1, <1>3, <1>4, <1>5, <1>6, <2>1
          DEF PoolInv, InflightIsExact, OneReplyEach
<1>7. CASE /\ \A k \in Jobs \ {j} : stage'[k] = stage[k]
           /\ stage'[j] = "channel"
           /\ inflight' = inflight + 1 /\ inflight < MaxWork
           /\ UNCHANGED answered
  <2>1. Outstanding' = Outstanding \union {j}
    BY <1>1, <1>7 DEF Outstanding, InPool, Unfinished, Jobs
  <2>2. IsFiniteSet(Outstanding') /\ Cardinality(Outstanding') = Cardinality(Outstanding) + 1
    BY <1>3, <2>1, FS_AddElement DEF PoolInv
  <2>3. InflightIsExact'
    BY <1>7, <2>2, BoundsAssumption DEF PoolInv, InflightIsExact, IInv, TypeOK
  <2> QED BY <1>1, <1>2, <1>3, <1>4, <1>5, <1>7, <2>1, <2>2, <2>3
          DEF PoolInv, OneReplyEach
<1> QED BY <1>6, <1>7, AuthorizeKeeps

LEMMA PoolLose ==
  ASSUME NEW m, Lose(m)
  PROVE  PoolInv'
<1>1. Outstanding' = {}
  BY EmptySeq DEF Lose, Outstanding, InPool, Unfinished, Jobs
<1>2. IsFiniteSet({}) /\ Cardinality({}) = 0
  BY FS_EmptySet
<1> QED BY <1>1, <1>2, EmptySeq, BoundsAssumption
        DEF Lose, PoolInv, OneResponseEach, AskedHaveRows, InflightIsExact,
            OneReplyEach

LEMMA PoolStep ==
  ASSUME IInv, PoolInv, [Next]_vars
  PROVE  PoolInv'
<1>1. CASE Quiet
  BY <1>1, QuietKeeps, PoolSame DEF Unfinished
<1>2. CASE TakeWork
  <2>1. \A j \in Jobs : Unfinished(j)' <=> Unfinished(j)
    BY <1>2, TakeWorkKeeps DEF Unfinished, Jobs
  <2> QED BY <1>2, <2>1, TakeWorkKeeps, PoolSame
<1>3. ASSUME NEW l \in Libraries, Recover(l) PROVE PoolInv'
  BY <1>3, RecoverKeeps, PoolSame DEF Unfinished
<1>4. ASSUME NEW j \in Jobs, Advance(j) PROVE PoolInv'
  <2>1. \A k \in Jobs : Unfinished(k)' <=> Unfinished(k)
    BY <1>4, AdvanceKeeps DEF Unfinished
  <2> QED BY <1>4, <2>1, AdvanceKeeps, PoolSame
<1>5. ASSUME NEW j \in Scans, AddRoot(j) \/ ScanRoot(j) PROVE PoolInv'
  <2>1. \A k \in Renditions : Unfinished(k)' <=> Unfinished(k)
    BY <1>5, BeginScanKeeps, JobsAssumption DEF Unfinished, Jobs
  <2>2. Outstanding' = Outstanding
    BY <1>5, <2>1, BeginScanKeeps DEF Outstanding, InPool
  <2>3. \A k \in asked : k \in Renditions /\ k \in Jobs /\ k # j
    BY JobsAssumption DEF IInv, TypeOK, Jobs
  <2>4. UNCHANGED <<asked, responses>> /\ \A k \in Jobs \ {j} : ledger'[k] = ledger[k]
    BY <1>5, BeginScanKeeps
  <2>5. AskedHaveRows'
    BY <2>3, <2>4 DEF PoolInv, AskedHaveRows
  <2>6. OneResponseEach'
    BY <2>4 DEF PoolInv, OneResponseEach
  <2> QED BY <1>5, <2>2, <2>5, <2>6, BeginScanKeeps DEF PoolInv, InflightIsExact, OneReplyEach
<1>6. ASSUME NEW j \in Jobs, Complete(j) PROVE PoolInv'
  <2>1. CASE j \in Renditions
    BY <1>6, <2>1, PoolComplete
  <2>2. CASE j \notin Renditions
    <3>1. UNCHANGED <<ledger, responses, inflight, asked, answered>>
      BY <1>6, <2>2, CompleteKeeps DEF Respond
    <3>2. \A k \in Renditions : Unfinished(k)' <=> Unfinished(k)
      BY <1>6, <2>2, CompleteKeeps DEF Unfinished, Jobs
    <3>3. Outstanding' = Outstanding
      BY <3>1, <3>2 DEF Outstanding, InPool
    <3> QED BY <3>1, <3>3 DEF PoolInv, AskedHaveRows, OneResponseEach,
                              InflightIsExact, OneReplyEach
  <2> QED BY <2>1, <2>2
<1>7. CASE GoDown
  BY <1>7, GoDownLoses, PoolLose
<1>8. ASSUME NEW j \in Renditions, AuthorizeResource(j) PROVE PoolInv'
  BY <1>8, PoolAuthorize
<1> QED BY <1>1, <1>2, <1>3, <1>4, <1>5, <1>6, <1>7, <1>8, PoolTake, Kinds

LEMMA PoolInit == Init => PoolInv
<1> SUFFICES ASSUME Init PROVE PoolInv
    OBVIOUS
<1>1. Outstanding = {}
  BY EmptySeq DEF Init, Outstanding, InPool, Unfinished, Jobs
<1>2. IsFiniteSet({}) /\ Cardinality({}) = 0
  BY FS_EmptySet
<1> QED BY <1>1, <1>2, EmptySeq, BoundsAssumption
        DEF Init, PoolInv, OneResponseEach, AskedHaveRows, InflightIsExact,
            OneReplyEach

\* What the counter of renditions rests on: a request that was counted is
\* answered or outstanding, and has one response in the channel at most.
THEOREM PoolInvariance == Spec => []PoolInv
<1>1. IInv /\ PoolInv /\ [Next]_vars => PoolInv'
  BY PoolStep
<1> QED BY <1>1, PoolInit, Invariance, PTL DEF Spec

\* resource_inflight counts the requests that wait, and never more than
\* MAX_RENDITION_WORK of them.
THEOREM PoolIsCounted == Spec => []InflightIsExact
<1>1. PoolInv => InflightIsExact
  BY DEF PoolInv
<1> QED BY <1>1, PoolInvariance, PTL

\* A request that got a job was answered or still waits, never both.
THEOREM RepliesAreUnique == Spec => []OneReplyEach
<1>1. PoolInv => OneReplyEach
  BY DEF PoolInv
<1> QED BY <1>1, PoolInvariance, PTL

-----------------------------------------------------------------------------
(* The scans: how many walk at once, and what a root says of them.         *)

Walking == {j \in Scans : Unfinished(j)}

\* The controls stay finite, so a smaller set of threads is a smaller number.
LEMMA FewerWalk ==
  ASSUME IInv, ScanInv, controls' \subseteq controls, Walking' \subseteq Walking
  PROVE  IsFiniteSet(controls') /\ ScanLimit'
<1>1. Walking \subseteq controls
  BY DEF Walking, IInv, JobInv, WorkIsReachable, Jobs
<1>2. IsFiniteSet(controls') /\ IsFiniteSet(Walking)
  BY <1>1, FS_Subset DEF ScanInv
<1>3. /\ Cardinality(Walking') <= Cardinality(Walking)
      /\ Cardinality(Walking') \in Nat /\ Cardinality(Walking) \in Nat
  BY <1>2, FS_Subset, FS_CardinalityType
<1>4. Cardinality(Walking) <= MaxScans
  BY DEF ScanInv, ScanLimit, Walking
<1> QED BY <1>2, <1>3, <1>4, BoundsAssumption DEF ScanLimit, Walking

\* A scan is admitted by the number of controls that reaping left, and each
\* thread that walks has one of them.
LEMMA OneMoreWalks ==
  ASSUME IInv, ScanInv, NEW j \in Scans, AddRoot(j) \/ ScanRoot(j)
  PROVE  IsFiniteSet(controls') /\ ScanLimit'
<1>1. /\ Walking \subseteq Reaped \intersect Scans
      /\ IsFiniteSet(Reaped)
  <2>1. Walking \subseteq Reaped \intersect Scans
    BY DEF Walking, IInv, JobInv, WorkIsReachable, Jobs, Reaped, FinishedScans,
           Unfinished
  <2>2. IsFiniteSet(Reaped)
    BY FS_Subset DEF ScanInv, Reaped
  <2> QED BY <2>1, <2>2
<1>2. /\ IsFiniteSet(Walking)
      /\ Cardinality(Walking) <= Cardinality(Reaped \intersect Scans)
      /\ Cardinality(Walking) \in Nat
      /\ Cardinality(Reaped \intersect Scans) \in Nat
  <2>1. IsFiniteSet(Reaped \intersect Scans)
    BY <1>1, FS_Subset
  <2> QED BY <1>1, <2>1, FS_Subset, FS_CardinalityType
<1>3. Walking' = Walking \union {j} /\ j \notin Walking
  BY BeginScanKeeps DEF Walking, Unfinished, Jobs
<1>4. Cardinality(Walking') = Cardinality(Walking) + 1
  BY <1>2, <1>3, FS_AddElement
<1>5. Cardinality(Reaped \intersect Scans) < MaxScans
  BY BeginScanKeeps DEF ScanSlotFree
<1>6. IsFiniteSet(controls')
  BY <1>1, BeginScanKeeps, FS_AddElement
<1> QED BY <1>2, <1>4, <1>5, <1>6, BoundsAssumption DEF ScanLimit, Walking

LEMMA ControlsStep ==
  ASSUME IInv, ScanInv, [Next]_vars
  PROVE  IsFiniteSet(controls') /\ ScanLimit'
<1>1. CASE Quiet
  BY <1>1, QuietKeeps, FewerWalk DEF Walking, Unfinished
<1>2. CASE TakeResponse
  BY <1>2, FewerWalk DEF TakeResponse, Control, Walking, Unfinished
<1>3. CASE TakeWork
  <2>1. Walking' \subseteq Walking
    BY <1>3, TakeWorkKeeps, JobsAssumption DEF Walking, Unfinished, Jobs
  <2> QED BY <1>3, <2>1, TakeWorkKeeps, FewerWalk
<1>4. ASSUME NEW l \in Libraries, Recover(l)
      PROVE  IsFiniteSet(controls') /\ ScanLimit'
  BY <1>4, RecoverKeeps, FewerWalk DEF Walking, Unfinished
<1>5. ASSUME NEW j \in Jobs, Advance(j)
      PROVE  IsFiniteSet(controls') /\ ScanLimit'
  <2>1. Walking' \subseteq Walking
    BY <1>5, AdvanceKeeps DEF Walking, Unfinished, Jobs
  <2> QED BY <1>5, <2>1, AdvanceKeeps, FewerWalk
<1>6. ASSUME NEW j \in Jobs, Complete(j)
      PROVE  IsFiniteSet(controls') /\ ScanLimit'
  <2>1. Walking' \subseteq Walking
    BY <1>6, CompleteKeeps DEF Walking, Unfinished, Jobs
  <2> QED BY <1>6, <2>1, CompleteKeeps, FewerWalk
<1>7. ASSUME NEW j \in Renditions, AuthorizeResource(j)
      PROVE  IsFiniteSet(controls') /\ ScanLimit'
  <2>1. Walking' = Walking
    BY <1>7, AuthorizeKeeps, JobsAssumption DEF Walking, Unfinished, Jobs
  <2>2. IsFiniteSet(controls')
    BY <1>7, AuthorizeKeeps, FS_AddElement DEF ScanInv
  <2> QED BY <2>1, <2>2 DEF ScanInv, ScanLimit, Walking
<1>8. CASE GoDown
  <2>1. controls' = {} /\ Walking' = {}
    BY <1>8, GoDownLoses DEF Lose, Walking, Unfinished, Jobs
  <2> QED BY <2>1, FewerWalk
<1> QED BY <1>1, <1>2, <1>3, <1>4, <1>5, <1>6, <1>7, <1>8, OneMoreWalks, Kinds

\* Rows of scans and the state of roots that do not change stay explained,
\* whatever library closes.
LEMMA StillExplained ==
  ASSUME ScanningIsExplained, open' \subseteq open, UNCHANGED rootState,
         \A j \in Scans : ledger'[j] = ledger[j]
  PROVE  ScanningIsExplained'
BY DEF ScanningIsExplained

LEMMA FinishExplained ==
  ASSUME IInv, ScanningIsExplained, NEW j \in Scans, FinishScan(j)
  PROVE  ScanningIsExplained'
<1>1. /\ j \in Jobs /\ RootOf[j] \in Roots /\ ledger[j] = "running"
      /\ UNCHANGED open
  BY JobsAssumption DEF FinishScan, ConcludeScan, Leave, IInv, JobInv,
                        StageMatchesRow, Jobs, sessions
<1>2. ASSUME NEW row \in TerminalStates, NEW root \in {"ready", "connected", "offline", "error"},
             ledger' = [ledger EXCEPT ![j] = row],
             rootState' = [rootState EXCEPT ![RootOf[j]] = root]
      PROVE  ScanningIsExplained'
  <2>1. \A k \in Scans \ {j} : RootOf[k] = RootOf[j] => ledger[k] \notin ActiveStates
    BY <1>1 DEF IInv, JobInv, OneActiveScan, ActiveStates
  <2>2. \A k \in Jobs \ {j} : ledger'[k] = ledger[k]
    BY <1>2 DEF IInv, TypeOK
  <2>3. ledger'[j] \notin ActiveStates
    BY <1>1, <1>2 DEF IInv, TypeOK, ActiveStates, TerminalStates
  <2>4. /\ \A r \in Roots \ {RootOf[j]} : rootState'[r] = rootState[r]
        /\ rootState'[RootOf[j]] # "scanning"
    BY <1>1, <1>2 DEF IInv, TypeOK
  <2> SUFFICES ASSUME NEW r \in Roots, LibraryOf[r] \in open
               PROVE  rootState'[r] = "scanning" <=>
                        \E k \in Scans : RootOf[k] = r /\ ledger'[k] \in ActiveStates
    BY <1>1 DEF ScanningIsExplained
  <2>5. CASE r = RootOf[j]
    BY <2>1, <2>2, <2>3, <2>4, <2>5 DEF Jobs
  <2>6. CASE r # RootOf[j]
    <3>1. \A k \in Scans : RootOf[k] = r => ledger'[k] = ledger[k]
      BY <2>2, <2>6 DEF Jobs
    <3> QED BY <2>4, <2>6, <3>1 DEF ScanningIsExplained
  <2> QED BY <2>5, <2>6
<1>3. CASE UNCHANGED database
  BY <1>1, <1>3, StillExplained DEF database
<1> QED BY <1>2, <1>3 DEF FinishScan, ConcludeScan, TerminalStates

\* A scan that starts is the only one on its root, which says so.
LEMMA BeginExplained ==
  ASSUME IInv, ScanningIsExplained, NEW j \in Scans, AddRoot(j) \/ ScanRoot(j)
  PROVE  ScanningIsExplained'
<1>1. j \in Jobs /\ RootOf[j] \in Roots
  BY JobsAssumption DEF Jobs
<1>2. /\ ledger'[j] \in ActiveStates /\ UNCHANGED open
      /\ \A k \in Jobs \ {j} : ledger'[k] = ledger[k]
      /\ rootState'[RootOf[j]] = "scanning"
      /\ \A r \in Roots \ {RootOf[j]} : rootState'[r] = rootState[r]
  BY <1>1, BeginScanKeeps DEF IInv, TypeOK, ActiveStates
<1> SUFFICES ASSUME NEW r \in Roots, LibraryOf[r] \in open
             PROVE  rootState'[r] = "scanning" <=>
                      \E k \in Scans : RootOf[k] = r /\ ledger'[k] \in ActiveStates
  BY <1>2 DEF ScanningIsExplained
<1>3. CASE r = RootOf[j]
  BY <1>2, <1>3
<1>4. CASE r # RootOf[j]
  <2>1. \A k \in Scans : RootOf[k] = r => ledger'[k] = ledger[k]
    BY <1>2, <1>4 DEF Jobs
  <2> QED BY <1>2, <1>4, <2>1 DEF ScanningIsExplained
<1> QED BY <1>3, <1>4

\* An opening ends every scan row of its library and every scanning root.
LEMMA RecoverExplained ==
  ASSUME IInv, ScanningIsExplained, NEW l \in Libraries, Recover(l)
  PROVE  ScanningIsExplained'
<1>1. CASE OpenLibrary(l)
  <2>1. /\ ledger' = RecoveredJobs(l) /\ rootState' = UnboundRoots(l)
        /\ open' = open \union {l}
    BY <1>1 DEF OpenLibrary
  <2>2. \A j \in Jobs : Library(j) = l => ledger'[j] \notin ActiveStates
    BY <2>1 DEF RecoveredJobs, ActiveStates
  <2>3. \A j \in Jobs : Library(j) # l => ledger'[j] = ledger[j]
    BY <2>1 DEF RecoveredJobs
  <2>4. \A r \in Roots : LibraryOf[r] = l => rootState'[r] # "scanning"
    BY <2>1 DEF UnboundRoots, RecoveredRoots
  <2>5. \A r \in Roots : LibraryOf[r] # l => rootState'[r] = rootState[r]
    BY <2>1 DEF UnboundRoots, RecoveredRoots
  <2> QED BY <2>1, <2>2, <2>3, <2>4, <2>5 DEF ScanningIsExplained, Library, Jobs
<1>2. CASE OpenFails(l)
  <2>1. /\ ledger' = RecoveredJobs(l) /\ UNCHANGED open /\ l \notin open
        /\ rootState' \in {rootState, RecoveredRoots(l), UnboundRoots(l)}
    BY <1>2 DEF OpenFails, PartOfRecovery, sessions
  <2>2. \A j \in Jobs : Library(j) # l => ledger'[j] = ledger[j]
    BY <2>1 DEF RecoveredJobs
  <2>3. \A r \in Roots : LibraryOf[r] # l => rootState'[r] = rootState[r]
    BY <2>1 DEF UnboundRoots, RecoveredRoots
  <2> QED BY <2>1, <2>2, <2>3 DEF ScanningIsExplained, Library, Jobs
<1> QED BY <1>1, <1>2 DEF Recover

LEMMA QuietExplained ==
  ASSUME IInv, ScanningIsExplained, Quiet
  PROVE  ScanningIsExplained'
<1>1. UNCHANGED ledger /\ open' \subseteq open
  BY QuietKeeps
<1>2. CASE \E r \in Roots : BindRoot(r)
  <2>1. PICK r \in Roots : BindRoot(r)
    BY <1>2
  <2>2. /\ rootState'[r] # "scanning"
        /\ \A q \in Roots \ {r} : rootState'[q] = rootState[q]
    BY <2>1 DEF BindRoot, IInv, TypeOK
  <2>3. \A j \in Scans : RootOf[j] = r => ledger[j] \notin ActiveStates
    BY <2>1 DEF BindRoot, RootBusy, Jobs
  <2> QED BY <1>1, <2>2, <2>3 DEF ScanningIsExplained
<1>3. CASE \/ DeliverEvent \/ EventsDrained \/ ResponsesDrained \/ NoInput
           \/ OtherRequest \/ Shutdown \/ EndOfInput \/ StopNext
           \/ Closed \/ StopTimeout \/ Start
           \/ \E l \in Libraries : CloseLibrary(l)
           \/ \E j \in Jobs : CancelJob(j) \/ EmitNext(j)
           \/ \E j \in Scans : ScanProgress(j)
           \/ UNCHANGED vars
  <2>1. UNCHANGED rootState
    BY <1>3 DEF DeliverEvent, EventsDrained, ResponsesDrained, NoInput,
       OtherRequest, Shutdown, EndOfInput, StopNext, Closed, StopTimeout, Start,
       CloseLibrary, CancelJob, EmitNext, ScanProgress, vars, database
  <2> QED BY <1>1, <2>1, StillExplained
<1> QED BY <1>2, <1>3 DEF Quiet

LEMMA ExplainedStep ==
  ASSUME IInv, ScanningIsExplained, [Next]_vars
  PROVE  ScanningIsExplained'
<1>1. CASE TakeResponse
  BY <1>1, StillExplained DEF TakeResponse, database, sessions
<1>2. CASE TakeWork
  BY <1>2, TakeWorkKeeps, StillExplained
<1>3. ASSUME NEW j \in Jobs, Advance(j) PROVE ScanningIsExplained'
  <2>1. CASE j \in Scans /\ FinishScan(j)
    BY <2>1, FinishExplained
  <2>2. CASE j \in Scans /\ (BeginProbe(j) \/ EndProbe(j) \/ RefuseProbe(j))
    BY <2>2, StillExplained
       DEF BeginProbe, EndProbe, RefuseProbe, MoveScan, database, sessions
  <2>3. CASE j \in Renditions /\ Worker(j)
    <3>1. \A k \in Scans : ledger'[k] = ledger[k]
      BY <1>3, <2>3, AdvanceKeeps, JobsAssumption DEF Jobs
    <3>2. UNCHANGED rootState /\ open' \subseteq open
      BY <2>3 DEF Worker, StartRendition, FinishRendition, Leave, sessions
    <3> QED BY <3>1, <3>2, StillExplained
  <2> QED BY <1>3, <2>1, <2>2, <2>3 DEF Advance
<1>4. ASSUME NEW j \in Jobs, Complete(j) PROVE ScanningIsExplained'
  BY <1>4, CompleteKeeps, StillExplained
<1>5. ASSUME NEW j \in Renditions, AuthorizeResource(j) PROVE ScanningIsExplained'
  <2>1. \A k \in Scans : ledger'[k] = ledger[k]
    BY <1>5, AuthorizeKeeps, JobsAssumption DEF Jobs
  <2> QED BY <1>5, <2>1, AuthorizeKeeps, StillExplained
<1>6. CASE GoDown
  <2>1. open' = {}
    BY <1>6, GoDownLoses DEF Lose
  <2> QED BY <2>1 DEF ScanningIsExplained
<1> QED BY <1>1, <1>2, <1>3, <1>4, <1>5, <1>6, QuietExplained, BeginExplained,
           RecoverExplained, Kinds

LEMMA ScanInit == Init => ScanInv
<1> SUFFICES ASSUME Init PROVE ScanInv
    OBVIOUS
<1>1. controls = {} /\ Walking = {}
  BY DEF Init, Walking, Unfinished, Jobs
<1>2. IsFiniteSet({}) /\ Cardinality({}) = 0
  BY FS_EmptySet
<1>3. ScanLimit
  BY <1>1, <1>2, BoundsAssumption DEF ScanLimit, Walking
<1>4. ScanningIsExplained
  BY DEF Init, ScanningIsExplained
<1> QED BY <1>1, <1>2, <1>3, <1>4 DEF ScanInv

\* What the limit of scans rests on: the control map is finite and holds every
\* scan that walks, so its length bounds them.
THEOREM ScanInvariance == Spec => []ScanInv
<1>1. IInv /\ ScanInv /\ [Next]_vars => ScanInv'
  BY ControlsStep, ExplainedStep DEF ScanInv
<1> QED BY <1>1, ScanInit, Invariance, PTL DEF Spec

\* At most MaxScans threads walk at once, though a control leaves the map when
\* its terminal event arrives, when it is reaped and when a session stops.
THEOREM ScansAreLimited == Spec => []ScanLimit
<1>1. ScanInv => ScanLimit
  BY DEF ScanInv
<1> QED BY <1>1, ScanInvariance, PTL

\* In an open library a root says "scanning" exactly while a scan row of it is
\* active, after crashes, failed recoveries and failed writes as well.
THEOREM RootsSayWhatTheirScansDo == Spec => []ScanningIsExplained
<1>1. ScanInv => ScanningIsExplained
  BY DEF ScanInv
<1> QED BY <1>1, ScanInvariance, PTL

-----------------------------------------------------------------------------
(* Grants, and the end of the process.                                     *)

LEMMA SessionsSame ==
  ASSUME SessionsKeepRoots, UNCHANGED <<sessionOf, open, epoch, bound>>,
         \A j \in Jobs : stage'[j] # "idle" => stage[j] # "idle"
  PROVE  SessionsKeepRoots'
BY DEF SessionsKeepRoots, SessionOpen, SessionOf

\* A close takes the authorities of its library with it.
LEMMA SessionsQuiet ==
  ASSUME IInv, SessionsKeepRoots, Quiet
  PROVE  SessionsKeepRoots'
<1>1. UNCHANGED <<stage, sessionOf, epoch>> /\ open' \subseteq open
  BY QuietKeeps
<1>2. \A r \in bound : LibraryOf[r] \in open' => r \in bound'
  <2>1. CASE Closed
    BY <2>1 DEF Closed
  <2>2. CASE \E r \in Roots : BindRoot(r)
    BY <2>2 DEF BindRoot
  <2>3. CASE \/ DeliverEvent \/ EventsDrained \/ ResponsesDrained \/ NoInput
             \/ OtherRequest \/ Shutdown \/ EndOfInput \/ StopNext
             \/ StopTimeout \/ Start
             \/ \E l \in Libraries : CloseLibrary(l)
             \/ \E j \in Jobs : CancelJob(j) \/ EmitNext(j)
             \/ \E j \in Scans : ScanProgress(j)
             \/ UNCHANGED vars
    BY <2>3 DEF DeliverEvent, EventsDrained, ResponsesDrained, NoInput,
       OtherRequest, Shutdown, EndOfInput, StopNext, StopTimeout, Start,
       CloseLibrary, CancelJob, EmitNext, ScanProgress, vars, sessions
  <2> QED BY <2>1, <2>2, <2>3 DEF Quiet
<1> QED BY <1>1, <1>2 DEF SessionsKeepRoots, SessionOpen, SessionOf, Library

\* An opening is a new session, to which no job belongs yet.
LEMMA SessionsRecover ==
  ASSUME IInv, SessionsKeepRoots, NEW l \in Libraries, Recover(l)
  PROVE  SessionsKeepRoots'
<1>1. UNCHANGED <<sessionOf, bound, stage>>
  BY RecoverKeeps
<1>2. CASE OpenFails(l)
  BY <1>1, <1>2, SessionsSame DEF OpenFails, sessions
<1>3. CASE OpenLibrary(l)
  <2>1. /\ open' = open \union {l} /\ epoch'[l] = epoch[l] + 1
        /\ \A m \in Libraries \ {l} : epoch'[m] = epoch[m]
    BY <1>3 DEF OpenLibrary, IInv, TypeOK
  <2> SUFFICES ASSUME NEW j \in Jobs, stage[j] # "idle"
               PROVE  /\ sessionOf[j] <= epoch'[Library(j)]
                      /\ SessionOpen(SessionOf(j))' => RootOf[j] \in bound
    BY <1>1 DEF SessionsKeepRoots, Library
  <2>2. /\ sessionOf[j] <= epoch[Library(j)] /\ Library(j) \in Libraries
        /\ sessionOf[j] \in Nat /\ epoch[Library(j)] \in Nat
        /\ SessionOpen(SessionOf(j)) => RootOf[j] \in bound
    BY JobsAssumption DEF SessionsKeepRoots, Library, IInv, TypeOK
  <2>3. CASE Library(j) = l
    <3>1. sessionOf[j] < epoch'[Library(j)]
      BY <2>1, <2>2, <2>3
    <3>2. ~SessionOpen(SessionOf(j))'
      BY <1>1, <2>2, <3>1 DEF SessionOpen, SessionOf, Library
    <3> QED BY <2>1, <2>2, <2>3, <3>1, <3>2
  <2>4. CASE Library(j) # l
    <3>1. epoch'[Library(j)] = epoch[Library(j)]
      BY <2>1, <2>2, <2>4
    <3>2. SessionOpen(SessionOf(j))' => SessionOpen(SessionOf(j))
      BY <1>1, <2>1, <2>4, <3>1 DEF SessionOpen, SessionOf, Library
    <3> QED BY <2>2, <3>1, <3>2
  <2> QED BY <2>3, <2>4
<1> QED BY <1>2, <1>3 DEF Recover

LEMMA SessionsStep ==
  ASSUME IInv, SessionsKeepRoots, [Next]_vars
  PROVE  SessionsKeepRoots'
<1>1. CASE TakeResponse
  BY <1>1, SessionsSame DEF TakeResponse, sessions
<1>2. CASE TakeWork
  <2>1. \A j \in Jobs : stage'[j] # "idle" => stage[j] # "idle"
    BY <1>2, TakeWorkKeeps DEF Jobs
  <2> QED BY <1>2, <2>1, TakeWorkKeeps, SessionsSame
<1>3. ASSUME NEW j \in Jobs, Advance(j) \/ Complete(j) PROVE SessionsKeepRoots'
  <2>1. \A k \in Jobs : stage'[k] # "idle" => stage[k] # "idle"
    BY <1>3, AdvanceKeeps, CompleteKeeps
  <2>2. UNCHANGED <<sessionOf, open, epoch, bound>>
    BY <1>3, AdvanceKeeps, CompleteKeeps
  <2> QED BY <2>1, <2>2, SessionsSame
<1>4. ASSUME NEW j \in Scans, AddRoot(j) \/ ScanRoot(j) PROVE SessionsKeepRoots'
  <2>1. j \in Jobs /\ Library(j) \in Libraries /\ epoch[Library(j)] \in Nat
    BY JobsAssumption DEF Jobs, Library, IInv, TypeOK
  <2>2. /\ sessionOf'[j] = epoch[Library(j)] /\ RootOf[j] \in bound'
        /\ UNCHANGED <<open, epoch>> /\ bound \subseteq bound'
        /\ \A k \in Jobs \ {j} : stage'[k] = stage[k] /\ sessionOf'[k] = sessionOf[k]
    BY <1>4, BeginScanKeeps
  <2> QED BY <2>1, <2>2 DEF SessionsKeepRoots, SessionOpen, SessionOf, Library
<1>5. ASSUME NEW j \in Renditions, AuthorizeResource(j) PROVE SessionsKeepRoots'
  <2>1. j \in Jobs /\ Library(j) \in Libraries /\ epoch[Library(j)] \in Nat
    BY JobsAssumption DEF Jobs, Library, IInv, TypeOK
  <2>2. CASE UNCHANGED <<sessionOf, stage>>
    BY <1>5, <2>2, AuthorizeKeeps, SessionsSame
  <2>3. CASE /\ \A k \in Jobs \ {j} : stage'[k] = stage[k] /\ sessionOf'[k] = sessionOf[k]
             /\ sessionOf'[j] = epoch[Library(j)] /\ RootOf[j] \in bound
    <3>1. UNCHANGED <<open, epoch, bound>>
      BY <1>5, AuthorizeKeeps
    <3> QED BY <2>1, <2>3, <3>1 DEF SessionsKeepRoots, SessionOpen, SessionOf, Library
  <2> QED BY <1>5, <2>2, <2>3, AuthorizeKeeps
<1>6. CASE GoDown
  BY <1>6, GoDownLoses DEF Lose, SessionsKeepRoots
<1> QED BY <1>1, <1>2, <1>3, <1>4, <1>5, <1>6, SessionsQuiet, SessionsRecover, Kinds

\* A row that is terminal stays so: the response that waits remains true.
LEMMA DescriptorsStep ==
  ASSUME IInv, DescriptorsAreCompleted, [Next]_vars
  PROVE  DescriptorsAreCompleted'
<1> DEFINE R == [job : Renditions, ok : BOOLEAN]
<1>1. \A j \in Jobs : ledger[j] = "completed" => ledger'[j] = "completed"
  <2>1. [Ledger!Next]_ledger /\ ledger \in [Jobs -> JobStates]
    BY LedgerStep DEF IInv, TypeOK
  <2> QED BY <2>1 DEF Ledger!Next, Ledger!StartScan, Ledger!Submit, Ledger!Begin,
          Ledger!End, Ledger!Recover, Ledger!Active, Ledger!Jobs, Jobs
<1>2. responses \in Seq(R)
  BY DEF IInv, TypeOK
<1> HIDE DEF R
<1>3. \A i \in DOMAIN responses : responses[i].job \in Jobs
  BY QueuesTyped DEF IInv, Jobs
<1>4. CASE UNCHANGED responses
  BY <1>1, <1>3, <1>4 DEF DescriptorsAreCompleted
<1>5. CASE TakeResponse
  <2>1. \A i \in DOMAIN responses' : \E k \in DOMAIN responses : responses'[i] = responses[k]
    <3>1. /\ DOMAIN responses = 1 .. Len(responses) /\ Len(responses) \in Nat
          /\ DOMAIN responses' = 1 .. Len(responses) - 1
          /\ \A i \in DOMAIN responses' : responses'[i] = responses[i + 1]
      BY <1>2, <1>5, HeadTailProperties, LenProperties DEF TakeResponse
    <3>2. \A i \in DOMAIN responses' : i + 1 \in DOMAIN responses
      BY <3>1
    <3> QED BY <3>1, <3>2
  <2> QED BY <1>1, <1>3, <2>1 DEF DescriptorsAreCompleted
<1>6. ASSUME NEW j \in Renditions, Complete(j) PROVE DescriptorsAreCompleted'
  <2> DEFINE e == [job |-> j, ok |-> Generated(j)]
  <2>1. e \in R /\ e.job = j /\ (e.ok => ledger[j] = "completed")
    BY DEF R, Generated
  <2>2. responses' = Append(responses, e) /\ UNCHANGED ledger
    BY <1>6, CompleteKeeps DEF Respond, Jobs
  <2> HIDE DEF e
  <2>3. /\ \A i \in DOMAIN responses' : i \in DOMAIN responses \/ responses'[i] = e
        /\ \A i \in DOMAIN responses : responses'[i] = responses[i]
    BY <1>2, <2>1, <2>2, AppendProperties, LenProperties
  <2>4. ASSUME NEW i \in DOMAIN responses', responses'[i].ok
        PROVE  ledger[responses'[i].job] = "completed"
    BY <2>1, <2>3, <2>4 DEF DescriptorsAreCompleted
  <2>5. UNCHANGED ledger
    BY <2>2
  <2> QED BY <2>4, <2>5 DEF DescriptorsAreCompleted
<1>7. CASE GoDown
  <2>1. responses' = << >>
    BY <1>7, GoDownLoses DEF Lose
  <2>2. DOMAIN responses' = {}
    BY <2>1, EmptySeq
  <2> QED BY <2>2 DEF DescriptorsAreCompleted
<1>8. ASSUME NEW j \in Jobs, Complete(j), j \notin Renditions PROVE UNCHANGED responses
  BY <1>8, CompleteKeeps DEF Respond
<1> QED BY <1>4, <1>5, <1>6, <1>7, <1>8, QuietKeeps, TakeWorkKeeps, RecoverKeeps,
           AdvanceKeeps, BeginScanKeeps, AuthorizeKeeps, Kinds

\* What a loop that stops has still to wait for.
LEMMA StopSame ==
  ASSUME StopCoversWork, UNCHANGED <<sessionOf, mode, stop>>,
         controls' \subseteq controls, controls \subseteq Jobs,
         \A j \in Jobs : Unfinished(j)' => Unfinished(j)
  PROVE  StopCoversWork'
BY DEF StopCoversWork, SessionOf

LEMMA StopQuiet ==
  ASSUME IInv, StopCoversWork, Quiet
  PROVE  StopCoversWork'
<1>1. /\ UNCHANGED <<stage, sessionOf, epoch>>
      /\ controls' \subseteq controls /\ controls \subseteq Jobs
  BY QuietKeeps DEF IInv, TypeOK
<1>2. CASE StopNext
  <2>1. PICK s \in stop.rest :
          /\ mode = "stop" /\ StopComplete
          /\ stop' = [why |-> stop.why, current |-> {s}, rest |-> stop.rest \ {s}]
          /\ controls' = Remaining
    BY <1>2 DEF StopNext, Wait, Control
  <2>2. stop'.why = stop.why /\ stop'.current \union stop'.rest = stop.rest
    BY <2>1
  <2> QED BY <1>1, <2>1, <2>2 DEF StopCoversWork, Remaining, Unfinished, SessionOf
<1>3. CASE Shutdown
  <2>1. /\ stop'.rest = StopTargets(Reaped) /\ controls' = Reaped
    BY <1>3 DEF Shutdown, Wait, Control
  <2> QED BY <1>1, <2>1 DEF StopCoversWork, StopTargets, SessionOf
<1>4. CASE EndOfInput
  <2>1. /\ stop'.rest = StopTargets(controls) /\ controls' = controls
    BY <1>4 DEF EndOfInput, Wait, Control
  <2> QED BY <1>1, <2>1 DEF StopCoversWork, StopTargets, SessionOf
<1>5. CASE \E l \in Libraries : CloseLibrary(l)
  <2>1. stop'.why = "close"
    BY <1>5 DEF CloseLibrary, Wait
  <2> QED BY <2>1 DEF StopCoversWork
<1>6. CASE \/ EventsDrained \/ ResponsesDrained \/ NoInput \/ OtherRequest
           \/ Closed \/ StopTimeout \/ Start \/ DeliverEvent
           \/ \E r \in Roots : BindRoot(r)
           \/ \E j \in Jobs : CancelJob(j)
  <2>1. mode' # "stop"
    BY <1>6 DEF EventsDrained, ResponsesDrained, NoInput, OtherRequest, Closed,
       StopTimeout, Start, DeliverEvent, BindRoot, CancelJob, Request, loop
  <2> QED BY <2>1 DEF StopCoversWork
<1>7. CASE \/ \E j \in Jobs : EmitNext(j)
           \/ \E j \in Scans : ScanProgress(j)
           \/ UNCHANGED vars
  <2>1. UNCHANGED <<mode, stop>>
    BY <1>7 DEF EmitNext, ScanProgress, vars, loop
  <2> QED BY <1>1, <2>1, StopSame DEF Unfinished
<1> QED BY <1>2, <1>3, <1>4, <1>5, <1>6, <1>7 DEF Quiet

LEMMA StopStep ==
  ASSUME IInv, StopCoversWork, [Next]_vars
  PROVE  StopCoversWork'
<1>1. controls \subseteq Jobs
  BY DEF IInv, TypeOK
<1>2. CASE TakeWork
  <2>1. \A j \in Jobs : Unfinished(j)' => Unfinished(j)
    BY <1>2, TakeWorkKeeps DEF Unfinished, Jobs
  <2> QED BY <1>1, <1>2, <2>1, TakeWorkKeeps, StopSame
<1>3. ASSUME NEW j \in Jobs, Advance(j) \/ Complete(j) PROVE StopCoversWork'
  <2>1. \A k \in Jobs : Unfinished(k)' => Unfinished(k)
    BY <1>3, AdvanceKeeps, CompleteKeeps DEF Unfinished
  <2>2. UNCHANGED <<sessionOf, mode, stop, controls>>
    BY <1>3, AdvanceKeeps, CompleteKeeps
  <2> QED BY <1>1, <2>1, <2>2, StopSame
<1>4. CASE \/ TakeResponse \/ GoDown
           \/ \E l \in Libraries : Recover(l)
           \/ \E j \in Scans : AddRoot(j) \/ ScanRoot(j)
           \/ \E j \in Renditions : AuthorizeResource(j)
  <2>1. mode' # "stop"
    BY <1>4, RecoverKeeps, BeginScanKeeps, AuthorizeKeeps
       DEF TakeResponse, loop, GoDown, Exit, Crash, CrashWhileOpening, Lose
  <2> QED BY <2>1 DEF StopCoversWork
<1> QED BY <1>2, <1>3, <1>4, StopQuiet, Kinds

LEMMA EndInit == Init => EndInv
<1> SUFFICES ASSUME Init PROVE EndInv
    OBVIOUS
<1>1. SessionsKeepRoots /\ StopCoversWork
  BY DEF Init, SessionsKeepRoots, StopCoversWork
<1>2. DescriptorsAreCompleted
  BY EmptySeq DEF Init, DescriptorsAreCompleted
<1> QED BY <1>1, <1>2 DEF EndInv

\* What grants and the end of the process rest on: a running job has the root
\* of its session, and a stop that ends the process has its session to look at.
THEOREM EndInvariance == Spec => []EndInv
<1>1. IInv /\ EndInv /\ [Next]_vars => EndInv'
  BY SessionsStep, DescriptorsStep, StopStep DEF EndInv
<1> QED BY <1>1, EndInit, Invariance, PTL DEF Spec

\* Only take_async_response grants, and the response it takes is true.
LEMMA GrantStep ==
  ASSUME IInv, EndInv, [Next]_vars, NEW j \in granted' \ granted
  PROVE  SessionOpen(SessionOf(j)) /\ RootOf[j] \in bound /\ ledger[j] = "completed"
<1>1. TakeResponse
  <2>1. ASSUME MainLoop, ~TakeResponse PROVE granted' \subseteq granted
    BY <2>1 DEF MainLoop, DeliverEvent, EventsDrained, ResponsesDrained, NoInput,
       OtherRequest, OpenLibrary, OpenFails, CloseLibrary, Shutdown, EndOfInput,
       StopNext, Closed, Exit, Lose, AddRoot, ScanRoot, BeginScan, BindRoot,
       AuthorizeResource, CancelJob, client
  <2>2. ASSUME Next, ~MainLoop PROVE granted' \subseteq granted
    BY <2>2 DEF Next, StopTimeout, Crash, Start, CrashWhileOpening, Lose, TakeWork,
       ScanThread, ScanProgress, BeginProbe, EndProbe, RefuseProbe, MoveScan,
       FinishScan, ConcludeScan, Leave, Worker, StartRendition, FinishRendition,
       Farewell, EmitNext, Complete, client
  <2> QED BY <2>1, <2>2 DEF vars, client
<1>2. responses # << >> /\ j = Head(responses).job /\ MayGrant(Head(responses))
  BY <1>1 DEF TakeResponse
<1>3. Head(responses) = responses[1] /\ 1 \in DOMAIN responses
  <2> DEFINE R == [job : Renditions, ok : BOOLEAN]
  <2>1. responses \in Seq(R)
    BY DEF IInv, TypeOK
  <2> HIDE DEF R
  <2> QED BY <1>2, <2>1, HeadTailProperties, LenProperties
<1>4. j \in Jobs /\ stage[j] = "done"
  BY <1>2, <1>3, QueuesTyped DEF IInv, JobInv, ResponsesAreDone, Jobs
<1>5. SessionOpen(SessionOf(j)) /\ responses[1].ok
  BY <1>2, <1>3 DEF MayGrant
<1> QED BY <1>2, <1>3, <1>4, <1>5
        DEF EndInv, SessionsKeepRoots, DescriptorsAreCompleted

\* A descriptor reaches only the session that asked, while it is open and keeps
\* the root bound, and only for a job whose row says completed.
THEOREM GrantsAreForTheAsker == Spec => GrantsAreCurrent
<1> DEFINE Current == \A j \in granted' \ granted :
             /\ SessionOpen(SessionOf(j)) /\ RootOf[j] \in bound
             /\ ledger[j] = "completed"
<1>1. IInv /\ EndInv /\ [Next]_vars => Current
  BY GrantStep
<1> QED BY <1>1, Invariance, EndInvariance, PTL DEF Spec, GrantsAreCurrent

\* A process that ends has waited for every thread that may write.
LEMMA ExitStep ==
  ASSUME IInv, EndInv, [Next]_vars, mode' = "exited", mode # "exited",
         NEW j \in Jobs, Live(j)
  PROVE  FALSE
<1>1. Exit
  <2>1. ASSUME MainLoop, ~Exit PROVE FALSE
    BY <2>1 DEF MainLoop, DeliverEvent, EventsDrained, TakeResponse,
       ResponsesDrained, NoInput, OtherRequest, OpenLibrary, OpenFails,
       CloseLibrary, Shutdown, EndOfInput, StopNext, Closed, Wait, AddRoot,
       ScanRoot, BindRoot, AuthorizeResource, CancelJob, Request, loop
  <2>2. ASSUME Next, ~MainLoop PROVE FALSE
    BY <2>2 DEF Next, StopTimeout, Crash, Start, CrashWhileOpening, Lose, TakeWork,
       ScanThread, ScanProgress, BeginProbe, EndProbe, RefuseProbe, MoveScan,
       FinishScan, ConcludeScan, Leave, Worker, StartRendition, FinishRendition,
       Farewell, EmitNext, Complete, loop
  <2> QED BY <2>1, <2>2 DEF vars, loop
<1>2. j \in controls /\ Unfinished(j)
  BY DEF IInv, JobInv, WorkIsReachable, Live, Unfinished
<1>3. SessionOf(j) \in stop.current
  BY <1>1, <1>2 DEF Exit, EndInv, StopCoversWork
<1> QED BY <1>1, <1>2, <1>3 DEF Exit, StopComplete, Unfinished

\* Shutdown and end of input leave no writer behind in any session.
THEOREM ExitLeavesNoWriter == Spec => CleanExit
<1> DEFINE Clean == mode' = "exited" /\ mode # "exited" => \A j \in Jobs : ~Live(j)
<1>1. IInv /\ EndInv /\ [Next]_vars => Clean
  BY ExitStep
<1> QED BY <1>1, Invariance, EndInvariance, PTL DEF Spec, CleanExit
=============================================================================
