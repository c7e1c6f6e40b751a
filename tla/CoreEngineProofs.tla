--------------------------- MODULE CoreEngineProofs ---------------------------
(***************************************************************************)
(* Type correctness and the inductive invariant of CoreEngine, for every   *)
(* number of libraries, roots, jobs, workers and queue places.             *)
(***************************************************************************)
EXTENDS CoreEngine, TLAPS, SequenceTheorems

-----------------------------------------------------------------------------
(* Queues and the pieces of the handlers keep their types.                 *)

LEMMA NewsTyped ==
  ASSUME NEW j \in Jobs
  PROVE  /\ Note \in Event /\ Restart \in Event /\ Terminal(j) \in Event
         /\ <<Restart>> \in Seq(Event) /\ <<Terminal(j)>> \in Seq(Event)
         /\ <<Note, Terminal(j)>> \in Seq(Event)
<1>1. Note \in Event /\ Restart \in Event /\ Terminal(j) \in Event
  BY DEF Event, Note, Restart, Terminal
<1> HIDE DEF Event, Note, Restart, Terminal
<1> QED BY <1>1

LEMMA TrySendTyped ==
  ASSUME TypeOK, NEW e \in Event
  PROVE  TrySend(e) \in Seq(Event) /\ Len(TrySend(e)) <= EventCapacity
BY BoundsAssumption, AppendProperties DEF TrySend, TypeOK

LEMMA SessionTyped ==
  ASSUME TypeOK
  PROVE  /\ \A j \in Jobs : SessionOf(j) \in Session
         /\ \A l \in Libraries : <<l, epoch[l]>> \in Session
BY JobsAssumption DEF TypeOK, SessionOf, Session, Library

LEMMA ControlTyped ==
  ASSUME TypeOK, NEW c, NEW raised, c \subseteq Jobs, Control(c, raised)
  PROVE  controls' \subseteq Jobs /\ cancelled' \subseteq Jobs
BY DEF Control

LEMMA ReapedTyped == TypeOK => Reaped \subseteq Jobs
BY DEF TypeOK, Reaped

LEMMA WaitTyped ==
  ASSUME TypeOK, NEW why \in {"close", "shutdown", "eof"},
         NEW current \in SUBSET Session, NEW rest \in SUBSET Session,
         NEW kept \in SUBSET Jobs, Wait(why, current, rest, kept)
  PROVE  /\ mode' \in Modes /\ stop' \in Stops
         /\ controls' \subseteq Jobs /\ cancelled' \subseteq Jobs
BY DEF Wait, Control, Modes, Stops

LEMMA LoseTyped ==
  ASSUME TypeOK, NEW m \in {"crashed", "exited"}, Lose(m),
         ledger' \in [Jobs -> JobStates], rootState' \in [Roots -> RootStates],
         UNCHANGED epoch
  PROVE  TypeOK'
<1>1. << >> \in Seq(Event) /\ << >> \in Seq(Renditions)
   /\ << >> \in Seq([job : Renditions, ok : BOOLEAN]) /\ Len(<< >>) = 0
  BY EmptySeq
<1>2. 0 <= MaxWork - Workers /\ 0 <= EventCapacity
  BY BoundsAssumption
<1>3. stop' \in Stops /\ mode' \in Modes /\ stage' \in [Jobs -> Stages]
  BY DEF Lose, NoStop, Stops, Modes, Stages
<1>4. /\ channel' \in Seq(Renditions) /\ Len(channel') <= MaxWork - Workers
      /\ events' \in Seq(Event) /\ Len(events') <= EventCapacity
      /\ responses' \in Seq([job : Renditions, ok : BOOLEAN])
      /\ outbox' \in [Jobs -> Seq(Event)]
  BY <1>1, <1>2 DEF Lose
<1> QED BY <1>3, <1>4 DEF Lose, TypeOK

LEMMA RecoveryTyped ==
  ASSUME TypeOK, NEW l \in Libraries
  PROVE  /\ RecoveredJobs(l) \in [Jobs -> JobStates]
         /\ RecoveredRoots(l) \in [Roots -> RootStates]
         /\ UnboundRoots(l) \in [Roots -> RootStates]
<1>1. RecoveredJobs(l) \in [Jobs -> JobStates]
  BY DEF TypeOK, RecoveredJobs, JobStates, TerminalStates
<1>2. RecoveredRoots(l) \in [Roots -> RootStates]
  BY DEF TypeOK, RecoveredRoots, RootStates
<1>3. UnboundRoots(l) \in [Roots -> RootStates]
  BY <1>2 DEF UnboundRoots, RootStates
<1> QED BY <1>1, <1>2, <1>3

-----------------------------------------------------------------------------
(* Type correctness.                                                       *)

LEMMA LoopTypes ==
  ASSUME TypeOK,
         \/ DeliverEvent \/ EventsDrained \/ TakeResponse \/ ResponsesDrained
         \/ NoInput \/ OtherRequest \/ StopTimeout \/ Start
  PROVE  TypeOK'
<1>1. CASE DeliverEvent
  <2>1. Head(events) \in Event /\ Tail(events) \in Seq(Event)
     /\ Len(Tail(events)) <= EventCapacity
    BY <1>1, HeadTailProperties, LenProperties, BoundsAssumption DEF DeliverEvent, TypeOK
  <2> QED BY <1>1, <2>1
          DEF DeliverEvent, TypeOK, Control, database, sessions, pool, loop
<1>2. CASE EventsDrained
  BY <1>2 DEF EventsDrained, TypeOK, Modes, database, sessions, work, pool, client
<1>3. CASE TakeResponse
  <2> DEFINE R == [job : Renditions, ok : BOOLEAN]
  <2>1. Head(responses) \in R /\ Tail(responses) \in Seq(R)
    BY <1>3, HeadTailProperties DEF TakeResponse, TypeOK
  <2>2. Released(inflight) \in Nat
    BY DEF Released, TypeOK
  <2>3. Head(responses).job \in Renditions
    BY <2>1
  <2> QED BY <1>3, <2>1, <2>2, <2>3
          DEF TakeResponse, TypeOK, Control, database, sessions, loop
<1>4. CASE ResponsesDrained
  BY <1>4 DEF ResponsesDrained, TypeOK, Modes, database, sessions, work, pool, client
<1>5. CASE NoInput
  BY <1>5 DEF NoInput, TypeOK, Modes, database, sessions, work, pool, client
<1>6. CASE OtherRequest
  BY <1>6, ReapedTyped, ControlTyped
     DEF OtherRequest, Request, TypeOK, Modes, database, sessions, pool, client
<1>7. CASE StopTimeout
  BY <1>7 DEF StopTimeout, TypeOK, Modes, NoStop, Stops, database, sessions,
              work, pool, client
<1>8. CASE Start
  BY <1>8 DEF Start, TypeOK, Modes, database, sessions, work, pool, client
<1> QED BY <1>1, <1>2, <1>3, <1>4, <1>5, <1>6, <1>7, <1>8

LEMMA SessionTypes ==
  ASSUME TypeOK,
         \/ \E l \in Libraries : OpenLibrary(l) \/ OpenFails(l)
                                   \/ CrashWhileOpening(l) \/ CloseLibrary(l)
         \/ Shutdown \/ EndOfInput \/ StopNext \/ Closed \/ Exit \/ Crash
  PROVE  TypeOK'
<1>1. ASSUME NEW l \in Libraries, OpenLibrary(l) PROVE TypeOK'
  <2>1. ledger' \in [Jobs -> JobStates] /\ rootState' \in [Roots -> RootStates]
    BY <1>1, RecoveryTyped DEF OpenLibrary
  <2>2. controls' \subseteq Jobs /\ cancelled' \subseteq Jobs
    BY <1>1, ReapedTyped, ControlTyped DEF OpenLibrary
  <2>3. epoch' \in [Libraries -> Nat] /\ open' \subseteq Libraries
    BY <1>1 DEF OpenLibrary, TypeOK
  <2> QED BY <1>1, <2>1, <2>2, <2>3
          DEF OpenLibrary, Request, TypeOK, Modes, pool, client
<1>2. ASSUME NEW l \in Libraries, PartOfRecovery(l)
      PROVE  ledger' \in [Jobs -> JobStates] /\ rootState' \in [Roots -> RootStates]
  BY <1>2, RecoveryTyped DEF PartOfRecovery, TypeOK
<1>3. ASSUME NEW l \in Libraries, OpenFails(l) PROVE TypeOK'
  <2>1. controls' \subseteq Jobs /\ cancelled' \subseteq Jobs
    BY <1>3, ReapedTyped, ControlTyped DEF OpenFails
  <2> QED BY <1>2, <1>3, <2>1
          DEF OpenFails, Request, TypeOK, Modes, sessions, pool, client
<1>4. ASSUME NEW l \in Libraries, CrashWhileOpening(l) PROVE TypeOK'
  BY <1>2, <1>4, LoseTyped DEF CrashWhileOpening
<1>5. ASSUME NEW l \in Libraries, CloseLibrary(l) PROVE TypeOK'
  <2>1. {<<l, epoch[l]>>} \in SUBSET Session /\ {} \in SUBSET Session
    BY SessionTyped
  <2>2. /\ mode' \in Modes /\ stop' \in Stops
        /\ controls' \subseteq Jobs /\ cancelled' \subseteq Jobs
    BY <1>5, <2>1, ReapedTyped, WaitTyped DEF CloseLibrary
  <2> QED BY <1>5, <2>2
          DEF CloseLibrary, TypeOK, database, sessions, pool, client
<1>6. \A c \in SUBSET Jobs : StopTargets(c) \in SUBSET Session
  BY SessionTyped DEF StopTargets
<1>7. CASE Shutdown
  <2>1. /\ mode' \in Modes /\ stop' \in Stops
        /\ controls' \subseteq Jobs /\ cancelled' \subseteq Jobs
    BY <1>6, <1>7, ReapedTyped, WaitTyped DEF Shutdown
  <2> QED BY <1>7, <2>1
          DEF Shutdown, TypeOK, database, sessions, pool, client
<1>8. CASE EndOfInput
  <2>1. controls \in SUBSET Jobs
    BY DEF TypeOK
  <2>2. /\ mode' \in Modes /\ stop' \in Stops
        /\ controls' \subseteq Jobs /\ cancelled' \subseteq Jobs
    BY <1>6, <1>8, <2>1, WaitTyped DEF EndOfInput
  <2> QED BY <1>8, <2>2
          DEF EndOfInput, TypeOK, database, sessions, pool, client
<1>9. CASE StopNext
  <2>1. PICK s \in stop.rest : Wait(stop.why, {s}, stop.rest \ {s}, Remaining)
    BY <1>9 DEF StopNext
  <2>2. /\ {s} \in SUBSET Session /\ stop.rest \ {s} \in SUBSET Session
        /\ stop.why \in {"none", "close", "shutdown", "eof"}
        /\ Remaining \in SUBSET Jobs
    BY DEF TypeOK, Stops, Remaining
  <2>3. /\ mode' \in Modes /\ stop' \in Stops
        /\ controls' \subseteq Jobs /\ cancelled' \subseteq Jobs
    BY <2>1, <2>2 DEF Wait, Control, Modes, Stops
  <2> QED BY <1>9, <2>3
          DEF StopNext, TypeOK, database, sessions, pool, client
<1>10. CASE Closed
  <2>1. controls' \subseteq Jobs /\ cancelled' \subseteq Jobs
    BY <1>10, ControlTyped DEF Closed, Remaining, TypeOK
  <2>2. stop' \in Stops /\ mode' \in Modes
    BY <1>10 DEF Closed, NoStop, Stops, Modes
  <2>3. open' \subseteq Libraries /\ bound' \subseteq Roots
    BY <1>10 DEF Closed, TypeOK
  <2> QED BY <1>10, <2>1, <2>2, <2>3
          DEF Closed, TypeOK, database, pool, client
<1>11. CASE Exit \/ Crash
  BY <1>11, LoseTyped DEF Exit, Crash, database, TypeOK
<1> QED BY <1>1, <1>3, <1>4, <1>5, <1>7, <1>8, <1>9, <1>10, <1>11

LEMMA CommandTypes ==
  ASSUME TypeOK,
         \/ \E j \in Scans : AddRoot(j) \/ ScanRoot(j)
         \/ \E r \in Roots : BindRoot(r)
         \/ \E j \in Renditions : AuthorizeResource(j)
         \/ \E j \in Jobs : CancelJob(j)
  PROVE  TypeOK'
<1>1. ASSUME NEW j \in Scans, AddRoot(j) \/ ScanRoot(j) PROVE TypeOK'
  <2>1. j \in Jobs /\ RootOf[j] \in Roots /\ Library(j) \in Libraries
    BY JobsAssumption DEF Jobs, Library
  <2>2. events' \in Seq(Event) /\ Len(events') <= EventCapacity
    BY <1>1, <2>1, NewsTyped, TrySendTyped DEF AddRoot, ScanRoot, BeginScan
  <2>3. controls' \subseteq Jobs /\ cancelled' \subseteq Jobs
    <3>1. Reaped \union {j} \subseteq Jobs
      BY <2>1, ReapedTyped
    <3> QED BY <1>1, <3>1, ControlTyped DEF AddRoot, ScanRoot, BeginScan
  <2>4. /\ ledger' \in [Jobs -> JobStates] /\ rootState' \in [Roots -> RootStates]
        /\ sessionOf' \in [Jobs -> Nat] /\ stage' \in [Jobs -> Stages]
    BY <1>1, <2>1 DEF AddRoot, ScanRoot, BeginScan, TypeOK, JobStates,
                      ActiveStates, RootStates, Stages
  <2>5. bound' \subseteq Roots
    BY <1>1, <2>1 DEF AddRoot, ScanRoot, TypeOK
  <2> QED BY <1>1, <2>2, <2>3, <2>4, <2>5
          DEF AddRoot, ScanRoot, BeginScan, Request, TypeOK, Modes, pool, client
<1>2. ASSUME NEW r \in Roots, BindRoot(r) PROVE TypeOK'
  <2>1. controls' \subseteq Jobs /\ cancelled' \subseteq Jobs
    BY <1>2, ReapedTyped, ControlTyped DEF BindRoot
  <2> QED BY <1>2, <2>1
          DEF BindRoot, Request, TypeOK, Modes, RootStates, pool, client
<1>3. ASSUME NEW j \in Renditions, AuthorizeResource(j) PROVE TypeOK'
  <2>1. j \in Jobs /\ Library(j) \in Libraries
    BY JobsAssumption DEF Jobs, Library
  <2>2. events' \in Seq(Event) /\ Len(events') <= EventCapacity
    <3>1. Note \in Event
      BY <2>1, NewsTyped
    <3>2. /\ events \in Seq(Event) /\ Len(events) <= EventCapacity
          /\ events' \in {events, Append(events, Note)}
          /\ events' # events => Len(events) < EventCapacity
      BY <1>3 DEF AuthorizeResource, TypeOK
    <3> QED BY <3>1, <3>2, AppendProperties, LenProperties, BoundsAssumption
  <2>3. CASE Refuse(j)
    <3>1. ledger' \in [Jobs -> JobStates]
      BY <2>1, <2>3 DEF Refuse, TypeOK, JobStates, ActiveStates, TerminalStates
    <3> QED BY <1>3, <2>2, <2>3, <3>1
            DEF AuthorizeResource, Request, Refuse, TypeOK, Modes, sessions
  <2>4. CASE Admit(j) /\ ~ChannelFull
    <3>1. channel' \in Seq(Renditions) /\ Len(channel') <= MaxWork - Workers
      BY <2>4, AppendProperties, LenProperties, BoundsAssumption
         DEF Admit, ChannelFull, TypeOK
    <3>2. controls' \subseteq Jobs /\ cancelled' \subseteq Jobs
      BY <2>1, <2>4, ControlTyped DEF Admit, TypeOK
    <3>3. /\ ledger' \in [Jobs -> JobStates] /\ sessionOf' \in [Jobs -> Nat]
          /\ stage' \in [Jobs -> Stages] /\ inflight' \in Nat
      BY <2>1, <2>4 DEF Admit, TypeOK, JobStates, ActiveStates, Stages
    <3> QED BY <1>3, <2>2, <2>4, <3>1, <3>2, <3>3
            DEF AuthorizeResource, Request, Admit, TypeOK, Modes, sessions
  <2> QED BY <1>3, <2>3, <2>4 DEF AuthorizeResource
<1>4. ASSUME NEW j \in Jobs, CancelJob(j) PROVE TypeOK'
  <2>1. controls' \subseteq Jobs /\ cancelled' \subseteq Jobs
    BY <1>4, ReapedTyped, ControlTyped DEF CancelJob
  <2> QED BY <1>4, <2>1
          DEF CancelJob, Request, TypeOK, Modes, database, sessions, pool, client
<1> QED BY <1>1, <1>2, <1>3, <1>4

LEMMA LeaveTyped ==
  ASSUME TypeOK, NEW j \in Jobs, NEW next \in {"emit", "abort"},
         NEW news \in Seq(Event), Leave(j, next, news),
         ledger' \in [Jobs -> JobStates], rootState' \in [Roots -> RootStates]
  PROVE  TypeOK'
BY DEF Leave, TypeOK, Stages, sessions, pool, loop, client

LEMMA ScanTypes ==
  ASSUME TypeOK, NEW j \in Scans, ScanThread(j)
  PROVE  TypeOK'
<1>1. j \in Jobs /\ RootOf[j] \in Roots
  BY JobsAssumption DEF Jobs
<1>2. CASE ScanProgress(j)
  <2>1. events' \in Seq(Event) /\ Len(events') <= EventCapacity
    BY <1>1, <1>2, NewsTyped, TrySendTyped DEF ScanProgress
  <2> QED BY <1>2, <2>1
          DEF ScanProgress, TypeOK, database, sessions, work, pool, loop, client
<1>3. CASE BeginProbe(j) \/ EndProbe(j) \/ RefuseProbe(j)
  <2>1. PICK from, to \in Stages : MoveScan(j, from, to)
    BY <1>3 DEF BeginProbe, EndProbe, RefuseProbe, Stages
  <2> QED BY <1>1, <2>1
          DEF MoveScan, TypeOK, database, sessions, pool, loop, client
<1>4. CASE FinishScan(j)
  <2>1. <<Restart>> \in Seq(Event) /\ <<Note, Terminal(j)>> \in Seq(Event)
    BY <1>1, NewsTyped
  <2>2. \E next \in {"emit", "abort"},
           news \in {<<Restart>>, <<Note, Terminal(j)>>} : Leave(j, next, news)
    BY <1>4 DEF FinishScan, ConcludeScan
  <2>3. ledger' \in [Jobs -> JobStates] /\ rootState' \in [Roots -> RootStates]
    BY <1>1, <1>4 DEF FinishScan, ConcludeScan, TypeOK, JobStates,
                      TerminalStates, RootStates, database
  <2> QED BY <1>1, <2>1, <2>2, <2>3, LeaveTyped
<1> QED BY <1>2, <1>3, <1>4 DEF ScanThread

LEMMA WorkerTypes ==
  ASSUME TypeOK, TakeWork \/ \E j \in Renditions : Worker(j)
  PROVE  TypeOK'
<1>1. CASE TakeWork
  <2>1. Head(channel) \in Renditions /\ Tail(channel) \in Seq(Renditions)
     /\ Len(Tail(channel)) <= MaxWork - Workers
    BY <1>1, HeadTailProperties, LenProperties, BoundsAssumption
       DEF TakeWork, TypeOK
  <2>2. stage' \in [Jobs -> Stages]
    BY <1>1, <2>1 DEF TakeWork, TypeOK, Stages, Jobs
  <2> QED BY <1>1, <2>1, <2>2
          DEF TakeWork, TypeOK, database, sessions, loop, client
<1>2. ASSUME NEW j \in Renditions, StartRendition(j) PROVE TypeOK'
  <2>1. j \in Jobs
    BY DEF Jobs
  <2>2. /\ Note \in Event /\ <<Restart>> \in Seq(Event)
        /\ TrySend(Note) \in Seq(Event) /\ Len(TrySend(Note)) <= EventCapacity
    BY <2>1, NewsTyped, TrySendTyped
  <2>3. /\ ledger' \in [Jobs -> JobStates] /\ stage' \in [Jobs -> Stages]
        /\ outbox' \in [Jobs -> Seq(Event)]
        /\ events' \in Seq(Event) /\ Len(events') <= EventCapacity
    BY <1>2, <2>1, <2>2
       DEF StartRendition, TypeOK, JobStates, ActiveStates, Stages
  <2> QED BY <1>2, <2>3
          DEF StartRendition, TypeOK, sessions, pool, loop, client
<1>3. ASSUME NEW j \in Renditions, FinishRendition(j) PROVE TypeOK'
  <2>1. j \in Jobs
    BY DEF Jobs
  <2>2. <<Restart>> \in Seq(Event) /\ <<Terminal(j)>> \in Seq(Event)
    BY <2>1, NewsTyped
  <2>3. \E next \in {"emit", "abort"},
           news \in {<<Restart>>, <<Terminal(j)>>} : Leave(j, next, news)
    BY <1>3 DEF FinishRendition
  <2>4. ledger' \in [Jobs -> JobStates] /\ rootState' \in [Roots -> RootStates]
    BY <1>3, <2>1 DEF FinishRendition, TypeOK, JobStates, TerminalStates
  <2> QED BY <2>1, <2>2, <2>3, <2>4, LeaveTyped
<1> QED BY <1>1, <1>2, <1>3 DEF Worker

LEMMA FarewellTypes ==
  ASSUME TypeOK, NEW j \in Jobs, Farewell(j)
  PROVE  TypeOK'
<1>1. CASE EmitNext(j)
  <2>1. Head(outbox[j]) \in Event /\ Tail(outbox[j]) \in Seq(Event)
    BY <1>1, HeadTailProperties DEF EmitNext, TypeOK
  <2>2. events' \in Seq(Event) /\ Len(events') <= EventCapacity
    BY <1>1, <2>1, TrySendTyped DEF EmitNext
  <2> QED BY <1>1, <2>1, <2>2
          DEF EmitNext, TypeOK, database, sessions, pool, loop, client
<1>2. CASE Complete(j)
  <2> DEFINE R == [job : Renditions, ok : BOOLEAN]
  <2>1. responses' \in Seq(R)
    <3>1. [job |-> j, ok |-> Generated(j)] \in R \/ j \notin Renditions
      BY DEF Generated
    <3> QED BY <1>2, <3>1, AppendProperties DEF Complete, Respond, TypeOK
  <2> QED BY <1>2, <2>1
          DEF Complete, TypeOK, Stages, database, sessions, loop, client
<1> QED BY <1>1, <1>2 DEF Farewell

LEMMA TypeStep == TypeOK /\ [Next]_vars => TypeOK'
<1> SUFFICES ASSUME TypeOK, [Next]_vars PROVE TypeOK'
    OBVIOUS
<1>1. CASE Next
  BY <1>1, LoopTypes, SessionTypes, CommandTypes, ScanTypes, WorkerTypes,
     FarewellTypes DEF Next, MainLoop
<1>2. CASE UNCHANGED vars
  BY <1>2 DEF vars, TypeOK, database, sessions, work, pool, loop, client
<1> QED BY <1>1, <1>2

LEMMA TypeInit == Init => TypeOK
<1> SUFFICES ASSUME Init PROVE TypeOK
    OBVIOUS
<1>1. << >> \in Seq(Event) /\ << >> \in Seq(Renditions)
   /\ << >> \in Seq([job : Renditions, ok : BOOLEAN]) /\ Len(<< >>) = 0
  BY EmptySeq
<1>2. 0 <= MaxWork - Workers /\ 0 <= EventCapacity
  BY BoundsAssumption
<1>3. stop \in Stops /\ mode \in Modes /\ stage \in [Jobs -> Stages]
  BY DEF Init, NoStop, Stops, Modes, Stages
<1>4. ledger \in [Jobs -> JobStates] /\ rootState \in [Roots -> RootStates]
  BY DEF Init, JobStates, RootStates
<1> QED BY <1>1, <1>2, <1>3, <1>4 DEF Init, TypeOK

\* Every variable keeps its type and the two bounded queues their bounds.
THEOREM TypeCorrect == Spec => []TypeOK
BY TypeInit, TypeStep, PTL DEF Spec

-----------------------------------------------------------------------------
(* The invariant on jobs.  Five kinds of steps: those that leave rows and  *)
(* stages alone, those that move one job on, those that start one, the     *)
(* recovery of a library that is not open, and those that lose memory.     *)

LEMMA QueuesTyped ==
  ASSUME TypeOK
  PROVE  /\ \A i \in DOMAIN channel : channel[i] \in Renditions
         /\ \A i \in DOMAIN responses : responses[i].job \in Renditions
<1>1. \A i \in DOMAIN channel : channel[i] \in Renditions
  BY LenProperties DEF TypeOK
<1>2. ASSUME NEW i \in DOMAIN responses PROVE responses[i].job \in Renditions
  <2> DEFINE R == [job : Renditions, ok : BOOLEAN]
  <2>1. responses \in Seq(R)
    BY DEF TypeOK
  <2> HIDE DEF R
  <2>2. responses[i] \in R
    BY <2>1, LenProperties
  <2> QED BY <2>2 DEF R
<1> QED BY <1>1, <1>2

\* A step of the loop may drop the controls of jobs that are done, no others.
LEMMA QuietStep ==
  ASSUME IInv, UNCHANGED <<ledger, stage, channel, open, epoch, sessionOf>>,
         \A i \in DOMAIN responses' : \E k \in DOMAIN responses :
             responses'[i] = responses[k],
         \A r \in bound' : LibraryOf[r] \in open,
         \A j \in controls : j \in controls' \/ stage[j] = "done"
  PROVE  JobInv'
<1> USE DEF IInv, JobInv
<1>1. BoundRootsOpen'
  BY DEF BoundRootsOpen
<1>2. StageMatchesRow' /\ OneActiveScan'
  BY DEF StageMatchesRow, OneActiveScan
<1>3. ChannelMatchesStage'
  BY DEF ChannelMatchesStage
<1>4. ResponsesAreDone'
  BY DEF ResponsesAreDone
<1>5. WritersHaveSession'
  BY DEF WritersHaveSession, Live, SessionOpen, SessionOf
<1>6. WorkIsReachable'
  BY DEF WorkIsReachable, Unfinished
<1> QED BY <1>1, <1>2, <1>3, <1>4, <1>5, <1>6

\* A job that left the work queue moves on, and writes its own row at most.
LEMMA MoveStep ==
  ASSUME IInv, NEW j \in Jobs, NEW from, NEW to \in Stages, NEW row,
         from \notin {"idle", "channel", "done"},
         to \notin {"idle", "channel", "start", "done"},
         stage[j] = from, stage' = [stage EXCEPT ![j] = to],
         ledger' = [ledger EXCEPT ![j] = row],
         row # "absent", to \in {"run", "probe"} => row = "running",
         to = "probe" => j \in Scans,
         j \in Scans /\ row \in ActiveStates => ledger[j] \in ActiveStates,
         from \in {"emit", "abort"} => to \in {"emit", "abort"},
         UNCHANGED <<open, epoch, sessionOf, bound, controls, channel, responses>>
  PROVE  JobInv'
<1> USE DEF IInv, JobInv
<1>0. stage'[j] = to /\ ledger'[j] = row
   /\ \A k \in Jobs \ {j} : stage'[k] = stage[k] /\ ledger'[k] = ledger[k]
  BY DEF TypeOK
<1>1. BoundRootsOpen'
  BY DEF BoundRootsOpen
<1>2. StageMatchesRow'
  BY <1>0 DEF StageMatchesRow
<1>3. OneActiveScan'
  BY <1>0 DEF OneActiveScan, Jobs
<1>4. ChannelMatchesStage'
  <2>1. \A i \in DOMAIN channel : channel[i] \in Jobs /\ channel[i] # j
    BY QueuesTyped DEF ChannelMatchesStage, Jobs
  <2> QED BY <1>0, <2>1 DEF ChannelMatchesStage
<1>5. ResponsesAreDone'
  <2>1. \A i \in DOMAIN responses : responses[i].job \in Jobs /\ responses[i].job # j
    BY QueuesTyped DEF ResponsesAreDone, Jobs
  <2> QED BY <1>0, <2>1 DEF ResponsesAreDone
<1>6. WritersHaveSession'
  <2>1. Live(j)' => Live(j)
    BY <1>0, stage[j] \in Stages DEF Live, Stages, TypeOK
  <2> QED BY <1>0, <2>1 DEF WritersHaveSession, Live, SessionOpen, SessionOf
<1>7. WorkIsReachable'
  BY <1>0 DEF WorkIsReachable, Unfinished
<1> QED BY <1>1, <1>2, <1>3, <1>4, <1>5, <1>6, <1>7

\* A library that is recovered is not open, so none of its jobs is live.
LEMMA RecoverySparesLive ==
  ASSUME IInv, NEW l \in Libraries, l \notin open, ledger' = RecoveredJobs(l)
  PROVE  /\ \A j \in Jobs : Live(j) => Library(j) # l /\ ledger'[j] = ledger[j]
         /\ \A j \in Jobs : ledger'[j] = "absent" <=> ledger[j] = "absent"
         /\ \A j \in Jobs : ledger'[j] \in ActiveStates => ledger[j] \in ActiveStates
<1>1. \A j \in Jobs : Live(j) => Library(j) # l
  BY DEF IInv, JobInv, WritersHaveSession, SessionOpen, SessionOf
<1>2. \A j \in Jobs : ledger'[j] \in {ledger[j], "failed"}
   /\ (ledger'[j] # ledger[j] => Library(j) = l /\ ledger[j] \in ActiveStates)
  BY DEF RecoveredJobs
<1> QED BY <1>1, <1>2 DEF ActiveStates

LEMMA RecoverStep ==
  ASSUME IInv, NEW l \in Libraries, l \notin open, ledger' = RecoveredJobs(l),
         open' \in {open, open \union {l}},
         \A m \in Libraries \ {l} : epoch'[m] = epoch[m],
         \A j \in controls : j \in controls' \/ stage[j] = "done",
         UNCHANGED <<stage, channel, responses, sessionOf, bound>>
  PROVE  JobInv'
<1> USE DEF IInv, JobInv
<1>1. BoundRootsOpen'
  BY DEF BoundRootsOpen
<1>2. StageMatchesRow'
  BY RecoverySparesLive DEF StageMatchesRow, Live
<1>3. OneActiveScan'
  BY RecoverySparesLive DEF OneActiveScan, Jobs
<1>4. ChannelMatchesStage' /\ ResponsesAreDone'
  BY DEF ChannelMatchesStage, ResponsesAreDone
<1>5. WritersHaveSession'
  <2>1. \A j \in Jobs : Library(j) \in Libraries
    BY JobsAssumption DEF Library
  <2> QED BY <2>1, RecoverySparesLive
          DEF WritersHaveSession, Live, SessionOpen, SessionOf
<1>6. WorkIsReachable'
  BY DEF WorkIsReachable, Unfinished
<1> QED BY <1>1, <1>2, <1>3, <1>4, <1>5, <1>6

\* Without memory there is no job; the rows alone must agree.
LEMMA LoseStep ==
  ASSUME NEW m, Lose(m), OneActiveScan'
  PROVE  JobInv'
<1>1. \A j \in Jobs : stage'[j] = "idle"
  BY DEF Lose
<1>2. BoundRootsOpen' /\ ChannelMatchesStage' /\ ResponsesAreDone'
  BY EmptySeq DEF Lose, BoundRootsOpen, ChannelMatchesStage, ResponsesAreDone
<1>3. StageMatchesRow' /\ WritersHaveSession' /\ WorkIsReachable'
  BY <1>1 DEF StageMatchesRow, WritersHaveSession, WorkIsReachable, Live, Unfinished
<1> QED BY <1>2, <1>3 DEF JobInv

\* Where the places of a queue come from when its head leaves.
LEMMA Successors ==
  \A i, k \in Nat \ {0} : i + 1 # 1 /\ (i + 1 = k + 1 => i = k)
OBVIOUS

\* The first job of the queue goes to a worker, and is in it no longer.
LEMMA TakeWorkStep ==
  ASSUME IInv, TakeWork
  PROVE  JobInv'
<1> USE DEF IInv, JobInv
<1> DEFINE j == Head(channel)
<1>1. /\ channel # << >> /\ j = channel[1] /\ j \in Renditions
      /\ \A i \in DOMAIN channel' : i + 1 \in DOMAIN channel /\ i \in Nat \ {0}
                                    /\ channel'[i] = channel[i + 1]
  BY HeadTailProperties, LenProperties DEF TakeWork, TypeOK
<1>2. 1 \in DOMAIN channel /\ stage[j] = "channel"
  BY <1>1, LenProperties DEF ChannelMatchesStage, TypeOK
<1>3. stage'[j] = "start" /\ \A k \in Jobs \ {j} : stage'[k] = stage[k]
  BY <1>1 DEF TakeWork, TypeOK, Jobs
<1>4. UNCHANGED <<ledger, open, bound, epoch, sessionOf, controls, responses>>
  BY DEF TakeWork, database, sessions
<1> HIDE DEF j
<1>5. BoundRootsOpen' /\ OneActiveScan'
  BY <1>4 DEF BoundRootsOpen, OneActiveScan
<1>6. StageMatchesRow'
  BY <1>2, <1>3, <1>4, <1>1 DEF StageMatchesRow, Jobs
<1>7. ChannelMatchesStage'
  <2>1. \A i \in DOMAIN channel' : channel'[i] # j /\ channel'[i] \in Renditions
    <3>1. \A i \in DOMAIN channel' : i + 1 # 1
      BY <1>1, Successors
    <3> QED BY <1>1, <1>2, <3>1, QueuesTyped DEF ChannelMatchesStage
  <2>2. \A i \in DOMAIN channel' : stage'[channel'[i]] = "channel"
    BY <1>1, <1>3, <2>1 DEF ChannelMatchesStage, Jobs
  <2>3. \A i, k \in DOMAIN channel' : channel'[i] = channel'[k] => i = k
    <3>1. \A i, k \in DOMAIN channel' : i + 1 = k + 1 => i = k
      BY <1>1, Successors
    <3> QED BY <1>1, <3>1 DEF ChannelMatchesStage
  <2> QED BY <2>2, <2>3 DEF ChannelMatchesStage
<1>8. ResponsesAreDone'
  BY <1>2, <1>3, <1>4, QueuesTyped DEF ResponsesAreDone, Jobs
<1>9. WritersHaveSession'
  BY <1>2, <1>3, <1>4 DEF WritersHaveSession, Live, SessionOpen, SessionOf
<1>10. WorkIsReachable'
  BY <1>2, <1>3, <1>4 DEF WorkIsReachable, Unfinished
<1> QED BY <1>5, <1>6, <1>7, <1>8, <1>9, <1>10

\* A job that has emitted its news is done, and a rendition has its response.
LEMMA CompleteStep ==
  ASSUME IInv, NEW j \in Jobs, Complete(j)
  PROVE  JobInv'
<1> USE DEF IInv, JobInv
<1>1. stage[j] \in {"emit", "abort"} /\ stage'[j] = "done"
   /\ \A k \in Jobs \ {j} : stage'[k] = stage[k]
  BY DEF Complete, TypeOK
<1>2. UNCHANGED <<ledger, open, bound, epoch, sessionOf, controls, channel>>
  BY DEF Complete, database, sessions
<1>3. BoundRootsOpen' /\ OneActiveScan'
  BY <1>2 DEF BoundRootsOpen, OneActiveScan
<1>4. StageMatchesRow' /\ WorkIsReachable'
  BY <1>1, <1>2 DEF StageMatchesRow, WorkIsReachable, Unfinished
<1>5. ChannelMatchesStage'
  BY <1>1, <1>2, QueuesTyped DEF ChannelMatchesStage, Jobs
<1>6. ResponsesAreDone'
  <2> DEFINE R == [job : Renditions, ok : BOOLEAN]
             e == [job |-> j, ok |-> Generated(j)]
  <2>1. \A i \in DOMAIN responses' :
          \/ i \in DOMAIN responses /\ responses'[i] = responses[i]
          \/ responses'[i].job = j
    <3>1. CASE j \in Renditions
      <4>1. responses \in Seq(R) /\ e \in R /\ e.job = j
        BY <3>1 DEF TypeOK, Generated
      <4>2. responses' = Append(responses, e)
        BY <3>1 DEF Complete, Respond
      <4> HIDE DEF R, e
      <4> QED BY <4>1, <4>2, AppendProperties, LenProperties
    <3>2. CASE j \notin Renditions
      BY <3>2 DEF Complete, Respond
    <3> QED BY <3>1, <3>2
  <2> QED BY <1>1, <2>1, QueuesTyped DEF ResponsesAreDone, Jobs
<1>7. WritersHaveSession'
  BY <1>1, <1>2 DEF WritersHaveSession, Live, SessionOpen, SessionOf
<1> QED BY <1>3, <1>4, <1>5, <1>6, <1>7

\* What reaping takes from the control map is done.
LEMMA ReapedKeepsWork ==
  \A j \in controls : j \in Reaped \/ stage[j] = "done"
BY DEF Reaped, FinishedScans

\* The EXISTS query admits a scan only where no active row is.
LEMMA BeginScanStep ==
  ASSUME IInv, NEW j \in Scans, BeginScan(j),
         bound' \in {bound, bound \union {RootOf[j]}}
  PROVE  JobInv'
<1> USE DEF IInv, JobInv
<1>1. j \in Jobs /\ RootOf[j] \in Roots /\ LibraryOf[RootOf[j]] \in open
   /\ Library(j) \in Libraries
  BY JobsAssumption DEF BeginScan, Library, Jobs
<1>2. stage[j] = "idle" /\ ledger[j] = "absent"
  BY <1>1 DEF BeginScan, StageMatchesRow
<1>3. /\ stage'[j] = "run" /\ ledger'[j] = "running"
      /\ sessionOf'[j] = epoch[Library(j)]
      /\ \A k \in Jobs \ {j} : /\ stage'[k] = stage[k] /\ ledger'[k] = ledger[k]
                               /\ sessionOf'[k] = sessionOf[k]
      /\ UNCHANGED <<open, epoch, channel, responses>>
      /\ controls' = Reaped \union {j}
  BY <1>1 DEF BeginScan, TypeOK, Control, pool
<1>4. BoundRootsOpen'
  BY <1>1, <1>3 DEF BoundRootsOpen
<1>5. StageMatchesRow'
  BY <1>1, <1>3 DEF StageMatchesRow
<1>6. OneActiveScan'
  <2>1. \A k \in Scans \ {j} : RootOf[k] = RootOf[j] => ledger'[k] \notin ActiveStates
    BY <1>3 DEF BeginScan, RootBusy, Jobs
  <2> QED BY <1>3, <2>1 DEF OneActiveScan, Jobs
<1>7. ChannelMatchesStage' /\ ResponsesAreDone'
  BY <1>2, <1>3, QueuesTyped DEF ChannelMatchesStage, ResponsesAreDone, Jobs
<1>8. WritersHaveSession'
  BY <1>1, <1>3 DEF WritersHaveSession, Live, SessionOpen, SessionOf, Library
<1>9. WorkIsReachable'
  BY <1>3, ReapedKeepsWork DEF WorkIsReachable, Unfinished
<1> QED BY <1>4, <1>5, <1>6, <1>7, <1>8, <1>9

\* A refused authorization leaves a row and nothing else.
LEMMA RefuseStep ==
  ASSUME IInv, NEW j \in Renditions, ledger[j] = "absent", Refuse(j),
         UNCHANGED <<open, epoch, bound, responses>>
  PROVE  JobInv'
<1> USE DEF IInv, JobInv
<1>1. j \in Jobs /\ j \notin Scans
  BY JobsAssumption DEF Jobs
<1>2. stage[j] = "idle"
  BY <1>1 DEF StageMatchesRow
<1>3. /\ \A k \in Jobs \ {j} : ledger'[k] = ledger[k]
      /\ UNCHANGED <<stage, sessionOf, controls, channel>>
  BY DEF Refuse, TypeOK
<1>4. BoundRootsOpen' /\ ChannelMatchesStage' /\ ResponsesAreDone'
  BY <1>3 DEF BoundRootsOpen, ChannelMatchesStage, ResponsesAreDone
<1>5. StageMatchesRow'
  BY <1>2, <1>3 DEF StageMatchesRow
<1>6. OneActiveScan'
  BY <1>1, <1>3 DEF OneActiveScan, Jobs
<1>7. WritersHaveSession' /\ WorkIsReachable'
  BY <1>3 DEF WritersHaveSession, WorkIsReachable, Live, Unfinished,
              SessionOpen, SessionOf
<1> QED BY <1>4, <1>5, <1>6, <1>7

\* An admitted authorization joins the queue, with a control, in the session
\* that keeps its root bound.
LEMMA AdmitStep ==
  ASSUME IInv, NEW j \in Renditions, ledger[j] = "absent", RootOf[j] \in bound,
         Admit(j), UNCHANGED <<open, epoch, bound, responses>>
  PROVE  JobInv'
<1> USE DEF IInv, JobInv
<1>1. j \in Jobs /\ j \notin Scans /\ LibraryOf[RootOf[j]] \in open
  BY JobsAssumption DEF Jobs, BoundRootsOpen
<1>2. stage[j] = "idle"
  BY <1>1 DEF StageMatchesRow
<1>3. /\ stage'[j] = "channel" /\ ledger'[j] = "queued"
      /\ sessionOf'[j] = epoch[Library(j)]
      /\ \A k \in Jobs \ {j} : /\ stage'[k] = stage[k] /\ ledger'[k] = ledger[k]
                               /\ sessionOf'[k] = sessionOf[k]
      /\ controls' = controls \union {j}
  BY <1>1 DEF Admit, TypeOK, Control
<1>4. BoundRootsOpen' /\ OneActiveScan'
  BY <1>1, <1>3 DEF BoundRootsOpen, OneActiveScan, Jobs
<1>5. StageMatchesRow'
  BY <1>3 DEF StageMatchesRow
<1>6. ChannelMatchesStage'
  <2>1. /\ Len(channel) \in Nat /\ DOMAIN channel = 1 .. Len(channel)
        /\ DOMAIN channel' = 1 .. Len(channel) + 1
        /\ channel'[Len(channel) + 1] = j
        /\ \A i \in 1 .. Len(channel) : channel'[i] = channel[i]
    BY AppendProperties, LenProperties DEF Admit, TypeOK
  <2>2. \A i \in DOMAIN channel : channel[i] # j
    BY <1>2 DEF ChannelMatchesStage
  <2>3. \A i \in DOMAIN channel' : stage'[channel'[i]] = "channel"
    BY <1>3, <2>1, <2>2, QueuesTyped DEF ChannelMatchesStage, Jobs
  <2>4. \A i, k \in DOMAIN channel' : channel'[i] = channel'[k] => i = k
    BY <2>1, <2>2 DEF ChannelMatchesStage
  <2> QED BY <2>3, <2>4 DEF ChannelMatchesStage
<1>7. ResponsesAreDone'
  BY <1>2, <1>3, QueuesTyped DEF ResponsesAreDone, Jobs
<1>8. WritersHaveSession'
  BY <1>1, <1>3 DEF WritersHaveSession, Live, SessionOpen, SessionOf, Library
<1>9. WorkIsReachable'
  BY <1>3 DEF WorkIsReachable, Unfinished
<1> QED BY <1>4, <1>5, <1>6, <1>7, <1>8, <1>9

\* CloseLibrary removes the session once its controls are done: since all work
\* is reachable through a control, no writer of the session is left.
LEMMA ClosedStep ==
  ASSUME IInv, Closed
  PROVE  JobInv'
<1> USE DEF IInv, JobInv
<1>1. UNCHANGED <<ledger, stage, epoch, sessionOf, channel, responses>>
   /\ controls' = Remaining
  BY DEF Closed, database, pool, Control
<1>2. \A j \in controls : j \in Remaining \/ stage[j] = "done"
  BY DEF Closed, StopComplete, Remaining
<1>3. BoundRootsOpen'
  BY DEF Closed, BoundRootsOpen
<1>4. StageMatchesRow' /\ OneActiveScan' /\ ChannelMatchesStage' /\ ResponsesAreDone'
  BY <1>1 DEF StageMatchesRow, OneActiveScan, ChannelMatchesStage, ResponsesAreDone
<1>5. WritersHaveSession'
  <2>1. ASSUME NEW j \in Jobs, Live(j) PROVE SessionOf(j) \notin stop.current
    BY <2>1 DEF WorkIsReachable, Unfinished, Live, Closed, StopComplete
  <2> QED BY <1>1, <2>1
          DEF WritersHaveSession, Live, SessionOpen, SessionOf, Closed
<1>6. WorkIsReachable'
  BY <1>1, <1>2 DEF WorkIsReachable, Unfinished
<1> QED BY <1>3, <1>4, <1>5, <1>6

\* The loop between its commands: only the controls of finished jobs go.
LEMMA LoopStep ==
  ASSUME IInv,
         \/ DeliverEvent \/ EventsDrained \/ TakeResponse \/ ResponsesDrained
         \/ NoInput \/ OtherRequest \/ StopTimeout \/ Start
         \/ Shutdown \/ EndOfInput \/ StopNext
         \/ \E l \in Libraries : CloseLibrary(l)
         \/ \E r \in Roots : BindRoot(r)
         \/ \E j \in Jobs : CancelJob(j)
  PROVE  JobInv'
<1> DEFINE Kept == \A j \in controls : j \in controls' \/ stage[j] = "done"
           Same == UNCHANGED <<ledger, stage, channel, open, epoch, sessionOf>>
<1>1. CASE DeliverEvent
  <2>1. Kept
    BY <1>1 DEF DeliverEvent, Control
  <2> QED BY <1>1, <2>1, QuietStep
          DEF DeliverEvent, database, sessions, pool, IInv, JobInv, BoundRootsOpen
<1>2. CASE TakeResponse
  <2> DEFINE R == [job : Renditions, ok : BOOLEAN]
  <2>1. responses \in Seq(R) /\ responses # << >>
    BY <1>2 DEF TakeResponse, IInv, TypeOK
  <2> HIDE DEF R
  <2>2. /\ 1 \in DOMAIN responses /\ Head(responses) = responses[1]
        /\ \A i \in DOMAIN responses' : \E k \in DOMAIN responses :
             responses'[i] = responses[k]
    <3>1. \A i \in DOMAIN responses' :
            i + 1 \in DOMAIN responses /\ responses'[i] = responses[i + 1]
      BY <1>2, <2>1, HeadTailProperties, LenProperties DEF TakeResponse
    <3> QED BY <2>1, <3>1, LenProperties
  <2>3. stage[Head(responses).job] = "done"
    BY <2>2 DEF IInv, JobInv, ResponsesAreDone
  <2>4. Kept
    BY <1>2, <2>3 DEF TakeResponse, Control
  <2> QED BY <1>2, <2>2, <2>4, QuietStep
          DEF TakeResponse, database, sessions, IInv, JobInv, BoundRootsOpen
<1>3. CASE \/ EventsDrained \/ ResponsesDrained \/ NoInput \/ StopTimeout \/ Start
  BY <1>3, QuietStep
     DEF EventsDrained, ResponsesDrained, NoInput, StopTimeout, Start, database,
         sessions, work, pool, IInv, JobInv, BoundRootsOpen
<1>4. CASE OtherRequest \/ \E j \in Jobs : CancelJob(j)
  <2>1. Kept
    BY <1>4, ReapedKeepsWork DEF OtherRequest, CancelJob, Control
  <2> QED BY <1>4, <2>1, QuietStep
          DEF OtherRequest, CancelJob, database, sessions, pool, IInv, JobInv,
              BoundRootsOpen
<1>5. CASE \E r \in Roots : BindRoot(r)
  <2>1. Kept
    BY <1>5, ReapedKeepsWork DEF BindRoot, Control
  <2> QED BY <1>5, <2>1, QuietStep
          DEF BindRoot, pool, IInv, JobInv, BoundRootsOpen
<1>6. CASE Shutdown \/ EndOfInput \/ \E l \in Libraries : CloseLibrary(l)
  <2>1. Kept
    BY <1>6, ReapedKeepsWork
       DEF Shutdown, EndOfInput, CloseLibrary, Wait, Control
  <2> QED BY <1>6, <2>1, QuietStep
          DEF Shutdown, EndOfInput, CloseLibrary, database, sessions, pool,
              IInv, JobInv, BoundRootsOpen
<1>7. CASE StopNext
  <2>1. Kept
    BY <1>7 DEF StopNext, StopComplete, Remaining, Wait, Control
  <2> QED BY <1>7, <2>1, QuietStep
          DEF StopNext, database, sessions, pool, IInv, JobInv, BoundRootsOpen
<1> QED BY <1>1, <1>2, <1>3, <1>4, <1>5, <1>6, <1>7

LEMMA ScanStep ==
  ASSUME IInv, NEW j \in Scans, ScanThread(j)
  PROVE  JobInv'
<1>1. j \in Jobs /\ ledger \in [Jobs -> JobStates]
  BY DEF Jobs, IInv, TypeOK
<1>2. CASE ScanProgress(j)
  BY <1>2, QuietStep
     DEF ScanProgress, database, sessions, work, pool, IInv, JobInv, BoundRootsOpen
<1>3. CASE BeginProbe(j) \/ EndProbe(j) \/ RefuseProbe(j)
  <2>1. PICK from, to \in {"run", "probe"} : MoveScan(j, from, to)
    BY <1>3 DEF BeginProbe, EndProbe, RefuseProbe
  <2>2. ledger[j] = "running"
    BY <1>1, <2>1 DEF MoveScan, IInv, JobInv, StageMatchesRow
  <2>3. ledger' = [ledger EXCEPT ![j] = "running"]
    BY <1>1, <2>1, <2>2 DEF MoveScan, database
  <2> QED BY <1>1, <2>1, <2>2, <2>3, MoveStep
          DEF MoveScan, Stages, ActiveStates, sessions, pool
<1>4. CASE FinishScan(j)
  <2>1. ledger[j] = "running" /\ stage[j] = "run"
    BY <1>1, <1>4
       DEF FinishScan, ConcludeScan, Leave, IInv, JobInv, StageMatchesRow
  <2>2. PICK to \in {"emit", "abort"}, row \in {"running"} \union TerminalStates :
          /\ stage' = [stage EXCEPT ![j] = to]
          /\ ledger' = [ledger EXCEPT ![j] = row]
    BY <1>1, <1>4, <2>1
       DEF FinishScan, ConcludeScan, Leave, TerminalStates, database
  <2>3. UNCHANGED <<open, epoch, sessionOf, bound, controls, channel, responses>>
    BY <1>4 DEF FinishScan, ConcludeScan, Leave, sessions, pool
  <2> QED BY <1>1, <2>1, <2>2, <2>3, MoveStep
          DEF Stages, ActiveStates, TerminalStates
<1> QED BY <1>2, <1>3, <1>4 DEF ScanThread

LEMMA WorkerStep ==
  ASSUME IInv, NEW j \in Renditions, Worker(j)
  PROVE  JobInv'
<1>1. j \in Jobs /\ j \notin Scans /\ ledger \in [Jobs -> JobStates]
  BY JobsAssumption DEF Jobs, IInv, TypeOK
<1>2. PICK from \in {"start", "run"}, to \in {"run", "emit", "abort"},
           row \in JobStates :
        /\ stage[j] = from /\ stage' = [stage EXCEPT ![j] = to]
        /\ ledger' = [ledger EXCEPT ![j] = row]
        /\ row # "absent" /\ (to = "run" => row = "running")
  <2>1. CASE StartRendition(j)
    <3>1. ledger[j] = "queued"
      BY <1>1, <2>1 DEF StartRendition, IInv, JobInv, StageMatchesRow
    <3> QED BY <1>1, <2>1, <3>1 DEF StartRendition, JobStates, ActiveStates
  <2>2. CASE FinishRendition(j)
    <3>1. ledger[j] = "running"
      BY <1>1, <2>2 DEF FinishRendition, Leave, IInv, JobInv, StageMatchesRow
    <3> QED BY <1>1, <2>2, <3>1
            DEF FinishRendition, Leave, JobStates, ActiveStates, TerminalStates
  <2> QED BY <2>1, <2>2 DEF Worker
<1>3. UNCHANGED <<open, epoch, sessionOf, bound, controls, channel, responses>>
  BY DEF Worker, StartRendition, FinishRendition, Leave, sessions, pool
<1> QED BY <1>1, <1>2, <1>3, MoveStep DEF Stages

LEMMA JobStep ==
  ASSUME IInv, [Next]_vars
  PROVE  JobInv'
<1>1. OneActiveScan
  BY DEF IInv, JobInv
<1>2. ASSUME NEW l \in Libraries, OpenLibrary(l) PROVE JobInv'
  <2>1. \A m \in Libraries \ {l} : epoch'[m] = epoch[m]
    BY <1>2 DEF OpenLibrary, IInv, TypeOK
  <2>2. \A j \in controls : j \in controls' \/ stage[j] = "done"
    BY <1>2, ReapedKeepsWork DEF OpenLibrary, Control
  <2> QED BY <1>2, <2>1, <2>2, RecoverStep DEF OpenLibrary, pool
<1>3. ASSUME NEW l \in Libraries, OpenFails(l) PROVE JobInv'
  <2>1. \A j \in controls : j \in controls' \/ stage[j] = "done"
    BY <1>3, ReapedKeepsWork DEF OpenFails, Control
  <2> QED BY <1>3, <2>1, RecoverStep
          DEF OpenFails, PartOfRecovery, sessions, pool
<1>4. ASSUME NEW l \in Libraries, CrashWhileOpening(l) PROVE JobInv'
  <2>1. OneActiveScan'
    BY <1>1, <1>4, RecoverySparesLive
       DEF CrashWhileOpening, PartOfRecovery, OneActiveScan, Jobs
  <2> QED BY <1>4, <2>1, LoseStep DEF CrashWhileOpening
<1>5. CASE Exit \/ Crash
  <2>1. OneActiveScan'
    BY <1>1, <1>5 DEF Exit, Crash, database, OneActiveScan
  <2> QED BY <1>5, <2>1, LoseStep DEF Exit, Crash
<1>6. ASSUME NEW j \in Scans, AddRoot(j) \/ ScanRoot(j) PROVE JobInv'
  BY <1>6, BeginScanStep DEF AddRoot, ScanRoot
<1>7. ASSUME NEW j \in Renditions, AuthorizeResource(j) PROVE JobInv'
  BY <1>7, RefuseStep, AdmitStep DEF AuthorizeResource, sessions
<1>8. ASSUME NEW j \in Jobs, EmitNext(j) PROVE JobInv'
  BY <1>8, QuietStep
     DEF EmitNext, database, sessions, pool, IInv, JobInv, BoundRootsOpen
<1>9. CASE UNCHANGED vars
  BY <1>9, QuietStep
     DEF vars, database, sessions, work, pool, IInv, JobInv, BoundRootsOpen
<1>10. CASE MainLoop
  BY <1>10, <1>2, <1>3, <1>5, <1>6, <1>7, LoopStep, ClosedStep DEF MainLoop
<1>11. CASE Next /\ ~MainLoop
  BY <1>11, <1>4, <1>5, <1>8, LoopStep, ScanStep, WorkerStep, TakeWorkStep,
     CompleteStep DEF Next, Farewell
<1> QED BY <1>9, <1>10, <1>11

LEMMA JobInit == Init => JobInv
<1> SUFFICES ASSUME Init PROVE JobInv
    OBVIOUS
<1>1. BoundRootsOpen /\ ChannelMatchesStage /\ ResponsesAreDone
  BY EmptySeq DEF Init, BoundRootsOpen, ChannelMatchesStage, ResponsesAreDone
<1>2. StageMatchesRow /\ WritersHaveSession /\ WorkIsReachable
  BY DEF Init, StageMatchesRow, WritersHaveSession, WorkIsReachable, Live, Unfinished
<1>3. OneActiveScan
  BY DEF Init, OneActiveScan, ActiveStates, Jobs
<1> QED BY <1>1, <1>2, <1>3 DEF JobInv

-----------------------------------------------------------------------------
(* What follows for every instance.                                        *)

\* Rows, stages, controls and sessions stay consistent with each other.
THEOREM Invariance == Spec => []IInv
<1>1. Init => IInv
  BY TypeInit, JobInit DEF IInv
<1>2. IInv /\ [Next]_vars => IInv'
  BY TypeStep, JobStep DEF IInv
<1> QED BY <1>1, <1>2, PTL DEF Spec

\* A job that may still write a package has its session open: CloseLibrary,
\* Shutdown, timeouts and reaping never take the lock from under a writer.
THEOREM WritersKeepTheirSession == Spec => []WritersHaveSession
<1>1. IInv => WritersHaveSession
  BY DEF IInv, JobInv
<1> QED BY <1>1, Invariance, PTL

\* Whatever events were dropped, an unfinished job can be cancelled and waited
\* for through its control.
THEOREM WorkStaysReachable == Spec => []WorkIsReachable
<1>1. IInv => WorkIsReachable
  BY DEF IInv, JobInv
<1> QED BY <1>1, Invariance, PTL

\* No two threads walk one root.
THEOREM ScansAreExclusive == Spec => []OneScanPerRoot
<1>1. IInv => OneScanPerRoot
  <2> SUFFICES ASSUME IInv, NEW j \in Scans, NEW k \in Scans,
                      Live(j), Live(k), RootOf[j] = RootOf[k]
               PROVE  j = k
    BY DEF OneScanPerRoot
  <2>1. ledger[j] \in ActiveStates /\ ledger[k] \in ActiveStates
    BY DEF IInv, JobInv, StageMatchesRow, Live, ActiveStates, Jobs
  <2> QED BY <2>1 DEF IInv, JobInv, OneActiveScan
<1> QED BY <1>1, Invariance, PTL

-----------------------------------------------------------------------------
(* The rows of the jobs table implement JobLedger.                         *)

LEMMA RecoveryImplements ==
  ASSUME TypeOK, NEW l \in Libraries, ledger' = RecoveredJobs(l)
  PROVE  [Ledger!Next]_ledger
<1>1. CASE \E j \in Jobs : Library(j) = l
  <2>1. PICK j \in Jobs : LibraryOf[RootOf[j]] = l
    BY <1>1 DEF Library
  <2>2. RootOf[j] \in DOMAIN LibraryOf
    BY JobsAssumption
  <2>3. Ledger!Recover(LibraryOf[RootOf[j]])
    BY <2>1 DEF RecoveredJobs, Library, Ledger!Recover, Ledger!Active,
                ActiveStates, Ledger!Jobs, Jobs
  <2> QED BY <2>2, <2>3 DEF Ledger!Next
<1>2. CASE ~ \E j \in Jobs : Library(j) = l
  BY <1>2 DEF RecoveredJobs, TypeOK
<1> QED BY <1>1, <1>2

LEMMA StartImplements ==
  ASSUME NEW j \in Scans, AddRoot(j) \/ ScanRoot(j)
  PROVE  Ledger!Next
<1>1. Ledger!StartScan(j)
  BY DEF AddRoot, ScanRoot, BeginScan, RootBusy, Ledger!StartScan,
         Ledger!Active, ActiveStates, Ledger!Jobs, Jobs
<1> QED BY <1>1 DEF Ledger!Next

LEMMA SubmitImplements ==
  ASSUME NEW j \in Renditions, AuthorizeResource(j)
  PROVE  Ledger!Next
<1>1. Ledger!Submit(j)
  BY DEF AuthorizeResource, Refuse, Admit, Ledger!Submit
<1> QED BY <1>1 DEF Ledger!Next

LEMMA ScanImplements ==
  ASSUME IInv, NEW j \in Scans, ScanThread(j)
  PROVE  [Ledger!Next]_ledger
<1>1. CASE \/ ScanProgress(j) \/ BeginProbe(j) \/ EndProbe(j) \/ RefuseProbe(j)
  BY <1>1 DEF ScanProgress, BeginProbe, EndProbe, RefuseProbe, MoveScan, database
<1>2. CASE FinishScan(j)
  <2>1. j \in Jobs /\ ledger[j] = "running"
    BY <1>2 DEF FinishScan, ConcludeScan, Leave, IInv, JobInv, StageMatchesRow, Jobs
  <2>2. Ledger!End(j) \/ UNCHANGED ledger
    BY <1>2, <2>1 DEF FinishScan, ConcludeScan, database, Ledger!End, Ledger!Final
  <2> QED BY <2>1, <2>2 DEF Ledger!Next, Ledger!Jobs, Jobs
<1> QED BY <1>1, <1>2 DEF ScanThread

LEMMA WorkerImplements ==
  ASSUME IInv, NEW j \in Renditions, Worker(j)
  PROVE  [Ledger!Next]_ledger
<1>1. j \in Jobs
  BY DEF Jobs
<1>2. CASE StartRendition(j)
  <2>1. ledger[j] = "queued"
    BY <1>1, <1>2 DEF StartRendition, IInv, JobInv, StageMatchesRow
  <2>2. Ledger!Begin(j) \/ UNCHANGED ledger
    BY <1>2, <2>1 DEF StartRendition, Ledger!Begin
  <2> QED BY <2>2 DEF Ledger!Next
<1>3. CASE FinishRendition(j)
  <2>1. ledger[j] = "running"
    BY <1>1, <1>3 DEF FinishRendition, Leave, IInv, JobInv, StageMatchesRow
  <2>2. Ledger!End(j) \/ UNCHANGED ledger
    BY <1>3, <2>1 DEF FinishRendition, Ledger!End, Ledger!Final
  <2> QED BY <1>1, <2>2 DEF Ledger!Next, Ledger!Jobs, Jobs
<1> QED BY <1>2, <1>3 DEF Worker

\* No other step touches the rows.
LEMMA OthersKeepRows ==
  ASSUME \/ DeliverEvent \/ EventsDrained \/ TakeResponse \/ ResponsesDrained
         \/ NoInput \/ OtherRequest \/ Shutdown \/ EndOfInput \/ StopNext
         \/ Closed \/ Exit \/ StopTimeout \/ Crash \/ Start \/ TakeWork
         \/ \E l \in Libraries : CloseLibrary(l)
         \/ \E r \in Roots : BindRoot(r)
         \/ \E j \in Jobs : CancelJob(j) \/ Farewell(j)
         \/ UNCHANGED vars
  PROVE  UNCHANGED ledger
BY DEF DeliverEvent, EventsDrained, TakeResponse, ResponsesDrained, NoInput,
       OtherRequest, Shutdown, EndOfInput, StopNext, Closed, Exit, StopTimeout,
       Crash, Start, TakeWork, CloseLibrary, BindRoot, CancelJob, Farewell,
       EmitNext, Complete, vars, database

LEMMA LedgerStep ==
  ASSUME IInv, [Next]_vars
  PROVE  [Ledger!Next]_ledger
<1>1. ASSUME NEW l \in Libraries, OpenLibrary(l) \/ OpenFails(l) \/ CrashWhileOpening(l)
      PROVE  [Ledger!Next]_ledger
  BY <1>1, RecoveryImplements
     DEF OpenLibrary, OpenFails, CrashWhileOpening, PartOfRecovery, IInv
<1>2. CASE MainLoop
  BY <1>1, <1>2, StartImplements, SubmitImplements, OthersKeepRows DEF MainLoop
<1>3. CASE Next /\ ~MainLoop
  BY <1>1, <1>3, ScanImplements, WorkerImplements, OthersKeepRows DEF Next
<1>4. CASE UNCHANGED vars
  BY <1>4, OthersKeepRows
<1> QED BY <1>2, <1>3, <1>4

\* Crashes, closes, refusals and failed writes take every row along a path of
\* the abstract ledger.
THEOREM ImplementsLedger == Spec => LedgerSpec
<1>1. Init => Ledger!Init
  BY DEF Init, Ledger!Init, Ledger!Jobs, Jobs
<1>2. IInv /\ [Next]_vars => [Ledger!Next]_ledger
  BY LedgerStep
<1> QED BY <1>1, <1>2, Invariance, PTL DEF Spec, LedgerSpec, Ledger!Spec

\* A row that says completed, failed or cancelled is never rewritten.
THEOREM OutcomesAreFinal == Spec => TerminalIsFinal
<1> DEFINE Kept == \A j \in Jobs : ledger[j] \in TerminalStates => ledger'[j] = ledger[j]
<1>1. IInv /\ [Next]_vars => Kept
  <2> SUFFICES ASSUME IInv, [Next]_vars PROVE Kept
      OBVIOUS
  <2>1. [Ledger!Next]_ledger /\ ledger \in [Jobs -> JobStates]
    BY LedgerStep DEF IInv, TypeOK
  <2>2. CASE Ledger!Next
    BY <2>1, <2>2 DEF Ledger!Next, Ledger!StartScan, Ledger!Submit, Ledger!Begin,
              Ledger!End, Ledger!Recover, Ledger!Active, Ledger!Jobs, Jobs,
              TerminalStates
  <2>3. CASE UNCHANGED ledger
    BY <2>3
  <2> QED BY <2>1, <2>2, <2>3
<1> QED BY <1>1, Invariance, PTL DEF Spec, TerminalIsFinal
=============================================================================
