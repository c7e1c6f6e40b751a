------------------------ MODULE RenditionCacheProofs ------------------------
(***************************************************************************)
(* The cache of renditions for every number of processes, workers, entries *)
(* and requests: one permit per key, and nothing served that is not its    *)
(* revision.                                                               *)
(***************************************************************************)
EXTENDS RenditionCache, TLAPS

-----------------------------------------------------------------------------
(* Types.                                                                  *)

\* A worker that stands somewhere has an entry.
Busy == \A w \in Workers : at[w] # "idle" => key[w] \in Keys

Typed == TypeOK /\ Busy

\* What every way out of authorize does.
LEMMA ReturnsTyped ==
  ASSUME Typed, NEW w \in Workers, Returns(w)
  PROVE  /\ at' \in [Workers -> Stages] /\ key' \in [Workers -> Keys \union {NoKey}]
         /\ temporary' \in [Workers -> Files] /\ note' \in [Workers -> Files]
         /\ gate' \in [Processes -> SUBSET Keys]
         /\ \A v \in Workers : at'[v] # "idle" => key'[v] \in Keys
BY CacheAssumption DEF Returns, Goes, Typed, TypeOK, Busy, Stages, Files

LEMMA KillTyped ==
  ASSUME Typed, NEW p \in Processes, Kill(p)
  PROVE  Typed'
<1>1. /\ at' \in [Workers -> Stages] /\ key' \in [Workers -> Keys \union {NoKey}]
      /\ temporary' \in [Workers -> Files] /\ note' \in [Workers -> Files]
  BY DEF Kill, Typed, TypeOK, Stages, Files
<1>2. gate' \in [Processes -> SUBSET Keys]
  BY DEF Kill, Typed, TypeOK
<1>3. Busy'
  BY DEF Kill, Typed, TypeOK, Busy
<1> QED BY <1>1, <1>2, <1>3 DEF Kill, Typed, TypeOK, files, counts

\* The steps of a worker that stays in authorize.
LEMMA StepTyped ==
  ASSUME Typed, NEW w \in Workers,
         \/ CheckEvidence(w) \/ AcquireKey(w) \/ Validate(w)
         \/ DropTarget(w) \/ DropRecord(w) \/ Generate(w) \/ Recheck(w)
         \/ WriteIntegrity(w) \/ Publish(w) \/ PublishRecord(w) \/ SyncDirectory(w)
  PROVE  Typed'
<1>1. at[w] # "idle" /\ key[w] \in Keys /\ key' = key /\ UNCHANGED <<source, served, counts>>
  BY DEF CheckEvidence, AcquireKey, Validate, DropTarget, DropRecord, Generate, Recheck,
         WriteIntegrity, Publish, PublishRecord, SyncDirectory, Step, Typed, Busy
<1>2. \E s \in Stages \ {"idle"} : at' = [at EXCEPT ![w] = s]
  BY DEF CheckEvidence, AcquireKey, Validate, DropTarget, DropRecord, Generate, Recheck,
         WriteIntegrity, Publish, PublishRecord, SyncDirectory, Goes, Stages
<1>3. Busy'
  BY <1>1, <1>2 DEF Typed, Busy, TypeOK
<1>4. at' \in [Workers -> Stages]
  BY <1>2 DEF Typed, TypeOK
<1>5. /\ target' \in [Keys -> Files] /\ record' \in [Keys -> Files]
      /\ temporary' \in [Workers -> Files] /\ note' \in [Workers -> Files]
      /\ gate' \in [Processes -> SUBSET Keys]
  <2>1. CASE CheckEvidence(w) \/ Validate(w) \/ Recheck(w) \/ SyncDirectory(w)
    BY <2>1 DEF CheckEvidence, Validate, Recheck, SyncDirectory, files, Typed, TypeOK
  <2>2. CASE AcquireKey(w)
    BY <2>2, <1>1, CacheAssumption DEF AcquireKey, files, Typed, TypeOK
  <2>3. CASE DropTarget(w) \/ DropRecord(w)
    BY <2>3, <1>1 DEF DropTarget, DropRecord, Files, Typed, TypeOK
  <2>4. CASE Generate(w) \/ WriteIntegrity(w)
    BY <2>4, <1>1 DEF Generate, WriteIntegrity, files, Files, Typed, TypeOK
  <2>5. CASE Publish(w)
    BY <2>5, <1>1 DEF Publish, Files, Typed, TypeOK
  <2>6. CASE PublishRecord(w)
    BY <2>6, <1>1 DEF PublishRecord, Files, Typed, TypeOK
  <2> QED BY <2>1, <2>2, <2>3, <2>4, <2>5, <2>6
<1> QED BY <1>1, <1>3, <1>4, <1>5 DEF Typed, TypeOK, counts

LEMMA TypedStep == Typed /\ [Next]_vars => Typed'
<1> SUFFICES ASSUME Typed, [Next]_vars PROVE Typed'
  OBVIOUS
<1>1. CASE UNCHANGED vars
  BY <1>1 DEF vars, files, workers, counts, Typed, TypeOK, Busy
<1>2. ASSUME NEW k \in Keys, EditSource(k) PROVE Typed'
  BY <1>2 DEF EditSource, files, workers, Typed, TypeOK, Busy, Images
<1>3. ASSUME NEW w \in Workers, NEW k \in Keys, Request(w, k) PROVE Typed'
  <2>0. ProcessOf[w] \in Processes
    BY CacheAssumption
  <2>1. users' \in [Keys -> SUBSET Processes] /\ requests' \in Nat
    <3>1. users' \in [Keys -> SUBSET Processes]
      BY <1>3, <2>0 DEF Request, Typed, TypeOK
    <3>2. requests' \in Nat
      BY <1>3 DEF Request, Typed, TypeOK
    <3> QED BY <3>1, <3>2
  <2>2. /\ at' \in [Workers -> Stages] /\ key' \in [Workers -> Keys \union {NoKey}]
        /\ Busy'
    BY <1>3 DEF Request, Goes, Stages, Typed, TypeOK, Busy
  <2> QED BY <1>3, <2>1, <2>2 DEF Request, files, Typed, TypeOK
<1>4. ASSUME NEW w \in Workers, Refused(w) \/ SourceChanged(w) \/ SyncFails(w)
      PROVE  Typed'
  BY <1>4, ReturnsTyped
     DEF Refused, SourceChanged, SyncFails, files, counts, Typed, TypeOK, Busy
<1>5. ASSUME NEW w \in Workers, PublishRecordFails(w) PROVE Typed'
  <2>1. target' \in [Keys -> Files]
    BY <1>5 DEF PublishRecordFails, Files, Typed, TypeOK
  <2> QED BY <1>5, <2>1, ReturnsTyped
          DEF PublishRecordFails, counts, Typed, TypeOK, Busy
<1>6. ASSUME NEW w \in Workers, Describe(w) PROVE Typed'
  <2>1. served' \in Files
    BY <1>6 DEF Describe, Typed, TypeOK, Busy
  <2> QED BY <1>6, <2>1, ReturnsTyped
          DEF Describe, files, counts, Typed, TypeOK, Busy
<1> QED BY <1>1, <1>2, <1>3, <1>4, <1>5, <1>6, StepTyped, KillTyped
        DEF Next, Quiet, WorkerStep

LEMMA InitTyped == Init => Typed
BY CacheAssumption
   DEF Init, Typed, TypeOK, Busy, Stages, Files, Images

\* Every variable has its type.
THEOREM TypeCorrect == Spec => []TypeOK
<1>1. Spec => []Typed
  BY InitTyped, TypedStep, PTL DEF Spec
<1>2. Typed => TypeOK
  BY DEF Typed
<1> QED BY <1>1, <1>2, PTL

-----------------------------------------------------------------------------
(* One permit per key.                                                     *)

Gated == Typed /\ OnePermitPerKey

\* A worker that does not cross the border of its permit changes nothing.
LEMMA PermitKept ==
  ASSUME Gated, Typed', gate' = gate, NEW w \in Workers,
         (at[w] \in Inside) <=> (at'[w] \in Inside),
         at[w] \in Inside => key'[w] = key[w],
         \A v \in Workers \ {w} : at'[v] = at[v] /\ key'[v] = key[v]
  PROVE  OnePermitPerKey'
<1> SUFFICES ASSUME NEW p \in Processes
             PROVE  /\ gate'[p] = {key'[v] : v \in Holding(p)'}
                    /\ \A u, v \in Holding(p)' : key'[u] = key'[v] => v = u
    BY DEF OnePermitPerKey
<1>1. Holding(p)' = Holding(p)
  BY DEF Holding
<1>2. \A v \in Holding(p) : key'[v] = key[v]
  BY DEF Holding
<1>3. {key'[v] : v \in Holding(p)} = {key[v] : v \in Holding(p)}
  BY <1>2
<1> QED BY <1>1, <1>2, <1>3 DEF Gated, OnePermitPerKey

\* Every way out of authorize gives back the permit the worker has, if any.
LEMMA PermitReturned ==
  ASSUME Gated, Typed', NEW w \in Workers, Returns(w)
  PROVE  OnePermitPerKey'
<1>1. /\ at'[w] = "idle"
      /\ \A v \in Workers \ {w} : at'[v] = at[v] /\ key'[v] = key[v]
  BY DEF Returns, Goes, Gated, Typed, TypeOK
<1>2. CASE at[w] \notin Inside
  BY <1>1, <1>2, PermitKept DEF Returns, Inside
<1>3. CASE at[w] \in Inside
  <2> SUFFICES ASSUME NEW p \in Processes
               PROVE  /\ gate'[p] = {key'[v] : v \in Holding(p)'}
                      /\ \A u, v \in Holding(p)' : key'[u] = key'[v] => v = u
      BY DEF OnePermitPerKey
  <2>1. Holding(p)' = Holding(p) \ {w}
    BY <1>1 DEF Holding, Inside
  <2>2. \A v \in Holding(p) \ {w} : key'[v] = key[v]
    BY <1>1 DEF Holding
  <2>3. {key'[v] : v \in Holding(p)'} = {key[v] : v \in Holding(p) \ {w}}
    BY <2>1, <2>2
  <2>4. gate[p] = {key[v] : v \in Holding(p)}
        /\ \A u, v \in Holding(p) : key[u] = key[v] => v = u
    BY DEF Gated, OnePermitPerKey
  <2>5. gate'[p] = IF ProcessOf[w] = p THEN gate[p] \ {key[w]} ELSE gate[p]
    BY <1>3, CacheAssumption DEF Returns, Gated, Typed, TypeOK
  <2>6. (w \in Holding(p)) <=> (ProcessOf[w] = p)
    BY <1>3 DEF Holding
  <2>7. gate'[p] = {key[v] : v \in Holding(p) \ {w}}
    BY <2>4, <2>5, <2>6
  <2> QED BY <2>1, <2>2, <2>3, <2>4, <2>7
<1> QED BY <1>2, <1>3

\* acquire_key lets nobody in while the gate is shut.
LEMMA PermitTaken ==
  ASSUME Gated, Typed', NEW w \in Workers, AcquireKey(w)
  PROVE  OnePermitPerKey'
<1>1. /\ at[w] = "acquire" /\ at'[w] = "validate" /\ key' = key
      /\ key[w] \notin gate[ProcessOf[w]]
      /\ \A v \in Workers \ {w} : at'[v] = at[v]
  BY DEF AcquireKey, Step, Goes, Gated, Typed, TypeOK
<1> SUFFICES ASSUME NEW p \in Processes
             PROVE  /\ gate'[p] = {key[v] : v \in Holding(p)'}
                    /\ \A u, v \in Holding(p)' : key[u] = key[v] => v = u
    BY <1>1 DEF OnePermitPerKey
<1>2. gate[p] = {key[v] : v \in Holding(p)}
      /\ \A u, v \in Holding(p) : key[u] = key[v] => v = u
  BY DEF Gated, OnePermitPerKey
<1>3. CASE ProcessOf[w] # p
  <2>1. gate'[p] = gate[p]
    BY <1>3, CacheAssumption DEF AcquireKey, Gated, Typed, TypeOK
  <2>2. Holding(p)' = Holding(p)
    BY <1>1, <1>3 DEF Holding
  <2> QED BY <1>2, <2>1, <2>2
<1>4. CASE ProcessOf[w] = p
  <2>1. gate'[p] = gate[p] \union {key[w]}
    BY <1>4, CacheAssumption DEF AcquireKey, Gated, Typed, TypeOK
  <2>2. Holding(p)' = Holding(p) \union {w}
    BY <1>1, <1>4 DEF Holding, Inside, Stages
  <2>3. \A v \in Holding(p) : key[v] # key[w]
    BY <1>1, <1>2, <1>4
  <2> QED BY <1>2, <2>1, <2>2, <2>3
<1> QED BY <1>3, <1>4

\* The gates of a killed process are gone, and so are its workers.
LEMMA PermitsKilled ==
  ASSUME Gated, Typed', NEW q \in Processes, Kill(q)
  PROVE  OnePermitPerKey'
<1> SUFFICES ASSUME NEW p \in Processes
             PROVE  /\ gate'[p] = {key'[v] : v \in Holding(p)'}
                    /\ \A u, v \in Holding(p)' : key'[u] = key'[v] => v = u
    BY DEF OnePermitPerKey
<1>1. gate'[p] = IF p = q THEN {} ELSE gate[p]
  BY DEF Kill, Gated, Typed, TypeOK
<1>2. \A v \in Workers : /\ at'[v] = IF ProcessOf[v] = q THEN "idle" ELSE at[v]
                         /\ ProcessOf[v] # q => key'[v] = key[v]
  BY DEF Kill
<1>3. CASE p = q
  BY <1>1, <1>2, <1>3 DEF Holding, Inside
<1>4. CASE p # q
  <2>1. Holding(p)' = Holding(p) /\ \A v \in Holding(p) : key'[v] = key[v]
    BY <1>2, <1>4 DEF Holding
  <2>2. {key'[v] : v \in Holding(p)} = {key[v] : v \in Holding(p)}
    BY <2>1
  <2> QED BY <1>1, <1>4, <2>1, <2>2 DEF Gated, OnePermitPerKey
<1> QED BY <1>3, <1>4

LEMMA GatedStep == Gated /\ [Next]_vars => Gated'
<1> SUFFICES ASSUME Gated, [Next]_vars PROVE OnePermitPerKey'
    BY TypedStep DEF Gated
<1>0. Typed'
  BY TypedStep DEF Gated
<1>1. CASE UNCHANGED vars \/ \E k \in Keys : EditSource(k)
  <2>1. UNCHANGED <<gate, at, key>>
    BY <1>1 DEF vars, workers, EditSource
  <2> QED BY <2>1 DEF Gated, OnePermitPerKey, Holding
<1>2. ASSUME NEW w \in Workers, NEW k \in Keys, Request(w, k) PROVE OnePermitPerKey'
  <2>1. /\ gate' = gate /\ at[w] = "idle" /\ at'[w] = "evidence"
        /\ \A v \in Workers \ {w} : at'[v] = at[v] /\ key'[v] = key[v]
    BY <1>2 DEF Request, Goes, Gated, Typed, TypeOK
  <2> QED BY <1>0, <2>1, PermitKept DEF Inside
<1>3. ASSUME NEW w \in Workers,
             \/ Refused(w) \/ SourceChanged(w) \/ SyncFails(w)
             \/ PublishRecordFails(w) \/ Describe(w)
      PROVE  OnePermitPerKey'
  BY <1>0, <1>3, PermitReturned
     DEF Refused, SourceChanged, SyncFails, PublishRecordFails, Describe
<1>4. ASSUME NEW w \in Workers, CheckEvidence(w) PROVE OnePermitPerKey'
  <2>1. /\ gate' = gate /\ at[w] = "evidence" /\ at'[w] = "acquire" /\ key' = key
        /\ \A v \in Workers \ {w} : at'[v] = at[v]
    BY <1>4 DEF CheckEvidence, Step, Goes, Gated, Typed, TypeOK
  <2> QED BY <1>0, <2>1, PermitKept DEF Inside
<1>5. ASSUME NEW w \in Workers,
             \/ Validate(w) \/ DropTarget(w) \/ DropRecord(w) \/ Generate(w)
             \/ Recheck(w) \/ WriteIntegrity(w) \/ Publish(w)
             \/ PublishRecord(w) \/ SyncDirectory(w)
      PROVE  OnePermitPerKey'
  <2>1. /\ gate' = gate /\ key' = key /\ at[w] \in Inside
        /\ \E s \in Inside : at' = [at EXCEPT ![w] = s]
    BY <1>5 DEF Validate, DropTarget, DropRecord, Generate, Recheck, WriteIntegrity,
                Publish, PublishRecord, SyncDirectory, Step, Goes, Inside, Stages
  <2>2. at'[w] \in Inside /\ \A v \in Workers \ {w} : at'[v] = at[v]
    BY <2>1 DEF Gated, Typed, TypeOK
  <2> QED BY <1>0, <2>1, <2>2, PermitKept
<1> QED BY <1>0, <1>1, <1>2, <1>3, <1>4, <1>5, PermitTaken, PermitsKilled
        DEF Next, Quiet, WorkerStep

\* However authorizations end and helpers are killed, of the workers of one
\* process one at a time has the permit of a key (KeyGate), and a key is locked
\* only while somebody works on it.
THEOREM PermitsAreExclusive == Spec => []OnePermitPerKey
<1>1. Init => Gated
  BY InitTyped DEF Gated, Init, OnePermitPerKey, Holding, Inside
<1>2. Gated => OnePermitPerKey
  BY DEF Gated
<1> QED BY <1>1, <1>2, GatedStep, PTL DEF Spec

-----------------------------------------------------------------------------
(* What is served.                                                         *)

\* A temporary passes the second look at its source only if it was made from
\* the revision, and nothing else is ever published.
Pure ==
  /\ \A k \in Keys : target[k] # "other"
  /\ \A w \in Workers :
       /\ at[w] = "recheck" =>
            \/ temporary[w] = "rev"
            \/ temporary[w] = "other" /\ source[key[w]] = "other"
       /\ at[w] \in {"integrity", "publish"} => temporary[w] = "rev"
       /\ at[w] \in {"publishRecord", "sync", "describe"} => target[key[w]] \in {"none", "rev"}
  /\ served \in {"none", "rev"}

\* The steps that write, with what they write.
LEMMA Writes ==
  ASSUME Typed, [Next]_vars
  PROVE  /\ \A k \in Keys :
              \/ target'[k] = target[k]
              \/ target'[k] = "none"
              \/ \E w \in Workers : at[w] = "publish" /\ target'[k] = temporary[w]
         /\ \A k \in Keys : ~Reverts /\ source[k] = "other" => source'[k] = "other"
<1>1. CASE UNCHANGED vars
  BY <1>1 DEF vars, files
<1>2. CASE \E k \in Keys : EditSource(k)
  BY <1>2 DEF EditSource, files, Typed, TypeOK
<1>3. ASSUME NEW w \in Workers, NEW k \in Keys, Request(w, k)
      PROVE  UNCHANGED <<source, target>>
  BY <1>3 DEF Request, files
<1>4. ASSUME NEW p \in Processes, Kill(p) PROVE UNCHANGED <<source, target>>
  BY <1>4 DEF Kill, files
<1>5. ASSUME NEW w \in Workers,
             \/ Refused(w) \/ SourceChanged(w) \/ SyncFails(w) \/ Describe(w)
             \/ CheckEvidence(w) \/ AcquireKey(w) \/ Validate(w) \/ DropRecord(w)
             \/ Generate(w) \/ Recheck(w) \/ WriteIntegrity(w) \/ PublishRecord(w)
             \/ SyncDirectory(w)
      PROVE  UNCHANGED <<source, target>>
  BY <1>5 DEF Refused, SourceChanged, SyncFails, Describe, CheckEvidence, AcquireKey,
              Validate, DropRecord, Generate, Recheck, WriteIntegrity, PublishRecord,
              SyncDirectory, Step, files
<1>6. ASSUME NEW w \in Workers, DropTarget(w) \/ PublishRecordFails(w)
      PROVE  /\ \A k \in Keys : target'[k] \in {target[k], "none"}
             /\ UNCHANGED source
  BY <1>6 DEF DropTarget, PublishRecordFails, Step, Typed, TypeOK
<1>7. ASSUME NEW w \in Workers, Publish(w)
      PROVE  /\ at[w] = "publish"
             /\ \A k \in Keys : target'[k] \in {target[k], temporary[w]}
             /\ UNCHANGED source
  BY <1>7 DEF Publish, Step, Typed, TypeOK
<1> QED BY <1>1, <1>2, <1>3, <1>4, <1>5, <1>6, <1>7 DEF Next, Quiet, WorkerStep

\* A worker that does not move keeps its entry and its temporaries, and one
\* that moves is the only one.
LEMMA OneMoves ==
  ASSUME Typed, [Next]_vars, NEW w \in Workers
  PROVE  \/ /\ at'[w] = at[w] /\ key'[w] = key[w]
            /\ temporary'[w] = temporary[w] /\ note'[w] = note[w]
         \/ at'[w] \in {"idle", "evidence"}
         \/ CheckEvidence(w) \/ AcquireKey(w) \/ Validate(w)
         \/ DropTarget(w) \/ DropRecord(w) \/ Generate(w) \/ Recheck(w)
         \/ WriteIntegrity(w) \/ Publish(w) \/ PublishRecord(w) \/ SyncDirectory(w)
<1>1. CASE UNCHANGED vars \/ \E k \in Keys : EditSource(k)
  BY <1>1 DEF vars, workers, EditSource
<1>2. ASSUME NEW v \in Workers, NEW k \in Keys, Request(v, k)
      PROVE  \/ at'[w] = "evidence"
             \/ /\ at'[w] = at[w] /\ key'[w] = key[w]
                /\ temporary'[w] = temporary[w] /\ note'[w] = note[w]
  BY <1>2 DEF Request, Goes, Typed, TypeOK
<1>3. ASSUME NEW v \in Workers, Returns(v)
      PROVE  \/ at'[w] = "idle"
             \/ /\ at'[w] = at[w] /\ key'[w] = key[w]
                /\ temporary'[w] = temporary[w] /\ note'[w] = note[w]
  BY <1>3 DEF Returns, Goes, Typed, TypeOK
<1>4. ASSUME NEW p \in Processes, Kill(p)
      PROVE  \/ at'[w] = "idle"
             \/ /\ at'[w] = at[w] /\ key'[w] = key[w]
                /\ temporary'[w] = temporary[w] /\ note'[w] = note[w]
  BY <1>4 DEF Kill
<1>5. ASSUME NEW v \in Workers, v # w,
             \/ CheckEvidence(v) \/ AcquireKey(v) \/ Validate(v)
             \/ DropTarget(v) \/ DropRecord(v) \/ Generate(v) \/ Recheck(v)
             \/ WriteIntegrity(v) \/ Publish(v) \/ PublishRecord(v) \/ SyncDirectory(v)
      PROVE  /\ at'[w] = at[w] /\ key'[w] = key[w]
             /\ temporary'[w] = temporary[w] /\ note'[w] = note[w]
  BY <1>5 DEF CheckEvidence, AcquireKey, Validate, DropTarget, DropRecord, Generate,
              Recheck, WriteIntegrity, Publish, PublishRecord, SyncDirectory, Step, Goes,
              Typed, TypeOK
<1> QED BY <1>1, <1>2, <1>3, <1>4, <1>5
        DEF Next, Quiet, WorkerStep, Refused, SourceChanged, SyncFails,
            PublishRecordFails, Describe

LEMMA PureStep ==
  ASSUME Typed, Typed', Pure, ~Reverts, [Next]_vars
  PROVE  Pure'
<1>1. \A k \in Keys : target'[k] = target[k] \/ target'[k] \in {"none", "rev"}
  BY Writes DEF Pure
<1>2. \A k \in Keys : target'[k] # "other"
  BY <1>1 DEF Pure
<1>3. served' \in {"none", "rev"}
  <2>1. served' = served \/ \E w \in Workers : Describe(w)
    BY DEF Next, Quiet, WorkerStep, EditSource, Request, Kill, Refused, SourceChanged,
           SyncFails, PublishRecordFails, CheckEvidence, AcquireKey, Validate, DropTarget,
           DropRecord, Generate, Recheck, WriteIntegrity, Publish, PublishRecord,
           SyncDirectory, Step, vars
  <2>2. ASSUME NEW w \in Workers, Describe(w) PROVE served' \in {"none", "rev"}
    BY <2>2 DEF Describe, Pure
  <2> QED BY <2>1, <2>2 DEF Pure
<1>4. ASSUME NEW w \in Workers
      PROVE  /\ at'[w] = "recheck" =>
                  \/ temporary'[w] = "rev"
                  \/ temporary'[w] = "other" /\ source'[key'[w]] = "other"
             /\ at'[w] \in {"integrity", "publish"} => temporary'[w] = "rev"
             /\ at'[w] \in {"publishRecord", "sync", "describe"} =>
                  target'[key'[w]] \in {"none", "rev"}
  <2>0. at[w] # "idle" => key[w] \in Keys
    BY DEF Typed, Busy
  <2>1. CASE /\ at'[w] = at[w] /\ key'[w] = key[w]
             /\ temporary'[w] = temporary[w] /\ note'[w] = note[w]
    BY <1>1, <2>0, <2>1, Writes DEF Pure
  <2>2. CASE \/ at'[w] \in {"idle", "evidence"} \/ CheckEvidence(w) \/ AcquireKey(w)
             \/ DropTarget(w) \/ DropRecord(w)
    BY <2>2 DEF CheckEvidence, AcquireKey, DropTarget, DropRecord, Goes, Typed, TypeOK
  <2>3. CASE Validate(w)
    <3>1. at[w] = "validate" /\ key' = key /\ target' = target
          /\ at'[w] = IF Valid(key[w]) THEN "describe" ELSE "dropTarget"
      BY <2>3 DEF Validate, Step, Goes, files, Typed, TypeOK
    <3>2. Valid(key[w]) => target[key[w]] = "rev"
      BY <2>0, <3>1 DEF Valid, Pure, Images
    <3> QED BY <3>1, <3>2
  <2>4. CASE Generate(w)
    <3>1. at'[w] = "recheck" /\ temporary'[w] = source[key[w]] /\ key' = key /\ source' = source
          /\ at[w] = "generate"
      BY <2>4 DEF Generate, Step, Goes, Typed, TypeOK
    <3>2. source[key[w]] \in {"rev", "other"}
      BY <2>0, <3>1 DEF Typed, TypeOK, Images
    <3> QED BY <3>1, <3>2
  <2>5. CASE Recheck(w)
    <3>1. at[w] = "recheck" /\ source[key[w]] = "rev" /\ temporary' = temporary
          /\ at'[w] \in {"integrity", "publish"}
      BY <2>5 DEF Recheck, Step, Goes, Typed, TypeOK
    <3> QED BY <3>1 DEF Pure
  <2>6. CASE WriteIntegrity(w)
    <3>1. at[w] = "integrity" /\ temporary' = temporary /\ at'[w] = "publish"
      BY <2>6 DEF WriteIntegrity, Step, Goes, Typed, TypeOK
    <3> QED BY <3>1 DEF Pure
  <2>7. CASE Publish(w)
    <3>1. at[w] = "publish" /\ key' = key /\ at'[w] \in {"publishRecord", "sync"}
          /\ target' = [target EXCEPT ![key[w]] = temporary[w]]
      BY <2>7 DEF Publish, Step, Goes, Typed, TypeOK
    <3>2. target'[key'[w]] = "rev"
      BY <2>0, <3>1 DEF Pure, Typed, TypeOK
    <3> QED BY <3>1, <3>2
  <2>8. CASE PublishRecord(w) \/ SyncDirectory(w)
    <3>1. at[w] \in {"publishRecord", "sync"} /\ key' = key /\ target' = target
          /\ at'[w] \in {"sync", "describe"}
      BY <2>8 DEF PublishRecord, SyncDirectory, Step, Goes, files, Typed, TypeOK
    <3> QED BY <3>1 DEF Pure
  <2> QED BY <2>1, <2>2, <2>3, <2>4, <2>5, <2>6, <2>7, <2>8, OneMoves
<1> QED BY <1>2, <1>3, <1>4 DEF Pure

\* However many helpers share a cache folder, fail, are killed and regenerate
\* each other's entries while sources are edited, and whatever older versions
\* left in the folder, a descriptor never names another revision (authorize).
THEOREM RevisionsAreServed == Spec => []ServedIsRevision
<1> DEFINE Right == Typed /\ (~Reverts => Pure)
<1>1. Init => Right
  <2>1. Init => Pure
    BY DEF Init, Pure
  <2> QED BY <2>1, InitTyped
<1>2. Right /\ [Next]_vars => Right'
  BY TypedStep, PureStep
<1>3. Right => ServedIsRevision
  BY DEF Pure, ServedIsRevision
<1> QED BY <1>1, <1>2, <1>3, PTL DEF Spec

-----------------------------------------------------------------------------
(* What is left for the next request.                                      *)

\* As long as one process alone asks for an entry, what its worker does to the
\* two files of the entry is what they hold when it goes on.
Fitting ==
  \A w \in Workers :
    /\ at[w] # "idle" => ProcessOf[w] \in users[key[w]]
    /\ at[w] = "integrity" => key[w] \in Grids
    /\ at[w] \in {"recheck", "integrity", "publish"} => temporary[w] \in Images
    /\ at[w] = "publish" /\ key[w] \in Grids => note[w] = temporary[w]
    /\ at[w] = "publishRecord" =>
         key[w] \in Grids /\ (~Shared(key[w]) => target[key[w]] = note[w] /\ note[w] \in Images)
    /\ at[w] \in {"sync", "describe"} /\ ~Shared(key[w]) => Valid(key[w])

\* Files change only by the hand of a worker that has a permit of their key
\* and goes on.
LEMMA WritersInside ==
  ASSUME Typed, [Next]_vars, NEW k \in Keys
  PROVE  \/ target'[k] = target[k] /\ record'[k] = record[k]
         \/ \E v \in Workers : at[v] \in Inside /\ key[v] = k /\ at'[v] # at[v]
<1>1. CASE UNCHANGED vars \/ \E e \in Keys : EditSource(e)
  BY <1>1 DEF vars, files, EditSource
<1>2. ASSUME NEW v \in Workers, NEW e \in Keys, Request(v, e) PROVE UNCHANGED files
  BY <1>2 DEF Request
<1>3. ASSUME NEW p \in Processes, Kill(p) PROVE UNCHANGED files
  BY <1>3 DEF Kill
<1>4. ASSUME NEW v \in Workers,
             \/ Refused(v) \/ SourceChanged(v) \/ SyncFails(v) \/ Describe(v)
             \/ CheckEvidence(v) \/ AcquireKey(v) \/ Validate(v) \/ Generate(v)
             \/ Recheck(v) \/ WriteIntegrity(v) \/ SyncDirectory(v)
      PROVE  UNCHANGED files
  BY <1>4 DEF Refused, SourceChanged, SyncFails, Describe, CheckEvidence, AcquireKey,
              Validate, Generate, Recheck, WriteIntegrity, SyncDirectory
<1>5. ASSUME NEW v \in Workers,
             \/ DropTarget(v) \/ DropRecord(v) \/ Publish(v)
             \/ PublishRecord(v) \/ PublishRecordFails(v)
      PROVE  /\ at[v] \in Inside /\ at'[v] # at[v]
             /\ k # key[v] => target'[k] = target[k] /\ record'[k] = record[k]
  BY <1>5 DEF DropTarget, DropRecord, Publish, PublishRecord, PublishRecordFails, Returns,
              Step, Goes, Inside, Stages, Typed, TypeOK
<1> QED BY <1>1, <1>2, <1>3, <1>4, <1>5 DEF Next, Quiet, WorkerStep, files

\* Nobody is forgotten who asked for an entry.
LEMMA UsersGrow ==
  ASSUME Typed, [Next]_vars, NEW k \in Keys
  PROVE  users[k] \subseteq users'[k]
<1>1. ASSUME NEW w \in Workers, NEW e \in Keys, Request(w, e)
      PROVE  users[k] \subseteq users'[k]
  BY <1>1 DEF Request, Typed, TypeOK
<1>2. UNCHANGED users \/ \E w \in Workers, e \in Keys : Request(w, e)
  BY DEF Next, Quiet, WorkerStep, EditSource, Kill, Refused, SourceChanged, SyncFails,
         PublishRecordFails, Describe, CheckEvidence, AcquireKey, Validate, DropTarget,
         DropRecord, Generate, Recheck, WriteIntegrity, Publish, PublishRecord,
         SyncDirectory, Step, vars, counts
<1> QED BY <1>1, <1>2

LEMMA FittingStep ==
  ASSUME Gated, Typed', Pure, Fitting, ~Reverts, [Next]_vars
  PROVE  Fitting'
<1> SUFFICES ASSUME NEW w \in Workers
    PROVE
    /\ at'[w] # "idle" => ProcessOf[w] \in users'[key'[w]]
    /\ at'[w] = "integrity" => key'[w] \in Grids
    /\ at'[w] \in {"recheck", "integrity", "publish"} => temporary'[w] \in Images
    /\ at'[w] = "publish" /\ key'[w] \in Grids => note'[w] = temporary'[w]
    /\ at'[w] = "publishRecord" =>
         key'[w] \in Grids
         /\ (~Shared(key[w])' => target'[key'[w]] = note'[w] /\ note'[w] \in Images)
    /\ at'[w] \in {"sync", "describe"} /\ ~Shared(key[w])' => Valid(key[w])'
    BY DEF Fitting
<1>0. Typed /\ (at[w] # "idle" => key[w] \in Keys)
  BY DEF Gated, Typed, Busy
<1>1. at[w] # "idle" => /\ users[key[w]] \subseteq users'[key[w]]
                        /\ key'[w] = key[w] /\ ~Shared(key[w])' => ~Shared(key[w])
  BY <1>0, UsersGrow DEF Shared
<1>2. CASE at'[w] = "idle"
  BY <1>2
<1>3. CASE at'[w] = "evidence"
  <2>1. ProcessOf[w] \in users'[key'[w]]
    <3>1. CASE \E k \in Keys : Request(w, k)
      BY <3>1, CacheAssumption DEF Request, Goes, Gated, Typed, TypeOK
    <3>2. CASE at[w] = "evidence" /\ key'[w] = key[w]
      BY <1>1, <3>2 DEF Fitting
    <3>3. \/ \E k \in Keys : Request(w, k)
          \/ at[w] = "evidence" /\ key'[w] = key[w]
      BY <1>0, <1>3 DEF Next, Quiet, WorkerStep, EditSource, Kill, Refused, SourceChanged,
           SyncFails, PublishRecordFails, Describe, CheckEvidence, AcquireKey, Validate,
           DropTarget, DropRecord, Generate, Recheck, WriteIntegrity, Publish,
           PublishRecord, SyncDirectory, Step, Goes, Returns, Request, vars, workers,
           Typed, TypeOK
    <3> QED BY <3>1, <3>2, <3>3
  <2> QED BY <1>3, <2>1
<1>4. CASE /\ at'[w] = at[w] /\ key'[w] = key[w] /\ at[w] # "idle"
           /\ temporary'[w] = temporary[w] /\ note'[w] = note[w]
  <2>1. ASSUME at[w] \in Inside, ~Shared(key[w])'
        PROVE  target'[key[w]] = target[key[w]] /\ record'[key[w]] = record[key[w]]
    <3> SUFFICES ASSUME NEW v \in Workers, at[v] \in Inside, key[v] = key[w],
                        at'[v] # at[v]
                 PROVE  FALSE
      BY <1>0, <2>1, WritersInside DEF Inside
    <3>1. ProcessOf[v] \in users[key[w]] /\ ProcessOf[w] \in users[key[w]]
      BY <2>1 DEF Fitting, Inside
    <3>2. ProcessOf[v] = ProcessOf[w]
      BY <1>1, <1>4, <2>1, <3>1 DEF Shared
    <3>3. ProcessOf[w] \in Processes
      BY CacheAssumption
    <3>4. v = w
      BY <2>1, <3>2, <3>3 DEF Gated, OnePermitPerKey, Holding
    <3> QED BY <1>4, <3>4
  <2>2. at[w] \in {"sync", "describe"} /\ ~Shared(key[w])' => Valid(key[w])'
    BY <1>1, <1>4, <2>1 DEF Fitting, Valid, Inside, Stages
  <2>3. at[w] = "publishRecord" /\ ~Shared(key[w])'
          => target'[key[w]] = note[w] /\ note[w] \in Images
    BY <1>1, <1>4, <2>1 DEF Fitting, Inside, Stages
  <2> QED BY <1>1, <1>4, <2>2, <2>3 DEF Fitting
<1>5. CASE \/ CheckEvidence(w) \/ AcquireKey(w) \/ Validate(w) \/ DropTarget(w)
           \/ DropRecord(w) \/ Generate(w) \/ Recheck(w) \/ WriteIntegrity(w)
           \/ Publish(w) \/ PublishRecord(w) \/ SyncDirectory(w)
  <2>1. at[w] # "idle" /\ key' = key /\ users' = users /\ Shared(key[w])' = Shared(key[w])
    BY <1>5 DEF CheckEvidence, AcquireKey, Validate, DropTarget, DropRecord, Generate,
         Recheck, WriteIntegrity, Publish, PublishRecord, SyncDirectory, Step, counts, Shared
  <2>2. ProcessOf[w] \in users'[key'[w]]
    BY <2>1 DEF Fitting
  <2>3. CASE CheckEvidence(w) \/ AcquireKey(w) \/ DropTarget(w) \/ DropRecord(w)
    <3>1. at'[w] \in {"acquire", "validate", "dropRecord", "generate"}
      BY <1>0, <2>3 DEF CheckEvidence, AcquireKey, DropTarget, DropRecord, Goes, Typed, TypeOK
    <3> QED BY <2>2, <3>1
  <2>4. CASE Validate(w)
    <3>1. /\ at'[w] = IF Valid(key[w]) THEN "describe" ELSE "dropTarget"
          /\ Valid(key[w])' = Valid(key[w])
      BY <1>0, <2>1, <2>4 DEF Validate, Goes, files, Valid, Typed, TypeOK
    <3> QED BY <2>2, <3>1
  <2>5. CASE Generate(w)
    <3>1. at'[w] = "recheck" /\ temporary'[w] \in Images
      BY <1>0, <2>1, <2>5 DEF Generate, Goes, Typed, TypeOK
    <3> QED BY <2>2, <3>1
  <2>6. CASE Recheck(w)
    <3>1. /\ at[w] = "recheck" /\ temporary' = temporary
          /\ at'[w] = IF key[w] \in Grids THEN "integrity" ELSE "publish"
      BY <1>0, <2>6 DEF Recheck, Step, Goes, Typed, TypeOK
    <3> QED BY <2>1, <2>2, <3>1 DEF Fitting
  <2>7. CASE WriteIntegrity(w)
    <3>1. /\ at[w] = "integrity" /\ temporary' = temporary /\ at'[w] = "publish"
          /\ note'[w] = temporary[w]
      BY <1>0, <2>7 DEF WriteIntegrity, Step, Goes, Typed, TypeOK
    <3> QED BY <2>1, <2>2, <3>1 DEF Fitting
  <2>8. CASE Publish(w)
    <3>1. /\ at[w] = "publish" /\ note' = note
          /\ at'[w] = IF key[w] \in Grids THEN "publishRecord" ELSE "sync"
          /\ target'[key[w]] = temporary[w]
      BY <1>0, <2>8 DEF Publish, Step, Goes, Typed, TypeOK
    <3>2. temporary[w] = "rev" /\ temporary[w] \in Images
      BY <3>1 DEF Pure, Fitting
    <3>3. key[w] \notin Grids => Valid(key[w])'
      BY <1>0, <2>1, <3>1, <3>2 DEF Valid, Keys
    <3> QED BY <2>1, <2>2, <3>1, <3>2, <3>3 DEF Fitting
  <2>9. CASE PublishRecord(w)
    <3>1. /\ at[w] = "publishRecord" /\ target' = target /\ at'[w] = "sync"
          /\ record'[key[w]] = note[w]
      BY <1>0, <2>9 DEF PublishRecord, Step, Goes, Typed, TypeOK
    <3>2. ~Shared(key[w])' => Valid(key[w])'
      BY <2>1, <3>1, CacheAssumption DEF Fitting, Valid
    <3> QED BY <2>2, <3>1, <3>2
  <2>10. CASE SyncDirectory(w)
    <3>1. at[w] = "sync" /\ at'[w] = "describe" /\ Valid(key[w])' = Valid(key[w])
      BY <1>0, <2>1, <2>10 DEF SyncDirectory, Step, Goes, files, Valid, Typed, TypeOK
    <3> QED BY <2>1, <2>2, <3>1 DEF Fitting
  <2> QED BY <1>5, <2>3, <2>4, <2>5, <2>6, <2>7, <2>8, <2>9, <2>10
<1> QED BY <1>0, <1>2, <1>3, <1>4, <1>5, OneMoves

\* Whatever kills, failed renames and older versions left behind, the entry a
\* worker describes passes the validation of the next request, as long as one
\* process alone asks for it (publish_grid, publish_preview_snapshot).
THEOREM DescribedEntriesPassAgain == Spec => []DescribedEntriesAreValid
<1> DEFINE Fits == Gated /\ (~Reverts => Pure /\ Fitting)
<1>1. Init => Fits
  <2>1. Init => Pure /\ Fitting
    BY DEF Init, Pure, Fitting
  <2>2. Init => OnePermitPerKey
    BY DEF Init, OnePermitPerKey, Holding, Inside
  <2> QED BY <2>1, <2>2, InitTyped DEF Gated
<1>2. Fits /\ [Next]_vars => Fits'
  BY GatedStep, PureStep, FittingStep DEF Gated
<1>3. Fits => DescribedEntriesAreValid
  BY DEF Fitting, DescribedEntriesAreValid
<1> QED BY <1>1, <1>2, <1>3, PTL DEF Spec
=============================================================================
