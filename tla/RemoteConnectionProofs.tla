---------------------- MODULE RemoteConnectionProofs ----------------------
(* What the rows, the runtime's entries and the timers promise of a session: *)
(* a connected one has its transport, one in flight is driven, retries stay  *)
(* within their budget, and one that was given up keeps nothing.             *)
EXTENDS RemoteActivationProofs


-----------------------------------------------------------------------------
(* Revisions tell an attempt whether the row is still the one it reserved.   *)

\* No activation or timer holds a revision the row has not reached; an attempt whose
\* completion was written is behind it.
RevInv ==
    /\ \A w \in Worker : work[w] # Idle => work[w].revision <= rows[work[w].session].revision
    /\ \A w \in Worker : work[w].step = "exitedEarly"
                           => work[w].revision < rows[work[w].session].revision
    /\ \A s \in Session : timers[s] # NoTimer => timers[s].revision <= rows[s].revision

LEMMA RowGrows ==
    ASSUME TypeInv, [Next]_vars, NEW s \in Session, ~New(s)
    PROVE  /\ rows[s].revision \in Nat /\ rows'[s].revision \in Nat
           /\ rows'[s].revision >= rows[s].revision
           /\ rows[s].generation \in Nat /\ rows'[s].generation \in Nat
           /\ rows'[s].generation >= rows[s].generation
<1>1. RowStep(s) /\ rows[s].generation \in Nat /\ rows[s].revision \in Nat
  BY SessionParts, RowSteps DEF TypeInv
<1>2. rows'[s].revision \in Nat /\ rows'[s].generation \in Nat
  BY TypesKept DEF TypeInv, TypeOK, Row, Generation
<1>3. ~(rows[s].state = "absent" /\ target.hostKey # "deleted")
  BY DEF New
<1>4. CASE rows'[s] = rows[s]
  BY <1>1, <1>4
<1>5. CASE /\ rows'[s].revision > rows[s].revision
           /\ rows'[s].generation \in {rows[s].generation, rows[s].generation + 1}
  BY <1>1, <1>2, <1>5
<1>6. CASE rows'[s].generation = rows[s].generation /\ rows'[s].revision = rows[s].revision
  BY <1>1, <1>6
<1> QED BY <1>1, <1>3, <1>4, <1>5, <1>6 DEF RowStep

\* What becomes of a session that is there and not closed.
LEMMA KeptRow ==
    ASSUME TypeInv, TargetInv, [Next]_vars, NEW s \in Session, Kept(s)
    PROVE  rows'[s] = rows[s] \/ rows'[s].revision > rows[s].revision
<1> SUFFICES ASSUME ~(rows'[s] = rows[s] \/ rows'[s].revision > rows[s].revision)
             PROVE  FALSE
  OBVIOUS
<1>1. rows'[s].state = "absent" /\ target'.hostKey = "deleted" /\ target.hostKey # "deleted"
  BY RowSteps DEF RowStep, Kept, Present, TargetInv
<1>2. CASE FinishDeletion
  <2>1. upkeep.step = "revoking" /\ upkeep.kind = "delete"
    BY <1>2 DEF FinishDeletion, RevokedAll
  <2> QED BY <2>1 DEF TargetInv
<1>3. ASSUME NEW x \in Session, DecideHostKey(x) PROVE FALSE
  BY <1>1, <1>3, DecideHostKeyEffect
<1>4. ASSUME NEW w \in Worker, MarkHostKeyChanged(w) PROVE FALSE
  BY <1>1, <1>4, MarkHostKeyChangedEffect
<1>5. CASE BeginReplacement \/ AbortReplacement
  BY <1>1, <1>5, EnrollingEffect
<1>6. CASE UpkeepStarts
  BY <1>1, <1>6, UpkeepStartsEffect
<1>7. CASE CommitReplacement
  BY <1>1, <1>7, CommitReplacementEffect
<1>8. CASE Restart
  BY <1>1, <1>8, RestartEffect
<1>9. UNCHANGED target => FALSE
  BY <1>1
<1>10. ASSUME NEW kind \in {"delete", "replace"}, RequestUpkeep(kind) PROVE UNCHANGED target
  BY <1>10 DEF RequestUpkeep, durable
<1>11. ASSUME NEW t \in upkeep.todo, RevokesNext(t) PROVE UNCHANGED target
  BY <1>11 DEF RevokesNext, durable
<1>12. CASE UpkeepFails
  BY <1>9, <1>12 DEF UpkeepFails, durable
<1> QED BY <1>2, <1>3, <1>4, <1>5, <1>6, <1>7, <1>8, <1>9, <1>10, <1>11, <1>12, TargetCases

\* Which step changes an activation.
LEMMA WorkCauses ==
    ASSUME TypeInv, [Next]_vars, NEW x \in Worker, work'[x] # work[x]
    PROVE  \/ Activates(x) \/ Restart \/ work[x] = Idle
           \/ /\ work[x].step = "completing" /\ Kin(work'[x], work[x])
              /\ work'[x].step = work[x].step /\ work'[x].revision = work[x].revision
              /\ work'[x].generation = work[x].generation /\ work'[x].state = work[x].state
              /\ work'[x].exited
<1>1. work' # work
  OBVIOUS
<1>2. ASSUME NEW w \in Worker, Activates(w), x # w PROVE FALSE
  <2>1. OthersKeep(w)
    BY <1>1, <1>2, ReserveEffect, PreparedEffect, FailsEffect, SpawnEffect, LaunchReturnsEffect,
       CompletedEffect, RecordEarlyExitEffect, RecordFailureEffect, ReturnedEffect
    DEF Activates, Stays, LeavesLock, MarkHostKeyChanged
  <2> QED BY <1>2, <2>1 DEF OthersKeep
<1>3. ASSUME NEW w \in Worker, NEW s \in Session, Activate(w, s) \/ TimerFires(w, s)
      PROVE  work[x] = Idle
  <2>1. OthersKeep(w) /\ work[w] = Idle
    BY <1>1, <1>3, ActivateEffect, TimerFiresEffect
  <2> QED BY <2>1 DEF OthersKeep
<1>4. ASSUME NEW e \in exits, ExitReported(e)
      PROVE  /\ work[x].step = "completing" /\ Kin(work'[x], work[x])
             /\ work'[x].step = work[x].step /\ work'[x].revision = work[x].revision
             /\ work'[x].generation = work[x].generation /\ work'[x].state = work[x].state
             /\ work'[x].exited
  BY <1>4, ExitReportedEffect
<1>5. ASSUME NEW s \in Session, Requests(s) PROVE FALSE
  BY <1>1, <1>5 DEF Requests, Prepare, DecideHostKey, Detach, Close, Release, ReplayRelease, Transfer
<1>6. ASSUME NEW t \in transports, TransportExits(t) PROVE FALSE
  BY <1>1, <1>6 DEF TransportExits
<1>7. ASSUME \/ StopEnds \/ BeginReplacement \/ AbortReplacement
             \/ \E kind \in {"delete", "replace"} : RequestUpkeep(kind)
             \/ UpkeepStep \/ UpkeepFails \/ Dispose \/ RuntimeDispose \/ UNCHANGED vars
      PROVE  FALSE
  BY <1>1, <1>7 DEF StopEnds, BeginReplacement, AbortReplacement, RequestUpkeep, UpkeepStep,
     UpkeepStarts, FinishDeletion, CommitReplacement, RevokesNext, UpkeepFails, Dispose,
     RuntimeDispose, vars
<1> QED BY <1>2, <1>3, <1>4, <1>5, <1>6, <1>7 DEF Next

\* An attempt gets to these steps by these actions.
LEMMA StepComes ==
    ASSUME TypeInv, [Next]_vars, NEW x \in Worker, work'[x].step # work[x].step
    PROVE  /\ work'[x].step = "completing" => LaunchReturns(x) /\ Launched(x)
           /\ work'[x].step = "exitedEarly" => Completed(x)
<1>1. CASE work'[x].step \notin {"completing", "exitedEarly"}
  BY <1>1
<1>2. CASE Activates(x)
  <2>1. CASE LaunchReturns(x)
    BY <2>1, LaunchReturnsEffect DEF Stays
  <2>2. CASE Completed(x)
    BY <2>2, CompletedEffect DEF Stays, LeavesLock, Idle
  <2>3. CASE Spawn(x) \/ Prepared(x) \/ PreparationFails(x) \/ SpawnFails(x) \/ CompletionFails(x)
    BY <2>3, SpawnEffect, PreparedEffect, FailsEffect DEF Stays
  <2>4. CASE RecordEarlyExit(x) \/ RecordFailure(x) \/ Reserve(x)
    BY <2>4, RecordEarlyExitEffect, RecordFailureEffect, ReserveEffect DEF LeavesLock, Idle
  <2>5. CASE Returned(x)
    BY <2>5, ReturnedEffect DEF Idle
  <2>6. CASE MarkHostKeyChanged(x)
    BY <2>6 DEF MarkHostKeyChanged
  <2> QED BY <1>2, <2>1, <2>2, <2>3, <2>4, <2>5, <2>6 DEF Activates
<1>3. CASE Restart
  BY <1>3, RestartEffect DEF Idle
<1>4. CASE work[x] = Idle
  <2>1. work'[x] = Idle \/ HasStarted(x) \/ work'[x] = work[x]
    BY <1>4, WorkerSteps DEF WorkerStep, MovesOn, HasReserved, HasReturned, Idle, Reserved
  <2> QED BY <1>4, <2>1 DEF HasStarted, Asked, Idle
<1> QED BY <1>1, <1>2, <1>3, <1>4, WorkCauses


LEMMA RevKept ==
    ASSUME TypeInv, FreshInv, RevInv, [Next]_vars
    PROVE  RevInv'
<1>1. ASSUME NEW w \in Worker, work[w] # Idle
      PROVE  /\ work[w].session \in Session /\ work[w].revision \in Nat
             /\ rows[work[w].session].revision \in Nat /\ rows'[work[w].session].revision \in Nat
             /\ rows'[work[w].session].revision >= rows[work[w].session].revision
  <2>1. work[w].session \in Session /\ work[w].revision \in Nat
    BY <1>1, WorkParts DEF TypeInv
  <2>2. ~New(work[w].session)
    BY <1>1, <2>1 DEF FreshInv, Fresh, Of
  <2> QED BY <2>1, <2>2, RowGrows
<1>2. ASSUME NEW w \in Worker, work'[w] # Idle
      PROVE  work'[w].revision <= rows'[work'[w].session].revision
  <2>1. CASE work'[w] = work[w]
    BY <1>1, <1>2, <2>1 DEF RevInv
  <2>2. CASE MovesOn(w)
    <3>1. work[w] # Idle /\ work'[w].session = work[w].session /\ work'[w].revision = work[w].revision
      BY <2>2 DEF MovesOn, Kin, Reserved, Idle
    <3> QED BY <1>1, <3>1 DEF RevInv
  <2>3. CASE HasReserved(w)
    <3>1. work[w] # Idle /\ work'[w].session = work[w].session
          /\ work'[w].revision = rows'[work[w].session].revision
      BY <2>3 DEF HasReserved, Kin, Idle
    <3> QED BY <1>1, <3>1
  <2>4. CASE HasReturned(w)
    <3>1. work[w] # Idle /\ work'[w].session = work[w].session /\ work'[w].revision = 0
      BY <2>4 DEF HasReturned, Kin, Reserved, Idle
    <3> QED BY <1>1, <3>1
  <2>5. CASE HasStarted(w)
    <3>1. PICK s \in Session :
            /\ work'[w].session = s /\ work'[w].revision = rows[s].revision
            /\ rows[s].state # "absent"
      <4>1. \A s \in Session :
              /\ TimerIsCurrent(s) => rows[s].revision = timers[s].revision /\ rows[s].state # "absent"
              /\ rows[s].state \in Startable => rows[s].state # "absent"
        BY DEF TimerIsCurrent, Startable
      <4> QED BY <2>5, <4>1 DEF HasStarted, Asked
    <3>2. ~New(s)
      BY <3>1 DEF New
    <3> QED BY <3>1, <3>2, RowGrows
  <2> QED BY <1>2, <2>1, <2>2, <2>3, <2>4, <2>5, WorkerSteps DEF WorkerStep
<1>3. ASSUME NEW w \in Worker, work'[w].step = "exitedEarly"
      PROVE  work'[w].revision < rows'[work'[w].session].revision
  <2>1. CASE work[w].step = "exitedEarly"
    <3>1. work[w] # Idle /\ work[w].step \in Reserved
      BY <2>1 DEF Idle, Reserved
    <3>2. work'[w] = work[w] \/ MovesOn(w)
      BY <1>3, <2>1, WorkerSteps DEF WorkerStep, HasReserved, HasReturned, HasStarted, Idle
    <3>3. work'[w].session = work[w].session /\ work'[w].revision = work[w].revision
      BY <3>2 DEF MovesOn, Kin
    <3> QED BY <1>1, <2>1, <3>1, <3>3 DEF RevInv
  <2>2. CASE work[w].step # "exitedEarly"
    <3>1. Completed(w)
      BY <1>3, <2>2, StepComes
    <3>2. work[w] # Idle /\ Stays(w, "exitedEarly")
          /\ rows'[work[w].session].revision = rows[work[w].session].revision + 1
      BY <1>3, <3>1, CompletedEffect DEF Idle, LeavesLock
    <3>3. work'[w].session = work[w].session /\ work'[w].revision = work[w].revision
      BY <3>2 DEF Stays, Kin
    <3> QED BY <1>1, <3>2, <3>3 DEF RevInv
  <2> QED BY <2>1, <2>2
<1>4. ASSUME NEW s \in Session, timers'[s] # NoTimer
      PROVE  timers'[s].revision <= rows'[s].revision
  <2>1. CASE ~New(s) /\ timers'[s] = timers[s]
    <3>1. timers[s].revision \in Nat /\ timers[s].revision <= rows[s].revision
      BY <1>4, <2>1, SessionParts DEF RevInv, TypeInv
    <3> QED BY <2>1, <3>1, RowGrows
  <2>2. CASE New(s) /\ timers'[s] = timers[s]
    BY <1>4, <2>2 DEF FreshInv, Fresh
  <2>3. CASE IsDue(s)
    <3>1. rows'[s].revision = rows[s].revision /\ timers'[s].revision = timers[s].revision
          /\ timers[s] # NoTimer
      BY <2>3 DEF IsDue
    <3> QED BY <3>1 DEF RevInv
  <2>4. CASE IsSetByExit(s) \/ IsSetAgain(s)
    <3>1. timers'[s].revision = rows'[s].revision /\ rows[s].state # "absent"
      BY <2>4 DEF IsSetByExit, IsSetAgain
    <3>2. ~New(s)
      BY <3>1 DEF New
    <3> QED BY <3>1, <3>2, RowGrows
  <2> QED BY <1>4, <2>1, <2>2, <2>3, <2>4, TimerSteps DEF TimerStep
<1> QED BY <1>2, <1>3, <1>4 DEF RevInv

\* What is seen of a generation stays behind when the row moves on.
LEMMA SeenStays ==
    ASSUME TypeInv, TargetInv, SeenInv, [Next]_vars, NEW s \in Session, NEW g \in Nat, g # 0,
           Seen(s, g), rows'[s].generation = g
    PROVE  rows[s].generation = g /\ ~Fresh(s) /\ ~New(s)
<1>1. ~Fresh(s) /\ g <= rows[s].generation
  BY DEF SeenInv, Generation
<1>2. ~New(s)
  BY <1>1 DEF Fresh
<1> QED BY <1>1, <1>2, RowGrows

\* The generation of a detach has not been taken up again.
ReleasedInv == \A s \in Session :
    released[s] = rows[s].generation => rows[s].state \in {"detached", "closed", "absent"}

LEMMA ReleasedKept ==
    ASSUME TypeInv, TargetInv, SeenInv, ReleasedInv, [Next]_vars
    PROVE  ReleasedInv'
<1> SUFFICES ASSUME NEW s \in Session, released'[s] = rows'[s].generation
             PROVE  rows'[s].state \in {"detached", "closed", "absent"}
  BY DEF ReleasedInv
<1>1. CASE released'[s] = released[s]
  <2>1. rows'[s].generation \in Nat /\ rows'[s].generation # 0
    BY TypesKept, SessionParts DEF TypeInv, TypeOK, Row, Generation
  <2>2. Seen(s, rows'[s].generation)
    BY <1>1 DEF Seen
  <2>3. rows[s].generation = rows'[s].generation /\ ~New(s)
    BY <2>1, <2>2, SeenStays
  <2>4. rows[s].state \in {"detached", "closed", "absent"}
    BY <1>1, <2>3 DEF ReleasedInv
  <2> QED BY <2>3, <2>4, RowSteps DEF RowStep, New
<1> QED BY <1>1, ReleasedBefore

LEMMA EarlyLeaves ==
    ASSUME TypeInv, [Next]_vars, NEW x \in Worker, work[x].step = "exitedEarly",
           work'[x].step # "exitedEarly"
    PROVE  (RecordEarlyExit(x) \/ Restart) /\ work'[x].step \notin Reserved
<1>0. Idle.step = "idle" /\ "idle" \notin Reserved
  BY DEF Idle, Reserved
<1>1. CASE Activates(x)
  <2>1. RecordEarlyExit(x)
    BY <1>1 DEF Activates, Reserve, Prepared, PreparationFails, Spawn, SpawnFails,
       LaunchReturns, Completed, CompletionFails, MarkHostKeyChanged, RecordFailure, Returned, Waits
  <2> QED BY <1>0, <2>1, RecordEarlyExitEffect DEF LeavesLock, Reserved
<1>2. CASE Restart
  BY <1>0, <1>2, RestartEffect
<1> QED BY <1>0, <1>1, <1>2, WorkCauses

\* A row gets connected, and gets to be under way, by these steps.
LEMMA StateComes ==
    ASSUME TypeInv, [Next]_vars, NEW s \in Session, rows'[s].state # rows[s].state
    PROVE  /\ rows'[s].state = "connected" => \E v \in Worker : Completed(v) /\ work[v].session = s
           /\ rows'[s].state \in InFlight =>
                \/ rows[s].state \in InFlight \cup {"connected"}
                \/ \E v \in Worker : HasReserved(v) /\ work[v].session = s
<1> DEFINE Goal == /\ rows'[s].state = "connected" =>
                        \E v \in Worker : Completed(v) /\ work[v].session = s
                   /\ rows'[s].state \in InFlight =>
                        \/ rows[s].state \in InFlight \cup {"connected"}
                        \/ \E v \in Worker : HasReserved(v) /\ work[v].session = s
<1>1. rows # rows'
  OBVIOUS
<1>2. CASE rows'[s].state \notin InFlight \cup {"connected"}
  BY <1>2
<1>3. ASSUME NEW x \in Session, NEW g \in Nat, NEW attempt \in 0 .. MaxAttempts,
             RecordExit(x, g, attempt)
      PROVE  Goal
  <2>1. x = s /\ rows'[s].state \in {"reconnecting", "detached", "failed"}
        /\ (rows'[s].state = "reconnecting" => rows[s].state = "connected")
    BY <1>1, <1>3, RecordExitFacts DEF TypeInv
  <2> QED BY <2>1 DEF InFlight
<1>4. ASSUME NEW w \in Worker, Activates(w) PROVE Goal
  <2>1. CASE Reserve(w)
    <3>1. work[w].session = s /\ HasReserved(w) /\ rows'[s].state # "connected"
      BY <1>1, <2>1, ReserveEffect DEF RowsKeep, HasReserved
    <3> QED BY <3>1
  <2>2. CASE Completed(w)
    <3>1. work[w].session = s /\ rows'[s].state = "connected"
      BY <2>2, CompletedEffect DEF RowsKeep
    <3> QED BY <2>2, <3>1 DEF InFlight
  <2>3. CASE RecordEarlyExit(w)
    BY <1>3, <2>3, RecordEarlyExitEffect
  <2>4. CASE RecordFailure(w)
    <3>1. /\ work[w].session = s /\ rows[s].state \in InFlight
          /\ rows'[s].state \in {"reconnecting", "failed"}
      BY <1>1, <2>4, RecordFailureEffect DEF CompletionApplies, RowsKeep
    <3> QED BY <3>1
  <2>5. CASE Returned(w)
    <3>1. rows'[s].state = "failed"
      BY <1>1, <2>5, ReturnedEffect DEF RowsKeep
    <3> QED BY <3>1 DEF InFlight
  <2> QED BY <1>1, <1>4, <2>1, <2>2, <2>3, <2>4, <2>5 DEF Activates, Prepared, PreparationFails,
          Spawn, SpawnFails, LaunchReturns, CompletionFails, MarkHostKeyChanged, durable
<1>5. ASSUME NEW x \in Session, Requests(x) PROVE Goal
  <2>1. CASE Prepare(x)
    BY <1>2, <2>1, PrepareEffect DEF RowsKeep, InFlight
  <2>2. CASE Detach(x) \/ Close(x)
    BY <1>2, <2>2, ReleaseEffect DEF RowsKeep, InFlight
  <2>3. CASE Transfer(x)
    BY <2>3, TransferEffect DEF RowsKeep
  <2> QED BY <1>1, <1>5, <2>1, <2>2, <2>3 DEF Requests, DecideHostKey, ReplayRelease, durable
<1>6. ASSUME NEW e \in exits, ExitReported(e) PROVE Goal
  <2>1. e.session \in Session /\ e.generation \in Nat /\ e.attempt \in 0 .. MaxAttempts
    BY ExitParts DEF TypeInv
  <2> QED BY <1>1, <1>3, <1>6, <2>1, ExitReportedEffect
<1>7. CASE UpkeepStarts
  BY <1>1, <1>2, <1>7, UpkeepStartsEffect DEF InFlight, durable
<1>8. CASE FinishDeletion \/ CommitReplacement
  BY <1>2, <1>8, FinishDeletionEffect, CommitReplacementEffect DEF InFlight
<1>9. CASE Restart
  <2>1. rows'[s].state \in {"detached", rows[s].state}
    BY <1>9, RestartEffect
  <2> QED BY <1>2, <2>1 DEF InFlight
<1> QED BY <1>1, <1>4, <1>5, <1>6, <1>7, <1>8, <1>9 DEF Next, UpkeepStep, Activate, TimerFires,
        TransportExits, StopEnds, BeginReplacement, AbortReplacement, RequestUpkeep, RevokesNext,
        UpkeepFails, Dispose, RuntimeDispose, durable, vars

\* The row of the generation an attempt reserved is not connected before its
\* completion is written, and is as it was reserved at the same revision.
AttemptRowInv == \A w \in Worker :
    LET a == work[w]  row == rows[work[w].session] IN
    a.step \in Reserved /\ a.generation = row.generation =>
        /\ a.step # "exitedEarly" => row.state # "connected"
        /\ a.revision = row.revision => row.state = a.state

LEMMA AttemptRowKept ==
    ASSUME TypeInv, TargetInv, SeenInv, RevInv, AttemptRowInv, [Next]_vars
    PROVE  AttemptRowInv'
<1> SUFFICES ASSUME NEW w \in Worker, work'[w].step \in Reserved,
                    work'[w].generation = rows'[work'[w].session].generation
             PROVE  LET row == rows'[work'[w].session] IN
                    /\ work'[w].step # "exitedEarly" => row.state # "connected"
                    /\ work'[w].revision = row.revision => row.state = work'[w].state
  BY DEF AttemptRowInv
<1> DEFINE s == work[w].session  g == work[w].generation
<1>1. CASE HasReserved(w)
  <2>1. ~LeavesLock(w, "failure") /\ work'[w].session = s /\ work'[w].state = rows'[s].state
    BY <1>1 DEF HasReserved, LeavesLock, Idle, Kin
  <2>2. rows'[s].state # "connected"
    BY <1>1, <2>1, ReserveEffect DEF HasReserved
  <2> QED BY <2>1, <2>2
<1>2. CASE work'[w] = work[w] \/ MovesOn(w)
  <2>1. /\ work[w].step \in Reserved /\ work'[w].session = s /\ work'[w].generation = g
        /\ work'[w].revision = work[w].revision /\ work'[w].state = work[w].state
    BY <1>2 DEF MovesOn, Kin
  <2>2. /\ s \in Session /\ g \in Nat /\ g # 0 /\ work[w].revision \in Nat
        /\ work[w].state \in InFlight /\ work[w] # Idle
    BY <2>1, ReservedParts
  <2>3. Seen(s, g)
    BY <2>1 DEF Seen, HandOf
  <2>4. rows[s].generation = g /\ ~New(s)
    BY <2>1, <2>2, <2>3, SeenStays
  <2>5. ASSUME work[w].revision = rows'[s].revision PROVE rows'[s].state = work[w].state
    <3>1. rows[s].revision = work[w].revision
      BY <2>2, <2>4, <2>5, RowGrows DEF RevInv
    <3>2. rows[s].state = work[w].state
      BY <2>1, <2>4, <3>1 DEF AttemptRowInv
    <3>3. Kept(s)
      BY <2>2, <3>2 DEF Kept, Present, InFlight
    <3>4. rows'[s] = rows[s]
      BY <2>2, <2>5, <3>1, <3>3, KeptRow
    <3> QED BY <3>2, <3>4
  <2>6. ASSUME work'[w].step # "exitedEarly" PROVE rows'[s].state # "connected"
    <3>1. work[w].step # "exitedEarly"
      BY <2>6, EarlyLeaves
    <3>2. rows[s].state # "connected"
      BY <2>1, <2>4, <3>1 DEF AttemptRowInv
    <3>3. ASSUME NEW v \in Worker, Completed(v) PROVE FALSE
      <4>1. v = w
        BY <2>1, <3>3, CompletedEffect, Exclusion DEF Reserved
      <4> QED BY <2>6, <3>3, <4>1, CompletedEffect DEF Stays, LeavesLock, Reserved, Idle
    <3> QED BY <2>2, <3>2, <3>3, StateComes
  <2> QED BY <2>1, <2>5, <2>6
<1> QED BY <1>1, <1>2, WorkerSteps DEF WorkerStep, Idle, HasReturned, HasStarted, Asked, Reserved

-----------------------------------------------------------------------------
(* A connected session is live.                                              *)

Up(s, g) == Owns(s, g) /\ attempts[s].terminal

\* How the runtime gives up an entry whose terminal is known.
LEMMA UpLost ==
    ASSUME TypeInv, ConnInv, [Next]_vars, NEW s \in Session, NEW g \in Nat, g # 0,
           Up(s, g), ~Up(s, g)'
    PROVE  \/ \E w \in Worker : /\ work[w].step \in {"preparing", "replacing", "completing"}
                                /\ work'[w].step = "failing"
                                /\ work[w].session = s /\ work[w].generation = g
           \/ \E w \in Worker : Prepared(w) /\ work[w].session = s
           \/ rows[s].generation = g /\ (Detach(s) \/ Close(s))
           \/ released[s] = g /\ ReplayRelease(s)
           \/ <<s, g>> \in transports /\ TransportExits(<<s, g>>)
           \/ upkeep.step = "revoking" /\ <<s, g>> \in upkeep.todo /\ RevokesNext(<<s, g>>)
           \/ RuntimeDispose \/ Restart
<1>1. CASE Quiet
  <2>1. attempts' = attempts
    BY <1>1, QuietKeeps
  <2> QED BY <2>1 DEF Up, Owns
<1>2. ASSUME NEW x \in Session, NEW h \in Nat, h # 0, Terminate(x, h)
      PROVE  x = s /\ h = g
  <2>1. \A y \in Session : attempts'[y] = IF y = x /\ Owns(x, h) THEN NoAttempt ELSE attempts[y]
    BY <1>2, TerminateFacts DEF TypeInv
  <2>2. s = x /\ Owns(x, h)
    BY <2>1 DEF Up, Owns
  <2> QED BY <2>2 DEF Up, Owns
<1>3. ASSUME NEW w \in Worker, PreparationFails(w) \/ SpawnFails(w) \/ CompletionFails(w)
      PROVE  /\ work[w].step \in {"preparing", "replacing", "completing"}
             /\ work'[w].step = "failing" /\ work[w].session = s /\ work[w].generation = g
  BY <1>2, <1>3, FailsEffect DEF Stays
<1>4. ASSUME NEW w \in Worker, Prepared(w) PROVE work[w].session = s
  BY <1>4, PreparedEffect DEF Up, Owns
<1>5. ASSUME NEW w \in Worker, Spawn(w) PROVE FALSE
  BY <1>5 DEF Spawn, Up, Owns
<1>6. ASSUME NEW w \in Worker, LaunchReturns(w) PROVE FALSE
  <2>1. work[w].step = "spawned"
        /\ (Owns(work[w].session, work[w].generation) => ~attempts[work[w].session].terminal)
    BY <1>6, LaunchReturnsEffect DEF ConnInv, LaunchInv
  <2>2. CASE Launched(w)
    <3>1. Owns(work[w].session, work[w].generation)
      BY <2>2 DEF Launched
    <3>2. work[w].session # s
      BY <2>1, <3>1 DEF Up
    <3> QED BY <1>6, <2>2, <3>2, LaunchReturnsEffect DEF Up, Owns
  <2>3. CASE ~Launched(w)
    <3>1. \A x \in Session :
             attempts'[x] = IF x = work[w].session /\ Owns(work[w].session, work[w].generation)
                            THEN NoAttempt ELSE attempts[x]
      BY <1>6, <2>3, LaunchReturnsEffect
    <3> QED BY <2>1, <3>1 DEF Up, Owns
  <2> QED BY <2>2, <2>3
<1>7. ASSUME NEW x \in Session, Detach(x) \/ Close(x) PROVE x = s /\ rows[s].generation = g
  <2>1. rows[x].generation \in Nat /\ rows[x].generation # 0
    BY SessionParts DEF TypeInv
  <2> QED BY <1>2, <1>7, <2>1, ReleaseEffect
<1>8. ASSUME NEW x \in Session, ReplayRelease(x) PROVE x = s /\ released[s] = g
  BY <1>2, <1>8, ReplayReleaseEffect
<1>9. ASSUME NEW t \in transports, TransportExits(t) PROVE t = <<s, g>>
  BY <1>9, TransportExitsEffect DEF Up, Owns
<1>10. CASE StopEnds
  BY <1>10 DEF StopEnds, Up, Owns
<1>11. ASSUME upkeep.step = "revoking", NEW t \in upkeep.todo, RevokesNext(t) PROVE t = <<s, g>>
  BY <1>2, <1>11, RevokesNextEffect
<1> QED BY <1>1, <1>3, <1>4, <1>5, <1>6, <1>7, <1>8, <1>9, <1>10, <1>11, StepCases

\* An exit stays on its way until it is reported.
LEMMA ExitStays ==
    ASSUME TypeInv, [Next]_vars, NEW e \in exits
    PROVE  \/ \E f \in exits' : /\ f.session = e.session /\ f.generation = e.generation
                                /\ e.settled => f.settled
           \/ ExitReported(e) \/ Restart
<1>1. CASE exits \subseteq exits'
  BY <1>1
<1>2. ASSUME NEW w \in Worker, Completed(w)
      PROVE  \E f \in exits' : /\ f.session = e.session /\ f.generation = e.generation
                               /\ e.settled => f.settled
  BY <1>2, CompletedEffect
<1>3. ASSUME NEW w \in Worker, Activates(w), ~Completed(w) PROVE exits' = exits
  BY <1>3 DEF Activates, Reserve, Prepared, PreparationFails, Spawn, SpawnFails, LaunchReturns,
         MarkHostKeyChanged, CompletionFails, RecordEarlyExit, RecordFailure, Returned
<1>4. ASSUME NEW t \in transports, TransportExits(t) PROVE exits \subseteq exits'
  BY <1>4 DEF TransportExits
<1>5. ASSUME NEW f \in exits, ExitReported(f), f # e PROVE e \in exits'
  BY <1>5 DEF ExitReported
<1>6. ASSUME NEW w \in Worker, NEW s \in Session, Activate(w, s) \/ TimerFires(w, s)
      PROVE  exits' = exits
  BY <1>6 DEF Activate, TimerFires
<1>7. ASSUME NEW s \in Session, Requests(s) PROVE exits' = exits
  BY <1>7 DEF Requests, Prepare, DecideHostKey, Detach, Close, Release, ReplayRelease, Transfer
<1>8. CASE \/ StopEnds \/ BeginReplacement \/ AbortReplacement
           \/ \E kind \in {"delete", "replace"} : RequestUpkeep(kind)
           \/ UpkeepStep \/ UpkeepFails \/ Dispose \/ RuntimeDispose \/ UNCHANGED vars
  BY <1>1, <1>8 DEF StopEnds, BeginReplacement, AbortReplacement, RequestUpkeep, UpkeepStep,
     UpkeepStarts, FinishDeletion, CommitReplacement, RevokesNext, UpkeepFails, Dispose,
     RuntimeDispose, vars
<1> QED BY <1>1, <1>2, <1>3, <1>4, <1>5, <1>6, <1>7, <1>8 DEF Next

\* A service gets to serve only by these steps.
LEMMA PhaseBefore ==
    ASSUME [Next]_vars, phase' = "serving", phase # "serving"
    PROVE  FinishDeletion \/ Restart
<1>1. phase' # phase
  OBVIOUS
<1>2. ASSUME NEW w \in Worker, Activates(w) PROVE FALSE
  BY <1>1, <1>2 DEF Activates, Reserve, Prepared, PreparationFails, Spawn, SpawnFails, LaunchReturns,
         Completed, MarkHostKeyChanged, CompletionFails, RecordEarlyExit, RecordFailure, Returned
<1>3. ASSUME NEW w \in Worker, NEW s \in Session, Activate(w, s) \/ TimerFires(w, s) PROVE FALSE
  BY <1>1, <1>3 DEF Activate, TimerFires
<1>4. ASSUME NEW s \in Session, Requests(s) PROVE FALSE
  BY <1>1, <1>4 DEF Requests, Prepare, DecideHostKey, Detach, Close, Release, ReplayRelease, Transfer
<1>5. ASSUME NEW t \in transports, TransportExits(t) PROVE FALSE
  BY <1>1, <1>5 DEF TransportExits
<1>6. ASSUME NEW e \in exits, ExitReported(e) PROVE FALSE
  BY <1>1, <1>6 DEF ExitReported
<1>7. ASSUME NEW t \in upkeep.todo, RevokesNext(t) PROVE FALSE
  BY <1>1, <1>7 DEF RevokesNext
<1> QED BY <1>1, <1>2, <1>3, <1>4, <1>5, <1>6, <1>7 DEF Next, UpkeepStep, StopEnds, BeginReplacement,
        AbortReplacement, RequestUpkeep, UpkeepStarts, CommitReplacement, UpkeepFails, Dispose,
        RuntimeDispose, vars

\* A session is no longer left behind when its row moves on.
LEMMA StrandedBefore ==
    ASSUME TypeInv, [Next]_vars, NEW s \in Session, s \in stranded, s \notin stranded'
    PROVE  \/ \E v \in Worker : /\ work[v].session = s
                                /\ Completed(v) \/ (HasReserved(v) /\ work[v].attempt = 0)
           \/ rows'[s].state \notin InFlight \cup {"connected"}
<1>1. stranded' # stranded
  OBVIOUS
<1>2. ASSUME NEW w \in Worker, Activates(w)
      PROVE  work[w].session = s /\ (Completed(w) \/ (HasReserved(w) /\ work[w].attempt = 0))
  <2>1. CASE Reserve(w)
    <3>1. ~(work[w].attempt > 0) /\ work[w].session = s /\ HasReserved(w)
      BY <1>1, <2>1, ReserveEffect DEF HasReserved
    <3>2. work[w].attempt \in Nat
      BY <2>1, ReserveEffect, WorkParts, BoundAssumption DEF TypeInv
    <3> QED BY <3>1, <3>2
  <2>2. CASE Completed(w)
    BY <2>2, CompletedEffect
  <2> QED BY <1>1, <1>2, <2>1, <2>2 DEF Activates, Prepared, PreparationFails, Spawn, SpawnFails,
          LaunchReturns, MarkHostKeyChanged, CompletionFails, RecordEarlyExit, RecordFailure, Returned,
          history
<1>3. ASSUME NEW w \in Worker, NEW x \in Session, Activate(w, x) \/ TimerFires(w, x) PROVE FALSE
  BY <1>1, <1>3 DEF Activate, TimerFires, history
<1>4. ASSUME NEW x \in Session, Requests(x) PROVE rows'[s].state \notin InFlight \cup {"connected"}
  <2>1. CASE Detach(x) \/ Close(x)
    BY <2>1, ReleaseEffect DEF InFlight
  <2>2. stranded \subseteq stranded' => FALSE
    OBVIOUS
  <2> QED BY <1>4, <2>1, <2>2 DEF Requests, Prepare, DecideHostKey, ReplayRelease, Transfer, history
<1>5. ASSUME NEW t \in transports, TransportExits(t) PROVE FALSE
  BY <1>1, <1>5 DEF TransportExits, history
<1>6. ASSUME NEW e \in exits, ExitReported(e) PROVE FALSE
  BY <1>1, <1>6 DEF ExitReported
<1>7. CASE UpkeepStarts
  BY <1>1, <1>7, UpkeepStartsEffect DEF Kept, Present, InFlight
<1>8. CASE CommitReplacement
  BY <1>8, CommitReplacementEffect DEF Present, InFlight
<1>9. CASE Restart
  BY <1>9, RestartEffect DEF InFlight
<1>10. ASSUME NEW t \in upkeep.todo, RevokesNext(t) PROVE FALSE
  BY <1>10 DEF RevokesNext
<1> QED BY <1>1, <1>2, <1>3, <1>4, <1>5, <1>6, <1>7, <1>8, <1>9, <1>10 DEF Next, UpkeepStep, StopEnds,
        BeginReplacement, AbortReplacement, RequestUpkeep, UpkeepFails, FinishDeletion, Dispose,
        RuntimeDispose, history, vars

\* An attempt that completes stays as it is but for the exit it hears of.
LEMMA CompletingStays ==
    ASSUME TypeInv, [Next]_vars, NEW x \in Worker,
           work[x].step = "completing", work'[x].step = "completing"
    PROVE  \/ work'[x] = work[x]
           \/ /\ Kin(work'[x], work[x]) /\ work'[x].revision = work[x].revision
              /\ work'[x].generation = work[x].generation /\ work'[x].state = work[x].state
              /\ work'[x].exited
<1>1. ASSUME Activates(x) PROVE FALSE
  <2>1. Completed(x) \/ CompletionFails(x)
    BY <1>1 DEF Activates, Reserve, Prepared, PreparationFails, Spawn, SpawnFails,
       LaunchReturns, RecordEarlyExit, MarkHostKeyChanged, RecordFailure, Returned, Waits
  <2> QED BY <2>1, CompletedEffect, FailsEffect DEF Stays, LeavesLock, Idle
<1>2. ~Restart /\ work[x] # Idle
  BY RestartEffect DEF Idle
<1> QED BY <1>1, <1>2, WorkCauses

\* What is known of the transport of an attempt whose completion is to be written.
CompletingInv == phase = "serving" =>
    \A w \in Worker :
        LET a == work[w]  s == work[w].session IN
        /\ a.step = "completing"
        /\ rows[s].generation = a.generation /\ rows[s].revision = a.revision
        => Up(s, a.generation) \/ ExitOf(s, a.generation) \/ a.exited

LEMMA CompletingKept ==
    ASSUME TypeInv, TargetInv, SeenInv, ConnInv, RevInv, ReleasedInv, AttemptRowInv, CompletingInv,
           [Next]_vars
    PROVE  CompletingInv'
<1> SUFFICES ASSUME phase' = "serving", NEW w \in Worker, work'[w].step = "completing",
                    rows'[work'[w].session].generation = work'[w].generation,
                    rows'[work'[w].session].revision = work'[w].revision
             PROVE  (Up(work[w].session, work[w].generation)
                     \/ ExitOf(work[w].session, work[w].generation) \/ work[w].exited)'
  BY DEF CompletingInv
<1>0. PICK s, g : s = work[w].session /\ g = work[w].generation
  OBVIOUS
<1>1. CASE work[w].step # "completing"
  <2>1. LaunchReturns(w) /\ Launched(w)
    BY <1>1, StepComes
  <2>2. Stays(w, "completing") /\ attempts'[s].generation = g /\ attempts'[s].terminal
    BY <1>0, <2>1, LaunchReturnsEffect
  <2> QED BY <1>0, <2>2 DEF Stays, Kin, Up, Owns
<1>2. CASE work[w].step = "completing"
  <2>1. /\ work'[w].session = s /\ work'[w].generation = g /\ work'[w].revision = work[w].revision
        /\ work[w].exited => work'[w].exited
    BY <1>0, <1>2, CompletingStays DEF Kin
  <2>2. /\ s \in Session /\ g \in Nat /\ g # 0 /\ work[w].revision \in Nat
        /\ work[w].state \in InFlight /\ work[w] # Idle /\ work[w].step \in Reserved
    BY <1>0, <1>2, ReservedParts DEF Reserved
  <2>3. rows[s].generation = g /\ ~New(s)
    BY <2>1, <2>2, SeenStays, <1>0, <1>2 DEF Seen, HandOf, Reserved
  <2>4. rows[s].revision = work[w].revision
    BY <2>1, <2>2, <2>3, RowGrows, <1>0 DEF RevInv
  <2>5. rows[s].state \in InFlight
    BY <1>0, <2>2, <2>3, <2>4 DEF AttemptRowInv
  <2>6. rows'[s] = rows[s]
    <3>1. Kept(s)
      BY <2>5 DEF Kept, Present, InFlight
    <3> QED BY <2>1, <2>2, <2>4, <3>1, KeptRow
  <2>7. /\ ~FinishDeletion /\ ~Restart /\ upkeep.step # "revoking"
        /\ \A v \in Worker : work[v].step \in Reserved => v = w
    <3>1. ~Restart
      BY RestartEffect DEF Idle
    <3>2. upkeep.step # "revoking" /\ \A v \in Worker : work[v].step \in Reserved => v = w
      BY <2>2, Exclusion
    <3> QED BY <3>1, <3>2 DEF FinishDeletion, RevokedAll
  <2>8. phase = "serving"
    BY <2>7, PhaseBefore
  <2>9. CASE Up(s, g)
    <3> SUFFICES ASSUME ~Up(s, g)' PROVE ExitOf(s, g)' \/ work'[w].exited
      BY <2>1 DEF Up, Owns
    <3>1. ASSUME NEW v \in Worker, work[v].step \in {"preparing", "replacing", "completing"},
                 work'[v].step = "failing"
          PROVE  FALSE
      BY <2>7, <3>1 DEF Reserved
    <3>2. ASSUME NEW v \in Worker, Prepared(v) PROVE FALSE
      <4>1. work[v].step = "preparing"
        BY <3>2, PreparedEffect
      <4> QED BY <1>2, <2>7, <4>1 DEF Reserved
    <3>3. ~(Detach(s) \/ Close(s))
      <4>1. rows[s].revision \in Nat
        BY <2>2, <2>4
      <4> QED BY <2>2, <2>6, <4>1, ReleaseEffect
    <3>4. released[s] # g
      BY <2>2, <2>3, <2>5 DEF ReleasedInv, InFlight
    <3>5. CASE <<s, g>> \in transports /\ TransportExits(<<s, g>>)
      BY <2>9, <3>5, TransportExitsEffect DEF Up, ExitOf
    <3>6. ~RuntimeDispose
      BY DEF RuntimeDispose
    <3> QED BY <1>0, <2>2, <2>7, <2>9, <3>1, <3>2, <3>3, <3>4, <3>5, <3>6, UpLost
  <2>10. CASE ExitOf(s, g)
    <3>1. PICK e \in exits : e.session = s /\ e.generation = g
      BY <2>10 DEF ExitOf
    <3>2. CASE \E f \in exits' : f.session = s /\ f.generation = g
      BY <1>0, <2>1, <3>2 DEF ExitOf
    <3>3. CASE ExitReported(e)
      <4>1. CASE e.settled
        <5>1. RecordExit(s, g, e.attempt) /\ e.attempt \in 0 .. MaxAttempts
          BY <3>1, <3>3, <4>1, ExitReportedEffect, ExitParts DEF TypeInv
        <5>2. ExitApplies(s, g)
          BY <2>3, <2>5 DEF ExitApplies, InFlight
        <5>3. rows'[s].revision > rows[s].revision /\ rows[s].revision \in Nat
          BY <2>2, <2>4, <5>1, <5>2, RecordExitFacts DEF TypeInv
        <5> QED BY <2>6, <5>3
      <4>2. CASE ~e.settled
        BY <1>0, <1>2, <3>1, <3>3, <4>2, ExitReportedEffect DEF Kin
      <4> QED BY <4>1, <4>2
    <3> QED BY <2>7, <3>1, <3>2, <3>3, ExitStays
  <2>11. CASE work[w].exited
    BY <2>1, <2>11
  <2> QED BY <1>0, <1>2, <2>3, <2>4, <2>8, <2>9, <2>10, <2>11 DEF CompletingInv
<1> QED BY <1>1, <1>2

\* A session that is connected has a live entry, or its exit is about to be recorded.
EarlyOf(s, g) == \E w \in Worker : /\ work[w].step = "exitedEarly" /\ work[w].session = s
                                   /\ work[w].generation = g
SettledOf(s, g) == \E e \in exits : e.session = s /\ e.generation = g /\ e.settled
LiveConn == phase = "serving" =>
    \A s \in Session : rows[s].state = "connected" /\ s \notin stranded =>
        LET g == rows[s].generation IN Up(s, g) \/ SettledOf(s, g) \/ EarlyOf(s, g)

LEMMA LiveConnKept ==
    ASSUME TypeInv, ConnInv, ReleasedInv, AttemptRowInv, CompletingInv, LiveConn, [Next]_vars
    PROVE  LiveConn'
<1> SUFFICES ASSUME phase' = "serving", NEW s \in Session, rows'[s].state = "connected",
                    s \notin stranded'
             PROVE  (LET g == rows[s].generation IN Up(s, g) \/ SettledOf(s, g) \/ EarlyOf(s, g))'
  BY DEF LiveConn
<1>0. PICK g \in Nat : g = rows[s].generation /\ g # 0
  BY SessionParts DEF TypeInv
<1>1. phase = "serving"
  <2>1. ~FinishDeletion
    BY FinishDeletionEffect
  <2>2. ~Restart
    <3>1. Restart => rows'[s].state = "detached" \/ (rows[s].state # "connected" /\ rows'[s] = rows[s])
      BY RestartEffect
    <3> QED BY <3>1
  <2> QED BY <2>1, <2>2, PhaseBefore
<1>2. ASSUME NEW v \in Worker, Completed(v), work[v].session = s
      PROVE  (LET h == rows[s].generation IN Up(s, h) \/ SettledOf(s, h) \/ EarlyOf(s, h))'
  <2>1. /\ rows'[s].generation = g /\ work[v].step = "completing" /\ work[v].generation = g
        /\ rows[s].revision = work[v].revision
    BY <1>0, <1>2, CompletedEffect DEF CompletionApplies
  <2>2. attempts' = attempts
    BY <1>2 DEF Completed
  <2>3. CASE Up(s, g)
    BY <2>1, <2>2, <2>3 DEF Up, Owns
  <2>4. CASE ExitOf(s, g)
    <3>1. SettledOf(s, g)'
      BY <1>2, <2>1, <2>4, CompletedEffect DEF ExitOf, SettledOf
    <3> QED BY <2>1, <3>1 DEF SettledOf
  <2>5. CASE work[v].exited
    <3>1. Stays(v, "exitedEarly")
      BY <1>2, <2>5, CompletedEffect
    <3>2. work'[v].step = "exitedEarly" /\ work'[v].session = s /\ work'[v].generation = g
      BY <1>2, <2>1, <3>1 DEF Stays, Kin
    <3> QED BY <2>1, <3>2 DEF EarlyOf
  <2> QED BY <1>0, <1>1, <1>2, <2>1, <2>3, <2>4, <2>5 DEF CompletingInv
<1>3. CASE rows[s].state # "connected"
  BY <1>2, <1>3, StateComes
<1>4. CASE rows[s].state = "connected"
  <2>1. rows'[s].generation = g
    BY <1>4, <1>0, RowSteps DEF RowStep
  <2>2. ASSUME NEW v \in Worker, work[v].session = s,
               Completed(v) \/ (HasReserved(v) /\ work[v].attempt = 0)
        PROVE  FALSE
    BY <1>4, <2>2 DEF Completed, CompletionApplies, HasReserved, Reservable, Startable, InFlight
  <2>3. s \notin stranded
    BY <2>2, StrandedBefore
  <2>4. CASE Up(s, g)
    <3> SUFFICES ASSUME ~Up(s, g)' PROVE SettledOf(s, g)'
      BY <1>0, <2>1
    <3>1. ASSUME NEW v \in Worker, work[v].step \in {"preparing", "replacing", "completing"},
                 work[v].session = s, work[v].generation = g
          PROVE  FALSE
      BY <1>0, <1>4, <3>1 DEF AttemptRowInv, Reserved
    <3>2. ASSUME NEW v \in Worker, Prepared(v), work[v].session = s PROVE FALSE
      <4>1. rows[s].state = work[v].state /\ work[v].step = "preparing"
        BY <3>2, PreparedEffect DEF IsCurrent
      <4> QED BY <1>4, <4>1, ReservedParts DEF Reserved, InFlight
    <3>3. ~(Detach(s) \/ Close(s))
      BY ReleaseEffect
    <3>4. released[s] # g
      BY <1>0, <1>4 DEF ReleasedInv
    <3>5. CASE <<s, g>> \in transports /\ TransportExits(<<s, g>>)
      BY <2>4, <3>1, <3>5, TransportExitsEffect DEF Up, SettledOf
    <3>6. ~(upkeep.step = "revoking" /\ <<s, g>> \in upkeep.todo /\ RevokesNext(<<s, g>>))
      BY <1>0, <1>4 DEF RevokesNext
    <3>7. ~RuntimeDispose
      BY DEF RuntimeDispose
    <3>8. ~Restart
      BY <1>4, RestartEffect
    <3> QED BY <1>0, <2>4, <3>1, <3>2, <3>3, <3>4, <3>5, <3>6, <3>7, <3>8, UpLost
  <2>5. ExitApplies(s, g)
    BY <1>0, <1>4 DEF ExitApplies
  <2>6. ASSUME NEW attempt \in 0 .. MaxAttempts, RecordExit(s, g, attempt) PROVE FALSE
    BY <1>0, <2>5, <2>6, RecordExitFacts DEF TypeInv
  <2>7. CASE SettledOf(s, g)
    <3>1. PICK e \in exits : e.session = s /\ e.generation = g /\ e.settled
      BY <2>7 DEF SettledOf
    <3>2. ~ExitReported(e)
      BY <2>6, <3>1, ExitReportedEffect, ExitParts DEF TypeInv
    <3>3. ~Restart
      BY <1>4, RestartEffect
    <3>4. SettledOf(s, g)'
      BY <3>1, <3>2, <3>3, ExitStays DEF SettledOf
    <3> QED BY <1>0, <2>1, <3>4 DEF SettledOf
  <2>8. CASE EarlyOf(s, g)
    <3>1. PICK v \in Worker : work[v].step = "exitedEarly" /\ work[v].session = s
                              /\ work[v].generation = g
      BY <2>8 DEF EarlyOf
    <3>2. ~RecordEarlyExit(v)
      BY <2>6, <3>1, RecordEarlyExitEffect
    <3>3. ~Restart
      BY <1>4, RestartEffect
    <3>4. work'[v].step = "exitedEarly"
      BY <3>1, <3>2, <3>3, EarlyLeaves
    <3>5. work'[v].session = s /\ work'[v].generation = g
      BY <3>1, <3>4, WorkerSteps DEF WorkerStep, MovesOn, HasReserved, HasReturned, HasStarted, Asked,
         Kin, Idle
    <3>6. EarlyOf(s, g)'
      BY <3>4, <3>5 DEF EarlyOf
    <3> QED BY <1>0, <2>1, <3>6 DEF EarlyOf
  <2> QED BY <1>0, <1>1, <1>4, <2>3, <2>4, <2>7, <2>8 DEF LiveConn
<1> QED BY <1>3, <1>4

\* Everything that is needed for it.
LiveInv == /\ CoreInv /\ FreshInv /\ RevInv /\ ReleasedInv /\ AttemptRowInv
           /\ CompletingInv /\ LiveConn

LEMMA LiveHolds == Spec => []LiveInv
<1>1. ASSUME Init PROVE FreshInv /\ RevInv /\ ReleasedInv /\ AttemptRowInv /\ CompletingInv /\ LiveConn
  <2>1. \A w \in Worker : work[w] = Idle /\ work[w].step = "idle"
    BY <1>1 DEF Init, Idle
  <2>2. \A s \in Session : /\ rows[s].state = "absent" /\ rows[s].generation = 1
                           /\ timers[s] = NoTimer /\ released[s] = 0
    BY <1>1 DEF Init
  <2>3. FreshInv
    BY <2>1, <2>2 DEF FreshInv, Of
  <2>4. RevInv
    BY <2>1, <2>2 DEF RevInv
  <2>5. ReleasedInv
    BY <2>2 DEF ReleasedInv
  <2>6. AttemptRowInv
    BY <2>1 DEF AttemptRowInv, Reserved
  <2>7. CompletingInv
    BY <2>1 DEF CompletingInv
  <2>8. LiveConn
    BY <2>2 DEF LiveConn
  <2> QED BY <2>3, <2>4, <2>5, <2>6, <2>7, <2>8
<1>2. CoreInv /\ LiveInv /\ [Next]_vars => (FreshInv /\ RevInv /\ ReleasedInv)'
  <2> SUFFICES ASSUME CoreInv, LiveInv, [Next]_vars PROVE (FreshInv /\ RevInv /\ ReleasedInv)'
    OBVIOUS
  <2>1. FreshInv' /\ RevInv' /\ ReleasedInv'
    BY FreshKept, RevKept, ReleasedKept DEF LiveInv, CoreInv
  <2> QED BY <2>1
<1>3. CoreInv /\ LiveInv /\ [Next]_vars => (AttemptRowInv /\ CompletingInv /\ LiveConn)'
  <2> SUFFICES ASSUME CoreInv, LiveInv, [Next]_vars
               PROVE  (AttemptRowInv /\ CompletingInv /\ LiveConn)'
    OBVIOUS
  <2>1. AttemptRowInv' /\ CompletingInv' /\ LiveConn'
    BY AttemptRowKept, CompletingKept, LiveConnKept DEF LiveInv, CoreInv
  <2> QED BY <2>1
<1> DEFINE Rest == FreshInv /\ RevInv /\ ReleasedInv /\ AttemptRowInv /\ CompletingInv /\ LiveConn
<1>5. Init => Rest
  BY <1>1
<1>6. CoreInv /\ Rest /\ [Next]_vars => Rest'
  BY <1>2, <1>3 DEF LiveInv
<1>7. CoreInv /\ Rest => LiveInv
  BY DEF LiveInv
<1> HIDE DEF Rest
<1> QED BY <1>5, <1>6, <1>7, CoreHolds, PTL DEF Spec

\* A session shown connected has the live transport of its generation, or its exit
\* is on its way to the row.
THEOREM ConnectedHasTransport == Spec => []ConnectedIsLive
<1>1. LiveInv => ConnectedIsLive
  <2> SUFFICES ASSUME LiveInv, phase = "serving", NEW s \in Session,
                      rows[s].state = "connected", s \notin stranded
               PROVE  LET g == rows[s].generation IN
                      \/ Owns(s, g) /\ attempts[s].terminal /\ <<s, g>> \in transports \ stopping
                      \/ SettledOf(s, g) \/ EarlyOf(s, g)
    BY DEF ConnectedIsLive, SettledOf, EarlyOf
  <2>1. PICK g \in Nat : g = rows[s].generation /\ g # 0
    BY SessionParts DEF LiveInv, CoreInv, TypeInv
  <2>2. Up(s, g) \/ SettledOf(s, g) \/ EarlyOf(s, g)
    BY <2>1 DEF LiveInv, LiveConn
  <2>3. CASE Up(s, g)
    <3>1. Live(s) /\ attempts[s].generation = g
      BY <2>1, <2>3 DEF Up, Owns, Live, NoAttempt
    <3>2. <<s, g>> \in transports \ stopping
      BY <3>1 DEF LiveInv, CoreInv, ConnInv, EntryInv
    <3> QED BY <2>1, <2>3, <3>2 DEF Up
  <2> QED BY <2>1, <2>2, <2>3
<1> QED BY <1>1, LiveHolds, PTL

-----------------------------------------------------------------------------
(* Which step changes a row, the budget, the runtime's entry.                *)

\* The exit of the generation the row has is recorded: it was on its way, or its
\* attempt had heard of it.
ExitNow(s) == \E n \in 0 .. MaxAttempts :
    /\ RecordExit(s, rows[s].generation, n) /\ UNCHANGED attempts
    /\ \/ \E e \in exits : /\ ExitReported(e) /\ e.settled /\ e.session = s
                           /\ e.generation = rows[s].generation /\ e.attempt = n
       \/ \E w \in Worker : /\ RecordEarlyExit(w) /\ work[w].session = s
                            /\ work[w].generation = rows[s].generation /\ work[w].attempt = n
RowCause(s) ==
    \/ Prepare(s) \/ Detach(s) \/ Close(s) \/ ExitNow(s)
    \/ \E w \in Worker : /\ work[w].session = s
                         /\ \/ Reserve(w) /\ Reservable(w)
                            \/ Completed(w) \/ RecordFailure(w) \/ Returned(w)
    \/ UpkeepStarts /\ upkeep.kind = "delete"
    \/ FinishDeletion \/ CommitReplacement \/ Restart

LEMMA ExitCause ==
    ASSUME TypeInv, NEW x \in Session, NEW g \in Nat, NEW n \in 0 .. MaxAttempts,
           RecordExit(x, g, n), NEW s \in Session, rows'[s] # rows[s]
    PROVE  x = s /\ g = rows[s].generation
<1>1. ~UNCHANGED <<rows, timers, spent>>
  OBVIOUS
<1>2. ExitApplies(x, g) /\ \A y \in Session : y # x => rows'[y] = rows[y]
  BY <1>1, RecordExitFacts DEF TypeInv
<1> QED BY <1>2 DEF ExitApplies

LEMMA RowChanges ==
    ASSUME TypeInv, [Next]_vars, NEW s \in Session, rows'[s] # rows[s]
    PROVE  RowCause(s) \/ Transfer(s)
<1>1. rows' # rows /\ rows'[s] # rows[s]
  OBVIOUS
<1>2. ASSUME NEW w \in Worker, Activates(w) PROVE RowCause(s)
  <2>1. CASE Reserve(w)
    <3>1. Reservable(w) /\ RowsKeep(work[w].session)
      BY <1>1, <2>1, ReserveEffect
    <3> QED BY <1>1, <2>1, <3>1 DEF RowsKeep, RowCause
  <2>2. CASE Completed(w)
    BY <1>1, <2>2, CompletedEffect DEF RowsKeep, RowCause
  <2>3. CASE RecordEarlyExit(w)
    <3>1. /\ work[w].session = s /\ work[w].generation = rows[s].generation
          /\ RecordExit(s, rows[s].generation, work[w].attempt) /\ work[w].attempt \in 0 .. MaxAttempts
      BY <1>1, <2>3, RecordEarlyExitEffect, ExitCause
    <3>2. attempts' = attempts
      BY <2>3 DEF RecordEarlyExit
    <3>3. ExitNow(s)
      BY <2>3, <3>1, <3>2 DEF ExitNow
    <3> QED BY <3>3 DEF RowCause
  <2>4. CASE RecordFailure(w)
    BY <1>1, <2>4, RecordFailureEffect DEF RowsKeep, RowCause
  <2>5. CASE Returned(w)
    BY <1>1, <2>5, ReturnedEffect DEF RowsKeep, RowCause
  <2> QED BY <1>1, <1>2, <2>1, <2>2, <2>3, <2>4, <2>5 DEF Activates, Prepared, PreparationFails,
          Spawn, SpawnFails, LaunchReturns, CompletionFails, MarkHostKeyChanged, durable
<1>3. ASSUME NEW x \in Session, Requests(x) PROVE RowCause(s) \/ Transfer(s)
  <2>1. CASE Prepare(x)
    BY <1>1, <2>1, PrepareEffect DEF RowsKeep, RowCause
  <2>2. CASE Detach(x) \/ Close(x)
    BY <1>1, <2>2, ReleaseEffect DEF RowsKeep, RowCause
  <2>3. CASE Transfer(x)
    BY <1>1, <2>3, TransferEffect DEF RowsKeep
  <2> QED BY <1>1, <1>3, <2>1, <2>2, <2>3 DEF Requests, DecideHostKey, ReplayRelease, durable
<1>4. ASSUME NEW e \in exits, ExitReported(e) PROVE RowCause(s)
  <2>1. e.session \in Session /\ e.generation \in Nat /\ e.attempt \in 0 .. MaxAttempts
    BY ExitParts DEF TypeInv
  <2>2. e.settled /\ RecordExit(e.session, e.generation, e.attempt)
    BY <1>1, <1>4, ExitReportedEffect
  <2>3. e.session = s /\ e.generation = rows[s].generation
    BY <1>1, <2>1, <2>2, ExitCause
  <2>4. attempts' = attempts
    BY <1>4 DEF ExitReported
  <2>5. ExitNow(s)
    BY <1>4, <2>1, <2>2, <2>3, <2>4 DEF ExitNow
  <2> QED BY <2>5 DEF RowCause
<1>5. CASE UpkeepStarts
  BY <1>1, <1>5 DEF UpkeepStarts, durable, RowCause
<1>6. CASE FinishDeletion \/ CommitReplacement \/ Restart
  BY <1>6 DEF RowCause
<1> QED BY <1>1, <1>2, <1>3, <1>4, <1>5, <1>6 DEF Next, UpkeepStep, Activate, TimerFires,
        TransportExits, StopEnds, BeginReplacement, AbortReplacement, RequestUpkeep, RevokesNext,
        UpkeepFails, Dispose, RuntimeDispose, durable, vars

LEMMA RowCauses ==
    ASSUME TypeInv, [Next]_vars, NEW s \in Session,
           \/ rows'[s].state # rows[s].state
           \/ rows'[s].generation # rows[s].generation
    PROVE  RowCause(s)
<1>1. rows'[s] # rows[s]
  OBVIOUS
<1>2. ~Transfer(s)
  BY TransferEffect
<1> QED BY <1>1, <1>2, RowChanges

\* The limits stay, and the attempts made are counted by the reservations only.
LEMMA SpentSteps ==
    ASSUME TypeInv, [Next]_vars, NEW s \in Session
    PROVE  /\ limit' = limit
           /\ \/ spent'[s] \in {0, spent[s]}
              \/ \E w \in Worker : /\ Reserve(w) /\ Reservable(w) /\ work[w].session = s
                                   /\ work[w].attempt > 0 /\ spent'[s] = spent[s] + 1
<1> DEFINE Goal == /\ limit' = limit
                   /\ \/ spent'[s] \in {0, spent[s]}
                      \/ \E w \in Worker : /\ Reserve(w) /\ Reservable(w) /\ work[w].session = s
                                           /\ work[w].attempt > 0 /\ spent'[s] = spent[s] + 1
<1>1. CASE limit' = limit /\ spent' = spent
  BY <1>1
<1>2. ASSUME NEW x \in Session, NEW g \in Nat, NEW n \in 0 .. MaxAttempts, RecordExit(x, g, n)
      PROVE  spent'[s] \in {0, spent[s]}
  BY <1>2, RecordExitFacts DEF TypeInv
<1>3. ASSUME NEW w \in Worker, Activates(w) PROVE Goal
  <2>1. CASE Reserve(w)
    <3>1. limit' = limit
      BY <2>1 DEF Reserve
    <3>2. CASE spent' = spent
      BY <3>1, <3>2
    <3>3. CASE Reservable(w)
      BY <2>1, <3>1, <3>3, ReserveEffect
    <3> QED BY <2>1, <3>2, <3>3, ReserveEffect
  <2>2. CASE RecordEarlyExit(w)
    <3>1. limit' = limit
      BY <2>2 DEF RecordEarlyExit
    <3> QED BY <1>2, <2>2, <3>1, RecordEarlyExitEffect
  <2> QED BY <1>1, <1>3, <2>1, <2>2 DEF Activates, Prepared, PreparationFails, Spawn, SpawnFails,
          LaunchReturns, Completed, CompletionFails, MarkHostKeyChanged, RecordFailure, Returned,
          history
<1>4. ASSUME NEW w \in Worker, NEW x \in Session, Activate(w, x) \/ TimerFires(w, x) PROVE Goal
  BY <1>1, <1>4 DEF Activate, TimerFires, history
<1>5. ASSUME NEW x \in Session, Requests(x) PROVE Goal
  BY <1>1, <1>5 DEF Requests, Prepare, DecideHostKey, Detach, Close, Release, ReplayRelease,
     Transfer, history
<1>6. ASSUME NEW e \in exits, ExitReported(e) PROVE Goal
  <2>1. e.session \in Session /\ e.generation \in Nat /\ e.attempt \in 0 .. MaxAttempts
    BY ExitParts DEF TypeInv
  <2>2. limit' = limit
    BY <1>6 DEF ExitReported
  <2> QED BY <1>2, <1>6, <2>1, <2>2, ExitReportedEffect
<1>7. ASSUME NEW t \in transports, TransportExits(t) PROVE Goal
  BY <1>1, <1>7 DEF TransportExits, history
<1>8. ASSUME NEW t \in upkeep.todo, RevokesNext(t) PROVE Goal
  BY <1>1, <1>8 DEF RevokesNext
<1>9. CASE \/ StopEnds \/ BeginReplacement \/ AbortReplacement
           \/ \E kind \in {"delete", "replace"} : RequestUpkeep(kind)
           \/ UpkeepStarts \/ FinishDeletion \/ CommitReplacement
           \/ UpkeepFails \/ Dispose \/ RuntimeDispose \/ Restart \/ UNCHANGED vars
  BY <1>1, <1>9 DEF StopEnds, BeginReplacement, AbortReplacement, RequestUpkeep,
     UpkeepStarts, FinishDeletion, CommitReplacement, UpkeepFails, Dispose,
     RuntimeDispose, Restart, history, vars
<1> QED BY <1>3, <1>4, <1>5, <1>6, <1>7, <1>8, <1>9 DEF Next, UpkeepStep

\* An entry comes with the launch of an attempt, gets its terminal, and goes.
LEMMA EntrySteps ==
    ASSUME TypeInv, [Next]_vars, NEW s \in Session
    PROVE  \/ attempts'[s] \in {attempts[s], NoAttempt}
           \/ \E w \in Worker :
                \/ /\ Prepared(w) /\ work[w].session = s
                   /\ attempts'[s].generation = work[w].generation
                   /\ attempts'[s].attempt = work[w].attempt /\ ~attempts'[s].terminal
                \/ /\ LaunchReturns(w) /\ Launched(w) /\ work[w].session = s
                   /\ Stays(w, "completing")
                   /\ attempts[s].generation = work[w].generation
                   /\ attempts'[s].generation = work[w].generation
                   /\ attempts'[s].attempt = attempts[s].attempt
<1>1. CASE Quiet
  BY <1>1, QuietKeeps
<1>2. ASSUME NEW x \in Session, NEW h \in Nat, h # 0, Terminate(x, h)
      PROVE  attempts'[s] \in {attempts[s], NoAttempt}
  BY <1>2, TerminateFacts DEF TypeInv
<1>3. ASSUME NEW w \in Worker, PreparationFails(w) \/ SpawnFails(w) \/ CompletionFails(w)
      PROVE  attempts'[s] \in {attempts[s], NoAttempt}
  BY <1>2, <1>3, FailsEffect
<1>4. ASSUME NEW w \in Worker, Prepared(w), attempts'[s] # attempts[s]
      PROVE  /\ work[w].session = s
             /\ attempts'[s].generation = work[w].generation
             /\ attempts'[s].attempt = work[w].attempt /\ ~attempts'[s].terminal
  BY <1>4, PreparedEffect
<1>5. ASSUME NEW w \in Worker, Spawn(w) PROVE attempts'[s] = attempts[s]
  BY <1>5 DEF Spawn
<1>6. ASSUME NEW w \in Worker, LaunchReturns(w), attempts'[s] \notin {attempts[s], NoAttempt}
      PROVE  /\ Launched(w) /\ work[w].session = s /\ Stays(w, "completing")
             /\ attempts[s].generation = work[w].generation
             /\ attempts'[s].generation = work[w].generation
             /\ attempts'[s].attempt = attempts[s].attempt
  BY <1>6, LaunchReturnsEffect DEF Launched, Owns
<1>7. ASSUME NEW x \in Session, Detach(x) \/ Close(x)
      PROVE  attempts'[s] \in {attempts[s], NoAttempt}
  <2>1. rows[x].generation \in Nat /\ rows[x].generation # 0
    BY SessionParts DEF TypeInv
  <2> QED BY <1>2, <1>7, <2>1, ReleaseEffect
<1>8. ASSUME NEW x \in Session, ReplayRelease(x)
      PROVE  attempts'[s] \in {attempts[s], NoAttempt}
  BY <1>2, <1>8, ReplayReleaseEffect
<1>9. ASSUME NEW t \in transports, TransportExits(t)
      PROVE  attempts'[s] \in {attempts[s], NoAttempt}
  BY <1>9, TransportExitsEffect
<1>10. CASE StopEnds
  BY <1>10 DEF StopEnds
<1>11. ASSUME upkeep.step = "revoking", NEW t \in upkeep.todo, RevokesNext(t)
       PROVE  attempts'[s] \in {attempts[s], NoAttempt}
  BY <1>2, <1>11, RevokesNextEffect
<1>12. CASE RuntimeDispose \/ Restart
  BY <1>12 DEF RuntimeDispose, Restart
<1> QED BY <1>1, <1>3, <1>4, <1>5, <1>6, <1>7, <1>8, <1>9, <1>10, <1>11, <1>12, StepCases

-----------------------------------------------------------------------------
(* The timer an activation was started by.                                   *)

\* No two activations were started by the same timer of a session, and none by a
\* timer that has yet to fire.
TimerIdInv ==
    /\ \A v, w \in Worker : v # w /\ work[v] # Idle /\ work[w] # Idle
                            /\ work[v].session = work[w].session /\ work[v].timer # 0
                            => work[v].timer # work[w].timer
    /\ \A s \in Session : timers[s] # NoTimer /\ timers[s].armed =>
         \A w \in Worker : Of(w, s) => work[w].timer # timers[s].id

\* The timer of a session is the one that started the activation that waits with the
\* revision the row has, or holds the generation it has.
TimerHeldInv == \A w \in Worker :
    LET a == work[w]  s == work[w].session IN
    /\ a.step = "waiting" /\ a.attempt > 0 /\ rows[s].revision = a.revision =>
         rows[s].state = "reconnecting" /\ timers[s].id \in {0, a.timer}
    /\ a.step \in Reserved \ {"exitedEarly"} /\ rows[s].generation = a.generation
       /\ rows[s].state \in InFlight => timers[s].id \in {0, a.timer}

LEMMA OneStarts ==
    ASSUME TypeInv, [Next]_vars, NEW v \in Worker, work[v] = Idle, work'[v] # Idle
    PROVE  OthersKeep(v) /\ lock' = Append(lock, v)
<1> DEFINE Goal == OthersKeep(v) /\ lock' = Append(lock, v)
<1>0. work' # work /\ Idle.step = "idle"
  BY DEF Idle
<1>1. ASSUME NEW w \in Worker, Activates(w) PROVE FALSE
  <2>1. CASE v # w
    <3>1. OthersKeep(w) \/ work' = work
      BY <1>1, ReserveEffect, PreparedEffect, FailsEffect, SpawnEffect, LaunchReturnsEffect,
         CompletedEffect, RecordEarlyExitEffect, RecordFailureEffect, ReturnedEffect
      DEF Activates, Stays, LeavesLock, MarkHostKeyChanged
    <3> QED BY <2>1, <3>1 DEF OthersKeep
  <2>2. CASE v = w
    <3>1. work[v].step = "idle"
      BY <1>0
    <3> QED BY <1>1, <2>2, <3>1 DEF Activates, Reserve, Prepared, PreparationFails, Spawn,
            SpawnFails, LaunchReturns, Completed, CompletionFails, RecordEarlyExit,
            MarkHostKeyChanged, RecordFailure, Returned, Waits
  <2> QED BY <2>1, <2>2
<1>2. ASSUME NEW w \in Worker, NEW s \in Session, Activate(w, s) PROVE Goal
  <2>1. OthersKeep(w) /\ lock' = Append(lock, w)
    BY <1>2, ActivateEffect DEF Activate
  <2>2. w = v
    BY <2>1 DEF OthersKeep
  <2> QED BY <2>1, <2>2
<1>3. ASSUME NEW w \in Worker, NEW s \in Session, TimerFires(w, s) PROVE Goal
  <2>1. OthersKeep(w) /\ lock' = Append(lock, w)
    BY <1>0, <1>3, TimerFiresEffect DEF TimerFires
  <2>2. w = v
    BY <2>1 DEF OthersKeep
  <2> QED BY <2>1, <2>2
<1>4. ASSUME NEW e \in exits, ExitReported(e) PROVE FALSE
  BY <1>0, <1>4, ExitReportedEffect
<1>5. CASE Restart
  BY <1>5, RestartEffect
<1>6. ASSUME NEW s \in Session, Requests(s) PROVE work' = work
  BY <1>6 DEF Requests, Prepare, DecideHostKey, Detach, Close, Release, ReplayRelease, Transfer
<1>7. ASSUME NEW t \in transports, TransportExits(t) PROVE work' = work
  BY <1>7 DEF TransportExits
<1>8. CASE \/ StopEnds \/ BeginReplacement \/ AbortReplacement
           \/ \E kind \in {"delete", "replace"} : RequestUpkeep(kind)
           \/ UpkeepStep \/ UpkeepFails \/ Dispose \/ RuntimeDispose \/ UNCHANGED vars
  BY <1>0, <1>8 DEF StopEnds, BeginReplacement, AbortReplacement, RequestUpkeep, UpkeepStep,
     UpkeepStarts, FinishDeletion, CommitReplacement, RevokesNext, UpkeepFails, Dispose,
     RuntimeDispose, vars
<1> QED BY <1>0, <1>1, <1>2, <1>3, <1>4, <1>5, <1>6, <1>7, <1>8 DEF Next

\* An activation that is not new was there before, with its session and its timer.
LEMMA WasThere ==
    ASSUME TypeInv, [Next]_vars, NEW w \in Worker, work'[w] # Idle, ~HasStarted(w)
    PROVE  /\ work[w] # Idle /\ work'[w].session = work[w].session
           /\ work'[w].attempt = work[w].attempt /\ work'[w].timer = work[w].timer
           /\ work[w].session \in Session /\ work[w].attempt \in 0 .. MaxAttempts
           /\ work[w].attempt > 0 <=> work[w].timer # 0
           /\ work[w].attempt <= limit[work[w].session]
<1>1. work[w] # Idle /\ work'[w].session = work[w].session
      /\ work'[w].attempt = work[w].attempt /\ work'[w].timer = work[w].timer
  <2>1. Idle.step = "idle" /\ "idle" \notin Reserved
    BY DEF Idle, Reserved
  <2> QED BY <2>1, WorkerSteps DEF WorkerStep, MovesOn, HasReserved, HasReturned, Kin
<1>2. ShapeOK(work[w]) /\ work[w].session \in Session /\ work[w].attempt \in 0 .. MaxAttempts
  BY <1>1, WorkParts DEF TypeInv
<1> QED BY <1>1, <1>2, BoundAssumption DEF ShapeOK

LEMMA TimerIdKept ==
    ASSUME TypeInv, TimerIdInv, [Next]_vars
    PROVE  TimerIdInv'
<1>1. ASSUME NEW v \in Worker, NEW w \in Worker, v # w, HasStarted(v),
             work'[w] # Idle, work'[v].session = work'[w].session, work'[v].timer # 0
      PROVE  work'[v].timer # work'[w].timer
  <2>1. work'[v] # Idle /\ work[v] = Idle
    BY <1>1 DEF HasStarted, Asked, Idle
  <2>2. work'[w] = work[w]
    BY <1>1, <2>1, OneStarts DEF OthersKeep
  <2>3. PICK s \in Session :
          /\ timers[s] # NoTimer /\ timers[s].armed
          /\ work'[v].session = s /\ work'[v].timer = timers[s].id
    BY <1>1 DEF HasStarted, Asked
  <2> QED BY <1>1, <2>2, <2>3 DEF TimerIdInv, Of
<1>2. ASSUME NEW v \in Worker, NEW w \in Worker, v # w, work'[v] # Idle,
             work'[w] # Idle, work'[v].session = work'[w].session, work'[v].timer # 0
      PROVE  work'[v].timer # work'[w].timer
  <2>1. CASE HasStarted(v)
    BY <1>1, <1>2, <2>1
  <2>2. CASE HasStarted(w)
    <3>1. CASE work'[w].timer = 0
      BY <1>2, <3>1
    <3> QED BY <1>1, <1>2, <2>2, <3>1
  <2>3. CASE ~HasStarted(v) /\ ~HasStarted(w)
    BY <1>2, <2>3, WasThere DEF TimerIdInv
  <2> QED BY <2>1, <2>2, <2>3
<1>3. ASSUME NEW s \in Session, timers'[s] # NoTimer, timers'[s].armed,
             NEW w \in Worker, work'[w] # Idle, work'[w].session = s
      PROVE  work'[w].timer # timers'[s].id
  <2>0. NoTimer.id = 0 /\ timers'[s].id # 0
    BY <1>3, TypesKept, SessionParts DEF TypeInv, TypeOK, Timer, TimerId, NoTimer
  <2>1. CASE HasStarted(w)
    <3>1. CASE work'[w].timer = 0
      BY <2>0, <3>1
    <3>2. CASE work'[w].timer # 0
      <4>1. ~timers'[s].armed
        BY <1>3, <2>1, <3>2 DEF HasStarted, Asked
      <4> QED BY <1>3, <4>1
    <3> QED BY <3>1, <3>2
  <2>2. CASE ~HasStarted(w)
    <3>1. Of(w, s) /\ work'[w].timer = work[w].timer /\ work'[w].attempt = work[w].attempt
      BY <1>3, <2>2, WasThere DEF Of
    <3>2. CASE timers'[s] = timers[s]
      BY <1>3, <3>1, <3>2 DEF TimerIdInv
    <3>3. CASE IsDue(s)
      BY <1>3, <3>3 DEF IsDue
    <3>4. CASE IsSetByExit(s)
      BY <3>1, <3>4, FreshIdFacts DEF IsSetByExit, TypeInv
    <3>5. CASE IsSetAgain(s)
      <4>1. PICK v \in Worker : work[v].step = "returned" /\ work[v].session = s
                                /\ work'[v] = Idle /\ timers'[s].id = work[v].timer
        BY <3>5 DEF IsSetAgain
      <4>2. work[v] # Idle /\ v # w
        BY <1>3, <4>1 DEF Idle
      <4>3. work[v].timer # 0
        BY <2>0, <4>1
      <4> QED BY <3>1, <4>1, <4>2, <4>3 DEF TimerIdInv, Of
    <3> QED BY <1>3, <3>2, <3>3, <3>4, <3>5, TimerSteps DEF TimerStep
  <2> QED BY <2>1, <2>2
<1> QED BY <1>2, <1>3 DEF TimerIdInv, Of

\* The timer of a session that reconnects keeps its identity until it is gone.
LEMMA TimerOfReconnect ==
    ASSUME TypeInv, [Next]_vars, NEW s \in Session, rows[s].state # "connected"
    PROVE  timers'[s].id \in {0, timers[s].id}
<1>1. NoTimer.id = 0
  BY DEF NoTimer
<1> QED BY <1>1, TimerSteps DEF TimerStep, IsDue, IsSetByExit, IsSetAgain

LEMMA TimerHeldKept ==
    ASSUME TypeInv, TargetInv, SeenInv, FreshInv, RevInv, AttemptRowInv, TimerHeldInv, [Next]_vars
    PROVE  TimerHeldInv'
<1>1. ASSUME NEW w \in Worker, work'[w].step = "waiting", work'[w].attempt > 0,
             rows'[work'[w].session].revision = work'[w].revision
      PROVE  rows'[work'[w].session].state = "reconnecting"
             /\ timers'[work'[w].session].id \in {0, work'[w].timer}
  <2>0. Idle.step = "idle" /\ "waiting" \notin Reserved
    BY DEF Idle, Reserved
  <2>1. CASE HasStarted(w)
    <3>1. PICK s \in Session :
            /\ timers[s] # NoTimer /\ TimerIsCurrent(s) /\ timers'[s].id = timers[s].id
            /\ work'[w].session = s /\ work'[w].timer = timers[s].id
            /\ work'[w].revision = timers[s].revision
      BY <1>1, <2>1 DEF HasStarted, Asked
    <3>2. rows[s].state = "reconnecting" /\ rows[s].revision = rows'[s].revision
      BY <1>1, <3>1 DEF TimerIsCurrent
    <3>3. Kept(s)
      BY <3>2 DEF Kept, Present
    <3>4. rows[s].revision \in Nat
      BY SessionParts DEF TypeInv
    <3>5. rows'[s] = rows[s]
      BY <3>2, <3>3, <3>4, KeptRow
    <3> QED BY <3>1, <3>2, <3>5
  <2>2. CASE work'[w] = work[w]
    <3>1. PICK s \in Session : s = work[w].session /\ ~New(s) /\ work[w].revision \in Nat
                               /\ work[w].revision <= rows[s].revision
      <4>1. work[w].step # "idle" /\ work[w] # Idle
        BY <1>1, <2>0, <2>2
      <4>2. work[w].session \in Session /\ work[w].revision \in Nat
        BY <4>1, WorkParts DEF TypeInv
      <4> QED BY <4>1, <4>2 DEF FreshInv, Fresh, Of, RevInv
    <3>2. rows[s].revision = work[w].revision
      BY <1>1, <2>2, <3>1, RowGrows
    <3>3. rows[s].state = "reconnecting" /\ timers[s].id \in {0, work[w].timer}
      BY <1>1, <2>2, <3>1, <3>2 DEF TimerHeldInv
    <3>4. Kept(s)
      BY <3>3 DEF Kept, Present
    <3>5. rows'[s] = rows[s]
      BY <1>1, <2>2, <3>1, <3>2, <3>4, KeptRow
    <3>6. timers'[s].id \in {0, timers[s].id}
      BY <3>3, TimerOfReconnect
    <3> QED BY <2>2, <3>1, <3>3, <3>5, <3>6
  <2> QED BY <1>1, <2>0, <2>1, <2>2, WorkerSteps DEF WorkerStep, MovesOn, HasReserved, HasReturned
<1>2. ASSUME NEW w \in Worker, work'[w].step \in Reserved, work'[w].step # "exitedEarly",
             rows'[work'[w].session].generation = work'[w].generation,
             rows'[work'[w].session].state \in InFlight
      PROVE  timers'[work'[w].session].id \in {0, work'[w].timer}
  <2>1. CASE HasReserved(w)
    <3>1. PICK s \in Session : s = work[w].session /\ work'[w].session = s
                               /\ work'[w].timer = work[w].timer
      BY <2>1, ReserveEffect DEF HasReserved, Kin
    <3>2. ~LeavesLock(w, "failure")
      BY <2>1 DEF HasReserved, LeavesLock, Idle
    <3>3. work[w].step = "waiting" /\ rows[s].revision = work[w].revision
          /\ timers'[s] = IF work[w].attempt > 0 THEN timers[s] ELSE NoTimer
      BY <2>1, <3>1, <3>2, ReserveEffect DEF HasReserved, Reservable
    <3> QED BY <3>1, <3>3 DEF TimerHeldInv, NoTimer
  <2>2. CASE work'[w] = work[w] \/ MovesOn(w)
    <3>1. /\ work[w].step \in Reserved /\ work'[w].session = work[w].session
          /\ work'[w].generation = work[w].generation /\ work'[w].timer = work[w].timer
      BY <1>2, <2>2 DEF MovesOn, Kin
    <3>2. work[w].step # "exitedEarly"
      BY <1>2, EarlyLeaves
    <3>3. PICK s \in Session, g \in Nat : s = work[w].session /\ g = work[w].generation /\ g # 0
      BY <3>1, ReservedParts
    <3>4. rows[s].generation = g /\ ~New(s)
      BY <1>2, <3>1, <3>3, SeenStays DEF Seen, HandOf
    <3>5. rows[s].state # "connected"
      BY <3>1, <3>2, <3>3, <3>4 DEF AttemptRowInv
    <3>6. rows[s].state \in InFlight
      <4>1. ASSUME NEW v \in Worker, HasReserved(v) PROVE FALSE
        <5>1. Holds(v) /\ work[v].step = "waiting"
          BY <4>1, ReserveEffect DEF HasReserved
        <5>2. v = w
          BY <3>1, <5>1, Exclusion
        <5> QED BY <3>1, <5>1, <5>2 DEF Reserved
      <4> QED BY <1>2, <3>1, <3>3, <3>5, <4>1, StateComes
    <3>7. timers[s].id \in {0, work[w].timer}
      BY <3>1, <3>2, <3>3, <3>4, <3>6 DEF TimerHeldInv
    <3>8. timers'[s].id \in {0, timers[s].id}
      BY <3>5, TimerOfReconnect
    <3> QED BY <3>1, <3>3, <3>7, <3>8
  <2> QED BY <1>2, <2>1, <2>2, WorkerSteps DEF WorkerStep, Idle, HasReturned, HasStarted, Asked, Reserved
<1> QED BY <1>1, <1>2 DEF TimerHeldInv

-----------------------------------------------------------------------------
(* The budget of automatic attempts.                                         *)

\* Whatever starts, holds or ends an automatic attempt carries its number, and no
\* more attempts have been made than that.
DueInBudget == \A s \in Session :
    timers[s] # NoTimer /\ TimerIsCurrent(s) => spent[s] < timers[s].attempt
WaitInBudget == \A w \in Worker :
    LET a == work[w]  s == work[w].session IN
    a.step = "waiting" /\ a.attempt > 0 /\ rows[s].revision = a.revision => spent[s] < a.attempt
RunsInBudget == \A w \in Worker :
    LET a == work[w]  s == work[w].session IN
    /\ a # Idle /\ a.attempt > 0 /\ timers[s].id = a.timer => spent[s] <= a.attempt
    /\ a.step \in Reserved /\ rows[s].generation = a.generation => spent[s] <= a.attempt
EntryInBudget == \A s \in Session :
    /\ attempts[s].generation = rows[s].generation => spent[s] <= attempts[s].attempt
    /\ \A e \in exits : e.session = s /\ e.generation = rows[s].generation => spent[s] <= e.attempt
BudgetInv == DueInBudget /\ WaitInBudget /\ RunsInBudget /\ EntryInBudget /\ BudgetKept

\* An automatic attempt that is reserved now.
LEMMA ReservesBudget ==
    ASSUME TypeInv, TargetInv, SeenInv, TimerHeldInv, BudgetInv, [Next]_vars,
           NEW w \in Worker, Reserve(w), Reservable(w), work[w].attempt > 0
    PROVE  LET s == work[w].session IN
           /\ s \in Session /\ spent[s] \in Nat /\ spent[s] < work[w].attempt
           /\ work[w].attempt <= limit[s]
           /\ rows[s].state = "reconnecting" /\ timers[s].id \in {0, work[w].timer}
           /\ rows'[s].revision = rows[s].revision + 1 /\ rows[s].revision \in Nat
           /\ rows'[s].generation = rows[s].generation + 1 /\ rows[s].generation \in Nat
           /\ OthersKeep(w) /\ work'[w].step = "preparing" /\ work[w].step = "waiting"
           /\ timers' = timers /\ Holds(w)
<1>1. work[w].step = "waiting" /\ rows[work[w].session].revision = work[w].revision
      /\ work[w].session \in Session
  BY ReserveEffect DEF Reservable
<1>2. rows[work[w].session].state = "reconnecting"
      /\ timers[work[w].session].id \in {0, work[w].timer}
  BY <1>1 DEF TimerHeldInv
<1>3. spent[work[w].session] < work[w].attempt
  BY <1>1 DEF BudgetInv, WaitInBudget
<1>4. work[w].step # "idle" /\ work[w] # Idle
  BY <1>1 DEF Idle
<1>5. ShapeOK(work[w])
  BY <1>4 DEF TypeInv
<1>6. work[w].attempt <= limit[work[w].session]
  BY <1>5 DEF ShapeOK
<1>7. /\ rows'[work[w].session].revision = rows[work[w].session].revision + 1
      /\ rows'[work[w].session].generation = rows[work[w].session].generation + 1
      /\ OthersKeep(w) /\ work'[w].step = "preparing" /\ Holds(w)
  BY <1>2, ReserveEffect DEF LeavesLock
<1>8. timers' = timers
  BY DEF Reserve
<1>9. /\ spent[work[w].session] \in Nat /\ rows[work[w].session].revision \in Nat
      /\ rows[work[w].session].generation \in Nat
  BY <1>1, SessionParts DEF TypeInv
<1> QED BY <1>1, <1>2, <1>3, <1>6, <1>7, <1>8, <1>9

\* What stands at most where the count stood, or is counted up by w.
Counted(s, w) == /\ Reserve(w) /\ Reservable(w) /\ work[w].session = s /\ work[w].attempt > 0
                 /\ spent'[s] = spent[s] + 1

LEMMA CountSteps ==
    ASSUME TypeInv, [Next]_vars, NEW s \in Session
    PROVE  /\ spent[s] \in Nat /\ spent'[s] \in Nat /\ limit'[s] = limit[s]
           /\ spent'[s] <= spent[s] \/ \E w \in Worker : Counted(s, w)
           /\ spent'[s] \in {0, spent[s]} \/ \E w \in Worker : Counted(s, w)
<1>1. spent[s] \in Nat
  BY SessionParts DEF TypeInv
<1> QED BY <1>1, SpentSteps DEF Counted

LEMMA BudgetStands ==
    ASSUME TypeInv, TargetInv, SeenInv, TimerHeldInv, BudgetInv, [Next]_vars
    PROVE  BudgetKept'
<1> SUFFICES ASSUME NEW s \in Session PROVE spent'[s] <= limit'[s]
  BY DEF BudgetKept
<1>1. spent[s] <= limit[s] /\ limit[s] \in Nat /\ MaxAttempts \in Nat
  BY SessionParts, BoundAssumption DEF BudgetInv, BudgetKept, TypeInv
<1>2. ASSUME NEW w \in Worker, Counted(s, w) PROVE spent'[s] <= limit[s]
  <2>1. work[w].attempt \in Nat
    BY <1>2, ReserveEffect, WorkParts, BoundAssumption DEF Counted, TypeInv
  <2>2. spent[s] < work[w].attempt /\ work[w].attempt <= limit[s] /\ spent[s] \in Nat
    BY <1>2, ReservesBudget DEF Counted
  <2> QED BY <1>1, <1>2, <2>1, <2>2 DEF Counted
<1> QED BY <1>1, <1>2, CountSteps

\* The row and the timer stay, so the timer was current.
LEMMA CurrentBefore ==
    ASSUME TypeInv, TargetInv, RevInv, FreshInv, [Next]_vars, NEW s \in Session,
           timers'[s] # NoTimer, timers'[s] = timers[s], TimerIsCurrent(s)'
    PROVE  TimerIsCurrent(s) /\ rows'[s] = rows[s]
<1>1. timers[s] # NoTimer /\ ~New(s)
  BY DEF FreshInv, Fresh
<1>2. timers[s].revision \in Nat /\ timers[s].revision <= rows[s].revision
  BY <1>1, SessionParts DEF TypeInv, RevInv
<1>3. rows'[s].state = "reconnecting" /\ rows'[s].revision = timers[s].revision
      /\ rows'[s].generation = timers[s].generation
  BY DEF TimerIsCurrent
<1>4. rows'[s].revision = rows[s].revision
  BY <1>1, <1>2, <1>3, RowGrows
<1>5. rows'[s] = rows[s]
  <2>1. rows[s].revision \in Nat
    BY SessionParts DEF TypeInv
  <2>2. CASE Kept(s)
    BY <1>4, <2>1, <2>2, KeptRow
  <2>3. CASE ~Kept(s)
    BY <1>1, <1>3, <2>3, RowSteps DEF RowStep, Kept, Present, New
  <2> QED BY <2>2, <2>3
<1> QED BY <1>3, <1>5 DEF TimerIsCurrent

LEMMA DueKept ==
    ASSUME TypeInv, TargetInv, SeenInv, RevInv, FreshInv, TimerHeldInv, BudgetInv, [Next]_vars
    PROVE  DueInBudget'
<1> SUFFICES ASSUME NEW s \in Session, timers'[s] # NoTimer, TimerIsCurrent(s)'
             PROVE  spent'[s] < timers'[s].attempt
  BY DEF DueInBudget
<1>1. CASE timers'[s] = timers[s]
  <2>1. TimerIsCurrent(s) /\ rows'[s] = rows[s]
    BY <1>1, CurrentBefore
  <2>2. spent[s] < timers[s].attempt /\ timers[s].attempt \in Nat
    BY <1>1, <2>1, SessionParts, BoundAssumption DEF BudgetInv, DueInBudget, TypeInv
  <2>3. ASSUME NEW w \in Worker, Counted(s, w) PROVE FALSE
    BY <2>1, <2>3, ReservesBudget DEF Counted
  <2> QED BY <1>1, <2>2, <2>3, CountSteps
<1>2. CASE IsDue(s)
  <2>1. spent'[s] = spent[s] /\ timers'[s].attempt = timers[s].attempt
        /\ timers[s] # NoTimer /\ TimerIsCurrent(s)
    BY <1>2 DEF IsDue
  <2> QED BY <2>1 DEF BudgetInv, DueInBudget
<1>3. CASE IsSetByExit(s)
  <2>1. rows'[s].state = "reconnecting" /\ rows[s].state = "connected"
    BY <1>3 DEF IsSetByExit
  <2>2. RowCause(s)
    BY <2>1, RowCauses
  <2>3. ExitNow(s)
    <3>1. ASSUME NEW w \in Worker, work[w].session = s,
                 (Reserve(w) /\ Reservable(w)) \/ Completed(w) \/ RecordFailure(w) \/ Returned(w)
          PROVE  FALSE
      <4>1. CASE Reserve(w) /\ Reservable(w)
        BY <2>1, <3>1, <4>1 DEF Reservable, Startable
      <4>2. CASE Completed(w)
        BY <2>1, <3>1, <4>2, CompletedEffect DEF CompletionApplies, InFlight
      <4>3. CASE RecordFailure(w)
        BY <2>1, <3>1, <4>3, RecordFailureEffect DEF CompletionApplies, InFlight
      <4>4. CASE Returned(w)
        BY <2>1, <3>1, <4>4, ReturnedEffect DEF RowsKeep
      <4> QED BY <3>1, <4>1, <4>2, <4>3, <4>4
    <3>2. ~Prepare(s) /\ ~Detach(s) /\ ~Close(s)
      BY <2>1, PrepareEffect, ReleaseEffect
    <3>3. ~(UpkeepStarts /\ upkeep.kind = "delete") /\ ~FinishDeletion /\ ~CommitReplacement
      <4>1. CASE UpkeepStarts
        BY <2>1, <4>1, UpkeepStartsEffect DEF durable
      <4>2. CASE FinishDeletion \/ CommitReplacement
        BY <2>1, <4>2, FinishDeletionEffect, CommitReplacementEffect DEF Present
      <4> QED BY <4>1, <4>2
    <3>4. ~Restart
      BY <2>1, RestartEffect
    <3> QED BY <2>2, <3>1, <3>2, <3>3, <3>4 DEF RowCause
  <2>4. PICK n \in 0 .. MaxAttempts : RecordExit(s, rows[s].generation, n) /\ spent[s] <= n
    <3>1. ASSUME NEW e \in exits, e.session = s, e.generation = rows[s].generation
          PROVE  spent[s] <= e.attempt
      BY <3>1 DEF BudgetInv, EntryInBudget
    <3>2. ASSUME NEW w \in Worker, RecordEarlyExit(w), work[w].session = s,
                 work[w].generation = rows[s].generation
          PROVE  spent[s] <= work[w].attempt
      BY <3>2, RecordEarlyExitEffect DEF BudgetInv, RunsInBudget, Reserved
    <3> QED BY <2>3, <3>1, <3>2 DEF ExitNow
  <2>5. rows[s].generation \in Nat
    BY SessionParts DEF TypeInv
  <2>6. timers'[s].id # 0 /\ NoTimer.id = 0
    BY <1>3, FreshIdFacts DEF IsSetByExit, TimerId, NoTimer, TypeInv
  <2>7. timers'[s] # timers[s]
    <3>1. timers'[s].revision = rows'[s].revision
      BY <1>3 DEF IsSetByExit
    <3>2. timers[s] # NoTimer => timers[s].revision <= rows[s].revision /\ timers[s].revision \in Nat
      BY SessionParts DEF RevInv, TypeInv
    <3>3. rows[s].revision \in Nat /\ rows'[s].revision \in Nat
      BY SessionParts, TypesKept DEF TypeInv, TypeOK, Row
    <3>4. rows'[s].revision > rows[s].revision
      BY <2>1, <2>4, <2>5, RecordExitFacts DEF TypeInv
    <3>5. CASE timers'[s] = timers[s]
      BY <3>1, <3>2, <3>3, <3>4, <3>5
    <3> QED BY <3>5
  <2> QED BY <2>1, <2>4, <2>5, <2>7, RecordExitFacts DEF TypeInv
<1>4. CASE IsSetAgain(s)
  <2>1. PICK w \in Worker : /\ work[w].step = "returned" /\ work[w].session = s
                            /\ timers[s].id = work[w].timer /\ timers[s] # NoTimer
                            /\ spent' = spent /\ timers'[s].attempt = work[w].attempt + 1
    BY <1>4 DEF IsSetAgain
  <2>2. work[w] # Idle /\ work[w].attempt \in Nat /\ work[w].step # "idle"
    BY <2>1, WorkParts, BoundAssumption DEF Idle, TypeInv
  <2>3. ShapeOK(work[w])
    BY <2>2 DEF TypeInv
  <2>4. work[w].attempt > 0
    BY <2>1, <2>2, <2>3 DEF ShapeOK
  <2>5. spent[s] <= work[w].attempt /\ spent[s] \in Nat
    BY <2>1, <2>2, <2>4, SessionParts DEF BudgetInv, RunsInBudget, TypeInv
  <2> QED BY <2>1, <2>2, <2>5
<1> QED BY <1>1, <1>2, <1>3, <1>4, TimerSteps DEF TimerStep

LEMMA WaitKept ==
    ASSUME TypeInv, TargetInv, SeenInv, RevInv, FreshInv, TimerHeldInv, BudgetInv, [Next]_vars
    PROVE  WaitInBudget'
<1> SUFFICES ASSUME NEW w \in Worker, work'[w].step = "waiting", work'[w].attempt > 0,
                    rows'[work'[w].session].revision = work'[w].revision
             PROVE  spent'[work'[w].session] < work'[w].attempt
  BY DEF WaitInBudget
<1>0. Idle.step = "idle" /\ "waiting" \notin Reserved /\ work'[w] # Idle
  BY DEF Idle, Reserved
<1>1. CASE HasStarted(w)
  <2>1. PICK s \in Session :
          /\ timers[s] # NoTimer /\ TimerIsCurrent(s)
          /\ work'[w].session = s /\ work'[w].attempt = timers[s].attempt
    BY <1>1 DEF HasStarted, Asked
  <2>2. spent[s] < timers[s].attempt /\ timers[s].attempt \in Nat
    BY <2>1, SessionParts, BoundAssumption DEF BudgetInv, DueInBudget, TypeInv
  <2>3. ASSUME NEW v \in Worker, Counted(s, v) PROVE FALSE
    <3>1. OthersKeep(v) /\ work[v].step = "waiting" /\ work'[v].step = "preparing"
      BY <2>3, ReservesBudget DEF Counted
    <3>2. work[w] = Idle
      BY <1>1 DEF HasStarted
    <3> QED BY <1>0, <3>1, <3>2 DEF OthersKeep
  <2> QED BY <2>1, <2>2, <2>3, CountSteps
<1>2. CASE work'[w] = work[w]
  <2>1. PICK s \in Session : s = work[w].session /\ ~New(s) /\ work[w].revision \in Nat
                             /\ work[w].revision <= rows[s].revision /\ work[w].attempt \in Nat
    <3>1. work[w].step # "idle" /\ work[w] # Idle
      BY <1>0, <1>2
    <3>2. work[w].session \in Session /\ work[w].revision \in Nat /\ work[w].attempt \in Nat
      BY <3>1, WorkParts, BoundAssumption DEF TypeInv
    <3> QED BY <3>1, <3>2 DEF FreshInv, Fresh, Of, RevInv
  <2>2. rows[s].revision = work[w].revision /\ rows'[s].revision = rows[s].revision
    BY <1>2, <2>1, RowGrows
  <2>3. spent[s] < work[w].attempt
    BY <1>2, <2>1, <2>2 DEF BudgetInv, WaitInBudget
  <2>4. ASSUME NEW v \in Worker, Counted(s, v) PROVE FALSE
    BY <2>2, <2>4, ReservesBudget DEF Counted
  <2> QED BY <1>2, <2>1, <2>3, <2>4, CountSteps
<1> QED BY <1>0, <1>1, <1>2, WorkerSteps DEF WorkerStep, MovesOn, HasReserved, HasReturned

LEMMA RunsKept ==
    ASSUME TypeInv, TargetInv, SeenInv, RevInv, FreshInv, AttemptRowInv, TimerIdInv, TimerHeldInv,
           BudgetInv, [Next]_vars
    PROVE  RunsInBudget'
<1>0. Idle.step = "idle" /\ "waiting" \notin Reserved /\ "idle" \notin Reserved
  BY DEF Idle, Reserved
<1>1. ASSUME NEW w \in Worker, work'[w] # Idle, work'[w].attempt > 0,
             timers'[work'[w].session].id = work'[w].timer
      PROVE  spent'[work'[w].session] <= work'[w].attempt
  <2>1. CASE HasStarted(w)
    <3>1. work'[w].step = "waiting"
      BY <2>1 DEF HasStarted, Asked
    <3>2. PICK s \in Session :
            /\ timers[s] # NoTimer /\ TimerIsCurrent(s)
            /\ work'[w].session = s /\ work'[w].attempt = timers[s].attempt
      BY <1>1, <2>1 DEF HasStarted, Asked
    <3>3. spent[s] < timers[s].attempt /\ timers[s].attempt \in Nat
      BY <3>2, SessionParts, BoundAssumption DEF BudgetInv, DueInBudget, TypeInv
    <3>4. ASSUME NEW v \in Worker, Counted(s, v) PROVE FALSE
      <4>1. OthersKeep(v) /\ work[v].step = "waiting"
        BY <3>4, ReservesBudget DEF Counted
      <4>2. work[w] = Idle
        BY <2>1 DEF HasStarted
      <4> QED BY <1>0, <1>1, <4>1, <4>2 DEF OthersKeep
    <3> QED BY <3>2, <3>3, <3>4, CountSteps
  <2>2. CASE ~HasStarted(w)
    <3>1. PICK s \in Session :
            /\ s = work[w].session /\ work[w] # Idle /\ work'[w].session = s
            /\ work'[w].attempt = work[w].attempt /\ work'[w].timer = work[w].timer
            /\ work[w].attempt \in Nat /\ work[w].timer # 0
      BY <1>1, <2>2, WasThere, BoundAssumption
    <3>2. timers[s].id = work[w].timer
      <4>1. timers'[s].id # 0 /\ NoTimer.id = 0
        BY <1>1, <3>1 DEF NoTimer
      <4>2. CASE IsSetByExit(s)
        BY <1>1, <3>1, <4>2, FreshIdFacts DEF IsSetByExit, Of, TypeInv
      <4>3. CASE timers'[s].id = timers[s].id
        BY <1>1, <3>1, <4>3
      <4> QED BY <4>1, <4>2, <4>3, TimerSteps DEF TimerStep, IsDue, IsSetAgain
    <3>3. spent[s] <= work[w].attempt
      BY <1>1, <3>1, <3>2 DEF BudgetInv, RunsInBudget
    <3>4. ASSUME NEW v \in Worker, Counted(s, v) PROVE spent'[s] <= work[w].attempt
      <4>1. /\ spent[s] < work[v].attempt /\ timers[s].id \in {0, work[v].timer}
            /\ work[v].step = "waiting" /\ work[v].session = s /\ spent'[s] = spent[s] + 1
            /\ spent[s] \in Nat
        BY <3>4, ReservesBudget DEF Counted
      <4>2. work[v].timer = work[w].timer /\ work[v] # Idle
        BY <1>0, <3>1, <3>2, <4>1
      <4>3. v = w
        BY <3>1, <4>1, <4>2 DEF TimerIdInv
      <4> QED BY <3>1, <4>1, <4>3
    <3> QED BY <3>1, <3>3, <3>4, CountSteps
  <2> QED BY <2>1, <2>2
<1>2. ASSUME NEW w \in Worker, work'[w].step \in Reserved,
             rows'[work'[w].session].generation = work'[w].generation
      PROVE  spent'[work'[w].session] <= work'[w].attempt
  <2>1. CASE HasReserved(w)
    <3>1. PICK s \in Session : s = work[w].session /\ work'[w].session = s
                               /\ work'[w].attempt = work[w].attempt /\ work[w].attempt \in Nat
      <4>1. work[w].step = "waiting" /\ Kin(work'[w], work[w])
        BY <2>1 DEF HasReserved
      <4>2. work[w].session \in Session /\ work[w].attempt \in Nat
        BY <4>1, WorkParts, BoundAssumption DEF TypeInv
      <4> QED BY <4>1, <4>2 DEF Kin
    <3>2. Reserve(w) /\ Reservable(w)
      BY <2>1 DEF HasReserved
    <3>3. ~LeavesLock(w, "failure")
      BY <2>1 DEF HasReserved, LeavesLock, Idle
    <3>4. spent'[s] = IF work[w].attempt > 0 THEN spent[s] + 1 ELSE 0
      BY <3>1, <3>2, <3>3, ReserveEffect
    <3>5. CASE work[w].attempt > 0
      <4>1. spent[s] < work[w].attempt /\ spent[s] \in Nat
        BY <3>1, <3>2, <3>5, ReservesBudget
      <4> QED BY <3>1, <3>4, <3>5, <4>1
    <3> QED BY <3>1, <3>4, <3>5
  <2>2. CASE work'[w] = work[w] \/ MovesOn(w)
    <3>1. /\ work[w].step \in Reserved /\ work'[w].session = work[w].session
          /\ work'[w].generation = work[w].generation /\ work'[w].attempt = work[w].attempt
      BY <1>2, <2>2 DEF MovesOn, Kin
    <3>2. PICK s \in Session, g \in Nat : /\ s = work[w].session /\ g = work[w].generation /\ g # 0
                                          /\ work[w].attempt \in Nat
      BY <3>1, ReservedParts
    <3>3. rows[s].generation = g
      BY <1>2, <3>1, <3>2, SeenStays DEF Seen, HandOf
    <3>4. spent[s] <= work[w].attempt
      BY <3>1, <3>2, <3>3 DEF BudgetInv, RunsInBudget
    <3>5. ASSUME NEW v \in Worker, Counted(s, v) PROVE FALSE
      <4>1. Holds(v) /\ work[v].step = "waiting"
        BY <3>5, ReservesBudget DEF Counted
      <4>2. v = w
        BY <3>1, <4>1, Exclusion
      <4> QED BY <1>0, <3>1, <4>1, <4>2
    <3> QED BY <3>1, <3>2, <3>4, <3>5, CountSteps
  <2> QED BY <1>0, <1>2, <2>1, <2>2, WorkerSteps DEF WorkerStep, HasReturned, HasStarted, Asked, Reserved
<1> QED BY <1>1, <1>2 DEF RunsInBudget

LEMMA EntryBudgetKept ==
    ASSUME TypeInv, TargetInv, SeenInv, TimerHeldInv, BudgetInv, [Next]_vars
    PROVE  EntryInBudget'
<1>1. ASSUME NEW s \in Session, NEW g \in Nat, g # 0, Seen(s, g), rows'[s].generation = g
      PROVE  rows[s].generation = g /\ spent'[s] <= spent[s] /\ spent[s] \in Nat /\ spent'[s] \in Nat
  <2>1. rows[s].generation = g
    BY <1>1, SeenStays
  <2>2. ASSUME NEW v \in Worker, Counted(s, v) PROVE FALSE
    BY <1>1, <2>1, <2>2, ReservesBudget DEF Counted
  <2> QED BY <2>1, <2>2, CountSteps
<1>2. ASSUME NEW s \in Session, attempts'[s].generation = rows'[s].generation
      PROVE  spent'[s] <= attempts'[s].attempt
  <2>1. PICK g \in Nat : g = rows'[s].generation /\ g # 0
    <3>1. rows' \in [Session -> Row]
      BY TypesKept DEF TypeInv, TypeOK
    <3>2. rows'[s] \in Row
      BY <3>1
    <3>3. rows'[s].generation \in Generation
      BY <3>2 DEF Row
    <3> QED BY <3>3 DEF Generation
  <2>2. CASE attempts'[s] = attempts[s]
    <3>1. Seen(s, g) /\ attempts[s] # NoAttempt
      BY <1>2, <2>1, <2>2 DEF Seen, Owns, NoAttempt
    <3>2. attempts[s].attempt \in Nat
      BY <3>1, SessionParts, BoundAssumption DEF TypeInv
    <3>3. spent[s] <= attempts[s].attempt
      BY <1>1, <1>2, <2>1, <2>2, <3>1 DEF BudgetInv, EntryInBudget
    <3> QED BY <1>1, <2>1, <2>2, <3>1, <3>2, <3>3
  <2>3. CASE attempts'[s] = NoAttempt
    BY <1>2, <2>1, <2>3 DEF NoAttempt
  <2>4. ASSUME NEW w \in Worker, Prepared(w), work[w].session = s,
               attempts'[s].generation = work[w].generation, attempts'[s].attempt = work[w].attempt
        PROVE  spent'[s] <= attempts'[s].attempt
    <3>1. work[w].step \in Reserved
      BY <2>4, PreparedEffect DEF Reserved
    <3>2. Seen(s, g) /\ work[w].attempt \in Nat
      BY <1>2, <2>1, <2>4, <3>1, ReservedParts DEF Seen, HandOf
    <3>3. spent[s] <= work[w].attempt
      BY <1>1, <1>2, <2>1, <2>4, <3>1, <3>2 DEF BudgetInv, RunsInBudget
    <3> QED BY <1>1, <2>1, <2>4, <3>2, <3>3
  <2>5. CASE attempts'[s].generation = attempts[s].generation
             /\ attempts'[s].attempt = attempts[s].attempt
    <3>1. Seen(s, g) /\ attempts[s] # NoAttempt
      BY <1>2, <2>1, <2>5 DEF Seen, Owns, NoAttempt
    <3>2. attempts[s].attempt \in Nat
      BY <3>1, SessionParts, BoundAssumption DEF TypeInv
    <3>3. spent[s] <= attempts[s].attempt
      BY <1>1, <1>2, <2>1, <2>5, <3>1 DEF BudgetInv, EntryInBudget
    <3> QED BY <1>1, <2>1, <2>5, <3>1, <3>2, <3>3
  <2> QED BY <2>2, <2>3, <2>4, <2>5, EntrySteps
<1>3. ASSUME NEW f \in exits', f.generation = rows'[f.session].generation
      PROVE  spent'[f.session] <= f.attempt
  <2>1. PICK s \in Session, g \in Nat : s = f.session /\ g = f.generation /\ g # 0
    BY TypesKept DEF TypeInv, TypeOK, Exit, Generation
  <2>2. ASSUME NEW e \in exits, e.session = s, e.generation = g, e.attempt = f.attempt
        PROVE  spent'[s] <= f.attempt
    <3>0. e.attempt \in Nat
      <4>1. e.attempt \in 0 .. MaxAttempts
        BY <2>2 DEF TypeInv, TypeOK, Exit
      <4> QED BY <4>1, BoundAssumption
    <3>1. Seen(s, g)
      BY <2>2 DEF Seen, ExitOf
    <3>2. spent[s] <= e.attempt
      BY <1>1, <1>3, <2>1, <2>2, <3>1 DEF BudgetInv, EntryInBudget
    <3> QED BY <1>1, <1>3, <2>1, <2>2, <3>0, <3>1, <3>2
  <2>3. CASE Owns(s, g) /\ f.attempt = attempts[s].attempt
    <3>1. Seen(s, g) /\ attempts[s].attempt \in Nat
      BY <2>1, <2>3, SessionParts, BoundAssumption DEF Seen, Owns, NoAttempt, TypeInv
    <3>2. spent[s] <= attempts[s].attempt
      BY <1>1, <1>3, <2>1, <2>3, <3>1 DEF BudgetInv, EntryInBudget, Owns
    <3> QED BY <1>1, <1>3, <2>1, <2>3, <3>1, <3>2
  <2> QED BY <2>1, <2>2, <2>3, ExitBefore
<1> QED BY <1>2, <1>3 DEF EntryInBudget

LEMMA BudgetInvKept ==
    ASSUME TypeInv, TargetInv, SeenInv, RevInv, FreshInv, AttemptRowInv, TimerIdInv, TimerHeldInv,
           BudgetInv, [Next]_vars
    PROVE  BudgetInv'
<1>1. DueInBudget' /\ WaitInBudget' /\ RunsInBudget' /\ EntryInBudget' /\ BudgetKept'
  BY DueKept, WaitKept, RunsKept, EntryBudgetKept, BudgetStands
<1> QED BY <1>1 DEF BudgetInv

TimedInv == LiveInv /\ TimerIdInv /\ TimerHeldInv /\ BudgetInv

LEMMA TimedHolds == Spec => []TimedInv
<1> DEFINE Rest == TimerIdInv /\ TimerHeldInv /\ BudgetInv
<1>1. Init => Rest
  <2> SUFFICES ASSUME Init PROVE Rest
    OBVIOUS
  <2>1. \A w \in Worker : work[w] = Idle /\ work[w].step = "idle"
    BY DEF Init, Idle
  <2>2. /\ \A s \in Session : /\ timers[s] = NoTimer /\ spent[s] = 0 /\ attempts[s] = NoAttempt
                              /\ limit[s] \in Nat /\ rows[s].generation = 1
        /\ exits = {}
    BY BoundAssumption DEF Init
  <2>3. TimerIdInv
    BY <2>1, <2>2 DEF TimerIdInv, Of
  <2>4. TimerHeldInv
    BY <2>1 DEF TimerHeldInv, Reserved
  <2>5. DueInBudget /\ WaitInBudget /\ BudgetKept
    BY <2>1, <2>2 DEF DueInBudget, WaitInBudget, BudgetKept
  <2>6. RunsInBudget
    BY <2>1 DEF RunsInBudget, Reserved
  <2>7. EntryInBudget
    <3>1. NoAttempt.generation = 0
      BY DEF NoAttempt
    <3> QED BY <2>2, <3>1 DEF EntryInBudget
  <2> QED BY <2>3, <2>4, <2>5, <2>6, <2>7 DEF BudgetInv
<1>2. LiveInv /\ Rest /\ [Next]_vars => Rest'
  <2> SUFFICES ASSUME LiveInv, Rest, [Next]_vars PROVE Rest'
    OBVIOUS
  <2>1. TimerIdInv' /\ TimerHeldInv' /\ BudgetInv'
    BY TimerIdKept, TimerHeldKept, BudgetInvKept DEF LiveInv, CoreInv
  <2> QED BY <2>1
<1>3. LiveInv /\ Rest => TimedInv
  BY DEF TimedInv
<1> HIDE DEF Rest
<1> QED BY <1>1, <1>2, <1>3, LiveHolds, PTL DEF Spec

\* No more automatic attempts are made in a row than the session allows, however
\* often its transport connects for a moment and exits.
THEOREM RetriesBounded == Spec => []BudgetKept
<1>1. TimedInv => BudgetKept
  BY DEF TimedInv, BudgetInv
<1> QED BY <1>1, TimedHolds, PTL

-----------------------------------------------------------------------------
(* A session that is left keeps nothing.                                     *)

\* Which step gives a session another generation.
LEMMA GenerationCauses ==
    ASSUME TypeInv, [Next]_vars, NEW s \in Session, rows'[s].generation # rows[s].generation
    PROVE  \/ Prepare(s) \/ CommitReplacement \/ Restart
           \/ \E w \in Worker : /\ Reserve(w) /\ Reservable(w) /\ work[w].session = s
                                /\ rows[s].state \in {"detached", "reconnecting"}
<1>1. rows[s].generation \in Nat /\ RowCause(s)
  BY SessionParts, RowCauses DEF TypeInv
<1>2. ~(Detach(s) \/ Close(s))
  BY ReleaseEffect
<1>3. ~ExitNow(s)
  BY <1>1, RecordExitFacts DEF ExitNow, TypeInv
<1>4. ASSUME NEW w \in Worker, work[w].session = s, Completed(w) \/ RecordFailure(w) \/ Returned(w)
      PROVE  FALSE
  BY <1>4, CompletedEffect, RecordFailureEffect, ReturnedEffect
<1>5. ASSUME NEW w \in Worker, Reserve(w), Reservable(w), work[w].session = s
      PROVE  rows[s].state \in {"detached", "reconnecting"}
  BY <1>5, ReserveEffect
<1>6. ~(UpkeepStarts \/ FinishDeletion)
  BY UpkeepStartsEffect, FinishDeletionEffect
<1> QED BY <1>1, <1>2, <1>3, <1>4, <1>5, <1>6 DEF RowCause

\* A target that is deleted, or being deleted, stays that way.
Deleting == target.deleting \/ target.hostKey = "deleted"

LEMMA DeletingStays ==
    ASSUME TypeInv, TargetInv, [Next]_vars, Deleting
    PROVE  Deleting'
<1>1. ASSUME NEW s \in Session, DecideHostKey(s) PROVE target.deleting /\ target'.deleting
  BY <1>1, DecideHostKeyEffect DEF Deleting, TargetInv
<1>2. ASSUME NEW w \in Worker, MarkHostKeyChanged(w) PROVE target.deleting /\ target'.deleting
  BY <1>2, MarkHostKeyChangedEffect DEF Deleting
<1>3. CASE BeginReplacement \/ AbortReplacement
  BY <1>3, EnrollingEffect DEF Deleting
<1>4. CASE UpkeepStarts
  BY <1>4, UpkeepStartsEffect DEF Deleting, durable
<1>5. CASE FinishDeletion
  BY <1>5, FinishDeletionEffect DEF Deleting
<1>6. CASE CommitReplacement
  BY <1>6, CommitReplacementEffect DEF Deleting
<1>7. CASE Restart
  BY <1>7, RestartEffect DEF Deleting
<1>8. CASE target' = target
  BY <1>8 DEF Deleting
<1>9. ASSUME NEW kind \in {"delete", "replace"}, RequestUpkeep(kind) PROVE target' = target
  BY <1>9 DEF RequestUpkeep, durable
<1>10. ASSUME NEW t \in upkeep.todo, RevokesNext(t) PROVE target' = target
  BY <1>10 DEF RevokesNext, durable
<1>11. CASE UpkeepFails
  BY <1>8, <1>11 DEF UpkeepFails, durable
<1> QED BY <1>1, <1>2, <1>3, <1>4, <1>5, <1>6, <1>7, <1>8, <1>9, <1>10, <1>11, TargetCases
        DEF Deleting

\* A deleted target has no replacement.
DeletedInv == target.hostKey = "deleted" => target.enrolling = 0

LEMMA DeletedKept ==
    ASSUME TypeInv, TargetInv, DeletedInv, [Next]_vars
    PROVE  DeletedInv'
<1> SUFFICES ASSUME target'.hostKey = "deleted" PROVE target'.enrolling = 0
  BY DEF DeletedInv
<1>1. ASSUME NEW s \in Session, DecideHostKey(s) PROVE target'.enrolling = 0
  BY <1>1, DecideHostKeyEffect DEF TargetInv
<1>2. ASSUME NEW w \in Worker, MarkHostKeyChanged(w) PROVE FALSE
  BY <1>2, MarkHostKeyChangedEffect
<1>3. CASE BeginReplacement
  BY <1>3, EnrollingEffect DEF BeginReplacement
<1>4. CASE AbortReplacement
  <2>1. target' = [target EXCEPT !.enrolling = 0] /\ target \in Target
    BY <1>4 DEF AbortReplacement, TypeInv, TypeOK
  <2> QED BY <2>1 DEF Target
<1>5. CASE UpkeepStarts
  BY <1>5, UpkeepStartsEffect DEF DeletedInv
<1>6. CASE FinishDeletion
  <2>1. upkeep.step = "revoking" /\ upkeep.kind = "delete"
    BY <1>6 DEF FinishDeletion, RevokedAll
  <2> QED BY <1>6, <2>1, FinishDeletionEffect DEF TargetInv
<1>7. CASE CommitReplacement \/ Restart
  BY <1>7, CommitReplacementEffect, RestartEffect DEF DeletedInv
<1>8. CASE target' = target
  BY <1>8 DEF DeletedInv
<1>9. ASSUME NEW kind \in {"delete", "replace"}, RequestUpkeep(kind) PROVE target' = target
  BY <1>9 DEF RequestUpkeep, durable
<1>10. ASSUME NEW t \in upkeep.todo, RevokesNext(t) PROVE target' = target
  BY <1>10 DEF RevokesNext, durable
<1>11. CASE UpkeepFails
  BY <1>8, <1>11 DEF UpkeepFails, durable
<1> QED BY <1>1, <1>2, <1>3, <1>4, <1>5, <1>6, <1>7, <1>8, <1>9, <1>10, <1>11, TargetCases

\* A live entry is of the generation the row has; the row says connected, or an
\* attempt is about to say so, or the target is going.
EntryRowInv == \A s \in Session : Live(s) =>
    /\ attempts[s].generation = rows[s].generation
    /\ \/ rows[s].state = "connected" \/ Deleting
       \/ /\ rows[s].state \in InFlight
          /\ \E w \in Worker : /\ work[w].step = "completing" /\ work[w].session = s
                               /\ work[w].generation = rows[s].generation
\* A replacement has yet to revoke whatever is live.
ReplacingInv == upkeep.step = "revoking" /\ upkeep.kind = "replace" =>
    \A s \in Session : Live(s) => <<s, attempts[s].generation>> \in upkeep.todo
DetachedInv == \A s \in Session : rows[s].state = "detached" => timers[s] = NoTimer

LEMMA LiveBefore ==
    ASSUME TypeInv, [Next]_vars, NEW s \in Session, Live(s)'
    PROVE  \/ Live(s) /\ attempts'[s] = attempts[s]
           \/ \E w \in Worker : /\ LaunchReturns(w) /\ Launched(w) /\ work[w].session = s
                                /\ Stays(w, "completing")
                                /\ attempts'[s].generation = work[w].generation
  BY EntrySteps DEF Live

LEMMA CompletingLeaves ==
    ASSUME TypeInv, [Next]_vars, NEW x \in Worker, work[x].step = "completing",
           work'[x].step # "completing"
    PROVE  Completed(x) \/ CompletionFails(x) \/ Restart
<1>1. CASE Activates(x)
  BY <1>1 DEF Activates, Reserve, Prepared, PreparationFails, Spawn, SpawnFails,
     LaunchReturns, RecordEarlyExit, MarkHostKeyChanged, RecordFailure, Returned, Waits
<1>2. work[x] # Idle
  BY DEF Idle
<1> QED BY <1>1, <1>2, WorkCauses

\* While its entry is live, no exit of the generation is recorded, and it is not
\* released.
LEMMA NotWhileLive ==
    ASSUME TypeInv, ConnInv, NEW s \in Session, attempts[s].generation = rows[s].generation,
           attempts'[s] = attempts[s], attempts[s] # NoAttempt
    PROVE  ~ExitNow(s) /\ ~Detach(s) /\ ~Close(s) /\ ~Restart
<1>1. rows[s].generation \in Nat /\ rows[s].generation # 0 /\ Owns(s, rows[s].generation)
  BY SessionParts DEF TypeInv, Owns
<1>2. ~ExitNow(s)
  <2>1. ASSUME NEW e \in exits, e.session = s, e.generation = rows[s].generation PROVE FALSE
    BY <1>1, <2>1 DEF ConnInv, ExitInv
  <2>2. ASSUME NEW w \in Worker, RecordEarlyExit(w), work[w].session = s,
               work[w].generation = rows[s].generation
        PROVE  FALSE
    BY <1>1, <2>2, RecordEarlyExitEffect DEF ConnInv, ExitedInv
  <2> QED BY <2>1, <2>2 DEF ExitNow
<1>3. ~(Detach(s) \/ Close(s))
  <2>1. ASSUME Terminate(s, rows[s].generation) PROVE attempts'[s] = NoAttempt
    BY <1>1, <2>1, TerminateFacts DEF TypeInv
  <2> QED BY <2>1, ReleaseEffect
<1>4. ~Restart
  BY RestartEffect
<1> QED BY <1>2, <1>3, <1>4

LEMMA EntryRowKept ==
    ASSUME TypeInv, TargetInv, SeenInv, ConnInv, TimerIdInv, TimerHeldInv, DeletedInv,
           EntryRowInv, ReplacingInv, [Next]_vars
    PROVE  EntryRowInv'
<1> SUFFICES ASSUME NEW s \in Session, Live(s)'
             PROVE  /\ attempts'[s].generation = rows'[s].generation
                    /\ \/ rows'[s].state = "connected" \/ Deleting'
                       \/ /\ rows'[s].state \in InFlight
                          /\ \E w \in Worker : /\ work'[w].step = "completing" /\ work'[w].session = s
                                               /\ work'[w].generation = rows'[s].generation
  BY DEF EntryRowInv
<1>1. ASSUME NEW w \in Worker, LaunchReturns(w), Launched(w), work[w].session = s,
             Stays(w, "completing"), attempts'[s].generation = work[w].generation
      PROVE  /\ attempts'[s].generation = rows'[s].generation
             /\ rows'[s].state \in InFlight
             /\ work'[w].step = "completing" /\ work'[w].session = s
             /\ work'[w].generation = rows'[s].generation
  <2>1. rows' = rows /\ work[w].step \in Reserved
    BY <1>1 DEF LaunchReturns, durable, Waits, Reserved
  <2>2. rows[s].state = work[w].state /\ rows[s].generation = work[w].generation
    BY <1>1 DEF Launched, IsCurrent
  <2> QED BY <1>1, <2>1, <2>2, ReservedParts DEF Stays, Kin
<1>2. ASSUME Live(s), attempts'[s] = attempts[s]
      PROVE  /\ attempts'[s].generation = rows'[s].generation
             /\ \/ rows'[s].state = "connected" \/ Deleting'
                \/ /\ rows'[s].state \in InFlight
                   /\ \E w \in Worker : /\ work'[w].step = "completing" /\ work'[w].session = s
                                        /\ work'[w].generation = rows'[s].generation
  <2>1. PICK g \in Nat : /\ g = rows[s].generation /\ g # 0 /\ attempts[s].generation = g
                         /\ attempts[s] # NoAttempt
    BY <1>2, SessionParts DEF TypeInv, EntryRowInv, Live
  <2>2. ~Fresh(s)
    BY <2>1 DEF SeenInv, Seen, Owns, Generation
  <2>3. ~ExitNow(s) /\ ~Detach(s) /\ ~Close(s) /\ ~Restart
    BY <1>2, <2>1, NotWhileLive
  <2>4. ~Prepare(s)
    BY <2>2, PrepareEffect DEF Fresh, New
  <2>5. ~CommitReplacement
    <3>1. ASSUME CommitReplacement PROVE FALSE
      BY <1>2, <3>1, CommitReplacementEffect DEF ReplacingInv
    <3> QED BY <3>1
  <2>6. ASSUME NEW w \in Worker, Reserve(w), Reservable(w), work[w].session = s,
               rows[s].state \in {"detached", "reconnecting"}
        PROVE  FALSE
    <3>1. ~Deleting
      BY <2>6 DEF Reservable, Deleting
    <3>2. PICK v \in Worker : work[v].step = "completing"
      BY <1>2, <2>6, <3>1 DEF EntryRowInv, InFlight
    <3>3. Holds(w) /\ work[w].step = "waiting"
      BY <2>6, ReserveEffect
    <3> QED BY <3>2, <3>3, Exclusion DEF Reserved
  <2>7. rows'[s].generation = g
    BY <2>1, <2>3, <2>4, <2>5, <2>6, GenerationCauses
  <2>8. CASE Deleting
    BY <2>1, <1>2, <2>7, <2>8, DeletingStays
  <2>9. CASE rows[s].state = "connected" /\ ~Deleting
    <3>1. CASE rows'[s].state = "connected"
      BY <1>2, <2>1, <2>7, <3>1
    <3>2. CASE rows'[s].state # "connected"
      <4>1. ASSUME NEW w \in Worker, work[w].session = s,
                   (Reserve(w) /\ Reservable(w)) \/ Completed(w) \/ RecordFailure(w) \/ Returned(w)
            PROVE  FALSE
        <5>1. CASE Reserve(w) /\ Reservable(w)
          BY <2>9, <4>1, <5>1 DEF Reservable, Startable
        <5>2. CASE Completed(w)
          BY <3>2, <4>1, <5>2, CompletedEffect
        <5>3. CASE RecordFailure(w)
          BY <2>9, <3>2, <4>1, <5>3, RecordFailureEffect DEF CompletionApplies, InFlight
        <5>4. CASE Returned(w)
          BY <2>9, <3>2, <4>1, <5>4, ReturnedEffect
        <5> QED BY <4>1, <5>1, <5>2, <5>3, <5>4
      <4>2. ASSUME FinishDeletion PROVE FALSE
        BY <2>9, <4>2 DEF FinishDeletion, RevokedAll, TargetInv, Deleting
      <4>3. ASSUME UpkeepStarts PROVE Deleting'
        BY <2>9, <3>2, <4>3, UpkeepStartsEffect DEF Deleting, durable
      <4>4. Deleting'
        BY <2>3, <2>4, <2>5, <2>9, <3>2, <4>1, <4>2, <4>3, RowCauses DEF RowCause
      <4> QED BY <1>2, <2>1, <2>7, <4>4
    <3> QED BY <3>1, <3>2
  <2>10. ASSUME rows[s].state \in InFlight, NEW w \in Worker, work[w].step = "completing",
                work[w].session = s, work[w].generation = rows[s].generation
         PROVE  \/ rows'[s].state = "connected"
                \/ /\ rows'[s].state \in InFlight
                   /\ work'[w].step = "completing" /\ work'[w].session = s
                   /\ work'[w].generation = rows'[s].generation
    <3>0. /\ \A v \in Worker : work[v].step \in Reserved => v = w
          /\ \A v \in Worker : Holds(v) => v = w
          /\ upkeep.step # "revoking" /\ ~Holds(Upkeep)
      BY <2>10, Exclusion DEF Reserved
    <3>1. ASSUME rows'[s].state # "connected" PROVE rows'[s].state = rows[s].state
      <4>1. ASSUME NEW v \in Worker, work[v].session = s,
                   (Reserve(v) /\ Reservable(v)) \/ Completed(v) \/ RecordFailure(v) \/ Returned(v),
                   rows'[s].state # rows[s].state
            PROVE  FALSE
        <5>1. CASE Reserve(v)
          BY <2>10, <3>0, <5>1, ReserveEffect
        <5>2. CASE Completed(v)
          BY <3>1, <4>1, <5>2, CompletedEffect
        <5>3. CASE RecordFailure(v)
          BY <2>10, <3>0, <5>3, RecordFailureEffect DEF Reserved
        <5>4. CASE Returned(v)
          <6>1. /\ work[v].step = "returned" /\ timers[s].id = work[v].timer /\ work[v].attempt > 0
            BY <4>1, <5>4, ReturnedEffect
          <6>2. work[v] # Idle /\ work[w] # Idle /\ work[v].step # "idle"
            BY <2>10, <6>1 DEF Idle
          <6>3. work[v].timer # 0
            <7>1. ShapeOK(work[v])
              BY <6>2 DEF TypeInv
            <7> QED BY <6>1, <7>1 DEF ShapeOK
          <6>4. timers[s].id \in {0, work[w].timer}
            BY <2>10 DEF TimerHeldInv, Reserved
          <6>5. v # w
            BY <2>10, <6>1
          <6> QED BY <2>10, <4>1, <6>1, <6>2, <6>3, <6>4, <6>5 DEF TimerIdInv
        <5> QED BY <4>1, <5>1, <5>2, <5>3, <5>4
      <4>2. ~UpkeepStarts /\ ~FinishDeletion
        BY <3>0, UpkeepStartsEffect, FinishDeletionEffect
      <4> QED BY <2>3, <2>4, <2>5, <4>1, <4>2, RowCauses DEF RowCause
    <3>2. CASE work'[w].step = "completing"
      <4>1. work'[w].session = s /\ work'[w].generation = work[w].generation
        BY <2>10, <3>2, CompletingStays DEF Kin
      <4> QED BY <2>1, <2>7, <2>10, <3>1, <3>2, <4>1
    <3>3. CASE work'[w].step # "completing"
      <4>1. ~CompletionFails(w)
        <5>1. ASSUME CompletionFails(w) PROVE FALSE
          <6>1. Terminate(s, g)
            BY <2>1, <2>10, <5>1, FailsEffect
          <6>2. attempts'[s] = NoAttempt
            BY <2>1, <6>1, TerminateFacts DEF TypeInv, Owns
          <6> QED BY <1>2, <2>1, <6>2
        <5> QED BY <5>1
      <4>2. Completed(w)
        BY <2>3, <2>10, <3>3, <4>1, CompletingLeaves
      <4> QED BY <2>10, <4>2, CompletedEffect
    <3> QED BY <3>2, <3>3
  <2>11. CASE rows[s].state \in InFlight /\ ~Deleting
    <3>1. PICK w \in Worker : /\ work[w].step = "completing" /\ work[w].session = s
                              /\ work[w].generation = rows[s].generation
      BY <1>2, <2>11 DEF EntryRowInv, InFlight
    <3>2. \/ rows'[s].state = "connected"
          \/ /\ rows'[s].state \in InFlight
             /\ work'[w].step = "completing" /\ work'[w].session = s
             /\ work'[w].generation = rows'[s].generation
      BY <2>10, <2>11, <3>1
    <3> QED BY <1>2, <2>1, <2>7, <3>2
  <2>12. rows[s].state = "connected" \/ Deleting \/ rows[s].state \in InFlight
    BY <1>2 DEF EntryRowInv
  <2> QED BY <2>8, <2>9, <2>11, <2>12
<1> QED BY <1>1, <1>2, LiveBefore

LEMMA ReplacingKept ==
    ASSUME TypeInv, TargetInv, DeletedInv, EntryRowInv, ReplacingInv, [Next]_vars
    PROVE  ReplacingInv'
<1> SUFFICES ASSUME upkeep'.step = "revoking", upkeep'.kind = "replace", NEW s \in Session, Live(s)'
             PROVE  <<s, attempts'[s].generation>> \in upkeep'.todo
  BY DEF ReplacingInv
<1>0. Idle.step = "idle"
  BY DEF Idle
<1>1. ASSUME NEW w \in Worker, LaunchReturns(w) PROVE FALSE
  <2>1. upkeep' = upkeep /\ work[w].step \in Reserved
    BY <1>1 DEF LaunchReturns, Waits, Reserved
  <2> QED BY <2>1, Exclusion
<1>2. CASE Live(s) /\ attempts'[s] = attempts[s]
  <2>1. CASE upkeep' = upkeep
    BY <1>2, <2>1 DEF ReplacingInv
  <2>2. CASE UpkeepStarts
    <3>1. /\ upkeep'.todo = Revocable /\ upkeep.kind = "replace" /\ target.enrolling # 0
      BY <1>0, <2>2, UpkeepStartsEffect
    <3>2. ~Deleting
      BY <3>1 DEF Deleting, TargetInv, DeletedInv
    <3>3. Present(s) /\ attempts[s].generation = rows[s].generation
      BY <1>2, <3>2 DEF EntryRowInv, Present, InFlight
    <3> QED BY <1>2, <3>1, <3>3 DEF Revocable
  <2>3. ASSUME upkeep.step = "revoking", NEW t \in upkeep.todo, RevokesNext(t)
        PROVE  <<s, attempts'[s].generation>> \in upkeep'.todo
    <3>1. /\ t = <<t[1], t[2]>> /\ t[1] \in Session /\ t[2] \in Nat /\ t[2] # 0 /\ Terminate(t[1], t[2])
          /\ upkeep'.kind = upkeep.kind /\ upkeep'.todo = upkeep.todo \ {t}
      BY <2>3, RevokesNextEffect
    <3>2. t # <<s, attempts[s].generation>>
      <4>1. CASE t[1] = s /\ t[2] = attempts[s].generation
        BY <1>2, <3>1, <4>1, TerminateFacts DEF TypeInv, Owns, Live
      <4> QED BY <4>1
    <3> QED BY <1>2, <2>3, <3>1, <3>2 DEF ReplacingInv
  <2>4. ASSUME NEW kind \in {"delete", "replace"}, RequestUpkeep(kind) PROVE FALSE
    <3>1. upkeep'.step = "waiting"
      BY <2>4 DEF RequestUpkeep
    <3> QED BY <3>1
  <2>5. ASSUME UpkeepFails \/ FinishDeletion \/ CommitReplacement \/ Restart PROVE FALSE
    BY <1>0, <2>5 DEF UpkeepFails, FinishDeletion, CommitReplacement, Restart, UpkeepEnds
  <2>6. ASSUME NEW x \in Session, DecideHostKey(x) PROVE upkeep' = upkeep
    BY <2>6 DEF DecideHostKey
  <2>7. ASSUME NEW w \in Worker, MarkHostKeyChanged(w) PROVE upkeep' = upkeep
    BY <2>7 DEF MarkHostKeyChanged
  <2>8. CASE BeginReplacement \/ AbortReplacement
    BY <2>1, <2>8 DEF BeginReplacement, AbortReplacement
  <2> QED BY <2>1, <2>2, <2>3, <2>4, <2>5, <2>6, <2>7, <2>8, TargetCases
<1> QED BY <1>1, <1>2, LiveBefore

LEMMA DetachedKept ==
    ASSUME TypeInv, DetachedInv, [Next]_vars
    PROVE  DetachedInv'
<1> SUFFICES ASSUME NEW s \in Session, rows'[s].state = "detached" PROVE timers'[s] = NoTimer
  BY DEF DetachedInv
<1>1. CASE rows[s].state = "detached"
  <2>1. timers[s] = NoTimer
    BY <1>1 DEF DetachedInv
  <2> QED BY <1>1, <2>1, TimerSteps DEF TimerStep, IsDue, IsSetByExit, IsSetAgain
<1>2. CASE rows[s].state # "detached"
  <2>1. RowCause(s)
    BY <1>2, RowCauses
  <2>2. CASE Prepare(s) \/ Detach(s) \/ Close(s)
    BY <2>2, PrepareEffect, ReleaseEffect
  <2>3. CASE ExitNow(s)
    <3>1. PICK n \in 0 .. MaxAttempts : RecordExit(s, rows[s].generation, n)
      BY <2>3 DEF ExitNow
    <3>2. rows[s].generation \in Nat
      BY SessionParts DEF TypeInv
    <3>3. limit[s] = 0 /\ timers' = timers
      BY <1>2, <3>1, <3>2, RecordExitFacts DEF TypeInv
    <3>4. ASSUME timers[s] # NoTimer PROVE FALSE
      <4>1. timers[s].attempt <= 0 /\ timers[s].attempt \in 1 .. MaxAttempts
        BY <3>3, <3>4, SessionParts DEF TypeInv
      <4> QED BY <4>1, BoundAssumption
    <3> QED BY <3>3, <3>4
  <2>4. ASSUME NEW w \in Worker, work[w].session = s,
               (Reserve(w) /\ Reservable(w)) \/ Completed(w) \/ RecordFailure(w) \/ Returned(w)
        PROVE  FALSE
    <3>1. CASE Reserve(w)
      BY <1>2, <2>4, <3>1, ReserveEffect
    <3>2. CASE Completed(w)
      BY <2>4, <3>2, CompletedEffect
    <3>3. CASE RecordFailure(w)
      BY <1>2, <2>4, <3>3, RecordFailureEffect
    <3>4. CASE Returned(w)
      BY <1>2, <2>4, <3>4, ReturnedEffect
    <3> QED BY <2>4, <3>1, <3>2, <3>3, <3>4
  <2>5. ~(UpkeepStarts \/ FinishDeletion \/ CommitReplacement)
    <3>1. ~UpkeepStarts
      BY <1>2, UpkeepStartsEffect DEF durable
    <3> QED BY <1>2, <3>1, FinishDeletionEffect, CommitReplacementEffect DEF Present
  <2>6. CASE Restart
    BY <2>6, RestartEffect
  <2> QED BY <2>1, <2>2, <2>3, <2>4, <2>5, <2>6 DEF RowCause
<1> QED BY <1>1, <1>2

LeftInv == TimedInv /\ DeletedInv /\ EntryRowInv /\ ReplacingInv /\ DetachedInv

LEMMA LeftHolds == Spec => []LeftInv
<1> DEFINE Rest == DeletedInv /\ EntryRowInv /\ ReplacingInv /\ DetachedInv
<1>1. Init => Rest
  <2> SUFFICES ASSUME Init PROVE Rest
    OBVIOUS
  <2>1. /\ upkeep.step = "idle" /\ target.hostKey # "deleted"
        /\ \A s \in Session : attempts[s] = NoAttempt /\ rows[s].state = "absent"
    BY DEF Init, Idle
  <2> QED BY <2>1 DEF DeletedInv, EntryRowInv, ReplacingInv, DetachedInv, Live
<1>2. TimedInv /\ Rest /\ [Next]_vars => Rest'
  <2> SUFFICES ASSUME TimedInv, Rest, [Next]_vars PROVE Rest'
    OBVIOUS
  <2>1. DeletedInv' /\ EntryRowInv' /\ ReplacingInv' /\ DetachedInv'
    BY DeletedKept, EntryRowKept, ReplacingKept, DetachedKept DEF TimedInv, LiveInv, CoreInv
  <2> QED BY <2>1
<1>3. TimedInv /\ Rest => LeftInv
  BY DEF LeftInv
<1> HIDE DEF Rest
<1> QED BY <1>1, <1>2, <1>3, TimedHolds, PTL DEF Spec

\* A session that was detached has no timer left, and one that was detached, failed
\* or was closed keeps no transport.
THEOREM NothingLeftBehind == Spec => []ReleasedKeepsNothing
<1>1. LeftInv => ReleasedKeepsNothing
  <2> SUFFICES ASSUME LeftInv, NEW s \in Session
               PROVE  /\ rows[s].state = "detached" => timers[s] = NoTimer
                      /\ rows[s].state \in {"detached", "failed", "closed"} /\ ~target.deleting => ~Live(s)
    BY DEF ReleasedKeepsNothing, Live
  <2>1. rows[s].state = "detached" => timers[s] = NoTimer
    BY DEF LeftInv, DetachedInv
  <2>2. ASSUME rows[s].state \in {"detached", "failed", "closed"}, ~target.deleting, Live(s)
        PROVE  FALSE
    <3>1. target.hostKey # "deleted"
      BY <2>2 DEF LeftInv, TimedInv, LiveInv, CoreInv, TargetInv
    <3> QED BY <2>2, <3>1 DEF LeftInv, EntryRowInv, Deleting, InFlight
  <2> QED BY <2>1, <2>2
<1> QED BY <1>1, LeftHolds, PTL

-----------------------------------------------------------------------------
(* What drives a session that is under way.                                  *)

\* How a session that reconnects loses its timer while its row stays.
LEMMA TimerGone ==
    ASSUME TypeInv, [Next]_vars, NEW s \in Session, timers[s] # NoTimer, timers'[s] = NoTimer,
           rows'[s] = rows[s], rows[s].state = "reconnecting", phase' = "serving"
    PROVE  \/ s \in stranded'
           \/ timers[s].armed /\ ~TimerIsCurrent(s)
           \/ \E v \in Worker : /\ Returned(v) /\ work[v].step = "returned" /\ work[v].session = s
                                /\ work[v].timer = timers[s].id
<1> DEFINE Goal == \/ s \in stranded'
                   \/ timers[s].armed /\ ~TimerIsCurrent(s)
                   \/ \E v \in Worker : /\ Returned(v) /\ work[v].step = "returned"
                                        /\ work[v].session = s /\ work[v].timer = timers[s].id
<1>1. timers' # timers /\ rows[s].revision \in Nat
  BY SessionParts DEF TypeInv
<1>2. ASSUME NEW x \in Session, NEW g \in Nat, NEW n \in 0 .. MaxAttempts, RecordExit(x, g, n)
      PROVE  FALSE
  <2>1. CASE UNCHANGED <<rows, timers, spent>>
    BY <1>1, <2>1
  <2>2. CASE timers'[s] = timers[s]
    BY <2>2
  <2>3. CASE x = s /\ rows'[s].revision > rows[s].revision
    BY <1>1, <2>3
  <2> QED BY <1>2, <2>1, <2>2, <2>3, RecordExitFacts DEF TypeInv
<1>3. ASSUME NEW w \in Worker, Activates(w) PROVE Goal
  <2>1. CASE Reserve(w)
    <3>1. work[w].session = s /\ rows'[s].revision = rows[s].revision + 1
      BY <1>1, <2>1, ReserveEffect DEF TimersKeep
    <3> QED BY <1>1, <3>1
  <2>2. CASE RecordEarlyExit(w)
    BY <1>2, <2>2, RecordEarlyExitEffect
  <2>3. CASE Returned(w)
    BY <1>1, <2>3, ReturnedEffect DEF TimersKeep
  <2> QED BY <1>1, <1>3, <2>1, <2>2, <2>3 DEF Activates, Prepared, PreparationFails, Spawn,
          SpawnFails, LaunchReturns, Completed, CompletionFails, MarkHostKeyChanged, RecordFailure
<1>4. ASSUME NEW w \in Worker, NEW x \in Session, TimerFires(w, x) PROVE Goal
  BY <1>4, TimerFiresEffect DEF TimersKeep
<1>5. ASSUME NEW x \in Session, Requests(x) PROVE Goal
  <2>1. CASE Detach(x) \/ Close(x)
    <3>1. x = s /\ rows'[s].revision = rows[s].revision + 1
      BY <2>1, ReleaseEffect DEF TimersKeep
    <3> QED BY <1>1, <3>1
  <2>2. CASE ReplayRelease(x)
    <3>1. x = s
      BY <2>2, ReplayReleaseEffect DEF TimersKeep
    <3> QED BY <2>2, <3>1 DEF ReplayRelease
  <2> QED BY <1>1, <1>5, <2>1, <2>2 DEF Requests, Prepare, DecideHostKey, Transfer
<1>6. ASSUME NEW e \in exits, ExitReported(e) PROVE Goal
  <2>1. e.session \in Session /\ e.generation \in Nat /\ e.attempt \in 0 .. MaxAttempts
    BY ExitParts DEF TypeInv
  <2> QED BY <1>1, <1>2, <1>6, <2>1, ExitReportedEffect
<1>7. ASSUME upkeep.step = "revoking", NEW t \in upkeep.todo, RevokesNext(t) PROVE Goal
  <2>1. t[1] = s
    BY <1>7, RevokesNextEffect DEF TimersKeep
  <2> QED BY <1>7, <2>1 DEF RevokesNext
<1>8. ASSUME NEW t \in transports, TransportExits(t) PROVE FALSE
  BY <1>1, <1>8 DEF TransportExits
<1>9. ASSUME NEW w \in Worker, NEW x \in Session, Activate(w, x) PROVE FALSE
  BY <1>1, <1>9 DEF Activate
<1>10. CASE Restart
  BY <1>10, RestartEffect DEF InFlight
<1>11. ~Dispose
  BY DEF Dispose
<1> QED BY <1>1, <1>3, <1>4, <1>5, <1>6, <1>7, <1>8, <1>9, <1>10, <1>11 DEF Next, UpkeepStep, StopEnds,
        BeginReplacement, AbortReplacement, RequestUpkeep, UpkeepStarts, FinishDeletion,
        CommitReplacement, UpkeepFails, RuntimeDispose, vars

LEMMA HeldTimerStays ==
    ASSUME TypeInv, TimerIdInv, [Next]_vars, phase' = "serving", NEW w \in Worker, NEW s \in Session,
           Of(w, s), work[w].timer # 0, timers[s].id = work[w].timer, ~Returned(w),
           rows'[s] = rows[s], rows[s].state = "reconnecting", s \notin stranded'
    PROVE  timers'[s].id = work[w].timer
<1>1. timers[s] # NoTimer
  BY DEF NoTimer
<1>2. CASE timers'[s] = NoTimer
  <2>1. ~timers[s].armed
    BY <1>1 DEF TimerIdInv
  <2>2. PICK v \in Worker : /\ Returned(v) /\ work[v].step = "returned" /\ work[v].session = s
                            /\ work[v].timer = timers[s].id
    BY <1>1, <1>2, <2>1, TimerGone
  <2> QED BY <2>2 DEF TimerIdInv, Of, Idle
<1> QED BY <1>2, TimerSteps DEF TimerStep, IsDue, IsSetByExit, IsSetAgain

LEMMA StrandedStays ==
    ASSUME TypeInv, [Next]_vars, NEW s \in Session, s \in stranded, rows'[s] = rows[s],
           rows[s].state \in InFlight
    PROVE  s \in stranded'
<1>1. rows[s].revision \in Nat
  BY SessionParts DEF TypeInv
<1>2. ASSUME NEW v \in Worker, Completed(v), work[v].session = s PROVE FALSE
  BY <1>1, <1>2, CompletedEffect
<1>3. ASSUME NEW v \in Worker, HasReserved(v), work[v].session = s PROVE FALSE
  <2>1. ~LeavesLock(v, "failure") /\ Reserve(v)
    BY <1>3 DEF HasReserved, LeavesLock, Idle
  <2> QED BY <1>1, <1>3, <2>1, ReserveEffect
<1> QED BY <1>2, <1>3, StrandedBefore

\* An automatic attempt runs while its session reconnects; one that fails says why.
RetryInv ==
    /\ \A w \in Worker : work[w].step \in Reserved /\ work[w].attempt > 0
                           => work[w].state = "reconnecting"
    /\ \A w \in Worker : work[w].step = "failing" => work[w].code # "none"
\* A timer was set for a generation the row has had; the attempt it started has a
\* later one.
TimerGenInv ==
    /\ \A s \in Session : timers[s] # NoTimer => timers[s].generation <= rows[s].generation
    /\ \A w \in Worker :
         LET a == work[w]  s == work[w].session IN
         a.step \in Reserved /\ rows[s].generation = a.generation /\ timers[s] # NoTimer
         /\ timers[s].id = a.timer => timers[s].generation < rows[s].generation

LEMMA RetryKept ==
    ASSUME TypeInv, TimerHeldInv, RetryInv, [Next]_vars
    PROVE  RetryInv'
<1>1. ASSUME NEW w \in Worker, work'[w].step \in Reserved, work'[w].attempt > 0
      PROVE  work'[w].state = "reconnecting"
  <2>1. CASE HasReserved(w)
    <3>1. /\ ~LeavesLock(w, "failure") /\ Reserve(w) /\ work[w].attempt > 0 /\ work[w].step = "waiting"
          /\ rows[work[w].session].revision = work[w].revision
          /\ work'[w].state = rows'[work[w].session].state
      BY <1>1, <2>1 DEF HasReserved, LeavesLock, Idle, Reservable, Kin
    <3>2. rows[work[w].session].state = "reconnecting"
      BY <3>1 DEF TimerHeldInv
    <3> QED BY <3>1, <3>2, ReserveEffect
  <2>2. CASE work'[w] = work[w] \/ MovesOn(w)
    BY <1>1, <2>2 DEF MovesOn, Kin, RetryInv
  <2> QED BY <1>1, <2>1, <2>2, WorkerSteps DEF WorkerStep, Idle, HasReturned, HasStarted, Asked, Reserved
<1>2. ASSUME NEW w \in Worker, work'[w].step = "failing" PROVE work'[w].code # "none"
  <2>1. CASE work'[w] = work[w]
    BY <1>2, <2>1 DEF RetryInv
  <2>2. ASSUME Activates(w), work'[w] # work[w] PROVE work'[w].code # "none"
    <3>1. ASSUME NEW c \in Code, c # "none", work[w].step \in Reserved,
                 work' = [work EXCEPT ![w] = [@ EXCEPT !.step = "failing", !.code = c]]
          PROVE  work'[w].code # "none"
      <4>1. work[w] \in Activation /\ work \in [Worker -> Activation \cup {Idle}]
        BY <3>1, ReservedParts DEF TypeInv, TypeOK
      <4> QED BY <3>1, <4>1 DEF Activation
    <3>2. CASE PreparationFails(w)
      BY <3>1, <3>2 DEF PreparationFails, Throw, Waits, Reserved, Code
    <3>3. CASE SpawnFails(w)
      BY <3>1, <3>3 DEF SpawnFails, Throw, Waits, Reserved, Code
    <3>4. CASE CompletionFails(w)
      BY <3>1, <3>4 DEF CompletionFails, Throw, Waits, Reserved, Code
    <3>5. CASE LaunchReturns(w)
      <4>1. CASE Launched(w)
        BY <1>2, <3>5, <4>1, LaunchReturnsEffect DEF Stays
      <4> QED BY <3>1, <3>5, <4>1 DEF LaunchReturns, Waits, Reserved, Code
    <3>6. CASE Spawn(w) \/ Prepared(w)
      BY <1>2, <3>6, SpawnEffect, PreparedEffect DEF Stays
    <3>7. CASE Completed(w) \/ RecordEarlyExit(w) \/ RecordFailure(w) \/ Reserve(w) \/ Returned(w)
      BY <1>2, <3>7, CompletedEffect, RecordEarlyExitEffect, RecordFailureEffect, ReserveEffect,
         ReturnedEffect DEF LeavesLock, Stays, Idle
    <3> QED BY <2>2, <3>2, <3>3, <3>4, <3>5, <3>6, <3>7 DEF Activates, MarkHostKeyChanged
  <2>3. ~Restart
    BY <1>2, RestartEffect DEF Idle
  <2>4. CASE work[w] = Idle /\ work'[w] # work[w]
    <3>1. HasStarted(w)
      BY <2>4, WorkerSteps DEF WorkerStep, MovesOn, HasReserved, HasReturned, Idle, Reserved
    <3> QED BY <1>2, <3>1 DEF HasStarted, Asked
  <2> QED BY <1>2, <2>1, <2>2, <2>3, <2>4, WorkCauses
<1> QED BY <1>1, <1>2 DEF RetryInv

LEMMA TimerGenKept ==
    ASSUME TypeInv, TargetInv, SeenInv, FreshInv, TimerIdInv, TimerHeldInv, TimerGenInv, [Next]_vars
    PROVE  TimerGenInv'
<1>1. ASSUME NEW s \in Session, timers'[s] # NoTimer
      PROVE  timers'[s].generation <= rows'[s].generation
  <2>0. rows'[s].generation \in Nat
    BY TypesKept DEF TypeInv, TypeOK, Row, Generation
  <2>1. CASE timers'[s] = timers[s]
    <3>1. ~New(s) /\ timers[s].generation \in Nat /\ timers[s].generation <= rows[s].generation
      BY <1>1, <2>1, SessionParts DEF TypeInv, FreshInv, Fresh, TimerGenInv, Generation
    <3> QED BY <2>1, <3>1, RowGrows
  <2>2. CASE IsDue(s)
    BY <2>2 DEF IsDue, TimerGenInv
  <2>3. CASE IsSetByExit(s) \/ IsSetAgain(s)
    <3>1. timers'[s].generation = rows'[s].generation
      BY <2>3 DEF IsSetByExit, IsSetAgain
    <3> QED BY <2>0, <3>1
  <2> QED BY <1>1, <2>1, <2>2, <2>3, TimerSteps DEF TimerStep
<1>2. ASSUME NEW w \in Worker, work'[w].step \in Reserved,
             rows'[work'[w].session].generation = work'[w].generation,
             timers'[work'[w].session] # NoTimer,
             timers'[work'[w].session].id = work'[w].timer
      PROVE  timers'[work'[w].session].generation < rows'[work'[w].session].generation
  <2>1. CASE HasReserved(w)
    <3>1. PICK s \in Session : s = work[w].session /\ work'[w].session = s
                               /\ work'[w].timer = work[w].timer
      BY <2>1, ReserveEffect DEF HasReserved, Kin
    <3>2. ~LeavesLock(w, "failure") /\ Reserve(w) /\ work[w].step = "waiting"
          /\ rows[s].revision = work[w].revision
      BY <2>1, <3>1 DEF HasReserved, LeavesLock, Idle, Reservable
    <3>3. work[w].attempt > 0 /\ timers'[s] = timers[s]
      BY <1>2, <3>1, <3>2, ReserveEffect
    <3>4. rows[s].state = "reconnecting"
      BY <3>1, <3>2, <3>3 DEF TimerHeldInv
    <3>5. rows'[s].generation = rows[s].generation + 1
      BY <3>1, <3>2, <3>4, ReserveEffect
    <3>6. timers[s].generation \in Nat /\ rows[s].generation \in Nat
          /\ timers[s].generation <= rows[s].generation
      BY <1>2, <3>1, <3>3, SessionParts DEF TypeInv, TimerGenInv, Generation
    <3> QED BY <3>1, <3>3, <3>5, <3>6
  <2>2. CASE work'[w] = work[w] \/ MovesOn(w)
    <3>1. /\ work[w].step \in Reserved /\ work'[w].session = work[w].session
          /\ work'[w].generation = work[w].generation /\ work'[w].timer = work[w].timer
      BY <1>2, <2>2 DEF MovesOn, Kin
    <3>2. PICK s \in Session, g \in Nat : /\ s = work[w].session /\ g = work[w].generation /\ g # 0
                                          /\ work[w] # Idle
      BY <3>1, ReservedParts
    <3>3. rows[s].generation = g
      BY <1>2, <3>1, <3>2, SeenStays DEF Seen, HandOf
    <3>4. NoTimer.id = 0 /\ timers'[s].id # 0
      <4>1. timers' \in [Session -> Timer \cup {NoTimer}]
        BY TypesKept DEF TypeInv, TypeOK
      <4>2. timers'[s] \in Timer
        BY <1>2, <3>1, <3>2, <4>1
      <4> QED BY <4>2 DEF Timer, TimerId, NoTimer
    <3>5. CASE timers'[s] = timers[s]
      BY <1>2, <3>1, <3>2, <3>3, <3>5 DEF TimerGenInv
    <3>6. CASE IsDue(s)
      BY <1>2, <3>1, <3>2, <3>6 DEF IsDue, TimerIdInv, Of
    <3>7. CASE IsSetByExit(s)
      BY <1>2, <3>1, <3>2, <3>7, FreshIdFacts DEF IsSetByExit, Of, TypeInv
    <3>8. CASE IsSetAgain(s)
      <4>1. PICK v \in Worker : work[v].step = "returned" /\ work[v].session = s
                                /\ timers'[s].id = work[v].timer
        BY <3>8 DEF IsSetAgain
      <4>2. v # w /\ work[v] # Idle
        BY <3>1, <4>1 DEF Reserved, Idle
      <4> QED BY <1>2, <3>1, <3>2, <3>4, <4>1, <4>2 DEF TimerIdInv
    <3> QED BY <1>2, <3>1, <3>2, <3>5, <3>6, <3>7, <3>8, TimerSteps DEF TimerStep
  <2> QED BY <1>2, <2>1, <2>2, WorkerSteps DEF WorkerStep, Idle, HasReturned, HasStarted, Asked, Reserved
<1> QED BY <1>1, <1>2 DEF TimerGenInv

\* While the service runs: an automatic attempt has its timer, a timer of the
\* generation the row has is set for its revision too, and an attempt that ended well
\* has left no session that reconnects; a step outside activation may have come
\* between.
HeldTimerInv == phase = "serving" => \A w \in Worker :
    LET a == work[w]  s == work[w].session IN
    /\ a.attempt > 0 /\ rows[s].revision = a.revision
    /\ a.step = "waiting" \/ (a.step \in Reserved /\ rows[s].generation = a.generation)
    => timers[s].id = a.timer \/ s \in stranded
CurrentTimerInv == phase = "serving" => \A s \in Session :
    /\ timers[s] # NoTimer /\ rows[s].state = "reconnecting"
    /\ rows[s].generation = timers[s].generation
    => rows[s].revision = timers[s].revision \/ s \in stranded
DoneTimerInv == phase = "serving" => \A w \in Worker :
    LET a == work[w]  s == work[w].session IN
    /\ a.step = "exitedEarly" \/ (a.step = "returned" /\ a.code = "none")
    /\ timers[s].id = a.timer /\ a.timer # 0
    => rows[s].state # "reconnecting"

LEMMA ServingBefore ==
    ASSUME TypeInv, [Next]_vars, phase' = "serving", NEW s \in Session,
           rows'[s].state \in InFlight
    PROVE  phase = "serving" /\ ~Restart
<1>1. ~FinishDeletion
  BY FinishDeletionEffect DEF InFlight
<1>2. ~Restart
  BY RestartEffect DEF InFlight
<1> QED BY <1>1, <1>2, PhaseBefore

\* What puts a session in flight, or leaves it there with another row.
LEMMA InFlightCauses ==
    ASSUME TypeInv, [Next]_vars, NEW s \in Session, rows'[s] # rows[s],
           rows'[s].state \in InFlight
    PROVE  \/ Transfer(s) \/ ExitNow(s)
           \/ \E w \in Worker : /\ work[w].session = s
                               /\ ((Reserve(w) /\ Reservable(w)) \/ RecordFailure(w))
<1>1. ~Prepare(s) /\ ~Detach(s) /\ ~Close(s)
  BY PrepareEffect, ReleaseEffect DEF InFlight
<1>2. ASSUME NEW w \in Worker, work[w].session = s, Completed(w) \/ Returned(w) PROVE FALSE
  BY <1>2, CompletedEffect, ReturnedEffect DEF InFlight
<1>3. ~FinishDeletion /\ ~Restart
  BY FinishDeletionEffect, RestartEffect DEF InFlight
<1>4. ~CommitReplacement
  BY CommitReplacementEffect DEF InFlight
<1>5. ~UpkeepStarts
  BY UpkeepStartsEffect DEF InFlight, durable
<1> QED BY <1>1, <1>2, <1>3, <1>4, <1>5, RowChanges DEF RowCause

LEMMA HeldStays ==
    ASSUME TypeInv, TimerIdInv, HeldTimerInv, [Next]_vars, phase' = "serving",
           NEW w \in Worker, NEW s \in Session, work[w] # Idle, s = work[w].session,
           work[w].attempt > 0,
           rows[s].revision = work[w].revision,
           \/ work[w].step = "waiting"
           \/ work[w].step \in Reserved /\ rows[s].generation = work[w].generation,
           rows[s].state = "reconnecting", rows'[s] = rows[s]
    PROVE  timers'[s].id = work[w].timer \/ s \in stranded'
<1>1. phase = "serving"
  BY ServingBefore DEF InFlight
<1>2. timers[s].id = work[w].timer \/ s \in stranded
  BY <1>1 DEF HeldTimerInv
<1>3. CASE s \in stranded
  BY <1>3, StrandedStays DEF InFlight
<1>4. CASE timers[s].id = work[w].timer /\ s \notin stranded'
  <2>1. ~Returned(w)
    BY DEF Returned, Waits, Reserved
  <2>2. work[w].timer # 0
    BY WorkParts DEF TypeInv, ShapeOK
  <2> QED BY <1>4, <2>1, <2>2, HeldTimerStays DEF Of
<1> QED BY <1>2, <1>3, <1>4

LEMMA HeldTimerKept ==
    ASSUME TypeInv, TargetInv, SeenInv, FreshInv, RevInv, AttemptRowInv, TimerIdInv, TimerHeldInv,
           RetryInv, HeldTimerInv, [Next]_vars
    PROVE  HeldTimerInv'
<1> SUFFICES ASSUME NEW w \in Worker, phase' = "serving", work'[w].attempt > 0,
                    rows'[work'[w].session].revision = work'[w].revision,
                    \/ work'[w].step = "waiting"
                    \/ /\ work'[w].step \in Reserved
                       /\ rows'[work'[w].session].generation = work'[w].generation
             PROVE  timers'[work'[w].session].id = work'[w].timer \/ work'[w].session \in stranded'
  BY DEF HeldTimerInv
<1>0. Idle.step = "idle" /\ "waiting" \notin Reserved /\ "idle" \notin Reserved /\ "returned" \notin Reserved
  BY DEF Idle, Reserved
<1>1. CASE HasStarted(w)
  BY <1>0, <1>1 DEF HasStarted, Asked
<1>2. CASE HasReserved(w)
  <2>1. PICK s \in Session : s = work[w].session /\ work'[w].session = s
                             /\ work'[w].timer = work[w].timer /\ work[w].attempt > 0
    BY <1>2, ReserveEffect DEF HasReserved, Kin
  <2>2. ~LeavesLock(w, "failure") /\ Reserve(w)
    BY <1>2 DEF HasReserved, LeavesLock, Idle
  <2>3. rows'[s].state \in InFlight /\ timers'[s] = timers[s] /\ stranded' = stranded
    BY <2>1, <2>2, ReserveEffect DEF InFlight
  <2>4. work[w].step = "waiting" /\ rows[s].revision = work[w].revision
    BY <1>2, <2>1 DEF HasReserved, Reservable
  <2>5. phase = "serving"
    BY <2>3, ServingBefore
  <2> QED BY <2>1, <2>3, <2>4, <2>5 DEF HeldTimerInv
<1>3. CASE work'[w] = work[w] /\ work[w].step = "waiting"
  <2>1. PICK s \in Session : s = work[w].session /\ ~New(s) /\ work[w].revision \in Nat
                             /\ work[w].revision <= rows[s].revision /\ work[w] # Idle
    <3>1. work[w].step # "idle" /\ work[w] # Idle
      BY <1>0, <1>3
    <3>2. work[w].session \in Session /\ work[w].revision \in Nat
      BY <3>1, WorkParts DEF TypeInv
    <3> QED BY <3>1, <3>2 DEF FreshInv, Fresh, Of, RevInv
  <2>2. rows[s].revision = work[w].revision
    BY <1>3, <2>1, RowGrows
  <2>3. rows[s].state = "reconnecting"
    BY <1>3, <2>1, <2>2 DEF TimerHeldInv
  <2>4. rows'[s] = rows[s]
    <3>1. Kept(s)
      BY <2>3 DEF Kept, Present
    <3> QED BY <1>3, <2>1, <2>2, <3>1, KeptRow
  <2> QED BY <1>3, <2>1, <2>2, <2>3, <2>4, HeldStays
<1>4. CASE (work'[w] = work[w] \/ MovesOn(w)) /\ work[w].step # "waiting"
  <2>1. /\ work[w].step \in Reserved /\ work'[w].session = work[w].session
        /\ work'[w].generation = work[w].generation /\ work'[w].timer = work[w].timer
        /\ work'[w].revision = work[w].revision /\ work[w].attempt > 0
        /\ rows'[work[w].session].generation = work[w].generation
    BY <1>0, <1>4 DEF MovesOn, Kin
  <2>2. PICK s \in Session, g \in Nat : /\ s = work[w].session /\ g = work[w].generation /\ g # 0
                                        /\ work[w] # Idle /\ work[w].revision \in Nat
    BY <2>1, ReservedParts
  <2>3. rows[s].generation = g /\ ~New(s)
    BY <2>1, <2>2, SeenStays DEF Seen, HandOf
  <2>4. rows[s].revision = work[w].revision
    BY <2>1, <2>2, <2>3, RowGrows DEF RevInv
  <2>5. rows[s].state = "reconnecting"
    BY <2>1, <2>2, <2>3, <2>4 DEF AttemptRowInv, RetryInv
  <2>6. rows'[s] = rows[s]
    <3>1. Kept(s)
      BY <2>5 DEF Kept, Present
    <3> QED BY <2>1, <2>2, <2>4, <3>1, KeptRow
  <2> QED BY <2>1, <2>2, <2>3, <2>4, <2>5, <2>6, HeldStays
<1> QED BY <1>0, <1>1, <1>2, <1>3, <1>4, WorkerSteps DEF WorkerStep, HasReturned, MovesOn

LEMMA CurrentTimerKept ==
    ASSUME TypeInv, AttemptRowInv, TimerHeldInv, TimerGenInv, CurrentTimerInv, [Next]_vars
    PROVE  CurrentTimerInv'
<1> SUFFICES ASSUME phase' = "serving", NEW s \in Session, timers'[s] # NoTimer,
                    rows'[s].state = "reconnecting", s \notin stranded',
                    rows'[s].generation = timers'[s].generation
             PROVE  rows'[s].revision = timers'[s].revision
  BY DEF CurrentTimerInv
<1>1. phase = "serving" /\ ~Restart
  BY ServingBefore DEF InFlight
<1>2. CASE IsDue(s) \/ IsSetByExit(s) \/ IsSetAgain(s)
  BY <1>2 DEF IsDue, IsSetByExit, IsSetAgain, TimerIsCurrent
<1>3. CASE timers'[s] = timers[s] /\ rows'[s] = rows[s]
  <2>1. s \notin stranded
    BY <1>3, StrandedStays DEF InFlight
  <2> QED BY <1>1, <1>3, <2>1 DEF CurrentTimerInv
<1>4. CASE timers'[s] = timers[s] /\ rows'[s] # rows[s]
  <2>0. rows[s].generation \in Nat /\ timers[s].generation \in Nat
        /\ timers[s].generation <= rows[s].generation
    BY <1>4, SessionParts DEF TypeInv, Generation, TimerGenInv
  <2>1. CASE Transfer(s)
    <3>1. rows'[s].state = rows[s].state
      BY <2>1, TransferEffect
    <3> QED BY <2>1, <3>1 DEF Transfer, InFlight
  <2>2. CASE ExitNow(s)
    <3>1. PICK n \in 0 .. MaxAttempts : RecordExit(s, rows[s].generation, n)
      BY <2>2 DEF ExitNow
    <3>2. ~Disposed
      BY <1>1 DEF Disposed
    <3> QED BY <1>4, <2>0, <3>1, <3>2, RecordExitFacts DEF TypeInv
  <2>3. ASSUME NEW w \in Worker, work[w].session = s, Reserve(w), Reservable(w) PROVE FALSE
    <3>1. rows'[s].state = "reconnecting" => rows[s].state = "reconnecting"
      BY <2>3, ReserveEffect
    <3>2. rows'[s].generation = rows[s].generation + 1
      BY <2>3, <3>1, ReserveEffect
    <3> QED BY <1>4, <2>0, <3>2
  <2>4. ASSUME NEW w \in Worker, work[w].session = s, RecordFailure(w) PROVE FALSE
    <3>1. work[w].step = "failing" /\ CompletionApplies(w, "reconnecting")
          /\ rows'[s].generation = rows[s].generation
      BY <1>4, <2>4, RecordFailureEffect
    <3>2. /\ work[w].step \in Reserved \ {"exitedEarly"} /\ rows[s].generation = work[w].generation
          /\ rows[s].state \in InFlight
      BY <2>4, <3>1 DEF CompletionApplies, Reserved
    <3>3. timers[s].id = work[w].timer
      <4>1. timers[s].id # 0
        BY <1>4, SessionParts DEF TypeInv
      <4> QED BY <2>4, <3>2, <4>1 DEF TimerHeldInv
    <3>4. timers[s].generation < rows[s].generation
      BY <1>4, <2>4, <3>2, <3>3 DEF TimerGenInv
    <3> QED BY <1>4, <2>0, <3>1, <3>4
  <2> QED BY <1>4, <2>1, <2>2, <2>3, <2>4, InFlightCauses DEF InFlight
<1> QED BY <1>2, <1>3, <1>4, TimerSteps DEF TimerStep

LEMMA DoneTimerKept ==
    ASSUME TypeInv, AttemptRowInv, RetryInv, DoneTimerInv, [Next]_vars
    PROVE  DoneTimerInv'
<1> SUFFICES ASSUME NEW w \in Worker, phase' = "serving",
                    \/ work'[w].step = "exitedEarly"
                    \/ work'[w].step = "returned" /\ work'[w].code = "none",
                    timers'[work'[w].session].id = work'[w].timer, work'[w].timer # 0,
                    rows'[work'[w].session].state = "reconnecting"
             PROVE  FALSE
  BY DEF DoneTimerInv
<1>1. ~HasStarted(w) /\ work'[w] # Idle
  BY DEF HasStarted, Asked, Idle
<1>2. PICK s \in Session :
        /\ s = work[w].session /\ work'[w].session = s /\ work[w] # Idle
        /\ work'[w].timer = work[w].timer
  BY <1>1, WasThere
<1>3. phase = "serving" /\ ~Restart /\ ~Disposed
  BY <1>2, ServingBefore DEF InFlight, Disposed
<1>4. timers'[s].id # FreshId(s)
  BY <1>2, FreshIdFacts DEF Of, TypeInv
<1>5. timers[s].id = work[w].timer
  <2>1. NoTimer.id = 0
    BY DEF NoTimer
  <2> QED BY <1>2, <1>4, <2>1, TimerSteps DEF TimerStep, IsDue, IsSetByExit, IsSetAgain
<1>6. work[w].step = "exitedEarly" \/ (work[w].step = "returned" /\ work[w].code = "none")
  <2>1. CASE work'[w] = work[w]
    BY <2>1
  <2>2. CASE Activates(w) /\ work'[w] # work[w]
    <3>1. ~Completed(w)
      BY <1>2, CompletedEffect
    <3>2. work'[w].step # "exitedEarly" \/ work[w].step = "exitedEarly"
      BY <3>1, StepComes
    <3>3. ~Returned(w)
      BY <1>1, ReturnedEffect
    <3>4. ~RecordFailure(w)
      <4>1. ASSUME RecordFailure(w) PROVE work[w].step = "failing" /\ work[w].code = "none"
        <5>1. PICK c \in Code : LeavesLock(w, c) /\ (c = "none" => work[w].code = "none")
          BY <4>1, RecordFailureEffect
        <5>2. work[w].step = "failing"
          BY <4>1, RecordFailureEffect
        <5> QED BY <1>1, <3>2, <5>1, <5>2 DEF LeavesLock
      <4> QED BY <4>1 DEF RetryInv
    <3>5. ~Reserve(w)
      BY <1>1, ReserveEffect DEF LeavesLock
    <3>6. CASE Prepared(w) \/ Spawn(w) \/ LaunchReturns(w)
      BY <3>2, <3>6, PreparedEffect, SpawnEffect, LaunchReturnsEffect DEF Stays
    <3>7. CASE PreparationFails(w) \/ SpawnFails(w) \/ CompletionFails(w)
      BY <3>2, <3>7, FailsEffect DEF Stays
    <3> QED BY <2>2, <3>1, <3>3, <3>4, <3>5, <3>6, <3>7, RecordEarlyExitEffect DEF Activates, MarkHostKeyChanged
  <2> QED BY <1>2, <1>3, <2>1, <2>2, WorkCauses
<1>7. rows[s].state # "reconnecting"
  BY <1>2, <1>3, <1>5, <1>6 DEF DoneTimerInv
<1>8. CASE Transfer(s)
  BY <1>2, <1>7, <1>8, TransferEffect
<1>9. CASE ExitNow(s)
  <2>1. PICK n \in 0 .. MaxAttempts : RecordExit(s, rows[s].generation, n)
    BY <1>9 DEF ExitNow
  <2>2. rows[s].generation \in Nat
    BY SessionParts DEF TypeInv
  <2> QED BY <1>2, <1>3, <1>4, <1>7, <2>1, <2>2, RecordExitFacts DEF TypeInv
<1>10. ASSUME NEW v \in Worker, work[v].session = s, Reserve(v), Reservable(v) PROVE FALSE
  BY <1>2, <1>7, <1>10, ReserveEffect
<1>11. ASSUME NEW v \in Worker, work[v].session = s, RecordFailure(v) PROVE FALSE
  <2>1. /\ work[v].step = "failing" /\ CompletionApplies(v, "reconnecting")
        /\ \E c \in Code : Retrying(v, c)
    BY <1>2, <1>7, <1>11, RecordFailureEffect
  <2>2. work[v].step \in Reserved /\ work[v].attempt > 0
    BY <2>1 DEF Retrying, Reserved
  <2>3. work[v].state = "reconnecting"
    BY <2>2 DEF RetryInv
  <2> QED BY <1>7, <1>11, <2>1, <2>2, <2>3 DEF CompletionApplies, AttemptRowInv
<1> QED BY <1>2, <1>7, <1>8, <1>9, <1>10, <1>11, InFlightCauses DEF InFlight

LEMMA FailureIsDriven ==
    ASSUME TypeInv, HeldTimerInv, [Next]_vars, phase' = "serving", NEW s \in Session,
           rows'[s].state = "reconnecting", s \notin stranded',
           NEW w \in Worker, work[w].session = s, RecordFailure(w), work[w].attempt > 0,
           rows[s].generation = work[w].generation, rows[s].revision = work[w].revision
    PROVE  Driven(s)'
<1>1. phase = "serving"
  BY ServingBefore DEF InFlight
<1>2. work[w].step \in Reserved /\ timers' = timers /\ stranded' = stranded
  BY DEF RecordFailure, Waits, Reserved, history
<1>3. timers[s].id = work[w].timer
  BY <1>1, <1>2 DEF HeldTimerInv
<1>4. work[w].timer # 0
  BY <1>2, ReservedParts DEF ShapeOK
<1>5. Kin(work'[w], work[w]) /\ work'[w].step = "returned"
  BY <1>2, RecordFailureEffect DEF LeavesLock
<1>6. timers'[s] # NoTimer /\ work'[w].timer = timers'[s].id /\ work'[w].session = s
  BY <1>2, <1>3, <1>4, <1>5 DEF NoTimer, Kin
<1>7. TimerOf(s)'
  BY <1>5, <1>6 DEF TimerOf
<1> QED BY <1>7 DEF Driven

LEMMA AttemptIsDriven ==
    ASSUME TypeInv, RevInv, AttemptRowInv, RetryInv, HeldTimerInv, [Next]_vars,
           phase' = "serving", NEW s \in Session, rows'[s] = rows[s], rows[s].state \in InFlight,
           s \notin stranded', NEW w \in Worker, AttemptOf(w, s)
    PROVE  Driven(s)'
<1>1. work[w].step \in Reserved /\ work[w].session = s /\ work[w] # Idle
  BY WorkParts DEF AttemptOf, Reserved, TypeInv, Step
<1>2. rows[s].revision \in Nat /\ rows[s].generation = work[w].generation
      /\ rows[s].revision = work[w].revision
  BY SessionParts DEF TypeInv, AttemptOf
<1>3. CASE work'[w] = work[w] \/ MovesOn(w)
  <2>1. AttemptOf(w, s)'
    BY <1>1, <1>3 DEF AttemptOf, MovesOn, Kin, Reserved, Idle
  <2> QED BY <2>1 DEF Driven
<1>4. CASE RecordFailure(w)
  <2>1. PICK c \in Code, outcome \in {"reconnecting", "failed"} :
          /\ outcome = "reconnecting" <=> Retrying(w, c)
          /\ ~CompletionApplies(w, outcome) \/ rows'[s].revision = rows[s].revision + 1
    BY <1>1, <1>4, RecordFailureEffect
  <2>2. CompletionApplies(w, "failed")
    BY <1>1, <1>2 DEF CompletionApplies
  <2>3. work[w].attempt > 0
    BY <1>2, <2>1, <2>2 DEF Retrying
  <2>4. rows[s].state = "reconnecting"
    BY <1>1, <1>2, <2>3 DEF RetryInv, AttemptRowInv
  <2> QED BY <1>1, <1>2, <1>4, <2>3, <2>4, FailureIsDriven
<1>5. ~RecordEarlyExit(w)
  BY <1>1, <1>2, RecordEarlyExitEffect DEF RevInv
<1>6. ~Completed(w)
  BY <1>1, <1>2, CompletedEffect
<1>7. ASSUME Activates(w), ~RecordFailure(w) PROVE work'[w] = work[w] \/ MovesOn(w)
  <2>1. ~Reserve(w) /\ ~Returned(w)
    BY <1>1 DEF Reserve, Returned, Waits, Reserved
  <2>2. CASE Prepared(w) \/ Spawn(w) \/ LaunchReturns(w)
    BY <1>1, <2>2, PreparedEffect, SpawnEffect, LaunchReturnsEffect DEF Stays, MovesOn, Reserved
  <2>3. CASE PreparationFails(w) \/ SpawnFails(w) \/ CompletionFails(w)
    BY <1>1, <2>3, FailsEffect DEF Stays, MovesOn, Reserved
  <2> QED BY <1>5, <1>6, <1>7, <2>1, <2>2, <2>3 DEF Activates, MarkHostKeyChanged
<1>8. ~Restart
  BY ServingBefore
<1>9. CASE work[w].step = "completing" /\ Kin(work'[w], work[w])
           /\ work'[w].step = work[w].step /\ work'[w].revision = work[w].revision
           /\ work'[w].generation = work[w].generation /\ work'[w].state = work[w].state
  BY <1>1, <1>3, <1>9 DEF MovesOn
<1> QED BY <1>1, <1>3, <1>4, <1>7, <1>8, <1>9, WorkCauses

LEMMA TimerIsDriven ==
    ASSUME TypeInv, TimerIdInv, CurrentTimerInv, DoneTimerInv, [Next]_vars, phase' = "serving",
           NEW s \in Session, rows'[s] = rows[s], rows[s].state = "reconnecting",
           s \notin stranded', TimerOf(s)
    PROVE  Driven(s)'
<1>1. phase = "serving" /\ s \notin stranded
  BY ServingBefore, StrandedStays DEF InFlight
<1> SUFFICES TimerOf(s)'
  BY DEF Driven
<1>2. timers[s] # NoTimer /\ timers[s].id # 0
  BY SessionParts DEF TimerOf, TypeInv
<1>3. CASE timers'[s] = timers[s]
  <2>1. CASE TimerIsCurrent(s)
    BY <1>2, <1>3, <2>1 DEF TimerOf, TimerIsCurrent
  <2>2. ASSUME NEW v \in Worker, work[v].step = "returned", work[v].session = s,
               work[v].timer = timers[s].id
        PROVE  TimerOf(s)'
    <3>1. CASE work'[v] = work[v]
      BY <1>2, <1>3, <2>2, <3>1 DEF TimerOf
    <3>2. CASE work'[v] # work[v]
      <4>1. Returned(v)
        <5>1. ~Restart /\ work[v] # Idle
          BY <2>2, ServingBefore DEF InFlight, Idle
        <5>2. Activates(v)
          BY <2>2, <3>2, <5>1, WorkCauses
        <5>3. work[v].step \notin Reserved \cup {"waiting"}
          BY <2>2 DEF Reserved
        <5> QED BY <2>2, <3>2, <5>2 DEF Activates, Reserve, Prepared, PreparationFails, Spawn,
                SpawnFails, LaunchReturns, Completed, CompletionFails, RecordEarlyExit,
                MarkHostKeyChanged, RecordFailure, Waits
      <4> QED BY <1>2, <1>3, <2>2, <4>1, ReturnedEffect
    <3> QED BY <3>1, <3>2
  <2> QED BY <2>1, <2>2 DEF TimerOf
<1>4. CASE IsDue(s) \/ IsSetByExit(s) \/ IsSetAgain(s)
  BY <1>4 DEF IsDue, IsSetByExit, IsSetAgain, TimerOf, TimerIsCurrent
<1>5. CASE timers'[s] = NoTimer
  <2>1. ~(timers[s].armed /\ ~TimerIsCurrent(s))
    BY <1>2 DEF TimerOf, TimerIdInv, Of, Idle
  <2>2. PICK v \in Worker : /\ Returned(v) /\ work[v].step = "returned" /\ work[v].session = s
                            /\ work[v].timer = timers[s].id
    BY <1>2, <1>5, <2>1, TimerGone
  <2>3. rows[s].revision \in Nat
    BY SessionParts DEF TypeInv
  <2>4. \/ work[v].code = "none"
        \/ /\ rows[s].generation = timers[s].generation
           /\ rows[s].revision # timers[s].revision
    BY <1>5, <2>2, <2>3, ReturnedEffect
  <2>5. work[v].code # "none"
    BY <1>1, <1>2, <2>2 DEF DoneTimerInv
  <2> QED BY <1>1, <1>2, <2>4, <2>5 DEF CurrentTimerInv
<1> QED BY <1>3, <1>4, <1>5, TimerSteps DEF TimerStep

LEMMA InFlightKept ==
    ASSUME TypeInv, RevInv, AttemptRowInv, TimerIdInv, RetryInv, HeldTimerInv, CurrentTimerInv,
           DoneTimerInv, InFlightIsDriven, [Next]_vars
    PROVE  InFlightIsDriven'
<1> SUFFICES ASSUME phase' = "serving", NEW s \in Session, rows'[s].state \in InFlight,
                    s \notin stranded'
             PROVE  Driven(s)'
  BY DEF InFlightIsDriven
<1>1. phase = "serving"
  BY ServingBefore
<1>2. CASE rows'[s] = rows[s]
  <2>1. Driven(s)
    BY <1>1, <1>2, StrandedStays DEF InFlightIsDriven
  <2> QED BY <1>2, <2>1, AttemptIsDriven, TimerIsDriven DEF Driven
<1>3. CASE rows'[s] # rows[s]
  <2>1. CASE Transfer(s)
    BY <2>1, TransferEffect DEF Transfer
  <2>2. CASE ExitNow(s)
    <3>1. PICK n \in 0 .. MaxAttempts : RecordExit(s, rows[s].generation, n)
      BY <2>2 DEF ExitNow
    <3>2. ~Disposed /\ rows[s].generation \in Nat
      BY <1>1, SessionParts DEF Disposed, TypeInv
    <3>3. /\ rows'[s].state = "reconnecting" /\ timers'[s] # NoTimer
          /\ timers'[s].generation = rows'[s].generation /\ timers'[s].revision = rows'[s].revision
      BY <1>3, <3>1, <3>2, RecordExitFacts DEF TypeInv, InFlight
    <3> QED BY <3>3 DEF Driven, TimerOf, TimerIsCurrent
  <2>3. ASSUME NEW w \in Worker, work[w].session = s, Reserve(w), Reservable(w) PROVE Driven(s)'
    <3>1. /\ Kin(work'[w], work[w]) /\ work'[w].step = "preparing"
          /\ work'[w].revision = rows'[s].revision /\ work'[w].generation = rows'[s].generation
      BY <2>3, ReserveEffect
    <3>2. AttemptOf(w, s)'
      BY <2>3, <3>1 DEF AttemptOf, Kin, Idle
    <3> QED BY <3>2 DEF Driven
  <2>4. ASSUME NEW w \in Worker, work[w].session = s, RecordFailure(w) PROVE Driven(s)'
    <3>1. /\ CompletionApplies(w, "reconnecting") /\ rows'[s].state = "reconnecting"
          /\ \E c \in Code : Retrying(w, c)
      BY <1>3, <2>4, RecordFailureEffect DEF InFlight
    <3> QED BY <2>4, <3>1, FailureIsDriven DEF CompletionApplies, Retrying
  <2> QED BY <1>3, <2>1, <2>2, <2>3, <2>4, InFlightCauses
<1> QED BY <1>2, <1>3

DrivenInv == /\ RetryInv /\ TimerGenInv /\ HeldTimerInv /\ CurrentTimerInv /\ DoneTimerInv
             /\ InFlightIsDriven

LEMMA DrivenHolds == Spec => []DrivenInv
<1>1. Init => DrivenInv
  <2> SUFFICES ASSUME Init PROVE DrivenInv
    OBVIOUS
  <2>1. \A w \in Worker : work[w] = Idle /\ work[w].step = "idle"
    BY DEF Init, Idle
  <2>2. \A s \in Session : rows[s].state = "absent" /\ timers[s] = NoTimer
    BY DEF Init
  <2>3. RetryInv /\ TimerGenInv
    BY <2>1, <2>2 DEF RetryInv, TimerGenInv, Reserved
  <2>4. HeldTimerInv /\ DoneTimerInv
    BY <2>1 DEF HeldTimerInv, DoneTimerInv, Reserved
  <2>5. CurrentTimerInv /\ InFlightIsDriven
    BY <2>2 DEF CurrentTimerInv, InFlightIsDriven, InFlight
  <2> QED BY <2>3, <2>4, <2>5 DEF DrivenInv
<1>2. TimedInv /\ DrivenInv /\ [Next]_vars => DrivenInv'
  <2> SUFFICES ASSUME TimedInv, DrivenInv, [Next]_vars PROVE DrivenInv'
    OBVIOUS
  <2>1. /\ TypeInv /\ TargetInv /\ SeenInv /\ FreshInv /\ RevInv /\ AttemptRowInv
        /\ TimerIdInv /\ TimerHeldInv
    BY DEF TimedInv, LiveInv, CoreInv
  <2>2. /\ RetryInv /\ TimerGenInv /\ HeldTimerInv /\ CurrentTimerInv /\ DoneTimerInv
        /\ InFlightIsDriven
    BY DEF DrivenInv
  <2>3. RetryInv' /\ TimerGenInv'
    BY <2>1, <2>2, RetryKept, TimerGenKept
  <2>4. HeldTimerInv' /\ CurrentTimerInv' /\ DoneTimerInv'
    BY <2>1, <2>2, HeldTimerKept, CurrentTimerKept, DoneTimerKept
  <2>5. InFlightIsDriven'
    BY <2>1, <2>2, InFlightKept
  <2> QED BY <2>3, <2>4, <2>5 DEF DrivenInv
<1> QED BY <1>1, <1>2, TimedHolds, PTL DEF Spec

\* While the service runs, a session that is connecting or reconnecting has an
\* attempt or a timer that will move it on; only a step outside activation (a tab
\* transfer, a repeated detach, a replacement that failed) leaves one behind.
THEOREM InFlightDriven == Spec => []InFlightIsDriven
<1>1. DrivenInv => InFlightIsDriven
  BY DEF DrivenInv
<1> QED BY <1>1, DrivenHolds, PTL
=============================================================================
