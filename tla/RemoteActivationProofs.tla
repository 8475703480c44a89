------------------------ MODULE RemoteActivationProofs ------------------------
(* Proofs about the remote sessions of a target, for any number of sessions  *)
(* and activations and any bound on the attempts.                            *)
EXTENDS RemoteActivation, FiniteSetTheorems, FunctionTheorems, TLAPS

\* The steps at which an activation holds the target's lock.
Reserved == {"preparing", "replacing", "spawned", "completing", "exitedEarly", "failing"}
Of(w, s) == work[w] # Idle /\ work[w].session = s
Live(s)  == attempts[s] # NoAttempt /\ attempts[s].terminal

\* What an activation keeps while it goes through its steps.
ShapeOK(a) ==
    /\ a.timer = 0 <=> a.attempt = 0
    /\ a.attempt <= limit[a.session]
    /\ a.step \in Reserved => a.generation # 0 /\ a.state # "none"
    /\ a.step = "returned" => a.attempt > 0
    /\ a.step = "exitedEarly" => a.exited
    /\ a.exited => a.step \notin {"waiting", "preparing", "replacing", "spawned"}

\* Who has asked for the lock is in its queue, once, and who works is its head.
InLock(x) == \E i \in 1 .. Len(lock) : lock[i] = x
LockInv ==
    /\ \A i, j \in 1 .. Len(lock) : lock[i] = lock[j] => i = j
    /\ \A w \in Worker : InLock(w) <=> work[w].step \notin {"idle", "returned"}
    /\ InLock(Upkeep) <=> upkeep # Idle
    /\ \A w \in Worker : work[w].step \in Reserved => lock[1] = w
    /\ upkeep.step = "revoking" => lock[1] = Upkeep

TypeInv ==
    /\ TypeOK
    /\ \A w \in Worker : work[w] # Idle => ShapeOK(work[w])
    /\ \A s \in Session : timers[s] # NoTimer => timers[s].attempt <= limit[s]
    /\ LockInv

-----------------------------------------------------------------------------
(* The parts of the state, and what the updates of the records do.           *)

LEMMA WorkParts ==
    ASSUME TypeOK, NEW w \in Worker
    PROVE  /\ work[w] = Idle <=> work[w].step = "idle"
           /\ work[w].step # "idle" =>
                /\ work[w] \in Activation
                /\ work[w].step \in Step /\ work[w].session \in Session
                /\ work[w].attempt \in 0 .. MaxAttempts /\ work[w].timer \in TimerId \cup {0}
                /\ work[w].revision \in Nat /\ work[w].generation \in Nat
                /\ work[w].state \in InFlight \cup {"none"} /\ work[w].targetRevision \in Nat
                /\ work[w].previous \in Nat /\ work[w].exited \in BOOLEAN /\ work[w].code \in Code
<1>1. work[w] \in Activation \cup {Idle}
  BY DEF TypeOK
<1>2. Idle.step = "idle"
  BY DEF Idle
<1>3. CASE work[w] = Idle
  BY <1>2, <1>3
<1>4. CASE work[w] \in Activation
  BY <1>4, <1>2 DEF Activation, Step, Generation
<1> QED BY <1>1, <1>3, <1>4

LEMMA SessionParts ==
    ASSUME TypeOK, NEW s \in Session
    PROVE  /\ rows[s] \in Row /\ rows[s].generation \in Nat /\ rows[s].generation # 0
           /\ rows[s].revision \in Nat /\ rows[s].state \in Lifecycle
           /\ timers[s] = NoTimer <=> timers[s].id = 0
           /\ timers[s] # NoTimer =>
                /\ timers[s] \in Timer
                /\ timers[s].id \in TimerId /\ timers[s].generation \in Generation
                /\ timers[s].revision \in Nat /\ timers[s].attempt \in 1 .. MaxAttempts
                /\ timers[s].armed \in BOOLEAN
           /\ attempts[s] = NoAttempt <=> attempts[s].generation = 0
           /\ attempts[s].generation \in Nat
           /\ attempts[s] # NoAttempt =>
                /\ attempts[s] \in Attempt
                /\ attempts[s].generation \in Generation
                /\ attempts[s].attempt \in 0 .. MaxAttempts /\ attempts[s].terminal \in BOOLEAN
           /\ released[s] \in Nat /\ spent[s] \in Nat /\ limit[s] \in 0 .. MaxAttempts
<1>1. rows[s] \in Row /\ timers[s] \in Timer \cup {NoTimer} /\ attempts[s] \in Attempt \cup {NoAttempt}
      /\ released[s] \in Generation \cup {0} /\ spent[s] \in Nat /\ limit[s] \in 0 .. MaxAttempts
  BY DEF TypeOK
<1>2. /\ rows[s].generation \in Nat /\ rows[s].generation # 0
      /\ rows[s].revision \in Nat /\ rows[s].state \in Lifecycle
  BY <1>1 DEF Row, Generation
<1>3. NoTimer.id = 0 /\ NoAttempt.generation = 0 /\ 0 \notin TimerId
  BY DEF NoTimer, NoAttempt, TimerId
<1>4. timers[s] \in Timer =>
                /\ timers[s].id \in TimerId /\ timers[s].generation \in Generation
                /\ timers[s].revision \in Nat /\ timers[s].attempt \in 1 .. MaxAttempts
                /\ timers[s].armed \in BOOLEAN
  BY DEF Timer
<1>5. attempts[s] \in Attempt =>
                /\ attempts[s].generation \in Nat /\ attempts[s].generation # 0
                /\ attempts[s].attempt \in 0 .. MaxAttempts /\ attempts[s].terminal \in BOOLEAN
  BY DEF Attempt, Generation
<1>6. released[s] \in Nat
  BY <1>1 DEF Generation
<1> QED BY <1>1, <1>2, <1>3, <1>4, <1>5, <1>6 DEF Generation

LEMMA TargetParts ==
    ASSUME TypeOK
    PROVE  /\ target.hostKey \in HostKey /\ target.revision \in Nat
           /\ target.deleting \in BOOLEAN /\ target.enrolling \in Nat
           /\ upkeep = Idle <=> upkeep.step = "idle"
           /\ upkeep # Idle => /\ upkeep \in UpkeepWork
                               /\ upkeep.kind \in {"delete", "replace"}
                               /\ upkeep.step \in {"waiting", "revoking"}
                               /\ upkeep.todo \subseteq Transport /\ upkeep.revoked \subseteq Transport
<1>1. Idle.step = "idle"
  BY DEF Idle
<1> QED BY <1>1 DEF TypeOK, Target, UpkeepWork

LEMMA ExitParts ==
    ASSUME TypeOK, NEW e \in exits
    PROVE  /\ e.session \in Session /\ e.generation \in Nat /\ e.generation # 0
           /\ e.attempt \in 0 .. MaxAttempts /\ e.settled \in BOOLEAN
           /\ [e EXCEPT !.settled = TRUE] \in Exit
           /\ [e EXCEPT !.settled = TRUE].session = e.session
           /\ [e EXCEPT !.settled = TRUE].generation = e.generation
           /\ [e EXCEPT !.settled = TRUE].attempt = e.attempt
           /\ [e EXCEPT !.settled = TRUE].settled
<1>1. e \in Exit
  BY DEF TypeOK
<1> QED BY <1>1 DEF Exit, Generation

\* An activation keeps its session, its attempt and its timer.
Kin(b, a) == /\ b \in Activation
             /\ b.session = a.session /\ b.attempt = a.attempt /\ b.timer = a.timer

LEMMA StepMoves ==
    ASSUME NEW a \in Activation, NEW k \in Step
    PROVE  LET b == [a EXCEPT !.step = k]
           IN  /\ Kin(b, a) /\ b.step = k /\ b.revision = a.revision /\ b.generation = a.generation
               /\ b.state = a.state /\ b.targetRevision = a.targetRevision
               /\ b.exited = a.exited /\ b.code = a.code
  BY DEF Activation, Kin

LEMMA ReturnMoves ==
    ASSUME NEW a \in Activation, NEW c \in Code
    PROVE  LET b == [a EXCEPT !.step = "returned", !.code = c, !.revision = 0, !.targetRevision = 0]
           IN  /\ Kin(b, a) /\ b.step = "returned" /\ b.revision = 0 /\ b.generation = a.generation
               /\ b.exited = a.exited /\ b.code = c
  BY DEF Activation, Kin, Step

LEMMA ExitedMoves ==
    ASSUME NEW a \in Activation
    PROVE  LET b == [a EXCEPT !.exited = TRUE]
           IN  /\ Kin(b, a) /\ b.step = a.step /\ b.revision = a.revision
               /\ b.generation = a.generation /\ b.state = a.state
               /\ b.targetRevision = a.targetRevision /\ b.exited /\ b.code = a.code
  BY DEF Activation, Kin

\* A timer id that no activation of the session was started by.
LEMMA FreshIdFacts ==
    ASSUME TypeOK, NEW s \in Session
    PROVE  /\ FreshId(s) \in TimerId
           /\ \A w \in Worker : Of(w, s) => work[w].timer # FreshId(s)
<1> DEFINE f == [w \in Worker |-> work[w].timer]
<1>1. f \in Surjection(Worker, Range(f))
  <2>1. f \in [Worker -> Range(f)]
    BY DEF Range
  <2> HIDE DEF f
  <2> QED BY <2>1, Fun_RangeProperties
<1>2. IsFiniteSet(Range(f)) /\ Cardinality(Range(f)) <= Cardinality(Worker)
  BY <1>1, WorkerAssumption, FS_Surjection
<1>3. Cardinality(Worker) \in Nat
  BY WorkerAssumption, FS_CardinalityType
<1>4. Cardinality(TimerId) = Cardinality(Worker) + 1
  BY <1>3, FS_Interval DEF TimerId
<1>5. ~ (TimerId \subseteq Range(f))
  <2>1. SUFFICES ASSUME TimerId \subseteq Range(f) PROVE FALSE
    OBVIOUS
  <2>2. Cardinality(TimerId) <= Cardinality(Range(f))
    BY <1>2, <2>1, FS_Subset
  <2>3. Cardinality(Range(f)) \in Nat
    BY <1>2, FS_CardinalityType
  <2> QED BY <1>2, <1>3, <1>4, <2>2, <2>3
<1>6. PICK i \in TimerId : i \notin Range(f)
  BY <1>5
<1>7. \A w \in Worker : work[w].timer # i
  BY <1>6 DEF Range
<1>8. \E j \in TimerId : \A w \in Worker :
        ~(work[w].step # "idle" /\ work[w].session = s /\ work[w].timer = j)
  BY <1>7
<1>9. /\ FreshId(s) \in TimerId
      /\ \A w \in Worker : ~(work[w].step # "idle" /\ work[w].session = s /\ work[w].timer = FreshId(s))
  BY <1>8, Zenon DEF FreshId
<1> QED BY <1>9, WorkParts DEF Of

-----------------------------------------------------------------------------
(* What the helpers of the service do.                                       *)

LEMMA RequestedFacts ==
    ASSUME TypeOK, Requested
    PROVE  requests' \in 0 .. MaxRequests
  BY BoundAssumption DEF TypeOK, Requested

LockQueue == Seq(Worker \cup {Upkeep})

\* The lock's queue with one more in it, or without its head.
LEMMA Queued ==
    ASSUME TypeInv, NEW x \in Worker \cup {Upkeep}, ~InLock(x), lock' = Append(lock, x)
    PROVE  /\ lock' \in LockQueue
           /\ \A i, j \in 1 .. Len(lock') : lock'[i] = lock'[j] => i = j
           /\ \A y : InLock(y)' <=> InLock(y) \/ y = x
           /\ \A y : InLock(y) /\ lock[1] = y => lock'[1] = y
<1>1. lock \in LockQueue /\ \A i, j \in 1 .. Len(lock) : lock[i] = lock[j] => i = j
  BY DEF TypeInv, TypeOK, LockInv, LockQueue
<1>2. /\ lock' \in LockQueue /\ Len(lock') = Len(lock) + 1 /\ Len(lock) \in Nat
      /\ \A i \in 1 .. Len(lock) : lock'[i] = lock[i]
      /\ lock'[Len(lock) + 1] = x
  BY <1>1 DEF LockQueue
<1>3. \A i \in 1 .. Len(lock') : i \in 1 .. Len(lock) \/ i = Len(lock) + 1
  BY <1>2
<1>4. \A i \in 1 .. Len(lock) : lock[i] # x
  BY DEF InLock
<1>5. \A i, j \in 1 .. Len(lock') : lock'[i] = lock'[j] => i = j
  BY <1>1, <1>2, <1>3, <1>4
<1>6. \A y : InLock(y)' <=> InLock(y) \/ y = x
  BY <1>2, <1>3 DEF InLock
<1>7. \A y : InLock(y) /\ lock[1] = y => lock'[1] = y
  BY <1>2 DEF InLock
<1> QED BY <1>2, <1>5, <1>6, <1>7

LEMMA Passed ==
    ASSUME TypeInv, NEW x, InLock(x), lock[1] = x, lock' = Tail(lock)
    PROVE  /\ lock' \in LockQueue
           /\ \A i, j \in 1 .. Len(lock') : lock'[i] = lock'[j] => i = j
           /\ \A y : InLock(y)' <=> InLock(y) /\ y # x
<1>1. lock \in LockQueue /\ \A i, j \in 1 .. Len(lock) : lock[i] = lock[j] => i = j
  BY DEF TypeInv, TypeOK, LockInv, LockQueue
<1>2. Len(lock) \in Nat /\ Len(lock) >= 1 /\ lock # <<>>
  BY <1>1 DEF InLock, LockQueue
<1>3. /\ lock' \in LockQueue /\ Len(lock') = Len(lock) - 1
      /\ \A i \in 1 .. Len(lock') : lock'[i] = lock[i + 1]
  BY <1>1, <1>2 DEF LockQueue
<1>4. \A i, j \in 1 .. Len(lock') : lock'[i] = lock'[j] => i = j
  <2> SUFFICES ASSUME NEW i \in 1 .. Len(lock'), NEW j \in 1 .. Len(lock'), lock'[i] = lock'[j]
               PROVE  i = j
    OBVIOUS
  <2>1. i + 1 \in 1 .. Len(lock) /\ j + 1 \in 1 .. Len(lock) /\ lock[i + 1] = lock[j + 1]
    BY <1>2, <1>3
  <2>2. i + 1 = j + 1
    BY <1>1, <2>1
  <2> QED BY <2>2
<1>5. ASSUME NEW y PROVE InLock(y)' <=> InLock(y) /\ y # x
  <2>1. ASSUME NEW i \in 1 .. Len(lock'), lock'[i] = y PROVE InLock(y) /\ y # x
    <3>1. i + 1 \in 1 .. Len(lock) /\ lock[i + 1] = y /\ 1 \in 1 .. Len(lock) /\ i + 1 # 1
      BY <1>2, <1>3, <2>1
    <3>2. lock[i + 1] # lock[1]
      BY <1>1, <3>1
    <3> QED BY <3>1, <3>2 DEF InLock
  <2>2. ASSUME NEW i \in 1 .. Len(lock), lock[i] = y, y # x PROVE InLock(y)'
    <3>1. i # 1 /\ i - 1 \in 1 .. Len(lock') /\ lock'[i - 1] = y
      BY <1>2, <1>3, <2>2
    <3> QED BY <3>1 DEF InLock
  <2> QED BY <2>1, <2>2 DEF InLock
<1> QED BY <1>3, <1>4, <1>5

\* One activation or one piece of upkeep works at a time.
LEMMA Exclusion ==
    ASSUME TypeInv
    PROVE  /\ \A v, w \in Worker : work[v].step \in Reserved /\ work[w].step \in Reserved => v = w
           /\ \A w \in Worker : work[w].step \in Reserved =>
                InLock(w) /\ lock # <<>> /\ upkeep.step # "revoking" /\ ~Holds(Upkeep)
           /\ \A v, w \in Worker : Holds(v) /\ work[w].step \in Reserved => w = v
           /\ upkeep.step = "revoking" => InLock(Upkeep) /\ lock # <<>>
           /\ \A x : Holds(x) => InLock(x) /\ lock[1] = x
<1>1. lock \in LockQueue /\ Upkeep \notin Worker
  BY WorkerAssumption DEF TypeInv, TypeOK, LockQueue
<1>2. \A w \in Worker : work[w].step \in Reserved => InLock(w) /\ lock[1] = w
  BY DEF TypeInv, LockInv, Reserved
<1>3. upkeep.step = "revoking" => InLock(Upkeep) /\ lock[1] = Upkeep
  BY DEF TypeInv, LockInv, Idle
<1>4. \A x : InLock(x) => lock # <<>>
  BY <1>1 DEF InLock, LockQueue
<1>5. \A x : Holds(x) => InLock(x) /\ lock[1] = x
  BY <1>1 DEF InLock, Holds, LockQueue
<1> QED BY <1>1, <1>2, <1>3, <1>4, <1>5

\* The row that a reservation writes.
LEMMA ReservedRowFacts ==
    ASSUME NEW row \in Row, row.state \in Startable
    PROVE  LET b == ReservedRow(row)
           IN  /\ b \in Row /\ b.state \in InFlight
               /\ b.state = (IF row.state = "reconnecting" THEN "reconnecting" ELSE "connecting")
               /\ b.generation = IF row.state \in {"detached", "reconnecting"}
                                 THEN row.generation + 1 ELSE row.generation
               /\ b.generation \in Generation /\ b.revision = row.revision + 1 /\ b.revision \in Nat
<1> DEFINE st == IF row.state = "reconnecting" THEN row.state ELSE "connecting"
           g  == IF row.state \in {"detached", "reconnecting"} THEN row.generation + 1 ELSE row.generation
           r  == row.revision + 1
<1>1. row.generation \in Nat /\ row.generation # 0 /\ row.revision \in Nat
  BY DEF Row, Generation
<1>2. st \in InFlight /\ st \in Lifecycle /\ g \in Generation /\ r \in Nat
      /\ st = IF row.state = "reconnecting" THEN "reconnecting" ELSE "connecting"
  BY <1>1 DEF InFlight, Lifecycle, Generation
<1>3. ReservedRow(row) = [row EXCEPT !.state = st, !.generation = g, !.revision = r]
  BY DEF ReservedRow
<1> HIDE DEF st, g, r
<1>4. LET c == [row EXCEPT !.state = st, !.generation = g, !.revision = r]
      IN  c \in Row /\ c.state = st /\ c.revision = r /\ c.generation = g
  BY <1>2 DEF Row
<1> QED BY <1>2, <1>3, <1>4 DEF st, g, r

LEMMA TerminateFacts ==
    ASSUME TypeOK, NEW s \in Session, NEW g \in Nat, g # 0, Terminate(s, g)
    PROVE  /\ attempts' \in [Session -> Attempt \cup {NoAttempt}] /\ stopping' \subseteq Transport
           /\ \A x \in Session : attempts'[x] = IF x = s /\ Owns(s, g) THEN NoAttempt ELSE attempts[x]
           /\ \A t : t \in stopping' <=> t \in stopping \/ (t = <<s, g>> /\ Owns(s, g) /\ Live(s))
           /\ Owns(s, g) => attempts[s] # NoAttempt
<1>1. attempts \in [Session -> Attempt \cup {NoAttempt}] /\ stopping \subseteq Transport
  BY DEF TypeOK
<1>2. Owns(s, g) => attempts[s] # NoAttempt
  BY DEF Owns, NoAttempt
<1>3. <<s, g>> \in Transport
  BY DEF Transport, Generation
<1> QED BY <1>1, <1>2, <1>3 DEF Terminate, Live

\* A timer that is set.
LEMMA TimedFacts ==
    ASSUME TypeOK, NEW s \in Session, NEW row \in Row, NEW n \in 1 .. limit[s],
           timers' = Timed(s, row, n)
    PROVE  /\ timers' \in [Session -> Timer \cup {NoTimer}]
           /\ \A x \in Session : x # s => timers'[x] = timers[x]
           /\ timers'[s] # NoTimer /\ timers'[s].id = FreshId(s)
           /\ timers'[s].generation = row.generation /\ timers'[s].revision = row.revision
           /\ timers'[s].attempt = n /\ timers'[s].armed
<1> DEFINE t == [id |-> FreshId(s), generation |-> row.generation,
                 revision |-> row.revision, attempt |-> n, armed |-> TRUE]
<1>1. limit[s] \in 0 .. MaxAttempts /\ timers \in [Session -> Timer \cup {NoTimer}]
  BY DEF TypeOK
<1>2. row.generation \in Generation /\ row.revision \in Nat /\ n \in 1 .. MaxAttempts
  BY <1>1, BoundAssumption DEF Row
<1>3. t \in Timer
  BY <1>2, FreshIdFacts DEF Timer
<1>4. timers' = [timers EXCEPT ![s] = t]
  BY DEF Timed
<1>5. t # NoTimer
  BY FreshIdFacts DEF NoTimer, TimerId
<1>6. timers'[s] = t
  BY <1>1, <1>4
<1> QED BY <1>1, <1>3, <1>4, <1>5, <1>6

\* What the exit of a connection does to its session: nothing, or the row moves
\* on within its generation and may get a new timer.
LEMMA RecordExitFacts ==
    ASSUME TypeOK, NEW s \in Session, NEW g \in Nat, NEW attempt \in 0 .. MaxAttempts,
           RecordExit(s, g, attempt)
    PROVE  \/ UNCHANGED <<rows, timers, spent>> /\ ~ExitApplies(s, g)
           \/ /\ ExitApplies(s, g)
              /\ rows' \in [Session -> Row] /\ timers' \in [Session -> Timer \cup {NoTimer}]
              /\ spent' \in [Session -> Nat]
              /\ \A x \in Session : x # s =>
                    rows'[x] = rows[x] /\ timers'[x] = timers[x] /\ spent'[x] = spent[x]
              /\ rows'[s].generation = g /\ rows'[s].revision > rows[s].revision
              /\ spent'[s] \in {0, spent[s]}
              /\ \/ /\ rows'[s].state = "reconnecting" /\ rows[s].state = "connected"
                    /\ ~Disposed
                    /\ timers'[s] # NoTimer /\ timers'[s].id = FreshId(s)
                    /\ timers'[s].generation = g /\ timers'[s].revision = rows'[s].revision
                    /\ timers'[s].attempt <= limit[s] /\ timers'[s].armed
                    /\ spent[s] <= attempt => spent'[s] < timers'[s].attempt
                 \/ /\ rows'[s].state = "reconnecting" /\ rows[s].state = "connected"
                    /\ Disposed /\ timers' = timers
                 \/ /\ rows'[s].state = "detached" /\ rows[s].state = "connected"
                    /\ limit[s] = 0 /\ timers' = timers
                 \/ rows'[s].state = "failed" /\ timers'[s] \in {timers[s], NoTimer}
<1>1. PICK stable \in BOOLEAN :
        LET next    == RetryAfterTransportExit(attempt, stable)
            after   == AfterExit(s)
            usedUp  == after = "reconnecting" /\ ~Disposed /\ UsedUp(s, next)
        IN  IF ~ExitApplies(s, g)
            THEN UNCHANGED <<rows, timers, spent>>
            ELSE /\ rows' = [rows EXCEPT ![s].state = IF usedUp THEN "failed" ELSE after,
                                         ![s].revision = @ + IF usedUp THEN 2 ELSE 1]
                 /\ spent' = [spent EXCEPT ![s] = IF stable THEN 0 ELSE @]
                 /\ timers' = IF after # "reconnecting" \/ Disposed THEN timers
                              ELSE IF usedUp THEN Untimed(s) ELSE Timed(s, rows'[s], next)
  BY DEF RecordExit
<1> DEFINE next   == RetryAfterTransportExit(attempt, stable)
           after  == AfterExit(s)
           usedUp == after = "reconnecting" /\ ~Disposed /\ UsedUp(s, next)
           st     == IF usedUp THEN "failed" ELSE after
           r      == rows[s].revision + IF usedUp THEN 2 ELSE 1
<1> SUFFICES ASSUME ExitApplies(s, g)
             PROVE  /\ rows' \in [Session -> Row] /\ timers' \in [Session -> Timer \cup {NoTimer}]
                    /\ spent' \in [Session -> Nat]
                    /\ \A x \in Session : x # s =>
                         rows'[x] = rows[x] /\ timers'[x] = timers[x] /\ spent'[x] = spent[x]
                    /\ rows'[s].generation = g /\ rows'[s].revision > rows[s].revision
                    /\ spent'[s] \in {0, spent[s]}
                    /\ \/ /\ rows'[s].state = "reconnecting" /\ rows[s].state = "connected"
                          /\ ~Disposed
                          /\ timers'[s] # NoTimer /\ timers'[s].id = FreshId(s)
                          /\ timers'[s].generation = g /\ timers'[s].revision = rows'[s].revision
                          /\ timers'[s].attempt <= limit[s] /\ timers'[s].armed
                          /\ spent[s] <= attempt => spent'[s] < timers'[s].attempt
                       \/ /\ rows'[s].state = "reconnecting" /\ rows[s].state = "connected"
                          /\ Disposed /\ timers' = timers
                       \/ /\ rows'[s].state = "detached" /\ rows[s].state = "connected"
                          /\ limit[s] = 0 /\ timers' = timers
                       \/ rows'[s].state = "failed" /\ timers'[s] \in {timers[s], NoTimer}
  BY <1>1
<1>2. /\ rows' = [rows EXCEPT ![s].state = st, ![s].revision = @ + IF usedUp THEN 2 ELSE 1]
      /\ spent' = [spent EXCEPT ![s] = IF stable THEN 0 ELSE @]
      /\ timers' = IF after # "reconnecting" \/ Disposed THEN timers
                   ELSE IF usedUp THEN Untimed(s) ELSE Timed(s, rows'[s], next)
  BY <1>1
<1>3. /\ rows \in [Session -> Row] /\ spent \in [Session -> Nat]
      /\ timers \in [Session -> Timer \cup {NoTimer}] /\ spent[s] \in Nat
      /\ limit[s] \in 0 .. MaxAttempts /\ rows[s].generation = g
  BY DEF TypeOK, ExitApplies
<1>4. /\ next \in Nat /\ next >= 1 /\ (~stable => attempt < next)
      /\ (UsedUp(s, next) <=> next > limit[s])
  BY DEF RetryAfterTransportExit, UsedUp
<1>5. /\ after = "reconnecting" => rows[s].state = "connected" /\ limit[s] > 0
      /\ after = "detached" => rows[s].state = "connected" /\ limit[s] = 0
      /\ after \in {"failed", "reconnecting", "detached"}
  BY <1>3 DEF AfterExit
<1>6. st \in Lifecycle /\ r \in Nat /\ r > rows[s].revision
  BY <1>5, SessionParts DEF Lifecycle
<1>7. /\ rows' \in [Session -> Row] /\ \A x \in Session : x # s => rows'[x] = rows[x]
      /\ rows'[s].state = st /\ rows'[s].generation = g /\ rows'[s].revision > rows[s].revision
      /\ rows'[s] \in Row
  <2> HIDE DEF st, usedUp
  <2> QED BY <1>2, <1>3, <1>6 DEF Row
<1>8. /\ spent' \in [Session -> Nat] /\ spent'[s] = (IF stable THEN 0 ELSE spent[s])
      /\ \A x \in Session : x # s => spent'[x] = spent[x]
  BY <1>2, <1>3
<1>9. CASE after # "reconnecting" \/ Disposed
  BY <1>2, <1>3, <1>5, <1>7, <1>8, <1>9
<1>10. CASE after = "reconnecting" /\ ~Disposed /\ usedUp
  <2>1. /\ timers' \in [Session -> Timer \cup {NoTimer}] /\ timers'[s] = NoTimer
        /\ \A x \in Session : x # s => timers'[x] = timers[x]
    BY <1>2, <1>3, <1>10 DEF Untimed
  <2> QED BY <2>1, <1>7, <1>8, <1>10
<1>11. CASE after = "reconnecting" /\ ~Disposed /\ ~usedUp
  <2>1. next \in 1 .. limit[s]
    BY <1>3, <1>4, <1>11
  <2>2. timers' = Timed(s, rows'[s], next)
    BY <1>2, <1>11
  <2> HIDE DEF next
  <2>3. /\ timers' \in [Session -> Timer \cup {NoTimer}]
        /\ \A x \in Session : x # s => timers'[x] = timers[x]
        /\ timers'[s] # NoTimer /\ timers'[s].id = FreshId(s)
        /\ timers'[s].generation = rows'[s].generation /\ timers'[s].revision = rows'[s].revision
        /\ timers'[s].attempt = next /\ timers'[s].armed
    BY <1>7, <2>1, <2>2, TimedFacts
  <2>4. timers'[s].attempt <= limit[s]
    BY <2>1, <2>3, <1>3
  <2>5. spent[s] <= attempt => spent'[s] < timers'[s].attempt
    BY <2>3, <1>3, <1>4, <1>8
  <2>6. rows'[s].state = "reconnecting" /\ rows[s].state = "connected"
    BY <1>5, <1>7, <1>11
  <2> HIDE DEF usedUp
  <2> QED BY <2>3, <2>4, <2>5, <2>6, <1>7, <1>8, <1>11
<1> QED BY <1>9, <1>10, <1>11

-----------------------------------------------------------------------------
(* Types, and whose turn it is.                                              *)

WorkInv ==
    /\ work \in [Worker -> Activation \cup {Idle}] /\ lock \in LockQueue
    /\ upkeep \in UpkeepWork \cup {Idle}
    /\ \A w \in Worker : work[w] # Idle => ShapeOK(work[w])
    /\ LockInv

DataInv ==
    /\ rows \in [Session -> Row] /\ target \in Target
    /\ timers \in [Session -> Timer \cup {NoTimer}]
    /\ attempts \in [Session -> Attempt \cup {NoAttempt}]
    /\ transports \subseteq Transport /\ stopping \subseteq Transport /\ exits \subseteq Exit
    /\ phase \in {"recovering", "serving", "disposing", "disposed"}
    /\ stranded \subseteq Session /\ released \in [Session -> Generation \cup {0}]
    /\ tmux \subseteq Session /\ spent \in [Session -> Nat] /\ limit \in [Session -> 0 .. MaxAttempts]
    /\ requests \in 0 .. MaxRequests
    /\ \A s \in Session : timers[s] # NoTimer => timers[s].attempt <= limit[s]

LEMMA TypeInvParts == TypeInv <=> WorkInv /\ DataInv
  BY DEF TypeInv, TypeOK, WorkInv, DataInv, LockQueue

LEMMA TypeInvPartsNext == WorkInv' /\ DataInv' => TypeInv'
  BY DEF TypeInv, TypeOK, WorkInv, DataInv, LockQueue

\* An activation starts, moves on while it holds the lock, returns, or ends.
LEMMA Starts ==
    ASSUME TypeInv, NEW w \in Worker, NEW a \in Activation, work[w] = Idle, a.step = "waiting",
           ShapeOK(a), UNCHANGED <<limit, upkeep>>, lock' = Append(lock, w),
           work' = [work EXCEPT ![w] = a]
    PROVE  WorkInv' /\ work'[w] = a /\ \A v \in Worker : v # w => work'[v] = work[v]
<1>1. /\ work \in [Worker -> Activation \cup {Idle}] /\ upkeep \in UpkeepWork \cup {Idle}
      /\ Upkeep \notin Worker /\ ~InLock(w) /\ Idle.step = "idle"
      /\ \A v \in Worker : work[v] # Idle => ShapeOK(work[v])
  BY WorkerAssumption DEF TypeInv, TypeOK, LockInv, Idle
<1>2. /\ work' \in [Worker -> Activation \cup {Idle}] /\ work'[w] = a
      /\ \A v \in Worker : v # w => work'[v] = work[v]
  BY <1>1
<1>3. \A v \in Worker : work'[v] # Idle => ShapeOK(work[v])'
  BY <1>1, <1>2 DEF ShapeOK
<1>4. /\ lock' \in LockQueue
      /\ \A i, j \in 1 .. Len(lock') : lock'[i] = lock'[j] => i = j
      /\ \A y : InLock(y)' <=> InLock(y) \/ y = w
      /\ \A y : InLock(y) /\ lock[1] = y => lock'[1] = y
  BY <1>1, Queued
<1>5. LockInv'
  <2>1. \A v \in Worker : InLock(v)' <=> work'[v].step \notin {"idle", "returned"}
    BY <1>2, <1>4 DEF TypeInv, LockInv
  <2>2. InLock(Upkeep)' <=> upkeep' # Idle
    BY <1>1, <1>4 DEF TypeInv, LockInv
  <2>3. \A v \in Worker : work'[v].step \in Reserved => lock'[1] = v
    BY <1>2, <1>4, Exclusion DEF TypeInv, LockInv, Reserved
  <2>4. upkeep'.step = "revoking" => lock'[1] = Upkeep
    BY <1>4, Exclusion DEF TypeInv, LockInv
  <2> QED BY <1>4, <2>1, <2>2, <2>3, <2>4 DEF LockInv
<1> QED BY <1>1, <1>2, <1>3, <1>4, <1>5 DEF WorkInv

LEMMA Moves ==
    ASSUME TypeInv, NEW w \in Worker, NEW b, Kin(b, work[w]),
           work[w].step \in Reserved \/ (work[w].step = "waiting" /\ Holds(w)),
           b.step \in Reserved, ShapeOK(b), UNCHANGED <<limit, upkeep, lock>>,
           work' = [work EXCEPT ![w] = b]
    PROVE  WorkInv' /\ work'[w] = b /\ \A v \in Worker : v # w => work'[v] = work[v]
<1>1. /\ work \in [Worker -> Activation \cup {Idle}] /\ b \in Activation
      /\ lock \in LockQueue /\ upkeep \in UpkeepWork \cup {Idle}
      /\ \A v \in Worker : work[v] # Idle => ShapeOK(work[v])
  BY DEF TypeInv, TypeOK, Kin, LockQueue
<1>2. /\ work' \in [Worker -> Activation \cup {Idle}] /\ work'[w] = b
      /\ \A v \in Worker : v # w => work'[v] = work[v]
  BY <1>1
<1>3. \A v \in Worker : work'[v] # Idle => ShapeOK(work[v])'
  BY <1>1, <1>2 DEF ShapeOK
<1>4. InLock(w) /\ lock[1] = w
  BY Exclusion DEF TypeInv, LockInv
<1>5. \A x : InLock(x)' <=> InLock(x)
  BY DEF InLock
<1>6. LockInv'
  BY <1>2, <1>4, <1>5 DEF TypeInv, LockInv, Reserved
<1> QED BY <1>1, <1>2, <1>3, <1>6 DEF WorkInv

LEMMA Returns ==
    ASSUME TypeInv, NEW w \in Worker, NEW c \in Code, Return(w, c),
           work[w].step \in Reserved \/ (work[w].step = "waiting" /\ Holds(w)),
           UNCHANGED <<limit, upkeep>>
    PROVE  /\ WorkInv' /\ \A v \in Worker : v # w => work'[v] = work[v]
           /\ \/ work'[w] = Idle /\ work[w].attempt = 0
              \/ /\ Kin(work'[w], work[w]) /\ work[w].attempt > 0 /\ work'[w].step = "returned"
                 /\ work'[w].revision = 0 /\ work'[w].generation = work[w].generation
                 /\ work'[w].code = c
           /\ work'[w].step \in {"idle", "returned"}
<1>1. /\ work \in [Worker -> Activation \cup {Idle}]
      /\ lock \in LockQueue /\ upkeep \in UpkeepWork \cup {Idle} /\ Upkeep \notin Worker
      /\ Idle.step = "idle" /\ \A v \in Worker : work[v] # Idle => ShapeOK(work[v])
  BY WorkerAssumption DEF TypeInv, TypeOK, LockQueue, Idle
<1>2. /\ work[w] \in Activation /\ work[w] # Idle /\ work[w].attempt \in Nat
  BY WorkParts, BoundAssumption DEF TypeInv, Reserved
<1>3. InLock(w) /\ lock[1] = w
  BY Exclusion DEF TypeInv, LockInv
<1> DEFINE h == [work[w] EXCEPT !.step = "returned", !.code = c, !.revision = 0, !.targetRevision = 0]
<1>4. /\ Kin(h, work[w]) /\ h.step = "returned" /\ h.revision = 0
      /\ h.generation = work[w].generation /\ h.exited = work[w].exited /\ h.code = c
  BY <1>2, ReturnMoves
<1>5. work' = [work EXCEPT ![w] = IF work[w].attempt = 0 THEN Idle ELSE h] /\ lock' = Tail(lock)
  BY DEF Return
<1> HIDE DEF h
<1>6. /\ work' \in [Worker -> Activation \cup {Idle}]
      /\ work'[w] = (IF work[w].attempt = 0 THEN Idle ELSE h)
      /\ \A v \in Worker : v # w => work'[v] = work[v]
  BY <1>1, <1>4, <1>5 DEF Kin
<1>7. \A v \in Worker : work'[v] # Idle => ShapeOK(work[v])'
  <2>1. work[w].attempt # 0 => ShapeOK(h)
    BY <1>1, <1>2, <1>4 DEF ShapeOK, Kin, Reserved
  <2>2. \A x : ShapeOK(x)' <=> ShapeOK(x)
    BY DEF ShapeOK
  <2> QED BY <1>1, <1>6, <2>1, <2>2
<1>8. /\ lock' \in LockQueue
      /\ \A i, j \in 1 .. Len(lock') : lock'[i] = lock'[j] => i = j
      /\ \A y : InLock(y)' <=> InLock(y) /\ y # w
  BY <1>3, <1>5, Passed
<1>9. work'[w].step \in {"idle", "returned"}
  BY <1>1, <1>4, <1>6
<1>10. LockInv'
  <2>1. \A v \in Worker : InLock(v)' <=> work'[v].step \notin {"idle", "returned"}
    BY <1>6, <1>8, <1>9 DEF TypeInv, LockInv
  <2>2. InLock(Upkeep)' <=> upkeep' # Idle
    BY <1>1, <1>8 DEF TypeInv, LockInv
  <2>3. \A v \in Worker : v # w => work[v].step \notin Reserved
    BY <1>3, Exclusion DEF TypeInv, LockInv
  <2>4. upkeep.step # "revoking"
    BY <1>1, <1>3 DEF TypeInv, LockInv
  <2> QED BY <1>6, <1>8, <1>9, <2>1, <2>2, <2>3, <2>4 DEF LockInv, Reserved
<1> QED BY <1>1, <1>2, <1>4, <1>6, <1>7, <1>8, <1>9, <1>10 DEF WorkInv

LEMMA Ends ==
    ASSUME TypeInv, NEW w \in Worker, work[w].step = "returned", UNCHANGED <<limit, upkeep, lock>>,
           work' = [work EXCEPT ![w] = Idle]
    PROVE  WorkInv' /\ work'[w] = Idle /\ \A v \in Worker : v # w => work'[v] = work[v]
<1>1. /\ work \in [Worker -> Activation \cup {Idle}]
      /\ lock \in LockQueue /\ upkeep \in UpkeepWork \cup {Idle}
      /\ Idle.step = "idle" /\ \A v \in Worker : work[v] # Idle => ShapeOK(work[v])
  BY DEF TypeInv, TypeOK, LockQueue, Idle
<1>2. /\ work' \in [Worker -> Activation \cup {Idle}] /\ work'[w] = Idle
      /\ \A v \in Worker : v # w => work'[v] = work[v]
  BY <1>1
<1>3. \A v \in Worker : work'[v] # Idle => ShapeOK(work[v])'
  BY <1>1, <1>2 DEF ShapeOK
<1>4. \A x : InLock(x)' <=> InLock(x)
  BY DEF InLock
<1>5. LockInv'
  BY <1>1, <1>2, <1>4 DEF TypeInv, LockInv, Reserved
<1> QED BY <1>1, <1>2, <1>3, <1>5 DEF WorkInv

-----------------------------------------------------------------------------
(* What the steps of an activation change.                                   *)

OthersKeep(w) == \A v \in Worker : v # w => work'[v] = work[v]
RowsKeep(s)   == \A x \in Session : x # s => rows'[x] = rows[x]
TimersKeep(s) == \A x \in Session : x # s => timers'[x] = timers[x]

\* The activation moves on to step k with the row it reserved.
Stays(w, k) ==
    /\ OthersKeep(w) /\ Kin(work'[w], work[w]) /\ work'[w].step = k
    /\ work'[w].revision = work[w].revision /\ work'[w].generation = work[w].generation
    /\ work'[w].state = work[w].state /\ work'[w].exited = work[w].exited

\* The activation leaves the lock: it ends, or returns to runReconnect().
LeavesLock(w, c) ==
    /\ OthersKeep(w)
    /\ \/ work'[w] = Idle /\ work[w].attempt = 0
       \/ /\ Kin(work'[w], work[w]) /\ work[w].attempt > 0 /\ work'[w].step = "returned"
          /\ work'[w].revision = 0 /\ work'[w].generation = work[w].generation
          /\ work'[w].code = c

Asked(a, s, attempt, timer, revision) ==
    /\ a \in Activation /\ a.step = "waiting" /\ a.session = s /\ a.attempt = attempt
    /\ a.timer = timer /\ a.revision = revision /\ a.generation = 0 /\ ~a.exited

LEMMA ActivateEffect ==
    ASSUME TypeInv, NEW w \in Worker, NEW s \in Session, Activate(w, s)
    PROVE  /\ WorkInv' /\ DataInv' /\ OthersKeep(w)
           /\ work[w] = Idle /\ Asked(work'[w], s, 0, 0, rows[s].revision)
           /\ rows[s].state \in Startable /\ phase = "serving"
<1> DEFINE a == [step |-> "waiting", session |-> s, attempt |-> 0, timer |-> 0,
          revision |-> rows[s].revision, generation |-> 0, state |-> "none",
          targetRevision |-> 0, previous |-> 0, exited |-> FALSE, code |-> "none"]
<1>1. /\ work[w] = Idle /\ work' = [work EXCEPT ![w] = a] /\ lock' = Append(lock, w)
      /\ UNCHANGED <<limit, upkeep>>
  BY DEF Activate, Free, history
<1>2. rows[s].revision \in Nat /\ limit[s] \in 0 .. MaxAttempts
  BY SessionParts DEF TypeInv
<1>3. Asked(a, s, 0, 0, rows[s].revision)
  BY <1>2, BoundAssumption DEF Activation, Asked, Step, Code, Generation
<1>4. a \in Activation /\ a.step = "waiting" /\ ShapeOK(a)
  BY <1>2, <1>3, BoundAssumption DEF ShapeOK, Asked, Reserved
<1> HIDE DEF a
<1>5. WorkInv' /\ work'[w] = a /\ OthersKeep(w)
  BY <1>1, <1>4, Starts DEF OthersKeep
<1>6. DataInv'
  BY RequestedFacts, TypeInvParts DEF TypeInv, DataInv, Activate, durable, history
<1> QED BY <1>1, <1>3, <1>5, <1>6 DEF Activate

LEMMA TimerFiresEffect ==
    ASSUME TypeInv, NEW w \in Worker, NEW s \in Session, TimerFires(w, s)
    PROVE  /\ WorkInv' /\ DataInv' /\ timers[s] # NoTimer /\ timers[s].armed /\ TimersKeep(s)
           /\ \/ ~TimerIsCurrent(s) /\ timers'[s] = NoTimer /\ UNCHANGED <<work, lock>>
              \/ /\ TimerIsCurrent(s) /\ work[w] = Idle /\ OthersKeep(w)
                 /\ Asked(work'[w], s, timers[s].attempt, timers[s].id, timers[s].revision)
                 /\ timers'[s] # NoTimer /\ timers'[s].id = timers[s].id
                 /\ timers'[s].generation = timers[s].generation
                 /\ timers'[s].revision = timers[s].revision
                 /\ timers'[s].attempt = timers[s].attempt /\ ~timers'[s].armed
<1>1. /\ timers[s] # NoTimer /\ timers[s].armed /\ UNCHANGED <<limit, upkeep>>
      /\ timers \in [Session -> Timer \cup {NoTimer}] /\ timers[s].attempt <= limit[s]
  BY DEF TypeInv, TypeOK, TimerFires, history
<1>2. CASE ~TimerIsCurrent(s)
  <2>1. timers' = [timers EXCEPT ![s] = NoTimer] /\ UNCHANGED <<work, lock>>
    BY <1>2 DEF TimerFires, Untimed
  <2>2. WorkInv'
    BY <1>1, <2>1, TypeInvParts DEF WorkInv, LockInv, InLock, ShapeOK
  <2>3. timers' \in [Session -> Timer \cup {NoTimer}] /\ timers'[s] = NoTimer /\ TimersKeep(s)
    BY <1>1, <2>1 DEF TimersKeep
  <2>4. DataInv'
    BY <2>3, TypeInvParts DEF DataInv, TimerFires, durable, history, TimersKeep
  <2> QED BY <1>1, <1>2, <2>1, <2>2, <2>3, <2>4
<1>3. CASE TimerIsCurrent(s)
  <2> DEFINE a == [step |-> "waiting", session |-> s, attempt |-> timers[s].attempt,
                  timer |-> timers[s].id, revision |-> timers[s].revision,
                  generation |-> 0, state |-> "none", targetRevision |-> 0,
                  previous |-> 0, exited |-> FALSE, code |-> "none"]
  <2>1. /\ timers' = [timers EXCEPT ![s].armed = FALSE] /\ work[w] = Idle
        /\ work' = [work EXCEPT ![w] = a] /\ lock' = Append(lock, w)
    BY <1>3 DEF TimerFires, Free
  <2>2. /\ timers[s] \in Timer /\ timers[s].id \in TimerId /\ timers[s].revision \in Nat
        /\ timers[s].attempt \in 1 .. MaxAttempts
    BY <1>1, SessionParts DEF TypeInv
  <2>3. Asked(a, s, timers[s].attempt, timers[s].id, timers[s].revision)
    BY <2>2, BoundAssumption DEF Activation, Asked, Step, Code, Generation
  <2>4. a \in Activation /\ a.step = "waiting" /\ ShapeOK(a)
    <3>1. timers[s].id # 0 /\ timers[s].attempt # 0
      BY <2>2 DEF TimerId
    <3> QED BY <1>1, <2>3, <3>1 DEF ShapeOK, Asked, Reserved
  <2> HIDE DEF a
  <2>5. WorkInv' /\ work'[w] = a /\ OthersKeep(w)
    BY <1>1, <2>1, <2>4, Starts DEF OthersKeep
  <2>6. /\ timers'[s] \in Timer /\ timers'[s].id = timers[s].id
        /\ timers'[s].generation = timers[s].generation
        /\ timers'[s].revision = timers[s].revision
        /\ timers'[s].attempt = timers[s].attempt /\ ~timers'[s].armed
        /\ timers' \in [Session -> Timer \cup {NoTimer}] /\ TimersKeep(s)
    BY <1>1, <2>1, <2>2 DEF Timer, TimersKeep
  <2>7. timers'[s] # NoTimer
    BY <2>2, <2>6 DEF NoTimer, TimerId
  <2>8. DataInv'
    BY <1>1, <2>6, TypeInvParts DEF DataInv, TimerFires, durable, history, TimersKeep
  <2> QED BY <1>1, <1>3, <2>1, <2>3, <2>5, <2>6, <2>7, <2>8
<1> QED BY <1>2, <1>3

\* A reservation moves the row on; the activation remembers what it became.
LEMMA ReserveEffect ==
    ASSUME TypeInv, NEW w \in Worker, Reserve(w)
    PROVE  LET s == work[w].session
               automatic == work[w].attempt > 0
           IN  /\ WorkInv' /\ DataInv' /\ s \in Session /\ work[w].step = "waiting" /\ Holds(w)
               /\ \/ LeavesLock(w, "failure") /\ UNCHANGED <<rows, timers, stranded, spent>>
                     /\ ~Reservable(w)
                  \/ /\ Reservable(w) /\ RowsKeep(s) /\ OthersKeep(w) /\ UNCHANGED lock
                     /\ rows'[s].state = IF rows[s].state = "reconnecting" THEN "reconnecting" ELSE "connecting"
                     /\ rows'[s].generation = IF rows[s].state \in {"detached", "reconnecting"}
                                              THEN rows[s].generation + 1 ELSE rows[s].generation
                     /\ rows'[s].revision = rows[s].revision + 1
                     /\ Kin(work'[w], work[w]) /\ work'[w].step = "preparing" /\ ~work'[w].exited
                     /\ work'[w].revision = rows'[s].revision
                     /\ work'[w].generation = rows'[s].generation /\ work'[w].state = rows'[s].state
                     /\ TimersKeep(s)
                     /\ timers'[s] = IF automatic THEN timers[s] ELSE NoTimer
                     /\ stranded' = IF automatic THEN stranded ELSE stranded \ {s}
                     /\ \A x \in Session : x # s => spent'[x] = spent[x]
                     /\ spent'[s] = IF automatic THEN spent[s] + 1 ELSE 0
<1> DEFINE s == work[w].session
           row == ReservedRow(rows[s])
           automatic == work[w].attempt > 0
<1>1. /\ work[w].step = "waiting" /\ Holds(w)
      /\ UNCHANGED <<target, upkeep, attempts, transports, stopping, exits, phase,
                     released, tmux, limit, requests>>
      /\ IF ~Reservable(w)
         THEN Return(w, "failure") /\ UNCHANGED <<rows, timers, stranded, spent>>
         ELSE /\ rows' = [rows EXCEPT ![s] = row]
              /\ timers' = IF automatic THEN timers ELSE Untimed(s)
              /\ work' = [work EXCEPT ![w] =
                   [@ EXCEPT !.step = "preparing", !.revision = row.revision,
                             !.generation = row.generation, !.state = row.state,
                             !.targetRevision = target.revision]]
              /\ stranded' = IF automatic THEN stranded ELSE stranded \ {s}
              /\ spent' = [spent EXCEPT ![s] = IF automatic THEN @ + 1 ELSE 0]
              /\ UNCHANGED lock
  BY DEF Reserve, Waits
<1>2. /\ work[w] \in Activation /\ s \in Session /\ work[w].attempt \in Nat
      /\ ShapeOK(work[w]) /\ work \in [Worker -> Activation \cup {Idle}]
  BY <1>1, WorkParts, BoundAssumption DEF TypeInv, TypeOK
<1>3. CASE ~Reservable(w)
  <2>1. Return(w, "failure") /\ UNCHANGED <<rows, timers, stranded, spent, limit, upkeep>>
    BY <1>1, <1>3
  <2>2. WorkInv' /\ LeavesLock(w, "failure")
    BY <1>1, <2>1, Returns DEF Code, LeavesLock, OthersKeep
  <2>3. DataInv'
    BY <1>1, <2>1, TypeInvParts DEF DataInv
  <2> QED BY <1>1, <1>2, <1>3, <2>1, <2>2, <2>3
<1>4. CASE Reservable(w)
  <2>1. /\ rows[s] \in Row /\ rows[s].generation \in Nat /\ rows[s].generation # 0
        /\ rows[s].revision \in Nat /\ rows[s].state \in Startable /\ target.revision \in Nat
        /\ rows \in [Session -> Row] /\ timers \in [Session -> Timer \cup {NoTimer}]
        /\ spent \in [Session -> Nat] /\ stranded \subseteq Session
    BY <1>2, <1>4, SessionParts, TargetParts DEF TypeInv, TypeOK, Reservable
  <2>2. /\ row \in Row /\ row.state \in InFlight
        /\ row.state = IF rows[s].state = "reconnecting" THEN "reconnecting" ELSE "connecting"
        /\ row.generation = IF rows[s].state \in {"detached", "reconnecting"}
                            THEN rows[s].generation + 1 ELSE rows[s].generation
        /\ row.generation \in Generation
        /\ row.revision = rows[s].revision + 1 /\ row.revision \in Nat
    BY <2>1, ReservedRowFacts
  <2> DEFINE b == [work[w] EXCEPT !.step = "preparing", !.revision = row.revision,
                             !.generation = row.generation, !.state = row.state,
                             !.targetRevision = target.revision]
  <2> HIDE DEF row
  <2>3. /\ rows' = [rows EXCEPT ![s] = row] /\ work' = [work EXCEPT ![w] = b]
        /\ timers' = (IF automatic THEN timers ELSE Untimed(s)) /\ UNCHANGED <<lock, limit, upkeep>>
        /\ stranded' = (IF automatic THEN stranded ELSE stranded \ {s})
        /\ spent' = [spent EXCEPT ![s] = IF automatic THEN @ + 1 ELSE 0]
    BY <1>1, <1>4
  <2>4. /\ Kin(b, work[w]) /\ b.step = "preparing" /\ b.revision = row.revision
        /\ b.generation = row.generation /\ b.state = row.state /\ b.exited = work[w].exited
    BY <1>2, <2>1, <2>2 DEF Activation, Kin, Step
  <2> HIDE DEF b
  <2>5. b.step \in Reserved /\ ShapeOK(b) /\ ~b.exited
    BY <1>1, <1>2, <2>2, <2>4, WorkParts DEF ShapeOK, Kin, Reserved, Generation, InFlight, TypeInv
  <2>6. WorkInv' /\ work'[w] = b /\ OthersKeep(w)
    BY <1>1, <2>3, <2>4, <2>5, Moves DEF OthersKeep
  <2>7. rows' \in [Session -> Row] /\ rows'[s] = row /\ RowsKeep(s)
    BY <1>2, <2>1, <2>2, <2>3 DEF RowsKeep
  <2>8. /\ timers' \in [Session -> Timer \cup {NoTimer}] /\ TimersKeep(s)
        /\ timers'[s] = IF automatic THEN timers[s] ELSE NoTimer
    BY <1>2, <2>1, <2>3 DEF TimersKeep, Untimed
  <2>9. /\ spent' \in [Session -> Nat] /\ spent'[s] = (IF automatic THEN spent[s] + 1 ELSE 0)
        /\ \A x \in Session : x # s => spent'[x] = spent[x]
    BY <1>2, <2>1, <2>3
  <2>10. DataInv'
    <3>1. stranded' \subseteq Session
      BY <2>1, <2>3
    <3>2. \A x \in Session : timers'[x] # NoTimer => timers'[x].attempt <= limit[x]
      BY <2>8 DEF TimersKeep, TypeInv
    <3> QED BY <1>1, <2>7, <2>8, <2>9, <3>1, <3>2, TypeInvParts DEF DataInv
  <2> QED BY <1>1, <1>2, <1>4, <2>2, <2>3, <2>4, <2>5, <2>6, <2>7, <2>8, <2>9, <2>10
<1> QED BY <1>3, <1>4

\* An attempt that throws gives its runtime entry up.
LEMMA ThrowEffect ==
    ASSUME TypeInv, NEW w \in Worker, work[w].step \in Reserved, NEW c \in Code, Throw(w, c),
           UNCHANGED <<limit, upkeep, lock>>
    PROVE  /\ WorkInv' /\ Stays(w, "failing") /\ work[w].session \in Session
           /\ work[w].generation \in Nat /\ work[w].generation # 0
           /\ Terminate(work[w].session, work[w].generation)
<1> DEFINE b == [work[w] EXCEPT !.step = "failing", !.code = c]
<1>1. /\ work[w] \in Activation /\ ShapeOK(work[w]) /\ work[w].session \in Session
      /\ work[w].generation \in Nat /\ work[w].generation # 0
  BY WorkParts DEF TypeInv, Reserved, ShapeOK
<1>2. /\ Kin(b, work[w]) /\ b.step = "failing" /\ b.revision = work[w].revision
      /\ b.generation = work[w].generation /\ b.state = work[w].state /\ b.exited = work[w].exited
  BY <1>1 DEF Activation, Kin, Step
<1>3. work' = [work EXCEPT ![w] = b] /\ Terminate(work[w].session, work[w].generation)
  BY DEF Throw
<1> HIDE DEF b
<1>4. b.step \in Reserved /\ ShapeOK(b)
  BY <1>1, <1>2 DEF ShapeOK, Kin, Reserved
<1>5. WorkInv' /\ work'[w] = b /\ OthersKeep(w)
  BY <1>2, <1>3, <1>4, Moves DEF OthersKeep
<1> QED BY <1>1, <1>2, <1>3, <1>5 DEF Stays

\* An activation that moves on to its next step.
LEMMA StepEffect ==
    ASSUME TypeInv, NEW w \in Worker, work[w].step \in Reserved, NEW k \in Reserved, Next1(w, k),
           work[w].exited => k \notin {"preparing", "replacing", "spawned"},
           k = "exitedEarly" => work[w].exited,
           UNCHANGED <<limit, upkeep, lock>>
    PROVE  WorkInv' /\ Stays(w, k)
<1> DEFINE b == [work[w] EXCEPT !.step = k]
<1>1. /\ work[w] \in Activation /\ ShapeOK(work[w]) /\ k \in Step
      /\ work \in [Worker -> Activation \cup {Idle}]
  BY WorkParts DEF TypeInv, TypeOK, Reserved, Step
<1>2. /\ Kin(b, work[w]) /\ b.step = k /\ b.revision = work[w].revision
      /\ b.generation = work[w].generation /\ b.state = work[w].state /\ b.exited = work[w].exited
  BY <1>1, StepMoves
<1>3. work' = [work EXCEPT ![w] = b]
  BY <1>1 DEF Next1
<1> HIDE DEF b
<1>4. b.step \in Reserved /\ ShapeOK(b)
  BY <1>1, <1>2 DEF ShapeOK, Kin, Reserved
<1>5. WorkInv' /\ work'[w] = b /\ OthersKeep(w)
  BY <1>2, <1>3, <1>4, Moves DEF OthersKeep
<1> QED BY <1>1, <1>2, <1>5 DEF Stays

LEMMA ReservedParts ==
    ASSUME TypeInv, NEW w \in Worker, work[w].step \in Reserved
    PROVE  /\ work[w] # Idle /\ work[w] \in Activation /\ work[w].session \in Session
           /\ work[w].generation \in Nat /\ work[w].generation # 0
           /\ work[w].revision \in Nat /\ work[w].state \in InFlight
           /\ work[w].attempt \in Nat /\ work[w].attempt \in 0 .. MaxAttempts
           /\ work[w].code \in Code /\ work[w].previous \in Nat
           /\ ShapeOK(work[w])
  BY WorkParts, BoundAssumption DEF TypeInv, Reserved, ShapeOK, InFlight

LEMMA ReservedNext ==
    ASSUME TypeInv', NEW w \in Worker, work'[w].step \in Reserved
    PROVE  work'[w].session \in Session /\ work'[w].generation \in Generation
<1>1. work'[w] \in Activation \cup {Idle} /\ (work'[w] # Idle => ShapeOK(work[w])')
  BY DEF TypeInv, TypeOK
<1>2. work'[w] # Idle
  BY DEF Idle, Reserved
<1> QED BY <1>1, <1>2 DEF Activation, ShapeOK, Generation

\* The launch takes the runtime's entry of the session over.
LEMMA PreparedEffect ==
    ASSUME TypeInv, NEW w \in Worker, Prepared(w)
    PROVE  LET s == work[w].session  g == work[w].generation
           IN  /\ WorkInv' /\ DataInv' /\ Stays(w, "replacing") /\ work[w].step = "preparing"
               /\ IsCurrent(w) /\ attempts[s].generation < g
               /\ \A x \in Session : x # s => attempts'[x] = attempts[x]
               /\ attempts'[s] # NoAttempt /\ attempts'[s].generation = g
               /\ attempts'[s].attempt = work[w].attempt /\ ~attempts'[s].terminal
               /\ \A t : t \in stopping' <=>
                     t \in stopping \/ (t = <<s, attempts[s].generation>> /\ Live(s))
<1> DEFINE s == work[w].session  g == work[w].generation  old == attempts[s]
           a == [generation |-> g, attempt |-> work[w].attempt, terminal |-> FALSE]
           b == [work[w] EXCEPT !.step = "replacing", !.previous = old.generation]
<1>1. /\ work[w].step = "preparing" /\ IsCurrent(w) /\ old.generation < g
      /\ attempts' = [attempts EXCEPT ![s] = a]
      /\ stopping' = (IF old # NoAttempt /\ old.terminal THEN stopping \cup {<<s, old.generation>>}
                                                        ELSE stopping)
      /\ work' = [work EXCEPT ![w] = b]
      /\ UNCHANGED <<durable, lock, upkeep, timers, transports, exits, phase, history, requests>>
  BY DEF Prepared, Waits
<1>2. work[w].step \in Reserved
  BY <1>1 DEF Reserved
<1>3. old.generation \in Generation \cup {0} /\ (old # NoAttempt => old.generation \in Generation)
  BY <1>2, ReservedParts, SessionParts DEF TypeInv, Generation
<1>4. /\ Kin(b, work[w]) /\ b.step = "replacing" /\ b.revision = work[w].revision
      /\ b.generation = g /\ b.state = work[w].state /\ b.exited = work[w].exited
  BY <1>2, <1>3, ReservedParts DEF Activation, Kin, Step
<1>5. a \in Attempt /\ a # NoAttempt /\ a.generation = g /\ a.attempt = work[w].attempt /\ ~a.terminal
  BY <1>2, ReservedParts DEF Attempt, NoAttempt, Generation
<1> HIDE DEF a, b
<1>6. b.step \in Reserved /\ ShapeOK(b)
  BY <1>1, <1>2, <1>4, ReservedParts DEF ShapeOK, Kin, Reserved
<1>7. WorkInv' /\ work'[w] = b /\ OthersKeep(w)
  BY <1>1, <1>2, <1>4, <1>6, Moves DEF OthersKeep, history
<1>8. /\ s \in Session /\ attempts' \in [Session -> Attempt \cup {NoAttempt}] /\ attempts'[s] = a
      /\ \A x \in Session : x # s => attempts'[x] = attempts[x]
  BY <1>1, <1>2, <1>5, ReservedParts DEF TypeInv, TypeOK
<1>9. stopping' \subseteq Transport
  BY <1>1, <1>3, <1>8 DEF TypeInv, TypeOK, Transport
<1>10. DataInv'
  BY <1>1, <1>8, <1>9, TypeInvParts DEF DataInv, durable, history
<1> QED BY <1>1, <1>2, <1>4, <1>5, <1>7, <1>8, <1>10 DEF Stays, Live

\* Whatever fails, the entry of the attempt is gone and the row is as it was.
LEMMA FailsEffect ==
    ASSUME TypeInv, NEW w \in Worker,
           PreparationFails(w) \/ SpawnFails(w) \/ CompletionFails(w)
    PROVE  /\ WorkInv' /\ DataInv' /\ Stays(w, "failing")
           /\ work[w].step \in {"preparing", "replacing", "completing"}
           /\ work[w].session \in Session /\ work[w].generation \in Nat /\ work[w].generation # 0
           /\ Terminate(work[w].session, work[w].generation)
           /\ UNCHANGED <<durable, lock, upkeep, timers, transports, exits, phase, history, requests>>
<1>1. /\ work[w].step \in {"preparing", "replacing", "completing"}
      /\ UNCHANGED <<durable, lock, upkeep, timers, transports, exits, phase, history, requests>>
  BY DEF PreparationFails, SpawnFails, CompletionFails, Waits
<1>2. \E c \in Code : Throw(w, c)
  BY DEF PreparationFails, SpawnFails, CompletionFails, Code
<1>3. /\ WorkInv' /\ Stays(w, "failing") /\ work[w].session \in Session
      /\ work[w].generation \in Nat /\ work[w].generation # 0
      /\ Terminate(work[w].session, work[w].generation)
  BY <1>1, <1>2, ThrowEffect DEF Reserved, history
<1>4. DataInv'
  <2>1. attempts' \in [Session -> Attempt \cup {NoAttempt}] /\ stopping' \subseteq Transport
    BY <1>3, TerminateFacts DEF TypeInv
  <2> QED BY <1>1, <2>1, TypeInvParts DEF DataInv, durable, history
<1> QED BY <1>1, <1>3, <1>4

LEMMA SpawnEffect ==
    ASSUME TypeInv, NEW w \in Worker, Spawn(w)
    PROVE  LET s == work[w].session  g == work[w].generation
           IN  /\ WorkInv' /\ DataInv' /\ Stays(w, "spawned") /\ work[w].step = "replacing"
               /\ Owns(s, g) /\ transports' = transports \cup {<<s, g>>}
<1>1. work[w].step = "replacing" /\ work[w].step \in Reserved /\ "spawned" \in Reserved
      /\ Next1(w, "spawned") /\ UNCHANGED <<limit, upkeep, lock>>
  BY DEF Spawn, Waits, Reserved
<1>2. ~work[w].exited
  BY <1>1, ReservedParts DEF ShapeOK
<1>3. WorkInv' /\ Stays(w, "spawned")
  BY <1>1, <1>2, StepEffect
<1>4. DataInv'
  <2>1. work[w].session \in Session /\ work[w].generation \in Generation
    BY <1>1, ReservedParts DEF Generation
  <2>2. transports' \subseteq Transport /\ tmux' \subseteq Session
    BY <2>1 DEF Spawn, TypeInv, TypeOK, Transport
  <2> QED BY <2>2, TypeInvParts DEF DataInv, Spawn, durable
<1> QED BY <1>1, <1>3, <1>4 DEF Spawn

LEMMA LaunchReturnsEffect ==
    ASSUME TypeInv, NEW w \in Worker, LaunchReturns(w)
    PROVE  LET s == work[w].session  g == work[w].generation
           IN  /\ WorkInv' /\ DataInv' /\ work[w].step = "spawned" /\ s \in Session
               /\ \/ /\ Launched(w) /\ Stays(w, "completing") /\ UNCHANGED stopping
                     /\ attempts[s] # NoAttempt /\ attempts'[s] # NoAttempt
                     /\ attempts'[s].generation = g
                     /\ attempts'[s].attempt = attempts[s].attempt /\ attempts'[s].terminal
                     /\ \A x \in Session : x # s => attempts'[x] = attempts[x]
                  \/ /\ ~Launched(w) /\ Stays(w, "failing")
                     /\ \A x \in Session :
                          attempts'[x] = IF x = s /\ Owns(s, g) THEN NoAttempt ELSE attempts[x]
                     /\ \A t : t \in stopping' <=>
                          t \in stopping \/ (t = <<s, g>> /\ t \in transports)
<1> DEFINE s == work[w].session  g == work[w].generation
<1>1. /\ work[w].step = "spawned" /\ work[w].step \in Reserved
      /\ UNCHANGED <<durable, lock, upkeep, timers, transports, exits, phase, history, requests>>
      /\ UNCHANGED <<limit, upkeep, lock>>
  BY DEF LaunchReturns, Waits, Reserved, history
<1>2. s \in Session /\ g \in Nat /\ g # 0 /\ g \in Generation /\ ShapeOK(work[w])
  BY <1>1, ReservedParts DEF Generation
<1>3. attempts \in [Session -> Attempt \cup {NoAttempt}] /\ stopping \subseteq Transport
      /\ transports \subseteq Transport
  BY DEF TypeInv, TypeOK
<1>4. CASE Launched(w)
  <2>1. /\ attempts' = [attempts EXCEPT ![s].terminal = TRUE] /\ Next1(w, "completing")
        /\ UNCHANGED stopping
    BY <1>4 DEF LaunchReturns
  <2>2. WorkInv' /\ Stays(w, "completing")
    BY <1>1, <2>1, StepEffect DEF Reserved
  <2>3. attempts[s] # NoAttempt /\ attempts[s] \in Attempt /\ attempts[s].generation = g
    BY <1>2, <1>4, SessionParts DEF Launched, Owns, TypeInv
  <2>4. /\ attempts' \in [Session -> Attempt \cup {NoAttempt}] /\ attempts'[s].generation = g
        /\ attempts'[s].attempt = attempts[s].attempt /\ attempts'[s].terminal
        /\ \A x \in Session : x # s => attempts'[x] = attempts[x]
    BY <1>2, <1>3, <2>1, <2>3 DEF Attempt
  <2>5. attempts'[s] # NoAttempt
    BY <1>2, <2>4 DEF NoAttempt
  <2>6. DataInv'
    BY <1>1, <2>1, <2>4, TypeInvParts DEF DataInv, durable, history
  <2> QED BY <1>1, <1>2, <1>4, <2>1, <2>2, <2>3, <2>4, <2>5, <2>6
<1>5. CASE ~Launched(w)
  <2> DEFINE b == [work[w] EXCEPT !.step = "failing", !.code = "failure"]
  <2>1. /\ attempts' = (IF Owns(s, g) THEN [attempts EXCEPT ![s] = NoAttempt] ELSE attempts)
        /\ stopping' = stopping \cup ({<<s, g>>} \cap transports)
        /\ work' = [work EXCEPT ![w] = b]
    BY <1>5 DEF LaunchReturns
  <2>2. /\ Kin(b, work[w]) /\ b.step = "failing" /\ b.revision = work[w].revision
        /\ b.generation = g /\ b.state = work[w].state /\ b.exited = work[w].exited
    BY <1>1, ReservedParts DEF Activation, Kin, Step, Code
  <2> HIDE DEF b
  <2>3. b.step \in Reserved /\ ShapeOK(b)
    BY <1>1, <1>2, <2>2 DEF ShapeOK, Kin, Reserved
  <2>4. WorkInv' /\ work'[w] = b /\ OthersKeep(w)
    BY <1>1, <2>1, <2>2, <2>3, Moves DEF OthersKeep
  <2>5. /\ \A x \in Session : attempts'[x] = IF x = s /\ Owns(s, g) THEN NoAttempt ELSE attempts[x]
        /\ attempts' \in [Session -> Attempt \cup {NoAttempt}]
        /\ \A t : t \in stopping' <=> t \in stopping \/ (t = <<s, g>> /\ t \in transports)
        /\ stopping' \subseteq Transport
    BY <1>2, <1>3, <2>1
  <2>6. DataInv'
    BY <1>1, <2>5, TypeInvParts DEF DataInv, durable, history
  <2> QED BY <1>1, <1>2, <1>5, <2>2, <2>4, <2>5, <2>6 DEF Stays
<1> QED BY <1>4, <1>5

\* A row that becomes something else within its generation.
LEMMA BecomesFacts ==
    ASSUME TypeOK, NEW s \in Session, NEW st \in Lifecycle, rows' = Becomes(s, st)
    PROVE  /\ rows' \in [Session -> Row] /\ RowsKeep(s) /\ rows'[s].state = st
           /\ rows'[s].revision = rows[s].revision + 1 /\ rows'[s].generation = rows[s].generation
<1>1. rows \in [Session -> Row] /\ rows[s] \in Row /\ rows[s].revision \in Nat
  BY SessionParts DEF TypeOK
<1> QED BY <1>1 DEF Becomes, RowsKeep, Row

\* The completion connects the row of the attempt and settles the exits it crossed.
LEMMA CompletedEffect ==
    ASSUME TypeInv, NEW w \in Worker, Completed(w)
    PROVE  LET s == work[w].session  g == work[w].generation
           IN  /\ WorkInv' /\ DataInv' /\ work[w].step = "completing" /\ s \in Session
               /\ CompletionApplies(w, "connected")
               /\ \/ work[w].exited /\ Stays(w, "exitedEarly")
                  \/ ~work[w].exited /\ LeavesLock(w, "none")
               /\ RowsKeep(s) /\ rows'[s].state = "connected"
               /\ rows'[s].revision = rows[s].revision + 1 /\ rows'[s].generation = rows[s].generation
               /\ \A e \in exits : \E f \in exits' :
                    /\ f.session = e.session /\ f.generation = e.generation /\ f.attempt = e.attempt
                    /\ f.settled <=> e.settled \/ (e.session = s /\ e.generation = g)
               /\ \A f \in exits' : \E e \in exits :
                    /\ f.session = e.session /\ f.generation = e.generation /\ f.attempt = e.attempt
                    /\ f.settled <=> e.settled \/ (e.session = s /\ e.generation = g)
               /\ stranded' = stranded \ {s}
<1> DEFINE s == work[w].session  g == work[w].generation
           F(e) == [e EXCEPT !.settled = @ \/ (e.session = s /\ e.generation = g)]
<1>1. /\ work[w].step = "completing" /\ work[w].step \in Reserved
      /\ CompletionApplies(w, "connected")
      /\ rows' = [rows EXCEPT ![s].state = "connected", ![s].mode = "attach", ![s].revision = @ + 1]
      /\ exits' = {F(e) : e \in exits}
      /\ stranded' = stranded \ {s}
      /\ UNCHANGED <<target, upkeep, timers, attempts, transports, stopping, phase,
                     released, tmux, limit, spent, requests>>
  BY DEF Completed, Waits, Reserved
<1>2. s \in Session /\ ShapeOK(work[w]) /\ work[w].exited \in BOOLEAN
  BY <1>1, ReservedParts, WorkParts DEF TypeInv
<1>5. /\ WorkInv'
      /\ \/ work[w].exited /\ Stays(w, "exitedEarly")
         \/ ~work[w].exited /\ LeavesLock(w, "none")
  <2>1. CASE work[w].exited
    <3>1. Next1(w, "exitedEarly") /\ UNCHANGED <<limit, upkeep, lock>>
      BY <1>1, <2>1 DEF Completed
    <3> QED BY <1>1, <2>1, <3>1, StepEffect DEF Reserved
  <2>2. CASE ~work[w].exited
    <3>1. Return(w, "none")
      BY <2>2 DEF Completed
    <3> QED BY <1>1, <2>2, <3>1, Returns DEF LeavesLock, OthersKeep, Code
  <2> QED BY <2>1, <2>2
<1>6. /\ rows' \in [Session -> Row] /\ RowsKeep(s) /\ rows'[s].state = "connected"
      /\ rows'[s].revision = rows[s].revision + 1 /\ rows'[s].generation = rows[s].generation
  <2>1. rows \in [Session -> Row] /\ rows[s] \in Row /\ rows[s].revision \in Nat
    BY <1>2, SessionParts DEF TypeInv, TypeOK
  <2> QED BY <1>1, <1>2, <2>1 DEF RowsKeep, Row, Lifecycle
<1>7. ASSUME NEW e \in exits
      PROVE  /\ F(e) \in Exit /\ F(e).session = e.session /\ F(e).generation = e.generation
             /\ F(e).attempt = e.attempt
             /\ F(e).settled <=> e.settled \/ (e.session = s /\ e.generation = g)
  <2>1. e \in Exit /\ e.settled \in BOOLEAN
    BY ExitParts DEF TypeInv, TypeOK
  <2>2. \A b \in BOOLEAN : LET f == [e EXCEPT !.settled = b]
                           IN  /\ f \in Exit /\ f.session = e.session /\ f.generation = e.generation
                               /\ f.attempt = e.attempt /\ f.settled = b
    BY <2>1 DEF Exit
  <2>3. (e.settled \/ (e.session = s /\ e.generation = g)) \in BOOLEAN
    OBVIOUS
  <2> QED BY <2>2, <2>3
<1> HIDE DEF F
<1>8. exits' \subseteq Exit
  BY <1>1, <1>7
<1>9. DataInv'
  <2>1. stranded' \subseteq Session
    BY <1>1 DEF TypeInv, TypeOK
  <2> QED BY <1>1, <1>6, <1>8, <2>1, TypeInvParts DEF DataInv
<1> QED BY <1>1, <1>2, <1>5, <1>6, <1>7, <1>9

\* What a step leaves alone when an exit is recorded.
LEMMA RecordedData ==
    ASSUME TypeInv, NEW s \in Session, NEW g \in Nat, NEW attempt \in 0 .. MaxAttempts,
           RecordExit(s, g, attempt),
           UNCHANGED <<target, attempts, transports, stopping, phase,
                       stranded, released, tmux, limit, requests>>,
           exits' \subseteq exits
    PROVE  DataInv'
<1>1. /\ rows' \in [Session -> Row] /\ timers' \in [Session -> Timer \cup {NoTimer}]
      /\ spent' \in [Session -> Nat]
  BY RecordExitFacts DEF TypeInv, TypeOK
<1>2. \A x \in Session : timers'[x] # NoTimer => timers'[x].attempt <= limit[x]
  <2>1. \A x \in Session : timers[x] # NoTimer => timers[x].attempt <= limit[x]
    BY DEF TypeInv
  <2>2. \A x \in Session : x # s => timers'[x] = timers[x]
    BY RecordExitFacts DEF TypeInv
  <2>3. timers'[s] = timers[s] \/ timers'[s] = NoTimer \/ timers'[s].attempt <= limit[s]
    BY RecordExitFacts DEF TypeInv
  <2> QED BY <2>1, <2>2, <2>3
<1> QED BY <1>1, <1>2, TypeInvParts DEF DataInv

LEMMA RecordEarlyExitEffect ==
    ASSUME TypeInv, NEW w \in Worker, RecordEarlyExit(w)
    PROVE  /\ WorkInv' /\ DataInv' /\ work[w].step = "exitedEarly" /\ LeavesLock(w, "none")
           /\ work[w].session \in Session /\ work[w].generation \in Nat
           /\ work[w].attempt \in 0 .. MaxAttempts /\ work[w].exited
           /\ RecordExit(work[w].session, work[w].generation, work[w].attempt)
<1>1. /\ work[w].step = "exitedEarly" /\ work[w].step \in Reserved
      /\ RecordExit(work[w].session, work[w].generation, work[w].attempt)
      /\ Return(w, "none")
      /\ UNCHANGED <<target, upkeep, attempts, transports, stopping, exits, phase,
                     stranded, released, tmux, limit, requests>>
  BY DEF RecordEarlyExit, Waits, Reserved
<1>2. work[w].session \in Session /\ work[w].generation \in Nat /\ work[w].attempt \in 0 .. MaxAttempts
      /\ work[w].exited
  BY <1>1, ReservedParts DEF ShapeOK
<1>3. WorkInv' /\ LeavesLock(w, "none")
  BY <1>1, Returns DEF LeavesLock, OthersKeep, Code
<1>4. DataInv'
  BY <1>1, <1>2, RecordedData
<1> QED BY <1>1, <1>2, <1>3, <1>4

\* The failure is written if the row is still the one that was reserved.
LEMMA RecordFailureEffect ==
    ASSUME TypeInv, NEW w \in Worker, RecordFailure(w)
    PROVE  LET s == work[w].session
           IN  /\ WorkInv' /\ DataInv' /\ work[w].step = "failing" /\ s \in Session
               /\ \E c \in Code, outcome \in {"reconnecting", "failed"} :
                    /\ LeavesLock(w, c) /\ (c = "none" => work[w].code = "none")
                    /\ outcome = "reconnecting" <=> Retrying(w, c)
                    /\ \/ ~CompletionApplies(w, outcome) /\ rows' = rows
                       \/ /\ CompletionApplies(w, outcome) /\ RowsKeep(s) /\ rows'[s].state = outcome
                          /\ rows'[s].revision = rows[s].revision + 1
                          /\ rows'[s].generation = rows[s].generation
<1> DEFINE s == work[w].session
<1>1. /\ work[w].step = "failing" /\ work[w].step \in Reserved
      /\ UNCHANGED <<target, upkeep, timers, attempts, transports, stopping, exits, phase,
                     history, requests>>
  BY DEF RecordFailure, Waits, Reserved
<1>2. s \in Session /\ work[w].code \in Code
  BY <1>1, ReservedParts
<1>3. PICK c \in {work[w].code, "failure"} :
        LET outcome == IF Retrying(w, c) THEN "reconnecting" ELSE "failed"
        IN  /\ rows' = IF CompletionApplies(w, outcome) THEN Becomes(s, outcome) ELSE rows
            /\ Return(w, c)
  BY DEF RecordFailure
<1> DEFINE outcome == IF Retrying(w, c) THEN "reconnecting" ELSE "failed"
<1>4. /\ c \in Code /\ outcome \in {"reconnecting", "failed"} /\ outcome \in Lifecycle
      /\ outcome = "reconnecting" <=> Retrying(w, c)
      /\ c = "none" => work[w].code = "none"
  BY <1>2 DEF Code, Lifecycle
<1>5. /\ rows' = (IF CompletionApplies(w, outcome) THEN Becomes(s, outcome) ELSE rows)
      /\ Return(w, c)
  BY <1>3
<1> HIDE DEF outcome
<1>6. WorkInv' /\ LeavesLock(w, c)
  BY <1>1, <1>4, <1>5, Returns DEF LeavesLock, OthersKeep, history
<1>7. /\ rows' \in [Session -> Row]
      /\ \/ ~CompletionApplies(w, outcome) /\ rows' = rows
         \/ /\ CompletionApplies(w, outcome) /\ RowsKeep(s) /\ rows'[s].state = outcome
            /\ rows'[s].revision = rows[s].revision + 1
            /\ rows'[s].generation = rows[s].generation
  BY <1>2, <1>4, <1>5, BecomesFacts DEF TypeInv, TypeOK
<1>8. DataInv'
  BY <1>1, <1>7, TypeInvParts DEF DataInv, history
<1> QED BY <1>1, <1>2, <1>4, <1>6, <1>7, <1>8

\* runReconnect() gives the session up, tries again, or has nothing more to do.
LEMMA ReturnedEffect ==
    ASSUME TypeInv, NEW w \in Worker, Returned(w)
    PROVE  LET a == work[w]  s == work[w].session  timer == timers[s]
               failed == timer.id = a.timer /\ a.code # "none" /\ rows[s].state = "reconnecting"
               giveUp == \/ target.hostKey # "trusted" \/ a.attempt >= limit[s]
                         \/ rows[s].generation = timer.generation /\ rows[s].revision = timer.revision
           IN  /\ WorkInv' /\ DataInv' /\ work[w].step = "returned" /\ s \in Session
               /\ work'[w] = Idle /\ OthersKeep(w) /\ TimersKeep(s) /\ work[w].attempt > 0
               /\ \/ timer.id # a.timer /\ UNCHANGED <<rows, timers>>
                  \/ /\ failed /\ giveUp /\ timer.id = a.timer /\ timers'[s] = NoTimer /\ RowsKeep(s)
                     /\ rows'[s].state = "failed" /\ rows'[s].revision = rows[s].revision + 1
                     /\ rows'[s].generation = rows[s].generation
                  \/ /\ failed /\ ~giveUp /\ rows[s].generation # timer.generation /\ rows' = rows
                     /\ timers[s] # NoTimer /\ timers'[s] # NoTimer /\ timers'[s].id = timer.id
                     /\ timers'[s].generation = rows[s].generation
                     /\ timers'[s].revision = rows[s].revision
                     /\ timers'[s].attempt = a.attempt + 1
                  \/ /\ timer.id = a.timer /\ rows' = rows /\ timers'[s] = NoTimer
                     /\ ~failed \/ (~giveUp /\ rows[s].generation = timer.generation)
<1> DEFINE a == work[w]  s == work[w].session  timer == timers[s]  row == rows[s]
           failed == timer.id = a.timer /\ a.code # "none" /\ row.state = "reconnecting"
           giveUp == \/ target.hostKey # "trusted" \/ a.attempt >= limit[s]
                     \/ row.generation = timer.generation /\ row.revision = timer.revision
           again  == ~giveUp /\ row.generation # timer.generation
<1>1. /\ work[w].step = "returned" /\ work' = [work EXCEPT ![w] = Idle]
      /\ rows' = (IF failed /\ giveUp THEN FailReconnect(s) ELSE rows)
      /\ timers' = (IF timer.id # a.timer THEN timers
                    ELSE IF failed /\ again
                    THEN [timers EXCEPT ![s] =
                           [@ EXCEPT !.generation = row.generation, !.revision = row.revision,
                                     !.attempt = a.attempt + 1, !.armed = ~Disposed]]
                    ELSE Untimed(s))
      /\ UNCHANGED <<target, lock, upkeep, attempts, transports, stopping, exits, phase,
                     history, requests>>
      /\ UNCHANGED <<limit, upkeep, lock>>
  BY DEF Returned, Waits, history
<1>2. /\ s \in Session /\ a # Idle /\ a.attempt \in 0 .. MaxAttempts /\ a.attempt > 0
      /\ a.timer # 0
  BY <1>1, WorkParts, BoundAssumption DEF TypeInv, ShapeOK, Reserved
<1>3. /\ row \in Row /\ row.generation \in Generation /\ row.revision \in Nat
      /\ rows \in [Session -> Row] /\ timers \in [Session -> Timer \cup {NoTimer}]
      /\ limit[s] \in 0 .. MaxAttempts
      /\ timer.id = a.timer => timer # NoTimer /\ timer \in Timer
  BY <1>2, SessionParts DEF TypeInv, TypeOK, Generation
<1>4. WorkInv' /\ work'[w] = Idle /\ OthersKeep(w)
  BY <1>1, Ends DEF OthersKeep
<1>5. rows' \in [Session -> Row]
      /\ \/ rows' = rows /\ ~(failed /\ giveUp)
         \/ /\ failed /\ giveUp /\ RowsKeep(s) /\ rows'[s].state = "failed"
            /\ rows'[s].revision = row.revision + 1 /\ rows'[s].generation = row.generation
  <2>1. CASE ~(failed /\ giveUp)
    BY <1>1, <1>3, <2>1
  <2>2. CASE failed /\ giveUp
    <3>1. rows' = Becomes(s, "failed")
      BY <1>1, <2>2 DEF FailReconnect
    <3> QED BY <1>2, <2>2, <3>1, BecomesFacts DEF TypeInv, Lifecycle
  <2> QED BY <2>1, <2>2
<1>6. CASE timer.id # a.timer
  <2>1. UNCHANGED <<rows, timers>>
    BY <1>1, <1>6
  <2>2. DataInv'
    BY <1>1, <2>1, TypeInvParts DEF DataInv, history
  <2> QED BY <1>1, <1>2, <1>4, <1>6, <2>1, <2>2 DEF TimersKeep
<1>7. CASE timer.id = a.timer /\ failed /\ again
  <2> DEFINE t == [timer EXCEPT !.generation = row.generation, !.revision = row.revision,
                                !.attempt = a.attempt + 1, !.armed = ~Disposed]
  <2>1. a.attempt + 1 \in 1 .. MaxAttempts /\ a.attempt + 1 <= limit[s]
    BY <1>2, <1>3, <1>7, BoundAssumption
  <2>2. /\ t \in Timer /\ t.id = timer.id /\ t.generation = row.generation
        /\ t.revision = row.revision /\ t.attempt = a.attempt + 1
    <3>1. Disposed \in BOOLEAN
      BY DEF Disposed
    <3> QED BY <1>3, <1>7, <2>1, <3>1 DEF Timer
  <2>3. timers' = [timers EXCEPT ![s] = t]
    BY <1>1, <1>7
  <2>4. t # NoTimer
    BY <1>2, <1>7, <2>2 DEF NoTimer
  <2> HIDE DEF t
  <2>5. timers' \in [Session -> Timer \cup {NoTimer}] /\ timers'[s] = t /\ TimersKeep(s)
    BY <1>2, <1>3, <2>2, <2>3 DEF TimersKeep
  <2>6. DataInv'
    <3>1. \A x \in Session : timers'[x] # NoTimer => timers'[x].attempt <= limit[x]
      BY <2>1, <2>2, <2>5 DEF TimersKeep, TypeInv
    <3> HIDE DEF failed, giveUp, again
    <3> QED BY <1>1, <1>5, <2>5, <3>1, TypeInvParts DEF DataInv, history
  <2> QED BY <1>1, <1>2, <1>3, <1>4, <1>5, <1>7, <2>2, <2>4, <2>5, <2>6
<1>8. CASE timer.id = a.timer /\ ~(failed /\ again)
  <2>1. timers' = Untimed(s)
    BY <1>1, <1>8
  <2>2. timers' \in [Session -> Timer \cup {NoTimer}] /\ timers'[s] = NoTimer /\ TimersKeep(s)
    BY <1>2, <1>3, <2>1 DEF TimersKeep, Untimed
  <2>3. DataInv'
    BY <1>1, <1>5, <2>2, TypeInvParts DEF DataInv, history, TimersKeep
  <2> QED BY <1>1, <1>2, <1>4, <1>5, <1>8, <2>2, <2>3
<1> QED BY <1>6, <1>7, <1>8

-----------------------------------------------------------------------------
(* What the exits, the requests, the upkeep and the ends of a process change. *)

LEMMA WorkKept ==
    ASSUME TypeInv, UNCHANGED <<work, lock, upkeep, limit>>
    PROVE  WorkInv'
  BY TypeInvParts DEF WorkInv, LockInv, InLock, ShapeOK

\* A timer that goes leaves the others.
LEMMA UntimedFacts ==
    ASSUME TypeInv, NEW s \in Session, timers' = Untimed(s), UNCHANGED limit
    PROVE  /\ timers' \in [Session -> Timer \cup {NoTimer}] /\ timers'[s] = NoTimer /\ TimersKeep(s)
           /\ \A x \in Session : timers'[x] # NoTimer => timers'[x].attempt <= limit'[x]
  BY DEF TypeInv, TypeOK, Untimed, TimersKeep

\* A target whose host key is decided.
LEMMA TargetMoves ==
    ASSUME NEW t \in Target, NEW k \in HostKey
    PROVE  LET u == [t EXCEPT !.hostKey = k, !.revision = @ + 1]
           IN  /\ u \in Target /\ u.hostKey = k /\ u.deleting = t.deleting /\ u.enrolling = t.enrolling
<1>1. t.revision + 1 \in Nat
  BY DEF Target
<1>2. \A r \in Nat : LET u == [t EXCEPT !.hostKey = k, !.revision = r]
                     IN  /\ u \in Target /\ u.hostKey = k
                         /\ u.deleting = t.deleting /\ u.enrolling = t.enrolling
  BY DEF Target
<1> QED BY <1>1, <1>2

LEMMA MarkHostKeyChangedEffect ==
    ASSUME TypeInv, NEW w \in Worker, MarkHostKeyChanged(w)
    PROVE  /\ WorkInv' /\ DataInv' /\ work[w].step = "failing"
           /\ target.hostKey = "trusted" /\ target'.hostKey = "changed"
           /\ target'.deleting = target.deleting /\ target'.enrolling = target.enrolling
<1>1. /\ UNCHANGED <<work, lock, upkeep, limit>> /\ work[w].step = "failing"
      /\ target.hostKey = "trusted"
      /\ target' = [target EXCEPT !.hostKey = "changed", !.revision = @ + 1]
  BY DEF MarkHostKeyChanged, Waits, history
<1>2. /\ target' \in Target /\ target'.hostKey = "changed"
      /\ target'.deleting = target.deleting /\ target'.enrolling = target.enrolling
  <2>1. target \in Target /\ "changed" \in HostKey
    BY DEF TypeInv, TypeOK, HostKey
  <2> QED BY <1>1, <2>1, TargetMoves
<1>3. DataInv'
  BY <1>2, TypeInvParts DEF DataInv, MarkHostKeyChanged, history
<1> QED BY <1>1, <1>2, <1>3, WorkKept

LEMMA TransportExitsEffect ==
    ASSUME TypeInv, NEW t \in transports, TransportExits(t)
    PROVE  LET s == t[1]  g == t[2]
               owned == Owns(s, g) /\ attempts[s].terminal
           IN  /\ WorkInv' /\ DataInv' /\ s \in Session /\ g \in Nat /\ g # 0 /\ t = <<s, g>>
               /\ t \notin stopping /\ transports' = transports \ {t}
               /\ \A x \in Session : attempts'[x] = IF x = s /\ owned THEN NoAttempt ELSE attempts[x]
               /\ ~owned => exits' = exits
               /\ owned => /\ attempts[s] # NoAttempt
                           /\ \E e : /\ exits' = exits \cup {e} /\ e.session = s /\ e.generation = g
                                     /\ e.attempt = attempts[s].attempt /\ e.settled \in BOOLEAN
                                     /\ e.settled <=> ~\E w \in Worker : /\ work[w].step = "completing"
                                                                         /\ work[w].session = s
                                                                         /\ work[w].generation = g
<1> DEFINE s == t[1]  g == t[2]
           owned == Owns(s, g) /\ attempts[s].terminal
           e == [session |-> s, generation |-> g, attempt |-> attempts[s].attempt,
                    settled |-> ~\E w \in Worker : /\ work[w].step = "completing"
                                                   /\ work[w].session = s
                                                   /\ work[w].generation = g]
<1>1. /\ t \in transports \ stopping /\ transports' = transports \ {t}
      /\ attempts' = (IF owned THEN [attempts EXCEPT ![s] = NoAttempt] ELSE attempts)
      /\ exits' = exits \cup IF owned THEN {e} ELSE {}
      /\ UNCHANGED <<durable, lock, work, upkeep, timers, stopping, phase, history, requests>>
      /\ UNCHANGED <<work, lock, upkeep, limit>>
  BY DEF TransportExits, history
<1>2. t = <<s, g>> /\ s \in Session /\ g \in Generation /\ g \in Nat /\ g # 0
  BY DEF TypeInv, TypeOK, Transport, Generation
<1>3. owned => attempts[s] # NoAttempt /\ attempts[s].attempt \in 0 .. MaxAttempts
  BY <1>2, SessionParts DEF TypeInv, Owns
<1>4. \A x \in Session : attempts'[x] = IF x = s /\ owned THEN NoAttempt ELSE attempts[x]
  BY <1>1, <1>2 DEF TypeInv, TypeOK
<1>5. owned => e \in Exit
  BY <1>2, <1>3 DEF Exit
<1>6. attempts' \in [Session -> Attempt \cup {NoAttempt}]
  BY <1>1, <1>2 DEF TypeInv, TypeOK
<1>7. transports' \subseteq Transport /\ exits' \subseteq Exit
  <2> HIDE DEF e, owned
  <2> QED BY <1>1, <1>5 DEF TypeInv, TypeOK
<1>8. DataInv'
  <2> HIDE DEF e, owned
  <2> QED BY <1>1, <1>6, <1>7, TypeInvParts DEF DataInv, durable, history
<1>9. /\ e.session = s /\ e.generation = g /\ e.attempt = attempts[s].attempt /\ e.settled \in BOOLEAN
      /\ e.settled <=> ~\E w \in Worker : /\ work[w].step = "completing"
                                          /\ work[w].session = s /\ work[w].generation = g
  OBVIOUS
<1>10. WorkInv'
  BY <1>1, WorkKept
<1> HIDE DEF e
<1> QED BY <1>1, <1>2, <1>3, <1>4, <1>8, <1>9, <1>10

LEMMA ExitReportedEffect ==
    ASSUME TypeInv, NEW e \in exits, ExitReported(e)
    PROVE  /\ WorkInv' /\ DataInv' /\ exits' = exits \ {e}
           /\ \/ /\ e.settled /\ UNCHANGED work
                 /\ RecordExit(e.session, e.generation, e.attempt)
              \/ /\ ~e.settled /\ UNCHANGED <<rows, timers, spent>>
                 /\ \A w \in Worker :
                      IF work[w].step = "completing" /\ work[w].session = e.session
                                                     /\ work[w].generation = e.generation
                      THEN /\ Kin(work'[w], work[w]) /\ work'[w].step = work[w].step
                           /\ work'[w].revision = work[w].revision
                           /\ work'[w].generation = work[w].generation
                           /\ work'[w].state = work[w].state /\ work'[w].exited
                           /\ work'[w].code = work[w].code
                      ELSE work'[w] = work[w]
<1> DEFINE hit(w) == work[w].step = "completing" /\ work[w].session = e.session
                                                 /\ work[w].generation = e.generation
<1>1. /\ exits' = exits \ {e} /\ UNCHANGED <<lock, upkeep, limit>>
      /\ UNCHANGED <<target, lock, upkeep, attempts, transports, stopping, phase,
                     stranded, released, tmux, limit, requests>>
  BY DEF ExitReported
<1>2. CASE e.settled
  <2>1. RecordExit(e.session, e.generation, e.attempt) /\ UNCHANGED work
    BY <1>2 DEF ExitReported
  <2>2. WorkInv'
    BY <1>1, <2>1, WorkKept
  <2>3. DataInv'
    BY <1>1, <2>1, ExitParts, RecordedData DEF TypeInv
  <2> QED BY <1>1, <1>2, <2>1, <2>2, <2>3
<1>3. CASE ~e.settled
  <2>1. /\ work' = [w \in Worker |-> IF hit(w) THEN [work[w] EXCEPT !.exited = TRUE] ELSE work[w]]
        /\ UNCHANGED <<rows, timers, spent>>
    BY <1>3 DEF ExitReported
  <2>2. ASSUME NEW w \in Worker
        PROVE  IF hit(w)
               THEN /\ Kin(work'[w], work[w]) /\ work'[w].step = work[w].step
                    /\ work'[w].revision = work[w].revision
                    /\ work'[w].generation = work[w].generation
                    /\ work'[w].state = work[w].state /\ work'[w].exited
                    /\ work'[w].code = work[w].code
               ELSE work'[w] = work[w]
    <3>1. CASE hit(w)
      <4>1. work[w] \in Activation /\ work'[w] = [work[w] EXCEPT !.exited = TRUE]
        BY <2>1, <3>1, WorkParts DEF TypeInv
      <4>2. LET b == [work[w] EXCEPT !.exited = TRUE]
            IN  /\ Kin(b, work[w]) /\ b.step = work[w].step /\ b.revision = work[w].revision
                /\ b.generation = work[w].generation /\ b.state = work[w].state
                /\ b.exited /\ b.code = work[w].code
        BY <4>1, ExitedMoves
      <4> QED BY <3>1, <4>1, <4>2
    <3>2. CASE ~hit(w)
      BY <2>1, <3>2
    <3> QED BY <3>1, <3>2
  <2>3. \A w \in Worker : /\ work'[w].step = work[w].step
                          /\ work'[w] \in Activation \cup {Idle}
                          /\ work'[w] # Idle => work[w] # Idle /\ ShapeOK(work'[w])
    <3> SUFFICES ASSUME NEW w \in Worker
                 PROVE  /\ work'[w].step = work[w].step
                        /\ work'[w] \in Activation \cup {Idle}
                        /\ work'[w] # Idle => work[w] # Idle /\ ShapeOK(work'[w])
      OBVIOUS
    <3>1. CASE ~hit(w)
      BY <2>2, <3>1 DEF TypeInv, TypeOK
    <3>2. CASE hit(w)
      <4>1. work[w] # Idle /\ ShapeOK(work[w])
        BY <3>2, ReservedParts DEF Reserved
      <4> QED BY <2>2, <3>2, <4>1 DEF Kin, ShapeOK, Reserved
    <3> QED BY <3>1, <3>2
  <2>4. WorkInv'
    <3>1. work' = [w \in Worker |-> work'[w]]
      BY <2>1
    <3>2. \A w \in Worker : work'[w] # Idle => ShapeOK(work[w])'
      BY <1>1, <2>3 DEF ShapeOK
    <3>3. LockInv'
      BY <1>1, <2>3 DEF TypeInv, LockInv, InLock
    <3> QED BY <1>1, <2>3, <3>1, <3>2, <3>3, TypeInvParts DEF WorkInv
  <2>5. DataInv'
    BY <1>1, <2>1, TypeInvParts DEF DataInv
  <2> QED BY <1>1, <1>3, <2>1, <2>2, <2>4, <2>5
<1> QED BY <1>2, <1>3, ExitParts DEF TypeInv

LEMMA StopEndsEffect ==
    ASSUME TypeInv, StopEnds
    PROVE  WorkInv' /\ DataInv'
<1>1. /\ UNCHANGED <<work, lock, upkeep, limit>> /\ stopping' \subseteq stopping
      /\ transports' \subseteq transports
  BY DEF StopEnds, history
<1>2. DataInv'
  BY <1>1, TypeInvParts DEF DataInv, StopEnds, durable, history
<1> QED BY <1>1, <1>2, WorkKept

LEMMA PrepareEffect ==
    ASSUME TypeInv, NEW s \in Session, Prepare(s)
    PROVE  /\ WorkInv' /\ DataInv' /\ rows[s].state = "absent" /\ RowsKeep(s)
           /\ target.hostKey # "deleted" /\ ~target.deleting /\ lock = <<>>
           /\ rows'[s].state \in {"trustRequired", "credentialRequired"}
           /\ rows'[s].generation = 1 /\ rows'[s].revision = 1
<1> DEFINE row == [state |-> IF target.hostKey = "trusted" THEN "credentialRequired" ELSE "trustRequired",
                   generation |-> 1, revision |-> 1, mode |-> "create"]
<1>1. /\ rows' = [rows EXCEPT ![s] = row] /\ rows[s].state = "absent"
      /\ target.hostKey # "deleted" /\ ~target.deleting /\ lock = <<>>
      /\ UNCHANGED <<work, lock, upkeep, limit>>
  BY DEF Prepare, Present, LockFree, history
<1>2. /\ row \in Row /\ row.state \in {"trustRequired", "credentialRequired"}
      /\ row.generation = 1 /\ row.revision = 1
  BY DEF Row, Lifecycle, Generation
<1> HIDE DEF row
<1>3. rows' \in [Session -> Row] /\ rows'[s] = row /\ RowsKeep(s)
  BY <1>1, <1>2 DEF TypeInv, TypeOK, RowsKeep
<1>4. DataInv'
  BY <1>3, TypeInvParts DEF DataInv, Prepare, history
<1> QED BY <1>1, <1>2, <1>3, <1>4, WorkKept

LEMMA DecideHostKeyEffect ==
    ASSUME TypeInv, NEW s \in Session, DecideHostKey(s)
    PROVE  /\ WorkInv' /\ DataInv' /\ lock = <<>> /\ rows[s].state = "trustRequired"
           /\ target'.hostKey \in {"trusted", target.hostKey}
           /\ target'.deleting = target.deleting /\ target'.enrolling = target.enrolling
<1>1. /\ UNCHANGED <<work, lock, upkeep, limit>> /\ lock = <<>> /\ rows[s].state = "trustRequired"
      /\ \E hostKey \in {"trusted", target.hostKey} :
           target' = [target EXCEPT !.hostKey = hostKey, !.revision = @ + 1]
  BY DEF DecideHostKey, LockFree, history
<1>2. /\ target' \in Target /\ target'.hostKey \in {"trusted", target.hostKey}
      /\ target'.deleting = target.deleting /\ target'.enrolling = target.enrolling
  <2>1. PICK hostKey \in {"trusted", target.hostKey} :
           target' = [target EXCEPT !.hostKey = hostKey, !.revision = @ + 1]
    BY <1>1
  <2>2. target \in Target /\ hostKey \in HostKey
    BY TargetParts DEF TypeInv, TypeOK, HostKey
  <2> QED BY <2>1, <2>2, TargetMoves
<1>3. DataInv'
  BY <1>2, RequestedFacts, TypeInvParts DEF TypeInv, DataInv, DecideHostKey, history
<1> QED BY <1>1, <1>2, <1>3, WorkKept

\* A detach or a close moves the row on and gives up its timer and its transport.
LEMMA ReleaseEffect ==
    ASSUME TypeInv, NEW s \in Session, Detach(s) \/ Close(s)
    PROVE  /\ WorkInv' /\ DataInv' /\ RowsKeep(s) /\ TimersKeep(s) /\ timers'[s] = NoTimer
           /\ rows[s].state # "absent" /\ ~target.deleting
           /\ rows'[s].revision = rows[s].revision + 1
           /\ rows'[s].generation = rows[s].generation
           /\ Terminate(s, rows[s].generation)
           /\ \A x \in Session : x # s => released'[x] = released[x]
           /\ \/ /\ rows'[s].state = "detached" /\ released'[s] = rows[s].generation
                 /\ rows[s].state \in {"connected", "reconnecting"}
              \/ rows'[s].state = "closed" /\ released' = released
           /\ stranded' = stranded \ {s}
           /\ UNCHANGED <<target, lock, work, upkeep, transports, exits, phase, tmux, limit, spent, requests>>
<1>1. PICK st \in {"detached", "closed"} :
        /\ Release(s, st)
        /\ st = "detached" => rows[s].state \in {"connected", "reconnecting"}
  BY DEF Detach, Close
<1>2. rows[s].state # "absent" /\ ~target.deleting
  BY DEF Detach, Close, Present
<1>3. /\ rows' = Becomes(s, st) /\ timers' = Untimed(s) /\ Terminate(s, rows[s].generation)
      /\ released' = (IF st = "detached" THEN [released EXCEPT ![s] = rows[s].generation] ELSE released)
      /\ stranded' = stranded \ {s}
      /\ UNCHANGED <<target, lock, work, upkeep, transports, exits, phase, tmux, limit, spent, requests>>
  BY <1>1 DEF Release
<1>4. st \in Lifecycle /\ rows[s].generation \in Nat /\ rows[s].generation # 0
  BY SessionParts DEF TypeInv, Lifecycle
<1>5. /\ rows' \in [Session -> Row] /\ RowsKeep(s) /\ rows'[s].state = st
      /\ rows'[s].revision = rows[s].revision + 1 /\ rows'[s].generation = rows[s].generation
  BY <1>3, <1>4, BecomesFacts DEF TypeInv
<1>6. /\ timers' \in [Session -> Timer \cup {NoTimer}] /\ timers'[s] = NoTimer /\ TimersKeep(s)
      /\ \A x \in Session : timers'[x] # NoTimer => timers'[x].attempt <= limit'[x]
  BY <1>3, UntimedFacts
<1>7. attempts' \in [Session -> Attempt \cup {NoAttempt}] /\ stopping' \subseteq Transport
  BY <1>3, <1>4, TerminateFacts DEF TypeInv
<1>8. /\ released' \in [Session -> Generation \cup {0}]
      /\ \A x \in Session : x # s => released'[x] = released[x]
      /\ st = "detached" => released'[s] = rows[s].generation
      /\ st = "closed" => released' = released
  BY <1>3, <1>4 DEF TypeInv, TypeOK, Generation
<1>9. DataInv'
  <2>1. stranded' \subseteq Session
    BY <1>3 DEF TypeInv, TypeOK
  <2> QED BY <1>3, <1>5, <1>6, <1>7, <1>8, <2>1, TypeInvParts DEF DataInv
<1> QED BY <1>1, <1>2, <1>3, <1>5, <1>6, <1>8, <1>9, WorkKept

LEMMA ReplayReleaseEffect ==
    ASSUME TypeInv, NEW s \in Session, ReplayRelease(s)
    PROVE  /\ WorkInv' /\ DataInv' /\ TimersKeep(s) /\ timers'[s] = NoTimer
           /\ released[s] \in Nat /\ released[s] # 0 /\ Terminate(s, released[s])
<1>1. /\ UNCHANGED <<work, lock, upkeep, limit>> /\ timers' = Untimed(s)
      /\ released[s] # 0 /\ Terminate(s, released[s])
      /\ stranded' \subseteq stranded \cup {s}
  BY DEF ReplayRelease
<1>2. released[s] \in Nat
  BY SessionParts DEF TypeInv
<1>3. /\ timers' \in [Session -> Timer \cup {NoTimer}] /\ timers'[s] = NoTimer /\ TimersKeep(s)
      /\ \A x \in Session : timers'[x] # NoTimer => timers'[x].attempt <= limit'[x]
  BY <1>1, UntimedFacts
<1>4. attempts' \in [Session -> Attempt \cup {NoAttempt}] /\ stopping' \subseteq Transport
  BY <1>1, <1>2, TerminateFacts DEF TypeInv
<1>5. requests' \in 0 .. MaxRequests /\ stranded' \subseteq Session
  BY <1>1, RequestedFacts DEF TypeInv, TypeOK, ReplayRelease
<1>6. DataInv'
  BY <1>3, <1>4, <1>5, TypeInvParts DEF DataInv, ReplayRelease, durable
<1> QED BY <1>1, <1>2, <1>3, <1>6, WorkKept

LEMMA TransferEffect ==
    ASSUME TypeInv, NEW s \in Session, Transfer(s)
    PROVE  /\ WorkInv' /\ DataInv' /\ RowsKeep(s) /\ rows'[s].state = rows[s].state
           /\ rows'[s].revision = rows[s].revision + 1 /\ rows'[s].generation = rows[s].generation
           /\ rows[s].state # "absent"
<1>1. /\ UNCHANGED <<work, lock, upkeep, limit>> /\ rows' = Becomes(s, rows[s].state)
      /\ stranded' \subseteq stranded \cup {s} /\ rows[s].state # "absent"
  BY DEF Transfer, Present
<1>2. rows[s].state \in Lifecycle
  BY SessionParts DEF TypeInv
<1>3. /\ rows' \in [Session -> Row] /\ RowsKeep(s) /\ rows'[s].state = rows[s].state
      /\ rows'[s].revision = rows[s].revision + 1 /\ rows'[s].generation = rows[s].generation
  BY <1>1, <1>2, BecomesFacts DEF TypeInv
<1>4. requests' \in 0 .. MaxRequests /\ stranded' \subseteq Session
  BY <1>1, RequestedFacts DEF TypeInv, TypeOK, Transfer
<1>5. DataInv'
  BY <1>3, <1>4, TypeInvParts DEF DataInv, Transfer
<1> QED BY <1>1, <1>3, <1>5, WorkKept

LEMMA EnrollingEffect ==
    ASSUME TypeInv, BeginReplacement \/ AbortReplacement
    PROVE  /\ WorkInv' /\ DataInv' /\ lock = <<>>
           /\ target'.hostKey = target.hostKey /\ target'.deleting = target.deleting
           /\ target'.enrolling # 0 => ~target.deleting
           /\ UNCHANGED <<rows, lock, work, upkeep, timers, attempts, transports, stopping, exits,
                          phase, history>>
<1>1. /\ UNCHANGED <<rows, lock, work, upkeep, timers, attempts, transports, stopping, exits,
                     phase, history>>
      /\ UNCHANGED <<work, lock, upkeep, limit>> /\ lock = <<>>
      /\ requests' \in 0 .. MaxRequests
  BY RequestedFacts DEF BeginReplacement, AbortReplacement, LockFree, history, TypeInv, TypeOK
<1>2. /\ target' \in Target
      /\ target'.hostKey = target.hostKey /\ target'.deleting = target.deleting
      /\ target'.enrolling # 0 => ~target.deleting
  <2>1. target \in Target /\ target.revision \in Nat
    BY TargetParts DEF TypeInv, TypeOK
  <2>2. \A n \in Nat : LET u == [target EXCEPT !.enrolling = n]
                       IN  /\ u \in Target /\ u.hostKey = target.hostKey
                           /\ u.deleting = target.deleting /\ u.enrolling = n
    BY <2>1 DEF Target
  <2>3. CASE BeginReplacement
    <3>1. target' = [target EXCEPT !.enrolling = target.revision] /\ ~target.deleting
      BY <2>3 DEF BeginReplacement
    <3> QED BY <2>1, <2>2, <3>1
  <2>4. CASE AbortReplacement
    <3>1. target' = [target EXCEPT !.enrolling = 0]
      BY <2>4 DEF AbortReplacement
    <3> QED BY <2>2, <3>1
  <2> QED BY <2>3, <2>4
<1>3. DataInv'
  BY <1>1, <1>2, TypeInvParts DEF DataInv, history
<1> QED BY <1>1, <1>2, <1>3, WorkKept

\* Upkeep queues for the lock, works, and lets the lock go.
LEMMA RequestUpkeepEffect ==
    ASSUME TypeInv, NEW kind \in {"delete", "replace"}, RequestUpkeep(kind)
    PROVE  /\ WorkInv' /\ DataInv' /\ upkeep = Idle /\ upkeep'.step = "waiting"
           /\ UNCHANGED <<durable, work, timers, attempts, transports, stopping, exits, phase,
                          history>>
<1> DEFINE u == [kind |-> kind, step |-> "waiting", todo |-> {}, revoked |-> {}]
<1>1. /\ upkeep = Idle /\ upkeep' = u /\ lock' = Append(lock, Upkeep)
      /\ UNCHANGED <<durable, work, timers, attempts, transports, stopping, exits, phase, history>>
      /\ UNCHANGED <<work, limit>> /\ requests' \in 0 .. MaxRequests
  BY RequestedFacts DEF RequestUpkeep, history, TypeInv, TypeOK
<1>2. u \in UpkeepWork /\ u # Idle /\ u.step = "waiting"
  BY DEF UpkeepWork, Idle
<1> HIDE DEF u
<1>3. ~InLock(Upkeep) /\ Upkeep \notin Worker
  BY <1>1, WorkerAssumption DEF TypeInv, LockInv
<1>4. /\ lock' \in LockQueue
      /\ \A i, j \in 1 .. Len(lock') : lock'[i] = lock'[j] => i = j
      /\ \A y : InLock(y)' <=> InLock(y) \/ y = Upkeep
      /\ \A y : InLock(y) /\ lock[1] = y => lock'[1] = y
  BY <1>1, <1>3, Queued
<1>5. LockInv'
  <2>1. \A v \in Worker : InLock(v)' <=> work'[v].step \notin {"idle", "returned"}
    BY <1>1, <1>3, <1>4 DEF TypeInv, LockInv
  <2>2. \A v \in Worker : work'[v].step \in Reserved => lock'[1] = v
    BY <1>1, <1>4, Exclusion DEF TypeInv, LockInv
  <2> QED BY <1>1, <1>2, <1>4, <2>1, <2>2 DEF LockInv
<1>6. \A w \in Worker : work'[w] # Idle => ShapeOK(work[w])'
  BY <1>1, TypeInvParts DEF WorkInv, ShapeOK
<1>7. WorkInv'
  BY <1>1, <1>2, <1>4, <1>5, <1>6, TypeInvParts DEF WorkInv
<1>8. DataInv'
  BY <1>1, TypeInvParts DEF DataInv, durable, history
<1> QED BY <1>1, <1>2, <1>7, <1>8

LEMMA UpkeepMoves ==
    ASSUME TypeInv, NEW u \in UpkeepWork, u.step = "revoking",
           upkeep.step = "revoking" \/ (upkeep.step = "waiting" /\ Holds(Upkeep)),
           upkeep' = u, UNCHANGED <<work, lock, limit>>
    PROVE  WorkInv'
<1>1. InLock(Upkeep) /\ lock[1] = Upkeep /\ u # Idle /\ Upkeep \notin Worker
  BY Exclusion, WorkerAssumption DEF Idle, TypeInv, LockInv
<1>2. \A x : InLock(x)' <=> InLock(x)
  BY DEF InLock
<1>3. LockInv'
  BY <1>1, <1>2 DEF TypeInv, LockInv
<1>4. \A w \in Worker : work'[w] # Idle => ShapeOK(work[w])'
  BY TypeInvParts DEF WorkInv, ShapeOK
<1> QED BY <1>1, <1>3, <1>4, TypeInvParts DEF WorkInv

LEMMA UpkeepLeaves ==
    ASSUME TypeInv, upkeep.step = "revoking" \/ (upkeep.step = "waiting" /\ Holds(Upkeep)),
           UpkeepEnds, UNCHANGED <<work, limit>>
    PROVE  WorkInv' /\ upkeep' = Idle
<1>1. InLock(Upkeep) /\ lock[1] = Upkeep /\ Upkeep \notin Worker
  BY Exclusion, WorkerAssumption DEF TypeInv, LockInv
<1>2. /\ lock' \in LockQueue
      /\ \A i, j \in 1 .. Len(lock') : lock'[i] = lock'[j] => i = j
      /\ \A y : InLock(y)' <=> InLock(y) /\ y # Upkeep
  BY <1>1, Passed DEF UpkeepEnds
<1>3. upkeep' = Idle /\ Idle.step = "idle"
  BY DEF UpkeepEnds, Idle
<1>4. \A v \in Worker : work[v].step \notin Reserved
  BY <1>1 DEF TypeInv, LockInv
<1>5. LockInv'
  <2>1. \A v \in Worker : InLock(v)' <=> work'[v].step \notin {"idle", "returned"}
    BY <1>1, <1>2 DEF TypeInv, LockInv
  <2> QED BY <1>2, <1>3, <1>4, <2>1 DEF LockInv
<1>6. \A w \in Worker : work'[w] # Idle => ShapeOK(work[w])'
  BY TypeInvParts DEF WorkInv, ShapeOK
<1> QED BY <1>2, <1>3, <1>5, <1>6, TypeInvParts DEF WorkInv

\* An admitted deletion closes every session before it revokes the transports.
LEMMA UpkeepStartsEffect ==
    ASSUME TypeInv, UpkeepStarts
    PROVE  /\ WorkInv' /\ DataInv' /\ upkeep.step = "waiting" /\ Holds(Upkeep)
           /\ UNCHANGED <<work, timers, attempts, transports, stopping, exits, phase,
                          released, tmux, limit, spent, requests>>
           /\ target'.hostKey = target.hostKey /\ target'.enrolling = target.enrolling
           /\ \A s \in Session : rows'[s].generation = rows[s].generation
           /\ \/ upkeep' = Idle /\ UNCHANGED <<durable, stranded>>
              \/ /\ upkeep'.step = "revoking" /\ upkeep'.kind = upkeep.kind /\ upkeep'.todo = Revocable
                 /\ upkeep.kind # "delete" => target.enrolling # 0
                 /\ \/ UNCHANGED <<durable, stranded>> /\ (upkeep.kind = "delete" => target.deleting)
                    \/ /\ upkeep.kind = "delete" /\ ~target.deleting /\ target.enrolling = 0
                       /\ target.hostKey # "deleted"
                       /\ target'.deleting /\ stranded' = {}
                       /\ \A s \in Session :
                            IF Kept(s) THEN /\ rows'[s].state = "closed"
                                            /\ rows'[s].revision = rows[s].revision + 1
                                       ELSE rows'[s] = rows[s]
<1> DEFINE admitted == IF upkeep.kind = "delete"
                    THEN target.hostKey # "deleted" /\ (target.deleting \/ target.enrolling = 0)
                    ELSE target.enrolling # 0 /\ target.enrolling = target.revision
           u == [upkeep EXCEPT !.step = "revoking", !.todo = Revocable]
           fences == upkeep.kind = "delete" /\ ~target.deleting
<1>1. /\ upkeep.step = "waiting" /\ Holds(Upkeep)
      /\ UNCHANGED <<work, timers, attempts, transports, stopping, exits, phase,
                     released, tmux, limit, spent, requests>>
      /\ UNCHANGED <<work, limit>>
      /\ IF ~admitted
         THEN UpkeepEnds /\ UNCHANGED <<durable, stranded>>
         ELSE /\ upkeep' = u
              /\ UNCHANGED lock
              /\ IF fences
                 THEN /\ target' = [target EXCEPT !.deleting = TRUE]
                      /\ rows' = [s \in Session |->
                           IF Kept(s) THEN Becomes(s, "closed")[s] ELSE rows[s]]
                      /\ stranded' = {}
                 ELSE UNCHANGED <<durable, stranded>>
  BY DEF UpkeepStarts
<1>2. CASE ~admitted
  <2>1. UpkeepEnds /\ UNCHANGED <<durable, stranded>>
    BY <1>1, <1>2
  <2>2. WorkInv' /\ upkeep' = Idle
    BY <1>1, <2>1, UpkeepLeaves
  <2>3. DataInv'
    BY <1>1, <2>1, TypeInvParts DEF DataInv, durable
  <2> QED BY <1>1, <2>1, <2>2, <2>3 DEF durable
<1>3. CASE admitted
  <2>1. upkeep' = u /\ UNCHANGED <<work, lock, limit>>
    BY <1>1, <1>3
  <2>2. Revocable \subseteq Transport
    <3>1. \A s \in Session : rows[s].generation \in Generation
      BY SessionParts DEF TypeInv, Generation
    <3> QED BY <3>1 DEF Revocable, Transport
  <2>3. u \in UpkeepWork /\ u.step = "revoking" /\ u.kind = upkeep.kind /\ u.todo = Revocable
    <3>1. upkeep \in UpkeepWork
      BY <1>1, TargetParts DEF TypeInv
    <3> HIDE DEF admitted, fences
    <3> QED BY <2>2, <3>1 DEF UpkeepWork
  <2> HIDE DEF u
  <2>4. WorkInv'
    BY <1>1, <2>1, <2>3, UpkeepMoves
  <2>5. upkeep.kind # "delete" => target.enrolling # 0
    BY <1>3
  <2>6. CASE ~fences
    <3>1. UNCHANGED <<durable, stranded>> /\ (upkeep.kind = "delete" => target.deleting)
      BY <1>1, <1>3, <2>6
    <3>2. DataInv'
      BY <1>1, <3>1, TypeInvParts DEF DataInv, durable
    <3> QED BY <1>1, <2>1, <2>3, <2>4, <2>5, <3>1, <3>2 DEF durable
  <2>7. CASE fences
    <3>1. /\ target' = [target EXCEPT !.deleting = TRUE] /\ stranded' = {}
          /\ rows' = [s \in Session |-> IF Kept(s) THEN Becomes(s, "closed")[s] ELSE rows[s]]
      BY <1>1, <1>3, <2>7
    <3>2. /\ target' \in Target /\ target'.deleting /\ target'.hostKey = target.hostKey
          /\ target'.enrolling = target.enrolling
      <4>1. target \in Target
        BY DEF TypeInv, TypeOK
      <4>2. LET x == [target EXCEPT !.deleting = TRUE]
            IN  /\ x \in Target /\ x.deleting /\ x.hostKey = target.hostKey
                /\ x.enrolling = target.enrolling
        BY <4>1 DEF Target
      <4> QED BY <3>1, <4>2
    <3>3. ASSUME NEW s \in Session
          PROVE  /\ rows'[s] \in Row /\ rows'[s].generation = rows[s].generation
                 /\ IF Kept(s) THEN /\ rows'[s].state = "closed"
                                    /\ rows'[s].revision = rows[s].revision + 1
                               ELSE rows'[s] = rows[s]
      <4>1. /\ rows \in [Session -> Row] /\ rows[s] \in Row /\ rows[s].revision \in Nat
        BY SessionParts DEF TypeInv, TypeOK
      <4>2. Becomes(s, "closed")[s] = [rows[s] EXCEPT !.state = "closed", !.revision = @ + 1]
        BY <4>1 DEF Becomes
      <4>3. rows'[s] = IF Kept(s) THEN [rows[s] EXCEPT !.state = "closed", !.revision = @ + 1]
                                  ELSE rows[s]
        BY <3>1, <4>2
      <4>4. "closed" \in Lifecycle /\ rows[s].revision + 1 \in Nat
        BY <4>1 DEF Lifecycle
      <4>5. \A n \in Nat : LET r == [rows[s] EXCEPT !.state = "closed", !.revision = n]
                          IN  /\ r \in Row /\ r.state = "closed" /\ r.revision = n
                              /\ r.generation = rows[s].generation
        BY <4>1, <4>4 DEF Row
      <4> QED BY <4>1, <4>3, <4>4, <4>5
    <3>4. rows' \in [Session -> Row]
      BY <3>1, <3>3
    <3>5. DataInv'
      BY <1>1, <3>1, <3>2, <3>4, TypeInvParts DEF DataInv
    <3>6. upkeep.kind = "delete" /\ ~target.deleting /\ target.enrolling = 0
          /\ target.hostKey # "deleted"
      BY <1>3, <2>7
    <3> HIDE DEF admitted, fences
    <3> QED BY <1>1, <2>1, <2>3, <2>4, <2>5, <3>1, <3>2, <3>3, <3>5, <3>6
  <2> QED BY <2>6, <2>7
<1> QED BY <1>2, <1>3

LEMMA RevokesNextEffect ==
    ASSUME TypeInv, upkeep.step = "revoking", NEW t \in upkeep.todo, RevokesNext(t)
    PROVE  /\ WorkInv' /\ DataInv' /\ t = <<t[1], t[2]>> /\ t[1] \in Session
           /\ t[2] \in Nat /\ t[2] # 0 /\ Terminate(t[1], t[2])
           /\ upkeep'.step = "revoking" /\ upkeep'.kind = upkeep.kind
           /\ upkeep'.todo = upkeep.todo \ {t}
           /\ timers'[t[1]] = NoTimer /\ TimersKeep(t[1])
<1> DEFINE u == [upkeep EXCEPT !.todo = @ \ {t}, !.revoked = @ \cup {t}]
<1>1. /\ upkeep' = u /\ timers' = Untimed(t[1]) /\ Terminate(t[1], t[2])
      /\ stranded' \subseteq stranded \cup {t[1]}
      /\ UNCHANGED <<durable, lock, work, transports, exits, phase, released, tmux, limit, spent, requests>>
  BY DEF RevokesNext
<1>2. upkeep \in UpkeepWork /\ upkeep.todo \subseteq Transport /\ upkeep.revoked \subseteq Transport
  BY TargetParts DEF TypeInv, Idle
<1>3. t \in Transport /\ t = <<t[1], t[2]>> /\ t[1] \in Session /\ t[2] \in Nat /\ t[2] # 0
  BY <1>2 DEF Transport, Generation
<1>4. u \in UpkeepWork /\ u.step = "revoking" /\ u.kind = upkeep.kind /\ u.todo = upkeep.todo \ {t}
  BY <1>2, <1>3 DEF UpkeepWork
<1> HIDE DEF u
<1>5. WorkInv'
  BY <1>1, <1>4, UpkeepMoves
<1>6. /\ timers' \in [Session -> Timer \cup {NoTimer}] /\ timers'[t[1]] = NoTimer /\ TimersKeep(t[1])
      /\ \A x \in Session : timers'[x] # NoTimer => timers'[x].attempt <= limit'[x]
  BY <1>1, <1>3, UntimedFacts
<1>7. attempts' \in [Session -> Attempt \cup {NoAttempt}] /\ stopping' \subseteq Transport
  BY <1>1, <1>3, TerminateFacts DEF TypeInv
<1>8. stranded' \subseteq Session
  BY <1>1, <1>3 DEF TypeInv, TypeOK
<1>9. DataInv'
  BY <1>1, <1>6, <1>7, <1>8, TypeInvParts DEF DataInv, durable
<1> QED BY <1>1, <1>3, <1>4, <1>5, <1>6, <1>9

LEMMA UpkeepFailsEffect ==
    ASSUME TypeInv, UpkeepFails
    PROVE  WorkInv' /\ DataInv' /\ upkeep' = Idle
<1>1. upkeep.step = "revoking" /\ UpkeepEnds /\ UNCHANGED <<work, limit>>
  BY DEF UpkeepFails, history
<1>2. WorkInv' /\ upkeep' = Idle
  BY <1>1, UpkeepLeaves
<1>3. phase' \in {"recovering", "serving", "disposing", "disposed"}
  BY DEF UpkeepFails, TypeInv, TypeOK
<1>4. DataInv'
  BY <1>3, TypeInvParts DEF DataInv, UpkeepFails, durable, history
<1> QED BY <1>2, <1>4

LEMMA FinishDeletionEffect ==
    ASSUME TypeInv, FinishDeletion
    PROVE  /\ WorkInv' /\ DataInv' /\ upkeep' = Idle /\ upkeep.step = "revoking"
           /\ target'.hostKey = "deleted" /\ ~target'.deleting /\ target'.enrolling = target.enrolling
           /\ \A s \in Session : /\ rows'[s].state = "absent"
                                 /\ rows'[s].generation = rows[s].generation
                                 /\ rows'[s].revision = rows[s].revision
           /\ UNCHANGED <<work, timers, attempts, transports, stopping, exits, history, requests>>
<1>1. /\ upkeep.step = "revoking" /\ UpkeepEnds
      /\ rows' = [s \in Session |-> [rows[s] EXCEPT !.state = "absent"]]
      /\ target' = [target EXCEPT !.hostKey = "deleted", !.deleting = FALSE]
      /\ phase' = (IF phase = "recovering" THEN "serving" ELSE phase)
      /\ UNCHANGED <<work, timers, attempts, transports, stopping, exits, history, requests>>
      /\ UNCHANGED <<work, limit>>
  BY DEF FinishDeletion, RevokedAll, history
<1>2. WorkInv' /\ upkeep' = Idle
  BY <1>1, UpkeepLeaves
<1>3. /\ target' \in Target /\ target'.hostKey = "deleted" /\ ~target'.deleting
      /\ target'.enrolling = target.enrolling
  <2>1. target \in Target
    BY DEF TypeInv, TypeOK
  <2>2. LET x == [target EXCEPT !.hostKey = "deleted", !.deleting = FALSE]
        IN  /\ x \in Target /\ x.hostKey = "deleted" /\ ~x.deleting /\ x.enrolling = target.enrolling
    BY <2>1 DEF Target, HostKey
  <2> QED BY <1>1, <2>2
<1>4. ASSUME NEW s \in Session
      PROVE  /\ rows'[s] \in Row /\ rows'[s].state = "absent"
             /\ rows'[s].generation = rows[s].generation /\ rows'[s].revision = rows[s].revision
  <2>1. rows[s] \in Row
    BY SessionParts DEF TypeInv
  <2>2. LET x == [rows[s] EXCEPT !.state = "absent"]
        IN  /\ x \in Row /\ x.state = "absent" /\ x.generation = rows[s].generation
            /\ x.revision = rows[s].revision
    BY <2>1 DEF Row, Lifecycle
  <2> QED BY <1>1, <2>2
<1>5. rows' \in [Session -> Row]
  BY <1>1, <1>4
<1>6. phase' \in {"recovering", "serving", "disposing", "disposed"}
  BY <1>1 DEF TypeInv, TypeOK
<1>7. DataInv'
  BY <1>1, <1>3, <1>5, <1>6, TypeInvParts DEF DataInv, history
<1> QED BY <1>1, <1>2, <1>3, <1>4, <1>7

LEMMA CommitReplacementEffect ==
    ASSUME TypeInv, CommitReplacement
    PROVE  /\ WorkInv' /\ DataInv' /\ upkeep' = Idle /\ upkeep.step = "revoking"
           /\ upkeep.kind = "replace" /\ upkeep.todo = {}
           /\ target'.hostKey = target.hostKey /\ target'.deleting = target.deleting
           /\ target'.enrolling = 0 /\ stranded' = {}
           /\ \A s \in Session :
                IF Present(s)
                THEN /\ rows'[s].state = IF rows[s].state = "closed" THEN "closed" ELSE "failed"
                     /\ rows'[s].generation = rows[s].generation + 1
                     /\ rows'[s].revision = rows[s].revision + 1
                ELSE rows'[s] = rows[s]
           /\ UNCHANGED <<work, timers, attempts, transports, stopping, exits, phase,
                          released, tmux, limit, spent, requests>>
<1>1. /\ upkeep.step = "revoking" /\ UpkeepEnds /\ upkeep.kind = "replace" /\ upkeep.todo = {}
      /\ rows' = [s \in Session |->
           IF ~Present(s) THEN rows[s]
           ELSE [rows[s] EXCEPT !.state = IF @ = "closed" THEN @ ELSE "failed",
                                !.generation = @ + 1, !.revision = @ + 1]]
      /\ target' = [target EXCEPT !.enrolling = 0, !.revision = @ + 1] /\ stranded' = {}
      /\ UNCHANGED <<work, timers, attempts, transports, stopping, exits, phase,
                     released, tmux, limit, spent, requests>>
      /\ UNCHANGED <<work, limit>>
  BY DEF CommitReplacement, RevokedAll
<1>2. WorkInv' /\ upkeep' = Idle
  BY <1>1, UpkeepLeaves
<1>3. /\ target' \in Target /\ target'.hostKey = target.hostKey
      /\ target'.deleting = target.deleting /\ target'.enrolling = 0
  <2>1. target \in Target /\ target.revision + 1 \in Nat
    BY TargetParts DEF TypeInv, TypeOK
  <2>2. \A r \in Nat : LET x == [target EXCEPT !.enrolling = 0, !.revision = r]
                       IN  /\ x \in Target /\ x.hostKey = target.hostKey
                           /\ x.deleting = target.deleting /\ x.enrolling = 0
    BY <2>1 DEF Target
  <2> QED BY <1>1, <2>1, <2>2
<1>4. ASSUME NEW s \in Session
      PROVE  /\ rows'[s] \in Row
             /\ IF Present(s)
                THEN /\ rows'[s].state = (IF rows[s].state = "closed" THEN "closed" ELSE "failed")
                     /\ rows'[s].generation = rows[s].generation + 1
                     /\ rows'[s].revision = rows[s].revision + 1
                ELSE rows'[s] = rows[s]
  <2>1. /\ rows[s] \in Row /\ rows[s].generation \in Nat /\ rows[s].revision \in Nat
    BY SessionParts DEF TypeInv
  <2> DEFINE st == IF rows[s].state = "closed" THEN "closed" ELSE "failed"
             g  == rows[s].generation + 1
             r  == rows[s].revision + 1
  <2>2. st \in Lifecycle /\ g \in Generation /\ r \in Nat
    BY <2>1 DEF Lifecycle, Generation
  <2>3. rows'[s] = IF ~Present(s) THEN rows[s]
                   ELSE [rows[s] EXCEPT !.state = st, !.generation = g, !.revision = r]
    BY <1>1
  <2>4. LET b == [rows[s] EXCEPT !.state = st, !.generation = g, !.revision = r]
        IN  b \in Row /\ b.state = st /\ b.revision = r /\ b.generation = g
    <3> HIDE DEF st, g, r
    <3> QED BY <2>1, <2>2 DEF Row
  <2> QED BY <2>1, <2>3, <2>4
<1>5. rows' \in [Session -> Row]
  BY <1>1, <1>4
<1>6. DataInv'
  BY <1>1, <1>3, <1>5, TypeInvParts DEF DataInv
<1> QED BY <1>1, <1>2, <1>3, <1>4, <1>6

LEMMA DisposeEffect ==
    ASSUME TypeInv, Dispose
    PROVE  WorkInv' /\ DataInv' /\ \A s \in Session : timers'[s] = NoTimer
<1>1. UNCHANGED <<work, lock, upkeep, limit>> /\ timers' = [s \in Session |-> NoTimer]
  BY DEF Dispose, history
<1>2. DataInv'
  BY <1>1, RequestedFacts, TypeInvParts DEF TypeInv, DataInv, Dispose, durable, history
<1> QED BY <1>1, <1>2, WorkKept

LEMMA RuntimeDisposeEffect ==
    ASSUME TypeInv, RuntimeDispose
    PROVE  /\ WorkInv' /\ DataInv' /\ \A s \in Session : attempts'[s] = NoAttempt
           /\ \A t : t \in stopping' <=>
                t \in stopping \/ \E s \in Session : Live(s) /\ t = <<s, attempts[s].generation>>
<1>1. /\ UNCHANGED <<work, lock, upkeep, limit>> /\ attempts' = [s \in Session |-> NoAttempt]
      /\ stopping' = stopping \cup
         {<<s, attempts[s].generation>> :
            s \in {x \in Session : attempts[x] # NoAttempt /\ attempts[x].terminal}}
  BY DEF RuntimeDispose, history
<1>2. \A s \in Session : Live(s) => <<s, attempts[s].generation>> \in Transport
  BY SessionParts DEF Live, TypeInv, Transport
<1>3. \A t : t \in stopping' <=>
         t \in stopping \/ \E s \in Session : Live(s) /\ t = <<s, attempts[s].generation>>
  BY <1>1 DEF Live
<1>4. stopping' \subseteq Transport
  BY <1>2, <1>3 DEF TypeInv, TypeOK
<1>5. DataInv'
  BY <1>1, <1>4, TypeInvParts DEF DataInv, RuntimeDispose, durable, history
<1> QED BY <1>1, <1>3, <1>5, WorkKept

LEMMA EmptyQueue == <<>> \in LockQueue /\ 1 .. Len(<<>>) = {}
  BY DEF LockQueue

LEMMA RestartEffect ==
    ASSUME TypeInv, Restart
    PROVE  /\ WorkInv' /\ DataInv'
           /\ \A w \in Worker : work'[w] = Idle
           /\ upkeep' = Idle
           /\ \A s \in Session : timers'[s] = NoTimer /\ attempts'[s] = NoAttempt
           /\ target'.hostKey = target.hostKey /\ target'.deleting = target.deleting
           /\ target'.enrolling \in {0, target.enrolling}
           /\ \A s \in Session :
                IF rows[s].state \in InFlight \cup {"connected"}
                THEN /\ rows'[s].state = "detached"
                     /\ rows'[s].generation = rows[s].generation + 1
                     /\ rows'[s].revision = rows[s].revision + 1
                ELSE rows'[s] = rows[s]
<1>1. /\ rows' = [s \in Session |->
            IF rows[s].state \in InFlight \cup {"connected"}
            THEN [rows[s] EXCEPT !.state = "detached", !.generation = @ + 1, !.revision = @ + 1]
            ELSE rows[s]]
      /\ target' \in {target, [target EXCEPT !.enrolling = 0]}
      /\ lock' = <<>> /\ work' = [w \in Worker |-> Idle] /\ upkeep' = Idle
      /\ timers' = [s \in Session |-> NoTimer] /\ attempts' = [s \in Session |-> NoAttempt]
      /\ transports' = {} /\ stopping' = {} /\ exits' = {} /\ stranded' = {}
      /\ phase' = (IF target.deleting THEN "recovering" ELSE "serving")
      /\ UNCHANGED <<released, tmux, limit, spent>> /\ requests' \in 0 .. MaxRequests
  BY RequestedFacts DEF Restart, TypeInv
<1>2. /\ target' \in Target /\ target'.hostKey = target.hostKey
      /\ target'.deleting = target.deleting /\ target'.enrolling \in {0, target.enrolling}
  <2>1. target \in Target
    BY DEF TypeInv, TypeOK
  <2>2. LET x == [target EXCEPT !.enrolling = 0]
        IN  /\ x \in Target /\ x.hostKey = target.hostKey /\ x.deleting = target.deleting
            /\ x.enrolling = 0
    BY <2>1 DEF Target
  <2> QED BY <1>1, <2>1, <2>2
<1>3. ASSUME NEW s \in Session
      PROVE  /\ rows'[s] \in Row
             /\ IF rows[s].state \in InFlight \cup {"connected"}
                THEN /\ rows'[s].state = "detached"
                     /\ rows'[s].generation = rows[s].generation + 1
                     /\ rows'[s].revision = rows[s].revision + 1
                ELSE rows'[s] = rows[s]
  <2>1. /\ rows[s] \in Row /\ rows[s].generation \in Nat /\ rows[s].revision \in Nat
    BY SessionParts DEF TypeInv
  <2> DEFINE g == rows[s].generation + 1
             r == rows[s].revision + 1
  <2>2. "detached" \in Lifecycle /\ g \in Generation /\ r \in Nat
    BY <2>1 DEF Lifecycle, Generation
  <2>3. rows'[s] = IF rows[s].state \in InFlight \cup {"connected"}
                   THEN [rows[s] EXCEPT !.state = "detached", !.generation = g, !.revision = r]
                   ELSE rows[s]
    BY <1>1
  <2>4. LET b == [rows[s] EXCEPT !.state = "detached", !.generation = g, !.revision = r]
        IN  b \in Row /\ b.state = "detached" /\ b.revision = r /\ b.generation = g
    <3> HIDE DEF g, r
    <3> QED BY <2>1, <2>2 DEF Row
  <2> QED BY <2>1, <2>3, <2>4
<1>4. rows' \in [Session -> Row]
  BY <1>1, <1>3
<1>5. WorkInv'
  <2>0. Idle.step = "idle"
    BY DEF Idle
  <2>1. lock' \in LockQueue /\ 1 .. Len(lock') = {}
    BY <1>1, EmptyQueue
  <2>2. \A x : ~InLock(x)'
    BY <2>1 DEF InLock
  <2>3. LockInv'
    <3>1. \A w \in Worker : work'[w].step = "idle"
      BY <1>1, <2>0
    <3> QED BY <1>1, <2>0, <2>1, <2>2, <3>1 DEF LockInv, Reserved
  <2> QED BY <1>1, <2>1, <2>3 DEF WorkInv
<1>6. DataInv'
  BY <1>1, <1>2, <1>4, TypeInvParts DEF DataInv
<1> QED BY <1>1, <1>2, <1>3, <1>5, <1>6


-----------------------------------------------------------------------------
(* The types.                                                                *)

LEMMA InitTypes == Init => TypeInv
<1> SUFFICES ASSUME Init PROVE TypeInv
  OBVIOUS
<1>1. TypeOK
  <2>1. /\ rows \in [Session -> Row]
    BY DEF Init, Row, Lifecycle, Generation
  <2>2. target \in Target
    <3>1. PICK k \in {"untrusted", "trusted"} :
            target = [hostKey |-> k, revision |-> 1, deleting |-> FALSE, enrolling |-> 0]
      BY DEF Init
    <3> QED BY <3>1 DEF Target, HostKey
  <2>3. lock \in Seq(Worker \cup {Upkeep})
    BY EmptyQueue DEF Init, LockQueue
  <2> QED BY <2>1, <2>2, <2>3, BoundAssumption DEF Init, TypeOK, Transport
<1>2. /\ \A w \in Worker : work[w] = Idle
      /\ \A s \in Session : timers[s] = NoTimer
      /\ upkeep = Idle /\ Idle.step = "idle" /\ 1 .. Len(lock) = {}
  BY EmptyQueue DEF Init, Idle
<1>3. LockInv
  BY <1>2 DEF LockInv, InLock, Reserved
<1> QED BY <1>1, <1>2, <1>3 DEF TypeInv

LEMMA ActivatesTypes ==
    ASSUME TypeInv, NEW w \in Worker, Activates(w)
    PROVE  TypeInv'
<1>1. CASE Reserve(w)
  BY <1>1, ReserveEffect, TypeInvPartsNext
<1>2. CASE Prepared(w)
  BY <1>2, PreparedEffect, TypeInvPartsNext
<1>3. CASE PreparationFails(w) \/ SpawnFails(w) \/ CompletionFails(w)
  BY <1>3, FailsEffect, TypeInvPartsNext
<1>4. CASE Spawn(w)
  BY <1>4, SpawnEffect, TypeInvPartsNext
<1>5. CASE LaunchReturns(w)
  BY <1>5, LaunchReturnsEffect, TypeInvPartsNext
<1>6. CASE Completed(w)
  BY <1>6, CompletedEffect, TypeInvPartsNext
<1>7. CASE RecordEarlyExit(w)
  BY <1>7, RecordEarlyExitEffect, TypeInvPartsNext
<1>8. CASE MarkHostKeyChanged(w)
  BY <1>8, MarkHostKeyChangedEffect, TypeInvPartsNext
<1>9. CASE RecordFailure(w)
  BY <1>9, RecordFailureEffect, TypeInvPartsNext
<1>10. CASE Returned(w)
  BY <1>10, ReturnedEffect, TypeInvPartsNext
<1> QED BY <1>1, <1>2, <1>3, <1>4, <1>5, <1>6, <1>7, <1>8, <1>9, <1>10 DEF Activates

LEMMA TypesKept ==
    ASSUME TypeInv, [Next]_vars
    PROVE  TypeInv'
<1>1. CASE UNCHANGED vars
  BY <1>1 DEF TypeInv, TypeOK, ShapeOK, LockInv, InLock, vars
<1>2. ASSUME NEW w \in Worker, Activates(w) PROVE TypeInv'
  BY <1>2, ActivatesTypes
<1>3. ASSUME NEW w \in Worker, NEW s \in Session, Activate(w, s) \/ TimerFires(w, s) PROVE TypeInv'
  BY <1>3, ActivateEffect, TimerFiresEffect, TypeInvPartsNext
<1>4. ASSUME NEW s \in Session, Requests(s) PROVE TypeInv'
  BY <1>4, PrepareEffect, DecideHostKeyEffect, ReleaseEffect, ReplayReleaseEffect, TransferEffect,
     TypeInvPartsNext DEF Requests
<1>5. ASSUME NEW t \in transports, TransportExits(t) PROVE TypeInv'
  BY <1>5, TransportExitsEffect, TypeInvPartsNext
<1>6. ASSUME NEW e \in exits, ExitReported(e) PROVE TypeInv'
  BY <1>6, ExitReportedEffect, TypeInvPartsNext
<1>7. CASE StopEnds \/ BeginReplacement \/ AbortReplacement
  BY <1>7, StopEndsEffect, EnrollingEffect, TypeInvPartsNext
<1>8. ASSUME NEW kind \in {"delete", "replace"}, RequestUpkeep(kind) PROVE TypeInv'
  BY <1>8, RequestUpkeepEffect, TypeInvPartsNext
<1>9. CASE UpkeepStep \/ UpkeepFails
  BY <1>9, UpkeepStartsEffect, RevokesNextEffect, UpkeepFailsEffect, FinishDeletionEffect,
     CommitReplacementEffect, TypeInvPartsNext DEF UpkeepStep
<1>10. CASE Dispose \/ RuntimeDispose \/ Restart
  BY <1>10, DisposeEffect, RuntimeDisposeEffect, RestartEffect, TypeInvPartsNext
<1> QED BY <1>1, <1>2, <1>3, <1>4, <1>5, <1>6, <1>7, <1>8, <1>9, <1>10 DEF Next

\* The state keeps its types, the lock's queue names who asked for it, and no
\* timer is set for more attempts than the session allows.
THEOREM TypesHold == Spec => []TypeInv
<1>1. Init => TypeInv
  BY InitTypes
<1>2. TypeInv /\ [Next]_vars => TypeInv'
  BY TypesKept
<1> QED BY <1>1, <1>2, PTL DEF Spec

\* Every variable stays within its type.
THEOREM TypeCorrect == Spec => []TypeOK
<1>1. TypeInv => TypeOK
  BY DEF TypeInv
<1> QED BY <1>1, TypesHold, PTL

-----------------------------------------------------------------------------
(* Every SSH process has an owner.                                           *)

\* The launches that have a transport in their hands keep it.
HandsKept == \A w \in Worker : work[w].step = "spawned" =>
    /\ work'[w].step = "spawned" /\ work'[w].session = work[w].session
    /\ work'[w].generation = work[w].generation

\* The steps that touch no transport and no entry of the runtime.
Quiet ==
    \/ \E w \in Worker :
         \/ Reserve(w) \/ Completed(w) \/ RecordEarlyExit(w) \/ MarkHostKeyChanged(w)
         \/ RecordFailure(w) \/ Returned(w)
         \/ \E s \in Session : Activate(w, s) \/ TimerFires(w, s)
    \/ \E s \in Session : Prepare(s) \/ DecideHostKey(s) \/ Transfer(s)
    \/ \E e \in exits : ExitReported(e)
    \/ BeginReplacement \/ AbortReplacement
    \/ \E kind \in {"delete", "replace"} : RequestUpkeep(kind)
    \/ UpkeepStarts \/ UpkeepFails \/ FinishDeletion \/ CommitReplacement \/ Dispose
    \/ UNCHANGED vars

\* The others, one by one.
LEMMA StepCases ==
    ASSUME [Next]_vars
    PROVE  \/ Quiet
           \/ \E w \in Worker :
                \/ Prepared(w) \/ PreparationFails(w) \/ SpawnFails(w) \/ CompletionFails(w)
                \/ Spawn(w) \/ LaunchReturns(w)
           \/ \E s \in Session : Detach(s) \/ Close(s) \/ ReplayRelease(s)
           \/ \E t \in transports : TransportExits(t)
           \/ StopEnds
           \/ upkeep.step = "revoking" /\ \E t \in upkeep.todo : RevokesNext(t)
           \/ RuntimeDispose \/ Restart
  BY Zenon DEF Next, Activates, Requests, UpkeepStep, Quiet

LEMMA QuietKeeps ==
    ASSUME TypeInv, Quiet
    PROVE  UNCHANGED <<transports, stopping, attempts>> /\ HandsKept
<1>1. ASSUME NEW w \in Worker,
             \/ Reserve(w) \/ Completed(w) \/ RecordEarlyExit(w) \/ MarkHostKeyChanged(w)
             \/ RecordFailure(w) \/ Returned(w)
      PROVE  UNCHANGED <<transports, stopping, attempts>> /\ HandsKept
  <2>1. UNCHANGED <<transports, stopping, attempts>>
    BY <1>1 DEF Reserve, Completed, RecordEarlyExit, MarkHostKeyChanged, RecordFailure, Returned
  <2>2. CASE MarkHostKeyChanged(w)
    BY <2>1, <2>2 DEF MarkHostKeyChanged, HandsKept
  <2>3. CASE Reserve(w) \/ Completed(w) \/ RecordEarlyExit(w) \/ RecordFailure(w) \/ Returned(w)
    <3>1. OthersKeep(w) /\ work[w].step # "spawned"
      BY <2>3, ReserveEffect, CompletedEffect, RecordEarlyExitEffect, RecordFailureEffect,
         ReturnedEffect DEF LeavesLock, Stays
    <3> QED BY <2>1, <3>1 DEF HandsKept, OthersKeep
  <2> QED BY <1>1, <2>2, <2>3
<1>2. ASSUME NEW w \in Worker, NEW s \in Session, Activate(w, s) \/ TimerFires(w, s)
      PROVE  UNCHANGED <<transports, stopping, attempts>> /\ HandsKept
  <2>1. UNCHANGED <<transports, stopping, attempts>>
    BY <1>2 DEF Activate, TimerFires
  <2>2. work' = work \/ (OthersKeep(w) /\ work[w] = Idle)
    BY <1>2, ActivateEffect, TimerFiresEffect
  <2> QED BY <2>1, <2>2 DEF HandsKept, OthersKeep, Idle
<1>3. ASSUME NEW e \in exits, ExitReported(e)
      PROVE  UNCHANGED <<transports, stopping, attempts>> /\ HandsKept
  <2>1. \A w \in Worker : work[w].step = "spawned" => work'[w] = work[w]
    BY <1>3, ExitReportedEffect
  <2> QED BY <1>3, <2>1 DEF ExitReported, HandsKept
<1>4. CASE \/ \E s \in Session : Prepare(s) \/ DecideHostKey(s) \/ Transfer(s)
           \/ BeginReplacement \/ AbortReplacement
           \/ \E kind \in {"delete", "replace"} : RequestUpkeep(kind)
           \/ UpkeepStarts \/ UpkeepFails \/ FinishDeletion \/ CommitReplacement \/ Dispose
           \/ UNCHANGED vars
  <2>1. UNCHANGED <<transports, stopping, attempts, work>>
    BY <1>4 DEF Prepare, DecideHostKey, Transfer, BeginReplacement, AbortReplacement, RequestUpkeep,
       UpkeepStarts, UpkeepFails, FinishDeletion, CommitReplacement, Dispose, vars
  <2> QED BY <2>1 DEF HandsKept
<1> QED BY <1>1, <1>2, <1>3, <1>4 DEF Quiet

\* Who has to give the process up: it is being stopped, or another has it.
Accounted(t) ==
    \/ t \in stopping
    \/ Owns(t[1], t[2]) /\ attempts[t[1]].terminal
    \/ \E w \in Worker : /\ work[w].step = "spawned" /\ work[w].session = t[1]
                         /\ work[w].generation = t[2]

LEMMA EntryGivenUp ==
    ASSUME TypeInv, TransportsAccounted, HandsKept, UNCHANGED transports,
           NEW s \in Session, NEW g \in Nat, g # 0, Terminate(s, g)
    PROVE  TransportsAccounted'
<1>1. /\ \A x \in Session : attempts'[x] = IF x = s /\ Owns(s, g) THEN NoAttempt ELSE attempts[x]
      /\ \A t : t \in stopping' <=> t \in stopping \/ (t = <<s, g>> /\ Owns(s, g) /\ Live(s))
  BY TerminateFacts DEF TypeInv
<1>2. SUFFICES ASSUME NEW t \in transports PROVE Accounted(t)'
  BY DEF TransportsAccounted, Accounted, Owns
<1>3. t = <<t[1], t[2]>> /\ t[1] \in Session /\ t[2] # 0
  BY DEF TypeInv, TypeOK, Transport, Generation
<1>4. Accounted(t)
  BY DEF TransportsAccounted, Accounted
<1>5. CASE Owns(t[1], t[2]) /\ attempts[t[1]].terminal
  <2>1. attempts[t[1]] # NoAttempt
    BY <1>3, <1>5 DEF Owns, NoAttempt
  <2> QED BY <1>1, <1>3, <1>5, <2>1 DEF Accounted, Owns, Live
<1>6. CASE t \in stopping
  BY <1>1, <1>6 DEF Accounted
<1>7. CASE \E w \in Worker : /\ work[w].step = "spawned" /\ work[w].session = t[1]
                             /\ work[w].generation = t[2]
  BY <1>7 DEF Accounted, HandsKept
<1> QED BY <1>4, <1>5, <1>6, <1>7 DEF Accounted

\* A step that only loses transports, and keeps or gives up every owner's.
LEMMA OwnersKept ==
    ASSUME TypeInv, TransportsAccounted, transports' \subseteq transports,
           \A t \in transports' : Accounted(t) => Accounted(t)'
    PROVE  TransportsAccounted'
<1>1. \A t \in transports' : Accounted(t)'
  BY DEF TransportsAccounted, Accounted
<1> QED BY <1>1 DEF TransportsAccounted, Accounted, Owns

LEMMA AccountedKept ==
    ASSUME TypeInv, TransportsAccounted, [Next]_vars
    PROVE  TransportsAccounted'
<1>1. CASE Quiet
  <2>1. UNCHANGED <<transports, stopping, attempts>> /\ HandsKept
    BY <1>1, QuietKeeps
  <2> QED BY <2>1 DEF HandsKept, TransportsAccounted, Owns
<1>2. ASSUME NEW w \in Worker, Prepared(w) PROVE TransportsAccounted'
  <2> DEFINE s == work[w].session  g == work[w].generation
  <2>1. /\ \A x \in Session : x # s => attempts'[x] = attempts[x]
        /\ \A t : t \in stopping' <=> t \in stopping \/ (t = <<s, attempts[s].generation>> /\ Live(s))
        /\ Stays(w, "replacing") /\ work[w].step = "preparing" /\ transports' = transports
    BY <1>2, PreparedEffect DEF Prepared
  <2>2. ASSUME NEW t \in transports, Accounted(t) PROVE Accounted(t)'
    <3>1. t = <<t[1], t[2]>> /\ t[1] \in Session /\ t[2] # 0
      BY DEF TypeInv, TypeOK, Transport, Generation
    <3>2. CASE Owns(t[1], t[2]) /\ attempts[t[1]].terminal
      <4>1. attempts[t[1]] # NoAttempt
        BY <3>1, <3>2 DEF Owns, NoAttempt
      <4> QED BY <2>1, <3>1, <3>2, <4>1 DEF Accounted, Owns, Live
    <3>3. CASE t \in stopping
      BY <2>1, <3>3 DEF Accounted
    <3>4. CASE \E v \in Worker : /\ work[v].step = "spawned" /\ work[v].session = t[1]
                                 /\ work[v].generation = t[2]
      BY <2>1, <3>4 DEF Accounted, Stays, OthersKeep
    <3> QED BY <2>2, <3>2, <3>3, <3>4 DEF Accounted
  <2> QED BY <2>1, <2>2, OwnersKept
<1>3. ASSUME NEW w \in Worker, PreparationFails(w) \/ SpawnFails(w) \/ CompletionFails(w)
      PROVE  TransportsAccounted'
  <2>1. /\ Stays(w, "failing") /\ work[w].step \in {"preparing", "replacing", "completing"}
        /\ work[w].session \in Session /\ work[w].generation \in Nat /\ work[w].generation # 0
        /\ Terminate(work[w].session, work[w].generation) /\ transports' = transports
    BY <1>3, FailsEffect
  <2>2. HandsKept
    BY <2>1 DEF HandsKept, Stays, OthersKeep
  <2> QED BY <2>1, <2>2, EntryGivenUp
<1>4. ASSUME NEW w \in Worker, Spawn(w) PROVE TransportsAccounted'
  <2> DEFINE s == work[w].session  g == work[w].generation
  <2>1. /\ Stays(w, "spawned") /\ transports' = transports \cup {<<s, g>>}
        /\ UNCHANGED <<attempts, stopping>> /\ work[w].step = "replacing"
    BY <1>4, SpawnEffect DEF Spawn
  <2>2. work'[w].session = s /\ work'[w].generation = g /\ work'[w].step = "spawned"
    BY <2>1 DEF Stays, Kin
  <2>3. HandsKept
    BY <2>1 DEF HandsKept, Stays, OthersKeep
  <2>4. ASSUME NEW t \in transports' PROVE Accounted(t)'
    <3>1. CASE t \in transports
      BY <2>1, <2>3, <3>1 DEF TransportsAccounted, Accounted, HandsKept, Owns
    <3>2. CASE t = <<s, g>>
      BY <2>2, <3>2 DEF Accounted
    <3> QED BY <2>1, <3>1, <3>2
  <2> QED BY <2>4 DEF TransportsAccounted, Accounted, Owns
<1>5. ASSUME NEW w \in Worker, LaunchReturns(w) PROVE TransportsAccounted'
  <2> DEFINE s == work[w].session  g == work[w].generation
  <2>1. transports' = transports /\ s \in Session /\ work[w].step = "spawned" /\ OthersKeep(w)
    BY <1>5, LaunchReturnsEffect DEF LaunchReturns, Stays
  <2>2. ASSUME NEW t \in transports, Accounted(t) PROVE Accounted(t)'
    <3>1. t = <<t[1], t[2]>> /\ t[1] \in Session /\ t[2] # 0
      BY DEF TypeInv, TypeOK, Transport, Generation
    <3>2. CASE /\ Launched(w) /\ UNCHANGED stopping /\ attempts'[s].generation = g
               /\ attempts'[s].terminal
               /\ \A x \in Session : x # s => attempts'[x] = attempts[x]
      <4>1. Owns(s, g)
        BY <3>2 DEF Launched
      <4> QED BY <2>1, <2>2, <3>1, <3>2, <4>1 DEF Accounted, Owns, OthersKeep
    <3>3. CASE /\ \A x \in Session :
                    attempts'[x] = IF x = s /\ Owns(s, g) THEN NoAttempt ELSE attempts[x]
               /\ \A u : u \in stopping' <=> u \in stopping \/ (u = <<s, g>> /\ u \in transports)
      <4>1. CASE t = <<s, g>>
        BY <3>3, <4>1 DEF Accounted
      <4>2. CASE t # <<s, g>>
        <5>1. t \in stopping => t \in stopping'
          BY <3>3
        <5>2. Owns(t[1], t[2]) /\ attempts[t[1]].terminal => attempts'[t[1]] = attempts[t[1]]
          BY <3>1, <3>3, <4>2 DEF Owns
        <5>3. ASSUME NEW v \in Worker, work[v].step = "spawned", work[v].session = t[1],
                     work[v].generation = t[2]
              PROVE  work'[v] = work[v]
          BY <2>1, <3>1, <4>2, <5>3 DEF OthersKeep
        <5> QED BY <2>2, <5>1, <5>2, <5>3 DEF Accounted, Owns
      <4> QED BY <4>1, <4>2
    <3> QED BY <1>5, <3>2, <3>3, LaunchReturnsEffect
  <2> QED BY <2>1, <2>2, OwnersKept
<1>6. ASSUME NEW s \in Session, Detach(s) \/ Close(s) \/ ReplayRelease(s) PROVE TransportsAccounted'
  <2>1. PICK g \in Nat : g # 0 /\ Terminate(s, g)
    <3>1. rows[s].generation \in Nat /\ rows[s].generation # 0
      BY SessionParts DEF TypeInv
    <3> QED BY <1>6, <3>1, ReleaseEffect, ReplayReleaseEffect
  <2>2. UNCHANGED <<transports, work>>
    BY <1>6 DEF Detach, Close, Release, ReplayRelease
  <2> QED BY <2>1, <2>2, EntryGivenUp DEF HandsKept
<1>7. ASSUME NEW t \in transports, TransportExits(t) PROVE TransportsAccounted'
  <2> DEFINE s == t[1]  g == t[2]  owned == Owns(s, g) /\ attempts[s].terminal
  <2>1. /\ t = <<s, g>> /\ s \in Session /\ transports' = transports \ {t}
        /\ \A x \in Session : attempts'[x] = IF x = s /\ owned THEN NoAttempt ELSE attempts[x]
        /\ UNCHANGED <<stopping, work>>
    BY <1>7, TransportExitsEffect DEF TransportExits
  <2>2. ASSUME NEW u \in transports', Accounted(u) PROVE Accounted(u)'
    <3>1. u = <<u[1], u[2]>> /\ u[1] \in Session /\ u # t
      BY <2>1 DEF TypeInv, TypeOK, Transport
    <3>2. Owns(u[1], u[2]) /\ attempts[u[1]].terminal => attempts'[u[1]] = attempts[u[1]]
      BY <2>1, <3>1 DEF Owns
    <3> QED BY <2>1, <2>2, <3>2 DEF Accounted, Owns
  <2> QED BY <2>1, <2>2, OwnersKept
<1>8. CASE StopEnds
  <2>1. PICK u \in stopping : stopping' = stopping \ {u} /\ transports' = transports \ {u}
    BY <1>8 DEF StopEnds
  <2>2. UNCHANGED <<attempts, work>>
    BY <1>8 DEF StopEnds
  <2>3. \A t \in transports' : Accounted(t) => Accounted(t)'
    BY <2>1, <2>2 DEF Accounted, Owns
  <2> QED BY <2>1, <2>3, OwnersKept
<1>9. ASSUME upkeep.step = "revoking", NEW t \in upkeep.todo, RevokesNext(t)
      PROVE  TransportsAccounted'
  <2>1. t[1] \in Session /\ t[2] \in Nat /\ t[2] # 0 /\ Terminate(t[1], t[2])
    BY <1>9, RevokesNextEffect
  <2>2. UNCHANGED <<transports, work>>
    BY <1>9 DEF RevokesNext
  <2> QED BY <2>1, <2>2, EntryGivenUp DEF HandsKept
<1>10. CASE RuntimeDispose
  <2>1. /\ \A t : t \in stopping' <=>
             t \in stopping \/ \E s \in Session : Live(s) /\ t = <<s, attempts[s].generation>>
        /\ UNCHANGED <<transports, work>>
    BY <1>10, RuntimeDisposeEffect DEF RuntimeDispose
  <2>2. ASSUME NEW t \in transports, Accounted(t) PROVE Accounted(t)'
    <3>1. t = <<t[1], t[2]>> /\ t[1] \in Session /\ t[2] # 0
      BY DEF TypeInv, TypeOK, Transport, Generation
    <3>2. CASE Owns(t[1], t[2]) /\ attempts[t[1]].terminal
      <4>1. Live(t[1]) /\ t = <<t[1], attempts[t[1]].generation>>
        BY <3>1, <3>2 DEF Owns, NoAttempt, Live
      <4> QED BY <2>1, <3>1, <4>1 DEF Accounted
    <3> QED BY <2>1, <2>2, <3>2 DEF Accounted
  <2> QED BY <2>1, <2>2, OwnersKept
<1>11. CASE Restart
  BY <1>11 DEF Restart, TransportsAccounted
<1> QED BY <1>1, <1>2, <1>3, <1>4, <1>5, <1>6, <1>7, <1>8, <1>9, <1>10, <1>11, StepCases

\* Every SSH process is in the runtime's map, being stopped, or in the hands of a
\* launch that has not returned.
THEOREM NoStrayTransport == Spec => []TransportsAccounted
<1>1. Init => TransportsAccounted
  BY DEF Init, TransportsAccounted
<1>2. TypeInv /\ TransportsAccounted /\ [Next]_vars => TransportsAccounted'
  BY AccountedKept
<1> QED BY <1>1, <1>2, TypesHold, PTL DEF Spec

\* While an attempt runs, nobody else changes the target it was reserved with.
THEOREM TargetStands == Spec => TargetHeldStill
<1> DEFINE Runs(w) == work[w].step \in {"preparing", "replacing", "spawned", "completing"}
           P == \A w \in Worker :
                  /\ Runs(w)
                  /\ work'[w].step \in {"preparing", "replacing", "spawned", "completing", "failing"}
                  => target' = target
<1>1. TypeInv /\ [Next]_vars => P
  <2> SUFFICES ASSUME TypeInv, [Next]_vars, NEW w \in Worker, Runs(w), target' # target,
                      work'[w].step # "idle"
               PROVE  FALSE
    BY DEF Runs
  <2>1. /\ work[w].step \in Reserved /\ InLock(w) /\ lock # <<>> /\ upkeep.step # "revoking"
        /\ ~Holds(Upkeep)
        /\ \A v \in Worker : work[v].step \in Reserved => v = w
        /\ Idle.step = "idle"
    BY Exclusion DEF Runs, Reserved, Idle
  <2>2. ASSUME NEW v \in Worker, Activates(v) PROVE FALSE
    <3>1. MarkHostKeyChanged(v)
      BY <2>2 DEF Activates, Reserve, Prepared, PreparationFails, Spawn, SpawnFails, LaunchReturns,
         Completed, CompletionFails, RecordEarlyExit, RecordFailure, Returned, durable
    <3>2. work[v].step = "failing"
      BY <3>1 DEF MarkHostKeyChanged, Waits
    <3> QED BY <2>1, <3>2 DEF Reserved, Runs
  <2>3. ASSUME NEW v \in Worker, NEW s \in Session, Activate(v, s) \/ TimerFires(v, s) PROVE FALSE
    BY <2>3 DEF Activate, TimerFires, durable
  <2>4. ASSUME NEW s \in Session, Requests(s) PROVE FALSE
    BY <2>1, <2>4 DEF Requests, Prepare, DecideHostKey, Detach, Close, Release, ReplayRelease,
       Transfer, LockFree, durable
  <2>5. ASSUME NEW t \in transports, TransportExits(t) PROVE FALSE
    BY <2>5 DEF TransportExits, durable
  <2>6. ASSUME NEW e \in exits, ExitReported(e) PROVE FALSE
    BY <2>6 DEF ExitReported
  <2>7. CASE StopEnds \/ BeginReplacement \/ AbortReplacement
    BY <2>1, <2>7 DEF StopEnds, BeginReplacement, AbortReplacement, LockFree, durable
  <2>8. ASSUME NEW kind \in {"delete", "replace"}, RequestUpkeep(kind) PROVE FALSE
    BY <2>8 DEF RequestUpkeep, durable
  <2>9. CASE UpkeepStep \/ UpkeepFails
    BY <2>1, <2>9 DEF UpkeepStep, UpkeepFails, UpkeepStarts, FinishDeletion, CommitReplacement,
       RevokedAll, RevokesNext, durable
  <2>10. CASE Dispose \/ RuntimeDispose
    BY <2>10 DEF Dispose, RuntimeDispose, durable
  <2>11. CASE Restart
    <3>1. work'[w] = Idle
      BY <2>11 DEF Restart
    <3> QED BY <2>1, <3>1
  <2>12. CASE UNCHANGED vars
    BY <2>12 DEF vars
  <2> QED BY <2>2, <2>3, <2>4, <2>5, <2>6, <2>7, <2>8, <2>9, <2>10, <2>11, <2>12 DEF Next
<1>2. TypeInv /\ [Next]_vars => [P]_vars
  BY <1>1
<1> QED BY <1>2, TypesHold, PTL DEF Spec, TargetHeldStill

-----------------------------------------------------------------------------
(* How a row may change.                                                     *)

\* A row is prepared, moves on with its generation or to the next, or goes with
\* its target; a closed one stays closed.
RowStep(s) ==
    \/ rows'[s] = rows[s]
    \/ /\ rows[s].state = "absent" /\ target.hostKey # "deleted" /\ ~target.deleting
       /\ target' = target /\ rows'[s].state \in {"trustRequired", "credentialRequired"}
    \/ /\ rows[s].state # "absent" /\ rows'[s].state # "absent"
       /\ rows[s].state = "closed" => rows'[s].state = "closed"
       /\ rows[s].state = "connected" /\ rows'[s].state = "connected"
            => rows'[s].generation = rows[s].generation
       /\ rows[s].state = "detached" /\ rows'[s].generation = rows[s].generation
            => rows'[s].state \in {"detached", "closed"}
       /\ rows'[s].state \in {"trustRequired", "credentialRequired"} => rows'[s].state = rows[s].state
       /\ rows'[s].revision > rows[s].revision
       /\ rows'[s].generation \in {rows[s].generation, rows[s].generation + 1}
    \/ /\ rows'[s].state = "absent" /\ rows'[s].generation = rows[s].generation
       /\ rows'[s].revision = rows[s].revision /\ target'.hostKey = "deleted"

LEMMA RecordExitRow ==
    ASSUME TypeInv, NEW s \in Session, NEW x \in Session, NEW g \in Nat,
           NEW attempt \in 0 .. MaxAttempts, RecordExit(s, g, attempt)
    PROVE  RowStep(x)
<1>1. CASE UNCHANGED rows
  BY <1>1 DEF RowStep
<1>2. CASE x # s
  BY <1>2, RecordExitFacts DEF RowStep, TypeInv
<1>3. CASE rows # rows' /\ x = s
  <2>1. /\ ExitApplies(s, g) /\ rows'[s].generation = g /\ rows'[s].revision > rows[s].revision
        /\ rows'[s].state \in {"reconnecting", "detached", "failed"}
    BY <1>3, RecordExitFacts DEF TypeInv
  <2> QED BY <1>3, <2>1 DEF RowStep, ExitApplies
<1> QED BY <1>1, <1>2, <1>3

LEMMA ActivatesRow ==
    ASSUME TypeInv, NEW w \in Worker, Activates(w), NEW x \in Session
    PROVE  RowStep(x)
<1> DEFINE s == work[w].session
<1>1. \A y \in Session : rows[y].generation \in Nat /\ rows[y].revision \in Nat
  BY SessionParts DEF TypeInv
<1>2. CASE UNCHANGED rows
  BY <1>2 DEF RowStep
<1>3. CASE Reserve(w)
  <2>1. CASE UNCHANGED rows
    BY <2>1 DEF RowStep
  <2>2. CASE /\ Reservable(w) /\ RowsKeep(s) /\ s \in Session
             /\ rows'[s].state \in {"reconnecting", "connecting"}
             /\ rows'[s].generation = IF rows[s].state \in {"detached", "reconnecting"}
                                      THEN rows[s].generation + 1 ELSE rows[s].generation
             /\ rows'[s].revision = rows[s].revision + 1
    <3>1. rows[s].state \in Startable
      BY <2>2 DEF Reservable
    <3>2. rows[s].generation + 1 # rows[s].generation
      BY <1>1, <2>2
    <3> QED BY <1>1, <2>2, <3>1, <3>2 DEF RowStep, RowsKeep, Startable
  <2> QED BY <1>3, <2>1, <2>2, ReserveEffect
<1>4. CASE Completed(w)
  <2>1. /\ RowsKeep(s) /\ rows'[s].state = "connected" /\ s \in Session
        /\ rows'[s].revision = rows[s].revision + 1 /\ rows'[s].generation = rows[s].generation
        /\ rows[s].state \in InFlight
    BY <1>4, CompletedEffect DEF CompletionApplies
  <2> QED BY <1>1, <2>1 DEF RowStep, RowsKeep, InFlight
<1>5. CASE RecordEarlyExit(w)
  BY <1>5, RecordEarlyExitEffect, RecordExitRow
<1>6. CASE RecordFailure(w)
  <2>1. CASE rows' = rows
    BY <2>1 DEF RowStep
  <2>2. ASSUME NEW outcome \in {"reconnecting", "failed"}, CompletionApplies(w, outcome), RowsKeep(s),
               rows'[s].state = outcome, rows'[s].revision = rows[s].revision + 1,
               rows'[s].generation = rows[s].generation
        PROVE  RowStep(x)
    <3>1. rows[s].state \in InFlight
      BY <2>2 DEF CompletionApplies
    <3>2. s \in Session
      BY <1>6, RecordFailureEffect
    <3> QED BY <1>1, <2>2, <3>1, <3>2 DEF RowStep, RowsKeep, InFlight
  <2> QED BY <1>6, <2>1, <2>2, RecordFailureEffect
<1>7. CASE Returned(w)
  <2>1. CASE rows' = rows
    BY <2>1 DEF RowStep
  <2>2. CASE /\ rows[s].state = "reconnecting" /\ RowsKeep(s)
             /\ rows'[s].state = "failed" /\ rows'[s].revision = rows[s].revision + 1
             /\ rows'[s].generation = rows[s].generation
    <3>1. s \in Session
      BY <1>7, ReturnedEffect
    <3> QED BY <1>1, <2>2, <3>1 DEF RowStep, RowsKeep
  <2> QED BY <1>7, <2>1, <2>2, ReturnedEffect
<1> QED
  BY <1>2, <1>3, <1>4, <1>5, <1>6, <1>7 DEF Activates, Prepared, PreparationFails, Spawn, SpawnFails,
     LaunchReturns, CompletionFails, MarkHostKeyChanged, durable

LEMMA RowSteps ==
    ASSUME TypeInv, [Next]_vars, NEW x \in Session
    PROVE  RowStep(x)
<1>1. \A y \in Session : rows[y].generation \in Nat /\ rows[y].revision \in Nat
  BY SessionParts DEF TypeInv
<1>2. CASE UNCHANGED rows
  BY <1>2 DEF RowStep
<1>3. ASSUME NEW w \in Worker, Activates(w) PROVE RowStep(x)
  BY <1>3, ActivatesRow
<1>4. ASSUME NEW s \in Session, Requests(s) PROVE RowStep(x)
  <2>1. CASE Prepare(s)
    <3>1. target' = target
      BY <2>1 DEF Prepare
    <3> QED BY <2>1, <3>1, PrepareEffect DEF RowStep, RowsKeep
  <2>2. CASE Detach(s) \/ Close(s)
    <3>1. rows[s].state = "closed" => Close(s)
      BY <2>2 DEF Detach
    <3>2. ~(rows[s].state = "closed" /\ Close(s))
      BY DEF Close
    <3>3. /\ rows[s].state # "absent" /\ rows'[s].state \in {"detached", "closed"} /\ RowsKeep(s)
          /\ rows'[s].revision = rows[s].revision + 1
          /\ rows'[s].generation = rows[s].generation
      BY <2>2, ReleaseEffect
    <3> QED BY <1>1, <3>1, <3>2, <3>3 DEF RowStep, RowsKeep
  <2>3. CASE Transfer(s)
    BY <1>1, <2>3, TransferEffect DEF RowStep, RowsKeep
  <2>4. CASE DecideHostKey(s) \/ ReplayRelease(s)
    BY <1>2, <2>4 DEF DecideHostKey, ReplayRelease, durable
  <2> QED BY <1>4, <2>1, <2>2, <2>3, <2>4 DEF Requests
<1>5. ASSUME NEW e \in exits, ExitReported(e) PROVE RowStep(x)
  <2>1. e.session \in Session /\ e.generation \in Nat /\ e.attempt \in 0 .. MaxAttempts
    BY ExitParts DEF TypeInv
  <2>2. UNCHANGED rows \/ RecordExit(e.session, e.generation, e.attempt)
    BY <1>5, ExitReportedEffect
  <2> QED BY <1>2, <2>1, <2>2, RecordExitRow
<1>6. CASE UpkeepStarts
  <2>1. CASE UNCHANGED rows
    BY <1>2, <2>1
  <2>2. CASE \A s \in Session : IF Kept(s) THEN /\ rows'[s].state = "closed"
                                                /\ rows'[s].revision = rows[s].revision + 1
                                           ELSE rows'[s] = rows[s]
    <3>1. rows'[x].generation = rows[x].generation
      BY <1>6, UpkeepStartsEffect
    <3> QED BY <1>1, <2>2, <3>1 DEF RowStep, Kept, Present
  <2> QED BY <1>6, <2>1, <2>2, UpkeepStartsEffect DEF durable
<1>7. CASE FinishDeletion
  BY <1>7, FinishDeletionEffect DEF RowStep
<1>8. CASE CommitReplacement
  <2>1. IF Present(x)
        THEN /\ rows'[x].state = IF rows[x].state = "closed" THEN "closed" ELSE "failed"
             /\ rows'[x].generation = rows[x].generation + 1
             /\ rows'[x].revision = rows[x].revision + 1
        ELSE rows'[x] = rows[x]
    BY <1>8, CommitReplacementEffect
  <2> QED BY <1>1, <2>1 DEF RowStep, Present
<1>9. CASE Restart
  <2>1. IF rows[x].state \in InFlight \cup {"connected"}
        THEN /\ rows'[x].state = "detached"
             /\ rows'[x].generation = rows[x].generation + 1
             /\ rows'[x].revision = rows[x].revision + 1
        ELSE rows'[x] = rows[x]
    BY <1>9, RestartEffect
  <2> QED BY <1>1, <2>1 DEF RowStep, InFlight
<1>10. ASSUME NEW w \in Worker, NEW s \in Session, Activate(w, s) \/ TimerFires(w, s) PROVE RowStep(x)
  BY <1>2, <1>10 DEF Activate, TimerFires, durable
<1>11. ASSUME NEW t \in transports, TransportExits(t) PROVE RowStep(x)
  BY <1>2, <1>11 DEF TransportExits, durable
<1>12. ASSUME NEW t \in upkeep.todo, RevokesNext(t) PROVE RowStep(x)
  BY <1>2, <1>12 DEF RevokesNext, durable
<1>13. CASE \/ StopEnds \/ BeginReplacement \/ AbortReplacement
            \/ \E kind \in {"delete", "replace"} : RequestUpkeep(kind)
            \/ UpkeepFails \/ Dispose \/ RuntimeDispose \/ UNCHANGED vars
  BY <1>2, <1>13 DEF StopEnds, BeginReplacement, AbortReplacement, RequestUpkeep, UpkeepFails,
     Dispose, RuntimeDispose, durable, vars
<1> QED BY <1>3, <1>4, <1>5, <1>6, <1>7, <1>8, <1>9, <1>10, <1>11, <1>12, <1>13 DEF Next, UpkeepStep

-----------------------------------------------------------------------------
(* The target that is deleted, and what belongs to a session that is new.    *)

\* No session outlives its target; while the target is being deleted nothing is
\* replaced and every session is closed.
TargetInv ==
    /\ target.hostKey = "deleted" => \A s \in Session : rows[s].state = "absent"
    /\ target.deleting => target.enrolling = 0 /\ \A s \in Session : ~Kept(s)
    /\ upkeep.step = "revoking" /\ upkeep.kind = "replace" => target.enrolling # 0
    /\ upkeep.step = "revoking" /\ upkeep.kind = "delete" => target.deleting

\* The steps that change the target or the upkeep.
LEMMA TargetCases ==
    ASSUME [Next]_vars
    PROVE  \/ UNCHANGED <<target, upkeep>>
           \/ \E s \in Session : DecideHostKey(s)
           \/ \E w \in Worker : MarkHostKeyChanged(w)
           \/ BeginReplacement \/ AbortReplacement
           \/ \E kind \in {"delete", "replace"} : RequestUpkeep(kind)
           \/ UpkeepStarts \/ UpkeepFails \/ FinishDeletion \/ CommitReplacement \/ Restart
           \/ upkeep.step = "revoking" /\ \E t \in upkeep.todo : RevokesNext(t)
<1>1. ASSUME NEW w \in Worker, Activates(w), ~MarkHostKeyChanged(w) PROVE UNCHANGED <<target, upkeep>>
  BY <1>1 DEF Activates, Reserve, Prepared, PreparationFails, Spawn, SpawnFails, LaunchReturns,
         Completed, CompletionFails, RecordEarlyExit, RecordFailure, Returned, durable
<1>2. ASSUME NEW w \in Worker, NEW s \in Session, Activate(w, s) \/ TimerFires(w, s)
      PROVE  UNCHANGED <<target, upkeep>>
  BY <1>2 DEF Activate, TimerFires, durable
<1>3. ASSUME NEW s \in Session, Requests(s), ~DecideHostKey(s) PROVE UNCHANGED <<target, upkeep>>
  BY <1>3 DEF Requests, Prepare, Detach, Close, Release, ReplayRelease, Transfer, durable
<1>4. ASSUME NEW t \in transports, TransportExits(t) PROVE UNCHANGED <<target, upkeep>>
  BY <1>4 DEF TransportExits, durable
<1>5. ASSUME NEW e \in exits, ExitReported(e) PROVE UNCHANGED <<target, upkeep>>
  BY <1>5 DEF ExitReported
<1>6. CASE StopEnds \/ Dispose \/ RuntimeDispose \/ UNCHANGED vars
  BY <1>6 DEF StopEnds, Dispose, RuntimeDispose, durable, vars
<1> QED BY <1>1, <1>2, <1>3, <1>4, <1>5, <1>6 DEF Next, UpkeepStep

LEMMA TargetKept ==
    ASSUME TypeInv, TargetInv, [Next]_vars
    PROVE  TargetInv'
<1>1. /\ target.hostKey = "deleted" => \A s \in Session : rows'[s].state = "absent"
      /\ target.deleting => \A s \in Session : ~Kept(s)'
  BY RowSteps DEF TargetInv, RowStep, Kept, Present
<1>2. CASE /\ target'.hostKey = "deleted" => target.hostKey = "deleted"
           /\ target'.deleting => target.deleting /\ target'.enrolling = 0
           /\ upkeep'.step = "revoking" /\ upkeep'.kind = "replace" => target'.enrolling # 0
           /\ upkeep'.step = "revoking" /\ upkeep'.kind = "delete" => target'.deleting
  BY <1>1, <1>2 DEF TargetInv, Kept, Present
<1>3. CASE UNCHANGED <<target, upkeep>>
  BY <1>2, <1>3 DEF TargetInv
<1>4. ASSUME NEW s \in Session, DecideHostKey(s) PROVE TargetInv'
  BY <1>2, <1>4, DecideHostKeyEffect DEF TargetInv, DecideHostKey
<1>5. ASSUME NEW w \in Worker, MarkHostKeyChanged(w) PROVE TargetInv'
  BY <1>2, <1>5, MarkHostKeyChangedEffect DEF TargetInv, MarkHostKeyChanged
<1>6. CASE BeginReplacement \/ AbortReplacement
  <2>1. lock = <<>> /\ target'.hostKey = target.hostKey /\ target'.deleting = target.deleting
        /\ (target'.enrolling # 0 => ~target.deleting) /\ upkeep' = upkeep
    BY <1>6, EnrollingEffect
  <2>2. upkeep.step # "revoking"
    BY <2>1, Exclusion
  <2> QED BY <1>2, <2>1, <2>2
<1>7. ASSUME NEW kind \in {"delete", "replace"}, RequestUpkeep(kind) PROVE TargetInv'
  <2>1. target' = target /\ upkeep'.step = "waiting"
    BY <1>7, RequestUpkeepEffect DEF durable
  <2> QED BY <1>2, <2>1 DEF TargetInv
<1>8. CASE UpkeepStarts
  <2>1. target'.hostKey = target.hostKey /\ target'.enrolling = target.enrolling
    BY <1>8, UpkeepStartsEffect
  <2>2. CASE upkeep' = Idle /\ target' = target
    BY <1>2, <2>2 DEF TargetInv, Idle
  <2>3. CASE /\ upkeep'.kind = upkeep.kind /\ (upkeep.kind # "delete" => target.enrolling # 0)
             /\ target' = target /\ (upkeep.kind = "delete" => target.deleting)
    BY <1>2, <2>3 DEF TargetInv
  <2>4. CASE /\ upkeep'.kind = upkeep.kind /\ upkeep.kind = "delete" /\ target.enrolling = 0
             /\ target.hostKey # "deleted" /\ target'.deleting
             /\ \A s \in Session : IF Kept(s) THEN rows'[s].state = "closed" ELSE rows'[s] = rows[s]
    BY <2>1, <2>4 DEF TargetInv, Kept, Present
  <2> QED BY <1>8, <2>2, <2>3, <2>4, UpkeepStartsEffect DEF durable
<1>9. ASSUME upkeep.step = "revoking", NEW t \in upkeep.todo, RevokesNext(t) PROVE TargetInv'
  <2>1. target' = target /\ upkeep'.kind = upkeep.kind
    BY <1>9, RevokesNextEffect DEF RevokesNext, durable
  <2> QED BY <1>2, <1>9, <2>1 DEF TargetInv
<1>10. CASE UpkeepFails
  BY <1>2, <1>10, UpkeepFailsEffect DEF UpkeepFails, durable, TargetInv, Idle
<1>11. CASE FinishDeletion
  <2>1. Idle.step = "idle"
    BY DEF Idle
  <2> QED BY <1>11, <2>1, FinishDeletionEffect DEF TargetInv
<1>12. CASE CommitReplacement
  <2>1. Idle.step = "idle"
    BY DEF Idle
  <2> QED BY <1>2, <1>12, <2>1, CommitReplacementEffect
<1>13. CASE Restart
  <2>1. Idle.step = "idle"
    BY DEF Idle
  <2> QED BY <1>2, <1>13, <2>1, RestartEffect DEF TargetInv
<1> QED BY <1>3, <1>4, <1>5, <1>6, <1>7, <1>8, <1>9, <1>10, <1>11, <1>12, <1>13, TargetCases

\* A session that has not been started: its row is new, or only prepared.
New(s)   == rows[s].state = "absent" /\ target.hostKey # "deleted"
Fresh(s) == New(s) \/ rows[s].state \in {"trustRequired", "credentialRequired"}

LEMMA FreshBefore ==
    ASSUME TypeInv, TargetInv, [Next]_vars, NEW s \in Session
    PROVE  /\ New(s)' => New(s) /\ rows'[s] = rows[s]
           /\ Fresh(s)' => Fresh(s)
           /\ ~Fresh(s) => /\ rows'[s].generation >= rows[s].generation
                           /\ rows'[s].revision >= rows[s].revision
<1>1. rows[s].generation \in Nat /\ rows[s].revision \in Nat /\ RowStep(s)
  BY SessionParts, RowSteps DEF TypeInv
<1>2. target.hostKey = "deleted" => target'.hostKey = "deleted"
  <2>1. SUFFICES ASSUME target.hostKey = "deleted", UNCHANGED target \/ target' # target
                 PROVE  target'.hostKey = "deleted"
    OBVIOUS
  <2>2. \A x \in Session : rows[x].state = "absent"
    BY <2>1 DEF TargetInv
  <2>3. ASSUME NEW x \in Session, DecideHostKey(x) PROVE FALSE
    BY <2>2, <2>3, DecideHostKeyEffect
  <2>4. ASSUME NEW w \in Worker, MarkHostKeyChanged(w) PROVE FALSE
    BY <2>1, <2>4 DEF MarkHostKeyChanged
  <2>5. CASE BeginReplacement \/ AbortReplacement
    BY <2>1, <2>5, EnrollingEffect
  <2>6. CASE UpkeepStarts
    BY <2>1, <2>6, UpkeepStartsEffect
  <2>7. CASE FinishDeletion
    BY <2>7, FinishDeletionEffect
  <2>8. CASE CommitReplacement
    BY <2>1, <2>8, CommitReplacementEffect
  <2>9. CASE Restart
    BY <2>1, <2>9, RestartEffect
  <2>10. CASE UNCHANGED target
    BY <2>1, <2>10
  <2>11. ASSUME NEW kind \in {"delete", "replace"}, RequestUpkeep(kind) PROVE UNCHANGED target
    BY <2>11 DEF RequestUpkeep, durable
  <2>12. ASSUME NEW t \in upkeep.todo, RevokesNext(t) PROVE UNCHANGED target
    BY <2>12 DEF RevokesNext, durable
  <2>13. CASE UpkeepFails
    BY <2>10, <2>13 DEF UpkeepFails, durable
  <2> QED BY <2>3, <2>4, <2>5, <2>6, <2>7, <2>8, <2>9, <2>10, <2>11, <2>12, <2>13, TargetCases
<1>3. New(s)' => New(s) /\ rows'[s] = rows[s]
  BY <1>1, <1>2 DEF New, RowStep
<1>4. Fresh(s)' => Fresh(s)
  BY <1>1, <1>3 DEF Fresh, RowStep, New
<1>5. ASSUME ~Fresh(s)
      PROVE  rows'[s].generation >= rows[s].generation /\ rows'[s].revision >= rows[s].revision
  <2>1. rows[s].state = "absent" => target.hostKey = "deleted"
    BY <1>5 DEF Fresh, New
  <2>2. \/ rows'[s] = rows[s]
        \/ /\ rows'[s].revision > rows[s].revision
           /\ rows'[s].generation \in {rows[s].generation, rows[s].generation + 1}
        \/ /\ rows'[s].generation = rows[s].generation
           /\ rows'[s].revision = rows[s].revision
    BY <1>1, <2>1 DEF RowStep
  <2>3. rows'[s].revision \in Nat
    BY TypesKept DEF TypeInv, TypeOK, Row
  <2> QED BY <1>1, <2>2, <2>3
<1> QED BY <1>3, <1>4, <1>5

-----------------------------------------------------------------------------
(* How an activation and a timer may change.                                 *)

\* The activation has gone from the reserved row's step to another, or returned.
MovesOn(w) ==
    /\ Kin(work'[w], work[w]) /\ work[w].step \in Reserved /\ work'[w].step \in Reserved
    /\ work'[w].revision = work[w].revision /\ work'[w].generation = work[w].generation
    /\ work'[w].state = work[w].state
HasReserved(w) ==
    LET row == rows'[work[w].session] IN
    /\ Kin(work'[w], work[w]) /\ work[w].step = "waiting" /\ Reservable(w) /\ Reserve(w)
    /\ work'[w].step = "preparing" /\ work'[w].revision = row.revision
    /\ work'[w].generation = row.generation /\ work'[w].state = row.state
HasReturned(w) ==
    /\ Kin(work'[w], work[w]) /\ work[w].step \in Reserved \cup {"waiting"}
    /\ work'[w].step = "returned" /\ work[w].attempt > 0 /\ work'[w].revision = 0
HasStarted(w) ==
    /\ work[w] = Idle
    /\ \E s \in Session :
         \/ rows[s].state \in Startable /\ Asked(work'[w], s, 0, 0, rows[s].revision)
         \/ /\ timers[s] # NoTimer /\ timers[s].armed /\ TimerIsCurrent(s)
            /\ timers'[s] # NoTimer /\ timers'[s].id = timers[s].id /\ ~timers'[s].armed
            /\ Asked(work'[w], s, timers[s].attempt, timers[s].id, timers[s].revision)
WorkerStep(w) ==
    \/ work'[w] = work[w] \/ work'[w] = Idle
    \/ MovesOn(w) \/ HasReserved(w) \/ HasReturned(w) \/ HasStarted(w)

LEMMA WorkerSteps ==
    ASSUME TypeInv, [Next]_vars, NEW x \in Worker
    PROVE  WorkerStep(x)
<1>1. ASSUME NEW w \in Worker, Activates(w) PROVE WorkerStep(x)
  <2>1. CASE work' = work
    BY <2>1 DEF WorkerStep
  <2>2. ASSUME NEW k \in Reserved, Stays(w, k), work[w].step \in Reserved PROVE WorkerStep(x)
    BY <2>2 DEF WorkerStep, Stays, OthersKeep, MovesOn
  <2>3. ASSUME NEW c, LeavesLock(w, c), work[w].step \in Reserved \cup {"waiting"}
        PROVE  WorkerStep(x)
    BY <2>3 DEF WorkerStep, LeavesLock, OthersKeep, HasReturned
  <2>4. CASE Reserve(w)
    <3>1. CASE LeavesLock(w, "failure")
      BY <2>3, <2>4, <3>1, ReserveEffect
    <3>2. CASE ~LeavesLock(w, "failure")
      <4>1. OthersKeep(w) /\ HasReserved(w)
        BY <2>4, <3>2, ReserveEffect DEF HasReserved
      <4> QED BY <4>1 DEF WorkerStep, OthersKeep
    <3> QED BY <3>1, <3>2
  <2>5. CASE Prepared(w)
    BY <2>2, <2>5, PreparedEffect DEF Reserved
  <2>6. CASE PreparationFails(w) \/ SpawnFails(w) \/ CompletionFails(w)
    BY <2>2, <2>6, FailsEffect DEF Reserved
  <2>7. CASE Spawn(w)
    BY <2>2, <2>7, SpawnEffect DEF Reserved
  <2>8. CASE LaunchReturns(w)
    BY <2>2, <2>8, LaunchReturnsEffect DEF Reserved
  <2>9. CASE Completed(w)
    BY <2>2, <2>3, <2>9, CompletedEffect DEF Reserved
  <2>10. CASE RecordEarlyExit(w)
    BY <2>3, <2>10, RecordEarlyExitEffect DEF Reserved
  <2>11. CASE MarkHostKeyChanged(w)
    BY <2>1, <2>11 DEF MarkHostKeyChanged
  <2>12. CASE RecordFailure(w)
    BY <2>3, <2>12, RecordFailureEffect DEF Reserved
  <2>13. CASE Returned(w)
    BY <2>13, ReturnedEffect DEF WorkerStep, OthersKeep
  <2> QED BY <1>1, <2>4, <2>5, <2>6, <2>7, <2>8, <2>9, <2>10, <2>11, <2>12, <2>13 DEF Activates
<1>2. ASSUME NEW w \in Worker, NEW s \in Session, Activate(w, s) PROVE WorkerStep(x)
  BY <1>2, ActivateEffect DEF WorkerStep, OthersKeep, HasStarted
<1>3. ASSUME NEW w \in Worker, NEW s \in Session, TimerFires(w, s) PROVE WorkerStep(x)
  BY <1>3, TimerFiresEffect DEF WorkerStep, OthersKeep, HasStarted
<1>4. ASSUME NEW e \in exits, ExitReported(e) PROVE WorkerStep(x)
  BY <1>4, ExitReportedEffect DEF WorkerStep, MovesOn, Reserved
<1>5. CASE Restart
  BY <1>5, RestartEffect DEF WorkerStep
<1>6. CASE work' = work
  BY <1>6 DEF WorkerStep
<1>7. ASSUME NEW s \in Session, Requests(s) PROVE work' = work
  BY <1>7 DEF Requests, Prepare, DecideHostKey, Detach, Close, Release, ReplayRelease, Transfer
<1>8. ASSUME NEW t \in transports, TransportExits(t) PROVE work' = work
  BY <1>8 DEF TransportExits
<1>9. CASE \/ StopEnds \/ BeginReplacement \/ AbortReplacement
           \/ \E kind \in {"delete", "replace"} : RequestUpkeep(kind)
           \/ UpkeepStep \/ UpkeepFails \/ Dispose \/ RuntimeDispose \/ UNCHANGED vars
  BY <1>6, <1>9 DEF StopEnds, BeginReplacement, AbortReplacement, RequestUpkeep, UpkeepStep,
     UpkeepStarts, FinishDeletion, CommitReplacement, RevokesNext, UpkeepFails, Dispose,
     RuntimeDispose, vars
<1> QED BY <1>1, <1>2, <1>3, <1>4, <1>5, <1>6, <1>7, <1>8, <1>9 DEF Next

\* A timer stays, goes, is due, or is set: for the exit of a connection, or by the
\* attempt it started when that failed.
IsDue(s) ==
    /\ timers[s] # NoTimer /\ timers[s].armed /\ TimerIsCurrent(s) /\ rows' = rows /\ spent' = spent
    /\ timers'[s] # NoTimer /\ timers'[s].id = timers[s].id
    /\ timers'[s].generation = timers[s].generation /\ timers'[s].revision = timers[s].revision
    /\ timers'[s].attempt = timers[s].attempt /\ ~timers'[s].armed
IsSetByExit(s) ==
    /\ rows[s].state = "connected" /\ rows'[s].state = "reconnecting"
    /\ timers'[s] # NoTimer /\ timers'[s].id = FreshId(s)
    /\ timers'[s].generation = rows'[s].generation /\ timers'[s].revision = rows'[s].revision
IsSetAgain(s) ==
    \E w \in Worker :
      /\ work[w].step = "returned" /\ work[w].session = s /\ work'[w] = Idle
      /\ timers[s] # NoTimer /\ timers[s].id = work[w].timer
      /\ rows[s].state = "reconnecting" /\ rows' = rows /\ spent' = spent
      /\ timers'[s] # NoTimer /\ timers'[s].id = timers[s].id
      /\ timers'[s].generation = rows[s].generation /\ timers'[s].revision = rows[s].revision
      /\ timers'[s].attempt = work[w].attempt + 1
TimerStep(s) ==
    \/ timers'[s] = timers[s] \/ timers'[s] = NoTimer
    \/ IsDue(s) \/ IsSetByExit(s) \/ IsSetAgain(s)

LEMMA TimerSteps ==
    ASSUME TypeInv, [Next]_vars, NEW x \in Session
    PROVE  TimerStep(x)
<1>1. CASE timers' = timers
  BY <1>1 DEF TimerStep
<1>2. ASSUME NEW s \in Session, NEW g \in Nat, NEW attempt \in 0 .. MaxAttempts,
             RecordExit(s, g, attempt)
      PROVE  TimerStep(x)
  <2>1. CASE x # s
    BY <1>1, <1>2, <2>1, RecordExitFacts DEF TypeInv, TimerStep
  <2>2. CASE x = s
    BY <1>1, <1>2, <2>2, RecordExitFacts DEF TypeInv, TimerStep, IsSetByExit
  <2> QED BY <2>1, <2>2
<1>3. ASSUME NEW w \in Worker, NEW s \in Session, TimerFires(w, s) PROVE TimerStep(x)
  <2>1. rows' = rows /\ spent' = spent
    BY <1>3 DEF TimerFires, durable, history
  <2> QED BY <1>3, <2>1, TimerFiresEffect DEF TimerStep, TimersKeep, IsDue
<1>4. ASSUME NEW w \in Worker, Reserve(w) PROVE TimerStep(x)
  BY <1>1, <1>4, ReserveEffect DEF TimerStep, TimersKeep
<1>5. ASSUME NEW w \in Worker, RecordEarlyExit(w) PROVE TimerStep(x)
  BY <1>2, <1>5, RecordEarlyExitEffect
<1>6. ASSUME NEW w \in Worker, Returned(w) PROVE TimerStep(x)
  <2> DEFINE s == work[w].session
  <2>1. spent' = spent /\ s \in Session /\ work[w].step = "returned" /\ work'[w] = Idle
        /\ TimersKeep(s)
    BY <1>6, ReturnedEffect DEF Returned, history
  <2>2. CASE timers'[s] \in {timers[s], NoTimer}
    BY <2>1, <2>2 DEF TimerStep, TimersKeep
  <2>3. CASE timers'[s] \notin {timers[s], NoTimer}
    <3>1. IsSetAgain(s)
      BY <1>6, <2>1, <2>3, ReturnedEffect DEF IsSetAgain
    <3> QED BY <2>1, <3>1 DEF TimerStep, TimersKeep
  <2> QED BY <2>2, <2>3
<1>7. ASSUME NEW e \in exits, ExitReported(e) PROVE TimerStep(x)
  <2>1. e.session \in Session /\ e.generation \in Nat /\ e.attempt \in 0 .. MaxAttempts
    BY ExitParts DEF TypeInv
  <2>2. UNCHANGED timers \/ RecordExit(e.session, e.generation, e.attempt)
    BY <1>7, ExitReportedEffect
  <2> QED BY <1>1, <1>2, <2>1, <2>2
<1>8. ASSUME NEW s \in Session, Detach(s) \/ Close(s) \/ ReplayRelease(s) PROVE TimerStep(x)
  BY <1>8, ReleaseEffect, ReplayReleaseEffect DEF TimerStep, TimersKeep
<1>9. ASSUME upkeep.step = "revoking", NEW t \in upkeep.todo, RevokesNext(t) PROVE TimerStep(x)
  BY <1>9, RevokesNextEffect DEF TimerStep, TimersKeep
<1>10. CASE Dispose \/ Restart
  BY <1>10, DisposeEffect, RestartEffect DEF TimerStep
<1>11. ASSUME NEW w \in Worker,
              \/ Prepared(w) \/ PreparationFails(w) \/ Spawn(w) \/ SpawnFails(w) \/ LaunchReturns(w)
              \/ Completed(w) \/ CompletionFails(w) \/ MarkHostKeyChanged(w) \/ RecordFailure(w)
              \/ \E s \in Session : Activate(w, s)
       PROVE  timers' = timers
  BY <1>11 DEF Prepared, PreparationFails, Spawn, SpawnFails, LaunchReturns, Completed,
     CompletionFails, MarkHostKeyChanged, RecordFailure, Activate
<1>12. CASE \/ \E s \in Session : Prepare(s) \/ DecideHostKey(s) \/ Transfer(s)
            \/ \E t \in transports : TransportExits(t)
            \/ StopEnds \/ BeginReplacement \/ AbortReplacement
            \/ \E kind \in {"delete", "replace"} : RequestUpkeep(kind)
            \/ UpkeepStarts \/ FinishDeletion \/ CommitReplacement \/ UpkeepFails
            \/ RuntimeDispose \/ UNCHANGED vars
  BY <1>1, <1>12 DEF Prepare, DecideHostKey, Transfer, TransportExits, StopEnds, BeginReplacement,
     AbortReplacement, RequestUpkeep, UpkeepStarts, FinishDeletion, CommitReplacement, UpkeepFails,
     RuntimeDispose, vars
<1> QED BY <1>1, <1>3, <1>4, <1>5, <1>6, <1>7, <1>8, <1>9, <1>10, <1>11, <1>12
        DEF Next, Activates, Requests, UpkeepStep

-----------------------------------------------------------------------------
(* No generation of a session is used before its row has it.                 *)

ExitOf(s, g) == \E e \in exits : e.session = s /\ e.generation = g
HandOf(s, g) == \E w \in Worker : /\ work[w].step \in Reserved /\ work[w].session = s
                                  /\ work[w].generation = g
Seen(s, g) ==
    \/ Owns(s, g) \/ <<s, g>> \in transports \cup stopping \/ ExitOf(s, g) \/ HandOf(s, g)
    \/ released[s] = g

\* A generation that is seen was the row's; a session that is fresh has nothing.
SeenInv ==
    \A s \in Session, g \in Generation : Seen(s, g) => ~Fresh(s) /\ g <= rows[s].generation
FreshInv ==
    \A s \in Session : Fresh(s) =>
        /\ timers[s] = NoTimer
        /\ \A w \in Worker : Of(w, s) => /\ work[w].step = "waiting" /\ work[w].attempt = 0
                                         /\ ~New(s)

\* A reservation takes the generation it wrote.
ReservesNow(s, g) ==
    \E w \in Worker : /\ Reserve(w) /\ Reservable(w) /\ work[w].session = s
                      /\ rows'[s].generation = g /\ work[w].step = "waiting"
                      /\ rows'[s].state \in InFlight
                      /\ rows'[s].generation = IF rows[s].state \in {"detached", "reconnecting"}
                                               THEN rows[s].generation + 1 ELSE rows[s].generation

LEMMA HandBefore ==
    ASSUME TypeInv, [Next]_vars, NEW s \in Session, NEW g \in Generation, HandOf(s, g)'
    PROVE  HandOf(s, g) \/ ReservesNow(s, g)
<1>1. PICK w \in Worker : /\ work'[w].step \in Reserved /\ work'[w].session = s
                          /\ work'[w].generation = g
  BY DEF HandOf
<1>2. CASE MovesOn(w) \/ work'[w] = work[w]
  BY <1>1, <1>2 DEF HandOf, MovesOn, Kin
<1>3. CASE HasReserved(w)
  <2>1. work[w].session = s /\ rows'[s].generation = g /\ Reserve(w) /\ Reservable(w)
        /\ work[w].step = "waiting"
    BY <1>1, <1>3 DEF HasReserved, Kin
  <2>2. ~LeavesLock(w, "failure")
    BY <1>3 DEF LeavesLock, HasReserved, Idle
  <2>3. /\ rows'[s].state \in {"reconnecting", "connecting"}
        /\ rows'[s].generation = IF rows[s].state \in {"detached", "reconnecting"}
                                 THEN rows[s].generation + 1 ELSE rows[s].generation
    BY <2>1, <2>2, ReserveEffect
  <2> QED BY <2>1, <2>3 DEF ReservesNow, InFlight
<1>4. CASE HasReturned(w) \/ HasStarted(w) \/ work'[w] = Idle
  BY <1>1, <1>4 DEF HasReturned, HasStarted, Idle, Reserved, Asked
<1> QED BY <1>2, <1>3, <1>4, WorkerSteps DEF WorkerStep

LEMMA ExitBefore ==
    ASSUME TypeInv, [Next]_vars, NEW f \in exits'
    PROVE  \/ /\ f \in exits \/ \E w \in Worker : Completed(w)
              /\ \E e \in exits : /\ e.session = f.session /\ e.generation = f.generation
                                  /\ e.attempt = f.attempt
           \/ /\ <<f.session, f.generation>> \in transports /\ TransportExits(<<f.session, f.generation>>)
              /\ Owns(f.session, f.generation) /\ attempts[f.session].terminal
              /\ f.attempt = attempts[f.session].attempt
<1>1. CASE f \in exits
  BY <1>1
<1>2. ASSUME NEW w \in Worker, Completed(w)
      PROVE  \E e \in exits : /\ e.session = f.session /\ e.generation = f.generation
                              /\ e.attempt = f.attempt
  BY <1>2, CompletedEffect
<1>3. ASSUME NEW t \in transports, TransportExits(t), f \notin exits
      PROVE  /\ <<f.session, f.generation>> = t
             /\ Owns(f.session, f.generation) /\ attempts[f.session].terminal
             /\ f.attempt = attempts[f.session].attempt
  BY <1>3, TransportExitsEffect
<1>4. ASSUME NEW e \in exits, ExitReported(e) PROVE exits' \subseteq exits
  BY <1>4 DEF ExitReported
<1>5. ASSUME NEW w \in Worker, Activates(w), ~Completed(w) PROVE exits' = exits
  BY <1>5 DEF Activates, Reserve, Prepared, PreparationFails, Spawn, SpawnFails, LaunchReturns,
         MarkHostKeyChanged, CompletionFails, RecordEarlyExit, RecordFailure, Returned
<1>6. ASSUME NEW w \in Worker, NEW s \in Session, Activate(w, s) \/ TimerFires(w, s)
      PROVE  exits' = exits
  BY <1>6 DEF Activate, TimerFires
<1>7. ASSUME NEW s \in Session, Requests(s) PROVE exits' = exits
  BY <1>7 DEF Requests, Prepare, DecideHostKey, Detach, Close, Release, ReplayRelease, Transfer
<1>8. CASE \/ StopEnds \/ BeginReplacement \/ AbortReplacement
           \/ \E kind \in {"delete", "replace"} : RequestUpkeep(kind)
           \/ UpkeepStep \/ UpkeepFails \/ Dispose \/ RuntimeDispose \/ Restart \/ UNCHANGED vars
  BY <1>1, <1>8 DEF StopEnds, BeginReplacement, AbortReplacement, RequestUpkeep, UpkeepStep,
     UpkeepStarts, FinishDeletion, CommitReplacement, RevokesNext, UpkeepFails, Dispose,
     RuntimeDispose, Restart, vars
<1> QED BY <1>1, <1>2, <1>3, <1>4, <1>5, <1>6, <1>7, <1>8 DEF Next

\* What the runtime has of a generation it had before, or an attempt brings it.
LEMMA HeldBefore ==
    ASSUME TypeInv, [Next]_vars, NEW s \in Session, NEW g \in Generation,
           Owns(s, g)' \/ <<s, g>> \in transports' \cup stopping'
    PROVE  Owns(s, g) \/ <<s, g>> \in transports \cup stopping \/ HandOf(s, g)
<1> DEFINE Held == Owns(s, g) \/ <<s, g>> \in transports \cup stopping \/ HandOf(s, g)
<1>0. g # 0 /\ g \in Nat /\ NoAttempt.generation = 0
  BY DEF Generation, NoAttempt
<1>1. CASE Quiet
  BY <1>1, QuietKeeps DEF Owns
<1>2. ASSUME NEW x \in Session, NEW h \in Nat, h # 0, Terminate(x, h), UNCHANGED transports
      PROVE  Held
  <2>1. /\ \A y \in Session : attempts'[y] = IF y = x /\ Owns(x, h) THEN NoAttempt ELSE attempts[y]
        /\ \A t : t \in stopping' <=> t \in stopping \/ (t = <<x, h>> /\ Owns(x, h) /\ Live(x))
    BY <1>2, TerminateFacts DEF TypeInv
  <2> QED BY <1>0, <1>2, <2>1 DEF Owns
<1>3. ASSUME NEW w \in Worker, Prepared(w) PROVE Held
  <2> DEFINE x == work[w].session  h == work[w].generation
  <2>1. /\ \A y \in Session : y # x => attempts'[y] = attempts[y]
        /\ attempts'[x].generation = h /\ work[w].step = "preparing" /\ transports' = transports
        /\ \A t : t \in stopping' <=> t \in stopping \/ (t = <<x, attempts[x].generation>> /\ Live(x))
    BY <1>3, PreparedEffect DEF Prepared
  <2>2. HandOf(x, h)
    BY <2>1 DEF HandOf, Reserved
  <2> QED BY <2>1, <2>2 DEF Owns
<1>4. ASSUME NEW w \in Worker, PreparationFails(w) \/ SpawnFails(w) \/ CompletionFails(w) PROVE Held
  BY <1>2, <1>4, FailsEffect
<1>5. ASSUME NEW w \in Worker, Spawn(w) PROVE Held
  <2> DEFINE x == work[w].session  h == work[w].generation
  <2>1. /\ transports' = transports \cup {<<x, h>>} /\ UNCHANGED <<attempts, stopping>>
        /\ work[w].step = "replacing"
    BY <1>5, SpawnEffect DEF Spawn
  <2>2. HandOf(x, h)
    BY <2>1 DEF HandOf, Reserved
  <2> QED BY <2>1, <2>2 DEF Owns
<1>6. ASSUME NEW w \in Worker, LaunchReturns(w) PROVE Held
  <2> DEFINE x == work[w].session  h == work[w].generation
  <2>1. work[w].step = "spawned" /\ x \in Session /\ transports' = transports
    BY <1>6, LaunchReturnsEffect DEF LaunchReturns
  <2>2. HandOf(x, h)
    BY <2>1 DEF HandOf, Reserved
  <2>3. /\ \A y \in Session : y # x => attempts'[y] = attempts[y]
        /\ attempts'[x].generation \in {0, h, attempts[x].generation}
        /\ \A t : t \in stopping' => t \in stopping \/ t = <<x, h>>
    BY <1>0, <1>6, LaunchReturnsEffect
  <2> QED BY <1>0, <2>1, <2>2, <2>3 DEF Owns
<1>7. ASSUME NEW x \in Session, Detach(x) \/ Close(x) \/ ReplayRelease(x) PROVE Held
  <2>1. UNCHANGED transports
    BY <1>7 DEF Detach, Close, Release, ReplayRelease
  <2>2. rows[x].generation \in Nat /\ rows[x].generation # 0
    BY SessionParts DEF TypeInv
  <2> QED BY <1>2, <1>7, <2>1, <2>2, ReleaseEffect, ReplayReleaseEffect
<1>8. ASSUME NEW t \in transports, TransportExits(t) PROVE Held
  <2>1. /\ transports' = transports \ {t} /\ UNCHANGED stopping
        /\ \A y \in Session : attempts'[y] \in {NoAttempt, attempts[y]}
    BY <1>8, TransportExitsEffect DEF TransportExits
  <2> QED BY <1>0, <2>1 DEF Owns
<1>9. CASE StopEnds
  BY <1>9 DEF StopEnds, Owns
<1>10. ASSUME upkeep.step = "revoking", NEW t \in upkeep.todo, RevokesNext(t) PROVE Held
  <2>1. UNCHANGED transports
    BY <1>10 DEF RevokesNext
  <2> QED BY <1>2, <1>10, <2>1, RevokesNextEffect
<1>11. CASE RuntimeDispose
  <2>1. /\ \A y \in Session : attempts'[y] = NoAttempt
        /\ \A t : t \in stopping' <=>
             t \in stopping \/ \E y \in Session : Live(y) /\ t = <<y, attempts[y].generation>>
        /\ UNCHANGED transports
    BY <1>11, RuntimeDisposeEffect DEF RuntimeDispose
  <2> QED BY <1>0, <2>1 DEF Owns
<1>12. CASE Restart
  <2>1. \A y \in Session : attempts'[y] = NoAttempt
    BY <1>12, RestartEffect
  <2> QED BY <1>0, <1>12, <2>1 DEF Restart, Owns
<1> QED BY <1>1, <1>3, <1>4, <1>5, <1>6, <1>7, <1>8, <1>9, <1>10, <1>11, <1>12, StepCases

LEMMA ReleasedBefore ==
    ASSUME TypeInv, [Next]_vars, NEW s \in Session
    PROVE  \/ released'[s] = released[s]
           \/ /\ released'[s] = rows[s].generation /\ rows'[s].generation = rows[s].generation
              /\ rows'[s].state = "detached" /\ rows[s].state \in {"connected", "reconnecting"}
<1>1. CASE released' = released
  BY <1>1
<1>2. ASSUME NEW x \in Session, Detach(x) \/ Close(x)
      PROVE  \/ released'[s] = released[s]
             \/ /\ released'[s] = rows[s].generation /\ rows'[s].generation = rows[s].generation
                /\ rows'[s].state = "detached" /\ rows[s].state \in {"connected", "reconnecting"}
  BY <1>2, ReleaseEffect
<1>3. ASSUME NEW w \in Worker, Activates(w) PROVE released' = released
  BY <1>3 DEF Activates, Reserve, Prepared, PreparationFails, Spawn, SpawnFails, LaunchReturns,
         Completed, MarkHostKeyChanged, CompletionFails, RecordEarlyExit, RecordFailure, Returned,
         history
<1>4. ASSUME NEW w \in Worker, NEW x \in Session, Activate(w, x) \/ TimerFires(w, x)
      PROVE  released' = released
  BY <1>4 DEF Activate, TimerFires, history
<1>5. ASSUME NEW x \in Session, Prepare(x) \/ DecideHostKey(x) \/ ReplayRelease(x) \/ Transfer(x)
      PROVE  released' = released
  BY <1>5 DEF Prepare, DecideHostKey, ReplayRelease, Transfer, history
<1>6. ASSUME NEW t \in transports, TransportExits(t) PROVE released' = released
  BY <1>6 DEF TransportExits, history
<1>7. ASSUME NEW e \in exits, ExitReported(e) PROVE released' = released
  BY <1>7 DEF ExitReported
<1>8. CASE \/ StopEnds \/ BeginReplacement \/ AbortReplacement
           \/ \E kind \in {"delete", "replace"} : RequestUpkeep(kind)
           \/ UpkeepStep \/ UpkeepFails \/ Dispose \/ RuntimeDispose \/ Restart \/ UNCHANGED vars
  BY <1>1, <1>8 DEF StopEnds, BeginReplacement, AbortReplacement, RequestUpkeep, UpkeepStep,
     UpkeepStarts, FinishDeletion, CommitReplacement, RevokesNext, UpkeepFails, Dispose,
     RuntimeDispose, Restart, history, vars
<1> QED BY <1>1, <1>2, <1>3, <1>4, <1>5, <1>6, <1>7, <1>8 DEF Next, Requests

LEMMA SeenKept ==
    ASSUME TypeInv, TargetInv, SeenInv, [Next]_vars
    PROVE  SeenInv'
<1> SUFFICES ASSUME NEW s \in Session, NEW g \in Generation, Seen(s, g)'
             PROVE  ~Fresh(s)' /\ g <= rows'[s].generation
  BY DEF SeenInv
<1>1. /\ rows[s].generation \in Nat /\ rows'[s].generation \in Nat /\ g \in Nat
  BY TypesKept, SessionParts DEF TypeInv, TypeOK, Row, Generation
<1>2. CASE Seen(s, g)
  <2>1. ~Fresh(s) /\ g <= rows[s].generation
    BY <1>2 DEF SeenInv
  <2> QED BY <1>1, <2>1, FreshBefore
<1>3. CASE ReservesNow(s, g)
  BY <1>1, <1>3 DEF ReservesNow, Fresh, New, InFlight
<1>4. CASE g = rows'[s].generation /\ rows'[s].state = "detached"
  BY <1>1, <1>4 DEF Fresh, New
<1>5. Owns(s, g)' \/ <<s, g>> \in transports' \cup stopping' => Seen(s, g)
  BY HeldBefore DEF Seen
<1>6. ExitOf(s, g)' => Seen(s, g)
  <2>1. ASSUME NEW f \in exits', f.session = s, f.generation = g PROVE Seen(s, g)
    BY <2>1, ExitBefore DEF Seen, ExitOf
  <2> QED BY <2>1 DEF ExitOf
<1>7. HandOf(s, g)' => Seen(s, g) \/ ReservesNow(s, g)
  BY HandBefore DEF Seen
<1>8. released'[s] = g => Seen(s, g) \/ (g = rows'[s].generation /\ rows'[s].state = "detached")
  BY ReleasedBefore DEF Seen
<1>9. \/ Owns(s, g)' \/ <<s, g>> \in transports' \cup stopping' \/ ExitOf(s, g)' \/ HandOf(s, g)'
      \/ released'[s] = g
  BY DEF Seen
<1> QED BY <1>2, <1>3, <1>4, <1>5, <1>6, <1>7, <1>8, <1>9

LEMMA FreshKept ==
    ASSUME TypeInv, TargetInv, FreshInv, [Next]_vars
    PROVE  FreshInv'
<1> SUFFICES ASSUME NEW s \in Session, Fresh(s)'
             PROVE  /\ timers'[s] = NoTimer
                    /\ \A w \in Worker : Of(w, s)' => /\ work'[w].step = "waiting"
                                                      /\ work'[w].attempt = 0 /\ ~New(s)'
  BY DEF FreshInv
<1>1. /\ Fresh(s) /\ timers[s] = NoTimer
      /\ New(s)' => New(s)
      /\ \A w \in Worker : Of(w, s) => work[w].step = "waiting" /\ work[w].attempt = 0 /\ ~New(s)
  BY FreshBefore DEF FreshInv
<1>2. timers'[s] = NoTimer
  <2>1. rows[s].state # "connected"
    BY <1>1 DEF Fresh, New
  <2>2. ~IsDue(s) /\ ~IsSetByExit(s) /\ ~IsSetAgain(s)
    BY <1>1, <2>1 DEF IsDue, IsSetByExit, IsSetAgain
  <2> QED BY <1>1, <2>2, TimerSteps DEF TimerStep
<1>3. ASSUME NEW w \in Worker, Of(w, s)'
      PROVE  work'[w].step = "waiting" /\ work'[w].attempt = 0 /\ ~New(s)'
  <2>0. work'[w] # Idle /\ work'[w].session = s
    BY <1>3 DEF Of
  <2>1. CASE work'[w] = work[w]
    <3>1. Of(w, s)
      BY <2>0, <2>1 DEF Of
    <3>2. work[w].step = "waiting" /\ work[w].attempt = 0 /\ ~New(s)
      BY <1>1, <3>1
    <3> QED BY <1>1, <2>1, <3>2
  <2>2. CASE MovesOn(w) \/ HasReturned(w)
    <3>1. Of(w, s)
      BY <2>0, <2>2 DEF Of, MovesOn, HasReturned, Kin, Reserved, Idle
    <3>2. work[w].step = "waiting" /\ work[w].attempt = 0
      BY <1>1, <3>1
    <3> QED BY <2>2, <3>2 DEF MovesOn, HasReturned, Reserved
  <2>3. CASE HasReserved(w)
    <3>1. work[w].session = s /\ ~LeavesLock(w, "failure") /\ Reserve(w)
      BY <2>0, <2>3 DEF HasReserved, Kin, LeavesLock, Idle
    <3>2. rows'[s].state \in {"reconnecting", "connecting"}
      BY <3>1, ReserveEffect
    <3> QED BY <3>2 DEF Fresh, New
  <2>4. CASE HasStarted(w)
    <3>1. \E x \in Session : \/ rows[x].state \in Startable /\ Asked(work'[w], x, 0, 0, rows[x].revision)
                             \/ timers[x] # NoTimer /\ work'[w].session = x
      BY <2>4 DEF HasStarted, Asked
    <3>2. rows[s].state \in Startable /\ Asked(work'[w], s, 0, 0, rows[s].revision)
      BY <1>1, <2>0, <3>1 DEF Asked
    <3>3. ~New(s)
      BY <3>2 DEF New, Startable
    <3> QED BY <1>1, <3>2, <3>3 DEF Asked
  <2> QED BY <1>3, <2>1, <2>2, <2>3, <2>4, WorkerSteps DEF WorkerStep, Of
<1> QED BY <1>2, <1>3

\* A reserved generation has not been seen.
LEMMA ReservesNew ==
    ASSUME TypeInv, SeenInv, NEW s \in Session, NEW g \in Generation, ReservesNow(s, g)
    PROVE  ~Seen(s, g)
<1>1. PICK w \in Worker : /\ Reservable(w) /\ work[w].session = s /\ rows'[s].generation = g
                          /\ rows'[s].generation = IF rows[s].state \in {"detached", "reconnecting"}
                                                   THEN rows[s].generation + 1 ELSE rows[s].generation
  BY DEF ReservesNow
<1>2. rows[s].state \in Startable /\ rows[s].generation \in Nat
  BY <1>1, SessionParts DEF Reservable, TypeInv
<1>3. CASE rows[s].state \in {"detached", "reconnecting"}
  BY <1>1, <1>2, <1>3 DEF SeenInv
<1>4. CASE rows[s].state \in {"trustRequired", "credentialRequired"}
  BY <1>4 DEF SeenInv, Fresh
<1> QED BY <1>2, <1>3, <1>4 DEF Startable

-----------------------------------------------------------------------------
(* What a launch, an entry and an exit say of their transport.               *)

\* Until it is launched, nobody else has to do with the transport of an attempt.
LaunchInv == \A w \in Worker :
    work[w].step \in {"preparing", "replacing", "spawned"} =>
        LET s == work[w].session  g == work[w].generation IN
        /\ <<s, g>> \notin stopping /\ ~ExitOf(s, g)
        /\ Owns(s, g) => ~attempts[s].terminal
        /\ work[w].step # "spawned" => <<s, g>> \notin transports
\* A transport whose exit is on its way, or known to its attempt, is gone.
ExitInv == \A e \in exits :
    <<e.session, e.generation>> \notin transports /\ ~Owns(e.session, e.generation)
ExitedInv == \A w \in Worker :
    work[w].step \in {"completing", "exitedEarly"} /\ work[w].exited =>
        /\ <<work[w].session, work[w].generation>> \notin transports
        /\ ~Owns(work[w].session, work[w].generation)
\* An entry whose terminal is known has its transport.
EntryInv == \A s \in Session :
    Live(s) => <<s, attempts[s].generation>> \in transports \ stopping
ConnInv == LaunchInv /\ ExitInv /\ ExitedInv /\ EntryInv

LEMMA QuietWork ==
    ASSUME TypeInv, Quiet, NEW x \in Worker
    PROVE  \/ work'[x] = work[x] \/ work'[x].step \in {"idle", "waiting", "returned"}
           \/ HasReserved(x)
           \/ /\ Kin(work'[x], work[x]) /\ work'[x].generation = work[x].generation
              /\ work'[x].revision = work[x].revision
              /\ work[x].step = "completing" /\ work'[x].step \in {"completing", "exitedEarly"}
              /\ work'[x].exited
              /\ work[x].exited \/ ExitOf(work[x].session, work[x].generation)
<1> DEFINE Goal == \/ work'[x] = work[x] \/ work'[x].step \in {"idle", "waiting", "returned"}
                   \/ HasReserved(x)
                   \/ /\ Kin(work'[x], work[x]) /\ work'[x].generation = work[x].generation
                      /\ work'[x].revision = work[x].revision
                      /\ work[x].step = "completing" /\ work'[x].step \in {"completing", "exitedEarly"}
                      /\ work'[x].exited
                      /\ work[x].exited \/ ExitOf(work[x].session, work[x].generation)
<1>0. Idle.step = "idle"
  BY DEF Idle
<1>1. CASE work' = work
  BY <1>1
<1>2. ASSUME NEW w \in Worker, NEW c, LeavesLock(w, c) PROVE Goal
  BY <1>0, <1>2 DEF LeavesLock, OthersKeep
<1>3. ASSUME NEW w \in Worker, Reserve(w) PROVE Goal
  <2>1. CASE LeavesLock(w, "failure")
    BY <1>2, <2>1
  <2>2. CASE ~LeavesLock(w, "failure")
    <3>1. OthersKeep(w) /\ HasReserved(w)
      BY <1>3, <2>2, ReserveEffect DEF HasReserved
    <3> QED BY <3>1 DEF OthersKeep
  <2> QED BY <2>1, <2>2
<1>4. ASSUME NEW w \in Worker, Completed(w) PROVE Goal
  <2>1. CASE LeavesLock(w, "none")
    BY <1>2, <2>1
  <2>2. CASE ~LeavesLock(w, "none")
    <3>1. work[w].exited /\ Stays(w, "exitedEarly") /\ work[w].step = "completing"
      BY <1>4, <2>2, CompletedEffect
    <3> QED BY <3>1 DEF Stays, OthersKeep
  <2> QED BY <2>1, <2>2
<1>5. ASSUME NEW w \in Worker, RecordEarlyExit(w) \/ RecordFailure(w) PROVE Goal
  BY <1>2, <1>5, RecordEarlyExitEffect, RecordFailureEffect
<1>6. ASSUME NEW w \in Worker, Returned(w) PROVE Goal
  BY <1>0, <1>6, ReturnedEffect DEF OthersKeep
<1>7. ASSUME NEW w \in Worker, NEW s \in Session, Activate(w, s) \/ TimerFires(w, s) PROVE Goal
  BY <1>1, <1>7, ActivateEffect, TimerFiresEffect DEF OthersKeep, Asked
<1>8. ASSUME NEW e \in exits, ExitReported(e) PROVE Goal
  BY <1>1, <1>8, ExitReportedEffect DEF ExitOf
<1>9. CASE \/ \E s \in Session : Prepare(s) \/ DecideHostKey(s) \/ Transfer(s)
           \/ \E w \in Worker : MarkHostKeyChanged(w)
           \/ BeginReplacement \/ AbortReplacement
           \/ \E kind \in {"delete", "replace"} : RequestUpkeep(kind)
           \/ UpkeepStarts \/ UpkeepFails \/ FinishDeletion \/ CommitReplacement \/ Dispose
           \/ UNCHANGED vars
  BY <1>1, <1>9 DEF Prepare, DecideHostKey, Transfer, MarkHostKeyChanged, BeginReplacement,
     AbortReplacement, RequestUpkeep, UpkeepStarts, UpkeepFails, FinishDeletion, CommitReplacement,
     Dispose, vars
<1> QED BY <1>3, <1>4, <1>5, <1>6, <1>7, <1>8, <1>9 DEF Quiet

\* A launch comes from one that was under way, or from a reservation.
LEMMA TerminateConn ==
    ASSUME TypeInv, ConnInv, NEW x \in Session, NEW h \in Nat, h # 0, Terminate(x, h),
           UNCHANGED <<transports, exits>>,
           \A w \in Worker : work'[w] = work[w] \/ work'[w].step = "failing"
    PROVE  ConnInv'
<1>1. /\ \A y \in Session : attempts'[y] = IF y = x /\ Owns(x, h) THEN NoAttempt ELSE attempts[y]
      /\ \A t : t \in stopping' <=> t \in stopping \/ (t = <<x, h>> /\ Owns(x, h) /\ Live(x))
  BY TerminateFacts DEF TypeInv
<1>2. NoAttempt.generation = 0
  BY DEF NoAttempt
<1>3. \A y \in Session, k \in Nat : k # 0 /\ Owns(y, k)' => Owns(y, k) /\ attempts'[y] = attempts[y]
  BY <1>1, <1>2 DEF Owns
<1>4. LaunchInv'
  <2> SUFFICES ASSUME NEW w \in Worker, work'[w].step \in {"preparing", "replacing", "spawned"}
               PROVE  (LET s == work[w].session  g == work[w].generation IN
                       /\ <<s, g>> \notin stopping /\ ~ExitOf(s, g)
                       /\ Owns(s, g) => ~attempts[s].terminal
                       /\ work[w].step # "spawned" => <<s, g>> \notin transports)'
    BY DEF LaunchInv
  <2> DEFINE s == work[w].session  g == work[w].generation
  <2>1. work'[w] = work[w] /\ s \in Session /\ g \in Nat /\ g # 0
    BY ReservedParts DEF Reserved
  <2>2. /\ <<s, g>> \notin stopping /\ ~ExitOf(s, g)
        /\ Owns(s, g) => ~attempts[s].terminal
        /\ work[w].step # "spawned" => <<s, g>> \notin transports
    BY <2>1 DEF ConnInv, LaunchInv
  <2>3. <<s, g>> \notin stopping'
    BY <1>1, <2>2 DEF Live, Owns
  <2> QED BY <1>3, <2>1, <2>2, <2>3 DEF ExitOf
<1>5. ExitInv'
  <2>1. ASSUME NEW e \in exits
        PROVE  <<e.session, e.generation>> \notin transports /\ ~Owns(e.session, e.generation)'
    BY <1>3, ExitParts DEF ConnInv, ExitInv, TypeInv
  <2> QED BY <2>1 DEF ExitInv, Owns
<1>6. ExitedInv'
  <2> SUFFICES ASSUME NEW w \in Worker, work'[w].step \in {"completing", "exitedEarly"}, work'[w].exited
               PROVE  /\ <<work'[w].session, work'[w].generation>> \notin transports'
                      /\ ~Owns(work[w].session, work[w].generation)'
    BY DEF ExitedInv, Owns
  <2>1. work'[w] = work[w] /\ work[w].session \in Session /\ work[w].generation \in Nat
        /\ work[w].generation # 0
    BY ReservedParts DEF Reserved
  <2> QED BY <1>3, <2>1 DEF ConnInv, ExitedInv
<1>7. EntryInv'
  <2> SUFFICES ASSUME NEW s \in Session, Live(s)'
               PROVE  <<s, attempts'[s].generation>> \in transports' \ stopping'
    BY DEF EntryInv
  <2>1. attempts'[s] = attempts[s] /\ Live(s) /\ ~(s = x /\ Owns(x, h))
    BY <1>1 DEF Live
  <2> QED BY <1>1, <2>1 DEF ConnInv, EntryInv
<1> QED BY <1>4, <1>5, <1>6, <1>7 DEF ConnInv

\* While one attempt is under way there is no other.
LEMMA AloneConn ==
    ASSUME TypeInv, NEW w \in Worker, work[w].step \in Reserved, OthersKeep(w),
           NEW v \in Worker, work'[v].step \in Reserved
    PROVE  v = w
  BY Exclusion DEF OthersKeep

LEMMA QuietConn ==
    ASSUME TypeInv, SeenInv, ConnInv, Quiet, [Next]_vars
    PROVE  ConnInv'
<1>1. UNCHANGED <<transports, stopping, attempts>>
  BY QuietKeeps
<1>2. \A f \in exits' : ExitOf(f.session, f.generation)
  <2> SUFFICES ASSUME NEW f \in exits' PROVE ExitOf(f.session, f.generation)
    OBVIOUS
  <2>1. CASE <<f.session, f.generation>> \in transports /\ TransportExits(<<f.session, f.generation>>)
    BY <1>1, <2>1, TransportExitsEffect
  <2> QED BY <2>1, ExitBefore DEF ExitOf
<1>3. \A s, g : ExitOf(s, g)' => ExitOf(s, g)
  BY <1>2 DEF ExitOf
<1>4. \A s, g : ExitOf(s, g) => <<s, g>> \notin transports /\ ~Owns(s, g)
  BY DEF ConnInv, ExitInv, ExitOf
<1>5. LaunchInv'
  <2> SUFFICES ASSUME NEW w \in Worker, work'[w].step \in {"preparing", "replacing", "spawned"}
               PROVE  (LET s == work[w].session  g == work[w].generation IN
                       /\ <<s, g>> \notin stopping /\ ~ExitOf(s, g)
                       /\ Owns(s, g) => ~attempts[s].terminal
                       /\ work[w].step # "spawned" => <<s, g>> \notin transports)'
    BY DEF LaunchInv
  <2>1. CASE work'[w] = work[w]
    BY <1>1, <1>3, <2>1 DEF ConnInv, LaunchInv, Owns
  <2>2. CASE HasReserved(w)
    <3>0. PICK s \in Session, g \in Generation : work'[w].session = s /\ work'[w].generation = g
      BY TypesKept, ReservedNext DEF Reserved
    <3>1. HandOf(s, g)'
      BY <3>0 DEF HandOf, Reserved
    <3>2. ~HandOf(s, g)
      <4> SUFFICES ASSUME NEW v \in Worker, work[v].step \in Reserved PROVE FALSE
        BY DEF HandOf
      <4>1. Holds(w) /\ work[w].step = "waiting"
        BY <2>2 DEF HasReserved, Reserve
      <4>2. v = w
        BY <4>1, Exclusion
      <4> QED BY <4>1, <4>2 DEF Reserved
    <3>3. ReservesNow(s, g)
      BY <3>1, <3>2, HandBefore
    <3>4. ~Seen(s, g)
      BY <3>1, <3>3, ReservesNew
    <3>5. <<s, g>> \notin stopping' /\ ~ExitOf(s, g)' /\ ~Owns(s, g)' /\ <<s, g>> \notin transports'
      BY <1>1, <1>3, <3>4 DEF Seen, Owns
    <3> QED BY <3>0, <3>5 DEF ExitOf, Owns
  <2> QED BY <2>1, <2>2, QuietWork
<1>6. ExitInv'
  BY <1>1, <1>2, <1>4 DEF ExitInv, Owns
<1>7. ExitedInv'
  <2> SUFFICES ASSUME NEW w \in Worker, work'[w].step \in {"completing", "exitedEarly"}, work'[w].exited
               PROVE  /\ <<work'[w].session, work'[w].generation>> \notin transports
                      /\ ~Owns(work'[w].session, work'[w].generation)
    BY <1>1 DEF ExitedInv, Owns
  <2>1. CASE work'[w] = work[w]
    BY <2>1 DEF ConnInv, ExitedInv
  <2>2. CASE /\ Kin(work'[w], work[w]) /\ work'[w].generation = work[w].generation
             /\ work[w].step = "completing"
             /\ work[w].exited \/ ExitOf(work[w].session, work[w].generation)
    BY <1>4, <2>2 DEF ConnInv, ExitedInv, Kin
  <2> QED BY <2>1, <2>2, QuietWork DEF HasReserved
<1>8. EntryInv'
  BY <1>1 DEF ConnInv, EntryInv, Live
<1> QED BY <1>5, <1>6, <1>7, <1>8 DEF ConnInv

LEMMA PreparedConn ==
    ASSUME TypeInv, ConnInv, NEW w \in Worker, Prepared(w)
    PROVE  ConnInv'
<1> DEFINE x == work[w].session  h == work[w].generation
<1>1. /\ Stays(w, "replacing") /\ work[w].step = "preparing" /\ attempts[x].generation < h
      /\ \A y \in Session : y # x => attempts'[y] = attempts[y]
      /\ attempts'[x].generation = h /\ ~attempts'[x].terminal
      /\ \A t : t \in stopping' <=> t \in stopping \/ (t = <<x, attempts[x].generation>> /\ Live(x))
      /\ UNCHANGED <<transports, exits>>
  BY PreparedEffect DEF Prepared
<1>2. work[w].step \in Reserved /\ x \in Session /\ h \in Nat /\ OthersKeep(w)
      /\ work'[w].session = x /\ work'[w].generation = h /\ work'[w].step = "replacing"
  BY <1>1, ReservedParts DEF Reserved, Stays, Kin
<1>3. <<x, h>> \notin stopping /\ ~ExitOf(x, h) /\ <<x, h>> \notin transports
  BY <1>1 DEF ConnInv, LaunchInv
<1>4. \A v \in Worker : work'[v].step \in Reserved => v = w
  BY <1>2, AloneConn
<1>5. attempts[x].generation \in Nat /\ attempts[x].generation # h
  BY <1>1, <1>2, SessionParts DEF TypeInv
<1>6. LaunchInv'
  BY <1>1, <1>2, <1>3, <1>4, <1>5 DEF LaunchInv, ExitOf, Owns, Reserved
<1>7. ExitInv'
  <2> SUFFICES ASSUME NEW e \in exits
               PROVE  <<e.session, e.generation>> \notin transports /\ ~Owns(e.session, e.generation)'
    BY <1>1 DEF ExitInv, Owns
  <2>1. e.session \in Session /\ <<e.session, e.generation>> \notin transports
        /\ ~Owns(e.session, e.generation)
    BY ExitParts DEF ConnInv, ExitInv, TypeInv
  <2> QED BY <1>1, <1>3, <2>1 DEF Owns, ExitOf
<1>8. ExitedInv'
  BY <1>2, <1>4 DEF ExitedInv, Reserved
<1>9. EntryInv'
  <2> SUFFICES ASSUME NEW s \in Session, Live(s)'
               PROVE  <<s, attempts'[s].generation>> \in transports' \ stopping'
    BY DEF EntryInv
  <2>1. s # x /\ attempts'[s] = attempts[s] /\ Live(s)
    BY <1>1 DEF Live
  <2> QED BY <1>1, <2>1 DEF ConnInv, EntryInv
<1> QED BY <1>6, <1>7, <1>8, <1>9 DEF ConnInv

LEMMA SpawnConn ==
    ASSUME TypeInv, ConnInv, NEW w \in Worker, Spawn(w)
    PROVE  ConnInv'
<1> DEFINE x == work[w].session  h == work[w].generation
<1>1. /\ Stays(w, "spawned") /\ work[w].step = "replacing"
      /\ transports' = transports \cup {<<x, h>>} /\ UNCHANGED <<attempts, stopping, exits>>
  BY SpawnEffect DEF Spawn
<1>2. work[w].step \in Reserved /\ OthersKeep(w)
      /\ work'[w].session = x /\ work'[w].generation = h /\ work'[w].step = "spawned"
  BY <1>1 DEF Reserved, Stays, Kin
<1>3. /\ <<x, h>> \notin stopping /\ ~ExitOf(x, h)
      /\ Owns(x, h) => ~attempts[x].terminal
  BY <1>1 DEF ConnInv, LaunchInv
<1>4. \A v \in Worker : work'[v].step \in Reserved => v = w
  BY <1>2, AloneConn
<1>5. LaunchInv'
  BY <1>1, <1>2, <1>3, <1>4 DEF LaunchInv, ExitOf, Owns, Reserved
<1>6. ExitInv'
  BY <1>1, <1>3 DEF ConnInv, ExitInv, ExitOf, Owns
<1>7. ExitedInv'
  BY <1>2, <1>4 DEF ExitedInv, Reserved
<1>8. EntryInv'
  BY <1>1 DEF ConnInv, EntryInv, Live
<1> QED BY <1>5, <1>6, <1>7, <1>8 DEF ConnInv

LEMMA LaunchReturnsConn ==
    ASSUME TypeInv, ConnInv, NEW w \in Worker, LaunchReturns(w)
    PROVE  ConnInv'
<1> DEFINE x == work[w].session  h == work[w].generation
<1>1. work[w].step = "spawned" /\ x \in Session /\ UNCHANGED <<transports, exits>>
  BY LaunchReturnsEffect DEF LaunchReturns
<1>2. work[w].step \in Reserved /\ ~work[w].exited /\ h # 0 /\ h \in Nat
  BY <1>1, ReservedParts DEF Reserved, ShapeOK
<1>3. /\ <<x, h>> \notin stopping /\ ~ExitOf(x, h)
      /\ Owns(x, h) => ~attempts[x].terminal
  BY <1>1 DEF ConnInv, LaunchInv
<1>4. Stays(w, "completing") \/ Stays(w, "failing")
  BY LaunchReturnsEffect
<1>5. OthersKeep(w) /\ work'[w].exited = work[w].exited
      /\ work'[w].step \notin {"preparing", "replacing", "spawned"}
  BY <1>4 DEF Stays
<1>6. \A v \in Worker : work'[v].step \in Reserved => v = w
  BY <1>2, <1>5, AloneConn
<1>7. LaunchInv'
  BY <1>5, <1>6 DEF LaunchInv, Reserved
<1>8. ExitedInv'
  BY <1>2, <1>5, <1>6 DEF ExitedInv, Reserved
<1>9. NoAttempt.generation = 0
  BY DEF NoAttempt
<1>10. CASE /\ Launched(w) /\ UNCHANGED stopping
            /\ attempts'[x].generation = h /\ attempts'[x].terminal
            /\ \A y \in Session : y # x => attempts'[y] = attempts[y]
  <2>1. Owns(x, h) /\ <<x, h>> \in transports
    BY <1>10 DEF Launched
  <2>2. ExitInv'
    <3> SUFFICES ASSUME NEW e \in exits
                 PROVE  <<e.session, e.generation>> \notin transports /\ ~Owns(e.session, e.generation)'
      BY <1>1 DEF ExitInv, Owns
    <3>1. e.session \in Session /\ <<e.session, e.generation>> \notin transports
          /\ ~Owns(e.session, e.generation)
      BY ExitParts DEF ConnInv, ExitInv, TypeInv
    <3> QED BY <1>10, <2>1, <3>1 DEF Owns
  <2>3. EntryInv'
    BY <1>1, <1>3, <1>10, <2>1 DEF ConnInv, EntryInv, Live
  <2> QED BY <1>7, <1>8, <2>2, <2>3 DEF ConnInv
<1>11. CASE /\ \A y \in Session :
                 attempts'[y] = IF y = x /\ Owns(x, h) THEN NoAttempt ELSE attempts[y]
            /\ \A t : t \in stopping' <=> t \in stopping \/ (t = <<x, h>> /\ t \in transports)
  <2>1. ExitInv'
    <3> SUFFICES ASSUME NEW e \in exits
                 PROVE  <<e.session, e.generation>> \notin transports /\ ~Owns(e.session, e.generation)'
      BY <1>1 DEF ExitInv, Owns
    <3>1. e.session \in Session /\ e.generation # 0 /\ <<e.session, e.generation>> \notin transports
          /\ ~Owns(e.session, e.generation)
      BY ExitParts DEF ConnInv, ExitInv, TypeInv
    <3> QED BY <1>9, <1>11, <3>1 DEF Owns
  <2>2. EntryInv'
    <3> SUFFICES ASSUME NEW s \in Session, Live(s)'
                 PROVE  <<s, attempts'[s].generation>> \in transports' \ stopping'
      BY DEF EntryInv
    <3>1. attempts'[s] = attempts[s] /\ Live(s) /\ ~(s = x /\ Owns(x, h))
      BY <1>11 DEF Live
    <3>2. <<s, attempts[s].generation>> \in transports \ stopping
      BY <3>1 DEF ConnInv, EntryInv
    <3> QED BY <1>1, <1>11, <3>1, <3>2 DEF Owns
  <2> QED BY <1>7, <1>8, <2>1, <2>2 DEF ConnInv
<1> QED BY <1>10, <1>11, LaunchReturnsEffect

LEMMA TransportExitsConn ==
    ASSUME TypeInv, ConnInv, NEW t \in transports, TransportExits(t)
    PROVE  ConnInv'
<1> DEFINE x == t[1]  h == t[2]  owned == Owns(x, h) /\ attempts[x].terminal
<1>1. /\ x \in Session /\ h # 0 /\ t = <<x, h>> /\ transports' = transports \ {t}
      /\ \A y \in Session : attempts'[y] = IF y = x /\ owned THEN NoAttempt ELSE attempts[y]
      /\ \A f \in exits' : f \in exits \/ (owned /\ f.session = x /\ f.generation = h)
      /\ UNCHANGED <<work, stopping>>
  BY TransportExitsEffect DEF TransportExits
<1>2. NoAttempt.generation = 0
  BY DEF NoAttempt
<1>3. \A y \in Session, k \in Nat : k # 0 /\ Owns(y, k)' => Owns(y, k) /\ attempts'[y] = attempts[y]
  BY <1>1, <1>2 DEF Owns
<1>4. LaunchInv'
  <2> SUFFICES ASSUME NEW w \in Worker, work[w].step \in {"preparing", "replacing", "spawned"}
               PROVE  LET s == work[w].session  g == work[w].generation IN
                      /\ <<s, g>> \notin stopping /\ ~ExitOf(s, g)'
                      /\ Owns(s, g)' => ~attempts'[s].terminal
                      /\ work[w].step # "spawned" => <<s, g>> \notin transports'
    BY <1>1 DEF LaunchInv, ExitOf, Owns
  <2> DEFINE s == work[w].session  g == work[w].generation
  <2>1. s \in Session /\ g \in Nat /\ g # 0
    BY ReservedParts DEF Reserved
  <2>2. /\ <<s, g>> \notin stopping /\ ~ExitOf(s, g)
        /\ Owns(s, g) => ~attempts[s].terminal
        /\ work[w].step # "spawned" => <<s, g>> \notin transports
    BY DEF ConnInv, LaunchInv
  <2>3. ~ExitOf(s, g)'
    BY <1>1, <2>2 DEF ExitOf
  <2> QED BY <1>1, <1>3, <2>1, <2>2, <2>3
<1>5. ExitInv'
  <2> SUFFICES ASSUME NEW e \in exits'
               PROVE  <<e.session, e.generation>> \notin transports' /\ ~Owns(e.session, e.generation)'
    BY DEF ExitInv, Owns
  <2>1. CASE e \in exits
    <3>1. e.session \in Session /\ e.generation \in Nat /\ e.generation # 0
      BY <2>1, ExitParts DEF TypeInv
    <3> QED BY <1>1, <1>3, <2>1, <3>1 DEF ConnInv, ExitInv
  <2>2. CASE owned /\ e.session = x /\ e.generation = h
    BY <1>1, <1>2, <2>2 DEF Owns
  <2> QED BY <1>1, <2>1, <2>2
<1>6. ExitedInv'
  <2> SUFFICES ASSUME NEW w \in Worker, work[w].step \in {"completing", "exitedEarly"}, work[w].exited
               PROVE  /\ <<work[w].session, work[w].generation>> \notin transports'
                      /\ ~Owns(work[w].session, work[w].generation)'
    BY <1>1 DEF ExitedInv, Owns
  <2>1. work[w].session \in Session /\ work[w].generation \in Nat /\ work[w].generation # 0
    BY ReservedParts DEF Reserved
  <2> QED BY <1>1, <1>3, <2>1 DEF ConnInv, ExitedInv
<1>7. EntryInv'
  <2> SUFFICES ASSUME NEW s \in Session, Live(s)'
               PROVE  <<s, attempts'[s].generation>> \in transports' \ stopping'
    BY DEF EntryInv
  <2>1. attempts'[s] = attempts[s] /\ Live(s) /\ ~(s = x /\ owned)
    BY <1>1 DEF Live
  <2>2. <<s, attempts[s].generation>> # t
    BY <1>1, <2>1 DEF Live, Owns
  <2> QED BY <1>1, <2>1, <2>2 DEF ConnInv, EntryInv
<1> QED BY <1>4, <1>5, <1>6, <1>7 DEF ConnInv

LEMMA RuntimeDisposeConn ==
    ASSUME TypeInv, ConnInv, RuntimeDispose
    PROVE  ConnInv'
<1>1. /\ \A s \in Session : attempts'[s] = NoAttempt
      /\ \A t : t \in stopping' <=>
           t \in stopping \/ \E s \in Session : Live(s) /\ t = <<s, attempts[s].generation>>
      /\ UNCHANGED <<work, transports, exits>>
  BY RuntimeDisposeEffect DEF RuntimeDispose
<1>0. work' = work /\ transports' = transports /\ exits' = exits
  BY <1>1
<1>2. \A s \in Session, g \in Nat : g # 0 => ~Owns(s, g)'
  BY <1>1 DEF Owns, NoAttempt
<1>3. LaunchInv'
  <2> SUFFICES ASSUME NEW w \in Worker, work'[w].step \in {"preparing", "replacing", "spawned"}
               PROVE  (LET s == work[w].session  g == work[w].generation IN
                       /\ <<s, g>> \notin stopping /\ ~ExitOf(s, g)
                       /\ Owns(s, g) => ~attempts[s].terminal
                       /\ work[w].step # "spawned" => <<s, g>> \notin transports)'
    BY DEF LaunchInv
  <2> DEFINE s == work[w].session  g == work[w].generation
  <2>1. s \in Session /\ g \in Nat /\ g # 0
    BY <1>0, ReservedParts DEF Reserved
  <2>2. /\ <<s, g>> \notin stopping /\ ~ExitOf(s, g)
        /\ Owns(s, g) => ~attempts[s].terminal
        /\ work[w].step # "spawned" => <<s, g>> \notin transports
    BY <1>0 DEF ConnInv, LaunchInv
  <2>3. <<s, g>> \notin stopping'
    BY <1>1, <2>2 DEF Live, Owns
  <2> QED BY <1>0, <1>2, <2>1, <2>2, <2>3 DEF ExitOf
<1>4. ExitInv'
  <2>1. ASSUME NEW e \in exits
        PROVE  <<e.session, e.generation>> \notin transports /\ ~Owns(e.session, e.generation)'
    BY <1>2, ExitParts DEF ConnInv, ExitInv, TypeInv
  <2> QED BY <1>0, <2>1 DEF ExitInv, Owns
<1>5. ExitedInv'
  <2> SUFFICES ASSUME NEW w \in Worker, work'[w].step \in {"completing", "exitedEarly"},
                      work'[w].exited
               PROVE  (/\ <<work[w].session, work[w].generation>> \notin transports
                       /\ ~Owns(work[w].session, work[w].generation))'
    BY DEF ExitedInv
  <2>1. work[w].session \in Session /\ work[w].generation \in Nat /\ work[w].generation # 0
    BY <1>0, ReservedParts DEF Reserved
  <2> QED BY <1>0, <1>2, <2>1 DEF ConnInv, ExitedInv
<1>6. EntryInv'
  BY <1>1 DEF EntryInv, Live
<1> QED BY <1>3, <1>4, <1>5, <1>6 DEF ConnInv

LEMMA ConnKept ==
    ASSUME TypeInv, SeenInv, ConnInv, [Next]_vars
    PROVE  ConnInv'
<1>1. CASE Quiet
  BY <1>1, QuietConn
<1>2. ASSUME NEW w \in Worker, Prepared(w) PROVE ConnInv'
  BY <1>2, PreparedConn
<1>3. ASSUME NEW w \in Worker, PreparationFails(w) \/ SpawnFails(w) \/ CompletionFails(w) PROVE ConnInv'
  <2>1. /\ Stays(w, "failing") /\ UNCHANGED <<transports, exits>>
        /\ work[w].session \in Session /\ work[w].generation \in Nat /\ work[w].generation # 0
        /\ Terminate(work[w].session, work[w].generation)
    BY <1>3, FailsEffect
  <2>2. \A v \in Worker : work'[v] = work[v] \/ work'[v].step = "failing"
    BY <2>1 DEF Stays, OthersKeep
  <2> QED BY <2>1, <2>2, TerminateConn
<1>4. ASSUME NEW w \in Worker, Spawn(w) PROVE ConnInv'
  BY <1>4, SpawnConn
<1>5. ASSUME NEW w \in Worker, LaunchReturns(w) PROVE ConnInv'
  BY <1>5, LaunchReturnsConn
<1>6. ASSUME NEW s \in Session, Detach(s) \/ Close(s) \/ ReplayRelease(s) PROVE ConnInv'
  <2>1. PICK g \in Nat : g # 0 /\ Terminate(s, g)
    <3>1. rows[s].generation \in Nat /\ rows[s].generation # 0
      BY SessionParts DEF TypeInv
    <3> QED BY <1>6, <3>1, ReleaseEffect, ReplayReleaseEffect
  <2>2. UNCHANGED <<transports, exits, work>>
    BY <1>6 DEF Detach, Close, Release, ReplayRelease
  <2> QED BY <2>1, <2>2, TerminateConn
<1>7. ASSUME NEW t \in transports, TransportExits(t) PROVE ConnInv'
  BY <1>7, TransportExitsConn
<1>8. CASE StopEnds
  <2>1. PICK u \in stopping : stopping' = stopping \ {u} /\ transports' = transports \ {u}
    BY <1>8 DEF StopEnds
  <2>2. UNCHANGED <<attempts, work, exits>>
    BY <1>8 DEF StopEnds
  <2>3. LaunchInv'
    BY <2>1, <2>2 DEF ConnInv, LaunchInv, ExitOf, Owns
  <2>4. ExitInv' /\ ExitedInv'
    BY <2>1, <2>2 DEF ConnInv, ExitInv, ExitedInv, Owns
  <2>5. EntryInv'
    BY <2>1, <2>2 DEF ConnInv, EntryInv, Live
  <2> QED BY <2>3, <2>4, <2>5 DEF ConnInv
<1>9. ASSUME upkeep.step = "revoking", NEW t \in upkeep.todo, RevokesNext(t) PROVE ConnInv'
  <2>1. t[1] \in Session /\ t[2] \in Nat /\ t[2] # 0 /\ Terminate(t[1], t[2])
    BY <1>9, RevokesNextEffect
  <2>2. UNCHANGED <<transports, exits, work>>
    BY <1>9 DEF RevokesNext
  <2> QED BY <2>1, <2>2, TerminateConn
<1>10. CASE RuntimeDispose
  BY <1>10, RuntimeDisposeConn
<1>11. CASE Restart
  <2>1. /\ \A w \in Worker : work'[w] = Idle
        /\ \A s \in Session : attempts'[s] = NoAttempt
        /\ exits' = {} /\ Idle.step = "idle"
    BY <1>11, RestartEffect DEF Restart, Idle
  <2> QED BY <2>1 DEF ConnInv, LaunchInv, ExitInv, ExitedInv, EntryInv, Live
<1> QED BY <1>1, <1>2, <1>3, <1>4, <1>5, <1>6, <1>7, <1>8, <1>9, <1>10, <1>11, StepCases

-----------------------------------------------------------------------------
(* A lost connection has lost its transport.                                 *)

CoreInv == TypeInv /\ TargetInv /\ SeenInv /\ ConnInv

LEMMA CoreHolds == Spec => []CoreInv
<1>1. Init => CoreInv
  <2> SUFFICES ASSUME Init PROVE CoreInv
    OBVIOUS
  <2>1. /\ \A s \in Session : /\ rows[s].state = "absent" /\ attempts[s] = NoAttempt
                              /\ released[s] = 0
        /\ target.hostKey # "deleted" /\ ~target.deleting
        /\ upkeep = Idle /\ \A w \in Worker : work[w] = Idle
        /\ transports = {} /\ stopping = {} /\ exits = {}
    BY DEF Init
  <2>2. Idle.step = "idle" /\ NoAttempt.generation = 0
    BY DEF Idle, NoAttempt
  <2>3. TargetInv
    BY <2>1, <2>2 DEF TargetInv
  <2>4. SeenInv
    BY <2>1, <2>2 DEF SeenInv, Seen, Owns, ExitOf, HandOf, Reserved, Generation
  <2>5. ConnInv
    BY <2>1, <2>2 DEF ConnInv, LaunchInv, ExitInv, ExitedInv, EntryInv, Live
  <2> QED BY <2>3, <2>4, <2>5, InitTypes DEF CoreInv
<1>2. CoreInv /\ [Next]_vars => CoreInv'
  BY TypesKept, TargetKept, SeenKept, ConnKept DEF CoreInv
<1> QED BY <1>1, <1>2, PTL DEF Spec

\* The exits that are recorded are real.
LEMMA ExitRecorded ==
    ASSUME TypeInv, ConnInv, NEW s \in Session, NEW x \in Session, NEW g \in Nat,
           NEW attempt \in 0 .. MaxAttempts, RecordExit(x, g, attempt), <<x, g>> \notin transports
    PROVE  rows[s].state = "connected" /\ rows'[s].state = "reconnecting"
             => <<s, rows[s].generation>> \notin transports
<1>1. \/ UNCHANGED rows
      \/ ExitApplies(x, g) /\ \A y \in Session : y # x => rows'[y] = rows[y]
  BY RecordExitFacts DEF TypeInv
<1> QED BY <1>1 DEF ExitApplies

LEMMA Losses ==
    ASSUME TypeInv, ConnInv, [Next]_vars, NEW s \in Session,
           rows[s].state = "connected", rows'[s].state = "reconnecting"
    PROVE  <<s, rows[s].generation>> \notin transports
<1> DEFINE Goal == <<s, rows[s].generation>> \notin transports
<1>1. rows # rows'
  OBVIOUS
<1>2. ASSUME NEW w \in Worker, Activates(w) PROVE Goal
  <2>1. CASE Reserve(w)
    <3>1. Reservable(w) /\ RowsKeep(work[w].session) /\ work[w].session \in Session
      BY <1>1, <2>1, ReserveEffect
    <3> QED BY <3>1 DEF Reservable, Startable, RowsKeep
  <2>2. CASE Completed(w)
    <3>1. RowsKeep(work[w].session) /\ rows'[work[w].session].state = "connected"
      BY <2>2, CompletedEffect
    <3> QED BY <3>1 DEF RowsKeep
  <2>3. CASE RecordEarlyExit(w)
    <3>1. <<work[w].session, work[w].generation>> \notin transports
      BY <2>3, RecordEarlyExitEffect DEF ConnInv, ExitedInv
    <3> QED BY <2>3, <3>1, RecordEarlyExitEffect, ExitRecorded
  <2>4. CASE RecordFailure(w)
    <3>1. RowsKeep(work[w].session) /\ rows[work[w].session].state \in InFlight
      BY <1>1, <2>4, RecordFailureEffect DEF CompletionApplies
    <3> QED BY <3>1 DEF RowsKeep, InFlight
  <2>5. CASE Returned(w)
    <3>1. RowsKeep(work[w].session) /\ rows'[work[w].session].state = "failed"
      BY <1>1, <2>5, ReturnedEffect
    <3> QED BY <3>1 DEF RowsKeep
  <2> QED BY <1>1, <1>2, <2>1, <2>2, <2>3, <2>4, <2>5 DEF Activates, Prepared, PreparationFails,
          Spawn, SpawnFails, LaunchReturns, CompletionFails, MarkHostKeyChanged, durable
<1>3. ASSUME NEW x \in Session, Requests(x) PROVE Goal
  <2>1. CASE Prepare(x)
    BY <2>1, PrepareEffect DEF RowsKeep
  <2>2. CASE Detach(x) \/ Close(x)
    BY <2>2, ReleaseEffect DEF RowsKeep
  <2>3. CASE Transfer(x)
    BY <2>3, TransferEffect DEF RowsKeep
  <2> QED BY <1>1, <1>3, <2>1, <2>2, <2>3 DEF Requests, DecideHostKey, ReplayRelease, durable
<1>4. ASSUME NEW e \in exits, ExitReported(e) PROVE Goal
  <2>1. /\ e.session \in Session /\ e.generation \in Nat /\ e.attempt \in 0 .. MaxAttempts
        /\ <<e.session, e.generation>> \notin transports
    BY ExitParts DEF ConnInv, ExitInv, TypeInv
  <2> QED BY <1>1, <1>4, <2>1, ExitReportedEffect, ExitRecorded
<1>5. CASE UpkeepStarts
  BY <1>1, <1>5, UpkeepStartsEffect DEF durable
<1>6. CASE FinishDeletion \/ CommitReplacement
  BY <1>6, FinishDeletionEffect, CommitReplacementEffect
<1>7. CASE Restart
  <2>1. rows'[s].state = "detached"
    BY <1>7, RestartEffect
  <2> QED BY <2>1
<1> QED BY <1>1, <1>2, <1>3, <1>4, <1>5, <1>6, <1>7 DEF Next, UpkeepStep, Activate, TimerFires,
        TransportExits, StopEnds, BeginReplacement, AbortReplacement, RequestUpkeep, RevokesNext,
        UpkeepFails, Dispose, RuntimeDispose, durable, vars

\* A connected session starts to reconnect only when the transport of that
\* connection is gone.
THEOREM LossNeedsExit == Spec => LossIsReal
<1> DEFINE P == \A s \in Session :
                  rows[s].state = "connected" /\ rows'[s].state = "reconnecting"
                    => <<s, rows[s].generation>> \notin transports
<1>1. CoreInv /\ [Next]_vars => [P]_vars
  BY Losses DEF CoreInv
<1> QED BY <1>1, CoreHolds, PTL DEF Spec, LossIsReal
=============================================================================
