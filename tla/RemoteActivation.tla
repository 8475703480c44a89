-------------------------- MODULE RemoteActivation --------------------------
(* Remote sessions of one SSH target: the durable rows (remote-catalog.ts),  *)
(* the activation service that reserves an attempt, launches SSH and retries *)
(* after a lost transport (remote-session-activation-service.ts), the local  *)
(* transports it owns (remote-interactive-runtime.ts), and the deletion and  *)
(* credential replacement that take turns with it on the target's lock.      *)
(*                                                                           *)
(* Targets do not interact: each has its lock, rows and transports.  Code    *)
(* between two waits for the host, a process, a timer or the lock is one     *)
(* step; a section of exclusive() and the code that follows it is one step.  *)
EXTENDS Naturals, Sequences, FiniteSets

CONSTANTS
    Session,          \* session ids; an id is used once
    Worker,           \* slots for activations under way
    Upkeep,           \* the slot for a deletion or replacement under way
    MaxAttempts,      \* bound on reconnect.maxAttempts of the sessions
    MaxGeneration,    \* bound on the attempt generations of a session
    MaxRequests       \* bound on client requests (other than prepare, detach and
                      \* close) and restarts together

ASSUME WorkerAssumption == IsFiniteSet(Worker) /\ Upkeep \notin Worker
ASSUME BoundAssumption ==
    /\ MaxAttempts \in Nat /\ MaxGeneration \in Nat \ {0}
    /\ MaxRequests \in Nat

VARIABLES
    rows,         \* remote_sessions: state, generation, revision, tmux mode
    target,       \* remote_targets: host key, revision, pending work on it
    lock,         \* holder of the target's lock, then those who wait for it
    work,         \* activations under way
    upkeep,       \* the deletion or replacement under way
    timers,       \* reconnectTimers
    attempts,     \* the runtime's attempts
    transports,   \* SSH processes that run, by session and generation
    stopping,     \* transports whose stop() is under way
    exits,        \* exited transports whose exit callback is under way
    phase,        \* of the service process
    stranded,     \* sessions left without a driver by a step outside activation
    released,     \* session -> generation its last detach answered with
    tmux,         \* sessions for which new-session was sent to the host
    limit,        \* reconnect.maxAttempts of each session
    spent,        \* automatic attempts since the last stable connection
    requests      \* activations, transfers and so on asked for so far

durable == <<rows, target>>
history == <<stranded, released, tmux, spent, limit>>
vars == <<rows, target, lock, work, upkeep, timers, attempts, transports, stopping,
          exits, phase, stranded, released, tmux, limit, spent, requests>>

Generation == Nat \ {0}
InFlight   == {"connecting", "reconnecting"}
Lifecycle  == {"absent", "trustRequired", "credentialRequired", "connecting",
               "connected", "reconnecting", "detached", "failed", "closed"}
Startable  == {"trustRequired", "credentialRequired", "detached", "reconnecting"}
Row == [state : Lifecycle, generation : Generation, revision : Nat,
        mode : {"create", "attach"}]

\* enrolling: the target revision a pending credential replacement expects, or 0.
HostKey == {"untrusted", "trusted", "changed", "deleted"}
Target  == [hostKey : HostKey, revision : Nat, deleting : BOOLEAN, enrolling : Nat]

Transport == Session \X Generation

\* A reconnect timer.  TimerId tells one timer object of a session from another.
TimerId == 1 .. Cardinality(Worker) + 1
Timer   == [id : TimerId, generation : Generation, revision : Nat,
            attempt : 1 .. MaxAttempts, armed : BOOLEAN]
NoTimer == [id |-> 0]

\* An entry of the runtime: which activation it belongs to and whether its
\* terminal is known (and its exit listened to).
Attempt   == [generation : Generation, attempt : 0 .. MaxAttempts, terminal : BOOLEAN]
NoAttempt == [generation |-> 0]

\* The exit of an owned transport on its way to onExit(): settled when the
\* activation that launched it has completed.
Exit == [session : Session, generation : Generation, attempt : 0 .. MaxAttempts,
         settled : BOOLEAN]

\* An activation: where it waits; the session, the retry it is (0: asked for by
\* a client) and its timer; the row and target it reserved; the state it put
\* the row in; the runtime entry it replaced; whether its transport exited
\* before it completed; its error code.
Code == {"none", "failure", "stale", "mismatch"}
Step == {"waiting", "preparing", "replacing", "spawned", "completing", "exitedEarly",
         "failing", "returned"}
Activation ==
    [step : Step, session : Session, attempt : 0 .. MaxAttempts, timer : TimerId \cup {0},
     revision : Nat, generation : Generation \cup {0}, state : InFlight \cup {"none"},
     targetRevision : Nat, previous : Generation \cup {0}, exited : BOOLEAN, code : Code]
Idle == [step |-> "idle"]

\* A deletion or a replacement: the transports it has yet to revoke, and those it
\* revoked.
UpkeepWork == [kind : {"delete", "replace"}, step : {"waiting", "revoking"},
               todo : SUBSET Transport, revoked : SUBSET Transport]

TypeOK ==
    /\ rows \in [Session -> Row]
    /\ target \in Target
    /\ lock \in Seq(Worker \cup {Upkeep})
    /\ work \in [Worker -> Activation \cup {Idle}]
    /\ upkeep \in UpkeepWork \cup {Idle}
    /\ timers \in [Session -> Timer \cup {NoTimer}]
    /\ attempts \in [Session -> Attempt \cup {NoAttempt}]
    /\ transports \subseteq Transport
    /\ stopping \subseteq Transport
    /\ exits \subseteq Exit
    /\ phase \in {"recovering", "serving", "disposing", "disposed"}
    /\ stranded \subseteq Session
    /\ released \in [Session -> Generation \cup {0}]
    /\ tmux \subseteq Session
    /\ spent \in [Session -> Nat]
    /\ limit \in [Session -> 0 .. MaxAttempts]
    /\ requests \in 0 .. MaxRequests

Init ==
    /\ rows = [s \in Session |->
                 [state |-> "absent", generation |-> 1, revision |-> 0, mode |-> "create"]]
    /\ target \in {[hostKey |-> k, revision |-> 1, deleting |-> FALSE, enrolling |-> 0] :
                     k \in {"untrusted", "trusted"}}
    /\ lock = <<>>
    /\ work = [w \in Worker |-> Idle]
    /\ upkeep = Idle
    /\ timers = [s \in Session |-> NoTimer]
    /\ attempts = [s \in Session |-> NoAttempt]
    /\ transports = {} /\ stopping = {} /\ exits = {}
    /\ phase = "serving"
    /\ stranded = {} /\ tmux = {}
    /\ released = [s \in Session |-> 0]
    /\ spent = [s \in Session |-> 0]
    /\ limit \in [Session -> 0 .. MaxAttempts]
    /\ requests = 0

-----------------------------------------------------------------------------
(* The row of a session, the runtime's entries, the timers.                  *)

\* Every change of a row advances its revision.
Becomes(s, state) ==
    [rows EXCEPT ![s].state = state, ![s].revision = @ + 1]

\* runtime.terminate(): the entry of this generation goes and its transport is
\* stopped, if its terminal is known.
Owns(s, g) == attempts[s].generation = g
TerminateAny(s, g) ==   \* mutant: terminate() does not compare generations
    /\ attempts' = [attempts EXCEPT ![s] = NoAttempt]
    /\ stopping' = IF attempts[s] # NoAttempt /\ attempts[s].terminal
                   THEN stopping \cup {<<s, attempts[s].generation>>} ELSE stopping
TerminateForgets(s, g) ==   \* mutant: the entry goes, its transport runs on
    /\ attempts' = IF Owns(s, g) THEN [attempts EXCEPT ![s] = NoAttempt] ELSE attempts
    /\ UNCHANGED stopping
TerminateKeepsEntry(s, g) ==   \* mutant: the transport stops, its entry stays
    /\ UNCHANGED attempts
    /\ stopping' = IF Owns(s, g) /\ attempts[s].terminal
                   THEN stopping \cup {<<s, g>>} ELSE stopping
Terminate(s, g) ==
    /\ attempts' = IF Owns(s, g) THEN [attempts EXCEPT ![s] = NoAttempt] ELSE attempts
    /\ stopping' = IF Owns(s, g) /\ attempts[s].terminal
                   THEN stopping \cup {<<s, g>>} ELSE stopping

\* stop() has revoked the lease and closed the terminal; an exit is not reported.
StopEnds ==
    \E t \in stopping :
        /\ stopping' = stopping \ {t}
        /\ transports' = transports \ {t}
        /\ UNCHANGED <<durable, lock, work, upkeep, timers, attempts, exits, phase,
                       history, requests>>

Disposed == phase \in {"disposing", "disposed"}

Untimed(s) == [timers EXCEPT ![s] = NoTimer]

\* A new timer takes the place of the session's timer; the activations under
\* way keep the one they were started by.
FreshId(s) ==
    CHOOSE i \in TimerId : \A w \in Worker :
        ~(work[w].step # "idle" /\ work[w].session = s /\ work[w].timer = i)
Timed(s, row, attempt) ==
    [timers EXCEPT ![s] = [id |-> FreshId(s), generation |-> row.generation,
                           revision |-> row.revision, attempt |-> attempt, armed |-> TRUE]]

\* retryAfterTransportExit()
RetryForgetsBudget(attempt, stable) == 1   \* mutant: every exit starts anew
RetryAfterTransportExit(attempt, stable) ==
    IF attempt > 0 /\ ~stable THEN attempt + 1 ELSE 1

UsedUp(s, next) == next > limit[s]

\* recordExitAndSchedule(), after the transport (s, g) of a connection exited:
\* the row of that generation starts to reconnect, until the attempts are used
\* up; after disposal it is left so, for the next start to detach.  The second
\* section, which fails the row, is asked for as soon as the first one ends.
ExitOfAnyGeneration(s, g) ==   \* mutant: the generation is not compared
    rows[s].state \in {"connecting", "connected", "reconnecting"}
ExitApplies(s, g) ==
    /\ rows[s].generation = g
    /\ rows[s].state \in {"connecting", "connected", "reconnecting"}
AfterExit(s) ==
    IF rows[s].state # "connected" THEN "failed"
    ELSE IF limit[s] > 0 THEN "reconnecting" ELSE "detached"
RecordExit(s, g, attempt) ==
    \E stable \in BOOLEAN :
        LET next    == RetryAfterTransportExit(attempt, stable)
            after   == AfterExit(s)
            usedUp  == after = "reconnecting" /\ ~Disposed /\ UsedUp(s, next)
        IN  IF ~ExitApplies(s, g)
            THEN UNCHANGED <<rows, timers, spent>>
            ELSE /\ rows' = [rows EXCEPT ![s].state = IF usedUp THEN "failed" ELSE after,
                                         ![s].revision = @ + IF usedUp THEN 2 ELSE 1]
                 /\ spent' = [spent EXCEPT ![s] = IF stable THEN 0 ELSE @]
                 /\ timers' = IF after # "reconnecting" \/ Disposed THEN timers
                              ELSE IF usedUp THEN Untimed(s) ELSE Timed(s, rows'[s], next)

-----------------------------------------------------------------------------
(* Activations.                                                              *)

Waits(w, step) == work[w].step = step
Holds(w) == lock # <<>> /\ Head(lock) = w
Next1(w, step) == work' = [work EXCEPT ![w].step = step]

IsCurrent(w) ==
    LET a == work[w] IN
    /\ ~Disposed
    /\ rows[a.session].state = a.state
    /\ rows[a.session].generation = a.generation
    /\ rows[a.session].revision = a.revision
    /\ target.hostKey = "trusted" /\ target.revision = a.targetRevision

\* One of the bounded requests.
Requested == requests < MaxRequests /\ requests' = requests + 1

\* The slot of a new activation.
Free(w) == work[w] = Idle /\ w = CHOOSE x \in Worker : work[x] = Idle

\* activate(): a client asks with the revision it read.
Activate(w, s) ==
    /\ phase = "serving" /\ Free(w) /\ Requested
    /\ rows[s].state \in Startable /\ rows[s].generation < MaxGeneration
    /\ work' = [work EXCEPT ![w] =
         [step |-> "waiting", session |-> s, attempt |-> 0, timer |-> 0,
          revision |-> rows[s].revision, generation |-> 0, state |-> "none",
          targetRevision |-> 0, previous |-> 0, exited |-> FALSE, code |-> "none"]]
    /\ lock' = Append(lock, w)
    /\ UNCHANGED <<durable, upkeep, timers, attempts, transports, stopping, exits, phase,
                   history>>

\* runReconnect() of a timer that is due: it starts an activation, unless the
\* row is no longer the one the timer was set for.
TimerIsCurrent(s) ==
    /\ rows[s].state = "reconnecting"
    /\ rows[s].revision = timers[s].revision
    /\ rows[s].generation = timers[s].generation
TimerFires(w, s) ==
    /\ timers[s] # NoTimer /\ timers[s].armed /\ ~Disposed
    /\ UNCHANGED <<durable, upkeep, attempts, transports, stopping, exits, phase, history, requests>>
    /\ IF ~TimerIsCurrent(s)
       THEN timers' = Untimed(s) /\ UNCHANGED <<work, lock>>
       ELSE /\ Free(w) /\ rows[s].generation < MaxGeneration
            /\ timers' = [timers EXCEPT ![s].armed = FALSE]
            /\ work' = [work EXCEPT ![w] =
                 [step |-> "waiting", session |-> s, attempt |-> timers[s].attempt,
                  timer |-> timers[s].id, revision |-> timers[s].revision,
                  generation |-> 0, state |-> "none", targetRevision |-> 0,
                  previous |-> 0, exited |-> FALSE, code |-> "none"]]
            /\ lock' = Append(lock, w)

\* The lock passes on, and an automatic attempt returns to runReconnect().
ReturnKeepsLock(w, code) ==   \* mutant: the lock is not released
    /\ UNCHANGED lock
    /\ work' = [work EXCEPT ![w] = IF @.attempt = 0 THEN Idle
                                   ELSE [@ EXCEPT !.step = "returned", !.code = code,
                                                  !.revision = 0, !.targetRevision = 0]]
Return(w, code) ==
    /\ lock' = Tail(lock)
    /\ work' = [work EXCEPT ![w] = IF @.attempt = 0 THEN Idle
                                   ELSE [@ EXCEPT !.step = "returned", !.code = code,
                                                  !.revision = 0, !.targetRevision = 0]]

\* beginActivation(), once the target's lock is held.
ReservableAtAnyRevision(w) ==   \* mutant: expectedRevision is not compared
    LET row == rows[work[w].session] IN
    /\ ~Disposed
    /\ row.state \in Startable
    /\ target.hostKey = "trusted" /\ ~target.deleting /\ target.enrolling = 0
Reservable(w) ==
    LET row == rows[work[w].session] IN
    /\ ~Disposed
    /\ row.revision = work[w].revision /\ row.state \in Startable
    /\ target.hostKey = "trusted" /\ ~target.deleting /\ target.enrolling = 0
ReservedRow(row) ==
    [row EXCEPT !.state = IF @ = "reconnecting" THEN @ ELSE "connecting",
                !.generation = IF row.state \in {"detached", "reconnecting"} THEN @ + 1 ELSE @,
                !.revision = @ + 1]
Reserve(w) ==
    LET s   == work[w].session
        row == ReservedRow(rows[s])
        automatic == work[w].attempt > 0
    IN  /\ Waits(w, "waiting") /\ Holds(w)
        /\ UNCHANGED <<target, upkeep, attempts, transports, stopping, exits, phase,
                       released, tmux, limit, requests>>
        /\ IF ~Reservable(w)
           THEN Return(w, "failure") /\ UNCHANGED <<rows, timers, stranded, spent>>
           ELSE /\ rows' = [rows EXCEPT ![s] = row]
                /\ timers' = IF automatic THEN timers ELSE Untimed(s)
                /\ work' = [work EXCEPT ![w] =
                     [@ EXCEPT !.step = "preparing", !.revision = row.revision,
                               !.generation = row.generation, !.state = row.state,
                               !.targetRevision = target.revision]]
                /\ stranded' = IF automatic THEN stranded ELSE stranded \ {s}
                /\ spent' = [spent EXCEPT ![s] = IF automatic THEN @ + 1 ELSE 0]
                /\ UNCHANGED lock

\* The attempt throws: its runtime entry is terminated before the row is written.
Throw(w, code) ==
    /\ Terminate(work[w].session, work[w].generation)
    /\ work' = [work EXCEPT ![w] = [@ EXCEPT !.step = "failing", !.code = code]]

\* The host key was verified, the remote tmux answered, the launch starts; or
\* one of them failed.
Prepared(w) ==
    LET a == work[w] IN
    /\ Waits(w, "preparing") /\ IsCurrent(w)
    /\ attempts[a.session].generation < a.generation
    /\ attempts' = [attempts EXCEPT ![a.session] =
         [generation |-> a.generation, attempt |-> a.attempt, terminal |-> FALSE]]
    /\ LET old == attempts[a.session] IN
        /\ stopping' = IF old # NoAttempt /\ old.terminal
                       THEN stopping \cup {<<a.session, old.generation>>} ELSE stopping
        /\ work' = [work EXCEPT ![w] = [@ EXCEPT !.step = "replacing",
                                                 !.previous = old.generation]]
    /\ UNCHANGED <<durable, lock, upkeep, timers, transports, exits, phase, history, requests>>

PreparationFails(w) ==
    /\ Waits(w, "preparing")
    /\ \E code \in {"failure", "mismatch"} \cup IF IsCurrent(w) THEN {} ELSE {"stale"} :
        Throw(w, code)
    /\ UNCHANGED <<durable, lock, upkeep, timers, transports, exits, phase, history, requests>>

\* launch() once the entry it replaced is stopped: SSH is spawned, unless the
\* attempt is stale or it cannot be.
Spawn(w) ==
    LET a == work[w] IN
    /\ Waits(w, "replacing")
    /\ <<a.session, a.previous>> \notin stopping
    /\ phase # "disposed" /\ Owns(a.session, a.generation) /\ IsCurrent(w)
    /\ transports' = transports \cup {<<a.session, a.generation>>}
    /\ tmux' = IF rows[a.session].mode = "create" THEN tmux \cup {a.session} ELSE tmux
    /\ Next1(w, "spawned")
    /\ UNCHANGED <<durable, lock, upkeep, timers, attempts, stopping, exits, phase,
                   stranded, released, limit, spent, requests>>
SpawnFails(w) ==
    /\ Waits(w, "replacing")
    /\ <<work[w].session, work[w].previous>> \notin stopping
    /\ Throw(w, "failure")
    /\ UNCHANGED <<durable, lock, upkeep, timers, transports, exits, phase, history, requests>>

\* The terminal is known.  A launch that is stale by now, or whose process is
\* gone, stops its own transport.
Launched(w) ==
    LET a == work[w] IN
    /\ phase # "disposed" /\ Owns(a.session, a.generation) /\ IsCurrent(w)
    /\ <<a.session, a.generation>> \in transports
LaunchReturns(w) ==
    LET a == work[w] IN
    /\ Waits(w, "spawned")
    /\ UNCHANGED <<durable, lock, upkeep, timers, transports, exits, phase, history, requests>>
    /\ IF Launched(w)
       THEN /\ attempts' = [attempts EXCEPT ![a.session].terminal = TRUE]
            /\ Next1(w, "completing")
            /\ UNCHANGED stopping
       ELSE /\ attempts' = IF Owns(a.session, a.generation)
                           THEN [attempts EXCEPT ![a.session] = NoAttempt] ELSE attempts
            /\ stopping' = stopping \cup ({<<a.session, a.generation>>} \cap transports)
            /\ work' = [work EXCEPT ![w] = [@ EXCEPT !.step = "failing", !.code = "failure"]]

\* completeActivation(): fenced by the reserved state, generation and revision,
\* and by the target unless the outcome is a failure.
CompletionApplies(w, outcome) ==
    LET a == work[w] IN
    /\ rows[a.session].state \in InFlight
    /\ rows[a.session].revision = a.revision
    /\ rows[a.session].generation = a.generation
    /\ \/ outcome = "failed"
       \/ target.hostKey = "trusted" /\ target.revision = a.targetRevision

\* The transport is up, and the row says so if the attempt is still the one it
\* reserved.  An exit before this is an error; one that the completion crossed
\* is recorded now.
Completed(w) ==
    LET s == work[w].session IN
    /\ Waits(w, "completing")
    /\ CompletionApplies(w, "connected")
    /\ IF work[w].exited THEN Next1(w, "exitedEarly") /\ UNCHANGED lock
                         ELSE Return(w, "none")
    /\ rows' = [rows EXCEPT ![s].state = "connected", ![s].mode = "attach",
                            ![s].revision = @ + 1]
    /\ exits' = {[e EXCEPT !.settled = @ \/ (e.session = s /\ e.generation = work[w].generation)] :
                   e \in exits}
    /\ stranded' = stranded \ {s}
    /\ UNCHANGED <<target, upkeep, timers, attempts, transports, stopping, phase,
                   released, tmux, limit, spent, requests>>
CompletionFails(w) ==
    /\ Waits(w, "completing")
    /\ \/ ~CompletionApplies(w, "connected") /\ \E code \in {"stale", "failure"} : Throw(w, code)
       \/ ~IsCurrent(w) /\ \E code \in {"stale", "failure"} : Throw(w, code)
       \/ work[w].exited /\ Throw(w, "failure")
    /\ UNCHANGED <<durable, lock, upkeep, timers, transports, exits, phase, history, requests>>
RecordEarlyExit(w) ==
    /\ Waits(w, "exitedEarly")
    /\ RecordExit(work[w].session, work[w].generation, work[w].attempt)
    /\ Return(w, "none")
    /\ UNCHANGED <<target, upkeep, attempts, transports, stopping, exits, phase,
                   stranded, released, tmux, limit, requests>>

\* The rest of the catch: once the transport is stopped, a changed host key is
\* marked on the target, then the failure is written.
Stopped(w) == <<work[w].session, work[w].generation>> \notin stopping
MarkHostKeyChanged(w) ==
    /\ Waits(w, "failing") /\ Stopped(w) /\ work[w].code = "mismatch"
    /\ target.revision = work[w].targetRevision /\ target.hostKey = "trusted"
    /\ target' = [target EXCEPT !.hostKey = "changed", !.revision = @ + 1]
    /\ UNCHANGED <<rows, lock, work, upkeep, timers, attempts, transports, stopping, exits,
                   phase, history, requests>>
Retrying(w, code) ==
    work[w].attempt > 0 /\ work[w].attempt < limit[work[w].session] /\ code = "failure"
RecordFailure(w) ==
    /\ Waits(w, "failing") /\ Stopped(w)
    /\ work[w].code = "mismatch" =>
         ~(target.revision = work[w].targetRevision /\ target.hostKey = "trusted")
    /\ \E code \in {work[w].code, "failure"} :   \* "failure": the cleanup failed too
         LET outcome == IF Retrying(w, code) THEN "reconnecting" ELSE "failed"
         IN  /\ rows' = IF CompletionApplies(w, outcome)
                        THEN Becomes(work[w].session, outcome) ELSE rows
             /\ Return(w, code)
    /\ UNCHANGED <<target, upkeep, timers, attempts, transports, stopping, exits, phase,
                   history, requests>>

\* The rest of runReconnect(), after its attempt: done, tried again, or given up.
FailNothing(s) == rows   \* mutant: the timer goes, the row stays
FailReconnect(s) == IF rows[s].state = "reconnecting" THEN Becomes(s, "failed") ELSE rows
Returned(w) ==
    LET a     == work[w]
        s     == a.session
        timer == timers[s]
        row   == rows[s]
        failed  == timer.id = a.timer /\ a.code # "none" /\ row.state = "reconnecting"
        giveUp  == \/ target.hostKey # "trusted" \/ a.attempt >= limit[s]
                   \/ row.generation = timer.generation /\ row.revision = timer.revision
        again   == ~giveUp /\ row.generation # timer.generation
    IN  /\ Waits(w, "returned")
        /\ work' = [work EXCEPT ![w] = Idle]
        /\ rows' = IF failed /\ giveUp THEN FailReconnect(s) ELSE rows
        /\ timers' = IF timer.id # a.timer THEN timers
                     ELSE IF failed /\ again
                     THEN [timers EXCEPT ![s] =
                            [@ EXCEPT !.generation = row.generation, !.revision = row.revision,
                                      !.attempt = a.attempt + 1, !.armed = ~Disposed]]
                     ELSE Untimed(s)
        /\ UNCHANGED <<target, lock, upkeep, attempts, transports, stopping, exits, phase,
                       history, requests>>

-----------------------------------------------------------------------------
(* Exits of transports.                                                      *)

\* An SSH process exits.  Only the entry that owns its terminal hears of it.
TransportExits(t) ==
    LET s == t[1]  g == t[2]
        owned == Owns(s, g) /\ attempts[s].terminal
    IN  /\ t \in transports \ stopping
        /\ transports' = transports \ {t}
        /\ attempts' = IF owned THEN [attempts EXCEPT ![s] = NoAttempt] ELSE attempts
        /\ exits' = exits \cup
             IF owned
             THEN {[session |-> s, generation |-> g, attempt |-> attempts[s].attempt,
                    settled |-> ~\E w \in Worker : /\ work[w].step = "completing"
                                                   /\ work[w].session = s
                                                   /\ work[w].generation = g]}
             ELSE {}
        /\ UNCHANGED <<durable, lock, work, upkeep, timers, stopping, phase, history, requests>>

\* onExit(), after the lease is revoked.
ExitReported(e) ==
    /\ e \in exits
    /\ exits' = exits \ {e}
    /\ IF e.settled
       THEN RecordExit(e.session, e.generation, e.attempt) /\ UNCHANGED work
       ELSE /\ work' = [w \in Worker |->
                 IF work[w].step = "completing" /\ work[w].session = e.session
                                                /\ work[w].generation = e.generation
                 THEN [work[w] EXCEPT !.exited = TRUE] ELSE work[w]]
            /\ UNCHANGED <<rows, timers, spent>>
    /\ UNCHANGED <<target, lock, upkeep, attempts, transports, stopping, phase,
                   stranded, released, tmux, limit, requests>>

-----------------------------------------------------------------------------
(* Requests on sessions.                                                     *)

Serving == phase = "serving"
LockUnshared == TRUE   \* mutant: the other services take a lock of their own
LockFree == lock = <<>>
Present(s) == rows[s].state # "absent"

\* prepareSession(), under the target's lock.
Prepare(s) ==
    /\ Serving /\ LockFree /\ ~target.deleting /\ target.hostKey # "deleted"
    /\ ~Present(s)
    /\ rows' = [rows EXCEPT ![s] =
         [state |-> IF target.hostKey = "trusted" THEN "credentialRequired" ELSE "trustRequired",
          generation |-> 1, revision |-> 1, mode |-> "create"]]
    /\ UNCHANGED <<target, lock, work, upkeep, timers, attempts, transports, stopping, exits,
                   phase, history, requests>>

\* decideForTarget(), under the target's lock: the key is trusted or rejected.
DecideHostKey(s) ==
    /\ Serving /\ LockFree
    /\ rows[s].state = "trustRequired" /\ target.hostKey # "trusted"
    /\ \E hostKey \in {"trusted", target.hostKey} :
         target' = [target EXCEPT !.hostKey = hostKey, !.revision = @ + 1]
    /\ Requested
    /\ UNCHANGED <<rows, lock, work, upkeep, timers, attempts, transports, stopping, exits,
                   phase, history>>

\* detachSession() or closeSession(), then terminate(): the timer is cancelled
\* and the transport of the generation the row has is stopped.
Release(s, state) ==
    /\ rows' = Becomes(s, state)
    /\ timers' = Untimed(s)
    /\ Terminate(s, rows[s].generation)
    /\ released' = IF state = "detached" THEN [released EXCEPT ![s] = rows[s].generation] ELSE released
    /\ stranded' = stranded \ {s}
    /\ UNCHANGED <<target, lock, work, upkeep, transports, exits, phase, tmux, limit, spent, requests>>
Detach(s) ==
    /\ Serving /\ ~target.deleting
    /\ rows[s].state \in {"connected", "reconnecting"}
    /\ Release(s, "detached")
Close(s) ==
    /\ Serving /\ ~target.deleting
    /\ Present(s) /\ rows[s].state # "closed"
    /\ Release(s, "closed")

\* The same detach or close asked for again, with the same key: the answer of the
\* first one is replayed, and terminate() runs with the generation it names.
ReplayRelease(s) ==
    /\ Serving /\ released[s] # 0
    /\ timers' = Untimed(s)
    /\ Terminate(s, released[s])
    /\ stranded' = IF rows[s].state = "reconnecting" THEN stranded \cup {s} ELSE stranded
    /\ Requested
    /\ UNCHANGED <<durable, lock, work, upkeep, transports, exits, phase, released, tmux, limit, spent>>

\* transferTabBindings(): the session's tab moves, whatever its state.  An
\* attempt or a timer that holds the old revision is left behind.
Transfer(s) ==
    /\ Serving /\ Present(s)
    /\ rows' = Becomes(s, rows[s].state)
    /\ stranded' = IF rows[s].state \in InFlight THEN stranded \cup {s} ELSE stranded
    /\ Requested
    /\ UNCHANGED <<target, lock, work, upkeep, timers, attempts, transports, stopping, exits,
                   phase, released, tmux, limit, spent>>

-----------------------------------------------------------------------------
(* Deletion of the target and replacement of its credential.                 *)

Kept(s) == Present(s) /\ rows[s].state # "closed"
Revocable == {<<s, rows[s].generation>> : s \in {x \in Session : Present(x)}}

\* beginOnlineReplacement() and abortOnlineReplacement(), under the lock.
BeginReplacement ==
    /\ Serving /\ LockFree
    /\ target.hostKey # "deleted" /\ ~target.deleting /\ target.enrolling = 0
    /\ target' = [target EXCEPT !.enrolling = target.revision]
    /\ Requested
    /\ UNCHANGED <<rows, lock, work, upkeep, timers, attempts, transports, stopping, exits,
                   phase, history>>
AbortReplacement ==
    /\ Serving /\ LockFree /\ target.enrolling # 0
    /\ target' = [target EXCEPT !.enrolling = 0]
    /\ UNCHANGED <<rows, lock, work, upkeep, timers, attempts, transports, stopping, exits,
                   phase, history, requests>>

\* delete() or commitOnlineReplacement() queues for the lock.  A pending deletion
\* is resumed before a restarted service serves.
RequestUpkeep(kind) ==
    /\ upkeep = Idle
    /\ \/ Serving /\ target.hostKey # "deleted" /\ Requested
       \/ phase = "recovering" /\ kind = "delete" /\ UNCHANGED requests
    /\ upkeep' = [kind |-> kind, step |-> "waiting", todo |-> {}, revoked |-> {}]
    /\ lock' = Append(lock, Upkeep)
    /\ UNCHANGED <<durable, work, timers, attempts, transports, stopping, exits, phase,
                   history>>

UpkeepEnds == lock' = Tail(lock) /\ upkeep' = Idle

\* beginTargetDeletion() fences the target and its sessions; a commit checks the
\* revision its replacement began with.
UpkeepStarts ==
    LET deletes == upkeep.kind = "delete"
        admitted == IF deletes
                    THEN target.hostKey # "deleted" /\ (target.deleting \/ target.enrolling = 0)
                    ELSE target.enrolling # 0 /\ target.enrolling = target.revision
    IN  /\ upkeep.step = "waiting" /\ Holds(Upkeep)
        /\ UNCHANGED <<work, timers, attempts, transports, stopping, exits, phase,
                       released, tmux, limit, spent, requests>>
        /\ IF ~admitted
           THEN UpkeepEnds /\ UNCHANGED <<durable, stranded>>
           ELSE /\ upkeep' = [upkeep EXCEPT !.step = "revoking", !.todo = Revocable]
                /\ UNCHANGED lock
                /\ IF deletes /\ ~target.deleting
                   THEN /\ target' = [target EXCEPT !.deleting = TRUE]
                        /\ rows' = [s \in Session |->
                             IF Kept(s) THEN Becomes(s, "closed")[s] ELSE rows[s]]
                        /\ stranded' = {}
                   ELSE UNCHANGED <<durable, stranded>>

\* terminate() of the sessions one after the other; each waits for its stop().
RevokesNext(t) ==
    /\ upkeep.revoked \cap stopping = {}
    /\ upkeep' = [upkeep EXCEPT !.todo = @ \ {t}, !.revoked = @ \cup {t}]
    /\ timers' = Untimed(t[1])
    /\ Terminate(t[1], t[2])
    /\ stranded' = IF rows[t[1]].state \in {"connected", "reconnecting"}
                   THEN stranded \cup {t[1]} ELSE stranded
    /\ UNCHANGED <<durable, lock, work, transports, exits, phase, released, tmux, limit, spent, requests>>

\* A revocation or an external cleanup fails: the deletion stays pending, the
\* replacement too.  A recovery that fails ends the service.
UpkeepFails ==
    /\ upkeep.step = "revoking"
    /\ UpkeepEnds
    /\ phase' = IF phase = "recovering" THEN "disposed" ELSE phase
    /\ UNCHANGED <<durable, work, timers, attempts, transports, stopping, exits,
                   history, requests>>

RevokedAll ==
    upkeep.step = "revoking" /\ upkeep.todo = {} /\ upkeep.revoked \cap stopping = {}

\* finishTargetDeletion(); a recovery is over.
FinishDeletion ==
    /\ RevokedAll /\ upkeep.kind = "delete"
    /\ rows' = [s \in Session |-> [rows[s] EXCEPT !.state = "absent"]]
    /\ target' = [target EXCEPT !.hostKey = "deleted", !.deleting = FALSE]
    /\ phase' = IF phase = "recovering" THEN "serving" ELSE phase
    /\ UpkeepEnds
    /\ UNCHANGED <<work, timers, attempts, transports, stopping, exits, history, requests>>

\* commitExact(): every session fails and its generation moves on.  Its own check
\* of the target's revision cannot fail: the lock is held since the first.
CommitReplacement ==
    /\ RevokedAll /\ upkeep.kind = "replace"
    /\ UpkeepEnds
    /\ target' = [target EXCEPT !.enrolling = 0, !.revision = @ + 1]
    /\ rows' = [s \in Session |->
         IF ~Present(s) THEN rows[s]
         ELSE [rows[s] EXCEPT !.state = IF @ = "closed" THEN @ ELSE "failed",
                              !.generation = @ + 1, !.revision = @ + 1]]
    /\ stranded' = {}
    /\ UNCHANGED <<work, timers, attempts, transports, stopping, exits, phase,
                   released, tmux, limit, spent, requests>>

-----------------------------------------------------------------------------
(* Shutdown and restart.                                                     *)

\* dispose() of the activation service, which then waits for the automatic
\* attempts, and of the runtime.
Dispose ==
    /\ Serving /\ Requested
    /\ phase' = "disposing"
    /\ timers' = [s \in Session |-> NoTimer]
    /\ UNCHANGED <<durable, lock, work, upkeep, attempts, transports, stopping, exits,
                   history>>
RuntimeDispose ==
    /\ phase = "disposing"
    /\ {w \in Worker : work[w] # Idle /\ work[w].attempt > 0} = {}
    /\ phase' = "disposed"
    /\ attempts' = [s \in Session |-> NoAttempt]
    /\ stopping' = stopping \cup
         {<<s, attempts[s].generation>> :
            s \in {x \in Session : attempts[x] # NoAttempt /\ attempts[x].terminal}}
    /\ UNCHANGED <<durable, lock, work, upkeep, timers, transports, exits, history, requests>>

\* The process ends, after a shutdown or by a crash, and its SSH processes with
\* it.  reconcileAfterRestart() detaches what was connected or under way; a
\* pending replacement is undone, unless a live resume preserves it; a pending
\* deletion is resumed.
Restart ==
    /\ Requested
    /\ rows' = [s \in Session |->
         IF rows[s].state \in InFlight \cup {"connected"}
         THEN [rows[s] EXCEPT !.state = "detached", !.generation = @ + 1, !.revision = @ + 1]
         ELSE rows[s]]
    /\ target' \in {target, [target EXCEPT !.enrolling = 0]}
    /\ lock' = <<>>
    /\ work' = [w \in Worker |-> Idle]
    /\ upkeep' = Idle
    /\ timers' = [s \in Session |-> NoTimer]
    /\ attempts' = [s \in Session |-> NoAttempt]
    /\ transports' = {} /\ stopping' = {} /\ exits' = {}
    /\ phase' = IF target.deleting THEN "recovering" ELSE "serving"
    /\ stranded' = {}
    /\ UNCHANGED <<released, tmux, limit, spent>>

-----------------------------------------------------------------------------
Activates(w) ==
    \/ Reserve(w) \/ Prepared(w) \/ PreparationFails(w) \/ Spawn(w) \/ SpawnFails(w)
    \/ LaunchReturns(w) \/ Completed(w) \/ CompletionFails(w) \/ RecordEarlyExit(w)
    \/ MarkHostKeyChanged(w) \/ RecordFailure(w) \/ Returned(w)

Requests(s) ==
    \/ Prepare(s) \/ DecideHostKey(s) \/ Detach(s) \/ Close(s) \/ ReplayRelease(s) \/ Transfer(s)

UpkeepStep ==
    \/ UpkeepStarts \/ FinishDeletion \/ CommitReplacement
    \/ upkeep.step = "revoking" /\ \E t \in upkeep.todo : RevokesNext(t)

Next ==
    \/ \E w \in Worker : Activates(w) \/ \E s \in Session : Activate(w, s) \/ TimerFires(w, s)
    \/ \E s \in Session : Requests(s)
    \/ \E t \in transports : TransportExits(t)
    \/ \E e \in exits : ExitReported(e)
    \/ StopEnds
    \/ BeginReplacement \/ AbortReplacement
    \/ \E kind \in {"delete", "replace"} : RequestUpkeep(kind)
    \/ UpkeepStep \/ UpkeepFails
    \/ Dispose \/ RuntimeDispose \/ Restart

Spec == Init /\ [][Next]_vars

\* Waits end: probes, launches and stops are timed, the lock passes on in order,
\* a timer fires.  Requests and generations are bounded, so no step can be put off
\* for ever by others, and one conjunct stands for one of each action.
Internal ==
    \/ \E w \in Worker : Activates(w) \/ \E s \in Session : TimerFires(w, s)
    \/ \E e \in exits : ExitReported(e)
    \/ StopEnds \/ UpkeepStep \/ RuntimeDispose
    \/ phase = "recovering" /\ RequestUpkeep("delete")
Fairness == WF_vars(Internal)
FairSpec == Spec /\ Fairness

-----------------------------------------------------------------------------
(* Properties.                                                               *)

AttemptOf(w, s) ==
    /\ work[w] # Idle /\ work[w].session = s
    /\ work[w].step \notin {"waiting", "returned"}
    /\ work[w].generation = rows[s].generation /\ work[w].revision = rows[s].revision
TimerOf(s) ==
    /\ timers[s] # NoTimer
    /\ \/ TimerIsCurrent(s)
       \/ \E w \in Worker : /\ work[w].step = "returned" /\ work[w].session = s
                            /\ work[w].timer = timers[s].id
Driven(s) ==
    \/ \E w \in Worker : AttemptOf(w, s)
    \/ rows[s].state = "reconnecting" /\ TimerOf(s)

\* While the service runs, a session that is connecting or reconnecting has an
\* attempt or a timer that will move it on; only a step outside activation (a tab
\* transfer, a repeated detach, a replacement that failed) leaves one behind.
InFlightIsDriven ==
    phase = "serving" =>
        \A s \in Session : rows[s].state \in InFlight => s \in stranded \/ Driven(s)

\* A session shown connected has the live transport of its generation, or its exit
\* is on its way to the row.
ConnectedIsLive ==
    phase = "serving" =>
        \A s \in Session : rows[s].state = "connected" /\ s \notin stranded =>
            LET g == rows[s].generation IN
            \/ Owns(s, g) /\ attempts[s].terminal /\ <<s, g>> \in transports \ stopping
            \/ \E e \in exits : e.session = s /\ e.generation = g /\ e.settled
            \/ \E w \in Worker : /\ work[w].step = "exitedEarly" /\ work[w].session = s
                                 /\ work[w].generation = g

\* Every SSH process is in the runtime's map, being stopped, or in the hands of a
\* launch that has not returned: none runs on without an owner.
TransportsAccounted ==
    \A t \in transports :
        \/ t \in stopping
        \/ Owns(t[1], t[2]) /\ attempts[t[1]].terminal
        \/ \E w \in Worker : /\ work[w].step = "spawned" /\ work[w].session = t[1]
                             /\ work[w].generation = t[2]

\* A session that was detached has no timer left, and one that was detached,
\* failed or was closed keeps no transport: what still runs is being stopped.
ReleasedKeepsNothing ==
    \A s \in Session :
        /\ rows[s].state = "detached" => timers[s] = NoTimer
        /\ rows[s].state \in {"detached", "failed", "closed"} /\ ~target.deleting =>
             ~(attempts[s] # NoAttempt /\ attempts[s].terminal)

\* No more automatic attempts are made in a row than the session allows, however
\* often its transport connects for a moment and exits.
BudgetKept == \A s \in Session : spent[s] <= limit[s]

\* A connected session starts to reconnect only when the transport of that
\* connection is gone: no exit or timer of an earlier one overwrites it.
LossIsReal ==
    [][\A s \in Session :
         rows[s].state = "connected" /\ rows'[s].state = "reconnecting"
            => <<s, rows[s].generation>> \notin transports]_vars

\* While an attempt runs, nobody else changes the target it was reserved with:
\* what waits for the target's lock does so for the whole attempt.
TargetHeldStill ==
    [][\A w \in Worker :
         /\ work[w].step \in {"preparing", "replacing", "spawned", "completing"}
         /\ work'[w].step \in {"preparing", "replacing", "spawned", "completing", "failing"}
         => target' = target]_vars

\* Every request for an attempt is answered, unless the service goes down.
AttemptsEnd ==
    \A w \in Worker : work[w].step # "idle" ~> work[w].step = "idle"

\* A reconnecting session gets connected or fails, or is detached or closed; the
\* exceptions are those of InFlightIsDriven and the bound on generations.
ReconnectEnds ==
    \A s \in Session :
        rows[s].state = "reconnecting" ~>
            \/ rows[s].state # "reconnecting" \/ s \in stranded
            \/ rows[s].generation >= MaxGeneration \/ phase # "serving"

\* A connection is launched with new-session at most once: recovery attaches.
NewSessionNotReplayed ==
    [][\A t \in transports' \ transports :
         rows[t[1]].mode = "create" => t[1] \notin tmux]_vars
=============================================================================
