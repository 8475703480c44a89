-------------------------- MODULE BrowserAutomation --------------------------
(* The browser automation service: its durable session and operation rows    *)
(* (durable-records.ts), the handlers that stage, publish and settle them    *)
(* (runtime.ts), the screenshot handles (screenshot-handles.ts), and the     *)
(* owner channel that starts, sweeps and closes it (window-owner-channel.ts).*)
(*                                                                           *)
(* The mailbox appears here as what module ProviderMailbox was shown to      *)
(* implement, OnceDelivery: one status per request.  Requests are named by   *)
(* the row they serve; a session is created and destroyed, an operation      *)
(* executed and canceled, at most once each, under ids that are never        *)
(* reused.  A completion promise resolves inside a handler and its callback  *)
(* runs in the microtask that follows, before any other handler: the row it  *)
(* interrupts changes in the same step.                                      *)
(*                                                                           *)
(* Wall-clock time is two flags, set by the environment at any moment: a     *)
(* session is expired, an operation overdue.                                 *)
EXTENDS Naturals, FiniteSets

CONSTANTS
    Window, SessionId, OperationId,
    MaxPending,          \* capacity of the mailbox (64)
    MaxTransfers,        \* entries screenshot transfers may hold in it (4)
    ProviderSessions,    \* live sessions per provider (8)
    ProfileSessions,     \* live sessions of the profile (16)
    SessionOperations,   \* queued operations per session (32)
    SessionHandles,      \* screenshot handles per session (2)
    ProviderHandles,     \* screenshot handles per provider (8)
    ProfileHandles,      \* screenshot handles of the profile (16)
    MaxProvider,         \* bound on the provider identities issued
    MaxNavigation        \* bound on the navigation epochs

ASSUME CapacityAssumption   == MaxPending \in Nat /\ MaxTransfers \in Nat
ASSUME ProviderAssumption   == MaxProvider \in Nat
ASSUME NavigationAssumption == MaxNavigation \in Nat \ {0}
ASSUME LimitAssumption      == {ProviderSessions, SessionOperations, SessionHandles} \subseteq Nat

NoProvider == 0
Provider   == 1 .. MaxProvider
Navigation == 1 .. MaxNavigation

LiveSession    == {"creating", "ready", "destroying"}
SessionState   == LiveSession \cup {"destroyed", "failed", "expired"}
OperationFinal == {"succeeded", "failed", "canceled", "expired", "interrupted", "resultExpired"}
OperationState == {"queued"} \cup OperationFinal

Create(s)  == <<"create", s>>
Destroy(s) == <<"destroy", s>>
Execute(o) == <<"execute", o>>
Withdraw(o) == <<"cancel", o>>
Request == ({"create", "destroy"} \X SessionId) \cup ({"execute", "cancel"} \X OperationId)

VARIABLES
    hosted,      \* windows placed and not closing in the state snapshot
    leases,      \* window -> its registered provider, or NoProvider
    issued,      \* number of identities issued so far
    up,          \* the owner channel is open
    sessions,    \* rows of browser_automation_sessions
    operations,  \* rows of browser_automation_operations
    handles,     \* operations whose screenshot handle is registered
    mail         \* request -> its status in the mailbox

rows == <<sessions, operations>>
vars == <<hosted, leases, issued, up, sessions, operations, handles, mail>>

Session   == [state : SessionState, provider : Provider, navigation : Navigation,
              expired : BOOLEAN]
Operation == [state : OperationState, session : SessionId, navigation : Navigation,
              overdue : BOOLEAN]
MailStatus == {"idle", "queued", "inFlight", "acknowledged", "interrupted"}

TypeOK ==
    /\ hosted \subseteq Window
    /\ leases \in [Window -> Provider \cup {NoProvider}]
    /\ issued \in 0 .. MaxProvider
    /\ up \in BOOLEAN
    /\ DOMAIN sessions \subseteq SessionId
    /\ sessions \in [DOMAIN sessions -> Session]
    /\ DOMAIN operations \subseteq OperationId
    /\ operations \in [DOMAIN operations -> Operation]
    /\ \A o \in DOMAIN operations : operations[o].session \in DOMAIN sessions
    /\ handles \subseteq DOMAIN operations
    /\ mail \in [Request -> MailStatus]

Init ==
    /\ hosted \in SUBSET Window
    /\ leases = [w \in Window |-> NoProvider]
    /\ issued = 0
    /\ up = TRUE
    /\ sessions = [s \in {} |-> NoProvider]
    /\ operations = [o \in {} |-> NoProvider]
    /\ handles = {}
    /\ mail = [r \in Request |-> "idle"]

-----------------------------------------------------------------------------
(* Rows, leases and pending requests.                                        *)

Live(s)   == sessions[s].state \in LiveSession
Queued(o) == operations[o].state = "queued"
QueuedOf(s)  == {o \in DOMAIN operations : Queued(o) /\ operations[o].session = s}
HandlesOf(s) == {o \in handles : operations[o].session = s}

\* stageOperation checks that an operation carries the fence of its session,
\* and neither row ever changes it: every request is addressed to the provider
\* of the session it serves.
SessionOf(r) == IF r[1] \in {"create", "destroy"} THEN r[2] ELSE operations[r[2]].session
Addressee(r) == sessions[SessionOf(r)].provider

Pending == {r \in Request : mail[r] \in {"queued", "inFlight"}}

IsCurrent(p) == up /\ \E w \in hosted : leases[w] = p
Lapsed == {w \in Window : leases[w] # NoProvider /\ w \notin hosted}
ProvidersOf(W) == {leases[w] : w \in W} \ {NoProvider}

\* The requests revokeProvider removes for the leases of the windows in W.
MailOf(W) == {r \in Pending : Addressee(r) \in ProvidersOf(W)}

-----------------------------------------------------------------------------
(* What one handler does to rows and mailbox.                                *)

\* interrupt(), for every request in R, on the rows the handler left behind.
InterruptSessions(ss, R) ==
    [s \in DOMAIN ss |->
        IF Create(s) \in R /\ ss[s].state = "creating"
        THEN [ss[s] EXCEPT !.state = "failed"]
        ELSE IF Destroy(s) \in R /\ ss[s].state = "destroying"
        THEN [ss[s] EXCEPT !.state = "destroyed"]
        ELSE ss[s]]

IgnoreInterruptedOperations(os, R) == os   \* mutant: no callback on the promise
InterruptOperations(os, R) ==
    [o \in DOMAIN os |->
        IF Execute(o) \in R /\ os[o].state = "queued"
        THEN [os[o] EXCEPT !.state = "interrupted"]
        ELSE os[o]]

Revoke(W) == leases' = [w \in Window |-> IF w \in W THEN NoProvider ELSE leases[w]]

\* publish() of request r once the entries in R are gone: posted is {r}, or {}
\* when the mailbox is full, screenshot transfers included.
PublishOneOver(r, R) ==   \* mutant: off by one at the capacity
    {posted \in {{}, {r}} :
        IF posted = {} THEN Cardinality(Pending \ R) + MaxTransfers > MaxPending
                       ELSE Cardinality(Pending \ R) <= MaxPending}
PublishOutcomes(r, R) ==
    {posted \in {{}, {r}} :
        IF posted = {} THEN Cardinality(Pending \ R) + MaxTransfers >= MaxPending
                       ELSE Cardinality(Pending \ R) < MaxPending}

\* The end of a handler: the requests in posted entered the mailbox, queued or
\* straight into a parked poll, those in R were interrupted or refused, and
\* the callbacks of R find the rows ss and os.
Complete(ss, os, R, posted) ==
    /\ \E inFlight \in SUBSET posted :
          mail' = [r \in Request |->
                     IF r \in inFlight THEN "inFlight"
                     ELSE IF r \in posted THEN "queued"
                     ELSE IF r \in R \cap Pending THEN "interrupted" ELSE mail[r]]
    /\ sessions'   = InterruptSessions(ss, R)
    /\ operations' = InterruptOperations(os, R)

\* stageDestroy, on the sessions in S: their queued operations end with them.
StageDestroySessions(ss, S) ==
    [s \in DOMAIN ss |-> IF s \in S THEN [ss[s] EXCEPT !.state = "destroying"] ELSE ss[s]]
StageDestroyRowOnly(os, S) == os   \* mutant: the session row alone changes
StageDestroyOperations(os, S) ==
    [o \in DOMAIN os |-> IF os[o].state = "queued" /\ os[o].session \in S
                         THEN [os[o] EXCEPT !.state = "interrupted"] ELSE os[o]]
ReleaseSessions(S) == handles' = {o \in handles : operations[o].session \notin S}

-----------------------------------------------------------------------------
(* Electron main, over the private pipe, and the clock.                      *)

\* A window leaves or enters the hosted placements of the state snapshot.
WindowHosted(w) ==
    /\ hosted' = IF w \in hosted THEN hosted \ {w} ELSE hosted \cup {w}
    /\ UNCHANGED <<leases, issued, up, sessions, operations, handles, mail>>

RegisterTrustedWindow(w) ==
    /\ up /\ w \in hosted
    /\ issued < MaxProvider
    /\ issued' = issued + 1
    /\ leases' = [leases EXCEPT ![w] = issued + 1]
    /\ Complete(sessions, operations, MailOf({w}), {})
    /\ UNCHANGED <<hosted, up, handles>>

\* revokeWindow and revokeIfCurrent, and any handler that asks isCurrent()
\* about the provider of a window that is no longer hosted.
LoseProvider(w) ==
    /\ leases[w] # NoProvider
    /\ Revoke({w})
    /\ Complete(sessions, operations, MailOf({w}), {})
    /\ UNCHANGED <<hosted, issued, up, handles>>

\* A claim() that finds no provider, or a staging that fails after it.
ClaimFails ==
    /\ Lapsed # {}
    /\ Revoke(Lapsed)
    /\ Complete(sessions, operations, MailOf(Lapsed), {})
    /\ UNCHANGED <<hosted, issued, up, handles>>

SessionExpires(s) ==
    /\ s \in DOMAIN sessions /\ Live(s) /\ ~sessions[s].expired
    /\ sessions' = [sessions EXCEPT ![s].expired = TRUE]
    /\ UNCHANGED <<hosted, leases, issued, up, operations, handles, mail>>

OperationOverdue(o) ==
    /\ o \in DOMAIN operations /\ Queued(o) /\ ~operations[o].overdue
    /\ operations' = [operations EXCEPT ![o].overdue = TRUE]
    /\ UNCHANGED <<hosted, leases, issued, up, sessions, handles, mail>>

\* A handle expires after 60 s, or its release was confirmed by the provider.
HandleGone(o) ==
    /\ o \in handles
    /\ handles' = handles \ {o}
    /\ UNCHANGED <<hosted, leases, issued, up, sessions, operations, mail>>

-----------------------------------------------------------------------------
(* The caller, over HTTP.                                                    *)

LiveOn(p) == {s \in DOMAIN sessions : Live(s) /\ sessions[s].provider = p}

NewSession(p) ==
    [state |-> "creating", provider |-> p, navigation |-> 1, expired |-> FALSE]

\* createSession: claim the window's lease, stage the row, publish; a refused
\* publish fails the row at once.
CreateSession(s, w) ==
    LET p    == leases[w]
        gone == MailOf(Lapsed)
        staged == [x \in DOMAIN sessions \cup {s} |->
                      IF x = s THEN NewSession(p) ELSE sessions[x]]
    IN  /\ up /\ w \in hosted /\ p # NoProvider
        /\ s \in SessionId \ DOMAIN sessions
        /\ Cardinality(LiveOn(p)) < ProviderSessions
        /\ Cardinality({x \in DOMAIN sessions : Live(x)}) < ProfileSessions
        /\ Revoke(Lapsed)
        /\ \E posted \in PublishOutcomes(Create(s), gone) :
              Complete(staged, operations, gone \cup ({Create(s)} \ posted), posted)
        /\ UNCHANGED <<hosted, issued, up, handles>>

\* invoke: the session must be ready, at the epoch the caller saw, and held by
\* the current provider; staging renews its expiry.
Invoke(o, s) ==
    LET gone == MailOf(Lapsed)
        new  == [state |-> "queued", session |-> s,
                 navigation |-> sessions[s].navigation, overdue |-> FALSE]
        staged == [x \in DOMAIN operations \cup {o} |-> IF x = o THEN new ELSE operations[x]]
    IN  /\ o \in OperationId \ DOMAIN operations
        /\ s \in DOMAIN sessions /\ sessions[s].state = "ready"
        /\ IsCurrent(sessions[s].provider)
        /\ Cardinality(QueuedOf(s)) < SessionOperations
        /\ Revoke(Lapsed)
        /\ \E posted \in PublishOutcomes(Execute(o), gone) :
              Complete([sessions EXCEPT ![s].expired = FALSE], staged,
                       gone \cup ({Execute(o)} \ posted), posted)
        /\ UNCHANGED <<hosted, issued, up, handles>>

\* cancelQueued removes an entry no poll took yet.
Unsent(o) == IF mail[Execute(o)] = "queued" THEN {Execute(o)} ELSE {}

\* cancelOperation: the row first, then the entry if no poll took it yet, then
\* a cancel request for the provider, whose refusal changes nothing.
CancelOperation(o) ==
    LET p      == sessions[operations[o].session].provider
        lapsed == {w \in Lapsed : leases[w] = p}
        gone   == Unsent(o) \cup MailOf(lapsed)
        staged == [operations EXCEPT ![o].state = "canceled"]
    IN  /\ up
        /\ o \in DOMAIN operations /\ Queued(o)
        /\ Revoke(lapsed)
        /\ \E posted \in IF IsCurrent(p) THEN PublishOutcomes(Withdraw(o), gone) ELSE {{}} :
              Complete(sessions, staged, gone, posted)
        /\ UNCHANGED <<hosted, issued, up, handles>>

\* destroySession: entries of the operations it ends stay in the mailbox.
DestroySession(s) ==
    LET gone == MailOf(Lapsed)
    IN  /\ s \in DOMAIN sessions /\ sessions[s].state = "ready"
        /\ IsCurrent(sessions[s].provider)
        /\ Revoke(Lapsed)
        /\ \E posted \in PublishOutcomes(Destroy(s), gone) :
              Complete(StageDestroySessions(sessions, {s}),
                       StageDestroyOperations(operations, {s}),
                       gone \cup ({Destroy(s)} \ posted), posted)
        /\ ReleaseSessions({s})
        /\ UNCHANGED <<hosted, issued, up>>

-----------------------------------------------------------------------------
(* The provider, over HTTP, and the mailbox timers.                          *)

\* A poll first reports the navigation epochs the provider saw, then takes at
\* most one request addressed to it; a refused or empty poll takes none.
Poll(p, seen, taken) ==
    /\ IsCurrent(p)
    /\ \A r \in taken : mail[r] = "queued" /\ Addressee(r) = p
    /\ Cardinality(taken) <= 1
    /\ sessions' = [s \in DOMAIN sessions |->
                      IF sessions[s].provider = p /\ sessions[s].state = "ready"
                         /\ sessions[s].navigation < seen[s]
                      THEN [sessions[s] EXCEPT !.navigation = seen[s]] ELSE sessions[s]]
    /\ mail' = [r \in Request |-> IF r \in taken THEN "inFlight" ELSE mail[r]]
    /\ UNCHANGED <<hosted, leases, issued, up, operations, handles>>

\* validateAcknowledge: the answer of the current provider to a request it holds.
AnswersAny(r) == r \in Pending /\ IsCurrent(Addressee(r))   \* mutant: not yet handed over
Answers(r) == mail[r] = "inFlight" /\ IsCurrent(Addressee(r))

Resolve(r) == mail' = [mail EXCEPT ![r] = "acknowledged"]

\* A terminal row is left as it is, an overdue one expires.
AcknowledgeLate(o) ==
    /\ o \in DOMAIN operations
    /\ Answers(Execute(o))
    /\ \/ ~Queued(o) /\ UNCHANGED operations
       \/ /\ Queued(o) /\ operations[o].overdue
          /\ operations' = [operations EXCEPT ![o].state = "expired"]
    /\ Resolve(Execute(o))
    /\ UNCHANGED <<hosted, leases, issued, up, sessions, handles>>

\* The navigation epoch of a session only moves forward, and only while ready.
Navigated(s, n) ==
    [sessions EXCEPT ![s].navigation =
        IF sessions[s].state = "ready" /\ n > @ THEN n ELSE @]

CommitsLateAnswer(o, outcome, n) ==   \* mutant: a terminal row is written again
    /\ o \in DOMAIN operations
    /\ Answers(Execute(o))
    /\ ~operations[o].overdue
    /\ n >= operations[o].navigation
    /\ operations' = [operations EXCEPT ![o].state = outcome]
    /\ sessions' = Navigated(operations[o].session, n)
CommitsAnswer(o, outcome, n) ==
    /\ o \in DOMAIN operations
    /\ Answers(Execute(o))
    /\ Queued(o) /\ ~operations[o].overdue
    /\ n >= operations[o].navigation
    /\ operations' = [operations EXCEPT ![o].state = outcome]
    /\ sessions' = Navigated(operations[o].session, n)

AcknowledgeOperation(o, outcome, n) ==
    /\ CommitsAnswer(o, outcome, n)
    /\ Resolve(Execute(o))
    /\ UNCHANGED <<hosted, leases, issued, up, handles>>

HandleFits(s) ==
    /\ sessions[s].state = "ready"
    /\ Cardinality(HandlesOf(s)) < SessionHandles
    /\ Cardinality({o \in handles : Addressee(Execute(o)) = sessions[s].provider})
         < ProviderHandles
    /\ Cardinality(handles) < ProfileHandles

\* A screenshot's handle is validated inside the transaction and registered
\* after it.  The registration validates again: when the handle's own expiry
\* passes in between, it throws with the row committed and the entry in flight.
AcknowledgeScreenshot(o, n) ==
    /\ CommitsAnswer(o, "succeeded", n)
    /\ HandleFits(operations[o].session)
    /\ \/ handles' = handles \cup {o} /\ Resolve(Execute(o))
       \/ UNCHANGED <<handles, mail>>
    /\ UNCHANGED <<hosted, leases, issued, up>>

\* acknowledgeSession, for a create and for a destroy.
AcknowledgeSession(s, request, outcome) ==
    /\ s \in DOMAIN sessions
    /\ Answers(request)
    /\ \/ /\ request = Create(s) /\ sessions[s].state = "creating"
          /\ outcome \in {"ready", "failed"}
       \/ /\ request = Destroy(s) /\ sessions[s].state = "destroying"
          /\ outcome \in {"destroyed", "failed"}
    /\ sessions' = [sessions EXCEPT ![s].state = outcome]
    /\ Resolve(request)
    /\ UNCHANGED <<hosted, leases, issued, up, operations, handles>>

\* The request's own timer (120 s, or 30 s for a cancel).
TimesOutQueued(r) ==   \* mutant: handing a request over clears its timer
    /\ mail[r] = "queued"
    /\ Complete(sessions, operations, {r}, {})
    /\ UNCHANGED <<hosted, leases, issued, up, handles>>
TimesOut(r) ==
    /\ r \in Pending
    /\ Complete(sessions, operations, {r}, {})
    /\ UNCHANGED <<hosted, leases, issued, up, handles>>

-----------------------------------------------------------------------------
(* reconcile(), once a second.  It asks isCurrent() about the provider of    *)
(* every live row, which revokes those that lapsed; it ends the operations   *)
(* that are overdue, or whose provider or entry is gone; it destroys the     *)
(* sessions that expired, and ends those whose provider or entry is gone.    *)

LapsedLive == {w \in Lapsed : \E s \in DOMAIN sessions : Live(s) /\ sessions[s].provider = leases[w]}

KeepsOperation(o) ==
    /\ ~operations[o].overdue
    /\ IsCurrent(Addressee(Execute(o)))
    /\ Execute(o) \in Pending

DroppedOperations == {o \in DOMAIN operations : Queued(o) /\ ~KeepsOperation(o)}

KeepsOrphan(s) ==   \* mutant: the sweep does not ask about the provider
    CASE sessions[s].state = "ready"      -> ~sessions[s].expired
      [] sessions[s].state = "creating"   -> ~sessions[s].expired /\ Create(s) \in Pending
      [] sessions[s].state = "destroying" -> Destroy(s) \in Pending
KeepsSession(s) ==
    /\ IsCurrent(sessions[s].provider)
    /\ CASE sessions[s].state = "ready"      -> ~sessions[s].expired
         [] sessions[s].state = "creating"   -> ~sessions[s].expired /\ Create(s) \in Pending
         [] sessions[s].state = "destroying" -> Destroy(s) \in Pending

DroppedSessions == {s \in DOMAIN sessions : Live(s) /\ ~KeepsSession(s)}

\* Ready sessions of a current provider that expired are destroyed properly.
Expiring == {s \in DroppedSessions : sessions[s].state = "ready" /\ IsCurrent(sessions[s].provider)}

\* cancelSession: everything pending for the session.
QueuedMailOfSession(s) ==   \* mutant: what the provider holds is spared
    {r \in Pending : SessionOf(r) = s /\ mail[r] = "queued"}
MailOfSession(s) == {r \in Pending : SessionOf(r) = s}

EndedState(s) ==
    IF sessions[s].state = "ready" /\ ~IsCurrent(sessions[s].provider) THEN "failed"
    ELSE IF sessions[s].expired THEN "expired" ELSE "failed"

ReconcileSessions ==
    [s \in DOMAIN sessions |->
        IF s \in DroppedSessions \ Expiring
        THEN [sessions[s] EXCEPT !.state = EndedState(s)]
        ELSE sessions[s]]

ReconcileOperations ==
    [o \in DOMAIN operations |->
        IF o \in DroppedOperations
        THEN [operations[o] EXCEPT !.state = IF operations[o].overdue THEN "expired"
                                                                      ELSE "interrupted"]
        ELSE operations[o]]

\* Everything reconcile takes out of the mailbox.
ReconcileMail ==
    MailOf(LapsedLive)
    \cup (Pending \cap {Execute(o) : o \in DroppedOperations})
    \cup (Pending \cap {Create(s)  : s \in DroppedSessions})
    \cup (Pending \cap {Destroy(s) : s \in DroppedSessions})
    \cup UNION {MailOfSession(s) : s \in Expiring}

\* The destroys it publishes, in some order, until the mailbox is full.
ReconcilePosts ==
    {posted \in SUBSET {Destroy(s) : s \in Expiring} :
        /\ Cardinality(Pending \ ReconcileMail) + Cardinality(posted) <= MaxPending
        /\ posted # {Destroy(s) : s \in Expiring} =>
              Cardinality(Pending) + Cardinality(Expiring) + MaxTransfers > MaxPending}

Reconcile ==
    /\ up
    /\ Revoke(LapsedLive)
    /\ \E posted \in ReconcilePosts :
          Complete(StageDestroySessions(ReconcileSessions, Expiring),
                   StageDestroyOperations(ReconcileOperations, Expiring),
                   ReconcileMail \cup ({Destroy(s) : s \in Expiring} \ posted), posted)
    /\ ReleaseSessions(DroppedSessions)
    /\ UNCHANGED <<hosted, issued, up>>

-----------------------------------------------------------------------------
(* The owner channel closes, the process dies, a new one starts.             *)

\* recoverAfterRestart.
Recover ==
    /\ sessions' = [s \in DOMAIN sessions |->
          CASE sessions[s].state = "ready" -> [sessions[s] EXCEPT !.state = "expired"]
            [] sessions[s].state \in {"creating", "destroying"}
                                           -> [sessions[s] EXCEPT !.state = "failed"]
            [] OTHER                       -> sessions[s]]
    /\ operations' = [o \in DOMAIN operations |->
          IF Queued(o) THEN [operations[o] EXCEPT !.state = "interrupted"] ELSE operations[o]]
    /\ handles' = {}

LoseMemory ==
    /\ up' = FALSE
    /\ leases' = [w \in Window |-> NoProvider]
    /\ mail' = [r \in Request |-> IF r \in Pending THEN "interrupted" ELSE mail[r]]
    /\ UNCHANGED <<hosted, issued>>

\* close: the authority is disposed, the rows recovered, the database closed;
\* the callbacks of the interrupted promises find it closed.
Close == up /\ LoseMemory /\ Recover

\* The process dies: rows keep whatever was committed, nothing else survives.
Crash == up /\ LoseMemory /\ handles' = {} /\ UNCHANGED rows

Start == ~up /\ up' = TRUE /\ Recover /\ UNCHANGED <<hosted, leases, issued, mail>>

-----------------------------------------------------------------------------
Next ==
    \/ \E w \in Window : WindowHosted(w) \/ RegisterTrustedWindow(w) \/ LoseProvider(w)
    \/ ClaimFails
    \/ \E s \in SessionId :
          \/ SessionExpires(s)
          \/ DestroySession(s)
          \/ \E w \in Window : CreateSession(s, w)
          \/ \E o \in OperationId : Invoke(o, s)
          \/ \E request \in {Create(s), Destroy(s)}, outcome \in SessionState :
                AcknowledgeSession(s, request, outcome)
    \/ \E o \in OperationId :
          \/ OperationOverdue(o) \/ HandleGone(o) \/ CancelOperation(o) \/ AcknowledgeLate(o)
          \/ \E n \in Navigation :
                \/ AcknowledgeScreenshot(o, n)
                \/ \E outcome \in OperationFinal : AcknowledgeOperation(o, outcome, n)
    \/ \E p \in Provider, seen \in [SessionId -> Navigation],
          taken \in {{}} \cup {{r} : r \in Request} : Poll(p, seen, taken)
    \/ \E r \in Request : TimesOut(r)
    \/ Reconcile
    \/ Close \/ Crash \/ Start

Spec == Init /\ [][Next]_vars
-----------------------------------------------------------------------------
(* What the service guarantees.                                              *)

\* A queued operation belongs to a ready session: no path ends a session and
\* leaves one of its operations queued, and none is staged on another one.
LiveOpHasReadySession ==
    \A o \in DOMAIN operations : Queued(o) => sessions[operations[o].session].state = "ready"

\* While the process is up, every row that waits for the provider has its
\* request in the mailbox, whose timer will end it: no revocation, refusal,
\* sweep or answer takes the entry and leaves the row waiting.
LiveWorkIsPending ==
    up => /\ \A o \in DOMAIN operations : Queued(o) => Execute(o) \in Pending
          /\ \A s \in DOMAIN sessions :
                /\ sessions[s].state = "creating"   => Create(s)  \in Pending
                /\ sessions[s].state = "destroying" => Destroy(s) \in Pending

\* A screenshot handle can be read only while its session is ready, and only
\* for an operation that succeeded.
HandlesOwned ==
    \A o \in handles : /\ operations[o].state = "succeeded"
                       /\ sessions[operations[o].session].state = "ready"

\* No row and no request outnumbers its limit, whatever order they come in.
WithinLimits ==
    /\ Cardinality(Pending) <= MaxPending
    /\ \A p \in Provider : Cardinality(LiveOn(p)) <= ProviderSessions
    /\ \A s \in DOMAIN sessions : /\ Cardinality(QueuedOf(s)) <= SessionOperations
                                  /\ Cardinality(HandlesOf(s)) <= SessionHandles

\* A terminal row is never written again: a late answer, a late timer, a sweep
\* or a restart cannot change an outcome a caller may have seen.
OutcomeIsFinal ==
    [][/\ \A o \in DOMAIN operations :
             ~Queued(o) => operations'[o].state = operations[o].state
       /\ \A s \in DOMAIN sessions :
             ~Live(s) => sessions'[s].state = sessions[s].state]_vars

\* Answers and polls may report navigation epochs out of order; the session's
\* epoch never moves back, so an operation is never staged at an older page.
NavigationAdvances ==
    [][\A s \in DOMAIN sessions : sessions'[s].navigation >= sessions[s].navigation]_vars

\* Expiry cancels all the session's pending work before the view is cleaned up
\* (decision 0010): a sweep leaves nothing pending for it but its destroy, and
\* no operation or cancel request enters the mailbox for a session that is not
\* ready, so that nothing follows it.  Until the sweep an expired session is
\* ready, and an operation staged on it renews it.
ExpiryFencesWork ==
    [][/\ Reconcile => \A r \in Pending : SessionOf(r) \in Expiring =>
                            mail'[r] = "interrupted"
       /\ \A o \in OperationId : \A r \in {Execute(o), Withdraw(o)} :
             r \in Pending' \ Pending =>
                 sessions'[operations'[o].session].state = "ready"]_vars

\* Every request is delivered at most once and settled once, across sweeps,
\* revocations and restarts.
Delivery == INSTANCE OnceDelivery WITH status <- mail
DeliversOnce == Delivery!Spec

-----------------------------------------------------------------------------
(* Liveness, while the process stays up: timers fire and the sweep runs.     *)

FairSpec == Spec /\ WF_vars(Reconcile) /\ \A r \in Request : WF_vars(TimesOut(r))

OperationWaits(o) == up /\ o \in DOMAIN operations /\ Queued(o)
SessionWaits(s) == up /\ s \in DOMAIN sessions /\ sessions[s].state \in {"creating", "destroying"}
Orphan(s) == up /\ s \in DOMAIN sessions /\ Live(s)
             /\ \A w \in Window : leases[w] # sessions[s].provider

\* A staged operation, creation or destruction is eventually resolved, whatever
\* the provider and its window do.
WorkIsResolved ==
    /\ \A o \in OperationId : []<>~OperationWaits(o)
    /\ \A s \in SessionId : []<>~SessionWaits(s)

\* A session whose provider lost its lease does not stay live.
OrphansEnd == \A s \in SessionId : []<>~Orphan(s)
=============================================================================
