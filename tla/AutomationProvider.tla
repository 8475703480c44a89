-------------------------- MODULE AutomationProvider --------------------------
(* Both ends of browser automation: the service of BrowserAutomation and the *)
(* provider of a window in Electron main, which polls for requests, handles  *)
(* them side by side and answers (browser-automation-provider.ts), on the    *)
(* sessions, hidden pages and timers that its manager keeps                  *)
(* (browser-automation-manager.ts).                                          *)
(*                                                                           *)
(* Code between two waits of a handler is one step.  An abort rejects what   *)
(* the handler waits for, and what follows runs before the next event: an    *)
(* aborted operation ends in the step that aborts it.  A page is named by    *)
(* the request that opened it.  An answer that the service refuses ends the  *)
(* provider with all its sessions.                                           *)
(*                                                                           *)
(* Time is counted in ticks from a session's last staging; the 30 minutes    *)
(* after which it expires are IdleTime of them.  The manager's own idle time *)
(* is left out: it is as long, and starts when an operation runs, after the  *)
(* staging that gave the session the expiry it already has.                  *)
EXTENDS BrowserAutomation

CONSTANTS
    LocalSessions,   \* sessions and creations per manager (8)
    IdleTime,        \* ticks until a session expires (SESSION_TTL_MS)
    MaxTimeouts      \* no request times out once so many were interrupted

ASSUME LocalAssumption ==
    LocalSessions \in Nat /\ IdleTime \in Nat \ {0} /\ MaxTimeouts \in Nat

VARIABLES
    attached,  \* sessions asked for in attach mode; the others own their page
    left,      \* ticks until the row of a session expires
    carried,   \* the same, in the session snapshot an execute request carries
    active,    \* window -> the provider that runs in Electron main, or NoProvider
    work,      \* request -> its handler in Electron main
    local,     \* the manager's sessions
    open       \* hidden windows and attached pages, by the request that opened them

mainVars == <<active, work, local, open>>
allVars  == <<vars, attached, left, carried, mainVars>>

Time == 0 .. IdleTime

\* A handler: where it waits; a flag that says of a creation that arrived that
\* it waits for its tab, of an opening page that it was aborted, of a failed one
\* that its error is not the manager's own, and of an operation that the page
\* may navigate under it; for an answer, what it says.
Step     == {"idle", "arriving", "asking", "opening", "initializing", "clearing",
             "running", "emptying", "answering"}
Creation == {"asking", "opening", "initializing", "clearing"}
Handler  == [step : Step, flag : BOOLEAN, state : {"none", "ready", "destroyed"} \cup OperationFinal,
             epoch : Navigation]
At(step, flag) == [step |-> step, flag |-> flag, state |-> "none", epoch |-> 1]
Answer(state, epoch) == [step |-> "answering", flag |-> FALSE, state |-> state, epoch |-> epoch]
Idle == At("idle", FALSE)
Done == Idle

\* A session has one page.
LocalSession == [page : SUBSET Request, epoch : Navigation, expires : Time]
NoSession    == [page |-> {}, epoch |-> 1, expires |-> 0]

ProviderTypeOK ==
    /\ attached \subseteq SessionId
    /\ left \in [SessionId -> Time]
    /\ carried \in [OperationId -> Time]
    /\ active \in [Window -> Provider \cup {NoProvider}]
    /\ work \in [Request -> Handler]
    /\ local \in [SessionId -> LocalSession]
    /\ open \subseteq Request

ProviderInit ==
    /\ Init /\ hosted = Window
    /\ attached \in SUBSET SessionId
    /\ left = [s \in SessionId |-> 0]
    /\ carried = [o \in OperationId |-> 0]
    /\ active = [w \in Window |-> NoProvider]
    /\ work = [r \in Request |-> Idle]
    /\ local = [s \in SessionId |-> NoSession]
    /\ open = {}

-----------------------------------------------------------------------------
(* Sessions and handlers of a manager.                                       *)

Has(s)      == local[s].page # {}
Is(r, step) == work[r].step = step
Running(s)  == {o \in DOMAIN operations : operations[o].session = s /\ Is(Execute(o), "running")}

\* Neither the provider nor its manager was stopped.
Serving(r) == \E w \in Window : active[w] = Addressee(r)

\* pendingCreations, of a session and of the whole manager.
CreationsOf(s)  == {r \in Request : work[r].step \in Creation /\ SessionOf(r) = s}
CreationsFor(p) == {r \in Request : work[r].step \in Creation /\ Addressee(r) = p}
SessionsFor(p)  == {s \in DOMAIN sessions : Has(s) /\ sessions[s].provider = p}

\* The epoch and the expiry of the snapshot that came with a request.
SnapshotEpoch(r)  == IF r[1] = "execute" THEN operations[r[2]].navigation ELSE 1
SnapshotExpiry(r) == IF r[1] = "execute" THEN carried[r[2]] ELSE left[SessionOf(r)]

\* acknowledgeFailure(), and the failed answer to a create or destroy.
Failed(r) == Answer("failed", SnapshotEpoch(r))

\* canAcknowledge(): a session that has expired meanwhile gets no answer.
Told(s, state, epoch) == IF local[s].expires > 0 THEN Answer(state, epoch) ELSE Done

\* What destroySession() and dispose() do to a handler they abort: the result
\* of an operation is dropped, a question or an initialization is given up, and
\* a page that is still opening will be closed when it is there.
FailedIf(serving, r) == IF serving THEN Failed(r) ELSE Done
Aborted(r, serving) ==
    CASE Is(r, "running")      -> Done
      [] Is(r, "asking")       -> FailedIf(serving, r)
      [] Is(r, "opening")      -> At("opening", TRUE)
      [] Is(r, "initializing") -> IF SessionOf(r) \in attached THEN FailedIf(serving, r)
                                  ELSE At("clearing", FALSE)
      [] Is(r, "arriving")     -> IF serving THEN work[r] ELSE Done
      [] OTHER                 -> work[r]

\* The sessions in S go, with their pages, creations and operations.
EndRunsOn(S, serving) ==   \* mutant: the operation under way is not aborted
    [r \in Request |->
        IF ~Is(r, "idle") /\ SessionOf(r) \in S /\ ~Is(r, "running") THEN Aborted(r, serving)
        ELSE work[r]]
EndAll(S, serving) ==
    [r \in Request |->
        IF ~Is(r, "idle") /\ SessionOf(r) \in S THEN Aborted(r, serving) ELSE work[r]]
Forgotten(S) == [s \in SessionId |-> IF s \in S THEN NoSession ELSE local[s]]
Closed(S) == {r \in open : /\ \A s \in S : r \notin local[s].page
                           /\ Is(r, "initializing") => SessionOf(r) \notin S}

\* stop(), of a provider that was lost or whose window or hosting goes.
Lose(p) ==
    LET S == {s \in DOMAIN sessions : sessions[s].provider = p}
    IN  /\ active' = [w \in Window |-> IF active[w] = p THEN NoProvider ELSE active[w]]
        /\ local' = Forgotten(S)
        /\ open' = Closed(S)

-----------------------------------------------------------------------------
(* The service, for which Electron main is as BrowserAutomation allows.  Its  *)
(* end is left out: to a provider it is a lost lease, with which polls fail  *)
(* and answers are refused.                                                  *)

\* Handing a request to a poll that is parked is publishing it and then Polls.
Queues == \A r \in Request : mail[r] = "idle" => mail'[r] # "inFlight"

Creates(s, w) == /\ CreateSession(s, w) /\ Queues
                 /\ left' = [left EXCEPT ![s] = IdleTime]
                 /\ UNCHANGED <<attached, carried, mainVars>>

\* The request carries the snapshot that was read before staging renewed the row.
InvokesRenewed(o, s) ==   \* mutant: a snapshot that outlives the row
    /\ Invoke(o, s) /\ Queues
    /\ carried' = [carried EXCEPT ![o] = IdleTime]
    /\ UNCHANGED <<attached, left, mainVars>>
Invokes(o, s) == /\ Invoke(o, s) /\ Queues
                 /\ carried' = [carried EXCEPT ![o] = left[s]]
                 /\ left' = [left EXCEPT ![s] = IdleTime]
                 /\ UNCHANGED <<attached, mainVars>>

ServiceStep ==
    /\ \/ \E w \in Window : LoseProvider(w)
       \/ \E s \in SessionId : DestroySession(s)
       \/ \E o \in OperationId : CancelOperation(o)
       \/ /\ Cardinality({r \in Request : mail[r] = "interrupted"}) < MaxTimeouts
          /\ \E r \in Request : TimesOut(r)
       \/ Reconcile
    /\ Queues
    /\ UNCHANGED <<attached, left, carried, mainVars>>

Earlier(n) == IF n = 0 THEN 0 ELSE n - 1
ExpireRows ==
    [s \in DOMAIN sessions |-> [sessions[s] EXCEPT !.expired = @ \/ (Live(s) /\ left[s] <= 1)]]
Tick ==
    /\ sessions' = ExpireRows
    /\ left' = [s \in SessionId |-> Earlier(left[s])]
    /\ carried' = [o \in OperationId |-> Earlier(carried[o])]
    /\ local' = [s \in SessionId |->
                    IF Has(s) THEN [local[s] EXCEPT !.expires = Earlier(@)] ELSE NoSession]
    /\ UNCHANGED <<hosted, leases, issued, up, operations, handles, mail>>
    /\ UNCHANGED <<attached, active, work, open>>

-----------------------------------------------------------------------------
(* The provider's loop.                                                      *)

\* ensureNodeAutomationForWindow().
Registers(w) ==
    /\ active[w] = NoProvider
    /\ RegisterTrustedWindow(w)
    /\ active' = [active EXCEPT ![w] = issued']
    /\ UNCHANGED <<attached, left, carried, work, local, open>>

\* A poll that fails, or stopNodeAutomationForWindow().
Stops(w) ==
    /\ active[w] # NoProvider
    /\ Lose(active[w])
    /\ work' = EndAll({s \in DOMAIN sessions : sessions[s].provider = active[w]}, FALSE)
    /\ UNCHANGED <<vars, attached, left, carried>>

Waiting == {r \in Request : mail[r] = "queued"}

\* The next poll, with the epochs of the manager's sessions.  Requests come in
\* the order they were published in, a session's destroy last.
Polls(w, taken) ==
    LET p == active[w] IN
    /\ p # NoProvider
    /\ \A r \in Request : Is(r, "arriving") /\ ~work[r].flag => Addressee(r) # p
    /\ \A s \in SessionId : Destroy(s) \in taken =>
          \A r \in Waiting : SessionOf(r) = s => r = Destroy(s)
    /\ Poll(p, [s \in SessionId |-> IF Has(s) THEN local[s].epoch ELSE 1], taken)
    /\ work' = [r \in Request |-> IF r \in taken THEN At("arriving", FALSE) ELSE work[r]]
    /\ UNCHANGED <<attached, left, carried, active, local, open>>

\* An answer reaches the service, which accepts it ...
AcceptedWith(r) ==
    LET a == work[r] IN
    IF r[1] = "execute"
    THEN AcknowledgeOperation(r[2], a.state, a.epoch) \/ AcknowledgeLate(r[2])
    ELSE AcknowledgeSession(r[2], r, a.state)
Accepted(r) ==
    /\ Is(r, "answering")
    /\ AcceptedWith(r)
    /\ work' = [work EXCEPT ![r] = Done]
    /\ UNCHANGED <<attached, left, carried, active, local, open>>

\* ... or not: the entry is gone, the row has moved on, or the epoch is older
\* than the operation's.  A provider that still runs is lost.
Refuses(r) ==
    \/ ~Answers(r)
    \/ r[1] = "execute" /\ Queued(r[2]) /\ ~operations[r[2]].overdue
       /\ work[r].epoch < operations[r[2]].navigation
    \/ r[1] = "create"  /\ sessions[r[2]].state # "creating"
    \/ r[1] = "destroy" /\ sessions[r[2]].state # "destroying"
ProtocolFails(r) ==
    LET p == Addressee(r) IN
    IF Serving(r)
    THEN /\ Lose(p)
         /\ work' = [EndAll({s \in DOMAIN sessions : sessions[s].provider = p}, FALSE)
                     EXCEPT ![r] = Done]
    ELSE work' = [work EXCEPT ![r] = Done] /\ UNCHANGED <<active, local, open>>
Refused(r) ==
    /\ Is(r, "answering") /\ Refuses(r)
    /\ ProtocolFails(r)
    /\ UNCHANGED <<vars, attached, left, carried>>

-----------------------------------------------------------------------------
(* Handlers.                                                                 *)

Goes(r, handler) == work' = [work EXCEPT ![r] = handler]

\* ensureSession() for a session that the manager does not have.
Ensures(r) ==
    LET s == SessionOf(r)
        p == Addressee(r)
        full == Cardinality(SessionsFor(p)) + Cardinality(CreationsFor(p)) >= LocalSessions
    IN  IF CreationsOf(s) # {} \/ full \/ SnapshotExpiry(r) = 0
        THEN Goes(r, Failed(r)) /\ UNCHANGED open
        ELSE IF s \in attached THEN Goes(r, At("asking", FALSE)) /\ UNCHANGED open
        ELSE Goes(r, At("opening", FALSE)) /\ open' = open \cup {r}

\* execute() on session s as it is after ensureSession(): it must not have
\* expired, its page must still be the target, nothing else may run on it, and
\* the page must be the one the caller saw, unless it waits for a URL.
Executes(o, s, ls) ==
    \E valid, navigates, waitsForUrl \in BOOLEAN :
        Goes(Execute(o),
             IF ~valid \/ ls.expires = 0 \/ Running(s) # {} THEN Failed(Execute(o))
             ELSE IF ~waitsForUrl /\ ls.epoch # operations[o].navigation
                  THEN Answer("failed", ls.epoch)
             ELSE At("running", navigates \/ waitsForUrl))

\* createProvision() waits until the tab it attaches to is there, for 5 s.  No
\* creation is registered meanwhile: nothing aborts this one but the loss of
\* its provider, and it takes no place of the manager's.
AwaitsTab(s) ==
    /\ s \in attached
    /\ Is(Create(s), "arriving") /\ ~work[Create(s)].flag
    /\ Goes(Create(s), At("arriving", TRUE))
    /\ UNCHANGED <<vars, attached, left, carried, active, local, open>>

\* The tab is there, or not, or in another window.
BeginCreate(s) ==
    /\ Is(Create(s), "arriving")
    /\ \/ Ensures(Create(s))
       \/ s \in attached /\ Goes(Create(s), Failed(Create(s))) /\ UNCHANGED open
    /\ UNCHANGED <<vars, attached, left, carried, active, local>>

BeginExecute(o) ==
    LET s == operations[o].session IN
    /\ o \in DOMAIN operations /\ Is(Execute(o), "arriving")
    /\ UNCHANGED <<vars, attached, left, carried, active>>
    /\ IF ~Has(s) THEN Ensures(Execute(o)) /\ UNCHANGED local
       ELSE LET ls == [local[s] EXCEPT !.expires = carried[o]]
            IN  /\ local' = [local EXCEPT ![s] = ls]
                /\ Executes(o, s, ls)
                /\ UNCHANGED open

\* cancel() finds nothing while the session of the operation is being created.
BeginCancel(o) ==
    LET s == operations[o].session IN
    /\ o \in DOMAIN operations /\ Is(Withdraw(o), "arriving")
    /\ work' = [work EXCEPT ![Withdraw(o)] = Done,
                            ![Execute(o)] = IF @.step = "running"
                                            THEN Told(s, "canceled", local[s].epoch) ELSE @]
    /\ UNCHANGED <<vars, attached, left, carried, active, local, open>>

BeginDestroy(s) ==
    /\ Is(Destroy(s), "arriving")
    /\ work' = [EndAll({s}, TRUE) EXCEPT
                   ![Destroy(s)] = IF Has(s) /\ s \notin attached THEN At("emptying", FALSE)
                                   ELSE Answer("destroyed", 1)]
    /\ local' = Forgotten({s})
    /\ open' = Closed({s})
    /\ UNCHANGED <<vars, attached, left, carried, active>>

\* The storage of the destroyed page is cleared.
Emptied(s) ==
    /\ Is(Destroy(s), "emptying")
    /\ Goes(Destroy(s), IF Serving(Destroy(s)) THEN Answer("destroyed", 1) ELSE Done)
    /\ UNCHANGED <<vars, attached, left, carried, active, local, open>>

\* A creation has failed and cleaned up.  An execute request that fails with
\* an error other than the manager's own counts as a failure of the protocol.
CreationFails(r, foreign) ==
    IF foreign /\ r[1] = "execute" THEN ProtocolFails(r)
    ELSE Goes(r, FailedIf(Serving(r), r)) /\ open' = open \ {r} /\ UNCHANGED <<active, local>>

\* The user allows the attachment to a tab that is still there, or not.
Approved(r) ==
    /\ Is(r, "asking")
    /\ \/ /\ Goes(r, At("initializing", FALSE))
          /\ open' = open \cup {r}
          /\ UNCHANGED <<active, local>>
       \/ \E foreign \in BOOLEAN : CreationFails(r, foreign)
    /\ UNCHANGED <<vars, attached, left, carried>>

\* The hidden window is there.  It is closed again if the creation was aborted
\* or its target is stale; its own failure closes it as well.
OpenedKeeps(r) ==   \* mutant: an aborted creation leaves its window
    /\ Is(r, "opening")
    /\ Goes(r, IF work[r].flag THEN At("clearing", FALSE) ELSE At("initializing", FALSE))
    /\ UNCHANGED <<vars, attached, left, carried, active, local, open>>
Opened(r) ==
    /\ Is(r, "opening")
    /\ \/ ~work[r].flag /\ Goes(r, At("initializing", FALSE)) /\ UNCHANGED open
       \/ Goes(r, At("clearing", FALSE)) /\ open' = open \ {r}
       \/ Goes(r, At("clearing", TRUE)) /\ open' = open \ {r}
    /\ UNCHANGED <<vars, attached, left, carried, active, local>>

\* The page's instrumentation is attached: the session is there, and the
\* handler goes on with it.
Initialized(r) ==
    LET s  == SessionOf(r)
        ls == [page |-> {r}, epoch |-> SnapshotEpoch(r), expires |-> SnapshotExpiry(r)]
    IN  /\ Is(r, "initializing")
        /\ local' = [local EXCEPT ![s] = ls]
        /\ IF r[1] = "create" THEN Goes(r, Answer("ready", 1)) ELSE Executes(r[2], s, ls)
        /\ UNCHANGED <<vars, attached, left, carried, active, open>>

\* It is not: the page is closed, and the storage of its own is cleared.
NotInitialized(r) ==
    /\ Is(r, "initializing")
    /\ IF SessionOf(r) \in attached THEN \E foreign \in BOOLEAN : CreationFails(r, foreign)
       ELSE Goes(r, At("clearing", TRUE)) /\ open' = open \ {r} /\ UNCHANGED <<active, local>>
    /\ UNCHANGED <<vars, attached, left, carried>>

Cleared(r) ==
    /\ Is(r, "clearing")
    /\ CreationFails(r, work[r].flag)
    /\ UNCHANGED <<vars, attached, left, carried>>

\* An operation succeeds, fails, or meets its own timeout, which is all the
\* same here; nothing is said if its target is no longer valid.
OperationEnds(o) ==
    LET s == operations[o].session IN
    /\ o \in DOMAIN operations /\ Is(Execute(o), "running")
    /\ Goes(Execute(o), Told(s, "succeeded", local[s].epoch)) \/ Goes(Execute(o), Done)
    /\ UNCHANGED <<vars, attached, left, carried, active, local, open>>

\* The page navigates: an operation that does not expect it is stale.
Navigates(s) ==
    /\ Has(s) /\ local[s].epoch < MaxNavigation
    /\ local' = [local EXCEPT ![s].epoch = @ + 1]
    /\ work' = [r \in Request |->
                  IF r \in {Execute(o) : o \in Running(s)} /\ ~work[r].flag
                  THEN Told(s, "failed", local[s].epoch + 1) ELSE work[r]]
    /\ UNCHANGED <<vars, attached, left, carried, active, open>>

\* The timer of scheduleSessionExpiry().
LocalExpires(s) ==
    /\ Has(s) /\ local[s].expires = 0
    /\ work' = EndAll({s}, TRUE)
    /\ local' = Forgotten({s})
    /\ open' = Closed({s})
    /\ UNCHANGED <<vars, attached, left, carried, active>>

-----------------------------------------------------------------------------
Handles(r) ==
    \/ Accepted(r) \/ Refused(r)
    \/ Approved(r) \/ Opened(r) \/ Initialized(r) \/ NotInitialized(r) \/ Cleared(r)
HandlesSession(s) == AwaitsTab(s) \/ BeginCreate(s) \/ BeginDestroy(s) \/ Emptied(s)
HandlesOperation(o) == BeginExecute(o) \/ BeginCancel(o) \/ OperationEnds(o)

ProviderNext ==
    \/ ServiceStep \/ Tick
    \/ \E w \in Window :
          \/ Registers(w) \/ Stops(w)
          \/ \E taken \in {{}} \cup {{r} : r \in Waiting} : Polls(w, taken)
    \/ \E s \in SessionId :
          \/ \E w \in Window : Creates(s, w)
          \/ \E o \in OperationId : Invokes(o, s)
          \/ HandlesSession(s) \/ Navigates(s) \/ LocalExpires(s)
    \/ \E o \in OperationId : HandlesOperation(o)
    \/ \E r \in Request : Handles(r)

ProviderSpec == ProviderInit /\ [][ProviderNext]_allVars

-----------------------------------------------------------------------------
\* No hidden window is left behind, whichever of two handlers ends what the
\* other still opens: every open page belongs to a session of a provider that
\* runs, or to a creation whose handler will settle it (browser-automation-
\* manager.ts:343-362, 456-563).
PagesHeld ==
    /\ \A r \in open : \/ work[r].step \in {"opening", "initializing"}
                       \/ \E s \in SessionId : r \in local[s].page
    /\ \A s \in DOMAIN sessions : Has(s) => local[s].page \subseteq open /\ Serving(Create(s))

\* What runs, runs on a session that the manager still has, and on the page
\* the caller saw unless it may leave it: expiry, destruction, navigation and
\* the loss of the provider each fence it (decision 0010).
RunsFenced ==
    \A o \in DOMAIN operations : Is(Execute(o), "running") =>
        LET s == operations[o].session IN
        /\ Has(s)
        /\ local[s].epoch = operations[o].navigation \/ work[Execute(o)].flag

\* No page outlives the expiry of its session's row, although the expiry that
\* Electron main goes by is that of an earlier snapshot (runtime.ts:125).
ExpiryNotLater == \A s \in DOMAIN sessions : Has(s) => local[s].expires <= left[s]

\* Decision 0010:99-100, which the code refutes: a stale callback gets the
\* terminal result that was persisted.  It is refused, and Electron main takes
\* that for the loss of its provider.
LateAnswerIsHarmless ==
    [][\A o \in DOMAIN operations :
          /\ Is(Execute(o), "answering") /\ ~Is(Execute(o), "answering")'
          /\ ~Queued(o) /\ IsCurrent(Addressee(Execute(o)))
          /\ Serving(Execute(o))
          => Serving(Execute(o))']_allVars

\* Decision 0010:72, which the code refutes: a session expires 30 minutes after
\* its last use.  Its page is gone 30 minutes after the use before, and the
\* next operation gets a blank one.
PageKept ==
    [][\A s \in DOMAIN sessions :
          /\ sessions[s].state = "ready" /\ ~sessions[s].expired /\ left[s] > 0
          /\ Has(s) /\ Serving(Create(s))'
          => Has(s)']_allVars
=============================================================================
