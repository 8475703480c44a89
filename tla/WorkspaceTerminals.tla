-------------------------- MODULE WorkspaceTerminals --------------------------
(* Which processes run behind the terminal tabs: the runtime that spawns,    *)
(* binds and retires a PTY around each durable mutation of the tabs          *)
(* (workspace-terminal-runtime.ts) and the service that holds the PTYs       *)
(* (terminal-service.ts).                                                    *)
(*                                                                           *)
(* Mutations run one at a time in the store's exclusive section: op is the   *)
(* one that awaits its processes, and everything between two awaits is one   *)
(* step.  Exits, POST and DELETE /v1/terminals, lookups, disposal and the    *)
(* death of the service come at any time.  A tab id is used once.  Panes,    *)
(* workspaces and tabs without a terminal are left out: whether a close      *)
(* needs a replacement terminal, and which tabs it takes, is any choice.     *)
EXTENDS Naturals, Sequences, FiniteSets
LOCAL INSTANCE Functions

CONSTANTS
    Tab,
    MaxTerminals,    \* bound on the processes ever spawned
    MaxRetained,     \* exited terminals kept (MAX_RETAINED_EXITED_SESSIONS)
    MaxStarts        \* bound on the starts of the service

ASSUME TerminalAssumption ==
    /\ IsFiniteSet(Tab)
    /\ MaxTerminals \in Nat \ {0}
    /\ MaxRetained \in Nat
    /\ MaxStarts \in Nat \ {0}

Terminal == 1 .. MaxTerminals
None     == 0

\* A terminal is registered while the service holds its session; "terminating"
\* after terminateObserved(), "exited" once its exit event was handled.  A
\* killed process was signalled and forgotten, a gone one had exited before.
Status     == {"unused", "live", "terminating", "exited", "killed", "gone"}
Attached   == {"live", "terminating", "exited"}

VARIABLES
    tabs,          \* the durable terminal tabs: "fresh", "open" or "closed"
    sessions,      \* the runtime's map: tab -> terminal, or None
    status,        \* terminal -> Status
    exitedOrder,   \* terminals in the order of their exits
    standalone,    \* terminals that POST /v1/terminals created
    op,            \* the mutation in the exclusive section
    service,       \* "stopped", "starting", "ready", "disposed"
    starts

terminalVars == <<tabs, sessions, status, exitedOrder, standalone, op, service, starts>>

\* todo: tabs whose process is still to be spawned; made: the processes so far;
\* closes: tabs that the commit removes; moves: tabs it moves elsewhere.
Nothing   == [t \in Tab |-> None]
Idle      == [kind |-> "none", todo |-> {}, made |-> Nothing, closes |-> {}, moves |-> {}]
Operation == [kind : {"none", "mutation", "restore", "resume", "detach"},
              todo : SUBSET Tab, made : [Tab -> Terminal \cup {None}],
              closes : SUBSET Tab, moves : SUBSET Tab]
Mutation(todo, closes, moves) ==
    [kind |-> "mutation", todo |-> todo, made |-> Nothing, closes |-> closes, moves |-> moves]

TerminalTypeOK ==
    /\ tabs \in [Tab -> {"fresh", "open", "closed"}]
    /\ sessions \in [Tab -> Terminal \cup {None}]
    /\ status \in [Terminal -> Status]
    /\ exitedOrder \in Seq(Terminal) /\ Len(exitedOrder) <= MaxRetained
    /\ standalone \subseteq Terminal
    /\ op \in Operation
    /\ service \in {"stopped", "starting", "ready", "disposed"}
    /\ starts \in 0 .. MaxStarts

TerminalInit ==
    /\ tabs \in [Tab -> {"fresh", "open"}]
    /\ sessions = Nothing
    /\ status = [i \in Terminal |-> "unused"]
    /\ exitedOrder = <<>>
    /\ standalone = {}
    /\ op = Idle
    /\ service = "stopped"
    /\ starts = 0

Tabs(state) == {t \in Tab : tabs[t] = state}
Owned       == {sessions[t] : t \in Tab} \ {None}
Made        == {op.made[t] : t \in Tab} \ {None}
Unused      == {i \in Terminal : status[i] = "unused"}
NextId      == CHOOSE i \in Unused : \A j \in Unused : i <= j
Held(i)     == i # None /\ status[i] \in Attached
Free        == service = "ready" /\ op = Idle

-----------------------------------------------------------------------------
(* The terminal service.                                                     *)

\* close() on each terminal of S that is registered; on another one it throws,
\* which every caller here catches and logs.
Close(st, S) ==
    [i \in Terminal |->
        IF i \notin S THEN st[i]
        ELSE IF st[i] \in {"live", "terminating"} THEN "killed"
        ELSE IF st[i] = "exited" THEN "gone" ELSE st[i]]

\* register(): a process that was spawned while the service was disposed is
\* killed at once and the caller gets an error.
Admitted == IF service = "disposed" THEN "killed" ELSE "live"

\* exit(): the terminal joins the exited ones; the oldest beyond the limit are
\* removed if they are still registered.  One whose termination is observed is
\* removed by the continuation of its exit event.
Exit(i, observed) ==
    LET order   == Append(exitedOrder, i)
        surplus == Len(order) > MaxRetained
        st      == [status EXCEPT ![i] = IF observed THEN "gone" ELSE "exited"]
    IN /\ status[i] \in {"live", "terminating"}
       /\ exitedOrder' = IF surplus THEN Tail(order) ELSE order
       /\ status' = IF surplus /\ st[Head(order)] = "exited"
                    THEN [st EXCEPT ![Head(order)] = "gone"] ELSE st
       /\ UNCHANGED <<tabs, sessions, standalone, service, starts>>

\* POST /v1/terminals.
CreateStandalone ==
    /\ service \in {"ready", "disposed"} /\ Unused # {}
    /\ status' = [status EXCEPT ![NextId] = Admitted]
    /\ standalone' = standalone \cup {NextId}
    /\ UNCHANGED <<tabs, sessions, exitedOrder, op, service, starts>>

\* DELETE /v1/terminals/:id, refused for a terminal that a tab owns.  The ids
\* of processes that a mutation has not committed yet are known to no client.
Deletable(i) == service = "ready" /\ Held(i) /\ i \notin Owned
DeleteTerminal(i) ==
    /\ Deletable(i) /\ i \notin Made
    /\ status' = Close(status, {i})
    /\ UNCHANGED <<tabs, sessions, exitedOrder, standalone, op, service, starts>>

\* dispose(), the last thing the service does to its terminals.
Dispose ==
    /\ service = "ready"
    /\ service' = "disposed"
    /\ status' = Close(status, Terminal)
    /\ UNCHANGED <<tabs, sessions, exitedOrder, standalone, op, starts>>

\* The service dies, of itself or after its disposal: the kernel hangs its
\* PTYs up, and no process is left.  Only the tabs are durable.
Stop ==
    /\ service # "stopped"
    /\ service' = "stopped"
    /\ status' = [i \in Terminal |-> IF i \in Unused THEN "unused" ELSE "killed"]
    /\ sessions' = Nothing
    /\ standalone' = {}
    /\ exitedOrder' = <<>>
    /\ op' = Idle
    /\ UNCHANGED <<tabs, starts>>

-----------------------------------------------------------------------------
(* The runtime's map of tabs.                                                *)

\* sessionForTab() drops a terminal the service no longer has, or is ending.
LookupFails(t) ==
    /\ service = "ready" /\ sessions[t] # None
    /\ status[sessions[t]] \notin {"live", "exited"}
    /\ sessions' = [sessions EXCEPT ![t] = None]
    /\ UNCHANGED <<tabs, status, exitedOrder, standalone, op, service, starts>>

\* The outcome of a mutation whose processes are all there.  The commit may
\* fail, or find that the request was applied before: then the new processes
\* are closed.  Otherwise the tabs are bound to them and what the tabs had is
\* retired.
RollbackKeeps(made, st) ==   \* mutant: a failed commit leaves its process
    /\ status' = st
    /\ UNCHANGED <<tabs, sessions>>
Rollback(made, st) ==
    /\ status' = Close(st, {made[t] : t \in Tab})
    /\ UNCHANGED <<tabs, sessions>>

Retired(made) == {sessions[t] : t \in op.closes \cup {u \in Tab : made[u] # None}}
CommitRetires(made, st) ==   \* mutant: the retired are those of every open tab
    /\ sessions' = [t \in Tab |-> IF made[t] # None THEN made[t]
                                  ELSE IF t \in op.closes THEN None ELSE sessions[t]]
    /\ tabs' = [t \in Tab |-> IF made[t] # None THEN "open"
                              ELSE IF t \in op.closes THEN "closed" ELSE tabs[t]]
    /\ status' = Close(st, Owned)
Commit(made, st) ==
    /\ sessions' = [t \in Tab |-> IF made[t] # None THEN made[t]
                                  ELSE IF t \in op.closes THEN None ELSE sessions[t]]
    /\ tabs' = [t \in Tab |-> IF made[t] # None THEN "open"
                              ELSE IF t \in op.closes THEN "closed" ELSE tabs[t]]
    /\ status' = Close(st, Retired(made))

\* A process for tab t is there.  The last one of a mutation takes it to its
\* outcome; a restoration binds each at once and makes the service ready.
Spawned(t) ==
    LET made == [op.made EXCEPT ![t] = NextId]
        st   == [status EXCEPT ![NextId] = Admitted]
    IN /\ op.kind \in {"mutation", "restore"} /\ t \in op.todo /\ Unused # {}
       /\ IF service = "disposed" THEN Rollback(op.made, st) /\ op' = Idle /\ UNCHANGED service
          ELSE IF op.todo # {t} THEN
               /\ status' = st
               /\ op' = [op EXCEPT !.todo = @ \ {t}, !.made = made]
               /\ UNCHANGED <<tabs, sessions, service>>
          ELSE /\ op' = Idle
               /\ \/ Commit(made, st) /\ service' = "ready"
                  \/ op.kind = "mutation" /\ Rollback(made, st) /\ UNCHANGED service
       /\ UNCHANGED <<exitedOrder, standalone, starts>>

\* A spawn fails: what the operation made is closed.  A failed restoration
\* ends the service.
SpawnFails ==
    /\ op.kind \in {"mutation", "restore"}
    /\ Rollback(op.made, status)
    /\ op' = Idle
    /\ service' = IF op.kind = "restore" THEN "stopped" ELSE service
    /\ UNCHANGED <<exitedOrder, standalone, starts>>

\* Mutations that await a process ...
Begin(todo, closes, moves) ==
    /\ Free
    /\ op' = Mutation(todo, closes, moves)
    /\ UNCHANGED <<tabs, sessions, status, exitedOrder, standalone, service, starts>>
\* ... and those that need none, which are one step.
Apply(closes) ==
    /\ Free
    /\ tabs' = [t \in Tab |-> IF t \in closes THEN "closed" ELSE tabs[t]]
    /\ sessions' = [t \in Tab |-> IF t \in closes THEN None ELSE sessions[t]]
    /\ status' = Close(status, {sessions[t] : t \in closes})
    /\ UNCHANGED <<exitedOrder, standalone, op, service, starts>>

\* createWorkspace(), openTerminalTab(), duplicateTabExact(), splitPane().
OpenTab(t) == tabs[t] = "fresh" /\ Begin({t}, {}, {})
\* A closed tab is reopened under a new id; prepare(), adopt() and close().
ReopenTab(t) == Tabs("closed") # {} /\ tabs[t] = "fresh" /\ Begin({t}, {}, {})

\* closeTab(), closePane(), closeWorkspace() and closeSelectedWorkspaces(): N
\* is the replacement of what would else be empty.
CloseTabs(S, N) ==
    /\ S \subseteq Tabs("open") /\ S # {}
    /\ IF N = {} THEN Apply(S) ELSE N \subseteq Tabs("fresh") /\ Begin(N, S, {})
\* closeWindowWorkspaces() never replaces.
CloseWindow(S) == S \subseteq Tabs("open") /\ S # {} /\ Apply(S)

\* detachTabExact(): the tab keeps its terminal and moves to a new workspace.
DetachTab(t, N) ==
    /\ tabs[t] = "open"
    /\ IF N = {} THEN Apply({}) ELSE N \subseteq Tabs("fresh") /\ Begin(N, {}, {t})

\* restartTerminal() needs a terminal to replace.
RestartTerminal(t) ==
    /\ tabs[t] = "open" /\ sessions[t] # None /\ status[sessions[t]] \in {"live", "exited"}
    /\ Begin({t}, {}, {})

\* applyLayout(): tabs in K stay as they are, if they have a terminal; those
\* in R and N get a new one; every other tab goes.
ApplyLayout(K, R, N) ==
    /\ K \subseteq Tabs("open") /\ R \subseteq Tabs("open") \ K /\ N \subseteq Tabs("fresh")
    /\ \A t \in K : sessions[t] # None /\ status[sessions[t]] \in {"live", "exited"}
    /\ LET closes == Tabs("open") \ (K \cup R)
       IN IF R \cup N = {} THEN Apply(closes) ELSE Begin(R \cup N, closes, {})

\* restore() spawns the terminals of the open tabs when the service starts.
Start ==
    /\ service = "stopped" /\ starts < MaxStarts
    /\ starts' = starts + 1
    /\ service' = IF Tabs("open") = {} THEN "ready" ELSE "starting"
    /\ op' = IF Tabs("open") = {} THEN Idle
             ELSE [Mutation(Tabs("open"), {}, {}) EXCEPT !.kind = "restore"]
    /\ UNCHANGED <<tabs, sessions, status, exitedOrder, standalone>>

\* What any client may ask for.
Replacement == {{}} \cup {{t} : t \in Tab}
Mutate ==
    \/ \E t \in Tab : OpenTab(t) \/ ReopenTab(t) \/ RestartTerminal(t)
    \/ \E S \in SUBSET Tab, N \in Replacement : CloseTabs(S, N)
    \/ \E S \in SUBSET Tab : CloseWindow(S)
    \/ \E K \in SUBSET Tab, R \in SUBSET Tab, N \in SUBSET Tab : ApplyLayout(K, R, N)

-----------------------------------------------------------------------------
(* A process never outlives its owner: every running one belongs to an open  *)
(* tab, to a mutation that will bind or close it, or to the client that      *)
(* asked for it; and none runs once the service is disposed.  The owner is   *)
(* one: no two tabs share a terminal, and a client's is no tab's.            *)
NoStrayProcess ==
    /\ \A i \in Terminal :
          status[i] = "live" =>
              /\ service \in {"starting", "ready"}
              /\ i \in Made \cup standalone \cup {sessions[t] : t \in Tabs("open")}
    /\ \A t, u \in Tab : sessions[t] # None /\ sessions[t] = sessions[u] => t = u
    /\ Made \cap standalone = {} /\ Owned \cap (Made \cup standalone) = {}

=============================================================================
