--------------------------- MODULE AgentHibernation ---------------------------
(* One agent session bound to a terminal tab: registered, restored by a      *)
(* process that resumes its thread, and hibernated, which takes a preflight, *)
(* the user's confirmation, and the observed exit of the exact process that  *)
(* the confirmation was about (agent-hibernation-service.ts,                 *)
(* agent-lifecycle-mutations.ts, agent-registration-service.ts), over the    *)
(* runtime that keeps the processes of the tabs (WorkspaceTerminals).        *)
(*                                                                           *)
(* The row is durable; challenges, verified processes and clients are not.   *)
(* Its revision counts transactions: those a transaction passes through are  *)
(* seen by nobody.  Intent and attempt epoch never change without it and are *)
(* left out, as are the operation records that answer a repeated request.    *)
(*                                                                           *)
(* A settled promise runs its continuations before the next event.  When a   *)
(* detachment ends, the exclusive section goes to the next mutation before   *)
(* the confirmation goes on, which is then at "settling": a mutation that    *)
(* was queued and awaits nothing comes between.                              *)
EXTENDS WorkspaceTerminals

CONSTANTS
    AgentTab,
    Client,
    MaxRevision    \* bound on the revisions that requests make; a move makes one more

ASSUME AgentAssumption ==
    /\ AgentTab \in Tab
    /\ MaxRevision \in Nat \ {0}

VARIABLES
    row,          \* agent_sessions
    verified,     \* the process a resume started (verifiedTerminals), or None
    challenge,    \* the revision the retained nonce was issued for, or 0
    clients,      \* who asks to hibernate, and how far the request is
    attempt       \* the restore that awaits its process

agentVars == <<row, verified, challenge, clients, attempt>>
vars      == <<terminalVars, agentVars>>

Away    == [step |-> "idle", revision |-> 0, terminal |-> None, checkpointed |-> FALSE]
NoAttempt == [step |-> "none", revision |-> 0, previous |-> None]

AgentTypeOK ==
    /\ row \in [lifecycle : {"unregistered", "created", "launching", "running",
                             "checkpointing", "hibernated", "completed"},
                hib : {"none", "confirmationRequired", "pending", "hibernated", "failed"},
                revision : Nat, checkpoint : BOOLEAN]
    /\ verified \in Terminal \cup {None}
    /\ challenge \in 0 .. row.revision
    /\ clients \in [Client -> [step : {"idle", "preflighting", "verifying", "waiting",
                                       "detaching", "settling"},
                               revision : Nat, terminal : Terminal \cup {None},
                               checkpointed : BOOLEAN]]
    /\ attempt \in [step : {"none", "probing", "spawning", "ending"},
                    revision : Nat, previous : Terminal \cup {None}]

AgentInit ==
    /\ row = [lifecycle |-> "unregistered", hib |-> "none", revision |-> 0, checkpoint |-> FALSE]
    /\ verified = None
    /\ challenge = 0
    /\ clients = [c \in Client |-> Away]
    /\ attempt = NoAttempt

\* A new profile has one workspace with one terminal.
Init == /\ TerminalInit /\ AgentInit
        /\ Tabs("open") = {AgentTab}

Registered == row.lifecycle # "unregistered"
Bumpable    == row.revision < MaxRevision
Movable     == row.revision <= MaxRevision
Bumped      == [row EXCEPT !.revision = @ + 1]

\* liveBinding(): the tab shows a running process that a resume started.
Live ==
    /\ service = "ready" /\ tabs[AgentTab] = "open"
    /\ sessions[AgentTab] = verified /\ verified # None /\ status[verified] = "live"

\* resetPreparation(), and the challenges of the session are void.
Reset == /\ row' = [Bumped EXCEPT !.lifecycle = IF @ = "checkpointing" THEN "running" ELSE @,
                                  !.hib = "none", !.checkpoint = FALSE]
         /\ challenge' = 0

-----------------------------------------------------------------------------
(* Registration and restore, in the store's exclusive section.               *)

RegisterAgent ==
    /\ Free /\ ~Registered /\ tabs[AgentTab] = "open"
    /\ sessions[AgentTab] # None /\ status[sessions[AgentTab]] = "live"
    /\ row' = [Bumped EXCEPT !.lifecycle = "created"]
    /\ UNCHANGED <<terminalVars, verified, challenge, clients, attempt>>

\* assess() only records what it found.
Assess ==
    /\ Free /\ Registered /\ Bumpable
    /\ row' = Bumped
    /\ UNCHANGED <<terminalVars, verified, challenge, clients, attempt>>

\* assertNotHibernating().
NotHibernating == row.hib \in {"none", "failed", "hibernated"}

Running == [Bumped EXCEPT !.lifecycle = "running", !.hib = "none", !.checkpoint = FALSE]

RestoreLive ==
    /\ Free /\ Registered /\ Bumpable /\ NotHibernating /\ Live
    /\ row' = Running
    /\ UNCHANGED <<terminalVars, verified, challenge, clients, attempt>>

\* The attempt is durable before anything is dispatched.  One whose tab is
\* gone is rejected on the spot.
RestoreBegins ==
    /\ Free /\ Registered /\ Bumpable /\ NotHibernating /\ ~Live
    /\ row' = IF row.lifecycle = "hibernated"
              THEN [Bumped EXCEPT !.lifecycle = "launching", !.hib = "none", !.checkpoint = FALSE]
              ELSE Bumped
    /\ IF tabs[AgentTab] # "open" THEN UNCHANGED <<op, attempt>>
       ELSE /\ op' = [Idle EXCEPT !.kind = "resume"]
            /\ attempt' = [step |-> "probing", revision |-> row'.revision, previous |-> None]
    /\ UNCHANGED <<tabs, sessions, status, exitedOrder, standalone, service, starts,
                   verified, challenge, clients>>

\* replaceAgentTerminal() notes what the tab shows and spawns ...
ResumeSpawns ==
    /\ attempt.step = "probing" /\ service \in {"ready", "disposed"}
    /\ attempt' = [attempt EXCEPT !.step = "spawning", !.previous = sessions[AgentTab]]
    /\ op' = [op EXCEPT !.todo = {AgentTab}]
    /\ UNCHANGED <<tabs, sessions, status, exitedOrder, standalone, service, starts,
                   row, verified, challenge, clients>>

\* ... and puts the new process in its place, which must not have changed.
Resumed ==
    /\ attempt.step = "spawning" /\ Unused # {}
    /\ LET st == [status EXCEPT ![NextId] = Admitted]
       IN IF service # "disposed" /\ sessions[AgentTab] = attempt.previous
          THEN /\ sessions' = [sessions EXCEPT ![AgentTab] = NextId]
               /\ status' = Close(st, {attempt.previous})
               /\ attempt' = [attempt EXCEPT !.step = "ending"]
               /\ op' = [op EXCEPT !.todo = {}]
          ELSE /\ status' = Close(st, {NextId})
               /\ attempt' = NoAttempt /\ op' = Idle
               /\ UNCHANGED sessions
    /\ UNCHANGED <<tabs, exitedOrder, standalone, service, starts, row, verified, challenge, clients>>

\* The thread cannot be resumed, or the spawn fails.
ResumeFails ==
    /\ attempt.step \in {"probing", "spawning"}
    /\ op' = Idle /\ attempt' = NoAttempt
    /\ UNCHANGED <<tabs, sessions, status, exitedOrder, standalone, service, starts,
                   row, verified, challenge, clients>>

\* The process is the session's; the row says so if it still runs.
ResumeEnds ==
    /\ attempt.step = "ending" /\ service \in {"ready", "disposed"}
    /\ op' = Idle /\ attempt' = NoAttempt
    /\ LET shown == IF Held(sessions[AgentTab]) /\ status[sessions[AgentTab]] # "terminating"
                    THEN sessions[AgentTab] ELSE None
       IN /\ sessions' = [sessions EXCEPT ![AgentTab] = shown]
          /\ verified' = IF shown = None THEN verified ELSE shown
          /\ row' = IF shown # None /\ status[shown] = "live" /\ row.revision = attempt.revision
                    THEN Running ELSE row
    /\ UNCHANGED <<tabs, status, exitedOrder, standalone, service, starts, challenge, clients>>

-----------------------------------------------------------------------------
(* Hibernation, which holds the exclusive section for the detachment only.   *)

Preflight(c) ==
    /\ service = "ready" /\ clients[c].step = "idle" /\ Bumpable
    /\ row.lifecycle = "running" /\ row.hib = "none" /\ Live
    /\ clients' = [clients EXCEPT ![c] = [step |-> "preflighting", revision |-> row.revision,
                                          terminal |-> verified, checkpointed |-> FALSE]]
    /\ UNCHANGED <<terminalVars, row, verified, challenge, attempt>>

\* The thread was verified, or not; everything is checked again before the
\* user is asked.
PreflightEnds(c) ==
    /\ clients[c].step = "preflighting"
    /\ clients' = [clients EXCEPT ![c] = Away]
    /\ \/ UNCHANGED <<row, challenge>>
       \/ \E checkpoint \in BOOLEAN :
             /\ row.revision = clients[c].revision /\ Live /\ verified = clients[c].terminal
             /\ row.lifecycle = "running" /\ row.hib = "none" /\ ~row.checkpoint
             /\ row' = [Bumped EXCEPT !.hib = "confirmationRequired", !.checkpoint = checkpoint,
                                      !.lifecycle = IF checkpoint THEN "checkpointing" ELSE @]
             /\ challenge' = row'.revision
    /\ UNCHANGED <<terminalVars, verified, attempt>>

Cancel ==
    /\ service = "ready" /\ row.hib = "confirmationRequired" /\ Bumpable
    /\ Reset
    /\ UNCHANGED <<terminalVars, verified, clients, attempt>>

\* The challenge is consumed and the disposition is durable before anything
\* happens to the process.
Consume(c) ==
    /\ Live /\ challenge = row.revision
    /\ challenge' = 0
    /\ row' = [Bumped EXCEPT !.hib = "pending"]
    /\ clients' = [clients EXCEPT ![c] = [step |-> "waiting", revision |-> row'.revision,
                                          terminal |-> verified, checkpointed |-> row.checkpoint]]

\* A confirmation that comes too late, or whose checkpoint is too old,
\* releases the preflight; one without a checkpoint is acted upon at once.
Confirm(c) ==
    /\ service = "ready" /\ clients[c].step = "idle"
    /\ row.hib = "confirmationRequired" /\ Bumpable
    /\ \/ Reset /\ UNCHANGED clients
       \/ /\ row.checkpoint
          /\ clients' = [clients EXCEPT ![c] = [Away EXCEPT !.step = "verifying",
                                                            !.revision = row.revision]]
          /\ UNCHANGED <<row, challenge>>
       \/ ~row.checkpoint /\ Consume(c)
    /\ UNCHANGED <<terminalVars, verified, attempt>>

\* The thread is verified again, or not.
ConfirmVerified(c) ==
    /\ clients[c].step = "verifying"
    /\ \/ row.revision = clients[c].revision /\ Consume(c)
       \/ /\ clients' = [clients EXCEPT ![c] = Away]
          /\ \/ UNCHANGED <<row, challenge>>
             \/ row.revision = clients[c].revision /\ row.hib = "confirmationRequired" /\ Reset
    /\ UNCHANGED <<terminalVars, verified, attempt>>

\* fail().
Failed == IF row.hib = "pending" THEN [Bumped EXCEPT !.hib = "failed"] ELSE row

\* detachAgentTerminal(), once the section is free: the process, the row and
\* the tab are the ones the confirmation was about, or it fails.
DetachableAny(c) ==   \* mutant: the row is not compared
    /\ service = "ready" /\ sessions[AgentTab] = clients[c].terminal
    /\ status[clients[c].terminal] = "live"
Detachable(c) ==
    /\ service = "ready" /\ sessions[AgentTab] = clients[c].terminal
    /\ status[clients[c].terminal] = "live"
    /\ row.revision = clients[c].revision /\ row.hib = "pending" /\ tabs[AgentTab] = "open"
DetachBegins(c) ==
    /\ clients[c].step = "waiting" /\ op = Idle /\ service \in {"ready", "disposed"}
    /\ IF Detachable(c)
       THEN /\ op' = [Idle EXCEPT !.kind = "detach"]
            /\ sessions' = [sessions EXCEPT ![AgentTab] = None]
            /\ status' = [status EXCEPT ![clients[c].terminal] = "terminating"]
            /\ clients' = [clients EXCEPT ![c].step = "detaching"]
            /\ UNCHANGED row
       ELSE /\ row' = Failed
            /\ clients' = [clients EXCEPT ![c] = Away]
            /\ UNCHANGED <<op, sessions, status>>
    /\ UNCHANGED <<tabs, exitedOrder, standalone, service, starts, verified, challenge, attempt>>

\* The signal cannot be sent, or no exit is seen in five seconds.
TimeoutSettles(c) ==   \* mutant: the timeout counts as an exit
    /\ clients[c].step = "detaching"
    /\ clients' = [clients EXCEPT ![c].step = "settling"]
    /\ UNCHANGED <<terminalVars, row, verified, challenge, attempt>>
NeverTimesOut(c) == FALSE /\ UNCHANGED vars   \* mutant: no timer
DetachUnverified(c) ==
    /\ clients[c].step = "detaching"
    /\ op' = Idle
    /\ row' = Failed
    /\ clients' = [clients EXCEPT ![c] = Away]
    /\ UNCHANGED <<tabs, sessions, status, exitedOrder, standalone, service, starts,
                   verified, challenge, attempt>>

\* A process exits.  If a detachment awaits it, that ends.
Awaits(c, i) == clients[c].step = "detaching" /\ clients[c].terminal = i
Exits(i) ==
    /\ Exit(i, \E c \in Client : Awaits(c, i))
    /\ clients' = [c \in Client |-> IF Awaits(c, i) THEN [clients[c] EXCEPT !.step = "settling"]
                                    ELSE clients[c]]
    /\ UNCHANGED <<op, row, verified, challenge, attempt>>

\* What the user agreed to is on record, unless the row has changed.
Settle(c) ==
    /\ clients[c].step = "settling"
    /\ row' = IF row.revision # clients[c].revision \/ row.hib # "pending" THEN row
              ELSE IF clients[c].checkpointed
                   THEN [Bumped EXCEPT !.lifecycle = "hibernated", !.hib = "hibernated"]
              ELSE [Bumped EXCEPT !.lifecycle = "completed", !.hib = "failed", !.checkpoint = FALSE]
    /\ clients' = [clients EXCEPT ![c] = Away]
    /\ op' = Idle
    /\ UNCHANGED <<tabs, sessions, status, exitedOrder, standalone, service, starts,
                   verified, challenge, attempt>>

-----------------------------------------------------------------------------
(* The rest of the program.                                                  *)

\* moveTabExact() and detachTabExact() of the agent's tab take its row along.
MovesAtOnce == service = "ready"   \* mutant: outside the exclusive section
MutationRuns ==
    service = "ready" /\ (op = Idle \/ \E c \in Client : clients[c].step = "settling")
Transfer ==
    /\ MutationRuns /\ tabs[AgentTab] = "open" /\ Registered /\ Movable
    /\ row' = Bumped
    /\ UNCHANGED <<terminalVars, verified, challenge, clients, attempt>>

\* One that needs a replacement does when that is there.
Detach(t, N) == N # {} /\ DetachTab(t, N) /\ (t = AgentTab => Movable)
Spawns(t) ==
    /\ Spawned(t)
    /\ row' = IF AgentTab \in op.moves /\ Registered /\ sessions'[t] # None THEN Bumped ELSE row
    /\ UNCHANGED <<verified, challenge, clients, attempt>>

Stops ==
    /\ Stop
    /\ verified' = None /\ challenge' = 0 /\ attempt' = NoAttempt
    /\ clients' = [c \in Client |-> Away]
    /\ UNCHANGED row

Aborts == SpawnFails /\ UNCHANGED agentVars

Next ==
    \/ Mutate /\ UNCHANGED agentVars
    \/ \E t \in Tab, N \in Replacement : Detach(t, N) /\ UNCHANGED agentVars
    \/ \E t \in Tab : LookupFails(t) /\ UNCHANGED agentVars
    \/ \E i \in Terminal : DeleteTerminal(i) /\ UNCHANGED agentVars
    \/ CreateStandalone /\ UNCHANGED agentVars
    \/ Dispose /\ UNCHANGED agentVars
    \/ Start /\ UNCHANGED agentVars
    \/ Aborts \/ Stops \/ Transfer
    \/ \E t \in Tab : Spawns(t)
    \/ \E i \in Terminal : Exits(i)
    \/ RegisterAgent \/ Assess \/ RestoreLive \/ RestoreBegins
    \/ ResumeSpawns \/ Resumed \/ ResumeFails \/ ResumeEnds \/ Cancel
    \/ \E c \in Client :
          \/ Preflight(c) \/ PreflightEnds(c) \/ Confirm(c) \/ ConfirmVerified(c)
          \/ DetachBegins(c) \/ DetachUnverified(c) \/ Settle(c)

Spec == Init /\ [][Next]_vars

\* A spawn succeeds or fails, a timer fires, and the exclusive section serves
\* its queue in order.  Nothing else has to happen.
Fairness ==
    /\ WF_vars(Aborts \/ \E t \in Tab : Spawns(t))
    /\ WF_vars(ResumeSpawns \/ Resumed \/ ResumeFails \/ ResumeEnds)
    /\ SF_vars(\E c \in Client : DetachBegins(c))
    /\ WF_vars(\E c \in Client : DetachUnverified(c) \/ Settle(c))
FairSpec == Spec /\ Fairness

-----------------------------------------------------------------------------
TypeOK == TerminalTypeOK /\ AgentTypeOK

\* A tab that stays open keeps the process it shows, unless a mutation or a
\* restore set out to replace it, the service ends, or it is the agent's and
\* the user agreed, at the row's present revision, to end this process.
KeepsProcess ==
    [][\A t \in Tabs("open") :
          /\ sessions[t] # None /\ status[sessions[t]] = "live"
          /\ tabs'[t] = "open" /\ service' = "ready" /\ t \notin op.todo /\ op.made[t] = None
          => \/ sessions'[t] = sessions[t] /\ status'[sessions[t]] \in {"live", "exited", "gone"}
             \/ /\ t = AgentTab /\ row.hib = "pending"
                /\ \E c \in Client : /\ clients[c].step = "waiting"
                                     /\ clients[c].revision = row.revision
                                     /\ clients[c].terminal = sessions[t]]_vars

Disposing(c) == clients[c].step \in {"waiting", "detaching", "settling"}

\* While a process is being ended, the row still is what the user agreed to,
\* the process is the agent's own, no tab shows it, and nobody else ends one.
ConsentStands ==
    /\ op.kind = "detach" <=> \E c \in Client : clients[c].step \in {"detaching", "settling"}
    /\ \A c \in Client : clients[c].step = "detaching" =>
          /\ row.hib = "pending" /\ row.revision = clients[c].revision
          /\ clients[c].terminal = verified /\ verified \notin Owned
    /\ \A c, d \in Client : Disposing(c) /\ Disposing(d) => c = d

\* A restore is never overtaken: nothing changes the row while it awaits its
\* process, so that a process that came up is always recorded.
AttemptStands ==
    /\ op.kind = "resume" <=> attempt.step # "none"
    /\ attempt.step # "none" => row.revision = attempt.revision /\ tabs[AgentTab] = "open"

\* A session is hibernated only when its verified checkpoint is on record and
\* the exit of the very process the user gave up has been seen.
HibernatedIsObserved ==
    [][row'.hib = "hibernated" /\ row.hib # "hibernated" =>
          /\ row.checkpoint
          /\ \E c \in Client : clients[c].step = "settling" /\ status[clients[c].terminal] = "gone"]_vars

\* A confirmation that consumed its challenge ends, and leaves the row with
\* an outcome or to whoever moved it.
ConfirmEnds == (\E c \in Client : Disposing(c)) ~> (\A c \in Client : ~Disposing(c))

\* Refuted: a disposition that is pending has a confirmation that will end it.
DispositionIsDriven ==
    service = "ready" /\ row.hib = "pending" =>
        \E c \in Client : Disposing(c)
=============================================================================
