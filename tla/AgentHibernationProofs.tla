------------------------ MODULE AgentHibernationProofs ------------------------
(* Proofs about the agent session over the runtime of the terminals, for any *)
(* number of tabs, processes, starts and clients.                            *)
EXTENDS AgentHibernation, WellFoundedInduction, TLAPS

\* Who has a process: ss are the tabs' terminals, mk those a mutation made, sa
\* those of the clients.  Each process has one owner, and one that was never
\* spawned has none; only an open tab shows one.
OwnersOK(ss, mk, sa, st) ==
    /\ \A t, u \in Tab : ss[t] # None /\ ss[t] = ss[u] => t = u
    /\ \A t, u \in Tab : mk[t] # None /\ mk[t] = mk[u] => t = u
    /\ \A t, u \in Tab : ss[t] # None => ss[t] # mk[u]
    /\ \A t \in Tab : ss[t] \notin sa /\ mk[t] \notin sa
    /\ \A t \in Tab : ss[t] # None => st[ss[t]] # "unused"
    /\ \A t \in Tab : mk[t] # None => st[mk[t]] # "unused"
    /\ \A i \in sa : st[i] # "unused"

\* A process that runs has an owner.
LiveOwned(ss, mk, sa, st) ==
    \A i \in Terminal : st[i] = "live" =>
        i \in sa \/ \E t \in Tab : ss[t] = i \/ mk[t] = i

\* What the exclusive section and the service agree on.
SectionOK ==
    /\ op.kind \notin {"mutation", "restore"} => op.made = Nothing
    /\ \A t \in op.todo : op.made[t] = None
    /\ op.kind = "restore" <=> service = "starting"
    /\ service = "stopped" => op.kind = "none"
    /\ service \in {"stopped", "starting"} => sessions = Nothing /\ standalone = {}
    /\ service \notin {"starting", "ready"} => \A i \in Terminal : status[i] # "live"

TerminalInv ==
    /\ TerminalTypeOK
    /\ SectionOK
    /\ OwnersOK(sessions, op.made, standalone, status)
    /\ LiveOwned(sessions, op.made, standalone, status)
    /\ \A t \in Tab : sessions[t] # None => tabs[t] = "open"

\* A resume holds the section over the tab it began with, and over a row that
\* neither a request nor a preflight can change.
AttemptInv ==
    /\ AttemptStands
    /\ attempt.step = "spawning" => op.todo = {AgentTab}
    /\ attempt.step # "none" => /\ NotHibernating
                                /\ verified = None \/ sessions[AgentTab] # verified
                                       \/ status[verified] # "live"
    /\ verified # None => status[verified] # "unused"

\* A challenge names the revision it was issued for only while the user is
\* asked.  A confirmation that consumed it is the only one, keeps the row
\* pending, and is about the process that the resume verified.
ConsentInv ==
    /\ challenge = row.revision /\ challenge > 0 => row.hib = "confirmationRequired"
    /\ row.revision = 0 => row.hib = "none"
    /\ \A c \in Client : clients[c].step = "verifying" => clients[c].revision > 0
    /\ \A c \in Client : Disposing(c) =>
          /\ row.hib = "pending"
          /\ clients[c].terminal = verified /\ verified # None
          /\ clients[c].checkpointed = row.checkpoint
    /\ \A c \in Client : clients[c].step = "settling" => status[verified] = "gone"
    /\ ConsentStands

IInv == TerminalInv /\ AgentTypeOK /\ AttemptInv /\ ConsentInv

-----------------------------------------------------------------------------
(* What the helpers of the runtime return.                                   *)

\* The id of a new process is one that was never used.
LEMMA NextIdUnused ==
    Unused # {} => NextId \in Terminal /\ NextId # None /\ status[NextId] = "unused"
<1> SUFFICES ASSUME Unused # {} PROVE NextId \in Unused
  BY TerminalAssumption DEF Unused, Terminal, None
<1>1. Unused \subseteq Nat
  BY TerminalAssumption DEF Unused, Terminal
<1>2. PICK i \in Unused : \A j \in Unused : ~ (<<j, i>> \in OpToRel(<, Nat))
  BY <1>1, NatLessThanWellFounded, WFMin, Zenon
<1>3. \A j \in Unused : ~ (j < i)
  BY <1>1, <1>2, Zenon DEF OpToRel
<1>4. \A j \in Unused : i <= j
  BY <1>1, <1>3
<1> QED BY <1>2, <1>4 DEF NextId

\* close() ends what runs in S and nothing else, and brings nothing to life.
LEMMA CloseFacts ==
    ASSUME NEW st \in [Terminal -> Status], NEW S
    PROVE  /\ Close(st, S) \in [Terminal -> Status]
           /\ \A i \in Terminal :
                /\ i \notin S => Close(st, S)[i] = st[i]
                /\ Close(st, S)[i] = "unused" <=> st[i] = "unused"
                /\ Close(st, S)[i] = "live" <=> st[i] = "live" /\ i \notin S
                /\ st[i] = "gone" => Close(st, S)[i] = "gone"
  BY DEF Close, Status

\* A process that is admitted was not there before and has no owner yet.
LEMMA AdmittedFacts ==
    ASSUME TerminalTypeOK, Unused # {}
    PROVE  /\ [status EXCEPT ![NextId] = Admitted] \in [Terminal -> Status]
           /\ \A i \in Terminal : i # NextId => [status EXCEPT ![NextId] = Admitted][i] = status[i]
           /\ [status EXCEPT ![NextId] = Admitted][NextId] = Admitted
           /\ Admitted \in {"live", "killed"} /\ (Admitted = "live" <=> service # "disposed")
  BY NextIdUnused DEF TerminalTypeOK, Admitted, Status

\* An exit ends one process; another changes only if it had exited before.
LEMMA ExitFacts ==
    ASSUME TerminalTypeOK, NEW i \in Terminal, NEW observed \in BOOLEAN, Exit(i, observed)
    PROVE  /\ status' \in [Terminal -> Status]
           /\ exitedOrder' \in Seq(Terminal) /\ Len(exitedOrder') <= MaxRetained
           /\ observed => status'[i] = "gone"
           /\ \A j \in Terminal :
                /\ status'[j] = "unused" <=> status[j] = "unused"
                /\ status'[j] = "live" => status[j] = "live"
                /\ status[j] = "live" => status'[j] \in {"live", "exited", "gone"}
                /\ status[j] = "gone" => status'[j] = "gone"
<1> DEFINE order == Append(exitedOrder, i)
           st    == [status EXCEPT ![i] = IF observed THEN "gone" ELSE "exited"]
<1>1. /\ exitedOrder \in Seq(Terminal) /\ Len(exitedOrder) <= MaxRetained
      /\ status \in [Terminal -> Status] /\ status[i] \in {"live", "terminating"}
  BY DEF TerminalTypeOK, Exit
<1>2. /\ order \in Seq(Terminal) /\ Len(order) = Len(exitedOrder) + 1
      /\ Head(order) \in Terminal
  BY <1>1
<1>3. /\ exitedOrder' = IF Len(order) > MaxRetained THEN Tail(order) ELSE order
      /\ status' = IF Len(order) > MaxRetained /\ st[Head(order)] = "exited"
                   THEN [st EXCEPT ![Head(order)] = "gone"] ELSE st
  BY DEF Exit
<1>4. st \in [Terminal -> Status]
  BY <1>1 DEF Status
<1> HIDE DEF order
<1>5. exitedOrder' \in Seq(Terminal) /\ Len(exitedOrder') <= MaxRetained
  BY <1>1, <1>2, <1>3, TerminalAssumption
<1>6. status' \in [Terminal -> Status]
  BY <1>2, <1>3, <1>4 DEF Status
<1>7. QED BY <1>1, <1>2, <1>3, <1>4, <1>5, <1>6

-----------------------------------------------------------------------------
(* The runtime keeps every running process owned, and by one owner.          *)

\* The parts of an operation.
LEMMA OperationParts ==
    ASSUME TerminalTypeOK
    PROVE  /\ op.made \in [Tab -> Terminal \cup {None}] /\ op.todo \subseteq Tab
           /\ op.kind \in {"none", "mutation", "restore", "resume", "detach"}
           /\ op.closes \subseteq Tab /\ op.moves \subseteq Tab
           /\ sessions \in [Tab -> Terminal \cup {None}]
           /\ status \in [Terminal -> Status] /\ None \notin Terminal
           /\ standalone \subseteq Terminal
           /\ Nothing \in [Tab -> Terminal \cup {None}] /\ \A t \in Tab : Nothing[t] = None
           /\ Idle \in Operation /\ Idle.made = Nothing /\ Idle.todo = {} /\ Idle.kind = "none"
  BY TerminalAssumption DEF TerminalTypeOK, Operation, Nothing, Idle, Terminal, None

\* What is closed is no longer live, and stays with whoever had it.
LEMMA ReleaseKeepsOwners ==
    ASSUME TerminalInv, NEW S,
           NEW ss \in [Tab -> Terminal \cup {None}], NEW mk \in [Tab -> Terminal \cup {None}],
           \A t \in Tab : ss[t] = sessions[t] \/ (ss[t] = None /\ sessions[t] \in S \cup {None}),
           \A t \in Tab : mk[t] = op.made[t] \/ (mk[t] = None /\ op.made[t] \in S \cup {None})
    PROVE  /\ OwnersOK(ss, mk, standalone, Close(status, S))
           /\ LiveOwned(ss, mk, standalone, Close(status, S))
<1>1. status \in [Terminal -> Status] /\ standalone \subseteq Terminal
  BY DEF TerminalInv, TerminalTypeOK
<1>2. /\ OwnersOK(sessions, op.made, standalone, status)
      /\ LiveOwned(sessions, op.made, standalone, status)
  BY DEF TerminalInv
<1>3. \A i \in Terminal :
        /\ Close(status, S)[i] = "unused" <=> status[i] = "unused"
        /\ Close(status, S)[i] = "live" <=> status[i] = "live" /\ i \notin S
  BY <1>1, CloseFacts
<1>4. None \notin Terminal
  BY TerminalAssumption DEF Terminal, None
<1>5. OwnersOK(ss, mk, standalone, Close(status, S))
  BY <1>1, <1>2, <1>3, <1>4 DEF OwnersOK
<1>6. LiveOwned(ss, mk, standalone, Close(status, S))
  BY <1>2, <1>3, <1>4 DEF LiveOwned
<1>7. QED BY <1>5, <1>6

\* Closing processes disturbs no owner.
LEMMA CloseKeepsOwners ==
    ASSUME TerminalInv, NEW S
    PROVE  /\ OwnersOK(sessions, op.made, standalone, Close(status, S))
           /\ LiveOwned(sessions, op.made, standalone, Close(status, S))
<1>1. /\ sessions \in [Tab -> Terminal \cup {None}]
      /\ op.made \in [Tab -> Terminal \cup {None}]
  BY OperationParts DEF TerminalInv
<1>2. QED BY <1>1, ReleaseKeepsOwners

\* The terminal service's own steps.
LEMMA ServiceKeepsOwners ==
    ASSUME TerminalInv,
           \/ CreateStandalone \/ Dispose \/ Stop \/ Start
           \/ \E i \in Terminal : DeleteTerminal(i)
           \/ \E t \in Tab : LookupFails(t)
    PROVE  TerminalInv'
<1> USE OperationParts DEF TerminalInv
<1>1. CASE CreateStandalone
  <2> USE <1>1 DEF CreateStandalone
  <2>1. NextId \in Terminal /\ NextId # None /\ status[NextId] = "unused"
    BY NextIdUnused
  <2>2. /\ status' \in [Terminal -> Status]
        /\ \A i \in Terminal : i # NextId => status'[i] = status[i]
        /\ status'[NextId] = Admitted /\ Admitted \in {"live", "killed"}
        /\ Admitted = "live" <=> service # "disposed"
    BY AdmittedFacts
  <2>3. TerminalTypeOK'
    BY <2>1, <2>2 DEF TerminalTypeOK
  <2>4. SectionOK'
    BY <2>1, <2>2 DEF SectionOK
  <2>5. OwnersOK(sessions, op.made, standalone', status')
    BY <2>1, <2>2 DEF OwnersOK, TerminalTypeOK
  <2>6. LiveOwned(sessions, op.made, standalone', status')
    BY <2>1, <2>2 DEF LiveOwned
  <2>7. QED BY <2>3, <2>4, <2>5, <2>6
<1>2. CASE Dispose
  <2> USE <1>2 DEF Dispose
  <2>1. /\ status' \in [Terminal -> Status]
        /\ \A i \in Terminal : status'[i] # "live"
    BY CloseFacts
  <2>2. TerminalTypeOK'
    BY <2>1 DEF TerminalTypeOK
  <2>3. SectionOK'
    BY <2>1 DEF SectionOK
  <2>4. /\ OwnersOK(sessions, op.made, standalone, status')
        /\ LiveOwned(sessions, op.made, standalone, status')
    BY CloseKeepsOwners
  <2>5. QED BY <2>2, <2>3, <2>4
<1>3. CASE Stop
  <2> USE <1>3 DEF Stop
  <2>1. /\ status' \in [Terminal -> Status]
        /\ \A i \in Terminal : status'[i] # "live"
    BY DEF Unused, Status
  <2>2. TerminalTypeOK'
    BY <2>1, TerminalAssumption DEF TerminalTypeOK
  <2>3. SectionOK'
    BY <2>1 DEF SectionOK
  <2>4. OwnersOK(Nothing, Nothing, {}, status') /\ LiveOwned(Nothing, Nothing, {}, status')
    BY <2>1 DEF OwnersOK, LiveOwned
  <2>5. QED BY <2>2, <2>3, <2>4
<1>4. CASE Start
  <2> USE <1>4 DEF Start
  <2>1. op' \in Operation /\ op'.made = Nothing /\ op'.kind \in {"none", "restore"}
        /\ (op'.kind = "restore" <=> service' = "starting")
    BY DEF Operation, Mutation, Tabs, Idle
  <2>2. TerminalTypeOK'
    BY <2>1, TerminalAssumption DEF TerminalTypeOK
  <2>3. op.made = Nothing
    BY DEF SectionOK
  <2>4. SectionOK'
    BY <2>1, <2>2, OperationParts DEF SectionOK, TerminalTypeOK, Operation
  <2>5. QED BY <2>1, <2>2, <2>3, <2>4
<1>5. ASSUME NEW i \in Terminal, DeleteTerminal(i) PROVE TerminalInv'
  <2> USE <1>5 DEF DeleteTerminal
  <2>1. status' \in [Terminal -> Status] /\ \A j \in Terminal : status'[j] = "live" => status[j] = "live"
    BY CloseFacts
  <2>2. TerminalTypeOK'
    BY <2>1 DEF TerminalTypeOK
  <2>3. SectionOK'
    BY <2>1 DEF SectionOK
  <2>4. /\ OwnersOK(sessions, op.made, standalone, Close(status, {i}))
        /\ LiveOwned(sessions, op.made, standalone, Close(status, {i}))
    BY CloseKeepsOwners
  <2>5. QED BY <2>2, <2>3, <2>4
<1>6. ASSUME NEW t \in Tab, LookupFails(t) PROVE TerminalInv'
  <2> USE <1>6 DEF LookupFails
  <2>1. TerminalTypeOK'
    BY DEF TerminalTypeOK
  <2>2. SectionOK'
    BY DEF SectionOK
  <2>3. \A u \in Tab : \/ sessions'[u] = sessions[u]
                       \/ sessions'[u] = None /\ status[sessions[u]] \notin {"live", "exited"}
    OBVIOUS
  <2>4. OwnersOK(sessions', op.made, standalone, status)
    BY <2>3 DEF OwnersOK
  <2>5. LiveOwned(sessions', op.made, standalone, status)
    BY <2>3 DEF LiveOwned
  <2>6. QED BY <2>1, <2>2, <2>3, <2>4, <2>5
<1>7. QED BY <1>1, <1>2, <1>3, <1>4, <1>5, <1>6

\* A mutation that awaits a process takes the section and nothing else.
LEMMA BeginKeepsOwners ==
    ASSUME TerminalInv, NEW todo \in SUBSET Tab, NEW closes \in SUBSET Tab,
           NEW moves \in SUBSET Tab, Begin(todo, closes, moves)
    PROVE  TerminalInv'
<1> USE OperationParts DEF TerminalInv, Begin
<1>1. op' \in Operation /\ op'.made = Nothing /\ op'.kind = "mutation"
  BY DEF Mutation, Operation
<1>2. op.made = Nothing
  BY DEF Free
<1>3. TerminalTypeOK'
  BY <1>1 DEF TerminalTypeOK
<1>4. SectionOK'
  BY <1>1, <1>2, <1>3, OperationParts DEF SectionOK, TerminalTypeOK, Operation, Free
<1>5. QED BY <1>1, <1>2, <1>3, <1>4

\* One that awaits none closes the terminals of the tabs it takes.
LEMMA ApplyKeepsOwners ==
    ASSUME TerminalInv, NEW closes \in SUBSET Tab, Apply(closes)
    PROVE  TerminalInv'
<1> USE OperationParts DEF TerminalInv, Apply
<1> DEFINE S == {sessions[t] : t \in closes}
<1>1. sessions' \in [Tab -> Terminal \cup {None}]
  OBVIOUS
<1>2. /\ OwnersOK(sessions', op.made, standalone, Close(status, S))
      /\ LiveOwned(sessions', op.made, standalone, Close(status, S))
  <2>1. \A t \in Tab : sessions'[t] = sessions[t] \/ (sessions'[t] = None /\ sessions[t] \in S \cup {None})
    OBVIOUS
  <2> HIDE DEF S
  <2>2. QED BY <1>1, <2>1, ReleaseKeepsOwners
<1>3. status' \in [Terminal -> Status] /\ \A i \in Terminal : status'[i] = "live" => status[i] = "live"
  BY CloseFacts
<1>4. TerminalTypeOK'
  BY <1>1, <1>3 DEF TerminalTypeOK
<1>5. SectionOK'
  BY <1>3 DEF SectionOK, Free
<1>6. \A t \in Tab : sessions'[t] # None => tabs'[t] = "open"
  OBVIOUS
<1>7. QED BY <1>2, <1>4, <1>5, <1>6

\* Whatever a client asks of the tabs, a mutation begins or is applied.
LEMMA MutationsAreTwo ==
    ASSUME Mutate \/ \E t \in Tab, N \in Replacement : Detach(t, N)
    PROVE  \/ \E todo, closes, moves \in SUBSET Tab : Begin(todo, closes, moves)
           \/ \E closes \in SUBSET Tab : Apply(closes)
<1>1. CASE \E t \in Tab : OpenTab(t) \/ ReopenTab(t) \/ RestartTerminal(t)
  BY <1>1 DEF OpenTab, ReopenTab, RestartTerminal
<1>2. CASE \E S \in SUBSET Tab, N \in Replacement : CloseTabs(S, N)
  BY <1>2 DEF CloseTabs, Replacement, Tabs
<1>3. CASE \E S \in SUBSET Tab : CloseWindow(S)
  BY <1>3 DEF CloseWindow
<1>4. ASSUME NEW K \in SUBSET Tab, NEW R \in SUBSET Tab, NEW N \in SUBSET Tab,
             ApplyLayout(K, R, N)
      PROVE  \/ \E todo, closes, moves \in SUBSET Tab : Begin(todo, closes, moves)
             \/ \E closes \in SUBSET Tab : Apply(closes)
  <2>1. /\ Tabs("open") \ (K \cup R) \in SUBSET Tab /\ R \cup N \in SUBSET Tab
        /\ {} \in SUBSET Tab
    BY DEF Tabs
  <2>2. \/ Apply(Tabs("open") \ (K \cup R))
        \/ Begin(R \cup N, Tabs("open") \ (K \cup R), {})
    BY <1>4 DEF ApplyLayout
  <2>3. QED BY <2>1, <2>2
<1>5. CASE \E t \in Tab, N \in Replacement : Detach(t, N)
  BY <1>5 DEF Detach, DetachTab, Replacement
<1>6. QED BY <1>1, <1>2, <1>3, <1>4, <1>5 DEF Mutate

LEMMA MutateKeepsOwners ==
    ASSUME TerminalInv,
           Mutate \/ \E t \in Tab, N \in Replacement : Detach(t, N)
    PROVE  TerminalInv'
  BY MutationsAreTwo, BeginKeepsOwners, ApplyKeepsOwners

\* A process that comes up has an owner before anything else happens.
LEMMA SpawnedKeepsOwners ==
    ASSUME TerminalInv, NEW t \in Tab, Spawned(t)
    PROVE  TerminalInv'
<1> USE OperationParts DEF TerminalInv
<1> DEFINE made == [op.made EXCEPT ![t] = NextId]
           st   == [status EXCEPT ![NextId] = Admitted]
<1>1. /\ op.kind \in {"mutation", "restore"} /\ t \in op.todo /\ Unused # {}
      /\ UNCHANGED <<exitedOrder, standalone, starts>>
      /\ \/ service = "disposed" /\ Rollback(op.made, st) /\ op' = Idle /\ UNCHANGED service
         \/ /\ service # "disposed" /\ op.todo # {t} /\ status' = st
            /\ op' = [op EXCEPT !.todo = @ \ {t}, !.made = made]
            /\ UNCHANGED <<tabs, sessions, service>>
         \/ service # "disposed" /\ op' = Idle /\ Commit(made, st) /\ service' = "ready"
         \/ /\ service # "disposed" /\ op' = Idle /\ op.kind = "mutation" /\ Rollback(made, st)
            /\ UNCHANGED service
  BY DEF Spawned
<1>2. NextId \in Terminal /\ NextId # None /\ status[NextId] = "unused"
  BY <1>1, NextIdUnused
<1>3. /\ st \in [Terminal -> Status]
      /\ \A i \in Terminal : i # NextId => st[i] = status[i]
      /\ st[NextId] \in {"live", "killed"} /\ (st[NextId] = "live" <=> service # "disposed")
  BY <1>1, AdmittedFacts
<1>4. /\ made \in [Tab -> Terminal \cup {None}]
      /\ made[t] = NextId /\ \A u \in Tab : u # t => made[u] = op.made[u]
      /\ op.made[t] = None
  BY <1>1, <1>2 DEF SectionOK
<1>5. /\ \A u \in Tab : sessions[u] # NextId /\ op.made[u] # NextId
      /\ NextId \notin standalone
  BY <1>2 DEF OwnersOK
<1>6. OwnersOK(sessions, made, standalone, st)
  BY <1>2, <1>3, <1>4, <1>5 DEF OwnersOK
<1>7. LiveOwned(sessions, made, standalone, st)
  BY <1>2, <1>3, <1>4 DEF LiveOwned
<1> HIDE DEF made, st
<1>8. CASE service = "disposed" /\ Rollback(op.made, st) /\ op' = Idle /\ UNCHANGED service
  <2>1. /\ status' \in [Terminal -> Status]
        /\ \A i \in Terminal : status'[i] # "live" /\ (status'[i] = "unused" <=> st[i] = "unused")
    BY <1>3, <1>8, CloseFacts DEF Rollback, SectionOK
  <2>2. TerminalTypeOK'
    BY <1>1, <1>8, <2>1 DEF TerminalTypeOK, Rollback
  <2>3. SectionOK'
    BY <1>8, <2>1 DEF SectionOK, Rollback
  <2>4. OwnersOK(sessions, Nothing, standalone, status') /\ LiveOwned(sessions, Nothing, standalone, status')
    BY <1>6, <2>1 DEF OwnersOK, LiveOwned
  <2>5. QED BY <1>1, <1>8, <2>2, <2>3, <2>4 DEF Rollback
<1>9. CASE /\ service # "disposed" /\ op.todo # {t} /\ status' = st
           /\ op' = [op EXCEPT !.todo = @ \ {t}, !.made = made]
           /\ UNCHANGED <<tabs, sessions, service>>
  <2>1. /\ op' \in Operation /\ op'.made = made /\ op'.todo = op.todo \ {t} /\ op'.kind = op.kind
    BY <1>4, <1>9 DEF TerminalTypeOK, Operation
  <2>2. TerminalTypeOK'
    BY <1>1, <1>3, <1>9, <2>1 DEF TerminalTypeOK
  <2>3. service \in {"ready", "starting"}
    BY <1>1, <1>9 DEF SectionOK, TerminalTypeOK
  <2>4. \A u \in op'.todo : op'.made[u] = None
    BY <1>4, <2>1 DEF SectionOK
  <2>5. SectionOK'
    BY <1>1, <1>9, <2>1, <2>3, <2>4 DEF SectionOK
  <2>6. QED BY <1>1, <1>6, <1>7, <1>9, <2>1, <2>2, <2>5
<1>10. CASE service # "disposed" /\ op' = Idle /\ Commit(made, st) /\ service' = "ready"
  <2>1. /\ status' \in [Terminal -> Status]
        /\ \A i \in Terminal : /\ status'[i] = "unused" <=> st[i] = "unused"
                               /\ status'[i] = "live" <=> st[i] = "live" /\ i \notin Retired(made)
    BY <1>3, <1>10, CloseFacts DEF Commit
  <2>2. \A u \in Tab : /\ made[u] # None => sessions'[u] = made[u] /\ tabs'[u] = "open"
                       /\ made[u] = None /\ u \in op.closes => sessions'[u] = None
                       /\ made[u] = None /\ u \notin op.closes =>
                            sessions'[u] = sessions[u] /\ tabs'[u] = tabs[u]
    BY <1>10 DEF Commit
  <2>3. /\ sessions' \in [Tab -> Terminal \cup {None}]
        /\ tabs' \in [Tab -> {"fresh", "open", "closed"}]
    BY <1>4, <1>10 DEF Commit, TerminalTypeOK
  <2>4. TerminalTypeOK'
    BY <1>1, <1>10, <2>1, <2>3 DEF TerminalTypeOK
  <2>5. SectionOK'
    BY <1>10 DEF SectionOK
  <2>6. OwnersOK(sessions', Nothing, standalone, status')
    <3>1. \A u \in Tab : sessions'[u] # None => sessions'[u] = made[u] \/ sessions'[u] = sessions[u]
      BY <2>2
    <3>2. \A u, v \in Tab : sessions'[u] # None /\ sessions'[u] = sessions'[v] => u = v
      BY <1>4, <1>6, <2>2 DEF OwnersOK
    <3>3. \A u \in Tab : sessions'[u] # None => status'[sessions'[u]] # "unused"
      BY <1>4, <1>6, <2>1, <3>1 DEF OwnersOK
    <3>4. \A u \in Tab : sessions'[u] \notin standalone
      BY <1>6, <3>1 DEF OwnersOK
    <3>5. QED BY <1>6, <2>1, <3>2, <3>3, <3>4 DEF OwnersOK
  <2>7. LiveOwned(sessions', Nothing, standalone, status')
    BY <1>4, <1>6, <1>7, <2>1, <2>2 DEF LiveOwned, OwnersOK, Retired
  <2>8. QED BY <1>1, <1>10, <2>2, <2>4, <2>5, <2>6, <2>7
<1>11. CASE /\ service # "disposed" /\ op' = Idle /\ op.kind = "mutation" /\ Rollback(made, st)
            /\ UNCHANGED service
  <2>1. /\ status' \in [Terminal -> Status]
        /\ \A i \in Terminal :
             /\ status'[i] = "unused" <=> st[i] = "unused"
             /\ status'[i] = "live" <=> st[i] = "live" /\ i \notin {made[u] : u \in Tab}
    BY <1>3, <1>11, CloseFacts DEF Rollback
  <2>2. TerminalTypeOK'
    BY <1>1, <1>11, <2>1 DEF TerminalTypeOK, Rollback
  <2>3. service \in {"ready", "starting"}
    BY <1>3, <1>11, <1>1 DEF SectionOK, TerminalTypeOK
  <2>4. SectionOK'
    BY <1>1, <1>11, <2>1, <2>3 DEF SectionOK, Rollback
  <2>5. OwnersOK(sessions, Nothing, standalone, status')
    BY <1>6, <2>1 DEF OwnersOK
  <2>6. LiveOwned(sessions, Nothing, standalone, status')
    BY <1>7, <2>1 DEF LiveOwned
  <2>7. QED BY <1>1, <1>11, <2>2, <2>4, <2>5, <2>6 DEF Rollback
<1>12. QED BY <1>1, <1>8, <1>9, <1>10, <1>11

\* A failed operation takes its processes along.
LEMMA SpawnFailsKeepsOwners ==
    ASSUME TerminalInv, SpawnFails
    PROVE  TerminalInv'
<1> USE OperationParts DEF TerminalInv, SpawnFails, Rollback
<1> DEFINE S == {op.made[t] : t \in Tab}
<1>1. /\ status' \in [Terminal -> Status]
      /\ \A i \in Terminal : status'[i] = "live" => status[i] = "live" /\ i \notin S
  BY CloseFacts
<1>2. /\ OwnersOK(sessions, Nothing, standalone, Close(status, S))
      /\ LiveOwned(sessions, Nothing, standalone, Close(status, S))
  <2>1. \A t \in Tab : Nothing[t] = op.made[t] \/ (Nothing[t] = None /\ op.made[t] \in S \cup {None})
    OBVIOUS
  <2> HIDE DEF S
  <2>2. QED BY <2>1, ReleaseKeepsOwners
<1>3. TerminalTypeOK'
  BY <1>1 DEF TerminalTypeOK
<1>4. SectionOK'
  <2>1. CASE op.kind = "restore"
    <3>1. /\ sessions = Nothing /\ standalone = {} /\ service' = "stopped"
          /\ \A i \in Terminal : status'[i] # "live"
      BY <1>1, <2>1 DEF SectionOK, LiveOwned
    <3>2. QED BY <3>1 DEF SectionOK
  <2>2. CASE op.kind = "mutation"
    BY <1>1, <2>2 DEF SectionOK
  <2>3. QED BY <2>1, <2>2
<1>5. QED BY <1>2, <1>3, <1>4

\* A process that ends disturbs no owner.
LEMMA ExitKeepsOwners ==
    ASSUME TerminalInv, NEW i \in Terminal, Exits(i)
    PROVE  TerminalInv'
<1> USE OperationParts DEF TerminalInv, Exits
<1>1. (\E c \in Client : Awaits(c, i)) \in BOOLEAN
  OBVIOUS
<1>2. /\ status' \in [Terminal -> Status]
      /\ exitedOrder' \in Seq(Terminal) /\ Len(exitedOrder') <= MaxRetained
      /\ \A j \in Terminal : /\ status'[j] = "unused" <=> status[j] = "unused"
                             /\ status'[j] = "live" => status[j] = "live"
  BY <1>1, ExitFacts
<1>3. UNCHANGED <<tabs, sessions, standalone, op, service, starts>>
  BY DEF Exit
<1>4. TerminalTypeOK'
  BY <1>2, <1>3 DEF TerminalTypeOK
<1>5. SectionOK'
  BY <1>2, <1>3 DEF SectionOK
<1>6. OwnersOK(sessions, op.made, standalone, status')
  BY <1>2 DEF OwnersOK
<1>7. LiveOwned(sessions, op.made, standalone, status')
  BY <1>2 DEF LiveOwned
<1>8. QED BY <1>3, <1>4, <1>5, <1>6, <1>7

\* The section is released by one that made no process.
LEMMA ReleaseKeepsSection ==
    ASSUME TerminalInv, op.kind \in {"resume", "detach"}, op' = Idle,
           UNCHANGED <<tabs, sessions, status, exitedOrder, standalone, service, starts>>
    PROVE  TerminalInv'
<1> USE OperationParts DEF TerminalInv
<1>1. op.made = Nothing
  BY DEF SectionOK
<1>2. TerminalTypeOK' /\ SectionOK'
  BY DEF TerminalTypeOK, SectionOK
<1>3. QED BY <1>1, <1>2

\* A resume replaces the process that the agent's tab shows.
LEMMA ResumeKeepsOwners ==
    ASSUME TerminalInv, AgentTypeOK, AttemptInv,
           RestoreBegins \/ ResumeSpawns \/ Resumed \/ ResumeFails \/ ResumeEnds
    PROVE  TerminalInv'
<1> USE OperationParts, AgentAssumption DEF TerminalInv
<1>1. CASE RestoreBegins
  <2> USE <1>1 DEF RestoreBegins
  <2>1. op = Idle
    BY DEF Free
  <2>2. /\ op' \in Operation /\ op'.made = Nothing /\ op'.todo = {}
        /\ op'.kind \in {"none", "resume"}
    BY <2>1 DEF Operation, Idle
  <2>3. UNCHANGED <<tabs, sessions, status, exitedOrder, standalone, service, starts>>
    OBVIOUS
  <2>4. TerminalTypeOK'
    BY <2>2, <2>3 DEF TerminalTypeOK
  <2>5. SectionOK'
    BY <2>2, <2>3 DEF SectionOK, Free
  <2>6. QED BY <2>1, <2>2, <2>3, <2>4, <2>5
<1>2. CASE ResumeSpawns
  <2> USE <1>2 DEF ResumeSpawns
  <2>1. op.kind = "resume" /\ op.made = Nothing
    BY DEF AttemptInv, AttemptStands, SectionOK
  <2>2. op' \in Operation /\ op'.made = Nothing /\ op'.todo = {AgentTab} /\ op'.kind = "resume"
    BY <2>1 DEF Operation, TerminalTypeOK
  <2>3. TerminalTypeOK' /\ SectionOK'
    BY <2>1, <2>2 DEF TerminalTypeOK, SectionOK
  <2>4. QED BY <2>1, <2>2, <2>3
<1>3. CASE Resumed
  <2> USE <1>3 DEF Resumed
  <2>1. /\ op.kind = "resume" /\ op.made = Nothing /\ tabs[AgentTab] = "open"
        /\ service \in {"ready", "disposed"}
    BY DEF AttemptInv, AttemptStands, SectionOK, TerminalTypeOK
  <2>2. NextId \in Terminal /\ NextId # None /\ status[NextId] = "unused"
    BY NextIdUnused
  <2> DEFINE st == [status EXCEPT ![NextId] = Admitted]
  <2>3. /\ st \in [Terminal -> Status]
        /\ \A i \in Terminal : i # NextId => st[i] = status[i]
        /\ st[NextId] \in {"live", "killed"} /\ (st[NextId] = "live" <=> service # "disposed")
    BY AdmittedFacts
  <2>4. /\ \/ /\ service # "disposed"
              /\ sessions' = [sessions EXCEPT ![AgentTab] = NextId]
              /\ status' = Close(st, {attempt.previous})
              /\ op' = [op EXCEPT !.todo = {}] /\ sessions[AgentTab] = attempt.previous
           \/ status' = Close(st, {NextId}) /\ op' = Idle /\ UNCHANGED sessions
        /\ UNCHANGED <<tabs, exitedOrder, standalone, service, starts>>
    OBVIOUS
  <2> HIDE <1>3 DEF st
  <2>5. CASE /\ service # "disposed"
             /\ sessions' = [sessions EXCEPT ![AgentTab] = NextId]
             /\ status' = Close(st, {attempt.previous})
             /\ op' = [op EXCEPT !.todo = {}] /\ sessions[AgentTab] = attempt.previous
    <3>1. op' \in Operation /\ op'.made = Nothing /\ op'.todo = {} /\ op'.kind = "resume"
      BY <2>1, <2>5 DEF Operation, TerminalTypeOK
    <3>2. /\ status' \in [Terminal -> Status]
          /\ \A i \in Terminal :
               /\ status'[i] = "unused" <=> st[i] = "unused"
               /\ status'[i] = "live" <=> st[i] = "live" /\ i # sessions[AgentTab]
      BY <2>3, <2>5, CloseFacts
    <3>3. /\ sessions' \in [Tab -> Terminal \cup {None}]
          /\ sessions'[AgentTab] = NextId
          /\ \A t \in Tab : t # AgentTab => sessions'[t] = sessions[t]
      BY <2>2, <2>5
    <3>4. TerminalTypeOK'
      BY <2>4, <3>1, <3>2, <3>3 DEF TerminalTypeOK
    <3>5. SectionOK'
      BY <2>1, <2>4, <2>5, <3>1 DEF SectionOK
    <3>6. OwnersOK(sessions', Nothing, standalone, status')
      BY <2>1, <2>2, <2>3, <3>2, <3>3 DEF OwnersOK
    <3>7. LiveOwned(sessions', Nothing, standalone, status')
      BY <2>1, <2>2, <2>3, <3>2, <3>3 DEF LiveOwned
    <3>8. QED BY <2>1, <2>4, <3>1, <3>3, <3>4, <3>5, <3>6, <3>7
  <2>6. CASE status' = Close(st, {NextId}) /\ op' = Idle /\ UNCHANGED sessions
    <3>1. /\ status' \in [Terminal -> Status]
          /\ \A i \in Terminal :
               /\ status'[i] = "unused" => status[i] = "unused"
               /\ status'[i] = "live" => status[i] = "live"
               /\ status[i] # "unused" => status'[i] # "unused"
      BY <2>2, <2>3, <2>6, CloseFacts
    <3>2. TerminalTypeOK'
      BY <2>4, <2>6, <3>1 DEF TerminalTypeOK
    <3>3. SectionOK'
      BY <2>1, <2>4, <2>6, <3>1 DEF SectionOK
    <3>4. OwnersOK(sessions, Nothing, standalone, status')
      BY <2>1, <3>1 DEF OwnersOK
    <3>5. LiveOwned(sessions, Nothing, standalone, status')
      BY <2>1, <3>1 DEF LiveOwned
    <3>6. QED BY <2>4, <2>6, <3>2, <3>3, <3>4, <3>5
  <2>7. QED BY <2>4, <2>5, <2>6
<1>4. CASE ResumeFails
  BY <1>4, ReleaseKeepsSection DEF ResumeFails, AttemptInv, AttemptStands
<1>5. CASE ResumeEnds
  <2> USE <1>5 DEF ResumeEnds
  <2>1. op.kind = "resume" /\ op.made = Nothing
    BY DEF AttemptInv, AttemptStands, SectionOK
  <2>2. /\ sessions' \in [Tab -> Terminal \cup {None}]
        /\ \A t \in Tab : t # AgentTab => sessions'[t] = sessions[t]
        /\ \/ sessions'[AgentTab] = sessions[AgentTab]
           \/ /\ sessions'[AgentTab] = None
              /\ sessions[AgentTab] # None => status[sessions[AgentTab]] # "live"
    BY DEF Held, Attached
  <2>3. UNCHANGED <<tabs, status, exitedOrder, standalone, service, starts>> /\ op' = Idle
    OBVIOUS
  <2> HIDE <1>5
  <2>4. TerminalTypeOK'
    BY <2>2, <2>3 DEF TerminalTypeOK
  <2>5. SectionOK'
    BY <2>1, <2>2, <2>3 DEF SectionOK, TerminalTypeOK
  <2>6. OwnersOK(sessions', Nothing, standalone, status)
    BY <2>1, <2>2 DEF OwnersOK
  <2>7. LiveOwned(sessions', Nothing, standalone, status)
    BY <2>1, <2>2 DEF LiveOwned
  <2>8. QED BY <2>2, <2>3, <2>4, <2>5, <2>6, <2>7
<1>6. QED BY <1>1, <1>2, <1>3, <1>4, <1>5

\* A detachment takes the agent's process from its tab and ends it.
LEMMA DetachKeepsOwners ==
    ASSUME TerminalInv, AgentTypeOK, ConsentInv, NEW c \in Client,
           DetachBegins(c) \/ DetachUnverified(c) \/ Settle(c)
    PROVE  TerminalInv'
<1> USE OperationParts, AgentAssumption DEF TerminalInv
<1>1. CASE DetachBegins(c) /\ Detachable(c)
  <2> USE <1>1 DEF DetachBegins, Detachable
  <2> DEFINE i == clients[c].terminal
  <2>1. op.made = Nothing /\ i = sessions[AgentTab] /\ status[i] = "live"
    OBVIOUS
  <2>2. i \in Terminal
    BY DEF ConsentInv, Disposing, AgentTypeOK
  <2>3. op' \in Operation /\ op'.made = Nothing /\ op'.todo = {} /\ op'.kind = "detach"
    BY DEF Operation, Idle
  <2>4. /\ status' \in [Terminal -> Status] /\ status'[i] = "terminating"
        /\ \A j \in Terminal : j # i => status'[j] = status[j]
    BY <2>2 DEF Status
  <2>5. /\ sessions' \in [Tab -> Terminal \cup {None}] /\ sessions'[AgentTab] = None
        /\ \A t \in Tab : t # AgentTab => sessions'[t] = sessions[t]
    OBVIOUS
  <2>6. UNCHANGED <<tabs, exitedOrder, standalone, service, starts>> /\ service = "ready"
    OBVIOUS
  <2> HIDE <1>1 DEF i
  <2>7. TerminalTypeOK'
    BY <2>3, <2>4, <2>5, <2>6 DEF TerminalTypeOK
  <2>8. SectionOK'
    BY <2>3, <2>6 DEF SectionOK
  <2>9. OwnersOK(sessions', Nothing, standalone, status')
    BY <2>1, <2>2, <2>4, <2>5 DEF OwnersOK
  <2>10. LiveOwned(sessions', Nothing, standalone, status')
    BY <2>1, <2>2, <2>4, <2>5 DEF LiveOwned
  <2>11. QED BY <2>3, <2>5, <2>6, <2>7, <2>8, <2>9, <2>10
<1>2. CASE DetachBegins(c) /\ ~Detachable(c)
  <2>1. UNCHANGED terminalVars
    BY <1>2 DEF DetachBegins, terminalVars
  <2>2. QED BY <2>1 DEF terminalVars, TerminalTypeOK, SectionOK
<1>3. CASE DetachUnverified(c) \/ Settle(c)
  <2>1. op.kind = "detach"
    BY <1>3 DEF DetachUnverified, Settle, ConsentInv, ConsentStands
  <2>2. QED BY <1>3, <2>1, ReleaseKeepsSection DEF DetachUnverified, Settle
<1>4. QED BY <1>1, <1>2, <1>3

\* What the rest of the agent's steps leave to the runtime.
LEMMA OtherAgentSteps ==
    ASSUME \/ Transfer \/ RegisterAgent \/ Assess \/ RestoreLive \/ Cancel
           \/ \E c \in Client : \/ Preflight(c) \/ PreflightEnds(c)
                                \/ Confirm(c) \/ ConfirmVerified(c)
           \/ UNCHANGED vars
    PROVE  UNCHANGED terminalVars
  BY DEF Transfer, RegisterAgent, Assess, RestoreLive, Cancel, Preflight, PreflightEnds,
         Confirm, ConfirmVerified, vars

LEMMA TerminalStep ==
    ASSUME TerminalInv, AgentTypeOK, AttemptInv, ConsentInv, [Next]_vars
    PROVE  TerminalInv'
<1>1. CASE UNCHANGED terminalVars
  BY <1>1 DEF terminalVars, TerminalInv, TerminalTypeOK, SectionOK
<1>2. CASE Mutate \/ \E t \in Tab, N \in Replacement : Detach(t, N)
  BY <1>2, MutateKeepsOwners
<1>3. CASE \/ CreateStandalone \/ Dispose \/ Stop \/ Start
           \/ \E i \in Terminal : DeleteTerminal(i)
           \/ \E t \in Tab : LookupFails(t)
  BY <1>3, ServiceKeepsOwners
<1>4. CASE SpawnFails \/ \E t \in Tab : Spawned(t)
  BY <1>4, SpawnFailsKeepsOwners, SpawnedKeepsOwners
<1>5. CASE \E i \in Terminal : Exits(i)
  BY <1>5, ExitKeepsOwners
<1>6. CASE RestoreBegins \/ ResumeSpawns \/ Resumed \/ ResumeFails \/ ResumeEnds
  BY <1>6, ResumeKeepsOwners
<1>7. CASE \E c \in Client : DetachBegins(c) \/ DetachUnverified(c) \/ Settle(c)
  BY <1>7, DetachKeepsOwners
<1>8. QED
  BY <1>1, <1>2, <1>3, <1>4, <1>5, <1>6, <1>7, OtherAgentSteps
     DEF Next, Aborts, Stops, Spawns

-----------------------------------------------------------------------------
(* A restore and a confirmation are not overtaken by what the runtime does.  *)

AgentInv == AgentTypeOK /\ AttemptInv /\ ConsentInv

\* What a step of the runtime may do to a section that a resume or a
\* detachment holds: nothing, but that its tab can lose what it shows.
HeldSection ==
    /\ op.kind \in {"resume", "detach"} =>
          /\ UNCHANGED <<op, tabs>>
          /\ \A t \in Tab : sessions'[t] = sessions[t] \/ sessions'[t] = None
    /\ op.kind \notin {"resume", "detach"} => op'.kind \notin {"resume", "detach"}
    /\ \A i \in Terminal : status[i] # "unused" =>
          /\ status'[i] # "unused"
          /\ status'[i] = "live" => status[i] = "live"
          /\ status[i] = "gone" => status'[i] = "gone"

LEMMA RuntimeHoldsSection ==
    ASSUME TerminalInv,
           \/ Mutate \/ CreateStandalone \/ Dispose \/ Start \/ SpawnFails
           \/ \E t \in Tab, N \in Replacement : Detach(t, N)
           \/ \E t \in Tab : LookupFails(t) \/ Spawned(t)
           \/ \E i \in Terminal : DeleteTerminal(i)
    PROVE  HeldSection
<1> USE OperationParts DEF TerminalInv
<1>1. ASSUME NEW S, status' = Close(status, S)
      PROVE  \A i \in Terminal : status[i] # "unused" =>
                /\ status'[i] # "unused"
                /\ status'[i] = "live" => status[i] = "live"
                /\ status[i] = "gone" => status'[i] = "gone"
  BY <1>1, CloseFacts
<1>2. CASE Mutate \/ \E t \in Tab, N \in Replacement : Detach(t, N)
  <2>1. \/ \E todo, closes, moves \in SUBSET Tab : Begin(todo, closes, moves)
        \/ \E closes \in SUBSET Tab : Apply(closes)
    BY <1>2, MutationsAreTwo
  <2>2. op = Idle /\ (UNCHANGED op \/ op'.kind = "mutation")
    <3>1. ASSUME NEW todo \in SUBSET Tab, NEW closes \in SUBSET Tab, NEW moves \in SUBSET Tab,
                 Begin(todo, closes, moves)
          PROVE  op = Idle /\ op'.kind = "mutation"
      BY <3>1 DEF Begin, Free, Mutation
    <3>2. ASSUME NEW closes \in SUBSET Tab, Apply(closes) PROVE op = Idle /\ UNCHANGED op
      BY <3>2 DEF Apply, Free
    <3>3. QED BY <2>1, <3>1, <3>2
  <2>3. UNCHANGED status \/ \E S : status' = Close(status, S)
    BY <2>1 DEF Begin, Apply
  <2>4. QED BY <1>1, <2>2, <2>3 DEF HeldSection
<1>3. CASE CreateStandalone
  BY <1>3, NextIdUnused, AdmittedFacts DEF CreateStandalone, HeldSection
<1>4. CASE Dispose \/ \E i \in Terminal : DeleteTerminal(i)
  BY <1>4, <1>1 DEF Dispose, DeleteTerminal, HeldSection
<1>5. CASE Start
  BY <1>5 DEF Start, HeldSection, SectionOK, Idle, Mutation
<1>6. CASE SpawnFails
  BY <1>6, <1>1 DEF SpawnFails, Rollback, HeldSection
<1>7. CASE \E t \in Tab : LookupFails(t)
  BY <1>7 DEF LookupFails, HeldSection
<1>8. ASSUME NEW t \in Tab, Spawned(t) PROVE HeldSection
  <2> DEFINE st == [status EXCEPT ![NextId] = Admitted]
  <2>1. op.kind \in {"mutation", "restore"} /\ Unused # {}
    BY <1>8 DEF Spawned
  <2>2. /\ op' = Idle \/ op' = [op EXCEPT !.todo = @ \ {t}, !.made = [op.made EXCEPT ![t] = NextId]]
        /\ status' = st \/ \E S : status' = Close(st, S)
    BY <1>8 DEF Spawned, Rollback, Commit
  <2>3. op'.kind \notin {"resume", "detach"}
    BY <2>1, <2>2 DEF TerminalTypeOK, Operation
  <2>4. st \in [Terminal -> Status] /\ \A i \in Terminal : status[i] # "unused" => st[i] = status[i]
    BY <2>1, NextIdUnused, AdmittedFacts
  <2> HIDE DEF st
  <2>5. QED BY <2>1, <2>2, <2>3, <2>4, CloseFacts DEF HeldSection
<1>9. QED BY <1>2, <1>3, <1>4, <1>5, <1>6, <1>7, <1>8

\* An agent whose variables stand keeps its invariant over such a step.
LEMMA AgentFrame ==
    ASSUME TerminalInv, AgentInv, HeldSection, UNCHANGED agentVars
    PROVE  AgentInv'
<1> USE OperationParts, AgentAssumption DEF AgentInv, agentVars
<1>1. AgentTypeOK'
  BY DEF AgentTypeOK
<1>2. AttemptInv'
  BY DEF AttemptInv, AttemptStands, HeldSection, AgentTypeOK, NotHibernating
<1>3. verified \in Terminal \cup {None}
  BY DEF AgentTypeOK
<1>4. ConsentStands'
  <2>1. ConsentStands
    BY DEF ConsentInv
  <2>2. (op.kind = "detach") = (op'.kind = "detach")
    BY DEF HeldSection
  <2>3. ASSUME NEW c \in Client, clients[c].step = "detaching"
        PROVE  verified \notin Owned'
    <3>1. op.kind = "detach" /\ verified \notin Owned /\ verified # None
      BY <2>1, <2>3 DEF ConsentStands, ConsentInv, Disposing
    <3>2. \A t \in Tab : sessions'[t] = sessions[t] \/ sessions'[t] = None
      BY <3>1 DEF HeldSection
    <3>3. QED BY <3>1, <3>2 DEF Owned
  <2>4. QED BY <2>1, <2>2, <2>3 DEF ConsentStands, Disposing
<1>5. \A c \in Client : clients[c].step = "settling" => status'[verified] = "gone"
  BY <1>3 DEF ConsentInv, HeldSection, Disposing
<1>6. ConsentInv'
  BY <1>4, <1>5 DEF ConsentInv, Disposing
<1>7. QED BY <1>1, <1>2, <1>6

\* A row only moves forward.
Row == [lifecycle : {"unregistered", "created", "launching", "running",
                     "checkpointing", "hibernated", "completed"},
        hib : {"none", "confirmationRequired", "pending", "hibernated", "failed"},
        revision : Nat, checkpoint : BOOLEAN]
ClientState == [step : {"idle", "preflighting", "verifying", "waiting", "detaching", "settling"},
                revision : Nat, terminal : Terminal \cup {None}, checkpointed : BOOLEAN]

\* What each variable is, part by part.
LEMMA AgentTypes ==
    /\ AgentTypeOK => /\ row \in Row /\ clients \in [Client -> ClientState]
                      /\ challenge \in Nat /\ verified \in Terminal \cup {None}
    /\ Away \in ClientState /\ Away.step = "idle"
  BY DEF AgentTypeOK, Row, ClientState, Away

LEMMA AgentTypesKept ==
    ASSUME AgentTypeOK, row' \in Row, clients' \in [Client -> ClientState],
           challenge' \in 0 .. row'.revision, UNCHANGED <<verified, attempt>>
    PROVE  AgentTypeOK'
  BY DEF AgentTypeOK, Row, ClientState

LEMMA RowFacts ==
    ASSUME AgentTypeOK
    PROVE  /\ row \in Row /\ Bumped \in Row
           /\ row.revision \in Nat /\ challenge \in Nat /\ challenge <= row.revision
           /\ Bumped.revision = row.revision + 1 /\ Bumped.hib = row.hib
           /\ Bumped.lifecycle = row.lifecycle /\ Bumped.checkpoint = row.checkpoint
           /\ Bumped.revision > challenge /\ Bumped.revision > 0
  BY DEF AgentTypeOK, Bumped, Row

\* A mutation that takes a tab along when its processes are there.
LEMMA SpawnsKeepsAgent ==
    ASSUME TerminalInv, AgentInv, NEW t \in Tab, Spawns(t)
    PROVE  AgentInv'
<1> USE OperationParts, AgentAssumption DEF AgentInv, TerminalInv
<1>1. HeldSection
  BY RuntimeHoldsSection DEF Spawns
<1>2. op.kind \in {"mutation", "restore"}
  BY DEF Spawns, Spawned
<1>3. CASE UNCHANGED row
  BY <1>1, <1>3, AgentFrame DEF Spawns, agentVars
<1>4. CASE row' = Bumped
  <2>1. UNCHANGED <<verified, challenge, clients, attempt>>
    BY DEF Spawns
  <2>2. attempt.step = "none" /\ \A c \in Client : clients[c].step \notin {"detaching", "settling"}
    BY <1>2 DEF AttemptInv, AttemptStands, ConsentInv, ConsentStands
  <2>3. op'.kind \notin {"resume", "detach"}
    BY <1>1, <1>2 DEF HeldSection
  <2>4. AgentTypeOK'
    BY <1>4, <2>1 DEF AgentTypeOK, Bumped
  <2>5. AttemptInv'
    BY <1>1, <2>1, <2>2, <2>3 DEF AttemptInv, AttemptStands, HeldSection, AgentTypeOK
  <2>6. ConsentInv'
    BY <1>4, <2>1, <2>2, <2>3, RowFacts DEF ConsentInv, ConsentStands, Disposing
  <2>7. QED BY <2>4, <2>5, <2>6
<1>5. QED BY <1>3, <1>4 DEF Spawns

\* The requests that find the section free.
LEMMA FreeKeepsAgent ==
    ASSUME TerminalInv, AgentInv, RegisterAgent \/ Assess \/ RestoreLive
    PROVE  AgentInv'
<1> USE OperationParts, AgentAssumption DEF AgentInv, TerminalInv
<1>1. /\ op.kind = "none" /\ UNCHANGED <<terminalVars, verified, challenge, clients, attempt>>
      /\ \/ row' = [Bumped EXCEPT !.lifecycle = "created"]
         \/ row' = Bumped
         \/ NotHibernating /\ row' = Running
  BY DEF RegisterAgent, Assess, RestoreLive, Free
<1>2. attempt.step = "none" /\ \A c \in Client : clients[c].step \notin {"detaching", "settling"}
  BY <1>1 DEF AttemptInv, AttemptStands, ConsentInv, ConsentStands
<1>3. /\ row' \in Row /\ row'.revision = row.revision + 1
      /\ (row'.hib = row.hib /\ row'.checkpoint = row.checkpoint) \/ row.hib # "pending"
  BY <1>1, RowFacts DEF Row, Running, NotHibernating
<1>4. AgentTypeOK'
  BY <1>1, <1>3, RowFacts DEF AgentTypeOK, Row
<1>5. AttemptInv'
  BY <1>1, <1>2 DEF AttemptInv, AttemptStands, terminalVars
<1>6. ConsentInv'
  BY <1>1, <1>2, <1>3, RowFacts DEF ConsentInv, ConsentStands, Disposing, terminalVars
<1>7. QED BY <1>4, <1>5, <1>6

\* A row that moves takes nothing away from an attempt or from a detachment.
LEMMA TransferKeepsAgent ==
    ASSUME TerminalInv, AgentInv, Transfer
    PROVE  AgentInv'
<1> USE OperationParts, AgentAssumption DEF AgentInv, TerminalInv
<1>1. /\ op.kind = "none" \/ \E c \in Client : clients[c].step = "settling"
      /\ row' = Bumped /\ UNCHANGED <<terminalVars, verified, challenge, clients, attempt>>
  BY DEF Transfer, MutationRuns
<1>2. attempt.step = "none" /\ \A c \in Client : clients[c].step # "detaching"
  BY <1>1 DEF AttemptInv, AttemptStands, ConsentInv, ConsentStands, Disposing
<1>3. AgentTypeOK'
  BY <1>1 DEF AgentTypeOK, Bumped
<1>4. AttemptInv'
  BY <1>1, <1>2 DEF AttemptInv, AttemptStands, terminalVars
<1>5. ConsentInv'
  BY <1>1, <1>2, RowFacts DEF ConsentInv, ConsentStands, Disposing, terminalVars, Owned
<1>6. QED BY <1>3, <1>4, <1>5

\* An attempt begins when the tab shows no process that a resume started, and
\* is the one that may replace what it shows.
LEMMA ResumeKeepsAgent ==
    ASSUME TerminalInv, AgentInv,
           RestoreBegins \/ ResumeSpawns \/ Resumed \/ ResumeFails \/ ResumeEnds
    PROVE  AgentInv'
<1> USE OperationParts, AgentAssumption DEF AgentInv, TerminalInv
<1>1. CASE RestoreBegins
  <2> USE <1>1 DEF RestoreBegins
  <2>1. /\ op.kind = "none" /\ service = "ready" /\ NotHibernating /\ ~Live
        /\ UNCHANGED <<sessions, status, tabs, verified, challenge, clients>>
    BY DEF Free
  <2>2. /\ row' \in Row
        /\ row'.revision = row.revision + 1
        /\ row'.hib \in {"none", row.hib}
    BY RowFacts DEF Row
  <2>3. /\ attempt.step = "none"
        /\ \A c \in Client : ~Disposing(c)
    BY <2>1 DEF AttemptInv, AttemptStands, ConsentInv, NotHibernating
  <2>4. \/ tabs[AgentTab] # "open" /\ UNCHANGED <<op, attempt>>
        \/ /\ tabs[AgentTab] = "open" /\ op' = [Idle EXCEPT !.kind = "resume"]
           /\ attempt' = [step |-> "probing", revision |-> row'.revision, previous |-> None]
    OBVIOUS
  <2>5. op'.kind \in {"none", "resume"}
    BY <2>1, <2>4 DEF Idle
  <2>6. (op'.kind = "resume") = (attempt'.step # "none")
    BY <2>1, <2>3, <2>4 DEF Idle
  <2> HIDE <1>1
  <2>7. AgentTypeOK'
    BY <2>1, <2>2, <2>4, RowFacts DEF AgentTypeOK, Row
  <2>8. AttemptInv'
    BY <2>1, <2>2, <2>3, <2>4, <2>6 DEF AttemptInv, AttemptStands, NotHibernating, Live, AgentTypeOK
  <2>9. ConsentInv'
    BY <2>1, <2>2, <2>3, <2>5, RowFacts DEF ConsentInv, ConsentStands, Disposing, NotHibernating
  <2>10. QED BY <2>7, <2>8, <2>9
<1>2. CASE ResumeSpawns
  <2> USE <1>2 DEF ResumeSpawns
  <2>1. op.kind = "resume"
    BY DEF AttemptInv, AttemptStands
  <2>2. op'.kind = "resume" /\ op'.todo = {AgentTab}
    BY <2>1 DEF TerminalTypeOK, Operation
  <2>3. attempt' \in [step : {"none", "probing", "spawning", "ending"},
                      revision : Nat, previous : Terminal \cup {None}]
        /\ attempt'.step = "spawning" /\ attempt'.revision = attempt.revision
    BY DEF AgentTypeOK
  <2>4. AgentTypeOK'
    BY <2>3 DEF AgentTypeOK
  <2>5. AttemptInv'
    BY <2>2, <2>3 DEF AttemptInv, AttemptStands, NotHibernating
  <2>6. ConsentInv'
    BY <2>1, <2>2 DEF ConsentInv, ConsentStands, Disposing, Owned
  <2>7. QED BY <2>4, <2>5, <2>6
<1>3. CASE Resumed
  <2> USE <1>3 DEF Resumed
  <2> DEFINE st == [status EXCEPT ![NextId] = Admitted]
  <2>1. /\ op.kind = "resume" /\ attempt.step = "spawning"
        /\ UNCHANGED <<tabs, service, row, verified, challenge, clients>>
    BY DEF AttemptInv, AttemptStands
  <2>2. NextId \in Terminal /\ status[NextId] = "unused" /\ st \in [Terminal -> Status]
        /\ \A i \in Terminal : i # NextId => st[i] = status[i]
        /\ st[NextId] \in {"live", "killed"}
    BY NextIdUnused, AdmittedFacts
  <2>3. \/ /\ sessions' = [sessions EXCEPT ![AgentTab] = NextId]
           /\ attempt' = [attempt EXCEPT !.step = "ending"]
           /\ op' = [op EXCEPT !.todo = {}]
           /\ status' = Close(st, {attempt.previous})
        \/ attempt' = NoAttempt /\ op' = Idle /\ UNCHANGED sessions
           /\ status' = Close(st, {NextId})
    OBVIOUS
  <2> HIDE <1>3 DEF st
  <2>4. \A i \in Terminal : status[i] # "unused" =>
          /\ status'[i] # "unused"
          /\ status[i] = "gone" => status'[i] = "gone"
    BY <2>2, <2>3, CloseFacts
  <2>5. \/ /\ sessions'[AgentTab] = NextId /\ op'.kind = "resume"
           /\ attempt'.step = "ending" /\ attempt'.revision = attempt.revision
        \/ attempt'.step = "none" /\ op'.kind = "none"
    BY <2>1, <2>3 DEF NoAttempt, TerminalTypeOK, Operation, AgentTypeOK
  <2>6. AgentTypeOK'
    BY <2>1, <2>3 DEF AgentTypeOK, NoAttempt
  <2>7. AttemptInv'
    BY <2>1, <2>2, <2>4, <2>5 DEF AttemptInv, AttemptStands, NotHibernating, AgentTypeOK
  <2>8. \A c \in Client : ~Disposing(c)
    BY <2>1 DEF ConsentInv, AttemptInv, NotHibernating
  <2>9. ConsentInv'
    BY <2>1, <2>5, <2>8 DEF ConsentInv, ConsentStands, Disposing
  <2>10. QED BY <2>6, <2>7, <2>9
<1>4. CASE ResumeFails
  <2> USE <1>4 DEF ResumeFails
  <2>1. op.kind = "resume" /\ op'.kind = "none" /\ attempt'.step = "none"
    BY DEF AttemptInv, AttemptStands, NoAttempt
  <2>2. AgentTypeOK'
    BY DEF AgentTypeOK, NoAttempt
  <2>3. AttemptInv'
    BY <2>1 DEF AttemptInv, AttemptStands
  <2>4. ConsentInv'
    BY <2>1 DEF ConsentInv, ConsentStands, Disposing, Owned
  <2>5. QED BY <2>2, <2>3, <2>4
<1>5. CASE ResumeEnds
  <2> USE <1>5 DEF ResumeEnds
  <2>1. op.kind = "resume" /\ op'.kind = "none" /\ attempt'.step = "none"
    BY DEF AttemptInv, AttemptStands, NoAttempt
  <2>2. \A c \in Client : ~Disposing(c)
    BY DEF ConsentInv, AttemptInv, NotHibernating
  <2>3. /\ verified' = verified \/ (verified' = sessions[AgentTab] /\ verified' # None)
        /\ row' = row \/ row' = Running
        /\ UNCHANGED <<status, challenge, clients>> /\ attempt' = NoAttempt
    OBVIOUS
  <2> HIDE <1>5
  <2>4. /\ row' \in Row
        /\ row' = row \/ (row'.revision = row.revision + 1 /\ row'.hib = "none")
    BY <2>3, RowFacts DEF Row, Running
  <2>5. AgentTypeOK'
    BY <2>3, <2>4, RowFacts DEF AgentTypeOK, NoAttempt, Row
  <2>6. AttemptInv'
    BY <2>1, <2>3 DEF AttemptInv, AttemptStands, OwnersOK
  <2>7. ConsentInv'
    BY <2>1, <2>2, <2>3, <2>4, RowFacts DEF ConsentInv, ConsentStands, Disposing
  <2>8. QED BY <2>5, <2>6, <2>7
<1>6. QED BY <1>1, <1>2, <1>3, <1>4, <1>5

\* An exit ends the wait of the detachment that was about it, and no other.
LEMMA ExitKeepsAgent ==
    ASSUME TerminalInv, AgentInv, NEW i \in Terminal, Exits(i)
    PROVE  AgentInv'
<1> USE OperationParts, AgentAssumption DEF AgentInv, TerminalInv
<1>1. /\ UNCHANGED <<op, row, verified, challenge, attempt, tabs, sessions>>
      /\ clients' = [c \in Client |-> IF Awaits(c, i) THEN [clients[c] EXCEPT !.step = "settling"]
                                      ELSE clients[c]]
  BY DEF Exits, Exit
<1>2. /\ (\E c \in Client : Awaits(c, i)) => status'[i] = "gone"
      /\ \A j \in Terminal : status[j] # "unused" =>
            /\ status'[j] # "unused"
            /\ status'[j] = "live" => status[j] = "live"
            /\ status[j] = "gone" => status'[j] = "gone"
  BY ExitFacts DEF Exits
<1>3. \A c \in Client :
        /\ clients[c].step # "detaching" \/ clients[c].terminal # i => clients'[c] = clients[c]
        /\ clients[c].step = "detaching" /\ clients[c].terminal = i =>
             clients'[c] = [clients[c] EXCEPT !.step = "settling"]
  BY <1>1 DEF Awaits
<1>4. AgentTypeOK'
  BY <1>1, <1>3 DEF AgentTypeOK
<1>5. AttemptInv'
  BY <1>1, <1>2 DEF AttemptInv, AttemptStands, NotHibernating, AgentTypeOK
<1>6. \A c \in Client :
        /\ clients'[c].revision = clients[c].revision
        /\ clients'[c].terminal = clients[c].terminal
        /\ clients'[c].checkpointed = clients[c].checkpointed
        /\ Disposing(c)' <=> Disposing(c)
        /\ clients'[c].step = clients[c].step
             \/ (clients[c].step = "detaching" /\ clients[c].terminal = i /\ clients'[c].step = "settling")
  <2>1. \A c \in Client : clients[c] \in ClientState
    BY AgentTypes
  <2>2. ASSUME NEW c \in Client, clients[c].step = "detaching", clients[c].terminal = i
        PROVE  /\ clients'[c].revision = clients[c].revision
               /\ clients'[c].terminal = clients[c].terminal
               /\ clients'[c].checkpointed = clients[c].checkpointed
               /\ clients'[c].step = "settling"
    <3>1. clients'[c] = [clients[c] EXCEPT !.step = "settling"] /\ clients[c] \in ClientState
      BY <1>3, <2>1, <2>2
    <3>2. QED BY <3>1 DEF ClientState
  <2>3. QED BY <1>3, <2>2 DEF Disposing
<1>7. \A c \in Client : clients'[c].step = "settling" => status'[verified] = "gone"
  <2> SUFFICES ASSUME NEW c \in Client, clients'[c].step = "settling"
               PROVE  status'[verified] = "gone"
    OBVIOUS
  <2>1. CASE clients[c].step = "settling"
    BY <1>2, <2>1 DEF ConsentInv, Disposing, AgentTypeOK
  <2>2. CASE clients[c].step = "detaching" /\ clients[c].terminal = i
    BY <1>2, <2>2 DEF ConsentInv, Disposing, Awaits
  <2>3. QED BY <1>6, <2>1, <2>2
<1>8. ConsentStands'
  BY <1>1, <1>6 DEF ConsentInv, ConsentStands, Owned
<1>9. ConsentInv'
  BY <1>1, <1>6, <1>7, <1>8 DEF ConsentInv
<1>10. QED BY <1>4, <1>5, <1>9

\* Nothing but the row outlives the service.
LEMMA StopKeepsAgent ==
    ASSUME TerminalInv, AgentInv, Stops
    PROVE  AgentInv'
<1> USE OperationParts, AgentAssumption DEF AgentInv, TerminalInv
<1>1. /\ op' = Idle /\ UNCHANGED row /\ verified' = None /\ challenge' = 0
      /\ attempt' = NoAttempt /\ clients' = [c \in Client |-> Away]
  BY DEF Stops, Stop
<1>2. AgentTypeOK'
  BY <1>1 DEF AgentTypeOK, Away, NoAttempt
<1>3. AttemptInv'
  BY <1>1 DEF AttemptInv, AttemptStands, NoAttempt
<1>4. ConsentInv'
  BY <1>1 DEF ConsentInv, ConsentStands, Disposing, Away
<1>5. QED BY <1>2, <1>3, <1>4

\* A client that does not end a process may come and go.
LEMMA ClientComesAndGoes ==
    ASSUME TerminalInv, AgentInv, NEW c \in Client,
           UNCHANGED <<terminalVars, row, verified, challenge, attempt>>,
           clients[c].step \in {"idle", "preflighting", "verifying"},
           NEW record \in [step : {"idle", "preflighting", "verifying"}, revision : Nat,
                           terminal : Terminal \cup {None}, checkpointed : BOOLEAN],
           record.step = "verifying" => record.revision > 0,
           clients' = [clients EXCEPT ![c] = record]
    PROVE  AgentInv'
<1> USE OperationParts, AgentAssumption DEF AgentInv, TerminalInv
<1>1. UNCHANGED <<op, tabs, sessions, status>>
  BY DEF terminalVars
<1>2. /\ clients'[c] = record /\ \A d \in Client : d # c => clients'[d] = clients[d]
  BY DEF AgentTypeOK
<1>3. AgentTypeOK'
  BY DEF AgentTypeOK
<1>4. AttemptInv'
  BY <1>1 DEF AttemptInv, AttemptStands, NotHibernating
<1>5. \A d \in Client : /\ clients'[d].step \in {"waiting", "detaching", "settling"} =>
                               d # c /\ clients'[d] = clients[d]
                        /\ d = c => clients[d].step \notin {"waiting", "detaching", "settling"}
  BY <1>2
<1>6. ConsentStands'
  BY <1>1, <1>2, <1>5 DEF ConsentInv, ConsentStands, Disposing, Owned
<1>7. ConsentInv'
  BY <1>1, <1>2, <1>5, <1>6 DEF ConsentInv, Disposing
<1>8. QED BY <1>3, <1>4, <1>7

\* The preflight ends, is released, or is confirmed: the row changes, which
\* it does only while no attempt and no detachment is about it.
LEMMA ReleaseKeepsAgent ==
    ASSUME TerminalInv, AgentInv, row.hib = "confirmationRequired", Reset,
           UNCHANGED <<terminalVars, verified, attempt>>,
           \/ UNCHANGED clients
           \/ \E c \in Client : clients' = [clients EXCEPT ![c] = Away]
    PROVE  AgentInv'
<1> USE OperationParts, AgentAssumption DEF AgentInv, TerminalInv
<1>1. UNCHANGED <<op, tabs, sessions, status>>
  BY DEF terminalVars
<1>2. /\ row' \in Row /\ row'.revision = row.revision + 1 /\ row'.hib = "none" /\ challenge' = 0
  BY RowFacts DEF Reset, Row
<1>3. attempt.step = "none" /\ \A c \in Client : ~Disposing(c)
  BY DEF AttemptInv, NotHibernating, ConsentInv
<1>4. \A c \in Client : clients'[c] = clients[c] \/ clients'[c] = Away
  BY DEF AgentTypeOK
<1>5. AgentTypeOK'
  <2>1. clients' \in [Client -> ClientState]
    BY AgentTypes
  <2>2. QED BY <1>2, <2>1, AgentTypesKept DEF Row
<1>6. AttemptInv'
  BY <1>1, <1>3 DEF AttemptInv, AttemptStands
<1>7. ConsentInv'
  BY <1>1, <1>2, <1>3, <1>4, RowFacts DEF ConsentInv, ConsentStands, Disposing, Away
<1>8. QED BY <1>5, <1>6, <1>7

LEMMA ConsumeKeepsAgent ==
    ASSUME TerminalInv, AgentInv, NEW c \in Client, Consume(c), row.hib = "confirmationRequired",
           UNCHANGED <<terminalVars, verified, attempt>>
    PROVE  AgentInv'
<1> USE OperationParts, AgentAssumption DEF AgentInv, TerminalInv
<1> DEFINE record == [step |-> "waiting", revision |-> row'.revision,
                      terminal |-> verified, checkpointed |-> row.checkpoint]
<1>1. UNCHANGED <<op, tabs, sessions, status>>
  BY DEF terminalVars
<1>2. /\ row' \in Row /\ row'.revision = row.revision + 1 /\ row'.hib = "pending"
      /\ row'.checkpoint = row.checkpoint /\ challenge' = 0
  BY RowFacts DEF Consume, Row
<1>3. attempt.step = "none" /\ \A d \in Client : ~Disposing(d)
  BY DEF AttemptInv, NotHibernating, ConsentInv
<1>4. /\ record \in [step : {"waiting"}, revision : Nat, terminal : Terminal \cup {None},
                     checkpointed : BOOLEAN]
      /\ record.step = "waiting" /\ record.terminal = verified /\ verified # None
      /\ record.checkpointed = row.checkpoint
  BY <1>2 DEF Consume, Live, AgentTypeOK, Row
<1>5. clients' = [clients EXCEPT ![c] = record]
  BY DEF Consume
<1> HIDE DEF record
<1>6. clients'[c] = record /\ \A d \in Client : d # c => clients'[d] = clients[d]
  BY <1>5 DEF AgentTypeOK
<1>7. AgentTypeOK'
  BY <1>2, <1>4, <1>5 DEF AgentTypeOK, Row
<1>8. AttemptInv'
  BY <1>1, <1>3 DEF AttemptInv, AttemptStands
<1>9. ConsentInv'
  BY <1>1, <1>2, <1>3, <1>4, <1>6, RowFacts DEF ConsentInv, ConsentStands, Disposing
<1>10. QED BY <1>7, <1>8, <1>9

\* A challenge is issued for a process that a resume started and that the
\* tab shows: no attempt is under way, and no process is being ended.
LEMMA PreparationKeepsAgent ==
    ASSUME TerminalInv, AgentInv, NEW c \in Client, Live, row.hib = "none",
           row' \in Row, row'.revision = row.revision + 1,
           row'.hib = "confirmationRequired", challenge' = row'.revision,
           UNCHANGED <<terminalVars, verified, attempt>>,
           clients' = [clients EXCEPT ![c] = Away]
    PROVE  AgentInv'
<1> USE OperationParts, AgentAssumption DEF AgentInv, TerminalInv
<1>1. UNCHANGED <<op, tabs, sessions, status>>
  BY DEF terminalVars
<1>2. \A d \in Client : clients'[d] = clients[d] \/ clients'[d] = Away
  BY DEF AgentTypeOK
<1>3. attempt.step = "none" /\ \A d \in Client : ~Disposing(d)
  BY DEF AttemptInv, ConsentInv, Live
<1>4. Away.step = "idle" /\ clients' \in [Client -> ClientState]
  BY AgentTypes
<1>5. AgentTypeOK'
  <2>1. challenge' \in 0 .. row'.revision
    BY RowFacts
  <2>2. QED BY <1>4, <2>1, AgentTypesKept
<1>6. AttemptInv'
  BY <1>1, <1>3 DEF AttemptInv, AttemptStands
<1>7. ConsentInv'
  <2>1. \A d \in Client : clients'[d].step \notin {"waiting", "detaching", "settling"}
    BY <1>2, <1>3, <1>4 DEF Disposing
  <2>2. \A d \in Client : clients'[d].step = "verifying" => clients'[d].revision > 0
    BY <1>2, <1>4 DEF ConsentInv
  <2>3. op'.kind # "detach"
    BY <1>1, <1>3 DEF ConsentInv, ConsentStands, Disposing
  <2>4. ConsentStands' /\ \A d \in Client : ~Disposing(d)'
    BY <2>1, <2>3 DEF ConsentStands, Disposing
  <2>5. row'.revision # 0
    BY RowFacts
  <2>6. QED BY <2>1, <2>2, <2>4, <2>5 DEF ConsentInv
<1>8. QED BY <1>5, <1>6, <1>7

LEMMA PreflightKeepsAgent ==
    ASSUME TerminalInv, AgentInv, NEW c \in Client,
           Preflight(c) \/ PreflightEnds(c) \/ Confirm(c) \/ ConfirmVerified(c) \/ Cancel
    PROVE  AgentInv'
<1>1. AgentTypeOK
  BY DEF AgentInv
<1>2. Away \in [step : {"idle", "preflighting", "verifying"}, revision : Nat,
                terminal : Terminal \cup {None}, checkpointed : BOOLEAN]
      /\ Away.step = "idle"
  BY DEF Away
<1>3. CASE Preflight(c)
  <2> DEFINE record == [step |-> "preflighting", revision |-> row.revision,
                        terminal |-> verified, checkpointed |-> FALSE]
  <2>1. record \in [step : {"idle", "preflighting", "verifying"}, revision : Nat,
                    terminal : Terminal \cup {None}, checkpointed : BOOLEAN]
    BY <1>1, RowFacts DEF AgentTypeOK
  <2>2. QED BY <1>3, <2>1, ClientComesAndGoes DEF Preflight
<1>4. CASE PreflightEnds(c)
  <2> USE <1>4 DEF PreflightEnds
  <2>1. CASE UNCHANGED <<row, challenge>>
    BY <1>2, <2>1, ClientComesAndGoes
  <2>2. CASE \E checkpoint \in BOOLEAN :
               /\ row.revision = clients[c].revision /\ Live /\ verified = clients[c].terminal
               /\ row.lifecycle = "running" /\ row.hib = "none" /\ ~row.checkpoint
               /\ row' = [Bumped EXCEPT !.hib = "confirmationRequired", !.checkpoint = checkpoint,
                                        !.lifecycle = IF checkpoint THEN "checkpointing" ELSE @]
               /\ challenge' = row'.revision
    <3>1. /\ row' \in Row /\ row'.revision = row.revision + 1
          /\ row'.hib = "confirmationRequired" /\ challenge' = row'.revision
          /\ row.hib = "none" /\ Live
      BY <1>1, <2>2, RowFacts DEF Row
    <3>2. UNCHANGED <<terminalVars, verified, attempt>> /\ clients' = [clients EXCEPT ![c] = Away]
      OBVIOUS
    <3>3. QED BY <3>1, <3>2, PreparationKeepsAgent
  <2>3. QED BY <2>1, <2>2
<1>5. CASE Confirm(c)
  <2> USE <1>5 DEF Confirm
  <2>1. CASE Reset /\ UNCHANGED clients
    BY <2>1, ReleaseKeepsAgent
  <2>2. CASE /\ clients' = [clients EXCEPT ![c] = [Away EXCEPT !.step = "verifying",
                                                               !.revision = row.revision]]
             /\ UNCHANGED <<row, challenge>>
    <3>1. [Away EXCEPT !.step = "verifying", !.revision = row.revision] \in
            [step : {"idle", "preflighting", "verifying"}, revision : Nat,
             terminal : Terminal \cup {None}, checkpointed : BOOLEAN]
      BY <1>1, RowFacts DEF Away
    <3>2. [Away EXCEPT !.step = "verifying", !.revision = row.revision].revision > 0
      BY <1>1, RowFacts DEF Away, AgentInv, ConsentInv
    <3>3. QED BY <2>2, <3>1, <3>2, ClientComesAndGoes
  <2>3. CASE Consume(c)
    BY <2>3, ConsumeKeepsAgent
  <2>4. QED BY <2>1, <2>2, <2>3
<1>6. CASE ConfirmVerified(c)
  <2> USE <1>6 DEF ConfirmVerified
  <2>1. CASE row.revision = clients[c].revision /\ Consume(c)
    <3>1. row.hib = "confirmationRequired"
      BY <2>1 DEF AgentInv, ConsentInv, Consume
    <3>2. QED BY <2>1, <3>1, ConsumeKeepsAgent
  <2>2. CASE clients' = [clients EXCEPT ![c] = Away] /\ UNCHANGED <<row, challenge>>
    BY <1>2, <2>2, ClientComesAndGoes
  <2>3. CASE /\ clients' = [clients EXCEPT ![c] = Away]
             /\ row.hib = "confirmationRequired" /\ Reset
    BY <2>3, ReleaseKeepsAgent
  <2>4. QED BY <2>1, <2>2, <2>3
<1>7. CASE Cancel
  BY <1>7, ReleaseKeepsAgent DEF Cancel
<1>8. QED BY <1>3, <1>4, <1>5, <1>6, <1>7

\* A disposition fails: the row keeps its revision or leaves "pending" behind.
LEMMA FailureKeepsAgent ==
    ASSUME TerminalInv, AgentInv, NEW c \in Client, Disposing(c), row' = Failed,
           op' = Idle, UNCHANGED <<sessions, status, tabs, verified, challenge, attempt>>,
           clients' = [clients EXCEPT ![c] = Away], op = Idle \/ op.kind = "detach"
    PROVE  AgentInv'
<1> USE OperationParts, AgentAssumption DEF AgentInv, TerminalInv
<1>1. row.hib = "pending"
  BY DEF ConsentInv
<1>2. row' \in Row /\ row'.revision = row.revision + 1 /\ row'.hib = "failed"
  BY <1>1, RowFacts DEF Failed, Row
<1>3. Away.step = "idle" /\ clients' \in [Client -> ClientState]
  BY AgentTypes
<1>4. \A d \in Client : ~Disposing(d)' /\ (clients'[d] = clients[d] \/ clients'[d] = Away)
  BY <1>3 DEF ConsentInv, ConsentStands, Disposing, AgentTypeOK
<1>5. attempt.step = "none"
  BY <1>1 DEF AttemptInv, NotHibernating
<1>6. AgentTypeOK'
  <2>1. challenge' \in 0 .. row'.revision
    BY <1>2, RowFacts
  <2>2. QED BY <1>2, <1>3, <2>1, AgentTypesKept
<1>7. AttemptInv'
  BY <1>5 DEF AttemptInv, AttemptStands
<1>8. ConsentInv'
  <2>1. ConsentStands' /\ \A d \in Client : clients'[d].step \notin {"waiting", "detaching", "settling"}
    BY <1>4 DEF ConsentStands, Disposing
  <2>2. \A d \in Client : clients'[d].step = "verifying" => clients'[d].revision > 0
    BY <1>3, <1>4 DEF ConsentInv
  <2>3. row'.revision # 0 /\ challenge' # row'.revision
    BY <1>2, RowFacts
  <2>4. QED BY <1>4, <2>1, <2>2, <2>3 DEF ConsentInv
<1>9. QED BY <1>6, <1>7, <1>8

LEMMA DetachKeepsAgent ==
    ASSUME TerminalInv, AgentInv, NEW c \in Client,
           DetachBegins(c) \/ DetachUnverified(c) \/ Settle(c)
    PROVE  AgentInv'
<1> USE OperationParts, AgentAssumption DEF AgentInv, TerminalInv
<1>1. CASE DetachBegins(c) /\ Detachable(c)
  <2>1. /\ clients[c].step = "waiting" /\ op = Idle /\ sessions[AgentTab] = clients[c].terminal
        /\ row.revision = clients[c].revision
        /\ op'.kind = "detach" /\ sessions' = [sessions EXCEPT ![AgentTab] = None]
        /\ status' = [status EXCEPT ![clients[c].terminal] = "terminating"]
        /\ clients' = [clients EXCEPT ![c].step = "detaching"]
        /\ UNCHANGED <<row, tabs, verified, challenge, attempt>>
    BY <1>1 DEF DetachBegins, Detachable, Idle
  <2>2. /\ row.hib = "pending" /\ clients[c].terminal = verified /\ verified \in Terminal
        /\ attempt.step = "none" /\ op.kind = "none"
    BY <2>1 DEF ConsentInv, Disposing, AttemptInv, NotHibernating, AgentTypeOK
  <2>3. /\ clients' \in [Client -> ClientState]
        /\ clients'[c] = [clients[c] EXCEPT !.step = "detaching"] /\ clients[c] \in ClientState
        /\ \A d \in Client : d # c => clients'[d] = clients[d]
    BY <2>1, AgentTypes DEF ClientState
  <2>4. /\ clients'[c].step = "detaching" /\ clients'[c].revision = clients[c].revision
        /\ clients'[c].terminal = clients[c].terminal
        /\ clients'[c].checkpointed = clients[c].checkpointed
    BY <2>3 DEF ClientState
  <2>5. \A d \in Client : d # c => clients'[d].step \notin {"waiting", "detaching", "settling"}
    BY <2>1, <2>3 DEF ConsentInv, ConsentStands, Disposing
  <2>6. AgentTypeOK'
    <3>1. row \in Row /\ challenge' \in 0 .. row'.revision
      BY <2>1, AgentTypes DEF AgentTypeOK
    <3>2. QED BY <2>1, <2>3, <3>1, AgentTypesKept
  <2>7. AttemptInv'
    BY <2>1, <2>2 DEF AttemptInv, AttemptStands
  <2>8. verified \notin Owned'
    BY <2>1, <2>2 DEF Owned, OwnersOK
  <2>9. ConsentStands'
    BY <2>1, <2>2, <2>4, <2>5, <2>8 DEF ConsentStands, Disposing
  <2>10. ConsentInv'
    <3>1. \A d \in Client : Disposing(d)' => d = c
      BY <2>5 DEF Disposing
    <3>2. \A d \in Client : clients'[d].step = "verifying" => clients'[d].revision > 0
      BY <2>3, <2>4 DEF ConsentInv
    <3>3. \A d \in Client : clients'[d].step # "settling"
      BY <2>4, <2>5
    <3>4. verified # None /\ clients[c].checkpointed = row.checkpoint
      BY <2>1 DEF ConsentInv, Disposing
    <3>5. QED BY <2>1, <2>2, <2>4, <2>9, <3>1, <3>2, <3>3, <3>4 DEF ConsentInv
  <2>11. QED BY <2>6, <2>7, <2>10
<1>2. CASE DetachBegins(c) /\ ~Detachable(c)
  BY <1>2, FailureKeepsAgent DEF DetachBegins, Disposing
<1>3. CASE DetachUnverified(c)
  BY <1>3, FailureKeepsAgent DEF DetachUnverified, Disposing, ConsentInv, ConsentStands
<1>4. CASE Settle(c)
  <2>1. /\ clients[c].step = "settling" /\ op' = Idle /\ clients' = [clients EXCEPT ![c] = Away]
        /\ UNCHANGED <<sessions, status, tabs, verified, challenge, attempt>>
    BY <1>4 DEF Settle
  <2>2. row' = row \/ /\ row' \in Row /\ row'.revision = row.revision + 1
                      /\ row'.hib \in {"hibernated", "failed"}
    <3>1. \/ row' = row
          \/ row' = [Bumped EXCEPT !.lifecycle = "hibernated", !.hib = "hibernated"]
          \/ row' = [Bumped EXCEPT !.lifecycle = "completed", !.hib = "failed", !.checkpoint = FALSE]
      BY <1>4 DEF Settle
    <3>2. QED BY <3>1, RowFacts DEF Row
  <2>3. op.kind = "detach" /\ row.hib = "pending" /\ attempt.step = "none"
    BY <2>1 DEF ConsentInv, ConsentStands, Disposing, AttemptInv, AttemptStands
  <2>4. Away.step = "idle" /\ clients' \in [Client -> ClientState]
    BY <2>1, AgentTypes
  <2>5. \A d \in Client : ~Disposing(d)' /\ (clients'[d] = clients[d] \/ clients'[d] = Away)
    BY <2>1, <2>4 DEF ConsentInv, ConsentStands, Disposing, AgentTypeOK
  <2>6. row' \in Row /\ challenge' \in 0 .. row'.revision
    <3>1. row \in Row /\ challenge' = challenge
      BY <2>1, AgentTypes
    <3>2. CASE row' = row
      BY <3>1, <3>2 DEF AgentTypeOK
    <3>3. CASE row' \in Row /\ row'.revision = row.revision + 1
      BY <3>1, <3>3, RowFacts
    <3>4. QED BY <2>2, <3>2, <3>3
  <2>7. AgentTypeOK'
    BY <2>1, <2>4, <2>6, AgentTypesKept
  <2>8. AttemptInv'
    BY <2>1, <2>3 DEF AttemptInv, AttemptStands
  <2>9. ConsentInv'
    <3>1. ConsentStands' /\ \A d \in Client : clients'[d].step \notin {"waiting", "detaching", "settling"}
      BY <2>1, <2>5 DEF ConsentStands, Disposing
    <3>2. \A d \in Client : clients'[d].step = "verifying" => clients'[d].revision > 0
      BY <2>4, <2>5 DEF ConsentInv
    <3>3. CASE row' = row
      BY <2>1, <2>5, <3>1, <3>2, <3>3 DEF ConsentInv
    <3>4. CASE row'.revision = row.revision + 1
      <4>1. row'.revision # 0 /\ challenge' # row'.revision
        BY <2>1, <3>4, RowFacts
      <4>2. QED BY <2>5, <3>1, <3>2, <4>1 DEF ConsentInv
    <3>5. QED BY <2>2, <3>3, <3>4
  <2>10. QED BY <2>7, <2>8, <2>9
<1>5. QED BY <1>1, <1>2, <1>3, <1>4

LEMMA AgentStep ==
    ASSUME TerminalInv, AgentInv, [Next]_vars
    PROVE  AgentInv'
<1>1. CASE /\ UNCHANGED agentVars
           /\ \/ Mutate \/ CreateStandalone \/ Dispose \/ Start \/ SpawnFails
              \/ \E t \in Tab, N \in Replacement : Detach(t, N)
              \/ \E t \in Tab : LookupFails(t) \/ Spawned(t)
              \/ \E i \in Terminal : DeleteTerminal(i)
  BY <1>1, RuntimeHoldsSection, AgentFrame
<1>2. CASE \E t \in Tab : Spawns(t)
  BY <1>2, SpawnsKeepsAgent
<1>3. CASE \E i \in Terminal : Exits(i)
  BY <1>3, ExitKeepsAgent
<1>4. CASE Stops
  BY <1>4, StopKeepsAgent
<1>5. CASE Transfer \/ RegisterAgent \/ Assess \/ RestoreLive
  BY <1>5, TransferKeepsAgent, FreeKeepsAgent
<1>6. CASE RestoreBegins \/ ResumeSpawns \/ Resumed \/ ResumeFails \/ ResumeEnds
  BY <1>6, ResumeKeepsAgent
<1>7. CASE Cancel
  BY <1>7, ReleaseKeepsAgent DEF Cancel
<1>8. CASE \E c \in Client : \/ Preflight(c) \/ PreflightEnds(c) \/ Confirm(c)
                             \/ ConfirmVerified(c)
  BY <1>8, PreflightKeepsAgent
<1>9. CASE \E c \in Client : DetachBegins(c) \/ DetachUnverified(c) \/ Settle(c)
  BY <1>9, DetachKeepsAgent
<1>10. CASE UNCHANGED vars
  BY <1>10 DEF vars, terminalVars, agentVars, AgentInv, AgentTypeOK, AttemptInv, AttemptStands,
       NotHibernating, ConsentInv, ConsentStands, Disposing, Owned
<1>11. QED
  BY <1>1, <1>2, <1>3, <1>4, <1>5, <1>6, <1>7, <1>8, <1>9, <1>10 DEF Next, Aborts

-----------------------------------------------------------------------------
(* The invariant, and what follows from it.                                  *)

LEMMA Initially == Init => IInv
<1> SUFFICES ASSUME Init PROVE IInv
  OBVIOUS
<1> USE TerminalAssumption, AgentAssumption DEF Init
<1>1. TerminalTypeOK
  BY DEF TerminalInit, TerminalTypeOK, Nothing, Idle, Operation, Terminal, None, Status
<1>2. TerminalInv
  BY <1>1, OperationParts DEF TerminalInv, TerminalInit, SectionOK, OwnersOK, LiveOwned
<1>3. AgentTypeOK
  BY DEF AgentInit, AgentTypeOK, Away, NoAttempt
<1>4. AttemptInv /\ ConsentInv
  BY <1>1, OperationParts
     DEF TerminalInit, AgentInit, AttemptInv, AttemptStands, ConsentInv, ConsentStands,
         Disposing, Away, NoAttempt
<1>5. QED BY <1>2, <1>3, <1>4 DEF IInv

LEMMA Inductive == IInv /\ [Next]_vars => IInv'
  BY TerminalStep, AgentStep DEF IInv, AgentInv

LEMMA InvariantHolds == Spec => []IInv
  BY Initially, Inductive, PTL DEF Spec

\* The runtime and the agent keep their types, for every number of tabs,
\* terminals, retained exits, starts and clients.
THEOREM TypeCorrect == Spec => []TypeOK
<1>1. IInv => TypeOK
  BY DEF IInv, TerminalInv, TypeOK
<1>2. QED BY <1>1, InvariantHolds, PTL

\* Every running process has exactly one owner that will close it, and none
\* runs once the service is disposed (the closes, adopts and rollbacks of
\* workspace-terminal-runtime.ts around each durable mutation).
THEOREM ProcessOwnership == Spec => []NoStrayProcess
<1>1. IInv => NoStrayProcess
  <2> SUFFICES ASSUME IInv PROVE NoStrayProcess
    OBVIOUS
  <2> USE OperationParts DEF IInv, TerminalInv
  <2>1. ASSUME NEW i \in Terminal, status[i] = "live"
        PROVE  /\ service \in {"starting", "ready"}
               /\ i \in Made \cup standalone \cup {sessions[t] : t \in Tabs("open")}
    <3>1. service \in {"starting", "ready"}
      BY <2>1 DEF SectionOK
    <3>2. i \in standalone \/ \E t \in Tab : sessions[t] = i \/ op.made[t] = i
      BY <2>1 DEF LiveOwned
    <3>3. QED BY <3>1, <3>2 DEF Made, Tabs
  <2>2. \A t, u \in Tab : sessions[t] # None /\ sessions[t] = sessions[u] => t = u
    BY DEF OwnersOK
  <2>3. Made \cap standalone = {} /\ Owned \cap (Made \cup standalone) = {}
    BY DEF OwnersOK, Made, Owned
  <2>4. QED BY <2>1, <2>2, <2>3 DEF NoStrayProcess
<1>2. QED BY <1>1, InvariantHolds, PTL

\* A restore that awaits its process holds the row and its tab.
THEOREM AttemptSafety == Spec => []AttemptStands
<1>1. IInv => AttemptStands
  BY DEF IInv, AttemptInv
<1>2. QED BY <1>1, InvariantHolds, PTL

\* While a process is being ended, the row is what the user agreed to, and
\* one confirmation at most is acted upon.
THEOREM ConsentSafety == Spec => []ConsentStands
<1>1. IInv => ConsentStands
  BY DEF IInv, ConsentInv
<1>2. QED BY <1>1, InvariantHolds, PTL

\* A session becomes hibernated only with its checkpoint on record and the
\* exit of its own process seen.
THEOREM HibernationObserved == Spec => HibernatedIsObserved
<1> DEFINE P == row'.hib = "hibernated" /\ row.hib # "hibernated" =>
          /\ row.checkpoint
          /\ \E c \in Client : clients[c].step = "settling" /\ status[clients[c].terminal] = "gone"
<1>1. ASSUME IInv, Next, row'.hib = "hibernated", row.hib # "hibernated"
      PROVE  P
  <2> USE <1>1
  <2>1. AgentTypeOK /\ ConsentInv
    BY DEF IInv
  <2>2. \E c \in Client : Settle(c)
    <3>1. ASSUME row' = Bumped PROVE FALSE
      BY <2>1, <3>1, RowFacts
    <3>2. ASSUME row' = Running PROVE FALSE
      BY <2>1, <3>2, RowFacts DEF Running, Row
    <3>3. ASSUME row' = Failed PROVE FALSE
      BY <2>1, <3>3, RowFacts DEF Failed, Row
    <3>4. ASSUME Reset PROVE FALSE
      BY <2>1, <3>4, RowFacts DEF Reset, Row
    <3>5. ASSUME NEW c \in Client, Consume(c) PROVE FALSE
      BY <2>1, <3>5, RowFacts DEF Consume, Row
    <3>6. ASSUME NEW c \in Client, PreflightEnds(c) PROVE FALSE
      BY <2>1, <3>6, RowFacts DEF PreflightEnds, Row
    <3>7. ASSUME RestoreBegins \/ RegisterAgent PROVE FALSE
      BY <2>1, <3>7, RowFacts DEF RestoreBegins, RegisterAgent, Row
    <3>8. row' # row
      OBVIOUS
    <3>9. QED
      BY <3>1, <3>2, <3>3, <3>4, <3>5, <3>6, <3>7, <3>8
         DEF Next, agentVars, Aborts, Stops, Transfer, Spawns, Exits, Assess, RestoreLive,
             ResumeSpawns, Resumed, ResumeFails, ResumeEnds, Cancel, Preflight, Confirm,
             ConfirmVerified, DetachBegins, DetachUnverified
  <2>3. PICK c \in Client : Settle(c)
    BY <2>2
  <2>4. clients[c].step = "settling" /\ clients[c].checkpointed
    BY <2>1, <2>3, RowFacts DEF Settle, Row
  <2>5. row.checkpoint /\ status[clients[c].terminal] = "gone"
    BY <2>1, <2>4 DEF ConsentInv, Disposing
  <2>6. QED BY <2>4, <2>5
<1>2. IInv /\ [Next]_vars => [P]_vars
  BY <1>1
<1>3. QED BY <1>2, InvariantHolds, PTL DEF Spec, HibernatedIsObserved

\* What an open tab shows, and what a step may do to it.
Keeps(t) ==
    /\ sessions[t] # None /\ status[sessions[t]] = "live"
    /\ tabs'[t] = "open" /\ service' = "ready" /\ t \notin op.todo /\ op.made[t] = None
    => \/ sessions'[t] = sessions[t] /\ status'[sessions[t]] \in {"live", "exited", "gone"}
       \/ /\ t = AgentTab /\ row.hib = "pending"
          /\ \E c \in Client : /\ clients[c].step = "waiting"
                               /\ clients[c].revision = row.revision
                               /\ clients[c].terminal = sessions[t]

\* A process is closed with its tab or by the mutation that replaces it, and
\* otherwise only by the confirmation that was about it.
LEMMA StepKeepsProcess ==
    ASSUME IInv, Next, NEW t \in Tab, tabs[t] = "open"
    PROVE  Keeps(t)
<1> SUFFICES ASSUME sessions[t] # None, status[sessions[t]] = "live",
                    tabs'[t] = "open", service' = "ready", t \notin op.todo, op.made[t] = None,
                    ~ (/\ sessions'[t] = sessions[t]
                       /\ status'[sessions[t]] \in {"live", "exited", "gone"})
             PROVE  /\ t = AgentTab /\ row.hib = "pending"
                    /\ \E c \in Client : /\ clients[c].step = "waiting"
                                         /\ clients[c].revision = row.revision
                                         /\ clients[c].terminal = sessions[t]
  BY DEF Keeps
<1> DEFINE i == sessions[t]
<1>1. /\ TerminalInv /\ TerminalTypeOK /\ AttemptInv /\ AgentTypeOK
      /\ OwnersOK(sessions, op.made, standalone, status)
      /\ i \in Terminal /\ status \in [Terminal -> Status]
      /\ \A u \in Tab : (sessions[u] = i => u = t) /\ op.made[u] # i
  BY OperationParts DEF IInv, TerminalInv, OwnersOK
<1>2. ASSUME sessions' = sessions, NEW S, status' = Close(status, S), i \notin S PROVE FALSE
  BY <1>1, <1>2, CloseFacts
<1>3. ASSUME UNCHANGED <<sessions, status>> PROVE FALSE
  BY <1>1, <1>3
<1>4. ASSUME NEW closes \in SUBSET Tab, Apply(closes) PROVE FALSE
  <2>1. t \notin closes
    BY <1>1, <1>4 DEF Apply, TerminalTypeOK
  <2>2. sessions'[t] = i /\ i \notin {sessions[u] : u \in closes}
    BY <1>1, <1>4, <2>1 DEF Apply
  <2>3. status' = Close(status, {sessions[u] : u \in closes})
    BY <1>4 DEF Apply
  <2> DEFINE S == {sessions[u] : u \in closes}
  <2> HIDE DEF S, i
  <2>4. status'[i] = status[i]
    BY <1>1, <2>2, <2>3, CloseFacts DEF S
  <2>5. QED BY <2>2, <2>4 DEF i
<1>5. CASE Mutate \/ \E u \in Tab, N \in Replacement : Detach(u, N)
  <2>1. \/ \E todo, closes, moves \in SUBSET Tab : Begin(todo, closes, moves)
        \/ \E closes \in SUBSET Tab : Apply(closes)
    BY <1>5, MutationsAreTwo
  <2>2. QED BY <1>3, <1>4, <2>1 DEF Begin
<1>6. CASE \E u \in Tab : LookupFails(u)
  BY <1>1, <1>6 DEF LookupFails, TerminalTypeOK
<1>7. CASE \E j \in Terminal : DeleteTerminal(j)
  BY <1>1, <1>2, <1>7 DEF DeleteTerminal, Deletable, Owned
<1>8. CASE CreateStandalone
  BY <1>1, <1>8, NextIdUnused, AdmittedFacts DEF CreateStandalone
<1>9. CASE Dispose \/ Stops \/ Start
  BY <1>3, <1>9 DEF Dispose, Stops, Stop, Start
<1>10. CASE Aborts
  <2>1. i \notin {op.made[u] : u \in Tab}
    BY <1>1
  <2>2. QED BY <1>2, <1>10, <2>1 DEF Aborts, SpawnFails, Rollback
<1>11. ASSUME NEW u \in Tab, Spawned(u) PROVE FALSE
  <2> DEFINE made == [op.made EXCEPT ![u] = NextId]
             st   == [status EXCEPT ![NextId] = Admitted]
  <2>1. /\ u \in op.todo /\ u # t /\ Unused # {}
        /\ \/ service = "disposed" /\ UNCHANGED service
           \/ status' = st /\ UNCHANGED sessions
           \/ Commit(made, st)
           \/ Rollback(made, st)
    BY <1>11 DEF Spawned
  <2>2. /\ NextId \in Terminal /\ NextId # i /\ st \in [Terminal -> Status] /\ st[i] = "live"
    BY <1>1, <2>1, NextIdUnused, AdmittedFacts
  <2>3. /\ made[t] = None /\ op.made \in [Tab -> Terminal \cup {None}]
        /\ \A v \in Tab : made[v] = op.made[v] \/ made[v] = NextId
    BY <1>1, <2>1, OperationParts
  <2> HIDE DEF made, st, i
  <2>4. CASE Commit(made, st)
    <3>1. t \notin op.closes
      BY <2>3, <2>4 DEF Commit, i
    <3>2. sessions'[t] = i /\ i \notin Retired(made)
      BY <1>1, <2>3, <2>4, <3>1, OperationParts DEF Commit, Retired, i
    <3>3. status'[i] = st[i]
      BY <1>1, <2>2, <2>4, <3>2, CloseFacts DEF Commit
    <3>4. QED BY <2>2, <3>2, <3>3 DEF i
  <2>5. CASE Rollback(made, st)
    <3>1. i \notin {made[v] : v \in Tab}
      BY <1>1, <2>2, <2>3
    <3>2. status'[i] = st[i] /\ UNCHANGED sessions
      BY <1>1, <2>2, <2>5, <3>1, CloseFacts DEF Rollback
    <3>3. QED BY <2>2, <3>2 DEF i
  <2>6. QED BY <2>1, <2>2, <2>4, <2>5 DEF i
<1>12. CASE \E j \in Terminal : Exits(j)
  <2>1. PICK j \in Terminal : Exits(j)
    BY <1>12
  <2>2. UNCHANGED sessions /\ status'[i] \in {"live", "exited", "gone"}
    BY <1>1, <2>1, ExitFacts DEF Exits, Exit
  <2>3. QED BY <2>2
<1>13. CASE RestoreBegins \/ ResumeSpawns \/ ResumeFails
  BY <1>3, <1>13 DEF RestoreBegins, ResumeSpawns, ResumeFails
<1>14. CASE Resumed
  <2> DEFINE st == [status EXCEPT ![NextId] = Admitted]
  <2>1. /\ t # AgentTab /\ Unused # {}
        /\ \/ /\ sessions[AgentTab] = attempt.previous
              /\ sessions' = [sessions EXCEPT ![AgentTab] = NextId]
              /\ status' = Close(st, {attempt.previous})
           \/ UNCHANGED sessions /\ status' = Close(st, {NextId})
    BY <1>1, <1>14 DEF Resumed, AttemptInv
  <2>2. NextId \in Terminal /\ NextId # i /\ st \in [Terminal -> Status] /\ st[i] = "live"
    BY <1>1, <2>1, NextIdUnused, AdmittedFacts
  <2>3. sessions[AgentTab] # i /\ sessions'[t] = i
    BY <1>1, <2>1, AgentAssumption DEF TerminalTypeOK
  <2> HIDE DEF st, i
  <2>4. status'[i] = st[i]
    BY <1>1, <2>1, <2>2, <2>3, CloseFacts
  <2>5. QED BY <2>2, <2>3, <2>4 DEF i
<1>15. CASE ResumeEnds
  BY <1>1, <1>15, AgentAssumption DEF ResumeEnds, Held, Attached, TerminalTypeOK
<1>16. ASSUME NEW c \in Client, DetachBegins(c)
       PROVE  /\ t = AgentTab /\ row.hib = "pending" /\ clients[c].step = "waiting"
              /\ clients[c].revision = row.revision /\ clients[c].terminal = sessions[t]
  <2>1. Detachable(c)
    BY <1>3, <1>16 DEF DetachBegins
  <2>2. t = AgentTab
    BY <1>1, <1>16, <2>1, AgentAssumption DEF DetachBegins, Detachable, TerminalTypeOK
  <2>3. QED BY <1>16, <2>1, <2>2 DEF DetachBegins, Detachable
<1>17. CASE \/ Transfer \/ RegisterAgent \/ Assess \/ RestoreLive \/ Cancel
            \/ \E c \in Client : \/ Preflight(c) \/ PreflightEnds(c)
                                 \/ Confirm(c) \/ ConfirmVerified(c)
  BY <1>3, <1>17, OtherAgentSteps DEF terminalVars
<1>18. CASE \E c \in Client : DetachUnverified(c) \/ Settle(c)
  BY <1>3, <1>18 DEF DetachUnverified, Settle
<1>19. QED
  BY <1>5, <1>6, <1>7, <1>8, <1>9, <1>10, <1>11, <1>12, <1>13, <1>14, <1>15, <1>16, <1>17, <1>18
     DEF Next, Spawns

\* A tab that stays open keeps the process it shows.
THEOREM ProcessKept == Spec => KeepsProcess
<1>1. IInv /\ [Next]_vars => [\A t \in Tabs("open") : Keeps(t)]_vars
  BY StepKeepsProcess DEF Tabs
<1>2. Spec => [][\A t \in Tabs("open") : Keeps(t)]_vars
  BY <1>1, InvariantHolds, PTL DEF Spec
<1>3. QED BY <1>2 DEF KeepsProcess, Keeps
===============================================================================
