-------------------------- MODULE AutomationProofs --------------------------
(* Proofs about browser automation, for any number of windows, sessions,     *)
(* operations and providers: first about the service alone                   *)
(* (BrowserAutomation), then about both ends together (AutomationProvider).  *)
EXTENDS AutomationProvider, FiniteSetTheorems, FunctionTheorems, TLAPS

\* The rows are well formed, and every operation row has its session row.
RowsOK(ss, os) ==
    /\ DOMAIN ss \subseteq SessionId
    /\ ss \in [DOMAIN ss -> Session]
    /\ DOMAIN os \subseteq OperationId
    /\ os \in [DOMAIN os -> Operation]
    /\ \A o \in DOMAIN os : os[o].session \in DOMAIN ss

OpsReady(ss, os) ==
    \A o \in DOMAIN os : os[o].state = "queued" => ss[os[o].session].state = "ready"

\* Every row that waits has its request in S.
Awaited(ss, os, S) ==
    /\ \A o \in DOMAIN os : os[o].state = "queued" => Execute(o) \in S
    /\ \A s \in DOMAIN ss : /\ ss[s].state = "creating"   => Create(s)  \in S
                            /\ ss[s].state = "destroying" => Destroy(s) \in S

HandlesOK(ss, os, H) ==
    /\ H \subseteq DOMAIN os
    /\ \A o \in H : os[o].state = "succeeded" /\ ss[os[o].session].state = "ready"

\* The states of a session that nobody asked to destroy.
Undestroyed == {"creating", "ready"}

\* The rows ss and os may follow the current ones: nothing is deleted, no
\* outcome is rewritten, no operation changes its session, no session its
\* provider, no navigation epoch moves back, no destroy is taken back, and a
\* session gets ready only with the answer to its create request.
Follows(ss, os) ==
    /\ DOMAIN sessions \subseteq DOMAIN ss
    /\ DOMAIN operations \subseteq DOMAIN os
    /\ \A o \in DOMAIN operations : /\ ~Queued(o) => os[o].state = operations[o].state
                                    /\ os[o].session = operations[o].session
                                    /\ os[o].navigation = operations[o].navigation
    /\ \A s \in DOMAIN sessions : /\ ~Live(s) => ss[s].state = sessions[s].state
                                  /\ ss[s].navigation >= sessions[s].navigation
                                  /\ ss[s].provider = sessions[s].provider
                                  /\ ss[s].state \in Undestroyed => sessions[s].state \in Undestroyed
                                  /\ ss[s].state = "ready" => \/ sessions[s].state = "ready"
                                                              \/ mail'[Create(s)] = "acknowledged"

EnvOK ==
    /\ hosted \subseteq Window
    /\ leases \in [Window -> Provider \cup {NoProvider}]
    /\ issued \in 0 .. MaxProvider
    /\ up \in BOOLEAN

RowInv ==
    /\ RowsOK(sessions, operations)
    /\ OpsReady(sessions, operations)
    /\ up => Awaited(sessions, operations, Pending)
    /\ HandlesOK(sessions, operations, handles)
    /\ mail \in [Request -> MailStatus]

IInv == EnvOK /\ RowInv

-----------------------------------------------------------------------------
(* What the end of a handler preserves.                                      *)

\* The names of two requests are equal only if they name the same work.
LEMMA RequestNames ==
    /\ \A s \in SessionId : Create(s) \in Request /\ Destroy(s) \in Request
    /\ \A o \in OperationId : Execute(o) \in Request /\ Withdraw(o) \in Request
    /\ \A s, t : Create(s) # Destroy(t) /\ Execute(s) # Create(t) /\ Execute(s) # Destroy(t)
    /\ \A s, t : Withdraw(s) # Create(t) /\ Withdraw(s) # Destroy(t) /\ Withdraw(s) # Execute(t)
    /\ \A s, t : Create(s) = Create(t) => s = t
    /\ \A s, t : Destroy(s) = Destroy(t) => s = t
    /\ \A s, t : Execute(s) = Execute(t) => s = t
    /\ \A s, t : Withdraw(s) = Withdraw(t) => s = t
<1>1. \A s \in SessionId : Create(s) \in Request /\ Destroy(s) \in Request
  BY DEF Create, Destroy, Request
<1>2. \A o \in OperationId : Execute(o) \in Request /\ Withdraw(o) \in Request
  BY DEF Execute, Withdraw, Request
<1>3. QED BY <1>1, <1>2 DEF Create, Destroy, Execute, Withdraw

\* Interrupting requests keeps the rows well formed, and ends those it names.
LEMMA InterruptRows ==
    ASSUME NEW ss, NEW os, NEW R,
           RowsOK(ss, os), OpsReady(ss, os),
           sessions' = InterruptSessions(ss, R),
           operations' = InterruptOperations(os, R)
    PROVE  /\ RowsOK(sessions', operations')
           /\ OpsReady(sessions', operations')
           /\ \A S : Awaited(ss, os, S \cup R) => Awaited(sessions', operations', S)
           /\ \A H : HandlesOK(ss, os, H) => HandlesOK(sessions', operations', H)
           /\ Follows(ss, os) => Follows(sessions', operations')
<1>1. /\ DOMAIN sessions' = DOMAIN ss
      /\ DOMAIN operations' = DOMAIN os
  BY DEF InterruptSessions, InterruptOperations
<1>2. \A s \in DOMAIN ss :
        /\ sessions'[s] \in Session
        /\ ss[s].state \notin {"creating", "destroying"} => sessions'[s] = ss[s]
        /\ sessions'[s].state = ss[s].state \/ sessions'[s].state \in {"failed", "destroyed"}
        /\ sessions'[s].navigation = ss[s].navigation
        /\ sessions'[s].provider = ss[s].provider
        /\ ss[s].state = "creating" /\ Create(s) \in R => sessions'[s].state = "failed"
        /\ ss[s].state = "destroying" /\ Destroy(s) \in R => sessions'[s].state = "destroyed"
  <2> SUFFICES ASSUME NEW s \in DOMAIN ss
               PROVE  /\ sessions'[s] \in Session
                      /\ ss[s].state \notin {"creating", "destroying"} => sessions'[s] = ss[s]
                      /\ \/ sessions'[s].state = ss[s].state
                         \/ sessions'[s].state \in {"failed", "destroyed"}
                      /\ sessions'[s].navigation = ss[s].navigation
                      /\ sessions'[s].provider = ss[s].provider
                      /\ ss[s].state = "creating" /\ Create(s) \in R
                           => sessions'[s].state = "failed"
                      /\ ss[s].state = "destroying" /\ Destroy(s) \in R
                           => sessions'[s].state = "destroyed"
    OBVIOUS
  <2>1. ss[s] \in Session
    BY DEF RowsOK
  <2>2. sessions'[s] = IF Create(s) \in R /\ ss[s].state = "creating"
                       THEN [ss[s] EXCEPT !.state = "failed"]
                       ELSE IF Destroy(s) \in R /\ ss[s].state = "destroying"
                       THEN [ss[s] EXCEPT !.state = "destroyed"]
                       ELSE ss[s]
    BY DEF InterruptSessions
  <2>3. QED BY <2>1, <2>2 DEF Session, SessionState, LiveSession
<1>3. \A o \in DOMAIN os :
        /\ operations'[o] \in Operation
        /\ os[o].state # "queued" => operations'[o] = os[o]
        /\ operations'[o].session = os[o].session
        /\ operations'[o].navigation = os[o].navigation
        /\ Execute(o) \in R => operations'[o].state # "queued"
  <2> SUFFICES ASSUME NEW o \in DOMAIN os
               PROVE  /\ operations'[o] \in Operation
                      /\ os[o].state # "queued" => operations'[o] = os[o]
                      /\ operations'[o].session = os[o].session
                      /\ operations'[o].navigation = os[o].navigation
                      /\ Execute(o) \in R => operations'[o].state # "queued"
    OBVIOUS
  <2>1. os[o] \in Operation
    BY DEF RowsOK
  <2>2. operations'[o] = IF Execute(o) \in R /\ os[o].state = "queued"
                         THEN [os[o] EXCEPT !.state = "interrupted"] ELSE os[o]
    BY DEF InterruptOperations
  <2>3. QED BY <2>1, <2>2 DEF Operation, OperationState, OperationFinal
<1>4. sessions' \in [DOMAIN sessions' -> Session] /\ operations' \in [DOMAIN operations' -> Operation]
  BY <1>1, <1>2, <1>3 DEF InterruptSessions, InterruptOperations
<1>5. RowsOK(sessions', operations')
  BY <1>1, <1>3, <1>4 DEF RowsOK
<1>6. OpsReady(sessions', operations')
  BY <1>1, <1>2, <1>3 DEF OpsReady, RowsOK
<1>7. \A S : Awaited(ss, os, S \cup R) => Awaited(sessions', operations', S)
  BY <1>1, <1>2, <1>3 DEF Awaited
<1>8. \A H : HandlesOK(ss, os, H) => HandlesOK(sessions', operations', H)
  BY <1>1, <1>2, <1>3 DEF HandlesOK, RowsOK
<1>9. Follows(ss, os) => Follows(sessions', operations')
  <2> SUFFICES ASSUME Follows(ss, os) PROVE Follows(sessions', operations')
    OBVIOUS
  <2>1. \A o \in DOMAIN operations : ~Queued(o) => operations'[o].state = operations[o].state
    BY <1>3 DEF Follows, Queued
  <2>2. \A s \in DOMAIN sessions : ~Live(s) => sessions'[s].state = sessions[s].state
    BY <1>2 DEF Follows, Live, LiveSession
  <2>3. \A s \in DOMAIN sessions : sessions'[s].navigation >= sessions[s].navigation
    BY <1>2 DEF Follows
  <2>4. \A o \in DOMAIN operations : /\ operations'[o].session = operations[o].session
                                     /\ operations'[o].navigation = operations[o].navigation
    BY <1>3 DEF Follows
  <2>5. \A s \in DOMAIN sessions :
          /\ sessions'[s].provider = sessions[s].provider
          /\ sessions'[s].state \in Undestroyed => sessions[s].state \in Undestroyed
          /\ sessions'[s].state = "ready" => \/ sessions[s].state = "ready"
                                              \/ mail'[Create(s)] = "acknowledged"
    BY <1>2 DEF Follows, Undestroyed
  <2>6. QED BY <1>1, <2>1, <2>2, <2>3, <2>4, <2>5 DEF Follows
<1>10. QED BY <1>5, <1>6, <1>7, <1>8, <1>9

\* A handler that leaves good rows behind, with every waiting one in the
\* mailbox, posted, or among those it interrupts, keeps the row invariant.
LEMMA CompleteKeepsRowInv ==
    ASSUME NEW ss, NEW os, NEW R, NEW posted \in SUBSET Request,
           mail \in [Request -> MailStatus],
           RowsOK(ss, os), OpsReady(ss, os),
           up => Awaited(ss, os, Pending \cup R \cup posted),
           up' = up, HandlesOK(ss, os, handles'), Follows(ss, os),
           Complete(ss, os, R, posted)
    PROVE  RowInv' /\ Follows(sessions', operations')
<1>1. PICK inFlight \in SUBSET posted :
         mail' = [r \in Request |->
                     IF r \in inFlight THEN "inFlight"
                     ELSE IF r \in posted THEN "queued"
                     ELSE IF r \in R \cap Pending THEN "interrupted" ELSE mail[r]]
  BY DEF Complete
<1>2. mail' \in [Request -> MailStatus]
  BY <1>1 DEF MailStatus
<1>3. (Pending \ R) \cup posted \subseteq Pending'
  BY <1>1 DEF Pending
<1>4. /\ RowsOK(sessions', operations')
      /\ OpsReady(sessions', operations')
      /\ \A S : Awaited(ss, os, S \cup R) => Awaited(sessions', operations', S)
      /\ HandlesOK(sessions', operations', handles')
      /\ Follows(sessions', operations')
  BY InterruptRows DEF Complete
<1>5. up' => Awaited(sessions', operations', Pending')
  <2> SUFFICES ASSUME up PROVE Awaited(sessions', operations', Pending')
    OBVIOUS
  <2>1. Pending \cup R \cup posted \subseteq Pending' \cup R
    BY <1>3
  <2>2. Awaited(ss, os, Pending' \cup R)
    BY <2>1 DEF Awaited
  <2>3. QED BY <1>4, <2>2
<1>6. QED BY <1>2, <1>4, <1>5 DEF RowInv

\* The current rows follow themselves.
LEMMA FollowsSelf == ASSUME RowsOK(sessions, operations) PROVE Follows(sessions, operations)
BY DEF Follows, RowsOK, Session, Navigation

-----------------------------------------------------------------------------
(* One lemma per group of handlers: each keeps the invariant, and leaves     *)
(* rows that follow the current ones.                                        *)

Kept == IInv' /\ Follows(sessions', operations')

\* Losing requests, with the rows as they are: a provider is registered,
\* revoked or found lapsed, or a timer fires.
LEMMA LossKeepsIInv ==
    ASSUME IInv,
           \/ \E w \in Window : RegisterTrustedWindow(w) \/ LoseProvider(w)
           \/ ClaimFails
           \/ \E r \in Request : TimesOut(r)
    PROVE  Kept
<1>1. PICK R : Complete(sessions, operations, R, {})
  BY DEF RegisterTrustedWindow, LoseProvider, ClaimFails, TimesOut
<1>2. handles' = handles /\ up' = up
  BY DEF RegisterTrustedWindow, LoseProvider, ClaimFails, TimesOut
<1>3. /\ mail \in [Request -> MailStatus]
      /\ RowsOK(sessions, operations)
      /\ OpsReady(sessions, operations)
      /\ HandlesOK(sessions, operations, handles')
      /\ up => Awaited(sessions, operations, Pending \cup R \cup {})
  BY <1>2 DEF IInv, RowInv, Awaited
<1>4. Follows(sessions, operations)
  BY <1>3, FollowsSelf
<1>5. RowInv' /\ Follows(sessions', operations')
  BY <1>1, <1>2, <1>3, <1>4, CompleteKeepsRowInv
<1>6. EnvOK'
  <2>1. CASE \E w \in Window : RegisterTrustedWindow(w)
    <3>1. PICK w \in Window : RegisterTrustedWindow(w)
      BY <2>1
    <3>2. issued + 1 \in Provider /\ issued' \in 0 .. MaxProvider
      BY <3>1, ProviderAssumption DEF IInv, EnvOK, RegisterTrustedWindow, Provider
    <3>3. QED BY <3>1, <3>2 DEF IInv, EnvOK, RegisterTrustedWindow
  <2>2. CASE \E w \in Window : LoseProvider(w)
    BY <2>2 DEF IInv, EnvOK, LoseProvider, Revoke
  <2>3. CASE ClaimFails
    BY <2>3 DEF IInv, EnvOK, ClaimFails, Revoke
  <2>4. CASE \E r \in Request : TimesOut(r)
    BY <2>4 DEF IInv, EnvOK, TimesOut
  <2>5. QED BY <2>1, <2>2, <2>3, <2>4
<1>7. QED BY <1>5, <1>6 DEF Kept, IInv

\* The environment: placements, the two clocks, and the life of a handle.
LEMMA EnvironmentKeepsIInv ==
    ASSUME IInv,
           \/ \E w \in Window : WindowHosted(w)
           \/ \E s \in SessionId : SessionExpires(s)
           \/ \E o \in OperationId : OperationOverdue(o) \/ HandleGone(o)
    PROVE  Kept
<1>1. Follows(sessions, operations)
  BY FollowsSelf DEF IInv, RowInv
<1>2. CASE \E w \in Window : WindowHosted(w)
  BY <1>1, <1>2 DEF Kept, IInv, EnvOK, RowInv, WindowHosted, Pending
<1>3. CASE \E o \in OperationId : HandleGone(o)
  <2>1. HandlesOK(sessions, operations, handles')
    BY <1>3 DEF IInv, RowInv, HandlesOK, HandleGone
  <2>2. QED BY <1>1, <1>3, <2>1 DEF Kept, IInv, EnvOK, RowInv, HandleGone, Pending
<1>4. ASSUME NEW s \in SessionId, SessionExpires(s) PROVE Kept
  <2>1. /\ DOMAIN sessions' = DOMAIN sessions
        /\ sessions' \in [DOMAIN sessions -> Session]
        /\ \A x \in DOMAIN sessions : /\ sessions'[x].state = sessions[x].state
                                      /\ sessions'[x].navigation = sessions[x].navigation
                                      /\ sessions'[x].provider = sessions[x].provider
        /\ UNCHANGED <<hosted, leases, issued, up, operations, handles, mail>>
    BY <1>4 DEF IInv, RowInv, RowsOK, SessionExpires, Session
  <2>2. RowsOK(sessions', operations') /\ OpsReady(sessions', operations')
    BY <2>1 DEF IInv, RowInv, RowsOK, OpsReady
  <2>3. up' => Awaited(sessions', operations', Pending')
    BY <2>1 DEF IInv, RowInv, Awaited, Pending
  <2>4. HandlesOK(sessions', operations', handles')
    BY <2>1 DEF IInv, RowInv, RowsOK, HandlesOK
  <2>5. Follows(sessions', operations')
    BY <1>1, <2>1 DEF Follows, Live
  <2>6. QED BY <2>1, <2>2, <2>3, <2>4, <2>5 DEF Kept, IInv, EnvOK, RowInv
<1>5. ASSUME NEW o \in OperationId, OperationOverdue(o) PROVE Kept
  <2>1. /\ DOMAIN operations' = DOMAIN operations
        /\ operations' \in [DOMAIN operations -> Operation]
        /\ \A x \in DOMAIN operations : /\ operations'[x].state = operations[x].state
                                        /\ operations'[x].session = operations[x].session
                                        /\ operations'[x].navigation = operations[x].navigation
        /\ UNCHANGED <<hosted, leases, issued, up, sessions, handles, mail>>
    BY <1>5 DEF IInv, RowInv, RowsOK, OperationOverdue, Operation
  <2>2. RowsOK(sessions', operations') /\ OpsReady(sessions', operations')
    BY <2>1 DEF IInv, RowInv, RowsOK, OpsReady
  <2>3. up' => Awaited(sessions', operations', Pending')
    BY <2>1 DEF IInv, RowInv, Awaited, Pending
  <2>4. HandlesOK(sessions', operations', handles')
    BY <2>1 DEF IInv, RowInv, RowsOK, HandlesOK
  <2>5. Follows(sessions', operations')
    BY <1>1, <2>1 DEF Follows
  <2>6. QED BY <2>1, <2>2, <2>3, <2>4, <2>5 DEF Kept, IInv, EnvOK, RowInv
<1>6. QED BY <1>2, <1>3, <1>4, <1>5

\* createSession.
LEMMA CreateKeepsIInv ==
    ASSUME IInv, NEW s \in SessionId, NEW w \in Window, CreateSession(s, w)
    PROVE  Kept
<1> DEFINE p      == leases[w]
           gone   == MailOf(Lapsed)
           staged == [x \in DOMAIN sessions \cup {s} |->
                        IF x = s THEN NewSession(p) ELSE sessions[x]]
<1>1. PICK posted \in PublishOutcomes(Create(s), gone) :
         Complete(staged, operations, gone \cup ({Create(s)} \ posted), posted)
  BY DEF CreateSession
<1> DEFINE R == gone \cup ({Create(s)} \ posted)
<1>2. /\ s \notin DOMAIN sessions
      /\ p \in Provider
      /\ up' = up /\ handles' = handles
  BY DEF CreateSession, IInv, EnvOK
<1>3. posted \subseteq {Create(s)}
  BY DEF PublishOutcomes
<1>4. Create(s) \in R \cup posted
  OBVIOUS
<1>5. NewSession(p) \in Session
  BY <1>2, NavigationAssumption DEF NewSession, Session, SessionState, LiveSession, Navigation
<1>6. /\ DOMAIN staged = DOMAIN sessions \cup {s}
      /\ staged[s] = NewSession(p)
      /\ \A x \in DOMAIN sessions : staged[x] = sessions[x]
  BY <1>2
<1> HIDE DEF p, gone, staged, R
<1>7. staged \in [DOMAIN staged -> Session]
  BY <1>5, <1>6 DEF staged, IInv, RowInv, RowsOK
<1>8. RowsOK(staged, operations)
  BY <1>6, <1>7 DEF IInv, RowInv, RowsOK
<1>9. OpsReady(staged, operations) /\ HandlesOK(staged, operations, handles')
  BY <1>2, <1>6 DEF IInv, RowInv, RowsOK, OpsReady, HandlesOK
<1>10. up => Awaited(staged, operations, Pending \cup R \cup posted)
  BY <1>4, <1>6 DEF IInv, RowInv, Awaited, NewSession
<1>11. Follows(staged, operations)
  BY <1>6, FollowsSelf DEF IInv, RowInv, Follows
<1>12. posted \in SUBSET Request
  BY <1>3, RequestNames
<1>13. Complete(staged, operations, R, posted)
  BY <1>1 DEF R, staged
<1>14. mail \in [Request -> MailStatus]
  BY DEF IInv, RowInv
<1>15. RowInv' /\ Follows(sessions', operations')
  BY <1>2, <1>8, <1>9, <1>10, <1>11, <1>12, <1>13, <1>14, CompleteKeepsRowInv
<1>16. EnvOK'
  BY DEF CreateSession, Revoke, IInv, EnvOK
<1>17. QED BY <1>15, <1>16 DEF Kept, IInv

\* invoke.
LEMMA InvokeKeepsIInv ==
    ASSUME IInv, NEW o \in OperationId, NEW s \in SessionId, Invoke(o, s)
    PROVE  Kept
<1> DEFINE gone    == MailOf(Lapsed)
           new     == [state |-> "queued", session |-> s,
                       navigation |-> sessions[s].navigation, overdue |-> FALSE]
           staged  == [x \in DOMAIN operations \cup {o} |-> IF x = o THEN new ELSE operations[x]]
           renewed == [sessions EXCEPT ![s].expired = FALSE]
<1>1. PICK posted \in PublishOutcomes(Execute(o), gone) :
         Complete(renewed, staged, gone \cup ({Execute(o)} \ posted), posted)
  BY DEF Invoke
<1> DEFINE R == gone \cup ({Execute(o)} \ posted)
<1>2. /\ o \notin DOMAIN operations
      /\ s \in DOMAIN sessions /\ sessions[s].state = "ready"
      /\ up' = up /\ handles' = handles
  BY DEF Invoke
<1>3. posted \subseteq {Execute(o)}
  BY DEF PublishOutcomes
<1>4. Execute(o) \in R \cup posted
  OBVIOUS
<1>5. sessions[s] \in Session
  BY <1>2 DEF IInv, RowInv, RowsOK
<1>6. new \in Operation /\ new.session = s
  BY <1>5 DEF Session, Operation, OperationState
<1>7. /\ DOMAIN staged = DOMAIN operations \cup {o}
      /\ staged[o] = new
      /\ \A x \in DOMAIN operations : staged[x] = operations[x]
  BY <1>2
<1>8. /\ DOMAIN renewed = DOMAIN sessions
      /\ renewed \in [DOMAIN sessions -> Session]
      /\ \A x \in DOMAIN sessions : /\ renewed[x].state = sessions[x].state
                                    /\ renewed[x].navigation = sessions[x].navigation
                                    /\ renewed[x].provider = sessions[x].provider
  BY <1>2, <1>5 DEF IInv, RowInv, RowsOK, Session
<1> HIDE DEF gone, new, staged, renewed, R
<1>9. staged \in [DOMAIN staged -> Operation]
  BY <1>6, <1>7 DEF staged, IInv, RowInv, RowsOK
<1>10. RowsOK(renewed, staged)
  BY <1>2, <1>6, <1>7, <1>8, <1>9 DEF IInv, RowInv, RowsOK
<1>11. OpsReady(renewed, staged) /\ HandlesOK(renewed, staged, handles')
  BY <1>2, <1>6, <1>7, <1>8 DEF IInv, RowInv, RowsOK, OpsReady, HandlesOK
<1>12. up => Awaited(renewed, staged, Pending \cup R \cup posted)
  BY <1>4, <1>7, <1>8 DEF IInv, RowInv, Awaited
<1>13. Follows(renewed, staged)
  BY <1>7, <1>8, FollowsSelf DEF IInv, RowInv, Follows
<1>14. posted \in SUBSET Request
  BY <1>3, RequestNames
<1>15. Complete(renewed, staged, R, posted)
  BY <1>1 DEF R, staged, renewed, new, gone
<1>16. mail \in [Request -> MailStatus]
  BY DEF IInv, RowInv
<1>17. RowInv' /\ Follows(sessions', operations')
  BY <1>2, <1>10, <1>11, <1>12, <1>13, <1>14, <1>15, <1>16, CompleteKeepsRowInv
<1>18. EnvOK'
  BY DEF Invoke, Revoke, IInv, EnvOK
<1>19. QED BY <1>17, <1>18 DEF Kept, IInv

\* cancelOperation.
LEMMA CancelKeepsIInv ==
    ASSUME IInv, NEW o \in OperationId, CancelOperation(o)
    PROVE  Kept
<1> DEFINE q      == sessions[operations[o].session].provider
           lapsed == {w \in Lapsed : leases[w] = q}
           gone   == Unsent(o) \cup MailOf(lapsed)
           staged == [operations EXCEPT ![o].state = "canceled"]
<1>1. PICK posted \in (IF IsCurrent(q) THEN PublishOutcomes(Withdraw(o), gone) ELSE {{}}) :
         Complete(sessions, staged, gone, posted)
  BY DEF CancelOperation
<1>2. o \in DOMAIN operations /\ Queued(o) /\ up' = up /\ handles' = handles
  BY DEF CancelOperation
<1>3. posted \subseteq {Withdraw(o)}
  BY DEF PublishOutcomes
<1>4. operations[o] \in Operation
  BY <1>2 DEF IInv, RowInv, RowsOK
<1>5. /\ DOMAIN staged = DOMAIN operations
      /\ staged \in [DOMAIN staged -> Operation]
      /\ staged[o].state = "canceled"
      /\ \A x \in DOMAIN operations : /\ staged[x].session = operations[x].session
                                      /\ staged[x].navigation = operations[x].navigation
                                      /\ x # o => staged[x] = operations[x]
  BY <1>2, <1>4 DEF IInv, RowInv, RowsOK, Operation, OperationState, OperationFinal
<1> HIDE DEF q, lapsed, gone, staged
<1>6. RowsOK(sessions, staged)
  BY <1>5 DEF IInv, RowInv, RowsOK
<1>7. OpsReady(sessions, staged) /\ HandlesOK(sessions, staged, handles')
  BY <1>2, <1>5 DEF IInv, RowInv, RowsOK, OpsReady, HandlesOK, Queued
<1>8. up => Awaited(sessions, staged, Pending \cup gone \cup posted)
  BY <1>5 DEF IInv, RowInv, Awaited
<1>9. Follows(sessions, staged)
  BY <1>2, <1>5, FollowsSelf DEF IInv, RowInv, Follows, Queued
<1>10. posted \in SUBSET Request
  BY <1>3, RequestNames
<1>11. Complete(sessions, staged, gone, posted)
  BY <1>1 DEF staged, gone, lapsed, q
<1>12. mail \in [Request -> MailStatus]
  BY DEF IInv, RowInv
<1>13. RowInv' /\ Follows(sessions', operations')
  BY <1>2, <1>6, <1>7, <1>8, <1>9, <1>10, <1>11, <1>12, CompleteKeepsRowInv
<1>14. EnvOK'
  BY DEF CancelOperation, Revoke, IInv, EnvOK
<1>15. QED BY <1>13, <1>14 DEF Kept, IInv

\* The sessions in S are ready, none owns a handle in K, and N awaits M and
\* the destroy of each.
Stageable(ss, os, S, K, M, N) ==
    /\ \A s \in S \cap DOMAIN ss : ss[s].state = "ready"
    /\ \A o \in K : os[o].session \notin S
    /\ \A r \in M : r \in N
    /\ \A s \in S : Destroy(s) \in N

\* stageDestroy: sessions that were ready become destroying, their operations
\* end and their handles are released; the other rows stay good.
LEMMA StageDestroyRows ==
    ASSUME NEW ss, NEW os, NEW S, NEW K, NEW M, NEW N,
           RowsOK(ss, os), OpsReady(ss, os), HandlesOK(ss, os, K), Awaited(ss, os, M),
           Stageable(ss, os, S, K, M, N)
    PROVE  /\ RowsOK(StageDestroySessions(ss, S), StageDestroyOperations(os, S))
           /\ OpsReady(StageDestroySessions(ss, S), StageDestroyOperations(os, S))
           /\ HandlesOK(StageDestroySessions(ss, S), StageDestroyOperations(os, S), K)
           /\ Awaited(StageDestroySessions(ss, S), StageDestroyOperations(os, S), N)
           /\ Follows(ss, os) => Follows(StageDestroySessions(ss, S),
                                         StageDestroyOperations(os, S))
<1> DEFINE ds == StageDestroySessions(ss, S)
           do == StageDestroyOperations(os, S)
<1>1. DOMAIN ds = DOMAIN ss /\ DOMAIN do = DOMAIN os
  BY DEF StageDestroySessions, StageDestroyOperations
<1>2. \A s \in DOMAIN ss :
        /\ ds[s] \in Session
        /\ s \notin S => ds[s] = ss[s]
        /\ s \in S => ds[s].state = "destroying"
        /\ ds[s].navigation = ss[s].navigation
        /\ ds[s].provider = ss[s].provider
  <2> SUFFICES ASSUME NEW s \in DOMAIN ss
               PROVE  /\ ds[s] \in Session
                      /\ s \notin S => ds[s] = ss[s]
                      /\ s \in S => ds[s].state = "destroying"
                      /\ ds[s].navigation = ss[s].navigation
                      /\ ds[s].provider = ss[s].provider
    OBVIOUS
  <2>1. ss[s] \in Session
    BY DEF RowsOK
  <2>2. ds[s] = IF s \in S THEN [ss[s] EXCEPT !.state = "destroying"] ELSE ss[s]
    BY DEF StageDestroySessions
  <2>3. QED BY <2>1, <2>2 DEF Session, SessionState, LiveSession
<1>3. \A o \in DOMAIN os :
        /\ do[o] \in Operation
        /\ os[o].state # "queued" => do[o] = os[o]
        /\ do[o].session = os[o].session
        /\ do[o].navigation = os[o].navigation
        /\ os[o].session \in S => do[o].state # "queued"
        /\ do[o].state = "queued" => os[o].state = "queued"
  <2> SUFFICES ASSUME NEW o \in DOMAIN os
               PROVE  /\ do[o] \in Operation
                      /\ os[o].state # "queued" => do[o] = os[o]
                      /\ do[o].session = os[o].session
                      /\ do[o].navigation = os[o].navigation
                      /\ os[o].session \in S => do[o].state # "queued"
                      /\ do[o].state = "queued" => os[o].state = "queued"
    OBVIOUS
  <2>1. os[o] \in Operation
    BY DEF RowsOK
  <2>2. do[o] = IF os[o].state = "queued" /\ os[o].session \in S
                THEN [os[o] EXCEPT !.state = "interrupted"] ELSE os[o]
    BY DEF StageDestroyOperations
  <2>3. QED BY <2>1, <2>2 DEF Operation, OperationState, OperationFinal
<1>4. ds \in [DOMAIN ds -> Session] /\ do \in [DOMAIN do -> Operation]
  BY <1>1, <1>2, <1>3 DEF StageDestroySessions, StageDestroyOperations
<1> HIDE DEF ds, do
<1>5. RowsOK(ds, do)
  BY <1>1, <1>3, <1>4 DEF RowsOK
<1>6. OpsReady(ds, do)
  BY <1>1, <1>2, <1>3 DEF OpsReady, RowsOK
<1>7. HandlesOK(ds, do, K)
  BY <1>1, <1>2, <1>3 DEF HandlesOK, RowsOK, Stageable
<1>8. Awaited(ds, do, N)
  BY <1>1, <1>2, <1>3 DEF Awaited, Stageable
<1>9. Follows(ss, os) => Follows(ds, do)
  BY <1>1, <1>2, <1>3 DEF Follows, Queued, Live, LiveSession, Stageable, Undestroyed
<1>10. QED BY <1>5, <1>6, <1>7, <1>8, <1>9 DEF ds, do

\* destroySession.
LEMMA DestroyKeepsIInv ==
    ASSUME IInv, NEW s \in SessionId, DestroySession(s)
    PROVE  Kept
<1> DEFINE gone == MailOf(Lapsed)
           ds == StageDestroySessions(sessions, {s})
           do == StageDestroyOperations(operations, {s})
<1>1. PICK posted \in PublishOutcomes(Destroy(s), gone) :
         Complete(ds, do, gone \cup ({Destroy(s)} \ posted), posted)
  BY DEF DestroySession
<1> DEFINE R == gone \cup ({Destroy(s)} \ posted)
<1>2. /\ up' = up /\ up
      /\ sessions[s].state = "ready"
      /\ handles' = {o \in handles : operations[o].session \notin {s}}
  BY DEF DestroySession, IsCurrent, ReleaseSessions
<1>3. posted \subseteq {Destroy(s)}
  BY DEF PublishOutcomes
<1>4. /\ RowsOK(sessions, operations) /\ OpsReady(sessions, operations)
      /\ HandlesOK(sessions, operations, handles)
      /\ Awaited(sessions, operations, Pending)
      /\ mail \in [Request -> MailStatus]
  BY <1>2 DEF IInv, RowInv
<1>5. Follows(sessions, operations)
  BY <1>4, FollowsSelf
<1>6. /\ RowsOK(ds, do) /\ OpsReady(ds, do)
      /\ HandlesOK(ds, do, handles')
      /\ Awaited(ds, do, Pending \cup R \cup posted)
      /\ Follows(ds, do)
  <2> DEFINE K == handles'
             N == Pending \cup R \cup posted
  <2>1. HandlesOK(sessions, operations, K)
    BY <1>2, <1>4 DEF HandlesOK
  <2>2. Stageable(sessions, operations, {s}, K, Pending, N)
    BY <1>2 DEF Stageable
  <2> HIDE DEF K, N
  <2>3. QED BY <1>4, <1>5, <2>1, <2>2, StageDestroyRows DEF K, N
<1> HIDE DEF gone, ds, do, R
<1>7. up => Awaited(ds, do, Pending \cup R \cup posted)
  BY <1>6
<1>8. posted \in SUBSET Request
  BY <1>3, RequestNames
<1>9. Complete(ds, do, R, posted)
  BY <1>1 DEF R
<1>10. RowInv' /\ Follows(sessions', operations')
  BY <1>2, <1>4, <1>6, <1>7, <1>8, <1>9, CompleteKeepsRowInv
<1>11. EnvOK'
  BY DEF DestroySession, Revoke, IInv, EnvOK
<1>12. QED BY <1>10, <1>11 DEF Kept, IInv

\* The rows reconcile() leaves before it stages the expired sessions' destroys.
LEMMA ReconcileRows ==
    ASSUME IInv, up
    PROVE  /\ RowsOK(ReconcileSessions, ReconcileOperations)
           /\ OpsReady(ReconcileSessions, ReconcileOperations)
           /\ HandlesOK(ReconcileSessions, ReconcileOperations,
                        {o \in handles : operations[o].session \notin DroppedSessions})
           /\ Awaited(ReconcileSessions, ReconcileOperations, Pending)
           /\ Follows(ReconcileSessions, ReconcileOperations)
           /\ \A s \in Expiring \cap DOMAIN ReconcileSessions : ReconcileSessions[s].state = "ready"
           /\ \A o \in DOMAIN operations : ReconcileOperations[o].session = operations[o].session
<1> DEFINE ss == ReconcileSessions
           os == ReconcileOperations
<1>1. DOMAIN ss = DOMAIN sessions /\ DOMAIN os = DOMAIN operations
  BY DEF ReconcileSessions, ReconcileOperations
<1>2. \A s \in DOMAIN sessions :
        /\ ss[s] \in Session
        /\ s \notin DroppedSessions \ Expiring => ss[s] = sessions[s]
        /\ s \in DroppedSessions \ Expiring => ss[s].state \in {"failed", "expired"}
        /\ ss[s].navigation = sessions[s].navigation
        /\ ss[s].provider = sessions[s].provider
  <2> SUFFICES ASSUME NEW s \in DOMAIN sessions
               PROVE  /\ ss[s] \in Session
                      /\ s \notin DroppedSessions \ Expiring => ss[s] = sessions[s]
                      /\ s \in DroppedSessions \ Expiring => ss[s].state \in {"failed", "expired"}
                      /\ ss[s].navigation = sessions[s].navigation
                      /\ ss[s].provider = sessions[s].provider
    OBVIOUS
  <2>1. sessions[s] \in Session
    BY DEF IInv, RowInv, RowsOK
  <2>2. EndedState(s) \in {"failed", "expired"}
    BY DEF EndedState
  <2>3. ss[s] = IF s \in DroppedSessions \ Expiring
                THEN [sessions[s] EXCEPT !.state = EndedState(s)] ELSE sessions[s]
    BY DEF ReconcileSessions
  <2>4. QED BY <2>1, <2>2, <2>3 DEF Session, SessionState
<1>3. \A o \in DOMAIN operations :
        /\ os[o] \in Operation
        /\ o \notin DroppedOperations => os[o] = operations[o]
        /\ o \in DroppedOperations => os[o].state # "queued"
        /\ os[o].session = operations[o].session
        /\ os[o].navigation = operations[o].navigation
  <2> SUFFICES ASSUME NEW o \in DOMAIN operations
               PROVE  /\ os[o] \in Operation
                      /\ o \notin DroppedOperations => os[o] = operations[o]
                      /\ o \in DroppedOperations => os[o].state # "queued"
                      /\ os[o].session = operations[o].session
                      /\ os[o].navigation = operations[o].navigation
    OBVIOUS
  <2>1. operations[o] \in Operation
    BY DEF IInv, RowInv, RowsOK
  <2>2. os[o] = IF o \in DroppedOperations
                THEN [operations[o] EXCEPT !.state = IF operations[o].overdue THEN "expired"
                                                                          ELSE "interrupted"]
                ELSE operations[o]
    BY DEF ReconcileOperations
  <2>3. QED BY <2>1, <2>2 DEF Operation, OperationState, OperationFinal
<1>4. ss \in [DOMAIN ss -> Session] /\ os \in [DOMAIN os -> Operation]
  BY <1>1, <1>2, <1>3 DEF ReconcileSessions, ReconcileOperations
<1>5. \A s \in DroppedSessions : s \in DOMAIN sessions /\ Live(s)
  BY DEF DroppedSessions
<1>6. \A o \in DroppedOperations : o \in DOMAIN operations /\ Queued(o)
  BY DEF DroppedOperations
<1>7. \A s \in DroppedSessions : sessions[s].state = "ready" /\ IsCurrent(sessions[s].provider)
                                 => s \in Expiring
  BY DEF Expiring
<1>8. \A o \in DOMAIN operations : Queued(o) /\ o \notin DroppedOperations
                                 => IsCurrent(sessions[operations[o].session].provider)
  BY DEF DroppedOperations, KeepsOperation, Addressee, SessionOf, Execute
<1>9. Expiring \subseteq DroppedSessions /\ \A s \in Expiring : sessions[s].state = "ready"
  BY DEF Expiring
<1> HIDE DEF ss, os
<1>10. RowsOK(ss, os)
  BY <1>1, <1>3, <1>4 DEF IInv, RowInv, RowsOK
<1>11. OpsReady(ss, os)
  BY <1>1, <1>2, <1>3, <1>6, <1>7, <1>8 DEF IInv, RowInv, RowsOK, OpsReady, Queued
<1>12. HandlesOK(ss, os, {o \in handles : operations[o].session \notin DroppedSessions})
  BY <1>1, <1>2, <1>3, <1>6 DEF IInv, RowInv, RowsOK, HandlesOK, Queued
<1>13. Awaited(ss, os, Pending)
  BY <1>1, <1>2, <1>3 DEF IInv, RowInv, RowsOK, Awaited
<1>14. Follows(ss, os)
  BY <1>1, <1>2, <1>3, <1>5, <1>6, FollowsSelf DEF IInv, RowInv, Follows, Queued, Live, Undestroyed
<1>15. \A s \in Expiring \cap DOMAIN ss : ss[s].state = "ready"
  BY <1>1, <1>2, <1>9
<1>16. QED BY <1>3, <1>10, <1>11, <1>12, <1>13, <1>14, <1>15 DEF ss, os

\* reconcile.
LEMMA ReconcileKeepsIInv == ASSUME IInv, Reconcile PROVE Kept
<1> DEFINE ds == StageDestroySessions(ReconcileSessions, Expiring)
           do == StageDestroyOperations(ReconcileOperations, Expiring)
           H  == {o \in handles : operations[o].session \notin DroppedSessions}
<1>1. PICK posted \in ReconcilePosts :
         Complete(ds, do, ReconcileMail \cup ({Destroy(s) : s \in Expiring} \ posted), posted)
  BY DEF Reconcile
<1> DEFINE R == ReconcileMail \cup ({Destroy(s) : s \in Expiring} \ posted)
<1>2. up /\ up' = up /\ handles' = H
  BY DEF Reconcile, ReleaseSessions
<1>3. /\ RowsOK(ReconcileSessions, ReconcileOperations)
      /\ OpsReady(ReconcileSessions, ReconcileOperations)
      /\ HandlesOK(ReconcileSessions, ReconcileOperations, H)
      /\ Awaited(ReconcileSessions, ReconcileOperations, Pending)
      /\ Follows(ReconcileSessions, ReconcileOperations)
      /\ \A s \in Expiring \cap DOMAIN ReconcileSessions : ReconcileSessions[s].state = "ready"
      /\ \A o \in DOMAIN operations : ReconcileOperations[o].session = operations[o].session
  BY <1>2, ReconcileRows
<1>4. \A o \in H : ReconcileOperations[o].session \notin Expiring
  BY <1>3 DEF Expiring, IInv, RowInv, HandlesOK
<1> HIDE DEF H
<1>5. /\ RowsOK(ds, do) /\ OpsReady(ds, do)
      /\ HandlesOK(ds, do, H)
      /\ Awaited(ds, do, Pending \cup R \cup posted)
      /\ Follows(ds, do)
  <2> DEFINE N == Pending \cup R \cup posted
  <2>1. Stageable(ReconcileSessions, ReconcileOperations, Expiring, H, Pending, N)
    BY <1>3, <1>4 DEF Stageable
  <2> HIDE DEF N
  <2>2. QED BY <1>3, <2>1, StageDestroyRows DEF N
<1> HIDE DEF ds, do, R
<1>6. up => Awaited(ds, do, Pending \cup R \cup posted)
  BY <1>5
<1>7. posted \in SUBSET Request
  <2>1. Expiring \subseteq SessionId
    BY DEF Expiring, DroppedSessions, IInv, RowInv, RowsOK
  <2>2. posted \subseteq {Destroy(s) : s \in Expiring}
    BY DEF ReconcilePosts
  <2>3. QED BY <2>1, <2>2, RequestNames
<1>8. Complete(ds, do, R, posted)
  BY <1>1 DEF R
<1>9. mail \in [Request -> MailStatus]
  BY DEF IInv, RowInv
<1>10. RowInv' /\ Follows(sessions', operations')
  BY <1>2, <1>4, <1>5, <1>6, <1>7, <1>8, <1>9, CompleteKeepsRowInv
<1>11. EnvOK'
  BY DEF Reconcile, Revoke, IInv, EnvOK
<1>12. QED BY <1>10, <1>11 DEF Kept, IInv

-----------------------------------------------------------------------------
(* The provider's own calls.                                                 *)

\* poll: states stay, epochs only rise, what was queued may be in flight.
LEMMA PollKeepsIInv ==
    ASSUME IInv, NEW p \in Provider, NEW seen \in [SessionId -> Navigation], NEW taken,
           Poll(p, seen, taken)
    PROVE  Kept
<1>1. DOMAIN sessions' = DOMAIN sessions
  BY DEF Poll
<1>2. \A s \in DOMAIN sessions : /\ sessions'[s] \in Session
                                 /\ sessions'[s].state = sessions[s].state
                                 /\ sessions'[s].navigation >= sessions[s].navigation
                                 /\ sessions'[s].provider = sessions[s].provider
  <2> SUFFICES ASSUME NEW s \in DOMAIN sessions
               PROVE  /\ sessions'[s] \in Session
                      /\ sessions'[s].state = sessions[s].state
                      /\ sessions'[s].navigation >= sessions[s].navigation
                      /\ sessions'[s].provider = sessions[s].provider
    OBVIOUS
  <2>1. sessions[s] \in Session /\ seen[s] \in Navigation
    BY DEF IInv, RowInv, RowsOK
  <2>2. \/ sessions'[s] = sessions[s]
        \/ sessions'[s] = [sessions[s] EXCEPT !.navigation = seen[s]]
           /\ sessions[s].navigation < seen[s]
    BY DEF Poll
  <2>3. QED BY <2>1, <2>2 DEF Session, Navigation
<1>3. sessions' \in [DOMAIN sessions' -> Session]
  BY <1>1, <1>2 DEF Poll
<1>4. mail' \in [Request -> MailStatus] /\ Pending' = Pending
  BY DEF Poll, IInv, RowInv, MailStatus, Pending
<1>5. UNCHANGED <<hosted, leases, issued, up, operations, handles>>
  BY DEF Poll
<1>6. RowsOK(sessions', operations') /\ OpsReady(sessions', operations')
  BY <1>1, <1>2, <1>3, <1>5 DEF IInv, RowInv, RowsOK, OpsReady
<1>7. up' => Awaited(sessions', operations', Pending')
  BY <1>1, <1>2, <1>4, <1>5 DEF IInv, RowInv, Awaited
<1>8. HandlesOK(sessions', operations', handles')
  BY <1>1, <1>2, <1>5 DEF IInv, RowInv, RowsOK, HandlesOK
<1>9. Follows(sessions', operations')
  BY <1>1, <1>2, <1>5, FollowsSelf DEF IInv, RowInv, Follows, Live
<1>10. QED BY <1>4, <1>5, <1>6, <1>7, <1>8, <1>9 DEF Kept, IInv, EnvOK, RowInv

\* An answer to the execution of o, with o no longer queued: the row o is
\* final, its session's epoch may rise, and Execute(o) may leave the mailbox.
OperationAnswered(o) ==
    /\ DOMAIN sessions' = DOMAIN sessions
    /\ sessions' \in [DOMAIN sessions -> Session]
    /\ \A s \in DOMAIN sessions : /\ sessions'[s].state = sessions[s].state
                                   /\ sessions'[s].navigation >= sessions[s].navigation
                                   /\ sessions'[s].provider = sessions[s].provider
    /\ DOMAIN operations' = DOMAIN operations
    /\ operations' \in [DOMAIN operations -> Operation]
    /\ operations'[o].state # "queued"
    /\ ~Queued(o) => operations'[o].state = operations[o].state
    /\ \A x \in DOMAIN operations : operations'[x].session = operations[x].session
    /\ \A x \in DOMAIN operations : operations'[x].navigation = operations[x].navigation
    /\ \A x \in DOMAIN operations \ {o} : operations'[x] = operations[x]
    /\ mail' = mail \/ Resolve(Execute(o))
    /\ HandlesOK(sessions', operations', handles')
    /\ UNCHANGED <<hosted, leases, issued, up>>

\* Every such answer keeps the invariant.
LEMMA AnswerKeepsIInv ==
    ASSUME IInv, NEW o \in OperationId, OperationAnswered(o)
    PROVE  Kept
<1>1. mail' \in [Request -> MailStatus] /\ Pending \ {Execute(o)} \subseteq Pending'
  <2>1. CASE mail' = mail
    BY <2>1 DEF IInv, RowInv, Pending
  <2>2. CASE Resolve(Execute(o))
    BY <2>2, RequestNames DEF IInv, RowInv, Resolve, MailStatus, Pending
  <2>3. QED BY <2>1, <2>2 DEF OperationAnswered
<1>2. RowsOK(sessions', operations')
  BY DEF OperationAnswered, IInv, RowInv, RowsOK
<1>3. OpsReady(sessions', operations')
  BY DEF OperationAnswered, IInv, RowInv, RowsOK, OpsReady
<1>4. up' => Awaited(sessions', operations', Pending')
  BY <1>1, RequestNames DEF OperationAnswered, IInv, RowInv, Awaited
<1>5. Follows(sessions', operations')
  BY FollowsSelf DEF OperationAnswered, IInv, RowInv, Follows, Live, Queued
<1>6. EnvOK'
  BY DEF OperationAnswered, IInv, EnvOK
<1>7. QED BY <1>1, <1>2, <1>3, <1>4, <1>5, <1>6 DEF Kept, IInv, RowInv, OperationAnswered

\* acknowledge, on a terminal or overdue row.
LEMMA LateAnswerKeepsIInv ==
    ASSUME IInv, NEW o \in OperationId, AcknowledgeLate(o)
    PROVE  Kept
<1>1. /\ UNCHANGED <<hosted, leases, issued, up, sessions, handles>>
      /\ Resolve(Execute(o))
      /\ o \in DOMAIN operations
  BY DEF AcknowledgeLate
<1>2. /\ sessions \in [DOMAIN sessions -> Session]
      /\ operations \in [DOMAIN operations -> Operation]
      /\ HandlesOK(sessions, operations, handles)
  BY DEF IInv, RowInv, RowsOK
<1>3. \A s \in DOMAIN sessions : sessions[s].navigation >= sessions[s].navigation
  BY <1>2 DEF Session, Navigation
<1>4. CASE ~Queued(o) /\ UNCHANGED operations
  BY <1>1, <1>2, <1>3, <1>4, AnswerKeepsIInv DEF OperationAnswered, Queued
<1>5. CASE Queued(o) /\ operations' = [operations EXCEPT ![o].state = "expired"]
  <2>1. operations[o] \in Operation
    BY <1>1, <1>2
  <2>2. /\ DOMAIN operations' = DOMAIN operations
        /\ operations' \in [DOMAIN operations -> Operation]
        /\ operations'[o].state = "expired"
        /\ \A x \in DOMAIN operations : operations'[x].session = operations[x].session
        /\ \A x \in DOMAIN operations : operations'[x].navigation = operations[x].navigation
        /\ \A x \in DOMAIN operations \ {o} : operations'[x] = operations[x]
    BY <1>1, <1>2, <1>5, <2>1 DEF Operation, OperationState, OperationFinal
  <2>3. HandlesOK(sessions', operations', handles')
    BY <1>1, <1>2, <1>5, <2>2 DEF HandlesOK, Queued
  <2>4. OperationAnswered(o)
    BY <1>1, <1>2, <1>3, <1>5, <2>2, <2>3 DEF OperationAnswered
  <2>5. QED BY <2>4, AnswerKeepsIInv
<1>6. QED BY <1>4, <1>5 DEF AcknowledgeLate

\* What a committed answer does to the rows.
LEMMA CommittedRows ==
    ASSUME IInv, NEW o \in OperationId, NEW outcome \in OperationFinal, NEW n \in Navigation,
           CommitsAnswer(o, outcome, n)
    PROVE  /\ o \in DOMAIN operations /\ Queued(o)
           /\ DOMAIN sessions' = DOMAIN sessions
           /\ sessions' \in [DOMAIN sessions -> Session]
           /\ \A s \in DOMAIN sessions : /\ sessions'[s].state = sessions[s].state
                                          /\ sessions'[s].navigation >= sessions[s].navigation
                                          /\ sessions'[s].provider = sessions[s].provider
           /\ DOMAIN operations' = DOMAIN operations
           /\ operations' \in [DOMAIN operations -> Operation]
           /\ operations'[o].state = outcome
           /\ \A x \in DOMAIN operations : operations'[x].session = operations[x].session
           /\ \A x \in DOMAIN operations : operations'[x].navigation = operations[x].navigation
           /\ \A x \in DOMAIN operations \ {o} : operations'[x] = operations[x]
           /\ HandlesOK(sessions', operations', handles)
<1> DEFINE z == operations[o].session
<1>1. /\ o \in DOMAIN operations /\ Queued(o)
      /\ operations' = [operations EXCEPT ![o].state = outcome]
      /\ sessions' = Navigated(z, n)
  BY DEF CommitsAnswer
<1>2. operations[o] \in Operation /\ z \in DOMAIN sessions
  BY <1>1 DEF IInv, RowInv, RowsOK
<1>3. /\ DOMAIN operations' = DOMAIN operations
      /\ operations' \in [DOMAIN operations -> Operation]
      /\ operations'[o].state = outcome
      /\ \A x \in DOMAIN operations : operations'[x].session = operations[x].session
      /\ \A x \in DOMAIN operations : operations'[x].navigation = operations[x].navigation
      /\ \A x \in DOMAIN operations \ {o} : operations'[x] = operations[x]
  BY <1>1, <1>2 DEF IInv, RowInv, RowsOK, Operation, OperationState
<1>4. /\ DOMAIN sessions' = DOMAIN sessions
      /\ \A s \in DOMAIN sessions :
           /\ sessions'[s] \in Session
           /\ sessions'[s].state = sessions[s].state
           /\ sessions'[s].navigation >= sessions[s].navigation
           /\ sessions'[s].provider = sessions[s].provider
  <2>1. DOMAIN sessions' = DOMAIN sessions
    BY <1>1 DEF Navigated
  <2>2. SUFFICES ASSUME NEW s \in DOMAIN sessions
                 PROVE  /\ sessions'[s] \in Session
                        /\ sessions'[s].state = sessions[s].state
                        /\ sessions'[s].navigation >= sessions[s].navigation
                        /\ sessions'[s].provider = sessions[s].provider
    BY <2>1
  <2>3. sessions[s] \in Session
    BY DEF IInv, RowInv, RowsOK
  <2>4. \/ sessions'[s] = sessions[s]
        \/ sessions'[s] = [sessions[s] EXCEPT !.navigation = n] /\ n > sessions[s].navigation
        \/ sessions'[s] = [sessions[s] EXCEPT !.navigation = sessions[s].navigation]
    BY <1>1, <1>2 DEF Navigated
  <2>5. QED BY <2>3, <2>4 DEF Session, Navigation
<1>5. sessions' \in [DOMAIN sessions -> Session]
  BY <1>1, <1>4 DEF Navigated
<1>6. HandlesOK(sessions', operations', handles)
  BY <1>1, <1>3, <1>4 DEF IInv, RowInv, RowsOK, HandlesOK, Queued
<1>7. QED BY <1>1, <1>3, <1>4, <1>5, <1>6

\* acknowledge, committing an outcome.
LEMMA OutcomeKeepsIInv ==
    ASSUME IInv, NEW o \in OperationId, NEW outcome \in OperationFinal, NEW n \in Navigation,
           AcknowledgeOperation(o, outcome, n)
    PROVE  Kept
<1>1. /\ CommitsAnswer(o, outcome, n) /\ Resolve(Execute(o))
      /\ UNCHANGED <<hosted, leases, issued, up, handles>>
  BY DEF AcknowledgeOperation
<1>2. OperationAnswered(o)
  BY <1>1, CommittedRows DEF OperationAnswered, OperationFinal, Queued
<1>3. QED BY <1>2, AnswerKeepsIInv

\* acknowledge, committing a screenshot; its handle needs a ready session.
LEMMA ScreenshotKeepsIInv ==
    ASSUME IInv, NEW o \in OperationId, NEW n \in Navigation, AcknowledgeScreenshot(o, n)
    PROVE  Kept
<1>1. /\ CommitsAnswer(o, "succeeded", n)
      /\ sessions[operations[o].session].state = "ready"
      /\ \/ handles' = handles \cup {o} /\ Resolve(Execute(o))
         \/ UNCHANGED <<handles, mail>>
      /\ UNCHANGED <<hosted, leases, issued, up>>
  BY DEF AcknowledgeScreenshot, HandleFits
<1>2. "succeeded" \in OperationFinal
  BY DEF OperationFinal
<1>3. HandlesOK(sessions', operations', handles')
  BY <1>1, <1>2, CommittedRows DEF HandlesOK, IInv, RowInv, RowsOK
<1>4. OperationAnswered(o)
  BY <1>1, <1>2, <1>3, CommittedRows DEF OperationAnswered, Queued
<1>5. QED BY <1>4, AnswerKeepsIInv

\* acknowledgeSession: the row waited for the answer, so nothing is queued on
\* the session and no handle is held for it.
LEMMA SessionAnswerKeepsIInv ==
    ASSUME IInv, NEW s \in SessionId, NEW request, NEW outcome \in SessionState,
           AcknowledgeSession(s, request, outcome)
    PROVE  Kept
<1>1. /\ s \in DOMAIN sessions
      /\ sessions[s].state \in {"creating", "destroying"}
      /\ outcome \notin {"creating", "destroying"}
      /\ outcome = "ready" => sessions[s].state = "creating" /\ request = Create(s)
      /\ sessions' = [sessions EXCEPT ![s].state = outcome]
      /\ request \in {Create(s), Destroy(s)}
      /\ Resolve(request)
      /\ UNCHANGED <<hosted, leases, issued, up, operations, handles>>
  BY DEF AcknowledgeSession
<1>2. sessions[s] \in Session
  BY <1>1 DEF IInv, RowInv, RowsOK
<1>3. /\ DOMAIN sessions' = DOMAIN sessions
      /\ sessions' \in [DOMAIN sessions -> Session]
      /\ sessions'[s].state = outcome
      /\ \A x \in DOMAIN sessions \ {s} : sessions'[x] = sessions[x]
      /\ \A x \in DOMAIN sessions : sessions'[x].navigation = sessions[x].navigation
  BY <1>1, <1>2 DEF IInv, RowInv, RowsOK, Session
<1>4. mail' \in [Request -> MailStatus] /\ Pending \ {request} \subseteq Pending'
  BY <1>1, RequestNames DEF IInv, RowInv, Resolve, MailStatus, Pending
<1>5. RowsOK(sessions', operations')
  BY <1>1, <1>3 DEF IInv, RowInv, RowsOK
<1>6. OpsReady(sessions', operations')
  BY <1>1, <1>3 DEF IInv, RowInv, RowsOK, OpsReady
<1>7. up' => Awaited(sessions', operations', Pending')
  <2>1. SUFFICES ASSUME up PROVE Awaited(sessions', operations', Pending')
    BY <1>1
  <2>2. Awaited(sessions, operations, Pending)
    BY <2>1 DEF IInv, RowInv
  <2>3. /\ \A o \in DOMAIN operations : Execute(o) # request
        /\ \A x \in DOMAIN sessions \ {s} : Create(x) # request /\ Destroy(x) # request
    BY <1>1, RequestNames
  <2>4. \A o \in DOMAIN operations : operations[o].state = "queued" => Execute(o) \in Pending'
    BY <1>4, <2>2, <2>3 DEF Awaited
  <2>5. \A x \in DOMAIN sessions \ {s} :
          /\ sessions[x].state = "creating"   => Create(x)  \in Pending'
          /\ sessions[x].state = "destroying" => Destroy(x) \in Pending'
    BY <1>4, <2>2, <2>3 DEF Awaited
  <2>6. QED BY <1>1, <1>3, <2>4, <2>5 DEF Awaited
<1>8. HandlesOK(sessions', operations', handles')
  BY <1>1, <1>3 DEF IInv, RowInv, RowsOK, HandlesOK
<1>9. Follows(sessions', operations')
  <2>1. outcome = "ready" => mail'[Create(s)] = "acknowledged"
    BY <1>1, RequestNames DEF IInv, RowInv, Resolve
  <2>2. QED BY <1>1, <1>3, <2>1, FollowsSelf
           DEF IInv, RowInv, Follows, Live, LiveSession, Undestroyed
<1>10. QED BY <1>1, <1>4, <1>5, <1>6, <1>7, <1>8, <1>9 DEF Kept, IInv, EnvOK, RowInv

-----------------------------------------------------------------------------
(* The life of the process.                                                  *)

\* close and a crash leave the mailbox empty; the start that follows, like
\* close, ends whatever was live.
LEMMA LifecycleKeepsIInv == ASSUME IInv, Close \/ Crash \/ Start PROVE Kept
<1>1. ASSUME Recover
      PROVE  /\ RowsOK(sessions', operations')
             /\ OpsReady(sessions', operations')
             /\ \A S : Awaited(sessions', operations', S)
             /\ HandlesOK(sessions', operations', handles')
             /\ Follows(sessions', operations')
  <2>1. DOMAIN sessions' = DOMAIN sessions /\ DOMAIN operations' = DOMAIN operations
    BY <1>1 DEF Recover
  <2>2. \A s \in DOMAIN sessions :
          /\ sessions'[s] \in Session
          /\ sessions'[s].state \notin {"creating", "ready", "destroying"}
          /\ ~Live(s) => sessions'[s].state = sessions[s].state
          /\ sessions'[s].navigation = sessions[s].navigation
          /\ sessions'[s].provider = sessions[s].provider
    <3> SUFFICES ASSUME NEW s \in DOMAIN sessions
                 PROVE  /\ sessions'[s] \in Session
                        /\ sessions'[s].state \notin {"creating", "ready", "destroying"}
                        /\ ~Live(s) => sessions'[s].state = sessions[s].state
                        /\ sessions'[s].navigation = sessions[s].navigation
                        /\ sessions'[s].provider = sessions[s].provider
      OBVIOUS
    <3>1. sessions[s] \in Session
      BY DEF IInv, RowInv, RowsOK
    <3>2. /\ sessions[s].state = "ready"
               => sessions'[s] = [sessions[s] EXCEPT !.state = "expired"]
          /\ sessions[s].state \in {"creating", "destroying"}
               => sessions'[s] = [sessions[s] EXCEPT !.state = "failed"]
          /\ sessions[s].state \notin {"ready", "creating", "destroying"}
               => sessions'[s] = sessions[s]
      BY <1>1 DEF Recover
    <3>3. QED BY <3>1, <3>2 DEF Session, SessionState, LiveSession, Live
  <2>3. \A o \in DOMAIN operations :
          /\ operations'[o] \in Operation
          /\ operations'[o].state # "queued"
          /\ ~Queued(o) => operations'[o] = operations[o]
          /\ operations'[o].session = operations[o].session
          /\ operations'[o].navigation = operations[o].navigation
    <3> SUFFICES ASSUME NEW o \in DOMAIN operations
                 PROVE  /\ operations'[o] \in Operation
                        /\ operations'[o].state # "queued"
                        /\ ~Queued(o) => operations'[o] = operations[o]
                        /\ operations'[o].session = operations[o].session
                        /\ operations'[o].navigation = operations[o].navigation
      OBVIOUS
    <3>1. operations[o] \in Operation
      BY DEF IInv, RowInv, RowsOK
    <3>2. operations'[o] = IF Queued(o) THEN [operations[o] EXCEPT !.state = "interrupted"]
                                        ELSE operations[o]
      BY <1>1 DEF Recover
    <3>3. QED BY <3>1, <3>2 DEF Operation, OperationState, OperationFinal, Queued
  <2>4. /\ sessions' \in [DOMAIN sessions' -> Session]
        /\ operations' \in [DOMAIN operations' -> Operation]
    BY <1>1, <2>1, <2>2, <2>3 DEF Recover
  <2>5. RowsOK(sessions', operations')
    BY <2>1, <2>3, <2>4 DEF IInv, RowInv, RowsOK
  <2>6. OpsReady(sessions', operations') /\ \A S : Awaited(sessions', operations', S)
    BY <2>1, <2>2, <2>3 DEF OpsReady, Awaited
  <2>7. HandlesOK(sessions', operations', handles')
    BY <1>1 DEF Recover, HandlesOK
  <2>8. Follows(sessions', operations')
    BY <2>1, <2>2, <2>3, FollowsSelf DEF IInv, RowInv, Follows, Undestroyed
  <2>9. QED BY <2>5, <2>6, <2>7, <2>8
<1>2. ASSUME LoseMemory PROVE EnvOK' /\ up' = FALSE /\ mail' \in [Request -> MailStatus]
  BY <1>2 DEF LoseMemory, IInv, EnvOK, RowInv, MailStatus
<1>3. CASE Close
  BY <1>1, <1>2, <1>3 DEF Close, Kept, IInv, RowInv
<1>4. CASE Crash
  <2>1. HandlesOK(sessions', operations', handles') /\ UNCHANGED rows
    BY <1>4 DEF Crash, HandlesOK
  <2>2. Follows(sessions', operations')
    BY <2>1, FollowsSelf DEF IInv, RowInv, rows, Follows
  <2>3. RowsOK(sessions', operations') /\ OpsReady(sessions', operations')
    BY <2>1 DEF IInv, RowInv, rows
  <2>4. QED BY <1>2, <1>4, <2>1, <2>2, <2>3 DEF Crash, Kept, IInv, RowInv
<1>5. CASE Start
  <2>1. EnvOK' /\ mail' \in [Request -> MailStatus]
    BY <1>5 DEF Start, IInv, EnvOK, RowInv
  <2>2. QED BY <1>1, <1>5, <2>1 DEF Start, Kept, IInv, RowInv
<1>6. QED BY <1>3, <1>4, <1>5

-----------------------------------------------------------------------------
(* The theorems.                                                             *)

\* The service starts with no rows, no leases and an idle mailbox.
LEMMA InitIInv == Init => IInv
<1> SUFFICES ASSUME Init PROVE IInv
  OBVIOUS
<1>1. EnvOK
  BY ProviderAssumption DEF Init, EnvOK
<1>2. DOMAIN sessions = {} /\ DOMAIN operations = {} /\ handles = {}
  BY DEF Init
<1>3. sessions \in [DOMAIN sessions -> Session] /\ operations \in [DOMAIN operations -> Operation]
  BY <1>2 DEF Init
<1>4. mail \in [Request -> MailStatus]
  BY DEF Init, MailStatus
<1>5. QED BY <1>1, <1>2, <1>3, <1>4
         DEF IInv, RowInv, RowsOK, OpsReady, Awaited, HandlesOK

\* Every step keeps the invariant, and its rows follow the current ones.
LEMMA StepIInv == ASSUME IInv, [Next]_vars PROVE Kept
<1>1. CASE \E w \in Window : WindowHosted(w) \/ RegisterTrustedWindow(w) \/ LoseProvider(w)
  BY <1>1, EnvironmentKeepsIInv, LossKeepsIInv
<1>2. CASE ClaimFails
  BY <1>2, LossKeepsIInv
<1>3. ASSUME NEW s \in SessionId,
             \/ SessionExpires(s)
             \/ DestroySession(s)
             \/ \E w \in Window : CreateSession(s, w)
             \/ \E o \in OperationId : Invoke(o, s)
             \/ \E request \in {Create(s), Destroy(s)}, outcome \in SessionState :
                   AcknowledgeSession(s, request, outcome)
      PROVE  Kept
  <2>1. CASE SessionExpires(s)
    BY <2>1, EnvironmentKeepsIInv
  <2>2. CASE DestroySession(s)
    BY <2>2, DestroyKeepsIInv
  <2>3. CASE \E w \in Window : CreateSession(s, w)
    BY <2>3, CreateKeepsIInv
  <2>4. CASE \E o \in OperationId : Invoke(o, s)
    BY <2>4, InvokeKeepsIInv
  <2>5. CASE \E request \in {Create(s), Destroy(s)}, outcome \in SessionState :
               AcknowledgeSession(s, request, outcome)
    BY <2>5, SessionAnswerKeepsIInv
  <2>6. QED BY <1>3, <2>1, <2>2, <2>3, <2>4, <2>5
<1>4. ASSUME NEW o \in OperationId,
             \/ OperationOverdue(o) \/ HandleGone(o) \/ CancelOperation(o) \/ AcknowledgeLate(o)
             \/ \E n \in Navigation :
                   \/ AcknowledgeScreenshot(o, n)
                   \/ \E outcome \in OperationFinal : AcknowledgeOperation(o, outcome, n)
      PROVE  Kept
  <2>1. CASE OperationOverdue(o) \/ HandleGone(o)
    BY <2>1, EnvironmentKeepsIInv
  <2>2. CASE CancelOperation(o)
    BY <2>2, CancelKeepsIInv
  <2>3. CASE AcknowledgeLate(o)
    BY <2>3, LateAnswerKeepsIInv
  <2>4. CASE \E n \in Navigation : AcknowledgeScreenshot(o, n)
    BY <2>4, ScreenshotKeepsIInv
  <2>5. CASE \E n \in Navigation : \E outcome \in OperationFinal :
               AcknowledgeOperation(o, outcome, n)
    BY <2>5, OutcomeKeepsIInv
  <2>6. QED BY <1>4, <2>1, <2>2, <2>3, <2>4, <2>5
<1>5. CASE \E p \in Provider, seen \in [SessionId -> Navigation],
             taken \in {{}} \cup {{r} : r \in Request} : Poll(p, seen, taken)
  BY <1>5, PollKeepsIInv
<1>6. CASE \E r \in Request : TimesOut(r)
  BY <1>6, LossKeepsIInv
<1>7. CASE Reconcile
  BY <1>7, ReconcileKeepsIInv
<1>8. CASE Close \/ Crash \/ Start
  BY <1>8, LifecycleKeepsIInv
<1>9. CASE UNCHANGED vars
  <2>1. Follows(sessions', operations')
    BY <1>9, FollowsSelf DEF IInv, RowInv, vars, Follows
  <2>2. IInv'
    BY <1>9 DEF IInv, EnvOK, RowInv, vars, Pending
  <2>3. QED BY <2>1, <2>2 DEF Kept
<1>10. QED BY <1>1, <1>2, <1>3, <1>4, <1>5, <1>6, <1>7, <1>8, <1>9 DEF Next

\* The inductive invariant: rows and operations agree, whatever waits has its
\* request in the mailbox, and handles belong to ready sessions.
THEOREM InductiveInvariant == Spec => []IInv
<1>1. IInv /\ [Next]_vars => IInv'
  BY StepIInv DEF Kept
<1>2. QED BY InitIInv, <1>1, PTL DEF Spec

\* Every variable keeps its type: rows are never deleted or half written, and
\* every operation row has its session.
THEOREM TypeCorrect == Spec => []TypeOK
<1>1. IInv => TypeOK
  BY DEF IInv, EnvOK, RowInv, RowsOK, HandlesOK, TypeOK
<1>2. QED BY <1>1, InductiveInvariant, PTL

\* A queued operation always belongs to a ready session.
THEOREM ReadySessionSafety == Spec => []LiveOpHasReadySession
<1>1. IInv => LiveOpHasReadySession
  BY DEF IInv, RowInv, OpsReady, LiveOpHasReadySession, Queued
<1>2. QED BY <1>1, InductiveInvariant, PTL

\* While the process is up, whatever waits for the provider is in the mailbox.
THEOREM PendingWorkSafety == Spec => []LiveWorkIsPending
<1>1. IInv => LiveWorkIsPending
  BY DEF IInv, RowInv, Awaited, LiveWorkIsPending, Queued
<1>2. QED BY <1>1, InductiveInvariant, PTL

\* A screenshot can be read only while its session is ready.
THEOREM HandleSafety == Spec => []HandlesOwned
<1>1. IInv => HandlesOwned
  BY DEF IInv, RowInv, HandlesOK, HandlesOwned
<1>2. QED BY <1>1, InductiveInvariant, PTL

\* No outcome is ever written twice.
THEOREM FinalOutcomes == Spec => OutcomeIsFinal
<1> DEFINE A == /\ \A o \in DOMAIN operations :
                     ~Queued(o) => operations'[o].state = operations[o].state
               /\ \A s \in DOMAIN sessions :
                     ~Live(s) => sessions'[s].state = sessions[s].state
<1>1. IInv /\ [Next]_vars => [A]_vars
  BY StepIInv DEF Kept, Follows
<1>2. QED BY <1>1, InductiveInvariant, PTL DEF Spec, OutcomeIsFinal

\* No session's navigation epoch ever moves back.
THEOREM NavigationOrder == Spec => NavigationAdvances
<1> DEFINE A == \A s \in DOMAIN sessions : sessions'[s].navigation >= sessions[s].navigation
<1>1. IInv /\ [Next]_vars => [A]_vars
  BY StepIInv DEF Kept, Follows
<1>2. QED BY <1>1, InductiveInvariant, PTL DEF Spec, NavigationAdvances
-----------------------------------------------------------------------------
(* The mailbox: a request enters it once and leaves it once.                 *)

\* No row asked for request r yet: the row it serves is not staged, nobody
\* asked to destroy the session, the operation is still queued.
Unasked(ss, os, r) ==
    \/ \E s \in SessionId : /\ r \in {Create(s), Destroy(s)}
                            /\ s \in DOMAIN ss => r = Destroy(s) /\ ss[s].state \in Undestroyed
    \/ \E o \in OperationId : /\ r \in {Execute(o), Withdraw(o)}
                              /\ o \in DOMAIN os => r = Withdraw(o) /\ os[o].state = "queued"

\* What no row asked for is in nobody's hands.
MailInv == \A r \in Request : Unasked(sessions, operations, r) => mail[r] = "idle"

\* What one step may do to one request.
StepOf(r) == mail'[r] = mail[r] \/ <<mail[r], mail'[r]>> \in Delivery!Edge

MailKept == MailInv' /\ \A r \in Request : StepOf(r)

\* A step that hands over only what its rows ask for keeps MailInv.
LEMMA MailInvNext ==
    ASSUME MailInv, Follows(sessions', operations'),
           \A r \in Request : mail[r] = "idle" =>
              mail'[r] = "idle" \/ ~Unasked(sessions', operations', r)
    PROVE  MailInv'
<1>1. SUFFICES ASSUME NEW r \in Request, Unasked(sessions', operations', r)
               PROVE  Unasked(sessions, operations, r)
  BY DEF MailInv
<1>2. CASE \E s \in SessionId :
             /\ r \in {Create(s), Destroy(s)}
             /\ s \in DOMAIN sessions' => r = Destroy(s) /\ sessions'[s].state \in Undestroyed
  BY <1>2 DEF Unasked, Follows
<1>3. CASE \E o \in OperationId :
             /\ r \in {Execute(o), Withdraw(o)}
             /\ o \in DOMAIN operations' => r = Withdraw(o) /\ operations'[o].state = "queued"
  BY <1>3 DEF Unasked, Follows, Queued
<1>4. QED BY <1>1, <1>2, <1>3 DEF Unasked

\* The end of a handler: what it posts was idle, and its rows ask for it.
LEMMA CompleteMail ==
    ASSUME MailInv, mail \in [Request -> MailStatus], Follows(sessions', operations'),
           NEW ss, NEW os, NEW R, NEW posted \in SUBSET Request,
           Complete(ss, os, R, posted),
           \A r \in posted : mail[r] = "idle" /\ ~Unasked(sessions', operations', r)
    PROVE  MailKept
<1>1. PICK inFlight \in SUBSET posted :
         mail' = [r \in Request |->
                     IF r \in inFlight THEN "inFlight"
                     ELSE IF r \in posted THEN "queued"
                     ELSE IF r \in R \cap Pending THEN "interrupted" ELSE mail[r]]
  BY DEF Complete
<1>2. \A r \in posted : mail'[r] \in {"queued", "inFlight"}
  BY <1>1
<1>3. \A r \in Request \ posted :
         \/ mail'[r] = mail[r]
         \/ mail[r] \in {"queued", "inFlight"} /\ mail'[r] = "interrupted"
  BY <1>1 DEF Pending
<1>4. \A r \in Request : StepOf(r)
  BY <1>2, <1>3 DEF StepOf, Delivery!Edge
<1>5. MailInv'
  BY <1>3, MailInvNext
<1>6. QED BY <1>4, <1>5 DEF MailKept

\* A step that only settles or hands over what was in the mailbox.
LEMMA PendingMail ==
    ASSUME MailInv, Follows(sessions', operations'),
           \A r \in Request : \/ mail'[r] = mail[r]
                              \/ mail[r] = "queued" /\ mail'[r] = "inFlight"
                              \/ mail[r] = "inFlight" /\ mail'[r] = "acknowledged"
                              \/ mail[r] \in {"queued", "inFlight"} /\ mail'[r] = "interrupted"
    PROVE  MailKept
<1>1. MailInv'
  BY MailInvNext
<1>2. QED BY <1>1 DEF MailKept, StepOf, Delivery!Edge

\* createSession asks for its creation.
LEMMA CreateMail ==
    ASSUME IInv, Kept, MailInv, NEW s \in SessionId, NEW w \in Window, CreateSession(s, w)
    PROVE  MailKept
<1> DEFINE gone   == MailOf(Lapsed)
           staged == [x \in DOMAIN sessions \cup {s} |->
                        IF x = s THEN NewSession(leases[w]) ELSE sessions[x]]
<1>1. PICK posted \in PublishOutcomes(Create(s), gone) :
         Complete(staged, operations, gone \cup ({Create(s)} \ posted), posted)
  BY DEF CreateSession
<1>2. s \notin DOMAIN sessions
  BY DEF CreateSession
<1>3. posted \subseteq {Create(s)} /\ Create(s) \in Request
  BY RequestNames DEF PublishOutcomes
<1>4. s \in DOMAIN sessions'
  BY <1>1 DEF Complete, InterruptSessions
<1>5. mail[Create(s)] = "idle"
  BY <1>2, <1>3 DEF MailInv, Unasked
<1>6. ~Unasked(sessions', operations', Create(s))
  BY <1>4, RequestNames DEF Unasked
<1> HIDE DEF gone, staged
<1>7. QED BY <1>1, <1>3, <1>5, <1>6, CompleteMail DEF Kept, IInv, RowInv

\* invoke asks for its execution.
LEMMA InvokeMail ==
    ASSUME IInv, Kept, MailInv, NEW o \in OperationId, NEW s \in SessionId, Invoke(o, s)
    PROVE  MailKept
<1> DEFINE gone    == MailOf(Lapsed)
           new     == [state |-> "queued", session |-> s,
                       navigation |-> sessions[s].navigation, overdue |-> FALSE]
           staged  == [x \in DOMAIN operations \cup {o} |-> IF x = o THEN new ELSE operations[x]]
           renewed == [sessions EXCEPT ![s].expired = FALSE]
<1>1. PICK posted \in PublishOutcomes(Execute(o), gone) :
         Complete(renewed, staged, gone \cup ({Execute(o)} \ posted), posted)
  BY DEF Invoke
<1>2. o \notin DOMAIN operations
  BY DEF Invoke
<1>3. posted \subseteq {Execute(o)} /\ Execute(o) \in Request
  BY RequestNames DEF PublishOutcomes
<1>4. o \in DOMAIN operations'
  BY <1>1 DEF Complete, InterruptOperations
<1>5. mail[Execute(o)] = "idle"
  BY <1>2, <1>3 DEF MailInv, Unasked
<1>6. ~Unasked(sessions', operations', Execute(o))
  BY <1>4, RequestNames DEF Unasked
<1> HIDE DEF gone, staged, renewed, new
<1>7. QED BY <1>1, <1>3, <1>5, <1>6, CompleteMail DEF Kept, IInv, RowInv

\* cancelOperation asks the provider to withdraw an operation that was queued.
LEMMA CancelMail ==
    ASSUME IInv, Kept, MailInv, NEW o \in OperationId, CancelOperation(o)
    PROVE  MailKept
<1> DEFINE q      == sessions[operations[o].session].provider
           lapsed == {w \in Lapsed : leases[w] = q}
           gone   == Unsent(o) \cup MailOf(lapsed)
           staged == [operations EXCEPT ![o].state = "canceled"]
<1>1. PICK posted \in (IF IsCurrent(q) THEN PublishOutcomes(Withdraw(o), gone) ELSE {{}}) :
         Complete(sessions, staged, gone, posted)
  BY DEF CancelOperation
<1>2. o \in DOMAIN operations /\ Queued(o)
  BY DEF CancelOperation
<1>3. posted \subseteq {Withdraw(o)} /\ Withdraw(o) \in Request
  BY RequestNames DEF PublishOutcomes
<1>4. o \in DOMAIN operations' /\ operations'[o].state = "canceled"
  <2>1. operations[o] \in Operation
    BY <1>2 DEF IInv, RowInv, RowsOK
  <2>2. o \in DOMAIN staged /\ staged[o].state = "canceled"
    BY <1>2, <2>1 DEF Operation
  <2> HIDE DEF staged
  <2>3. operations' = InterruptOperations(staged, gone)
    BY <1>1 DEF Complete
  <2>4. QED BY <2>2, <2>3 DEF InterruptOperations
<1>5. mail[Withdraw(o)] = "idle"
  BY <1>2, <1>3 DEF MailInv, Unasked, Queued
<1>6. ~Unasked(sessions', operations', Withdraw(o))
  BY <1>4, RequestNames DEF Unasked
<1> HIDE DEF gone, staged, lapsed, q
<1>7. QED BY <1>1, <1>3, <1>5, <1>6, CompleteMail DEF Kept, IInv, RowInv

\* A ready session's destroy is idle until stageDestroy asks for it.
LEMMA DestroyAsked ==
    ASSUME IInv, MailInv, NEW ss, NEW S, NEW R, NEW s \in S,
           s \in DOMAIN sessions, sessions[s].state = "ready",
           s \in DOMAIN ss, ss[s] \in Session,
           sessions' = InterruptSessions(StageDestroySessions(ss, S), R)
    PROVE  mail[Destroy(s)] = "idle" /\ ~Unasked(sessions', operations', Destroy(s))
<1>1. s \in SessionId /\ Destroy(s) \in Request
  BY RequestNames DEF IInv, RowInv, RowsOK
<1>2. mail[Destroy(s)] = "idle"
  BY <1>1 DEF MailInv, Unasked, Undestroyed
<1> DEFINE ds == StageDestroySessions(ss, S)
<1>3. s \in DOMAIN ds /\ ds[s] = [ss[s] EXCEPT !.state = "destroying"]
  BY DEF StageDestroySessions
<1>4. ds[s] \in Session /\ ds[s].state = "destroying"
  BY <1>3 DEF Session, SessionState, LiveSession
<1> HIDE DEF ds
<1>5. sessions' = InterruptSessions(ds, R)
  BY DEF ds
<1>6. s \in DOMAIN sessions' /\ sessions'[s].state \in {"destroying", "destroyed"}
  BY <1>3, <1>4, <1>5 DEF InterruptSessions, Session
<1>7. ~Unasked(sessions', operations', Destroy(s))
  BY <1>6, RequestNames DEF Unasked, Undestroyed
<1>8. QED BY <1>2, <1>7

\* destroySession asks for the destroy of its session.
LEMMA DestroyMail ==
    ASSUME IInv, Kept, MailInv, NEW s \in SessionId, DestroySession(s)
    PROVE  MailKept
<1> DEFINE gone == MailOf(Lapsed)
           ds == StageDestroySessions(sessions, {s})
           do == StageDestroyOperations(operations, {s})
<1>1. PICK posted \in PublishOutcomes(Destroy(s), gone) :
         Complete(ds, do, gone \cup ({Destroy(s)} \ posted), posted)
  BY DEF DestroySession
<1>2. s \in DOMAIN sessions /\ sessions[s].state = "ready" /\ sessions[s] \in Session
  BY DEF DestroySession, IInv, RowInv, RowsOK
<1>3. posted \subseteq {Destroy(s)} /\ Destroy(s) \in Request
  BY RequestNames DEF PublishOutcomes
<1>4. sessions' = InterruptSessions(ds, gone \cup ({Destroy(s)} \ posted))
  BY <1>1 DEF Complete
<1>5. mail[Destroy(s)] = "idle" /\ ~Unasked(sessions', operations', Destroy(s))
  BY <1>2, <1>4, DestroyAsked
<1> HIDE DEF gone, ds, do
<1>6. QED BY <1>1, <1>3, <1>5, CompleteMail DEF Kept, IInv, RowInv

\* reconcile asks for the destroys of the sessions that expired.
LEMMA ReconcileMailKept == ASSUME IInv, Kept, MailInv, Reconcile PROVE MailKept
<1> DEFINE ds == StageDestroySessions(ReconcileSessions, Expiring)
           do == StageDestroyOperations(ReconcileOperations, Expiring)
<1>1. PICK posted \in ReconcilePosts :
         Complete(ds, do, ReconcileMail \cup ({Destroy(s) : s \in Expiring} \ posted), posted)
  BY DEF Reconcile
<1> DEFINE R == ReconcileMail \cup ({Destroy(s) : s \in Expiring} \ posted)
<1>2. RowsOK(ReconcileSessions, ReconcileOperations)
  BY ReconcileRows DEF Reconcile
<1>3. DOMAIN ReconcileSessions = DOMAIN sessions
  BY DEF ReconcileSessions
<1>4. \A s \in Expiring : s \in DOMAIN sessions /\ sessions[s].state = "ready"
  BY DEF Expiring, DroppedSessions
<1>5. sessions' = InterruptSessions(ds, R)
  BY <1>1 DEF Complete
<1>6. \A s \in Expiring :
         mail[Destroy(s)] = "idle" /\ ~Unasked(sessions', operations', Destroy(s))
  <2> HIDE DEF R
  <2>1. SUFFICES ASSUME NEW s \in Expiring
                 PROVE mail[Destroy(s)] = "idle" /\ ~Unasked(sessions', operations', Destroy(s))
    OBVIOUS
  <2>2. s \in DOMAIN ReconcileSessions /\ ReconcileSessions[s] \in Session
    BY <1>2, <1>3, <1>4 DEF RowsOK
  <2>3. QED BY <1>4, <1>5, <2>2, DestroyAsked
<1>7. posted \subseteq {Destroy(s) : s \in Expiring}
  BY DEF ReconcilePosts
<1>8. posted \in SUBSET Request
  BY <1>4, <1>7, RequestNames DEF IInv, RowInv, RowsOK
<1>9. \A r \in posted : mail[r] = "idle" /\ ~Unasked(sessions', operations', r)
  BY <1>6, <1>7
<1> HIDE DEF ds, do, R
<1>10. Complete(ds, do, R, posted)
  BY <1>1 DEF R
<1>11. QED BY <1>8, <1>9, <1>10, CompleteMail DEF Kept, IInv, RowInv

\* An answer is to a request in flight; a registration that throws leaves it so.
LEMMA AnswerMail ==
    ASSUME IInv, Kept, MailInv, NEW r \in Request, Answers(r), Resolve(r) \/ mail' = mail
    PROVE  MailKept
BY PendingMail DEF Kept, IInv, RowInv, Answers, Resolve

\* Every step keeps MailInv, and each request stays put or follows an edge of
\* OnceDelivery.
LEMMA StepMail == ASSUME IInv, MailInv, [Next]_vars PROVE MailKept
<1>0. Kept
  BY StepIInv
<1>1. ASSUME NEW R, Complete(sessions, operations, R, {}) PROVE MailKept
  BY <1>0, <1>1, CompleteMail DEF Kept, IInv, RowInv
<1>2. CASE mail' = mail
  BY <1>0, <1>2, PendingMail DEF Kept
<1>3. CASE \E w \in Window : WindowHosted(w) \/ RegisterTrustedWindow(w) \/ LoseProvider(w)
  BY <1>1, <1>2, <1>3 DEF WindowHosted, RegisterTrustedWindow, LoseProvider
<1>4. CASE ClaimFails
  BY <1>1, <1>4 DEF ClaimFails
<1>5. ASSUME NEW s \in SessionId,
             \/ SessionExpires(s)
             \/ DestroySession(s)
             \/ \E w \in Window : CreateSession(s, w)
             \/ \E o \in OperationId : Invoke(o, s)
             \/ \E request \in {Create(s), Destroy(s)}, outcome \in SessionState :
                   AcknowledgeSession(s, request, outcome)
      PROVE  MailKept
  <2>1. CASE SessionExpires(s)
    BY <1>2, <2>1 DEF SessionExpires
  <2>2. CASE DestroySession(s)
    BY <1>0, <2>2, DestroyMail
  <2>3. CASE \E w \in Window : CreateSession(s, w)
    BY <1>0, <2>3, CreateMail
  <2>4. CASE \E o \in OperationId : Invoke(o, s)
    BY <1>0, <2>4, InvokeMail
  <2>5. CASE \E request \in {Create(s), Destroy(s)}, outcome \in SessionState :
               AcknowledgeSession(s, request, outcome)
    <3>1. PICK request \in {Create(s), Destroy(s)} : Answers(request) /\ Resolve(request)
      BY <2>5 DEF AcknowledgeSession
    <3>2. request \in Request
      BY RequestNames
    <3>3. QED BY <1>0, <3>1, <3>2, AnswerMail
  <2>6. QED BY <1>5, <2>1, <2>2, <2>3, <2>4, <2>5
<1>6. ASSUME NEW o \in OperationId,
             \/ OperationOverdue(o) \/ HandleGone(o) \/ CancelOperation(o) \/ AcknowledgeLate(o)
             \/ \E n \in Navigation :
                   \/ AcknowledgeScreenshot(o, n)
                   \/ \E outcome \in OperationFinal : AcknowledgeOperation(o, outcome, n)
      PROVE  MailKept
  <2>1. CASE OperationOverdue(o) \/ HandleGone(o)
    BY <1>2, <2>1 DEF OperationOverdue, HandleGone
  <2>2. CASE CancelOperation(o)
    BY <1>0, <2>2, CancelMail
  <2>3. CASE ~(OperationOverdue(o) \/ HandleGone(o) \/ CancelOperation(o))
    <3>1. Answers(Execute(o)) /\ (Resolve(Execute(o)) \/ mail' = mail)
      BY <1>6, <2>3 DEF AcknowledgeLate, AcknowledgeScreenshot, AcknowledgeOperation, CommitsAnswer
    <3>2. Execute(o) \in Request
      BY RequestNames
    <3>3. QED BY <1>0, <3>1, <3>2, AnswerMail
  <2>4. QED BY <2>1, <2>2, <2>3
<1>7. CASE \E p \in Provider, seen \in [SessionId -> Navigation],
             taken \in {{}} \cup {{r} : r \in Request} : Poll(p, seen, taken)
  BY <1>0, <1>7, PendingMail DEF Kept, Poll
<1>8. CASE \E r \in Request : TimesOut(r)
  BY <1>1, <1>8 DEF TimesOut
<1>9. CASE Reconcile
  BY <1>0, <1>9, ReconcileMailKept
<1>10. CASE Close \/ Crash
  <2>1. mail' = [r \in Request |-> IF r \in Pending THEN "interrupted" ELSE mail[r]]
    BY <1>10 DEF Close, Crash, LoseMemory
  <2>2. QED BY <1>0, <2>1, PendingMail DEF Kept, Pending
<1>11. CASE Start
  BY <1>2, <1>11 DEF Start
<1>12. CASE UNCHANGED vars
  BY <1>2, <1>12 DEF vars
<1>13. QED BY <1>3, <1>4, <1>5, <1>6, <1>7, <1>8, <1>9, <1>10, <1>11, <1>12 DEF Next

\* Nothing is in the mailbox that no row asked for.
LEMMA MailInvariant == Spec => [](IInv /\ MailInv)
<1>1. Init => IInv /\ MailInv
  BY InitIInv DEF Init, MailInv
<1>2. IInv /\ MailInv /\ [Next]_vars => (IInv /\ MailInv)'
  BY StepIInv, StepMail DEF Kept, MailKept
<1>3. QED BY <1>1, <1>2, PTL DEF Spec

\* Requests that each follow an edge make a step of OnceDelivery.
LEMMA MovesOnce ==
    ASSUME mail \in [Request -> MailStatus], mail' \in [Request -> MailStatus],
           \A r \in Request : StepOf(r)
    PROVE  [Delivery!Next]_mail
<1> SUFFICES ASSUME mail' # mail PROVE Delivery!Next
  OBVIOUS
<1> DEFINE moved == {r \in Request : mail'[r] # mail[r]}
<1>1. moved # {}
  OBVIOUS
<1>2. \A r \in moved : <<mail[r], mail'[r]>> \in Delivery!Edge
  BY DEF StepOf
<1>3. mail' \in [Request -> Delivery!Status]
  BY DEF MailStatus, Delivery!Status, Delivery!Settled
<1>4. Delivery!Move(moved)
  BY <1>1, <1>2, <1>3 DEF Delivery!Move
<1>5. QED BY <1>4 DEF Delivery!Next

\* The service delivers each request at most once and settles it at most once,
\* whatever sweeps, revocations, refusals, answers and restarts come between:
\* the mailbox it sees implements OnceDelivery.
THEOREM OnceOnly == Spec => DeliversOnce
<1>1. Init => Delivery!Init
  BY DEF Init, Delivery!Init
<1>2. IInv /\ MailInv /\ [Next]_vars => [Delivery!Next]_mail
  BY StepIInv, StepMail, MovesOnce DEF Kept, IInv, RowInv, MailKept
<1>3. QED BY <1>1, <1>2, MailInvariant, PTL DEF Spec, Delivery!Spec, DeliversOnce

-----------------------------------------------------------------------------
(* The limits: what is pending, live, queued and held stays countable, and   *)
(* every handler that adds to one of these counts it first.                  *)

AtMost(S, n) == IsFiniteSet(S) /\ Cardinality(S) <= n

LimitInv ==
    /\ IsFiniteSet(DOMAIN sessions)
    /\ IsFiniteSet(DOMAIN operations)
    /\ AtMost(Pending, MaxPending)
    /\ \A p \in Provider : AtMost(LiveOn(p), ProviderSessions)
    /\ \A s \in DOMAIN sessions : /\ AtMost(QueuedOf(s), SessionOperations)
                                  /\ AtMost(HandlesOf(s), SessionHandles)

\* A limit is kept by what shrinks, and by one more where there was room.
LEMMA Shrinks ==
    ASSUME NEW S, NEW n \in Nat, AtMost(S, n), NEW T, T \subseteq S
    PROVE  AtMost(T, n)
<1>1. IsFiniteSet(T) /\ Cardinality(T) <= Cardinality(S)
  BY FS_Subset DEF AtMost
<1>2. Cardinality(S) \in Nat /\ Cardinality(T) \in Nat
  BY <1>1, FS_CardinalityType DEF AtMost
<1>3. QED BY <1>1, <1>2 DEF AtMost

LEMMA Grows ==
    ASSUME NEW S, NEW n \in Nat, IsFiniteSet(S), Cardinality(S) < n,
           NEW x, NEW T, T \subseteq S \cup {x}
    PROVE  AtMost(T, n)
<1>1. /\ IsFiniteSet(S \cup {x})
      /\ Cardinality(S \cup {x}) = IF x \in S THEN Cardinality(S) ELSE Cardinality(S) + 1
  BY FS_AddElement
<1>2. Cardinality(S) \in Nat
  BY FS_CardinalityType
<1>3. AtMost(S \cup {x}, n)
  BY <1>1, <1>2 DEF AtMost
<1>4. QED BY <1>3, Shrinks

\* Which rows may be live, queued or hold a handle after a step: those that
\* were, and the new ones.
LEMMA CountedRows ==
    ASSUME IInv, Kept
    PROVE  /\ \A p : LiveOn(p)' \subseteq LiveOn(p) \cup (DOMAIN sessions' \ DOMAIN sessions)
           /\ \A s : QueuedOf(s)' \subseteq
                       QueuedOf(s) \cup (DOMAIN operations' \ DOMAIN operations)
           /\ \A s : HandlesOf(s)' \cap handles \subseteq HandlesOf(s)
<1>1. ASSUME NEW p
      PROVE  LiveOn(p)' \subseteq LiveOn(p) \cup (DOMAIN sessions' \ DOMAIN sessions)
  BY DEF Kept, Follows, LiveOn, Live
<1>2. ASSUME NEW s
      PROVE  QueuedOf(s)' \subseteq QueuedOf(s) \cup (DOMAIN operations' \ DOMAIN operations)
  BY DEF Kept, Follows, QueuedOf, Queued
<1>3. ASSUME NEW s PROVE HandlesOf(s)' \cap handles \subseteq HandlesOf(s)
  BY DEF Kept, Follows, HandlesOf, IInv, RowInv, HandlesOK
<1>4. QED BY <1>1, <1>2, <1>3

\* A step that adds no row and no handle.
LEMMA SteadyLimits ==
    ASSUME IInv, Kept, LimitInv, DOMAIN sessions' = DOMAIN sessions,
           DOMAIN operations' = DOMAIN operations, handles' \subseteq handles,
           AtMost(Pending', MaxPending)
    PROVE  LimitInv'
<1>1. ASSUME NEW p \in Provider PROVE AtMost(LiveOn(p)', ProviderSessions)
  <2>1. LiveOn(p)' \subseteq LiveOn(p)
    BY CountedRows
  <2>2. QED BY <2>1, Shrinks, LimitAssumption DEF LimitInv
<1>2. ASSUME NEW s \in DOMAIN sessions
      PROVE  AtMost(QueuedOf(s)', SessionOperations) /\ AtMost(HandlesOf(s)', SessionHandles)
  <2>1. QueuedOf(s)' \subseteq QueuedOf(s)
    BY CountedRows
  <2>2. HandlesOf(s)' \subseteq HandlesOf(s)
    BY CountedRows DEF HandlesOf
  <2>3. QED BY <2>1, <2>2, Shrinks, LimitAssumption DEF LimitInv
<1>3. QED BY <1>1, <1>2 DEF LimitInv, AtMost

\* What the end of a handler leaves pending.
LEMMA CompletePending ==
    ASSUME NEW ss, NEW os, NEW R, NEW posted \in SUBSET Request, Complete(ss, os, R, posted)
    PROVE  /\ Pending' \subseteq (Pending \ R) \cup posted
           /\ DOMAIN sessions' = DOMAIN ss
           /\ DOMAIN operations' = DOMAIN os
<1>1. Pending' \subseteq (Pending \ R) \cup posted
  BY DEF Complete, Pending
<1>2. QED BY <1>1 DEF Complete, InterruptSessions, InterruptOperations

\* publish() counts the mailbox before it adds its request.
LEMMA PublishLimit ==
    ASSUME LimitInv, NEW q \in Request, NEW gone, NEW posted \in PublishOutcomes(q, gone),
           Pending' \subseteq (Pending \ gone) \cup posted
    PROVE  AtMost(Pending', MaxPending)
<1>1. AtMost(Pending \ gone, MaxPending)
  BY Shrinks, CapacityAssumption DEF LimitInv
<1>2. CASE posted = {}
  BY <1>1, <1>2, Shrinks, CapacityAssumption
<1>3. CASE posted # {}
  <2>1. posted = {q} /\ Cardinality(Pending \ gone) < MaxPending
    BY <1>3 DEF PublishOutcomes
  <2>2. QED BY <1>1, <2>1, Grows, CapacityAssumption DEF AtMost
<1>4. QED BY <1>2, <1>3

\* createSession counts the provider's live sessions.
LEMMA CreateLimits ==
    ASSUME IInv, Kept, LimitInv, NEW s \in SessionId, NEW w \in Window, CreateSession(s, w)
    PROVE  LimitInv'
<1> DEFINE p      == leases[w]
           gone   == MailOf(Lapsed)
           staged == [x \in DOMAIN sessions \cup {s} |->
                        IF x = s THEN NewSession(p) ELSE sessions[x]]
<1>1. PICK posted \in PublishOutcomes(Create(s), gone) :
         Complete(staged, operations, gone \cup ({Create(s)} \ posted), posted)
  BY DEF CreateSession
<1> DEFINE R == gone \cup ({Create(s)} \ posted)
<1>2. posted \in SUBSET Request /\ Create(s) \in Request
  BY RequestNames DEF PublishOutcomes
<1>3. /\ s \notin DOMAIN sessions
      /\ Cardinality(LiveOn(p)) < ProviderSessions
      /\ handles' = handles
  BY DEF CreateSession
<1>4. DOMAIN staged = DOMAIN sessions \cup {s}
  OBVIOUS
<1>5. sessions' = InterruptSessions(staged, R) /\ staged[s] = NewSession(p)
  BY <1>1 DEF Complete
<1> HIDE DEF staged, R
<1>6. s \in DOMAIN sessions' => sessions'[s].provider = p
  <2>1. sessions'[s] \in {staged[s], [staged[s] EXCEPT !.state = "failed"],
                          [staged[s] EXCEPT !.state = "destroyed"]}
    BY <1>4, <1>5 DEF InterruptSessions
  <2>2. QED BY <1>5, <2>1 DEF NewSession
<1>7. /\ Pending' \subseteq (Pending \ R) \cup posted
      /\ DOMAIN sessions' = DOMAIN sessions \cup {s}
      /\ DOMAIN operations' = DOMAIN operations
  BY <1>1, <1>2, <1>4, CompletePending DEF R
<1>8. AtMost(Pending', MaxPending)
  <2>1. Pending' \subseteq (Pending \ gone) \cup posted
    BY <1>7 DEF R
  <2> HIDE DEF gone
  <2>2. QED BY <1>2, <2>1, PublishLimit
<1>9. IsFiniteSet(DOMAIN sessions') /\ IsFiniteSet(DOMAIN operations')
  BY <1>7, FS_AddElement DEF LimitInv
<1>10. ASSUME NEW q \in Provider PROVE AtMost(LiveOn(q)', ProviderSessions)
  <2>1. CASE q = p
    <3>1. LiveOn(q)' \subseteq LiveOn(q) \cup {s}
      BY <1>7, CountedRows
    <3>2. QED BY <1>3, <2>1, <3>1, Grows, LimitAssumption DEF LimitInv, AtMost
  <2>2. CASE q # p
    <3>1. LiveOn(q)' \subseteq LiveOn(q) \cup {s}
      BY <1>7, CountedRows
    <3>2. s \notin LiveOn(q)'
      BY <1>6, <2>2 DEF LiveOn
    <3>3. QED BY <3>1, <3>2, Shrinks, LimitAssumption DEF LimitInv
  <2>3. QED BY <2>1, <2>2
<1>11. ASSUME NEW x \in DOMAIN sessions'
       PROVE  AtMost(QueuedOf(x)', SessionOperations) /\ AtMost(HandlesOf(x)', SessionHandles)
  <2>1. QueuedOf(x)' \subseteq QueuedOf(x) /\ HandlesOf(x)' \subseteq HandlesOf(x)
    BY <1>3, <1>7, CountedRows DEF HandlesOf
  <2>2. CASE x = s
    <3>1. QueuedOf(x) = {} /\ HandlesOf(x) = {}
      BY <1>3, <2>2 DEF QueuedOf, HandlesOf, IInv, RowInv, RowsOK, HandlesOK
    <3>2. AtMost({}, SessionOperations) /\ AtMost({}, SessionHandles)
      BY FS_EmptySet, LimitAssumption DEF AtMost
    <3>3. QED BY <2>1, <3>1, <3>2
  <2>3. CASE x # s
    BY <1>7, <2>1, <2>3, Shrinks, LimitAssumption DEF LimitInv
  <2>4. QED BY <2>2, <2>3
<1>12. QED BY <1>8, <1>9, <1>10, <1>11 DEF LimitInv, AtMost

\* invoke counts the operations queued on the session.
LEMMA InvokeLimits ==
    ASSUME IInv, Kept, LimitInv, NEW o \in OperationId, NEW s \in SessionId, Invoke(o, s)
    PROVE  LimitInv'
<1> DEFINE gone    == MailOf(Lapsed)
           new     == [state |-> "queued", session |-> s,
                       navigation |-> sessions[s].navigation, overdue |-> FALSE]
           staged  == [x \in DOMAIN operations \cup {o} |-> IF x = o THEN new ELSE operations[x]]
           renewed == [sessions EXCEPT ![s].expired = FALSE]
<1>1. PICK posted \in PublishOutcomes(Execute(o), gone) :
         Complete(renewed, staged, gone \cup ({Execute(o)} \ posted), posted)
  BY DEF Invoke
<1> DEFINE R == gone \cup ({Execute(o)} \ posted)
<1>2. posted \in SUBSET Request /\ Execute(o) \in Request
  BY RequestNames DEF PublishOutcomes
<1>3. /\ o \notin DOMAIN operations
      /\ Cardinality(QueuedOf(s)) < SessionOperations
      /\ s \in DOMAIN sessions
      /\ handles' = handles
  BY DEF Invoke
<1>4. DOMAIN staged = DOMAIN operations \cup {o} /\ DOMAIN renewed = DOMAIN sessions
  OBVIOUS
<1>5. operations' = InterruptOperations(staged, R) /\ staged[o] = new
  BY <1>1 DEF Complete
<1>6. new.session = s /\ [new EXCEPT !.state = "interrupted"].session = s
  OBVIOUS
<1> HIDE DEF staged, R, new, renewed
<1>7. o \in DOMAIN operations' => operations'[o].session = s
  <2>1. operations'[o] \in {new, [new EXCEPT !.state = "interrupted"]}
    BY <1>4, <1>5 DEF InterruptOperations
  <2>2. QED BY <1>6, <2>1
<1>8. /\ Pending' \subseteq (Pending \ R) \cup posted
      /\ DOMAIN sessions' = DOMAIN sessions
      /\ DOMAIN operations' = DOMAIN operations \cup {o}
  BY <1>1, <1>2, <1>4, CompletePending DEF R
<1>9. AtMost(Pending', MaxPending)
  <2>1. Pending' \subseteq (Pending \ gone) \cup posted
    BY <1>8 DEF R
  <2> HIDE DEF gone
  <2>2. QED BY <1>2, <2>1, PublishLimit
<1>10. IsFiniteSet(DOMAIN sessions') /\ IsFiniteSet(DOMAIN operations')
  BY <1>8, FS_AddElement DEF LimitInv
<1>11. ASSUME NEW q \in Provider PROVE AtMost(LiveOn(q)', ProviderSessions)
  <2>1. LiveOn(q)' \subseteq LiveOn(q)
    BY <1>8, CountedRows
  <2>2. QED BY <2>1, Shrinks, LimitAssumption DEF LimitInv
<1>12. ASSUME NEW x \in DOMAIN sessions
       PROVE  AtMost(QueuedOf(x)', SessionOperations) /\ AtMost(HandlesOf(x)', SessionHandles)
  <2>1. QueuedOf(x)' \subseteq QueuedOf(x) \cup {o} /\ HandlesOf(x)' \subseteq HandlesOf(x)
    BY <1>3, <1>8, CountedRows DEF HandlesOf
  <2>2. AtMost(QueuedOf(x)', SessionOperations)
    <3>1. CASE x = s
      BY <1>3, <2>1, <3>1, Grows, LimitAssumption DEF LimitInv, AtMost
    <3>2. CASE x # s
      <4>1. o \notin QueuedOf(x)'
        BY <1>7, <3>2 DEF QueuedOf
      <4>2. QED BY <2>1, <4>1, Shrinks, LimitAssumption DEF LimitInv
    <3>3. QED BY <3>1, <3>2
  <2>3. AtMost(HandlesOf(x)', SessionHandles)
    BY <2>1, Shrinks, LimitAssumption DEF LimitInv
  <2>4. QED BY <2>2, <2>3
<1>13. QED BY <1>8, <1>9, <1>10, <1>11, <1>12 DEF LimitInv, AtMost

\* cancelOperation publishes at most one request, and only where there is room.
LEMMA CancelLimits ==
    ASSUME IInv, Kept, LimitInv, NEW o \in OperationId, CancelOperation(o)
    PROVE  LimitInv'
<1> DEFINE q      == sessions[operations[o].session].provider
           lapsed == {w \in Lapsed : leases[w] = q}
           gone   == Unsent(o) \cup MailOf(lapsed)
           staged == [operations EXCEPT ![o].state = "canceled"]
<1>1. PICK posted \in (IF IsCurrent(q) THEN PublishOutcomes(Withdraw(o), gone) ELSE {{}}) :
         Complete(sessions, staged, gone, posted)
  BY DEF CancelOperation
<1>2. posted \in SUBSET Request /\ Withdraw(o) \in Request
  BY RequestNames DEF PublishOutcomes
<1>3. handles' = handles /\ DOMAIN staged = DOMAIN operations
  BY DEF CancelOperation
<1>4. posted \in PublishOutcomes(Withdraw(o), gone) \/ posted = {}
  OBVIOUS
<1> HIDE DEF q, lapsed, gone, staged
<1>5. /\ Pending' \subseteq (Pending \ gone) \cup posted
      /\ DOMAIN sessions' = DOMAIN sessions
      /\ DOMAIN operations' = DOMAIN operations
  BY <1>1, <1>2, <1>3, CompletePending
<1>6. AtMost(Pending', MaxPending)
  <2>1. CASE posted \in PublishOutcomes(Withdraw(o), gone)
    BY <1>2, <1>5, <2>1, PublishLimit
  <2>2. CASE posted = {}
    BY <1>5, <2>2, Shrinks, CapacityAssumption DEF LimitInv
  <2>3. QED BY <1>4, <2>1, <2>2
<1>7. QED BY <1>3, <1>5, <1>6, SteadyLimits

\* destroySession likewise.
LEMMA DestroyLimits ==
    ASSUME IInv, Kept, LimitInv, NEW s \in SessionId, DestroySession(s)
    PROVE  LimitInv'
<1> DEFINE gone == MailOf(Lapsed)
           ds == StageDestroySessions(sessions, {s})
           do == StageDestroyOperations(operations, {s})
<1>1. PICK posted \in PublishOutcomes(Destroy(s), gone) :
         Complete(ds, do, gone \cup ({Destroy(s)} \ posted), posted)
  BY DEF DestroySession
<1> DEFINE R == gone \cup ({Destroy(s)} \ posted)
<1>2. posted \in SUBSET Request /\ Destroy(s) \in Request
  BY RequestNames DEF PublishOutcomes
<1>3. /\ DOMAIN ds = DOMAIN sessions /\ DOMAIN do = DOMAIN operations
      /\ handles' \subseteq handles
  BY DEF DestroySession, ReleaseSessions, StageDestroySessions, StageDestroyOperations
<1> HIDE DEF ds, do, R
<1>4. /\ Pending' \subseteq (Pending \ R) \cup posted
      /\ DOMAIN sessions' = DOMAIN sessions
      /\ DOMAIN operations' = DOMAIN operations
  BY <1>1, <1>2, <1>3, CompletePending DEF R
<1>5. Pending' \subseteq (Pending \ gone) \cup posted
  BY <1>4 DEF R
<1> HIDE DEF gone
<1>6. AtMost(Pending', MaxPending)
  BY <1>2, <1>5, PublishLimit
<1>7. QED BY <1>3, <1>4, <1>6, SteadyLimits

\* reconcile publishes the destroys of expired sessions until the mailbox is
\* full, what it removed included.
LEMMA ReconcileLimits == ASSUME IInv, Kept, LimitInv, Reconcile PROVE LimitInv'
<1> DEFINE ds == StageDestroySessions(ReconcileSessions, Expiring)
           do == StageDestroyOperations(ReconcileOperations, Expiring)
           D  == {Destroy(s) : s \in Expiring}
           A  == Pending \ ReconcileMail
<1>1. PICK posted \in ReconcilePosts :
         Complete(ds, do, ReconcileMail \cup (D \ posted), posted)
  BY DEF Reconcile
<1>2. /\ DOMAIN ds = DOMAIN sessions /\ DOMAIN do = DOMAIN operations
      /\ handles' \subseteq handles
  BY DEF Reconcile, ReleaseSessions, StageDestroySessions, StageDestroyOperations,
         ReconcileSessions, ReconcileOperations
<1>3. posted \subseteq D /\ Cardinality(A) + Cardinality(posted) <= MaxPending
  BY DEF ReconcilePosts
<1>4. Expiring \subseteq DOMAIN sessions
  BY DEF Expiring, DroppedSessions
<1>5. posted \in SUBSET Request
  BY <1>3, <1>4, RequestNames DEF IInv, RowInv, RowsOK
<1>6. IsFiniteSet(D)
  <2> DEFINE f == [s \in Expiring |-> Destroy(s)]
  <2>1. IsFiniteSet(Expiring)
    BY <1>4, FS_Subset DEF LimitInv
  <2>2. f \in [Expiring -> D] /\ \A d \in D : \E s \in Expiring : f[s] = d
    OBVIOUS
  <2>3. f \in Surjection(Expiring, D)
    BY <2>2 DEF Surjection
  <2> HIDE DEF f, D
  <2>4. QED BY <2>1, <2>3, FS_Surjection
<1>7. IsFiniteSet(A) /\ IsFiniteSet(posted)
  BY <1>3, <1>6, FS_Subset DEF LimitInv, AtMost
<1> HIDE DEF D, ds, do
<1>8. /\ Pending' \subseteq (Pending \ (ReconcileMail \cup (D \ posted))) \cup posted
      /\ DOMAIN sessions' = DOMAIN sessions
      /\ DOMAIN operations' = DOMAIN operations
  BY <1>1, <1>2, <1>5, CompletePending
<1>9. AtMost(Pending', MaxPending)
  <2>1. Pending' \subseteq A \cup posted
    BY <1>8
  <2> HIDE DEF A
  <2>2. /\ IsFiniteSet(A \cup posted)
        /\ Cardinality(A \cup posted)
             = Cardinality(A) + Cardinality(posted) - Cardinality(A \cap posted)
    BY <1>7, FS_Union
  <2>3. IsFiniteSet(A \cap posted)
    BY <1>7, FS_Subset
  <2>4. /\ Cardinality(A) \in Nat /\ Cardinality(posted) \in Nat
        /\ Cardinality(A \cap posted) \in Nat
    BY <1>7, <2>3, FS_CardinalityType
  <2>5. AtMost(A \cup posted, MaxPending)
    BY <1>3, <2>2, <2>4, CapacityAssumption DEF AtMost
  <2>6. QED BY <2>1, <2>5, Shrinks, CapacityAssumption
<1>10. QED BY <1>2, <1>8, <1>9, SteadyLimits

\* acknowledge counts the session's handles before it registers one more.
LEMMA ScreenshotLimits ==
    ASSUME IInv, Kept, LimitInv, NEW o \in OperationId, NEW n \in Navigation,
           AcknowledgeScreenshot(o, n)
    PROVE  LimitInv'
<1> DEFINE z == operations[o].session
<1>1. /\ CommitsAnswer(o, "succeeded", n)
      /\ Cardinality(HandlesOf(z)) < SessionHandles
      /\ handles' \subseteq handles \cup {o}
      /\ mail' = mail \/ Resolve(Execute(o))
  BY DEF AcknowledgeScreenshot, HandleFits
<1>2. "succeeded" \in OperationFinal
  BY DEF OperationFinal
<1>3. /\ o \in DOMAIN operations
      /\ DOMAIN sessions' = DOMAIN sessions
      /\ DOMAIN operations' = DOMAIN operations
      /\ \A x \in DOMAIN operations : operations'[x].session = operations[x].session
  BY <1>1, <1>2, CommittedRows
<1>4. Pending' \subseteq Pending
  BY <1>1 DEF Resolve, Pending, IInv, RowInv
<1>5. AtMost(Pending', MaxPending)
  BY <1>4, Shrinks, CapacityAssumption DEF LimitInv
<1>6. ASSUME NEW p \in Provider PROVE AtMost(LiveOn(p)', ProviderSessions)
  <2>1. LiveOn(p)' \subseteq LiveOn(p)
    BY <1>3, CountedRows
  <2>2. QED BY <2>1, Shrinks, LimitAssumption DEF LimitInv
<1>7. ASSUME NEW s \in DOMAIN sessions
      PROVE  AtMost(QueuedOf(s)', SessionOperations) /\ AtMost(HandlesOf(s)', SessionHandles)
  <2>1. QueuedOf(s)' \subseteq QueuedOf(s) /\ HandlesOf(s)' \subseteq HandlesOf(s) \cup {o}
    BY <1>1, <1>3, CountedRows DEF HandlesOf
  <2>2. AtMost(HandlesOf(s)', SessionHandles)
    <3>1. CASE s = z
      BY <1>1, <2>1, <3>1, Grows, LimitAssumption DEF LimitInv, AtMost
    <3>2. CASE s # z
      <4>1. o \notin HandlesOf(s)'
        BY <1>3, <3>2 DEF HandlesOf
      <4>2. QED BY <2>1, <4>1, Shrinks, LimitAssumption DEF LimitInv
    <3>3. QED BY <3>1, <3>2
  <2>3. AtMost(QueuedOf(s)', SessionOperations)
    BY <2>1, Shrinks, LimitAssumption DEF LimitInv
  <2>4. QED BY <2>2, <2>3
<1>8. QED BY <1>3, <1>5, <1>6, <1>7 DEF LimitInv, AtMost

\* Every other step adds no row, no request and no handle.
Adds ==
    \/ \E s \in SessionId : DestroySession(s) \/ \E w \in Window : CreateSession(s, w)
    \/ \E o \in OperationId : \/ CancelOperation(o)
                              \/ \E s \in SessionId : Invoke(o, s)
                              \/ \E n \in Navigation : AcknowledgeScreenshot(o, n)
    \/ Reconcile

LEMMA OtherSteps ==
    ASSUME IInv, [Next]_vars, ~Adds
    PROVE  /\ DOMAIN sessions' = DOMAIN sessions
           /\ DOMAIN operations' = DOMAIN operations
           /\ handles' \subseteq handles
           /\ Pending' \subseteq Pending
<1> DEFINE Goal == /\ DOMAIN sessions' = DOMAIN sessions
                   /\ DOMAIN operations' = DOMAIN operations
                   /\ handles' \subseteq handles
                   /\ Pending' \subseteq Pending
<1>0. mail \in [Request -> MailStatus]
  BY DEF IInv, RowInv
<1>1. ASSUME NEW R, Complete(sessions, operations, R, {}), handles' = handles PROVE Goal
  BY <1>1, CompletePending
<1>2. ASSUME NEW r \in Request, Answers(r), Resolve(r) PROVE Pending' \subseteq Pending
  BY <1>0, <1>2 DEF Resolve, Pending
<1>3. CASE \E w \in Window : WindowHosted(w) \/ RegisterTrustedWindow(w) \/ LoseProvider(w)
  BY <1>1, <1>3 DEF WindowHosted, RegisterTrustedWindow, LoseProvider, Pending
<1>4. CASE ClaimFails
  BY <1>1, <1>4 DEF ClaimFails
<1>5. ASSUME NEW s \in SessionId,
             \/ SessionExpires(s)
             \/ \E request \in {Create(s), Destroy(s)}, outcome \in SessionState :
                   AcknowledgeSession(s, request, outcome)
      PROVE  Goal
  <2>1. CASE SessionExpires(s)
    BY <2>1 DEF SessionExpires, Pending
  <2>2. CASE \E request \in {Create(s), Destroy(s)}, outcome \in SessionState :
               AcknowledgeSession(s, request, outcome)
    BY <1>2, <2>2, RequestNames DEF AcknowledgeSession
  <2>3. QED BY <1>5, <2>1, <2>2
<1>6. ASSUME NEW o \in OperationId,
             \/ OperationOverdue(o) \/ HandleGone(o) \/ AcknowledgeLate(o)
             \/ \E n \in Navigation : \E outcome \in OperationFinal :
                   AcknowledgeOperation(o, outcome, n)
      PROVE  Goal
  <2>1. CASE OperationOverdue(o) \/ HandleGone(o)
    BY <2>1 DEF OperationOverdue, HandleGone, Pending
  <2>2. CASE AcknowledgeLate(o)
    BY <1>2, <2>2, RequestNames DEF AcknowledgeLate
  <2>3. CASE \E n \in Navigation : \E outcome \in OperationFinal :
               AcknowledgeOperation(o, outcome, n)
    BY <1>2, <2>3, RequestNames DEF AcknowledgeOperation, CommitsAnswer, Navigated
  <2>4. QED BY <1>6, <2>1, <2>2, <2>3
<1>7. CASE \E p \in Provider, seen \in [SessionId -> Navigation],
             taken \in {{}} \cup {{r} : r \in Request} : Poll(p, seen, taken)
  BY <1>7 DEF Poll, Pending
<1>8. CASE \E r \in Request : TimesOut(r)
  BY <1>1, <1>8 DEF TimesOut
<1>9. CASE Close \/ Crash \/ Start
  BY <1>9 DEF Close, Crash, Start, LoseMemory, Recover, Pending, rows
<1>10. CASE UNCHANGED vars
  BY <1>10 DEF vars, Pending
<1>11. QED BY <1>3, <1>4, <1>5, <1>6, <1>7, <1>8, <1>9, <1>10 DEF Next, Adds

\* Every step keeps the limits.
LEMMA StepLimits == ASSUME IInv, LimitInv, [Next]_vars PROVE LimitInv'
<1>1. Kept
  BY StepIInv
<1>2. CASE Adds
  BY <1>1, <1>2, CreateLimits, InvokeLimits, CancelLimits, DestroyLimits, ReconcileLimits,
     ScreenshotLimits DEF Adds
<1>3. CASE ~Adds
  <2>1. /\ DOMAIN sessions' = DOMAIN sessions
        /\ DOMAIN operations' = DOMAIN operations
        /\ handles' \subseteq handles
        /\ Pending' \subseteq Pending
    BY <1>3, OtherSteps
  <2>2. AtMost(Pending', MaxPending)
    BY <2>1, Shrinks, CapacityAssumption DEF LimitInv
  <2>3. QED BY <1>1, <2>1, <2>2, SteadyLimits
<1>4. QED BY <1>2, <1>3

\* The mailbox, the live sessions of a provider, the operations queued on a
\* session and its screenshot handles never outnumber their limits, whatever
\* their values and in whatever order requests, refusals and sweeps come.
THEOREM LimitsKept == Spec => []WithinLimits
<1>1. Init => LimitInv
  <2> SUFFICES ASSUME Init PROVE LimitInv
    OBVIOUS
  <2>1. DOMAIN sessions = {} /\ DOMAIN operations = {} /\ Pending = {}
    BY DEF Init, Pending
  <2>2. \A p : LiveOn(p) = {}
    BY <2>1 DEF LiveOn
  <2>3. AtMost({}, MaxPending) /\ AtMost({}, ProviderSessions)
    BY FS_EmptySet, LimitAssumption, CapacityAssumption DEF AtMost
  <2>4. QED BY <2>1, <2>2, <2>3, FS_EmptySet DEF LimitInv
<1>2. LimitInv => WithinLimits
  BY DEF LimitInv, AtMost, WithinLimits
<1>3. IInv /\ LimitInv /\ [Next]_vars => LimitInv'
  BY StepLimits
<1>4. QED BY <1>1, <1>2, <1>3, InductiveInvariant, PTL DEF Spec
-----------------------------------------------------------------------------
(* Expiry: the sweep, and what enters the mailbox between sweeps.            *)

\* What Complete adds to the mailbox is what it posted.
LEMMA PostedEnters ==
    ASSUME NEW ss, NEW os, NEW R, NEW posted \in SUBSET Request, NEW r,
           Complete(ss, os, R, posted), r \in Pending' \ Pending
    PROVE  /\ r \in posted
           /\ sessions' = InterruptSessions(ss, R)
           /\ operations' = InterruptOperations(os, R)
<1>1. r \in posted
  BY CompletePending
<1>2. QED BY <1>1 DEF Complete

\* invoke stages on a ready session, and what it stages stays on it.
LEMMA InvokeEntersReady ==
    ASSUME IInv, NEW o \in OperationId, NEW s \in SessionId, Invoke(o, s),
           NEW r, r \in Pending' \ Pending
    PROVE  /\ r = Execute(o)
           /\ operations'[o].session = s
           /\ sessions'[s].state = "ready"
<1> DEFINE gone    == MailOf(Lapsed)
           new     == [state |-> "queued", session |-> s,
                       navigation |-> sessions[s].navigation, overdue |-> FALSE]
           staged  == [x \in DOMAIN operations \cup {o} |-> IF x = o THEN new ELSE operations[x]]
           renewed == [sessions EXCEPT ![s].expired = FALSE]
<1>1. PICK posted \in PublishOutcomes(Execute(o), gone) :
         Complete(renewed, staged, gone \cup ({Execute(o)} \ posted), posted)
  BY DEF Invoke
<1> DEFINE R == gone \cup ({Execute(o)} \ posted)
<1>2. posted \subseteq {Execute(o)} /\ Execute(o) \in Request
  BY RequestNames DEF PublishOutcomes
<1>3. /\ s \in DOMAIN sessions /\ sessions[s].state = "ready"
      /\ sessions[s] \in Session
  BY DEF Invoke, IInv, RowInv, RowsOK
<1>4. s \in DOMAIN renewed /\ renewed[s].state = "ready"
  BY <1>3 DEF Session
<1>5. o \in DOMAIN staged /\ staged[o].session = s
  OBVIOUS
<1> HIDE DEF renewed, staged, R
<1>6. Complete(renewed, staged, R, posted)
  BY <1>1 DEF R
<1>7. /\ r \in posted
      /\ sessions' = InterruptSessions(renewed, R)
      /\ operations' = InterruptOperations(staged, R)
  BY <1>2, <1>6, PostedEnters
<1>8. sessions'[s].state = "ready"
  BY <1>4, <1>7 DEF InterruptSessions
<1>9. operations'[o].session = s
  BY <1>5, <1>7 DEF InterruptOperations
<1>10. QED BY <1>2, <1>7, <1>8, <1>9

\* cancelOperation withdraws an operation that was queued, on a ready session.
LEMMA CancelEntersReady ==
    ASSUME IInv, Kept, NEW o \in OperationId, CancelOperation(o), NEW r, r \in Pending' \ Pending
    PROVE  r = Withdraw(o) /\ sessions'[operations'[o].session].state = "ready"
<1> DEFINE q      == sessions[operations[o].session].provider
           lapsed == {w \in Lapsed : leases[w] = q}
           gone   == Unsent(o) \cup MailOf(lapsed)
           staged == [operations EXCEPT ![o].state = "canceled"]
           s      == operations[o].session
<1>1. PICK posted \in (IF IsCurrent(q) THEN PublishOutcomes(Withdraw(o), gone) ELSE {{}}) :
         Complete(sessions, staged, gone, posted)
  BY DEF CancelOperation
<1>2. posted \subseteq {Withdraw(o)} /\ Withdraw(o) \in Request
  BY RequestNames DEF PublishOutcomes
<1>3. o \in DOMAIN operations /\ Queued(o)
  BY DEF CancelOperation
<1>4. s \in DOMAIN sessions /\ sessions[s].state = "ready"
  BY <1>3 DEF IInv, RowInv, RowsOK, OpsReady, Queued
<1> HIDE DEF gone, staged
<1>5. r \in posted /\ sessions' = InterruptSessions(sessions, gone)
  BY <1>1, <1>2, PostedEnters
<1>6. sessions'[s].state = "ready"
  BY <1>4, <1>5 DEF InterruptSessions
<1>7. operations'[o].session = s
  BY <1>3 DEF Kept, Follows
<1>8. QED BY <1>2, <1>5, <1>6, <1>7

\* An operation or cancel request enters the mailbox only for a ready session.
LEMMA EntersReady ==
    ASSUME IInv, [Next]_vars, NEW o \in OperationId, NEW r \in {Execute(o), Withdraw(o)},
           r \in Pending' \ Pending
    PROVE  sessions'[operations'[o].session].state = "ready"
<1>0. Kept
  BY StepIInv
<1>1. ASSUME NEW s \in SessionId, NEW w \in Window, CreateSession(s, w) PROVE FALSE
  <2> DEFINE gone   == MailOf(Lapsed)
             staged == [x \in DOMAIN sessions \cup {s} |->
                          IF x = s THEN NewSession(leases[w]) ELSE sessions[x]]
  <2>1. PICK posted \in PublishOutcomes(Create(s), gone) :
           Complete(staged, operations, gone \cup ({Create(s)} \ posted), posted)
    BY <1>1 DEF CreateSession
  <2>2. posted \subseteq {Create(s)} /\ Create(s) \in Request
    BY RequestNames DEF PublishOutcomes
  <2> HIDE DEF gone, staged
  <2>3. r \in posted
    BY <2>1, <2>2, PostedEnters
  <2>4. QED BY <2>2, <2>3, RequestNames
<1>2. ASSUME NEW s \in SessionId, DestroySession(s) PROVE FALSE
  <2> DEFINE gone == MailOf(Lapsed)
             ss   == StageDestroySessions(sessions, {s})
             os   == StageDestroyOperations(operations, {s})
  <2>1. PICK posted \in PublishOutcomes(Destroy(s), gone) :
           Complete(ss, os, gone \cup ({Destroy(s)} \ posted), posted)
    BY <1>2 DEF DestroySession
  <2>2. posted \subseteq {Destroy(s)} /\ Destroy(s) \in Request
    BY RequestNames DEF PublishOutcomes
  <2> HIDE DEF gone, ss, os
  <2>3. r \in posted
    BY <2>1, <2>2, PostedEnters
  <2>4. QED BY <2>2, <2>3, RequestNames
<1>3. ASSUME Reconcile PROVE FALSE
  <2> DEFINE R(posted) == ReconcileMail \cup ({Destroy(s) : s \in Expiring} \ posted)
             ss == StageDestroySessions(ReconcileSessions, Expiring)
             os == StageDestroyOperations(ReconcileOperations, Expiring)
  <2>1. PICK posted \in ReconcilePosts : Complete(ss, os, R(posted), posted)
    BY <1>3 DEF Reconcile
  <2>2. posted \subseteq {Destroy(s) : s \in Expiring}
    BY DEF ReconcilePosts
  <2>3. Expiring \subseteq SessionId
    BY DEF Expiring, DroppedSessions, IInv, RowInv, RowsOK
  <2>4. posted \in SUBSET Request
    BY <2>2, <2>3, RequestNames
  <2> HIDE DEF R, ss, os
  <2>5. r \in posted
    BY <2>1, <2>4, PostedEnters
  <2>6. QED BY <2>2, <2>5, RequestNames
<1>4. ASSUME NEW x \in OperationId, NEW n \in Navigation, AcknowledgeScreenshot(x, n)
      PROVE  FALSE
  <2>1. mail \in [Request -> MailStatus]
    BY DEF IInv, RowInv
  <2>2. Pending' \subseteq Pending
    BY <1>4, <2>1 DEF AcknowledgeScreenshot, Resolve, Pending
  <2>3. QED BY <2>2
<1>5. ASSUME NEW x \in OperationId, NEW s \in SessionId, Invoke(x, s)
      PROVE  sessions'[operations'[o].session].state = "ready"
  <2>1. r = Execute(x) /\ operations'[x].session = s /\ sessions'[s].state = "ready"
    BY <1>5, InvokeEntersReady
  <2>2. x = o
    BY <2>1, RequestNames
  <2>3. QED BY <2>1, <2>2
<1>6. ASSUME NEW x \in OperationId, CancelOperation(x)
      PROVE  sessions'[operations'[o].session].state = "ready"
  <2>1. r = Withdraw(x) /\ sessions'[operations'[x].session].state = "ready"
    BY <1>0, <1>6, CancelEntersReady
  <2>2. x = o
    BY <2>1, RequestNames
  <2>3. QED BY <2>1, <2>2
<1>7. CASE ~Adds
  BY <1>7, OtherSteps
<1>8. QED BY <1>1, <1>2, <1>3, <1>4, <1>5, <1>6, <1>7 DEF Adds

\* The sweep that stages the destroy of an expired session interrupts all that
\* is pending for it, and from then on, for every value of the constants, no
\* operation or cancel request of the session enters the mailbox again: what
\* does enter is always for a session that is ready.
THEOREM ExpiryFence == Spec => ExpiryFencesWork
<1> DEFINE Swept   == Reconcile => \A r \in Pending : SessionOf(r) \in Expiring =>
                                       mail'[r] = "interrupted"
           Entered == \A o \in OperationId : \A r \in {Execute(o), Withdraw(o)} :
                         r \in Pending' \ Pending =>
                             sessions'[operations'[o].session].state = "ready"
<1>1. IInv /\ MailInv /\ [Next]_vars => [Swept]_vars
  <2> SUFFICES ASSUME IInv, MailInv, Reconcile, NEW r \in Pending, SessionOf(r) \in Expiring
               PROVE  mail'[r] = "interrupted"
    OBVIOUS
  <2> DEFINE R(posted) == ReconcileMail \cup ({Destroy(s) : s \in Expiring} \ posted)
  <2>1. PICK posted \in ReconcilePosts :
          Complete(StageDestroySessions(ReconcileSessions, Expiring),
                   StageDestroyOperations(ReconcileOperations, Expiring), R(posted), posted)
    BY DEF Reconcile
  <2>2. r \in ReconcileMail
    BY DEF ReconcileMail, MailOfSession
  <2>3. r \notin posted
    <3>1. SUFFICES ASSUME NEW s \in Expiring, r = Destroy(s) PROVE FALSE
      BY DEF ReconcilePosts
    <3>2. s \in DOMAIN sessions /\ sessions[s].state = "ready" /\ s \in SessionId
      BY DEF Expiring, DroppedSessions, IInv, RowInv, RowsOK
    <3>3. mail[r] = "idle"
      BY <3>1, <3>2, RequestNames DEF MailInv, Unasked, Undestroyed
    <3>4. QED BY <3>3 DEF Pending
  <2>4. r \in Request
    BY DEF Pending
  <2>5. QED BY <2>1, <2>2, <2>3, <2>4 DEF Complete
<1>2. IInv /\ [Next]_vars => [Entered]_vars
  BY EntersReady
<1>3. QED BY <1>1, <1>2, MailInvariant, PTL DEF Spec, ExpiryFencesWork
-----------------------------------------------------------------------------
(* Both ends.                                                                *)

\* The row a request serves is there, and its session with it.
Known(r) ==
    /\ SessionOf(r) \in DOMAIN sessions
    /\ r[1] \in {"execute", "cancel"} => r[2] \in DOMAIN operations

\* What a handler of request r may be.
HandlerOK(r, h) ==
    /\ h \in Handler
    /\ h.step \in Creation => r[1] \in {"create", "execute"}
    /\ h.step = "running" => r[1] = "execute"
    /\ h.step = "answering" /\ r[1] = "execute" => h.state \in OperationFinal

\* A request has a handler between the poll that took it and its answer.
WorkInv ==
    \A r \in Request : /\ HandlerOK(r, work[r])
                       /\ work[r].step # "idle" => mail[r] \in {"inFlight", "interrupted"}

Base == IInv /\ MailInv /\ ProviderTypeOK /\ WorkInv

-----------------------------------------------------------------------------
(* Requests and the rows they serve.                                         *)

\* A request is one of four kinds.
LEMMA RequestKinds ==
    ASSUME NEW r \in Request
    PROVE  \/ r[1] = "create"  /\ r[2] \in SessionId   /\ r = Create(r[2])
           \/ r[1] = "destroy" /\ r[2] \in SessionId   /\ r = Destroy(r[2])
           \/ r[1] = "execute" /\ r[2] \in OperationId /\ r = Execute(r[2])
           \/ r[1] = "cancel"  /\ r[2] \in OperationId /\ r = Withdraw(r[2])
BY DEF Request, Create, Destroy, Execute, Withdraw

LEMMA KindNames ==
    /\ \A s : /\ Create(s)[1] = "create" /\ Create(s)[2] = s /\ SessionOf(Create(s)) = s
              /\ Destroy(s)[1] = "destroy" /\ Destroy(s)[2] = s /\ SessionOf(Destroy(s)) = s
    /\ \A o : /\ Execute(o)[1] = "execute" /\ Execute(o)[2] = o
              /\ SessionOf(Execute(o)) = operations[o].session
              /\ Withdraw(o)[1] = "cancel" /\ Withdraw(o)[2] = o
              /\ SessionOf(Withdraw(o)) = operations[o].session
BY DEF Create, Destroy, Execute, Withdraw, SessionOf

\* What is or was in the mailbox serves a row that is there.
LEMMA MailKnown ==
    ASSUME IInv, MailInv, NEW r \in Request, mail[r] # "idle"
    PROVE  Known(r) /\ SessionOf(r) \in SessionId /\ Addressee(r) \in Provider
<1>1. ~Unasked(sessions, operations, r)
  BY DEF MailInv
<1>2. CASE r[1] \in {"create", "destroy"}
  <2>1. r[2] \in SessionId /\ r \in {Create(r[2]), Destroy(r[2])}
    BY <1>2, RequestKinds
  <2>2. r[2] \in DOMAIN sessions
    BY <1>1, <2>1 DEF Unasked
  <2>3. SessionOf(r) = r[2]
    BY <1>2 DEF SessionOf
  <2>4. sessions[r[2]] \in Session
    BY <2>2 DEF IInv, RowInv, RowsOK
  <2>5. QED BY <1>2, <2>1, <2>2, <2>3, <2>4 DEF Known, Addressee, Session
<1>3. CASE r[1] \in {"execute", "cancel"}
  <2>1. r[2] \in OperationId /\ r \in {Execute(r[2]), Withdraw(r[2])}
    BY <1>3, RequestKinds
  <2>2. r[2] \in DOMAIN operations
    BY <1>1, <2>1 DEF Unasked
  <2>3. SessionOf(r) = operations[r[2]].session
    BY <1>3 DEF SessionOf
  <2>4. SessionOf(r) \in DOMAIN sessions /\ SessionOf(r) \in SessionId
    BY <2>2, <2>3 DEF IInv, RowInv, RowsOK
  <2>5. sessions[SessionOf(r)] \in Session
    BY <2>4 DEF IInv, RowInv, RowsOK
  <2>6. QED BY <2>2, <2>4, <2>5 DEF Known, Addressee, Session
<1>4. QED BY <1>2, <1>3, RequestKinds

\* A row keeps its session and its provider.
LEMMA KnownStays ==
    ASSUME NEW r \in Request, Known(r), Follows(sessions', operations')
    PROVE  /\ Known(r)' /\ SessionOf(r)' = SessionOf(r) /\ Addressee(r)' = Addressee(r)
           /\ r[1] = "execute" => operations'[r[2]].navigation = operations[r[2]].navigation
<1>1. SessionOf(r)' = SessionOf(r)
  BY RequestKinds DEF SessionOf, Known, Follows
<1>2. SessionOf(r) \in DOMAIN sessions' /\ sessions'[SessionOf(r)].provider = sessions[SessionOf(r)].provider
  BY DEF Known, Follows
<1>3. Known(r)'
  BY <1>1, <1>2 DEF Known, Follows
<1>4. r[1] = "execute" => operations'[r[2]].navigation = operations[r[2]].navigation
  BY DEF Known, Follows
<1>5. QED BY <1>1, <1>2, <1>3, <1>4 DEF Addressee

\* A request that has a handler is known.
LEMMA WorkKnown ==
    ASSUME Base, NEW r \in Request, ~Is(r, "idle")
    PROVE  Known(r) /\ SessionOf(r) \in SessionId /\ Addressee(r) \in Provider
BY MailKnown DEF Base, WorkInv, Is

-----------------------------------------------------------------------------
(* What a step of both ends does to the service: a step of its own, or the   *)
(* passing of time.                                                          *)

ServiceKept == Kept /\ MailKept

\* Time passes: rows may expire, nothing else changes in the service.
LEMMA TickService == ASSUME Base, Tick PROVE ServiceKept
<1>1. /\ sessions' = ExpireRows
      /\ UNCHANGED <<hosted, leases, issued, up, operations, handles, mail>>
  BY DEF Tick
<1>2. /\ DOMAIN sessions' = DOMAIN sessions
      /\ sessions' \in [DOMAIN sessions -> Session]
      /\ \A s \in DOMAIN sessions : /\ sessions'[s].state = sessions[s].state
                                    /\ sessions'[s].navigation = sessions[s].navigation
                                    /\ sessions'[s].provider = sessions[s].provider
  <2>1. \A s \in DOMAIN sessions : sessions[s] \in Session /\ (Live(s) /\ left[s] <= 1) \in BOOLEAN
    BY DEF Base, IInv, RowInv, RowsOK, Live
  <2>2. QED BY <1>1, <2>1 DEF ExpireRows, Session
<1>3. RowsOK(sessions', operations') /\ OpsReady(sessions', operations')
  BY <1>1, <1>2 DEF Base, IInv, RowInv, RowsOK, OpsReady
<1>4. up' => Awaited(sessions', operations', Pending')
  BY <1>1, <1>2 DEF Base, IInv, RowInv, Awaited, Pending
<1>5. HandlesOK(sessions', operations', handles')
  BY <1>1, <1>2 DEF Base, IInv, RowInv, RowsOK, HandlesOK
<1>6. Follows(sessions', operations')
  BY <1>1, <1>2, FollowsSelf DEF Base, IInv, RowInv, Follows, Live, LiveSession, Undestroyed
<1>7. Kept
  BY <1>1, <1>3, <1>4, <1>5, <1>6 DEF Kept, Base, IInv, EnvOK, RowInv
<1>8. MailKept
  BY <1>1, <1>6, PendingMail DEF Base
<1>9. QED BY <1>7, <1>8 DEF ServiceKept

\* An accepted answer is one of the acknowledgements of the service.
LEMMA AcceptedNext == ASSUME Base, NEW r \in Request, Accepted(r) PROVE Next
<1> DEFINE a == work[r]
<1>1. /\ HandlerOK(r, a) /\ a.step = "answering" /\ AcceptedWith(r)
  BY DEF Accepted, Base, WorkInv, Is
<1>2. CASE r[1] = "execute"
  <2>1. r[2] \in OperationId /\ a.state \in OperationFinal /\ a.epoch \in Navigation
    BY <1>1, <1>2, RequestKinds DEF HandlerOK, Handler
  <2>2. AcknowledgeOperation(r[2], a.state, a.epoch) \/ AcknowledgeLate(r[2])
    BY <1>1, <1>2 DEF AcceptedWith
  <2> HIDE DEF a
  <2>3. QED BY <2>1, <2>2 DEF Next
<1>3. CASE r[1] # "execute"
  <2>1. AcknowledgeSession(r[2], r, a.state)
    BY <1>1, <1>3 DEF AcceptedWith
  <2> HIDE DEF a
  <2>2. r \in {Create(r[2]), Destroy(r[2])} /\ a.state \in SessionState
    BY <2>1 DEF AcknowledgeSession, SessionState, LiveSession
  <2>3. r[2] \in SessionId
    BY <2>2, RequestKinds, KindNames
  <2>4. QED BY <2>1, <2>2, <2>3 DEF Next
<1>4. QED BY <1>2, <1>3

\* A poll of the provider is a poll of the service.
LEMMA PollsNext ==
    ASSUME Base, NEW w \in Window, NEW taken \in {{}} \cup {{r} : r \in Waiting}, Polls(w, taken)
    PROVE  Next
<1> DEFINE seen == [s \in SessionId |-> IF Has(s) THEN local[s].epoch ELSE 1]
<1>1. active[w] \in Provider
  BY DEF Polls, Base, ProviderTypeOK
<1>2. seen \in [SessionId -> Navigation]
  BY NavigationAssumption DEF Base, ProviderTypeOK, LocalSession, Navigation
<1>3. taken \in {{}} \cup {{r} : r \in Request}
  BY DEF Waiting
<1>4. Poll(active[w], seen, taken)
  BY DEF Polls
<1> HIDE DEF seen
<1>5. QED BY <1>1, <1>2, <1>3, <1>4 DEF Next

\* Whatever both ends do, the service keeps what was proved of it.
LEMMA BothEndsKeepService == ASSUME Base, [ProviderNext]_allVars PROVE ServiceKept
<1>1. ASSUME [Next]_vars PROVE ServiceKept
  BY <1>1, StepIInv, StepMail DEF Base, ServiceKept
<1>2. CASE ServiceStep
  BY <1>1, <1>2 DEF ServiceStep, Next
<1>3. CASE Tick
  BY <1>3, TickService
<1>4. ASSUME NEW w \in Window,
             \/ Registers(w) \/ Stops(w)
             \/ \E taken \in {{}} \cup {{r} : r \in Waiting} : Polls(w, taken)
      PROVE  ServiceKept
  <2>1. CASE Registers(w)
    BY <1>1, <2>1 DEF Registers, Next
  <2>2. CASE Stops(w)
    BY <1>1, <2>2 DEF Stops
  <2>3. CASE \E taken \in {{}} \cup {{r} : r \in Waiting} : Polls(w, taken)
    BY <1>1, <2>3, PollsNext
  <2>4. QED BY <1>4, <2>1, <2>2, <2>3
<1>5. ASSUME NEW s \in SessionId,
             \/ \E w \in Window : Creates(s, w)
             \/ \E o \in OperationId : Invokes(o, s)
             \/ HandlesSession(s) \/ Navigates(s) \/ LocalExpires(s)
      PROVE  ServiceKept
  <2>1. CASE \E w \in Window : Creates(s, w)
    BY <1>1, <2>1 DEF Creates, Next
  <2>2. CASE \E o \in OperationId : Invokes(o, s)
    BY <1>1, <2>2 DEF Invokes, Next
  <2>3. CASE HandlesSession(s) \/ Navigates(s) \/ LocalExpires(s)
    BY <1>1, <2>3 DEF HandlesSession, Navigates, LocalExpires, AwaitsTab, BeginCreate, BeginDestroy, Emptied
  <2>4. QED BY <1>5, <2>1, <2>2, <2>3
<1>6. CASE \E o \in OperationId : HandlesOperation(o)
  BY <1>1, <1>6 DEF HandlesOperation, BeginExecute, BeginCancel, OperationEnds
<1>7. ASSUME NEW r \in Request, Handles(r) PROVE ServiceKept
  <2>1. CASE Accepted(r)
    BY <1>1, <2>1, AcceptedNext
  <2>2. CASE ~Accepted(r)
    BY <1>1, <1>7, <2>2 DEF Handles, Refused, Approved, Opened, Initialized, NotInitialized, Cleared
  <2>3. QED BY <2>1, <2>2
<1>8. CASE UNCHANGED allVars
  BY <1>1, <1>8 DEF allVars
<1>9. QED BY <1>2, <1>3, <1>4, <1>5, <1>6, <1>7, <1>8 DEF ProviderNext

-----------------------------------------------------------------------------
(* The handlers: what they may become.                                       *)

LEMMA AnswerHandler ==
    ASSUME NEW r, NEW state \in OperationFinal, NEW epoch \in Navigation
    PROVE  HandlerOK(r, Answer(state, epoch)) /\ Answer(state, epoch).step = "answering"
BY DEF HandlerOK, Answer, Handler, Step, Creation

LEMMA SimpleHandlers ==
    ASSUME NEW r, NEW flag \in BOOLEAN
    PROVE  /\ HandlerOK(r, Done) /\ Done.step = "idle"
           /\ HandlerOK(r, At("arriving", flag)) /\ HandlerOK(r, At("emptying", flag))
           /\ r[1] = "execute" => HandlerOK(r, At("running", flag))
           /\ r[1] # "execute" => /\ HandlerOK(r, Answer("ready", 1))
                                  /\ HandlerOK(r, Answer("destroyed", 1))
           /\ r[1] \in {"create", "execute"} =>
                 /\ HandlerOK(r, At("asking", flag)) /\ HandlerOK(r, At("opening", flag))
                 /\ HandlerOK(r, At("initializing", flag)) /\ HandlerOK(r, At("clearing", flag))
<1>1. 1 \in Navigation
  BY NavigationAssumption DEF Navigation
<1>2. /\ HandlerOK(r, Done) /\ Done.step = "idle"
      /\ HandlerOK(r, At("arriving", flag)) /\ HandlerOK(r, At("emptying", flag))
  BY <1>1 DEF HandlerOK, At, Done, Idle, Handler, Step, Creation
<1>3. r[1] = "execute" => HandlerOK(r, At("running", flag))
  BY <1>1 DEF HandlerOK, At, Handler, Step, Creation
<1>4. r[1] # "execute" => HandlerOK(r, Answer("ready", 1)) /\ HandlerOK(r, Answer("destroyed", 1))
  BY <1>1 DEF HandlerOK, Answer, Handler, Step, Creation
<1>5. r[1] \in {"create", "execute"} =>
         /\ HandlerOK(r, At("asking", flag)) /\ HandlerOK(r, At("opening", flag))
         /\ HandlerOK(r, At("initializing", flag)) /\ HandlerOK(r, At("clearing", flag))
  BY <1>1 DEF HandlerOK, At, Handler, Step, Creation
<1>6. QED BY <1>2, <1>3, <1>4, <1>5

\* A failure is answered with the epoch the request came with.
LEMMA FailedHandler ==
    ASSUME Base, NEW r \in Request, Known(r)
    PROVE  /\ SnapshotEpoch(r) \in Navigation
           /\ HandlerOK(r, Failed(r)) /\ Failed(r).step = "answering"
           /\ \A serving \in BOOLEAN :
                 /\ HandlerOK(r, FailedIf(serving, r))
                 /\ FailedIf(serving, r).step \in {"idle", "answering"}
<1>1. SnapshotEpoch(r) \in Navigation
  <2>1. r[1] = "execute" => operations[r[2]] \in Operation
    BY DEF Known, Base, IInv, RowInv, RowsOK
  <2>2. QED BY <2>1, NavigationAssumption DEF SnapshotEpoch, Operation, Navigation
<1>2. HandlerOK(r, Failed(r)) /\ Failed(r).step = "answering"
  <2>1. "failed" \in OperationFinal
    BY DEF OperationFinal
  <2>2. QED BY <1>1, <2>1, AnswerHandler DEF Failed
<1>3. QED BY <1>1, <1>2, SimpleHandlers DEF FailedIf

\* Nothing but an outcome, or nothing at all, is told of an operation.
LEMMA ToldHandler ==
    ASSUME NEW r, NEW s, NEW state \in OperationFinal, NEW epoch \in Navigation
    PROVE  HandlerOK(r, Told(s, state, epoch)) /\ Told(s, state, epoch).step \in {"idle", "answering"}
BY AnswerHandler, SimpleHandlers DEF Told

\* What an abort leaves of a handler.
LEMMA AbortedHandler ==
    ASSUME Base, NEW r \in Request, ~Is(r, "idle"), NEW serving \in BOOLEAN
    PROVE  /\ HandlerOK(r, Aborted(r, serving))
           /\ Aborted(r, serving).step \in Creation => work[r].step \in Creation
           /\ Aborted(r, serving).step \notin {"running", "asking", "initializing"}
           /\ Aborted(r, serving).step = "opening" <=> Is(r, "opening")
           /\ Aborted(r, serving).step = "opening" => Aborted(r, serving).flag
           /\ Aborted(r, serving).step = "arriving" => Is(r, "arriving") /\ serving
<1> DEFINE h == Aborted(r, serving)
<1>1. Known(r) /\ HandlerOK(r, work[r])
  BY WorkKnown DEF Base, WorkInv
<1>2. CASE Is(r, "running")
  <2>1. h = Done
    BY <1>2 DEF Aborted, Is
  <2>2. QED BY <1>2, <2>1, SimpleHandlers DEF Creation, Is
<1>3. CASE Is(r, "asking")
  <2>1. h = FailedIf(serving, r)
    BY <1>3 DEF Aborted, Is
  <2> HIDE DEF h
  <2>2. HandlerOK(r, h) /\ h.step \in {"idle", "answering"}
    BY <1>1, <2>1, FailedHandler
  <2>3. QED BY <1>3, <2>2 DEF Creation, Is, h
<1>4. CASE Is(r, "opening")
  <2>1. h = At("opening", TRUE)
    BY <1>4 DEF Aborted, Is
  <2>2. r[1] \in {"create", "execute"}
    BY <1>1, <1>4 DEF HandlerOK, Is, Creation
  <2>3. h.step = "opening" /\ h.flag = TRUE
    BY <2>1 DEF At
  <2>4. QED BY <1>4, <2>1, <2>2, <2>3, SimpleHandlers DEF Creation, Is
<1>5. CASE Is(r, "initializing")
  <2>1. h = FailedIf(serving, r) \/ h = At("clearing", FALSE)
    BY <1>5 DEF Aborted, Is
  <2>2. r[1] \in {"create", "execute"}
    BY <1>1, <1>5 DEF HandlerOK, Is, Creation
  <2> HIDE DEF h
  <2>3. CASE h = FailedIf(serving, r)
    <3>1. HandlerOK(r, h) /\ h.step \in {"idle", "answering"}
      BY <1>1, <2>3, FailedHandler
    <3>2. QED BY <1>5, <3>1 DEF Creation, Is, h
  <2>4. CASE h = At("clearing", FALSE)
    <3>1. HandlerOK(r, h)
      BY <2>2, <2>4, SimpleHandlers
    <3>2. h.step = "clearing"
      BY <2>4 DEF At
    <3>3. QED BY <1>5, <3>1, <3>2 DEF Creation, Is, h
  <2>5. QED BY <2>1, <2>3, <2>4
<1>6. CASE Is(r, "arriving")
  <2>1. h = IF serving THEN work[r] ELSE Done
    BY <1>6 DEF Aborted, Is
  <2> HIDE DEF h
  <2>2. CASE serving
    BY <1>1, <1>6, <2>1, <2>2 DEF Creation, Is, h
  <2>3. CASE ~serving
    BY <1>6, <2>1, <2>3, SimpleHandlers DEF Creation, Is, h
  <2>4. QED BY <2>2, <2>3
<1>7. CASE work[r].step \notin {"running", "asking", "opening", "initializing", "arriving"}
  <2>1. h = work[r]
    BY <1>7 DEF Aborted, Is
  <2>2. QED BY <1>1, <1>7, <2>1 DEF Is
<1>8. QED BY <1>2, <1>3, <1>4, <1>5, <1>6, <1>7 DEF Is

-----------------------------------------------------------------------------
(* What a step does to the handlers, the sessions and the pages of Electron  *)
(* main.                                                                     *)

\* The variables of both ends keep their types.
Fine == ProviderTypeOK' /\ \A q \in Request : HandlerOK(q, work'[q])

OnlyWork(Q) == \A q \in Request \ Q : work'[q] = work[q]

\* The handlers in Q, none of them creating anything, answer or end, or wait on
\* for their tab.  No page comes or goes; one that navigates takes the
\* operations with it that do not expect it.
Ends(Q) ==
    /\ OnlyWork(Q)
    /\ \A q \in Q : /\ work[q].step \notin Creation \cup {"idle"}
                    /\ \/ work'[q].step \in {"idle", "answering"}
                       \/ Is(q, "arriving") /\ work'[q].step = "arriving"
    /\ open' = open
    /\ \A w \in Window : active[w] # NoProvider => active'[w] = active[w]
    /\ \A s \in SessionId :
          /\ local'[s].page = local[s].page
          /\ Has(s) => \/ local'[s].epoch = local[s].epoch
                       \/ \A q \in Request : Is(q, "running") /\ SessionOf(q) = s
                                             /\ ~work[q].flag => q \in Q

\* A poll brings the requests in Q.
Arrives(Q) ==
    /\ OnlyWork(Q)
    /\ \A q \in Q : /\ mail[q] = "queued" /\ mail'[q] = "inFlight"
                    /\ Serving(q)
                    /\ work'[q] = At("arriving", FALSE)
    /\ UNCHANGED <<active, local, open>>

\* A creation begins, on a session that has no other and no page.
Starts(r) ==
    /\ OnlyWork({r}) /\ Is(r, "arriving")
    /\ r[1] = "create" \/ (r[1] = "execute" /\ ~Has(SessionOf(r)))
    /\ CreationsOf(SessionOf(r)) = {}
    /\ \/ work'[r].step = "asking" /\ open' = open
       \/ work'[r].step = "opening" /\ open' = open \cup {r}
    /\ UNCHANGED <<active, local>>

\* It goes on to initialize its page ...
Advances(r) ==
    /\ OnlyWork({r})
    /\ \/ Is(r, "asking") /\ open' = open \cup {r}
       \/ Is(r, "opening") /\ ~work[r].flag /\ open' = open
    /\ work'[r].step = "initializing"
    /\ UNCHANGED <<active, local>>

\* ... or closes it, and may have its storage to clear, or has already.
GivesUp(r) ==
    /\ OnlyWork({r})
    /\ work[r].step \in Creation /\ work'[r].step \in {"clearing", "idle", "answering"}
    /\ open' = open \ {r} \/ (open' = open /\ ~Serving(r) /\ ~Is(r, "opening"))
    /\ UNCHANGED <<active, local>>

\* The creation succeeds, and its operation may run at once.
OnItsPage(r) ==
    /\ r[1] = "execute" /\ Running(SessionOf(r)) = {}
    /\ local'[SessionOf(r)].epoch = operations[r[2]].navigation \/ work'[r].flag
Initializes(r) ==
    /\ OnlyWork({r}) /\ Is(r, "initializing")
    /\ work'[r].step = "answering" \/ (work'[r].step = "running" /\ OnItsPage(r))
    /\ local'[SessionOf(r)].page = {r}
    /\ \A s \in SessionId \ {SessionOf(r)} : local'[s] = local[s]
    /\ UNCHANGED <<active, open>>

\* An operation runs, on the page its caller saw or one it may leave it for.
Runs(r) ==
    /\ OnlyWork({r}) /\ Is(r, "arriving")
    /\ work'[r].step = "running" /\ OnItsPage(r)
    /\ Has(SessionOf(r))
    /\ \A s \in SessionId : local'[s].page = local[s].page /\ local'[s].epoch = local[s].epoch
    /\ UNCHANGED <<active, open>>

\* The sessions in S end, in a provider that goes on (serving) or is lost; the
\* handlers in R, none of them opening anything, end with them.
Quits(S, serving, R) ==
    /\ S \subseteq SessionId
    /\ \A q \in Request \ R : work'[q] = EndAll(S, serving)[q]
    /\ \A q \in R \cap Request :
          /\ SessionOf(q) \in S /\ ~Is(q, "opening") /\ ~Is(q, "idle")
          /\ work'[q].step \in {"idle", "emptying", "answering"}
    /\ local' = Forgotten(S)
    /\ open' = Closed(S)
    /\ \/ serving /\ active' = active
       \/ /\ ~serving
          /\ \E p \in Provider :
                /\ active' = [w \in Window |-> IF active[w] = p THEN NoProvider ELSE active[w]]
                /\ S = {s \in DOMAIN sessions : sessions[s].provider = p}

Effect ==
    \/ \E Q \in SUBSET Request : Ends(Q)
    \/ \E Q \in SUBSET Request : Arrives(Q)
    \/ \E r \in Request : \/ Starts(r) \/ Advances(r) \/ GivesUp(r)
                          \/ Initializes(r) \/ Runs(r)
    \/ \E S, R : \E serving \in BOOLEAN : Quits(S, serving, R)

-----------------------------------------------------------------------------
(* Every step of both ends has one of these effects.                         *)

Outcome == Fine /\ Effect

LEMMA LocalTypes ==
    ASSUME Base
    PROVE  /\ NoSession \in LocalSession
           /\ \A s \in SessionId : /\ local[s] \in LocalSession
                                   /\ local[s].page \subseteq Request
                                   /\ local[s].epoch \in Navigation
                                   /\ local[s].expires \in Time
           /\ 0 \in Time /\ IdleTime \in Time
           /\ \A n \in Time : Earlier(n) \in Time
<1>1. 0 \in Time /\ IdleTime \in Time /\ \A n \in Time : Earlier(n) \in Time
  BY LocalAssumption DEF Time, Earlier
<1>2. NoSession \in LocalSession
  BY <1>1, NavigationAssumption DEF NoSession, LocalSession, Navigation
<1>3. QED BY <1>1, <1>2 DEF Base, ProviderTypeOK, LocalSession

\* One handler changes.
LEMMA OneHandler ==
    ASSUME Base, NEW r \in Request, NEW h, HandlerOK(r, h), work' = [work EXCEPT ![r] = h]
    PROVE  /\ OnlyWork({r}) /\ work'[r] = h
           /\ work' \in [Request -> Handler]
           /\ \A q \in Request : HandlerOK(q, work'[q])
<1>1. work \in [Request -> Handler] /\ h \in Handler
  BY DEF Base, ProviderTypeOK, HandlerOK
<1>2. OnlyWork({r}) /\ work'[r] = h /\ work' \in [Request -> Handler]
  BY <1>1 DEF OnlyWork
<1>3. \A q \in Request : HandlerOK(q, work'[q])
  BY <1>2 DEF Base, WorkInv, OnlyWork
<1>4. QED BY <1>2, <1>3

\* A step of the service alone.
LEMMA ServiceOutcome ==
    ASSUME Base, UNCHANGED <<work, local, open>>, ProviderTypeOK',
           \A w \in Window : active[w] # NoProvider => active'[w] = active[w]
    PROVE  Outcome
<1>1. Ends({})
  BY DEF Ends, OnlyWork
<1>2. QED BY <1>1 DEF Outcome, Effect, Fine, Base, WorkInv

LEMMA ServiceActions ==
    ASSUME Base,
           \/ ServiceStep
           \/ \E s \in SessionId : \/ \E w \in Window : Creates(s, w)
                                   \/ \E o \in OperationId : Invokes(o, s)
           \/ \E w \in Window : Registers(w)
           \/ UNCHANGED allVars
    PROVE  Outcome
<1>1. CASE ServiceStep \/ UNCHANGED allVars
  <2>1. UNCHANGED <<attached, left, carried, active, work, local, open>>
    BY <1>1 DEF ServiceStep, mainVars, allVars
  <2>2. ProviderTypeOK'
    BY <2>1 DEF Base, ProviderTypeOK
  <2>3. QED BY <2>1, <2>2, ServiceOutcome
<1>2. ASSUME NEW s \in SessionId, NEW w \in Window, Creates(s, w) PROVE Outcome
  <2>1. /\ UNCHANGED <<attached, carried, active, work, local, open>>
        /\ left' = [left EXCEPT ![s] = IdleTime]
    BY <1>2 DEF Creates, mainVars
  <2>2. ProviderTypeOK'
    BY <2>1, LocalTypes DEF Base, ProviderTypeOK
  <2>3. QED BY <2>1, <2>2, ServiceOutcome
<1>3. ASSUME NEW s \in SessionId, NEW o \in OperationId, Invokes(o, s) PROVE Outcome
  <2>1. /\ UNCHANGED <<attached, active, work, local, open>>
        /\ left' = [left EXCEPT ![s] = IdleTime]
        /\ carried' = [carried EXCEPT ![o] = left[s]]
    BY <1>3 DEF Invokes, mainVars
  <2>2. ProviderTypeOK'
    BY <2>1, LocalTypes DEF Base, ProviderTypeOK
  <2>3. QED BY <2>1, <2>2, ServiceOutcome
<1>4. ASSUME NEW w \in Window, Registers(w) PROVE Outcome
  <2>1. /\ UNCHANGED <<attached, left, carried, work, local, open>>
        /\ active' = [active EXCEPT ![w] = issued'] /\ active[w] = NoProvider
        /\ issued < MaxProvider /\ issued' = issued + 1
    BY <1>4 DEF Registers, RegisterTrustedWindow
  <2>2. issued' \in Provider
    BY <2>1, ProviderAssumption DEF Base, IInv, EnvOK, Provider
  <2>3. ProviderTypeOK'
    BY <2>1, <2>2 DEF Base, ProviderTypeOK
  <2>4. \A x \in Window : active[x] # NoProvider => active'[x] = active[x]
    BY <2>1 DEF Base, ProviderTypeOK
  <2>5. QED BY <2>1, <2>3, <2>4, ServiceOutcome
<1>5. QED BY <1>1, <1>2, <1>3, <1>4

\* Time passes.
LEMMA TickOutcome == ASSUME Base, Tick PROVE Outcome
<1>1. /\ UNCHANGED <<attached, active, work, open>>
      /\ left' = [s \in SessionId |-> Earlier(left[s])]
      /\ carried' = [o \in OperationId |-> Earlier(carried[o])]
      /\ local' = [s \in SessionId |->
                     IF Has(s) THEN [local[s] EXCEPT !.expires = Earlier(@)] ELSE NoSession]
  BY DEF Tick
<1>2. \A s \in SessionId : /\ local'[s] \in LocalSession
                           /\ local'[s].page = local[s].page
                           /\ Has(s) => local'[s].epoch = local[s].epoch
  <2>1. SUFFICES ASSUME NEW s \in SessionId
                 PROVE  /\ local'[s] \in LocalSession
                        /\ local'[s].page = local[s].page
                        /\ Has(s) => local'[s].epoch = local[s].epoch
    OBVIOUS
  <2>2. local[s] \in LocalSession /\ Earlier(local[s].expires) \in Time /\ NoSession \in LocalSession
    BY LocalTypes
  <2>3. CASE Has(s)
    BY <1>1, <2>2, <2>3 DEF LocalSession
  <2>4. CASE ~Has(s)
    BY <1>1, <2>2, <2>4 DEF Has, NoSession
  <2>5. QED BY <2>3, <2>4
<1>3. ProviderTypeOK'
  <2>1. left' \in [SessionId -> Time] /\ carried' \in [OperationId -> Time]
    BY <1>1, LocalTypes DEF Base, ProviderTypeOK
  <2>2. local' \in [SessionId -> LocalSession]
    BY <1>1, <1>2
  <2>3. QED BY <1>1, <2>1, <2>2 DEF Base, ProviderTypeOK
<1>4. Ends({})
  BY <1>1, <1>2 DEF Ends, OnlyWork
<1>5. QED BY <1>1, <1>3, <1>4 DEF Outcome, Effect, Fine, Base, WorkInv

\* Ending sessions keeps the types.
LEMMA EndAllHandlers ==
    ASSUME Base, NEW S, NEW serving \in BOOLEAN
    PROVE  /\ EndAll(S, serving) \in [Request -> Handler]
           /\ \A q \in Request : HandlerOK(q, EndAll(S, serving)[q])
<1>1. ASSUME NEW q \in Request
      PROVE  HandlerOK(q, EndAll(S, serving)[q])
  <2>1. CASE ~Is(q, "idle") /\ SessionOf(q) \in S
    BY <2>1, AbortedHandler DEF EndAll
  <2>2. CASE ~(~Is(q, "idle") /\ SessionOf(q) \in S)
    BY <2>2 DEF EndAll, Base, WorkInv
  <2>3. QED BY <2>1, <2>2
<1>2. QED BY <1>1 DEF EndAll, HandlerOK

LEMMA QuitsOutcome ==
    ASSUME Base, NEW S, NEW serving \in BOOLEAN, NEW R, Quits(S, serving, R),
           work' \in [Request -> Handler],
           \A q \in R \cap Request : HandlerOK(q, work'[q]),
           UNCHANGED <<attached, left, carried>>
    PROVE  Outcome
<1>1. \A q \in Request : HandlerOK(q, work'[q])
  BY EndAllHandlers DEF Quits
<1>2. local' \in [SessionId -> LocalSession] /\ open' \subseteq Request
  <2>1. local' = Forgotten(S) /\ open' = Closed(S)
    BY DEF Quits
  <2>2. QED BY <2>1, LocalTypes DEF Forgotten, Closed, Base, ProviderTypeOK
<1>3. active' \in [Window -> Provider \cup {NoProvider}]
  <2>1. active \in [Window -> Provider \cup {NoProvider}]
    BY DEF Base, ProviderTypeOK
  <2>2. \/ active' = active
        \/ \E p : active' = [w \in Window |-> IF active[w] = p THEN NoProvider ELSE active[w]]
    BY DEF Quits
  <2>3. QED BY <2>1, <2>2
<1>4. ProviderTypeOK'
  BY <1>2, <1>3 DEF Base, ProviderTypeOK
<1>5. QED BY <1>1, <1>4 DEF Outcome, Effect, Fine

\* A poll that fails, and a window that goes.
LEMMA StopsOutcome == ASSUME Base, NEW w \in Window, Stops(w) PROVE Outcome
<1> DEFINE p == active[w]
           S == {s \in DOMAIN sessions : sessions[s].provider = p}
<1>1. p \in Provider
  BY DEF Stops, Base, ProviderTypeOK
<1>2. /\ active' = [x \in Window |-> IF active[x] = p THEN NoProvider ELSE active[x]]
      /\ local' = Forgotten(S) /\ open' = Closed(S) /\ work' = EndAll(S, FALSE)
      /\ UNCHANGED <<attached, left, carried>>
  BY DEF Stops, Lose
<1>3. S \subseteq SessionId
  BY DEF Base, IInv, RowInv, RowsOK
<1>4. Quits(S, FALSE, {})
  BY <1>1, <1>2, <1>3 DEF Quits
<1>5. work' \in [Request -> Handler]
  BY <1>2, EndAllHandlers
<1> HIDE DEF S, p
<1>6. QED BY <1>2, <1>4, <1>5, QuitsOutcome

\* A refused answer, and a creation that fails with a foreign error, lose the
\* provider if it still runs.
LEMMA ProtocolOutcome ==
    ASSUME Base, NEW r \in Request, ~Is(r, "idle"), ~Is(r, "opening"), ProtocolFails(r),
           UNCHANGED <<attached, left, carried>>
    PROVE  \/ Outcome
           \/ ~Serving(r) /\ work' = [work EXCEPT ![r] = Done] /\ UNCHANGED <<active, local, open>>
<1>1. SUFFICES ASSUME Serving(r) PROVE Outcome
  BY DEF ProtocolFails
<1> DEFINE p == Addressee(r)
           S == {s \in DOMAIN sessions : sessions[s].provider = p}
<1>2. /\ active' = [x \in Window |-> IF active[x] = p THEN NoProvider ELSE active[x]]
      /\ local' = Forgotten(S) /\ open' = Closed(S)
      /\ work' = [EndAll(S, FALSE) EXCEPT ![r] = Done]
  BY <1>1 DEF ProtocolFails, Lose
<1>3. Known(r) /\ p \in Provider
  BY WorkKnown
<1>4. S \subseteq SessionId /\ SessionOf(r) \in S
  BY <1>3 DEF Base, IInv, RowInv, RowsOK, Known, Addressee
<1> HIDE DEF S
<1>5. /\ EndAll(S, FALSE) \in [Request -> Handler]
      /\ HandlerOK(r, Done) /\ Done.step = "idle"
  BY EndAllHandlers, SimpleHandlers
<1>6. /\ work' \in [Request -> Handler] /\ work'[r] = Done
      /\ \A q \in Request \ {r} : work'[q] = EndAll(S, FALSE)[q]
  BY <1>2, <1>5 DEF HandlerOK
<1>7. Quits(S, FALSE, {r})
  <2>1. \E x \in Provider :
           /\ active' = [w \in Window |-> IF active[w] = x THEN NoProvider ELSE active[w]]
           /\ S = {s \in DOMAIN sessions : sessions[s].provider = x}
    BY <1>2, <1>3 DEF S
  <2>2. QED BY <1>2, <1>4, <1>5, <1>6, <2>1 DEF Quits
<1>8. QED BY <1>5, <1>6, <1>7, QuitsOutcome

\* A destroy, and the session's own timer.
LEMMA SessionEndsOutcome ==
    ASSUME Base, NEW s \in SessionId, BeginDestroy(s) \/ LocalExpires(s)
    PROVE  Outcome
<1>1. /\ local' = Forgotten({s}) /\ open' = Closed({s})
      /\ UNCHANGED <<attached, left, carried, active>>
  BY DEF BeginDestroy, LocalExpires
<1>2. EndAll({s}, TRUE) \in [Request -> Handler]
  BY EndAllHandlers
<1>3. CASE LocalExpires(s)
  <2>1. work' = EndAll({s}, TRUE)
    BY <1>3 DEF LocalExpires
  <2>2. Quits({s}, TRUE, {})
    BY <1>1, <2>1 DEF Quits
  <2>3. work' \in [Request -> Handler] /\ \A q \in {} \cap Request : HandlerOK(q, work'[q])
    BY <1>2, <2>1
  <2>4. QED BY <1>1, <2>2, <2>3, QuitsOutcome
<1>4. CASE BeginDestroy(s)
  <2> DEFINE r == Destroy(s)
             h == IF Has(s) /\ s \notin attached THEN At("emptying", FALSE)
                  ELSE Answer("destroyed", 1)
  <2>1. r \in Request /\ r[1] = "destroy" /\ SessionOf(r) = s /\ Is(r, "arriving")
    BY <1>4, RequestNames, KindNames DEF BeginDestroy
  <2>2. work' = [EndAll({s}, TRUE) EXCEPT ![r] = h]
    BY <1>4 DEF BeginDestroy
  <2>3. h.step \in {"emptying", "answering"}
    BY DEF At, Answer
  <2> HIDE DEF r
  <2>4. HandlerOK(r, h)
    BY <2>1, SimpleHandlers
  <2> HIDE DEF h
  <2>5. /\ work' \in [Request -> Handler] /\ work'[r] = h
        /\ \A q \in Request \ {r} : work'[q] = EndAll({s}, TRUE)[q]
    BY <1>2, <2>1, <2>2, <2>4 DEF HandlerOK
  <2>6. Quits({s}, TRUE, {r})
    BY <1>1, <2>1, <2>3, <2>5 DEF Quits, Is
  <2>7. QED BY <1>1, <2>4, <2>5, <2>6, QuitsOutcome
<1>5. QED BY <1>3, <1>4

\* A poll.
LEMMA PollsOutcome ==
    ASSUME Base, NEW w \in Window, NEW taken \in {{}} \cup {{r} : r \in Waiting}, Polls(w, taken)
    PROVE  Outcome
<1>1. /\ \A r \in taken : mail[r] = "queued" /\ Addressee(r) = active[w] /\ r \in Request
      /\ mail' = [r \in Request |-> IF r \in taken THEN "inFlight" ELSE mail[r]]
      /\ work' = [r \in Request |-> IF r \in taken THEN At("arriving", FALSE) ELSE work[r]]
      /\ UNCHANGED <<attached, left, carried, active, local, open>>
  BY DEF Polls, Poll, Waiting
<1>2. \A q \in Request : HandlerOK(q, work'[q])
  BY <1>1, SimpleHandlers DEF Base, WorkInv
<1>3. work' \in [Request -> Handler]
  BY <1>1, <1>2 DEF HandlerOK
<1>4. ProviderTypeOK'
  BY <1>1, <1>3 DEF Base, ProviderTypeOK
<1>5. Arrives(taken) /\ taken \in SUBSET Request
  BY <1>1 DEF Arrives, OnlyWork, Serving
<1>6. QED BY <1>2, <1>4, <1>5 DEF Outcome, Effect, Fine

\* A handler answers or ends, and no page comes, goes or navigates.
LEMMA EndsOutcome ==
    ASSUME Base, NEW r \in Request, NEW h, HandlerOK(r, h),
           work[r].step \notin Creation \cup {"idle"}, h.step \in {"idle", "answering"},
           work' = [work EXCEPT ![r] = h],
           UNCHANGED <<attached, left, carried, active, open>>,
           local' \in [SessionId -> LocalSession],
           \A s \in SessionId : local'[s].page = local[s].page /\ local'[s].epoch = local[s].epoch
    PROVE  Outcome
<1>1. /\ OnlyWork({r}) /\ work'[r] = h /\ work' \in [Request -> Handler]
      /\ \A q \in Request : HandlerOK(q, work'[q])
  BY OneHandler
<1>2. ProviderTypeOK'
  BY <1>1 DEF Base, ProviderTypeOK
<1>3. Ends({r}) /\ {r} \in SUBSET Request
  BY <1>1 DEF Ends
<1>4. QED BY <1>1, <1>2, <1>3 DEF Outcome, Effect, Fine

\* The same when nothing happens to the sessions.
LEMMA QuietOutcome ==
    ASSUME Base, NEW r \in Request, NEW h, HandlerOK(r, h),
           work[r].step \notin Creation \cup {"idle"}, h.step \in {"idle", "answering"},
           work' = [work EXCEPT ![r] = h],
           UNCHANGED <<attached, left, carried, active, open, local>>
    PROVE  Outcome
<1>1. /\ local' \in [SessionId -> LocalSession]
      /\ \A s \in SessionId : local'[s].page = local[s].page /\ local'[s].epoch = local[s].epoch
  BY DEF Base, ProviderTypeOK
<1>2. QED BY <1>1, EndsOutcome

\* Answers, and what follows them without a creation.
LEMMA AnswerOutcome ==
    ASSUME Base, NEW r \in Request, Accepted(r) \/ Refused(r)
    PROVE  Outcome
<1>1. Is(r, "answering") /\ work[r].step \notin Creation \cup {"idle"} /\ UNCHANGED <<attached, left, carried>>
  BY DEF Accepted, Refused, Is, Creation
<1>2. HandlerOK(r, Done) /\ Done.step \in {"idle", "answering"}
  BY SimpleHandlers
<1>3. \/ Outcome
      \/ work' = [work EXCEPT ![r] = Done] /\ UNCHANGED <<active, local, open>>
  <2>1. CASE Accepted(r)
    BY <2>1 DEF Accepted
  <2>2. CASE Refused(r)
    <3>1. ~Is(r, "idle") /\ ~Is(r, "opening") /\ ProtocolFails(r)
      BY <1>1, <2>2 DEF Refused, Is
    <3>2. QED BY <1>1, <3>1, ProtocolOutcome
  <2>3. QED BY <2>1, <2>2
<1>4. QED BY <1>1, <1>2, <1>3, QuietOutcome

LEMMA OperationEndsOutcome == ASSUME Base, NEW o \in OperationId, OperationEnds(o) PROVE Outcome
<1> DEFINE s == operations[o].session
           r == Execute(o)
<1>1. /\ o \in DOMAIN operations /\ Is(r, "running") /\ r \in Request
      /\ work[r].step \notin Creation \cup {"idle"}
      /\ UNCHANGED <<attached, left, carried, active, local, open>>
  BY RequestNames DEF OperationEnds, Is, Creation
<1>2. s \in SessionId
  BY <1>1 DEF Base, IInv, RowInv, RowsOK
<1>3. local[s].epoch \in Navigation /\ "succeeded" \in OperationFinal
  BY <1>2, LocalTypes DEF OperationFinal
<1>4. work' = [work EXCEPT ![r] = Told(s, "succeeded", local[s].epoch)] \/ work' = [work EXCEPT ![r] = Done]
  BY DEF OperationEnds, Goes
<1> HIDE DEF s, r
<1>5. CASE work' = [work EXCEPT ![r] = Told(s, "succeeded", local[s].epoch)]
  <2>1. /\ HandlerOK(r, Told(s, "succeeded", local[s].epoch))
        /\ Told(s, "succeeded", local[s].epoch).step \in {"idle", "answering"}
    BY <1>3, ToldHandler
  <2>2. QED BY <1>1, <1>5, <2>1, QuietOutcome
<1>6. CASE work' = [work EXCEPT ![r] = Done]
  <2>1. HandlerOK(r, Done) /\ Done.step \in {"idle", "answering"}
    BY SimpleHandlers
  <2>2. QED BY <1>1, <1>6, <2>1, QuietOutcome
<1>7. QED BY <1>4, <1>5, <1>6

LEMMA EmptiedOutcome == ASSUME Base, NEW s \in SessionId, Emptied(s) PROVE Outcome
<1> DEFINE r == Destroy(s)
           h == IF Serving(r) THEN Answer("destroyed", 1) ELSE Done
<1>1. /\ Is(r, "emptying") /\ r \in Request /\ work[r].step \notin Creation \cup {"idle"}
      /\ r[1] = "destroy"
      /\ work' = [work EXCEPT ![r] = h]
      /\ UNCHANGED <<attached, left, carried, active, local, open>>
  BY RequestNames, KindNames DEF Emptied, Is, Creation, Goes
<1>2. h.step \in {"idle", "answering"}
  BY SimpleHandlers DEF Answer
<1> HIDE DEF r
<1>3. HandlerOK(r, h)
  BY <1>1, SimpleHandlers
<1> HIDE DEF h
<1>4. QED BY <1>1, <1>2, <1>3, QuietOutcome

\* A cancel ends its own handler and that of the operation, if it runs.
LEMMA CancelOutcome == ASSUME Base, NEW o \in OperationId, BeginCancel(o) PROVE Outcome
<1> DEFINE s == operations[o].session
           x == Execute(o)
           c == Withdraw(o)
           t == Told(s, "canceled", local[s].epoch)
           h == IF Is(x, "running") THEN t ELSE work[x]
           Q == IF Is(x, "running") THEN {x, c} ELSE {c}
<1>1. /\ o \in DOMAIN operations /\ Is(c, "arriving") /\ c \in Request /\ x \in Request /\ x # c
      /\ UNCHANGED <<attached, left, carried, active, local, open>>
      /\ work' = [work EXCEPT ![c] = Done, ![x] = h]
  BY RequestNames DEF BeginCancel, Is
<1>2. s \in SessionId
  BY <1>1 DEF Base, IInv, RowInv, RowsOK
<1>3. HandlerOK(x, t) /\ t.step \in {"idle", "answering"}
  <2>1. local[s].epoch \in Navigation /\ "canceled" \in OperationFinal
    BY <1>2, LocalTypes DEF OperationFinal
  <2> HIDE DEF s, x
  <2>2. QED BY <2>1, ToldHandler
<1> HIDE DEF s, x, c, t
<1>4. HandlerOK(c, Done) /\ Done.step \in {"idle", "answering"}
  BY SimpleHandlers
<1>5. /\ work' \in [Request -> Handler] /\ work'[c] = Done /\ work'[x] = h
      /\ \A q \in Request \ {c, x} : work'[q] = work[q]
  <2>1. work \in [Request -> Handler] /\ h \in Handler /\ Done \in Handler
    BY <1>1, <1>3, <1>4 DEF Base, ProviderTypeOK, HandlerOK
  <2> HIDE DEF h
  <2>2. QED BY <1>1, <2>1
<1>6. \A q \in Request : HandlerOK(q, work'[q])
  BY <1>1, <1>3, <1>4, <1>5 DEF Base, WorkInv
<1>7. ProviderTypeOK'
  BY <1>1, <1>5 DEF Base, ProviderTypeOK
<1>8. Ends(Q) /\ Q \in SUBSET Request
  BY <1>1, <1>3, <1>4, <1>5 DEF Ends, OnlyWork, Is, Creation
<1>9. QED BY <1>6, <1>7, <1>8 DEF Outcome, Effect, Fine

\* A page navigates.
LEMMA NavigatesOutcome == ASSUME Base, NEW s \in SessionId, Navigates(s) PROVE Outcome
<1> DEFINE n == local[s].epoch + 1
           Q == {q \in Request : Is(q, "running") /\ SessionOf(q) = s /\ ~work[q].flag}
           t == Told(s, "failed", n)
<1>1. /\ local[s].epoch < MaxNavigation
      /\ local' = [local EXCEPT ![s].epoch = local[s].epoch + 1]
      /\ work' = [r \in Request |->
                    IF r \in {Execute(o) : o \in Running(s)} /\ ~work[r].flag THEN t ELSE work[r]]
      /\ UNCHANGED <<attached, left, carried, active, open>>
  BY DEF Navigates
<1>2. \A q \in Request : (q \in {Execute(o) : o \in Running(s)} /\ ~work[q].flag) <=> q \in Q
  <2>1. SUFFICES ASSUME NEW q \in Request
                 PROVE  q \in {Execute(o) : o \in Running(s)} <=> Is(q, "running") /\ SessionOf(q) = s
    OBVIOUS
  <2>2. ASSUME q \in {Execute(o) : o \in Running(s)} PROVE Is(q, "running") /\ SessionOf(q) = s
    <3>1. PICK o \in DOMAIN operations : /\ operations[o].session = s /\ Is(Execute(o), "running")
                                         /\ q = Execute(o)
      BY <2>2 DEF Running
    <3>2. QED BY <3>1, KindNames
  <2>3. ASSUME Is(q, "running"), SessionOf(q) = s PROVE q \in {Execute(o) : o \in Running(s)}
    <3>1. q[1] = "execute" /\ Known(q)
      BY <2>3, WorkKnown DEF Base, WorkInv, HandlerOK, Is
    <3>2. q = Execute(q[2]) /\ q[2] \in DOMAIN operations
      BY <3>1, RequestKinds DEF Known
    <3>3. operations[q[2]].session = s
      BY <2>3, <3>1 DEF SessionOf
    <3>4. q[2] \in Running(s)
      BY <2>3, <3>2, <3>3 DEF Running
    <3>5. QED BY <3>2, <3>4
  <2>4. QED BY <2>2, <2>3
<1>3. n \in Navigation
  BY <1>1, LocalTypes, NavigationAssumption DEF Navigation
<1> HIDE DEF n, Q
<1>4. \A q \in Request : HandlerOK(q, t) /\ t.step \in {"idle", "answering"}
  BY <1>3, ToldHandler DEF OperationFinal
<1> HIDE DEF t
<1>5. work' = [q \in Request |-> IF q \in Q THEN t ELSE work[q]]
  BY <1>1, <1>2
<1>6. \A q \in Request : HandlerOK(q, work'[q])
  BY <1>4, <1>5 DEF Base, WorkInv
<1>7. work' \in [Request -> Handler]
  BY <1>5, <1>6 DEF HandlerOK
<1>8. /\ local' \in [SessionId -> LocalSession]
      /\ \A u \in SessionId : /\ local'[u].page = local[u].page
                              /\ u # s => local'[u].epoch = local[u].epoch
  <2>1. local \in [SessionId -> LocalSession] /\ local[s].epoch + 1 \in Navigation
    BY <1>3 DEF n, Base, ProviderTypeOK
  <2>2. QED BY <1>1, <2>1 DEF LocalSession
<1>9. ProviderTypeOK'
  BY <1>1, <1>7, <1>8 DEF Base, ProviderTypeOK
<1>10. Ends(Q) /\ Q \in SUBSET Request
  <2>1. OnlyWork(Q) /\ Q \in SUBSET Request
    BY <1>5 DEF OnlyWork, Q
  <2>2. \A q \in Q : work[q].step \notin Creation \cup {"idle"} /\ work'[q].step \in {"idle", "answering"}
    BY <1>4, <1>5 DEF Q, Is, Creation
  <2>3. QED BY <1>1, <1>8, <2>1, <2>2 DEF Ends, Q
<1>11. QED BY <1>6, <1>9, <1>10 DEF Outcome, Effect, Fine

\* One handler goes on, and a page may come or go.
LEMMA OneOutcome ==
    ASSUME Base, NEW r \in Request, NEW h, HandlerOK(r, h), work' = [work EXCEPT ![r] = h],
           UNCHANGED <<attached, left, carried, active>>,
           local' \in [SessionId -> LocalSession],
           open' \in {open, open \cup {r}, open \ {r}}
    PROVE  Fine /\ OnlyWork({r}) /\ work'[r] = h
<1>1. /\ OnlyWork({r}) /\ work'[r] = h /\ work' \in [Request -> Handler]
      /\ \A q \in Request : HandlerOK(q, work'[q])
  BY OneHandler
<1>2. ProviderTypeOK'
  BY <1>1 DEF Base, ProviderTypeOK
<1>3. QED BY <1>1, <1>2 DEF Fine

LEMMA EnsuresOutcome ==
    ASSUME Base, NEW r \in Request, Is(r, "arriving"), Ensures(r),
           r[1] = "create" \/ (r[1] = "execute" /\ ~Has(SessionOf(r))),
           UNCHANGED <<attached, left, carried, active, local>>
    PROVE  Outcome
<1>1. local' \in [SessionId -> LocalSession] /\ Known(r) /\ work[r].step \notin Creation \cup {"idle"}
  BY WorkKnown DEF Base, ProviderTypeOK, Is, Creation
<1>2. CASE work' = [work EXCEPT ![r] = Failed(r)] /\ open' = open
  BY <1>1, <1>2, FailedHandler, QuietOutcome
<1>3. ASSUME NEW h, h \in {At("asking", FALSE), At("opening", FALSE)},
             work' = [work EXCEPT ![r] = h], CreationsOf(SessionOf(r)) = {},
             \/ h = At("asking", FALSE) /\ open' = open
             \/ h = At("opening", FALSE) /\ open' = open \cup {r}
      PROVE  Outcome
  <2>1. HandlerOK(r, h)
    BY <1>3, SimpleHandlers
  <2>2. Fine /\ OnlyWork({r}) /\ work'[r] = h
    BY <1>1, <1>3, <2>1, OneOutcome
  <2>3. Starts(r)
    BY <1>3, <2>2 DEF Starts, At
  <2>4. QED BY <2>2, <2>3 DEF Outcome, Effect
<1>4. CASE ~(work' = [work EXCEPT ![r] = Failed(r)] /\ open' = open)
  <2>1. /\ CreationsOf(SessionOf(r)) = {}
        /\ \/ work' = [work EXCEPT ![r] = At("asking", FALSE)] /\ open' = open
           \/ work' = [work EXCEPT ![r] = At("opening", FALSE)] /\ open' = open \cup {r}
    BY <1>4 DEF Ensures, Goes
  <2>2. QED BY <1>3, <2>1
<1>5. QED BY <1>2, <1>4

\* What execute() makes of the handler.
LEMMA ExecutesHandler ==
    ASSUME Base, NEW o \in OperationId, ~Is(Execute(o), "idle"),
           NEW s, NEW ls \in LocalSession, Executes(o, s, ls)
    PROVE  \E h : /\ HandlerOK(Execute(o), h)
                  /\ work' = [work EXCEPT ![Execute(o)] = h]
                  /\ \/ h.step = "answering"
                     \/ /\ h.step = "running" /\ Running(s) = {}
                        /\ ls.epoch = operations[o].navigation \/ h.flag
<1> DEFINE r == Execute(o)
<1>1. PICK valid \in BOOLEAN, navigates \in BOOLEAN, waitsForUrl \in BOOLEAN :
        work' = [work EXCEPT ![r] =
                   IF ~valid \/ ls.expires = 0 \/ Running(s) # {} THEN Failed(r)
                   ELSE IF ~waitsForUrl /\ ls.epoch # operations[o].navigation
                        THEN Answer("failed", ls.epoch)
                   ELSE At("running", navigates \/ waitsForUrl)]
  BY DEF Executes, Goes
<1>2. r \in Request /\ Known(r) /\ r[1] = "execute"
  BY RequestNames, KindNames, WorkKnown
<1>3. ls.epoch \in Navigation /\ "failed" \in OperationFinal
  BY DEF LocalSession, OperationFinal
<1> DEFINE f == navigates \/ waitsForUrl
<1>9. f \in BOOLEAN
  OBVIOUS
<1> HIDE DEF r
<1>4. /\ HandlerOK(r, Failed(r)) /\ Failed(r).step = "answering"
      /\ HandlerOK(r, Answer("failed", ls.epoch)) /\ Answer("failed", ls.epoch).step = "answering"
  BY <1>2, <1>3, FailedHandler, AnswerHandler
<1>10. HandlerOK(r, At("running", f)) /\ At("running", f).step = "running" /\ At("running", f).flag = f
  <2> HIDE DEF f
  <2>1. QED BY <1>2, <1>9, SimpleHandlers DEF At
<1>5. CASE ~valid \/ ls.expires = 0 \/ Running(s) # {}
  <2>1. work' = [work EXCEPT ![r] = Failed(r)]
    BY <1>1, <1>5
  <2>2. QED BY <1>4, <2>1 DEF r
<1>6. CASE /\ ~(~valid \/ ls.expires = 0 \/ Running(s) # {})
           /\ ~waitsForUrl /\ ls.epoch # operations[o].navigation
  <2>1. work' = [work EXCEPT ![r] = Answer("failed", ls.epoch)]
    BY <1>1, <1>6
  <2>2. QED BY <1>4, <2>1 DEF r
<1>7. CASE /\ ~(~valid \/ ls.expires = 0 \/ Running(s) # {})
           /\ waitsForUrl \/ ls.epoch = operations[o].navigation
  <2>1. work' = [work EXCEPT ![r] = At("running", f)]
    BY <1>1, <1>7
  <2>2. ls.epoch = operations[o].navigation \/ f
    BY <1>7
  <2> HIDE DEF f
  <2>3. QED BY <1>7, <1>10, <2>1, <2>2 DEF r
<1>8. QED BY <1>5, <1>6, <1>7

\* The two requests that want a session.
LEMMA BeginCreateOutcome == ASSUME Base, NEW s \in SessionId, BeginCreate(s) PROVE Outcome
<1> DEFINE r == Create(s)
<1>1. /\ r \in Request /\ r[1] = "create" /\ Is(r, "arriving")
      /\ UNCHANGED <<vars, attached, left, carried, active, local>>
  BY RequestNames, KindNames DEF BeginCreate
<1>2. CASE Ensures(r)
  BY <1>1, <1>2, EnsuresOutcome
<1>3. CASE Goes(r, Failed(r)) /\ UNCHANGED open
  <2>1. Known(r)
    BY <1>1, WorkKnown DEF Is
  <2>2. HandlerOK(r, Failed(r)) /\ Failed(r).step = "answering"
    BY <1>1, <2>1, FailedHandler
  <2>3. work[r].step \notin Creation \cup {"idle"}
    BY <1>1 DEF Is, Creation
  <2> HIDE DEF r
  <2>4. QED BY <1>1, <1>3, <2>2, <2>3, QuietOutcome DEF Goes
<1>4. QED BY <1>2, <1>3 DEF BeginCreate

\* A creation that waits for its tab stays where it is.
LEMMA AwaitsTabOutcome == ASSUME Base, NEW s \in SessionId, AwaitsTab(s) PROVE Outcome
<1> DEFINE r == Create(s)
           h == At("arriving", TRUE)
<1>1. /\ r \in Request /\ Is(r, "arriving")
      /\ work' = [work EXCEPT ![r] = h]
      /\ UNCHANGED <<attached, left, carried, active, local, open>>
  BY RequestNames DEF AwaitsTab, Goes
<1>2. HandlerOK(r, h) /\ h.step = "arriving"
  BY SimpleHandlers DEF At
<1> HIDE DEF r, h
<1>3. /\ OnlyWork({r}) /\ work'[r] = h /\ work' \in [Request -> Handler]
      /\ \A q \in Request : HandlerOK(q, work'[q])
  BY <1>1, <1>2, OneHandler
<1>4. ProviderTypeOK'
  BY <1>1, <1>3 DEF Base, ProviderTypeOK
<1>5. Ends({r}) /\ {r} \in SUBSET Request
  BY <1>1, <1>2, <1>3 DEF Ends, Is, Creation
<1>6. QED BY <1>3, <1>4, <1>5 DEF Outcome, Effect, Fine

LEMMA BeginExecuteOutcome == ASSUME Base, NEW o \in OperationId, BeginExecute(o) PROVE Outcome
<1> DEFINE r == Execute(o)
           s == operations[o].session
           ls == [local[s] EXCEPT !.expires = carried[o]]
<1>1. /\ r \in Request /\ r[1] = "execute" /\ SessionOf(r) = s /\ r[2] = o
      /\ Is(r, "arriving") /\ o \in DOMAIN operations
      /\ UNCHANGED <<attached, left, carried, active>>
  BY RequestNames, KindNames DEF BeginExecute
<1>2. s \in SessionId
  BY <1>1 DEF Base, IInv, RowInv, RowsOK
<1>3. CASE ~Has(s)
  <2>1. Ensures(r) /\ UNCHANGED local
    BY <1>3 DEF BeginExecute
  <2> HIDE DEF r, s
  <2>2. QED BY <1>1, <1>3, <2>1, EnsuresOutcome
<1>4. CASE Has(s)
  <2>1. local' = [local EXCEPT ![s] = ls] /\ Executes(o, s, ls) /\ UNCHANGED open
    BY <1>4 DEF BeginExecute
  <2>2. local[s] \in LocalSession /\ carried[o] \in Time
    BY <1>2 DEF Base, ProviderTypeOK
  <2>3. ls \in LocalSession /\ ls.page = local[s].page /\ ls.epoch = local[s].epoch
    BY <2>2 DEF LocalSession
  <2>4. ~Is(r, "idle") /\ work[r].step \notin Creation \cup {"idle"}
    BY <1>1 DEF Is, Creation
  <2> HIDE DEF ls
  <2>5. PICK h : /\ HandlerOK(r, h)
                 /\ work' = [work EXCEPT ![r] = h]
                 /\ \/ h.step = "answering"
                    \/ /\ h.step = "running" /\ Running(s) = {}
                       /\ ls.epoch = operations[o].navigation \/ h.flag
    BY <2>1, <2>3, <2>4, ExecutesHandler
  <2> HIDE DEF r, s
  <2>6. /\ local' \in [SessionId -> LocalSession] /\ local'[s].epoch = ls.epoch
        /\ \A u \in SessionId : local'[u].page = local[u].page /\ local'[u].epoch = local[u].epoch
    BY <1>2, <2>1, <2>3 DEF Base, ProviderTypeOK
  <2>7. CASE h.step = "answering"
    BY <1>1, <2>1, <2>4, <2>5, <2>6, <2>7, EndsOutcome
  <2>8. CASE /\ h.step = "running" /\ Running(s) = {}
             /\ ls.epoch = operations[o].navigation \/ h.flag
    <3>1. Fine /\ OnlyWork({r}) /\ work'[r] = h
      BY <1>1, <2>1, <2>5, <2>6, OneOutcome
    <3>2. Runs(r)
      BY <1>1, <1>4, <2>1, <2>6, <2>8, <3>1 DEF Runs, OnItsPage
    <3>3. QED BY <1>1, <3>1, <3>2 DEF Outcome, Effect
  <2>9. QED BY <2>5, <2>7, <2>8
<1>5. QED BY <1>3, <1>4

\* A creation that fails.
LEMMA CreationFailsOutcome ==
    ASSUME Base, NEW r \in Request, work[r].step \in Creation, ~Is(r, "opening"),
           NEW foreign \in BOOLEAN, CreationFails(r, foreign), UNCHANGED <<attached, left, carried>>
    PROVE  Outcome
<1>1. ~Is(r, "idle") /\ local \in [SessionId -> LocalSession]
  BY DEF Is, Creation, Base, ProviderTypeOK
<1>2. ASSUME NEW h, HandlerOK(r, h), h.step \in {"idle", "answering"},
             work' = [work EXCEPT ![r] = h], UNCHANGED <<active, local>>,
             open' = open \ {r} \/ (open' = open /\ ~Serving(r))
      PROVE  Outcome
  <2>1. Fine /\ OnlyWork({r}) /\ work'[r] = h
    BY <1>1, <1>2, OneOutcome
  <2>2. GivesUp(r)
    BY <1>2, <2>1 DEF GivesUp
  <2>3. QED BY <2>1, <2>2 DEF Outcome, Effect
<1>3. CASE foreign /\ r[1] = "execute"
  <2>1. ProtocolFails(r)
    BY <1>3 DEF CreationFails
  <2>2. CASE ~Serving(r) /\ work' = [work EXCEPT ![r] = Done] /\ UNCHANGED <<active, local, open>>
    BY <1>2, <2>2, SimpleHandlers
  <2>3. QED BY <1>1, <2>1, <2>2, ProtocolOutcome
<1>4. CASE ~(foreign /\ r[1] = "execute")
  <2>1. /\ work' = [work EXCEPT ![r] = FailedIf(Serving(r), r)]
        /\ open' = open \ {r} /\ UNCHANGED <<active, local>>
    BY <1>4 DEF CreationFails, Goes
  <2>2. Known(r) /\ Serving(r) \in BOOLEAN
    BY <1>1, WorkKnown DEF Serving
  <2>3. QED BY <1>2, <2>1, <2>2, FailedHandler
<1>5. QED BY <1>3, <1>4

\* What a creation waited for is there, or not.
LEMMA CreationOutcome ==
    ASSUME Base, NEW r \in Request, Approved(r) \/ Opened(r) \/ NotInitialized(r) \/ Cleared(r)
    PROVE  Outcome
<1>1. /\ UNCHANGED <<attached, left, carried>>
      /\ work[r].step \in Creation
      /\ r[1] \in {"create", "execute"}
      /\ local \in [SessionId -> LocalSession]
  BY DEF Approved, Opened, NotInitialized, Cleared, Is, Creation, Base, WorkInv, HandlerOK, ProviderTypeOK
<1>2. ASSUME ~Is(r, "opening"), NEW foreign \in BOOLEAN, CreationFails(r, foreign) PROVE Outcome
  BY <1>1, <1>2, CreationFailsOutcome
<1>3. ASSUME work' = [work EXCEPT ![r] = At("initializing", FALSE)], UNCHANGED <<active, local>>,
             \/ Is(r, "asking") /\ open' = open \cup {r}
             \/ Is(r, "opening") /\ ~work[r].flag /\ open' = open
      PROVE  Outcome
  <2>1. HandlerOK(r, At("initializing", FALSE)) /\ At("initializing", FALSE).step = "initializing"
    BY <1>1, SimpleHandlers DEF At
  <2>2. Fine /\ OnlyWork({r}) /\ work'[r] = At("initializing", FALSE)
    BY <1>1, <1>3, <2>1, OneOutcome
  <2>3. Advances(r)
    BY <1>3, <2>1, <2>2 DEF Advances
  <2>4. QED BY <2>2, <2>3 DEF Outcome, Effect
<1>4. ASSUME NEW flag \in BOOLEAN, work' = [work EXCEPT ![r] = At("clearing", flag)],
             UNCHANGED <<active, local>>, open' = open \ {r}
      PROVE  Outcome
  <2>1. HandlerOK(r, At("clearing", flag)) /\ At("clearing", flag).step = "clearing"
    BY <1>1, SimpleHandlers DEF At
  <2>2. Fine /\ OnlyWork({r}) /\ work'[r] = At("clearing", flag)
    BY <1>1, <1>4, <2>1, OneOutcome
  <2>3. GivesUp(r)
    BY <1>1, <1>4, <2>1, <2>2 DEF GivesUp
  <2>4. QED BY <2>2, <2>3 DEF Outcome, Effect
<1>5. CASE Approved(r)
  BY <1>2, <1>3, <1>5 DEF Approved, Is, Goes
<1>6. CASE Opened(r)
  BY <1>3, <1>4, <1>6 DEF Opened, Goes
<1>7. CASE NotInitialized(r)
  BY <1>2, <1>4, <1>7 DEF NotInitialized, Is, Goes
<1>8. CASE Cleared(r)
  <2>1. work[r].flag \in BOOLEAN
    BY DEF Base, ProviderTypeOK, Handler
  <2>2. QED BY <1>2, <1>8, <2>1 DEF Cleared, Is
<1>9. QED BY <1>5, <1>6, <1>7, <1>8

LEMMA InitializedOutcome == ASSUME Base, NEW r \in Request, Initialized(r) PROVE Outcome
<1> DEFINE s == SessionOf(r)
           ls == [page |-> {r}, epoch |-> SnapshotEpoch(r), expires |-> SnapshotExpiry(r)]
<1>1. /\ Is(r, "initializing") /\ ~Is(r, "idle")
      /\ local' = [local EXCEPT ![s] = ls]
      /\ UNCHANGED <<attached, left, carried, active, open>>
  BY DEF Initialized, Is
<1>2. Known(r) /\ s \in SessionId /\ r[1] \in {"create", "execute"}
  BY <1>1, WorkKnown DEF Base, WorkInv, HandlerOK, Is, Creation
<1>3. ls \in LocalSession
  <2>1. SnapshotEpoch(r) \in Navigation
    BY <1>2, FailedHandler
  <2>2. SnapshotExpiry(r) \in Time
    BY <1>2, RequestKinds DEF SnapshotExpiry, Base, ProviderTypeOK
  <2>3. QED BY <2>1, <2>2 DEF LocalSession
<1>4. /\ local' \in [SessionId -> LocalSession] /\ local'[s] = ls
      /\ \A u \in SessionId \ {s} : local'[u] = local[u]
  BY <1>1, <1>2, <1>3 DEF Base, ProviderTypeOK
<1>5. \E h : /\ HandlerOK(r, h)
             /\ work' = [work EXCEPT ![r] = h]
             /\ \/ h.step = "answering"
                \/ /\ h.step = "running" /\ Running(s) = {}
                   /\ local'[s].epoch = operations[r[2]].navigation \/ h.flag
                   /\ r[1] = "execute"
  <2>1. CASE r[1] = "create"
    <3>1. work' = [work EXCEPT ![r] = Answer("ready", 1)]
      BY <2>1 DEF Initialized, Goes
    <3>2. HandlerOK(r, Answer("ready", 1)) /\ Answer("ready", 1).step = "answering"
      BY <2>1, SimpleHandlers DEF Answer
    <3>3. QED BY <3>1, <3>2
  <2>2. CASE r[1] = "execute"
    <3>1. r[2] \in OperationId /\ r = Execute(r[2])
      BY <2>2, RequestKinds
    <3>2. Executes(r[2], s, ls)
      BY <2>2 DEF Initialized
    <3>3. ls.epoch = local'[s].epoch
      BY <1>4
    <3> HIDE DEF ls
    <3>4. PICK h : /\ HandlerOK(r, h)
                   /\ work' = [work EXCEPT ![r] = h]
                   /\ \/ h.step = "answering"
                      \/ /\ h.step = "running" /\ Running(s) = {}
                         /\ ls.epoch = operations[r[2]].navigation \/ h.flag
      BY <1>1, <1>3, <3>1, <3>2, ExecutesHandler
    <3>5. QED BY <2>2, <3>3, <3>4
  <2>3. QED BY <1>2, <2>1, <2>2
<1>6. local'[s].page = {r}
  BY <1>4
<1> HIDE DEF ls
<1>7. PICK h : /\ HandlerOK(r, h)
               /\ work' = [work EXCEPT ![r] = h]
               /\ \/ h.step = "answering"
                  \/ /\ h.step = "running" /\ Running(s) = {}
                     /\ local'[s].epoch = operations[r[2]].navigation \/ h.flag
                     /\ r[1] = "execute"
  BY <1>5
<1>8. Fine /\ OnlyWork({r}) /\ work'[r] = h
  BY <1>1, <1>4, <1>7, OneOutcome
<1>9. Initializes(r)
  BY <1>1, <1>4, <1>6, <1>7, <1>8 DEF Initializes, OnItsPage
<1>10. QED BY <1>8, <1>9 DEF Outcome, Effect

\* Every step has an outcome.
LEMMA StepOutcome == ASSUME Base, [ProviderNext]_allVars PROVE Outcome
<1>1. CASE ServiceStep \/ UNCHANGED allVars
  BY <1>1, ServiceActions
<1>2. CASE Tick
  BY <1>2, TickOutcome
<1>3. ASSUME NEW w \in Window,
             \/ Registers(w) \/ Stops(w)
             \/ \E taken \in {{}} \cup {{r} : r \in Waiting} : Polls(w, taken)
      PROVE  Outcome
  BY <1>3, ServiceActions, StopsOutcome, PollsOutcome
<1>4. ASSUME NEW s \in SessionId,
             \/ \E w \in Window : Creates(s, w)
             \/ \E o \in OperationId : Invokes(o, s)
             \/ HandlesSession(s) \/ Navigates(s) \/ LocalExpires(s)
      PROVE  Outcome
  BY <1>4, ServiceActions, AwaitsTabOutcome, BeginCreateOutcome, SessionEndsOutcome, EmptiedOutcome, NavigatesOutcome
     DEF HandlesSession
<1>5. ASSUME NEW o \in OperationId, HandlesOperation(o) PROVE Outcome
  BY <1>5, BeginExecuteOutcome, CancelOutcome, OperationEndsOutcome DEF HandlesOperation
<1>6. ASSUME NEW r \in Request, Handles(r) PROVE Outcome
  BY <1>6, AnswerOutcome, CreationOutcome, InitializedOutcome DEF Handles
<1>7. QED BY <1>1, <1>2, <1>3, <1>4, <1>5, <1>6 DEF ProviderNext

-----------------------------------------------------------------------------
(* What a step tells the handlers of the service.                            *)

\* Only an answer acknowledges a request, no session is staged ready, and only
\* a session that is ready gets an operation.
NoneAcknowledged ==
    \A r \in Request : mail'[r] = "acknowledged" =>
       mail[r] = "acknowledged" \/ work'[r].step = "idle"
Staged ==
    /\ \A s \in DOMAIN sessions' \ DOMAIN sessions : sessions'[s].state # "ready"
    /\ \A o \in DOMAIN operations' \ DOMAIN operations :
          /\ operations'[o].session \in DOMAIN sessions
          /\ sessions[operations'[o].session].state = "ready"
          /\ carried'[o] <= left'[operations'[o].session]
Tells == NoneAcknowledged /\ Staged

\* The end of a handler.
LEMMA CompleteRows ==
    ASSUME Base, NEW ss, NEW os, NEW R, NEW posted, Complete(ss, os, R, posted)
    PROVE  /\ NoneAcknowledged
           /\ DOMAIN sessions' = DOMAIN ss /\ DOMAIN operations' = DOMAIN os
           /\ \A s \in DOMAIN ss : ss[s] \in Session /\ ss[s].state # "ready"
                                   => sessions'[s].state # "ready"
           /\ \A o \in DOMAIN os : os[o] \in Operation => operations'[o].session = os[o].session
<1>1. NoneAcknowledged
  BY DEF Complete, NoneAcknowledged
<1>2. DOMAIN sessions' = DOMAIN ss /\ DOMAIN operations' = DOMAIN os
  BY DEF Complete, InterruptSessions, InterruptOperations
<1>3. \A s \in DOMAIN ss : ss[s] \in Session /\ ss[s].state # "ready"
                           => sessions'[s].state # "ready"
  BY DEF Complete, InterruptSessions, Session
<1>4. \A o \in DOMAIN os : os[o] \in Operation => operations'[o].session = os[o].session
  BY DEF Complete, InterruptOperations, Operation
<1>5. QED BY <1>1, <1>2, <1>3, <1>4

LEMMA CreateTold == ASSUME Base, NEW s \in SessionId, NEW w \in Window, Creates(s, w) PROVE Tells
<1> DEFINE p == leases[w]
           gone == MailOf(Lapsed)
           staged == [x \in DOMAIN sessions \cup {s} |->
                        IF x = s THEN NewSession(p) ELSE sessions[x]]
<1>1. PICK posted \in PublishOutcomes(Create(s), gone) :
         Complete(staged, operations, gone \cup ({Create(s)} \ posted), posted)
  BY DEF Creates, CreateSession
<1>2. /\ NoneAcknowledged
      /\ DOMAIN sessions' = DOMAIN staged /\ DOMAIN operations' = DOMAIN operations
      /\ staged[s] \in Session /\ staged[s].state # "ready" => sessions'[s].state # "ready"
  <2> HIDE DEF staged, gone
  <2>1. s \in DOMAIN staged
    BY DEF staged
  <2>2. QED BY <1>1, <2>1, CompleteRows
<1>3. p \in Provider
  BY DEF Creates, CreateSession, Base, IInv, EnvOK
<1>4. staged[s] \in Session /\ staged[s].state = "creating"
  BY <1>3, NavigationAssumption DEF NewSession, Session, SessionState, LiveSession, Navigation
<1>5. QED BY <1>2, <1>4 DEF Tells, Staged

LEMMA InvokeTold == ASSUME Base, NEW o \in OperationId, NEW s \in SessionId, Invokes(o, s) PROVE Tells
<1> DEFINE gone == MailOf(Lapsed)
           new == [state |-> "queued", session |-> s,
                   navigation |-> sessions[s].navigation, overdue |-> FALSE]
           staged == [x \in DOMAIN operations \cup {o} |-> IF x = o THEN new ELSE operations[x]]
           renewed == [sessions EXCEPT ![s].expired = FALSE]
<1>1. PICK posted \in PublishOutcomes(Execute(o), gone) :
         Complete(renewed, staged, gone \cup ({Execute(o)} \ posted), posted)
  BY DEF Invokes, Invoke
<1>2. s \in DOMAIN sessions /\ sessions[s].state = "ready" /\ o \notin DOMAIN operations
  BY DEF Invokes, Invoke
<1>3. /\ NoneAcknowledged
      /\ DOMAIN sessions' = DOMAIN sessions /\ DOMAIN operations' = DOMAIN staged
      /\ staged[o] \in Operation => operations'[o].session = staged[o].session
  <2>1. o \in DOMAIN staged /\ DOMAIN renewed = DOMAIN sessions
    OBVIOUS
  <2> HIDE DEF staged, gone, renewed
  <2>2. QED BY <1>1, <2>1, CompleteRows
<1>4. staged[o] \in Operation /\ staged[o].session = s
  <2>1. sessions[s].navigation \in Navigation
    BY <1>2 DEF Base, IInv, RowInv, RowsOK, Session
  <2>2. QED BY <2>1 DEF Operation, OperationState
<1>5. carried'[o] <= left'[s]
  <2>1. /\ carried' = [carried EXCEPT ![o] = left[s]]
        /\ left' = [left EXCEPT ![s] = IdleTime]
    BY DEF Invokes
  <2>2. carried'[o] = left[s] /\ left'[s] = IdleTime /\ left[s] \in Time
    BY <2>1 DEF Base, ProviderTypeOK
  <2>3. QED BY <2>2, LocalAssumption DEF Time
<1>6. QED BY <1>2, <1>3, <1>4, <1>5 DEF Tells, Staged

\* What other steps of the service leave to the handlers.
LEMMA ServiceTold == ASSUME Base, ServiceStep PROVE Tells
<1>1. ASSUME NEW ss, NEW os, NEW R, NEW posted, Complete(ss, os, R, posted),
             DOMAIN ss = DOMAIN sessions, DOMAIN os = DOMAIN operations
      PROVE  Tells
  <2>1. NoneAcknowledged /\ DOMAIN sessions' = DOMAIN sessions /\ DOMAIN operations' = DOMAIN operations
    BY <1>1, CompleteRows
  <2>2. QED BY <2>1 DEF Tells, Staged
<1>2. CASE \E w \in Window : LoseProvider(w)
  BY <1>1, <1>2 DEF LoseProvider
<1>3. ASSUME NEW s \in SessionId, DestroySession(s) PROVE Tells
  <2>1. /\ DOMAIN StageDestroySessions(sessions, {s}) = DOMAIN sessions
        /\ DOMAIN StageDestroyOperations(operations, {s}) = DOMAIN operations
    BY DEF StageDestroySessions, StageDestroyOperations
  <2>2. QED BY <1>1, <1>3, <2>1 DEF DestroySession
<1>4. ASSUME NEW o \in OperationId, CancelOperation(o) PROVE Tells
  <2>1. \E R, posted : Complete(sessions, [operations EXCEPT ![o].state = "canceled"], R, posted)
    BY <1>4 DEF CancelOperation
  <2>2. DOMAIN [operations EXCEPT ![o].state = "canceled"] = DOMAIN operations
    OBVIOUS
  <2>3. QED BY <1>1, <2>1, <2>2
<1>5. CASE \E r \in Request : TimesOut(r)
  BY <1>1, <1>5 DEF TimesOut
<1>6. CASE Reconcile
  <2> DEFINE ss == StageDestroySessions(ReconcileSessions, Expiring)
             os == StageDestroyOperations(ReconcileOperations, Expiring)
  <2>1. \E R, posted : Complete(ss, os, R, posted)
    BY <1>6 DEF Reconcile
  <2>2. DOMAIN ss = DOMAIN sessions /\ DOMAIN os = DOMAIN operations
    BY DEF StageDestroySessions, StageDestroyOperations, ReconcileSessions, ReconcileOperations
  <2> HIDE DEF ss, os
  <2>3. QED BY <1>1, <2>1, <2>2
<1>7. QED BY <1>2, <1>3, <1>4, <1>5, <1>6 DEF ServiceStep

\* An answer, a poll, the passing of time, and what is Electron main's alone.
LEMMA AcceptedTold == ASSUME Base, NEW r \in Request, Accepted(r) PROVE Tells
<1>1. work'[r].step = "idle"
  BY DEF Accepted, Done, Idle, At, Base, ProviderTypeOK
<1>2. /\ mail' = [mail EXCEPT ![r] = "acknowledged"]
      /\ DOMAIN sessions' = DOMAIN sessions /\ DOMAIN operations' = DOMAIN operations
  <2>1. CASE r[1] = "execute"
    <3>1. r = Execute(r[2])
      BY <2>1, RequestKinds
    <3>2. \/ AcknowledgeOperation(r[2], work[r].state, work[r].epoch)
          \/ AcknowledgeLate(r[2])
      BY <2>1 DEF Accepted, AcceptedWith
    <3>3. QED BY <3>1, <3>2 DEF AcknowledgeOperation, AcknowledgeLate, CommitsAnswer, Navigated, Resolve
  <2>2. CASE r[1] # "execute"
    <3>1. AcknowledgeSession(r[2], r, work[r].state)
      BY <2>2 DEF Accepted, AcceptedWith
    <3>2. QED BY <3>1 DEF AcknowledgeSession, Resolve
  <2>3. QED BY <2>1, <2>2
<1>3. NoneAcknowledged
  BY <1>1, <1>2 DEF NoneAcknowledged, Base, IInv, RowInv
<1>4. QED BY <1>2, <1>3 DEF Tells, Staged

LEMMA QuietTold ==
    ASSUME Base, DOMAIN sessions' = DOMAIN sessions, DOMAIN operations' = DOMAIN operations,
           \A r \in Request : mail'[r] = "acknowledged" => mail[r] = "acknowledged"
    PROVE  Tells
BY DEF Tells, NoneAcknowledged, Staged

LEMMA StepTold == ASSUME Base, [ProviderNext]_allVars PROVE Tells
<1>1. CASE UNCHANGED vars
  BY <1>1, QuietTold DEF vars
<1>2. CASE ServiceStep
  BY <1>2, ServiceTold
<1>3. CASE Tick
  BY <1>3, QuietTold DEF Tick, ExpireRows
<1>4. ASSUME NEW w \in Window,
             \/ Registers(w) \/ Stops(w)
             \/ \E taken \in {{}} \cup {{r} : r \in Waiting} : Polls(w, taken)
      PROVE  Tells
  <2>1. CASE Registers(w)
    <3>1. Complete(sessions, operations, MailOf({w}), {})
      BY <2>1 DEF Registers, RegisterTrustedWindow
    <3>2. NoneAcknowledged /\ DOMAIN sessions' = DOMAIN sessions /\ DOMAIN operations' = DOMAIN operations
      BY <3>1, CompleteRows
    <3>3. QED BY <3>2 DEF Tells, Staged
  <2>2. CASE Stops(w)
    BY <1>1, <2>2 DEF Stops
  <2>3. CASE \E taken \in {{}} \cup {{r} : r \in Waiting} : Polls(w, taken)
    BY <2>3, QuietTold DEF Polls, Poll
  <2>4. QED BY <1>4, <2>1, <2>2, <2>3
<1>5. ASSUME NEW s \in SessionId,
             \/ \E w \in Window : Creates(s, w)
             \/ \E o \in OperationId : Invokes(o, s)
             \/ HandlesSession(s) \/ Navigates(s) \/ LocalExpires(s)
      PROVE  Tells
  BY <1>1, <1>5, CreateTold, InvokeTold
     DEF HandlesSession, Navigates, LocalExpires, AwaitsTab, BeginCreate, BeginDestroy, Emptied
<1>6. CASE \E o \in OperationId : HandlesOperation(o)
  BY <1>1, <1>6 DEF HandlesOperation, BeginExecute, BeginCancel, OperationEnds
<1>7. ASSUME NEW r \in Request, Handles(r) PROVE Tells
  <2>1. CASE Accepted(r)
    BY <2>1, AcceptedTold
  <2>2. CASE ~Accepted(r)
    BY <1>1, <1>7, <2>2 DEF Handles, Refused, Approved, Opened, Initialized, NotInitialized, Cleared
  <2>3. QED BY <2>1, <2>2
<1>8. QED BY <1>1, <1>2, <1>3, <1>4, <1>5, <1>6, <1>7 DEF ProviderNext, allVars

-----------------------------------------------------------------------------
(* The handlers and the mailbox.                                             *)

\* A handler that is there was there, or its request has just been polled.
LEMMA Awakes ==
    ASSUME Base, Effect, NEW r \in Request, work'[r].step # "idle"
    PROVE  ~Is(r, "idle") \/ mail'[r] = "inFlight"
<1>1. ASSUME NEW Q, Ends(Q) PROVE ~Is(r, "idle")
  BY <1>1 DEF Ends, OnlyWork, Is
<1>2. ASSUME NEW Q, Arrives(Q) PROVE ~Is(r, "idle") \/ mail'[r] = "inFlight"
  BY <1>2 DEF Arrives, OnlyWork, Is
<1>3. ASSUME NEW q, \/ Starts(q) \/ Advances(q) \/ GivesUp(q) \/ Initializes(q) \/ Runs(q)
      PROVE  ~Is(r, "idle")
  BY <1>3 DEF Starts, Advances, GivesUp, Initializes, Runs, OnlyWork, Is, Creation
<1>4. ASSUME NEW S, NEW serving, NEW R, Quits(S, serving, R) PROVE ~Is(r, "idle")
  BY <1>4 DEF Quits, EndAll, Is
<1>5. QED BY <1>1, <1>2, <1>3, <1>4 DEF Effect

\* What was proved of the service, and the handlers' types, are kept.
LEMMA BaseNext ==
    ASSUME Base, [ProviderNext]_allVars
    PROVE  Base' /\ ServiceKept /\ Effect /\ Tells
<1>1. ServiceKept /\ Outcome /\ Tells
  BY BothEndsKeepService, StepOutcome, StepTold
<1>2. WorkInv'
  <2>1. SUFFICES ASSUME NEW r \in Request
                 PROVE  /\ HandlerOK(r, work'[r])
                        /\ work'[r].step # "idle" => mail'[r] \in {"inFlight", "interrupted"}
    BY DEF WorkInv, HandlerOK
  <2>2. HandlerOK(r, work'[r])
    BY <1>1 DEF Outcome, Fine
  <2>3. ASSUME work'[r].step # "idle" PROVE mail'[r] \in {"inFlight", "interrupted"}
    <3>1. mail[r] \in {"inFlight", "interrupted"} \/ mail'[r] = "inFlight"
      BY <1>1, <2>3, Awakes DEF Outcome, Base, WorkInv, Is
    <3>2. mail'[r] # "acknowledged"
      BY <1>1, <2>3, <3>1 DEF Tells, NoneAcknowledged
    <3>3. mail'[r] = mail[r] \/ <<mail[r], mail'[r]>> \in Delivery!Edge
      BY <1>1 DEF ServiceKept, MailKept, StepOf
    <3>4. QED BY <3>1, <3>2, <3>3 DEF Delivery!Edge
  <2>4. QED BY <2>2, <2>3
<1>3. QED BY <1>1, <1>2 DEF Base, ServiceKept, Kept, MailKept, Outcome, Fine

LEMMA BaseInit == ProviderInit => Base
<1> SUFFICES ASSUME ProviderInit PROVE Base
  OBVIOUS
<1>1. Init
  BY DEF ProviderInit
<1>2. IInv /\ MailInv
  BY <1>1, InitIInv DEF Init, MailInv
<1>3. 0 \in Time /\ 1 \in Navigation
  BY LocalAssumption, NavigationAssumption DEF Time, Navigation
<1>4. Idle \in Handler /\ Idle.step = "idle"
  BY <1>3 DEF Idle, At, Handler, Step
<1>5. NoSession \in LocalSession
  BY <1>3 DEF NoSession, LocalSession
<1>6. ProviderTypeOK
  BY <1>3, <1>4, <1>5 DEF ProviderInit, ProviderTypeOK
<1>7. WorkInv
  BY <1>4 DEF ProviderInit, WorkInv, HandlerOK, Creation
<1>8. QED BY <1>2, <1>6, <1>7 DEF Base

-----------------------------------------------------------------------------
(* Creations and pages.                                                      *)

\* A session becomes ready with the answer to its create request, and only
\* then gets operations.
CreatedInv ==
    /\ \A s \in DOMAIN sessions : sessions[s].state = "ready" => mail[Create(s)] = "acknowledged"
    /\ \A o \in DOMAIN operations : mail[Create(operations[o].session)] = "acknowledged"

\* A page is that of the session its request was for, which was handled.
PageInv ==
    \A s \in SessionId : \A r \in local[s].page :
        /\ r[1] \in {"create", "execute"}
        /\ mail[r] \notin {"idle", "queued"}
        /\ SessionOf(r) = s
        /\ ~Is(r, "arriving")

\* A session has one creation under way, or a page.
CreationInv ==
    /\ \A q, r \in Request : work[q].step \in Creation /\ work[r].step \in Creation
                             /\ SessionOf(q) = SessionOf(r) => q = r
    /\ \A s \in SessionId : Has(s) => CreationsOf(s) = {}

PageBase == Base /\ CreatedInv /\ PageInv /\ CreationInv

\* What else a step does that matters here.
Stepped == Base' /\ ServiceKept /\ Effect /\ Tells

LEMMA CreatedNext == ASSUME Base, CreatedInv, Stepped PROVE CreatedInv'
<1>1. \A r \in Request : mail[r] = "acknowledged" => mail'[r] = "acknowledged"
  BY DEF Stepped, ServiceKept, MailKept, StepOf, Delivery!Edge
<1>2. /\ DOMAIN sessions \subseteq SessionId
      /\ \A o \in DOMAIN operations : operations[o].session \in DOMAIN sessions
  BY DEF Base, IInv, RowInv, RowsOK
<1>3. ASSUME NEW s \in DOMAIN sessions', sessions'[s].state = "ready"
      PROVE  mail'[Create(s)] = "acknowledged"
  <2>1. s \in DOMAIN sessions
    BY <1>3 DEF Stepped, Tells, Staged
  <2>2. sessions[s].state = "ready" \/ mail'[Create(s)] = "acknowledged"
    BY <1>3, <2>1 DEF Stepped, ServiceKept, Kept, Follows
  <2>3. Create(s) \in Request
    BY <1>2, <2>1, RequestNames
  <2>4. QED BY <1>1, <2>1, <2>2, <2>3 DEF CreatedInv
<1>4. ASSUME NEW o \in DOMAIN operations'
      PROVE  mail'[Create(operations'[o].session)] = "acknowledged"
  <2>1. CASE o \in DOMAIN operations
    <3>1. operations'[o].session = operations[o].session
      BY <2>1 DEF Stepped, ServiceKept, Kept, Follows
    <3>2. Create(operations[o].session) \in Request
      BY <1>2, <2>1, RequestNames
    <3>3. QED BY <1>1, <2>1, <3>1, <3>2 DEF CreatedInv
  <2>2. CASE o \notin DOMAIN operations
    <3>1. /\ operations'[o].session \in DOMAIN sessions
          /\ sessions[operations'[o].session].state = "ready"
      BY <2>2 DEF Stepped, Tells, Staged
    <3>2. Create(operations'[o].session) \in Request
      BY <1>2, <3>1, RequestNames
    <3>3. QED BY <1>1, <3>1, <3>2 DEF CreatedInv
  <2>3. QED BY <2>1, <2>2
<1>5. QED BY <1>3, <1>4 DEF CreatedInv

\* What a step does to a handler's place.
LEMMA HandlerMoves ==
    ASSUME Base, Effect, NEW r \in Request
    PROVE  /\ Is(r, "arriving")' => Is(r, "arriving") \/ mail[r] = "queued"
           /\ work'[r].step \in Creation => work[r].step \in Creation \/ Starts(r)
<1>1. ASSUME NEW Q, Ends(Q)
      PROVE  \/ work'[r].step \in {"idle", "answering"} \/ work'[r] = work[r]
             \/ Is(r, "arriving") /\ work'[r].step = "arriving"
  BY <1>1 DEF Ends, OnlyWork
<1>2. ASSUME NEW Q, Arrives(Q)
      PROVE  (mail[r] = "queued" /\ work'[r].step = "arriving") \/ work'[r] = work[r]
  BY <1>2 DEF Arrives, OnlyWork, At
<1>3. ASSUME NEW q, \/ Starts(q) \/ Advances(q) \/ GivesUp(q) \/ Initializes(q) \/ Runs(q)
      PROVE  \/ work'[r] = work[r]
             \/ /\ work'[r].step # "arriving"
                /\ work'[r].step \in Creation => work[r].step \in Creation \/ Starts(r)
  BY <1>3 DEF Starts, Advances, GivesUp, Initializes, Runs, OnlyWork, Is, Creation
<1>4. ASSUME NEW S, NEW serving \in BOOLEAN, NEW R, Quits(S, serving, R)
      PROVE  /\ Is(r, "arriving")' => Is(r, "arriving")
             /\ work'[r].step \in Creation => work[r].step \in Creation
  <2>1. CASE r \in R
    BY <1>4, <2>1 DEF Quits, Is, Creation
  <2>2. CASE r \notin R /\ ~(~Is(r, "idle") /\ SessionOf(r) \in S)
    BY <1>4, <2>2 DEF Quits, EndAll, Is
  <2>3. CASE r \notin R /\ ~Is(r, "idle") /\ SessionOf(r) \in S
    <3>1. work'[r] = Aborted(r, serving)
      BY <1>4, <2>3 DEF Quits, EndAll
    <3>2. QED BY <2>3, <3>1, AbortedHandler DEF Is
  <2>4. QED BY <2>1, <2>2, <2>3
<1>5. QED BY <1>1, <1>2, <1>3, <1>4 DEF Effect, Is, Creation

\* What a step does to the page of a session.
LEMMA PageMoves ==
    ASSUME Base, Effect, NEW s \in SessionId
    PROVE  \/ local'[s].page = local[s].page
           \/ local'[s].page = {}
           \/ \E r \in Request : Initializes(r) /\ SessionOf(r) = s /\ local'[s].page = {r}
<1>1. ASSUME NEW Q, Ends(Q) \/ Arrives(Q) PROVE local'[s].page = local[s].page
  BY <1>1 DEF Ends, Arrives
<1>2. ASSUME NEW r \in Request, \/ Starts(r) \/ Advances(r) \/ GivesUp(r) \/ Runs(r)
      PROVE  local'[s].page = local[s].page
  BY <1>2 DEF Starts, Advances, GivesUp, Runs
<1>3. ASSUME NEW r \in Request, Initializes(r)
      PROVE  \/ local'[s].page = local[s].page
             \/ SessionOf(r) = s /\ local'[s].page = {r}
  BY <1>3 DEF Initializes
<1>4. ASSUME NEW S, NEW serving, NEW R, Quits(S, serving, R)
      PROVE  local'[s].page = local[s].page \/ local'[s].page = {}
  BY <1>4 DEF Quits, Forgotten, NoSession
<1>5. QED BY <1>1, <1>2, <1>3, <1>4 DEF Effect

\* A request that was asked for stays with its session and its provider, and
\* one that was handed over is not queued again.
LEMMA RequestStays ==
    ASSUME Base, Stepped, NEW r \in Request, mail[r] # "idle"
    PROVE  /\ Known(r) /\ Known(r)' /\ SessionOf(r) \in SessionId
           /\ SessionOf(r)' = SessionOf(r) /\ Addressee(r)' = Addressee(r)
           /\ Addressee(r) \in Provider
           /\ r[1] = "execute" => operations'[r[2]].navigation = operations[r[2]].navigation
           /\ mail[r] # "queued" => mail'[r] \notin {"idle", "queued"}
<1>1. Known(r) /\ SessionOf(r) \in SessionId /\ Addressee(r) \in Provider
  BY MailKnown DEF Base
<1>2. Follows(sessions', operations') /\ StepOf(r)
  BY DEF Stepped, ServiceKept, Kept, MailKept
<1>3. mail[r] # "queued" => mail'[r] \notin {"idle", "queued"}
  BY <1>2 DEF StepOf, Delivery!Edge
<1>4. QED BY <1>1, <1>2, <1>3, KnownStays

LEMMA WorkStays ==
    ASSUME Base, Stepped, NEW r \in Request, ~Is(r, "idle")
    PROVE  /\ Known(r) /\ Known(r)' /\ SessionOf(r) \in SessionId
           /\ SessionOf(r)' = SessionOf(r) /\ Addressee(r)' = Addressee(r)
           /\ Addressee(r) \in Provider
           /\ r[1] = "execute" => operations'[r[2]].navigation = operations[r[2]].navigation
           /\ mail[r] \in {"inFlight", "interrupted"} /\ mail'[r] \notin {"idle", "queued"}
<1>1. mail[r] \in {"inFlight", "interrupted"}
  BY DEF Base, WorkInv, Is
<1>2. QED BY <1>1, RequestStays

LEMMA PageNext == ASSUME Base, PageInv, Stepped PROVE PageInv'
<1>1. SUFFICES ASSUME NEW s \in SessionId, NEW r \in local'[s].page
               PROVE  /\ r[1] \in {"create", "execute"}
                      /\ mail'[r] \notin {"idle", "queued"}
                      /\ SessionOf(r)' = s
                      /\ ~Is(r, "arriving")'
  BY DEF PageInv
<1>2. Effect
  BY DEF Stepped
<1>3. CASE local'[s].page = local[s].page
  <2>1. /\ r \in Request /\ r[1] \in {"create", "execute"} /\ mail[r] \notin {"idle", "queued"}
        /\ SessionOf(r) = s /\ ~Is(r, "arriving")
    BY <1>3, LocalTypes DEF PageInv
  <2>2. SessionOf(r)' = SessionOf(r) /\ mail'[r] \notin {"idle", "queued"}
    BY <2>1, RequestStays
  <2>3. ~Is(r, "arriving")'
    BY <1>2, <2>1, HandlerMoves
  <2>4. QED BY <2>1, <2>2, <2>3
<1>4. ASSUME NEW q \in Request, Initializes(q), SessionOf(q) = s, local'[s].page = {q}
      PROVE  /\ r[1] \in {"create", "execute"}
             /\ mail'[r] \notin {"idle", "queued"}
             /\ SessionOf(r)' = s
             /\ ~Is(r, "arriving")'
  <2>1. r = q
    BY <1>4
  <2>2. Is(q, "initializing") /\ ~Is(q, "idle") /\ ~Is(q, "arriving")'
    BY <1>4 DEF Initializes, Is
  <2>3. q[1] \in {"create", "execute"}
    BY <2>2 DEF Base, WorkInv, HandlerOK, Is, Creation
  <2>4. SessionOf(q)' = s /\ mail'[q] \notin {"idle", "queued"}
    BY <1>4, <2>2, WorkStays
  <2>5. QED BY <2>1, <2>2, <2>3, <2>4
<1>5. QED BY <1>2, <1>3, <1>4, PageMoves

\* A session with a page does not start a creation.
LEMMA StartsWithout ==
    ASSUME Base, CreatedInv, PageInv, NEW r \in Request, Starts(r)
    PROVE  ~Has(SessionOf(r))
<1> DEFINE s == SessionOf(r)
<1>1. CASE r[1] = "execute"
  BY <1>1 DEF Starts
<1>2. CASE r[1] = "create"
  <2>1. r = Create(s) /\ s \in SessionId
    BY <1>2, RequestKinds DEF SessionOf
  <2>2. Is(r, "arriving") /\ mail[r] \in {"inFlight", "interrupted"}
    BY DEF Starts, Base, WorkInv, Is
  <2> HIDE DEF s
  <2>3. SUFFICES ASSUME NEW q \in local[s].page PROVE FALSE
    BY DEF Has, s
  <2>4. /\ q \in Request /\ q[1] \in {"create", "execute"} /\ mail[q] # "idle"
        /\ SessionOf(q) = s /\ ~Is(q, "arriving")
    BY <2>1, LocalTypes DEF PageInv
  <2>5. CASE q[1] = "create"
    <3>1. q = Create(q[2]) /\ SessionOf(q) = q[2]
      BY <2>4, <2>5, RequestKinds DEF SessionOf
    <3>2. QED BY <2>1, <2>2, <2>4, <3>1
  <2>6. CASE q[1] = "execute"
    <3>1. q[2] \in DOMAIN operations
      BY <2>4, <2>6, MailKnown DEF Base, Known
    <3>2. operations[q[2]].session = s
      BY <2>4, <2>6 DEF SessionOf
    <3>3. mail[Create(s)] = "acknowledged"
      BY <3>1, <3>2 DEF CreatedInv
    <3>4. QED BY <2>1, <2>2, <3>3
  <2>7. QED BY <2>4, <2>5, <2>6
<1>3. QED BY <1>1, <1>2 DEF Starts

LEMMA CreationNext == ASSUME PageBase, Stepped PROVE CreationInv'
<1>1. Base /\ Effect
  BY DEF PageBase, Stepped
<1>2. ASSUME NEW r \in Request, work'[r].step \in Creation
      PROVE  /\ work[r].step \in Creation \/ Starts(r)
             /\ SessionOf(r)' = SessionOf(r)
  <2>1. work[r].step \in Creation \/ Starts(r)
    BY <1>1, <1>2, HandlerMoves
  <2>2. ~Is(r, "idle")
    BY <2>1 DEF Starts, Is, Creation
  <2>3. QED BY <1>1, <2>1, <2>2, WorkStays
<1>3. ASSUME NEW q \in Request, NEW r \in Request,
             work'[q].step \in Creation, work'[r].step \in Creation, SessionOf(q)' = SessionOf(r)'
      PROVE  q = r
  <2>1. SessionOf(q) = SessionOf(r)
    BY <1>2, <1>3
  <2>2. CASE work[q].step \in Creation /\ work[r].step \in Creation
    BY <2>1, <2>2 DEF PageBase, CreationInv
  <2>3. ASSUME NEW x \in Request, NEW y \in Request, Starts(x), x # y, work'[y].step \in Creation,
               SessionOf(y) = SessionOf(x)
        PROVE  FALSE
    <3>1. work[y].step \in Creation
      BY <2>3 DEF Starts, OnlyWork
    <3>2. QED BY <2>3, <3>1 DEF Starts, CreationsOf
  <2>4. QED BY <1>2, <1>3, <2>1, <2>2, <2>3
<1>4. ASSUME NEW s \in SessionId, Has(s)', NEW r \in CreationsOf(s)'
      PROVE  FALSE
  <2>1. r \in Request /\ work'[r].step \in Creation /\ SessionOf(r)' = s
    BY <1>4 DEF CreationsOf
  <2>2. SessionOf(r) = s /\ (work[r].step \in Creation \/ Starts(r))
    BY <1>2, <2>1
  <2>3. CASE local'[s].page = local[s].page
    <3>1. Has(s)
      BY <1>4, <2>3 DEF Has
    <3>2. work[r].step \notin Creation
      BY <2>1, <2>2, <3>1 DEF PageBase, CreationInv, CreationsOf
    <3>3. QED BY <2>1, <2>2, <3>1, <3>2, StartsWithout DEF PageBase
  <2>4. CASE local'[s].page = {}
    BY <1>4, <2>4 DEF Has
  <2>5. ASSUME NEW q \in Request, Initializes(q), SessionOf(q) = s PROVE FALSE
    <3>1. r # q /\ work[q].step \in Creation
      BY <2>1, <2>5 DEF Initializes, Is, Creation
    <3>2. work[r].step \in Creation
      BY <2>1, <2>5, <3>1 DEF Initializes, OnlyWork
    <3>3. QED BY <2>1, <2>2, <2>5, <3>1, <3>2 DEF PageBase, CreationInv
  <2>6. QED BY <1>1, <2>3, <2>4, <2>5, PageMoves
<1>5. QED BY <1>3, <1>4 DEF CreationInv, CreationsOf

LEMMA PageBaseNext ==
    ASSUME PageBase, [ProviderNext]_allVars
    PROVE  PageBase' /\ Stepped
<1>1. Stepped
  BY BaseNext DEF PageBase, Stepped
<1>2. QED BY <1>1, CreatedNext, PageNext, CreationNext DEF PageBase, Stepped

LEMMA PageBaseInit == ProviderInit => PageBase
<1> SUFFICES ASSUME ProviderInit PROVE PageBase
  OBVIOUS
<1>1. Base /\ \A r \in Request : work[r].step \notin Creation
  BY BaseInit DEF ProviderInit, Idle, At, Creation
<1>2. CreatedInv
  BY DEF ProviderInit, Init, CreatedInv
<1>3. \A s \in SessionId : local[s].page = {}
  BY DEF ProviderInit, NoSession
<1>4. QED BY <1>1, <1>2, <1>3 DEF PageBase, PageInv, CreationInv, Has

-----------------------------------------------------------------------------
(* What waits in a manager that runs, and the pages it holds.                *)

\* What is handled on, of a manager that runs: a request that has arrived, a
\* question, an initialization, and an opening that nobody aborted.
Wanted(r) ==
    \/ work[r].step \in {"arriving", "asking", "initializing"}
    \/ work[r].step = "opening" /\ ~work[r].flag

ServedInv == \A r \in Request : Wanted(r) => Serving(r)

\* A page that opens or is initialized is open.
OpenInv == \A r \in Request : work[r].step \in {"opening", "initializing"} => r \in open

\* A session with a page has its row, and its provider is an identity.
LEMMA PagedSession ==
    ASSUME Base, PageInv, NEW s \in SessionId, Has(s)
    PROVE  s \in DOMAIN sessions /\ sessions[s].provider \in Provider
<1>1. PICK r \in local[s].page : TRUE
  BY DEF Has
<1>2. r \in Request /\ mail[r] # "idle" /\ SessionOf(r) = s
  BY LocalTypes DEF PageInv
<1>3. QED BY <1>2, MailKnown DEF Base, Known, Addressee

\* A manager goes on unless the sessions it had all end.
LEMMA ServingStays ==
    ASSUME Base, Effect, NEW p \in Provider, \E w \in Window : active[w] = p
    PROVE  \/ \E w \in Window : active'[w] = p
           \/ \E R : Quits({s \in DOMAIN sessions : sessions[s].provider = p}, FALSE, R)
<1>1. PICK w \in Window : active[w] = p
  OBVIOUS
<1>2. p # NoProvider /\ p \in Nat
  BY ProviderAssumption DEF Provider, NoProvider
<1>3. ASSUME active'[w] # p
      PROVE  \E R : Quits({s \in DOMAIN sessions : sessions[s].provider = p}, FALSE, R)
  <2>1. \A Q : ~Ends(Q) /\ ~Arrives(Q)
    BY <1>1, <1>2, <1>3 DEF Ends, Arrives
  <2>2. \A r : ~(Starts(r) \/ Advances(r) \/ GivesUp(r) \/ Initializes(r) \/ Runs(r))
    BY <1>1, <1>3 DEF Starts, Advances, GivesUp, Initializes, Runs
  <2>3. PICK S, R : \E serving \in BOOLEAN : Quits(S, serving, R)
    BY <2>1, <2>2 DEF Effect
  <2>4. PICK serving \in BOOLEAN : Quits(S, serving, R)
    BY <2>3
  <2>5. serving = FALSE
    BY <1>1, <1>3, <2>4 DEF Quits
  <2>6. PICK q \in Provider :
           /\ active' = [x \in Window |-> IF active[x] = q THEN NoProvider ELSE active[x]]
           /\ S = {s \in DOMAIN sessions : sessions[s].provider = q}
    BY <2>4, <2>5 DEF Quits
  <2>7. q = p
    BY <1>1, <1>3, <2>6
  <2>8. QED BY <2>4, <2>5, <2>6, <2>7
<1>4. QED BY <1>3

LEMMA ServedNext == ASSUME PageBase, ServedInv, Stepped PROVE ServedInv'
<1>1. SUFFICES ASSUME NEW r \in Request, Wanted(r)' PROVE Serving(r)'
  BY DEF ServedInv
<1>2. Base /\ Effect
  BY DEF PageBase, Stepped
<1>3. CASE \E Q : Arrives(Q) /\ r \in Q
  <2>1. mail[r] = "queued" /\ Serving(r) /\ active' = active
    BY <1>3 DEF Arrives
  <2>2. Addressee(r)' = Addressee(r)
    BY <1>2, <2>1, RequestStays
  <2>3. QED BY <2>1, <2>2 DEF Serving
<1>4. CASE ~\E Q : Arrives(Q) /\ r \in Q
  <2>1. Wanted(r) /\ ~\E R : Quits({s \in DOMAIN sessions : sessions[s].provider = Addressee(r)}, FALSE, R)
    <3>1. ASSUME NEW Q, Ends(Q) PROVE Wanted(r)
      BY <1>1, <3>1 DEF Ends, OnlyWork, Wanted, Is
    <3>2. ASSUME NEW Q, Arrives(Q) PROVE Wanted(r)
      BY <1>1, <1>4, <3>2 DEF Arrives, OnlyWork, Wanted
    <3>3. ASSUME NEW q, \/ Starts(q) \/ Advances(q) \/ GivesUp(q) \/ Initializes(q) \/ Runs(q)
          PROVE  Wanted(r)
      BY <1>1, <3>3 DEF Starts, Advances, GivesUp, Initializes, Runs, OnlyWork, Is, Creation, Wanted
    <3>4. ASSUME NEW S, NEW serving \in BOOLEAN, NEW R, Quits(S, serving, R)
          PROVE  Wanted(r) /\ (SessionOf(r) \notin S \/ serving)
      <4>1. CASE r \in R
        BY <1>1, <3>4, <4>1 DEF Quits, Wanted
      <4>2. CASE r \notin R /\ ~Is(r, "idle") /\ SessionOf(r) \in S
        <5>1. work'[r] = Aborted(r, serving)
          BY <3>4, <4>2 DEF Quits, EndAll
        <5>2. Is(r, "arriving") /\ serving
          BY <1>1, <1>2, <4>2, <5>1, AbortedHandler DEF Wanted
        <5>3. QED BY <5>2 DEF Wanted, Is
      <4>3. CASE r \notin R /\ ~(~Is(r, "idle") /\ SessionOf(r) \in S)
        <5>1. work'[r] = work[r]
          BY <3>4, <4>3 DEF Quits, EndAll
        <5>2. QED BY <1>1, <4>3, <5>1 DEF Wanted, Is
      <4>4. QED BY <4>1, <4>2, <4>3
    <3>5. Wanted(r)
      BY <1>2, <3>1, <3>2, <3>3, <3>4 DEF Effect
    <3>6. ASSUME NEW R, Quits({s \in DOMAIN sessions : sessions[s].provider = Addressee(r)}, FALSE, R)
          PROVE  FALSE
      <4>1. ~Is(r, "idle")
        BY <3>5 DEF Wanted, Is
      <4>2. SessionOf(r) \in DOMAIN sessions
        BY <1>2, <4>1, WorkKnown DEF Known
      <4>3. SessionOf(r) \in {s \in DOMAIN sessions : sessions[s].provider = Addressee(r)}
        BY <4>2 DEF Addressee
      <4>4. QED BY <3>4, <3>6, <4>3
    <3>7. QED BY <3>5, <3>6
  <2>2. Serving(r) /\ ~Is(r, "idle")
    BY <2>1 DEF ServedInv, Wanted, Is
  <2>3. Addressee(r)' = Addressee(r) /\ Addressee(r) \in Provider
    BY <1>2, <2>2, WorkStays
  <2>4. QED BY <1>2, <2>1, <2>2, <2>3, ServingStays DEF Serving
<1>5. QED BY <1>3, <1>4

\* A page that a session has is no longer in the hands of its creation.
LEMMA PageOrCreation ==
    ASSUME PageBase, NEW s \in SessionId, NEW r \in local[s].page
    PROVE  r \in Request /\ SessionOf(r) = s /\ work[r].step \notin Creation /\ ~Is(r, "arriving")
<1>1. r \in Request /\ SessionOf(r) = s /\ ~Is(r, "arriving") /\ Has(s)
  BY LocalTypes DEF PageBase, PageInv, Has
<1>2. QED BY <1>1 DEF PageBase, CreationInv, CreationsOf

\* A page of another session, and one that another request opens, stays open.
LEMMA StaysOpen ==
    ASSUME NEW S, NEW r \in open
    PROVE  /\ r \in Closed(S) \/ \/ \E s \in S : r \in local[s].page
                                 \/ Is(r, "initializing") /\ SessionOf(r) \in S
           /\ r \in Closed(S) => ~\E s \in S : r \in local[s].page
           /\ r \in Closed(S) => ~(Is(r, "initializing") /\ SessionOf(r) \in S)
BY DEF Closed

LEMMA OpenNext == ASSUME PageBase, OpenInv, Stepped PROVE OpenInv'
<1>1. SUFFICES ASSUME NEW r \in Request, work'[r].step \in {"opening", "initializing"}
               PROVE  r \in open'
  BY DEF OpenInv
<1>2. Base /\ Effect
  BY DEF PageBase, Stepped
<1>3. ASSUME NEW Q, Ends(Q) \/ Arrives(Q) PROVE r \in open'
  <2>1. work'[r] = work[r] /\ open' = open
    BY <1>1, <1>3 DEF Ends, Arrives, OnlyWork, At
  <2>2. QED BY <1>1, <2>1 DEF OpenInv
<1>4. ASSUME NEW q, \/ Starts(q) \/ Advances(q) \/ GivesUp(q) \/ Initializes(q) \/ Runs(q)
      PROVE  r \in open'
  <2>1. CASE r # q
    BY <1>1, <1>4, <2>1 DEF OpenInv, Starts, Advances, GivesUp, Initializes, Runs, OnlyWork
  <2>2. CASE r = q
    BY <1>1, <1>4, <2>2 DEF OpenInv, Starts, Advances, GivesUp, Initializes, Runs, Is
  <2>3. QED BY <2>1, <2>2
<1>5. ASSUME NEW S, NEW serving \in BOOLEAN, NEW R, Quits(S, serving, R) PROVE r \in open'
  <2>1. r \notin R
    BY <1>1, <1>5 DEF Quits
  <2>2. \/ work'[r] = work[r] /\ ~(~Is(r, "idle") /\ SessionOf(r) \in S)
        \/ ~Is(r, "idle") /\ SessionOf(r) \in S /\ work'[r] = Aborted(r, serving)
    BY <1>5, <2>1 DEF Quits, EndAll
  <2>3. /\ Is(r, "opening") \/ (Is(r, "initializing") /\ SessionOf(r) \notin S)
        /\ work[r].step \in Creation
    BY <1>1, <1>2, <2>2, AbortedHandler DEF Is, Creation
  <2>4. r \in open /\ S \subseteq SessionId /\ open' = Closed(S)
    BY <1>5, <2>3 DEF OpenInv, Quits, Is
  <2>5. ~\E s \in S : r \in local[s].page
    BY <2>3, <2>4, PageOrCreation
  <2>6. QED BY <2>3, <2>4, <2>5, StaysOpen DEF Is
<1>6. QED BY <1>2, <1>3, <1>4, <1>5 DEF Effect

-----------------------------------------------------------------------------
(* What runs, runs on the page its caller saw.                               *)

LEMMA FencedNext == ASSUME PageBase, RunsFenced, Stepped PROVE RunsFenced'
<1>1. Base /\ Effect /\ Base'
  BY DEF PageBase, Stepped
<1>2. SUFFICES ASSUME NEW o \in DOMAIN operations', Is(Execute(o), "running")'
               PROVE  LET t == operations'[o].session IN
                      /\ local'[t].page # {}
                      /\ local'[t].epoch = operations'[o].navigation \/ work'[Execute(o)].flag
  BY DEF RunsFenced, Has
<1> DEFINE x == Execute(o)
           s == operations[o].session
           n == operations[o].navigation
<1>3. o \in OperationId /\ x \in Request /\ x[1] = "execute" /\ x[2] = o /\ SessionOf(x) = s
  BY <1>1, RequestNames, KindNames DEF Base, IInv, RowInv, RowsOK
<1>4. work'[x].step = "running" /\ work'[x].step # "idle"
  BY <1>2 DEF Is
<1>5. ~Is(x, "idle")
  <2>2. ~\E Q : Arrives(Q) /\ x \in Q
    BY <1>4 DEF Arrives, At
  <2>3. ASSUME Is(x, "idle") PROVE FALSE
    <3>1. ASSUME NEW Q, Ends(Q) \/ Arrives(Q) PROVE FALSE
      BY <1>3, <1>4, <2>2, <2>3, <3>1 DEF Ends, Arrives, OnlyWork, Is
    <3>2. ASSUME NEW q, \/ Starts(q) \/ Advances(q) \/ GivesUp(q) \/ Initializes(q) \/ Runs(q)
          PROVE  FALSE
      BY <1>3, <1>4, <2>3, <3>2
         DEF Starts, Advances, GivesUp, Initializes, Runs, OnlyWork, Is, Creation
    <3>3. ASSUME NEW S, NEW serving, NEW R, Quits(S, serving, R) PROVE FALSE
      BY <1>3, <1>4, <2>3, <3>3 DEF Quits, EndAll, Is
    <3>4. QED BY <1>1, <3>1, <3>2, <3>3 DEF Effect
  <2>4. QED BY <2>3
<1>6. /\ o \in DOMAIN operations /\ s \in SessionId
      /\ operations'[o].session = s /\ operations'[o].navigation = n
  <2>1. Known(x) /\ s \in SessionId /\ SessionOf(x)' = s /\ operations'[o].navigation = n
    BY <1>1, <1>3, <1>5, WorkStays
  <2>2. SessionOf(x)' = operations'[o].session
    BY <1>3, KindNames DEF SessionOf
  <2>3. QED BY <1>3, <2>1, <2>2 DEF Known
<1> HIDE DEF x, s, n
<1>7. SUFFICES local'[s].page # {} /\ (local'[s].epoch = n \/ work'[x].flag)
  BY <1>6 DEF x
<1>8. ASSUME Is(x, "running") PROVE Has(s) /\ (local[s].epoch = n \/ work[x].flag)
  BY <1>6, <1>8 DEF RunsFenced, x, s, n
<1>9. ASSUME NEW Q, Ends(Q) PROVE local'[s].page # {} /\ (local'[s].epoch = n \/ work'[x].flag)
  <2>1. x \notin Q /\ work'[x] = work[x]
    BY <1>3, <1>4, <1>9 DEF Ends, OnlyWork
  <2>2. Is(x, "running")
    BY <1>4, <2>1 DEF Is
  <2>3. Has(s) /\ (local[s].epoch = n \/ work[x].flag)
    BY <1>8, <2>2
  <2>4. local'[s].epoch = local[s].epoch \/ work[x].flag
    BY <1>3, <1>6, <1>9, <2>1, <2>2, <2>3 DEF Ends
  <2>5. QED BY <1>6, <1>9, <2>1, <2>3, <2>4 DEF Ends, Has
<1>10. ASSUME UNCHANGED local, work'[x] = work[x]
       PROVE  local'[s].page # {} /\ (local'[s].epoch = n \/ work'[x].flag)
  BY <1>4, <1>8, <1>10 DEF Is, Has
<1>11. ASSUME NEW Q, Arrives(Q) PROVE local' = local /\ work'[x] = work[x]
  BY <1>3, <1>4, <1>11 DEF Arrives, OnlyWork, At
<1>12. ASSUME NEW r, Starts(r) \/ Advances(r) \/ GivesUp(r) PROVE local' = local /\ work'[x] = work[x]
  BY <1>3, <1>4, <1>12 DEF Starts, Advances, GivesUp, OnlyWork
<1>13. ASSUME NEW r \in Request, Initializes(r)
       PROVE  local'[s].page # {} /\ (local'[s].epoch = n \/ work'[x].flag)
  <2>1. CASE r = x
    <3>1. OnItsPage(x)
      BY <1>4, <1>13, <2>1 DEF Initializes
    <3>2. local'[s].page = {x} /\ (local'[s].epoch = n \/ work'[x].flag)
      BY <1>3, <1>13, <2>1, <3>1 DEF Initializes, OnItsPage, n
    <3>3. QED BY <3>2
  <2>2. CASE r # x
    <3>1. work'[x] = work[x]
      BY <1>3, <1>13, <2>2 DEF Initializes, OnlyWork
    <3>2. Is(x, "running")
      BY <1>4, <3>1 DEF Is
    <3>3. Has(s) /\ (local[s].epoch = n \/ work[x].flag)
      BY <1>8, <3>2
    <3>4. SessionOf(r) # s
      <4>1. work[r].step \in Creation
        BY <1>13 DEF Initializes, Is, Creation
      <4>2. QED BY <1>6, <3>3, <4>1 DEF PageBase, CreationInv, CreationsOf
    <3>5. local'[s] = local[s]
      BY <1>6, <1>13, <3>4 DEF Initializes
    <3>6. QED BY <3>1, <3>3, <3>5 DEF Has
  <2>3. QED BY <2>1, <2>2
<1>14. ASSUME NEW r \in Request, Runs(r)
       PROVE  local'[s].page # {} /\ (local'[s].epoch = n \/ work'[x].flag)
  <2>1. local'[s].page = local[s].page /\ local'[s].epoch = local[s].epoch
    BY <1>6, <1>14 DEF Runs
  <2>2. CASE r = x
    BY <1>3, <1>14, <2>1, <2>2 DEF Runs, OnItsPage, Has, n
  <2>3. CASE r # x
    <3>1. work'[x] = work[x]
      BY <1>3, <1>14, <2>3 DEF Runs, OnlyWork
    <3>2. QED BY <1>4, <1>8, <2>1, <3>1 DEF Is, Has
  <2>4. QED BY <2>2, <2>3
<1>15. ASSUME NEW S, NEW serving \in BOOLEAN, NEW R, Quits(S, serving, R)
       PROVE  local'[s].page # {} /\ (local'[s].epoch = n \/ work'[x].flag)
  <2>1. x \notin R
    BY <1>3, <1>4, <1>15 DEF Quits
  <2>2. s \notin S /\ work'[x] = work[x]
    <3>1. CASE s \in S
      <4>1. work'[x] = Aborted(x, serving)
        BY <1>3, <1>5, <1>15, <2>1, <3>1 DEF Quits, EndAll
      <4>2. QED BY <1>1, <1>3, <1>4, <1>5, <4>1, AbortedHandler
    <3>2. CASE s \notin S
      BY <1>3, <1>15, <2>1, <3>2 DEF Quits, EndAll
    <3>3. QED BY <3>1, <3>2
  <2>3. local'[s] = local[s]
    BY <1>6, <1>15, <2>2 DEF Quits, Forgotten
  <2>4. QED BY <1>4, <1>8, <2>2, <2>3 DEF Is, Has
<1>16. QED BY <1>1, <1>9, <1>10, <1>11, <1>12, <1>13, <1>14, <1>15 DEF Effect

-----------------------------------------------------------------------------
(* Every open page is held by a session or by a creation.                    *)

Held(r) == \/ work[r].step \in {"opening", "initializing"}
           \/ \E s \in SessionId : r \in local[s].page

\* An open page stays held, or is closed.
LEMMA OpenHeld == ASSUME PageBase, ServedInv, PagesHeld, Stepped PROVE \A r \in open' : Held(r)'
<1>1. Base /\ Effect /\ open \subseteq Request /\ \A r \in open : Held(r)
  BY DEF PageBase, Base, Stepped, ProviderTypeOK, PagesHeld, Held
<1>2. ASSUME NEW Q, Ends(Q) \/ Arrives(Q), NEW r \in open' PROVE Held(r)'
  <2>1. r \in open /\ \A s \in SessionId : local'[s].page = local[s].page
    BY <1>2 DEF Ends, Arrives
  <2>2. CASE work[r].step \in {"opening", "initializing"}
    <3>1. mail[r] # "queued" /\ r \in Request
      BY <1>1, <2>1, <2>2 DEF Base, WorkInv
    <3>2. work'[r] = work[r]
      BY <1>2, <2>2, <3>1 DEF Ends, Arrives, OnlyWork, Creation
    <3>3. QED BY <2>2, <3>2 DEF Held
  <2>3. QED BY <1>1, <2>1, <2>2 DEF Held
<1>3. ASSUME NEW q \in Request, Starts(q) \/ Advances(q) \/ Runs(q), NEW r \in open' PROVE Held(r)'
  <2>1. \A s \in SessionId : local'[s].page = local[s].page
    BY <1>3 DEF Starts, Advances, Runs
  <2>2. CASE r = q
    <3>1. work'[r].step \in {"opening", "initializing"} \/ (r \in open /\ ~Is(r, "opening") /\ ~Is(r, "initializing"))
      BY <1>3, <2>2 DEF Starts, Advances, Runs, Is
    <3>2. QED BY <1>1, <2>1, <3>1 DEF Held, Is
  <2>3. CASE r # q
    <3>1. r \in open /\ work'[r] = work[r]
      BY <1>1, <1>3, <2>3 DEF Starts, Advances, Runs, OnlyWork
    <3>2. QED BY <1>1, <2>1, <3>1 DEF Held
  <2>4. QED BY <2>2, <2>3
<1>4. ASSUME NEW q \in Request, GivesUp(q), NEW r \in open' PROVE Held(r)'
  <2>1. \A s \in SessionId : local'[s].page = local[s].page
    BY <1>4 DEF GivesUp
  <2>2. r \in open
    BY <1>4 DEF GivesUp
  <2>3. CASE r # q
    <3>1. work'[r] = work[r]
      BY <1>1, <1>4, <2>2, <2>3 DEF GivesUp, OnlyWork
    <3>2. QED BY <1>1, <2>1, <2>2, <3>1 DEF Held
  <2>4. CASE r = q
    <3>1. ~Serving(q) /\ ~Is(q, "opening")
      BY <1>4, <2>4 DEF GivesUp
    <3>2. ~Is(q, "initializing")
      BY <3>1 DEF ServedInv, Wanted, Is
    <3>3. QED BY <1>1, <2>1, <2>2, <2>4, <3>1, <3>2 DEF Held, Is
  <2>5. QED BY <2>3, <2>4
<1>5. ASSUME NEW q \in Request, Initializes(q), NEW r \in open' PROVE Held(r)'
  <2>1. r \in open /\ SessionOf(q) \in SessionId /\ work[q].step \in Creation
    BY <1>1, <1>5, WorkKnown DEF Initializes, Is, Creation
  <2>2. CASE r = q
    <3>1. r \in local'[SessionOf(q)].page
      BY <1>5, <2>2 DEF Initializes
    <3>2. QED BY <2>1, <3>1 DEF Held
  <2>3. CASE r # q /\ work[r].step \in {"opening", "initializing"}
    <3>1. work'[r] = work[r]
      BY <1>1, <1>5, <2>1, <2>3 DEF Initializes, OnlyWork
    <3>2. QED BY <2>3, <3>1 DEF Held
  <2>4. ASSUME NEW s \in SessionId, r \in local[s].page PROVE Held(r)'
    <3>1. s # SessionOf(q)
      BY <2>1, <2>4 DEF PageBase, CreationInv, Has, CreationsOf
    <3>2. local'[s] = local[s]
      BY <1>5, <3>1 DEF Initializes
    <3>3. QED BY <2>4, <3>2 DEF Held
  <2>5. QED BY <1>1, <2>1, <2>2, <2>3, <2>4 DEF Held
<1>6. ASSUME NEW S, NEW serving \in BOOLEAN, NEW R, Quits(S, serving, R), NEW r \in open' PROVE Held(r)'
  <2>1. /\ r \in open /\ r \in Request
        /\ ~\E s \in S : r \in local[s].page
        /\ ~(Is(r, "initializing") /\ SessionOf(r) \in S)
    BY <1>1, <1>6, StaysOpen DEF Quits, Closed
  <2>2. CASE Is(r, "opening")
    <3>1. r \notin R
      BY <1>6, <2>1, <2>2 DEF Quits
    <3>2. \/ work'[r] = work[r]
          \/ ~Is(r, "idle") /\ work'[r] = Aborted(r, serving)
      BY <1>6, <2>1, <3>1 DEF Quits, EndAll
    <3>3. work'[r].step = "opening"
      BY <1>1, <2>1, <2>2, <3>2, AbortedHandler DEF Is
    <3>4. QED BY <3>3 DEF Held
  <2>3. CASE Is(r, "initializing")
    <3>1. r \notin R
      BY <1>6, <2>1, <2>3 DEF Quits
    <3>2. work'[r] = work[r]
      BY <1>6, <2>1, <2>3, <3>1 DEF Quits, EndAll
    <3>3. QED BY <2>3, <3>2 DEF Held, Is
  <2>4. ASSUME NEW s \in SessionId, r \in local[s].page PROVE Held(r)'
    <3>1. local'[s] = local[s]
      BY <1>6, <2>1, <2>4 DEF Quits, Forgotten
    <3>2. QED BY <2>4, <3>1 DEF Held
  <2>5. QED BY <1>1, <2>1, <2>2, <2>3, <2>4 DEF Held, Is
<1>7. QED BY <1>1, <1>2, <1>3, <1>4, <1>5, <1>6 DEF Effect

\* The page of a session is open, and its manager runs.
LEMMA SessionHeld ==
    ASSUME PageBase, ServedInv, OpenInv, PagesHeld, Stepped, NEW s \in SessionId, Has(s)'
    PROVE  local'[s].page \subseteq open' /\ Serving(Create(s))'
<1>1. Base /\ Effect /\ PageInv
  BY DEF PageBase, Stepped
<1>2. \A t : Addressee(Create(t)) = sessions[t].provider
  BY KindNames DEF Addressee
<1>3. ASSUME NEW t, t \in DOMAIN sessions PROVE Addressee(Create(t))' = Addressee(Create(t))
  <2>1. SessionOf(Create(t))' = t /\ SessionOf(Create(t)) = t
    BY DEF SessionOf, Create
  <2>2. sessions'[t].provider = sessions[t].provider
    BY <1>3 DEF Stepped, ServiceKept, Kept, Follows
  <2>3. QED BY <2>1, <2>2 DEF Addressee
<1>4. ASSUME NEW q \in Request, Initializes(q), SessionOf(q) = s
      PROVE  local'[s].page \subseteq open' /\ Serving(Create(s))'
  <2>1. local'[s].page = {q} /\ open' = open /\ active' = active
    BY <1>4 DEF Initializes
  <2>2. q \in open /\ Serving(q) /\ ~Is(q, "idle")
    BY <1>4 DEF Initializes, OpenInv, ServedInv, Wanted, Is
  <2>3. s \in DOMAIN sessions
    BY <1>1, <1>4, <2>2, WorkKnown DEF Known
  <2>4. Addressee(q) = Addressee(Create(s))
    BY <1>2, <1>4 DEF Addressee
  <2>5. QED BY <1>3, <2>1, <2>2, <2>3, <2>4 DEF Serving
<1>5. ASSUME local'[s].page = local[s].page
      PROVE  local'[s].page \subseteq open' /\ Serving(Create(s))'
  <2>1. Has(s)
    BY <1>5 DEF Has
  <2>2. s \in DOMAIN sessions /\ sessions[s].provider \in Provider
    BY <1>1, <2>1, PagedSession
  <2>3. local[s].page \subseteq open /\ Serving(Create(s))
    BY <2>1, <2>2 DEF PagesHeld
  <2>4. \A S, R : \A serving \in BOOLEAN : Quits(S, serving, R) => s \notin S
    BY <1>5, <2>1 DEF Quits, Forgotten, NoSession, Has
  <2>5. Serving(Create(s))'
    <3>1. \/ \E w \in Window : active'[w] = sessions[s].provider
          \/ \E R : Quits({t \in DOMAIN sessions : sessions[t].provider = sessions[s].provider}, FALSE, R)
      BY <1>1, <1>2, <2>2, <2>3, ServingStays DEF Serving
    <3>2. s \in {t \in DOMAIN sessions : sessions[t].provider = sessions[s].provider}
      BY <2>2
    <3>3. \E w \in Window : active'[w] = sessions[s].provider
      BY <2>4, <3>1, <3>2
    <3>4. QED BY <1>2, <1>3, <2>2, <3>3 DEF Serving
  <2>6. ASSUME NEW r \in local[s].page PROVE r \in open'
    <3>1. /\ r \in open /\ r \in Request /\ SessionOf(r) = s
          /\ work[r].step \notin Creation
      BY <2>3, PageOrCreation
    <3>2. ASSUME NEW Q, Ends(Q) \/ Arrives(Q) PROVE r \in open'
      BY <3>1, <3>2 DEF Ends, Arrives
    <3>3. ASSUME NEW q, \/ Starts(q) \/ Advances(q) \/ GivesUp(q) \/ Initializes(q) \/ Runs(q)
          PROVE  r \in open'
      BY <3>1, <3>3 DEF Starts, Advances, GivesUp, Initializes, Runs
    <3>4. ASSUME NEW S, NEW serving \in BOOLEAN, NEW R, Quits(S, serving, R) PROVE r \in open'
      <4>0. s \notin S
        BY <2>4, <3>4
      <4>1. s \notin S /\ open' = Closed(S) /\ S \subseteq SessionId
        BY <4>0, <3>4 DEF Quits
      <4>2. \A t \in S : r \notin local[t].page
        BY <3>1, <4>1, PageOrCreation
      <4>3. QED BY <3>1, <4>1, <4>2, StaysOpen
    <3>5. QED BY <1>1, <3>2, <3>3, <3>4 DEF Effect
  <2>7. QED BY <1>5, <2>5, <2>6
<1>6. local'[s].page # {}
  BY DEF Has
<1>7. QED BY <1>1, <1>4, <1>5, <1>6, PageMoves

LEMMA HeldNext ==
    ASSUME PageBase, ServedInv, OpenInv, PagesHeld, Stepped
    PROVE  PagesHeld'
<1>1. \A r \in open' : Held(r)'
  BY OpenHeld
<1>2. \A s \in SessionId : Has(s)' => local'[s].page \subseteq open' /\ Serving(Create(s))'
  BY SessionHeld
<1>3. DOMAIN sessions' \subseteq SessionId
  BY DEF Stepped, Base, IInv, RowInv, RowsOK
<1>4. QED BY <1>1, <1>2, <1>3 DEF PagesHeld, Held

-----------------------------------------------------------------------------
(* Expiry.                                                                   *)

\* The snapshot an operation carries expires no later than its session's row,
CarriedInv == \A o \in DOMAIN operations : carried[o] <= left[operations[o].session]

\* and no session of a manager does.
LocalInv == \A s \in SessionId : Has(s) => local[s].expires <= left[s]

ExpiryInv == Base /\ CarriedInv /\ LocalInv

\* A step of Electron main alone: an expiry that is new is that of a snapshot.
Snapshots ==
    /\ UNCHANGED <<left, carried>>
    /\ \A s \in SessionId : Has(s)' => local'[s].expires <= left[s]

LEMMA InitializedSnapshot == ASSUME ExpiryInv, NEW r \in Request, Initialized(r) PROVE Snapshots
<1> DEFINE s == SessionOf(r)
           ls == [page |-> {r}, epoch |-> SnapshotEpoch(r), expires |-> SnapshotExpiry(r)]
<1>1. local' = [local EXCEPT ![s] = ls] /\ ~Is(r, "idle") /\ UNCHANGED <<left, carried>>
  BY DEF Initialized, Is
<1>2. Known(r) /\ s \in SessionId
  BY <1>1, WorkKnown DEF ExpiryInv
<1>3. SnapshotExpiry(r) <= left[s]
  <2>1. CASE r[1] = "execute"
    <3>1. s = operations[r[2]].session /\ r[2] \in DOMAIN operations
      BY <1>2, <2>1 DEF SessionOf, Known
    <3>2. QED BY <2>1, <3>1 DEF SnapshotExpiry, ExpiryInv, CarriedInv
  <2>2. CASE r[1] # "execute"
    <3>1. left[s] \in Nat
      BY <1>2, LocalAssumption DEF ExpiryInv, Base, ProviderTypeOK, Time
    <3>2. SnapshotExpiry(r) = left[s]
      BY <2>2 DEF SnapshotExpiry
    <3>3. QED BY <3>1, <3>2
  <2>3. QED BY <2>1, <2>2
<1>4. ls.expires = SnapshotExpiry(r)
  OBVIOUS
<1> HIDE DEF ls, s
<1>5. local'[s] = ls /\ \A t \in SessionId \ {s} : local'[t] = local[t]
  BY <1>1, <1>2 DEF ExpiryInv, Base, ProviderTypeOK
<1>6. QED BY <1>1, <1>3, <1>4, <1>5 DEF Snapshots, ExpiryInv, LocalInv, Has

LEMMA ExecuteSnapshot == ASSUME ExpiryInv, NEW o \in OperationId, BeginExecute(o) PROVE Snapshots
<1> DEFINE s == operations[o].session
<1>1. o \in DOMAIN operations /\ UNCHANGED <<left, carried>>
  BY DEF BeginExecute
<1>2. s \in SessionId
  BY <1>1 DEF ExpiryInv, Base, IInv, RowInv, RowsOK
<1>3. CASE local' = local
  BY <1>1, <1>3 DEF Snapshots, ExpiryInv, LocalInv, Has
<1>4. CASE local' # local
  <2>1. local' = [local EXCEPT ![s] = [local[s] EXCEPT !.expires = carried[o]]]
    BY <1>4 DEF BeginExecute
  <2>2. local'[s].expires = carried[o] /\ \A t \in SessionId \ {s} : local'[t] = local[t]
    BY <1>2, <2>1 DEF ExpiryInv, Base, ProviderTypeOK, LocalSession
  <2>3. carried[o] <= left[s]
    BY <1>1 DEF ExpiryInv, CarriedInv
  <2> HIDE DEF s
  <2>4. QED BY <1>1, <2>2, <2>3 DEF Snapshots, ExpiryInv, LocalInv, Has
<1>5. QED BY <1>3, <1>4

LEMMA ForgottenSnapshot ==
    ASSUME ExpiryInv, NEW S, local' = Forgotten(S), UNCHANGED <<left, carried>>
    PROVE  Snapshots
<1>1. \A s \in SessionId : local'[s] = local[s] \/ local'[s].page = {}
  BY DEF Forgotten, NoSession
<1>2. QED BY <1>1 DEF Snapshots, ExpiryInv, LocalInv, Has

LEMMA KeptSnapshot ==
    ASSUME ExpiryInv, UNCHANGED <<local, left, carried>>
    PROVE  Snapshots
BY DEF Snapshots, ExpiryInv, LocalInv, Has

\* Time passes for the rows and for the manager alike.
LEMMA EarlierKeeps == ASSUME NEW m \in Time, NEW n \in Time, m <= n PROVE Earlier(m) <= Earlier(n)
BY LocalAssumption DEF Time, Earlier

LEMMA TickExpiry == ASSUME ExpiryInv, Tick PROVE CarriedInv' /\ LocalInv'
<1>1. /\ operations' = operations
      /\ left' = [s \in SessionId |-> Earlier(left[s])]
      /\ carried' = [o \in OperationId |-> Earlier(carried[o])]
      /\ local' = [s \in SessionId |->
                     IF Has(s) THEN [local[s] EXCEPT !.expires = Earlier(@)] ELSE NoSession]
  BY DEF Tick
<1>2. ASSUME NEW o \in DOMAIN operations PROVE carried'[o] <= left'[operations[o].session]
  <2>1. o \in OperationId /\ operations[o].session \in SessionId
    BY DEF ExpiryInv, Base, IInv, RowInv, RowsOK
  <2>2. carried[o] \in Time /\ left[operations[o].session] \in Time
    BY <2>1 DEF ExpiryInv, Base, ProviderTypeOK
  <2>3. carried[o] <= left[operations[o].session]
    BY DEF ExpiryInv, CarriedInv
  <2>4. QED BY <1>1, <2>1, <2>2, <2>3, EarlierKeeps
<1>3. ASSUME NEW s \in SessionId, Has(s)' PROVE local'[s].expires <= left'[s]
  <2>1. Has(s)
    BY <1>1, <1>3 DEF Has, NoSession
  <2>2. local[s] \in LocalSession /\ local[s].expires \in Time /\ left[s] \in Time
    BY LocalTypes DEF ExpiryInv, Base, ProviderTypeOK
  <2>3. local'[s].expires = Earlier(local[s].expires)
    BY <1>1, <2>1, <2>2 DEF LocalSession
  <2>4. local[s].expires <= left[s]
    BY <2>1 DEF ExpiryInv, LocalInv
  <2>5. QED BY <1>1, <2>2, <2>3, <2>4, EarlierKeeps
<1>4. QED BY <1>1, <1>2, <1>3 DEF CarriedInv, LocalInv

\* Staging only renews.
Renews ==
    /\ UNCHANGED local
    /\ \A s \in SessionId : left[s] <= left'[s]
    /\ \A o \in DOMAIN operations : carried'[o] = carried[o]

LEMMA StagingRenews ==
    ASSUME Base, NEW s \in SessionId,
           \/ \E w \in Window : Creates(s, w)
           \/ \E o \in OperationId : Invokes(o, s)
    PROVE  Renews
<1>1. left' = [left EXCEPT ![s] = IdleTime] /\ UNCHANGED local
  BY DEF Creates, Invokes, mainVars
<1>2. \A t \in SessionId : left[t] <= left'[t]
  BY <1>1, LocalAssumption DEF Base, ProviderTypeOK, Time
<1>3. \A o \in DOMAIN operations : carried'[o] = carried[o]
  <2>1. CASE carried' = carried
    BY <2>1
  <2>2. ASSUME NEW o \in OperationId, o \notin DOMAIN operations,
               carried' = [carried EXCEPT ![o] = left[s]]
        PROVE  \A x \in DOMAIN operations : carried'[x] = carried[x]
    BY <2>2 DEF Base, ProviderTypeOK, IInv, RowInv, RowsOK
  <2>3. QED BY <2>1, <2>2 DEF Creates, Invokes, Invoke
<1>4. QED BY <1>1, <1>2, <1>3 DEF Renews

LEMMA StepSnapshots ==
    ASSUME ExpiryInv, [ProviderNext]_allVars
    PROVE  Snapshots \/ Tick \/ Renews
<1>1. Base
  BY DEF ExpiryInv
<1>2. CASE ServiceStep \/ UNCHANGED allVars
  BY <1>2, KeptSnapshot DEF ServiceStep, allVars, mainVars
<1>3. ASSUME NEW w \in Window,
             \/ Registers(w) \/ Stops(w)
             \/ \E taken \in {{}} \cup {{r} : r \in Waiting} : Polls(w, taken)
      PROVE  Snapshots
  BY <1>3, KeptSnapshot, ForgottenSnapshot DEF Registers, Stops, Lose, Polls
<1>4. ASSUME NEW s \in SessionId,
             \/ \E w \in Window : Creates(s, w)
             \/ \E o \in OperationId : Invokes(o, s)
             \/ HandlesSession(s) \/ Navigates(s) \/ LocalExpires(s)
      PROVE  Snapshots \/ Renews
  <2>1. CASE (\E w \in Window : Creates(s, w)) \/ (\E o \in OperationId : Invokes(o, s))
    BY <1>1, <2>1, StagingRenews
  <2>2. CASE HandlesSession(s) \/ LocalExpires(s)
    BY <2>2, KeptSnapshot, ForgottenSnapshot
       DEF HandlesSession, AwaitsTab, BeginCreate, BeginDestroy, Emptied, LocalExpires
  <2>3. CASE Navigates(s)
    <3>1. local' = [local EXCEPT ![s].epoch = @ + 1] /\ UNCHANGED <<left, carried>>
      BY <2>3 DEF Navigates
    <3>2. \A t \in SessionId : local'[t].page = local[t].page /\ local'[t].expires = local[t].expires
      BY <1>1, <3>1 DEF Base, ProviderTypeOK, LocalSession
    <3>3. QED BY <3>1, <3>2 DEF Snapshots, ExpiryInv, LocalInv, Has
  <2>4. QED BY <1>4, <2>1, <2>2, <2>3
<1>5. ASSUME NEW o \in OperationId, HandlesOperation(o) PROVE Snapshots
  BY <1>5, ExecuteSnapshot, KeptSnapshot DEF HandlesOperation, BeginCancel, OperationEnds
<1>6. ASSUME NEW r \in Request, Handles(r) PROVE Snapshots
  <2>1. CASE Initialized(r)
    BY <2>1, InitializedSnapshot
  <2>2. CASE ~Initialized(r)
    <3>1. UNCHANGED <<left, carried>> /\ (local' = local \/ \E S : local' = Forgotten(S))
      BY <1>6, <2>2
         DEF Handles, Accepted, Refused, Approved, Opened, NotInitialized, Cleared,
             CreationFails, ProtocolFails, Lose
    <3>2. QED BY <3>1, KeptSnapshot, ForgottenSnapshot
  <2>3. QED BY <2>1, <2>2
<1>7. QED BY <1>2, <1>3, <1>4, <1>5, <1>6 DEF ProviderNext

LEMMA ExpiryNext ==
    ASSUME ExpiryInv, Stepped, Snapshots \/ Tick \/ Renews
    PROVE  CarriedInv' /\ LocalInv'
<1>1. ASSUME NEW o \in DOMAIN operations
      PROVE  /\ operations[o].session \in SessionId /\ o \in OperationId
             /\ operations'[o].session = operations[o].session
             /\ carried[o] <= left[operations[o].session]
             /\ carried[o] \in Nat /\ left[operations[o].session] \in Nat
             /\ left'[operations[o].session] \in Nat
  <2>1. operations[o].session \in SessionId /\ o \in OperationId
    BY DEF ExpiryInv, Base, IInv, RowInv, RowsOK
  <2>2. operations'[o].session = operations[o].session
    BY DEF Stepped, ServiceKept, Kept, Follows
  <2>3. carried[o] \in Nat /\ left[operations[o].session] \in Nat /\ left'[operations[o].session] \in Nat
    BY <2>1, LocalAssumption DEF ExpiryInv, Stepped, Base, ProviderTypeOK, Time
  <2>4. QED BY <2>1, <2>2, <2>3 DEF ExpiryInv, CarriedInv
<1>2. \A o \in DOMAIN operations' \ DOMAIN operations : carried'[o] <= left'[operations'[o].session]
  BY DEF Stepped, Tells, Staged
<1>3. CASE Tick
  BY <1>3, TickExpiry
<1>4. CASE Snapshots
  <2>1. CarriedInv'
    BY <1>1, <1>2, <1>4 DEF Snapshots, CarriedInv
  <2>2. LocalInv'
    BY <1>4 DEF Snapshots, LocalInv
  <2>3. QED BY <2>1, <2>2
<1>5. CASE Renews
  <2>1. ASSUME NEW o \in DOMAIN operations PROVE carried'[o] <= left'[operations'[o].session]
    <3>1. carried'[o] = carried[o] /\ left[operations[o].session] <= left'[operations[o].session]
      BY <1>1, <1>5 DEF Renews
    <3>2. QED BY <1>1, <3>1
  <2>2. ASSUME NEW s \in SessionId, Has(s)' PROVE local'[s].expires <= left'[s]
    <3>1. local'[s] = local[s] /\ Has(s) /\ left[s] <= left'[s]
      BY <1>5, <2>2 DEF Renews, Has
    <3>2. local[s].expires <= left[s]
      BY <3>1 DEF ExpiryInv, LocalInv
    <3>3. local[s].expires \in Nat /\ left[s] \in Nat /\ left'[s] \in Nat
      BY LocalTypes, LocalAssumption DEF ExpiryInv, Stepped, Base, ProviderTypeOK, Time
    <3>4. QED BY <3>1, <3>2, <3>3
  <2>3. CarriedInv'
    BY <1>2, <2>1 DEF CarriedInv
  <2>4. QED BY <2>2, <2>3 DEF LocalInv
<1>6. QED BY <1>3, <1>4, <1>5

-----------------------------------------------------------------------------
(* What always holds of both ends.                                           *)

BothEndsInv == PageBase /\ ServedInv /\ OpenInv /\ RunsFenced /\ PagesHeld /\ CarriedInv /\ LocalInv

LEMMA BothEndsInit == ProviderInit => BothEndsInv
<1> SUFFICES ASSUME ProviderInit PROVE BothEndsInv
  OBVIOUS
<1>1. PageBase
  BY PageBaseInit
<1>2. /\ \A r \in Request : work[r].step = "idle"
      /\ \A s \in SessionId : local[s].page = {}
      /\ open = {} /\ DOMAIN sessions = {} /\ DOMAIN operations = {}
  BY DEF ProviderInit, Init, Idle, At, NoSession
<1>3. ServedInv /\ OpenInv
  BY <1>2 DEF ServedInv, Wanted, OpenInv
<1>4. RunsFenced /\ PagesHeld /\ CarriedInv
  BY <1>2 DEF RunsFenced, PagesHeld, CarriedInv
<1>5. LocalInv
  BY <1>2 DEF LocalInv, Has
<1>6. QED BY <1>1, <1>3, <1>4, <1>5 DEF BothEndsInv

LEMMA BothEndsNext == ASSUME BothEndsInv, [ProviderNext]_allVars PROVE BothEndsInv'
<1>1. PageBase' /\ Stepped
  BY PageBaseNext DEF BothEndsInv
<1>2. ServedInv' /\ OpenInv' /\ RunsFenced' /\ PagesHeld'
  BY <1>1, ServedNext, OpenNext, FencedNext, HeldNext DEF BothEndsInv
<1>3. ExpiryInv
  BY DEF BothEndsInv, PageBase, ExpiryInv
<1>4. CarriedInv' /\ LocalInv'
  BY <1>1, <1>3, StepSnapshots, ExpiryNext
<1>5. QED BY <1>1, <1>2, <1>4 DEF BothEndsInv

LEMMA BothEndsInvariant == ProviderSpec => []BothEndsInv
<1>1. ProviderInit => BothEndsInv
  BY BothEndsInit
<1>2. BothEndsInv /\ [ProviderNext]_allVars => BothEndsInv'
  BY BothEndsNext
<1>3. QED BY <1>1, <1>2, PTL DEF ProviderSpec

\* Both ends keep their types (the handlers, sessions and timers of Electron
\* main, browser-automation-provider.ts and browser-automation-manager.ts).
THEOREM ProviderTypes == ProviderSpec => []ProviderTypeOK
<1>1. BothEndsInv => ProviderTypeOK
  BY DEF BothEndsInv, PageBase, Base
<1>2. QED BY <1>1, BothEndsInvariant, PTL

\* No hidden window is left behind, whichever of two handlers ends what the
\* other still opens, and no session keeps a page once its provider is lost
\* (browser-automation-manager.ts:343-362, 456-563).
THEOREM PagesAccounted == ProviderSpec => []PagesHeld
<1>1. BothEndsInv => PagesHeld
  BY DEF BothEndsInv
<1>2. QED BY <1>1, BothEndsInvariant, PTL

\* What runs, runs on a session that the manager still has, and on the page
\* its caller saw unless it may leave it.
THEOREM ExecutionFenced == ProviderSpec => []RunsFenced
<1>1. BothEndsInv => RunsFenced
  BY DEF BothEndsInv
<1>2. QED BY <1>1, BothEndsInvariant, PTL

\* No page outlives the expiry of its session's row, although Electron main
\* goes by the expiry of an earlier snapshot (runtime.ts:125).
THEOREM ExpirySafety == ProviderSpec => []ExpiryNotLater
<1>1. BothEndsInv => ExpiryNotLater
  <2>1. SUFFICES ASSUME BothEndsInv PROVE ExpiryNotLater
    OBVIOUS
  <2>2. DOMAIN sessions \subseteq SessionId
    BY <2>1 DEF BothEndsInv, PageBase, Base, IInv, RowInv, RowsOK
  <2>3. QED BY <2>1, <2>2 DEF BothEndsInv, LocalInv, ExpiryNotLater
<1>2. QED BY <1>1, BothEndsInvariant, PTL

\* The service keeps its promises with this provider and this clock too: what
\* waits is pending on a ready session, and screenshots go with theirs.
THEOREM ServiceSafety == ProviderSpec => [](LiveOpHasReadySession /\ LiveWorkIsPending /\ HandlesOwned)
<1>1. BothEndsInv => LiveOpHasReadySession /\ LiveWorkIsPending /\ HandlesOwned
  <2>1. SUFFICES ASSUME RowInv PROVE LiveOpHasReadySession /\ LiveWorkIsPending /\ HandlesOwned
    BY DEF BothEndsInv, PageBase, Base, IInv
  <2>2. LiveOpHasReadySession
    BY <2>1 DEF RowInv, OpsReady, LiveOpHasReadySession, Queued
  <2>3. LiveWorkIsPending
    BY <2>1 DEF RowInv, Awaited, LiveWorkIsPending, Queued
  <2>4. HandlesOwned
    BY <2>1 DEF RowInv, HandlesOK, HandlesOwned
  <2>5. QED BY <2>2, <2>3, <2>4
<1>2. QED BY <1>1, BothEndsInvariant, PTL

\* However the provider polls, answers late, or is lost with its answers under
\* way, no outcome is written twice.
THEOREM OutcomesWithProvider == ProviderSpec => OutcomeIsFinal
<1> DEFINE A == /\ \A o \in DOMAIN operations :
                     ~Queued(o) => operations'[o].state = operations[o].state
               /\ \A s \in DOMAIN sessions :
                     ~Live(s) => sessions'[s].state = sessions[s].state
<1>1. BothEndsInv /\ [ProviderNext]_allVars => [A]_vars
  BY BaseNext DEF BothEndsInv, PageBase, ServiceKept, Kept, Follows
<1>2. QED BY <1>1, BothEndsInvariant, PTL DEF ProviderSpec, OutcomeIsFinal

\* Between the service and the handlers of Electron main, too, each request is
\* delivered and settled at most once.
THEOREM DeliveryWithProvider == ProviderSpec => DeliversOnce
<1>1. ProviderInit => Delivery!Init
  BY DEF ProviderInit, Init, Delivery!Init
<1>2. BothEndsInv /\ [ProviderNext]_allVars => [Delivery!Next]_mail
  BY BaseNext, MovesOnce
     DEF BothEndsInv, PageBase, Base, IInv, RowInv, ServiceKept, MailKept
<1>3. QED BY <1>1, <1>2, BothEndsInvariant, PTL DEF ProviderSpec, Delivery!Spec, DeliversOnce
=============================================================================
