---------------------------- MODULE OnceDelivery ----------------------------
(* What the reverse-provider transport promises to the code that publishes   *)
(* a request: the request is handed over at most once, and its completion    *)
(* promise is resolved exactly once, either by the provider that holds it or *)
(* as interrupted.  It says nothing about queues, polls, leases or timers.   *)
EXTENDS Naturals

CONSTANT Request

VARIABLE status

Settled == {"acknowledged", "interrupted"}
Status  == {"idle", "queued", "inFlight"} \cup Settled

\* A request enters either queued or, when a poll is already waiting, directly
\* in flight; only a request in flight can be acknowledged.
Edge == {<<"idle", "queued">>, <<"idle", "inFlight">>,
         <<"queued", "inFlight">>, <<"queued", "interrupted">>,
         <<"inFlight", "acknowledged">>, <<"inFlight", "interrupted">>}

TypeOK == status \in [Request -> Status]

Init == status = [r \in Request |-> "idle"]

\* One handler may move several requests: revoking a provider interrupts all
\* of its requests, and a publish may follow in the same handler.
Move(R) ==
    /\ R # {}
    /\ status' \in [Request -> Status]
    /\ \A r \in R : <<status[r], status'[r]>> \in Edge
    /\ \A r \in Request \ R : status'[r] = status[r]

Next == \E R \in SUBSET Request : Move(R)

Settle(r) ==
    /\ status[r] \in {"queued", "inFlight"}
    /\ status' \in [Request -> Status] /\ status'[r] \in Settled

Spec == Init /\ [][Next]_status

FairSpec == Spec /\ \A r \in Request : WF_status(Settle(r))
=============================================================================
