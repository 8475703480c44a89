--------------------------- MODULE ProviderMailbox ---------------------------
(* The reverse-provider transport of the browser automation service: the     *)
(* lease authority (provider-authority.ts) and the in-memory mailbox it owns *)
(* (provider-mailbox.ts).  Electron main registers one provider per window   *)
(* over the private pipe, polls for requests and answers them; the service   *)
(* publishes requests and waits on their completion promises.                *)
(*                                                                           *)
(* A provider identity (providerId, providerEpoch, leaseId) is fresh at each *)
(* registration and bound to one window and generation for its whole life,   *)
(* so it is a number here: comparing two identities, or two targets, or the  *)
(* correlation ids of one request, is comparing providers.  The process is   *)
(* single threaded: each handler is one step.                                *)
EXTENDS Naturals, Sequences, FiniteSets

CONSTANTS
    Window,         \* the windows Electron main may register a provider for
    Request,        \* the request ids that may be published
    Session,        \* the automation sessions requests belong to
    MaxPending,     \* MAX_PENDING, the capacity of the mailbox (64)
    MaxProvider     \* bound on the identities issued by one process

ASSUME MaxPendingAssumption  == MaxPending \in Nat \ {0}
ASSUME MaxProviderAssumption == MaxProvider \in Nat

NoProvider == 0
Provider   == 1 .. MaxProvider

\* 'lifecycle' stands for create and destroy, 'transfer' for screenshotRead
\* and screenshotRelease: the mailbox treats the two of each pair alike.
Kind  == {"lifecycle", "execute", "transfer", "cancel"}
Entry == [kind : Kind, session : Session, provider : Provider,
          state : {"queued", "inFlight"}]

VARIABLES
    hosted,       \* windows placed and not closing in the state snapshot
    leases,       \* window -> its registered provider, or NoProvider
    issued,       \* number of identities issued so far
    closed,       \* dispose() ran
    entries,      \* request id -> pending entry
    queue,        \* ids in the queue array
    ahead,        \* <<a, b>>: id a stands somewhere before id b in the array
    pollWaiters,  \* providers with a poll parked on the server
    promise,      \* request id -> its completion promise
    handed        \* request id -> the providers it was handed to, in order

authorityVars == <<hosted, leases, issued, closed>>
mailboxVars   == <<entries, queue, ahead, pollWaiters, promise, handed>>
vars == <<hosted, leases, issued, closed, entries, queue, ahead, pollWaiters,
          promise, handed>>

Promise == {"none", "pending", "acknowledged", "transferred", "interrupted"}

TypeOK ==
    /\ hosted \subseteq Window
    /\ leases \in [Window -> Provider \cup {NoProvider}]
    /\ issued \in 0 .. MaxProvider
    /\ closed \in BOOLEAN
    /\ DOMAIN entries \subseteq Request
    /\ entries \in [DOMAIN entries -> Entry]
    /\ queue \subseteq Request
    /\ ahead \subseteq Request \X Request
    /\ pollWaiters \subseteq Provider
    /\ promise \in [Request -> Promise]
    /\ handed \in [Request -> Seq(Provider)]

Init ==
    /\ hosted \in SUBSET Window
    /\ leases = [w \in Window |-> NoProvider]
    /\ issued = 0
    /\ closed = FALSE
    /\ entries = [r \in {} |-> NoProvider]
    /\ queue = {}
    /\ ahead = {}
    /\ pollWaiters = {}
    /\ promise = [r \in Request |-> "none"]
    /\ handed = [r \in Request |-> <<>>]

-----------------------------------------------------------------------------
(* Leases.                                                                   *)

Leased == {leases[w] : w \in Window} \ {NoProvider}

\* isCurrent: the provider holds the lease of a window that is still hosted.
IsCurrent(p) == ~closed /\ \E w \in hosted : leases[w] = p

\* Leases whose window is gone.  isCurrent() revokes such a lease when it is
\* asked about its provider, claim() asks about every lease.
Lapsed == {w \in Window : leases[w] # NoProvider /\ w \notin hosted}

ProvidersOf(W) == {leases[w] : w \in W} \ {NoProvider}
RequestsOf(P)  == {r \in DOMAIN entries : entries[r].provider \in P}

-----------------------------------------------------------------------------
(* Mailbox operations shared by the handlers.                                *)

\* The order of the queue array among the ids in S.
Order(S) == ahead \cap (S \X S)

\* remove(): the entries in R leave the map and the queue, and their promises
\* resolve with the given completion.
Remove(R, completion) ==
    /\ entries' = [r \in DOMAIN entries \ R |-> entries[r]]
    /\ queue'   = queue \ R
    /\ ahead'   = Order(queue \ R)
    /\ promise' = [r \in Request |->
                     IF r \in R \cap DOMAIN entries THEN completion ELSE promise[r]]

\* revokeWindow() of every window in W, and revokeProvider() of their leases.
Revoke(W) ==
    /\ leases' = [w \in Window |-> IF w \in W THEN NoProvider ELSE leases[w]]
    /\ pollWaiters' = pollWaiters \ ProvidersOf(W)
    /\ Remove(RequestsOf(ProvidersOf(W)), "interrupted")

\* publish() of a fresh request for p, after the leases of the windows in W
\* were revoked: handed to p's parked poll if there is one, queued otherwise.
Enter(r, kind, s, p, W) ==
    LET gone   == RequestsOf(ProvidersOf(W))
        parked == p \in pollWaiters
        entry  == [kind |-> kind, session |-> s, provider |-> p,
                   state |-> IF parked THEN "inFlight" ELSE "queued"]
    IN  /\ Cardinality(DOMAIN entries \ gone) < MaxPending
        /\ leases' = [w \in Window |-> IF w \in W THEN NoProvider ELSE leases[w]]
        /\ entries' = [x \in (DOMAIN entries \ gone) \cup {r} |->
                         IF x = r THEN entry ELSE entries[x]]
        /\ queue' = IF parked THEN queue \ gone ELSE (queue \ gone) \cup {r}
        /\ ahead' = IF parked THEN Order(queue \ gone)
                    ELSE Order(queue \ gone) \cup ((queue \ gone) \X {r})
        /\ pollWaiters' = (pollWaiters \ ProvidersOf(W)) \ {p}
        /\ promise' = [x \in Request |->
                         CASE x = r       -> "pending"
                           [] x \in gone  -> "interrupted"
                           [] OTHER       -> promise[x]]
        /\ handed' = IF parked THEN [handed EXCEPT ![r] = Append(@, p)] ELSE handed

-----------------------------------------------------------------------------
(* Electron main, over the private pipe.                                     *)

\* A window leaves or enters the hosted placements of the state snapshot.
WindowHosted(w) ==
    /\ hosted' = IF w \in hosted THEN hosted \ {w} ELSE hosted \cup {w}
    /\ UNCHANGED <<leases, issued, closed>>
    /\ UNCHANGED mailboxVars

\* registerTrustedWindow: the window's old lease is revoked first.
RegisterOverLease(w) ==   \* mutant: the old provider is not revoked first
    /\ ~closed
    /\ w \in hosted
    /\ issued < MaxProvider
    /\ issued' = issued + 1
    /\ leases' = [leases EXCEPT ![w] = issued + 1]
    /\ UNCHANGED <<hosted, closed>>
    /\ UNCHANGED mailboxVars
RegisterTrustedWindow(w) ==
    /\ ~closed
    /\ w \in hosted
    /\ issued < MaxProvider
    /\ issued' = issued + 1
    /\ leases' = [leases EXCEPT ![w] = issued + 1]
    /\ pollWaiters' = pollWaiters \ ProvidersOf({w})
    /\ Remove(RequestsOf(ProvidersOf({w})), "interrupted")
    /\ UNCHANGED <<hosted, closed, handed>>

\* revokeWindow, on the window's revocation by the owner channel.
RevokeWindow(w) ==
    /\ leases[w] # NoProvider
    /\ Revoke({w})
    /\ UNCHANGED <<hosted, issued, closed, handed>>

\* revokeIfCurrent: a loss notification names the provider that was lost; by
\* the time it arrives the window may have another one, which must survive.
RevokeIfCurrent(w, p) ==
    /\ leases[w] = p
    /\ Revoke({w})
    /\ UNCHANGED <<hosted, issued, closed, handed>>

\* dispose, when the owner channel closes.
Dispose ==
    /\ ~closed
    /\ closed' = TRUE
    /\ leases' = [w \in Window |-> NoProvider]
    /\ pollWaiters' = {}
    /\ Remove(DOMAIN entries, "interrupted")
    /\ UNCHANGED <<hosted, issued, handed>>

\* Any handler that asks isCurrent() about the provider of a lapsed lease
\* revokes the lease and then fails: poll, acknowledge, transfer, cancel.
RejectLapsed(w) ==
    /\ w \in Lapsed
    /\ Revoke({w})
    /\ UNCHANGED <<hosted, issued, closed, handed>>

\* claim() asks about every lease, and fails when none or several remain.
ClaimFails ==
    /\ ~closed
    /\ Lapsed # {}
    /\ Revoke(Lapsed)
    /\ UNCHANGED <<hosted, issued, closed, handed>>

-----------------------------------------------------------------------------
(* The service publishes, cancels, and its timers fire.                      *)

\* createSession, invoke and destroySession claim the window's lease and
\* publish; a claim revokes every lapsed lease on its way.
PublishClaimed(r, kind, s, w) ==
    /\ promise[r] = "none"
    /\ kind \in {"lifecycle", "execute"}
    /\ w \in hosted /\ leases[w] # NoProvider /\ ~closed
    /\ Enter(r, kind, s, leases[w], Lapsed)
    /\ UNCHANGED <<hosted, issued, closed>>

\* Screenshot transfers and cancel requests are addressed to the provider of
\* the record they concern, with isCurrent() as the only check.
PublishAddressed(r, kind, s, p) ==
    /\ promise[r] = "none"
    /\ kind \in {"transfer", "cancel"}
    /\ IsCurrent(p)
    /\ Enter(r, kind, s, p, {})
    /\ UNCHANGED <<hosted, issued, closed>>

\* cancel, and the request's own timer.
CancelUnlessTaken(r) ==   \* mutant: handing a request over clears its timer
    /\ r \in DOMAIN entries
    /\ entries[r].state = "queued"
    /\ Remove({r}, "interrupted")
    /\ UNCHANGED <<leases, pollWaiters, handed, hosted, issued, closed>>
Cancel(r) ==
    /\ r \in DOMAIN entries
    /\ Remove({r}, "interrupted")
    /\ UNCHANGED <<leases, pollWaiters, handed, hosted, issued, closed>>

\* cancelQueued: only work the provider has not received.
CancelQueued(r) ==
    /\ r \in DOMAIN entries
    /\ entries[r].state = "queued"
    /\ Remove({r}, "interrupted")
    /\ UNCHANGED <<leases, pollWaiters, handed, hosted, issued, closed>>

CancelSession(s) ==
    LET owned == {r \in DOMAIN entries : entries[r].session = s}
    IN  /\ owned # {}
        /\ Remove(owned, "interrupted")
        /\ UNCHANGED <<leases, pollWaiters, handed, hosted, issued, closed>>

-----------------------------------------------------------------------------
(* The provider, over HTTP.                                                  *)

\* The ids poll() may hand to p: still pending, queued, and addressed to p.
Live(r) == r \in DOMAIN entries /\ entries[r].state = "queued"
Mine(p) == {r \in queue : Live(r) /\ entries[r].provider = p}

\* poll: the scan shifts ids off the front until it meets the first of p's
\* own, which it hands over; the ids of other providers it met on the way are
\* pushed to the back, stale ids are dropped.
PollTakes(r, p) ==
    LET before  == {x \in queue : <<x, r>> \in ahead}
        rotated == {x \in before : Live(x)}
        rest    == queue \ (before \cup {r})
    IN  /\ IsCurrent(p)
        /\ p \notin pollWaiters
        /\ r \in Mine(p)
        /\ before \cap Mine(p) = {}
        /\ entries' = [entries EXCEPT ![r].state = "inFlight"]
        /\ queue'   = rest \cup rotated
        /\ ahead'   = Order(rest) \cup Order(rotated) \cup (rest \X rotated)
        /\ handed'  = [handed EXCEPT ![r] = Append(@, p)]
        /\ UNCHANGED <<pollWaiters, promise>>
        /\ UNCHANGED authorityVars

\* poll with nothing to hand over parks until a publish, or a timeout.
PollParksUnscanned(p) ==   \* mutant: parks without looking at the queue
    /\ IsCurrent(p)
    /\ p \notin pollWaiters
    /\ pollWaiters' = pollWaiters \cup {p}
    /\ UNCHANGED <<entries, queue, ahead, promise, handed>>
    /\ UNCHANGED authorityVars
PollParks(p) ==
    LET rotated == {x \in queue : Live(x)}
    IN  /\ IsCurrent(p)
        /\ p \notin pollWaiters
        /\ Mine(p) = {}
        /\ pollWaiters' = pollWaiters \cup {p}
        /\ queue' = rotated
        /\ ahead' = Order(rotated)
        /\ UNCHANGED <<entries, promise, handed>>
        /\ UNCHANGED authorityVars

PollTimesOut(p) ==
    /\ p \in pollWaiters
    /\ pollWaiters' = pollWaiters \ {p}
    /\ UNCHANGED <<entries, queue, ahead, promise, handed>>
    /\ UNCHANGED authorityVars

\* match(): the answer of a current provider to a request it holds.
Matches(r, p) ==
    /\ r \in DOMAIN entries
    /\ entries[r].state = "inFlight"
    /\ entries[r].provider = p
    /\ IsCurrent(p)

Acknowledge(r, p) ==
    /\ Matches(r, p)
    /\ entries[r].kind \in {"lifecycle", "execute"}
    /\ Remove({r}, "acknowledged")
    /\ UNCHANGED <<leases, pollWaiters, handed, hosted, issued, closed>>

RespondTransfer(r, p) ==
    /\ Matches(r, p)
    /\ entries[r].kind = "transfer"
    /\ Remove({r}, "transferred")
    /\ UNCHANGED <<leases, pollWaiters, handed, hosted, issued, closed>>

-----------------------------------------------------------------------------
Next ==
    \/ \E w \in Window : \/ WindowHosted(w)
                         \/ RegisterTrustedWindow(w)
                         \/ RevokeWindow(w)
                         \/ RejectLapsed(w)
    \/ \E w \in Window, p \in Provider : RevokeIfCurrent(w, p)
    \/ ClaimFails
    \/ Dispose
    \/ \E r \in Request, k \in Kind, s \in Session :
          \/ \E w \in Window   : PublishClaimed(r, k, s, w)
          \/ \E p \in Provider : PublishAddressed(r, k, s, p)
    \/ \E r \in Request : Cancel(r) \/ CancelQueued(r)
    \/ \E s \in Session : CancelSession(s)
    \/ \E p \in Provider : PollParks(p) \/ PollTimesOut(p)
    \/ \E r \in Request, p \in Provider :
          PollTakes(r, p) \/ Acknowledge(r, p) \/ RespondTransfer(r, p)

Spec == Init /\ [][Next]_vars
-----------------------------------------------------------------------------
(* What the transport guarantees.                                            *)

\* The queue holds exactly the entries no poll has taken yet, in one order:
\* remove() leaves no id behind, and the rotation in poll() neither drops nor
\* repeats an id nor makes the order of the others ambiguous.
QueueMatchesEntries ==
    /\ queue = {r \in DOMAIN entries : entries[r].state = "queued"}
    /\ ahead \subseteq queue \X queue
    /\ \A a, b \in queue : a # b => (<<a, b>> \in ahead <=> <<b, a>> \notin ahead)
    /\ \A a \in queue : <<a, a>> \notin ahead
    /\ \A a, b, c \in queue : <<a, b>> \in ahead /\ <<b, c>> \in ahead => <<a, c>> \in ahead

\* A completion promise is unresolved exactly while its entry exists: no path
\* through revocation, timers, cancellation or disposal drops an entry without
\* telling the publisher, or tells it twice.
PendingIffEntry == \A r \in Request : promise[r] = "pending" <=> r \in DOMAIN entries

\* Every entry and every parked poll belongs to a provider that still holds a
\* lease: replacing or revoking a provider leaves none of its work behind.
NothingOrphaned == (\A r \in DOMAIN entries : entries[r].provider \in Leased)
                   /\ pollWaiters \subseteq Leased

\* No lost wake-up: while a provider's poll is parked, nothing addressed to it
\* waits in the queue.
NoLostWakeup == \A r \in DOMAIN entries :
                    entries[r].provider \in pollWaiters => entries[r].state = "inFlight"

\* A request is handed over at most once, to the provider it was addressed to,
\* and an answer is accepted only for a request that was handed over.
HandedOnce ==
    \A r \in Request :
        /\ Len(handed[r]) <= 1
        /\ r \in DOMAIN entries =>
              handed[r] = IF entries[r].state = "inFlight" THEN <<entries[r].provider>>
                                                           ELSE <<>>
        /\ promise[r] \in {"acknowledged", "transferred"} => handed[r] # <<>>

-----------------------------------------------------------------------------
(* The transport implements the once-only delivery of module OnceDelivery.   *)

status == [r \in Request |->
             CASE promise[r] = "none"        -> "idle"
               [] promise[r] = "pending"     -> entries[r].state
               [] promise[r] = "interrupted" -> "interrupted"
               [] OTHER                      -> "acknowledged"]

Delivery == INSTANCE OnceDelivery

\* A pending request has a timer (120 s, or 30 s for a transfer or a cancel)
\* that nothing but its own removal clears; Node fires it eventually.
FairSpec == Spec /\ \A r \in Request : WF_vars(Cancel(r))

\* Every step of the transport is a step or a stutter of OnceDelivery.
DeliversOnce == Delivery!Spec

\* Under the timers, every published request is settled: a publisher never
\* waits forever, whatever the provider and its window do.
DeliversAndSettles == Delivery!FairSpec
=============================================================================
