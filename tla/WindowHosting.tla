---------------------------- MODULE WindowHosting ----------------------------
(* Which windows are hosted: Electron main claims each open window over the  *)
(* owner channel, renews the claim every 5 s and recovers it when a renewal  *)
(* fails (desktop main index.ts, node-hosting-recovery.ts); the service      *)
(* grants claims with a lease of 15 s and writes them into the placements of *)
(* its durable snapshot (window-hosting-authority.ts).  The channel is one   *)
(* stream each way: requests are served, and answered, in order.             *)
(*                                                                           *)
(* A lease lapses when its clock runs out: a flag the environment raises.    *)
(* Placement ids are not reused.                                             *)
EXTENDS Naturals, Sequences, FiniteSets

CONSTANTS
    Window,
    MaxGeneration    \* bound on the window generations Electron main issues

ASSUME GenerationAssumption == MaxGeneration \in Nat \ {0}

Generation == 1 .. MaxGeneration
None       == 0                    \* no claim, no registry entry
Placement  == {"absent", "unhosted", "hosted", "closing", "removed"}

VARIABLES
    placements,       \* hosting state of each placement in the snapshot
    claims,           \* window -> generation of its claim, or None
    lapsed,           \* claimed windows whose lease ran out
    highest,          \* window -> highest generation ever claimed, or None
    entries,          \* window -> renderer generation in the registry, or None
    nextGeneration,   \* last generation issued
    hosting,          \* window -> Electron main's record of its claim
    requests,         \* owner channel, towards the service
    replies           \* owner channel, towards Electron main

service  == <<placements, claims, lapsed, highest>>
electron == <<entries, nextGeneration, hosting>>
vars == <<placements, claims, lapsed, highest, entries, nextGeneration, hosting,
          requests, replies>>

\* What a claim waits for: the answer to its first registration, nothing (its
\* timer runs), a heartbeat, the registration of a recovery, or the start of
\* automation that ends a recovery.
Waiting == {"registration", "nothing", "heartbeat", "recovery", "automation"}
Claim   == [generation : Generation, waiting : Waiting, recoveryPending : BOOLEAN]
NoClaim == [generation |-> None, waiting |-> "nothing", recoveryPending |-> FALSE]

Operation == {"registerHosting", "heartbeatHosting", "revokeHosting"}
Request   == [operation : Operation, window : Window, generation : Generation]
Reply     == [operation : Operation, window : Window, generation : Generation, ok : BOOLEAN]

Claimed == {w \in Window : claims[w] # None}

TypeOK ==
    /\ placements \in [Window -> Placement]
    /\ claims \in [Window -> Generation \cup {None}]
    /\ highest \in [Window -> Generation \cup {None}]
    /\ lapsed \subseteq Claimed
    /\ entries \in [Window -> Generation \cup {None}]
    /\ nextGeneration \in 0 .. MaxGeneration
    /\ hosting \in [Window -> Claim \cup {NoClaim}]
    /\ requests \in Seq(Request)
    /\ replies \in Seq(Reply)

Init ==
    /\ placements \in [Window -> {"absent", "unhosted", "closing"}]
    /\ \E w \in Window : placements[w] # "absent"
    /\ claims = [w \in Window |-> None]
    /\ highest = [w \in Window |-> None]
    /\ lapsed = {}
    /\ entries = [w \in Window |-> None]
    /\ nextGeneration = 0
    /\ hosting = [w \in Window |-> NoClaim]
    /\ requests = <<>>
    /\ replies = <<>>

-----------------------------------------------------------------------------
(* The service.                                                              *)

\* reconcileWindowHosting(W) throws when a claimed placement is gone or is
\* closing; otherwise exactly the placements in W are hosted.
Reconcilable(W) == \A w \in W : placements[w] \in {"hosted", "unhosted"}
Reconciled(W) ==
    [w \in Window |->
        IF placements[w] \notin {"hosted", "unhosted"} THEN placements[w]
        ELSE IF w \in W THEN "hosted" ELSE "unhosted"]

\* expire(), which opens every handler: a lapsed claim goes, unless writing
\* the placements throws, which fails the whole handler.
Kept == Claimed \ lapsed
ExpireThrows == lapsed # {} /\ ~Reconcilable(Kept)

ExpireInMemory ==   \* mutant: the lapsed claims go, their placements stay hosted
    /\ claims' = [w \in Window |-> IF w \in Kept THEN claims[w] ELSE None]
    /\ lapsed' = {}
    /\ UNCHANGED <<placements, highest>>
Expire ==
    /\ claims' = [w \in Window |-> IF w \in Kept THEN claims[w] ELSE None]
    /\ placements' = IF lapsed = {} THEN placements ELSE Reconciled(Kept)
    /\ lapsed' = {}
    /\ UNCHANGED highest

\* A claim is granted or renewed: a new lease, and every claim is written.
GrantRenewsOnly(w, g) ==   \* mutant: an active claim keeps its generation
    /\ claims' = [v \in Window |-> IF v = w THEN IF w \in Kept THEN claims[w] ELSE g
                                   ELSE IF v \in Kept THEN claims[v] ELSE None]
    /\ placements' = Reconciled(Kept \cup {w})
    /\ lapsed' = {}
Grant(w, g) ==
    /\ claims' = [v \in Window |-> IF v = w THEN g ELSE IF v \in Kept THEN claims[v] ELSE None]
    /\ placements' = Reconciled(Kept \cup {w})
    /\ lapsed' = {}

\* register(): a generation claims a window once, and never after a later one.
Registrable(w, g) ==
    /\ g > highest[w] \/ (g = highest[w] /\ w \in Kept)
    /\ Reconcilable(Kept \cup {w})

Renewable(w, g) == w \in Kept /\ claims[w] = g /\ Reconcilable(Kept)

Register(w, g) == Grant(w, g) /\ highest' = [highest EXCEPT ![w] = g]

Heartbeat(w, g) == Grant(w, g) /\ UNCHANGED highest

\* revoke(): the claim goes if it is still of this generation; the claims
\* that remain are written in either case.
Remaining(w, g) == IF w \in Kept /\ claims[w] = g THEN Kept \ {w} ELSE Kept
Revoke(w, g) ==
    /\ claims' = [v \in Window |-> IF v \in Remaining(w, g) THEN claims[v] ELSE None]
    /\ placements' = Reconciled(Remaining(w, g))
    /\ lapsed' = {}
    /\ UNCHANGED highest

Granted(r) ==
    /\ ~ExpireThrows
    /\ CASE r.operation = "registerHosting"  -> Registrable(r.window, r.generation)
         [] r.operation = "heartbeatHosting" -> Renewable(r.window, r.generation)
         [] r.operation = "revokeHosting"    -> Reconcilable(Remaining(r.window, r.generation))

Answer(ok) ==
    /\ requests' = Tail(requests)
    /\ replies' = Append(replies, [operation |-> Head(requests).operation,
                                   window |-> Head(requests).window,
                                   generation |-> Head(requests).generation, ok |-> ok])

\* One request of the owner channel.
Serve ==
    /\ requests # <<>>
    /\ LET r == Head(requests)
       IN  \/ /\ Granted(r)
              /\ CASE r.operation = "registerHosting"  -> Register(r.window, r.generation)
                   [] r.operation = "heartbeatHosting" -> Heartbeat(r.window, r.generation)
                   [] r.operation = "revokeHosting"    -> Revoke(r.window, r.generation)
              /\ Answer(TRUE)
           \/ /\ ~Granted(r)
              /\ IF ExpireThrows THEN UNCHANGED service ELSE Expire
              /\ Answer(FALSE)
    /\ UNCHANGED electron

\* The sweep, once a second.
SweepIdle ==   \* mutant: leases are only looked at when a request comes
    /\ lapsed # {} /\ ~ExpireThrows
    /\ UNCHANGED vars
Sweep ==
    /\ lapsed # {} /\ ~ExpireThrows
    /\ Expire
    /\ UNCHANGED <<entries, nextGeneration, hosting, requests, replies>>

LeaseLapses(w) ==
    /\ w \in Claimed \ lapsed
    /\ lapsed' = lapsed \cup {w}
    /\ UNCHANGED <<placements, claims, highest, entries, nextGeneration, hosting,
                   requests, replies>>

\* A client's mutation creates a placement (a new window, a detached tab, an
\* applied layout), or removes one while another is left (a closed window, a
\* layout).
PlacementCreated(w) ==
    /\ placements[w] = "absent"
    /\ placements' = [placements EXCEPT ![w] = "unhosted"]
    /\ UNCHANGED <<claims, lapsed, highest, entries, nextGeneration, hosting, requests, replies>>

PlacementRemoved(w) ==
    /\ placements[w] \notin {"absent", "removed"}
    /\ \E v \in Window \ {w} : placements[v] \notin {"absent", "removed"}
    /\ placements' = [placements EXCEPT ![w] = "removed"]
    /\ UNCHANGED <<claims, lapsed, highest, entries, nextGeneration, hosting, requests, replies>>

-----------------------------------------------------------------------------
(* Electron main.                                                            *)

Message(operation, w, g) == [operation |-> operation, window |-> w, generation |-> g]

\* stopNodeHostingForWindow: the claim is forgotten and its release is sent.
\* The registry calls it before it changes or drops the window's entry.
StopHosting(w) ==
    /\ hosting' = [hosting EXCEPT ![w] = NoClaim]
    /\ requests' = IF hosting[w] = NoClaim THEN requests
                   ELSE Append(requests, Message("revokeHosting", w, hosting[w].generation))

OpenWindow(w) ==
    /\ entries[w] = None /\ placements[w] \notin {"absent", "removed"}
    /\ nextGeneration < MaxGeneration
    /\ nextGeneration' = nextGeneration + 1
    /\ entries' = [entries EXCEPT ![w] = nextGeneration + 1]
    /\ UNCHANGED <<placements, claims, lapsed, highest, hosting, requests, replies>>

\* The renderer crashed or reloaded.
RefreshRenderer(w) ==
    /\ entries[w] # None
    /\ nextGeneration < MaxGeneration
    /\ nextGeneration' = nextGeneration + 1
    /\ entries' = [entries EXCEPT ![w] = nextGeneration + 1]
    /\ StopHosting(w)
    /\ UNCHANGED <<placements, claims, lapsed, highest, replies>>

CloseWindow(w) ==
    /\ entries[w] # None
    /\ entries' = [entries EXCEPT ![w] = None]
    /\ StopHosting(w)
    /\ UNCHANGED <<placements, claims, lapsed, highest, nextGeneration, replies>>

\* startNodeHostingForWindow, for a window without a claim of this entry.
StartHosting(w) ==
    /\ entries[w] # None /\ hosting[w] = NoClaim
    /\ hosting' = [hosting EXCEPT ![w] = [generation |-> entries[w], waiting |-> "registration",
                                          recoveryPending |-> FALSE]]
    /\ requests' = Append(requests, Message("registerHosting", w, entries[w]))
    /\ UNCHANGED <<placements, claims, lapsed, highest, entries, nextGeneration, replies>>

\* recoverNodeWindowHosting: the window is claimed again under a generation of
\* its own; with none left to issue the attempt fails and is repeated.
RecoverSameGeneration(w) ==   \* mutant: the claim is retried as it was
    /\ hosting' = [hosting EXCEPT ![w].waiting = "recovery", ![w].recoveryPending = TRUE]
    /\ requests' = Append(requests, Message("registerHosting", w, hosting[w].generation))
    /\ UNCHANGED nextGeneration
Recover(w) ==
    \/ /\ nextGeneration < MaxGeneration
       /\ nextGeneration' = nextGeneration + 1
       /\ hosting' = [hosting EXCEPT ![w] = [generation |-> nextGeneration + 1,
                                             waiting |-> "recovery", recoveryPending |-> TRUE]]
       /\ requests' = Append(requests, Message("registerHosting", w, nextGeneration + 1))
    \/ /\ nextGeneration = MaxGeneration
       /\ hosting' = [hosting EXCEPT ![w].waiting = "nothing", ![w].recoveryPending = TRUE]
       /\ UNCHANGED <<nextGeneration, requests>>

\* The claim's interval: one heartbeat or one recovery at a time.
Tick(w) ==
    /\ hosting[w] # NoClaim /\ hosting[w].waiting = "nothing"
    /\ \/ /\ ~hosting[w].recoveryPending
          /\ hosting' = [hosting EXCEPT ![w].waiting = "heartbeat"]
          /\ requests' = Append(requests, Message("heartbeatHosting", w, hosting[w].generation))
          /\ UNCHANGED nextGeneration
       \/ hosting[w].recoveryPending /\ Recover(w)
    /\ UNCHANGED <<placements, claims, lapsed, highest, entries, replies>>

\* An answer concerns the claim that waits for it; a claim that was stopped
\* meanwhile ignores it.
AwaitedBy(reply, c) ==
    /\ c.generation = reply.generation
    /\ \/ reply.operation = "registerHosting"  /\ c.waiting \in {"registration", "recovery"}
       \/ reply.operation = "heartbeatHosting" /\ c.waiting = "heartbeat"

HandleReply ==
    LET reply == Head(replies)
        w     == reply.window
    IN  /\ replies # <<>>
        /\ replies' = Tail(replies)
        /\ \/ /\ ~AwaitedBy(reply, hosting[w])
              /\ UNCHANGED <<nextGeneration, hosting, requests>>
           \/ /\ AwaitedBy(reply, hosting[w]) /\ reply.ok
              /\ hosting' = [hosting EXCEPT ![w].waiting =
                                IF @ = "recovery" THEN "automation" ELSE "nothing"]
              /\ UNCHANGED <<nextGeneration, requests>>
           \/ /\ AwaitedBy(reply, hosting[w]) /\ ~reply.ok
              /\ CASE hosting[w].waiting = "registration" ->
                           StopHosting(w) /\ UNCHANGED nextGeneration
                   [] hosting[w].waiting = "heartbeat" -> Recover(w)
                   [] hosting[w].waiting = "recovery" ->
                           /\ hosting' = [hosting EXCEPT ![w].waiting = "nothing"]
                           /\ UNCHANGED <<nextGeneration, requests>>
        /\ UNCHANGED <<placements, claims, lapsed, highest, entries>>

\* startAutomation: the configuration was fetched, or not.
AutomationAnswers(w, ok) ==
    /\ hosting[w].waiting = "automation"
    /\ hosting' = [hosting EXCEPT ![w].waiting = "nothing", ![w].recoveryPending = ~ok]
    /\ UNCHANGED <<placements, claims, lapsed, highest, entries, nextGeneration, requests, replies>>

\* restartNativeDesktop: every claim is stopped, the old service and its channel
\* are gone, whatever was under way on it, and the new one hosts nothing yet.
Restart ==
    /\ claims' = [w \in Window |-> None]
    /\ highest' = [w \in Window |-> None]
    /\ lapsed' = {}
    /\ placements' = Reconciled({})
    /\ hosting' = [w \in Window |-> NoClaim]
    /\ requests' = <<>>
    /\ replies' = <<>>
    /\ UNCHANGED <<entries, nextGeneration>>

-----------------------------------------------------------------------------
Next ==
    \/ Serve \/ Sweep \/ HandleReply \/ Restart
    \/ \E w \in Window : \/ LeaseLapses(w) \/ PlacementCreated(w) \/ PlacementRemoved(w)
                         \/ OpenWindow(w) \/ RefreshRenderer(w) \/ CloseWindow(w)
                         \/ StartHosting(w) \/ Tick(w)
                         \/ \E ok \in BOOLEAN : AutomationAnswers(w, ok)

Spec == Init /\ [][Next]_vars

-----------------------------------------------------------------------------
(* What the protocol guarantees.                                             *)

\* The durable placements and the claims in memory agree between any two
\* handlers, whichever of them threw half-way: a placement is hosted exactly
\* when its window is claimed.
HostedIffClaimed ==
    \A w \in Window : placements[w] # "removed" =>
                         (placements[w] = "hosted" <=> claims[w] # None)

\* Between recoveries, the service holds a window for the generation Electron
\* main believes it has, or for none: an earlier renderer's claim is never the
\* one a later renderer works under.
ClaimIsCurrent ==
    \A w \in Window :
        /\ hosting[w] # NoClaim /\ ~hosting[w].recoveryPending
        /\ hosting[w].waiting \in {"nothing", "heartbeat"}
        => claims[w] \in {None, hosting[w].generation}

-----------------------------------------------------------------------------
(* Liveness.  Both ends serve what they receive; the sweep and the claims'   *)
(* intervals run; a lease nobody can renew runs out.                         *)

Unrenewable(w) == hosting[w] = NoClaim \/ placements[w] = "removed"

Fairness ==
    /\ WF_vars(Serve) /\ WF_vars(HandleReply) /\ WF_vars(Sweep)
    /\ \A w \in Window : /\ WF_vars(Tick(w))
                         /\ WF_vars(\E ok \in BOOLEAN : AutomationAnswers(w, ok))
                         /\ WF_vars(LeaseLapses(w) /\ Unrenewable(w))

FairSpec == Spec /\ Fairness

\* The bound: a recovery that has no generation left to try.
OutOfGenerations(w) ==
    /\ hosting[w].recoveryPending /\ hosting[w].waiting = "nothing"
    /\ nextGeneration = MaxGeneration

\* As long as Electron main claims a window that has a placement, the window
\* is hosted again and again, through lapses, refused renewals and removed
\* placements of other windows.
ClaimedGetsHosted ==
    \A w \in Window :
        []<>(\/ hosting[w] = NoClaim
             \/ placements[w] \notin {"hosted", "unhosted"}
             \/ placements[w] = "hosted"
             \/ OutOfGenerations(w))

\* A window Electron main no longer claims does not stay hosted, even when its
\* release was refused.
AbandonedGetsReleased ==
    \A w \in Window : []<>(hosting[w] # NoClaim \/ placements[w] # "hosted")
=============================================================================
