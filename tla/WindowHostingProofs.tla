------------------------- MODULE WindowHostingProofs -------------------------
(* Proofs about the hosting protocol, for any windows and any number of      *)
(* generations: its types, the agreement of placements and claims, and that  *)
(* the service holds a window for Electron main's current claim or for none. *)
EXTENDS WindowHosting, TLAPS

\* The newest generation the service may have been asked to register for w.
Latest(w) == IF hosting[w] # NoClaim THEN hosting[w].generation
             ELSE IF entries[w] # None THEN entries[w] ELSE nextGeneration

\* Electron main saw the registration of w's current generation succeed.
Settled(w) == \/ hosting[w].waiting = "automation"
              \/ hosting[w].waiting \in {"nothing", "heartbeat"} /\ ~hosting[w].recoveryPending

\* What Electron main knows of its own generations.
IssuedInv ==
    \A w \in Window :
        /\ entries[w] <= nextGeneration
        /\ hosting[w].generation <= nextGeneration
        /\ hosting[w].waiting = "registration" => hosting[w].generation = entries[w]
        /\ hosting[w].waiting = "recovery" => hosting[w].recoveryPending

\* No request asks for more than the newest generation.
RequestsInv ==
    \A i \in DOMAIN requests :
        requests[i].operation = "registerHosting" =>
            requests[i].generation <= Latest(requests[i].window)

\* A generation whose registration was granted is not below the highest.
RepliesInv ==
    \A i \in DOMAIN replies :
        replies[i].operation = "registerHosting" /\ replies[i].ok =>
            replies[i].generation <= highest[replies[i].window]

\* The highest generation lies between the one Electron main saw granted and
\* the newest it may have asked for.
HighestInv ==
    \A w \in Window : /\ highest[w] <= Latest(w)
                      /\ claims[w] \in {None, highest[w]}
                      /\ Settled(w) => hosting[w].generation <= highest[w]

GenerationInv == RequestsInv /\ RepliesInv /\ HighestInv

IInv == TypeOK /\ HostedIffClaimed /\ IssuedInv /\ GenerationInv

-----------------------------------------------------------------------------
(* Sequences.                                                                *)

\* What Append adds.
LEMMA Appended ==
    ASSUME NEW S, NEW s \in Seq(S), NEW e \in S
    PROVE  /\ Append(s, e) \in Seq(S)
           /\ \A i \in DOMAIN Append(s, e) :
                 (i \in DOMAIN s /\ Append(s, e)[i] = s[i]) \/ Append(s, e)[i] = e
  OBVIOUS

\* What Tail leaves.
LEMMA Shifted ==
    ASSUME NEW S, NEW s \in Seq(S), s # <<>>
    PROVE  /\ Head(s) \in S /\ 1 \in DOMAIN s /\ Head(s) = s[1]
           /\ Tail(s) \in Seq(S)
           /\ \A i \in DOMAIN Tail(s) : i + 1 \in DOMAIN s /\ Tail(s)[i] = s[i + 1]
  OBVIOUS

\* What a sequence holds.
LEMMA Indexed ==
    ASSUME NEW S, NEW s \in Seq(S)
    PROVE  \A i \in DOMAIN s : s[i] \in S
  OBVIOUS

-----------------------------------------------------------------------------
(* The service's handlers.                                                   *)

\* The outcome every successful handler has: exactly the claims of the windows
\* in W remain, with generations g, and they are written.
Holds(W, g) ==
    /\ claims' = [w \in Window |-> IF w \in W THEN g[w] ELSE None]
    /\ placements' = Reconciled(W)
    /\ lapsed' = {}

\* Writing reconcilable claims makes placements and claims agree.
LEMMA HoldsAgrees ==
    ASSUME TypeOK, NEW W \in SUBSET Window, NEW g \in [Window -> Generation \cup {None}],
           Reconcilable(W), \A w \in W : g[w] # None, Holds(W, g)
    PROVE  /\ claims' \in [Window -> Generation \cup {None}]
           /\ placements' \in [Window -> Placement]
           /\ lapsed' \subseteq Claimed'
           /\ HostedIffClaimed'
  BY DEF TypeOK, Reconcilable, Reconciled, Holds, HostedIffClaimed, Placement, Claimed

\* Expire keeps the agreement and invents no claim.
LEMMA ExpireAgrees ==
    ASSUME TypeOK, HostedIffClaimed, Expire, ~ExpireThrows
    PROVE  /\ claims' \in [Window -> Generation \cup {None}]
           /\ placements' \in [Window -> Placement]
           /\ lapsed' \subseteq Claimed'
           /\ HostedIffClaimed'
           /\ \A w \in Window : claims'[w] \in {None, claims[w]}
<1>1. \A w \in Window : claims'[w] \in {None, claims[w]}
  BY DEF TypeOK, Expire
<1>2. CASE lapsed = {}
  BY <1>2 DEF TypeOK, Expire, HostedIffClaimed, Kept, Claimed
<1>3. CASE lapsed # {}
  <2>1. Reconcilable(Kept) /\ Holds(Kept, claims)
    BY <1>3 DEF ExpireThrows, Expire, Holds
  <2>2. Kept \in SUBSET Window /\ \A w \in Kept : claims[w] # None
    BY DEF Kept, Claimed
  <2>3. QED
    BY <1>1, <2>1, <2>2, HoldsAgrees DEF TypeOK
<1>4. QED
  BY <1>2, <1>3

\* What a handler of the service leaves, whatever it did.
ServiceStep ==
    /\ claims' \in [Window -> Generation \cup {None}]
    /\ highest' \in [Window -> Generation \cup {None}]
    /\ placements' \in [Window -> Placement]
    /\ lapsed' \subseteq Claimed'
    /\ HostedIffClaimed'
    /\ \A w \in Window : /\ highest[w] <= highest'[w]
                         /\ highest'[w] <= Latest(w)
                         /\ claims'[w] \in {None, highest'[w]}

\* The part of the invariant the handlers rely on.
LEMMA ServiceFacts ==
    ASSUME IInv
    PROVE  /\ TypeOK /\ HostedIffClaimed
           /\ claims \in [Window -> Generation \cup {None}]
           /\ highest \in [Window -> Generation \cup {None}]
           /\ \A v \in Window : /\ highest[v] \in Nat /\ claims[v] \in Nat
                                /\ hosting[v].generation \in Nat /\ entries[v] \in Nat
                                /\ Latest(v) \in Nat
                                /\ highest[v] <= Latest(v) /\ claims[v] \in {None, highest[v]}
           /\ nextGeneration \in Nat
           /\ Kept \in SUBSET Window /\ \A v \in Kept : claims[v] # None
<1>1. TypeOK /\ HostedIffClaimed /\ GenerationInv
  BY DEF IInv
<1>2. \A v \in Window : /\ highest[v] \in Nat /\ claims[v] \in Nat
                        /\ hosting[v].generation \in Nat /\ entries[v] \in Nat
  BY <1>1, GenerationAssumption DEF TypeOK, Generation, None, Claim, NoClaim
<1>3. nextGeneration \in Nat
  BY <1>1, GenerationAssumption DEF TypeOK
<1>4. \A v \in Window : Latest(v) \in Nat
  BY <1>2, <1>3 DEF Latest
<1>5. Kept \in SUBSET Window /\ \A v \in Kept : claims[v] # None
  BY DEF Kept, Claimed
<1>6. QED
  BY <1>1, <1>2, <1>3, <1>4, <1>5 DEF TypeOK, GenerationInv, HighestInv

\* A registration that is granted claims what was asked.
LEMMA RegisterStep ==
    ASSUME IInv, NEW w \in Window, NEW g \in Generation, g <= Latest(w),
           Registrable(w, g), Register(w, g)
    PROVE  ServiceStep /\ g <= highest'[w]
<1> DEFINE kept == [claims EXCEPT ![w] = g]
<1>1. Holds(Kept \cup {w}, kept) /\ Reconcilable(Kept \cup {w})
  BY ServiceFacts DEF Registrable, Register, Grant, Holds
<1>2. /\ kept \in [Window -> Generation \cup {None}]
      /\ \A v \in Kept \cup {w} : kept[v] # None
      /\ Kept \cup {w} \in SUBSET Window
  BY ServiceFacts DEF Generation, None
<1>3. /\ claims' \in [Window -> Generation \cup {None}]
      /\ placements' \in [Window -> Placement]
      /\ lapsed' \subseteq Claimed'
      /\ HostedIffClaimed'
  <2> HIDE DEF kept
  <2>1. QED
    BY ServiceFacts, <1>1, <1>2, HoldsAgrees
<1>4. g \in Nat /\ g >= highest[w] /\ highest' = [highest EXCEPT ![w] = g]
  BY ServiceFacts, GenerationAssumption DEF Registrable, Register, Generation
<1>5. \A v \in Window : claims'[v] \in {None, IF v = w THEN g ELSE claims[v]}
  BY ServiceFacts, <1>1 DEF Holds
<1>6. \A v \in Window : highest'[v] = IF v = w THEN g ELSE highest[v]
  BY ServiceFacts, <1>4
<1>7. \A v \in Window : /\ highest[v] <= highest'[v]
                        /\ highest'[v] <= Latest(v)
                        /\ claims'[v] \in {None, highest'[v]}
  BY ServiceFacts, <1>4, <1>5, <1>6
<1>8. highest' \in [Window -> Generation \cup {None}]
  BY ServiceFacts, <1>4
<1>9. QED
  BY <1>3, <1>4, <1>6, <1>7, <1>8 DEF ServiceStep

\* A handler that only keeps claims, and writes those it kept.
LEMMA KeepingStep ==
    ASSUME IInv, NEW W \in SUBSET Kept, Reconcilable(W), Holds(W, claims), UNCHANGED highest
    PROVE  ServiceStep
<1>1. W \in SUBSET Window /\ \A v \in W : claims[v] # None
  BY ServiceFacts
<1>2. /\ claims' \in [Window -> Generation \cup {None}]
      /\ placements' \in [Window -> Placement]
      /\ lapsed' \subseteq Claimed'
      /\ HostedIffClaimed'
  BY ServiceFacts, <1>1, HoldsAgrees
<1>3. \A v \in Window : claims'[v] \in {None, claims[v]}
  BY DEF Holds
<1>4. QED
  BY ServiceFacts, <1>2, <1>3 DEF ServiceStep

LEMMA HeartbeatStep ==
    ASSUME IInv, NEW w \in Window, NEW g \in Generation, Renewable(w, g), Heartbeat(w, g)
    PROVE  ServiceStep
<1>1. Kept \in SUBSET Kept /\ Reconcilable(Kept) /\ UNCHANGED highest
  BY DEF Renewable, Heartbeat
<1>2. Holds(Kept, claims)
  <2>1. w \in Kept /\ claims[w] = g /\ Kept \cup {w} = Kept
    BY DEF Renewable
  <2>2. QED
    BY <2>1 DEF Heartbeat, Grant, Holds
<1>3. QED
  BY <1>1, <1>2, KeepingStep

LEMMA RevokeStep ==
    ASSUME IInv, NEW w \in Window, NEW g \in Generation,
           Reconcilable(Remaining(w, g)), Revoke(w, g)
    PROVE  ServiceStep
<1>1. Remaining(w, g) \in SUBSET Kept
  BY DEF Remaining
<1>2. Holds(Remaining(w, g), claims) /\ UNCHANGED highest
  BY DEF Revoke, Holds
<1>3. QED
  BY <1>1, <1>2, KeepingStep

\* expire(), or the exception it ends with.
LEMMA ExpireStep ==
    ASSUME IInv, IF ExpireThrows THEN UNCHANGED service ELSE Expire
    PROVE  ServiceStep
<1>1. CASE ExpireThrows
  <2>1. UNCHANGED service
    BY <1>1
  <2>2. UNCHANGED <<Claimed, HostedIffClaimed>>
    BY <2>1 DEF service, Claimed, HostedIffClaimed
  <2>3. QED
    BY ServiceFacts, <2>1, <2>2 DEF service, ServiceStep, TypeOK
<1>2. CASE ~ExpireThrows
  <2>1. UNCHANGED highest /\ Expire
    BY <1>2 DEF Expire
  <2>2. QED
    BY ServiceFacts, <1>2, <2>1, ExpireAgrees DEF ServiceStep
<1>3. QED
  BY <1>1, <1>2

\* A request, granted or refused: the service stays consistent, and what it
\* registers is what was asked.
LEMMA ServeKeepsService ==
    ASSUME IInv, Serve
    PROVE  /\ ServiceStep
           /\ \E ok \in BOOLEAN :
                 /\ Answer(ok)
                 /\ ok /\ Head(requests).operation = "registerHosting" =>
                       Head(requests).generation <= highest'[Head(requests).window]
<1>1. requests \in Seq(Request) /\ requests # <<>>
  BY DEF IInv, TypeOK, Serve
<1>2. Head(requests) \in Request /\ 1 \in DOMAIN requests /\ Head(requests) = requests[1]
  BY <1>1, Shifted
<1>3. PICK r \in Request : r = Head(requests)
  BY <1>2
<1>4. /\ r.window \in Window /\ r.generation \in Generation /\ r.operation \in Operation
  BY DEF Request
<1>5. r.operation = "registerHosting" => r.generation <= Latest(r.window)
  BY <1>2, <1>3 DEF IInv, GenerationInv, RequestsInv
<1>6. \/ /\ Granted(r) /\ Answer(TRUE)
         /\ CASE r.operation = "registerHosting"  -> Register(r.window, r.generation)
              [] r.operation = "heartbeatHosting" -> Heartbeat(r.window, r.generation)
              [] r.operation = "revokeHosting"    -> Revoke(r.window, r.generation)
      \/ /\ ~Granted(r) /\ Answer(FALSE)
         /\ IF ExpireThrows THEN UNCHANGED service ELSE Expire
  BY <1>3 DEF Serve
<1>7. CASE Granted(r) /\ r.operation = "registerHosting" /\ Answer(TRUE)
           /\ Register(r.window, r.generation)
  <2>1. Registrable(r.window, r.generation)
    BY <1>7 DEF Granted
  <2>2. ServiceStep /\ r.generation <= highest'[r.window]
    BY <1>4, <1>5, <1>7, <2>1, RegisterStep
  <2>3. QED
    BY <1>3, <1>7, <2>2
<1>8. CASE Granted(r) /\ r.operation = "heartbeatHosting" /\ Answer(TRUE)
           /\ Heartbeat(r.window, r.generation)
  <2>1. Renewable(r.window, r.generation)
    BY <1>8 DEF Granted
  <2>2. ServiceStep
    BY <1>4, <1>8, <2>1, HeartbeatStep
  <2>3. QED
    BY <1>3, <1>8, <2>2
<1>9. CASE Granted(r) /\ r.operation = "revokeHosting" /\ Answer(TRUE)
           /\ Revoke(r.window, r.generation)
  <2>1. Reconcilable(Remaining(r.window, r.generation))
    BY <1>9 DEF Granted
  <2>2. ServiceStep
    BY <1>4, <1>9, <2>1, RevokeStep
  <2>3. QED
    BY <1>3, <1>9, <2>2
<1>10. CASE Answer(FALSE) /\ IF ExpireThrows THEN UNCHANGED service ELSE Expire
  BY <1>10, ExpireStep
<1>11. \/ r.operation = "registerHosting"
       \/ r.operation = "heartbeatHosting"
       \/ r.operation = "revokeHosting"
  BY <1>4 DEF Operation
<1>12. QED
  BY <1>6, <1>7, <1>8, <1>9, <1>10, <1>11

-----------------------------------------------------------------------------
(* What carries the generations from step to step.                           *)

\* A request that is served leaves the requests behind it and adds an answer.
LEMMA ServeKeepsGenerations ==
    ASSUME IInv, Serve
    PROVE  GenerationInv' /\ requests' \in Seq(Request) /\ replies' \in Seq(Reply)
<1>1. requests \in Seq(Request) /\ requests # <<>> /\ replies \in Seq(Reply)
  BY DEF IInv, TypeOK, Serve
<1>2. UNCHANGED electron
  BY DEF Serve
<1>3. PICK ok \in BOOLEAN :
         /\ Answer(ok)
         /\ ok /\ Head(requests).operation = "registerHosting" =>
               Head(requests).generation <= highest'[Head(requests).window]
  BY ServeKeepsService
<1>4. PICK r \in Request : r = Head(requests)
  BY <1>1, Shifted
<1>5. PICK a \in Reply :
         /\ a = [operation |-> r.operation, window |-> r.window,
                 generation |-> r.generation, ok |-> ok]
         /\ requests' = Tail(requests) /\ replies' = Append(replies, a)
  BY <1>3, <1>4 DEF Answer, Request, Reply
<1>6. a.operation = "registerHosting" /\ a.ok => a.generation <= highest'[a.window]
  BY <1>3, <1>4, <1>5
<1>7. /\ requests' \in Seq(Request)
      /\ \A i \in DOMAIN requests' : i + 1 \in DOMAIN requests /\ requests'[i] = requests[i + 1]
  BY <1>1, <1>5, Shifted
<1>8. /\ replies' \in Seq(Reply)
      /\ \A i \in DOMAIN replies' :
            (i \in DOMAIN replies /\ replies'[i] = replies[i]) \/ replies'[i] = a
  BY <1>1, <1>5, Appended
<1>9. RequestsInv'
  BY <1>2, <1>7 DEF electron, IInv, GenerationInv, RequestsInv, Latest
<1>10. RepliesInv'
  <2>1. \A i \in DOMAIN replies : replies[i].window \in Window /\ replies[i].generation \in Nat
    <3>1. \A m \in Reply : m.window \in Window /\ m.generation \in Nat
      BY GenerationAssumption DEF Reply, Generation
    <3>2. QED
      BY <1>1, <3>1, Indexed
  <2>2. \A w \in Window : highest[w] \in Nat /\ highest'[w] \in Nat /\ highest[w] <= highest'[w]
    BY ServiceFacts, ServeKeepsService, GenerationAssumption DEF ServiceStep, Generation, None
  <2>3. QED
    BY <1>6, <1>8, <2>1, <2>2 DEF IInv, GenerationInv, RepliesInv
<1>11. HighestInv'
  <2>1. \A w \in Window : /\ highest'[w] \in Nat /\ highest[w] \in Nat
                          /\ hosting[w].generation \in Nat
    BY ServiceFacts, ServeKeepsService, GenerationAssumption DEF ServiceStep, Generation, None
  <2>2. QED
    BY <1>2, <2>1, ServeKeepsService
       DEF electron, IInv, GenerationInv, HighestInv, ServiceStep, Latest, Settled
<1>12. QED
  BY <1>7, <1>8, <1>9, <1>10, <1>11 DEF GenerationInv

\* A step of Electron main that lowers no window's newest generation, asks for
\* no more than it, and settles only on what was granted.
Issues ==
    /\ \A w \in Window : /\ Latest(w)' \in Nat /\ Latest(w) <= Latest(w)'
                         /\ Settled(w)' => hosting'[w].generation <= highest[w]
    /\ \/ requests' = requests
       \/ \E m \in Request : /\ requests' = Append(requests, m)
                             /\ m.operation = "registerHosting" =>
                                    m.generation <= Latest(m.window)'
    /\ replies' = replies \/ (replies # <<>> /\ replies' = Tail(replies))

LEMMA IssuesKeepsGenerations ==
    ASSUME IInv, UNCHANGED service, Issues
    PROVE  GenerationInv' /\ requests' \in Seq(Request) /\ replies' \in Seq(Reply)
<1>1. requests \in Seq(Request) /\ replies \in Seq(Reply)
  BY DEF IInv, TypeOK
<1>2. replies' \in Seq(Reply) /\ RepliesInv'
  <2>1. CASE replies' = replies
    BY <1>1, <2>1 DEF service, IInv, GenerationInv, RepliesInv
  <2>2. CASE replies # <<>> /\ replies' = Tail(replies)
    <3>1. /\ replies' \in Seq(Reply)
          /\ \A i \in DOMAIN replies' : i + 1 \in DOMAIN replies /\ replies'[i] = replies[i + 1]
      BY <1>1, <2>2, Shifted
    <3>2. QED
      BY <3>1 DEF service, IInv, GenerationInv, RepliesInv
  <2>3. QED
    BY <2>1, <2>2 DEF Issues
<1>3. \A i \in DOMAIN requests : requests[i].window \in Window /\ requests[i].generation \in Nat
  <2>1. \A m \in Request : m.window \in Window /\ m.generation \in Nat
    BY GenerationAssumption DEF Request, Generation
  <2>2. QED
    BY <1>1, <2>1, Indexed
<1>4. requests' \in Seq(Request) /\ RequestsInv'
  <2>1. \A w \in Window : Latest(w) \in Nat /\ Latest(w)' \in Nat /\ Latest(w) <= Latest(w)'
    BY ServiceFacts DEF Issues
  <2>2. CASE requests' = requests
    BY <1>1, <1>3, <2>1, <2>2 DEF IInv, GenerationInv, RequestsInv, Latest
  <2>3. ASSUME NEW m \in Request, requests' = Append(requests, m),
               m.operation = "registerHosting" => m.generation <= Latest(m.window)'
        PROVE  requests' \in Seq(Request) /\ RequestsInv'
    <3>1. /\ requests' \in Seq(Request)
          /\ \A i \in DOMAIN requests' :
                (i \in DOMAIN requests /\ requests'[i] = requests[i]) \/ requests'[i] = m
      BY <1>1, <2>3, Appended
    <3>2. QED
      BY <1>3, <2>1, <2>3, <3>1 DEF IInv, GenerationInv, RequestsInv, Latest
  <2>4. QED
    BY <2>2, <2>3 DEF Issues
<1>5. HighestInv'
  <2>1. \A w \in Window : highest[w] \in Nat /\ Latest(w) \in Nat /\ highest[w] <= Latest(w)
    BY ServiceFacts
  <2>2. QED
    BY <2>1 DEF Issues, service, IInv, GenerationInv, HighestInv
<1>6. QED
  BY <1>2, <1>4, <1>5 DEF GenerationInv

-----------------------------------------------------------------------------
(* The steps of Electron main: each keeps its types and what it knows of its *)
(* generations, and issues no request it may not.                            *)

\* What a step of Electron main has to show.
ElectronOK ==
    /\ entries' \in [Window -> Generation \cup {None}]
    /\ nextGeneration' \in 0 .. MaxGeneration
    /\ hosting' \in [Window -> Claim \cup {NoClaim}]
    /\ IssuedInv'
    /\ Issues

\* Changing the claim of one window.
LEMMA ClaimSet ==
    ASSUME IInv, NEW w \in Window, NEW c \in Claim \cup {NoClaim},
           hosting' = [hosting EXCEPT ![w] = c]
    PROVE  /\ hosting' \in [Window -> Claim \cup {NoClaim}]
           /\ hosting'[w] = c
           /\ \A v \in Window \ {w} : hosting'[v] = hosting[v]
  BY DEF IInv, TypeOK

\* The fields of a claim.
LEMMA ClaimFields ==
    ASSUME NEW c \in Claim \cup {NoClaim}
    PROVE  /\ c # NoClaim => c \in Claim
           /\ c \in Claim => c # NoClaim /\ c.generation \in Generation
           /\ c.generation \in Nat /\ c.waiting \in Waiting /\ c.recoveryPending \in BOOLEAN
           /\ c = NoClaim => c.generation = None /\ c.waiting = "nothing"
<1>1. CASE c \in Claim
  <2>1. c.generation \in Generation /\ c.waiting \in Waiting /\ c.recoveryPending \in BOOLEAN
    BY <1>1 DEF Claim
  <2>2. c.generation \in Nat /\ c.generation # NoClaim.generation
    BY <2>1, GenerationAssumption DEF Generation, NoClaim, None
  <2>3. QED
    BY <1>1, <2>1, <2>2
<1>2. CASE c = NoClaim
  <2>1. c \notin Claim
    BY <1>2 DEF Claim, NoClaim, Generation, None
  <2>2. QED
    BY <1>2, <2>1 DEF NoClaim, None, Waiting
<1>3. QED
  BY <1>1, <1>2

\* The generations in play are ordered numbers.
LEMMA IssuedFacts ==
    ASSUME IInv
    PROVE  /\ nextGeneration \in 0 .. MaxGeneration /\ nextGeneration \in Nat
           /\ MaxGeneration \in Nat
           /\ entries \in [Window -> Generation \cup {None}]
           /\ hosting \in [Window -> Claim \cup {NoClaim}]
           /\ \A v \in Window :
                 /\ hosting[v] \in Claim \cup {NoClaim}
                 /\ hosting[v].generation \in Nat /\ entries[v] \in Nat /\ highest[v] \in Nat
                 /\ hosting[v].generation <= nextGeneration /\ entries[v] <= nextGeneration
                 /\ hosting[v].waiting = "registration" => hosting[v].generation = entries[v]
                 /\ hosting[v].waiting = "recovery" => hosting[v].recoveryPending
                 /\ Settled(v) => hosting[v].generation <= highest[v]
  BY ServiceFacts, GenerationAssumption DEF IInv, TypeOK, IssuedInv, GenerationInv, HighestInv

\* A request of Electron main is one.
LEMMA Messages ==
    ASSUME NEW op \in Operation, NEW w \in Window, NEW g \in Generation
    PROVE  /\ Message(op, w, g) \in Request
           /\ Message(op, w, g).operation = op
           /\ Message(op, w, g).window = w
           /\ Message(op, w, g).generation = g
  BY DEF Message, Request

LEMMA OpenWindowOK ==
    ASSUME IInv, NEW w \in Window, OpenWindow(w)
    PROVE  ElectronOK /\ UNCHANGED service
<1>1. /\ entries' \in [Window -> Generation \cup {None}]
      /\ nextGeneration' \in 0 .. MaxGeneration
      /\ \A v \in Window : entries'[v] = IF v = w THEN nextGeneration + 1 ELSE entries[v]
      /\ nextGeneration' = nextGeneration + 1 /\ hosting' = hosting
      /\ requests' = requests /\ replies' = replies /\ entries[w] = None
  BY IssuedFacts DEF OpenWindow, Generation
<1>2. hosting[w].waiting # "registration"
  BY IssuedFacts, ClaimFields, <1>1, GenerationAssumption DEF Generation, None
<1>3. IssuedInv'
  BY IssuedFacts, <1>1, <1>2 DEF IssuedInv
<1>4. Issues
  BY IssuedFacts, <1>1 DEF Issues, Latest, Settled, None
<1>5. QED
  BY IssuedFacts, <1>1, <1>3, <1>4 DEF ElectronOK, OpenWindow, service

\* stopNodeHostingForWindow: the claim goes, and at most its release is sent.
LEMMA StopHostingOK ==
    ASSUME IInv, NEW w \in Window, StopHosting(w)
    PROVE  /\ hosting' \in [Window -> Claim \cup {NoClaim}]
           /\ hosting'[w] = NoClaim
           /\ \A v \in Window \ {w} : hosting'[v] = hosting[v]
           /\ \/ requests' = requests
              \/ \E m \in Request : requests' = Append(requests, m)
                                    /\ m.operation # "registerHosting"
<1>1. hosting' = [hosting EXCEPT ![w] = NoClaim]
  BY DEF StopHosting
<1>2. CASE hosting[w] = NoClaim
  BY <1>1, <1>2, ClaimSet DEF StopHosting
<1>3. CASE hosting[w] # NoClaim
  <2>1. hosting[w].generation \in Generation
    BY <1>3, IssuedFacts, ClaimFields
  <2>2. requests' = Append(requests, Message("revokeHosting", w, hosting[w].generation))
    BY <1>3 DEF StopHosting
  <2>3. "revokeHosting" \in Operation /\ "revokeHosting" # "registerHosting"
    BY DEF Operation
  <2>4. QED
    BY <1>1, <2>1, <2>2, <2>3, ClaimSet, Messages
<1>4. QED
  BY <1>2, <1>3

LEMMA RefreshRendererOK ==
    ASSUME IInv, NEW w \in Window, RefreshRenderer(w)
    PROVE  ElectronOK /\ UNCHANGED service
<1>1. /\ entries' \in [Window -> Generation \cup {None}]
      /\ nextGeneration' \in 0 .. MaxGeneration
      /\ \A v \in Window : entries'[v] = IF v = w THEN nextGeneration + 1 ELSE entries[v]
      /\ nextGeneration' = nextGeneration + 1 /\ replies' = replies
  BY IssuedFacts DEF RefreshRenderer, Generation
<1>2. StopHosting(w)
  BY DEF RefreshRenderer
<1>3. NoClaim.generation = 0 /\ NoClaim.waiting = "nothing"
  BY DEF NoClaim, None
<1>4. IssuedInv'
  BY IssuedFacts, StopHostingOK, <1>1, <1>2, <1>3 DEF IssuedInv
<1>5. Issues
  BY IssuedFacts, StopHostingOK, <1>1, <1>2, <1>3 DEF Issues, Latest, Settled, None
<1>6. QED
  BY StopHostingOK, <1>1, <1>2, <1>4, <1>5 DEF ElectronOK, RefreshRenderer, service

LEMMA CloseWindowOK ==
    ASSUME IInv, NEW w \in Window, CloseWindow(w)
    PROVE  ElectronOK /\ UNCHANGED service
<1>1. /\ entries' \in [Window -> Generation \cup {None}]
      /\ \A v \in Window : entries'[v] = IF v = w THEN None ELSE entries[v]
      /\ nextGeneration' = nextGeneration /\ replies' = replies
  BY IssuedFacts DEF CloseWindow
<1>2. StopHosting(w)
  BY DEF CloseWindow
<1>3. NoClaim.generation = 0 /\ NoClaim.waiting = "nothing"
  BY DEF NoClaim, None
<1>4. IssuedInv'
  BY IssuedFacts, StopHostingOK, <1>1, <1>2, <1>3 DEF IssuedInv, None
<1>5. Issues
  BY IssuedFacts, StopHostingOK, <1>1, <1>2, <1>3 DEF Issues, Latest, Settled, None
<1>6. QED
  BY IssuedFacts, StopHostingOK, <1>1, <1>2, <1>4, <1>5 DEF ElectronOK, CloseWindow, service

LEMMA StartHostingOK ==
    ASSUME IInv, NEW w \in Window, StartHosting(w)
    PROVE  ElectronOK /\ UNCHANGED service
<1> DEFINE c == [generation |-> entries[w], waiting |-> "registration",
                 recoveryPending |-> FALSE]
           m == Message("registerHosting", w, entries[w])
<1>1. /\ entries' = entries /\ nextGeneration' = nextGeneration /\ replies' = replies
      /\ UNCHANGED service
      /\ hosting' = [hosting EXCEPT ![w] = c] /\ requests' = Append(requests, m)
      /\ entries[w] # None /\ hosting[w] = NoClaim
  BY DEF StartHosting, service
<1>2. entries[w] \in Generation
  BY <1>1, IssuedFacts
<1>3. /\ c \in Claim /\ c # NoClaim /\ c.generation = entries[w]
      /\ c.waiting = "registration"
  BY <1>2 DEF Claim, Waiting, NoClaim
<1>4. /\ m \in Request /\ m.operation = "registerHosting"
      /\ m.window = w /\ m.generation = entries[w]
  BY <1>2, Messages DEF Operation
<1> HIDE DEF c, m
<1>5. /\ hosting' \in [Window -> Claim \cup {NoClaim}]
      /\ hosting'[w] = c
      /\ \A v \in Window \ {w} : hosting'[v] = hosting[v]
  BY <1>1, <1>3, ClaimSet
<1>6. IssuedInv'
  BY IssuedFacts, <1>1, <1>3, <1>5 DEF IssuedInv
<1>7. Issues
  BY IssuedFacts, <1>1, <1>3, <1>4, <1>5 DEF Issues, Latest, Settled
<1>8. QED
  BY IssuedFacts, <1>1, <1>5, <1>6, <1>7 DEF ElectronOK

\* A claim that only waits for something else, and is not settled by it unless
\* its generation was granted.
LEMMA WaitingOK ==
    ASSUME IInv, NEW w \in Window, hosting[w] \in Claim,
           NEW x \in Waiting \ {"registration"}, NEW p \in BOOLEAN,
           hosting' = [hosting EXCEPT ![w] = [hosting[w] EXCEPT !.waiting = x,
                                                                 !.recoveryPending = p]],
           x = "recovery" => p,
           \/ x # "automation" /\ p
           \/ hosting[w].generation <= highest[w],
           UNCHANGED <<entries, nextGeneration>>,
           \/ requests' = requests
           \/ \E m \in Request : requests' = Append(requests, m)
                                 /\ m.operation # "registerHosting",
           replies' = replies \/ (replies # <<>> /\ replies' = Tail(replies))
    PROVE  ElectronOK
<1>1. PICK c \in Claim : /\ hosting' = [hosting EXCEPT ![w] = c]
                         /\ c.generation = hosting[w].generation
                         /\ c.waiting = x /\ c.recoveryPending = p
  <2> DEFINE d == [hosting[w] EXCEPT !.waiting = x, !.recoveryPending = p]
  <2>1. /\ d \in Claim /\ d.generation = hosting[w].generation
        /\ d.waiting = x /\ d.recoveryPending = p
    BY DEF Claim
  <2>2. hosting' = [hosting EXCEPT ![w] = d]
    OBVIOUS
  <2> HIDE DEF d
  <2>3. QED
    BY <2>1, <2>2
<1>2. /\ hosting' \in [Window -> Claim \cup {NoClaim}]
      /\ hosting'[w] = c
      /\ \A v \in Window \ {w} : hosting'[v] = hosting[v]
  BY <1>1, ClaimSet
<1>3. c # NoClaim /\ hosting[w] # NoClaim
  BY <1>1, ClaimFields
<1>4. IssuedInv'
  BY IssuedFacts, <1>1, <1>2 DEF IssuedInv
<1>5. Issues
  BY IssuedFacts, <1>1, <1>2, <1>3 DEF Issues, Latest, Settled
<1>6. QED
  BY IssuedFacts, <1>2, <1>4, <1>5 DEF ElectronOK

\* recoverNodeWindowHosting: the generation is fresh, so it is the newest.
LEMMA RecoverOK ==
    ASSUME IInv, NEW w \in Window, hosting[w] \in Claim, Recover(w), UNCHANGED entries,
           replies' = replies \/ (replies # <<>> /\ replies' = Tail(replies))
    PROVE  ElectronOK
<1>1. CASE /\ nextGeneration < MaxGeneration
           /\ nextGeneration' = nextGeneration + 1
           /\ hosting' = [hosting EXCEPT ![w] = [generation |-> nextGeneration + 1,
                                                 waiting |-> "recovery", recoveryPending |-> TRUE]]
           /\ requests' = Append(requests, Message("registerHosting", w, nextGeneration + 1))
  <2> DEFINE g == nextGeneration + 1
             c == [generation |-> g, waiting |-> "recovery", recoveryPending |-> TRUE]
             m == Message("registerHosting", w, g)
  <2>1. g \in Generation /\ g \in Nat /\ g = nextGeneration + 1 /\ g \in 0 .. MaxGeneration
    BY <1>1, IssuedFacts DEF Generation
  <2>2. /\ nextGeneration' = g /\ requests' = Append(requests, m)
        /\ hosting' = [hosting EXCEPT ![w] = c]
    BY <1>1
  <2>3. /\ c \in Claim /\ c.generation = g /\ c.waiting = "recovery" /\ c.recoveryPending
    BY <2>1 DEF Claim, Waiting
  <2>4. /\ m \in Request /\ m.operation = "registerHosting"
        /\ m.window = w /\ m.generation = g
    BY <2>1, Messages DEF Operation
  <2> HIDE DEF g, c, m
  <2>5. /\ hosting' \in [Window -> Claim \cup {NoClaim}]
        /\ hosting'[w] = c
        /\ \A v \in Window \ {w} : hosting'[v] = hosting[v]
    BY <2>2, <2>3, ClaimSet
  <2>6. c # NoClaim /\ hosting[w] # NoClaim
    BY <2>3, ClaimFields
  <2>7. IssuedInv'
    BY IssuedFacts, <2>1, <2>2, <2>3, <2>5 DEF IssuedInv
  <2>8. Issues
    BY IssuedFacts, <2>1, <2>2, <2>3, <2>4, <2>5, <2>6 DEF Issues, Latest, Settled
  <2>9. QED
    BY IssuedFacts, <2>1, <2>2, <2>5, <2>7, <2>8 DEF ElectronOK
<1>2. CASE /\ nextGeneration = MaxGeneration
           /\ hosting' = [hosting EXCEPT ![w].waiting = "nothing", ![w].recoveryPending = TRUE]
           /\ UNCHANGED <<nextGeneration, requests>>
  <2>1. hosting' = [hosting EXCEPT ![w] = [hosting[w] EXCEPT !.waiting = "nothing",
                                                             !.recoveryPending = TRUE]]
    BY <1>2, IssuedFacts
  <2>2. "nothing" \in Waiting \ {"registration"} /\ "nothing" # "recovery" /\ TRUE \in BOOLEAN
    BY DEF Waiting
  <2>3. QED
    BY <1>2, <2>1, <2>2, WaitingOK
<1>3. QED
  BY <1>1, <1>2 DEF Recover

\* Setting only what a claim waits for.
LEMMA OnlyWaits ==
    ASSUME IInv, NEW w \in Window, hosting[w] \in Claim, NEW x
    PROVE  [hosting EXCEPT ![w].waiting = x] =
           [hosting EXCEPT ![w] = [hosting[w] EXCEPT !.waiting = x,
                                       !.recoveryPending = hosting[w].recoveryPending]]
<1>1. [hosting[w] EXCEPT !.waiting = x] =
      [hosting[w] EXCEPT !.waiting = x, !.recoveryPending = hosting[w].recoveryPending]
  BY DEF Claim
<1>2. QED
  BY <1>1

\* A heartbeat is only sent for a claim that is settled.
LEMMA TickOK ==
    ASSUME IInv, NEW w \in Window, Tick(w)
    PROVE  ElectronOK /\ UNCHANGED service
<1>1. /\ hosting[w] # NoClaim /\ hosting[w].waiting = "nothing"
      /\ entries' = entries /\ replies' = replies /\ UNCHANGED service
  BY DEF Tick, service
<1>2. hosting[w] \in Claim /\ hosting[w].generation \in Generation
      /\ hosting[w].recoveryPending \in BOOLEAN
  BY <1>1, IssuedFacts, ClaimFields
<1>3. CASE /\ ~hosting[w].recoveryPending
           /\ hosting' = [hosting EXCEPT ![w].waiting = "heartbeat"]
           /\ requests' = Append(requests, Message("heartbeatHosting", w, hosting[w].generation))
           /\ UNCHANGED nextGeneration
  <2>1. Settled(w) /\ hosting[w].generation <= highest[w]
    <3>1. Settled(w)
      BY <1>1, <1>3 DEF Settled
    <3>2. QED
      BY <3>1, IssuedFacts
  <2>2. \E m \in Request : requests' = Append(requests, m) /\ m.operation # "registerHosting"
    <3>1. "heartbeatHosting" \in Operation /\ "heartbeatHosting" # "registerHosting"
      BY DEF Operation
    <3>2. QED
      BY <1>2, <1>3, <3>1, Messages
  <2>3. "heartbeat" \in Waiting \ {"registration"} /\ "heartbeat" # "recovery"
    BY DEF Waiting
  <2>4. PICK p \in BOOLEAN : p = hosting[w].recoveryPending
    BY <1>2
  <2>5. hosting' = [hosting EXCEPT ![w] = [hosting[w] EXCEPT !.waiting = "heartbeat",
                                                             !.recoveryPending = p]]
    BY <1>2, <1>3, <2>4, OnlyWaits
  <2>6. UNCHANGED <<entries, nextGeneration>> /\ replies' = replies
    BY <1>1, <1>3
  <2>7. ElectronOK
    BY <1>2, <2>1, <2>2, <2>3, <2>5, <2>6, WaitingOK
  <2>8. QED
    BY <1>1, <2>7
<1>4. CASE Recover(w)
  BY <1>1, <1>2, <1>4, RecoverOK
<1>5. QED
  BY <1>1, <1>3, <1>4 DEF Tick

LEMMA AutomationAnswersOK ==
    ASSUME IInv, NEW w \in Window, NEW ok \in BOOLEAN, AutomationAnswers(w, ok)
    PROVE  ElectronOK /\ UNCHANGED service
<1>1. /\ hosting[w].waiting = "automation"
      /\ hosting' = [hosting EXCEPT ![w].waiting = "nothing", ![w].recoveryPending = ~ok]
      /\ UNCHANGED <<entries, nextGeneration>> /\ requests' = requests
      /\ replies' = replies /\ UNCHANGED service
  BY DEF AutomationAnswers, service
<1>2. hosting[w] \in Claim
  BY <1>1, IssuedFacts, ClaimFields
<1>3. hosting[w].generation <= highest[w]
  <2>1. Settled(w)
    BY <1>1 DEF Settled
  <2>2. QED
    BY <2>1, IssuedFacts
<1>4. PICK p \in BOOLEAN : p = ~ok
  OBVIOUS
<1>5. hosting' = [hosting EXCEPT ![w] = [hosting[w] EXCEPT !.waiting = "nothing",
                                                           !.recoveryPending = p]]
  BY <1>1, <1>4, IssuedFacts
<1>6. "nothing" \in Waiting \ {"registration"} /\ "nothing" # "recovery"
  BY DEF Waiting
<1>7. QED
  BY <1>1, <1>2, <1>3, <1>5, <1>6, WaitingOK

\* An answer: a claim settles only on the registration it waited for.
LEMMA HandleReplyOK ==
    ASSUME IInv, HandleReply
    PROVE  ElectronOK /\ UNCHANGED service
<1>1. /\ replies # <<>> /\ replies' = Tail(replies) /\ entries' = entries
      /\ UNCHANGED service /\ replies \in Seq(Reply)
  BY DEF HandleReply, service, IInv, TypeOK
<1>2. PICK reply \in Reply : reply = Head(replies) /\ reply = replies[1] /\ 1 \in DOMAIN replies
  BY <1>1, Shifted
<1>3. PICK w \in Window : w = reply.window
  BY DEF Reply
<1>4. reply.generation \in Generation /\ reply.generation # None /\ reply.ok \in BOOLEAN
  BY DEF Reply, Generation, None
<1>5. CASE ~AwaitedBy(reply, hosting[w]) /\ UNCHANGED <<nextGeneration, hosting, requests>>
  <2>1. UNCHANGED <<entries, nextGeneration, hosting, requests>>
    BY <1>1, <1>5
  <2>2. IssuedInv'
    BY IssuedFacts, <2>1 DEF IssuedInv
  <2>3. Issues
    BY IssuedFacts, <1>1, <2>1 DEF Issues, Latest, Settled
  <2>4. QED
    BY IssuedFacts, <1>1, <2>1, <2>2, <2>3 DEF ElectronOK
<1>6. ASSUME AwaitedBy(reply, hosting[w])
      PROVE  /\ hosting[w] \in Claim /\ hosting[w].recoveryPending \in BOOLEAN
             /\ hosting[w].generation = reply.generation
             /\ \/ /\ hosting[w].waiting \in {"registration", "recovery"}
                   /\ reply.operation = "registerHosting"
                \/ hosting[w].waiting = "heartbeat"
  <2>1. hosting[w].generation # None
    BY <1>4, <1>6 DEF AwaitedBy
  <2>2. hosting[w] \in Claim /\ hosting[w].recoveryPending \in BOOLEAN
    BY <2>1, IssuedFacts, ClaimFields
  <2>3. QED
    BY <1>6, <2>2 DEF AwaitedBy
<1>7. CASE /\ AwaitedBy(reply, hosting[w]) /\ reply.ok
           /\ hosting' = [hosting EXCEPT ![w].waiting =
                             IF @ = "recovery" THEN "automation" ELSE "nothing"]
           /\ UNCHANGED <<nextGeneration, requests>>
  <2>1. PICK p \in BOOLEAN : p = hosting[w].recoveryPending
    BY <1>6, <1>7
  <2>2. PICK x \in Waiting \ {"registration"} :
           x = IF hosting[w].waiting = "recovery" THEN "automation" ELSE "nothing"
    BY DEF Waiting
  <2>3. hosting' = [hosting EXCEPT ![w] = [hosting[w] EXCEPT !.waiting = x,
                                                             !.recoveryPending = p]]
    <3>1. hosting' = [hosting EXCEPT ![w].waiting = x]
      BY <1>7, <2>2
    <3>2. QED
      BY <1>6, <1>7, <2>1, <3>1, OnlyWaits
  <2>4. (x # "automation" /\ p) \/ hosting[w].generation <= highest[w]
    <3>1. CASE reply.operation = "registerHosting"
      BY <1>2, <1>3, <1>6, <1>7, <3>1 DEF IInv, GenerationInv, RepliesInv
    <3>2. CASE hosting[w].waiting = "heartbeat" /\ ~p
      <4>1. Settled(w)
        BY <2>1, <3>2 DEF Settled
      <4>2. QED
        BY <4>1, IssuedFacts
    <3>3. CASE hosting[w].waiting = "heartbeat" /\ p
      BY <2>2, <3>3
    <3>4. QED
      BY <1>6, <1>7, <3>1, <3>2, <3>3
  <2>5. UNCHANGED <<entries, nextGeneration>> /\ requests' = requests /\ x # "recovery"
    BY <1>1, <1>7, <2>2
  <2>6. hosting[w] \in Claim /\ replies # <<>> /\ replies' = Tail(replies)
    BY <1>1, <1>6, <1>7
  <2>7. ElectronOK
    BY <2>3, <2>4, <2>5, <2>6, WaitingOK
  <2>8. QED
    BY <1>1, <2>7
<1>8. CASE /\ AwaitedBy(reply, hosting[w]) /\ hosting[w].waiting = "registration"
           /\ StopHosting(w) /\ UNCHANGED nextGeneration
  <2>1. /\ hosting[w].generation = entries[w] /\ entries[w] # None
        /\ hosting[w] # NoClaim
    BY <1>4, <1>6, <1>8, IssuedFacts, ClaimFields
  <2>2. NoClaim.generation = 0 /\ NoClaim.waiting = "nothing"
    BY DEF NoClaim, None
  <2>3. IssuedInv'
    BY IssuedFacts, StopHostingOK, <1>1, <1>8, <2>2 DEF IssuedInv
  <2>4. Issues
    BY IssuedFacts, StopHostingOK, <1>1, <1>8, <2>1, <2>2 DEF Issues, Latest, Settled
  <2>5. QED
    BY IssuedFacts, StopHostingOK, <1>1, <1>8, <2>3, <2>4 DEF ElectronOK
<1>9. CASE AwaitedBy(reply, hosting[w]) /\ Recover(w)
  BY <1>1, <1>6, <1>9, RecoverOK
<1>10. CASE /\ AwaitedBy(reply, hosting[w]) /\ hosting[w].waiting = "recovery"
            /\ hosting' = [hosting EXCEPT ![w].waiting = "nothing"]
            /\ UNCHANGED <<nextGeneration, requests>>
  <2>1. PICK p \in BOOLEAN : p = hosting[w].recoveryPending /\ p
    BY <1>6, <1>10, IssuedFacts
  <2>2. hosting' = [hosting EXCEPT ![w] = [hosting[w] EXCEPT !.waiting = "nothing",
                                                             !.recoveryPending = p]]
    BY <1>6, <1>10, <2>1, OnlyWaits
  <2>3. "nothing" \in Waiting \ {"registration"} /\ "nothing" # "recovery"
        /\ "nothing" # "automation"
    BY DEF Waiting
  <2>4. UNCHANGED <<entries, nextGeneration>> /\ requests' = requests
    BY <1>1, <1>10
  <2>5. ElectronOK
    BY <1>1, <1>6, <1>10, <2>1, <2>2, <2>3, <2>4, WaitingOK
  <2>6. QED
    BY <1>1, <2>5
<1>11. \/ ~AwaitedBy(reply, hosting[w]) /\ UNCHANGED <<nextGeneration, hosting, requests>>
       \/ /\ AwaitedBy(reply, hosting[w]) /\ reply.ok
          /\ hosting' = [hosting EXCEPT ![w].waiting =
                            IF @ = "recovery" THEN "automation" ELSE "nothing"]
          /\ UNCHANGED <<nextGeneration, requests>>
       \/ /\ AwaitedBy(reply, hosting[w])
          /\ CASE hosting[w].waiting = "registration" ->
                       StopHosting(w) /\ UNCHANGED nextGeneration
               [] hosting[w].waiting = "heartbeat" -> Recover(w)
               [] hosting[w].waiting = "recovery" ->
                       /\ hosting' = [hosting EXCEPT ![w].waiting = "nothing"]
                       /\ UNCHANGED <<nextGeneration, requests>>
  BY <1>2, <1>3 DEF HandleReply
<1>12. AwaitedBy(reply, hosting[w]) =>
          \/ hosting[w].waiting = "registration"
          \/ hosting[w].waiting = "heartbeat"
          \/ hosting[w].waiting = "recovery"
  BY <1>6
<1>13. QED
  BY <1>5, <1>7, <1>8, <1>9, <1>10, <1>11, <1>12

-----------------------------------------------------------------------------
(* The invariant.                                                            *)

\* A step of Electron main keeps the invariant.
LEMMA ElectronKeepsIInv ==
    ASSUME IInv, ElectronOK, UNCHANGED service
    PROVE  IInv'
<1>1. GenerationInv' /\ requests' \in Seq(Request) /\ replies' \in Seq(Reply)
  BY IssuesKeepsGenerations DEF ElectronOK
<1>2. HostedIffClaimed' /\ UNCHANGED Claimed
  BY DEF IInv, HostedIffClaimed, service, Claimed
<1>3. TypeOK'
  BY <1>1, <1>2 DEF IInv, TypeOK, ElectronOK, service
<1>4. QED
  BY <1>1, <1>2, <1>3 DEF IInv, ElectronOK

LEMMA ServeKeepsIInv == ASSUME IInv, Serve PROVE IInv'
<1>1. UNCHANGED <<entries, nextGeneration, hosting>>
  BY DEF Serve, electron
<1>2. IssuedInv'
  BY <1>1 DEF IInv, IssuedInv
<1>3. TypeOK'
  BY <1>1, ServeKeepsService, ServeKeepsGenerations DEF IInv, TypeOK, ServiceStep
<1>4. QED
  BY <1>2, <1>3, ServeKeepsService, ServeKeepsGenerations DEF IInv, ServiceStep

\* A step of the service, or of its placements, that changes no message.
LEMMA ServiceKeepsIInv ==
    ASSUME IInv, ServiceStep, UNCHANGED <<entries, nextGeneration, hosting, requests, replies>>
    PROVE  IInv'
<1>1. IssuedInv' /\ TypeOK'
  BY DEF IInv, IssuedInv, TypeOK, ServiceStep
<1>2. RequestsInv'
  BY DEF IInv, GenerationInv, RequestsInv, Latest
<1>3. \A w \in Window : /\ highest[w] \in Nat /\ highest'[w] \in Nat
                        /\ hosting[w].generation \in Nat
  BY ServiceFacts, GenerationAssumption DEF ServiceStep, Generation, None
<1>4. RepliesInv'
  <2>1. \A m \in Reply : m.window \in Window /\ m.generation \in Nat
    BY GenerationAssumption DEF Reply, Generation
  <2>2. \A i \in DOMAIN replies : replies[i].window \in Window /\ replies[i].generation \in Nat
    BY <2>1, Indexed DEF IInv, TypeOK
  <2>3. QED
    BY <1>3, <2>2 DEF IInv, GenerationInv, RepliesInv, ServiceStep
<1>5. HighestInv'
  BY <1>3 DEF IInv, GenerationInv, HighestInv, ServiceStep, Latest, Settled
<1>6. QED
  BY <1>1, <1>2, <1>4, <1>5 DEF IInv, GenerationInv, ServiceStep

\* The environment: a lease runs out, a placement comes or goes.
LEMMA EnvironmentKeepsIInv ==
    ASSUME IInv, NEW w \in Window,
           LeaseLapses(w) \/ PlacementCreated(w) \/ PlacementRemoved(w)
    PROVE  IInv'
<1>1. /\ UNCHANGED <<claims, highest, entries, nextGeneration, hosting, requests, replies>>
      /\ UNCHANGED Claimed
  BY DEF LeaseLapses, PlacementCreated, PlacementRemoved, Claimed
<1>2. lapsed' \subseteq Claimed'
  BY <1>1 DEF LeaseLapses, PlacementCreated, PlacementRemoved, IInv, TypeOK
<1>3. placements' \in [Window -> Placement] /\ HostedIffClaimed'
  BY DEF LeaseLapses, PlacementCreated, PlacementRemoved, IInv, TypeOK, HostedIffClaimed, Placement
<1>4. ServiceStep
  BY ServiceFacts, <1>1, <1>2, <1>3 DEF ServiceStep
<1>5. QED
  BY <1>1, <1>4, ServiceKeepsIInv

\* A new service hosts nothing and knows no generation.
LEMMA RestartKeepsIInv == ASSUME IInv, Restart PROVE IInv'
<1>1. /\ claims' = [w \in Window |-> None] /\ highest' = [w \in Window |-> None]
      /\ hosting' = [w \in Window |-> NoClaim] /\ requests' = <<>> /\ replies' = <<>>
      /\ entries' = entries /\ nextGeneration' = nextGeneration /\ lapsed' = {}
      /\ placements' = Reconciled({})
  BY DEF Restart
<1>2. NoClaim.generation = 0 /\ NoClaim.waiting = "nothing" /\ None = 0
  BY DEF NoClaim, None
<1>3. TypeOK'
  BY <1>1, IssuedFacts, ServiceFacts DEF TypeOK, Reconciled, Placement, Claimed
<1>4. HostedIffClaimed'
  BY <1>1, ServiceFacts DEF TypeOK, HostedIffClaimed, Reconciled, Placement
<1>5. IssuedInv'
  BY <1>1, <1>2, IssuedFacts DEF IssuedInv
<1>6. GenerationInv'
  <2>1. RequestsInv' /\ RepliesInv'
    BY <1>1 DEF RequestsInv, RepliesInv
  <2>2. HighestInv'
    BY <1>1, <1>2, IssuedFacts DEF HighestInv, Latest, Settled
  <2>3. QED
    BY <2>1, <2>2 DEF GenerationInv
<1>7. QED
  BY <1>3, <1>4, <1>5, <1>6 DEF IInv

\* Every step keeps the invariant.
LEMMA StepKeepsIInv == IInv /\ [Next]_vars => IInv'
<1> SUFFICES ASSUME IInv, [Next]_vars PROVE IInv'
  OBVIOUS
<1>1. CASE Serve
  BY <1>1, ServeKeepsIInv
<1>2. CASE Sweep
  <2>1. ServiceStep /\ UNCHANGED <<entries, nextGeneration, hosting, requests, replies>>
    BY <1>2, ExpireStep DEF Sweep
  <2>2. QED
    BY <2>1, ServiceKeepsIInv
<1>3. CASE HandleReply
  BY <1>3, HandleReplyOK, ElectronKeepsIInv
<1>4. CASE Restart
  BY <1>4, RestartKeepsIInv
<1>5. CASE \E w \in Window : LeaseLapses(w) \/ PlacementCreated(w) \/ PlacementRemoved(w)
  BY <1>5, EnvironmentKeepsIInv
<1>6. CASE \E w \in Window : \/ OpenWindow(w) \/ RefreshRenderer(w) \/ CloseWindow(w)
                             \/ StartHosting(w) \/ Tick(w)
                             \/ \E ok \in BOOLEAN : AutomationAnswers(w, ok)
  <2>1. ElectronOK /\ UNCHANGED service
    BY <1>6, OpenWindowOK, RefreshRendererOK, CloseWindowOK, StartHostingOK, TickOK,
       AutomationAnswersOK
  <2>2. QED
    BY <2>1, ElectronKeepsIInv
<1>7. CASE UNCHANGED vars
  BY <1>7 DEF vars, IInv, TypeOK, HostedIffClaimed, IssuedInv, GenerationInv, RequestsInv,
              RepliesInv, HighestInv, Latest, Settled, Claimed
<1>8. QED
  BY <1>1, <1>2, <1>3, <1>4, <1>5, <1>6, <1>7 DEF Next

\* Nothing is claimed or issued at first.
LEMMA InitIInv == Init => IInv
<1> SUFFICES ASSUME Init PROVE IInv
  OBVIOUS
<1>1. TypeOK
  BY GenerationAssumption DEF Init, TypeOK, Placement, None, Claimed, Generation
<1>2. HostedIffClaimed
  BY DEF Init, HostedIffClaimed
<1>3. IssuedInv
  BY DEF Init, IssuedInv, NoClaim, None
<1>4. GenerationInv
  BY DEF Init, GenerationInv, RequestsInv, RepliesInv, HighestInv, Latest, Settled, NoClaim, None
<1>5. QED
  BY <1>1, <1>2, <1>3, <1>4 DEF IInv

\* The invariant holds in every reachable state.
LEMMA Invariance == Spec => []IInv
  BY InitIInv, StepKeepsIInv, PTL DEF Spec

-----------------------------------------------------------------------------
(* The theorems.                                                             *)

\* Every variable keeps its type; only a claimed window has a lapsed lease.
THEOREM TypeCorrect == Spec => []TypeOK
<1>1. IInv => TypeOK
  BY DEF IInv
<1>2. QED
  BY <1>1, Invariance, PTL

\* The durable placements agree with the claims in memory between any two
\* handlers, granted, refused or failed half-way (reconcileWindowHosting).
THEOREM PlacementAgreement == Spec => []HostedIffClaimed
<1>1. IInv => HostedIffClaimed
  BY DEF IInv
<1>2. QED
  BY <1>1, Invariance, PTL

\* Between recoveries the service holds a window for the generation Electron
\* main believes it has, or for none: never for an earlier renderer's.
THEOREM CurrentClaim == Spec => []ClaimIsCurrent
<1>1. IInv => ClaimIsCurrent
  <2> SUFFICES ASSUME IInv, NEW w \in Window,
                      hosting[w] # NoClaim, ~hosting[w].recoveryPending,
                      hosting[w].waiting \in {"nothing", "heartbeat"}
               PROVE  claims[w] \in {None, hosting[w].generation}
    BY DEF ClaimIsCurrent
  <2>1. Settled(w) /\ Latest(w) = hosting[w].generation
    BY DEF Settled, Latest
  <2>2. highest[w] = hosting[w].generation
    BY <2>1, ServiceFacts, IssuedFacts
  <2>3. QED
    BY <2>2, ServiceFacts
<1>2. QED
  BY <1>1, Invariance, PTL

=============================================================================
