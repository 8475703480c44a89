------------------------ MODULE ProviderMailboxProofs ------------------------
(* Proofs about the provider transport: its safety invariants, and that it   *)
(* delivers each request once, for any number of windows, requests and       *)
(* sessions, any mailbox capacity and any number of registrations.           *)
EXTENDS ProviderMailbox, TLAPS

\* What holds of the entries and the queue alone: the part of the invariant a
\* removal, a publish and a poll have to re-establish.
EntryInv ==
    /\ DOMAIN entries \subseteq Request
    /\ entries \in [DOMAIN entries -> Entry]
    /\ queue \subseteq Request
    /\ ahead \subseteq Request \X Request
    /\ promise \in [Request -> Promise]
    /\ handed \in [Request -> Seq(Provider)]
    /\ QueueMatchesEntries
    /\ PendingIffEntry
    /\ HandedOnce
    /\ \A r \in Request : promise[r] = "none" => handed[r] = <<>>

\* Two windows never share a provider, and identities are never reissued: what
\* keeps a revocation from taking another window's work with it.
LeasesExclusive ==
    /\ \A v, w \in Window : leases[v] = leases[w] /\ leases[v] # NoProvider => v = w
    /\ \A w \in Window : leases[w] <= issued

\* What relates the entries and the parked polls to the leases.
OwnerInv ==
    /\ hosted \subseteq Window
    /\ leases \in [Window -> Provider \cup {NoProvider}]
    /\ issued \in 0 .. MaxProvider
    /\ closed \in BOOLEAN
    /\ pollWaiters \subseteq Provider
    /\ NothingOrphaned
    /\ NoLostWakeup
    /\ LeasesExclusive

IInv == EntryInv /\ OwnerInv

-----------------------------------------------------------------------------
(* remove().                                                                 *)

\* Removing any set of entries keeps the entry invariant, provided an answer
\* is recorded only for entries in flight.
LEMMA RemoveKeepsEntryInv ==
    ASSUME EntryInv, NEW R, NEW c \in {"acknowledged", "transferred", "interrupted"},
           Remove(R, c), handed' = handed,
           c # "interrupted" =>
              \A r \in R \cap DOMAIN entries : entries[r].state = "inFlight"
    PROVE  EntryInv'
<1> USE DEF EntryInv, Remove, Order
<1>1. /\ DOMAIN entries' = DOMAIN entries \ R
      /\ \A r \in DOMAIN entries' : entries'[r] = entries[r]
  OBVIOUS
<1>2. /\ DOMAIN entries' \subseteq Request
      /\ entries' \in [DOMAIN entries' -> Entry]
  BY <1>1
<1>3. queue' \subseteq Request /\ ahead' \subseteq Request \X Request
  OBVIOUS
<1>4. promise' \in [Request -> Promise]
  BY DEF Promise
<1>5. QueueMatchesEntries'
  BY <1>1 DEF QueueMatchesEntries
<1>6. PendingIffEntry'
  BY <1>1 DEF PendingIffEntry
<1>7. HandedOnce'
  <2> SUFFICES ASSUME NEW r \in Request
               PROVE  /\ Len(handed'[r]) <= 1
                      /\ r \in DOMAIN entries' =>
                           handed'[r] = IF entries'[r].state = "inFlight"
                                        THEN <<entries'[r].provider>> ELSE <<>>
                      /\ promise'[r] \in {"acknowledged", "transferred"} =>
                           handed'[r] # <<>>
    BY DEF HandedOnce
  <2>1. handed'[r] = handed[r] /\ Len(handed'[r]) <= 1
    BY DEF HandedOnce
  <2>2. r \in DOMAIN entries' => handed'[r] = IF entries'[r].state = "inFlight"
                                              THEN <<entries'[r].provider>> ELSE <<>>
    BY <1>1 DEF HandedOnce
  <2>3. promise'[r] \in {"acknowledged", "transferred"} => handed'[r] # <<>>
    <3>1. CASE r \in R \cap DOMAIN entries
      <4>1. c # "interrupted" => handed[r] = <<entries[r].provider>>
        BY <3>1 DEF HandedOnce
      <4>2. promise'[r] = c
        BY <3>1
      <4>3. <<entries[r].provider>> # <<>>
        OBVIOUS
      <4>4. QED BY <4>1, <4>2, <4>3, <2>1
    <3>2. CASE r \notin R \cap DOMAIN entries
      BY <3>2 DEF HandedOnce
    <3>3. QED BY <3>1, <3>2
  <2>4. QED BY <2>1, <2>2, <2>3
<1>8. \A r \in Request : promise'[r] = "none" => handed'[r] = <<>>
  OBVIOUS
<1>9. QED BY <1>2, <1>3, <1>4, <1>5, <1>6, <1>7, <1>8

\* publish() keeps the entry invariant when the request id is fresh.
LEMMA EnterKeepsEntryInv ==
    ASSUME EntryInv, NEW r \in Request, NEW kind \in Kind, NEW s \in Session,
           NEW p \in Provider, NEW W, promise[r] = "none",
           Enter(r, kind, s, p, W)
    PROVE  EntryInv'
<1> DEFINE gone   == RequestsOf(ProvidersOf(W))
           parked == p \in pollWaiters
           kept   == DOMAIN entries \ gone
<1> USE DEF EntryInv, Order
<1>1. r \notin DOMAIN entries /\ r \notin queue /\ handed[r] = <<>>
  BY DEF PendingIffEntry, QueueMatchesEntries
<1>2. gone \subseteq DOMAIN entries
  BY DEF RequestsOf
<1>3. /\ DOMAIN entries' = kept \cup {r}
      /\ entries'[r] = [kind |-> kind, session |-> s, provider |-> p,
                        state |-> IF parked THEN "inFlight" ELSE "queued"]
      /\ \A x \in kept : entries'[x] = entries[x]
  BY <1>1 DEF Enter
<1>4. entries' \in [DOMAIN entries' -> Entry]
  <2>1. entries'[r] \in Entry
    BY <1>3 DEF Entry
  <2>2. \A x \in kept : entries'[x] \in Entry
    BY <1>3
  <2>3. entries' = [x \in DOMAIN entries' |-> entries'[x]]
    BY <1>3 DEF Enter
  <2>4. QED BY <1>3, <2>1, <2>2, <2>3
<1>5. /\ queue' = IF parked THEN queue \ gone ELSE (queue \ gone) \cup {r}
      /\ ahead' = IF parked THEN Order(queue \ gone)
                  ELSE Order(queue \ gone) \cup ((queue \ gone) \X {r})
  BY DEF Enter
<1>6. promise' = [x \in Request |-> CASE x = r      -> "pending"
                                     [] x \in gone -> "interrupted"
                                     [] OTHER      -> promise[x]]
  BY DEF Enter
<1>7. /\ handed'[r] = IF parked THEN <<p>> ELSE <<>>
      /\ \A x \in Request \ {r} : handed'[x] = handed[x]
      /\ handed' \in [Request -> Seq(Provider)]
  BY <1>1 DEF Enter
<1>8. /\ promise'[r] = "pending"
      /\ \A x \in Request \ {r} :
           promise'[x] = IF x \in gone THEN "interrupted" ELSE promise[x]
  <2>1. promise'[r] = "pending"
    BY <1>1, <1>2, <1>6
  <2>2. \A x \in Request \ {r} :
           promise'[x] = IF x \in gone THEN "interrupted" ELSE promise[x]
    BY <1>6
  <2>3. QED BY <2>1, <2>2
<1>9. promise' \in [Request -> Promise]
  <2>1. promise' = [x \in Request |-> promise'[x]]
    BY <1>6
  <2>2. \A x \in Request : promise[x] \in Promise
    OBVIOUS
  <2> HIDE DEF EntryInv, gone
  <2>3. \A x \in Request : promise'[x] \in Promise
    BY <1>8, <2>2 DEF Promise
  <2>4. QED BY <2>1, <2>3
<1> HIDE DEF gone, parked
<1>10. QueueMatchesEntries'
  <2>0. /\ \A a, b \in queue : a # b => (<<a, b>> \in ahead <=> <<b, a>> \notin ahead)
        /\ \A a \in queue : <<a, a>> \notin ahead
        /\ \A a, b, c \in queue : <<a, b>> \in ahead /\ <<b, c>> \in ahead => <<a, c>> \in ahead
    BY DEF QueueMatchesEntries
  <2>1. queue' = {x \in DOMAIN entries' : entries'[x].state = "queued"}
    BY <1>1, <1>2, <1>3, <1>5 DEF QueueMatchesEntries
  <2>2. ahead' \subseteq queue' \X queue'
    BY <1>5
  <2>3. \A a, b \in queue \ gone : <<a, b>> \in ahead' <=> <<a, b>> \in ahead
    BY <1>1, <1>5
  <2>4. ~parked => \A a \in queue \ gone : <<a, r>> \in ahead' /\ <<r, a>> \notin ahead'
    BY <1>1, <1>5
  <2>5. ~parked => <<r, r>> \notin ahead'
    BY <1>1, <1>5
  <2>6. queue' \subseteq (queue \ gone) \cup {r} /\ (parked => r \notin queue')
    BY <1>1, <1>5
  <2>7. \A a, b \in queue' : a # b => (<<a, b>> \in ahead' <=> <<b, a>> \notin ahead')
    <3> SUFFICES ASSUME NEW a \in queue', NEW b \in queue', a # b
                 PROVE  <<a, b>> \in ahead' <=> <<b, a>> \notin ahead'
      OBVIOUS
    <3>1. CASE a # r /\ b # r
      BY <3>1, <2>0, <2>3, <2>6
    <3>2. CASE a = r \/ b = r
      BY <3>2, <2>4, <2>6
    <3>3. QED BY <3>1, <3>2
  <2>8. \A a \in queue' : <<a, a>> \notin ahead'
    BY <2>0, <2>3, <2>5, <2>6
  <2>9. \A a, b, c \in queue' :
          <<a, b>> \in ahead' /\ <<b, c>> \in ahead' => <<a, c>> \in ahead'
    <3> SUFFICES ASSUME NEW a \in queue', NEW b \in queue', NEW c \in queue',
                        <<a, b>> \in ahead', <<b, c>> \in ahead'
                 PROVE  <<a, c>> \in ahead'
      OBVIOUS
    <3>1. CASE c = r
      BY <3>1, <2>4, <2>5, <2>6
    <3>2. CASE c # r
      <4>1. a # r /\ b # r
        BY <3>2, <2>4, <2>5, <2>6
      <4>2. QED BY <4>1, <3>2, <2>0, <2>3, <2>6
    <3>3. QED BY <3>1, <3>2
  <2>10. QED BY <2>1, <2>2, <2>7, <2>8, <2>9 DEF QueueMatchesEntries
<1>11. PendingIffEntry'
  BY <1>1, <1>2, <1>3, <1>8 DEF PendingIffEntry
<1>12. HandedOnce'
  <2> SUFFICES ASSUME NEW x \in Request
               PROVE  /\ Len(handed'[x]) <= 1
                      /\ x \in DOMAIN entries' =>
                           handed'[x] = IF entries'[x].state = "inFlight"
                                        THEN <<entries'[x].provider>> ELSE <<>>
                      /\ promise'[x] \in {"acknowledged", "transferred"} =>
                           handed'[x] # <<>>
    BY DEF HandedOnce
  <2>1. CASE x = r
    BY <2>1, <1>3, <1>7, <1>8
  <2>2. CASE x # r
    <3>1. handed'[x] = handed[x]
      BY <2>2, <1>7
    <3>2. Len(handed'[x]) <= 1
      BY <3>1 DEF HandedOnce
    <3>3. ASSUME x \in DOMAIN entries'
          PROVE  handed'[x] = IF entries'[x].state = "inFlight"
                              THEN <<entries'[x].provider>> ELSE <<>>
      BY <3>1, <3>3, <2>2, <1>3 DEF HandedOnce
    <3>4. promise'[x] \in {"acknowledged", "transferred"} => handed'[x] # <<>>
      BY <3>1, <2>2, <1>8 DEF HandedOnce
    <3>5. QED BY <3>2, <3>3, <3>4
  <2>3. QED BY <2>1, <2>2
<1>13. \A x \in Request : promise'[x] = "none" => handed'[x] = <<>>
  BY <1>7, <1>8
<1>14. queue' \subseteq Request /\ ahead' \subseteq Request \X Request
  BY <1>5
<1>15. QED
  BY <1>3, <1>4, <1>7, <1>9, <1>10, <1>11, <1>12, <1>13, <1>14

\* poll() keeps the entry invariant when it hands a request over.
LEMMA PollKeepsEntryInv ==
    ASSUME EntryInv, NEW r \in Request, NEW p \in Provider, PollTakes(r, p)
    PROVE  EntryInv'
<1> DEFINE before  == {x \in queue : <<x, r>> \in ahead}
           rotated == {x \in before : Live(x)}
           rest    == queue \ (before \cup {r})
<1> USE DEF EntryInv, Order
<1>1. /\ r \in queue /\ r \in DOMAIN entries
      /\ entries[r].state = "queued" /\ entries[r].provider = p
  BY DEF PollTakes, Mine, Live
<1>2. /\ entries' = [entries EXCEPT ![r].state = "inFlight"]
      /\ queue' = rest \cup rotated
      /\ ahead' = Order(rest) \cup Order(rotated) \cup (rest \X rotated)
      /\ handed' = [handed EXCEPT ![r] = Append(@, p)]
      /\ promise' = promise
  BY DEF PollTakes
<1>3. /\ DOMAIN entries' = DOMAIN entries
      /\ entries'[r] = [entries[r] EXCEPT !.state = "inFlight"]
      /\ \A x \in DOMAIN entries \ {r} : entries'[x] = entries[x]
  BY <1>1, <1>2
<1>4. entries' \in [DOMAIN entries' -> Entry]
  <2>1. entries[r] \in Entry
    BY <1>1
  <2>2. entries'[r] \in Entry
    BY <2>1, <1>3 DEF Entry
  <2>3. QED BY <2>2, <1>2, <1>3
<1>5. entries'[r].state = "inFlight" /\ entries'[r].provider = p
  <2>1. entries[r] \in Entry
    BY <1>1
  <2>2. QED BY <2>1, <1>1, <1>3 DEF Entry
<1>6. rotated = before
  BY DEF Live, QueueMatchesEntries
<1>7. queue' = queue \ {r} /\ r \notin before
  BY <1>1, <1>2, <1>6 DEF QueueMatchesEntries
<1>8. QueueMatchesEntries'
  <2>0. /\ \A a, b \in queue : a # b => (<<a, b>> \in ahead <=> <<b, a>> \notin ahead)
        /\ \A a \in queue : <<a, a>> \notin ahead
        /\ \A a, b, c \in queue : <<a, b>> \in ahead /\ <<b, c>> \in ahead => <<a, c>> \in ahead
    BY DEF QueueMatchesEntries
  <2>1. queue' = {x \in DOMAIN entries' : entries'[x].state = "queued"}
    BY <1>3, <1>5, <1>7 DEF QueueMatchesEntries
  <2>2. ahead' \subseteq queue' \X queue'
    BY <1>2
  <2>3. /\ \A a, b \in rest : <<a, b>> \in ahead' <=> <<a, b>> \in ahead
        /\ \A a, b \in before : <<a, b>> \in ahead' <=> <<a, b>> \in ahead
        /\ \A a \in rest, b \in before : <<a, b>> \in ahead' /\ <<b, a>> \notin ahead'
    BY <1>2, <1>6
  <2>4. queue' = rest \cup before
    BY <1>2, <1>6
  <2>5. rest \subseteq queue /\ before \subseteq queue
    OBVIOUS
  <2> HIDE DEF rest, before, rotated
  <2>6. \A a, b \in queue' : a # b => (<<a, b>> \in ahead' <=> <<b, a>> \notin ahead')
    BY <2>0, <2>3, <2>4, <2>5
  <2>7. \A a \in queue' : <<a, a>> \notin ahead'
    BY <2>0, <2>3, <2>4, <2>5
  <2>8. \A a, b, c \in queue' :
          <<a, b>> \in ahead' /\ <<b, c>> \in ahead' => <<a, c>> \in ahead'
    <3> SUFFICES ASSUME NEW a \in queue', NEW b \in queue', NEW c \in queue',
                        <<a, b>> \in ahead', <<b, c>> \in ahead'
                 PROVE  <<a, c>> \in ahead'
      OBVIOUS
    <3>1. CASE a \in rest /\ c \in rest
      <4>1. b \in rest
        BY <3>1, <2>3, <2>4
      <4>2. QED BY <4>1, <3>1, <2>0, <2>3, <2>5
    <3>2. CASE a \in before /\ c \in before
      <4>1. b \in before
        BY <3>2, <2>3, <2>4
      <4>2. QED BY <4>1, <3>2, <2>0, <2>3, <2>5
    <3>3. CASE a \in rest /\ c \in before
      BY <3>3, <2>3
    <3>4. CASE a \in before /\ c \in rest
      BY <3>4, <2>3, <2>4
    <3>5. QED BY <3>1, <3>2, <3>3, <3>4, <2>4
  <2>9. QED BY <2>1, <2>2, <2>6, <2>7, <2>8 DEF QueueMatchesEntries
<1>9. PendingIffEntry'
  BY <1>2, <1>3 DEF PendingIffEntry
<1>10. handed[r] = <<>> /\ promise[r] = "pending"
  BY <1>1 DEF HandedOnce, PendingIffEntry
<1>11. /\ handed'[r] = <<p>> /\ \A x \in Request \ {r} : handed'[x] = handed[x]
       /\ handed' \in [Request -> Seq(Provider)]
  BY <1>2, <1>10
<1>12. HandedOnce'
  <2> SUFFICES ASSUME NEW x \in Request
               PROVE  /\ Len(handed'[x]) <= 1
                      /\ x \in DOMAIN entries' =>
                           handed'[x] = IF entries'[x].state = "inFlight"
                                        THEN <<entries'[x].provider>> ELSE <<>>
                      /\ promise'[x] \in {"acknowledged", "transferred"} =>
                           handed'[x] # <<>>
    BY DEF HandedOnce
  <2>1. CASE x = r
    BY <2>1, <1>2, <1>5, <1>10, <1>11
  <2>2. CASE x # r
    <3>1. handed'[x] = handed[x] /\ promise'[x] = promise[x]
      BY <2>2, <1>2, <1>11
    <3>2. Len(handed'[x]) <= 1
      BY <3>1 DEF HandedOnce
    <3>3. ASSUME x \in DOMAIN entries'
          PROVE  handed'[x] = IF entries'[x].state = "inFlight"
                              THEN <<entries'[x].provider>> ELSE <<>>
      BY <3>1, <3>3, <2>2, <1>3 DEF HandedOnce
    <3>4. promise'[x] \in {"acknowledged", "transferred"} => handed'[x] # <<>>
      BY <3>1 DEF HandedOnce
    <3>5. QED BY <3>2, <3>3, <3>4
  <2>3. QED BY <2>1, <2>2
<1>13. \A x \in Request : promise'[x] = "none" => handed'[x] = <<>>
  BY <1>2, <1>10, <1>11
<1>14. queue' \subseteq Request /\ ahead' \subseteq Request \X Request
  BY <1>2
<1>15. QED
  BY <1>2, <1>3, <1>4, <1>8, <1>9, <1>11, <1>12, <1>13, <1>14

-----------------------------------------------------------------------------
(* Leases.                                                                   *)

\* Revoking windows, with an optional new identity for one of them, keeps the
\* relation between entries, parked polls and leases.
LEMMA RevokeKeepsOwnerInv ==
    ASSUME EntryInv, OwnerInv, NEW W \in SUBSET Window,
           leases' = [w \in Window |-> IF w \in W THEN NoProvider ELSE leases[w]],
           pollWaiters' = pollWaiters \ ProvidersOf(W),
           Remove(RequestsOf(ProvidersOf(W)), "interrupted"),
           hosted' = hosted, issued' = issued, closed' \in BOOLEAN
    PROVE  OwnerInv'
<1> USE DEF OwnerInv
<1>1. leases' \in [Window -> Provider \cup {NoProvider}]
  OBVIOUS
<1>2. Leased' = Leased \ ProvidersOf(W)
  <2>1. \A v \in Window \ W, w \in W : leases[v] = leases[w] => leases[v] = NoProvider
    BY DEF LeasesExclusive
  <2>2. \A w \in Window : leases'[w] = IF w \in W THEN NoProvider ELSE leases[w]
    OBVIOUS
  <2>3. QED BY <2>1, <2>2 DEF Leased, ProvidersOf
<1>3. /\ DOMAIN entries' = DOMAIN entries \ RequestsOf(ProvidersOf(W))
      /\ \A r \in DOMAIN entries' : entries'[r] = entries[r]
  BY DEF Remove
<1>4. NothingOrphaned'
  BY <1>2, <1>3 DEF NothingOrphaned, RequestsOf
<1>5. NoLostWakeup'
  BY <1>3 DEF NoLostWakeup
<1>6. LeasesExclusive'
  BY DEF LeasesExclusive, Provider, NoProvider
<1>7. pollWaiters' \subseteq Provider
  OBVIOUS
<1>8. QED BY <1>1, <1>4, <1>5, <1>6, <1>7

\* Dropping entries, with leases and parked polls untouched.
LEMMA RemoveKeepsOwnerInv ==
    ASSUME OwnerInv, NEW R, NEW c, Remove(R, c),
           UNCHANGED <<leases, pollWaiters, hosted, issued, closed>>
    PROVE  OwnerInv'
<1> USE DEF OwnerInv
<1>1. /\ DOMAIN entries' = DOMAIN entries \ R
      /\ \A r \in DOMAIN entries' : entries'[r] = entries[r]
  BY DEF Remove
<1>2. Leased' = Leased
  BY DEF Leased
<1>3. NothingOrphaned' /\ NoLostWakeup' /\ LeasesExclusive'
  BY <1>1, <1>2 DEF NothingOrphaned, NoLostWakeup, LeasesExclusive
<1>4. QED BY <1>3

\* publish() for a provider that keeps its lease.
LEMMA EnterKeepsOwnerInv ==
    ASSUME EntryInv, OwnerInv, NEW r \in Request, NEW kind \in Kind,
           NEW s \in Session, NEW p \in Provider, NEW W \in SUBSET Window,
           promise[r] = "none",
           Enter(r, kind, s, p, W), NEW v \in Window \ W, leases[v] = p,
           UNCHANGED <<hosted, issued, closed>>
    PROVE  OwnerInv'
<1> USE DEF OwnerInv
<1> DEFINE gone == RequestsOf(ProvidersOf(W))
           kept == DOMAIN entries \ gone
<1>1. r \notin DOMAIN entries
  BY DEF EntryInv, PendingIffEntry
<1>2. /\ leases' = [w \in Window |-> IF w \in W THEN NoProvider ELSE leases[w]]
      /\ pollWaiters' = (pollWaiters \ ProvidersOf(W)) \ {p}
      /\ DOMAIN entries' = kept \cup {r}
      /\ entries'[r].provider = p
      /\ entries'[r].state = IF p \in pollWaiters THEN "inFlight" ELSE "queued"
      /\ \A x \in kept : entries'[x] = entries[x]
  BY <1>1 DEF Enter
<1>3. leases' \in [Window -> Provider \cup {NoProvider}]
  BY <1>2
<1>4. Leased' = Leased \ ProvidersOf(W) /\ p \in Leased'
  <2>1. \A x \in Window \ W, w \in W : leases[x] = leases[w] => leases[x] = NoProvider
    BY DEF LeasesExclusive
  <2>2. \A w \in Window : leases'[w] = IF w \in W THEN NoProvider ELSE leases[w]
    BY <1>2
  <2>3. Leased' = Leased \ ProvidersOf(W)
    BY <2>1, <2>2 DEF Leased, ProvidersOf
  <2>4. leases'[v] = p /\ p # NoProvider
    BY <2>2 DEF Provider, NoProvider
  <2>5. QED BY <2>3, <2>4 DEF Leased
<1>5. NothingOrphaned'
  <2>1. \A x \in kept : entries[x].provider \notin ProvidersOf(W)
    BY DEF RequestsOf
  <2>2. \A x \in kept : entries'[x].provider \in Leased'
    BY <2>1, <1>2, <1>4 DEF NothingOrphaned
  <2>3. QED BY <2>2, <1>2, <1>4 DEF NothingOrphaned
<1>6. NoLostWakeup'
  BY <1>2 DEF NoLostWakeup
<1>7. LeasesExclusive'
  BY <1>2, <1>3 DEF LeasesExclusive, Provider, NoProvider
<1>8. QED BY <1>2, <1>3, <1>5, <1>6, <1>7

\* registerTrustedWindow: a fresh identity replaces the window's old one.
LEMMA RegisterKeepsOwnerInv ==
    ASSUME EntryInv, OwnerInv, NEW w \in Window, RegisterTrustedWindow(w)
    PROVE  OwnerInv'
<1> USE DEF OwnerInv
<1>1. /\ issued' = issued + 1 /\ issued' \in 0 .. MaxProvider /\ issued' \in Provider
      /\ leases' = [leases EXCEPT ![w] = issued']
      /\ pollWaiters' = pollWaiters \ ProvidersOf({w})
      /\ hosted' = hosted /\ closed' = closed
  BY MaxProviderAssumption DEF RegisterTrustedWindow, Provider
<1>2. /\ DOMAIN entries' = DOMAIN entries \ RequestsOf(ProvidersOf({w}))
      /\ \A r \in DOMAIN entries' : entries'[r] = entries[r]
  BY DEF RegisterTrustedWindow, Remove
<1>3. leases' \in [Window -> Provider \cup {NoProvider}]
  BY <1>1
<1>4. \A v \in Window : leases'[v] = IF v = w THEN issued' ELSE leases[v]
  BY <1>1
<1>5. Leased \ ProvidersOf({w}) \subseteq Leased'
  <2> SUFFICES ASSUME NEW q \in Leased, q \notin ProvidersOf({w})
               PROVE  q \in Leased'
    OBVIOUS
  <2>1. PICK v \in Window : leases[v] = q /\ q # NoProvider
    BY DEF Leased
  <2>2. v # w
    BY <2>1 DEF ProvidersOf
  <2>3. QED BY <2>1, <2>2, <1>4 DEF Leased
<1>6. NothingOrphaned'
  BY <1>1, <1>2, <1>5 DEF NothingOrphaned, RequestsOf
<1>7. NoLostWakeup'
  BY <1>1, <1>2 DEF NoLostWakeup
<1>8. LeasesExclusive'
  <2>1. \A v \in Window : leases[v] <= issued /\ leases[v] # issued'
    BY <1>1, <1>3 DEF LeasesExclusive, Provider, NoProvider
  <2>2. \A v \in Window : leases'[v] <= issued'
    BY <2>1, <1>1, <1>4, MaxProviderAssumption DEF Provider, NoProvider
  <2>3. \A u, v \in Window : leases'[u] = leases'[v] /\ leases'[u] # NoProvider => u = v
    BY <2>1, <1>4 DEF LeasesExclusive
  <2>4. QED BY <2>2, <2>3 DEF LeasesExclusive
<1>9. QED BY <1>1, <1>3, <1>6, <1>7, <1>8

-----------------------------------------------------------------------------
(* The invariant is inductive.                                               *)

\* The empty mailbox satisfies the invariant.
LEMMA InitIInv == Init => IInv
<1> SUFFICES ASSUME Init PROVE IInv
  OBVIOUS
<1> USE DEF Init
<1>1. EntryInv
  BY DEF EntryInv, QueueMatchesEntries, PendingIffEntry, HandedOnce, Promise
<1>2. OwnerInv
  <2>1. /\ hosted \subseteq Window /\ closed \in BOOLEAN /\ pollWaiters \subseteq Provider
        /\ leases \in [Window -> Provider \cup {NoProvider}]
    OBVIOUS
  <2>2. issued \in 0 .. MaxProvider
    BY MaxProviderAssumption
  <2>3. DOMAIN entries = {}
    OBVIOUS
  <2>4. NothingOrphaned /\ NoLostWakeup
    BY <2>3 DEF NothingOrphaned, NoLostWakeup
  <2>5. LeasesExclusive
    BY DEF LeasesExclusive, NoProvider
  <2>6. QED BY <2>1, <2>2, <2>4, <2>5 DEF OwnerInv
<1>3. QED BY <1>1, <1>2 DEF IInv

\* Handlers that only drop entries: cancel, timers, acknowledgement, transfer.
LEMMA DropKeepsIInv ==
    ASSUME IInv, NEW R, NEW c \in {"acknowledged", "transferred", "interrupted"},
           Remove(R, c),
           UNCHANGED <<leases, pollWaiters, handed, hosted, issued, closed>>,
           c # "interrupted" =>
              \A r \in R \cap DOMAIN entries : entries[r].state = "inFlight"
    PROVE  IInv'
BY RemoveKeepsEntryInv, RemoveKeepsOwnerInv DEF IInv

\* Handlers that revoke leases.
LEMMA RevokeKeepsIInv ==
    ASSUME IInv, NEW W \in SUBSET Window, Revoke(W),
           UNCHANGED <<hosted, issued, handed>>, closed' \in BOOLEAN
    PROVE  IInv'
<1>1. EntryInv'
  BY RemoveKeepsEntryInv DEF IInv, Revoke
<1>2. OwnerInv'
  BY RevokeKeepsOwnerInv DEF IInv, Revoke
<1>3. QED BY <1>1, <1>2 DEF IInv

\* dispose() is the revocation of every lease.
LEMMA DisposeRevokesAll ==
    ASSUME IInv, Dispose
    PROVE  Revoke(Window)
<1>1. ProvidersOf(Window) = Leased
  BY DEF ProvidersOf, Leased
<1>2. RequestsOf(Leased) = DOMAIN entries /\ pollWaiters \ Leased = {}
  BY DEF RequestsOf, IInv, OwnerInv, NothingOrphaned
<1>3. QED BY <1>1, <1>2 DEF Dispose, Revoke

\* Every handler, poll, answer and timer keeps the invariant.
LEMMA NextIInv == IInv /\ [Next]_vars => IInv'
<1> SUFFICES ASSUME IInv, [Next]_vars PROVE IInv'
  OBVIOUS
<1>1. CASE UNCHANGED vars
  BY <1>1 DEF vars, IInv, EntryInv, OwnerInv, QueueMatchesEntries, PendingIffEntry,
              HandedOnce, NothingOrphaned, NoLostWakeup, LeasesExclusive, Leased
<1>2. ASSUME NEW w \in Window, WindowHosted(w) PROVE IInv'
  BY <1>2 DEF WindowHosted, mailboxVars, IInv, EntryInv, OwnerInv,
              QueueMatchesEntries, PendingIffEntry, HandedOnce, NothingOrphaned,
              NoLostWakeup, LeasesExclusive, Leased
<1>3. ASSUME NEW w \in Window, RegisterTrustedWindow(w) PROVE IInv'
  <2>1. EntryInv'
    BY <1>3, RemoveKeepsEntryInv DEF IInv, RegisterTrustedWindow
  <2>2. OwnerInv'
    BY <1>3, RegisterKeepsOwnerInv DEF IInv
  <2>3. QED BY <2>1, <2>2 DEF IInv
<1>4. ASSUME NEW w \in Window, RevokeWindow(w) PROVE IInv'
  BY <1>4, RevokeKeepsIInv DEF RevokeWindow, IInv, OwnerInv
<1>5. ASSUME NEW w \in Window, RejectLapsed(w) PROVE IInv'
  BY <1>5, RevokeKeepsIInv DEF RejectLapsed, IInv, OwnerInv
<1>6. ASSUME NEW w \in Window, NEW p \in Provider, RevokeIfCurrent(w, p) PROVE IInv'
  BY <1>6, RevokeKeepsIInv DEF RevokeIfCurrent, IInv, OwnerInv
<1>7. CASE ClaimFails
  <2>1. Lapsed \subseteq Window
    BY DEF Lapsed
  <2>2. QED BY <1>7, <2>1, RevokeKeepsIInv DEF ClaimFails, IInv, OwnerInv
<1>8. CASE Dispose
  BY <1>8, DisposeRevokesAll, RevokeKeepsIInv DEF Dispose
<1>9. ASSUME NEW r \in Request, NEW k \in Kind, NEW s \in Session, NEW w \in Window,
             PublishClaimed(r, k, s, w)
      PROVE  IInv'
  <2>1. /\ leases[w] \in Provider /\ w \in Window \ Lapsed /\ Lapsed \in SUBSET Window
        /\ promise[r] = "none" /\ Enter(r, k, s, leases[w], Lapsed)
        /\ UNCHANGED <<hosted, issued, closed>>
    BY <1>9 DEF PublishClaimed, Lapsed, IInv, OwnerInv
  <2>2. EntryInv'
    BY <2>1, EnterKeepsEntryInv DEF IInv
  <2>3. OwnerInv'
    BY <2>1, EnterKeepsOwnerInv DEF IInv
  <2>4. QED BY <2>2, <2>3 DEF IInv
<1>10. ASSUME NEW r \in Request, NEW k \in Kind, NEW s \in Session, NEW p \in Provider,
              PublishAddressed(r, k, s, p)
       PROVE  IInv'
  <2>1. /\ promise[r] = "none" /\ Enter(r, k, s, p, {})
        /\ UNCHANGED <<hosted, issued, closed>>
        /\ hosted \subseteq Window
    BY <1>10 DEF PublishAddressed, IInv, OwnerInv
  <2>2. PICK v \in Window \ {} : leases[v] = p
    BY <1>10, <2>1 DEF PublishAddressed, IsCurrent
  <2>3. EntryInv'
    BY <2>1, EnterKeepsEntryInv DEF IInv
  <2>4. OwnerInv'
    BY <2>1, <2>2, EnterKeepsOwnerInv DEF IInv
  <2>5. QED BY <2>3, <2>4 DEF IInv
<1>11. ASSUME NEW r \in Request, Cancel(r) PROVE IInv'
  BY <1>11, DropKeepsIInv DEF Cancel
<1>12. ASSUME NEW r \in Request, CancelQueued(r) PROVE IInv'
  BY <1>12, DropKeepsIInv DEF CancelQueued
<1>13. ASSUME NEW s \in Session, CancelSession(s) PROVE IInv'
  BY <1>13, DropKeepsIInv DEF CancelSession
<1>14. ASSUME NEW p \in Provider, PollParks(p) PROVE IInv'
  <2>1. {x \in queue : Live(x)} = queue /\ Order(queue) = ahead
    BY DEF Live, Order, IInv, EntryInv, QueueMatchesEntries
  <2>2. /\ UNCHANGED <<entries, queue, ahead, promise, handed>>
        /\ UNCHANGED <<hosted, leases, issued, closed>>
        /\ pollWaiters' = pollWaiters \cup {p}
        /\ IsCurrent(p) /\ Mine(p) = {}
    BY <1>14, <2>1 DEF PollParks, authorityVars
  <2>3. p \in Leased
    BY <2>2 DEF IsCurrent, Leased, Provider, NoProvider, IInv, OwnerInv
  <2>4. \A r \in DOMAIN entries : entries[r].provider = p => entries[r].state = "inFlight"
    BY <2>2 DEF Mine, Live, IInv, EntryInv, QueueMatchesEntries, Entry
  <2>5. EntryInv'
    BY <2>2 DEF IInv, EntryInv, QueueMatchesEntries, PendingIffEntry, HandedOnce
  <2>6. OwnerInv'
    BY <2>2, <2>3, <2>4 DEF IInv, OwnerInv, NothingOrphaned, NoLostWakeup,
                            LeasesExclusive, Leased
  <2>7. QED BY <2>5, <2>6 DEF IInv
<1>15. ASSUME NEW p \in Provider, PollTimesOut(p) PROVE IInv'
  <2>1. /\ UNCHANGED <<entries, queue, ahead, promise, handed>>
        /\ UNCHANGED <<hosted, leases, issued, closed>>
        /\ pollWaiters' = pollWaiters \ {p}
    BY <1>15 DEF PollTimesOut, authorityVars
  <2>2. EntryInv'
    BY <2>1 DEF IInv, EntryInv, QueueMatchesEntries, PendingIffEntry, HandedOnce
  <2>3. OwnerInv'
    BY <2>1 DEF IInv, OwnerInv, NothingOrphaned, NoLostWakeup, LeasesExclusive, Leased
  <2>4. QED BY <2>2, <2>3 DEF IInv
<1>16. ASSUME NEW r \in Request, NEW p \in Provider, PollTakes(r, p) PROVE IInv'
  <2>1. EntryInv'
    BY <1>16, PollKeepsEntryInv DEF IInv
  <2>2. /\ entries' = [entries EXCEPT ![r].state = "inFlight"] /\ r \in DOMAIN entries
        /\ UNCHANGED <<hosted, leases, issued, closed, pollWaiters>>
    BY <1>16 DEF PollTakes, authorityVars, Mine, Live
  <2>3. /\ DOMAIN entries' = DOMAIN entries
        /\ \A x \in DOMAIN entries : entries'[x].provider = entries[x].provider
        /\ entries'[r].state = "inFlight"
        /\ \A x \in DOMAIN entries \ {r} : entries'[x] = entries[x]
    <3>1. entries[r] \in Entry
      BY <2>2 DEF IInv, EntryInv
    <3>2. QED BY <3>1, <2>2 DEF Entry
  <2>4. OwnerInv'
    BY <2>2, <2>3 DEF IInv, OwnerInv, NothingOrphaned, NoLostWakeup, LeasesExclusive, Leased
  <2>5. QED BY <2>1, <2>4 DEF IInv
<1>17. ASSUME NEW r \in Request, NEW p \in Provider, Acknowledge(r, p) PROVE IInv'
  BY <1>17, DropKeepsIInv DEF Acknowledge, Matches
<1>18. ASSUME NEW r \in Request, NEW p \in Provider, RespondTransfer(r, p) PROVE IInv'
  BY <1>18, DropKeepsIInv DEF RespondTransfer, Matches
<1>19. QED
  BY <1>1, <1>2, <1>3, <1>4, <1>5, <1>6, <1>7, <1>8, <1>9, <1>10, <1>11, <1>12,
     <1>13, <1>14, <1>15, <1>16, <1>17, <1>18 DEF Next

\* The invariant holds in every reachable state of the transport.
THEOREM InductiveInvariant == Spec => []IInv
BY InitIInv, NextIInv, PTL DEF Spec

\* The variables keep their types.
THEOREM TypeCorrect == Spec => []TypeOK
<1>1. IInv => TypeOK
  BY DEF IInv, EntryInv, OwnerInv, TypeOK
<1>2. QED BY <1>1, InductiveInvariant, PTL

\* No wake-up is lost, whatever the interleaving of polls, publishes,
\* replacements and revocations.
THEOREM WakeupSafety == Spec => []NoLostWakeup
<1>1. IInv => NoLostWakeup
  BY DEF IInv, OwnerInv
<1>2. QED BY <1>1, InductiveInvariant, PTL

\* The queue and the entries agree, and every promise is settled with its entry.
THEOREM QueueSafety == Spec => [](QueueMatchesEntries /\ PendingIffEntry)
<1>1. IInv => QueueMatchesEntries /\ PendingIffEntry
  BY DEF IInv, EntryInv
<1>2. QED BY <1>1, InductiveInvariant, PTL

\* A request is handed over at most once, to the provider it is addressed to.
THEOREM HandoverSafety == Spec => []HandedOnce
<1>1. IInv => HandedOnce
  BY DEF IInv, EntryInv
<1>2. QED BY <1>1, InductiveInvariant, PTL

\* No work or parked poll survives the lease of its provider.
THEOREM OwnershipSafety == Spec => []NothingOrphaned
<1>1. IInv => NothingOrphaned
  BY DEF IInv, OwnerInv
<1>2. QED BY <1>1, InductiveInvariant, PTL

-----------------------------------------------------------------------------
(* Refinement: the transport delivers each request once.                     *)

\* What one step may do to one request.
StepOf(r) == status'[r] = status[r] \/ <<status[r], status'[r]>> \in Delivery!Edge

\* The status of a request, read off its promise and its entry.
LEMMA StatusOf ==
    ASSUME EntryInv, NEW r \in Request
    PROVE  /\ promise[r] = "none" => status[r] = "idle"
           /\ r \in DOMAIN entries => status[r] = entries[r].state
           /\ promise[r] = "interrupted" => status[r] = "interrupted"
           /\ promise[r] \in {"acknowledged", "transferred"} => status[r] = "acknowledged"
           /\ r \in DOMAIN entries => status[r] \in {"queued", "inFlight"}
<1>1. r \in DOMAIN entries => promise[r] = "pending" /\ entries[r] \in Entry
  BY DEF EntryInv, PendingIffEntry
<1>2. QED BY <1>1 DEF status, Entry

\* The same after a step, whose promises keep their type.
LEMMA StatusOfNext ==
    ASSUME EntryInv', NEW r \in Request
    PROVE  /\ promise'[r] = "none" => status'[r] = "idle"
           /\ r \in DOMAIN entries' => status'[r] = entries'[r].state
           /\ promise'[r] = "interrupted" => status'[r] = "interrupted"
           /\ promise'[r] \in {"acknowledged", "transferred"} => status'[r] = "acknowledged"
           /\ r \in DOMAIN entries' => status'[r] \in {"queued", "inFlight"}
<1>1. r \in DOMAIN entries' => promise'[r] = "pending" /\ entries'[r] \in Entry
  BY DEF EntryInv, PendingIffEntry
<1>2. QED BY <1>1 DEF status, Entry

\* A request whose entry and promise do not change keeps its status.
LEMMA StatusKept ==
    ASSUME NEW r \in Request, promise'[r] = promise[r],
           promise[r] = "pending" => entries'[r] = entries[r]
    PROVE  StepOf(r)
BY DEF StepOf, status

\* remove() settles the requests it removes and moves no other.
LEMMA RemoveSteps ==
    ASSUME EntryInv, EntryInv', NEW R,
           NEW c \in {"acknowledged", "transferred", "interrupted"}, Remove(R, c),
           c # "interrupted" =>
              \A r \in R \cap DOMAIN entries : entries[r].state = "inFlight",
           NEW r \in Request
    PROVE  StepOf(r)
<1>1. CASE r \in R \cap DOMAIN entries
  <2>1. promise'[r] = c
    BY <1>1 DEF Remove
  <2>2. /\ status[r] \in {"queued", "inFlight"}
        /\ c # "interrupted" => status[r] = "inFlight"
    BY <1>1, StatusOf
  <2>3. status'[r] = IF c = "interrupted" THEN "interrupted" ELSE "acknowledged"
    BY <2>1, StatusOfNext
  <2>4. QED BY <2>2, <2>3 DEF StepOf, Delivery!Edge
<1>2. CASE r \notin R \cap DOMAIN entries
  <2>1. promise'[r] = promise[r]
    BY <1>2 DEF Remove
  <2>2. promise[r] = "pending" => entries'[r] = entries[r]
    BY <1>2 DEF Remove, EntryInv, PendingIffEntry
  <2>3. QED BY <2>1, <2>2, StatusKept
<1>3. QED BY <1>1, <1>2

\* publish() moves its request into the mailbox and settles the revoked ones.
LEMMA EnterSteps ==
    ASSUME EntryInv, EntryInv', NEW q \in Request, NEW kind \in Kind, NEW s \in Session,
           NEW p \in Provider, NEW W, promise[q] = "none",
           Enter(q, kind, s, p, W), NEW r \in Request
    PROVE  StepOf(r)
<1> DEFINE gone == RequestsOf(ProvidersOf(W))
<1>1. q \notin DOMAIN entries /\ gone \subseteq DOMAIN entries
  BY DEF EntryInv, PendingIffEntry, RequestsOf
<1>2. /\ DOMAIN entries' = (DOMAIN entries \ gone) \cup {q}
      /\ \A x \in DOMAIN entries \ gone : entries'[x] = entries[x]
  BY <1>1 DEF Enter
<1>3. promise' = [x \in Request |-> CASE x = q     -> "pending"
                                     [] x \in gone -> "interrupted"
                                     [] OTHER      -> promise[x]]
  BY DEF Enter
<1> HIDE DEF gone
<1>4. CASE r = q
  <2>1. status[r] = "idle" /\ status'[r] \in {"queued", "inFlight"}
    BY <1>2, <1>4, StatusOf, StatusOfNext
  <2>2. QED BY <2>1 DEF StepOf, Delivery!Edge
<1>5. CASE r # q /\ r \in gone
  <2>1. promise'[r] = "interrupted"
    BY <1>3, <1>5
  <2>2. status[r] \in {"queued", "inFlight"} /\ status'[r] = "interrupted"
    BY <2>1, <1>1, <1>5, StatusOf, StatusOfNext
  <2>3. QED BY <2>2 DEF StepOf, Delivery!Edge
<1>6. CASE r # q /\ r \notin gone
  <2>1. promise'[r] = promise[r]
    BY <1>3, <1>6
  <2>2. promise[r] = "pending" => entries'[r] = entries[r]
    BY <1>2, <1>6 DEF EntryInv, PendingIffEntry
  <2>3. QED BY <2>1, <2>2, StatusKept
<1>7. QED BY <1>4, <1>5, <1>6

\* In every step, each request stays put or follows an edge of OnceDelivery.
LEMMA NextSteps ==
    ASSUME IInv, IInv', [Next]_vars, NEW r \in Request
    PROVE  StepOf(r)
<1>0. EntryInv /\ EntryInv'
  BY DEF IInv
<1>1. CASE UNCHANGED <<entries, promise>>
  BY <1>1, StatusKept
<1>2. ASSUME NEW R, NEW c \in {"acknowledged", "transferred", "interrupted"}, Remove(R, c),
             c # "interrupted" =>
                \A x \in R \cap DOMAIN entries : entries[x].state = "inFlight"
      PROVE  StepOf(r)
  BY <1>0, <1>2, RemoveSteps
<1>3. ASSUME NEW q \in Request, NEW k \in Kind, NEW s \in Session, NEW w \in Window,
             PublishClaimed(q, k, s, w)
      PROVE  StepOf(r)
  <2>1. leases[w] \in Provider
    BY <1>3 DEF PublishClaimed, IInv, OwnerInv
  <2>2. QED BY <1>0, <1>3, <2>1, EnterSteps DEF PublishClaimed
<1>4. ASSUME NEW q \in Request, NEW k \in Kind, NEW s \in Session, NEW p \in Provider,
             PublishAddressed(q, k, s, p)
      PROVE  StepOf(r)
  BY <1>0, <1>4, EnterSteps DEF PublishAddressed
<1>5. ASSUME NEW q \in Request, NEW p \in Provider, PollTakes(q, p)
      PROVE  StepOf(r)
  <2>1. /\ entries' = [entries EXCEPT ![q].state = "inFlight"] /\ promise' = promise
        /\ q \in DOMAIN entries /\ entries[q].state = "queued"
    BY <1>5 DEF PollTakes, Mine, Live
  <2>2. CASE r = q
    <3>1. entries[r] \in Entry
      BY <1>0, <2>1, <2>2 DEF EntryInv
    <3>2. entries'[r].state = "inFlight" /\ r \in DOMAIN entries'
      BY <3>1, <2>1, <2>2 DEF Entry
    <3>3. status[r] = "queued" /\ status'[r] = "inFlight"
      BY <1>0, <2>1, <2>2, <3>2, StatusOf, StatusOfNext
    <3>4. QED BY <3>3 DEF StepOf, Delivery!Edge
  <2>3. CASE r # q
    BY <2>1, <2>3, StatusKept
  <2>4. QED BY <2>2, <2>3
<1>6. ASSUME NEW w \in Window,
             WindowHosted(w) \/ RegisterTrustedWindow(w) \/ RevokeWindow(w) \/ RejectLapsed(w)
      PROVE  StepOf(r)
  BY <1>1, <1>2, <1>6 DEF WindowHosted, mailboxVars, RegisterTrustedWindow, RevokeWindow,
                          RejectLapsed, Revoke
<1>7. CASE \E w \in Window, p \in Provider : RevokeIfCurrent(w, p)
  BY <1>2, <1>7 DEF RevokeIfCurrent, Revoke
<1>8. CASE ClaimFails \/ Dispose
  BY <1>2, <1>8 DEF ClaimFails, Dispose, Revoke
<1>9. CASE \E q \in Request : Cancel(q) \/ CancelQueued(q)
  BY <1>2, <1>9 DEF Cancel, CancelQueued
<1>10. CASE \E s \in Session : CancelSession(s)
  BY <1>2, <1>10 DEF CancelSession
<1>11. CASE \E p \in Provider : PollParks(p) \/ PollTimesOut(p)
  BY <1>1, <1>11 DEF PollParks, PollTimesOut
<1>12. ASSUME NEW q \in Request, NEW p \in Provider, Acknowledge(q, p) \/ RespondTransfer(q, p)
       PROVE  StepOf(r)
  BY <1>2, <1>12 DEF Acknowledge, RespondTransfer, Matches
<1>13. CASE UNCHANGED vars
  BY <1>1, <1>13 DEF vars
<1>14. QED
  BY <1>3, <1>4, <1>5, <1>6, <1>7, <1>8, <1>9, <1>10, <1>11, <1>12, <1>13 DEF Next

\* The transport implements OnceDelivery: each request is handed over at most
\* once and its promise resolves at most once, however leases, polls, timers
\* and cancellations interleave.
THEOREM Refinement == Spec => DeliversOnce
<1>1. Init => Delivery!Init
  BY DEF Init, Delivery!Init, status
<1>2. IInv /\ IInv' /\ [Next]_vars => [Delivery!Next]_status
  <2> SUFFICES ASSUME IInv, IInv', [Next]_vars, status' # status
               PROVE  Delivery!Next
    OBVIOUS
  <2> DEFINE moved == {r \in Request : status'[r] # status[r]}
  <2>1. /\ status = [r \in Request |-> status[r]]
        /\ status' = [r \in Request |-> status'[r]]
    BY DEF status
  <2>2. moved # {}
    BY <2>1
  <2>3. \A r \in moved : <<status[r], status'[r]>> \in Delivery!Edge
    BY NextSteps DEF StepOf
  <2>4. status' \in [Request -> Delivery!Status]
    <3>1. \A r \in Request : status'[r] \in Delivery!Status
      BY StatusOfNext DEF IInv, EntryInv, PendingIffEntry, Promise,
                          Delivery!Status, Delivery!Settled
    <3>2. QED BY <2>1, <3>1
  <2>5. Delivery!Move(moved)
    BY <2>2, <2>3, <2>4 DEF Delivery!Move
  <2>6. QED BY <2>5 DEF Delivery!Next
<1>3. QED BY <1>1, <1>2, InductiveInvariant, PTL DEF Spec, Delivery!Spec, DeliversOnce
=============================================================================
