# Verification of the cmux Linux service

TLA+ specifications of the concurrent core of this repository, model-checked
with TLC and, where marked, proved with TLAPS. Paths are relative to the
repository root; `server/` abbreviates `apps/server/src/`, `desktop/`
abbreviates `apps/desktop/src/main/`.

## 1. The system

Three processes share one durable SQLite database owned by the middle one.

* **Electron main** (`apps/desktop`) owns windows, browser views and the
  desktop secrets. It starts the Node service, talks to it over an inherited
  private pipe (the *owner channel*) and over loopback HTTP, and supervises it.
* **The Node service** (`apps/server`) owns the application state: workspaces,
  tabs, terminals, agents, remote targets, browser automation. Every mutation is
  a SQLite transaction that yields a new revision; clients follow it by snapshot.
* **Clients**: the renderer (`apps/web`), the CLI (`apps/cli`), and the shared
  client code in `packages/`.

### Inventory

Per component: the state it keeps; its operations; what is hard; what makes it
correct. The last column of section 2 says which are modelled.

1. **Provider lease authority** (`server/browser-automation/provider-authority.ts`).
   State: window → registered provider identity. Operations: register, isCurrent,
   claim, revokeWindow, revokeIfCurrent, dispose. Hard: a check revokes as a side
   effect; a loss notification may arrive after the replacement. Correct when no
   work survives its lease and a late notification spares the replacement.
2. **Provider mailbox** (`provider-mailbox.ts`). State: pending entries, the
   queue array, parked polls, one timer and one completion promise per entry.
   Operations: publish, poll, acknowledge, respondTransfer, cancel (four kinds),
   revokeProvider, dispose. Hard: long polls racing publishes, a queue shared by
   providers that polls rotate, promises that must settle once.
3. **Browser automation records and runtime** (`durable-records.ts`, `runtime.ts`,
   `screenshot-handles.ts`, and the construction, sweep and close of
   `http/window-owner-channel.ts`). State: session and operation rows, screenshot
   handles. Operations: create, invoke, cancel, destroy, acknowledge, poll
   observations, interrupt, reconcile (once a second), recover. Hard: durable rows
   and volatile requests must agree across revocation, timers, refusal, crash.
4. **Browser automation in Electron** (`desktop/browser-automation-{provider,manager,devtools,recording}.ts`).
   State: the poll loop and the handlers of what it took; per manager the sessions with
   their pages, epochs and expiry timers, the creations under way, the running
   operation of a session and its abort. Operations: poll, create, execute, cancel, destroy,
   navigation of a page, local expiry, stop. Hard: a hidden window that opens without
   regard to an abort; expiry, destruction, navigation and loss of the provider while an
   operation waits for the page; an answer that comes too late. Correct when no
   page is left behind, an operation touches only what it was fenced for, and no page
   outlives its session's row.
5. **Window hosting and binding** (`server/http/window-hosting-authority.ts`,
   `window-binding-registry.ts`, `window-owner-channel.ts`, and `reconcileWindowHosting`
   of `server/persistence/application-state-store.ts`). State: claims with a 15 s
   lease, the highest generation seen per window, bindings, placement rows.
   Hard: stale closes and stale heartbeats of an older renderer generation.
6. **Terminal service and reconciler** (`server/terminal/terminal-service.ts`, the
   events route of `server/http/app.ts`, the terminal handlers of `desktop/node-sidecar.ts`,
   `apps/web/src/terminal/{TerminalPane,TerminalReconciler,CheckpointScheduler}`).
   State: output journal with sequence numbers, checkpoint, event sockets; in the
   renderer the applied sequence, the queue of writes, the restore under way, the
   chain of attachment transitions. Operations: output, attach, subscribe,
   checkpoint, detach, restore, flush, mount, unmount. Hard: replay racing live output,
   gaps found in the middle of a restore, checkpoints overtaking one another, a
   bounded journal and a bounded socket. Correct when the screen shows the output once
   and in order, and what was lost is noticed and repaired.
7. **Workspace terminal runtime and state store** (`server/domain/workspace-terminal-runtime.ts`,
   `server/persistence/application-state-store.ts`). State: tab → process, and the durable
   tabs. Operations: start with reconciliation, the mutations that create, replace, close
   or move tabs, restart and resume of one terminal, detach with an observed exit, lookup,
   stop; in the service creation, exit, retention, termination, disposal. Hard: a
   process is spawned before its row commits and must be killed if the commit fails,
   and the old one only if it succeeds. Correct when no process outlives its owner and no
   open tab loses a process that nobody replaced.
8. **Agents** (`server/agents/*`, `server/persistence/agent-*.ts`). State: the durable
   session row (lifecycle, hibernation, revision, checkpoint), the challenges, the processes
   known to be resumed. Operations: register, assess, restore, preflight, confirm, cancel, and
   the moves of its tab. Hard: the user consents to end one process, and between the consent
   and the end everything may move; a crash between the confirmation and the
   final transaction. Correct when a process ends only by consent or by closing its tab, and
   `hibernated` means that its exit was seen.
9. **Remote sessions** (`server/remote/*`, `server/persistence/remote-catalog.ts`). State: rows
   with an attempt generation, the target with its host key, the target's operation
   lock, the SSH transports and their map, reconnect timers and their budget. Operations:
   prepare, activate, detach, close, transfer, host key decision, replacement of the
   credential, deletion, dispose, restart. Hard: awaits between a fence and its use, callbacks
   of an earlier transport. Correct when an attempt acts only for the row and target it
   reserved, no transport is left without an owner, and every attempt ends.
10. **Desktop supervision** (`desktop/service-supervisor.ts`, `lifecycle-controller.ts`,
    `application-quit-orchestrator.ts`, `update-controller.ts`, `window-registry.ts`,
    `window-state-controller.ts`, `node-sidecar.ts`, recovery coordinators). `ServiceSupervisor` and
    `LifecycleController` are constructed by tests only: `index.ts` declares its
    `supervisor` (line 130) and never assigns it. What the program runs is `NodeSidecar`
    and `restartNativeDesktop` (`index.ts:3350-3425`), which `WindowHosting` has as `Restart`.
11. **Persistence ownership and migration** (`server/persistence/*-lock.ts`,
    `isolated-copy-ownership.ts`, `legacy-*.ts`, `*-preflight.ts`). Mostly file I/O
    under an exclusive lock.
12. **Domain mutations** (`server/domain/*-mutations.ts`). Synchronous
    transactions over tree-shaped data; the hard part is the data, not the control.
13. **Service actions, content and vault index, configuration, diagnostics, logging.**
    Request handlers around file and index I/O.
14. **Web UI, CLI, packages, website.** Rendering, argument parsing, schemas.

### How the modelled parts interact

```
 caller --HTTP--> runtime --stage--> rows (SQLite)      Electron main
                    |                  ^                 |  register/revoke (pipe)
                    publish            | acknowledge     |  poll/ack (HTTP)
                    v                  |                 v
                  mailbox <--claims-- lease authority <--+--> manager: sessions, pages, timers

 client --mutation--> exclusive section --spawn/close--> terminal service --socket--> pane
 agent services -----------^    (rows commit in between)       (journal, exits)

 client --> activation --lock--> target, rows      transports (SSH) --exit--> reconnect timer
```

`runtime.ts` claims the window's lease, stages a row, publishes a request and
attaches a callback to its completion promise; an interrupted completion makes
the row terminal. The provider polls for the request, runs it, and acknowledges;
the acknowledgement first commits the row and then removes the entry.
`window-owner-channel.ts` sweeps once a second and closes everything in order.
Mutations of the workspace run one at a time in the store's exclusive section; the
agents' restore and hibernation go through the same section, and the hibernation waits
in it for the exit of a process. Remote sessions share nothing with either but the panes they
are shown in.

## 2. Modules

| module | models | role |
|---|---|---|
| `OnceDelivery` | nothing; a promise | abstract transport: at most one delivery, exactly one settlement |
| `ProviderMailbox` | components 1 and 2 | leases, queue, parked polls, promises; implements `OnceDelivery` |
| `ProviderMailboxProofs` | | TLAPS proofs about it |
| `BrowserAutomation` | component 3, over `OnceDelivery` and the leases | rows, handles, handlers, sweep, close, crash, restart |
| `WindowHosting` | component 5, both ends of the hosting protocol | claims, leases, placements, channel, Electron main's timers |
| `WindowHostingProofs` | | TLAPS proofs about it |
| `TerminalJournal` | component 6, one session in the service | journal, byte limits, checkpoint, request for one |
| `TerminalJournalProofs` | | TLAPS proofs about it |
| `TerminalScreen` | component 6, from the PTY to the screen, over `TerminalJournal` | socket, Electron main, pane, reconciler, checkpoint scheduler |
| `TerminalScreenProofs` | | TLAPS proofs about it |
| `AutomationProvider` | component 4, over `BrowserAutomation` | poll loop, handlers, manager, pages, timers, both ends together |
| `AutomationProofs` | | TLAPS proofs about `BrowserAutomation` and, over these, about both ends |
| `WorkspaceTerminals` | component 7, and the sessions of component 6 | mutations with the processes they spawn, bind and retire |
| `AgentHibernation` | component 8, over `WorkspaceTerminals` | registration, restore, preflight, confirmation, observed exit |
| `AgentHibernationProofs` | | TLAPS proofs about it and `WorkspaceTerminals` |
| `RemoteActivation` | component 9 | rows, target, lock, activations, transports, timers |
| `RemoteActivationProofs` | | TLAPS proofs: types, lock, target, transports |
| `RemoteConnectionProofs` | | TLAPS proofs over these: rows, timers, budget, what drives a session |
| `MCBrowserAutomation`, `MCAutomationProvider` | | symmetry for TLC; the configurations give the constants |

### ProviderMailbox

`leases`, `issued`, `closed` are the authority's maps and its disposal;
`hosted` is what the authority reads of the state snapshot; `entries`, `queue`
and `pollWaiters` are the mailbox's. `ahead` is the order of the queue array as a
relation, so that the rotation a poll performs is one set expression and the
proofs need no induction over sequences. `promise` and `handed` record what the
publisher and the provider have seen. A provider identity is a number because
each registration draws a fresh (providerId, providerEpoch, leaseId) bound to one
window generation, so comparing any of them is comparing registrations.
Each handler is one step: the process is single threaded and none of these
handlers awaits in the middle of a state change. A check that revokes as a side effect
(`isCurrent`, `claim`) does so in the handler's own step; the calls that then fail
are `RejectLapsed` and `ClaimFails`.

### BrowserAutomation

`mail` is the status of each request in the mailbox: the mailbox is used as
`OnceDelivery`, which `ProviderMailbox` is *proved* to implement. Requests are
named by the row they serve, ids being UUIDs that are not reused. A completion
promise resolves inside a handler and its callback runs in the microtask that
follows, before another handler; `Complete` therefore ends every handler with the
rows its interruptions produce. The wall clock is two flags, `expired` and
`overdue`, that the environment may raise at any time on a live row.
`hosted` may change at any time: it belongs to component 5.
Screenshot transfers only occupy capacity: `MaxTransfers` entries may be in the
mailbox at any publish, so a publish may be refused that much earlier.
`AcknowledgeScreenshot` keeps the code's two validations of a handle, before
and after the transaction, and the case where the second one throws with the
row committed and the entry still in flight.

Left out of it, with the reason: the replay of an identical request (it returns
a stored answer and writes nothing), the ephemeral result cache and recordings
(data), the content of operations, a second profile (limits are per profile and
independent), and a `close` whose recovery throws, which is `Crash`.

### WindowHosting

`claims`, `lapsed`, `highest` are the authority's two maps, a lease being a flag
the environment raises; `placements` is the hosting state of the durable
snapshot. `entries` and `nextGeneration` are Electron main's window registry,
`hosting` its `nodeHostingClaims`: the generation claimed, what the claim's
promise chain waits for, and `recoveryPending`. `requests` and `replies` are the two
directions of the owner channel, which is one ordered stream each way.

`Serve` is one handler of `window-owner-channel.ts` with everything it calls:
`expire`, the staleness check, the transaction that writes *all* claims, then the
maps, then the answer. The transaction throws when any claimed placement is
gone or closing; the model keeps where each throw leaves memory and snapshot. On the
other side each `await` ends a step: `StartHosting`, `Tick`, `HandleReply`,
`Recover` and `AutomationAnswers` are the stretches of `startNodeHostingForWindow` and
`recoverNodeWindowHosting` between awaits, and any other action may fall between
them. `StopHosting` is called by the registry before it changes or drops an
entry, hence its place in `RefreshRenderer` and `CloseWindow`. An
answer is matched to the request by operation and generation instead of a request
id: Electron main has at most one claim request of a generation under way.

Left out, with the reason: capabilities (`issue`, `resolve`, `revoke` of
`window-binding-registry.ts`: a table of random tokens, revoked by window); a full
or timed-out channel, which closes it, so that Electron main sees no further answer
until the restart; the revisions of placements;
`rekey` of the window registry, which the Node service never asks for; and the
order of the steps inside `restartNativeDesktop`: `Restart` takes the releases
it sends and the end of the old service together. Placements come and go by
several mutations; `PlacementCreated` and `PlacementRemoved` allow what any of
them does. Placement ids are UUIDs and are not reused.

### TerminalJournal

The variables are the fields of `TerminalSession`; a piece is its number and its
length. `appendOutput` cuts a read into pieces in a loop that nothing interrupts: an
iteration is a step (`AppendOutput`), `unread` is what the loop still has to cut, and
every other handler waits for `unread = 0`. The two `shift` loops are one choice of how
many pieces go, constrained the way the loop condition constrains it: trimming takes the
least number whose bytes fit. `Terminate` only raises the flag: output after it is kept.

Left out: input. Creation, exit, retention and termination of sessions are in
`WorkspaceTerminals`.

### TerminalScreen

`TerminalJournal` is instantiated as the service (`terminating` is FALSE: a terminal
that is being closed has no pane). The rest of the path is in the order of the code:
`Emit` is the socket's listener in `app.ts`, which sends an event or, when the backlog is
full, closes; `wire` are the events in the socket; `Forward` and `SocketClosed` are
`subscribeTerminal`; `channel` is the one ordered channel from Electron main to the
renderer, which carries events as well as the answers to attach. `exchange` is
`terminalAttach`: the snapshot, then the subscription, then the answer.

In the renderer, `operations` is the reconciler's promise chain: a batch collects
pieces until it starts; a restoration resets the screen and writes one item after
another, each continued by xterm's callback (`Parse`). `captures` are the
`captureCheckpoint` calls waiting in `whenIdle`, each with the number of operations queued
before it. `transitions` is `attachmentTransitions`, whose head runs. `restoring`
is the stage of the promise of that name, `restoreAgain` a gap chained on it, and
`orphan` such a chain that outlived its pane. `posts` are the checkpoints on
their way to the service and the answers on their way back; two of them may overtake each
other, as two IPC calls with HTTP requests behind them do. Output is a set of piece numbers: a
screen, and the projection a checkpoint carries, is what it shows.

A promise continuation runs before the next event of the renderer, so every action that is
an event requires `Settled`. `crossing` and `subscriber` are history variables: the pieces that the
last attachment may pass over, and the pane that the event socket was opened for. They make precise
which losses the code tolerates, and nothing reads them.

Left out: resizing and its checkpoints, input, the decoding of a malformed piece, the
size limit of a checkpoint, remote terminals, the suspension of windows, and a
checkpoint that a disposed pane had queued (what a disposed xterm serialises is not in
this repository).

### AutomationProvider

Extends `BrowserAutomation`: the actions of the service, apart from those named below, are steps here, and those a
provider takes part in (register, poll, create, invoke, acknowledge) are composed with what
Electron main does. `active` is the provider that runs for a window, `work` the handler of each
request that was taken, `local` the manager's sessions, `open` the hidden windows and
attached pages. A page is named by the request that opened it, which tells a
recreated page from the first. `attached` says which sessions attach to an existing page.
Code between two waits of a handler is one step. An abort rejects the promise the
handler waits for and what follows runs before the next event, so the aborted
handler goes on in the step that aborts it (`Aborted`, `EndAll`); only the opening of a
page does not hear the abort, and its handler settles the page when it is there (`Opened`). A
request handed to a parked poll is a publish followed by `Polls`. Requests of a session are
handled in order, its destruction last, as the manager chains them. A request that arrived is
handled before the next poll; only the creation of an attached session may first wait for its tab
(`AwaitsTab`), for up to 5 s and unregistered, while polls go on. A wait for a URL skips the check of the
epoch that other operations start with (`Executes`), and runs as an operation that its page may leave.

Time is counted in ticks. `left` is what remains of the row's expiry, `carried` the same in the
snapshot a request carries, and `local[s].expires` what remains of Electron's timer;
`IdleTime` stands for the 30 minutes. The manager's own idle timer is left out: it is as long
and starts later than the one that the snapshot sets. Close, crash and restart of the service and the
unhosting of a window are left out here (they are in `BrowserAutomation`): to the provider
they are the loss of its lease. An operation overdue at the service is `TimesOut`.

Left out, with the reason: what an operation does in the page, its outcome beyond
succeeded, failed, canceled (data); screenshots and transfers (in `BrowserAutomation`, from the service's
side); developer tools and recordings (data); the limit on navigations, which bounds a counter; the coordinator that registers a new
provider after a loss, whose result is `Registers`.

### WorkspaceTerminals

`tabs` are the durable terminal tabs, `sessions` the runtime's map, `status` what became of each
process, `exitedOrder` the exited ones the service retains, `standalone` those that `POST
/v1/terminals` made. `op` is the mutation that is in the exclusive section: which tabs still
need a process (`todo`), those made so far (`made`), which tabs the commit closes or
moves. The queue of the section is not modelled: a mutation begins when the section is free. A
section and the code up to its next wait are one step, so a mutation that spawns
nothing is one step and another is `Begin`, a `Spawned` per tab and the commit in the last
of them; the spawn, or the commit itself, may fail (`SpawnFails`), and exits, deletions, disposal and the
death of the service come between. Panes and workspaces are abstracted to the set of tabs a mutation
takes and whether it needs a replacement; revisions and idempotency records are left out: a
replayed commit is a failed one to the processes spawned for it. A tab id is used once.

### AgentHibernation

Extends `WorkspaceTerminals` with one agent bound to one of the tabs. `row` is the durable session,
`challenge` the revision its retained nonce was issued for, `verified` the process a resume
started, `clients` those who ask to hibernate and how far they are, `attempt` the restore
that awaits its process. The detachment keeps the exclusive section
(`op.kind = "detach"`) until the exit is seen or its timer fires; when it ends, the section goes to
the next mutation before the confirmation continues, so a mutation that awaits nothing may come at
"settling", and `Settle` then meets the row it left. The intent and the attempt epoch of a row
never change without its revision and are left out, as are the operation records that answer a
repeated request.

Left out: forks, teams, attention, the `replace` mode of a restore, and the Codex protocol (a
verification succeeds or fails).

### RemoteActivation

One target with its sessions; targets share nothing. Each stretch between two awaits of an
activation is a step (`Reserve`, `Prepared`, `Spawn`, `LaunchReturns`, `Completed` and the
failures of each), and a section of the target's lock with what follows it up to the next wait is one
step. `rows` and `target` are durable; `lock` is the holder and its queue, `work` the
activations under way, `upkeep` a deletion or a credential replacement, `timers` and `attempts` the
maps of the two services, `transports` the SSH processes, `stopping` and `exits` those that are
being stopped or whose callback is under way. `RecordExit` is both sections of `recordExit`: the
one that may fail the row is queued as soon as the first has ended, so only sections already
in the queue come between, and after disposal it is not run, which leaves the row reconnecting.
`Restart` undoes a pending replacement of the credential, or leaves it when a live resume preserves it. The
variables `stranded`, `tmux` and `spent` are history that no guard reads; `released` is what a repeated
detach answers with, `limit` the `maxAttempts` of each session.

Left out, with the reason: discovery of tmux sessions (a read), the credential broker and the
enrolment of a new target (they come before the target exists), host key scans (their
result is `DecideHostKey`), the clean-up of keys and backups (files).

## 3. Runs

| run | question | instance |
|---|---|---|
| `mailbox` | is a request ever orphaned or left behind a parked poll, and does the mailbox implement `OnceDelivery` with its liveness? | 2 windows, 2 identities, 3 requests, capacity 2 |
| `automation` | do rows and mailbox stay consistent through every path? | 1 window, 1 session, 2 operations, 2 epochs |
| `automation_sessions` | do limits hold across successive providers, is staged work resolved, do orphan sessions end? | 2 sessions, 2 identities, 1 operation, capacity 2 |
| `hosting` | do placements and claims agree, does the current claim win every race, is a claimed window hosted again and an abandoned one released? | 2 windows, 3 generations |
| `journal` | is what attach says about its journal exact, and is a discard announced? | 7 pieces of 1 or 2 bytes, limits 2, 4 and 6 |
| `screen` | is output shown once and in order, is a gap noticed and repaired, a request kept, and does restoring end? | 2 pieces, journal of 1, full socket, 2 mounts, 1 failure |
| `remote` | does an attempt act only for what it reserved, is every transport owned, does every attempt end? | 1 session, 2 activations at a time, budget up to 2, 3 generations, 3 requests |
| `agents` | does a process end only by consent or with its tab, is hibernation observed, is no process left over? | 2 tabs, 2 clients, 3 processes, 2 starts, 5 revisions |
| `provider` | is a page ever left behind, run on unfenced, or kept past its row's expiry? | 1 session, 2 operations, 2 epochs, expiry after 1 tick, timeouts up to 2 |
| `late_answer`, `remote_new_session`, `agent_stranded` | disagreements between a document and the code, see "Findings" | as `provider` with 1 operation and 1 epoch; as `remote`; as `agents` with 1 client and 1 start |

Why these bounds are enough to be interesting. *Mailbox*: three requests exceed a capacity
of two; two identities over two windows give each window a provider, or one of
them a replacement, which is what a late loss notification needs; two requests of two providers
and one more are enough for a rotation to move a foreign id. *Automation*: two operations on one session
let one be canceled or late while the other is queued; two epochs
let reports arrive out of order; one session per provider makes the second
session meet the limit. `MaxProvider`, `MaxNavigation` bound counters that the
code leaves unbounded; reaching a bound only stops new registrations or epochs.
*Hosting*: two windows are enough for one window's removed placement to fail the other's
requests; three generations give one window its claim and the other a claim and a refresh, or
a recovery. `MaxGeneration` bounds a counter that the code lets grow to 2^53; a recovery that finds no
generation left fails and is repeated, as in the code, and `ClaimedGetsHosted` excuses
exactly that state. *Journal*: seven pieces, of one and two bytes, let a journal discard
more than one at once; `MaxRead` bounds a read. *Screen*: two pieces over a journal of one make the
journal discard, behind a checkpoint or at the start; a limit of 0 lets a socket
close at its second undelivered event; one failed attachment is enough to take every error path of a
restore; two mounts are a departure and a return. `MaxSequence`, `MaxMounts` and `MaxFailures` bound
what the code does not. *Remote*: two workers are an activation and its successor, or a
retry beside a client's request; three generations are an attempt, its replacement, and what
follows a loss; `MaxRequests` counts what clients and the environment ask for
(preparing, detaching and closing are free). *Agents*: three processes are the tab's first,
the resumed one and a replacement; two clients race for a confirmation; two starts are a
crash at any point; one retained session makes the second exit evict the first. *Provider*: the
second operation renews the expiry that the first one's snapshot carried, and may be queued, taken
or running when the first ends; two pages of a session come from its creation and its recreation;
`MaxTimeouts` 2 lets requests time out until two were interrupted.
Symmetry is used in safety runs only (`automation`, `provider`); operations, sessions and windows are not
distinguished by any constant.

What the properties say (each is stated above its definition):

* `NothingOrphaned`: entries and parked polls belong to a provider that
  holds a lease. `NoLostWakeup`: nothing waits in the queue of a parked provider.
  `DeliversAndSettles`, `DeliversOnce`: at most one delivery, and a settlement.
* `LiveOpHasReadySession`, `LiveWorkIsPending`: no path leaves a row waiting for
  a request that is gone. `OutcomeIsFinal`, `WithinLimits`: what the caller saw, what may be used
  at once. `ExpiryFencesWork`: the sweep that ends an expired session interrupts all that is pending
  for it, and no operation or cancel request enters the mailbox for a session that is not ready. The
  code does not look at the expiry when it stages: until the sweep runs, staging on an expired session
  renews it, and so does the model.
* `WorkIsResolved`, `OrphansEnd`: under fairness, waiting ends.
* `PagesHeld`: every open page belongs to a session of a running provider, or to a
  creation whose handler will settle it. `RunsFenced`: what runs, runs on a session the manager still
  has and on the page the caller saw. `ExpiryNotLater`: the expiry Electron goes by, although taken
  from an older snapshot, is never later than the row's.
* `HostedIffClaimed`: the durable placements and the claims in memory agree between
  handlers. `ClaimIsCurrent`: an earlier renderer's requests do not take
  the window of a later one.
* `ClaimedGetsHosted`, `AbandonedGetsReleased`: lapses and refusals are not final.
* `CompleteExactly`: `reconstructionComplete`, kept by three places of the code, is exact.
  `DiscardIsSignalled`: output is not dropped without a request for a checkpoint before.
* `WritesAreNew`, `RestoresSuffice`: nothing is on the screen twice, and a complete snapshot
  can be replayed. `RequestIsKept`: a request for a checkpoint is not lost track
  of. `BehindOnlyAcrossAttach`: a pane at rest whose own attachment is subscribed lacks only what
  that attachment passed over. `NoResyncLoop`: restoring ends.
* `NoStrayProcess`: a process has a tab, a mutation in progress, or an explicit owner.
  `KeepsProcess`: an open tab loses its process only to a mutation that replaces it, to the end
  of the service, or by consent to end this very process. `ConsentStands`: while the process is being
  ended the row is what the user agreed to. `AttemptStands`: a restore is not overtaken.
  `HibernatedIsObserved`, `ConfirmEnds`: hibernation means a seen exit, and a confirmation ends.
* `InFlightIsDriven`, `ConnectedIsLive`: a row in flight has an attempt or timer, a
  connected one a transport or an exit on its way. `TransportsAccounted`,
  `ReleasedKeepsNothing`: no SSH process runs without an owner. `BudgetKept`: retries stay in
  their budget. `LossIsReal`, `TargetHeldStill`: no callback of an earlier transport and nobody
  who waits for the lock acts under a running attempt. `AttemptsEnd`, `ReconnectEnds`.

The type invariant of every module is proved (section 4) and kept by no run, as are
`QueueMatchesEntries`, `PendingIffEntry`, `HandedOnce`, `HandlesOwned`, `NavigationAdvances`,
`JournalIsLatestOutput` and `BytesCounted`.

### Findings

With a run:

* `late_answer` (`LateAnswerIsHarmless`). The sweep removes the entry of an overdue operation while
  Electron main, whose timeout of the same length began later, is about to answer. The answer
  is refused (`provider-mailbox.ts:183-188`), the handler does not catch the refusal, and the poll loop
  takes it for the loss of the provider and disposes of all its sessions. Decision 0010:99-100 says that a
  stale callback returns the already persisted terminal result.
* `remote_new_session` (`NewSessionNotReplayed`). Only a completed activation changes a session's
  tmux mode to `attach`. A service that stops between the launch and the completion sends
  `tmux new-session` again; decision 0012:92-94 says it is never replayed.
* `agent_stranded` (`DispositionIsDriven`). A tab that moves while the exit of its agent is being
  recorded advances the row's revision; the confirmation throws and the session stays in
  `processDispositionPending`, which preflight, cancel and restore all refuse. A crash at that point has
  the same result. Decision 0011:103,112.

Without a run; each shows when the property is added to the configuration named:

* `NothingLeftBehind` (`MCTerminalScreen.cfg` with `MaxSequence` 3, the journal's three limits 2, `SocketLimit`
  10, 1 mount, no failures). `terminalAttach` takes its snapshot before it
  subscribes and drops the snapshot that the new socket begins with. Output in between
  is not shown until more output comes; `ROADMAP.md` promises a reconstruction "without new
  PTY input".
* `Subscribed` (the same with `SocketLimit` 0). `restore()` returns the restore under way, also to a
  `terminal.resyncRequired` that arrives after its snapshot. The pane rests without an event
  socket; `docs/PROTOCOL.md` says the desktop then reattaches.
* `CheckpointShowsItsOutput` (the same with limits 9, `SocketLimit` 10 and 2 mounts). A pane unmounted in the middle of a
  restore pairs the sequence from before the reset with the screen from after it. The service
  accepts the checkpoint and drops the output that nothing shows any more.
* `RequestIsAnswered` (`MCTerminalScreen.cfg`). A flush that the service refuses, because a later
  checkpoint overtook it, ends `drain()`; a request that came meanwhile waits for the next
  output, with no timer running.
* `HiddenIsDetached` (`MCTerminalScreen.cfg`). A gap chained on a restore attaches after its
  pane was unmounted and detached.
* `BehindOnlyAcrossAttach` without its conjunct `subscriber = pane` (`MCTerminalScreen.cfg` with
  `MaxSequence` 4 and no failures). The same attachment (`TerminalPane.tsx:294-304`) may come when the pane is mounted
  again and its socket is closing for a full backlog: it replaces that socket before the close is
  reported, and what the socket refused is not shown until more output comes.
* `PageKept` (`MCAutomationProvider.cfg` with `IdleTime` 2, `MaxNavigation` 1 and without the symmetry).
  `invoke` sends the session snapshot it read before the staging renewed the expiry (`runtime.ts:125`), so
  Electron main closes the page 30 minutes after the use before the last, and the next operation gets a
  blank page. Decision 0010:72 has sessions expire after 30 minutes of inactivity.

Met while reading, and kept in the models as the code has them:

* Canceling an operation whose session is being created again does not stop the creation.
* A recreated page starts at the epoch of the operation that caused it, which may be behind the
  row's; its answer is then refused as stale.
* A session terminated after the warning can be restored, although decision 0011:123 calls it
  non-resumable; after an unverified termination a restore may start a second process beside the first.
* An exited terminal that was evicted from the retained ones makes `restartTerminal` refuse its tab.
* `closeTab` refuses a tab bound to an agent; closing its pane, workspace or window does not.

The passing runs say what holds in spite of them.

### Fairness

`WF(Cancel(r))` / `WF(TimesOut(r))`: each entry has its own `setTimeout`, which only
`remove()` clears (`provider-mailbox.ts:101,347-355`), so a pending entry's timer
eventually fires. `WF(Reconcile)`: `window-owner-channel.ts` sweeps on a
`setInterval` for as long as the channel is open. In `WindowHosting`: `WF(Serve)`
and `WF(HandleReply)`, both ends read their stream as data arrives; `WF(Sweep)` and
`WF(Tick(w))`, the 1 s and 5 s intervals (`window-owner-channel.ts:78`,
`index.ts:286`); `WF(AutomationAnswers)`, an HTTP request that settles;
`WF(LeaseLapses(w) /\ Unrenewable(w))`, a lease that nobody can renew runs out after
15 s. In `TerminalScreen`, `WF(Progress)`: of all that was begun, something goes on
(requests are served, sockets deliver, promises settle, xterm parses, timers fire); nothing is
assumed of new output, failures or the user's navigation. In `AgentHibernation`: a spawn
succeeds or fails, a restore that began goes on, the timer of a detachment fires (`WF`), and
`SF(\E c : DetachBegins(c))`, because the exclusive section is a promise chain that serves its
callers in order. In `RemoteActivation`, `WF(Internal)`: every probe, launch and stop has a
timeout, the lock is a FIFO chain, timers fire; requests and generations are bounded, so that one
conjunct stands for one of each action. The `provider` run is about safety and assumes none. Nothing is assumed of the
provider, the caller, or Electron; a crash needs no restart, because the
properties speak only of a process that is up.

## 4. Proofs

`ProviderMailboxProofs` proves, for any windows, requests, sessions, capacity and
number of registrations: `TypeCorrect`, `QueueSafety`, `WakeupSafety`,
`HandoverSafety`, `OwnershipSafety`, and `Refinement` (the mailbox implements
`OnceDelivery!Spec`). The inductive invariant is `EntryInv /\ OwnerInv`.
`EntryInv` concerns entries, queue, promises and hand-overs and is re-established
by one lemma on `Remove` and one each on `Enter` and the polls; `OwnerInv` adds to
the safety properties that two windows never share a provider and that
identities are never reissued (`LeasesExclusive`). Without it a revocation of one
window's lease could remove another's entries while its lease stays, and
`NothingOrphaned` is not inductive.

The first part of `AutomationProofs` proves of `BrowserAutomation`, for any windows, sessions, operations and limits:
`TypeCorrect`, `ReadySessionSafety`, `PendingWorkSafety`, `HandleSafety`,
`FinalOutcomes`, `NavigationOrder`. The invariant is `EnvOK /\ RowInv`: types of what the
environment owns, and a conjunction of the row properties. They need one another:
a sweep ends a session and must take its queued operations along
(`LiveOpHasReadySession`), which it finds through their requests
(`LiveWorkIsPending`), and handles are released by session, which is enough only
because a handle's operation succeeded on it (`HandlesOwned`). `Complete` is
handled by one lemma for every handler: interrupting any set of requests keeps the
invariant on the rows a handler left, provided the requests of the rows still
waiting are pending or in that set.

It also proves `OnceOnly`, `ExpiryFence` and `LimitsKept`. `DeliversOnce` is a refinement, each step of
the service being one move of `OnceDelivery` or none; it needs `MailInv`, that a request no row asked for
is idle. Without it a row could be staged whose request is already in the mailbox, and `Put`
would not be a legal move. `ExpiryFence` needs it too, the destroy a
sweep posts is of a session that has none pending, and `EntersReady`: only `Invoke` and `CancelOperation`
put a request of an operation into the mailbox, and both leave its session ready. `WithinLimits` counts sets, and a count says nothing of a set that
might be infinite: `LimitInv` says first that the rows are finitely many, then that `Pending`, the
live sessions of each provider, and the queue and handles of each session keep their limits. Every
handler that adds to one of them counts it before, all others shrink it (`Grows`, `Shrinks`).

`WindowHostingProofs` proves, for any windows and number of generations:
`TypeCorrect`, `PlacementAgreement`, `CurrentClaim`. The invariant adds to
`HostedIffClaimed` what both ends know of the generations. `Latest(w)` is the
newest generation Electron main may have asked for; it never decreases. Requests
in the channel are at most `Latest` (`RequestsInv`), granted answers at most
`highest` (`RepliesInv`), and `highest` lies between the generation Electron main saw
granted and `Latest` (`HighestInv`). When a claim is settled the two bounds
coincide, and a claim is always of the highest generation, which gives
`ClaimIsCurrent`; without the bounds on messages under way the property is not
inductive. The steps are split by side: every handler of the service satisfies
`ServiceStep`, every step of Electron main `Issues`, and one lemma for each shows that
the generations stay in order.

`TerminalJournalProofs` proves, for any limits and any length of output: `TypeCorrect`,
`JournalContiguous`, `ReconstructionExact`, `BytesExact`, `DiscardAsks`. The invariant is the conjunction of the
types and the two properties that follow: the flag is exact because trimming shifts only pieces that the checkpoint
does not cover, which is what the journal's position relative to the checkpoint says, and that
position is kept because both loops shift from one end. Its lemma `Remaining` states once
what shifting leaves. `DiscardIsSignalled` needs the count of bytes as well: the code keeps
`journalBytes` by adding and subtracting, and `BytesExact` says that it is the sum of the pieces'
lengths after any sequence of both. Then trimming after
a checkpoint leaves more than the limit less one piece, which is still at least the threshold of the request
(`LimitAssumption`: 64 KiB and 64 KiB in 256 KiB; the constants of
`terminal-service.ts` satisfy it).

`TerminalScreenProofs` proves, for any limits of journal, batch and socket and any length of output, mounts and failures:
`TypeCorrect`, `SnapshotsAreWhole`, `ScreenGrows`, `RequestsAreKept`, `LossIsAcrossAttach`, and
`JournalRefined`: with socket and pane around it the service takes only steps of `TerminalJournal!Spec`, so that what is
proved of a session there holds on the whole path. Its invariant grows in three layers:

* `CoreInv` is `Known /\ FlowInv /\ RestoreInv`. `Known` says of everything on its way (events, answers, snapshots,
  checkpoints, batches) that it speaks of pieces already put out, and of a complete snapshot that its output follows
  its checkpoint without a gap. `FlowInv` says whose turn it is: one exchange, one answer and
  one checkpoint of a transition, each for the head of the chain. Without it an answer could come to a pane whose
  attachment it does not answer. `RestoreInv` says that the restore under way is in one place, an
  attachment or the queue, and that a gap which was noticed is remembered until one repairs it. The first three
  theorems follow from `CoreInv`.
* `RequestInv`: since the service asked, at some piece `r` that its checkpoint does not cover, either a flush is due or
  under way, or `r` has not come to the pane, or a checkpoint of at least `r` follows the restore.
  `RequestIsKept` alone is not inductive: it speaks of a pane at rest, and the request may be
  dropped in every stage before.
* `ArrivalInv`: each piece after what a snapshot, an answer, a queued restoration or the screen shows is in `crossing`, or
  comes after it in the socket, the channel or the queue. One conjunct for each of the four places, because
  output passes from one to the next and a gap could open at each passage.

`AgentHibernationProofs` proves, for any tabs, clients, processes and bounds: `TypeCorrect`,
`ProcessOwnership`, `AttemptSafety`, `ConsentSafety`, `HibernationObserved`, `ProcessKept`. The
invariant is `TerminalInv /\ AgentTypeOK /\ AttemptInv /\ ConsentInv`. `NoStrayProcess` alone is
not inductive: a mutation that retires a process must know that no other tab shows it. `OwnersOK`
says that the tabs' terminals, those a mutation made and the clients' own never overlap, `LiveOwned`
that a live process has one of these owners, `SectionOK` what the operation in the exclusive section
and the state of the service agree on. `ConsentInv` carries what a confirmation read before it waited:
the row is pending, its checkpoint is the one the user saw, and the process is the verified one. It rests on
there being one confirmation at work, which the consumed challenge gives. That a new process has an unused
id is by well-foundedness (the least unused number).

`RemoteActivationProofs` proves, for any sessions, activations and bounds: `TypeCorrect`, `TargetStands`,
`NoStrayTransport`, `LossNeedsExit`, from `CoreInv`. `LockInv` relates the lock's queue to what the
activations do: who is in it waits or works, once each, and who works is its head; it is what makes two
activations' steps exclusive. `SeenInv` says that no entry, transport, exit or hand-over is of a generation its row
has not reached, so that a reservation's new generation is unknown to everybody. `ConnInv` says of a
transport whose exit is under way or known that it is gone, and of a live entry that its transport runs.

`RemoteConnectionProofs` adds, in layers: `LiveInv` (revisions never run ahead of the row, and the row of
an attempt is as it was reserved as long as its revision stands) gives `ConnectedIsLive`; `TimedInv` (a timer
starts at most one activation, and no count of attempts is behind what was `spent`) gives `BudgetKept`; `LeftInv`
(every live entry is the row's generation, and a detached row has no timer) gives
`ReleasedKeepsNothing`; `DrivenInv` (the timer of a session that reconnects is the one its activation came from, at
the row's revision, unless one of the named stranding steps came between) gives `InFlightIsDriven`.

The second part of `AutomationProofs` proves about service and Electron main together, for any windows, sessions,
operations, providers and clock bounds: `ProviderTypes`, `PagesAccounted`, `ExecutionFenced`,
`ExpirySafety`, and that the service keeps its promises with this provider: `ServiceSafety`,
`OutcomesWithProvider`, `DeliveryWithProvider`. Its `Base` is the invariants of
the first part (every step of both is a step of the service, or leaves it alone) and `WorkInv`: a
handler exists only between the poll that took its request and the answer. The forty-odd actions are then
reduced to eight effects on a handler and its session (`Outcome`: ended, arrives, starts, advances, gives up,
initializes, runs, quits), so that every later invariant is proved against those and not against the
actions again. `CreatedInv`, `PageInv` and `CreationInv` say that a session has one creation under way or a page,
and of whom; `ServedInv` and `OpenInv` that a handler that did not give up has a session to go on with.
Without `CreationInv` two creations of one session could finish, and the page of the first would be
nobody's. `CarriedInv` and `LocalInv` follow the expiry from the row through the
request's snapshot to the manager: each copy is at most the row's, because staging renews only the row.

Assumptions: capacities, limits and bounds are naturals, the epoch bound is at least 1
(`CapacityAssumption`, `ProviderAssumption`, `NavigationAssumption`, `LimitAssumption` of
`BrowserAutomation` and of `TerminalJournal`, `MaxPendingAssumption`, `MaxProviderAssumption`, `GenerationAssumption`,
`LocalAssumption`, `TerminalAssumption`, `AgentAssumption`, `WorkerAssumption`, `ScreenAssumption`, and the two
`BoundAssumption`s). `JournalAssumption` of `TerminalScreen` repeats those of `TerminalJournal`, which it instantiates.

What a recursive function computes (`BytesOfOldest` of a journal, `Contiguous` of a snapshot) is proved by
induction on its length. The library's induction theorems take an operator as a parameter and cannot be used here;
the lemma `Induction` of both modules states the principle for a set of numbers and proves it from the
least number outside the set.

Only model-checked: all liveness (`DeliversAndSettles`, `WorkIsResolved`, `OrphansEnd`, `ClaimedGetsHosted`,
`AbandonedGetsReleased`, `NoResyncLoop`, `ConfirmEnds`, `AttemptsEnd`, `ReconnectEnds`), because liveness under
fairness is out of the prover's reach. Every invariant and every action property of the passing runs has a theorem.

## 5. Plan

Modelled, in the order in which it was: `OnceDelivery` and `ProviderMailbox` with their proofs;
`BrowserAutomation` and `WindowHosting` with theirs; `TerminalJournal` with its proofs and
`TerminalScreen`; `RemoteActivation`; `WorkspaceTerminals` and `AgentHibernation`;
`AutomationProvider`. Their safety properties are proved.

What is left: an abstract specification of the screen (an ordered log of which a pane shows a prefix, except for
what an attachment passes over) that `TerminalScreen` implements, stated over the layers of its proof; one of
`RemoteActivation` (a target that one attempt at a time works on); and the terminal's resizing and its
checkpoints, which the models leave out.

## 6. Not modelled

* Component 10: the supervisor and the lifecycle controller are code that nothing but tests
  constructs, and a model of them would say nothing of the program. The restart that runs is in
  `WindowHosting`. What remains is start-up, quit and update of one Electron process, a sequence of
  waits for the operating system, and a queue of writes to one file.
* Components 11 and 12 are synchronous: a transaction either commits or not, and their difficulty is in
  data (trees of panes, schema versions) that unit tests cover.
* Components 13 and 14 are input and output around external programs, rendering, argument parsing,
  and schemas.
* Of component 4: what an operation does in a page, screenshots, developer tools, recordings, and
  the coordinator that registers a provider again. Of component 8: forks, teams, attention. Of
  component 9: enrolment of a target, the credential broker, discovery. Of component 5: the tokens of
  window capabilities. Each is named in section 2 with its reason.

Most of the repository's lines are of these kinds: schemas, rendering, argument parsing, persistence of
trees, and tests of all of them. The modules cover the parts where several actors meet.
