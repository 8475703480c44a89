---------------------------- MODULE TerminalScreen ----------------------------
(* How a terminal's output reaches the screen of its pane: the service's     *)
(* journal (TerminalJournal), the event socket between the service and       *)
(* Electron main (app.ts, node-sidecar.ts), the channel from Electron main   *)
(* to the renderer, and the pane with its reconciler and its checkpoints     *)
(* (TerminalPane.tsx, TerminalReconciler.ts, CheckpointScheduler.ts).        *)
(*                                                                           *)
(* Output is the numbers of its pieces.  A screen is the set of pieces it    *)
(* shows, and so is the projection a checkpoint carries.                     *)
(*                                                                           *)
(* A continuation that a settled promise runs (a microtask) comes before the *)
(* next event of the renderer: such a step is one of the actions Capture and *)
(* StartOperation, and the others wait until none is due (Settled).          *)
EXTENDS Naturals, Sequences

CONSTANTS
    MaxOutputChunk, RequestThreshold, PostCheckpointLimit, StartupLimit,
    MaxRead, MaxSequence,    \* as in TerminalJournal
    BatchLimit,      \* pieces the reconciler writes at once (MAX_WRITE_BATCH_BYTES)
    SocketLimit,     \* events in a socket before its backlog may be full
    MaxMounts,       \* bound on how often the pane is mounted
    MaxFailures      \* bound on the attachments that fail

ASSUME JournalAssumption ==    \* the assumptions of TerminalJournal
    /\ MaxOutputChunk \in Nat \ {0}
    /\ {RequestThreshold, PostCheckpointLimit, StartupLimit} \subseteq Nat
    /\ MaxOutputChunk + RequestThreshold <= PostCheckpointLimit
    /\ PostCheckpointLimit <= StartupLimit
    /\ MaxRead \in Nat /\ MaxSequence \in Nat

ASSUME ScreenAssumption ==
    /\ BatchLimit \in Nat \ {0}
    /\ SocketLimit \in Nat
    /\ MaxMounts \in Nat \ {0}
    /\ MaxFailures \in Nat

VARIABLES
    unread, lastSequence, journal, journalBytes, checkpoint,
    reconstructionComplete, checkpointRequested,    \* the service's session
    attachment,       \* the event socket Electron main has for the terminal
    wire,             \* events in that socket
    exchange,         \* the attachment being made
    channel,          \* from Electron main to the renderer
    failures,         \* attachments that failed
    pane,             \* which mount of the pane this is
    mounted,
    screen,
    applied,          \* the reconciler's lastSequence
    resyncRequested,
    operations,       \* the reconciler's queue; its head runs
    restoring,        \* the stage of the one restore under way
    restoreAgain,     \* a gap waits for the restore under way to end
    orphan,           \* a gap of an unmounted pane will still attach
    paneError,
    transitions,      \* attachmentTransitions: its head runs
    needsFlush, timer,    \* CheckpointScheduler
    captures,         \* checkpoints waiting for the queue to drain
    posts,            \* checkpoints on their way to the service and back
    crossing,         \* history: pieces the last attachment may have passed over
    subscriber        \* history: the pane that the event socket was opened for

journalVars == <<unread, lastSequence, journal, journalBytes, checkpoint,
                 reconstructionComplete, checkpointRequested>>
mainVars  == <<attachment, wire, exchange, failures>>
mount       == <<pane, mounted>>
reconciler  == <<screen, applied, resyncRequested, operations>>
restoration == <<restoring, restoreAgain, orphan, paneError>>
scheduler   == <<needsFlush, timer, captures>>
history     == <<crossing, subscriber>>
paneVars    == <<mount, reconciler, restoration, transitions, scheduler>>
outside     == <<journalVars, mainVars, channel, history>>
vars        == <<outside, paneVars, posts>>

Piece      == 1 .. MaxSequence
Projection == SUBSET Piece

Service == INSTANCE TerminalJournal WITH terminating <- FALSE

-----------------------------------------------------------------------------
NoExchange == [phase |-> "idle"]
NoSnapshot == [lastSequence |-> 0]

\* What the main process sends to the renderer.
ChunkEvent(s)   == [event |-> "output", sequence |-> s]
RequestEvent    == [event |-> "checkpointRequested"]
ResyncEvent     == [event |-> "resyncRequired"]

\* One write to xterm: what it adds, and lastSequence once it is parsed.
Write(adds, upTo) == [adds |-> adds, upTo |-> upTo]

Batch(chunks) == [kind |-> "batch", chunks |-> chunks, snapshot |-> NoSnapshot,
                  started |-> FALSE, writes |-> <<>>, short |-> FALSE]
Restoration(s) == [kind |-> "restore", chunks |-> <<>>, snapshot |-> s,
                   started |-> FALSE, writes |-> <<>>, short |-> FALSE]

Transition(kind, p, reset, projection) ==
    [kind |-> kind, pane |-> p, reset |-> reset, projection |-> projection, begun |-> FALSE]
Attach(p, reset) == Transition("attach", p, reset, Service!NoCheckpoint)
Recheckpoint     == Transition("checkpoint", pane, FALSE, Service!NoCheckpoint)
Leave(c)         == Transition("leave", pane, FALSE, c)

\* serializeAttachmentTransition(): each waits for those before it.
Serialized(t) == Append(transitions, t)

Gone == 0    \* the pane of an attachment that outlived its own

TypeOK ==
    /\ Service!TypeOK
    /\ attachment \in {"none", "opening", "open", "closing"}
    /\ attachment \in {"none", "opening"} => wire = <<>>
    /\ exchange.phase \in {"idle", "answered", "subscribing", "replied"}
    /\ exchange.phase # "idle" => transitions # <<>> /\ Head(transitions).kind = "attach"
    /\ failures \in 0 .. MaxFailures
    /\ pane \in 1 .. MaxMounts
    /\ mounted \in BOOLEAN /\ paneError \in BOOLEAN /\ orphan \in BOOLEAN
    /\ screen \subseteq Piece
    /\ applied \in 0 .. MaxSequence
    /\ resyncRequested \in BOOLEAN /\ restoreAgain \in BOOLEAN /\ needsFlush \in BOOLEAN
    /\ timer \in BOOLEAN
    /\ restoring \in {"no", "attaching", "applying", "sizing"}
    /\ restoreAgain => restoring # "no"
    /\ \A i \in 2 .. Len(operations) : ~operations[i].started
    /\ \A c \in captures : c.by \in {"scheduler", "transition"} /\ c.behind \in 0 .. Len(operations)
    /\ \A p \in posts : p.checkpoint \in Service!Checkpoint
                        /\ p.answer \in {"none", "accepted", "refused"}

\* The pane mounts with the terminal, and attaches at once.
Init ==
    /\ Service!Init
    /\ attachment = "none" /\ wire = <<>> /\ exchange = NoExchange
    /\ failures = 0
    /\ channel = <<>>
    /\ pane = 1 /\ mounted = TRUE
    /\ screen = {} /\ applied = 0 /\ resyncRequested = FALSE
    /\ operations = <<>>
    /\ restoring = "attaching" /\ restoreAgain = FALSE /\ orphan = FALSE
    /\ paneError = FALSE
    /\ transitions = <<Attach(1, FALSE)>>
    /\ needsFlush = FALSE /\ timer = FALSE /\ captures = {} /\ posts = {}
    /\ crossing = {} /\ subscriber = 1

-----------------------------------------------------------------------------
(* The service and its event socket.                                         *)

ReadPty == Service!PtyData /\ UNCHANGED <<mainVars, channel, paneVars, posts,
                                          history>>

\* The listener of the socket, event by event: a full backlog closes it instead.
Emit(events) ==
    IF attachment # "open" THEN UNCHANGED <<attachment, wire>>
    ELSE \E sent \in 0 .. Len(events) :
        /\ sent < Len(events) => Len(wire) + sent > SocketLimit
        /\ wire' = wire \o SubSeq(events, 1, sent)
        /\ attachment' = IF sent = Len(events) THEN "open" ELSE "closing"

Output ==
    /\ Service!AppendOutput
    /\ Emit(IF checkpointRequested' # checkpointRequested
            THEN <<ChunkEvent(lastSequence'), RequestEvent>>
            ELSE <<ChunkEvent(lastSequence')>>)
    /\ crossing' = IF exchange.phase \in {"answered", "subscribing"}
                   THEN crossing \cup {lastSequence'} ELSE crossing
    /\ UNCHANGED <<subscriber, exchange, failures, channel, paneVars, posts>>

\* PUT checkpoint: a stale one, or one ahead of the output, is refused.
ServeCheckpoint(p) ==
    /\ unread = 0
    /\ p.answer = "none"
    /\ IF Service!Acceptable(p.checkpoint) THEN Service!AcceptCheckpoint(p.checkpoint)
       ELSE UNCHANGED journalVars
    /\ posts' = (posts \ {p}) \cup {[p EXCEPT !.answer =
            IF Service!Acceptable(p.checkpoint) THEN "accepted" ELSE "refused"]}
    /\ UNCHANGED <<mainVars, channel, paneVars, history>>

-----------------------------------------------------------------------------
(* Electron main: terminalAttach asks for a snapshot, then for the events.   *)

Attaching == transitions # <<>> /\ Head(transitions).kind = "attach"

AnswerAttach ==
    /\ Attaching /\ exchange = NoExchange
    /\ unread = 0
    /\ exchange' = [phase |-> "answered", snapshot |-> Service!Snapshot]
    /\ crossing' = {}
    /\ UNCHANGED <<journalVars, attachment, wire, failures, channel, paneVars,
                   posts, subscriber>>

\* subscribeTerminal(): the events of the socket it replaces are ignored.
Subscribe ==
    /\ exchange.phase = "answered"
    /\ exchange' = [exchange EXCEPT !.phase = "subscribing"]
    /\ attachment' = "opening" /\ wire' = <<>>
    /\ subscriber' = Head(transitions).pane
    /\ UNCHANGED <<journalVars, failures, channel, paneVars, posts, crossing>>

OpenSocket ==
    /\ attachment = "opening"
    /\ unread = 0
    /\ attachment' = "open"
    /\ UNCHANGED <<journalVars, wire, exchange, failures, channel, paneVars,
                   posts, history>>

Reply(ok) == [event |-> "attached", ok |-> ok, pane |-> Head(transitions).pane,
              reset |-> Head(transitions).reset,
              snapshot |-> IF ok THEN exchange.snapshot ELSE NoSnapshot]

AttachReply ==
    /\ exchange.phase = "subscribing" /\ attachment # "opening"
    /\ channel' = Append(channel, Reply(TRUE))
    /\ exchange' = [phase |-> "replied"]
    /\ UNCHANGED <<journalVars, attachment, wire, failures, paneVars, posts,
                   history>>

\* The request fails, or the socket does not open.
AttachFails ==
    /\ failures < MaxFailures
    /\ \/ Attaching /\ exchange = NoExchange /\ UNCHANGED attachment
       \/ exchange.phase = "subscribing" /\ attachment = "opening" /\ attachment' = "none"
    /\ failures' = failures + 1
    /\ channel' = Append(channel, Reply(FALSE))
    /\ exchange' = [phase |-> "replied"]
    /\ UNCHANGED <<journalVars, wire, paneVars, posts, history>>

Forward ==
    /\ wire # <<>>
    /\ channel' = Append(channel, Head(wire))
    /\ wire' = Tail(wire)
    /\ UNCHANGED <<journalVars, attachment, exchange, failures, paneVars, posts,
                   history>>

\* The close of a socket comes after its events, and after its open is known.
SocketClosed ==
    /\ attachment = "closing" /\ wire = <<>>
    /\ exchange.phase # "subscribing"
    /\ attachment' = "none"
    /\ channel' = Append(channel, ResyncEvent)
    /\ UNCHANGED <<journalVars, wire, exchange, failures, paneVars, posts,
                   history>>

-----------------------------------------------------------------------------
(* The pane.                                                                 *)

Settled ==
    /\ \A c \in captures : c.behind > 0
    /\ operations # <<>> => Head(operations).started

\* restore(): one at a time; a second one joins the first.
Restore(reset, others) ==
    /\ restoring' = "attaching"
    /\ transitions' = Append(others, Attach(pane, reset))

\* requestResync(), once until the next restore.  onSequenceGap waits for the
\* restore under way and then starts its own.
RequestResync ==
    /\ resyncRequested' = TRUE
    /\ IF resyncRequested THEN UNCHANGED <<restoring, transitions, restoreAgain>>
       ELSE IF restoring = "no" THEN Restore(TRUE, transitions) /\ UNCHANGED restoreAgain
       ELSE restoreAgain' = TRUE /\ UNCHANGED <<restoring, transitions>>

EnqueuedWhenIdle(s) ==   \* mutant: output that arrives during a restore is dropped
    IF restoring = "applying" THEN operations ELSE Append(operations, Batch(<<s>>))
\* applyChunk(): a piece joins the last batch while that has not started.
Enqueued(s) ==
    LET last == operations[Len(operations)]
    IN IF operations # <<>> /\ last.kind = "batch" /\ ~last.started
             /\ Len(last.chunks) < BatchLimit
       THEN [operations EXCEPT ![Len(operations)].chunks = Append(@, s)]
       ELSE Append(operations, Batch(<<s>>))

\* captureCheckpoint() waits for the operations queued when it was called.
Await(by) == [by |-> by, behind |-> Len(operations)]

Flushing == \/ \E c \in captures : c.by = "scheduler"
            \/ \E p \in posts : p.by = "scheduler" /\ p.pane = pane

\* drain(), one round.
BeginFlush == needsFlush' = FALSE /\ captures' = captures \cup {Await("scheduler")}

ScheduleFlushOnce ==   \* mutant: what asks during a flush is forgotten
    /\ timer' = FALSE
    /\ IF Flushing THEN UNCHANGED <<needsFlush, captures>> ELSE BeginFlush
\* scheduleFlush(): one flush at a time, and again if asked meanwhile.
ScheduleFlush ==
    /\ timer' = FALSE
    /\ IF Flushing THEN needsFlush' = TRUE /\ UNCHANGED captures ELSE BeginFlush

ReceiveOutput ==
    /\ Head(channel).event = "output"
    /\ operations' = IF mounted THEN Enqueued(Head(channel).sequence) ELSE operations
    /\ timer' = (timer \/ mounted)
    /\ UNCHANGED <<screen, restoring, restoreAgain, transitions, paneError,
                   needsFlush, captures>>

ReceiveRequest ==
    /\ Head(channel).event = "checkpointRequested"
    /\ IF mounted THEN ScheduleFlush ELSE UNCHANGED scheduler
    /\ UNCHANGED <<screen, operations, restoring, restoreAgain, transitions,
                   paneError>>

ReceiveResync ==
    /\ Head(channel).event = "resyncRequired"
    /\ IF mounted /\ restoring = "no" THEN Restore(TRUE, transitions)
       ELSE UNCHANGED <<restoring, transitions>>
    /\ UNCHANGED <<screen, operations, restoreAgain, paneError, scheduler>>

\* The attachment of a pane that is gone is dropped.
IsCurrent(reply) == mounted /\ reply.pane = pane

ReceiveSnapshot ==
    LET reply == Head(channel)
    IN /\ reply.event = "attached" /\ reply.ok
       /\ transitions' = Tail(transitions)
       /\ IF IsCurrent(reply)
          THEN /\ screen' = IF reply.reset THEN {} ELSE screen
               /\ operations' = Append(operations, Restoration(reply.snapshot))
               /\ restoring' = "applying"
               /\ paneError' = FALSE
          ELSE UNCHANGED <<screen, operations, restoring, paneError>>
       /\ UNCHANGED <<restoreAgain, scheduler>>

\* The gap that waited for a restore that failed starts another.
ReceiveFailure ==
    LET reply == Head(channel)
    IN /\ reply.event = "attached" /\ ~reply.ok
       /\ IF ~IsCurrent(reply)
          THEN transitions' = Tail(transitions) /\ UNCHANGED <<restoring,
                                                               restoreAgain,
                                                               paneError>>
          ELSE /\ paneError' = TRUE
               /\ restoreAgain' = FALSE
               /\ IF restoreAgain THEN Restore(TRUE, Tail(transitions))
                  ELSE restoring' = "no" /\ transitions' = Tail(transitions)
       /\ UNCHANGED <<screen, operations, scheduler>>

Receive ==
    /\ Settled
    /\ channel # <<>>
    /\ channel' = Tail(channel)
    /\ \/ ReceiveOutput
       \/ ReceiveRequest
       \/ ReceiveResync
       \/ ReceiveSnapshot
       \/ ReceiveFailure
    /\ exchange' = IF Head(channel).event = "attached" THEN NoExchange ELSE exchange
    /\ UNCHANGED <<journalVars, attachment, wire, failures, mount, applied,
                   resyncRequested, orphan, posts, history>>

-----------------------------------------------------------------------------
(* The reconciler's queue.                                                   *)

OperationEnds ==
    /\ operations' = Tail(operations)
    /\ captures' = {[c EXCEPT !.behind = @ - 1] : c \in captures}

\* applyChunksNow(): duplicates are skipped, a piece behind a gap is not
\* written; what remains is one write.
Contiguous(from, pieces) ==
    LET at[i \in 0 .. Len(pieces)] ==
            IF i = 0 THEN from
            ELSE IF pieces[i] = at[i - 1] + 1 THEN pieces[i] ELSE at[i - 1]
    IN [at  |-> at[Len(pieces)],
        gap |-> \E i \in 1 .. Len(pieces) : pieces[i] > at[i - 1] + 1]

StartBatch ==
    LET reached == Contiguous(applied, Head(operations).chunks)
    IN /\ Head(operations).kind = "batch"
       /\ IF reached.at = applied THEN OperationEnds
          ELSE /\ operations' = [operations EXCEPT
                    ![1].started = TRUE,
                    ![1].writes = <<Write(applied + 1 .. reached.at, reached.at)>>]
               /\ UNCHANGED captures
       /\ IF reached.gap THEN RequestResync
          ELSE UNCHANGED <<resyncRequested, restoring, transitions,
                           restoreAgain>>
       /\ UNCHANGED <<screen, applied>>

Checkpointed(s) == s.checkpoint # Service!NoCheckpoint

BaseOf(s) ==
    IF Checkpointed(s) THEN s.checkpoint.sequence
    ELSE IF s.output = <<>> THEN 0 ELSE s.output[1].sequence - 1

ReachOf(s) == Contiguous(BaseOf(s), [i \in 1 .. Len(s.output) |-> s.output[i].sequence]).at

CheckpointWrite(s, upTo) ==
    IF Checkpointed(s) THEN <<Write(s.checkpoint.data, upTo)>> ELSE <<>>

EndUnacknowledged(s) ==   \* mutant: the discarded range is not acknowledged
    ReachOf(s)
\* An incomplete journal is not replayed, but counts as applied.
EndOf(s) == IF s.complete THEN ReachOf(s) ELSE s.lastSequence

RestoreWrites(s) ==
    IF s.complete
    THEN CheckpointWrite(s, BaseOf(s))
         \o [i \in 1 .. EndOf(s) - BaseOf(s) |-> Write({BaseOf(s) + i}, BaseOf(s) + i)]
    ELSE CheckpointWrite(s, EndOf(s))

Short(s) == EndOf(s) # s.lastSequence

\* A restore that ends short of its snapshot asks for the next.
RestorationEnds(short) ==
    /\ restoring' = "sizing"
    /\ resyncRequested' = short
    /\ restoreAgain' = (restoreAgain \/ short)

\* restoreNow(): the screen is reset before anything is written.
ScreenKept == UNCHANGED screen   \* mutant: it is not
ScreenReset == screen' = {}

StartRestoration ==
    LET s == Head(operations).snapshot
    IN /\ Head(operations).kind = "restore"
       /\ ScreenReset
       /\ applied' = IF Checkpointed(s) THEN applied
                     ELSE IF s.complete THEN BaseOf(s) ELSE EndOf(s)
       /\ IF RestoreWrites(s) = <<>>
          THEN OperationEnds /\ RestorationEnds(Short(s))
          ELSE /\ operations' = [operations EXCEPT ![1].started = TRUE,
                                                   ![1].writes = RestoreWrites(s),
                                                   ![1].short = Short(s)]
               /\ resyncRequested' = FALSE
               /\ UNCHANGED <<captures, restoring, restoreAgain>>
       /\ UNCHANGED transitions

StartOperation ==
    /\ operations # <<>> /\ ~Head(operations).started
    /\ \A c \in captures : c.behind > 0
    /\ StartBatch \/ StartRestoration
    /\ UNCHANGED <<outside, mount, orphan, paneError, needsFlush, timer, posts>>

\* xterm parses the next write, and its callback lets the operation go on.
Parse ==
    /\ Settled
    /\ operations # <<>>
    /\ LET op == Head(operations)
           w  == Head(op.writes)
       IN /\ screen' = screen \cup w.adds
          /\ applied' = w.upTo
          /\ IF Len(op.writes) > 1
             THEN /\ operations' = [operations EXCEPT ![1].writes = Tail(@)]
                  /\ UNCHANGED <<captures, restoring, resyncRequested,
                                 restoreAgain>>
             ELSE /\ OperationEnds
                  /\ IF op.kind = "restore" THEN RestorationEnds(op.short)
                     ELSE UNCHANGED <<restoring, resyncRequested, restoreAgain>>
    /\ UNCHANGED <<outside, mount, orphan, paneError, transitions, needsFlush,
                   timer, posts>>

-----------------------------------------------------------------------------
(* Checkpoints, and the end of a restore.                                    *)

Shown == [sequence |-> applied, data |-> screen]
Post(by, p, c) == [by |-> by, pane |-> p, checkpoint |-> c, answer |-> "none"]

Capture ==
    /\ \E c \in captures :
        /\ c.behind = 0
        /\ captures' = captures \ {c}
        /\ posts' = posts \cup {Post(c.by, pane, Shown)}
    /\ UNCHANGED <<outside, mount, reconciler, restoration, transitions,
                   needsFlush, timer>>

\* The timer of recordOutput(), or its threshold.
TimerFires ==
    /\ Settled
    /\ mounted /\ timer
    /\ ScheduleFlush
    /\ UNCHANGED <<outside, mount, reconciler, restoration, transitions, posts>>

\* The pane learns the answer: drain() goes on if it was asked meanwhile, and
\* a refusal ends it with needsFlush set.
CheckpointAnswered(p) ==
    /\ Settled
    /\ p.answer # "none"
    /\ posts' = posts \ {p}
    /\ transitions' = IF p.by = "transition" THEN Tail(transitions) ELSE transitions
    /\ IF p.by # "scheduler" \/ ~mounted \/ p.pane # pane
       THEN UNCHANGED <<needsFlush, captures>>
       ELSE IF p.answer = "refused" THEN needsFlush' = TRUE /\ UNCHANGED captures
       ELSE IF needsFlush THEN BeginFlush ELSE UNCHANGED <<needsFlush, captures>>
    /\ UNCHANGED <<outside, mount, reconciler, restoration, timer>>

\* After its resize a restore queues a checkpoint, and is over: a gap that
\* waited for it starts the next.
FinishRestore ==
    /\ Settled
    /\ restoring = "sizing"
    /\ IF restoreAgain THEN Restore(TRUE, Append(transitions, Recheckpoint))
       ELSE restoring' = "no" /\ transitions' = Append(transitions, Recheckpoint)
    /\ restoreAgain' = FALSE
    /\ UNCHANGED <<outside, mount, reconciler, orphan, paneError, scheduler,
                   posts>>

Begun == [transitions EXCEPT ![1].begun = TRUE]

\* A pane that is gone sends no further checkpoint: what its disposed xterm
\* would serialise for one that it had queued is left out.
BeginCheckpoint ==
    /\ Settled
    /\ transitions # <<>> /\ Head(transitions).kind = "checkpoint" /\ ~Head(transitions).begun
    /\ IF mounted /\ Head(transitions).pane = pane
       THEN transitions' = Begun /\ captures' = captures \cup {Await("transition")}
       ELSE transitions' = Tail(transitions) /\ UNCHANGED captures
    /\ UNCHANGED <<outside, mount, reconciler, restoration, needsFlush, timer,
                   posts>>

-----------------------------------------------------------------------------
(* The pane unmounts (its workspace is hidden) and mounts again.             *)

\* The screen as it is goes into a last checkpoint, to be sent before the
\* terminal is detached.
Unmount ==
    /\ Settled
    /\ mounted /\ pane < MaxMounts
    /\ mounted' = FALSE
    /\ transitions' = Append(IF \E c \in captures : c.by = "transition" THEN Tail(transitions)
                             ELSE transitions,
                             Leave(Shown))
    /\ orphan' = (orphan \/ restoreAgain)
    /\ screen' = {} /\ applied' = 0 /\ operations' = <<>> /\ captures' = {}
    /\ restoring' = "no" /\ resyncRequested' = FALSE /\ restoreAgain' = FALSE
    /\ paneError' = FALSE /\ needsFlush' = FALSE /\ timer' = FALSE
    /\ UNCHANGED <<outside, pane, posts>>

Remount ==
    /\ ~mounted
    /\ mounted' = TRUE
    /\ pane' = pane + 1
    /\ restoring' = "attaching"
    /\ transitions' = Serialized(Attach(pane + 1, FALSE))
    /\ UNCHANGED <<outside, reconciler, restoreAgain, orphan, paneError,
                   scheduler, posts>>

\* The gap an unmounted pane still waited to repair.
OrphanAttach ==
    /\ orphan
    /\ orphan' = FALSE
    /\ transitions' = Serialized(Attach(Gone, TRUE))
    /\ UNCHANGED <<outside, mount, reconciler, restoring, restoreAgain,
                   paneError, scheduler, posts>>

Leaving == transitions # <<>> /\ Head(transitions).kind = "leave"

SendLastCheckpoint ==
    /\ Leaving /\ ~Head(transitions).begun
    /\ posts' = posts \cup {Post("leave", Head(transitions).pane,
                                  Head(transitions).projection)}
    /\ transitions' = Begun
    /\ UNCHANGED <<outside, mount, reconciler, restoration, scheduler>>

\* terminalDetach
Detach ==
    /\ Leaving /\ Head(transitions).begun
    /\ \A p \in posts : p.by # "leave"
    /\ attachment' = "none" /\ wire' = <<>>
    /\ transitions' = Tail(transitions)
    /\ UNCHANGED <<journalVars, exchange, failures, channel, mount, reconciler,
                   restoration, scheduler, posts, history>>

-----------------------------------------------------------------------------
Progress ==
    \/ Output
    \/ \E p \in posts : ServeCheckpoint(p)
    \/ \E p \in posts : CheckpointAnswered(p)
    \/ AnswerAttach \/ Subscribe \/ OpenSocket \/ AttachReply
    \/ Forward \/ SocketClosed
    \/ Receive \/ StartOperation \/ Parse
    \/ Capture \/ TimerFires \/ FinishRestore \/ BeginCheckpoint
    \/ OrphanAttach \/ SendLastCheckpoint \/ Detach

Next == ReadPty \/ AttachFails \/ Unmount \/ Remount \/ Progress

Spec == Init /\ [][Next]_vars

\* Whatever was begun goes on: requests are served, promises settle, xterm
\* parses.  Output, failures and the user's navigation may stop at any time.
FairSpec == Spec /\ WF_vars(Progress)

-----------------------------------------------------------------------------
Quiescent ==
    /\ unread = 0 /\ wire = <<>> /\ channel = <<>> /\ attachment # "closing"
    /\ transitions = <<>> /\ operations = <<>> /\ restoring = "no"
    /\ captures = {} /\ posts = {} /\ ~timer /\ ~orphan

\* Nothing is under way around a pane that shows no error.
AtRest == Quiescent /\ mounted /\ ~paneError

(* A snapshot that the service calls complete can be replayed to its end:    *)
(* the reconciler never finds a gap in one (restoreNow), whatever was        *)
(* trimmed, checkpointed or refused since the terminal started.              *)
RestoresSuffice == \A i \in 1 .. Len(operations) : ~operations[i].short

(* What xterm is about to parse is newer than all that the screen shows:     *)
(* replays of the journal, duplicates from two sockets and resets in the     *)
(* middle of a write never put output on the screen twice or out of order.   *)
WritesAreNew ==
    operations # <<>> /\ Head(operations).started =>
        \A s \in Head(Head(operations).writes).adds, t \in screen : t < s

(* A pane at rest that receives the events of its own attachment lacks       *)
(* nothing but output that this attachment passed over: what was produced    *)
(* between its snapshot and its reply.  Every other loss is noticed and      *)
(* repaired.                                                                 *)
BehindOnlyAcrossAttach ==
    AtRest /\ attachment = "open" /\ subscriber = pane =>
        applied + 1 .. lastSequence \subseteq crossing

(* Nothing that was asked of a pane at rest is forgotten.  A gap it noticed  *)
(* has been restored, also when it was noticed in the middle of another      *)
(* restore (onSequenceGap); a checkpoint that the service asks for, which it *)
(* does only once, was taken by a pane that shows all of the output, or is   *)
(* still noted there as due (needsFlush), so that the next output sends one. *)
RequestIsKept ==
    /\ AtRest => ~resyncRequested
    /\ AtRest /\ applied = lastSequence /\ checkpointRequested => needsFlush

(* A pane at rest is subscribed to its terminal: the detachment of the pane  *)
(* that was unmounted does not undo the attachment of the one mounted after. *)
Subscribed == AtRest => attachment = "open"

(* Restores end: when the output stops, the pane comes to rest, whatever was *)
(* trimmed or lost ("without a resync loop", TerminalReconciler.ts).         *)
NoResyncLoop == <>[]Quiescent

(* What the documents say, and the code does not do.                         *)

(* A pane at rest that receives events shows all of the output, without new  *)
(* output having to come (ROADMAP.md; PROTOCOL.md on attachments).           *)
NothingLeftBehind == AtRest /\ attachment = "open" => applied = lastSequence

(* A pane at rest has sent the checkpoint it was asked for: one is scheduled  *)
(* "when requested by the service" (PROTOCOL.md).                            *)
RequestIsAnswered ==
    AtRest /\ attachment = "open" /\ applied = lastSequence => ~checkpointRequested

(* A checkpoint shows the output up to the sequence it records (PROTOCOL.md; *)
(* checked where the journal never discards any).                            *)
CheckpointShowsItsOutput ==
    Service!HasCheckpoint => 1 .. checkpoint.sequence \subseteq checkpoint.data

(* A pane that is hidden is detached from its terminal (TerminalPane.tsx).   *)
HiddenIsDetached == Quiescent /\ ~mounted => attachment = "none"
=============================================================================
