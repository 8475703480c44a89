--------------------------- MODULE TerminalJournal ---------------------------
(* What the service keeps of one terminal's output (TerminalService,         *)
(* terminal-service.ts): a journal of the latest output pieces, bounded in   *)
(* bytes, behind the last checkpoint a renderer sent; attach() answers with  *)
(* both.  One session: its creation, exit and removal are not in here.       *)
(*                                                                           *)
(* One read of the PTY is cut into pieces by a loop that nothing interrupts: *)
(* each iteration is a step, and the other handlers wait for the last.       *)
EXTENDS Integers, Sequences

CONSTANTS
    MaxOutputChunk,        \* MAX_OUTPUT_CHUNK_BYTES
    RequestThreshold,      \* CHECKPOINT_REQUEST_THRESHOLD_BYTES
    PostCheckpointLimit,   \* POST_CHECKPOINT_JOURNAL_LIMIT_BYTES
    StartupLimit,          \* STARTUP_JOURNAL_LIMIT_BYTES
    Projection,            \* what a checkpoint may say the screen shows
    MaxRead,               \* bound on the bytes of one read of the PTY
    MaxSequence            \* bound on the pieces a session outputs

ASSUME LimitAssumption ==
    /\ MaxOutputChunk \in Nat \ {0}
    /\ RequestThreshold \in Nat
    /\ PostCheckpointLimit \in Nat
    /\ StartupLimit \in Nat
    /\ MaxOutputChunk + RequestThreshold <= PostCheckpointLimit
    /\ PostCheckpointLimit <= StartupLimit

ASSUME BoundAssumption == MaxRead \in Nat /\ MaxSequence \in Nat

VARIABLES
    unread,                  \* bytes of the current read not yet cut into pieces
    lastSequence,
    journal,
    journalBytes,
    checkpoint,
    reconstructionComplete,
    checkpointRequested,
    terminating

session == <<unread, lastSequence, journal, journalBytes, checkpoint,
             reconstructionComplete, checkpointRequested, terminating>>

Chunk        == [sequence : Nat \ {0}, byteLength : 1 .. MaxOutputChunk]
Checkpoint   == [sequence : Nat, data : Projection]
NoCheckpoint == [sequence |-> 0]

HasCheckpoint == checkpoint # NoCheckpoint

TypeOK ==
    /\ unread \in Nat
    /\ lastSequence \in Nat
    /\ journal \in Seq(Chunk)
    /\ checkpoint \in Checkpoint \cup {NoCheckpoint}
    /\ reconstructionComplete \in BOOLEAN
    /\ checkpointRequested \in BOOLEAN
    /\ terminating \in BOOLEAN

Init ==
    /\ unread = 0
    /\ lastSequence = 0
    /\ journal = <<>>
    /\ journalBytes = 0
    /\ checkpoint = NoCheckpoint
    /\ reconstructionComplete = TRUE
    /\ checkpointRequested = FALSE
    /\ terminating = FALSE

-----------------------------------------------------------------------------
\* The bytes of the n oldest pieces, and the pieces without them.
BytesOfOldest(s, n) ==
    LET total[i \in 0 .. Len(s)] == IF i = 0 THEN 0 ELSE total[i - 1] + s[i].byteLength
    IN total[n]
WithoutOldest(s, n) == SubSeq(s, n + 1, Len(s))

Least(a, b) == IF a < b THEN a ELSE b

\* The PTY hands over bytes: as many pieces as they fill.
PtyData ==
    /\ unread = 0
    /\ \E bytes \in 1 .. MaxRead :
        /\ lastSequence * MaxOutputChunk + bytes <= MaxSequence * MaxOutputChunk
        /\ unread' = bytes
    /\ UNCHANGED <<lastSequence, journal, journalBytes, checkpoint,
                   reconstructionComplete, checkpointRequested>>
    /\ terminating' = terminating

JournalLimit == IF HasCheckpoint THEN PostCheckpointLimit ELSE StartupLimit

NextPiece == [sequence |-> lastSequence + 1, byteLength |-> Least(unread, MaxOutputChunk)]

AsksWhenFull ==   \* mutant: asks at the limit, where trimming keeps the journal below
    HasCheckpoint /\ journalBytes' >= PostCheckpointLimit /\ ~checkpointRequested
\* A checkpoint is asked for once, when the journal behind the last one fills.
AsksForCheckpoint == HasCheckpoint /\ journalBytes' >= RequestThreshold /\ ~checkpointRequested

\* appendOutput(), one piece: trimming stops at the first length that fits.
AppendOutput ==
    LET piece    == NextPiece
        appended == Append(journal, piece)
        bytes    == journalBytes + piece.byteLength
    IN /\ unread > 0
       /\ unread' = unread - piece.byteLength
       /\ lastSequence' = piece.sequence
       /\ \E n \in 0 .. Len(appended) :
            /\ bytes - BytesOfOldest(appended, n) <= JournalLimit
            /\ n > 0 => bytes - BytesOfOldest(appended, n - 1) > JournalLimit
            /\ journal' = WithoutOldest(appended, n)
            /\ journalBytes' = bytes - BytesOfOldest(appended, n)
            /\ reconstructionComplete' = (reconstructionComplete /\ n = 0)
       /\ checkpointRequested' = (checkpointRequested \/ AsksForCheckpoint)
       /\ UNCHANGED checkpoint
       /\ terminating' = terminating

Acceptable(c) ==
    /\ ~terminating
    /\ c.sequence <= lastSequence
    /\ HasCheckpoint => c.sequence >= checkpoint.sequence

\* The journal behind checkpoint c, of which the first n pieces go.
AlwaysContiguous(c, n) == TRUE   \* mutant: an accepted checkpoint repairs any gap
ContiguousBehind(c, n) ==
    IF n < Len(journal) THEN journal[n + 1].sequence = c.sequence + 1
    ELSE c.sequence = lastSequence

BytesBehind(n) == journalBytes - BytesOfOldest(journal, n)

\* checkpoint(): what it covers leaves the journal.
AcceptCheckpoint(c) ==
    /\ unread = 0
    /\ Acceptable(c)
    /\ \E n \in 0 .. Len(journal) :
        /\ \A i \in 1 .. n : journal[i].sequence <= c.sequence
        /\ n < Len(journal) => journal[n + 1].sequence > c.sequence
        /\ journal' = WithoutOldest(journal, n)
        /\ journalBytes' = BytesBehind(n)
        /\ reconstructionComplete' = ContiguousBehind(c, n)
    /\ checkpoint' = c
    /\ checkpointRequested' = FALSE
    /\ UNCHANGED <<unread, lastSequence>>
    /\ terminating' = terminating

\* attach()
Snapshot == [checkpoint   |-> checkpoint,
             output       |-> journal,
             lastSequence |-> lastSequence,
             complete     |-> reconstructionComplete]

\* terminateObserved() raises the flag; the process may still output.
Terminate ==
    /\ unread = 0
    /\ ~terminating
    /\ terminating' = TRUE
    /\ UNCHANGED <<unread, lastSequence, journal, journalBytes, checkpoint,
                   reconstructionComplete, checkpointRequested>>

Next ==
    \/ PtyData
    \/ AppendOutput
    \/ \E s \in 0 .. MaxSequence, d \in Projection :
        AcceptCheckpoint([sequence |-> s, data |-> d])
    \/ Terminate

Spec == Init /\ [][Next]_session

-----------------------------------------------------------------------------
Base == checkpoint.sequence

(* The pieces of the journal are the latest output, without a gap, and none  *)
(* that the checkpoint covers: each is shifted out for one reason only.      *)
JournalIsLatestOutput ==
    /\ \A i \in 1 .. Len(journal) : journal[i].sequence + Len(journal) = lastSequence + i
    /\ Base + Len(journal) <= lastSequence

(* journalBytes is the size of the journal: appendOutput and checkpoint keep *)
(* the sum up piece by piece, whatever they shift out.                       *)
BytesCounted == journalBytes = BytesOfOldest(journal, Len(journal))

\* The journal begins right behind the checkpoint, or behind the start.
Covered ==
    IF journal = <<>> THEN Base = lastSequence ELSE journal[1].sequence = Base + 1

(* reconstructionComplete says exactly whether the checkpoint and the        *)
(* journal give back all of the output: the flag is kept by three places of  *)
(* the code that never look at one another (appendOutput, checkpoint and the *)
(* trimming that a late checkpoint undoes).                                  *)
CompleteExactly == reconstructionComplete <=> Covered

(* Discarding output that a checkpoint could have saved leaves a request for *)
(* one outstanding: the limits are far enough apart.                         *)
DiscardIsSignalled ==
    [][(HasCheckpoint /\ unread' < unread /\ Len(journal') <= Len(journal))
       => checkpointRequested']_session
=============================================================================
