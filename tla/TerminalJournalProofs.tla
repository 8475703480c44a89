------------------------ MODULE TerminalJournalProofs ------------------------
(* The journal's safety for every limit and every length of output, by one   *)
(* inductive invariant: the conjunction of the three properties below.  That *)
(* the flag is exact needs the journal to be contiguous and behind the       *)
(* checkpoint, or trimming could shift only what the checkpoint covers.      *)
(* What depends on the byte count is proved over that invariant, by          *)
(* induction on the number of pieces counted.                                *)
EXTENDS TerminalJournal, NaturalsInduction, WellFoundedInduction, TLAPS

IInv == TypeOK /\ JournalIsLatestOutput /\ CompleteExactly

-----------------------------------------------------------------------------
(* What is left of a sequence without its n oldest elements.                 *)
LEMMA Remaining ==
    ASSUME NEW S, NEW s \in Seq(S), NEW n \in 0 .. Len(s)
    PROVE  /\ WithoutOldest(s, n) \in Seq(S)
           /\ Len(WithoutOldest(s, n)) = Len(s) - n
           /\ \A i \in 1 .. Len(s) - n : WithoutOldest(s, n)[i] = s[n + i]
           /\ WithoutOldest(s, n) = <<>> <=> n = Len(s)
<1>1. Len(s) \in Nat /\ n \in Nat
  OBVIOUS
<1>2. /\ WithoutOldest(s, n) \in Seq(S)
      /\ Len(WithoutOldest(s, n)) = Len(s) - n
      /\ \A i \in 1 .. Len(s) - n : WithoutOldest(s, n)[i] = s[n + i]
  BY <1>1 DEF WithoutOldest
<1>3. WithoutOldest(s, n) = <<>> <=> Len(WithoutOldest(s, n)) = 0
  BY <1>2
<1> QED
  BY <1>1, <1>2, <1>3

LEMMA ChunkSequence ==
    ASSUME NEW s \in Seq(Chunk), NEW i \in 1 .. Len(s)
    PROVE  s[i].sequence \in Nat
<1>1. s[i] \in Chunk
  OBVIOUS
<1> QED
  BY <1>1 DEF Chunk

(* The next piece is a chunk: no larger than the limit, and never empty.     *)
LEMMA PieceIsChunk ==
    ASSUME TypeOK, unread > 0
    PROVE  NextPiece \in Chunk /\ NextPiece.byteLength <= unread
  BY LimitAssumption DEF TypeOK, NextPiece, Chunk, Least

LEMMA BaseIsNatural == TypeOK => Base \in Nat
  BY DEF TypeOK, Base, Checkpoint, NoCheckpoint

LEMMA InitIInv == Init => IInv
<1> SUFFICES ASSUME Init PROVE IInv
  OBVIOUS
<1>1. journal = <<>> /\ Len(journal) = 0 /\ lastSequence = 0
  BY DEF Init
<1>2. Base = 0
  BY DEF Init, Base, NoCheckpoint
<1>3. TypeOK
  <2>1. journal \in Seq(Chunk)
    BY <1>1
  <2>2. /\ checkpoint \in Checkpoint \cup {NoCheckpoint}
        /\ reconstructionComplete \in BOOLEAN
        /\ checkpointRequested \in BOOLEAN
        /\ terminating \in BOOLEAN
    BY Zenon DEF Init
  <2>3. unread \in Nat /\ lastSequence \in Nat
    BY DEF Init
  <2> QED
    BY <2>1, <2>2, <2>3 DEF TypeOK
<1>4. JournalIsLatestOutput
  BY <1>1, <1>2 DEF JournalIsLatestOutput
<1>5. CompleteExactly
  BY <1>1, <1>2 DEF Init, CompleteExactly, Covered
<1> QED
  BY <1>3, <1>4, <1>5 DEF IInv

-----------------------------------------------------------------------------
(* A piece is appended and n pieces are shifted out: the journal stays the   *)
(* latest output, and a shift uncovers what was covered.                     *)
LEMMA AppendOutputPreserves == IInv /\ AppendOutput => IInv'
<1> SUFFICES ASSUME IInv, AppendOutput PROVE IInv'
  OBVIOUS
<1> DEFINE piece == NextPiece
           appended == Append(journal, piece)
<1>1. TypeOK /\ JournalIsLatestOutput /\ CompleteExactly
  BY DEF IInv
<1>2. unread > 0 /\ piece \in Chunk /\ piece.byteLength <= unread
  BY <1>1, PieceIsChunk DEF AppendOutput
<1>3. piece.sequence = lastSequence + 1 /\ piece.byteLength \in Nat
  BY <1>2 DEF NextPiece, Chunk
<1>4. /\ unread' = unread - piece.byteLength
      /\ lastSequence' = piece.sequence
      /\ checkpoint' = checkpoint
      /\ terminating' = terminating
      /\ checkpointRequested' \in BOOLEAN
  BY <1>1 DEF AppendOutput, TypeOK
<1>5. PICK n \in 0 .. Len(appended) :
        /\ journal' = WithoutOldest(appended, n)
        /\ reconstructionComplete' = (reconstructionComplete /\ n = 0)
  BY DEF AppendOutput
<1>6. /\ journal \in Seq(Chunk) /\ Len(journal) \in Nat
      /\ lastSequence \in Nat /\ Base \in Nat /\ unread \in Nat
      /\ reconstructionComplete \in BOOLEAN
  BY <1>1, BaseIsNatural DEF TypeOK
<1> HIDE DEF piece
<1>7. /\ appended \in Seq(Chunk)
      /\ Len(appended) = Len(journal) + 1
      /\ \A i \in 1 .. Len(journal) : appended[i] = journal[i]
      /\ appended[Len(journal) + 1] = piece
  BY <1>2, <1>6
<1>8. /\ \A i \in 1 .. Len(journal) : journal[i].sequence + Len(journal) = lastSequence + i
      /\ Base + Len(journal) <= lastSequence
  BY <1>1 DEF JournalIsLatestOutput
<1> HIDE DEF appended
<1>9. \A i \in 1 .. Len(appended) :
        appended[i].sequence + Len(journal) = lastSequence + i
  <2> SUFFICES ASSUME NEW i \in 1 .. Len(appended)
               PROVE  appended[i].sequence + Len(journal) = lastSequence + i
    OBVIOUS
  <2>1. CASE i \in 1 .. Len(journal)
    BY <2>1, <1>7, <1>8
  <2>2. CASE i = Len(journal) + 1
    BY <2>2, <1>3, <1>6, <1>7
  <2> QED
    BY <2>1, <2>2, <1>6, <1>7
<1>10. /\ journal' \in Seq(Chunk)
       /\ Len(journal') = Len(appended) - n
       /\ \A i \in 1 .. Len(appended) - n : journal'[i] = appended[n + i]
       /\ journal' = <<>> <=> n = Len(appended)
  BY <1>5, <1>7, Remaining
<1>11. lastSequence' = lastSequence + 1 /\ n \in Nat /\ n <= Len(journal) + 1
  BY <1>3, <1>4, <1>5, <1>6, <1>7
<1>12. Base' = Base
  BY <1>4 DEF Base
<1>13. TypeOK'
  BY <1>1, <1>2, <1>3, <1>4, <1>5, <1>6, <1>10, <1>11 DEF TypeOK
<1>14. JournalIsLatestOutput'
  <2>1. \A i \in 1 .. Len(journal') : journal'[i].sequence + Len(journal') = lastSequence' + i
    <3> SUFFICES ASSUME NEW i \in 1 .. Len(journal')
                 PROVE  journal'[i].sequence + Len(journal') = lastSequence' + i
      OBVIOUS
    <3>1. i \in Nat /\ i >= 1 /\ i <= Len(journal) + 1 - n
      BY <1>6, <1>7, <1>10, <1>11
    <3>2. n + i \in 1 .. Len(appended) /\ journal'[i] = appended[n + i]
      BY <3>1, <1>6, <1>7, <1>10, <1>11
    <3>3. appended[n + i].sequence + Len(journal) = lastSequence + n + i
      BY <3>1, <3>2, <1>9, <1>6, <1>11
    <3>4. appended[n + i].sequence \in Nat
      BY <3>2, <1>7, ChunkSequence
    <3>5. Len(journal') = Len(journal) + 1 - n
      BY <1>7, <1>10
    <3>6. PICK q \in Nat : q = appended[n + i].sequence /\ q = journal'[i].sequence
      BY <3>2, <3>4
    <3>7. q + Len(journal) = lastSequence + n + i
      BY <3>3, <3>6
    <3>8. i \in Nat /\ n \in Nat /\ Len(journal) \in Nat /\ lastSequence \in Nat
      BY <3>1, <1>6, <1>11
    <3>9. q + (Len(journal) + 1 - n) = lastSequence + 1 + i
      BY <3>7, <3>8
    <3> QED
      BY <3>5, <3>6, <3>9, <1>11
  <2>2. Base' + Len(journal') <= lastSequence'
    BY <1>6, <1>7, <1>8, <1>10, <1>11, <1>12
  <2> QED
    BY <2>1, <2>2 DEF JournalIsLatestOutput
<1>15. CompleteExactly'
  <2>1. CASE n = 0
    <3>1. journal' # <<>> /\ journal'[1] = appended[1]
      BY <2>1, <1>6, <1>7, <1>10
    <3>2. Covered' <=> journal'[1].sequence = Base' + 1
      BY <3>1 DEF Covered
    <3>3. Covered' <=> Covered
      <4>1. CASE journal = <<>>
        <5>1. journal'[1] = piece
          BY <4>1, <3>1, <1>7
        <5> QED
          BY <4>1, <5>1, <3>2, <1>3, <1>6, <1>12 DEF Covered
      <4>2. CASE journal # <<>>
        <5>1. journal'[1] = journal[1]
          BY <4>2, <3>1, <1>6, <1>7
        <5> QED
          BY <4>2, <5>1, <3>2, <1>12 DEF Covered
      <4> QED
        BY <4>1, <4>2
    <3> QED
      BY <3>3, <2>1, <1>1, <1>5, <1>6 DEF CompleteExactly
  <2>2. CASE n > 0
    <3>1. ~Covered'
      <4>1. CASE journal' = <<>>
        <5>1. Base' # lastSequence'
          BY <1>6, <1>8, <1>11, <1>12
        <5> QED
          BY <4>1, <5>1 DEF Covered
      <4>2. CASE journal' # <<>>
        <5>1. n < Len(appended)
          BY <4>2, <1>5, <1>6, <1>7, <1>10, <1>11
        <5>2. journal'[1] = appended[n + 1] /\ n + 1 \in 1 .. Len(appended)
          BY <5>1, <1>6, <1>7, <1>10, <1>11
        <5>3. appended[n + 1].sequence + Len(journal) = lastSequence + n + 1
          BY <5>2, <1>9, <1>6, <1>11
        <5>4. appended[n + 1].sequence \in Nat
          BY <5>2, <1>7, ChunkSequence
        <5>5. journal'[1].sequence # Base' + 1
          BY <5>2, <5>3, <5>4, <2>2, <1>6, <1>8, <1>11, <1>12
        <5> QED
          BY <4>2, <5>5 DEF Covered
      <4> QED
        BY <4>1, <4>2
    <3>2. reconstructionComplete' = FALSE
      <4>1. n # 0
        BY <2>2
      <4> QED
        BY <4>1, <1>5
    <3> QED
      BY <3>1, <3>2 DEF CompleteExactly
  <2> QED
    BY <2>1, <2>2, <1>11
<1> QED
  BY <1>13, <1>14, <1>15 DEF IInv

(* What a checkpoint covers leaves the journal, and it tells exactly whether *)
(* the rest begins right behind it.                                          *)
LEMMA AcceptCheckpointPreserves ==
    ASSUME IInv, NEW c \in Checkpoint, AcceptCheckpoint(c)
    PROVE  IInv'
<1>1. TypeOK /\ JournalIsLatestOutput
  BY DEF IInv
<1>2. PICK n \in 0 .. Len(journal) :
        /\ n < Len(journal) => journal[n + 1].sequence > c.sequence
        /\ journal' = WithoutOldest(journal, n)
        /\ reconstructionComplete' = ContiguousBehind(c, n)
  BY DEF AcceptCheckpoint
<1>3. /\ checkpoint' = c
      /\ checkpointRequested' = FALSE
      /\ unread' = unread
      /\ lastSequence' = lastSequence
      /\ terminating' = terminating
      /\ c.sequence <= lastSequence
  BY DEF AcceptCheckpoint, Acceptable
<1>4. /\ journal \in Seq(Chunk) /\ Len(journal) \in Nat /\ n \in Nat
      /\ n <= Len(journal) /\ lastSequence \in Nat /\ c.sequence \in Nat
  BY <1>1, <1>2 DEF TypeOK, Checkpoint
<1>5. /\ journal' \in Seq(Chunk)
      /\ Len(journal') = Len(journal) - n
      /\ \A i \in 1 .. Len(journal) - n : journal'[i] = journal[n + i]
      /\ journal' = <<>> <=> n = Len(journal)
  BY <1>2, <1>4, Remaining
<1>6. Base' = c.sequence
  BY <1>3 DEF Base
<1>7. \A i \in 1 .. Len(journal) : journal[i].sequence + Len(journal) = lastSequence + i
  BY <1>1 DEF JournalIsLatestOutput
<1>8. \A i \in 1 .. Len(journal) : journal[i].sequence \in Nat
  BY <1>4, ChunkSequence
<1>9. TypeOK'
  <2>1. ContiguousBehind(c, n) \in BOOLEAN
    BY DEF ContiguousBehind
  <2> QED
    BY <2>1, <1>1, <1>2, <1>3, <1>5 DEF TypeOK
<1>10. JournalIsLatestOutput'
  <2>1. \A i \in 1 .. Len(journal') : journal'[i].sequence + Len(journal') = lastSequence' + i
    <3> SUFFICES ASSUME NEW i \in 1 .. Len(journal')
                 PROVE  journal'[i].sequence + Len(journal') = lastSequence' + i
      OBVIOUS
    <3>1. n + i \in 1 .. Len(journal) /\ journal'[i] = journal[n + i]
      BY <1>4, <1>5
    <3>2. journal[n + i].sequence + Len(journal) = lastSequence + n + i
      BY <3>1, <1>4, <1>7
    <3>3. Len(journal') = Len(journal) - n /\ lastSequence' = lastSequence
      BY <1>3, <1>5
    <3>4. PICK q \in Nat : q = journal[n + i].sequence /\ q = journal'[i].sequence
      BY <3>1, <1>8
    <3>5. q + Len(journal) = lastSequence + n + i
      BY <3>2, <3>4
    <3>6. q + (Len(journal) - n) = lastSequence + i
      BY <3>4, <3>5, <1>4
    <3> QED
      BY <3>3, <3>4, <3>6
  <2>2. c.sequence + Len(journal') <= lastSequence
    <3>1. CASE n = Len(journal)
      BY <3>1, <1>3, <1>4, <1>5
    <3>2. CASE n < Len(journal)
      <4>1. n + 1 \in 1 .. Len(journal)
        BY <3>2, <1>4
      <4>2. journal[n + 1].sequence + Len(journal) = lastSequence + n + 1
        BY <4>1, <1>4, <1>7
      <4> QED
        BY <3>2, <4>1, <4>2, <1>2, <1>4, <1>5, <1>8
    <3> QED
      BY <3>1, <3>2, <1>4
  <2> QED
    BY <2>1, <2>2, <1>3, <1>6 DEF JournalIsLatestOutput
<1>11. CompleteExactly'
  <2>1. CASE n = Len(journal)
    <3>1. journal' = <<>> /\ ~(n < Len(journal))
      BY <2>1, <1>4, <1>5
    <3>2. reconstructionComplete' <=> c.sequence = lastSequence
      BY <3>1, <1>2 DEF ContiguousBehind
    <3> QED
      BY <3>1, <3>2, <1>3, <1>6 DEF CompleteExactly, Covered
  <2>2. CASE n < Len(journal)
    <3>1. journal' # <<>> /\ journal'[1] = journal[n + 1]
      BY <2>2, <1>4, <1>5
    <3> QED
      BY <2>2, <3>1, <1>2, <1>6 DEF CompleteExactly, Covered, ContiguousBehind
  <2> QED
    BY <2>1, <2>2, <1>4
<1> QED
  BY <1>9, <1>10, <1>11 DEF IInv

LEMMA NextPreservesIInv == IInv /\ [Next]_session => IInv'
<1> SUFFICES ASSUME IInv, [Next]_session PROVE IInv'
  OBVIOUS
<1>1. CASE PtyData
  BY <1>1, BoundAssumption
     DEF IInv, TypeOK, PtyData, JournalIsLatestOutput, CompleteExactly, Covered, Base
<1>2. CASE AppendOutput
  BY <1>2, AppendOutputPreserves
<1>3. CASE \E s \in 0 .. MaxSequence, d \in Projection :
             AcceptCheckpoint([sequence |-> s, data |-> d])
  <2>1. PICK s \in 0 .. MaxSequence, d \in Projection :
          AcceptCheckpoint([sequence |-> s, data |-> d])
    BY <1>3
  <2>2. [sequence |-> s, data |-> d] \in Checkpoint
    BY BoundAssumption DEF Checkpoint
  <2> QED
    BY <2>1, <2>2, AcceptCheckpointPreserves
<1>4. CASE Terminate
  BY <1>4 DEF IInv, TypeOK, Terminate, JournalIsLatestOutput, CompleteExactly, Covered, Base
<1>5. CASE UNCHANGED session
  BY <1>5 DEF IInv, TypeOK, session, JournalIsLatestOutput, CompleteExactly, Covered, Base
<1> QED
  BY <1>1, <1>2, <1>3, <1>4, <1>5 DEF Next

LEMMA InductiveInvariant == Spec => []IInv
  BY InitIInv, NextPreservesIInv, PTL DEF Spec

(* Every state of a session has its type, for every limit.                   *)
THEOREM TypeCorrect == Spec => []TypeOK
<1>1. IInv => TypeOK
  BY DEF IInv
<1> QED
  BY <1>1, InductiveInvariant, PTL

(* The journal is the latest output without a gap, and none of it is covered *)
(* by the checkpoint: appendOutput() and checkpoint() shift from one end.    *)
THEOREM JournalContiguous == Spec => []JournalIsLatestOutput
<1>1. IInv => JournalIsLatestOutput
  BY DEF IInv
<1> QED
  BY <1>1, InductiveInvariant, PTL

(* An attach() that says it is complete gives back all output, and one that  *)
(* can is never called incomplete.                                           *)
THEOREM ReconstructionExact == Spec => []CompleteExactly
<1>1. IInv => CompleteExactly
  BY DEF IInv
<1> QED
  BY <1>1, InductiveInvariant, PTL

-----------------------------------------------------------------------------
(* The byte count.                                                           *)

\* Induction up to n, for a property given by the set of numbers that have it.
LEMMA Induction ==
    ASSUME NEW n \in Nat, NEW S, 0 \in S, \A i \in 1 .. n : i - 1 \in S => i \in S
    PROVE  \A i \in 0 .. n : i \in S
<1> DEFINE Others == {i \in 0 .. n : i \notin S}
<1> SUFFICES ASSUME Others # {} PROVE FALSE
  OBVIOUS
<1>1. Others \subseteq Nat
  OBVIOUS
<1> HIDE DEF Others
<1>2. PICK m \in Others : \A j \in Others : ~ (<<j, m>> \in OpToRel(<, Nat))
  BY <1>1, NatLessThanWellFounded, WFMin, Zenon
<1>3. \A j \in Others : ~ (j < m)
  BY <1>1, <1>2, Zenon DEF OpToRel
<1>4. m \in 0 .. n /\ m \notin S /\ m # 0
  BY <1>2 DEF Others
<1>5. m \in 1 .. n /\ m - 1 \in 0 .. n /\ m - 1 < m
  BY <1>4
<1>6. m - 1 \in S
  BY <1>3, <1>5 DEF Others
<1> QED BY <1>4, <1>5, <1>6

\* f counts the bytes of the first n pieces of s.
Counts(f, s, n) ==
    /\ f \in [0 .. n -> Nat]
    /\ f[0] = 0
    /\ \A i \in 1 .. n : f[i] = f[i - 1] + s[i].byteLength

LEMMA ChunkBytes ==
    ASSUME NEW s \in Seq(Chunk), NEW i \in 1 .. Len(s)
    PROVE  s[i].byteLength \in Nat \ {0} /\ s[i].byteLength <= MaxOutputChunk
<1>1. s[i] \in Chunk
  OBVIOUS
<1> QED BY <1>1, LimitAssumption DEF Chunk

LEMMA CountExists ==
    ASSUME NEW s \in Seq(Chunk)
    PROVE  \E f : Counts(f, s, Len(s))
<1> DEFINE S == {n \in 0 .. Len(s) : \E f : Counts(f, s, n)}
<1>1. 0 \in S
  <2>1. Counts([i \in 0 .. 0 |-> 0], s, 0)
    BY DEF Counts
  <2> QED BY <2>1
<1>2. ASSUME NEW n \in 1 .. Len(s), n - 1 \in S
      PROVE  n \in S
  <2>1. PICK f : Counts(f, s, n - 1)
    BY <1>2
  <2> DEFINE g == [i \in 0 .. n |-> IF i = n THEN f[n - 1] + s[n].byteLength ELSE f[i]]
  <2>2. s[n].byteLength \in Nat /\ n - 1 \in 0 .. n - 1 /\ f[n - 1] \in Nat
    BY <2>1, ChunkBytes DEF Counts
  <2>3. g \in [0 .. n -> Nat] /\ g[0] = 0
    BY <2>1, <2>2 DEF Counts
  <2>4. ASSUME NEW i \in 1 .. n
        PROVE  g[i] = g[i - 1] + s[i].byteLength
    <3>1. g[i - 1] = f[i - 1]
      OBVIOUS
    <3>2. CASE i = n
      BY <3>1, <3>2
    <3>3. CASE i # n
      BY <3>1, <3>3, <2>1 DEF Counts
    <3> QED BY <3>2, <3>3
  <2>5. Counts(g, s, n)
    BY <2>3, <2>4 DEF Counts
  <2> QED BY <2>5
<1> HIDE DEF S
<1>3. Len(s) \in Nat
  OBVIOUS
<1>4. \A n \in 0 .. Len(s) : n \in S
  BY <1>1, <1>2, <1>3, Induction
<1> QED BY <1>3, <1>4 DEF S

(* The bytes of the oldest pieces are counted one piece after another.       *)
LEMMA BytesFacts ==
    ASSUME NEW s \in Seq(Chunk)
    PROVE  /\ BytesOfOldest(s, 0) = 0
           /\ \A n \in 1 .. Len(s) : BytesOfOldest(s, n) = BytesOfOldest(s, n - 1) + s[n].byteLength
           /\ \A n \in 0 .. Len(s) : BytesOfOldest(s, n) \in Nat
<1> DEFINE Step(total) == [i \in 0 .. Len(s) |-> IF i = 0 THEN 0 ELSE total[i - 1] + s[i].byteLength]
           count == CHOOSE total : total = Step(total)
<1>1. PICK f : Counts(f, s, Len(s))
  BY CountExists
<1>2. f = Step(f)
  BY <1>1 DEF Counts
<1>3. count = Step(count)
  BY <1>2
<1>4. \A n : BytesOfOldest(s, n) = count[n]
  BY DEF BytesOfOldest
<1> HIDE DEF count
<1>5. count[0] = 0
  BY <1>3
<1>6. \A i \in 1 .. Len(s) : count[i] = count[i - 1] + s[i].byteLength
  BY <1>3
<1>7. \A i \in 0 .. Len(s) : count[i] \in Nat
  <2> DEFINE S == {i \in 0 .. Len(s) : count[i] \in Nat}
  <2>1. 0 \in S
    BY <1>5
  <2>2. ASSUME NEW i \in 1 .. Len(s), i - 1 \in S
        PROVE  i \in S
    <3>1. s[i].byteLength \in Nat
      BY ChunkBytes
    <3> QED BY <3>1, <2>2, <1>6
  <2> HIDE DEF S
  <2>3. Len(s) \in Nat
    OBVIOUS
  <2>4. \A i \in 0 .. Len(s) : i \in S
    BY <2>1, <2>2, <2>3, Induction
  <2> QED BY <2>4 DEF S
<1> QED BY <1>4, <1>5, <1>6, <1>7

(* A piece behind the oldest ones does not change their bytes.               *)
LEMMA BytesAppended ==
    ASSUME NEW s \in Seq(Chunk), NEW c \in Chunk
    PROVE  /\ \A n \in 0 .. Len(s) : BytesOfOldest(Append(s, c), n) = BytesOfOldest(s, n)
           /\ BytesOfOldest(Append(s, c), Len(s) + 1) = BytesOfOldest(s, Len(s)) + c.byteLength
<1> DEFINE t == Append(s, c)
           S == {n \in 0 .. Len(s) : BytesOfOldest(t, n) = BytesOfOldest(s, n)}
<1>1. /\ t \in Seq(Chunk) /\ Len(s) \in Nat /\ Len(t) = Len(s) + 1
      /\ \A i \in 1 .. Len(s) : t[i] = s[i]
      /\ t[Len(s) + 1] = c
  OBVIOUS
<1> HIDE DEF t
<1>2. 0 \in S
  BY <1>1, BytesFacts
<1>3. ASSUME NEW n \in 1 .. Len(s), n - 1 \in S
      PROVE  n \in S
  <2>1. n \in 1 .. Len(t)
    BY <1>1
  <2>2. BytesOfOldest(t, n) = BytesOfOldest(t, n - 1) + t[n].byteLength
    BY <1>1, <2>1, BytesFacts
  <2>3. BytesOfOldest(s, n) = BytesOfOldest(s, n - 1) + s[n].byteLength
    BY BytesFacts
  <2> QED BY <1>1, <1>3, <2>2, <2>3
<1> HIDE DEF S
<1>4. \A n \in 0 .. Len(s) : n \in S
  BY <1>1, <1>2, <1>3, Induction
<1>5. \A n \in 0 .. Len(s) : BytesOfOldest(t, n) = BytesOfOldest(s, n)
  BY <1>4 DEF S
<1>6. BytesOfOldest(t, Len(s) + 1) = BytesOfOldest(s, Len(s)) + c.byteLength
  <2>1. Len(s) + 1 \in 1 .. Len(t) /\ (Len(s) + 1) - 1 = Len(s) /\ Len(s) \in 0 .. Len(s)
    BY <1>1
  <2>2. BytesOfOldest(t, Len(s) + 1) = BytesOfOldest(t, (Len(s) + 1) - 1) + t[Len(s) + 1].byteLength
    BY <1>1, <2>1, BytesFacts
  <2> QED BY <1>1, <1>5, <2>1, <2>2
<1> QED BY <1>5, <1>6 DEF t

(* What is left without the n oldest pieces has the bytes of the others.     *)
LEMMA BytesRemaining ==
    ASSUME NEW s \in Seq(Chunk), NEW n \in 0 .. Len(s)
    PROVE  \A m \in 0 .. Len(s) - n :
             BytesOfOldest(WithoutOldest(s, n), m) = BytesOfOldest(s, n + m) - BytesOfOldest(s, n)
<1> DEFINE t == WithoutOldest(s, n)
           S == {m \in 0 .. Len(s) - n : BytesOfOldest(t, m) = BytesOfOldest(s, n + m) - BytesOfOldest(s, n)}
<1>1. /\ t \in Seq(Chunk) /\ Len(s) \in Nat /\ n \in Nat /\ Len(t) = Len(s) - n /\ Len(s) - n \in Nat
      /\ \A i \in 1 .. Len(s) - n : t[i] = s[n + i]
  BY Remaining
<1> HIDE DEF t
<1>2. BytesOfOldest(s, n) \in Nat
  BY BytesFacts
<1>3. 0 \in S
  BY <1>1, <1>2, BytesFacts
<1>4. ASSUME NEW m \in 1 .. Len(s) - n, m - 1 \in S
      PROVE  m \in S
  <2>1. /\ n + m \in 1 .. Len(s) /\ (n + m) - 1 = n + (m - 1) /\ m \in 1 .. Len(t)
        /\ (n + m) - 1 \in 0 .. Len(s)
    BY <1>1
  <2>2. BytesOfOldest(t, m) = BytesOfOldest(t, m - 1) + t[m].byteLength
    BY <1>1, <2>1, BytesFacts
  <2>3. BytesOfOldest(s, n + m) = BytesOfOldest(s, (n + m) - 1) + s[n + m].byteLength
    BY <2>1, BytesFacts
  <2>4. t[m] = s[n + m] /\ s[n + m].byteLength \in Nat
    BY <1>1, <2>1, ChunkBytes
  <2>5. BytesOfOldest(s, (n + m) - 1) \in Nat
    BY <2>1, BytesFacts
  <2>6. BytesOfOldest(t, m - 1) = BytesOfOldest(s, (n + m) - 1) - BytesOfOldest(s, n)
    BY <1>4, <2>1
  <2>7. BytesOfOldest(t, m) = BytesOfOldest(s, n + m) - BytesOfOldest(s, n)
    BY <1>2, <2>2, <2>3, <2>4, <2>5, <2>6
  <2> QED BY <2>7
<1> HIDE DEF S
<1>5. \A m \in 0 .. Len(s) - n : m \in S
  BY <1>1, <1>3, <1>4, Induction
<1> QED BY <1>5 DEF S, t

LEMMA AppendKeepsCount == IInv /\ BytesCounted /\ AppendOutput => BytesCounted'
<1> SUFFICES ASSUME IInv, BytesCounted, AppendOutput PROVE BytesCounted'
  OBVIOUS
<1> DEFINE piece == NextPiece
           appended == Append(journal, piece)
           bytes == journalBytes + piece.byteLength
<1>1. journal \in Seq(Chunk) /\ piece \in Chunk
  BY PieceIsChunk DEF IInv, TypeOK, AppendOutput
<1>2. PICK n \in 0 .. Len(appended) :
        /\ journal' = WithoutOldest(appended, n)
        /\ journalBytes' = bytes - BytesOfOldest(appended, n)
  BY DEF AppendOutput
<1> HIDE DEF piece
<1>3. appended \in Seq(Chunk) /\ Len(appended) = Len(journal) + 1 /\ Len(journal) \in Nat
  BY <1>1
<1>4. BytesOfOldest(appended, Len(appended)) = bytes
  BY <1>1, <1>3, BytesAppended DEF BytesCounted
<1> HIDE DEF appended, bytes
<1>5. /\ Len(journal') = Len(appended) - n /\ Len(appended) - n \in 0 .. Len(appended) - n
      /\ n + (Len(appended) - n) = Len(appended)
  BY <1>2, <1>3, Remaining
<1>6. BytesOfOldest(journal', Len(appended) - n)
        = BytesOfOldest(appended, n + (Len(appended) - n)) - BytesOfOldest(appended, n)
  BY <1>2, <1>3, <1>5, BytesRemaining
<1>7. BytesOfOldest(journal', Len(journal')) = journalBytes'
  BY <1>2, <1>4, <1>5, <1>6
<1> QED BY <1>7 DEF BytesCounted

LEMMA AcceptKeepsCount ==
    ASSUME IInv, BytesCounted, NEW c, AcceptCheckpoint(c)
    PROVE  BytesCounted'
<1>1. journal \in Seq(Chunk) /\ Len(journal) \in Nat
  BY DEF IInv, TypeOK
<1>2. PICK n \in 0 .. Len(journal) :
        /\ journal' = WithoutOldest(journal, n)
        /\ journalBytes' = journalBytes - BytesOfOldest(journal, n)
  BY DEF AcceptCheckpoint, BytesBehind
<1>3. /\ Len(journal') = Len(journal) - n /\ Len(journal) - n \in 0 .. Len(journal) - n
      /\ n + (Len(journal) - n) = Len(journal)
  BY <1>1, <1>2, Remaining
<1>4. BytesOfOldest(journal', Len(journal) - n)
        = BytesOfOldest(journal, n + (Len(journal) - n)) - BytesOfOldest(journal, n)
  BY <1>1, <1>2, <1>3, BytesRemaining
<1> QED BY <1>2, <1>3, <1>4 DEF BytesCounted

(* journalBytes is the size of the journal, for every limit: the sum that    *)
(* appendOutput() and checkpoint() keep up is that of what is there.         *)
THEOREM BytesExact == Spec => []BytesCounted
<1>1. Init => BytesCounted
  <2> SUFFICES ASSUME Init PROVE BytesCounted
    OBVIOUS
  <2>1. journal = <<>> /\ Len(journal) = 0 /\ journalBytes = 0 /\ journal \in Seq(Chunk)
    BY DEF Init
  <2> QED BY <2>1, BytesFacts DEF BytesCounted
<1>2. IInv /\ BytesCounted /\ [Next]_session => BytesCounted'
  <2> SUFFICES ASSUME IInv, BytesCounted, [Next]_session PROVE BytesCounted'
    OBVIOUS
  <2>1. CASE AppendOutput
    BY <2>1, AppendKeepsCount
  <2>2. CASE \E s \in 0 .. MaxSequence, d \in Projection : AcceptCheckpoint([sequence |-> s, data |-> d])
    BY <2>2, AcceptKeepsCount
  <2>3. CASE PtyData \/ Terminate \/ UNCHANGED session
    BY <2>3 DEF BytesCounted, PtyData, Terminate, session
  <2> QED BY <2>1, <2>2, <2>3 DEF Next
<1>3. IInv /\ [Next]_session => IInv'
  BY NextPreservesIInv
<1>4. Init => IInv
  BY InitIInv
<1> QED BY <1>1, <1>2, <1>3, <1>4, PTL DEF Spec

(* Output that a checkpoint could have saved is discarded only with a        *)
(* request for one outstanding: a journal that was trimmed is still longer   *)
(* than the threshold, as one piece is smaller than what lies between them.  *)
THEOREM DiscardAsks == Spec => DiscardIsSignalled
<1>1. ASSUME IInv, BytesCounted, [Next]_session, HasCheckpoint, unread' < unread, Len(journal') <= Len(journal)
      PROVE  checkpointRequested'
  <2>1. /\ journal \in Seq(Chunk) /\ Len(journal) \in Nat /\ unread \in Nat
        /\ checkpointRequested \in BOOLEAN
    BY <1>1 DEF IInv, TypeOK
  <2>2. AppendOutput
    <3>1. ~PtyData
      <4>1. PtyData => unread = 0 /\ unread' \in Nat
        BY BoundAssumption DEF PtyData
      <4> QED BY <1>1, <4>1
    <3>2. unread' # unread
      BY <1>1, <2>1
    <3> QED BY <1>1, <3>1, <3>2 DEF Next, AcceptCheckpoint, Terminate, session
  <2> DEFINE piece == NextPiece
             appended == Append(journal, piece)
             bytes == journalBytes + piece.byteLength
  <2>3. piece \in Chunk
    BY <1>1, <2>2, PieceIsChunk DEF IInv, AppendOutput
  <2>4. PICK n \in 0 .. Len(appended) :
          /\ n > 0 => bytes - BytesOfOldest(appended, n - 1) > PostCheckpointLimit
          /\ journal' = WithoutOldest(appended, n)
          /\ journalBytes' = bytes - BytesOfOldest(appended, n)
    BY <1>1, <2>2 DEF AppendOutput, JournalLimit
  <2>5. checkpointRequested' = (checkpointRequested \/ AsksForCheckpoint)
    BY <2>2 DEF AppendOutput
  <2>6. /\ appended \in Seq(Chunk) /\ Len(appended) = Len(journal) + 1 /\ piece.byteLength \in Nat
        /\ journalBytes \in Nat
    <3>1. journalBytes \in Nat
      <4>1. Len(journal) \in 0 .. Len(journal)
        BY <2>1
      <4> QED BY <1>1, <2>1, <4>1, BytesFacts DEF BytesCounted
    <3>2. piece.byteLength \in Nat
      BY <2>3 DEF Chunk
    <3> HIDE DEF piece
    <3>3. appended \in Seq(Chunk) /\ Len(appended) = Len(journal) + 1
      BY <2>1, <2>3
    <3> QED BY <3>1, <3>2, <3>3
  <2>7. bytes \in Nat
    BY <2>6
  <2> HIDE DEF bytes, appended, piece
  <2>8. n > 0
    <3>1. Len(journal') = Len(appended) - n
      BY <2>4, <2>6, Remaining
    <3> QED BY <1>1, <2>1, <2>4, <2>6, <3>1
  <2>9. /\ n \in 1 .. Len(appended) /\ n - 1 \in 0 .. Len(appended)
    BY <2>1, <2>6, <2>8
  <2>10. /\ BytesOfOldest(appended, n) = BytesOfOldest(appended, n - 1) + appended[n].byteLength
         /\ BytesOfOldest(appended, n - 1) \in Nat
         /\ appended[n].byteLength \in Nat /\ appended[n].byteLength <= MaxOutputChunk
    BY <2>6, <2>9, BytesFacts, ChunkBytes
  <2>11. journalBytes' >= RequestThreshold
    BY <2>4, <2>7, <2>8, <2>10, LimitAssumption
  <2> QED BY <1>1, <2>1, <2>5, <2>11 DEF AsksForCheckpoint
<1>2. IInv /\ BytesCounted /\ [Next]_session
        => [(HasCheckpoint /\ unread' < unread /\ Len(journal') <= Len(journal)) => checkpointRequested']_session
  BY <1>1
<1> QED BY <1>2, InductiveInvariant, BytesExact, PTL DEF Spec, DiscardIsSignalled
=============================================================================
