------------------------- MODULE TerminalScreenProofs -------------------------
(* Proofs about the way of a terminal's output to its pane, for any limits,  *)
(* any length of output and any number of mounts and failures.               *)
EXTENDS TerminalScreen, NaturalsInduction, WellFoundedInduction, TLAPS

-----------------------------------------------------------------------------
(* What one batch adds (Contiguous).                                         *)

\* Induction up to n, for a property given by the set of numbers that have it.
LEMMA Induction ==
    ASSUME NEW n \in Nat, NEW S, 0 \in S, \A i \in 1 .. n : i - 1 \in S => i \in S
    PROVE  \A i \in 0 .. n : i \in S
<1> DEFINE Others == {i \in 0 .. n : i \notin S}
<1> SUFFICES ASSUME Others # {} PROVE FALSE
  OBVIOUS
<1>1. Others \subseteq Nat
  OBVIOUS
<1> HIDE DEF Others
<1>2. PICK m \in Others : \A j \in Others : ~ (<<j, m>> \in OpToRel(<, Nat))
  BY <1>1, NatLessThanWellFounded, WFMin, Zenon
<1>3. \A j \in Others : ~ (j < m)
  BY <1>1, <1>2, Zenon DEF OpToRel
<1>4. m \in 0 .. n /\ m \notin S /\ m # 0
  BY <1>2 DEF Others
<1>5. m \in 1 .. n /\ m - 1 \in 0 .. n /\ m - 1 < m
  BY <1>4
<1>6. m - 1 \in S
  BY <1>3, <1>5 DEF Others
<1> QED BY <1>4, <1>5, <1>6

\* f is the way of lastSequence through the first n pieces.
IsRun(f, from, pieces, n) ==
    /\ f \in [0 .. n -> Nat]
    /\ f[0] = from
    /\ \A i \in 1 .. n : f[i] = IF pieces[i] = f[i - 1] + 1 THEN pieces[i] ELSE f[i - 1]

LEMMA RunExists ==
    ASSUME NEW from \in Nat, NEW pieces \in Seq(Nat)
    PROVE  \E f : IsRun(f, from, pieces, Len(pieces))
<1> DEFINE S == {n \in 0 .. Len(pieces) : \E f : IsRun(f, from, pieces, n)}
<1>1. 0 \in S
  <2>1. IsRun([i \in 0 .. 0 |-> from], from, pieces, 0)
    BY DEF IsRun
  <2> QED BY <2>1
<1>2. ASSUME NEW n \in 1 .. Len(pieces), n - 1 \in S
      PROVE  n \in S
  <2>1. PICK f : IsRun(f, from, pieces, n - 1)
    BY <1>2
  <2> DEFINE next == IF pieces[n] = f[n - 1] + 1 THEN pieces[n] ELSE f[n - 1]
             g    == [i \in 0 .. n |-> IF i = n THEN next ELSE f[i]]
  <2>2. pieces[n] \in Nat /\ n - 1 \in 0 .. n - 1 /\ f[n - 1] \in Nat
    BY <2>1 DEF IsRun
  <2>3. next \in Nat
    BY <2>2
  <2>4. g \in [0 .. n -> Nat] /\ g[0] = from
    BY <2>1, <2>3 DEF IsRun
  <2>5. ASSUME NEW i \in 1 .. n
        PROVE  g[i] = IF pieces[i] = g[i - 1] + 1 THEN pieces[i] ELSE g[i - 1]
    <3>1. g[i - 1] = f[i - 1]
      OBVIOUS
    <3>2. CASE i = n
      BY <3>1, <3>2
    <3>3. CASE i # n
      BY <3>1, <3>3, <2>1 DEF IsRun
    <3> QED BY <3>2, <3>3
  <2>6. IsRun(g, from, pieces, n)
    BY <2>4, <2>5 DEF IsRun
  <2> QED BY <2>6
<1> HIDE DEF S
<1>3. Len(pieces) \in Nat
  OBVIOUS
<1>4. \A n \in 0 .. Len(pieces) : n \in S
  BY <1>1, <1>2, <1>3, Induction
<1> QED BY <1>3, <1>4 DEF S

\* Contiguous is read off the run.
LEMMA ContiguousIsRun ==
    ASSUME NEW from \in Nat, NEW pieces \in Seq(Nat)
    PROVE  \E f : /\ IsRun(f, from, pieces, Len(pieces))
                  /\ Contiguous(from, pieces) =
                       [at  |-> f[Len(pieces)],
                        gap |-> \E i \in 1 .. Len(pieces) : pieces[i] > f[i - 1] + 1]
<1> DEFINE Step(at) == [i \in 0 .. Len(pieces) |->
                          IF i = 0 THEN from
                          ELSE IF pieces[i] = at[i - 1] + 1 THEN pieces[i] ELSE at[i - 1]]
           run == CHOOSE at : at = Step(at)
<1>1. PICK f : IsRun(f, from, pieces, Len(pieces))
  BY RunExists
<1>2. f = Step(f)
  BY <1>1 DEF IsRun
<1>3. run = Step(run)
  BY <1>2
<1>4. Contiguous(from, pieces) =
        [at  |-> run[Len(pieces)],
         gap |-> \E i \in 1 .. Len(pieces) : pieces[i] > run[i - 1] + 1]
  BY DEF Contiguous
<1> HIDE DEF run
<1>5. DOMAIN run = 0 .. Len(pieces) /\ run[0] = from
  BY <1>3
<1>6. \A i \in 1 .. Len(pieces) :
        run[i] = IF pieces[i] = run[i - 1] + 1 THEN pieces[i] ELSE run[i - 1]
  BY <1>3
<1>7. \A i \in 0 .. Len(pieces) : run[i] \in Nat
  <2> DEFINE S == {i \in 0 .. Len(pieces) : run[i] \in Nat}
  <2>1. 0 \in S
    BY <1>5
  <2>2. ASSUME NEW i \in 1 .. Len(pieces), i - 1 \in S
        PROVE  i \in S
    <3>1. pieces[i] \in Nat
      OBVIOUS
    <3> QED BY <3>1, <2>2, <1>6
  <2> HIDE DEF S
  <2>3. Len(pieces) \in Nat
    OBVIOUS
  <2>4. \A i \in 0 .. Len(pieces) : i \in S
    BY <2>1, <2>2, <2>3, Induction
  <2> QED BY <2>4 DEF S
<1>8. IsRun(run, from, pieces, Len(pieces))
  <2>1. run = [i \in 0 .. Len(pieces) |-> run[i]]
    BY <1>3
  <2>2. run \in [0 .. Len(pieces) -> Nat]
    BY <2>1, <1>7
  <2> QED BY <2>2, <1>5, <1>6 DEF IsRun
<1> QED BY <1>4, <1>8

\* What every batch does: lastSequence stays between what it was and the
\* largest piece, and moves past a number only by writing that piece.
LEMMA ContiguousFacts ==
    ASSUME NEW from \in Nat, NEW pieces \in Seq(Nat)
    PROVE  LET reached == Contiguous(from, pieces)
           IN /\ reached.at \in Nat /\ reached.gap \in BOOLEAN
              /\ from <= reached.at
              /\ \A m \in Nat : from <= m /\ (\A i \in 1 .. Len(pieces) : pieces[i] <= m)
                                => reached.at <= m
              /\ \A r \in Nat : from < r /\ (\A i \in 1 .. Len(pieces) : pieces[i] # r)
                                => reached.at < r
              /\ ~reached.gap => \A i \in 1 .. Len(pieces) : pieces[i] <= reached.at
              /\ (\A i \in 1 .. Len(pieces) : pieces[i] = from + i)
                   => reached.at = from + Len(pieces)
<1> DEFINE n == Len(pieces)
<1>1. PICK f : /\ IsRun(f, from, pieces, n)
               /\ Contiguous(from, pieces) =
                    [at |-> f[n], gap |-> \E i \in 1 .. n : pieces[i] > f[i - 1] + 1]
  BY ContiguousIsRun
<1>2. n \in Nat /\ \A i \in 1 .. n : pieces[i] \in Nat
  OBVIOUS
<1> HIDE DEF n
<1>3. /\ \A i \in 0 .. n : f[i] \in Nat
      /\ f[0] = from
      /\ \A i \in 1 .. n : f[i] = IF pieces[i] = f[i - 1] + 1 THEN pieces[i] ELSE f[i - 1]
  BY <1>1 DEF IsRun
<1> DEFINE Step(i) == /\ f[i] \in Nat /\ f[i - 1] \in Nat /\ pieces[i] \in Nat
                      /\ \/ pieces[i] = f[i - 1] + 1 /\ f[i] = pieces[i]
                         \/ pieces[i] # f[i - 1] + 1 /\ f[i] = f[i - 1]
<1>13. \A i \in 1 .. n : i \in 0 .. n /\ Step(i)
  BY <1>2, <1>3
<1> HIDE DEF Step
<1>4. Contiguous(from, pieces).at = f[n]
      /\ Contiguous(from, pieces).gap = \E i \in 1 .. n : pieces[i] > f[i - 1] + 1
  BY <1>1
<1>5. \A i \in 0 .. n : from <= f[i]
  <2> DEFINE S == {i \in 0 .. n : from <= f[i]}
  <2>1. 0 \in S
    BY <1>2, <1>3
  <2>2. ASSUME NEW i \in 1 .. n, i - 1 \in S PROVE i \in S
    <3>1. Step(i) /\ i \in 0 .. n
      BY <1>13
    <3> QED BY <2>2, <1>2, <3>1 DEF Step
  <2> HIDE DEF S
  <2>3. \A i \in 0 .. n : i \in S
    BY <2>1, <2>2, <1>2, Induction
  <2> QED BY <2>3 DEF S
<1>6. ASSUME NEW m \in Nat, from <= m, \A i \in 1 .. n : pieces[i] <= m
      PROVE  f[n] <= m
  <2> DEFINE S == {i \in 0 .. n : f[i] <= m}
  <2>1. 0 \in S
    BY <1>2, <1>3, <1>6
  <2>2. ASSUME NEW i \in 1 .. n, i - 1 \in S PROVE i \in S
    <3>1. Step(i) /\ i \in 0 .. n
      BY <1>13
    <3> QED BY <2>2, <1>6, <3>1 DEF Step
  <2> HIDE DEF S
  <2>3. \A i \in 0 .. n : i \in S
    BY <2>1, <2>2, <1>2, Induction
  <2> QED BY <2>3, <1>2 DEF S
<1>7. ASSUME NEW r \in Nat, from < r, \A i \in 1 .. n : pieces[i] # r
      PROVE  f[n] < r
  <2> DEFINE S == {i \in 0 .. n : f[i] < r}
  <2>1. 0 \in S
    BY <1>2, <1>3, <1>7
  <2>2. ASSUME NEW i \in 1 .. n, i - 1 \in S PROVE i \in S
    <3>1. Step(i) /\ i \in 0 .. n
      BY <1>13
    <3> QED BY <2>2, <1>7, <3>1 DEF Step
  <2> HIDE DEF S
  <2>3. \A i \in 0 .. n : i \in S
    BY <2>1, <2>2, <1>2, Induction
  <2> QED BY <2>3, <1>2 DEF S
<1>8. ASSUME \A i \in 1 .. n : ~ (pieces[i] > f[i - 1] + 1)
      PROVE  \A i \in 1 .. n : pieces[i] <= f[n]
  <2> DEFINE S == {i \in 0 .. n : \A j \in 1 .. i : pieces[j] <= f[i]}
  <2>1. 0 \in S
    BY <1>2
  <2>2. ASSUME NEW i \in 1 .. n, i - 1 \in S PROVE i \in S
    <3>1. f[i - 1] <= f[i] /\ pieces[i] <= f[i]
      <4>1. Step(i) /\ i \in 0 .. n /\ ~ (pieces[i] > f[i - 1] + 1)
        BY <1>13, <1>8
      <4> QED BY <4>1 DEF Step
    <3>2. ASSUME NEW j \in 1 .. i PROVE pieces[j] <= f[i]
      <4>1. CASE j = i
        BY <4>1, <3>1
      <4>2. CASE j # i
        <5>1. j \in 1 .. i - 1 /\ j \in 1 .. n
          BY <4>2, <1>2
        <5>2. pieces[j] <= f[i - 1]
          BY <5>1, <2>2
        <5>3. Step(i) /\ pieces[j] \in Nat
          BY <5>1, <1>2, <1>13
        <5> QED BY <5>2, <5>3, <3>1 DEF Step
      <4> QED BY <4>1, <4>2
    <3> QED BY <3>2, <1>13
  <2> HIDE DEF S
  <2>3. \A i \in 0 .. n : i \in S
    BY <2>1, <2>2, <1>2, Induction
  <2> QED BY <2>3, <1>2 DEF S
<1>9. ASSUME \A i \in 1 .. n : pieces[i] = from + i
      PROVE  f[n] = from + n
  <2> DEFINE S == {i \in 0 .. n : f[i] = from + i}
  <2>1. 0 \in S
    BY <1>2, <1>3
  <2>2. ASSUME NEW i \in 1 .. n, i - 1 \in S PROVE i \in S
    <3>1. Step(i) /\ i \in 0 .. n
      BY <1>13
    <3> QED BY <2>2, <1>2, <1>9, <3>1 DEF Step
  <2> HIDE DEF S
  <2>3. \A i \in 0 .. n : i \in S
    BY <2>1, <2>2, <1>2, Induction
  <2> QED BY <2>3, <1>2 DEF S
<1>10. n \in 0 .. n
  BY <1>2
<1>11. f[n] \in Nat /\ from <= f[n]
  BY <1>3, <1>5, <1>10
<1> QED BY <1>2, <1>4, <1>6, <1>7, <1>8, <1>9, <1>11 DEF n
-----------------------------------------------------------------------------
(* The service's journal: what TerminalJournalProofs shows of the module, of *)
(* its instance.                                                             *)

JournalInv == Service!TypeOK /\ Service!JournalIsLatestOutput /\ Service!CompleteExactly

(* What is left of a sequence without its n oldest elements.                 *)
LEMMA Remaining ==
    ASSUME NEW S, NEW s \in Seq(S), NEW n \in 0 .. Len(s)
    PROVE  /\ Service!WithoutOldest(s, n) \in Seq(S)
           /\ Len(Service!WithoutOldest(s, n)) = Len(s) - n
           /\ \A i \in 1 .. Len(s) - n : Service!WithoutOldest(s, n)[i] = s[n + i]
           /\ Service!WithoutOldest(s, n) = <<>> <=> n = Len(s)
<1>1. Len(s) \in Nat /\ n \in Nat
  OBVIOUS
<1>2. /\ Service!WithoutOldest(s, n) \in Seq(S)
      /\ Len(Service!WithoutOldest(s, n)) = Len(s) - n
      /\ \A i \in 1 .. Len(s) - n : Service!WithoutOldest(s, n)[i] = s[n + i]
  BY <1>1 DEF Service!WithoutOldest
<1>3. Service!WithoutOldest(s, n) = <<>> <=> Len(Service!WithoutOldest(s, n)) = 0
  BY <1>2
<1> QED
  BY <1>1, <1>2, <1>3

LEMMA ChunkSequence ==
    ASSUME NEW s \in Seq(Service!Chunk), NEW i \in 1 .. Len(s)
    PROVE  s[i].sequence \in Nat
<1>1. s[i] \in Service!Chunk
  OBVIOUS
<1> QED
  BY <1>1 DEF Service!Chunk

(* The next piece is a chunk: no larger than the limit, and never empty.     *)
LEMMA PieceIsChunk ==
    ASSUME Service!TypeOK, unread > 0
    PROVE  Service!NextPiece \in Service!Chunk /\ Service!NextPiece.byteLength <= unread
  BY JournalAssumption DEF Service!TypeOK, Service!NextPiece, Service!Chunk, Service!Least

LEMMA BaseIsNatural == Service!TypeOK => Service!Base \in Nat
  BY DEF Service!TypeOK, Service!Base, Service!Checkpoint, Service!NoCheckpoint

LEMMA InitJournal == Service!Init => JournalInv
<1> SUFFICES ASSUME Service!Init PROVE JournalInv
  OBVIOUS
<1>1. journal = <<>> /\ Len(journal) = 0 /\ lastSequence = 0
  BY DEF Service!Init
<1>2. Service!Base = 0
  BY DEF Service!Init, Service!Base, Service!NoCheckpoint
<1>3. Service!TypeOK
  <2>1. journal \in Seq(Service!Chunk)
    BY <1>1
  <2>2. /\ checkpoint \in Service!Checkpoint \cup {Service!NoCheckpoint}
        /\ reconstructionComplete \in BOOLEAN
        /\ checkpointRequested \in BOOLEAN
    BY Zenon DEF Service!Init
  <2>3. unread \in Nat /\ lastSequence \in Nat
    BY DEF Service!Init
  <2> QED
    BY <2>1, <2>2, <2>3 DEF Service!TypeOK
<1>4. Service!JournalIsLatestOutput
  BY <1>1, <1>2 DEF Service!JournalIsLatestOutput
<1>5. Service!CompleteExactly
  BY <1>1, <1>2 DEF Service!Init, Service!CompleteExactly, Service!Covered
<1> QED
  BY <1>3, <1>4, <1>5 DEF JournalInv

-----------------------------------------------------------------------------
(* A piece is appended and n pieces are shifted out: the journal stays the   *)
(* latest output, and a shift uncovers what was covered.                     *)
LEMMA AppendKeepsJournal == JournalInv /\ Service!AppendOutput => JournalInv'
<1> SUFFICES ASSUME JournalInv, Service!AppendOutput PROVE JournalInv'
  OBVIOUS
<1> DEFINE piece == Service!NextPiece
           appended == Append(journal, piece)
<1>1. Service!TypeOK /\ Service!JournalIsLatestOutput /\ Service!CompleteExactly
  BY DEF JournalInv
<1>2. unread > 0 /\ piece \in Service!Chunk /\ piece.byteLength <= unread
  BY <1>1, PieceIsChunk DEF Service!AppendOutput
<1>3. piece.sequence = lastSequence + 1 /\ piece.byteLength \in Nat
  BY <1>2 DEF Service!NextPiece, Service!Chunk
<1>4. /\ unread' = unread - piece.byteLength
      /\ lastSequence' = piece.sequence
      /\ checkpoint' = checkpoint
      /\ checkpointRequested' \in BOOLEAN
  BY <1>1 DEF Service!AppendOutput, Service!TypeOK
<1>5. PICK n \in 0 .. Len(appended) :
        /\ journal' = Service!WithoutOldest(appended, n)
        /\ reconstructionComplete' = (reconstructionComplete /\ n = 0)
  BY DEF Service!AppendOutput
<1>6. /\ journal \in Seq(Service!Chunk) /\ Len(journal) \in Nat
      /\ lastSequence \in Nat /\ Service!Base \in Nat /\ unread \in Nat
      /\ reconstructionComplete \in BOOLEAN
  BY <1>1, BaseIsNatural DEF Service!TypeOK
<1> HIDE DEF piece
<1>7. /\ appended \in Seq(Service!Chunk)
      /\ Len(appended) = Len(journal) + 1
      /\ \A i \in 1 .. Len(journal) : appended[i] = journal[i]
      /\ appended[Len(journal) + 1] = piece
  BY <1>2, <1>6
<1>8. /\ \A i \in 1 .. Len(journal) : journal[i].sequence + Len(journal) = lastSequence + i
      /\ Service!Base + Len(journal) <= lastSequence
  BY <1>1 DEF Service!JournalIsLatestOutput
<1> HIDE DEF appended
<1>9. \A i \in 1 .. Len(appended) :
        appended[i].sequence + Len(journal) = lastSequence + i
  <2> SUFFICES ASSUME NEW i \in 1 .. Len(appended)
               PROVE  appended[i].sequence + Len(journal) = lastSequence + i
    OBVIOUS
  <2>1. CASE i \in 1 .. Len(journal)
    BY <2>1, <1>7, <1>8
  <2>2. CASE i = Len(journal) + 1
    BY <2>2, <1>3, <1>6, <1>7
  <2> QED
    BY <2>1, <2>2, <1>6, <1>7
<1>10. /\ journal' \in Seq(Service!Chunk)
       /\ Len(journal') = Len(appended) - n
       /\ \A i \in 1 .. Len(appended) - n : journal'[i] = appended[n + i]
       /\ journal' = <<>> <=> n = Len(appended)
  BY <1>5, <1>7, Remaining
<1>11. lastSequence' = lastSequence + 1 /\ n \in Nat /\ n <= Len(journal) + 1
  BY <1>3, <1>4, <1>5, <1>6, <1>7
<1>12. Service!Base' = Service!Base
  BY <1>4 DEF Service!Base
<1>13. Service!TypeOK'
  BY <1>1, <1>2, <1>3, <1>4, <1>5, <1>6, <1>10, <1>11 DEF Service!TypeOK
<1>14. Service!JournalIsLatestOutput'
  <2>1. \A i \in 1 .. Len(journal') : journal'[i].sequence + Len(journal') = lastSequence' + i
    <3> SUFFICES ASSUME NEW i \in 1 .. Len(journal')
                 PROVE  journal'[i].sequence + Len(journal') = lastSequence' + i
      OBVIOUS
    <3>1. i \in Nat /\ i >= 1 /\ i <= Len(journal) + 1 - n
      BY <1>6, <1>7, <1>10, <1>11
    <3>2. n + i \in 1 .. Len(appended) /\ journal'[i] = appended[n + i]
      BY <3>1, <1>6, <1>7, <1>10, <1>11
    <3>3. appended[n + i].sequence + Len(journal) = lastSequence + n + i
      BY <3>1, <3>2, <1>9, <1>6, <1>11
    <3>4. appended[n + i].sequence \in Nat
      BY <3>2, <1>7, ChunkSequence
    <3>5. Len(journal') = Len(journal) + 1 - n
      BY <1>7, <1>10
    <3>6. PICK q \in Nat : q = appended[n + i].sequence /\ q = journal'[i].sequence
      BY <3>2, <3>4
    <3>7. q + Len(journal) = lastSequence + n + i
      BY <3>3, <3>6
    <3>8. i \in Nat /\ n \in Nat /\ Len(journal) \in Nat /\ lastSequence \in Nat
      BY <3>1, <1>6, <1>11
    <3>9. q + (Len(journal) + 1 - n) = lastSequence + 1 + i
      BY <3>7, <3>8
    <3> QED
      BY <3>5, <3>6, <3>9, <1>11
  <2>2. Service!Base' + Len(journal') <= lastSequence'
    BY <1>6, <1>7, <1>8, <1>10, <1>11, <1>12
  <2> QED
    BY <2>1, <2>2 DEF Service!JournalIsLatestOutput
<1>15. Service!CompleteExactly'
  <2>1. CASE n = 0
    <3>1. journal' # <<>> /\ journal'[1] = appended[1]
      BY <2>1, <1>6, <1>7, <1>10
    <3>2. Service!Covered' <=> journal'[1].sequence = Service!Base' + 1
      BY <3>1 DEF Service!Covered
    <3>3. Service!Covered' <=> Service!Covered
      <4>1. CASE journal = <<>>
        <5>1. journal'[1] = piece
          BY <4>1, <3>1, <1>7
        <5> QED
          BY <4>1, <5>1, <3>2, <1>3, <1>6, <1>12 DEF Service!Covered
      <4>2. CASE journal # <<>>
        <5>1. journal'[1] = journal[1]
          BY <4>2, <3>1, <1>6, <1>7
        <5> QED
          BY <4>2, <5>1, <3>2, <1>12 DEF Service!Covered
      <4> QED
        BY <4>1, <4>2
    <3> QED
      BY <3>3, <2>1, <1>1, <1>5, <1>6 DEF Service!CompleteExactly
  <2>2. CASE n > 0
    <3>1. ~Service!Covered'
      <4>1. CASE journal' = <<>>
        <5>1. Service!Base' # lastSequence'
          BY <1>6, <1>8, <1>11, <1>12
        <5> QED
          BY <4>1, <5>1 DEF Service!Covered
      <4>2. CASE journal' # <<>>
        <5>1. n < Len(appended)
          BY <4>2, <1>5, <1>6, <1>7, <1>10, <1>11
        <5>2. journal'[1] = appended[n + 1] /\ n + 1 \in 1 .. Len(appended)
          BY <5>1, <1>6, <1>7, <1>10, <1>11
        <5>3. appended[n + 1].sequence + Len(journal) = lastSequence + n + 1
          BY <5>2, <1>9, <1>6, <1>11
        <5>4. appended[n + 1].sequence \in Nat
          BY <5>2, <1>7, ChunkSequence
        <5>5. journal'[1].sequence # Service!Base' + 1
          BY <5>2, <5>3, <5>4, <2>2, <1>6, <1>8, <1>11, <1>12
        <5> QED
          BY <4>2, <5>5 DEF Service!Covered
      <4> QED
        BY <4>1, <4>2
    <3>2. reconstructionComplete' = FALSE
      <4>1. n # 0
        BY <2>2
      <4> QED
        BY <4>1, <1>5
    <3> QED
      BY <3>1, <3>2 DEF Service!CompleteExactly
  <2> QED
    BY <2>1, <2>2, <1>11
<1> QED
  BY <1>13, <1>14, <1>15 DEF JournalInv

(* What a checkpoint covers leaves the journal, and it tells exactly whether *)
(* the rest begins right behind it.                                          *)
LEMMA AcceptKeepsJournal ==
    ASSUME JournalInv, NEW c \in Service!Checkpoint, Service!AcceptCheckpoint(c)
    PROVE  JournalInv'
<1>1. Service!TypeOK /\ Service!JournalIsLatestOutput
  BY DEF JournalInv
<1>2. PICK n \in 0 .. Len(journal) :
        /\ n < Len(journal) => journal[n + 1].sequence > c.sequence
        /\ journal' = Service!WithoutOldest(journal, n)
        /\ reconstructionComplete' = Service!ContiguousBehind(c, n)
  BY DEF Service!AcceptCheckpoint
<1>3. /\ checkpoint' = c
      /\ checkpointRequested' = FALSE
      /\ unread' = unread
      /\ lastSequence' = lastSequence
      /\ c.sequence <= lastSequence
  BY DEF Service!AcceptCheckpoint, Service!Acceptable
<1>4. /\ journal \in Seq(Service!Chunk) /\ Len(journal) \in Nat /\ n \in Nat
      /\ n <= Len(journal) /\ lastSequence \in Nat /\ c.sequence \in Nat
  BY <1>1, <1>2 DEF Service!TypeOK, Service!Checkpoint
<1>5. /\ journal' \in Seq(Service!Chunk)
      /\ Len(journal') = Len(journal) - n
      /\ \A i \in 1 .. Len(journal) - n : journal'[i] = journal[n + i]
      /\ journal' = <<>> <=> n = Len(journal)
  BY <1>2, <1>4, Remaining
<1>6. Service!Base' = c.sequence
  BY <1>3 DEF Service!Base
<1>7. \A i \in 1 .. Len(journal) : journal[i].sequence + Len(journal) = lastSequence + i
  BY <1>1 DEF Service!JournalIsLatestOutput
<1>8. \A i \in 1 .. Len(journal) : journal[i].sequence \in Nat
  BY <1>4, ChunkSequence
<1>9. Service!TypeOK'
  <2>1. Service!ContiguousBehind(c, n) \in BOOLEAN
    BY DEF Service!ContiguousBehind
  <2> QED
    BY <2>1, <1>1, <1>2, <1>3, <1>5 DEF Service!TypeOK
<1>10. Service!JournalIsLatestOutput'
  <2>1. \A i \in 1 .. Len(journal') : journal'[i].sequence + Len(journal') = lastSequence' + i
    <3> SUFFICES ASSUME NEW i \in 1 .. Len(journal')
                 PROVE  journal'[i].sequence + Len(journal') = lastSequence' + i
      OBVIOUS
    <3>1. n + i \in 1 .. Len(journal) /\ journal'[i] = journal[n + i]
      BY <1>4, <1>5
    <3>2. journal[n + i].sequence + Len(journal) = lastSequence + n + i
      BY <3>1, <1>4, <1>7
    <3>3. Len(journal') = Len(journal) - n /\ lastSequence' = lastSequence
      BY <1>3, <1>5
    <3>4. PICK q \in Nat : q = journal[n + i].sequence /\ q = journal'[i].sequence
      BY <3>1, <1>8
    <3>5. q + Len(journal) = lastSequence + n + i
      BY <3>2, <3>4
    <3>6. q + (Len(journal) - n) = lastSequence + i
      BY <3>4, <3>5, <1>4
    <3> QED
      BY <3>3, <3>4, <3>6
  <2>2. c.sequence + Len(journal') <= lastSequence
    <3>1. CASE n = Len(journal)
      BY <3>1, <1>3, <1>4, <1>5
    <3>2. CASE n < Len(journal)
      <4>1. n + 1 \in 1 .. Len(journal)
        BY <3>2, <1>4
      <4>2. journal[n + 1].sequence + Len(journal) = lastSequence + n + 1
        BY <4>1, <1>4, <1>7
      <4> QED
        BY <3>2, <4>1, <4>2, <1>2, <1>4, <1>5, <1>8
    <3> QED
      BY <3>1, <3>2, <1>4
  <2> QED
    BY <2>1, <2>2, <1>3, <1>6 DEF Service!JournalIsLatestOutput
<1>11. Service!CompleteExactly'
  <2>1. CASE n = Len(journal)
    <3>1. journal' = <<>> /\ ~(n < Len(journal))
      BY <2>1, <1>4, <1>5
    <3>2. reconstructionComplete' <=> c.sequence = lastSequence
      BY <3>1, <1>2 DEF Service!ContiguousBehind
    <3> QED
      BY <3>1, <3>2, <1>3, <1>6 DEF Service!CompleteExactly, Service!Covered
  <2>2. CASE n < Len(journal)
    <3>1. journal' # <<>> /\ journal'[1] = journal[n + 1]
      BY <2>2, <1>4, <1>5
    <3> QED
      BY <2>2, <3>1, <1>2, <1>6 DEF Service!CompleteExactly, Service!Covered, Service!ContiguousBehind
  <2> QED
    BY <2>1, <2>2, <1>4
<1> QED
  BY <1>9, <1>10, <1>11 DEF JournalInv

-----------------------------------------------------------------------------
(* What is known of the output: everything on its way speaks of the n pieces *)
(* that the service has put out, and a complete snapshot is contiguous.      *)

OutputBound == lastSequence * MaxOutputChunk + unread <= MaxSequence * MaxOutputChunk

Checkpoints(n) ==
    {c \in Service!Checkpoint : c.sequence <= n /\ c.data \subseteq 1 .. c.sequence}

Snapshots(n) ==
    {s \in [checkpoint : Checkpoints(n) \cup {Service!NoCheckpoint}, output : Seq(Service!Chunk),
            lastSequence : 0 .. n, complete : BOOLEAN] :
        /\ s.checkpoint.sequence <= s.lastSequence
        /\ s.complete =>
            /\ s.checkpoint.sequence + Len(s.output) = s.lastSequence
            /\ \A i \in 1 .. Len(s.output) : s.output[i].sequence = s.checkpoint.sequence + i}

WireEvents(n) == [event : {"output"}, sequence : 1 .. n] \cup {RequestEvent}
Replies(n)    == {r \in [event : {"attached"}, ok : BOOLEAN, pane : Nat, reset : BOOLEAN,
                         snapshot : Snapshots(n) \cup {NoSnapshot}] :
                    r.ok => r.snapshot \in Snapshots(n)}
Events(n)     == WireEvents(n) \cup {ResyncEvent} \cup Replies(n)
Exchanges(n)  == {NoExchange} \cup [phase : {"answered", "subscribing"}, snapshot : Snapshots(n)]
                              \cup [phase : {"replied"}]

Transitions(n) ==
    {t \in [kind : {"attach", "checkpoint", "leave"}, pane : Nat, reset : BOOLEAN,
            projection : Checkpoints(n) \cup {Service!NoCheckpoint}, begun : BOOLEAN] :
        t.kind = "leave" => t.projection \in Checkpoints(n)}

Writes(n)   == {w \in [adds : SUBSET (1 .. n), upTo : 0 .. n] : w.adds \subseteq 1 .. w.upTo}
Ordered(ws) == \A i, j \in 1 .. Len(ws) : i < j =>
                    ws[i].upTo <= ws[j].upTo /\ \A b \in ws[j].adds : ws[i].upTo < b

Operations(n) ==
    {o \in [kind : {"batch", "restore"}, chunks : Seq(1 .. n),
            snapshot : Snapshots(n) \cup {NoSnapshot}, started : BOOLEAN,
            writes : Seq(Writes(n)), short : BOOLEAN] :
        /\ ~o.short
        /\ o.kind = "restore" => o.snapshot \in Snapshots(n)
        /\ o.started => o.writes # <<>> /\ Ordered(o.writes)
        /\ o.started /\ o.kind = "batch" => Len(o.writes) = 1
        /\ o.started /\ o.kind = "restore" => o.writes[Len(o.writes)].upTo = o.snapshot.lastSequence}

Captures == [by : {"scheduler", "transition"}, behind : Nat]
Posts(n) == [by : {"scheduler", "transition", "leave"}, pane : Nat, checkpoint : Checkpoints(n),
             answer : {"none", "accepted", "refused"}]

MainKnown ==
    /\ attachment \in {"none", "opening", "open", "closing"}
    /\ wire \in Seq(WireEvents(lastSequence))
    /\ exchange \in Exchanges(lastSequence)
    /\ channel \in Seq(Events(lastSequence))
    /\ failures \in 0 .. MaxFailures
    /\ subscriber \in Nat

PaneKnown ==
    /\ pane \in 1 .. MaxMounts /\ (~mounted => pane < MaxMounts)
    /\ mounted \in BOOLEAN /\ paneError \in BOOLEAN /\ orphan \in BOOLEAN
    /\ resyncRequested \in BOOLEAN /\ restoreAgain \in BOOLEAN
    /\ needsFlush \in BOOLEAN /\ timer \in BOOLEAN
    /\ restoring \in {"no", "attaching", "applying", "sizing"}
    /\ transitions \in Seq(Transitions(lastSequence))
    /\ captures \in SUBSET Captures
    /\ posts \in SUBSET Posts(lastSequence)

\* What a write under way adds is above all that is on the screen.
AboveScreen(ws) == \A i \in 1 .. Len(ws) : \A t \in screen :
                        t <= ws[i].upTo /\ \A b \in ws[i].adds : t < b

ScreenKnown ==
    /\ applied \in 0 .. lastSequence
    /\ screen \subseteq 1 .. applied
    /\ operations \in Seq(Operations(lastSequence))
    /\ \A i \in 2 .. Len(operations) : ~operations[i].started
    /\ operations # <<>> /\ Head(operations).started => AboveScreen(Head(operations).writes)

ServiceKnown ==
    /\ JournalInv /\ OutputBound
    /\ checkpoint \in Checkpoints(lastSequence) \cup {Service!NoCheckpoint}

Known == ServiceKnown /\ MainKnown /\ PaneKnown /\ ScreenKnown

\* An exchange belongs to the attachment at the head of the chain.
AttachUnderWay == exchange.phase # "idle" => Attaching

-----------------------------------------------------------------------------
(* Sequences.                                                                *)

LEMMA AppendFacts ==
    ASSUME NEW S, NEW s \in Seq(S), NEW e \in S
    PROVE  /\ Append(s, e) \in Seq(S) /\ Append(s, e) # <<>>
           /\ Len(s) \in Nat /\ Len(Append(s, e)) = Len(s) + 1
           /\ \A i \in 1 .. Len(s) : Append(s, e)[i] = s[i]
           /\ Append(s, e)[Len(s) + 1] = e
  OBVIOUS

LEMMA SingleFacts ==
    ASSUME NEW S, NEW e \in S
    PROVE  <<e>> \in Seq(S) /\ Len(<<e>>) = 1 /\ <<e>>[1] = e /\ <<e>> # <<>>
  OBVIOUS

LEMMA TailFacts ==
    ASSUME NEW S, NEW s \in Seq(S), s # <<>>
    PROVE  /\ Tail(s) \in Seq(S) /\ Head(s) \in S /\ Head(s) = s[1]
           /\ Len(s) \in Nat \ {0} /\ Len(Tail(s)) = Len(s) - 1
           /\ \A i \in 1 .. Len(s) - 1 : Tail(s)[i] = s[i + 1]
  OBVIOUS

LEMMA HeadFacts ==
    ASSUME NEW S, NEW s \in Seq(S), s # <<>>, NEW h \in S
    PROVE  LET t == [s EXCEPT ![1] = h]
           IN /\ t \in Seq(S) /\ t # <<>> /\ Len(t) = Len(s) /\ Head(t) = h /\ t[1] = h
              /\ \A i \in 2 .. Len(s) : t[i] = s[i]
  OBVIOUS

LEMMA ConcatFacts ==
    ASSUME NEW S, NEW s \in Seq(S), NEW t \in Seq(S)
    PROVE  /\ s \o t \in Seq(S)
           /\ Len(s) \in Nat /\ Len(t) \in Nat /\ Len(s \o t) = Len(s) + Len(t)
           /\ \A i \in 1 .. Len(s) : (s \o t)[i] = s[i]
           /\ \A i \in Len(s) + 1 .. Len(s) + Len(t) : (s \o t)[i] = t[i - Len(s)]
  OBVIOUS

LEMMA SeqGrows ==
    ASSUME NEW S, NEW T, S \subseteq T, NEW s \in Seq(S)
    PROVE  s \in Seq(T)
<1>1. Len(s) \in Nat /\ \A i \in 1 .. Len(s) : s[i] \in T
  OBVIOUS
<1>2. s = [i \in 1 .. Len(s) |-> s[i]]
  OBVIOUS
<1> QED BY <1>1, <1>2

\* What is known stays known when more is put out.
LEMMA KnownGrows ==
    ASSUME NEW n \in Nat, NEW m \in Nat, n <= m
    PROVE  /\ Checkpoints(n) \subseteq Checkpoints(m)
           /\ Snapshots(n) \subseteq Snapshots(m)
           /\ WireEvents(n) \subseteq WireEvents(m)
           /\ Events(n) \subseteq Events(m)
           /\ Exchanges(n) \subseteq Exchanges(m)
           /\ Transitions(n) \subseteq Transitions(m)
           /\ Operations(n) \subseteq Operations(m)
           /\ Posts(n) \subseteq Posts(m)
<1>1. Checkpoints(n) \subseteq Checkpoints(m)
  BY DEF Checkpoints, Service!Checkpoint
<1>2. 0 .. n \subseteq 0 .. m /\ 1 .. n \subseteq 1 .. m
  OBVIOUS
<1>3. Snapshots(n) \subseteq Snapshots(m)
  BY <1>1, <1>2 DEF Snapshots
<1>4. WireEvents(n) \subseteq WireEvents(m)
  BY <1>2 DEF WireEvents
<1>5. Replies(n) \subseteq Replies(m)
  BY <1>3 DEF Replies
<1>6. Events(n) \subseteq Events(m)
  BY <1>4, <1>5 DEF Events
<1>7. Exchanges(n) \subseteq Exchanges(m)
  BY <1>3 DEF Exchanges
<1>8. Transitions(n) \subseteq Transitions(m)
  BY <1>1 DEF Transitions
<1>9. Posts(n) \subseteq Posts(m)
  BY <1>1 DEF Posts
<1>10. Writes(n) \subseteq Writes(m)
  BY <1>2 DEF Writes
<1>11. Operations(n) \subseteq Operations(m)
  <2>1. Seq(1 .. n) \subseteq Seq(1 .. m) /\ Seq(Writes(n)) \subseteq Seq(Writes(m))
    BY <1>2, <1>10, SeqGrows
  <2> QED BY <1>3, <2>1 DEF Operations
<1> QED BY <1>1, <1>3, <1>4, <1>6, <1>7, <1>8, <1>9, <1>11

\* The output fits its bound, whatever the length of a piece.
LEMMA BoundedOutput ==
    ASSUME JournalInv, OutputBound
    PROVE  lastSequence \in 0 .. MaxSequence
<1>1. lastSequence \in Nat /\ unread \in Nat /\ MaxSequence \in Nat /\ MaxOutputChunk \in Nat \ {0}
  BY JournalAssumption DEF JournalInv, Service!TypeOK
<1>2. lastSequence * MaxOutputChunk <= MaxSequence * MaxOutputChunk
  BY <1>1 DEF OutputBound
<1>3. ASSUME lastSequence > MaxSequence PROVE FALSE
  <2>1. PICK d \in Nat \ {0} : lastSequence = MaxSequence + d
    <3>1. lastSequence = MaxSequence + (lastSequence - MaxSequence)
      BY <1>1
    <3> QED BY <1>1, <1>3, <3>1
  <2>2. lastSequence * MaxOutputChunk = MaxSequence * MaxOutputChunk + d * MaxOutputChunk
    BY <1>1, <2>1
  <2>3. d * MaxOutputChunk > 0
    BY <1>1, <2>1
  <2> QED BY <1>1, <1>2, <2>1, <2>2, <2>3
<1> QED BY <1>1, <1>3

-----------------------------------------------------------------------------
(* The service's steps.                                                      *)

LEMMA ReadKnown ==
    ASSUME ServiceKnown, Service!PtyData
    PROVE  ServiceKnown' /\ lastSequence' = lastSequence
<1>1. /\ unread = 0
      /\ \E bytes \in 1 .. MaxRead :
            lastSequence * MaxOutputChunk + bytes <= MaxSequence * MaxOutputChunk /\ unread' = bytes
      /\ UNCHANGED <<lastSequence, journal, journalBytes, checkpoint,
                     reconstructionComplete, checkpointRequested>>
  BY DEF Service!PtyData
<1>2. JournalInv'
  BY <1>1, JournalAssumption
     DEF ServiceKnown, JournalInv, Service!TypeOK, Service!JournalIsLatestOutput,
         Service!CompleteExactly, Service!Covered, Service!Base
<1>3. OutputBound'
  BY <1>1 DEF OutputBound
<1> QED BY <1>1, <1>2, <1>3 DEF ServiceKnown

LEMMA AppendKnown ==
    ASSUME ServiceKnown, Service!AppendOutput
    PROVE  /\ ServiceKnown'
           /\ lastSequence \in Nat /\ lastSequence' = lastSequence + 1
           /\ checkpoint' = checkpoint
           /\ checkpointRequested' # checkpointRequested => checkpointRequested' /\ Service!HasCheckpoint
<1>1. JournalInv /\ JournalInv'
  BY AppendKeepsJournal DEF ServiceKnown
<1> DEFINE b == Service!NextPiece.byteLength
<1>2. /\ unread > 0 /\ unread' = unread - b
      /\ lastSequence' = Service!NextPiece.sequence /\ checkpoint' = checkpoint
  BY DEF Service!AppendOutput
<1>3. lastSequence \in Nat /\ unread \in Nat /\ MaxSequence \in Nat /\ MaxOutputChunk \in Nat \ {0}
  BY <1>1, JournalAssumption DEF JournalInv, Service!TypeOK
<1>4. lastSequence' = lastSequence + 1 /\ b = IF unread < MaxOutputChunk THEN unread ELSE MaxOutputChunk
  BY <1>2 DEF Service!NextPiece, Service!Least
<1> HIDE DEF b
<1>5. OutputBound'
  <2>1. (lastSequence + 1) * MaxOutputChunk = lastSequence * MaxOutputChunk + MaxOutputChunk
    BY <1>3
  <2>2. lastSequence * MaxOutputChunk + unread <= MaxSequence * MaxOutputChunk
    BY DEF ServiceKnown, OutputBound
  <2>3. lastSequence * MaxOutputChunk \in Nat /\ MaxSequence * MaxOutputChunk \in Nat
    BY <1>3
  <2>4. CASE unread < MaxOutputChunk
    <3>1. unread' = 0
      BY <2>4, <1>2, <1>3, <1>4
    <3>2. lastSequence < MaxSequence
      <4>1. lastSequence * MaxOutputChunk < MaxSequence * MaxOutputChunk
        BY <1>2, <1>3, <2>2, <2>3
      <4>2. ASSUME lastSequence >= MaxSequence PROVE FALSE
        <5>1. PICK d \in Nat : lastSequence = MaxSequence + d
          <6>1. lastSequence = MaxSequence + (lastSequence - MaxSequence)
            BY <1>3
          <6> QED BY <1>3, <4>2, <6>1
        <5>2. lastSequence * MaxOutputChunk = MaxSequence * MaxOutputChunk + d * MaxOutputChunk
          BY <1>3, <5>1
        <5>3. d * MaxOutputChunk >= 0
          BY <1>3, <5>1
        <5> QED BY <1>3, <2>3, <4>1, <5>2, <5>3
      <4> QED BY <1>3, <4>2
    <3>3. PICK e \in Nat : MaxSequence = (lastSequence + 1) + e
      <4>1. MaxSequence = (lastSequence + 1) + (MaxSequence - (lastSequence + 1))
        BY <1>3
      <4> QED BY <1>3, <3>2, <4>1
    <3>4. MaxSequence * MaxOutputChunk = (lastSequence + 1) * MaxOutputChunk + e * MaxOutputChunk
      BY <1>3, <3>3
    <3>5. e * MaxOutputChunk >= 0 /\ (lastSequence + 1) * MaxOutputChunk \in Nat
      BY <1>3, <3>3
    <3>6. (lastSequence + 1) * MaxOutputChunk + 0 <= MaxSequence * MaxOutputChunk
      <4>1. PICK x \in Nat : x = (lastSequence + 1) * MaxOutputChunk
        BY <3>5
      <4>2. PICK y \in Nat : y = e * MaxOutputChunk
        BY <1>3, <3>3
      <4> QED BY <4>1, <4>2, <3>4
    <3> QED BY <3>1, <3>6, <1>4 DEF OutputBound
  <2>5. CASE ~ (unread < MaxOutputChunk)
    <3>1. unread' = unread - MaxOutputChunk
      BY <2>5, <1>2, <1>4
    <3>2. (lastSequence + 1) * MaxOutputChunk + (unread - MaxOutputChunk) <= MaxSequence * MaxOutputChunk
      BY <2>1, <2>2, <2>3, <1>3
    <3> QED BY <3>1, <3>2, <1>4 DEF OutputBound
  <2> QED BY <2>4, <2>5
<1>6. checkpoint' \in Checkpoints(lastSequence') \cup {Service!NoCheckpoint}
  BY <1>2, <1>3, <1>4, KnownGrows DEF ServiceKnown
<1>7. checkpointRequested' # checkpointRequested => checkpointRequested' /\ Service!HasCheckpoint
  BY <1>1 DEF Service!AppendOutput, Service!AsksForCheckpoint, JournalInv, Service!TypeOK
<1> QED BY <1>1, <1>2, <1>3, <1>4, <1>5, <1>6, <1>7 DEF ServiceKnown

LEMMA AcceptKnown ==
    ASSUME ServiceKnown, NEW c \in Checkpoints(lastSequence), Service!AcceptCheckpoint(c)
    PROVE  /\ ServiceKnown' /\ lastSequence' = lastSequence
           /\ checkpoint' = c /\ checkpointRequested' = FALSE
<1>1. c \in Service!Checkpoint
  BY DEF Checkpoints
<1>2. JournalInv'
  BY <1>1, AcceptKeepsJournal DEF ServiceKnown
<1>3. unread' = unread /\ lastSequence' = lastSequence /\ checkpoint' = c /\ checkpointRequested' = FALSE
  BY DEF Service!AcceptCheckpoint
<1>4. OutputBound'
  BY <1>3 DEF ServiceKnown, OutputBound
<1> QED BY <1>2, <1>3, <1>4 DEF ServiceKnown

\* What attach() answers, and that it is up to date.
LEMMA SnapshotKnown ==
    ASSUME ServiceKnown
    PROVE  /\ Service!Snapshot \in Snapshots(lastSequence)
           /\ Service!Snapshot.lastSequence = lastSequence
<1>1. /\ lastSequence \in Nat /\ journal \in Seq(Service!Chunk) /\ reconstructionComplete \in BOOLEAN
      /\ Service!JournalIsLatestOutput /\ Service!CompleteExactly
  BY DEF ServiceKnown, JournalInv, Service!TypeOK
<1>2. checkpoint \in Checkpoints(lastSequence) \cup {Service!NoCheckpoint}
  BY DEF ServiceKnown
<1>3. checkpoint.sequence \in 0 .. lastSequence
  BY <1>1, <1>2 DEF Checkpoints, Service!Checkpoint, Service!NoCheckpoint
<1>4. ASSUME reconstructionComplete
      PROVE  /\ checkpoint.sequence + Len(journal) = lastSequence
             /\ \A i \in 1 .. Len(journal) : journal[i].sequence = checkpoint.sequence + i
  <2>1. Service!Covered /\ Len(journal) \in Nat
    BY <1>1, <1>4 DEF Service!CompleteExactly
  <2>2. \A i \in 1 .. Len(journal) : journal[i].sequence \in Nat
    BY <1>1, ChunkSequence
  <2>3. \A i \in 1 .. Len(journal) : journal[i].sequence + Len(journal) = lastSequence + i
    BY <1>1 DEF Service!JournalIsLatestOutput
  <2>4. checkpoint.sequence + Len(journal) = lastSequence
    <3>1. CASE journal = <<>>
      BY <3>1, <2>1, <1>3 DEF Service!Covered, Service!Base
    <3>2. CASE journal # <<>>
      <4>1. 1 \in 1 .. Len(journal) /\ journal[1].sequence = checkpoint.sequence + 1
        BY <3>2, <2>1, <1>1 DEF Service!Covered, Service!Base
      <4>2. PICK q \in Nat : q = journal[1].sequence
        BY <4>1, <2>2
      <4>3. q = checkpoint.sequence + 1 /\ q + Len(journal) = lastSequence + 1
        BY <4>1, <4>2, <2>3
      <4> QED BY <4>2, <4>3, <2>1, <1>1, <1>3
    <3> QED BY <3>1, <3>2
  <2>5. ASSUME NEW i \in 1 .. Len(journal)
        PROVE  journal[i].sequence = checkpoint.sequence + i
    <3>1. PICK q \in Nat : q = journal[i].sequence
      BY <2>2
    <3>2. q + Len(journal) = lastSequence + i
      BY <3>1, <2>3
    <3>3. PICK len \in Nat, base \in Nat : len = Len(journal) /\ base = checkpoint.sequence
      BY <1>1, <1>3, <2>1
    <3>4. q + len = (base + len) + i
      BY <2>4, <3>2, <3>3
    <3>5. q = base + i
      BY <3>4
    <3> QED BY <3>1, <3>3, <3>5
  <2> QED BY <2>4, <2>5
<1>5. QED BY <1>1, <1>2, <1>3, <1>4 DEF Service!Snapshot, Snapshots

-----------------------------------------------------------------------------
(* What a restore writes (restoreNow).                                       *)

LEMMA CompleteReach ==
    ASSUME NEW n \in Nat, NEW s \in Snapshots(n), s.complete
    PROVE  /\ BaseOf(s) = s.checkpoint.sequence /\ BaseOf(s) \in 0 .. s.lastSequence
           /\ EndOf(s) = s.lastSequence
<1>1. /\ s.checkpoint \in Checkpoints(n) \cup {Service!NoCheckpoint}
      /\ s.output \in Seq(Service!Chunk) /\ s.lastSequence \in 0 .. n
      /\ s.checkpoint.sequence <= s.lastSequence
      /\ s.checkpoint.sequence + Len(s.output) = s.lastSequence
      /\ \A i \in 1 .. Len(s.output) : s.output[i].sequence = s.checkpoint.sequence + i
  BY DEF Snapshots
<1>2. s.checkpoint.sequence \in Nat
  BY <1>1 DEF Checkpoints, Service!Checkpoint, Service!NoCheckpoint
<1>3. BaseOf(s) = s.checkpoint.sequence
  <2>1. CASE Checkpointed(s)
    BY <2>1 DEF BaseOf
  <2>2. CASE ~Checkpointed(s) /\ s.output = <<>>
    BY <2>2 DEF BaseOf, Checkpointed, Service!NoCheckpoint
  <2>3. CASE ~Checkpointed(s) /\ s.output # <<>>
    <3>1. 1 \in 1 .. Len(s.output) /\ s.checkpoint.sequence = 0
      BY <2>3, <1>1 DEF Checkpointed, Service!NoCheckpoint
    <3>2. s.output[1].sequence = 1
      BY <3>1, <1>1
    <3> QED BY <2>3, <3>1, <3>2 DEF BaseOf
  <2> QED BY <2>1, <2>2, <2>3
<1> DEFINE pieces == [i \in 1 .. Len(s.output) |-> s.output[i].sequence]
<1>4. Len(s.output) \in Nat
  BY <1>1
<1>5. pieces \in Seq(Nat) /\ Len(pieces) = Len(s.output)
  <2>1. \A i \in 1 .. Len(s.output) : s.output[i].sequence \in Nat
    BY <1>1, <1>2
  <2> QED BY <2>1, <1>4
<1>6. \A i \in 1 .. Len(pieces) : pieces[i] = BaseOf(s) + i
  BY <1>1, <1>3, <1>5
<1>7. ReachOf(s) = Contiguous(BaseOf(s), pieces).at
  BY DEF ReachOf
<1> HIDE DEF pieces
<1>8. Contiguous(BaseOf(s), pieces).at = BaseOf(s) + Len(pieces)
  <2>1. BaseOf(s) \in Nat
    BY <1>2, <1>3
  <2>2. (\A i \in 1 .. Len(pieces) : pieces[i] = BaseOf(s) + i)
          => Contiguous(BaseOf(s), pieces).at = BaseOf(s) + Len(pieces)
    BY <2>1, <1>5, ContiguousFacts, Zenon
  <2> QED BY <2>2, <1>6
<1> QED BY <1>1, <1>2, <1>3, <1>5, <1>7, <1>8 DEF EndOf

LEMMA ReplayFacts ==
    ASSUME NEW n \in Nat, NEW s \in Snapshots(n)
    PROVE  /\ ~Short(s)
           /\ RestoreWrites(s) \in Seq(Writes(n)) /\ Ordered(RestoreWrites(s))
           /\ RestoreWrites(s) # <<>> =>
                RestoreWrites(s)[Len(RestoreWrites(s))].upTo = s.lastSequence
           /\ (IF s.complete THEN BaseOf(s) ELSE EndOf(s)) \in 0 .. s.lastSequence
           /\ RestoreWrites(s) = <<>> =>
                ~Checkpointed(s) /\ (IF s.complete THEN BaseOf(s) ELSE EndOf(s)) = s.lastSequence
<1> DEFINE c == s.checkpoint
           base == BaseOf(s)
           last == s.lastSequence
<1>1. /\ c \in Checkpoints(n) \cup {Service!NoCheckpoint}
      /\ last \in 0 .. n /\ c.sequence <= last /\ s.complete \in BOOLEAN
  BY DEF Snapshots
<1>2. ASSUME Checkpointed(s)
      PROVE  /\ c.sequence \in 0 .. last /\ c.data \in SUBSET (1 .. c.sequence)
             /\ base = c.sequence
  BY <1>1, <1>2 DEF Checkpointed, Checkpoints, Service!Checkpoint, BaseOf
<1>3. CASE ~s.complete
  <2>1. EndOf(s) = last /\ RestoreWrites(s) = CheckpointWrite(s, last)
    BY <1>3 DEF EndOf, RestoreWrites
  <2>2. CASE Checkpointed(s)
    <3> DEFINE w == Write(c.data, last)
    <3>1. RestoreWrites(s) = <<w>>
      BY <2>1, <2>2 DEF CheckpointWrite
    <3>2. w \in Writes(n) /\ w.upTo = last
      BY <1>1, <1>2, <2>2 DEF Write, Writes
    <3> HIDE DEF w
    <3>3. <<w>> \in Seq(Writes(n)) /\ Len(<<w>>) = 1 /\ <<w>>[1] = w /\ <<w>> # <<>>
      BY <3>2
    <3>4. Ordered(<<w>>)
      BY <3>3 DEF Ordered
    <3> QED BY <1>1, <1>3, <2>1, <3>1, <3>2, <3>3, <3>4 DEF Short
  <2>3. CASE ~Checkpointed(s)
    <3>1. RestoreWrites(s) = <<>>
      BY <2>1, <2>3 DEF CheckpointWrite
    <3>2. Ordered(<<>>) /\ <<>> \in Seq(Writes(n))
      BY DEF Ordered
    <3> QED BY <1>1, <1>3, <2>1, <2>3, <3>1, <3>2 DEF Short
  <2> QED BY <2>2, <2>3
<1>4. CASE s.complete
  <2>1. base \in 0 .. last /\ EndOf(s) = last /\ base = c.sequence
    BY <1>4, CompleteReach
  <2> DEFINE k     == last - base
             tail  == [i \in 1 .. k |-> Write({base + i}, base + i)]
             first == CheckpointWrite(s, base)
             d     == Len(first)
             ws    == RestoreWrites(s)
  <2>2. ws = first \o tail
    BY <1>4, <2>1 DEF RestoreWrites
  <2>3. k \in Nat /\ last \in Nat /\ base \in Nat
    BY <1>1, <2>1
  <2>4. /\ tail \in Seq(Writes(n)) /\ Len(tail) = k
        /\ \A i \in 1 .. k : tail[i] = Write({base + i}, base + i)
    <3>1. \A i \in 1 .. k : Write({base + i}, base + i) \in Writes(n)
      BY <1>1, <2>1, <2>3 DEF Write, Writes
    <3> HIDE DEF k
    <3> QED BY <3>1, <2>3
  <2>5. /\ first \in Seq(Writes(n)) /\ d \in {0, 1}
        /\ d = 0 <=> ~Checkpointed(s)
        /\ d = 1 => first[1] \in Writes(n) /\ first[1].upTo = base
    <3>1. CASE Checkpointed(s)
      <4>1. Write(c.data, base) \in Writes(n) /\ Write(c.data, base).upTo = base
        BY <1>1, <1>2, <3>1 DEF Write, Writes
      <4>2. first = <<Write(c.data, base)>>
        BY <3>1 DEF CheckpointWrite
      <4> QED BY <3>1, <4>1, <4>2
    <3>2. CASE ~Checkpointed(s)
      <4>1. first = <<>>
        BY <3>2 DEF CheckpointWrite
      <4> QED BY <3>2, <4>1
    <3> QED BY <3>1, <3>2
  <2> HIDE DEF tail, first, d, ws, k, base, last, c
  <2>6. /\ ws \in Seq(Writes(n)) /\ Len(ws) = d + k
        /\ \A i \in 1 .. d : ws[i] = first[i]
        /\ \A i \in d + 1 .. d + k : ws[i] = tail[i - d]
    <3>1. ws = first \o tail /\ first \in Seq(Writes(n)) /\ tail \in Seq(Writes(n)) /\ Len(tail) = k
      BY <2>2, <2>4, <2>5
    <3> QED BY <3>1, ConcatFacts DEF d
  <2>7. ASSUME NEW i \in 1 .. Len(ws)
        PROVE  /\ ws[i].upTo = base + (i - d)
               /\ i > d => ws[i].adds = {base + (i - d)}
    <3>1. CASE i <= d
      <4>1. i = 1 /\ d = 1
        BY <3>1, <2>5, <2>6, <2>3
      <4>2. ws[1] = first[1]
        BY <4>1, <2>6
      <4> QED BY <4>1, <4>2, <2>3, <2>5
    <3>2. CASE i > d
      <4>1. i - d \in 1 .. k /\ i \in d + 1 .. d + k
        BY <3>2, <2>3, <2>5, <2>6
      <4>2. ws[i] = Write({base + (i - d)}, base + (i - d))
        BY <4>1, <2>4, <2>6
      <4> QED BY <4>2 DEF Write
    <3> QED BY <3>1, <3>2, <2>3, <2>5, <2>6
  <2>8. Ordered(ws)
    <3> SUFFICES ASSUME NEW i \in 1 .. Len(ws), NEW j \in 1 .. Len(ws), i < j
                 PROVE  ws[i].upTo <= ws[j].upTo /\ \A b \in ws[j].adds : ws[i].upTo < b
      BY DEF Ordered
    <3>1. j > d
      BY <2>3, <2>5, <2>6
    <3>2. ws[j].adds = {base + (j - d)} /\ ws[j].upTo = base + (j - d) /\ ws[i].upTo = base + (i - d)
      BY <3>1, <2>7
    <3>3. base + (i - d) < base + (j - d)
      BY <2>3, <2>5, <2>6
    <3> QED BY <3>2, <3>3, <2>3, <2>5, <2>6
  <2>9. ws # <<>> => ws[Len(ws)].upTo = last
    <3> SUFFICES ASSUME ws # <<>> PROVE ws[Len(ws)].upTo = last
      OBVIOUS
    <3>1. Len(ws) \in 1 .. Len(ws) /\ Len(ws) - d = k
      BY <2>3, <2>5, <2>6
    <3>2. ws[Len(ws)].upTo = base + k
      BY <3>1, <2>7
    <3> QED BY <3>2, <2>1, <2>3, <1>1 DEF k, last
  <2>10. ws = <<>> => ~Checkpointed(s) /\ base = last
    <3> SUFFICES ASSUME ws = <<>> PROVE ~Checkpointed(s) /\ base = last
      OBVIOUS
    <3>1. Len(ws) = 0
      OBVIOUS
    <3> QED BY <3>1, <2>3, <2>5, <2>6 DEF k
  <2>11. ~Short(s)
    BY <2>1 DEF Short, last
  <2> QED BY <1>4, <2>1, <2>6, <2>8, <2>9, <2>10, <2>11 DEF ws, base, last
<1> QED BY <1>1, <1>3, <1>4

-----------------------------------------------------------------------------
(* The queues of the pane.                                                   *)

\* The pieces of a batch.
Pieces(o) == {o.chunks[j] : j \in 1 .. Len(o.chunks)}

LEMMA OperationFacts ==
    ASSUME NEW n \in Nat, NEW o \in Operations(n)
    PROVE  /\ o.kind \in {"batch", "restore"} /\ o.started \in BOOLEAN /\ o.short = FALSE
           /\ o.chunks \in Seq(1 .. n) /\ o.chunks \in Seq(Nat) /\ Pieces(o) \subseteq 1 .. n
           /\ o.writes \in Seq(Writes(n))
           /\ o.kind = "restore" => o.snapshot \in Snapshots(n)
           /\ o.started => o.writes # <<>> /\ Ordered(o.writes)
           /\ o.started /\ o.kind = "batch" => Len(o.writes) = 1
           /\ o.started /\ o.kind = "restore" => o.writes[Len(o.writes)].upTo = o.snapshot.lastSequence
<1>1. o.chunks \in Seq(1 .. n)
  BY DEF Operations
<1>2. o.chunks \in Seq(Nat)
  BY <1>1, SeqGrows
<1>3. Pieces(o) \subseteq 1 .. n
  BY <1>1 DEF Pieces
<1> QED BY <1>1, <1>2, <1>3 DEF Operations

LEMMA NewOperations ==
    ASSUME NEW n \in Nat
    PROVE  /\ \A s \in 1 .. n : Batch(<<s>>) \in Operations(n) /\ Pieces(Batch(<<s>>)) = {s}
           /\ \A s \in Snapshots(n) : Restoration(s) \in Operations(n) /\ Pieces(Restoration(s)) = {}
<1>1. ASSUME NEW s \in 1 .. n
      PROVE  Batch(<<s>>) \in Operations(n) /\ Pieces(Batch(<<s>>)) = {s}
  <2>1. <<s>> \in Seq(1 .. n) /\ <<>> \in Seq(Writes(n))
    OBVIOUS
  <2> QED BY <2>1 DEF Batch, Operations, Pieces
<1>2. ASSUME NEW s \in Snapshots(n)
      PROVE  Restoration(s) \in Operations(n) /\ Pieces(Restoration(s)) = {}
  <2>1. <<>> \in Seq(1 .. n) /\ <<>> \in Seq(Writes(n)) /\ Len(<<>>) = 0
    OBVIOUS
  <2> QED BY <2>1 DEF Restoration, Operations, Pieces
<1> QED BY <1>1, <1>2

\* A piece joins the last batch or starts another, and nothing else changes.
LEMMA EnqueueFacts ==
    ASSUME NEW n \in Nat, operations \in Seq(Operations(n)), NEW s \in 1 .. n
    PROVE  LET E == Enqueued(s)
           IN
           /\ E \in Seq(Operations(n)) /\ E # <<>>
           /\ Len(operations) \in Nat /\ Len(E) \in {Len(operations), Len(operations) + 1}
           /\ s \in Pieces(E[Len(E)]) /\ E[Len(E)].kind = "batch"
           /\ \A i \in 1 .. Len(operations) :
                /\ E[i].kind = operations[i].kind /\ E[i].started = operations[i].started
                /\ E[i].snapshot = operations[i].snapshot
                /\ operations[i].started => E[i] = operations[i]
           /\ \A i \in 1 .. Len(operations) :
                /\ Pieces(operations[i]) \subseteq Pieces(E[i])
                /\ Pieces(E[i]) \subseteq Pieces(operations[i]) \cup {s}
           /\ Len(E) = Len(operations) + 1 => E[Len(E)] = Batch(<<s>>)
<1> DEFINE len == Len(operations)
           last == operations[len]
           joined == [last EXCEPT !.chunks = Append(@, s)]
           E == Enqueued(s)
<1>1. len \in Nat
  OBVIOUS
<1>2. CASE operations # <<>> /\ last.kind = "batch" /\ ~last.started /\ Len(last.chunks) < BatchLimit
  <2>1. E = [operations EXCEPT ![len] = joined]
    BY <1>2 DEF Enqueued
  <2>2. len \in 1 .. len /\ last \in Operations(n)
    BY <1>2
  <2>3. last.chunks \in Seq(1 .. n)
    BY <2>2, OperationFacts
  <2>4. /\ Append(last.chunks, s) \in Seq(1 .. n)
        /\ Len(Append(last.chunks, s)) = Len(last.chunks) + 1
        /\ \A j \in 1 .. Len(last.chunks) : Append(last.chunks, s)[j] = last.chunks[j]
        /\ Append(last.chunks, s)[Len(last.chunks) + 1] = s
        /\ Len(last.chunks) \in Nat
    BY <2>3, AppendFacts
  <2>5. joined \in Operations(n)
    BY <2>2, <2>4, <1>2 DEF Operations
  <2>6. Pieces(joined) = Pieces(last) \cup {s}
    <3>1. joined.chunks = Append(last.chunks, s)
      BY <2>2 DEF Operations
    <3>2. ASSUME NEW x \in Pieces(joined) PROVE x \in Pieces(last) \cup {s}
      <4>1. PICK j \in 1 .. Len(last.chunks) + 1 : x = Append(last.chunks, s)[j]
        BY <3>1, <3>2, <2>4 DEF Pieces
      <4>2. CASE j = Len(last.chunks) + 1
        BY <4>1, <4>2, <2>4
      <4>3. CASE j # Len(last.chunks) + 1
        <5>1. j \in 1 .. Len(last.chunks) /\ x = last.chunks[j]
          BY <4>1, <4>3, <2>4
        <5> QED BY <5>1 DEF Pieces
      <4> QED BY <4>2, <4>3
    <3>3. ASSUME NEW x \in Pieces(last) PROVE x \in Pieces(joined)
      <4>1. PICK j \in 1 .. Len(last.chunks) : x = last.chunks[j]
        BY <3>3 DEF Pieces
      <4>2. j \in 1 .. Len(joined.chunks) /\ x = joined.chunks[j]
        BY <4>1, <3>1, <2>4
      <4> QED BY <4>2 DEF Pieces
    <3>4. s \in Pieces(joined)
      <4>1. Len(last.chunks) + 1 \in 1 .. Len(joined.chunks) /\ s = joined.chunks[Len(last.chunks) + 1]
        BY <3>1, <2>4
      <4> QED BY <4>1 DEF Pieces
    <3> QED BY <3>2, <3>3, <3>4
  <2>7. /\ joined.kind = last.kind /\ joined.started = last.started /\ joined.snapshot = last.snapshot
    BY <2>2 DEF Operations
  <2> HIDE DEF joined, E
  <2>8. /\ E \in Seq(Operations(n)) /\ Len(E) = len /\ E[len] = joined /\ E # <<>>
        /\ \A i \in 1 .. len : i # len => E[i] = operations[i]
    BY <2>1, <2>2, <2>5
  <2>9. ASSUME NEW i \in 1 .. len
        PROVE  /\ E[i].kind = operations[i].kind /\ E[i].started = operations[i].started
               /\ E[i].snapshot = operations[i].snapshot
               /\ operations[i].started => E[i] = operations[i]
               /\ Pieces(operations[i]) \subseteq Pieces(E[i])
               /\ Pieces(E[i]) \subseteq Pieces(operations[i]) \cup {s}
    <3>1. CASE i = len
      BY <3>1, <2>6, <2>7, <2>8, <1>2
    <3>2. CASE i # len
      BY <3>2, <2>8
    <3> QED BY <3>1, <3>2
  <2> QED BY <2>6, <2>7, <2>8, <2>9, <1>1, <1>2 DEF E
<1>3. CASE ~ (operations # <<>> /\ last.kind = "batch" /\ ~last.started /\ Len(last.chunks) < BatchLimit)
  <2>1. E = Append(operations, Batch(<<s>>))
    BY <1>3 DEF Enqueued
  <2>2. Batch(<<s>>) \in Operations(n) /\ Pieces(Batch(<<s>>)) = {s} /\ Batch(<<s>>).kind = "batch"
    BY NewOperations DEF Batch
  <2>3. /\ E \in Seq(Operations(n)) /\ Len(E) = len + 1 /\ E # <<>>
        /\ \A i \in 1 .. len : E[i] = operations[i]
        /\ E[len + 1] = Batch(<<s>>)
    BY <2>1, <2>2, AppendFacts
  <2> QED BY <2>2, <2>3, <1>1
<1> QED BY <1>2, <1>3

\* What is chained is a transition.
LEMMA NewTransitions ==
    ASSUME NEW n \in Nat, pane \in Nat
    PROVE  /\ \A p \in Nat, reset \in BOOLEAN : Attach(p, reset) \in Transitions(n)
           /\ Recheckpoint \in Transitions(n)
           /\ \A c \in Checkpoints(n) : Leave(c) \in Transitions(n)
  BY DEF Attach, Recheckpoint, Leave, Transition, Transitions

\* The head of the chain begins.
LEMMA BegunFacts ==
    ASSUME NEW n \in Nat, transitions \in Seq(Transitions(n)), transitions # <<>>
    PROVE  /\ Begun \in Seq(Transitions(n)) /\ Len(Begun) = Len(transitions) /\ Len(transitions) \in Nat \ {0}
           /\ Begun[1] = [Head(transitions) EXCEPT !.begun = TRUE]
           /\ \A i \in 2 .. Len(transitions) : Begun[i] = transitions[i]
           /\ \A i \in 1 .. Len(transitions) :
                /\ Begun[i].kind = transitions[i].kind /\ Begun[i].pane = transitions[i].pane
                /\ Begun[i].projection = transitions[i].projection
<1> DEFINE h == [Head(transitions) EXCEPT !.begun = TRUE]
<1>1. Head(transitions) \in Transitions(n) /\ Head(transitions) = transitions[1] /\ Len(transitions) \in Nat \ {0}
  BY TailFacts
<1>2. /\ h \in Transitions(n) /\ h.kind = transitions[1].kind /\ h.pane = transitions[1].pane
      /\ h.projection = transitions[1].projection
  BY <1>1 DEF Transitions
<1>3. Begun = [transitions EXCEPT ![1] = h]
  BY <1>1 DEF Begun
<1> HIDE DEF h
<1>4. /\ Begun \in Seq(Transitions(n)) /\ Len(Begun) = Len(transitions) /\ Begun[1] = h
      /\ \A i \in 2 .. Len(transitions) : Begun[i] = transitions[i]
  BY <1>1, <1>2, <1>3
<1>5. ASSUME NEW i \in 1 .. Len(transitions)
      PROVE  /\ Begun[i].kind = transitions[i].kind /\ Begun[i].pane = transitions[i].pane
             /\ Begun[i].projection = transitions[i].projection
  <2>1. CASE i = 1
    BY <2>1, <1>2, <1>4
  <2>2. CASE i # 1
    BY <2>2, <1>1, <1>4
  <2> QED BY <2>1, <2>2
<1> QED BY <1>1, <1>4, <1>5 DEF h

-----------------------------------------------------------------------------
(* Every step keeps what is known.                                           *)

LEMMA InitKnown == Init => Known
<1> SUFFICES ASSUME Init PROVE Known
  OBVIOUS
<1>1. JournalInv /\ lastSequence = 0 /\ checkpoint = Service!NoCheckpoint
  BY InitJournal DEF Init, Service!Init
<1>2. ServiceKnown
  BY <1>1, JournalAssumption DEF Init, Service!Init, ServiceKnown, OutputBound
<1>3. MainKnown
  BY ScreenAssumption DEF Init, MainKnown, Exchanges
<1>4. PaneKnown
  <2>1. Attach(1, FALSE) \in Transitions(lastSequence)
    BY <1>1 DEF Attach, Transition, Transitions
  <2>2. transitions = <<Attach(1, FALSE)>>
    BY DEF Init
  <2>3. transitions \in Seq(Transitions(lastSequence))
    BY <2>1, <2>2, SingleFacts
  <2>4. /\ mounted \in BOOLEAN /\ paneError \in BOOLEAN /\ orphan \in BOOLEAN
        /\ resyncRequested \in BOOLEAN /\ restoreAgain \in BOOLEAN
        /\ needsFlush \in BOOLEAN /\ timer \in BOOLEAN
    BY Zenon DEF Init
  <2>5. /\ pane = 1 /\ restoring = "attaching" /\ captures = {} /\ posts = {}
    BY DEF Init
  <2>6. pane \in 1 .. MaxMounts
    BY <2>5, ScreenAssumption
  <2>7. mounted
    BY DEF Init
  <2> QED BY <2>3, <2>4, <2>5, <2>6, <2>7 DEF PaneKnown
<1>5. ScreenKnown
  BY <1>1 DEF Init, ScreenKnown
<1> QED BY <1>2, <1>3, <1>4, <1>5 DEF Known

LEMMA ServiceUntouched ==
    ASSUME ServiceKnown, UNCHANGED journalVars
    PROVE  ServiceKnown' /\ lastSequence' = lastSequence /\ lastSequence \in Nat
  BY DEF ServiceKnown, journalVars, JournalInv, OutputBound, Service!TypeOK,
         Service!JournalIsLatestOutput, Service!CompleteExactly, Service!Covered, Service!Base

LEMMA MainUntouched ==
    ASSUME MainKnown, lastSequence' = lastSequence, UNCHANGED <<mainVars, channel, history>>
    PROVE  MainKnown'
  BY DEF MainKnown, mainVars, history

LEMMA PaneUntouched ==
    ASSUME PaneKnown, lastSequence' = lastSequence,
           UNCHANGED <<mount, restoration, resyncRequested, transitions, scheduler, posts>>
    PROVE  PaneKnown'
  BY DEF PaneKnown, mount, restoration, scheduler

LEMMA ScreenUntouched ==
    ASSUME ScreenKnown, lastSequence' = lastSequence, UNCHANGED <<screen, applied, operations>>
    PROVE  ScreenKnown'
  BY DEF ScreenKnown, AboveScreen

LEMMA OutputKnown ==
    ASSUME Known, Output
    PROVE  Known' /\ lastSequence \in Nat /\ lastSequence' = lastSequence + 1
<1> DEFINE n == lastSequence
           m == lastSequence'
<1>1. /\ ServiceKnown' /\ n \in Nat /\ m = n + 1 /\ m \in Nat /\ n <= m
  BY AppendKnown DEF Known, Output
<1>2. UNCHANGED <<subscriber, exchange, failures, channel, paneVars, posts>>
  BY DEF Output
<1>3. /\ Checkpoints(n) \subseteq Checkpoints(m)
      /\ WireEvents(n) \subseteq WireEvents(m)
      /\ Events(n) \subseteq Events(m)
      /\ Exchanges(n) \subseteq Exchanges(m)
      /\ Transitions(n) \subseteq Transitions(m)
      /\ Operations(n) \subseteq Operations(m)
      /\ Posts(n) \subseteq Posts(m)
  BY <1>1, KnownGrows
<1>4. MainKnown'
  <2>1. ChunkEvent(m) \in WireEvents(m) /\ RequestEvent \in WireEvents(m)
    BY <1>1 DEF ChunkEvent, WireEvents
  <2>2. <<ChunkEvent(m)>> \in Seq(WireEvents(m)) /\ <<ChunkEvent(m), RequestEvent>> \in Seq(WireEvents(m))
    BY <2>1
  <2>3. PICK events \in Seq(WireEvents(m)) : Emit(events)
    BY <2>2 DEF Output
  <2>4. wire \in Seq(WireEvents(m)) /\ attachment \in {"none", "opening", "open", "closing"}
    BY <1>3, SeqGrows DEF Known, MainKnown
  <2>5. wire' \in Seq(WireEvents(m)) /\ attachment' \in {"none", "opening", "open", "closing"}
    <3>1. CASE attachment # "open"
      BY <3>1, <2>3, <2>4 DEF Emit
    <3>2. CASE attachment = "open"
      <4>1. PICK sent \in 0 .. Len(events) :
              /\ wire' = wire \o SubSeq(events, 1, sent)
              /\ attachment' = IF sent = Len(events) THEN "open" ELSE "closing"
        BY <3>2, <2>3 DEF Emit
      <4>2. SubSeq(events, 1, sent) \in Seq(WireEvents(m))
        <5>1. Len(events) \in Nat /\ sent \in Nat /\ sent <= Len(events)
          BY <4>1
        <5>2. \A i \in 1 .. sent : events[i] \in WireEvents(m)
          BY <5>1
        <5> QED BY <5>1, <5>2
      <4>3. wire \o SubSeq(events, 1, sent) \in Seq(WireEvents(m))
        BY <2>4, <4>2, ConcatFacts
      <4> QED BY <4>1, <4>3
    <3> QED BY <3>1, <3>2
  <2>6. channel' \in Seq(Events(m))
    BY <1>2, <1>3, SeqGrows DEF Known, MainKnown
  <2> QED BY <2>5, <2>6, <1>2, <1>3 DEF Known, MainKnown
<1>5. PaneKnown'
  <2>1. transitions \in Seq(Transitions(m))
    BY <1>3, SeqGrows DEF Known, PaneKnown
  <2>2. UNCHANGED <<mount, restoration, resyncRequested, transitions, scheduler, posts>>
    BY <1>2 DEF paneVars, reconciler
  <2> QED BY <2>1, <2>2, <1>3 DEF Known, PaneKnown, mount, restoration, scheduler
<1>6. ScreenKnown'
  <2>1. operations \in Seq(Operations(m))
    BY <1>3, SeqGrows DEF Known, ScreenKnown
  <2>2. UNCHANGED <<screen, applied, operations>>
    BY <1>2 DEF paneVars, reconciler
  <2>3. applied' \in 0 .. m
    BY <2>2, <1>1 DEF Known, ScreenKnown
  <2>4. ScreenKnown
    BY DEF Known
  <2> HIDE DEF n, m
  <2> QED BY <2>1, <2>2, <2>3, <2>4 DEF ScreenKnown, AboveScreen, m
<1> QED BY <1>1, <1>4, <1>5, <1>6 DEF Known

\* The steps of Electron main, and of the service but for its output.
LEMMA MainStepsKnown ==
    ASSUME Known, AttachUnderWay,
           \/ ReadPty \/ AnswerAttach \/ Subscribe \/ OpenSocket \/ AttachReply \/ AttachFails
           \/ Forward \/ SocketClosed \/ \E p \in posts : ServeCheckpoint(p)
    PROVE  Known' /\ lastSequence' = lastSequence
<1> USE DEF Known
<1> DEFINE n == lastSequence
<1>1. CASE ReadPty
  <2>1. ServiceKnown' /\ lastSequence' = lastSequence
    BY <1>1, ReadKnown DEF ReadPty
  <2>2. MainKnown' /\ PaneKnown' /\ ScreenKnown'
    BY <1>1, <2>1, MainUntouched, PaneUntouched, ScreenUntouched DEF ReadPty, paneVars, reconciler
  <2> QED BY <2>1, <2>2
<1>2. ASSUME NEW p \in posts, ServeCheckpoint(p) PROVE Known' /\ lastSequence' = lastSequence
  <2>1. p \in Posts(n) /\ p.checkpoint \in Checkpoints(n)
    BY DEF PaneKnown, Posts
  <2>2. ServiceKnown' /\ lastSequence' = lastSequence
    <3>1. CASE Service!Acceptable(p.checkpoint)
      BY <1>2, <2>1, <3>1, AcceptKnown DEF ServeCheckpoint
    <3>2. CASE ~Service!Acceptable(p.checkpoint)
      BY <1>2, <3>2, ServiceUntouched DEF ServeCheckpoint
    <3> QED BY <3>1, <3>2
  <2>3. posts' \subseteq Posts(n)
    <3>1. posts \subseteq Posts(n)
      BY DEF PaneKnown
    <3>2. \A a \in {"accepted", "refused"} : [p EXCEPT !.answer = a] \in Posts(n)
      BY <2>1 DEF Posts
    <3> QED BY <1>2, <3>1, <3>2 DEF ServeCheckpoint
  <2>4. PaneKnown'
    BY <1>2, <2>2, <2>3 DEF ServeCheckpoint, PaneKnown, paneVars, mount, reconciler, restoration, scheduler
  <2>5. MainKnown' /\ ScreenKnown'
    BY <1>2, <2>2, MainUntouched, ScreenUntouched DEF ServeCheckpoint, paneVars, reconciler
  <2> QED BY <2>2, <2>4, <2>5
<1>3. ASSUME UNCHANGED <<journalVars, paneVars, posts>>, MainKnown' \/ lastSequence' # lastSequence
      PROVE  Known' /\ lastSequence' = lastSequence
  <2>1. ServiceKnown' /\ lastSequence' = lastSequence
    BY <1>3, ServiceUntouched
  <2> QED BY <1>3, <2>1, PaneUntouched, ScreenUntouched DEF paneVars, reconciler
<1>4. n \in Nat /\ MainKnown
  BY DEF ServiceKnown, JournalInv, Service!TypeOK
<1>5. CASE AnswerAttach
  <2>1. exchange' \in Exchanges(n)
    BY <1>5, SnapshotKnown DEF AnswerAttach, Exchanges
  <2> QED BY <1>3, <1>5, <2>1 DEF AnswerAttach, MainKnown
<1>6. ASSUME exchange.phase \in {"answered", "subscribing"}
      PROVE  /\ exchange.snapshot \in Snapshots(n)
             /\ [exchange EXCEPT !.phase = "subscribing"] \in Exchanges(n)
  BY <1>6 DEF MainKnown, Exchanges, NoExchange
<1>7. ASSUME exchange.phase # "idle"
      PROVE  transitions # <<>> /\ Head(transitions) \in Transitions(n)
  BY <1>7, TailFacts DEF PaneKnown, AttachUnderWay, Attaching
<1>8. CASE Subscribe
  <2>1. exchange' \in Exchanges(n) /\ exchange.phase # "idle"
    BY <1>6, <1>8 DEF Subscribe
  <2>2. Head(transitions).pane \in Nat
    BY <1>7, <2>1 DEF Transitions
  <2> QED BY <1>3, <1>8, <2>1, <2>2 DEF Subscribe, MainKnown
<1>9. CASE OpenSocket
  BY <1>3, <1>9 DEF OpenSocket, MainKnown, history
<1>10. ASSUME NEW ok \in BOOLEAN, transitions # <<>>,
              ok => exchange.phase = "subscribing", channel' = Append(channel, Reply(ok))
       PROVE  channel' \in Seq(Events(n))
  <2>1. Head(transitions) \in Transitions(n)
    BY <1>10, TailFacts DEF PaneKnown
  <2>2. Reply(ok) \in Events(n)
    <3>1. Head(transitions).pane \in Nat /\ Head(transitions).reset \in BOOLEAN
      BY <2>1 DEF Transitions
    <3>2. ok => exchange.snapshot \in Snapshots(n)
      BY <1>6, <1>10
    <3>3. Reply(ok) \in Replies(n)
      BY <3>1, <3>2 DEF Reply, Replies
    <3> QED BY <3>3 DEF Events
  <2> QED BY <1>10, <2>2, AppendFacts DEF MainKnown
<1>11. [phase |-> "replied"] \in Exchanges(n)
  BY DEF Exchanges
<1>12. CASE AttachReply
  <2>1. exchange.phase = "subscribing" /\ transitions # <<>> /\ channel' = Append(channel, Reply(TRUE))
    BY <1>7, <1>12 DEF AttachReply
  <2>2. channel' \in Seq(Events(n))
    BY <1>10, <2>1
  <2> QED BY <1>3, <1>11, <1>12, <2>2 DEF AttachReply, MainKnown, history
<1>13. CASE AttachFails
  <2>1. transitions # <<>> /\ channel' = Append(channel, Reply(FALSE))
    BY <1>7, <1>13 DEF AttachFails, Attaching
  <2>2. channel' \in Seq(Events(n))
    BY <1>10, <2>1
  <2>3. /\ failures' \in 0 .. MaxFailures /\ attachment' \in {"none", "opening", "open", "closing"}
        /\ exchange' = [phase |-> "replied"]
        /\ UNCHANGED <<journalVars, wire, paneVars, posts, history>>
    BY <1>13, ScreenAssumption DEF AttachFails, MainKnown
  <2> QED BY <1>3, <1>11, <2>2, <2>3 DEF MainKnown, history
<1>14. CASE Forward
  <2>1. Head(wire) \in Events(n) /\ Tail(wire) \in Seq(WireEvents(n))
    BY <1>14, TailFacts DEF Forward, MainKnown, Events
  <2>2. channel' \in Seq(Events(n))
    BY <1>14, <2>1, AppendFacts DEF Forward, MainKnown
  <2> QED BY <1>3, <1>14, <2>1, <2>2 DEF Forward, MainKnown, history
<1>15. CASE SocketClosed
  <2>1. channel' \in Seq(Events(n))
    BY <1>15, AppendFacts DEF SocketClosed, MainKnown, Events
  <2> QED BY <1>3, <1>15, <2>1 DEF SocketClosed, MainKnown, history
<1> QED BY <1>1, <1>2, <1>5, <1>8, <1>9, <1>12, <1>13, <1>14, <1>15

LEMMA RestoreKnown ==
    ASSUME Known, NEW others \in Seq(Transitions(lastSequence)), NEW reset \in BOOLEAN,
           Restore(reset, others)
    PROVE  transitions' \in Seq(Transitions(lastSequence)) /\ restoring' = "attaching"
<1>1. lastSequence \in Nat /\ pane \in Nat
  BY ScreenAssumption DEF Known, ServiceKnown, JournalInv, Service!TypeOK, PaneKnown
<1>2. Attach(pane, reset) \in Transitions(lastSequence)
  BY <1>1, NewTransitions
<1> QED BY <1>2, AppendFacts DEF Restore

LEMMA ResyncKnown ==
    ASSUME Known, RequestResync
    PROVE  /\ resyncRequested' = TRUE /\ restoreAgain' \in BOOLEAN
           /\ restoring' \in {"no", "attaching", "applying", "sizing"}
           /\ transitions' \in Seq(Transitions(lastSequence))
<1>1. /\ transitions \in Seq(Transitions(lastSequence)) /\ restoreAgain \in BOOLEAN
      /\ restoring \in {"no", "attaching", "applying", "sizing"}
  BY DEF Known, PaneKnown
<1>2. CASE resyncRequested
  BY <1>1, <1>2 DEF RequestResync
<1>3. CASE ~resyncRequested /\ restoring = "no"
  BY <1>1, <1>3, RestoreKnown DEF RequestResync
<1>4. CASE ~resyncRequested /\ restoring # "no"
  BY <1>1, <1>4 DEF RequestResync
<1> QED BY <1>2, <1>3, <1>4

\* What waits for the queue, waits for a number of operations.
LEMMA AwaitKnown ==
    ASSUME Known
    PROVE  /\ \A by \in {"scheduler", "transition"} :
                Await(by) \in Captures /\ Await(by).by = by /\ Await(by).behind = Len(operations)
           /\ Len(operations) \in Nat
  BY DEF Known, ScreenKnown, Await, Captures

LEMMA FlushKnown ==
    ASSUME Known, BeginFlush \/ ScheduleFlush
    PROVE  needsFlush' \in BOOLEAN /\ captures' \in SUBSET Captures
<1>1. captures \in SUBSET Captures /\ needsFlush \in BOOLEAN /\ Await("scheduler") \in Captures
  BY AwaitKnown DEF Known, PaneKnown
<1>2. CASE BeginFlush
  BY <1>1, <1>2 DEF BeginFlush
<1>3. CASE ScheduleFlush
  BY <1>1, <1>2, <1>3 DEF ScheduleFlush
<1> QED BY <1>2, <1>3

LEMMA EndsKnown ==
    ASSUME Known, operations # <<>>, \A c \in captures : c.behind > 0, OperationEnds
    PROVE  /\ operations' \in Seq(Operations(lastSequence)) /\ captures' \in SUBSET Captures
           /\ Len(operations) \in Nat \ {0} /\ Len(operations') = Len(operations) - 1
           /\ \A i \in 1 .. Len(operations') : operations'[i] = operations[i + 1] /\ ~operations'[i].started
           /\ operations' # <<>> => Head(operations') = operations'[1] /\ 1 \in 1 .. Len(operations')
<1>1. /\ operations' = Tail(operations) /\ captures' = {[c EXCEPT !.behind = @ - 1] : c \in captures}
      /\ operations \in Seq(Operations(lastSequence))
      /\ \A i \in 2 .. Len(operations) : ~operations[i].started
  BY DEF OperationEnds, Known, ScreenKnown
<1>2. /\ operations' \in Seq(Operations(lastSequence)) /\ Len(operations) \in Nat \ {0}
      /\ Len(operations') = Len(operations) - 1
      /\ \A i \in 1 .. Len(operations) - 1 : operations'[i] = operations[i + 1]
  BY <1>1, TailFacts
<1>3. ASSUME NEW i \in 1 .. Len(operations')
      PROVE  operations'[i] = operations[i + 1] /\ ~operations'[i].started
  <2>1. i \in 1 .. Len(operations) - 1 /\ i + 1 \in 2 .. Len(operations)
    BY <1>2
  <2> QED BY <1>1, <1>2, <2>1
<1>4. \A c \in captures : [c EXCEPT !.behind = @ - 1] \in Captures
  BY DEF Known, PaneKnown, Captures
<1> QED BY <1>1, <1>2, <1>3, <1>4

\* An event for the renderer.
LEMMA EventFacts ==
    ASSUME Known, channel # <<>>
    PROVE  /\ Tail(channel) \in Seq(Events(lastSequence)) /\ Head(channel) = channel[1]
           /\ Head(channel).event = "output" => Head(channel).sequence \in 1 .. lastSequence
           /\ Head(channel).event = "attached" =>
                /\ Head(channel) \in Replies(lastSequence)
                /\ Head(channel).ok \in BOOLEAN /\ Head(channel).reset \in BOOLEAN
                /\ Head(channel).ok => Head(channel).snapshot \in Snapshots(lastSequence)
<1>1. /\ Tail(channel) \in Seq(Events(lastSequence)) /\ Head(channel) \in Events(lastSequence)
      /\ Head(channel) = channel[1]
  BY TailFacts DEF Known, MainKnown
<1>2. CASE Head(channel) \in Replies(lastSequence)
  BY <1>1, <1>2 DEF Replies
<1>3. CASE Head(channel) \notin Replies(lastSequence)
  BY <1>1, <1>3 DEF Events, WireEvents, RequestEvent, ResyncEvent
<1> QED BY <1>1, <1>2, <1>3

LEMMA ReceiveKnown ==
    ASSUME Known, AttachUnderWay, Receive,
           Head(channel).event = "attached" => transitions # <<>>
    PROVE  Known' /\ lastSequence' = lastSequence
<1> DEFINE n == lastSequence
           e == Head(channel)
<1>1. /\ channel # <<>> /\ channel' = Tail(channel)
      /\ exchange' = IF e.event = "attached" THEN NoExchange ELSE exchange
      /\ UNCHANGED <<journalVars, attachment, wire, failures, mount, applied, resyncRequested,
                     orphan, posts, history>>
      /\ ReceiveOutput \/ ReceiveRequest \/ ReceiveResync \/ ReceiveSnapshot \/ ReceiveFailure
  BY DEF Receive
<1>2. ServiceKnown' /\ lastSequence' = lastSequence /\ n \in Nat
  BY <1>1, ServiceUntouched DEF Known
<1>3. /\ Tail(channel) \in Seq(Events(n))
      /\ e.event = "output" => e.sequence \in 1 .. n
      /\ e.event = "attached" => /\ e.reset \in BOOLEAN
                                 /\ e.ok => e.snapshot \in Snapshots(n)
  BY <1>1, EventFacts
<1>4. MainKnown'
  BY <1>1, <1>2, <1>3 DEF Known, MainKnown, Exchanges, history
<1>5. PaneKnown /\ ScreenKnown /\ transitions \in Seq(Transitions(n))
  BY DEF Known, PaneKnown
<1>6. /\ restoring' \in {"no", "attaching", "applying", "sizing"}
      /\ restoreAgain' \in BOOLEAN /\ paneError' \in BOOLEAN
      /\ needsFlush' \in BOOLEAN /\ timer' \in BOOLEAN /\ captures' \in SUBSET Captures
      /\ transitions' \in Seq(Transitions(n))
  <2>1. CASE ReceiveOutput
    BY <2>1, <1>5 DEF ReceiveOutput, PaneKnown
  <2>2. CASE ReceiveRequest
    <3>1. timer' \in BOOLEAN
      BY <2>2, <1>5 DEF ReceiveRequest, ScheduleFlush, scheduler, PaneKnown
    <3>2. needsFlush' \in BOOLEAN /\ captures' \in SUBSET Captures
      BY <2>2, <1>5, FlushKnown DEF ReceiveRequest, scheduler, PaneKnown
    <3> QED BY <2>2, <3>1, <3>2, <1>5 DEF ReceiveRequest, PaneKnown
  <2>3. CASE ReceiveResync
    BY <2>3, <1>5, RestoreKnown DEF ReceiveResync, PaneKnown, scheduler
  <2>4. CASE ReceiveSnapshot
    <3>1. transitions' = Tail(transitions) /\ transitions # <<>>
      BY <2>4, <1>1 DEF ReceiveSnapshot
    <3> QED BY <2>4, <3>1, <1>5, TailFacts DEF ReceiveSnapshot, PaneKnown, scheduler
  <2>5. CASE ReceiveFailure
    <3>1. transitions # <<>>
      BY <2>5 DEF ReceiveFailure
    <3>2. Tail(transitions) \in Seq(Transitions(n))
      BY <3>1, <1>5, TailFacts
    <3>3. /\ restoring' \in {"no", "attaching", "applying", "sizing"}
          /\ transitions' \in Seq(Transitions(n))
      BY <2>5, <3>2, <1>5, RestoreKnown DEF ReceiveFailure, PaneKnown
    <3> QED BY <2>5, <3>3, <1>5 DEF ReceiveFailure, PaneKnown, scheduler
  <2> QED BY <2>1, <2>2, <2>3, <2>4, <2>5, <1>1
<1>7. PaneKnown'
  BY <1>1, <1>2, <1>5, <1>6 DEF PaneKnown, mount
<1>8. ScreenKnown'
  <2>1. UNCHANGED <<lastSequence, applied>> /\ operations \in Seq(Operations(n))
    BY <1>1, <1>2, <1>5 DEF ScreenKnown
  <2>2. CASE ReceiveOutput /\ mounted
    <3>1. operations' = Enqueued(e.sequence) /\ screen' = screen /\ e.sequence \in 1 .. n
      BY <2>2, <1>3 DEF ReceiveOutput
    <3>2. /\ operations' \in Seq(Operations(n)) /\ operations' # <<>>
          /\ Len(operations) \in Nat /\ Len(operations') \in {Len(operations), Len(operations) + 1}
          /\ \A i \in 1 .. Len(operations) :
                /\ operations'[i].started = operations[i].started
                /\ operations[i].started => operations'[i] = operations[i]
          /\ Len(operations') = Len(operations) + 1 => operations'[Len(operations')] = Batch(<<e.sequence>>)
      <4>1. n \in Nat /\ operations \in Seq(Operations(n)) /\ e.sequence \in 1 .. n
            /\ operations' = Enqueued(e.sequence)
        BY <3>1, <2>1, <1>2
      <4> HIDE DEF n, e
      <4> QED BY <4>1, EnqueueFacts
    <3>3. ~ Batch(<<e.sequence>>).started
      BY DEF Batch
    <3>4. \A i \in 1 .. Len(operations') : operations'[i].started =>
            i \in 1 .. Len(operations) /\ operations[i].started /\ operations'[i] = operations[i]
      BY <3>2, <3>3
    <3>5. Head(operations') = operations'[1] /\ 1 \in 1 .. Len(operations')
      BY <3>2
    <3>6. Head(operations').started => operations # <<>> /\ Head(operations') = Head(operations)
      BY <3>4, <3>5
    <3>7. \A i \in 2 .. Len(operations') : ~operations'[i].started
      BY <3>2, <3>4, <1>5 DEF ScreenKnown
    <3> QED BY <3>1, <3>2, <3>6, <3>7, <2>1, <1>5 DEF ScreenKnown, AboveScreen
  <2>3. CASE ReceiveSnapshot /\ IsCurrent(e)
    <3>1. /\ operations' = Append(operations, Restoration(e.snapshot))
          /\ screen' = screen \/ screen' = {}
          /\ e.snapshot \in Snapshots(n)
      BY <2>3, <1>3 DEF ReceiveSnapshot
    <3>2. Restoration(e.snapshot) \in Operations(n) /\ ~Restoration(e.snapshot).started
      BY <3>1, <1>2, NewOperations DEF Restoration
    <3>3. /\ operations' \in Seq(Operations(n)) /\ Len(operations') = Len(operations) + 1
          /\ Len(operations) \in Nat
          /\ \A i \in 1 .. Len(operations) : operations'[i] = operations[i]
          /\ operations'[Len(operations) + 1] = Restoration(e.snapshot)
      BY <3>1, <3>2, <2>1, AppendFacts
    <3>4. \A i \in 2 .. Len(operations') : ~operations'[i].started
      BY <3>2, <3>3, <1>5 DEF ScreenKnown
    <3>5. Head(operations') = operations'[1]
      BY <3>3
    <3>6. Head(operations').started => operations # <<>> /\ Head(operations') = Head(operations)
      BY <3>2, <3>3, <3>5, <2>1
    <3> QED BY <3>1, <3>3, <3>4, <3>6, <2>1, <1>5 DEF ScreenKnown, AboveScreen
  <2>4. CASE UNCHANGED <<screen, operations>>
    BY <2>4, <2>1, <1>5, ScreenUntouched
  <2> QED
    BY <2>2, <2>3, <2>4, <1>1
       DEF ReceiveOutput, ReceiveRequest, ReceiveResync, ReceiveSnapshot, ReceiveFailure
<1> QED BY <1>2, <1>4, <1>7, <1>8 DEF Known

\* One write under way is replaced by what is left of it.
LEMMA StartKnown ==
    ASSUME Known, StartOperation
    PROVE  Known' /\ lastSequence' = lastSequence
<1> DEFINE n == lastSequence
           o == Head(operations)
<1>1. /\ operations # <<>> /\ ~o.started /\ \A c \in captures : c.behind > 0
      /\ UNCHANGED <<outside, mount, orphan, paneError, needsFlush, timer, posts>>
  BY DEF StartOperation
<1>2. ServiceKnown' /\ lastSequence' = lastSequence /\ n \in Nat /\ MainKnown'
  BY <1>1, ServiceUntouched, MainUntouched DEF Known, outside
<1>3. /\ PaneKnown /\ ScreenKnown /\ operations \in Seq(Operations(n))
      /\ applied \in 0 .. n /\ screen \subseteq 1 .. applied
      /\ \A i \in 2 .. Len(operations) : ~operations[i].started
  BY DEF Known, ScreenKnown
<1>4. o \in Operations(n) /\ o = operations[1] /\ Len(operations) \in Nat \ {0}
  BY <1>1, <1>3, TailFacts
<1>5. /\ o.chunks \in Seq(1 .. n) /\ o.chunks \in Seq(Nat)
      /\ o.kind = "restore" => o.snapshot \in Snapshots(n)
  BY <1>2, <1>4, OperationFacts
\* What a started head may be.
<1>6. ASSUME NEW ws \in Seq(Writes(n)), ws # <<>>, Ordered(ws),
             o.kind = "batch" => Len(ws) = 1,
             o.kind = "restore" => ws[Len(ws)].upTo = o.snapshot.lastSequence,
             NEW h, h = [o EXCEPT !.started = TRUE, !.writes = ws],
             operations' = [operations EXCEPT ![1] = h],
             screen' \subseteq 1 .. applied', applied' \in 0 .. n,
             \A i \in 1 .. Len(ws), t \in screen' : t <= ws[i].upTo /\ \A b \in ws[i].adds : t < b
      PROVE  ScreenKnown'
  <2>1. h \in Operations(n) /\ h.writes = ws
    BY <1>4, <1>6 DEF Operations
  <2>2. /\ operations' \in Seq(Operations(n)) /\ Len(operations') = Len(operations) /\ operations'[1] = h
        /\ \A i \in 2 .. Len(operations) : operations'[i] = operations[i]
    <3>1. operations' = [operations EXCEPT ![1] = h] /\ operations # <<>>
      BY <1>1, <1>6
    <3>2. operations \in Seq(Operations(n)) /\ h \in Operations(n)
      BY <1>3, <2>1
    <3> HIDE DEF n
    <3> QED BY <3>1, <3>2, HeadFacts
  <2>3. operations' # <<>> /\ Head(operations') = h
    BY <1>4, <2>2
  <2>4. AboveScreen(ws)'
    BY <1>6 DEF AboveScreen
  <2>5. \A i \in 2 .. Len(operations') : ~operations'[i].started
    BY <1>3, <2>2
  <2>6. screen' \subseteq 1 .. applied' /\ applied' \in 0 .. n /\ lastSequence' = n
    BY <1>2, <1>6
  <2> QED BY <2>1, <2>2, <2>3, <2>4, <2>5, <2>6 DEF ScreenKnown, AboveScreen
<1>7. ASSUME OperationEnds, screen' \subseteq 1 .. applied', applied' \in 0 .. n
      PROVE  ScreenKnown' /\ captures' \in SUBSET Captures
  <2>1. /\ operations' \in Seq(Operations(n)) /\ captures' \in SUBSET Captures
        /\ Len(operations') \in Nat
        /\ \A i \in 1 .. Len(operations') : ~operations'[i].started
        /\ operations' # <<>> => Head(operations') = operations'[1] /\ 1 \in 1 .. Len(operations')
    BY <1>1, <1>7, EndsKnown
  <2> QED BY <1>2, <1>7, <2>1 DEF ScreenKnown
<1>8. CASE StartBatch
  <2> DEFINE reached == Contiguous(applied, o.chunks)
  <2>1. /\ o.kind = "batch" /\ UNCHANGED <<screen, applied>>
        /\ IF reached.at = applied THEN OperationEnds
           ELSE /\ operations' = [operations EXCEPT
                     ![1].started = TRUE,
                     ![1].writes = <<Write(applied + 1 .. reached.at, reached.at)>>]
                /\ UNCHANGED captures
        /\ IF reached.gap THEN RequestResync
           ELSE UNCHANGED <<resyncRequested, restoring, transitions, restoreAgain>>
    BY <1>8 DEF StartBatch
  <2>2. /\ resyncRequested' \in BOOLEAN /\ restoreAgain' \in BOOLEAN
        /\ restoring' \in {"no", "attaching", "applying", "sizing"}
        /\ transitions' \in Seq(Transitions(n))
    <3>1. CASE reached.gap
      BY <2>1, <3>1, ResyncKnown
    <3>2. CASE ~reached.gap
      BY <2>1, <3>2, <1>3 DEF PaneKnown
    <3> QED BY <3>1, <3>2
  <2>3. reached.at \in Nat /\ applied <= reached.at /\ reached.at <= n
    <3>1. applied \in Nat /\ applied <= n /\ o.chunks \in Seq(Nat)
      BY <1>2, <1>3, <1>5
    <3>2. reached.at \in Nat /\ applied <= reached.at
      BY <3>1, ContiguousFacts, Zenon
    <3>3. \A i \in 1 .. Len(o.chunks) : o.chunks[i] <= n
      BY <1>2, <1>5
    <3>4. reached.at <= n
      BY <3>1, <3>3, <1>2, ContiguousFacts, Zenon
    <3> QED BY <3>2, <3>4
  <2>4. screen' \subseteq 1 .. applied' /\ applied' \in 0 .. n
    BY <1>3, <2>1
  <2> HIDE DEF reached
  <2>5. ScreenKnown' /\ captures' \in SUBSET Captures
    <3>1. CASE reached.at = applied
      BY <1>7, <2>1, <2>4, <3>1
    <3>2. CASE reached.at # applied
      <4> DEFINE w == Write(applied + 1 .. reached.at, reached.at)
      <4>1. w \in Writes(n) /\ w.adds = applied + 1 .. reached.at /\ w.upTo = reached.at
        BY <1>2, <1>3, <2>3 DEF Write, Writes
      <4>2. operations' = [operations EXCEPT ![1] = [o EXCEPT !.started = TRUE, !.writes = <<w>>]]
        BY <2>1, <3>2, <1>4
      <4> HIDE DEF w
      <4>3. <<w>> \in Seq(Writes(n)) /\ Len(<<w>>) = 1 /\ <<w>>[1] = w /\ <<w>> # <<>>
        BY <4>1, SingleFacts
      <4>4. Ordered(<<w>>)
        BY <4>3 DEF Ordered
      <4>5. \A i \in 1 .. Len(<<w>>), t \in screen' :
               t <= <<w>>[i].upTo /\ \A b \in <<w>>[i].adds : t < b
        <5>1. \A t \in screen' : t <= w.upTo /\ \A b \in w.adds : t < b
          BY <4>1, <2>1, <2>3, <1>2, <1>3
        <5> QED BY <5>1, <4>3
      <4>6. o.kind # "restore"
        BY <2>1
      <4> QED BY <1>6, <4>2, <4>3, <4>4, <4>5, <4>6, <2>4, <2>1, <3>2, <1>3 DEF PaneKnown
    <3> QED BY <3>1, <3>2
  <2>6. PaneKnown'
    BY <1>1, <1>2, <1>3, <2>2, <2>5 DEF PaneKnown, mount
  <2> QED BY <1>2, <2>5, <2>6 DEF Known
<1>9. CASE StartRestoration
  <2> DEFINE s  == o.snapshot
             ws == RestoreWrites(s)
  <2>1. /\ o.kind = "restore" /\ screen' = {} /\ UNCHANGED transitions
        /\ applied' = IF Checkpointed(s) THEN applied
                      ELSE IF s.complete THEN BaseOf(s) ELSE EndOf(s)
        /\ IF ws = <<>>
           THEN OperationEnds /\ RestorationEnds(Short(s))
           ELSE /\ operations' = [operations EXCEPT ![1].started = TRUE, ![1].writes = ws,
                                                    ![1].short = Short(s)]
                /\ resyncRequested' = FALSE
                /\ UNCHANGED <<captures, restoring, restoreAgain>>
    BY <1>9 DEF StartRestoration, ScreenReset
  <2>2. s \in Snapshots(n) /\ s.lastSequence \in 0 .. n
    BY <1>5, <2>1 DEF Snapshots
  <2>3. /\ Short(s) = FALSE /\ ws \in Seq(Writes(n)) /\ Ordered(ws)
        /\ ws # <<>> => ws[Len(ws)].upTo = s.lastSequence
        /\ (IF s.complete THEN BaseOf(s) ELSE EndOf(s)) \in 0 .. s.lastSequence
    <3>1. Short(s) \in BOOLEAN
      BY DEF Short
    <3> QED BY <3>1, <1>2, <2>2, ReplayFacts
  <2>4. screen' \subseteq 1 .. applied' /\ applied' \in 0 .. n
    BY <1>2, <1>3, <2>1, <2>2, <2>3
  <2> HIDE DEF ws
  <2>5. /\ ScreenKnown' /\ captures' \in SUBSET Captures
        /\ restoring' \in {"no", "attaching", "applying", "sizing"}
        /\ resyncRequested' \in BOOLEAN /\ restoreAgain' \in BOOLEAN
    <3>1. CASE ws = <<>>
      BY <1>3, <1>7, <2>1, <2>3, <2>4, <3>1 DEF RestorationEnds, PaneKnown
    <3>2. CASE ws # <<>>
      <4>1. o.short = FALSE
        BY <1>2, <1>4, OperationFacts
      <4>2. operations' = [operations EXCEPT ![1] = [o EXCEPT !.started = TRUE, !.writes = ws, !.short = FALSE]]
        BY <2>1, <2>3, <3>2, <1>4
      <4>3. [o EXCEPT !.started = TRUE, !.writes = ws, !.short = FALSE] = [o EXCEPT !.started = TRUE, !.writes = ws]
        BY <4>1, <1>4 DEF Operations
      <4>4. o.kind # "batch" /\ \A i \in 1 .. Len(ws), t \in screen' :
                   t <= ws[i].upTo /\ \A b \in ws[i].adds : t < b
        BY <2>1
      <4>5. ScreenKnown'
        BY <1>6, <2>3, <2>4, <3>2, <4>2, <4>3, <4>4
      <4> QED BY <4>5, <2>1, <3>2, <1>3 DEF PaneKnown
    <3> QED BY <3>1, <3>2
  <2>6. PaneKnown'
    BY <1>1, <1>2, <1>3, <2>1, <2>5 DEF PaneKnown, mount
  <2> QED BY <1>2, <2>5, <2>6 DEF Known
<1> QED BY <1>8, <1>9 DEF StartOperation

LEMMA ParseKnown ==
    ASSUME Known, Parse
    PROVE  Known' /\ lastSequence' = lastSequence
<1> DEFINE n == lastSequence
           o == Head(operations)
           ws == o.writes
           w == Head(ws)
<1>1. /\ operations # <<>> /\ o.started /\ \A c \in captures : c.behind > 0
      /\ screen' = screen \cup w.adds /\ applied' = w.upTo
      /\ IF Len(ws) > 1
         THEN /\ operations' = [operations EXCEPT ![1].writes = Tail(@)]
              /\ UNCHANGED <<captures, restoring, resyncRequested, restoreAgain>>
         ELSE /\ OperationEnds
              /\ IF o.kind = "restore" THEN RestorationEnds(o.short)
                 ELSE UNCHANGED <<restoring, resyncRequested, restoreAgain>>
      /\ UNCHANGED <<outside, mount, orphan, paneError, transitions, needsFlush, timer, posts>>
  BY DEF Parse, Settled
<1>2. ServiceKnown' /\ lastSequence' = lastSequence /\ n \in Nat /\ MainKnown'
  BY <1>1, ServiceUntouched, MainUntouched DEF Known, outside
<1>3. /\ PaneKnown /\ operations \in Seq(Operations(n))
      /\ applied \in 0 .. n /\ screen \subseteq 1 .. applied
      /\ \A i \in 2 .. Len(operations) : ~operations[i].started
      /\ AboveScreen(ws)
  BY <1>1 DEF Known, ScreenKnown
<1>4. o \in Operations(n) /\ o = operations[1] /\ Len(operations) \in Nat \ {0}
  BY <1>1, <1>3, TailFacts
<1>5. /\ ws \in Seq(Writes(n)) /\ ws # <<>> /\ Ordered(ws) /\ o.short = FALSE
      /\ o.kind = "batch" => Len(ws) = 1
      /\ o.kind = "restore" => ws[Len(ws)].upTo = o.snapshot.lastSequence
  BY <1>1, <1>2, <1>4, OperationFacts
<1>6. /\ w = ws[1] /\ w \in Writes(n) /\ Len(ws) \in Nat \ {0} /\ Tail(ws) \in Seq(Writes(n))
      /\ Len(Tail(ws)) = Len(ws) - 1
      /\ \A i \in 1 .. Len(ws) - 1 : Tail(ws)[i] = ws[i + 1]
  BY <1>5, TailFacts
<1> HIDE DEF o, ws, w
<1>7. w.upTo \in 0 .. n /\ w.adds \subseteq 1 .. w.upTo
  BY <1>6 DEF Writes
<1>8. \A t \in screen : t <= w.upTo
  <2>1. 1 \in 1 .. Len(ws)
    BY <1>6
  <2> QED BY <2>1, <1>3, <1>6 DEF AboveScreen
<1>9. screen' \subseteq 1 .. applied' /\ applied' \in 0 .. n
  BY <1>1, <1>2, <1>3, <1>7, <1>8
<1>10. CASE Len(ws) > 1
  <2> DEFINE rest == Tail(ws)
             h    == [o EXCEPT !.writes = rest]
  <2>1. rest # <<>> /\ Len(rest) \in Nat \ {0}
    BY <1>6, <1>10
  <2>2. \A i \in 1 .. Len(rest) : rest[i] = ws[i + 1] /\ i + 1 \in 1 .. Len(ws)
    BY <1>6, <1>10
  <2>3. Ordered(rest)
    <3> SUFFICES ASSUME NEW i \in 1 .. Len(rest), NEW j \in 1 .. Len(rest), i < j
                 PROVE  rest[i].upTo <= rest[j].upTo /\ \A b \in rest[j].adds : rest[i].upTo < b
      BY DEF Ordered
    <3>1. i + 1 < j + 1
      BY <2>1
    <3> QED BY <3>1, <2>2, <1>5 DEF Ordered
  <2>4. rest[Len(rest)] = ws[Len(ws)]
    BY <1>6, <1>10
  <2> HIDE DEF rest
  <2>5. h \in Operations(n) /\ h.writes = rest /\ h.started
    <3>1. rest \in Seq(Writes(n))
      BY <1>6 DEF rest
    <3>2. o.kind # "batch" /\ (o.kind = "restore" => rest[Len(rest)].upTo = o.snapshot.lastSequence)
      BY <1>5, <1>10, <2>4
    <3>3. o.started
      BY <1>1 DEF o
    <3> QED BY <3>1, <3>2, <3>3, <1>4, <2>1, <2>3 DEF Operations
  <2>6. operations' = [operations EXCEPT ![1] = h]
    BY <1>1, <1>4, <1>10 DEF o, ws, rest
  <2> HIDE DEF h
  <2>7. /\ operations' \in Seq(Operations(n)) /\ Head(operations') = h /\ Len(operations') = Len(operations)
        /\ \A i \in 2 .. Len(operations) : operations'[i] = operations[i]
    BY <1>1, <1>3, <2>5, <2>6, HeadFacts
  <2>8. \A i \in 1 .. Len(rest), t \in screen' : t <= rest[i].upTo /\ \A b \in rest[i].adds : t < b
    <3> SUFFICES ASSUME NEW i \in 1 .. Len(rest), NEW t \in screen'
                 PROVE  t <= rest[i].upTo /\ \A b \in rest[i].adds : t < b
      OBVIOUS
    <3>1. rest[i] = ws[i + 1] /\ i + 1 \in 1 .. Len(ws) /\ 1 < i + 1 /\ 1 \in 1 .. Len(ws)
      BY <1>6, <2>2
    <3>2. w.upTo <= rest[i].upTo /\ \A b \in rest[i].adds : w.upTo < b
      BY <3>1, <1>5, <1>6 DEF Ordered
    <3>3. t <= w.upTo /\ t \in Nat
      BY <1>1, <1>2, <1>3, <1>7, <1>8
    <3>4. rest[i] \in Writes(n)
      BY <3>1, <1>5
    <3>5. rest[i].upTo \in Nat /\ \A b \in rest[i].adds : b \in Nat
      BY <3>4, <1>2 DEF Writes
    <3> QED BY <3>2, <3>3, <3>5, <1>7, <1>2
  <2>9. ScreenKnown'
    <3>1. \A i \in 2 .. Len(operations') : ~operations'[i].started
      BY <2>7, <1>3
    <3>2. Head(operations').writes = rest
      BY <2>5, <2>7
    <3>3. AboveScreen(Head(operations).writes)'
      BY <3>2, <2>8 DEF AboveScreen
    <3> QED BY <3>1, <3>3, <2>7, <1>2, <1>9 DEF ScreenKnown
  <2>10. PaneKnown'
    BY <1>1, <1>2, <1>3, <1>10 DEF PaneKnown, mount, ws
  <2> QED BY <1>2, <2>9, <2>10 DEF Known
<1>11. CASE ~ (Len(ws) > 1)
  <2>1. OperationEnds
    BY <1>1, <1>11 DEF ws
  <2>2. /\ operations' \in Seq(Operations(n)) /\ captures' \in SUBSET Captures
        /\ Len(operations') \in Nat
        /\ \A i \in 1 .. Len(operations') : ~operations'[i].started
        /\ operations' # <<>> => Head(operations') = operations'[1] /\ 1 \in 1 .. Len(operations')
    BY <1>1, <2>1, EndsKnown
  <2>3. ScreenKnown'
    BY <1>2, <1>9, <2>2 DEF ScreenKnown
  <2>4. /\ restoring' \in {"no", "attaching", "applying", "sizing"}
        /\ resyncRequested' \in BOOLEAN /\ restoreAgain' \in BOOLEAN
    BY <1>1, <1>3, <1>5, <1>11 DEF RestorationEnds, PaneKnown, o, ws
  <2>5. PaneKnown'
    BY <1>1, <1>2, <1>3, <2>2, <2>4 DEF PaneKnown, mount
  <2> QED BY <1>2, <2>3, <2>5 DEF Known
<1> QED BY <1>10, <1>11

\* The checkpoint of a screen is of the output so far.
LEMMA ShownKnown == Known => Shown \in Checkpoints(lastSequence) /\ lastSequence \in Nat
<1> SUFFICES ASSUME Known PROVE Shown \in Checkpoints(lastSequence) /\ lastSequence \in Nat
  OBVIOUS
<1>1. lastSequence \in 0 .. MaxSequence
  BY BoundedOutput DEF Known, ServiceKnown
<1>2. applied \in 0 .. lastSequence /\ screen \subseteq 1 .. applied
  BY DEF Known, ScreenKnown
<1>3. MaxSequence \in Nat
  BY JournalAssumption
<1>4. screen \in Projection
  BY <1>1, <1>2, <1>3 DEF Projection, Piece
<1>5. applied \in Nat /\ applied <= lastSequence /\ lastSequence \in Nat
  BY <1>1, <1>2
<1>6. Shown \in Service!Checkpoint
  BY <1>4, <1>5 DEF Shown, Service!Checkpoint
<1> QED BY <1>2, <1>5, <1>6 DEF Shown, Checkpoints

LEMMA PaneStepsKnown ==
    ASSUME Known,
           \A p \in posts : p.by = "transition" => transitions # <<>>,
           \A c \in captures : c.by = "transition" => transitions # <<>>,
           \/ Capture \/ TimerFires \/ FinishRestore \/ BeginCheckpoint \/ Unmount \/ Remount
           \/ OrphanAttach \/ SendLastCheckpoint \/ Detach
           \/ \E p \in posts : CheckpointAnswered(p)
    PROVE  Known' /\ lastSequence' = lastSequence
<1> DEFINE n == lastSequence
<1>1. /\ ServiceKnown /\ MainKnown /\ PaneKnown /\ ScreenKnown
      /\ transitions \in Seq(Transitions(n)) /\ posts \in SUBSET Posts(n) /\ captures \in SUBSET Captures
  BY DEF Known, PaneKnown
<1>2. n \in Nat /\ Shown \in Checkpoints(n)
  BY ShownKnown
<1>3. pane \in Nat /\ pane \in 1 .. MaxMounts
  BY ScreenAssumption DEF Known, PaneKnown
<1>4. /\ Recheckpoint \in Transitions(n)
      /\ \A p \in Nat, reset \in BOOLEAN : Attach(p, reset) \in Transitions(n)
      /\ \A c \in Checkpoints(n) : Leave(c) \in Transitions(n)
  BY <1>2, <1>3, NewTransitions
<1>5. ASSUME UNCHANGED <<outside, reconciler>>, PaneKnown' \/ lastSequence' # lastSequence
      PROVE  Known' /\ lastSequence' = lastSequence
  BY <1>1, <1>5, ServiceUntouched, MainUntouched, ScreenUntouched DEF Known, outside, reconciler
<1>6. CASE Capture
  <2>1. PICK c \in captures : /\ captures' = captures \ {c}
                              /\ posts' = posts \cup {Post(c.by, pane, Shown)}
    BY <1>6 DEF Capture
  <2>2. Post(c.by, pane, Shown) \in Posts(n)
    BY <1>1, <1>2, <1>3 DEF Post, Posts, Captures
  <2> QED BY <1>1, <1>5, <1>6, <2>1, <2>2 DEF Capture, PaneKnown, mount, reconciler, restoration
<1>7. CASE TimerFires
  <2>1. needsFlush' \in BOOLEAN /\ captures' \in SUBSET Captures /\ timer' = FALSE
    BY <1>7, FlushKnown DEF TimerFires, ScheduleFlush
  <2> QED BY <1>1, <1>5, <1>7, <2>1 DEF TimerFires, PaneKnown, mount, reconciler, restoration
<1>8. CASE FinishRestore
  <2>1. Append(transitions, Recheckpoint) \in Seq(Transitions(n))
    BY <1>1, <1>4, AppendFacts
  <2>2. restoring' \in {"no", "attaching"} /\ transitions' \in Seq(Transitions(n))
    BY <1>8, <2>1, RestoreKnown DEF FinishRestore
  <2> QED BY <1>1, <1>5, <1>8, <2>2 DEF FinishRestore, PaneKnown, mount, reconciler, scheduler
<1>9. CASE BeginCheckpoint
  <2>1. transitions # <<>> /\ Begun \in Seq(Transitions(n)) /\ Tail(transitions) \in Seq(Transitions(n))
    BY <1>1, <1>2, <1>9, BegunFacts, TailFacts DEF BeginCheckpoint
  <2>2. transitions' \in Seq(Transitions(n)) /\ captures' \in SUBSET Captures
    BY <1>1, <1>9, <2>1, AwaitKnown DEF BeginCheckpoint
  <2> QED BY <1>1, <1>5, <1>9, <2>2 DEF BeginCheckpoint, PaneKnown, mount, reconciler, restoration
<1>10. CASE Unmount
  <2> DEFINE others == IF \E c \in captures : c.by = "transition" THEN Tail(transitions) ELSE transitions
  <2>1. others \in Seq(Transitions(n))
    BY <1>1, TailFacts
  <2>2. transitions' = Append(others, Leave(Shown))
    BY <1>10 DEF Unmount
  <2>3. transitions' \in Seq(Transitions(n))
    BY <1>2, <1>4, <2>1, <2>2, AppendFacts
  <2>4. PaneKnown'
    BY <1>1, <1>10, <2>3 DEF Unmount, PaneKnown, outside, journalVars
  <2>5. ServiceKnown' /\ MainKnown' /\ lastSequence' = n
    BY <1>1, <1>10, ServiceUntouched, MainUntouched DEF Unmount, outside
  <2>6. ScreenKnown'
    <3>1. operations' = <<>> /\ screen' = {} /\ applied' = 0
      BY <1>10 DEF Unmount
    <3>2. <<>> \in Seq(Operations(n)) /\ Len(<<>>) = 0
      OBVIOUS
    <3> QED BY <1>2, <2>5, <3>1, <3>2 DEF ScreenKnown
  <2> QED BY <2>4, <2>5, <2>6 DEF Known
<1>11. CASE Remount
  <2>1. Attach(pane + 1, FALSE) \in Transitions(n)
    <3>1. pane + 1 \in Nat /\ FALSE \in BOOLEAN
      BY <1>3
    <3> QED BY <3>1, <1>4, Zenon
  <2>2. transitions' \in Seq(Transitions(n))
    BY <1>1, <1>11, <2>1, AppendFacts DEF Remount, Serialized
  <2>3. pane' \in 1 .. MaxMounts
    BY <1>1, <1>11, ScreenAssumption DEF Remount, PaneKnown
  <2>4. /\ mounted' = TRUE /\ restoring' = "attaching"
        /\ UNCHANGED <<outside, reconciler, restoreAgain, orphan, paneError, scheduler, posts>>
    BY <1>11 DEF Remount
  <2>5. PaneKnown'
    <3>1. lastSequence' = n /\ UNCHANGED <<resyncRequested, needsFlush, timer, captures>>
      BY <2>4 DEF outside, journalVars, reconciler, scheduler
    <3>2. mounted' \in BOOLEAN /\ (~mounted' => pane' < MaxMounts)
      BY <2>4
    <3> QED BY <1>1, <2>2, <2>3, <2>4, <3>1, <3>2 DEF PaneKnown
  <2> QED BY <1>5, <2>4, <2>5
<1>12. CASE OrphanAttach
  <2>1. Attach(Gone, TRUE) \in Transitions(n)
    BY <1>4 DEF Gone
  <2>2. transitions' \in Seq(Transitions(n))
    BY <1>1, <1>12, <2>1, AppendFacts DEF OrphanAttach, Serialized
  <2> QED BY <1>1, <1>5, <1>12, <2>2 DEF OrphanAttach, PaneKnown, mount, reconciler, scheduler
<1>13. CASE SendLastCheckpoint
  <2>1. transitions # <<>> /\ Begun \in Seq(Transitions(n))
    BY <1>1, <1>2, <1>13, BegunFacts DEF SendLastCheckpoint, Leaving
  <2>2. Head(transitions) \in Transitions(n) /\ Head(transitions).kind = "leave"
    BY <1>1, <1>13, <2>1, TailFacts DEF SendLastCheckpoint, Leaving
  <2>3. Post("leave", Head(transitions).pane, Head(transitions).projection) \in Posts(n)
    BY <2>2 DEF Transitions, Post, Posts
  <2> QED BY <1>1, <1>5, <1>13, <2>1, <2>3
             DEF SendLastCheckpoint, PaneKnown, mount, reconciler, restoration, scheduler
<1>14. CASE Detach
  <2>1. transitions' \in Seq(Transitions(n))
    BY <1>1, <1>14, TailFacts DEF Detach, Leaving
  <2>2. ServiceKnown' /\ lastSequence' = n
    BY <1>1, <1>14, ServiceUntouched DEF Detach
  <2>3. <<>> \in Seq(WireEvents(n))
    OBVIOUS
  <2>4. MainKnown'
    BY <1>1, <1>14, <2>2, <2>3 DEF Detach, MainKnown, history
  <2>5. PaneKnown' /\ ScreenKnown'
    BY <1>1, <1>14, <2>1, <2>2, ScreenUntouched
       DEF Detach, PaneKnown, mount, reconciler, restoration, scheduler
  <2> QED BY <2>2, <2>4, <2>5 DEF Known
<1>15. ASSUME NEW p \in posts, CheckpointAnswered(p) PROVE Known' /\ lastSequence' = lastSequence
  <2>1. transitions' \in Seq(Transitions(n))
    BY <1>1, <1>15, TailFacts DEF CheckpointAnswered
  <2>2. needsFlush' \in BOOLEAN /\ captures' \in SUBSET Captures
    <3>1. CASE BeginFlush
      BY <3>1, FlushKnown
    <3>2. CASE captures' = captures /\ needsFlush' \in {needsFlush, TRUE}
      BY <1>1, <3>2 DEF PaneKnown
    <3> QED BY <1>15, <3>1, <3>2 DEF CheckpointAnswered
  <2> QED BY <1>1, <1>5, <1>15, <2>1, <2>2
             DEF CheckpointAnswered, PaneKnown, mount, reconciler, restoration
<1> QED BY <1>6, <1>7, <1>8, <1>9, <1>10, <1>11, <1>12, <1>13, <1>14, <1>15

-----------------------------------------------------------------------------
(* Whose turn it is: one attachment and one checkpoint at a time, each of    *)
(* the transition at the head of the chain.                                  *)

\* The answer on its way is that to the attachment at the head of the chain,
\* and there is one.
AnswerInv ==
    /\ \A i \in 1 .. Len(channel) : channel[i].event = "attached" =>
            exchange.phase = "replied" /\ channel[i].pane = Head(transitions).pane
    /\ \A i, j \in 1 .. Len(channel) :
            channel[i].event = "attached" /\ channel[j].event = "attached" => i = j

\* A socket is opening for the attachment that waits for it.
SocketInv ==
    /\ attachment \in {"none", "opening"} => wire = <<>>
    /\ attachment = "opening" => exchange.phase = "subscribing"
    /\ exchange.phase = "subscribing" => subscriber = Head(transitions).pane

\* Only the head of the chain has begun, and no transition is of a later pane.
ChainOK(ts, p) ==
    /\ \A i \in 2 .. Len(ts) : ~ts[i].begun
    /\ \A i \in 1 .. Len(ts) : ts[i].pane <= p

CheckpointBegun(p) ==
    /\ transitions # <<>> /\ Head(transitions).kind = "checkpoint"
    /\ Head(transitions).begun /\ Head(transitions).pane = p

\* The checkpoint of a transition that has begun is being captured or posted.
TurnInv ==
    /\ ChainOK(transitions, pane)
    /\ ~mounted => captures = {}
    /\ \A c \in captures : c.by = "transition" =>
            /\ CheckpointBegun(pane)
            /\ \A d \in captures : d.by = "transition" => c = d
            /\ \A p \in posts : p.by # "transition"
    /\ \A p \in posts : p.by = "transition" =>
            /\ CheckpointBegun(p.pane)
            /\ \A q \in posts : q.by = "transition" => p = q

FlowInv == AttachUnderWay /\ AnswerInv /\ SocketInv /\ TurnInv

LEMMA KnownParts ==
    ASSUME Known
    PROVE  /\ lastSequence \in Nat /\ pane \in Nat /\ pane >= 1
           /\ transitions \in Seq(Transitions(lastSequence)) /\ Len(transitions) \in Nat
           /\ channel \in Seq(Events(lastSequence)) /\ Len(channel) \in Nat
           /\ operations \in Seq(Operations(lastSequence)) /\ Len(operations) \in Nat
           /\ captures \subseteq Captures /\ posts \subseteq Posts(lastSequence)
           /\ exchange \in Exchanges(lastSequence)
           /\ applied \in 0 .. lastSequence
<1>1. lastSequence \in Nat /\ pane \in Nat /\ pane >= 1
  BY ScreenAssumption DEF Known, ServiceKnown, JournalInv, Service!TypeOK, PaneKnown
<1>2. transitions \in Seq(Transitions(lastSequence)) /\ channel \in Seq(Events(lastSequence))
      /\ operations \in Seq(Operations(lastSequence))
  BY DEF Known, PaneKnown, MainKnown, ScreenKnown
<1>3. Len(transitions) \in Nat /\ Len(channel) \in Nat /\ Len(operations) \in Nat
  BY <1>2
<1>4. captures \subseteq Captures /\ posts \subseteq Posts(lastSequence)
      /\ exchange \in Exchanges(lastSequence) /\ applied \in 0 .. lastSequence
  BY DEF Known, PaneKnown, MainKnown, ScreenKnown
<1> QED BY <1>1, <1>2, <1>3, <1>4

\* The same of the pane's queue, when it is what becomes of it.
LEMMA EnqueuedKnown ==
    ASSUME Known, NEW s \in 1 .. lastSequence, operations' = Enqueued(s)
    PROVE  /\ operations' \in Seq(Operations(lastSequence)) /\ operations' # <<>>
           /\ Len(operations) \in Nat /\ Len(operations') \in {Len(operations), Len(operations) + 1}
           /\ s \in Pieces(operations'[Len(operations')]) /\ operations'[Len(operations')].kind = "batch"
           /\ \A i \in 1 .. Len(operations) :
                /\ operations'[i].kind = operations[i].kind /\ operations'[i].started = operations[i].started
                /\ operations'[i].snapshot = operations[i].snapshot
                /\ operations[i].started => operations'[i] = operations[i]
           /\ \A i \in 1 .. Len(operations) :
                /\ Pieces(operations[i]) \subseteq Pieces(operations'[i])
                /\ Pieces(operations'[i]) \subseteq Pieces(operations[i]) \cup {s}
           /\ Len(operations') = Len(operations) + 1 => operations'[Len(operations')] = Batch(<<s>>)
<1>1. lastSequence \in Nat /\ operations \in Seq(Operations(lastSequence))
  BY KnownParts
<1> DEFINE E == Enqueued(s)
<1>2. /\ E \in Seq(Operations(lastSequence)) /\ E # <<>>
      /\ Len(operations) \in Nat /\ Len(E) \in {Len(operations), Len(operations) + 1}
      /\ s \in Pieces(E[Len(E)]) /\ E[Len(E)].kind = "batch"
      /\ \A i \in 1 .. Len(operations) :
            /\ E[i].kind = operations[i].kind /\ E[i].started = operations[i].started
            /\ E[i].snapshot = operations[i].snapshot
            /\ operations[i].started => E[i] = operations[i]
      /\ \A i \in 1 .. Len(operations) :
            /\ Pieces(operations[i]) \subseteq Pieces(E[i])
            /\ Pieces(E[i]) \subseteq Pieces(operations[i]) \cup {s}
      /\ Len(E) = Len(operations) + 1 => E[Len(E)] = Batch(<<s>>)
  BY <1>1, EnqueueFacts, Zenon
<1> HIDE DEF E
<1>3. operations' = E
  BY DEF E
<1> QED BY <1>2, <1>3, Zenon

\* A transition is chained behind the others.
LEMMA ChainAppended ==
    ASSUME NEW n \in Nat, NEW p \in Nat, NEW ts \in Seq(Transitions(n)), ChainOK(ts, p),
           NEW t \in Transitions(n), ~t.begun, t.pane <= p
    PROVE  /\ ChainOK(Append(ts, t), p) /\ Append(ts, t) \in Seq(Transitions(n))
           /\ Append(ts, t) # <<>>
           /\ ts # <<>> => Head(Append(ts, t)) = Head(ts)
<1>1. /\ Append(ts, t) \in Seq(Transitions(n)) /\ Append(ts, t) # <<>>
      /\ Len(ts) \in Nat /\ Len(Append(ts, t)) = Len(ts) + 1
      /\ \A i \in 1 .. Len(ts) : Append(ts, t)[i] = ts[i]
      /\ Append(ts, t)[Len(ts) + 1] = t
  BY AppendFacts
<1>2. ts # <<>> => Head(Append(ts, t)) = Head(ts)
  BY <1>1
<1>3. ChainOK(Append(ts, t), p)
  BY <1>1 DEF ChainOK
<1> QED BY <1>1, <1>2, <1>3

\* The head of the chain leaves.
LEMMA ChainShortened ==
    ASSUME NEW n \in Nat, NEW p \in Nat, NEW ts \in Seq(Transitions(n)), ChainOK(ts, p), ts # <<>>
    PROVE  ChainOK(Tail(ts), p) /\ Tail(ts) \in Seq(Transitions(n))
<1>1. /\ Tail(ts) \in Seq(Transitions(n)) /\ Len(ts) \in Nat \ {0} /\ Len(Tail(ts)) = Len(ts) - 1
      /\ \A i \in 1 .. Len(ts) - 1 : Tail(ts)[i] = ts[i + 1]
  BY TailFacts
<1> QED BY <1>1 DEF ChainOK

\* No capture or post of a transition is under way unless a checkpoint is.
LEMMA NoCheckpointUnderWay ==
    ASSUME TurnInv, transitions = <<>> \/ Head(transitions).kind # "checkpoint" \/ ~Head(transitions).begun
    PROVE  /\ \A c \in captures : c.by # "transition"
           /\ \A p \in posts : p.by # "transition"
  BY DEF TurnInv, CheckpointBegun

\* Steps that leave the chain and the checkpoints alone.
LEMMA TurnUntouched ==
    ASSUME TurnInv, UNCHANGED <<mount, transitions, captures, posts>>
    PROVE  TurnInv'
  BY DEF TurnInv, CheckpointBegun, mount

\* An event other than an answer comes behind those in the channel.
LEMMA AnswerBehind ==
    ASSUME Known, AnswerInv, NEW e \in Events(lastSequence), e.event # "attached",
           channel' = Append(channel, e), UNCHANGED <<exchange, transitions>>
    PROVE  AnswerInv'
<1>1. /\ Len(channel) \in Nat /\ Len(channel') = Len(channel) + 1
      /\ \A i \in 1 .. Len(channel) : channel'[i] = channel[i]
      /\ channel'[Len(channel) + 1] = e
  BY KnownParts, AppendFacts
<1>2. \A i \in 1 .. Len(channel') : channel'[i].event = "attached" =>
        i \in 1 .. Len(channel) /\ channel'[i] = channel[i]
  BY <1>1
<1> QED BY <1>2 DEF AnswerInv

LEMMA InitFlow == Init => FlowInv
<1> SUFFICES ASSUME Init PROVE FlowInv
  OBVIOUS
<1>1. transitions = <<Attach(1, FALSE)>> /\ pane = 1 /\ captures = {} /\ posts = {} /\ channel = <<>>
      /\ exchange = NoExchange /\ attachment = "none" /\ wire = <<>> /\ mounted
  BY DEF Init
<1>2. Len(transitions) = 1 /\ transitions[1] = Attach(1, FALSE)
  BY <1>1
<1>3. ~ Attach(1, FALSE).begun /\ Attach(1, FALSE).pane = 1
  BY DEF Attach, Transition
<1>4. ChainOK(transitions, pane)
  <2>1. (\A i \in 1 .. Len(transitions) : i = 1) /\ \A i \in 2 .. Len(transitions) : FALSE
    BY <1>2
  <2>2. transitions[1].pane <= pane
    <3>1. transitions[1].pane = 1
      BY <1>2, <1>3
    <3>2. transitions[1].pane = pane
      BY <3>1, <1>1
    <3> QED BY <3>1, <3>2
  <2> QED BY <2>1, <2>2, Zenon DEF ChainOK
<1>5. AttachUnderWay /\ SocketInv
  BY <1>1 DEF AttachUnderWay, SocketInv, NoExchange
<1>6. AnswerInv
  <2>1. Len(channel) = 0
    BY <1>1
  <2> QED BY <2>1 DEF AnswerInv
<1> QED BY <1>1, <1>4, <1>5, <1>6 DEF FlowInv, TurnInv

LEMMA MainStepsFlow ==
    ASSUME Known, FlowInv,
           \/ ReadPty \/ Output \/ AnswerAttach \/ Subscribe \/ OpenSocket \/ AttachReply \/ AttachFails
           \/ Forward \/ SocketClosed \/ \E p \in posts : ServeCheckpoint(p)
    PROVE  FlowInv'
<1> USE DEF FlowInv
<1> DEFINE n == lastSequence
<1>1. /\ n \in Nat /\ Len(channel) \in Nat /\ channel \in Seq(Events(n)) /\ posts \subseteq Posts(n)
      /\ transitions \in Seq(Transitions(n))
  BY KnownParts
<1>2. ASSUME UNCHANGED <<attachment, wire, exchange, channel, subscriber, transitions>>
      PROVE  AttachUnderWay' /\ AnswerInv' /\ SocketInv'
  BY <1>2 DEF AttachUnderWay, Attaching, AnswerInv, SocketInv
<1>3. ASSUME UNCHANGED <<paneVars, posts>> PROVE TurnInv'
  BY <1>3, TurnUntouched DEF paneVars, scheduler
<1>4. CASE ReadPty
  BY <1>2, <1>3, <1>4 DEF ReadPty, mainVars, history, paneVars
<1>5. CASE Output
  <2>1. UNCHANGED <<exchange, channel, subscriber, transitions>> /\ UNCHANGED <<paneVars, posts>>
    BY <1>5 DEF Output, paneVars
  <2>2. \/ UNCHANGED <<attachment, wire>>
        \/ attachment = "open" /\ attachment' \in {"open", "closing"}
    <3>1. PICK events : Emit(events)
      BY <1>5 DEF Output
    <3> QED BY <3>1 DEF Emit
  <2> QED BY <1>3, <2>1, <2>2 DEF AttachUnderWay, Attaching, AnswerInv, SocketInv
<1>6. CASE AnswerAttach
  <2>1. /\ Attaching /\ exchange = NoExchange /\ exchange'.phase = "answered"
        /\ UNCHANGED <<attachment, wire, channel, subscriber>> /\ UNCHANGED <<paneVars, posts>>
    BY <1>6 DEF AnswerAttach
  <2>2. transitions' = transitions
    BY <2>1 DEF paneVars
  <2> QED BY <1>3, <2>1, <2>2 DEF AttachUnderWay, Attaching, AnswerInv, SocketInv, NoExchange
<1>7. CASE Subscribe
  <2>1. exchange \in Exchanges(n)
    BY KnownParts
  <2>2. exchange.phase = "answered" /\ exchange'.phase = "subscribing"
    BY <1>7, <2>1 DEF Subscribe, Exchanges, NoExchange
  <2>3. /\ attachment' = "opening" /\ wire' = <<>> /\ subscriber' = Head(transitions).pane
        /\ UNCHANGED <<channel, transitions>> /\ UNCHANGED <<paneVars, posts>>
    BY <1>7 DEF Subscribe, paneVars
  <2> QED BY <1>3, <2>2, <2>3 DEF AttachUnderWay, Attaching, AnswerInv, SocketInv
<1>8. CASE OpenSocket
  <2>1. /\ attachment = "opening" /\ attachment' = "open" /\ UNCHANGED <<paneVars, posts>>
        /\ UNCHANGED <<wire, exchange, channel, subscriber, transitions>>
    BY <1>8 DEF OpenSocket, paneVars, history
  <2> QED BY <1>3, <2>1 DEF AttachUnderWay, Attaching, AnswerInv, SocketInv
<1>9. ASSUME NEW ok \in BOOLEAN, channel' = Append(channel, Reply(ok)), exchange.phase # "replied",
             Attaching, exchange' = [phase |-> "replied"], UNCHANGED transitions
      PROVE  AttachUnderWay' /\ AnswerInv'
  <2>1. /\ Len(channel') = Len(channel) + 1 /\ \A i \in 1 .. Len(channel) : channel'[i] = channel[i]
        /\ channel'[Len(channel) + 1] = Reply(ok)
    BY <1>1, <1>9
  <2>2. \A i \in 1 .. Len(channel) : channel[i].event # "attached"
    BY <1>9 DEF AnswerInv
  <2>3. \A i \in 1 .. Len(channel') : channel'[i].event = "attached" => i = Len(channel) + 1
    BY <1>1, <2>1, <2>2
  <2>4. Reply(ok).pane = Head(transitions).pane
    BY DEF Reply
  <2>5. AnswerInv'
    BY <1>9, <2>1, <2>3, <2>4 DEF AnswerInv
  <2> QED BY <1>9, <2>5 DEF AttachUnderWay, Attaching
<1>10. CASE AttachReply
  <2>1. /\ exchange.phase = "subscribing" /\ attachment # "opening" /\ channel' = Append(channel, Reply(TRUE))
        /\ exchange' = [phase |-> "replied"]
        /\ UNCHANGED <<attachment, wire, subscriber, transitions>> /\ UNCHANGED <<paneVars, posts>>
    BY <1>10 DEF AttachReply, paneVars, history
  <2>2. Attaching
    BY <2>1 DEF AttachUnderWay
  <2>3. AttachUnderWay' /\ AnswerInv'
    BY <1>9, <2>1, <2>2
  <2> QED BY <1>3, <2>1, <2>3 DEF SocketInv
<1>11. CASE AttachFails
  <2>1. /\ \/ Attaching /\ exchange = NoExchange /\ UNCHANGED attachment
           \/ exchange.phase = "subscribing" /\ attachment = "opening" /\ attachment' = "none"
        /\ channel' = Append(channel, Reply(FALSE)) /\ exchange' = [phase |-> "replied"]
        /\ UNCHANGED <<wire, subscriber, transitions>> /\ UNCHANGED <<paneVars, posts>>
    BY <1>11 DEF AttachFails, paneVars, history
  <2>2. Attaching /\ exchange.phase # "replied"
    BY <2>1 DEF AttachUnderWay, NoExchange
  <2>3. AttachUnderWay' /\ AnswerInv'
    BY <1>9, <2>1, <2>2
  <2>4. SocketInv'
    BY <2>1 DEF SocketInv, NoExchange
  <2> QED BY <1>3, <2>1, <2>3, <2>4
<1>12. CASE Forward
  <2>1. wire \in Seq(WireEvents(n)) /\ wire # <<>>
    BY <1>12 DEF Forward, Known, MainKnown
  <2>2. Head(wire) \in WireEvents(n)
    BY <2>1, TailFacts
  <2>3. Head(wire) \in Events(n) /\ Head(wire).event # "attached"
    BY <2>2 DEF WireEvents, Events, RequestEvent
  <2>4. /\ channel' = Append(channel, Head(wire))
        /\ UNCHANGED <<attachment, exchange, subscriber, transitions>> /\ UNCHANGED <<paneVars, posts>>
    BY <1>12 DEF Forward, paneVars, history
  <2>5. AnswerInv'
    BY <2>3, <2>4, AnswerBehind
  <2> QED BY <1>3, <2>1, <2>4, <2>5 DEF AttachUnderWay, Attaching, SocketInv
<1>13. CASE SocketClosed
  <2>1. ResyncEvent \in Events(n) /\ ResyncEvent.event # "attached"
    BY DEF Events, ResyncEvent
  <2>2. /\ channel' = Append(channel, ResyncEvent) /\ attachment' = "none" /\ wire = <<>>
        /\ UNCHANGED <<wire, exchange, subscriber, transitions>> /\ UNCHANGED <<paneVars, posts>>
    BY <1>13 DEF SocketClosed, paneVars, history
  <2>3. AnswerInv'
    BY <2>1, <2>2, AnswerBehind
  <2> QED BY <1>3, <2>2, <2>3 DEF AttachUnderWay, Attaching, SocketInv
<1>14. ASSUME NEW p \in posts, ServeCheckpoint(p) PROVE FlowInv'
  <2>1. UNCHANGED <<mainVars, channel, paneVars, history>>
    BY <1>14 DEF ServeCheckpoint
  <2>2. AttachUnderWay' /\ AnswerInv' /\ SocketInv'
    BY <1>2, <2>1 DEF mainVars, history, paneVars
  <2>3. PICK q : q.by = p.by /\ q.pane = p.pane /\ posts' = (posts \ {p}) \cup {q}
    <3>1. p \in Posts(n)
      BY <1>1
    <3>2. \A a : [p EXCEPT !.answer = a].by = p.by /\ [p EXCEPT !.answer = a].pane = p.pane
      BY <3>1 DEF Posts
    <3> QED BY <1>14, <3>2 DEF ServeCheckpoint
  <2>4. TurnInv'
    <3>1. UNCHANGED <<pane, mounted, transitions, captures>>
      BY <2>1 DEF paneVars, mount, scheduler
    <3> QED BY <2>3, <3>1 DEF TurnInv, CheckpointBegun
  <2> QED BY <2>2, <2>4
<1> QED BY <1>4, <1>5, <1>6, <1>7, <1>8, <1>10, <1>11, <1>12, <1>13, <1>14

\* The captures that transitions wait for are none but those that they did.
CapturesKept ==
    /\ \A c \in captures' : c.by = "transition" => \E d \in captures : d.by = "transition"
    /\ \A c, d \in captures' : c.by = "transition" /\ d.by = "transition" => c = d
    /\ ~mounted => captures' = {}

LEMMA SameCaptures ==
    ASSUME TurnInv, captures' \subseteq captures
    PROVE  CapturesKept
  BY DEF CapturesKept, TurnInv

LEMMA FlushFlow ==
    ASSUME Known, TurnInv, mounted, BeginFlush \/ ScheduleFlush
    PROVE  CapturesKept
<1>1. Await("scheduler").by # "transition"
  BY AwaitKnown
<1>2. captures' = captures \/ captures' = captures \cup {Await("scheduler")}
  BY DEF BeginFlush, ScheduleFlush
<1> QED BY <1>1, <1>2 DEF CapturesKept, TurnInv

LEMMA EndsFlow ==
    ASSUME Known, TurnInv, OperationEnds
    PROVE  CapturesKept
<1>1. captures' = {[c EXCEPT !.behind = @ - 1] : c \in captures}
  BY DEF OperationEnds
<1>2. \A c \in captures : [c EXCEPT !.behind = @ - 1].by = c.by
  BY KnownParts DEF Captures
<1>3. \A c, d \in captures : c.by = "transition" /\ d.by = "transition" => c = d
  BY DEF TurnInv
<1>4. ASSUME NEW c \in captures'
      PROVE  \E d \in captures : c = [d EXCEPT !.behind = @ - 1] /\ c.by = d.by
  BY <1>1, <1>2
<1>5. ASSUME NEW c \in captures', NEW d \in captures', c.by = "transition", d.by = "transition"
      PROVE  c = d
  <2>1. PICK a \in captures : c = [a EXCEPT !.behind = @ - 1] /\ c.by = a.by
    BY <1>4
  <2>2. PICK b \in captures : d = [b EXCEPT !.behind = @ - 1] /\ d.by = b.by
    BY <1>4
  <2>3. a = b
    BY <1>3, <1>5, <2>1, <2>2
  <2> QED BY <2>1, <2>2, <2>3
<1>6. ~mounted => captures' = {}
  BY <1>1 DEF TurnInv
<1> QED BY <1>4, <1>5, <1>6 DEF CapturesKept

\* The head of the chain stays: so does what belongs to it.
LEMMA HeadStays ==
    ASSUME FlowInv, UNCHANGED <<attachment, wire, exchange, subscriber, channel>>,
           Attaching => transitions' # <<>> /\ Head(transitions') = Head(transitions)
    PROVE  AttachUnderWay' /\ AnswerInv' /\ SocketInv'
<1>1. ASSUME exchange.phase # "idle"
      PROVE  Attaching /\ transitions' # <<>> /\ Head(transitions') = Head(transitions)
  BY <1>1 DEF FlowInv, AttachUnderWay
<1>2. AttachUnderWay'
  BY <1>1 DEF AttachUnderWay, Attaching
<1>3. AnswerInv'
  BY <1>1 DEF AnswerInv, FlowInv
<1>4. SocketInv'
  BY <1>1 DEF SocketInv, FlowInv
<1> QED BY <1>2, <1>3, <1>4

LEMMA TurnStays ==
    ASSUME TurnInv, UNCHANGED <<mount, posts>>, CapturesKept, ChainOK(transitions', pane),
           transitions # <<>> => transitions' # <<>> /\ Head(transitions') = Head(transitions)
    PROVE  TurnInv'
<1>1. UNCHANGED <<pane, mounted>>
  BY DEF mount
<1>2. \A p : CheckpointBegun(p) => CheckpointBegun(p)'
  BY DEF CheckpointBegun
<1>3. \A c \in captures' : c.by = "transition" => CheckpointBegun(pane)' /\ \A p \in posts' : p.by # "transition"
  BY <1>1, <1>2 DEF TurnInv, CapturesKept
<1>4. \A p \in posts' : p.by = "transition" =>
        CheckpointBegun(p.pane)' /\ \A q \in posts' : q.by = "transition" => p = q
  BY <1>2 DEF TurnInv
<1> QED BY <1>1, <1>3, <1>4 DEF TurnInv, CapturesKept

\* A checkpoint under way that ends takes its transition with it.
LEMMA TurnEnds ==
    ASSUME UNCHANGED mount, ChainOK(transitions', pane), ~mounted => captures' = {},
           \A c \in captures' : c.by # "transition", \A p \in posts' : p.by # "transition"
    PROVE  TurnInv'
  BY DEF TurnInv, mount

\* An attachment of the pane is chained behind the others.
LEMMA RestoreChains ==
    ASSUME Known, NEW ts \in Seq(Transitions(lastSequence)), ChainOK(ts, pane), NEW reset \in BOOLEAN,
           Restore(reset, ts)
    PROVE  /\ ChainOK(transitions', pane) /\ transitions' # <<>>
           /\ ts # <<>> => Head(transitions') = Head(ts)
<1>1. lastSequence \in Nat /\ pane \in Nat
  BY KnownParts
<1>2. Attach(pane, reset) \in Transitions(lastSequence)
  BY <1>1, NewTransitions
<1>3. ~Attach(pane, reset).begun /\ Attach(pane, reset).pane <= pane
  BY <1>1 DEF Attach, Transition
<1> QED BY <1>1, <1>2, <1>3, ChainAppended DEF Restore

LEMMA ResyncChains ==
    ASSUME Known, FlowInv, RequestResync
    PROVE  /\ ChainOK(transitions', pane)
           /\ transitions # <<>> => transitions' # <<>> /\ Head(transitions') = Head(transitions)
<1>1. ChainOK(transitions, pane) /\ transitions \in Seq(Transitions(lastSequence))
  BY KnownParts DEF FlowInv, TurnInv
<1>2. CASE Restore(TRUE, transitions)
  BY <1>1, <1>2, RestoreChains
<1>3. CASE UNCHANGED transitions
  BY <1>1, <1>3
<1> QED BY <1>2, <1>3 DEF RequestResync

LEMMA QueueStepsFlow ==
    ASSUME Known, FlowInv, StartOperation \/ Parse
    PROVE  FlowInv'
<1>1. /\ UNCHANGED <<outside, mount, posts>>
      /\ UNCHANGED transitions \/ RequestResync
      /\ UNCHANGED captures \/ OperationEnds
  BY DEF StartOperation, StartBatch, StartRestoration, Parse
<1>2. CapturesKept
  BY <1>1, SameCaptures, EndsFlow DEF FlowInv
<1>3. /\ ChainOK(transitions', pane)
      /\ transitions # <<>> => transitions' # <<>> /\ Head(transitions') = Head(transitions)
  BY <1>1, ResyncChains DEF FlowInv, TurnInv
<1>4. TurnInv'
  BY <1>1, <1>2, <1>3, TurnStays DEF FlowInv
<1>5. UNCHANGED <<attachment, wire, exchange, subscriber, channel>>
  BY <1>1 DEF outside, mainVars, history
<1>6. AttachUnderWay' /\ AnswerInv' /\ SocketInv'
  BY <1>3, <1>5, HeadStays DEF Attaching
<1> QED BY <1>4, <1>6 DEF FlowInv

LEMMA ReceiveFlow ==
    ASSUME Known, FlowInv, Receive
    PROVE  FlowInv'
<1> USE DEF FlowInv
<1> DEFINE n == lastSequence
           e == Head(channel)
<1>1. /\ channel # <<>> /\ channel' = Tail(channel)
      /\ exchange' = IF e.event = "attached" THEN NoExchange ELSE exchange
      /\ UNCHANGED <<attachment, wire, mount, posts, subscriber>>
      /\ ReceiveOutput \/ ReceiveRequest \/ ReceiveResync \/ ReceiveSnapshot \/ ReceiveFailure
  BY DEF Receive, history
<1>2. /\ Len(channel) \in Nat \ {0} /\ Len(channel') = Len(channel) - 1
      /\ \A i \in 1 .. Len(channel') : channel'[i] = channel[i + 1] /\ i + 1 \in 2 .. Len(channel)
      /\ e = channel[1] /\ 1 \in 1 .. Len(channel)
  BY <1>1, KnownParts, TailFacts
<1>3. transitions \in Seq(Transitions(n)) /\ ChainOK(transitions, pane) /\ n \in Nat /\ pane \in Nat
  BY KnownParts DEF TurnInv
<1> HIDE DEF e
<1>4. CASE e.event # "attached"
  <2>1. exchange' = exchange
    BY <1>1, <1>4
  <2>2. /\ ChainOK(transitions', pane)
        /\ transitions # <<>> => transitions' # <<>> /\ Head(transitions') = Head(transitions)
    <3>1. UNCHANGED transitions \/ Restore(TRUE, transitions)
      BY <1>1, <1>4 DEF ReceiveOutput, ReceiveRequest, ReceiveResync, ReceiveSnapshot, ReceiveFailure, e
    <3> QED BY <3>1, <1>3, RestoreChains
  <2>3. CapturesKept
    <3>1. UNCHANGED captures \/ (mounted /\ ScheduleFlush)
      BY <1>1, <1>4 DEF ReceiveOutput, ReceiveRequest, ReceiveResync, ReceiveSnapshot, ReceiveFailure,
                        scheduler, e
    <3> QED BY <3>1, SameCaptures, FlushFlow
  <2>4. TurnInv'
    BY <1>1, <2>2, <2>3, TurnStays
  <2>5. ASSUME exchange.phase # "idle"
        PROVE  Attaching /\ transitions' # <<>> /\ Head(transitions') = Head(transitions)
    BY <2>2, <2>5 DEF AttachUnderWay, Attaching
  <2>6. AttachUnderWay'
    BY <2>1, <2>5 DEF AttachUnderWay, Attaching
  <2>7. AnswerInv'
    <3>1. ASSUME NEW i \in 1 .. Len(channel'), channel'[i].event = "attached"
          PROVE  exchange'.phase = "replied" /\ channel'[i].pane = Head(transitions').pane
      <4>1. i + 1 \in 1 .. Len(channel) /\ channel[i + 1] = channel'[i]
        BY <1>2
      <4>2. exchange.phase = "replied" /\ channel[i + 1].pane = Head(transitions).pane
        BY <3>1, <4>1 DEF AnswerInv
      <4> QED BY <2>1, <2>5, <4>1, <4>2
    <3>2. ASSUME NEW i \in 1 .. Len(channel'), NEW j \in 1 .. Len(channel'),
                 channel'[i].event = "attached", channel'[j].event = "attached"
          PROVE  i = j
      <4>1. i + 1 \in 1 .. Len(channel) /\ j + 1 \in 1 .. Len(channel)
            /\ channel[i + 1] = channel'[i] /\ channel[j + 1] = channel'[j]
        BY <1>2
      <4>2. i + 1 = j + 1
        BY <3>2, <4>1 DEF AnswerInv
      <4> QED BY <4>2
    <3> QED BY <3>1, <3>2 DEF AnswerInv
  <2>8. SocketInv'
    BY <1>1, <2>1, <2>5 DEF SocketInv
  <2> QED BY <2>4, <2>6, <2>7, <2>8
<1>5. CASE e.event = "attached"
  <2>1. exchange.phase = "replied" /\ exchange' = NoExchange
    BY <1>1, <1>2, <1>5 DEF AnswerInv
  <2>2. transitions # <<>> /\ Head(transitions).kind = "attach"
    BY <2>1 DEF AttachUnderWay, Attaching
  <2>3. Tail(transitions) \in Seq(Transitions(n)) /\ ChainOK(Tail(transitions), pane)
    BY <1>3, <2>2, ChainShortened
  <2>4. ChainOK(transitions', pane) /\ UNCHANGED captures
    <3>1. ReceiveSnapshot \/ ReceiveFailure
      BY <1>1, <1>5 DEF ReceiveOutput, ReceiveRequest, ReceiveResync, e
    <3>2. transitions' = Tail(transitions) \/ Restore(TRUE, Tail(transitions))
      BY <3>1 DEF ReceiveSnapshot, ReceiveFailure
    <3> QED BY <2>3, <3>1, <3>2, RestoreChains DEF ReceiveSnapshot, ReceiveFailure, scheduler
  <2>5. (\A c \in captures : c.by # "transition") /\ \A p \in posts : p.by # "transition"
    BY <2>2, NoCheckpointUnderWay
  <2>6. TurnInv'
    BY <1>1, <2>4, <2>5, TurnEnds DEF TurnInv
  <2>7. AttachUnderWay' /\ SocketInv'
    BY <1>1, <2>1 DEF AttachUnderWay, SocketInv, NoExchange
  <2>8. AnswerInv'
    <3>1. ASSUME NEW i \in 1 .. Len(channel') PROVE channel'[i].event # "attached"
      <4>1. i + 1 \in 1 .. Len(channel) /\ channel[i + 1] = channel'[i] /\ i + 1 # 1
        BY <1>2
      <4> QED BY <4>1, <1>2, <1>5 DEF AnswerInv
    <3> QED BY <3>1 DEF AnswerInv
  <2> QED BY <2>6, <2>7, <2>8
<1> QED BY <1>4, <1>5

LEMMA PaneStepsFlow ==
    ASSUME Known, FlowInv,
           \/ Capture \/ TimerFires \/ FinishRestore \/ BeginCheckpoint \/ Unmount \/ Remount
           \/ OrphanAttach \/ SendLastCheckpoint \/ Detach
           \/ \E p \in posts : CheckpointAnswered(p)
    PROVE  FlowInv'
<1> USE DEF FlowInv
<1> DEFINE n == lastSequence
           Same == exchange' = exchange /\ subscriber' = subscriber /\ channel' = channel
           Main == Same /\ attachment' = attachment /\ wire' = wire
           SameHead == transitions # <<>> => transitions' # <<>> /\ Head(transitions') = Head(transitions)
<1>1. /\ transitions \in Seq(Transitions(n)) /\ ChainOK(transitions, pane)
      /\ n \in Nat /\ pane \in Nat /\ captures \subseteq Captures /\ posts \subseteq Posts(n)
  BY KnownParts DEF TurnInv
<1>2. UNCHANGED outside => Main
  BY DEF outside, mainVars, history
<1>3. ASSUME Main, SameHead
      PROVE  AttachUnderWay' /\ AnswerInv' /\ SocketInv'
  BY <1>3, HeadStays DEF Attaching
<1>4. ASSUME Main, UNCHANGED <<mount, posts>>, CapturesKept, ChainOK(transitions', pane), SameHead
      PROVE  FlowInv'
  BY <1>3, <1>4, TurnStays
\* The head of the chain is a checkpoint or a leave: no attachment is under way.
<1>5. ASSUME transitions # <<>>, Head(transitions).kind # "attach",
             Same, (attachment' = attachment /\ wire' = wire) \/ (wire' = <<>> /\ attachment' = "none")
      PROVE  AttachUnderWay' /\ AnswerInv' /\ SocketInv'
  <2>1. exchange.phase = "idle"
    BY <1>5 DEF AttachUnderWay, Attaching
  <2> QED BY <1>5, <2>1 DEF AttachUnderWay, AnswerInv, SocketInv
<1>6. transitions # <<>> => Tail(transitions) \in Seq(Transitions(n)) /\ ChainOK(Tail(transitions), pane)
  BY <1>1, ChainShortened
<1>7. ASSUME NEW ts \in Seq(Transitions(n)), ChainOK(ts, pane), NEW t \in Transitions(n), ~t.begun, t.pane <= pane
      PROVE  /\ ChainOK(Append(ts, t), pane) /\ Append(ts, t) \in Seq(Transitions(n)) /\ Append(ts, t) # <<>>
             /\ ts # <<>> => Head(Append(ts, t)) = Head(ts)
  BY <1>1, <1>7, ChainAppended
<1>8. CASE Capture
  <2>1. PICK c \in captures : /\ captures' = captures \ {c}
                              /\ posts' = posts \cup {Post(c.by, pane, Shown)}
    BY <1>8 DEF Capture
  <2>2. Main /\ UNCHANGED <<pane, mounted, transitions>>
    BY <1>2, <1>8 DEF Capture, mount
  <2>3. Post(c.by, pane, Shown).by = c.by /\ Post(c.by, pane, Shown).pane = pane
    BY DEF Post
  <2>4. TurnInv'
    <3>1. \A p : CheckpointBegun(p) => CheckpointBegun(p)'
      BY <2>2 DEF CheckpointBegun
    <3>2. ChainOK(transitions, pane)' /\ (~mounted' => captures' = {})
      BY <1>1, <2>1, <2>2 DEF TurnInv
    <3>3. ASSUME NEW d \in captures', d.by = "transition"
          PROVE  /\ CheckpointBegun(pane)'
                 /\ \A e \in captures' : e.by = "transition" => d = e
                 /\ \A p \in posts' : p.by # "transition"
      <4>1. c.by # "transition"
        BY <2>1, <3>3 DEF TurnInv
      <4>2. CheckpointBegun(pane) /\ \A p \in posts : p.by # "transition"
        BY <2>1, <3>3 DEF TurnInv
      <4>3. \A p \in posts' : p.by # "transition"
        BY <2>1, <2>3, <4>1, <4>2
      <4>4. \A e \in captures' : e.by = "transition" => d = e
        BY <2>1, <3>3 DEF TurnInv
      <4>5. CheckpointBegun(pane)'
        BY <2>2, <3>1, <4>2 DEF CheckpointBegun
      <4> QED BY <4>3, <4>4, <4>5
    <3>4. ASSUME NEW p \in posts', p.by = "transition"
          PROVE  CheckpointBegun(p.pane)' /\ \A q \in posts' : q.by = "transition" => p = q
      <4>1. CASE c.by = "transition"
        <5>1. CheckpointBegun(pane) /\ \A q \in posts : q.by # "transition"
          BY <2>1, <4>1 DEF TurnInv
        <5> QED BY <2>1, <2>3, <3>1, <3>4, <5>1
      <4>2. CASE c.by # "transition"
        <5>1. p \in posts /\ CheckpointBegun(p.pane)
          BY <2>1, <2>3, <3>4, <4>2 DEF TurnInv
        <5>2. \A q \in posts' : q.by = "transition" => p = q
          BY <2>1, <2>3, <3>4, <4>2, <5>1 DEF TurnInv
        <5> QED BY <3>1, <5>1, <5>2
      <4> QED BY <4>1, <4>2
    <3> QED BY <3>2, <3>3, <3>4 DEF TurnInv
  <2> QED BY <1>3, <2>2, <2>4
<1>9. CASE TimerFires
  <2>1. Main /\ UNCHANGED <<mount, posts, transitions>> /\ mounted /\ ScheduleFlush
    BY <1>2, <1>9 DEF TimerFires
  <2> QED BY <1>1, <1>4, <2>1, FlushFlow
<1>10. CASE FinishRestore
  <2>1. Main /\ UNCHANGED <<mount, posts, captures>>
    BY <1>2, <1>10 DEF FinishRestore, scheduler
  <2> DEFINE more == Append(transitions, Recheckpoint)
  <2>2. Recheckpoint \in Transitions(n) /\ ~Recheckpoint.begun /\ Recheckpoint.pane <= pane
    <3>1. Recheckpoint \in Transitions(n)
      BY <1>1, NewTransitions
    <3>2. ~Recheckpoint.begun /\ Recheckpoint.pane = pane
      BY DEF Recheckpoint, Transition
    <3> QED BY <1>1, <3>1, <3>2
  <2>3. /\ ChainOK(more, pane) /\ more \in Seq(Transitions(n)) /\ more # <<>>
        /\ transitions # <<>> => Head(more) = Head(transitions)
    <3>1. transitions \in Seq(Transitions(n)) /\ ChainOK(transitions, pane)
      BY <1>1
    <3> HIDE DEF n
    <3> QED BY <1>7, <2>2, <3>1
  <2>4. transitions' = more \/ Restore(TRUE, more)
    BY <1>10 DEF FinishRestore
  <2> HIDE DEF more
  <2>5. ChainOK(transitions', pane) /\ SameHead
    BY <2>3, <2>4, RestoreChains
  <2>6. CapturesKept
    BY <2>1, SameCaptures
  <2> QED BY <1>4, <2>1, <2>5, <2>6
<1>11. CASE BeginCheckpoint
  <2>1. /\ transitions # <<>> /\ Head(transitions).kind = "checkpoint" /\ ~Head(transitions).begun
        /\ Main /\ UNCHANGED <<mount, posts>>
    BY <1>2, <1>11 DEF BeginCheckpoint
  <2>2. AttachUnderWay' /\ AnswerInv' /\ SocketInv'
    BY <1>5, <2>1
  <2>3. (\A c \in captures : c.by # "transition") /\ \A p \in posts : p.by # "transition"
    BY <2>1, NoCheckpointUnderWay
  <2>4. CASE mounted /\ Head(transitions).pane = pane
    <3>1. transitions' = Begun /\ captures' = captures \cup {Await("transition")}
      BY <1>11, <2>4 DEF BeginCheckpoint
    <3>2. /\ Begun \in Seq(Transitions(n)) /\ Len(Begun) = Len(transitions) /\ Len(transitions) \in Nat \ {0}
          /\ Begun[1] = [Head(transitions) EXCEPT !.begun = TRUE]
          /\ \A i \in 2 .. Len(transitions) : Begun[i] = transitions[i]
          /\ \A i \in 1 .. Len(transitions) : Begun[i].pane = transitions[i].pane
      BY <1>1, <2>1, BegunFacts
    <3>3. ChainOK(Begun, pane)
      BY <1>1, <3>2 DEF ChainOK
    <3>4. Head(transitions) \in Transitions(n) /\ Head(Begun) = Begun[1] /\ Begun # <<>>
      BY <1>1, <2>1, <3>2, TailFacts
    <3>5. CheckpointBegun(pane)'
      BY <2>1, <2>4, <3>1, <3>2, <3>4 DEF CheckpointBegun, mount, Transitions
    <3>6. TurnInv'
      BY <2>1, <2>3, <2>4, <3>1, <3>3, <3>5 DEF TurnInv, mount
    <3> QED BY <2>2, <3>6
  <2>5. CASE ~ (mounted /\ Head(transitions).pane = pane)
    <3>1. transitions' = Tail(transitions) /\ captures' = captures
      BY <1>11, <2>5 DEF BeginCheckpoint
    <3>2. TurnInv'
      BY <1>6, <2>1, <2>3, <3>1, TurnEnds DEF TurnInv
    <3> QED BY <2>2, <3>2
  <2> QED BY <2>4, <2>5
<1>12. CASE Unmount
  <2>1. Main /\ pane' = pane /\ mounted' = FALSE /\ captures' = {} /\ posts' = posts
    BY <1>2, <1>12 DEF Unmount
  <2>2. Leave(Shown) \in Transitions(n) /\ ~Leave(Shown).begun /\ Leave(Shown).pane <= pane
    <3>1. Leave(Shown) \in Transitions(n)
      BY <1>1, ShownKnown, NewTransitions
    <3>2. ~Leave(Shown).begun /\ Leave(Shown).pane = pane
      BY DEF Leave, Transition
    <3> QED BY <1>1, <3>1, <3>2
  <2>3. CASE \E c \in captures : c.by = "transition"
    <3>1. transitions' = Append(Tail(transitions), Leave(Shown))
      BY <1>12, <2>3 DEF Unmount
    <3>2. transitions # <<>> /\ Head(transitions).kind = "checkpoint" /\ \A p \in posts : p.by # "transition"
      BY <2>3 DEF TurnInv, CheckpointBegun
    <3>3. ChainOK(transitions', pane)
      BY <1>1, <1>6, <1>7, <2>2, <3>1, <3>2
    <3>4. TurnInv'
      BY <2>1, <3>2, <3>3 DEF TurnInv
    <3>5. AttachUnderWay' /\ AnswerInv' /\ SocketInv'
      BY <1>5, <2>1, <3>2
    <3> QED BY <3>4, <3>5
  <2>4. CASE ~ \E c \in captures : c.by = "transition"
    <3>1. transitions' = Append(transitions, Leave(Shown))
      BY <1>12, <2>4 DEF Unmount
    <3>2. ChainOK(transitions', pane) /\ SameHead
      BY <1>1, <1>7, <2>2, <3>1
    <3>3. \A p : CheckpointBegun(p) => CheckpointBegun(p)'
      BY <3>2 DEF CheckpointBegun
    <3>4. TurnInv'
      BY <2>1, <3>2, <3>3 DEF TurnInv
    <3> QED BY <1>3, <2>1, <3>2, <3>4
  <2> QED BY <2>3, <2>4
<1>13. CASE Remount
  <2>1. /\ Main /\ ~mounted /\ pane' = pane + 1 /\ mounted' = TRUE /\ captures' = captures /\ posts' = posts
        /\ transitions' = Append(transitions, Attach(pane + 1, FALSE))
    BY <1>2, <1>13 DEF Remount, scheduler, Serialized
  <2>2. captures = {}
    BY <2>1 DEF TurnInv
  <2>3. pane + 1 \in Nat /\ FALSE \in BOOLEAN
    BY <1>1
  <2>4. Attach(pane + 1, FALSE) \in Transitions(n)
    BY <1>1, <2>3, NewTransitions, Zenon
  <2>5. ~Attach(pane + 1, FALSE).begun /\ Attach(pane + 1, FALSE).pane = pane + 1
    BY DEF Attach, Transition
  <2>6. ChainOK(transitions, pane + 1)
    <3>1. \A i \in 1 .. Len(transitions) : transitions[i].pane \in Nat
      BY <1>1 DEF Transitions
    <3> QED BY <1>1, <3>1 DEF ChainOK
  <2>7. ChainOK(transitions', pane + 1) /\ SameHead
    <3>1. pane + 1 <= pane + 1
      BY <1>1
    <3>2. Attach(pane + 1, FALSE).pane <= pane + 1
      BY <2>5, <3>1
    <3> DEFINE t == Attach(pane + 1, FALSE)
               next == pane + 1
    <3>3. t \in Transitions(n) /\ ~t.begun /\ t.pane <= next /\ next \in Nat /\ ChainOK(transitions, next)
      BY <2>3, <2>4, <2>5, <2>6, <3>2
    <3>4. transitions' = Append(transitions, t)
      BY <2>1
    <3> HIDE DEF t, n, next
    <3>5. /\ ChainOK(transitions', next) /\ transitions' # <<>>
          /\ transitions # <<>> => Head(transitions') = Head(transitions)
      BY <1>1, <3>3, <3>4, ChainAppended
    <3> QED BY <3>5 DEF next
  <2>8. \A p : CheckpointBegun(p) => CheckpointBegun(p)'
    BY <2>7 DEF CheckpointBegun
  <2>9. TurnInv'
    BY <2>1, <2>2, <2>7, <2>8 DEF TurnInv
  <2> QED BY <1>3, <2>1, <2>7, <2>9
<1>14. CASE OrphanAttach
  <2>1. /\ Main /\ UNCHANGED <<mount, posts, captures>>
        /\ transitions' = Append(transitions, Attach(Gone, TRUE))
    BY <1>2, <1>14 DEF OrphanAttach, scheduler, Serialized
  <2>2. Attach(Gone, TRUE) \in Transitions(n) /\ ~Attach(Gone, TRUE).begun /\ Attach(Gone, TRUE).pane <= pane
    <3>1. Attach(Gone, TRUE) \in Transitions(n)
      <4>1. Gone \in Nat /\ TRUE \in BOOLEAN
        BY DEF Gone
      <4> QED BY <1>1, <4>1, NewTransitions, Zenon
    <3>2. ~Attach(Gone, TRUE).begun /\ Attach(Gone, TRUE).pane = 0
      BY DEF Attach, Transition, Gone
    <3>3. 0 <= pane
      BY <1>1
    <3> QED BY <3>1, <3>2, <3>3, Zenon
  <2>3. ChainOK(transitions', pane) /\ SameHead
    <3> DEFINE t == Attach(Gone, TRUE)
    <3>1. t \in Transitions(n) /\ ~t.begun /\ t.pane <= pane /\ transitions' = Append(transitions, t)
      BY <2>1, <2>2
    <3> HIDE DEF t, n
    <3>2. /\ ChainOK(transitions', pane) /\ transitions' # <<>>
          /\ transitions # <<>> => Head(transitions') = Head(transitions)
      BY <1>1, <3>1, ChainAppended
    <3> QED BY <3>2
  <2>4. CapturesKept
    BY <2>1, SameCaptures
  <2> QED BY <1>4, <2>1, <2>3, <2>4
<1>15. CASE SendLastCheckpoint
  <2>1. /\ transitions # <<>> /\ Head(transitions).kind = "leave" /\ Main /\ UNCHANGED <<mount, captures>>
        /\ posts' = posts \cup {Post("leave", Head(transitions).pane, Head(transitions).projection)}
        /\ transitions' = Begun
    BY <1>2, <1>15 DEF SendLastCheckpoint, Leaving, scheduler
  <2>2. (\A c \in captures : c.by # "transition") /\ \A p \in posts : p.by # "transition"
    BY <2>1, NoCheckpointUnderWay
  <2>3. \A p \in posts' : p.by # "transition"
    BY <2>1, <2>2 DEF Post
  <2>4. /\ Len(Begun) = Len(transitions) /\ \A i \in 2 .. Len(transitions) : Begun[i] = transitions[i]
        /\ \A i \in 1 .. Len(transitions) : Begun[i].pane = transitions[i].pane
    BY <1>1, <2>1, BegunFacts
  <2>5. ChainOK(transitions', pane)
    BY <1>1, <2>1, <2>4 DEF ChainOK
  <2>6. TurnInv'
    BY <2>1, <2>2, <2>3, <2>5, TurnEnds DEF TurnInv
  <2> QED BY <1>5, <2>1, <2>6
<1>16. CASE Detach
  <2>1. /\ transitions # <<>> /\ Head(transitions).kind = "leave"
        /\ attachment' = "none" /\ wire' = <<>> /\ transitions' = Tail(transitions)
        /\ Same /\ UNCHANGED <<mount, captures, posts>>
    BY <1>16 DEF Detach, Leaving, scheduler, history
  <2>2. (\A c \in captures : c.by # "transition") /\ \A p \in posts : p.by # "transition"
    BY <2>1, NoCheckpointUnderWay
  <2>3. TurnInv'
    BY <1>6, <2>1, <2>2, TurnEnds DEF TurnInv
  <2> QED BY <1>5, <2>1, <2>3
<1>17. ASSUME NEW p \in posts, CheckpointAnswered(p) PROVE FlowInv'
  <2>1. /\ Main /\ UNCHANGED mount /\ posts' = posts \ {p}
        /\ transitions' = IF p.by = "transition" THEN Tail(transitions) ELSE transitions
        /\ UNCHANGED captures \/ (mounted /\ BeginFlush)
    BY <1>2, <1>17 DEF CheckpointAnswered
  <2>2. CapturesKept
    BY <2>1, SameCaptures, FlushFlow
  <2>3. CASE p.by = "transition"
    <3>1. /\ transitions # <<>> /\ Head(transitions).kind = "checkpoint"
          /\ \A q \in posts' : q.by # "transition"
          /\ \A c \in captures : c.by # "transition"
      BY <2>1, <2>3 DEF TurnInv, CheckpointBegun
    <3>2. TurnInv'
      BY <1>6, <2>1, <2>2, <2>3, <3>1, TurnEnds DEF CapturesKept
    <3> QED BY <1>5, <2>1, <3>1, <3>2
  <2>4. CASE p.by # "transition"
    <3>1. transitions' = transitions
      BY <2>1, <2>4
    <3>2. TurnInv'
      <4>1. \A q : CheckpointBegun(q) => CheckpointBegun(q)'
        BY <3>1 DEF CheckpointBegun
      <4>2. pane' = pane /\ mounted' = mounted /\ posts' \subseteq posts
        BY <2>1 DEF mount
      <4>3. \A c \in captures' : c.by = "transition" =>
              CheckpointBegun(pane)' /\ \A q \in posts' : q.by # "transition"
        BY <2>2, <4>1, <4>2 DEF TurnInv, CapturesKept
      <4> QED BY <1>1, <2>2, <3>1, <4>1, <4>2, <4>3 DEF TurnInv, CapturesKept
    <3> QED BY <1>3, <2>1, <3>1, <3>2
  <2> QED BY <2>3, <2>4
<1> QED BY <1>8, <1>9, <1>10, <1>11, <1>12, <1>13, <1>14, <1>15, <1>16, <1>17

-----------------------------------------------------------------------------
(* Where the restore under way is, and that a gap is not forgotten.          *)

\* The attachments of pane p in the chain, and the restorations in the queue.
AttachIn(ts, p)     == \E i \in 1 .. Len(ts) : ts[i].kind = "attach" /\ ts[i].pane = p
OneAttachIn(ts, p)  == \A i, j \in 1 .. Len(ts) :
                          ts[i].kind = "attach" /\ ts[i].pane = p
                          /\ ts[j].kind = "attach" /\ ts[j].pane = p => i = j
RestoreIn(ops)      == \E i \in 1 .. Len(ops) : ops[i].kind = "restore"
OneRestoreIn(ops)   == \A i, j \in 1 .. Len(ops) :
                          ops[i].kind = "restore" /\ ops[j].kind = "restore" => i = j
RestoreWaits(ops)   == \E i \in 1 .. Len(ops) : ops[i].kind = "restore" /\ ~ops[i].started

\* The restore under way is in one place: an attachment, or the queue.
PlaceInv ==
    /\ OneAttachIn(transitions, pane) /\ OneRestoreIn(operations)
    /\ mounted => (restoring = "attaching" <=> AttachIn(transitions, pane))
    /\ RestoreIn(operations) => restoring = "applying"

\* A gap that was noticed will be restored, or the pane shows an error.
GapInv ==
    /\ restoreAgain => restoring # "no"
    /\ resyncRequested =>
         paneError \/ restoreAgain \/ restoring = "attaching" \/ RestoreWaits(operations)

\* Nothing is left of a pane that is gone.
GoneInv ==
    /\ ~mounted => /\ operations = <<>> /\ applied = 0 /\ restoring = "no"
                   /\ ~restoreAgain /\ ~resyncRequested
    /\ \A c \in captures : c.behind <= Len(operations)

RestoreInv == PlaceInv /\ GapInv /\ GoneInv

\* A chain or a queue with one element more.
LEMMA AttachAppended ==
    ASSUME NEW n \in Nat, NEW ts \in Seq(Transitions(n)), NEW t \in Transitions(n), NEW p,
           OneAttachIn(ts, p), t.kind = "attach" /\ t.pane = p => ~AttachIn(ts, p)
    PROVE  /\ OneAttachIn(Append(ts, t), p)
           /\ AttachIn(Append(ts, t), p) <=> AttachIn(ts, p) \/ (t.kind = "attach" /\ t.pane = p)
<1>1. /\ Len(ts) \in Nat /\ Len(Append(ts, t)) = Len(ts) + 1
      /\ \A i \in 1 .. Len(ts) : Append(ts, t)[i] = ts[i]
      /\ Append(ts, t)[Len(ts) + 1] = t
  BY AppendFacts
<1>2. \A i \in 1 .. Len(ts) + 1 : i \in 1 .. Len(ts) \/ i = Len(ts) + 1
  BY <1>1
<1>3. Len(ts) + 1 \in 1 .. Len(ts) + 1 /\ \A i \in 1 .. Len(ts) : i \in 1 .. Len(ts) + 1
  BY <1>1
<1>4. AttachIn(Append(ts, t), p) <=> AttachIn(ts, p) \/ (t.kind = "attach" /\ t.pane = p)
  BY <1>1, <1>2, <1>3 DEF AttachIn
<1>5. OneAttachIn(Append(ts, t), p)
  BY <1>1, <1>2 DEF AttachIn, OneAttachIn
<1> QED BY <1>4, <1>5

LEMMA AttachRemoved ==
    ASSUME NEW n \in Nat, NEW ts \in Seq(Transitions(n)), ts # <<>>, NEW p, OneAttachIn(ts, p)
    PROVE  /\ OneAttachIn(Tail(ts), p)
           /\ Head(ts).kind = "attach" /\ Head(ts).pane = p => AttachIn(ts, p) /\ ~AttachIn(Tail(ts), p)
           /\ ~ (Head(ts).kind = "attach" /\ Head(ts).pane = p) => (AttachIn(Tail(ts), p) <=> AttachIn(ts, p))
<1>1. /\ Head(ts) = ts[1] /\ Len(ts) \in Nat \ {0} /\ Len(Tail(ts)) = Len(ts) - 1
      /\ \A i \in 1 .. Len(ts) - 1 : Tail(ts)[i] = ts[i + 1]
  BY TailFacts
<1>2. \A i \in 1 .. Len(Tail(ts)) : i + 1 \in 1 .. Len(ts) /\ i + 1 # 1 /\ Tail(ts)[i] = ts[i + 1]
  BY <1>1
<1>3. OneAttachIn(Tail(ts), p)
  <2> SUFFICES ASSUME NEW i \in 1 .. Len(Tail(ts)), NEW j \in 1 .. Len(Tail(ts)),
                      Tail(ts)[i].kind = "attach", Tail(ts)[i].pane = p,
                      Tail(ts)[j].kind = "attach", Tail(ts)[j].pane = p
               PROVE  i = j
    BY DEF OneAttachIn
  <2>1. i + 1 = j + 1
    BY <1>2 DEF OneAttachIn
  <2> QED BY <2>1
<1>4. 1 \in 1 .. Len(ts)
  BY <1>1
<1>5. CASE Head(ts).kind = "attach" /\ Head(ts).pane = p
  <2>1. AttachIn(ts, p)
    BY <1>1, <1>4, <1>5 DEF AttachIn
  <2>2. ~AttachIn(Tail(ts), p)
    BY <1>1, <1>2, <1>4, <1>5 DEF AttachIn, OneAttachIn
  <2> QED BY <1>3, <1>5, <2>1, <2>2
<1>6. CASE ~ (Head(ts).kind = "attach" /\ Head(ts).pane = p)
  <2>1. AttachIn(Tail(ts), p) => AttachIn(ts, p)
    BY <1>2 DEF AttachIn
  <2>2. ASSUME NEW i \in 1 .. Len(ts), ts[i].kind = "attach", ts[i].pane = p
        PROVE  AttachIn(Tail(ts), p)
    <3>1. i # 1
      BY <1>1, <1>6, <2>2
    <3>2. i - 1 \in 1 .. Len(Tail(ts)) /\ Tail(ts)[i - 1] = ts[(i - 1) + 1] /\ (i - 1) + 1 = i
      BY <1>1, <3>1
    <3> QED BY <2>2, <3>2 DEF AttachIn
  <2>3. AttachIn(ts, p) => AttachIn(Tail(ts), p)
    BY <2>2 DEF AttachIn
  <2> QED BY <1>3, <1>6, <2>1, <2>3
<1> QED BY <1>5, <1>6

\* The head of the chain begins: its kinds and panes are the same.
LEMMA AttachBegun ==
    ASSUME Known, transitions # <<>>, NEW p, OneAttachIn(transitions, p)
    PROVE  OneAttachIn(Begun, p) /\ (AttachIn(Begun, p) <=> AttachIn(transitions, p))
<1>1. /\ Len(Begun) = Len(transitions)
      /\ \A i \in 1 .. Len(transitions) :
            Begun[i].kind = transitions[i].kind /\ Begun[i].pane = transitions[i].pane
  BY KnownParts, BegunFacts
<1> QED BY <1>1 DEF AttachIn, OneAttachIn

LEMMA RestoreAppended ==
    ASSUME NEW n \in Nat, NEW ops \in Seq(Operations(n)), NEW o \in Operations(n),
           OneRestoreIn(ops), o.kind = "restore" => ~RestoreIn(ops)
    PROVE  /\ OneRestoreIn(Append(ops, o))
           /\ o.kind = "restore" /\ ~o.started => RestoreWaits(Append(ops, o))
<1>1. /\ Len(ops) \in Nat /\ Len(Append(ops, o)) = Len(ops) + 1
      /\ \A i \in 1 .. Len(ops) : Append(ops, o)[i] = ops[i]
      /\ Append(ops, o)[Len(ops) + 1] = o
  BY AppendFacts
<1>2. \A i \in 1 .. Len(ops) + 1 : i \in 1 .. Len(ops) \/ i = Len(ops) + 1
  BY <1>1
<1>3. Len(ops) + 1 \in 1 .. Len(ops) + 1
  BY <1>1
<1>4. OneRestoreIn(Append(ops, o))
  BY <1>1, <1>2 DEF RestoreIn, OneRestoreIn
<1>5. o.kind = "restore" /\ ~o.started => RestoreWaits(Append(ops, o))
  BY <1>1, <1>3 DEF RestoreWaits
<1> QED BY <1>4, <1>5

\* The queue has the same restorations.
QueueSame ==
    /\ OneRestoreIn(operations')
    /\ RestoreIn(operations') => RestoreIn(operations)
    /\ RestoreWaits(operations) => RestoreWaits(operations')

\* One operation is done.
LEMMA RestoreRemoved ==
    ASSUME Known, operations # <<>>, OneRestoreIn(operations), operations' = Tail(operations)
    PROVE  /\ OneRestoreIn(operations')
           /\ Head(operations).kind = "restore" => RestoreIn(operations) /\ ~RestoreIn(operations')
           /\ Head(operations).kind # "restore" => QueueSame
           /\ Len(operations') = Len(operations) - 1
<1>1. /\ Head(operations) = operations[1] /\ Len(operations) \in Nat \ {0}
      /\ Len(operations') = Len(operations) - 1
      /\ \A i \in 1 .. Len(operations) - 1 : operations'[i] = operations[i + 1]
  BY KnownParts, TailFacts
<1>2. \A i \in 1 .. Len(operations') :
        i + 1 \in 1 .. Len(operations) /\ i + 1 # 1 /\ operations'[i] = operations[i + 1]
  BY <1>1
<1>3. OneRestoreIn(operations')
  <2> SUFFICES ASSUME NEW i \in 1 .. Len(operations'), NEW j \in 1 .. Len(operations'),
                      operations'[i].kind = "restore", operations'[j].kind = "restore"
               PROVE  i = j
    BY DEF OneRestoreIn
  <2>1. i + 1 = j + 1
    BY <1>2 DEF OneRestoreIn
  <2> QED BY <2>1
<1>4. 1 \in 1 .. Len(operations)
  BY <1>1
<1>5. ASSUME Head(operations).kind = "restore"
      PROVE  RestoreIn(operations) /\ ~RestoreIn(operations')
  BY <1>1, <1>2, <1>4, <1>5 DEF RestoreIn, OneRestoreIn
<1>6. ASSUME Head(operations).kind # "restore" PROVE QueueSame
  <2>1. RestoreIn(operations') => RestoreIn(operations)
    BY <1>2 DEF RestoreIn
  <2>2. ASSUME NEW i \in 1 .. Len(operations), operations[i].kind = "restore", ~operations[i].started
        PROVE  RestoreWaits(operations')
    <3>1. i # 1
      BY <1>1, <1>6, <2>2
    <3>2. i - 1 \in 1 .. Len(operations') /\ operations'[i - 1] = operations[(i - 1) + 1] /\ (i - 1) + 1 = i
      BY <1>1, <3>1
    <3> QED BY <2>2, <3>2 DEF RestoreWaits
  <2> QED BY <1>3, <2>1, <2>2 DEF QueueSame, RestoreWaits
<1> QED BY <1>1, <1>3, <1>5, <1>6

\* The head of the queue starts, or goes on.
LEMMA RestoreReplaced ==
    ASSUME Known, operations # <<>>, OneRestoreIn(operations), NEW h,
           operations' = [operations EXCEPT ![1] = h], h.kind = Head(operations).kind
    PROVE  /\ OneRestoreIn(operations') /\ (RestoreIn(operations') => RestoreIn(operations))
           /\ h.kind # "restore" \/ Head(operations).started => QueueSame
           /\ Len(operations') = Len(operations)
<1>1. /\ Head(operations) = operations[1] /\ Len(operations) \in Nat \ {0}
      /\ Len(operations') = Len(operations) /\ operations'[1] = h
      /\ \A i \in 1 .. Len(operations) : i # 1 => operations'[i] = operations[i]
  BY KnownParts
<1>2. \A i \in 1 .. Len(operations) : operations'[i].kind = operations[i].kind
  BY <1>1
<1>3. h.kind # "restore" \/ Head(operations).started =>
        (RestoreWaits(operations) => RestoreWaits(operations'))
  BY <1>1 DEF RestoreWaits
<1>4. OneRestoreIn(operations') /\ (RestoreIn(operations') => RestoreIn(operations))
  BY <1>1, <1>2 DEF RestoreIn, OneRestoreIn
<1> QED BY <1>1, <1>3, <1>4 DEF QueueSame

LEMMA RestoreEnqueued ==
    ASSUME Known, OneRestoreIn(operations), NEW s \in 1 .. lastSequence, operations' = Enqueued(s)
    PROVE  QueueSame /\ Len(operations') >= Len(operations)
<1>1. /\ Len(operations) \in Nat /\ Len(operations') \in {Len(operations), Len(operations) + 1}
      /\ operations'[Len(operations')].kind = "batch"
      /\ \A i \in 1 .. Len(operations) :
            operations'[i].kind = operations[i].kind /\ operations'[i].started = operations[i].started
  BY EnqueuedKnown
<1>2. \A i \in 1 .. Len(operations') : operations'[i].kind = "restore" =>
        i \in 1 .. Len(operations) /\ operations[i].kind = "restore"
  BY <1>1
<1>3. \A i \in 1 .. Len(operations) : i \in 1 .. Len(operations')
  BY <1>1
<1>4. RestoreWaits(operations) => RestoreWaits(operations')
  BY <1>1, <1>3 DEF RestoreWaits
<1>5. OneRestoreIn(operations') /\ (RestoreIn(operations') => RestoreIn(operations))
  BY <1>2 DEF RestoreIn, OneRestoreIn
<1> QED BY <1>1, <1>4, <1>5 DEF QueueSame

\* The chain has the same attachments of the pane.
ChainSame == OneAttachIn(transitions', pane) /\ (AttachIn(transitions', pane) <=> AttachIn(transitions, pane))

\* No capture waits for more than the queue.
BehindQueue == \A c \in captures : c.behind <= Len(operations)

LEMMA RestoreKept ==
    ASSUME RestoreInv, ChainSame, QueueSame, BehindQueue',
           UNCHANGED <<mount, applied, restoring, restoreAgain, resyncRequested, paneError>>,
           ~mounted => operations' = <<>>
    PROVE  RestoreInv'
<1>1. PlaceInv'
  BY DEF RestoreInv, PlaceInv, ChainSame, QueueSame, mount
<1>2. GapInv'
  BY DEF RestoreInv, GapInv, QueueSame
<1>3. GoneInv'
  BY DEF RestoreInv, GoneInv, BehindQueue, mount
<1> QED BY <1>1, <1>2, <1>3 DEF RestoreInv

LEMMA ChainUntouched == RestoreInv /\ UNCHANGED transitions => ChainSame
  BY DEF ChainSame, RestoreInv, PlaceInv

LEMMA QueueUntouched == RestoreInv /\ UNCHANGED operations => QueueSame
  BY DEF QueueSame, RestoreInv, PlaceInv

LEMMA BehindKept ==
    ASSUME Known, RestoreInv, UNCHANGED captures \/ BeginFlush \/ ScheduleFlush,
           Len(operations') \in Nat, Len(operations') >= Len(operations)
    PROVE  BehindQueue'
<1>1. /\ Await("scheduler").behind = Len(operations) /\ Len(operations) \in Nat
      /\ \A c \in captures : c.behind \in Nat
  BY AwaitKnown, KnownParts DEF Captures
<1>2. \A c \in captures' : c \in captures \/ c = Await("scheduler")
  BY DEF BeginFlush, ScheduleFlush
<1>3. \A c \in captures' : c.behind \in Nat /\ c.behind <= Len(operations)
  BY <1>1, <1>2 DEF RestoreInv, GoneInv
<1> QED BY <1>1, <1>3 DEF BehindQueue

LEMMA BehindEnds ==
    ASSUME Known, RestoreInv, operations # <<>>, \A c \in captures : c.behind > 0, OperationEnds
    PROVE  BehindQueue'
<1>1. /\ captures' = {[c EXCEPT !.behind = @ - 1] : c \in captures}
      /\ Len(operations) \in Nat \ {0} /\ Len(operations') = Len(operations) - 1
  BY EndsKnown DEF OperationEnds
<1>2. \A c \in captures : [c EXCEPT !.behind = @ - 1].behind = c.behind - 1 /\ c.behind \in Nat
  BY KnownParts DEF Captures
<1>3. \A c \in captures : c.behind <= Len(operations)
  BY DEF RestoreInv, GoneInv
<1>4. ASSUME NEW d \in captures' PROVE d.behind <= Len(operations')
  <2>1. PICK c \in captures : d = [c EXCEPT !.behind = @ - 1]
    BY <1>1
  <2>2. PICK b \in Nat : b = c.behind
    BY <1>2
  <2>3. d.behind = b - 1 /\ b <= Len(operations)
    BY <1>2, <1>3, <2>1, <2>2
  <2> QED BY <1>1, <2>2, <2>3
<1> QED BY <1>4 DEF BehindQueue

\* An attachment of the pane is chained where there was none.
LEMMA RestoreAttaches ==
    ASSUME Known, NEW ts \in Seq(Transitions(lastSequence)), NEW reset \in BOOLEAN,
           OneAttachIn(ts, pane), ~AttachIn(ts, pane), Restore(reset, ts)
    PROVE  OneAttachIn(transitions', pane) /\ AttachIn(transitions', pane) /\ restoring' = "attaching"
<1>1. lastSequence \in Nat /\ pane \in Nat
  BY KnownParts
<1>2. Attach(pane, reset) \in Transitions(lastSequence)
  BY <1>1, NewTransitions
<1>3. Attach(pane, reset).kind = "attach" /\ Attach(pane, reset).pane = pane
  BY DEF Attach, Transition
<1> QED BY <1>1, <1>2, <1>3, AttachAppended DEF Restore

LEMMA InitRestore == Init => RestoreInv
<1> SUFFICES ASSUME Init PROVE RestoreInv
  OBVIOUS
<1>1. /\ transitions = <<Attach(1, FALSE)>> /\ pane = 1 /\ operations = <<>> /\ restoring = "attaching"
      /\ ~restoreAgain /\ ~resyncRequested /\ captures = {} /\ mounted
  BY DEF Init
<1>2. Len(transitions) = 1 /\ transitions[1] = Attach(1, FALSE) /\ Len(operations) = 0
  BY <1>1
<1>3. Attach(1, FALSE).kind = "attach" /\ Attach(1, FALSE).pane = 1
  BY DEF Attach, Transition
<1>4. \A i \in 1 .. Len(transitions) : i = 1
  BY <1>2
<1>5. 1 \in 1 .. Len(transitions)
  BY <1>2
<1>6. AttachIn(transitions, pane)
  BY <1>1, <1>2, <1>3, <1>5 DEF AttachIn
<1>7. OneAttachIn(transitions, pane)
  BY <1>4 DEF OneAttachIn
<1>8. OneRestoreIn(operations) /\ ~RestoreIn(operations)
  BY <1>2 DEF OneRestoreIn, RestoreIn
<1> QED BY <1>1, <1>6, <1>7, <1>8 DEF RestoreInv, PlaceInv, GapInv, GoneInv

LEMMA MainStepsRestore ==
    ASSUME Known, RestoreInv,
           \/ ReadPty \/ Output \/ AnswerAttach \/ Subscribe \/ OpenSocket \/ AttachReply \/ AttachFails
           \/ Forward \/ SocketClosed \/ \E p \in posts : ServeCheckpoint(p)
    PROVE  RestoreInv'
<1>1. UNCHANGED paneVars
  BY DEF ReadPty, Output, AnswerAttach, Subscribe, OpenSocket, AttachReply, AttachFails, Forward, SocketClosed,
         ServeCheckpoint
<1>2. /\ UNCHANGED <<mount, applied, restoring, restoreAgain, resyncRequested, paneError>>
      /\ transitions' = transitions /\ operations' = operations /\ captures' = captures
  BY <1>1 DEF paneVars, reconciler, restoration, scheduler
<1>3. BehindQueue'
  BY <1>2 DEF BehindQueue, RestoreInv, GoneInv
<1>4. ~mounted => operations' = <<>>
  BY <1>2 DEF RestoreInv, GoneInv
<1> QED BY <1>2, <1>3, <1>4, RestoreKept, ChainUntouched, QueueUntouched

LEMMA ReceiveRestore ==
    ASSUME Known, FlowInv, RestoreInv, Receive
    PROVE  RestoreInv'
<1> DEFINE e == Head(channel)
           n == lastSequence
<1>1. /\ channel # <<>> /\ mounted' = mounted /\ pane' = pane /\ applied' = applied
      /\ resyncRequested' = resyncRequested
      /\ ReceiveOutput \/ ReceiveRequest \/ ReceiveResync \/ ReceiveSnapshot \/ ReceiveFailure
  BY DEF Receive, mount
<1>2. /\ n \in Nat /\ transitions \in Seq(Transitions(n)) /\ operations \in Seq(Operations(n))
      /\ Len(operations) \in Nat
  BY KnownParts
<1>3. OneAttachIn(transitions, pane) /\ OneRestoreIn(operations) /\ (~mounted => operations = <<>>)
  BY DEF RestoreInv, PlaceInv, GoneInv
<1>4. UNCHANGED captures /\ Len(operations') \in Nat /\ Len(operations') >= Len(operations) => BehindQueue'
  BY BehindKept
<1>5. CASE ReceiveOutput
  <2>1. /\ e.event = "output" /\ operations' = IF mounted THEN Enqueued(e.sequence) ELSE operations
        /\ UNCHANGED <<restoring, restoreAgain, transitions, paneError, captures>>
    BY <1>5 DEF ReceiveOutput
  <2>2. e.sequence \in 1 .. n
    BY <1>1, <2>1, EventFacts
  <2>3. QueueSame /\ Len(operations') >= Len(operations) /\ Len(operations') \in Nat
    <3>1. CASE mounted
      <4>1. operations' = Enqueued(e.sequence)
        BY <2>1, <3>1
      <4> HIDE DEF e
      <4>2. Len(operations') \in Nat
        BY <1>2, <2>2, <4>1, EnqueuedKnown
      <4> QED BY <1>3, <2>2, <4>1, <4>2, RestoreEnqueued
    <3>2. CASE ~mounted
      <4>1. operations' = operations
        BY <2>1, <3>2
      <4> QED BY <1>2, <4>1, QueueUntouched
    <3> QED BY <3>1, <3>2
  <2>4. BehindQueue' /\ ChainSame
    BY <1>4, <2>1, <2>3, ChainUntouched
  <2> QED BY <1>1, <1>3, <2>1, <2>3, <2>4, RestoreKept DEF mount
<1>6. CASE ReceiveRequest
  <2>1. /\ ScheduleFlush \/ UNCHANGED captures
        /\ UNCHANGED <<operations, restoring, restoreAgain, transitions, paneError>>
    BY <1>6 DEF ReceiveRequest, scheduler
  <2>2. BehindQueue'
    <3>1. Len(operations') \in Nat /\ Len(operations') >= Len(operations)
      BY <1>2, <2>1
    <3> QED BY <2>1, <3>1, BehindKept
  <2>3. ChainSame /\ QueueSame
    BY <2>1, ChainUntouched, QueueUntouched
  <2> QED BY <1>1, <1>3, <2>1, <2>2, <2>3, RestoreKept DEF mount
<1>7. CASE ReceiveResync
  <2>1. UNCHANGED <<operations, restoreAgain, paneError, captures>>
    BY <1>7 DEF ReceiveResync, scheduler
  <2>2. BehindQueue' /\ QueueSame
    <3>1. Len(operations') \in Nat /\ Len(operations') >= Len(operations)
      BY <1>2, <2>1
    <3> QED BY <1>4, <2>1, <3>1, QueueUntouched
  <2>3. CASE mounted /\ restoring = "no"
    <3>1. Restore(TRUE, transitions)
      BY <1>7, <2>3 DEF ReceiveResync
    <3>2. ~AttachIn(transitions, pane) /\ ~RestoreIn(operations)
      BY <2>3 DEF RestoreInv, PlaceInv
    <3>3. OneAttachIn(transitions', pane) /\ AttachIn(transitions', pane) /\ restoring' = "attaching"
      BY <1>2, <1>3, <3>1, <3>2, RestoreAttaches
    <3>4. PlaceInv' /\ GapInv'
      BY <1>1, <1>3, <2>1, <2>2, <3>2, <3>3 DEF PlaceInv, GapInv, QueueSame
    <3>5. GoneInv'
      BY <1>1, <2>2, <2>3 DEF GoneInv, BehindQueue
    <3> QED BY <3>4, <3>5 DEF RestoreInv
  <2>4. CASE ~ (mounted /\ restoring = "no")
    <3>1. UNCHANGED <<restoring, transitions>>
      BY <1>7, <2>4 DEF ReceiveResync
    <3> QED BY <1>1, <1>3, <2>1, <2>2, <3>1, RestoreKept, ChainUntouched DEF mount
  <2> QED BY <2>3, <2>4
<1>8. ASSUME e.event = "attached"
      PROVE  transitions # <<>> /\ Head(transitions).kind = "attach" /\ e.pane = Head(transitions).pane
  <2>1. e = channel[1] /\ 1 \in 1 .. Len(channel)
    BY <1>1, EventFacts, KnownParts
  <2>2. exchange.phase = "replied" /\ e.pane = Head(transitions).pane
    BY <1>8, <2>1 DEF FlowInv, AnswerInv
  <2> QED BY <2>2 DEF FlowInv, AttachUnderWay, Attaching
<1>9. ASSUME e.event = "attached"
      PROVE  /\ OneAttachIn(Tail(transitions), pane) /\ Tail(transitions) \in Seq(Transitions(n))
             /\ IsCurrent(e) => /\ mounted /\ restoring = "attaching" /\ ~RestoreIn(operations)
                                /\ ~AttachIn(Tail(transitions), pane)
             /\ mounted /\ ~IsCurrent(e) =>
                  (AttachIn(Tail(transitions), pane) <=> AttachIn(transitions, pane))
  <2>1. Tail(transitions) \in Seq(Transitions(n))
    BY <1>2, <1>8, <1>9, TailFacts
  <2>2. /\ OneAttachIn(Tail(transitions), pane)
        /\ Head(transitions).pane = pane =>
             AttachIn(transitions, pane) /\ ~AttachIn(Tail(transitions), pane)
        /\ Head(transitions).pane # pane =>
             (AttachIn(Tail(transitions), pane) <=> AttachIn(transitions, pane))
    BY <1>2, <1>3, <1>8, <1>9, AttachRemoved
  <2> QED BY <1>8, <1>9, <2>1, <2>2 DEF IsCurrent, RestoreInv, PlaceInv
<1>10. CASE ReceiveSnapshot
  <2>1. /\ e.event = "attached" /\ e.ok /\ transitions' = Tail(transitions)
        /\ UNCHANGED <<restoreAgain, captures>>
    BY <1>10 DEF ReceiveSnapshot, scheduler
  <2>2. CASE IsCurrent(e)
    <3>1. /\ operations' = Append(operations, Restoration(e.snapshot))
          /\ restoring' = "applying" /\ paneError' = FALSE
      BY <1>10, <2>2 DEF ReceiveSnapshot
    <3>2. e.snapshot \in Snapshots(n)
      BY <1>1, <2>1, EventFacts
    <3> DEFINE o == Restoration(e.snapshot)
    <3>3. o \in Operations(n) /\ o.kind = "restore" /\ ~o.started
      BY <1>2, <3>2, NewOperations DEF Restoration
    <3>4. operations' = Append(operations, o)
      BY <3>1
    <3>5. mounted /\ ~RestoreIn(operations) /\ ~AttachIn(transitions', pane) /\ OneAttachIn(transitions', pane)
      BY <1>9, <2>1, <2>2
    <3> HIDE DEF o
    <3>6. OneRestoreIn(operations') /\ RestoreWaits(operations')
      BY <1>2, <1>3, <3>3, <3>4, <3>5, RestoreAppended
    <3>7. BehindQueue'
      <4>1. Len(operations') = Len(operations) + 1
        BY <1>2, <3>3, <3>4, AppendFacts
      <4>2. Len(operations') \in Nat /\ Len(operations') >= Len(operations)
        BY <1>2, <4>1
      <4> QED BY <1>4, <2>1, <4>2
    <3>8. PlaceInv' /\ GapInv'
      BY <1>1, <3>1, <3>5, <3>6 DEF PlaceInv, GapInv
    <3>9. GoneInv'
      BY <1>1, <3>5, <3>7 DEF GoneInv, BehindQueue
    <3> QED BY <3>8, <3>9 DEF RestoreInv
  <2>3. CASE ~IsCurrent(e)
    <3>1. UNCHANGED <<operations, restoring, paneError>>
      BY <1>10, <2>3 DEF ReceiveSnapshot
    <3>2. BehindQueue'
      BY <1>2, <1>4, <2>1, <3>1
    <3>3. PlaceInv'
      BY <1>1, <1>3, <1>9, <2>1, <2>3, <3>1 DEF RestoreInv, PlaceInv
    <3>4. GapInv' /\ GoneInv'
      BY <1>1, <2>1, <3>1, <3>2 DEF RestoreInv, GapInv, GoneInv, BehindQueue
    <3> QED BY <3>3, <3>4 DEF RestoreInv
  <2> QED BY <2>2, <2>3
<1>11. CASE ReceiveFailure
  <2>1. e.event = "attached" /\ ~e.ok /\ UNCHANGED <<operations, captures>>
    BY <1>11 DEF ReceiveFailure, scheduler
  <2>2. BehindQueue'
    BY <1>2, <1>4, <2>1
  <2>3. CASE ~IsCurrent(e)
    <3>1. transitions' = Tail(transitions) /\ UNCHANGED <<restoring, restoreAgain, paneError>>
      BY <1>11, <2>3 DEF ReceiveFailure
    <3>2. PlaceInv'
      BY <1>1, <1>3, <1>9, <2>1, <2>3, <3>1 DEF RestoreInv, PlaceInv
    <3>3. GapInv' /\ GoneInv'
      BY <1>1, <2>1, <3>1, <2>2 DEF RestoreInv, GapInv, GoneInv, BehindQueue
    <3> QED BY <3>2, <3>3 DEF RestoreInv
  <2>4. CASE IsCurrent(e)
    <3>1. /\ paneError' = TRUE /\ restoreAgain' = FALSE
          /\ \/ Restore(TRUE, Tail(transitions))
             \/ restoring' = "no" /\ transitions' = Tail(transitions)
      BY <1>11, <2>4 DEF ReceiveFailure
    <3>2. /\ mounted /\ ~RestoreIn(operations) /\ ~AttachIn(Tail(transitions), pane)
          /\ OneAttachIn(Tail(transitions), pane) /\ Tail(transitions) \in Seq(Transitions(n))
      BY <1>9, <2>1, <2>4
    <3>3. /\ OneAttachIn(transitions', pane)
          /\ restoring' = "attaching" <=> AttachIn(transitions', pane)
      <4>1. CASE Restore(TRUE, Tail(transitions))
        BY <3>2, <4>1, RestoreAttaches
      <4>2. CASE restoring' = "no" /\ transitions' = Tail(transitions)
        BY <3>2, <4>2
      <4> QED BY <3>1, <4>1, <4>2
    <3>4. PlaceInv' /\ GapInv' /\ GoneInv'
      BY <1>1, <1>3, <2>1, <2>2, <3>1, <3>2, <3>3 DEF PlaceInv, GapInv, GoneInv, BehindQueue
    <3> QED BY <3>4 DEF RestoreInv
  <2> QED BY <2>3, <2>4
<1> QED BY <1>1, <1>5, <1>6, <1>7, <1>10, <1>11

\* The head of the queue starts, or goes on with its writes.
LEMMA HeadStarts ==
    ASSUME Known, operations # <<>>, NEW ws
    PROVE  LET h == [Head(operations) EXCEPT !.started = TRUE, !.writes = ws]
           IN /\ [operations EXCEPT ![1].started = TRUE, ![1].writes = ws] = [operations EXCEPT ![1] = h]
              /\ [operations EXCEPT ![1].started = TRUE, ![1].writes = ws, ![1].short = FALSE]
                    = [operations EXCEPT ![1] = h]
              /\ h.kind = Head(operations).kind /\ h.chunks = Head(operations).chunks
              /\ h.snapshot = Head(operations).snapshot /\ h.started = TRUE /\ h.writes = ws
<1> DEFINE o == Head(operations)
           h == [o EXCEPT !.started = TRUE, !.writes = ws]
<1>1. o \in Operations(lastSequence) /\ o = operations[1] /\ o.short = FALSE
  BY KnownParts, TailFacts, OperationFacts
<1>2. [operations EXCEPT ![1].started = TRUE, ![1].writes = ws] = [operations EXCEPT ![1] = h]
  BY <1>1, KnownParts
<1>3. [operations EXCEPT ![1].started = TRUE, ![1].writes = ws, ![1].short = FALSE]
        = [operations EXCEPT ![1] = [o EXCEPT !.started = TRUE, !.writes = ws, !.short = FALSE]]
  BY <1>1, KnownParts
<1>4. [o EXCEPT !.started = TRUE, !.writes = ws, !.short = FALSE] = h
  BY <1>1 DEF Operations
<1>5. h.kind = o.kind /\ h.chunks = o.chunks /\ h.snapshot = o.snapshot /\ h.started = TRUE /\ h.writes = ws
  BY <1>1 DEF Operations
<1> QED BY <1>2, <1>3, <1>4, <1>5

LEMMA HeadReplaced ==
    ASSUME Known, operations # <<>>, NEW h, operations' = [operations EXCEPT ![1] = h]
    PROVE  /\ Len(operations') = Len(operations) /\ Len(operations) \in Nat \ {0}
           /\ operations'[1] = h /\ Head(operations') = h /\ operations' # <<>>
           /\ \A i \in 2 .. Len(operations) : operations'[i] = operations[i]
<1>1. Len(operations) \in Nat \ {0} /\ operations \in Seq(Operations(lastSequence))
  BY KnownParts
<1>2. Len(operations') = Len(operations) /\ operations'[1] = h /\ operations' # <<>>
  BY <1>1
<1>3. Head(operations') = operations'[1]
  BY <1>1
<1> QED BY <1>1, <1>2, <1>3

\* What starts at the head of the queue.
LEMMA BatchStarts ==
    ASSUME Known, StartOperation, StartBatch
    PROVE  LET o == Head(operations)
               reached == Contiguous(applied, o.chunks)
           IN /\ o.kind = "batch" /\ UNCHANGED <<screen, applied>>
              /\ reached.at \in applied .. lastSequence /\ reached.gap \in BOOLEAN
              /\ \/ reached.at = applied /\ OperationEnds
                 \/ \E h : /\ operations' = [operations EXCEPT ![1] = h] /\ captures' = captures
                           /\ reached.at > applied
                           /\ h.kind = "batch" /\ h.chunks = o.chunks /\ h.started = TRUE
                           /\ h.writes[1].upTo = reached.at
              /\ reached.gap => RequestResync
              /\ ~reached.gap => UNCHANGED <<resyncRequested, restoring, transitions, restoreAgain>>
<1> DEFINE n == lastSequence
           o == Head(operations)
           reached == Contiguous(applied, o.chunks)
           ws == <<Write(applied + 1 .. reached.at, reached.at)>>
           h == [o EXCEPT !.started = TRUE, !.writes = ws]
<1>1. /\ o.kind = "batch" /\ UNCHANGED <<screen, applied>> /\ operations # <<>>
      /\ IF reached.at = applied THEN OperationEnds
         ELSE operations' = [operations EXCEPT ![1].started = TRUE, ![1].writes = ws] /\ UNCHANGED captures
      /\ IF reached.gap THEN RequestResync
         ELSE UNCHANGED <<resyncRequested, restoring, transitions, restoreAgain>>
  BY DEF StartOperation, StartBatch
<1>2. /\ applied \in Nat /\ o.chunks \in Seq(Nat) /\ n \in Nat /\ applied <= n
      /\ \A i \in 1 .. Len(o.chunks) : o.chunks[i] <= n
  <2>1. o \in Operations(n) /\ applied \in 0 .. n /\ n \in Nat
    BY <1>1, KnownParts, TailFacts
  <2>2. o.chunks \in Seq(Nat) /\ Pieces(o) \subseteq 1 .. n
    BY <2>1, OperationFacts
  <2> QED BY <2>1, <2>2 DEF Pieces
<1>3. reached.at \in Nat /\ applied <= reached.at /\ reached.gap \in BOOLEAN
  BY <1>2, ContiguousFacts, Zenon
<1>4. reached.at <= n
  BY <1>2, ContiguousFacts, Zenon
<1>5. /\ [operations EXCEPT ![1].started = TRUE, ![1].writes = ws] = [operations EXCEPT ![1] = h]
      /\ h.kind = o.kind /\ h.chunks = o.chunks /\ h.started = TRUE /\ h.writes = ws
  BY <1>1, HeadStarts, Zenon
<1>6. ws[1].upTo = reached.at
  BY DEF Write
<1> HIDE DEF reached, ws, h
<1>7. reached.at # applied => reached.at > applied
  BY <1>2, <1>3
<1>8. reached.at \in applied .. n
  BY <1>2, <1>3, <1>4
<1>9. \/ reached.at = applied /\ OperationEnds
      \/ \E g : /\ operations' = [operations EXCEPT ![1] = g] /\ captures' = captures
                /\ reached.at > applied
                /\ g.kind = "batch" /\ g.chunks = o.chunks /\ g.started = TRUE
                /\ g.writes[1].upTo = reached.at
  <2>1. CASE reached.at = applied
    BY <1>1, <2>1
  <2>2. CASE reached.at # applied
    <3>1. operations' = [operations EXCEPT ![1] = h] /\ captures' = captures
      BY <1>1, <1>5, <2>2
    <3>2. h.kind = "batch" /\ h.chunks = o.chunks /\ h.started = TRUE /\ h.writes[1].upTo = reached.at
      BY <1>1, <1>5, <1>6
    <3> QED BY <1>7, <2>2, <3>1, <3>2
  <2> QED BY <2>1, <2>2
<1>10. /\ reached.gap => RequestResync
       /\ ~reached.gap => UNCHANGED <<resyncRequested, restoring, transitions, restoreAgain>>
  BY <1>1
<1> QED BY <1>1, <1>3, <1>8, <1>9, <1>10 DEF reached

LEMMA RestorationStarts ==
    ASSUME Known, StartOperation, StartRestoration
    PROVE  LET o == Head(operations)
           IN /\ o.kind = "restore" /\ o.snapshot \in Snapshots(lastSequence)
              /\ o.snapshot.lastSequence \in 0 .. lastSequence
              /\ UNCHANGED transitions
              /\ \/ OperationEnds /\ RestorationEnds(FALSE) /\ applied' = o.snapshot.lastSequence
                 \/ \E h : /\ operations' = [operations EXCEPT ![1] = h]
                           /\ UNCHANGED <<captures, restoring, restoreAgain>> /\ resyncRequested' = FALSE
                           /\ h.kind = "restore" /\ h.chunks = o.chunks /\ h.snapshot = o.snapshot
                           /\ h.started = TRUE
<1> DEFINE n == lastSequence
           o == Head(operations)
           s == o.snapshot
           ws == RestoreWrites(s)
           h == [o EXCEPT !.started = TRUE, !.writes = ws]
<1>1. /\ o.kind = "restore" /\ UNCHANGED transitions /\ operations # <<>>
      /\ applied' = IF Checkpointed(s) THEN applied
                    ELSE IF s.complete THEN BaseOf(s) ELSE EndOf(s)
      /\ IF ws = <<>>
         THEN OperationEnds /\ RestorationEnds(Short(s))
         ELSE /\ operations' = [operations EXCEPT ![1].started = TRUE, ![1].writes = ws, ![1].short = Short(s)]
              /\ resyncRequested' = FALSE
              /\ UNCHANGED <<captures, restoring, restoreAgain>>
  BY DEF StartOperation, StartRestoration
<1>2. n \in Nat /\ o \in Operations(n)
  BY <1>1, KnownParts, TailFacts
<1>3. s \in Snapshots(n) /\ s.lastSequence \in 0 .. n
  BY <1>1, <1>2, OperationFacts DEF Snapshots
<1>4. /\ Short(s) = FALSE
      /\ ws = <<>> => ~Checkpointed(s) /\ (IF s.complete THEN BaseOf(s) ELSE EndOf(s)) = s.lastSequence
  <2>1. Short(s) \in BOOLEAN
    BY DEF Short
  <2> QED BY <2>1, <1>2, <1>3, ReplayFacts
<1>5. /\ [operations EXCEPT ![1].started = TRUE, ![1].writes = ws, ![1].short = FALSE]
            = [operations EXCEPT ![1] = h]
      /\ h.kind = o.kind /\ h.chunks = o.chunks /\ h.snapshot = s /\ h.started = TRUE
  BY <1>1, HeadStarts, Zenon
<1> HIDE DEF ws, h
<1>6. CASE ws = <<>>
  <2>1. OperationEnds /\ RestorationEnds(FALSE) /\ applied' = s.lastSequence
    BY <1>1, <1>4, <1>6
  <2> QED BY <1>1, <1>3, <2>1
<1>7. CASE ws # <<>>
  <2>1. /\ operations' = [operations EXCEPT ![1] = h]
        /\ UNCHANGED <<captures, restoring, restoreAgain>> /\ resyncRequested' = FALSE
    BY <1>1, <1>4, <1>5, <1>7
  <2>2. h.kind = "restore" /\ h.chunks = o.chunks /\ h.snapshot = o.snapshot /\ h.started = TRUE
    BY <1>1, <1>5
  <2> QED BY <1>1, <1>3, <2>1, <2>2
<1> QED BY <1>6, <1>7

\* What xterm has parsed.
LEMMA Parsed ==
    ASSUME Known, Parse
    PROVE  LET o == Head(operations)
           IN /\ operations # <<>> /\ o.started /\ o \in Operations(lastSequence)
              /\ \A c \in captures : c.behind > 0
              /\ applied' = o.writes[1].upTo
              /\ UNCHANGED <<outside, mount, orphan, paneError, transitions, needsFlush, timer, posts>>
              /\ \/ /\ o.kind = "restore"
                    /\ \E h : /\ operations' = [operations EXCEPT ![1] = h]
                              /\ h.kind = o.kind /\ h.chunks = o.chunks /\ h.snapshot = o.snapshot
                              /\ h.started = TRUE
                    /\ UNCHANGED <<captures, restoring, resyncRequested, restoreAgain>>
                 \/ /\ OperationEnds /\ o.kind = "restore" /\ RestorationEnds(FALSE)
                    /\ applied' = o.snapshot.lastSequence
                 \/ /\ OperationEnds /\ o.kind = "batch"
                    /\ UNCHANGED <<restoring, resyncRequested, restoreAgain>>
<1> DEFINE n == lastSequence
           o == Head(operations)
           rest == Tail(o.writes)
           h == [o EXCEPT !.started = TRUE, !.writes = rest]
<1>1. /\ operations # <<>> /\ o.started /\ (\A c \in captures : c.behind > 0)
      /\ applied' = Head(o.writes).upTo
      /\ UNCHANGED <<outside, mount, orphan, paneError, transitions, needsFlush, timer, posts>>
      /\ IF Len(o.writes) > 1
         THEN /\ operations' = [operations EXCEPT ![1].writes = Tail(@)]
              /\ UNCHANGED <<captures, restoring, resyncRequested, restoreAgain>>
         ELSE /\ OperationEnds
              /\ IF o.kind = "restore" THEN RestorationEnds(o.short)
                 ELSE UNCHANGED <<restoring, resyncRequested, restoreAgain>>
  BY DEF Parse, Settled
<1>2. n \in Nat /\ o \in Operations(n) /\ o = operations[1] /\ operations \in Seq(Operations(n))
  BY <1>1, KnownParts, TailFacts
<1>3. /\ o.kind \in {"batch", "restore"} /\ o.short = FALSE /\ o.writes \in Seq(Writes(n)) /\ o.writes # <<>>
      /\ o.kind = "batch" => Len(o.writes) = 1
      /\ o.kind = "restore" => o.writes[Len(o.writes)].upTo = o.snapshot.lastSequence
  BY <1>1, <1>2, OperationFacts
<1>4. Head(o.writes) = o.writes[1] /\ Len(o.writes) \in Nat \ {0}
  BY <1>3, TailFacts
<1>5. CASE Len(o.writes) > 1
  <2>1. operations' = [operations EXCEPT ![1] = [o EXCEPT !.writes = rest]]
    <3>1. operations' = [operations EXCEPT ![1].writes = Tail(@)] /\ 1 \in DOMAIN operations
      BY <1>1, <1>2, <1>5
    <3>2. operations[1] = o /\ Tail(operations[1].writes) = rest
      BY <1>2
    <3> HIDE DEF o, rest
    <3> QED BY <3>1, <3>2
  <2>2. [o EXCEPT !.writes = rest].kind = o.kind /\ [o EXCEPT !.writes = rest].chunks = o.chunks
        /\ [o EXCEPT !.writes = rest].snapshot = o.snapshot /\ [o EXCEPT !.writes = rest].started = o.started
    BY <1>2 DEF Operations
  <2>3. o.kind = "restore" /\ o.started = TRUE
    <3>1. o.kind # "batch"
      <4>1. ~ (1 > 1)
        OBVIOUS
      <4> QED BY <1>3, <1>5, <4>1, Zenon
    <3>2. o.started \in BOOLEAN /\ o.started
      BY <1>1, <1>2, OperationFacts
    <3>3. o.started = TRUE
      BY <3>2, Zenon
    <3> QED BY <1>3, <3>1, <3>3
  <2> QED BY <1>1, <1>2, <1>4, <1>5, <2>1, <2>2, <2>3
<1>6. CASE ~ (Len(o.writes) > 1)
  <2>1. Len(o.writes) = 1
    <3>1. PICK k \in Nat \ {0} : k = Len(o.writes)
      BY <1>4
    <3>2. ~ (k > 1)
      BY <1>6, <3>1
    <3>3. k = 1
      BY <3>2
    <3> QED BY <3>1, <3>3
  <2>2. o.kind = "restore" => applied' = o.snapshot.lastSequence
    BY <1>1, <1>3, <1>4, <2>1
  <2>3. IF o.kind = "restore" THEN RestorationEnds(FALSE)
        ELSE UNCHANGED <<restoring, resyncRequested, restoreAgain>>
    BY <1>1, <1>3, <1>6
  <2> QED BY <1>1, <1>2, <1>3, <1>4, <1>6, <2>2, <2>3
<1> QED BY <1>5, <1>6

\* requestResync() while the pane is mounted.
LEMMA ResyncRestores ==
    ASSUME Known, RestoreInv, mounted, RequestResync
    PROVE  /\ OneAttachIn(transitions', pane)
           /\ restoring' = "attaching" <=> AttachIn(transitions', pane)
           /\ restoring = "applying" => restoring' = "applying"
           /\ RestoreIn(operations) => restoring' = "applying"
           /\ restoreAgain' => restoring' # "no"
           /\ resyncRequested' = TRUE
           /\ ~resyncRequested => restoreAgain' \/ restoring' = "attaching"
           /\ resyncRequested => UNCHANGED <<restoring, restoreAgain>>
<1>1. /\ OneAttachIn(transitions, pane) /\ (restoring = "attaching" <=> AttachIn(transitions, pane))
      /\ transitions \in Seq(Transitions(lastSequence)) /\ (restoreAgain => restoring # "no")
      /\ (RestoreIn(operations) => restoring = "applying")
  BY KnownParts DEF RestoreInv, PlaceInv, GapInv
<1>2. CASE resyncRequested
  BY <1>1, <1>2 DEF RequestResync
<1>3. CASE ~resyncRequested /\ restoring = "no"
  <2>1. Restore(TRUE, transitions) /\ UNCHANGED restoreAgain /\ resyncRequested' = TRUE
    BY <1>3 DEF RequestResync
  <2>2. ~AttachIn(transitions, pane)
    BY <1>1, <1>3
  <2>3. OneAttachIn(transitions', pane) /\ AttachIn(transitions', pane) /\ restoring' = "attaching"
    BY <1>1, <2>1, <2>2, RestoreAttaches
  <2> QED BY <1>1, <1>3, <2>1, <2>3
<1>4. CASE ~resyncRequested /\ restoring # "no"
  BY <1>1, <1>4 DEF RequestResync
<1> QED BY <1>2, <1>3, <1>4

\* The restoration at the head of the queue ends.
LEMMA RestorationEnded ==
    ASSUME Known, RestoreInv, operations # <<>>, Head(operations).kind = "restore",
           \A c \in captures : c.behind > 0, OperationEnds, RestorationEnds(FALSE),
           UNCHANGED <<pane, mounted, transitions, paneError>>
    PROVE  RestoreInv'
<1>1. OneRestoreIn(operations) /\ operations' = Tail(operations)
  BY DEF RestoreInv, PlaceInv, OperationEnds
<1>2. OneRestoreIn(operations') /\ RestoreIn(operations) /\ ~RestoreIn(operations')
  BY <1>1, RestoreRemoved
<1>3. BehindQueue' /\ mounted
  BY BehindEnds DEF RestoreInv, GoneInv
<1>4. restoring' = "sizing" /\ resyncRequested' = FALSE
  BY DEF RestorationEnds
<1>5. mounted => ~AttachIn(transitions, pane)
  BY <1>2 DEF RestoreInv, PlaceInv
<1>6. PlaceInv'
  BY <1>2, <1>3, <1>4, <1>5 DEF RestoreInv, PlaceInv
<1>7. GapInv' /\ GoneInv'
  BY <1>3, <1>4 DEF GapInv, GoneInv, BehindQueue
<1> QED BY <1>6, <1>7 DEF RestoreInv

LEMMA StartRestore ==
    ASSUME Known, RestoreInv, StartOperation
    PROVE  RestoreInv'
<1> DEFINE o == Head(operations)
<1>1. /\ operations # <<>> /\ ~o.started /\ (\A c \in captures : c.behind > 0)
      /\ mounted' = mounted /\ pane' = pane /\ paneError' = paneError
      /\ StartBatch \/ StartRestoration
  BY DEF StartOperation, mount
<1>2. /\ OneRestoreIn(operations) /\ OneAttachIn(transitions, pane) /\ mounted
      /\ \A c \in captures : c.behind <= Len(operations)
  BY <1>1 DEF RestoreInv, PlaceInv, GoneInv
<1>3. CASE StartBatch
  <2>1. /\ o.kind = "batch" /\ applied' = applied
        /\ \/ OperationEnds
           \/ \E h : operations' = [operations EXCEPT ![1] = h] /\ captures' = captures /\ h.kind = "batch"
        /\ RequestResync \/ UNCHANGED <<resyncRequested, restoring, transitions, restoreAgain>>
    BY <1>3, BatchStarts
  <2>2. QueueSame /\ BehindQueue'
    <3>1. CASE OperationEnds
      <4>1. operations' = Tail(operations)
        BY <3>1 DEF OperationEnds
      <4>2. QueueSame
        BY <1>1, <1>2, <2>1, <4>1, RestoreRemoved
      <4> QED BY <1>1, <3>1, <4>2, BehindEnds
    <3>2. CASE \E h : operations' = [operations EXCEPT ![1] = h] /\ captures' = captures /\ h.kind = "batch"
      <4>1. PICK h : operations' = [operations EXCEPT ![1] = h] /\ captures' = captures /\ h.kind = "batch"
        BY <3>2
      <4>2. QueueSame /\ Len(operations') = Len(operations)
        BY <1>1, <1>2, <2>1, <4>1, RestoreReplaced
      <4> QED BY <1>2, <4>1, <4>2 DEF BehindQueue
    <3> QED BY <2>1, <3>1, <3>2
  <2>3. CASE RequestResync
    <3>1. /\ OneAttachIn(transitions', pane)
          /\ restoring' = "attaching" <=> AttachIn(transitions', pane)
          /\ RestoreIn(operations) => restoring' = "applying"
          /\ restoreAgain' => restoring' # "no"
          /\ resyncRequested' = TRUE
          /\ ~resyncRequested => restoreAgain' \/ restoring' = "attaching"
          /\ resyncRequested => UNCHANGED <<restoring, restoreAgain>>
      BY <1>2, <2>3, ResyncRestores
    <3>2. PlaceInv'
      BY <1>1, <2>2, <3>1 DEF PlaceInv, QueueSame
    <3>3. GapInv'
      BY <1>1, <2>2, <3>1 DEF RestoreInv, GapInv, QueueSame
    <3>4. GoneInv'
      BY <1>1, <1>2, <2>2 DEF GoneInv, BehindQueue
    <3> QED BY <3>2, <3>3, <3>4 DEF RestoreInv
  <2>4. CASE UNCHANGED <<resyncRequested, restoring, transitions, restoreAgain>>
    BY <1>1, <1>2, <2>1, <2>2, <2>4, RestoreKept, ChainUntouched DEF mount
  <2> QED BY <2>1, <2>3, <2>4
<1>4. CASE StartRestoration
  <2>1. /\ o.kind = "restore" /\ UNCHANGED transitions
        /\ \/ OperationEnds /\ RestorationEnds(FALSE)
           \/ \E h : /\ operations' = [operations EXCEPT ![1] = h]
                     /\ UNCHANGED <<captures, restoring, restoreAgain>> /\ resyncRequested' = FALSE
                     /\ h.kind = "restore"
    BY <1>4, RestorationStarts
  <2>2. CASE OperationEnds /\ RestorationEnds(FALSE)
    BY <1>1, <2>1, <2>2, RestorationEnded
  <2>3. CASE \E h : /\ operations' = [operations EXCEPT ![1] = h]
                    /\ UNCHANGED <<captures, restoring, restoreAgain>> /\ resyncRequested' = FALSE
                    /\ h.kind = "restore"
    <3>1. PICK h : /\ operations' = [operations EXCEPT ![1] = h]
                   /\ UNCHANGED <<captures, restoring, restoreAgain>> /\ resyncRequested' = FALSE
                   /\ h.kind = "restore"
      BY <2>3
    <3>2. /\ OneRestoreIn(operations') /\ (RestoreIn(operations') => RestoreIn(operations))
          /\ Len(operations') = Len(operations)
      BY <1>1, <1>2, <2>1, <3>1, RestoreReplaced
    <3>3. PlaceInv' /\ GapInv'
      BY <1>1, <1>2, <2>1, <3>1, <3>2 DEF RestoreInv, PlaceInv, GapInv
    <3>4. GoneInv'
      BY <1>1, <1>2, <3>1, <3>2 DEF GoneInv
    <3> QED BY <3>3, <3>4 DEF RestoreInv
  <2> QED BY <2>1, <2>2, <2>3
<1> QED BY <1>1, <1>3, <1>4

LEMMA ParseRestore ==
    ASSUME Known, RestoreInv, Parse
    PROVE  RestoreInv'
<1> DEFINE o == Head(operations)
<1>1. /\ operations # <<>> /\ o.started /\ (\A c \in captures : c.behind > 0)
      /\ mounted' = mounted /\ pane' = pane /\ paneError' = paneError /\ transitions' = transitions
      /\ \/ /\ \E h : operations' = [operations EXCEPT ![1] = h] /\ h.kind = o.kind
            /\ UNCHANGED <<captures, restoring, resyncRequested, restoreAgain>>
         \/ OperationEnds /\ o.kind = "restore" /\ RestorationEnds(FALSE)
         \/ OperationEnds /\ o.kind = "batch" /\ UNCHANGED <<restoring, resyncRequested, restoreAgain>>
  BY Parsed DEF mount
<1>2. /\ OneRestoreIn(operations) /\ OneAttachIn(transitions, pane) /\ mounted
      /\ \A c \in captures : c.behind <= Len(operations)
  BY <1>1 DEF RestoreInv, PlaceInv, GoneInv
<1>3. ASSUME QueueSame, BehindQueue', UNCHANGED <<restoring, resyncRequested, restoreAgain>>
      PROVE  RestoreInv'
  <2>1. PlaceInv'
    BY <1>1, <1>2, <1>3 DEF RestoreInv, PlaceInv, QueueSame
  <2>2. GapInv' /\ GoneInv'
    BY <1>1, <1>2, <1>3 DEF RestoreInv, GapInv, GoneInv, QueueSame, BehindQueue
  <2> QED BY <2>1, <2>2 DEF RestoreInv
<1>4. CASE /\ \E h : operations' = [operations EXCEPT ![1] = h] /\ h.kind = o.kind
           /\ UNCHANGED <<captures, restoring, resyncRequested, restoreAgain>>
  <2>1. PICK h : operations' = [operations EXCEPT ![1] = h] /\ h.kind = o.kind
    BY <1>4
  <2>2. QueueSame /\ Len(operations') = Len(operations)
    BY <1>1, <1>2, <2>1, RestoreReplaced
  <2>3. BehindQueue'
    BY <1>2, <1>4, <2>2 DEF BehindQueue
  <2> QED BY <1>3, <1>4, <2>2, <2>3
<1>5. CASE OperationEnds /\ o.kind = "restore" /\ RestorationEnds(FALSE)
  BY <1>1, <1>5, RestorationEnded
<1>6. CASE OperationEnds /\ o.kind = "batch" /\ UNCHANGED <<restoring, resyncRequested, restoreAgain>>
  <2>1. QueueSame
    BY <1>1, <1>2, <1>6, RestoreRemoved DEF OperationEnds
  <2>2. BehindQueue'
    BY <1>1, <1>6, BehindEnds
  <2> QED BY <1>3, <1>6, <2>1, <2>2
<1> QED BY <1>1, <1>4, <1>5, <1>6

\* Steps of the pane that leave its queue and its restore alone.
LEMMA ChainStepRestore ==
    ASSUME Known, RestoreInv, ChainSame, operations' = operations,
           UNCHANGED captures \/ BeginFlush \/ ScheduleFlush,
           UNCHANGED <<mount, applied, restoring, restoreAgain, resyncRequested, paneError>>
    PROVE  RestoreInv'
<1>1. Len(operations') \in Nat /\ Len(operations') >= Len(operations)
  BY KnownParts
<1>2. BehindQueue'
  BY <1>1, BehindKept
<1>3. QueueSame /\ (~mounted => operations' = <<>>)
  BY QueueUntouched DEF RestoreInv, GoneInv
<1> QED BY <1>2, <1>3, RestoreKept

\* A transition that is no attachment of the pane leaves the chain, or joins it.
LEMMA ChainLeft ==
    ASSUME Known, RestoreInv, transitions # <<>>, Head(transitions).kind # "attach",
           transitions' = Tail(transitions), pane' = pane
    PROVE  ChainSame
<1>1. /\ transitions \in Seq(Transitions(lastSequence)) /\ OneAttachIn(transitions, pane)
      /\ lastSequence \in Nat
  BY KnownParts DEF RestoreInv, PlaceInv
<1>2. OneAttachIn(Tail(transitions), pane) /\ (AttachIn(Tail(transitions), pane) <=> AttachIn(transitions, pane))
  BY <1>1, AttachRemoved
<1> QED BY <1>2 DEF ChainSame

LEMMA ChainJoined ==
    ASSUME Known, RestoreInv, NEW t \in Transitions(lastSequence), t.kind # "attach" \/ t.pane # pane,
           transitions' = Append(transitions, t), pane' = pane
    PROVE  ChainSame
<1>1. /\ transitions \in Seq(Transitions(lastSequence)) /\ OneAttachIn(transitions, pane)
      /\ lastSequence \in Nat
  BY KnownParts DEF RestoreInv, PlaceInv
<1>2. OneAttachIn(Append(transitions, t), pane)
      /\ (AttachIn(Append(transitions, t), pane) <=> AttachIn(transitions, pane))
  BY <1>1, AttachAppended
<1> QED BY <1>2 DEF ChainSame

LEMMA PaneStepsRestore ==
    ASSUME Known, FlowInv, RestoreInv,
           \/ Capture \/ TimerFires \/ FinishRestore \/ BeginCheckpoint \/ Unmount \/ Remount
           \/ OrphanAttach \/ SendLastCheckpoint \/ Detach
           \/ \E p \in posts : CheckpointAnswered(p)
    PROVE  RestoreInv'
<1> DEFINE n == lastSequence
           Others == UNCHANGED <<mount, applied, restoring, restoreAgain, resyncRequested, paneError>>
<1>1. /\ n \in Nat /\ transitions \in Seq(Transitions(n)) /\ pane \in Nat /\ pane >= 1
      /\ Len(operations) \in Nat /\ captures \subseteq Captures
  BY KnownParts
<1>2. OneAttachIn(transitions, pane) /\ OneRestoreIn(operations)
  BY DEF RestoreInv, PlaceInv
<1>3. CASE Capture
  <2>1. captures' \subseteq captures /\ UNCHANGED <<mount, reconciler, restoration, transitions>>
    BY <1>3 DEF Capture
  <2>2. Others /\ operations' = operations /\ ChainSame
    BY <2>1, ChainUntouched DEF reconciler, restoration
  <2>3. BehindQueue' /\ QueueSame /\ (~mounted => operations' = <<>>)
    BY <2>1, <2>2, QueueUntouched DEF BehindQueue, RestoreInv, GoneInv
  <2> QED BY <2>2, <2>3, RestoreKept
<1>4. CASE TimerFires
  <2>1. ScheduleFlush /\ UNCHANGED <<mount, reconciler, restoration, transitions>>
    BY <1>4 DEF TimerFires
  <2>2. Others /\ operations' = operations /\ ChainSame
    BY <2>1, ChainUntouched DEF reconciler, restoration
  <2> QED BY <2>1, <2>2, ChainStepRestore
<1>5. CASE FinishRestore
  <2> DEFINE more == Append(transitions, Recheckpoint)
  <2>1. /\ restoring = "sizing" /\ restoreAgain' = FALSE
        /\ IF restoreAgain THEN Restore(TRUE, more) ELSE restoring' = "no" /\ transitions' = more
        /\ mounted' = mounted /\ pane' = pane /\ operations' = operations /\ captures' = captures
        /\ resyncRequested' = resyncRequested /\ paneError' = paneError
    BY <1>5 DEF FinishRestore, mount, reconciler, scheduler
  <2>2. mounted /\ ~AttachIn(transitions, pane) /\ ~RestoreIn(operations)
    BY <2>1 DEF RestoreInv, PlaceInv, GoneInv
  <2>3. Recheckpoint \in Transitions(n) /\ Recheckpoint.kind # "attach"
    BY <1>1, NewTransitions DEF Recheckpoint, Transition
  <2>4. more \in Seq(Transitions(n)) /\ OneAttachIn(more, pane) /\ ~AttachIn(more, pane)
    <3>1. OneAttachIn(more, pane) /\ ~AttachIn(more, pane)
      BY <1>1, <1>2, <2>2, <2>3, AttachAppended
    <3>2. more \in Seq(Transitions(n))
      BY <1>1, <2>3, AppendFacts
    <3> QED BY <3>1, <3>2
  <2> HIDE DEF more
  <2>5. /\ OneAttachIn(transitions', pane)
        /\ restoring' = "attaching" <=> AttachIn(transitions', pane)
        /\ restoreAgain => restoring' = "attaching"
    <3>1. CASE restoreAgain
      BY <2>1, <2>4, <3>1, RestoreAttaches
    <3>2. CASE ~restoreAgain
      BY <2>1, <2>4, <3>2
    <3> QED BY <3>1, <3>2
  <2>6. ~RestoreWaits(operations)
    BY <2>2 DEF RestoreIn, RestoreWaits
  <2>7. PlaceInv'
    BY <1>2, <2>1, <2>2, <2>5 DEF PlaceInv
  <2>8. GapInv'
    BY <2>1, <2>5, <2>6 DEF RestoreInv, GapInv
  <2>9. GoneInv'
    BY <2>1, <2>2 DEF RestoreInv, GoneInv
  <2> QED BY <2>7, <2>8, <2>9 DEF RestoreInv
<1>6. CASE BeginCheckpoint
  <2>1. /\ transitions # <<>> /\ Head(transitions).kind = "checkpoint"
        /\ UNCHANGED <<mount, reconciler, restoration>>
        /\ \/ transitions' = Begun /\ captures' = captures \cup {Await("transition")}
           \/ transitions' = Tail(transitions) /\ UNCHANGED captures
    BY <1>6 DEF BeginCheckpoint
  <2>2. Others /\ operations' = operations /\ pane' = pane
    BY <2>1 DEF reconciler, restoration, mount
  <2>3. CASE transitions' = Begun /\ captures' = captures \cup {Await("transition")}
    <3>1. ChainSame
      BY <1>2, <2>1, <2>2, <2>3, AttachBegun DEF ChainSame
    <3>2. Await("transition").behind = Len(operations)
      BY AwaitKnown
    <3>3. BehindQueue'
      BY <1>1, <2>2, <2>3, <3>2 DEF BehindQueue, RestoreInv, GoneInv
    <3>4. QueueSame /\ (~mounted => operations' = <<>>)
      BY <2>2, QueueUntouched DEF RestoreInv, GoneInv
    <3> QED BY <2>2, <3>1, <3>3, <3>4, RestoreKept
  <2>4. CASE transitions' = Tail(transitions) /\ UNCHANGED captures
    BY <2>1, <2>2, <2>4, ChainLeft, ChainStepRestore
  <2> QED BY <2>1, <2>3, <2>4
<1>7. CASE Unmount
  <2>1. /\ mounted' = FALSE /\ applied' = 0 /\ operations' = <<>> /\ captures' = {} /\ restoring' = "no"
        /\ resyncRequested' = FALSE /\ restoreAgain' = FALSE /\ pane' = pane
        /\ transitions' = Append(IF \E c \in captures : c.by = "transition" THEN Tail(transitions)
                                 ELSE transitions, Leave(Shown))
    BY <1>7 DEF Unmount
  <2>2. ~RestoreIn(operations') /\ OneRestoreIn(operations')
    BY <2>1 DEF RestoreIn, OneRestoreIn
  <2>3. Leave(Shown) \in Transitions(n) /\ Leave(Shown).kind # "attach"
    BY <1>1, ShownKnown, NewTransitions DEF Leave, Transition
  <2> DEFINE ts == IF \E c \in captures : c.by = "transition" THEN Tail(transitions) ELSE transitions
  <2>4. ts \in Seq(Transitions(n)) /\ OneAttachIn(ts, pane)
    <3>1. CASE \E c \in captures : c.by = "transition"
      <4>1. transitions # <<>>
        BY <3>1 DEF FlowInv, TurnInv, CheckpointBegun
      <4> QED BY <1>1, <1>2, <3>1, <4>1, AttachRemoved, TailFacts
    <3>2. CASE ~ \E c \in captures : c.by = "transition"
      BY <1>1, <1>2, <3>2
    <3> QED BY <3>1, <3>2
  <2>5. transitions' = Append(ts, Leave(Shown))
    BY <2>1
  <2> HIDE DEF ts
  <2>6. OneAttachIn(transitions', pane)
    BY <1>1, <2>3, <2>4, <2>5, AttachAppended
  <2>7. PlaceInv' /\ GapInv' /\ GoneInv'
    BY <2>1, <2>2, <2>6 DEF PlaceInv, GapInv, GoneInv
  <2> QED BY <2>7 DEF RestoreInv
<1>8. CASE Remount
  <2> DEFINE next == pane + 1
             t == Attach(pane + 1, FALSE)
  <2>1. /\ ~mounted /\ pane' = next /\ restoring' = "attaching" /\ transitions' = Append(transitions, t)
        /\ operations' = operations /\ captures' = captures /\ restoreAgain' = restoreAgain
        /\ resyncRequested' = resyncRequested /\ mounted' = TRUE
    BY <1>8 DEF Remount, Serialized, reconciler, scheduler
  <2>2. /\ t \in Transitions(n) /\ t.kind = "attach" /\ t.pane = next
    <3>1. pane + 1 \in Nat /\ FALSE \in BOOLEAN
      BY <1>1
    <3>2. t \in Transitions(n)
      BY <1>1, <3>1, NewTransitions, Zenon
    <3> QED BY <3>2 DEF Attach, Transition
  <2>3. ~AttachIn(transitions, next) /\ OneAttachIn(transitions, next)
    <3>1. \A i \in 1 .. Len(transitions) : transitions[i].pane \in Nat /\ transitions[i].pane <= pane
      BY <1>1 DEF FlowInv, TurnInv, ChainOK, Transitions
    <3>2. \A i \in 1 .. Len(transitions) : transitions[i].pane # next
      BY <1>1, <3>1
    <3> QED BY <3>2 DEF AttachIn, OneAttachIn
  <2> HIDE DEF t, next
  <2>4. OneAttachIn(transitions', next) /\ AttachIn(transitions', next)
    BY <1>1, <2>1, <2>2, <2>3, AttachAppended
  <2>5. operations = <<>> /\ ~resyncRequested /\ ~restoreAgain
    BY <2>1 DEF RestoreInv, GoneInv
  <2>6. PlaceInv' /\ GapInv'
    <3>1. ~RestoreIn(operations') /\ OneRestoreIn(operations')
      BY <2>1, <2>5 DEF RestoreIn, OneRestoreIn
    <3> QED BY <2>1, <2>4, <2>5, <3>1 DEF PlaceInv, GapInv
  <2>7. GoneInv'
    BY <2>1 DEF RestoreInv, GoneInv
  <2> QED BY <2>6, <2>7 DEF RestoreInv
<1>9. CASE OrphanAttach
  <2> DEFINE t == Attach(Gone, TRUE)
  <2>1. /\ transitions' = Append(transitions, t) /\ operations' = operations /\ captures' = captures
        /\ Others /\ pane' = pane
    BY <1>9 DEF OrphanAttach, Serialized, reconciler, scheduler, mount
  <2>2. t \in Transitions(n)
    <3>1. Gone \in Nat /\ TRUE \in BOOLEAN
      BY DEF Gone
    <3> QED BY <1>1, <3>1, NewTransitions, Zenon
  <2>3. t.pane # pane
    <3>1. t.pane = 0
      BY DEF Attach, Transition, Gone
    <3>2. pane # 0
      BY <1>1
    <3> QED BY <3>1, <3>2, Zenon
  <2> HIDE DEF t
  <2> QED BY <2>1, <2>2, <2>3, ChainJoined, ChainStepRestore
<1>10. CASE SendLastCheckpoint
  <2>1. /\ transitions # <<>> /\ transitions' = Begun /\ pane' = pane
        /\ Others /\ operations' = operations /\ captures' = captures
    BY <1>10 DEF SendLastCheckpoint, Leaving, reconciler, restoration, scheduler, mount
  <2>2. ChainSame
    BY <1>2, <2>1, AttachBegun DEF ChainSame
  <2> QED BY <2>1, <2>2, ChainStepRestore
<1>11. CASE Detach
  <2>1. /\ transitions # <<>> /\ Head(transitions).kind # "attach" /\ transitions' = Tail(transitions)
        /\ Others /\ operations' = operations /\ captures' = captures /\ pane' = pane
    BY <1>11 DEF Detach, Leaving, reconciler, restoration, scheduler, mount
  <2> QED BY <2>1, ChainLeft, ChainStepRestore
<1>12. ASSUME NEW p \in posts, CheckpointAnswered(p) PROVE RestoreInv'
  <2>1. /\ transitions' = IF p.by = "transition" THEN Tail(transitions) ELSE transitions
        /\ UNCHANGED captures \/ BeginFlush
        /\ Others /\ operations' = operations /\ pane' = pane
    BY <1>12 DEF CheckpointAnswered, reconciler, restoration, mount
  <2>2. ChainSame
    <3>1. CASE p.by = "transition"
      <4>1. transitions # <<>> /\ Head(transitions).kind = "checkpoint"
        BY <3>1 DEF FlowInv, TurnInv, CheckpointBegun
      <4> QED BY <2>1, <3>1, <4>1, ChainLeft
    <3>2. CASE p.by # "transition"
      BY <2>1, <3>2, ChainUntouched
    <3> QED BY <3>1, <3>2
  <2> QED BY <2>1, <2>2, ChainStepRestore
<1> QED BY <1>3, <1>4, <1>5, <1>6, <1>7, <1>8, <1>9, <1>10, <1>11, <1>12

-----------------------------------------------------------------------------
(* The inductive invariant.                                                  *)

CoreInv == Known /\ FlowInv /\ RestoreInv

LEMMA InitCore == Init => CoreInv
  BY InitKnown, InitFlow, InitRestore DEF CoreInv

LEMMA NextCore == CoreInv /\ [Next]_vars => CoreInv'
<1> SUFFICES ASSUME CoreInv, [Next]_vars PROVE CoreInv'
  OBVIOUS
<1>1. Known /\ FlowInv /\ RestoreInv /\ AttachUnderWay
  BY DEF CoreInv, FlowInv
<1>2. CASE Output
  BY <1>1, <1>2, OutputKnown, MainStepsFlow, MainStepsRestore DEF CoreInv
<1>3. CASE \/ ReadPty \/ AnswerAttach \/ Subscribe \/ OpenSocket \/ AttachReply \/ AttachFails
           \/ Forward \/ SocketClosed \/ \E p \in posts : ServeCheckpoint(p)
  BY <1>1, <1>3, MainStepsKnown, MainStepsFlow, MainStepsRestore DEF CoreInv
<1>4. CASE Receive
  <2>1. Head(channel).event = "attached" => transitions # <<>>
    <3>1. channel # <<>> /\ Len(channel) \in Nat
      BY <1>1, <1>4, KnownParts DEF Receive
    <3>2. Head(channel) = channel[1] /\ 1 \in 1 .. Len(channel)
      BY <1>1, <3>1, EventFacts, KnownParts
    <3> QED BY <1>1, <3>2 DEF FlowInv, AnswerInv, AttachUnderWay, Attaching
  <2> QED BY <1>1, <1>4, <2>1, ReceiveKnown, ReceiveFlow, ReceiveRestore DEF CoreInv
<1>5. CASE StartOperation
  BY <1>1, <1>5, StartKnown, QueueStepsFlow, StartRestore DEF CoreInv
<1>6. CASE Parse
  BY <1>1, <1>6, ParseKnown, QueueStepsFlow, ParseRestore DEF CoreInv
<1>7. CASE \/ Capture \/ TimerFires \/ FinishRestore \/ BeginCheckpoint \/ Unmount \/ Remount
           \/ OrphanAttach \/ SendLastCheckpoint \/ Detach
           \/ \E p \in posts : CheckpointAnswered(p)
  <2>1. /\ \A p \in posts : p.by = "transition" => transitions # <<>>
        /\ \A c \in captures : c.by = "transition" => transitions # <<>>
    BY <1>1 DEF FlowInv, TurnInv, CheckpointBegun
  <2> QED BY <1>1, <1>7, <2>1, PaneStepsKnown, PaneStepsFlow, PaneStepsRestore DEF CoreInv
<1>8. CASE UNCHANGED vars
  <2>1. /\ UNCHANGED <<unread, lastSequence, journal, journalBytes, checkpoint,
                      reconstructionComplete, checkpointRequested>>
        /\ UNCHANGED <<attachment, wire, exchange, failures, channel, crossing, subscriber>>
        /\ UNCHANGED <<pane, mounted, screen, applied, resyncRequested, operations>>
        /\ UNCHANGED <<restoring, restoreAgain, orphan, paneError, transitions, needsFlush, timer, captures, posts>>
    BY <1>8 DEF vars, outside, journalVars, mainVars, history, paneVars, mount, reconciler, restoration, scheduler
  <2>2. Known'
    <3>1. ServiceKnown' /\ lastSequence' = lastSequence
      BY <1>1, <2>1, ServiceUntouched DEF Known, journalVars
    <3>2. MainKnown'
      BY <1>1, <2>1, <3>1, MainUntouched DEF Known, mainVars, history
    <3>3. PaneKnown'
      BY <1>1, <2>1, <3>1, PaneUntouched DEF Known, mount, restoration, scheduler
    <3>4. ScreenKnown'
      BY <1>1, <2>1, <3>1, ScreenUntouched DEF Known
    <3> QED BY <3>1, <3>2, <3>3, <3>4 DEF Known
  <2>3. FlowInv'
    <3>1. TurnInv'
      BY <1>1, <2>1, TurnUntouched DEF FlowInv, mount
    <3>2. AttachUnderWay' /\ AnswerInv' /\ SocketInv'
      BY <1>1, <2>1 DEF FlowInv, AttachUnderWay, Attaching, AnswerInv, SocketInv
    <3> QED BY <3>1, <3>2 DEF FlowInv
  <2>4. RestoreInv'
    <3>1. ChainSame
      BY <1>1, <2>1, ChainUntouched
    <3> QED BY <1>1, <2>1, <3>1, ChainStepRestore DEF mount
  <2> QED BY <2>2, <2>3, <2>4 DEF CoreInv
<1> QED BY <1>2, <1>3, <1>4, <1>5, <1>6, <1>7, <1>8 DEF Next, Progress

LEMMA CoreHolds == Spec => []CoreInv
  BY InitCore, NextCore, PTL DEF Spec

(* Every variable keeps its type, in every state and for every journal,      *)
(* batch size and backlog.                                                   *)
THEOREM TypeCorrect == Spec => []TypeOK
<1>1. CoreInv => TypeOK
  <2> SUFFICES ASSUME CoreInv PROVE TypeOK
    OBVIOUS
  <2>1. Known /\ FlowInv /\ RestoreInv
    BY DEF CoreInv
  <2>2. lastSequence \in Nat /\ lastSequence <= MaxSequence /\ MaxSequence \in Nat
    BY <2>1, BoundedOutput, JournalAssumption DEF Known, ServiceKnown
  <2>3. Service!TypeOK
    BY <2>1 DEF Known, ServiceKnown, JournalInv
  <2>4. /\ attachment \in {"none", "opening", "open", "closing"}
        /\ attachment \in {"none", "opening"} => wire = <<>>
        /\ failures \in 0 .. MaxFailures
    BY <2>1 DEF Known, MainKnown, FlowInv, SocketInv
  <2>5. exchange.phase \in {"idle", "answered", "subscribing", "replied"}
    BY <2>1 DEF Known, MainKnown, Exchanges, NoExchange
  <2>6. exchange.phase # "idle" => transitions # <<>> /\ Head(transitions).kind = "attach"
    BY <2>1 DEF FlowInv, AttachUnderWay, Attaching
  <2>7. /\ pane \in 1 .. MaxMounts
        /\ mounted \in BOOLEAN /\ paneError \in BOOLEAN /\ orphan \in BOOLEAN
        /\ resyncRequested \in BOOLEAN /\ restoreAgain \in BOOLEAN /\ needsFlush \in BOOLEAN
        /\ timer \in BOOLEAN
        /\ restoring \in {"no", "attaching", "applying", "sizing"}
        /\ restoreAgain => restoring # "no"
    BY <2>1 DEF Known, PaneKnown, RestoreInv, GapInv
  <2>8. applied \in 0 .. lastSequence /\ screen \subseteq 1 .. applied
        /\ \A i \in 2 .. Len(operations) : ~operations[i].started
    BY <2>1 DEF Known, ScreenKnown
  <2>9. applied \in 0 .. MaxSequence /\ screen \subseteq Piece
    BY <2>2, <2>8 DEF Piece
  <2>10. \A c \in captures : c.by \in {"scheduler", "transition"} /\ c.behind \in 0 .. Len(operations)
    <3>1. captures \subseteq Captures /\ Len(operations) \in Nat
      BY <2>1, KnownParts
    <3> QED BY <2>1, <3>1 DEF Captures, RestoreInv, GoneInv
  <2>11. \A p \in posts : p.checkpoint \in Service!Checkpoint /\ p.answer \in {"none", "accepted", "refused"}
    <3>1. posts \subseteq Posts(lastSequence)
      BY <2>1, KnownParts
    <3>2. Checkpoints(lastSequence) \subseteq Service!Checkpoint
      BY <2>2 DEF Checkpoints, Service!Checkpoint
    <3> QED BY <3>1, <3>2 DEF Posts
  <2> QED BY <2>3, <2>4, <2>5, <2>6, <2>7, <2>8, <2>9, <2>10, <2>11, Zenon DEF TypeOK
<1> QED BY CoreHolds, <1>1, PTL

(* A snapshot that the service calls complete can be replayed to its end,    *)
(* whatever was trimmed, checkpointed or refused: no restoration ends short. *)
THEOREM SnapshotsAreWhole == Spec => []RestoresSuffice
<1>1. CoreInv => RestoresSuffice
  <2> SUFFICES ASSUME CoreInv, NEW i \in 1 .. Len(operations) PROVE ~operations[i].short
    BY DEF RestoresSuffice
  <2>1. operations \in Seq(Operations(lastSequence)) /\ lastSequence \in Nat
    BY KnownParts DEF CoreInv
  <2>2. operations[i] \in Operations(lastSequence)
    BY <2>1
  <2> QED BY <2>1, <2>2, OperationFacts
<1> QED BY CoreHolds, <1>1, PTL

(* What xterm is about to parse is newer than all that the screen shows:     *)
(* replays, duplicates and resets put no output on it twice or out of order. *)
THEOREM ScreenGrows == Spec => []WritesAreNew
<1>1. CoreInv => WritesAreNew
  <2> SUFFICES ASSUME CoreInv, operations # <<>>, Head(operations).started,
                      NEW s \in Head(Head(operations).writes).adds, NEW t \in screen
               PROVE  t < s
    BY DEF WritesAreNew
  <2> DEFINE ws == Head(operations).writes
  <2>1. operations \in Seq(Operations(lastSequence)) /\ lastSequence \in Nat
    BY KnownParts DEF CoreInv
  <2>2. Head(operations) \in Operations(lastSequence)
    BY <2>1, TailFacts
  <2>3. ws \in Seq(Writes(lastSequence)) /\ ws # <<>>
    BY <2>1, <2>2, OperationFacts
  <2>4. Head(ws) = ws[1] /\ 1 \in 1 .. Len(ws)
    BY <2>3, TailFacts
  <2>5. AboveScreen(ws)
    BY DEF CoreInv, Known, ScreenKnown
  <2> QED BY <2>4, <2>5 DEF AboveScreen
<1> QED BY CoreHolds, <1>1, PTL

-----------------------------------------------------------------------------
(* Requests for a checkpoint.                                                *)

HeadStarted(kind) == operations # <<>> /\ Head(operations).started /\ Head(operations).kind = kind

\* A batch under way goes on from where the pane is.
BatchInv == HeadStarted("batch") => applied <= Head(operations).writes[1].upTo

\* A flush is due, under way, or was refused and is noted.
Flushes ==
    \/ needsFlush \/ timer
    \/ \E c \in captures : c.by = "scheduler"
    \/ \E p \in posts : p.by = "scheduler" /\ p.pane = pane /\ p.answer # "accepted"

\* A checkpoint of at least r will be sent at the end of a restore, or was.
CheckpointIn(ts, p) ==
    \E i \in 1 .. Len(ts) : ts[i].kind = "checkpoint" /\ ts[i].pane = p /\ ~ts[i].begun
Records(r) ==
    \/ CheckpointIn(transitions, pane)
    \/ \E c \in captures : c.by = "transition"
    \/ \E p \in posts : /\ p.by = "transition" /\ p.pane = pane
                        /\ p.answer = "none" /\ p.checkpoint.sequence >= r

\* Piece r has not come to the pane, and will not be passed without it.
UnseenIn(ops, r) == \A i \in 1 .. Len(ops) : r \notin Pieces(ops[i])
Below(r)  == applied < r /\ (HeadStarted("batch") => Head(operations).writes[1].upTo < r)

Noted(r) ==
    \/ Flushes
    \/ /\ UnseenIn(operations, r)
       /\ \/ HeadStarted("restore")
          \/ Below(r)
          \/ applied >= r /\ (restoring = "sizing" \/ Records(r))

\* The service asked when piece r made its journal long enough.
RequestInv ==
    checkpointRequested => \E r \in 1 .. lastSequence :
        /\ checkpoint.sequence < r
        /\ mounted => Noted(r)

-----------------------------------------------------------------------------

LEMMA CheckpointAppended ==
    ASSUME NEW n \in Nat, NEW ts \in Seq(Transitions(n)), NEW t \in Transitions(n), NEW p
    PROVE  /\ CheckpointIn(ts, p) => CheckpointIn(Append(ts, t), p)
           /\ t.kind = "checkpoint" /\ t.pane = p /\ ~t.begun => CheckpointIn(Append(ts, t), p)
<1>1. /\ Len(ts) \in Nat /\ Len(Append(ts, t)) = Len(ts) + 1
      /\ \A i \in 1 .. Len(ts) : Append(ts, t)[i] = ts[i]
      /\ Append(ts, t)[Len(ts) + 1] = t
  BY AppendFacts
<1>2. Len(ts) + 1 \in 1 .. Len(ts) + 1 /\ \A i \in 1 .. Len(ts) : i \in 1 .. Len(ts) + 1
  BY <1>1
<1> QED BY <1>1, <1>2 DEF CheckpointIn

LEMMA CheckpointStays ==
    ASSUME NEW n \in Nat, NEW ts \in Seq(Transitions(n)), ts # <<>>, NEW p, CheckpointIn(ts, p),
           Head(ts).kind # "checkpoint" \/ Head(ts).pane # p \/ Head(ts).begun
    PROVE  CheckpointIn(Tail(ts), p)
<1>1. /\ Head(ts) = ts[1] /\ Len(ts) \in Nat \ {0} /\ Len(Tail(ts)) = Len(ts) - 1
      /\ \A i \in 1 .. Len(ts) - 1 : Tail(ts)[i] = ts[i + 1]
  BY TailFacts
<1>2. PICK i \in 1 .. Len(ts) : ts[i].kind = "checkpoint" /\ ts[i].pane = p /\ ~ts[i].begun
  BY DEF CheckpointIn
<1>3. i # 1
  BY <1>1, <1>2
<1>4. i - 1 \in 1 .. Len(Tail(ts)) /\ Tail(ts)[i - 1] = ts[(i - 1) + 1] /\ (i - 1) + 1 = i
  BY <1>1, <1>3
<1> QED BY <1>2, <1>4 DEF CheckpointIn

LEMMA CheckpointNotBegun ==
    ASSUME Known, transitions # <<>>, NEW p, CheckpointIn(transitions, p),
           Head(transitions).kind # "checkpoint"
    PROVE  CheckpointIn(Begun, p)
<1>1. /\ Len(Begun) = Len(transitions) /\ Len(transitions) \in Nat \ {0}
      /\ \A i \in 2 .. Len(transitions) : Begun[i] = transitions[i]
      /\ Head(transitions) = transitions[1]
  BY KnownParts, BegunFacts, TailFacts
<1>2. PICK i \in 1 .. Len(transitions) :
         transitions[i].kind = "checkpoint" /\ transitions[i].pane = p /\ ~transitions[i].begun
  BY DEF CheckpointIn
<1>3. i \in 2 .. Len(transitions)
  BY <1>1, <1>2
<1> QED BY <1>1, <1>2, <1>3 DEF CheckpointIn

\* A piece that is not in the queue, does not come there when an operation ends.
LEMMA UnseenRemoved ==
    ASSUME Known, operations # <<>>, NEW r, UnseenIn(operations, r), operations' = Tail(operations)
    PROVE  UnseenIn(operations', r)
<1>1. /\ Len(operations) \in Nat \ {0} /\ Len(operations') = Len(operations) - 1
      /\ \A i \in 1 .. Len(operations) - 1 : operations'[i] = operations[i + 1]
  BY KnownParts, TailFacts
<1>2. \A i \in 1 .. Len(operations') : i + 1 \in 1 .. Len(operations) /\ operations'[i] = operations[i + 1]
  BY <1>1
<1> QED BY <1>2 DEF UnseenIn

LEMMA UnseenReplaced ==
    ASSUME Known, operations # <<>>, NEW r, UnseenIn(operations, r), NEW h,
           operations' = [operations EXCEPT ![1] = h], h.chunks = Head(operations).chunks
    PROVE  UnseenIn(operations', r)
<1>1. /\ Head(operations) = operations[1] /\ Len(operations) \in Nat \ {0}
      /\ Len(operations') = Len(operations) /\ operations'[1] = h
      /\ \A i \in 2 .. Len(operations) : operations'[i] = operations[i]
  BY KnownParts, HeadReplaced, TailFacts
<1>2. Pieces(h) = Pieces(operations[1])
  BY <1>1 DEF Pieces
<1>3. \A i \in 1 .. Len(operations) : i = 1 \/ i \in 2 .. Len(operations)
  BY <1>1
<1> QED BY <1>1, <1>2, <1>3 DEF UnseenIn

\* After an operation ended, none has started.
LEMMA NoneStarted ==
    ASSUME Known, operations # <<>>, \A c \in captures : c.behind > 0, OperationEnds
    PROVE  /\ ~HeadStarted("batch")' /\ ~HeadStarted("restore")'
           /\ Flushes /\ UNCHANGED <<needsFlush, timer, posts, mount>> => Flushes'
           /\ (\E c \in captures : c.by = "transition") => \E c \in captures' : c.by = "transition"
<1>1. operations' # <<>> => ~Head(operations').started
  BY EndsKnown
<1>2. captures' = {[c EXCEPT !.behind = @ - 1] : c \in captures} /\ captures \subseteq Captures
  BY KnownParts DEF OperationEnds
<1>3. \A c \in captures : [c EXCEPT !.behind = @ - 1] \in captures' /\ [c EXCEPT !.behind = @ - 1].by = c.by
  BY <1>2 DEF Captures
<1>4. \A by : (\E c \in captures : c.by = by) => \E c \in captures' : c.by = by
  BY <1>3
<1>5. Flushes /\ UNCHANGED <<needsFlush, timer, posts, mount>> => Flushes'
  BY <1>4 DEF Flushes, mount
<1> QED BY <1>1, <1>4, <1>5 DEF HeadStarted

LEMMA FlushNoted == BeginFlush \/ ScheduleFlush => Flushes'
<1>1. Await("scheduler").by = "scheduler"
  BY DEF Await
<1> QED BY <1>1 DEF BeginFlush, ScheduleFlush, Flushes

\* The service is as it was, and what was noted for it still is.
LEMMA RequestKept ==
    ASSUME RequestInv, UNCHANGED journalVars,
           \A r \in 1 .. lastSequence : mounted' /\ (mounted => Noted(r)) => Noted(r)'
    PROVE  RequestInv'
  BY DEF RequestInv, journalVars

\* What is at the head of the queue stays there when output or a snapshot comes.
LEMMA HeadReceived ==
    ASSUME Known, Receive
    PROVE  /\ operations # <<>> => operations' # <<>> /\ Head(operations').started = Head(operations).started
                                   /\ (Head(operations).started => Head(operations') = Head(operations))
           /\ operations = <<>> /\ operations' # <<>> => ~Head(operations').started
           /\ applied' = applied
<1> DEFINE n == lastSequence
           e == Head(channel)
<1>1. /\ channel # <<>> /\ applied' = applied
      /\ ReceiveOutput \/ ReceiveRequest \/ ReceiveResync \/ ReceiveSnapshot \/ ReceiveFailure
  BY DEF Receive
<1>2. n \in Nat /\ operations \in Seq(Operations(n)) /\ Len(operations) \in Nat
  BY KnownParts
<1>3. operations # <<>> => Head(operations) = operations[1] /\ 1 \in 1 .. Len(operations)
  BY <1>2
<1>4. CASE operations' = operations
  BY <1>1, <1>4
<1>5. CASE ReceiveOutput /\ mounted
  <2>1. operations' = Enqueued(e.sequence) /\ e.sequence \in 1 .. n
    BY <1>1, <1>5, EventFacts DEF ReceiveOutput
  <2> HIDE DEF e
  <2>2. /\ operations' \in Seq(Operations(n)) /\ operations' # <<>>
        /\ \A i \in 1 .. Len(operations) : /\ operations'[i].started = operations[i].started
                                           /\ operations[i].started => operations'[i] = operations[i]
    BY <2>1, EnqueuedKnown
  <2>3. Head(operations') = operations'[1]
    BY <2>2
  <2>4. operations = <<>> => ~Head(operations').started
    <3> SUFFICES ASSUME operations = <<>> PROVE ~Head(operations').started
      OBVIOUS
    <3>1. operations' = Append(<<>>, Batch(<<e.sequence>>))
      BY <2>1 DEF Enqueued
    <3>2. operations'[1] = Batch(<<e.sequence>>)
      BY <3>1
    <3> QED BY <2>3, <3>2 DEF Batch
  <2> QED BY <1>1, <1>3, <2>2, <2>3, <2>4
<1>6. CASE ReceiveSnapshot /\ IsCurrent(e)
  <2> DEFINE o == Restoration(e.snapshot)
  <2>1. operations' = Append(operations, o) /\ ~o.started
    BY <1>6 DEF ReceiveSnapshot, Restoration
  <2>2. o \in Operations(n)
    <3>1. e.snapshot \in Snapshots(n)
      BY <1>1, <1>6, EventFacts DEF ReceiveSnapshot
    <3> QED BY <1>2, <3>1, NewOperations
  <2> HIDE DEF o
  <2>3. /\ operations' \in Seq(Operations(n)) /\ operations' # <<>>
        /\ \A i \in 1 .. Len(operations) : operations'[i] = operations[i]
        /\ operations'[Len(operations) + 1] = o
    BY <1>2, <2>1, <2>2, AppendFacts
  <2>4. Head(operations') = operations'[1]
    BY <2>3
  <2>5. operations = <<>> => Len(operations) + 1 = 1
    OBVIOUS
  <2> QED BY <1>1, <1>3, <2>1, <2>3, <2>4, <2>5
<1> QED BY <1>1, <1>4, <1>5, <1>6 DEF ReceiveOutput, ReceiveRequest, ReceiveResync, ReceiveSnapshot, ReceiveFailure

LEMMA NextBatch ==
    ASSUME CoreInv, BatchInv, [Next]_vars
    PROVE  BatchInv'
<1>1. Known
  BY DEF CoreInv
<1>2. ASSUME operations' = operations, applied' = applied PROVE BatchInv'
  BY <1>2 DEF BatchInv, HeadStarted
<1>3. CASE Receive
  BY <1>1, <1>3, HeadReceived DEF BatchInv, HeadStarted
<1>4. CASE StartOperation
  <2>1. operations # <<>> /\ (\A c \in captures : c.behind > 0) /\ (StartBatch \/ StartRestoration)
    BY <1>4 DEF StartOperation
  <2>2. CASE OperationEnds
    BY <1>1, <2>1, <2>2, NoneStarted DEF BatchInv
  <2>3. CASE StartBatch /\ ~OperationEnds
    <3> DEFINE reached == Contiguous(applied, Head(operations).chunks)
    <3>1. /\ reached.at \in applied .. lastSequence /\ applied' = applied
          /\ \E h : operations' = [operations EXCEPT ![1] = h] /\ h.writes[1].upTo = reached.at
      BY <1>1, <1>4, <2>3, BatchStarts
    <3> HIDE DEF reached
    <3>4. PICK h : operations' = [operations EXCEPT ![1] = h] /\ h.writes[1].upTo = reached.at
      BY <3>1
    <3>2. Head(operations') = h
      BY <1>1, <2>1, <3>4, HeadReplaced
    <3>3. applied \in Nat /\ lastSequence \in Nat
      BY <1>1, KnownParts
    <3> QED BY <3>1, <3>2, <3>3, <3>4 DEF BatchInv
  <2>4. CASE StartRestoration /\ ~OperationEnds
    <3>1. PICK h : operations' = [operations EXCEPT ![1] = h] /\ h.kind = "restore"
      BY <1>1, <1>4, <2>4, RestorationStarts
    <3>2. Head(operations') = h
      BY <1>1, <2>1, <3>1, HeadReplaced
    <3> QED BY <3>1, <3>2 DEF BatchInv, HeadStarted
  <2> QED BY <2>1, <2>2, <2>3, <2>4
<1>5. CASE Parse
  <2>1. /\ operations # <<>> /\ (\A c \in captures : c.behind > 0)
        /\ OperationEnds \/ \E h : /\ operations' = [operations EXCEPT ![1] = h] /\ h.kind = "restore"
    BY <1>1, <1>5, Parsed
  <2>2. CASE OperationEnds
    BY <1>1, <2>1, <2>2, NoneStarted DEF BatchInv
  <2>3. CASE \E h : /\ operations' = [operations EXCEPT ![1] = h] /\ h.kind = "restore"
    <3>1. PICK h : operations' = [operations EXCEPT ![1] = h] /\ h.kind = "restore"
      BY <2>3
    <3>2. Head(operations') = h
      BY <1>1, <2>1, <3>1, HeadReplaced
    <3> QED BY <3>1, <3>2 DEF BatchInv, HeadStarted
  <2> QED BY <2>1, <2>2, <2>3
<1>6. CASE Unmount
  BY <1>6 DEF Unmount, BatchInv, HeadStarted
<1>7. CASE \/ ReadPty \/ Output \/ AnswerAttach \/ Subscribe \/ OpenSocket \/ AttachReply \/ AttachFails
           \/ Forward \/ SocketClosed \/ \E p \in posts : ServeCheckpoint(p)
  <2>1. UNCHANGED paneVars
    BY <1>7 DEF ReadPty, Output, AnswerAttach, Subscribe, OpenSocket, AttachReply, AttachFails, Forward,
                SocketClosed, ServeCheckpoint
  <2> QED BY <1>2, <2>1 DEF paneVars, reconciler
<1>8. CASE \/ Capture \/ TimerFires \/ FinishRestore \/ BeginCheckpoint \/ Remount
           \/ OrphanAttach \/ SendLastCheckpoint \/ Detach
           \/ \E p \in posts : CheckpointAnswered(p)
  <2>1. UNCHANGED reconciler
    BY <1>8 DEF Capture, TimerFires, FinishRestore, BeginCheckpoint, Remount, OrphanAttach,
                SendLastCheckpoint, Detach, CheckpointAnswered
  <2> QED BY <1>2, <2>1 DEF reconciler
<1>9. CASE UNCHANGED vars
  BY <1>2, <1>9 DEF vars, paneVars, reconciler
<1> QED BY <1>3, <1>4, <1>5, <1>6, <1>7, <1>8, <1>9 DEF Next, Progress

LEMMA NotedSame ==
    ASSUME UNCHANGED <<paneVars, posts>>, NEW r
    PROVE  Noted(r) => Noted(r)'
<1>1. /\ needsFlush' = needsFlush /\ timer' = timer /\ captures' = captures /\ posts' = posts
      /\ pane' = pane /\ operations' = operations /\ applied' = applied /\ restoring' = restoring
      /\ transitions' = transitions
  BY DEF paneVars, mount, reconciler, restoration, scheduler
<1> QED BY <1>1 DEF Noted, Flushes, HeadStarted, Below, Records

LEMMA MainStepsRequest ==
    ASSUME Known, RequestInv,
           \/ ReadPty \/ AnswerAttach \/ Subscribe \/ OpenSocket \/ AttachReply \/ AttachFails
           \/ Forward \/ SocketClosed
    PROVE  RequestInv'
<1>1. /\ lastSequence' = lastSequence /\ checkpoint' = checkpoint
      /\ checkpointRequested' = checkpointRequested
  <2>1. CASE ReadPty
    BY <2>1 DEF ReadPty, Service!PtyData
  <2>2. CASE ~ReadPty
    BY <2>2 DEF AnswerAttach, Subscribe, OpenSocket, AttachReply, AttachFails, Forward, SocketClosed, journalVars
  <2> QED BY <2>1, <2>2
<1>2. UNCHANGED <<paneVars, posts>>
  BY DEF ReadPty, AnswerAttach, Subscribe, OpenSocket, AttachReply, AttachFails, Forward, SocketClosed
<1>3. mounted' = mounted
  BY <1>2 DEF paneVars, mount
<1> QED BY <1>1, <1>2, <1>3, NotedSame DEF RequestInv

LEMMA OutputRequest ==
    ASSUME Known, RequestInv, Output
    PROVE  RequestInv'
<1> DEFINE n == lastSequence
<1>1. UNCHANGED <<paneVars, posts>> /\ Service!AppendOutput
  BY DEF Output
<1>2. /\ n \in Nat /\ lastSequence' = n + 1 /\ checkpoint' = checkpoint
      /\ checkpointRequested' # checkpointRequested => checkpointRequested' /\ Service!HasCheckpoint
  BY <1>1, AppendKnown DEF Known
<1>3. mounted' = mounted
  BY <1>1 DEF paneVars, mount
<1>4. CASE checkpointRequested' = checkpointRequested
  <2> SUFFICES ASSUME checkpointRequested' PROVE RequestInv'
    BY DEF RequestInv
  <2>1. PICK r \in 1 .. n : checkpoint.sequence < r /\ (mounted => Noted(r))
    BY <1>4 DEF RequestInv
  <2>2. r \in 1 .. n + 1
    BY <1>2
  <2>3. mounted' => Noted(r)'
    BY <1>1, <1>3, <2>1, NotedSame
  <2> QED BY <1>2, <2>1, <2>2, <2>3 DEF RequestInv
<1>5. CASE checkpointRequested' # checkpointRequested
  <2>0. PICK r \in Nat : r = n + 1
    BY <1>2
  <2>1. checkpoint.sequence < r
    <3>1. checkpoint \in Checkpoints(n)
      BY <1>2, <1>5 DEF Known, ServiceKnown, Service!HasCheckpoint
    <3>2. checkpoint.sequence \in Nat /\ checkpoint.sequence <= n
      BY <3>1 DEF Checkpoints, Service!Checkpoint
    <3> QED BY <1>2, <2>0, <3>2
  <2>2. operations' = operations /\ applied' = applied
    BY <1>1 DEF paneVars, reconciler
  <2>3. operations \in Seq(Operations(n)) /\ applied \in 0 .. n
    BY KnownParts
  <2>4. UnseenIn(operations, r)
    <3> SUFFICES ASSUME NEW i \in 1 .. Len(operations) PROVE r \notin Pieces(operations[i])
      BY DEF UnseenIn
    <3>1. operations[i] \in Operations(n)
      BY <2>3
    <3>2. Pieces(operations[i]) \subseteq 1 .. n
      BY <1>2, <3>1, OperationFacts
    <3> QED BY <1>2, <2>0, <3>2
  <2>5. Below(r)
    <3>1. applied < r
      BY <1>2, <2>0, <2>3
    <3>2. ASSUME HeadStarted("batch") PROVE Head(operations).writes[1].upTo < r
      <4> DEFINE ws == Head(operations).writes
      <4>1. Head(operations) \in Operations(n)
        BY <2>3, <3>2, TailFacts DEF HeadStarted
      <4>2. ws \in Seq(Writes(n)) /\ ws # <<>>
        BY <1>2, <3>2, <4>1, OperationFacts DEF HeadStarted
      <4>3. ws[1] \in Writes(n)
        BY <4>2
      <4>4. ws[1].upTo \in 0 .. n
        BY <4>3 DEF Writes
      <4> QED BY <1>2, <2>0, <4>4
    <3> QED BY <3>1, <3>2 DEF Below
  <2>6. Noted(r)
    BY <2>4, <2>5 DEF Noted
  <2>7. Noted(r)'
    BY <1>1, <2>6, NotedSame
  <2>8. r \in 1 .. lastSequence'
    BY <1>2, <2>0
  <2> QED BY <1>2, <2>1, <2>7, <2>8 DEF RequestInv
<1> QED BY <1>4, <1>5

LEMMA ServeRequest ==
    ASSUME Known, RequestInv, NEW p \in posts, ServeCheckpoint(p)
    PROVE  RequestInv'
<1> DEFINE n == lastSequence
<1>1. /\ UNCHANGED paneVars /\ p.answer = "none"
      /\ IF Service!Acceptable(p.checkpoint) THEN Service!AcceptCheckpoint(p.checkpoint)
         ELSE UNCHANGED journalVars
      /\ posts' = (posts \ {p}) \cup {[p EXCEPT !.answer =
            IF Service!Acceptable(p.checkpoint) THEN "accepted" ELSE "refused"]}
  BY DEF ServeCheckpoint
<1>2. p \in Posts(n) /\ n \in Nat
  BY KnownParts
<1>3. CASE Service!Acceptable(p.checkpoint)
  BY <1>1, <1>3 DEF Service!AcceptCheckpoint, RequestInv
<1>4. CASE ~Service!Acceptable(p.checkpoint)
  <2> DEFINE q == [p EXCEPT !.answer = "refused"]
  <2>1. posts' = (posts \ {p}) \cup {q} /\ UNCHANGED journalVars
    BY <1>1, <1>4
  <2>2. q.by = p.by /\ q.pane = p.pane /\ q.checkpoint = p.checkpoint /\ q.answer = "refused"
    BY <1>2 DEF Posts
  <2> HIDE DEF q
  <2>3. /\ needsFlush' = needsFlush /\ timer' = timer /\ captures' = captures
        /\ pane' = pane /\ operations' = operations /\ applied' = applied /\ restoring' = restoring
        /\ transitions' = transitions /\ mounted' = mounted
    BY <1>1 DEF paneVars, mount, reconciler, restoration, scheduler
  <2>4. Flushes => Flushes'
    BY <2>1, <2>2, <2>3 DEF Flushes
  <2>5. ASSUME NEW r \in 1 .. n, checkpoint.sequence < r PROVE p.checkpoint.sequence >= r => FALSE
    <3> SUFFICES ASSUME p.checkpoint.sequence >= r PROVE FALSE
      OBVIOUS
    <3>1. p.checkpoint.sequence \in Nat /\ p.checkpoint.sequence <= n
      BY <1>2 DEF Posts, Checkpoints, Service!Checkpoint
    <3>2. Service!HasCheckpoint => checkpoint.sequence \in Nat
      BY DEF Known, ServiceKnown, Service!HasCheckpoint, Checkpoints, Service!Checkpoint
    <3>3. Service!HasCheckpoint => p.checkpoint.sequence >= checkpoint.sequence
      BY <1>2, <2>5, <3>1, <3>2
    <3> QED BY <1>4, <3>1, <3>3 DEF Service!Acceptable
  <2>6. ASSUME NEW r \in 1 .. n, checkpoint.sequence < r, Noted(r) PROVE Noted(r)'
    <3>1. Records(r) => Records(r)'
      BY <2>1, <2>3, <2>5, <2>6 DEF Records
    <3> QED BY <2>3, <2>4, <2>6, <3>1 DEF Noted, HeadStarted, Below
  <2> QED BY <2>1, <2>3, <2>6 DEF RequestInv, journalVars
<1> QED BY <1>3, <1>4

LEMMA NotedKept ==
    ASSUME NEW r, Noted(r), Flushes => Flushes', UnseenIn(operations, r) => UnseenIn(operations', r),
           HeadStarted("restore") => HeadStarted("restore")', Below(r) => Below(r)', applied' = applied,
           restoring = "sizing" \/ Records(r) => restoring' = "sizing" \/ Records(r)'
    PROVE  Noted(r)'
  BY DEF Noted

LEMMA ReceiveNoted ==
    ASSUME Known, FlowInv, RestoreInv, RequestInv, Receive
    PROVE  RequestInv'
<1> DEFINE e == Head(channel)
           n == lastSequence
<1>1. /\ channel # <<>> /\ mounted' = mounted /\ pane' = pane /\ applied' = applied /\ posts' = posts
      /\ UNCHANGED journalVars
      /\ ReceiveOutput \/ ReceiveRequest \/ ReceiveResync \/ ReceiveSnapshot \/ ReceiveFailure
  BY DEF Receive, mount
<1>2. /\ n \in Nat /\ transitions \in Seq(Transitions(n)) /\ operations \in Seq(Operations(n))
      /\ Len(operations) \in Nat
  BY KnownParts
<1> SUFFICES ASSUME NEW r \in 1 .. n, mounted', mounted => Noted(r) PROVE Noted(r)'
  BY <1>1, RequestKept
<1>3. mounted /\ Noted(r)
  BY <1>1
<1>4. CASE ReceiveOutput
  BY <1>3, <1>4 DEF ReceiveOutput, Noted, Flushes
<1>5. CASE ReceiveRequest
  BY <1>3, <1>5, FlushNoted DEF ReceiveRequest, Noted
<1>6. CASE ReceiveResync \/ ReceiveSnapshot \/ ReceiveFailure
  <2>1. UNCHANGED scheduler
    BY <1>6 DEF ReceiveResync, ReceiveSnapshot, ReceiveFailure
  <2>2. needsFlush' = needsFlush /\ timer' = timer /\ captures' = captures
    BY <2>1 DEF scheduler
  <2>3. Flushes => Flushes'
    BY <1>1, <2>2 DEF Flushes
  <2>4. UnseenIn(operations, r) => UnseenIn(operations', r)
    <3>1. CASE operations' = operations
      BY <3>1
    <3>2. CASE ReceiveSnapshot /\ IsCurrent(e)
      <4> DEFINE o == Restoration(e.snapshot)
      <4>1. operations' = Append(operations, o)
        BY <3>2 DEF ReceiveSnapshot
      <4>2. o \in Operations(n) /\ Pieces(o) = {}
        <5>1. e.snapshot \in Snapshots(n)
          BY <1>1, <3>2, EventFacts DEF ReceiveSnapshot
        <5> QED BY <1>2, <5>1, NewOperations
      <4> HIDE DEF o
      <4>3. /\ Len(operations') = Len(operations) + 1
            /\ \A i \in 1 .. Len(operations) : operations'[i] = operations[i]
            /\ operations'[Len(operations) + 1] = o
        BY <1>2, <4>1, <4>2, AppendFacts
      <4>4. \A i \in 1 .. Len(operations') : i \in 1 .. Len(operations) \/ i = Len(operations) + 1
        BY <1>2, <4>3
      <4> QED BY <4>2, <4>3, <4>4 DEF UnseenIn
    <3> QED BY <1>6, <3>1, <3>2 DEF ReceiveResync, ReceiveSnapshot, ReceiveFailure
  <2>5. \A kind : HeadStarted(kind) <=> HeadStarted(kind)'
    BY HeadReceived DEF HeadStarted
  <2>6. HeadStarted("batch") => Head(operations') = Head(operations)
    BY HeadReceived DEF HeadStarted
  <2>7. Below(r) => Below(r)'
    BY <1>1, <2>5, <2>6 DEF Below
  <2>8. /\ CheckpointIn(transitions, pane) => CheckpointIn(transitions', pane)
        /\ restoring = "sizing" => restoring' = "sizing"
    <3>1. e.event = "attached" =>
             transitions # <<>> /\ Head(transitions).kind = "attach" /\ e.pane = Head(transitions).pane
      <4>1. e = channel[1] /\ 1 \in 1 .. Len(channel)
        BY <1>1, EventFacts, KnownParts
      <4> QED BY <4>1 DEF FlowInv, AnswerInv, AttachUnderWay, Attaching
    <3>2. \A ts \in Seq(Transitions(n)), reset \in BOOLEAN : Restore(reset, ts) =>
             (CheckpointIn(ts, pane) => CheckpointIn(transitions', pane))
      <4> SUFFICES ASSUME NEW ts \in Seq(Transitions(n)), NEW reset \in BOOLEAN, Restore(reset, ts),
                          CheckpointIn(ts, pane)
                   PROVE  CheckpointIn(transitions', pane)
        OBVIOUS
      <4>1. Attach(pane, reset) \in Transitions(n)
        BY <1>2, KnownParts, NewTransitions
      <4> QED BY <1>2, <4>1, CheckpointAppended DEF Restore
    <3>3. e.event = "attached" => /\ Tail(transitions) \in Seq(Transitions(n))
                                  /\ CheckpointIn(transitions, pane) => CheckpointIn(Tail(transitions), pane)
      BY <1>2, <3>1, TailFacts, CheckpointStays
    <3>4. e.event = "attached" /\ IsCurrent(e) => restoring # "sizing"
      <4> SUFFICES ASSUME e.event = "attached", IsCurrent(e) PROVE restoring = "attaching"
        OBVIOUS
      <4>1. Head(transitions) = transitions[1] /\ 1 \in 1 .. Len(transitions)
        BY <1>2, <3>1, TailFacts
      <4>2. AttachIn(transitions, pane)
        BY <3>1, <4>1 DEF AttachIn, IsCurrent
      <4> QED BY <1>3, <4>2 DEF RestoreInv, PlaceInv
    <3>5. CASE ReceiveResync
      BY <1>2, <3>2, <3>5 DEF ReceiveResync
    <3>6. CASE ReceiveSnapshot
      BY <3>3, <3>4, <3>6 DEF ReceiveSnapshot
    <3>7. CASE ReceiveFailure
      BY <3>2, <3>3, <3>4, <3>7 DEF ReceiveFailure
    <3> QED BY <1>6, <3>5, <3>6, <3>7
  <2>9. restoring = "sizing" \/ Records(r) => restoring' = "sizing" \/ Records(r)'
    BY <1>1, <2>2, <2>8 DEF Records
  <2> QED BY <1>1, <1>3, <2>3, <2>4, <2>5, <2>7, <2>9, NotedKept
<1> QED BY <1>1, <1>4, <1>5, <1>6

\* requestResync() forgets no checkpoint.
LEMMA ResyncRecords ==
    ASSUME Known, NEW r, RequestResync \/ UNCHANGED <<restoring, transitions>>,
           UNCHANGED <<pane, posts>>,
           (\E c \in captures : c.by = "transition") => \E c \in captures' : c.by = "transition"
    PROVE  restoring = "sizing" \/ Records(r) => restoring' = "sizing" \/ Records(r)'
<1>1. transitions \in Seq(Transitions(lastSequence)) /\ lastSequence \in Nat /\ pane \in Nat
  BY KnownParts
<1>2. CheckpointIn(transitions, pane) => CheckpointIn(transitions', pane)
  <2>1. CASE transitions' = transitions
    BY <2>1
  <2>2. CASE Restore(TRUE, transitions)
    <3>1. Attach(pane, TRUE) \in Transitions(lastSequence)
      BY <1>1, NewTransitions
    <3> QED BY <1>1, <2>2, <3>1, CheckpointAppended DEF Restore
  <2> QED BY <2>1, <2>2 DEF RequestResync
<1>3. restoring = "sizing" => restoring' = "sizing"
  BY DEF RequestResync
<1> QED BY <1>2, <1>3 DEF Records

LEMMA StartNoted ==
    ASSUME Known, RequestInv, StartOperation
    PROVE  RequestInv'
<1> DEFINE n == lastSequence
           o == Head(operations)
<1>1. /\ operations # <<>> /\ ~o.started /\ (\A c \in captures : c.behind > 0)
      /\ mounted' = mounted /\ pane' = pane /\ posts' = posts /\ needsFlush' = needsFlush /\ timer' = timer
      /\ UNCHANGED journalVars
      /\ StartBatch \/ StartRestoration
  BY DEF StartOperation, mount, outside
<1>2. /\ n \in Nat /\ applied \in 0 .. n /\ o \in Operations(n) /\ o = operations[1]
      /\ 1 \in 1 .. Len(operations)
  BY <1>1, KnownParts, TailFacts
<1> SUFFICES ASSUME NEW r \in 1 .. n, mounted', mounted => Noted(r) PROVE Noted(r)'
  BY <1>1, RequestKept
<1>3. Noted(r) /\ ~HeadStarted("restore") /\ ~HeadStarted("batch")
  BY <1>1 DEF HeadStarted
<1>4. ASSUME OperationEnds
      PROVE  /\ ~HeadStarted("batch")' /\ ~HeadStarted("restore")' /\ (Flushes => Flushes')
             /\ (\E c \in captures : c.by = "transition") => \E c \in captures' : c.by = "transition"
  BY <1>1, <1>4, NoneStarted DEF mount
<1>5. ASSUME captures' = captures PROVE Flushes => Flushes'
  BY <1>1, <1>5 DEF Flushes
<1>6. CASE Flushes
  <2>1. OperationEnds \/ captures' = captures
    BY <1>1, BatchStarts, RestorationStarts
  <2> QED BY <1>4, <1>5, <1>6, <2>1 DEF Noted
<1>7. CASE ~Flushes
  <2>1. /\ UnseenIn(operations, r)
        /\ Below(r) \/ (applied >= r /\ (restoring = "sizing" \/ Records(r)))
    BY <1>3, <1>7 DEF Noted
  <2>2. OperationEnds => UnseenIn(operations', r)
    BY <1>1, <2>1, UnseenRemoved DEF OperationEnds
  <2>3. CASE StartBatch
    <3> DEFINE reached == Contiguous(applied, o.chunks)
    <3>1. /\ o.kind = "batch" /\ applied' = applied /\ reached.at \in applied .. n
          /\ \/ OperationEnds
             \/ \E h : /\ operations' = [operations EXCEPT ![1] = h] /\ captures' = captures
                       /\ h.kind = "batch" /\ h.chunks = o.chunks /\ h.started = TRUE
                       /\ h.writes[1].upTo = reached.at
          /\ RequestResync \/ UNCHANGED <<restoring, transitions>>
      BY <1>1, <2>3, BatchStarts
    <3>2. applied < r => reached.at < r
      <4> SUFFICES ASSUME applied < r PROVE reached.at < r
        OBVIOUS
      <4>1. o.chunks \in Seq(Nat) /\ applied \in Nat /\ r \in Nat
        <5>1. o.chunks \in Seq(Nat)
          BY <1>2, OperationFacts
        <5>2. applied \in Nat /\ r \in Nat
          BY <1>2
        <5> QED BY <5>1, <5>2
      <4>2. \A i \in 1 .. Len(o.chunks) : o.chunks[i] # r
        BY <1>2, <2>1 DEF UnseenIn, Pieces
      <4> QED BY <4>1, <4>2, ContiguousFacts, Zenon
    <3> HIDE DEF reached
    <3>3. (\E c \in captures : c.by = "transition") => \E c \in captures' : c.by = "transition"
      BY <1>4, <3>1
    <3>4. restoring = "sizing" \/ Records(r) => restoring' = "sizing" \/ Records(r)'
      BY <1>1, <3>1, <3>3, ResyncRecords
    <3>5. UnseenIn(operations', r) /\ ~HeadStarted("restore")' /\ (Below(r) => Below(r)')
      <4>1. CASE OperationEnds
        BY <1>4, <2>2, <3>1, <4>1 DEF Below
      <4>2. CASE \E h : /\ operations' = [operations EXCEPT ![1] = h] /\ captures' = captures
                        /\ h.kind = "batch" /\ h.chunks = o.chunks /\ h.started = TRUE
                        /\ h.writes[1].upTo = reached.at
        <5>1. PICK h : /\ operations' = [operations EXCEPT ![1] = h]
                       /\ h.kind = "batch" /\ h.chunks = o.chunks /\ h.writes[1].upTo = reached.at
          BY <4>2
        <5>2. Head(operations') = h
          BY <1>1, <5>1, HeadReplaced
        <5>3. UnseenIn(operations', r)
          BY <1>1, <2>1, <5>1, UnseenReplaced
        <5>4. ~HeadStarted("restore")'
          BY <5>1, <5>2 DEF HeadStarted
        <5>5. Below(r) => Below(r)'
          BY <3>1, <3>2, <5>1, <5>2 DEF Below
        <5> QED BY <5>3, <5>4, <5>5
      <4> QED BY <3>1, <4>1, <4>2
    <3> QED BY <2>1, <3>1, <3>4, <3>5 DEF Noted
  <2>4. CASE StartRestoration
    <3>1. /\ \/ OperationEnds /\ RestorationEnds(FALSE) /\ applied' = o.snapshot.lastSequence
             \/ \E h : /\ operations' = [operations EXCEPT ![1] = h]
                       /\ h.kind = "restore" /\ h.chunks = o.chunks /\ h.started = TRUE
          /\ o.snapshot.lastSequence \in 0 .. n
      BY <1>1, <2>4, RestorationStarts
    <3>2. CASE OperationEnds /\ RestorationEnds(FALSE) /\ applied' = o.snapshot.lastSequence
      <4>1. restoring' = "sizing" /\ applied' \in 0 .. n
        BY <3>1, <3>2 DEF RestorationEnds
      <4>2. applied' < r \/ applied' >= r
        BY <1>2, <4>1
      <4>3. applied' < r => Below(r)'
        BY <1>4, <3>2 DEF Below
      <4> QED BY <2>2, <3>2, <4>1, <4>2, <4>3 DEF Noted
    <3>3. CASE \E h : /\ operations' = [operations EXCEPT ![1] = h]
                      /\ h.kind = "restore" /\ h.chunks = o.chunks /\ h.started = TRUE
      <4>1. PICK h : /\ operations' = [operations EXCEPT ![1] = h]
                     /\ h.kind = "restore" /\ h.chunks = o.chunks /\ h.started = TRUE
        BY <3>3
      <4>2. Head(operations') = h /\ operations' # <<>>
        BY <1>1, <4>1, HeadReplaced
      <4>3. UnseenIn(operations', r)
        BY <1>1, <2>1, <4>1, UnseenReplaced
      <4>4. HeadStarted("restore")'
        BY <4>1, <4>2 DEF HeadStarted
      <4> QED BY <4>3, <4>4 DEF Noted
    <3> QED BY <3>1, <3>2, <3>3
  <2> QED BY <1>1, <2>3, <2>4
<1> QED BY <1>6, <1>7

LEMMA ParseNoted ==
    ASSUME Known, BatchInv, RequestInv, Parse
    PROVE  RequestInv'
<1> DEFINE n == lastSequence
           o == Head(operations)
<1>1. /\ operations # <<>> /\ o.started /\ (\A c \in captures : c.behind > 0)
      /\ mounted' = mounted /\ pane' = pane /\ posts' = posts /\ needsFlush' = needsFlush /\ timer' = timer
      /\ transitions' = transitions /\ UNCHANGED journalVars /\ applied' = o.writes[1].upTo
      /\ \/ /\ o.kind = "restore"
            /\ \E h : /\ operations' = [operations EXCEPT ![1] = h]
                      /\ h.kind = o.kind /\ h.chunks = o.chunks /\ h.started = TRUE
            /\ UNCHANGED captures
         \/ /\ OperationEnds /\ o.kind = "restore" /\ RestorationEnds(FALSE)
         \/ /\ OperationEnds /\ o.kind = "batch" /\ UNCHANGED restoring
  BY Parsed DEF mount, outside
<1>2. /\ n \in Nat /\ applied \in 0 .. n /\ applied' \in Nat
  <2>1. o \in Operations(n) /\ n \in Nat /\ applied \in 0 .. n
    BY Parsed, KnownParts
  <2>2. o.writes \in Seq(Writes(n)) /\ o.writes # <<>>
    BY <1>1, <2>1, OperationFacts
  <2>3. o.writes[1] \in Writes(n)
    BY <2>2
  <2> QED BY <1>1, <2>1, <2>3 DEF Writes
<1> SUFFICES ASSUME NEW r \in 1 .. n, mounted', mounted => Noted(r) PROVE Noted(r)'
  BY <1>1, RequestKept
<1>3. ASSUME OperationEnds
      PROVE  /\ ~HeadStarted("batch")' /\ ~HeadStarted("restore")' /\ (Flushes => Flushes')
             /\ (\E c \in captures : c.by = "transition") => \E c \in captures' : c.by = "transition"
  BY <1>1, <1>3, NoneStarted DEF mount
<1>4. ASSUME captures' = captures PROVE Flushes => Flushes'
  BY <1>1, <1>4 DEF Flushes
<1>5. CASE Flushes
  BY <1>1, <1>3, <1>4, <1>5 DEF Noted
<1>6. CASE ~Flushes
  <2>1. /\ UnseenIn(operations, r)
        /\ \/ HeadStarted("restore") \/ Below(r)
           \/ (applied >= r /\ (restoring = "sizing" \/ Records(r)))
    BY <1>1, <1>6 DEF Noted
  <2>2. OperationEnds => UnseenIn(operations', r)
    BY <1>1, <2>1, UnseenRemoved DEF OperationEnds
  <2>3. OperationEnds /\ applied' < r => Below(r)'
    BY <1>3 DEF Below
  <2>4. CASE \E h : /\ operations' = [operations EXCEPT ![1] = h]
                    /\ h.kind = "restore" /\ h.chunks = o.chunks /\ h.started = TRUE
    <3>1. PICK h : /\ operations' = [operations EXCEPT ![1] = h]
                   /\ h.kind = "restore" /\ h.chunks = o.chunks /\ h.started = TRUE
      BY <2>4
    <3>2. Head(operations') = h /\ operations' # <<>>
      BY <1>1, <3>1, HeadReplaced
    <3>3. UnseenIn(operations', r)
      BY <1>1, <2>1, <3>1, UnseenReplaced
    <3>4. HeadStarted("restore")'
      BY <3>1, <3>2 DEF HeadStarted
    <3> QED BY <3>3, <3>4 DEF Noted
  <2>5. CASE OperationEnds /\ o.kind = "restore" /\ RestorationEnds(FALSE)
    <3>1. restoring' = "sizing" /\ (applied' < r \/ applied' >= r)
      BY <1>2, <2>5 DEF RestorationEnds
    <3> QED BY <2>2, <2>3, <2>5, <3>1 DEF Noted
  <2>6. CASE OperationEnds /\ o.kind = "batch" /\ UNCHANGED restoring
    <3>1. HeadStarted("batch") /\ ~HeadStarted("restore")
      BY <1>1, <2>6 DEF HeadStarted
    <3>2. applied <= applied'
      BY <1>1, <3>1 DEF BatchInv
    <3>3. CASE Below(r)
      <4>1. applied' < r
        BY <1>1, <3>1, <3>3 DEF Below
      <4> QED BY <2>2, <2>3, <2>6, <4>1 DEF Noted
    <3>4. CASE applied >= r /\ (restoring = "sizing" \/ Records(r))
      <4>1. applied' >= r
        BY <1>2, <3>2, <3>4
      <4>2. restoring' = "sizing" \/ Records(r)'
        BY <1>1, <1>3, <2>6, <3>4 DEF Records
      <4> QED BY <2>2, <2>6, <4>1, <4>2 DEF Noted
    <3> QED BY <2>1, <3>1, <3>3, <3>4
  <2> QED BY <1>1, <2>4, <2>5, <2>6
<1> QED BY <1>5, <1>6

LEMMA PaneStepsNoted ==
    ASSUME Known, FlowInv, RestoreInv, RequestInv,
           \/ Capture \/ TimerFires \/ FinishRestore \/ BeginCheckpoint \/ Unmount \/ Remount
           \/ OrphanAttach \/ SendLastCheckpoint \/ Detach
           \/ \E p \in posts : CheckpointAnswered(p)
    PROVE  RequestInv'
<1> DEFINE n == lastSequence
<1>1. /\ n \in Nat /\ transitions \in Seq(Transitions(n)) /\ pane \in Nat /\ applied \in 0 .. n
      /\ posts \subseteq Posts(n)
  BY KnownParts
<1>2. UNCHANGED journalVars
  BY DEF Capture, TimerFires, FinishRestore, BeginCheckpoint, Unmount, Remount, OrphanAttach,
         SendLastCheckpoint, Detach, CheckpointAnswered, outside
<1> SUFFICES ASSUME NEW r \in 1 .. n, mounted', mounted => Noted(r) PROVE Noted(r)'
  BY <1>2, RequestKept
<1>3. ASSUME UNCHANGED mount PROVE Noted(r)
  BY <1>3 DEF mount
\* What the steps below do not touch.
<1>4. ASSUME UNCHANGED mount, UNCHANGED reconciler, Flushes => Flushes',
             restoring = "sizing" \/ Records(r) => restoring' = "sizing" \/ Records(r)'
      PROVE  Noted(r)'
  <2>1. operations' = operations /\ applied' = applied
    BY <1>4 DEF reconciler
  <2>2. HeadStarted("restore") => HeadStarted("restore")'
    BY <2>1 DEF HeadStarted
  <2>3. Below(r) => Below(r)'
    BY <2>1 DEF Below, HeadStarted
  <2> QED BY <1>3, <1>4, <2>1, <2>2, <2>3, NotedKept
\* The chain keeps the checkpoints of the pane.
<1>5. ASSUME UNCHANGED <<mount, reconciler, restoration, scheduler>>, posts \subseteq posts',
             CheckpointIn(transitions, pane) => CheckpointIn(transitions', pane)
      PROVE  Noted(r)'
  <2>1. pane' = pane /\ restoring' = restoring /\ captures' = captures
        /\ needsFlush' = needsFlush /\ timer' = timer
    BY <1>5 DEF mount, restoration, scheduler
  <2>2. Flushes => Flushes'
    BY <1>5, <2>1 DEF Flushes
  <2>3. restoring = "sizing" \/ Records(r) => restoring' = "sizing" \/ Records(r)'
    BY <1>5, <2>1 DEF Records
  <2> QED BY <1>4, <1>5, <2>2, <2>3
<1>6. CASE Capture
  <2>1. PICK c \in captures : /\ captures' = captures \ {c}
                              /\ posts' = posts \cup {Post(c.by, pane, Shown)}
    BY <1>6 DEF Capture
  <2>2. /\ UNCHANGED <<mount, reconciler, restoration, transitions>>
        /\ needsFlush' = needsFlush /\ timer' = timer
    BY <1>6 DEF Capture
  <2>3. /\ Post(c.by, pane, Shown).by = c.by /\ Post(c.by, pane, Shown).pane = pane
        /\ Post(c.by, pane, Shown).answer = "none"
        /\ Post(c.by, pane, Shown).checkpoint.sequence = applied
    BY DEF Post, Shown
  <2>4. pane' = pane /\ restoring' = restoring /\ transitions' = transitions
        /\ operations' = operations /\ applied' = applied
    BY <2>2 DEF mount, restoration, reconciler
  <2>5. Flushes => Flushes'
    BY <2>1, <2>2, <2>3, <2>4 DEF Flushes
  <2>6. applied >= r /\ Records(r) => Records(r)'
    BY <2>1, <2>3, <2>4 DEF Records
  <2>7. HeadStarted("restore") => HeadStarted("restore")'
    BY <2>4 DEF HeadStarted
  <2>8. Below(r) => Below(r)'
    BY <2>4 DEF Below, HeadStarted
  <2> QED BY <1>3, <2>2, <2>4, <2>5, <2>6, <2>7, <2>8 DEF Noted
<1>7. CASE TimerFires
  BY <1>7, FlushNoted DEF TimerFires, Noted
<1>8. CASE FinishRestore
  <2> DEFINE more == Append(transitions, Recheckpoint)
  <2>1. /\ UNCHANGED <<mount, reconciler, scheduler, posts>>
        /\ Restore(TRUE, more) \/ transitions' = more
    BY <1>8 DEF FinishRestore
  <2>2. Recheckpoint \in Transitions(n) /\ Recheckpoint.kind = "checkpoint" /\ Recheckpoint.pane = pane
        /\ ~Recheckpoint.begun
    BY <1>1, NewTransitions DEF Recheckpoint, Transition
  <2>3. CheckpointIn(more, pane) /\ more \in Seq(Transitions(n))
    <3>1. more \in Seq(Transitions(n))
      BY <1>1, <2>2, AppendFacts
    <3> QED BY <1>1, <2>2, <3>1, CheckpointAppended
  <2> HIDE DEF more
  <2>4. Attach(pane, TRUE) \in Transitions(n)
    BY <1>1, NewTransitions
  <2>5. CheckpointIn(transitions', pane)
    BY <1>1, <2>1, <2>3, <2>4, CheckpointAppended DEF Restore
  <2>6. pane' = pane /\ needsFlush' = needsFlush /\ timer' = timer /\ captures' = captures /\ posts' = posts
    BY <2>1 DEF mount, scheduler
  <2>7. Records(r)'
    BY <2>5, <2>6 DEF Records
  <2>8. Flushes => Flushes'
    BY <2>6 DEF Flushes
  <2> QED BY <1>4, <2>1, <2>7, <2>8
<1>9. CASE BeginCheckpoint
  <2>1. /\ transitions # <<>> /\ Head(transitions).kind = "checkpoint" /\ ~Head(transitions).begun
        /\ UNCHANGED <<mount, reconciler, restoration>> /\ needsFlush' = needsFlush /\ timer' = timer
        /\ posts' = posts
    BY <1>9 DEF BeginCheckpoint
  <2>2. CASE mounted /\ Head(transitions).pane = pane
    <3>1. captures' = captures \cup {Await("transition")} /\ Await("transition").by = "transition"
      BY <1>9, <2>2 DEF BeginCheckpoint, Await
    <3>2. Records(r)'
      BY <3>1 DEF Records
    <3>3. Flushes => Flushes'
      BY <2>1, <3>1 DEF Flushes, mount
    <3> QED BY <1>4, <2>1, <3>2, <3>3
  <2>3. CASE ~ (mounted /\ Head(transitions).pane = pane)
    <3>1. transitions' = Tail(transitions) /\ captures' = captures
      BY <1>9, <2>3 DEF BeginCheckpoint
    <3>2. Head(transitions).pane # pane
      BY <2>1, <2>3 DEF mount
    <3>3. CheckpointIn(transitions, pane) => CheckpointIn(transitions', pane)
      BY <1>1, <2>1, <3>1, <3>2, CheckpointStays
    <3> QED BY <1>5, <2>1, <3>1, <3>3 DEF scheduler
  <2> QED BY <2>2, <2>3
<1>10. CASE Unmount
  BY <1>10 DEF Unmount
<1>11. CASE Remount
  <2>1. ~mounted /\ operations' = operations /\ applied' = applied
    BY <1>11 DEF Remount, reconciler
  <2>2. operations = <<>> /\ applied = 0
    BY <2>1 DEF RestoreInv, GoneInv
  <2>3. UnseenIn(operations', r)
    BY <2>1, <2>2 DEF UnseenIn
  <2>4. 0 < r
    BY <1>1
  <2>5. Below(r)'
    BY <2>1, <2>2, <2>4 DEF Below, HeadStarted
  <2> QED BY <2>3, <2>5 DEF Noted
<1>12. CASE OrphanAttach
  <2> DEFINE t == Attach(Gone, TRUE)
  <2>1. /\ transitions' = Append(transitions, t) /\ UNCHANGED <<mount, reconciler, scheduler, posts>>
        /\ restoring' = restoring
    BY <1>12 DEF OrphanAttach, Serialized
  <2>2. t \in Transitions(n)
    <3>1. Gone \in Nat /\ TRUE \in BOOLEAN
      BY DEF Gone
    <3> QED BY <1>1, <3>1, NewTransitions, Zenon
  <2> HIDE DEF t
  <2>3. CheckpointIn(transitions, pane) => CheckpointIn(transitions', pane)
    BY <1>1, <2>1, <2>2, CheckpointAppended
  <2>4. pane' = pane /\ captures' = captures /\ needsFlush' = needsFlush /\ timer' = timer
    BY <2>1 DEF mount, scheduler
  <2>5. Flushes => Flushes'
    BY <2>1, <2>4 DEF Flushes
  <2>6. restoring = "sizing" \/ Records(r) => restoring' = "sizing" \/ Records(r)'
    BY <2>1, <2>3, <2>4 DEF Records
  <2> QED BY <1>4, <2>1, <2>5, <2>6
<1>13. CASE SendLastCheckpoint
  <2>1. /\ transitions # <<>> /\ Head(transitions).kind = "leave" /\ transitions' = Begun
        /\ posts \subseteq posts' /\ UNCHANGED <<mount, reconciler, restoration, scheduler>>
    BY <1>13 DEF SendLastCheckpoint, Leaving
  <2>2. CheckpointIn(transitions, pane) => CheckpointIn(transitions', pane)
    BY <2>1, CheckpointNotBegun
  <2> QED BY <1>5, <2>1, <2>2
<1>14. CASE Detach
  <2>1. /\ transitions # <<>> /\ Head(transitions).kind = "leave" /\ transitions' = Tail(transitions)
        /\ posts' = posts /\ UNCHANGED <<mount, reconciler, restoration, scheduler>>
    BY <1>14 DEF Detach, Leaving
  <2>2. CheckpointIn(transitions, pane) => CheckpointIn(transitions', pane)
    BY <1>1, <2>1, CheckpointStays
  <2> QED BY <1>5, <2>1, <2>2
<1>15. ASSUME NEW p \in posts, CheckpointAnswered(p) PROVE Noted(r)'
  <2>1. /\ p.answer # "none" /\ posts' = posts \ {p}
        /\ transitions' = IF p.by = "transition" THEN Tail(transitions) ELSE transitions
        /\ IF p.by # "scheduler" \/ ~mounted \/ p.pane # pane
           THEN UNCHANGED <<needsFlush, captures>>
           ELSE IF p.answer = "refused" THEN needsFlush' = TRUE /\ UNCHANGED captures
           ELSE IF needsFlush THEN BeginFlush ELSE UNCHANGED <<needsFlush, captures>>
        /\ UNCHANGED <<mount, reconciler, restoration>> /\ timer' = timer
    BY <1>15 DEF CheckpointAnswered
  <2>2. pane' = pane /\ mounted' = mounted /\ restoring' = restoring
    BY <2>1 DEF mount, restoration
  <2>3. p.answer \in {"none", "accepted", "refused"}
    BY <1>1 DEF Posts
  <2>4. Flushes => Flushes'
    <3>1. CASE p.by # "scheduler" \/ p.pane # pane
      BY <2>1, <2>2, <3>1 DEF Flushes
    <3>2. CASE p.by = "scheduler" /\ p.pane = pane /\ p.answer = "refused"
      BY <2>1, <2>2, <3>2 DEF Flushes
    <3>3. CASE p.by = "scheduler" /\ p.pane = pane /\ p.answer = "accepted"
      <4>1. BeginFlush \/ (~needsFlush /\ UNCHANGED <<needsFlush, captures>>)
        BY <2>1, <2>2, <3>3
      <4>2. CASE BeginFlush
        BY <4>2, FlushNoted
      <4>3. CASE UNCHANGED <<needsFlush, captures>>
        BY <2>1, <2>2, <3>3, <4>3 DEF Flushes
      <4> QED BY <4>1, <4>2, <4>3
    <3> QED BY <2>1, <2>3, <3>1, <3>2, <3>3
  <2>5. captures \subseteq captures'
    BY <2>1 DEF BeginFlush
  <2>6. CheckpointIn(transitions, pane) => CheckpointIn(transitions', pane)
    <3>1. CASE p.by = "transition"
      <4>1. transitions # <<>> /\ Head(transitions).begun
        BY <3>1 DEF FlowInv, TurnInv, CheckpointBegun
      <4> QED BY <1>1, <2>1, <3>1, <4>1, CheckpointStays
    <3>2. CASE p.by # "transition"
      BY <2>1, <3>2
    <3> QED BY <3>1, <3>2
  <2>7. Records(r) => Records(r)'
    BY <2>1, <2>2, <2>5, <2>6 DEF Records
  <2> QED BY <1>4, <2>1, <2>2, <2>4, <2>7
<1> QED BY <1>6, <1>7, <1>8, <1>9, <1>10, <1>11, <1>12, <1>13, <1>14, <1>15

LEMMA NextRequest ==
    ASSUME CoreInv, BatchInv, RequestInv, [Next]_vars
    PROVE  RequestInv'
<1>1. Known /\ FlowInv /\ RestoreInv
  BY DEF CoreInv
<1>2. CASE UNCHANGED vars
  <2>1. UNCHANGED <<paneVars, posts>> /\ UNCHANGED journalVars
    BY <1>2 DEF vars, outside
  <2>2. mounted' = mounted
    BY <2>1 DEF paneVars, mount
  <2> QED BY <2>1, <2>2, NotedSame, RequestKept
<1> QED BY <1>1, <1>2, MainStepsRequest, OutputRequest, ServeRequest, ReceiveNoted, StartNoted, ParseNoted,
           PaneStepsNoted DEF Next, Progress

LEMMA InitRequest == Init => BatchInv /\ RequestInv
  BY DEF Init, Service!Init, BatchInv, HeadStarted, RequestInv

LEMMA RequestHolds == Spec => [](CoreInv /\ BatchInv /\ RequestInv)
<1>1. Init => CoreInv /\ BatchInv /\ RequestInv
  BY InitCore, InitRequest
<1>2. CoreInv /\ BatchInv /\ RequestInv /\ [Next]_vars => (CoreInv /\ BatchInv /\ RequestInv)'
  BY NextCore, NextBatch, NextRequest
<1> QED BY <1>1, <1>2, PTL DEF Spec

(* Nothing that was asked of a pane at rest is forgotten: a gap it noticed   *)
(* has been restored, and a checkpoint that the service asks for once was    *)
(* taken, or is still noted as due.                                          *)
THEOREM RequestsAreKept == Spec => []RequestIsKept
<1>1. CoreInv /\ BatchInv /\ RequestInv => RequestIsKept
  <2> SUFFICES ASSUME CoreInv, RequestInv, AtRest
               PROVE  ~resyncRequested /\ (applied = lastSequence /\ checkpointRequested => needsFlush)
    BY DEF RequestIsKept
  <2>1. /\ operations = <<>> /\ restoring = "no" /\ transitions = <<>> /\ captures = {} /\ posts = {}
        /\ ~timer /\ mounted /\ ~paneError
    BY DEF AtRest, Quiescent
  <2>2. ~resyncRequested
    BY <2>1 DEF CoreInv, RestoreInv, GapInv, RestoreWaits
  <2>3. ASSUME applied = lastSequence, checkpointRequested, ~needsFlush PROVE FALSE
    <3>1. PICK r \in 1 .. lastSequence : Noted(r)
      BY <2>1, <2>3 DEF RequestInv
    <3>2. ~Flushes /\ ~HeadStarted("restore")
      BY <2>1, <2>3 DEF Flushes, HeadStarted
    <3>3. ~Below(r)
      <4>1. lastSequence \in Nat
        BY KnownParts DEF CoreInv
      <4>2. ~ (lastSequence < r)
        BY <4>1
      <4> QED BY <2>3, <4>2 DEF Below
    <3>4. ~Records(r)
      BY <2>1 DEF Records, CheckpointIn
    <3> QED BY <2>1, <3>1, <3>2, <3>3, <3>4 DEF Noted
  <2> QED BY <2>2, <2>3
<1> QED BY RequestHolds, <1>1, PTL

-----------------------------------------------------------------------------
(* Output that is on its way.                                                *)

InWire(s)       == \E i \in 1 .. Len(wire) : wire[i].event = "output" /\ wire[i].sequence = s
InChannel(s, k) == \E i \in 1 .. Len(channel) :
                       i > k /\ channel[i].event = "output" /\ channel[i].sequence = s
Coming(s)       == InChannel(s, 0) \/ InWire(s)
InQueue(s, k)   == \E i \in 1 .. Len(operations) : i > k /\ s \in Pieces(operations[i])
Waiting(s)      == \E i \in 1 .. Len(operations) : ~operations[i].started /\ s \in Pieces(operations[i])

\* What the attachment under way passes over, until it is answered.
PassedInv ==
    exchange.phase \in {"answered", "subscribing"} =>
        exchange.snapshot.lastSequence + 1 .. lastSequence \subseteq crossing

\* What an answer does not bring, comes after it.
RepliedInv ==
    attachment = "open" =>
        \A k \in 1 .. Len(channel) : channel[k].event = "attached" /\ channel[k].ok =>
            \A s \in channel[k].snapshot.lastSequence + 1 .. lastSequence :
                s \in crossing \/ InChannel(s, k) \/ InWire(s)

\* The pane receives the events of its own attachment.
Following == mounted /\ attachment = "open" /\ subscriber = pane /\ exchange.phase # "answered"

\* What a queued restoration does not bring, comes after it.
QueuedInv ==
    Following =>
        \A k \in 1 .. Len(operations) : operations[k].kind = "restore" =>
            \A s \in operations[k].snapshot.lastSequence + 1 .. lastSequence :
                s \in crossing \/ InQueue(s, k) \/ Coming(s)

\* What a pane lacks that restores nothing, is on its way to it.
Undisturbed == restoring \in {"no", "sizing"} /\ ~restoreAgain /\ ~paneError
ShownInv ==
    Following /\ Undisturbed =>
        \A s \in applied + 1 .. lastSequence :
            \/ s \in crossing \/ Waiting(s) \/ Coming(s)
            \/ HeadStarted("batch") /\ s <= Head(operations).writes[1].upTo

ArrivalInv == PassedInv /\ RepliedInv /\ QueuedInv /\ ShownInv

-----------------------------------------------------------------------------

LEMMA MainParts ==
    ASSUME Known
    PROVE  /\ wire \in Seq(WireEvents(lastSequence)) /\ Len(wire) \in Nat
           /\ exchange \in Exchanges(lastSequence)
           /\ channel \in Seq(Events(lastSequence)) /\ Len(channel) \in Nat
           /\ lastSequence \in Nat
<1>1. wire \in Seq(WireEvents(lastSequence))
  BY DEF Known, MainKnown
<1> QED BY <1>1, KnownParts

\* An event joins the channel.
LEMMA ChannelGrows ==
    ASSUME Known, NEW e \in Events(lastSequence), channel' = Append(channel, e), NEW s, NEW k \in 0 .. Len(channel)
    PROVE  /\ InChannel(s, k) => InChannel(s, k)'
           /\ e.event = "output" /\ e.sequence = s => InChannel(s, k)'
           /\ Len(channel') = Len(channel) + 1 /\ channel'[Len(channel) + 1] = e
           /\ \A i \in 1 .. Len(channel) : channel'[i] = channel[i]
<1>1. /\ Len(channel) \in Nat /\ Len(channel') = Len(channel) + 1
      /\ \A i \in 1 .. Len(channel) : channel'[i] = channel[i]
      /\ channel'[Len(channel) + 1] = e
  BY MainParts, AppendFacts
<1>2. /\ \A i \in 1 .. Len(channel) : i \in 1 .. Len(channel')
      /\ Len(channel) + 1 \in 1 .. Len(channel') /\ Len(channel) + 1 > k
  BY <1>1
<1> QED BY <1>1, <1>2 DEF InChannel

\* The head of the channel is received.
LEMMA ChannelShrinks ==
    ASSUME Known, channel # <<>>, channel' = Tail(channel), NEW s
    PROVE  /\ InChannel(s, 0) => (Head(channel).event = "output" /\ Head(channel).sequence = s) \/ InChannel(s, 0)'
           /\ \A k \in 1 .. Len(channel) : InChannel(s, k) => InChannel(s, k - 1)'
           /\ Len(channel) \in Nat \ {0} /\ Len(channel') = Len(channel) - 1 /\ Head(channel) = channel[1]
           /\ \A i \in 1 .. Len(channel') : channel'[i] = channel[i + 1]
<1>1. /\ Len(channel) \in Nat \ {0} /\ Len(channel') = Len(channel) - 1 /\ Head(channel) = channel[1]
      /\ \A i \in 1 .. Len(channel) - 1 : channel'[i] = channel[i + 1]
  BY MainParts, TailFacts
<1>2. \A i \in 1 .. Len(channel) : i # 1 =>
        i - 1 \in 1 .. Len(channel') /\ channel'[i - 1] = channel[i] /\ i - 1 > 0
  <2> SUFFICES ASSUME NEW i \in 1 .. Len(channel), i # 1
               PROVE  i - 1 \in 1 .. Len(channel') /\ channel'[i - 1] = channel[i] /\ i - 1 > 0
    OBVIOUS
  <2>1. i - 1 \in 1 .. Len(channel) - 1 /\ (i - 1) + 1 = i /\ i - 1 > 0
    BY <1>1
  <2>2. channel'[i - 1] = channel[(i - 1) + 1]
    BY <1>1, <2>1
  <2> QED BY <1>1, <2>1, <2>2
<1>3. InChannel(s, 0) => (Head(channel).event = "output" /\ Head(channel).sequence = s) \/ InChannel(s, 0)'
  BY <1>1, <1>2 DEF InChannel
<1>4. ASSUME NEW k \in 1 .. Len(channel), InChannel(s, k) PROVE InChannel(s, k - 1)'
  <2>1. PICK i \in 1 .. Len(channel) : i > k /\ channel[i].event = "output" /\ channel[i].sequence = s
    BY <1>4 DEF InChannel
  <2>2. i # 1 /\ i - 1 > k - 1
    BY <1>1, <2>1
  <2> QED BY <1>2, <2>1, <2>2 DEF InChannel
<1> QED BY <1>1, <1>3, <1>4

\* The next event of the wire goes into the channel.
LEMMA WireForwarded ==
    ASSUME Known, Forward, NEW s, NEW k \in 0 .. Len(channel)
    PROVE  /\ Head(wire) \in Events(lastSequence) /\ Head(wire).event # "attached"
           /\ InChannel(s, k) \/ InWire(s) => InChannel(s, k)' \/ InWire(s)'
<1>1. /\ wire # <<>> /\ wire' = Tail(wire) /\ channel' = Append(channel, Head(wire))
  BY DEF Forward
<1>2. /\ Head(wire) \in WireEvents(lastSequence) /\ Head(wire) = wire[1] /\ Len(wire) \in Nat \ {0}
      /\ Len(wire') = Len(wire) - 1 /\ \A i \in 1 .. Len(wire) - 1 : wire'[i] = wire[i + 1]
  BY <1>1, MainParts, TailFacts
<1>3. Head(wire) \in Events(lastSequence) /\ Head(wire).event # "attached"
  BY <1>2 DEF WireEvents, Events, RequestEvent
<1>4. /\ InChannel(s, k) => InChannel(s, k)'
      /\ Head(wire).event = "output" /\ Head(wire).sequence = s => InChannel(s, k)'
  BY <1>1, <1>3, ChannelGrows
<1>5. ASSUME InWire(s) PROVE InWire(s)' \/ (Head(wire).event = "output" /\ Head(wire).sequence = s)
  <2>1. PICK i \in 1 .. Len(wire) : wire[i].event = "output" /\ wire[i].sequence = s
    BY <1>5 DEF InWire
  <2>2. CASE i = 1
    BY <1>2, <2>1, <2>2
  <2>3. CASE i # 1
    <3>1. i - 1 \in 1 .. Len(wire') /\ wire'[i - 1] = wire[(i - 1) + 1] /\ (i - 1) + 1 = i
      BY <1>2, <2>3
    <3> QED BY <2>1, <3>1 DEF InWire
  <2> QED BY <2>2, <2>3
<1> QED BY <1>3, <1>4, <1>5

\* A piece that is put out while the socket stays open, is sent.
LEMMA OutputSent ==
    ASSUME Known, Output, attachment' = "open"
    PROVE  /\ attachment = "open"
           /\ \A s : s = lastSequence + 1 \/ InWire(s) => InWire(s)'
<1> DEFINE chunk == ChunkEvent(lastSequence')
<1>1. lastSequence \in Nat /\ lastSequence' = lastSequence + 1
  BY OutputKnown
<1>2. PICK events \in {<<chunk, RequestEvent>>, <<chunk>>} : Emit(events)
  BY DEF Output
<1>3. attachment = "open"
  BY <1>2 DEF Emit
<1>4. wire' = wire \o SubSeq(events, 1, Len(events))
  <2>1. PICK sent \in 0 .. Len(events) :
           /\ wire' = wire \o SubSeq(events, 1, sent)
           /\ attachment' = IF sent = Len(events) THEN "open" ELSE "closing"
    BY <1>2, <1>3 DEF Emit
  <2>2. sent = Len(events)
    BY <2>1
  <2> QED BY <2>1, <2>2
<1>5. /\ chunk \in WireEvents(lastSequence') /\ RequestEvent \in WireEvents(lastSequence')
      /\ chunk.event = "output" /\ chunk.sequence = lastSequence + 1
  BY <1>1 DEF WireEvents, ChunkEvent
<1>6. wire \in Seq(WireEvents(lastSequence'))
  <2>1. wire \in Seq(WireEvents(lastSequence)) /\ WireEvents(lastSequence) \subseteq WireEvents(lastSequence')
    BY <1>1, MainParts, KnownGrows
  <2> QED BY <2>1, SeqGrows
<1> DEFINE W == WireEvents(lastSequence')
           more == SubSeq(events, 1, Len(events))
<1>7. chunk \in W /\ RequestEvent \in W /\ wire \in Seq(W)
  BY <1>5, <1>6
<1> HIDE DEF chunk, W
<1>8. more \in Seq(W) /\ more # <<>> /\ more[1] = chunk
  <2>1. CASE events = <<chunk, RequestEvent>>
    BY <1>7, <2>1
  <2>2. CASE events = <<chunk>>
    BY <1>7, <2>2
  <2> QED BY <2>1, <2>2
<1> HIDE DEF more
<1>9. /\ Len(wire) \in Nat /\ Len(more) \in Nat \ {0} /\ Len(wire') = Len(wire) + Len(more)
      /\ \A i \in 1 .. Len(wire) : wire'[i] = wire[i]
      /\ \A i \in Len(wire) + 1 .. Len(wire) + Len(more) : wire'[i] = more[i - Len(wire)]
  <2>1. wire' = wire \o more
    BY <1>4 DEF more
  <2> QED BY <1>7, <1>8, <2>1, ConcatFacts
<1>10. Len(wire) + 1 \in 1 .. Len(wire') /\ wire'[Len(wire) + 1] = chunk
  <2>1. Len(wire) + 1 \in Len(wire) + 1 .. Len(wire) + Len(more) /\ (Len(wire) + 1) - Len(wire) = 1
    BY <1>9
  <2>2. Len(wire) + 1 \in 1 .. Len(wire')
    BY <1>9
  <2> QED BY <1>8, <1>9, <2>1, <2>2
<1>11. \A s : s = lastSequence + 1 => InWire(s)'
  BY <1>5, <1>10 DEF InWire
<1>12. \A s : InWire(s) => InWire(s)'
  <2>1. \A i \in 1 .. Len(wire) : i \in 1 .. Len(wire')
    BY <1>9
  <2> QED BY <1>9, <2>1 DEF InWire
<1> QED BY <1>3, <1>11, <1>12

\* Steps outside the pane bring nothing out of sight.
LEMMA PaneUnmoved ==
    ASSUME Known, QueuedInv, ShownInv, UNCHANGED <<pane, mounted, operations, applied, restoring, restoreAgain, paneError>>,
           lastSequence' \in Nat,
           Following' => /\ Following
                         /\ \A s \in 1 .. lastSequence : s \in crossing \/ Coming(s) => s \in crossing' \/ Coming(s)'
                         /\ \A s \in lastSequence + 1 .. lastSequence' : s \in crossing' \/ Coming(s)'
    PROVE  QueuedInv' /\ ShownInv'
<1>1. lastSequence \in Nat /\ applied \in 0 .. lastSequence /\ operations \in Seq(Operations(lastSequence))
  BY KnownParts
<1>2. ASSUME Following', NEW k \in 1 .. Len(operations), operations[k].kind = "restore",
             NEW s \in operations[k].snapshot.lastSequence + 1 .. lastSequence'
      PROVE  s \in crossing' \/ InQueue(s, k) \/ Coming(s)'
  <2>1. operations[k] \in Operations(lastSequence)
    BY <1>1
  <2>2. operations[k].snapshot \in Snapshots(lastSequence)
    BY <1>1, <1>2, <2>1, OperationFacts
  <2>3. operations[k].snapshot.lastSequence \in Nat
    BY <1>1, <2>2 DEF Snapshots
  <2>4. PICK m \in Nat : m = operations[k].snapshot.lastSequence
    BY <2>3
  <2>5. s \in m + 1 .. lastSequence'
    BY <1>2, <2>4
  <2>6. (s \in 1 .. lastSequence /\ s \in m + 1 .. lastSequence) \/ s \in lastSequence + 1 .. lastSequence'
    BY <1>1, <2>4, <2>5
  <2>7. CASE s \in lastSequence + 1 .. lastSequence'
    BY <1>2, <2>7
  <2>8. CASE s \in 1 .. lastSequence /\ s \in m + 1 .. lastSequence
    <3>1. s \in crossing \/ InQueue(s, k) \/ Coming(s)
      BY <1>2, <2>4, <2>8 DEF QueuedInv
    <3> QED BY <1>2, <2>8, <3>1
  <2> QED BY <2>6, <2>7, <2>8
<1>3. QueuedInv'
  BY <1>2 DEF QueuedInv, InQueue
<1>4. ASSUME Following', Undisturbed, NEW s \in applied + 1 .. lastSequence'
      PROVE  \/ s \in crossing' \/ Waiting(s) \/ Coming(s)'
             \/ HeadStarted("batch") /\ s <= Head(operations).writes[1].upTo
  <2>1. (s \in 1 .. lastSequence /\ s \in applied + 1 .. lastSequence) \/ s \in lastSequence + 1 .. lastSequence'
    BY <1>1, <1>4
  <2>2. CASE s \in lastSequence + 1 .. lastSequence'
    BY <1>4, <2>2
  <2>3. CASE s \in 1 .. lastSequence /\ s \in applied + 1 .. lastSequence
    <3>1. \/ s \in crossing \/ Waiting(s) \/ Coming(s)
          \/ HeadStarted("batch") /\ s <= Head(operations).writes[1].upTo
      BY <1>4, <2>3 DEF ShownInv
    <3> QED BY <1>4, <2>3, <3>1
  <2> QED BY <2>1, <2>2, <2>3
<1>5. ShownInv'
  <2>1. Undisturbed' = Undisturbed /\ applied' = applied /\ (\A s : Waiting(s)' = Waiting(s))
        /\ HeadStarted("batch")' = HeadStarted("batch") /\ operations' = operations
    BY DEF Undisturbed, Waiting, HeadStarted
  <2> QED BY <1>4, <2>1 DEF ShownInv
<1> QED BY <1>3, <1>5

\* No answer is on its way before the exchange is replied to.
LEMMA NoAnswer ==
    ASSUME FlowInv, exchange.phase # "replied"
    PROVE  \A i \in 1 .. Len(channel) : channel[i].event # "attached"
  BY DEF FlowInv, AnswerInv

\* While the socket is opened for the pane, its restore is at the attachment.
LEMMA SubscribingRestores ==
    ASSUME Known, FlowInv, RestoreInv, mounted, exchange.phase = "subscribing", subscriber = pane
    PROVE  restoring = "attaching" /\ ~RestoreIn(operations) /\ ~Undisturbed
<1>1. transitions # <<>> /\ Head(transitions).kind = "attach" /\ Head(transitions).pane = pane
  BY DEF FlowInv, AttachUnderWay, SocketInv, Attaching
<1>2. Head(transitions) = transitions[1] /\ 1 \in 1 .. Len(transitions)
  BY <1>1, KnownParts, TailFacts
<1>3. AttachIn(transitions, pane)
  BY <1>1, <1>2 DEF AttachIn
<1> QED BY <1>3 DEF RestoreInv, PlaceInv, Undisturbed

LEMMA InitArrival == Init => ArrivalInv
<1> SUFFICES ASSUME Init PROVE ArrivalInv
  OBVIOUS
<1>1. /\ exchange = NoExchange /\ attachment = "none"
  BY DEF Init
<1> QED BY <1>1 DEF ArrivalInv, PassedInv, RepliedInv, QueuedInv, ShownInv, Following, NoExchange

LEMMA MainStepsArrival ==
    ASSUME Known, FlowInv, RestoreInv, ArrivalInv,
           \/ ReadPty \/ AnswerAttach \/ Subscribe \/ OpenSocket \/ AttachReply \/ AttachFails
           \/ Forward \/ SocketClosed \/ \E p \in posts : ServeCheckpoint(p)
    PROVE  ArrivalInv'
<1>1. lastSequence' = lastSequence /\ lastSequence \in Nat /\ AttachUnderWay
  <2>1. AttachUnderWay
    BY DEF FlowInv
  <2> QED BY <2>1, MainStepsKnown, KnownParts
<1>2. UNCHANGED paneVars
  BY DEF ReadPty, AnswerAttach, Subscribe, OpenSocket, AttachReply, AttachFails, Forward, SocketClosed, ServeCheckpoint
<1>3. UNCHANGED <<pane, mounted, operations, applied, restoring, restoreAgain, paneError>>
  BY <1>2 DEF paneVars, mount, reconciler, restoration
<1>4. ASSUME Following' => /\ Following
                           /\ \A s \in 1 .. lastSequence : s \in crossing \/ Coming(s) => s \in crossing' \/ Coming(s)'
      PROVE  QueuedInv' /\ ShownInv'
  <2>1. \A s \in lastSequence + 1 .. lastSequence' : FALSE
    BY <1>1
  <2>2. QueuedInv /\ ShownInv /\ lastSequence' \in Nat
    BY <1>1 DEF ArrivalInv
  <2>3. Following' => /\ Following
                      /\ \A s \in 1 .. lastSequence : s \in crossing \/ Coming(s) => s \in crossing' \/ Coming(s)'
                      /\ \A s \in lastSequence + 1 .. lastSequence' : s \in crossing' \/ Coming(s)'
    BY <1>4, <2>1
  <2> QED BY <1>3, <2>2, <2>3, PaneUnmoved
<1>5. channel \in Seq(Events(lastSequence)) /\ Len(channel) \in Nat
  BY KnownParts
<1>6. CASE ReadPty \/ \E p \in posts : ServeCheckpoint(p)
  <2>1. UNCHANGED <<attachment, wire, exchange, channel, crossing, subscriber>>
    BY <1>6 DEF ReadPty, ServeCheckpoint, mainVars, history
  <2>2. PassedInv' /\ RepliedInv'
    BY <1>1, <2>1 DEF ArrivalInv, PassedInv, RepliedInv, InChannel, InWire
  <2>3. Following' => Following /\ \A s : s \in crossing \/ Coming(s) => s \in crossing' \/ Coming(s)'
    BY <1>3, <2>1 DEF Following, Coming, InChannel, InWire
  <2> QED BY <1>4, <2>2, <2>3 DEF ArrivalInv
<1>7. CASE AnswerAttach
  <2>1. /\ exchange' = [phase |-> "answered", snapshot |-> Service!Snapshot] /\ exchange = NoExchange
        /\ channel' = channel
    BY <1>7 DEF AnswerAttach
  <2>2. Service!Snapshot.lastSequence = lastSequence
    BY SnapshotKnown DEF Known
  <2>3. PassedInv'
    <3>1. exchange'.snapshot.lastSequence = lastSequence
      BY <2>1, <2>2
    <3>2. exchange'.snapshot.lastSequence + 1 .. lastSequence' = {}
      BY <1>1, <3>1
    <3> QED BY <3>2 DEF PassedInv
  <2>4. RepliedInv'
    <3>1. exchange.phase # "replied"
      BY <2>1 DEF NoExchange
    <3> QED BY <2>1, <3>1, NoAnswer DEF RepliedInv
  <2>5. ~Following'
    BY <2>1 DEF Following
  <2> QED BY <1>4, <2>3, <2>4, <2>5 DEF ArrivalInv
<1>8. CASE Subscribe
  <2>1. /\ exchange' = [exchange EXCEPT !.phase = "subscribing"] /\ exchange.phase = "answered"
        /\ attachment' = "opening" /\ crossing' = crossing
    BY <1>8 DEF Subscribe
  <2>2. exchange'.snapshot = exchange.snapshot
    <3>1. exchange \in [phase : {"answered", "subscribing"}, snapshot : Snapshots(lastSequence)]
      BY <2>1, KnownParts DEF Exchanges, NoExchange
    <3> QED BY <2>1, <3>1
  <2>3. PassedInv'
    BY <1>1, <2>1, <2>2 DEF ArrivalInv, PassedInv
  <2> QED BY <1>4, <2>1, <2>3 DEF ArrivalInv, RepliedInv, Following
<1>9. CASE OpenSocket
  <2>1. /\ attachment = "opening" /\ UNCHANGED <<wire, exchange, channel, crossing, subscriber>>
    BY <1>9 DEF OpenSocket, history
  <2>2. exchange.phase = "subscribing"
    BY <2>1 DEF FlowInv, SocketInv
  <2>3. PassedInv'
    BY <1>1, <2>1 DEF ArrivalInv, PassedInv
  <2>4. RepliedInv'
    BY <2>1, <2>2, NoAnswer DEF RepliedInv
  <2>5. Following' => ~RestoreIn(operations) /\ ~Undisturbed
    BY <1>3, <2>1, <2>2, SubscribingRestores DEF Following
  <2>6. QueuedInv' /\ ShownInv'
    <3>1. RestoreIn(operations)' = RestoreIn(operations) /\ Undisturbed' = Undisturbed
      BY <1>3 DEF RestoreIn, Undisturbed
    <3> QED BY <2>5, <3>1 DEF QueuedInv, ShownInv, RestoreIn
  <2> QED BY <2>3, <2>4, <2>6 DEF ArrivalInv
<1>10. CASE AttachReply
  <2> DEFINE e == Reply(TRUE)
  <2>1. /\ exchange.phase = "subscribing" /\ exchange' = [phase |-> "replied"] /\ channel' = Append(channel, e)
        /\ UNCHANGED <<attachment, wire, crossing, subscriber>>
    BY <1>10 DEF AttachReply, history
  <2>2. e \in Events(lastSequence) /\ e.snapshot = exchange.snapshot
    <3>1. exchange.snapshot \in Snapshots(lastSequence)
      BY <2>1, KnownParts DEF Exchanges, NoExchange
    <3>2. Head(transitions) \in Transitions(lastSequence)
      <4>1. transitions # <<>>
        BY <2>1 DEF FlowInv, AttachUnderWay, Attaching
      <4> QED BY <4>1, KnownParts, TailFacts
    <3>3. Head(transitions).pane \in Nat /\ Head(transitions).reset \in BOOLEAN
      BY <3>2 DEF Transitions
    <3> QED BY <3>1, <3>3 DEF Reply, Events, Replies
  <2> HIDE DEF e
  <2>3. /\ \A s : Coming(s) => Coming(s)'
        /\ Len(channel') = Len(channel) + 1 /\ channel'[Len(channel) + 1] = e
        /\ \A i \in 1 .. Len(channel) : channel'[i] = channel[i]
    <3>1. 0 \in 0 .. Len(channel)
      BY <1>5
    <3>2. \A s : InWire(s)' = InWire(s)
      BY <2>1 DEF InWire
    <3> QED BY <2>1, <2>2, <3>1, <3>2, ChannelGrows DEF Coming
  <2>4. PassedInv'
    BY <2>1 DEF PassedInv
  <2>5. RepliedInv'
    <3>1. \A k \in 1 .. Len(channel') : k \in 1 .. Len(channel) \/ k = Len(channel) + 1
      BY <1>5, <2>3
    <3>2. \A k \in 1 .. Len(channel) : channel'[k].event # "attached"
      BY <2>1, <2>3, NoAnswer
    <3>3. \A s \in e.snapshot.lastSequence + 1 .. lastSequence : s \in crossing
      BY <2>1, <2>2 DEF ArrivalInv, PassedInv
    <3> QED BY <1>1, <2>1, <2>3, <3>1, <3>2, <3>3 DEF RepliedInv
  <2>6. Following' => Following /\ \A s : s \in crossing \/ Coming(s) => s \in crossing' \/ Coming(s)'
    BY <1>3, <2>1, <2>3 DEF Following
  <2> QED BY <1>4, <2>4, <2>5, <2>6 DEF ArrivalInv
<1>11. CASE AttachFails
  <2> DEFINE e == Reply(FALSE)
  <2>1. /\ exchange.phase \in {"idle", "subscribing"} /\ exchange' = [phase |-> "replied"]
        /\ channel' = Append(channel, e)
        /\ attachment' \in {attachment, "none"}
        /\ UNCHANGED <<wire, crossing, subscriber>>
    BY <1>11 DEF AttachFails, history, NoExchange
  <2>2. e \in Events(lastSequence) /\ e.ok = FALSE
    <3>1. transitions # <<>>
      BY <1>11 DEF AttachFails, FlowInv, AttachUnderWay, Attaching, NoExchange
    <3>2. Head(transitions) \in Transitions(lastSequence)
      BY <3>1, KnownParts, TailFacts
    <3>3. Head(transitions).pane \in Nat /\ Head(transitions).reset \in BOOLEAN
      BY <3>2 DEF Transitions
    <3> QED BY <3>3 DEF Reply, Events, Replies
  <2> HIDE DEF e
  <2>3. /\ \A s : Coming(s) => Coming(s)'
        /\ Len(channel') = Len(channel) + 1 /\ channel'[Len(channel) + 1] = e
        /\ \A i \in 1 .. Len(channel) : channel'[i] = channel[i]
    <3>1. 0 \in 0 .. Len(channel)
      BY <1>5
    <3>2. \A s : InWire(s)' = InWire(s)
      BY <2>1 DEF InWire
    <3> QED BY <2>1, <2>2, <3>1, <3>2, ChannelGrows DEF Coming
  <2>4. PassedInv'
    BY <2>1 DEF PassedInv
  <2>5. RepliedInv'
    <3>1. \A k \in 1 .. Len(channel') : k \in 1 .. Len(channel) \/ k = Len(channel) + 1
      BY <1>5, <2>3
    <3>2. \A k \in 1 .. Len(channel) : channel'[k].event # "attached"
      BY <2>1, <2>3, NoAnswer
    <3> QED BY <2>2, <2>3, <3>1, <3>2 DEF RepliedInv
  <2>6. Following' => Following /\ \A s : s \in crossing \/ Coming(s) => s \in crossing' \/ Coming(s)'
    BY <1>3, <2>1, <2>3 DEF Following
  <2> QED BY <1>4, <2>4, <2>5, <2>6 DEF ArrivalInv
<1>12. CASE Forward
  <2>1. /\ channel' = Append(channel, Head(wire))
        /\ UNCHANGED <<attachment, exchange, crossing, subscriber>>
    BY <1>12 DEF Forward, history
  <2>2. /\ Head(wire) \in Events(lastSequence) /\ Head(wire).event # "attached"
        /\ \A s : \A k \in 0 .. Len(channel) : InChannel(s, k) \/ InWire(s) => InChannel(s, k)' \/ InWire(s)'
        /\ 0 \in 0 .. Len(channel)
    <3>1. 0 \in 0 .. Len(channel)
      BY <1>5
    <3> QED BY <1>12, <3>1, WireForwarded
  <2>3. /\ Len(channel') = Len(channel) + 1 /\ channel'[Len(channel) + 1] = Head(wire)
        /\ \A i \in 1 .. Len(channel) : channel'[i] = channel[i]
    BY <1>5, <2>1, <2>2, AppendFacts
  <2>4. PassedInv'
    BY <1>1, <2>1 DEF ArrivalInv, PassedInv
  <2>5. RepliedInv'
    <3>1. \A k \in 1 .. Len(channel') : (k \in 1 .. Len(channel) /\ k \in 0 .. Len(channel)) \/ k = Len(channel) + 1
      BY <1>5, <2>3
    <3>2. RepliedInv
      BY DEF ArrivalInv
    <3> SUFFICES ASSUME attachment = "open", NEW k \in 1 .. Len(channel'), channel'[k].event = "attached", channel'[k].ok,
                        NEW s \in channel'[k].snapshot.lastSequence + 1 .. lastSequence
                 PROVE  s \in crossing \/ InChannel(s, k)' \/ InWire(s)'
      BY <1>1, <2>1 DEF RepliedInv
    <3>3. k \in 1 .. Len(channel) /\ k \in 0 .. Len(channel) /\ channel'[k] = channel[k]
      BY <2>2, <2>3, <3>1
    <3>4. s \in crossing \/ InChannel(s, k) \/ InWire(s)
      BY <3>2, <3>3 DEF RepliedInv
    <3> QED BY <2>2, <3>3, <3>4
  <2>6. Following' => Following /\ \A s : s \in crossing \/ Coming(s) => s \in crossing' \/ Coming(s)'
    BY <1>3, <2>1, <2>2 DEF Following, Coming
  <2> QED BY <1>4, <2>4, <2>5, <2>6 DEF ArrivalInv
<1>13. CASE SocketClosed
  <2>1. attachment' = "none" /\ exchange' = exchange /\ crossing' = crossing
    BY <1>13 DEF SocketClosed, history
  <2>2. PassedInv'
    BY <1>1, <2>1 DEF ArrivalInv, PassedInv
  <2> QED BY <1>4, <2>1, <2>2 DEF ArrivalInv, RepliedInv, Following
<1> QED BY <1>6, <1>7, <1>8, <1>9, <1>10, <1>11, <1>12, <1>13

LEMMA OutputArrival ==
    ASSUME Known, ArrivalInv, Output
    PROVE  ArrivalInv'
<1>1. lastSequence \in Nat /\ lastSequence' = lastSequence + 1 /\ lastSequence' \in Nat
  BY OutputKnown
<1>2. /\ UNCHANGED <<exchange, channel, subscriber>>
      /\ UNCHANGED <<pane, mounted, operations, applied, restoring, restoreAgain, paneError>>
      /\ crossing' = IF exchange.phase \in {"answered", "subscribing"}
                     THEN crossing \cup {lastSequence'} ELSE crossing
  BY DEF Output, paneVars, mount, reconciler, restoration
<1>3. \A s \in lastSequence + 1 .. lastSequence' : s = lastSequence + 1
  BY <1>1
<1>4. PassedInv'
  <2> SUFFICES ASSUME exchange.phase \in {"answered", "subscribing"},
                      NEW s \in exchange.snapshot.lastSequence + 1 .. lastSequence'
               PROVE  s \in crossing'
    BY <1>2 DEF PassedInv
  <2>1. exchange.snapshot \in Snapshots(lastSequence)
    BY KnownParts DEF Exchanges, NoExchange
  <2>2. PICK m \in Nat : m = exchange.snapshot.lastSequence
    BY <1>1, <2>1 DEF Snapshots
  <2>3. s \in m + 1 .. lastSequence'
    BY <2>2
  <2>4. s = lastSequence' \/ s \in m + 1 .. lastSequence
    BY <1>1, <2>2, <2>3
  <2>5. s = lastSequence' \/ s \in crossing
    BY <2>2, <2>4 DEF ArrivalInv, PassedInv
  <2> QED BY <1>2, <2>5
<1>5. ASSUME attachment' = "open"
      PROVE  /\ attachment = "open"
             /\ \A s : s = lastSequence + 1 => InWire(s)'
             /\ \A s : InWire(s) => InWire(s)'
             /\ \A s, k : InChannel(s, k)' = InChannel(s, k)
  BY <1>2, <1>5, OutputSent DEF InChannel
<1>6. RepliedInv'
  <2> SUFFICES ASSUME attachment' = "open", NEW k \in 1 .. Len(channel), channel[k].event = "attached", channel[k].ok,
                      NEW s \in channel[k].snapshot.lastSequence + 1 .. lastSequence'
               PROVE  s \in crossing' \/ InChannel(s, k)' \/ InWire(s)'
    BY <1>2 DEF RepliedInv
  <2>1. channel[k].snapshot \in Snapshots(lastSequence)
    <3>1. channel[k] \in Events(lastSequence)
      BY KnownParts
    <3> QED BY <3>1 DEF Events, WireEvents, RequestEvent, ResyncEvent, Replies
  <2>2. PICK m \in Nat : m = channel[k].snapshot.lastSequence
    BY <1>1, <2>1 DEF Snapshots
  <2>3. s \in m + 1 .. lastSequence'
    BY <2>2
  <2>4. s = lastSequence + 1 \/ s \in m + 1 .. lastSequence
    BY <1>1, <2>2, <2>3
  <2>5. s = lastSequence + 1 \/ s \in crossing \/ InChannel(s, k) \/ InWire(s)
    BY <1>5, <2>2, <2>4 DEF ArrivalInv, RepliedInv
  <2> QED BY <1>2, <1>5, <2>5
<1>7. Following' => /\ Following
                    /\ \A s \in 1 .. lastSequence : s \in crossing \/ Coming(s) => s \in crossing' \/ Coming(s)'
                    /\ \A s \in lastSequence + 1 .. lastSequence' : s \in crossing' \/ Coming(s)'
  <2> SUFFICES ASSUME Following'
               PROVE  /\ Following
                      /\ \A s : s \in crossing \/ Coming(s) => s \in crossing' \/ Coming(s)'
                      /\ \A s \in lastSequence + 1 .. lastSequence' : s \in crossing' \/ Coming(s)'
    OBVIOUS
  <2>1. attachment' = "open"
    BY DEF Following
  <2>2. Following
    BY <1>2, <1>5, <2>1 DEF Following
  <2> QED BY <1>2, <1>3, <1>5, <2>1, <2>2 DEF Coming
<1>8. QueuedInv' /\ ShownInv'
  BY <1>1, <1>2, <1>7, PaneUnmoved DEF ArrivalInv
<1> QED BY <1>4, <1>6, <1>8 DEF ArrivalInv

\* The batch that a piece joins has not started.
LEMMA EnqueuedWaits ==
    ASSUME Known, NEW s \in 1 .. lastSequence, operations' = Enqueued(s)
    PROVE  ~operations'[Len(operations')].started
<1>1. operations \in Seq(Operations(lastSequence)) /\ Len(operations) \in Nat
  BY KnownParts
<1>2. /\ \A i \in 1 .. Len(operations) : operations'[i].started = operations[i].started
      /\ Len(operations') = Len(operations) + 1 => operations'[Len(operations')] = Batch(<<s>>)
  BY EnqueuedKnown
<1>3. CASE operations' = Append(operations, Batch(<<s>>))
  <2>1. Len(operations') = Len(operations) + 1
    BY <1>1, <1>3
  <2> QED BY <1>2, <2>1 DEF Batch
<1>4. CASE /\ operations # <<>> /\ ~operations[Len(operations)].started
           /\ operations' = [operations EXCEPT ![Len(operations)].chunks = Append(@, s)]
  <2>1. Len(operations') = Len(operations) /\ Len(operations) \in 1 .. Len(operations)
    BY <1>1, <1>4
  <2>2. operations'[Len(operations)].started = operations[Len(operations)].started
    BY <1>2, <2>1
  <2> QED BY <1>4, <2>1, <2>2
<1> QED BY <1>3, <1>4 DEF Enqueued

\* An answer for the pane is that to its restore.
LEMMA AnswerRestores ==
    ASSUME Known, FlowInv, RestoreInv, channel # <<>>, Head(channel).event = "attached", IsCurrent(Head(channel))
    PROVE  restoring = "attaching" /\ ~RestoreIn(operations)
<1>1. Head(channel) = channel[1] /\ 1 \in 1 .. Len(channel)
  BY KnownParts, TailFacts
<1>2. exchange.phase = "replied" /\ Head(channel).pane = Head(transitions).pane
  BY <1>1 DEF FlowInv, AnswerInv
<1>3. transitions # <<>> /\ Head(transitions).kind = "attach" /\ Head(transitions).pane = pane
  BY <1>2 DEF FlowInv, AttachUnderWay, Attaching, IsCurrent
<1>4. Head(transitions) = transitions[1] /\ 1 \in 1 .. Len(transitions)
  BY <1>3, KnownParts, TailFacts
<1>5. AttachIn(transitions, pane)
  BY <1>3, <1>4 DEF AttachIn
<1> QED BY <1>5 DEF RestoreInv, PlaceInv, IsCurrent

LEMMA ReceiveArrival ==
    ASSUME Known, FlowInv, RestoreInv, ArrivalInv, Receive
    PROVE  ArrivalInv'
<1> DEFINE e == Head(channel)
<1>1. /\ channel # <<>> /\ channel' = Tail(channel)
      /\ ReceiveOutput \/ ReceiveRequest \/ ReceiveResync \/ ReceiveSnapshot \/ ReceiveFailure
      /\ exchange' = IF e.event = "attached" THEN NoExchange ELSE exchange
      /\ UNCHANGED <<attachment, wire, pane, mounted, applied, crossing, subscriber>>
      /\ lastSequence' = lastSequence
  BY DEF Receive, journalVars, mount, history
<1>2. /\ lastSequence \in Nat /\ operations \in Seq(Operations(lastSequence)) /\ Len(operations) \in Nat
      /\ channel \in Seq(Events(lastSequence)) /\ applied \in 0 .. lastSequence
  BY KnownParts
<1>3. /\ Len(channel) \in Nat \ {0} /\ Len(channel') = Len(channel) - 1 /\ e = channel[1]
      /\ \A i \in 1 .. Len(channel') : channel'[i] = channel[i + 1]
      /\ \A s : InChannel(s, 0) => (e.event = "output" /\ e.sequence = s) \/ InChannel(s, 0)'
      /\ \A s : \A k \in 1 .. Len(channel) : InChannel(s, k) => InChannel(s, k - 1)'
  BY <1>1, ChannelShrinks
<1>4. e.event = "attached" => exchange.phase = "replied"
  <2>1. 1 \in 1 .. Len(channel)
    BY <1>3
  <2> QED BY <1>3, <2>1 DEF FlowInv, AnswerInv
<1>5. \A s : InWire(s)' = InWire(s)
  BY <1>1 DEF InWire
<1> HIDE DEF e
<1>6. PassedInv'
  BY <1>1 DEF ArrivalInv, PassedInv, NoExchange
<1>7. RepliedInv'
  <2> SUFFICES ASSUME attachment = "open", NEW k \in 1 .. Len(channel'), channel'[k].event = "attached", channel'[k].ok,
                      NEW s \in channel'[k].snapshot.lastSequence + 1 .. lastSequence
               PROVE  s \in crossing \/ InChannel(s, k)' \/ InWire(s)
    BY <1>1, <1>5 DEF RepliedInv
  <2>1. k + 1 \in 1 .. Len(channel) /\ (k + 1) - 1 = k /\ channel'[k] = channel[k + 1]
    BY <1>3
  <2>2. s \in crossing \/ InChannel(s, k + 1) \/ InWire(s)
    BY <2>1 DEF ArrivalInv, RepliedInv
  <2>3. InChannel(s, k + 1) => InChannel(s, (k + 1) - 1)'
    BY <1>3, <2>1
  <2>4. InChannel(s, k + 1) => InChannel(s, k)'
    BY <2>1, <2>3
  <2> QED BY <2>2, <2>4
<1>8. Following' => Following
  BY <1>1, <1>4 DEF Following
<1>9. \A s : Coming(s) => (e.event = "output" /\ e.sequence = s) \/ Coming(s)'
  BY <1>3, <1>5 DEF Coming
<1>10. ASSUME UNCHANGED <<operations, restoring, restoreAgain, paneError>>, e.event # "output" \/ ~mounted
       PROVE  QueuedInv' /\ ShownInv'
  <2>1. Following' => /\ Following
                      /\ \A s \in 1 .. lastSequence : s \in crossing \/ Coming(s) => s \in crossing' \/ Coming(s)'
                      /\ \A s \in lastSequence + 1 .. lastSequence' : s \in crossing' \/ Coming(s)'
    <3>1. \A s \in lastSequence + 1 .. lastSequence' : FALSE
      BY <1>1, <1>2
    <3>2. Following' => mounted
      BY <1>1 DEF Following
    <3>3. Following' => /\ Following
                        /\ \A s : s \in crossing \/ Coming(s) => s \in crossing' \/ Coming(s)'
      BY <1>1, <1>8, <1>9, <1>10, <3>2
    <3> QED BY <3>1, <3>3
  <2>2. lastSequence' \in Nat
    BY <1>1, <1>2
  <2>3. UNCHANGED <<pane, mounted, operations, applied, restoring, restoreAgain, paneError>>
    BY <1>1, <1>10
  <2> QED BY <2>1, <2>2, <2>3, PaneUnmoved DEF ArrivalInv
<1>11. CASE ReceiveOutput
  <2>1. /\ e.event = "output" /\ operations' = IF mounted THEN Enqueued(e.sequence) ELSE operations
        /\ UNCHANGED <<restoring, restoreAgain, paneError>>
    BY <1>11 DEF ReceiveOutput, e
  <2>2. CASE ~mounted
    BY <1>6, <1>7, <1>10, <2>1, <2>2 DEF ArrivalInv
  <2>3. CASE mounted
    <3> DEFINE x == e.sequence
    <3>1. x \in 1 .. lastSequence /\ operations' = Enqueued(x)
      BY <1>1, <2>1, <2>3, EventFacts DEF e
    <3> HIDE DEF x
    <3>2. /\ Len(operations') \in {Len(operations), Len(operations) + 1} /\ operations' # <<>>
          /\ operations' \in Seq(Operations(lastSequence))
          /\ x \in Pieces(operations'[Len(operations')]) /\ operations'[Len(operations')].kind = "batch"
          /\ ~operations'[Len(operations')].started
          /\ \A i \in 1 .. Len(operations) :
                /\ operations'[i].kind = operations[i].kind /\ operations'[i].started = operations[i].started
                /\ operations'[i].snapshot = operations[i].snapshot
                /\ Pieces(operations[i]) \subseteq Pieces(operations'[i])
          /\ Len(operations') = Len(operations) + 1 => operations'[Len(operations')] = Batch(<<x>>)
      BY <3>1, EnqueuedKnown, EnqueuedWaits
    <3>3. /\ Len(operations') \in Nat \ {0} /\ Len(operations') \in 1 .. Len(operations')
          /\ \A i \in 1 .. Len(operations) : i \in 1 .. Len(operations')
          /\ \A i \in 1 .. Len(operations') : i = Len(operations') \/ (i \in 1 .. Len(operations) /\ i < Len(operations'))
      <4>1. Len(operations') \in Nat \ {0}
        BY <3>2
      <4> QED BY <1>2, <3>2, <4>1
    <3>4. \A s : Coming(s) => s = x \/ Coming(s)'
      BY <1>9 DEF x
    <3>5. ASSUME Following', NEW k \in 1 .. Len(operations'), operations'[k].kind = "restore",
                 NEW s \in operations'[k].snapshot.lastSequence + 1 .. lastSequence
          PROVE  s \in crossing \/ InQueue(s, k)' \/ Coming(s)'
      <4>1. k \in 1 .. Len(operations) /\ Len(operations') > k
        BY <3>2, <3>3, <3>5
      <4>2. s \in crossing \/ InQueue(s, k) \/ Coming(s)
        BY <1>8, <3>2, <3>5, <4>1 DEF ArrivalInv, QueuedInv
      <4>3. InQueue(s, k) => InQueue(s, k)'
        BY <3>2, <3>3 DEF InQueue
      <4>4. s = x => InQueue(s, k)'
        BY <3>2, <3>3, <4>1 DEF InQueue
      <4> QED BY <3>4, <4>2, <4>3, <4>4
    <3>6. QueuedInv'
      BY <1>1, <3>5 DEF QueuedInv
    <3>7. ASSUME Following', Undisturbed', NEW s \in applied + 1 .. lastSequence
          PROVE  \/ s \in crossing \/ Waiting(s)' \/ Coming(s)'
                 \/ HeadStarted("batch")' /\ s <= Head(operations').writes[1].upTo
      <4>1. Undisturbed
        BY <2>1, <3>7 DEF Undisturbed
      <4>2. \/ s \in crossing \/ Waiting(s) \/ Coming(s)
            \/ HeadStarted("batch") /\ s <= Head(operations).writes[1].upTo
        BY <1>8, <3>7, <4>1 DEF ArrivalInv, ShownInv
      <4>3. Waiting(s) => Waiting(s)'
        <5>1. ASSUME NEW i \in 1 .. Len(operations), ~operations[i].started, s \in Pieces(operations[i])
              PROVE  i \in 1 .. Len(operations') /\ ~operations'[i].started /\ s \in Pieces(operations'[i])
          BY <3>2, <3>3, <5>1
        <5> QED BY <5>1 DEF Waiting
      <4>4. s = x => Waiting(s)'
        BY <3>2, <3>3 DEF Waiting
      <4>5. HeadStarted("batch") => HeadStarted("batch")' /\ Head(operations') = Head(operations)
        BY HeadReceived DEF HeadStarted
      <4> QED BY <3>4, <4>2, <4>3, <4>4, <4>5
    <3>8. ShownInv'
      BY <1>1, <3>7 DEF ShownInv
    <3> QED BY <1>6, <1>7, <3>6, <3>8 DEF ArrivalInv
  <2> QED BY <2>2, <2>3
<1>12. CASE ReceiveRequest
  <2>1. UNCHANGED <<operations, restoring, restoreAgain, paneError>> /\ e.event # "output"
    BY <1>12 DEF ReceiveRequest, e
  <2> QED BY <1>6, <1>7, <1>10, <2>1 DEF ArrivalInv
<1>13. CASE ReceiveResync
  <2>1. /\ UNCHANGED <<operations, restoreAgain, paneError>> /\ e.event # "output"
        /\ \/ UNCHANGED restoring
           \/ restoring = "no" /\ restoring' = "attaching"
    BY <1>13 DEF ReceiveResync, e, Restore
  <2>2. CASE UNCHANGED restoring
    BY <1>6, <1>7, <1>10, <2>1, <2>2 DEF ArrivalInv
  <2>3. CASE restoring = "no" /\ restoring' = "attaching"
    <3>1. ~RestoreIn(operations)
      BY <2>3 DEF RestoreInv, PlaceInv
    <3>2. QueuedInv'
      BY <2>1, <3>1 DEF QueuedInv, RestoreIn
    <3>3. ShownInv'
      BY <2>3 DEF ShownInv, Undisturbed
    <3> QED BY <1>6, <1>7, <3>2, <3>3 DEF ArrivalInv
  <2> QED BY <2>1, <2>2, <2>3
<1>14. CASE ReceiveSnapshot
  <2>1. e.event = "attached" /\ e.event # "output" /\ e.ok
    BY <1>14 DEF ReceiveSnapshot, e
  <2>2. CASE ~IsCurrent(e)
    <3>1. UNCHANGED <<operations, restoring, restoreAgain, paneError>>
      BY <1>14, <2>2 DEF ReceiveSnapshot, e
    <3> QED BY <1>6, <1>7, <1>10, <2>1, <3>1 DEF ArrivalInv
  <2>3. CASE IsCurrent(e)
    <3> DEFINE o == Restoration(e.snapshot)
    <3>1. operations' = Append(operations, o) /\ restoring' = "applying"
      BY <1>14, <2>3 DEF ReceiveSnapshot, e
    <3>2. ~RestoreIn(operations)
      BY <1>1, <2>1, <2>3, AnswerRestores DEF e
    <3>3. o \in Operations(lastSequence) /\ o.snapshot = e.snapshot
      <4>1. e.snapshot \in Snapshots(lastSequence)
        BY <1>1, <2>1, EventFacts DEF e
      <4> QED BY <1>2, <4>1, NewOperations DEF Restoration
    <3> HIDE DEF o
    <3>4. /\ Len(operations') = Len(operations) + 1 /\ operations'[Len(operations) + 1] = o
          /\ \A i \in 1 .. Len(operations) : operations'[i] = operations[i]
      BY <1>2, <3>1, <3>3, AppendFacts
    <3>5. ASSUME Following', NEW k \in 1 .. Len(operations'), operations'[k].kind = "restore",
                 NEW s \in operations'[k].snapshot.lastSequence + 1 .. lastSequence
          PROVE  s \in crossing \/ Coming(s)'
      <4>1. k \in 1 .. Len(operations) \/ k = Len(operations) + 1
        BY <1>2, <3>4
      <4>2. k = Len(operations) + 1
        BY <3>2, <3>4, <3>5, <4>1 DEF RestoreIn
      <4>3. s \in e.snapshot.lastSequence + 1 .. lastSequence
        BY <3>3, <3>4, <3>5, <4>2
      <4>4. 1 \in 1 .. Len(channel) /\ channel[1] = e /\ 1 - 1 = 0
        BY <1>3
      <4>5. attachment = "open"
        BY <1>1, <3>5 DEF Following
      <4>6. s \in crossing \/ InChannel(s, 1) \/ InWire(s)
        BY <2>1, <4>3, <4>4, <4>5 DEF ArrivalInv, RepliedInv
      <4>7. InChannel(s, 1) => InChannel(s, 1 - 1)'
        BY <1>3, <4>4
      <4>8. InChannel(s, 1) => InChannel(s, 0)'
        BY <4>4, <4>7
      <4> QED BY <1>5, <4>6, <4>8 DEF Coming
    <3>6. QueuedInv'
      BY <1>1, <3>5 DEF QueuedInv
    <3>7. ShownInv'
      BY <3>1 DEF ShownInv, Undisturbed
    <3> QED BY <1>6, <1>7, <3>6, <3>7 DEF ArrivalInv
  <2> QED BY <2>2, <2>3
<1>15. CASE ReceiveFailure
  <2>1. e.event = "attached" /\ e.event # "output" /\ operations' = operations
    BY <1>15 DEF ReceiveFailure, e
  <2>2. CASE ~IsCurrent(e)
    <3>1. UNCHANGED <<operations, restoring, restoreAgain, paneError>>
      BY <1>15, <2>2 DEF ReceiveFailure, e
    <3> QED BY <1>6, <1>7, <1>10, <2>1, <3>1 DEF ArrivalInv
  <2>3. CASE IsCurrent(e)
    <3>1. paneError' = TRUE
      BY <1>15, <2>3 DEF ReceiveFailure, e
    <3>2. ~RestoreIn(operations)
      BY <1>1, <2>1, <2>3, AnswerRestores DEF e
    <3>3. QueuedInv' /\ ShownInv'
      BY <2>1, <3>1, <3>2 DEF QueuedInv, RestoreIn, ShownInv, Undisturbed
    <3> QED BY <1>6, <1>7, <3>3 DEF ArrivalInv
  <2> QED BY <2>2, <2>3
<1> QED BY <1>1, <1>11, <1>12, <1>13, <1>14, <1>15

\* What the steps of the pane leave alone.
LEMMA OutsideUntouched ==
    ASSUME UNCHANGED <<attachment, wire, exchange, channel, crossing, subscriber, lastSequence>>
    PROVE  /\ PassedInv => PassedInv'
           /\ RepliedInv => RepliedInv'
           /\ \A s : Coming(s)' = Coming(s)
<1>1. \A s, k : InWire(s)' = InWire(s) /\ InChannel(s, k)' = InChannel(s, k)
  BY DEF InWire, InChannel
<1> QED BY <1>1 DEF PassedInv, RepliedInv, Coming

\* The head of the queue ends, and what is behind it waits.
LEMMA WaitingBehind ==
    ASSUME Known, operations # <<>>, \A c \in captures : c.behind > 0, OperationEnds
    PROVE  \A i \in 2 .. Len(operations) : \A s \in Pieces(operations[i]) : Waiting(s)'
<1>1. /\ Len(operations) \in Nat \ {0} /\ Len(operations') = Len(operations) - 1
      /\ \A i \in 1 .. Len(operations') : operations'[i] = operations[i + 1] /\ ~operations'[i].started
  BY EndsKnown
<1>2. \A i \in 2 .. Len(operations) : i - 1 \in 1 .. Len(operations') /\ (i - 1) + 1 = i
  BY <1>1
<1>3. \A i \in 2 .. Len(operations) : operations'[i - 1] = operations[i] /\ ~operations'[i - 1].started
  BY <1>1, <1>2
<1> QED BY <1>2, <1>3 DEF Waiting

LEMMA QueuedShortened ==
    ASSUME Known, QueuedInv, operations # <<>>, operations' = Tail(operations),
           UNCHANGED <<attachment, wire, exchange, channel, crossing, subscriber, lastSequence, pane, mounted>>
    PROVE  QueuedInv'
<1>1. /\ Len(operations) \in Nat \ {0} /\ Len(operations') = Len(operations) - 1
      /\ \A i \in 1 .. Len(operations) - 1 : operations'[i] = operations[i + 1]
  BY KnownParts, TailFacts
<1>2. (\A s : Coming(s)' = Coming(s)) /\ Following' = Following
  BY OutsideUntouched DEF Following
<1> SUFFICES ASSUME Following, NEW k \in 1 .. Len(operations'), operations'[k].kind = "restore",
                    NEW s \in operations'[k].snapshot.lastSequence + 1 .. lastSequence
             PROVE  s \in crossing \/ InQueue(s, k)' \/ Coming(s)
  BY <1>2 DEF QueuedInv
<1>3. k + 1 \in 1 .. Len(operations) /\ operations'[k] = operations[k + 1] /\ k \in Nat
  BY <1>1
<1>4. s \in crossing \/ InQueue(s, k + 1) \/ Coming(s)
  BY <1>3 DEF QueuedInv
<1>5. ASSUME InQueue(s, k + 1) PROVE InQueue(s, k)'
  <2>1. PICK i \in 1 .. Len(operations) : i > k + 1 /\ s \in Pieces(operations[i])
    BY <1>5 DEF InQueue
  <2>2. i - 1 \in 1 .. Len(operations') /\ i - 1 > k /\ (i - 1) + 1 = i /\ i - 1 \in 1 .. Len(operations) - 1
    BY <1>1, <1>3, <2>1
  <2>3. operations'[i - 1] = operations[(i - 1) + 1]
    BY <1>1, <2>2
  <2> QED BY <2>1, <2>2, <2>3 DEF InQueue
<1> QED BY <1>4, <1>5

LEMMA QueuedReplaced ==
    ASSUME Known, QueuedInv, operations # <<>>, NEW h, operations' = [operations EXCEPT ![1] = h],
           h.kind = Head(operations).kind, h.chunks = Head(operations).chunks,
           h.kind = "restore" => h.snapshot = Head(operations).snapshot,
           UNCHANGED <<attachment, wire, exchange, channel, crossing, subscriber, lastSequence, pane, mounted>>
    PROVE  QueuedInv'
<1>1. /\ Len(operations') = Len(operations) /\ Len(operations) \in Nat \ {0}
      /\ operations'[1] = h /\ Head(operations) = operations[1]
      /\ \A i \in 2 .. Len(operations) : operations'[i] = operations[i]
  BY HeadReplaced, KnownParts, TailFacts
<1>2. (\A s : Coming(s)' = Coming(s)) /\ Following' = Following
  BY OutsideUntouched DEF Following
<1>3. \A i \in 1 .. Len(operations) : i = 1 \/ i \in 2 .. Len(operations)
  BY <1>1
<1>4. \A i \in 1 .. Len(operations) :
        /\ operations'[i].kind = operations[i].kind
        /\ operations[i].kind = "restore" => operations'[i].snapshot = operations[i].snapshot
        /\ Pieces(operations'[i]) = Pieces(operations[i])
  BY <1>1, <1>3 DEF Pieces
<1>5. \A s, k : InQueue(s, k) => InQueue(s, k)'
  BY <1>1, <1>4 DEF InQueue
<1> QED BY <1>1, <1>2, <1>4, <1>5 DEF QueuedInv

\* A restoration is over: what it did not bring, is on its way.
LEMMA RestoredShown ==
    ASSUME Known, QueuedInv, operations # <<>>, Head(operations).kind = "restore",
           \A c \in captures : c.behind > 0, OperationEnds, applied' = Head(operations).snapshot.lastSequence,
           UNCHANGED <<attachment, wire, exchange, channel, crossing, subscriber, lastSequence, pane, mounted>>
    PROVE  ShownInv'
<1>1. (\A s : Coming(s)' = Coming(s)) /\ Following' = Following
  BY OutsideUntouched DEF Following
<1>2. Len(operations) \in Nat \ {0} /\ Head(operations) = operations[1] /\ 1 \in 1 .. Len(operations)
  <2>1. Len(operations) \in Nat \ {0} /\ Head(operations) = operations[1]
    BY KnownParts, TailFacts
  <2> QED BY <2>1
<1> SUFFICES ASSUME Following, NEW s \in operations[1].snapshot.lastSequence + 1 .. lastSequence
             PROVE  s \in crossing \/ Waiting(s)' \/ Coming(s)
  BY <1>1, <1>2 DEF ShownInv
<1>3. s \in crossing \/ InQueue(s, 1) \/ Coming(s)
  BY <1>2 DEF QueuedInv
<1>4. InQueue(s, 1) => Waiting(s)'
  <2>1. \A i \in 1 .. Len(operations) : i > 1 => i \in 2 .. Len(operations)
    BY <1>2
  <2> QED BY <2>1, WaitingBehind DEF InQueue
<1> QED BY <1>3, <1>4

LEMMA StartArrival ==
    ASSUME Known, RestoreInv, ArrivalInv, StartOperation
    PROVE  ArrivalInv'
<1> DEFINE o == Head(operations)
           reached == Contiguous(applied, o.chunks)
<1>1. /\ operations # <<>> /\ ~Head(operations).started /\ (\A c \in captures : c.behind > 0)
      /\ StartBatch \/ StartRestoration
      /\ UNCHANGED <<attachment, wire, exchange, channel, crossing, subscriber, lastSequence, pane, mounted>>
      /\ paneError' = paneError
  BY DEF StartOperation, outside, mainVars, history, journalVars, mount
<1>2. PassedInv' /\ RepliedInv' /\ (\A s : Coming(s)' = Coming(s)) /\ Following' = Following
  BY <1>1, OutsideUntouched DEF ArrivalInv, Following
<1>3. /\ lastSequence \in Nat /\ applied \in 0 .. lastSequence
      /\ operations \in Seq(Operations(lastSequence))
      /\ Len(operations) \in Nat \ {0} /\ Head(operations) = operations[1] /\ 1 \in 1 .. Len(operations)
      /\ \A i \in 1 .. Len(operations) : i = 1 \/ i \in 2 .. Len(operations)
  <2>1. /\ lastSequence \in Nat /\ applied \in 0 .. lastSequence
        /\ operations \in Seq(Operations(lastSequence)) /\ Len(operations) \in Nat \ {0}
        /\ Head(operations) = operations[1]
    BY <1>1, KnownParts, TailFacts
  <2>2. 1 \in 1 .. Len(operations) /\ \A i \in 1 .. Len(operations) : i = 1 \/ i \in 2 .. Len(operations)
    BY <2>1
  <2> QED BY <2>1, <2>2
<1>4. OperationEnds => QueuedInv'
  BY <1>1, QueuedShortened DEF ArrivalInv, OperationEnds
<1>5. CASE StartBatch
  <2>1. /\ o.kind = "batch" /\ applied' = applied
        /\ reached.at \in applied .. lastSequence /\ reached.gap \in BOOLEAN
        /\ \/ reached.at = applied /\ OperationEnds
           \/ \E h : /\ operations' = [operations EXCEPT ![1] = h]
                     /\ reached.at > applied
                     /\ h.kind = "batch" /\ h.chunks = o.chunks /\ h.started = TRUE
                     /\ h.writes[1].upTo = reached.at
        /\ reached.gap => RequestResync
        /\ ~reached.gap => UNCHANGED <<restoring, restoreAgain>>
    BY <1>5, BatchStarts
  <2>2. QueuedInv'
    <3>1. CASE OperationEnds
      BY <1>4, <3>1
    <3>2. ASSUME NEW h, operations' = [operations EXCEPT ![1] = h], h.kind = "batch", h.chunks = o.chunks
          PROVE  QueuedInv'
      BY <1>1, <2>1, <3>2, QueuedReplaced DEF ArrivalInv
    <3> QED BY <2>1, <3>1, <3>2
  <2>3. CASE reached.gap
    <3>1. mounted => ~Undisturbed'
      <4> SUFFICES ASSUME mounted PROVE ~Undisturbed'
        OBVIOUS
      <4>1. /\ ~resyncRequested => restoreAgain' \/ restoring' = "attaching"
            /\ resyncRequested => UNCHANGED <<restoring, restoreAgain>>
        BY <2>1, <2>3, ResyncRestores
      <4>2. CASE ~resyncRequested
        BY <4>1, <4>2 DEF Undisturbed
      <4>3. CASE resyncRequested
        <5>1. paneError \/ restoreAgain \/ restoring = "attaching" \/ RestoreWaits(operations)
          BY <4>3 DEF RestoreInv, GapInv
        <5>2. RestoreWaits(operations) => restoring = "applying"
          BY DEF RestoreWaits, RestoreIn, RestoreInv, PlaceInv
        <5> QED BY <1>1, <4>1, <4>3, <5>1, <5>2 DEF Undisturbed
      <4> QED BY <4>2, <4>3
    <3> QED BY <1>1, <1>2, <2>2, <3>1 DEF ArrivalInv, ShownInv, Following
  <2>4. CASE ~reached.gap
    <3> SUFFICES ASSUME Following, Undisturbed', NEW s \in applied + 1 .. lastSequence
                 PROVE  \/ s \in crossing \/ Waiting(s)' \/ Coming(s)
                        \/ HeadStarted("batch")' /\ s <= Head(operations').writes[1].upTo
      BY <1>1, <1>2, <2>1, <2>2 DEF ArrivalInv, ShownInv
    <3>1. Undisturbed
      BY <1>1, <2>1, <2>4 DEF Undisturbed
    <3>2. s \in crossing \/ Waiting(s) \/ Coming(s)
      BY <1>1, <3>1 DEF ArrivalInv, ShownInv, HeadStarted
    <3>3. s \in Pieces(o) => s <= reached.at
      <4>1. o.chunks \in Seq(Nat) /\ applied \in Nat
        <5>1. operations[1] \in Operations(lastSequence)
          BY <1>3
        <5>2. o.chunks \in Seq(Nat)
          BY <1>3, <5>1, OperationFacts
        <5>3. applied \in Nat
          BY <1>3
        <5> QED BY <5>2, <5>3
      <4>2. \A i \in 1 .. Len(o.chunks) : o.chunks[i] <= reached.at
        BY <2>4, <4>1, ContiguousFacts, Zenon
      <4> QED BY <4>2 DEF Pieces
    <3> HIDE DEF reached
    <3>4. ASSUME Waiting(s)
          PROVE  Waiting(s)' \/ (HeadStarted("batch")' /\ s <= Head(operations').writes[1].upTo)
      <4>1. PICK i \in 1 .. Len(operations) : ~operations[i].started /\ s \in Pieces(operations[i])
        BY <3>4 DEF Waiting
      <4>2. CASE reached.at = applied /\ OperationEnds
        <5>1. i # 1
          BY <1>3, <3>3, <4>1, <4>2
        <5> QED BY <1>1, <1>3, <4>1, <4>2, <5>1, WaitingBehind
      <4>3. ASSUME NEW h, operations' = [operations EXCEPT ![1] = h], h.kind = "batch", h.started = TRUE,
                   h.writes[1].upTo = reached.at
            PROVE  Waiting(s)' \/ (HeadStarted("batch")' /\ s <= Head(operations').writes[1].upTo)
        <5>1. /\ Len(operations') = Len(operations) /\ Head(operations') = h /\ operations' # <<>>
              /\ \A j \in 2 .. Len(operations) : operations'[j] = operations[j]
          BY <1>1, <4>3, HeadReplaced
        <5>2. CASE i = 1
          BY <1>3, <3>3, <4>1, <4>3, <5>1, <5>2 DEF HeadStarted
        <5>3. CASE i # 1
          <6>1. i \in 2 .. Len(operations)
            BY <1>3, <5>3
          <6>2. operations'[i] = operations[i] /\ i \in 1 .. Len(operations')
            BY <5>1, <6>1
          <6> QED BY <4>1, <6>2 DEF Waiting
        <5> QED BY <5>2, <5>3
      <4> QED BY <2>1, <4>2, <4>3
    <3> QED BY <3>2, <3>4
  <2> QED BY <2>1, <2>3, <2>4
<1>6. CASE StartRestoration
  <2>1. /\ o.kind = "restore"
        /\ \/ OperationEnds /\ RestorationEnds(FALSE) /\ applied' = o.snapshot.lastSequence
           \/ \E h : /\ operations' = [operations EXCEPT ![1] = h]
                     /\ UNCHANGED <<restoring, restoreAgain>>
                     /\ h.kind = "restore" /\ h.chunks = o.chunks /\ h.snapshot = o.snapshot
    BY <1>6, RestorationStarts
  <2>2. CASE OperationEnds /\ applied' = o.snapshot.lastSequence
    <3>1. ShownInv'
      BY <1>1, <2>1, <2>2, RestoredShown DEF ArrivalInv
    <3> QED BY <1>2, <1>4, <2>2, <3>1 DEF ArrivalInv
  <2>3. ASSUME NEW h, operations' = [operations EXCEPT ![1] = h], UNCHANGED <<restoring, restoreAgain>>,
               h.kind = "restore", h.chunks = o.chunks, h.snapshot = o.snapshot
        PROVE  ArrivalInv'
    <3>1. QueuedInv'
      BY <1>1, <2>1, <2>3, QueuedReplaced DEF ArrivalInv
    <3>2. restoring = "applying"
      BY <1>3, <2>1 DEF RestoreInv, PlaceInv, RestoreIn
    <3>3. ShownInv'
      BY <2>3, <3>2 DEF ShownInv, Undisturbed
    <3> QED BY <1>2, <3>1, <3>3 DEF ArrivalInv
  <2> QED BY <2>1, <2>2, <2>3
<1> QED BY <1>1, <1>5, <1>6

LEMMA ParseArrival ==
    ASSUME Known, RestoreInv, BatchInv, ArrivalInv, Parse
    PROVE  ArrivalInv'
<1> DEFINE o == Head(operations)
<1>1. /\ operations # <<>> /\ o.started /\ (\A c \in captures : c.behind > 0)
      /\ applied' = o.writes[1].upTo
      /\ \/ /\ o.kind = "restore"
            /\ \E h : /\ operations' = [operations EXCEPT ![1] = h]
                      /\ h.kind = o.kind /\ h.chunks = o.chunks /\ h.snapshot = o.snapshot
            /\ UNCHANGED <<restoring, restoreAgain>>
         \/ /\ OperationEnds /\ o.kind = "restore" /\ applied' = o.snapshot.lastSequence
         \/ /\ OperationEnds /\ o.kind = "batch"
            /\ UNCHANGED <<restoring, restoreAgain>>
  BY Parsed
<1>2. /\ UNCHANGED <<attachment, wire, exchange, channel, crossing, subscriber, lastSequence, pane, mounted>>
      /\ paneError' = paneError
  BY DEF Parse, outside, mainVars, history, journalVars, mount
<1>3. PassedInv' /\ RepliedInv' /\ (\A s : Coming(s)' = Coming(s)) /\ Following' = Following
  BY <1>2, OutsideUntouched DEF ArrivalInv, Following
<1>4. /\ lastSequence \in Nat /\ applied \in 0 .. lastSequence
      /\ operations \in Seq(Operations(lastSequence))
      /\ Len(operations) \in Nat \ {0} /\ Head(operations) = operations[1] /\ 1 \in 1 .. Len(operations)
      /\ \A i \in 1 .. Len(operations) : i = 1 \/ i \in 2 .. Len(operations)
  <2>1. /\ lastSequence \in Nat /\ applied \in 0 .. lastSequence
        /\ operations \in Seq(Operations(lastSequence)) /\ Len(operations) \in Nat \ {0}
        /\ Head(operations) = operations[1]
    BY <1>1, KnownParts, TailFacts
  <2>2. 1 \in 1 .. Len(operations) /\ \A i \in 1 .. Len(operations) : i = 1 \/ i \in 2 .. Len(operations)
    BY <2>1
  <2> QED BY <2>1, <2>2
<1>5. OperationEnds => QueuedInv'
  BY <1>1, <1>2, QueuedShortened DEF ArrivalInv, OperationEnds
<1>6. ASSUME o.kind = "restore", UNCHANGED <<restoring, restoreAgain>>,
             NEW h, operations' = [operations EXCEPT ![1] = h],
             h.kind = o.kind, h.chunks = o.chunks, h.snapshot = o.snapshot
      PROVE  ArrivalInv'
  <2>1. QueuedInv'
    BY <1>1, <1>2, <1>6, QueuedReplaced DEF ArrivalInv
  <2>2. restoring = "applying"
    BY <1>4, <1>6 DEF RestoreInv, PlaceInv, RestoreIn
  <2>3. ShownInv'
    BY <1>6, <2>2 DEF ShownInv, Undisturbed
  <2> QED BY <1>3, <2>1, <2>3 DEF ArrivalInv
<1>7. CASE OperationEnds /\ o.kind = "restore" /\ applied' = o.snapshot.lastSequence
  <2>1. ShownInv'
    BY <1>1, <1>2, <1>7, RestoredShown DEF ArrivalInv
  <2> QED BY <1>3, <1>5, <1>7, <2>1 DEF ArrivalInv
<1>8. CASE OperationEnds /\ o.kind = "batch" /\ UNCHANGED <<restoring, restoreAgain>>
  <2>1. HeadStarted("batch")
    BY <1>1, <1>8 DEF HeadStarted
  <2>2. o.writes[1].upTo \in Nat
    <3>1. o \in Operations(lastSequence)
      BY <1>4
    <3>2. o.writes \in Seq(Writes(lastSequence)) /\ o.writes # <<>>
      BY <1>1, <1>4, <3>1, OperationFacts
    <3>3. o.writes[1] \in Writes(lastSequence)
      BY <3>2
    <3> QED BY <1>4, <3>3 DEF Writes
  <2>3. PICK m \in Nat : m = o.writes[1].upTo
    BY <2>2
  <2>4. applied' = m /\ applied <= m
    BY <1>1, <2>1, <2>3 DEF BatchInv
  <2> SUFFICES ASSUME Following, Undisturbed', NEW s \in m + 1 .. lastSequence
               PROVE  s \in crossing \/ Waiting(s)' \/ Coming(s)
    BY <1>2, <1>3, <1>5, <1>8, <2>4 DEF ArrivalInv, ShownInv
  <2>5. Undisturbed
    BY <1>2, <1>8 DEF Undisturbed
  <2>6. s \in applied + 1 .. lastSequence /\ ~ (s <= m)
    BY <1>4, <2>4
  <2>7. s \in crossing \/ Waiting(s) \/ Coming(s)
    BY <2>3, <2>5, <2>6 DEF ArrivalInv, ShownInv
  <2>8. Waiting(s) => Waiting(s)'
    <3>1. \A i \in 1 .. Len(operations) : ~operations[i].started => i \in 2 .. Len(operations)
      BY <1>1, <1>4
    <3> QED BY <1>1, <1>8, <3>1, WaitingBehind DEF Waiting
  <2> QED BY <2>7, <2>8
<1> QED BY <1>1, <1>6, <1>7, <1>8

\* Steps of the pane that leave its queue alone.
LEMMA QueueKept ==
    ASSUME ArrivalInv, Following' => Following, Following' /\ Undisturbed' => Undisturbed,
           UNCHANGED <<exchange, channel, wire, crossing, lastSequence, operations, applied>>,
           attachment' \in {attachment, "none"}
    PROVE  ArrivalInv'
<1>1. \A s, k : /\ InWire(s)' = InWire(s) /\ InChannel(s, k)' = InChannel(s, k) /\ Coming(s)' = Coming(s)
                /\ InQueue(s, k)' = InQueue(s, k) /\ Waiting(s)' = Waiting(s)
  BY DEF InWire, InChannel, Coming, InQueue, Waiting
<1>2. HeadStarted("batch")' = HeadStarted("batch")
  BY DEF HeadStarted
<1>3. attachment' = "open" => attachment = "open"
  OBVIOUS
<1>4. PassedInv'
  BY DEF ArrivalInv, PassedInv
<1>5. RepliedInv'
  BY <1>1, <1>3 DEF ArrivalInv, RepliedInv
<1>6. QueuedInv'
  BY <1>1 DEF ArrivalInv, QueuedInv
<1>7. ShownInv'
  BY <1>1, <1>2 DEF ArrivalInv, ShownInv
<1> QED BY <1>4, <1>5, <1>6, <1>7 DEF ArrivalInv

LEMMA PaneStepsArrival ==
    ASSUME Known, FlowInv, RestoreInv, ArrivalInv,
           \/ Capture \/ TimerFires \/ FinishRestore \/ BeginCheckpoint \/ Unmount \/ Remount
           \/ OrphanAttach \/ SendLastCheckpoint \/ Detach
           \/ \E p \in posts : CheckpointAnswered(p)
    PROVE  ArrivalInv'
<1>1. CASE Capture \/ TimerFires \/ BeginCheckpoint \/ SendLastCheckpoint \/ \E p \in posts : CheckpointAnswered(p)
  <2>1. UNCHANGED <<outside, mount, reconciler, restoration>>
    BY <1>1 DEF Capture, TimerFires, BeginCheckpoint, SendLastCheckpoint, CheckpointAnswered
  <2>2. /\ UNCHANGED <<exchange, channel, wire, crossing, lastSequence, operations, applied>>
        /\ UNCHANGED <<attachment, subscriber, pane, mounted, restoring, restoreAgain, paneError>>
    BY <2>1 DEF outside, journalVars, mainVars, history, mount, reconciler, restoration
  <2> QED BY <2>2, QueueKept DEF Following, Undisturbed
<1>2. CASE OrphanAttach
  <2>1. UNCHANGED <<outside, mount, reconciler, restoring, restoreAgain, paneError>>
    BY <1>2 DEF OrphanAttach
  <2>2. /\ UNCHANGED <<exchange, channel, wire, crossing, lastSequence, operations, applied>>
        /\ UNCHANGED <<attachment, subscriber, pane, mounted, restoring, restoreAgain, paneError>>
    BY <2>1 DEF outside, journalVars, mainVars, history, mount, reconciler
  <2> QED BY <2>2, QueueKept DEF Following, Undisturbed
<1>3. CASE FinishRestore
  <2>1. /\ UNCHANGED <<outside, mount, reconciler, paneError>> /\ restoring = "sizing"
        /\ restoreAgain => restoring' = "attaching"
    BY <1>3 DEF FinishRestore, Restore
  <2>2. /\ UNCHANGED <<exchange, channel, wire, crossing, lastSequence, operations, applied>>
        /\ UNCHANGED <<attachment, subscriber, pane, mounted, paneError>>
    BY <2>1 DEF outside, journalVars, mainVars, history, mount, reconciler
  <2>3. Undisturbed' => Undisturbed
    BY <2>1, <2>2 DEF Undisturbed
  <2> QED BY <2>2, <2>3, QueueKept DEF Following
<1>4. CASE Unmount
  <2>1. mounted' = FALSE /\ UNCHANGED outside
    BY <1>4 DEF Unmount
  <2>2. UNCHANGED <<attachment, wire, exchange, channel, crossing, subscriber, lastSequence>>
    BY <2>1 DEF outside, journalVars, mainVars, history
  <2> QED BY <2>1, <2>2, OutsideUntouched DEF ArrivalInv, QueuedInv, ShownInv, Following
<1>5. CASE Remount
  <2>1. ~mounted /\ restoring' = "attaching" /\ UNCHANGED outside /\ operations' = operations
    BY <1>5 DEF Remount, reconciler
  <2>2. UNCHANGED <<attachment, wire, exchange, channel, crossing, subscriber, lastSequence>>
    BY <2>1 DEF outside, journalVars, mainVars, history
  <2>3. operations' = <<>>
    BY <2>1 DEF RestoreInv, GoneInv
  <2>4. QueuedInv'
    BY <2>3 DEF QueuedInv
  <2>5. ShownInv'
    BY <2>1 DEF ShownInv, Undisturbed
  <2> QED BY <2>2, <2>4, <2>5, OutsideUntouched DEF ArrivalInv
<1>6. CASE Detach
  <2>1. /\ attachment' = "none" /\ UNCHANGED <<journalVars, exchange, history>>
    BY <1>6 DEF Detach
  <2>2. PassedInv'
    BY <2>1 DEF ArrivalInv, PassedInv, journalVars, history
  <2> QED BY <2>1, <2>2 DEF ArrivalInv, RepliedInv, QueuedInv, ShownInv, Following
<1> QED BY <1>1, <1>2, <1>3, <1>4, <1>5, <1>6

LEMMA NextArrival ==
    ASSUME CoreInv, BatchInv, ArrivalInv, [Next]_vars
    PROVE  ArrivalInv'
<1>1. Known /\ FlowInv /\ RestoreInv
  BY DEF CoreInv
<1>2. CASE UNCHANGED vars
  <2>1. UNCHANGED <<outside, mount, reconciler, restoration>>
    BY <1>2 DEF vars, paneVars
  <2>2. /\ UNCHANGED <<exchange, channel, wire, crossing, lastSequence, operations, applied>>
        /\ UNCHANGED <<attachment, subscriber, pane, mounted, restoring, restoreAgain, paneError>>
    BY <2>1 DEF outside, journalVars, mainVars, history, mount, reconciler, restoration
  <2> QED BY <2>2, QueueKept DEF Following, Undisturbed
<1> QED BY <1>1, <1>2, MainStepsArrival, OutputArrival, ReceiveArrival, StartArrival, ParseArrival,
           PaneStepsArrival DEF Next, Progress

(* A pane at rest that receives the events of its own attachment lacks       *)
(* nothing but the output that this attachment passed over: all else that it *)
(* lacked was on its way, in the queue, or noticed as a gap and restored.    *)
THEOREM LossIsAcrossAttach == Spec => []BehindOnlyAcrossAttach
<1>1. Init => CoreInv /\ BatchInv /\ ArrivalInv
  BY InitCore, InitRequest, InitArrival
<1>2. CoreInv /\ BatchInv /\ ArrivalInv /\ [Next]_vars => (CoreInv /\ BatchInv /\ ArrivalInv)'
  BY NextCore, NextBatch, NextArrival
<1>3. CoreInv /\ ArrivalInv => BehindOnlyAcrossAttach
  <2> SUFFICES ASSUME CoreInv, ArrivalInv, AtRest, attachment = "open", subscriber = pane,
                      NEW s \in applied + 1 .. lastSequence
               PROVE  s \in crossing
    BY DEF BehindOnlyAcrossAttach
  <2>1. /\ wire = <<>> /\ channel = <<>> /\ transitions = <<>> /\ operations = <<>> /\ restoring = "no"
        /\ mounted /\ ~paneError
    BY DEF AtRest, Quiescent
  <2>2. exchange.phase = "idle"
    BY <2>1 DEF CoreInv, FlowInv, AttachUnderWay, Attaching
  <2>3. ~restoreAgain
    BY <2>1 DEF CoreInv, RestoreInv, GapInv
  <2>4. Following /\ Undisturbed
    BY <2>1, <2>2, <2>3 DEF Following, Undisturbed
  <2>5. ~Waiting(s) /\ ~Coming(s) /\ ~HeadStarted("batch")
    BY <2>1 DEF Waiting, Coming, InChannel, InWire, HeadStarted
  <2> QED BY <2>4, <2>5 DEF ArrivalInv, ShownInv
<1> QED BY <1>1, <1>2, <1>3, PTL DEF Spec

-----------------------------------------------------------------------------
(* The service on the way of the output is the one of TerminalJournal.       *)

\* A checkpoint that a pane sent is one that the service may be sent.
LEMMA ServeIsAccept ==
    ASSUME Known, NEW p \in posts, ServeCheckpoint(p)
    PROVE  Service!Next \/ UNCHANGED journalVars
<1>1. p.checkpoint \in Checkpoints(lastSequence)
  BY KnownParts DEF Posts
<1>2. lastSequence \in 0 .. MaxSequence
  BY BoundedOutput DEF Known, ServiceKnown
<1>3. p.checkpoint \in Service!Checkpoint /\ p.checkpoint.sequence <= lastSequence
  BY <1>1 DEF Checkpoints
<1>4. /\ p.checkpoint = [sequence |-> p.checkpoint.sequence, data |-> p.checkpoint.data]
      /\ p.checkpoint.sequence \in Nat /\ p.checkpoint.data \in Projection
  BY <1>3 DEF Service!Checkpoint
<1>5. p.checkpoint.sequence \in 0 .. MaxSequence
  <2>1. PICK m \in Nat : m = p.checkpoint.sequence
    BY <1>4
  <2>2. m <= lastSequence
    BY <1>3, <2>1
  <2>3. m \in 0 .. MaxSequence
    BY <1>2, <2>2, JournalAssumption
  <2> QED BY <2>1, <2>3
<1>6. CASE Service!AcceptCheckpoint(p.checkpoint)
  <2>1. Service!AcceptCheckpoint([sequence |-> p.checkpoint.sequence, data |-> p.checkpoint.data])
    BY <1>4, <1>6, Zenon
  <2> QED BY <1>4, <1>5, <2>1, Zenon DEF Service!Next
<1> QED BY <1>6 DEF ServeCheckpoint

(* With its pane, its socket and their failures around it, the service does  *)
(* nothing but what TerminalJournal lets it do: what is proved of a session  *)
(* there holds on the whole path.                                            *)
THEOREM JournalRefined == Spec => Service!Spec
<1>1. Init => Service!Init
  BY DEF Init
<1>2. CoreInv /\ [Next]_vars => [Service!Next]_Service!session
  <2> SUFFICES ASSUME Known, [Next]_vars
               PROVE  Service!Next \/ UNCHANGED journalVars
    BY DEF CoreInv, journalVars, Service!session
  <2>1. CASE UNCHANGED vars
    BY <2>1 DEF vars, outside
  <2>2. CASE ReadPty \/ Output
    BY <2>2 DEF ReadPty, Output, Service!Next
  <2>3. CASE \E p \in posts : ServeCheckpoint(p)
    BY <2>3, ServeIsAccept
  <2>4. CASE AnswerAttach \/ Subscribe \/ OpenSocket \/ AttachReply \/ AttachFails \/ Forward \/ SocketClosed
    BY <2>4 DEF AnswerAttach, Subscribe, OpenSocket, AttachReply, AttachFails, Forward, SocketClosed
  <2>5. CASE Receive \/ Detach
    BY <2>5 DEF Receive, Detach
  <2>6. CASE \/ StartOperation \/ Parse \/ Capture \/ TimerFires \/ FinishRestore \/ BeginCheckpoint
             \/ Unmount \/ Remount \/ OrphanAttach \/ SendLastCheckpoint
             \/ \E p \in posts : CheckpointAnswered(p)
    <3>1. UNCHANGED outside
      BY <2>6 DEF StartOperation, Parse, Capture, TimerFires, FinishRestore, BeginCheckpoint,
                  Unmount, Remount, OrphanAttach, SendLastCheckpoint, CheckpointAnswered
    <3> QED BY <3>1 DEF outside
  <2> QED BY <2>1, <2>2, <2>3, <2>4, <2>5, <2>6 DEF Next, Progress
<1> QED BY <1>1, <1>2, CoreHolds, PTL DEF Spec, Service!Spec
=============================================================================
