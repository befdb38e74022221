------------------------- MODULE BufferedWriterProofs -------------------------
(***************************************************************************)
(* Theorems about BufferedWriter, for any set of users, either adapter,    *)
(* any size of the buffer and any number of records and calls.             *)
(***************************************************************************)
EXTENDS BufferedWriter, TLAPS

LOCAL INSTANCE Functions
LOCAL INSTANCE SequencesExt
LOCAL INSTANCE SequenceTheorems

-----------------------------------------------------------------------------
(* The line for the lock. *)

\* Where a caller that owns the lock waits for the target.
Holding == {"opening", "flushing", "closing"}

\* Nobody is twice in the line.
Distinct == \A i, j \in DOMAIN line : line[i] = line[j] => i = j

\* The callers in a method are in the line, and only its head is past the lock.
LineRight ==
    /\ line \in Seq(Users)
    /\ upc \in [Users -> {"idle", "queued", "opening", "flushing", "closing"}]
    /\ \A u \in Users : upc[u] # "idle" <=> u \in Range(line)
    /\ Distinct
    /\ \A u \in Users : upc[u] \in Holding => line[1] = u

\* Taking one place out of a sequence closes the gap.
LEMMA WithoutOne ==
    ASSUME NEW T, NEW q \in Seq(T), NEW i \in 1..Len(q)
    PROVE  /\ RemoveAt(q, i) \in Seq(T)
           /\ Len(RemoveAt(q, i)) = Len(q) - 1
           /\ \A j \in 1..(Len(q) - 1) : RemoveAt(q, i)[j] = IF j < i THEN q[j] ELSE q[j + 1]
<1> DEFINE front == SubSeq(q, 1, i - 1)
           back  == SubSeq(q, i + 1, Len(q))
<1>1. Len(q) \in Nat /\ i \in Nat /\ \A j \in 1..Len(q) : q[j] \in T
  BY LenProperties, ElementOfSeq
<1>2. /\ front \in Seq(T) /\ Len(front) = i - 1
      /\ \A j \in 1..(i - 1) : front[j] = q[j]
  BY <1>1, SubSeqProperties
<1>3. /\ back \in Seq(T) /\ Len(back) = Len(q) - i
      /\ \A j \in 1..(Len(q) - i) : back[j] = q[j + i]
  <2>1. \A j \in (i + 1)..Len(q) : q[j] \in T
    BY <1>1
  <2>2. /\ back \in Seq(T)
        /\ Len(back) = IF i + 1 <= Len(q) THEN Len(q) - (i + 1) + 1 ELSE 0
        /\ \A j \in 1..(Len(q) - (i + 1) + 1) : back[j] = q[(i + 1) + j - 1]
    BY <1>1, <2>1, SubSeqProperties
  <2>. HIDE DEF back
  <2>3. \A j \in 1..(Len(q) - i) : (i + 1) + j - 1 = j + i /\ j \in 1..(Len(q) - (i + 1) + 1)
    BY <1>1
  <2>. QED
    BY <1>1, <2>2, <2>3
<1>. HIDE DEF front, back
<1>4. /\ front \o back \in Seq(T)
      /\ Len(front \o back) = Len(front) + Len(back)
      /\ \A j \in 1..(Len(front) + Len(back)) :
           (front \o back)[j] = IF j <= Len(front) THEN front[j] ELSE back[j - Len(front)]
  BY <1>2, <1>3, ConcatProperties
<1>5. RemoveAt(q, i) = front \o back
  BY DEF RemoveAt, front, back
<1>6. Len(front) + Len(back) = Len(q) - 1
  BY <1>1, <1>2, <1>3
<1>7. ASSUME NEW j \in 1..(Len(q) - 1)
      PROVE  (front \o back)[j] = IF j < i THEN q[j] ELSE q[j + 1]
  <2>1. CASE j < i
    <3>1. j \in 1..(i - 1) /\ j <= Len(front)
      BY <1>1, <1>2, <2>1
    <3>. QED
      BY <1>2, <1>4, <1>6, <2>1, <3>1
  <2>2. CASE ~(j < i)
    <3>1. /\ ~(j <= Len(front)) /\ j - Len(front) \in 1..(Len(q) - i)
          /\ (j - Len(front)) + i = j + 1
      BY <1>1, <1>2, <2>2
    <3>. QED
      BY <1>3, <1>4, <1>6, <2>2, <3>1
  <2>. QED
    BY <2>1, <2>2
<1>. QED
  BY <1>4, <1>5, <1>6, <1>7

\* A line whose members differ loses exactly the one that leaves.
LEMMA LineWithout ==
    ASSUME NEW q \in Seq(Users), NEW i \in 1..Len(q), NEW left, left = RemoveAt(q, i),
           \A m, n \in 1..Len(q) : q[m] = q[n] => m = n
    PROVE  /\ left \in Seq(Users) /\ DOMAIN left = 1..Len(left)
           /\ \A m, n \in 1..Len(left) : left[m] = left[n] => m = n
           /\ Range(left) = Range(q) \ {q[i]}
           /\ i # 1 => left[1] = q[1]
<1>1. /\ left \in Seq(Users) /\ Len(left) = Len(q) - 1
      /\ \A j \in 1..(Len(q) - 1) : left[j] = IF j < i THEN q[j] ELSE q[j + 1]
  BY WithoutOne
<1>2. Len(q) \in Nat /\ i \in Nat /\ DOMAIN q = 1..Len(q) /\ DOMAIN left = 1..Len(left)
  BY <1>1, LenProperties
<1> DEFINE from(j) == IF j < i THEN j ELSE j + 1
<1>3. ASSUME NEW j \in 1..Len(left)
      PROVE  from(j) \in 1..Len(q) /\ from(j) # i /\ left[j] = q[from(j)]
  BY <1>1, <1>2
<1>4. ASSUME NEW m \in 1..Len(left), NEW n \in 1..Len(left), left[m] = left[n] PROVE m = n
  <2>1. from(m) = from(n)
    BY <1>3, <1>4
  <2>. QED
    BY <1>2, <2>1
<1>5. ASSUME NEW k \in 1..Len(q), k # i PROVE \E j \in 1..Len(left) : left[j] = q[k]
  <2> DEFINE j == IF k < i THEN k ELSE k - 1
  <2>1. j \in 1..Len(left) /\ from(j) = k
    BY <1>1, <1>2, <1>5
  <2>. QED
    BY <1>3, <2>1
<1>6. Range(left) = Range(q) \ {q[i]}
  <2>1. ASSUME NEW x \in Range(left) PROVE x \in Range(q) /\ x # q[i]
    <3>1. PICK j \in 1..Len(left) : x = left[j]
      BY <1>2 DEF Range
    <3>2. from(j) \in 1..Len(q) /\ from(j) # i /\ x = q[from(j)]
      BY <1>3, <3>1
    <3>. HIDE DEF from
    <3>. QED
      BY <1>2, <3>2 DEF Range
  <2>2. ASSUME NEW x \in Range(q), x # q[i] PROVE x \in Range(left)
    <3>1. PICK k \in 1..Len(q) : x = q[k]
      BY <1>2 DEF Range
    <3>2. PICK j \in 1..Len(left) : left[j] = q[k]
      BY <1>5, <2>2, <3>1
    <3>. QED
      BY <1>2, <3>1, <3>2 DEF Range
  <2>. QED
    BY <2>1, <2>2
<1>7. i # 1 => left[1] = q[1]
  BY <1>1, <1>2
<1>. QED
  BY <1>1, <1>2, <1>4, <1>6, <1>7

\* A caller that ends its method leaves the line, and nobody else moves.
LEMMA LeaveLine ==
    ASSUME LineRight, NEW u \in Users, NEW how, Leave(u, how)
    PROVE  LineRight' /\ upc' = [upc EXCEPT ![u] = "idle"]
<1>1. PICK i \in DOMAIN line : line[i] = u /\ line' = RemoveAt(line, i)
  BY DEF Leave, Unlock, OutOfLine
<1>2. upc' = [upc EXCEPT ![u] = "idle"]
  BY DEF Leave, Goes
<1>3. line \in Seq(Users) /\ DOMAIN line = 1..Len(line)
  BY LenProperties DEF LineRight
<1>4. /\ line' \in Seq(Users) /\ DOMAIN line' = 1..Len(line')
      /\ \A m, n \in 1..Len(line') : line'[m] = line'[n] => m = n
      /\ Range(line') = Range(line) \ {u}
      /\ i # 1 => line'[1] = line[1]
  BY <1>1, <1>3, LineWithout DEF LineRight, Distinct
<1>5. ASSUME NEW v \in Users, upc'[v] \in Holding PROVE line'[1] = v
  <2>1. v # u /\ line[1] = v
    BY <1>2, <1>5 DEF LineRight, Holding
  <2>. QED
    BY <1>1, <1>4, <2>1
<1>. QED
  BY <1>2, <1>4, <1>5 DEF LineRight, Distinct

\* A caller that goes on with the lock is the head of the line.
LEMMA HoldLine ==
    ASSUME LineRight, NEW u \in Users, NEW place \in Holding, Goes(u, place),
           UNCHANGED line, upc[u] \in Holding \/ (upc[u] = "queued" /\ Head(line) = u)
    PROVE  LineRight' /\ upc' = [upc EXCEPT ![u] = place]
<1>1. upc' = [upc EXCEPT ![u] = place] /\ place # "idle" /\ upc[u] # "idle"
  BY DEF Goes, Holding
<1>2. line[1] = u
  <2>1. CASE upc[u] \in Holding
    BY <2>1 DEF LineRight
  <2>2. CASE Head(line) = u
    BY <2>2
  <2>. QED
    BY <2>1, <2>2
<1>3. \A v \in Users : upc'[v] = IF v = u THEN place ELSE upc[v]
  BY <1>1 DEF LineRight
<1>4. upc' \in [Users -> {"idle", "queued", "opening", "flushing", "closing"}]
  BY <1>1 DEF LineRight, Holding
<1>. QED
  BY <1>1, <1>2, <1>3, <1>4 DEF LineRight, Distinct

\* A new caller goes to the end of the line.
LEMMA CallLine ==
    ASSUME LineRight, NEW u \in Users, NEW m \in Methods, Call(u, m)
    PROVE  LineRight' /\ upc' = [upc EXCEPT ![u] = "queued"]
<1> DEFINE longer == Append(line, u)
<1>1. /\ upc' = [upc EXCEPT ![u] = "queued"] /\ line' = longer /\ upc[u] = "idle"
      /\ line \in Seq(Users)
  BY DEF Call, Goes, LineRight
<1>2. /\ longer \in Seq(Users) /\ Len(longer) = Len(line) + 1
      /\ \A i \in 1..Len(line) : longer[i] = line[i]
      /\ longer[Len(line) + 1] = u
      /\ DOMAIN longer = 1..Len(longer)
  BY <1>1, AppendProperties, LenProperties
<1>3. Len(line) \in Nat /\ DOMAIN line = 1..Len(line)
  BY <1>1, LenProperties
<1>4. u \notin Range(line)
  BY <1>1 DEF LineRight
<1>. HIDE DEF longer
<1>5. \A i \in 1..Len(line) : line[i] # u
  BY <1>3, <1>4 DEF Range
<1>6. ASSUME NEW i \in 1..Len(longer) PROVE i \in 1..Len(line) \/ i = Len(line) + 1
  BY <1>2, <1>3
<1>7. \A i, j \in DOMAIN longer : longer[i] = longer[j] => i = j
  BY <1>2, <1>3, <1>5, <1>6 DEF LineRight, Distinct
<1>8. Range(longer) = Range(line) \cup {u}
  <2>1. ASSUME NEW x \in Range(longer) PROVE x \in Range(line) \cup {u}
    <3>1. PICK i \in 1..Len(longer) : x = longer[i]
      BY <1>2 DEF Range
    <3>. QED
      BY <1>2, <1>3, <1>6, <3>1 DEF Range
  <2>2. ASSUME NEW x \in Range(line) PROVE x \in Range(longer)
    <3>1. PICK i \in 1..Len(line) : x = line[i]
      BY <1>3 DEF Range
    <3>2. i \in 1..Len(longer)
      BY <1>2, <1>3
    <3>. QED
      BY <1>2, <3>1, <3>2 DEF Range
  <2>3. u \in Range(longer)
    <3>1. Len(line) + 1 \in 1..Len(longer)
      BY <1>2, <1>3
    <3>. QED
      BY <1>2, <3>1 DEF Range
  <2>. QED
    BY <2>1, <2>2, <2>3
<1>9. ASSUME NEW v \in Users, upc'[v] \in Holding PROVE longer[1] = v
  <2>1. upc[v] \in Holding /\ v # u
    BY <1>1, <1>9 DEF LineRight, Holding
  <2>2. line[1] = v /\ v \in Range(line)
    BY <2>1 DEF LineRight, Holding
  <2>3. 1 \in 1..Len(line)
    <3>1. PICK i \in 1..Len(line) : v = line[i]
      BY <1>3, <2>2 DEF Range
    <3>. QED
      BY <1>3, <3>1
  <2>. QED
    BY <1>2, <2>2, <2>3
<1>10. \A v \in Users : upc'[v] # "idle" <=> v \in Range(longer)
  BY <1>1, <1>8 DEF LineRight
<1>. QED
  BY <1>1, <1>2, <1>7, <1>9, <1>10 DEF LineRight, Distinct

-----------------------------------------------------------------------------
(* Types. *)

DataTypes ==
    /\ adapter \in Adapters
    /\ buffer \in Seq(Nat) /\ Len(buffer) <= appended /\ file \in Seq(Nat)
    /\ closed \in BOOLEAN /\ opened \in BOOLEAN /\ handle \in BOOLEAN
    /\ inTxn \in BOOLEAN /\ torn \in BOOLEAN /\ wiped \in BOOLEAN
    /\ op \in [Users -> Methods]
    /\ result \in [Users -> {"none", "ok", "raised", "cancelled"}]
    /\ appended \in Nat /\ ops \in Nat
    /\ goal \in [Users -> 0..appended]

\* A record waits for an open target, and not while the writer is closed: a
\* flush that found nothing to do found nothing in the buffer.
BufferRight ==
    /\ buffer # <<>> => opened
    /\ \A u \in Users : upc[u] = "closing" => buffer = <<>>

WriterInv == LineRight /\ DataTypes /\ BufferRight

\* The part of the buffer that a broken flush wrote is a sequence of records.
LEMMA PartOfBuffer ==
    ASSUME NEW b \in Seq(Nat), NEW n \in 0..Len(b)
    PROVE  /\ SubSeq(b, 1, n) \in Seq(Nat)
           /\ n = 0 => SubSeq(b, 1, n) = <<>>
           /\ n = Len(b) => SubSeq(b, 1, n) = b
<1>1. Len(b) \in Nat /\ \A i \in 1..Len(b) : b[i] \in Nat
  BY LenProperties, ElementOfSeq
<1>2. SubSeq(b, 1, n) \in Seq(Nat)
  BY <1>1, SubSeqProperties
<1>3. n = 0 => SubSeq(b, 1, n) = <<>>
  BY SubSeqEmpty
<1>. QED
  BY <1>2, <1>3, SubSeqFull

\* What a step does to the buffer, the target and the count of records: nothing;
\* a record enters; the buffer goes out; part of it goes out and stays; the
\* target is opened anew, perhaps with a record entering.
Enters     == appended' = appended + 1 /\ buffer' = Append(buffer, appended + 1)
Part(n)    == file' = file \o SubSeq(buffer, 1, n) /\ torn' = (torn \/ n > 0)
KeepData   == UNCHANGED <<buffer, file, appended, torn, wiped>>

DataMoves ==
    \/ KeepData
    \/ Enters /\ UNCHANGED <<file, torn, wiped>>
    \/ Written /\ UNCHANGED <<appended, torn, wiped>>
    \/ \E n \in 0..Len(buffer) : Part(n) /\ UNCHANGED <<buffer, appended, wiped>>
    \/ OpenFile /\ UNCHANGED torn /\ (Enters \/ UNCHANGED <<buffer, appended>>)

\* Len(buffer) can be used as a count.
LEMMA BufferLength ==
    ASSUME DataTypes
    PROVE  Len(buffer) \in Nat /\ 0 \in 0..Len(buffer) /\ Len(buffer) \in 0..Len(buffer)
<1>1. Len(buffer) \in Nat
  BY LenProperties DEF DataTypes
<1>. QED
  BY <1>1

\* Every step does one of these things.
LEMMA StepMoves == DataTypes /\ Next => DataMoves
<1> SUFFICES ASSUME DataTypes, Next PROVE DataMoves
  OBVIOUS
<1>1. PICK u \in Users : \/ \E m \in Methods : Call(u, m)
                         \/ Progress(u) \/ Cancelled(u)
  BY DEF Next
<1>2. CASE \E m \in Methods : Call(u, m)
  BY <1>2 DEF Call, DataMoves, KeepData
<1>3. CASE Turn(u)
  <2>1. UNCHANGED <<file, torn, wiped>>
    BY <1>3 DEF Turn
  <2>2. CASE BufferRecord(u)
    BY <2>1, <2>2 DEF BufferRecord, DataMoves, Enters
  <2>3. CASE UNCHANGED <<buffer, appended>>
    BY <2>1, <2>3 DEF DataMoves, KeepData
  <2>. QED
    BY <1>3, <2>2, <2>3 DEF Turn
<1>4. CASE Opened(u)
  <2>1. OpenFile /\ UNCHANGED torn
    BY <1>4 DEF Opened
  <2>2. Enters \/ UNCHANGED <<buffer, appended>>
    BY <1>4 DEF Opened, BufferRecord, Enters
  <2>. QED
    BY <2>1, <2>2 DEF DataMoves
<1>5. ASSUME NEW how \in {"raised", "cancelled"}, OpenBreaks(u, how) PROVE DataMoves
  BY <1>5 DEF OpenBreaks, DataMoves, KeepData
<1>6. CASE FlushDone(u)
  BY <1>6 DEF FlushDone, DataMoves
<1>7. CASE FlushFails(u)
  <2>1. PICK n \in 0..(IF adapter = "jsonl" /\ handle THEN Len(buffer) ELSE 0) : WritePart(n)
    BY <1>7 DEF FlushFails
  <2>2. n \in 0..Len(buffer)
    BY <2>1, BufferLength
  <2>3. Part(n) /\ UNCHANGED <<buffer, appended, wiped>>
    BY <1>7, <2>1 DEF FlushFails, WritePart, Part
  <2>. QED
    BY <2>2, <2>3 DEF DataMoves
<1>8. CASE FlushCancelled(u)
  <2>1. UNCHANGED <<buffer, appended, wiped>>
    BY <1>8 DEF FlushCancelled
  <2>2. \/ UNCHANGED <<file, torn>>
        \/ \E n \in 0..Len(buffer) : Part(n)
    <3>1. CASE \E n \in 0..(IF handle THEN Len(buffer) ELSE 0) : WritePart(n)
      <4>1. PICK n \in 0..(IF handle THEN Len(buffer) ELSE 0) : WritePart(n)
        BY <3>1
      <4>2. n \in 0..Len(buffer) /\ Part(n)
        BY <4>1, BufferLength DEF WritePart, Part
      <4>. QED
        BY <4>2
    <3>2. CASE WritePart(Len(buffer))
      BY <3>2, BufferLength DEF WritePart, Part
    <3>. QED
      BY <1>8, <3>1, <3>2 DEF FlushCancelled
  <2>. QED
    BY <2>1, <2>2 DEF DataMoves, KeepData
<1>9. CASE BeginRefused(u) \/ CloseDone(u) \/ CancelQueued(u)
  BY <1>9 DEF BeginRefused, CloseDone, CancelQueued, DataMoves, KeepData
<1>10. ASSUME NEW how \in {"raised", "cancelled"}, CloseBreaks(u, how) PROVE DataMoves
  BY <1>10 DEF CloseBreaks, DataMoves, KeepData
<1>. QED
  BY <1>1, <1>2, <1>3, <1>4, <1>5, <1>6, <1>7, <1>8, <1>9, <1>10 DEF Progress, Cancelled

\* The buffer and the target stay sequences, no longer than what was written.
LEMMA MoveTypes ==
    ASSUME DataTypes, DataMoves
    PROVE  /\ buffer' \in Seq(Nat) /\ file' \in Seq(Nat) /\ appended' \in Nat
           /\ Len(buffer') <= appended' /\ appended <= appended'
           /\ torn' \in BOOLEAN /\ wiped' \in BOOLEAN
<1>1. /\ buffer \in Seq(Nat) /\ file \in Seq(Nat) /\ appended \in Nat
      /\ Len(buffer) <= appended /\ torn \in BOOLEAN /\ wiped \in BOOLEAN
  BY DEF DataTypes
<1>2. ASSUME Enters
      PROVE  /\ buffer' \in Seq(Nat) /\ appended' \in Nat
             /\ Len(buffer') <= appended' /\ appended <= appended'
  <2>1. appended + 1 \in Nat /\ Len(buffer) \in Nat
    BY <1>1, BufferLength
  <2>2. /\ Append(buffer, appended + 1) \in Seq(Nat)
        /\ Len(Append(buffer, appended + 1)) = Len(buffer) + 1
    BY <1>1, <2>1, AppendProperties
  <2>. QED
    BY <1>1, <1>2, <2>1, <2>2 DEF Enters
<1>3. CASE KeepData
  BY <1>1, <1>3 DEF KeepData
<1>4. CASE Enters /\ UNCHANGED <<file, torn, wiped>>
  BY <1>1, <1>2, <1>4
<1>5. CASE Written /\ UNCHANGED <<appended, torn, wiped>>
  <2>1. file \o buffer \in Seq(Nat) /\ <<>> \in Seq(Nat) /\ Len(<<>>) = 0
    BY <1>1, ConcatProperties, EmptySeq
  <2>2. file' = file \o buffer /\ buffer' = <<>> /\ UNCHANGED <<appended, torn, wiped>>
    BY <1>5 DEF Written
  <2>. QED
    BY <1>1, <2>1, <2>2
<1>6. ASSUME NEW n \in 0..Len(buffer), Part(n), UNCHANGED <<buffer, appended, wiped>>
      PROVE  file' \in Seq(Nat) /\ torn' \in BOOLEAN
  <2>1. SubSeq(buffer, 1, n) \in Seq(Nat)
    BY <1>1, PartOfBuffer
  <2>2. file \o SubSeq(buffer, 1, n) \in Seq(Nat)
    BY <1>1, <2>1, ConcatProperties
  <2>. QED
    BY <1>1, <1>6, <2>2 DEF Part
<1>7. OpenFile => file' \in Seq(Nat) /\ wiped' \in BOOLEAN
  <2>1. <<>> \in Seq(Nat)
    BY EmptySeq
  <2>. QED
    BY <1>1, <2>1 DEF OpenFile
<1>. QED
  BY <1>1, <1>2, <1>3, <1>4, <1>5, <1>6, <1>7 DEF DataMoves
-----------------------------------------------------------------------------
(* The inductive invariant. *)

\* A caller that moves goes on with the lock or leaves its method.
LEMMA GoesOrLeaves ==
    ASSUME NEW u \in Users, Progress(u) \/ Cancelled(u)
    PROVE  \/ \E how \in {"ok", "raised", "cancelled"} : Leave(u, how)
           \/ /\ \E place \in Holding : Goes(u, place)
              /\ UNCHANGED <<line, result>>
              /\ upc[u] \in Holding \/ (upc[u] = "queued" /\ Head(line) = u)
<1>1. AfterFlush(u) => \/ Leave(u, "ok")
                       \/ Goes(u, "closing") /\ UNCHANGED <<line, result>>
  BY Zenon DEF AfterFlush, Stay
<1>2. BufferRecord(u) => \/ Leave(u, "ok")
                         \/ Goes(u, "flushing") /\ UNCHANGED <<line, result>>
  BY Zenon DEF BufferRecord, Stay
<1>3. CASE Turn(u)
  BY <1>1, <1>2, <1>3 DEF Turn, Stay, Holding
<1>4. CASE Opened(u)
  BY <1>2, <1>4 DEF Opened, Holding
<1>5. CASE FlushDone(u)
  BY <1>1, <1>5 DEF FlushDone, Holding
<1>6. CASE OpenBreaks(u, "raised") \/ FlushFails(u) \/ BeginRefused(u) \/ CloseDone(u)
             \/ CloseBreaks(u, "raised") \/ Cancelled(u)
  BY <1>6 DEF OpenBreaks, FlushFails, BeginRefused, CloseDone, CloseBreaks, Cancelled,
              CancelQueued, FlushCancelled
<1>. QED
  BY <1>3, <1>4, <1>5, <1>6 DEF Progress

\* The line stays right, and only the caller that acts changes its place.
LEMMA LineStep ==
    ASSUME LineRight, NEW u \in Users, Progress(u) \/ Cancelled(u)
    PROVE  LineRight' /\ \A v \in Users \ {u} : upc'[v] = upc[v]
<1>1. CASE \E how \in {"ok", "raised", "cancelled"} : Leave(u, how)
  <2>1. LineRight' /\ upc' = [upc EXCEPT ![u] = "idle"]
    BY <1>1, LeaveLine
  <2>. QED
    BY <2>1 DEF LineRight
<1>2. CASE /\ \E place \in Holding : Goes(u, place)
           /\ UNCHANGED <<line, result>>
           /\ upc[u] \in Holding \/ (upc[u] = "queued" /\ Head(line) = u)
  <2>1. PICK place \in Holding : LineRight' /\ upc' = [upc EXCEPT ![u] = place]
    BY <1>2, HoldLine
  <2>. QED
    BY <2>1 DEF LineRight
<1>. QED
  BY <1>1, <1>2, GoesOrLeaves

\* The callers' methods, results and goals stay in their ranges.
LEMMA CallerTypes ==
    ASSUME DataTypes, Next, appended' \in Nat, appended <= appended'
    PROVE  /\ op' \in [Users -> Methods]
           /\ result' \in [Users -> {"none", "ok", "raised", "cancelled"}]
           /\ goal' \in [Users -> 0..appended'] /\ ops' \in Nat
<1>1. PICK u \in Users : \/ \E m \in Methods : Call(u, m)
                         \/ Progress(u) \/ Cancelled(u)
  BY DEF Next
<1>2. appended \in Nat /\ goal \in [Users -> 0..appended] /\ ops \in Nat
  BY DEF DataTypes
<1>3. \A n \in 0..appended : n \in 0..appended'
  BY <1>2
<1>4. goal \in [Users -> 0..appended']
  BY <1>2, <1>3
<1>5. ASSUME NEW m \in Methods, Call(u, m)
      PROVE  /\ op' \in [Users -> Methods]
             /\ result' \in [Users -> {"none", "ok", "raised", "cancelled"}]
             /\ goal' \in [Users -> 0..appended'] /\ ops' \in Nat
  <2>1. appended \in 0..appended'
    BY <1>2
  <2>. QED
    BY <1>2, <1>4, <1>5, <2>1 DEF Call, DataTypes
<1>6. ASSUME Progress(u) \/ Cancelled(u)
      PROVE  /\ op' \in [Users -> Methods]
             /\ result' \in [Users -> {"none", "ok", "raised", "cancelled"}]
             /\ goal' \in [Users -> 0..appended'] /\ ops' \in Nat
  <2>1. UNCHANGED <<op, goal, ops>>
    BY <1>6 DEF Progress, Cancelled, Turn, Opened, OpenBreaks, FlushDone, FlushFails,
                BeginRefused, CloseDone, CloseBreaks, CancelQueued, FlushCancelled
  <2>2. \/ UNCHANGED result
        \/ \E how \in {"ok", "raised", "cancelled"} : result' = [result EXCEPT ![u] = how]
    BY <1>6, GoesOrLeaves DEF Leave
  <2>. QED
    BY <1>2, <1>4, <2>1, <2>2 DEF DataTypes
<1>. QED
  BY <1>1, <1>5, <1>6

\* Every variable of the writer stays in its range.
LEMMA DataStep == DataTypes /\ Next => DataTypes'
<1> SUFFICES ASSUME DataTypes, Next PROVE DataTypes'
  OBVIOUS
<1>1. /\ buffer' \in Seq(Nat) /\ file' \in Seq(Nat) /\ appended' \in Nat
      /\ Len(buffer') <= appended' /\ appended <= appended'
      /\ torn' \in BOOLEAN /\ wiped' \in BOOLEAN
  BY StepMoves, MoveTypes
<1>2. /\ op' \in [Users -> Methods]
      /\ result' \in [Users -> {"none", "ok", "raised", "cancelled"}]
      /\ goal' \in [Users -> 0..appended'] /\ ops' \in Nat
  BY <1>1, CallerTypes
<1>3. /\ closed' \in BOOLEAN /\ opened' \in BOOLEAN /\ handle' \in BOOLEAN
      /\ inTxn' \in BOOLEAN /\ adapter' \in Adapters
  <2>1. PICK u \in Users : \/ \E m \in Methods : Call(u, m)
                           \/ Progress(u) \/ Cancelled(u)
    BY DEF Next
  <2>2. /\ closed \in BOOLEAN /\ opened \in BOOLEAN /\ handle \in BOOLEAN
        /\ inTxn \in BOOLEAN /\ adapter \in Adapters
    BY DEF DataTypes
  <2>3. CASE \E m \in Methods : Call(u, m)
    BY <2>2, <2>3 DEF Call
  <2>4. CASE Progress(u)
    BY <2>2, <2>4 DEF Progress, Turn, AfterFlush, Opened, OpenBreaks, FlushDone, FlushFails,
                      BeginRefused, CloseDone, CloseBreaks
  <2>5. CASE Cancelled(u)
    BY <2>2, <2>5 DEF Cancelled, OpenBreaks, CancelQueued, FlushCancelled, CloseBreaks
  <2>. QED
    BY <2>1, <2>3, <2>4, <2>5
<1>. QED
  BY <1>1, <1>2, <1>3 DEF DataTypes

\* A record only enters while its writer has the lock and the target is open.
LEMMA BufferStep ==
    ASSUME WriterInv, NEW u \in Users, Progress(u) \/ Cancelled(u)
    PROVE  BufferRight'
<1>1. \A v \in Users \ {u} : upc'[v] = upc[v]
  BY LineStep DEF WriterInv
<1>2. /\ buffer # <<>> => opened
      /\ \A v \in Users : upc[v] = "closing" => buffer = <<>> /\ line[1] = v
  BY DEF WriterInv, BufferRight, LineRight, Holding
<1>3. ASSUME BufferRecord(u), opened', line[1] = u, upc[u] # "closing" PROVE BufferRight'
  <2>1. upc' = [upc EXCEPT ![u] = "idle"] \/ upc' = [upc EXCEPT ![u] = "flushing"]
    BY <1>3 DEF BufferRecord, Leave, Goes
  <2>2. ASSUME NEW v \in Users, upc'[v] = "closing" PROVE FALSE
    <3>1. v # u /\ upc[v] = "closing"
      BY <1>1, <2>1, <2>2 DEF WriterInv, LineRight
    <3>. QED
      BY <1>2, <1>3, <3>1
  <2>. QED
    BY <1>3, <2>2 DEF BufferRight
<1>4. ASSUME AfterFlush(u), UNCHANGED opened, buffer' = <<>>
      PROVE  BufferRight'
  BY <1>4 DEF BufferRight
<1>5. ASSUME UNCHANGED <<buffer, opened>>, upc'[u] # "closing"
      PROVE  BufferRight'
  BY <1>1, <1>2, <1>5 DEF BufferRight
<1>6. upc' = [upc EXCEPT ![u] = "idle"] => upc'[u] # "closing"
  BY DEF WriterInv, LineRight
<1>7. CASE Turn(u)
  <2>1. /\ upc[u] = "queued" /\ UNCHANGED opened
        /\ line[1] = u
    BY <1>7 DEF Turn
  <2>2. CASE BufferRecord(u) /\ opened
    BY <1>3, <2>1, <2>2
  <2>3. CASE ~HasToFlush /\ AfterFlush(u) /\ UNCHANGED buffer
    <3>1. buffer = <<>>
      BY <1>2, <2>3 DEF HasToFlush
    <3>. QED
      BY <1>4, <2>1, <2>3, <3>1
  <2>4. CASE /\ UNCHANGED buffer
             /\ \/ Goes(u, "opening") \/ Goes(u, "flushing") \/ Leave(u, "ok")
    <3>1. upc'[u] # "closing"
      BY <2>4 DEF Goes, Leave, WriterInv, LineRight
    <3>. QED
      BY <1>5, <2>1, <2>4, <3>1
  <2>. QED
    BY <1>7, <2>2, <2>3, <2>4 DEF Turn
<1>8. CASE Opened(u)
  <2>1. upc[u] = "opening" /\ opened' /\ line[1] = u
    BY <1>8 DEF Opened, WriterInv, LineRight, Holding
  <2>2. CASE BufferRecord(u)
    BY <1>3, <2>1, <2>2
  <2>3. CASE Leave(u, "ok") /\ UNCHANGED buffer
    <3>1. upc'[u] # "closing"
      BY <1>6, <2>3 DEF Leave, Goes
    <3>. QED
      BY <1>1, <1>2, <2>1, <2>3, <3>1 DEF BufferRight
  <2>. QED
    BY <1>8, <2>2, <2>3 DEF Opened
<1>9. CASE FlushDone(u)
  BY <1>4, <1>9 DEF FlushDone, Written
<1>10. CASE CloseDone(u)
  <2>1. buffer = <<>> /\ UNCHANGED buffer
    BY <1>2, <1>10 DEF CloseDone
  <2>. QED
    BY <2>1 DEF BufferRight
<1>11. CASE \/ OpenBreaks(u, "raised") \/ FlushFails(u) \/ BeginRefused(u)
            \/ CloseBreaks(u, "raised") \/ Cancelled(u)
  <2>1. UNCHANGED <<buffer, opened>> /\ upc' = [upc EXCEPT ![u] = "idle"]
    BY <1>11 DEF OpenBreaks, FlushFails, BeginRefused, CloseBreaks, Cancelled, CancelQueued,
                 FlushCancelled, Leave, Goes
  <2>. QED
    BY <1>5, <1>6, <2>1
<1>. QED
  BY <1>7, <1>8, <1>9, <1>10, <1>11 DEF Progress

\* A writer that was just made is right.
LEMMA WriterInit == Init => WriterInv
<1> SUFFICES ASSUME Init PROVE WriterInv
  OBVIOUS
<1>1. line = <<>> /\ <<>> \in Seq(Users) /\ DOMAIN line = {} /\ Range(line) = {}
  BY EmptySeq DEF Init, Range
<1>2. LineRight
  BY <1>1 DEF Init, LineRight, Distinct, Holding
<1>3. <<>> \in Seq(Nat) /\ Len(<<>>) = 0
  BY EmptySeq
<1>4. DataTypes
  <2>1. op \in [Users -> Methods]
    BY DEF Init, Methods
  <2>2. goal \in [Users -> 0..appended] /\ Len(buffer) <= appended
    BY <1>3 DEF Init
  <2>3. result \in [Users -> {"none", "ok", "raised", "cancelled"}]
    BY DEF Init
  <2>. QED
    BY <1>3, <2>1, <2>2, <2>3 DEF Init, DataTypes
<1>. QED
  BY <1>2, <1>4 DEF Init, WriterInv, BufferRight

\* Every step keeps it right.
LEMMA WriterStep == WriterInv /\ [Next]_vars => WriterInv'
<1> SUFFICES ASSUME WriterInv, [Next]_vars PROVE WriterInv'
  OBVIOUS
<1>1. CASE UNCHANGED vars
  BY <1>1 DEF vars, WriterInv, LineRight, Distinct, DataTypes, BufferRight
<1>2. CASE Next
  <2>1. PICK u \in Users : \/ \E m \in Methods : Call(u, m)
                           \/ Progress(u) \/ Cancelled(u)
    BY <1>2 DEF Next
  <2>2. DataTypes'
    BY <1>2, DataStep DEF WriterInv
  <2>3. CASE Progress(u) \/ Cancelled(u)
    BY <2>2, <2>3, LineStep, BufferStep DEF WriterInv
  <2>4. ASSUME NEW m \in Methods, Call(u, m) PROVE WriterInv'
    <3>1. LineRight' /\ upc' = [upc EXCEPT ![u] = "queued"]
      BY <2>4, CallLine DEF WriterInv
    <3>2. UNCHANGED <<buffer, opened>>
      BY <2>4 DEF Call
    <3>3. BufferRight'
      BY <3>1, <3>2 DEF WriterInv, BufferRight, LineRight
    <3>. QED
      BY <2>2, <3>1, <3>3 DEF WriterInv
  <2>. QED
    BY <2>1, <2>3, <2>4
<1>. QED
  BY <1>1, <1>2

\* Every variable of the writer and of its callers stays in its range, and the
\* callers in a method are exactly those in the line for the lock.
THEOREM WriterTypeCorrect == Spec => []TypeOK
<1>1. WriterInv => TypeOK
  BY DEF WriterInv, LineRight, DataTypes, TypeOK
<1>. QED
  BY <1>1, WriterInit, WriterStep, PTL DEF Spec
-----------------------------------------------------------------------------
(* What is written is kept. *)

\* The target followed by the buffer has no parentheses.
LEMMA ThreeParts ==
    ASSUME NEW x \in Seq(Nat), NEW y \in Seq(Nat), NEW z \in Seq(Nat)
    PROVE  (x \o y) \o z = x \o (y \o z)
<1>. QED
  BY ConcatAssociative, SMTT(30)

\* The next record makes the journal one longer.
LEMMA JournalGrows ==
    ASSUME NEW f \in Seq(Nat), NEW b \in Seq(Nat), NEW n \in Nat,
           f \o b = [i \in 1..n |-> i]
    PROVE  f \o Append(b, n + 1) = [i \in 1..(n + 1) |-> i]
<1> DEFINE next == n + 1
           j == f \o b
           k == [i \in 1..(n + 1) |-> i]
<1>1. next \in Nat /\ <<next>> \in Seq(Nat) /\ j \in Seq(Nat)
  BY ConcatProperties
<1>2. Append(b, next) = b \o <<next>> /\ Append(j, next) = j \o <<next>>
  BY <1>1, AppendIsConcat
<1>3. f \o (b \o <<next>>) = j \o <<next>>
  BY <1>1, ThreeParts, Zenon
<1>4. /\ Append(j, next) \in Seq(Nat) /\ Len(Append(j, next)) = Len(j) + 1
      /\ \A i \in 1..Len(j) : Append(j, next)[i] = j[i]
      /\ Append(j, next)[Len(j) + 1] = next
  BY <1>1, AppendProperties
<1>5. Len(j) = n /\ \A i \in 1..n : j[i] = i
  OBVIOUS
<1>6. k \in Seq(Nat) /\ Len(k) = n + 1 /\ \A i \in 1..(n + 1) : k[i] = i
  OBVIOUS
<1>. HIDE DEF j, k
<1>7. \A i \in 1..Len(Append(j, next)) : Append(j, next)[i] = k[i]
  BY <1>4, <1>5, <1>6
<1>8. Append(j, next) = k
  BY <1>4, <1>5, <1>6, <1>7, SeqEqual
<1>. QED
  BY <1>2, <1>3, <1>8 DEF k

\* No move loses or repeats a record, unless it tears a flush or wipes the target.
LEMMA JournalStep ==
    ASSUME DataTypes, DataMoves, Journal, ~torn', ~wiped'
    PROVE  file' \o buffer' = [i \in 1..appended' |-> i]
<1>1. /\ buffer \in Seq(Nat) /\ file \in Seq(Nat) /\ appended \in Nat
      /\ torn \in BOOLEAN /\ wiped \in BOOLEAN
  BY DEF DataTypes
<1>2. ASSUME ~torn, ~wiped PROVE file \o buffer = [i \in 1..appended |-> i]
  BY <1>2 DEF Journal
<1>3. ASSUME Enters, file' = file, ~torn, ~wiped
      PROVE  file' \o buffer' = [i \in 1..appended' |-> i]
  <2>1. file \o Append(buffer, appended + 1) = [i \in 1..(appended + 1) |-> i]
    BY <1>1, <1>2, <1>3, JournalGrows
  <2>. QED
    BY <1>3, <2>1, Zenon DEF Enters
<1>4. CASE KeepData
  BY <1>2, <1>4 DEF KeepData
<1>5. CASE Enters /\ UNCHANGED <<file, torn, wiped>>
  BY <1>3, <1>5
<1>6. CASE Written /\ UNCHANGED <<appended, torn, wiped>>
  <2>1. /\ (file \o buffer) \o <<>> = file \o buffer
    BY <1>1, ConcatProperties, ConcatEmptySeq
  <2>2. file' = file \o buffer /\ buffer' = <<>> /\ UNCHANGED <<appended, torn, wiped>>
    BY <1>6 DEF Written
  <2>3. file \o buffer = [i \in 1..appended |-> i]
    BY <1>2, <2>2
  <2>. QED
    BY <2>1, <2>2, <2>3, Zenon
<1>7. ASSUME NEW n \in 0..Len(buffer), Part(n), UNCHANGED <<buffer, appended, wiped>>
      PROVE  file' \o buffer' = [i \in 1..appended' |-> i]
  <2>1. ~torn /\ n = 0
    <3>1. ~torn /\ ~(n > 0)
      BY <1>7, Zenon DEF Part
    <3>2. n \in Nat
      BY BufferLength
    <3>. QED
      BY <3>1, <3>2
  <2>2. SubSeq(buffer, 1, n) = <<>> /\ file \o <<>> = file
    BY <1>1, <2>1, PartOfBuffer, ConcatEmptySeq
  <2>3. file' = file
    BY <1>7, <2>2 DEF Part
  <2>. QED
    BY <1>2, <1>7, <2>1, <2>3
<1>8. CASE OpenFile /\ UNCHANGED torn /\ (Enters \/ UNCHANGED <<buffer, appended>>)
  <2>1. ~wiped /\ file' = file /\ ~torn
    BY <1>1, <1>8 DEF OpenFile
  <2>. QED
    BY <1>2, <1>3, <1>8, <2>1
<1>. QED
  BY <1>4, <1>5, <1>6, <1>7, <1>8 DEF DataMoves

\* What was torn or wiped once stays so; and a step does nothing or moves data.
LEMMA AnyStepMoves == WriterInv /\ [Next]_vars => DataTypes /\ DataMoves
<1>1. UNCHANGED vars => DataMoves
  BY DEF vars, DataMoves, KeepData
<1>. QED
  BY <1>1, StepMoves DEF WriterInv

\* An empty journal is the journal of nothing.
LEMMA JournalInit == Init => Journal /\ NothingLost
<1> SUFFICES ASSUME Init PROVE Journal /\ NothingLost
  OBVIOUS
<1>1. file = <<>> /\ buffer = <<>> /\ appended = 0 /\ <<>> \o <<>> = <<>>
  BY EmptySeq, ConcatEmptySeq DEF Init
<1>2. <<>> = [i \in 1..0 |-> i]
  OBVIOUS
<1>3. 1..0 = {}
  OBVIOUS
<1>. QED
  BY <1>1, <1>2, <1>3 DEF Journal, NothingLost

\* Unless a flush was interrupted halfway or the target was truncated, the target
\* followed by the buffer is exactly what was written, in order, each record once.
THEOREM JournalKept == Spec => []Journal
<1>1. WriterInv /\ Journal /\ [Next]_vars => (WriterInv /\ Journal)'
  BY WriterStep, AnyStepMoves, JournalStep DEF Journal
<1>. QED
  BY <1>1, WriterInit, JournalInit, PTL DEF Spec

-----------------------------------------------------------------------------
(* No record is lost. *)

\* The records of an appended or a joined sequence.
LEMMA Ranges ==
    ASSUME NEW f \in Seq(Nat), NEW b \in Seq(Nat), NEW n \in Nat
    PROVE  /\ Range(Append(b, n)) = Range(b) \cup {n}
           /\ Range(f \o b) = Range(f) \cup Range(b)
<1>1. Range(f \o b) = Range(f) \cup Range(b)
  BY RangeConcatenation
<1>2. Append(b, n) = b \o <<n>> /\ <<n>> \in Seq(Nat)
  BY AppendIsConcat
<1>3. Range(b \o <<n>>) = Range(b) \cup Range(<<n>>)
  BY <1>2, RangeConcatenation, ZenonT(30)
<1>4. Range(<<n>>) = {n}
  BY DEF Range
<1>. QED
  BY <1>1, <1>2, <1>3, <1>4

\* No move loses a record, unless it wipes the target.
LEMMA LossStep ==
    ASSUME DataTypes, DataMoves, NothingLost, ~wiped'
    PROVE  1..appended' \subseteq Range(file') \cup Range(buffer')
<1>1. buffer \in Seq(Nat) /\ file \in Seq(Nat) /\ appended \in Nat /\ wiped \in BOOLEAN
  BY DEF DataTypes
<1>2. ASSUME ~wiped PROVE 1..appended \subseteq Range(file) \cup Range(buffer)
  BY <1>2 DEF NothingLost
<1>3. ASSUME Enters, file' = file, ~wiped
      PROVE  1..appended' \subseteq Range(file') \cup Range(buffer')
  <2>1. appended + 1 \in Nat /\ 1..(appended + 1) = 1..appended \cup {appended + 1}
    BY <1>1
  <2>2. Range(Append(buffer, appended + 1)) = Range(buffer) \cup {appended + 1}
    BY <1>1, <2>1, Ranges
  <2>3. 1..(appended + 1) \subseteq Range(file) \cup Range(Append(buffer, appended + 1))
    BY <1>2, <1>3, <2>1, <2>2
  <2>. QED
    BY <1>3, <2>3, Zenon DEF Enters
<1>4. CASE KeepData
  BY <1>2, <1>4 DEF KeepData
<1>5. CASE Enters /\ UNCHANGED <<file, torn, wiped>>
  BY <1>3, <1>5
<1>6. CASE Written /\ UNCHANGED <<appended, torn, wiped>>
  <2>1. Range(file \o buffer) = Range(file) \cup Range(buffer)
    BY <1>1, Ranges
  <2>2. file' = file \o buffer /\ UNCHANGED <<appended, torn, wiped>>
    BY <1>6 DEF Written
  <2>3. 1..appended \subseteq Range(file \o buffer)
    BY <1>2, <2>1, <2>2
  <2>. QED
    BY <2>2, <2>3, Zenon
<1>7. ASSUME NEW n \in 0..Len(buffer), Part(n), UNCHANGED <<buffer, appended, wiped>>
      PROVE  1..appended' \subseteq Range(file') \cup Range(buffer')
  <2> DEFINE part == SubSeq(buffer, 1, n)
  <2>1. part \in Seq(Nat)
    BY <1>1, PartOfBuffer
  <2>2. file' = file \o part
    BY <1>7 DEF Part
  <2>. HIDE DEF part
  <2>3. Range(file \o part) = Range(file) \cup Range(part)
    BY <1>1, <2>1, Ranges
  <2>4. 1..appended \subseteq Range(file \o part) \cup Range(buffer)
    BY <1>2, <1>7, <2>3
  <2>. QED
    BY <1>7, <2>2, <2>4, Zenon
<1>8. CASE OpenFile /\ UNCHANGED torn /\ (Enters \/ UNCHANGED <<buffer, appended>>)
  <2>1. ~wiped /\ file' = file
    BY <1>1, <1>8 DEF OpenFile
  <2>. QED
    BY <1>2, <1>3, <1>8, <2>1
<1>. QED
  BY <1>4, <1>5, <1>6, <1>7, <1>8 DEF DataMoves

\* One step of the writer keeps every record in the target or in the buffer.
LEMMA NoLossStep == WriterInv /\ NothingLost /\ [Next]_vars => NothingLost'
<1>. QED
  BY AnyStepMoves, LossStep DEF NothingLost

\* Even after interrupted flushes every record is in the target or in the buffer.
THEOREM NoRecordIsLost == Spec => []NothingLost
<1>1. WriterInv /\ NothingLost /\ [Next]_vars => (WriterInv /\ NothingLost)'
  BY WriterStep, NoLossStep
<1>. QED
  BY <1>1, WriterInit, JournalInit, PTL DEF Spec

\* A flush or close that ends well leaves the buffer empty.
LEMMA EndsEmpty ==
    ASSUME WriterInv, NEW u \in Users, Progress(u) \/ Cancelled(u),
           upc'[u] = "idle", result'[u] = "ok", op[u] \in {"flush", "close"}
    PROVE  buffer' = <<>>
<1>1. /\ buffer # <<>> => opened
      /\ upc[u] = "closing" => buffer = <<>>
  BY DEF WriterInv, BufferRight
<1>2. result \in [Users -> {"none", "ok", "raised", "cancelled"}]
  BY DEF WriterInv, DataTypes
<1>3. ASSUME NEW how, Leave(u, how) PROVE how = "ok"
  BY <1>2, <1>3 DEF Leave
<1>4. CASE Turn(u)
  <2>1. CASE ~HasToFlush /\ UNCHANGED buffer
    BY <1>1, <2>1 DEF HasToFlush
  <2>2. CASE Goes(u, "flushing")
    BY <2>2 DEF Goes, WriterInv, LineRight
  <2>. QED
    BY <1>4, <2>1, <2>2 DEF Turn
<1>5. CASE Opened(u)
  BY <1>5 DEF Opened
<1>6. CASE FlushDone(u)
  BY <1>6 DEF FlushDone, Written
<1>7. CASE CloseDone(u)
  BY <1>1, <1>7 DEF CloseDone
<1>8. CASE \/ OpenBreaks(u, "raised") \/ FlushFails(u) \/ BeginRefused(u)
           \/ CloseBreaks(u, "raised") \/ Cancelled(u)
  <2>1. Leave(u, "raised") \/ Leave(u, "cancelled")
    BY <1>8 DEF OpenBreaks, FlushFails, BeginRefused, CloseBreaks, Cancelled, CancelQueued,
                FlushCancelled
  <2>. QED
    BY <1>3, <2>1
<1>. QED
  BY <1>4, <1>5, <1>6, <1>7, <1>8 DEF Progress

\* A flush or close that returns has put every record written before its call
\* into the target.
THEOREM ReturnPersists == Spec => ReturnMeansPersisted
<1>1. ASSUME WriterInv, NothingLost, WriterInv', NothingLost', [Next]_vars, NEW u \in Users,
             upc[u] # "idle", upc'[u] = "idle", result'[u] = "ok",
             op[u] \in {"flush", "close"}, ~wiped'
      PROVE  1..goal[u] \subseteq Range(file')
  <2>1. PICK v \in Users : \/ \E m \in Methods : Call(v, m)
                           \/ Progress(v) \/ Cancelled(v)
    BY <1>1 DEF Next, vars
  <2>2. v = u /\ (Progress(u) \/ Cancelled(u))
    <3>1. CASE \E m \in Methods : Call(v, m)
      <4>1. upc' = [upc EXCEPT ![v] = "queued"]
        BY <3>1 DEF Call, Goes
      <4>. QED
        BY <1>1, <4>1 DEF WriterInv, LineRight
    <3>2. CASE Progress(v) \/ Cancelled(v)
      BY <1>1, <3>2, LineStep DEF WriterInv
    <3>. QED
      BY <2>1, <3>1, <3>2
  <2>3. buffer' = <<>>
    BY <1>1, <2>2, EndsEmpty
  <2>4. 1..appended' \subseteq Range(file')
    <3>1. Range(<<>>) = {}
      BY DEF Range
    <3>. QED
      BY <1>1, <2>3, <3>1 DEF NothingLost
  <2>5. goal[u] \in 0..appended /\ appended \in Nat /\ appended' \in Nat
        /\ appended <= appended'
    BY <1>1, AnyStepMoves, MoveTypes DEF WriterInv, DataTypes
  <2>6. 1..goal[u] \subseteq 1..appended'
    BY <2>5
  <2>. QED
    BY <2>4, <2>6
<1>2. WriterInv /\ NothingLost /\ [Next]_vars => (WriterInv /\ NothingLost)'
  BY WriterStep, NoLossStep
<1>3. WriterInv /\ NothingLost /\ WriterInv' /\ NothingLost' /\ [Next]_vars =>
        \A u \in Users :
          /\ upc[u] # "idle" /\ upc'[u] = "idle" /\ result'[u] = "ok"
          /\ op[u] \in {"flush", "close"} /\ ~wiped'
          => 1..goal[u] \subseteq Range(file')
  BY <1>1
<1>. QED
  BY <1>2, <1>3, WriterInit, JournalInit, PTL DEF Spec, ReturnMeansPersisted
=============================================================================
