--------------------------- MODULE BufferedWriter ---------------------------
(***************************************************************************)
(* persistence/_buffered.py with its two adapters, JsonlWriter and         *)
(* SqliteWriter.  Unlike the other locks of the package, this asyncio.Lock *)
(* is held while the target is opened, written and closed, so callers do   *)
(* queue for it; _closed is tested before the lock is taken.               *)
(*                                                                         *)
(* Records are numbered in the order in which they enter the buffer.  Any  *)
(* target operation may fail, and any caller may be cancelled wherever it  *)
(* waits; the worker thread that executes an interrupted target operation  *)
(* still completes that one operation.                                     *)
(***************************************************************************)
EXTENDS Integers, Sequences, FiniteSets

LOCAL INSTANCE Functions
LOCAL INSTANCE SequencesExt

CONSTANTS Users,       \* the tasks that share the writer
          Adapters,    \* the adapters checked: "jsonl", "sqlite"
          BufferSize,  \* buffer_size
          MaxRecords,  \* bound: records written
          MaxOps       \* bound: calls of the writer's methods

ASSUME WriterAssumption ==
    /\ IsFiniteSet(Users) /\ Adapters \subseteq {"jsonl", "sqlite"}
    /\ BufferSize \in Nat \ {0} /\ MaxRecords \in Nat /\ MaxOps \in Nat

VARIABLES
    adapter,   \* the writer's class, fixed when it is made
    buffer,    \* _buffer
    closed,    \* _closed
    opened,    \* _opened
    line,      \* _lock: its owner, then the callers that wait for it
    handle,    \* the target behind _file or _db can still be written
    file,      \* the records in the target, in order
    inTxn,     \* SQLite: a transaction is open on the connection
    upc, op,   \* where each caller is, and in which method
    result,    \* history: how the caller's last method ended
    appended,  \* history: the number of records that entered the buffer
    goal,      \* history: `appended` when the caller's method began
    torn,      \* history: a flush was interrupted after it wrote something
    wiped,     \* history: opening the target threw records away
    ops        \* bound: calls of the writer's methods

vars == <<adapter, buffer, closed, opened, line, handle, file, inTxn, upc, op,
          result, appended, goal, torn, wiped, ops>>

Methods == {"open", "write", "flush", "close"}

Init ==
    /\ adapter \in Adapters
    /\ buffer = <<>> /\ closed = FALSE /\ opened = FALSE /\ line = <<>>
    /\ handle = FALSE /\ file = <<>> /\ inTxn = FALSE
    /\ upc = [u \in Users |-> "idle"] /\ op = [u \in Users |-> "open"]
    /\ result = [u \in Users |-> "none"]
    /\ goal = [u \in Users |-> 0] /\ appended = 0
    /\ torn = FALSE /\ wiped = FALSE /\ ops = 0

Goes(u, place) == upc' = [upc EXCEPT ![u] = place]

\* The caller leaves the line.
OutOfLine(u) == \E i \in DOMAIN line : line[i] = u /\ line' = RemoveAt(line, i)

\* Mutant of Unlock: the lock is only given back by a method that succeeds.
UnlockAfterSuccess(u, how) == IF how = "ok" THEN OutOfLine(u) ELSE UNCHANGED line

Unlock(u, how) == OutOfLine(u)

\* The method ends, and with it the `async with self._lock`.
Leave(u, how) ==
    /\ Unlock(u, how)
    /\ Goes(u, "idle") /\ result' = [result EXCEPT ![u] = how]

Stay == UNCHANGED <<line, result>>

-----------------------------------------------------------------------------
(* Calling a method, and its turn with the lock. *)

\* write() and close() look at _closed, then queue for the lock.
Call(u, m) ==
    /\ upc[u] = "idle" /\ ops < MaxOps /\ ops' = ops + 1
    /\ m \in {"write", "close"} => ~closed
    /\ m = "write" => appended < MaxRecords
    /\ op' = [op EXCEPT ![u] = m]
    /\ Goes(u, "queued") /\ line' = Append(line, u)
    /\ goal' = [goal EXCEPT ![u] = appended]
    /\ result' = [result EXCEPT ![u] = "none"]
    /\ UNCHANGED <<adapter, buffer, closed, opened, handle, file, inTxn, appended,
                   torn, wiped>>

\* The rest of write() once the target is open.
BufferRecord(u) ==
    /\ appended' = appended + 1
    /\ buffer' = Append(buffer, appended')
    /\ \/ Len(buffer') >= BufferSize /\ Goes(u, "flushing") /\ Stay
       \/ Len(buffer') < BufferSize /\ Leave(u, "ok")

\* The rest of a method once _flush_locked() has returned.
AfterFlush(u) ==
    \/ op[u] = "close" /\ closed' = TRUE /\ Goes(u, "closing") /\ Stay
    \/ op[u] # "close" /\ Leave(u, "ok") /\ UNCHANGED closed

\* Mutant of HasToFlush: only a full buffer is flushed.
FlushWhenFull == opened /\ Len(buffer) >= BufferSize

HasToFlush == opened /\ buffer # <<>>

\* The caller has the lock and runs to its first suspension point.
Turn(u) ==
    /\ upc[u] = "queued" /\ Head(line) = u
    /\ \/ /\ op[u] \in {"open", "write"} /\ ~opened
          /\ Goes(u, "opening") /\ Stay
          /\ UNCHANGED <<buffer, appended, closed>>
       \/ /\ op[u] = "write" /\ opened
          /\ BufferRecord(u) /\ UNCHANGED closed
       \/ /\ op[u] = "open" /\ opened
          /\ Leave(u, "ok") /\ UNCHANGED <<buffer, appended, closed>>
       \/ /\ op[u] \in {"flush", "close"} /\ HasToFlush
          /\ Goes(u, "flushing") /\ Stay
          /\ UNCHANGED <<buffer, appended, closed>>
       \/ /\ op[u] \in {"flush", "close"} /\ ~HasToFlush
          /\ AfterFlush(u) /\ UNCHANGED <<buffer, appended>>
    /\ UNCHANGED <<adapter, opened, handle, file, inTxn, op, goal, torn, wiped, ops>>

-----------------------------------------------------------------------------
(* Opening: JSONL opens its file in mode "w", SQLite keeps its table. *)

OpenFile ==
    /\ file' = IF adapter = "jsonl" THEN <<>> ELSE file
    /\ wiped' = (wiped \/ file' # file)

Opened(u) ==
    /\ upc[u] = "opening"
    /\ OpenFile
    /\ opened' = TRUE /\ handle' = TRUE /\ inTxn' = FALSE
    /\ \/ op[u] = "write" /\ BufferRecord(u)
       \/ op[u] = "open" /\ Leave(u, "ok") /\ UNCHANGED <<buffer, appended>>
    /\ UNCHANGED <<adapter, closed, op, goal, torn, ops>>

\* The target cannot be opened, or the caller is cancelled meanwhile: then the
\* worker thread may still open, and truncate, the file.
OpenBreaks(u, how) ==
    /\ upc[u] = "opening"
    /\ \/ UNCHANGED <<file, wiped>>
       \/ how = "cancelled" /\ OpenFile
    /\ Leave(u, how)
    /\ UNCHANGED <<adapter, buffer, closed, opened, handle, inTxn, op, appended,
                   goal, torn, ops>>

-----------------------------------------------------------------------------
(* _flush_locked: the whole buffer goes to the target. *)

\* Mutants of Written: the buffer is not cleared; only its first record goes
\* out before it is.
WrittenKept  == file' = file \o buffer /\ UNCHANGED buffer
WrittenFirst == file' = Append(file, Head(buffer)) /\ buffer' = <<>>

Written == file' = file \o buffer /\ buffer' = <<>>

FlushDone(u) ==
    /\ upc[u] = "flushing" /\ handle /\ ~inTxn
    /\ Written
    /\ AfterFlush(u)
    /\ UNCHANGED <<adapter, opened, handle, inTxn, op, appended, goal, torn, wiped, ops>>

\* The first n records of the buffer reach the target, but stay in the buffer.
WritePart(n) ==
    /\ file' = file \o SubSeq(buffer, 1, n)
    /\ torn' = (torn \/ n > 0)

\* A write fails.  SQLite rolls the transaction back; the file keeps whatever
\* was written.  The handle of a target whose close failed takes nothing.
FlushFails(u) ==
    /\ upc[u] = "flushing" /\ ~inTxn
    /\ \E n \in 0..(IF adapter = "jsonl" /\ handle THEN Len(buffer) ELSE 0) :
          WritePart(n)
    /\ Leave(u, "raised")
    /\ UNCHANGED <<adapter, buffer, closed, opened, handle, inTxn, op, appended,
                   goal, wiped, ops>>

\* SQLite refuses BEGIN on a connection that has a transaction open already.
BeginRefused(u) ==
    /\ upc[u] = "flushing" /\ inTxn
    /\ Leave(u, "raised")
    /\ UNCHANGED <<adapter, buffer, closed, opened, handle, file, inTxn, op, appended,
                   goal, torn, wiped, ops>>

\* The caller is cancelled while it writes.  CancelledError is no Exception,
\* so SQLite does not roll back: the transaction stays open, unless it was
\* just being committed, or rolled back after a failure.
FlushCancelled(u) ==
    /\ upc[u] = "flushing"
    /\ \/ /\ adapter = "jsonl"
          /\ \E n \in 0..(IF handle THEN Len(buffer) ELSE 0) : WritePart(n)
          /\ UNCHANGED inTxn
       \/ /\ adapter = "sqlite" /\ inTxn' \in {inTxn, handle}
          /\ UNCHANGED <<file, torn>>
       \/ /\ adapter = "sqlite" /\ handle /\ ~inTxn
          /\ WritePart(Len(buffer)) /\ UNCHANGED inTxn
    /\ Leave(u, "cancelled")
    /\ UNCHANGED <<adapter, buffer, closed, opened, handle, op, appended, goal,
                   wiped, ops>>

-----------------------------------------------------------------------------
(* Closing, and waiting for the lock in vain. *)

CloseDone(u) ==
    /\ upc[u] = "closing"
    /\ opened' = FALSE /\ handle' = FALSE /\ inTxn' = FALSE
    /\ Leave(u, "ok")
    /\ UNCHANGED <<adapter, buffer, closed, file, op, appended, goal, torn, wiped,
                   ops>>

\* Closing the target fails or is interrupted: the handle is gone, but the
\* writer still believes that its target is open.  SQLite may also have a
\* connection to close that an unfinished open left behind.
CloseBreaks(u, how) ==
    /\ upc[u] = "closing" /\ (opened \/ adapter = "sqlite")
    /\ handle' = FALSE /\ inTxn' = FALSE
    /\ Leave(u, how)
    /\ UNCHANGED <<adapter, buffer, closed, opened, file, op, appended, goal, torn,
                   wiped, ops>>

CancelQueued(u) ==
    /\ upc[u] = "queued"
    /\ Leave(u, "cancelled")
    /\ UNCHANGED <<adapter, buffer, closed, opened, handle, file, inTxn, op, appended,
                   goal, torn, wiped, ops>>

-----------------------------------------------------------------------------
\* The lock is handed on and the target operations end, well or badly.
Progress(u) ==
    \/ Turn(u) \/ Opened(u) \/ OpenBreaks(u, "raised")
    \/ FlushDone(u) \/ FlushFails(u) \/ BeginRefused(u)
    \/ CloseDone(u) \/ CloseBreaks(u, "raised")

Cancelled(u) ==
    \/ CancelQueued(u) \/ OpenBreaks(u, "cancelled") \/ FlushCancelled(u)
    \/ CloseBreaks(u, "cancelled")

Next == \E u \in Users : \/ \E m \in Methods : Call(u, m)
                         \/ Progress(u) \/ Cancelled(u)

Spec == Init /\ [][Next]_vars

\* The lock is FIFO and every target operation ends: nobody has to be cancelled.
FairSpec == Spec /\ \A u \in Users : WF_vars(Progress(u))

-----------------------------------------------------------------------------
(* Properties. *)

\* Every variable of the writer and of its callers stays in its range, and the
\* callers in a method are exactly those in the line for the lock.
TypeOK ==
    /\ adapter \in Adapters
    /\ buffer \in Seq(Nat) /\ Len(buffer) <= appended
    /\ file \in Seq(Nat) /\ line \in Seq(Users)
    /\ closed \in BOOLEAN /\ opened \in BOOLEAN /\ handle \in BOOLEAN
    /\ inTxn \in BOOLEAN /\ torn \in BOOLEAN /\ wiped \in BOOLEAN
    /\ upc \in [Users -> {"idle", "queued", "opening", "flushing", "closing"}]
    /\ op \in [Users -> Methods]
    /\ result \in [Users -> {"none", "ok", "raised", "cancelled"}]
    /\ appended \in Nat /\ ops \in Nat
    /\ goal \in [Users -> 0..appended]
    /\ \A u \in Users : upc[u] # "idle" <=> u \in Range(line)

\* _buffered.py:22-74: unless a flush was interrupted halfway or the target was
\* truncated, the target followed by the buffer is exactly what was written, in
\* order, each record once; failed flushes and failed opens lose nothing.
Journal == ~torn /\ ~wiped => file \o buffer = [i \in 1..appended |-> i]

\* _buffered.py:68-74: even after interrupted flushes no record is lost: it may
\* be in the target twice, but it is there or still waits in the buffer.
NothingLost == ~wiped => 1..appended \subseteq Range(file) \cup Range(buffer)

\* _buffered.py:42-56, base.py:17-23: a flush or close that returns has put
\* every record written before its call into the target.
ReturnMeansPersisted ==
    [][ \A u \in Users :
          /\ upc[u] # "idle" /\ upc'[u] = "idle" /\ result'[u] = "ok"
          /\ op[u] \in {"flush", "close"} /\ ~wiped'
          => 1..goal[u] \subseteq Range(file') ]_vars

\* _buffered.py:22-61: no failure in a method leaves the lock taken; every
\* method ends.
MethodsEnd == \A u \in Users : upc[u] # "idle" ~> upc[u] = "idle"

\* Documented (_buffered.py:48): close makes the writer immutable.
ClosedIsImmutable ==
    [][ closed /\ ~opened => UNCHANGED <<file, buffer, opened>> ]_vars
=============================================================================
