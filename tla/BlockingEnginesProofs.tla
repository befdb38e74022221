------------------------ MODULE BlockingEnginesProofs ------------------------
(***************************************************************************)
(* Theorems about BlockingEngines, for any number of callers, workers,     *)
(* URLs, runs and closes: every interleaving of their threads.             *)
(***************************************************************************)
EXTENDS BlockingEngines, SequenceTheorems, FiniteSetTheorems, TLAPS

\* Where a caller can be.
Places == {"idle", "threaded", "sync", "asking", "async", "clearing", "closing"}

\* What each caller is doing agrees with what it has in hand.
InHand ==
    /\ \A c \in Callers :
         /\ pc[c] # "sync" => own[c] = 0
         /\ pc[c] # "threaded" => \A w \in Slots : wpc[c][w] = "none"
         /\ pc[c] \notin {"clearing", "closing"} => todo[c] = {}
    /\ \A c \in Callers, w \in Slots :
         wpc[c][w] \in {"registering", "sending"} => local[c][w] # 0

\* The lock is held from copying the registry to clearing it, by one caller,
\* whose copy is still complete.
Locked ==
    /\ \A c \in Callers : pc[c] = "clearing" => lock = "taken" /\ registry \subseteq todo[c]
    /\ \A c, d \in Callers : pc[c] = "clearing" /\ pc[d] = "clearing" => c = d

\* Only a run that is under way stops tracing later, the blocking engines' always;
\* one that nobody disturbed is the only one of these.
StartersAreRuns ==
    /\ \A c \in Callers : starter[c] => Active(c)
    /\ \A c \in Callers : pc[c] \in {"threaded", "sync"} => starter[c]
    /\ \A c \in Callers : alone[c] => starter[c]
    /\ \A c, d \in Callers : alone[c] /\ starter[d] => c = d

SessionInv == TypeOK /\ InHand /\ Locked

-----------------------------------------------------------------------------
(* Types. *)

\* A session is made: it is open and gets the next number.
LEMMA SessionMade ==
    ASSUME sessions \in Seq({"open", "closed"}), sessions' = Append(sessions, "open")
    PROVE  /\ sessions' \in Seq({"open", "closed"})
           /\ Len(sessions) \in Nat /\ Len(sessions') = Len(sessions) + 1
           /\ \A s \in Made : sessions'[s] = sessions[s]
           /\ Made' = Made \cup {Len(sessions')}
<1>1. /\ sessions' \in Seq({"open", "closed"})
      /\ Len(sessions') = Len(sessions) + 1
      /\ \A s \in 1..Len(sessions) : sessions'[s] = sessions[s]
  BY AppendProperties
<1>2. Len(sessions) \in Nat
  BY LenProperties
<1>. QED
  BY <1>1, <1>2 DEF Made

\* A session is opened or closed.
LEMMA SessionChanged ==
    ASSUME sessions \in Seq({"open", "closed"}), NEW s, NEW to \in {"open", "closed"},
           sessions' = [sessions EXCEPT ![s] = to]
    PROVE  /\ sessions' \in Seq({"open", "closed"}) /\ Made' = Made
           /\ \A r \in Made : sessions'[r] = IF r = s THEN to ELSE sessions[r]
<1>1. /\ Len(sessions) \in Nat /\ DOMAIN sessions = 1..Len(sessions)
      /\ sessions \in [1..Len(sessions) -> {"open", "closed"}]
  BY LenProperties
<1>2. sessions' \in [1..Len(sessions) -> {"open", "closed"}]
  BY <1>1
<1>3. sessions' \in Seq({"open", "closed"})
  BY <1>1, <1>2, IsASeq
<1>4. Len(sessions') = Len(sessions)
  BY <1>1, <1>2, <1>3, LenProperties
<1>. QED
  BY <1>1, <1>3, <1>4 DEF Made

\* At first nobody runs and no session is made.
LEMMA SessionInit == Init => SessionInv
<1> SUFFICES ASSUME Init PROVE SessionInv
  OBVIOUS
<1>1. sessions \in Seq({"open", "closed"}) /\ Len(sessions) = 0
  BY EmptySeq DEF Init
<1>2. runs \in 0..MaxRuns /\ closes \in 0..MaxCloses
  BY EnginesAssumption DEF Init, EnginesAssumption
<1>3. /\ urls \in [Callers -> 0..UrlCount] /\ taken \in [Callers -> 0..UrlCount]
      /\ wurl \in [Callers -> [Slots -> 0..UrlCount]]
  BY EnginesAssumption DEF Init, EnginesAssumption
<1>4. TypeOK
  BY <1>1, <1>2, <1>3 DEF Init, TypeOK
<1>5. InHand /\ Locked
  BY DEF Init, InHand, Locked
<1>. QED
  BY <1>4, <1>5 DEF SessionInv

\* The types in two halves: the callers and their pools, and the sessions.
PoolTypes ==
    /\ pc \in [Callers -> Places]
    /\ urls \in [Callers -> 0..UrlCount] /\ taken \in [Callers -> 0..UrlCount]
    /\ wpc \in [Callers -> [Slots -> {"none", "idle", "registering", "sending"}]]
    /\ wurl \in [Callers -> [Slots -> 0..UrlCount]]
    /\ tracing \in BOOLEAN
    /\ starter \in [Callers -> BOOLEAN] /\ alone \in [Callers -> BOOLEAN]
    /\ runs \in 0..MaxRuns /\ closes \in 0..MaxCloses

SessionTypes ==
    /\ local \in [Callers -> [Slots -> Made \cup {0}]]
    /\ own \in [Callers -> Made \cup {0}]
    /\ sessions \in Seq({"open", "closed"})
    /\ registry \subseteq Made /\ reused \subseteq Made
    /\ lock \in {"free", "taken"} /\ todo \in [Callers -> SUBSET Made]

\* The two halves make up the type invariant.
LEMMA TypesSplit ==
    /\ TypeOK <=> PoolTypes /\ SessionTypes
    /\ TypeOK' <=> PoolTypes' /\ SessionTypes'
<1>. QED
  BY DEF TypeOK, PoolTypes, SessionTypes, Places

\* No step of a thread leaves the types of the pools.
LEMMA PoolTypesStep == PoolTypes /\ [Next]_vars => PoolTypes'
<1> SUFFICES ASSUME PoolTypes, [Next]_vars PROVE PoolTypes'
  OBVIOUS
<1> DEFINE Counts == 0..UrlCount
<1>0. /\ 0 \in Counts /\ UrlCount \in Counts
      /\ \A n, m \in Counts : n < m => n + 1 \in Counts
  BY EnginesAssumption DEF EnginesAssumption
<1>a. /\ runs < MaxRuns => runs + 1 \in 0..MaxRuns
      /\ closes < MaxCloses => closes + 1 \in 0..MaxCloses
  BY EnginesAssumption DEF EnginesAssumption, PoolTypes
<1>. HIDE DEF Counts
<1>b. /\ urls \in [Callers -> Counts] /\ taken \in [Callers -> Counts]
      /\ wurl \in [Callers -> [Slots -> Counts]]
  BY DEF PoolTypes, Counts
<1> DEFINE Goal ==
      /\ pc' \in [Callers -> Places]
      /\ urls' \in [Callers -> Counts] /\ taken' \in [Callers -> Counts]
      /\ wpc' \in [Callers -> [Slots -> {"none", "idle", "registering", "sending"}]]
      /\ wurl' \in [Callers -> [Slots -> Counts]]
      /\ tracing' \in BOOLEAN
      /\ starter' \in [Callers -> BOOLEAN] /\ alone' \in [Callers -> BOOLEAN]
      /\ runs' \in 0..MaxRuns /\ closes' \in 0..MaxCloses
<1> SUFFICES Goal
  BY DEF PoolTypes, Counts
<1>. USE <1>0, <1>a, <1>b DEF PoolTypes, Places, callVars, poolVars, sessionVars, traceVars
<1>1. ASSUME NEW c \in Callers, RunThreaded(c) PROVE Goal
  <2>1. PICK n \in {0, UrlCount} :
          /\ BeginRun(c, "threaded", n)
          /\ wpc' = [wpc EXCEPT ![c] = [w \in Slots |-> IF w <= n THEN "idle" ELSE "none"]]
          /\ UNCHANGED <<taken, wurl, closes>>
    BY <1>1 DEF RunThreaded
  <2>. QED
    BY <2>1 DEF BeginRun, Enters
<1>2. ASSUME NEW c \in Callers, RunSync(c) PROVE Goal
  <2>1. PICK n \in {0, UrlCount} :
          /\ BeginRun(c, "sync", n) /\ UNCHANGED <<taken, wpc, wurl, closes>>
    BY <1>2 DEF RunSync
  <2>. QED
    BY <2>1 DEF BeginRun, Enters
<1>3. ASSUME NEW c \in Callers, CloseCopies(c) PROVE Goal
  BY <1>3 DEF CloseCopies
<1>4. ASSUME NEW c \in Callers, ThreadedReturns(c) PROVE Goal
  BY <1>4 DEF ThreadedReturns, EndRun, Leaves, StopsTracing
<1>5. ASSUME NEW c \in Callers, SyncFetch(c) PROVE Goal
  BY <1>5 DEF SyncFetch, Pending
<1>6. ASSUME NEW c \in Callers, LeaveSync(c) PROVE Goal
  BY <1>6 DEF LeaveSync, EndRun, Leaves, StopsTracing
<1>7. ASSUME NEW c \in Callers, CloseClears(c) PROVE Goal
  BY <1>7 DEF CloseClears
<1>8. ASSUME NEW c \in Callers, CloseNext(c) PROVE Goal
  BY <1>8 DEF CloseNext
<1>9. ASSUME NEW c \in Callers, CloseReturns(c) PROVE Goal
  BY <1>9 DEF CloseReturns
<1>10. ASSUME NEW c \in Callers, NEW w \in Slots, TakeUrl(c, w) PROVE Goal
  <2>1. taken[c] + 1 \in Counts
    BY <1>10 DEF TakeUrl, Pending
  <2>2. taken' = [taken EXCEPT ![c] = taken[c] + 1]
    BY <1>10 DEF TakeUrl
  <2>3. wurl' = [wurl EXCEPT ![c][w] = taken[c] + 1]
    BY <1>10 DEF TakeUrl
  <2>4. taken' \in [Callers -> Counts] /\ wurl' \in [Callers -> [Slots -> Counts]]
    BY <2>1, <2>2, <2>3, Zenon
  <2>5. wpc' \in [Callers -> [Slots -> {"none", "idle", "registering", "sending"}]]
    <3>1. PICK to \in {"registering", "sending"} : wpc' = [wpc EXCEPT ![c][w] = to]
      BY <1>10 DEF TakeUrl
    <3>. QED
      BY <3>1
  <2>. QED
    BY <1>10, <2>4, <2>5 DEF TakeUrl
<1>11. ASSUME NEW c \in Callers, NEW w \in Slots, Register(c, w) PROVE Goal
  BY <1>11 DEF Register
<1>12. ASSUME NEW c \in Callers, NEW w \in Slots, Fetch(c, w) PROVE Goal
  BY <1>12 DEF Fetch
<1>13. CASE UNCHANGED vars
  BY <1>13 DEF vars
<1>14. ASSUME NEW c \in Callers, RunAsync(c) PROVE Goal
  BY <1>14 DEF RunAsync, Enters
<1>15. ASSUME NEW c \in Callers, AsyncStarts(c) PROVE Goal
  BY <1>15 DEF AsyncStarts
<1>16. ASSUME NEW c \in Callers, AsyncFetch(c) PROVE Goal
  BY <1>16 DEF AsyncFetch, Pending
<1>17. ASSUME NEW c \in Callers, AsyncEnds(c) PROVE Goal
  BY <1>17 DEF AsyncEnds, Leaves, StopsOwn, StopsTracing
<1>. QED
  BY <1>1, <1>2, <1>3, <1>4, <1>5, <1>6, <1>7, <1>8, <1>9, <1>10, <1>11, <1>12, <1>13,
     <1>14, <1>15, <1>16, <1>17
  DEF Next, CallerStep, WorkerStep, SyncReturns, SyncRaises

\* No step of a thread leaves the types of the sessions.
LEMMA SessionTypesStep ==
    SessionTypes /\ InHand /\ [Next]_vars => SessionTypes'
<1> SUFFICES ASSUME SessionTypes, InHand, [Next]_vars PROVE SessionTypes'
  OBVIOUS
<1>. USE DEF SessionTypes, callVars, poolVars, sessionVars, traceVars
<1>1. ASSUME NEW c \in Callers, RunThreaded(c) \/ SyncFetch(c)
      PROVE  SessionTypes'
  BY <1>1 DEF RunThreaded, SyncFetch, Made
<1>2. ASSUME NEW c \in Callers, RunSync(c) PROVE SessionTypes'
  BY <1>2, SessionMade DEF RunSync
<1>3. ASSUME NEW c \in Callers, CloseCopies(c) \/ CloseClears(c) \/ CloseReturns(c)
      PROVE  SessionTypes'
  BY <1>3 DEF CloseCopies, CloseClears, CloseReturns, Made
<1>4. ASSUME NEW c \in Callers, ThreadedReturns(c) PROVE SessionTypes'
  BY <1>4 DEF ThreadedReturns, Made
<1>6. ASSUME NEW c \in Callers, LeaveSync(c) PROVE SessionTypes'
  BY <1>6, SessionChanged DEF LeaveSync
<1>7. ASSUME NEW c \in Callers, CloseNext(c) PROVE SessionTypes'
  <2>1. PICK s \in todo[c] : /\ sessions' = [sessions EXCEPT ![s] = "closed"]
                             /\ todo' = [todo EXCEPT ![c] = @ \ {s}]
    BY <1>7 DEF CloseNext
  <2>2. sessions' \in Seq({"open", "closed"}) /\ Made' = Made
    BY <2>1, SessionChanged
  <2>. QED
    BY <1>7, <2>1, <2>2 DEF CloseNext
<1>8. ASSUME NEW c \in Callers, NEW w \in Slots, TakeUrl(c, w) PROVE SessionTypes'
  <2>1. CASE NeedsSession(c, w)
    <3>1. sessions' = Append(sessions, "open")
      BY <1>8, <2>1 DEF TakeUrl
    <3>2. /\ sessions' \in Seq({"open", "closed"})
          /\ Made' = Made \cup {Len(sessions')}
      BY <3>1, SessionMade
    <3>3. local' = [local EXCEPT ![c][w] = Len(sessions')]
      BY <1>8, <2>1 DEF TakeUrl
    <3>. QED
      BY <1>8, <3>2, <3>3 DEF TakeUrl
  <2>2. CASE ~NeedsSession(c, w)
    BY <1>8, <2>2 DEF TakeUrl, Made
  <2>. QED
    BY <2>1, <2>2
<1>9. ASSUME NEW c \in Callers, NEW w \in Slots, Register(c, w) PROVE SessionTypes'
  BY <1>9 DEF Register, InHand, Made
<1>10. ASSUME NEW c \in Callers, NEW w \in Slots, Fetch(c, w) PROVE SessionTypes'
  <2> DEFINE s == local[c][w]
  <2>1. /\ sessions' = [sessions EXCEPT ![s] = "open"]
        /\ reused' = IF sessions[s] = "closed" THEN reused \cup {s} ELSE reused
    BY <1>10 DEF Fetch
  <2>2. sessions' \in Seq({"open", "closed"}) /\ Made' = Made
    BY <2>1, SessionChanged
  <2>3. s \in Made
    BY <1>10 DEF Fetch, InHand
  <2>. QED
    BY <1>10, <2>1, <2>2, <2>3 DEF Fetch
<1>11. CASE UNCHANGED vars
  BY <1>11 DEF vars, Made
<1>12. ASSUME NEW c \in Callers, \/ RunAsync(c) \/ AsyncStarts(c)
                                 \/ AsyncFetch(c) \/ AsyncEnds(c)
       PROVE  SessionTypes'
  BY <1>12 DEF RunAsync, AsyncStarts, AsyncFetch, AsyncEnds, Made
<1>. QED
  BY <1>1, <1>2, <1>3, <1>4, <1>6, <1>7, <1>8, <1>9, <1>10, <1>11, <1>12
  DEF Next, CallerStep, WorkerStep, SyncReturns, SyncRaises

\* No step of a thread takes from another what it has in hand.
LEMMA InHandStep == TypeOK /\ InHand /\ [Next]_vars => InHand'
<1> SUFFICES ASSUME TypeOK, InHand, [Next]_vars PROVE InHand'
  OBVIOUS
<1>0. /\ pc \in [Callers -> Places]
      /\ DOMAIN wpc = Callers /\ \A c \in Callers : DOMAIN wpc[c] = Slots
      /\ DOMAIN local = Callers /\ \A c \in Callers : DOMAIN local[c] = Slots
      /\ DOMAIN own = Callers /\ DOMAIN todo = Callers
  BY DEF TypeOK, Places
<1>. USE <1>0 DEF InHand, callVars, poolVars, sessionVars, traceVars
<1>1. ASSUME NEW c \in Callers, RunThreaded(c) PROVE InHand'
  BY <1>1 DEF RunThreaded, BeginRun, Enters
<1>2. ASSUME NEW c \in Callers, RunSync(c) PROVE InHand'
  BY <1>2 DEF RunSync, BeginRun, Enters
<1>3. ASSUME NEW c \in Callers, CloseCopies(c) PROVE InHand'
  BY <1>3 DEF CloseCopies
<1>4. ASSUME NEW c \in Callers, CloseClears(c) PROVE InHand'
  BY <1>4 DEF CloseClears
<1>5. ASSUME NEW c \in Callers, CloseNext(c) PROVE InHand'
  BY <1>5 DEF CloseNext
<1>6. ASSUME NEW c \in Callers, CloseReturns(c) PROVE InHand'
  BY <1>6 DEF CloseReturns
<1>7. ASSUME NEW c \in Callers, ThreadedReturns(c) PROVE InHand'
  BY <1>7 DEF ThreadedReturns, EndRun, Leaves
<1>8. ASSUME NEW c \in Callers, SyncFetch(c) PROVE InHand'
  BY <1>8 DEF SyncFetch
<1>9. ASSUME NEW c \in Callers, pc[c] = "sync", LeaveSync(c) PROVE InHand'
  BY <1>9 DEF LeaveSync, EndRun, Leaves
<1>10. ASSUME NEW c \in Callers, NEW w \in Slots, TakeUrl(c, w) PROVE InHand'
  <2>1. CASE NeedsSession(c, w)
    <3>1. Len(sessions') # 0 /\ local' = [local EXCEPT ![c][w] = Len(sessions')]
      BY <1>10, <2>1, SessionMade DEF TakeUrl, TypeOK
    <3>2. /\ wpc' = [wpc EXCEPT ![c][w] = "registering"] /\ pc[c] = "threaded"
          /\ UNCHANGED <<pc, own, todo>>
      BY <1>10, <2>1 DEF TakeUrl
    <3>. QED
      BY <3>1, <3>2
  <2>2. CASE ~NeedsSession(c, w)
    BY <1>10, <2>2 DEF TakeUrl, NeedsSession
  <2>. QED
    BY <2>1, <2>2
<1>11. ASSUME NEW c \in Callers, NEW w \in Slots, Register(c, w) PROVE InHand'
  BY <1>11 DEF Register
<1>12. ASSUME NEW c \in Callers, NEW w \in Slots, Fetch(c, w) PROVE InHand'
  BY <1>12 DEF Fetch
<1>13. CASE UNCHANGED vars
  BY <1>13 DEF vars
<1>14. ASSUME NEW c \in Callers, RunAsync(c) PROVE InHand'
  BY <1>14 DEF RunAsync, Enters
<1>15. ASSUME NEW c \in Callers, AsyncStarts(c) \/ AsyncFetch(c) \/ AsyncEnds(c)
       PROVE  InHand'
  BY <1>15 DEF AsyncStarts, AsyncFetch, AsyncEnds, Leaves
<1>. QED
  BY <1>1, <1>2, <1>3, <1>4, <1>5, <1>6, <1>7, <1>8, <1>9, <1>10, <1>11, <1>12, <1>13,
     <1>14, <1>15
  DEF Next, CallerStep, WorkerStep, SyncReturns, SyncRaises

\* The lock keeps a second closer, and every worker that registers a session,
\* out until the copied registry is cleared.
LEMMA LockedStep == TypeOK /\ Locked /\ [Next]_vars => Locked'
<1> SUFFICES ASSUME PoolTypes, SessionTypes, Locked, [Next]_vars PROVE Locked'
  BY TypesSplit
<1>. USE DEF Locked, PoolTypes, SessionTypes, callVars, poolVars, sessionVars, traceVars
<1>1. ASSUME NEW c \in Callers, CloseCopies(c) PROVE Locked'
  BY <1>1 DEF CloseCopies
<1>2. ASSUME NEW c \in Callers, CloseClears(c) PROVE Locked'
  BY <1>2 DEF CloseClears
<1>3. ASSUME NEW c \in Callers, CloseNext(c) PROVE Locked'
  BY <1>3 DEF CloseNext
<1>4. ASSUME NEW c \in Callers, NEW w \in Slots, Register(c, w) PROVE Locked'
  BY <1>4 DEF Register
<1>5. ASSUME NEW c \in Callers, RunThreaded(c) \/ RunSync(c) \/ ThreadedReturns(c)
                                \/ LeaveSync(c) \/ SyncFetch(c) \/ CloseReturns(c)
      PROVE  Locked'
  BY <1>5, SMTT(20) DEF RunThreaded, RunSync, ThreadedReturns, LeaveSync, SyncFetch,
              CloseReturns, BeginRun, Enters, EndRun, Leaves
<1>6. ASSUME NEW c \in Callers, NEW w \in Slots, TakeUrl(c, w) \/ Fetch(c, w)
      PROVE  Locked'
  BY <1>6 DEF TakeUrl, Fetch
<1>7. CASE UNCHANGED vars
  BY <1>7 DEF vars
<1>8. ASSUME NEW c \in Callers, \/ RunAsync(c) \/ AsyncStarts(c)
                                 \/ AsyncFetch(c) \/ AsyncEnds(c)
      PROVE  Locked'
  BY <1>8 DEF RunAsync, AsyncStarts, AsyncFetch, AsyncEnds, Enters, Leaves
<1>. QED
  BY <1>1, <1>2, <1>3, <1>4, <1>5, <1>6, <1>7, <1>8
  DEF Next, CallerStep, WorkerStep, SyncReturns, SyncRaises

\* Callers, pools and sessions stay within their types.
THEOREM EnginesTypeCorrect == Spec => []TypeOK
<1>1. TypeOK /\ InHand /\ [Next]_vars => (TypeOK /\ InHand)'
  BY TypesSplit, PoolTypesStep, SessionTypesStep, InHandStep
<1>2. Init => TypeOK /\ InHand
  BY SessionInit DEF SessionInv
<1>. QED
  BY <1>1, <1>2, PTL DEF Spec

-----------------------------------------------------------------------------
(* Sessions. *)

\* The three invariants together are inductive.
LEMMA SessionStep == SessionInv /\ [Next]_vars => SessionInv'
<1>. QED
  BY TypesSplit, PoolTypesStep, SessionTypesStep, InHandStep, LockedStep DEF SessionInv

\* A session passes from its worker to the registry, from there to a closer, and
\* is never dropped on the way.
LEMMA ForgottenStep ==
    SessionInv /\ NoSessionForgotten /\ [Next]_vars => NoSessionForgotten'
<1> SUFFICES ASSUME SessionInv, NoSessionForgotten, [Next]_vars,
                    NEW s \in Made', sessions'[s] = "open"
             PROVE  WillBeClosed(s)' \/ s \in reused'
  BY DEF NoSessionForgotten
<1>0. /\ pc \in [Callers -> Places]
      /\ DOMAIN wpc = Callers /\ \A c \in Callers : DOMAIN wpc[c] = Slots
      /\ DOMAIN local = Callers /\ \A c \in Callers : DOMAIN local[c] = Slots
      /\ DOMAIN own = Callers /\ DOMAIN todo = Callers
      /\ sessions \in Seq({"open", "closed"})
  BY DEF SessionInv, TypeOK, Places
<1>a. InHand /\ Locked
  BY DEF SessionInv
<1>b. s \in Made /\ sessions[s] = "open" => WillBeClosed(s) \/ s \in reused
  BY DEF NoSessionForgotten
<1>. USE <1>0, <1>b DEF WillBeClosed, callVars, poolVars, sessionVars, traceVars
<1>1. ASSUME NEW c \in Callers, RunThreaded(c) PROVE WillBeClosed(s)' \/ s \in reused'
  BY <1>1, <1>a DEF RunThreaded, BeginRun, Enters, InHand, Made
<1>2. ASSUME NEW c \in Callers, RunSync(c) PROVE WillBeClosed(s)' \/ s \in reused'
  <2>1. /\ Made' = Made \cup {Len(sessions')}
        /\ \A r \in Made : sessions'[r] = sessions[r]
    BY <1>2, SessionMade DEF RunSync
  <2>2. own[c] \notin Made
    <3>1. own[c] = 0
      BY <1>2, <1>a DEF RunSync, BeginRun, Enters, InHand
    <3>. QED
      BY <3>1 DEF Made
  <2>3. /\ own' = [own EXCEPT ![c] = Len(sessions')]
        /\ UNCHANGED <<registry, todo, wpc, local, reused>>
    BY <1>2 DEF RunSync
  <2>. QED
    BY <2>1, <2>2, <2>3
<1>3. ASSUME NEW c \in Callers, CloseCopies(c) PROVE WillBeClosed(s)' \/ s \in reused'
  BY <1>3, <1>a DEF CloseCopies, InHand, Made
\* The registry is cleared after its copy is complete.
<1>4. ASSUME NEW c \in Callers, CloseClears(c) PROVE WillBeClosed(s)' \/ s \in reused'
  BY <1>4, <1>a DEF CloseClears, Locked, Made
<1>5. ASSUME NEW c \in Callers, CloseNext(c) PROVE WillBeClosed(s)' \/ s \in reused'
  <2>1. PICK r \in todo[c] : /\ sessions' = [sessions EXCEPT ![r] = "closed"]
                             /\ todo' = [todo EXCEPT ![c] = @ \ {r}]
    BY <1>5 DEF CloseNext
  <2>2. /\ Made' = Made
        /\ \A q \in Made : sessions'[q] = IF q = r THEN "closed" ELSE sessions[q]
    BY <2>1, SessionChanged
  <2>. QED
    BY <1>5, <2>1, <2>2 DEF CloseNext
<1>6. ASSUME NEW c \in Callers, CloseReturns(c) PROVE WillBeClosed(s)' \/ s \in reused'
  BY <1>6 DEF CloseReturns, Made
<1>7. ASSUME NEW c \in Callers, ThreadedReturns(c) PROVE WillBeClosed(s)' \/ s \in reused'
  BY <1>7 DEF ThreadedReturns, Made
<1>8. ASSUME NEW c \in Callers, SyncFetch(c) PROVE WillBeClosed(s)' \/ s \in reused'
  BY <1>8 DEF SyncFetch, Made
<1>9. ASSUME NEW c \in Callers, LeaveSync(c) PROVE WillBeClosed(s)' \/ s \in reused'
  <2>1. /\ Made' = Made
        /\ \A q \in Made : sessions'[q] = IF q = own[c] THEN "closed" ELSE sessions[q]
    BY <1>9, SessionChanged DEF LeaveSync
  <2>. QED
    BY <1>9, <2>1 DEF LeaveSync
<1>10. ASSUME NEW c \in Callers, NEW w \in Slots, TakeUrl(c, w)
       PROVE  WillBeClosed(s)' \/ s \in reused'
  <2>1. CASE NeedsSession(c, w)
    <3>1. /\ Made' = Made \cup {Len(sessions')}
          /\ \A r \in Made : sessions'[r] = sessions[r]
      BY <1>10, <2>1, SessionMade DEF TakeUrl
    <3>2. /\ local' = [local EXCEPT ![c][w] = Len(sessions')]
          /\ wpc[c][w] = "idle" /\ wpc' = [wpc EXCEPT ![c][w] = "registering"]
          /\ UNCHANGED <<registry, todo, own, reused>>
      BY <1>10, <2>1 DEF TakeUrl
    <3>. QED
      BY <3>1, <3>2
  <2>2. CASE ~NeedsSession(c, w)
    BY <1>10, <2>2 DEF TakeUrl, Made
  <2>. QED
    BY <2>1, <2>2
<1>11. ASSUME NEW c \in Callers, NEW w \in Slots, Register(c, w)
       PROVE  WillBeClosed(s)' \/ s \in reused'
  BY <1>11 DEF Register, Made
\* A closed session that is used is open again, and remembered as such.
<1>12. ASSUME NEW c \in Callers, NEW w \in Slots, Fetch(c, w)
       PROVE  WillBeClosed(s)' \/ s \in reused'
  <2> DEFINE r == local[c][w]
  <2>1. /\ sessions' = [sessions EXCEPT ![r] = "open"]
        /\ reused' = IF sessions[r] = "closed" THEN reused \cup {r} ELSE reused
    BY <1>12 DEF Fetch
  <2>2. /\ Made' = Made
        /\ \A q \in Made : sessions'[q] = IF q = r THEN "open" ELSE sessions[q]
    BY <2>1, SessionChanged
  <2>3. \A q \in Made : sessions[q] \in {"open", "closed"}
    BY ElementOfSeq DEF Made
  <2>4. /\ wpc[c][w] = "sending" /\ wpc' = [wpc EXCEPT ![c][w] = "idle"]
        /\ UNCHANGED <<registry, todo, own, local>>
    BY <1>12 DEF Fetch
  <2>. QED
    BY <2>1, <2>2, <2>3, <2>4
<1>13. CASE UNCHANGED vars
  BY <1>13 DEF vars, Made
<1>14. ASSUME NEW c \in Callers, \/ RunAsync(c) \/ AsyncStarts(c)
                                 \/ AsyncFetch(c) \/ AsyncEnds(c)
       PROVE  WillBeClosed(s)' \/ s \in reused'
  BY <1>14 DEF RunAsync, AsyncStarts, AsyncFetch, AsyncEnds, Made
<1>. QED
  BY <1>1, <1>2, <1>3, <1>4, <1>5, <1>6, <1>7, <1>8, <1>9, <1>10, <1>11, <1>12, <1>13,
     <1>14
  DEF Next, CallerStep, WorkerStep, SyncReturns, SyncRaises

\* Whatever closes, runs and registrations overlap, no open session gets out of
\* reach of close(), except one that a worker used again after it was closed.
THEOREM SessionsNeverForgotten == Spec => []NoSessionForgotten
<1>1. Init => NoSessionForgotten
  <2> SUFFICES ASSUME Init PROVE Made = {}
    BY DEF NoSessionForgotten
  <2>1. Len(sessions) = 0
    BY EmptySeq DEF Init
  <2>. QED
    BY <2>1 DEF Made
<1>. QED
  BY <1>1, SessionInit, SessionStep, ForgottenStep, PTL DEF Spec

-----------------------------------------------------------------------------
(* Tracing. *)

\* A run that starts tracing takes the claim from those it overlaps, one that finds
\* it on leaves it to them; whoever ends switches off what no claim rests on.
LEMMA TracingStep ==
    TypeOK /\ StartersAreRuns /\ TracingFollowsRuns /\ [Next]_vars
      => StartersAreRuns' /\ TracingFollowsRuns'
<1> SUFFICES ASSUME TypeOK, StartersAreRuns, TracingFollowsRuns, [Next]_vars
             PROVE  StartersAreRuns' /\ TracingFollowsRuns'
  OBVIOUS
<1>0. /\ pc \in [Callers -> Places] /\ tracing \in BOOLEAN
      /\ starter \in [Callers -> BOOLEAN] /\ alone \in [Callers -> BOOLEAN]
  BY DEF TypeOK, Places
<1>. USE <1>0 DEF StartersAreRuns, TracingFollowsRuns, Active
<1>1. ASSUME NEW c \in Callers, NEW n, BeginRun(c, "threaded", n) \/ BeginRun(c, "sync", n)
      PROVE  StartersAreRuns' /\ TracingFollowsRuns'
  BY <1>1 DEF BeginRun, Enters
\* An async run enters: it will start tracing only if nobody does.
<1>2. ASSUME NEW c \in Callers, RunAsync(c)
      PROVE  StartersAreRuns' /\ TracingFollowsRuns'
  BY <1>2 DEF RunAsync, Enters
<1>3. ASSUME NEW c \in Callers, AsyncStarts(c)
      PROVE  StartersAreRuns' /\ TracingFollowsRuns'
  BY <1>3 DEF AsyncStarts
\* A blocking run ends: if another goes on, that one is not alone.
<1>4. ASSUME NEW c \in Callers, pc[c] \in {"threaded", "sync"}, EndRun(c)
      PROVE  StartersAreRuns' /\ TracingFollowsRuns'
  BY <1>4 DEF EndRun, Leaves, StopsTracing
\* An async run ends, and stops tracing only if it started it.
<1>5. ASSUME NEW c \in Callers, AsyncEnds(c)
      PROVE  StartersAreRuns' /\ TracingFollowsRuns'
  <2>1. CASE starter[c]
    BY <1>5, <2>1 DEF AsyncEnds, Leaves, StopsOwn, StopsTracing
  <2>2. CASE ~starter[c]
    BY <1>5, <2>2 DEF AsyncEnds, Leaves, StopsOwn
  <2>. QED
    BY <2>1, <2>2
<1>6. ASSUME NEW c \in Callers, CloseCopies(c) \/ CloseClears(c) \/ CloseReturns(c)
      PROVE  StartersAreRuns' /\ TracingFollowsRuns'
  BY <1>6 DEF CloseCopies, CloseClears, CloseReturns, traceVars
<1>7. ASSUME NEW c \in Callers, CloseNext(c) \/ SyncFetch(c) \/ AsyncFetch(c)
      PROVE  UNCHANGED <<pc, traceVars>>
  BY <1>7 DEF CloseNext, SyncFetch, AsyncFetch, callVars
<1>8. ASSUME NEW c \in Callers, NEW w \in Slots, WorkerStep(c, w)
      PROVE  UNCHANGED <<pc, traceVars>>
  BY <1>8 DEF WorkerStep, TakeUrl, Register, Fetch, callVars
<1>9. CASE UNCHANGED <<pc, traceVars>>
  BY <1>9 DEF traceVars
<1>10. UNCHANGED vars => UNCHANGED <<pc, traceVars>>
  BY DEF vars, callVars
<1>. QED
  BY <1>1, <1>2, <1>3, <1>4, <1>5, <1>6, <1>7, <1>8, <1>9, <1>10
  DEF Next, CallerStep, RunThreaded, RunSync, ThreadedReturns, SyncReturns, SyncRaises,
      LeaveSync

\* Tracing is never on without a run that will stop it, and on throughout a run
\* that starts it while no other such run overlaps, whatever overlapped before.
THEOREM TracingIsRunning == Spec => []TracingFollowsRuns
<1>1. Init => StartersAreRuns /\ TracingFollowsRuns
  BY DEF Init, StartersAreRuns, TracingFollowsRuns, Active
<1>2. Init => TypeOK /\ InHand
  BY SessionInit DEF SessionInv
<1>3. TypeOK /\ InHand /\ [Next]_vars => (TypeOK /\ InHand)'
  BY TypesSplit, PoolTypesStep, SessionTypesStep, InHandStep
<1>. QED
  BY <1>1, <1>2, <1>3, TracingStep, PTL DEF Spec

-----------------------------------------------------------------------------
(* Sums and counts. *)

\* A set of naturals that is not empty has a least one.
LEMMA LeastNatural ==
    ASSUME NEW S, S \subseteq Nat, S # {}
    PROVE  \E n \in S : \A m \in S : n <= m
<1> DEFINE below == OpToRel(<, Nat)
<1>1. IsWellFoundedOn(below, Nat)
  BY NatLessThanWellFounded
<1>2. \A m, n \in Nat : m < n => <<m, n>> \in below
  BY DEF OpToRel
<1>. HIDE DEF below
<1>3. PICK n \in S : \A m \in S : ~(<<m, n>> \in below)
  BY <1>1, WFMin
<1>4. \A m \in S : n \in Nat /\ m \in Nat /\ ~(m < n)
  BY <1>2, <1>3
<1>. QED
  BY <1>4

\* What adds up over the subsets of a set, element by element, is the total.
LEMMA TotalIs ==
    ASSUME NEW S, IsFiniteSet(S), NEW f \in [S -> Nat],
           NEW g \in [SUBSET S -> Nat], g[{}] = 0,
           \A s \in SUBSET S : \A x \in s : g[s] = f[x] + g[s \ {x}]
    PROVE  Total(f) = g[S]
<1> DEFINE Sums(h) == h = [s \in SUBSET S |->
                             IF s = {} THEN 0
                             ELSE f[CHOOSE x \in s : TRUE] + h[s \ {CHOOSE x \in s : TRUE}]]
           chosen  == CHOOSE h : Sums(h)
           wrong   == {s \in SUBSET S : chosen[s] # g[s]}
<1>1. Total(f) = chosen[S]
  BY DEF Total, MapThenSumSet, MapThenFoldSet
<1>2. ASSUME NEW s \in SUBSET S, s # {}
      PROVE  (CHOOSE x \in s : TRUE) \in s
  BY <1>2
<1>3. Sums(g)
  <2> DEFINE h == [s \in SUBSET S |->
                     IF s = {} THEN 0
                     ELSE f[CHOOSE x \in s : TRUE] + g[s \ {CHOOSE x \in s : TRUE}]]
  <2>1. \A s \in SUBSET S : h[s] = g[s]
    BY <1>2
  <2>2. DOMAIN h = SUBSET S
    OBVIOUS
  <2>3. g = [s \in SUBSET S |-> g[s]] /\ h = [s \in SUBSET S |-> h[s]]
    OBVIOUS
  <2>. HIDE DEF h
  <2>4. g = h
    BY <2>1, <2>3
  <2>. QED
    BY <2>4 DEF h
<1>4. Sums(chosen)
  <2>. HIDE DEF Sums
  <2>. QED
    BY <1>3, Zenon
<1>. HIDE DEF chosen
<1>5. ASSUME NEW s \in SUBSET S
      PROVE  chosen[s] = IF s = {} THEN 0
                         ELSE f[CHOOSE x \in s : TRUE] + chosen[s \ {CHOOSE x \in s : TRUE}]
  BY <1>4
<1>6. wrong = {}
  <2> SUFFICES ASSUME wrong # {} PROVE FALSE
    OBVIOUS
  <2>1. IsWellFoundedOn(StrictSubsetOrdering(S), SUBSET S)
    <3>1. IsWellFoundedOn(StrictSubsetOrdering(S), FiniteSubsetsOf(S))
      BY FS_StrictSubsetOrderingWellFounded
    <3>2. FiniteSubsetsOf(S) = SUBSET S
      BY FS_FiniteSubsetsOfFinite
    <3>. QED
      BY <3>1, <3>2
  <2>2. wrong \subseteq SUBSET S
    OBVIOUS
  <2>. HIDE DEF wrong
  <2>3. PICK s \in wrong : \A t \in wrong : <<t, s>> \notin StrictSubsetOrdering(S)
    BY <2>1, <2>2, WFMin
  <2>. USE DEF wrong
  <2>4. s # {}
    BY <1>5
  <2> DEFINE x == CHOOSE x \in s : TRUE
  <2>5. x \in s /\ s \ {x} \in SUBSET S
    BY <1>2, <2>4
  <2>. HIDE DEF x
  <2>6. <<s \ {x}, s>> \in StrictSubsetOrdering(S)
    BY <2>5 DEF StrictSubsetOrdering
  <2>7. s \ {x} \notin wrong
    BY <2>3, <2>6
  <2>8. chosen[s \ {x}] = g[s \ {x}]
    BY <2>5, <2>7
  <2>9. chosen[s] = f[x] + chosen[s \ {x}]
    BY <1>5, <2>4 DEF x
  <2>. QED
    BY <2>5, <2>8, <2>9
<1>. QED
  BY <1>1, <1>6

\* The places of a sequence whose entry is in P.
PlacesIn(s, P) == {n \in DOMAIN s : s[n] \in P}

\* A sequence has finitely many places.
LEMMA PlacesFinite ==
    ASSUME NEW T, NEW s \in Seq(T), NEW some \in SUBSET DOMAIN s
    PROVE  /\ IsFiniteSet(some) /\ Cardinality(some) \in 0..Len(s)
<1>1. DOMAIN s = 1..Len(s) /\ Len(s) \in Nat
  BY LenProperties
<1>2. IsFiniteSet(DOMAIN s) /\ Cardinality(DOMAIN s) = Len(s)
  <2>1. /\ IsFiniteSet(1..Len(s))
        /\ Cardinality(1..Len(s)) = IF 1 > Len(s) THEN 0 ELSE Len(s) - 1 + 1
    BY <1>1, FS_Interval
  <2>. QED
    BY <1>1, <2>1
<1>3. IsFiniteSet(some) /\ Cardinality(some) <= Len(s)
  BY <1>2, FS_Subset
<1>. QED
  BY <1>1, <1>3, FS_CardinalityType

\* The places of two parts of a set of entries are counted apart.
LEMMA PlacesApart ==
    ASSUME NEW T, NEW s \in Seq(T), NEW one \in SUBSET DOMAIN s,
           NEW two \in SUBSET DOMAIN s, one \cap two = {}
    PROVE  Cardinality(one \cup two) = Cardinality(one) + Cardinality(two)
<1>1. /\ IsFiniteSet(one) /\ Cardinality(one) \in Nat
      /\ IsFiniteSet(two) /\ Cardinality(two) \in Nat
  BY PlacesFinite
<1>2. Cardinality(one \cap two) = 0
  BY FS_EmptySet
<1>3. Cardinality(one \cup two)
        = Cardinality(one) + Cardinality(two) - Cardinality(one \cap two)
  BY <1>1, FS_Union
<1>. QED
  BY <1>1, <1>2, <1>3

\* The parts of a sequence hold as many entries of P as the whole.
LEMMA PlacesInConcat ==
    ASSUME NEW T, NEW s \in Seq(T), NEW t \in Seq(T), NEW P
    PROVE  Cardinality(PlacesIn(s \o t, P))
             = Cardinality(PlacesIn(s, P)) + Cardinality(PlacesIn(t, P))
<1> DEFINE st    == s \o t
           moved == {n \in DOMAIN st : n > Len(s) /\ st[n] \in P}
           f     == [n \in PlacesIn(t, P) |-> Len(s) + n]
<1>1. /\ DOMAIN s = 1..Len(s) /\ Len(s) \in Nat
      /\ DOMAIN t = 1..Len(t) /\ Len(t) \in Nat
  BY LenProperties
<1>2. /\ st \in Seq(T) /\ Len(st) = Len(s) + Len(t)
      /\ \A n \in 1..Len(s) + Len(t) :
           st[n] = IF n <= Len(s) THEN s[n] ELSE t[n - Len(s)]
  BY ConcatProperties
<1>. HIDE DEF st
<1>3. DOMAIN st = 1..Len(s) + Len(t)
  BY <1>2, LenProperties
<1>4. PlacesIn(st, P) = PlacesIn(s, P) \cup moved
  <2>1. ASSUME NEW n \in PlacesIn(st, P) PROVE n \in PlacesIn(s, P) \cup moved
    BY <1>1, <1>2, <1>3, <2>1 DEF PlacesIn
  <2>2. ASSUME NEW n \in PlacesIn(s, P) PROVE n \in PlacesIn(st, P)
    BY <1>1, <1>2, <1>3, <2>2 DEF PlacesIn
  <2>. QED
    BY <2>1, <2>2 DEF PlacesIn
<1>5. /\ PlacesIn(s, P) \in SUBSET DOMAIN st /\ moved \in SUBSET DOMAIN st
      /\ PlacesIn(s, P) \cap moved = {}
  BY <1>1, <1>3 DEF PlacesIn
<1>6. f \in Bijection(PlacesIn(t, P), moved)
  <2>1. ASSUME NEW n \in PlacesIn(t, P) PROVE f[n] = Len(s) + n /\ f[n] \in moved
    <3>1. n \in 1..Len(t) /\ t[n] \in P
      BY <1>1 DEF PlacesIn
    <3>2. /\ Len(s) + n \in 1..Len(s) + Len(t) /\ Len(s) + n > Len(s)
          /\ (Len(s) + n) - Len(s) = n /\ ~(Len(s) + n <= Len(s))
      BY <1>1, <3>1
    <3>3. st[Len(s) + n] = t[n]
      BY <1>2, <3>2
    <3>. QED
      BY <1>3, <3>1, <3>2, <3>3
  <2>2. ASSUME NEW n \in moved PROVE n - Len(s) \in PlacesIn(t, P) /\ f[n - Len(s)] = n
    <3>1. n \in 1..Len(s) + Len(t) /\ n > Len(s) /\ st[n] \in P
      BY <1>3, <2>2
    <3>2. n - Len(s) \in 1..Len(t) /\ Len(s) + (n - Len(s)) = n /\ ~(n <= Len(s))
      BY <1>1, <3>1
    <3>3. t[n - Len(s)] = st[n]
      BY <1>2, <3>1, <3>2
    <3>4. n - Len(s) \in PlacesIn(t, P)
      BY <1>1, <3>1, <3>2, <3>3 DEF PlacesIn
    <3>. QED
      BY <3>2, <3>4
  <2>3. \A m, n \in PlacesIn(t, P) : f[m] = f[n] => m = n
    BY <1>1, <2>1 DEF PlacesIn
  <2>4. f \in [PlacesIn(t, P) -> moved]
    BY <2>1
  <2>. HIDE DEF f, moved
  <2>. QED
    BY <2>2, <2>3, <2>4 DEF Bijection, Injection, IsInjective, Surjection
<1>7. Cardinality(moved) = Cardinality(PlacesIn(t, P))
  <2>1. ExistsBijection(PlacesIn(t, P), moved)
    BY <1>6 DEF ExistsBijection
  <2>2. IsFiniteSet(PlacesIn(t, P))
    BY PlacesFinite DEF PlacesIn
  <2>. HIDE DEF moved
  <2>. QED
    BY <2>1, <2>2, FS_Bijection
<1>. HIDE DEF moved
<1>8. Cardinality(PlacesIn(s, P) \cup moved) = Cardinality(PlacesIn(s, P)) + Cardinality(moved)
  BY <1>2, <1>5, PlacesApart
<1>. QED
  BY <1>4, <1>7, <1>8 DEF st

-----------------------------------------------------------------------------
(* Percentiles. *)

\* A larger share of a difference is more of it, at most all of it.
LEMMA Shares ==
    ASSUME NEW r \in 0..100, NEW q \in 0..100, r <= q, NEW d \in Nat
    PROVE  0 <= r * d /\ r * d <= q * d /\ q * d <= 100 * d
<1>1. PICK e \in Nat : q = r + e
  <2>1. q - r \in Nat /\ q = r + (q - r)
    OBVIOUS
  <2>. QED
    BY <2>1
<1>2. PICK g \in Nat : 100 = q + g
  <2>1. 100 - q \in Nat /\ 100 = q + (100 - q)
    OBVIOUS
  <2>. QED
    BY <2>1
<1>3. r \in Nat /\ q \in Nat
  OBVIOUS
<1>4. /\ r * d \in Nat /\ e * d \in Nat /\ g * d \in Nat /\ q * d \in Nat
  BY <1>3
<1>5. q * d = r * d + e * d /\ 100 * d = q * d + g * d
  <2>1. \A x, y, z \in Nat : (x + y) * z = x * z + y * z
    OBVIOUS
  <2>. QED
    BY <1>1, <1>2, <1>3, <2>1
<1>. QED
  BY <1>4, <1>5

\* Where place k hundredths is, between two samples.
Between(sorted, k) ==
    LET f == k \div 100
        upper == sorted[IF f + 1 < Len(sorted) THEN f + 2 ELSE f + 1]
    IN  100 * sorted[f + 1] + (k % 100) * (upper - sorted[f + 1])

Ascending(s) == \A m, n \in DOMAIN s : m <= n => s[m] <= s[n]

LEMMA BetweenSteps ==
    ASSUME NEW s \in Seq(Nat), Ascending(s), NEW k \in Nat, k <= 100 * (Len(s) - 1)
    PROVE  LET f == k \div 100
               u == s[IF f + 1 < Len(s) THEN f + 2 ELSE f + 1]
           IN  /\ f \in Nat /\ k % 100 \in 0..99 /\ k = 100 * f + (k % 100)
               /\ f + 1 \in DOMAIN s /\ f + 1 <= Len(s)
               /\ s[f + 1] \in Nat /\ u \in Nat /\ s[f + 1] <= u
               /\ 100 * s[f + 1] <= Between(s, k) /\ Between(s, k) <= 100 * u
               /\ Between(s, k) \in Nat
<1> DEFINE f == k \div 100
           r == k % 100
           u == s[IF f + 1 < Len(s) THEN f + 2 ELSE f + 1]
           v == s[f + 1]
<1>1. DOMAIN s = 1..Len(s) /\ Len(s) \in Nat /\ \A n \in DOMAIN s : s[n] \in Nat
  BY LenProperties, ElementOfSeq
<1>2. f \in Nat /\ r \in 0..99 /\ k = 100 * f + r
  OBVIOUS
<1>3. Between(s, k) = 100 * v + r * (u - v)
  BY DEF Between
<1>. HIDE DEF f, r
<1>4. f + 1 \in 1..Len(s) /\ (f + 1 < Len(s) => f + 2 \in 1..Len(s))
  <2>1. 100 * f <= 100 * (Len(s) - 1)
    BY <1>1, <1>2
  <2>2. f <= Len(s) - 1
    BY <1>1, <1>2, <2>1
  <2>. QED
    BY <1>1, <1>2, <2>2
<1>5. v \in Nat /\ u \in Nat /\ v <= u
  BY <1>1, <1>2, <1>4 DEF Ascending
<1>. HIDE DEF u, v
<1>6. u - v \in Nat /\ 100 * (u - v) = 100 * u - 100 * v
  BY <1>5
<1>7. 0 <= r * (u - v) /\ r * (u - v) <= 100 * (u - v)
  BY <1>2, <1>6, Shares
<1>8. r * (u - v) \in Nat
  BY <1>2, <1>6
<1>9. 100 * v <= Between(s, k) /\ Between(s, k) <= 100 * u /\ Between(s, k) \in Nat
  BY <1>3, <1>5, <1>6, <1>7, <1>8
<1>10. /\ f \in Nat /\ r \in 0..99 /\ k = 100 * f + r
       /\ f + 1 \in DOMAIN s /\ f + 1 <= Len(s)
       /\ v \in Nat /\ u \in Nat /\ v <= u
       /\ 100 * v <= Between(s, k) /\ Between(s, k) <= 100 * u
       /\ Between(s, k) \in Nat
  BY <1>1, <1>2, <1>4, <1>5, <1>9
<1>. QED
  BY <1>10, Zenon DEF f, r, u, v

\* A later place is not below an earlier one.
LEMMA BetweenAscends ==
    ASSUME NEW s \in Seq(Nat), Ascending(s), NEW k \in Nat, NEW l \in Nat,
           k <= l, l <= 100 * (Len(s) - 1)
    PROVE  Between(s, k) <= Between(s, l)
<1> DEFINE f == k \div 100
           g == l \div 100
           q == k % 100
           r == l % 100
           u == s[IF f + 1 < Len(s) THEN f + 2 ELSE f + 1]
           v == s[g + 1]
<1>1. Len(s) \in Nat /\ DOMAIN s = 1..Len(s)
  BY LenProperties
<1>2. k <= 100 * (Len(s) - 1)
  BY <1>1
<1>3. /\ f \in Nat /\ q \in 0..99 /\ k = 100 * f + q
      /\ f + 1 \in DOMAIN s /\ f + 1 <= Len(s)
      /\ s[f + 1] \in Nat /\ u \in Nat /\ s[f + 1] <= u
      /\ Between(s, k) <= 100 * u /\ Between(s, k) \in Nat
  BY <1>2, BetweenSteps
<1>4. /\ g \in Nat /\ r \in 0..99 /\ l = 100 * g + r
      /\ g + 1 \in DOMAIN s /\ g + 1 <= Len(s)
      /\ v \in Nat
      /\ 100 * v <= Between(s, l) /\ Between(s, l) \in Nat
  BY BetweenSteps
<1>5. CASE f = g
  <2>1. /\ Between(s, k) = 100 * s[f + 1] + q * (u - s[f + 1])
        /\ Between(s, l) = 100 * s[f + 1] + r * (u - s[f + 1])
    BY <1>5 DEF Between
  <2>. HIDE DEF f, g, q, r, u, v
  <2>2. q <= r
    BY <1>3, <1>4, <1>5
  <2>3. PICK d \in Nat : d = u - s[f + 1]
    <3>1. u - s[f + 1] \in Nat
      BY <1>3
    <3>. QED
      BY <3>1
  <2>4. q \in 0..100 /\ r \in 0..100
    BY <1>3, <1>4
  <2>5. q * d <= r * d
    BY <2>2, <2>4, Shares
  <2>6. q * d \in Nat /\ r * d \in Nat
    BY <2>4
  <2>7. /\ Between(s, k) = 100 * s[f + 1] + q * d
        /\ Between(s, l) = 100 * s[f + 1] + r * d
    BY <2>1, <2>3
  <2>8. \A v0, x, y \in Nat : x <= y => 100 * v0 + x <= 100 * v0 + y
    OBVIOUS
  <2>9. s[f + 1] \in Nat
    BY <1>3
  <2>10. 100 * s[f + 1] + q * d <= 100 * s[f + 1] + r * d
    BY <2>5, <2>6, <2>8, <2>9
  <2>. QED
    BY <2>7, <2>10
<1>6. CASE f # g
  <2>. HIDE DEF f, g, q, r, u, v
  <2>1. f < g
    <3>1. f \in Nat /\ q \in 0..99 /\ k = 100 * f + q
      BY <1>3
    <3>2. g \in Nat /\ r \in 0..99 /\ l = 100 * g + r
      BY <1>4
    <3>3. \A a, b, x, y \in Nat : x <= 99 /\ y <= 99 /\ 100 * a + x <= 100 * b + y => a <= b
      OBVIOUS
    <3>4. q \in Nat /\ q <= 99 /\ r \in Nat /\ r <= 99 /\ 100 * f + q <= 100 * g + r
      BY <3>1, <3>2
    <3>5. f <= g
      BY <3>1, <3>2, <3>3, <3>4
    <3>. QED
      BY <1>6, <3>1, <3>2, <3>5
  <2>a. f \in Nat /\ g \in Nat /\ g + 1 <= Len(s)
    BY <1>3, <1>4
  <2>b. f + 1 < Len(s) /\ f + 2 \in 1..Len(s) /\ f + 2 <= g + 1
    BY <1>1, <2>1, <2>a
  <2>2. f + 1 < Len(s) /\ f + 2 \in DOMAIN s /\ f + 2 <= g + 1
    BY <1>1, <2>b
  <2>3. u = s[f + 2]
    BY <2>2 DEF u
  <2>4. s[f + 2] <= s[g + 1]
    BY <1>4, <2>2 DEF Ascending
  <2>5. u <= v
    BY <2>3, <2>4 DEF v
  <2>. QED
    BY <1>3, <1>4, <2>5
<1>. QED
  BY <1>5, <1>6

\* Of latencies in ascending order, the percentiles lie in ascending order, and
\* between the least and the greatest.
LEMMA PercentilesAscend ==
    ASSUME NEW s \in Seq(Nat), Ascending(s), s # <<>>
    PROVE  /\ 100 * s[1] <= Percentile(s, 50)
           /\ Percentile(s, 50) <= Percentile(s, 95)
           /\ Percentile(s, 95) <= Percentile(s, 99)
           /\ Percentile(s, 99) <= 100 * s[Len(s)]
<1>1. /\ Len(s) \in Nat \ {0} /\ DOMAIN s = 1..Len(s)
      /\ s[1] \in Nat /\ s[Len(s)] \in Nat
  <2>1. Len(s) \in Nat \ {0} /\ DOMAIN s = 1..Len(s)
    BY LenProperties, EmptySeq, SeqEqual
  <2>. QED
    BY <2>1, ElementOfSeq
<1>2. \A p \in Nat : Percentile(s, p) = Between(s, (Len(s) - 1) * p)
  BY DEF Percentile, Between
<1> DEFINE at(p) == (Len(s) - 1) * p
<1>3. /\ 0 <= at(50) /\ at(50) <= at(95) /\ at(95) <= at(99) /\ at(99) <= 100 * (Len(s) - 1)
      /\ at(50) \in Nat /\ at(95) \in Nat /\ at(99) \in Nat
      /\ 100 * (Len(s) - 1) \in Nat
  BY <1>1
<1>4. Between(s, 0) = 100 * s[1]
  <2>1. 0 \div 100 = 0 /\ 0 % 100 = 0
    OBVIOUS
  <2> DEFINE u == s[IF 1 < Len(s) THEN 2 ELSE 1]
  <2>2. u \in Nat
    BY <1>1, ElementOfSeq
  <2>3. Between(s, 0) = 100 * s[1] + 0 * (u - s[1])
    BY <2>1 DEF Between
  <2>. HIDE DEF u
  <2>. QED
    BY <1>1, <2>2, <2>3
<1>5. Between(s, 100 * (Len(s) - 1)) = 100 * s[Len(s)]
  <2> DEFINE k == 100 * (Len(s) - 1)
  <2>1. k \div 100 = Len(s) - 1 /\ k % 100 = 0
    <3>1. \A n \in Nat : (100 * n) \div 100 = n /\ (100 * n) % 100 = 0
      OBVIOUS
    <3>2. Len(s) - 1 \in Nat
      BY <1>1
    <3>. QED
      BY <3>1, <3>2
  <2>2. (Len(s) - 1) + 1 = Len(s) /\ ~(Len(s) < Len(s))
    BY <1>1
  <2>3. Between(s, k) = 100 * s[Len(s)] + 0 * (s[Len(s)] - s[Len(s)])
    BY <2>1, <2>2 DEF Between
  <2>. QED
    BY <1>1, <2>3
<1>. HIDE DEF at
<1>6. Between(s, 0) <= Between(s, at(50))
  <2>1. at(50) <= 100 * (Len(s) - 1)
    BY <1>1, <1>3
  <2>. QED
    BY <1>3, <2>1, BetweenAscends
<1>7. Between(s, at(50)) <= Between(s, at(95))
  <2>1. at(95) <= 100 * (Len(s) - 1)
    BY <1>1, <1>3
  <2>. QED
    BY <1>3, <2>1, BetweenAscends
<1>8. Between(s, at(95)) <= Between(s, at(99))
  BY <1>3, BetweenAscends
<1>9. Between(s, at(99)) <= Between(s, 100 * (Len(s) - 1))
  <2>1. 100 * (Len(s) - 1) <= 100 * (Len(s) - 1)
    BY <1>3
  <2>. QED
    BY <1>3, <2>1, BetweenAscends
<1>10. /\ Percentile(s, 50) = Between(s, at(50)) /\ Percentile(s, 95) = Between(s, at(95))
       /\ Percentile(s, 99) = Between(s, at(99))
  BY <1>2, Zenon DEF at
<1>11. 100 * s[1] <= Percentile(s, 50)
  BY <1>4, <1>6, <1>10, Zenon
<1>12. Percentile(s, 50) <= Percentile(s, 95)
  BY <1>7, <1>10, Zenon
<1>13. Percentile(s, 95) <= Percentile(s, 99)
  BY <1>8, <1>10, Zenon
<1>14. Percentile(s, 99) <= 100 * s[Len(s)]
  BY <1>5, <1>9, <1>10, Zenon
<1>. QED
  BY <1>11, <1>12, <1>13, <1>14, Zenon

-----------------------------------------------------------------------------
(* Latencies in order. *)

\* How many results took less than t, and at most t.
Below(s, t) == Cardinality({i \in DOMAIN s : s[i].latency < t})
UpTo(s, t) == Cardinality({i \in DOMAIN s : s[i].latency <= t})

\* These are numbers of results.
LEMMA CountsOfTimes ==
    ASSUME NEW T, NEW s \in Seq(T), NEW t
    PROVE  Below(s, t) \in 0..Len(s) /\ UpTo(s, t) \in 0..Len(s)
  BY PlacesFinite DEF Below, UpTo

\* Some result took the longest.
LEMMA SomeLongest ==
    ASSUME NEW T, \A r \in T : r.latency \in Nat, NEW s \in Seq(T), s # <<>>
    PROVE  \E i \in DOMAIN s : \A j \in DOMAIN s : s[j].latency <= s[i].latency
<1> DEFINE Longer(i) == {j \in DOMAIN s : s[j].latency > s[i].latency}
           all       == {Longer(i) : i \in DOMAIN s}
<1>1. /\ DOMAIN s = 1..Len(s) /\ Len(s) \in Nat \ {0}
      /\ \A i \in DOMAIN s : s[i].latency \in Nat
  <2>1. DOMAIN s = 1..Len(s) /\ Len(s) \in Nat \ {0}
    BY LenProperties, EmptySeq, SeqEqual
  <2>. QED
    BY <2>1, ElementOfSeq
<1>2. IsWellFoundedOn(StrictSubsetOrdering(DOMAIN s), SUBSET DOMAIN s)
  <2>1. IsFiniteSet(DOMAIN s)
    BY <1>1, FS_Interval
  <2>2. FiniteSubsetsOf(DOMAIN s) = SUBSET DOMAIN s
    BY <2>1, FS_FiniteSubsetsOfFinite
  <2>3. IsWellFoundedOn(StrictSubsetOrdering(DOMAIN s), FiniteSubsetsOf(DOMAIN s))
    BY FS_StrictSubsetOrderingWellFounded
  <2>. QED
    BY <2>2, <2>3
<1>3. all \subseteq SUBSET DOMAIN s /\ Longer(1) \in all
  BY <1>1
<1>4. PICK least \in all : \A other \in all : <<other, least>> \notin StrictSubsetOrdering(DOMAIN s)
  <2>. HIDE DEF all
  <2>. QED
    BY <1>2, <1>3, WFMin
<1>5. PICK i \in DOMAIN s : least = Longer(i)
  OBVIOUS
<1>6. ASSUME NEW j \in DOMAIN s, s[j].latency > s[i].latency PROVE FALSE
  <2>1. Longer(j) \subseteq Longer(i) /\ j \in Longer(i) /\ j \notin Longer(j)
    BY <1>1, <1>6
  <2>2. <<Longer(j), Longer(i)>> \in StrictSubsetOrdering(DOMAIN s)
    BY <2>1 DEF StrictSubsetOrdering
  <2>. QED
    BY <1>4, <1>5, <2>2
<1>7. \A j \in DOMAIN s : s[j].latency <= s[i].latency
  BY <1>1, <1>6
<1>. QED
  BY <1>7

\* There is an n-th latency: the least number that n results do not exceed.
LEMMA NthLatency ==
    ASSUME NEW T, \A r \in T : r.latency \in Nat, NEW s \in Seq(T), NEW n \in 1..Len(s)
    PROVE  /\ Latencies(s)[n] \in {s[i].latency : i \in DOMAIN s}
           /\ Latencies(s)[n] \in Nat
           /\ Below(s, Latencies(s)[n]) < n /\ n <= UpTo(s, Latencies(s)[n])
<1> DEFINE times == {s[i].latency : i \in DOMAIN s}
           Fits(t) == Below(s, t) < n /\ n <= UpTo(s, t)
           enough  == {t \in Nat : n <= UpTo(s, t)}
<1>1. /\ DOMAIN s = 1..Len(s) /\ Len(s) \in Nat
      /\ \A i \in DOMAIN s : s[i].latency \in Nat
  BY LenProperties, ElementOfSeq
<1>2. enough # {}
  <2>1. s # <<>>
    BY <1>1
  <2>2. PICK i \in DOMAIN s : \A j \in DOMAIN s : s[j].latency <= s[i].latency
    BY <2>1, SomeLongest
  <2>3. {j \in DOMAIN s : s[j].latency <= s[i].latency} = DOMAIN s
    BY <2>2
  <2>4. Cardinality(DOMAIN s) = Len(s)
    <3>1. Cardinality(1..Len(s)) = IF 1 > Len(s) THEN 0 ELSE Len(s) - 1 + 1
      BY <1>1, FS_Interval
    <3>. QED
      BY <1>1, <3>1
  <2>5. UpTo(s, s[i].latency) = Len(s)
    BY <2>3, <2>4 DEF UpTo
  <2>. QED
    BY <1>1, <2>5
<1>3. PICK t \in enough : \A m \in enough : t <= m
  <2>1. enough \subseteq Nat
    OBVIOUS
  <2>. HIDE DEF enough
  <2>. QED
    BY <1>2, <2>1, LeastNatural
<1>4. /\ Below(s, t) \in Nat /\ UpTo(s, t) \in Nat /\ n \in Nat /\ n >= 1
      /\ t \in Nat /\ n <= UpTo(s, t)
  BY <1>1, <1>3, CountsOfTimes
<1>5. Below(s, t) < n
  <2>1. CASE t = 0
    <3>1. {i \in DOMAIN s : s[i].latency < 0} = {}
      BY <1>1
    <3>2. Below(s, t) = 0
      BY <2>1, <3>1, FS_EmptySet DEF Below
    <3>. QED
      BY <1>4, <3>2
  <2>2. CASE t # 0
    <3>1. t - 1 \in Nat /\ ~(t <= t - 1)
      BY <1>4, <2>2
    <3>2. ~(n <= UpTo(s, t - 1)) /\ UpTo(s, t - 1) \in Nat
      BY <1>3, <3>1, CountsOfTimes
    <3>3. {i \in DOMAIN s : s[i].latency < t} = {i \in DOMAIN s : s[i].latency <= t - 1}
      BY <1>1, <1>4
    <3>4. Below(s, t) = UpTo(s, t - 1)
      BY <3>3 DEF Below, UpTo
    <3>. QED
      BY <1>4, <3>2, <3>4
  <2>. QED
    BY <2>1, <2>2
<1>6. t \in times
  <2> SUFFICES ASSUME t \notin times PROVE FALSE
    OBVIOUS
  <2>1. {i \in DOMAIN s : s[i].latency < t} = {i \in DOMAIN s : s[i].latency <= t}
    BY <1>1, <1>4
  <2>2. Below(s, t) = UpTo(s, t)
    BY <2>1 DEF Below, UpTo
  <2>. QED
    BY <1>4, <1>5, <2>2
<1>7. Fits(t)
  BY <1>4, <1>5
<1>8. Latencies(s)[n] = CHOOSE u \in times : Fits(u)
  BY DEF Latencies, Below, UpTo
<1>9. times \subseteq Nat
  BY <1>1
<1>. HIDE DEF times, Fits
<1>10. Latencies(s)[n] \in times /\ Fits(Latencies(s)[n])
  BY <1>6, <1>7, <1>8, Zenon
<1>11. Latencies(s)[n] \in Nat
  BY <1>9, <1>10
<1>. QED
  BY <1>10, <1>11 DEF times, Fits

\* Who took less than a longer time than t took at most t, and the other way round.
LEMMA LaterTimes ==
    ASSUME NEW T, \A r \in T : r.latency \in Nat, NEW s \in Seq(T),
           NEW t \in Nat, NEW u \in Nat, t < u
    PROVE  UpTo(s, t) <= Below(s, u)
<1> DEFINE early == {i \in DOMAIN s : s[i].latency <= t}
           late  == {i \in DOMAIN s : s[i].latency < u}
<1>1. \A i \in DOMAIN s : s[i].latency \in Nat
  BY ElementOfSeq
<1>2. early \subseteq late /\ late \subseteq DOMAIN s
  BY <1>1
<1>. HIDE DEF early, late
<1>3. IsFiniteSet(late)
  BY <1>2, PlacesFinite
<1>4. Cardinality(early) <= Cardinality(late)
  BY <1>2, <1>3, FS_Subset
<1>. QED
  BY <1>4 DEF early, late, Below, UpTo

\* sorted() gives as many latencies as there are results, in ascending order.
LEMMA LatenciesAscend ==
    ASSUME NEW T, \A r \in T : r.latency \in Nat, NEW s \in Seq(T)
    PROVE  /\ Latencies(s) \in Seq(Nat) /\ Len(Latencies(s)) = Len(s)
           /\ Ascending(Latencies(s))
<1> DEFINE lat == Latencies(s)
<1>1. Len(s) \in Nat
  BY LenProperties
<1>2. DOMAIN lat = 1..Len(s)
  BY DEF Latencies
<1>3. /\ \A n \in 1..Len(s) : lat[n] \in Nat
      /\ \A n \in 1..Len(s) : Below(s, lat[n]) < n /\ n <= UpTo(s, lat[n])
  BY NthLatency
<1>4. lat \in [1..Len(s) -> Nat]
  <2> DEFINE nth(n) == CHOOSE t \in {s[i].latency : i \in DOMAIN s} :
                         /\ Cardinality({i \in DOMAIN s : s[i].latency < t}) < n
                         /\ n <= Cardinality({i \in DOMAIN s : s[i].latency <= t})
  <2>1. lat = [n \in 1..Len(s) |-> nth(n)]
    BY Zenon DEF Latencies
  <2>. HIDE DEF lat, nth
  <2>2. \A n \in 1..Len(s) : lat[n] = nth(n)
    BY <2>1
  <2>3. \A n \in 1..Len(s) : nth(n) \in Nat
    BY <1>3, <2>2
  <2>. QED
    BY <2>1, <2>3
<1>. HIDE DEF lat
<1>5. lat \in Seq(Nat)
  BY <1>1, <1>4, IsASeq
<1>6. Len(lat) = Len(s)
  BY <1>1, <1>2, <1>5, LenProperties
<1>7. ASSUME NEW m \in 1..Len(s), NEW n \in 1..Len(s), m <= n, lat[n] < lat[m]
      PROVE  FALSE
  <2>1. UpTo(s, lat[n]) <= Below(s, lat[m])
    BY <1>3, <1>7, LaterTimes
  <2>2. Below(s, lat[m]) < m /\ n <= UpTo(s, lat[n])
    BY <1>3
  <2>3. /\ Below(s, lat[m]) \in Nat /\ UpTo(s, lat[n]) \in Nat
    BY <1>1, CountsOfTimes
  <2>. QED
    BY <1>1, <1>7, <2>1, <2>2, <2>3
<1>8. Ascending(lat)
  BY <1>2, <1>3, <1>7 DEF Ascending
<1>. QED
  BY <1>5, <1>6, <1>8 DEF lat

\* They are the results' latencies: each as often as results took it.
THEOREM LatenciesAreSorted ==
    ASSUME NEW T, \A r \in T : r.latency \in Nat, NEW s \in Seq(T)
    PROVE  /\ Ascending(Latencies(s))
           /\ \A t \in Nat : Cardinality({n \in DOMAIN Latencies(s) : Latencies(s)[n] = t})
                               = Cardinality({i \in DOMAIN s : s[i].latency = t})
<1>1. Ascending(Latencies(s))
  BY LatenciesAscend
<1>2. DOMAIN Latencies(s) = 1..Len(s) /\ Len(s) \in Nat
  BY LenProperties DEF Latencies
<1>3. ASSUME NEW t \in Nat
      PROVE  Cardinality({n \in DOMAIN Latencies(s) : Latencies(s)[n] = t})
               = Cardinality({i \in DOMAIN s : s[i].latency = t})
  <2> DEFINE lat   == Latencies(s)
             at    == {n \in DOMAIN lat : lat[n] = t}
             equal == {i \in DOMAIN s : s[i].latency = t}
             less  == {i \in DOMAIN s : s[i].latency < t}
  <2>1. Below(s, t) \in 0..Len(s) /\ UpTo(s, t) \in 0..Len(s)
    BY CountsOfTimes
  <2>2. /\ {i \in DOMAIN s : s[i].latency <= t} = less \cup equal /\ less \cap equal = {}
    <3>1. \A i \in DOMAIN s : s[i].latency \in Nat
      BY ElementOfSeq
    <3>. QED
      BY <3>1
  <2>3. UpTo(s, t) = Below(s, t) + Cardinality(equal)
    <3>1. less \in SUBSET DOMAIN s /\ equal \in SUBSET DOMAIN s
      OBVIOUS
    <3>2. Cardinality(less \cup equal) = Cardinality(less) + Cardinality(equal)
      <4>1. less \cap equal = {}
        BY <2>2
      <4>. HIDE DEF less, equal
      <4>. QED
        BY <3>1, <4>1, PlacesApart
    <3>3. UpTo(s, t) = Cardinality(less \cup equal) /\ Below(s, t) = Cardinality(less)
      BY <2>2 DEF UpTo, Below
    <3>. HIDE DEF less, equal
    <3>. QED
      BY <3>2, <3>3
  <2>4. Cardinality(equal) \in 0..Len(s)
    BY PlacesFinite
  <2>. HIDE DEF equal, less, lat
  <2>5. \A n \in 1..Len(s) : lat[n] \in Nat /\ Below(s, lat[n]) < n /\ n <= UpTo(s, lat[n])
    BY NthLatency DEF lat
  <2>6. at = (Below(s, t) + 1)..UpTo(s, t)
    <3>1. ASSUME NEW n \in at PROVE n \in (Below(s, t) + 1)..UpTo(s, t)
      <4>1. n \in 1..Len(s) /\ lat[n] = t
        BY <1>2 DEF lat
      <4>2. Below(s, t) < n /\ n <= UpTo(s, t)
        BY <2>5, <4>1
      <4>. QED
        BY <2>1, <1>2, <4>1, <4>2
    <3>2. ASSUME NEW n \in (Below(s, t) + 1)..UpTo(s, t) PROVE n \in at
      <4>1. n \in 1..Len(s) /\ Below(s, t) < n /\ n <= UpTo(s, t)
        BY <1>2, <2>1
      <4>2. /\ lat[n] \in Nat /\ Below(s, lat[n]) < n /\ n <= UpTo(s, lat[n])
            /\ Below(s, lat[n]) \in Nat /\ UpTo(s, lat[n]) \in Nat
        BY <2>5, <4>1, CountsOfTimes
      <4>3. ~(t < lat[n])
        <5> SUFFICES ASSUME t < lat[n] PROVE FALSE
          OBVIOUS
        <5>1. UpTo(s, t) <= Below(s, lat[n])
          BY <4>2, LaterTimes
        <5>. QED
          BY <2>1, <4>1, <4>2, <5>1
      <4>4. ~(lat[n] < t)
        <5> SUFFICES ASSUME lat[n] < t PROVE FALSE
          OBVIOUS
        <5>1. UpTo(s, lat[n]) <= Below(s, t)
          BY <4>2, LaterTimes
        <5>. QED
          BY <2>1, <4>1, <4>2, <5>1
      <4>5. lat[n] = t
        BY <4>2, <4>3, <4>4
      <4>. QED
        BY <1>2, <4>1, <4>5 DEF lat
    <3>. QED
      BY <3>1, <3>2
  <2>7. Cardinality((Below(s, t) + 1)..UpTo(s, t)) = UpTo(s, t) - Below(s, t)
    <3>1. Cardinality((Below(s, t) + 1)..UpTo(s, t))
            = IF Below(s, t) + 1 > UpTo(s, t) THEN 0 ELSE UpTo(s, t) - (Below(s, t) + 1) + 1
      <4>1. \A a, b \in Int : Cardinality(a..b) = IF a > b THEN 0 ELSE b - a + 1
        BY FS_Interval
      <4>2. Below(s, t) + 1 \in Int /\ UpTo(s, t) \in Int
        BY <2>1
      <4>. QED
        BY <4>1, <4>2
    <3>. QED
      BY <2>1, <2>3, <2>4, <3>1
  <2>8. UpTo(s, t) - Below(s, t) = Cardinality(equal)
    BY <2>1, <2>3, <2>4
  <2>. QED
    BY <2>6, <2>7, <2>8 DEF equal, lat
<1>. QED
  BY <1>1, <1>3

-----------------------------------------------------------------------------
(* Errors by type. *)

\* The results that error_breakdown counts, and those it counts under k.
Counted(T) == {r \in T : Typed(r) \/ r.status >= 400}
OfType(T, k) == {r \in Counted(T) : ErrorType(r) = k}

Mentions(T, s, k) == Cardinality(PlacesIn(s, OfType(T, k)))

\* The number of results of a type is a number.
LEMMA MentionsFinite ==
    ASSUME NEW T, NEW s \in Seq(T), NEW k
    PROVE  /\ Mentions(T, s, k) \in Nat
           /\ Mentions(T, s, k) = 0 <=> PlacesIn(s, OfType(T, k)) = {}
<1>1. Len(s) \in Nat
  BY LenProperties
<1>2. PlacesIn(s, OfType(T, k)) \in SUBSET DOMAIN s
  BY DEF PlacesIn
<1>3. /\ IsFiniteSet(PlacesIn(s, OfType(T, k)))
      /\ Cardinality(PlacesIn(s, OfType(T, k))) \in 0..Len(s)
  BY <1>2, PlacesFinite
<1>. QED
  BY <1>1, <1>3, FS_EmptySet DEF Mentions

\* error_breakdown has an entry for each type that occurs, with its number.
LEMMA BreakdownCounts ==
    ASSUME NEW T, NEW s \in Seq(T)
    PROVE  /\ \A k : k \in DOMAIN Breakdown(s) <=> Mentions(T, s, k) # 0
           /\ Breakdown(s) = [k \in DOMAIN Breakdown(s) |-> Mentions(T, s, k)]
           /\ Breakdown(s) \in [DOMAIN Breakdown(s) -> Nat]
           /\ IsFiniteSet(DOMAIN Breakdown(s))
<1> DEFINE counted == {i \in DOMAIN s : Typed(s[i]) \/ s[i].status >= 400}
           types   == {ErrorType(s[i]) : i \in counted}
           number(k) == Cardinality({i \in counted : ErrorType(s[i]) = k})
<1>1. Breakdown(s) = [k \in types |-> number(k)]
  BY DEF Breakdown
<1>2. \A i \in DOMAIN s : s[i] \in T
  BY LenProperties, ElementOfSeq
<1>3. \A k : {i \in counted : ErrorType(s[i]) = k} = PlacesIn(s, OfType(T, k))
  BY <1>2, Zenon DEF PlacesIn, OfType, Counted
<1>4. \A k : number(k) = Mentions(T, s, k)
  BY <1>3 DEF Mentions
<1>5. \A k : k \in types <=> {i \in counted : ErrorType(s[i]) = k} # {}
  OBVIOUS
<1>6. \A k : k \in types <=> Mentions(T, s, k) # 0
  <2> SUFFICES ASSUME NEW k PROVE k \in types <=> Mentions(T, s, k) # 0
    OBVIOUS
  <2>1. Mentions(T, s, k) = 0 <=> PlacesIn(s, OfType(T, k)) = {}
    BY MentionsFinite
  <2>2. k \in types <=> PlacesIn(s, OfType(T, k)) # {}
    BY <1>3, <1>5, Zenon
  <2>. QED
    BY <2>1, <2>2
<1>7. IsFiniteSet(types)
  <2> DEFINE f == [i \in counted |-> ErrorType(s[i])]
  <2>1. f \in Surjection(counted, types)
    BY DEF Surjection
  <2>2. IsFiniteSet(counted)
    BY PlacesFinite
  <2>. HIDE DEF f, counted, types
  <2>. QED
    BY <2>1, <2>2, FS_Surjection
<1>8. \A k : Mentions(T, s, k) \in Nat
  BY MentionsFinite
<1>. HIDE DEF types, number
<1>9. DOMAIN Breakdown(s) = types
  BY <1>1
<1>. QED
  BY <1>1, <1>4, <1>6, <1>7, <1>8, <1>9

\* Merging the breakdowns of two runs gives that of both together.
LEMMA BreakdownsMerge ==
    ASSUME NEW T, NEW a \in Seq(T), NEW b \in Seq(T)
    PROVE  /\ Merged(<<>>, Breakdown(a)) = Breakdown(a)
           /\ Merged(Breakdown(a), Breakdown(b)) = Breakdown(a \o b)
<1> DEFINE A == Breakdown(a)
           B == Breakdown(b)
           C == Breakdown(a \o b)
           m(k) == Mentions(T, a, k)
           n(k) == Mentions(T, b, k)
<1>1. a \o b \in Seq(T)
  BY ConcatProperties
<1>2. \A k : Mentions(T, a \o b, k) = m(k) + n(k)
  BY PlacesInConcat DEF Mentions
<1>3. \A k : m(k) \in Nat /\ n(k) \in Nat
  BY MentionsFinite
<1>4. \A k : (k \in DOMAIN A <=> m(k) # 0) /\ (k \in DOMAIN B <=> n(k) # 0)
  BY BreakdownCounts
<1>5. \A k : k \in DOMAIN C <=> m(k) + n(k) # 0
  BY <1>1, <1>2, BreakdownCounts
<1>6. A = [k \in DOMAIN A |-> m(k)] /\ B = [k \in DOMAIN B |-> n(k)]
  BY BreakdownCounts
<1>7. C = [k \in DOMAIN C |-> m(k) + n(k)]
  <2>1. C = [k \in DOMAIN C |-> Mentions(T, a \o b, k)]
    BY <1>1, BreakdownCounts
  <2>. HIDE DEF C, m, n
  <2>. QED
    BY <1>2, <2>1
<1>. HIDE DEF A, B, C, m, n
<1>8. Merged(<<>>, A) = A
  <2> DEFINE sum(k) == (IF k \in DOMAIN <<>> THEN <<>>[k] ELSE 0)
                          + (IF k \in DOMAIN A THEN A[k] ELSE 0)
  <2>1. Merged(<<>>, A) = [k \in DOMAIN <<>> \cup DOMAIN A |-> sum(k)]
    BY DEF Merged
  <2>2. DOMAIN <<>> = {}
    OBVIOUS
  <2>3. \A k \in DOMAIN A : sum(k) = m(k)
    BY <1>3, <1>6, <2>2
  <2>4. DOMAIN <<>> \cup DOMAIN A = DOMAIN A
    BY <2>2
  <2>. HIDE DEF sum
  <2>. QED
    BY <1>6, <2>1, <2>3, <2>4
<1>9. Merged(A, B) = C
  <2> DEFINE sum(k) == (IF k \in DOMAIN A THEN A[k] ELSE 0)
                          + (IF k \in DOMAIN B THEN B[k] ELSE 0)
  <2>1. Merged(A, B) = [k \in DOMAIN A \cup DOMAIN B |-> sum(k)]
    BY DEF Merged
  <2>2. \A k : k \in DOMAIN C <=> k \in DOMAIN A \cup DOMAIN B
    BY <1>3, <1>4, <1>5
  <2>3. \A k : sum(k) = m(k) + n(k)
    <3>1. \A k : (IF k \in DOMAIN A THEN A[k] ELSE 0) = m(k)
      BY <1>4, <1>6
    <3>2. \A k : (IF k \in DOMAIN B THEN B[k] ELSE 0) = n(k)
      BY <1>4, <1>6
    <3>. QED
      BY <3>1, <3>2
  <2>4. DOMAIN A \cup DOMAIN B = DOMAIN C
    BY <2>2
  <2>. HIDE DEF sum
  <2>. QED
    BY <1>7, <2>1, <2>3, <2>4
<1>. QED
  BY <1>8, <1>9 DEF A, B, C

\* The types together account for every counted result, once.
LEMMA BreakdownTotal ==
    ASSUME NEW T, NEW s \in Seq(T)
    PROVE  Total(Breakdown(s)) = Cardinality(PlacesIn(s, Counted(T)))
<1> DEFINE types == DOMAIN Breakdown(s)
           some(ks) == {i \in PlacesIn(s, Counted(T)) : ErrorType(s[i]) \in ks}
           g == [ks \in SUBSET types |-> Cardinality(some(ks))]
<1>1. \A ks : some(ks) \in SUBSET DOMAIN s
  BY DEF PlacesIn
<1>2. \A ks : Cardinality(some(ks)) \in Nat
  <2>1. Len(s) \in Nat
    BY LenProperties
  <2>. HIDE DEF some
  <2>. QED
    BY <1>1, <2>1, PlacesFinite
<1>3. g \in [SUBSET types -> Nat]
  BY <1>2
<1>4. g[{}] = 0
  BY FS_EmptySet
<1>5. ASSUME NEW ks \in SUBSET types, NEW k \in ks
      PROVE  g[ks] = Breakdown(s)[k] + g[ks \ {k}]
  <2>1. Breakdown(s)[k] = Mentions(T, s, k)
    BY BreakdownCounts
  <2>2. PlacesIn(s, OfType(T, k)) = some({k})
    BY Zenon DEF PlacesIn, OfType, Counted
  <2>3. some(ks) = some({k}) \cup some(ks \ {k}) /\ some({k}) \cap some(ks \ {k}) = {}
    OBVIOUS
  <2>. HIDE DEF some
  <2>4. Cardinality(some({k}) \cup some(ks \ {k}))
          = Cardinality(some({k})) + Cardinality(some(ks \ {k}))
    <3>1. some({k}) \in SUBSET DOMAIN s /\ some(ks \ {k}) \in SUBSET DOMAIN s
      BY <1>1, Zenon
    <3> DEFINE one == some({k})
               two == some(ks \ {k})
    <3>2. one \in SUBSET DOMAIN s /\ two \in SUBSET DOMAIN s /\ one \cap two = {}
      BY <2>3, <3>1
    <3>. HIDE DEF one, two
    <3>3. Cardinality(one \cup two) = Cardinality(one) + Cardinality(two)
      BY <3>2, PlacesApart
    <3>. QED
      BY <3>3 DEF one, two
  <2>5. g[ks] = Cardinality(some(ks)) /\ g[ks \ {k}] = Cardinality(some(ks \ {k}))
    OBVIOUS
  <2>. QED
    BY <2>1, <2>2, <2>3, <2>4, <2>5 DEF Mentions
<1>6. Breakdown(s) \in [types -> Nat] /\ IsFiniteSet(types)
  BY BreakdownCounts
<1>7. g[types] = Cardinality(some(types))
  OBVIOUS
<1>8. some(types) = PlacesIn(s, Counted(T))
  <2>1. ASSUME NEW i \in PlacesIn(s, Counted(T)) PROVE ErrorType(s[i]) \in types
    <3>1. i \in PlacesIn(s, OfType(T, ErrorType(s[i])))
      BY Zenon DEF PlacesIn, OfType
    <3>2. Mentions(T, s, ErrorType(s[i])) # 0
      BY <3>1, MentionsFinite
    <3>. QED
      BY <3>2, BreakdownCounts
  <2>. QED
    BY <2>1
<1>. HIDE DEF g, types, some
<1>9. Total(Breakdown(s)) = g[types]
  BY <1>3, <1>4, <1>5, <1>6, TotalIs
<1>. QED
  BY <1>7, <1>8, <1>9

-----------------------------------------------------------------------------
(* Two runs together. *)

\* The total of two numbers.
IsTwo(S) == IsFiniteSet(S) /\ 1 \in S /\ 2 \in S /\ \A x \in S : x = 1 \/ x = 2

LEMMA TotalOfTwo ==
    ASSUME NEW S, IsTwo(S), NEW f \in [S -> Nat]
    PROVE  Total(f) = f[1] + f[2]
<1> DEFINE g == [s \in SUBSET S |-> (IF 1 \in s THEN f[1] ELSE 0)
                                       + (IF 2 \in s THEN f[2] ELSE 0)]
<1>0. IsFiniteSet(S) /\ 1 \in S /\ 2 \in S /\ \A x \in S : x = 1 \/ x = 2
  BY DEF IsTwo
<1>1. g \in [SUBSET S -> Nat] /\ g[{}] = 0
  BY <1>0
<1>2. ASSUME NEW s \in SUBSET S, NEW x \in s PROVE g[s] = f[x] + g[s \ {x}]
  <2>1. CASE x = 1
    <3>1. 1 \notin s \ {x} /\ (2 \in s \ {x} <=> 2 \in s)
      BY <2>1
    <3>. QED
      BY <1>0, <2>1, <3>1
  <2>2. CASE x = 2
    <3>1. 2 \notin s \ {x} /\ (1 \in s \ {x} <=> 1 \in s)
      BY <2>2
    <3>. QED
      BY <1>0, <2>2, <3>1
  <2>. QED
    BY <1>0, <2>1, <2>2
<1>3. IsFiniteSet(S)
  BY <1>0
<1>4. g[S] = f[1] + f[2]
  BY <1>0
<1>. HIDE DEF g
<1>5. Total(f) = g[S]
  BY <1>1, <1>2, <1>3, TotalIs
<1>. QED
  BY <1>4, <1>5

\* The subsets of two places, and the last place of each.
LEMMA TwoPlaces ==
    /\ Max({1}) = 1 /\ Max({2}) = 2 /\ Max({1, 2}) = 2
    /\ {1} \ {1} = {} /\ {2} \ {2} = {} /\ {1, 2} \ {2} = {1}
    /\ {1} # {} /\ {2} # {} /\ {1, 2} # {} /\ {1} # {2} /\ {1, 2} # {1} /\ {1, 2} # {2}
    /\ SUBSET {1, 2} = {{}, {1}, {2}, {1, 2}}
<1>1. Max({1}) = 1 /\ Max({2}) = 2 /\ Max({1, 2}) = 2
  BY DEF Max
<1>2. {1} \ {1} = {} /\ {2} \ {2} = {} /\ {1, 2} \ {2} = {1}
  OBVIOUS
<1>3. {1} # {} /\ {2} # {} /\ {1, 2} # {} /\ {1} # {2} /\ {1, 2} # {1} /\ {1, 2} # {2}
  OBVIOUS
<1>4. SUBSET {1, 2} = {{}, {1}, {2}, {1, 2}}
  OBVIOUS
<1>. QED
  BY <1>1, <1>2, <1>3, <1>4

\* Breakdowns are merged in the order of the runs.
LEMMA MergeOfTwo ==
    ASSUME NEW q, DOMAIN q = {1, 2}
    PROVE  FoldLeft(Merged, <<>>, q) = Merged(Merged(<<>>, q[1]), q[2])
<1> DEFINE Folds(h) == h = [s \in SUBSET DOMAIN q |->
                              IF s = {} THEN <<>> ELSE Merged(h[s \ {Max(s)}], q[Max(s)])]
           chosen == CHOOSE h : Folds(h)
           one    == Merged(<<>>, q[1])
           two    == Merged(<<>>, q[2])
           both   == Merged(one, q[2])
           g      == [s \in SUBSET {1, 2} |-> IF s = {} THEN <<>>
                                              ELSE IF s = {1} THEN one
                                              ELSE IF s = {2} THEN two ELSE both]
           h      == [s \in SUBSET DOMAIN q |->
                        IF s = {} THEN <<>> ELSE Merged(g[s \ {Max(s)}], q[Max(s)])]
<1>1. FoldLeft(Merged, <<>>, q) = chosen[DOMAIN q]
  BY DEF FoldLeft, MapThenFoldSet
<1>2. g[{}] = <<>> /\ g[{1}] = one /\ g[{2}] = two /\ g[{1, 2}] = both
  BY TwoPlaces, Zenon
<1>3. h[{}] = <<>> /\ h[{1}] = one /\ h[{2}] = two /\ h[{1, 2}] = both
  <2>1. h[{}] = <<>>
    OBVIOUS
  <2>2. h[{1}] = Merged(g[{}], q[1])
    BY TwoPlaces
  <2>3. h[{2}] = Merged(g[{}], q[2])
    BY TwoPlaces
  <2>4. h[{1, 2}] = Merged(g[{1}], q[2])
    BY TwoPlaces
  <2>. HIDE DEF g, h
  <2>. QED
    BY <1>2, <2>1, <2>2, <2>3, <2>4
<1>4. g = h
  <2>1. g = [s \in SUBSET {1, 2} |-> g[s]] /\ h = [s \in SUBSET {1, 2} |-> h[s]]
    BY Zenon
  <2>. HIDE DEF g, h
  <2>2. \A s \in SUBSET {1, 2} : g[s] = h[s]
    <3> SUFFICES ASSUME NEW s \in SUBSET {1, 2} PROVE g[s] = h[s]
      OBVIOUS
    <3>1. s = {} \/ s = {1} \/ s = {2} \/ s = {1, 2}
      OBVIOUS
    <3>2. g[{}] = h[{}] /\ g[{1}] = h[{1}] /\ g[{2}] = h[{2}] /\ g[{1, 2}] = h[{1, 2}]
      BY <1>2, <1>3, Zenon
    <3>. QED
      BY <3>1, <3>2, Zenon
  <2>. QED
    BY <2>1, <2>2
<1>5. Folds(g)
  <2>. HIDE DEF g
  <2>. QED
    BY <1>4
<1>6. Folds(chosen)
  <2>. HIDE DEF Folds, g, h
  <2>. QED
    BY <1>5, Zenon
<1>7. \A s \in SUBSET {1, 2} :
         chosen[s] = IF s = {} THEN <<>> ELSE Merged(chosen[s \ {Max(s)}], q[Max(s)])
  <2>. HIDE DEF chosen, g, h
  <2>. QED
    BY <1>6
<1>. HIDE DEF chosen, g, h
<1>8. chosen[{}] = <<>>
  BY <1>7
<1>9. chosen[{1}] = one
  BY <1>7, <1>8, TwoPlaces
<1>10. chosen[{1, 2}] = both
  BY <1>7, <1>9, TwoPlaces
<1>. QED
  BY <1>1, <1>10

\* Two sequences end to end.
LEMMA FlattenOfTwo ==
    ASSUME NEW T, NEW a \in Seq(T), NEW b \in Seq(T)
    PROVE  FlattenSeq(<<a, b>>) = a \o b
<1> DEFINE pair == <<a, b>>
           Joins(h) == h = [i \in 1..2 |-> IF i = 1 THEN pair[i] ELSE h[i - 1] \o pair[i]]
           chosen == CHOOSE h : Joins(h)
           g == [i \in 1..2 |-> IF i = 1 THEN a ELSE a \o b]
<1>1. FlattenSeq(pair) = chosen[2]
  BY DEF FlattenSeq
<1>2. pair[1] = a /\ pair[2] = b
  OBVIOUS
<1>. HIDE DEF pair
<1>3. Joins(g)
  <2>1. \A i \in 1..2 : g[i] = IF i = 1 THEN pair[i] ELSE g[i - 1] \o pair[i]
    <3>1. 1 \in 1..2 /\ 2 \in 1..2 /\ 2 - 1 = 1 /\ \A i \in 1..2 : i = 1 \/ i = 2
      OBVIOUS
    <3>2. g[1] = a /\ g[2] = a \o b
      BY <3>1
    <3>. HIDE DEF g
    <3>. QED
      BY <1>2, <3>1, <3>2
  <2> DEFINE h == [i \in 1..2 |-> IF i = 1 THEN pair[i] ELSE g[i - 1] \o pair[i]]
  <2>2. g = [i \in 1..2 |-> g[i]] /\ h = [i \in 1..2 |-> h[i]]
    <3>1. g = [i \in 1..2 |-> g[i]]
      OBVIOUS
    <3> DEFINE to(i) == IF i = 1 THEN pair[i] ELSE g[i - 1] \o pair[i]
    <3>2. h = [i \in 1..2 |-> to(i)]
      OBVIOUS
    <3>. HIDE DEF h, to
    <3>3. h = [i \in 1..2 |-> h[i]]
      BY <3>2
    <3>. QED
      BY <3>1, <3>3
  <2>3. \A i \in 1..2 : h[i] = g[i]
    BY <2>1
  <2>4. g = h
    <3>. HIDE DEF g, h
    <3>. QED
      BY <2>2, <2>3
  <2>. HIDE DEF g
  <2>. QED
    BY <2>4
<1>4. Joins(chosen)
  <2>. HIDE DEF Joins, g
  <2>. QED
    BY <1>3, Zenon
<1>5. \A i \in 1..2 : chosen[i] = IF i = 1 THEN pair[i] ELSE chosen[i - 1] \o pair[i]
  <2>. HIDE DEF chosen
  <2>. QED
    BY <1>4
<1>. HIDE DEF chosen
<1>6. chosen[1] = a
  BY <1>2, <1>5
<1>7. chosen[2] = chosen[1] \o pair[2]
  <2>1. 2 - 1 = 1 /\ 2 \in 1..2 /\ 2 # 1
    OBVIOUS
  <2>. QED
    BY <1>5, <2>1
<1>. QED
  BY <1>1, <1>2, <1>6, <1>7 DEF pair

\* The successes and errors of two parts are those of the whole.
LEMMA OutcomesConcat ==
    ASSUME NEW T, NEW a \in Seq(T), NEW b \in Seq(T)
    PROVE  /\ Cardinality(Successes(a)) \in Nat /\ Cardinality(Successes(b)) \in Nat
           /\ Cardinality(Errors(a)) \in Nat /\ Cardinality(Errors(b)) \in Nat
           /\ Cardinality(Successes(a \o b))
                = Cardinality(Successes(a)) + Cardinality(Successes(b))
           /\ Cardinality(Errors(a \o b))
                = Cardinality(Errors(a)) + Cardinality(Errors(b))
<1> DEFINE good == {r \in T : r.status \in 200..299}
           bad  == {r \in T : r.error # NoError \/ r.status >= 400}
<1>1. ASSUME NEW s \in Seq(T)
      PROVE  /\ Successes(s) = PlacesIn(s, good) /\ Errors(s) = PlacesIn(s, bad)
             /\ Cardinality(Successes(s)) \in Nat /\ Cardinality(Errors(s)) \in Nat
  <2>1. \A i \in DOMAIN s : s[i] \in T
    BY LenProperties, ElementOfSeq
  <2>2. Successes(s) = PlacesIn(s, good)
    BY <2>1, Zenon DEF Successes, PlacesIn
  <2>3. Errors(s) = PlacesIn(s, bad)
    BY <2>1, Zenon DEF Errors, PlacesIn
  <2>4. Len(s) \in Nat
    BY LenProperties
  <2>5. Successes(s) \in SUBSET DOMAIN s /\ Errors(s) \in SUBSET DOMAIN s
    BY DEF Successes, Errors
  <2>6. Cardinality(Successes(s)) \in 0..Len(s) /\ Cardinality(Errors(s)) \in 0..Len(s)
    BY <2>5, PlacesFinite
  <2>. QED
    BY <2>2, <2>3, <2>4, <2>6
<1>2. a \o b \in Seq(T)
  BY ConcatProperties
<1>. HIDE DEF good, bad
<1>3. /\ Successes(a \o b) = PlacesIn(a \o b, good) /\ Errors(a \o b) = PlacesIn(a \o b, bad)
      /\ Successes(a) = PlacesIn(a, good) /\ Errors(a) = PlacesIn(a, bad)
      /\ Successes(b) = PlacesIn(b, good) /\ Errors(b) = PlacesIn(b, bad)
  BY <1>1, <1>2
<1>4. /\ Cardinality(PlacesIn(a \o b, good))
           = Cardinality(PlacesIn(a, good)) + Cardinality(PlacesIn(b, good))
      /\ Cardinality(PlacesIn(a \o b, bad))
           = Cardinality(PlacesIn(a, bad)) + Cardinality(PlacesIn(b, bad))
  BY PlacesInConcat
<1>. QED
  BY <1>1, <1>3, <1>4

\* calculate_stats over two runs.
LEMMA StatsOfTwo ==
    ASSUME NEW T, NEW a \in Seq(T), NEW b \in Seq(T)
    PROVE  Stats(<<a, b>>) =
             [requests   |-> Len(a) + Len(b),
              successful |-> Cardinality(Successes(a)) + Cardinality(Successes(b)),
              failed     |-> Cardinality(Errors(a)) + Cardinality(Errors(b)),
              breakdown  |-> Breakdown(a \o b),
              latencies  |-> Latencies(a \o b)]
<1> DEFINE pair == <<a, b>>
           both == DOMAIN pair
<1>1. /\ both = {1, 2} /\ 1 \in both /\ 2 \in both /\ \A x \in both : x = 1 \/ x = 2
      /\ pair[1] = a /\ pair[2] = b
  OBVIOUS
<1>2. IsFiniteSet(both)
  <2>1. both = {1} \cup {2}
    OBVIOUS
  <2>2. IsFiniteSet({1}) /\ IsFiniteSet({2})
    BY FS_Singleton
  <2>3. IsFiniteSet({1} \cup {2})
    BY <2>2, FS_Union
  <2>. QED
    BY <2>1, <2>3, Zenon
<1>3. FlattenSeq(pair) = a \o b
  BY FlattenOfTwo
<1>. HIDE DEF pair
<1>4. Len(a) \in Nat /\ Len(b) \in Nat
  BY LenProperties
<1>5. /\ Cardinality(Successes(a)) \in Nat /\ Cardinality(Successes(b)) \in Nat
      /\ Cardinality(Errors(a)) \in Nat /\ Cardinality(Errors(b)) \in Nat
  BY OutcomesConcat
<1> DEFINE lengths   == [n \in both |-> Len(pair[n])]
           successes == [n \in both |-> Cardinality(Successes(pair[n]))]
           errors    == [n \in both |-> Cardinality(Errors(pair[n]))]
           types     == [n \in both |-> Breakdown(pair[n])]
<1>6. /\ lengths \in [both -> Nat] /\ lengths[1] = Len(a) /\ lengths[2] = Len(b)
  BY <1>1, <1>4
<1>7. /\ successes \in [both -> Nat]
      /\ successes[1] = Cardinality(Successes(a)) /\ successes[2] = Cardinality(Successes(b))
  BY <1>1, <1>5
<1>8. /\ errors \in [both -> Nat]
      /\ errors[1] = Cardinality(Errors(a)) /\ errors[2] = Cardinality(Errors(b))
  BY <1>1, <1>5
<1>9. /\ DOMAIN types = {1, 2} /\ types[1] = Breakdown(a) /\ types[2] = Breakdown(b)
  BY <1>1
<1>10. Stats(pair) = [requests   |-> Total(lengths),
                      successful |-> Total(successes),
                      failed     |-> Total(errors),
                      breakdown  |-> FoldLeft(Merged, <<>>, types),
                      latencies  |-> Latencies(FlattenSeq(pair))]
  BY DEF Stats
<1>. HIDE DEF both, lengths, successes, errors, types
<1>a. IsTwo(both)
  BY <1>1, <1>2 DEF IsTwo
<1>11. Total(lengths) = Len(a) + Len(b)
  BY <1>a, <1>6, TotalOfTwo
<1>12. Total(successes) = Cardinality(Successes(a)) + Cardinality(Successes(b))
  BY <1>a, <1>7, TotalOfTwo
<1>13. Total(errors) = Cardinality(Errors(a)) + Cardinality(Errors(b))
  BY <1>a, <1>8, TotalOfTwo
<1>14. FoldLeft(Merged, <<>>, types) = Breakdown(a \o b)
  <2>1. FoldLeft(Merged, <<>>, types) = Merged(Merged(<<>>, types[1]), types[2])
    BY <1>9, MergeOfTwo
  <2>. QED
    BY <1>9, <2>1, BreakdownsMerge
<1>. QED
  BY <1>3, <1>10, <1>11, <1>12, <1>13, <1>14 DEF pair

\* A run's results, reported in two parts, wherever they are parted, add up to
\* the report of the run: the same requests, successes and errors, the same
\* errors of each type and the same latencies in order.
THEOREM ReportsOfPartsAddUp ==
    ASSUME NEW T, NEW s \in Seq(T), NEW k \in DOMAIN s
    PROVE  LET report == Stats(<<SubSeq(s, 1, k), SubSeq(s, k + 1, Len(s))>>)
           IN  /\ report.requests = Len(s)
               /\ report.successful = Cardinality(Successes(s))
               /\ report.breakdown = Breakdown(s)
               /\ report.failed = Cardinality(Errors(s))
               /\ report.latencies = Latencies(s)
<1> DEFINE a == SubSeq(s, 1, k)
           b == SubSeq(s, k + 1, Len(s))
           report == Stats(<<a, b>>)
<1>1. Len(s) \in Nat /\ k \in 1..Len(s) /\ DOMAIN s = 1..Len(s)
  BY LenProperties
<1>2. a \in Seq(T) /\ b \in Seq(T)
  BY <1>1, SubSeqProperties, ElementOfSeq
<1>3. a \o b = s
  <2>1. a \o b = SubSeq(s, 1, Len(s))
    <3>1. 1 \in 1..Len(s) + 1 /\ k \in 1 - 1..Len(s) /\ Len(s) \in k..Len(s)
      BY <1>1
    <3>2. s \in Seq(T)
      OBVIOUS
    <3>. QED
      BY <3>1, <3>2, ConcatAdjacentSubSeq
  <2>. QED
    BY <2>1, SubSeqFull
<1>. HIDE DEF a, b
<1>4. Len(s) = Len(a) + Len(b)
  BY <1>2, <1>3, ConcatProperties
<1>5. /\ Cardinality(Successes(s)) = Cardinality(Successes(a)) + Cardinality(Successes(b))
      /\ Cardinality(Errors(s)) = Cardinality(Errors(a)) + Cardinality(Errors(b))
  BY <1>2, <1>3, OutcomesConcat
<1>6. report = [requests   |-> Len(a) + Len(b),
                successful |-> Cardinality(Successes(a)) + Cardinality(Successes(b)),
                failed     |-> Cardinality(Errors(a)) + Cardinality(Errors(b)),
                breakdown  |-> Breakdown(s),
                latencies  |-> Latencies(s)]
  BY <1>2, <1>3, StatsOfTwo
<1>. HIDE DEF report
<1>7. /\ report.requests = Len(s)
      /\ report.successful = Cardinality(Successes(s))
      /\ report.breakdown = Breakdown(s)
      /\ report.failed = Cardinality(Errors(s))
      /\ report.latencies = Latencies(s)
  BY <1>4, <1>5, <1>6
<1>. QED
  BY <1>7 DEF report, a, b

-----------------------------------------------------------------------------
(* Results. *)

\* What a result can be: its status is that of the response unless it has an
\* error, and then none or that of a failed attempt.
Messages == {NoError, "HTTP Error", Unexpected, Silent} \cup Faults

Sensible(r) ==
    IF r.error = NoError THEN r.status = r.answer /\ r.answer \in 100..599
    ELSE (r.status = 0 \/ r.status >= 400) /\ r.answer \notin 100..399

Result == {r \in [url : Nat, status : Nat, error : Messages, latency : Nat, answer : Nat] :
             Sensible(r)}

\* A record of these values is such a result.
LEMMA MakesResult ==
    ASSUME NEW u \in Nat, NEW status \in Nat, NEW error \in Messages, NEW time \in Nat,
           NEW answer \in Nat,
           IF error = NoError THEN status = answer /\ answer \in 100..599
           ELSE (status = 0 \/ status >= 400) /\ answer \notin 100..399
    PROVE  [url |-> u, status |-> status, error |-> error, latency |-> time,
            answer |-> answer] \in Result
<1> DEFINE r == [url |-> u, status |-> status, error |-> error, latency |-> time,
                 answer |-> answer]
<1>1. r \in [url : Nat, status : Nat, error : Messages, latency : Nat, answer : Nat]
  OBVIOUS
<1>2. r.status = status /\ r.error = error /\ r.answer = answer
  OBVIOUS
<1>. HIDE DEF r
<1>3. Sensible(r)
  BY <1>2 DEF Sensible
<1>. QED
  BY <1>1, <1>3 DEF r, Result

\* The blocking engines' results are like that.
LEMMA BlockingResult ==
    ASSUME NEW u \in Nat, NEW a \in Answers, NEW time \in Times
    PROVE  ResultOf(u, a, time) \in Result
<1> DEFINE r == ResultOf(u, a, time)
           took == IF a.fault = Unexpected THEN 0 ELSE time
<1>1. \/ a.fault = NoError /\ a.code \in 100..599
      \/ a.code = 0 /\ a.fault \in Faults \cup {Unexpected} /\ a.fault # NoError
  <2>1. CASE a \in [code : Codes, fault : {NoError}]
    BY <2>1, EnginesAssumption DEF EnginesAssumption
  <2>2. CASE a \in [code : {0}, fault : Faults \cup {Unexpected}]
    BY <2>2, EnginesAssumption DEF EnginesAssumption, Unexpected, NoError
  <2>. QED
    BY <2>1, <2>2 DEF Answers
<1>2. took \in Nat
  BY EnginesAssumption DEF EnginesAssumption
<1>3. r = [url |-> u, status |-> StatusOf(a), error |-> ErrorOf(a),
           latency |-> took, answer |-> a.code]
  BY DEF ResultOf
<1> DEFINE status == StatusOf(a)
           error  == ErrorOf(a)
           answer == a.code
           Fits   == IF error = NoError THEN status = answer /\ answer \in 100..599
                     ELSE (status = 0 \/ status >= 400) /\ answer \notin 100..399
<1>4. r = [url |-> u, status |-> status, error |-> error, latency |-> took,
           answer |-> answer]
  BY <1>3
<1>5. status \in Nat /\ error \in Messages /\ answer \in Nat /\ Fits
  <2>1. CASE a.fault = NoError /\ a.code \in 100..599 /\ ~(a.code >= 400)
    <3>1. status = a.code /\ error = NoError
      BY <2>1 DEF StatusOf, ErrorOf
    <3>2. a.code \in Nat
      BY <2>1
    <3>3. error \in Messages
      BY <3>1 DEF Messages
    <3>. QED
      BY <2>1, <3>1, <3>2, <3>3
  <2>2. CASE a.fault = NoError /\ a.code \in 100..599 /\ a.code >= 400
    <3>1. ~(a.code < 400) /\ a.code \in Nat /\ a.code \notin 100..399
      BY <2>2
    <3>2. status = 0 /\ error = "HTTP Error" /\ error # NoError
      BY <2>2, <3>1 DEF StatusOf, ErrorOf, Truthy, NoError
    <3>3. error \in Messages
      BY <3>2 DEF Messages
    <3>. HIDE DEF status, error
    <3>. QED
      BY <3>1, <3>2, <3>3
  <2>3. CASE a.code = 0 /\ a.fault \in Faults \cup {Unexpected} /\ a.fault # NoError
    <3>1. ~(a.code >= 400) /\ a.code \notin 100..399 /\ a.code \in Nat
      BY <2>3
    <3>2. status = 0 /\ error = a.fault
      BY <2>3, <3>1 DEF StatusOf, ErrorOf
    <3>3. error \in Messages /\ error # NoError
      BY <2>3, <3>2 DEF Messages
    <3>. HIDE DEF status, error
    <3>. QED
      BY <3>1, <3>2, <3>3
  <2>. QED
    BY <1>1, <2>1, <2>2, <2>3
<1>. HIDE DEF r, took, status, error, answer
<1>. QED
  BY <1>2, <1>4, <1>5, MakesResult DEF r

\* So are the async executor's.
LEMMA AsyncResult ==
    ASSUME NEW u \in Nat, NEW time \in Times, NEW r \in AsyncResults(u, time)
    PROVE  r \in Result
<1>1. time \in Nat /\ Codes \subseteq 100..599 /\ NoError \notin Faults
  BY EnginesAssumption DEF EnginesAssumption
<1>2. ASSUME NEW code \in Codes,
             r = [url |-> u, status |-> code, error |-> NoError, latency |-> time,
                  answer |-> code]
      PROVE  r \in Result
  <2>1. code \in Nat /\ code \in 100..599
    BY <1>1
  <2>. QED
    BY <1>1, <1>2, <2>1, MakesResult DEF Messages
<1>3. ASSUME NEW last \in {0} \cup {code \in Codes : Retried(code)},
             NEW message \in Faults \cup {Unexpected, Silent},
             r = [url |-> u, status |-> last, error |-> message, latency |-> time,
                  answer |-> 0]
      PROVE  r \in Result
  <2>1. last \in Nat /\ (last = 0 \/ last >= 400) /\ 0 \in Nat /\ 0 \notin 100..399
    BY <1>1 DEF Retried
  <2>2. message \in Messages /\ message # NoError
    BY <1>1 DEF Messages, Unexpected, Silent, NoError
  <2>. QED
    BY <1>1, <1>3, <2>1, <2>2, MakesResult
<1>. QED
  BY <1>2, <1>3 DEF AsyncResults

\* The workers with a URL in hand, by where the workers are.
Holders(places) == {w \in Slots : places[w] \in {"registering", "sending"}}

PoolPlaces == [Slots -> {"none", "idle", "registering", "sending"}]

\* They are as many as a number.
LEMMA HoldersFinite ==
    ASSUME NEW p
    PROVE  IsFiniteSet(Holders(p)) /\ Cardinality(Holders(p)) \in Nat
<1>1. IsFiniteSet(Slots)
  BY EnginesAssumption, FS_Interval DEF Slots, EnginesAssumption
<1>2. Holders(p) \in SUBSET Slots
  BY DEF Holders
<1>. QED
  BY <1>1, <1>2, FS_Subset, FS_CardinalityType

\* An idle worker that takes a URL is one more, one that is done one less.
LEMMA HoldersChange ==
    ASSUME NEW p \in PoolPlaces, NEW w \in Slots
    PROVE  /\ p[w] = "idle" => \A to \in {"registering", "sending"} :
                Cardinality(Holders([p EXCEPT ![w] = to])) = Cardinality(Holders(p)) + 1
           /\ p[w] = "sending" =>
                Cardinality(Holders(p)) = Cardinality(Holders([p EXCEPT ![w] = "idle"])) + 1
           /\ p[w] = "registering" => Holders([p EXCEPT ![w] = "sending"]) = Holders(p)
<1>0. IsFiniteSet(Holders(p)) /\ Cardinality(Holders(p)) \in Nat
  BY HoldersFinite
<1>1. ASSUME p[w] = "idle", NEW to \in {"registering", "sending"}
      PROVE  Cardinality(Holders([p EXCEPT ![w] = to])) = Cardinality(Holders(p)) + 1
  <2>1. Holders([p EXCEPT ![w] = to]) = Holders(p) \cup {w} /\ w \notin Holders(p)
    BY <1>1 DEF Holders, PoolPlaces
  <2>. QED
    BY <1>0, <2>1, FS_AddElement
<1>2. ASSUME p[w] = "sending"
      PROVE  Cardinality(Holders(p)) = Cardinality(Holders([p EXCEPT ![w] = "idle"])) + 1
  <2>1. Holders([p EXCEPT ![w] = "idle"]) = Holders(p) \ {w} /\ w \in Holders(p)
    BY <1>2 DEF Holders, PoolPlaces
  <2>2. Cardinality(Holders(p) \ {w}) = Cardinality(Holders(p)) - 1
    BY <1>0, <2>1, FS_RemoveElement
  <2>3. Cardinality(Holders(p)) = (Cardinality(Holders(p)) - 1) + 1
    BY <1>0
  <2>. QED
    BY <2>1, <2>2, <2>3, Zenon
<1>3. ASSUME p[w] = "registering"
      PROVE  Holders([p EXCEPT ![w] = "sending"]) = Holders(p)
  BY <1>3 DEF Holders, PoolPlaces
<1>. QED
  BY <1>1, <1>2, <1>3

\* Idle or absent workers hold nothing.
LEMMA NoHolders ==
    ASSUME NEW p, \A w \in Slots : p[w] \in {"none", "idle"}
    PROVE  Cardinality(Holders(p)) = 0
<1>1. Holders(p) = {}
  BY DEF Holders
<1>. QED
  BY <1>1, FS_EmptySet

\* The URLs taken so far are those with a result and those in a worker's hand.
Even(rs, places, n) == Len(rs) + Cardinality(Holders(places)) = n

ResultsKept ==
    /\ results \in [Callers -> Seq(Result)]
    /\ \A c \in Callers : Even(results[c], wpc[c], taken[c])

\* One more result for one more URL.
LEMMA EvenAppend ==
    ASSUME NEW rs \in Seq(Result), NEW r \in Result, NEW p, NEW n \in Nat, Even(rs, p, n)
    PROVE  Append(rs, r) \in Seq(Result) /\ Even(Append(rs, r), p, n + 1)
<1>1. Append(rs, r) \in Seq(Result) /\ Len(Append(rs, r)) = Len(rs) + 1 /\ Len(rs) \in Nat
  BY AppendProperties, LenProperties
<1>2. Cardinality(Holders(p)) \in Nat
  BY HoldersFinite
<1>. QED
  BY <1>1, <1>2 DEF Even

\* A worker's result goes to the caller, the worker gives up its URL.
LEMMA EvenFetch ==
    ASSUME NEW rs \in Seq(Result), NEW r \in Result, NEW p \in PoolPlaces, NEW w \in Slots,
           p[w] = "sending", NEW n \in Nat, Even(rs, p, n)
    PROVE  Append(rs, r) \in Seq(Result) /\ Even(Append(rs, r), [p EXCEPT ![w] = "idle"], n)
<1>1. Append(rs, r) \in Seq(Result) /\ Len(Append(rs, r)) = Len(rs) + 1 /\ Len(rs) \in Nat
  BY AppendProperties, LenProperties
<1>2. /\ Cardinality(Holders(p)) = Cardinality(Holders([p EXCEPT ![w] = "idle"])) + 1
      /\ Cardinality(Holders([p EXCEPT ![w] = "idle"])) \in Nat
  BY HoldersChange, HoldersFinite
<1>. QED
  BY <1>1, <1>2 DEF Even

\* A worker takes a URL.
LEMMA EvenTake ==
    ASSUME NEW rs \in Seq(Result), NEW p \in PoolPlaces, NEW w \in Slots, p[w] = "idle",
           NEW to \in {"registering", "sending"}, NEW n \in Nat, Even(rs, p, n)
    PROVE  Even(rs, [p EXCEPT ![w] = to], n + 1)
<1>1. Len(rs) \in Nat
  BY LenProperties
<1>2. /\ Cardinality(Holders([p EXCEPT ![w] = to])) = Cardinality(Holders(p)) + 1
      /\ Cardinality(Holders(p)) \in Nat
  BY HoldersChange, HoldersFinite
<1>. QED
  BY <1>1, <1>2 DEF Even

\* Nothing taken and nothing done.
LEMMA EvenEmpty ==
    ASSUME NEW p, \A w \in Slots : p[w] \in {"none", "idle"}
    PROVE  <<>> \in Seq(Result) /\ Even(<<>>, p, 0)
<1>1. <<>> \in Seq(Result) /\ Len(<<>>) = 0
  BY EmptySeq
<1>. QED
  BY <1>1, NoHolders DEF Even

\* At first nobody has results.
LEMMA ResultsInit == Init => ResultsKept
<1> SUFFICES ASSUME Init PROVE ResultsKept
  OBVIOUS
<1>1. ASSUME NEW c \in Callers
      PROVE  results[c] = <<>> /\ taken[c] = 0 /\ \A w \in Slots : wpc[c][w] = "none"
  BY DEF Init
<1>2. ASSUME NEW c \in Callers
      PROVE  results[c] \in Seq(Result) /\ Even(results[c], wpc[c], taken[c])
  BY <1>1, EvenEmpty
<1>3. results = [c \in Callers |-> <<>>] /\ <<>> \in Seq(Result)
  BY EmptySeq DEF Init
<1>. QED
  BY <1>2, <1>3 DEF ResultsKept

\* No step of a thread loses a result or makes one up.
LEMMA ResultsStep == TypeOK /\ InHand /\ ResultsKept /\ [Next]_vars => ResultsKept'
<1> SUFFICES ASSUME TypeOK, InHand, ResultsKept, [Next]_vars PROVE ResultsKept'
  OBVIOUS
<1>0. /\ results \in [Callers -> Seq(Result)] /\ DOMAIN taken = Callers
      /\ wpc \in [Callers -> PoolPlaces]
      /\ \A c \in Callers : /\ results[c] \in Seq(Result) /\ taken[c] \in Nat
                            /\ wpc[c] \in PoolPlaces
                            /\ Even(results[c], wpc[c], taken[c])
  BY EnginesAssumption DEF TypeOK, ResultsKept, PoolPlaces, EnginesAssumption
<1>a. \A c \in Callers : pc[c] # "threaded" => \A w \in Slots : wpc[c][w] \in {"none", "idle"}
  BY DEF InHand
<1> DEFINE KeptFor(c, rs, p, n) == rs \in Seq(Result) /\ Even(rs, p, n)
\* A step that changes one caller's results, pool and count keeps the others'.
<1>b. ASSUME NEW c \in Callers, NEW rs, NEW p, NEW n,
             results' = [results EXCEPT ![c] = rs], wpc' = [wpc EXCEPT ![c] = p],
             taken' = [taken EXCEPT ![c] = n], KeptFor(c, rs, p, n)
      PROVE  ResultsKept'
  <2>1. results' \in [Callers -> Seq(Result)]
    BY <1>0, <1>b
  <2>2. ASSUME NEW d \in Callers PROVE Even(results[d], wpc[d], taken[d])'
    <3>1. CASE d = c
      <4>1. results'[d] = rs /\ wpc'[d] = p /\ taken'[d] = n
        BY <1>0, <1>b, <3>1
      <4>. QED
        BY <1>b, <4>1 DEF Even, Holders
    <3>2. CASE d # c
      <4>1. results'[d] = results[d] /\ wpc'[d] = wpc[d] /\ taken'[d] = taken[d]
        BY <1>0, <1>b, <3>2
      <4>2. Even(results[d], wpc[d], taken[d])
        BY <1>0
      <4>. QED
        BY <4>1, <4>2 DEF Even, Holders
    <3>. QED
      BY <3>1, <3>2
  <2>. QED
    BY <2>1, <2>2 DEF ResultsKept
<1>c. ASSUME UNCHANGED <<results, wpc, taken>> PROVE ResultsKept'
  BY <1>c DEF ResultsKept, Even, Holders
<1>d. \A c \in Callers : /\ results = [results EXCEPT ![c] = results[c]]
                         /\ wpc = [wpc EXCEPT ![c] = wpc[c]]
                         /\ taken = [taken EXCEPT ![c] = taken[c]]
  <2>1. taken = [c \in Callers |-> taken[c]]
    BY DEF TypeOK
  <2>. QED
    BY <1>0, <2>1
<1>1. ASSUME NEW c \in Callers, RunThreaded(c) PROVE ResultsKept'
  <2>1. PICK n \in {0, UrlCount} :
          wpc' = [wpc EXCEPT ![c] = [w \in Slots |-> IF w <= n THEN "idle" ELSE "none"]]
    BY <1>1 DEF RunThreaded
  <2> DEFINE p == [w \in Slots |-> IF w <= n THEN "idle" ELSE "none"]
  <2>2. UNCHANGED <<results, taken>> /\ pc[c] = "idle"
    BY <1>1 DEF RunThreaded, BeginRun, Enters
  <2>3. Cardinality(Holders(p)) = 0
    <3>1. \A w \in Slots : p[w] \in {"none", "idle"}
      OBVIOUS
    <3>. HIDE DEF p
    <3>. QED
      BY <3>1, NoHolders
  <2>4. Cardinality(Holders(wpc[c])) = 0
    BY <1>a, <2>2, NoHolders
  <2>. HIDE DEF p
  <2>5. Even(results[c], p, taken[c])
    BY <1>0, <2>3, <2>4 DEF Even
  <2>6. /\ results' = [results EXCEPT ![c] = results[c]] /\ taken' = [taken EXCEPT ![c] = taken[c]]
        /\ wpc' = [wpc EXCEPT ![c] = p]
    BY <1>d, <2>1, <2>2 DEF p
  <2>. QED
    BY <1>0, <1>b, <2>5, <2>6
<1>2. ASSUME NEW c \in Callers,
             RunSync(c) \/ RunAsync(c) \/ AsyncStarts(c) \/ CloseCopies(c)
               \/ CloseClears(c) \/ CloseNext(c) \/ CloseReturns(c)
      PROVE  ResultsKept'
  BY <1>2, <1>c DEF RunSync, RunAsync, AsyncStarts, CloseCopies, CloseClears, CloseNext,
                    CloseReturns, poolVars
<1>3. ASSUME NEW c \in Callers, ThreadedReturns(c) PROVE ResultsKept'
  <2> DEFINE p == [w \in Slots |-> "none"]
  <2>1. /\ results' = [results EXCEPT ![c] = <<>>] /\ taken' = [taken EXCEPT ![c] = 0]
        /\ wpc' = [wpc EXCEPT ![c] = p]
    BY <1>3 DEF ThreadedReturns, EndRun, Leaves
  <2>2. \A w \in Slots : p[w] \in {"none", "idle"}
    OBVIOUS
  <2>. HIDE DEF p
  <2>. QED
    BY <1>b, <2>1, <2>2, EvenEmpty
<1>4. ASSUME NEW c \in Callers, pc[c] # "threaded", Leaves(c), UNCHANGED wpc
      PROVE  ResultsKept'
  <2>1. /\ results' = [results EXCEPT ![c] = <<>>] /\ taken' = [taken EXCEPT ![c] = 0]
        /\ wpc' = [wpc EXCEPT ![c] = wpc[c]]
    BY <1>4, <1>d DEF Leaves
  <2>2. \A w \in Slots : wpc[c][w] \in {"none", "idle"}
    BY <1>4, <1>a
  <2>. QED
    BY <1>b, <2>1, <2>2, EvenEmpty
<1>5. ASSUME NEW c \in Callers, SyncReturns(c) \/ SyncRaises(c) \/ AsyncEnds(c)
      PROVE  ResultsKept'
  BY <1>4, <1>5 DEF SyncReturns, SyncRaises, LeaveSync, EndRun, AsyncEnds
<1>6. ASSUME NEW c \in Callers, NEW r \in Result,
             results' = [results EXCEPT ![c] = Append(results[c], r)],
             taken' = [taken EXCEPT ![c] = taken[c] + 1], UNCHANGED wpc
      PROVE  ResultsKept'
  <2>1. KeptFor(c, Append(results[c], r), wpc[c], taken[c] + 1)
    BY <1>0, EvenAppend
  <2>2. wpc' = [wpc EXCEPT ![c] = wpc[c]]
    BY <1>6, <1>d
  <2>. HIDE DEF KeptFor
  <2>. QED
    BY <1>6, <1>b, <2>1, <2>2
<1>7. ASSUME NEW c \in Callers, SyncFetch(c) PROVE ResultsKept'
  <2>1. PICK a \in Answers, time \in Times :
          results' = [results EXCEPT ![c] = Append(@, ResultOf(taken[c] + 1, a, time))]
    BY <1>7 DEF SyncFetch
  <2>2. ResultOf(taken[c] + 1, a, time) \in Result
    BY <1>0, BlockingResult
  <2>3. taken' = [taken EXCEPT ![c] = taken[c] + 1] /\ UNCHANGED wpc
    BY <1>7 DEF SyncFetch
  <2>. QED
    BY <1>6, <2>1, <2>2, <2>3
<1>8. ASSUME NEW c \in Callers, AsyncFetch(c) PROVE ResultsKept'
  <2>1. PICK time \in Times : \E r \in AsyncResults(taken[c] + 1, time) :
          results' = [results EXCEPT ![c] = Append(@, r)]
    BY <1>8 DEF AsyncFetch
  <2>2. PICK r \in AsyncResults(taken[c] + 1, time) :
          results' = [results EXCEPT ![c] = Append(@, r)]
    BY <2>1
  <2>3. r \in Result
    BY <1>0, AsyncResult
  <2>4. taken' = [taken EXCEPT ![c] = taken[c] + 1] /\ UNCHANGED wpc
    BY <1>8 DEF AsyncFetch
  <2>. QED
    BY <1>6, <2>2, <2>3, <2>4
<1>9. ASSUME NEW c \in Callers, NEW w \in Slots, TakeUrl(c, w) PROVE ResultsKept'
  <2>1. PICK to \in {"registering", "sending"} : wpc' = [wpc EXCEPT ![c][w] = to]
    BY <1>9 DEF TakeUrl
  <2>2. /\ wpc[c][w] = "idle" /\ UNCHANGED results
        /\ taken' = [taken EXCEPT ![c] = taken[c] + 1]
    BY <1>9 DEF TakeUrl
  <2>3. /\ wpc' = [wpc EXCEPT ![c] = [wpc[c] EXCEPT ![w] = to]]
        /\ results' = [results EXCEPT ![c] = results[c]]
    BY <1>d, <2>1, <2>2
  <2>4. Even(results[c], [wpc[c] EXCEPT ![w] = to], taken[c] + 1)
    BY <1>0, <2>2, EvenTake
  <2>. QED
    BY <1>0, <1>b, <2>2, <2>3, <2>4
<1>10. ASSUME NEW c \in Callers, NEW w \in Slots, Register(c, w) PROVE ResultsKept'
  <2>1. /\ wpc[c][w] = "registering" /\ UNCHANGED <<results, taken>>
        /\ wpc' = [wpc EXCEPT ![c][w] = "sending"]
    BY <1>10 DEF Register
  <2>2. /\ wpc' = [wpc EXCEPT ![c] = [wpc[c] EXCEPT ![w] = "sending"]]
        /\ results' = [results EXCEPT ![c] = results[c]]
        /\ taken' = [taken EXCEPT ![c] = taken[c]]
    BY <1>d, <2>1
  <2>3. Holders([wpc[c] EXCEPT ![w] = "sending"]) = Holders(wpc[c])
    BY <1>0, <2>1, HoldersChange
  <2>4. Even(results[c], [wpc[c] EXCEPT ![w] = "sending"], taken[c])
    BY <1>0, <2>3 DEF Even
  <2>. QED
    BY <1>0, <1>b, <2>2, <2>4
<1>11. ASSUME NEW c \in Callers, NEW w \in Slots, Fetch(c, w) PROVE ResultsKept'
  <2>1. PICK a \in Answers, time \in Times :
          results' = [results EXCEPT ![c] = Collected(c, ResultOf(wurl[c][w], a, time))]
    BY <1>11 DEF Fetch
  <2> DEFINE r == ResultOf(wurl[c][w], a, time)
  <2>2. r \in Result
    <3>1. wurl[c][w] \in Nat
      BY EnginesAssumption DEF TypeOK, EnginesAssumption
    <3>. QED
      BY <3>1, BlockingResult
  <2>3. /\ wpc[c][w] = "sending" /\ UNCHANGED taken
        /\ wpc' = [wpc EXCEPT ![c][w] = "idle"]
    BY <1>11 DEF Fetch
  <2>. HIDE DEF r
  <2>4. /\ wpc' = [wpc EXCEPT ![c] = [wpc[c] EXCEPT ![w] = "idle"]]
        /\ results' = [results EXCEPT ![c] = Append(results[c], r)]
        /\ taken' = [taken EXCEPT ![c] = taken[c]]
    BY <1>d, <2>1, <2>3 DEF Collected, r
  <2>5. KeptFor(c, Append(results[c], r), [wpc[c] EXCEPT ![w] = "idle"], taken[c])
    BY <1>0, <2>2, <2>3, EvenFetch
  <2>. HIDE DEF KeptFor
  <2>. QED
    BY <1>b, <2>4, <2>5
<1>12. CASE UNCHANGED vars
  BY <1>12, <1>c DEF vars, poolVars
<1>. QED
  BY <1>1, <1>2, <1>3, <1>5, <1>7, <1>8, <1>9, <1>10, <1>11, <1>12
  DEF Next, CallerStep, WorkerStep

\* From such results, every figure of the report is right.
LEMMA ReportFollows == TypeOK /\ ResultsKept => ReportAddsUp
<1> SUFFICES ASSUME TypeOK, ResultsKept, NEW c \in Callers
             PROVE  LET rs == results[c]
                        lat == Latencies(rs)
                        pct(p) == Percentile(lat, p)
                        types == Breakdown(rs)
                        other == {i \in DOMAIN rs :
                                    rs[i].answer \in (100..199) \cup (300..399)}
                        inHand == {w \in Slots : wpc[c][w] \in {"registering", "sending"}}
                    IN  /\ Len(rs) + Cardinality(inHand) = taken[c]
                        /\ Total(types) = Cardinality({i \in Errors(rs) :
                                            rs[i].error # Silent \/ rs[i].status # 0})
                        /\ Successes(rs) \cap Errors(rs) = {}
                        /\ DOMAIN rs \ (Successes(rs) \cup Errors(rs)) = other
                        /\ lat # <<>> =>
                             /\ 100 * lat[1] <= pct(50) /\ pct(50) <= pct(95)
                             /\ pct(95) <= pct(99) /\ pct(99) <= 100 * lat[Len(lat)]
                        /\ \A k \in DOMAIN rs :
                             LET report == Stats(<<SubSeq(rs, 1, k), SubSeq(rs, k + 1, Len(rs))>>)
                             IN  /\ report.requests = Len(rs)
                                 /\ report.successful = Cardinality(Successes(rs))
                                 /\ report.breakdown = types
                                 /\ report.failed = Cardinality(Errors(rs))
                                 /\ report.latencies = lat
  BY DEF ReportAddsUp
<1> DEFINE rs == results[c]
           lat == Latencies(rs)
<1>1. rs \in Seq(Result) /\ Even(rs, wpc[c], taken[c])
  BY DEF ResultsKept
<1>. HIDE DEF rs
<1>2. \A r \in Result : /\ r.latency \in Nat /\ r.status \in Nat /\ r.answer \in Nat
                        /\ Sensible(r)
  BY DEF Result
<1>3. \A i \in DOMAIN rs : rs[i] \in Result
  BY <1>1, LenProperties, ElementOfSeq
<1>4. Len(rs) + Cardinality({w \in Slots : wpc[c][w] \in {"registering", "sending"}}) = taken[c]
  BY <1>1 DEF Even, Holders
<1>5. Total(Breakdown(rs))
        = Cardinality({i \in Errors(rs) : rs[i].error # Silent \/ rs[i].status # 0})
  <2>1. Total(Breakdown(rs)) = Cardinality(PlacesIn(rs, Counted(Result)))
    BY <1>1, BreakdownTotal
  <2>2. ASSUME NEW i \in DOMAIN rs
        PROVE  (Typed(rs[i]) \/ rs[i].status >= 400)
                 <=> /\ rs[i].error # NoError \/ rs[i].status >= 400
                     /\ rs[i].error # Silent \/ rs[i].status # 0
    <3> DEFINE r == rs[i]
    <3>1. r.status \in Nat /\ (r.error = NoError \/ r.status = 0 \/ r.status >= 400)
      BY <1>2, <1>3 DEF Sensible
    <3>2. r.status >= 400 => r.status # 0
      BY <3>1
    <3>3. NoError # Silent
      BY DEF NoError, Silent
    <3>. HIDE DEF r
    <3>4. (Typed(r) \/ r.status >= 400)
             <=> /\ r.error # NoError \/ r.status >= 400
                 /\ r.error # Silent \/ r.status # 0
      BY <3>1, <3>2, <3>3, Zenon DEF Typed
    <3>. QED
      BY <3>4 DEF r
  <2>3. PlacesIn(rs, Counted(Result))
          = {i \in Errors(rs) : rs[i].error # Silent \/ rs[i].status # 0}
    BY <1>3, <2>2, Zenon DEF PlacesIn, Counted, Errors
  <2>. QED
    BY <2>1, <2>3
<1>6. /\ Successes(rs) \cap Errors(rs) = {}
      /\ DOMAIN rs \ (Successes(rs) \cup Errors(rs))
           = {i \in DOMAIN rs : rs[i].answer \in (100..199) \cup (300..399)}
  <2>1. ASSUME NEW i \in DOMAIN rs
        PROVE  /\ ~(i \in Successes(rs) /\ i \in Errors(rs))
               /\ (i \notin Successes(rs) /\ i \notin Errors(rs))
                    <=> rs[i].answer \in (100..199) \cup (300..399)
    BY <1>2, <1>3 DEF Successes, Errors, Sensible
  <2>2. Successes(rs) \subseteq DOMAIN rs /\ Errors(rs) \subseteq DOMAIN rs
    BY DEF Successes, Errors
  <2>. QED
    BY <2>1, <2>2
<1>7. lat # <<>> => /\ 100 * lat[1] <= Percentile(lat, 50)
                    /\ Percentile(lat, 50) <= Percentile(lat, 95)
                    /\ Percentile(lat, 95) <= Percentile(lat, 99)
                    /\ Percentile(lat, 99) <= 100 * lat[Len(lat)]
  <2>1. lat \in Seq(Nat) /\ Ascending(lat)
    BY <1>1, <1>2, LatenciesAscend
  <2>. HIDE DEF lat
  <2>. QED
    BY <2>1, PercentilesAscend
<1>8. ASSUME NEW k \in DOMAIN rs
      PROVE  LET report == Stats(<<SubSeq(rs, 1, k), SubSeq(rs, k + 1, Len(rs))>>)
             IN  /\ report.requests = Len(rs)
                 /\ report.successful = Cardinality(Successes(rs))
                 /\ report.breakdown = Breakdown(rs)
                 /\ report.failed = Cardinality(Errors(rs))
                 /\ report.latencies = Latencies(rs)
  BY <1>1, <1>8, ReportsOfPartsAddUp, Zenon
<1>. QED
  BY <1>4, <1>5, <1>6, <1>7, <1>8, Zenon DEF rs

\* threaded_engine.py:164-181, models.py:83-155 and runner.py:93-155: whatever
\* threads interleave, every URL a worker has done with has one result, and the
\* figures reported from them agree with each other, together and in parts.
THEOREM ReportsAddUp == Spec => []ReportAddsUp
<1> DEFINE Inv == TypeOK /\ InHand /\ ResultsKept
<1>1. Init => Inv
  BY SessionInit, ResultsInit DEF SessionInv
<1>2. Inv /\ [Next]_vars => Inv'
  BY TypesSplit, PoolTypesStep, SessionTypesStep, InHandStep, ResultsStep
<1>3. Inv => ReportAddsUp
  BY ReportFollows
<1>. QED
  BY <1>1, <1>2, <1>3, PTL DEF Spec
=============================================================================
