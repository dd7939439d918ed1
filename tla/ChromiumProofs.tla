--------------------------- MODULE ChromiumProofs ---------------------------
(***************************************************************************)
(* The broker and its Chromiums.  The safety of the CDP command map, for   *)
(* any set of calls and sessions, any queue capacity and any retry policy; *)
(* and a session has at most one Chromium that the broker drives, for any  *)
(* number of Browsers, any retry limit and any set of faults.              *)
(***************************************************************************)
EXTENDS CdpConnection, CrashRecovery, FiniteSetTheorems, SequenceTheorems, TLAPS

\* What a call's place in the code says of its counters.
AttemptsInBounds ==
    \A c \in Calls :
        /\ st[c] = "idle" => attempt[c] = 0
        /\ st[c] = "backoff" => attempt[c] < MaxAttempts

\* An id in use was allocated by the call's own session.
IdsAllocated ==
    /\ \A s \in Sessions : nextId[s] >= 1
    /\ \A c \in Calls : id[c] < nextId[sess[c]]
    /\ \A c \in Calls : InFlight(c) => id[c] # 0

\* A sender in the map has not been used.
EntriesAreOpen ==
    \A i \in Ids : pending[i] # NoCall => oneshot[pending[i]] = "open"

\* The inductive invariant.
Inv ==
    /\ TypeOK
    /\ AttemptsInBounds
    /\ IdsAllocated
    /\ EntriesAreOpen
    /\ NoOrphanWaiter
    /\ NoStaleEntry
    /\ OneFramePerAttempt
    /\ RetriesExhausted

----------------------------------------------------------------------------
(* One step of Next is a step of a caller, of an actor or of Chromium.      *)
LEMMA NextSteps ==
    ASSUME [Next]_vars
    PROVE  \/ \E c \in Calls :
                 \/ Send(c) \/ Enqueue(c) \/ EnqueueFails(c) \/ Resolve(c)
                 \/ ResolveDropped(c) \/ Timeout(c) \/ Cancel(c)
           \/ WriterWrites \/ WriterFails
           \/ ReaderDispatches \/ ReaderEof \/ ReaderDrains \/ ReaderReturns \/ ReaderBreaks
           \/ ChromiumAnswers \/ ChromiumExits
           \/ UNCHANGED vars
  BY DEF Next, Caller, WriterTask, ReaderTask, Chromium

(* Every step preserves the types.                                          *)
LEMMA TypeStep ==
    ASSUME TypeOK, AttemptsInBounds, IdsAllocated, [Next]_vars
    PROVE  TypeOK'
  <1> USE ConnectionAssumption
      DEF TypeOK, Ids, Frames, NoFrame, Answers, Outcomes, callVars, pipeVars, taskVars,
          AttemptsInBounds, IdsAllocated, InFlight
  <1>1. ASSUME NEW c \in Calls, Send(c)
        PROVE  TypeOK'
    BY <1>1, SMTT(30) DEF Send
  <1>2. ASSUME NEW c \in Calls, Enqueue(c)
        PROVE  TypeOK'
    BY <1>2 DEF Enqueue
  <1>3. ASSUME NEW c \in Calls, EnqueueFails(c)
        PROVE  TypeOK'
    BY <1>3 DEF EnqueueFails, Remove, Finish, Retries
  <1>4. ASSUME NEW c \in Calls, Resolve(c)
        PROVE  TypeOK'
    BY <1>4 DEF Resolve, Finish, Retries
  <1>5. ASSUME NEW c \in Calls, ResolveDropped(c)
        PROVE  TypeOK'
    BY <1>5 DEF ResolveDropped, Remove, Finish, Retries
  <1>6. ASSUME NEW c \in Calls, Timeout(c)
        PROVE  TypeOK'
    BY <1>6 DEF Timeout, Remove, Finish, Retries
  <1>7. ASSUME NEW c \in Calls, Cancel(c)
        PROVE  TypeOK'
    BY <1>7 DEF Cancel
  <1>8. CASE WriterWrites
    <2>1. Head(queue) \in Frames /\ Tail(queue) \in Seq(Frames)
      BY <1>8, HeadTailProperties DEF WriterWrites
    <2> QED
      BY <1>8, <2>1 DEF WriterWrites
  <1>9. CASE WriterFails
    BY <1>9 DEF WriterFails, WriterEnds
  <1>10. CASE ReaderDispatches
    <2>1. Head(pipe) \in Answers /\ Tail(pipe) \in Seq(Answers)
      BY <1>10, HeadTailProperties DEF ReaderDispatches
    <2> QED
      BY <1>10, <2>1 DEF ReaderDispatches
  <1>11. CASE ReaderEof
    BY <1>11 DEF ReaderEof
  <1>12. CASE ReaderDrains
    BY <1>12 DEF ReaderDrains
  <1>13. CASE ReaderReturns
    BY <1>13 DEF ReaderReturns
  <1>14. CASE ReaderBreaks
    BY <1>14 DEF ReaderBreaks
  <1>15. CASE ChromiumAnswers
    BY <1>15 DEF ChromiumAnswers
  <1>16. CASE ChromiumExits
    BY <1>16 DEF ChromiumExits
  <1>17. CASE UNCHANGED vars
    BY <1>17 DEF vars
  <1> QED
    BY NextSteps, <1>1, <1>2, <1>3, <1>4, <1>5, <1>6, <1>7, <1>8, <1>9,
       <1>10, <1>11, <1>12, <1>13, <1>14, <1>15, <1>16, <1>17

(* A call's counters stay within what its place in the code allows.         *)
LEMMA CountersStep ==
    ASSUME TypeOK, AttemptsInBounds, IdsAllocated, [Next]_vars
    PROVE  AttemptsInBounds' /\ IdsAllocated'
  <1> USE ConnectionAssumption
      DEF TypeOK, Ids, Frames, NoFrame, Answers, Outcomes, callVars, pipeVars, taskVars,
          AttemptsInBounds, IdsAllocated, InFlight
  <1>1. ASSUME NEW c \in Calls, Send(c)
        PROVE  AttemptsInBounds' /\ IdsAllocated'
    <2> DEFINE i == nextId[sess[c]]
    <2>1. /\ i \in Ids /\ sess[c] \in Sessions /\ sess' = sess
          /\ nextId' = [nextId EXCEPT ![sess[c]] = i + 1]
          /\ id' = [id EXCEPT ![c] = i]
          /\ st' = [st EXCEPT ![c] = "parked"]
          /\ attempt' = [attempt EXCEPT ![c] = @ + 1]
      BY <1>1 DEF Send
    <2>2. AttemptsInBounds'
      BY <2>1
    <2>3. \A s \in Sessions : nextId'[s] >= nextId[s]
      BY <2>1
    <2>4. ASSUME NEW d \in Calls
          PROVE  id'[d] < nextId'[sess[d]] /\ (d = c => id'[d] # 0)
      <3>1. CASE d = c
        BY <2>1, <3>1
      <3>2. CASE d # c
        <4>1. /\ id'[d] = id[d] /\ id[d] \in Nat
              /\ nextId'[sess[d]] >= nextId[sess[d]]
              /\ nextId[sess[d]] \in Nat /\ nextId'[sess[d]] \in Nat
          BY <2>1, <2>3, <3>2
        <4> QED
          BY <4>1, <3>2
      <3> QED
        BY <3>1, <3>2
    <2> QED
      BY <2>1, <2>2, <2>3, <2>4
  <1>2. ASSUME NEW c \in Calls, Enqueue(c)
        PROVE  AttemptsInBounds' /\ IdsAllocated'
    BY <1>2 DEF Enqueue
  <1>3. ASSUME NEW c \in Calls, EnqueueFails(c)
        PROVE  AttemptsInBounds' /\ IdsAllocated'
    BY <1>3 DEF EnqueueFails, Remove, Finish, Retries
  <1>4. ASSUME NEW c \in Calls, Resolve(c)
        PROVE  AttemptsInBounds' /\ IdsAllocated'
    BY <1>4 DEF Resolve, Finish, Retries
  <1>5. ASSUME NEW c \in Calls, ResolveDropped(c)
        PROVE  AttemptsInBounds' /\ IdsAllocated'
    BY <1>5 DEF ResolveDropped, Remove, Finish, Retries
  <1>6. ASSUME NEW c \in Calls, Timeout(c)
        PROVE  AttemptsInBounds' /\ IdsAllocated'
    BY <1>6 DEF Timeout, Remove, Finish, Retries
  <1>7. ASSUME NEW c \in Calls, Cancel(c)
        PROVE  AttemptsInBounds' /\ IdsAllocated'
    BY <1>7 DEF Cancel
  <1>8. CASE WriterWrites
    <2>1. Head(queue) \in Frames /\ Tail(queue) \in Seq(Frames)
      BY <1>8, HeadTailProperties DEF WriterWrites
    <2> QED
      BY <1>8, <2>1 DEF WriterWrites
  <1>9. CASE WriterFails
    BY <1>9 DEF WriterFails, WriterEnds
  <1>10. CASE ReaderDispatches
    <2>1. Head(pipe) \in Answers /\ Tail(pipe) \in Seq(Answers)
      BY <1>10, HeadTailProperties DEF ReaderDispatches
    <2> QED
      BY <1>10, <2>1 DEF ReaderDispatches
  <1>11. CASE ReaderEof
    BY <1>11 DEF ReaderEof
  <1>12. CASE ReaderDrains
    BY <1>12 DEF ReaderDrains
  <1>13. CASE ReaderReturns
    BY <1>13 DEF ReaderReturns
  <1>14. CASE ReaderBreaks
    BY <1>14 DEF ReaderBreaks
  <1>15. CASE ChromiumAnswers
    BY <1>15 DEF ChromiumAnswers
  <1>16. CASE ChromiumExits
    BY <1>16 DEF ChromiumExits
  <1>17. CASE UNCHANGED vars
    BY <1>17 DEF vars
  <1> QED
    BY NextSteps, <1>1, <1>2, <1>3, <1>4, <1>5, <1>6, <1>7, <1>8, <1>9,
       <1>10, <1>11, <1>12, <1>13, <1>14, <1>15, <1>16, <1>17

(* The map and the callers agree after every step.                          *)
LEMMA MapStep ==
    ASSUME TypeOK, IdsAllocated, EntriesAreOpen, NoOrphanWaiter, NoStaleEntry, [Next]_vars
    PROVE  EntriesAreOpen' /\ NoOrphanWaiter' /\ NoStaleEntry'
  <1> USE ConnectionAssumption
      DEF TypeOK, Ids, Frames, NoFrame, Answers, Outcomes, callVars, pipeVars, taskVars,
          IdsAllocated, InFlight, EntriesAreOpen, NoOrphanWaiter, NoStaleEntry
  <1>1. ASSUME NEW c \in Calls, Send(c)
        PROVE  EntriesAreOpen' /\ NoOrphanWaiter' /\ NoStaleEntry'
    <2> DEFINE i == nextId[sess[c]]
    <2>1. /\ i \in Ids
          /\ st[c] \in {"idle", "backoff"}
          /\ pending' = [pending EXCEPT ![i] = c]
          /\ oneshot' = [d \in Calls |-> IF d = c THEN "open"
                                         ELSE IF d = pending[i] THEN "dropped"
                                         ELSE oneshot[d]]
          /\ id' = [id EXCEPT ![c] = i]
          /\ st' = [st EXCEPT ![c] = "parked"]
      BY <1>1 DEF Send
    <2>2. ASSUME NEW j \in Ids, pending[j] = c PROVE FALSE
      <3>1. st[c] \in {"parked", "waiting", "cancelled"}
        BY <2>2
      <3> QED
        BY <2>1, <3>1
    <2> HIDE DEF i
    <2>3. EntriesAreOpen'
      <3> SUFFICES ASSUME NEW j \in Ids, pending'[j] # NoCall
                   PROVE  oneshot'[pending'[j]] = "open"
        OBVIOUS
      <3>1. CASE j = i
        BY <2>1, <3>1
      <3>2. CASE j # i
        <4>1. pending'[j] = pending[j] /\ pending[j] \in Calls /\ pending[j] # c
          BY <2>1, <2>2, <3>2
        <4>2. pending[j] # pending[i]
          BY <2>1, <3>2, <4>1
        <4> QED
          BY <2>1, <4>1, <4>2
      <3> QED
        BY <3>1, <3>2
    <2>4. NoOrphanWaiter'
      <3> SUFFICES ASSUME NEW d \in Calls, InFlight(d)', oneshot'[d] = "open"
                   PROVE  pending'[id'[d]] = d
        OBVIOUS
      <3>1. CASE d = c
        BY <2>1, <3>1
      <3>2. CASE d # c
        <4>1. /\ id'[d] = id[d] /\ st'[d] = st[d]
              /\ oneshot[d] = "open" /\ d # pending[i]
          BY <2>1, <3>2
        <4>2. pending[id[d]] = d /\ id[d] \in Ids
          BY <4>1
        <4> QED
          BY <2>1, <4>1, <4>2
      <3> QED
        BY <3>1, <3>2
    <2>5. NoStaleEntry'
      BY <2>1, <2>2
    <2> QED
      BY <2>3, <2>4, <2>5
  <1>2. ASSUME NEW c \in Calls, Enqueue(c)
        PROVE  EntriesAreOpen' /\ NoOrphanWaiter' /\ NoStaleEntry'
    BY <1>2 DEF Enqueue
  <1>3. ASSUME NEW c \in Calls, EnqueueFails(c)
        PROVE  EntriesAreOpen' /\ NoOrphanWaiter' /\ NoStaleEntry'
    BY <1>3 DEF EnqueueFails, Remove, Finish, Retries
  <1>4. ASSUME NEW c \in Calls, Resolve(c)
        PROVE  EntriesAreOpen' /\ NoOrphanWaiter' /\ NoStaleEntry'
    BY <1>4 DEF Resolve, Finish, Retries
  <1>5. ASSUME NEW c \in Calls, ResolveDropped(c)
        PROVE  EntriesAreOpen' /\ NoOrphanWaiter' /\ NoStaleEntry'
    BY <1>5 DEF ResolveDropped, Remove, Finish, Retries
  <1>6. ASSUME NEW c \in Calls, Timeout(c)
        PROVE  EntriesAreOpen' /\ NoOrphanWaiter' /\ NoStaleEntry'
    BY <1>6 DEF Timeout, Remove, Finish, Retries
  <1>7. ASSUME NEW c \in Calls, Cancel(c)
        PROVE  EntriesAreOpen' /\ NoOrphanWaiter' /\ NoStaleEntry'
    BY <1>7 DEF Cancel
  <1>8. CASE WriterWrites
    <2>1. Head(queue) \in Frames /\ Tail(queue) \in Seq(Frames)
      BY <1>8, HeadTailProperties DEF WriterWrites
    <2> QED
      BY <1>8, <2>1 DEF WriterWrites
  <1>9. CASE WriterFails
    BY <1>9 DEF WriterFails, WriterEnds
  <1>10. CASE ReaderDispatches
    <2> DEFINE f == Head(pipe).frame
               o == Head(pipe).outcome
    <2>1. Head(pipe) \in Answers
      BY <1>10, HeadTailProperties DEF ReaderDispatches
    <2>2. /\ f.id \in Ids /\ o \in {"ok", "error"}
          /\ pending' = [pending EXCEPT ![f.id] = NoCall]
          /\ oneshot' = [c \in Calls |-> IF c = pending[f.id] THEN o ELSE oneshot[c]]
          /\ st' = st /\ id' = id
      BY <1>10, <2>1 DEF ReaderDispatches
    <2> HIDE DEF f, o
    <2>3. EntriesAreOpen' /\ NoStaleEntry'
      BY <2>2
    <2>4. NoOrphanWaiter'
      BY <2>2
    <2> QED
      BY <2>3, <2>4
  <1>11. CASE ReaderEof
    BY <1>11 DEF ReaderEof
  <1>12. CASE ReaderDrains
    BY <1>12 DEF ReaderDrains
  <1>13. CASE ReaderReturns
    BY <1>13 DEF ReaderReturns
  <1>14. CASE ReaderBreaks
    BY <1>14 DEF ReaderBreaks
  <1>15. CASE ChromiumAnswers
    BY <1>15 DEF ChromiumAnswers
  <1>16. CASE ChromiumExits
    BY <1>16 DEF ChromiumExits
  <1>17. CASE UNCHANGED vars
    BY <1>17 DEF vars
  <1> QED
    BY NextSteps, <1>1, <1>2, <1>3, <1>4, <1>5, <1>6, <1>7, <1>8, <1>9,
       <1>10, <1>11, <1>12, <1>13, <1>14, <1>15, <1>16, <1>17

(* No two attempts of a session get the same id.                            *)
LEMMA IdStep ==
    ASSUME TypeOK, IdsAllocated, OneFramePerAttempt, [Next]_vars
    PROVE  OneFramePerAttempt'
  <1> USE ConnectionAssumption
      DEF TypeOK, Ids, Frames, NoFrame, Answers, Outcomes, callVars, pipeVars, taskVars,
          IdsAllocated, InFlight, OneFramePerAttempt
  <1>1. ASSUME NEW c \in Calls, Send(c)
        PROVE  OneFramePerAttempt'
    BY <1>1 DEF Send
  <1>2. ASSUME NEW c \in Calls, Enqueue(c)
        PROVE  OneFramePerAttempt'
    BY <1>2 DEF Enqueue
  <1>3. ASSUME NEW c \in Calls, EnqueueFails(c)
        PROVE  OneFramePerAttempt'
    BY <1>3 DEF EnqueueFails, Remove, Finish, Retries
  <1>4. ASSUME NEW c \in Calls, Resolve(c)
        PROVE  OneFramePerAttempt'
    BY <1>4 DEF Resolve, Finish, Retries
  <1>5. ASSUME NEW c \in Calls, ResolveDropped(c)
        PROVE  OneFramePerAttempt'
    BY <1>5 DEF ResolveDropped, Remove, Finish, Retries
  <1>6. ASSUME NEW c \in Calls, Timeout(c)
        PROVE  OneFramePerAttempt'
    BY <1>6 DEF Timeout, Remove, Finish, Retries
  <1>7. ASSUME NEW c \in Calls, Cancel(c)
        PROVE  OneFramePerAttempt'
    BY <1>7 DEF Cancel
  <1>8. CASE WriterWrites
    <2>1. Head(queue) \in Frames /\ Tail(queue) \in Seq(Frames)
      BY <1>8, HeadTailProperties DEF WriterWrites
    <2> QED
      BY <1>8, <2>1 DEF WriterWrites
  <1>9. CASE WriterFails
    BY <1>9 DEF WriterFails, WriterEnds
  <1>10. CASE ReaderDispatches
    <2>1. Head(pipe) \in Answers /\ Tail(pipe) \in Seq(Answers)
      BY <1>10, HeadTailProperties DEF ReaderDispatches
    <2> QED
      BY <1>10, <2>1 DEF ReaderDispatches
  <1>11. CASE ReaderEof
    BY <1>11 DEF ReaderEof
  <1>12. CASE ReaderDrains
    BY <1>12 DEF ReaderDrains
  <1>13. CASE ReaderReturns
    BY <1>13 DEF ReaderReturns
  <1>14. CASE ReaderBreaks
    BY <1>14 DEF ReaderBreaks
  <1>15. CASE ChromiumAnswers
    BY <1>15 DEF ChromiumAnswers
  <1>16. CASE ChromiumExits
    BY <1>16 DEF ChromiumExits
  <1>17. CASE UNCHANGED vars
    BY <1>17 DEF vars
  <1> QED
    BY NextSteps, <1>1, <1>2, <1>3, <1>4, <1>5, <1>6, <1>7, <1>8, <1>9,
       <1>10, <1>11, <1>12, <1>13, <1>14, <1>15, <1>16, <1>17

(* An idempotent call fails for good only on its last attempt.              *)
LEMMA RetryStep ==
    ASSUME TypeOK, RetriesExhausted, [Next]_vars
    PROVE  RetriesExhausted'
  <1> USE ConnectionAssumption
      DEF TypeOK, Ids, Frames, NoFrame, Answers, Outcomes, callVars, pipeVars, taskVars,
          RetriesExhausted
  <1>1. ASSUME NEW c \in Calls, Send(c)
        PROVE  RetriesExhausted'
    BY <1>1 DEF Send
  <1>2. ASSUME NEW c \in Calls, Enqueue(c)
        PROVE  RetriesExhausted'
    BY <1>2 DEF Enqueue
  <1>3. ASSUME NEW c \in Calls, EnqueueFails(c)
        PROVE  RetriesExhausted'
    BY <1>3 DEF EnqueueFails, Remove, Finish, Retries
  <1>4. ASSUME NEW c \in Calls, Resolve(c)
        PROVE  RetriesExhausted'
    BY <1>4 DEF Resolve, Finish, Retries
  <1>5. ASSUME NEW c \in Calls, ResolveDropped(c)
        PROVE  RetriesExhausted'
    BY <1>5 DEF ResolveDropped, Remove, Finish, Retries
  <1>6. ASSUME NEW c \in Calls, Timeout(c)
        PROVE  RetriesExhausted'
    BY <1>6 DEF Timeout, Remove, Finish, Retries
  <1>7. ASSUME NEW c \in Calls, Cancel(c)
        PROVE  RetriesExhausted'
    BY <1>7 DEF Cancel
  <1>8. CASE WriterWrites
    <2>1. Head(queue) \in Frames /\ Tail(queue) \in Seq(Frames)
      BY <1>8, HeadTailProperties DEF WriterWrites
    <2> QED
      BY <1>8, <2>1 DEF WriterWrites
  <1>9. CASE WriterFails
    BY <1>9 DEF WriterFails, WriterEnds
  <1>10. CASE ReaderDispatches
    <2>1. Head(pipe) \in Answers /\ Tail(pipe) \in Seq(Answers)
      BY <1>10, HeadTailProperties DEF ReaderDispatches
    <2> QED
      BY <1>10, <2>1 DEF ReaderDispatches
  <1>11. CASE ReaderEof
    BY <1>11 DEF ReaderEof
  <1>12. CASE ReaderDrains
    BY <1>12 DEF ReaderDrains
  <1>13. CASE ReaderReturns
    BY <1>13 DEF ReaderReturns
  <1>14. CASE ReaderBreaks
    BY <1>14 DEF ReaderBreaks
  <1>15. CASE ChromiumAnswers
    BY <1>15 DEF ChromiumAnswers
  <1>16. CASE ChromiumExits
    BY <1>16 DEF ChromiumExits
  <1>17. CASE UNCHANGED vars
    BY <1>17 DEF vars
  <1> QED
    BY NextSteps, <1>1, <1>2, <1>3, <1>4, <1>5, <1>6, <1>7, <1>8, <1>9,
       <1>10, <1>11, <1>12, <1>13, <1>14, <1>15, <1>16, <1>17

(* The invariant holds initially.                                           *)
LEMMA InitInv == Init => Inv
  <1> SUFFICES ASSUME Init PROVE Inv
    OBVIOUS
  <1> USE ConnectionAssumption DEF Init
  <1>1. TypeOK
    <2>1. nextId \in [Sessions -> Nat] /\ attempt \in [Calls -> 0..MaxAttempts]
      OBVIOUS
    <2>2. queue \in Seq(Frames) /\ pipe \in Seq(Answers) /\ inbox \subseteq Frames
      OBVIOUS
    <2>3. /\ pending \in [Ids -> Calls \cup {NoCall}]
          /\ id \in [Calls -> Ids \cup {0}]
          /\ reply \in [Calls -> Frames \cup {NoFrame}]
      OBVIOUS
    <2> QED
      BY <2>1, <2>2, <2>3 DEF TypeOK, Outcomes
  <1>2. AttemptsInBounds /\ IdsAllocated
    BY DEF AttemptsInBounds, IdsAllocated, InFlight
  <1>3. EntriesAreOpen /\ NoOrphanWaiter /\ NoStaleEntry
    BY DEF EntriesAreOpen, NoOrphanWaiter, NoStaleEntry, InFlight
  <1>4. OneFramePerAttempt /\ RetriesExhausted
    BY DEF OneFramePerAttempt, RetriesExhausted
  <1> QED
    BY <1>1, <1>2, <1>3, <1>4 DEF Inv

\* Inv is an invariant of the transport, whatever the calls, the sessions and
\* the capacities, and however timeouts, cancellations, broken pipes and the
\* drain interleave.
THEOREM Invariance == Spec => []Inv
  <1>1. Init => Inv
    BY InitInv
  <1>2. Inv /\ [Next]_vars => Inv'
    BY TypeStep, CountersStep, MapStep, IdStep, RetryStep DEF Inv
  <1> QED
    BY <1>1, <1>2, PTL DEF Spec

\* The variables of the transport keep their types.
THEOREM TypeCorrect == Spec => []TypeOK
  BY Invariance, PTL DEF Inv

\* A caller that still waits is always reachable through the shared map.
THEOREM NoWaiterIsLost == Spec => []NoOrphanWaiter
  BY Invariance, PTL DEF Inv

\* The shared map holds no entry of a command that has returned.
THEOREM NoEntryLeaks == Spec => []NoStaleEntry
  BY Invariance, PTL DEF Inv

\* Two commands of one session are never in flight with one id.
THEOREM IdsAreUnique == Spec => []OneFramePerAttempt
  BY Invariance, PTL DEF Inv

\* A retried command fails for good only after its last attempt.
THEOREM RetriesAreUsed == Spec => []RetriesExhausted
  BY Invariance, PTL DEF Inv

----------------------------------------------------------------------------
\* One Chromium per profile: inductive invariant.

\* A Browser whose child runs and whose connection is served.
Driven(b) == process[b] = "up" /\ reading[b]

\* Browsers that have not been launched have nothing.
UnlaunchedAreBlank ==
    \A b \in Browsers : b > launched =>
        process[b] = "none" /\ ~reading[b] /\ ~signal[b] /\ ~rx[b]

\* closed_tx fires only for a connection that is over or a child that died.
SignalsAreTrue ==
    \A b \in Browsers : signal[b] => process[b] = "dead" \/ ~reading[b]

\* A round of recovery::run that has taken the exit channel runs on the last
\* Browser launched, and what it launches next comes right after that one.
WatchesTheLast ==
    /\ current <= launched
    /\ watcher \in {"wait", "launch"} => watched = current /\ current = launched
    /\ watcher = "launch" => signal[watched]
    /\ watcher \in {"wait", "launch", "reattach", "backoff"} => ~rx[current]
    /\ watcher = "subscribe" /\ rx[current] => current = launched
    /\ watcher = "reattach" => fresh = launched

\* The failure arm gives up before consecutive_failures passes its limit.
FailuresCounted == watcher # "gave_up" => failures < MaxRespawns

\* A teardown that has begun holds a Browser that was launched.
ClosesABrowser == closer # "none" => closing \in 1..launched

\* Only the last Browser launched can be driven.
OnlyTheLastIsDriven == \A b \in Browsers : Driven(b) => b = launched

\* The inductive invariant.
RecoveryInv ==
    /\ RecoveryTypeOK
    /\ FailuresCounted
    /\ ClosesABrowser
    /\ UnlaunchedAreBlank
    /\ SignalsAreTrue
    /\ WatchesTheLast
    /\ OnlyTheLastIsDriven

----------------------------------------------------------------------------
(* The steps of recovery::run, of the teardown, of the tasks of a           *)
(* connection and of the world outside, one by one.                         *)
LEMMA RecoverySteps ==
    ASSUME [RecoveryNext]_recoveryVars
    PROVE  \/ Subscribe \/ Wake \/ Backoff \/ LaunchFails \/ LaunchSucceeds
           \/ ReattachFails \/ Swap
           \/ CloseSends \/ ChromiumCloses \/ ChromiumLingers
           \/ CloseTakes \/ CloseSeesExit \/ CloseKills \/ CloseRemoves
           \/ \E b \in Browsers : ReaderStops(b)
           \/ WriteFails \/ Crash \/ Tick \/ Touch
           \/ UNCHANGED recoveryVars
  BY DEF RecoveryNext, Watcher, Teardown, ChromiumReplies, Environment, ReaderEnds,
         ConnectionBreaks

(* The initial state, with one Browser, satisfies the invariant.            *)
LEMMA RecoveryInitInv == RecoveryInit => RecoveryInv
  <1> SUFFICES ASSUME RecoveryInit
               PROVE  RecoveryInv
    OBVIOUS
  <1> USE RecoveryAssumption DEF RecoveryInit, Browsers, NoBrowser
  <1>1. reading \in [Browsers -> BOOLEAN] /\ writing \in [Browsers -> BOOLEAN]
        /\ signal \in [Browsers -> BOOLEAN] /\ rx \in [Browsers -> BOOLEAN]
    BY Zenon
  <1>2. RecoveryTypeOK
    BY <1>1 DEF RecoveryTypeOK
  <1>3. \A b \in Browsers : ~signal[b] /\ (b # 1 => process[b] = "none" /\ ~reading[b] /\ ~rx[b])
    BY Zenon
  <1>4. FailuresCounted /\ ClosesABrowser /\ UnlaunchedAreBlank /\ SignalsAreTrue
    BY <1>3 DEF FailuresCounted, ClosesABrowser, UnlaunchedAreBlank, SignalsAreTrue
  <1>5. WatchesTheLast /\ OnlyTheLastIsDriven
    BY DEF WatchesTheLast, OnlyTheLastIsDriven, Driven
  <1> QED
    BY <1>2, <1>4, <1>5 DEF RecoveryInv

(* The failure arm, whether it is the launch or the reattach that failed.   *)
LEMMA RespawnStepInv ==
    ASSUME RecoveryInv, RespawnFailed, watcher \in {"launch", "reattach"},
           UNCHANGED <<clockVars, browserVars, watched, closerVars>>
    PROVE  RecoveryInv'
  <1> USE RecoveryAssumption
      DEF RecoveryInv, RecoveryTypeOK, RespawnFailed, browserVars, closerVars, clockVars
  <1>1. failures < MaxRespawns
    BY DEF FailuresCounted
  <1>2. events' \subseteq {"session.recovered", "session.recovery_failed"}
    <2>1. CASE failures + 1 >= MaxRespawns
      BY <2>1
    <2>2. CASE ~(failures + 1 >= MaxRespawns)
      BY <2>2
    <2> QED
      BY <2>1, <2>2
  <1>3. watcher' \in {"gave_up", "backoff"} /\ failures' \in 0..MaxRespawns
    BY <1>1
  <1>4. RecoveryTypeOK'
    BY <1>2, <1>3
  <1>5. FailuresCounted' /\ ClosesABrowser' /\ UnlaunchedAreBlank' /\ SignalsAreTrue'
    BY <1>1 DEF FailuresCounted, ClosesABrowser, UnlaunchedAreBlank, SignalsAreTrue
  <1>6. WatchesTheLast' /\ OnlyTheLastIsDriven'
    BY <1>3 DEF WatchesTheLast, OnlyTheLastIsDriven, Driven
  <1> QED
    BY <1>4, <1>5, <1>6

(* Every step preserves the invariant.                                      *)
LEMMA RecoveryStepInv ==
    ASSUME RecoveryInv, [RecoveryNext]_recoveryVars
    PROVE  RecoveryInv'
  <1> USE RecoveryAssumption
      DEF RecoveryInv, RecoveryTypeOK, FailuresCounted, ClosesABrowser, UnlaunchedAreBlank,
          SignalsAreTrue, WatchesTheLast, OnlyTheLastIsDriven, Driven, Browsers, NoBrowser,
          browserVars, watcherVars, closerVars, clockVars
  <1>1. CASE Subscribe
    BY <1>1, ZenonT(30) DEF Subscribe
  <1>2. CASE Wake
    BY <1>2 DEF Wake, WithinWindow
  <1>3. CASE Backoff
    BY <1>3 DEF Backoff
  <1>4. CASE LaunchFails
    <2>1. RespawnFailed /\ watcher = "launch" /\ UNCHANGED <<clockVars, browserVars, watched, closerVars>>
      BY <1>4 DEF LaunchFails
    <2> QED
      BY <2>1, RespawnStepInv
  <1>5. CASE LaunchSucceeds
    <2>1. RecoveryTypeOK' /\ FailuresCounted' /\ ClosesABrowser'
      BY <1>5 DEF LaunchSucceeds
    <2>2. UnlaunchedAreBlank' /\ SignalsAreTrue'
      BY <1>5 DEF LaunchSucceeds
    <2>3. WatchesTheLast'
      BY <1>5 DEF LaunchSucceeds
    <2>4. \A b \in Browsers : ~Driven(b)
      BY <1>5 DEF LaunchSucceeds
    <2>5. OnlyTheLastIsDriven'
      BY <1>5, <2>4 DEF LaunchSucceeds
    <2> QED
      BY <2>1, <2>2, <2>3, <2>5
  <1>6. CASE ReattachFails
    <2>1. RespawnFailed /\ watcher = "reattach" /\ UNCHANGED <<clockVars, browserVars, watched, closerVars>>
      BY <1>6 DEF ReattachFails
    <2> QED
      BY <2>1, RespawnStepInv
  <1>7. CASE Swap
    BY <1>7 DEF Swap
  <1>8. CASE CloseSends
    <2>1. RecoveryTypeOK' /\ ClosesABrowser'
      BY <1>8 DEF CloseSends
    <2>2. SignalsAreTrue' /\ UnlaunchedAreBlank'
      BY <1>8 DEF CloseSends
    <2>3. FailuresCounted' /\ WatchesTheLast' /\ OnlyTheLastIsDriven'
      BY <1>8 DEF CloseSends
    <2> QED
      BY <2>1, <2>2, <2>3
  <1>9. CASE ChromiumCloses
    BY <1>9 DEF ChromiumCloses
  <1>10. CASE ChromiumLingers
    BY <1>10 DEF ChromiumLingers
  <1>11. CASE CloseTakes
    BY <1>11 DEF CloseTakes
  <1>12. CASE CloseSeesExit
    BY <1>12 DEF CloseSeesExit
  <1>13. CASE CloseKills
    BY <1>13 DEF CloseKills
  <1>14. CASE CloseRemoves
    BY <1>14 DEF CloseRemoves
  <1>15. ASSUME NEW b \in Browsers, ReaderStops(b)
         PROVE  RecoveryInv'
    BY <1>15 DEF ReaderStops
  <1>16. CASE WriteFails
    BY <1>16 DEF WriteFails
  <1>17. CASE Crash
    BY <1>17 DEF Crash
  <1>18. CASE Tick
    BY <1>18 DEF Tick
  <1>19. CASE Touch
    BY <1>19 DEF Touch
  <1>20. CASE UNCHANGED recoveryVars
    BY <1>20 DEF recoveryVars
  <1> QED
    BY <1>1, <1>2, <1>3, <1>4, <1>5, <1>6, <1>7, <1>8, <1>9, <1>10, <1>11, <1>12, <1>13,
       <1>14, <1>15, <1>16, <1>17, <1>18, <1>19, <1>20, RecoverySteps

(* The invariant bounds the set of driven Browsers by a singleton.          *)
LEMMA RecoveryInvImplies == RecoveryInv => OneChromiumPerProfile
  <1> SUFFICES ASSUME RecoveryInv
               PROVE  OneChromiumPerProfile
    OBVIOUS
  <1> DEFINE D == {b \in Browsers : process[b] = "up" /\ reading[b]}
  <1>1. D \subseteq {launched}
    BY DEF RecoveryInv, OnlyTheLastIsDriven, Driven
  <1>2. IsFiniteSet({launched}) /\ Cardinality({launched}) = 1
    BY FS_Singleton
  <1>3. Cardinality(D) <= 1
    BY <1>1, <1>2, FS_Subset
  <1> QED
    BY <1>3 DEF OneChromiumPerProfile

(* What the tasks of a session's recovery keep true, whatever fails.        *)
THEOREM RecoveryInvariance == RecoverySpec => []RecoveryInv
  BY RecoveryInitInv, RecoveryStepInv, PTL DEF RecoverySpec

(* Across crashes, broken connections, failed launches, failed reattaches   *)
(* and teardowns in any order, the broker never drives two Chromiums on one *)
(* user-data-dir: respawn_browser runs only when the last connection ended. *)
THEOREM OneChromiumSafety == RecoverySpec => []OneChromiumPerProfile
  BY RecoveryInvariance, RecoveryInvImplies, PTL

=============================================================================
