------------------------ MODULE BrokerSessionsProofs ------------------------
(***************************************************************************)
(* The lifecycle tasks of sessions: what an entry's slot holds, what a task *)
(* has counted and where events go, for any number of connections, session  *)
(* ids and tasks and any queue capacity; and what a tool call has asked for *)
(* by the time its handler acts, for any methods and arguments.             *)
(***************************************************************************)
EXTENDS BrokerSessions, ToolPath, FiniteSetTheorems, FunctionTheorems, SequenceTheorems, TLAPS

\* A task nobody has spawned has no messages and no handles.
TasksKnown ==
    /\ \A k \in Tasks : k >= nextTask => phase[k] = "none"
    /\ \A k \in Tasks : phase[k] = "none" => mbox[k] = <<>>
    /\ \A k \in Tasks : phase[k] # "none" => owner[k] \in Sids
    /\ \A c \in Conns : handle[c] # None => phase[handle[c]] # "none"
    /\ \A c \in Conns : picked[c] # None => phase[picked[c]] # "none"

\* What a handler needs for its next await is in its hands.
HandlersHold ==
    \A c \in Conns :
        /\ pc[c] \in {"launching", "lookup", "notify"} => target[c] \in Sids
        /\ pc[c] \in {"notify", "unregister"} => picked[c] \in Tasks
        /\ pc[c] = "cleanup" => handle[c] \in Tasks

\* The inductive invariant.
Inv ==
    /\ TypeOK
    /\ TasksKnown
    /\ HandlersHold
    /\ SlotHoldsItsTask
    /\ NeverUndercounted

----------------------------------------------------------------------------
(* Counting occurrences in a queue                                          *)

Occurrences(q, m) == {i \in DOMAIN q : q[i] = m}

(* The places of a message in a queue are finitely many.                    *)
LEMMA OccurrencesFinite ==
    ASSUME NEW S, NEW q \in Seq(S), NEW m
    PROVE  IsFiniteSet(Occurrences(q, m)) /\ Cardinality(Occurrences(q, m)) \in Nat
  <1>1. IsFiniteSet(1..Len(q))
    BY FS_Interval, LenProperties
  <1>2. Occurrences(q, m) \subseteq 1..Len(q)
    BY LenProperties DEF Occurrences
  <1>3. IsFiniteSet(Occurrences(q, m))
    BY <1>1, <1>2, FS_Subset
  <1> QED
    BY <1>3, FS_CardinalityType

(* A send adds one occurrence of what is sent.                              *)
LEMMA OccurrencesAppend ==
    ASSUME NEW S, NEW q \in Seq(S), NEW x \in S, NEW m
    PROVE  Cardinality(Occurrences(Append(q, x), m)) =
             Cardinality(Occurrences(q, m)) + (IF x = m THEN 1 ELSE 0)
  <1> DEFINE n == Len(q) + 1
  <1>1. IsFiniteSet(Occurrences(q, m)) /\ Cardinality(Occurrences(q, m)) \in Nat
    BY OccurrencesFinite
  <1>2. n \notin Occurrences(q, m)
    BY LenProperties DEF Occurrences
  <1>3. CASE x = m
    <2>1. Occurrences(Append(q, x), m) = Occurrences(q, m) \cup {n}
      BY <1>3, AppendProperties, LenProperties DEF Occurrences
    <2> QED
      BY <1>1, <1>2, <1>3, <2>1, FS_AddElement
  <1>4. CASE x # m
    <2>1. Occurrences(Append(q, x), m) = Occurrences(q, m)
      BY <1>4, AppendProperties, LenProperties DEF Occurrences
    <2> QED
      BY <1>1, <1>4, <2>1
  <1> QED
    BY <1>3, <1>4

(* A receive removes one occurrence of what is received.                    *)
LEMMA OccurrencesTail ==
    ASSUME NEW S, NEW q \in Seq(S), q # <<>>, NEW m
    PROVE  Cardinality(Occurrences(Tail(q), m)) =
             Cardinality(Occurrences(q, m)) - (IF Head(q) = m THEN 1 ELSE 0)
  <1> DEFINE T == Occurrences(Tail(q), m)
             R == Occurrences(q, m) \ {1}
             f == [i \in T |-> i + 1]
  <1>1. /\ Tail(q) \in Seq(S) /\ Len(Tail(q)) = Len(q) - 1 /\ Len(q) \in Nat \ {0}
        /\ \A i \in 1..Len(Tail(q)) : Tail(q)[i] = q[i + 1]
    BY HeadTailProperties, LenProperties, EmptySeq
  <1>2. T \subseteq 1..Len(Tail(q)) /\ Occurrences(q, m) \subseteq 1..Len(q)
    BY <1>1, LenProperties DEF Occurrences
  <1>3. f \in [T -> R]
    <2> SUFFICES ASSUME NEW i \in T
                 PROVE  i + 1 \in R
      OBVIOUS
    <2> QED
      BY <1>1, <1>2, LenProperties DEF Occurrences
  <1>4. \A a, b \in T : f[a] = f[b] => a = b
    BY <1>2
  <1>5. \A j \in R : \E i \in T : f[i] = j
    <2> SUFFICES ASSUME NEW j \in R
                 PROVE  \E i \in T : f[i] = j
      OBVIOUS
    <2>1. j - 1 \in T
      BY <1>1, <1>2, LenProperties DEF Occurrences
    <2> QED
      BY <1>2, <2>1
  <1>6. ExistsBijection(T, R)
    <2> HIDE DEF f, T, R
    <2>1. f \in Bijection(T, R)
      BY <1>3, <1>4, <1>5, Fun_IsBij
    <2> QED
      BY <2>1 DEF ExistsBijection
  <1>7. IsFiniteSet(T) /\ IsFiniteSet(Occurrences(q, m))
    BY <1>1, OccurrencesFinite
  <1>8. Cardinality(R) = Cardinality(T)
    BY <1>6, <1>7, FS_Bijection
  <1>9. 1 \in Occurrences(q, m) <=> Head(q) = m
    BY <1>1, LenProperties, HeadTailProperties DEF Occurrences
  <1>10. Cardinality(R) = IF Head(q) = m THEN Cardinality(Occurrences(q, m)) - 1
                                         ELSE Cardinality(Occurrences(q, m))
    BY <1>7, <1>9, FS_RemoveElement
  <1>11. Cardinality(Occurrences(q, m)) \in Nat
    BY <1>7, FS_CardinalityType
  <1> QED
    BY <1>8, <1>10, <1>11

----------------------------------------------------------------------------
(* One step is a step of a connection's handler, of its client or of a      *)
(* lifecycle task.                                                          *)
LEMMA NextSteps ==
    ASSUME [Next]_vars
    PROVE  \/ \E c \in Conns :
                 \/ LaunchFails(c) \/ LaunchSucceeds(c) \/ RegisterNew(c) \/ RegisterExisting(c)
                 \/ LookupMisses(c) \/ LookupReuses(c) \/ LookupSpawns(c) \/ NotifyConnected(c)
                 \/ UnregisterTakes(c) \/ UnregisterSends(c) \/ UnregisterRemoves(c)
                 \/ Disconnect(c) \/ NotifyDisconnected(c) \/ ReadError(c)
           \/ \E k \in Tasks :
                 \/ TaskConnected(k) \/ TaskDisconnected(k) \/ TaskShutdown(k)
                 \/ TaskDrainElapses(k) \/ TaskChannelCloses(k)
                 \/ TaskClearsSlot(k) \/ TaskRemoves(k)
           \/ UNCHANGED vars
  BY DEF Next, Handler, Client, LifecycleTask

(* A send leaves every mailbox a queue of messages, and touches one that    *)
(* is being read.                                                           *)
LEMMA SentMailbox ==
    ASSUME TypeOK, NEW k \in Tasks, NEW m \in Messages, mbox' = Sent(k, m)
    PROVE  /\ mbox' \in [Tasks -> Seq(Messages)]
           /\ mbox'[k] = IF phase[k] = "run" THEN Append(mbox[k], m) ELSE mbox[k]
           /\ \A j \in Tasks \ {k} : mbox'[j] = mbox[j]
  <1>1. Append(mbox[k], m) \in Seq(Messages)
    BY AppendProperties DEF TypeOK
  <1> QED
    BY <1>1 DEF TypeOK, Sent

(* So does a receive.                                                       *)
LEMMA ReceivedMailbox ==
    ASSUME TypeOK, NEW k \in Tasks, NEW m, Receives(k, m)
    PROVE  /\ mbox' \in [Tasks -> Seq(Messages)]
           /\ mbox'[k] = Tail(mbox[k])
           /\ \A j \in Tasks \ {k} : mbox'[j] = mbox[j]
  <1>1. Tail(mbox[k]) \in Seq(Messages)
    BY HeadTailProperties DEF TypeOK, Receives
  <1> QED
    BY <1>1 DEF TypeOK, Receives

(* The task in a slot is one that was spawned.                              *)
LEMMA SlotTask ==
    ASSUME TypeOK, SlotHoldsItsTask, NEW s \in Sids, slot[s] # None
    PROVE  slot[s] \in Tasks /\ owner[slot[s]] = s /\ phase[slot[s]] # "none"
  <1>1. slot[s] \in Tasks
    BY DEF TypeOK
  <1>2. owner[slot[s]] = s /\ phase[slot[s]] \in {"run", "exiting"}
    BY DEF SlotHoldsItsTask
  <1> QED
    BY <1>1, <1>2

(* A spawned task is one of those counted by nextTask.                      *)
LEMMA SpawnedTask ==
    ASSUME TypeOK, TasksKnown, NEW k \in Tasks, phase[k] # "none"
    PROVE  k < nextTask /\ owner[k] \in Sids
  BY DEF TypeOK, TasksKnown, Tasks

(* A spawned task that moves on remains known.                              *)
LEMMA PhaseMoves ==
    ASSUME TypeOK, TasksKnown, NEW k \in Tasks, phase[k] # "none",
           NEW p \in {"run", "exiting", "teardown", "done"},
           phase' = [phase EXCEPT ![k] = p],
           \A j \in Tasks \ {k} : mbox'[j] = mbox[j],
           UNCHANGED <<nextTask, owner, handle, picked>>
    PROVE  TasksKnown'
  <1>1. /\ phase'[k] = p /\ p # "none"
        /\ \A j \in Tasks \ {k} : phase'[j] = phase[j]
    BY DEF TypeOK
  <1>2. \A j \in Tasks : phase'[j] = "none" <=> phase[j] = "none"
    BY <1>1
  <1>3. \A c \in Conns : /\ handle[c] # None => handle[c] \in Tasks
                         /\ picked[c] # None => picked[c] \in Tasks
    BY DEF TypeOK
  <1> QED
    BY <1>2, <1>3 DEF TasksKnown

(* SessionLifecycle::spawn takes a task nobody refers to.                   *)
LEMMA SpawnIsFresh ==
    ASSUME TypeOK, TasksKnown, HandlersHold, NEW c \in Conns, LookupSpawns(c)
    PROVE  /\ target[c] \in Sids /\ nextTask \in Tasks /\ phase[nextTask] = "none"
           /\ nextTask' = nextTask + 1
           /\ phase'[nextTask] = "run" /\ owner'[nextTask] = target[c]
           /\ slot'[target[c]] = nextTask /\ picked'[c] = nextTask
           /\ \A k \in Tasks \ {nextTask} : phase'[k] = phase[k] /\ owner'[k] = owner[k]
           /\ \A s \in Sids \ {target[c]} : slot'[s] = slot[s]
           /\ \A d \in Conns \ {c} : picked'[d] = picked[d]
  <1>1. target[c] \in Sids /\ nextTask \in Tasks
    BY DEF LookupSpawns, HandlersHold
  <1>2. phase[nextTask] = "none"
    BY <1>1 DEF TasksKnown, TypeOK, Tasks
  <1> QED
    BY <1>1, <1>2 DEF LookupSpawns, TypeOK

(* Every step preserves the types.                                          *)
LEMMA TypeStep ==
    ASSUME TypeOK, HandlersHold, TasksKnown, [Next]_vars
    PROVE  TypeOK'
  <1> USE SessionsAssumption
      DEF TypeOK, HandlersHold, TasksKnown, Sids, Tasks, None, Messages, entryVars, connVars, taskVars
  <1>1. ASSUME NEW c \in Conns, LaunchFails(c)
        PROVE  TypeOK'
    BY <1>1 DEF LaunchFails
  <1>2. ASSUME NEW c \in Conns, LaunchSucceeds(c)
        PROVE  TypeOK'
    BY <1>2 DEF LaunchSucceeds
  <1>3. ASSUME NEW c \in Conns, RegisterNew(c)
        PROVE  TypeOK'
    BY <1>3 DEF RegisterNew, MayRegister
  <1>4. ASSUME NEW c \in Conns, RegisterExisting(c)
        PROVE  TypeOK'
    BY <1>4 DEF RegisterExisting, MayRegister
  <1>5. ASSUME NEW c \in Conns, LookupMisses(c)
        PROVE  TypeOK'
    BY <1>5 DEF LookupMisses
  <1>6. ASSUME NEW c \in Conns, LookupReuses(c)
        PROVE  TypeOK'
    BY <1>6 DEF LookupReuses
  <1>7. ASSUME NEW c \in Conns, LookupSpawns(c)
        PROVE  TypeOK'
    <2>1. target[c] \in Sids /\ nextTask \in Tasks /\ nextTask' \in 1..(MaxTasks + 1)
      BY <1>7 DEF LookupSpawns
    <2>2. owner' \in [Tasks -> Sids \cup {None}] /\ slot' \in [Sids -> Tasks \cup {None}]
      BY <1>7, <2>1 DEF LookupSpawns
    <2>3. picked' \in [Conns -> Tasks \cup {None}]
      BY <1>7, <2>1 DEF LookupSpawns
    <2>4. phase' \in [Tasks -> {"none", "run", "exiting", "teardown", "done"}]
      BY <1>7, <2>1 DEF LookupSpawns
    <2> QED
      BY <1>7, <2>1, <2>2, <2>3, <2>4 DEF LookupSpawns
  <1>8. ASSUME NEW c \in Conns, NotifyConnected(c)
        PROVE  TypeOK'
    <2>1. picked[c] \in Tasks /\ "Connected" \in Messages
      BY <1>8 DEF NotifyConnected
    <2>2. mbox' \in [Tasks -> Seq(Messages)]
      BY <1>8, <2>1, SentMailbox DEF NotifyConnected
    <2> QED
      BY <1>8, <2>2 DEF NotifyConnected
  <1>9. ASSUME NEW c \in Conns, UnregisterTakes(c)
        PROVE  TypeOK'
    BY <1>9 DEF UnregisterTakes
  <1>10. ASSUME NEW c \in Conns, UnregisterSends(c)
        PROVE  TypeOK'
    <2>1. picked[c] \in Tasks /\ "Shutdown" \in Messages
      BY <1>10 DEF UnregisterSends
    <2>2. mbox' \in [Tasks -> Seq(Messages)]
      BY <1>10, <2>1, SentMailbox DEF UnregisterSends
    <2> QED
      BY <1>10, <2>2 DEF UnregisterSends
  <1>11. ASSUME NEW c \in Conns, UnregisterRemoves(c)
        PROVE  TypeOK'
    BY <1>11 DEF UnregisterRemoves
  <1>12. ASSUME NEW c \in Conns, Disconnect(c)
        PROVE  TypeOK'
    BY <1>12 DEF Disconnect
  <1>13. ASSUME NEW c \in Conns, NotifyDisconnected(c)
        PROVE  TypeOK'
    <2>1. handle[c] \in Tasks /\ "Disconnected" \in Messages
      BY <1>13 DEF NotifyDisconnected
    <2>2. mbox' \in [Tasks -> Seq(Messages)]
      BY <1>13, <2>1, SentMailbox DEF NotifyDisconnected
    <2> QED
      BY <1>13, <2>2 DEF NotifyDisconnected
  <1>14. ASSUME NEW c \in Conns, ReadError(c)
        PROVE  TypeOK'
    BY <1>14 DEF ReadError
  <1>15. ASSUME NEW k \in Tasks, TaskConnected(k)
        PROVE  TypeOK'
    <2>1. mbox' \in [Tasks -> Seq(Messages)]
      BY <1>15, ReceivedMailbox DEF TaskConnected
    <2>2. count' \in [Tasks -> Nat] /\ drain' \in [Tasks -> BOOLEAN]
      BY <1>15 DEF TaskConnected
    <2> QED
      BY <1>15, <2>1, <2>2 DEF TaskConnected
  <1>16. ASSUME NEW k \in Tasks, TaskDisconnected(k)
        PROVE  TypeOK'
    <2>1. mbox' \in [Tasks -> Seq(Messages)]
      BY <1>16, ReceivedMailbox DEF TaskDisconnected
    <2>2. (IF count[k] = 0 THEN 0 ELSE count[k] - 1) \in Nat
      OBVIOUS
    <2>3. count' \in [Tasks -> Nat] /\ drain' \in [Tasks -> BOOLEAN]
      BY <1>16, <2>2 DEF TaskDisconnected
    <2> QED
      BY <1>16, <2>1, <2>3 DEF TaskDisconnected
  <1>17. ASSUME NEW k \in Tasks, TaskShutdown(k)
        PROVE  TypeOK'
    <2>1. mbox' \in [Tasks -> Seq(Messages)]
      BY <1>17, ReceivedMailbox DEF TaskShutdown
    <2> QED
      BY <1>17, <2>1 DEF TaskShutdown
  <1>18. ASSUME NEW k \in Tasks, TaskDrainElapses(k)
        PROVE  TypeOK'
    BY <1>18 DEF TaskDrainElapses
  <1>19. ASSUME NEW k \in Tasks, TaskChannelCloses(k)
        PROVE  TypeOK'
    BY <1>19 DEF TaskChannelCloses
  <1>20. ASSUME NEW k \in Tasks, TaskClearsSlot(k)
        PROVE  TypeOK'
    BY <1>20 DEF TaskClearsSlot
  <1>21. ASSUME NEW k \in Tasks, TaskRemoves(k)
        PROVE  TypeOK'
    BY <1>21 DEF TaskRemoves
  <1>22. CASE UNCHANGED vars
    BY <1>22 DEF vars
  <1> QED
    BY <1>1, <1>2, <1>3, <1>4, <1>5, <1>6, <1>7, <1>8, <1>9, <1>10, <1>11, <1>12,
       <1>13, <1>14, <1>15, <1>16, <1>17, <1>18, <1>19, <1>20, <1>21, <1>22, NextSteps

(* Every step keeps the handlers and the tasks in order.                    *)
LEMMA BooksStep ==
    ASSUME TypeOK, HandlersHold, TasksKnown, SlotHoldsItsTask, [Next]_vars
    PROVE  TasksKnown' /\ HandlersHold'
  <1> USE SessionsAssumption
      DEF TypeOK, HandlersHold, TasksKnown, SlotHoldsItsTask, Sids, Tasks, None, Messages, entryVars, connVars, taskVars
  <1>1. ASSUME NEW c \in Conns, LaunchFails(c)
        PROVE  TasksKnown' /\ HandlersHold'
    BY <1>1 DEF LaunchFails
  <1>2. ASSUME NEW c \in Conns, LaunchSucceeds(c)
        PROVE  TasksKnown' /\ HandlersHold'
    BY <1>2 DEF LaunchSucceeds
  <1>3. ASSUME NEW c \in Conns, RegisterNew(c)
        PROVE  TasksKnown' /\ HandlersHold'
    BY <1>3 DEF RegisterNew, MayRegister
  <1>4. ASSUME NEW c \in Conns, RegisterExisting(c)
        PROVE  TasksKnown' /\ HandlersHold'
    BY <1>4 DEF RegisterExisting, MayRegister
  <1>5. ASSUME NEW c \in Conns, LookupMisses(c)
        PROVE  TasksKnown' /\ HandlersHold'
    BY <1>5 DEF LookupMisses
  <1>6. ASSUME NEW c \in Conns, LookupReuses(c)
        PROVE  TasksKnown' /\ HandlersHold'
    <2>1. target[c] \in Sids /\ slot[target[c]] # None
      BY <1>6 DEF LookupReuses
    <2>2. slot[target[c]] \in Tasks /\ phase[slot[target[c]]] # "none"
      BY <2>1, SlotTask
    <2>3. \A k \in Tasks : k >= nextTask' => phase'[k] = "none"
      BY <1>6, <2>2 DEF LookupReuses
    <2>4. \A k \in Tasks : phase'[k] = "none" => mbox'[k] = <<>>
      BY <1>6, <2>2 DEF LookupReuses
    <2>5. \A k \in Tasks : phase'[k] # "none" => owner'[k] \in Sids
      BY <1>6, <2>2 DEF LookupReuses
    <2>6. \A d \in Conns : handle'[d] # None => phase'[handle'[d]] # "none"
      BY <1>6, <2>2 DEF LookupReuses
    <2>7. \A d \in Conns : picked'[d] # None => phase'[picked'[d]] # "none"
      BY <1>6, <2>2 DEF LookupReuses
    <2>8. TasksKnown'
      BY <2>3, <2>4, <2>5, <2>6, <2>7
    <2>9. HandlersHold'
      BY <1>6, <2>2 DEF LookupReuses
    <2> QED
      BY <2>8, <2>9
  <1>7. ASSUME NEW c \in Conns, LookupSpawns(c)
        PROVE  TasksKnown' /\ HandlersHold'
    <2> HIDE DEF Sids, TypeOK, TasksKnown, HandlersHold
    <2> DEFINE T == nextTask
    <2>1. /\ target[c] \in Sids /\ T \in Tasks /\ nextTask' = T + 1
          /\ phase'[T] = "run" /\ owner'[T] = target[c] /\ picked'[c] = T
          /\ \A k \in Tasks \ {T} : phase'[k] = phase[k] /\ owner'[k] = owner[k]
          /\ \A d \in Conns \ {c} : picked'[d] = picked[d]
          /\ UNCHANGED <<handle, mbox>>
      BY <1>7, SpawnIsFresh DEF LookupSpawns
    <2> HIDE DEF T
    <2>2. \A d \in Conns : /\ handle[d] # None => handle[d] \in Tasks
                           /\ picked[d] # None => picked[d] \in Tasks
      BY DEF TypeOK
    <2>3. \A k \in Tasks : k >= nextTask' => phase'[k] = "none"
      BY <2>1 DEF TasksKnown, T
    <2>4. \A k \in Tasks : phase'[k] = "none" => mbox'[k] = <<>>
      BY <2>1 DEF TasksKnown
    <2>5. \A k \in Tasks : phase'[k] # "none" => owner'[k] \in Sids
      BY <2>1 DEF TasksKnown
    <2>6. \A d \in Conns : handle'[d] # None => phase'[handle'[d]] # "none"
      BY <2>1, <2>2 DEF TasksKnown
    <2>7. \A d \in Conns : picked'[d] # None => phase'[picked'[d]] # "none"
      <3> SUFFICES ASSUME NEW d \in Conns, picked'[d] # None
                   PROVE  phase'[picked'[d]] # "none"
        OBVIOUS
      <3>1. CASE d = c
        BY <2>1, <3>1
      <3>2. CASE d # c
        BY <2>1, <2>2, <3>2 DEF TasksKnown
      <3> QED
        BY <3>1, <3>2
    <2>8. TasksKnown'
      BY <2>3, <2>4, <2>5, <2>6, <2>7 DEF TasksKnown
    <2>9. HandlersHold'
      BY <1>7, <2>1 DEF LookupSpawns, HandlersHold, TypeOK
    <2> QED
      BY <2>8, <2>9
  <1>8. ASSUME NEW c \in Conns, NotifyConnected(c)
        PROVE  TasksKnown' /\ HandlersHold'
    BY <1>8, SMTT(30) DEF NotifyConnected, CanSend, Sent
  <1>9. ASSUME NEW c \in Conns, UnregisterTakes(c)
        PROVE  TasksKnown' /\ HandlersHold'
    <2>1. bound[c] \in Sids
      BY <1>9 DEF UnregisterTakes
    <2>2. slot[bound[c]] # None => slot[bound[c]] \in Tasks /\ phase[slot[bound[c]]] # "none"
      BY <2>1, SlotTask
    <2>3. \A k \in Tasks : k >= nextTask' => phase'[k] = "none"
      BY <1>9, <2>1, <2>2 DEF UnregisterTakes
    <2>4. \A k \in Tasks : phase'[k] = "none" => mbox'[k] = <<>>
      BY <1>9, <2>1, <2>2 DEF UnregisterTakes
    <2>5. \A k \in Tasks : phase'[k] # "none" => owner'[k] \in Sids
      BY <1>9, <2>1, <2>2 DEF UnregisterTakes
    <2>6. \A d \in Conns : handle'[d] # None => phase'[handle'[d]] # "none"
      BY <1>9, <2>1, <2>2 DEF UnregisterTakes
    <2>7. \A d \in Conns : picked'[d] # None => phase'[picked'[d]] # "none"
      BY <1>9, <2>1, <2>2 DEF UnregisterTakes
    <2>8. TasksKnown'
      BY <2>3, <2>4, <2>5, <2>6, <2>7
    <2>9. HandlersHold'
      BY <1>9, <2>1, <2>2 DEF UnregisterTakes
    <2> QED
      BY <2>8, <2>9
  <1>10. ASSUME NEW c \in Conns, UnregisterSends(c)
        PROVE  TasksKnown' /\ HandlersHold'
    BY <1>10 DEF UnregisterSends, CanSend, Sent
  <1>11. ASSUME NEW c \in Conns, UnregisterRemoves(c)
        PROVE  TasksKnown' /\ HandlersHold'
    BY <1>11 DEF UnregisterRemoves
  <1>12. ASSUME NEW c \in Conns, Disconnect(c)
        PROVE  TasksKnown' /\ HandlersHold'
    BY <1>12 DEF Disconnect
  <1>13. ASSUME NEW c \in Conns, NotifyDisconnected(c)
        PROVE  TasksKnown' /\ HandlersHold'
    BY <1>13 DEF NotifyDisconnected, CanSend, Sent
  <1>14. ASSUME NEW c \in Conns, ReadError(c)
        PROVE  TasksKnown' /\ HandlersHold'
    BY <1>14 DEF ReadError
  <1>15. ASSUME NEW k \in Tasks, TaskConnected(k)
        PROVE  TasksKnown' /\ HandlersHold'
    BY <1>15 DEF TaskConnected, Receives
  <1>16. ASSUME NEW k \in Tasks, TaskDisconnected(k)
        PROVE  TasksKnown' /\ HandlersHold'
    BY <1>16 DEF TaskDisconnected, Receives
  <1>17. ASSUME NEW k \in Tasks, TaskShutdown(k)
        PROVE  TasksKnown' /\ HandlersHold'
    <2>1. \A j \in Tasks \ {k} : mbox'[j] = mbox[j]
      BY <1>17, ReceivedMailbox DEF TaskShutdown
    <2>2. TasksKnown'
      BY <1>17, <2>1, PhaseMoves DEF TaskShutdown, Receives
    <2>3. HandlersHold'
      BY <1>17 DEF TaskShutdown
    <2> QED
      BY <2>2, <2>3
  <1>18. ASSUME NEW k \in Tasks, TaskDrainElapses(k)
        PROVE  TasksKnown' /\ HandlersHold'
    <2>1. TasksKnown'
      BY <1>18, PhaseMoves DEF TaskDrainElapses
    <2>3. HandlersHold'
      BY <1>18 DEF TaskDrainElapses
    <2> QED
      BY <2>1, <2>3
  <1>19. ASSUME NEW k \in Tasks, TaskChannelCloses(k)
        PROVE  TasksKnown' /\ HandlersHold'
    <2>1. TasksKnown'
      BY <1>19, PhaseMoves DEF TaskChannelCloses
    <2>3. HandlersHold'
      BY <1>19 DEF TaskChannelCloses
    <2> QED
      BY <2>1, <2>3
  <1>20. ASSUME NEW k \in Tasks, TaskClearsSlot(k)
        PROVE  TasksKnown' /\ HandlersHold'
    <2>1. TasksKnown'
      BY <1>20, PhaseMoves DEF TaskClearsSlot
    <2>3. HandlersHold'
      BY <1>20 DEF TaskClearsSlot
    <2> QED
      BY <2>1, <2>3
  <1>21. ASSUME NEW k \in Tasks, TaskRemoves(k)
        PROVE  TasksKnown' /\ HandlersHold'
    <2>1. TasksKnown'
      BY <1>21, PhaseMoves DEF TaskRemoves
    <2>3. HandlersHold'
      BY <1>21 DEF TaskRemoves
    <2> QED
      BY <2>1, <2>3
  <1>22. CASE UNCHANGED vars
    BY <1>22 DEF vars
  <1> QED
    BY <1>1, <1>2, <1>3, <1>4, <1>5, <1>6, <1>7, <1>8, <1>9, <1>10, <1>11, <1>12,
       <1>13, <1>14, <1>15, <1>16, <1>17, <1>18, <1>19, <1>20, <1>21, <1>22, NextSteps

(* Every step keeps each slot with a task of its own entry.                 *)
LEMMA SlotStep ==
    ASSUME TypeOK, HandlersHold, TasksKnown, SlotHoldsItsTask, [Next]_vars
    PROVE  SlotHoldsItsTask'
  <1> USE SessionsAssumption
      DEF TypeOK, HandlersHold, TasksKnown, SlotHoldsItsTask, Sids, Tasks, None, Messages, entryVars, connVars, taskVars
  <1>1. ASSUME NEW c \in Conns, LaunchFails(c)
        PROVE  SlotHoldsItsTask'
    BY <1>1 DEF LaunchFails
  <1>2. ASSUME NEW c \in Conns, LaunchSucceeds(c)
        PROVE  SlotHoldsItsTask'
    BY <1>2 DEF LaunchSucceeds
  <1>3. ASSUME NEW c \in Conns, RegisterNew(c)
        PROVE  SlotHoldsItsTask'
    BY <1>3 DEF RegisterNew, MayRegister
  <1>4. ASSUME NEW c \in Conns, RegisterExisting(c)
        PROVE  SlotHoldsItsTask'
    BY <1>4 DEF RegisterExisting, MayRegister
  <1>5. ASSUME NEW c \in Conns, LookupMisses(c)
        PROVE  SlotHoldsItsTask'
    BY <1>5 DEF LookupMisses
  <1>6. ASSUME NEW c \in Conns, LookupReuses(c)
        PROVE  SlotHoldsItsTask'
    BY <1>6 DEF LookupReuses
  <1>7. ASSUME NEW c \in Conns, LookupSpawns(c)
        PROVE  SlotHoldsItsTask'
    <2> HIDE DEF Sids, Tasks, TypeOK, TasksKnown, HandlersHold, SlotHoldsItsTask
    <2>1. /\ nextTask \in Tasks /\ phase[nextTask] = "none"
          /\ phase'[nextTask] = "run" /\ owner'[nextTask] = target[c]
          /\ slot'[target[c]] = nextTask
          /\ \A k \in Tasks \ {nextTask} : phase'[k] = phase[k] /\ owner'[k] = owner[k]
          /\ \A s \in Sids \ {target[c]} : slot'[s] = slot[s]
      BY <1>7, SpawnIsFresh
    <2>2. ASSUME NEW s \in Sids, slot'[s] # None
          PROVE  owner'[slot'[s]] = s /\ phase'[slot'[s]] \in {"run", "exiting"}
      <3>1. CASE s = target[c]
        BY <2>1, <3>1
      <3>2. CASE s # target[c]
        <4>1. slot'[s] = slot[s]
          BY <2>1, <3>2
        <4>2. slot[s] \in Tasks /\ owner[slot[s]] = s /\ phase[slot[s]] # "none"
          BY <2>2, <4>1, SlotTask
        <4>3. phase[slot[s]] \in {"run", "exiting"}
          BY <2>2, <4>1 DEF SlotHoldsItsTask
        <4> QED
          BY <2>1, <4>1, <4>2, <4>3
      <3> QED
        BY <3>1, <3>2
    <2> QED
      BY <2>2 DEF SlotHoldsItsTask
  <1>8. ASSUME NEW c \in Conns, NotifyConnected(c)
        PROVE  SlotHoldsItsTask'
    BY <1>8 DEF NotifyConnected, CanSend, Sent
  <1>9. ASSUME NEW c \in Conns, UnregisterTakes(c)
        PROVE  SlotHoldsItsTask'
    BY <1>9 DEF UnregisterTakes
  <1>10. ASSUME NEW c \in Conns, UnregisterSends(c)
        PROVE  SlotHoldsItsTask'
    BY <1>10 DEF UnregisterSends, CanSend, Sent
  <1>11. ASSUME NEW c \in Conns, UnregisterRemoves(c)
        PROVE  SlotHoldsItsTask'
    BY <1>11 DEF UnregisterRemoves
  <1>12. ASSUME NEW c \in Conns, Disconnect(c)
        PROVE  SlotHoldsItsTask'
    BY <1>12 DEF Disconnect
  <1>13. ASSUME NEW c \in Conns, NotifyDisconnected(c)
        PROVE  SlotHoldsItsTask'
    BY <1>13 DEF NotifyDisconnected, CanSend, Sent
  <1>14. ASSUME NEW c \in Conns, ReadError(c)
        PROVE  SlotHoldsItsTask'
    BY <1>14 DEF ReadError
  <1>15. ASSUME NEW k \in Tasks, TaskConnected(k)
        PROVE  SlotHoldsItsTask'
    BY <1>15 DEF TaskConnected, Receives
  <1>16. ASSUME NEW k \in Tasks, TaskDisconnected(k)
        PROVE  SlotHoldsItsTask'
    BY <1>16 DEF TaskDisconnected, Receives
  <1>17. ASSUME NEW k \in Tasks, TaskShutdown(k)
        PROVE  SlotHoldsItsTask'
    BY <1>17 DEF TaskShutdown, Receives
  <1>18. ASSUME NEW k \in Tasks, TaskDrainElapses(k)
        PROVE  SlotHoldsItsTask'
    BY <1>18 DEF TaskDrainElapses
  <1>19. ASSUME NEW k \in Tasks, TaskChannelCloses(k)
        PROVE  SlotHoldsItsTask'
    BY <1>19 DEF TaskChannelCloses
  <1>20. ASSUME NEW k \in Tasks, TaskClearsSlot(k)
        PROVE  SlotHoldsItsTask'
    BY <1>20 DEF TaskClearsSlot
  <1>21. ASSUME NEW k \in Tasks, TaskRemoves(k)
        PROVE  SlotHoldsItsTask'
    BY <1>21 DEF TaskRemoves
  <1>22. CASE UNCHANGED vars
    BY <1>22 DEF vars
  <1> QED
    BY <1>1, <1>2, <1>3, <1>4, <1>5, <1>6, <1>7, <1>8, <1>9, <1>10, <1>11, <1>12,
       <1>13, <1>14, <1>15, <1>16, <1>17, <1>18, <1>19, <1>20, <1>21, <1>22, NextSteps

----------------------------------------------------------------------------
(* NeverUndercounted                                                        *)

Held(k) == Cardinality({c \in Conns : handle[c] = k})
Waiting(k, m) == Cardinality(Occurrences(mbox[k], m))
Covered(k) == Held(k) + Waiting(k, "Disconnected") <= count[k] + Waiting(k, "Connected")

(* The invariant, task by task.                                             *)
LEMMA CoveredEach ==
    NeverUndercounted <=> \A k \in Tasks : phase[k] = "run" => Covered(k)
  BY DEF NeverUndercounted, Covered, Held, Waiting, InQueue, Occurrences

(* The numbers in the invariant are natural numbers.                        *)
LEMMA CoveredNumbers ==
    ASSUME TypeOK, NEW k \in Tasks
    PROVE  /\ Held(k) \in Nat /\ count[k] \in Nat
           /\ Waiting(k, "Connected") \in Nat /\ Waiting(k, "Disconnected") \in Nat
  <1>1. Held(k) \in Nat
    BY SessionsAssumption, FS_Subset, FS_CardinalityType DEF Held
  <1>2. count[k] \in Nat /\ mbox[k] \in Seq(Messages)
    BY DEF TypeOK
  <1>3. \A m : Waiting(k, m) \in Nat
    BY <1>2, OccurrencesFinite DEF Waiting
  <1> QED
    BY <1>1, <1>2, <1>3

(* What one more message in the queue changes.                              *)
LEMMA WaitingAppend ==
    ASSUME TypeOK, NEW k \in Tasks, NEW x \in Messages, mbox'[k] = Append(mbox[k], x), NEW m
    PROVE  Waiting(k, m)' = Waiting(k, m) + (IF x = m THEN 1 ELSE 0)
  <1>1. mbox[k] \in Seq(Messages)
    BY DEF TypeOK
  <1> QED
    BY <1>1, OccurrencesAppend DEF Waiting

(* How the set of holders of a task moves when one handler's handle does.   *)
LEMMA HeldMoves ==
    ASSUME TypeOK, NEW c \in Conns, NEW h, handle' = [handle EXCEPT ![c] = h], NEW k
    PROVE  Held(k)' = Held(k) + (IF h = k /\ handle[c] # k THEN 1
                                 ELSE IF h # k /\ handle[c] = k THEN 0 - 1 ELSE 0)
  <1> DEFINE H == {d \in Conns : handle[d] = k}
             G == {d \in Conns : handle'[d] = k}
  <1>1. IsFiniteSet(H) /\ Cardinality(H) \in Nat
    BY SessionsAssumption, FS_Subset, FS_CardinalityType
  <1>2. handle'[c] = h /\ \A d \in Conns \ {c} : handle'[d] = handle[d]
    BY DEF TypeOK
  <1>3. CASE h = k
    <2>1. G = H \cup {c}
      BY <1>2, <1>3
    <2>2. Cardinality(G) = IF c \in H THEN Cardinality(H) ELSE Cardinality(H) + 1
      BY <1>1, <2>1, FS_AddElement
    <2> QED
      BY <1>1, <1>3, <2>2 DEF Held
  <1>4. CASE h # k
    <2>1. G = H \ {c}
      BY <1>2, <1>4
    <2>2. Cardinality(G) = IF c \in H THEN Cardinality(H) - 1 ELSE Cardinality(H)
      BY <1>1, <2>1, FS_RemoveElement
    <2> QED
      BY <1>1, <1>4, <2>2 DEF Held
  <1> QED
    BY <1>3, <1>4

(* A task whose queue, count and holders stand still stays covered.         *)
LEMMA CoveredStands ==
    ASSUME NEW k \in Tasks, Covered(k), UNCHANGED <<handle, count>>, mbox'[k] = mbox[k]
    PROVE  Covered(k)'
  BY DEF Covered, Held, Waiting

(* A bind adds a holder to one task, and "Connected" to that task's queue.  *)
LEMMA CoveredBind ==
    ASSUME TypeOK, HandlersHold, NEW c \in Conns, NotifyConnected(c),
           NEW k \in Tasks, phase[k] = "run", Covered(k)
    PROVE  Covered(k)'
  <1>1. picked[c] \in Tasks /\ "Connected" \in Messages
    BY DEF HandlersHold, NotifyConnected, Messages
  <1>2. /\ k = picked[c] => mbox'[k] = Append(mbox[k], "Connected")
        /\ k # picked[c] => mbox'[k] = mbox[k]
    BY <1>1, SentMailbox DEF NotifyConnected
  <1>3. Held(k)' = Held(k) + (IF picked[c] = k /\ handle[c] # k THEN 1
                              ELSE IF picked[c] # k /\ handle[c] = k THEN 0 - 1 ELSE 0)
    <2>1. handle' = [handle EXCEPT ![c] = picked[c]]
      BY DEF NotifyConnected
    <2> QED
      BY <2>1, HeldMoves
  <1>4. count'[k] = count[k]
    BY DEF NotifyConnected
  <1>5. CASE k # picked[c]
    <2>1. \A m : Waiting(k, m)' = Waiting(k, m)
      BY <1>2, <1>5 DEF Waiting
    <2>2. Held(k)' <= Held(k) /\ Held(k)' \in Int
      BY <1>3, <1>5, CoveredNumbers
    <2> QED
      BY <1>4, <2>1, <2>2, CoveredNumbers DEF Covered
  <1>6. CASE k = picked[c]
    <2>1. /\ Waiting(k, "Connected")' = Waiting(k, "Connected") + 1
          /\ Waiting(k, "Disconnected")' = Waiting(k, "Disconnected") + 0
      BY <1>1, <1>2, <1>6, WaitingAppend
    <2>2. Held(k)' <= Held(k) + 1 /\ Held(k)' \in Int
      BY <1>3, <1>6, CoveredNumbers
    <2> QED
      BY <1>4, <2>1, <2>2, CoveredNumbers DEF Covered
  <1> QED
    BY <1>5, <1>6

(* A goodbye takes the holder away and puts "Disconnected" in the queue.    *)
LEMMA CoveredGoodbye ==
    ASSUME TypeOK, HandlersHold, NEW c \in Conns, NotifyDisconnected(c),
           NEW k \in Tasks, phase[k] = "run", Covered(k)
    PROVE  Covered(k)'
  <1>1. handle[c] \in Tasks /\ "Disconnected" \in Messages /\ None # k
    BY SessionsAssumption DEF HandlersHold, NotifyDisconnected, Messages, Tasks, None
  <1>2. /\ k = handle[c] => mbox'[k] = Append(mbox[k], "Disconnected")
        /\ k # handle[c] => mbox'[k] = mbox[k]
    BY <1>1, SentMailbox DEF NotifyDisconnected
  <1>3. Held(k)' = Held(k) + (IF None = k /\ handle[c] # k THEN 1
                              ELSE IF None # k /\ handle[c] = k THEN 0 - 1 ELSE 0)
    <2>1. handle' = [handle EXCEPT ![c] = None]
      BY DEF NotifyDisconnected
    <2> QED
      BY <2>1, HeldMoves
  <1>4. count'[k] = count[k]
    BY DEF NotifyDisconnected
  <1>5. CASE k # handle[c]
    <2>1. \A m : Waiting(k, m)' = Waiting(k, m)
      BY <1>2, <1>5 DEF Waiting
    <2>2. Held(k)' = Held(k)
      BY <1>1, <1>3, <1>5, CoveredNumbers
    <2> QED
      BY <1>4, <2>1, <2>2, CoveredNumbers DEF Covered
  <1>6. CASE k = handle[c]
    <2>1. /\ Waiting(k, "Connected")' = Waiting(k, "Connected") + 0
          /\ Waiting(k, "Disconnected")' = Waiting(k, "Disconnected") + 1
      BY <1>1, <1>2, <1>6, WaitingAppend
    <2>2. Held(k)' = Held(k) - 1
      BY <1>1, <1>3, <1>6, CoveredNumbers
    <2> QED
      BY <1>4, <2>1, <2>2, CoveredNumbers DEF Covered
  <1> QED
    BY <1>5, <1>6

(* A connection that ends without cleanup only takes a holder away.         *)
LEMMA CoveredReadError ==
    ASSUME TypeOK, NEW c \in Conns, ReadError(c), NEW k \in Tasks, Covered(k)
    PROVE  Covered(k)'
  <1>1. None # k
    BY SessionsAssumption DEF Tasks, None
  <1>2. Held(k)' = Held(k) + (IF None = k /\ handle[c] # k THEN 1
                              ELSE IF None # k /\ handle[c] = k THEN 0 - 1 ELSE 0)
    BY HeldMoves DEF ReadError
  <1>3. count'[k] = count[k] /\ \A m : Waiting(k, m)' = Waiting(k, m)
    BY DEF ReadError, Waiting, taskVars
  <1>4. Held(k)' <= Held(k) /\ Held(k)' \in Int
    BY <1>1, <1>2, CoveredNumbers
  <1> QED
    BY <1>3, <1>4, CoveredNumbers DEF Covered

(* session.unregister's "Shutdown" is neither of the two.                   *)
LEMMA CoveredUnregister ==
    ASSUME TypeOK, HandlersHold, NEW c \in Conns, UnregisterSends(c),
           NEW k \in Tasks, phase[k] = "run", Covered(k)
    PROVE  Covered(k)'
  <1>1. picked[c] \in Tasks /\ "Shutdown" \in Messages
    BY DEF HandlersHold, UnregisterSends, Messages
  <1>2. /\ k = picked[c] => mbox'[k] = Append(mbox[k], "Shutdown")
        /\ k # picked[c] => mbox'[k] = mbox[k]
    BY <1>1, SentMailbox DEF UnregisterSends
  <1>3. UNCHANGED <<handle, count>>
    BY DEF UnregisterSends
  <1>4. CASE k # picked[c]
    BY <1>2, <1>3, <1>4, CoveredStands
  <1>5. CASE k = picked[c]
    <2>1. /\ Waiting(k, "Connected")' = Waiting(k, "Connected") + 0
          /\ Waiting(k, "Disconnected")' = Waiting(k, "Disconnected") + 0
      BY <1>1, <1>2, <1>5, WaitingAppend
    <2>2. Held(k)' = Held(k) /\ count'[k] = count[k]
      BY <1>3 DEF Held
    <2> QED
      BY <2>1, <2>2, CoveredNumbers DEF Covered
  <1> QED
    BY <1>4, <1>5

(* A task that receives moves one unit from its queue into its count.       *)
LEMMA CoveredReceive ==
    ASSUME TypeOK, NEW t \in Tasks, TaskConnected(t) \/ TaskDisconnected(t),
           NEW k \in Tasks, phase[k] = "run", Covered(k)
    PROVE  Covered(k)'
  <1>1. handle' = handle
    BY DEF TaskConnected, TaskDisconnected, connVars
  <1>2. PICK m \in {"Connected", "Disconnected"} :
             /\ Receives(t, m)
             /\ count' = [count EXCEPT ![t] = IF m = "Connected" THEN count[t] + 1
                                              ELSE IF count[t] = 0 THEN 0 ELSE count[t] - 1]
    BY DEF TaskConnected, TaskDisconnected
  <1>3. mbox'[t] = Tail(mbox[t]) /\ \A j \in Tasks \ {t} : mbox'[j] = mbox[j]
    BY <1>2, ReceivedMailbox
  <1>4. CASE k # t
    <2>1. count'[k] = count[k]
      BY <1>2, <1>4 DEF TypeOK
    <2> QED
      BY <1>1, <1>3, <1>4, <2>1 DEF Covered, Held, Waiting
  <1>5. CASE k = t
    <2>1. mbox[k] \in Seq(Messages) /\ mbox[k] # <<>> /\ Head(mbox[k]) = m
      BY <1>2, <1>5 DEF Receives, TypeOK
    <2>2. \A x : Waiting(k, x)' = Waiting(k, x) - (IF m = x THEN 1 ELSE 0)
      BY <1>3, <1>5, <2>1, OccurrencesTail DEF Waiting
    <2>3. count'[k] = IF m = "Connected" THEN count[k] + 1
                      ELSE IF count[k] = 0 THEN 0 ELSE count[k] - 1
      BY <1>2, <1>5 DEF TypeOK
    <2>4. Held(k)' = Held(k)
      BY <1>1 DEF Held
    <2>5. CASE m = "Connected"
      <3>1. /\ Waiting(k, "Connected")' = Waiting(k, "Connected") - 1
            /\ Waiting(k, "Disconnected")' = Waiting(k, "Disconnected") - 0
            /\ count'[k] = count[k] + 1
        BY <2>2, <2>3, <2>5
      <3> QED
        BY <2>4, <3>1, CoveredNumbers DEF Covered
    <2>6. CASE m = "Disconnected"
      <3>1. /\ Waiting(k, "Connected")' = Waiting(k, "Connected") - 0
            /\ Waiting(k, "Disconnected")' = Waiting(k, "Disconnected") - 1
        BY <2>2, <2>6
      <3>2. count'[k] >= count[k] - 1 /\ count'[k] \in Nat
        BY <2>3, <2>6, CoveredNumbers
      <3> QED
        BY <2>4, <3>1, <3>2, CoveredNumbers DEF Covered
    <2> QED
      BY <2>5, <2>6
  <1> QED
    BY <1>4, <1>5

(* Every step keeps every running task covered.                             *)
LEMMA CountStep ==
    ASSUME Inv, [Next]_vars
    PROVE  NeverUndercounted'
  <1> SUFFICES ASSUME NEW k \in Tasks, phase'[k] = "run"
               PROVE  Covered(k)'
    BY CoveredEach DEF NeverUndercounted, Covered, Held, Waiting, InQueue, Occurrences
  <1>1. TypeOK /\ TasksKnown /\ HandlersHold /\ NeverUndercounted
    BY DEF Inv
  <1>2. phase[k] = "run" => Covered(k)
    BY <1>1, CoveredEach
  <1>3. CASE phase[k] # "run"
    <2>1. PICK c \in Conns : LookupSpawns(c)
      <3> USE <1>1, <1>3 DEF TypeOK, entryVars, connVars, taskVars
      <3>1. ASSUME NEW c \in Conns
            PROVE  /\ ~(LaunchFails(c) \/ LaunchSucceeds(c) \/ RegisterNew(c))
                   /\ ~(RegisterExisting(c) \/ LookupMisses(c) \/ LookupReuses(c))
                   /\ ~(NotifyConnected(c) \/ UnregisterTakes(c) \/ UnregisterSends(c))
                   /\ ~(UnregisterRemoves(c) \/ Disconnect(c) \/ NotifyDisconnected(c))
                   /\ ~ReadError(c)
        BY DEF LaunchFails, LaunchSucceeds, RegisterNew, RegisterExisting, LookupMisses,
               LookupReuses, NotifyConnected, UnregisterTakes, UnregisterSends,
               UnregisterRemoves, Disconnect, NotifyDisconnected, ReadError
      <3>2. ASSUME NEW t \in Tasks
            PROVE  /\ ~(TaskConnected(t) \/ TaskDisconnected(t) \/ TaskShutdown(t))
                   /\ ~(TaskDrainElapses(t) \/ TaskChannelCloses(t))
                   /\ ~(TaskClearsSlot(t) \/ TaskRemoves(t))
        BY DEF TaskConnected, TaskDisconnected, TaskShutdown, TaskDrainElapses,
               TaskChannelCloses, TaskClearsSlot, TaskRemoves, Receives
      <3>3. ~UNCHANGED vars
        BY DEF vars
      <3> QED
        BY <3>1, <3>2, <3>3, NextSteps
    <2>2. k = nextTask /\ phase[k] = "none"
      BY <1>1, <1>3, <2>1, SpawnIsFresh
    <2>3. mbox[k] = <<>> /\ \A d \in Conns : handle[d] # k
      BY <1>1, <2>2, SessionsAssumption DEF TasksKnown, Tasks, None
    <2>4. UNCHANGED <<handle, mbox, count>>
      BY <2>1 DEF LookupSpawns
    <2>5. Held(k)' = 0
      <3>1. {d \in Conns : handle'[d] = k} = {}
        BY <2>3, <2>4
      <3> QED
        BY <3>1, FS_EmptySet DEF Held
    <2>6. \A m : Waiting(k, m)' = 0
      <3>1. \A m : Occurrences(mbox'[k], m) = {}
        BY <2>3, <2>4 DEF Occurrences
      <3> QED
        BY <3>1, FS_EmptySet DEF Waiting
    <2>7. count'[k] \in Nat
      BY <1>1, <2>4, CoveredNumbers
    <2> QED
      BY <2>5, <2>6, <2>7 DEF Covered
  <1>4. CASE phase[k] = "run"
    <2>1. Covered(k)
      BY <1>2, <1>4
    <2> USE <1>1, <1>4, <2>1 DEF entryVars, connVars, taskVars
    <2>2. ASSUME NEW c \in Conns,
                 \/ LaunchFails(c) \/ LaunchSucceeds(c) \/ RegisterNew(c)
                 \/ RegisterExisting(c) \/ LookupMisses(c) \/ LookupReuses(c)
                 \/ LookupSpawns(c) \/ UnregisterTakes(c) \/ UnregisterRemoves(c)
                 \/ Disconnect(c)
          PROVE  UNCHANGED <<handle, count, mbox>>
      BY <2>2 DEF LaunchFails, LaunchSucceeds, RegisterNew, RegisterExisting, LookupMisses,
             LookupReuses, LookupSpawns, UnregisterTakes, UnregisterRemoves, Disconnect
    <2>3. ASSUME NEW c \in Conns, NotifyConnected(c)
          PROVE  Covered(k)'
      BY <2>3, CoveredBind
    <2>4. ASSUME NEW c \in Conns, UnregisterSends(c)
          PROVE  Covered(k)'
      BY <2>4, CoveredUnregister
    <2>5. ASSUME NEW c \in Conns, NotifyDisconnected(c)
          PROVE  Covered(k)'
      BY <2>5, CoveredGoodbye
    <2>6. ASSUME NEW c \in Conns, ReadError(c)
          PROVE  Covered(k)'
      BY <2>6, CoveredReadError
    <2>7. ASSUME NEW t \in Tasks, TaskConnected(t) \/ TaskDisconnected(t)
          PROVE  Covered(k)'
      BY <2>7, CoveredReceive
    <2>8. ASSUME NEW t \in Tasks, TaskShutdown(t)
          PROVE  Covered(k)'
      <3>1. t # k /\ UNCHANGED <<handle, count>>
        BY <2>8 DEF TaskShutdown, TypeOK
      <3>2. mbox'[k] = mbox[k]
        BY <2>8, <3>1, ReceivedMailbox DEF TaskShutdown
      <3> QED
        BY <3>1, <3>2, CoveredStands
    <2>9. ASSUME NEW t \in Tasks,
                 \/ TaskDrainElapses(t) \/ TaskChannelCloses(t)
                 \/ TaskClearsSlot(t) \/ TaskRemoves(t)
          PROVE  UNCHANGED <<handle, count, mbox>>
      BY <2>9 DEF TaskDrainElapses, TaskChannelCloses, TaskClearsSlot, TaskRemoves
    <2>10. UNCHANGED vars => UNCHANGED <<handle, count, mbox>>
      BY DEF vars
    <2>11. UNCHANGED <<handle, count, mbox>> => Covered(k)'
      BY CoveredStands
    <2> QED
      BY <2>2, <2>3, <2>4, <2>5, <2>6, <2>7, <2>8, <2>9, <2>10, <2>11, NextSteps
  <1> QED
    BY <1>3, <1>4

(* A broker that has just started.                                          *)
LEMMA InitInv == Init => Inv
  <1> SUFFICES ASSUME Init
               PROVE  Inv
    OBVIOUS
  <1> USE SessionsAssumption DEF Init
  <1>1. TypeOK
    BY DEF TypeOK, Sids, Tasks, None, Messages
  <1>2. TasksKnown /\ HandlersHold /\ SlotHoldsItsTask
    BY DEF TasksKnown, HandlersHold, SlotHoldsItsTask
  <1>3. NeverUndercounted
    BY DEF NeverUndercounted
  <1> QED
    BY <1>1, <1>2, <1>3 DEF Inv

(* The invariant holds of every behaviour, whatever the clients do.         *)
THEOREM Invariance == Spec => []Inv
  <1>1. Inv /\ [Next]_vars => Inv'
    BY TypeStep, BooksStep, SlotStep, CountStep DEF Inv
  <1> QED
    BY <1>1, InitInv, PTL DEF Spec

(* However binds, goodbyes, unregisters and read errors interleave with the *)
(* lifecycle task's loop, its count plus its queue covers every handler     *)
(* bound through it, so it never drains a session under a connection it has *)
(* been told of.                                                            *)
THEOREM NeverUndercountedSafety == Spec => []NeverUndercounted
  BY Invariance, PTL DEF Inv

(* An entry's slot never holds a task of another session, nor one that has  *)
(* finished: a register that finds a handle there notifies a task that      *)
(* listens or is about to clear the slot.                                   *)
THEOREM SlotHoldsItsTaskSafety == Spec => []SlotHoldsItsTask
  BY Invariance, PTL DEF Inv

----------------------------------------------------------------------------
(* Where a session's events go                                              *)

\* A connection in the middle of a register has no session yet.
RegistersUnbound ==
    \A c \in Conns : pc[c] \in {"launching", "lookup", "notify"} => bound[c] = None

EventInv == Inv /\ RegistersUnbound /\ EventsGoToBoundConns

(* Clients that register once per connection, on sockets that end with EOF. *)
LEMMA EventStep ==
    ASSUME "rebind" \notin Behaviours, "read_error" \notin Behaviours,
           EventInv, [Next]_vars
    PROVE  RegistersUnbound' /\ EventsGoToBoundConns'
  <1> USE SessionsAssumption
      DEF EventInv, RegistersUnbound, EventsGoToBoundConns, Sids, None, entryVars, connVars, taskVars
  <1>1. TypeOK /\ HandlersHold
    BY DEF Inv
  <1>2. ASSUME NEW c \in Conns, LaunchFails(c)
        PROVE  RegistersUnbound' /\ EventsGoToBoundConns'
    BY <1>1, <1>2 DEF LaunchFails, TypeOK
  <1>3. ASSUME NEW c \in Conns, LaunchSucceeds(c)
        PROVE  RegistersUnbound' /\ EventsGoToBoundConns'
    BY <1>1, <1>3 DEF LaunchSucceeds, TypeOK
  <1>4. ASSUME NEW c \in Conns, RegisterNew(c)
        PROVE  RegistersUnbound' /\ EventsGoToBoundConns'
    BY <1>1, <1>4 DEF RegisterNew, TypeOK, MayRegister
  <1>5. ASSUME NEW c \in Conns, RegisterExisting(c)
        PROVE  RegistersUnbound' /\ EventsGoToBoundConns'
    BY <1>1, <1>5 DEF RegisterExisting, TypeOK, MayRegister
  <1>6. ASSUME NEW c \in Conns, LookupMisses(c)
        PROVE  RegistersUnbound' /\ EventsGoToBoundConns'
    BY <1>1, <1>6 DEF LookupMisses, TypeOK
  <1>7. ASSUME NEW c \in Conns, LookupReuses(c)
        PROVE  RegistersUnbound' /\ EventsGoToBoundConns'
    BY <1>1, <1>7 DEF LookupReuses, TypeOK
  <1>8. ASSUME NEW c \in Conns, LookupSpawns(c)
        PROVE  RegistersUnbound' /\ EventsGoToBoundConns'
    BY <1>1, <1>8 DEF LookupSpawns, TypeOK
  <1>9. ASSUME NEW c \in Conns, NotifyConnected(c)
        PROVE  RegistersUnbound' /\ EventsGoToBoundConns'
    BY <1>1, <1>9 DEF NotifyConnected, TypeOK, HandlersHold
  <1>10. ASSUME NEW c \in Conns, UnregisterTakes(c)
        PROVE  RegistersUnbound' /\ EventsGoToBoundConns'
    BY <1>1, <1>10 DEF UnregisterTakes, TypeOK
  <1>11. ASSUME NEW c \in Conns, UnregisterSends(c)
        PROVE  RegistersUnbound' /\ EventsGoToBoundConns'
    BY <1>1, <1>11 DEF UnregisterSends, TypeOK
  <1>12. ASSUME NEW c \in Conns, UnregisterRemoves(c)
        PROVE  RegistersUnbound' /\ EventsGoToBoundConns'
    BY <1>1, <1>12 DEF UnregisterRemoves, TypeOK
  <1>13. ASSUME NEW c \in Conns, Disconnect(c)
        PROVE  RegistersUnbound' /\ EventsGoToBoundConns'
    BY <1>1, <1>13 DEF Disconnect, TypeOK
  <1>14. ASSUME NEW c \in Conns, NotifyDisconnected(c)
        PROVE  RegistersUnbound' /\ EventsGoToBoundConns'
    BY <1>1, <1>14 DEF NotifyDisconnected, TypeOK
  <1>15. ASSUME NEW c \in Conns, ReadError(c)
        PROVE  RegistersUnbound' /\ EventsGoToBoundConns'
    BY <1>1, <1>15 DEF ReadError, TypeOK
  <1>16. ASSUME NEW k \in Tasks, TaskConnected(k)
        PROVE  RegistersUnbound' /\ EventsGoToBoundConns'
    BY <1>1, <1>16 DEF TaskConnected, TypeOK
  <1>17. ASSUME NEW k \in Tasks, TaskDisconnected(k)
        PROVE  RegistersUnbound' /\ EventsGoToBoundConns'
    BY <1>1, <1>17 DEF TaskDisconnected, TypeOK
  <1>18. ASSUME NEW k \in Tasks, TaskShutdown(k)
        PROVE  RegistersUnbound' /\ EventsGoToBoundConns'
    BY <1>1, <1>18 DEF TaskShutdown, TypeOK
  <1>19. ASSUME NEW k \in Tasks, TaskDrainElapses(k)
        PROVE  RegistersUnbound' /\ EventsGoToBoundConns'
    BY <1>1, <1>19 DEF TaskDrainElapses, TypeOK
  <1>20. ASSUME NEW k \in Tasks, TaskChannelCloses(k)
        PROVE  RegistersUnbound' /\ EventsGoToBoundConns'
    BY <1>1, <1>20 DEF TaskChannelCloses, TypeOK
  <1>21. ASSUME NEW k \in Tasks, TaskClearsSlot(k)
        PROVE  RegistersUnbound' /\ EventsGoToBoundConns'
    BY <1>1, <1>21 DEF TaskClearsSlot, TypeOK
  <1>22. ASSUME NEW k \in Tasks, TaskRemoves(k)
        PROVE  RegistersUnbound' /\ EventsGoToBoundConns'
    BY <1>1, <1>22 DEF TaskRemoves, TypeOK
  <1>23. CASE UNCHANGED vars
    BY <1>23 DEF vars
  <1> QED
    BY <1>2, <1>3, <1>4, <1>5, <1>6, <1>7, <1>8, <1>9, <1>10, <1>11, <1>12, <1>13,
       <1>14, <1>15, <1>16, <1>17, <1>18, <1>19, <1>20, <1>21, <1>22, <1>23, NextSteps

(* With one register per connection and no failing reads, a session's       *)
(* events are pushed only to a connection that is bound to it and has not   *)
(* begun to close: unbind_conn leaves no sender behind.                     *)
THEOREM EventsSafety ==
    ASSUME "rebind" \notin Behaviours, "read_error" \notin Behaviours
    PROVE  Spec => []EventsGoToBoundConns
  <1>1. Init => RegistersUnbound /\ EventsGoToBoundConns
    BY DEF Init, RegistersUnbound, EventsGoToBoundConns, Sids
  <1>2. Inv /\ RegistersUnbound /\ EventsGoToBoundConns /\ [Next]_vars
          => RegistersUnbound' /\ EventsGoToBoundConns'
    BY EventStep DEF EventInv
  <1> QED
    BY <1>1, <1>2, Invariance, PTL DEF Spec

----------------------------------------------------------------------------
(* Tool calls: inductive invariant                                          *)

\* A call carries the program of its method and arguments that are JSON.
Programmed(c) ==
    /\ c = [via |-> c.via, method |-> c.method, steps |-> c.steps, args |-> c.args, caps |-> c.caps,
            bound |-> c.bound, id |-> c.id]
    /\ c.via = "mcp" => IsTool(c.method)
    /\ c.steps = IF Known(c.method) THEN Handlers[c.method] ELSE <<>>
    /\ c.caps \subseteq Capabilities
JsonArgs(c) == \A f \in DOMAIN c.args : c.args[f] \in Json

\* Every step behind the handler that was not skipped found its capability or took its
\* argument.
RunsAt(i) == call.steps[i].when = "" \/ Value(call.steps[i].when) \in call.steps[i].is
IsGate(s) == s.gate # ""
IsRead(s) == s.arg # ""
IsAct(s) == s.acts # ""
PassedAt(i) ==
    RunsAt(i) => /\ IsGate(call.steps[i]) => call.steps[i].gate \in call.caps
                 /\ IsRead(call.steps[i]) => Value(call.steps[i].arg) \notin call.steps[i].bad
CallInv ==
    /\ stage # "idle" => Programmed(call)
    /\ stage \notin {"idle", "draft"} => JsonArgs(call)
    /\ stage \notin {"handler", "done"} => ip = 1 /\ acted = {}
    /\ stage = "handler" => ip \in Nat /\ ip >= 1 /\ \A i \in 1..(ip - 1) : PassedAt(i)
    /\ ActsHaveCapability

----------------------------------------------------------------------------
(* Tool calls: steps                                                        *)

LEMMA NamedCapabilities == \A c \in Capabilities : c # ""
  BY DEF Capabilities

LEMMA CallSteps ==
    ASSUME Programmed(call)
    PROVE  /\ call.steps \in Seq(StepRecords) /\ DOMAIN call.steps = 1..Len(call.steps)
           /\ Len(call.steps) \in Nat
           /\ \A i \in DOMAIN call.steps :
                  /\ call.steps[i] \in StepRecords
                  /\ IsGate(call.steps[i]) => ~IsRead(call.steps[i]) /\ ~IsAct(call.steps[i])
                  /\ IsRead(call.steps[i]) => ~IsAct(call.steps[i])
  <1>1. CASE Known(call.method)
    <2> DEFINE m == call.method
    <2>1. m \in DOMAIN Handlers /\ call.steps = Handlers[m]
      BY <1>1 DEF Programmed, Known
    <2> HIDE DEF m
    <2>2. /\ Handlers[m] \in Seq(StepRecords)
          /\ \A i \in DOMAIN Handlers[m] :
                 /\ IsGate(Handlers[m][i]) => ~IsRead(Handlers[m][i]) /\ ~IsAct(Handlers[m][i])
                 /\ IsRead(Handlers[m][i]) => ~IsAct(Handlers[m][i])
      BY <2>1, StepsAssumption, Zenon DEF IsGate, IsRead, IsAct
    <2> DEFINE h == Handlers[m]
    <2> HIDE DEF h
    <2>3. /\ h \in Seq(StepRecords)
          /\ \A i \in DOMAIN h :
                 /\ IsGate(h[i]) => ~IsRead(h[i]) /\ ~IsAct(h[i])
                 /\ IsRead(h[i]) => ~IsAct(h[i])
      BY <2>2 DEF h
    <2>4. DOMAIN h = 1..Len(h) /\ Len(h) \in Nat /\ \A i \in DOMAIN h : h[i] \in StepRecords
      <3>1. h \in Seq(StepRecords)
        BY <2>3
      <3> QED
        BY <3>1
    <2>5. call.steps = h
      BY <2>1 DEF h
    <2> QED
      BY <2>3, <2>4, <2>5, Zenon
  <1>2. CASE ~Known(call.method)
    <2>1. call.steps = <<>>
      BY <1>2 DEF Programmed
    <2> QED
      BY <2>1
  <1> QED
    BY <1>1, <1>2

(* The caller sends a call of its own making.                               *)
LEMMA SampleIsJson ==
    ASSUME NEW k, k \subseteq Json
    PROVE  Sample(k) \in Json
  <1>1. "null" \in Json
    BY ClassesAssumption
  <1>2. \E v \in k \cup {"null"} : k # {} => v \in k
    OBVIOUS
  <1>3. (CHOOSE v \in k \cup {"null"} : k # {} => v \in k) \in k \cup {"null"}
    BY <1>2
  <1> QED
    BY <1>1, <1>3 DEF Sample

LEMMA TypesAreJson ==
    ASSUME Programmed(call), NEW f
    PROVE  TypeOf(f) \subseteq Json
  <1>1. UNION {call.steps[i].ok : i \in {j \in Reads : call.steps[j].arg = f}} \subseteq Json
    <2>1. \A i \in Reads : i \in DOMAIN call.steps
      BY Zenon DEF Reads
    <2>2. \A i \in Reads : call.steps[i].ok \subseteq Json
      <3>1. \A s \in StepRecords : s.ok \subseteq Json
        BY DEF StepRecords
      <3> QED
        BY <2>1, <3>1, CallSteps
    <2> QED
      BY <2>2
  <1>2. ViaMcp => /\ f \in DOMAIN Schema.req => Schema.req[f] \subseteq Json
                  /\ f \in DOMAIN Schema.opt => Schema.opt[f] \subseteq Json
    BY SchemasAssumption DEF ViaMcp, Schema, Programmed, IsTool
  <1> QED
    BY <1>1, <1>2, Zenon DEF TypeOf

LEMMA SendOk ==
    ASSUME CallInv, stage = "draft", NEW c, Programmed(c), JsonArgs(c), Send(c)
    PROVE  CallInv'
  <1>1. /\ call' = c /\ stage' \in {"bridge", "router"} /\ UNCHANGED <<ip, acted>> /\ ip = 1 /\ acted = {}
    BY DEF Send, CallInv
  <1>2. Programmed(call)' /\ JsonArgs(call)'
    BY <1>1, Zenon DEF Programmed, JsonArgs, IsTool, Known
  <1>3. ActsHaveCapability'
    BY <1>1 DEF ActsHaveCapability
  <1> QED
    BY <1>1, <1>2, <1>3 DEF CallInv

LEMMA ArgsOk ==
    ASSUME Programmed(call), NEW fs
    PROVE  /\ \A f \in fs : Plain(fs)[f] \in Json
           /\ DOMAIN Plain(fs) = fs
           /\ \A f, v : v \in Json => \A g \in DOMAIN With(Plain(fs), f, v) : With(Plain(fs), f, v)[g] \in Json
           /\ \A f : \A g \in DOMAIN Without(Plain(fs), f) : Without(Plain(fs), f)[g] \in Json
  <1>1. DOMAIN Plain(fs) = fs /\ \A f \in fs : Plain(fs)[f] \in Json
    BY TypesAreJson, SampleIsJson DEF Plain
  <1> DEFINE p == Plain(fs)
  <1> HIDE DEF p
  <1>2. \A f \in DOMAIN p : p[f] \in Json
    BY <1>1 DEF p
  <1>3. ASSUME NEW f, NEW v \in Json
        PROVE  \A g \in DOMAIN With(p, f, v) : With(p, f, v)[g] \in Json
    BY <1>2 DEF With
  <1>4. ASSUME NEW f
        PROVE  \A g \in DOMAIN Without(p, f) : Without(p, f)[g] \in Json
    BY <1>2 DEF Without
  <1> QED
    BY <1>1, <1>3, <1>4 DEF p

(* Whatever arguments and capabilities it is sent with, it is the same      *)
(* call.                                                                    *)
LEMMA Resent ==
    ASSUME NEW c, Programmed(c)
    PROVE  /\ \A a : Programmed([c EXCEPT !.args = a]) /\ [c EXCEPT !.args = a].args = a
           /\ \A s \in SUBSET c.caps : Programmed([c EXCEPT !.caps = s])
           /\ \A b : Programmed([c EXCEPT !.bound = b]) /\ Programmed([c EXCEPT !.id = b])
  <1> DEFINE Rec(v, m, p, a, s, b, i) ==
                 [via |-> v, method |-> m, steps |-> p, args |-> a, caps |-> s, bound |-> b, id |-> i]
  <1>1. c = Rec(c.via, c.method, c.steps, c.args, c.caps, c.bound, c.id)
    BY DEF Programmed
  <1>2. /\ \A a : [c EXCEPT !.args = a] = Rec(c.via, c.method, c.steps, a, c.caps, c.bound, c.id)
        /\ \A s : [c EXCEPT !.caps = s] = Rec(c.via, c.method, c.steps, c.args, s, c.bound, c.id)
        /\ \A b : [c EXCEPT !.bound = b] = Rec(c.via, c.method, c.steps, c.args, c.caps, b, c.id)
        /\ \A b : [c EXCEPT !.id = b] = Rec(c.via, c.method, c.steps, c.args, c.caps, c.bound, b)
    BY <1>1
  <1>3. \A a, b, i : \A s \in SUBSET Capabilities :
            Programmed(Rec(c.via, c.method, c.steps, a, s, b, i))
    BY DEF Programmed
  <1>4. c.caps \subseteq Capabilities
    BY DEF Programmed
  <1>5. \A a : Rec(c.via, c.method, c.steps, a, c.caps, c.bound, c.id).args = a
    OBVIOUS
  <1> HIDE DEF Rec
  <1>6. ASSUME NEW a
        PROVE  Programmed([c EXCEPT !.args = a]) /\ [c EXCEPT !.args = a].args = a
    <2> DEFINE d == Rec(c.via, c.method, c.steps, a, c.caps, c.bound, c.id)
    <2>1. [c EXCEPT !.args = a] = d
      BY <1>2
    <2>2. Programmed(d) /\ d.args = a
      BY <1>3, <1>4, <1>5
    <2> QED
      BY <2>1, <2>2
  <1>7. ASSUME NEW s \in SUBSET c.caps
        PROVE  Programmed([c EXCEPT !.caps = s])
    <2>1. [c EXCEPT !.caps = s] = Rec(c.via, c.method, c.steps, c.args, s, c.bound, c.id)
      BY <1>2
    <2>2. Programmed(Rec(c.via, c.method, c.steps, c.args, s, c.bound, c.id))
      BY <1>3, <1>4
    <2> QED
      BY <2>1, <2>2
  <1>8. ASSUME NEW b
        PROVE  Programmed([c EXCEPT !.bound = b]) /\ Programmed([c EXCEPT !.id = b])
    <2>1. /\ [c EXCEPT !.bound = b] = Rec(c.via, c.method, c.steps, c.args, c.caps, b, c.id)
          /\ [c EXCEPT !.id = b] = Rec(c.via, c.method, c.steps, c.args, c.caps, c.bound, b)
      BY <1>2
    <2>2. /\ Programmed(Rec(c.via, c.method, c.steps, c.args, c.caps, b, c.id))
          /\ Programmed(Rec(c.via, c.method, c.steps, c.args, c.caps, c.bound, b))
      BY <1>3, <1>4
    <2> QED
      BY <2>1, <2>2
  <1> QED
    BY <1>6, <1>7, <1>8, Zenon

LEMMA SendSteps ==
    ASSUME CallInv, SendPlain \/ SendAltered \/ SendPoorly
    PROVE  CallInv'
  <1>1. stage = "draft" /\ Programmed(call)
    BY DEF SendPlain, SendAltered, SendPoorly, CallInv
  <1>2. ASSUME NEW c, Programmed(c), NEW a, \A f \in DOMAIN a : a[f] \in Json, Send([c EXCEPT !.args = a])
        PROVE  CallInv'
    <2>1. Programmed([c EXCEPT !.args = a]) /\ [c EXCEPT !.args = a].args = a
      BY <1>2, Resent
    <2>2. JsonArgs([c EXCEPT !.args = a])
      BY <1>2, <2>1 DEF JsonArgs
    <2> QED
      BY <1>1, <1>2, <2>1, <2>2, SendOk
  <1>3. CASE SendPlain
    <2>1. PICK fs : Send([call EXCEPT !.args = Plain(fs)])
      BY <1>3 DEF SendPlain
    <2>2. \A f \in DOMAIN Plain(fs) : Plain(fs)[f] \in Json
      BY <1>1, ArgsOk
    <2> QED
      BY <1>1, <1>2, <2>1, <2>2
  <1>4. CASE SendAltered
    <2>1. PICK fs, f : \/ \E v \in Tried(f) : Send([call EXCEPT !.args = With(Plain(fs), f, v)])
                       \/ Send([call EXCEPT !.args = Without(Plain(fs), f)])
      BY <1>4 DEF SendAltered
    <2>2. Tried(f) \subseteq Json
      BY <1>1, TypesAreJson, ClassesAssumption DEF Tried
    <2>3. ASSUME NEW v \in Tried(f), Send([call EXCEPT !.args = With(Plain(fs), f, v)])
          PROVE  CallInv'
      <3>1. \A g \in DOMAIN With(Plain(fs), f, v) : With(Plain(fs), f, v)[g] \in Json
        BY <1>1, <2>2, ArgsOk
      <3> QED
        BY <1>1, <1>2, <2>3, <3>1
    <2>4. ASSUME Send([call EXCEPT !.args = Without(Plain(fs), f)])
          PROVE  CallInv'
      <3>1. \A g \in DOMAIN Without(Plain(fs), f) : Without(Plain(fs), f)[g] \in Json
        BY <1>1, ArgsOk
      <3> QED
        BY <1>1, <1>2, <2>4, <3>1
    <2> QED
      BY <2>1, <2>3, <2>4
  <1>5. CASE SendPoorly
    <2>1. PICK c : /\ \/ \E cap \in Capabilities : c = [call EXCEPT !.caps = call.caps \ Lost(cap)]
                      \/ c = [call EXCEPT !.bound = FALSE]
                      \/ c = [call EXCEPT !.id = FALSE]
                   /\ Send([c EXCEPT !.args = Plain(Offered)])
      <3>1. PICK c \in {[call EXCEPT !.caps = @ \ Lost(cap)] : cap \in Capabilities}
                       \cup {[call EXCEPT !.bound = FALSE]}
                       \cup (IF ViaMcp THEN {} ELSE {[call EXCEPT !.id = FALSE]}) :
                   Send([c EXCEPT !.args = Plain(Offered)])
        BY <1>5 DEF SendPoorly
      <3>2. \A cap : [call EXCEPT !.caps = @ \ Lost(cap)] = [call EXCEPT !.caps = call.caps \ Lost(cap)]
        BY <1>1 DEF Programmed
      <3> QED
        BY <3>1, <3>2
    <2>2. Programmed(c)
      <3>1. \A cap : call.caps \ Lost(cap) \in SUBSET call.caps
        OBVIOUS
      <3>2. /\ \A r \in SUBSET call.caps : Programmed([call EXCEPT !.caps = r])
            /\ Programmed([call EXCEPT !.bound = FALSE]) /\ Programmed([call EXCEPT !.id = FALSE])
        BY <1>1, Resent
      <3> QED
        BY <2>1, <3>1, <3>2, Zenon
    <2>3. \A f \in DOMAIN Plain(Offered) : Plain(Offered)[f] \in Json
      BY <1>1, ArgsOk
    <2> QED
      BY <1>2, <2>1, <2>2, <2>3
  <1> QED
    BY <1>3, <1>4, <1>5

(* The handler goes on past a step it was not stopped by.                   *)
LEMMA Advance ==
    ASSUME CallInv, InHandler, PassedAt(ip), Next1, ActsHaveCapability'
    PROVE  CallInv'
  <1>1. /\ ip' = ip + 1 /\ UNCHANGED <<call, stage>> /\ stage = "handler"
        /\ Programmed(call) /\ JsonArgs(call) /\ ip \in Nat /\ ip >= 1 /\ \A i \in 1..(ip - 1) : PassedAt(i)
    BY DEF Next1, CallInv, InHandler
  <1>2. Programmed(call)' /\ JsonArgs(call)'
    BY <1>1, Zenon DEF Programmed, JsonArgs, IsTool, Known
  <1>3. \A i \in 1..(ip' - 1) : PassedAt(i)
    <2> TAKE i \in 1..(ip' - 1)
    <2>1. i = ip \/ i \in 1..(ip - 1)
      BY <1>1
    <2> QED
      BY <1>1, <2>1
  <1>4. \A i : PassedAt(i)' <=> PassedAt(i)
    BY <1>1, Zenon DEF PassedAt, RunsAt, Value
  <1>5. ip' \in Nat /\ ip' >= 1
    BY <1>1
  <1> QED
    BY <1>1, <1>2, <1>3, <1>4, <1>5 DEF CallInv

(* The handler, the router or the bridge answers.                           *)
LEMMA Answered ==
    ASSUME CallInv, stage # "idle", stage # "draft", stage' = "done", UNCHANGED <<call, ip>>, ActsHaveCapability'
    PROVE  CallInv'
  <1>1. Programmed(call)' /\ JsonArgs(call)'
    BY Zenon DEF CallInv, Programmed, JsonArgs, IsTool, Known
  <1> QED
    BY <1>1 DEF CallInv

(* An act comes after the gates and the confirmation it needs.              *)
LEMMA ActIsCovered ==
    ASSUME CallInv, InHandler, Runs, IsAct(Step)
    PROVE  /\ Needs[Step.acts] \subseteq call.caps
           /\ Step.acts \in {"focus", "raise"} => Value("confirm") = "bool"
  <1> DEFINE m == call.method
             p == call.steps
  <1>1. /\ Programmed(call) /\ JsonArgs(call) /\ ip \in Nat /\ ip >= 1 /\ ip <= Len(p)
        /\ \A i \in 1..(ip - 1) : PassedAt(i)
    BY DEF CallInv, InHandler
  <1>2. ip \in DOMAIN p /\ \A i \in 1..(ip - 1) : i \in DOMAIN p
    <2>1. DOMAIN p = 1..Len(p) /\ Len(p) \in Nat
      BY <1>1, CallSteps
    <2> HIDE DEF p
    <2> QED
      BY <1>1, <2>1
  <1>3. m \in DOMAIN Handlers /\ p = Handlers[m]
    <2>1. p # <<>>
      <3> HIDE DEF p
      <3>1. Len(p) # 0
        BY <1>1
      <3> QED
        BY <3>1
    <2> QED
      BY <1>1, <2>1 DEF Programmed, Known
  <1>4. IsAct(p[ip])
    BY DEF Step
  <1> HIDE DEF m, p
  <1>5. /\ \A c \in Needs[p[ip].acts] : \E g \in Before(p, ip) : g.gate = c
        /\ p[ip].acts \in {"focus", "raise"} =>
               \E g \in Before(p, ip) : g.arg = "confirm" /\ Values \ Bool \subseteq g.bad
    <2>1. \A k \in DOMAIN Handlers : \A i \in DOMAIN Handlers[k] : IsAct(Handlers[k][i]) =>
              /\ \A c \in Needs[Handlers[k][i].acts] : \E g \in Before(Handlers[k], i) : g.gate = c
              /\ Handlers[k][i].acts \in {"focus", "raise"} =>
                     \E g \in Before(Handlers[k], i) : g.arg = "confirm" /\ Values \ Bool \subseteq g.bad
      BY GatesAssumption, Zenon DEF IsAct
    <2> QED
      BY <1>2, <1>3, <1>4, <2>1
  <1>6. ASSUME NEW g \in Before(p, ip)
        PROVE  /\ IsGate(g) => g.gate \in call.caps
               /\ IsRead(g) => Value(g.arg) \notin g.bad
    <2>1. PICK k \in 1..(ip - 1) : g = p[k] /\ Covers(p[k], p[ip])
      BY DEF Before
    <2>2. RunsAt(k)
      <3>1. RunsAt(ip) /\ call.steps[ip] = p[ip] /\ call.steps[k] = p[k]
        BY Zenon DEF RunsAt, Runs, Step, p
      <3>2. CASE p[k].when = ""
        BY <3>1, <3>2, Zenon DEF RunsAt
      <3>3. CASE p[k].when = p[ip].when /\ p[ip].is \subseteq p[k].is
        <4>1. CASE p[ip].when = ""
          BY <3>1, <3>3, <4>1, Zenon DEF RunsAt
        <4>2. CASE Value(p[ip].when) \in p[ip].is
          <5>1. Value(p[k].when) \in p[k].is
            BY <3>3, <4>2
          <5> QED
            BY <3>1, <5>1, Zenon DEF RunsAt
        <4> QED
          BY <3>1, <4>1, <4>2, Zenon DEF RunsAt
      <3> QED
        BY <2>1, <3>2, <3>3, Zenon DEF Covers
    <2>3. PassedAt(k)
      BY <1>1
    <2> QED
      BY <2>1, <2>2, <2>3 DEF PassedAt, p
  <1>7. ASSUME NEW c \in Needs[p[ip].acts]
        PROVE  c \in call.caps
    <2>1. p[ip] \in StepRecords
      BY <1>1, <1>2, CallSteps DEF p
    <2>2. \A s \in StepRecords : IsAct(s) => s.acts \in DOMAIN Needs
      <3>1. \A s \in StepRecords : s.acts \in DOMAIN Needs \cup {""}
        BY DEF StepRecords
      <3> QED
        BY <3>1, Zenon DEF IsAct
    <2>3. p[ip].acts \in DOMAIN Needs
      BY <1>4, <2>1, <2>2
    <2>4. c \in Capabilities
      BY <1>7, <2>3, NeedsAssumption
    <2>5. PICK g \in Before(p, ip) : g.gate = c
      BY <1>5, <1>7
    <2>6. IsGate(g)
      BY <2>4, <2>5, NamedCapabilities, Zenon DEF IsGate
    <2> QED
      BY <1>6, <2>5, <2>6
  <1>8. ASSUME p[ip].acts \in {"focus", "raise"}
        PROVE  Value("confirm") = "bool"
    <2>1. PICK g \in Before(p, ip) : g.arg = "confirm" /\ Values \ Bool \subseteq g.bad
      BY <1>5, <1>8
    <2>3. IsRead(g)
      BY <2>1 DEF IsRead
    <2>4. Value("confirm") \notin Values \ Bool
      BY <1>6, <2>1, <2>3
    <2>2. Value("confirm") \in Values
      BY <1>1 DEF Value, JsonArgs, Values
    <2> QED
      BY <2>2, <2>4 DEF Bool
  <1> QED
    BY <1>7, <1>8 DEF Step, p

LEMMA HandlerSteps ==
    ASSUME CallInv, SkipStep \/ ReadParam \/ PassGate \/ LookupFinds \/ ActDone
    PROVE  CallInv'
  <1>1. InHandler /\ Next1 /\ UNCHANGED call
    BY DEF SkipStep, ReadParam, PassGate, LookupFinds, ActDone, Next1
  <1>2. /\ Programmed(call) /\ ip \in DOMAIN call.steps /\ Step = call.steps[ip] /\ (Runs <=> RunsAt(ip))
    <2>1. Programmed(call) /\ ip \in Nat /\ ip >= 1 /\ ip <= Len(call.steps)
      BY <1>1 DEF CallInv, InHandler
    <2>2. Runs <=> RunsAt(ip)
      BY DEF Runs, RunsAt, Step
    <2>3. DOMAIN call.steps = 1..Len(call.steps) /\ Len(call.steps) \in Nat
      BY <2>1, CallSteps
    <2>4. ip \in DOMAIN call.steps
      BY <2>1, <2>3
    <2> QED
      BY <2>1, <2>2, <2>4 DEF Step
  <1>3. PassedAt(ip)
    <2>1. IsGate(Step) => ~IsRead(Step) /\ ~IsAct(Step)
      BY <1>2, CallSteps
    <2>2. call.caps \subseteq Capabilities
      BY <1>2 DEF Programmed
    <2>3. CASE SkipStep
      BY <1>2, <2>3 DEF SkipStep, PassedAt
    <2>4. CASE ReadParam
      <3>1. IsRead(Step) /\ Value(Step.arg) \notin Step.bad
        BY <2>4, Zenon DEF ReadParam, IsRead
      <3> QED
        BY <1>2, <2>1, <3>1 DEF PassedAt
    <2>5. CASE PassGate
      <3>1. Step.gate \in call.caps
        BY <2>5, Zenon DEF PassGate
      <3>2. IsGate(Step)
        BY <2>2, <3>1, NamedCapabilities, Zenon DEF IsGate
      <3> QED
        BY <1>2, <2>1, <3>1, <3>2 DEF PassedAt
    <2>6. CASE LookupFinds \/ ActDone
      <3>1. (~IsRead(Step) /\ ~IsGate(Step)) \/ IsAct(Step)
        BY <2>6, Zenon DEF LookupFinds, IsTry, ActDone, IsRead, IsGate, IsAct
      <3>2. IsRead(Step) => ~IsAct(Step)
        BY <1>2, CallSteps
      <3> QED
        BY <1>2, <2>1, <3>1, <3>2 DEF PassedAt
    <2> QED
      BY <2>3, <2>4, <2>5, <2>6
  <1>4. ActsHaveCapability'
    <2>1. CASE ActDone
      <3>1. /\ Needs[Step.acts] \subseteq call.caps
            /\ Step.acts \in {"focus", "raise"} => Value("confirm") = "bool"
        <4>1. InHandler /\ Runs /\ IsAct(Step)
          BY <2>1, Zenon DEF ActDone, IsAct
        <4> QED
          BY <4>1, ActIsCovered
      <3>2. acted' = acted \cup {Step.acts} /\ Value("confirm")' = Value("confirm")
        BY <1>1, <2>1 DEF ActDone, Value
      <3> QED
        BY <1>1, <3>1, <3>2 DEF CallInv, ActsHaveCapability
    <2>2. CASE UNCHANGED acted
      BY <1>1, <2>2 DEF CallInv, ActsHaveCapability, Value
    <2> QED
      BY <2>1, <2>2 DEF SkipStep, ReadParam, PassGate, LookupFinds
  <1> QED
    BY <1>1, <1>3, <1>4, Advance

LEMMA AnswerSteps ==
    ASSUME CallInv, \/ RefuseParam \/ RefuseGate \/ LookupFails \/ ActFails \/ HandlerReturns
                    \/ BridgeRefuses \/ RouteNotification \/ RouteUnbound \/ RouteNoSession \/ RouteUnknown
    PROVE  CallInv'
  <1>1. /\ stage # "idle" /\ stage # "draft" /\ stage' = "done" /\ UNCHANGED <<call, ip>>
    BY DEF RefuseParam, RefuseGate, LookupFails, ActFails, HandlerReturns, BridgeRefuses, RouteNotification,
       RouteUnbound, RouteNoSession, RouteUnknown, InHandler, Refuse, Answer
  <1>2. ActsHaveCapability'
    <2>1. CASE ActFails
      <3>1. /\ Needs[Step.acts] \subseteq call.caps
            /\ Step.acts \in {"focus", "raise"} => Value("confirm") = "bool"
        <4>1. InHandler /\ Runs /\ IsAct(Step)
          BY <2>1, Zenon DEF ActFails, IsAct
        <4> QED
          BY <4>1, ActIsCovered
      <3>2. acted' = acted \cup {Step.acts} /\ Value("confirm")' = Value("confirm")
        BY <1>1, <2>1 DEF ActFails, Value
      <3> QED
        BY <1>1, <3>1, <3>2 DEF CallInv, ActsHaveCapability
    <2>2. CASE UNCHANGED acted
      BY <1>1, <2>2 DEF CallInv, ActsHaveCapability, Value
    <2> QED
      BY <2>1, <2>2 DEF RefuseParam, RefuseGate, LookupFails, HandlerReturns, BridgeRefuses, RouteNotification,
         RouteUnbound, RouteNoSession, RouteUnknown
  <1> QED
    BY <1>1, <1>2, Answered

LEMMA CallStep ==
    ASSUME CallInv, [CallNext]_pathVars
    PROVE  CallInv'
  <1>1. ASSUME NEW n \in Methods, Call(n)
        PROVE  CallInv'
    <2>1. /\ stage = "idle" /\ stage' = "draft" /\ UNCHANGED <<ip, acted>> /\ ip = 1 /\ acted = {}
          /\ call' = [via |-> IF IsTool(n) THEN "mcp" ELSE "raw", method |-> n,
                      steps |-> IF Known(n) THEN Handlers[n] ELSE <<>>,
                      args |-> <<>>, caps |-> Capabilities, bound |-> TRUE, id |-> TRUE]
      BY <1>1 DEF Call, CallInv
    <2>2. Programmed(call')
      BY <2>1 DEF Programmed
    <2>3. Programmed(call)'
      BY <2>2 DEF Programmed, IsTool, Known
    <2> QED
      BY <2>1, <2>3 DEF CallInv, ActsHaveCapability
  <1>2. CASE BridgeAccepts \/ RouteToHandler
    <2>1. /\ stage \notin {"idle", "draft", "handler", "done"} /\ stage' \in {"router", "handler"}
          /\ UNCHANGED <<call, ip, acted>>
      BY <1>2 DEF BridgeAccepts, RouteToHandler
    <2>2. Programmed(call)' /\ JsonArgs(call)' /\ ip = 1 /\ acted = {}
      BY <2>1, Zenon DEF CallInv, Programmed, JsonArgs, IsTool, Known
    <2>3. \A i \in 1..(ip' - 1) : FALSE
      BY <2>1, <2>2
    <2>4. ip' \in Nat /\ ip' >= 1
      BY <2>1, <2>2
    <2> QED
      BY <2>1, <2>2, <2>3, <2>4 DEF CallInv, ActsHaveCapability
  <1>3. CASE Reset
    BY <1>3 DEF Reset, CallInv, ActsHaveCapability
  <1>4. CASE UNCHANGED pathVars
    <2>1. UNCHANGED <<call, stage, ip, acted>>
      BY <1>4 DEF pathVars
    <2>2. Programmed(call)' <=> Programmed(call)
      BY <2>1, Zenon DEF Programmed, IsTool, Known
    <2>3. \A i : PassedAt(i)' <=> PassedAt(i)
      BY <2>1, Zenon DEF PassedAt, RunsAt, Value
    <2> QED
      BY <2>1, <2>2, <2>3 DEF CallInv, JsonArgs, ActsHaveCapability, Value
  <1> QED
    BY <1>1, <1>2, <1>3, <1>4, SendSteps, HandlerSteps, AnswerSteps DEF CallNext

(* The inductive invariant behind ActsHaveCapability, for any methods and   *)
(* any classes of arguments: behind every step the handler has reached lie  *)
(* the capabilities it asked for, held, and the params it could not do      *)
(* without, taken.                                                          *)
THEOREM CallInvariance == CallSpec => []CallInv
  <1>1. CallInit => CallInv
    BY DEF CallInit, CallInv, ActsHaveCapability
  <1>2. ASSUME CallInv, [CallNext]_pathVars
        PROVE  CallInv'
    BY <1>2, CallStep
  <1> QED
    BY <1>1, <1>2, PTL DEF CallSpec

(* A handler acts only in a session with the capabilities the surface       *)
(* needs, and moves the focus only when the caller confirmed it, whatever   *)
(* the arguments: require_native, require_system and the other gates come   *)
(* before the act on every path through the handler (GatesAssumption, which *)
(* TLC evaluates on every program of the table) and an error ends it.       *)
THEOREM ActsHaveCapabilitySafety == CallSpec => []ActsHaveCapability
  <1>1. CallInv => ActsHaveCapability
    BY DEF CallInv
  <1> QED
    BY <1>1, CallInvariance, PTL
=============================================================================
