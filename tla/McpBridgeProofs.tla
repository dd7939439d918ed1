-------------------------- MODULE McpBridgeProofs --------------------------
(***************************************************************************)
(* The bridge and the broker run a tool call at most once and keep the     *)
(* safety part of the promise of ToolCalls, for any set of tool calls and  *)
(* any number of deaths of the broker.                                     *)
(***************************************************************************)
EXTENDS McpBridge, SequenceTheorems, TLAPS

\* The frames of connection k that the broker has still to carry out: the one
\* it is at, at place 0, then those it has not read.
Places(k) == 0..Len(conns[k].up)
At(k, i) == IF i = 0 THEN conns[k].busy ELSE conns[k].up[i]
Holds(k, id) == \E i \in Places(k) : At(k, i) = id
Sent(id) == \E k \in DOMAIN conns : Holds(k, id)

\* Connection k has a session, or will have when the broker gets to it.
Registers(k) == conns[k].bound \/ Holds(k, <<Reg, 0>>) \/ Holds(k, <<Reg, 1>>)

\* A call that has not written its first frame.
Unwritten(c) == attempt[c] = 0 /\ pc[c] \in {"idle", "insert", "lock", "writing"}

\* No tool call starts before session.register is over.
RegisterComesFirst ==
    /\ mode = "starting" <=> pc[Reg] # "done"
    /\ pc[Reg] # "idle"
    /\ \A c \in Tools : pc[c] # "idle" => pc[Reg] = "done"

\* A tool call redials only on its second attempt, and is answered when it ends.
OneRetry ==
    /\ \A c \in Tools : pc[c] \in {"dial", "kick", "redial"} => attempt[c] = 1
    /\ \A c \in Tools : pc[c] = "idle" => attempt[c] = 0
    /\ \A c \in Calls : pc[c] # "done" => reply[c] = None

\* The writer mutex is held by the call that is writing, to a connection.
OneWriter ==
    /\ \A c \in Calls : pc[c] = "writing" <=> lock = c
    /\ lock # None => writer # 0

\* A broker that is down serves no connection.
DownServesNobody == broker = "down" => \A k \in DOMAIN conns : ~conns[k].sopen

\* A frame is there only once its call has written it.
FramesWereWritten ==
    \A c \in Tools :
        /\ Unwritten(c) => ~Sent(<<c, 0>>) /\ ran[c] = 0
        /\ attempt[c] = 0 => ~Sent(<<c, 1>>)

\* The first frame of a call is in one place at most, and gone once it ran.
FirstFrameOnce ==
    \A c \in Tools :
        /\ \A k, l \in DOMAIN conns : \A i \in Places(k), j \in Places(l) :
              At(k, i) = <<c, 0>> /\ At(l, j) = <<c, 0>> => k = l /\ i = j
        /\ ran[c] # 0 => ran[c] = 1 /\ ~Sent(<<c, 0>>)

\* A second frame is never on a connection that has, or will have, a session.
RetriesHaveNoSession ==
    \A k \in DOMAIN conns : Registers(k) => \A c \in Tools : ~Holds(k, <<c, 1>>)

\* A call on its second attempt will write to no connection, to a dead one or
\* to one without a session.
RetriesGoElsewhere ==
    \A c \in Tools :
        attempt[c] = 1 /\ pc[c] \in {"redial", "insert", "lock", "writing"} /\ writer # 0 =>
            ~conns[writer].sopen \/ ~Registers(writer)

\* "ok" travels only for a call that ran.
OkMeansRan ==
    \A c \in Tools :
        /\ got[c] = "ok" => ran[c] # 0
        /\ \A k \in DOMAIN conns : \A i \in DOMAIN conns[k].down :
              conns[k].down[i].result = "ok" /\ conns[k].down[i].id[1] = c => ran[c] # 0

\* The inductive invariant.
Inv ==
    /\ TypeOK
    /\ RegisterComesFirst
    /\ OneRetry
    /\ OneWriter
    /\ DownServesNobody
    /\ FramesWereWritten
    /\ FirstFrameOnce
    /\ RetriesHaveNoSession
    /\ RetriesGoElsewhere
    /\ OkMeansRan

----------------------------------------------------------------------------
(* The connections                                                          *)

(* Identifiers of requests are told from the place of an idle broker.       *)
LEMMA IdsAreFrames ==
    /\ NoId \notin Ids
    /\ \A id \in Ids : \E c \in Calls, a \in {0, 1} : id = <<c, a>> /\ id[1] = c
    /\ \A c \in Calls, a \in {0, 1} : <<c, a>> \in Ids /\ <<c, a>># NoId
  BY DEF Ids, NoId

(* What is known of every connection.                                       *)
LEMMA ConnTypes ==
    ASSUME TypeOK, NEW k \in DOMAIN conns
    PROVE  /\ conns[k] \in Conns /\ k \in 1..Len(conns) /\ Len(conns) \in Nat
           /\ DOMAIN conns = 1..Len(conns)
           /\ conns[k].up \in Seq(Ids \cup {NoId}) /\ conns[k].busy \in Ids \cup {NoId}
           /\ conns[k].down \in Seq([id : Ids, result : {"ok", "SessionNotFound"}])
           /\ Len(conns[k].up) \in Nat
           /\ \A i \in Places(k) : At(k, i) \in Ids \cup {NoId}
  <1>1. conns \in Seq(Conns)
    BY DEF TypeOK
  <1>2. DOMAIN conns = 1..Len(conns) /\ Len(conns) \in Nat /\ conns[k] \in Conns
    BY <1>1, LenProperties, ElementOfSeq
  <1>3. /\ conns[k].up \in Seq(Ids \cup {NoId}) /\ conns[k].busy \in Ids \cup {NoId}
        /\ conns[k].down \in Seq([id : Ids, result : {"ok", "SessionNotFound"}])
    BY <1>2 DEF Conns
  <1>4. Len(conns[k].up) \in Nat /\ \A i \in 1..Len(conns[k].up) : conns[k].up[i] \in Ids \cup {NoId}
    BY <1>3, LenProperties, ElementOfSeq
  <1>5. \A i \in Places(k) : At(k, i) \in Ids \cup {NoId}
    BY <1>3, <1>4 DEF Places, At
  <1> QED
    BY <1>2, <1>3, <1>4, <1>5

(* A step that changes one connection.                                      *)
LEMMA OneConnChanges ==
    ASSUME TypeOK, NEW k \in DOMAIN conns, NEW r \in Conns, conns' = [conns EXCEPT ![k] = r]
    PROVE  /\ conns' \in Seq(Conns) /\ Len(conns') = Len(conns)
           /\ DOMAIN conns' = DOMAIN conns
           /\ conns'[k] = r
           /\ \A j \in DOMAIN conns \ {k} : conns'[j] = conns[j]
  <1>1. conns \in Seq(Conns)
    BY DEF TypeOK
  <1>2. conns' \in Seq(Conns) /\ Len(conns') = Len(conns)
    BY <1>1, ExceptSeq
  <1> QED
    BY <1>1, <1>2, LenProperties

(* The broker takes the next line of connection k.                          *)
LEMMA ReadEffect ==
    ASSUME TypeOK, NEW k \in DOMAIN conns, conn_read(k)
    PROVE  /\ conns' \in Seq(Conns) /\ Len(conns') = Len(conns)
           /\ DOMAIN conns' = DOMAIN conns
           /\ \A j \in DOMAIN conns \ {k} : conns'[j] = conns[j]
           /\ conns'[k].down = conns[k].down /\ conns'[k].bound = conns[k].bound
           /\ conns'[k].sopen = conns[k].sopen
           /\ Len(conns'[k].up) = Len(conns[k].up) - 1
           /\ conns'[k].busy = conns[k].up[1]
           /\ \A i \in 1..Len(conns'[k].up) : conns'[k].up[i] = conns[k].up[i + 1]
  <1> DEFINE q == conns[k].up
             r == [conns[k] EXCEPT !.busy = Head(q), !.up = Tail(q)]
  <1>1. q \in Seq(Ids \cup {NoId}) /\ q # <<>> /\ conns[k] \in Conns
    BY ConnTypes DEF conn_read
  <1>2. /\ Head(q) \in Ids \cup {NoId} /\ Head(q) = q[1] /\ Tail(q) \in Seq(Ids \cup {NoId})
        /\ Len(Tail(q)) = Len(q) - 1
        /\ \A i \in 1..Len(Tail(q)) : Tail(q)[i] = q[i + 1]
    BY <1>1, HeadTailProperties
  <1>3. r \in Conns
    BY <1>1, <1>2 DEF Conns
  <1>4. conns' = [conns EXCEPT ![k] = r]
    BY DEF conn_read
  <1>5. /\ r.down = conns[k].down /\ r.bound = conns[k].bound /\ r.sopen = conns[k].sopen
        /\ r.up = Tail(q) /\ r.busy = Head(q)
    BY <1>1 DEF Conns
  <1> HIDE DEF q, r
  <1>6. /\ conns' \in Seq(Conns) /\ Len(conns') = Len(conns) /\ DOMAIN conns' = DOMAIN conns
        /\ conns'[k] = r /\ \A j \in DOMAIN conns \ {k} : conns'[j] = conns[j]
    BY <1>3, <1>4, OneConnChanges
  <1> QED
    BY <1>2, <1>5, <1>6 DEF q

(* The broker carries out the request it is at.                             *)
LEMMA DispatchEffect ==
    ASSUME TypeOK, NEW k \in DOMAIN conns, conn_dispatch(k)
    PROVE  LET c == conns[k].busy[1]
               m == [id |-> conns[k].busy,
                     result |-> IF c = Reg \/ conns[k].bound THEN "ok" ELSE "SessionNotFound"]
           IN  /\ conns[k].busy \in Ids
               /\ conns' \in Seq(Conns) /\ Len(conns') = Len(conns)
               /\ DOMAIN conns' = DOMAIN conns
               /\ \A j \in DOMAIN conns \ {k} : conns'[j] = conns[j]
               /\ conns'[k].up = conns[k].up /\ conns'[k].busy = NoId
               /\ conns'[k].sopen = conns[k].sopen
               /\ conns'[k].bound = (conns[k].bound \/ c = Reg)
               /\ conns'[k].down = Append(conns[k].down, m)
  <1> DEFINE c == conns[k].busy[1]
             m == [id |-> conns[k].busy,
                   result |-> IF c = Reg \/ conns[k].bound THEN "ok" ELSE "SessionNotFound"]
             M == [id : Ids, result : {"ok", "SessionNotFound"}]
             q == conns[k].down
             b == conns[k].bound \/ c = Reg
             r == [conns[k] EXCEPT !.busy = NoId, !.bound = b, !.down = Append(q, m)]
  <1>1. conns[k] \in Conns /\ conns[k].busy \in Ids /\ q \in Seq(M)
    BY ConnTypes DEF conn_dispatch
  <1>2. m \in M /\ b \in BOOLEAN
    BY <1>1
  <1>3. Append(q, m) \in Seq(M)
    BY <1>1, <1>2, AppendProperties
  <1>4. conns' = [conns EXCEPT ![k] = r]
    BY DEF conn_dispatch
  <1> HIDE DEF m, b, q
  <1>5. r \in Conns
    BY <1>1, <1>2, <1>3 DEF Conns
  <1>6. /\ r.up = conns[k].up /\ r.busy = NoId /\ r.sopen = conns[k].sopen
        /\ r.bound = b /\ r.down = Append(q, m)
    BY <1>1 DEF Conns
  <1> QED
    BY <1>1, <1>4, <1>5, <1>6, OneConnChanges DEF m, b, q

(* A frame reaches a connection that the broker serves.                     *)
LEMMA WriteEffect ==
    ASSUME TypeOK, OneWriter, NEW c \in Calls, write_line(c), conns[writer].sopen
    PROVE  LET f == IF conns[writer].torn THEN NoId ELSE <<c, attempt[c]>>
           IN  /\ writer \in DOMAIN conns /\ f \in Ids \cup {NoId}
               /\ conns' \in Seq(Conns) /\ Len(conns') = Len(conns)
               /\ DOMAIN conns' = DOMAIN conns
               /\ \A j \in DOMAIN conns \ {writer} : conns'[j] = conns[j]
               /\ conns'[writer].up = Append(conns[writer].up, f)
               /\ conns'[writer].busy = conns[writer].busy
               /\ conns'[writer].down = conns[writer].down
               /\ conns'[writer].bound = conns[writer].bound
               /\ conns'[writer].sopen = conns[writer].sopen
  <1> DEFINE f == IF conns[writer].torn THEN NoId ELSE <<c, attempt[c]>>
             q == conns[writer].up
             r == [conns[writer] EXCEPT !.up = Append(q, f), !.torn = FALSE]
  <1>1. writer \in DOMAIN conns
    <2>1. lock = c /\ c # None
      BY RegAssumption DEF OneWriter, write_line, None, Calls
    <2> QED
      BY <2>1, LenProperties DEF OneWriter, TypeOK
  <1>2. conns[writer] \in Conns /\ q \in Seq(Ids \cup {NoId})
    BY <1>1, ConnTypes
  <1>3. f \in Ids \cup {NoId}
    BY DEF TypeOK, Ids
  <1>4. Append(q, f) \in Seq(Ids \cup {NoId})
    BY <1>2, <1>3, AppendProperties
  <1>5. conns' = [conns EXCEPT ![writer] = r]
    BY DEF write_line, Id
  <1> HIDE DEF f, q
  <1>6. r \in Conns
    BY <1>2, <1>4 DEF Conns
  <1>7. /\ r.up = Append(q, f) /\ r.busy = conns[writer].busy /\ r.down = conns[writer].down
        /\ r.bound = conns[writer].bound /\ r.sopen = conns[writer].sopen
    BY <1>2 DEF Conns
  <1> QED
    BY <1>1, <1>3, <1>5, <1>6, <1>7, OneConnChanges DEF f, q

(* What is left of a queue when its head is taken.                          *)
LEMMA TailFacts ==
    ASSUME NEW S, NEW q \in Seq(S), q # <<>>
    PROVE  /\ Tail(q) \in Seq(S) /\ Head(q) \in S /\ 1 \in DOMAIN q /\ Head(q) = q[1]
           /\ \A i \in DOMAIN Tail(q) : i + 1 \in DOMAIN q /\ Tail(q)[i] = q[i + 1]
  <1>1. /\ Tail(q) \in Seq(S) /\ Len(Tail(q)) = Len(q) - 1 /\ Head(q) = q[1] /\ Head(q) \in S
        /\ \A i \in 1..Len(Tail(q)) : Tail(q)[i] = q[i + 1]
    BY HeadTailProperties
  <1>2. DOMAIN q = 1..Len(q) /\ Len(q) \in Nat
    BY LenProperties
  <1>3. DOMAIN Tail(q) = 1..Len(Tail(q))
    BY <1>1, LenProperties
  <1>4. Len(q) # 0
    BY EmptySeq
  <1> QED
    BY <1>1, <1>2, <1>3, <1>4

(* A reader task takes a response.                                          *)
LEMMA ResponseEffect ==
    ASSUME TypeOK, NEW k \in DOMAIN conns, dispatch_json_message(k)
    PROVE  /\ conns' \in Seq(Conns) /\ Len(conns') = Len(conns)
           /\ DOMAIN conns' = DOMAIN conns
           /\ \A j \in DOMAIN conns \ {k} : conns'[j] = conns[j]
           /\ conns'[k].up = conns[k].up /\ conns'[k].busy = conns[k].busy
           /\ conns'[k].sopen = conns[k].sopen /\ conns'[k].bound = conns[k].bound
           /\ 1 \in DOMAIN conns[k].down /\ Head(conns[k].down) = conns[k].down[1]
           /\ Head(conns[k].down).result \in {"ok", "SessionNotFound"}
           /\ \A i \in DOMAIN conns'[k].down :
                 i + 1 \in DOMAIN conns[k].down /\ conns'[k].down[i] = conns[k].down[i + 1]
  <1> DEFINE q == conns[k].down
             M == [id : Ids, result : {"ok", "SessionNotFound"}]
             r == [conns[k] EXCEPT !.down = Tail(q)]
  <1>1. conns[k] \in Conns /\ q \in Seq(M) /\ q # <<>>
    BY ConnTypes DEF dispatch_json_message
  <1>2. /\ Tail(q) \in Seq(M) /\ Head(q) \in M /\ 1 \in DOMAIN q /\ Head(q) = q[1]
        /\ \A i \in DOMAIN Tail(q) : i + 1 \in DOMAIN q /\ Tail(q)[i] = q[i + 1]
    BY <1>1, TailFacts
  <1>3. conns' = [conns EXCEPT ![k] = r]
    BY DEF dispatch_json_message
  <1>4. r \in Conns /\ r.down = Tail(q) /\ r.up = conns[k].up /\ r.busy = conns[k].busy
        /\ r.sopen = conns[k].sopen /\ r.bound = conns[k].bound
    BY <1>1, <1>2 DEF Conns
  <1>5. Head(q).result \in {"ok", "SessionNotFound"}
    BY <1>2
  <1> HIDE DEF r, M
  <1>6. /\ conns' \in Seq(Conns) /\ Len(conns') = Len(conns) /\ DOMAIN conns' = DOMAIN conns
        /\ conns'[k] = r /\ \A j \in DOMAIN conns \ {k} : conns'[j] = conns[j]
    BY <1>3, <1>4, OneConnChanges
  <1> QED
    BY <1>2, <1>4, <1>5, <1>6

\* A step that leaves connection k its session and responses, and its frames
\* too unless the broker died; what is new is blank.
Undisturbed(k) ==
    /\ conns'[k].bound = conns[k].bound /\ conns'[k].down = conns[k].down
    /\ conns'[k].sopen => conns[k].sopen
    /\ \/ conns'[k].up = conns[k].up /\ conns'[k].busy = conns[k].busy
       \/ conns'[k].up = <<>> /\ conns'[k].busy = NoId
Quiet ==
    /\ conns' \in Seq(Conns)
    /\ DOMAIN conns \subseteq DOMAIN conns'
    /\ \A k \in DOMAIN conns : Undisturbed(k)
    /\ \A k \in DOMAIN conns' \ DOMAIN conns : conns'[k] = NewConn

(* A step that touches no connection.                                       *)
LEMMA QuietStands ==
    ASSUME TypeOK, UNCHANGED conns
    PROVE  Quiet
  BY DEF TypeOK, Quiet, Undisturbed

(* A step that changes only the flags of one connection.                    *)
LEMMA QuietFlags ==
    ASSUME TypeOK, NEW k \in DOMAIN conns,
           \/ conns' = [conns EXCEPT ![k].wopen = FALSE]
           \/ conns' = [conns EXCEPT ![k].sopen = FALSE]
           \/ conns' = [conns EXCEPT ![k].reading = FALSE]
           \/ conns' = [conns EXCEPT ![k].torn = TRUE]
    PROVE  Quiet /\ Len(conns') = Len(conns)
  <1>1. conns[k] \in Conns
    BY ConnTypes
  <1>2. PICK r \in Conns :
             /\ conns' = [conns EXCEPT ![k] = r]
             /\ r.up = conns[k].up /\ r.busy = conns[k].busy /\ r.down = conns[k].down
             /\ r.bound = conns[k].bound /\ (r.sopen => conns[k].sopen)
    <2>1. CASE conns' = [conns EXCEPT ![k].wopen = FALSE]
      <3>1. [conns[k] EXCEPT !.wopen = FALSE] \in Conns
        BY <1>1 DEF Conns
      <3> WITNESS [conns[k] EXCEPT !.wopen = FALSE] \in Conns
      <3> QED
        BY <1>1, <2>1 DEF Conns
    <2>2. CASE conns' = [conns EXCEPT ![k].sopen = FALSE]
      <3>1. [conns[k] EXCEPT !.sopen = FALSE] \in Conns
        BY <1>1 DEF Conns
      <3> WITNESS [conns[k] EXCEPT !.sopen = FALSE] \in Conns
      <3> QED
        BY <1>1, <2>2 DEF Conns
    <2>3. CASE conns' = [conns EXCEPT ![k].reading = FALSE]
      <3>1. [conns[k] EXCEPT !.reading = FALSE] \in Conns
        BY <1>1 DEF Conns
      <3> WITNESS [conns[k] EXCEPT !.reading = FALSE] \in Conns
      <3> QED
        BY <1>1, <2>3 DEF Conns
    <2>4. CASE conns' = [conns EXCEPT ![k].torn = TRUE]
      <3>1. [conns[k] EXCEPT !.torn = TRUE] \in Conns
        BY <1>1 DEF Conns
      <3> WITNESS [conns[k] EXCEPT !.torn = TRUE] \in Conns
      <3> QED
        BY <1>1, <2>4 DEF Conns
    <2> QED
      BY <2>1, <2>2, <2>3, <2>4
  <1>3. /\ conns' \in Seq(Conns) /\ Len(conns') = Len(conns) /\ DOMAIN conns' = DOMAIN conns
        /\ conns'[k] = r /\ \A j \in DOMAIN conns \ {k} : conns'[j] = conns[j]
    BY <1>2, OneConnChanges
  <1> QED
    BY <1>2, <1>3 DEF Quiet, Undisturbed

(* The broker is gone, with every frame it had not answered.                *)
LEMMA QuietSevered ==
    ASSUME TypeOK, conns' = Severed
    PROVE  /\ Quiet /\ Len(conns') = Len(conns) /\ DOMAIN conns' = DOMAIN conns
           /\ \A k \in DOMAIN conns : ~conns'[k].sopen
  <1>1. DOMAIN conns = 1..Len(conns) /\ Len(conns) \in Nat
    BY LenProperties DEF TypeOK
  <1>2. \A k \in DOMAIN conns : conns[k] \in Conns
    BY ConnTypes
  <1>3. \A k \in DOMAIN conns :
             /\ conns'[k] = [conns[k] EXCEPT !.sopen = FALSE, !.up = <<>>, !.busy = NoId]
             /\ conns'[k] \in Conns /\ ~conns'[k].sopen /\ Undisturbed(k)
    BY <1>2, EmptySeq DEF Severed, Undisturbed, Conns
  <1>4. DOMAIN conns' = DOMAIN conns /\ conns' \in [1..Len(conns) -> Conns]
    BY <1>1, <1>3 DEF Severed
  <1>5. conns' \in Seq(Conns)
    BY <1>1, <1>4, SeqDef
  <1>6. Len(conns') = Len(conns)
    BY <1>1, <1>4, <1>5, LenProperties
  <1> QED
    BY <1>3, <1>4, <1>5, <1>6 DEF Quiet

(* dial_and_attach adds a blank connection, which is the writer from now on. *)
LEMMA QuietAttach ==
    ASSUME TypeOK, NEW c \in Calls, Attach(c)
    PROVE  /\ Quiet /\ Len(conns') = Len(conns) + 1 /\ writer' = Len(conns')
           /\ writer' \in DOMAIN conns' \ DOMAIN conns
           /\ conns'[writer'] = NewConn
  <1> DEFINE f == [k \in DOMAIN conns |-> IF k = writer THEN [conns[k] EXCEPT !.wopen = FALSE]
                                           ELSE conns[k]]
  <1>1. DOMAIN conns = 1..Len(conns) /\ Len(conns) \in Nat
    BY LenProperties DEF TypeOK
  <1>2. \A k \in DOMAIN conns : conns[k] \in Conns
    BY ConnTypes
  <1>3. \A k \in DOMAIN conns :
             /\ f[k] \in Conns /\ f[k].bound = conns[k].bound /\ f[k].down = conns[k].down
             /\ f[k].sopen = conns[k].sopen /\ f[k].up = conns[k].up /\ f[k].busy = conns[k].busy
    BY <1>2 DEF Conns
  <1>4. f \in [1..Len(conns) -> Conns]
    BY <1>1, <1>3
  <1>5. f \in Seq(Conns)
    BY <1>1, <1>4, SeqDef
  <1>6. Len(f) = Len(conns)
    BY <1>1, <1>5, LenProperties
  <1>7. conns' = Append(f, NewConn) /\ writer' = Len(conns) + 1
    BY DEF Attach
  <1>8. NewConn \in Conns
    BY EmptySeq DEF NewConn, Conns
  <1> HIDE DEF f
  <1>9. /\ conns' \in Seq(Conns) /\ Len(conns') = Len(f) + 1 /\ conns'[Len(f) + 1] = NewConn
        /\ \A k \in 1..Len(f) : conns'[k] = f[k]
    BY <1>5, <1>7, <1>8, AppendProperties
  <1>10. DOMAIN conns' = 1..(Len(conns) + 1)
    BY <1>6, <1>9, LenProperties
  <1>11. DOMAIN conns \subseteq DOMAIN conns' /\ DOMAIN conns' \ DOMAIN conns = {Len(conns) + 1}
    BY <1>1, <1>10
  <1>12. \A k \in DOMAIN conns : Undisturbed(k)
    BY <1>1, <1>3, <1>6, <1>9 DEF Undisturbed
  <1> QED
    BY <1>1, <1>6, <1>7, <1>9, <1>10, <1>11, <1>12 DEF Quiet

----------------------------------------------------------------------------
(* Frames                                                                   *)

\* No step but a write adds a frame: what is there was there, at the same place
\* or one further back.  No step but a register's gives a connection a session.
FramesKept ==
    \A k \in DOMAIN conns' :
        /\ \E d \in {0, 1} : \A i \in Places(k)' : At(k, i)' \in Ids =>
              k \in DOMAIN conns /\ i + d \in Places(k) /\ At(k, i + d) = At(k, i)'
        /\ conns'[k].bound => k \in DOMAIN conns /\ Registers(k)

(* A connection whose frames and session stand.                             *)
LEMMA StandingFrames ==
    ASSUME TypeOK, NEW k \in DOMAIN conns,
           \/ conns'[k].up = conns[k].up /\ conns'[k].busy = conns[k].busy
           \/ conns'[k].up = <<>> /\ conns'[k].busy = NoId
           \/ conns'[k].up = conns[k].up /\ conns'[k].busy = NoId
    PROVE  \E d \in {0, 1} : \A i \in Places(k)' : At(k, i)' \in Ids =>
              k \in DOMAIN conns /\ i + d \in Places(k) /\ At(k, i + d) = At(k, i)'
  <1>1. Len(conns[k].up) \in Nat
    BY ConnTypes
  <1>2. ASSUME NEW i \in Places(k)', At(k, i)' \in Ids
        PROVE  i \in Places(k) /\ At(k, i) = At(k, i)' /\ i + 0 = i
    <2>1. CASE conns'[k].up = conns[k].up
      BY <1>1, <1>2, <2>1, IdsAreFrames DEF Places, At
    <2>2. CASE conns'[k].up = <<>> /\ conns'[k].busy = NoId
      <3>1. i = 0
        BY <1>2, <2>2 DEF Places
      <3> QED
        BY <1>2, <2>2, <3>1, IdsAreFrames DEF At
    <2> QED
      BY <2>1, <2>2
  <1> QED
    BY <1>2

(* A quiet step keeps the frames.                                           *)
LEMMA QuietKeepsFrames ==
    ASSUME TypeOK, Quiet
    PROVE  FramesKept
  <1> SUFFICES ASSUME NEW k \in DOMAIN conns'
               PROVE  /\ \E d \in {0, 1} : \A i \in Places(k)' : At(k, i)' \in Ids =>
                            k \in DOMAIN conns /\ i + d \in Places(k) /\ At(k, i + d) = At(k, i)'
                      /\ conns'[k].bound => k \in DOMAIN conns /\ Registers(k)
    BY DEF FramesKept
  <1>1. CASE k \in DOMAIN conns
    BY <1>1, StandingFrames DEF Quiet, Undisturbed, Registers
  <1>2. CASE k \notin DOMAIN conns
    <2>1. conns'[k] = NewConn
      BY <1>2 DEF Quiet
    <2>2. \A i \in Places(k)' : At(k, i)' \notin Ids
      BY <2>1, IdsAreFrames DEF NewConn, Places, At
    <2> QED
      BY <2>1, <2>2 DEF NewConn
  <1> QED
    BY <1>1, <1>2

(* So do the broker's reading of a line and its answer to one, and the      *)
(* reader task's reading of a response.                                     *)
LEMMA ServingKeepsFrames ==
    ASSUME TypeOK, NEW k \in DOMAIN conns,
           conn_read(k) \/ conn_dispatch(k) \/ dispatch_json_message(k)
    PROVE  FramesKept
  <1>1. CASE conn_read(k)
    <2>1. /\ DOMAIN conns' = DOMAIN conns
          /\ \A j \in DOMAIN conns \ {k} : conns'[j] = conns[j]
          /\ conns'[k].bound = conns[k].bound
          /\ Len(conns'[k].up) = Len(conns[k].up) - 1
          /\ conns'[k].busy = conns[k].up[1]
          /\ \A i \in 1..Len(conns'[k].up) : conns'[k].up[i] = conns[k].up[i + 1]
      BY <1>1, ReadEffect
    <2>2. Len(conns[k].up) \in Nat
      BY ConnTypes
    <2>3. \A i \in Places(k)' : i + 1 \in Places(k) /\ At(k, i + 1) = At(k, i)'
      BY <2>1, <2>2 DEF Places, At
    <2>4. ASSUME NEW j \in DOMAIN conns \ {k}
          PROVE  \E d \in {0, 1} : \A i \in Places(j)' : At(j, i)' \in Ids =>
                   j \in DOMAIN conns /\ i + d \in Places(j) /\ At(j, i + d) = At(j, i)'
      BY <2>1, <2>4, StandingFrames
    <2> QED
      BY <2>1, <2>3, <2>4 DEF FramesKept, Registers
  <1>2. CASE conn_dispatch(k)
    <2>1. /\ DOMAIN conns' = DOMAIN conns /\ conns[k].busy \in Ids
          /\ \A j \in DOMAIN conns \ {k} : conns'[j] = conns[j]
          /\ conns'[k].up = conns[k].up /\ conns'[k].busy = NoId
          /\ conns'[k].bound = (conns[k].bound \/ conns[k].busy[1] = Reg)
      BY <1>2, DispatchEffect
    <2>2. \A j \in DOMAIN conns :
            \E d \in {0, 1} : \A i \in Places(j)' : At(j, i)' \in Ids =>
               j \in DOMAIN conns /\ i + d \in Places(j) /\ At(j, i + d) = At(j, i)'
      BY <2>1, StandingFrames
    <2>3. conns'[k].bound => Registers(k)
      <3>1. conns[k].busy[1] = Reg => conns[k].busy \in {<<Reg, 0>>, <<Reg, 1>>}
        BY <2>1, IdsAreFrames
      <3>2. 0 \in Places(k) /\ At(k, 0) = conns[k].busy
        BY ConnTypes DEF Places, At
      <3> QED
        BY <2>1, <3>1, <3>2 DEF Registers, Holds
    <2> QED
      BY <2>1, <2>2, <2>3 DEF FramesKept, Registers
  <1>3. CASE dispatch_json_message(k)
    <2>1. /\ DOMAIN conns' = DOMAIN conns
          /\ \A j \in DOMAIN conns \ {k} : conns'[j] = conns[j]
          /\ conns'[k].up = conns[k].up /\ conns'[k].busy = conns[k].busy
          /\ conns'[k].bound = conns[k].bound
      BY <1>3, ResponseEffect
    <2> QED
      BY <2>1, StandingFrames DEF FramesKept, Registers
  <1> QED
    BY <1>1, <1>2, <1>3

(* What was sent, and what has a session, can only become less.             *)
LEMMA KeptFrames ==
    ASSUME FramesKept
    PROVE  /\ \A k \in DOMAIN conns', id \in Ids :
                 Holds(k, id)' => k \in DOMAIN conns /\ Holds(k, id)
           /\ \A id \in Ids : Sent(id)' => Sent(id)
           /\ \A k \in DOMAIN conns' : Registers(k)' => k \in DOMAIN conns /\ Registers(k)
  <1>1. ASSUME NEW k \in DOMAIN conns', NEW id \in Ids, Holds(k, id)'
        PROVE  k \in DOMAIN conns /\ Holds(k, id)
    <2>1. PICK i \in Places(k)' : At(k, i)' = id
      BY <1>1 DEF Holds
    <2> QED
      BY <2>1 DEF FramesKept, Holds
  <1>2. \A id \in Ids : Sent(id)' => Sent(id)
    BY <1>1 DEF Sent
  <1>3. <<Reg, 0>> \in Ids /\ <<Reg, 1>> \in Ids
    BY IdsAreFrames DEF Calls
  <1>4. \A k \in DOMAIN conns' : Registers(k)' => k \in DOMAIN conns /\ Registers(k)
    BY <1>1, <1>3 DEF FramesKept, Registers
  <1> QED
    BY <1>1, <1>2, <1>4

FrameInv == FramesWereWritten /\ FirstFrameOnce /\ RetriesHaveNoSession

(* A place that holds a frame after a step that keeps frames.               *)
LEMMA KeptFirstFrame ==
    ASSUME FramesKept, FirstFrameOnce, NEW c \in Tools
    PROVE  \A k, l \in DOMAIN conns' : \A i \in Places(k)', j \in Places(l)' :
              At(k, i)' = <<c, 0>> /\ At(l, j)' = <<c, 0>> => k = l /\ i = j
  <1> SUFFICES ASSUME NEW k \in DOMAIN conns', NEW l \in DOMAIN conns',
                      NEW i \in Places(k)', NEW j \in Places(l)',
                      At(k, i)' = <<c, 0>>, At(l, j)' = <<c, 0>>
               PROVE  k = l /\ i = j
    OBVIOUS
  <1>1. <<c, 0>> \in Ids
    BY IdsAreFrames DEF Calls
  <1>2. PICK d \in {0, 1} : \A x \in Places(k)' : At(k, x)' \in Ids =>
               k \in DOMAIN conns /\ x + d \in Places(k) /\ At(k, x + d) = At(k, x)'
    BY DEF FramesKept
  <1>3. PICK e \in {0, 1} : \A x \in Places(l)' : At(l, x)' \in Ids =>
               l \in DOMAIN conns /\ x + e \in Places(l) /\ At(l, x + e) = At(l, x)'
    BY DEF FramesKept
  <1>4. k = l /\ i + d = j + e
    BY <1>1, <1>2, <1>3 DEF FirstFrameOnce
  <1>5. k \in DOMAIN conns /\ i + d \in Places(k) /\ At(k, i + d) = <<c, 0>>
    BY <1>1, <1>2
  <1>6. i \in Int /\ j \in Int
    BY DEF Places
  <1>7. /\ i + e \in Places(k) /\ At(k, i + e) = <<c, 0>>
        /\ j + d \in Places(k) /\ At(k, j + d) = <<c, 0>>
    BY <1>1, <1>2, <1>3, <1>4
  <1>8. i + d = i + e
    BY <1>5, <1>7 DEF FirstFrameOnce
  <1> QED
    BY <1>4, <1>6, <1>8

(* Steps in which no handler runs and no frame is written.                  *)
LEMMA FramesStand ==
    ASSUME FrameInv, FramesKept, ran' = ran,
           \A c \in Tools : /\ Unwritten(c)' => Unwritten(c)
                            /\ attempt'[c] = 0 => attempt[c] = 0
    PROVE  FrameInv'
  <1>1. \A c \in Tools : <<c, 0>> \in Ids /\ <<c, 1>> \in Ids
    BY IdsAreFrames DEF Calls
  <1>2. FramesWereWritten'
    BY <1>1, KeptFrames DEF FrameInv, FramesWereWritten
  <1>3. FirstFrameOnce'
    <2>1. \A c \in Tools : ran'[c] # 0 => ran'[c] = 1 /\ ~Sent(<<c, 0>>)'
      BY <1>1, KeptFrames DEF FrameInv, FirstFrameOnce
    <2> QED
      BY <2>1, KeptFirstFrame DEF FrameInv, FirstFrameOnce
  <1>4. RetriesHaveNoSession'
    BY <1>1, KeptFrames DEF FrameInv, RetriesHaveNoSession
  <1> QED
    BY <1>2, <1>3, <1>4 DEF FrameInv

(* A handler runs: the frame it ran for was the only one that could run it. *)
LEMMA FramesDispatch ==
    ASSUME TypeOK, FrameInv, OneRetry, NEW k \in DOMAIN conns, conn_dispatch(k)
    PROVE  /\ FrameInv'
           /\ LET c == conns[k].busy[1]
              IN  \/ ran' = ran /\ c \in Calls /\ c # Reg /\ ~conns[k].bound
                  \/ c = Reg /\ ran' = [ran EXCEPT ![Reg] = @ + 1]
                  \/ c \in Tools /\ ran[c] = 0 /\ ran' = [ran EXCEPT ![c] = 1] /\ pc[c] # "idle"
  <1>1. /\ DOMAIN conns' = DOMAIN conns /\ conns[k].busy \in Ids
        /\ \A j \in DOMAIN conns \ {k} : conns'[j] = conns[j]
        /\ conns'[k].up = conns[k].up /\ conns'[k].busy = NoId
    BY DispatchEffect
  <1>2. PICK c \in Calls, a \in {0, 1} : conns[k].busy = <<c, a>> /\ conns[k].busy[1] = c
    BY <1>1, IdsAreFrames
  <1>3. FramesKept
    BY ServingKeepsFrames
  <1>4. UNCHANGED <<pc, attempt>>
    BY DEF conn_dispatch, client
  <1>5. \A d \in Tools : /\ Unwritten(d)' => Unwritten(d)
                         /\ attempt'[d] = 0 => attempt[d] = 0
    BY <1>4 DEF Unwritten
  <1>6. 0 \in Places(k) /\ At(k, 0) = <<c, a>>
    BY <1>2, ConnTypes DEF Places, At
  <1>7. CASE c # Reg /\ ~conns[k].bound
    <2>1. ran' = ran
      BY <1>2, <1>7 DEF conn_dispatch
    <2> QED
      BY <1>2, <1>3, <1>5, <1>7, <2>1, FramesStand
  <1>8. CASE c = Reg
    <2>1. ran' = [ran EXCEPT ![Reg] = @ + 1]
      BY <1>2, <1>8 DEF conn_dispatch
    <2>2. \A d \in Tools : ran'[d] = ran[d]
      BY <2>1, RegAssumption DEF TypeOK, Calls
    <2>3. \A d \in Tools : <<d, 0>> \in Ids /\ <<d, 1>> \in Ids
      BY IdsAreFrames DEF Calls
    <2>4. FramesWereWritten'
      BY <1>3, <1>5, <2>2, <2>3, KeptFrames DEF FrameInv, FramesWereWritten
    <2>5. \A d \in Tools : ran'[d] # 0 => ran'[d] = 1 /\ ~Sent(<<d, 0>>)'
      BY <1>3, <2>2, <2>3, KeptFrames DEF FrameInv, FirstFrameOnce
    <2>6. FirstFrameOnce'
      BY <1>3, <2>5, KeptFirstFrame DEF FrameInv, FirstFrameOnce
    <2>7. RetriesHaveNoSession'
      BY <1>3, <2>3, KeptFrames DEF FrameInv, RetriesHaveNoSession
    <2> QED
      BY <1>2, <1>8, <2>1, <2>4, <2>6, <2>7 DEF FrameInv
  <1>9. CASE c # Reg /\ conns[k].bound
    <2>1. c \in Tools /\ Registers(k)
      BY <1>2, <1>9 DEF Calls, Registers
    <2>2. a = 0
      BY <1>6, <2>1 DEF FrameInv, RetriesHaveNoSession, Holds
    <2>3. Sent(<<c, 0>>)
      BY <1>6, <2>2 DEF Sent, Holds
    <2>4. ran[c] = 0 /\ ~Unwritten(c)
      BY <2>1, <2>3 DEF FrameInv, FirstFrameOnce, FramesWereWritten
    <2>5. pc[c] # "idle"
      BY <2>1, <2>4 DEF Unwritten, OneRetry
    <2>6. ran' = [ran EXCEPT ![c] = 1]
      <3>1. ran' = [ran EXCEPT ![c] = ran[c] + 1]
        BY <1>2, <1>9 DEF conn_dispatch
      <3> QED
        BY <2>4, <3>1
    <2>7. \A d \in Tools : ran'[d] = IF d = c THEN 1 ELSE ran[d]
      BY <2>1, <2>6 DEF TypeOK, Calls
    <2>8. \A d \in Tools : <<d, 0>> \in Ids /\ <<d, 1>> \in Ids
      BY IdsAreFrames DEF Calls
    <2>9. ~Sent(<<c, 0>>)'
      <3> SUFFICES ASSUME NEW l \in DOMAIN conns', NEW j \in Places(l)', At(l, j)' = <<c, 0>>
                   PROVE  FALSE
        BY DEF Sent, Holds
      <3>1. CASE l = k
        <4>1. j # 0
          BY <1>1, <2>1, <2>8, <3>1, IdsAreFrames DEF At
        <4>2. j \in Places(k) /\ At(k, j) = <<c, 0>>
          BY <1>1, <3>1, <4>1 DEF Places, At
        <4> QED
          BY <1>6, <2>1, <2>2, <4>1, <4>2 DEF FrameInv, FirstFrameOnce
      <3>2. CASE l # k
        <4>1. l \in DOMAIN conns /\ j \in Places(l) /\ At(l, j) = <<c, 0>>
          BY <1>1, <3>2 DEF Places, At
        <4> QED
          BY <1>6, <2>1, <2>2, <3>2, <4>1 DEF FrameInv, FirstFrameOnce
      <3> QED
        BY <3>1, <3>2
    <2>10. FramesWereWritten'
      BY <1>3, <1>5, <2>4, <2>7, <2>8, KeptFrames DEF FrameInv, FramesWereWritten
    <2>11. \A d \in Tools : ran'[d] # 0 => ran'[d] = 1 /\ ~Sent(<<d, 0>>)'
      BY <1>3, <2>7, <2>8, <2>9, KeptFrames DEF FrameInv, FirstFrameOnce
    <2>12. FirstFrameOnce'
      BY <1>3, <2>11, KeptFirstFrame DEF FrameInv, FirstFrameOnce
    <2>13. RetriesHaveNoSession'
      BY <1>3, <2>8, KeptFrames DEF FrameInv, RetriesHaveNoSession
    <2> QED
      BY <1>2, <2>1, <2>4, <2>5, <2>6, <2>10, <2>12, <2>13 DEF FrameInv
  <1> QED
    BY <1>7, <1>8, <1>9

(* A frame is written: the first of its call, or one that will find no      *)
(* session, or the register's own.                                          *)
LEMMA FramesWrite ==
    ASSUME TypeOK, FrameInv, RegisterComesFirst, OneRetry, OneWriter, RetriesGoElsewhere,
           NEW c \in Calls, write_line(c), conns[writer].sopen
    PROVE  /\ FrameInv'
           /\ c # Reg => \A k \in DOMAIN conns : Registers(k)' => Registers(k)
  <1>1. PICK w \in DOMAIN conns, f \in Ids \cup {NoId} :
             /\ w = writer /\ (f = NoId \/ f = <<c, attempt[c]>>)
             /\ DOMAIN conns' = DOMAIN conns
             /\ \A j \in DOMAIN conns \ {w} : conns'[j] = conns[j]
             /\ conns'[w].up = Append(conns[w].up, f)
             /\ conns'[w].busy = conns[w].busy /\ conns'[w].bound = conns[w].bound
    BY WriteEffect
  <1>2. conns[w].up \in Seq(Ids \cup {NoId}) /\ Len(conns[w].up) \in Nat
    BY ConnTypes
  <1>3. /\ Len(conns'[w].up) = Len(conns[w].up) + 1
        /\ conns'[w].up[Len(conns[w].up) + 1] = f
        /\ \A i \in 1..Len(conns[w].up) : conns'[w].up[i] = conns[w].up[i]
    BY <1>1, <1>2, AppendProperties
  <1>4. ASSUME NEW k \in DOMAIN conns, NEW i \in Places(k)'
        PROVE  \/ i \in Places(k) /\ At(k, i)' = At(k, i)
               \/ k = w /\ i = Len(conns[w].up) + 1 /\ At(k, i)' = f
    <2>1. CASE k = w
      BY <1>1, <1>2, <1>3, <1>4, <2>1 DEF Places, At
    <2>2. CASE k # w
      BY <1>1, <1>4, <2>2 DEF Places, At
    <2> QED
      BY <2>1, <2>2
  <1>5. \A k \in DOMAIN conns, id \in Ids : Holds(k, id)' => Holds(k, id) \/ (k = w /\ id = f)
    BY <1>4 DEF Holds
  <1>6. \A id \in Ids : Sent(id)' => Sent(id) \/ id = f
    BY <1>1, <1>5 DEF Sent
  <1>7. \A d \in Calls : <<d, 0>> \in Ids /\ <<d, 1>> \in Ids
    BY IdsAreFrames
  <1>8. /\ pc[c] = "writing" /\ pc' = [pc EXCEPT ![c] = "wait"]
        /\ ran' = ran /\ attempt' = attempt
    BY DEF write_line, server
  <1>9. \A k \in DOMAIN conns :
             Registers(k)' => Registers(k) \/ (k = w /\ (f = <<Reg, 0>> \/ f = <<Reg, 1>>))
    <2> SUFFICES ASSUME NEW k \in DOMAIN conns, Registers(k)'
                 PROVE  Registers(k) \/ (k = w /\ (f = <<Reg, 0>> \/ f = <<Reg, 1>>))
      OBVIOUS
    <2>1. conns'[k].bound = conns[k].bound
      BY <1>1
    <2>2. Reg \in Calls
      BY DEF Calls
    <2> QED
      BY <1>5, <1>7, <2>1, <2>2 DEF Registers
  <1>10. \A d \in Tools : d \in Calls /\ d # Reg
    BY RegAssumption DEF Calls
  <1>11. \A d \in Tools : /\ f = <<d, 0>> => d = c /\ attempt[c] = 0
                          /\ f = <<d, 1>> => d = c /\ attempt[c] = 1
    <2>1. attempt[c] \in {0, 1}
      BY DEF TypeOK
    <2>2. \A d \in Tools : <<d, 0>> # NoId /\ <<d, 1>> # NoId
      BY <1>10, IdsAreFrames
    <2> QED
      BY <1>1, <2>1, <2>2
  <1>12. c \in Tools /\ attempt[c] = 0 => ~Sent(<<c, 0>>) /\ ran[c] = 0
    BY <1>8 DEF FrameInv, FramesWereWritten, Unwritten
  <1>13. FramesWereWritten'
    <2> SUFFICES ASSUME NEW d \in Tools
                 PROVE  /\ Unwritten(d)' => ~Sent(<<d, 0>>)' /\ ran'[d] = 0
                        /\ attempt'[d] = 0 => ~Sent(<<d, 1>>)'
      BY DEF FramesWereWritten
    <2>1. Unwritten(d)' => Unwritten(d) /\ d # c
      BY <1>8 DEF Unwritten, TypeOK
    <2> QED
      BY <1>6, <1>7, <1>8, <1>10, <1>11, <2>1 DEF FrameInv, FramesWereWritten
  <1>14. FirstFrameOnce'
    <2>1. ASSUME NEW d \in Tools, NEW k \in DOMAIN conns', NEW l \in DOMAIN conns',
                 NEW i \in Places(k)', NEW j \in Places(l)',
                 At(k, i)' = <<d, 0>>, At(l, j)' = <<d, 0>>
          PROVE  k = l /\ i = j
      <3>0. k \in DOMAIN conns /\ l \in DOMAIN conns
        BY <1>1
      <3>1. CASE f = <<d, 0>>
        <4>1. ~Sent(<<d, 0>>)
          BY <1>11, <1>12, <2>1, <3>1
        <4>2. ~(i \in Places(k) /\ At(k, i)' = At(k, i)) /\ ~(j \in Places(l) /\ At(l, j)' = At(l, j))
          BY <2>1, <3>0, <4>1 DEF Sent, Holds
        <4> QED
          BY <1>4, <3>0, <4>2
      <3>2. CASE f # <<d, 0>>
        <4>1. /\ i \in Places(k) /\ At(k, i) = <<d, 0>>
              /\ j \in Places(l) /\ At(l, j) = <<d, 0>>
          BY <1>4, <2>1, <3>2, <3>0
        <4> QED
          BY <3>0, <4>1 DEF FrameInv, FirstFrameOnce
      <3> QED
        BY <3>1, <3>2
    <2>2. ASSUME NEW d \in Tools, ran'[d] # 0
          PROVE  ran'[d] = 1 /\ ~Sent(<<d, 0>>)'
      <3>1. ran[d] = 1 /\ ~Sent(<<d, 0>>)
        BY <1>8, <2>2 DEF FrameInv, FirstFrameOnce
      <3>2. f # <<d, 0>>
        BY <1>11, <1>12, <3>1
      <3> QED
        BY <1>6, <1>7, <1>8, <1>10, <3>1, <3>2
    <2> QED
      BY <1>1, <2>1, <2>2 DEF FirstFrameOnce
  <1>15. c # Reg => f # <<Reg, 0>> /\ f # <<Reg, 1>>
    <2>1. <<Reg, 0>> # NoId /\ <<Reg, 1>> # NoId
      BY IdsAreFrames DEF Calls
    <2> QED
      BY <1>1, <2>1
  <1>16. RetriesHaveNoSession'
    <2> SUFFICES ASSUME NEW k \in DOMAIN conns, Registers(k)', NEW d \in Tools, Holds(k, <<d, 1>>)'
                 PROVE  FALSE
      BY <1>1 DEF RetriesHaveNoSession
    <2>1. CASE c = Reg
      <3>1. attempt[d] = 0
        BY <1>8, <2>1 DEF RegisterComesFirst, OneRetry
      <3>2. ~Sent(<<d, 1>>) /\ f # <<d, 1>>
        BY <1>10, <1>11, <2>1, <3>1 DEF FrameInv, FramesWereWritten
      <3> QED
        BY <1>5, <1>7, <1>10, <3>2 DEF Sent
    <2>2. CASE c # Reg
      <3>1. Registers(k)
        BY <1>9, <1>15, <2>2
      <3>2. ~Holds(k, <<d, 1>>)
        BY <3>1 DEF FrameInv, RetriesHaveNoSession
      <3>3. k = w /\ f = <<d, 1>>
        BY <1>5, <1>7, <1>10, <3>2
      <3>4. c \in Tools /\ attempt[c] = 1 /\ writer # 0
        BY <1>1, <1>2, <1>11, <2>2, <3>3, ConnTypes
      <3> QED
        BY <1>1, <1>8, <3>1, <3>3, <3>4 DEF RetriesGoElsewhere
    <2> QED
      BY <2>1, <2>2
  <1> QED
    BY <1>9, <1>13, <1>14, <1>16, <1>15 DEF FrameInv

----------------------------------------------------------------------------
(* Where retries go, and what "ok" means                                    *)

InRetry(c) == attempt[c] = 1 /\ pc[c] \in {"redial", "insert", "lock", "writing"}

(* Steps that bring no call to its second write and give the writer's       *)
(* connection no session.                                                   *)
LEMMA ElsewhereStands ==
    ASSUME TypeOK, RetriesGoElsewhere, writer' \in {writer, 0},
           \A c \in Tools : InRetry(c)' => InRetry(c),
           \A k \in DOMAIN conns : /\ Registers(k)' => Registers(k)
                                   /\ conns'[k].sopen => conns[k].sopen
    PROVE  RetriesGoElsewhere'
  <1> SUFFICES ASSUME NEW c \in Tools, InRetry(c)', writer' # 0
               PROVE  ~conns'[writer'].sopen \/ ~Registers(writer)'
    BY DEF RetriesGoElsewhere, InRetry
  <1>1. writer' = writer /\ writer \in DOMAIN conns
    BY LenProperties DEF TypeOK
  <1>2. ~conns[writer].sopen \/ ~Registers(writer)
    BY <1>1 DEF RetriesGoElsewhere, InRetry
  <1>3. PICK w \in DOMAIN conns : w = writer /\ w = writer'
    BY <1>1
  <1>4. ~conns'[w].sopen \/ ~Registers(w)'
    BY <1>2, <1>3
  <1> QED
    BY <1>3, <1>4

(* After a redial the writer is a connection without a session.             *)
LEMMA ElsewhereAttach ==
    ASSUME TypeOK, NEW c \in Calls, Attach(c)
    PROVE  RetriesGoElsewhere'
  <1>1. PICK w : w = writer' /\ conns'[w] = NewConn
    BY QuietAttach
  <1>2. <<Reg, 0>> # NoId /\ <<Reg, 1>> # NoId
    BY IdsAreFrames DEF Calls
  <1>3. ~Registers(w)'
    BY <1>1, <1>2 DEF Registers, Holds, Places, At, NewConn
  <1> QED
    BY <1>1, <1>3 DEF RetriesGoElsewhere

\* No step but an answer adds a response.
ResponsesKept ==
    \A k \in DOMAIN conns' : \A i \in DOMAIN conns'[k].down :
        k \in DOMAIN conns /\ \E j \in DOMAIN conns[k].down : conns'[k].down[i] = conns[k].down[j]

(* A quiet step keeps the responses.                                        *)
LEMMA QuietKeepsResponses ==
    ASSUME Quiet
    PROVE  ResponsesKept
  <1> SUFFICES ASSUME NEW k \in DOMAIN conns', NEW i \in DOMAIN conns'[k].down
               PROVE  k \in DOMAIN conns
                      /\ \E j \in DOMAIN conns[k].down : conns'[k].down[i] = conns[k].down[j]
    BY DEF ResponsesKept
  <1>1. CASE k \in DOMAIN conns
    BY <1>1 DEF Quiet, Undisturbed
  <1>2. CASE k \notin DOMAIN conns
    <2>1. conns'[k].down = <<>>
      BY <1>2 DEF Quiet, NewConn
    <2> QED
      BY <2>1
  <1> QED
    BY <1>1, <1>2

(* Steps that neither run a handler nor hand a response to a call.          *)
LEMMA OkStands ==
    ASSUME OkMeansRan, ResponsesKept, ran' = ran,
           \A c \in Tools : got'[c] = "ok" => got[c] = "ok"
    PROVE  OkMeansRan'
  BY DEF OkMeansRan, ResponsesKept

(* A response goes to the call whose id it carries.                         *)
LEMMA OkResponse ==
    ASSUME TypeOK, OkMeansRan, NEW k \in DOMAIN conns, dispatch_json_message(k)
    PROVE  OkMeansRan'
  <1>1. /\ DOMAIN conns' = DOMAIN conns
        /\ \A j \in DOMAIN conns \ {k} : conns'[j] = conns[j]
        /\ 1 \in DOMAIN conns[k].down /\ Head(conns[k].down) = conns[k].down[1]
        /\ \A i \in DOMAIN conns'[k].down :
              i + 1 \in DOMAIN conns[k].down /\ conns'[k].down[i] = conns[k].down[i + 1]
    BY ResponseEffect
  <1>2. ResponsesKept
    BY <1>1 DEF ResponsesKept
  <1>3. ran' = ran
    BY DEF dispatch_json_message, server
  <1>4. ASSUME NEW c \in Tools, got'[c] = "ok"
        PROVE  ran[c] # 0
    <2> DEFINE m == Head(conns[k].down)
    <2>1. got'[c] = IF m.id \in inflight /\ Waits(c, m.id) THEN m.result ELSE got[c]
      BY DEF dispatch_json_message, Calls
    <2>2. CASE m.id \in inflight /\ Waits(c, m.id)
      <3>1. m.result = "ok" /\ m.id = <<c, attempt[c]>>
        BY <1>4, <2>1, <2>2 DEF Waits, Id
      <3>2. m.id[1] = c
        BY <3>1
      <3> QED
        BY <1>1, <3>1, <3>2 DEF OkMeansRan
    <2>3. CASE ~(m.id \in inflight /\ Waits(c, m.id))
      BY <1>4, <2>1, <2>3 DEF OkMeansRan
    <2> QED
      BY <2>2, <2>3
  <1> QED
    BY <1>2, <1>3, <1>4 DEF OkMeansRan, ResponsesKept

(* The broker answers "ok" to the call it ran.                              *)
LEMMA OkDispatch ==
    ASSUME TypeOK, FrameInv, OneRetry, OkMeansRan, NEW k \in DOMAIN conns, conn_dispatch(k)
    PROVE  OkMeansRan'
  <1>1. PICK c, m :
             /\ c \in Calls /\ c = conns[k].busy[1]
             /\ m.id[1] = c /\ m.result = (IF c = Reg \/ conns[k].bound THEN "ok" ELSE "SessionNotFound")
             /\ DOMAIN conns' = DOMAIN conns
             /\ \A j \in DOMAIN conns \ {k} : conns'[j] = conns[j]
             /\ conns'[k].down = Append(conns[k].down, m)
    <2>1. conns[k].busy \in Ids
      BY DispatchEffect
    <2>2. conns[k].busy[1] \in Calls
      BY <2>1, IdsAreFrames
    <2> DEFINE m == [id |-> conns[k].busy,
                     result |-> IF conns[k].busy[1] = Reg \/ conns[k].bound THEN "ok"
                                ELSE "SessionNotFound"]
    <2>3. /\ DOMAIN conns' = DOMAIN conns
          /\ \A j \in DOMAIN conns \ {k} : conns'[j] = conns[j]
          /\ conns'[k].down = Append(conns[k].down, m)
      BY DispatchEffect
    <2> QED
      BY <2>2, <2>3
  <1>2. \/ ran' = ran /\ c \in Calls /\ c # Reg /\ ~conns[k].bound
        \/ c = Reg /\ ran' = [ran EXCEPT ![Reg] = @ + 1]
        \/ c \in Tools /\ ran[c] = 0 /\ ran' = [ran EXCEPT ![c] = 1] /\ pc[c] # "idle"
    BY <1>1, FramesDispatch
  <1>3. \A d \in Tools : d \in Calls /\ d # Reg
    BY RegAssumption DEF Calls
  <1>4. \A d \in Tools : ran[d] # 0 => ran'[d] # 0
    BY <1>2, <1>3 DEF TypeOK
  <1>5. \A d \in Tools : m.result = "ok" /\ m.id[1] = d => ran'[d] # 0
    BY <1>1, <1>2, <1>3 DEF TypeOK
  <1>6. got' = got
    BY DEF conn_dispatch
  <1>7. \A i \in DOMAIN conns'[k].down :
             \/ i \in DOMAIN conns[k].down /\ conns'[k].down[i] = conns[k].down[i]
             \/ conns'[k].down[i] = m
    <2> DEFINE q == conns[k].down
    <2>1. q \in Seq([id : Ids, result : {"ok", "SessionNotFound"}])
      BY ConnTypes
    <2>2. PICK S : q \in Seq(S) /\ m \in S
      <3>1. q \in Seq([id : Ids, result : {"ok", "SessionNotFound"}] \cup {m})
        BY <2>1, SeqMonotonic
      <3> QED
        BY <3>1
    <2>3. /\ Append(q, m) \in Seq(S) /\ Len(Append(q, m)) = Len(q) + 1
          /\ Append(q, m)[Len(q) + 1] = m
          /\ \A i \in 1..Len(q) : Append(q, m)[i] = q[i]
      BY <2>2, AppendProperties
    <2>4. DOMAIN q = 1..Len(q) /\ Len(q) \in Nat /\ DOMAIN Append(q, m) = 1..(Len(q) + 1)
      BY <2>2, <2>3, LenProperties
    <2> QED
      BY <1>1, <2>3, <2>4
  <1> QED
    BY <1>1, <1>4, <1>5, <1>6, <1>7, SMTT(30) DEF OkMeansRan

----------------------------------------------------------------------------
(* Control                                                                  *)

Control == RegisterComesFirst /\ OneRetry /\ OneWriter
Replies == {"ok", "SessionNotFound", "BrokerUnavailable", "Timeout", "Cancelled", "aborted"}

\* What a step does to the calls: one of them moves, and the mutex with it.
CallTypes ==
    /\ mode' \in {"starting", "serving", "closing", "brokerless"}
    /\ pc' \in [Calls -> {"idle", "stub", "dial", "kick", "redial", "insert", "lock", "writing",
                          "wait", "done"}]
    /\ attempt' \in [Calls -> {0, 1}]
    /\ reply' \in [Calls -> Replies \cup {None}]

\* The second frame of a call stays the only other one.
CallsMove ==
    \A c \in Tools : /\ Unwritten(c)' => Unwritten(c)
                     /\ attempt'[c] = 0 => attempt[c] = 0

(* A call ends, at whatever place it was.                                   *)
LEMMA FinishMoves ==
    ASSUME TypeOK, Control, NEW c \in Calls, NEW r \in Replies, Finish(c, r),
           pc[c] \notin {"idle", "done"},
           lock' = IF lock = c THEN None ELSE lock,
           lock' # None => writer' # 0
    PROVE  /\ CallTypes /\ Control' /\ CallsMove
           /\ \A d \in Tools : InRetry(d)' => InRetry(d)
  <1> USE RegAssumption DEF TypeOK, Control, Finish, Replies, None
  <1>1. CallTypes
    BY DEF CallTypes
  <1>2. RegisterComesFirst'
    BY DEF RegisterComesFirst, Calls
  <1>3. OneRetry'
    BY DEF OneRetry, Calls
  <1>4. OneWriter'
    BY DEF OneWriter, Calls
  <1>5. CallsMove /\ \A d \in Tools : InRetry(d)' => InRetry(d)
    BY DEF CallsMove, Unwritten, InRetry, Calls
  <1> QED
    BY <1>1, <1>2, <1>3, <1>4, <1>5

(* A call goes on to p, within its attempt.                                 *)
LEMMA CallMoves ==
    ASSUME TypeOK, Control, NEW c \in Calls, UNCHANGED <<mode, attempt, reply>>,
           NEW p \in {"stub", "dial", "kick", "redial", "insert", "lock", "writing", "wait"},
           pc' = [pc EXCEPT ![c] = p], pc[c] # "done",
           c \in Tools => pc[Reg] = "done",
           c \in Tools /\ p \in {"dial", "kick", "redial"} => attempt[c] = 1,
           lock' = IF p = "writing" THEN c ELSE IF lock = c THEN None ELSE lock,
           p = "writing" => lock = None,
           lock' # None => writer' # 0
    PROVE  CallTypes /\ Control'
  <1> USE RegAssumption DEF TypeOK, Control, None
  <1>1. CallTypes
    BY DEF CallTypes, Replies
  <1>2. RegisterComesFirst'
    BY DEF RegisterComesFirst, Calls
  <1>3. OneRetry'
    BY DEF OneRetry, Calls
  <1>4. OneWriter'
    BY DEF OneWriter, Calls
  <1> QED
    BY <1>1, <1>2, <1>3, <1>4

(* A transport error: the call is redialled once, then answered.            *)
LEMMA UnavailableMoves ==
    ASSUME TypeOK, Control, NEW c \in Calls, Unavailable(c), pc[c] \notin {"idle", "done"},
           lock' = IF lock = c THEN None ELSE lock,
           lock' # None => writer' # 0
    PROVE  /\ CallTypes /\ Control' /\ CallsMove
           /\ \A d \in Tools : InRetry(d)' => InRetry(d)
  <1>1. CASE attempt[c] # 0
    <2>1. Finish(c, "BrokerUnavailable") /\ "BrokerUnavailable" \in Replies
      BY <1>1 DEF Unavailable, Replies
    <2> QED
      BY <2>1, FinishMoves
  <1>2. CASE attempt[c] = 0
    <2> USE RegAssumption, <1>2 DEF TypeOK, Control, Unavailable, None
    <2>1. CallTypes
      BY ZenonT(30) DEF CallTypes, Replies
    <2>2. RegisterComesFirst'
      BY DEF RegisterComesFirst, Calls
    <2>3. OneRetry'
      BY SMTT(30) DEF OneRetry, Calls
    <2>4. OneWriter'
      BY DEF OneWriter, Calls
    <2>5. CallsMove /\ \A d \in Tools : InRetry(d)' => InRetry(d)
      BY DEF CallsMove, Unwritten, InRetry, Calls
    <2> QED
      BY <2>1, <2>2, <2>3, <2>4, <2>5
  <1> QED
    BY <1>1, <1>2

----------------------------------------------------------------------------
(* Steps                                                                    *)

\* The table of calls in flight, the oneshots and the mutex after a step.
TableTypes ==
    /\ got' \in [Calls -> {None, "ok", "SessionNotFound", "closed"}]
    /\ inflight' \subseteq Ids
    /\ lock' \in Calls \cup {None}

(* The invariant, in the groups the steps are taken in.                     *)
LEMMA InvGroups ==
    /\ Inv <=> /\ TypeOK /\ Control /\ DownServesNobody /\ FrameInv
               /\ RetriesGoElsewhere /\ OkMeansRan
    /\ Inv' <=> /\ TypeOK' /\ Control' /\ DownServesNobody' /\ FrameInv'
                /\ RetriesGoElsewhere' /\ OkMeansRan'
  BY DEF Inv, Control, FrameInv

(* Quiet steps that run no handler.                                         *)
LEMMA QuietStep ==
    ASSUME Inv, CallTypes, Control', CallsMove, TableTypes, Quiet,
           writer' \in 0..Len(conns'), broker' \in {"up", "down"}, crashes' \in Nat, ran' = ran,
           \A c \in Tools : got'[c] = "ok" => got[c] = "ok",
           RetriesGoElsewhere', DownServesNobody'
    PROVE  Inv'
  <1>1. TypeOK'
    BY InvGroups DEF TypeOK, CallTypes, TableTypes, Quiet, Replies
  <1>2. FramesKept
    BY QuietKeepsFrames, InvGroups
  <1>3. FrameInv'
    BY <1>2, FramesStand, InvGroups DEF CallsMove
  <1>4. OkMeansRan'
    BY QuietKeepsResponses, OkStands, InvGroups
  <1> QED
    BY <1>1, <1>3, <1>4, InvGroups

(* Steps of the bridge that touch no connection.                            *)
LEMMA ClientStep ==
    ASSUME Inv, CallTypes, Control', CallsMove, TableTypes,
           UNCHANGED <<conns, writer, broker, crashes, ran>>,
           \A c \in Tools : got'[c] = "ok" => got[c] = "ok",
           \A c \in Tools : InRetry(c)' => InRetry(c)
    PROVE  Inv'
  <1>1. TypeOK
    BY InvGroups
  <1>2. Quiet
    BY <1>1, QuietStands
  <1>3. writer' \in 0..Len(conns') /\ broker' \in {"up", "down"} /\ crashes' \in Nat
    BY <1>1 DEF TypeOK
  <1>4. DownServesNobody'
    BY InvGroups DEF DownServesNobody
  <1>5. \A k \in DOMAIN conns : (Registers(k)' => Registers(k)) /\ (conns'[k].sopen => conns[k].sopen)
    BY DEF Registers, Holds, Places, At
  <1>6. RetriesGoElsewhere'
    BY <1>1, <1>5, ElsewhereStands, InvGroups
  <1> QED
    BY <1>2, <1>3, <1>4, <1>6, QuietStep

(* Steps of the bridge that add a connection: the broker is up.             *)
LEMMA AttachStep ==
    ASSUME Inv, NEW c \in Calls, Attach(c), broker = "up", pc[c] \in {"dial", "redial"}
    PROVE  Inv'
  <1>1. TypeOK /\ Control
    BY InvGroups
  <1>2. /\ UNCHANGED <<got, inflight, lock, broker, crashes, ran>> /\ lock = None
        /\ \/ pc' = [pc EXCEPT ![c] = "insert"] /\ UNCHANGED <<mode, reply, attempt>>
           \/ Finish(c, "Timeout")
    BY DEF Attach, server
  <1>3. c # None
    BY RegAssumption DEF Calls, None
  <1>4. CallTypes /\ Control' /\ CallsMove
    <2>1. CASE pc' = [pc EXCEPT ![c] = "insert"] /\ UNCHANGED <<mode, reply, attempt>>
      <3>1. CallTypes /\ Control'
        BY <1>1, <1>2, <1>3, <2>1, CallMoves DEF Control, RegisterComesFirst
      <3>2. CallsMove
        BY <1>1, <2>1 DEF CallsMove, Unwritten, Control, OneRetry, TypeOK, Calls
      <3> QED
        BY <3>1, <3>2
    <2>2. CASE Finish(c, "Timeout")
      <3>1. "Timeout" \in Replies
        BY DEF Replies
      <3> QED
        BY <1>1, <1>2, <1>3, <2>2, <3>1, FinishMoves
    <2> QED
      BY <1>2, <2>1, <2>2
  <1>5. TableTypes
    BY <1>1, <1>2 DEF TableTypes, TypeOK
  <1>6. Quiet /\ writer' \in 0..Len(conns')
    BY <1>1, QuietAttach, LenProperties DEF TypeOK
  <1>7. RetriesGoElsewhere'
    BY <1>1, ElsewhereAttach
  <1>8. DownServesNobody'
    BY <1>2 DEF DownServesNobody
  <1> QED
    BY <1>1, <1>2, <1>4, <1>5, <1>6, <1>7, <1>8, QuietStep DEF TypeOK

(* Steps in which the broker dies or is killed.                             *)
LEMMA SeveredStep ==
    ASSUME Inv, CallTypes, Control', CallsMove, conns' = Severed,
           UNCHANGED <<got, inflight, lock, writer, ran>>,
           broker' \in {"up", "down"}, crashes' \in Nat
    PROVE  Inv'
  <1>1. TypeOK
    BY InvGroups
  <1>2. /\ Quiet /\ Len(conns') = Len(conns) /\ DOMAIN conns' = DOMAIN conns
        /\ \A k \in DOMAIN conns : ~conns'[k].sopen
    BY <1>1, QuietSevered
  <1>3. DownServesNobody'
    BY <1>2 DEF DownServesNobody
  <1>4. writer' \in 0..Len(conns') /\ (writer' # 0 => writer' \in DOMAIN conns)
    BY <1>1, <1>2, LenProperties DEF TypeOK
  <1>5. RetriesGoElsewhere'
    BY <1>2, <1>4 DEF RetriesGoElsewhere
  <1>6. TableTypes
    BY <1>1 DEF TableTypes, TypeOK
  <1> QED
    BY <1>2, <1>3, <1>4, <1>5, <1>6, QuietStep

(* Steps in which a connection's frames are served or its tasks end; no     *)
(* call moves.                                                              *)
LEMMA ConnStep ==
    ASSUME Inv, NEW k \in DOMAIN conns,
           \/ dispatch_json_message(k) \/ reader_exit(k) \/ conn_read(k)
           \/ conn_dispatch(k) \/ conn_eof(k)
    PROVE  Inv'
  <1>1. TypeOK /\ Control /\ FrameInv /\ DownServesNobody /\ RetriesGoElsewhere /\ OkMeansRan /\ OneRetry
    BY InvGroups DEF Control
  <1>2. UNCHANGED <<mode, pc, attempt, reply, writer, lock, broker, crashes>>
    BY DEF dispatch_json_message, reader_exit, conn_read, conn_dispatch, conn_eof, client, server
  <1>3. CallTypes /\ Control' /\ CallsMove /\ \A c \in Tools : InRetry(c)' => InRetry(c)
    BY <1>1, <1>2 DEF CallTypes, Control, CallsMove, Unwritten, InRetry, TypeOK, Replies,
                      RegisterComesFirst, OneRetry, OneWriter
  <1>4. /\ FramesKept /\ conns' \in Seq(Conns) /\ Len(conns') = Len(conns)
        /\ DOMAIN conns' = DOMAIN conns
        /\ \A j \in DOMAIN conns : conns'[j].sopen => conns[j].sopen
    <2>1. CASE reader_exit(k) \/ conn_eof(k)
      <3>1. Quiet /\ Len(conns') = Len(conns)
        BY <1>1, <2>1, QuietFlags DEF reader_exit, conn_eof
      <3>2. FramesKept
        BY <1>1, <3>1, QuietKeepsFrames
      <3>3. DOMAIN conns' = DOMAIN conns
        BY <1>1, <3>1, LenProperties DEF Quiet, TypeOK
      <3> QED
        BY <3>1, <3>2, <3>3 DEF Quiet, Undisturbed
    <2>2. CASE conn_read(k)
      BY <1>1, <2>2, ReadEffect, ServingKeepsFrames
    <2>3. CASE conn_dispatch(k)
      BY <1>1, <2>3, DispatchEffect, ServingKeepsFrames
    <2>4. CASE dispatch_json_message(k)
      BY <1>1, <2>4, ResponseEffect, ServingKeepsFrames
    <2> QED
      BY <2>1, <2>2, <2>3, <2>4
  <1>5. RetriesGoElsewhere'
    BY <1>1, <1>2, <1>3, <1>4, KeptFrames, ElsewhereStands
  <1>6. DownServesNobody'
    BY <1>1, <1>2, <1>4 DEF DownServesNobody
  <1>7. TableTypes
    <2>1. CASE dispatch_json_message(k)
      <3>1. Head(conns[k].down).result \in {"ok", "SessionNotFound"}
        BY <1>1, <2>1, ResponseEffect
      <3> QED
        BY <1>1, <1>2, <2>1, <3>1 DEF dispatch_json_message, TableTypes, TypeOK
    <2>2. CASE reader_exit(k)
      BY <1>1, <1>2, <2>2 DEF reader_exit, TableTypes, TypeOK
    <2>3. CASE conn_read(k) \/ conn_dispatch(k) \/ conn_eof(k)
      BY <1>1, <1>2, <2>3 DEF conn_read, conn_dispatch, conn_eof, client, TableTypes, TypeOK
    <2> QED
      BY <2>1, <2>2, <2>3
  <1>8. ran' \in [Calls -> Nat]
    <2>1. CASE conn_dispatch(k)
      <3>1. conns[k].busy \in Ids /\ conns[k].busy[1] \in Calls
        BY <1>1, <2>1, DispatchEffect, IdsAreFrames
      <3> QED
        BY <1>1, <2>1, <3>1 DEF conn_dispatch, TypeOK
    <2>2. CASE ~conn_dispatch(k)
      BY <1>1, <2>2 DEF dispatch_json_message, reader_exit, conn_read, conn_eof, server, TypeOK
    <2> QED
      BY <2>1, <2>2
  <1>9. TypeOK'
    BY <1>1, <1>2, <1>3, <1>4, <1>7, <1>8 DEF TypeOK, CallTypes, TableTypes, Replies
  <1>10. FrameInv'
    <2>1. CASE conn_dispatch(k)
      BY <1>1, <2>1, FramesDispatch
    <2>2. CASE ~conn_dispatch(k)
      <3>1. ran' = ran
        BY <2>2 DEF dispatch_json_message, reader_exit, conn_read, conn_eof, server
      <3> QED
        BY <1>1, <1>3, <1>4, <3>1, FramesStand DEF CallsMove
    <2> QED
      BY <2>1, <2>2
  <1>11. OkMeansRan'
    <2>1. CASE dispatch_json_message(k)
      BY <1>1, <2>1, OkResponse
    <2>2. CASE conn_dispatch(k)
      BY <1>1, <2>2, OkDispatch
    <2>3. CASE reader_exit(k)
      <3>1. Quiet
        BY <1>1, <2>3, QuietFlags DEF reader_exit
      <3>2. ran' = ran /\ \A c \in Tools : got'[c] = "ok" => got[c] = "ok"
        BY <2>3 DEF reader_exit, server, Calls
      <3> QED
        BY <1>1, <3>1, <3>2, QuietKeepsResponses, OkStands
    <2>4. CASE conn_eof(k)
      <3>1. Quiet
        BY <1>1, <2>4, QuietFlags DEF conn_eof
      <3>2. ran' = ran /\ got' = got
        BY <2>4 DEF conn_eof, server
      <3> QED
        BY <1>1, <3>1, <3>2, QuietKeepsResponses, OkStands
    <2>5. CASE conn_read(k)
      <3>1. ResponsesKept
        BY <1>1, <2>5, ReadEffect DEF ResponsesKept
      <3>2. ran' = ran /\ got' = got
        BY <2>5 DEF conn_read, server
      <3> QED
        BY <1>1, <3>1, <3>2, OkStands
    <2> QED
      BY <2>1, <2>2, <2>3, <2>4, <2>5
  <1> QED
    BY <1>3, <1>5, <1>6, <1>9, <1>10, <1>11, InvGroups

(* write_line, when the broker serves the connection and when it does not.  *)
LEMMA WriteStep ==
    ASSUME Inv, NEW c \in Calls, write_line(c)
    PROVE  Inv'
  <1>1. TypeOK /\ Control /\ FrameInv /\ DownServesNobody /\ RetriesGoElsewhere /\ OkMeansRan
        /\ RegisterComesFirst /\ OneRetry /\ OneWriter
    BY InvGroups DEF Control
  <1>2. /\ pc[c] = "writing" /\ lock = c /\ lock' = None /\ c # None /\ writer # 0
        /\ UNCHANGED <<got, broker, crashes, ran>>
    BY <1>1, RegAssumption DEF write_line, OneWriter, server, Calls, None
  <1>3. writer \in DOMAIN conns
    BY <1>1, <1>2, LenProperties DEF TypeOK
  <1>4. CASE conns[writer].sopen
    <2>1. pc' = [pc EXCEPT ![c] = "wait"] /\ UNCHANGED <<mode, attempt, reply, inflight, writer>>
      BY <1>4 DEF write_line
    <2>2. CallTypes /\ Control'
      BY <1>1, <1>2, <2>1, CallMoves DEF RegisterComesFirst
    <2>3. \A d \in Tools : InRetry(d)' => InRetry(d)
      BY <1>1, <1>2, <2>1 DEF InRetry, TypeOK, Calls
    <2>4. TableTypes
      BY <1>1, <1>2, <2>1 DEF TableTypes, TypeOK
    <2>5. /\ conns' \in Seq(Conns) /\ Len(conns') = Len(conns) /\ DOMAIN conns' = DOMAIN conns
          /\ \A k \in DOMAIN conns : /\ conns'[k].sopen => conns[k].sopen
                                     /\ conns'[k].down = conns[k].down
      <3>1. /\ conns' \in Seq(Conns) /\ Len(conns') = Len(conns) /\ DOMAIN conns' = DOMAIN conns
            /\ \A j \in DOMAIN conns \ {writer} : conns'[j] = conns[j]
            /\ conns'[writer].down = conns[writer].down
            /\ conns'[writer].sopen = conns[writer].sopen
        BY <1>1, <1>4, WriteEffect
      <3> QED
        BY <3>1
    <2>6. FrameInv' /\ (c # Reg => \A k \in DOMAIN conns : Registers(k)' => Registers(k))
      BY <1>1, <1>4, FramesWrite
    <2>7. TypeOK'
      BY <1>1, <1>2, <2>1, <2>2, <2>4, <2>5 DEF TypeOK, CallTypes, TableTypes, Replies
    <2>8. DownServesNobody'
      BY <1>1, <1>2, <2>5 DEF DownServesNobody
    <2>9. OkMeansRan'
      <3>1. ResponsesKept
        <4> SUFFICES ASSUME NEW k \in DOMAIN conns', NEW i \in DOMAIN conns'[k].down
                     PROVE  k \in DOMAIN conns
                            /\ \E j \in DOMAIN conns[k].down : conns'[k].down[i] = conns[k].down[j]
          BY DEF ResponsesKept
        <4>1. k \in DOMAIN conns
          BY <2>5
        <4>2. conns'[k].down = conns[k].down
          BY <2>5, <4>1
        <4> QED
          BY <4>1, <4>2
      <3> QED
        BY <1>1, <1>2, <3>1, OkStands
    <2>10. RetriesGoElsewhere'
      <3>1. CASE c # Reg
        BY <1>1, <2>1, <2>3, <2>5, <2>6, <3>1, ElsewhereStands
      <3>2. CASE c = Reg
        <4>1. \A d \in Tools : attempt'[d] = 0
          BY <1>1, <1>2, <2>1, <3>2 DEF RegisterComesFirst, OneRetry
        <4> QED
          BY <4>1 DEF RetriesGoElsewhere
      <3> QED
        BY <3>1, <3>2
    <2> QED
      BY <2>2, <2>6, <2>7, <2>8, <2>9, <2>10, InvGroups
  <1>5. CASE ~conns[writer].sopen
    <2>1. /\ conns' = [conns EXCEPT ![writer].wopen = FALSE] /\ writer' = 0
          /\ inflight' = inflight \ {Id(c)} /\ Unavailable(c)
      BY <1>5 DEF write_line
    <2>2. CallTypes /\ Control' /\ CallsMove
      BY <1>1, <1>2, <2>1, UnavailableMoves
    <2>3. TableTypes
      BY <1>1, <1>2, <2>1 DEF TableTypes, TypeOK
    <2>4. Quiet /\ Len(conns') = Len(conns)
      BY <1>1, <1>3, <2>1, QuietFlags
    <2>5. DOMAIN conns' = DOMAIN conns
      BY <1>1, <2>4, LenProperties DEF Quiet, TypeOK
    <2>6. DownServesNobody'
      BY <1>1, <1>2, <2>4, <2>5 DEF DownServesNobody, Quiet, Undisturbed
    <2>7. RetriesGoElsewhere'
      BY <2>1 DEF RetriesGoElsewhere
    <2>8. writer' \in 0..Len(conns') /\ broker' \in {"up", "down"} /\ crashes' \in Nat
      BY <1>1, <1>2, <2>1, <2>4, LenProperties DEF TypeOK, Quiet
    <2> QED
      BY <1>2, <2>2, <2>3, <2>4, <2>6, <2>7, <2>8, QuietStep
  <1> QED
    BY <1>4, <1>5

(* A cancellation drops the call, at a write perhaps in the middle of it.   *)
LEMMA CancelStep ==
    ASSUME Inv, NEW c \in Calls, handle_cancelled(c)
    PROVE  Inv'
  <1>1. TypeOK /\ Control /\ DownServesNobody /\ RetriesGoElsewhere /\ OneWriter
    BY InvGroups DEF Control
  <1>2. /\ pc[c] \notin {"idle", "done"} /\ Finish(c, "Cancelled") /\ "Cancelled" \in Replies
        /\ lock' = (IF lock = c THEN None ELSE lock)
        /\ UNCHANGED <<got, inflight, writer, broker, crashes, ran>>
    BY DEF handle_cancelled, server, Replies
  <1>3. lock' # None => writer' # 0
    BY <1>1, <1>2 DEF OneWriter
  <1>4. CallTypes /\ Control' /\ CallsMove /\ \A d \in Tools : InRetry(d)' => InRetry(d)
    BY <1>1, <1>2, <1>3, FinishMoves
  <1>5. TableTypes
    BY <1>1, <1>2 DEF TableTypes, TypeOK
  <1>6. CASE UNCHANGED conns
    BY <1>2, <1>4, <1>5, <1>6, ClientStep
  <1>7. CASE pc[c] = "writing" /\ conns' = [conns EXCEPT ![writer].torn = TRUE]
    <2>1. writer \in DOMAIN conns
      <3>1. lock = c /\ c # None
        BY <1>1, <1>7, RegAssumption DEF OneWriter, Calls, None
      <3> QED
        BY <1>1, <3>1, LenProperties DEF OneWriter, TypeOK
    <2>2. Quiet /\ Len(conns') = Len(conns)
      BY <1>1, <1>7, <2>1, QuietFlags
    <2>3. DOMAIN conns' = DOMAIN conns
      BY <1>1, <2>2, LenProperties DEF Quiet, TypeOK
    <2>4. FramesKept
      BY <1>1, <2>2, QuietKeepsFrames
    <2>5. RetriesGoElsewhere'
      BY <1>1, <1>2, <1>4, <2>2, <2>3, <2>4, KeptFrames, ElsewhereStands DEF Quiet, Undisturbed
    <2>6. DownServesNobody'
      BY <1>1, <1>2, <2>2, <2>3 DEF DownServesNobody, Quiet, Undisturbed
    <2>7. writer' \in 0..Len(conns') /\ broker' \in {"up", "down"} /\ crashes' \in Nat
      BY <1>1, <1>2, <2>2 DEF TypeOK
    <2> QED
      BY <1>2, <1>4, <1>5, <2>2, <2>5, <2>6, <2>7, QuietStep
  <1> QED
    BY <1>6, <1>7 DEF handle_cancelled

(* The other steps of a call.                                               *)
LEMMA TaskStep ==
    ASSUME Inv, NEW c \in Calls,
           \/ run_brokerless(c) \/ send_insert(c) \/ send_lock(c) \/ send_receive(c)
           \/ send_timeout(c) \/ dial_first(c) \/ dial_down(c) \/ kickstart_launchd(c)
           \/ dial_backoff(c)
    PROVE  Inv'
  <1>1. TypeOK /\ Control /\ RegisterComesFirst /\ OneRetry /\ OneWriter
    BY InvGroups DEF Control
  <1>2. /\ {"BrokerUnavailable", "Timeout", "ok", "SessionNotFound"} \subseteq Replies
        /\ c # None /\ (pc[c] # "writing" => lock # c) /\ lock \in Calls \cup {None}
        /\ (lock # None => writer # 0)
    BY <1>1, RegAssumption DEF Replies, Calls, None, OneWriter, TypeOK
  <1>3. c \in Tools /\ pc[c] # "idle" => pc[Reg] = "done"
    BY <1>1 DEF RegisterComesFirst
  <1>4. CASE run_brokerless(c)
    <2>1. /\ pc[c] = "stub" /\ Finish(c, "BrokerUnavailable")
          /\ UNCHANGED <<got, inflight, writer, lock, conns, broker, crashes, ran>>
      BY <1>4 DEF run_brokerless, server
    <2>2. CallTypes /\ Control' /\ CallsMove /\ \A d \in Tools : InRetry(d)' => InRetry(d)
      BY <1>1, <1>2, <2>1, FinishMoves
    <2> QED
      BY <1>1, <2>1, <2>2, ClientStep DEF TableTypes, TypeOK
  <1>5. CASE send_insert(c)
    <2>1. /\ pc[c] = "insert" /\ pc' = [pc EXCEPT ![c] = "lock"]
          /\ inflight' = inflight \cup {Id(c)} /\ got' = [got EXCEPT ![c] = None]
          /\ UNCHANGED <<mode, attempt, reply, writer, lock, conns, broker, crashes, ran>>
      BY <1>5 DEF send_insert, server
    <2>2. CallTypes /\ Control'
      BY <1>1, <1>2, <1>3, <2>1, CallMoves
    <2>3. CallsMove /\ \A d \in Tools : InRetry(d)' => InRetry(d)
      BY <1>1, <2>1 DEF CallsMove, Unwritten, InRetry, TypeOK, Calls
    <2>4. TableTypes
      BY <1>1, <2>1 DEF TableTypes, TypeOK, Id, Ids
    <2>5. \A d \in Tools : got'[d] = "ok" => got[d] = "ok"
      BY <1>1, <2>1 DEF TypeOK, Calls, None
    <2> QED
      BY <2>1, <2>2, <2>3, <2>4, <2>5, ClientStep
  <1>6. CASE send_lock(c)
    <2>1. /\ pc[c] = "lock" /\ lock = None
          /\ UNCHANGED <<got, inflight, writer, conns, broker, crashes, ran>>
      BY <1>6 DEF send_lock, server
    <2>2. CallTypes /\ Control' /\ CallsMove /\ (\A d \in Tools : InRetry(d)' => InRetry(d))
          /\ lock' \in Calls \cup {None}
      <3>1. CASE writer = 0
        <4>1. Unavailable(c) /\ lock' = lock
          BY <1>6, <3>1 DEF send_lock
        <4> QED
          BY <1>1, <1>2, <2>1, <4>1, UnavailableMoves
      <3>2. CASE writer # 0
        <4>1. lock' = c /\ pc' = [pc EXCEPT ![c] = "writing"] /\ UNCHANGED <<mode, attempt, reply>>
          BY <1>6, <3>2 DEF send_lock
        <4>2. CallTypes /\ Control'
          BY <1>1, <1>2, <1>3, <2>1, <3>2, <4>1, CallMoves
        <4>3. CallsMove /\ \A d \in Tools : InRetry(d)' => InRetry(d)
          BY <1>1, <2>1, <4>1 DEF CallsMove, Unwritten, InRetry, TypeOK, Calls
        <4> QED
          BY <4>1, <4>2, <4>3
      <3> QED
        BY <3>1, <3>2
    <2> QED
      BY <1>1, <2>1, <2>2, ClientStep DEF TableTypes, TypeOK
  <1>7. CASE send_receive(c)
    <2>1. /\ pc[c] = "wait" /\ got[c] # None
          /\ IF got[c] = "closed" THEN Unavailable(c) ELSE Finish(c, got[c])
          /\ UNCHANGED <<got, inflight, writer, lock, conns, broker, crashes, ran>>
      BY <1>7 DEF send_receive, server
    <2>2. got[c] \in {"ok", "SessionNotFound", "closed"}
      BY <1>1, <2>1 DEF TypeOK
    <2>3. CallTypes /\ Control' /\ CallsMove /\ \A d \in Tools : InRetry(d)' => InRetry(d)
      <3>1. CASE got[c] = "closed"
        BY <1>1, <1>2, <2>1, <3>1, UnavailableMoves
      <3>2. CASE got[c] # "closed"
        <4>1. got[c] \in Replies /\ Finish(c, got[c])
          BY <1>2, <2>1, <2>2, <3>2
        <4> QED
          BY <1>1, <1>2, <2>1, <4>1, FinishMoves
      <3> QED
        BY <3>1, <3>2
    <2> QED
      BY <1>1, <2>1, <2>3, ClientStep DEF TableTypes, TypeOK
  <1>8. CASE send_timeout(c)
    <2>1. /\ pc[c] = "wait" /\ Finish(c, "Timeout") /\ inflight' = inflight \ {Id(c)}
          /\ UNCHANGED <<got, writer, lock, conns, broker, crashes, ran>>
      BY <1>8 DEF send_timeout, server
    <2>2. CallTypes /\ Control' /\ CallsMove /\ \A d \in Tools : InRetry(d)' => InRetry(d)
      BY <1>1, <1>2, <2>1, FinishMoves
    <2> QED
      BY <1>1, <2>1, <2>2, ClientStep DEF TableTypes, TypeOK
  <1>9. CASE dial_first(c)
    BY <1>9, AttachStep DEF dial_first
  <1>10. CASE dial_down(c)
    <2>1. /\ pc[c] = "dial" /\ pc' = [pc EXCEPT ![c] = "kick"]
          /\ UNCHANGED <<mode, attempt, reply, got, inflight, writer, lock, conns, broker, crashes, ran>>
      BY <1>10 DEF dial_down, client, server
    <2>2. CallTypes /\ Control'
      BY <1>1, <1>2, <1>3, <2>1, CallMoves DEF OneRetry
    <2>3. CallsMove /\ \A d \in Tools : InRetry(d)' => InRetry(d)
      BY <1>1, <2>1 DEF CallsMove, Unwritten, InRetry, TypeOK, Calls
    <2> QED
      BY <1>1, <2>1, <2>2, <2>3, ClientStep DEF TableTypes, TypeOK
  <1>11. CASE kickstart_launchd(c)
    <2>1. /\ pc[c] = "kick" /\ pc' = [pc EXCEPT ![c] = "redial"] /\ conns' = Severed
          /\ broker' \in {"up", "down"}
          /\ UNCHANGED <<mode, attempt, reply, got, inflight, writer, lock, crashes, ran>>
      BY <1>11 DEF kickstart_launchd, client
    <2>2. CallTypes /\ Control'
      BY <1>1, <1>2, <1>3, <2>1, CallMoves DEF OneRetry
    <2>3. CallsMove
      BY <1>1, <2>1 DEF CallsMove, Unwritten, TypeOK, Calls
    <2> QED
      BY <1>1, <2>1, <2>2, <2>3, SeveredStep DEF TypeOK
  <1>12. CASE dial_backoff(c)
    <2>1. CASE broker = "up"
      BY <1>12, <2>1, AttachStep DEF dial_backoff
    <2>2. CASE broker # "up"
      <3>1. /\ pc[c] = "redial"
            /\ \/ Finish(c, "BrokerUnavailable") \/ Finish(c, "Timeout")
               \/ attempt[c] # 0 /\ pc' = [pc EXCEPT ![c] = "insert"] /\ UNCHANGED <<mode, reply, attempt>>
            /\ UNCHANGED <<got, inflight, writer, lock, conns, broker, crashes, ran>>
        BY <1>12, <2>2 DEF dial_backoff, NoDial, server
      <3>2. CASE Finish(c, "BrokerUnavailable") \/ Finish(c, "Timeout")
        <4>1. CallTypes /\ Control' /\ CallsMove /\ \A d \in Tools : InRetry(d)' => InRetry(d)
          BY <1>1, <1>2, <3>1, <3>2, FinishMoves
        <4> QED
          BY <1>1, <3>1, <4>1, ClientStep DEF TableTypes, TypeOK
      <3>3. CASE attempt[c] # 0 /\ pc' = [pc EXCEPT ![c] = "insert"] /\ UNCHANGED <<mode, reply, attempt>>
        <4>1. CallTypes /\ Control'
          BY <1>1, <1>2, <1>3, <3>1, <3>3, CallMoves
        <4>2. CallsMove /\ \A d \in Tools : InRetry(d)' => InRetry(d)
          BY <1>1, <3>1, <3>3 DEF CallsMove, Unwritten, InRetry, TypeOK, Calls
        <4> QED
          BY <1>1, <3>1, <4>1, <4>2, ClientStep DEF TableTypes, TypeOK
      <3> QED
        BY <3>1, <3>2, <3>3
    <2> QED
      BY <2>1, <2>2
  <1> QED
    BY <1>4, <1>5, <1>6, <1>7, <1>8, <1>9, <1>10, <1>11, <1>12

(* The stdio loop: a call begins, stdin ends, what runs is aborted.         *)
LEMMA StdioStep ==
    ASSUME Inv, stdin_eof \/ broker_dies \/ \E c \in Tools : handle_tools_call(c) \/ abort_all(c)
    PROVE  Inv'
  <1>1. TypeOK /\ Control /\ RegisterComesFirst /\ OneRetry /\ OneWriter
    BY InvGroups DEF Control
  <1>2. ASSUME NEW c \in Tools, handle_tools_call(c)
        PROVE  Inv'
    <2>1. PICK p \in {"insert", "stub"} :
               /\ pc[c] = "idle" /\ mode # "starting" /\ pc' = [pc EXCEPT ![c] = p]
               /\ UNCHANGED <<mode, attempt, reply, got, inflight, writer, lock, conns, broker, crashes, ran>>
      BY <1>2 DEF handle_tools_call, client, server
    <2>2. /\ c \in Calls /\ c # None /\ lock # c /\ pc[Reg] = "done"
          /\ (lock # None => writer # 0)
      BY <1>1, <2>1, RegAssumption DEF Calls, None, OneWriter, RegisterComesFirst
    <2>3. CallTypes /\ Control'
      BY <1>1, <2>1, <2>2, CallMoves
    <2>4. CallsMove /\ \A d \in Tools : InRetry(d)' => InRetry(d)
      BY <1>1, <2>1 DEF CallsMove, Unwritten, InRetry, TypeOK, Calls, OneRetry
    <2> QED
      BY <1>1, <2>1, <2>3, <2>4, ClientStep DEF TableTypes, TypeOK
  <1>3. ASSUME NEW c \in Tools, abort_all(c)
        PROVE  Inv'
    <2>1. /\ pc[c] \notin {"idle", "done"} /\ Finish(c, "aborted") /\ "aborted" \in Replies
          /\ lock' = (IF lock = c THEN None ELSE lock) /\ c \in Calls
          /\ UNCHANGED <<got, inflight, writer, conns, broker, crashes, ran>>
      BY <1>3 DEF abort_all, server, Replies, Calls
    <2>2. lock' # None => writer' # 0
      BY <1>1, <2>1 DEF OneWriter
    <2>3. CallTypes /\ Control' /\ CallsMove /\ \A d \in Tools : InRetry(d)' => InRetry(d)
      BY <1>1, <2>1, <2>2, FinishMoves
    <2> QED
      BY <1>1, <2>1, <2>3, ClientStep DEF TableTypes, TypeOK
  <1>4. CASE stdin_eof
    <2>1. /\ mode = "serving" /\ mode' = "closing"
          /\ UNCHANGED <<pc, attempt, reply, got, inflight, writer, lock, conns, broker, crashes, ran>>
      BY <1>4 DEF stdin_eof, server
    <2>2. CallTypes /\ Control'
      BY <1>1, <2>1 DEF CallTypes, TypeOK, Replies, Control, RegisterComesFirst, OneRetry, OneWriter
    <2>3. CallsMove /\ \A d \in Tools : InRetry(d)' => InRetry(d)
      BY <2>1 DEF CallsMove, Unwritten, InRetry
    <2> QED
      BY <1>1, <2>1, <2>2, <2>3, ClientStep DEF TableTypes, TypeOK
  <1>5. CASE broker_dies
    <2>1. /\ broker' = "down" /\ crashes' = crashes + 1 /\ conns' = Severed
          /\ UNCHANGED <<mode, pc, attempt, reply, got, inflight, writer, lock, ran>>
      BY <1>5 DEF broker_dies, client
    <2>2. CallTypes /\ Control'
      BY <1>1, <2>1 DEF CallTypes, TypeOK, Replies, Control, RegisterComesFirst, OneRetry, OneWriter
    <2>3. CallsMove
      BY <2>1 DEF CallsMove, Unwritten
    <2> QED
      BY <1>1, <2>1, <2>2, <2>3, SeveredStep DEF TypeOK
  <1> QED
    BY <1>2, <1>3, <1>4, <1>5

----------------------------------------------------------------------------
(* Theorems                                                                 *)

(* The bridge starts with no connection and nothing sent.                   *)
LEMMA InitInv == Init => Inv
  <1> SUFFICES ASSUME Init PROVE Inv
    OBVIOUS
  <1>1. conns = <<>> /\ DOMAIN conns = {} /\ Len(conns) = 0 /\ conns \in Seq(Conns)
    BY DEF Init
  <1>2. TypeOK
    BY <1>1 DEF Init, TypeOK, None
  <1>3. RegisterComesFirst /\ OneRetry /\ OneWriter
    BY RegAssumption DEF Init, RegisterComesFirst, OneRetry, OneWriter, Calls, None
  <1>4. FramesWereWritten /\ FirstFrameOnce
    BY <1>1 DEF Init, FramesWereWritten, FirstFrameOnce, Sent, Calls
  <1>5. DownServesNobody /\ RetriesHaveNoSession /\ RetriesGoElsewhere
    BY <1>1 DEF Init, DownServesNobody, RetriesHaveNoSession, RetriesGoElsewhere
  <1>6. OkMeansRan
    BY <1>1 DEF Init, OkMeansRan, Calls, None
  <1> QED
    BY <1>2, <1>3, <1>4, <1>5, <1>6 DEF Inv

(* Every step keeps the invariant.                                          *)
LEMMA StepInv == Inv /\ [Next]_vars => Inv'
  <1> SUFFICES ASSUME Inv, [Next]_vars PROVE Inv'
    OBVIOUS
  <1>1. ASSUME NEW c \in Calls, Task(c) PROVE Inv'
    <2>1. CASE write_line(c)
      BY <2>1, WriteStep
    <2>2. CASE ~write_line(c)
      BY <1>1, <2>2, TaskStep DEF Task
    <2> QED
      BY <2>1, <2>2
  <1>2. ASSUME NEW c \in Calls, handle_cancelled(c) PROVE Inv'
    BY <1>2, CancelStep
  <1>3. ASSUME stdin_eof \/ broker_dies \/ \E c \in Tools : handle_tools_call(c) \/ abort_all(c)
        PROVE  Inv'
    BY <1>3, StdioStep
  <1>4. ASSUME NEW k \in DOMAIN conns,
               \/ dispatch_json_message(k) \/ reader_exit(k) \/ conn_read(k)
               \/ conn_dispatch(k) \/ conn_eof(k)
        PROVE  Inv'
    BY <1>4, ConnStep
  <1>5. CASE UNCHANGED vars
    <2>1. UNCHANGED <<mode, pc, attempt, got, reply, inflight, writer, lock, conns, broker, crashes, ran>>
      BY <1>5 DEF vars
    <2>2. CallTypes /\ Control' /\ TableTypes
      BY <2>1, InvGroups DEF CallTypes, TableTypes, TypeOK, Replies, Control, RegisterComesFirst,
                             OneRetry, OneWriter
    <2>3. CallsMove /\ \A d \in Tools : InRetry(d)' => InRetry(d)
      BY <2>1 DEF CallsMove, Unwritten, InRetry
    <2> QED
      BY <2>1, <2>2, <2>3, ClientStep
  <1> QED
    BY <1>1, <1>2, <1>3, <1>4, <1>5 DEF Next

(* The invariant of the bridge holds at all times, for any set of calls and
   any number of deaths of the broker.                                      *)
THEOREM Invariance == Spec => []Inv
  BY InitInv, StepInv, PTL DEF Spec

(* No call's handler runs twice (send_with_timeout's retry against the
   broker's dispatch), whatever dies, is retried or is cancelled.           *)
THEOREM RunsAtMostOnceSafety == Spec => []RunsAtMostOnce
  <1>1. Inv => RunsAtMostOnce
    <2> SUFFICES ASSUME Inv, NEW c \in Tools PROVE ran[c] <= 1
      BY DEF RunsAtMostOnce
    <2>1. ran[c] = 0 \/ ran[c] = 1
      BY DEF Inv, FirstFrameOnce
    <2> QED
      BY <2>1
  <1> QED
    BY <1>1, Invariance, PTL

----------------------------------------------------------------------------
(* The promise of ToolCalls                                                 *)

(* What the agent sees of a step that begins, runs and ends no tool call.   *)
LEMMA PromiseStutters ==
    ASSUME reply' = reply, \A c \in Tools : pc'[c] = "idle" <=> pc[c] = "idle",
           \A c \in Tools : ran'[c] = ran[c]
    PROVE  UNCHANGED Promise!vars
  BY DEF Promise!vars

(* What the agent sees of a call that ends.                                 *)
LEMMA PromiseEnds ==
    ASSUME Inv, NEW c \in Calls, NEW r \in Replies, Finish(c, r), ran' = ran,
           pc[c] \notin {"idle", "done"}, c \in Tools /\ r = "ok" => ran[c] # 0
    PROVE  [Promise!Next]_Promise!vars
  <1>1. /\ TypeOK /\ OneRetry /\ \A d \in Tools : d \in Calls
        /\ pc' = [pc EXCEPT ![c] = "done"] /\ reply' = [reply EXCEPT ![c] = r]
    BY DEF Inv, Finish, Calls
  <1>2. \A d \in Tools : pc'[d] = "idle" <=> pc[d] = "idle"
    BY <1>1 DEF TypeOK
  <1>3. CASE c \notin Tools
    <2>1. \A d \in Tools : reply'[d] = reply[d]
      BY <1>1, <1>3 DEF TypeOK
    <2> QED
      BY <1>2, <2>1 DEF Promise!vars
  <1>4. CASE c \in Tools
    <2>1. reply[c] = None /\ Outcome(reply[c]) = "none"
      BY <1>1, <1>4 DEF OneRetry, Outcome
    <2>2. Promise!Open(c)
      BY <1>4, <2>1 DEF Promise!Open
    <2>3. /\ UNCHANGED <<{d \in Tools : pc[d] # "idle"}, {d \in Tools : ran[d] > 0}>>
          /\ [d \in Tools |-> Outcome(reply[d])]'
               = [[d \in Tools |-> Outcome(reply[d])] EXCEPT ![c] = Outcome(r)]
      BY <1>1, <1>2, <1>4 DEF TypeOK
    <2>4. CASE r = "ok"
      <3>1. Outcome(r) = "ok" /\ ran[c] > 0
        BY <1>1, <1>4, <2>4 DEF Outcome, None, TypeOK
      <3>2. Promise!Succeed(c)
        BY <1>4, <2>2, <2>3, <3>1 DEF Promise!Succeed
      <3> QED
        BY <1>4, <3>2 DEF Promise!Next
    <2>5. CASE r # "ok"
      <3>1. Outcome(r) = "error"
        BY <2>5 DEF Outcome, None, Replies
      <3>2. Promise!Fail(c)
        BY <1>4, <2>2, <2>3, <3>1 DEF Promise!Fail
      <3> QED
        BY <1>4, <3>2 DEF Promise!Next
    <2> QED
      BY <2>4, <2>5
  <1> QED
    BY <1>3, <1>4

(* A call that goes on shows the agent nothing.                             *)
LEMMA PromiseGoesOn ==
    ASSUME TypeOK, NEW c \in Calls, NEW p, p # "idle", pc[c] # "idle",
           pc' = [pc EXCEPT ![c] = p], reply' = reply, ran' = ran
    PROVE  UNCHANGED Promise!vars
  <1>1. \A d \in Tools : pc'[d] = "idle" <=> pc[d] = "idle"
    BY DEF TypeOK, Calls
  <1> QED
    BY <1>1, PromiseStutters

(* A transport error is retried unseen, or told to the agent.               *)
LEMMA PromiseUnavailable ==
    ASSUME Inv, NEW c \in Calls, Unavailable(c), ran' = ran, pc[c] \notin {"idle", "done"}
    PROVE  [Promise!Next]_Promise!vars
  <1>1. CASE attempt[c] = 0
    BY <1>1, PromiseGoesOn DEF Unavailable, Inv
  <1>2. CASE attempt[c] # 0
    BY <1>2, PromiseEnds DEF Unavailable, Replies
  <1> QED
    BY <1>1, <1>2

(* A dial, made or not, lets the call go on or ends it.                     *)
LEMMA PromiseDials ==
    ASSUME Inv, NEW c \in Calls, Attach(c) \/ NoDial(c), pc[c] \in {"dial", "redial"}
    PROVE  [Promise!Next]_Promise!vars
  <1>1. ran' = ran
    BY DEF Attach, NoDial, server
  <1>2. CASE pc' = [pc EXCEPT ![c] = "insert"] /\ reply' = reply
    BY <1>1, <1>2, PromiseGoesOn DEF Inv
  <1>3. CASE Finish(c, "Timeout") \/ Finish(c, "BrokerUnavailable")
    BY <1>1, <1>3, PromiseEnds DEF Replies
  <1> QED
    BY <1>2, <1>3 DEF Attach, NoDial

(* What the agent sees of the steps of a call's task.                       *)
LEMMA PromiseTask ==
    ASSUME Inv, NEW c \in Calls, Task(c)
    PROVE  [Promise!Next]_Promise!vars
  <1>1. TypeOK
    BY DEF Inv
  <1>2. CASE run_brokerless(c)
    BY <1>2, PromiseEnds DEF run_brokerless, server, Replies
  <1>3. CASE send_insert(c)
    BY <1>1, <1>3, PromiseGoesOn DEF send_insert, server
  <1>4. CASE send_lock(c)
    <2>1. pc[c] = "lock" /\ ran' = ran
      BY <1>4 DEF send_lock, server
    <2>2. CASE writer = 0
      BY <1>4, <2>1, <2>2, PromiseUnavailable DEF send_lock
    <2>3. CASE writer # 0
      BY <1>1, <1>4, <2>1, <2>3, PromiseGoesOn DEF send_lock
    <2> QED
      BY <2>2, <2>3
  <1>5. CASE write_line(c)
    <2>1. pc[c] = "writing" /\ ran' = ran
      BY <1>5 DEF write_line, server
    <2>2. CASE conns[writer].sopen
      BY <1>1, <1>5, <2>1, <2>2, PromiseGoesOn DEF write_line
    <2>3. CASE ~conns[writer].sopen
      BY <1>5, <2>1, <2>3, PromiseUnavailable DEF write_line
    <2> QED
      BY <2>2, <2>3
  <1>6. CASE send_receive(c)
    <2>1. pc[c] = "wait" /\ ran' = ran /\ got[c] # None
      BY <1>6 DEF send_receive, server
    <2>2. CASE got[c] = "closed"
      BY <1>6, <2>1, <2>2, PromiseUnavailable DEF send_receive
    <2>3. CASE got[c] # "closed"
      <3>1. Finish(c, got[c]) /\ got[c] \in Replies
        BY <1>1, <1>6, <2>1, <2>3 DEF send_receive, TypeOK, Replies
      <3>2. c \in Tools /\ got[c] = "ok" => ran[c] # 0
        BY DEF Inv, OkMeansRan
      <3> QED
        BY <2>1, <3>1, <3>2, PromiseEnds
    <2> QED
      BY <2>2, <2>3
  <1>7. CASE send_timeout(c)
    BY <1>7, PromiseEnds DEF send_timeout, server, Replies
  <1>8. CASE dial_first(c) \/ dial_backoff(c)
    BY <1>8, PromiseDials DEF dial_first, dial_backoff
  <1>9. CASE dial_down(c) \/ kickstart_launchd(c)
    BY <1>1, <1>9, PromiseGoesOn DEF dial_down, kickstart_launchd, server
  <1> QED
    BY <1>2, <1>3, <1>4, <1>5, <1>6, <1>7, <1>8, <1>9 DEF Task

(* What the agent sees of the broker's side and of the reader tasks.        *)
LEMMA PromiseConn ==
    ASSUME Inv, NEW k \in DOMAIN conns,
           \/ dispatch_json_message(k) \/ reader_exit(k) \/ conn_read(k)
           \/ conn_dispatch(k) \/ conn_eof(k)
    PROVE  [Promise!Next]_Promise!vars
  <1>1. TypeOK /\ OneRetry /\ FrameInv
    BY InvGroups DEF Inv
  <1>2. pc' = pc /\ reply' = reply
    BY DEF dispatch_json_message, reader_exit, conn_read, conn_dispatch, conn_eof
  <1>3. CASE ran' = ran
    BY <1>2, <1>3, PromiseStutters
  <1>4. CASE conn_dispatch(k)
    <2>1. PICK c : \/ ran' = ran
                   \/ c = Reg /\ ran' = [ran EXCEPT ![Reg] = @ + 1]
                   \/ c \in Tools /\ ran[c] = 0 /\ ran' = [ran EXCEPT ![c] = 1] /\ pc[c] # "idle"
      BY <1>1, <1>4, FramesDispatch
    <2>2. CASE ran' = [ran EXCEPT ![Reg] = @ + 1]
      <3>1. \A d \in Tools : ran'[d] = ran[d]
        BY <1>1, <2>2, RegAssumption DEF TypeOK, Calls
      <3> QED
        BY <1>2, <3>1, PromiseStutters
    <2>3. CASE c \in Tools /\ ran[c] = 0 /\ ran' = [ran EXCEPT ![c] = 1] /\ pc[c] # "idle"
      <3>1. {d \in Tools : ran'[d] > 0} = {d \in Tools : ran[d] > 0} \cup {c}
        BY <1>1, <2>3 DEF TypeOK, Calls
      <3>2. c \notin {d \in Tools : ran[d] > 0} /\ c \in {d \in Tools : pc[d] # "idle"}
        BY <2>3
      <3>3. Promise!Run(c)
        BY <1>2, <3>1, <3>2 DEF Promise!Run
      <3> QED
        BY <2>3, <3>3 DEF Promise!Next
    <2> QED
      BY <1>3, <2>1, <2>2, <2>3
  <1>5. ~conn_dispatch(k) => ran' = ran
    BY DEF dispatch_json_message, reader_exit, conn_read, conn_eof, server
  <1> QED
    BY <1>3, <1>4, <1>5

(* What the agent sees of the stdio loop, and of a death of the broker.     *)
LEMMA PromiseStdio ==
    ASSUME Inv, \/ stdin_eof \/ broker_dies
                \/ \E c \in Tools : handle_tools_call(c) \/ abort_all(c)
                \/ \E c \in Calls : handle_cancelled(c)
    PROVE  [Promise!Next]_Promise!vars
  <1>1. TypeOK
    BY DEF Inv
  <1>2. CASE stdin_eof \/ broker_dies
    BY <1>2, PromiseStutters DEF stdin_eof, broker_dies, server
  <1>3. ASSUME NEW c \in Tools, handle_tools_call(c)
        PROVE  [Promise!Next]_Promise!vars
    <2>1. PICK p : /\ p # "idle" /\ pc[c] = "idle" /\ pc' = [pc EXCEPT ![c] = p]
                   /\ reply' = reply /\ ran' = ran
      BY <1>3 DEF handle_tools_call, server
    <2>2. {d \in Tools : pc'[d] # "idle"} = {d \in Tools : pc[d] # "idle"} \cup {c}
      BY <1>1, <2>1 DEF TypeOK, Calls
    <2>3. Promise!Ask(c)
      BY <2>1, <2>2 DEF Promise!Ask
    <2> QED
      BY <2>3 DEF Promise!Next
  <1>4. ASSUME NEW c \in Calls, (c \in Tools /\ abort_all(c)) \/ handle_cancelled(c)
        PROVE  [Promise!Next]_Promise!vars
    BY <1>4, PromiseEnds DEF abort_all, handle_cancelled, server, Replies
  <1> QED
    BY <1>2, <1>3, <1>4 DEF Calls

(* The safety part of KeepsThePromise: bridge and broker implement ToolCalls.
   A call is answered once, "ok" is only ever told of a call whose own handler
   ran, and nothing runs that was not asked for.                            *)
THEOREM KeepsThePromiseSafety == Spec => Promise!Safety
  <1>1. Init => Promise!Init
    <2> SUFFICES ASSUME Init PROVE Promise!Init
      OBVIOUS
    <2>1. \A c \in Tools : c \in Calls /\ c # Reg
      BY RegAssumption DEF Calls
    <2>2. \A c \in Tools : pc[c] = "idle" /\ ran[c] = 0 /\ Outcome(reply[c]) = "none"
      BY <2>1 DEF Init, Outcome
    <2> QED
      BY <2>2 DEF Promise!Init
  <1>2. Inv /\ [Next]_vars => [Promise!Next]_Promise!vars
    <2> SUFFICES ASSUME Inv, [Next]_vars PROVE [Promise!Next]_Promise!vars
      OBVIOUS
    <2>1. CASE UNCHANGED vars
      BY <2>1, PromiseStutters DEF vars
    <2>2. CASE Next
      BY <2>2, PromiseTask, PromiseConn, PromiseStdio DEF Next
    <2> QED
      BY <2>1, <2>2
  <1> QED
    BY <1>1, <1>2, Invariance, PTL DEF Spec, Promise!Safety

============================================================================
