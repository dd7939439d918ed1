----------------------------- MODULE PageProofs -----------------------------
(***************************************************************************)
(* One tab, for any number of callers, requests and layouts and any        *)
(* capacity of its log: an undisturbed delta misses no mutation, a request *)
(* on refs that was accepted acts on what its caller saw, and whatever     *)
(* input is held down is released.                                         *)
(***************************************************************************)
EXTENDS PageControl, PageInput, SequenceTheorems, TLAPS

----------------------------------------------------------------------------
(* Deltas: inductive invariant                                              *)

\* The handlers' records.
CallShape == DOMAIN call = Callers /\ \A c \in Callers : DOMAIN call[c] = DOMAIN Idle

\* The log holds the newest MaxLog of the records no drain has removed.
LogIsRecent ==
    /\ doc \in Nat \ {0} /\ mutSeq \in Nat /\ drainedTo \in Nat /\ drainedTo <= mutSeq
    /\ log = {n \in 1..mutSeq : n > drainedTo /\ n + MaxLog > mutSeq}

\* Where a drain, and a capture after it, found the page: if that was in this
\* document, it was no later than now.
Drained(d, u) == d \in Nat /\ u \in Nat /\ d <= doc /\ (d = doc => u <= drainedTo)
OnPage(d, u, a, f) ==
    /\ Drained(d, u) /\ a \in Nat
    /\ d = doc => u <= a /\ a <= mutSeq
    /\ d = doc /\ a = mutSeq => ((f = <<>>) <=> (frames = <<>>))

\* An anchor's mark is no newer than its drain, if both are of one document.
AnchorOk(a) ==
    /\ OnPage(a.doc, a.upto, a.at, a.frames)
    /\ a.high \in Nat /\ a.mark \in Nat /\ a.mark <= a.doc
    /\ a.mark = a.doc => a.high <= a.upto

Snapping(k) == k.high \in Nat /\ k.high <= k.upto /\ Drained(k.doc, k.upto)
\* While a delta waits for its drain, no frame has come that its anchor lacks.
Framed(a) == a.doc = doc /\ a.at = mutSeq => frames = <<>> /\ a.frames = <<>>
Complete(k) ==
    k.clean => LET recs == Newer(k.anchor.high, k.got) IN
        /\ (k.anchor.at + 1)..k.at \subseteq recs
        /\ recs = {} => k.frames = k.anchor.frames
Returning(k) ==
    /\ k.anchor.doc <= k.doc /\ (k.anchor.doc = k.doc => k.anchor.upto <= k.upto)
    /\ \A n \in k.got : n \in Nat /\ n <= k.upto
    /\ k.got # {} => k.upto \in k.got
    /\ Complete(k)

CallOk(k) ==
    /\ k.pc \in {"capture", "finish"} => Snapping(k)
    /\ k.pc \in {"finish", "return"} => OnPage(k.doc, k.upto, k.at, k.frames)
    /\ k.pc \in {"delta", "return"} => AnchorOk(k.anchor)
    /\ k.pc = "delta" => Framed(k.anchor)
    /\ k.pc = "return" => Returning(k)

DeltaInv == CallShape /\ LogIsRecent /\ AnchorOk(anchor) /\ \A c \in Callers : CallOk(call[c])

----------------------------------------------------------------------------
(* How a step may change the page.                                          *)
PageMoves ==
    \/ UNCHANGED <<doc, mutSeq, frames>> /\ drainedTo' \in {drainedTo, mutSeq}
    \/ mutSeq' = mutSeq + 1 /\ UNCHANGED <<doc, drainedTo>>
    \/ UNCHANGED <<doc, mutSeq, drainedTo>> /\ frames # <<>> /\ frames' # <<>>
    \/ doc' = doc + 1 /\ mutSeq' = 0 /\ drainedTo' = 0

(* What was true of an earlier drain or capture stays true of it.           *)
LEMMA DrainedKept ==
    ASSUME LogIsRecent, LogIsRecent', PageMoves, NEW d, NEW u, Drained(d, u)
    PROVE  Drained(d, u)'
  BY DEF LogIsRecent, PageMoves, Drained

LEMMA OnPageKept ==
    ASSUME LogIsRecent, LogIsRecent', PageMoves, NEW d, NEW u, NEW a, NEW f, OnPage(d, u, a, f)
    PROVE  OnPage(d, u, a, f)'
  <1>1. Drained(d, u) /\ a \in Nat
    BY DEF OnPage
  <1>2. Drained(d, u)'
    BY <1>1, DrainedKept
  <1> QED
    BY <1>1, <1>2 DEF LogIsRecent, PageMoves, Drained, OnPage

LEMMA AnchorKept ==
    ASSUME LogIsRecent, LogIsRecent', PageMoves, NEW a, AnchorOk(a)
    PROVE  AnchorOk(a)'
  <1>1. OnPage(a.doc, a.upto, a.at, a.frames)'
    BY OnPageKept DEF AnchorOk
  <1> QED
    BY <1>1 DEF AnchorOk

LEMMA CallKept ==
    ASSUME LogIsRecent, LogIsRecent', PageMoves, NEW k, CallOk(k)
    PROVE  CallOk(k)'
  <1>1. Snapping(k) => Snapping(k)'
    BY DrainedKept DEF Snapping
  <1>2. OnPage(k.doc, k.upto, k.at, k.frames) => OnPage(k.doc, k.upto, k.at, k.frames)'
    BY OnPageKept
  <1>3. AnchorOk(k.anchor) => AnchorOk(k.anchor)'
    BY AnchorKept
  <1>4. AnchorOk(k.anchor) /\ Framed(k.anchor) => Framed(k.anchor)'
    BY DEF AnchorOk, OnPage, Drained, Framed, PageMoves, LogIsRecent
  <1>5. Returning(k) => Returning(k)'
    BY DEF Returning, Complete, Newer
  <1> QED
    BY <1>1, <1>2, <1>3, <1>4, <1>5 DEF CallOk

(* A step in which handler c, if any, goes on with v.                       *)
LEMMA DeltaStep ==
    ASSUME DeltaInv, LogIsRecent', PageMoves, AnchorOk(anchor)' \/ anchor' = anchor,
           \/ call' = call
           \/ \E c \in Callers : \E v : /\ DOMAIN v = DOMAIN Idle /\ call' = [call EXCEPT ![c] = v]
                                        /\ CallOk(v)'
    PROVE  DeltaInv'
  <1>1. LogIsRecent /\ AnchorOk(anchor) /\ CallShape /\ \A d \in Callers : CallOk(call[d])
    BY DEF DeltaInv
  <1>2. AnchorOk(anchor)'
    <2>1. ASSUME NEW a, a = anchor, anchor' = anchor
          PROVE  AnchorOk(anchor)'
      <3>1. AnchorOk(a)'
        BY <1>1, <2>1, AnchorKept
      <3> QED
        BY <2>1, <3>1 DEF AnchorOk, OnPage, Drained
    <2> QED
      BY <2>1
  <1>3. CASE call' = call
    <2>1. ASSUME NEW d \in Callers, NEW k, k = call[d]
          PROVE  CallOk(call[d])'
      <3>1. CallOk(k)'
        BY <1>1, <2>1, CallKept
      <3> QED
        BY <1>3, <2>1, <3>1
    <2> QED
      BY <1>1, <1>2, <1>3, <2>1 DEF DeltaInv, CallShape
  <1>4. ASSUME NEW c \in Callers, NEW v, DOMAIN v = DOMAIN Idle, call' = [call EXCEPT ![c] = v], CallOk(v)'
        PROVE  DeltaInv'
    <2>1. call'[c] = v /\ \A d \in Callers \ {c} : call'[d] = call[d]
      BY <1>1, <1>4 DEF CallShape
    <2>2. CallShape'
      BY <1>1, <1>4, <2>1 DEF CallShape, Idle
    <2>3. ASSUME NEW d \in Callers, NEW k, k = call'[d]
          PROVE  CallOk(k)'
      BY <1>1, <1>4, <2>1, <2>3, CallKept
    <2> QED
      BY <1>2, <2>2, <2>3 DEF DeltaInv
  <1> QED
    BY <1>3, <1>4

(* The newest record the log holds is the last one made.                    *)
LEMMA LogEnds ==
    ASSUME LogIsRecent, PageAssumption
    PROVE  /\ log = {} <=> drainedTo = mutSeq
           /\ log # {} => mutSeq \in log /\ Max(log) = mutSeq
           /\ HighWater(log) \in Nat /\ HighWater(log) <= mutSeq
           /\ \A n \in log : n \in Nat /\ n <= mutSeq /\ n > drainedTo
           /\ log # {} => /\ Min(log) \in log
                          /\ \A n \in Nat : Min(log) <= n /\ n <= mutSeq => n \in log
  <1>1. MaxLog \in Nat \ {0} /\ drainedTo \in Nat /\ mutSeq \in Nat /\ drainedTo <= mutSeq
    BY DEF LogIsRecent, PageAssumption
  <1>2. \A n : n \in log <=> n \in 1..mutSeq /\ n > drainedTo /\ n + MaxLog > mutSeq
    BY DEF LogIsRecent
  <1>3. drainedTo # mutSeq => mutSeq \in log
    BY <1>1, <1>2
  <1>4. log = {} <=> drainedTo = mutSeq
    BY <1>1, <1>2, <1>3
  <1>5. log # {} => mutSeq \in log /\ \A n \in log : mutSeq >= n
    BY <1>1, <1>2, <1>3, <1>4
  <1>6. \A n \in log : n \in Nat /\ n <= mutSeq /\ n > drainedTo
    BY <1>1, <1>2
  <1>7. log # {} => Max(log) = mutSeq
    <2> SUFFICES ASSUME log # {} PROVE Max(log) = mutSeq
      OBVIOUS
    <2>1. Max(log) \in log /\ \A n \in log : Max(log) >= n
      BY <1>5 DEF Max
    <2> QED
      BY <1>1, <1>5, <1>6, <2>1
  <1>8. log # {} => Min(log) \in log /\ \A n \in log : Min(log) <= n
    <2> SUFFICES ASSUME log # {} PROVE Min(log) \in log /\ \A n \in log : Min(log) <= n
      OBVIOUS
    <2>1. CASE drainedTo + MaxLog >= mutSeq
      <3>1. drainedTo + 1 \in log /\ \A n \in log : drainedTo + 1 <= n
        BY <1>1, <1>2, <1>4, <2>1
      <3> QED
        BY <3>1 DEF Min
    <2>2. CASE ~(drainedTo + MaxLog >= mutSeq)
      <3>1. (mutSeq - MaxLog) + 1 \in log /\ \A n \in log : (mutSeq - MaxLog) + 1 <= n
        BY <1>1, <1>2, <2>2
      <3> QED
        BY <3>1 DEF Min
    <2> QED
      BY <2>1, <2>2
  <1>9. ASSUME log # {}, NEW n \in Nat, Min(log) <= n, n <= mutSeq
        PROVE  n \in log
    <2>1. Min(log) \in Nat /\ Min(log) > drainedTo /\ Min(log) + MaxLog > mutSeq
      BY <1>1, <1>2, <1>8, <1>9
    <2> QED
      BY <1>1, <1>2, <1>9, <2>1
  <1> QED
    BY <1>1, <1>4, <1>5, <1>6, <1>7, <1>8, <1>9 DEF HighWater

(* A record is added, or a drain removes them all.                          *)
LEMMA LogSteps ==
    ASSUME LogIsRecent, PageAssumption,
           \/ Record /\ UNCHANGED <<doc, drainedTo>>
           \/ (DrainEmpties \/ DrainLeaves) /\ UNCHANGED <<doc, mutSeq>>
           \/ doc' = doc + 1 /\ mutSeq' = 0 /\ log' = {} /\ drainedTo' = 0
    PROVE  LogIsRecent'
  <1>1. /\ MaxLog \in Nat \ {0} /\ drainedTo \in Nat /\ mutSeq \in Nat /\ drainedTo <= mutSeq
        /\ doc \in Nat \ {0}
        /\ log = {n \in 1..mutSeq : n > drainedTo /\ n + MaxLog > mutSeq}
    BY DEF LogIsRecent, PageAssumption
  <1>2. CASE Record /\ UNCHANGED <<doc, drainedTo>>
    <2>1. mutSeq' = mutSeq + 1 /\ log' = {n \in log \union {mutSeq + 1} : n + MaxLog > mutSeq + 1}
      BY <1>2 DEF Record
    <2>2. \A n : n \in log' <=> n \in 1..mutSeq' /\ n > drainedTo /\ n + MaxLog > mutSeq'
      BY <1>1, <2>1
    <2>3. log' = {n \in 1..mutSeq' : n > drainedTo /\ n + MaxLog > mutSeq'}
      BY <2>2
    <2> QED
      BY <1>1, <1>2, <2>1, <2>3 DEF LogIsRecent
  <1>3. CASE (DrainEmpties \/ DrainLeaves) /\ UNCHANGED <<doc, mutSeq>>
    BY <1>1, <1>3 DEF LogIsRecent, DrainEmpties, DrainLeaves
  <1>4. CASE doc' = doc + 1 /\ mutSeq' = 0 /\ log' = {} /\ drainedTo' = 0
    BY <1>1, <1>4 DEF LogIsRecent
  <1> QED
    BY <1>2, <1>3, <1>4

(* A drain runs, or the answer is an error.                                 *)
LEMMA DrainSteps ==
    ASSUME DeltaInv, DrainEmpties \/ DrainLeaves, UNCHANGED <<doc, mutSeq, frames>>
    PROVE  LogIsRecent' /\ PageMoves /\ drainedTo' \in Nat /\ drainedTo <= drainedTo'
  <1>1. LogIsRecent
    BY DEF DeltaInv
  <1>2. LogIsRecent' /\ PageMoves
    BY <1>1, LogSteps, PageAssumption DEF PageMoves, DrainEmpties, DrainLeaves
  <1> QED
    BY <1>1, <1>2 DEF LogIsRecent, DrainEmpties, DrainLeaves

LEMMA PageSteps ==
    ASSUME DeltaInv, Mutate \/ FrameMutates \/ Navigate \/ PumpNavigated
    PROVE  DeltaInv'
  <1>1. LogIsRecent /\ AnchorOk(anchor)
    BY DEF DeltaInv
  <1>2. call' = call
    BY DEF Mutate, FrameMutates, Navigate, PumpNavigated
  <1>3. LogIsRecent' /\ PageMoves
    <2>1. CASE Mutate
      BY <1>1, <2>1, LogSteps, PageAssumption DEF Mutate, Record, PageMoves
    <2>2. CASE FrameMutates
      BY <1>1, <2>2 DEF FrameMutates, PageMoves, LogIsRecent
    <2>3. CASE Navigate
      BY <1>1, <2>3, LogSteps, PageAssumption DEF Navigate, PageMoves
    <2>4. CASE PumpNavigated
      BY <1>1, <2>4 DEF PumpNavigated, PageMoves, LogIsRecent, pageVars
    <2> QED
      BY <2>1, <2>2, <2>3, <2>4
  <1>4. AnchorOk(anchor)' \/ anchor' = anchor
    <2>1. CASE PumpNavigated
      <3>1. anchor' = NoAnchor /\ doc' \in Nat /\ 0 < doc'
        BY <1>3, <2>1 DEF PumpNavigated, LogIsRecent
      <3> QED
        BY <3>1 DEF AnchorOk, OnPage, Drained, NoAnchor
    <2> QED
      BY <2>1 DEF Mutate, FrameMutates, Navigate
  <1> QED
    BY <1>2, <1>3, <1>4, DeltaStep

(* A handler goes on with v and the page stays as it is.                    *)
LEMMA CallMoves ==
    ASSUME DeltaInv, UNCHANGED pageVars, AnchorOk(anchor)' \/ anchor' = anchor,
           NEW c \in Callers, NEW v, DOMAIN v = DOMAIN Idle, call' = [call EXCEPT ![c] = v], CallOk(v)
    PROVE  DeltaInv'
  <1>1. LogIsRecent' /\ PageMoves
    BY DEF DeltaInv, LogIsRecent, PageMoves, pageVars
  <1>2. CallOk(v)'
    BY <1>1, CallKept DEF DeltaInv
  <1> QED
    BY <1>1, <1>2, DeltaStep

(* A request begins, or ends before it has an anchor to move.               *)
LEMMA BeginsOrEnds ==
    ASSUME DeltaInv, NEW c \in Callers,
           page_snapshot(c) \/ (\E given \in BOOLEAN : RefRequest(c, given)) \/ SnapshotFails(c)
    PROVE  DeltaInv'
  <1>1. UNCHANGED <<pageVars, anchor>>
    BY DEF page_snapshot, RefRequest, SnapshotFails
  <1>2. PICK v : /\ DOMAIN v = DOMAIN Idle /\ v.pc \in {"drain", "frames", "idle"}
                 /\ call' = [call EXCEPT ![c] = v]
    <2>1. CASE page_snapshot(c)
      <3>1. ASSUME NEW n
            PROVE  LET v == [Idle EXCEPT !.pc = "frames", !.since = n]
                   IN  DOMAIN v = DOMAIN Idle /\ v.pc = "frames"
        BY DEF Idle
      <3>2. LET v == [Idle EXCEPT !.pc = "drain"] IN DOMAIN v = DOMAIN Idle /\ v.pc = "drain"
        BY DEF Idle
      <3> QED
        BY <2>1, <3>1, <3>2 DEF page_snapshot, Begin
    <2>2. CASE \E given \in BOOLEAN : RefRequest(c, given)
      <3>1. ASSUME NEW refs, NEW want, NEW base
            PROVE  LET v == [Idle EXCEPT !.pc = "drain", !.refs = refs, !.want = want, !.base = base]
                   IN  DOMAIN v = DOMAIN Idle /\ v.pc = "drain"
        BY DEF Idle
      <3>2. PICK given \in BOOLEAN : RefRequest(c, given)
        BY <2>2
      <3>3. PICK refs : call' = [call EXCEPT ![c] =
                  [Idle EXCEPT !.pc = "drain", !.refs = refs, !.want = Target(seen[c].elems, refs),
                               !.base = IF given THEN latest ELSE Unseen]]
        BY <3>2 DEF RefRequest, Begin
      <3> QED
        BY <3>1, <3>3
    <2>3. CASE SnapshotFails(c)
      BY <2>3 DEF SnapshotFails, Idle
    <2> QED
      BY <2>1, <2>2, <2>3
  <1>3. CallOk(v)
    BY <1>2 DEF CallOk
  <1> QED
    BY <1>1, <1>2, <1>3, CallMoves

LEMMA DrainForSnapshotStep ==
    ASSUME DeltaInv, NEW c \in Callers, DrainForSnapshot(c)
    PROVE  DeltaInv'
  <1>1. PICK ok \in BOOLEAN :
           /\ DrainEmpties \/ (~ok /\ DrainLeaves)
           /\ call' = [call EXCEPT ![c] =
                         [@ EXCEPT !.pc = "capture", !.seq = snapSeq + 1, !.doc = doc, !.upto = drainedTo',
                                   !.high = IF ok THEN HighWater(log) ELSE 0]]
    BY DEF DrainForSnapshot
  <1> DEFINE h == IF ok THEN HighWater(log) ELSE 0
             v == [call[c] EXCEPT !.pc = "capture", !.seq = snapSeq + 1, !.doc = doc, !.upto = drainedTo',
                                  !.high = h]
  <1>2. CallShape /\ LogIsRecent /\ UNCHANGED <<doc, mutSeq, frames, anchor>>
    BY DEF DeltaInv, DrainForSnapshot
  <1>3. LogIsRecent' /\ PageMoves /\ drainedTo' \in Nat
    BY <1>1, <1>2, DrainSteps
  <1>4. h \in Nat /\ h <= drainedTo'
    BY <1>1, <1>2, <1>3, LogEnds, PageAssumption DEF DrainEmpties
  <1> HIDE DEF h
  <1>5. /\ DOMAIN v = DOMAIN Idle /\ v.pc = "capture" /\ v.doc = doc /\ v.upto = drainedTo' /\ v.high = h
        /\ call' = [call EXCEPT ![c] = v]
    BY <1>1, <1>2 DEF CallShape, Idle, h
  <1> HIDE DEF v
  <1>6. ASSUME NEW w, w = v
        PROVE  CallOk(w)'
    <2>1. Snapping(w)'
      BY <1>2, <1>3, <1>4, <1>5, <1>6 DEF Snapping, Drained, LogIsRecent
    <2> QED
      BY <1>5, <1>6, <2>1 DEF CallOk
  <1>7. PICK w : w = v
    OBVIOUS
  <1> QED
    BY <1>2, <1>3, <1>5, <1>6, <1>7, DeltaStep

LEMMA CheckAnchorStep ==
    ASSUME DeltaInv, NEW c \in Callers, CheckAnchor(c)
    PROVE  DeltaInv'
  <1>1. CallShape /\ LogIsRecent /\ AnchorOk(anchor) /\ UNCHANGED <<pageVars, anchor>>
    BY DEF DeltaInv, CheckAnchor
  <1> DEFINE v == [call[c] EXCEPT !.pc = "delta", !.anchor = anchor]
  <1>2. \/ call' = [call EXCEPT ![c] = FullSnapshot]
        \/ frames = <<>> /\ call' = [call EXCEPT ![c] = v]
    BY DEF CheckAnchor
  <1>3. DOMAIN FullSnapshot = DOMAIN Idle /\ CallOk(FullSnapshot)
    <2>1. DOMAIN FullSnapshot = DOMAIN Idle /\ FullSnapshot.pc = "drain"
      BY DEF FullSnapshot, Idle
    <2> HIDE DEF FullSnapshot
    <2> QED
      BY <2>1 DEF CallOk
  <1>4. DOMAIN v = DOMAIN Idle /\ v.pc = "delta" /\ v.anchor = anchor
    BY <1>1 DEF CallShape, Idle
  <1> HIDE DEF v
  <1>5. ASSUME frames = <<>>
        PROVE  CallOk(v)
    <2>1. Framed(anchor)
      BY <1>1, <1>5 DEF Framed, AnchorOk, OnPage
    <2> QED
      BY <1>1, <1>4, <2>1 DEF CallOk
  <1> QED
    BY <1>1, <1>2, <1>3, <1>4, <1>5, CallMoves

(* What an undisturbed delta drains is every record since its anchor.       *)
LEMMA DrainIsComplete ==
    ASSUME LogIsRecent, PageAssumption, NEW a, AnchorOk(a), Framed(a), ~mutation_log_overflowed(a.high, log),
           a.mark = doc, a.doc = doc, a.upto = drainedTo
    PROVE  LET recs == Newer(a.high, log)
           IN  (a.at + 1)..mutSeq \subseteq recs /\ (recs = {} => frames = a.frames)
  <1>1. /\ a.high \in Nat /\ a.upto \in Nat /\ a.at \in Nat /\ mutSeq \in Nat
        /\ a.high <= a.upto /\ a.upto <= a.at /\ a.at <= mutSeq
    BY DEF AnchorOk, OnPage, Drained, LogIsRecent
  <1>2. ASSUME NEW n \in (a.at + 1)..mutSeq
        PROVE  n \in Newer(a.high, log)
    <2>1. n \in Nat /\ n > a.high /\ n <= mutSeq /\ n > drainedTo
      BY <1>1, <1>2
    <2>2. log # {}
      BY <1>1, <2>1, LogEnds
    <2>3. Min(log) \in Nat /\ Min(log) <= a.high + 1
      BY <1>1, <2>2, LogEnds DEF mutation_log_overflowed
    <2>4. n \in log
      BY <1>1, <2>1, <2>2, <2>3, LogEnds
    <2> QED
      BY <2>1, <2>4 DEF Newer
  <1>3. ASSUME Newer(a.high, log) = {}
        PROVE  frames = a.frames
    <2>1. a.at = mutSeq
      <3>1. a.at + 1 \notin (a.at + 1)..mutSeq
        BY <1>2, <1>3
      <3> QED
        BY <1>1, <3>1
    <2> QED
      BY <2>1 DEF Framed
  <1> QED
    BY <1>2, <1>3

LEMMA DrainForDeltaStep ==
    ASSUME DeltaInv, NEW c \in Callers, DrainForDelta(c)
    PROVE  DeltaInv'
  <1> DEFINE k == call[c]
             a == k.anchor
             full == [FullSnapshot EXCEPT !.pc = "capture", !.seq = snapSeq + 1, !.high = HighWater(log),
                                          !.doc = doc, !.upto = drainedTo']
             undisturbed == a.mark = doc /\ a.doc = doc /\ a.upto = drainedTo
             delta == [k EXCEPT !.pc = "return", !.got = log, !.doc = doc, !.upto = drainedTo',
                                !.at = mutSeq, !.frames = frames, !.clean = undisturbed]
  <1>1. /\ CallShape /\ LogIsRecent /\ UNCHANGED <<doc, mutSeq, frames, anchor>> /\ k.pc = "delta"
        /\ AnchorOk(a) /\ Framed(a) /\ PageAssumption
    BY PageAssumption DEF DeltaInv, DrainForDelta, CallOk
  <1>2. \/ call' = [call EXCEPT ![c] = FullSnapshot]
        \/ DrainEmpties /\ call' = [call EXCEPT ![c] = full]
        \/ DrainEmpties /\ ~mutation_log_overflowed(a.high, log) /\ call' = [call EXCEPT ![c] = delta]
    BY DEF DrainForDelta
  <1>3. LogIsRecent' /\ PageMoves /\ drainedTo' \in Nat
    BY <1>1, DrainSteps DEF DrainForDelta
  <1>4. CASE call' = [call EXCEPT ![c] = FullSnapshot]
    <2>1. DOMAIN FullSnapshot = DOMAIN Idle /\ FullSnapshot.pc = "drain"
      BY DEF FullSnapshot, Idle
    <2>2. ASSUME NEW w, w = FullSnapshot
          PROVE  CallOk(w)'
      BY <2>1, <2>2 DEF CallOk
    <2> HIDE DEF FullSnapshot
    <2> QED
      BY <1>1, <1>3, <1>4, <2>1, <2>2, DeltaStep
  <1>5. CASE DrainEmpties /\ call' = [call EXCEPT ![c] = full]
    <2>1. /\ DOMAIN full = DOMAIN Idle /\ full.pc = "capture" /\ full.high = HighWater(log)
          /\ full.doc = doc /\ full.upto = drainedTo'
      BY DEF FullSnapshot, Idle
    <2>2. HighWater(log) \in Nat /\ HighWater(log) <= drainedTo'
      BY <1>1, <1>5, LogEnds DEF DrainEmpties
    <2> HIDE DEF full
    <2>3. ASSUME NEW w, w = full
          PROVE  CallOk(w)'
      <3>1. Snapping(w)'
        BY <1>1, <1>3, <2>1, <2>2, <2>3 DEF Snapping, Drained, LogIsRecent
      <3> QED
        BY <2>1, <2>3, <3>1 DEF CallOk
    <2> QED
      BY <1>1, <1>3, <1>5, <2>1, <2>3, DeltaStep
  <1>6. CASE DrainEmpties /\ ~mutation_log_overflowed(a.high, log) /\ call' = [call EXCEPT ![c] = delta]
    <2>1. /\ DOMAIN delta = DOMAIN Idle /\ delta.pc = "return" /\ delta.got = log /\ delta.doc = doc
          /\ delta.upto = mutSeq /\ delta.at = mutSeq /\ delta.frames = frames /\ delta.anchor = a
          /\ delta.clean = undisturbed /\ drainedTo' = mutSeq
      BY <1>1, <1>6 DEF CallShape, Idle, DrainEmpties
    <2>2. undisturbed => LET recs == Newer(a.high, log)
                         IN  (a.at + 1)..mutSeq \subseteq recs /\ (recs = {} => frames = a.frames)
      BY <1>1, <1>6, DrainIsComplete
    <2> HIDE DEF delta, undisturbed
    <2>3. ASSUME NEW w, w = delta
          PROVE  CallOk(w)'
      <3>1. OnPage(w.doc, w.upto, w.at, w.frames)'
        BY <1>1, <1>3, <2>1, <2>3 DEF OnPage, Drained, LogIsRecent
      <3>2. AnchorOk(w.anchor)'
        BY <1>1, <1>3, <2>1, <2>3, AnchorKept
      <3>3. Complete(w)
        BY <2>1, <2>2, <2>3 DEF Complete
      <3>4. Returning(w)
        <4>1. a.doc <= doc /\ (a.doc = doc => a.upto <= mutSeq)
          BY <1>1 DEF AnchorOk, OnPage, Drained, LogIsRecent
        <4>2. (\A n \in log : n \in Nat /\ n <= mutSeq) /\ (log # {} => mutSeq \in log)
          BY <1>1, LogEnds
        <4> QED
          BY <2>1, <2>3, <3>3, <4>1, <4>2 DEF Returning
      <3>5. Returning(w)'
        BY <3>4 DEF Returning, Complete, Newer
      <3> QED
        BY <2>1, <2>3, <3>1, <3>2, <3>5 DEF CallOk
    <2> QED
      BY <1>1, <1>3, <1>6, <2>1, <2>3, DeltaStep
  <1> QED
    BY <1>2, <1>4, <1>5, <1>6

LEMMA CaptureStep ==
    ASSUME DeltaInv, NEW c \in Callers, Capture(c)
    PROVE  DeltaInv'
  <1>1. /\ CallShape /\ LogIsRecent /\ UNCHANGED <<pageVars, anchor>>
        /\ call[c].pc = "capture" /\ Snapping(call[c])
    BY DEF DeltaInv, CallOk, Capture
  <1>2. PICK ok \in SUBSET Shown(frames) :
           call' = [call EXCEPT ![c] =
                      [@ EXCEPT !.pc = "finish", !.elems = root \o Answered(frames, ok),
                                !.at = mutSeq, !.frames = frames,
                                !.same = /\ call[c].base.whole /\ ok = Shown(frames)
                                         /\ call[c].base.change = change]]
    BY DEF Capture
  <1> DEFINE same == call[c].base.whole /\ ok = Shown(frames) /\ call[c].base.change = change
             v == [call[c] EXCEPT !.pc = "finish", !.elems = root \o Answered(frames, ok),
                                  !.at = mutSeq, !.frames = frames, !.same = same]
  <1>3. /\ DOMAIN v = DOMAIN Idle /\ v.pc = "finish" /\ v.at = mutSeq /\ v.frames = frames
        /\ v.high = call[c].high /\ v.doc = call[c].doc /\ v.upto = call[c].upto
        /\ call' = [call EXCEPT ![c] = v]
    BY <1>1, <1>2 DEF CallShape, Idle
  <1> HIDE DEF v
  <1>4. Snapping(v)
    BY <1>1, <1>3 DEF Snapping
  <1>5. OnPage(v.doc, v.upto, v.at, v.frames)
    BY <1>1, <1>3 DEF Snapping, OnPage, Drained, LogIsRecent
  <1>6. CallOk(v)
    BY <1>3, <1>4, <1>5 DEF CallOk
  <1> QED
    BY <1>1, <1>3, <1>6, CallMoves

LEMMA FinishStep ==
    ASSUME DeltaInv, NEW c \in Callers, FinishSnapshot(c) \/ FinishOnRefs(c) \/ RefuseRefs(c)
    PROVE  DeltaInv'
  <1>1. /\ UNCHANGED pageVars /\ call[c].pc = "finish" /\ MoveAnchor(c)
        /\ call' = [call EXCEPT ![c] = Idle]
    BY DEF FinishSnapshot, FinishOnRefs, RefuseRefs
  <1>2. Snapping(call[c]) /\ OnPage(call[c].doc, call[c].upto, call[c].at, call[c].frames)
    BY <1>1 DEF DeltaInv, CallOk
  <1>3. AnchorOk(anchor)'
    <2>1. /\ anchor'.doc = call[c].doc /\ anchor'.mark = call[c].doc /\ anchor'.high = call[c].high
          /\ anchor'.upto = call[c].upto /\ anchor'.at = call[c].at /\ anchor'.frames = call[c].frames
      BY <1>1 DEF MoveAnchor
    <2> QED
      BY <1>1, <1>2, <2>1 DEF AnchorOk, OnPage, Drained, Snapping, pageVars
  <1>4. CallOk(Idle)
    BY DEF CallOk, Idle
  <1> QED
    BY <1>1, <1>3, <1>4, CallMoves

LEMMA ReturnDeltaStep ==
    ASSUME DeltaInv, NEW c \in Callers, ReturnDelta(c)
    PROVE  DeltaInv'
  <1> DEFINE k == call[c]
             recs == Newer(k.anchor.high, k.got)
  <1>1. UNCHANGED pageVars /\ k.pc = "return" /\ call' = [call EXCEPT ![c] = Idle]
    BY DEF ReturnDelta
  <1>2. /\ anchor'.doc = k.doc /\ anchor'.upto = k.upto /\ anchor'.at = k.at /\ anchor'.frames = k.frames
        /\ anchor'.high = IF recs = {} THEN k.anchor.high ELSE Max(recs)
        /\ anchor'.mark = IF recs = {} THEN k.anchor.mark ELSE k.doc
    BY DEF ReturnDelta
  <1>3. OnPage(k.doc, k.upto, k.at, k.frames) /\ AnchorOk(k.anchor) /\ Returning(k)
    BY <1>1 DEF DeltaInv, CallOk
  <1>4. /\ k.anchor.high \in Nat /\ k.anchor.mark \in Nat /\ k.anchor.doc \in Nat /\ k.anchor.upto \in Nat
        /\ k.doc \in Nat /\ k.upto \in Nat
        /\ k.anchor.mark <= k.anchor.doc /\ (k.anchor.mark = k.anchor.doc => k.anchor.high <= k.anchor.upto)
        /\ k.anchor.doc <= k.doc /\ (k.anchor.doc = k.doc => k.anchor.upto <= k.upto)
    BY <1>3 DEF AnchorOk, OnPage, Drained, Returning
  <1>5. recs # {} => Max(recs) = k.upto
    <2> SUFFICES ASSUME recs # {} PROVE Max(recs) = k.upto
      OBVIOUS
    <2>1. \A n \in recs : n \in k.got /\ n \in Nat /\ n <= k.upto /\ n > k.anchor.high
      BY <1>3 DEF Newer, Returning
    <2>2. k.upto \in recs
      BY <1>3, <1>4, <2>1 DEF Newer, Returning
    <2> HIDE DEF recs
    <2>3. Max(recs) \in recs /\ \A n \in recs : Max(recs) >= n
      BY <1>4, <2>1, <2>2 DEF Max
    <2> QED
      BY <1>4, <2>1, <2>2, <2>3
  <1> HIDE DEF recs
  <1>6. /\ anchor'.high \in Nat /\ anchor'.mark \in Nat /\ anchor'.mark <= k.doc
        /\ anchor'.mark = k.doc => anchor'.high <= k.upto
    BY <1>2, <1>4, <1>5
  <1>7. AnchorOk(anchor)'
    BY <1>1, <1>2, <1>3, <1>6 DEF AnchorOk, OnPage, Drained, pageVars
  <1>8. CallOk(Idle)
    BY DEF CallOk, Idle
  <1> QED
    BY <1>1, <1>7, <1>8, CallMoves

LEMMA DeltaInitial ==
    ASSUME Init
    PROVE  DeltaInv
  <1>1. CallShape /\ LogIsRecent
    BY DEF Init, CallShape, LogIsRecent
  <1>2. AnchorOk(anchor)
    BY DEF Init, AnchorOk, OnPage, Drained, NoAnchor
  <1>3. \A c \in Callers : CallOk(call[c])
    <2>1. CallOk(Idle)
      BY DEF CallOk, Idle
    <2> HIDE DEF Idle
    <2> QED
      BY <2>1 DEF Init
  <1> QED
    BY <1>1, <1>2, <1>3 DEF DeltaInv

(* The inductive invariant behind DeltaIsComplete: the page's log holds its  *)
(* newest records (record() of mutation.rs), and every anchor, the page's    *)
(* and those that deltas under way have read, has a mark no newer than its   *)
(* drain, if both are of one document.                                       *)
THEOREM DeltaInvariance == Spec => []DeltaInv
  <1>1. ASSUME DeltaInv, [Next]_vars
        PROVE  DeltaInv'
    <2>1. CASE UNCHANGED vars
      <3>1. LogIsRecent' /\ PageMoves
        BY <1>1, <2>1 DEF vars, pageVars, DeltaInv, LogIsRecent, PageMoves
      <3> QED
        BY <1>1, <2>1, <3>1, DeltaStep DEF vars
    <2> QED
      BY <1>1, <2>1, PageSteps, BeginsOrEnds, DrainForSnapshotStep, CheckAnchorStep, DrainForDeltaStep,
         ReturnDeltaStep, CaptureStep, FinishStep DEF Next
  <1> QED
    BY <1>1, DeltaInitial, PTL DEF Spec

(* A delta of snapshot_delta_since that nothing disturbed misses no record,  *)
(* for any capacity of the log and any number of callers.                    *)
THEOREM DeltaIsCompleteSafety == Spec => []DeltaIsComplete
  <1>1. DeltaInv => DeltaIsComplete
    BY DEF DeltaInv, CallOk, Returning, Complete, DeltaIsComplete
  <1> QED
    BY <1>1, DeltaInvariance, PTL

----------------------------------------------------------------------------
(* Requests on refs                                                         *)

Whole == root \o Answered(frames, Shown(frames))

\* Captures and deltas are numbered, the latest of them is the one with the
\* highest number, and no client has seen a later one.
SeqsRise ==
    /\ snapSeq \in Nat /\ change \in Nat
    /\ latest.seq \in Nat /\ latest.seq <= snapSeq /\ latest.change \in Nat /\ latest.change <= change
    /\ DOMAIN seen = Callers
    /\ \A c \in Callers : /\ DOMAIN seen[c] = {"seq", "elems"}
                          /\ seen[c].seq \in Nat /\ seen[c].seq <= latest.seq

\* Whoever holds the latest snapshot holds the page, unless it changed since or
\* a frame was left out.
ShowsPage(seq, elems) ==
    seq = latest.seq /\ latest.whole /\ latest.change = change => elems = Whole

Numbered(k) == k.pc \in {"capture", "finish"}
RefsOk(k) ==
    /\ Numbered(k) => k.seq \in Nat /\ k.seq <= snapSeq
    /\ k.pc = "capture" => k.seq # latest.seq
    /\ k.pc = "finish" => k.seq <= latest.seq /\ ShowsPage(k.seq, k.elems)
    /\ k.base.whole => k.base.change \in Nat /\ k.base.change <= change
    /\ k.base.whole /\ k.base.change = change /\ k.pc \in {"drain", "capture"} =>
          k.want = Target(Whole, k.refs)
    /\ k.pc = "finish" /\ k.same => Target(k.elems, k.refs) = k.want

RefsInv ==
    /\ CallShape /\ SeqsRise
    /\ \A c \in Callers : ShowsPage(seen[c].seq, seen[c].elems)
    /\ \A c, d \in Callers : Numbered(call[c]) /\ Numbered(call[d]) /\ c # d => call[c].seq # call[d].seq
    /\ \A c \in Callers : RefsOk(call[c])

(* The page changes.                                                        *)
LEMMA PageRefs ==
    ASSUME RefsInv, Mutate \/ FrameMutates \/ Navigate
    PROVE  RefsInv'
  <1>1. change' = change + 1 /\ UNCHANGED <<call, seen, latest, snapSeq>>
    BY DEF Mutate, FrameMutates, Navigate, Changes, clientVars
  <1>2. CallShape /\ SeqsRise /\ \A c \in Callers : RefsOk(call[c])
    BY DEF RefsInv
  <1>3. change \in Nat /\ latest.change \in Nat /\ latest.change <= change
    BY <1>2 DEF SeqsRise
  <1>4. CallShape' /\ SeqsRise'
    BY <1>1, <1>2, <1>3 DEF CallShape, SeqsRise
  <1>5. \A seq, elems : ShowsPage(seq, elems)'
    BY <1>1, <1>3 DEF ShowsPage
  <1>6. ASSUME NEW k, RefsOk(k)
        PROVE  RefsOk(k)'
    <2>1. k.base.whole => k.base.change \in Nat /\ k.base.change <= change' /\ k.base.change # change'
      BY <1>1, <1>3, <1>6 DEF RefsOk
    <2>2. k.pc = "finish" => k.seq <= latest'.seq /\ ShowsPage(k.seq, k.elems)'
      BY <1>1, <1>5, <1>6 DEF RefsOk
    <2> HIDE DEF ShowsPage
    <2> QED
      BY <1>1, <1>6, <2>1, <2>2 DEF RefsOk, Numbered, Target
  <1>7. \A c \in Callers : RefsOk(call[c])'
    <2>1. ASSUME NEW c \in Callers, NEW k, k = call[c]
          PROVE  RefsOk(call[c])'
      <3>1. RefsOk(k)'
        BY <1>2, <1>6, <2>1
      <3> QED
        BY <1>1, <2>1, <3>1
    <2> QED
      BY <2>1
  <1> QED
    BY <1>1, <1>4, <1>5, <1>7 DEF RefsInv, Numbered

(* Handler c goes on with v and the others stay where they are.             *)
LEMMA RefsStep ==
    ASSUME RefsInv, SeqsRise', NEW c \in Callers, NEW v, DOMAIN v = DOMAIN Idle,
           call' = [call EXCEPT ![c] = v], RefsOk(v)',
           \A d \in Callers : ShowsPage(seen[d].seq, seen[d].elems)',
           \A k : RefsOk(k) /\ (Numbered(k) /\ Numbered(call[c]) => k.seq # call[c].seq) => RefsOk(k)',
           Numbered(v) => \A d \in Callers \ {c} : Numbered(call[d]) => call[d].seq # v.seq
    PROVE  RefsInv'
  <1>1. CallShape /\ \A d \in Callers : RefsOk(call[d])
    BY DEF RefsInv
  <1>2. call'[c] = v /\ \A d \in Callers \ {c} : call'[d] = call[d]
    BY <1>1 DEF CallShape
  <1>3. CallShape'
    BY <1>1, <1>2 DEF CallShape, Idle
  <1>4. \A d \in Callers : RefsOk(call[d])'
    <2>1. ASSUME NEW d \in Callers \ {c}, NEW k, k = call[d]
          PROVE  RefsOk(call[d])'
      <3>1. RefsOk(k) /\ (Numbered(k) /\ Numbered(call[c]) => k.seq # call[c].seq)
        BY <1>1, <2>1 DEF RefsInv
      <3>2. RefsOk(k)'
        BY <3>1
      <3> QED
        BY <1>2, <2>1, <3>2
    <2>2. RefsOk(call[c])'
      BY <1>2
    <2> QED
      BY <2>1, <2>2
  <1>5. ASSUME NEW d \in Callers, NEW e \in Callers, Numbered(call[d])', Numbered(call[e])', d # e
        PROVE  call'[d].seq # call'[e].seq
    BY <1>2, <1>5 DEF RefsInv, Numbered
  <1> QED
    BY <1>3, <1>4, <1>5 DEF RefsInv, Numbered

(* ... and neither the page nor what clients saw changes.                   *)
LEMMA CallRefs ==
    ASSUME RefsInv, UNCHANGED <<root, frames, change, seen, latest>>, snapSeq' \in Nat, snapSeq <= snapSeq',
           NEW c \in Callers, NEW v, DOMAIN v = DOMAIN Idle, call' = [call EXCEPT ![c] = v], RefsOk(v)',
           Numbered(v) => \A d \in Callers \ {c} : Numbered(call[d]) => call[d].seq # v.seq
    PROVE  RefsInv'
  <1>1. SeqsRise
    BY DEF RefsInv
  <1>2. SeqsRise'
    BY <1>1 DEF SeqsRise
  <1>3. Whole' = Whole
    BY DEF Whole, Shown
  <1>4. ASSUME NEW k, RefsOk(k)
        PROVE  RefsOk(k)'
    <2>1. \A n \in Nat : n <= snapSeq => n <= snapSeq'
      BY <1>1 DEF SeqsRise
    <2> QED
      BY <1>1, <1>3, <1>4, <2>1 DEF RefsOk, Numbered, ShowsPage, Target
  <1>5. \A d \in Callers : ShowsPage(seen[d].seq, seen[d].elems)'
    BY <1>3 DEF RefsInv, ShowsPage
  <1> QED
    BY <1>2, <1>4, <1>5, RefsStep

(* Nothing that refs depend on changes.                                     *)
LEMMA SameRefs ==
    ASSUME RefsInv, UNCHANGED <<root, frames, change, seen, latest, snapSeq, call>>
    PROVE  RefsInv'
  <1>1. Whole' = Whole
    BY DEF Whole, Shown
  <1>2. CallShape' /\ SeqsRise'
    BY DEF RefsInv, CallShape, SeqsRise
  <1>3. ASSUME NEW k, RefsOk(k)
        PROVE  RefsOk(k)'
    BY <1>1, <1>3 DEF RefsOk, Numbered, ShowsPage, Target
  <1>4. \A c \in Callers : RefsOk(call[c])'
    <2>1. ASSUME NEW c \in Callers, NEW k, k = call[c]
          PROVE  RefsOk(call[c])'
      <3>1. RefsOk(k)'
        BY <1>3, <2>1 DEF RefsInv
      <3> QED
        BY <2>1, <3>1
    <2> QED
      BY <2>1
  <1>5. \A c \in Callers : ShowsPage(seen[c].seq, seen[c].elems)'
    BY <1>1 DEF RefsInv, ShowsPage
  <1> QED
    BY <1>2, <1>4, <1>5 DEF RefsInv, Numbered

(* A handler without refs and without a number of its own.                  *)
LEMMA PlainOk ==
    ASSUME NEW v, v.pc \notin {"capture", "finish"}, ~v.base.whole
    PROVE  RefsOk(v)'
  BY DEF RefsOk, Numbered

LEMMA RequestRefs ==
    ASSUME RefsInv, NEW c \in Callers, NEW given \in BOOLEAN, RefRequest(c, given)
    PROVE  RefsInv'
  <1>1. /\ SeqsRise /\ ShowsPage(seen[c].seq, seen[c].elems)
        /\ UNCHANGED <<root, frames, change, seen, latest, snapSeq>> /\ Validated(given, seen[c].seq)
    BY DEF RefsInv, RefRequest, pageVars
  <1>2. PICK refs : call' = [call EXCEPT ![c] =
              [Idle EXCEPT !.pc = "drain", !.refs = refs, !.want = Target(seen[c].elems, refs),
                           !.base = IF given THEN latest ELSE Unseen]]
    BY DEF RefRequest, Begin
  <1> DEFINE b == IF given THEN latest ELSE Unseen
             v == [Idle EXCEPT !.pc = "drain", !.refs = refs, !.want = Target(seen[c].elems, refs), !.base = b]
  <1>3. /\ DOMAIN v = DOMAIN Idle /\ v.pc = "drain" /\ v.refs = refs /\ v.base = b
        /\ v.want = Target(seen[c].elems, refs) /\ call' = [call EXCEPT ![c] = v]
    BY <1>2 DEF Idle
  <1>4. b.whole => /\ b.change \in Nat /\ b.change <= change
                   /\ b.change = change => seen[c].elems = Whole
    <2>1. CASE given
      <3>1. b = latest /\ seen[c].seq = latest.seq
        BY <1>1, <2>1 DEF SeqsRise, Validated
      <3> QED
        BY <1>1, <3>1 DEF SeqsRise, ShowsPage
    <2>2. CASE ~given
      BY <2>2 DEF Unseen
    <2> QED
      BY <2>1, <2>2
  <1>5. Whole' = Whole
    BY <1>1 DEF Whole, Shown
  <1> HIDE DEF v, b
  <1>6. ASSUME NEW w, w = v
        PROVE  RefsOk(w)'
    <2>1. w.pc = "drain" /\ w.base = b /\ w.want = Target(seen[c].elems, refs) /\ w.refs = refs
      BY <1>3, <1>6
    <2>2. b.whole /\ b.change = change => w.want = Target(Whole, refs)
      BY <1>4, <2>1
    <2> QED
      BY <1>1, <1>4, <1>5, <2>1, <2>2 DEF RefsOk, Numbered, Target
  <1>7. PICK w : w = v
    OBVIOUS
  <1>8. snapSeq' \in Nat /\ snapSeq <= snapSeq'
    BY <1>1 DEF SeqsRise
  <1> QED
    BY <1>1, <1>3, <1>6, <1>7, <1>8, CallRefs DEF Numbered

(* A snapshot begins, falls back to a full one or fails.                    *)
LEMMA PlainRefs ==
    ASSUME RefsInv, NEW c \in Callers, page_snapshot(c) \/ SnapshotFails(c)
    PROVE  RefsInv'
  <1>1. SeqsRise /\ UNCHANGED <<root, frames, change, seen, latest, snapSeq>>
    BY DEF RefsInv, page_snapshot, SnapshotFails, pageVars, clientVars
  <1>2. PICK v : /\ DOMAIN v = DOMAIN Idle /\ v.pc \in {"drain", "frames", "idle"} /\ ~v.base.whole
                 /\ call' = [call EXCEPT ![c] = v]
    <2>1. CASE page_snapshot(c)
      <3>1. ASSUME NEW n
            PROVE  LET v == [Idle EXCEPT !.pc = "frames", !.since = n]
                   IN  DOMAIN v = DOMAIN Idle /\ v.pc = "frames" /\ ~v.base.whole
        BY DEF Idle, Unseen
      <3>2. LET v == [Idle EXCEPT !.pc = "drain"]
            IN  DOMAIN v = DOMAIN Idle /\ v.pc = "drain" /\ ~v.base.whole
        BY DEF Idle, Unseen
      <3> QED
        BY <2>1, <3>1, <3>2 DEF page_snapshot, Begin
    <2>2. CASE SnapshotFails(c)
      BY <2>2 DEF SnapshotFails, Idle, Unseen
    <2> QED
      BY <2>1, <2>2
  <1>3. RefsOk(v)'
    BY <1>2, PlainOk
  <1>4. snapSeq' \in Nat /\ snapSeq <= snapSeq' /\ ~Numbered(v)
    BY <1>1, <1>2 DEF SeqsRise, Numbered
  <1> QED
    BY <1>1, <1>2, <1>3, <1>4, CallRefs

(* A snapshot takes the next number.                                        *)
LEMMA NumberRefs ==
    ASSUME RefsInv, NEW c \in Callers, UNCHANGED <<root, frames, change, seen, latest>>, snapSeq' = snapSeq + 1,
           NEW v, DOMAIN v = DOMAIN Idle, call' = [call EXCEPT ![c] = v], v.pc = "capture", v.seq = snapSeq + 1,
           v.base.whole => /\ v.base.change \in Nat /\ v.base.change <= change
                           /\ v.base.change = change => v.want = Target(Whole, v.refs)
    PROVE  RefsInv'
  <1>1. SeqsRise /\ \A d \in Callers : RefsOk(call[d])
    BY DEF RefsInv
  <1>2. Whole' = Whole
    BY DEF Whole, Shown
  <1>3. snapSeq \in Nat /\ latest.seq \in Nat /\ latest.seq <= snapSeq
    BY <1>1 DEF SeqsRise
  <1>4. RefsOk(v)'
    BY <1>2, <1>3 DEF RefsOk, Numbered, Target
  <1>5. \A d \in Callers : Numbered(call[d]) => call[d].seq # v.seq
    BY <1>1, <1>3 DEF RefsOk
  <1>6. snapSeq' \in Nat /\ snapSeq <= snapSeq'
    BY <1>3
  <1> QED
    BY <1>4, <1>5, <1>6, CallRefs

LEMMA DrainForSnapshotRefs ==
    ASSUME RefsInv, NEW c \in Callers, DrainForSnapshot(c)
    PROVE  RefsInv'
  <1>1. /\ CallShape /\ RefsOk(call[c]) /\ call[c].pc = "drain"
        /\ UNCHANGED <<root, frames, change, seen, latest>> /\ snapSeq' = snapSeq + 1
    BY DEF RefsInv, DrainForSnapshot, clientVars
  <1>2. PICK high : call' = [call EXCEPT ![c] =
              [@ EXCEPT !.pc = "capture", !.seq = snapSeq + 1, !.doc = doc, !.upto = drainedTo', !.high = high]]
    BY DEF DrainForSnapshot
  <1> DEFINE v == [call[c] EXCEPT !.pc = "capture", !.seq = snapSeq + 1, !.doc = doc, !.upto = drainedTo',
                                  !.high = high]
  <1>3. /\ DOMAIN v = DOMAIN Idle /\ v.pc = "capture" /\ v.seq = snapSeq + 1 /\ call' = [call EXCEPT ![c] = v]
        /\ v.base = call[c].base /\ v.want = call[c].want /\ v.refs = call[c].refs
    BY <1>1, <1>2 DEF CallShape, Idle
  <1> HIDE DEF v
  <1>4. v.base.whole => /\ v.base.change \in Nat /\ v.base.change <= change
                        /\ v.base.change = change => v.want = Target(Whole, v.refs)
    BY <1>1, <1>3 DEF RefsOk
  <1>5. PICK w : w = v
    OBVIOUS
  <1> QED
    BY <1>1, <1>3, <1>4, <1>5, NumberRefs

LEMMA DeltaRefs ==
    ASSUME RefsInv, NEW c \in Callers, CheckAnchor(c) \/ DrainForDelta(c)
    PROVE  RefsInv'
  <1>1. /\ CallShape /\ SeqsRise /\ RefsOk(call[c]) /\ call[c].pc \in {"frames", "delta"}
        /\ UNCHANGED <<root, frames, change, seen, latest>>
    BY DEF RefsInv, CheckAnchor, DrainForDelta, clientVars, pageVars
  <1> DEFINE full(h, u) == [FullSnapshot EXCEPT !.pc = "capture", !.seq = snapSeq + 1, !.high = h, !.doc = doc,
                                                !.upto = u]
  <1>2. DOMAIN FullSnapshot = DOMAIN Idle /\ FullSnapshot.pc = "drain" /\ ~FullSnapshot.base.whole
    BY DEF FullSnapshot, Idle, Unseen
  <1>3. ASSUME NEW v, DOMAIN v = DOMAIN Idle, v.pc \in {"drain", "delta", "return"}, RefsOk(v)',
               call' = [call EXCEPT ![c] = v], snapSeq' = snapSeq
        PROVE  RefsInv'
    <2>1. snapSeq' \in Nat /\ snapSeq <= snapSeq' /\ ~Numbered(v)
      BY <1>1, <1>3 DEF SeqsRise, Numbered
    <2> QED
      BY <1>1, <1>3, <2>1, CallRefs
  <1>4. ASSUME NEW v, DOMAIN v = DOMAIN Idle, v.pc \in {"delta", "return"}, v.base = call[c].base
        PROVE  RefsOk(v)'
    BY <1>1, <1>4 DEF RefsOk, Numbered
  <1>5. CASE call' = [call EXCEPT ![c] = FullSnapshot] /\ snapSeq' = snapSeq
    <2>1. RefsOk(FullSnapshot)'
      BY <1>2, PlainOk
    <2> QED
      BY <1>2, <1>3, <1>5, <2>1
  <1>6. CASE \E h, u : call' = [call EXCEPT ![c] = full(h, u)] /\ snapSeq' = snapSeq + 1
    <2>1. PICK h, u : call' = [call EXCEPT ![c] = full(h, u)] /\ snapSeq' = snapSeq + 1
      BY <1>6
    <2>2. /\ DOMAIN full(h, u) = DOMAIN Idle /\ full(h, u).pc = "capture" /\ full(h, u).seq = snapSeq + 1
          /\ ~full(h, u).base.whole
      BY DEF FullSnapshot, Idle, Unseen
    <2> HIDE DEF full
    <2> QED
      BY <1>1, <2>1, <2>2, NumberRefs
  <1>7. CASE call' = [call EXCEPT ![c] = [@ EXCEPT !.pc = "delta", !.anchor = anchor]] /\ snapSeq' = snapSeq
    <2> DEFINE v == [call[c] EXCEPT !.pc = "delta", !.anchor = anchor]
    <2>1. DOMAIN v = DOMAIN Idle /\ v.pc = "delta" /\ v.base = call[c].base
      BY <1>1 DEF CallShape, Idle
    <2>2. call' = [call EXCEPT ![c] = v] /\ snapSeq' = snapSeq
      BY <1>7
    <2> HIDE DEF v
    <2>3. PICK w : w = v
      OBVIOUS
    <2> QED
      BY <1>3, <1>4, <2>1, <2>2, <2>3
  <1>8. CASE /\ \E u, clean : call' = [call EXCEPT ![c] =
                                  [@ EXCEPT !.pc = "return", !.got = log, !.doc = doc,
                                            !.upto = u, !.at = mutSeq, !.frames = frames, !.clean = clean]]
             /\ snapSeq' = snapSeq
    <2>1. PICK u, clean : call' = [call EXCEPT ![c] =
                              [@ EXCEPT !.pc = "return", !.got = log, !.doc = doc,
                                        !.upto = u, !.at = mutSeq, !.frames = frames, !.clean = clean]]
      BY <1>8
    <2> DEFINE v == [call[c] EXCEPT !.pc = "return", !.got = log, !.doc = doc,
                                    !.upto = u, !.at = mutSeq, !.frames = frames, !.clean = clean]
    <2>2. DOMAIN v = DOMAIN Idle /\ v.pc = "return" /\ v.base = call[c].base
      BY <1>1 DEF CallShape, Idle
    <2>3. call' = [call EXCEPT ![c] = v] /\ snapSeq' = snapSeq
      BY <1>8, <2>1
    <2> HIDE DEF v
    <2>4. PICK w : w = v
      OBVIOUS
    <2> QED
      BY <1>3, <1>4, <2>2, <2>3, <2>4
  <1>9. CASE CheckAnchor(c)
    <2>1. \/ call' = [call EXCEPT ![c] = FullSnapshot] /\ snapSeq' = snapSeq
          \/ call' = [call EXCEPT ![c] = [@ EXCEPT !.pc = "delta", !.anchor = anchor]] /\ snapSeq' = snapSeq
      BY <1>9 DEF CheckAnchor
    <2> QED
      BY <1>5, <1>7, <2>1
  <1>10. CASE DrainForDelta(c)
    <2>1. \/ call' = [call EXCEPT ![c] = FullSnapshot] /\ snapSeq' = snapSeq
          \/ call' = [call EXCEPT ![c] = full(HighWater(log), drainedTo')] /\ snapSeq' = snapSeq + 1
          \/ /\ \E clean : call' = [call EXCEPT ![c] =
                                  [@ EXCEPT !.pc = "return", !.got = log, !.doc = doc,
                                            !.upto = drainedTo', !.at = mutSeq, !.frames = frames,
                                            !.clean = clean]]
             /\ snapSeq' = snapSeq
      BY <1>10 DEF DrainForDelta
    <2> QED
      BY <1>5, <1>6, <1>8, <2>1
  <1> QED
    BY <1>9, <1>10

LEMMA CaptureRefs ==
    ASSUME RefsInv, NEW c \in Callers, Capture(c)
    PROVE  RefsInv'
  <1> DEFINE k == call[c]
  <1>1. /\ CallShape /\ SeqsRise /\ RefsOk(k) /\ k.pc = "capture"
        /\ UNCHANGED <<root, frames, change, seen, snapSeq>>
    BY DEF RefsInv, Capture, pageVars
  <1>2. PICK ok \in SUBSET Shown(frames) :
          /\ latest' = IF k.seq < latest.seq THEN latest
                       ELSE [seq |-> k.seq, change |-> change, whole |-> ok = Shown(frames)]
          /\ call' = [call EXCEPT ![c] =
                         [@ EXCEPT !.pc = "finish", !.elems = root \o Answered(frames, ok), !.at = mutSeq,
                                   !.frames = frames,
                                   !.same = /\ k.base.whole /\ ok = Shown(frames)
                                            /\ k.base.change = change]]
    BY DEF Capture
  <1> DEFINE es == root \o Answered(frames, ok)
             same == k.base.whole /\ ok = Shown(frames) /\ k.base.change = change
             v == [k EXCEPT !.pc = "finish", !.elems = es, !.at = mutSeq, !.frames = frames, !.same = same]
  <1>3. /\ DOMAIN v = DOMAIN Idle /\ v.pc = "finish" /\ v.seq = k.seq /\ v.elems = es /\ v.same = same
        /\ v.base = k.base /\ v.want = k.want /\ v.refs = k.refs /\ call' = [call EXCEPT ![c] = v]
    BY <1>1, <1>2 DEF CallShape, Idle
  <1>4. Whole' = Whole /\ (ok = Shown(frames) => es = Whole)
    BY <1>1 DEF Whole, Shown
  <1> HIDE DEF v, es
  <1>5. /\ k.seq \in Nat /\ k.seq <= snapSeq /\ k.seq # latest.seq
        /\ snapSeq \in Nat /\ latest.seq \in Nat /\ latest.seq <= snapSeq /\ change \in Nat
    BY <1>1 DEF RefsOk, Numbered, SeqsRise
  <1>6. \/ latest' = latest /\ k.seq < latest.seq
        \/ /\ latest.seq < k.seq /\ latest'.seq = k.seq /\ latest'.change = change
           /\ latest'.whole = (ok = Shown(frames))
    BY <1>2, <1>5
  <1>7. SeqsRise'
    BY <1>1, <1>5, <1>6 DEF SeqsRise
  <1>8. \A d \in Callers : ShowsPage(seen[d].seq, seen[d].elems)'
    <2>1. CASE latest' = latest
      BY <1>1, <1>4, <2>1 DEF RefsInv, ShowsPage
    <2>2. CASE latest.seq < k.seq /\ latest'.seq = k.seq
      <3>1. \A d \in Callers : seen'[d].seq # latest'.seq
        BY <1>1, <1>5, <2>2 DEF SeqsRise
      <3> QED
        BY <3>1 DEF ShowsPage
    <2> QED
      BY <1>6, <2>1, <2>2
  <1>9. ASSUME NEW h, RefsOk(h), Numbered(h) => h.seq # k.seq
        PROVE  RefsOk(h)'
    <2>1. Numbered(h) => h.seq \in Nat /\ h.seq <= snapSeq'
      BY <1>1, <1>9 DEF RefsOk
    <2>2. h.pc = "capture" => h.seq # latest'.seq
      BY <1>6, <1>9 DEF RefsOk, Numbered
    <2>3. h.pc = "finish" => h.seq <= latest'.seq /\ ShowsPage(h.seq, h.elems)'
      <3> SUFFICES ASSUME h.pc = "finish"
                   PROVE  h.seq <= latest'.seq /\ ShowsPage(h.seq, h.elems)'
        OBVIOUS
      <3>1. h.seq \in Nat /\ h.seq <= latest.seq /\ ShowsPage(h.seq, h.elems)
        BY <1>9 DEF RefsOk, Numbered
      <3>2. CASE latest' = latest
        BY <1>1, <1>4, <3>1, <3>2 DEF ShowsPage
      <3>3. CASE latest.seq < k.seq /\ latest'.seq = k.seq
        BY <1>5, <3>1, <3>3 DEF ShowsPage
      <3> QED
        BY <1>6, <3>2, <3>3
    <2> QED
      BY <1>1, <1>4, <1>9, <2>1, <2>2, <2>3 DEF RefsOk, Numbered, Target
  <1>10. ASSUME NEW w, w = v
         PROVE  RefsOk(w)'
    <2>1. /\ w.pc = "finish" /\ w.seq = k.seq /\ w.elems = es /\ w.same = same
          /\ w.base = k.base /\ w.want = k.want /\ w.refs = k.refs
      BY <1>3, <1>10
    <2>2. w.seq <= latest'.seq
      BY <1>5, <1>6, <2>1
    <2>3. ShowsPage(w.seq, w.elems)'
      BY <1>1, <1>4, <1>5, <1>6, <2>1 DEF ShowsPage
    <2>4. w.same => Target(w.elems, w.refs) = w.want
      BY <1>1, <1>4, <2>1 DEF RefsOk
    <2>5. w.base.whole => w.base.change \in Nat /\ w.base.change <= change'
      BY <1>1, <2>1 DEF RefsOk
    <2> HIDE DEF same
    <2> QED
      BY <1>1, <1>5, <2>1, <2>2, <2>3, <2>4, <2>5 DEF RefsOk, Numbered, Target
  <1>11. PICK w : w = v
    OBVIOUS
  <1>12. Numbered(k) /\ \A d \in Callers \ {c} : Numbered(call[d]) => call[d].seq # v.seq
    BY <1>1, <1>3 DEF RefsInv, Numbered
  <1> QED
    BY <1>3, <1>7, <1>8, <1>9, <1>10, <1>11, <1>12, RefsStep

(* The request ends; a page.snapshot is what its client now knows.          *)
LEMMA FinishRefs ==
    ASSUME RefsInv, NEW c \in Callers, FinishSnapshot(c) \/ FinishOnRefs(c) \/ RefuseRefs(c)
    PROVE  RefsInv'
  <1> DEFINE k == call[c]
  <1>1. /\ SeqsRise /\ RefsOk(k) /\ k.pc = "finish" /\ UNCHANGED <<root, frames, change, snapSeq, latest>>
        /\ call' = [call EXCEPT ![c] = Idle]
    BY DEF RefsInv, FinishSnapshot, FinishOnRefs, RefuseRefs, pageVars
  <1>2. \/ seen' = seen
        \/ seen' = [seen EXCEPT ![c] = [seq |-> k.seq, elems |-> k.elems]]
    BY DEF FinishSnapshot, FinishOnRefs, RefuseRefs
  <1>3. k.seq \in Nat /\ k.seq <= latest.seq /\ ShowsPage(k.seq, k.elems)
    BY <1>1 DEF RefsOk, Numbered
  <1>4. \A d \in Callers : \/ seen'[d] = seen[d]
                           \/ seen'[d] = [seq |-> k.seq, elems |-> k.elems]
    BY <1>1, <1>2 DEF SeqsRise
  <1>5. Whole' = Whole
    BY <1>1 DEF Whole, Shown
  <1>6. SeqsRise'
    <2>1. DOMAIN seen' = Callers
      BY <1>1, <1>2 DEF SeqsRise
    <2>2. \A d \in Callers : /\ DOMAIN seen'[d] = {"seq", "elems"}
                             /\ seen'[d].seq \in Nat /\ seen'[d].seq <= latest.seq
      BY <1>1, <1>3, <1>4 DEF SeqsRise
    <2> QED
      BY <1>1, <2>1, <2>2 DEF SeqsRise
  <1>7. \A d \in Callers : ShowsPage(seen[d].seq, seen[d].elems)'
    BY <1>1, <1>3, <1>4, <1>5 DEF RefsInv, ShowsPage
  <1>8. ASSUME NEW h, RefsOk(h)
        PROVE  RefsOk(h)'
    BY <1>1, <1>5, <1>8 DEF RefsOk, Numbered, ShowsPage, Target
  <1>9. RefsOk(Idle)' /\ ~Numbered(Idle)
    <2>1. Idle.pc = "idle" /\ ~Idle.base.whole
      BY DEF Idle, Unseen
    <2> QED
      BY <2>1, PlainOk DEF Numbered
  <1> HIDE DEF Idle
  <1> QED
    BY <1>1, <1>6, <1>7, <1>8, <1>9, RefsStep

LEMMA ReturnDeltaRefs ==
    ASSUME RefsInv, NEW c \in Callers, ReturnDelta(c)
    PROVE  RefsInv'
  <1>1. /\ SeqsRise /\ UNCHANGED <<root, frames, change>> /\ snapSeq' = snapSeq + 1
        /\ call' = [call EXCEPT ![c] = Idle] /\ call[c].pc = "return"
        /\ latest' = [Unseen EXCEPT !.seq = snapSeq + 1]
        /\ seen' = [seen EXCEPT ![c].seq = IF @ = call[c].since THEN snapSeq + 1 ELSE @]
    BY DEF RefsInv, ReturnDelta, pageVars
  <1>2. latest'.seq = snapSeq + 1 /\ latest'.change = 0 /\ ~latest'.whole
    BY <1>1 DEF Unseen
  <1>3. /\ snapSeq \in Nat /\ change \in Nat /\ DOMAIN seen' = Callers
        /\ \A d \in Callers : /\ DOMAIN seen'[d] = {"seq", "elems"}
                              /\ seen'[d].seq \in Nat /\ seen'[d].seq <= snapSeq + 1
    <2>1. /\ snapSeq \in Nat /\ change \in Nat /\ DOMAIN seen = Callers
          /\ \A d \in Callers : /\ DOMAIN seen[d] = {"seq", "elems"}
                                /\ seen[d].seq \in Nat /\ seen[d].seq <= snapSeq
      BY <1>1 DEF SeqsRise
    <2>2. DOMAIN seen' = Callers /\ \A d \in Callers \ {c} : seen'[d] = seen[d]
      BY <1>1, <2>1
    <2>3. DOMAIN seen'[c] = {"seq", "elems"} /\ seen'[c].seq \in {seen[c].seq, snapSeq + 1}
      BY <1>1, <2>1
    <2> QED
      BY <2>1, <2>2, <2>3
  <1>4. SeqsRise'
    BY <1>1, <1>2, <1>3 DEF SeqsRise
  <1>5. \A seq, elems : ShowsPage(seq, elems)'
    BY <1>2 DEF ShowsPage
  <1>6. Whole' = Whole
    BY <1>1 DEF Whole, Shown
  <1>7. ASSUME NEW h, RefsOk(h)
        PROVE  RefsOk(h)'
    <2>1. Numbered(h) => h.seq \in Nat /\ h.seq <= snapSeq' /\ h.seq <= latest'.seq /\ h.seq # latest'.seq
      BY <1>1, <1>2, <1>3, <1>7 DEF RefsOk
    <2>2. h.pc = "finish" => ShowsPage(h.seq, h.elems)'
      BY <1>5
    <2> QED
      BY <1>1, <1>6, <1>7, <2>1, <2>2 DEF RefsOk, Numbered, Target
  <1>8. RefsOk(Idle)' /\ ~Numbered(Idle)
    <2>1. Idle.pc = "idle" /\ ~Idle.base.whole
      BY DEF Idle, Unseen
    <2> QED
      BY <2>1, PlainOk DEF Numbered
  <1> HIDE DEF Idle
  <1> QED
    BY <1>1, <1>4, <1>5, <1>7, <1>8, RefsStep

LEMMA RefsInitial ==
    ASSUME Init
    PROVE  RefsInv
  <1>1. CallShape /\ SeqsRise
    BY DEF Init, CallShape, SeqsRise, Unseen, NoView
  <1>2. \A c \in Callers : ShowsPage(seen[c].seq, seen[c].elems)
    BY DEF Init, ShowsPage, Unseen
  <1>3. RefsOk(Idle) /\ ~Numbered(Idle)
    BY DEF RefsOk, Numbered, Idle, Unseen
  <1>4. \A c \in Callers : call[c] = Idle
    BY DEF Init
  <1> HIDE DEF Idle
  <1> QED
    BY <1>1, <1>2, <1>3, <1>4 DEF RefsInv

(* The inductive invariant behind ActsOnWhatWasSeen: snapshots are numbered  *)
(* in the order of their drains (next_snapshot_seq), and whoever holds the   *)
(* one with the highest number holds the page of its capture.                *)
THEOREM RefsInvariance == Spec => []RefsInv
  <1>1. ASSUME RefsInv, [Next]_vars
        PROVE  RefsInv'
    <2>1. CASE UNCHANGED vars \/ PumpNavigated
      BY <1>1, <2>1, SameRefs DEF vars, pageVars, clientVars, PumpNavigated
    <2> QED
      BY <1>1, <2>1, PageRefs, PlainRefs, RequestRefs, DrainForSnapshotRefs, DeltaRefs, ReturnDeltaRefs,
         CaptureRefs, FinishRefs DEF Next
  <1> QED
    BY <1>1, RefsInitial, PTL DEF Spec

(* A request on refs that gave its seq (validate_snapshot_seq) and was       *)
(* accepted acts on what its caller saw while the page stays as it was, for  *)
(* any number of callers and any layouts.                                    *)
THEOREM ActsOnWhatWasSeenSafety == Spec => []ActsOnWhatWasSeen
  <1>1. RefsInv => ActsOnWhatWasSeen
    BY DEF RefsInv, RefsOk, ActsOnWhatWasSeen
  <1> QED
    BY <1>1, RefsInvariance, PTL

----------------------------------------------------------------------------
(* Input: HeldIsReleased is not inductive: it does not say that a program    *)
(* still to be sent lets go of what it will take hold of.  Balanced adds     *)
(* that, for every suffix a sender may be left with; the programs of         *)
(* PageRequests have it, and sending the head of a program keeps it.         *)

(* Every hold a program takes is let go of later in the same program. *)
Balanced(p) ==
    \A i \in DOMAIN p : p[i].kind = "down" =>
        \A d \in p[i].what \ Lasting :
            \E j \in DOMAIN p : i < j /\ p[j].kind = "up" /\ d \in p[j].what

Good(p) == p \in Seq(Commands) /\ Balanced(p)

InputTypeOK ==
    /\ todo \in [Senders -> Seq(Commands)]
    /\ held \subseteq Devices
    /\ stuck \subseteq held

InputInv ==
    /\ InputTypeOK
    /\ \A c \in Senders : Balanced(todo[c])
    /\ HeldIsReleased

-----------------------------------------------------------------------------
(* Sequences put one after the other keep their balance. *)
LEMMA GoodConcat ==
    ASSUME NEW p, NEW q, Good(p), Good(q)
    PROVE  Good(p \o q)
<1>1. p \o q \in Seq(Commands)  BY DEF Good
<1>2. ASSUME NEW i \in DOMAIN (p \o q), (p \o q)[i].kind = "down",
             NEW d \in (p \o q)[i].what \ Lasting
      PROVE  \E j \in DOMAIN (p \o q) : i < j /\ (p \o q)[j].kind = "up" /\ d \in (p \o q)[j].what
  <2>1. CASE i <= Len(p)
    <3>1. i \in DOMAIN p /\ (p \o q)[i] = p[i]  BY <1>2, <2>1 DEF Good
    <3>2. PICK j \in DOMAIN p : i < j /\ p[j].kind = "up" /\ d \in p[j].what
      BY <1>2, <3>1 DEF Good, Balanced
    <3>3. j \in DOMAIN (p \o q) /\ (p \o q)[j] = p[j]  BY <3>2 DEF Good
    <3> QED BY <3>2, <3>3
  <2>2. CASE i > Len(p)
    <3>1. i - Len(p) \in DOMAIN q /\ (p \o q)[i] = q[i - Len(p)]  BY <1>2, <2>2 DEF Good
    <3>2. PICK j \in DOMAIN q : i - Len(p) < j /\ q[j].kind = "up" /\ d \in q[j].what
      BY <1>2, <3>1 DEF Good, Balanced
    <3>3. /\ j + Len(p) \in DOMAIN (p \o q)
          /\ (p \o q)[j + Len(p)] = q[j]
          /\ i < j + Len(p)
      BY <1>2, <3>2 DEF Good
    <3> QED BY <3>2, <3>3
  <2>3. i \in Nat /\ Len(p) \in Nat  BY <1>2 DEF Good
  <2> QED BY <2>1, <2>2, <2>3
<1> QED BY <1>1, <1>2 DEF Good, Balanced

(* The commands actions.rs is built from are commands. *)
LEMMA InputCommands ==
    /\ Other \in Commands
    /\ \A D \in SUBSET Devices : Down(D) \in Commands /\ Up(D) \in Commands
    /\ \A k \in {"down", "up"} : Command(k, {"key"}, FALSE) \in Commands
BY DEF Other, Down, Up, Command, Commands, Devices

(* One command that takes no hold is balanced, and so is none. *)
LEMMA GoodSingle ==
    /\ Good(<<>>)
    /\ Good(<<Other>>)
    /\ \A D \in SUBSET Devices : Good(<<Up(D)>>)
    /\ Good(<<Down({"emulation"})>>)
    /\ Good(<<Down({"pen"})>>)
<1>1. Good(<<>>)  BY DEF Good, Balanced
<1>2. Good(<<Other>>)
  BY InputCommands DEF Good, Balanced, Other, Command
<1>3. ASSUME NEW D \in SUBSET Devices PROVE Good(<<Up(D)>>)
  BY InputCommands DEF Good, Balanced, Up, Command
<1>4. Good(<<Down({"emulation"})>>)
  BY InputCommands DEF Good, Balanced, Down, Command, Lasting, Devices
<1>5. Good(<<Down({"pen"})>>)
  BY InputCommands DEF Good, Balanced, Down, Command, Lasting, Devices
<1> QED BY <1>1, <1>2, <1>3, <1>4, <1>5

(* A hold and its release, with or without movements before and between. *)
LEMMA GoodPress ==
    ASSUME NEW D \in SUBSET Devices, NEW U \in SUBSET Devices, D \subseteq U
    PROVE  /\ Good(<<Down(D), Up(U)>>) /\ Good(<<Down(D), Other, Up(U)>>)
           /\ Good(<<Other, Down(D), Up(U)>>) /\ Good(<<Other, Down(D), Other, Up(U)>>)
<1>1. Down(D) \in Commands /\ Up(U) \in Commands /\ Other \in Commands  BY InputCommands
<1>2. /\ <<Down(D), Up(U)>> \in Seq(Commands) /\ <<Down(D), Other, Up(U)>> \in Seq(Commands)
      /\ <<Other, Down(D), Up(U)>> \in Seq(Commands)
      /\ <<Other, Down(D), Other, Up(U)>> \in Seq(Commands)
  BY <1>1
<1>3. Balanced(<<Down(D), Up(U)>>)  BY DEF Balanced, Down, Up, Command
<1>4. Balanced(<<Down(D), Other, Up(U)>>)  BY DEF Balanced, Down, Up, Other, Command
<1>5. Balanced(<<Other, Down(D), Up(U)>>)  BY DEF Balanced, Down, Up, Other, Command
<1>6. Balanced(<<Other, Down(D), Other, Up(U)>>)  BY DEF Balanced, Down, Up, Other, Command
<1> QED BY <1>2, <1>3, <1>4, <1>5, <1>6 DEF Good

(* A click is balanced whatever button it uses. *)
LEMMA GoodClick ==
    ASSUME NEW b \in {"left", "middle", "right"}
    PROVE  Good(click(b))
<1>1. {b} \in SUBSET Devices  BY DEF Devices
<1> QED BY <1>1, GoodPress DEF click

(* A key goes down and comes up again. *)
LEMMA GoodKey == Good(Key)
BY GoodPress DEF Key, Devices

(* The best-effort keys that clear a field come up too, if they are sent. *)
LEMMA GoodErase == Good(SelectAllAndErase)
<1>1. SelectAllAndErase \in Seq(Commands)
  <2> DEFINE dn == Command("down", {"key"}, FALSE)
             up == Command("up", {"key"}, FALSE)
  <2>1. dn \in Commands /\ up \in Commands  BY InputCommands
  <2>2. SelectAllAndErase = <<dn, up, dn, up>>  BY DEF SelectAllAndErase
  <2> HIDE DEF dn, up
  <2> QED BY <2>1, <2>2
<1>2. Balanced(SelectAllAndErase)
  BY DEF SelectAllAndErase, Balanced, Command
<1> QED BY <1>1, <1>2 DEF Good

(* Typing clicks, may clear the field, and presses keys. *)
LEMMA GoodType == \A clear \in BOOLEAN : Good(type_text(clear))
<1>1. Good(click("left"))  BY GoodClick
<1>2. ASSUME NEW clear \in BOOLEAN PROVE Good(type_text(clear))
  <2>1. Good(IF clear THEN SelectAllAndErase ELSE <<>>)  BY GoodErase, GoodSingle
  <2> QED BY <1>1, <2>1, GoodConcat, GoodKey DEF type_text
<1> QED BY <1>2

(* A drag lets go of the button where it ends. *)
LEMMA GoodDrag == Good(drag)
<1>1. {"left"} \in SUBSET Devices  BY DEF Devices
<1> QED BY <1>1, GoodPress DEF drag

(* Touches lift every finger they put down; the emulation they switch on     *)
(* stays on.                                                               *)
LEMMA GoodTouch ==
    ASSUME NEW F \in SUBSET Fingers, NEW path \in {<<>>, <<Other>>}
    PROVE  Good(Touch(F, path))
<1>1. F \in SUBSET Devices /\ Fingers \in SUBSET Devices  BY DEF Devices
<1>2. Good(<<Down(F), Up(Fingers)>>) /\ Good(<<Down(F), Other, Up(Fingers)>>)
  BY <1>1, GoodPress
<1>3. {"emulation"} \in SUBSET Devices  BY DEF Devices, Lasting
<1>4. Down({"emulation"}) \in Commands /\ Down(F) \in Commands /\ Up(Fingers) \in Commands
      /\ Other \in Commands
  BY <1>1, <1>3, InputCommands
<1>5. CASE path = <<>>
  <2>1. Touch(F, path) = <<Down({"emulation"})>> \o <<Down(F), Up(Fingers)>>
    BY <1>4, <1>5 DEF Touch
  <2> QED BY <1>2, <2>1, GoodSingle, GoodConcat
<1>6. CASE path = <<Other>>
  <2>1. Touch(F, path) = <<Down({"emulation"})>> \o <<Down(F), Other, Up(Fingers)>>
    BY <1>4, <1>6 DEF Touch
  <2> QED BY <1>2, <2>1, GoodSingle, GoodConcat
<1> QED BY <1>5, <1>6

(* Three short sequences joined are the sequence of their elements. *)
LEMMA Join ==
    ASSUME NEW S, NEW a \in S, NEW b \in S, NEW c \in S
    PROVE  <<a>> \o <<b>> \o <<c>> = <<a, b, c>> /\ <<a>> \o <<>> \o <<c>> = <<a, c>>
<1> DEFINE s == <<a>> \o <<b>> \o <<c>>  t == <<a, b, c>>
           u == <<a>> \o <<>> \o <<c>>  v == <<a, c>>
<1>1. s \in Seq(S) /\ t \in Seq(S) /\ Len(s) = 3 /\ Len(t) = 3 /\ \A i \in 1..3 : s[i] = t[i]
  OBVIOUS
<1>2. u \in Seq(S) /\ v \in Seq(S) /\ Len(u) = 2 /\ Len(v) = 2 /\ \A i \in 1..2 : u[i] = v[i]
  OBVIOUS
<1> HIDE DEF s, t, u, v
<1>3. s = t /\ u = v  BY <1>1, <1>2, SeqEqual
<1> QED BY <1>3 DEF s, t, u, v

(* A composition ends with its commit or without one. *)
LEMMA GoodIme == \A commit \in BOOLEAN : Good(keyboard_ime(commit))
<1> DEFINE D == {"composition"}
<1>1. D \in SUBSET Devices  BY DEF Devices
<1>2. Down(D) \in Commands /\ Up(D) \in Commands /\ Other \in Commands  BY <1>1, InputCommands
<1>3. Good(<<Down(D), Up(D)>>) /\ Good(<<Down(D), Other, Up(D)>>)  BY <1>1, GoodPress
<1>4. <<Down(D)>> \o <<Other>> \o <<Up(D)>> = <<Down(D), Other, Up(D)>>  BY <1>2, Join
<1>5. <<Down(D)>> \o <<>> \o <<Up(D)>> = <<Down(D), Up(D)>>  BY <1>2, Join
<1>6. Good(keyboard_ime(TRUE))  BY <1>3, <1>4 DEF keyboard_ime
<1>7. Good(keyboard_ime(FALSE))  BY <1>3, <1>5 DEF keyboard_ime
<1> QED BY <1>6, <1>7

(* Every program a page.* request sends is balanced. *)
LEMMA GoodRequests == \A r \in Requests : Good(r.prog)
<1>1. ASSUME NEW r \in page_click PROVE Good(r.prog)
  <2>1. PICK b \in Buttons : r = OnRefs(click(b), 1, TRUE)  BY <1>1 DEF page_click
  <2>2. Good(click(b))  BY <2>1, GoodClick, ButtonsAssumption
  <2> QED BY <2>1, <2>2 DEF OnRefs
<1>2. \A r \in page_type : Good(r.prog)  BY GoodType DEF page_type, OnRefs
<1>3. Good(keypress_with_modifiers) /\ Good(keyboard_shortcut)
  BY GoodKey DEF keypress_with_modifiers, keyboard_shortcut
<1>4. Good(precise_scroll) /\ Good(hover) /\ Good(pointer_move) /\ Good(read_text)
      /\ Good(screenshot) /\ Good(eval)
  BY GoodSingle DEF precise_scroll, hover, pointer_move, read_text, screenshot, eval
<1>5. Good(touch_tap) /\ Good(touch_swipe) /\ Good(touch_pinch) /\ Good(touch_rotate)
  BY GoodTouch DEF touch_tap, touch_swipe, touch_pinch, touch_rotate, Fingers
<1>6. Good(gesture_pinch) /\ Good(gesture_rotate) /\ Good(gesture_longpress)
  BY <1>5 DEF gesture_pinch, gesture_rotate, gesture_longpress
<1>7. {"pen"} \in SUBSET Devices /\ {"drag"} \in SUBSET Devices  BY DEF Devices, Lasting
<1>8. Good(pointer_press) /\ Good(pointer_release)
  BY <1>7, GoodSingle DEF pointer_press, pointer_release
<1>9. Good(file_drop)  BY <1>7, GoodPress DEF file_drop
<1>10. \A hint \in BOOLEAN : Good(dead_key(hint))
  BY GoodKey, GoodSingle, GoodConcat DEF dead_key
<1>11. Good(tab_traversal)  BY <1>3, GoodConcat DEF tab_traversal
<1>12. Good(right_click_menu_navigate)
  BY GoodClick, GoodSingle, GoodConcat DEF right_click_menu_navigate
<1>13. \A r \in page_keypress \union page_scroll \union page_hover \union page_drag :
          Good(r.prog)
  BY <1>3, <1>4, GoodDrag DEF page_keypress, page_scroll, page_hover, page_drag, OnRefs
<1>14. \A r \in page_touch \union page_pointer \union page_gesture : Good(r.prog)
  BY <1>4, <1>5, <1>6, <1>8 DEF page_touch, page_pointer, page_gesture, OnRefs
<1>15. \A r \in page_drag_file_drop \union page_keyboard \union page_dead_key : Good(r.prog)
  BY <1>3, <1>9, <1>10, GoodIme DEF page_drag_file_drop, page_keyboard, page_dead_key, OnRefs
<1>16. \A r \in page_scroll_precise \union page_tab_traversal
               \union page_right_click_menu_navigate : Good(r.prog)
  BY <1>4, <1>11, <1>12
  DEF page_scroll_precise, page_tab_traversal, page_right_click_menu_navigate, OnRefs
<1>17. \A r \in page_screenshot \union page_read_text \union page_eval : Good(r.prog)
  BY <1>4 DEF page_screenshot, page_read_text, page_eval, OnRefs
<1> QED BY <1>1, <1>2, <1>13, <1>14, <1>15, <1>16, <1>17 DEF Requests

-----------------------------------------------------------------------------
(* What a program has still to let go of, once its head is taken off. *)
LEMMA ReleasesSplit ==
    ASSUME NEW p \in Seq(Commands), p # <<>>
    PROVE  /\ Releases(p) = Releases(<<Head(p)>>) \union Releases(Tail(p))
           /\ Releases(<<Head(p)>>) = IF Head(p).kind = "up" THEN Head(p).what ELSE {}
<1>1. Releases(<<Head(p)>>) = IF Head(p).kind = "up" THEN Head(p).what ELSE {}
  BY DEF Releases
<1>2. ASSUME NEW d \in Releases(p) PROVE d \in Releases(<<Head(p)>>) \union Releases(Tail(p))
  <2>1. PICK i \in DOMAIN p : p[i].kind = "up" /\ d \in p[i].what  BY <1>2 DEF Releases
  <2>2. CASE i = 1  BY <1>1, <2>1, <2>2
  <2>3. CASE i # 1
    <3>1. i - 1 \in DOMAIN Tail(p) /\ Tail(p)[i - 1] = p[i]  BY <2>1, <2>3
    <3> QED BY <2>1, <3>1 DEF Releases
  <2> QED BY <2>2, <2>3
<1>3. ASSUME NEW d \in Releases(Tail(p)) PROVE d \in Releases(p)
  <2>1. PICK i \in DOMAIN Tail(p) : Tail(p)[i].kind = "up" /\ d \in Tail(p)[i].what
    BY <1>3 DEF Releases
  <2>2. i + 1 \in DOMAIN p /\ p[i + 1] = Tail(p)[i]  BY <2>1
  <2> QED BY <2>1, <2>2 DEF Releases
<1>4. ASSUME NEW d \in Releases(<<Head(p)>>) PROVE d \in Releases(p)
  <2>1. 1 \in DOMAIN p /\ p[1] = Head(p)  OBVIOUS
  <2>2. Head(p).kind = "up" /\ d \in Head(p).what  BY <1>1, <1>4
  <2> QED BY <2>1, <2>2 DEF Releases
<1> QED BY <1>1, <1>2, <1>3, <1>4

(* Taking the head off a balanced program leaves a balanced one that lets go *)
(* of whatever the head took hold of.                                      *)
LEMMA BalancedTail ==
    ASSUME NEW p \in Seq(Commands), p # <<>>, Balanced(p)
    PROVE  /\ Tail(p) \in Seq(Commands) /\ Head(p) \in Commands
           /\ Balanced(Tail(p))
           /\ Head(p).kind = "down" => Head(p).what \ Lasting \subseteq Releases(Tail(p))
<1>1. Tail(p) \in Seq(Commands) /\ Head(p) \in Commands  OBVIOUS
<1>2. ASSUME NEW i \in DOMAIN Tail(p), Tail(p)[i].kind = "down",
             NEW d \in Tail(p)[i].what \ Lasting
      PROVE  \E j \in DOMAIN Tail(p) : i < j /\ Tail(p)[j].kind = "up" /\ d \in Tail(p)[j].what
  <2>1. i + 1 \in DOMAIN p /\ p[i + 1] = Tail(p)[i]  BY <1>2
  <2>2. PICK j \in DOMAIN p : i + 1 < j /\ p[j].kind = "up" /\ d \in p[j].what
    BY <1>2, <2>1 DEF Balanced
  <2>3. j - 1 \in DOMAIN Tail(p) /\ Tail(p)[j - 1] = p[j] /\ i < j - 1  BY <1>2, <2>2
  <2> QED BY <2>2, <2>3
<1>3. ASSUME Head(p).kind = "down", NEW d \in Head(p).what \ Lasting
      PROVE  d \in Releases(Tail(p))
  <2>1. 1 \in DOMAIN p /\ p[1] = Head(p)  OBVIOUS
  <2>2. PICK j \in DOMAIN p : 1 < j /\ p[j].kind = "up" /\ d \in p[j].what
    BY <1>3, <2>1 DEF Balanced
  <2>3. j - 1 \in DOMAIN Tail(p) /\ Tail(p)[j - 1] = p[j]  BY <2>2
  <2> QED BY <2>2, <2>3 DEF Releases
<1> QED BY <1>1, <1>2, <1>3 DEF Balanced

-----------------------------------------------------------------------------
(* At first nothing is held and nothing is to be sent. *)
LEMMA InitHolds == InputInit => InputInv
<1> SUFFICES ASSUME InputInit PROVE InputInv  OBVIOUS
<1>1. InputTypeOK  BY DEF InputInit, InputTypeOK
<1>2. \A c \in Senders : Balanced(todo[c])  BY GoodSingle DEF InputInit, Good
<1>3. HeldIsReleased  BY DEF InputInit, HeldIsReleased
<1> QED BY <1>1, <1>2, <1>3 DEF InputInv

(* A request that is about to send brings a balanced program. *)
LEMMA ActKeeps ==
    ASSUME InputInv, NEW c \in Senders, Act(c)
    PROVE  InputInv'
<1>1. PICK r \in Requests : todo' = [todo EXCEPT ![c] = r.prog]  BY DEF Act
<1>2. Good(r.prog)  BY GoodRequests
<1>3. UNCHANGED <<held, stuck>> /\ todo[c] = <<>>  BY DEF Act
<1>4. InputTypeOK'  BY <1>1, <1>2, <1>3 DEF InputInv, InputTypeOK, Good
<1>5. \A x \in Senders : todo'[x] = IF x = c THEN r.prog ELSE todo[x]
  BY <1>1 DEF InputInv, InputTypeOK
<1>6. (\A x \in Senders : Balanced(todo[x]))'  BY <1>2, <1>5 DEF InputInv, Good
<1>7. Releases(todo[c]) = {}  BY <1>3 DEF Releases
<1>8. HeldIsReleased'  BY <1>3, <1>5, <1>7 DEF InputInv, HeldIsReleased
<1> QED BY <1>4, <1>6, <1>8 DEF InputInv

(* What the head of a program does to the devices, and what is left to       *)
(* release: a device still held afterwards is released by the rest of the    *)
(* program if the head took hold of it or the program was to release it.   *)
LEMMA AfterHead ==
    ASSUME InputInv, NEW c \in Senders, todo[c] # <<>>
    PROVE  /\ Tail(todo[c]) \in Seq(Commands) /\ Balanced(Tail(todo[c]))
           /\ After(Head(todo[c])) \subseteq Devices
           /\ Releases(<<Head(todo[c])>>) \subseteq Releases(todo[c])
           /\ \A d \in After(Head(todo[c])) \ Lasting :
                  d \in held \/ d \in Releases(Tail(todo[c]))
           /\ \A d \in After(Head(todo[c])) \cap Releases(todo[c]) :
                  d \in Releases(Tail(todo[c]))
           /\ Releases(Tail(todo[c])) \subseteq Releases(todo[c])
           /\ Releases(todo[c]) \subseteq
                  Releases(<<Head(todo[c])>>) \union Releases(Tail(todo[c]))
<1> DEFINE p == todo[c]
           h == Head(todo[c])
<1>1. p \in Seq(Commands) /\ p # <<>> /\ Balanced(p) /\ held \subseteq Devices
  BY DEF InputInv, InputTypeOK
<1>2. /\ Tail(p) \in Seq(Commands) /\ h \in Commands
      /\ Balanced(Tail(p))
      /\ h.kind = "down" => h.what \ Lasting \subseteq Releases(Tail(p))
  BY <1>1, BalancedTail
<1>3. /\ Releases(p) = Releases(<<h>>) \union Releases(Tail(p))
      /\ Releases(<<h>>) = IF h.kind = "up" THEN h.what ELSE {}
  BY <1>1, ReleasesSplit
<1>4. h.kind \in {"down", "up", "other"} /\ h.what \subseteq Devices  BY <1>2 DEF Commands
<1> HIDE DEF p, h
<1>5. /\ h.kind = "down" => After(h) = held \union h.what
      /\ h.kind = "up" => After(h) = held \ h.what
      /\ h.kind = "other" => After(h) = held
  BY DEF After
<1>6. After(h) \subseteq Devices  BY <1>1, <1>4, <1>5
<1>7. \A d \in After(h) \ Lasting : d \in held \/ d \in Releases(Tail(p))  BY <1>2, <1>4, <1>5
<1>8. \A d \in After(h) \cap Releases(p) : d \in Releases(Tail(p))  BY <1>3, <1>4, <1>5
<1> QED BY <1>2, <1>3, <1>6, <1>7, <1>8 DEF p, h

(* A command that is carried out, fails, or fails unnoticed keeps the        *)
(* invariant: what it releases is no longer held, what it took is released   *)
(* by the rest, and what an error leaves held is stuck.                    *)
LEMMA SendKeeps ==
    ASSUME InputInv, NEW c \in Senders, Send(c) \/ SendFails(c) \/ SendIgnored(c)
    PROVE  InputInv'
<1> DEFINE h == Head(todo[c])
           rest == Tail(todo[c])
<1>0. todo[c] # <<>>  BY DEF Send, SendFails, SendIgnored
<1>1. /\ rest \in Seq(Commands) /\ Balanced(rest)
      /\ After(h) \subseteq Devices
      /\ Releases(<<h>>) \subseteq Releases(todo[c])
      /\ \A d \in After(h) \ Lasting : d \in held \/ d \in Releases(rest)
      /\ \A d \in After(h) \cap Releases(todo[c]) : d \in Releases(rest)
      /\ Releases(rest) \subseteq Releases(todo[c])
      /\ Releases(todo[c]) \subseteq Releases(<<h>>) \union Releases(rest)
  BY <1>0, AfterHead
<1>2. /\ todo \in [Senders -> Seq(Commands)] /\ held \subseteq Devices /\ stuck \subseteq held
      /\ \A x \in Senders : Balanced(todo[x])
      /\ \A d \in held \ Lasting : d \in stuck \/ \E x \in Senders : d \in Releases(todo[x])
  BY DEF InputInv, InputTypeOK, HeldIsReleased
<1>3. ASSUME NEW left \in {rest, <<>>}, todo' = [todo EXCEPT ![c] = left],
             held' \in {held, After(h)}, stuck' \subseteq held',
             \A d \in held' : d \in stuck => d \in stuck',
             \A d \in held' \ Lasting :
                d \in stuck' \/ d \in Releases(left)
                \/ (d \in held /\ d \notin Releases(todo[c]))
      PROVE  InputInv'
  <2>1. left \in Seq(Commands) /\ Balanced(left)  BY <1>1, GoodSingle DEF Good
  <2>2. \A x \in Senders : todo'[x] = IF x = c THEN left ELSE todo[x]  BY <1>2, <1>3
  <2>3. InputTypeOK'  BY <1>1, <1>2, <1>3, <2>1 DEF InputTypeOK
  <2>4. (\A x \in Senders : Balanced(todo[x]))'  BY <1>2, <2>1, <2>2
  <2>5. ASSUME NEW d \in held' \ Lasting
        PROVE  d \in stuck' \/ \E x \in Senders : d \in Releases(todo'[x])
    <3>1. CASE d \in stuck'  BY <3>1
    <3>2. CASE d \in Releases(left)  BY <2>2, <3>2
    <3>3. CASE d \in held /\ d \notin Releases(todo[c])
      <4>1. d \in stuck \/ \E x \in Senders \ {c} : d \in Releases(todo[x])  BY <1>2, <2>5, <3>3
      <4> QED BY <1>3, <2>2, <2>5, <4>1
    <3> QED BY <1>3, <2>5, <3>1, <3>2, <3>3
  <2>6. HeldIsReleased'  BY <2>5 DEF HeldIsReleased, Releases
  <2> QED BY <2>3, <2>4, <2>6 DEF InputInv
<1>4. CASE Send(c)
  <2>1. held' = After(h) /\ stuck' = stuck \cap held' /\ todo' = [todo EXCEPT ![c] = rest]
    BY <1>2, <1>4 DEF Send
  <2>2. \A d \in held' \ Lasting :
           d \in Releases(rest) \/ (d \in held /\ d \notin Releases(todo[c]))
    BY <1>1, <2>1
  <2> HIDE DEF h, rest
  <2> QED BY <1>3, <2>1, <2>2
<1>5. CASE SendFails(c)
  <2>1. /\ held' \in {held, After(h)} /\ stuck' = (stuck \union Releases(todo[c])) \cap held'
        /\ todo' = [todo EXCEPT ![c] = <<>>]
    BY <1>5 DEF SendFails
  <2>2. \A d \in held' \ Lasting :
           d \in stuck' \/ (d \in held /\ d \notin Releases(todo[c]))
    BY <1>1, <2>1
  <2> HIDE DEF h, rest
  <2> QED BY <1>3, <2>1, <2>2
<1>6. CASE SendIgnored(c)
  <2>1. /\ held' \in {held, After(h)} /\ stuck' = (stuck \union Releases(<<h>>)) \cap held'
        /\ todo' = [todo EXCEPT ![c] = rest]
    BY <1>2, <1>6 DEF SendIgnored
  <2>2. \A d \in held' \ Lasting :
           d \in stuck' \/ d \in Releases(rest)
           \/ (d \in held /\ d \notin Releases(todo[c]))
    BY <1>1, <2>1
  <2> HIDE DEF h, rest
  <2> QED BY <1>3, <2>1, <2>2
<1> QED BY <1>4, <1>5, <1>6

(* The inductive invariant of the input of a tab (actions.rs over cdp_send). *)
THEOREM InputInvariance == InputSpec => []InputInv
<1>1. InputInit => InputInv  BY InitHolds
<1>2. InputInv /\ [InputNext]_inputVars => InputInv'
  <2> SUFFICES ASSUME InputInv, [InputNext]_inputVars PROVE InputInv'  OBVIOUS
  <2>1. CASE InputNext
    <3>1. PICK c \in Senders : Act(c) \/ Send(c) \/ SendFails(c) \/ SendIgnored(c)
      BY <2>1 DEF InputNext
    <3> QED BY <3>1, ActKeeps, SendKeeps
  <2>2. CASE UNCHANGED inputVars
    BY <2>2 DEF InputInv, InputTypeOK, HeldIsReleased, inputVars
  <2> QED BY <2>1, <2>2
<1> QED BY <1>1, <1>2, PTL DEF InputSpec

(* However many callers share the tab and however their commands interleave  *)
(* and fail, nothing stays held that no request in progress will let go of,  *)
(* except where the releasing command itself failed (actions.rs).          *)
THEOREM InputIsReleased == InputSpec => []HeldIsReleased
<1>1. InputInv => HeldIsReleased  BY DEF InputInv
<1> QED BY <1>1, InputInvariance, PTL
=============================================================================
