---------------------------- MODULE PageControl ----------------------------
(***************************************************************************)
(* One tab (crates/browser-engine: page.rs, snapshot.rs, actions.rs) and     *)
(* the page.* handlers that drive it for the connections bound to its        *)
(* session (crates/broker/src/router/page.rs): full snapshots, deltas        *)
(* against the anchor of the latest one, and requests on refs up to the      *)
(* point where they act; PageInput has the events they send.               *)
(*                                                                         *)
(* The document changes by itself: it mutates (the observer of               *)
(* ax-engine/src/mutation.rs logs a numbered record), its child frames       *)
(* change (nothing is logged) or it navigates (a new document, whose         *)
(* numbering restarts).  An element stands for its identity and its          *)
(* position in the snapshot for its bounding box.  A handler takes one step  *)
(* per answer of Chromium it waits for; requests refused for their           *)
(* parameters take no step.                                                *)
(***************************************************************************)
EXTENDS Naturals, Sequences, FiniteSets, FiniteSetsExt, PageRequests

CONSTANTS
    Callers,     \* connections whose requests reach the tab
    Layouts,     \* what the root document shows: sequences of elements
    Frames,      \* what the child frames show, one element each
    ZeroArea,    \* elements without a box
    MaxLog,      \* MAX_LOG of the observer
    MaxCalls,    \* bound: requests
    MaxChanges,  \* bound: changes of the page
    MaxNavs      \* bound: navigations

ASSUME PageAssumption ==
    /\ MaxLog \in Nat \ {0} /\ MaxCalls \in Nat /\ MaxChanges \in Nat
    /\ MaxNavs \in Nat /\ Layouts # {} /\ <<>> \in Frames

VARIABLES
    root,       \* elements of the root document
    frames,     \* elements of its child frames
    doc,        \* number of the current document
    mutSeq,     \* window.__oneForAllMutationSeq
    log,        \* window.__oneForAllMutationLog: the numbers of its records
    navEvents,  \* Page.frameNavigated events the pump has not handled
    anchor,     \* Page.delta_anchor
    snapSeq,    \* Page.snapshot_seq
    call,       \* per caller: the handler it is in
    seen,       \* per caller: the last full snapshot it received
    calls,      \* number of requests
    change,     \* history: number of changes of the page
    drainedTo,  \* history: last record of this document a drain removed
    latest      \* history: the page the snapshot with the highest seq shows

pageVars == <<root, frames, doc, mutSeq, log, change, drainedTo>>
pumpVars == <<navEvents>>
clientVars == <<seen, calls, latest>>
vars == <<pageVars, pumpVars, anchor, snapSeq, call, clientVars>>

Seqs == 0..MaxCalls
Muts == 0..MaxChanges
Shown(l) == {l[i] : i \in DOMAIN l}
Elements == UNION {Shown(l) : l \in Layouts \union Frames}

NoAnchor == [seq |-> 0, high |-> 0, mark |-> 0, doc |-> 0, upto |-> 0, at |-> 0, frames |-> <<>>]
NoView == [seq |-> 0, elems |-> <<>>]
Unseen == [seq |-> 0, change |-> 0, whole |-> FALSE]

(* What a handler holds between two steps: the code's locals, and of the     *)
(* history where its drain and its capture found the page (doc, upto, at,    *)
(* frames), whether its delta was undisturbed (clean), what its client saw   *)
(* at its refs (want), the latest snapshot when it was accepted (base) and   *)
(* whether its own shows the same page (same).  The history of an anchor     *)
(* also has the document whose records its high-water mark counts (mark).  *)
Idle ==
    [pc |-> "idle", refs |-> <<>>, since |-> 0, anchor |-> NoAnchor, got |-> {}, high |-> 0,
     seq |-> 0, elems |-> <<>>, doc |-> 0, upto |-> 0, at |-> 0, frames |-> <<>>,
     clean |-> FALSE, want |-> <<>>, base |-> Unseen, same |-> FALSE]

Init ==
    /\ root = CHOOSE l \in Layouts : TRUE
    /\ frames = <<>>
    /\ doc = 1 /\ mutSeq = 0 /\ log = {} /\ navEvents = 0
    /\ anchor = NoAnchor /\ snapSeq = 0
    /\ call = [c \in Callers |-> Idle]
    /\ seen = [c \in Callers |-> NoView]
    /\ calls = 0 /\ change = 0 /\ drainedTo = 0
    /\ latest = Unseen

-----------------------------------------------------------------------------
(* The page and the event pump. *)

Changes == change < MaxChanges /\ change' = change + 1

(* record(): the log keeps the newest MaxLog records. *)
Record ==
    /\ mutSeq' = mutSeq + 1
    /\ log' = {n \in log \union {mutSeq + 1} : n + MaxLog > mutSeq + 1}

Mutate ==
    /\ Changes /\ Record
    /\ root' \in Layouts /\ frames' \in Frames
    /\ \/ root' # root /\ frames' = frames
       \/ root' = root /\ (frames' = <<>>) # (frames = <<>>)
    /\ UNCHANGED <<doc, drainedTo, pumpVars, anchor, snapSeq, call, clientVars>>

FrameMutates ==
    /\ Changes
    /\ frames' \in Frames \ {frames, <<>>} /\ frames # <<>>
    /\ UNCHANGED <<root, doc, mutSeq, log, drainedTo, pumpVars, anchor, snapSeq, call,
                   clientVars>>

Navigate ==
    /\ doc <= MaxNavs /\ change < MaxChanges
    /\ change' = change + 1 /\ doc' = doc + 1
    /\ root' \in Layouts /\ frames' = <<>>
    /\ mutSeq' = 0 /\ log' = {} /\ drainedTo' = 0
    /\ navEvents' = navEvents + 1
    /\ UNCHANGED <<anchor, snapSeq, call, clientVars>>

(* event_pump, PageFrameNavigated *)
PumpNavigated ==
    /\ navEvents > 0 /\ navEvents' = navEvents - 1
    /\ anchor' = NoAnchor
    /\ UNCHANGED <<pageVars, snapSeq, call, clientVars>>

-----------------------------------------------------------------------------
(* Requests. *)

Begin(c, rec) ==
    /\ call[c].pc = "idle"
    /\ calls < MaxCalls /\ calls' = calls + 1
    /\ call' = [call EXCEPT ![c] = rec]

(* page.snapshot: with since_seq 0 or none it is a full snapshot. *)
page_snapshot(c) ==
    /\ \/ Begin(c, [Idle EXCEPT !.pc = "drain"])
       \/ \E n \in 1..snapSeq :
             Begin(c, [Idle EXCEPT !.pc = "frames", !.since = n])
    /\ UNCHANGED <<pageVars, pumpVars, anchor, snapSeq, seen, latest>>

(* The elements of a snapshot that refs name: "e<i>" is an index into it. *)
Target(elems, refs) == [i \in DOMAIN refs |-> elems[refs[i]]]

(* Mutant: any seq that was ever handed out is accepted. *)
MutValidated(given, n) == given => n # 0

(* validate_snapshot_seq: a missing seq is let through. *)
Validated(given, n) == given => ~(n < snapSeq)

(* A request on refs: validated against the current seq, then a snapshot of  *)
(* its own.  Which request it is matters only once the refs are resolved.    *)
(* The history keeps what the client saw at them.                          *)
RefRequest(c, given) ==
    /\ seen[c].seq # 0
    /\ Validated(given, seen[c].seq)
    /\ \E n \in {r.refs : r \in Requests} \ {0} : \E refs \in [1..n -> DOMAIN seen[c].elems] :
          Begin(c, [Idle EXCEPT !.pc = "drain", !.refs = refs,
                                !.want = Target(seen[c].elems, refs),
                                !.base = IF given THEN latest ELSE Unseen])
    /\ UNCHANGED <<pageVars, pumpVars, anchor, snapSeq, seen, latest>>

-----------------------------------------------------------------------------
(* Snapshots. *)

HighWater(recs) == IF recs = {} THEN 0 ELSE Max(recs)

(* Chromium runs the drain and the answer arrives, or the answer is an       *)
(* error and the log may or may not have been emptied.                     *)
DrainEmpties == log' = {} /\ drainedTo' = mutSeq
DrainLeaves == UNCHANGED <<log, drainedTo>>

(* drain_mutation_high_water, then next_snapshot_seq of do_snapshot *)
DrainForSnapshot(c) ==
    /\ call[c].pc = "drain"
    /\ \E ok \in BOOLEAN :
          /\ \/ DrainEmpties
             \/ ~ok /\ DrainLeaves
          /\ snapSeq' = snapSeq + 1
          /\ call' = [call EXCEPT ![c] =
                         [@ EXCEPT !.pc = "capture", !.seq = snapSeq + 1, !.doc = doc,
                                   !.upto = drainedTo',
                                   !.high = IF ok THEN HighWater(log) ELSE 0]]
    /\ UNCHANGED <<root, frames, doc, mutSeq, change, pumpVars, anchor, clientVars>>

(* What is left of a delta request once it falls back. *)
FullSnapshot == [Idle EXCEPT !.pc = "drain"]

(* page_has_child_frames, then the anchor is read *)
CheckAnchor(c) ==
    /\ call[c].pc = "frames"
    /\ LET usable == frames = <<>> /\ anchor # NoAnchor /\ anchor.seq = call[c].since IN
          call' = [call EXCEPT ![c] =
                      IF usable THEN [@ EXCEPT !.pc = "delta", !.anchor = anchor]
                      ELSE FullSnapshot]
    /\ UNCHANGED <<pageVars, pumpVars, anchor, snapSeq, clientVars>>

(* Mutant: one dropped record goes unnoticed. *)
MutOverflowed(high, recs) == recs # {} /\ Min(recs) > high + 2

mutation_log_overflowed(high, recs) == recs # {} /\ Min(recs) > high + 1

(* drain_mutation_log on the delta path: a failed drain falls back to a full *)
(* snapshot that drains again, a gap to one that does not.                 *)
DrainForDelta(c) ==
    /\ call[c].pc = "delta"
    /\ \/ /\ DrainEmpties
          /\ LET lost == mutation_log_overflowed(call[c].anchor.high, log)
             IN \/ /\ lost
                   /\ snapSeq' = snapSeq + 1
                   /\ call' = [call EXCEPT ![c] =
                                  [FullSnapshot EXCEPT !.pc = "capture", !.seq = snapSeq + 1,
                                                       !.high = HighWater(log), !.doc = doc,
                                                       !.upto = drainedTo']]
                \/ /\ ~lost
                   /\ UNCHANGED snapSeq
                   /\ call' = [call EXCEPT ![c] =
                                  [@ EXCEPT !.pc = "return", !.got = log, !.doc = doc,
                                            !.upto = drainedTo', !.at = mutSeq,
                                            !.frames = frames,
                                            !.clean = /\ call[c].anchor.mark = doc
                                                      /\ call[c].anchor.doc = doc
                                                      /\ call[c].anchor.upto = drainedTo]]
       \/ /\ DrainEmpties \/ DrainLeaves
          /\ call' = [call EXCEPT ![c] = FullSnapshot]
          /\ UNCHANGED snapSeq
    /\ UNCHANGED <<root, frames, doc, mutSeq, change, pumpVars, anchor, clientVars>>

Newer(high, recs) == {n \in recs : n > high}

(* The happy path: records newer than the anchor, a new seq, a new anchor.   *)
(* A client that applies the delta to its snapshot takes its seq over.     *)
ReturnDelta(c) ==
    /\ call[c].pc = "return"
    /\ snapSeq' = snapSeq + 1
    /\ LET recs == Newer(call[c].anchor.high, call[c].got) IN
       anchor' = [seq |-> snapSeq + 1,
                  high |-> IF recs = {} THEN call[c].anchor.high ELSE Max(recs),
                  mark |-> IF recs = {} THEN call[c].anchor.mark ELSE call[c].doc,
                  doc |-> call[c].doc, upto |-> call[c].upto, at |-> call[c].at,
                  frames |-> call[c].frames]
    /\ latest' = [Unseen EXCEPT !.seq = snapSeq + 1]
    /\ call' = [call EXCEPT ![c] = Idle]
    /\ seen' = [seen EXCEPT ![c].seq = IF @ = call[c].since THEN snapSeq + 1 ELSE @]
    /\ UNCHANGED <<pageVars, pumpVars, calls>>

(* snapshot_parts_for_session and the child frames: a frame that fails is    *)
(* left out.                                                               *)
Answered(fs, ok) == SelectSeq(fs, LAMBDA e : e \in ok)

Capture(c) ==
    /\ call[c].pc = "capture"
    /\ \E ok \in SUBSET Shown(frames) :
          /\ latest' = IF call[c].seq < latest.seq THEN latest
                       ELSE [seq |-> call[c].seq, change |-> change, whole |-> ok = Shown(frames)]
          /\ call' = [call EXCEPT ![c] =
                         [@ EXCEPT !.pc = "finish", !.elems = root \o Answered(frames, ok),
                                   !.at = mutSeq, !.frames = frames,
                                   !.same = /\ call[c].base.whole /\ ok = Shown(frames)
                                            /\ call[c].base.change = change]]
    /\ UNCHANGED <<pageVars, pumpVars, anchor, snapSeq, seen, calls>>

(* Target.getTargets or Accessibility.getFullAXTree fails: the request ends  *)
(* with an error, the anchor stays and what was drained is gone.           *)
SnapshotFails(c) ==
    /\ call[c].pc \in {"frames", "capture"}
    /\ call' = [call EXCEPT ![c] = Idle]
    /\ UNCHANGED <<pageVars, pumpVars, anchor, snapSeq, clientVars>>

(* resolve_ref: every ref is an index of the snapshot just taken. *)
Resolves(elems, refs) == \A i \in DOMAIN refs : refs[i] \in DOMAIN elems
(* bbox_must_be_actionable *)
Actionable(r, targets) == r.area => \A i \in DOMAIN targets : targets[i] \notin ZeroArea

(* The end of do_snapshot: the anchor moves. *)
MoveAnchor(c) ==
    anchor' = [seq |-> call[c].seq, high |-> call[c].high, mark |-> call[c].doc,
               doc |-> call[c].doc, upto |-> call[c].upto, at |-> call[c].at,
               frames |-> call[c].frames]

(* ... and page.snapshot answers, *)
FinishSnapshot(c) ==
    /\ call[c].pc = "finish" /\ call[c].refs = <<>>
    /\ MoveAnchor(c)
    /\ call' = [call EXCEPT ![c] = Idle]
    /\ seen' = [seen EXCEPT ![c] = [seq |-> call[c].seq, elems |-> call[c].elems]]
    /\ UNCHANGED <<pageVars, pumpVars, snapSeq, calls, latest>>

(* ... or the request resolves its refs in the new snapshot and acts, *)
FinishOnRefs(c) ==
    /\ call[c].pc = "finish" /\ call[c].refs # <<>>
    /\ MoveAnchor(c)
    /\ Resolves(call[c].elems, call[c].refs)
    /\ \E r \in Requests :
          /\ r.refs = Len(call[c].refs)
          /\ Actionable(r, Target(call[c].elems, call[c].refs))
    /\ call' = [call EXCEPT ![c] = Idle]
    /\ UNCHANGED <<pageVars, pumpVars, snapSeq, seen, calls, latest>>

(* ... or is refused: ElementStale or ElementNotActionable. *)
RefuseRefs(c) ==
    /\ call[c].pc = "finish" /\ call[c].refs # <<>>
    /\ MoveAnchor(c)
    /\ \/ ~Resolves(call[c].elems, call[c].refs)
       \/ /\ Resolves(call[c].elems, call[c].refs)
          /\ \E r \in Requests :
                /\ r.refs = Len(call[c].refs)
                /\ ~Actionable(r, Target(call[c].elems, call[c].refs))
    /\ call' = [call EXCEPT ![c] = Idle]
    /\ UNCHANGED <<pageVars, pumpVars, snapSeq, seen, calls, latest>>

-----------------------------------------------------------------------------
Next ==
    \/ Mutate \/ FrameMutates \/ Navigate \/ PumpNavigated
    \/ \E c \in Callers :
          \/ page_snapshot(c)
          \/ \E given \in BOOLEAN : RefRequest(c, given)
          \/ DrainForSnapshot(c) \/ CheckAnchor(c) \/ DrainForDelta(c) \/ ReturnDelta(c)
          \/ Capture(c) \/ SnapshotFails(c)
          \/ FinishSnapshot(c) \/ FinishOnRefs(c) \/ RefuseRefs(c)

Spec == Init /\ [][Next]_vars

-----------------------------------------------------------------------------
(* Every variable keeps its type: counters stay inside their bounds, the     *)
(* log holds at most MaxLog records of the current document, and the anchor  *)
(* names a snapshot that was taken (page.rs and mutation.rs state).        *)
TypeOK ==
    /\ root \in Layouts /\ frames \in Frames
    /\ doc \in 1..(MaxNavs + 1) /\ mutSeq \in Muts /\ change \in Muts
    /\ log \subseteq 1..mutSeq /\ Cardinality(log) <= MaxLog
    /\ navEvents \in 0..MaxNavs /\ drainedTo \in 0..mutSeq
    /\ snapSeq \in Seqs /\ calls \in Seqs /\ snapSeq <= calls
    /\ anchor.seq \in 0..snapSeq /\ anchor.high \in Muts
    /\ \A c \in Callers :
          /\ call[c].pc \in {"idle", "drain", "frames", "delta", "return", "capture",
                             "finish"}
          /\ call[c].since \in Seqs /\ call[c].seq \in Seqs
          /\ seen[c].seq \in 0..snapSeq /\ Shown(seen[c].elems) \subseteq Elements

(* A delta (snapshot_delta_since) that nothing disturbed (no other request's *)
(* drain and no navigation came between the anchor's drain and its own, and  *)
(* the anchor's mark counts the records of this document) holds every record *)
(* made since the snapshot it is based on, whatever the log dropped,         *)
(* whichever drains failed and whatever empty drains did to the high-water   *)
(* mark; and when it is empty the child frames are those of that snapshot    *)
(* too.                                                                    *)
DeltaIsComplete ==
    \A c \in Callers :
        call[c].pc = "return" /\ call[c].clean =>
            LET recs == Newer(call[c].anchor.high, call[c].got) IN
            /\ (call[c].anchor.at + 1)..call[c].at \subseteq recs
            /\ recs = {} => call[c].frames = call[c].anchor.frames

(* An action that gave its snapshot_seq (validate_snapshot_seq) acts on the  *)
(* elements its caller saw at those refs, if the page has not changed since  *)
(* the latest snapshot anyone had been given when it was accepted and no     *)
(* child frame was left out: other callers' snapshots and actions in between *)
(* cannot redirect it.                                                     *)
ActsOnWhatWasSeen ==
    \A c \in Callers :
        call[c].pc = "finish" /\ call[c].same /\ Resolves(call[c].elems, call[c].refs) =>
            Target(call[c].elems, call[c].refs) = call[c].want

=============================================================================
