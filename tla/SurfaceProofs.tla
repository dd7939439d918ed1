--------------------------- MODULE SurfaceProofs ---------------------------
(***************************************************************************)
(* What a session reads beside its pages, for any number of calls under    *)
(* way, policies, copies, element trees, readers, slots and frames: no     *)
(* text or act that the privacy policy forbids comes out of a call of the  *)
(* AppController, a vision.frame event points at its own bytes, and the    *)
(* changed tiles a client is told of miss no change of the screen.         *)
(***************************************************************************)
EXTENDS Vision, NativeApps, FiniteSetTheorems, WellFoundedInduction, TLAPS

----------------------------------------------------------------------------
(* The policy: inductive invariant                                          *)

AllTexts == Texts \union {"none", "secret"}
Items == [kind : {"String", "Files", "Image", "Other"}, text : AllTexts]
ItemTypes ==
    /\ board \in Items /\ clips \in Seq(Items)
    /\ poll \in [Pollers -> [pc : {"idle", "seen", "captured"}, item : Items]]

\* The policies a call has seen, the one in force among them, allow what it has
\* done and is about to do.
Policied(k) ==
    /\ DOMAIN k = DOMAIN AtRest /\ k.text \in AllTexts /\ DOMAIN k.snap = {"seq", "texts"}
    /\ k.pc # "idle" => policy \in k.since
    /\ k.pc = "act" => \E p \in k.since : ~p.block
    /\ k.pc # "done" => k.out = {} /\ ~k.acted
    /\ "secret" \in k.out => \E p \in k.since : ~p.hide
    /\ k.acted => \E p \in k.since : ~p.block

\* Only a call that refreshes the cache samples the pasteboard.
Sampling == \A c \in Agents : poll[c].pc # "idle" => req[c].pc = "refresh"
Told == notified.text = "secret" => ~notified.under.hide

PolicyInv ==
    /\ DOMAIN req = Agents /\ \A c \in Agents : Policied(req[c])
    /\ ItemTypes /\ Sampling /\ Told

(* What is redacted is no secret, unless the policy in force lets it out.   *)
LEMMA Redaction ==
    ASSUME policy.hide
    PROVE  /\ \A t : redact_text(t) # "secret"
           /\ \A item \in Items : "secret" \notin TextOf(apply_clipboard(item))
  <1>1. \A t : redact_text(t) # "secret"
    BY DEF redact_text, matches
  <1>2. ASSUME NEW item \in Items, "secret" \in TextOf(apply_clipboard(item))
        PROVE  FALSE
    <2> DEFINE out == apply_clipboard(item)
    <2>1. out.kind = "String" /\ out.text = "secret"
      BY <1>2 DEF TextOf
    <2>2. CASE item.kind = "String" /\ matches(item.text)
      <3>1. out = [item EXCEPT !.text = "redacted"]
        BY <2>2 DEF apply_clipboard
      <3> QED
        BY <2>1, <3>1 DEF Items
    <2>3. CASE ~(item.kind = "String" /\ matches(item.text))
      BY <2>1, <2>3 DEF apply_clipboard, matches
    <2> QED
      BY <2>2, <2>3
  <1> QED
    BY <1>1, <1>2

(* Call c goes on with v.                                                   *)
LEMMA PolicyStep ==
    ASSUME PolicyInv, policy' = policy, ItemTypes', Told',
           NEW c \in Agents, NEW v, Policied(v), req' = [req EXCEPT ![c] = v],
           \A d \in Agents : poll'[d].pc # "idle" => IF d = c THEN v.pc = "refresh" ELSE poll[d].pc # "idle"
    PROVE  PolicyInv'
  <1>1. DOMAIN req' = Agents /\ req'[c] = v /\ \A d \in Agents \ {c} : req'[d] = req[d]
    BY DEF PolicyInv
  <1>2. \A d \in Agents : Policied(req[d])'
    <2>1. ASSUME NEW d \in Agents, NEW k, k = req'[d]
          PROVE  Policied(req[d])'
      <3>1. Policied(k)
        BY <1>1, <2>1 DEF PolicyInv
      <3> QED
        BY <2>1, <3>1 DEF Policied
    <2> QED
      BY <2>1
  <1>3. Sampling'
    BY <1>1 DEF Sampling, PolicyInv
  <1> QED
    BY <1>1, <1>2, <1>3 DEF PolicyInv

(* ... and nothing else of what the policy is about changes.                *)
LEMMA CallStep ==
    ASSUME PolicyInv, UNCHANGED <<policy, poll, notified>>, board' \in Items, clips' \in Seq(Items),
           NEW c \in Agents, NEW v, Policied(v), req[c].pc # "refresh", req' = [req EXCEPT ![c] = v]
    PROVE  PolicyInv'
  <1>1. ItemTypes' /\ Told' /\ poll[c].pc = "idle"
    BY DEF PolicyInv, ItemTypes, Told, Sampling
  <1> QED
    BY <1>1, PolicyStep

(* No call moves.                                                           *)
LEMMA NoCallStep ==
    ASSUME PolicyInv, UNCHANGED <<policy, req>>, ItemTypes', Told',
           \A d \in Agents : poll'[d].pc # "idle" => poll[d].pc # "idle" \/ req[d].pc = "refresh"
    PROVE  PolicyInv'
  <1>1. \A d \in Agents : Policied(req[d])'
    BY DEF PolicyInv, Policied
  <1>2. Sampling'
    BY DEF Sampling, PolicyInv
  <1> QED
    BY <1>1, <1>2 DEF PolicyInv

LEMMA RestStep ==
    ASSUME PolicyInv, UNCHANGED <<policy, req, poll, notified>>, board' \in Items, clips' \in Seq(Items)
    PROVE  PolicyInv'
  BY NoCallStep DEF PolicyInv, ItemTypes, Told

(* The records a call goes on with.                                         *)
LEMMA AtRestOk == Policied(AtRest)
  BY DEF Policied, AtRest, NoSnap, AllTexts

LEMMA StartedOk ==
    ASSUME NEW op, NEW pc, pc \notin {"act", "done"}, NEW t \in AllTexts, NEW seq
    PROVE  /\ Policied(Started(op, pc))
           /\ Policied([Started(op, pc) EXCEPT !.text = t])
           /\ Policied([Started(op, pc) EXCEPT !.snap.seq = seq])
  <1>1. Policied(Started(op, pc))
    BY DEF Policied, Started, AtRest, NoSnap, AllTexts
  <1>2. Policied([Started(op, pc) EXCEPT !.text = t])
    BY DEF Policied, Started, AtRest, NoSnap, AllTexts
  <1>3. Policied([Started(op, pc) EXCEPT !.snap.seq = seq])
    BY DEF Policied, Started, AtRest, NoSnap, AllTexts
  <1> QED
    BY <1>1, <1>2, <1>3

LEMMA ActOk ==
    ASSUME NEW op, NEW i, ~policy.block
    PROVE  Policied([Started(op, "act") EXCEPT !.path = i])
  BY DEF Policied, Started, AtRest, NoSnap, AllTexts

LEMMA GoesOk ==
    ASSUME NEW k, Policied(k), k.pc \notin {"idle", "done"}, NEW pc, pc \notin {"act", "done"}
    PROVE  Policied([k EXCEPT !.pc = pc])
  <1> DEFINE v == [k EXCEPT !.pc = pc]
  <1>1. /\ DOMAIN v = DOMAIN k /\ v.pc = pc /\ v.text = k.text /\ v.snap = k.snap /\ v.since = k.since
        /\ v.out = k.out /\ v.acted = k.acted
    BY DEF Policied, AtRest
  <1> HIDE DEF v
  <1> QED
    BY <1>1 DEF Policied

LEMMA RepliesOk ==
    ASSUME NEW k, Policied(k), k.pc \notin {"idle", "done"}, NEW texts, "secret" \in texts => ~policy.hide
    PROVE  Policied([k EXCEPT !.pc = "done", !.out = texts])
  <1> DEFINE v == [k EXCEPT !.pc = "done", !.out = texts]
  <1>1. /\ DOMAIN v = DOMAIN k /\ v.pc = "done" /\ v.text = k.text /\ v.snap = k.snap /\ v.since = k.since
        /\ v.out = texts /\ v.acted = k.acted
    BY DEF Policied, AtRest
  <1> HIDE DEF v
  <1> QED
    BY <1>1 DEF Policied

LEMMA ActedOk ==
    ASSUME NEW k, Policied(k), k.pc = "act"
    PROVE  Policied([k EXCEPT !.pc = "done", !.acted = TRUE])
  <1> DEFINE v == [k EXCEPT !.pc = "done", !.acted = TRUE]
  <1>1. /\ DOMAIN v = DOMAIN k /\ v.pc = "done" /\ v.text = k.text /\ v.snap = k.snap /\ v.since = k.since
        /\ v.out = k.out /\ v.acted = TRUE
    BY DEF Policied, AtRest
  <1> HIDE DEF v
  <1> QED
    BY <1>1 DEF Policied

LEMMA WalkedOk ==
    ASSUME NEW k, Policied(k), k.pc = "walk", NEW texts
    PROVE  Policied([k EXCEPT !.pc = "redact", !.snap.texts = texts])
  <1> DEFINE v == [k EXCEPT !.pc = "redact", !.snap.texts = texts]
  <1>1. /\ DOMAIN v = DOMAIN k /\ v.pc = "redact" /\ v.text = k.text /\ DOMAIN v.snap = DOMAIN k.snap
        /\ v.since = k.since /\ v.out = k.out /\ v.acted = k.acted
    BY DEF Policied, AtRest
  <1> HIDE DEF v
  <1> QED
    BY <1>1 DEF Policied

(* The clipboard history holds items.                                       *)
LEMMA CacheOk ==
    ASSUME ItemTypes, NEW item \in Items, Cache(item)
    PROVE  clips' \in Seq(Items)
  <1>1. clips \in Seq(Items) /\ HISTORY_CAPACITY \in Nat \ {0}
    BY NativeAssumption DEF ItemTypes
  <1>2. Len(clips) = HISTORY_CAPACITY => Tail(clips) \in Seq(Items)
    BY <1>1
  <1> QED
    BY <1>1, <1>2 DEF Cache

(* How the handlers move a call.                                            *)
LEMMA Moves ==
    ASSUME PolicyInv, NEW c \in Agents
    PROVE  /\ \A pc : Goes(c, pc) => req' = [req EXCEPT ![c] = [req[c] EXCEPT !.pc = pc]]
           /\ \A texts : Replies(c, texts) =>
                 req' = [req EXCEPT ![c] = [req[c] EXCEPT !.pc = "done", !.out = texts]]
           /\ Policied(req[c])
  BY DEF PolicyInv, Goes, Replies

(* A registration installs a policy: every call under way has now seen it.  *)
LEMMA InstallStep ==
    ASSUME PolicyInv, NEW p \in Policies, install(p)
    PROVE  PolicyInv'
  <1>1. /\ policy' = p /\ UNCHANGED <<board, clips, poll, notified>>
        /\ req' = [c \in Agents |-> IF req[c].pc = "idle" THEN req[c] ELSE [req[c] EXCEPT !.since = @ \cup {p}]]
    BY DEF install, clipVars, subVars
  <1>2. DOMAIN req' = Agents /\ ItemTypes' /\ Told'
    BY <1>1 DEF PolicyInv, ItemTypes, Told
  <1>3. ASSUME NEW c \in Agents
        PROVE  Policied(req[c])' /\ req'[c].pc = req[c].pc
    <2>1. Policied(req[c])
      BY DEF PolicyInv
    <2>2. CASE req[c].pc = "idle"
      <3>1. req'[c] = req[c]
        BY <1>1, <2>2
      <3> QED
        BY <2>1, <2>2, <3>1 DEF Policied
    <2>3. CASE req[c].pc # "idle"
      <3> DEFINE k == req[c]
                 v == [k EXCEPT !.since = @ \cup {p}]
      <3>1. req'[c] = v
        BY <1>1, <2>3
      <3>2. /\ DOMAIN v = DOMAIN k /\ v.pc = k.pc /\ v.text = k.text /\ v.snap = k.snap
            /\ v.since = k.since \cup {p} /\ v.out = k.out /\ v.acted = k.acted
        BY <2>1 DEF Policied, AtRest
      <3> HIDE DEF v
      <3> QED
        BY <1>1, <2>1, <3>1, <3>2 DEF Policied
    <2> QED
      BY <2>2, <2>3
  <1>4. Sampling'
    BY <1>1, <1>3 DEF PolicyInv, Sampling
  <1> QED
    BY <1>2, <1>3, <1>4 DEF PolicyInv

LEMMA BeginsStep ==
    ASSUME PolicyInv, NEW c \in Agents, CallBegins(c)
    PROVE  PolicyInv'
  <1>1. /\ req[c].pc = "idle" /\ UNCHANGED <<policy, poll, board, clips, notified>>
        /\ board' \in Items /\ clips' \in Seq(Items)
    <2>1. req[c].pc = "idle" /\ UNCHANGED <<policy, poll, board, clips, notified>>
      BY DEF CallBegins, ReadClipboard, WriteClipboard, read_image, Snapshot, eval, AppSubscribe, Unsubscribe,
             click, type_text, scroll, Act, Begin, policyVars, clipVars, subVars
    <2> QED
      BY <2>1 DEF PolicyInv, ItemTypes
  <1>2. \/ req' = req
        \/ \E v : Policied(v) /\ req' = [req EXCEPT ![c] = v]
    <2>1. CASE \E op \in Reads : ReadClipboard(c, op)
      BY <2>1, StartedOk DEF ReadClipboard, AllTexts
    <2>2. CASE \E op \in Writes, t \in Texts \cup {"none"} : WriteClipboard(c, op, t)
      <3>1. PICK op \in Writes, t \in Texts \cup {"none"} :
               req' = req \/ req' = [req EXCEPT ![c] = [Started(op, "clear") EXCEPT !.text = t]]
        BY <2>2 DEF WriteClipboard
      <3>2. Policied([Started(op, "clear") EXCEPT !.text = t])
        BY <3>1, StartedOk DEF AllTexts
      <3> QED
        BY <3>1, <3>2
    <2>3. CASE Snapshot(c)
      <3>1. \/ req' = req
            \/ req' = [req EXCEPT ![c] = [Started("snapshot", "walk") EXCEPT !.snap.seq = snap_seq']]
        BY <2>3 DEF Snapshot
      <3>2. PICK n : n = snap_seq'
        OBVIOUS
      <3>3. Policied([Started("snapshot", "walk") EXCEPT !.snap.seq = n])
        BY StartedOk DEF AllTexts
      <3> QED
        BY <3>1, <3>2, <3>3
    <2>4. CASE AppSubscribe(c) \/ Unsubscribe(c)
      <3>1. Policied(Started("subscribe", "await")) /\ Policied(Started("unsubscribe", "lock"))
        BY StartedOk DEF AllTexts
      <3> QED
        BY <2>4, <3>1 DEF AppSubscribe, Unsubscribe
    <2>5. ASSUME NEW op, NEW i, Act(c, op, i)
          PROVE  \E v : Policied(v) /\ req' = [req EXCEPT ![c] = v]
      <3>1. \/ ~policy.block /\ req' = [req EXCEPT ![c] = [Started(op, "act") EXCEPT !.path = i]]
            \/ req' = [req EXCEPT ![c] = AtRest]
        BY <2>5 DEF Act, require_not_blocked
      <3> QED
        BY <3>1, ActOk, AtRestOk
    <2>6. CASE read_image(c)
      BY <2>6 DEF read_image
    <2> QED
      BY <2>1, <2>2, <2>3, <2>4, <2>5, <2>6 DEF CallBegins, eval, click, type_text, scroll
  <1> QED
    BY <1>1, <1>2, CallStep, RestStep

LEMMA ClipboardSteps ==
    ASSUME PolicyInv, NEW c \in Agents, Returns(c) \/ ReadsHead(c) \/ clearContents(c) \/ setContents(c) \/ WritePushes(c)
    PROVE  PolicyInv'
  <1>1. ItemTypes /\ board \in Items /\ clips \in Seq(Items)
    BY DEF PolicyInv, ItemTypes
  <1>2. CASE Returns(c)
    BY <1>1, <1>2, AtRestOk, CallStep DEF Returns, policyVars, clipVars, subVars
  <1>3. CASE ReadsHead(c)
    <2>1. PICK texts : Replies(c, texts) /\ ("secret" \in texts => ~policy.hide)
      <3>1. CASE read_string(c)
        <4>1. Newest \in Items
          <5>1. CASE clips = <<>>
            BY <5>1 DEF Newest, NoItem, Items, AllTexts
          <5>2. CASE clips # <<>>
            <6>1. Len(clips) \in DOMAIN clips
              BY <1>1, <5>2
            <6> QED
              BY <1>1, <5>2, <6>1 DEF Newest
          <5> QED
            BY <5>1, <5>2
        <4> QED
          BY <3>1, <4>1, Redaction DEF read_string
      <3>2. CASE ClipHistory(c)
        <4> DEFINE texts == UNION {TextOf(apply_clipboard(clips[i])) : i \in DOMAIN clips}
        <4>1. \A i \in DOMAIN clips : clips[i] \in Items
          BY <1>1
        <4>2. "secret" \in texts => ~policy.hide
          BY <4>1, Redaction
        <4> QED
          BY <3>2, <4>2 DEF ClipHistory
      <3>3. CASE read_files(c)
        BY <3>3 DEF read_files
      <3> QED
        BY <1>3, <3>1, <3>2, <3>3 DEF ReadsHead
    <2>2. req[c].pc = "read" /\ UNCHANGED <<policy, poll, board, clips, notified>>
      BY <1>3 DEF ReadsHead, policyVars, clipVars, subVars
    <2>3. Policied([req[c] EXCEPT !.pc = "done", !.out = texts])
      BY <2>1, <2>2, Moves, RepliesOk
    <2>4. req' = [req EXCEPT ![c] = [req[c] EXCEPT !.pc = "done", !.out = texts]]
      BY <2>1, Moves
    <2>5. req[c].pc # "refresh" /\ board' \in Items /\ clips' \in Seq(Items)
      BY <1>1, <2>2
    <2> QED
      BY <2>2, <2>3, <2>4, <2>5, CallStep, Zenon
  <1>4. CASE clearContents(c)
    <2>1. req[c].pc = "clear" /\ Goes(c, "set") /\ board' = NoItem /\ UNCHANGED <<policy, poll, clips, notified>>
      BY <1>4 DEF clearContents, policyVars, subVars
    <2>2. Policied([req[c] EXCEPT !.pc = "set"]) /\ board' \in Items
      BY <2>1, Moves, GoesOk DEF NoItem, Items, AllTexts
    <2> QED
      BY <1>1, <2>1, <2>2, Moves, CallStep
  <1>5. CASE setContents(c)
    <2>1. /\ req[c].pc = "set" /\ UNCHANGED <<policy, poll, clips, notified>>
          /\ Goes(c, "push") \/ req' = [req EXCEPT ![c] = AtRest]
          /\ board' \in {board, [board EXCEPT !.kind = write_kind(req[c].op), !.text = req[c].text]}
      BY <1>5 DEF setContents, Fails, policyVars, subVars
    <2>2. Policied([req[c] EXCEPT !.pc = "push"]) /\ req[c].text \in AllTexts
      <3>1. Policied(req[c])
        BY Moves
      <3>2. Policied([req[c] EXCEPT !.pc = "push"])
        BY <2>1, <3>1, GoesOk
      <3> QED
        BY <3>1, <3>2 DEF Policied
    <2>3. board' \in Items
      BY <1>1, <2>1, <2>2 DEF Items, write_kind
    <2> QED
      BY <1>1, <2>1, <2>2, <2>3, Moves, AtRestOk, CallStep
  <1>6. CASE WritePushes(c)
    <2> DEFINE item == [kind |-> write_kind(req[c].op), text |-> req[c].text]
    <2>1. /\ req[c].pc = "push" /\ Cache(item) /\ Replies(c, {}) /\ UNCHANGED <<policy, poll, board, notified>>
      BY <1>6 DEF WritePushes, policyVars, subVars
    <2>2. item \in Items
      BY Moves DEF Policied, Items, write_kind
    <2>3. Policied([req[c] EXCEPT !.pc = "done", !.out = {}])
      BY <2>1, Moves, RepliesOk
    <2> HIDE DEF item
    <2>4. clips' \in Seq(Items)
      BY <1>1, <2>1, <2>2, CacheOk
    <2> QED
      BY <1>1, <2>1, <2>3, <2>4, Moves, CallStep
  <1> QED
    BY <1>2, <1>3, <1>4, <1>5, <1>6

LEMMA AppSteps ==
    ASSUME PolicyInv, NEW c \in Agents, snapshot_app(c) \/ SnapshotStores(c) \/ Acts(c)
    PROVE  PolicyInv'
  <1>1. /\ board \in Items /\ clips \in Seq(Items) /\ UNCHANGED <<policy, poll, board, clips, notified>>
        /\ Policied(req[c]) /\ DOMAIN req = Agents
    BY DEF PolicyInv, ItemTypes, snapshot_app, SnapshotStores, Acts, policyVars, clipVars, subVars
  <1>2. CASE snapshot_app(c)
    <2>1. /\ req[c].pc = "walk"
          /\ \/ req' = [req EXCEPT ![c] = [req[c] EXCEPT !.pc = "redact", !.snap.texts = tree]]
             \/ req' = [req EXCEPT ![c] = AtRest]
      BY <1>1, <1>2 DEF snapshot_app, Fails
    <2> QED
      BY <1>1, <2>1, WalkedOk, AtRestOk, CallStep
  <1>3. CASE SnapshotStores(c)
    <2> DEFINE snap == req[c].snap
    <2>1. req[c].pc = "redact" /\ latest_snap' = redact_snapshot(snap)
      BY <1>3 DEF SnapshotStores
    <2>2. PICK texts : texts = {latest_snap'.texts[i] : i \in DOMAIN latest_snap'.texts} /\ Replies(c, texts)
      BY <1>3 DEF SnapshotStores
    <2>3. latest_snap'.texts = [i \in DOMAIN snap.texts |-> redact_text(snap.texts[i])]
      BY <1>1, <2>1 DEF redact_snapshot, Policied
    <2>4. "secret" \in texts => ~policy.hide
      BY <2>2, <2>3, Redaction
    <2>5. Policied([req[c] EXCEPT !.pc = "done", !.out = texts])
      BY <1>1, <2>1, <2>4, RepliesOk
    <2>6. req' = [req EXCEPT ![c] = [req[c] EXCEPT !.pc = "done", !.out = texts]]
      BY <2>2, Moves
    <2> QED
      BY <1>1, <2>1, <2>5, <2>6, CallStep
  <1>4. CASE Acts(c)
    <2>1. /\ req[c].pc = "act"
          /\ \/ req' = [req EXCEPT ![c] = [req[c] EXCEPT !.pc = "done", !.acted = TRUE]]
             \/ req' = [req EXCEPT ![c] = AtRest]
      BY <1>1, <1>4 DEF Acts, Fails
    <2> QED
      BY <1>1, <2>1, ActedOk, AtRestOk, CallStep
  <1> QED
    BY <1>2, <1>3, <1>4

LEMMA SubscriptionSteps ==
    ASSUME PolicyInv, NEW c \in Agents,
           \/ SubscribeReturns(c) \/ SubscribeTimesOut(c)
           \/ UnsubscribeLocks(c) \/ DropStops(c) \/ DropJoins(c)
    PROVE  PolicyInv'
  <1>1. /\ board \in Items /\ clips \in Seq(Items) /\ UNCHANGED <<policy, poll, board, clips, notified>>
        /\ Policied(req[c])
    BY DEF PolicyInv, ItemTypes, SubscribeReturns, SubscribeTimesOut, UnsubscribeLocks, DropStops, DropJoins,
           policyVars, clipVars
  <1>2. /\ req[c].pc \in {"await", "lock", "stop", "join"}
        /\ \/ Replies(c, {}) \/ Goes(c, "stop") \/ Goes(c, "join")
           \/ req' = [req EXCEPT ![c] = AtRest]
    BY DEF SubscribeReturns, SubscribeTimesOut, UnsubscribeLocks, DropStops, DropJoins, Fails
  <1>3. /\ Policied([req[c] EXCEPT !.pc = "done", !.out = {}])
        /\ Policied([req[c] EXCEPT !.pc = "stop"]) /\ Policied([req[c] EXCEPT !.pc = "join"])
    BY <1>1, <1>2, RepliesOk, GoesOk
  <1>4. PICK v : Policied(v) /\ req' = [req EXCEPT ![c] = v]
    <2>1. CASE Replies(c, {})
      <3>1. req' = [req EXCEPT ![c] = [req[c] EXCEPT !.pc = "done", !.out = {}]]
        BY <2>1, Moves
      <3> QED
        BY <1>3, <3>1, Zenon
    <2>2. CASE Goes(c, "stop") \/ Goes(c, "join")
      BY <1>3, <2>2, Moves
    <2> QED
      BY <1>2, <2>1, <2>2, AtRestOk
  <1> QED
    BY <1>1, <1>2, <1>4, CallStep

(* A sampling pass of the poller or of a call.                              *)
LEMMA SamplesStep ==
    ASSUME PolicyInv, NEW p \in Pollers, Samples(p)
    PROVE  PolicyInv'
  <1>1. ItemTypes /\ Sampling /\ UNCHANGED <<policy, board, notified>> /\ Told'
    BY DEF PolicyInv, Samples, PollCounts, capture, PollPushes, policyVars, subVars, Told
  <1>2. ASSUME poll[p].pc # "idle" \/ MaySample(p), p \in Agents
        PROVE  req[p].pc = "refresh" /\ Policied([req[p] EXCEPT !.pc = "read"])
    <2>1. req[p].pc = "refresh"
      BY <1>1, <1>2 DEF Sampling, MaySample
    <2> QED
      BY <1>2, <2>1, Moves, GoesOk
  <1>3. ASSUME NEW pc \in {"idle", "seen", "captured"}, NEW item \in Items,
               poll' = [poll EXCEPT ![p] = [pc |-> pc, item |-> item]]
        PROVE  poll' \in [Pollers -> [pc : {"idle", "seen", "captured"}, item : Items]]
    BY <1>1, <1>3 DEF ItemTypes
  <1>4. CASE PollCounts(p) /\ ~unseen
    <2>1. p \in Agents /\ Goes(p, "read") /\ poll' = poll /\ poll[p].pc = "idle" /\ MaySample(p) /\ clips' = clips
      BY <1>4 DEF PollCounts, PassEnds
    <2> QED
      BY <1>1, <1>2, <2>1, Moves, PolicyStep DEF ItemTypes
  <1>5. CASE PollCounts(p) /\ unseen
    <2>1. /\ req' = req /\ clips' = clips /\ MaySample(p)
          /\ poll' = [poll EXCEPT ![p] = [pc |-> "seen", item |-> NoItem]]
      BY <1>5 DEF PollCounts
    <2>2. NoItem \in Items
      BY DEF NoItem, Items, AllTexts
    <2>3. ItemTypes'
      BY <1>1, <1>3, <2>1, <2>2 DEF ItemTypes
    <2>4. \A d \in Agents : poll'[d].pc # "idle" => poll[d].pc # "idle" \/ req[d].pc = "refresh"
      BY <1>1, <1>2, <2>1 DEF ItemTypes, Pollers
    <2> QED
      BY <1>1, <2>1, <2>3, <2>4, NoCallStep
  <1>6. CASE capture(p)
    <2>1. /\ req' = req /\ clips' = clips /\ poll[p].pc = "seen"
          /\ poll' = [poll EXCEPT ![p] = [pc |-> "captured", item |-> board]]
      BY <1>6 DEF capture
    <2>2. ItemTypes'
      BY <1>1, <1>3, <2>1 DEF ItemTypes
    <2>3. \A d \in Agents : poll'[d].pc # "idle" => poll[d].pc # "idle"
      BY <1>1, <2>1 DEF ItemTypes, Pollers
    <2> QED
      BY <1>1, <2>1, <2>2, <2>3, NoCallStep
  <1>7. CASE PollPushes(p)
    <2>1. /\ poll[p].pc = "captured" /\ Cache(poll[p].item) /\ PassEnds(p)
          /\ poll' = [poll EXCEPT ![p] = [pc |-> "idle", item |-> NoItem]]
      BY <1>7 DEF PollPushes
    <2>2. NoItem \in Items /\ poll[p].item \in Items
      BY <1>1 DEF NoItem, Items, AllTexts, ItemTypes
    <2>3. ItemTypes'
      BY <1>1, <1>3, <2>1, <2>2, CacheOk DEF ItemTypes
    <2>4. poll'[p].pc = "idle" /\ \A d \in Agents : poll'[d].pc # "idle" => d # p /\ poll[d].pc # "idle"
      BY <1>1, <2>1 DEF ItemTypes, Pollers
    <2>5. CASE p \in Agents
      BY <1>1, <1>2, <2>1, <2>3, <2>4, <2>5, Moves, PolicyStep DEF PassEnds
    <2>6. CASE p \notin Agents
      BY <1>1, <2>1, <2>3, <2>4, <2>6, NoCallStep DEF PassEnds
    <2> QED
      BY <2>5, <2>6
  <1> QED
    BY <1>4, <1>5, <1>6, <1>7 DEF Samples

(* The desktop, the observer thread, the forwarder and the teardown.        *)
LEMMA OtherSteps ==
    ASSUME PolicyInv, ObserverSteps \/ Forwards \/ ForwarderEnds \/ shutdown \/ Desktop
    PROVE  PolicyInv'
  <1>1. UNCHANGED <<policy, req, poll, clips>> /\ board \in Items /\ clips \in Seq(Items) /\ ItemTypes
    BY DEF PolicyInv, ItemTypes, ObserverSteps, ObserverReports, ObserverRuns, ObserverEnds, Forwards,
           ForwarderEnds, shutdown, Desktop, AppChanges, UserCopies, policyVars, clipVars
  <1>2. CASE Forwards
    <2>1. notified' = [text |-> redact_text(Head(buffered)), under |-> policy] /\ board' = board
      BY <1>2 DEF Forwards, clipVars
    <2>2. Told'
      BY <2>1, Redaction DEF Told
    <2>3. ItemTypes'
      BY <1>1, <2>1 DEF ItemTypes
    <2> QED
      BY <1>1, <2>2, <2>3, NoCallStep
  <1>3. CASE ObserverSteps \/ ForwarderEnds \/ shutdown \/ AppChanges
    <2>1. board' = board /\ notified' = notified
      BY <1>3 DEF ObserverSteps, ObserverReports, ObserverRuns, ObserverEnds, ForwarderEnds, shutdown,
                  AppChanges, clipVars
    <2> QED
      BY <1>1, <2>1, RestStep
  <1>4. CASE \E kind \in {"String", "Files"}, t \in Texts \cup {"none"} : UserCopies(kind, t)
    <2>1. board' \in Items /\ notified' = notified
      BY <1>4 DEF UserCopies, Items, AllTexts, subVars
    <2> QED
      BY <1>1, <2>1, RestStep
  <1> QED
    BY <1>2, <1>3, <1>4 DEF Desktop

LEMMA PolicyInitial ==
    ASSUME NativeInit
    PROVE  PolicyInv
  <1>1. ItemTypes
    BY DEF NativeInit, ItemTypes, Items, NoItem, AllTexts, Pollers
  <1>2. DOMAIN req = Agents /\ \A c \in Agents : req[c] = AtRest /\ poll[c].pc = "idle"
    BY DEF NativeInit, Pollers
  <1>3. Told
    BY DEF NativeInit, Told, NothingTold
  <1> HIDE DEF AtRest
  <1> QED
    BY <1>1, <1>2, <1>3, AtRestOk DEF PolicyInv, Sampling

(* The inductive invariant behind PolicyIsKept: a call has seen the policy   *)
(* in force, and passed the gate of one that does not block the app before   *)
(* it acts (require_not_blocked); what it reads is redacted when it is read, *)
(* not when it was captured.                                                 *)
THEOREM PolicyInvariance == NativeSpec => []PolicyInv
  <1>1. ASSUME PolicyInv, [NativeNext]_nativeVars
        PROVE  PolicyInv'
    <2>1. CASE UNCHANGED nativeVars
      BY <1>1, <2>1, RestStep DEF nativeVars, policyVars, clipVars, subVars, PolicyInv, ItemTypes
    <2> QED
      BY <1>1, <2>1, InstallStep, BeginsStep, ClipboardSteps, AppSteps, SubscriptionSteps, SamplesStep,
         OtherSteps DEF NativeNext, CallGoesOn
  <1> QED
    BY <1>1, PolicyInitial, PTL DEF NativeSpec

(* No call of the AppController returns a text, or acts on an app, that      *)
(* every policy in force during it forbids (controller.rs, clipboard.rs),    *)
(* and no event is forwarded unredacted, for any number of calls at once and *)
(* any sequence of policies.                                                 *)
THEOREM PolicyIsKeptSafety == NativeSpec => []PolicyIsKept
  <1>1. PolicyInv => PolicyIsKept
    BY DEF PolicyInv, Policied, Told, PolicyIsKept
  <1> QED
    BY <1>1, PolicyInvariance, PTL

----------------------------------------------------------------------------
(* The ring of frames: inductive invariant                                  *)

AnyPicture == Pictures \union {BlankPic}
AnyFrame == [seq : Nat, pic : AnyPicture]
SlotRecords == [seq : Nat, refcnt : Int, bytes : Nat]
RingTypes ==
    /\ slots \in [Slots -> SlotRecords]
    /\ next_seq \in Nat \ {0}
    /\ prod \in [Producers -> [pc : {"idle", "acquired", "written", "published", "committed"},
                               slot : Nat, frame : AnyFrame]]
    /\ guard \in [Readers -> [slot : Nat, seq : Nat]]
TickTypes ==
    /\ chan \in Seq(AnyFrame)
    /\ tick \in [Tickers -> [pc : {"idle", "diffed", "pushed", "ticked"}, frame : AnyFrame,
                             tiles : SUBSET Tiles]]

\* A frame has a number from the moment it has a slot.
WritesAreNumbered ==
    /\ \A p \in Producers : prod[p].pc # "idle" => prod[p].slot \in Slots /\ prod[p].frame.seq # 0
    /\ \A r \in Readers : guard[r] = NoGuard \/ guard[r].slot \in Slots
TicksAreNumbered ==
    /\ \A i \in DOMAIN chan : chan[i].seq # 0
    /\ \A t \in Tickers : tick[t].pc # "idle" => tick[t].frame.seq # 0

\* A slot that is being written belongs to its producer alone; any other one's
\* count is the number of guards on it.
Writing(p) == prod[p].pc \in {"acquired", "written", "published"}
Holders(i) == {r \in Readers : guard[r].slot = i}
Counted(i) == IsFiniteSet(Holders(i)) /\ slots[i].refcnt = Cardinality(Holders(i))
SlotsAreHeld ==
    /\ \A p \in Producers : Writing(p) => slots[prod[p].slot].refcnt = 1 /\ Holders(prod[p].slot) = {}
    /\ \A p, q \in Producers : Writing(p) /\ Writing(q) /\ p # q => prod[p].slot # prod[q].slot
    /\ \A i \in Slots : (\A p \in Producers : Writing(p) => prod[p].slot # i) => Counted(i)

\* A slot with a number holds the bytes of the frame with that number.
BytesAreTheirs ==
    /\ \A i \in Slots : slots[i].seq # 0 => slots[i].bytes = slots[i].seq
    /\ \A p \in Producers : prod[p].pc \in {"acquired", "written"} => slots[prod[p].slot].seq = 0
    /\ \A p \in Producers :
           prod[p].pc \in {"written", "published"} => slots[prod[p].slot].bytes = prod[p].frame.seq

RingInv == RingTypes /\ WritesAreNumbered /\ (~raced => SlotsAreHeld /\ BytesAreTheirs)
TickInv == TickTypes /\ TicksAreNumbered
VisionInv == RingInv /\ TickInv /\ EventNamesItsFrame

(* The recycled slot is one that nobody holds.                              *)
LEMMA LeastNatural ==
    ASSUME NEW T, T \subseteq Nat, T # {}
    PROVE  \E m \in T : \A n \in T : m <= n
  <1>1. PICK m \in T : \A n \in T : ~(<<n, m>> \in OpToRel(<, Nat))
    BY NatLessThanWellFounded, WFMin, Zenon
  <1>2. \A n \in T : <<n, m>> \in OpToRel(<, Nat) <=> n < m
    BY DEF OpToRel
  <1>3. \A n \in T : ~(n < m)
    BY <1>1, <1>2, Zenon
  <1>4. \A n \in T : m <= n
    BY <1>3
  <1> QED
    BY <1>4

LEMMA OldestIsFree ==
    ASSUME RingTypes, Recyclable # {}
    PROVE  Oldest \in Slots /\ slots[Oldest].refcnt = 0
  <1> DEFINE older(i, j) == slots[i].seq < slots[j].seq \/ (slots[i].seq = slots[j].seq /\ i <= j)
             ages == {slots[i].seq : i \in Recyclable}
  <1>1. Recyclable \subseteq Slots /\ Slots \subseteq Nat /\ \A i \in Slots : slots[i].seq \in Nat
    BY DEF Recyclable, Slots, RingTypes, SlotRecords
  <1>2. PICK a \in ages : \A b \in ages : a <= b
    BY <1>1, LeastNatural
  <1> DEFINE oldest == {i \in Recyclable : slots[i].seq = a}
  <1>3. oldest \subseteq Nat /\ oldest # {}
    BY <1>1, <1>2
  <1>4. PICK i \in oldest : \A j \in oldest : i <= j
    BY <1>3, LeastNatural
  <1>5. ASSUME NEW j \in Recyclable
        PROVE  older(i, j)
    <2>1. a <= slots[j].seq /\ slots[i].seq = a /\ slots[j].seq \in Nat /\ a \in Nat
      BY <1>1, <1>2, <1>4
    <2> QED
      BY <1>4, <2>1
  <1>6. Oldest \in Recyclable
    BY <1>4, <1>5 DEF Oldest
  <1> QED
    BY <1>1, <1>6 DEF Recyclable

(* A slot stays a slot.                                                     *)
LEMMA SlotRecord ==
    ASSUME NEW x \in SlotRecords, NEW n \in Nat, NEW k \in Int
    PROVE  /\ [seq |-> n, refcnt |-> k, bytes |-> x.bytes] \in SlotRecords
           /\ [x EXCEPT !.bytes = n] \in SlotRecords
           /\ [x EXCEPT !.seq = n] \in SlotRecords
           /\ [x EXCEPT !.refcnt = k] \in SlotRecords
  <1>1. x.seq \in Nat /\ x.refcnt \in Int /\ x.bytes \in Nat
    BY DEF SlotRecords
  <1>2. /\ [seq |-> n, refcnt |-> k, bytes |-> x.bytes] \in SlotRecords
        /\ [seq |-> x.seq, refcnt |-> x.refcnt, bytes |-> n] \in SlotRecords
        /\ [seq |-> n, refcnt |-> x.refcnt, bytes |-> x.bytes] \in SlotRecords
        /\ [seq |-> x.seq, refcnt |-> k, bytes |-> x.bytes] \in SlotRecords
    BY <1>1 DEF SlotRecords
  <1>3. [x EXCEPT !.bytes = n] = [seq |-> x.seq, refcnt |-> x.refcnt, bytes |-> n]
    BY DEF SlotRecords
  <1>4. [x EXCEPT !.seq = n] = [seq |-> n, refcnt |-> x.refcnt, bytes |-> x.bytes]
    BY DEF SlotRecords
  <1>5. [x EXCEPT !.refcnt = k] = [seq |-> x.seq, refcnt |-> k, bytes |-> x.bytes]
    BY DEF SlotRecords
  <1> QED
    BY <1>2, <1>3, <1>4, <1>5

(* A producer takes slot s for frame f.                                     *)
LEMMA AcquireStep ==
    ASSUME RingInv, NEW p \in Producers, NEW pic \in Pictures, prod[p].pc = "idle", acquire_write(p, pic),
           UNCHANGED <<guard, raced>>
    PROVE  RingInv'
  <1>1. RingTypes /\ WritesAreNumbered /\ (~raced => SlotsAreHeld /\ BytesAreTheirs)
    BY DEF RingInv
  <1>2. PICK s \in Slots : s = Oldest /\ slots[s].refcnt = 0
    BY <1>1, OldestIsFree DEF acquire_write
  <1>3. PICK f \in AnyFrame : f = [seq |-> next_seq, pic |-> pic] /\ f.seq # 0
    <2>1. next_seq \in Nat \ {0}
      BY <1>1 DEF RingTypes
    <2>2. [seq |-> next_seq, pic |-> pic] \in AnyFrame
      BY <2>1 DEF AnyFrame, AnyPicture
    <2> QED
      BY <2>1, <2>2
  <1>4. /\ slots' = [slots EXCEPT ![s] = [seq |-> 0, refcnt |-> 1, bytes |-> @.bytes]] /\ next_seq' = next_seq + 1
        /\ prod' = [prod EXCEPT ![p] = [pc |-> "acquired", slot |-> s, frame |-> f]]
    BY <1>2, <1>3 DEF acquire_write
  <1>5. /\ slots'[s] = [seq |-> 0, refcnt |-> 1, bytes |-> slots[s].bytes] /\ \A i \in Slots \ {s} : slots'[i] = slots[i]
        /\ slots'[s].seq = 0 /\ slots'[s].refcnt = 1
    BY <1>1, <1>4 DEF RingTypes, SlotRecords
  <1>6. /\ prod'[p] = [pc |-> "acquired", slot |-> s, frame |-> f]
        /\ \A q \in Producers \ {p} : prod'[q] = prod[q]
    BY <1>1, <1>4 DEF RingTypes
  <1>7. RingTypes'
    <2>1. slots' \in [Slots -> SlotRecords]
      <3>1. slots[s] \in SlotRecords
        BY <1>1 DEF RingTypes
      <3>2. 0 \in Nat /\ 1 \in Int
        OBVIOUS
      <3>3. [seq |-> 0, refcnt |-> 1, bytes |-> slots[s].bytes] \in SlotRecords
        BY <3>1, <3>2, SlotRecord, Zenon
      <3> QED
        BY <1>1, <1>4, <3>3 DEF RingTypes
    <2>2. s \in Nat
      BY DEF Slots
    <2>3. prod' \in [Producers -> [pc : {"idle", "acquired", "written", "published", "committed"},
                                   slot : Nat, frame : AnyFrame]]
      BY <1>1, <1>4, <2>2 DEF RingTypes
    <2> QED
      BY <1>1, <1>4, <2>1, <2>3 DEF RingTypes
  <1>8. WritesAreNumbered'
    BY <1>1, <1>3, <1>6 DEF WritesAreNumbered
  <1>9. ASSUME ~raced
        PROVE  SlotsAreHeld' /\ BytesAreTheirs'
    <2>1. SlotsAreHeld /\ BytesAreTheirs /\ ~Writing(p)
      BY <1>1, <1>9 DEF Writing
    <2>2. \A q \in Producers : Writing(q) => prod[q].slot # s
      BY <1>2, <2>1 DEF SlotsAreHeld
    <2>3. Holders(s) = {}
      BY <1>2, <2>1, <2>2, FS_EmptySet DEF SlotsAreHeld, Counted
    <2>4. Writing(p)' /\ \A q \in Producers \ {p} : Writing(q)' <=> Writing(q)
      BY <1>6 DEF Writing
    <2>5. \A i : Holders(i)' = Holders(i)
      BY DEF Holders
    <2>6. \A q \in Producers : Writing(q)' => slots'[prod'[q].slot].refcnt = 1 /\ Holders(prod'[q].slot) = {}
      <3>1. ASSUME NEW q \in Producers \ {p}, Writing(q)'
            PROVE  slots'[prod'[q].slot].refcnt = 1 /\ Holders(prod'[q].slot) = {}
        <4>1. Writing(q) /\ prod'[q] = prod[q] /\ prod[q].slot # s /\ prod[q].slot \in Slots
          BY <1>1, <1>6, <2>2, <2>4, <3>1 DEF WritesAreNumbered, Writing
        <4> QED
          BY <1>5, <2>1, <4>1 DEF SlotsAreHeld
      <3>2. prod'[p].slot = s /\ slots'[s].refcnt = 1
        BY <1>5, <1>6
      <3> QED
        BY <2>3, <3>1, <3>2
    <2>7. \A q, r \in Producers : Writing(q)' /\ Writing(r)' /\ q # r => prod'[q].slot # prod'[r].slot
      BY <1>6, <2>1, <2>2, <2>4 DEF SlotsAreHeld
    <2>8. ASSUME NEW i \in Slots, \A q \in Producers : Writing(q)' => prod'[q].slot # i
          PROVE  Counted(i)'
      <3>1. i # s
        BY <1>6, <2>4, <2>8
      <3>2. \A q \in Producers : Writing(q) => prod[q].slot # i
        BY <1>6, <2>1, <2>4, <2>8
      <3>3. Counted(i) /\ slots'[i] = slots[i]
        BY <1>5, <2>1, <3>1, <3>2 DEF SlotsAreHeld
      <3> QED
        BY <3>3 DEF Counted, Holders
    <2>9. SlotsAreHeld'
      BY <2>5, <2>6, <2>7, <2>8 DEF SlotsAreHeld
    <2>10. BytesAreTheirs'
      <3>1. \A i \in Slots : slots'[i].seq # 0 => slots'[i].bytes = slots'[i].seq
        BY <1>5, <2>1 DEF BytesAreTheirs
      <3>2. \A q \in Producers \ {p} : Writing(q) => prod[q].slot \in Slots \ {s}
        BY <1>1, <2>2 DEF WritesAreNumbered, Writing
      <3>3. \A q \in Producers : prod'[q].pc \in {"acquired", "written"} => slots'[prod'[q].slot].seq = 0
        <4>1. ASSUME NEW q \in Producers \ {p}, prod'[q].pc \in {"acquired", "written"}
              PROVE  slots'[prod'[q].slot].seq = 0
          <5>1. prod'[q] = prod[q] /\ prod[q].slot \in Slots \ {s}
            BY <1>6, <3>2, <4>1 DEF Writing
          <5> QED
            BY <1>5, <2>1, <4>1, <5>1 DEF BytesAreTheirs
        <4>2. prod'[p].slot = s /\ slots'[s].seq = 0
          BY <1>5, <1>6
        <4> QED
          BY <4>1, <4>2
      <3>4. \A q \in Producers :
               prod'[q].pc \in {"written", "published"} => slots'[prod'[q].slot].bytes = prod'[q].frame.seq
        <4>1. ASSUME NEW q \in Producers \ {p}, prod'[q].pc \in {"written", "published"}
              PROVE  slots'[prod'[q].slot].bytes = prod'[q].frame.seq
          <5>1. prod'[q] = prod[q] /\ prod[q].slot \in Slots \ {s}
            BY <1>6, <3>2, <4>1 DEF Writing
          <5> QED
            BY <1>5, <2>1, <4>1, <5>1 DEF BytesAreTheirs
        <4> QED
          BY <1>6, <4>1
      <3> QED
        BY <3>1, <3>3, <3>4 DEF BytesAreTheirs
    <2> QED
      BY <2>9, <2>10
  <1> QED
    BY <1>7, <1>8, <1>9 DEF RingInv

(* A producer goes on to pc, and its slot becomes x.                        *)
LEMMA WriterStep ==
    ASSUME RingInv, NEW p \in Producers, Writing(p), NEW pc \in {"written", "published", "committed"},
           NEW x \in SlotRecords, slots' = [slots EXCEPT ![prod[p].slot] = x],
           prod' = [prod EXCEPT ![p].pc = pc], UNCHANGED <<next_seq, guard, raced>>,
           ~raced => /\ x.refcnt = IF pc = "committed" THEN 0 ELSE 1
                     /\ x.seq # 0 => x.bytes = x.seq
                     /\ pc = "written" => x.seq = 0
                     /\ pc # "committed" => x.bytes = prod[p].frame.seq
    PROVE  RingInv'
  <1>1. RingTypes /\ WritesAreNumbered /\ (~raced => SlotsAreHeld /\ BytesAreTheirs)
    BY DEF RingInv
  <1>2. PICK s \in Slots : s = prod[p].slot
    BY <1>1 DEF WritesAreNumbered, Writing
  <1>3. slots'[s] = x /\ \A i \in Slots \ {s} : slots'[i] = slots[i]
    BY <1>1, <1>2 DEF RingTypes
  <1>4. /\ prod'[p].pc = pc /\ prod'[p].slot = s /\ prod'[p].frame = prod[p].frame
        /\ \A q \in Producers \ {p} : prod'[q] = prod[q]
    BY <1>1, <1>2 DEF RingTypes
  <1>5. RingTypes'
    <2>1. slots' \in [Slots -> SlotRecords]
      BY <1>1 DEF RingTypes
    <2>2. prod' \in [Producers -> [pc : {"idle", "acquired", "written", "published", "committed"},
                                   slot : Nat, frame : AnyFrame]]
      BY <1>1 DEF RingTypes
    <2> QED
      BY <1>1, <2>1, <2>2 DEF RingTypes
  <1>6. WritesAreNumbered'
    BY <1>1, <1>4 DEF WritesAreNumbered, Writing
  <1>7. ASSUME ~raced
        PROVE  SlotsAreHeld' /\ BytesAreTheirs'
    <2>1. SlotsAreHeld /\ BytesAreTheirs
      BY <1>1, <1>7
    <2>2. \A q \in Producers \ {p} : Writing(q) => prod[q].slot \in Slots \ {s}
      BY <1>1, <1>2, <2>1 DEF SlotsAreHeld, WritesAreNumbered, Writing
    <2>3. Holders(s) = {}
      BY <1>2, <2>1 DEF SlotsAreHeld
    <2>4. (Writing(p)' <=> pc # "committed") /\ \A q \in Producers \ {p} : Writing(q)' <=> Writing(q)
      BY <1>4 DEF Writing
    <2>5. \A i : Holders(i)' = Holders(i)
      BY DEF Holders
    <2>6. \A q \in Producers : Writing(q)' => slots'[prod'[q].slot].refcnt = 1 /\ Holders(prod'[q].slot) = {}
      <3>1. ASSUME NEW q \in Producers \ {p}, Writing(q)'
            PROVE  slots'[prod'[q].slot].refcnt = 1 /\ Holders(prod'[q].slot) = {}
        <4>1. Writing(q) /\ prod'[q] = prod[q] /\ prod[q].slot \in Slots \ {s}
          BY <1>4, <2>2, <2>4, <3>1
        <4> QED
          BY <1>3, <2>1, <4>1 DEF SlotsAreHeld
      <3>2. Writing(p)' => slots'[prod'[p].slot].refcnt = 1
        BY <1>3, <1>4, <1>7, <2>4
      <3> QED
        BY <1>4, <2>3, <3>1, <3>2
    <2>7. \A q, r \in Producers : Writing(q)' /\ Writing(r)' /\ q # r => prod'[q].slot # prod'[r].slot
      BY <1>4, <2>1, <2>2, <2>4 DEF SlotsAreHeld
    <2>8. ASSUME NEW i \in Slots, \A q \in Producers : Writing(q)' => prod'[q].slot # i
          PROVE  Counted(i)'
      <3>1. CASE i = s
        <4>1. pc = "committed" /\ slots'[i].refcnt = 0
          BY <1>3, <1>4, <1>7, <2>4, <2>8, <3>1
        <4> QED
          BY <2>3, <2>5, <3>1, <4>1, FS_EmptySet DEF Counted
      <3>2. CASE i # s
        <4>1. \A q \in Producers : Writing(q) => prod[q].slot # i
          BY <1>2, <1>4, <2>4, <2>8, <3>2
        <4>2. Counted(i) /\ slots'[i] = slots[i]
          BY <1>3, <2>1, <3>2, <4>1 DEF SlotsAreHeld
        <4> QED
          BY <4>2 DEF Counted, Holders
      <3> QED
        BY <3>1, <3>2
    <2>9. SlotsAreHeld'
      BY <2>5, <2>6, <2>7, <2>8 DEF SlotsAreHeld
    <2>10. \A i \in Slots : slots'[i].seq # 0 => slots'[i].bytes = slots'[i].seq
      BY <1>3, <1>7, <2>1 DEF BytesAreTheirs
    <2>11. ASSUME NEW q \in Producers
           PROVE  /\ prod'[q].pc \in {"acquired", "written"} => slots'[prod'[q].slot].seq = 0
                  /\ prod'[q].pc \in {"written", "published"} =>
                        slots'[prod'[q].slot].bytes = prod'[q].frame.seq
      <3>1. CASE q = p
        BY <1>3, <1>4, <1>7, <3>1
      <3>2. CASE q # p /\ Writing(q)
        <4>1. prod'[q] = prod[q] /\ slots'[prod[q].slot] = slots[prod[q].slot]
          BY <1>3, <1>4, <2>2, <3>2
        <4>2. /\ prod[q].pc \in {"acquired", "written"} => slots[prod[q].slot].seq = 0
              /\ prod[q].pc \in {"written", "published"} => slots[prod[q].slot].bytes = prod[q].frame.seq
          BY <2>1 DEF BytesAreTheirs
        <4> QED
          BY <4>1, <4>2, Zenon
      <3>3. CASE q # p /\ ~Writing(q)
        BY <1>4, <3>3 DEF Writing
      <3> QED
        BY <3>1, <3>2, <3>3
    <2>12. BytesAreTheirs'
      BY <2>10, <2>11 DEF BytesAreTheirs
    <2> QED
      BY <2>9, <2>12
  <1> QED
    BY <1>5, <1>6, <1>7 DEF RingInv

(* The three steps of a write, and the end of one.                          *)
LEMMA WriteSteps ==
    ASSUME RingInv, NEW p \in Producers, write(p) \/ commit_seq(p) \/ commit_refcnt(p)
    PROVE  RingInv'
  <1>1. RingTypes /\ WritesAreNumbered /\ (~raced => SlotsAreHeld /\ BytesAreTheirs)
    BY DEF RingInv
  <1>2. Writing(p) /\ UNCHANGED <<next_seq, guard, raced>>
    BY DEF Writing, write, commit_seq, commit_refcnt, ghostVars
  <1>3. PICK s \in Slots : s = prod[p].slot
    BY <1>1, <1>2 DEF WritesAreNumbered, Writing
  <1>4. PICK n \in Nat : n = prod[p].frame.seq
    BY <1>1 DEF RingTypes, AnyFrame
  <1>5. PICK y \in SlotRecords : y = slots[s]
    BY <1>1 DEF RingTypes
  <1>6. ~raced => y.refcnt = 1 /\ (y.seq # 0 => y.bytes = y.seq)
    BY <1>1, <1>2, <1>3, <1>5 DEF SlotsAreHeld, BytesAreTheirs
  <1>7. CASE write(p)
    <2> DEFINE x == [y EXCEPT !.bytes = n]
    <2>1. slots' = [slots EXCEPT ![prod[p].slot] = x] /\ prod' = [prod EXCEPT ![p].pc = "written"]
      BY <1>3, <1>4, <1>5, <1>7 DEF write
    <2>2. x \in SlotRecords /\ x.refcnt = y.refcnt /\ x.seq = y.seq /\ x.bytes = n
      BY SlotRecord DEF SlotRecords
    <2>3. ~raced => y.seq = 0
      BY <1>1, <1>3, <1>5, <1>7 DEF BytesAreTheirs, write
    <2> HIDE DEF x
    <2> QED
      BY <1>2, <1>4, <1>6, <2>1, <2>2, <2>3, WriterStep
  <1>8. CASE commit_seq(p)
    <2> DEFINE x == [y EXCEPT !.seq = n]
    <2>1. slots' = [slots EXCEPT ![prod[p].slot] = x] /\ prod' = [prod EXCEPT ![p].pc = "published"]
      BY <1>3, <1>4, <1>5, <1>8 DEF commit_seq
    <2>2. x \in SlotRecords /\ x.refcnt = y.refcnt /\ x.seq = n /\ x.bytes = y.bytes
      BY SlotRecord DEF SlotRecords
    <2>3. ~raced => y.bytes = n
      BY <1>1, <1>3, <1>4, <1>5, <1>8 DEF BytesAreTheirs, commit_seq
    <2> HIDE DEF x
    <2> QED
      BY <1>2, <1>4, <1>6, <2>1, <2>2, <2>3, WriterStep
  <1>9. CASE commit_refcnt(p)
    <2> DEFINE x == [y EXCEPT !.refcnt = 0]
    <2>1. slots' = [slots EXCEPT ![prod[p].slot] = x] /\ prod' = [prod EXCEPT ![p].pc = "committed"]
      BY <1>3, <1>5, <1>9 DEF commit_refcnt
    <2>2. x \in SlotRecords /\ x.refcnt = 0 /\ x.seq = y.seq /\ x.bytes = y.bytes
      BY SlotRecord DEF SlotRecords
    <2> HIDE DEF x
    <2> QED
      BY <1>2, <1>6, <2>1, <2>2, WriterStep
  <1> QED
    BY <1>7, <1>8, <1>9

LEMMA WriteEnds ==
    ASSUME RingInv, NEW p \in Producers, prod[p].pc = "committed", prod' = [prod EXCEPT ![p] = NotWriting],
           UNCHANGED <<slots, next_seq, guard, raced>>
    PROVE  RingInv'
  <1>1. RingTypes /\ WritesAreNumbered /\ (~raced => SlotsAreHeld /\ BytesAreTheirs)
    BY DEF RingInv
  <1>2. prod'[p] = NotWriting /\ \A q \in Producers \ {p} : prod'[q] = prod[q]
    BY <1>1 DEF RingTypes
  <1>3. prod'[p].pc = "idle"
    BY <1>2 DEF NotWriting
  <1>4. RingTypes'
    <2>1. NotWriting \in [pc : {"idle", "acquired", "written", "published", "committed"},
                          slot : Nat, frame : AnyFrame]
      BY DEF NotWriting, NoFrame, AnyFrame, AnyPicture
    <2> QED
      BY <1>1, <2>1 DEF RingTypes
  <1>5. WritesAreNumbered'
    BY <1>1, <1>2, <1>3 DEF WritesAreNumbered
  <1>6. ASSUME ~raced
        PROVE  SlotsAreHeld' /\ BytesAreTheirs'
    <2>1. SlotsAreHeld /\ BytesAreTheirs /\ ~Writing(p) /\ ~Writing(p)'
      BY <1>1, <1>3, <1>6 DEF Writing
    <2>2. \A q \in Producers \ {p} : Writing(q)' <=> Writing(q)
      BY <1>2 DEF Writing
    <2>3. \A i : Holders(i)' = Holders(i) /\ (Counted(i)' <=> Counted(i))
      BY DEF Holders, Counted
    <2>4. SlotsAreHeld'
      BY <1>2, <2>1, <2>2, <2>3 DEF SlotsAreHeld
    <2>5. BytesAreTheirs'
      BY <1>2, <1>3, <2>1 DEF BytesAreTheirs
    <2> QED
      BY <2>4, <2>5
  <1> QED
    BY <1>4, <1>5, <1>6 DEF RingInv

(* Nobody touches the ring.                                                 *)
LEMMA RingRests ==
    ASSUME RingInv, UNCHANGED <<slots, next_seq, prod, guard, raced>>
    PROVE  RingInv'
  <1>1. \A i : Holders(i)' = Holders(i) /\ (Counted(i)' <=> Counted(i))
    BY DEF Holders, Counted
  <1>2. SlotsAreHeld => SlotsAreHeld'
    BY <1>1 DEF SlotsAreHeld, Writing
  <1>3. BytesAreTheirs => BytesAreTheirs'
    BY DEF BytesAreTheirs
  <1> QED
    BY <1>2, <1>3 DEF RingInv, RingTypes, WritesAreNumbered

(* A reader takes or gives up slot s, which nobody is writing.              *)
LEMMA GuardStep ==
    ASSUME RingInv, NEW r \in Readers, NEW s \in Slots, NEW k \in Int, NEW g \in [slot : Nat, seq : Nat],
           slots' = [slots EXCEPT ![s].refcnt = k], guard' = [guard EXCEPT ![r] = g],
           g = NoGuard \/ g.slot \in Slots, UNCHANGED <<next_seq, prod>>, ~raced' => ~raced,
           ~raced' => /\ \A p \in Producers : Writing(p) => prod[p].slot # s
                      /\ IsFiniteSet(Holders(s)') /\ k = Cardinality(Holders(s)')
                      /\ \A i \in Slots \ {s} : Holders(i)' = Holders(i)
    PROVE  RingInv'
  <1>1. RingTypes /\ WritesAreNumbered /\ (~raced => SlotsAreHeld /\ BytesAreTheirs)
    BY DEF RingInv
  <1>2. /\ slots'[s].refcnt = k /\ slots'[s].seq = slots[s].seq /\ slots'[s].bytes = slots[s].bytes
        /\ \A i \in Slots \ {s} : slots'[i] = slots[i]
    BY <1>1 DEF RingTypes, SlotRecords
  <1>3. guard'[r] = g /\ \A q \in Readers \ {r} : guard'[q] = guard[q]
    BY <1>1 DEF RingTypes
  <1>4. RingTypes'
    <2>1. slots[s] \in SlotRecords
      BY <1>1 DEF RingTypes
    <2>2. [slots[s] EXCEPT !.refcnt = k] \in SlotRecords
      BY <2>1, SlotRecord
    <2>3. slots' \in [Slots -> SlotRecords]
      BY <1>1, <2>2 DEF RingTypes
    <2> QED
      BY <1>1, <2>3 DEF RingTypes
  <1>5. WritesAreNumbered'
    BY <1>1, <1>3 DEF WritesAreNumbered
  <1>6. ASSUME ~raced'
        PROVE  SlotsAreHeld' /\ BytesAreTheirs'
    <2>1. SlotsAreHeld /\ BytesAreTheirs
      BY <1>1, <1>6
    <2>2. \A p \in Producers : Writing(p)' <=> Writing(p)
      BY DEF Writing
    <2>3. \A p \in Producers : Writing(p) => prod[p].slot \in Slots \ {s}
      BY <1>1, <1>6 DEF WritesAreNumbered, Writing
    <2>4. ASSUME NEW p \in Producers, Writing(p)
          PROVE  slots'[prod[p].slot] = slots[prod[p].slot] /\ Holders(prod[p].slot)' = Holders(prod[p].slot)
      <3>1. PICK i \in Slots \ {s} : i = prod[p].slot
        BY <2>3, <2>4
      <3>2. Holders(i)' = Holders(i) /\ slots'[i] = slots[i]
        BY <1>2, <1>6
      <3> QED
        BY <3>1, <3>2 DEF Holders
    <2>5. \A i \in Slots \ {s} : Counted(i) => Counted(i)'
      BY <1>2, <1>6 DEF Counted
    <2>6. Counted(s)'
      BY <1>2, <1>6 DEF Counted
    <2>7. SlotsAreHeld'
      BY <2>1, <2>2, <2>4, <2>5, <2>6 DEF SlotsAreHeld
    <2>8. BytesAreTheirs'
      <3>1. \A i \in Slots : slots'[i].seq # 0 => slots'[i].bytes = slots'[i].seq
        BY <1>2, <2>1 DEF BytesAreTheirs
      <3>2. \A p \in Producers : prod[p].pc \in {"acquired", "written"} => slots'[prod[p].slot].seq = 0
        BY <2>1, <2>4 DEF BytesAreTheirs, Writing
      <3>3. \A p \in Producers :
               prod[p].pc \in {"written", "published"} => slots'[prod[p].slot].bytes = prod[p].frame.seq
        BY <2>1, <2>4 DEF BytesAreTheirs, Writing
      <3> QED
        BY <3>1, <3>2, <3>3 DEF BytesAreTheirs
    <2> QED
      BY <2>7, <2>8
  <1> QED
    BY <1>4, <1>5, <1>6 DEF RingInv

LEMMA ReadStep ==
    ASSUME RingInv, NEW r \in Readers, read(r)
    PROVE  RingInv'
  <1>1. RingTypes /\ WritesAreNumbered /\ (~raced => SlotsAreHeld /\ BytesAreTheirs)
    BY DEF RingInv
  <1>2. PICK s \in Slots :
           /\ slots[s].seq # 0
           /\ slots' = [slots EXCEPT ![s].refcnt = @ + 1]
           /\ guard' = [guard EXCEPT ![r] = [slot |-> s, seq |-> slots[s].seq]]
           /\ raced' = (raced \/ \E p \in Producers : prod[p].pc = "published" /\ prod[p].slot = s)
    BY DEF read
  <1>3. guard[r] = NoGuard /\ UNCHANGED <<next_seq, prod>>
    BY DEF read
  <1>4. PICK k \in Int : k = slots[s].refcnt + 1
    BY <1>1 DEF RingTypes, SlotRecords
  <1>5. PICK g \in [slot : Nat, seq : Nat] : g = [slot |-> s, seq |-> slots[s].seq] /\ g.slot = s
    <2>1. s \in Nat /\ slots[s].seq \in Nat
      BY <1>1 DEF RingTypes, SlotRecords, Slots
    <2>2. [slot |-> s, seq |-> slots[s].seq] \in [slot : Nat, seq : Nat]
      BY <2>1
    <2> QED
      BY <2>2
  <1>6. slots' = [slots EXCEPT ![s].refcnt = k] /\ guard' = [guard EXCEPT ![r] = g]
    BY <1>2, <1>4, <1>5
  <1>7. guard'[r] = g /\ \A q \in Readers \ {r} : guard'[q] = guard[q]
    BY <1>1, <1>6 DEF RingTypes
  <1>8. guard[r].slot = 0 /\ 0 \notin Slots
    BY <1>3 DEF NoGuard, Slots
  <1>9. Holders(s)' = Holders(s) \cup {r} /\ r \notin Holders(s)
    BY <1>5, <1>7, <1>8 DEF Holders
  <1>10. \A i \in Slots \ {s} : Holders(i)' = Holders(i)
    BY <1>5, <1>7, <1>8 DEF Holders
  <1>11. ~raced' => ~raced /\ \A p \in Producers : ~(prod[p].pc = "published" /\ prod[p].slot = s)
    BY <1>2, Zenon
  <1>12. ASSUME ~raced'
         PROVE  /\ \A p \in Producers : Writing(p) => prod[p].slot # s
                /\ IsFiniteSet(Holders(s)') /\ k = Cardinality(Holders(s)')
    <2>1. SlotsAreHeld /\ BytesAreTheirs
      BY <1>1, <1>11, <1>12
    <2>2. \A p \in Producers : Writing(p) => prod[p].slot # s
      BY <1>2, <1>11, <1>12, <2>1 DEF BytesAreTheirs, Writing
    <2>3. IsFiniteSet(Holders(s)) /\ slots[s].refcnt = Cardinality(Holders(s))
      BY <2>1, <2>2 DEF SlotsAreHeld, Counted
    <2> QED
      BY <1>4, <1>9, <2>2, <2>3, FS_AddElement
  <1> QED
    BY <1>3, <1>5, <1>6, <1>10, <1>11, <1>12, GuardStep

LEMMA DropStep ==
    ASSUME RingInv, NEW r \in Readers, drop_guard(r)
    PROVE  RingInv'
  <1>1. RingTypes /\ WritesAreNumbered /\ (~raced => SlotsAreHeld /\ BytesAreTheirs)
    BY DEF RingInv
  <1>2. PICK s \in Slots : s = guard[r].slot
    BY <1>1 DEF drop_guard, WritesAreNumbered
  <1>3. PICK k \in Int : k = slots[s].refcnt - 1
    BY <1>1 DEF RingTypes, SlotRecords
  <1>4. PICK g \in [slot : Nat, seq : Nat] : g = NoGuard /\ g.slot = 0
    <2>1. NoGuard \in [slot : Nat, seq : Nat] /\ NoGuard.slot = 0
      BY DEF NoGuard
    <2> QED
      BY <2>1
  <1>5. /\ slots' = [slots EXCEPT ![s].refcnt = k] /\ guard' = [guard EXCEPT ![r] = g]
        /\ UNCHANGED <<next_seq, prod, raced>>
    BY <1>2, <1>3, <1>4 DEF drop_guard, ghostVars
  <1>6. guard'[r] = g /\ \A q \in Readers \ {r} : guard'[q] = guard[q]
    BY <1>1, <1>5 DEF RingTypes
  <1>7. 0 \notin Slots
    BY DEF Slots
  <1>8. Holders(s)' = Holders(s) \ {r} /\ r \in Holders(s)
    BY <1>2, <1>4, <1>6, <1>7 DEF Holders
  <1>9. \A i \in Slots \ {s} : Holders(i)' = Holders(i)
    BY <1>2, <1>4, <1>6, <1>7 DEF Holders
  <1>10. ASSUME ~raced
         PROVE  /\ \A p \in Producers : Writing(p) => prod[p].slot # s
                /\ IsFiniteSet(Holders(s)') /\ k = Cardinality(Holders(s)')
    <2>1. SlotsAreHeld
      BY <1>1, <1>10
    <2>2. \A p \in Producers : Writing(p) => prod[p].slot # s
      BY <1>8, <2>1 DEF SlotsAreHeld
    <2>3. IsFiniteSet(Holders(s)) /\ slots[s].refcnt = Cardinality(Holders(s))
      BY <2>1, <2>2 DEF SlotsAreHeld, Counted
    <2> QED
      BY <1>3, <1>8, <2>2, <2>3, FS_RemoveElement
  <1> QED
    BY <1>4, <1>5, <1>9, <1>10, GuardStep

(* Every step of a producer or a reader keeps the ring in order, and the    *)
(* rest leave it alone.                                                     *)
LEMMA RingStep ==
    ASSUME RingInv, [VisionNext]_visionVars
    PROVE  RingInv'
  <1>1. CASE CaptureFrame \/ PrimeFrame
    <2>1. /\ \E p \in Producers, pic \in Pictures : prod[p].pc = "idle" /\ acquire_write(p, pic)
          /\ UNCHANGED <<guard, raced>>
      BY <1>1 DEF CaptureFrame, PrimeFrame, Producers, ghostVars
    <2> QED
      BY <2>1, AcquireStep
  <1>2. CASE CaptureSends \/ PrimeDiffs \/ \E p \in Producers : DecodeFails(p)
    <2>1. /\ \E p \in Producers : prod[p].pc = "committed" /\ prod' = [prod EXCEPT ![p] = NotWriting]
          /\ UNCHANGED <<slots, next_seq, guard, raced>>
      BY <1>2 DEF CaptureSends, PrimeDiffs, DecodeFails, Diff, Producers, ghostVars, frameRingVars
    <2> QED
      BY <2>1, WriteEnds
  <1>3. CASE PumpDiffs \/ (\E t \in Tickers : PushChanges(t) \/ SetLastFrame(t)) \/ EmitFrame
             \/ RingLostSeq \/ UNCHANGED visionVars
    <2>1. UNCHANGED <<slots, next_seq, prod, guard, raced>>
      BY <1>3 DEF PumpDiffs, Diff, PushChanges, SetLastFrame, EmitFrame, RingLostSeq, ghostVars, frameRingVars,
                  visionVars
    <2> QED
      BY <2>1, RingRests
  <1> QED
    BY <1>1, <1>2, <1>3, WriteSteps, ReadStep, DropStep DEF VisionNext

(* Frames keep their numbers down the channel and through the diff.         *)
Ticks == [pc : {"idle", "diffed", "pushed", "ticked"}, frame : AnyFrame, tiles : SUBSET Tiles]

LEMMA TicksTo ==
    ASSUME TickInv, NEW t \in Tickers, NEW v \in Ticks, v.pc # "idle" => v.frame.seq # 0,
           tick' = [tick EXCEPT ![t] = v], chan' \in Seq(AnyFrame), \A i \in DOMAIN chan' : chan'[i].seq # 0
    PROVE  TickInv'
  <1>1. tick' \in [Tickers -> Ticks] /\ tick'[t] = v /\ \A u \in Tickers \ {t} : tick'[u] = tick[u]
    BY DEF TickInv, TickTypes, Ticks
  <1>2. TicksAreNumbered'
    BY <1>1 DEF TickInv, TicksAreNumbered
  <1> QED
    BY <1>1, <1>2 DEF TickInv, TickTypes, Ticks

LEMMA DiffStep ==
    ASSUME TickInv, NEW t \in Tickers, NEW f \in AnyFrame, f.seq # 0, Diff(t, f),
           chan' \in Seq(AnyFrame), \A i \in DOMAIN chan' : chan'[i].seq # 0
    PROVE  TickInv'
  <1> DEFINE d == IF Seeds(f) THEN {} ELSE Differ(grid, f.pic)
             v == [pc |-> "diffed", frame |-> f, tiles |-> d]
  <1>1. tick' = [tick EXCEPT ![t] = v]
    BY DEF Diff
  <1>2. d \in SUBSET Tiles
    BY DEF Differ
  <1> HIDE DEF d
  <1>3. v \in Ticks /\ v.frame = f
    BY <1>2 DEF Ticks
  <1> HIDE DEF v
  <1> QED
    BY <1>1, <1>3, TicksTo

LEMMA TickStep ==
    ASSUME RingInv, TickInv, [VisionNext]_visionVars
    PROVE  TickInv'
  <1>1. chan \in Seq(AnyFrame) /\ (\A i \in DOMAIN chan : chan[i].seq # 0) /\ tick \in [Tickers -> Ticks]
    BY DEF TickInv, TickTypes, TicksAreNumbered, Ticks
  <1>2. \A p \in Producers : prod[p].frame \in AnyFrame /\ (prod[p].pc # "idle" => prod[p].frame.seq # 0)
    BY DEF RingInv, RingTypes, WritesAreNumbered
  <1>3. NotTicking \in Ticks /\ NotTicking.pc = "idle"
    BY DEF NotTicking, Ticks, NoFrame, AnyFrame, AnyPicture
  <1>4. CASE CaptureSends
    <2>1. PICK f \in AnyFrame : f.seq # 0 /\ chan' = Append(chan, f)
      BY <1>2, <1>4 DEF CaptureSends, Producers
    <2>2. chan' \in Seq(AnyFrame) /\ \A i \in DOMAIN chan' : chan'[i].seq # 0
      BY <1>1, <2>1
    <2>3. tick' = tick
      BY <1>4 DEF CaptureSends, tickVars
    <2> QED
      BY <2>2, <2>3 DEF TickInv, TickTypes, TicksAreNumbered
  <1>5. CASE PumpDiffs
    <2>1. chan # <<>> /\ chan' = Tail(chan) /\ Diff("pump", Head(chan)) /\ "pump" \in Tickers
      BY <1>5 DEF PumpDiffs, Tickers
    <2>2. Head(chan) \in AnyFrame /\ Head(chan).seq # 0
      <3>1. 1 \in DOMAIN chan /\ Head(chan) = chan[1]
        BY <1>1, <2>1
      <3> QED
        BY <1>1, <3>1
    <2>3. chan' \in Seq(AnyFrame) /\ \A i \in DOMAIN chan' : chan'[i].seq # 0
      <3>1. Tail(chan) \in Seq(AnyFrame)
        BY <1>1, <2>1
      <3>2. \A i \in DOMAIN Tail(chan) : i + 1 \in DOMAIN chan /\ Tail(chan)[i] = chan[i + 1]
        BY <1>1, <2>1
      <3> QED
        BY <1>1, <2>1, <3>1, <3>2
    <2> QED
      BY <2>1, <2>2, <2>3, DiffStep
  <1>6. CASE PrimeDiffs
    <2>1. /\ prod["prime"].pc = "committed" /\ Diff("prime", prod["prime"].frame) /\ chan' = chan
          /\ "prime" \in Tickers /\ "prime" \in Producers
      BY <1>6 DEF PrimeDiffs, Tickers, Producers
    <2> QED
      BY <1>1, <1>2, <2>1, DiffStep
  <1>7. ASSUME NEW t \in Tickers, PushChanges(t) \/ SetLastFrame(t)
        PROVE  TickInv'
    <2>1. tick[t] \in Ticks /\ chan' = chan /\ tick[t].pc # "idle" /\ tick[t].frame.seq # 0
      BY <1>1, <1>7 DEF PushChanges, SetLastFrame, TickInv, TicksAreNumbered
    <2>2. ASSUME NEW pc \in {"pushed", "ticked"}
          PROVE  /\ [tick[t] EXCEPT !.pc = pc] \in Ticks
                 /\ [tick[t] EXCEPT !.pc = pc].frame = tick[t].frame
      BY <2>1 DEF Ticks
    <2>3. \/ \E pc \in {"pushed", "ticked"} : tick' = [tick EXCEPT ![t] = [tick[t] EXCEPT !.pc = pc]]
          \/ tick' = [tick EXCEPT ![t] = NotTicking]
      BY <1>1, <1>7 DEF PushChanges, SetLastFrame
    <2> QED
      BY <1>1, <1>3, <2>1, <2>2, <2>3, TicksTo
  <1>8. CASE EmitFrame \/ RingLostSeq
    <2>1. tick' = [tick EXCEPT !["pump"] = NotTicking] /\ chan' = chan /\ "pump" \in Tickers
      BY <1>8 DEF EmitFrame, RingLostSeq, Tickers
    <2> QED
      BY <1>1, <1>3, <2>1, TicksTo
  <1>9. CASE UNCHANGED <<chan, tick>>
    BY <1>9, SMTT(30) DEF TickInv, TickTypes, TicksAreNumbered
  <1> QED
    BY <1>4, <1>5, <1>6, <1>7, <1>8, <1>9
       DEF VisionNext, visionVars, tickVars, write, commit_seq, commit_refcnt, read, drop_guard, DecodeFails,
           CaptureFrame, PrimeFrame

(* The handle of an event is a slot that carries the frame's number, and    *)
(* with it the frame's bytes.                                               *)
LEMMA EventStep ==
    ASSUME VisionInv, [VisionNext]_visionVars
    PROVE  EventNamesItsFrame'
  <1>1. ~raced' => ~raced
    <2>1. ASSUME NEW r \in Readers, read(r), ~raced'
          PROVE  ~raced
      BY <2>1, Zenon DEF read
    <2>2. (\E r \in Readers : read(r)) \/ raced' = raced
      BY DEF VisionNext, visionVars, ghostVars, write, commit_seq, commit_refcnt, drop_guard, DecodeFails,
             CaptureFrame, CaptureSends, PrimeFrame, PumpDiffs, PrimeDiffs, Diff, PushChanges, SetLastFrame,
             EmitFrame, RingLostSeq
    <2> QED
      BY <2>1, <2>2
  <1>2. CASE EmitFrame
    <2>1. PICK i \in HandleFor(tick["pump"].frame.seq) :
             event' = [seq |-> tick["pump"].frame.seq, pic |-> tick["pump"].frame.pic,
                       tiles |-> tick["pump"].tiles, bytes |-> slots[i].bytes]
      BY <1>2 DEF EmitFrame
    <2>2. i \in Slots /\ slots[i].seq = tick["pump"].frame.seq
      BY <2>1 DEF HandleFor
    <2>3. tick["pump"].frame.seq # 0
      BY <1>2 DEF EmitFrame, VisionInv, TickInv, TicksAreNumbered, Tickers
    <2>4. ~raced => slots[i].bytes = slots[i].seq
      BY <2>2, <2>3 DEF VisionInv, RingInv, BytesAreTheirs
    <2> QED
      BY <1>1, <2>1, <2>2, <2>4 DEF EventNamesItsFrame
  <1>3. CASE event' = event
    BY <1>1, <1>3 DEF VisionInv, EventNamesItsFrame
  <1> QED
    BY <1>2, <1>3
       DEF VisionNext, visionVars, watcherVars, write, commit_seq, commit_refcnt, read, drop_guard, DecodeFails,
           CaptureFrame, CaptureSends, PrimeFrame, PumpDiffs, PrimeDiffs, Diff, PushChanges, SetLastFrame,
           RingLostSeq

LEMMA VisionInitial ==
    ASSUME VisionInit
    PROVE  VisionInv
  <1>1. RingTypes
    <2>1. NotWriting \in [pc : {"idle", "acquired", "written", "published", "committed"},
                          slot : Nat, frame : AnyFrame]
      BY DEF NotWriting, NoFrame, AnyFrame, AnyPicture
    <2>2. NoGuard \in [slot : Nat, seq : Nat] /\ [seq |-> 0, refcnt |-> 0, bytes |-> 0] \in SlotRecords
      BY DEF NoGuard, SlotRecords
    <2> QED
      BY <2>1, <2>2 DEF VisionInit, RingTypes
  <1>2. /\ \A p \in Producers : prod[p].pc = "idle" /\ ~Writing(p)
        /\ \A r \in Readers : guard[r] = NoGuard /\ guard[r].slot = 0
        /\ \A t \in Tickers : tick[t].pc = "idle"
    BY DEF VisionInit, NotWriting, NoGuard, NotTicking, Writing
  <1>3. WritesAreNumbered
    BY <1>2 DEF WritesAreNumbered
  <1>4. \A i \in Slots : slots[i].seq = 0 /\ slots[i].refcnt = 0
    BY DEF VisionInit
  <1>5. \A i \in Slots : Holders(i) = {}
    BY <1>2 DEF Holders, Slots
  <1>6. SlotsAreHeld
    BY <1>2, <1>4, <1>5, FS_EmptySet DEF SlotsAreHeld, Counted
  <1>7. BytesAreTheirs
    BY <1>2, <1>4 DEF BytesAreTheirs
  <1>8. TickInv
    <2>1. NotTicking \in Ticks
      BY DEF NotTicking, Ticks, NoFrame, AnyFrame, AnyPicture
    <2>2. chan = <<>> /\ chan \in Seq(AnyFrame) /\ DOMAIN chan = {}
      BY DEF VisionInit
    <2> QED
      BY <1>2, <2>1, <2>2 DEF VisionInit, TickInv, TickTypes, TicksAreNumbered, Ticks
  <1>9. EventNamesItsFrame
    BY DEF VisionInit, NoEvent, EventNamesItsFrame
  <1> QED
    BY <1>1, <1>3, <1>6, <1>7, <1>8, <1>9 DEF VisionInv, RingInv

(* The inductive invariant behind EventNamesItsFrame, for any number of     *)
(* slots, readers and frames: the FrameRing recycles a slot that no guard   *)
(* holds (its count is the number of guards on it) and unpublishes it       *)
(* before it is written.                                                    *)
THEOREM VisionInvariance == VisionSpec => []VisionInv
  <1>1. ASSUME VisionInv, [VisionNext]_visionVars
        PROVE  VisionInv'
    BY <1>1, RingStep, TickStep, EventStep DEF VisionInv
  <1> QED
    BY <1>1, VisionInitial, PTL DEF VisionSpec

(* The handle in a vision.frame event (tick_with_subscriber) points at the  *)
(* bytes of the frame the event names, as long as no guard was taken in     *)
(* the middle of a commit.                                                  *)
THEOREM EventNamesItsFrameSafety == VisionSpec => []EventNamesItsFrame
  <1>1. VisionInv => EventNamesItsFrame
    BY DEF VisionInv
  <1> QED
    BY <1>1, VisionInvariance, PTL

----------------------------------------------------------------------------
(* The changes: inductive invariant                                         *)

Entries == [seq : Nat, tiles : SUBSET Tiles]
Events == [seq : Nat, pic : AnyPicture, tiles : SUBSET Tiles, bytes : Nat]
WatchTypes == history \in Seq(Entries) /\ event \in Events /\ mark \in Events

\* As long as no screenshot went through the pipeline the capture task and the pump are
\* alone in it, and a frame has a number above those of the frames before it.
PrimeRests == prod["prime"].pc = "idle" /\ tick["prime"] = NotTicking
Diffing == tick["pump"].pc # "idle"
Done(n) == mark.seq < n /\ \A i \in DOMAIN history : history[i].seq < n
Ahead(n) == Done(n) /\ (Diffing => tick["pump"].frame.seq < n)
HistoryAscends == \A i, j \in DOMAIN history : i < j => history[i].seq < history[j].seq
ChannelAscends ==
    /\ \A i, j \in DOMAIN chan : i < j => chan[i].seq < chan[j].seq
    /\ \A i \in DOMAIN chan :
           /\ Ahead(chan[i].seq) /\ chan[i].seq < next_seq
           /\ prod["capture"].pc # "idle" => chan[i].seq < prod["capture"].frame.seq
CaptureIsAhead ==
    /\ Ahead(next_seq)
    /\ prod["capture"].pc # "idle" =>
           Ahead(prod["capture"].frame.seq) /\ prod["capture"].frame.seq < next_seq
PumpIsAhead ==
    /\ Diffing => mark.seq < tick["pump"].frame.seq
    /\ tick["pump"].pc = "diffed" => Done(tick["pump"].frame.seq)
LineOfFrames == HistoryAscends /\ ChannelAscends /\ CaptureIsAhead /\ PumpIsAhead

\* The grid is the frame being diffed or the last one diffed, and the changes kept since
\* the frame that the client remembers cover what differs between the two.
GridIsLast ==
    /\ tick["pump"].pc = "idle" => tick["pump"] = NotTicking
    /\ Diffing => grid = tick["pump"].frame.pic
    /\ tick["pump"].pc \in {"idle", "ticked"} => last_frame.pic = grid
Pending == IF tick["pump"].pc = "diffed" THEN tick["pump"].tiles ELSE {}
MarkIsCovered ==
    ((\E i \in DOMAIN history : history[i].seq = mark.seq) /\ mark.seq >= seeded) =>
        Differ(mark.pic, grid) \subseteq changed_since(mark.seq) \cup Pending
PumpInv == WatchTypes /\ (~primed => PrimeRests /\ LineOfFrames /\ GridIsLast /\ MarkIsCovered)

----------------------------------------------------------------------------
(* The changes: steps                                                       *)

(* The numbers are numbers.                                                 *)
LEMMA Numbers ==
    ASSUME VisionInv, WatchTypes
    PROVE  /\ next_seq \in Nat /\ mark.seq \in Nat /\ event.seq \in Nat
           /\ \A i \in DOMAIN history : history[i].seq \in Nat
           /\ \A i \in DOMAIN chan : chan[i].seq \in Nat
           /\ prod["capture"].frame.seq \in Nat /\ tick["pump"].frame.seq \in Nat
           /\ tick["pump"].frame \in AnyFrame
           /\ prod["capture"].frame \in AnyFrame
  <1>1. next_seq \in Nat
    BY DEF VisionInv, RingInv, RingTypes
  <1>2. mark.seq \in Nat /\ event.seq \in Nat
    BY DEF WatchTypes, Events
  <1>3. \A i \in DOMAIN history : history[i].seq \in Nat
    <2>1. \A i \in DOMAIN history : history[i] \in Entries
      BY DEF WatchTypes
    <2> QED
      BY <2>1 DEF Entries
  <1>4. \A i \in DOMAIN chan : chan[i].seq \in Nat
    <2>1. \A i \in DOMAIN chan : chan[i] \in AnyFrame
      BY DEF VisionInv, TickInv, TickTypes
    <2> QED
      BY <2>1 DEF AnyFrame
  <1>5. prod["capture"].frame \in AnyFrame
    BY DEF VisionInv, RingInv, RingTypes, Producers
  <1>6. tick["pump"].frame \in AnyFrame
    BY DEF VisionInv, TickInv, TickTypes, Tickers
  <1> QED
    BY <1>1, <1>2, <1>3, <1>4, <1>5, <1>6 DEF AnyFrame

(* A step of the capture task, or of the ring, that puts no frame in the    *)
(* channel.                                                                 *)
LEMMA CaptureMoves ==
    ASSUME VisionInv, PumpInv, ~primed, UNCHANGED <<chan, tick, grid, history, last_frame, seeded, mark, event>>,
           next_seq' \in Nat, next_seq <= next_seq', prod'["prime"].pc = "idle",
           prod'["capture"].pc # "idle" =>
               \/ prod["capture"].pc # "idle" /\ prod'["capture"].frame = prod["capture"].frame
               \/ prod'["capture"].frame.seq = next_seq /\ next_seq < next_seq'
    PROVE  WatchTypes' /\ PrimeRests' /\ LineOfFrames' /\ GridIsLast' /\ MarkIsCovered'
  <1>1. WatchTypes /\ PrimeRests /\ LineOfFrames /\ GridIsLast /\ MarkIsCovered
    BY DEF PumpInv
  <1>2. WatchTypes' /\ PrimeRests' /\ GridIsLast' /\ MarkIsCovered' /\ HistoryAscends' /\ PumpIsAhead'
    BY <1>1 DEF WatchTypes, PrimeRests, GridIsLast, MarkIsCovered, Diffing, changed_since, Pending,
       LineOfFrames, HistoryAscends, PumpIsAhead, Done
  <1>3. /\ next_seq \in Nat /\ mark.seq \in Nat /\ prod["capture"].frame.seq \in Nat
        /\ tick["pump"].frame.seq \in Nat
        /\ \A i \in DOMAIN history : history[i].seq \in Nat
        /\ \A i \in DOMAIN chan : chan[i].seq \in Nat
    BY <1>1, Numbers
  <1>4. Ahead(next_seq) /\ ChannelAscends /\ CaptureIsAhead
    BY <1>1 DEF LineOfFrames, CaptureIsAhead
  <1>5. Ahead(next_seq)'
    BY <1>3, <1>4 DEF Ahead, Done, Diffing
  <1>6. prod'["capture"].pc # "idle" => Ahead(prod["capture"].frame.seq)' /\ prod'["capture"].frame.seq < next_seq'
    <2>1. CASE prod["capture"].pc # "idle" /\ prod'["capture"].frame = prod["capture"].frame
      BY <1>3, <1>4, <2>1 DEF CaptureIsAhead, Ahead, Done, Diffing
    <2>2. CASE prod'["capture"].frame.seq = next_seq /\ next_seq < next_seq'
      BY <1>3, <1>4, <2>2 DEF Ahead, Done, Diffing
    <2> QED
      BY <2>1, <2>2
  <1>7. ChannelAscends'
    <2>1. ASSUME NEW i \in DOMAIN chan
          PROVE  /\ chan[i].seq < next_seq'
                 /\ prod'["capture"].pc # "idle" => chan[i].seq < prod'["capture"].frame.seq
      <3>1. /\ chan[i].seq < next_seq
            /\ prod["capture"].pc # "idle" => chan[i].seq < prod["capture"].frame.seq
        BY <1>4 DEF ChannelAscends
      <3> QED
        BY <1>3, <3>1
    <2>2. \A i \in DOMAIN chan : Ahead(chan[i].seq)
      BY <1>4 DEF ChannelAscends
    <2>3. \A i \in DOMAIN chan : Ahead(chan[i].seq)'
      BY <2>2 DEF Ahead, Done, Diffing
    <2> QED
      BY <1>4, <2>1, <2>3 DEF ChannelAscends
  <1> QED
    BY <1>2, <1>5, <1>6, <1>7 DEF LineOfFrames, CaptureIsAhead

(* The capture task sends its frame.                                        *)
LEMMA CaptureSent ==
    ASSUME VisionInv, PumpInv, ~primed, CaptureSends
    PROVE  WatchTypes' /\ PrimeRests' /\ LineOfFrames' /\ GridIsLast' /\ MarkIsCovered'
  <1> USE DEF frameRingVars, tickVars, watcherVars, ghostVars
  <1>1. WatchTypes /\ PrimeRests /\ LineOfFrames /\ GridIsLast /\ MarkIsCovered
    BY DEF PumpInv
  <1>2. /\ prod["capture"].pc = "committed" /\ chan' = Append(chan, prod["capture"].frame)
        /\ prod' = [prod EXCEPT !["capture"] = NotWriting]
        /\ UNCHANGED <<slots, next_seq, tick, grid, history, last_frame, seeded, mark, event>>
    BY DEF CaptureSends
  <1>3. prod'["prime"] = prod["prime"] /\ prod'["capture"].pc = "idle"
    BY <1>2 DEF VisionInv, RingInv, RingTypes, Producers, NotWriting
  <1>4. WatchTypes' /\ PrimeRests' /\ GridIsLast' /\ MarkIsCovered' /\ HistoryAscends' /\ PumpIsAhead'
    BY <1>1, <1>2, <1>3 DEF WatchTypes, PrimeRests, GridIsLast, MarkIsCovered, Diffing, changed_since, Pending,
       LineOfFrames, HistoryAscends, PumpIsAhead, Done
  <1>5. CaptureIsAhead'
    BY <1>1, <1>2, <1>3 DEF LineOfFrames, CaptureIsAhead, Ahead, Done, Diffing
  <1> DEFINE f == prod["capture"].frame
             c == Append(chan, f)
             n == Len(chan)
  <1>6. f \in AnyFrame /\ f.seq \in Nat /\ chan \in Seq(AnyFrame)
    BY <1>1, Numbers DEF VisionInv, TickInv, TickTypes
  <1>7. /\ n \in Nat /\ DOMAIN chan = 1..n /\ DOMAIN c = 1..(n + 1) /\ c[n + 1] = f
        /\ \A i \in DOMAIN chan : c[i] = chan[i]
    <2> HIDE DEF f
    <2> QED
      BY <1>6
  <1>8. /\ f.seq < next_seq /\ \A i \in DOMAIN chan : chan[i].seq < f.seq
        /\ mark.seq < f.seq /\ (\A i \in DOMAIN history : history[i].seq < f.seq)
        /\ Diffing => tick["pump"].frame.seq < f.seq
    BY <1>1, <1>2 DEF LineOfFrames, CaptureIsAhead, ChannelAscends, Ahead, Done
  <1>9. chan' = c
    BY <1>2
  <1> HIDE DEF f, c, n
  <1>10. \A i \in DOMAIN c : i = n + 1 \/ i \in DOMAIN chan
    BY <1>7
  <1>11. \A i, j \in DOMAIN c : i < j => c[i].seq < c[j].seq
    <2> TAKE i, j \in DOMAIN c
    <2> HAVE i < j
    <2>1. i \in DOMAIN chan
      BY <1>7
    <2>2. CASE j = n + 1
      BY <1>7, <1>8, <2>1, <2>2
    <2>3. CASE j \in DOMAIN chan
      BY <1>1, <1>7, <2>1, <2>3 DEF LineOfFrames, ChannelAscends
    <2> QED
      BY <1>10, <2>2, <2>3
  <1>12. ASSUME NEW i \in DOMAIN c
         PROVE  /\ mark.seq < c[i].seq /\ (\A j \in DOMAIN history : history[j].seq < c[i].seq)
                /\ Diffing => tick["pump"].frame.seq < c[i].seq
                /\ c[i].seq < next_seq
    <2>1. CASE i = n + 1
      BY <1>7, <1>8, <2>1
    <2>2. CASE i \in DOMAIN chan
      BY <1>1, <1>7, <2>2 DEF LineOfFrames, ChannelAscends, Ahead, Done
    <2> QED
      BY <1>10, <2>1, <2>2
  <1>13. ChannelAscends'
    BY <1>2, <1>3, <1>9, <1>11, <1>12 DEF ChannelAscends, Ahead, Done, Diffing
  <1> QED
    BY <1>4, <1>5, <1>13 DEF LineOfFrames

(* The pump takes the next frame and compares it with the grid.             *)
LEMMA PumpDiffed ==
    ASSUME VisionInv, PumpInv, ~primed, PumpDiffs
    PROVE  WatchTypes' /\ PrimeRests' /\ LineOfFrames' /\ GridIsLast' /\ MarkIsCovered'
  <1> USE DEF frameRingVars, tickVars, watcherVars, ghostVars
  <1>1. WatchTypes /\ PrimeRests /\ LineOfFrames /\ GridIsLast /\ MarkIsCovered
    BY DEF PumpInv
  <1> DEFINE f == Head(chan)
             d == IF Seeds(f) THEN {} ELSE Differ(grid, f.pic)
             c == Tail(chan)
  <1>2. /\ chan # <<>> /\ chan' = c /\ tick["pump"] = NotTicking /\ grid' = f.pic
        /\ tick' = [tick EXCEPT !["pump"] = [pc |-> "diffed", frame |-> f, tiles |-> d]]
        /\ seeded' = IF Seeds(f) THEN f.seq ELSE seeded
        /\ UNCHANGED <<slots, next_seq, prod, history, last_frame, mark, event>>
    BY DEF PumpDiffs, Diff
  <1>3. chan \in Seq(AnyFrame) /\ tick \in [Tickers -> Ticks]
    BY DEF VisionInv, TickInv, TickTypes, Ticks
  <1>4. /\ f = chan[1] /\ 1 \in DOMAIN chan /\ f \in AnyFrame
        /\ \A i \in DOMAIN c : c[i] = chan[i + 1] /\ i + 1 \in DOMAIN chan /\ i \in Nat /\ 1 < i + 1
    BY <1>2, <1>3
  <1> HIDE DEF d, c, f
  <1>5. /\ tick'["pump"].pc = "diffed" /\ tick'["pump"].frame = f /\ tick'["pump"].tiles = d
        /\ tick'["prime"] = tick["prime"]
    BY <1>2, <1>3 DEF Tickers
  <1>6. tick["pump"].pc = "idle"
    BY <1>2 DEF NotTicking
  <1>7. /\ mark.seq < f.seq /\ (\A i \in DOMAIN history : history[i].seq < f.seq)
        /\ f.seq < next_seq
        /\ prod["capture"].pc # "idle" => f.seq < prod["capture"].frame.seq
    BY <1>1, <1>4 DEF LineOfFrames, ChannelAscends, Ahead, Done
  <1>8. WatchTypes' /\ PrimeRests' /\ GridIsLast' /\ HistoryAscends' /\ PumpIsAhead'
    BY <1>1, <1>2, <1>5, <1>7 DEF WatchTypes, PrimeRests, GridIsLast, Diffing, LineOfFrames, HistoryAscends,
       PumpIsAhead, Done
  <1>9. CaptureIsAhead'
    BY <1>1, <1>2, <1>5, <1>7 DEF LineOfFrames, CaptureIsAhead, Ahead, Done, Diffing
  <1>10. ASSUME NEW i \in DOMAIN c
         PROVE  /\ mark.seq < c[i].seq /\ (\A j \in DOMAIN history : history[j].seq < c[i].seq)
                /\ f.seq < c[i].seq /\ c[i].seq < next_seq
                /\ prod["capture"].pc # "idle" => c[i].seq < prod["capture"].frame.seq
                /\ \A j \in DOMAIN c : i < j => c[i].seq < c[j].seq
    <2>1. /\ i + 1 \in DOMAIN chan /\ c[i] = chan[i + 1] /\ 1 < i + 1
          /\ \A j \in DOMAIN c : i < j => i + 1 < j + 1 /\ j + 1 \in DOMAIN chan /\ c[j] = chan[j + 1]
      BY <1>4
    <2>2. \A j, k \in DOMAIN chan : j < k => chan[j].seq < chan[k].seq
      BY <1>1 DEF LineOfFrames, ChannelAscends
    <2>3. \A j \in DOMAIN c : i < j => c[i].seq < c[j].seq
      BY <2>1, <2>2
    <2>4. f.seq < c[i].seq
      BY <1>4, <2>1, <2>2
    <2>5. /\ mark.seq < chan[i + 1].seq /\ (\A j \in DOMAIN history : history[j].seq < chan[i + 1].seq)
          /\ chan[i + 1].seq < next_seq
          /\ prod["capture"].pc # "idle" => chan[i + 1].seq < prod["capture"].frame.seq
      BY <1>1, <2>1 DEF LineOfFrames, ChannelAscends, Ahead, Done
    <2> QED
      BY <2>1, <2>3, <2>4, <2>5
  <1>11. ChannelAscends'
    BY <1>2, <1>5, <1>10 DEF ChannelAscends, Ahead, Done, Diffing
  <1>12. MarkIsCovered'
    <2> SUFFICES ASSUME \E i \in DOMAIN history : history[i].seq = mark.seq, mark.seq >= seeded'
                 PROVE  Differ(mark.pic, f.pic) \subseteq changed_since(mark.seq) \cup d
      BY <1>2, <1>5 DEF MarkIsCovered, changed_since, Pending
    <2>1. f.seq \in Nat /\ mark.seq \in Nat
      BY <1>1, <1>4, Numbers DEF AnyFrame
    <2>2. ~Seeds(f) /\ seeded' = seeded
      BY <1>2, <1>7, <2>1
    <2>3. Differ(mark.pic, grid) \subseteq changed_since(mark.seq)
      BY <1>1, <1>6, <2>2 DEF MarkIsCovered, Pending
    <2>4. d = Differ(grid, f.pic)
      BY <2>2 DEF d
    <2>5. Differ(mark.pic, f.pic) \subseteq Differ(mark.pic, grid) \cup Differ(grid, f.pic)
      BY DEF Differ
    <2> QED
      BY <2>3, <2>4, <2>5
  <1> QED
    BY <1>8, <1>9, <1>11, <1>12 DEF LineOfFrames

(* What is remembered of the changes once there is one more.                *)
LEMMA Remembered ==
    ASSUME NEW g \in Seq(Entries), NEW e \in Entries
    PROVE  /\ Remember(Append(g, e)) \in Seq(Entries)
           /\ \E o \in {0, 1} :
                  /\ DOMAIN Remember(Append(g, e)) = 1..(Len(g) + 1 - o)
                  /\ \A i \in 1..(Len(g) + 1 - o) :
                         Remember(Append(g, e))[i] = IF i + o = Len(g) + 1 THEN e ELSE g[i + o]
  <1> DEFINE h == Append(g, e)
             n == Len(g)
  <1>1. n \in Nat /\ DOMAIN g = 1..n
    OBVIOUS
  <1>2. h \in Seq(Entries) /\ Len(h) = n + 1 /\ DOMAIN h = 1..(n + 1)
    OBVIOUS
  <1>3. \A i \in 1..(n + 1) : h[i] = IF i = n + 1 THEN e ELSE g[i]
    BY <1>1
  <1>4. h # <<>>
    BY <1>1, <1>2
  <1> HIDE DEF h, n
  <1>5. /\ Tail(h) \in Seq(Entries) /\ DOMAIN Tail(h) = 1..n
        /\ \A i \in 1..n : Tail(h)[i] = h[i + 1]
    BY <1>1, <1>2, <1>4
  <1>6. \A i \in 1..n : i + 1 \in 1..(n + 1)
    BY <1>1
  <1>7. CASE Remember(h) = h
    <2>1. n + 1 - 0 = n + 1 /\ \A i \in 1..(n + 1) : i + 0 = i
      BY <1>1, SMTT(30)
    <2> QED
      BY <1>2, <1>3, <1>7, <2>1 DEF h, n
  <1>8. CASE Remember(h) = Tail(h)
    <2>1. n + 1 - 1 = n
      BY <1>1
    <2>2. \A i \in 1..n : Tail(h)[i] = IF i + 1 = n + 1 THEN e ELSE g[i + 1]
      <3> TAKE i \in 1..n
      <3>1. Tail(h)[i] = h[i + 1] /\ i + 1 \in 1..(n + 1)
        BY <1>5, <1>6
      <3> QED
        BY <1>3, <3>1
    <2> QED
      BY <1>5, <1>8, <2>1, <2>2, Zenon DEF h, n
  <1> QED
    BY <1>7, <1>8 DEF Remember

(* The pump remembers the changes of its frame.                             *)
LEMMA PumpPushed ==
    ASSUME VisionInv, PumpInv, ~primed, PushChanges("pump")
    PROVE  WatchTypes' /\ PrimeRests' /\ LineOfFrames' /\ GridIsLast' /\ MarkIsCovered'
  <1> USE DEF frameRingVars, watcherVars, ghostVars
  <1>1. WatchTypes /\ PrimeRests /\ LineOfFrames /\ GridIsLast /\ MarkIsCovered
    BY DEF PumpInv
  <1> DEFINE f == tick["pump"].frame
             d == tick["pump"].tiles
             e == [seq |-> f.seq, tiles |-> d]
             g == Remember(Append(history, e))
             n == Len(history)
  <1>2. /\ tick["pump"].pc = "diffed" /\ history' = g
        /\ tick' = [tick EXCEPT !["pump"].pc = "pushed"]
        /\ UNCHANGED <<slots, next_seq, prod, chan, grid, last_frame, seeded, mark, event>>
    BY DEF PushChanges
  <1>3. tick["pump"] \in Ticks /\ tick \in [Tickers -> Ticks]
    BY DEF VisionInv, TickInv, TickTypes, Ticks, Tickers
  <1>4. /\ tick'["pump"].pc = "pushed" /\ tick'["pump"].frame = f /\ tick'["prime"] = tick["prime"]
    BY <1>2, <1>3 DEF Ticks, Tickers
  <1>5. e \in Entries /\ e.seq = f.seq /\ e.tiles = d /\ f.seq \in Nat
    BY <1>3 DEF Entries, Ticks, AnyFrame
  <1>6. /\ mark.seq < f.seq /\ (\A i \in DOMAIN history : history[i].seq < f.seq)
        /\ HistoryAscends /\ ChannelAscends /\ CaptureIsAhead /\ Diffing
    BY <1>1, <1>2 DEF LineOfFrames, PumpIsAhead, Done, Diffing
  <1>7. n \in Nat /\ DOMAIN history = 1..n /\ history \in Seq(Entries)
    BY <1>1 DEF WatchTypes
  <1>8. mark.seq \in Nat /\ \A i \in DOMAIN history : history[i].seq \in Nat
    BY <1>1, Numbers
  <1> HIDE DEF e, g, n, f, d
  <1>9. g \in Seq(Entries)
    BY <1>5, <1>7, Remembered DEF g
  <1>10. PICK o \in {0, 1} : /\ DOMAIN g = 1..(n + 1 - o)
                             /\ \A i \in 1..(n + 1 - o) : g[i] = IF i + o = n + 1 THEN e ELSE history[i + o]
    BY <1>5, <1>7, Remembered DEF g, n
  <1>11. ASSUME NEW i \in DOMAIN g
         PROVE  i \in Nat /\ \/ i + o = n + 1 /\ g[i] = e
                             \/ i + o \in DOMAIN history /\ g[i] = history[i + o]
    BY <1>7, <1>10
  <1>12. \A i \in DOMAIN g : g[i].seq <= f.seq
    BY <1>5, <1>6, <1>8, <1>11
  <1>13. WatchTypes' /\ PrimeRests' /\ GridIsLast'
    BY <1>1, <1>2, <1>4, <1>6, <1>9 DEF WatchTypes, PrimeRests, GridIsLast, Diffing, f
  <1>14. HistoryAscends'
    <2>1. ASSUME NEW i \in DOMAIN g, NEW j \in DOMAIN g, i < j
          PROVE  g[i].seq < g[j].seq
      <3>1. i + o \in DOMAIN history /\ g[i] = history[i + o] /\ i + o < j + o
        BY <1>7, <1>10, <2>1
      <3>2. CASE j + o = n + 1
        BY <1>5, <1>6, <1>11, <1>7, <3>1, <3>2
      <3>3. CASE j + o \in DOMAIN history /\ g[j] = history[j + o]
        BY <1>6, <3>1, <3>3 DEF HistoryAscends
      <3> QED
        BY <1>11, <3>2, <3>3
    <2> QED
      BY <1>2, <2>1 DEF HistoryAscends
  <1>15. \A k \in Nat : Ahead(k) => Ahead(k)'
    <2> TAKE k \in Nat
    <2> HAVE Ahead(k)
    <2>1. mark.seq < k /\ f.seq < k
      BY <1>6 DEF Ahead, Done, f
    <2>2. \A i \in DOMAIN g : g[i].seq < k
      <3> TAKE i \in DOMAIN g
      <3>1. g[i] \in Entries
        BY <1>9
      <3>2. g[i].seq \in Nat
        BY <3>1 DEF Entries
      <3> QED
        BY <1>5, <1>12, <2>1, <3>2
    <2> QED
      BY <1>2, <1>4, <2>1, <2>2 DEF Ahead, Done, Diffing
  <1>16. ChannelAscends'
    <2>1. \A i \in DOMAIN chan : Ahead(chan[i].seq) /\ chan[i].seq \in Nat
      BY <1>1, <1>6, Numbers DEF ChannelAscends
    <2> HIDE DEF Ahead
    <2>2. \A i \in DOMAIN chan : (\A k \in Nat : k = chan[i].seq => Ahead(k)')
      BY <1>15, <2>1
    <2>3. ASSUME NEW k \in Nat, Ahead(k)'
          PROVE  /\ mark.seq < k /\ f.seq < k
                 /\ \A i \in DOMAIN g : g[i].seq < k
      BY <1>2, <1>4, <2>3 DEF Ahead, Done, Diffing
    <2>4. \A i \in DOMAIN chan : /\ mark.seq < chan[i].seq /\ f.seq < chan[i].seq
                                 /\ \A j \in DOMAIN g : g[j].seq < chan[i].seq
      BY <2>1, <2>2, <2>3
    <2> QED
      BY <1>2, <1>4, <1>6, <2>4 DEF ChannelAscends, Ahead, Done, Diffing
  <1>17. CaptureIsAhead'
    <2>1. next_seq \in Nat /\ prod["capture"].frame.seq \in Nat
      BY <1>1, Numbers
    <2> DEFINE a == next_seq
               b == prod["capture"].frame.seq
    <2>2. Ahead(a) /\ (prod["capture"].pc # "idle" => Ahead(b) /\ b < a)
      BY <1>6 DEF CaptureIsAhead
    <2>3. ASSUME NEW k \in Nat, Ahead(k)
          PROVE  /\ mark.seq < k /\ f.seq < k
                 /\ \A i \in DOMAIN g : g[i].seq < k
      <3>1. Ahead(k)'
        BY <1>15, <2>3
      <3> QED
        BY <1>2, <1>4, <3>1 DEF Ahead, Done, Diffing
    <2>4. /\ mark.seq < a /\ f.seq < a /\ \A i \in DOMAIN g : g[i].seq < a
      BY <2>1, <2>2, <2>3
    <2>5. prod["capture"].pc # "idle" => /\ mark.seq < b /\ f.seq < b /\ \A i \in DOMAIN g : g[i].seq < b
                                         /\ b < a
      BY <2>1, <2>2, <2>3
    <2> QED
      BY <1>2, <1>4, <2>4, <2>5 DEF CaptureIsAhead, Ahead, Done, Diffing
  <1>18. PumpIsAhead'
    BY <1>2, <1>4, <1>6 DEF PumpIsAhead, Diffing
  <1>19. MarkIsCovered'
    <2> SUFFICES ASSUME NEW m \in DOMAIN g, g[m].seq = mark.seq, mark.seq >= seeded
                 PROVE  Differ(mark.pic, grid) \subseteq changed_since(mark.seq)'
      BY <1>2 DEF MarkIsCovered
    <2>1. m + o \in DOMAIN history /\ g[m] = history[m + o] /\ m \in Nat /\ m >= 1
      BY <1>5, <1>6, <1>8, <1>10, <1>11
    <2>2. Differ(mark.pic, grid) \subseteq changed_since(mark.seq) \cup d
      BY <1>1, <1>2, <2>1 DEF MarkIsCovered, Pending, d
    <2> DEFINE later == UNION {g[i].tiles : i \in {j \in DOMAIN g : g[j].seq > mark.seq}}
    <2>3. changed_since(mark.seq)' = later
      BY <1>2 DEF changed_since
    <2>4. d \subseteq later
      <3>1. n + 1 - o \in DOMAIN g /\ n + 1 - o + o = n + 1
        BY <1>7, <1>10, <2>1
      <3>2. g[n + 1 - o] = e
        BY <1>10, <3>1
      <3>3. g[n + 1 - o].seq > mark.seq /\ g[n + 1 - o].tiles = d
        BY <1>5, <1>6, <1>8, <3>2
      <3> QED
        BY <3>1, <3>3
    <2>5. ASSUME NEW j \in DOMAIN history, history[j].seq > mark.seq
          PROVE  history[j].tiles \subseteq later
      <3>1. m + o < j
        <4>1. history[m + o].seq = mark.seq
          BY <2>1
        <4>2. ~(j < m + o)
          BY <1>6, <1>8, <2>1, <2>5, <4>1 DEF HistoryAscends
        <4>3. j # m + o
          BY <1>8, <2>5, <4>1
        <4> QED
          BY <1>7, <2>1, <4>2, <4>3
      <3>2. j - o \in DOMAIN g /\ j - o + o = j /\ j # n + 1
        BY <1>7, <1>10, <2>1, <3>1, SMTT(30)
      <3>3. g[j - o] = history[j]
        BY <1>10, <3>2
      <3> QED
        BY <2>5, <3>2, <3>3
    <2>6. changed_since(mark.seq) \subseteq later
      BY <2>5 DEF changed_since
    <2> QED
      BY <2>2, <2>3, <2>4, <2>6
  <1> QED
    BY <1>13, <1>14, <1>16, <1>17, <1>18, <1>19 DEF LineOfFrames

(* The frame becomes the last one.                                          *)
LEMMA PumpSet ==
    ASSUME VisionInv, PumpInv, ~primed, SetLastFrame("pump")
    PROVE  WatchTypes' /\ PrimeRests' /\ LineOfFrames' /\ GridIsLast' /\ MarkIsCovered'
  <1> USE DEF frameRingVars, watcherVars, ghostVars
  <1>1. WatchTypes /\ PrimeRests /\ LineOfFrames /\ GridIsLast /\ MarkIsCovered
    BY DEF PumpInv
  <1>2. tick["pump"] \in Ticks /\ tick \in [Tickers -> Ticks]
    BY DEF VisionInv, TickInv, TickTypes, Ticks, Tickers
  <1>3. /\ tick["pump"].pc = "pushed" /\ last_frame' = tick["pump"].frame
        /\ tick' = [tick EXCEPT !["pump"] = [tick["pump"] EXCEPT !.pc = "ticked"]]
        /\ UNCHANGED <<slots, next_seq, prod, chan, grid, history, seeded, mark, event>>
    BY <1>2 DEF SetLastFrame, Tickers
  <1>4. /\ tick'["pump"].pc = "ticked" /\ tick'["pump"].frame = tick["pump"].frame
        /\ tick'["prime"] = tick["prime"]
    BY <1>2, <1>3 DEF Ticks, Tickers
  <1>5. WatchTypes' /\ PrimeRests' /\ GridIsLast' /\ MarkIsCovered'
    BY <1>1, <1>3, <1>4 DEF WatchTypes, PrimeRests, GridIsLast, MarkIsCovered, Diffing, changed_since, Pending
  <1>6. LineOfFrames'
    BY <1>1, <1>3, <1>4 DEF LineOfFrames, HistoryAscends, ChannelAscends, CaptureIsAhead, PumpIsAhead, Ahead,
       Done, Diffing
  <1> QED
    BY <1>5, <1>6

(* The pump is done with its frame, whether or not it is announced and      *)
(* remembered.                                                              *)
LEMMA PumpEnds ==
    ASSUME VisionInv, PumpInv, ~primed, tick["pump"].pc = "ticked", tick' = [tick EXCEPT !["pump"] = NotTicking],
           UNCHANGED <<next_seq, prod, chan, grid, history, last_frame, seeded>>, event' \in Events,
           \/ mark' = mark
           \/ /\ mark' = event' /\ event'.seq = tick["pump"].frame.seq
              /\ event'.pic = tick["pump"].frame.pic
    PROVE  WatchTypes' /\ PrimeRests' /\ LineOfFrames' /\ GridIsLast' /\ MarkIsCovered'
  <1>1. WatchTypes /\ PrimeRests /\ LineOfFrames /\ GridIsLast /\ MarkIsCovered
    BY DEF PumpInv
  <1>2. tick \in [Tickers -> Ticks]
    BY DEF VisionInv, TickInv, TickTypes, Ticks, Tickers
  <1>3. tick'["pump"] = NotTicking /\ tick'["pump"].pc = "idle" /\ tick'["prime"] = tick["prime"]
    BY <1>2 DEF Tickers, NotTicking
  <1>4. mark'.seq = mark.seq \/ mark'.seq = tick["pump"].frame.seq
    OBVIOUS
  <1>5. WatchTypes' /\ PrimeRests' /\ GridIsLast'
    BY <1>1, <1>3 DEF WatchTypes, PrimeRests, GridIsLast, Diffing
  <1>6. LineOfFrames'
    BY <1>1, <1>3, <1>4 DEF LineOfFrames, HistoryAscends, ChannelAscends, CaptureIsAhead, PumpIsAhead, Ahead,
       Done, Diffing
  <1>7. MarkIsCovered'
    <2>1. CASE mark' = mark
      BY <1>1, <1>3, <2>1 DEF MarkIsCovered, changed_since, Pending
    <2>2. CASE mark' = event' /\ event'.pic = tick["pump"].frame.pic
      <3>1. mark'.pic = grid'
        BY <1>1, <2>2 DEF GridIsLast, Diffing
      <3>2. Differ(mark.pic, grid)' = {}
        BY <3>1 DEF Differ
      <3> QED
        BY <3>2 DEF MarkIsCovered
    <2> QED
      BY <2>1, <2>2
  <1> QED
    BY <1>5, <1>6, <1>7

(* What the client has seen keeps its shape, screenshots or not.            *)
LEMMA WatchStep ==
    ASSUME VisionInv, WatchTypes, [VisionNext]_visionVars
    PROVE  WatchTypes'
  <1> USE DEF tickVars, watcherVars
  <1>1. ASSUME NEW t \in Tickers, PushChanges(t)
        PROVE  WatchTypes'
    <2> DEFINE e == [seq |-> tick[t].frame.seq, tiles |-> tick[t].tiles]
    <2>1. tick[t] \in Ticks
      BY DEF VisionInv, TickInv, TickTypes, Ticks
    <2>2. e \in Entries
      BY <2>1 DEF Entries, Ticks, AnyFrame
    <2>3. history' = Remember(Append(history, e)) /\ UNCHANGED <<event, mark>>
      BY <1>1 DEF PushChanges
    <2> HIDE DEF e
    <2> QED
      BY <2>2, <2>3, Remembered DEF WatchTypes
  <1>2. CASE EmitFrame
    <2>1. tick["pump"] \in Ticks
      BY DEF VisionInv, TickInv, TickTypes, Ticks, Tickers
    <2>2. PICK i \in HandleFor(tick["pump"].frame.seq) :
             event' = [seq |-> tick["pump"].frame.seq, pic |-> tick["pump"].frame.pic,
                       tiles |-> tick["pump"].tiles, bytes |-> slots[i].bytes]
      BY <1>2 DEF EmitFrame
    <2>3. slots[i] \in SlotRecords
      BY DEF HandleFor, VisionInv, RingInv, RingTypes
    <2>4. /\ tick["pump"].frame.seq \in Nat /\ tick["pump"].frame.pic \in AnyPicture
          /\ tick["pump"].tiles \in SUBSET Tiles /\ slots[i].bytes \in Nat
      BY <2>1, <2>3 DEF Ticks, AnyFrame, SlotRecords
    <2>5. event' \in Events
      BY <2>2, <2>4 DEF Events
    <2> QED
      BY <1>2, <2>5 DEF EmitFrame, WatchTypes
  <1>3. CASE UNCHANGED <<history, event, mark>>
    BY <1>3 DEF WatchTypes
  <1> QED
    BY <1>1, <1>2, <1>3
       DEF VisionNext, visionVars, write, commit_seq, commit_refcnt, read, drop_guard, DecodeFails,
           CaptureFrame, CaptureSends, PrimeFrame, PumpDiffs, PrimeDiffs, Diff, SetLastFrame, RingLostSeq

LEMMA PumpStep ==
    ASSUME VisionInv, PumpInv, [VisionNext]_visionVars
    PROVE  PumpInv'
  <1> USE DEF frameRingVars, tickVars, watcherVars, ghostVars
  <1>1. WatchTypes'
    BY WatchStep DEF PumpInv
  <1> SUFFICES ASSUME ~primed'
               PROVE  WatchTypes' /\ PrimeRests' /\ LineOfFrames' /\ GridIsLast' /\ MarkIsCovered'
    BY <1>1, SMTT(30) DEF PumpInv
  <1>2. ~primed
    BY DEF VisionNext, visionVars, write, commit_seq, commit_refcnt, read, drop_guard, DecodeFails, CaptureFrame,
       CaptureSends, PrimeFrame, PumpDiffs, PrimeDiffs, Diff, PushChanges, SetLastFrame, EmitFrame, RingLostSeq
  <1>3. PrimeRests /\ prod["prime"].pc = "idle" /\ tick["prime"].pc = "idle"
    BY <1>2 DEF PumpInv, PrimeRests, NotTicking
  <1>4. /\ prod \in [Producers -> [pc : {"idle", "acquired", "written", "published", "committed"},
                                   slot : Nat, frame : AnyFrame]]
        /\ next_seq \in Nat
    BY DEF VisionInv, RingInv, RingTypes
  <1>5. ASSUME NEW p \in Producers, write(p) \/ commit_seq(p) \/ commit_refcnt(p)
        PROVE  WatchTypes' /\ PrimeRests' /\ LineOfFrames' /\ GridIsLast' /\ MarkIsCovered'
    <2>1. p = "capture"
      BY <1>3, <1>5 DEF write, commit_seq, commit_refcnt, Producers
    <2>2. /\ prod["capture"].pc # "idle"
          /\ \E pc \in {"written", "published", "committed"} : prod' = [prod EXCEPT !["capture"].pc = pc]
          /\ UNCHANGED <<next_seq, chan, tick, grid, history, last_frame, seeded, mark, event>>
      BY <1>5, <2>1 DEF write, commit_seq, commit_refcnt
    <2>3. prod'["prime"] = prod["prime"] /\ prod'["capture"].frame = prod["capture"].frame
      BY <1>4, <2>2 DEF Producers
    <2> QED
      BY <1>2, <1>3, <1>4, <2>2, <2>3, CaptureMoves
  <1>6. ASSUME NEW p \in Producers, DecodeFails(p)
        PROVE  WatchTypes' /\ PrimeRests' /\ LineOfFrames' /\ GridIsLast' /\ MarkIsCovered'
    <2>1. p = "capture"
      BY <1>3, <1>6 DEF DecodeFails, Producers
    <2>2. /\ prod' = [prod EXCEPT !["capture"] = NotWriting]
          /\ UNCHANGED <<next_seq, chan, tick, grid, history, last_frame, seeded, mark, event>>
      BY <1>6, <2>1 DEF DecodeFails
    <2>3. prod'["prime"] = prod["prime"] /\ prod'["capture"].pc = "idle"
      BY <1>4, <2>2 DEF Producers, NotWriting
    <2> QED
      BY <1>2, <1>3, <1>4, <2>2, <2>3, CaptureMoves
  <1>7. CASE (\E r \in Readers : read(r) \/ drop_guard(r)) \/ UNCHANGED visionVars
    <2>1. UNCHANGED <<next_seq, prod, chan, tick, grid, history, last_frame, seeded, mark, event>>
      BY <1>7 DEF read, drop_guard, visionVars
    <2> QED
      BY <1>2, <1>3, <1>4, <2>1, CaptureMoves
  <1>8. CASE CaptureFrame
    <2>1. PICK pic \in Pictures : acquire_write("capture", pic)
      BY <1>8 DEF CaptureFrame
    <2>2. /\ prod' = [prod EXCEPT !["capture"] = [pc |-> "acquired", slot |-> Oldest,
                                                  frame |-> [seq |-> next_seq, pic |-> pic]]]
          /\ next_seq' = next_seq + 1
          /\ UNCHANGED <<chan, tick, grid, history, last_frame, seeded, mark, event>>
      BY <1>8, <2>1 DEF CaptureFrame, acquire_write
    <2>3. prod'["prime"] = prod["prime"] /\ prod'["capture"].frame.seq = next_seq
      BY <1>4, <2>2 DEF Producers
    <2>4. next_seq' \in Nat /\ next_seq < next_seq' /\ next_seq <= next_seq'
      BY <1>4, <2>2
    <2> QED
      BY <1>2, <1>3, <2>2, <2>3, <2>4, CaptureMoves
  <1>9. CASE PrimeFrame \/ PrimeDiffs
    BY <1>3, <1>9 DEF PrimeFrame, PrimeDiffs
  <1>10. ASSUME NEW t \in Tickers, PushChanges(t) \/ SetLastFrame(t)
         PROVE  WatchTypes' /\ PrimeRests' /\ LineOfFrames' /\ GridIsLast' /\ MarkIsCovered'
    <2>1. t = "pump"
      BY <1>3, <1>10 DEF PushChanges, SetLastFrame, Tickers
    <2> QED
      BY <1>2, <1>10, <2>1, PumpPushed, PumpSet
  <1>11. CASE EmitFrame
    <2>1. PICK i \in HandleFor(tick["pump"].frame.seq) :
             event' = [seq |-> tick["pump"].frame.seq, pic |-> tick["pump"].frame.pic,
                       tiles |-> tick["pump"].tiles, bytes |-> slots[i].bytes]
      BY <1>11 DEF EmitFrame
    <2>2. event' \in Events /\ event'.seq = tick["pump"].frame.seq /\ event'.pic = tick["pump"].frame.pic
      BY <1>1, <2>1 DEF WatchTypes
    <2> QED
      BY <1>2, <1>11, <2>2, PumpEnds DEF EmitFrame
  <1>12. CASE RingLostSeq
    BY <1>1, <1>2, <1>12, PumpEnds DEF RingLostSeq, WatchTypes
  <1> QED
    BY <1>2, <1>5, <1>6, <1>7, <1>8, <1>9, <1>10, <1>11, <1>12, CaptureSent, PumpDiffed DEF VisionNext

LEMMA PumpInitial ==
    ASSUME VisionInit
    PROVE  PumpInv
  <1>1. history = <<>> /\ DOMAIN history = {} /\ chan = <<>> /\ DOMAIN chan = {} /\ history \in Seq(Entries)
    BY DEF VisionInit
  <1>2. NoEvent \in Events
    BY DEF NoEvent, Events, AnyPicture
  <1>3. /\ prod["prime"].pc = "idle" /\ prod["capture"].pc = "idle"
        /\ tick["prime"] = NotTicking /\ tick["pump"] = NotTicking /\ tick["pump"].pc = "idle"
        /\ mark.seq = 0 /\ next_seq = 1 /\ last_frame.pic = grid
    BY DEF VisionInit, Producers, Tickers, NotWriting, NotTicking, NoEvent, NoFrame
  <1>4. WatchTypes
    BY <1>1, <1>2 DEF VisionInit, WatchTypes
  <1>5. PrimeRests /\ GridIsLast /\ MarkIsCovered
    BY <1>1, <1>3 DEF PrimeRests, GridIsLast, MarkIsCovered, Diffing
  <1>6. LineOfFrames
    BY <1>1, <1>3 DEF LineOfFrames, HistoryAscends, ChannelAscends, CaptureIsAhead, PumpIsAhead, Ahead, Done,
       Diffing
  <1> QED
    BY <1>4, <1>5, <1>6 DEF PumpInv

(* The inductive invariant behind the second half of NoChangeIsMissed, for  *)
(* any history, channel and pictures: frames pass through tick in the order *)
(* of their numbers, the grid is the last frame diffed, and the changes     *)
(* kept since the frame the client remembers, with those of the frame being *)
(* diffed, cover what differs between the two.                              *)
THEOREM PumpInvariance == VisionSpec => []PumpInv
  <1>1. ASSUME VisionInv, PumpInv, [VisionNext]_visionVars
        PROVE  PumpInv'
    BY <1>1, PumpStep
  <1> QED
    BY <1>1, PumpInitial, VisionInvariance, PTL DEF VisionSpec

----------------------------------------------------------------------------
(* The view: inductive invariant                                            *)

\* The capture task alone, with no guards and no frame lost: a frames were given slots
\* in turn, the last one slot c; a slot keeps the number of its frame until its turn
\* comes again.
OneWay == ~primed /\ ~starved /\ readsDone = 0
Acquired == next_seq - 1
Busy == prod["capture"].pc # "idle"
Place(a, c, i) ==
    LET n == a - c + i - (IF i > c THEN slot_count ELSE 0) IN IF n > 0 THEN n ELSE 0
TurnIs(c) ==
    /\ c < slot_count => Acquired >= c
    /\ Busy => prod["capture"].slot = c /\ prod["capture"].frame.seq = Acquired
    /\ \A i \in Slots :
           /\ slots[i].refcnt = IF Writing("capture") /\ i = c THEN 1 ELSE 0
           /\ slots[i].seq = IF prod["capture"].pc \in {"acquired", "written"} /\ i = c THEN 0
                             ELSE Place(Acquired, c, i)
RoundRobin == \E c \in Slots : TurnIs(c)

\* Every frame passes through: the one being diffed, those in the channel and the one
\* being written have consecutive numbers.
Under == Acquired - (IF Busy THEN 1 ELSE 0) - Len(chan)
AllPassOn ==
    /\ Under >= 0 /\ Len(chan) <= frames_cap
    /\ \A j \in DOMAIN chan : chan[j].seq = Under + j
    /\ Diffing => tick["pump"].frame.seq = Under

\* The client sees the last frame announced, and the next one is compared with it.
ViewIsLast ==
    /\ view = event.pic
    /\ Diffing => tick["pump"].tiles = IF event.pic.size # tick["pump"].frame.pic.size THEN {}
                                       ELSE Differ(event.pic, tick["pump"].frame.pic)
    /\ ~Diffing => grid = event.pic
NoGuards == \A r \in Readers : guard[r] = NoGuard
ViewInv == readsDone \in Nat /\ (OneWay => NoGuards /\ RoundRobin /\ AllPassOn /\ ViewIsLast)

----------------------------------------------------------------------------
(* The view: steps                                                          *)

LEMMA SlotNumbers ==
    /\ slot_count \in Nat /\ slot_count >= 1 /\ frames_cap \in Nat /\ slot_count >= frames_cap + 2
    /\ Slots \subseteq Nat /\ Slots = 1..slot_count
    /\ slot_count \in Slots /\ 1 \in Slots
  BY VisionAssumption DEF Slots

(* The next slot in turn is the oldest one.                                 *)
Turn(c) == IF c = slot_count THEN 1 ELSE c + 1

LEMMA PlaceIsNat ==
    ASSUME NEW a \in Nat, NEW c \in Slots, NEW i \in Slots
    PROVE  Place(a, c, i) \in Nat
  BY SlotNumbers DEF Place

LEMMA TurnIsOldest ==
    ASSUME NEW a \in Nat, NEW c \in Slots, c < slot_count => a >= c, NEW j \in Slots
    PROVE  /\ Turn(c) \in Slots
           /\ \/ Place(a, c, Turn(c)) < Place(a, c, j)
              \/ Place(a, c, Turn(c)) = Place(a, c, j) /\ Turn(c) <= j
  <1>1. CASE c = slot_count
    BY <1>1, SlotNumbers DEF Turn, Place
  <1>2. CASE c < slot_count
    BY <1>2, SlotNumbers DEF Turn, Place
  <1> QED
    BY <1>1, <1>2, SlotNumbers

LEMMA TurnKeepsPlaces ==
    ASSUME NEW a \in Nat, NEW c \in Slots, c < slot_count => a >= c
    PROVE  /\ Turn(c) < slot_count => a + 1 >= Turn(c)
           /\ \A i \in Slots : i # Turn(c) => Place(a + 1, Turn(c), i) = Place(a, c, i)
  <1>1. CASE c = slot_count
    BY <1>1, SlotNumbers DEF Turn, Place
  <1>2. CASE c < slot_count
    BY <1>2, SlotNumbers DEF Turn, Place
  <1> QED
    BY <1>1, <1>2, SlotNumbers

(* A frame that may still be in the channel or in the pump has its slot.    *)
LEMMA RecentHasSlot ==
    ASSUME NEW a \in Nat, NEW c \in Slots, NEW u \in Nat, u # 0, u <= a, a - u < slot_count
    PROVE  \E i \in Slots : Place(a, c, i) = u /\ (u < a => i # c)
  <1>1. CASE a - u < c
    <2>1. c - (a - u) \in Slots
      BY <1>1, SlotNumbers
    <2>2. Place(a, c, c - (a - u)) = u /\ (u < a => c - (a - u) # c)
      BY <1>1, SlotNumbers DEF Place
    <2> QED
      BY <2>1, <2>2
  <1>2. CASE ~(a - u < c)
    <2>1. c - (a - u) + slot_count \in Slots
      BY <1>2, SlotNumbers
    <2>2. Place(a, c, c - (a - u) + slot_count) = u /\ c - (a - u) + slot_count # c
      BY <1>2, SlotNumbers DEF Place
    <2> QED
      BY <2>1, <2>2
  <1> QED
    BY <1>1, <1>2

LEMMA OldestInTurn ==
    ASSUME RingTypes, NEW c \in Slots, TurnIs(c), ~Busy
    PROVE  Oldest = Turn(c) /\ Turn(c) \in Slots
  <1> DEFINE a == Acquired
             older(i, j) == slots[i].seq < slots[j].seq \/ (slots[i].seq = slots[j].seq /\ i <= j)
  <1>1. a \in Nat /\ (c < slot_count => a >= c)
    BY DEF Acquired, RingTypes, TurnIs
  <1>2. \A i \in Slots : slots[i].refcnt = 0 /\ slots[i].seq = Place(a, c, i)
    BY DEF TurnIs, Busy, Writing
  <1>3. Recyclable = Slots
    BY <1>2 DEF Recyclable
  <1> HIDE DEF a
  <1>4. Turn(c) \in Slots
    BY <1>1, TurnIsOldest
  <1>5. \A j \in Slots : older(Turn(c), j)
    BY <1>1, <1>2, <1>4, TurnIsOldest
  <1>6. ASSUME NEW i \in Slots, \A j \in Slots : older(i, j)
        PROVE  i = Turn(c)
    <2>1. older(i, Turn(c)) /\ older(Turn(c), i)
      BY <1>4, <1>5, <1>6
    <2>2. slots[i].seq \in Nat /\ slots[Turn(c)].seq \in Nat /\ i \in Nat /\ Turn(c) \in Nat
      BY <1>1, <1>2, <1>4, PlaceIsNat, SlotNumbers
    <2> QED
      BY <2>1, <2>2
  <1>7. Oldest \in Slots /\ \A j \in Slots : older(Oldest, j)
    BY <1>3, <1>4, <1>5 DEF Oldest
  <1> QED
    BY <1>4, <1>6, <1>7

LEMMA ViewFacts ==
    ASSUME VisionInv, PumpInv, ViewInv, OneWay
    PROVE  /\ NoGuards /\ RoundRobin /\ AllPassOn /\ ViewIsLast
           /\ WatchTypes /\ PrimeRests /\ GridIsLast
           /\ prod["prime"].pc = "idle" /\ tick["prime"].pc = "idle"
           /\ Acquired \in Nat /\ next_seq \in Nat /\ Acquired + 1 = next_seq /\ Len(chan) \in Nat
           /\ chan \in Seq(AnyFrame) /\ DOMAIN chan = 1..Len(chan) /\ Under \in Nat
           /\ prod \in [Producers -> [pc : {"idle", "acquired", "written", "published", "committed"},
                                      slot : Nat, frame : AnyFrame]]
           /\ slots \in [Slots -> SlotRecords]
           /\ tick \in [Tickers -> Ticks] /\ tick["pump"] \in Ticks
  <1>1. NoGuards /\ RoundRobin /\ AllPassOn /\ ViewIsLast
    BY DEF ViewInv
  <1>2. WatchTypes /\ PrimeRests /\ GridIsLast /\ prod["prime"].pc = "idle" /\ tick["prime"].pc = "idle"
    BY DEF PumpInv, OneWay, PrimeRests, NotTicking
  <1>3. Acquired \in Nat /\ next_seq \in Nat /\ Acquired + 1 = next_seq
    BY DEF VisionInv, RingInv, RingTypes, Acquired
  <1>4. chan \in Seq(AnyFrame) /\ DOMAIN chan = 1..Len(chan) /\ Len(chan) \in Nat
    BY DEF VisionInv, TickInv, TickTypes
  <1>5. Under \in Nat
    BY <1>1, <1>3, <1>4 DEF AllPassOn, Under
  <1>6. tick \in [Tickers -> Ticks] /\ tick["pump"] \in Ticks
    BY DEF VisionInv, TickInv, TickTypes, Ticks, Tickers
  <1>7. /\ prod \in [Producers -> [pc : {"idle", "acquired", "written", "published", "committed"},
                                   slot : Nat, frame : AnyFrame]]
        /\ slots \in [Slots -> SlotRecords]
    BY DEF VisionInv, RingInv, RingTypes
  <1> QED
    BY <1>1, <1>2, <1>3, <1>4, <1>5, <1>6, <1>7

(* The capture task takes the next slot in turn.                            *)
LEMMA ViewAcquires ==
    ASSUME VisionInv, PumpInv, ViewInv, OneWay, CaptureFrame
    PROVE  NoGuards' /\ RoundRobin' /\ AllPassOn' /\ ViewIsLast'
  <1> USE DEF tickVars, watcherVars
  <1>1. PICK c \in Slots : TurnIs(c)
    BY ViewFacts DEF RoundRobin
  <1>2. PICK pic \in Pictures : acquire_write("capture", pic)
    BY DEF CaptureFrame
  <1> DEFINE n == Turn(c)
             f == [seq |-> next_seq, pic |-> pic]
             a == Acquired
  <1>3. ~Busy /\ Oldest = n /\ n \in Slots
    BY <1>1, OldestInTurn DEF CaptureFrame, Busy, VisionInv, RingInv
  <1>4. /\ slots' = [slots EXCEPT ![n] = [seq |-> 0, refcnt |-> 1, bytes |-> slots[n].bytes]]
        /\ next_seq' = next_seq + 1
        /\ prod' = [prod EXCEPT !["capture"] = [pc |-> "acquired", slot |-> n, frame |-> f]]
        /\ UNCHANGED <<chan, tick, grid, guard, event, view>>
    BY <1>2, <1>3, ViewFacts DEF acquire_write, CaptureFrame
  <1>5. /\ a \in Nat /\ next_seq = a + 1 /\ Acquired' = a + 1
        /\ c < slot_count => a >= c
    BY <1>1, <1>4, ViewFacts DEF Acquired, TurnIs
  <1> HIDE DEF n, f, a
  <1>6. prod'["capture"].pc = "acquired" /\ prod'["capture"].slot = n /\ prod'["capture"].frame = f
    BY <1>4, ViewFacts DEF Producers
  <1>7. /\ slots'[n].seq = 0 /\ slots'[n].refcnt = 1
        /\ \A i \in Slots : i # n => slots'[i] = slots[i]
    BY <1>3, <1>4, ViewFacts
  <1>8. \A i \in Slots : slots[i].refcnt = 0 /\ slots[i].seq = Place(a, c, i)
    BY <1>1, <1>3 DEF TurnIs, Busy, Writing, a
  <1>9. /\ n < slot_count => a + 1 >= n
        /\ \A i \in Slots : i # n => Place(a + 1, n, i) = Place(a, c, i)
    BY <1>5, TurnKeepsPlaces DEF n
  <1>10. f.seq = a + 1
    BY <1>5 DEF f
  <1>11. TurnIs(n)'
    <2>1. \A i \in Slots : /\ slots'[i].refcnt = IF i = n THEN 1 ELSE 0
                           /\ slots'[i].seq = IF i = n THEN 0 ELSE Place(a + 1, n, i)
      BY <1>7, <1>8, <1>9
    <2>2. /\ n < slot_count => Acquired' >= n
          /\ prod'["capture"].slot = n /\ prod'["capture"].frame.seq = Acquired'
      BY <1>5, <1>6, <1>9, <1>10
    <2> QED
      BY <1>5, <1>6, <2>1, <2>2 DEF TurnIs, Writing, Busy
  <1>12. RoundRobin'
    BY <1>3, <1>11 DEF RoundRobin
  <1>13. Under' = Under
    BY <1>3, <1>4, <1>5, <1>6, ViewFacts DEF Under, Busy, a
  <1>14. AllPassOn'
    BY <1>4, <1>13, ViewFacts DEF AllPassOn, Diffing
  <1>15. ViewIsLast' /\ NoGuards'
    BY <1>4, ViewFacts DEF ViewIsLast, Diffing, NoGuards
  <1> QED
    BY <1>12, <1>14, <1>15

(* It writes its slot and publishes it.                                     *)
LEMMA ViewWrites ==
    ASSUME VisionInv, PumpInv, ViewInv, OneWay, write("capture") \/ commit_seq("capture") \/ commit_refcnt("capture")
    PROVE  NoGuards' /\ RoundRobin' /\ AllPassOn' /\ ViewIsLast'
  <1> USE DEF tickVars, watcherVars
  <1>1. PICK c \in Slots : TurnIs(c)
    BY ViewFacts DEF RoundRobin
  <1>2. Busy /\ prod["capture"].slot = c /\ prod["capture"].frame.seq = Acquired
    BY <1>1 DEF TurnIs, Busy, write, commit_seq, commit_refcnt
  <1>3. UNCHANGED <<next_seq, chan, tick, grid, guard, event, view>>
    BY DEF write, commit_seq, commit_refcnt
  <1>4. /\ prod'["capture"].slot = prod["capture"].slot /\ prod'["capture"].frame = prod["capture"].frame
        /\ \/ write("capture") /\ prod'["capture"].pc = "written"
           \/ commit_seq("capture") /\ prod'["capture"].pc = "published"
           \/ commit_refcnt("capture") /\ prod'["capture"].pc = "committed"
    BY ViewFacts DEF write, commit_seq, commit_refcnt, Producers
  <1> DEFINE a == Acquired
  <1>5. a \in Nat /\ Acquired' = a /\ Place(a, c, c) = a
    BY <1>3, ViewFacts, SlotNumbers DEF Acquired, Place
  <1>6. ASSUME NEW i \in Slots
        PROVE  /\ slots[i].refcnt = IF Writing("capture") /\ i = c THEN 1 ELSE 0
               /\ slots[i].seq = IF prod["capture"].pc \in {"acquired", "written"} /\ i = c THEN 0
                                 ELSE Place(a, c, i)
    BY <1>1 DEF TurnIs
  <1> HIDE DEF a
  <1>7. ASSUME NEW i \in Slots
        PROVE  /\ slots'[i].refcnt = IF Writing("capture")' /\ i = c THEN 1 ELSE 0
               /\ slots'[i].seq = IF prod'["capture"].pc \in {"acquired", "written"} /\ i = c THEN 0
                                  ELSE Place(a, c, i)
    <2>1. slots[i] \in SlotRecords
      BY ViewFacts
    <2>2. CASE write("capture") /\ prod'["capture"].pc = "written"
      <3>1. slots' = [slots EXCEPT ![c].bytes = prod["capture"].frame.seq] /\ prod["capture"].pc = "acquired"
        BY <1>2, <2>2 DEF write
      <3>2. slots'[i].refcnt = slots[i].refcnt /\ slots'[i].seq = slots[i].seq
        BY <2>1, <3>1, ViewFacts DEF SlotRecords
      <3> QED
        BY <1>6, <2>2, <3>1, <3>2 DEF Writing
    <2>3. CASE commit_seq("capture") /\ prod'["capture"].pc = "published"
      <3>1. slots' = [slots EXCEPT ![c].seq = a] /\ prod["capture"].pc = "written"
        BY <1>2, <2>3 DEF commit_seq, a
      <3>2. slots'[i].refcnt = slots[i].refcnt /\ slots'[i].seq = IF i = c THEN a ELSE slots[i].seq
        BY <2>1, <3>1, ViewFacts DEF SlotRecords
      <3> QED
        BY <1>5, <1>6, <2>3, <3>1, <3>2 DEF Writing
    <2>4. CASE commit_refcnt("capture") /\ prod'["capture"].pc = "committed"
      <3>1. slots' = [slots EXCEPT ![c].refcnt = 0] /\ prod["capture"].pc = "published"
        BY <1>2, <2>4 DEF commit_refcnt
      <3>2. slots'[i].refcnt = (IF i = c THEN 0 ELSE slots[i].refcnt) /\ slots'[i].seq = slots[i].seq
        BY <2>1, <3>1, ViewFacts DEF SlotRecords
      <3> QED
        BY <1>6, <2>4, <3>1, <3>2 DEF Writing
    <2> QED
      BY <1>4, <2>2, <2>3, <2>4
  <1>8. TurnIs(c)'
    <2>1. c < slot_count => Acquired' >= c
      BY <1>1, <1>5 DEF TurnIs, a
    <2>2. prod'["capture"].slot = c /\ prod'["capture"].frame.seq = Acquired'
      BY <1>2, <1>4, <1>5 DEF a
    <2> QED
      BY <1>5, <1>7, <2>1, <2>2 DEF TurnIs
  <1>9. RoundRobin'
    BY <1>8 DEF RoundRobin
  <1>10. Busy' /\ Under' = Under
    BY <1>2, <1>3, <1>4 DEF Under, Busy, Acquired
  <1>11. AllPassOn'
    BY <1>3, <1>10, ViewFacts DEF AllPassOn, Diffing
  <1>12. ViewIsLast' /\ NoGuards'
    BY <1>3, ViewFacts DEF ViewIsLast, Diffing, NoGuards
  <1> QED
    BY <1>9, <1>11, <1>12

(* A step that leaves the ring alone, and the writing of a frame.           *)
LEMMA TurnStays ==
    ASSUME RoundRobin, UNCHANGED <<slots, next_seq>>,
           \/ prod' = prod
           \/ prod["capture"].pc = "committed" /\ prod'["capture"].pc = "idle"
    PROVE  RoundRobin'
  <1>1. PICK c \in Slots : TurnIs(c)
    BY DEF RoundRobin
  <1>2. TurnIs(c)'
    BY <1>1 DEF TurnIs, Acquired, Busy, Writing
  <1> QED
    BY <1>2 DEF RoundRobin

(* It sends the frame.                                                      *)
LEMMA ViewSends ==
    ASSUME VisionInv, PumpInv, ViewInv, OneWay, CaptureSends
    PROVE  NoGuards' /\ RoundRobin' /\ AllPassOn' /\ ViewIsLast'
  <1> USE DEF tickVars, watcherVars, frameRingVars
  <1> DEFINE f == prod["capture"].frame
             n == Len(chan)
             c == Append(chan, f)
  <1>1. /\ prod["capture"].pc = "committed" /\ Len(chan) < frames_cap /\ chan' = c
        /\ prod' = [prod EXCEPT !["capture"] = NotWriting]
        /\ UNCHANGED <<slots, next_seq, tick, grid, guard, event, view>>
    BY DEF CaptureSends
  <1>2. prod'["capture"].pc = "idle"
    BY <1>1, ViewFacts DEF Producers, NotWriting
  <1>3. RoundRobin'
    BY <1>1, <1>2, TurnStays, ViewFacts
  <1>4. Busy /\ ~Busy' /\ f.seq = Acquired /\ Acquired' = Acquired
    BY <1>1, <1>2, ViewFacts DEF Busy, RoundRobin, TurnIs, Acquired
  <1>5. f \in AnyFrame
    BY ViewFacts DEF Producers
  <1> HIDE DEF f
  <1>6. /\ Len(c) = n + 1 /\ DOMAIN c = 1..(n + 1) /\ c[n + 1] = f
        /\ n \in Nat /\ DOMAIN chan = 1..n /\ \A i \in DOMAIN chan : c[i] = chan[i]
    BY <1>5, ViewFacts
  <1> HIDE DEF c, n
  <1>7. Under' = Under
    BY <1>1, <1>4, <1>6, ViewFacts DEF Under, n
  <1>8. f.seq = Under + n + 1
    BY <1>4, <1>6, ViewFacts DEF Under, n
  <1>9. \A i \in DOMAIN c : c[i].seq = Under + i
    <2> TAKE i \in DOMAIN c
    <2>1. CASE i = n + 1
      BY <1>6, <1>8, <2>1, ViewFacts
    <2>2. CASE i \in DOMAIN chan
      BY <1>6, <2>2, ViewFacts DEF AllPassOn
    <2> QED
      BY <1>6, <2>1, <2>2
  <1>10. Len(c) <= frames_cap
    BY <1>1, <1>6, SlotNumbers DEF n
  <1>11. AllPassOn'
    BY <1>1, <1>7, <1>9, <1>10, ViewFacts DEF AllPassOn, Diffing
  <1>12. ViewIsLast' /\ NoGuards'
    BY <1>1, ViewFacts DEF ViewIsLast, Diffing, NoGuards
  <1> QED
    BY <1>3, <1>11, <1>12

(* The pump takes the next frame.                                           *)
LEMMA ViewDiffs ==
    ASSUME VisionInv, PumpInv, ViewInv, OneWay, PumpDiffs
    PROVE  NoGuards' /\ RoundRobin' /\ AllPassOn' /\ ViewIsLast'
  <1> USE DEF watcherVars, frameRingVars
  <1> DEFINE f == Head(chan)
             d == IF Seeds(f) THEN {} ELSE Differ(grid, f.pic)
             c == Tail(chan)
             n == Len(chan)
  <1>1. /\ chan # <<>> /\ chan' = c /\ tick["pump"] = NotTicking
        /\ tick' = [tick EXCEPT !["pump"] = [pc |-> "diffed", frame |-> f, tiles |-> d]]
        /\ UNCHANGED <<slots, next_seq, prod, guard, event, view>>
    BY DEF PumpDiffs, Diff
  <1>2. /\ f = chan[1] /\ 1 \in DOMAIN chan /\ n \in Nat /\ Len(c) = n - 1 /\ n >= 1
        /\ \A i \in DOMAIN c : c[i] = chan[i + 1] /\ i + 1 \in DOMAIN chan /\ i \in Nat
    BY <1>1, ViewFacts
  <1> HIDE DEF f, c, n, d
  <1>3. /\ tick'["pump"].pc = "diffed" /\ tick'["pump"].frame = f /\ tick'["pump"].tiles = d
    BY <1>1, ViewFacts DEF Tickers
  <1>4. ~Diffing /\ Diffing'
    BY <1>1, <1>3 DEF Diffing, NotTicking
  <1>5. RoundRobin'
    BY <1>1, TurnStays, ViewFacts
  <1>6. Under' = Under + 1
    BY <1>1, <1>2, ViewFacts DEF Under, Busy, Acquired, n
  <1>7. f.seq = Under + 1 /\ \A i \in DOMAIN c : c[i].seq = Under + 1 + i
    <2>1. \A j \in DOMAIN chan : chan[j].seq = Under + j
      BY ViewFacts DEF AllPassOn
    <2>2. \A i \in DOMAIN c : c[i].seq = Under + (i + 1)
      BY <1>2, <2>1
    <2>3. \A i \in Nat : Under + (i + 1) = Under + 1 + i
      BY ViewFacts
    <2> QED
      BY <1>2, <2>1, <2>2, <2>3
  <1>8. Under' >= 0 /\ Len(c) <= frames_cap
    BY <1>2, <1>6, ViewFacts, SlotNumbers DEF AllPassOn, n
  <1>9. AllPassOn'
    BY <1>1, <1>3, <1>6, <1>7, <1>8 DEF AllPassOn
  <1>10. view = event.pic /\ grid = event.pic
    BY <1>4, ViewFacts DEF ViewIsLast
  <1>11. d = IF event.pic.size # f.pic.size THEN {} ELSE Differ(event.pic, f.pic)
    BY <1>10 DEF d, Seeds
  <1>12. ViewIsLast' /\ NoGuards'
    BY <1>1, <1>3, <1>4, <1>10, <1>11, ViewFacts DEF ViewIsLast, NoGuards
  <1> QED
    BY <1>5, <1>9, <1>12

(* It goes on with it.                                                      *)
LEMMA ViewGoesOn ==
    ASSUME VisionInv, PumpInv, ViewInv, OneWay, PushChanges("pump") \/ SetLastFrame("pump")
    PROVE  NoGuards' /\ RoundRobin' /\ AllPassOn' /\ ViewIsLast'
  <1> USE DEF watcherVars, frameRingVars
  <1>1. /\ tick["pump"].pc # "idle" /\ UNCHANGED <<slots, next_seq, prod, chan, grid, guard, event, view>>
        /\ \E pc \in {"pushed", "ticked"} : tick' = [tick EXCEPT !["pump"] = [tick["pump"] EXCEPT !.pc = pc]]
    BY ViewFacts DEF PushChanges, SetLastFrame, Tickers
  <1>2. /\ tick'["pump"].pc # "idle" /\ tick'["pump"].frame = tick["pump"].frame
        /\ tick'["pump"].tiles = tick["pump"].tiles
    BY <1>1, ViewFacts DEF Tickers, Ticks
  <1>3. Diffing /\ Diffing'
    BY <1>1, <1>2 DEF Diffing
  <1>4. RoundRobin'
    BY <1>1, TurnStays, ViewFacts
  <1>5. Under' = Under
    BY <1>1 DEF Under, Busy, Acquired
  <1>6. AllPassOn'
    BY <1>1, <1>2, <1>3, <1>5, ViewFacts DEF AllPassOn
  <1>7. ViewIsLast' /\ NoGuards'
    BY <1>1, <1>2, <1>3, ViewFacts DEF ViewIsLast, NoGuards
  <1> QED
    BY <1>4, <1>6, <1>7

(* The frame that the pump has diffed is still in the ring: the ring is     *)
(* larger than the channel.                                                 *)
LEMMA FrameIsThere ==
    ASSUME VisionInv, PumpInv, ViewInv, OneWay, Diffing
    PROVE  HandleFor(tick["pump"].frame.seq) # {}
  <1>1. PICK c \in Slots : TurnIs(c)
    BY ViewFacts DEF RoundRobin
  <1> DEFINE u == tick["pump"].frame.seq
             a == Acquired
  <1>2. u = Under /\ u # 0 /\ u \in Nat /\ a \in Nat
    BY ViewFacts DEF AllPassOn, VisionInv, TickInv, TicksAreNumbered, Tickers, Diffing
  <1>3. u <= a /\ a - u < slot_count /\ (Busy => u < a)
    <2>1. /\ Len(chan) \in Nat /\ Len(chan) <= frames_cap
          /\ u = a - (IF Busy THEN 1 ELSE 0) - Len(chan)
      BY <1>2, ViewFacts DEF Under, AllPassOn
    <2> HIDE DEF u, a
    <2> QED
      BY <1>2, <2>1, SlotNumbers, SMTT(30)
  <1> HIDE DEF u, a
  <1>4. PICK i \in Slots : Place(a, c, i) = u /\ (u < a => i # c)
    BY <1>2, <1>3, RecentHasSlot
  <1>5. slots[i].seq = Place(a, c, i)
    BY <1>1, <1>3, <1>4 DEF TurnIs, Busy, a
  <1> QED
    BY <1>4, <1>5 DEF HandleFor, u

(* Pictures of one size are equal when no tile differs.                     *)
LEMMA Repainted ==
    ASSUME NEW p \in AnyPicture, NEW q \in AnyPicture, p.size = q.size
    PROVE  [p EXCEPT !.px = [t \in Tiles |-> IF t \in Differ(p, q) THEN q.px[t] ELSE p.px[t]]] = q
  <1>1. ASSUME NEW x \in AnyPicture
        PROVE  x = [size |-> x.size, px |-> x.px] /\ x.px = [t \in Tiles |-> x.px[t]]
    BY DEF AnyPicture, Pictures, BlankPic
  <1> DEFINE v == [t \in Tiles |-> IF t \in Differ(p, q) THEN q.px[t] ELSE p.px[t]]
  <1>2. v = [t \in Tiles |-> q.px[t]]
    BY DEF Differ
  <1>3. v = q.px
    BY <1>1, <1>2
  <1> HIDE DEF v
  <1>4. [p EXCEPT !.px = v] = [size |-> p.size, px |-> v]
    BY DEF AnyPicture, Pictures, BlankPic
  <1>5. [p EXCEPT !.px = v] = q
    BY <1>1, <1>3, <1>4
  <1> QED
    BY <1>5 DEF v

(* The client repaints what has changed.                                    *)
LEMMA ViewEmits ==
    ASSUME VisionInv, PumpInv, ViewInv, OneWay, EmitFrame
    PROVE  NoGuards' /\ RoundRobin' /\ AllPassOn' /\ ViewIsLast'
  <1> USE DEF frameRingVars
  <1> DEFINE f == tick["pump"].frame
             d == tick["pump"].tiles
  <1>1. /\ tick["pump"].pc = "ticked" /\ event'.pic = f.pic /\ view' = Repaint(f, d)
        /\ tick' = [tick EXCEPT !["pump"] = NotTicking]
        /\ UNCHANGED <<slots, next_seq, prod, chan, grid, guard>>
    BY DEF EmitFrame
  <1>2. Diffing /\ tick'["pump"].pc = "idle" /\ ~Diffing'
    BY <1>1, ViewFacts DEF Diffing, NotTicking, Tickers
  <1>3. RoundRobin'
    BY <1>1, TurnStays, ViewFacts
  <1>4. Under' = Under
    BY <1>1 DEF Under, Busy, Acquired
  <1>5. AllPassOn'
    BY <1>1, <1>2, <1>4, ViewFacts DEF AllPassOn
  <1>6. /\ view = event.pic /\ grid = f.pic
        /\ d = IF event.pic.size # f.pic.size THEN {} ELSE Differ(event.pic, f.pic)
    BY <1>2, ViewFacts DEF ViewIsLast, GridIsLast
  <1>7. f.pic \in AnyPicture /\ view \in AnyPicture
    BY <1>6, ViewFacts DEF Ticks, AnyFrame, WatchTypes, Events
  <1> HIDE DEF f, d
  <1>8. view' = f.pic
    <2>1. CASE view.size # f.pic.size
      BY <1>1, <2>1 DEF Repaint
    <2>2. CASE view.size = f.pic.size
      <3>1. d = Differ(view, f.pic)
        BY <1>6, <2>2
      <3>2. view' = [view EXCEPT !.px = [t \in Tiles |-> IF t \in d THEN f.pic.px[t] ELSE view.px[t]]]
        BY <1>1, <1>7, <2>2 DEF Repaint, AnyPicture, Pictures, BlankPic
      <3> QED
        BY <1>7, <2>2, <3>1, <3>2, Repainted
    <2> QED
      BY <2>1, <2>2
  <1>9. ViewIsLast' /\ NoGuards'
    BY <1>1, <1>2, <1>6, <1>8, ViewFacts DEF ViewIsLast, NoGuards
  <1> QED
    BY <1>3, <1>5, <1>9

LEMMA ViewStep ==
    ASSUME VisionInv, PumpInv, ViewInv, [VisionNext]_visionVars
    PROVE  ViewInv'
  <1> USE DEF frameRingVars, tickVars, watcherVars, ghostVars
  <1>1. readsDone \in Nat
    BY DEF ViewInv
  <1>2. ASSUME NEW r \in Readers, read(r)
        PROVE  readsDone' \in Nat /\ readsDone' # 0
    <2>1. readsDone' = readsDone + 1
      BY <1>2, SMTT(30) DEF read
    <2> QED
      BY <1>1, <2>1
  <1>3. \/ \E r \in Readers : read(r)
        \/ \E p \in Producers : DecodeFails(p)
        \/ PrimeFrame
        \/ UNCHANGED <<primed, starved, readsDone>>
    BY DEF VisionNext, visionVars, write, commit_seq, commit_refcnt, drop_guard, CaptureFrame,
       CaptureSends, PumpDiffs, PrimeDiffs, Diff, PushChanges, SetLastFrame, EmitFrame, RingLostSeq
  <1>4. readsDone' \in Nat
    BY <1>1, <1>2, <1>3 DEF DecodeFails, PrimeFrame
  <1> SUFFICES ASSUME OneWay'
               PROVE  NoGuards' /\ RoundRobin' /\ AllPassOn' /\ ViewIsLast'
    BY <1>4 DEF ViewInv
  <1>5. OneWay /\ ~(\E p \in Producers : DecodeFails(p)) /\ ~PrimeFrame /\ ~(\E r \in Readers : read(r))
    BY <1>2, <1>3 DEF OneWay, DecodeFails, PrimeFrame
  <1>6. prod["prime"].pc = "idle" /\ tick["prime"].pc = "idle" /\ NoGuards
    BY <1>5, ViewFacts
  <1>7. ~(\E r \in Readers : drop_guard(r)) /\ ~PrimeDiffs
    BY <1>6 DEF drop_guard, NoGuards, PrimeDiffs
  <1>8. ASSUME NEW p \in Producers, write(p) \/ commit_seq(p) \/ commit_refcnt(p)
        PROVE  NoGuards' /\ RoundRobin' /\ AllPassOn' /\ ViewIsLast'
    <2>1. p = "capture"
      BY <1>6, <1>8 DEF write, commit_seq, commit_refcnt, Producers
    <2> QED
      BY <1>5, <1>8, <2>1, ViewWrites
  <1>9. ASSUME NEW t \in Tickers, PushChanges(t) \/ SetLastFrame(t)
        PROVE  NoGuards' /\ RoundRobin' /\ AllPassOn' /\ ViewIsLast'
    <2>1. t = "pump"
      BY <1>6, <1>9 DEF PushChanges, SetLastFrame, Tickers
    <2> QED
      BY <1>5, <1>9, <2>1, ViewGoesOn
  <1>10. CASE RingLostSeq
    BY <1>5, <1>10, FrameIsThere DEF RingLostSeq, Diffing
  <1>11. CASE UNCHANGED visionVars
    <2>1. NoGuards /\ RoundRobin /\ AllPassOn /\ ViewIsLast
      BY <1>5, ViewFacts
    <2>2. RoundRobin'
      BY <1>11, <2>1, TurnStays DEF visionVars
    <2> QED
      BY <1>11, <2>1, <2>2 DEF visionVars, NoGuards, AllPassOn, ViewIsLast, Under, Busy, Acquired, Diffing
  <1> QED
    BY <1>5, <1>7, <1>8, <1>9, <1>10, <1>11, ViewAcquires, ViewSends, ViewDiffs, ViewEmits DEF VisionNext

LEMMA ViewInitial ==
    ASSUME VisionInit
    PROVE  ViewInv
  <1>1. /\ next_seq = 1 /\ chan = <<>> /\ Len(chan) = 0 /\ DOMAIN chan = {}
        /\ view = event.pic /\ grid = event.pic /\ readsDone = 0
    BY DEF VisionInit, NoEvent
  <1>2. prod["capture"].pc = "idle" /\ tick["pump"].pc = "idle"
    BY DEF VisionInit, Producers, Tickers, NotWriting, NotTicking
  <1>3. Acquired = 0 /\ ~Busy /\ ~Writing("capture") /\ ~Diffing
    BY <1>1, <1>2 DEF Acquired, Busy, Writing, Diffing
  <1>4. \A i \in Slots : slots[i].seq = 0 /\ slots[i].refcnt = 0
    BY DEF VisionInit
  <1>5. \A i \in Slots : Place(0, slot_count, i) = 0
    BY SlotNumbers DEF Place
  <1>6. TurnIs(slot_count)
    BY <1>2, <1>3, <1>4, <1>5, SlotNumbers DEF TurnIs
  <1>7. RoundRobin
    BY <1>6, SlotNumbers DEF RoundRobin
  <1>8. AllPassOn /\ ViewIsLast
    BY <1>1, <1>3, SlotNumbers DEF AllPassOn, ViewIsLast, Under
  <1>9. NoGuards
    BY DEF VisionInit, NoGuards
  <1> QED
    BY <1>1, <1>7, <1>8, <1>9 DEF ViewInv

(* The inductive invariant behind the first half of NoChangeIsMissed, for   *)
(* any ring at least two slots larger than its channel: acquire_write takes *)
(* the slots in turn, the frames between the ring and the pump have         *)
(* consecutive numbers, so that the frame tick_with_subscriber announces is *)
(* still in its slot and RingLostSeq does not happen, and the tiles of the  *)
(* frame being diffed are those that differ from the last one announced.    *)
THEOREM ViewInvariance == VisionSpec => []ViewInv
  <1>1. ASSUME VisionInv, PumpInv, ViewInv, [VisionNext]_visionVars
        PROVE  ViewInv'
    BY <1>1, ViewStep
  <1> QED
    BY <1>1, ViewInitial, PumpInvariance, VisionInvariance, PTL DEF VisionSpec

(* Nothing that changed on the screen is kept from the client of the        *)
(* continuous mode, as long as no screenshot primed the pipeline: the       *)
(* changed tiles of the vision.frame events add up to the picture of the    *)
(* last one (unless frames failed to decode or guards held slots), and      *)
(* vision.changed_since names every tile that differs from a remembered     *)
(* picture the history reaches back to.                                     *)
THEOREM NoChangeIsMissedSafety == VisionSpec => []NoChangeIsMissed
  <1>1. ASSUME VisionInv, PumpInv, ViewInv
        PROVE  NoChangeIsMissed
    <2> SUFFICES ASSUME ~primed
                 PROVE  /\ (~starved /\ readsDone = 0) => view.px = event.pic.px
                        /\ (PumpIdle /\ mark.seq \in {history[i].seq : i \in DOMAIN history} /\ mark.seq >= seeded)
                               => Differ(mark.pic, last_frame.pic) \subseteq changed_since(mark.seq)
      BY DEF NoChangeIsMissed
    <2>1. (~starved /\ readsDone = 0) => view = event.pic
      BY <1>1 DEF ViewInv, OneWay, ViewIsLast
    <2>2. ASSUME PumpIdle, mark.seq \in {history[i].seq : i \in DOMAIN history}, mark.seq >= seeded
          PROVE  Differ(mark.pic, last_frame.pic) \subseteq changed_since(mark.seq)
      <3>1. tick["pump"].pc = "idle" /\ Pending = {}
        BY <2>2 DEF PumpIdle, NotTicking, Pending
      <3>2. last_frame.pic = grid
        BY <1>1, <3>1 DEF PumpInv, GridIsLast
      <3> QED
        BY <1>1, <2>2, <3>1, <3>2 DEF PumpInv, MarkIsCovered
    <2> QED
      BY <2>1, <2>2
  <1> QED
    BY <1>1, VisionInvariance, PumpInvariance, ViewInvariance, PTL
============================================================================
