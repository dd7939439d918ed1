---------------------------- MODULE NetworkProofs ----------------------------
(***************************************************************************)
(* The network side of one tab, for any number of requests, handlers and   *)
(* observers and any capacity of its channels and its HAR ring: a request  *)
(* paused by interception is never forgotten, the tab's books agree with   *)
(* what Chromium did, and an observer is told of everything once.          *)
(***************************************************************************)
EXTENDS PageNetwork, FiniteSetTheorems, FunctionTheorems, SequenceTheorems, TLAPS

----------------------------------------------------------------------------
(* Paused requests: inductive invariant                                     *)

States == {"none", "paused", "sent", "answered", "finished", "failed"}
Acts == {"continue", "fulfill", "fail"}
AnyUrl == Urls \union {CHOOSE u \in Urls : TRUE}
RequestStates == [st : States, url : AnyUrl, paired : BOOLEAN]
Events == [kind : {"request", "paused", "response", "finished", "failed"}, req : Reqs, url : AnyUrl]
              \union {e \in [kind : StreamKinds, req : StreamKinds, url : {NoUrl}] : e.kind = e.req}
Enables == [kind : {"enable"}, by : Registrars, pats : SUBSET Globs]
Resolutions == [kind : {"resolve"}, req : Reqs, act : Acts]

RequestTypes == req \in [Reqs -> RequestStates] /\ evq \in Seq(Events)
CommandTypes == cmds \in Seq(Enables \union Resolutions)
RegisterTypes ==
    /\ \A h \in handlers : h.spec.glob \in Globs /\ h.spec.act \in Acts
    /\ register \in [Registrars -> [pc : {"idle", "inserted", "read", "sent"}, pats : SUBSET Globs]]
NetworkTypes == RequestTypes /\ CommandTypes /\ RegisterTypes

\* The pump waits for the one resolution under way.
PumpWaits ==
    /\ \A i \in DOMAIN cmds : cmds[i].kind = "resolve" => cmds[i].req = pump
    /\ \A i, j \in DOMAIN cmds : cmds[i].kind = "resolve" /\ cmds[j].kind = "resolve" => i = j

NetworkInv == NetworkTypes /\ PumpWaits /\ NoPausedForgotten

----------------------------------------------------------------------------
(* Events                                                                   *)

(* What a full channel keeps and what it drops are all there was.           *)
LEMMA LastNKeeps ==
    ASSUME NEW S, NEW s \in Seq(S), NEW n \in Nat \ {0}
    PROVE  /\ LastN(s, n) \in Seq(S)
           /\ \A i \in DOMAIN s : \/ s[i] \in Elems(LastN(s, n))
                                  \/ i \in 1..(Len(s) - Len(LastN(s, n)))
  <1>0. Len(s) \in Nat /\ DOMAIN s = 1..Len(s)
    BY LenProperties
  <1>1. CASE Len(s) <= n
    BY <1>1 DEF LastN, Elems
  <1>2. CASE ~(Len(s) <= n)
    <2> DEFINE u == SubSeq(s, Len(s) - n + 1, Len(s))
               m == Len(s) - n
    <2>1. m \in Nat /\ m + 1 \in 1..Len(s) /\ Len(s) - n + 1 = m + 1
      BY <1>0, <1>2
    <2>2. u \in Seq(S) /\ Len(u) = n /\ \A i \in 1..n : u[i] = s[m + i]
      BY <1>0, <1>2, <2>1, SubSeqProperties
    <2>3. LastN(s, n) = u
      BY <1>2 DEF LastN
    <2> HIDE DEF u
    <2>4. ASSUME NEW i \in DOMAIN s, ~(i \in 1..m)
          PROVE  s[i] \in Elems(u)
      <3>1. i - m \in 1..n /\ m + (i - m) = i
        BY <1>0, <1>2, <2>4
      <3>2. DOMAIN u = 1..n
        BY <2>2, LenProperties
      <3>3. u[i - m] = s[i]
        BY <2>2, <3>1
      <3> QED
        BY <3>1, <3>2, <3>3 DEF Elems
    <2> QED
      BY <2>2, <2>3, <2>4
  <1> QED
    BY <1>1, <1>2

(* Events are added; of those there were, the ones that are no longer there *)
(* were pauses the pump will never see, or no pauses.                       *)
LEMMA EmitKeeps ==
    ASSUME RequestTypes, NEW es \in Seq(Events), Emit(es)
    PROVE  /\ evq' \in Seq(Events) /\ missed \subseteq missed'
           /\ \A e \in Elems(evq) \union Elems(es) :
                 e.kind = "paused" => e \in Elems(evq') \/ e.req \in missed'
  <1> DEFINE s == evq \o es
             gone == {s[i] : i \in 1..(Len(s) - Len(evq'))}
  <1>1. /\ evq' = LastN(s, EventCap)
        /\ missed' = missed \union {e.req : e \in {x \in gone : x.kind = "paused"}}
    BY DEF Emit
  <1>2. /\ s \in Seq(Events) /\ EventCap \in Nat \ {0} /\ evq \in Seq(Events)
        /\ \A e \in Elems(evq) \union Elems(es) : \E i \in DOMAIN s : s[i] = e
    <2>1. s \in Seq(Events) /\ EventCap \in Nat \ {0} /\ evq \in Seq(Events)
      BY ConcatProperties, NetworkAssumption DEF RequestTypes
    <2>2. /\ Len(s) = Len(evq) + Len(es) /\ Len(evq) \in Nat /\ Len(es) \in Nat
          /\ DOMAIN s = 1..Len(s) /\ DOMAIN evq = 1..Len(evq) /\ DOMAIN es = 1..Len(es)
          /\ \A i \in 1..Len(s) : s[i] = IF i <= Len(evq) THEN evq[i] ELSE es[i - Len(evq)]
      BY <2>1, ConcatProperties, LenProperties
    <2> HIDE DEF s
    <2>3. \A i \in DOMAIN evq : i \in DOMAIN s /\ s[i] = evq[i]
      BY <2>2
    <2>4. ASSUME NEW i \in DOMAIN es
          PROVE  i + Len(evq) \in DOMAIN s /\ s[i + Len(evq)] = es[i]
      <3>1. i + Len(evq) \in 1..Len(s) /\ ~(i + Len(evq) <= Len(evq)) /\ (i + Len(evq)) - Len(evq) = i
        BY <2>2
      <3> QED
        BY <2>2, <3>1
    <2> QED
      BY <2>1, <2>3, <2>4 DEF Elems, s
  <1> HIDE DEF s
  <1>3. /\ evq' \in Seq(Events)
        /\ \A i \in DOMAIN s : s[i] \in Elems(evq') \/ i \in 1..(Len(s) - Len(evq'))
    BY <1>1, <1>2, LastNKeeps
  <1> QED
    BY <1>1, <1>2, <1>3

(* Events about a request have their type.                                  *)
LEMMA EventTypes ==
    ASSUME RequestTypes
    PROVE  /\ \A r \in Reqs, u \in AnyUrl : /\ Event("request", r, u) \in Events
                                            /\ Event("paused", r, u) \in Events
           /\ \A r \in Reqs : /\ Told("response", r) \in Events /\ Told("finished", r) \in Events
                              /\ Told("failed", r) \in Events
           /\ \A k \in StreamKinds : Event(k, k, NoUrl) \in Events
  <1>1. \A r \in Reqs : req[r].url \in AnyUrl
    BY DEF RequestTypes, RequestStates
  <1> QED
    BY <1>1 DEF Event, Events, Told

----------------------------------------------------------------------------
(* Paused requests                                                          *)

\* The pump has sent the resolution of r and waits for Chromium's answer.
Resolving(r) == pump = r /\ \E c \in Elems(cmds) : c.kind = "resolve" /\ c.req = r
Covered(r) == Told("paused", r) \in Elems(evq) \/ r \in missed \/ Resolving(r) \/ r \in rejected

(* A paused request a step leaves alone is still accounted for.             *)
LEMMA StillCovered ==
    ASSUME NEW r \in Reqs, Covered(r), req'[r] = req[r],
           missed \subseteq missed', rejected \subseteq rejected',
           Resolving(r) => Resolving(r)' \/ r \in rejected',
           LET e == Told("paused", r)
           IN  e \in Elems(evq) => e \in Elems(evq') \/ e.req \in missed' \/ Covered(r)'
    PROVE  Covered(r)'
  <1>1. Told("paused", r)' = Told("paused", r) /\ Told("paused", r).req = r
    BY DEF Told, Event
  <1> HIDE DEF Resolving, Told
  <1> QED
    BY <1>1 DEF Covered, Elems

(* A step of Chromium: request r changes, events are added.                 *)
LEMMA RequestChanges ==
    ASSUME NetworkInv, NEW r \in Reqs, NEW v \in RequestStates, NEW es \in Seq(Events),
           req' = [req EXCEPT ![r] = v], Emit(es) \/ UNCHANGED <<evq, missed>>,
           UNCHANGED <<cmds, pump, rejected, handlers, register>>,
           v.st = "paused" => Emit(es) /\ \E e \in Elems(es) : e = Event("paused", r, v.url)
    PROVE  NetworkInv'
  <1>0. NetworkTypes /\ PumpWaits /\ RequestTypes /\ \A q \in Reqs : req[q].st = "paused" => Covered(q)
    BY DEF NetworkInv, NetworkTypes, NoPausedForgotten, Covered, Resolving
  <1>1. req' \in [Reqs -> RequestStates] /\ req'[r] = v /\ \A q \in Reqs \ {r} : req'[q] = req[q]
    BY <1>0 DEF RequestTypes
  <1>2. evq' \in Seq(Events) /\ missed \subseteq missed'
    BY <1>0, EmitKeeps DEF RequestTypes
  <1>3. NetworkTypes' /\ PumpWaits'
    BY <1>0, <1>1, <1>2 DEF NetworkTypes, RequestTypes, CommandTypes, RegisterTypes, PumpWaits
  <1>4. ASSUME NEW q \in Reqs \ {r}, req'[q].st = "paused"
        PROVE  Covered(q)'
    <2>1. Covered(q) /\ req'[q] = req[q]
      BY <1>0, <1>1, <1>4
    <2>2. Resolving(q) => Resolving(q)'
      BY DEF Resolving
    <2> DEFINE e == Told("paused", q)
    <2>3. e.kind = "paused"
      BY DEF Told, Event
    <2>4. e \in Elems(evq) => e \in Elems(evq') \/ e.req \in missed'
      <3> HIDE DEF e
      <3> QED
        BY <1>0, <2>3, EmitKeeps DEF Elems
    <2> HIDE DEF Covered, Resolving
    <2> QED
      BY <1>2, <2>1, <2>2, <2>4, StillCovered
  <1>5. ASSUME v.st = "paused"
        PROVE  Covered(r)'
    <2> DEFINE e == Event("paused", r, v.url)
    <2>1. Emit(es) /\ e \in Elems(es)
      BY <1>5
    <2>2. e.kind = "paused" /\ e.req = r /\ Told("paused", r)' = e
      BY <1>1 DEF Event, Told
    <2>3. e \in Elems(evq') \/ r \in missed'
      <3> HIDE DEF e
      <3> QED
        BY <1>0, <2>1, <2>2, EmitKeeps
    <2> HIDE DEF e
    <2> QED
      BY <2>2, <2>3 DEF Covered, Elems
  <1>6. NoPausedForgotten'
    BY <1>1, <1>4, <1>5 DEF NoPausedForgotten, Covered, Resolving
  <1> QED
    BY <1>3, <1>6 DEF NetworkInv

LEMMA LeavesStep ==
    ASSUME NetworkInv, NEW r \in Reqs, NEW u \in Urls, NEW paired \in BOOLEAN, Leaves(r, u, paired),
           UNCHANGED <<cmds, pump, rejected, handlers, register>>
    PROVE  NetworkInv'
  <1>0. RequestTypes
    BY DEF NetworkInv, NetworkTypes
  <1> DEFINE v == [st |-> IF Pauses(u) THEN "paused" ELSE "sent", url |-> u, paired |-> paired]
             first == IF paired THEN <<Event("request", r, u)>> ELSE <<>>
             second == IF Pauses(u) THEN <<Event("paused", r, u)>> ELSE <<>>
             es == first \o second
  <1>1. u \in AnyUrl /\ Event("request", r, u) \in Events /\ Event("paused", r, u) \in Events
    BY <1>0, EventTypes DEF AnyUrl
  <1>2. v \in RequestStates /\ v.url = u /\ (v.st = "paused" => Pauses(u))
    BY <1>1 DEF RequestStates, States
  <1>3. first \in Seq(Events) /\ second \in Seq(Events)
    <2> DEFINE a == Event("request", r, u)
               b == Event("paused", r, u)
    <2> HIDE DEF a, b
    <2>1. a \in Events /\ b \in Events
      BY <1>1 DEF a, b
    <2>2. <<a>> \in Seq(Events) /\ <<b>> \in Seq(Events) /\ <<>> \in Seq(Events)
      BY <2>1
    <2> QED
      BY <2>2 DEF a, b
  <1>4. es \in Seq(Events)
    BY <1>3, ConcatProperties
  <1>5. ASSUME Pauses(u)
        PROVE  \E e \in Elems(es) : e = Event("paused", r, u)
    <2>1. second = <<Event("paused", r, u)>> /\ Len(second) = 1
      BY <1>5
    <2> HIDE DEF first, second
    <2>2. /\ Len(es) = Len(first) + 1 /\ Len(first) \in Nat /\ DOMAIN es = 1..Len(es)
          /\ \A i \in 1..Len(es) : es[i] = IF i <= Len(first) THEN first[i] ELSE second[i - Len(first)]
      BY <1>3, <1>4, <2>1, ConcatProperties, LenProperties
    <2> HIDE DEF es
    <2>3. Len(es) \in DOMAIN es /\ ~(Len(es) <= Len(first)) /\ Len(es) - Len(first) = 1
      BY <2>2
    <2>4. es[Len(es)] = second[1]
      BY <2>2, <2>3
    <2>5. second[1] = Event("paused", r, u)
      BY <2>1
    <2> QED
      BY <2>3, <2>4, <2>5 DEF Elems
  <1>6. req' = [req EXCEPT ![r] = v] /\ Emit(es)
    BY DEF Leaves
  <1> HIDE DEF v, es
  <1> QED
    BY <1>2, <1>4, <1>5, <1>6, RequestChanges

(* A request that is answered or over is not paused.                        *)
LEMMA BecomesStep ==
    ASSUME NetworkInv, NEW r \in Reqs, NEW st \in States \ {"paused"}, Becomes(r, st),
           NEW es \in Seq(Events), Emit(es) \/ UNCHANGED <<evq, missed>>,
           UNCHANGED <<cmds, pump, rejected, handlers, register>>
    PROVE  NetworkInv'
  <1>0. req \in [Reqs -> RequestStates]
    BY DEF NetworkInv, NetworkTypes, RequestTypes
  <1> DEFINE v == [req[r] EXCEPT !.st = st]
  <1>1. v \in RequestStates /\ v.st # "paused"
    BY <1>0 DEF RequestStates
  <1>2. req' = [req EXCEPT ![r] = v]
    BY <1>0 DEF Becomes
  <1> HIDE DEF v
  <1> QED
    BY <1>1, <1>2, RequestChanges

(* Chromium's own steps.                                                    *)
LEMMA RequestSteps ==
    ASSUME NetworkInv, NEW r \in Reqs, Start(r) \/ Redirect(r) \/ Respond(r) \/ Finish(r) \/ Fail(r)
    PROVE  NetworkInv'
  <1> USE DEF registerVars
  <1>1. CASE Start(r)
    BY <1>1, LeavesStep DEF Start
  <1>2. CASE Redirect(r)
    BY <1>2, LeavesStep DEF Redirect
  <1>3. Told("response", r) \in Events /\ Told("finished", r) \in Events /\ Told("failed", r) \in Events
    BY EventTypes DEF NetworkInv, NetworkTypes
  <1>4. \A e \in Events : <<e>> \in Seq(Events)
    OBVIOUS
  <1>5. CASE Respond(r)
    BY <1>3, <1>4, <1>5, BecomesStep DEF Respond, States
  <1>6. CASE Finish(r)
    BY <1>3, <1>4, <1>6, BecomesStep DEF Finish, Ends, States
  <1>7. CASE Fail(r)
    BY <1>3, <1>4, <1>7, BecomesStep DEF Fail, Ends, States
  <1> QED
    BY <1>1, <1>2, <1>5, <1>6, <1>7

LEMMA FrameStep ==
    ASSUME NetworkInv, NEW k \in StreamKinds, Frame(k)
    PROVE  NetworkInv'
  <1>0. NetworkTypes /\ PumpWaits /\ RequestTypes /\ \A q \in Reqs : req[q].st = "paused" => Covered(q)
    BY DEF NetworkInv, NetworkTypes, NoPausedForgotten, Covered, Resolving
  <1> DEFINE es == <<Event(k, k, NoUrl)>>
  <1>1. es \in Seq(Events)
    <2>1. Event(k, k, NoUrl) \in Events
      BY <1>0, EventTypes
    <2> QED
      BY <2>1
  <1>2. Emit(es) /\ UNCHANGED <<req, cmds, pump, rejected, handlers, register>>
    BY DEF Frame, registerVars
  <1> HIDE DEF es
  <1>3. /\ evq' \in Seq(Events) /\ missed \subseteq missed'
        /\ \A e \in Elems(evq) : e.kind = "paused" => e \in Elems(evq') \/ e.req \in missed'
    BY <1>0, <1>1, <1>2, EmitKeeps
  <1>4. NetworkTypes' /\ PumpWaits'
    BY <1>0, <1>2, <1>3 DEF NetworkTypes, RequestTypes, CommandTypes, RegisterTypes, PumpWaits
  <1>5. ASSUME NEW q \in Reqs, req'[q].st = "paused"
        PROVE  Covered(q)'
    <2>1. Covered(q) /\ req'[q] = req[q]
      BY <1>0, <1>2, <1>5
    <2>2. Resolving(q) => Resolving(q)'
      BY <1>2 DEF Resolving
    <2> DEFINE e == Told("paused", q)
    <2>3. e.kind = "paused"
      BY DEF Told, Event
    <2>4. e \in Elems(evq) => e \in Elems(evq') \/ e.req \in missed'
      <3> HIDE DEF e
      <3> QED
        BY <1>3, <2>3
    <2> HIDE DEF Covered, Resolving
    <2> QED
      BY <1>2, <1>3, <2>1, <2>2, <2>4, StillCovered
  <1>6. NoPausedForgotten'
    BY <1>5 DEF NoPausedForgotten, Covered, Resolving
  <1> QED
    BY <1>4, <1>6 DEF NetworkInv

----------------------------------------------------------------------------
(* Commands and the pump                                                    *)

(* Taking the head of a sequence leaves the rest.                           *)
LEMMA TailKeeps ==
    ASSUME NEW S, NEW s \in Seq(S), s # <<>>
    PROVE  /\ Head(s) \in S /\ Tail(s) \in Seq(S) /\ 1 \in DOMAIN s /\ Head(s) = s[1]
           /\ \A i \in DOMAIN Tail(s) : i + 1 \in DOMAIN s /\ Tail(s)[i] = s[i + 1]
           /\ \A e \in Elems(s) : e = Head(s) \/ e \in Elems(Tail(s))
  <1>1. /\ Head(s) \in S /\ Tail(s) \in Seq(S) /\ Len(s) \in Nat /\ Len(s) > 0
        /\ Len(Tail(s)) = Len(s) - 1 /\ \A i \in 1..(Len(s) - 1) : Tail(s)[i] = s[i + 1]
    BY HeadTailProperties, LenProperties, EmptySeq
  <1>2. DOMAIN s = 1..Len(s) /\ DOMAIN Tail(s) = 1..(Len(s) - 1) /\ Head(s) = s[1]
    BY <1>1, LenProperties
  <1>3. \A i \in DOMAIN Tail(s) : i + 1 \in DOMAIN s /\ Tail(s)[i] = s[i + 1]
    BY <1>1, <1>2
  <1>4. ASSUME NEW e \in Elems(s)
        PROVE  e = Head(s) \/ e \in Elems(Tail(s))
    <2>1. PICK i \in 1..Len(s) : e = s[i]
      BY <1>2 DEF Elems
    <2>2. CASE i = 1
      BY <1>2, <2>1, <2>2
    <2>3. CASE i # 1
      <3>1. i - 1 \in 1..(Len(s) - 1) /\ (i - 1) + 1 = i
        BY <1>1, <2>3
      <3>2. Tail(s)[i - 1] = e
        BY <1>1, <2>1, <3>1
      <3> QED
        BY <1>2, <3>1, <3>2 DEF Elems
    <2> QED
      BY <2>2, <2>3
  <1>5. 1 \in DOMAIN s
    BY <1>1, <1>2
  <1> QED
    BY <1>1, <1>2, <1>3, <1>4, <1>5

(* Fetch.enable is carried out.                                             *)
LEMMA ExecEnableStep ==
    ASSUME NetworkInv, ExecEnable
    PROVE  NetworkInv'
  <1>0. NetworkTypes /\ PumpWaits /\ \A q \in Reqs : req[q].st = "paused" => Covered(q)
    BY DEF NetworkInv, NoPausedForgotten, Covered, Resolving
  <1>1. cmds \in Seq(Enables \union Resolutions) /\ cmds # <<>> /\ Head(cmds).kind = "enable"
    BY <1>0 DEF NetworkTypes, CommandTypes, ExecEnable
  <1>2. /\ cmds' = Tail(cmds) /\ UNCHANGED <<req, evq, pump, missed, rejected, handlers>>
        /\ register' = [register EXCEPT ![Head(cmds).by] = NotRegistering]
    BY DEF ExecEnable
  <1>3. /\ cmds' \in Seq(Enables \union Resolutions)
        /\ \A i \in DOMAIN cmds' : i + 1 \in DOMAIN cmds /\ cmds'[i] = cmds[i + 1]
        /\ \A e \in Elems(cmds) : e = Head(cmds) \/ e \in Elems(cmds')
    BY <1>1, <1>2, TailKeeps
  <1>4. register' \in [Registrars -> [pc : {"idle", "inserted", "read", "sent"}, pats : SUBSET Globs]]
    BY <1>0, <1>2 DEF NetworkTypes, RegisterTypes, NotRegistering
  <1>5. NetworkTypes'
    BY <1>0, <1>2, <1>3, <1>4 DEF NetworkTypes, RequestTypes, CommandTypes, RegisterTypes
  <1>6. PumpWaits'
    <2>1. \A i \in DOMAIN cmds' : i \in Nat
      BY <1>3, LenProperties
    <2> QED
      BY <1>0, <1>2, <1>3, <2>1 DEF PumpWaits
  <1>7. ASSUME NEW q \in Reqs, req'[q].st = "paused"
        PROVE  Covered(q)'
    <2>1. Covered(q) /\ req'[q] = req[q]
      BY <1>0, <1>2, <1>7
    <2>2. Resolving(q) => Resolving(q)'
      BY <1>1, <1>2, <1>3 DEF Resolving
    <2> HIDE DEF Covered, Resolving
    <2> QED
      BY <1>2, <2>1, <2>2, StillCovered
  <1>8. NoPausedForgotten'
    BY <1>7 DEF NoPausedForgotten, Covered, Resolving
  <1> QED
    BY <1>5, <1>6, <1>8 DEF NetworkInv

(* A resolution is carried out or refused, and the pump goes on.            *)
LEMMA ExecResolveStep ==
    ASSUME NetworkInv, ExecResolve
    PROVE  NetworkInv'
  <1>0. NetworkTypes /\ PumpWaits /\ RequestTypes /\ \A q \in Reqs : req[q].st = "paused" => Covered(q)
    BY DEF NetworkInv, NetworkTypes, NoPausedForgotten, Covered, Resolving
  <1>1. cmds \in Seq(Enables \union Resolutions) /\ cmds # <<>> /\ Head(cmds).kind = "resolve"
    BY <1>0 DEF NetworkTypes, CommandTypes, ExecResolve
  <1>2. cmds' = Tail(cmds) /\ pump' = NoReq /\ handlers' = handlers /\ register' = register
    BY DEF ExecResolve, registerVars
  <1>3. /\ cmds' \in Seq(Enables \union Resolutions) /\ 1 \in DOMAIN cmds /\ Head(cmds) = cmds[1]
        /\ Head(cmds) \in Enables \union Resolutions
        /\ \A i \in DOMAIN cmds' : i + 1 \in DOMAIN cmds /\ cmds'[i] = cmds[i + 1]
    BY <1>1, <1>2, TailKeeps
  <1>4. PICK r \in Reqs : r = Head(cmds).req /\ pump = r
    <2>1. Head(cmds) \in Resolutions
      BY <1>1, <1>3 DEF Enables
    <2> QED
      BY <1>0, <1>1, <1>3, <2>1 DEF Resolutions, PumpWaits
  <1>5. PumpWaits'
    <2>1. ASSUME NEW i \in DOMAIN cmds'
          PROVE  cmds'[i].kind # "resolve"
      <3>1. i \in Nat /\ i # 0
        BY <1>3, <2>1, LenProperties
      <3>2. i + 1 # 1 /\ i + 1 \in DOMAIN cmds /\ cmds'[i] = cmds[i + 1]
        BY <1>3, <3>1
      <3> QED
        BY <1>0, <1>1, <1>3, <3>2 DEF PumpWaits
    <2> QED
      BY <2>1 DEF PumpWaits
  <1>6. /\ req' \in [Reqs -> RequestStates] /\ \A q \in Reqs \ {r} : req'[q] = req[q]
        /\ req'[r].st = "paused" => r \in rejected'
        /\ rejected \subseteq rejected'
    <2>1. ASSUME NEW st \in States \ {"paused"}, Becomes(r, st)
          PROVE  /\ req' \in [Reqs -> RequestStates] /\ \A q \in Reqs \ {r} : req'[q] = req[q]
                 /\ req'[r].st # "paused"
      <3>1. req \in [Reqs -> RequestStates]
        BY <1>0 DEF RequestTypes
      <3>2. [req[r] EXCEPT !.st = st] \in RequestStates /\ [req[r] EXCEPT !.st = st].st = st
        BY <3>1 DEF RequestStates
      <3>3. req' = [req EXCEPT ![r] = [req[r] EXCEPT !.st = st]]
        BY <2>1, <3>1 DEF Becomes
      <3> HIDE DEF RequestStates
      <3> QED
        BY <3>1, <3>2, <3>3
    <2>2. CASE req' = req /\ rejected' = rejected \union {r}
      BY <1>0, <2>2 DEF RequestTypes
    <2>3. CASE rejected' = rejected /\ \E st \in {"sent", "finished", "failed"} : Becomes(r, st)
      BY <2>1, <2>3 DEF States
    <2>4. \/ req' = req /\ rejected' = rejected \union {r}
          \/ rejected' = rejected /\ \E st \in {"sent", "finished", "failed"} : Becomes(r, st)
      BY <1>4 DEF ExecResolve, Ends
    <2> QED
      BY <2>2, <2>3, <2>4
  <1>7. /\ evq' \in Seq(Events) /\ missed \subseteq missed'
        /\ \A e \in Elems(evq) : e.kind = "paused" => e \in Elems(evq') \/ e.req \in missed'
    <2>1. \E es \in Seq(Events) : Emit(es) \/ UNCHANGED <<evq, missed>>
      <3>1. Told("response", r) \in Events /\ Told("finished", r) \in Events /\ Told("failed", r) \in Events
        BY <1>0, EventTypes
      <3>2. \A a, b \in Events : <<a>> \in Seq(Events) /\ <<a, b>> \in Seq(Events) /\ <<>> \in Seq(Events)
        OBVIOUS
      <3>3. /\ <<Told("response", r), Told("finished", r)>> \in Seq(Events)
            /\ <<Told("failed", r)>> \in Seq(Events)
        BY <3>1, <3>2
      <3> QED
        BY <1>4, <3>3 DEF ExecResolve, Ends
    <2>2. PICK es \in Seq(Events) : Emit(es) \/ UNCHANGED <<evq, missed>>
      BY <2>1
    <2>3. CASE Emit(es)
      BY <1>0, <2>3, EmitKeeps
    <2>4. CASE UNCHANGED <<evq, missed>>
      BY <1>0, <2>4 DEF RequestTypes, Elems
    <2> QED
      BY <2>2, <2>3, <2>4
  <1>8. NetworkTypes'
    BY <1>0, <1>2, <1>3, <1>6, <1>7 DEF NetworkTypes, RequestTypes, CommandTypes, RegisterTypes
  <1>9. ASSUME NEW q \in Reqs \ {r}, req'[q].st = "paused"
        PROVE  Covered(q)'
    <2>1. Covered(q) /\ req'[q] = req[q]
      BY <1>0, <1>6, <1>9
    <2>2. ~Resolving(q)
      BY <1>4 DEF Resolving
    <2> DEFINE e == Told("paused", q)
    <2>3. e.kind = "paused"
      BY DEF Told, Event
    <2>4. e \in Elems(evq) => e \in Elems(evq') \/ e.req \in missed'
      <3> HIDE DEF e
      <3> QED
        BY <1>7, <2>3
    <2> HIDE DEF Covered, Resolving
    <2> QED
      BY <1>6, <1>7, <2>1, <2>2, <2>4, StillCovered
  <1>10. NoPausedForgotten'
    BY <1>6, <1>9 DEF NoPausedForgotten, Covered, Resolving
  <1> QED
    BY <1>5, <1>8, <1>10 DEF NetworkInv

(* Appending to a sequence keeps what is in it.                             *)
LEMMA AppendKeeps ==
    ASSUME NEW S, NEW s \in Seq(S), NEW c \in S
    PROVE  /\ Append(s, c) \in Seq(S)
           /\ \A i \in DOMAIN Append(s, c) : \/ i \in DOMAIN s /\ Append(s, c)[i] = s[i]
                                             \/ i = Len(s) + 1 /\ Append(s, c)[i] = c
           /\ c \in Elems(Append(s, c)) /\ \A e \in Elems(s) : e \in Elems(Append(s, c))
  <1>1. /\ Append(s, c) \in Seq(S) /\ Len(s) \in Nat /\ Len(Append(s, c)) = Len(s) + 1
        /\ \A i \in 1..Len(s) : Append(s, c)[i] = s[i]
        /\ Append(s, c)[Len(s) + 1] = c
    BY AppendProperties, LenProperties
  <1>2. DOMAIN s = 1..Len(s) /\ DOMAIN Append(s, c) = 1..(Len(s) + 1)
    BY <1>1, LenProperties
  <1> DEFINE t == Append(s, c)
             n == Len(s)
  <1> HIDE DEF t, n
  <1>3. /\ t \in Seq(S) /\ n \in Nat /\ DOMAIN s = 1..n /\ DOMAIN t = 1..(n + 1)
        /\ (\A i \in 1..n : t[i] = s[i]) /\ t[n + 1] = c
    BY <1>1, <1>2 DEF t, n
  <1>4. \A i \in 1..(n + 1) : i \in 1..n \/ i = n + 1
    BY <1>3
  <1>5. n + 1 \in DOMAIN t /\ \A i \in DOMAIN s : i \in DOMAIN t /\ t[i] = s[i]
    BY <1>3
  <1> QED
    BY <1>3, <1>4, <1>5 DEF t, n, Elems

(* Registration: the list of handlers grows, its patterns are read and      *)
(* sent.  No request, event or resolution changes.                          *)
LEMMA RegisterSteps ==
    ASSUME NetworkInv, NEW c \in Registrars, Intercept(c) \/ ReadPatterns(c) \/ SendEnable(c)
    PROVE  NetworkInv'
  <1>0. NetworkTypes /\ PumpWaits /\ NoPausedForgotten
    BY DEF NetworkInv
  <1>1. UNCHANGED <<req, evq, pump, missed, rejected>>
    BY DEF Intercept, ReadPatterns, SendEnable, browserVars
  <1> DEFINE Steps == [pc : {"idle", "inserted", "read", "sent"}, pats : SUBSET Globs]
  <1>2. register[c] \in Steps /\ register \in [Registrars -> Steps]
    BY <1>0 DEF NetworkTypes, RegisterTypes
  <1>3. pattern_set \subseteq Globs
    BY <1>0 DEF NetworkTypes, RegisterTypes, pattern_set
  <1>4. RegisterTypes'
    <2>1. \A h \in handlers' : h.spec.glob \in Globs /\ h.spec.act \in Acts
      <3>1. CASE handlers' = handlers
        BY <1>0, <3>1 DEF NetworkTypes, RegisterTypes
      <3>2. CASE Intercept(c)
        <4>1. PICK glob \in Globs, act \in Acts :
                 handlers' = handlers \union {[id |-> Cardinality(handlers) + 1, spec |-> Handler(glob, act)]}
          BY <3>2 DEF Intercept, net_intercept, net_intercept_fulfill_with_body,
                      net_intercept_modify_request, net_intercept_fail, Acts
        <4>2. Handler(glob, act).glob = glob /\ Handler(glob, act).act = act
          BY DEF Handler
        <4> QED
          BY <1>0, <4>1, <4>2 DEF NetworkTypes, RegisterTypes
      <3> QED
        BY <3>1, <3>2 DEF ReadPatterns, SendEnable
    <2>2. \E v \in Steps : register' = [register EXCEPT ![c] = v]
      <3>1. CASE Intercept(c)
        <4>1. [register[c] EXCEPT !.pc = "inserted"] \in Steps
          BY <1>2
        <4>2. register' = [register EXCEPT ![c] = [register[c] EXCEPT !.pc = "inserted"]]
          BY <1>2, <3>1 DEF Intercept
        <4> QED
          BY <4>1, <4>2
      <3>2. CASE ReadPatterns(c)
        <4>1. [pc |-> "read", pats |-> pattern_set] \in Steps
          BY <1>3
        <4> QED
          BY <3>2, <4>1 DEF ReadPatterns
      <3>3. CASE SendEnable(c)
        <4>1. [register[c] EXCEPT !.pc = "sent"] \in Steps
          BY <1>2
        <4>2. register' = [register EXCEPT ![c] = [register[c] EXCEPT !.pc = "sent"]]
          BY <1>2, <3>3 DEF SendEnable
        <4> QED
          BY <4>1, <4>2
      <3> QED
        BY <3>1, <3>2, <3>3
    <2>3. register' \in [Registrars -> Steps]
      <3> HIDE DEF Steps
      <3> QED
        BY <1>2, <2>2
    <2> QED
      BY <2>1, <2>3 DEF RegisterTypes
  <1>5. cmds' = cmds \/ \E e \in Enables : cmds' = Append(cmds, e)
    <2>1. [kind |-> "enable", by |-> c, pats |-> register[c].pats] \in Enables
      BY <1>2 DEF Enables
    <2> QED
      BY <2>1 DEF Intercept, ReadPatterns, SendEnable
  <1>6. /\ cmds' \in Seq(Enables \union Resolutions)
        /\ \A i \in DOMAIN cmds' : \/ i \in DOMAIN cmds /\ cmds'[i] = cmds[i]
                                   \/ cmds'[i].kind = "enable"
        /\ \A e \in Elems(cmds) : e \in Elems(cmds')
    <2>1. cmds \in Seq(Enables \union Resolutions)
      BY <1>0 DEF NetworkTypes, CommandTypes
    <2>2. CASE cmds' = cmds
      BY <2>1, <2>2 DEF Elems
    <2>3. ASSUME NEW e \in Enables, cmds' = Append(cmds, e)
          PROVE  /\ cmds' \in Seq(Enables \union Resolutions)
                 /\ \A i \in DOMAIN cmds' : \/ i \in DOMAIN cmds /\ cmds'[i] = cmds[i]
                                            \/ cmds'[i].kind = "enable"
                 /\ \A x \in Elems(cmds) : x \in Elems(cmds')
      <3>1. e.kind = "enable" /\ e \in Enables \union Resolutions
        BY DEF Enables
      <3> QED
        BY <2>1, <2>3, <3>1, AppendKeeps
    <2> QED
      BY <1>5, <2>2, <2>3
  <1>7. NetworkTypes' /\ PumpWaits'
    BY <1>0, <1>1, <1>4, <1>6 DEF NetworkTypes, RequestTypes, CommandTypes, PumpWaits
  <1>8. NoPausedForgotten'
    BY <1>0, <1>1, <1>6 DEF NoPausedForgotten, Told, Elems
  <1> QED
    BY <1>7, <1>8 DEF NetworkInv

(* The pump takes an event; if a request is paused, it sends its resolution *)
(* before it waits, so the request passes from one account to the other.    *)
LEMMA PumpStep ==
    ASSUME NetworkInv, Pump
    PROVE  NetworkInv'
  <1>0. NetworkTypes /\ PumpWaits /\ RequestTypes /\ \A q \in Reqs : req[q].st = "paused" => Covered(q)
    BY DEF NetworkInv, NetworkTypes, NoPausedForgotten, Covered, Resolving
  <1>1. /\ pump = NoReq /\ evq # <<>> /\ evq' = Tail(evq)
        /\ UNCHANGED <<req, handlers, register, missed, rejected>>
    BY DEF Pump, browserVars, registerVars
  <1>2. /\ evq \in Seq(Events) /\ cmds \in Seq(Enables \union Resolutions)
        /\ evq' \in Seq(Events) /\ Head(evq) \in Events
        /\ \A e \in Elems(evq) : e = Head(evq) \/ e \in Elems(evq')
    BY <1>0, <1>1, TailKeeps DEF NetworkTypes, RequestTypes, CommandTypes
  <1>3. \A i \in DOMAIN cmds : cmds[i].kind # "resolve"
    <2>1. \A i \in DOMAIN cmds : cmds[i] \in Enables \union Resolutions
      BY <1>2, ElementOfSeq, LenProperties
    <2> QED
      BY <1>0, <1>1, <2>1, NetworkAssumption DEF PumpWaits, Enables, Resolutions, NoReq
  <1>4. \A q \in Reqs : ~Resolving(q)
    BY <1>3 DEF Resolving, Elems
  <1>5. CASE Head(evq).kind # "paused"
    <2>1. UNCHANGED <<cmds, pump>>
      BY <1>5 DEF Pump, record_request, record_response, record_finished, record_failed, record_ws,
                  record_es
    <2>2. NetworkTypes' /\ PumpWaits'
      BY <1>0, <1>1, <1>2, <2>1 DEF NetworkTypes, RequestTypes, CommandTypes, RegisterTypes, PumpWaits
    <2>3. ASSUME NEW q \in Reqs, req'[q].st = "paused"
          PROVE  Covered(q)'
      <3>1. Covered(q) /\ req'[q] = req[q]
        BY <1>0, <1>1, <2>3
      <3>2. Told("paused", q).kind = "paused"
        BY DEF Told, Event
      <3>3. Told("paused", q) \in Elems(evq) => Told("paused", q) \in Elems(evq')
        BY <1>2, <1>5, <3>2
      <3> HIDE DEF Covered, Resolving, Told
      <3> QED
        BY <1>1, <1>4, <3>1, <3>3, StillCovered
    <2>4. NoPausedForgotten'
      BY <2>3 DEF NoPausedForgotten, Covered, Resolving
    <2> QED
      BY <2>2, <2>4 DEF NetworkInv
  <1>6. CASE Head(evq).kind = "paused"
    <2>1. PICK r \in Reqs, u \in AnyUrl : r = Head(evq).req /\ u = Head(evq).url
      BY <1>2, <1>6 DEF Events, StreamKinds
    <2>2. run_fetch_dispatch(r, u)
      BY <1>6, <2>1 DEF Pump, request_paused
    <2>3. dispatch_fetch_event(u) \subseteq Acts
      BY <1>0 DEF dispatch_fetch_event, match_url, NetworkTypes, RegisterTypes, Acts
    <2>4. PICK act \in Acts : cmds' = Append(cmds, [kind |-> "resolve", req |-> r, act |-> act])
      BY <2>2, <2>3 DEF run_fetch_dispatch
    <2> DEFINE c == [kind |-> "resolve", req |-> r, act |-> act]
    <2>5. c \in Enables \union Resolutions /\ c.kind = "resolve" /\ c.req = r /\ pump' = r
      BY <2>1, <2>2 DEF Resolutions, run_fetch_dispatch
    <2>6. cmds' = Append(cmds, c)
      BY <2>4
    <2> HIDE DEF c
    <2>7. /\ cmds' \in Seq(Enables \union Resolutions) /\ c \in Elems(cmds')
          /\ \A i \in DOMAIN cmds' : \/ i \in DOMAIN cmds /\ cmds'[i] = cmds[i]
                                     \/ i = Len(cmds) + 1 /\ cmds'[i] = c
      BY <1>2, <2>5, <2>6, AppendKeeps
    <2>8. NetworkTypes' /\ PumpWaits'
      BY <1>0, <1>1, <1>2, <1>3, <2>5, <2>7
         DEF NetworkTypes, RequestTypes, CommandTypes, RegisterTypes, PumpWaits
    <2>9. Resolving(r)'
      BY <2>5, <2>7 DEF Resolving, Elems
    <2>10. ASSUME NEW q \in Reqs, req'[q].st = "paused"
           PROVE  Covered(q)'
      <3>1. Covered(q) /\ req'[q] = req[q]
        BY <1>0, <1>1, <2>10
      <3>2. CASE q = r
        BY <2>9, <3>2 DEF Covered, Resolving, Elems
      <3>3. CASE q # r
        <4>1. Told("paused", q) # Head(evq)
          BY <2>1, <3>3 DEF Told, Event
        <4>2. Told("paused", q) \in Elems(evq) => Told("paused", q) \in Elems(evq')
          BY <1>2, <4>1
        <4> HIDE DEF Covered, Resolving, Told
        <4> QED
          BY <1>1, <1>4, <3>1, <4>2, StillCovered
      <3> QED
        BY <3>2, <3>3
    <2>11. NoPausedForgotten'
      BY <2>10 DEF NoPausedForgotten, Covered, Resolving
    <2> QED
      BY <2>8, <2>11 DEF NetworkInv
  <1> QED
    BY <1>5, <1>6

(* Draining counters, subscribing and forwarding touch none of it.          *)
LEMMA QuietStep ==
    ASSUME NetworkInv, UNCHANGED <<req, evq, cmds, pump, handlers, register, missed, rejected>>
    PROVE  NetworkInv'
  BY DEF NetworkInv, NetworkTypes, RequestTypes, CommandTypes, RegisterTypes, PumpWaits,
         NoPausedForgotten, Told, Elems

LEMMA NetworkInitial ==
    ASSUME NetworkInit
    PROVE  NetworkInv
  <1>1. RequestTypes
    <2>1. [st |-> "none", url |-> CHOOSE u \in Urls : TRUE, paired |-> TRUE] \in RequestStates
      BY DEF RequestStates, States, AnyUrl
    <2> HIDE DEF RequestStates
    <2>2. <<>> \in Seq(Events)
      OBVIOUS
    <2> QED
      BY <2>1, <2>2 DEF NetworkInit, RequestTypes
  <1>2. CommandTypes /\ PumpWaits
    BY DEF NetworkInit, CommandTypes, PumpWaits
  <1>3. RegisterTypes
    BY DEF NetworkInit, RegisterTypes, NotRegistering
  <1>4. NoPausedForgotten
    BY DEF NetworkInit, NoPausedForgotten
  <1> QED
    BY <1>1, <1>2, <1>3, <1>4 DEF NetworkInv, NetworkTypes

----------------------------------------------------------------------------
(* Theorems                                                                 *)

(* The inductive invariant of the network side of a tab: the types of the   *)
(* requests, events, commands and handlers, at most one resolution under    *)
(* way, which is the one the event pump of page.rs waits for, and an        *)
(* account of every paused request.                                         *)
THEOREM NetworkInvariance == NetworkSpec => []NetworkInv
  <1>1. ASSUME NetworkInv, [NetworkNext]_networkVars
        PROVE  NetworkInv'
    <2>1. CASE \E r \in Reqs : Start(r) \/ Redirect(r) \/ Respond(r) \/ Finish(r) \/ Fail(r)
      BY <1>1, <2>1, RequestSteps
    <2>2. CASE \E k \in StreamKinds : Frame(k)
      BY <1>1, <2>2, FrameStep
    <2>3. CASE ExecEnable \/ ExecResolve
      BY <1>1, <2>3, ExecEnableStep, ExecResolveStep
    <2>4. CASE Pump
      BY <1>1, <2>4, PumpStep
    <2>5. CASE \E c \in Registrars : Intercept(c) \/ ReadPatterns(c) \/ SendEnable(c)
      BY <1>1, <2>5, RegisterSteps
    <2>6. CASE DrainExtras \/ \E o \in Observers : Observe(o) \/ Forward(o)
      BY <1>1, <2>6, QuietStep DEF DrainExtras, Observe, Forward, browserVars, registerVars
    <2>7. CASE UNCHANGED networkVars
      BY <1>1, <2>7, QuietStep DEF networkVars, browserVars, registerVars
    <2> QED
      BY <1>1, <2>1, <2>2, <2>3, <2>4, <2>5, <2>6, <2>7 DEF NetworkNext, Chromium
  <1> QED
    BY <1>1, NetworkInitial, PTL DEF NetworkSpec

(* A request that Fetch paused is never forgotten (network.rs,              *)
(* dispatch_fetch_event and run_fetch_dispatch; page.rs, event_pump): while *)
(* it is paused, its event is still queued for the pump, or its resolution  *)
(* is on its way to Chromium, or the broadcast channel dropped the event on *)
(* a lagging pump, or Chromium refused the resolution, whatever handlers    *)
(* are registered meanwhile and however requests are redirected, cancelled  *)
(* or answered.                                                             *)
THEOREM NoPausedForgottenSafety == NetworkSpec => []NoPausedForgotten
  BY NetworkInvariance, PTL DEF NetworkInv

----------------------------------------------------------------------------
(* The books: inductive invariant                                           *)

EndKinds == {"finished", "failed"}
BookKinds == {"request", "response"} \union EndKinds
Entries == [req : Reqs, answered : BOOLEAN]
Tallies == [completed : Nat, failed : Nat]
BookTypes ==
    /\ inFlight \subseteq Reqs /\ open \in [Reqs -> {"none", "sent", "answered"}]
    /\ closed \in Seq(Entries) /\ ended \in Seq(Entries)
    /\ counters \in Tallies /\ reported \in Tallies

\* An event of kind k about request r waits for the pump.
Has(k, r) == \E i \in DOMAIN evq : evq[i].kind = k /\ evq[i].req = r
Ending(r) == Has("finished", r) \/ Has("failed", r)

\* The end of a request is the last the pump hears of it, and no leg begins
\* after an answer.
EventsInOrder ==
    \A i, j \in DOMAIN evq :
        i < j /\ evq[i].req = evq[j].req /\ evq[j].kind \in BookKinds =>
            /\ evq[i].kind \notin EndKinds
            /\ evq[i].kind = "response" => evq[j].kind # "request"

\* What is queued about a request happened to it.
EventsAreTrue ==
    \A r \in Reqs :
        /\ \A k \in BookKinds : Has(k, r) => req[r].paired /\ req[r].st # "none"
        /\ \A k \in EndKinds : Has(k, r) => req[r].st = k
        /\ Has("response", r) => req[r].st \in {"answered"} \union EndKinds

\* Requests of which the pump has booked the beginning or has it in its queue, but
\* not the end.
Unbooked(r) == req[r].paired /\ req[r].st # "none" /\ (req[r].st \in EndKinds => Ending(r))
BooksFollow ==
    \A r \in Reqs :
        /\ r \in inFlight <=> open[r] # "none"
        /\ Unbooked(r) => Has("request", r) \/ r \in inFlight
        /\ ~Unbooked(r) => r \notin inFlight /\ \A k \in BookKinds : ~Has(k, r)
        /\ open[r] = "answered" => /\ req[r].st \in {"answered"} \union EndKinds
                                   /\ ~Has("request", r)
        /\ req[r].st = "answered" => open[r] = "answered" \/ Has("response", r)

\* The HAR ring holds the newest of the first m requests that ended; the ends of the
\* others are queued, in their order.
EndsFollow(m) ==
    /\ closed = LastN(SubSeq(ended, 1, m), HarCap)
    /\ \A j \in (m + 1)..Len(ended) : Ending(ended[j].req)
    /\ \A i \in DOMAIN evq : evq[i].kind \in EndKinds =>
           \E j \in (m + 1)..Len(ended) : ended[j].req = evq[i].req
    /\ \A i1, i2 \in DOMAIN evq : \A j1, j2 \in (m + 1)..Len(ended) :
           /\ i1 < i2 /\ evq[i1].kind \in EndKinds /\ evq[i2].kind \in EndKinds
           /\ ended[j1].req = evq[i1].req /\ ended[j2].req = evq[i2].req
           => j1 < j2
    /\ \A j \in (m + 1)..Len(ended) :
           ended[j].answered <=> open[ended[j].req] = "answered" \/ Has("response", ended[j].req)
EndedOnce ==
    /\ \A j \in DOMAIN ended : req[ended[j].req].st \in EndKinds /\ req[ended[j].req].paired
    /\ \A i, j \in DOMAIN ended : ended[i].req = ended[j].req => i = j
HarFollows == EndedOnce /\ \E m \in 0..Len(ended) : EndsFollow(m)

\* The counters, with what snapshots took from them, count the ends that were booked.
BookedEnds(k) == {r \in Reqs : req[r].st = k /\ req[r].paired /\ ~Has(k, r)}
CountersFollow ==
    /\ IsFiniteSet(BookedEnds("finished")) /\ IsFiniteSet(BookedEnds("failed"))
    /\ counters.completed + reported.completed = Cardinality(BookedEnds("finished"))
    /\ counters.failed + reported.failed = Cardinality(BookedEnds("failed"))

Books == EventsInOrder /\ EventsAreTrue /\ BooksFollow /\ HarFollows /\ CountersFollow
BooksInv == BookTypes /\ (~lagged => Books)

----------------------------------------------------------------------------
(* What Chromium does to a request, as the books see it                     *)

\* The events es come after those in the queue.
Adds(es) ==
    /\ Len(evq) \in Nat /\ Len(es) \in Nat /\ DOMAIN evq = 1..Len(evq) /\ DOMAIN es = 1..Len(es)
    /\ DOMAIN evq' = 1..(Len(evq) + Len(es))
    /\ \A i \in DOMAIN evq : evq'[i] = evq[i]
    /\ \A j \in DOMAIN es : evq'[Len(evq) + j] = es[j]

\* A queue that lost nothing has what was there and what was told.
LEMMA TellKeeps ==
    ASSUME RequestTypes, NEW es \in Seq(Events), Emit(es), ~lagged'
    PROVE  ~lagged /\ evq' = evq \o es /\ Adds(es)
  <1> DEFINE s == evq \o es
             gone == {s[i] : i \in 1..(Len(s) - Len(evq'))}
  <1>1. evq' = LastN(s, EventCap) /\ ~lagged /\ gone = {}
    BY DEF Emit
  <1>2. evq \in Seq(Events) /\ EventCap \in Nat \ {0}
    BY NetworkAssumption DEF RequestTypes
  <1>3. /\ s \in Seq(Events) /\ Len(s) = Len(evq) + Len(es) /\ Len(evq) \in Nat /\ Len(es) \in Nat
        /\ DOMAIN s = 1..Len(s) /\ DOMAIN evq = 1..Len(evq) /\ DOMAIN es = 1..Len(es)
        /\ \A i \in 1..Len(s) : s[i] = IF i <= Len(evq) THEN evq[i] ELSE es[i - Len(evq)]
    BY <1>2, ConcatProperties, LenProperties
  <1> HIDE DEF s
  <1>4. Len(s) <= EventCap
    <2>1. SUFFICES ASSUME ~(Len(s) <= EventCap) PROVE FALSE
      OBVIOUS
    <2>2. /\ 1 <= Len(s) - EventCap + 1 /\ Len(s) - EventCap + 1 \in Int /\ Len(s) \in Int
          /\ Len(s) - EventCap + 1 <= Len(s)
      BY <1>2, <1>3, <2>1
    <2>3. Len(evq') = EventCap
      <3>1. evq' = SubSeq(s, Len(s) - EventCap + 1, Len(s))
        BY <1>1, <2>1 DEF LastN
      <3>2. \A i \in (Len(s) - EventCap + 1)..Len(s) : s[i] \in Events
        BY <1>2, <1>3, <2>2, ElementOfSeq
      <3>3. Len(evq') = Len(s) - (Len(s) - EventCap + 1) + 1
        BY <2>2, <3>1, <3>2, SubSeqProperties
      <3> QED
        BY <1>2, <1>3, <3>3
    <2>4. 1 \in 1..(Len(s) - Len(evq'))
      BY <1>2, <1>3, <2>1, <2>3
    <2> QED
      BY <1>1, <2>4
  <1>5. evq' = s
    BY <1>1, <1>4 DEF LastN
  <1>6. ASSUME NEW j \in DOMAIN es
        PROVE  s[Len(evq) + j] = es[j]
    <2>1. Len(evq) + j \in 1..Len(s) /\ ~(Len(evq) + j <= Len(evq)) /\ (Len(evq) + j) - Len(evq) = j
      BY <1>3
    <2> QED
      BY <1>3, <2>1
  <1>7. \A i \in DOMAIN evq : s[i] = evq[i]
    BY <1>3
  <1> QED
    BY <1>1, <1>3, <1>5, <1>6, <1>7 DEF s, Adds

\* The kinds of book events es tells of r.
Says(es, r, K) ==
    /\ \A j \in DOMAIN es : es[j].kind \in BookKinds => es[j].req = r /\ es[j].kind \in K
    /\ \A k \in K : \E j \in DOMAIN es : es[j].kind = k /\ es[j].req = r
    /\ \A j \in DOMAIN es : es[j].kind \in EndKinds => j = Len(es)
    /\ K = {} \/ (\E k \in BookKinds : K = {k}) \/ (\E k \in EndKinds : K = {"response", k})
    /\ K \subseteq BookKinds
\* What may happen to a request of which the events K are told.
Turns(was, v, K) ==
    /\ v \in RequestStates
    /\ \/ was.st = "none" /\ v.st \in {"paused", "sent"} /\ K = (IF v.paired THEN {"request"} ELSE {})
       \/ /\ was.st = "sent" /\ was.paired /\ v.paired
          /\ \/ v.st \in {"paused", "sent"} /\ K = {"request"}
             \/ v.st = "answered" /\ K = {"response"}
       \/ was.st = "paused" /\ v.st = "sent" /\ v.paired = was.paired /\ K = {}
       \/ /\ was.st \in {"paused", "sent", "answered"} /\ v.st \in EndKinds /\ v.paired = was.paired
          /\ \/ v.paired /\ (K = {v.st} \/ K = {"response", v.st})
             \/ ~v.paired /\ K = {}
Lists(r, K) ==
    ended' = IF K \intersect EndKinds = {} THEN ended
             ELSE Append(ended, [req |-> r, answered |-> req[r].st = "answered" \/ "response" \in K])
Gains(r, K) == \A q \in Reqs, k \in BookKinds : Has(k, q)' <=> Has(k, q) \/ (q = r /\ k \in K)

LEMMA TellGains ==
    ASSUME RequestTypes, NEW es, Adds(es), NEW r \in Reqs, NEW K, Says(es, r, K)
    PROVE  Gains(r, K)
  <1>1. /\ Len(evq) \in Nat /\ Len(es) \in Nat /\ DOMAIN evq = 1..Len(evq) /\ DOMAIN es = 1..Len(es)
        /\ DOMAIN evq' = 1..(Len(evq) + Len(es))
        /\ \A i \in DOMAIN evq : evq'[i] = evq[i]
        /\ \A j \in DOMAIN es : evq'[Len(evq) + j] = es[j]
    BY DEF Adds
  <1>2. ASSUME NEW q \in Reqs, NEW k \in BookKinds
        PROVE  Has(k, q)' <=> Has(k, q) \/ (q = r /\ k \in K)
    <2>1. ASSUME Has(k, q)'
          PROVE  Has(k, q) \/ (q = r /\ k \in K)
      <3>1. PICK i \in DOMAIN evq' : evq'[i].kind = k /\ evq'[i].req = q
        BY <2>1 DEF Has
      <3>2. CASE i \in DOMAIN evq
        BY <1>1, <3>1, <3>2 DEF Has
      <3>3. CASE i \notin DOMAIN evq
        <4>1. i - Len(evq) \in DOMAIN es /\ Len(evq) + (i - Len(evq)) = i
          BY <1>1, <3>3
        <4>2. evq'[i] = es[i - Len(evq)]
          BY <1>1, <4>1
        <4> QED
          BY <3>1, <4>1, <4>2 DEF Says
      <3> QED
        BY <3>2, <3>3
    <2>2. ASSUME Has(k, q)
          PROVE  Has(k, q)'
      <3>1. PICK i \in DOMAIN evq : evq[i].kind = k /\ evq[i].req = q
        BY <2>2 DEF Has
      <3>2. i \in DOMAIN evq' /\ evq'[i] = evq[i]
        BY <1>1
      <3> QED
        BY <3>1, <3>2 DEF Has
    <2>3. ASSUME q = r, k \in K
          PROVE  Has(k, q)'
      <3>1. PICK j \in DOMAIN es : es[j].kind = k /\ es[j].req = r
        BY <2>3 DEF Says
      <3>2. Len(evq) + j \in DOMAIN evq' /\ evq'[Len(evq) + j] = es[j]
        BY <1>1
      <3> QED
        BY <2>3, <3>1, <3>2 DEF Has
    <2> QED
      BY <2>1, <2>2, <2>3
  <1> QED
    BY <1>2 DEF Gains

\* A request moves on and its events are told: nothing is booked yet.
LEMMA BooksMove ==
    ASSUME RequestTypes, BookTypes, EventsAreTrue, BooksFollow, NEW r \in Reqs, NEW v, NEW K,
           Turns(req[r], v, K), req' = [req EXCEPT ![r] = v], Gains(r, K), UNCHANGED <<inFlight, open>>
    PROVE  EventsAreTrue' /\ BooksFollow'
  <1>1. req'[r] = v /\ \A q \in Reqs \ {r} : req'[q] = req[q]
    BY DEF RequestTypes
  <1>2. \A q \in Reqs, k \in BookKinds : Has(k, q)' <=> Has(k, q) \/ (q = r /\ k \in K)
    BY DEF Gains
  <1>3. ASSUME NEW q \in Reqs \ {r}
        PROVE  /\ \A k \in BookKinds : Has(k, q)' <=> Has(k, q)
               /\ Unbooked(q)' <=> Unbooked(q)
    <2>1. \A k \in BookKinds : Has(k, q)' <=> Has(k, q)
      BY <1>2
    <2> QED
      BY <1>1, <2>1 DEF Unbooked, Ending, BookKinds, EndKinds
  <1>4. ASSUME NEW q \in Reqs \ {r}
        PROVE  /\ \A k \in BookKinds : Has(k, q)' => req'[q].paired /\ req'[q].st # "none"
               /\ \A k \in EndKinds : Has(k, q)' => req'[q].st = k
               /\ Has("response", q)' => req'[q].st \in {"answered"} \union EndKinds
               /\ q \in inFlight <=> open[q] # "none"
               /\ Unbooked(q)' => Has("request", q)' \/ q \in inFlight
               /\ ~Unbooked(q)' => q \notin inFlight /\ \A k \in BookKinds : ~Has(k, q)'
               /\ open[q] = "answered" => /\ req'[q].st \in {"answered"} \union EndKinds
                                          /\ ~Has("request", q)'
               /\ req'[q].st = "answered" => open[q] = "answered" \/ Has("response", q)'
    BY <1>1, <1>3 DEF EventsAreTrue, BooksFollow, BookKinds, EndKinds
  <1>5. /\ \A k \in BookKinds : Has(k, r) => req[r].paired /\ req[r].st # "none"
        /\ \A k \in EndKinds : Has(k, r) => req[r].st = k
        /\ Has("response", r) => req[r].st \in {"answered"} \union EndKinds
        /\ r \in inFlight <=> open[r] # "none"
        /\ Unbooked(r) => Has("request", r) \/ r \in inFlight
        /\ ~Unbooked(r) => r \notin inFlight /\ \A k \in BookKinds : ~Has(k, r)
        /\ open[r] = "answered" => req[r].st \in {"answered"} \union EndKinds /\ ~Has("request", r)
        /\ req[r].st = "answered" => open[r] = "answered" \/ Has("response", r)
    BY DEF EventsAreTrue, BooksFollow
  <1>6. \A k \in BookKinds : Has(k, r)' <=> Has(k, r) \/ k \in K
    BY <1>2
  <1>7. /\ \A k \in BookKinds : Has(k, r)' => v.paired /\ v.st # "none"
        /\ \A k \in EndKinds : Has(k, r)' => v.st = k
        /\ Has("response", r)' => v.st \in {"answered"} \union EndKinds
    BY <1>5, <1>6 DEF Turns, BookKinds, EndKinds, RequestStates
  <1>8. Unbooked(r)' <=> v.paired /\ v.st # "none" /\ (v.st \in EndKinds => Has("finished", r)' \/ Has("failed", r)')
    BY <1>1 DEF Unbooked, Ending
  <1>9. Unbooked(r) <=> req[r].paired /\ req[r].st # "none" /\ (req[r].st \in EndKinds => Has("finished", r) \/ Has("failed", r))
    BY DEF Unbooked, Ending
  <1>10. /\ Unbooked(r)' => Has("request", r)' \/ r \in inFlight
         /\ ~Unbooked(r)' => r \notin inFlight /\ \A k \in BookKinds : ~Has(k, r)'
    BY <1>5, <1>6, <1>8, <1>9 DEF Turns, BookKinds, EndKinds, RequestStates
  <1>11. /\ open[r] = "answered" => v.st \in {"answered"} \union EndKinds /\ ~Has("request", r)'
         /\ v.st = "answered" => open[r] = "answered" \/ Has("response", r)'
    BY <1>5, <1>6 DEF Turns, BookKinds, EndKinds
  <1>12. EventsAreTrue'
    BY <1>1, <1>4, <1>7 DEF EventsAreTrue
  <1>13. BooksFollow'
    BY <1>1, <1>4, <1>5, <1>10, <1>11 DEF BooksFollow
  <1> QED
    BY <1>12, <1>13

\* An end that is queued is not counted yet.
LEMMA CountersMove ==
    ASSUME RequestTypes, BookTypes, EventsAreTrue, BooksFollow, CountersFollow,
           NEW r \in Reqs, NEW v, NEW K,
           Turns(req[r], v, K), req' = [req EXCEPT ![r] = v], Gains(r, K), UNCHANGED <<counters, reported>>
    PROVE  CountersFollow'
  <1>1. req'[r] = v /\ \A q \in Reqs \ {r} : req'[q] = req[q]
    BY DEF RequestTypes
  <1>2. \A q \in Reqs, k \in BookKinds : Has(k, q)' <=> Has(k, q) \/ (q = r /\ k \in K)
    BY DEF Gains
  <1>3. ASSUME NEW k \in EndKinds
        PROVE  BookedEnds(k)' = BookedEnds(k)
    <2>1. ASSUME NEW q \in Reqs \ {r}
          PROVE  q \in BookedEnds(k)' <=> q \in BookedEnds(k)
      BY <1>1, <1>2 DEF BookedEnds, BookKinds
    <2>2. r \notin BookedEnds(k) /\ r \notin BookedEnds(k)'
      BY <1>1, <1>2 DEF BookedEnds, Turns, BookKinds, EndKinds
    <2>3. BookedEnds(k)' \subseteq Reqs /\ BookedEnds(k) \subseteq Reqs
      BY DEF BookedEnds
    <2> QED
      BY <2>1, <2>2, <2>3
  <1> QED
    BY <1>3 DEF CountersFollow, EndKinds

\* Events about a request that had not ended come after all others about it.
LEMMA OrderMoves ==
    ASSUME RequestTypes, EventsInOrder, EventsAreTrue, NEW r \in Reqs, NEW v, NEW K, NEW es,
           Adds(es), Says(es, r, K), Turns(req[r], v, K)
    PROVE  EventsInOrder'
  <1>1. /\ Len(evq) \in Nat /\ Len(es) \in Nat /\ DOMAIN evq = 1..Len(evq) /\ DOMAIN es = 1..Len(es)
        /\ DOMAIN evq' = 1..(Len(evq) + Len(es))
        /\ \A i \in DOMAIN evq : evq'[i] = evq[i]
        /\ \A j \in DOMAIN es : evq'[Len(evq) + j] = es[j]
    BY DEF Adds
  <1>2. SUFFICES ASSUME NEW i \in DOMAIN evq', NEW j \in DOMAIN evq', i < j, evq'[i].req = evq'[j].req,
                        evq'[j].kind \in BookKinds
                 PROVE  evq'[i].kind \notin EndKinds /\ (evq'[i].kind = "response" => evq'[j].kind # "request")
    BY DEF EventsInOrder
  <1>3. CASE j \in DOMAIN evq
    <2>1. i \in DOMAIN evq
      BY <1>1, <1>2, <1>3
    <2> QED
      BY <1>1, <1>2, <1>3, <2>1 DEF EventsInOrder
  <1>4. CASE j \notin DOMAIN evq
    <2>1. j - Len(evq) \in DOMAIN es /\ Len(evq) + (j - Len(evq)) = j
      BY <1>1, <1>4
    <2>2. evq'[j] = es[j - Len(evq)]
      BY <1>1, <2>1
    <2>3. evq'[j].req = r /\ evq'[j].kind \in K
      BY <1>2, <2>1, <2>2 DEF Says
    <2>4. CASE i \in DOMAIN evq
      <3>1. evq[i].req = r /\ evq'[i] = evq[i]
        BY <1>1, <1>2, <2>3, <2>4
      <3>2. Has(evq[i].kind, r)
        BY <2>4, <3>1 DEF Has
      <3>3. req[r].st \notin EndKinds
        BY <2>3 DEF Turns, EndKinds
      <3>4. evq[i].kind \notin EndKinds
        BY <3>2, <3>3 DEF EventsAreTrue
      <3>5. evq[i].kind = "response" => req[r].st = "answered"
        BY <3>2, <3>3 DEF EventsAreTrue
      <3>6. req[r].st = "answered" => "request" \notin K
        BY DEF Turns, EndKinds
      <3> QED
        BY <2>3, <3>1, <3>4, <3>5, <3>6
    <2>5. CASE i \notin DOMAIN evq
      <3>1. i - Len(evq) \in DOMAIN es /\ Len(evq) + (i - Len(evq)) = i
        BY <1>1, <2>5
      <3>2. evq'[i] = es[i - Len(evq)] /\ i - Len(evq) # Len(es)
        BY <1>1, <1>2, <2>1, <3>1
      <3>3. evq'[i].kind \notin EndKinds
        BY <3>1, <3>2 DEF Says
      <3>4. evq'[i].kind = "response" => "response" \in K
        BY <3>1, <3>2 DEF Says, BookKinds
      <3>5. "response" \in K => "request" \notin K
        BY DEF Turns, EndKinds, RequestStates
      <3> QED
        BY <2>3, <3>3, <3>4, <3>5
    <2> QED
      BY <2>4, <2>5
  <1> QED
    BY <1>3, <1>4

\* The first m of a sequence stay when it grows.
LEMMA PrefixStays ==
    ASSUME NEW S, NEW s \in Seq(S), NEW e \in S, NEW m \in 0..Len(s)
    PROVE  SubSeq(Append(s, e), 1, m) = SubSeq(s, 1, m)
  <1>1. /\ Append(s, e) \in Seq(S) /\ Len(s) \in Nat /\ Len(Append(s, e)) = Len(s) + 1
        /\ \A i \in 1..Len(s) : Append(s, e)[i] = s[i]
    BY AppendProperties, LenProperties
  <1> DEFINE t == Append(s, e)
             a == SubSeq(t, 1, m)
             b == SubSeq(s, 1, m)
  <1>2. m \in Nat /\ m <= Len(s) /\ (\A i \in 1..m : s[i] \in S) /\ \A i \in 1..m : t[i] \in S
    BY <1>1, ElementOfSeq
  <1>3. CASE m = 0
    BY <1>3, SubSeqEmpty
  <1>4. CASE m # 0
    <2>1. 1 <= m + 1 /\ m - 1 + 1 = m /\ 1 \in Int /\ m \in Int
      BY <1>2
    <2>2. a \in Seq(S) /\ Len(a) = m /\ \A i \in 1..m : a[i] = t[1 + i - 1]
      <3> HIDE DEF t
      <3> QED
        BY <1>2, <1>4, <2>1, SubSeqProperties
    <2>3. b \in Seq(S) /\ Len(b) = m /\ \A i \in 1..m : b[i] = s[1 + i - 1]
      BY <1>2, <1>4, <2>1, SubSeqProperties
    <2> HIDE DEF a, b, t
    <2>4. \A i \in 1..m : 1 + i - 1 = i /\ i \in 1..Len(s)
      BY <1>1, <1>2
    <2>5. \A i \in 1..Len(a) : a[i] = b[i]
      BY <1>1, <2>2, <2>3, <2>4 DEF t
    <2>6. a = b
      BY <2>2, <2>3, <2>5, SeqEqual
    <2> QED
      BY <2>6 DEF a, b, t
  <1> QED
    BY <1>3, <1>4

\* A request that ends is listed, its end queued after those of all others.
LEMMA HarMoves ==
    ASSUME RequestTypes, BookTypes, EventsAreTrue, BooksFollow, HarFollows, NEW r \in Reqs, NEW v, NEW K,
           NEW es, Adds(es), Says(es, r, K), Turns(req[r], v, K),
           req' = [req EXCEPT ![r] = v], Lists(r, K), UNCHANGED <<open, closed>>
    PROVE  HarFollows' /\ ended' \in Seq(Entries)
  <1>0. /\ Len(evq) \in Nat /\ Len(es) \in Nat /\ DOMAIN evq = 1..Len(evq) /\ DOMAIN es = 1..Len(es)
        /\ DOMAIN evq' = 1..(Len(evq) + Len(es))
        /\ \A i \in DOMAIN evq : evq'[i] = evq[i]
        /\ \A j \in DOMAIN es : evq'[Len(evq) + j] = es[j]
    BY DEF Adds
  <1>1. req'[r] = v /\ \A q \in Reqs \ {r} : req'[q] = req[q]
    BY DEF RequestTypes
  <1>2. \A q \in Reqs, k \in BookKinds : Has(k, q)' <=> Has(k, q) \/ (q = r /\ k \in K)
    BY TellGains DEF Gains
  <1>3. /\ ended \in Seq(Entries) /\ Len(ended) \in Nat /\ DOMAIN ended = 1..Len(ended)
        /\ \A j \in DOMAIN ended : ended[j].req \in Reqs
    <2>1. ended \in Seq(Entries) /\ Len(ended) \in Nat /\ DOMAIN ended = 1..Len(ended)
      BY LenProperties DEF BookTypes
    <2>2. \A j \in DOMAIN ended : ended[j] \in Entries
      BY <2>1, ElementOfSeq
    <2> QED
      BY <2>1, <2>2 DEF Entries
  <1>4. PICK m \in 0..Len(ended) : EndsFollow(m)
    BY DEF HarFollows
  <1>5. req[r].st \notin EndKinds
    BY DEF Turns, EndKinds
  <1>6. \A j \in DOMAIN ended : ended[j].req # r
    BY <1>5 DEF HarFollows, EndedOnce
  <1>7. /\ \A q \in Reqs \ {r} : \A k \in BookKinds : Has(k, q)' <=> Has(k, q)
        /\ \A q \in Reqs \ {r} : Ending(q)' <=> Ending(q)
    BY <1>2 DEF Ending, BookKinds, EndKinds
  <1>8. \A j \in (m + 1)..Len(ended) : j \in DOMAIN ended
    BY <1>3
  <1>9. \A i \in DOMAIN evq : evq[i].kind \in EndKinds => evq[i].req # r
    <2>1. \A k \in EndKinds : ~Has(k, r)
      BY <1>5 DEF EventsAreTrue
    <2> QED
      BY <2>1 DEF Has
  <1>10. ASSUME NEW i \in DOMAIN evq', evq'[i].kind \in EndKinds, i \notin DOMAIN evq
         PROVE  evq'[i].req = r /\ evq'[i].kind \in K /\ i = Len(evq) + Len(es)
    <2>1. i - Len(evq) \in DOMAIN es /\ Len(evq) + (i - Len(evq)) = i
      BY <1>0, <1>10
    <2>2. evq'[i] = es[i - Len(evq)]
      BY <1>0, <2>1
    <2>3. i - Len(evq) = Len(es) /\ evq'[i].req = r /\ evq'[i].kind \in K
      BY <1>10, <2>1, <2>2 DEF Says, BookKinds
    <2> QED
      BY <1>0, <2>1, <2>3
  <1>11. CASE K \intersect EndKinds = {}
    <2>1. ended' = ended
      BY <1>11 DEF Lists
    <2>2. EndedOnce'
      BY <1>1, <1>3, <1>6, <2>1 DEF HarFollows, EndedOnce
    <2>3. \A i \in DOMAIN evq' : evq'[i].kind \in EndKinds => i \in DOMAIN evq /\ evq'[i] = evq[i]
      BY <1>0, <1>10, <1>11
    <2>4. EndsFollow(m)'
      <3>1. (closed = LastN(SubSeq(ended, 1, m), HarCap))'
        BY <1>4, <2>1 DEF EndsFollow
      <3>2. (\A j \in (m + 1)..Len(ended) : Ending(ended[j].req))'
        <4>1. SUFFICES ASSUME NEW j \in (m + 1)..Len(ended), NEW q \in Reqs \ {r}, q = ended[j].req
                       PROVE  Ending(q)'
          BY <1>3, <1>6, <1>8, <2>1
        <4> QED
          BY <1>4, <1>7, <4>1 DEF EndsFollow
      <3>3. (\A i \in DOMAIN evq : evq[i].kind \in EndKinds =>
                \E j \in (m + 1)..Len(ended) : ended[j].req = evq[i].req)'
        BY <1>4, <2>1, <2>3 DEF EndsFollow
      <3>4. (\A i1, i2 \in DOMAIN evq : \A j1, j2 \in (m + 1)..Len(ended) :
                /\ i1 < i2 /\ evq[i1].kind \in EndKinds /\ evq[i2].kind \in EndKinds
                /\ ended[j1].req = evq[i1].req /\ ended[j2].req = evq[i2].req
                => j1 < j2)'
        BY <1>4, <2>1, <2>3 DEF EndsFollow
      <3>5. (\A j \in (m + 1)..Len(ended) :
                ended[j].answered <=> open[ended[j].req] = "answered" \/ Has("response", ended[j].req))'
        <4>1. SUFFICES ASSUME NEW j \in (m + 1)..Len(ended), NEW q \in Reqs \ {r}, q = ended[j].req
                       PROVE  ended[j].answered <=> open[q] = "answered" \/ Has("response", q)'
          BY <1>3, <1>6, <1>8, <2>1
        <4> QED
          BY <1>4, <1>7, <4>1 DEF EndsFollow, BookKinds
      <3> QED
        BY <3>1, <3>2, <3>3, <3>4, <3>5 DEF EndsFollow
    <2> QED
      BY <1>3, <1>4, <2>1, <2>2, <2>4 DEF HarFollows
  <1>12. CASE K \intersect EndKinds # {}
    <2> DEFINE e == [req |-> r, answered |-> req[r].st = "answered" \/ "response" \in K]
               n == Len(ended)
    <2>1. e \in Entries /\ e.req = r /\ (e.answered <=> req[r].st = "answered" \/ "response" \in K)
      BY DEF Entries
    <2>2. ended' = Append(ended, e)
      BY <1>12 DEF Lists
    <2> HIDE DEF e
    <2>3. /\ ended' \in Seq(Entries) /\ Len(ended') = n + 1 /\ DOMAIN ended' = 1..(n + 1)
          /\ \A j \in 1..n : ended'[j] = ended[j]
          /\ ended'[n + 1] = e
      <3>1. Append(ended, e) \in Seq(Entries) /\ Len(Append(ended, e)) = n + 1
        BY <1>3, <2>1, AppendProperties
      <3>2. DOMAIN Append(ended, e) = 1..(n + 1)
        BY <3>1, LenProperties
      <3> QED
        BY <1>3, <2>1, <2>2, <3>1, <3>2, AppendProperties
    <2> HIDE DEF n
    <2>4. n \in Nat /\ DOMAIN ended = 1..n /\ m \in 0..n /\ n = Len(ended)
      BY <1>3 DEF n
    <2>5. v.st \in EndKinds /\ v.paired /\ v.st \in K /\ K \subseteq {"response", v.st}
      BY <1>12 DEF Turns, EndKinds
    <2>6. EndedOnce'
      <3>1. \A j \in DOMAIN ended' : j \in DOMAIN ended \/ j = n + 1
        BY <2>3, <2>4
      <3>2. \A j \in DOMAIN ended' : req'[ended'[j].req].st \in EndKinds /\ req'[ended'[j].req].paired
        <4>1. \A j \in DOMAIN ended : req[ended[j].req].st \in EndKinds /\ req[ended[j].req].paired
          BY DEF HarFollows, EndedOnce
        <4> QED
          BY <1>1, <1>3, <1>6, <2>1, <2>3, <2>4, <2>5, <3>1, <4>1
      <3>3. \A i, j \in DOMAIN ended' : ended'[i].req = ended'[j].req => i = j
        <4>1. \A i, j \in DOMAIN ended : ended[i].req = ended[j].req => i = j
          BY DEF HarFollows, EndedOnce
        <4> QED
          BY <1>6, <2>1, <2>3, <2>4, <3>1, <4>1
      <3> QED
        BY <3>2, <3>3 DEF EndedOnce
    <2>7. \A j \in (m + 1)..(n + 1) : \/ j \in (m + 1)..n /\ ended'[j] = ended[j] /\ ended[j].req # r
                                      \/ j = n + 1 /\ ended'[j].req = r
      BY <1>6, <2>1, <2>3, <2>4
    <2>8. Has(v.st, r)'
      BY <1>2, <2>5 DEF BookKinds
    <2>9. EndsFollow(m)'
      <3>1. (closed = LastN(SubSeq(ended, 1, m), HarCap))'
        <4>1. SubSeq(ended', 1, m) = SubSeq(ended, 1, m)
          BY <1>3, <1>4, <2>1, <2>2, PrefixStays
        <4> QED
          BY <1>4, <4>1 DEF EndsFollow
      <3>2. (\A j \in (m + 1)..Len(ended) : Ending(ended[j].req))'
        <4>1. Ending(r)'
          BY <2>5, <2>8 DEF Ending, EndKinds
        <4>2. SUFFICES ASSUME NEW j \in (m + 1)..(n + 1), NEW q, q = ended'[j].req
                       PROVE  Ending(q)'
          BY <2>3
        <4>3. ASSUME j \in (m + 1)..n
              PROVE  Ending(q)'
          <5>1. q = ended[j].req /\ q \in Reqs \ {r}
            BY <1>3, <1>8, <2>4, <2>7, <4>2, <4>3
          <5> QED
            BY <1>4, <1>7, <2>4, <4>3, <5>1 DEF EndsFollow
        <4> QED
          BY <2>7, <4>1, <4>2, <4>3
      <3>3. (\A i \in DOMAIN evq : evq[i].kind \in EndKinds =>
                \E j \in (m + 1)..Len(ended) : ended[j].req = evq[i].req)'
        <4>1. SUFFICES ASSUME NEW i \in DOMAIN evq', evq'[i].kind \in EndKinds
                       PROVE  \E j \in (m + 1)..(n + 1) : ended'[j].req = evq'[i].req
          BY <2>3
        <4>2. CASE i \in DOMAIN evq
          <5>1. PICK j \in (m + 1)..n : ended[j].req = evq[i].req
            BY <1>0, <1>4, <2>4, <4>1, <4>2 DEF EndsFollow
          <5>2. j \in (m + 1)..(n + 1) /\ ended'[j] = ended[j]
            BY <2>3, <2>4
          <5> QED
            BY <1>0, <4>2, <5>1, <5>2
        <4>3. CASE i \notin DOMAIN evq
          <5>1. n + 1 \in (m + 1)..(n + 1)
            BY <2>4
          <5> QED
            BY <1>10, <2>1, <2>3, <4>1, <4>3, <5>1
        <4> QED
          BY <4>2, <4>3
      <3>4. (\A i1, i2 \in DOMAIN evq : \A j1, j2 \in (m + 1)..Len(ended) :
                /\ i1 < i2 /\ evq[i1].kind \in EndKinds /\ evq[i2].kind \in EndKinds
                /\ ended[j1].req = evq[i1].req /\ ended[j2].req = evq[i2].req
                => j1 < j2)'
        <4>1. SUFFICES ASSUME NEW i1 \in DOMAIN evq', NEW i2 \in DOMAIN evq',
                              NEW j1 \in (m + 1)..(n + 1), NEW j2 \in (m + 1)..(n + 1),
                              i1 < i2, evq'[i1].kind \in EndKinds, evq'[i2].kind \in EndKinds,
                              ended'[j1].req = evq'[i1].req, ended'[j2].req = evq'[i2].req
                       PROVE  j1 < j2
          BY <2>3
        <4>2. i1 \in DOMAIN evq /\ evq'[i1] = evq[i1] /\ evq[i1].req # r
          BY <1>0, <1>9, <1>10, <4>1
        <4>3. j1 \in (m + 1)..n /\ ended'[j1] = ended[j1]
          BY <2>7, <4>1, <4>2
        <4>4. CASE i2 \in DOMAIN evq
          <5>1. evq'[i2] = evq[i2] /\ evq[i2].req # r
            BY <1>0, <1>9, <4>1, <4>4
          <5>2. j2 \in (m + 1)..n /\ ended'[j2] = ended[j2]
            BY <2>7, <4>1, <5>1
          <5> QED
            BY <1>4, <2>4, <4>1, <4>2, <4>3, <4>4, <5>1, <5>2 DEF EndsFollow
        <4>5. CASE i2 \notin DOMAIN evq
          <5>1. j2 = n + 1
            BY <1>10, <2>7, <4>1, <4>5
          <5> QED
            BY <2>4, <4>3, <5>1
        <4> QED
          BY <4>4, <4>5
      <3>5. (\A j \in (m + 1)..Len(ended) :
                ended[j].answered <=> open[ended[j].req] = "answered" \/ Has("response", ended[j].req))'
        <4>1. SUFFICES ASSUME NEW j \in (m + 1)..(n + 1), NEW q, q = ended'[j].req
                       PROVE  ended'[j].answered <=> open[q] = "answered" \/ Has("response", q)'
          BY <2>3
        <4>3. ASSUME j \in (m + 1)..n
              PROVE  ended[j].answered <=> open[q] = "answered" \/ Has("response", q)'
          <5>1. q = ended[j].req /\ q \in Reqs \ {r}
            BY <1>3, <1>8, <2>4, <2>7, <4>1, <4>3
          <5> QED
            BY <1>4, <1>7, <2>4, <4>3, <5>1 DEF EndsFollow, BookKinds
        <4>2. e.answered <=> open'[r] = "answered" \/ Has("response", r)'
          <5>1. Has("response", r)' <=> Has("response", r) \/ "response" \in K
            BY <1>2 DEF BookKinds
          <5>2. req[r].st = "answered" <=> open[r] = "answered" \/ Has("response", r)
            BY <1>5 DEF BooksFollow, EventsAreTrue
          <5> QED
            BY <2>1, <5>1, <5>2
        <4> QED
          BY <2>1, <2>3, <2>7, <4>1, <4>2, <4>3
      <3> QED
        BY <3>1, <3>2, <3>3, <3>4, <3>5 DEF EndsFollow
    <2>10. m \in 0..Len(ended')
      BY <2>3, <2>4
    <2> QED
      BY <2>3, <2>6, <2>9, <2>10 DEF HarFollows
  <1> QED
    BY <1>11, <1>12

\* A request moves on, its events are told and its end is listed; the books wait for
\* the pump.
LEMMA MoveStep ==
    ASSUME RequestTypes, BooksInv, NEW r \in Reqs, NEW v, NEW K, NEW es \in Seq(Events),
           Emit(es) \/ (es = <<>> /\ UNCHANGED <<evq, lagged>>), Says(es, r, K), Turns(req[r], v, K),
           req' = [req EXCEPT ![r] = v], Lists(r, K), UNCHANGED <<bookVars, reported>>
    PROVE  BooksInv'
  <1>1. UNCHANGED <<inFlight, open, closed, counters, reported>>
    BY DEF bookVars
  <1>2. BookTypes'
    <2>1. CASE K \intersect EndKinds = {}
      BY <1>1, <2>1 DEF BooksInv, BookTypes, Lists
    <2>2. CASE K \intersect EndKinds # {}
      <3> DEFINE e == [req |-> r, answered |-> req[r].st = "answered" \/ "response" \in K]
      <3>1. e \in Entries /\ ended' = Append(ended, e) /\ ended \in Seq(Entries)
        BY <2>2 DEF Entries, Lists, BooksInv, BookTypes
      <3> HIDE DEF e
      <3>2. ended' \in Seq(Entries)
        BY <3>1, AppendProperties
      <3> QED
        BY <1>1, <3>2 DEF BooksInv, BookTypes
    <2> QED
      BY <2>1, <2>2
  <1>3. ASSUME ~lagged'
        PROVE  Books'
    <2>1. ~lagged /\ Adds(es)
      <3>1. CASE Emit(es)
        BY <1>3, <3>1, TellKeeps
      <3>2. CASE es = <<>> /\ UNCHANGED <<evq, lagged>>
        <4>1. Len(evq) \in Nat /\ DOMAIN evq = 1..Len(evq)
          BY LenProperties DEF RequestTypes
        <4>2. Len(es) = 0 /\ DOMAIN es = 1..0 /\ Len(evq) + 0 = Len(evq)
          BY <3>2, <4>1
        <4> QED
          BY <1>3, <3>2, <4>1, <4>2 DEF Adds
      <3> QED
        BY <3>1, <3>2
    <2>2. BookTypes /\ Books
      BY <2>1 DEF BooksInv
    <2>3. Gains(r, K)
      BY <2>1, TellGains
    <2>4. EventsAreTrue' /\ BooksFollow'
      BY <1>1, <2>2, <2>3, BooksMove DEF Books
    <2>5. CountersFollow'
      BY <1>1, <2>2, <2>3, CountersMove DEF Books
    <2>6. EventsInOrder'
      BY <2>1, <2>2, OrderMoves DEF Books
    <2>7. HarFollows'
      BY <1>1, <2>1, <2>2, HarMoves DEF Books
    <2> QED
      BY <2>4, <2>5, <2>6, <2>7 DEF Books
  <1> QED
    BY <1>2, <1>3 DEF BooksInv

\* What one event and two say.
LEMMA SaysOne ==
    ASSUME NEW r \in Reqs, NEW k \in BookKinds, NEW u
    PROVE  Says(<<Event(k, r, u)>>, r, {k})
  <1> DEFINE es == <<Event(k, r, u)>>
  <1>1. DOMAIN es = {1} /\ Len(es) = 1 /\ es[1].kind = k /\ es[1].req = r
    BY DEF Event
  <1> HIDE DEF es
  <1> QED
    BY <1>1 DEF Says, BookKinds, EndKinds, es

LEMMA SaysAnswer ==
    ASSUME NEW r \in Reqs, NEW u
    PROVE  Says(<<Event("response", r, u), Event("finished", r, u)>>, r, {"response", "finished"})
  <1> DEFINE es == <<Event("response", r, u), Event("finished", r, u)>>
  <1>1. /\ DOMAIN es = {1, 2} /\ Len(es) = 2 /\ es[1].kind = "response" /\ es[1].req = r
        /\ es[2].kind = "finished" /\ es[2].req = r
    BY DEF Event
  <1> HIDE DEF es
  <1> QED
    BY <1>1 DEF Says, BookKinds, EndKinds, es

LEMMA SaysNothing == \A r : Says(<<>>, r, {})
  BY DEF Says

\* The concatenations of sequences of at most one element.
LEMMA ConcatSmall ==
    /\ \A x, y : <<x>> \o <<y>> = <<x, y>>
    /\ \A x : <<x>> \o <<>> = <<x>> /\ <<>> \o <<x>> = <<x>> /\ <<>> \o <<>> = <<>>
  <1>1. ASSUME NEW x, NEW y
        PROVE  <<x>> \o <<y>> = <<x, y>>
    <2> DEFINE S == {x, y}
               s == <<x>>
               t == <<y>>
               c == s \o t
               d == <<x, y>>
    <2>1. /\ s \in Seq(S) /\ t \in Seq(S) /\ d \in Seq(S) /\ Len(s) = 1 /\ Len(t) = 1 /\ Len(d) = 2
          /\ s[1] = x /\ t[1] = y /\ d[1] = x /\ d[2] = y
      OBVIOUS
    <2> HIDE DEF S, s, t, d
    <2>2. /\ c \in Seq(S) /\ Len(c) = Len(s) + Len(t)
          /\ \A i \in 1..Len(s) + Len(t) : c[i] = IF i <= Len(s) THEN s[i] ELSE t[i - Len(s)]
      BY <2>1, ConcatProperties
    <2> HIDE DEF c
    <2>3. Len(c) = Len(d) /\ c[1] = d[1] /\ c[2] = d[2]
      BY <2>1, <2>2
    <2>4. \A i \in 1..Len(c) : c[i] = d[i]
      BY <2>1, <2>3
    <2>5. c = d
      BY <2>1, <2>2, <2>3, <2>4, SeqEqual
    <2> QED
      BY <2>5 DEF c, d, s, t
  <1>2. ASSUME NEW x
        PROVE  <<x>> \o <<>> = <<x>> /\ <<>> \o <<x>> = <<x>> /\ <<>> \o <<>> = <<>>
    <2>1. <<x>> \in Seq({x}) /\ <<>> \in Seq({x})
      OBVIOUS
    <2> QED
      BY <2>1, ConcatEmptySeq
  <1> QED
    BY <1>1, <1>2

LEMMA SaysLeaves ==
    ASSUME NEW r \in Reqs, NEW u, NEW p \in BOOLEAN
    PROVE  Says((IF p THEN <<Event("request", r, u)>> ELSE <<>>)
                \o (IF Pauses(u) THEN <<Event("paused", r, u)>> ELSE <<>>), r, IF p THEN {"request"} ELSE {})
  <1> DEFINE a == Event("request", r, u)
             b == Event("paused", r, u)
  <1>1. a.kind = "request" /\ a.req = r /\ b.kind = "paused"
    BY DEF Event
  <1> HIDE DEF a, b
  <1>2. /\ \A x, y : <<x>> \o <<y>> = <<x, y>>
        /\ \A x : <<x>> \o <<>> = <<x>> /\ <<>> \o <<x>> = <<x>> /\ <<>> \o <<>> = <<>>
    BY ConcatSmall
  <1>3. ASSUME NEW es, es = <<a, b>> \/ es = <<a>>
        PROVE  Says(es, r, {"request"})
    <2>1. /\ 1 \in DOMAIN es /\ es[1] = a
          /\ \A j \in DOMAIN es : j = 1 \/ (j = 2 /\ es[2] = b)
      BY <1>3
    <2> QED
      BY <1>1, <2>1 DEF Says, BookKinds, EndKinds
  <1>4. ASSUME NEW es, es = <<b>> \/ es = <<>>
        PROVE  Says(es, r, {})
    <2>1. \A j \in DOMAIN es : es[j] = b
      BY <1>4
    <2> QED
      BY <1>1, <2>1 DEF Says, BookKinds, EndKinds
  <1> QED
    BY <1>2, <1>3, <1>4 DEF a, b

LEMMA LeavesBooks ==
    ASSUME RequestTypes, BooksInv, NEW r \in Reqs, NEW u \in Urls, NEW paired \in BOOLEAN, Leaves(r, u, paired),
           req[r].st = "none" \/ (req[r].st = "sent" /\ req[r].paired /\ paired),
           UNCHANGED <<ended, bookVars, reported>>
    PROVE  BooksInv'
  <1> DEFINE v == [st |-> IF Pauses(u) THEN "paused" ELSE "sent", url |-> u, paired |-> paired]
             first == IF paired THEN <<Event("request", r, u)>> ELSE <<>>
             second == IF Pauses(u) THEN <<Event("paused", r, u)>> ELSE <<>>
             es == first \o second
             K == IF paired THEN {"request"} ELSE {}
  <1>1. u \in AnyUrl /\ Event("request", r, u) \in Events /\ Event("paused", r, u) \in Events
    BY EventTypes DEF AnyUrl
  <1>2. v \in RequestStates /\ v.st \in {"paused", "sent"} /\ v.paired = paired
    BY <1>1 DEF RequestStates, States
  <1>3. es \in Seq(Events)
    <2> DEFINE a == Event("request", r, u)
               b == Event("paused", r, u)
    <2> HIDE DEF a, b
    <2>1. a \in Events /\ b \in Events
      BY <1>1 DEF a, b
    <2>2. <<a>> \in Seq(Events) /\ <<b>> \in Seq(Events) /\ <<>> \in Seq(Events)
      BY <2>1
    <2>3. first \in Seq(Events) /\ second \in Seq(Events)
      BY <2>2 DEF a, b
    <2> HIDE DEF first, second
    <2> QED
      BY <2>3, ConcatProperties
  <1>4. Says(es, r, K)
    BY SaysLeaves
  <1>5. req' = [req EXCEPT ![r] = v] /\ Emit(es)
    BY DEF Leaves
  <1> HIDE DEF v, es
  <1>6. Turns(req[r], v, K)
    BY <1>2 DEF Turns
  <1>7. Lists(r, K)
    BY DEF Lists, EndKinds
  <1> QED
    BY <1>3, <1>4, <1>5, <1>6, <1>7, MoveStep

\* A request that changes its state alone.
LEMMA BecomesBooks ==
    ASSUME RequestTypes, BooksInv, NEW r \in Reqs, NEW st \in States, Becomes(r, st), NEW K,
           NEW es \in Seq(Events), Emit(es) \/ (es = <<>> /\ UNCHANGED <<evq, lagged>>), Says(es, r, K),
           \/ req[r].st = "sent" /\ req[r].paired /\ st = "answered" /\ K = {"response"}
           \/ req[r].st = "paused" /\ st = "sent" /\ K = {}
           \/ /\ Running(r) /\ st \in EndKinds
              /\ \/ req[r].paired /\ (K = {st} \/ K = {"response", st})
                 \/ ~req[r].paired /\ K = {},
           Lists(r, K), UNCHANGED <<bookVars, reported>>
    PROVE  BooksInv'
  <1> DEFINE v == [req[r] EXCEPT !.st = st]
  <1>0. req \in [Reqs -> RequestStates]
    BY DEF RequestTypes
  <1>1. v \in RequestStates /\ v.st = st /\ v.paired = req[r].paired
    BY <1>0 DEF RequestStates
  <1>2. req' = [req EXCEPT ![r] = v]
    BY <1>0 DEF Becomes
  <1> HIDE DEF v
  <1>3. Turns(req[r], v, K)
    BY <1>1 DEF Turns, Running, EndKinds
  <1> QED
    BY <1>2, <1>3, MoveStep

LEMMA EndsBooks ==
    ASSUME RequestTypes, BooksInv, NEW r \in Reqs, NEW st \in EndKinds, Running(r), NEW es,
           Ends(r, st, es), UNCHANGED <<bookVars, reported>>,
           \/ es = <<Told(st, r)>>
           \/ es = <<Told("response", r), Told("finished", r)>> /\ st = "finished"
    PROVE  BooksInv'
  <1>0. st \in States /\ st \in BookKinds
    BY DEF States, EndKinds, BookKinds
  <1>1. Becomes(r, st)
    BY DEF Ends
  <1>2. CASE ~req[r].paired
    <2>1. UNCHANGED <<evq, lagged, ended>>
      BY <1>2 DEF Ends
    <2>2. Lists(r, {}) /\ <<>> \in Seq(Events)
      BY <2>1 DEF Lists
    <2> QED
      BY <1>0, <1>1, <1>2, <2>1, <2>2, SaysNothing, BecomesBooks
  <1>3. CASE req[r].paired
    <2>1. Emit(es) /\ ended' = Append(ended, [req |-> r, answered |-> req[r].st = "answered"
                                                     \/ Told("response", r) \in Elems(es)])
      BY <1>3 DEF Ends
    <2>2. Told("response", r) \in Events /\ Told("finished", r) \in Events /\ Told("failed", r) \in Events
      BY EventTypes
    <2>3. CASE es = <<Told(st, r)>>
      <3>1. es \in Seq(Events)
        BY <2>2, <2>3 DEF EndKinds
      <3>2. Says(es, r, {st})
        BY <1>0, <2>3, SaysOne DEF Told
      <3>3. Told("response", r) \notin Elems(es)
        <4>1. Told(st, r).kind = st /\ Told("response", r).kind = "response" /\ st # "response"
          BY DEF Told, Event, EndKinds
        <4>2. \A i \in DOMAIN es : es[i] = Told(st, r)
          BY <2>3
        <4> QED
          BY <4>1, <4>2 DEF Elems
      <3>4. Lists(r, {st})
        <4>1. {st} \intersect EndKinds # {} /\ ("response" \in {st} <=> FALSE)
          BY DEF EndKinds
        <4> QED
          BY <2>1, <3>3, <4>1 DEF Lists
      <3> QED
        BY <1>0, <1>1, <1>3, <2>1, <3>1, <3>2, <3>4, BecomesBooks
    <2>4. CASE es = <<Told("response", r), Told("finished", r)>> /\ st = "finished"
      <3>1. es \in Seq(Events)
        BY <2>2, <2>4
      <3>2. Says(es, r, {"response", st})
        BY <2>4, SaysAnswer DEF Told
      <3>3. Told("response", r) \in Elems(es)
        <4>1. 1 \in DOMAIN es /\ es[1] = Told("response", r)
          BY <2>4
        <4> QED
          BY <4>1 DEF Elems
      <3>4. Lists(r, {"response", st})
        <4>1. {"response", st} \intersect EndKinds # {} /\ "response" \in {"response", st}
          OBVIOUS
        <4> QED
          BY <2>1, <3>3, <4>1 DEF Lists
      <3> QED
        BY <1>0, <1>1, <1>3, <2>1, <3>1, <3>2, <3>4, BecomesBooks
    <2> QED
      BY <2>3, <2>4
  <1> QED
    BY <1>2, <1>3 DEF RequestTypes, RequestStates

LEMMA RequestBooks ==
    ASSUME RequestTypes, BooksInv, NEW r \in Reqs, Start(r) \/ Redirect(r) \/ Respond(r) \/ Finish(r) \/ Fail(r)
    PROVE  BooksInv'
  <1>1. UNCHANGED <<bookVars, reported>>
    BY DEF Start, Redirect, Respond, Finish, Fail, observedVars
  <1>2. CASE Start(r)
    BY <1>1, <1>2, LeavesBooks DEF Start
  <1>3. CASE Redirect(r)
    BY <1>1, <1>3, LeavesBooks DEF Redirect
  <1>4. CASE Respond(r)
    <2>1. /\ req[r].st = "sent" /\ req[r].paired /\ Becomes(r, "answered") /\ ended' = ended
          /\ Emit(<<Told("response", r)>>)
      BY <1>4 DEF Respond
    <2>2. Told("response", r) \in Events
      BY EventTypes
    <2>3. <<Told("response", r)>> \in Seq(Events)
      BY <2>2
    <2>4. Says(<<Told("response", r)>>, r, {"response"})
      BY SaysOne DEF Told, BookKinds
    <2>5. Lists(r, {"response"}) /\ "answered" \in States
      BY <2>1 DEF Lists, EndKinds, States
    <2> QED
      BY <1>1, <2>1, <2>3, <2>4, <2>5, BecomesBooks
  <1>5. CASE Finish(r)
    BY <1>1, <1>5, EndsBooks DEF Finish, Running, EndKinds
  <1>6. CASE Fail(r)
    BY <1>1, <1>6, EndsBooks DEF Fail, EndKinds
  <1> QED
    BY <1>2, <1>3, <1>4, <1>5, <1>6

\* A frame says nothing of a request.
LEMMA FrameBooks ==
    ASSUME RequestTypes, BooksInv, NEW k \in StreamKinds, Frame(k)
    PROVE  BooksInv'
  <1> DEFINE e == Event(k, k, NoUrl)
             es == <<e>>
  <1>1. e \in Events /\ e.kind \notin BookKinds
    BY EventTypes DEF Event, BookKinds, EndKinds, StreamKinds
  <1>2. Emit(es) /\ UNCHANGED <<req, ended, inFlight, open, closed, counters, reported>>
    BY DEF Frame, bookVars, observedVars
  <1> HIDE DEF e
  <1>3. es \in Seq(Events) /\ \A j \in DOMAIN es : es[j].kind \notin BookKinds
    BY <1>1
  <1> HIDE DEF es
  <1>4. BookTypes'
    BY <1>2 DEF BooksInv, BookTypes
  <1>5. ASSUME ~lagged'
        PROVE  Books'
    <2>1. Adds(es) /\ Books /\ BookTypes
      BY <1>2, <1>3, <1>5, TellKeeps DEF BooksInv
    <2>2. \A i \in DOMAIN evq' : evq'[i].kind \in BookKinds => i \in DOMAIN evq
      <3>1. SUFFICES ASSUME NEW i \in DOMAIN evq', i \notin DOMAIN evq
                     PROVE  evq'[i].kind \notin BookKinds
        OBVIOUS
      <3>2. i - Len(evq) \in DOMAIN es /\ Len(evq) + (i - Len(evq)) = i
        BY <2>1, <3>1 DEF Adds
      <3> QED
        BY <1>3, <2>1, <3>2 DEF Adds
    <2>3. \A i \in DOMAIN evq : i \in DOMAIN evq' /\ evq'[i] = evq[i]
      BY <2>1 DEF Adds
    <2>4. \A q, b : b \in BookKinds => (Has(b, q)' <=> Has(b, q))
      BY <2>2, <2>3 DEF Has
    <2>5. \A q : Ending(q)' <=> Ending(q)
      BY <2>4 DEF Ending, BookKinds, EndKinds
    <2>6. EventsInOrder'
      <3>1. SUFFICES ASSUME NEW i \in DOMAIN evq', NEW j \in DOMAIN evq', i < j, evq'[i].req = evq'[j].req,
                            evq'[j].kind \in BookKinds
                     PROVE  evq'[i].kind \notin EndKinds /\ (evq'[i].kind = "response" => evq'[j].kind # "request")
        BY DEF EventsInOrder
      <3>2. j \in DOMAIN evq
        BY <2>2, <3>1
      <3>3. i \in DOMAIN evq
        BY <2>1, <3>1, <3>2 DEF Adds
      <3> QED
        BY <2>1, <2>3, <3>1, <3>2, <3>3 DEF Books, EventsInOrder
    <2>7. EventsAreTrue'
      BY <1>2, <2>1, <2>4 DEF Books, EventsAreTrue, BookKinds, EndKinds
    <2>8. \A q : Unbooked(q)' <=> Unbooked(q)
      BY <1>2, <2>5 DEF Unbooked
    <2>9. BooksFollow'
      BY <1>2, <2>1, <2>4, <2>8 DEF Books, BooksFollow, BookKinds
    <2>10. \A b \in EndKinds : BookedEnds(b)' = BookedEnds(b)
      BY <1>2, <2>4 DEF BookedEnds, BookKinds
    <2>11. CountersFollow'
      BY <1>2, <2>1, <2>10 DEF Books, CountersFollow, EndKinds
    <2>12. HarFollows'
      <3>1. PICK m \in 0..Len(ended) : EndsFollow(m)
        BY <2>1 DEF Books, HarFollows
      <3>2. \A i \in DOMAIN evq' : evq'[i].kind \in EndKinds => i \in DOMAIN evq /\ evq'[i] = evq[i]
        BY <2>2, <2>3 DEF BookKinds
      <3>3. \A j \in (m + 1)..Len(ended) : \A q : q = ended[j].req =>
               Ending(q)' /\ (ended[j].answered <=> open[q] = "answered" \/ Has("response", q)')
        BY <2>4, <2>5, <3>1 DEF EndsFollow, BookKinds
      <3>4. EndsFollow(m)'
        BY <1>2, <3>1, <3>2, <3>3 DEF EndsFollow
      <3> QED
        BY <1>2, <2>1, <3>4 DEF Books, HarFollows, EndedOnce
    <2> QED
      BY <2>6, <2>7, <2>9, <2>11, <2>12 DEF Books
  <1> QED
    BY <1>4, <1>5 DEF BooksInv

\* Registering handlers, subscribing and forwarding touch none of it.
LEMMA QuietBooks ==
    ASSUME BooksInv, UNCHANGED <<req, evq, lagged, ended, inFlight, open, closed, counters, reported>>
    PROVE  BooksInv'
  <1>1. \A k, q : Has(k, q)' <=> Has(k, q)
    BY DEF Has
  <1>2. BookTypes'
    BY DEF BooksInv, BookTypes
  <1>3. ASSUME ~lagged'
        PROVE  Books'
    <2>1. Books
      BY <1>3 DEF BooksInv
    <2>2. EventsInOrder' /\ EventsAreTrue'
      BY <1>1, <2>1 DEF Books, EventsInOrder, EventsAreTrue
    <2>3. BooksFollow'
      BY <1>1, <2>1 DEF Books, BooksFollow, Unbooked, Ending
    <2>4. HarFollows'
      BY <1>1, <2>1 DEF Books, HarFollows, EndedOnce, EndsFollow, Ending, Has
    <2>5. CountersFollow'
      <3>1. \A k : BookedEnds(k)' = BookedEnds(k)
        BY <1>1 DEF BookedEnds
      <3> QED
        BY <2>1, <3>1 DEF Books, CountersFollow
    <2> QED
      BY <2>1, <2>2, <2>3, <2>4, <2>5 DEF Books
  <1> QED
    BY <1>2, <1>3 DEF BooksInv

\* A resolution is carried out or refused.
LEMMA ExecResolveBooks ==
    ASSUME NetworkInv, BooksInv, ExecResolve
    PROVE  BooksInv'
  <1>0. RequestTypes /\ cmds \in Seq(Enables \union Resolutions) /\ cmds # <<>> /\ Head(cmds).kind = "resolve"
    BY DEF NetworkInv, NetworkTypes, CommandTypes, ExecResolve
  <1>1. PICK r \in Reqs : r = Head(cmds).req
    BY <1>0, TailKeeps DEF Enables, Resolutions
  <1>2. UNCHANGED <<bookVars, reported>>
    BY DEF ExecResolve, observedVars
  <1>3. CASE req[r].st = "paused" /\ Becomes(r, "sent") /\ UNCHANGED <<evq, lagged, ended>>
    <2>1. Lists(r, {}) /\ <<>> \in Seq(Events) /\ "sent" \in States
      BY <1>3 DEF Lists, States
    <2> QED
      BY <1>0, <1>2, <1>3, <2>1, SaysNothing, BecomesBooks
  <1>4. CASE req[r].st = "paused" /\ Ends(r, "finished", <<Told("response", r), Told("finished", r)>>)
    BY <1>0, <1>2, <1>4, EndsBooks DEF Running, EndKinds
  <1>5. CASE req[r].st = "paused" /\ Ends(r, "failed", <<Told("failed", r)>>)
    BY <1>0, <1>2, <1>5, EndsBooks DEF Running, EndKinds
  <1>6. CASE UNCHANGED <<req, evq, lagged, ended>>
    BY <1>2, <1>6, QuietBooks DEF bookVars
  <1> QED
    BY <1>1, <1>3, <1>4, <1>5, <1>6 DEF ExecResolve

----------------------------------------------------------------------------
(* The pump books an event                                                  *)

\* The pump takes the event at the head of its queue.
Pops == RequestTypes /\ evq # <<>> /\ evq' = Tail(evq) /\ UNCHANGED <<req, ended, reported, lagged>>
HeadIs(k, r) == Head(evq).kind = k /\ Head(evq).req = r
\* What an event of kind k about r changes in in_flight and the open HAR records.
Enters(k, r) ==
    /\ \A q \in Reqs : q # r \/ k \notin BookKinds => (q \in inFlight' <=> q \in inFlight) /\ open'[q] = open[q]
    /\ k = "request" => r \in inFlight' /\ open'[r] = "sent"
    /\ k = "response" => /\ r \in inFlight' <=> r \in inFlight
                         /\ open'[r] = IF open[r] = "none" THEN "none" ELSE "answered"
    /\ k \in EndKinds => r \notin inFlight' /\ open'[r] = "none"

LEMMA PopShifts ==
    ASSUME Pops
    PROVE  /\ 1 \in DOMAIN evq /\ Head(evq) = evq[1] /\ Head(evq) \in Events /\ evq' \in Seq(Events)
           /\ \A i \in DOMAIN evq' : i \in Nat /\ i + 1 \in DOMAIN evq /\ evq'[i] = evq[i + 1] /\ 1 < i + 1
           /\ \A i \in DOMAIN evq : i \in Nat /\ (i = 1 \/ (1 < i /\ i - 1 \in DOMAIN evq' /\ evq'[i - 1] = evq[i]))
           /\ \A k, q : Has(k, q) <=> Has(k, q)' \/ HeadIs(k, q)
           /\ \A k, q : k # Head(evq).kind => (Has(k, q)' <=> Has(k, q))
           /\ \A k, q : q # Head(evq).req => (Has(k, q)' <=> Has(k, q))
  <1>0. evq \in Seq(Events) /\ evq # <<>> /\ evq' = Tail(evq)
    BY DEF Pops, RequestTypes
  <1>1. /\ Head(evq) \in Events /\ evq' \in Seq(Events) /\ 1 \in DOMAIN evq /\ Head(evq) = evq[1]
        /\ Len(evq) \in Nat /\ Len(evq) > 0 /\ DOMAIN evq = 1..Len(evq) /\ DOMAIN evq' = 1..(Len(evq) - 1)
        /\ \A i \in DOMAIN evq' : i + 1 \in DOMAIN evq /\ evq'[i] = evq[i + 1]
    <2>1. Len(evq) \in Nat /\ Len(evq) > 0 /\ DOMAIN evq = 1..Len(evq)
      BY <1>0, EmptySeq, LenProperties
    <2>2. Len(evq') = Len(evq) - 1 /\ evq' \in Seq(Events)
      BY <1>0, HeadTailProperties
    <2>3. DOMAIN evq' = 1..(Len(evq) - 1)
      BY <2>2, LenProperties
    <2> QED
      BY <1>0, <2>1, <2>3, TailKeeps
  <1>2. \A i \in DOMAIN evq' : i \in Nat /\ i + 1 \in DOMAIN evq /\ evq'[i] = evq[i + 1] /\ 1 < i + 1
    BY <1>1
  <1>3. ASSUME NEW i \in DOMAIN evq
        PROVE  i \in Nat /\ (i = 1 \/ (1 < i /\ i - 1 \in DOMAIN evq' /\ evq'[i - 1] = evq[i]))
    <2>1. i # 1 => i \in Nat /\ 1 < i /\ i - 1 \in DOMAIN evq' /\ (i - 1) + 1 = i
      BY <1>1
    <2> QED
      BY <1>1, <2>1
  <1>4. ASSUME NEW k, NEW q
        PROVE  Has(k, q) <=> Has(k, q)' \/ HeadIs(k, q)
    <2>1. Has(k, q)' => Has(k, q)
      BY <1>2 DEF Has
    <2>2. HeadIs(k, q) => Has(k, q)
      BY <1>1 DEF Has, HeadIs
    <2>3. Has(k, q) => Has(k, q)' \/ HeadIs(k, q)
      BY <1>1, <1>3 DEF Has, HeadIs
    <2> QED
      BY <2>1, <2>2, <2>3
  <1> QED
    BY <1>1, <1>2, <1>3, <1>4 DEF HeadIs

\* The order of what is left; nothing follows an end, and no leg an answer.
LEMMA PopOrder ==
    ASSUME Pops, EventsInOrder, NEW r, r = Head(evq).req
    PROVE  /\ EventsInOrder'
           /\ Head(evq).kind \in EndKinds => \A b \in BookKinds : ~Has(b, r)'
           /\ Head(evq).kind = "response" => ~Has("request", r)'
  <1>0. /\ 1 \in DOMAIN evq /\ Head(evq) = evq[1]
        /\ \A i \in DOMAIN evq' : i \in Nat /\ i + 1 \in DOMAIN evq /\ evq'[i] = evq[i + 1] /\ 1 < i + 1
    BY PopShifts
  <1>1. \A i, j \in DOMAIN evq' : i < j => i + 1 < j + 1
    BY <1>0
  <1>2. EventsInOrder'
    BY <1>0, <1>1 DEF EventsInOrder
  <1>3. ASSUME NEW i \in DOMAIN evq', evq'[i].req = r, evq'[i].kind \in BookKinds
        PROVE  Head(evq).kind \notin EndKinds /\ (Head(evq).kind = "response" => evq'[i].kind # "request")
    BY <1>0, <1>3 DEF EventsInOrder
  <1>4. ASSUME NEW b \in BookKinds, Has(b, r)'
        PROVE  Head(evq).kind \notin EndKinds /\ ~(Head(evq).kind = "response" /\ b = "request")
    <2>1. PICK i \in DOMAIN evq' : evq'[i].kind = b /\ evq'[i].req = r
      BY <1>4 DEF Has
    <2> QED
      BY <1>3, <2>1
  <1> QED
    BY <1>2, <1>4 DEF BookKinds

\* An event that is booked moves from the queue into the books.
LEMMA PopBooks ==
    ASSUME Pops, BookTypes, EventsInOrder, EventsAreTrue, BooksFollow, NEW k, NEW r, HeadIs(k, r), Enters(k, r),
           k \in BookKinds => r \in Reqs
    PROVE  /\ EventsAreTrue' /\ BooksFollow'
           /\ k = "request" => open[r] # "answered"
           /\ k = "response" => open[r] # "none"
           /\ k \in EndKinds => open[r] # "none" /\ ~Has("response", r)
  <1>0. /\ \A b, q : Has(b, q) <=> Has(b, q)' \/ (b = k /\ q = r)
        /\ req' = req
        /\ k \in EndKinds => \A b \in BookKinds : ~Has(b, r)'
        /\ k = "response" => ~Has("request", r)'
    <2>1. Head(evq).kind = k /\ Head(evq).req = r
      BY DEF HeadIs
    <2>2. \A b, q : HeadIs(b, q) <=> b = k /\ q = r
      BY <2>1 DEF HeadIs
    <2> QED
      BY <2>1, <2>2, PopShifts, PopOrder DEF Pops
  <1>1. EventsAreTrue'
    BY <1>0 DEF EventsAreTrue
  <1>2. ASSUME NEW q \in Reqs, q # r \/ k \notin BookKinds
        PROVE  /\ q \in inFlight' <=> open'[q] # "none"
               /\ Unbooked(q)' => Has("request", q)' \/ q \in inFlight'
               /\ ~Unbooked(q)' => q \notin inFlight' /\ \A b \in BookKinds : ~Has(b, q)'
               /\ open'[q] = "answered" => req'[q].st \in {"answered"} \union EndKinds /\ ~Has("request", q)'
               /\ req'[q].st = "answered" => open'[q] = "answered" \/ Has("response", q)'
    <2>1. (q \in inFlight' <=> q \in inFlight) /\ open'[q] = open[q]
      BY <1>2 DEF Enters
    <2>2. \A b \in BookKinds : Has(b, q)' <=> Has(b, q)
      BY <1>0, <1>2
    <2>3. Unbooked(q)' <=> Unbooked(q)
      BY <1>0, <2>2 DEF Unbooked, Ending, BookKinds, EndKinds
    <2> QED
      BY <1>0, <2>1, <2>2, <2>3 DEF BooksFollow, BookKinds
  <1>3. ASSUME k \in BookKinds
        PROVE  /\ r \in inFlight' <=> open'[r] # "none"
               /\ Unbooked(r)' => Has("request", r)' \/ r \in inFlight'
               /\ ~Unbooked(r)' => r \notin inFlight' /\ \A b \in BookKinds : ~Has(b, r)'
               /\ open'[r] = "answered" => req'[r].st \in {"answered"} \union EndKinds /\ ~Has("request", r)'
               /\ req'[r].st = "answered" => open'[r] = "answered" \/ Has("response", r)'
               /\ k = "request" => open[r] # "answered"
               /\ k = "response" => open[r] # "none"
               /\ k \in EndKinds => open[r] # "none" /\ ~Has("response", r)
    <2>0. r \in Reqs /\ Has(k, r)
      BY <1>0, <1>3
    <2>1. /\ req[r].paired /\ req[r].st # "none"
          /\ k \in EndKinds => req[r].st = k
          /\ k = "response" => req[r].st \in {"answered"} \union EndKinds
      BY <1>3, <2>0 DEF EventsAreTrue
    <2>2. /\ r \in inFlight <=> open[r] # "none"
          /\ Has("request", r) \/ r \in inFlight
          /\ open[r] = "answered" => req[r].st \in {"answered"} \union EndKinds /\ ~Has("request", r)
          /\ req[r].st = "answered" => open[r] = "answered" \/ Has("response", r)
          /\ Unbooked(r)
      BY <1>3, <2>0 DEF BooksFollow
    <2>3. Unbooked(r)' <=> req[r].paired /\ req[r].st # "none" /\ (req[r].st \in EndKinds => Has("finished", r)' \/ Has("failed", r)')
      BY <1>0 DEF Unbooked, Ending
    <2>4. Unbooked(r) <=> req[r].paired /\ req[r].st # "none" /\ (req[r].st \in EndKinds => Has("finished", r) \/ Has("failed", r))
      BY DEF Unbooked, Ending
    <2>5. CASE k = "request"
      <3>1. r \in inFlight' /\ open'[r] = "sent"
        BY <2>5 DEF Enters
      <3>2. Unbooked(r)'
        BY <1>0, <2>2, <2>3, <2>4, <2>5
      <3> QED
        BY <1>0, <2>0, <2>2, <2>5, <3>1, <3>2 DEF EndKinds
    <2>6. CASE k = "response"
      <3>1. ~Has("request", r)' /\ ~Has("request", r) /\ open[r] # "none" /\ r \in inFlight
        BY <1>0, <2>2, <2>6
      <3>2. r \in inFlight' /\ open'[r] = "answered"
        BY <2>6, <3>1 DEF Enters
      <3>3. Unbooked(r)'
        BY <1>0, <2>2, <2>3, <2>4, <2>6
      <3> QED
        BY <1>0, <2>1, <2>6, <3>1, <3>2, <3>3 DEF EndKinds
    <2>7. CASE k \in EndKinds
      <3>1. /\ \A b \in BookKinds : ~Has(b, r)'
            /\ ~Has("request", r) /\ ~Has("response", r) /\ open[r] # "none"
        BY <1>0, <2>2, <2>7 DEF BookKinds, EndKinds
      <3>2. r \notin inFlight' /\ open'[r] = "none"
        BY <2>7 DEF Enters
      <3>3. ~Unbooked(r)'
        BY <2>1, <2>3, <2>7, <3>1 DEF BookKinds, EndKinds
      <3> QED
        BY <1>0, <2>1, <2>7, <3>1, <3>2, <3>3 DEF EndKinds
    <2> QED
      BY <1>3, <2>5, <2>6, <2>7 DEF BookKinds
  <1>4. BooksFollow'
    BY <1>2, <1>3 DEF BooksFollow
  <1> QED
    BY <1>1, <1>3, <1>4 DEF BookKinds

\* What a full ring holds.
LEMMA LastNIs ==
    ASSUME NEW S, NEW s \in Seq(S), NEW n \in Nat \ {0}, Len(s) > n
    PROVE  LastN(s, n) \in Seq(S) /\ Len(LastN(s, n)) = n /\ \A i \in 1..n : LastN(s, n)[i] = s[Len(s) - n + i]
  <1> DEFINE u == SubSeq(s, Len(s) - n + 1, Len(s))
             m == Len(s) - n
  <1>0. Len(s) \in Nat
    BY LenProperties
  <1>1. m \in Nat /\ m + 1 \in 1..Len(s) /\ Len(s) - n + 1 = m + 1
    BY <1>0
  <1>2. u \in Seq(S) /\ Len(u) = n /\ \A i \in 1..n : u[i] = s[m + i]
    BY <1>0, <1>1, SubSeqProperties
  <1>3. LastN(s, n) = u
    BY <1>0 DEF LastN
  <1> QED
    BY <1>2, <1>3

\* A ring that drops its oldest entry whenever it is full holds the newest of all that
\* was pushed.
LEMMA LastNAppend ==
    ASSUME NEW S, NEW s \in Seq(S), NEW n \in Nat \ {0}, NEW e \in S
    PROVE  LastN(Append(LastN(s, n), e), n) = LastN(Append(s, e), n)
  <1>0. Len(s) \in Nat
    BY LenProperties
  <1>1. CASE Len(s) <= n
    BY <1>1 DEF LastN
  <1>2. CASE Len(s) > n
    <2> DEFINE u == LastN(s, n)
               a == Append(u, e)
               b == Append(s, e)
               x == LastN(a, n)
               y == LastN(b, n)
    <2>1. u \in Seq(S) /\ Len(u) = n /\ \A i \in 1..n : u[i] = s[Len(s) - n + i]
      BY <1>2, LastNIs
    <2> HIDE DEF u
    <2>2. a \in Seq(S) /\ Len(a) = n + 1 /\ (\A i \in 1..n : a[i] = u[i]) /\ a[n + 1] = e
      BY <2>1, AppendProperties
    <2>3. b \in Seq(S) /\ Len(b) = Len(s) + 1 /\ (\A i \in 1..Len(s) : b[i] = s[i]) /\ b[Len(s) + 1] = e
      BY <1>0, AppendProperties
    <2> HIDE DEF a, b
    <2>4. x \in Seq(S) /\ Len(x) = n /\ \A i \in 1..n : x[i] = a[n + 1 - n + i]
      BY <2>2, LastNIs
    <2>5. y \in Seq(S) /\ Len(y) = n /\ \A i \in 1..n : y[i] = b[Len(s) + 1 - n + i]
      <3>1. Len(b) > n
        BY <1>0, <1>2, <2>3
      <3>2. b \in Seq(S)
        BY <2>3
      <3>3. y \in Seq(S) /\ Len(y) = n /\ \A i \in 1..n : y[i] = b[Len(b) - n + i]
        BY <3>1, <3>2, LastNIs
      <3> HIDE DEF y
      <3> QED
        BY <2>3, <3>3
    <2> HIDE DEF x, y
    <2>6. ASSUME NEW i \in 1..n
          PROVE  x[i] = y[i]
      <3>1. x[i] = a[i + 1] /\ y[i] = b[Len(s) + 1 - n + i]
        <4>1. n + 1 - n + i = i + 1
          OBVIOUS
        <4> QED
          BY <2>4, <2>5, <4>1
      <3>2. CASE i = n
        <4>1. Len(s) + 1 - n + i = Len(s) + 1
          BY <1>0, <3>2
        <4> QED
          BY <2>2, <2>3, <3>1, <3>2, <4>1
      <3>3. CASE i # n
        <4>1. /\ i + 1 \in 1..n /\ Len(s) + 1 - n + i \in 1..Len(s)
              /\ Len(s) + 1 - n + i = Len(s) - n + (i + 1)
          BY <1>0, <1>2, <3>3
        <4>2. a[i + 1] = u[i + 1] /\ u[i + 1] = s[Len(s) - n + (i + 1)]
          BY <2>1, <2>2, <4>1
        <4>3. b[Len(s) + 1 - n + i] = s[Len(s) + 1 - n + i]
          BY <2>3, <4>1
        <4> QED
          BY <3>1, <4>1, <4>2, <4>3
      <3> QED
        BY <3>2, <3>3
    <2>7. x = y
      BY <2>4, <2>5, <2>6, SeqEqual
    <2> QED
      BY <2>7 DEF x, y, a, b, u
  <1> QED
    BY <1>0, <1>1, <1>2

\* The first m + 1 of a sequence.
LEMMA PrefixGrows ==
    ASSUME NEW S, NEW s \in Seq(S), NEW m \in Nat, m < Len(s)
    PROVE  SubSeq(s, 1, m) \in Seq(S) /\ SubSeq(s, 1, m + 1) = Append(SubSeq(s, 1, m), s[m + 1])
  <1> DEFINE a == SubSeq(s, 1, m)
             b == SubSeq(s, 1, m + 1)
             c == Append(a, s[m + 1])
  <1>0. Len(s) \in Nat /\ \A i \in 1..(m + 1) : s[i] \in S
    BY LenProperties, ElementOfSeq
  <1>1. a \in Seq(S) /\ Len(a) = m /\ \A i \in 1..m : a[i] = s[i]
    <2>1. CASE m = 0
      BY <2>1, SubSeqEmpty
    <2>2. CASE m # 0
      <3>1. 1 <= m + 1 /\ m - 1 + 1 = m /\ 1 \in Int /\ m \in Int /\ \A i \in 1..m : s[i] \in S /\ 1 + i - 1 = i
        BY <1>0
      <3> QED
        BY <1>0, <2>2, <3>1, SubSeqProperties
    <2> QED
      BY <2>1, <2>2
  <1>2. b \in Seq(S) /\ Len(b) = m + 1 /\ \A i \in 1..(m + 1) : b[i] = s[i]
    <2>1. 1 <= (m + 1) + 1 /\ (m + 1) - 1 + 1 = m + 1 /\ 1 \in Int /\ m + 1 \in Int
          /\ \A i \in 1..(m + 1) : 1 + i - 1 = i
      OBVIOUS
    <2> QED
      BY <1>0, <2>1, SubSeqProperties
  <1> HIDE DEF a, b
  <1>3. s[m + 1] \in S
    BY <1>0
  <1>4. c \in Seq(S) /\ Len(c) = m + 1 /\ (\A i \in 1..m : c[i] = a[i]) /\ c[m + 1] = s[m + 1]
    BY <1>1, <1>3, AppendProperties
  <1> HIDE DEF c
  <1>5. \A i \in 1..(m + 1) : b[i] = c[i]
    BY <1>1, <1>2, <1>4
  <1>6. b = c
    BY <1>2, <1>4, <1>5, SeqEqual
  <1> QED
    BY <1>1, <1>6 DEF a, b, c

\* An end is counted when it leaves the queue.
LEMMA PopCounters ==
    ASSUME Pops, BookTypes, EventsInOrder, EventsAreTrue, CountersFollow, NEW k, NEW r, HeadIs(k, r),
           k \in BookKinds => r \in Reqs,
           counters' = [completed |-> counters.completed + IF k = "finished" THEN 1 ELSE 0,
                        failed |-> counters.failed + IF k = "failed" THEN 1 ELSE 0]
    PROVE  CountersFollow'
  <1>0. /\ \A b, q : Has(b, q) <=> Has(b, q)' \/ (b = k /\ q = r)
        /\ req' = req /\ reported' = reported
        /\ k \in EndKinds => \A b \in BookKinds : ~Has(b, r)'
    <2>1. Head(evq).kind = k /\ Head(evq).req = r
      BY DEF HeadIs
    <2>2. \A b, q : HeadIs(b, q) <=> b = k /\ q = r
      BY <2>1 DEF HeadIs
    <2> QED
      BY <2>1, <2>2, PopShifts, PopOrder DEF Pops
  <1>1. ASSUME NEW b, b # k
        PROVE  BookedEnds(b)' = BookedEnds(b)
    BY <1>0, <1>1 DEF BookedEnds
  <1>2. ASSUME k \in EndKinds, IsFiniteSet(BookedEnds(k))
        PROVE  /\ IsFiniteSet(BookedEnds(k)') 
               /\ Cardinality(BookedEnds(k)') = Cardinality(BookedEnds(k)) + 1
    <2>1. r \in Reqs /\ Has(k, r) /\ ~Has(k, r)'
      BY <1>0, <1>2 DEF BookKinds
    <2>2. req[r].st = k /\ req[r].paired
      BY <1>2, <2>1 DEF EventsAreTrue, BookKinds
    <2>3. r \notin BookedEnds(k)
      BY <2>1 DEF BookedEnds
    <2>4. BookedEnds(k)' = BookedEnds(k) \union {r}
      BY <1>0, <2>1, <2>2 DEF BookedEnds
    <2> QED
      BY <1>2, <2>3, <2>4, FS_AddElement
  <1>3. /\ counters.completed \in Nat /\ counters.failed \in Nat
        /\ reported.completed \in Nat /\ reported.failed \in Nat
    BY DEF BookTypes, Tallies
  <1>4. /\ counters'.completed = counters.completed + IF k = "finished" THEN 1 ELSE 0
        /\ counters'.failed = counters.failed + IF k = "failed" THEN 1 ELSE 0
    OBVIOUS
  <1>5. /\ IsFiniteSet(BookedEnds("finished")) /\ IsFiniteSet(BookedEnds("failed"))
        /\ counters.completed + reported.completed = Cardinality(BookedEnds("finished"))
        /\ counters.failed + reported.failed = Cardinality(BookedEnds("failed"))
    BY DEF CountersFollow
  <1>6. CASE k = "finished"
    BY <1>0, <1>1, <1>2, <1>3, <1>4, <1>5, <1>6 DEF CountersFollow, EndKinds
  <1>7. CASE k = "failed"
    BY <1>0, <1>1, <1>2, <1>3, <1>4, <1>5, <1>7 DEF CountersFollow, EndKinds
  <1>8. CASE k \notin EndKinds
    BY <1>0, <1>1, <1>3, <1>4, <1>5, <1>8 DEF CountersFollow, EndKinds
  <1> QED
    BY <1>6, <1>7, <1>8 DEF EndKinds

\* An event that is no end leaves the ring as it is.
LEMMA PopHarSame ==
    ASSUME Pops, BookTypes, EventsInOrder, EventsAreTrue, BooksFollow, HarFollows, NEW k, NEW r, HeadIs(k, r),
           Enters(k, r), k \in BookKinds => r \in Reqs, k \notin EndKinds, closed' = closed
    PROVE  HarFollows'
  <1>0. /\ \A b, q : Has(b, q) <=> Has(b, q)' \/ (b = k /\ q = r)
        /\ req' = req /\ ended' = ended
        /\ \A i \in DOMAIN evq' : i \in Nat /\ i + 1 \in DOMAIN evq /\ evq'[i] = evq[i + 1]
    <2>1. Head(evq).kind = k /\ Head(evq).req = r
      BY DEF HeadIs
    <2>2. \A b, q : HeadIs(b, q) <=> b = k /\ q = r
      BY <2>1 DEF HeadIs
    <2> QED
      BY <2>2, PopShifts DEF Pops
  <1>1. PICK m \in 0..Len(ended) : EndsFollow(m)
    BY DEF HarFollows
  <1>2. \A q : Ending(q)' <=> Ending(q)
    BY <1>0 DEF Ending, EndKinds
  <1>3. \A q \in Reqs : (open[q] = "answered" \/ Has("response", q)) <=> (open'[q] = "answered" \/ Has("response", q)')
    <2>1. SUFFICES ASSUME NEW q \in Reqs
                   PROVE  (open[q] = "answered" \/ Has("response", q)) <=> (open'[q] = "answered" \/ Has("response", q)')
      OBVIOUS
    <2>2. CASE q # r \/ k \notin BookKinds
      BY <1>0, <2>2 DEF Enters, BookKinds
    <2>3. CASE q = r /\ k = "request"
      BY <1>0, <2>3, PopBooks DEF Enters
    <2>4. CASE q = r /\ k = "response"
      BY <1>0, <2>4, PopBooks DEF Enters
    <2> QED
      BY <2>2, <2>3, <2>4 DEF BookKinds
  <1>4. \A j \in (m + 1)..Len(ended) : ended[j].req \in Reqs
    <2>1. ended \in Seq(Entries) /\ Len(ended) \in Nat
      BY LenProperties DEF BookTypes
    <2>2. \A j \in (m + 1)..Len(ended) : ended[j] \in Entries
      BY <2>1, ElementOfSeq
    <2> QED
      BY <2>2 DEF Entries
  <1>5. \A j \in (m + 1)..Len(ended) : \A q : q = ended[j].req =>
            Ending(q)' /\ (ended[j].answered <=> open'[q] = "answered" \/ Has("response", q)')
    BY <1>1, <1>2, <1>3, <1>4 DEF EndsFollow
  <1>6. \A i1, i2 \in DOMAIN evq' : i1 < i2 => i1 + 1 < i2 + 1
    BY <1>0
  <1>7. EndsFollow(m)'
    <2>1. (closed = LastN(SubSeq(ended, 1, m), HarCap))'
      BY <1>0, <1>1 DEF EndsFollow
    <2>2. (\A i \in DOMAIN evq : evq[i].kind \in EndKinds =>
              \E j \in (m + 1)..Len(ended) : ended[j].req = evq[i].req)'
      BY <1>0, <1>1 DEF EndsFollow
    <2>3. (\A i1, i2 \in DOMAIN evq : \A j1, j2 \in (m + 1)..Len(ended) :
              /\ i1 < i2 /\ evq[i1].kind \in EndKinds /\ evq[i2].kind \in EndKinds
              /\ ended[j1].req = evq[i1].req /\ ended[j2].req = evq[i2].req
              => j1 < j2)'
      BY <1>0, <1>1, <1>6 DEF EndsFollow
    <2> QED
      BY <1>0, <1>5, <2>1, <2>2, <2>3 DEF EndsFollow
  <1> QED
    BY <1>0, <1>7 DEF HarFollows, EndedOnce

\* An end that is booked is the oldest of those that were not.
LEMMA PopHarEnd ==
    ASSUME Pops, BookTypes, EventsInOrder, EventsAreTrue, BooksFollow, HarFollows, NEW k \in EndKinds, NEW r \in Reqs,
           HeadIs(k, r), Enters(k, r), push_entry([req |-> r, answered |-> open[r] = "answered"])
    PROVE  HarFollows'
  <1>0. /\ \A b, q : Has(b, q) <=> Has(b, q)' \/ (b = k /\ q = r)
        /\ req' = req /\ ended' = ended /\ 1 \in DOMAIN evq /\ evq[1].kind = k /\ evq[1].req = r
        /\ \A i \in DOMAIN evq' : i \in Nat /\ i + 1 \in DOMAIN evq /\ evq'[i] = evq[i + 1]
        /\ \A i \in DOMAIN evq : i = 1 \/ 1 < i
        /\ \A b \in BookKinds : ~Has(b, r)'
        /\ ~Has("response", r)
    <2>1. Head(evq).kind = k /\ Head(evq).req = r
      BY DEF HeadIs
    <2>2. \A b, q : HeadIs(b, q) <=> b = k /\ q = r
      BY <2>1 DEF HeadIs
    <2>3. ~Has("response", r)
      BY PopBooks
    <2> QED
      BY <2>1, <2>2, <2>3, PopShifts, PopOrder DEF Pops
  <1>1. PICK m \in 0..Len(ended) : EndsFollow(m)
    BY DEF HarFollows
  <1>2. /\ ended \in Seq(Entries) /\ Len(ended) \in Nat /\ DOMAIN ended = 1..Len(ended)
        /\ \A j \in DOMAIN ended : ended[j] \in Entries /\ ended[j].req \in Reqs
    <2>1. ended \in Seq(Entries) /\ Len(ended) \in Nat /\ DOMAIN ended = 1..Len(ended)
      BY LenProperties DEF BookTypes
    <2>2. \A j \in DOMAIN ended : ended[j] \in Entries
      BY <2>1, ElementOfSeq
    <2> QED
      BY <2>1, <2>2 DEF Entries
  <1>3. PICK j0 \in (m + 1)..Len(ended) : ended[j0].req = r
    BY <1>0, <1>1 DEF EndsFollow
  <1>4. m \in Nat /\ m < Len(ended) /\ m + 1 \in DOMAIN ended /\ m + 1 \in (m + 1)..Len(ended)
        /\ j0 \in DOMAIN ended /\ \A j \in (m + 1)..Len(ended) : j \in DOMAIN ended
    BY <1>2, <1>3
  <1>5. ended[m + 1].req = r
    <2>1. SUFFICES ASSUME j0 # m + 1 PROVE FALSE
      BY <1>3
    <2>2. ended[m + 1].req # r
      BY <1>3, <1>4, <2>1 DEF HarFollows, EndedOnce
    <2>3. PICK i2 \in DOMAIN evq : evq[i2].kind \in EndKinds /\ evq[i2].req = ended[m + 1].req
      BY <1>1, <1>4 DEF EndsFollow, Ending, Has, EndKinds
    <2>4. 1 < i2
      BY <1>0, <2>2, <2>3
    <2>5. j0 < m + 1
      BY <1>0, <1>1, <1>3, <1>4, <2>3, <2>4 DEF EndsFollow
    <2> QED
      BY <1>4, <2>5
  <1>6. ended[m + 1] = [req |-> r, answered |-> open[r] = "answered"]
    <2>1. ended[m + 1].answered <=> open[r] = "answered"
      BY <1>0, <1>1, <1>4, <1>5 DEF EndsFollow
    <2>2. ended[m + 1] \in Entries
      BY <1>2, <1>4
    <2> QED
      BY <1>5, <2>1, <2>2 DEF Entries
  <1>7. closed' = LastN(SubSeq(ended, 1, m + 1), HarCap)
    <2> DEFINE s == SubSeq(ended, 1, m)
               e == ended[m + 1]
    <2>1. s \in Seq(Entries) /\ SubSeq(ended, 1, m + 1) = Append(s, e)
      BY <1>2, <1>4, PrefixGrows
    <2>2. closed = LastN(s, HarCap) /\ HarCap \in Nat \ {0} /\ e \in Entries
      BY <1>1, <1>2, <1>4, NetworkAssumption DEF EndsFollow
    <2>3. closed' = LastN(Append(closed, e), HarCap)
      BY <1>6 DEF push_entry
    <2> HIDE DEF s, e
    <2>4. LastN(Append(LastN(s, HarCap), e), HarCap) = LastN(Append(s, e), HarCap)
      <3>1. s \in Seq(Entries) /\ HarCap \in Nat \ {0} /\ e \in Entries
        BY <2>1, <2>2
      <3> QED
        BY <3>1, LastNAppend
    <2> QED
      BY <2>1, <2>2, <2>3, <2>4
  <1>8. ASSUME NEW j \in ((m + 1) + 1)..Len(ended)
        PROVE  j \in (m + 1)..Len(ended) /\ ended[j].req \in Reqs \ {r}
    <2>1. j \in (m + 1)..Len(ended) /\ j # m + 1
      BY <1>2, <1>4
    <2> QED
      BY <1>2, <1>4, <1>5, <2>1 DEF HarFollows, EndedOnce
  <1>9. \A q \in Reqs \ {r} : /\ \A b : Has(b, q)' <=> Has(b, q)
                              /\ Ending(q)' <=> Ending(q)
                              /\ open'[q] = open[q]
    BY <1>0 DEF Ending, Enters
  <1>10. \A j \in ((m + 1) + 1)..Len(ended) : \A q : q = ended[j].req =>
            Ending(q)' /\ (ended[j].answered <=> open'[q] = "answered" \/ Has("response", q)')
    BY <1>1, <1>8, <1>9 DEF EndsFollow
  <1>11. \A i1, i2 \in DOMAIN evq' : i1 < i2 => i1 + 1 < i2 + 1
    BY <1>0
  <1>12. EndsFollow(m + 1)'
    <2>1. (\A i \in DOMAIN evq : evq[i].kind \in EndKinds =>
              \E j \in ((m + 1) + 1)..Len(ended) : ended[j].req = evq[i].req)'
      <3>1. SUFFICES ASSUME NEW i \in DOMAIN evq', evq'[i].kind \in EndKinds
                     PROVE  \E j \in ((m + 1) + 1)..Len(ended) : ended[j].req = evq'[i].req
        BY <1>0
      <3>2. evq'[i].req # r
        BY <1>0, <3>1 DEF Has, BookKinds
      <3>3. PICK j \in (m + 1)..Len(ended) : ended[j].req = evq'[i].req
        BY <1>0, <1>1, <3>1 DEF EndsFollow
      <3>4. j # m + 1
        BY <1>5, <3>2, <3>3
      <3>5. j \in ((m + 1) + 1)..Len(ended)
        BY <1>2, <1>4, <3>4
      <3> QED
        BY <3>3, <3>5
    <2>2. (\A i1, i2 \in DOMAIN evq : \A j1, j2 \in ((m + 1) + 1)..Len(ended) :
              /\ i1 < i2 /\ evq[i1].kind \in EndKinds /\ evq[i2].kind \in EndKinds
              /\ ended[j1].req = evq[i1].req /\ ended[j2].req = evq[i2].req
              => j1 < j2)'
      BY <1>0, <1>1, <1>8, <1>11 DEF EndsFollow
    <2> QED
      BY <1>0, <1>7, <1>10, <2>1, <2>2 DEF EndsFollow
  <1>13. m + 1 \in 0..Len(ended)
    BY <1>2, <1>4
  <1> QED
    BY <1>0, <1>12, <1>13 DEF HarFollows, EndedOnce

LEMMA PumpBooks ==
    ASSUME NetworkInv, BooksInv, Pump
    PROVE  BooksInv'
  <1> DEFINE k == Head(evq).kind
             r == Head(evq).req
  <1>0. RequestTypes /\ BookTypes /\ Pops /\ HeadIs(k, r)
    BY DEF NetworkInv, NetworkTypes, BooksInv, Pump, browserVars, observedVars, Pops, HeadIs
  <1>1. /\ k \in BookKinds \union {"paused", "ws", "es"}
        /\ k \in BookKinds => r \in Reqs
    <2>1. Head(evq) \in Events
      BY <1>0, PopShifts
    <2> QED
      BY <2>1 DEF Events, BookKinds, EndKinds, StreamKinds
  <1>2. /\ k = "request" => record_request(r, Head(evq).url)
        /\ k = "response" => record_response(r, Head(evq).url)
        /\ k = "finished" => record_finished(r)
        /\ k = "failed" => record_failed(r)
        /\ k \notin BookKinds => UNCHANGED bookVars
    BY DEF Pump, request_paused, record_ws, record_es, BookKinds, EndKinds
  <1> HIDE DEF k, r
  <1>3. /\ inFlight \subseteq Reqs /\ open \in [Reqs -> {"none", "sent", "answered"}]
        /\ closed \in Seq(Entries) /\ ended \in Seq(Entries)
        /\ counters \in [completed : Nat, failed : Nat] /\ reported \in Tallies
    BY <1>0 DEF BookTypes, Tallies
  <1>4. /\ Enters(k, r) /\ inFlight' \subseteq Reqs /\ open' \in [Reqs -> {"none", "sent", "answered"}]
    <2>1. CASE k = "request"
      BY <1>1, <1>2, <1>3, <2>1 DEF record_request, Enters, BookKinds, EndKinds
    <2>2. CASE k = "response"
      BY <1>1, <1>2, <1>3, <2>2 DEF record_response, Enters, BookKinds, EndKinds
    <2>3. CASE k \in EndKinds
      BY <1>1, <1>2, <1>3, <2>3 DEF record_finished, record_failed, Close, Enters, BookKinds, EndKinds
    <2>4. CASE k \notin BookKinds
      BY <1>2, <1>3, <2>4 DEF bookVars, Enters, BookKinds, EndKinds
    <2> QED
      BY <2>1, <2>2, <2>3, <2>4 DEF BookKinds
  <1>5. counters' = [completed |-> counters.completed + IF k = "finished" THEN 1 ELSE 0,
                     failed |-> counters.failed + IF k = "failed" THEN 1 ELSE 0]
    <2>1. CASE k = "finished"
      BY <1>2, <1>3, <2>1 DEF record_finished
    <2>2. CASE k = "failed"
      BY <1>2, <1>3, <2>2 DEF record_failed
    <2>3. CASE k \notin EndKinds
      <3>1. counters' = counters
        BY <1>1, <1>2, <2>3 DEF record_request, record_response, bookVars, BookKinds
      <3>2. k # "finished" /\ k # "failed"
        BY <2>3 DEF EndKinds
      <3> QED
        BY <1>3, <3>1, <3>2
    <2> QED
      BY <2>1, <2>2, <2>3 DEF EndKinds
  <1>6. /\ k \notin EndKinds => closed' = closed
        /\ k \in EndKinds => closed' = closed \/ push_entry([req |-> r, answered |-> open[r] = "answered"])
        /\ k \in EndKinds /\ open[r] # "none" => push_entry([req |-> r, answered |-> open[r] = "answered"])
    BY <1>1, <1>2 DEF record_request, record_response, record_finished, record_failed, Close, bookVars,
                      BookKinds, EndKinds
  <1>7. BookTypes'
    <2>1. closed' \in Seq(Entries)
      <3>1. ASSUME k \in EndKinds, push_entry([req |-> r, answered |-> open[r] = "answered"])
            PROVE  closed' \in Seq(Entries)
        <4> DEFINE e == [req |-> r, answered |-> open[r] = "answered"]
        <4>1. e \in Entries
          BY <1>1, <3>1 DEF Entries, BookKinds
        <4>2. closed' = LastN(Append(closed, e), HarCap)
          BY <3>1 DEF push_entry
        <4> HIDE DEF e
        <4>3. Append(closed, e) \in Seq(Entries) /\ HarCap \in Nat \ {0}
          BY <1>3, <4>1, AppendProperties, NetworkAssumption
        <4> QED
          BY <4>2, <4>3, LastNKeeps
      <3> QED
        BY <1>3, <1>6, <3>1
    <2>2. counters' \in Tallies
      BY <1>3, <1>5 DEF Tallies
    <2> QED
      BY <1>0, <1>3, <1>4, <2>1, <2>2 DEF BookTypes, Pops
  <1>8. ASSUME ~lagged'
        PROVE  Books'
    <2>1. EventsInOrder /\ EventsAreTrue /\ BooksFollow /\ HarFollows /\ CountersFollow
      BY <1>0, <1>8 DEF BooksInv, Books, Pops
    <2>2. EventsInOrder'
      BY <1>0, <2>1, PopOrder DEF HeadIs
    <2>3. EventsAreTrue' /\ BooksFollow' /\ (k \in EndKinds => open[r] # "none")
      BY <1>0, <1>1, <1>4, <2>1, PopBooks
    <2>4. CountersFollow'
      BY <1>0, <1>1, <1>5, <2>1, PopCounters
    <2>5. HarFollows'
      <3>1. CASE k \in EndKinds
        <4>1. r \in Reqs /\ push_entry([req |-> r, answered |-> open[r] = "answered"])
          BY <1>1, <1>6, <2>3, <3>1 DEF BookKinds
        <4> QED
          BY <1>0, <1>4, <2>1, <3>1, <4>1, PopHarEnd
      <3>2. CASE k \notin EndKinds
        BY <1>0, <1>1, <1>4, <1>6, <2>1, <3>2, PopHarSame
      <3> QED
        BY <3>1, <3>2
    <2> QED
      BY <2>2, <2>3, <2>4, <2>5 DEF Books
  <1> QED
    BY <1>7, <1>8 DEF BooksInv

\* A snapshot takes the counts over.
LEMMA DrainBooks ==
    ASSUME BooksInv, DrainExtras
    PROVE  BooksInv'
  <1>1. /\ UNCHANGED <<req, evq, lagged, ended, inFlight, open, closed>>
        /\ reported' = [k \in DOMAIN counters |-> reported[k] + counters[k]]
        /\ counters' = [k \in DOMAIN counters |-> 0]
    BY DEF DrainExtras, browserVars
  <1>2. counters \in [completed : Nat, failed : Nat] /\ reported \in [completed : Nat, failed : Nat]
    BY DEF BooksInv, BookTypes, Tallies
  <1>3. DOMAIN counters = {"completed", "failed"}
    BY <1>2
  <1>4. /\ reported' = [completed |-> reported.completed + counters.completed,
                        failed |-> reported.failed + counters.failed]
        /\ counters' = [completed |-> 0, failed |-> 0]
    BY <1>1, <1>2, <1>3
  <1>5. /\ reported'.completed = reported.completed + counters.completed
        /\ reported'.failed = reported.failed + counters.failed
        /\ counters'.completed = 0 /\ counters'.failed = 0
        /\ counters' \in Tallies /\ reported' \in Tallies
    BY <1>2, <1>4 DEF Tallies
  <1>6. BookTypes'
    BY <1>1, <1>5 DEF BooksInv, BookTypes
  <1>7. ASSUME ~lagged'
        PROVE  Books'
    <2>0. \A k, q : Has(k, q)' <=> Has(k, q)
      BY <1>1 DEF Has
    <2>1. Books
      BY <1>1, <1>7 DEF BooksInv
    <2>2. EventsInOrder' /\ EventsAreTrue'
      BY <1>1, <2>0, <2>1 DEF Books, EventsInOrder, EventsAreTrue
    <2>3. BooksFollow'
      BY <1>1, <2>0, <2>1 DEF Books, BooksFollow, Unbooked, Ending
    <2>4. HarFollows'
      BY <1>1, <2>0, <2>1 DEF Books, HarFollows, EndedOnce, EndsFollow, Ending, Has
    <2>5. CountersFollow'
      <3>1. \A k : BookedEnds(k)' = BookedEnds(k)
        BY <1>1, <2>0 DEF BookedEnds
      <3> QED
        BY <1>2, <1>5, <2>1, <3>1 DEF Books, CountersFollow
    <2> QED
      BY <2>2, <2>3, <2>4, <2>5 DEF Books
  <1> QED
    BY <1>6, <1>7 DEF BooksInv

LEMMA BooksInitial ==
    ASSUME NetworkInit
    PROVE  BooksInv
  <1>1. /\ evq = <<>> /\ inFlight = {} /\ open = [r \in Reqs |-> "none"] /\ closed = <<>> /\ ended = <<>>
        /\ counters = [completed |-> 0, failed |-> 0] /\ reported = [completed |-> 0, failed |-> 0]
        /\ \A r \in Reqs : req[r].st = "none"
    BY DEF NetworkInit
  <1>2. BookTypes
    BY <1>1 DEF BookTypes, Tallies
  <1>3. /\ \A k, q : ~Has(k, q)
        /\ DOMAIN evq = {} /\ DOMAIN ended = {} /\ Len(ended) = 0
    BY <1>1 DEF Has
  <1>4. EventsInOrder /\ EventsAreTrue
    BY <1>3 DEF EventsInOrder, EventsAreTrue
  <1>5. BooksFollow
    BY <1>1, <1>3 DEF BooksFollow, Unbooked
  <1>6. HarFollows
    <2>1. SubSeq(ended, 1, 0) = <<>> /\ HarCap \in Nat
      BY <1>1, NetworkAssumption
    <2>2. closed = LastN(SubSeq(ended, 1, 0), HarCap)
      BY <1>1, <2>1 DEF LastN
    <2>3. (0 + 1)..Len(ended) = {}
      BY <1>3
    <2>4. EndsFollow(0)
      BY <1>3, <2>2, <2>3 DEF EndsFollow
    <2> QED
      BY <1>3, <2>4 DEF HarFollows, EndedOnce
  <1>7. CountersFollow
    <2>1. \A k \in EndKinds : BookedEnds(k) = {}
      BY <1>1 DEF BookedEnds, EndKinds
    <2>2. IsFiniteSet({}) /\ Cardinality({}) = 0
      BY FS_EmptySet
    <2>3. counters.completed + reported.completed = 0 /\ counters.failed + reported.failed = 0
      BY <1>1
    <2>4. BookedEnds("finished") = {} /\ BookedEnds("failed") = {}
      BY <2>1 DEF EndKinds
    <2> QED
      BY <2>2, <2>3, <2>4 DEF CountersFollow
  <1> QED
    BY <1>2, <1>4, <1>5, <1>6, <1>7 DEF BooksInv, Books

(* The inductive invariant of a tab's books (HarRing, Page.in_flight and    *)
(* the counters of network.rs and page.rs): as long as the pump's receiver  *)
(* has lost nothing, every request is either in the books as Chromium last  *)
(* left it or the events that will bring it there are queued, in the order  *)
(* in which they happened.                                                  *)
THEOREM BooksInvariance == NetworkSpec => []BooksInv
  <1>1. ASSUME NetworkInv, BooksInv, [NetworkNext]_networkVars
        PROVE  BooksInv'
    <2>0. RequestTypes
      BY <1>1 DEF NetworkInv, NetworkTypes
    <2>1. CASE \E r \in Reqs : Start(r) \/ Redirect(r) \/ Respond(r) \/ Finish(r) \/ Fail(r)
      BY <1>1, <2>0, <2>1, RequestBooks
    <2>2. CASE \E k \in StreamKinds : Frame(k)
      BY <1>1, <2>0, <2>2, FrameBooks
    <2>3. CASE ExecResolve
      BY <1>1, <2>3, ExecResolveBooks
    <2>4. CASE Pump
      BY <1>1, <2>4, PumpBooks
    <2>5. CASE DrainExtras
      BY <1>1, <2>5, DrainBooks
    <2>6. CASE \/ ExecEnable \/ \E c \in Registrars : Intercept(c) \/ ReadPatterns(c) \/ SendEnable(c)
               \/ \E o \in Observers : Observe(o) \/ Forward(o)
      BY <1>1, <2>6, QuietBooks
         DEF ExecEnable, Intercept, ReadPatterns, SendEnable, Observe, Forward, browserVars, bookVars, observedVars
    <2>7. CASE UNCHANGED networkVars
      BY <1>1, <2>7, QuietBooks DEF networkVars, browserVars, bookVars, observedVars
    <2> QED
      BY <1>1, <2>1, <2>2, <2>3, <2>4, <2>5, <2>6, <2>7 DEF NetworkNext, Chromium
  <1> QED
    BY <1>1, BooksInitial, NetworkInvariance, PTL DEF NetworkSpec

(* Once the pump has caught up and its receiver has lost nothing, the tab's *)
(* books agree with Chromium: wait_for_network_idle's in_flight and the     *)
(* open HAR records are the running requests, the HAR ring holds the newest *)
(* requests that ended, in that order, and counters and snapshots together  *)
(* count every end once, however requests are redirected, intercepted,      *)
(* answered or cancelled, and for every size of the ring.                   *)
THEOREM BooksAgreeSafety == NetworkSpec => []BooksAgree
  <1>1. ASSUME NetworkInv, BooksInv
        PROVE  BooksAgree
    <2>0. SUFFICES ASSUME evq = <<>>, ~lagged
                   PROVE  LET running == {r \in Reqs : Running(r) /\ req[r].paired}
                              Count(st) == Cardinality({r \in Reqs : req[r].st = st /\ req[r].paired})
                          IN /\ inFlight = running
                             /\ {r \in Reqs : open[r] # "none"} = running
                             /\ closed = LastN(ended, HarCap)
                             /\ counters.completed + reported.completed = Count("finished")
                             /\ counters.failed + reported.failed = Count("failed")
      BY DEF BooksAgree
    <2>1. /\ BookTypes /\ BooksFollow /\ HarFollows /\ CountersFollow /\ RequestTypes
          /\ \A k, q : ~Has(k, q)
      BY <1>1, <2>0 DEF BooksInv, Books, NetworkInv, NetworkTypes, Has
    <2>2. \A r \in Reqs : req[r].st \in States /\ req[r].paired \in BOOLEAN
      BY <2>1 DEF RequestTypes, RequestStates
    <2>3. \A r \in Reqs : Unbooked(r) <=> Running(r) /\ req[r].paired
      BY <2>1, <2>2 DEF Unbooked, Ending, Running, States, EndKinds
    <2>4. inFlight = {r \in Reqs : Running(r) /\ req[r].paired}
      BY <2>1, <2>3 DEF BooksFollow, BookTypes
    <2>5. {r \in Reqs : open[r] # "none"} = inFlight
      BY <2>1 DEF BooksFollow, BookTypes
    <2>6. closed = LastN(ended, HarCap)
      <3>1. PICK m \in 0..Len(ended) : EndsFollow(m)
        BY <2>1 DEF HarFollows
      <3>2. Len(ended) \in Nat /\ ended \in Seq(Entries)
        BY <2>1, LenProperties DEF BookTypes
      <3>3. \A j \in (m + 1)..Len(ended) : FALSE
        BY <2>1, <3>1 DEF EndsFollow, Ending
      <3>4. m = Len(ended)
        BY <3>2, <3>3
      <3>5. SubSeq(ended, 1, Len(ended)) = ended
        BY <3>2, SubSeqFull
      <3> QED
        BY <3>1, <3>4, <3>5 DEF EndsFollow
    <2>7. \A k : BookedEnds(k) = {r \in Reqs : req[r].st = k /\ req[r].paired}
      BY <2>1 DEF BookedEnds
    <2>8. /\ counters.completed + reported.completed = Cardinality({r \in Reqs : req[r].st = "finished" /\ req[r].paired})
          /\ counters.failed + reported.failed = Cardinality({r \in Reqs : req[r].st = "failed" /\ req[r].paired})
      BY <2>1, <2>7 DEF CountersFollow
    <2> QED
      BY <2>4, <2>5, <2>6, <2>8
  <1> QED
    BY <1>1, NetworkInvariance, BooksInvariance, PTL

----------------------------------------------------------------------------
(* Counting the elements of a sequence                                      *)

\* The number of elements of s that are in T.
Where(s, T) == {i \in DOMAIN s : s[i] \in T}
CountIn(s, T) == Cardinality(Where(s, T))
Unit(P) == IF P THEN 1 ELSE 0

LEMMA CountNat ==
    ASSUME NEW S, NEW s \in Seq(S), NEW T
    PROVE  IsFiniteSet(Where(s, T)) /\ CountIn(s, T) \in Nat
  <1>1. DOMAIN s = 1..Len(s) /\ Len(s) \in Nat
    BY LenProperties
  <1>2. IsFiniteSet(1..Len(s))
    BY <1>1, FS_Interval
  <1>3. Where(s, T) \in SUBSET (1..Len(s))
    BY <1>1 DEF Where
  <1>4. IsFiniteSet(Where(s, T))
    BY <1>2, <1>3, FS_Subset
  <1> QED
    BY <1>4, FS_CardinalityType DEF CountIn

LEMMA CountNone ==
    ASSUME NEW s, NEW T, \A i \in DOMAIN s : s[i] \notin T
    PROVE  CountIn(s, T) = 0
  <1>1. Where(s, T) = {}
    BY DEF Where
  <1> QED
    BY <1>1, FS_EmptySet DEF CountIn

LEMMA CountOne ==
    ASSUME NEW s, NEW T, 1 \in DOMAIN s, \A i \in DOMAIN s : i # 1 => s[i] \notin T
    PROVE  CountIn(s, T) = Unit(s[1] \in T)
  <1>1. Where(s, T) = IF s[1] \in T THEN {1} ELSE {}
    BY DEF Where
  <1> QED
    BY <1>1, FS_EmptySet, FS_Singleton DEF CountIn, Unit

LEMMA CountConcat ==
    ASSUME NEW S, NEW s \in Seq(S), NEW t \in Seq(S), NEW T
    PROVE  CountIn(s \o t, T) = CountIn(s, T) + CountIn(t, T)
  <1> DEFINE c == s \o t
             n == Len(s)
             A == Where(s, T)
             B == Where(t, T)
             C == {i + n : i \in B}
             f == [i \in B |-> i + n]
  <1>1. /\ n \in Nat /\ Len(t) \in Nat /\ DOMAIN s = 1..n /\ DOMAIN t = 1..Len(t) /\ c \in Seq(S)
        /\ DOMAIN c = 1..(n + Len(t))
        /\ \A i \in 1..(n + Len(t)) : c[i] = IF i <= n THEN s[i] ELSE t[i - n]
    <2>1. c \in Seq(S) /\ Len(c) = n + Len(t)
      BY ConcatProperties
    <2> QED
      BY <2>1, ConcatProperties, LenProperties
  <1> HIDE DEF c, n
  <1>2. B \subseteq 1..Len(t) /\ A \subseteq 1..n
    BY <1>1 DEF Where
  <1>3. Where(c, T) = A \union C
    <2>1. ASSUME NEW i \in Where(c, T)
          PROVE  i \in A \union C
      <3>1. CASE i <= n
        BY <1>1, <2>1, <3>1 DEF Where
      <3>2. CASE ~(i <= n)
        <4>1. i \in 1..(n + Len(t))
          BY <1>1, <2>1 DEF Where
        <4>2. i - n \in 1..Len(t) /\ (i - n) + n = i /\ c[i] = t[i - n]
          BY <1>1, <3>2, <4>1
        <4>3. i - n \in B
          BY <1>1, <2>1, <4>2 DEF Where
        <4> QED
          BY <4>2, <4>3
      <3> QED
        BY <3>1, <3>2
    <2>2. ASSUME NEW i \in A
          PROVE  i \in Where(c, T)
      BY <1>1, <2>2 DEF Where
    <2>3. ASSUME NEW i \in B
          PROVE  i + n \in Where(c, T)
      <3>1. i \in 1..Len(t) /\ t[i] \in T
        BY <1>1, <2>3 DEF Where
      <3>2. i + n \in 1..(n + Len(t)) /\ ~(i + n <= n) /\ (i + n) - n = i
        BY <1>1, <3>1
      <3> QED
        BY <1>1, <3>1, <3>2 DEF Where
    <2> QED
      BY <2>1, <2>2, <2>3
  <1>4. A \intersect C = {}
    <2>1. \A i \in B : ~(i + n <= n)
      BY <1>1, <1>2
    <2>2. \A i \in A : i <= n
      BY <1>1, <1>2
    <2> QED
      BY <2>1, <2>2
  <1>5. IsFiniteSet(A) /\ IsFiniteSet(B) /\ Cardinality(A) \in Nat /\ Cardinality(B) \in Nat
    BY CountNat DEF CountIn
  <1> HIDE DEF A, B
  <1>6. IsFiniteSet(C) /\ Cardinality(C) = Cardinality(B)
    <2>1. \A i, j \in B : i + n = j + n => i = j
      BY <1>1, <1>2
    <2>2. f \in Bijection(B, C)
      BY <2>1 DEF Bijection, Injection, Surjection, IsInjective
    <2>3. ExistsBijection(B, C)
      BY <2>2 DEF ExistsBijection
    <2> QED
      BY <1>5, <2>3, FS_Bijection
  <1> HIDE DEF C
  <1>7. Cardinality(A \union C) = Cardinality(A) + Cardinality(C)
    <2>1. Cardinality(A \union C) = Cardinality(A) + Cardinality(C) - Cardinality(A \intersect C)
      BY <1>5, <1>6, FS_Union
    <2>2. Cardinality(A \intersect C) = 0
      BY <1>4, FS_EmptySet
    <2> QED
      BY <1>5, <1>6, <2>1, <2>2
  <1> QED
    BY <1>3, <1>6, <1>7 DEF CountIn, A, B, c

LEMMA CountAppend ==
    ASSUME NEW S, NEW s \in Seq(S), NEW e \in S, NEW T
    PROVE  CountIn(Append(s, e), T) = CountIn(s, T) + Unit(e \in T)
  <1>1. Append(s, e) = s \o <<e>> /\ <<e>> \in Seq(S)
    BY AppendIsConcat
  <1> DEFINE t == <<e>>
  <1>2. t \in Seq(S) /\ t[1] = e /\ DOMAIN t = {1}
    OBVIOUS
  <1>3. Append(s, e) = s \o t
    BY <1>1
  <1> HIDE DEF t
  <1>4. CountIn(t, T) = Unit(t[1] \in T)
    BY <1>2, CountOne
  <1>5. CountIn(s \o t, T) = CountIn(s, T) + CountIn(t, T)
    BY <1>2, CountConcat
  <1> QED
    BY <1>2, <1>3, <1>4, <1>5

LEMMA CountTail ==
    ASSUME NEW S, NEW s \in Seq(S), s # <<>>, NEW T
    PROVE  CountIn(s, T) = CountIn(Tail(s), T) + Unit(Head(s) \in T)
  <1>0. Len(s) \in Nat \ {0}
    BY EmptySeq
  <1>1. Head(s) = s[1] /\ Head(s) \in S /\ Tail(s) \in Seq(S) /\ Tail(s) = SubSeq(s, 1 + 1, Len(s))
    BY TailKeeps, TailIsSubSeq
  <1>2. s = <<s[1]>> \o Tail(s)
    <2>1. 1 \in 1..Len(s) /\ Len(s) \in 1..Len(s)
      BY <1>0
    <2>2. SubSeq(s, 1, Len(s)) = <<s[1]>> \o SubSeq(s, 1 + 1, Len(s))
      BY <2>1, SubSeqRecursiveFirst
    <2> QED
      BY <1>1, <2>2, SubSeqFull
  <1> DEFINE t == <<s[1]>>
  <1>3. t \in Seq(S) /\ t[1] = s[1] /\ DOMAIN t = {1}
    BY <1>1
  <1>4. s = t \o Tail(s)
    BY <1>2
  <1> HIDE DEF t
  <1>5. CountIn(t, T) = Unit(t[1] \in T)
    BY <1>3, CountOne
  <1>6. CountIn(t \o Tail(s), T) = CountIn(t, T) + CountIn(Tail(s), T)
    BY <1>1, <1>3, CountConcat
  <1>7. CountIn(Tail(s), T) \in Nat
    BY <1>1, CountNat
  <1>8. CountIn(s, T) = CountIn(t \o Tail(s), T)
    BY <1>4
  <1>9. CountIn(t, T) = Unit(Head(s) \in T) /\ Unit(Head(s) \in T) \in Nat
    BY <1>1, <1>3, <1>5 DEF Unit
  <1> QED
    BY <1>6, <1>7, <1>8, <1>9

LEMMA CountLastN ==
    ASSUME NEW S, NEW s \in Seq(S), NEW n \in Nat \ {0}, NEW T
    PROVE  /\ LastN(s, n) \in Seq(S) /\ Len(LastN(s, n)) <= n /\ CountIn(LastN(s, n), T) <= CountIn(s, T)
           /\ Len(s) <= n => LastN(s, n) = s
  <1>0. Len(s) \in Nat /\ CountIn(s, T) \in Nat
    BY LenProperties, CountNat
  <1>1. CASE Len(s) <= n
    BY <1>0, <1>1 DEF LastN
  <1>2. CASE Len(s) > n
    <2> DEFINE k == Len(s) - n
               a == SubSeq(s, 1, k)
               b == SubSeq(s, k + 1, Len(s))
    <2>1. k \in Nat /\ k \in (1 - 1)..Len(s) /\ 1 \in 1..(Len(s) + 1) /\ Len(s) \in k..Len(s) /\ Len(s) - n + 1 = k + 1
      BY <1>0, <1>2
    <2>2. a \o b = s
      <3>1. a \o b = SubSeq(s, 1, Len(s))
        <4> HIDE DEF k
        <4> QED
          BY <2>1, ConcatAdjacentSubSeq
      <3> QED
        BY <3>1, SubSeqFull
    <2>3. LastN(s, n) = b /\ b \in Seq(S) /\ Len(b) = n
      <3>1. LastN(s, n) = b
        BY <1>0, <1>2, <2>1 DEF LastN
      <3> QED
        BY <1>2, <3>1, LastNIs
    <2>4. a \in Seq(S)
      <3>1. \A i \in 1..k : s[i] \in S
        BY <1>0, <2>1, ElementOfSeq
      <3> QED
        BY <2>1, <3>1, SubSeqProperties
    <2> HIDE DEF a, b
    <2>5. CountIn(s, T) = CountIn(a, T) + CountIn(b, T) /\ CountIn(a, T) \in Nat /\ CountIn(b, T) \in Nat
      <3>1. CountIn(a \o b, T) = CountIn(a, T) + CountIn(b, T)
        BY <2>3, <2>4, CountConcat
      <3> QED
        BY <2>2, <2>3, <2>4, <3>1, CountNat
    <2> QED
      BY <1>0, <1>2, <2>3, <2>5
  <1> QED
    BY <1>0, <1>1, <1>2

----------------------------------------------------------------------------
(* What observers are told: inductive invariant                             *)

Subscriptions == [on : BOOLEAN, channel : {"net", "ws", "es"}, filter : Filters \union {{}}, q : Seq(Events),
                  lost : BOOLEAN, base : [Topics -> Nat]]
ObserveTypes ==
    /\ sub \in [Observers -> Subscriptions] /\ emitted \in [Topics -> Nat]
    /\ got \in [Observers -> [Topics -> Nat]]

\* The events that tell of topic x: Network's of a request that has any, Fetch's of
\* one that has not.
Tells(x) == {e \in Events : e.req = x /\ (x \in Reqs => e.kind = IF req[x].paired THEN "request" ELSE "paused")}
Items(x) == {e \in Events : e.req = x /\ e.kind # "response"}

\* A queued event is about a request that began, and one that tells of it has its URL.
EventsBegan ==
    \A i \in DOMAIN evq : evq[i].req \in Reqs =>
        /\ req[evq[i].req].st # "none"
        /\ evq[i].kind = "request" => req[evq[i].req].paired
        /\ evq[i].kind \in {"request", "paused"} => evq[i].url \in Urls
ItemsFit ==
    \A o \in Observers :
        /\ Len(sub[o].q) <= ObserveCap
        /\ \A i \in DOMAIN sub[o].q : sub[o].channel = "net" /\ sub[o].q[i].kind # "response" => sub[o].q[i].url \in Urls

\* What the client was sent, what its forwarder has yet to send and what the pump has
\* yet to hear.
Accounted(o, x) == got[o][x] + CountIn(sub[o].q, Items(x)) + CountIn(evq, Tells(x))
Follows(o, x) ==
    /\ sub[o].on /\ ~sub[o].lost /\ ~lagged
    /\ IF sub[o].channel = "net" THEN x \in Reqs /\ sub[o].filter = Urls ELSE x = sub[o].channel
ObserveInv ==
    /\ ObserveTypes /\ EventsBegan /\ ItemsFit
    /\ \A o \in Observers, x \in Topics : /\ Accounted(o, x) <= emitted[x]
                                          /\ Follows(o, x) => Accounted(o, x) + sub[o].base[x] >= emitted[x]

----------------------------------------------------------------------------
(* Chromium announces                                                       *)

LEMMA EmitCounts ==
    ASSUME RequestTypes, NEW es \in Seq(Events), Emit(es) \/ (es = <<>> /\ UNCHANGED <<evq, lagged>>), NEW T
    PROVE  /\ evq' \in Seq(Events) /\ CountIn(evq', T) \in Nat
           /\ CountIn(evq', T) <= CountIn(evq, T) + CountIn(es, T)
           /\ ~lagged' => ~lagged /\ CountIn(evq', T) = CountIn(evq, T) + CountIn(es, T)
           /\ \A i \in DOMAIN evq' : evq'[i] \in Elems(evq) \union Elems(es)
  <1>0. evq \in Seq(Events) /\ CountIn(evq, T) \in Nat /\ CountIn(es, T) \in Nat /\ EventCap \in Nat \ {0}
    BY CountNat, NetworkAssumption DEF RequestTypes
  <1>1. CASE es = <<>> /\ UNCHANGED <<evq, lagged>>
    <2>1. CountIn(es, T) = 0
      BY <1>1, CountNone
    <2> QED
      BY <1>0, <1>1, <2>1 DEF Elems
  <1>2. CASE Emit(es)
    <2> DEFINE s == evq \o es
    <2>1. /\ s \in Seq(Events) /\ evq' = LastN(s, EventCap)
          /\ DOMAIN s = 1..(Len(evq) + Len(es)) /\ DOMAIN evq = 1..Len(evq) /\ DOMAIN es = 1..Len(es)
          /\ Len(evq) \in Nat /\ Len(es) \in Nat /\ Len(s) = Len(evq) + Len(es)
          /\ \A i \in 1..(Len(evq) + Len(es)) : s[i] = IF i <= Len(evq) THEN evq[i] ELSE es[i - Len(evq)]
      <3>1. s \in Seq(Events) /\ Len(s) = Len(evq) + Len(es)
        BY <1>0, ConcatProperties
      <3> QED
        BY <1>0, <1>2, <3>1, ConcatProperties, LenProperties DEF Emit
    <2>2. CountIn(s, T) = CountIn(evq, T) + CountIn(es, T)
      BY <1>0, CountConcat
    <2>3. ~lagged' => ~lagged /\ evq' = s
      BY <1>2, TellKeeps
    <2> HIDE DEF s
    <2>4. evq' \in Seq(Events) /\ CountIn(evq', T) <= CountIn(s, T)
      BY <1>0, <2>1, CountLastN
    <2>5. CountIn(evq', T) \in Nat
      BY <2>4, CountNat
    <2>6. \A i \in DOMAIN s : s[i] \in Elems(evq) \union Elems(es)
      <3>1. SUFFICES ASSUME NEW i \in DOMAIN s PROVE s[i] \in Elems(evq) \union Elems(es)
        OBVIOUS
      <3>2. CASE i <= Len(evq)
        BY <2>1, <3>2 DEF Elems
      <3>3. CASE ~(i <= Len(evq))
        <4>1. i - Len(evq) \in DOMAIN es /\ s[i] = es[i - Len(evq)]
          BY <2>1, <3>3
        <4> QED
          BY <4>1 DEF Elems
      <3> QED
        BY <3>2, <3>3
    <2>7. \A i \in DOMAIN evq' : \E j \in DOMAIN s : evq'[i] = s[j]
      <3>1. CASE Len(s) <= EventCap
        BY <2>1, <3>1 DEF LastN
      <3>2. CASE ~(Len(s) <= EventCap)
        <4>1. Len(s) > EventCap
          BY <1>0, <2>1, <3>2
        <4>2. Len(evq') = EventCap /\ \A i \in 1..EventCap : evq'[i] = s[Len(s) - EventCap + i]
          BY <1>0, <2>1, <4>1, LastNIs
        <4>3. DOMAIN evq' = 1..EventCap
          BY <2>4, <4>2, LenProperties
        <4>4. \A i \in 1..EventCap : Len(s) - EventCap + i \in DOMAIN s
          BY <1>0, <2>1, <4>1
        <4> QED
          BY <4>2, <4>3, <4>4
      <3> QED
        BY <3>1, <3>2
    <2> QED
      BY <2>2, <2>3, <2>4, <2>5, <2>6, <2>7
  <1> QED
    BY <1>1, <1>2

LEMMA Balance ==
    \A g, q, e, d, m, b \in Nat :
        /\ \A n \in Nat : n <= e + d /\ g + q + e <= m => g + q + n <= m + d
        /\ g + q + e + b >= m => g + q + (e + d) + b >= m + d
  OBVIOUS

\* What is told is announced, and an announced request keeps its kind of event.
LEMMA ToldObserved ==
    ASSUME RequestTypes, ObserveInv, NEW es \in Seq(Events),
           Emit(es) \/ (es = <<>> /\ UNCHANGED <<evq, lagged>>), UNCHANGED <<sub, got>>,
           \A r \in Reqs : req[r].st # "none" => req'[r].st # "none" /\ req'[r].paired = req[r].paired,
           \A e \in Elems(es) : e.req \in Reqs =>
               /\ req'[e.req].st # "none"
               /\ e.kind = "request" => req'[e.req].paired
               /\ e.kind \in {"request", "paused"} => e.url \in Urls,
           emitted' \in [Topics -> Nat],
           \A x \in Topics : emitted'[x] = emitted[x] + CountIn(es, Tells(x)')
    PROVE  ObserveInv'
  <1>0. ObserveTypes /\ EventsBegan /\ ItemsFit /\ evq \in Seq(Events)
    BY DEF ObserveInv, RequestTypes
  <1>1. ObserveTypes' /\ ItemsFit'
    BY <1>0 DEF ObserveTypes, ItemsFit
  <1>2. EventsBegan'
    <2>1. \A e \in Elems(evq) : e.req \in Reqs =>
               /\ req'[e.req].st # "none"
               /\ e.kind = "request" => req'[e.req].paired
               /\ e.kind \in {"request", "paused"} => e.url \in Urls
      BY <1>0 DEF EventsBegan, Elems
    <2>2. \A i \in DOMAIN evq' : evq'[i] \in Elems(evq) \union Elems(es)
      BY EmitCounts
    <2> QED
      BY <2>1, <2>2 DEF EventsBegan
  <1>3. ASSUME NEW x \in Topics
        PROVE  CountIn(evq, Tells(x)') = CountIn(evq, Tells(x))
    <2>1. CASE x \in Reqs /\ req[x].st = "none"
      <3>1. \A i \in DOMAIN evq : evq[i].req # x
        BY <1>0, <2>1 DEF EventsBegan
      <3>2. \A i \in DOMAIN evq : evq[i] \notin Tells(x) /\ evq[i] \notin Tells(x)'
        BY <3>1 DEF Tells
      <3>3. CountIn(evq, Tells(x)) = 0
        BY <3>2, CountNone
      <3>4. CountIn(evq, Tells(x)') = 0
        BY <3>2, CountNone
      <3> QED
        BY <3>3, <3>4
    <2>2. CASE x \in Reqs /\ req[x].st # "none"
      <3>1. req'[x].paired = req[x].paired
        BY <2>2
      <3>2. Tells(x)' = Tells(x)
        BY <2>2, <3>1 DEF Tells
      <3> QED
        BY <3>2
    <2>3. CASE x \notin Reqs
      <3>1. Tells(x)' = Tells(x)
        BY <2>3 DEF Tells
      <3> QED
        BY <3>1
    <2> QED
      BY <2>1, <2>2, <2>3
  <1>4. ASSUME NEW o \in Observers, NEW x \in Topics
        PROVE  /\ Accounted(o, x)' <= emitted'[x]
               /\ Follows(o, x)' => Accounted(o, x)' + sub'[o].base[x] >= emitted'[x]
    <2> DEFINE cq == CountIn(sub[o].q, Items(x))
               ce == CountIn(evq, Tells(x))
               cn == CountIn(evq', Tells(x)')
               d == CountIn(es, Tells(x)')
    <2>1. got[o][x] \in Nat /\ emitted[x] \in Nat /\ sub[o].base[x] \in Nat /\ sub[o].q \in Seq(Events)
      BY <1>0 DEF ObserveTypes, Subscriptions
    <2>2. cq \in Nat /\ ce \in Nat /\ cn \in Nat /\ d \in Nat
      BY <1>0, <2>1, CountNat, EmitCounts
    <2>3. cn <= ce + d /\ (~lagged' => ~lagged /\ cn = ce + d)
      BY <1>3, EmitCounts
    <2>4. Items(x)' = Items(x)
      BY DEF Items
    <2>5. Accounted(o, x)' = got[o][x] + cq + cn
      BY <2>4 DEF Accounted
    <2>6. emitted'[x] = emitted[x] + d
      OBVIOUS
    <2>7. got[o][x] + cq + ce <= emitted[x] /\ (Follows(o, x) => got[o][x] + cq + ce + sub[o].base[x] >= emitted[x])
      BY DEF ObserveInv, Accounted
    <2>8. Follows(o, x)' => Follows(o, x) /\ ~lagged'
      BY <2>3 DEF Follows
    <2> HIDE DEF cq, ce, cn, d
    <2>9. Accounted(o, x)' <= emitted'[x]
      <3>1. got[o][x] + cq + cn <= emitted[x] + d
        BY <2>1, <2>2, <2>3, <2>7, Balance
      <3> QED
        BY <2>5, <2>6, <3>1
    <2>10. ASSUME Follows(o, x)'
           PROVE  Accounted(o, x)' + sub'[o].base[x] >= emitted'[x]
      <3>1. /\ cn = ce + d /\ sub'[o].base[x] = sub[o].base[x]
            /\ got[o][x] + cq + ce + sub[o].base[x] >= emitted[x]
        BY <2>3, <2>7, <2>8, <2>10
      <3>2. got[o][x] + cq + cn + sub[o].base[x] >= emitted[x] + d
        BY <2>1, <2>2, <3>1, Balance
      <3> QED
        BY <2>5, <2>6, <3>1, <3>2
    <2> QED
      BY <2>9, <2>10
  <1> QED
    BY <1>1, <1>2, <1>4 DEF ObserveInv

\* Announcing a topic counts it.
LEMMA AnnounceCounts ==
    ASSUME ObserveTypes, NEW x \in Topics, Announce(x)
    PROVE  emitted' \in [Topics -> Nat] /\ \A y \in Topics : emitted'[y] = emitted[y] + Unit(y = x)
  <1>1. emitted \in [Topics -> Nat] /\ emitted' = [emitted EXCEPT ![x] = @ + 1]
    BY DEF ObserveTypes, Announce
  <1> QED
    BY <1>1 DEF Unit

LEMMA LeavesObserved ==
    ASSUME RequestTypes, ObserveInv, NEW r \in Reqs, NEW u \in Urls, NEW paired \in BOOLEAN, paired \/ Pauses(u),
           Leaves(r, u, paired), req[r].st = "none" \/ (req[r].paired /\ paired), UNCHANGED <<sub, got>>
    PROVE  ObserveInv'
  <1> DEFINE v == [st |-> IF Pauses(u) THEN "paused" ELSE "sent", url |-> u, paired |-> paired]
             a == Event("request", r, u)
             b == Event("paused", r, u)
             es == (IF paired THEN <<a>> ELSE <<>>) \o (IF Pauses(u) THEN <<b>> ELSE <<>>)
  <1>1. /\ a \in Events /\ b \in Events /\ a.req = r /\ b.req = r /\ a.url = u /\ b.url = u
        /\ a.kind = "request" /\ b.kind = "paused"
    BY EventTypes DEF AnyUrl, Event
  <1>2. req' = [req EXCEPT ![r] = v] /\ Emit(es) /\ Announce(r) /\ v.paired = paired /\ v.st # "none"
    BY DEF Leaves
  <1>3. (paired /\ (es = <<a, b>> \/ es = <<a>>)) \/ (~paired /\ es = <<b>>)
    <2> HIDE DEF a, b
    <2> QED
      BY ConcatSmall
  <1> HIDE DEF a, b, es, v
  <1>4. es \in Seq(Events) /\ 1 \in DOMAIN es /\ \A i \in DOMAIN es : es[i] = a \/ es[i] = b
    <2>1. a \in Events /\ b \in Events
      BY <1>1
    <2>2. es = <<a, b>> \/ es = <<a>> \/ es = <<b>>
      BY <1>3
    <2>3. \A x, y \in Events : <<x>> \in Seq(Events) /\ <<x, y>> \in Seq(Events)
      OBVIOUS
    <2>4. es \in Seq(Events)
      BY <2>1, <2>2, <2>3
    <2> QED
      BY <2>2, <2>4
  <1>5. req'[r] = v /\ \A q \in Reqs \ {r} : req'[q] = req[q]
    BY <1>2 DEF RequestTypes
  <1>6. \A e \in Elems(es) : e.req = r /\ e.url = u /\ (e.kind = "request" => paired)
    <2>1. \A i \in DOMAIN es : es[i].req = r /\ es[i].url = u /\ (es[i].kind = "request" => paired)
      BY <1>1, <1>3, <1>4
    <2> QED
      BY <2>1 DEF Elems
  <1>7. ASSUME NEW x \in Topics
        PROVE  CountIn(es, Tells(x)') = Unit(x = r)
    <2>1. CASE x # r
      <3>1. \A i \in DOMAIN es : es[i] \notin Tells(x)'
        BY <1>1, <1>4, <2>1 DEF Tells
      <3> QED
        BY <2>1, <3>1, CountNone DEF Unit
    <2>2. CASE x = r
      <3>1. /\ a \in Tells(x)' <=> paired
            /\ b \in Tells(x)' <=> ~paired
        BY <1>1, <1>2, <1>5, <2>2 DEF Tells
      <3>2. es[1] \in Tells(x)' /\ \A i \in DOMAIN es : i # 1 => es[i] \notin Tells(x)'
        BY <1>3, <1>4, <3>1
      <3>3. CountIn(es, Tells(x)') = Unit(es[1] \in Tells(x)')
        BY <1>4, <3>2, CountOne
      <3> QED
        BY <2>2, <3>2, <3>3 DEF Unit
    <2> QED
      BY <2>1, <2>2
  <1>8. r \in Topics
    BY DEF Topics
  <1>9. emitted' \in [Topics -> Nat] /\ \A x \in Topics : emitted'[x] = emitted[x] + CountIn(es, Tells(x)')
    BY <1>2, <1>7, <1>8, AnnounceCounts DEF ObserveInv
  <1>10. \A q \in Reqs : req[q].st # "none" => req'[q].st # "none" /\ req'[q].paired = req[q].paired
    BY <1>2, <1>5
  <1>11. \A e \in Elems(es) : e.req \in Reqs =>
               /\ req'[e.req].st # "none"
               /\ e.kind = "request" => req'[e.req].paired
               /\ e.kind \in {"request", "paused"} => e.url \in Urls
    BY <1>2, <1>5, <1>6
  <1> QED
    BY <1>2, <1>4, <1>9, <1>10, <1>11, ToldObserved

\* The rest of what happens to a request is no news to an observer.
LEMMA BecomesObserved ==
    ASSUME RequestTypes, ObserveInv, NEW r \in Reqs, NEW st \in States \ {"none"}, Becomes(r, st),
           NEW es \in Seq(Events), \A i \in DOMAIN es : es[i].req = r /\ es[i].kind \notin {"request", "paused"},
           Emit(es) \/ (es = <<>> /\ UNCHANGED <<evq, lagged>>), UNCHANGED <<sub, got, emitted>>
    PROVE  ObserveInv'
  <1>1. req \in [Reqs -> RequestStates] /\ req' = [req EXCEPT ![r].st = st]
    BY DEF RequestTypes, Becomes
  <1>2. /\ \A q \in Reqs \ {r} : req'[q] = req[q]
        /\ req'[r].st = st /\ req'[r].paired = req[r].paired
    BY <1>1 DEF RequestStates
  <1>3. ASSUME NEW x \in Topics
        PROVE  emitted'[x] = emitted[x] + CountIn(es, Tells(x)')
    <2>1. \A i \in DOMAIN es : es[i] \notin Tells(x)'
      BY <1>3 DEF Tells
    <2>2. CountIn(es, Tells(x)') = 0
      BY <2>1, CountNone
    <2>3. emitted[x] \in Nat
      BY DEF ObserveInv, ObserveTypes
    <2> QED
      BY <2>2, <2>3
  <1>4. \A q \in Reqs : req[q].st # "none" => req'[q].st # "none" /\ req'[q].paired = req[q].paired
    BY <1>2
  <1>5. \A e \in Elems(es) : e.req \in Reqs =>
               /\ req'[e.req].st # "none"
               /\ e.kind = "request" => req'[e.req].paired
               /\ e.kind \in {"request", "paused"} => e.url \in Urls
    BY <1>2 DEF Elems
  <1>6. emitted' \in [Topics -> Nat]
    BY DEF ObserveInv, ObserveTypes
  <1> QED
    BY <1>3, <1>4, <1>5, <1>6, ToldObserved

LEMMA EndsObserved ==
    ASSUME RequestTypes, ObserveInv, NEW r \in Reqs, NEW st \in EndKinds, NEW es, Ends(r, st, es),
           UNCHANGED <<sub, got, emitted>>,
           es = <<Told(st, r)>> \/ es = <<Told("response", r), Told("finished", r)>>
    PROVE  ObserveInv'
  <1>1. st \in States \ {"none"} /\ Becomes(r, st)
    BY DEF States, EndKinds, Ends
  <1> DEFINE a == Told(st, r)
             b == Told("response", r)
             c == Told("finished", r)
  <1>2. /\ a \in Events /\ b \in Events /\ c \in Events
        /\ \A e \in {a, b, c} : e.req = r /\ e.kind \notin {"request", "paused"}
    <2>1. a \in Events /\ b \in Events /\ c \in Events
      BY EventTypes DEF EndKinds
    <2>2. a.req = r /\ a.kind = st /\ b.req = r /\ b.kind = "response" /\ c.req = r /\ c.kind = "finished"
      BY DEF Told, Event
    <2> HIDE DEF a, b, c
    <2> QED
      BY <2>1, <2>2 DEF EndKinds
  <1>3. es = <<a>> \/ es = <<b, c>>
    OBVIOUS
  <1> HIDE DEF a, b, c
  <1>4. es \in Seq(Events) /\ \A i \in DOMAIN es : es[i] \in {a, b, c}
    <2>1. \A x, y \in Events : <<x>> \in Seq(Events) /\ <<x, y>> \in Seq(Events)
      OBVIOUS
    <2>2. es \in Seq(Events)
      BY <1>2, <1>3, <2>1
    <2> QED
      BY <1>3, <2>2
  <1>5. CASE Emit(es)
    BY <1>1, <1>2, <1>4, <1>5, BecomesObserved
  <1>6. CASE UNCHANGED <<evq, lagged>>
    <2>1. <<>> \in Seq(Events) /\ \A i \in DOMAIN <<>> : FALSE
      OBVIOUS
    <2> QED
      BY <1>1, <1>6, <2>1, BecomesObserved
  <1> QED
    BY <1>5, <1>6 DEF Ends

LEMMA RequestObserved ==
    ASSUME RequestTypes, ObserveInv, NEW r \in Reqs, Start(r) \/ Redirect(r) \/ Respond(r) \/ Finish(r) \/ Fail(r)
    PROVE  ObserveInv'
  <1>1. UNCHANGED <<sub, got>>
    BY DEF Start, Redirect, Respond, Finish, Fail, observedVars
  <1>2. CASE Start(r)
    BY <1>1, <1>2, LeavesObserved DEF Start
  <1>3. CASE Redirect(r)
    BY <1>1, <1>3, LeavesObserved DEF Redirect
  <1>4. CASE Respond(r)
    <2> DEFINE e == Told("response", r)
    <2>1. Becomes(r, "answered") /\ Emit(<<e>>) /\ UNCHANGED emitted
      BY <1>4 DEF Respond
    <2>2. e \in Events /\ e.req = r /\ e.kind = "response"
      BY EventTypes DEF Told, Event
    <2> HIDE DEF e
    <2>3. <<e>> \in Seq(Events) /\ \A i \in DOMAIN <<e>> : <<e>>[i].req = r /\ <<e>>[i].kind \notin {"request", "paused"}
      BY <2>2
    <2>4. "answered" \in States \ {"none"}
      BY DEF States
    <2> QED
      BY <1>1, <2>1, <2>3, <2>4, BecomesObserved
  <1>5. CASE Finish(r)
    BY <1>1, <1>5, EndsObserved DEF Finish, EndKinds
  <1>6. CASE Fail(r)
    BY <1>1, <1>6, EndsObserved DEF Fail, EndKinds
  <1> QED
    BY <1>2, <1>3, <1>4, <1>5, <1>6

LEMMA FrameObserved ==
    ASSUME RequestTypes, ObserveInv, NEW k \in StreamKinds, Frame(k)
    PROVE  ObserveInv'
  <1> DEFINE e == Event(k, k, NoUrl)
             es == <<e>>
  <1>1. e \in Events /\ e.req = k /\ k \notin Reqs /\ k \in Topics
    BY EventTypes, NetworkAssumption DEF Event, StreamKinds, Topics
  <1>2. Emit(es) /\ Announce(k) /\ UNCHANGED <<req, sub, got>>
    BY DEF Frame, observedVars
  <1> HIDE DEF e
  <1>3. es \in Seq(Events) /\ DOMAIN es = {1} /\ es[1] = e
    BY <1>1
  <1> HIDE DEF es
  <1>4. ASSUME NEW x \in Topics
        PROVE  CountIn(es, Tells(x)') = Unit(x = k)
    <2>1. es[1] \in Tells(x)' <=> x = k
      BY <1>1, <1>3 DEF Tells
    <2>2. CountIn(es, Tells(x)') = Unit(es[1] \in Tells(x)')
      BY <1>3, CountOne
    <2> QED
      BY <2>1, <2>2 DEF Unit
  <1>5. emitted' \in [Topics -> Nat] /\ \A x \in Topics : emitted'[x] = emitted[x] + CountIn(es, Tells(x)')
    BY <1>1, <1>2, <1>4, AnnounceCounts DEF ObserveInv
  <1>6. \A f \in Elems(es) : f.req \notin Reqs
    BY <1>1, <1>3 DEF Elems
  <1> QED
    BY <1>2, <1>3, <1>5, <1>6, ToldObserved

LEMMA ExecResolveObserved ==
    ASSUME NetworkInv, ObserveInv, ExecResolve
    PROVE  ObserveInv'
  <1>0. RequestTypes /\ cmds \in Seq(Enables \union Resolutions) /\ cmds # <<>> /\ Head(cmds).kind = "resolve"
    BY DEF NetworkInv, NetworkTypes, CommandTypes, ExecResolve
  <1>1. PICK r \in Reqs : r = Head(cmds).req
    BY <1>0, TailKeeps DEF Enables, Resolutions
  <1>2. UNCHANGED <<sub, got, emitted>>
    BY DEF ExecResolve, observedVars
  <1>3. CASE Becomes(r, "sent") /\ UNCHANGED <<evq, lagged>>
    <2>1. <<>> \in Seq(Events) /\ "sent" \in States \ {"none"} /\ \A i \in DOMAIN <<>> : FALSE
      BY DEF States
    <2> QED
      BY <1>0, <1>2, <1>3, <2>1, BecomesObserved
  <1>4. CASE Ends(r, "finished", <<Told("response", r), Told("finished", r)>>)
    BY <1>0, <1>2, <1>4, EndsObserved DEF EndKinds
  <1>5. CASE Ends(r, "failed", <<Told("failed", r)>>)
    BY <1>0, <1>2, <1>5, EndsObserved DEF EndKinds
  <1>6. CASE UNCHANGED <<req, evq, lagged>>
    BY <1>2, <1>6 DEF ObserveInv, ObserveTypes, EventsBegan, ItemsFit, Accounted, Follows, Tells, Items
  <1> QED
    BY <1>1, <1>3, <1>4, <1>5, <1>6 DEF ExecResolve

----------------------------------------------------------------------------
(* The pump broadcasts and the forwarders send                              *)

\* A receiver on the channel gets the item, and knows when it lost one for it.
LEMMA BroadcastQueues ==
    ASSUME sub \in [Observers -> Subscriptions], NEW ch, NEW item \in Events, Broadcast(ch, item), NEW o \in Observers,
           Len(sub[o].q) <= ObserveCap, NEW T
    PROVE  /\ sub'[o] \in Subscriptions /\ Len(sub'[o].q) <= ObserveCap
           /\ sub'[o].on = sub[o].on /\ sub'[o].channel = sub[o].channel /\ sub'[o].filter = sub[o].filter
           /\ sub'[o].base = sub[o].base
           /\ ~(sub[o].on /\ sub[o].channel = ch) => sub'[o] = sub[o]
           /\ sub[o].on /\ sub[o].channel = ch =>
                 /\ CountIn(sub'[o].q, T) <= CountIn(sub[o].q, T) + Unit(item \in T)
                 /\ ~sub'[o].lost => /\ ~sub[o].lost
                                     /\ CountIn(sub'[o].q, T) = CountIn(sub[o].q, T) + Unit(item \in T)
                 /\ \A i \in DOMAIN sub'[o].q : sub'[o].q[i] \in Elems(sub[o].q) \union {item}
  <1> DEFINE s == Append(sub[o].q, item)
             n == ObserveCap
  <1>0. /\ sub[o] \in Subscriptions /\ sub[o].q \in Seq(Events) /\ ObserveCap \in Nat \ {0}
        /\ Len(sub[o].q) \in Nat /\ DOMAIN sub[o].q = 1..Len(sub[o].q) /\ CountIn(sub[o].q, T) \in Nat
    <2>1. sub[o] \in Subscriptions /\ sub[o].q \in Seq(Events) /\ ObserveCap \in Nat \ {0}
      BY NetworkAssumption DEF Subscriptions
    <2> QED
      BY <2>1, LenProperties, CountNat
  <1>1. CASE ~(sub[o].on /\ sub[o].channel = ch)
    <2>1. sub'[o] = sub[o]
      BY <1>1 DEF Broadcast
    <2> QED
      BY <1>0, <1>1, <2>1
  <1>2. CASE sub[o].on /\ sub[o].channel = ch
    <2>1. sub'[o] = [sub[o] EXCEPT !.q = LastN(s, n), !.lost = @ \/ Len(sub[o].q) = ObserveCap]
      BY <1>2 DEF Broadcast
    <2>2. /\ s \in Seq(Events) /\ Len(s) = Len(sub[o].q) + 1 /\ DOMAIN s = 1..Len(s)
          /\ (\A i \in 1..Len(sub[o].q) : s[i] = sub[o].q[i]) /\ s[Len(sub[o].q) + 1] = item
      <3>1. s \in Seq(Events) /\ Len(s) = Len(sub[o].q) + 1
        BY <1>0, AppendProperties
      <3> QED
        BY <1>0, <3>1, AppendProperties, LenProperties
    <2>3. CountIn(s, T) = CountIn(sub[o].q, T) + Unit(item \in T)
      BY <1>0, CountAppend
    <2> HIDE DEF s
    <2>4. /\ LastN(s, n) \in Seq(Events) /\ Len(LastN(s, n)) <= n /\ CountIn(LastN(s, n), T) <= CountIn(s, T)
          /\ Len(s) <= n => LastN(s, n) = s
      BY <1>0, <2>2, CountLastN
    <2>5. /\ sub'[o] \in Subscriptions /\ sub'[o].q = LastN(s, n)
          /\ sub'[o].on = sub[o].on /\ sub'[o].channel = sub[o].channel /\ sub'[o].filter = sub[o].filter
          /\ sub'[o].base = sub[o].base /\ (sub'[o].lost <=> sub[o].lost \/ Len(sub[o].q) = ObserveCap)
      BY <1>0, <2>1, <2>4 DEF Subscriptions
    <2>6. ~sub'[o].lost => ~sub[o].lost /\ Len(s) <= n
      BY <1>0, <2>2, <2>5
    <2>7. \A i \in DOMAIN s : s[i] \in Elems(sub[o].q) \union {item}
      BY <1>0, <2>2 DEF Elems
    <2>8. \A i \in DOMAIN LastN(s, n) : \E j \in DOMAIN s : LastN(s, n)[i] = s[j]
      <3>1. CASE Len(s) <= n
        BY <2>4, <3>1
      <3>2. CASE ~(Len(s) <= n)
        <4>1. Len(s) > n
          BY <1>0, <2>2, <3>2
        <4>2. Len(LastN(s, n)) = n /\ \A i \in 1..n : LastN(s, n)[i] = s[Len(s) - n + i]
          BY <1>0, <2>2, <4>1, LastNIs
        <4>3. DOMAIN LastN(s, n) = 1..n
          BY <2>4, <4>2, LenProperties
        <4>4. \A i \in 1..n : Len(s) - n + i \in DOMAIN s
          BY <1>0, <2>2, <4>1
        <4> QED
          BY <4>2, <4>3, <4>4
      <3> QED
        BY <3>1, <3>2
    <2> QED
      BY <1>2, <2>3, <2>4, <2>5, <2>6, <2>7, <2>8
  <1> QED
    BY <1>1, <1>2

LEMMA PopBalance ==
    \A g, q, p, m, b \in Nat : \A u \in {0, 1} :
        /\ \A n \in Nat : n <= q + u /\ g + q + (p + u) <= m => g + n + p <= m
        /\ g + q + (p + u) + b >= m => g + (q + u) + p + b >= m
  OBVIOUS

\* An event that tells of a topic is passed on to who observes it, as one item.
LEMMA PopObserved ==
    ASSUME Pops, ObserveInv, UNCHANGED <<got, emitted>>, NEW ch, NEW item \in Events, Broadcast(ch, item),
           \A x \in Topics : Head(evq) \in Tells(x) <=> item \in Items(x),
           \A x \in Topics : Head(evq) \in Tells(x) => ch = IF x \in Reqs THEN "net" ELSE x,
           ch = "net" /\ item.kind # "response" => item.url \in Urls
    PROVE  ObserveInv'
  <1>0. /\ ObserveTypes /\ EventsBegan /\ ItemsFit /\ evq \in Seq(Events) /\ evq # <<>> /\ evq' = Tail(evq)
        /\ req' = req /\ lagged' = lagged
    BY DEF ObserveInv, Pops, RequestTypes
  <1>1. evq' \in Seq(Events) /\ \A i \in DOMAIN evq' : i + 1 \in DOMAIN evq /\ evq'[i] = evq[i + 1]
    BY PopShifts
  <1>2. EventsBegan'
    BY <1>0, <1>1 DEF EventsBegan
  <1>3. sub \in [Observers -> Subscriptions] /\ \A o \in Observers : Len(sub[o].q) <= ObserveCap
    BY <1>0 DEF ObserveTypes, ItemsFit
  <1>4. ObserveTypes'
    <2>1. \A o \in Observers : sub'[o] \in Subscriptions
      BY <1>3, BroadcastQueues
    <2>2. sub' = [o \in Observers |-> sub'[o]]
      BY DEF Broadcast
    <2>3. sub' \in [Observers -> Subscriptions]
      BY <2>1, <2>2
    <2> QED
      BY <1>0, <2>3 DEF ObserveTypes
  <1>5. ItemsFit'
    <2>1. SUFFICES ASSUME NEW o \in Observers
                   PROVE  /\ Len(sub'[o].q) <= ObserveCap
                          /\ \A i \in DOMAIN sub'[o].q : sub'[o].channel = "net" /\ sub'[o].q[i].kind # "response" =>
                                                            sub'[o].q[i].url \in Urls
      BY DEF ItemsFit
    <2>2. \A f \in Elems(sub[o].q) : sub[o].channel = "net" /\ f.kind # "response" => f.url \in Urls
      BY <1>0 DEF ItemsFit, Elems
    <2>3. CASE sub[o].on /\ sub[o].channel = ch
      BY <1>3, <2>2, <2>3, BroadcastQueues
    <2>4. CASE ~(sub[o].on /\ sub[o].channel = ch)
      <3>1. sub'[o] = sub[o]
        BY <1>3, <2>4, BroadcastQueues
      <3> QED
        BY <1>3, <2>2, <3>1 DEF Elems
    <2> QED
      BY <2>3, <2>4
  <1>6. ASSUME NEW o \in Observers, NEW x \in Topics
        PROVE  /\ Accounted(o, x)' <= emitted'[x]
               /\ Follows(o, x)' => Accounted(o, x)' + sub'[o].base[x] >= emitted'[x]
    <2> DEFINE u == Unit(Head(evq) \in Tells(x))
               q == CountIn(sub[o].q, Items(x))
               n == CountIn(sub'[o].q, Items(x))
               p == CountIn(evq', Tells(x))
    <2>1. /\ got[o][x] \in Nat /\ emitted[x] \in Nat /\ sub[o].base[x] \in Nat /\ sub[o].q \in Seq(Events)
          /\ sub'[o].q \in Seq(Events)
      BY <1>0, <1>4 DEF ObserveTypes, Subscriptions
    <2>2. q \in Nat /\ n \in Nat /\ p \in Nat /\ u \in {0, 1}
      BY <1>1, <2>1, CountNat DEF Unit
    <2>3. CountIn(evq, Tells(x)) = p + u
      BY <1>0, CountTail
    <2>4. Tells(x)' = Tells(x) /\ Items(x)' = Items(x)
      BY <1>0 DEF Tells, Items
    <2>5. Accounted(o, x)' = got[o][x] + n + p
      BY <2>4 DEF Accounted
    <2>6. got[o][x] + q + (p + u) <= emitted[x] /\ (Follows(o, x) => got[o][x] + q + (p + u) + sub[o].base[x] >= emitted[x])
      BY <2>3 DEF ObserveInv, Accounted
    <2>7. u = Unit(item \in Items(x))
      BY DEF Unit
    <2>8. n <= q + u
      <3>1. CASE sub[o].on /\ sub[o].channel = ch
        BY <1>3, <2>7, <3>1, BroadcastQueues
      <3>2. CASE ~(sub[o].on /\ sub[o].channel = ch)
        <4>1. n = q
          BY <1>3, <3>2, BroadcastQueues
        <4> HIDE DEF n, q, u
        <4> QED
          BY <2>2, <4>1
      <3> QED
        BY <3>1, <3>2
    <2>9. Follows(o, x)' => Follows(o, x) /\ n = q + u /\ sub'[o].base[x] = sub[o].base[x]
      <3>1. SUFFICES ASSUME Follows(o, x)'
                     PROVE  Follows(o, x) /\ n = q + u /\ sub'[o].base[x] = sub[o].base[x]
        OBVIOUS
      <3>2. /\ sub'[o].on = sub[o].on /\ sub'[o].channel = sub[o].channel /\ sub'[o].filter = sub[o].filter
            /\ sub'[o].base = sub[o].base
        BY <1>3, BroadcastQueues
      <3>3. /\ sub[o].on /\ ~sub'[o].lost /\ ~lagged
            /\ IF sub[o].channel = "net" THEN x \in Reqs /\ sub[o].filter = Urls ELSE x = sub[o].channel
        BY <1>0, <3>1, <3>2 DEF Follows
      <3>4. CASE sub[o].channel = ch
        <4>1. ~sub[o].lost /\ n = q + u
          BY <1>3, <2>7, <3>3, <3>4, BroadcastQueues
        <4> QED
          BY <3>2, <3>3, <4>1 DEF Follows
      <3>5. CASE sub[o].channel # ch
        <4>1. sub'[o] = sub[o]
          BY <1>3, <3>5, BroadcastQueues
        <4>2. sub[o].channel \in {"net", "ws", "es"}
          BY <1>3 DEF Subscriptions
        <4>3. Head(evq) \notin Tells(x)
          BY <3>3, <3>5, <4>2, NetworkAssumption
        <4>4. u = 0 /\ n = q
          BY <4>1, <4>3 DEF Unit
        <4>5. n = q + u
          <5> HIDE DEF n, q, u
          <5> QED
            BY <2>2, <4>4
        <4> QED
          BY <3>2, <3>3, <4>1, <4>5 DEF Follows
      <3> QED
        BY <3>4, <3>5
    <2> HIDE DEF u, q, n, p
    <2>10. Accounted(o, x)' <= emitted'[x]
      <3>1. got[o][x] + n + p <= emitted[x]
        BY <2>1, <2>2, <2>6, <2>8, PopBalance
      <3> QED
        BY <2>5, <3>1
    <2>11. ASSUME Follows(o, x)'
           PROVE  Accounted(o, x)' + sub'[o].base[x] >= emitted'[x]
      <3>1. n = q + u /\ sub'[o].base[x] = sub[o].base[x] /\ got[o][x] + q + (p + u) + sub[o].base[x] >= emitted[x]
        BY <2>6, <2>9, <2>11
      <3>2. got[o][x] + (q + u) + p + sub[o].base[x] >= emitted[x]
        BY <2>1, <2>2, <3>1, PopBalance
      <3> QED
        BY <2>5, <3>1, <3>2
    <2> QED
      BY <2>10, <2>11
  <1> QED
    BY <1>2, <1>4, <1>5, <1>6 DEF ObserveInv

\* An event that tells of no topic is not passed on.
LEMMA PopSilent ==
    ASSUME Pops, ObserveInv, UNCHANGED <<got, emitted, sub>>, \A x \in Topics : Head(evq) \notin Tells(x)
    PROVE  ObserveInv'
  <1>0. /\ ObserveTypes /\ EventsBegan /\ ItemsFit /\ evq \in Seq(Events) /\ evq # <<>> /\ evq' = Tail(evq)
        /\ req' = req /\ lagged' = lagged
    BY DEF ObserveInv, Pops, RequestTypes
  <1>1. evq' \in Seq(Events) /\ \A i \in DOMAIN evq' : i + 1 \in DOMAIN evq /\ evq'[i] = evq[i + 1]
    BY PopShifts
  <1>2. EventsBegan' /\ ObserveTypes' /\ ItemsFit'
    BY <1>0, <1>1 DEF EventsBegan, ObserveTypes, ItemsFit
  <1>3. ASSUME NEW o \in Observers, NEW x \in Topics
        PROVE  Accounted(o, x)' = Accounted(o, x) /\ (Follows(o, x)' <=> Follows(o, x))
    <2>1. CountIn(evq, Tells(x)) = CountIn(evq', Tells(x)) + Unit(Head(evq) \in Tells(x))
      BY <1>0, CountTail
    <2>2. Unit(Head(evq) \in Tells(x)) = 0 /\ CountIn(evq', Tells(x)) \in Nat
      BY <1>1, <1>3, CountNat DEF Unit
    <2>3. CountIn(evq, Tells(x)) = CountIn(evq', Tells(x))
      BY <2>1, <2>2
    <2>4. Tells(x)' = Tells(x) /\ Items(x)' = Items(x)
      BY <1>0 DEF Tells, Items
    <2> QED
      BY <1>0, <2>3, <2>4 DEF Accounted, Follows
  <1> QED
    BY <1>2, <1>3 DEF ObserveInv

LEMMA PumpObserved ==
    ASSUME NetworkInv, ObserveInv, Pump
    PROVE  ObserveInv'
  <1> DEFINE e == Head(evq)
             r == e.req
             u == e.url
  <1>0. RequestTypes /\ Pops /\ UNCHANGED <<got, emitted>> /\ EventsBegan
    BY DEF NetworkInv, NetworkTypes, Pump, browserVars, observedVars, Pops, ObserveInv
  <1>1. /\ e \in Events /\ 1 \in DOMAIN evq /\ e = evq[1]
    BY <1>0, PopShifts
  <1>2. \/ e.kind = "request" /\ record_request(r, u)
        \/ e.kind = "response" /\ record_response(r, u)
        \/ e.kind = "finished" /\ record_finished(r)
        \/ e.kind = "failed" /\ record_failed(r)
        \/ e.kind = "paused" /\ request_paused(r, u)
        \/ e.kind = "ws" /\ record_ws(r)
        \/ e.kind = "es" /\ record_es(r)
    BY DEF Pump
  <1> HIDE DEF e
  <1>3. /\ e.kind \in {"request", "response", "finished", "failed", "paused"} => r \in Reqs /\ u \in AnyUrl
        /\ e.kind \in StreamKinds => r = e.kind
    BY <1>1 DEF Events, StreamKinds
  <1>4. /\ r \in Reqs /\ e.kind = "request" => req[r].paired
        /\ r \in Reqs /\ e.kind \in {"request", "paused"} => u \in Urls
    BY <1>0, <1>1 DEF EventsBegan
  <1>5. \A k \in StreamKinds : k \notin Reqs
    BY NetworkAssumption DEF StreamKinds
  <1>6. CASE e.kind \in {"finished", "failed"} \/ (e.kind = "paused" /\ req[r].paired)
    <2>1. sub' = sub
      BY <1>2, <1>6 DEF record_finished, record_failed, request_paused, record_synthetic_request
    <2>2. \A x \in Topics : e \notin Tells(x)
      BY <1>3, <1>6 DEF Tells
    <2> QED
      BY <1>0, <2>1, <2>2, PopSilent DEF e
  <1>7. CASE e.kind \in {"request", "response"} \/ (e.kind = "paused" /\ ~req[r].paired)
    <2> DEFINE item == Event(IF e.kind = "response" THEN "response" ELSE "request", r, u)
    <2>1. Broadcast("net", item)
      BY <1>2, <1>7 DEF record_request, record_response, request_paused, record_synthetic_request
    <2>2. /\ item \in Events /\ item.req = r /\ item.url = u
          /\ item.kind = IF e.kind = "response" THEN "response" ELSE "request"
      BY <1>3, <1>7 DEF Event, Events
    <2> HIDE DEF item
    <2>3. \A x \in Topics : e \in Tells(x) <=> item \in Items(x)
      BY <1>1, <1>3, <1>4, <1>7, <2>2 DEF Tells, Items
    <2>4. \A x \in Topics : e \in Tells(x) => "net" = IF x \in Reqs THEN "net" ELSE x
      BY <1>3, <1>7 DEF Tells
    <2>5. item.kind # "response" => item.url \in Urls
      BY <1>3, <1>4, <1>7, <2>2
    <2> QED
      BY <1>0, <2>1, <2>2, <2>3, <2>4, <2>5, PopObserved DEF e
  <1>8. ASSUME NEW k \in StreamKinds, e.kind = k, Broadcast(k, Event(r, r, NoUrl))
        PROVE  ObserveInv'
    <2> DEFINE item == Event(r, r, NoUrl)
    <2>1. item \in Events /\ item.req = r /\ item.kind = r
      BY <1>3, <1>8 DEF Event, Events
    <2> HIDE DEF item
    <2>2. \A x \in Topics : e \in Tells(x) <=> item \in Items(x)
      BY <1>1, <1>3, <1>5, <1>8, <2>1 DEF Tells, Items, StreamKinds
    <2>3. \A x \in Topics : e \in Tells(x) => k = IF x \in Reqs THEN "net" ELSE x
      BY <1>3, <1>5, <1>8 DEF Tells
    <2> QED
      BY <1>0, <1>8, <2>1, <2>2, <2>3, PopObserved DEF e, item, StreamKinds
  <1>9. CASE e.kind \in StreamKinds
    BY <1>2, <1>8, <1>9 DEF record_ws, record_es, StreamKinds
  <1> QED
    BY <1>2, <1>6, <1>7, <1>9 DEF StreamKinds

LEMMA ForwardBalance ==
    \A g, q, p, m, b \in Nat : \A u \in {0, 1} :
        /\ g + (q + u) + p <= m => (g + u) + q + p <= m /\ g + q + p <= m
        /\ g + (q + u) + p + b >= m => (g + u) + q + p + b >= m
  OBVIOUS

\* A forwarder sends the item it takes, or does not and, unless its filter excludes
\* the item, knows that it lost one.
LEMMA ForwardObserved ==
    ASSUME ObserveInv, RequestTypes, NEW o \in Observers, Forward(o)
    PROVE  ObserveInv'
  <1> DEFINE s == sub[o].q
             e == Head(s)
  <1>0. /\ ObserveTypes /\ EventsBegan /\ ItemsFit /\ sub[o] \in Subscriptions /\ s \in Seq(Events) /\ s # <<>>
        /\ sub \in [Observers -> Subscriptions] /\ evq \in Seq(Events)
        /\ got \in [Observers -> [Topics -> Nat]] /\ UNCHANGED <<req, evq, lagged, emitted>>
    BY DEF ObserveInv, ObserveTypes, Subscriptions, Forward, browserVars, RequestTypes
  <1>1. /\ e \in Events /\ Tail(s) \in Seq(Events) /\ 1 \in DOMAIN s /\ e = s[1]
        /\ \A i \in DOMAIN Tail(s) : i + 1 \in DOMAIN s /\ Tail(s)[i] = s[i + 1]
    BY <1>0, TailKeeps
  <1>2. e.req \in Topics
    BY <1>1 DEF Events, Topics
  <1> DEFINE sent == /\ sub' = [sub EXCEPT ![o].q = Tail(@)]
                     /\ got' = [got EXCEPT ![o][e.req] = IF e.kind = "response" THEN @ ELSE @ + 1]
             drop == /\ sub' = [sub EXCEPT ![o].q = Tail(@), ![o].lost = @ \/ observe_matches(o, e)]
                     /\ got' = got
  <1>3. sent \/ drop
    BY DEF Forward
  <1>4. /\ sub' \in [Observers -> Subscriptions] /\ sub'[o].q = Tail(s) /\ sub'[o].on = sub[o].on
        /\ sub'[o].channel = sub[o].channel /\ sub'[o].filter = sub[o].filter /\ sub'[o].base = sub[o].base
        /\ sent => sub'[o].lost = sub[o].lost
        /\ drop => (sub'[o].lost <=> sub[o].lost \/ observe_matches(o, e))
        /\ \A p \in Observers \ {o} : sub'[p] = sub[p]
    <2>1. CASE sent
      <3>1. sub' = [sub EXCEPT ![o] = [sub[o] EXCEPT !.q = Tail(s)]]
        BY <1>0, <2>1
      <3>2. /\ [sub[o] EXCEPT !.q = Tail(s)] \in Subscriptions
        BY <1>0, <1>1 DEF Subscriptions
      <3>3. drop => ~observe_matches(o, e) \/ sub[o].lost \/ sub'[o].lost
        BY <1>0 DEF Subscriptions
      <3> QED
        BY <1>0, <1>1, <3>1, <3>2, <3>3 DEF Subscriptions
    <2>2. CASE drop
      <3> DEFINE v == [sub[o] EXCEPT !.q = Tail(s), !.lost = @ \/ observe_matches(o, e)]
      <3>1. sub' = [sub EXCEPT ![o] = v]
        BY <1>0, <2>2
      <3>2. /\ v \in Subscriptions /\ v.q = Tail(s) /\ v.on = sub[o].on /\ v.channel = sub[o].channel
            /\ v.filter = sub[o].filter /\ v.base = sub[o].base /\ (v.lost <=> sub[o].lost \/ observe_matches(o, e))
        BY <1>0, <1>1 DEF Subscriptions
      <3> HIDE DEF v
      <3>3. sub' \in [Observers -> Subscriptions] /\ sub'[o] = v /\ \A p \in Observers \ {o} : sub'[p] = sub[p]
        BY <1>0, <3>1, <3>2
      <3>4. sent => sub'[o].lost = sub[o].lost
        BY <1>0 DEF Subscriptions
      <3> QED
        BY <3>2, <3>3, <3>4
    <2> QED
      BY <1>3, <2>1, <2>2
  <1>5. /\ got' \in [Observers -> [Topics -> Nat]]
        /\ \A p \in Observers \ {o} : got'[p] = got[p]
        /\ sent => \A x \in Topics : got'[o][x] = got[o][x] + Unit(e \in Items(x))
    <2>1. CASE sent
      <3> DEFINE g == [got[o] EXCEPT ![e.req] = IF e.kind = "response" THEN @ ELSE @ + 1]
      <3>1. got' = [got EXCEPT ![o] = g]
        BY <1>0, <2>1
      <3>2. g \in [Topics -> Nat] /\ \A x \in Topics : g[x] = got[o][x] + Unit(e \in Items(x))
        BY <1>0, <1>1, <1>2 DEF Items, Unit
      <3> HIDE DEF g
      <3> QED
        BY <1>0, <3>1, <3>2
    <2>2. CASE drop
      <3>1. ASSUME sent
            PROVE  \A x \in Topics : got'[o][x] = got[o][x] + Unit(e \in Items(x))
        BY <2>1, <3>1
      <3> QED
        BY <1>0, <2>2, <3>1
    <2> QED
      BY <1>3, <2>1, <2>2
  <1> HIDE DEF sent, drop
  <1>6. ObserveTypes' /\ EventsBegan'
    BY <1>0, <1>4, <1>5 DEF ObserveTypes, EventsBegan
  <1>7. ItemsFit'
    <2>1. Len(Tail(s)) <= ObserveCap
      <3>1. Len(Tail(s)) = Len(s) - 1 /\ Len(s) \in Nat /\ Len(s) <= ObserveCap /\ ObserveCap \in Nat
        BY <1>0, HeadTailProperties, LenProperties, NetworkAssumption DEF ItemsFit
      <3> QED
        BY <3>1
    <2>2. \A i \in DOMAIN Tail(s) : sub[o].channel = "net" /\ Tail(s)[i].kind # "response" => Tail(s)[i].url \in Urls
      BY <1>0, <1>1 DEF ItemsFit
    <2> QED
      BY <1>0, <1>4, <2>1, <2>2 DEF ItemsFit
  <1>8. ASSUME NEW x \in Topics
        PROVE  /\ Accounted(o, x)' <= emitted'[x]
               /\ Follows(o, x)' => Accounted(o, x)' + sub'[o].base[x] >= emitted'[x]
    <2> DEFINE u == Unit(e \in Items(x))
               q == CountIn(Tail(s), Items(x))
               p == CountIn(evq, Tells(x))
    <2>1. got[o][x] \in Nat /\ emitted[x] \in Nat /\ sub[o].base[x] \in Nat
      BY <1>0 DEF ObserveTypes, Subscriptions
    <2>2. q \in Nat /\ p \in Nat /\ u \in {0, 1}
      BY <1>0, <1>1, CountNat DEF Unit
    <2>3. CountIn(s, Items(x)) = q + u
      BY <1>0, CountTail
    <2>4. Tells(x)' = Tells(x) /\ Items(x)' = Items(x)
      BY <1>0 DEF Tells, Items
    <2>5. Accounted(o, x)' = got'[o][x] + q + p
      BY <1>0, <1>4, <2>4 DEF Accounted
    <2>6. got[o][x] + (q + u) + p <= emitted[x] /\ (Follows(o, x) => got[o][x] + (q + u) + p + sub[o].base[x] >= emitted[x])
      BY <2>3 DEF ObserveInv, Accounted
    <2>7. Follows(o, x)' => Follows(o, x) /\ sub'[o].base[x] = sub[o].base[x]
      BY <1>0, <1>3, <1>4 DEF Follows
    <2>8. drop /\ Follows(o, x)' => u = 0
      <3>1. SUFFICES ASSUME drop, Follows(o, x)', e \in Items(x)
                     PROVE  FALSE
        BY DEF Unit
      <3>2. ~observe_matches(o, e) /\ sub[o].channel = "net" /\ sub[o].filter = Urls
        BY <1>4, <3>1 DEF Follows, observe_matches
      <3>3. e.url \in Urls
        BY <1>0, <1>1, <3>1, <3>2 DEF ItemsFit, Items
      <3> QED
        BY <3>2, <3>3 DEF observe_matches
    <2>9. drop => got' = got
      BY DEF drop
    <2> HIDE DEF u, q, p
    <2>10. CASE sent
      <3>1. got'[o][x] = got[o][x] + u
        BY <1>5, <2>10 DEF u
      <3>2. /\ (got[o][x] + u) + q + p <= emitted[x]
            /\ Follows(o, x) => (got[o][x] + u) + q + p + sub[o].base[x] >= emitted[x]
        BY <2>1, <2>2, <2>6, ForwardBalance
      <3>3. Accounted(o, x)' = (got[o][x] + u) + q + p /\ emitted' = emitted
        BY <1>0, <2>5, <3>1
      <3>4. Accounted(o, x)' <= emitted'[x]
        BY <3>2, <3>3
      <3>5. ASSUME Follows(o, x)'
            PROVE  Accounted(o, x)' + sub'[o].base[x] >= emitted'[x]
        BY <2>7, <3>2, <3>3, <3>5
      <3> QED
        BY <3>4, <3>5
    <2>11. CASE drop
      <3>1. Accounted(o, x)' = got[o][x] + q + p /\ emitted' = emitted
        BY <1>0, <2>5, <2>9, <2>11
      <3>2. got[o][x] + q + p <= emitted[x]
        BY <2>1, <2>2, <2>6, ForwardBalance
      <3>3. ASSUME Follows(o, x)'
            PROVE  Accounted(o, x)' + sub'[o].base[x] >= emitted'[x]
        <4>1. u = 0 /\ sub'[o].base[x] = sub[o].base[x] /\ got[o][x] + (q + u) + p + sub[o].base[x] >= emitted[x]
          BY <2>6, <2>7, <2>8, <2>11, <3>3
        <4>2. q + u = q
          BY <2>2, <4>1
        <4> QED
          BY <3>1, <4>1, <4>2
      <3>4. Accounted(o, x)' <= emitted'[x]
        BY <3>1, <3>2
      <3> QED
        BY <3>3, <3>4
    <2> QED
      BY <1>3, <2>10, <2>11
  <1>9. ASSUME NEW p \in Observers \ {o}, NEW x \in Topics
        PROVE  /\ Accounted(p, x)' <= emitted'[x]
               /\ Follows(p, x)' => Accounted(p, x)' + sub'[p].base[x] >= emitted'[x]
    <2>1. sub'[p] = sub[p] /\ got'[p] = got[p]
      BY <1>4, <1>5
    <2>2. Tells(x)' = Tells(x) /\ Items(x)' = Items(x)
      BY <1>0 DEF Tells, Items
    <2>3. Accounted(p, x)' = Accounted(p, x) /\ (Follows(p, x)' <=> Follows(p, x))
      BY <1>0, <2>1, <2>2 DEF Accounted, Follows
    <2> QED
      BY <1>0, <2>1, <2>3 DEF ObserveInv
  <1> QED
    BY <1>6, <1>7, <1>8, <1>9 DEF ObserveInv

\* A new subscription is owed nothing of what came before it.
LEMMA SubscribeObserved ==
    ASSUME ObserveInv, RequestTypes, NEW o \in Observers, Observe(o)
    PROVE  ObserveInv'
  <1>0. /\ ObserveTypes /\ EventsBegan /\ ItemsFit /\ sub \in [Observers -> Subscriptions] /\ evq \in Seq(Events)
        /\ emitted \in [Topics -> Nat] /\ UNCHANGED <<req, evq, lagged, emitted, got>> /\ ObserveCap \in Nat
    BY NetworkAssumption DEF ObserveInv, ObserveTypes, Observe, browserVars, observedVars, RequestTypes
  <1>1. PICK f \in Filters, k \in {"net", "ws", "es"} :
           sub' = [sub EXCEPT ![o] = [Off EXCEPT !.on = TRUE, !.channel = k, !.filter = f, !.base = emitted]]
    BY DEF Observe
  <1> DEFINE v == [Off EXCEPT !.on = TRUE, !.channel = k, !.filter = f, !.base = emitted]
  <1>2. v \in Subscriptions /\ v.q = <<>> /\ v.base = emitted /\ v.channel = k
    <2>1. Off \in Subscriptions /\ Off.q = <<>>
      BY DEF Off, Subscriptions
    <2> QED
      BY <1>0, <2>1 DEF Subscriptions
  <1> HIDE DEF v
  <1>3. sub' \in [Observers -> Subscriptions] /\ sub'[o] = v /\ \A p \in Observers \ {o} : sub'[p] = sub[p]
    BY <1>0, <1>1, <1>2 DEF v
  <1>4. ObserveTypes' /\ EventsBegan'
    BY <1>0, <1>3 DEF ObserveTypes, EventsBegan
  <1>5. ItemsFit'
    <2>1. Len(v.q) <= ObserveCap /\ DOMAIN v.q = {}
      BY <1>0, <1>2
    <2> QED
      BY <1>0, <1>3, <2>1 DEF ItemsFit
  <1>6. ASSUME NEW p \in Observers, NEW x \in Topics
        PROVE  /\ Accounted(p, x)' <= emitted'[x]
               /\ Follows(p, x)' => Accounted(p, x)' + sub'[p].base[x] >= emitted'[x]
    <2>1. Tells(x)' = Tells(x) /\ Items(x)' = Items(x)
      BY <1>0 DEF Tells, Items
    <2>2. CASE p # o
      <3>1. Accounted(p, x)' = Accounted(p, x) /\ (Follows(p, x)' <=> Follows(p, x)) /\ sub'[p] = sub[p]
        BY <1>0, <1>3, <2>1, <2>2 DEF Accounted, Follows
      <3> QED
        BY <1>0, <3>1 DEF ObserveInv
    <2>3. CASE p = o
      <3> DEFINE g == got[o][x]
                 c == CountIn(evq, Tells(x))
                 q == CountIn(sub[o].q, Items(x))
                 m == emitted[x]
      <3>1. CountIn(<<>>, Items(x)) = 0
        BY CountNone
      <3>2. Accounted(o, x)' = g + 0 + c
        BY <1>0, <1>2, <1>3, <2>1, <3>1 DEF Accounted
      <3>3. g \in Nat /\ c \in Nat /\ q \in Nat /\ m \in Nat /\ sub[o].q \in Seq(Events)
        <4>1. sub[o].q \in Seq(Events) /\ g \in Nat /\ m \in Nat
          BY <1>0 DEF ObserveTypes, Subscriptions
        <4> QED
          BY <1>0, <4>1, CountNat
      <3>4. g + q + c <= m
        BY DEF ObserveInv, Accounted
      <3>5. sub'[o].base[x] = m /\ emitted'[x] = m
        BY <1>0, <1>2, <1>3
      <3> HIDE DEF g, c, q, m
      <3>6. g + 0 + c <= m /\ g + 0 + c + m >= m
        BY <3>3, <3>4
      <3> QED
        BY <2>3, <3>2, <3>5, <3>6
    <2> QED
      BY <2>2, <2>3
  <1> QED
    BY <1>4, <1>5, <1>6 DEF ObserveInv

LEMMA ObserveInitial ==
    ASSUME NetworkInit
    PROVE  ObserveInv
  <1>1. /\ evq = <<>> /\ sub = [o \in Observers |-> Off] /\ emitted = [x \in Topics |-> 0]
        /\ got = [o \in Observers |-> [x \in Topics |-> 0]] /\ ObserveCap \in Nat
    BY NetworkAssumption DEF NetworkInit
  <1>2. Off \in Subscriptions /\ Off.q = <<>> /\ ~Off.on
    BY DEF Off, Subscriptions
  <1>3. ObserveTypes
    BY <1>1, <1>2 DEF ObserveTypes
  <1>4. EventsBegan /\ ItemsFit
    BY <1>1, <1>2 DEF EventsBegan, ItemsFit
  <1>5. ASSUME NEW o \in Observers, NEW x \in Topics
        PROVE  Accounted(o, x) <= emitted[x] /\ ~Follows(o, x)
    <2>1. CountIn(<<>>, Items(x)) = 0
      BY CountNone
    <2>2. CountIn(<<>>, Tells(x)) = 0
      BY CountNone
    <2>3. Accounted(o, x) = 0 + 0 + 0
      BY <1>1, <1>2, <2>1, <2>2 DEF Accounted
    <2> QED
      BY <1>1, <1>2, <2>3 DEF Follows
  <1> QED
    BY <1>3, <1>4, <1>5 DEF ObserveInv

(* The inductive invariant of net.observe, net.websocket.observe and        *)
(* net.eventsource.observe: what a client was sent, what its forwarder      *)
(* holds and what the pump has yet to hear never exceeds what Chromium      *)
(* announced, and covers all of it since the client subscribed unless a     *)
(* channel on the way lost something.                                       *)
THEOREM ObserveInvariance == NetworkSpec => []ObserveInv
  <1>1. ASSUME NetworkInv, ObserveInv, [NetworkNext]_networkVars
        PROVE  ObserveInv'
    <2>0. RequestTypes
      BY <1>1 DEF NetworkInv, NetworkTypes
    <2>1. CASE \E r \in Reqs : Start(r) \/ Redirect(r) \/ Respond(r) \/ Finish(r) \/ Fail(r)
      BY <1>1, <2>0, <2>1, RequestObserved
    <2>2. CASE \E k \in StreamKinds : Frame(k)
      BY <1>1, <2>0, <2>2, FrameObserved
    <2>3. CASE ExecResolve
      BY <1>1, <2>3, ExecResolveObserved
    <2>4. CASE Pump
      BY <1>1, <2>4, PumpObserved
    <2>5. CASE \E o \in Observers : Observe(o) \/ Forward(o)
      BY <1>1, <2>0, <2>5, SubscribeObserved, ForwardObserved
    <2>6. CASE UNCHANGED <<req, evq, lagged, sub, got, emitted>>
      BY <1>1, <2>6 DEF ObserveInv, ObserveTypes, EventsBegan, ItemsFit, Accounted, Follows, Tells, Items
    <2>7. CASE \/ ExecEnable \/ DrainExtras \/ UNCHANGED networkVars
               \/ \E c \in Registrars : Intercept(c) \/ ReadPatterns(c) \/ SendEnable(c)
      BY <2>6, <2>7 DEF ExecEnable, DrainExtras, Intercept, ReadPatterns, SendEnable, networkVars, browserVars, observedVars
    <2> QED
      BY <1>1, <2>1, <2>2, <2>3, <2>4, <2>5, <2>7 DEF NetworkNext, Chromium
  <1> QED
    BY <1>1, ObserveInitial, NetworkInvariance, PTL DEF NetworkSpec

(* An observer is told of a request once per leg and of a frame once, even  *)
(* where Network and Fetch both report the request (CR-4 in page.rs), and   *)
(* of every one since it subscribed unless a queue on the way overflowed,   *)
(* for any number of observers and any capacity of the channels.            *)
THEOREM ObservedOnceSafety == NetworkSpec => []ObservedOnce
  <1>1. ASSUME NetworkInv, ObserveInv
        PROVE  ObservedOnce
    <2>1. SUFFICES ASSUME NEW o \in Observers, NEW x \in Topics
                   PROVE  /\ got[o][x] <= emitted[x]
                          /\ Follows(o, x) /\ sub[o].q = <<>> /\ evq = <<>> => got[o][x] + sub[o].base[x] >= emitted[x]
      BY DEF ObservedOnce, Follows
    <2> DEFINE g == got[o][x]
               q == CountIn(sub[o].q, Items(x))
               p == CountIn(evq, Tells(x))
               m == emitted[x]
               b == sub[o].base[x]
    <2>2. /\ g \in Nat /\ m \in Nat /\ b \in Nat /\ sub[o].q \in Seq(Events) /\ evq \in Seq(Events)
      BY <1>1 DEF ObserveInv, ObserveTypes, Subscriptions, NetworkInv, NetworkTypes, RequestTypes
    <2>3. q \in Nat /\ p \in Nat
      BY <2>2, CountNat
    <2>4. g + q + p <= m /\ (Follows(o, x) => g + q + p + b >= m)
      BY <1>1 DEF ObserveInv, Accounted
    <2>5. sub[o].q = <<>> => q = 0
      BY CountNone
    <2>6. evq = <<>> => p = 0
      BY CountNone
    <2> HIDE DEF g, q, p, m, b
    <2>7. g <= m
      BY <2>2, <2>3, <2>4
    <2>8. ASSUME Follows(o, x), sub[o].q = <<>>, evq = <<>>
          PROVE  g + b >= m
      <3>1. q = 0 /\ p = 0 /\ g + q + p + b >= m
        BY <2>4, <2>5, <2>6, <2>8
      <3> QED
        BY <2>2, <3>1
    <2> QED
      BY <2>7, <2>8 DEF g, m, b
  <1> QED
    BY <1>1, NetworkInvariance, ObserveInvariance, PTL
=============================================================================
