---------------------------- MODULE PageNetwork ----------------------------
(***************************************************************************)
(* The network side of one tab (crates/browser-engine/src/network.rs, the    *)
(* event pump of page.rs and the net.* handlers of broker/src/router/net.rs): *)
(* interception, the HAR ring, the set of requests in flight, the counters   *)
(* page.snapshot drains, and the forwarders of net.observe,                  *)
(* net.websocket.observe and net.eventsource.observe.                      *)
(*                                                                         *)
(* Events reach the pump through a bounded broadcast channel that drops its  *)
(* oldest entries; the pump handles one event at a time and waits for        *)
(* Chromium's answer when it resolves a paused request.  A URL is an element *)
(* of Urls; headers, bodies, times and frame contents are left out.        *)
(***************************************************************************)
EXTENDS Naturals, Sequences, FiniteSets

CONSTANTS
    Reqs,         \* requests of the page
    Urls,         \* their URLs
    Globs,        \* URL patterns: what Chromium matches and what the regex matches
    Filters,      \* net.observe filters: sets of URLs
    Observers,    \* subscriptions
    Registrars,   \* connections that register handlers
    EventCap,     \* EVENTS_CAPACITY of cdp-client
    ObserveCap,   \* capacity of observe_tx, ws_tx and es_tx
    HarCap,       \* HAR_RING_CAP
    MaxHandlers,  \* bound: handlers registered
    MaxSent       \* bound: requests, redirects, WebSocket frames and server-sent events

ASSUME NetworkAssumption ==
    /\ \A g \in Globs : g.exact \subseteq g.wide /\ g.wide \subseteq Urls
    /\ EventCap \in Nat \ {0} /\ ObserveCap \in Nat \ {0} /\ HarCap \in Nat \ {0}
    /\ MaxHandlers \in Nat /\ MaxSent \in Nat
    /\ \A k \in {"none", "ws", "es"} : k \notin Reqs

VARIABLES
    req,        \* per request, what Chromium knows of it
    patterns,   \* the globs of the last Fetch.enable Chromium carried out
    cmds,       \* commands on their way to Chromium
    evq,        \* events the pump has not received
    pump,       \* the request whose resolution the pump waits for, or NoReq
    handlers,   \* PageNetworkState.handlers
    register,   \* per connection: where its net.intercept is
    inFlight,   \* Page.in_flight
    open,       \* HarRing.open: per request, "none", "sent" or "answered"
    closed,     \* HarRing.closed
    counters,   \* completed_counter and failed_counter
    sub,        \* per subscription: its forwarder and its receiver
    emitted,    \* history: requests and frames announced by Chromium
    missed,     \* history: requests whose pause the pump's receiver lost
    lagged,     \* history: the pump's receiver has lost some event
    rejected,   \* history: paused requests whose resolution Chromium refused
    ended,      \* history: requests with Network events, in the order they ended
    reported,   \* history: counts page.snapshot has handed out
    got         \* history: per subscription, what the client was sent

browserVars == <<req, patterns, emitted, ended>>
bookVars == <<inFlight, open, closed, counters>>
registerVars == <<handlers, register>>
observedVars == <<reported, got>>
networkVars == <<browserVars, cmds, evq, pump, bookVars, registerVars, sub, missed, lagged, rejected,
          observedVars>>

NoReq == "none"
NoUrl == "none"
StreamKinds == {"ws", "es"}
Topics == Reqs \union StreamKinds
Running(r) == req[r].st \in {"paused", "sent", "answered"}

LastN(s, n) == IF Len(s) <= n THEN s ELSE SubSeq(s, Len(s) - n + 1, Len(s))
Elems(s) == {s[i] : i \in DOMAIN s}
Event(k, r, u) == [kind |-> k, req |-> r, url |-> u]

NotRegistering == [pc |-> "idle", pats |-> {}]
Off == [on |-> FALSE, channel |-> "net", filter |-> {}, q |-> <<>>, lost |-> FALSE,
        base |-> [x \in Topics |-> 0]]

NetworkInit ==
    /\ req = [r \in Reqs |-> [st |-> "none", url |-> CHOOSE u \in Urls : TRUE, paired |-> TRUE]]
    /\ patterns = {} /\ cmds = <<>> /\ evq = <<>> /\ pump = NoReq
    /\ handlers = {} /\ register = [c \in Registrars |-> NotRegistering]
    /\ inFlight = {} /\ open = [r \in Reqs |-> "none"] /\ closed = <<>>
    /\ counters = [completed |-> 0, failed |-> 0]
    /\ sub = [o \in Observers |-> Off]
    /\ emitted = [x \in Topics |-> 0] /\ missed = {} /\ lagged = FALSE
    /\ rejected = {} /\ ended = <<>>
    /\ reported = [completed |-> 0, failed |-> 0]
    /\ got = [o \in Observers |-> [x \in Topics |-> 0]]

-----------------------------------------------------------------------------
(* Chromium.  A request has Network events and a networkId ("paired"), or    *)
(* only Fetch sees it.                                                     *)

Emit(es) ==
    /\ evq' = LastN(evq \o es, EventCap)
    /\ LET lost == {(evq \o es)[i] : i \in 1..(Len(evq \o es) - Len(evq'))}
       IN /\ missed' = missed \union {e.req : e \in {x \in lost : x.kind = "paused"}}
          /\ lagged' = (lagged \/ lost # {})

Pauses(u) == \E g \in patterns : u \in g.wide
Announce(x) ==
    /\ Cardinality({yn \in Topics \X (1..MaxSent) : yn[2] <= emitted[yn[1]]}) < MaxSent
    /\ emitted' = [emitted EXCEPT ![x] = @ + 1]

Leaves(r, u, paired) ==
    /\ req' = [req EXCEPT ![r] = [st |-> IF Pauses(u) THEN "paused" ELSE "sent", url |-> u,
                                  paired |-> paired]]
    /\ Emit((IF paired THEN <<Event("request", r, u)>> ELSE <<>>)
            \o (IF Pauses(u) THEN <<Event("paused", r, u)>> ELSE <<>>))
    /\ Announce(r)

Start(r) ==
    /\ req[r].st = "none"
    /\ \E u \in Urls, paired \in BOOLEAN : (paired \/ Pauses(u)) /\ Leaves(r, u, paired)
    /\ UNCHANGED <<patterns, cmds, pump, bookVars, registerVars, sub, rejected, ended, observedVars>>

(* The next leg of a redirect has the id of the first. *)
Redirect(r) ==
    /\ req[r].st = "sent" /\ req[r].paired
    /\ \E u \in Urls : Leaves(r, u, TRUE)
    /\ UNCHANGED <<patterns, cmds, pump, bookVars, registerVars, sub, rejected, ended, observedVars>>

Told(k, r) == Event(k, r, req[r].url)
Becomes(r, st) == req' = [req EXCEPT ![r].st = st]

Respond(r) ==
    /\ req[r].st = "sent" /\ req[r].paired
    /\ Becomes(r, "answered") /\ Emit(<<Told("response", r)>>)
    /\ UNCHANGED <<patterns, emitted, ended, cmds, pump, bookVars, registerVars, sub, rejected,
                   observedVars>>

(* A request ends: finished once it was answered, failed (or cancelled by    *)
(* the page, even while paused) at any time.                               *)
Ends(r, st, events) ==
    /\ Becomes(r, st)
    /\ IF req[r].paired
       THEN /\ Emit(events)
            /\ ended' = Append(ended, [req |-> r, answered |-> req[r].st = "answered"
                                                     \/ Told("response", r) \in Elems(events)])
       ELSE UNCHANGED <<evq, missed, lagged, ended>>

Finish(r) ==
    /\ req[r].st = "answered" /\ Ends(r, "finished", <<Told("finished", r)>>)
    /\ UNCHANGED <<patterns, emitted, cmds, pump, bookVars, registerVars, sub, rejected,
                   observedVars>>

Fail(r) ==
    /\ Running(r) /\ Ends(r, "failed", <<Told("failed", r)>>)
    /\ UNCHANGED <<patterns, emitted, cmds, pump, bookVars, registerVars, sub, rejected,
                   observedVars>>

Frame(k) ==
    /\ Emit(<<Event(k, k, NoUrl)>>) /\ Announce(k)
    /\ UNCHANGED <<req, patterns, ended, cmds, pump, bookVars, registerVars, sub, rejected,
                   observedVars>>

(* Fetch.enable is carried out or refused; the connection that sent it goes  *)
(* on either way.                                                          *)
ExecEnable ==
    /\ cmds # <<>> /\ Head(cmds).kind = "enable"
    /\ patterns' \in {patterns, Head(cmds).pats}
    /\ register' = [register EXCEPT ![Head(cmds).by] = NotRegistering]
    /\ cmds' = Tail(cmds)
    /\ UNCHANGED <<req, emitted, ended, evq, pump, bookVars, handlers, sub, missed, lagged, rejected,
                   observedVars>>

(* continueRequest, fulfillRequest or failRequest: refused when the request  *)
(* is gone or its parameters are bad.  The answer lets the pump go on.     *)
ExecResolve ==
    /\ cmds # <<>> /\ Head(cmds).kind = "resolve"
    /\ cmds' = Tail(cmds) /\ pump' = NoReq
    /\ LET r == Head(cmds).req
           act == Head(cmds).act
       IN \/ /\ req[r].st = "paused" /\ act = "continue"
             /\ Becomes(r, "sent")
             /\ UNCHANGED <<evq, missed, lagged, ended, rejected>>
          \/ /\ req[r].st = "paused" /\ act = "fulfill"
             /\ Ends(r, "finished", <<Told("response", r), Told("finished", r)>>)
             /\ UNCHANGED rejected
          \/ /\ req[r].st = "paused" /\ act = "fail"
             /\ Ends(r, "failed", <<Told("failed", r)>>)
             /\ UNCHANGED rejected
          \/ /\ rejected' = rejected \union {r}
             /\ UNCHANGED <<req, evq, missed, lagged, ended>>
    /\ UNCHANGED <<patterns, emitted, bookVars, registerVars, sub, observedVars>>

-----------------------------------------------------------------------------
(* Registration of handlers: net.intercept and its variants.               *)

Handler(glob, act) == [glob |-> glob, act |-> act]
net_intercept(glob) == {Handler(glob, act) : act \in {"continue", "fulfill", "fail"}}
net_intercept_fulfill_with_body(glob) == {Handler(glob, "fulfill")}
(* A request that is modified is continued, with the overrides. *)
net_intercept_modify_request(glob) == {Handler(glob, "continue")}
net_intercept_fail(glob) == {Handler(glob, "fail")}

(* insert_handler.  Ids are fresh, so a handler is one more element. *)
Intercept(c) ==
    /\ register[c].pc = "idle" /\ Cardinality(handlers) < MaxHandlers
    /\ \E glob \in Globs :
          \E h \in net_intercept(glob) \union net_intercept_fulfill_with_body(glob)
                   \union net_intercept_modify_request(glob) \union net_intercept_fail(glob) :
             handlers' = handlers \union {[id |-> Cardinality(handlers) + 1, spec |-> h]}
    /\ register' = [register EXCEPT ![c].pc = "inserted"]
    /\ UNCHANGED <<browserVars, cmds, evq, pump, bookVars, sub, missed, lagged, rejected,
                   observedVars>>

(* refresh_fetch_patterns reads the patterns, *)
pattern_set == {h.spec.glob : h \in handlers}

ReadPatterns(c) ==
    /\ register[c].pc = "inserted"
    /\ register' = [register EXCEPT ![c] = [pc |-> "read", pats |-> pattern_set]]
    /\ UNCHANGED <<browserVars, cmds, evq, pump, bookVars, handlers, sub, missed, lagged, rejected,
                   observedVars>>

(* ... and sends them: another connection may have sent newer ones first. *)
SendEnable(c) ==
    /\ register[c].pc = "read"
    /\ cmds' = Append(cmds, [kind |-> "enable", by |-> c, pats |-> register[c].pats])
    /\ register' = [register EXCEPT ![c].pc = "sent"]
    /\ UNCHANGED <<browserVars, evq, pump, bookVars, handlers, sub, missed, lagged, rejected,
                   observedVars>>

-----------------------------------------------------------------------------
(* The event pump.                                                         *)

(* A broadcast: every receiver on the channel that lags loses its oldest. *)
Broadcast(channel, item) ==
    sub' = [o \in Observers |->
               IF ~sub[o].on \/ sub[o].channel # channel THEN sub[o]
               ELSE [sub[o] EXCEPT !.q = LastN(Append(@, item), ObserveCap),
                                   !.lost = @ \/ Len(sub[o].q) = ObserveCap]]

push_entry(entry) == closed' = LastN(Append(closed, entry), HarCap)

(* What the two ways of ending have in common: HarRing keeps a record only   *)
(* if it saw the request begin.                                            *)
Close(r) ==
    /\ open' = [open EXCEPT ![r] = "none"]
    /\ \/ open[r] = "none" /\ UNCHANGED closed
       \/ open[r] # "none" /\ push_entry([req |-> r, answered |-> open[r] = "answered"])

record_request(r, u) ==
    /\ inFlight' = inFlight \union {r}
    /\ open' = [open EXCEPT ![r] = "sent"]
    /\ Broadcast("net", Event("request", r, u))
    /\ UNCHANGED <<closed, counters, cmds, pump>>

record_response(r, u) ==
    /\ open' = [open EXCEPT ![r] = IF @ = "none" THEN @ ELSE "answered"]
    /\ Broadcast("net", Event("response", r, u))
    /\ UNCHANGED <<inFlight, closed, counters, cmds, pump>>

record_finished(r) ==
    /\ inFlight' = inFlight \ {r}
    /\ counters' = [counters EXCEPT !.completed = @ + 1]
    /\ Close(r)
    /\ UNCHANGED <<sub, cmds, pump>>

(* Mutant: a failed request stays in flight. *)
Mutrecord_failed(r) ==
    /\ counters' = [counters EXCEPT !.failed = @ + 1]
    /\ Close(r)
    /\ UNCHANGED <<inFlight, sub, cmds, pump>>

record_failed(r) ==
    /\ inFlight' = inFlight \ {r}
    /\ counters' = [counters EXCEPT !.failed = @ + 1]
    /\ Close(r)
    /\ UNCHANGED <<sub, cmds, pump>>

(* match_url: the map has no order, any handler whose regex matches may be   *)
(* the first.                                                              *)
match_url(u) == {h \in handlers : u \in h.spec.glob.exact}

dispatch_fetch_event(u) ==
    IF match_url(u) = {} THEN {"continue"} ELSE {h.spec.act : h \in match_url(u)}

(* Mutant: every paused request is announced. *)
Mutrecord_synthetic_request(r, u) == Broadcast("net", Event("request", r, u))

record_synthetic_request(r, u) ==
    IF req[r].paired THEN UNCHANGED sub ELSE Broadcast("net", Event("request", r, u))

(* Mutant: only what a handler matches is resolved. *)
Mutrun_fetch_dispatch(r, u) ==
    IF match_url(u) = {} THEN UNCHANGED <<cmds, pump>>
    ELSE \E act \in dispatch_fetch_event(u) :
            cmds' = Append(cmds, [kind |-> "resolve", req |-> r, act |-> act]) /\ pump' = r

run_fetch_dispatch(r, u) ==
    /\ pump' = r
    /\ \E act \in dispatch_fetch_event(u) :
          cmds' = Append(cmds, [kind |-> "resolve", req |-> r, act |-> act])

request_paused(r, u) ==
    /\ record_synthetic_request(r, u) /\ run_fetch_dispatch(r, u)
    /\ UNCHANGED bookVars

record_ws(k) == Broadcast("ws", Event(k, k, NoUrl)) /\ UNCHANGED <<bookVars, cmds, pump>>
record_es(k) == Broadcast("es", Event(k, k, NoUrl)) /\ UNCHANGED <<bookVars, cmds, pump>>

(* event_pump: one event, unless it still waits for an answer. *)
Pump ==
    /\ pump = NoReq /\ evq # <<>> /\ evq' = Tail(evq)
    /\ LET e == Head(evq) IN
       \/ e.kind = "request" /\ record_request(e.req, e.url)
       \/ e.kind = "response" /\ record_response(e.req, e.url)
       \/ e.kind = "finished" /\ record_finished(e.req)
       \/ e.kind = "failed" /\ record_failed(e.req)
       \/ e.kind = "paused" /\ request_paused(e.req, e.url)
       \/ e.kind = "ws" /\ record_ws(e.req)
       \/ e.kind = "es" /\ record_es(e.req)
    /\ UNCHANGED <<browserVars, registerVars, missed, lagged, rejected, observedVars>>

(* drain_snapshot_extras *)
DrainExtras ==
    /\ counters.completed + counters.failed > 0
    /\ reported' = [k \in DOMAIN counters |-> reported[k] + counters[k]]
    /\ counters' = [k \in DOMAIN counters |-> 0]
    /\ UNCHANGED <<browserVars, cmds, evq, pump, inFlight, open, closed, registerVars, sub, missed, lagged,
                   rejected, got>>

-----------------------------------------------------------------------------
(* Subscriptions.                                                          *)

Observe(o) ==
    /\ ~sub[o].on
    /\ \E f \in Filters, k \in {"net", "ws", "es"} :
          sub' = [sub EXCEPT ![o] = [Off EXCEPT !.on = TRUE, !.channel = k, !.filter = f,
                                                !.base = emitted]]
    /\ UNCHANGED <<browserVars, cmds, evq, pump, bookVars, registerVars, missed, lagged, rejected,
                   observedVars>>

observe_matches(o, e) == (sub[o].channel = "net" => e.url \in sub[o].filter)

(* A forwarder takes an item; one that matches is pushed to the client, or   *)
(* dropped when its queue is full.                                         *)
Forward(o) ==
    /\ sub[o].q # <<>>
    /\ LET e == Head(sub[o].q) IN
       \/ /\ observe_matches(o, e)
          /\ sub' = [sub EXCEPT ![o].q = Tail(@)]
          /\ got' = [got EXCEPT ![o][e.req] = IF e.kind = "response" THEN @ ELSE @ + 1]
       \/ /\ sub' = [sub EXCEPT ![o].q = Tail(@),
                                ![o].lost = @ \/ observe_matches(o, e)]
          /\ UNCHANGED got
    /\ UNCHANGED <<browserVars, cmds, evq, pump, bookVars, registerVars, missed, lagged,
                   rejected, reported>>

-----------------------------------------------------------------------------
Chromium ==
    \/ \E r \in Reqs : Start(r) \/ Redirect(r) \/ Respond(r) \/ Finish(r) \/ Fail(r)
    \/ \E k \in StreamKinds : Frame(k)
    \/ ExecEnable \/ ExecResolve

NetworkNext ==
    \/ Chromium \/ Pump \/ DrainExtras
    \/ \E c \in Registrars : Intercept(c) \/ ReadPatterns(c) \/ SendEnable(c)
    \/ \E o \in Observers : Observe(o) \/ Forward(o)

NetworkSpec == NetworkInit /\ [][NetworkNext]_networkVars

-----------------------------------------------------------------------------
(* A paused request is never forgotten: its event is on its way to the pump, *)
(* or the pump has sent its resolution, or the event was lost to a lagging   *)
(* receiver, or Chromium refused the resolution.  In particular a request    *)
(* that no handler's regex matches, though Chromium's own pattern did, is    *)
(* let through (dispatch_fetch_event, "the page is never broken").         *)
NoPausedForgotten ==
    \A r \in Reqs : req[r].st = "paused" =>
        \/ Told("paused", r) \in Elems(evq) \/ r \in missed
        \/ pump = r /\ \E c \in Elems(cmds) : c.kind = "resolve" /\ c.req = r
        \/ r \in rejected

(* Once the pump has caught up and its receiver has lost nothing, the        *)
(* tab's books agree with Chromium: in_flight (what wait_for_network_idle    *)
(* polls) and the open HAR records are the requests still running, the HAR   *)
(* ring is the newest of those that ended, in that order, and the counters   *)
(* with what snapshots drained from them count every end once, through       *)
(* redirects, interception, cancellation and answers that cross.           *)
BooksAgree ==
    evq = <<>> /\ ~lagged =>
        LET running == {r \in Reqs : Running(r) /\ req[r].paired}
            Count(st) == Cardinality({r \in Reqs : req[r].st = st /\ req[r].paired})
        IN /\ inFlight = running
           /\ {r \in Reqs : open[r] # "none"} = running
           /\ closed = LastN(ended, HarCap)
           /\ counters.completed + reported.completed = Count("finished")
           /\ counters.failed + reported.failed = Count("failed")

(* An observer is told of a request once per leg and of a frame once, even   *)
(* though Network and Fetch may both report the same request (CR-4 in        *)
(* page.rs), and of every one since it subscribed unless a queue on the way  *)
(* overflowed.                                                             *)
ObservedOnce ==
    \A o \in Observers : \A x \in Topics :
        /\ got[o][x] <= emitted[x]
        /\ (/\ sub[o].on /\ ~sub[o].lost /\ sub[o].q = <<>> /\ evq = <<>> /\ ~lagged
            /\ IF sub[o].channel = "net" THEN x \in Reqs /\ sub[o].filter = Urls ELSE x = sub[o].channel)
           => got[o][x] + sub[o].base[x] >= emitted[x]

=============================================================================
