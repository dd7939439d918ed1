------------------------------- MODULE ToolPath -------------------------------
(***************************************************************************)
(* One tool call from the agent to the reply: the MCP bridge deserializes  *)
(* the arguments into the tool's struct and forwards them untouched, the   *)
(* broker routes the method to its handler, and the handler works through  *)
(* its program.  The path is the same for every tool, so a single call at  *)
(* a time shows every one of them.                                         *)
(***************************************************************************)
EXTENDS ToolHandlers, Integers, FiniteSets

CONSTANTS Methods,    \* the methods of this instance
          Classes     \* the classes of JSON values an argument is given

ASSUME MethodsAssumption == Methods \subseteq STRING
ASSUME ClassesAssumption == Classes \subseteq Json /\ "null" \in Classes

VARIABLES call,     \* the call under way: method and its steps, arguments, capabilities of its session
          stage,    \* "idle", "draft", "bridge", "router", "handler", "done"
          ip,       \* the step of the handler's program
          used,     \* params the handler has taken a value from
          cut,      \* of these, the ones an `as` cast cut
          acted,    \* surfaces acted upon
          reply,    \* "none", "ok" or an error code
          counted   \* the broker counter the call went to
pathVars == <<call, stage, ip, used, cut, acted, reply, counted>>

Capabilities ==
    {"eval", "storage_state", "vision", "continuous", "face_detect", "native", "trusted", "unblocked",
     "unlisted", "focus_steal", "system", "microphone", "screen", "camera", "bluetooth", "raw_usb"}
Codes == {"InvalidParams", "BadValue", "MethodNotFound", "SessionNotFound", "TabNotFound", "ElementStale",
          "ElementNotActionable", "NavigationFailed", "Timeout", "PermissionDenied", "ContextNotFound",
          "ProtocolError", "InternalError"}

-----------------------------------------------------------------------------
IsTool(m) == m \in DOMAIN validated
Known(m) == m \in DOMAIN Handlers
NoCall == [via |-> "none"]
Value(f) == IF f \in DOMAIN call.args THEN call.args[f] ELSE "absent"

\* A call is drafted: the method with the steps of its handler, from a session with
\* every capability.
Call(m) ==
    /\ stage = "idle" /\ stage' = "draft"
    /\ call' = [via |-> IF IsTool(m) THEN "mcp" ELSE "raw", method |-> m,
                steps |-> IF Known(m) THEN Handlers[m] ELSE <<>>,
                args |-> <<>>, caps |-> Capabilities, bound |-> TRUE, id |-> TRUE]
    /\ UNCHANGED <<ip, used, cut, acted, reply, counted>>

\* The arguments a caller may send: what the schema (of a tool) or the handler
\* (of a method that is no tool) asks for, with all or none of the optional
\* fields, and each of these with one field dropped or of another class.
ViaMcp == call.via = "mcp"
Schema == validated[call.method]
Reads == {i \in DOMAIN call.steps : call.steps[i].arg # ""}
ReadFields == {call.steps[i].arg : i \in Reads}
Wanted ==
    IF ViaMcp THEN DOMAIN Schema.req
    ELSE {call.steps[i].arg : i \in {j \in Reads : "absent" \in call.steps[j].bad}}
Offered == IF ViaMcp THEN DOMAIN Schema.req \cup DOMAIN Schema.opt ELSE ReadFields
TypeOf(f) ==
    IF ViaMcp /\ f \in DOMAIN Schema.req THEN Schema.req[f]
    ELSE IF ViaMcp /\ f \in DOMAIN Schema.opt THEN Schema.opt[f]
    ELSE UNION {call.steps[i].ok : i \in {j \in Reads : call.steps[j].arg = f}}
Sample(k) ==
    IF "object" \in k THEN "object" ELSE IF "text" \in k THEN "text"
    ELSE IF "small" \in k THEN "small" ELSE CHOOSE v \in k \cup {"null"} : k # {} => v \in k
Plain(fs) == [f \in fs |-> Sample(TypeOf(f))]
Tried(f) == Classes \cup (IF TypeOf(f) = Str THEN {} ELSE TypeOf(f) \cap Words)
With(args, f, v) == [g \in DOMAIN args \cup {f} |-> IF g = f THEN v ELSE args[g]]
Without(args, f) == [g \in DOMAIN args \ {f} |-> args[g]]

Send(c) ==
    /\ stage' = IF ViaMcp THEN "bridge" ELSE "router"
    /\ call' = c
    /\ UNCHANGED <<ip, used, cut, acted, reply, counted>>
SendPlain ==
    /\ stage = "draft"
    /\ \E fs \in {Wanted, Offered} : Send([call EXCEPT !.args = Plain(fs)])
SendAltered ==
    /\ stage = "draft"
    /\ \E fs \in {Wanted, Offered}, f \in Offered \cup ReadFields :
           \/ \E v \in Tried(f) : Send([call EXCEPT !.args = With(Plain(fs), f, v)])
           \/ f \in Wanted /\ Send([call EXCEPT !.args = Without(Plain(fs), f)])
\* An app on the blocklist (not "unlisted") means there is a blocklist.
Lost(c) == IF c = "unlisted" THEN {"unlisted", "unblocked"} ELSE {c}
\* A well-formed call comes from a session that lacks a capability, from a
\* connection without session, or as a notification.
SendPoorly ==
    /\ stage = "draft"
    /\ \E c \in {[call EXCEPT !.caps = @ \ Lost(cap)] : cap \in Capabilities}
                \cup {[call EXCEPT !.bound = FALSE]}
                \cup (IF ViaMcp THEN {} ELSE {[call EXCEPT !.id = FALSE]}) :
           Send([c EXCEPT !.args = Plain(Offered)])

-----------------------------------------------------------------------------
Answer(code) == reply' = code /\ stage' = "done"

\* validate_args: serde takes null for any Option, and for nothing else.
find(m) == m \in DOMAIN build_list
check(m, args) ==
    /\ \A f \in DOMAIN validated[m].req : f \in DOMAIN args /\ args[f] \in validated[m].req[f]
    /\ \A f \in DOMAIN args \cap DOMAIN validated[m].opt :
           args[f] = "null" \/ args[f] \in validated[m].opt[f]
validate_args(m, args) == m \in DOMAIN validated /\ check(m, args)
BridgeAccepts ==
    /\ stage = "bridge" /\ find(call.method) /\ validate_args(call.method, call.args)
    /\ stage' = "router"
    /\ UNCHANGED <<call, ip, used, cut, acted, reply, counted>>
BridgeRefuses ==
    /\ stage = "bridge" /\ ~(find(call.method) /\ validate_args(call.method, call.args))
    /\ Answer("InvalidParams")
    /\ UNCHANGED <<call, ip, used, cut, acted, counted>>

\* The router's early returns, in the code's order; none of them is counted.
Unbound == {"session.register", "session.unregister", "_internal.ping", "_internal.status", "_internal.metrics"}
RouteNotification ==
    /\ stage = "router" /\ ~call.id
    /\ stage' = "done"
    /\ UNCHANGED <<call, ip, used, cut, acted, reply, counted>>
RouteUnbound ==
    /\ stage = "router" /\ call.id /\ call.method \in Unbound
    /\ Answer("ok")
    /\ UNCHANGED <<call, ip, used, cut, acted, counted>>
RouteNoSession ==
    /\ stage = "router" /\ call.id /\ call.method \notin Unbound /\ ~call.bound
    /\ Answer("SessionNotFound")
    /\ UNCHANGED <<call, ip, used, cut, acted, counted>>
RouteToHandler ==
    /\ stage = "router" /\ call.id /\ call.method \notin Unbound /\ call.bound
    /\ Known(call.method)
    /\ stage' = "handler"
    /\ UNCHANGED <<call, ip, used, cut, acted, reply, counted>>
RouteUnknown ==
    /\ stage = "router" /\ call.id /\ call.method \notin Unbound /\ call.bound
    /\ ~Known(call.method)
    /\ Answer("MethodNotFound") /\ counted' = "error"
    /\ UNCHANGED <<call, ip, used, cut, acted>>

InHandler == stage = "handler" /\ ip <= Len(call.steps)
Step == call.steps[ip]
Runs == Step.when = "" \/ Value(Step.when) \in Step.is
Next1 == ip' = ip + 1 /\ UNCHANGED <<call, stage, reply, counted>>
\* Mutant: the error is counted, but the handler goes on.
MutRefuse == counted' = "error" /\ ip' = ip + 1 /\ UNCHANGED <<call, stage, reply>>
Refuse == /\ \E code \in Step.codes : Answer(code)
          /\ counted' = "error"
          /\ UNCHANGED <<call, ip>>
SkipStep == InHandler /\ ~Runs /\ Next1 /\ UNCHANGED <<used, cut, acted>>
ReadParam ==
    /\ InHandler /\ Runs /\ Step.arg # "" /\ Value(Step.arg) \notin Step.bad
    /\ used' = IF Value(Step.arg) \in Step.ok THEN used \cup {Step.arg} ELSE used
    /\ cut' = IF Value(Step.arg) \in Step.cut THEN cut \cup {Step.arg} ELSE cut
    /\ Next1 /\ UNCHANGED acted
RefuseParam ==
    /\ InHandler /\ Runs /\ Step.arg # "" /\ Value(Step.arg) \in Step.bad
    /\ Refuse /\ UNCHANGED <<used, cut, acted>>
PassGate == InHandler /\ Runs /\ Step.gate \in call.caps /\ Next1 /\ UNCHANGED <<used, cut, acted>>
RefuseGate ==
    /\ InHandler /\ Runs /\ Step.gate # "" /\ Step.gate \notin call.caps
    /\ Refuse /\ UNCHANGED <<used, cut, acted>>
IsTry == Step.arg = "" /\ Step.gate = "" /\ Step.acts = ""
LookupFinds == InHandler /\ Runs /\ IsTry /\ Next1 /\ UNCHANGED <<used, cut, acted>>
LookupFails == InHandler /\ Runs /\ IsTry /\ Refuse /\ UNCHANGED <<used, cut, acted>>
ActDone ==
    /\ InHandler /\ Runs /\ Step.acts # ""
    /\ acted' = acted \cup {Step.acts} /\ Next1 /\ UNCHANGED <<used, cut>>
ActFails ==
    /\ InHandler /\ Runs /\ Step.acts # ""
    /\ acted' = acted \cup {Step.acts} /\ Refuse /\ UNCHANGED <<used, cut>>
HandlerReturns ==
    /\ stage = "handler" /\ ip = Len(call.steps) + 1
    /\ Answer("ok") /\ counted' = "request"
    /\ UNCHANGED <<call, ip, used, cut, acted>>
Reset ==
    /\ stage = "done"
    /\ stage' = "idle" /\ call' = NoCall /\ ip' = 1 /\ used' = {} /\ cut' = {} /\ acted' = {}
    /\ reply' = "none" /\ counted' = "none"

CallInit == /\ call = NoCall /\ stage = "idle" /\ ip = 1 /\ used = {} /\ cut = {} /\ acted = {}
        /\ reply = "none" /\ counted = "none"
CallNext ==
    \/ \E m \in Methods : Call(m)
    \/ SendPlain \/ SendAltered \/ SendPoorly
    \/ BridgeAccepts \/ BridgeRefuses
    \/ RouteNotification \/ RouteUnbound \/ RouteNoSession \/ RouteToHandler \/ RouteUnknown
    \/ SkipStep \/ ReadParam \/ RefuseParam \/ PassGate \/ RefuseGate
    \/ LookupFinds \/ LookupFails \/ ActDone \/ ActFails \/ HandlerReturns \/ Reset
CallSpec == CallInit /\ [][CallNext]_pathVars

-----------------------------------------------------------------------------
Nulls == {f \in DOMAIN call.args : call.args[f] = "null"}
Accepted == call.via = "mcp" /\ stage \notin {"idle", "draft", "bridge"} /\ validate_args(call.method, call.args)
\* What the bridge's schema lets through and the handler may refuse all the
\* same: page.user_agent and term.write lack a field the handler cannot do
\* without, a field that is any JSON to the schema (a wait predicate, a
\* permission descriptor) is an object or a word to the handler, and params
\* outside the schema are forwarded unchecked.
KnownGaps ==
    \/ call.method = "page.user_agent" /\ Value("user_agent") = "absent"
    \/ call.method = "term.write" /\ {Value("text"), Value("data_base64")} = {"absent"}
    \/ \E f \in DOMAIN call.args :
           f \notin Offered \/ (TypeOf(f) = Json /\ call.args[f] # "object")

\* Two lists and two sets of rules describe the same tools, in two crates, and
\* nothing but care keeps them together: a call the bridge accepts, by a session
\* that holds the capabilities, is never answered "no such method" nor refused
\* for the class of an argument, and every method session.register advertises
\* has a handler.
AdvertisedIsServed ==
    /\ (Accepted /\ Nulls = {} /\ ~KnownGaps /\ call.caps = Capabilities)
           => reply \notin {"MethodNotFound", "InvalidParams"}
    /\ reply = "MethodNotFound" => call.method \notin supported_methods

\* Fields of the schema no step of the handler reads.
Unread == {<<"browser.context.create", "stealth">>, <<"tab.open", "timeout_ms">>,
           <<"tab.navigate", "timeout_ms">>,
           <<"page.cache_api.list", "filter">>, <<"system.fsevents.watch", "events">>}
\* The handler reads the field, but not with these values of the other params.
Moot(f) ==
    \A i \in Reads :
        LET s == call.steps[i]
        IN  s.arg = f => s.when # "" /\ Value(s.when) \notin s.is
\* serde's idea of a field and the handler's own reading of it agree: a value the
\* bridge accepts and the handler asks for is taken, never dropped in silence by
\* an as_u64 or as_str of the wrong type, whatever the other arguments are, nor
\* narrowed by an `as` cast (capture_region casts without a check).
NothingIgnored ==
    /\ Accepted /\ call.method # "system.screen.capture_region" => cut = {}
    /\ (Accepted /\ reply = "ok" /\ ~KnownGaps) =>
        \A f \in {g \in DOMAIN call.args \ (used \cup Nulls) : TypeOf(g) # Json} :
            IF f \in ReadFields
            THEN Moot(f) ELSE <<call.method, f>> \in Unread

Needs ==
    "app" :> {"native", "trusted", "unlisted"} @@ "clipboard" :> {"native", "trusted"} @@
    "apps" :> {"native", "trusted"} @@ "subscription" :> {"native", "trusted"} @@
    "desktop" :> {"native", "trusted", "unblocked"} @@
    "focus" :> {"native", "trusted", "unblocked", "focus_steal"} @@
    "raise" :> {"native", "trusted", "unlisted", "focus_steal"} @@ "vision" :> {"vision"} @@
    "system" :> {"system"} @@ "microphone" :> {"system", "microphone"} @@
    "screen" :> {"system", "screen"} @@ "camera" :> {"system", "camera"} @@
    "bluetooth" :> {"system", "bluetooth"} @@ "raw_usb" :> {"system", "raw_usb"} @@
    "page" :> {} @@ "term" :> {}
\* A step that runs whenever step s does.
Covers(g, s) == g.when = "" \/ (g.when = s.when /\ s.is \subseteq g.is)
Before(p, i) == {p[j] : j \in {k \in 1..(i - 1) : Covers(p[k], p[i])}}
\* The programs and schemas are finite tables: a step reads, asks or acts, and what an
\* act needs is asked for before it, on every path to it.
StepRecords ==
    [arg : STRING, ok : SUBSET Json, bad : SUBSET Values, cut : SUBSET Json, gate : STRING,
     codes : SUBSET Codes, acts : DOMAIN Needs \cup {""}, when : STRING, is : SUBSET Values]
ASSUME StepsAssumption ==
    \A m \in DOMAIN Handlers :
        /\ Handlers[m] \in Seq(StepRecords)
        /\ \A i \in DOMAIN Handlers[m] :
               LET s == Handlers[m][i]
               IN  (s.gate # "" => s.arg = "" /\ s.acts = "") /\ (s.arg # "" => s.acts = "")
ASSUME GatesAssumption ==
    \A m \in DOMAIN Handlers : \A i \in DOMAIN Handlers[m] :
        LET p == Handlers[m]
        IN  p[i].acts # "" =>
                /\ \A c \in Needs[p[i].acts] : \E g \in Before(p, i) : g.gate = c
                /\ p[i].acts \in {"focus", "raise"} =>
                       \E g \in Before(p, i) : g.arg = "confirm" /\ Values \ Bool \subseteq g.bad
ASSUME NeedsAssumption == \A s \in DOMAIN Needs : Needs[s] \subseteq Capabilities
ASSUME SchemasAssumption ==
    \A m \in DOMAIN validated :
        /\ \A f \in DOMAIN validated[m].req : validated[m].req[f] \subseteq Json
        /\ \A f \in DOMAIN validated[m].opt : validated[m].opt[f] \subseteq Json
\* A handler acts on a surface only in a session that holds every capability the
\* surface needs, and moves the user's focus only when the caller confirmed it;
\* the gate is in each of two hundred handlers and has to come before the act.
ActsHaveCapability ==
    /\ \A s \in acted : Needs[s] \subseteq call.caps
    /\ acted \cap {"focus", "raise"} # {} => Value("confirm") = "bool"

=============================================================================
