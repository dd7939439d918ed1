------------------------------- MODULE MCPage -------------------------------
(* One tab: snapshots and refs, input, and network.  The three share no      *)
(* variable and no action of one reads another's state, so each is explored  *)
(* with the others at rest instead of in every combination.                 *)
EXTENDS PageControl, PageInput, PageNetwork, TLC

MCLayouts == {<<"a">>, <<"b">>}
MCFrames == {<<>>, <<"f">>, <<"g">>}
MCGlobs == {[wide |-> {"x", "y"}, exact |-> {"y"}]}
MCFilters == {{"x", "y"}}
\* One pair of model values serves as the callers, the senders and the requests.
Interchangeable == Permutations(Callers)

\* A third call after a navigation, and a third change, are there for the chain
\* of two deltas that a navigation may cut: without refs and child frames, and
\* whatever the page then shows.
NoRefsOrFrames == frames = <<>> /\ \A c \in Callers : call[c].refs = <<>>
FewAcrossNavs ==
    /\ calls = MaxCalls /\ doc > 1 => NoRefsOrFrames
    /\ change = MaxChanges => doc > 1 /\ NoRefsOrFrames /\ root = <<"a">>
\* Handlers act on requests, which a subscription to WebSocket frames or
\* server-sent events never sees: the two are not combined.
StreamsApart == \A o \in Observers : sub[o].on /\ sub[o].channel # "net" => handlers = {}

mcVars == <<vars, inputVars, networkVars>>
PageAtRest == calls = 0 /\ change = 0
MCNext ==
    \/ InputInit /\ NetworkInit /\ Next /\ FewAcrossNavs' /\ UNCHANGED <<inputVars, networkVars>>
    \/ PageAtRest /\ NetworkInit /\ InputNext /\ UNCHANGED <<vars, networkVars>>
    \/ PageAtRest /\ InputInit /\ NetworkNext /\ StreamsApart' /\ UNCHANGED <<vars, inputVars>>
MCInit == Init /\ InputInit /\ NetworkInit
MCSpec == MCInit /\ [][MCNext]_mcVars

=============================================================================
