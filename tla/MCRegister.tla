------------------------------ MODULE MCRegister ------------------------------
(* Clients that behave, and the fetch a first registration may have to wait   *)
(* for.  A register sees a fetch only as part of a launch that ends one way   *)
(* or the other, so each is explored, and is fair, with the other at rest.    *)
EXTENDS BrokerSessions, Fetcher

mcVars == <<vars, fetchVars>>
InSessions(A) == FetchInit /\ A /\ UNCHANGED fetchVars
InFetch(A) == Init /\ A /\ UNCHANGED vars

MCInit == Init /\ FetchInit
MCSpec ==
    /\ MCInit
    /\ [][InSessions(Next) \/ InFetch(FetchNext)]_mcVars
    /\ \A c \in Conns : WF_mcVars(InSessions(Handler(c)))
    /\ \A k \in Tasks : WF_mcVars(InSessions(LifecycleTask(k)))
    /\ \A f \in Fetchers : WF_mcVars(InFetch(FetchStep(f)))
=============================================================================
