------------------------------- MODULE MCBroker -------------------------------
(* The broker's requests: session.register and the lifecycle of a session,    *)
(* every other method from the bridge to its handler, and the pipeline that   *)
(* the vision methods read.  A call meets a session only as bound or not and  *)
(* a pipeline only through what it returns, so each is explored with the      *)
(* others at rest.                                                            *)
EXTENDS BrokerSessions, ToolPath, Vision, TLC

MCMethods == TOOL_NAMES \cup DOMAIN Handlers \cup supported_methods \cup {"no.such.method"}
MCClasses == Json \ Words
ConnSymmetry == Permutations(Conns)

mcVars == <<vars, pathVars, visionVars>>
MCNext ==
    \/ CallInit /\ VisionInit /\ Next /\ UNCHANGED <<pathVars, visionVars>>
    \/ Init /\ VisionInit /\ CallNext /\ UNCHANGED <<vars, visionVars>>
    \/ Init /\ CallInit /\ VisionNext /\ UNCHANGED <<vars, pathVars>>
MCInit == Init /\ CallInit /\ VisionInit
MCSpec == MCInit /\ [][MCNext]_mcVars
=============================================================================
