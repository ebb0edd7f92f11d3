------------------------------- MODULE MCParts -------------------------------
(***************************************************************************)
(* One run for the parts of the program that have no step in common: the   *)
(* initial state chooses a part, and the part runs as its own module says  *)
(* while the variables of the others stay at an initial value of theirs.   *)
(* A property of a part says nothing of the runs of another, whose copy of *)
(* its variables never moves.                                              *)
(***************************************************************************)
EXTENDS FloodControl, EnetFragments, EnetThrottle, EnetBandwidth, GameLoop, Physics

VARIABLE part

Parts == {"flood", "fragments", "throttle", "bandwidth", "loop", "physics"}

partVars == <<part, floodVars, fragmentVars, throttleVars, bandwidthVars, loopVars, physicsVars>>

\* main of the client, connected, stands for the loop's initial states elsewhere.
PartsInit ==
    /\ part \in Parts
    /\ FloodInit /\ FragmentsInit /\ ThrottleInit /\ BandwidthInit /\ LoopInit /\ PhysicsInit
    /\ part # "loop" => link

Alone(p, vars) == part = p /\ UNCHANGED <<part, vars>>

PartsNext ==
    \/ /\ Alone("flood", <<fragmentVars, throttleVars, bandwidthVars, loopVars, physicsVars>>)
       /\ FloodNext
    \/ /\ Alone("fragments", <<floodVars, throttleVars, bandwidthVars, loopVars, physicsVars>>)
       /\ FragmentsNext
    \/ /\ Alone("throttle", <<floodVars, fragmentVars, bandwidthVars, loopVars, physicsVars>>)
       /\ ThrottleNext
    \/ /\ Alone("bandwidth", <<floodVars, fragmentVars, throttleVars, loopVars, physicsVars>>)
       /\ BandwidthNext
    \/ /\ Alone("loop", <<floodVars, fragmentVars, throttleVars, bandwidthVars, physicsVars>>)
       /\ LoopNext
    \/ /\ Alone("physics", <<floodVars, fragmentVars, throttleVars, bandwidthVars, loopVars>>)
       /\ PhysicsNext

\* The fairness each part states (FragmentsFairness, BandwidthFairness,
\* LoopFairness), of the part that runs: another part's actions are never taken.
PartsFairness ==
    /\ \A n \in 1 .. MaxPackets, k \in 0 .. MaxFragments - 1 :
          WF_fragmentVars(/\ part = "fragments" /\ Arrive(n, k)
                          /\ packets[n].start + k \notin acknowledged)
    /\ WF_fragmentVars(part = "fragments" /\ Receive)
    /\ WF_bandwidthVars(part = "bandwidth" /\ ThrottleSteps)
    /\ WF_bandwidthVars(part = "bandwidth" /\ ThrottleCalled)
    /\ WF_loopVars(part = "loop" /\ LoopStep)
    /\ WF_loopVars(part = "loop" /\ EventsEnd)

PartsSpec == PartsInit /\ [][PartsNext]_partVars /\ PartsFairness

PartsTypeOK ==
    /\ part \in Parts
    /\ FloodTypeOK /\ FragmentsTypeOK /\ ThrottleTypeOK /\ BandwidthTypeOK /\ LoopTypeOK /\ PhysicsTypeOK
=============================================================================
