------------------------------ MODULE PartsProofs ------------------------------
(***************************************************************************)
(* Theorems about MCParts: each part, alone or standing still, takes steps *)
(* of its own only, so what is proved of the parts holds of the run.       *)
(***************************************************************************)
EXTENDS MCParts, GameProofs, EnetFragmentsProofs, EnetThrottleProofs

\* A step of the union is a step of each part's own module, or leaves it alone.
LEMMA PartsSteps ==
    ASSUME [PartsNext]_partVars
    PROVE  /\ [FloodNext]_floodVars /\ [FragmentsNext]_fragmentVars /\ [ThrottleNext]_throttleVars
           /\ [BandwidthNext]_bandwidthVars /\ [LoopNext]_loopVars /\ [PhysicsNext]_physicsVars
           /\ part' = part
<1>1. CASE UNCHANGED partVars
  BY <1>1 DEF partVars
<1>2. CASE PartsNext
  BY <1>2 DEF PartsNext, Alone
<1> QED BY <1>1, <1>2

\* The specification the run checks implements that of each part: whatever is proved
\* of a part's own specification (which FloodSpec and the others are, without the
\* fairness of three of them) is proved of the run, and composing the parts adds no
\* behaviour to any of them.
THEOREM PartsAreTheirOwn ==
    PartsSpec => /\ FloodSpec /\ ThrottleSpec /\ PhysicsSpec
                 /\ FragmentsSafety /\ BandwidthSafety /\ LoopSafety
                 /\ [](part \in Parts)
<1>1. PartsInit => /\ FloodInit /\ FragmentsInit /\ ThrottleInit /\ BandwidthInit /\ LoopInit
                   /\ PhysicsInit /\ part \in Parts
  BY DEF PartsInit
<1>2. [PartsNext]_partVars =>
        /\ [FloodNext]_floodVars /\ [FragmentsNext]_fragmentVars /\ [ThrottleNext]_throttleVars
        /\ [BandwidthNext]_bandwidthVars /\ [LoopNext]_loopVars /\ [PhysicsNext]_physicsVars
  BY PartsSteps
<1>3. part \in Parts /\ [PartsNext]_partVars => (part \in Parts)'
  BY PartsSteps
<1> QED BY <1>1, <1>2, <1>3, PTL
        DEF PartsSpec, FloodSpec, ThrottleSpec, PhysicsSpec, FragmentsSafety, BandwidthSafety, LoopSafety

\* The variables of all parts keep their types.
THEOREM PartsTypes == PartsSpec => []PartsTypeOK
<1>1. FloodSpec => []FloodTypeOK
  BY CountersCorrect, PTL
<1>2. ThrottleSpec => []ThrottleTypeOK
  BY ThrottleCorrect, PTL
<1>3. PhysicsSpec => []PhysicsTypeOK
  BY GroundCorrect, PTL
<1>4. FragmentsSafety => []FragmentsTypeOK
  <2>1. FragmentsInv => FragmentsTypeOK
    BY DEF FragmentsInv
  <2> QED BY <2>1, FragmentsSafe, PTL
<1> QED BY <1>1, <1>2, <1>3, <1>4, PartsAreTheirOwn, BandwidthTyped, LoopStaysTyped, PTL DEF PartsTypeOK
==============================================================================
