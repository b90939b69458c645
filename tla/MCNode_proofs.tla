---------------------------- MODULE MCNode_proofs ----------------------------
(***************************************************************************)
(* The five parts of a node side by side: whichever moves, the state of    *)
(* all keeps its types.                                                    *)
(***************************************************************************)
EXTENDS MCNode, Node_proofs, Clients_proofs

\* A behaviour of the node is a behaviour of each part.
LEMMA NodePartsBehave ==
    NodeSpec => ManifestSpec /\ AdminSpec /\ DerivedSpec /\ SubmitSpec /\ GateSpec
<1>1. NodeInit => ManifestInit /\ AdminInit /\ DerivedInit /\ SubmitInit /\ GateInit
  BY DEF NodeInit
<1>2. [NodeNext]_nodeVars
         => /\ [ManifestNext]_manifestVars /\ [AdminNext]_adminVars /\ [DerivedNext]_derivedVars
            /\ [SubmitNext]_submitVars /\ [GateNext]_gateVars
  BY DEF NodeNext, nodeVars
<1> QED
  BY <1>1, <1>2, PTL DEF NodeSpec, ManifestSpec, AdminSpec, DerivedSpec, SubmitSpec, GateSpec

\* In every execution, for every value of the constants, every part is in a state
\* of its type: no generation, LSN, call or approval beyond those there were.
THEOREM NodeTypes == NodeSpec => []NodeTypeOK
<1>1. /\ ManifestSpec => []ManifestTypeOK
      /\ AdminSpec => []AdminTypeOK
      /\ DerivedSpec => []DerivedTypeOK
      /\ SubmitSpec => []SubmitTypeOK
      /\ GateSpec => []GateTypeOK
  BY ManifestTyped, AdminTypes, DerivedTyped, SubmissionsBounded, PendingIsBounded
<1>2. ManifestTypeOK /\ AdminTypeOK /\ DerivedTypeOK /\ SubmitTypeOK /\ GateTypeOK => NodeTypeOK
  BY DEF NodeTypeOK
<1> QED
  BY <1>1, <1>2, NodePartsBehave, PTL
=============================================================================
