------------------------------- MODULE MCNode -------------------------------
(***************************************************************************)
(* Five parts of a node that share no state any property looks at: the     *)
(* directory of manifests, the journal of administration, what is derived  *)
(* from the log, appends that carry an idempotency key, and tool calls     *)
(* that need an approval.  A behaviour is one of a part, the others stay   *)
(* where they started, so that the states are the sum of the parts' and    *)
(* not their product.                                                      *)
(***************************************************************************)
EXTENDS ManifestStore, TrustedAdmin, DerivedState, IdempotentAppend, ApprovalGate

VARIABLE part  \* the part that moves

Parts == {"manifests", "journal", "derived", "submissions", "approvals"}

\* The state the other parts stay in
PartAtRest(p) ==
    CASE p = "journal"     -> crashes = {}
      [] p = "submissions" -> route = "alone" /\ leader = CHOOSE n \in SubmitNodes : TRUE
      [] p = "approvals"   -> gateMode = CHOOSE m \in GateModes : TRUE
      [] OTHER             -> TRUE

NodeInit ==
    /\ ManifestInit /\ AdminInit /\ DerivedInit /\ SubmitInit
    /\ GateInit
    /\ part \in Parts
    /\ \A p \in Parts \ {part} : PartAtRest(p)

NodeNext ==
    /\ UNCHANGED part
    /\ \/ /\ part = "manifests" /\ ManifestNext
          /\ UNCHANGED <<adminVars, derivedVars, submitVars, gateVars>>
       \/ /\ part = "journal" /\ AdminNext
          /\ UNCHANGED <<manifestVars, derivedVars, submitVars, gateVars>>
       \/ /\ part = "derived" /\ DerivedNext
          /\ UNCHANGED <<manifestVars, adminVars, submitVars, gateVars>>
       \/ /\ part = "submissions" /\ SubmitNext
          /\ UNCHANGED <<manifestVars, adminVars, derivedVars, gateVars>>
       \/ /\ part = "approvals" /\ GateNext
          /\ UNCHANGED <<manifestVars, adminVars, derivedVars, submitVars>>

nodeVars == <<part, manifestVars, adminVars, derivedVars, submitVars, gateVars>>

NodeSpec == NodeInit /\ [][NodeNext]_nodeVars

\* The type invariants of the parts, whether they move or not
NodeTypeOK ==
    ManifestTypeOK /\ AdminTypeOK /\ DerivedTypeOK /\ SubmitTypeOK
    /\ GateTypeOK
=============================================================================
