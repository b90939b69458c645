------------------------------ MODULE MCUpkeep -------------------------------
(***************************************************************************)
(* Two things a node keeps beside its log, side by side: the flags that    *)
(* protect segments under a legal hold, and the pages of a B-epsilon tree. *)
(* They share no state, and a behaviour is one of a part: the states are   *)
(* the sum of the parts' and not their product.                            *)
(***************************************************************************)
EXTENDS MCLegalHolds, ShadowPaging

VARIABLE part  \* the part that moves

UpkeepInit ==
    /\ HoldsInit /\ ShadowInit
    /\ part \in {"holds", "pages"}

UpkeepNext ==
    /\ UNCHANGED part
    /\ \/ part = "holds" /\ HoldsNext /\ UNCHANGED shadowVars
       \/ part = "pages" /\ ShadowNext /\ UNCHANGED holdsVars

upkeepVars == <<part, holdsVars, shadowVars>>

\* The collection task is the only one whose progress a property asks for
Collects == part = "holds" /\ GcStep /\ UNCHANGED <<part, shadowVars>>

UpkeepSpec == UpkeepInit /\ [][UpkeepNext]_upkeepVars /\ WF_upkeepVars(Collects)

\* The type invariants of the parts, whichever moves, and the roles of the
\* pages of the tree
UpkeepTypeOK == HoldsTypeOK /\ ShadowTypeOK /\ EachPageOnce
=============================================================================
