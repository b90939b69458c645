------------------------------- MODULE MCFiles -------------------------------
(***************************************************************************)
(* Three sets of files of a node, side by side: the sealed segments with   *)
(* their generations, the log of the consensus, and the checkpoint of the  *)
(* ledger.  They share no state, and a behaviour is one of a part: the     *)
(* states are the sum of the parts' and not their product.                 *)
(***************************************************************************)
EXTENDS HrklGenerations, FileRaftLog, HvmCheckpoint

LOCAL INSTANCE TLC

VARIABLE part  \* the part that moves

\* No request for a checkpoint differs from another
RequestsAlike == Permutations(Requests)

FilesInit ==
    /\ Init /\ RaftLogInit /\ HvmInit
    /\ \/ part \in {"segments", "checkpoint"} /\ wal.recs = << >>
       \/ part = "raft log"

FilesNext ==
    /\ UNCHANGED part
    /\ \/ part = "segments" /\ Next /\ UNCHANGED <<raftLogVars, hvmVars>>
       \/ part = "raft log" /\ RaftLogNext /\ UNCHANGED <<vars, hvmVars>>
       \/ part = "checkpoint" /\ HvmNext /\ UNCHANGED <<vars, raftLogVars>>

filesVars == <<part, vars, raftLogVars, hvmVars>>

FilesSpec == FilesInit /\ [][FilesNext]_filesVars

\* The type invariants of the parts, whichever moves
FilesTypeOK == TypeOK /\ RaftLogTypeOK /\ HvmTypeOK
=============================================================================
