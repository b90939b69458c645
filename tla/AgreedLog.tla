------------------------------ MODULE AgreedLog ------------------------------
(***************************************************************************)
(* What replication promises: the cluster agrees on one sequence of        *)
(* stamped episodes, and the log of every node is a prefix of it that only *)
(* grows.  No terms, no snapshots, no crashes.                             *)
(***************************************************************************)
EXTENDS Integers, Sequences

CONSTANTS
    Nodes,
    Episodes   \* records with the stamp of the episode in the field ts

VARIABLES
    agreed,    \* the sequence of episodes the cluster agreed on
    copies     \* the log of each node

vars == <<agreed, copies>>

TypeOK ==
    /\ agreed \in Seq(Episodes)
    /\ copies \in [Nodes -> Seq(Episodes)]

Init ==
    /\ agreed = << >>
    /\ copies = [n \in Nodes |-> << >>]

\* Stamps strictly increase, or AS OF TIMESTAMP would have no answer.
Decide(e) ==
    /\ \A i \in DOMAIN agreed : agreed[i].ts < e.ts
    /\ agreed' = Append(agreed, e)
    /\ UNCHANGED copies

Copy(n) ==
    /\ Len(copies[n]) < Len(agreed)
    /\ copies' = [copies EXCEPT ![n] = Append(@, agreed[Len(@) + 1])]
    /\ UNCHANGED agreed

Next == (\E e \in Episodes : Decide(e)) \/ (\E n \in Nodes : Copy(n))

Spec == Init /\ [][Next]_vars

(***************************************************************************)
(* Two nodes never hold different episodes, or one episode with different  *)
(* stamps, at one LSN.                                                     *)
(***************************************************************************)
IsCopy(l) == Len(l) <= Len(agreed) /\ \A i \in 1 .. Len(l) : l[i] = agreed[i]
Agreement == \A n \in Nodes : IsCopy(copies[n])
=============================================================================
