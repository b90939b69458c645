----------------------------- MODULE DurableLog -----------------------------
(***************************************************************************)
(* What the HRKL v6 log promises to its callers, with no segment, no       *)
(* manifest and no fsync in sight.                                         *)
(*                                                                         *)
(*   log       the writes a reader would find, in LSN order                *)
(*   acked     how many of them were answered Ok to an `append`            *)
(*   promised  how many of them were answered durable: an `append` under   *)
(*             FsyncPolicy::Always, or a `flush`                           *)
(*                                                                         *)
(* A process kill and a restart are not actions here: they must not change *)
(* anything a caller can see.                                              *)
(***************************************************************************)
EXTENDS Integers, Sequences

CONSTANT Writes   \* the identities of the writes clients submit

VARIABLES
    durable,   \* every Ok of `append` is a durable one (Always); never changes
    log, acked, promised

vars == <<durable, log, acked, promised>>

TypeOK ==
    /\ durable \in BOOLEAN
    /\ log \in Seq(Writes)
    /\ acked \in Nat
    /\ promised \in Nat

Init ==
    /\ durable \in BOOLEAN
    /\ log = << >>
    /\ acked = 0
    /\ promised = 0

\* A write reaches the end of the log before its caller is answered.
Record(w) ==
    /\ log' = Append(log, w)
    /\ UNCHANGED <<acked, promised>>

\* The write reaches the log and its caller is answered in one step.  The
\* answer covers every earlier write, answered or not, whose LSN it fixed.
Accept(w) ==
    /\ ~durable
    /\ log' = Append(log, w)
    /\ acked' = Len(log')
    /\ UNCHANGED promised

\* An `append` is answered; under Always the answer is a promise.
Ack ==
    /\ acked < Len(log)
    /\ acked' = Len(log)
    /\ promised' = IF durable THEN Len(log) ELSE promised
    /\ UNCHANGED log

\* A `flush` is answered: everything in the log is durable from now on.
Flush ==
    /\ promised' = Len(log)
    /\ UNCHANGED <<log, acked>>

\* A power failure may cost the end of the log, never a promised write.
\* What survives of an answered prefix is still answered.
Lose ==
    \E n \in promised .. Len(log) :
        /\ log' = SubSeq(log, 1, n)
        /\ acked' = IF acked < n THEN acked ELSE n
        /\ UNCHANGED promised

Next ==
    /\ UNCHANGED durable
    /\ \/ \E w \in Writes : Record(w) \/ Accept(w)
       \/ Ack
       \/ Flush
       \/ Lose

Spec == Init /\ [][Next]_vars

(***************************************************************************)
(* The promise itself: no answer is about a write the log does not hold.   *)
(***************************************************************************)
PromisesHeld == promised <= Len(log) /\ acked <= Len(log)
=============================================================================
