--------------------------- MODULE Clients_proofs ---------------------------
(***************************************************************************)
(* Two of the parts a node is made of (MCNode), the ones that answer a     *)
(* client.                                                                 *)
(*                                                                         *)
(* IdempotentAppend, whatever the nodes, the calls, the keys and the       *)
(* bounds: what a call is told stands in the log, and a key is in the log  *)
(* once, except where the code cannot know of the first: after a change    *)
(* of leader, or when a call of the key gave up.  AnswerInv is what the    *)
(* first rests on, KeyInv what the second adds.  The lemmas of one step    *)
(* come in two rows, one for each, an action at a time.                    *)
(*                                                                         *)
(* ApprovalGate, whatever the agents, subjects, handlers and faults: in    *)
(* enforce each call that goes upstream has a person's grant of its own,   *)
(* is on record, and is not repeated after a restart.                      *)
(***************************************************************************)
EXTENDS IdempotentAppend, ApprovalGate, SequenceTheorems, FiniteSetTheorems, TLAPS

-----------------------------------------------------------------------------
(* Appends that carry an idempotency key *)

Stages == {"locked", "absent", "indexing", "waiting"} \cup Answers
Asked == [at : Stages, node : SubmitNodes, key : SubmitKeys, payload : Payloads, lsn : Nat]
Entries == [key : SubmitKeys, payload : Payloads, call : SubmitCalls]

\* The log, and what its leader has not committed of it.
Trail == agreed \o backlog

\* The episode of the call was handed to the log.
Handed == {"indexing", "waiting", "ok", "error"}

SubmitTypes ==
    /\ agreed \in Seq(Entries) /\ backlog \in Seq(Entries)
    /\ indexed \in [SubmitNodes -> SUBSET Nat]
    /\ channel \in [SubmitNodes -> Seq(SubmitCalls)]
    /\ inflight \in [SubmitNodes -> SUBSET SubmitCalls]
    /\ calls = [c \in SubmitCalls |-> calls[c]]
    /\ \A c \in SubmitCalls : calls[c].at = "idle" \/ calls[c] \in Asked

IndexedInLog == \A n \in SubmitNodes : indexed[n] \subseteq DOMAIN agreed

\* What waits in a queue or holds a permit was handed over.
QueuedHanded ==
    \A n \in SubmitNodes :
       /\ \A i \in DOMAIN channel[n] : calls[channel[n][i]].at \in {"waiting", "ok", "error"}
       /\ \A c \in inflight[n] : calls[c].at \in {"waiting", "ok", "error"}

\* An episode of the log is the one its call asked for.
EntriesOfCalls ==
    \A i \in DOMAIN Trail :
       /\ calls[Trail[i].call].at \in Handed
       /\ Trail[i].key = calls[Trail[i].call].key
       /\ Trail[i].payload = calls[Trail[i].call].payload

IndexingWritten ==
    \A c \in SubmitCalls : calls[c].at = "indexing" =>
       calls[c].lsn \in DOMAIN agreed /\ agreed[calls[c].lsn] = Entry(c)

\* A node alone proposes nothing.
NoQueueAlone ==
    route = "alone" =>
        /\ backlog = << >>
        /\ \A n \in SubmitNodes : channel[n] = << >> /\ inflight[n] = {}

AnswerInv ==
    /\ SubmitTypes /\ NoQueueAlone /\ IndexedInLog /\ QueuedHanded /\ EntriesOfCalls
    /\ IndexingWritten /\ AnswersStand

-----------------------------------------------------------------------------
LEMMA WholeIs ==
    ASSUME SubmitTypes
    PROVE  /\ Trail \in Seq(Entries) /\ Len(Trail) = Len(agreed) + Len(backlog)
           /\ \A i \in DOMAIN agreed : i \in DOMAIN Trail /\ Trail[i] = agreed[i]
  BY DEF SubmitTypes, Trail

LEMMA AskedIs ==
    ASSUME SubmitTypes, NEW c \in SubmitCalls, calls[c].at # "idle"
    PROVE  /\ calls[c].node \in SubmitNodes /\ calls[c].key \in SubmitKeys
           /\ calls[c].payload \in Payloads /\ calls[c].lsn \in Nat
           /\ calls[c].at \in Stages
           /\ Entry(c) \in Entries
           /\ \A at \in Stages, lsn \in Nat :
                 /\ CallAt(c, at, lsn) \in Asked
                 /\ CallAt(c, at, lsn).at = at /\ CallAt(c, at, lsn).lsn = lsn
                 /\ CallAt(c, at, lsn).node = calls[c].node
                 /\ CallAt(c, at, lsn).key = calls[c].key
                 /\ CallAt(c, at, lsn).payload = calls[c].payload
  BY DEF SubmitTypes, Asked, Entry, Entries, CallAt, Called

\* Some calls go on, with what they asked for; the others stay.
GoOn(S) ==
    /\ calls' = [c \in SubmitCalls |-> calls'[c]]
    /\ \A c \in SubmitCalls \ S : calls'[c] = calls[c]
    /\ \A c \in S :
          /\ calls[c].at # "idle" /\ calls'[c] \in Asked
          /\ calls'[c].node = calls[c].node /\ calls'[c].key = calls[c].key
          /\ calls'[c].payload = calls[c].payload

LEMMA ToldGoesOn ==
    ASSUME SubmitTypes, NEW c \in SubmitCalls, calls[c].at # "idle",
           NEW at \in Stages, NEW lsn \in Nat, Told(c, at, lsn)
    PROVE  GoOn({c}) /\ calls'[c].at = at /\ calls'[c].lsn = lsn
  <1>1. calls' = [d \in SubmitCalls |-> IF d = c THEN CallAt(c, at, lsn) ELSE calls[d]]
    BY DEF Told, SubmitTypes
  <1>2. calls'[c] = CallAt(c, at, lsn) /\ \A d \in SubmitCalls \ {c} : calls'[d] = calls[d]
    BY <1>1
  <1>3. calls' = [d \in SubmitCalls |-> calls'[d]]
    BY <1>1
  <1> QED
    BY <1>2, <1>3, AskedIs DEF GoOn

LEMMA MovesGoesOn ==
    ASSUME SubmitTypes, NEW c \in SubmitCalls, calls[c].at # "idle",
           NEW at \in Stages, Moves(c, at)
    PROVE  GoOn({c}) /\ calls'[c].at = at /\ calls'[c].lsn = calls[c].lsn
  BY ToldGoesOn, AskedIs DEF Moves

LEMMA AllMoveGoOn ==
    ASSUME SubmitTypes, NEW S \in SUBSET SubmitCalls, \A c \in S : calls[c].at # "idle",
           NEW at \in Stages, AllMove(S, at)
    PROVE  GoOn(S) /\ \A c \in S : calls'[c].at = at /\ calls'[c].lsn = calls[c].lsn
  <1>1. /\ calls' = [c \in SubmitCalls |-> calls'[c]]
        /\ \A c \in SubmitCalls \ S : calls'[c] = calls[c]
        /\ \A c \in S : calls'[c] = CallAt(c, at, calls[c].lsn)
    BY DEF AllMove
  <1> QED
    BY <1>1, AskedIs DEF GoOn

\* Where a call goes from where it is.
Onward(from, to) ==
    \/ to = from
    \/ from = "locked" /\ to \in {"absent", "duplicate", "conflict", "error"}
    \/ from = "absent" /\ to \in {"indexing", "waiting", "error"}
    \/ from = "indexing" /\ to \in {"ok", "error"}
    \/ from = "waiting" /\ to \in {"ok", "error"}

CallsForward ==
    \A c \in SubmitCalls :
       \/ calls'[c] = calls[c]
       \/ calls[c].at = "idle" /\ calls'[c].at \in {"locked", "error"}
       \/ /\ calls[c].at # "idle" /\ Onward(calls[c].at, calls'[c].at)
          /\ calls'[c].node = calls[c].node /\ calls'[c].key = calls[c].key
          /\ calls'[c].payload = calls[c].payload

\* The log keeps what it had and may take the episode of one more call.
TrailKept ==
    /\ agreed' \in Seq(Entries) /\ backlog' \in Seq(Entries)
    /\ Len(agreed) <= Len(agreed') /\ \A i \in DOMAIN agreed : agreed'[i] = agreed[i]
    /\ \A i \in DOMAIN Trail' :
          \/ i \in DOMAIN Trail /\ Trail'[i] = Trail[i]
          \/ \E c \in SubmitCalls :
                /\ calls[c].at # "idle" /\ calls'[c].at \in Handed
                /\ Trail'[i] = Entry(c)

\* Calls that go on keep the invariant, if what they are told is in the log.
LEMMA GoingOnKeeps ==
    ASSUME AnswerInv, NEW S \in SUBSET SubmitCalls, GoOn(S), TrailKept,
           indexed' \in [SubmitNodes -> SUBSET Nat], IndexedInLog',
           channel' \in [SubmitNodes -> Seq(SubmitCalls)],
           inflight' \in [SubmitNodes -> SUBSET SubmitCalls], QueuedHanded', NoQueueAlone',
           \A c \in S : Onward(calls[c].at, calls'[c].at),
           \A c \in S : calls'[c].at = "indexing" =>
              calls'[c].lsn \in DOMAIN agreed' /\ agreed'[calls'[c].lsn] = Entry(c),
           \A c \in S : calls'[c].at \in {"ok", "duplicate", "conflict"} =>
              /\ calls'[c].lsn \in DOMAIN agreed'
              /\ agreed'[calls'[c].lsn].key = calls[c].key
              /\ (agreed'[calls'[c].lsn].payload = calls[c].payload) <=> (calls'[c].at # "conflict")
    PROVE  AnswerInv' /\ CallsForward
  <1>1. SubmitTypes'
    <2>1. calls' = [c \in SubmitCalls |-> calls'[c]]
      BY DEF GoOn
    <2>2. \A c \in SubmitCalls : calls'[c].at = "idle" \/ calls'[c] \in Asked
      BY DEF GoOn, AnswerInv, SubmitTypes
    <2> QED
      BY <2>1, <2>2 DEF TrailKept, SubmitTypes, Asked
  <1>2. \A c \in SubmitCalls : calls[c].at # "idle" =>
           /\ calls'[c].key = calls[c].key /\ calls'[c].payload = calls[c].payload
           /\ Entry(c)' = Entry(c)
    BY DEF GoOn, Entry
  <1>3. \A c \in SubmitCalls : calls[c].at \in Handed => calls'[c].at \in Handed
    BY DEF GoOn, Onward, Handed
  <1>4. EntriesOfCalls'
    <2> SUFFICES ASSUME NEW i \in DOMAIN Trail'
                 PROVE  /\ calls'[Trail'[i].call].at \in Handed
                        /\ Trail'[i].key = calls'[Trail'[i].call].key
                        /\ Trail'[i].payload = calls'[Trail'[i].call].payload
      BY DEF EntriesOfCalls, Handed
    <2>1. CASE i \in DOMAIN Trail /\ Trail'[i] = Trail[i]
      <3>1. Trail[i].call \in SubmitCalls
        <4>1. Trail \in Seq(Entries)
          BY WholeIs DEF AnswerInv
        <4>2. Trail[i] \in Entries
          BY <2>1, <4>1
        <4> QED
          BY <4>2 DEF Entries
      <3>2. calls[Trail[i].call].at # "idle"
        BY <2>1 DEF AnswerInv, EntriesOfCalls, Handed
      <3> QED
        BY <2>1, <3>1, <3>2, <1>2, <1>3 DEF AnswerInv, EntriesOfCalls
    <2>2. CASE \E c \in SubmitCalls : /\ calls[c].at # "idle" /\ calls'[c].at \in Handed
                                      /\ Trail'[i] = Entry(c)
      <3>1. PICK c \in SubmitCalls : calls[c].at # "idle" /\ calls'[c].at \in Handed /\ Trail'[i] = Entry(c)
        BY <2>2
      <3>2. Entry(c).call = c /\ Entry(c).key = calls[c].key /\ Entry(c).payload = calls[c].payload
        BY DEF Entry
      <3> QED
        BY <3>1, <3>2, <1>2
    <2> QED
      BY <2>1, <2>2 DEF TrailKept
  <1>5. \A i \in DOMAIN agreed : i \in DOMAIN agreed' /\ agreed'[i] = agreed[i]
    BY DEF TrailKept, AnswerInv, SubmitTypes
  <1>6. IndexingWritten'
    <2> SUFFICES ASSUME NEW c \in SubmitCalls, calls'[c].at = "indexing"
                 PROVE  calls'[c].lsn \in DOMAIN agreed' /\ agreed'[calls'[c].lsn] = Entry(c)'
      BY DEF IndexingWritten
    <2>1. CASE c \in S
      BY <2>1, <1>2 DEF GoOn
    <2>2. CASE c \notin S
      BY <2>2, <1>2, <1>5 DEF GoOn, AnswerInv, IndexingWritten
    <2> QED
      BY <2>1, <2>2
  <1>7. AnswersStand'
    <2> SUFFICES ASSUME NEW c \in SubmitCalls, calls'[c].at \in {"ok", "duplicate", "conflict"}
                 PROVE  /\ calls'[c].lsn \in DOMAIN agreed'
                        /\ agreed'[calls'[c].lsn].key = calls'[c].key
                        /\ (agreed'[calls'[c].lsn].payload = calls'[c].payload)
                              <=> (calls'[c].at # "conflict")
      BY DEF AnswersStand
    <2>1. CASE c \in S
      BY <2>1, <1>2 DEF GoOn
    <2>2. CASE c \notin S
      BY <2>2, <1>5 DEF GoOn, AnswerInv, AnswersStand
    <2> QED
      BY <2>1, <2>2
  <1>8. CallsForward
    BY DEF GoOn, CallsForward
  <1> QED
    BY <1>1, <1>4, <1>6, <1>7, <1>8 DEF AnswerInv

LEMMA LogStays ==
    ASSUME SubmitTypes, agreed' \o backlog' = Trail, agreed' \in Seq(Entries),
           backlog' \in Seq(Entries), Len(agreed) <= Len(agreed')
    PROVE  TrailKept
  <1>1. Trail' = Trail
    BY DEF Trail
  <1>2. \A i \in DOMAIN agreed : agreed[i] = Trail[i]
    BY WholeIs
  <1>3. \A i \in 1 .. Len(agreed') : (agreed' \o backlog')[i] = agreed'[i]
    BY ConcatProperties
  <1>4. \A i \in DOMAIN agreed : i \in 1 .. Len(agreed')
    BY DEF SubmitTypes
  <1> QED
    BY <1>1, <1>2, <1>3, <1>4 DEF TrailKept

LEMMA QueuedAreCalls ==
    ASSUME SubmitTypes, NEW n \in SubmitNodes
    PROVE  inflight[n] \subseteq SubmitCalls /\ channel[n] \in Seq(SubmitCalls) /\
           \A i \in DOMAIN channel[n] : channel[n][i] \in SubmitCalls
  BY DEF SubmitTypes

LEMMA QueuesStay ==
    ASSUME AnswerInv, NEW S \in SUBSET SubmitCalls, GoOn(S),
           \A c \in S : Onward(calls[c].at, calls'[c].at),
           UNCHANGED <<route, channel, inflight>>, route # "alone" \/ UNCHANGED backlog
    PROVE  QueuedHanded' /\ NoQueueAlone'
  <1>1. \A c \in SubmitCalls : calls[c].at \in {"waiting", "ok", "error"} =>
           calls'[c].at \in {"waiting", "ok", "error"}
    BY DEF GoOn, Onward
  <1>2. QueuedHanded'
    BY <1>1, QueuedAreCalls DEF AnswerInv, QueuedHanded
  <1>3. NoQueueAlone'
    BY DEF AnswerInv, NoQueueAlone
  <1> QED
    BY <1>2, <1>3

LEMMA SameTrail ==
    ASSUME AnswerInv, UNCHANGED <<agreed, backlog, indexed>>
    PROVE  TrailKept /\ indexed' \in [SubmitNodes -> SUBSET Nat] /\ IndexedInLog'
  <1>1. agreed' \o backlog' = Trail /\ Len(agreed) <= Len(agreed')
    BY DEF Trail, AnswerInv, SubmitTypes
  <1> QED
    BY <1>1, LogStays DEF AnswerInv, SubmitTypes, IndexedInLog

-----------------------------------------------------------------------------
\* Each step keeps what the answers rest on.
LEMMA InitAnswers == ASSUME SubmitInit PROVE AnswerInv
  <1>1. agreed = << >> /\ backlog = << >> /\ Len(agreed) = 0 /\ Len(backlog) = 0
    BY DEF SubmitInit
  <1>2. \A c \in SubmitCalls : calls[c].at = "idle"
    BY DEF SubmitInit
  <1>3. \A n \in SubmitNodes : channel[n] = << >> /\ inflight[n] = {} /\ indexed[n] = {}
    BY DEF SubmitInit
  <1>4. SubmitTypes
    BY <1>1, <1>2, EmptySeq DEF SubmitInit, SubmitTypes
  <1>5. DOMAIN Trail = {}
    BY <1>1, <1>4, WholeIs
  <1>6. IndexedInLog /\ QueuedHanded /\ EntriesOfCalls /\ NoQueueAlone
    BY <1>1, <1>3, <1>5 DEF IndexedInLog, QueuedHanded, EntriesOfCalls, NoQueueAlone
  <1>7. IndexingWritten /\ AnswersStand
    BY <1>2 DEF IndexingWritten, AnswersStand
  <1> QED
    BY <1>4, <1>6, <1>7 DEF AnswerInv

LEMMA ArriveAnswers ==
    ASSUME AnswerInv, NEW c \in SubmitCalls, NEW n \in SubmitNodes, NEW k \in SubmitKeys,
           NEW p \in Payloads, Arrive(c, n, k, p)
    PROVE  AnswerInv' /\ CallsForward
  <1> DEFINE new == Called(n, k, p, IF partial THEN "error" ELSE "locked", 0)
  <1>0. SubmitTypes /\ UNCHANGED <<route, agreed, backlog, indexed, channel, inflight>> /\ Trail' = Trail
    BY DEF AnswerInv, Arrive, Trail
  <1>1. new \in Asked /\ new.at \in {"locked", "error"}
    BY DEF Called, Asked, Stages, Answers
  <1>2. calls' = [d \in SubmitCalls |-> IF d = c THEN new ELSE calls[d]]
    BY <1>0 DEF Arrive, SubmitTypes
  <1>3. calls'[c] = new /\ \A d \in SubmitCalls \ {c} : calls'[d] = calls[d]
    BY <1>2
  <1>4. calls' = [d \in SubmitCalls |-> calls'[d]]
    BY <1>2
  <1>5. calls[c].at = "idle"
    BY DEF Arrive
  <1> HIDE DEF new
  <1>6. SubmitTypes'
    BY <1>0, <1>1, <1>3, <1>4 DEF SubmitTypes, Asked
  <1>7. \A i \in DOMAIN Trail : Trail[i].call \in SubmitCalls \ {c}
    <2>1. \A i \in DOMAIN Trail : Trail[i] \in Entries
      BY <1>0, WholeIs
    <2>2. \A i \in DOMAIN Trail : Trail[i].call # c
      BY <1>5 DEF AnswerInv, EntriesOfCalls, Handed
    <2> QED
      BY <2>1, <2>2 DEF Entries
  <1>8. EntriesOfCalls'
    BY <1>0, <1>3, <1>7 DEF EntriesOfCalls, AnswerInv, Handed
  <1>9. QueuedHanded'
    <2>1. \A m \in SubmitNodes : \A d \in inflight[m] : d \in SubmitCalls \ {c}
      BY <1>0, <1>5, QueuedAreCalls DEF AnswerInv, QueuedHanded
    <2>2. \A m \in SubmitNodes : \A i \in DOMAIN channel[m] : channel[m][i] \in SubmitCalls \ {c}
      BY <1>0, <1>5, QueuedAreCalls DEF AnswerInv, QueuedHanded
    <2> QED
      BY <1>0, <1>3, <2>1, <2>2 DEF AnswerInv, QueuedHanded
  <1>10. IndexingWritten'
    BY <1>0, <1>1, <1>3 DEF IndexingWritten, AnswerInv, Entry
  <1>11. AnswersStand' /\ IndexedInLog'
    BY <1>0, <1>1, <1>3 DEF AnswersStand, AnswerInv, IndexedInLog
  <1>12. NoQueueAlone'
    BY <1>0 DEF AnswerInv, NoQueueAlone
  <1>13. CallsForward
    BY <1>1, <1>3, <1>5 DEF CallsForward
  <1> QED
    BY <1>6, <1>8, <1>9, <1>10, <1>11, <1>12, <1>13 DEF AnswerInv

LEMMA LookupAnswers ==
    ASSUME AnswerInv, NEW c \in SubmitCalls, Lookup(c)
    PROVE  AnswerInv' /\ CallsForward
  <1> DEFINE found == {lsn \in indexed[calls[c].node] : agreed[lsn].key = calls[c].key}
  <1>0. /\ SubmitTypes /\ calls[c].at = "locked" /\ calls[c].at # "idle"
        /\ UNCHANGED <<route, agreed, backlog, indexed, channel, inflight>>
    BY DEF AnswerInv, Lookup
  <1>1. CASE found = {}
    <2>1. Moves(c, "absent")
      BY <1>1 DEF Lookup
    <2>2. GoOn({c}) /\ calls'[c].at = "absent"
      BY <2>1, <1>0, MovesGoesOn DEF Stages
    <2>3. \A d \in {c} : Onward(calls[d].at, calls'[d].at)
      BY <2>2, <1>0 DEF Onward
    <2> QED
      BY <1>0, <2>2, <2>3, SameTrail, QueuesStay, GoingOnKeeps DEF SubmitTypes
  <1>2. CASE found # {}
    <2>1. PICK last \in found : Told(c, IF SamePayload(last, c) THEN "duplicate" ELSE "conflict", last)
      BY <1>2 DEF Lookup
    <2>2. last \in DOMAIN agreed /\ agreed[last].key = calls[c].key /\ last \in Nat
      BY <1>0, AskedIs DEF AnswerInv, IndexedInLog, SubmitTypes
    <2> HIDE DEF found
    <2>3. /\ GoOn({c}) /\ calls'[c].lsn = last
          /\ calls'[c].at = IF SamePayload(last, c) THEN "duplicate" ELSE "conflict"
      BY <2>1, <2>2, <1>0, ToldGoesOn DEF Stages, Answers
    <2>4. \A d \in {c} : Onward(calls[d].at, calls'[d].at)
      BY <2>3, <1>0 DEF Onward
    <2>5. (agreed[last].payload = calls[c].payload) <=> calls'[c].at # "conflict"
      BY <2>3 DEF SamePayload
    <2>6. \A d \in {c} : calls'[d].at # "indexing"
      BY <2>3
    <2>7. \A d \in {c} :
              /\ calls'[d].lsn \in DOMAIN agreed'
              /\ agreed'[calls'[d].lsn].key = calls[d].key
              /\ (agreed'[calls'[d].lsn].payload = calls[d].payload) <=> (calls'[d].at # "conflict")
      BY <1>0, <2>2, <2>3, <2>5
    <2> QED
      BY <1>0, <2>3, <2>4, <2>6, <2>7, SameTrail, QueuesStay, GoingOnKeeps DEF SubmitTypes
  <1> QED
    BY <1>1, <1>2

LEMMA LogTakes ==
    ASSUME SubmitTypes, NEW c \in SubmitCalls, calls[c].at # "idle", calls'[c].at \in Handed,
           \/ backlog = << >> /\ agreed' = Append(agreed, Entry(c)) /\ UNCHANGED backlog
           \/ backlog' = Append(backlog, Entry(c)) /\ UNCHANGED agreed
    PROVE  TrailKept /\ Trail' = Append(Trail, Entry(c))
  <1>0. agreed \in Seq(Entries) /\ backlog \in Seq(Entries) /\ Entry(c) \in Entries
    BY AskedIs DEF SubmitTypes
  <1>1. Trail' = Append(Trail, Entry(c))
    <2>1. CASE backlog = << >> /\ agreed' = Append(agreed, Entry(c)) /\ UNCHANGED backlog
      <3>1. Trail = agreed /\ Trail' = agreed'
        BY <1>0, <2>1, ConcatEmptySeq DEF Trail
      <3> QED
        BY <3>1, <2>1
    <2>2. CASE backlog' = Append(backlog, Entry(c)) /\ UNCHANGED agreed
      <3>1. agreed \o Append(backlog, Entry(c)) = Append(agreed \o backlog, Entry(c))
        BY <1>0
      <3> QED
        BY <3>1, <2>2 DEF Trail
    <2> QED
      BY <2>1, <2>2
  <1>2. /\ agreed' \in Seq(Entries) /\ backlog' \in Seq(Entries)
        /\ Len(agreed) <= Len(agreed') /\ \A i \in DOMAIN agreed : agreed'[i] = agreed[i]
    <2>1. CASE agreed' = Append(agreed, Entry(c)) /\ UNCHANGED backlog
      BY <1>0, <2>1
    <2>2. CASE backlog' = Append(backlog, Entry(c)) /\ UNCHANGED agreed
      BY <1>0, <2>2
    <2> QED
      BY <2>1, <2>2
  <1>3. \A i \in DOMAIN Trail' :
           (i \in DOMAIN Trail /\ Trail'[i] = Trail[i]) \/ Trail'[i] = Entry(c)
    <2>1. Trail \in Seq(Entries)
      BY WholeIs
    <2> QED
      BY <2>1, <1>0, <1>1
  <1> QED
    BY <1>1, <1>2, <1>3 DEF TrailKept

LEMMA MoreLog ==
    ASSUME AnswerInv, TrailKept, UNCHANGED indexed
    PROVE  indexed' \in [SubmitNodes -> SUBSET Nat] /\ IndexedInLog'
  BY DEF AnswerInv, SubmitTypes, TrailKept, IndexedInLog

LEMMA AppendAnswers ==
    ASSUME AnswerInv, NEW c \in SubmitCalls, AppendAlone(c) \/ AppendFails(c)
    PROVE  AnswerInv' /\ CallsForward
  <1>0. /\ SubmitTypes /\ calls[c].at = "absent" /\ calls[c].at # "idle" /\ backlog = << >>
        /\ UNCHANGED <<route, backlog, indexed, channel, inflight>>
        /\ Len(agreed) + 1 \in Nat
    BY DEF AnswerInv, AppendAlone, AppendFails, NoQueueAlone, SubmitTypes
  <1>1. CASE agreed' = Append(agreed, Entry(c)) /\ Told(c, "indexing", Len(agreed) + 1)
    <2>1. GoOn({c}) /\ calls'[c].at = "indexing" /\ calls'[c].lsn = Len(agreed) + 1
      BY <1>0, <1>1, ToldGoesOn DEF Stages
    <2>2. TrailKept
      BY <1>0, <1>1, <2>1, LogTakes DEF Handed
    <2>3. \A d \in {c} : Onward(calls[d].at, calls'[d].at)
      BY <2>1, <1>0 DEF Onward
    <2>4. calls'[c].lsn \in DOMAIN agreed' /\ agreed'[calls'[c].lsn] = Entry(c)
      BY <1>0, <1>1, <2>1, AskedIs DEF SubmitTypes
    <2> QED
      BY <1>0, <2>1, <2>2, <2>3, <2>4, MoreLog, QueuesStay, GoingOnKeeps DEF SubmitTypes
  <1>2. CASE Moves(c, "error") /\ (agreed' = Append(agreed, Entry(c)) \/ UNCHANGED agreed)
    <2>1. GoOn({c}) /\ calls'[c].at = "error"
      BY <1>0, <1>2, MovesGoesOn DEF Stages, Answers
    <2>2. TrailKept
      BY <1>0, <1>2, <2>1, LogTakes, SameTrail DEF Handed
    <2>3. \A d \in {c} : Onward(calls[d].at, calls'[d].at)
      BY <2>1, <1>0 DEF Onward
    <2> QED
      BY <1>0, <2>1, <2>2, <2>3, MoreLog, QueuesStay, GoingOnKeeps DEF SubmitTypes
  <1> QED
    BY <1>1, <1>2 DEF AppendAlone, AppendFails

LEMMA IndexAnswers ==
    ASSUME AnswerInv, leader \in SubmitNodes, NEW c \in SubmitCalls, IndexAlone(c)
    PROVE  AnswerInv' /\ CallsForward
  <1>0. /\ SubmitTypes /\ calls[c].at = "indexing" /\ calls[c].at # "idle"
        /\ UNCHANGED <<route, agreed, backlog, channel, inflight>>
    BY DEF AnswerInv, IndexAlone
  <1>1. GoOn({c}) /\ calls'[c].at = "ok" /\ calls'[c].lsn = calls[c].lsn
    BY <1>0, MovesGoesOn DEF IndexAlone, Stages, Answers
  <1>2. calls[c].lsn \in DOMAIN agreed /\ agreed[calls[c].lsn] = Entry(c) /\ calls[c].lsn \in Nat
    BY <1>0, AskedIs DEF AnswerInv, IndexingWritten
  <1>3. indexed' \in [SubmitNodes -> SUBSET Nat] /\ IndexedInLog'
    BY <1>0, <1>2 DEF IndexAlone, AnswerInv, SubmitTypes, IndexedInLog
  <1>4. \A d \in {c} : Onward(calls[d].at, calls'[d].at)
    BY <1>1, <1>0 DEF Onward
  <1>5. TrailKept
    <2>1. agreed' \o backlog' = Trail /\ Len(agreed) <= Len(agreed')
      BY <1>0 DEF Trail, SubmitTypes
    <2> QED
      BY <2>1, <1>0, LogStays DEF SubmitTypes
  <1>6. Entry(c).key = calls[c].key /\ Entry(c).payload = calls[c].payload
    BY DEF Entry
  <1> QED
    BY <1>0, <1>1, <1>2, <1>3, <1>4, <1>5, <1>6, QueuesStay, GoingOnKeeps DEF SubmitTypes

LEMMA StopAnswers == ASSUME AnswerInv, StopAlone PROVE AnswerInv' /\ CallsForward
  <1> DEFINE S == {c \in SubmitCalls : HoldsLock(c)}
  <1>0. SubmitTypes /\ UNCHANGED <<route, agreed, backlog, indexed, channel, inflight>>
    BY DEF AnswerInv, StopAlone
  <1>1. S \in SUBSET SubmitCalls /\ \A c \in S : calls[c].at # "idle" /\ Onward(calls[c].at, "error")
    BY DEF HoldsLock, Onward
  <1>2. GoOn(S) /\ \A c \in S : calls'[c].at = "error"
    BY <1>0, <1>1, AllMoveGoOn DEF StopAlone, Stages, Answers
  <1> HIDE DEF S
  <1> QED
    BY <1>0, <1>1, <1>2, SameTrail, QueuesStay, GoingOnKeeps DEF SubmitTypes

LEMMA NobodyGoesOn == ASSUME SubmitTypes, UNCHANGED calls PROVE GoOn({})
  BY DEF SubmitTypes, GoOn

LEMMA BootAnswers ==
    ASSUME AnswerInv, leader \in SubmitNodes, NEW w \in 0 .. Len(agreed), BootAlone(w)
    PROVE  AnswerInv' /\ CallsForward
  <1>0. SubmitTypes /\ GoOn({}) /\ UNCHANGED <<route, agreed, backlog, channel, inflight>>
    BY NobodyGoesOn DEF AnswerInv, BootAlone
  <1>1. 1 .. w \subseteq DOMAIN agreed /\ 1 .. w \subseteq Nat
    BY <1>0 DEF SubmitTypes
  <1>2. indexed' \in [SubmitNodes -> SUBSET Nat] /\ IndexedInLog'
    BY <1>0, <1>1 DEF BootAlone, AnswerInv, SubmitTypes, IndexedInLog
  <1>3. TrailKept
    <2>1. agreed' \o backlog' = Trail /\ Len(agreed) <= Len(agreed')
      BY <1>0 DEF Trail, SubmitTypes
    <2> QED
      BY <2>1, <1>0, LogStays DEF SubmitTypes
  <1> QED
    BY <1>0, <1>2, <1>3, QueuesStay, GoingOnKeeps DEF SubmitTypes

LEMMA SubmitAnswers ==
    ASSUME AnswerInv, NEW c \in SubmitCalls, SubmitCluster(c)
    PROVE  AnswerInv' /\ CallsForward
  <1> DEFINE n == calls[c].node
  <1>0. /\ SubmitTypes /\ calls[c].at = "absent" /\ calls[c].at # "idle" /\ route = "cluster"
        /\ UNCHANGED <<route, agreed, backlog, indexed, inflight>> /\ n \in SubmitNodes
    BY AskedIs DEF AnswerInv, SubmitCluster
  <1>1. CASE channel' = [channel EXCEPT ![n] = Append(@, c)] /\ Moves(c, "waiting")
    <2>1. GoOn({c}) /\ calls'[c].at = "waiting"
      BY <1>0, <1>1, MovesGoesOn DEF Stages
    <2>2. channel' \in [SubmitNodes -> Seq(SubmitCalls)]
      BY <1>0, <1>1 DEF SubmitTypes
    <2>3. \A d \in {c} : Onward(calls[d].at, calls'[d].at)
      BY <1>0, <2>1 DEF Onward
    <2>4. \A d \in SubmitCalls : calls[d].at \in {"waiting", "ok", "error"} =>
             calls'[d].at \in {"waiting", "ok", "error"}
      BY <2>1, <2>3 DEF GoOn, Onward
    <2>5. \A m \in SubmitNodes : \A i \in DOMAIN channel'[m] :
             channel'[m][i] = c \/ (i \in DOMAIN channel[m] /\ channel'[m][i] = channel[m][i])
      BY <1>0, <1>1 DEF SubmitTypes
    <2>6. QueuedHanded'
      BY <1>0, <2>1, <2>4, <2>5, QueuedAreCalls DEF AnswerInv, QueuedHanded
    <2>7. NoQueueAlone'
      BY <1>0 DEF NoQueueAlone
    <2> QED
      BY <1>0, <2>1, <2>2, <2>3, <2>6, <2>7, SameTrail, GoingOnKeeps DEF SubmitTypes
  <1>2. CASE Moves(c, "error") /\ UNCHANGED channel
    <2>1. GoOn({c}) /\ calls'[c].at = "error"
      BY <1>0, <1>2, MovesGoesOn DEF Stages, Answers
    <2>3. \A d \in {c} : Onward(calls[d].at, calls'[d].at)
      BY <1>0, <2>1 DEF Onward
    <2> QED
      BY <1>0, <1>2, <2>1, <2>3, SameTrail, QueuesStay, GoingOnKeeps DEF SubmitTypes
  <1> QED
    BY <1>1, <1>2 DEF SubmitCluster

LEMMA PermitAnswers ==
    ASSUME AnswerInv, NEW n \in SubmitNodes, TakePermit(n)
    PROVE  AnswerInv' /\ CallsForward
  <1>0. /\ SubmitTypes /\ GoOn({}) /\ UNCHANGED <<route, agreed, backlog, indexed, calls>>
        /\ channel[n] # << >> /\ channel[n] \in Seq(SubmitCalls)
    BY NobodyGoesOn DEF AnswerInv, TakePermit, SubmitTypes
  <1>1. Head(channel[n]) = channel[n][1] /\ 1 \in DOMAIN channel[n] /\ Head(channel[n]) \in SubmitCalls
        /\ Tail(channel[n]) \in Seq(SubmitCalls)
        /\ \A i \in DOMAIN Tail(channel[n]) :
              i + 1 \in DOMAIN channel[n] /\ Tail(channel[n])[i] = channel[n][i + 1]
    BY <1>0
  <1>2. /\ channel' \in [SubmitNodes -> Seq(SubmitCalls)]
        /\ inflight' \in [SubmitNodes -> SUBSET SubmitCalls]
    BY <1>0, <1>1 DEF TakePermit, SubmitTypes
  <1>3. QueuedHanded'
    <2>1. \A m \in SubmitNodes : \A d \in inflight'[m] : d \in inflight[m] \/ (m = n /\ d = channel[n][1])
      BY <1>0, <1>1 DEF TakePermit, SubmitTypes
    <2>2. \A m \in SubmitNodes : \A i \in DOMAIN channel'[m] :
             \E j \in DOMAIN channel[m] : channel'[m][i] = channel[m][j]
      BY <1>0, <1>1 DEF TakePermit, SubmitTypes
    <2> QED
      BY <1>0, <1>1, <2>1, <2>2 DEF AnswerInv, QueuedHanded
  <1>4. NoQueueAlone'
    BY <1>0 DEF AnswerInv, NoQueueAlone
  <1> QED
    BY <1>0, <1>2, <1>3, <1>4, SameTrail, GoingOnKeeps DEF SubmitTypes

LEMMA ProposeAnswers ==
    ASSUME AnswerInv, NEW n \in SubmitNodes, NEW c \in inflight[n], Propose(n, c)
    PROVE  AnswerInv' /\ CallsForward
  <1>0. /\ SubmitTypes /\ c \in SubmitCalls /\ route # "alone"
        /\ calls[c].at \in {"waiting", "ok", "error"} /\ calls[c].at # "idle"
        /\ UNCHANGED <<route, agreed, indexed, channel>>
    BY QueuedAreCalls DEF AnswerInv, Propose, NoQueueAlone, QueuedHanded
  <1>1. CASE backlog' = Append(backlog, Entry(c)) /\ UNCHANGED <<inflight, calls>>
    <2>1. TrailKept
      BY <1>0, <1>1, LogTakes DEF Handed
    <2>2. GoOn({})
      BY <1>0, <1>1, NobodyGoesOn
    <2> QED
      BY <1>0, <1>1, <2>1, <2>2, MoreLog, QueuesStay, GoingOnKeeps DEF SubmitTypes
  <1>2. CASE /\ inflight' = [inflight EXCEPT ![n] = @ \ {c}]
             /\ IF calls[c].at = "waiting" THEN Moves(c, "error") ELSE UNCHANGED calls
             /\ UNCHANGED backlog
    <2>1. \E S \in SUBSET SubmitCalls :
             GoOn(S) /\ \A d \in S : calls[d].at = "waiting" /\ calls'[d].at = "error"
      <3>1. CASE calls[c].at = "waiting"
        <4>1. GoOn({c}) /\ calls'[c].at = "error"
          BY <1>0, <1>2, <3>1, MovesGoesOn DEF Stages, Answers
        <4> QED
          BY <4>1, <3>1, <1>0
      <3>2. CASE calls[c].at # "waiting"
        BY <1>0, <1>2, <3>2, NobodyGoesOn
      <3> QED
        BY <3>1, <3>2
    <2>2. PICK S \in SUBSET SubmitCalls :
             GoOn(S) /\ \A d \in S : calls[d].at = "waiting" /\ calls'[d].at = "error"
      BY <2>1
    <2>3. \A d \in SubmitCalls : calls[d].at \in {"waiting", "ok", "error"} =>
             calls'[d].at \in {"waiting", "ok", "error"}
      BY <2>2 DEF GoOn
    <2>4. inflight' \in [SubmitNodes -> SUBSET SubmitCalls]
             /\ \A m \in SubmitNodes : inflight'[m] \subseteq inflight[m]
      BY <1>0, <1>2 DEF SubmitTypes
    <2>5. QueuedHanded'
      BY <1>0, <2>3, <2>4, QueuedAreCalls DEF AnswerInv, QueuedHanded
    <2>6. \A d \in S : Onward(calls[d].at, calls'[d].at)
      BY <2>2 DEF Onward
    <2>7. NoQueueAlone'
      BY <1>0 DEF NoQueueAlone
    <2> QED
      BY <1>0, <1>2, <2>2, <2>4, <2>5, <2>6, <2>7, SameTrail, GoingOnKeeps DEF SubmitTypes
  <1> QED
    BY <1>1, <1>2 DEF Propose

LEMMA CommitLog ==
    ASSUME SubmitTypes, CommitEntry
    PROVE  TrailKept /\ Trail' = Trail
  <1>0. agreed \in Seq(Entries) /\ backlog \in Seq(Entries) /\ backlog # << >>
    BY DEF SubmitTypes, CommitEntry
  <1>1. agreed' \in Seq(Entries) /\ backlog' \in Seq(Entries) /\ Len(agreed) <= Len(agreed')
    BY <1>0 DEF CommitEntry
  <1>2. Append(agreed, Head(backlog)) \o Tail(backlog) = agreed \o backlog
    BY <1>0
  <1> QED
    BY <1>1, <1>2, LogStays DEF CommitEntry, Trail

LEMMA CommitAnswers == ASSUME AnswerInv, CommitEntry PROVE AnswerInv' /\ CallsForward
  <1>0. /\ SubmitTypes /\ GoOn({}) /\ TrailKept
        /\ UNCHANGED <<route, indexed, channel, inflight>>
    BY NobodyGoesOn, CommitLog DEF AnswerInv, CommitEntry
  <1>1. route # "alone"
    BY DEF AnswerInv, NoQueueAlone, CommitEntry
  <1> QED
    BY <1>0, <1>1, MoreLog, QueuesStay, GoingOnKeeps DEF SubmitTypes

\* The call whose episode n applies, if it waits there, is answered; nobody else.
LEMMA ApplyCalls ==
    ASSUME AnswerInv, NEW n \in SubmitNodes, NEW lsn \in 1 .. Len(agreed), ApplyEntry(n, lsn)
    PROVE  \E S \in SUBSET SubmitCalls :
              /\ GoOn(S)
              /\ \A c \in S :
                    /\ calls[c].at = "waiting" /\ calls'[c].at = "ok" /\ calls'[c].lsn = lsn
                    /\ agreed[lsn].call = c /\ c \in inflight[n]
  <1> DEFINE c == agreed[lsn].call
  <1>0. SubmitTypes /\ c \in SubmitCalls /\ lsn \in Nat
    <2>1. SubmitTypes
      BY DEF AnswerInv
    <2>2. agreed[lsn] \in Entries /\ lsn \in Nat
      BY <2>1 DEF SubmitTypes
    <2> QED
      BY <2>1, <2>2 DEF Entries
  <1>1. CASE c \in inflight[n] /\ calls[c].at = "waiting"
    <2>1. Told(c, "ok", lsn)
      BY <1>1 DEF ApplyEntry
    <2>2. calls[c].at # "idle" /\ "ok" \in Stages
      BY <1>1 DEF Stages, Answers
    <2> HIDE DEF c
    <2>3. GoOn({c}) /\ calls'[c].at = "ok" /\ calls'[c].lsn = lsn
      BY <1>0, <2>1, <2>2, ToldGoesOn
    <2> QED
      BY <1>0, <1>1, <2>3 DEF c
  <1>2. CASE ~(c \in inflight[n] /\ calls[c].at = "waiting")
    BY <1>0, <1>2, NobodyGoesOn DEF ApplyEntry
  <1> QED
    BY <1>1, <1>2

LEMMA ApplyAnswers ==
    ASSUME AnswerInv, NEW n \in SubmitNodes, NEW lsn \in 1 .. Len(agreed), ApplyEntry(n, lsn)
    PROVE  AnswerInv' /\ CallsForward
  <1>0. /\ SubmitTypes /\ UNCHANGED <<route, agreed, backlog, channel>> /\ route # "alone"
        /\ lsn \in DOMAIN agreed /\ lsn \in Nat
    BY DEF AnswerInv, ApplyEntry, SubmitTypes
  <1>1. PICK S \in SUBSET SubmitCalls :
           /\ GoOn(S)
           /\ \A c \in S :
                 /\ calls[c].at = "waiting" /\ calls'[c].at = "ok" /\ calls'[c].lsn = lsn
                 /\ agreed[lsn].call = c
    BY ApplyCalls
  <1>2. indexed' \in [SubmitNodes -> SUBSET Nat] /\ IndexedInLog'
    BY <1>0 DEF ApplyEntry, AnswerInv, SubmitTypes, IndexedInLog
  <1>3. TrailKept
    <2>1. agreed' \o backlog' = Trail /\ Len(agreed) <= Len(agreed')
      BY <1>0 DEF Trail, SubmitTypes
    <2> QED
      BY <2>1, <1>0, LogStays DEF SubmitTypes
  <1>4. \A c \in SubmitCalls : calls[c].at \in {"waiting", "ok", "error"} =>
           calls'[c].at \in {"waiting", "ok", "error"}
    BY <1>1 DEF GoOn
  <1>5. inflight' \in [SubmitNodes -> SUBSET SubmitCalls]
           /\ \A m \in SubmitNodes : inflight'[m] \subseteq inflight[m]
    BY DEF AnswerInv, SubmitTypes, ApplyEntry
  <1>6. QueuedHanded' /\ NoQueueAlone'
    BY <1>0, <1>4, <1>5, QueuedAreCalls DEF AnswerInv, QueuedHanded, NoQueueAlone
  <1>7. \A c \in S : Onward(calls[c].at, calls'[c].at)
    BY <1>1 DEF Onward
  <1>8. lsn \in DOMAIN Trail /\ Trail[lsn] = agreed[lsn]
    BY <1>0, WholeIs
  <1>9. \A c \in S : agreed[lsn].key = calls[c].key /\ agreed[lsn].payload = calls[c].payload
    BY <1>1, <1>8 DEF AnswerInv, EntriesOfCalls
  <1>10. /\ channel' \in [SubmitNodes -> Seq(SubmitCalls)]
         /\ \A c \in S : calls'[c].at # "indexing"
         /\ \A c \in S : calls'[c].at \in {"ok", "duplicate", "conflict"} =>
              /\ calls'[c].lsn \in DOMAIN agreed'
              /\ agreed'[calls'[c].lsn].key = calls[c].key
              /\ (agreed'[calls'[c].lsn].payload = calls[c].payload) <=> (calls'[c].at # "conflict")
    BY <1>0, <1>1, <1>9 DEF SubmitTypes
  <1> QED
    BY <1>1, <1>2, <1>3, <1>5, <1>6, <1>7, <1>10, GoingOnKeeps

LEMMA TimeoutAnswers ==
    ASSUME AnswerInv, NEW c \in SubmitCalls, SubmitTimesOut(c)
    PROVE  AnswerInv' /\ CallsForward
  <1>0. /\ SubmitTypes /\ calls[c].at = "waiting" /\ calls[c].at # "idle"
        /\ UNCHANGED <<route, agreed, backlog, indexed, channel, inflight>>
    BY DEF AnswerInv, SubmitTimesOut
  <1>1. GoOn({c}) /\ calls'[c].at = "error"
    BY <1>0, MovesGoesOn DEF SubmitTimesOut, Stages, Answers
  <1>2. \A d \in {c} : Onward(calls[d].at, calls'[d].at)
    BY <1>0, <1>1 DEF Onward
  <1> QED
    BY <1>0, <1>1, <1>2, SameTrail, QueuesStay, GoingOnKeeps DEF SubmitTypes

LEMMA ElectLog ==
    ASSUME SubmitTypes, NEW spared \in 0 .. Len(backlog), UNCHANGED agreed,
           backlog' = SubSeq(backlog, 1, spared)
    PROVE  /\ TrailKept
           /\ \A i \in DOMAIN Trail' : i \in DOMAIN Trail /\ Trail'[i] = Trail[i]
  <1>0. agreed \in Seq(Entries) /\ backlog \in Seq(Entries)
    BY DEF SubmitTypes
  <1>1. backlog' \in Seq(Entries) /\ Len(backlog') = spared
           /\ \A i \in 1 .. spared : i \in 1 .. Len(backlog) /\ backlog'[i] = backlog[i]
    BY <1>0
  <1>2. \A i \in DOMAIN Trail' : i \in DOMAIN Trail /\ Trail'[i] = Trail[i]
    <2>1. /\ Trail' = agreed \o backlog' /\ Len(Trail') = Len(agreed) + spared
          /\ Trail' \in Seq(Entries) /\ Trail \in Seq(Entries) /\ Len(Trail) = Len(agreed) + Len(backlog)
      BY <1>0, <1>1 DEF Trail
    <2>0. DOMAIN Trail' = 1 .. Len(agreed) + spared /\ DOMAIN Trail = 1 .. Len(Trail)
      BY <2>1
    <2> SUFFICES ASSUME NEW i \in 1 .. Len(agreed) + spared
                 PROVE  i \in 1 .. Len(Trail) /\ Trail'[i] = Trail[i]
      BY <2>0
    <2>2. Trail'[i] = IF i <= Len(agreed) THEN agreed[i] ELSE backlog'[i - Len(agreed)]
      BY <2>1, <1>0, <1>1, ConcatProperties
    <2>3. Trail[i] = IF i <= Len(agreed) THEN agreed[i] ELSE backlog[i - Len(agreed)]
      BY <1>0, <1>1, ConcatProperties DEF Trail
    <2>4. i > Len(agreed) => i - Len(agreed) \in 1 .. spared
      BY <1>0
    <2> QED
      BY <2>1, <2>2, <2>3, <2>4, <1>0, <1>1
  <1> QED
    BY <1>0, <1>1, <1>2 DEF TrailKept

LEMMA ElectAnswers ==
    ASSUME AnswerInv, leader \in SubmitNodes, NEW n \in SubmitNodes, NEW spared \in 0 .. Len(backlog),
           Elect(n, spared)
    PROVE  AnswerInv' /\ CallsForward
  <1> DEFINE dropped == {c \in inflight[leader] : Proposed(c)}
             S == {c \in dropped : calls[c].at = "waiting"}
  <1>0. /\ SubmitTypes /\ UNCHANGED <<route, agreed, indexed, channel>> /\ route # "alone"
    BY DEF AnswerInv, Elect
  <1>1. S \in SUBSET SubmitCalls /\ \A c \in S : calls[c].at = "waiting" /\ calls[c].at # "idle"
    BY <1>0, QueuedAreCalls
  <1>2. AllMove(S, "error")
    BY DEF Elect
  <1>3. inflight' \in [SubmitNodes -> SUBSET SubmitCalls]
           /\ \A m \in SubmitNodes : inflight'[m] \subseteq inflight[m]
    BY DEF AnswerInv, SubmitTypes, Elect
  <1>4. TrailKept
    BY <1>0, ElectLog DEF Elect
  <1> HIDE DEF S
  <1>5. GoOn(S) /\ \A c \in S : calls'[c].at = "error"
    BY <1>0, <1>1, <1>2, AllMoveGoOn DEF Stages, Answers
  <1>6. \A c \in S : Onward(calls[c].at, calls'[c].at)
    BY <1>1, <1>5 DEF Onward
  <1>7. \A c \in SubmitCalls : calls[c].at \in {"waiting", "ok", "error"} =>
           calls'[c].at \in {"waiting", "ok", "error"}
    BY <1>5 DEF GoOn
  <1>8. QueuedHanded' /\ NoQueueAlone'
    BY <1>0, <1>7, <1>3, QueuedAreCalls DEF AnswerInv, QueuedHanded, NoQueueAlone
  <1> QED
    BY <1>0, <1>1, <1>3, <1>4, <1>5, <1>6, <1>8, MoreLog, GoingOnKeeps DEF SubmitTypes

LEMMA NothingAnswers == ASSUME AnswerInv, UNCHANGED submitVars PROVE AnswerInv' /\ CallsForward
  <1>0. SubmitTypes /\ GoOn({}) /\ UNCHANGED <<route, agreed, backlog, indexed, channel, inflight>>
    BY NobodyGoesOn DEF AnswerInv, submitVars
  <1> QED
    BY <1>0, SameTrail, QueuesStay, GoingOnKeeps DEF SubmitTypes

Placed == route \in SubmitRoutes /\ leader \in SubmitNodes

LEMMA StaysPlaced ==
    ASSUME Placed, [SubmitNext]_submitVars
    PROVE  Placed'
  BY DEF Placed, SubmitNext, submitVars, Arrive, Lookup, AppendAlone, AppendFails, IndexAlone,
         SubmitCluster, SubmitTimesOut, StopAlone, BootAlone, TakePermit, Propose, CommitEntry,
         ApplyEntry, Elect, SubmitDone

LEMMA AnswersStep == ASSUME AnswerInv, Placed, [SubmitNext]_submitVars PROVE AnswerInv' /\ CallsForward
  <1>0. leader \in SubmitNodes
    BY DEF Placed
  <1>1. ASSUME NEW c \in SubmitCalls, NEW n \in SubmitNodes, NEW k \in SubmitKeys,
               NEW p \in Payloads, Arrive(c, n, k, p)
        PROVE  AnswerInv' /\ CallsForward
    BY <1>1, ArriveAnswers
  <1>2. ASSUME NEW c \in SubmitCalls,
               \/ Lookup(c) \/ AppendAlone(c) \/ AppendFails(c) \/ IndexAlone(c)
               \/ SubmitCluster(c) \/ SubmitTimesOut(c)
        PROVE  AnswerInv' /\ CallsForward
    BY <1>0, <1>2, LookupAnswers, AppendAnswers, IndexAnswers, SubmitAnswers, TimeoutAnswers
  <1>3. CASE StopAlone
    BY <1>3, StopAnswers
  <1>4. ASSUME NEW w \in 0 .. Len(agreed), BootAlone(w) PROVE AnswerInv' /\ CallsForward
    BY <1>0, <1>4, BootAnswers
  <1>5. ASSUME NEW n \in SubmitNodes, TakePermit(n) PROVE AnswerInv' /\ CallsForward
    BY <1>5, PermitAnswers
  <1>6. ASSUME NEW n \in SubmitNodes, NEW c \in inflight[n], Propose(n, c) PROVE AnswerInv' /\ CallsForward
    BY <1>6, ProposeAnswers
  <1>7. CASE CommitEntry
    BY <1>7, CommitAnswers
  <1>8. ASSUME NEW n \in SubmitNodes, NEW lsn \in 1 .. Len(agreed), ApplyEntry(n, lsn)
        PROVE  AnswerInv' /\ CallsForward
    BY <1>8, ApplyAnswers
  <1>9. ASSUME NEW n \in SubmitNodes, NEW spared \in 0 .. Len(backlog), Elect(n, spared)
        PROVE  AnswerInv' /\ CallsForward
    BY <1>0, <1>9, ElectAnswers
  <1>10. CASE SubmitDone \/ UNCHANGED submitVars
    BY <1>10, NothingAnswers DEF SubmitDone
  <1> QED
    BY <1>1, <1>2, <1>3, <1>4, <1>5, <1>6, <1>7, <1>8, <1>9, <1>10 DEF SubmitNext

\* What a call is told by append_idempotent stands in the log, alone and in a
\* cluster, whatever times out, fails or is lost with a leader.
THEOREM AnswersHold == SubmitSpec => []AnswersStand
  <1>1. SubmitInit => AnswerInv /\ Placed
    BY InitAnswers DEF SubmitInit, Placed
  <1>2. AnswerInv /\ Placed /\ [SubmitNext]_submitVars => (AnswerInv /\ Placed)'
    BY AnswersStep, StaysPlaced
  <1>3. AnswerInv => AnswersStand
    BY DEF AnswerInv
  <1> QED
    BY <1>1, <1>2, <1>3, PTL DEF SubmitSpec

-----------------------------------------------------------------------------
(* One episode of a key *)

\* The lock of a key at a node
Excluded ==
    \A c, d \in SubmitCalls :
       /\ HoldsLock(c) /\ HoldsLock(d)
       /\ calls[c].node = calls[d].node /\ calls[c].key = calls[d].key
       => c = d

\* A call is in the log once.
OncePerCall == \A i, j \in DOMAIN Trail : Trail[i].call = Trail[j].call => i = j

\* Alone, the index misses only what is being indexed under its lock, so that a
\* call that found nothing appends the first episode of its key.
AloneInv ==
    /\ \A c \in SubmitCalls : calls[c].at # "idle" => calls[c].node = leader
    /\ refuses = "down" \/ partial => \A c \in SubmitCalls : ~HoldsLock(c)
    /\ refuses = "no" /\ ~partial =>
          \A i \in DOMAIN agreed :
             \/ i \in indexed[leader]
             \/ \E c \in SubmitCalls : calls[c].at = "indexing" /\ calls[c].lsn = i
    /\ refuses = "no" =>
          \A c \in SubmitCalls, i \in DOMAIN agreed :
             calls[c].at = "absent" => agreed[i].key # calls[c].key
    /\ \A i, j \in DOMAIN agreed : agreed[i].key = agreed[j].key => i = j

\* The queue and the permits of a node have the calls made at it, and an answered
\* one is in its index.
QueuedHere ==
    \A n \in SubmitNodes :
       /\ \A i \in DOMAIN channel[n] : calls[channel[n][i]].node = n
       /\ \A c \in inflight[n] : calls[c].node = n

AnsweredIndexed ==
    \A c \in SubmitCalls : calls[c].at = "ok" =>
       \E i \in indexed[calls[c].node] : agreed[i].call = c

\* The episodes of the call's key that are not its own were given up.
OthersGaveUp(c) ==
    \A i \in DOMAIN Trail :
       Trail[i].key = calls[c].key /\ Trail[i].call # c => calls[Trail[i].call].at = "error"

\* Under the first leader only its own calls write, and one that found nothing
\* can only meet episodes of calls that gave up.
FirstTerm ==
    /\ \A i \in DOMAIN Trail : calls[Trail[i].call].node = leader
    /\ \A c \in SubmitCalls :
          calls[c].at \in {"absent", "waiting"} /\ calls[c].node = leader => OthersGaveUp(c)
    /\ \A i, j \in DOMAIN Trail :
          Trail[i].key = Trail[j].key /\ Trail[i].call # Trail[j].call =>
             "error" \in {calls[Trail[i].call].at, calls[Trail[j].call].at}

ClusterInv ==
    /\ ~partial /\ refuses = "no" /\ \A c \in SubmitCalls : calls[c].at # "indexing"
    /\ QueuedHere /\ AnsweredIndexed
    /\ occurred.elections = 0 => FirstTerm

KeyInv ==
    /\ occurred \in [elections : Nat, stops : Nat]
    /\ Excluded /\ OncePerCall
    /\ route = "alone" => AloneInv
    /\ route = "cluster" => ClusterInv

LEMMA ForwardKeeps ==
    ASSUME CallsForward, NEW c \in SubmitCalls
    PROVE  /\ calls[c].at # "idle" => /\ calls'[c].at # "idle" /\ calls'[c].node = calls[c].node
                                      /\ calls'[c].key = calls[c].key
           /\ calls[c].at # "idle" /\ HoldsLock(c)' => HoldsLock(c)
           /\ calls[c].at = "error" => calls'[c].at = "error"
           /\ calls[c].at = "ok" => calls'[c].at = "ok"
           /\ calls'[c].at = "absent" => calls[c].at \in {"absent", "locked"}
           /\ calls'[c].at = "waiting" => calls[c].at \in {"absent", "waiting"}
           /\ calls[c].at = "indexing" => calls'[c].at \in {"indexing", "ok", "error"}
  BY DEF CallsForward, Onward, HoldsLock

LEMMA LocksStay ==
    ASSUME Excluded, CallsForward,
           \A c \in SubmitCalls : calls[c].at = "idle" => ~HoldsLock(c)'
    PROVE  Excluded'
  <1>1. \A c \in SubmitCalls : HoldsLock(c)' =>
           HoldsLock(c) /\ calls'[c].node = calls[c].node /\ calls'[c].key = calls[c].key
    BY ForwardKeeps
  <1> QED
    BY <1>1 DEF Excluded

LEMMA LogCalls ==
    ASSUME AnswerInv, NEW i \in DOMAIN Trail
    PROVE  /\ Trail[i] \in Entries /\ Trail[i].call \in SubmitCalls
           /\ calls[Trail[i].call].at \in Handed
           /\ Trail[i].key = calls[Trail[i].call].key
  <1>1. Trail[i] \in Entries
    BY WholeIs DEF AnswerInv
  <1> QED
    BY <1>1 DEF Entries, AnswerInv, EntriesOfCalls

LEMMA OnceTaken ==
    ASSUME AnswerInv, OncePerCall, NEW c \in SubmitCalls, Entry(c) \in Entries,
           Trail' = Append(Trail, Entry(c)), \A i \in DOMAIN Trail : Trail[i].call # c
    PROVE  OncePerCall'
  <1>1. Trail \in Seq(Entries) /\ Entry(c).call = c
    BY WholeIs DEF AnswerInv, Entry
  <1>2. \A i \in DOMAIN Trail' :
           (i \in DOMAIN Trail /\ Trail'[i] = Trail[i]) \/ (i = Len(Trail) + 1 /\ Trail'[i].call = c)
    BY <1>1
  <1> QED
    BY <1>2 DEF OncePerCall

\* A cluster keeps its part while the log and the leader stay.
LEMMA ClusterStays ==
    ASSUME AnswerInv, AnswerInv', ClusterInv, CallsForward, Trail' = Trail,
           UNCHANGED <<leader, partial, refuses>>, occurred'.elections = occurred.elections,
           QueuedHere',
           \A n \in SubmitNodes : indexed[n] \subseteq indexed'[n],
           \A i \in DOMAIN agreed : agreed'[i] = agreed[i],
           \A c \in SubmitCalls : calls'[c].at # "indexing",
           \A c \in SubmitCalls : calls'[c].at = "ok" /\ calls[c].at # "ok" =>
              \E i \in indexed'[calls'[c].node] : agreed'[i].call = c,
           \A c \in SubmitCalls :
              /\ calls'[c].at = "absent" /\ calls[c].at = "locked" /\ calls[c].node = leader
              /\ occurred.elections = 0
              => OthersGaveUp(c)
    PROVE  ClusterInv'
  <1>1. AnsweredIndexed'
    <2> SUFFICES ASSUME NEW c \in SubmitCalls, calls'[c].at = "ok"
                 PROVE  \E i \in indexed'[calls'[c].node] : agreed'[i].call = c
      BY DEF AnsweredIndexed
    <2>1. CASE calls[c].at = "ok"
      <3>1. PICK i \in indexed[calls[c].node] : agreed[i].call = c
        BY <2>1 DEF ClusterInv, AnsweredIndexed
      <3>2. calls'[c].node = calls[c].node /\ calls[c].node \in SubmitNodes
        BY <2>1, ForwardKeeps, AskedIs DEF AnswerInv
      <3>3. i \in indexed'[calls'[c].node] /\ i \in DOMAIN agreed
        BY <3>2 DEF AnswerInv, IndexedInLog
      <3> QED
        BY <3>1, <3>3
    <2> QED
      BY <2>1
  <1>2. ASSUME occurred.elections = 0 PROVE FirstTerm'
    <2>0. FirstTerm
      BY <1>2 DEF ClusterInv
    <2>1. \A i \in DOMAIN Trail :
             /\ Trail[i].call \in SubmitCalls
             /\ calls'[Trail[i].call].node = calls[Trail[i].call].node
             /\ calls[Trail[i].call].at = "error" => calls'[Trail[i].call].at = "error"
      BY LogCalls, ForwardKeeps DEF Handed
    <2>2. \A c \in SubmitCalls :
             calls'[c].at \in {"absent", "waiting"} /\ calls'[c].node = leader =>
                OthersGaveUp(c) /\ calls'[c].key = calls[c].key
      <3> SUFFICES ASSUME NEW c \in SubmitCalls, calls'[c].at \in {"absent", "waiting"},
                          calls'[c].node = leader
                   PROVE  OthersGaveUp(c) /\ calls'[c].key = calls[c].key
        OBVIOUS
      <3>1. calls[c].at \in {"absent", "waiting", "locked"} /\ calls'[c].node = calls[c].node
               /\ calls'[c].key = calls[c].key
        BY ForwardKeeps
      <3>2. calls[c].at = "locked" => calls'[c].at = "absent"
        BY ForwardKeeps
      <3> QED
        BY <3>1, <3>2, <1>2, <2>0 DEF FirstTerm
    <2>3. \A c \in SubmitCalls :
             calls'[c].at \in {"absent", "waiting"} /\ calls'[c].node = leader => OthersGaveUp(c)'
      BY <2>1, <2>2 DEF OthersGaveUp
    <2> QED
      BY <2>0, <2>1, <2>3 DEF FirstTerm
  <1> QED
    BY <1>1, <1>2 DEF ClusterInv

\* A node alone keeps its part while the log, the index and the node stay.
LEMMA AloneStays ==
    ASSUME AnswerInv, AnswerInv', AloneInv, CallsForward,
           UNCHANGED <<agreed, leader, refuses, partial, indexed>>,
           \A c \in SubmitCalls : calls[c].at = "idle" /\ calls'[c].at # "idle" =>
              calls'[c].node = leader /\ (HoldsLock(c)' => refuses # "down" /\ ~partial),
           \A c \in SubmitCalls : calls[c].at = "indexing" => calls'[c] = calls[c],
           \A c \in SubmitCalls : calls'[c].at = "absent" /\ calls[c].at = "locked" /\ refuses = "no" =>
              \A i \in DOMAIN agreed : agreed[i].key # calls[c].key
    PROVE  AloneInv'
  <1>1. \A c \in SubmitCalls : calls'[c].at # "idle" => calls'[c].node = leader
    BY ForwardKeeps DEF AloneInv
  <1>2. refuses = "down" \/ partial => \A c \in SubmitCalls : ~HoldsLock(c)'
    <2> SUFFICES ASSUME refuses = "down" \/ partial, NEW c \in SubmitCalls, HoldsLock(c)'
                 PROVE  FALSE
      OBVIOUS
    <2>1. ~HoldsLock(c)
      BY DEF AloneInv
    <2>2. calls[c].at = "idle"
      BY <2>1, ForwardKeeps
    <2>3. calls'[c].at # "idle"
      BY DEF HoldsLock
    <2> QED
      BY <2>2, <2>3
  <1>3. refuses = "no" =>
          \A c \in SubmitCalls, i \in DOMAIN agreed :
             calls'[c].at = "absent" => agreed[i].key # calls'[c].key
    <2> SUFFICES ASSUME refuses = "no", NEW c \in SubmitCalls, NEW i \in DOMAIN agreed,
                        calls'[c].at = "absent"
                 PROVE  agreed[i].key # calls'[c].key
      OBVIOUS
    <2>1. calls[c].at \in {"absent", "locked"} /\ calls'[c].key = calls[c].key
      BY ForwardKeeps
    <2> QED
      BY <2>1 DEF AloneInv
  <1>4. refuses = "no" /\ ~partial =>
          \A i \in DOMAIN agreed :
             \/ i \in indexed[leader]
             \/ \E c \in SubmitCalls : calls'[c].at = "indexing" /\ calls'[c].lsn = i
    BY DEF AloneInv
  <1> QED
    BY <1>1, <1>2, <1>3, <1>4 DEF AloneInv

LEMMA QueuesHere ==
    ASSUME AnswerInv, QueuedHere, CallsForward, UNCHANGED <<channel, inflight>>
    PROVE  QueuedHere'
  <1>1. \A n \in SubmitNodes :
           /\ \A i \in DOMAIN channel[n] : calls[channel[n][i]].at # "idle" /\ channel[n][i] \in SubmitCalls
           /\ \A c \in inflight[n] : calls[c].at # "idle" /\ c \in SubmitCalls
    BY QueuedAreCalls DEF AnswerInv, QueuedHanded
  <1> QED
    BY <1>1, ForwardKeeps DEF QueuedHere

LEMMA ArriveKeys ==
    ASSUME AnswerInv, AnswerInv', CallsForward, Placed, KeyInv,
           NEW c \in SubmitCalls, NEW n \in SubmitNodes, NEW k \in SubmitKeys,
           NEW p \in Payloads, Arrive(c, n, k, p)
    PROVE  KeyInv'
  <1> DEFINE new == Called(n, k, p, IF partial THEN "error" ELSE "locked", 0)
  <1>0. /\ calls[c].at = "idle" /\ Trail' = Trail
        /\ UNCHANGED <<route, leader, agreed, backlog, indexed, partial, refuses, channel,
                       inflight, occurred>>
    BY DEF Arrive, Trail
  <1>1. /\ new.at = IF partial THEN "error" ELSE "locked"
        /\ new.node = n /\ new.key = k
    BY DEF Called
  <1>2. calls' = [d \in SubmitCalls |-> IF d = c THEN new ELSE calls[d]]
    BY DEF Arrive, AnswerInv, SubmitTypes
  <1>3. calls'[c] = new /\ \A d \in SubmitCalls : d # c => calls'[d] = calls[d]
    BY <1>2
  <1> HIDE DEF new
  <1>4. Excluded'
    <2>1. \A d \in SubmitCalls : d # c => (HoldsLock(d)' <=> HoldsLock(d))
      BY <1>3 DEF HoldsLock
    <2>2. HoldsLock(c)' => \A d \in SubmitCalls :
             HoldsLock(d) => calls[d].node # n \/ calls[d].key # k
      BY <1>1, <1>3 DEF HoldsLock, Arrive, LockFree
    <2> QED
      BY <1>1, <1>3, <2>1, <2>2 DEF Excluded, KeyInv
  <1>5. route = "alone" => AloneInv'
    <2> SUFFICES ASSUME route = "alone" PROVE AloneInv'
      OBVIOUS
    <2>1. n = leader /\ refuses # "down"
      BY DEF Arrive
    <2>2. \A d \in SubmitCalls : calls[d].at = "idle" /\ calls'[d].at # "idle" =>
             calls'[d].node = leader /\ (HoldsLock(d)' => refuses # "down" /\ ~partial)
      BY <1>1, <1>3, <2>1 DEF HoldsLock
    <2>3. \A d \in SubmitCalls : /\ calls[d].at = "indexing" => calls'[d] = calls[d]
                                 /\ ~(calls'[d].at = "absent" /\ calls[d].at = "locked")
      BY <1>0, <1>1, <1>3
    <2> QED
      BY <1>0, <2>2, <2>3, AloneStays DEF KeyInv
  <1>6. route = "cluster" => ClusterInv'
    <2> SUFFICES ASSUME route = "cluster" PROVE ClusterInv'
      OBVIOUS
    <2>1. \A d \in SubmitCalls : /\ calls'[d].at # "indexing"
                                 /\ ~(calls'[d].at = "ok" /\ calls[d].at # "ok")
                                 /\ ~(calls'[d].at = "absent" /\ calls[d].at = "locked")
      BY <1>0, <1>1, <1>3 DEF KeyInv, ClusterInv
    <2> QED
      BY <1>0, <2>1, QueuesHere, ClusterStays DEF KeyInv, ClusterInv
  <1> QED
    BY <1>0, <1>4, <1>5, <1>6 DEF KeyInv, OncePerCall

LEMMA IdlersStay ==
    ASSUME NEW S \in SUBSET SubmitCalls, GoOn(S)
    PROVE  \A c \in SubmitCalls : calls[c].at = "idle" => calls'[c] = calls[c] /\ ~HoldsLock(c)'
  BY DEF GoOn, HoldsLock

\* A call that finds nothing alone: nothing of its key is in the log.
LEMMA AbsentAlone ==
    ASSUME AnswerInv, Excluded, AloneInv, NEW c \in SubmitCalls, calls[c].at = "locked",
           {lsn \in indexed[calls[c].node] : agreed[lsn].key = calls[c].key} = {},
           refuses = "no", NEW i \in DOMAIN agreed
    PROVE  agreed[i].key # calls[c].key
  <1> SUFFICES ASSUME agreed[i].key = calls[c].key PROVE FALSE
    OBVIOUS
  <1>1. calls[c].node = leader /\ HoldsLock(c) /\ ~partial
    BY DEF AloneInv, HoldsLock
  <1>2. i \notin indexed[leader]
    BY <1>1
  <1>3. PICK d \in SubmitCalls : calls[d].at = "indexing" /\ calls[d].lsn = i
    BY <1>1, <1>2 DEF AloneInv
  <1>4. calls[d].key = calls[c].key
    <2>1. agreed[i] = Entry(d)
      BY <1>3 DEF AnswerInv, IndexingWritten
    <2>2. Entry(d).key = calls[d].key
      BY DEF Entry
    <2> QED
      BY <2>1, <2>2
  <1>5. HoldsLock(d) /\ calls[d].node = leader
    BY <1>3 DEF AloneInv, HoldsLock
  <1> QED
    BY <1>1, <1>3, <1>4, <1>5 DEF Excluded

\* A call that finds nothing at the first leader: what is there was given up.
LEMMA AbsentCluster ==
    ASSUME AnswerInv, Excluded, ClusterInv, NEW c \in SubmitCalls, calls[c].at = "locked",
           {lsn \in indexed[calls[c].node] : agreed[lsn].key = calls[c].key} = {},
           calls[c].node = leader, occurred.elections = 0
    PROVE  OthersGaveUp(c)
  <1> SUFFICES ASSUME NEW i \in DOMAIN Trail, Trail[i].key = calls[c].key, Trail[i].call # c
               PROVE  calls[Trail[i].call].at = "error"
    BY DEF OthersGaveUp
  <1> DEFINE d == Trail[i].call
  <1>1. /\ d \in SubmitCalls /\ calls[d].at \in Handed /\ calls[d].key = calls[c].key
        /\ calls[d].node = leader
    BY LogCalls DEF ClusterInv, FirstTerm
  <1> HIDE DEF d
  <1>2. calls[d].at # "indexing"
    BY <1>1 DEF ClusterInv
  <1>3. calls[d].at # "waiting"
    <2>1. calls[d].at = "waiting" => HoldsLock(d) /\ HoldsLock(c)
      BY DEF HoldsLock
    <2> QED
      BY <1>1, <2>1 DEF Excluded, d
  <1>4. calls[d].at # "ok"
    <2> SUFFICES ASSUME calls[d].at = "ok" PROVE FALSE
      OBVIOUS
    <2>1. PICK j \in indexed[leader] : agreed[j].call = d
      BY <1>1 DEF ClusterInv, AnsweredIndexed
    <2>2. j \in DOMAIN agreed
      BY <1>1, AskedIs DEF AnswerInv, IndexedInLog, Handed
    <2>3. j \in DOMAIN Trail /\ Trail[j] = agreed[j]
      BY <2>2, WholeIs DEF AnswerInv
    <2>4. agreed[j].key = calls[d].key
      BY <2>1, <2>3, LogCalls
    <2> QED
      BY <1>1, <2>1, <2>4
  <1> QED
    BY <1>1, <1>2, <1>3, <1>4 DEF Handed, d

LEMMA LookupKeys ==
    ASSUME AnswerInv, AnswerInv', CallsForward, KeyInv, NEW c \in SubmitCalls, Lookup(c)
    PROVE  KeyInv'
  <1> DEFINE found == {lsn \in indexed[calls[c].node] : agreed[lsn].key = calls[c].key}
  <1>0. /\ SubmitTypes /\ calls[c].at = "locked" /\ calls[c].at # "idle" /\ Trail' = Trail
        /\ UNCHANGED <<route, leader, agreed, backlog, indexed, partial, refuses, channel,
                       inflight, occurred>>
    BY DEF AnswerInv, Lookup, Trail
  <1>1. GoOn({c}) /\ \/ found = {} /\ calls'[c].at = "absent"
                     \/ calls'[c].at \in {"duplicate", "conflict"}
    <2>1. CASE found = {}
      <3>1. Moves(c, "absent")
        BY <2>1 DEF Lookup
      <3> QED
        BY <2>1, <3>1, <1>0, MovesGoesOn DEF Stages
    <2>2. CASE found # {}
      <3>1. PICK last \in found : Told(c, IF SamePayload(last, c) THEN "duplicate" ELSE "conflict", last)
        BY <2>2 DEF Lookup
      <3>2. last \in Nat
        BY <1>0, AskedIs DEF SubmitTypes
      <3> HIDE DEF found
      <3> QED
        BY <3>1, <3>2, <1>0, ToldGoesOn DEF Stages, Answers
    <2> QED
      BY <2>1, <2>2
  <1>2. Excluded'
    BY <1>1, IdlersStay, LocksStay DEF KeyInv
  <1>3. \A d \in SubmitCalls : d # c => calls'[d] = calls[d]
    BY <1>1 DEF GoOn
  <1>4. route = "alone" => AloneInv'
    <2> SUFFICES ASSUME route = "alone" PROVE AloneInv'
      OBVIOUS
    <2>1. \A d \in SubmitCalls :
             /\ ~(calls[d].at = "idle" /\ calls'[d].at # "idle")
             /\ calls[d].at = "indexing" => calls'[d] = calls[d]
      BY <1>0, <1>3
    <2>2. \A d \in SubmitCalls : calls'[d].at = "absent" /\ calls[d].at = "locked" /\ refuses = "no" =>
             \A i \in DOMAIN agreed : agreed[i].key # calls[d].key
      BY <1>0, <1>1, <1>3, AbsentAlone DEF KeyInv
    <2> QED
      BY <1>0, <2>1, <2>2, AloneStays DEF KeyInv
  <1>5. route = "cluster" => ClusterInv'
    <2> SUFFICES ASSUME route = "cluster" PROVE ClusterInv'
      OBVIOUS
    <2>1. \A d \in SubmitCalls : calls'[d].at # "indexing" /\ ~(calls'[d].at = "ok" /\ calls[d].at # "ok")
      BY <1>0, <1>1, <1>3 DEF KeyInv, ClusterInv
    <2>2. \A d \in SubmitCalls :
             /\ calls'[d].at = "absent" /\ calls[d].at = "locked" /\ calls[d].node = leader
             /\ occurred.elections = 0
             => OthersGaveUp(d)
      BY <1>0, <1>1, <1>3, AbsentCluster DEF KeyInv
    <2> QED
      BY <1>0, <2>1, <2>2, QueuesHere, ClusterStays DEF KeyInv, ClusterInv
  <1> QED
    BY <1>0, <1>2, <1>4, <1>5 DEF KeyInv, OncePerCall

\* The append alone is the first of its key.
LEMMA AppendKeys ==
    ASSUME AnswerInv, AnswerInv', CallsForward, KeyInv, NEW c \in SubmitCalls,
           AppendAlone(c) \/ AppendFails(c)
    PROVE  KeyInv'
  <1>0. /\ SubmitTypes /\ calls[c].at = "absent" /\ calls[c].at # "idle" /\ route = "alone"
        /\ backlog = << >> /\ AloneInv
        /\ UNCHANGED <<route, leader, backlog, indexed, partial, channel, inflight, occurred>>
    BY DEF AnswerInv, AppendAlone, AppendFails, NoQueueAlone, KeyInv
  <1>1. agreed \in Seq(Entries) /\ Entry(c) \in Entries /\ Entry(c).key = calls[c].key
    BY <1>0, AskedIs DEF SubmitTypes, Entry
  <1>2. HoldsLock(c) /\ calls[c].node = leader /\ refuses # "down" /\ ~partial
    BY <1>0 DEF AloneInv, HoldsLock
  <1>3. /\ GoOn({c})
        /\ \/ agreed' = Append(agreed, Entry(c)) /\ calls'[c].at = "indexing" /\ calls'[c].lsn = Len(agreed) + 1
              /\ refuses = "no" /\ refuses' = "no"
           \/ agreed' = Append(agreed, Entry(c)) /\ calls'[c].at = "error" /\ refuses = "no"
              /\ refuses' = "poisoned"
           \/ agreed' = agreed /\ calls'[c].at = "error" /\ refuses' \in {refuses, "poisoned"}
    <2>1. Len(agreed) + 1 \in Nat /\ {"indexing", "error"} \subseteq Stages
      BY <1>1 DEF Stages, Answers
    <2>2. CASE AppendAlone(c)
      <3>1. CASE refuses = "no"
        BY <1>0, <2>1, <2>2, <3>1, ToldGoesOn DEF AppendAlone
      <3>2. CASE refuses # "no"
        BY <1>0, <2>1, <2>2, <3>2, MovesGoesOn DEF AppendAlone
      <3> QED
        BY <3>1, <3>2
    <2>3. CASE AppendFails(c)
      BY <1>0, <2>1, <2>3, MovesGoesOn DEF AppendFails
    <2> QED
      BY <2>2, <2>3
  <1>4. Excluded'
    BY <1>3, IdlersStay, LocksStay DEF KeyInv
  <1>5. \A d \in SubmitCalls : d # c => calls'[d] = calls[d]
    BY <1>3 DEF GoOn
  <1>6. CASE agreed' = Append(agreed, Entry(c))
    <2>0. refuses = "no"
      BY <1>2, <1>3, <1>6, <1>1
    <2>1. \A i \in DOMAIN Trail : Trail[i].call # c
      BY <1>0 DEF AnswerInv, EntriesOfCalls, Handed
    <2>2. Trail' = Append(Trail, Entry(c))
      <3>1. calls'[c].at \in Handed
        BY <1>3 DEF Handed
      <3> QED
        BY <1>0, <1>6, <3>1, LogTakes
    <2>3. OncePerCall'
      BY <1>1, <2>1, <2>2, OnceTaken DEF KeyInv
    <2>4. \A i \in DOMAIN agreed' :
             (i \in DOMAIN agreed /\ agreed'[i] = agreed[i]) \/ (i = Len(agreed) + 1 /\ agreed'[i] = Entry(c))
      BY <1>1, <1>6
    <2>5. \A i \in DOMAIN agreed : agreed[i].key # calls[c].key
      BY <1>0, <2>0 DEF AloneInv
    <2>6. \A i, j \in DOMAIN agreed' : agreed'[i].key = agreed'[j].key => i = j
      BY <1>0, <1>1, <2>4, <2>5 DEF AloneInv
    <2>7. \A d \in SubmitCalls : calls'[d].at # "idle" => calls'[d].node = leader
      BY <1>0, ForwardKeeps, <1>5 DEF AloneInv
    <2>8. refuses' = "no" =>
             \A i \in DOMAIN agreed' :
                \/ i \in indexed[leader]
                \/ \E d \in SubmitCalls : calls'[d].at = "indexing" /\ calls'[d].lsn = i
      <3> SUFFICES ASSUME refuses' = "no", NEW i \in DOMAIN agreed', i \notin indexed[leader]
                   PROVE  \E d \in SubmitCalls : calls'[d].at = "indexing" /\ calls'[d].lsn = i
        OBVIOUS
      <3>1. CASE i \in DOMAIN agreed
        <4>1. PICK d \in SubmitCalls : calls[d].at = "indexing" /\ calls[d].lsn = i
          BY <1>0, <1>2, <2>0, <3>1 DEF AloneInv
        <4> QED
          BY <4>1, <1>0, <1>5
      <3>2. CASE i = Len(agreed) + 1
        <4>1. calls'[c].at = "indexing" /\ calls'[c].lsn = i
          <5>1. agreed' # agreed
            BY <1>1, <1>6
          <5> QED
            BY <1>3, <3>2, <5>1
        <4> QED
          BY <4>1
      <3> QED
        BY <2>4, <3>1, <3>2
    <2>9. refuses' = "no" =>
             \A d \in SubmitCalls, i \in DOMAIN agreed' :
                calls'[d].at = "absent" => agreed'[i].key # calls'[d].key
      <3> SUFFICES ASSUME NEW d \in SubmitCalls, NEW i \in DOMAIN agreed', calls'[d].at = "absent"
                   PROVE  agreed'[i].key # calls'[d].key
        OBVIOUS
      <3>1. d # c /\ calls'[d] = calls[d]
        BY <1>3, <1>5
      <3>2. CASE i \in DOMAIN agreed /\ agreed'[i] = agreed[i]
        BY <3>1, <3>2, <1>0, <2>0 DEF AloneInv
      <3>3. CASE agreed'[i] = Entry(c)
        <4>1. HoldsLock(d) /\ calls[d].node = leader
          BY <3>1, <1>0 DEF HoldsLock, AloneInv
        <4> QED
          BY <4>1, <3>1, <3>3, <1>1, <1>2 DEF KeyInv, Excluded
      <3> QED
        BY <2>4, <3>2, <3>3
    <2>10. refuses' # "down"
      BY <1>2, <1>3
    <2>11. AloneInv'
      BY <1>0, <1>2, <2>6, <2>7, <2>8, <2>9, <2>10 DEF AloneInv
    <2> QED
      BY <1>0, <1>4, <2>3, <2>11 DEF KeyInv
  <1>7. CASE agreed' = agreed
    <2>0. calls'[c].at = "error" /\ refuses' \in {refuses, "poisoned"}
      <3>1. agreed # Append(agreed, Entry(c))
        BY <1>1
      <3> QED
        BY <1>3, <1>7, <3>1
    <2>1. OncePerCall'
      BY <1>0, <1>7 DEF KeyInv, OncePerCall, Trail
    <2>2. \A d \in SubmitCalls : calls'[d].at # "idle" => calls'[d].node = leader
      BY <1>0, ForwardKeeps, <1>5 DEF AloneInv
    <2>3. \A d \in SubmitCalls : calls'[d].at = "absent" => calls'[d] = calls[d]
      BY <1>5, <2>0
    <2>4. \A d \in SubmitCalls : calls[d].at = "indexing" => calls'[d] = calls[d]
      BY <1>5, <1>0
    <2>5. refuses' = "no" => refuses = "no"
      BY <2>0
    <2>6. refuses' # "down"
      BY <2>0, <1>2
    <2>7. AloneInv'
      BY <1>0, <1>2, <1>7, <2>2, <2>3, <2>4, <2>5, <2>6 DEF AloneInv
    <2> QED
      BY <1>0, <1>4, <2>1, <2>7 DEF KeyInv
  <1> QED
    BY <1>3, <1>6, <1>7

LEMMA IndexKeys ==
    ASSUME AnswerInv, AnswerInv', CallsForward, KeyInv, Placed, SubmitAssumption,
           NEW c \in SubmitCalls, IndexAlone(c)
    PROVE  KeyInv'
  <1>0. /\ SubmitTypes /\ calls[c].at = "indexing" /\ calls[c].at # "idle" /\ Trail' = Trail
        /\ route = "alone" /\ AloneInv /\ leader \in SubmitNodes
        /\ UNCHANGED <<route, leader, agreed, backlog, partial, refuses, channel, inflight, occurred>>
    BY DEF AnswerInv, IndexAlone, KeyInv, ClusterInv, Placed, SubmitAssumption, Trail
  <1>1. GoOn({c}) /\ calls'[c].at = "ok"
    BY <1>0, MovesGoesOn DEF IndexAlone, Stages, Answers
  <1>2. Excluded'
    BY <1>1, IdlersStay, LocksStay DEF KeyInv
  <1>3. \A d \in SubmitCalls : d # c => calls'[d] = calls[d]
    BY <1>1 DEF GoOn
  <1>4. indexed'[leader] = indexed[leader] \cup {calls[c].lsn}
    BY <1>0 DEF IndexAlone, SubmitTypes
  <1>5. \A d \in SubmitCalls :
           /\ calls'[d].at # "idle" => calls'[d].node = leader
           /\ HoldsLock(d)' => HoldsLock(d)
           /\ calls'[d].at = "absent" => calls'[d] = calls[d]
    BY <1>0, <1>1, <1>3, ForwardKeeps DEF AloneInv, HoldsLock
  <1>6. refuses = "no" /\ ~partial =>
           \A i \in DOMAIN agreed :
              \/ i \in indexed'[leader]
              \/ \E d \in SubmitCalls : calls'[d].at = "indexing" /\ calls'[d].lsn = i
    <2> SUFFICES ASSUME refuses = "no", ~partial, NEW i \in DOMAIN agreed, i \notin indexed'[leader]
                 PROVE  \E d \in SubmitCalls : calls'[d].at = "indexing" /\ calls'[d].lsn = i
      OBVIOUS
    <2>1. PICK d \in SubmitCalls : calls[d].at = "indexing" /\ calls[d].lsn = i
      BY <1>0, <1>4 DEF AloneInv
    <2>2. d # c
      BY <1>4, <2>1
    <2> QED
      BY <2>1, <2>2, <1>3
  <1>7. AloneInv'
    BY <1>0, <1>5, <1>6 DEF AloneInv
  <1> QED
    BY <1>0, <1>2, <1>7 DEF KeyInv, OncePerCall

LEMMA StopKeys ==
    ASSUME AnswerInv, AnswerInv', CallsForward, KeyInv, StopAlone
    PROVE  KeyInv'
  <1> DEFINE S == {c \in SubmitCalls : HoldsLock(c)}
  <1>0. /\ SubmitTypes /\ Trail' = Trail /\ route = "alone" /\ AloneInv /\ refuses' = "down"
        /\ UNCHANGED <<route, leader, agreed, backlog, indexed, partial, channel, inflight>>
    BY DEF AnswerInv, StopAlone, KeyInv, Trail
  <1>1. S \in SUBSET SubmitCalls /\ \A c \in S : calls[c].at # "idle"
    BY DEF HoldsLock
  <1>2. AllMove(S, "error")
    BY DEF StopAlone
  <1>3. GoOn(S) /\ \A c \in S : calls'[c].at = "error"
    <2> HIDE DEF S
    <2> QED
      BY <1>0, <1>1, <1>2, AllMoveGoOn DEF Stages, Answers
  <1>4. \A c \in SubmitCalls : ~HoldsLock(c)'
    BY <1>3 DEF GoOn, HoldsLock
  <1>5. \A c \in SubmitCalls : calls'[c].at # "idle" => calls'[c].node = leader
    BY <1>0, <1>3 DEF GoOn, AloneInv
  <1>6. AloneInv'
    BY <1>0, <1>4, <1>5 DEF AloneInv
  <1>7. Excluded' /\ OncePerCall'
    BY <1>0, <1>4 DEF Excluded, OncePerCall, KeyInv
  <1>8. occurred' \in [elections : Nat, stops : Nat]
    BY DEF StopAlone, Counts, KeyInv
  <1> QED
    BY <1>0, <1>6, <1>7, <1>8 DEF KeyInv

LEMMA BootKeys ==
    ASSUME AnswerInv, AnswerInv', CallsForward, KeyInv, Placed, SubmitAssumption,
           NEW w \in 0 .. Len(agreed), BootAlone(w)
    PROVE  KeyInv'
  <1>0. /\ SubmitTypes /\ Trail' = Trail /\ route = "alone" /\ AloneInv /\ leader \in SubmitNodes
        /\ refuses = "down" /\ refuses' = "no" /\ partial' = (w < Len(agreed))
        /\ UNCHANGED <<route, leader, agreed, backlog, channel, inflight, calls, occurred>>
    BY DEF AnswerInv, BootAlone, KeyInv, ClusterInv, Placed, SubmitAssumption, Trail
  <1>1. indexed'[leader] = 1 .. w
    BY <1>0 DEF BootAlone, SubmitTypes
  <1>2. \A c \in SubmitCalls : ~HoldsLock(c)
    BY <1>0 DEF AloneInv
  <1>3. ~partial' => \A i \in DOMAIN agreed : i \in indexed'[leader]
    <2>1. ~partial' => ~(w < Len(agreed))
      BY <1>0, Zenon
    <2>2. ~(w < Len(agreed)) => w = Len(agreed)
      BY <1>0 DEF SubmitTypes
    <2>3. DOMAIN agreed = 1 .. Len(agreed)
      BY <1>0 DEF SubmitTypes
    <2> QED
      BY <1>1, <2>1, <2>2, <2>3
  <1>4. \A c \in SubmitCalls : calls[c].at # "absent"
    BY <1>2 DEF HoldsLock
  <1>5. AloneInv'
    BY <1>0, <1>2, <1>3, <1>4 DEF AloneInv, HoldsLock
  <1>6. Excluded' /\ OncePerCall'
    BY <1>0, <1>2 DEF Excluded, OncePerCall, KeyInv, HoldsLock
  <1> QED
    BY <1>0, <1>5, <1>6 DEF KeyInv

\* A step of a cluster that leaves the log and the leader.
LEMMA ClusterStep ==
    ASSUME AnswerInv, AnswerInv', CallsForward, KeyInv, route = "cluster", Trail' = Trail,
           UNCHANGED <<route, leader, partial, refuses, occurred>>, QueuedHere',
           \A c \in SubmitCalls : calls[c].at = "idle" => ~HoldsLock(c)',
           \A n \in SubmitNodes : indexed[n] \subseteq indexed'[n],
           \A i \in DOMAIN agreed : agreed'[i] = agreed[i],
           \A c \in SubmitCalls : calls'[c] = calls[c] \/ calls'[c].at \in {"waiting", "ok", "error"},
           \A c \in SubmitCalls : calls'[c].at = "ok" /\ calls[c].at # "ok" =>
              \E i \in indexed'[calls'[c].node] : agreed'[i].call = c
    PROVE  KeyInv'
  <1>1. Excluded' /\ OncePerCall'
    BY LocksStay DEF KeyInv, OncePerCall
  <1>2. \A c \in SubmitCalls :
           calls'[c].at # "indexing" /\ ~(calls'[c].at = "absent" /\ calls[c].at = "locked")
    BY DEF KeyInv, ClusterInv
  <1>3. ClusterInv'
    BY <1>2, ClusterStays DEF KeyInv
  <1> QED
    BY <1>1, <1>3 DEF KeyInv

LEMMA QueueKeys ==
    ASSUME AnswerInv, AnswerInv', CallsForward, KeyInv, NEW c \in SubmitCalls, SubmitCluster(c)
    PROVE  KeyInv'
  <1> DEFINE n == calls[c].node
  <1>0. /\ SubmitTypes /\ calls[c].at = "absent" /\ calls[c].at # "idle" /\ Trail' = Trail
        /\ route = "cluster" /\ QueuedHere /\ n \in SubmitNodes
        /\ UNCHANGED <<route, leader, agreed, backlog, indexed, partial, refuses, inflight, occurred>>
    BY AskedIs DEF AnswerInv, SubmitCluster, KeyInv, ClusterInv, Trail
  <1>1. GoOn({c}) /\ calls'[c].at \in {"waiting", "error"}
    BY <1>0, MovesGoesOn DEF SubmitCluster, Stages, Answers
  <1>2. \A d \in SubmitCalls : d # c => calls'[d] = calls[d]
    BY <1>1 DEF GoOn
  <1>3. calls'[c].node = n
    BY <1>1 DEF GoOn
  <1>4. \A m \in SubmitNodes : \A i \in DOMAIN channel'[m] :
           (channel'[m][i] = c /\ m = n) \/ (i \in DOMAIN channel[m] /\ channel'[m][i] = channel[m][i])
    <2>1. CASE channel' = [channel EXCEPT ![n] = Append(@, c)]
      BY <1>0, <2>1 DEF SubmitTypes
    <2>2. CASE channel' = channel
      BY <2>2
    <2> QED
      BY <2>1, <2>2 DEF SubmitCluster
  <1>5. \A d \in SubmitCalls : calls[d].node = calls'[d].node
    BY <1>2, <1>3
  <1>6. QueuedHere'
    BY <1>0, <1>3, <1>4, <1>5, QueuedAreCalls DEF QueuedHere
  <1> QED
    BY <1>0, <1>1, <1>2, <1>6, IdlersStay, ClusterStep

LEMMA PermitKeys ==
    ASSUME AnswerInv, AnswerInv', CallsForward, KeyInv, Placed, SubmitAssumption,
           NEW n \in SubmitNodes, TakePermit(n)
    PROVE  KeyInv'
  <1>0. /\ SubmitTypes /\ Trail' = Trail /\ route = "cluster" /\ QueuedHere
        /\ channel[n] # << >> /\ channel[n] \in Seq(SubmitCalls)
        /\ UNCHANGED <<route, leader, agreed, backlog, indexed, partial, refuses, calls, occurred>>
    BY DEF AnswerInv, TakePermit, KeyInv, ClusterInv, NoQueueAlone, Placed, SubmitAssumption,
           Trail, SubmitTypes
  <1>1. Head(channel[n]) = channel[n][1] /\ 1 \in DOMAIN channel[n]
        /\ \A i \in DOMAIN Tail(channel[n]) :
              i + 1 \in DOMAIN channel[n] /\ Tail(channel[n])[i] = channel[n][i + 1]
    BY <1>0
  <1>2. \A m \in SubmitNodes : \A d \in inflight'[m] : d \in inflight[m] \/ (m = n /\ d = channel[n][1])
    BY <1>0, <1>1 DEF TakePermit, SubmitTypes
  <1>3. \A m \in SubmitNodes : \A i \in DOMAIN channel'[m] :
           \E j \in DOMAIN channel[m] : channel'[m][i] = channel[m][j]
    BY <1>0, <1>1 DEF TakePermit, SubmitTypes
  <1>4. QueuedHere'
    BY <1>0, <1>1, <1>2, <1>3 DEF QueuedHere
  <1>5. \A c \in SubmitCalls : calls[c].at = "idle" => ~HoldsLock(c)'
    BY <1>0 DEF HoldsLock
  <1> QED
    BY <1>0, <1>4, <1>5, ClusterStep

LEMMA CommitKeys ==
    ASSUME AnswerInv, AnswerInv', CallsForward, KeyInv, Placed, SubmitAssumption, CommitEntry
    PROVE  KeyInv'
  <1>0. /\ SubmitTypes /\ Trail' = Trail /\ route = "cluster" /\ QueuedHere
        /\ UNCHANGED <<route, leader, indexed, partial, refuses, channel, inflight, calls, occurred>>
    BY CommitLog DEF AnswerInv, CommitEntry, KeyInv, ClusterInv, NoQueueAlone, Placed, SubmitAssumption
  <1>1. \A i \in DOMAIN agreed : agreed'[i] = agreed[i]
    BY <1>0, CommitLog DEF TrailKept
  <1>2. \A c \in SubmitCalls : calls[c].at = "idle" => ~HoldsLock(c)'
    BY <1>0 DEF HoldsLock
  <1> QED
    BY <1>0, <1>1, <1>2, QueuesHere, ClusterStep

LEMMA TimeoutKeys ==
    ASSUME AnswerInv, AnswerInv', CallsForward, KeyInv, Placed, SubmitAssumption,
           NEW c \in SubmitCalls, SubmitTimesOut(c)
    PROVE  KeyInv'
  <1>0. /\ SubmitTypes /\ calls[c].at = "waiting" /\ calls[c].at # "idle" /\ Trail' = Trail
        /\ UNCHANGED <<route, leader, agreed, backlog, indexed, partial, refuses, channel,
                       inflight, occurred>>
    BY DEF AnswerInv, SubmitTimesOut, Trail
  <1>1. GoOn({c}) /\ calls'[c].at = "error"
    BY <1>0, MovesGoesOn DEF SubmitTimesOut, Stages, Answers
  <1>2. \A d \in SubmitCalls : d # c => calls'[d] = calls[d]
    BY <1>1 DEF GoOn
  <1>3. \A d \in SubmitCalls : calls[d].at = "idle" => ~HoldsLock(d)'
    BY <1>1, IdlersStay
  <1>4. CASE route = "cluster"
    BY <1>0, <1>1, <1>2, <1>3, <1>4, QueuesHere, ClusterStep DEF KeyInv, ClusterInv
  <1>5. CASE route = "alone"
    <2>1. \A d \in SubmitCalls :
             /\ ~(calls[d].at = "idle" /\ calls'[d].at # "idle")
             /\ calls[d].at = "indexing" => calls'[d] = calls[d]
             /\ ~(calls'[d].at = "absent" /\ calls[d].at = "locked")
      BY <1>0, <1>1, <1>2
    <2>2. AloneInv'
      BY <1>0, <1>5, <2>1, AloneStays DEF KeyInv
    <2> QED
      BY <1>0, <1>3, <1>5, <2>2, LocksStay DEF KeyInv, OncePerCall
  <1> QED
    BY <1>4, <1>5 DEF Placed, SubmitAssumption

LEMMA ApplyKeys ==
    ASSUME AnswerInv, AnswerInv', CallsForward, KeyInv,
           NEW n \in SubmitNodes, NEW lsn \in 1 .. Len(agreed), ApplyEntry(n, lsn)
    PROVE  KeyInv'
  <1>0. /\ SubmitTypes /\ Trail' = Trail /\ route = "cluster" /\ QueuedHere /\ lsn \in Nat
        /\ UNCHANGED <<route, leader, agreed, backlog, partial, refuses, channel, occurred>>
    BY DEF AnswerInv, ApplyEntry, KeyInv, ClusterInv, Trail, SubmitTypes
  <1>1. PICK S \in SUBSET SubmitCalls :
           /\ GoOn(S)
           /\ \A c \in S :
                 /\ calls[c].at = "waiting" /\ calls'[c].at = "ok" /\ calls'[c].lsn = lsn
                 /\ agreed[lsn].call = c /\ c \in inflight[n]
    BY ApplyCalls
  <1>2. \A c \in SubmitCalls : calls[c].at = "idle" => ~HoldsLock(c)'
    BY <1>1, IdlersStay
  <1>3. \A c \in SubmitCalls : calls'[c] = calls[c] \/ calls'[c].at = "ok"
    BY <1>1 DEF GoOn
  <1>4. /\ indexed'[n] = indexed[n] \cup {lsn}
        /\ \A m \in SubmitNodes : indexed[m] \subseteq indexed'[m]
        /\ \A m \in SubmitNodes : inflight'[m] \subseteq inflight[m]
    BY <1>0 DEF ApplyEntry, SubmitTypes
  <1>5. \A c \in SubmitCalls : calls'[c].at = "ok" /\ calls[c].at # "ok" =>
           \E i \in indexed'[calls'[c].node] : agreed'[i].call = c
    <2> SUFFICES ASSUME NEW c \in SubmitCalls, calls'[c].at = "ok", calls[c].at # "ok"
                 PROVE  \E i \in indexed'[calls'[c].node] : agreed'[i].call = c
      OBVIOUS
    <2>1. c \in S
      BY <1>1 DEF GoOn
    <2>2. calls'[c].node = n
      BY <1>0, <1>1, <2>1 DEF GoOn, QueuedHere
    <2> QED
      BY <1>0, <1>1, <1>4, <2>1, <2>2
  <1>6. QueuedHere'
    <2>1. \A m \in SubmitNodes :
             /\ \A i \in DOMAIN channel[m] : channel[m][i] \in SubmitCalls
             /\ \A c \in inflight[m] : c \in SubmitCalls
      BY <1>0, QueuedAreCalls
    <2>2. \A c \in SubmitCalls : calls'[c].node = calls[c].node
      BY <1>1 DEF GoOn
    <2> QED
      BY <1>0, <1>4, <2>1, <2>2 DEF QueuedHere
  <1> QED
    BY <1>0, <1>2, <1>3, <1>4, <1>5, <1>6, ClusterStep

\* The leader takes the proposal of a call that found nothing.
LEMMA ProposeKeys ==
    ASSUME AnswerInv, AnswerInv', CallsForward, KeyInv, Placed, SubmitAssumption,
           NEW n \in SubmitNodes, NEW c \in inflight[n], Propose(n, c)
    PROVE  KeyInv'
  <1>0. /\ SubmitTypes /\ c \in SubmitCalls /\ route = "cluster" /\ ClusterInv
        /\ calls[c].at \in {"waiting", "ok", "error"} /\ calls[c].at # "idle" /\ calls[c].node = n
        /\ UNCHANGED <<route, leader, agreed, indexed, partial, refuses, channel, occurred>>
    BY QueuedAreCalls DEF AnswerInv, Propose, NoQueueAlone, QueuedHanded, KeyInv, ClusterInv,
                          QueuedHere, Placed, SubmitAssumption
  <1>1. CASE n # leader
    <2>0. /\ inflight' = [inflight EXCEPT ![n] = @ \ {c}] /\ UNCHANGED backlog
          /\ IF calls[c].at = "waiting" THEN Moves(c, "error") ELSE UNCHANGED calls
      BY <1>1 DEF Propose
    <2>1. \E S \in SUBSET SubmitCalls : GoOn(S) /\ \A d \in S : calls'[d].at = "error"
      <3>1. CASE calls[c].at = "waiting"
        <4>1. GoOn({c}) /\ calls'[c].at = "error"
          BY <1>0, <2>0, <3>1, MovesGoesOn DEF Stages, Answers
        <4> QED
          BY <4>1, <1>0
      <3>2. CASE calls[c].at # "waiting"
        BY <1>0, <2>0, <3>2, NobodyGoesOn
      <3> QED
        BY <3>1, <3>2
    <2>2. PICK S \in SUBSET SubmitCalls : GoOn(S) /\ \A d \in S : calls'[d].at = "error"
      BY <2>1
    <2>3. \A d \in SubmitCalls : calls[d].at = "idle" => ~HoldsLock(d)'
      BY <2>2, IdlersStay
    <2>4. \A d \in SubmitCalls :
             (calls'[d] = calls[d] \/ calls'[d].at = "error") /\ calls'[d].node = calls[d].node
      BY <2>2 DEF GoOn
    <2>5. QueuedHere'
      <3>1. \A m \in SubmitNodes :
               /\ \A i \in DOMAIN channel[m] : channel[m][i] \in SubmitCalls
               /\ \A d \in inflight'[m] : d \in inflight[m] /\ d \in SubmitCalls
        BY <1>0, <2>0, QueuedAreCalls DEF SubmitTypes
      <3> QED
        BY <1>0, <2>4, <3>1 DEF QueuedHere, ClusterInv
    <2>6. Trail' = Trail
      BY <1>0, <2>0 DEF Trail
    <2> QED
      BY <1>0, <2>3, <2>4, <2>5, <2>6, ClusterStep
  <1>2. CASE n = leader
    <2>0. backlog' = Append(backlog, Entry(c)) /\ UNCHANGED <<inflight, calls>> /\ ~Proposed(c)
      BY <1>2 DEF Propose
    <2>1. Trail' = Append(Trail, Entry(c))
      BY <1>0, <2>0, LogTakes DEF Handed
    <2>2. /\ Entry(c) \in Entries /\ Entry(c).call = c /\ Entry(c).key = calls[c].key
          /\ Trail \in Seq(Entries)
      BY <1>0, AskedIs, WholeIs DEF Entry
    <2>3. \A i \in DOMAIN Trail : Trail[i].call # c
      <3> SUFFICES ASSUME NEW i \in DOMAIN Trail PROVE Trail[i].call # c
        OBVIOUS
      <3>0. agreed \in Seq(Entries) /\ backlog \in Seq(Entries)
        BY <1>0 DEF SubmitTypes
      <3>1. i \in 1 .. Len(agreed) + Len(backlog)
        BY <3>0 DEF Trail
      <3>2. CASE i <= Len(agreed)
        <4>1. i \in DOMAIN agreed /\ Trail[i] = agreed[i]
          BY <3>0, <3>1, <3>2, ConcatProperties DEF Trail
        <4> QED
          BY <4>1, <2>0 DEF Proposed
      <3>3. CASE i > Len(agreed)
        <4>1. i - Len(agreed) \in DOMAIN backlog /\ Trail[i] = backlog[i - Len(agreed)]
          BY <3>0, <3>1, <3>3, ConcatProperties DEF Trail
        <4> QED
          BY <4>1, <2>0 DEF Proposed
      <3>4. Len(agreed) \in Nat /\ i \in Int
        BY <3>0, <3>1
      <3> QED
        BY <3>2, <3>3, <3>4
    <2>4. OncePerCall'
      <3>1. OncePerCall
        BY DEF KeyInv
      <3> QED
        BY <1>0, <2>1, <2>2, <2>3, <3>1, OnceTaken
    <2>5. \A i \in DOMAIN Trail' :
             (i \in DOMAIN Trail /\ Trail'[i] = Trail[i]) \/ (i = Len(Trail) + 1 /\ Trail'[i] = Entry(c))
      BY <2>1, <2>2
    <2>6. calls[c].at # "ok"
      <3> SUFFICES ASSUME calls[c].at = "ok" PROVE FALSE
        OBVIOUS
      <3>1. PICK i \in indexed[n] : agreed[i].call = c
        BY <1>0 DEF ClusterInv, AnsweredIndexed
      <3>2. i \in DOMAIN agreed
        BY DEF AnswerInv, IndexedInLog
      <3> QED
        BY <2>0, <3>1, <3>2 DEF Proposed
    <2>7. ASSUME occurred.elections = 0 PROVE FirstTerm'
      <3>0. FirstTerm
        BY <1>0, <2>7 DEF ClusterInv
      \* An episode of the key, other than the one proposed, was given up, or
      \* the call that proposes was.
      <3>1. \A i \in DOMAIN Trail : Trail[i].key = calls[c].key =>
               calls[c].at = "error" \/ calls[Trail[i].call].at = "error"
        BY <1>0, <1>2, <2>3, <2>6, <3>0 DEF FirstTerm, OthersGaveUp
      <3>2. \A i \in DOMAIN Trail' : calls[Trail'[i].call].node = leader
        BY <1>0, <1>2, <2>2, <2>5, <3>0 DEF FirstTerm
      <3>3. \A d \in SubmitCalls :
               calls[d].at \in {"absent", "waiting"} /\ calls[d].node = leader => OthersGaveUp(d)'
        <4> SUFFICES ASSUME NEW d \in SubmitCalls, calls[d].at \in {"absent", "waiting"},
                            calls[d].node = leader, NEW i \in DOMAIN Trail',
                            Trail'[i].key = calls[d].key, Trail'[i].call # d
                     PROVE  calls[Trail'[i].call].at = "error"
          BY <2>0 DEF OthersGaveUp
        <4>1. CASE i \in DOMAIN Trail /\ Trail'[i] = Trail[i]
          BY <4>1, <3>0 DEF FirstTerm, OthersGaveUp
        <4>2. CASE Trail'[i] = Entry(c)
          <5>1. calls[c].at = "waiting" => HoldsLock(c)
            BY DEF HoldsLock
          <5>2. HoldsLock(d)
            BY DEF HoldsLock
          <5> QED
            BY <4>2, <5>1, <5>2, <1>0, <1>2, <2>2, <2>6 DEF KeyInv, Excluded
        <4> QED
          BY <2>5, <4>1, <4>2
      <3>4. \A i, j \in DOMAIN Trail' :
               Trail'[i].key = Trail'[j].key /\ Trail'[i].call # Trail'[j].call =>
                  "error" \in {calls[Trail'[i].call].at, calls[Trail'[j].call].at}
        <4> SUFFICES ASSUME NEW i \in DOMAIN Trail', NEW j \in DOMAIN Trail',
                            Trail'[i].key = Trail'[j].key, Trail'[i].call # Trail'[j].call
                     PROVE  "error" \in {calls[Trail'[i].call].at, calls[Trail'[j].call].at}
          OBVIOUS
        <4>1. CASE i \in DOMAIN Trail /\ Trail'[i] = Trail[i] /\ j \in DOMAIN Trail /\ Trail'[j] = Trail[j]
          BY <4>1, <3>0 DEF FirstTerm
        <4>2. CASE i \in DOMAIN Trail /\ Trail'[i] = Trail[i] /\ Trail'[j] = Entry(c)
          BY <4>2, <3>1, <2>2
        <4>3. CASE j \in DOMAIN Trail /\ Trail'[j] = Trail[j] /\ Trail'[i] = Entry(c)
          BY <4>3, <3>1, <2>2
        <4> QED
          BY <2>5, <4>1, <4>2, <4>3
      <3> QED
        BY <1>0, <2>0, <3>2, <3>3, <3>4 DEF FirstTerm, OthersGaveUp
    <2>8. ClusterInv'
      BY <1>0, <2>0, <2>7 DEF ClusterInv, QueuedHere, AnsweredIndexed
    <2>9. Excluded'
      BY <2>0 DEF KeyInv, Excluded, HoldsLock
    <2> QED
      BY <1>0, <2>4, <2>8, <2>9 DEF KeyInv
  <1> QED
    BY <1>1, <1>2

LEMMA ElectKeys ==
    ASSUME AnswerInv, AnswerInv', CallsForward, KeyInv, Placed,
           NEW n \in SubmitNodes, NEW spared \in 0 .. Len(backlog), Elect(n, spared)
    PROVE  KeyInv'
  <1> DEFINE dropped == {c \in inflight[leader] : Proposed(c)}
             S == {c \in dropped : calls[c].at = "waiting"}
  <1>0. /\ SubmitTypes /\ route = "cluster" /\ ClusterInv /\ leader \in SubmitNodes
        /\ UNCHANGED <<route, agreed, indexed, partial, refuses, channel>>
    BY DEF AnswerInv, Elect, KeyInv, Placed
  <1>1. S \in SUBSET SubmitCalls /\ \A c \in S : calls[c].at # "idle"
    BY <1>0, QueuedAreCalls
  <1>2. AllMove(S, "error")
    BY DEF Elect
  <1>3. \A m \in SubmitNodes : inflight'[m] \subseteq inflight[m]
    BY <1>0 DEF SubmitTypes, Elect
  <1>4. \A i \in DOMAIN Trail' : i \in DOMAIN Trail /\ Trail'[i] = Trail[i]
    BY <1>0, ElectLog DEF Elect
  <1> HIDE DEF S
  <1>5. GoOn(S) /\ \A c \in S : calls'[c].at = "error"
    BY <1>0, <1>1, <1>2, AllMoveGoOn DEF Stages, Answers
  <1>6. \A c \in SubmitCalls :
           (calls'[c] = calls[c] \/ calls'[c].at = "error") /\ calls'[c].node = calls[c].node
    BY <1>5 DEF GoOn
  <1>7. Excluded'
    BY <1>1, <1>5, IdlersStay, LocksStay DEF KeyInv
  <1>8. OncePerCall'
    BY <1>4 DEF KeyInv, OncePerCall
  <1>9. QueuedHere'
    <2>1. \A m \in SubmitNodes :
             /\ \A i \in DOMAIN channel[m] : channel[m][i] \in SubmitCalls
             /\ \A d \in inflight'[m] : d \in inflight[m] /\ d \in SubmitCalls
      BY <1>0, <1>3, QueuedAreCalls
    <2> QED
      BY <1>0, <1>6, <2>1 DEF QueuedHere, ClusterInv
  <1>10. AnsweredIndexed'
    BY <1>0, <1>6 DEF ClusterInv, AnsweredIndexed
  <1>11. occurred' \in [elections : Nat, stops : Nat] /\ occurred'.elections # 0
    BY DEF Elect, Counts, KeyInv
  <1>12. \A c \in SubmitCalls : calls'[c].at # "indexing"
    BY <1>0, <1>6 DEF ClusterInv
  <1>13. ClusterInv'
    BY <1>0, <1>9, <1>10, <1>11, <1>12 DEF ClusterInv
  <1> QED
    BY <1>0, <1>7, <1>8, <1>11, <1>13 DEF KeyInv

LEMMA InitKeys == ASSUME SubmitInit PROVE KeyInv
  <1>1. /\ agreed = << >> /\ DOMAIN agreed = {} /\ refuses = "no" /\ partial = FALSE
        /\ \A c \in SubmitCalls : calls[c].at = "idle"
        /\ \A n \in SubmitNodes : channel[n] = << >> /\ DOMAIN channel[n] = {} /\ inflight[n] = {}
        /\ occurred \in [elections : Nat, stops : Nat]
    BY DEF SubmitInit
  <1>2. DOMAIN Trail = {}
    BY DEF SubmitInit, Trail
  <1>3. Excluded /\ OncePerCall
    BY <1>1, <1>2 DEF Excluded, OncePerCall, HoldsLock
  <1>4. AloneInv
    BY <1>1 DEF AloneInv, HoldsLock
  <1>5. ClusterInv
    BY <1>1, <1>2 DEF ClusterInv, QueuedHere, AnsweredIndexed, FirstTerm, OthersGaveUp
  <1> QED
    BY <1>1, <1>3, <1>4, <1>5 DEF KeyInv

LEMMA NothingKeys == ASSUME KeyInv, UNCHANGED submitVars PROVE KeyInv'
  <1>1. /\ UNCHANGED <<route, leader, agreed, backlog, indexed, partial, refuses, channel, inflight,
                       calls, occurred>>
        /\ Trail' = Trail
    BY DEF submitVars, Trail
  <1>2. Excluded' /\ OncePerCall'
    BY <1>1 DEF KeyInv, Excluded, OncePerCall, HoldsLock
  <1>3. AloneInv => AloneInv'
    BY <1>1 DEF AloneInv, HoldsLock
  <1>4. ClusterInv => ClusterInv'
    BY <1>1 DEF ClusterInv, QueuedHere, AnsweredIndexed, FirstTerm, OthersGaveUp
  <1> QED
    BY <1>1, <1>2, <1>3, <1>4 DEF KeyInv

LEMMA KeysStep ==
    ASSUME SubmitAssumption, Placed, AnswerInv, AnswerInv', CallsForward, KeyInv,
           [SubmitNext]_submitVars
    PROVE  KeyInv'
  <1>1. ASSUME NEW c \in SubmitCalls, NEW n \in SubmitNodes, NEW k \in SubmitKeys,
               NEW p \in Payloads, Arrive(c, n, k, p)
        PROVE  KeyInv'
    BY <1>1, ArriveKeys
  <1>2. ASSUME NEW c \in SubmitCalls,
               \/ Lookup(c) \/ AppendAlone(c) \/ AppendFails(c) \/ IndexAlone(c)
               \/ SubmitCluster(c) \/ SubmitTimesOut(c)
        PROVE  KeyInv'
    BY <1>2, LookupKeys, AppendKeys, IndexKeys, QueueKeys, TimeoutKeys
  <1>3. CASE StopAlone
    BY <1>3, StopKeys
  <1>4. ASSUME NEW w \in 0 .. Len(agreed), BootAlone(w) PROVE KeyInv'
    BY <1>4, BootKeys
  <1>5. ASSUME NEW n \in SubmitNodes, TakePermit(n) PROVE KeyInv'
    BY <1>5, PermitKeys
  <1>6. ASSUME NEW n \in SubmitNodes, NEW c \in inflight[n], Propose(n, c) PROVE KeyInv'
    BY <1>6, ProposeKeys
  <1>7. CASE CommitEntry
    BY <1>7, CommitKeys
  <1>8. ASSUME NEW n \in SubmitNodes, NEW lsn \in 1 .. Len(agreed), ApplyEntry(n, lsn)
        PROVE  KeyInv'
    BY <1>8, ApplyKeys
  <1>9. ASSUME NEW n \in SubmitNodes, NEW spared \in 0 .. Len(backlog), Elect(n, spared)
        PROVE  KeyInv'
    BY <1>9, ElectKeys
  <1>10. CASE SubmitDone \/ UNCHANGED submitVars
    BY <1>10, NothingKeys DEF SubmitDone
  <1> QED
    BY <1>1, <1>2, <1>3, <1>4, <1>5, <1>6, <1>7, <1>8, <1>9, <1>10 DEF SubmitNext

LEMMA KeyedOnceFollows ==
    ASSUME SubmitAssumption, Placed, AnswerInv, KeyInv
    PROVE  KeyedOnceUnlessInDoubt
  <1> SUFFICES ASSUME NEW i \in DOMAIN agreed, NEW j \in DOMAIN agreed, i # j,
                      agreed[i].key = agreed[j].key
               PROVE  /\ route = "cluster"
                      /\ \/ occurred.elections > 0
                         \/ \E l \in {i, j} : calls[agreed[l].call].at = "error"
    BY DEF KeyedOnceUnlessInDoubt
  <1>1. route = "cluster"
    BY DEF KeyInv, AloneInv, Placed, SubmitAssumption
  <1>2. /\ i \in DOMAIN Trail /\ Trail[i] = agreed[i]
        /\ j \in DOMAIN Trail /\ Trail[j] = agreed[j]
    BY WholeIs DEF AnswerInv
  <1>3. agreed[i].call # agreed[j].call
    BY <1>2 DEF KeyInv, OncePerCall
  <1>4. occurred.elections > 0 \/ occurred.elections = 0
    BY DEF KeyInv
  <1>5. CASE occurred.elections = 0
    BY <1>1, <1>2, <1>3, <1>5 DEF KeyInv, ClusterInv, FirstTerm
  <1> QED
    BY <1>1, <1>4, <1>5

\* append_idempotent on a node alone never writes a key twice, however appends
\* fail and the node restarts; a cluster only after a change of leader or for a
\* call that gave up.
THEOREM KeysOnce == SubmitSpec => []KeyedOnceUnlessInDoubt
  <1> DEFINE Inv == AnswerInv /\ Placed /\ KeyInv
  <1>1. SubmitInit => Inv
    BY InitAnswers, InitKeys DEF SubmitInit, Placed
  <1>2. Inv /\ [SubmitNext]_submitVars => Inv'
    BY SubmitAssumption, AnswersStep, StaysPlaced, KeysStep
  <1>3. Inv => KeyedOnceUnlessInDoubt
    BY SubmitAssumption, KeyedOnceFollows
  <1> HIDE DEF Inv
  <1> QED
    BY <1>1, <1>2, <1>3, PTL DEF SubmitSpec

-----------------------------------------------------------------------------
(* Types, the queue and the permits *)

LsnsInLog == \A c \in SubmitCalls : calls[c].at # "idle" => calls[c].lsn \in 0 .. Len(agreed)

QueueBounded == \A n \in SubmitNodes : Len(channel[n]) <= SUBMIT_QUEUE
PermitsBounded == \A n \in SubmitNodes : Cardinality(inflight[n]) <= SUBMIT_INFLIGHT

SubmitBounds ==
    /\ refuses \in {"no", "poisoned", "down"} /\ partial \in BOOLEAN
    /\ \A c \in SubmitCalls : calls[c].at = "idle" => calls[c] = [at |-> "idle"]
    /\ LsnsInLog /\ QueueBounded /\ PermitsBounded

\* A call keeps its LSN or is given one of the log, which only grows.
LsnOnward ==
    /\ Len(agreed) \in Nat /\ Len(agreed') \in Nat /\ Len(agreed) <= Len(agreed')
    /\ \A c \in SubmitCalls :
          \/ calls'[c] = calls[c]
          \/ /\ calls'[c].at # "idle"
             /\ \/ calls'[c].lsn \in 0 .. Len(agreed')
                \/ calls[c].at # "idle" /\ calls'[c].lsn = calls[c].lsn

LEMMA LsnsStay ==
    ASSUME LsnsInLog, LsnOnward PROVE LsnsInLog'
  BY DEF LsnsInLog, LsnOnward

LEMMA IdlersKnown ==
    ASSUME LsnOnward, \A c \in SubmitCalls : calls[c].at = "idle" => calls[c] = [at |-> "idle"]
    PROVE  \A c \in SubmitCalls : calls'[c].at = "idle" => calls'[c] = [at |-> "idle"]
  BY DEF LsnOnward

LogLonger == Len(agreed) \in Nat /\ Len(agreed') \in Nat /\ Len(agreed) <= Len(agreed')

LEMMA NobodyOnward == ASSUME LogLonger, UNCHANGED calls PROVE LsnOnward
  BY DEF LogLonger, LsnOnward

LEMMA ToldOnward ==
    ASSUME LogLonger, SubmitTypes, NEW c \in SubmitCalls, calls[c].at # "idle",
           NEW at \in Stages, NEW lsn \in 0 .. Len(agreed'), Told(c, at, lsn)
    PROVE  LsnOnward
  <1>0. lsn \in Nat
    BY DEF LogLonger
  <1>1. GoOn({c}) /\ calls'[c].at = at /\ calls'[c].lsn = lsn
    BY <1>0, ToldGoesOn
  <1> QED
    BY <1>1 DEF LogLonger, LsnOnward, GoOn, Stages, Answers

LEMMA AllMoveOnward ==
    ASSUME LogLonger, SubmitTypes, NEW S \in SUBSET SubmitCalls, \A c \in S : calls[c].at # "idle",
           NEW at \in Stages, AllMove(S, at)
    PROVE  LsnOnward
  <1>1. GoOn(S) /\ \A c \in S : calls'[c].at = at /\ calls'[c].lsn = calls[c].lsn
    BY AllMoveGoOn
  <1> QED
    BY <1>1 DEF LogLonger, LsnOnward, GoOn, Stages, Answers

LEMMA MovesOnward ==
    ASSUME LogLonger, SubmitTypes, NEW c \in SubmitCalls, calls[c].at # "idle",
           NEW at \in Stages, Moves(c, at)
    PROVE  LsnOnward
  <1>1. GoOn({c}) /\ calls'[c].at = at /\ calls'[c].lsn = calls[c].lsn
    BY MovesGoesOn
  <1> QED
    BY <1>1 DEF LogLonger, LsnOnward, GoOn, Stages, Answers

\* A step that touches neither queue nor permits
QueuesLeft == UNCHANGED <<channel, inflight>>

LEMMA BoundsKept ==
    ASSUME SubmitBounds, LsnOnward, QueueBounded', PermitsBounded',
           refuses' \in {"no", "poisoned", "down"}, partial' \in BOOLEAN
    PROVE  SubmitBounds'
  BY LsnsStay, IdlersKnown DEF SubmitBounds

LEMMA PlainKept ==
    ASSUME SubmitBounds, LsnOnward, QueuesLeft,
           refuses' \in {"no", "poisoned", "down"}, partial' \in BOOLEAN
    PROVE  SubmitBounds'
  <1>1. QueueBounded' /\ PermitsBounded'
    BY DEF SubmitBounds, QueuesLeft, QueueBounded, PermitsBounded
  <1> QED
    BY <1>1, BoundsKept

LEMMA LogSame == ASSUME SubmitTypes, agreed' = agreed PROVE LogLonger
  BY DEF SubmitTypes, LogLonger

LEMMA LogAppended == ASSUME SubmitTypes, NEW e \in Entries, agreed' = Append(agreed, e)
                     PROVE  LogLonger /\ Len(agreed') = Len(agreed) + 1
  BY DEF SubmitTypes, LogLonger

LEMMA CallBounds ==
    ASSUME AnswerInv, SubmitBounds, NEW c \in SubmitCalls,
           \/ \E n \in SubmitNodes, k \in SubmitKeys, p \in Payloads : Arrive(c, n, k, p)
           \/ Lookup(c) \/ AppendAlone(c) \/ AppendFails(c) \/ IndexAlone(c) \/ SubmitTimesOut(c)
    PROVE  SubmitBounds'
  <1>0. /\ SubmitTypes /\ IndexedInLog /\ refuses \in {"no", "poisoned", "down"} /\ partial \in BOOLEAN
        /\ {"absent", "error", "duplicate", "conflict", "indexing", "ok"} \subseteq Stages
    BY DEF AnswerInv, SubmitBounds, Stages, Answers
  <1>1. ASSUME NEW n, NEW k, NEW p, Arrive(c, n, k, p) PROVE SubmitBounds'
    <2>1. agreed' = agreed /\ QueuesLeft /\ UNCHANGED <<refuses, partial>>
      BY <1>1 DEF Arrive, QueuesLeft
    <2>2. \A d \in SubmitCalls :
             \/ calls'[d] = calls[d]
             \/ calls'[d].at \in {"error", "locked"} /\ calls'[d].lsn = 0
      <3>1. PICK told \in {"error", "locked"} :
               calls' = [calls EXCEPT ![c] = Called(n, k, p, told, 0)]
        BY <1>1 DEF Arrive
      <3>2. Called(n, k, p, told, 0).at = told /\ Called(n, k, p, told, 0).lsn = 0
        BY DEF Called
      <3> QED
        BY <1>0, <3>1, <3>2 DEF SubmitTypes
    <2>3. LsnOnward
      BY <1>0, <2>1, <2>2, LogSame DEF LsnOnward, LogLonger
    <2> QED
      BY <1>0, <2>1, <2>3, PlainKept
  <1>2. CASE Lookup(c)
    <2>1. agreed' = agreed /\ QueuesLeft /\ calls[c].at # "idle" /\ UNCHANGED <<refuses, partial>>
      BY <1>2 DEF Lookup, QueuesLeft
    <2>2. \/ Moves(c, "absent")
          \/ \E last \in indexed[calls[c].node], at \in {"duplicate", "conflict"} : Told(c, at, last)
      BY <1>2 DEF Lookup
    <2>3. LogLonger
      BY <1>0, <2>1, LogSame
    <2>4. ASSUME NEW last \in indexed[calls[c].node], NEW at \in {"duplicate", "conflict"}, Told(c, at, last)
          PROVE  LsnOnward
      <3>1. calls[c].node \in SubmitNodes
        BY <1>0, <2>1, AskedIs
      <3>2. last \in 0 .. Len(agreed')
        BY <1>0, <2>1, <3>1 DEF IndexedInLog, SubmitTypes
      <3>3. at \in Stages
        BY <1>0
      <3> QED
        BY <1>0, <2>1, <2>3, <2>4, <3>2, <3>3, ToldOnward
    <2>5. LsnOnward
      BY <1>0, <2>1, <2>2, <2>3, <2>4, MovesOnward
    <2> QED
      BY <1>0, <2>1, <2>5, PlainKept
  <1>3. CASE AppendAlone(c)
    <2>1. QueuesLeft /\ calls[c].at # "idle" /\ UNCHANGED <<refuses, partial>>
      BY <1>3 DEF AppendAlone, QueuesLeft
    <2>2. \/ agreed' = Append(agreed, Entry(c)) /\ Told(c, "indexing", Len(agreed) + 1)
          \/ agreed' = agreed /\ Moves(c, "error")
      BY <1>3 DEF AppendAlone
    <2>3. CASE agreed' = Append(agreed, Entry(c)) /\ Told(c, "indexing", Len(agreed) + 1)
      <3>1. LogLonger /\ Len(agreed') = Len(agreed) + 1
        BY <1>0, <2>1, <2>3, AskedIs, LogAppended
      <3>2. Len(agreed) + 1 \in 0 .. Len(agreed')
        BY <3>1 DEF LogLonger
      <3> QED
        BY <1>0, <2>1, <2>3, <3>1, <3>2, ToldOnward, PlainKept
    <2>4. CASE agreed' = agreed /\ Moves(c, "error")
      BY <1>0, <2>1, <2>4, LogSame, MovesOnward, PlainKept
    <2> QED
      BY <2>2, <2>3, <2>4
  <1>4. CASE AppendFails(c)
    <2>1. /\ QueuesLeft /\ calls[c].at # "idle" /\ partial' = partial /\ refuses' = "poisoned"
          /\ Moves(c, "error")
          /\ agreed' = Append(agreed, Entry(c)) \/ agreed' = agreed
      BY <1>4 DEF AppendFails, QueuesLeft
    <2>2. LogLonger
      BY <1>0, <2>1, AskedIs, LogAppended, LogSame
    <2> QED
      BY <1>0, <2>1, <2>2, MovesOnward, PlainKept
  <1>5. CASE IndexAlone(c)
    <2>1. /\ QueuesLeft /\ calls[c].at # "idle" /\ UNCHANGED <<refuses, partial, agreed>>
          /\ Moves(c, "ok")
      BY <1>5 DEF IndexAlone, QueuesLeft
    <2> QED
      BY <1>0, <2>1, LogSame, MovesOnward, PlainKept
  <1>6. CASE SubmitTimesOut(c)
    <2>1. /\ QueuesLeft /\ calls[c].at # "idle" /\ UNCHANGED <<refuses, partial, agreed>>
          /\ Moves(c, "error")
      BY <1>6 DEF SubmitTimesOut, QueuesLeft
    <2> QED
      BY <1>0, <2>1, LogSame, MovesOnward, PlainKept
  <1> QED
    BY <1>1, <1>2, <1>3, <1>4, <1>5, <1>6

\* try_send refuses what does not fit.
LEMMA SendBounds ==
    ASSUME AnswerInv, SubmitBounds, NEW c \in SubmitCalls, SubmitCluster(c), SubmitAssumption
    PROVE  SubmitBounds'
  <1>0. /\ SubmitTypes /\ calls[c].at # "idle" /\ agreed' = agreed
        /\ UNCHANGED <<refuses, partial, inflight>>
        /\ {"waiting", "error"} \subseteq Stages
    BY DEF AnswerInv, SubmitCluster, Stages, Answers
  <1> DEFINE n == calls[c].node
  <1>1. n \in SubmitNodes
    BY <1>0, AskedIs
  <1>2. \/ /\ Len(channel[n]) < SUBMIT_QUEUE
           /\ channel' = [channel EXCEPT ![n] = Append(channel[n], c)] /\ Moves(c, "waiting")
        \/ channel' = channel /\ Moves(c, "error")
    BY DEF SubmitCluster
  <1> HIDE DEF n
  <1>3. LsnOnward
    BY <1>0, <1>2, LogSame, MovesOnward
  <1>4. PermitsBounded'
    BY <1>0 DEF SubmitBounds, PermitsBounded
  <1>5. QueueBounded'
    <2>1. CASE channel' = channel
      BY <2>1 DEF SubmitBounds, QueueBounded
    <2>2. CASE Len(channel[n]) < SUBMIT_QUEUE /\ channel' = [channel EXCEPT ![n] = Append(channel[n], c)]
      <3>1. channel[n] \in Seq(SubmitCalls) /\ SUBMIT_QUEUE \in Nat
        BY <1>0, <1>1 DEF SubmitTypes, SubmitAssumption
      <3>2. Len(Append(channel[n], c)) <= SUBMIT_QUEUE
        BY <2>2, <3>1
      <3>3. \A m \in SubmitNodes : channel'[m] = IF m = n THEN Append(channel[n], c) ELSE channel[m]
        BY <1>0, <1>1, <2>2 DEF SubmitTypes
      <3> QED
        BY <3>2, <3>3 DEF SubmitBounds, QueueBounded
    <2> QED
      BY <1>2, <2>1, <2>2
  <1> QED
    BY <1>0, <1>3, <1>4, <1>5, BoundsKept DEF SubmitBounds

\* Fewer submissions hold a permit.
LEMMA FewerPermits ==
    ASSUME SubmitAssumption, SubmitTypes, PermitsBounded,
           \A n \in SubmitNodes : inflight'[n] \subseteq inflight[n]
    PROVE  PermitsBounded'
  <1> SUFFICES ASSUME NEW n \in SubmitNodes PROVE Cardinality(inflight'[n]) <= SUBMIT_INFLIGHT
    BY DEF PermitsBounded
  <1>1. PICK A : A = inflight[n]
    OBVIOUS
  <1>2. PICK B : B = inflight'[n]
    OBVIOUS
  <1>3. A \subseteq SubmitCalls /\ B \subseteq A /\ IsFiniteSet(SubmitCalls) /\ SUBMIT_INFLIGHT \in Nat
    BY <1>1, <1>2 DEF SubmitTypes, SubmitAssumption
  <1>4. IsFiniteSet(A) /\ IsFiniteSet(B) /\ Cardinality(B) <= Cardinality(A)
    BY <1>3, FS_Subset
  <1>5. Cardinality(A) \in Nat /\ Cardinality(B) \in Nat
    BY <1>4, FS_CardinalityType
  <1>6. Cardinality(A) <= SUBMIT_INFLIGHT
    BY <1>1 DEF PermitsBounded
  <1> QED
    BY <1>2, <1>3, <1>4, <1>5, <1>6

LEMMA PermitBounds ==
    ASSUME AnswerInv, SubmitBounds, NEW n \in SubmitNodes, TakePermit(n), SubmitAssumption
    PROVE  SubmitBounds'
  <1>0. /\ SubmitTypes /\ agreed' = agreed /\ UNCHANGED <<refuses, partial, calls>>
        /\ channel[n] \in Seq(SubmitCalls) /\ channel[n] # << >>
    BY DEF AnswerInv, TakePermit, SubmitTypes
  <1>1. LsnOnward
    BY <1>0, LogSame, NobodyOnward
  <1>2. QueueBounded'
    <2>1. Len(Tail(channel[n])) = Len(channel[n]) - 1 /\ Len(channel[n]) \in Nat
      BY <1>0
    <2>2. \A m \in SubmitNodes : channel'[m] = IF m = n THEN Tail(channel[n]) ELSE channel[m]
      BY <1>0 DEF SubmitTypes, TakePermit
    <2>3. Len(channel[n]) <= SUBMIT_QUEUE /\ SUBMIT_QUEUE \in Nat
      BY DEF SubmitBounds, QueueBounded, SubmitAssumption
    <2>4. Len(Tail(channel[n])) <= SUBMIT_QUEUE
      BY <2>1, <2>3
    <2> QED
      BY <2>2, <2>4 DEF SubmitBounds, QueueBounded
  <1>3. PermitsBounded'
    <2>1. PICK c : c = Head(channel[n])
      OBVIOUS
    <2>2. PICK A : A = inflight[n]
      OBVIOUS
    <2>3. \A m \in SubmitNodes : inflight'[m] = IF m = n THEN A \cup {c} ELSE inflight[m]
      BY <1>0, <2>1, <2>2 DEF SubmitTypes, TakePermit
    <2>4. Cardinality(A) < SUBMIT_INFLIGHT /\ SUBMIT_INFLIGHT \in Nat
      BY <2>2 DEF TakePermit, PermitFree, SubmitAssumption
    <2>5. IsFiniteSet(A)
      BY <1>0, <2>2, FS_Subset DEF SubmitTypes, SubmitAssumption
    <2>6. /\ Cardinality(A) \in Nat
          /\ Cardinality(A \cup {c}) = Cardinality(A) \/ Cardinality(A \cup {c}) = Cardinality(A) + 1
      BY <2>5, FS_CardinalityType, FS_AddElement
    <2>7. Cardinality(A \cup {c}) <= SUBMIT_INFLIGHT
      BY <2>4, <2>6
    <2> QED
      BY <2>3, <2>7 DEF SubmitBounds, PermitsBounded
  <1> QED
    BY <1>0, <1>1, <1>2, <1>3, BoundsKept DEF SubmitBounds

\* A proposal, an entry applied or a change of leader returns permits.
LEMMA ReturnBounds ==
    ASSUME AnswerInv, SubmitBounds, SubmitAssumption, Placed,
           \/ \E n \in SubmitNodes : \E c \in inflight[n] : Propose(n, c)
           \/ \E n \in SubmitNodes : \E lsn \in 1 .. Len(agreed) : ApplyEntry(n, lsn)
           \/ \E n \in SubmitNodes : \E spared : Elect(n, spared)
    PROVE  SubmitBounds'
  <1>0. /\ SubmitTypes /\ QueueBounded /\ PermitsBounded /\ {"ok", "error"} \subseteq Stages
        /\ refuses \in {"no", "poisoned", "down"} /\ partial \in BOOLEAN /\ leader \in SubmitNodes
    BY DEF AnswerInv, SubmitBounds, Stages, Answers, Placed
  <1>1. ASSUME agreed' = agreed, UNCHANGED <<refuses, partial, channel>>, LsnOnward,
               \A n \in SubmitNodes : inflight'[n] \subseteq inflight[n]
        PROVE  SubmitBounds'
    BY <1>0, <1>1, FewerPermits, BoundsKept DEF QueueBounded
  <1>2. ASSUME NEW n \in SubmitNodes, NEW c \in inflight[n], Propose(n, c) PROVE SubmitBounds'
    <2>1. /\ agreed' = agreed /\ UNCHANGED <<refuses, partial, channel>>
          /\ inflight' = inflight \/ inflight' = [inflight EXCEPT ![n] = @ \ {c}]
          /\ UNCHANGED calls \/ (calls[c].at = "waiting" /\ Moves(c, "error"))
      BY <1>2 DEF Propose
    <2>2. c \in SubmitCalls /\ \A m \in SubmitNodes : inflight'[m] \subseteq inflight[m]
      BY <1>0, <2>1 DEF SubmitTypes
    <2>3. LsnOnward
      BY <1>0, <2>1, <2>2, LogSame, NobodyOnward, MovesOnward
    <2> QED
      BY <1>1, <2>1, <2>2, <2>3
  <1>3. ASSUME NEW n \in SubmitNodes, NEW lsn \in 1 .. Len(agreed), ApplyEntry(n, lsn) PROVE SubmitBounds'
    <2>1. PICK c : c = agreed[lsn].call
      OBVIOUS
    <2>2. /\ agreed' = agreed /\ UNCHANGED <<refuses, partial, channel>>
          /\ inflight' = [inflight EXCEPT ![n] = @ \ {c}]
          /\ UNCHANGED calls \/ (calls[c].at = "waiting" /\ Told(c, "ok", lsn))
      BY <1>3, <2>1 DEF ApplyEntry
    <2>3. c \in SubmitCalls /\ \A m \in SubmitNodes : inflight'[m] \subseteq inflight[m]
      <3>1. agreed[lsn] \in Entries
        BY <1>0 DEF SubmitTypes
      <3> QED
        BY <1>0, <2>1, <2>2, <3>1 DEF SubmitTypes, Entries
    <2>4. lsn \in 0 .. Len(agreed') /\ LogLonger
      BY <1>0, <2>2, LogSame DEF LogLonger
    <2>5. LsnOnward
      BY <1>0, <2>2, <2>3, <2>4, NobodyOnward, ToldOnward
    <2> QED
      BY <1>1, <2>2, <2>3, <2>5
  <1>4. ASSUME NEW n \in SubmitNodes, NEW spared, Elect(n, spared) PROVE SubmitBounds'
    <2>1. PICK dropped \in SUBSET SubmitCalls :
             /\ inflight' = [inflight EXCEPT ![leader] = @ \ dropped]
             /\ AllMove({c \in dropped : calls[c].at = "waiting"}, "error")
      BY <1>0, <1>4 DEF Elect, SubmitTypes
    <2>2. agreed' = agreed /\ UNCHANGED <<refuses, partial, channel>>
      BY <1>4 DEF Elect
    <2>3. \A m \in SubmitNodes : inflight'[m] \subseteq inflight[m]
      BY <1>0, <2>1 DEF SubmitTypes
    <2>4. LsnOnward
      BY <1>0, <2>1, <2>2, LogSame, AllMoveOnward
    <2> QED
      BY <1>1, <2>2, <2>3, <2>4
  <1> QED
    BY <1>2, <1>3, <1>4

LEMMA BoundsStep ==
    ASSUME SubmitAssumption, AnswerInv, Placed, SubmitBounds, [SubmitNext]_submitVars
    PROVE  SubmitBounds'
  <1>0. /\ SubmitTypes /\ {"error"} \subseteq Stages
        /\ refuses \in {"no", "poisoned", "down"} /\ partial \in BOOLEAN
    BY DEF AnswerInv, SubmitBounds, Stages, Answers
  <1>1. CASE StopAlone
    <2>1. /\ agreed' = agreed /\ QueuesLeft /\ partial' = partial /\ refuses' = "down"
          /\ AllMove({c \in SubmitCalls : HoldsLock(c)}, "error")
      BY <1>1 DEF StopAlone, QueuesLeft
    <2>2. \A c \in {d \in SubmitCalls : HoldsLock(d)} : calls[c].at # "idle"
      BY DEF HoldsLock
    <2> QED
      BY <1>0, <2>1, <2>2, LogSame, AllMoveOnward, PlainKept
  <1>2. ASSUME NEW w, BootAlone(w) PROVE SubmitBounds'
    <2>1. /\ agreed' = agreed /\ QueuesLeft /\ partial' \in BOOLEAN /\ refuses' = "no" /\ UNCHANGED calls
      BY <1>2 DEF BootAlone, QueuesLeft
    <2> QED
      BY <1>0, <2>1, LogSame, NobodyOnward, PlainKept
  <1>3. CASE CommitEntry
    <2>1. /\ agreed' = Append(agreed, Head(backlog)) /\ QueuesLeft
          /\ UNCHANGED <<calls, partial, refuses>> /\ Head(backlog) \in Entries
      BY <1>0, <1>3 DEF CommitEntry, QueuesLeft, SubmitTypes
    <2> QED
      BY <1>0, <2>1, LogAppended, NobodyOnward, PlainKept
  <1>4. CASE SubmitDone \/ UNCHANGED submitVars
    <2>1. agreed' = agreed /\ QueuesLeft /\ UNCHANGED <<calls, partial, refuses>>
      BY <1>4 DEF SubmitDone, submitVars, QueuesLeft
    <2> QED
      BY <1>0, <2>1, LogSame, NobodyOnward, PlainKept
  <1> QED
    BY <1>1, <1>2, <1>3, <1>4, CallBounds, SendBounds, PermitBounds, ReturnBounds DEF SubmitNext

LEMMA BoundsInit == ASSUME SubmitAssumption, SubmitInit PROVE SubmitBounds
  <1>1. LsnsInLog /\ \A c \in SubmitCalls : calls[c].at = "idle" => calls[c] = [at |-> "idle"]
    BY DEF SubmitInit, LsnsInLog
  <1>2. QueueBounded /\ PermitsBounded
    BY FS_EmptySet DEF SubmitInit, QueueBounded, PermitsBounded, SubmitAssumption
  <1> QED
    BY <1>1, <1>2 DEF SubmitInit, SubmitBounds

\* The log is no longer than there are calls: each is in it once.
LEMMA LogFitsCalls ==
    ASSUME SubmitAssumption, AnswerInv, OncePerCall
    PROVE  /\ Cardinality(SubmitCalls) \in Nat /\ Len(agreed) \in Nat
           /\ Len(agreed) <= Cardinality(SubmitCalls)
  <1>1. /\ IsFiniteSet(SubmitCalls) /\ Cardinality(SubmitCalls) \in Nat /\ Len(agreed) \in Nat
        /\ DOMAIN agreed = 1 .. Len(agreed)
    BY FS_CardinalityType DEF SubmitAssumption, AnswerInv, SubmitTypes
  <1>2. PICK D : D = DOMAIN agreed
    OBVIOUS
  <1>3. IsFiniteSet(D) /\ Cardinality(D) = Len(agreed)
    <2>1. PICK n \in Nat : n = Len(agreed)
      BY <1>1
    <2>2. IsFiniteSet(1 .. n) /\ Cardinality(1 .. n) = IF 1 > n THEN 0 ELSE n - 1 + 1
      <3>1. 1 \in Int /\ n \in Int
        OBVIOUS
      <3> QED
        BY ONLY <3>1, FS_Interval
    <2>3. Cardinality(1 .. n) = n
      BY <2>2
    <2> QED
      BY <1>1, <1>2, <2>1, <2>2, <2>3
  <1>4. PICK f : f = [i \in D |-> agreed[i].call]
    OBVIOUS
  <1>5. f \in Injection(D, SubmitCalls)
    <2>0. \A i \in D : i \in DOMAIN Trail /\ Trail[i] = agreed[i]
      BY <1>2, WholeIs DEF AnswerInv
    <2>1. \A i \in D : i \in DOMAIN Trail /\ Trail[i] = agreed[i] /\ agreed[i].call \in SubmitCalls
      BY <2>0, LogCalls
    <2>2. f \in [D -> SubmitCalls]
      BY <1>4, <2>1
    <2>3. \A i, j \in D : f[i] = f[j] => i = j
      BY <1>4, <2>1 DEF OncePerCall
    <2> QED
      BY <2>2, <2>3 DEF Injection, IsInjective
  <1>6. Cardinality(D) <= Cardinality(SubmitCalls)
    BY <1>1, <1>3, <1>5, FS_Injection
  <1> QED
    BY <1>1, <1>3, <1>6

LEMMA SubmitTyped ==
    ASSUME SubmitAssumption, Placed, AnswerInv, KeyInv, SubmitBounds PROVE SubmitTypeOK
  <1>0. /\ SubmitTypes /\ IndexedInLog /\ LsnsInLog
        /\ Cardinality(SubmitCalls) \in Nat /\ Len(agreed) \in Nat /\ Len(agreed) <= Cardinality(SubmitCalls)
    BY LogFitsCalls DEF AnswerInv, KeyInv, SubmitBounds
  <1>1. ASSUME NEW c \in SubmitCalls PROVE calls[c] \in CallStates
    <2>1. CASE calls[c].at = "idle"
      BY <2>1 DEF SubmitBounds, CallStates
    <2>2. CASE calls[c].at # "idle"
      <3>1. calls[c] \in Asked /\ calls[c].lsn \in 0 .. Cardinality(SubmitCalls)
        BY <1>0, <2>2 DEF SubmitTypes, LsnsInLog
      <3> QED
        BY <3>1 DEF Asked, Stages, CallStates
    <2> QED
      BY <2>1, <2>2
  <1>2. calls \in [SubmitCalls -> CallStates]
    BY <1>0, <1>1 DEF SubmitTypes
  <1>3. \A n \in SubmitNodes :
           /\ indexed[n] \subseteq DOMAIN agreed /\ Len(channel[n]) <= SUBMIT_QUEUE
           /\ inflight[n] \subseteq SubmitCalls /\ Cardinality(inflight[n]) <= SUBMIT_INFLIGHT
    BY <1>0 DEF IndexedInLog, SubmitBounds, QueueBounded, PermitsBounded, SubmitTypes
  <1> QED
    BY <1>2, <1>3 DEF SubmitTypeOK, Placed, SubmitBounds

(***************************************************************************)
(* Types, and the limits of the submission path: no queue and no number of *)
(* permits exceeds its limit, and every LSN given out is one of the log.   *)
(***************************************************************************)
THEOREM SubmissionsBounded == SubmitSpec => []SubmitTypeOK
  <1> DEFINE Inv == AnswerInv /\ Placed /\ KeyInv /\ SubmitBounds
  <1>1. SubmitInit => Inv
    BY SubmitAssumption, InitAnswers, InitKeys, BoundsInit DEF SubmitInit, Placed
  <1>2. Inv /\ [SubmitNext]_submitVars => Inv'
    BY SubmitAssumption, AnswersStep, StaysPlaced, KeysStep, BoundsStep
  <1>3. Inv => SubmitTypeOK
    BY SubmitAssumption, SubmitTyped
  <1> HIDE DEF Inv
  <1> QED
    BY <1>1, <1>2, <1>3, PTL DEF SubmitSpec

-----------------------------------------------------------------------------
(* Tool calls that need an approval *)

RecordStates == {"none", "pending", "granted", "denied", "expired", "consumed"}
Places == {"idle", "recorded", "absent", "authorized", "cleared"}
Calls(places) == [at : places, subject : Subjects, now : Nat, id : Nat]
ApprovalRecords == [state : RecordStates, subject : Subjects, expires : Nat]
Asks == [subject : Subjects, expires : Nat, boot : Nat]

GateTypes ==
    /\ now \in Nat /\ drawn \in Nat
    /\ records \in [Ids -> ApprovalRecords]
    /\ attempts \in [Handlers -> Calls(Places)]
    /\ asked \in [Ids -> Asks]
    /\ granted \subseteq Ids
    /\ executed \in Seq(Calls({"sent"}))
    /\ happened \in [faults : Nat, stops : Nat]

\* The call may go upstream in enforce, or is about to be on record.
AtHand(a) == attempts[a].at = "authorized" \/ (attempts[a].at = "cleared" /\ Enforces)

Own(e) == e.id \in granted /\ asked[e.id].subject = e.subject /\ e.now < asked[e.id].expires

\* No attempt can take the approval any more.
Taken(i) == records[i].state \notin {"pending", "granted"}

RecordsAsAsked ==
    \A i \in Ids :
       /\ i \in granted => i <= drawn
       /\ records[i].state # "none" =>
             i <= drawn /\ records[i].subject = asked[i].subject /\ records[i].expires = asked[i].expires
       /\ records[i].state = "granted" => i \in granted

AbsentFresh ==
    \A a \in Handlers : attempts[a].at = "absent" =>
       /\ attempts[a].id \in Ids \ granted /\ attempts[a].id <= drawn
       /\ records[attempts[a].id].state = "none"
       /\ \A b \in Handlers : attempts[b].at = "absent" /\ attempts[b].id = attempts[a].id => b = a

InHandOwn ==
    \A a \in Handlers : AtHand(a) =>
       /\ Own(attempts[a]) /\ Taken(attempts[a].id)
       /\ \A b \in Handlers : AtHand(b) /\ attempts[b].id = attempts[a].id => b = a
       /\ \A n \in DOMAIN executed : executed[n].id # attempts[a].id

ExecutedOwn ==
    /\ \A n \in DOMAIN executed : Own(executed[n]) /\ Taken(executed[n].id)
    /\ \A m, n \in DOMAIN executed : executed[m].id = executed[n].id => m = n

GateInv == GateTypes /\ RecordsAsAsked /\ AbsentFresh /\ InHandOwn /\ ExecutedOwn

-----------------------------------------------------------------------------
LEMMA IdleCall == GateAssumption => NoSubject \in Subjects /\ Idle \in Calls(Places)
  <1> SUFFICES ASSUME GateAssumption PROVE NoSubject \in Subjects /\ Idle \in Calls(Places)
    OBVIOUS
  <1>1. PICK g \in Agents, q \in Requests, c \in Contents : TRUE
    BY DEF GateAssumption
  <1>2. [agent |-> g, request |-> q, content |-> c] \in Subjects
    BY DEF Subjects
  <1>3. NoSubject \in Subjects
    BY <1>2 DEF NoSubject
  <1> QED
    BY <1>3 DEF Idle, Calls, Places

\* What expire_locked leaves of each record.
LEMMA ExpireKeeps ==
    ASSUME GateTypes, NEW t
    PROVE  /\ Expire(t) \in [Ids -> ApprovalRecords]
           /\ \A i \in Ids :
                 /\ Expire(t)[i].subject = records[i].subject
                 /\ Expire(t)[i].expires = records[i].expires
                 /\ Expire(t)[i].state = "none" <=> records[i].state = "none"
                 /\ Expire(t)[i].state = "granted" =>
                       records[i].state = "granted" /\ ~(records[i].expires <= t)
                 /\ Expire(t)[i].state = "pending" => records[i].state = "pending"
  <1>1. \A i \in Ids : [records[i] EXCEPT !.state = "expired"] =
           [state |-> "expired", subject |-> records[i].subject, expires |-> records[i].expires]
    BY DEF GateTypes, ApprovalRecords
  <1>2. \A i \in Ids : Expire(t)[i] = IF records[i].state \in {"pending", "granted"} /\ records[i].expires <= t
                                       THEN [state |-> "expired", subject |-> records[i].subject,
                                             expires |-> records[i].expires]
                                       ELSE records[i]
    BY <1>1 DEF Expire
  <1>3. \A i \in Ids : records[i] \in ApprovalRecords
    BY DEF GateTypes
  <1>4. ASSUME NEW i \in Ids PROVE Expire(t)[i] \in ApprovalRecords
    <2>1. records[i].subject \in Subjects /\ records[i].expires \in Nat
      BY <1>3 DEF ApprovalRecords
    <2>2. [state |-> "expired", subject |-> records[i].subject, expires |-> records[i].expires]
             \in ApprovalRecords
      BY <2>1 DEF ApprovalRecords, RecordStates
    <2> QED
      BY <1>2, <1>3, <2>2
  <1>5. Expire(t) \in [Ids -> ApprovalRecords]
    BY <1>4 DEF Expire
  <1> QED
    BY <1>2, <1>5

LEMMA InitInv == ASSUME GateAssumption, GateInit PROVE GateInv
  <1>1. GateTypes
    BY IdleCall DEF GateInit, GateAssumption, GateTypes, NoRecord, ApprovalRecords, RecordStates, Asks
  <1>2. RecordsAsAsked /\ AbsentFresh /\ InHandOwn /\ ExecutedOwn
    BY DEF GateInit, RecordsAsAsked, AbsentFresh, InHandOwn, ExecutedOwn, AtHand, NoRecord, Idle
  <1> QED
    BY <1>1, <1>2 DEF GateInv

\* An attempt goes where it may not go upstream in enforce, and records expire.
LEMMA OutOfHand ==
    ASSUME GateInv, NEW t, records' = records \/ records' = Expire(t),
           NEW a \in Handlers, NEW c \in Calls(Places), attempts' = [attempts EXCEPT ![a] = c],
           c.at # "absent", ~(c.at = "authorized" \/ (c.at = "cleared" /\ Enforces)),
           happened' \in [faults : Nat, stops : Nat],
           UNCHANGED <<gateMode, now, drawn, asked, granted, executed>>
    PROVE  GateInv'
  <1>0. GateTypes
    BY DEF GateInv
  <1>1. /\ records' \in [Ids -> ApprovalRecords]
        /\ \A i \in Ids :
              /\ records'[i].subject = records[i].subject /\ records'[i].expires = records[i].expires
              /\ records'[i].state = "none" <=> records[i].state = "none"
              /\ records'[i].state = "granted" => records[i].state = "granted"
              /\ records'[i].state = "pending" => records[i].state = "pending"
    BY <1>0, ExpireKeeps DEF GateTypes
  <1>2. \A b \in Handlers :
           /\ AtHand(b)' => AtHand(b) /\ attempts'[b] = attempts[b]
           /\ attempts'[b].at = "absent" => attempts[b].at = "absent" /\ attempts'[b] = attempts[b]
    BY <1>0 DEF AtHand, GateTypes, Enforces
  <1>3. \A i \in Ids : Taken(i) => Taken(i)'
    BY <1>1 DEF Taken
  <1>4. GateTypes'
    BY <1>0, <1>1 DEF GateTypes
  <1>5. RecordsAsAsked'
    BY <1>1 DEF GateInv, RecordsAsAsked
  <1>6. AbsentFresh'
    BY <1>1, <1>2 DEF GateInv, AbsentFresh
  <1>7. InHandOwn'
    <2> SUFFICES ASSUME NEW b \in Handlers, AtHand(b)'
                 PROVE  /\ Own(attempts[b])' /\ Taken(attempts[b].id)'
                        /\ \A d \in Handlers : AtHand(d)' /\ attempts'[d].id = attempts'[b].id => d = b
                        /\ \A n \in DOMAIN executed' : executed'[n].id # attempts'[b].id
      BY DEF InHandOwn
    <2>1. attempts[b].id \in Ids
      BY <1>0, <1>2 DEF GateInv, InHandOwn, Own, GateTypes
    <2> QED
      BY <1>2, <1>3, <2>1 DEF GateInv, InHandOwn, Own, Taken
  <1>8. ExecutedOwn'
    <2>1. \A n \in DOMAIN executed : executed[n].id \in Ids
      BY <1>0 DEF GateInv, ExecutedOwn, Own, GateTypes
    <2> QED
      BY <1>3, <2>1 DEF GateInv, ExecutedOwn, Own, Taken
  <1> QED
    BY <1>4, <1>5, <1>6, <1>7, <1>8 DEF GateInv

\* A step that leaves records, attempts and history alone.
LEMMA NothingMoves ==
    ASSUME GateInv, now' \in Nat, happened' \in [faults : Nat, stops : Nat],
           UNCHANGED <<gateMode, records, attempts, drawn, asked, granted, executed>>
    PROVE  GateInv'
  BY DEF GateInv, GateTypes, RecordsAsAsked, AbsentFresh, InHandOwn, ExecutedOwn, AtHand,
         Own, Taken, Enforces

LEMMA Going ==
    ASSUME GateTypes, NEW a \in Handlers, NEW at \in Places, NEW id \in Nat, GoesTo(a, at, id)
    PROVE  \E c \in Calls(Places) :
              /\ attempts' = [attempts EXCEPT ![a] = c] /\ c.at = at
              /\ c.subject = attempts[a].subject /\ c.now = attempts[a].now /\ c.id = id
  <1> DEFINE c == [at |-> at, subject |-> attempts[a].subject, now |-> attempts[a].now, id |-> id]
  <1>1. c \in Calls(Places)
    BY DEF GateTypes, Calls
  <1>2. attempts' = [attempts EXCEPT ![a] = c]
    BY DEF GoesTo
  <1>3. c.at = at /\ c.subject = attempts[a].subject /\ c.now = attempts[a].now /\ c.id = id
    OBVIOUS
  <1> HIDE DEF c
  <1> QED
    BY <1>1, <1>2, <1>3

LEMMA Blocking ==
    ASSUME GateAssumption, GateTypes, NEW a \in Handlers, Blocks(a)
    PROVE  \E c \in Calls(Places) :
              /\ attempts' = [attempts EXCEPT ![a] = c]
              /\ c.at # "absent" /\ ~(c.at = "authorized" \/ (c.at = "cleared" /\ Enforces))
  <1>1. CASE Enforces
    BY <1>1, IdleCall DEF Blocks, Ends, Idle
  <1>2. CASE ~Enforces
    <2>1. GoesTo(a, "cleared", attempts[a].id)
      BY <1>2 DEF Blocks
    <2>2. attempts[a].id \in Nat /\ "cleared" \in Places
      BY DEF GateTypes, Calls, Places
    <2> QED
      BY <1>2, <2>1, <2>2, Going
  <1> QED
    BY <1>1, <1>2

LEMMA FaultsCounted ==
    ASSUME GateTypes, GateFault PROVE happened' \in [faults : Nat, stops : Nat]
  BY DEF GateTypes, GateFault

LEMMA RecordRequestInv ==
    ASSUME GateAssumption, GateInv, NEW a \in Handlers, NEW s \in Subjects, RecordRequest(a, s)
    PROVE  GateInv'
  <1>0. GateTypes
    BY DEF GateInv
  <1>1. UNCHANGED <<gateMode, now, records, drawn, asked, granted, executed>>
    BY DEF RecordRequest, store, historyVars
  <1> DEFINE c == [at |-> "recorded", subject |-> s, now |-> now, id |-> 0]
  <1>2. CASE attempts' = [attempts EXCEPT ![a] = c] /\ UNCHANGED happened
    <2>1. c \in Calls(Places) /\ c.at = "recorded"
      BY <1>0 DEF GateTypes, Calls, Places
    <2> HIDE DEF c
    <2> QED
      BY <1>0, <1>1, <1>2, <2>1, OutOfHand DEF GateTypes
  <1>3. CASE GateFault /\ UNCHANGED attempts
    BY <1>0, <1>1, <1>3, FaultsCounted, NothingMoves DEF GateTypes
  <1> QED
    BY <1>2, <1>3 DEF RecordRequest

LEMMA ConsumeOtherInv ==
    ASSUME GateAssumption, GateInv, NEW a \in Handlers, NEW i \in Ids, ConsumeOther(a, i)
    PROVE  GateInv'
  <1>0. GateTypes
    BY DEF GateInv
  <1>1. /\ records' = Expire(attempts[a].now) /\ Blocks(a)
        /\ UNCHANGED <<gateMode, now, drawn, asked, granted, executed, happened>>
    BY DEF ConsumeOther, historyVars
  <1> QED
    BY <1>0, <1>1, Blocking, OutOfHand DEF GateTypes

LEMMA ConsumeGrantedInv ==
    ASSUME GateAssumption, GateInv, NEW a \in Handlers, NEW i \in Ids, ConsumeGranted(a, i)
    PROVE  GateInv'
  <1> DEFINE recs == Expire(attempts[a].now)
             used == [state |-> "consumed", subject |-> records[i].subject, expires |-> records[i].expires]
  <1>0. GateTypes
    BY DEF GateInv
  <1>1. UNCHANGED <<gateMode, now, drawn, asked, granted, executed, happened>>
    BY DEF ConsumeGranted, historyVars
  <1>2. /\ records[i].state = "granted" /\ records[i].subject = attempts[a].subject
        /\ ~(records[i].expires <= attempts[a].now)
        /\ recs \in [Ids -> ApprovalRecords]
        /\ recs[i].subject = records[i].subject /\ recs[i].expires = records[i].expires
    BY <1>0, ExpireKeeps DEF ConsumeGranted, FirstOf, Matches
  <1>3. records' = [recs EXCEPT ![i] = used]
    <2>1. [recs[i] EXCEPT !.state = "consumed"] = used
      BY <1>2 DEF ApprovalRecords
    <2> QED
      BY <2>1 DEF ConsumeGranted
  <1>4. PICK c \in Calls(Places) :
           /\ attempts' = [attempts EXCEPT ![a] = c] /\ c.at = "authorized" /\ c.id = i
           /\ c.subject = attempts[a].subject /\ c.now = attempts[a].now
    <2>1. i \in Nat /\ "authorized" \in Places
      BY DEF Ids, Places
    <2>2. GoesTo(a, "authorized", i)
      BY DEF ConsumeGranted
    <2> QED
      BY <1>0, <2>1, <2>2, Going
  <1>5. /\ used \in ApprovalRecords /\ used.state = "consumed"
        /\ used.subject = records[i].subject /\ used.expires = records[i].expires
    BY <1>0 DEF GateTypes, ApprovalRecords, RecordStates
  <1>6. /\ records' \in [Ids -> ApprovalRecords] /\ records'[i].state = "consumed"
        /\ \A j \in Ids :
              /\ records'[j].subject = records[j].subject /\ records'[j].expires = records[j].expires
              /\ records'[j].state = "none" <=> records[j].state = "none"
              /\ records'[j].state = "granted" => records[j].state = "granted"
              /\ records'[j].state = "pending" => records[j].state = "pending"
    BY <1>0, <1>2, <1>3, <1>5, ExpireKeeps
  <1> HIDE DEF recs, used
  <1>7. \A j \in Ids : Taken(j) => Taken(j)'
    BY <1>6 DEF Taken
  <1>8. GateTypes'
    BY <1>0, <1>1, <1>4, <1>6 DEF GateTypes
  <1>9. RecordsAsAsked'
    BY <1>1, <1>6 DEF GateInv, RecordsAsAsked
  <1>10. AbsentFresh'
    BY <1>0, <1>1, <1>4, <1>6 DEF GateInv, AbsentFresh, GateTypes
  <1>11. Own(attempts[a])' /\ Taken(attempts[a].id)'
    <2>1. attempts'[a] = c
      BY <1>0, <1>4 DEF GateTypes
    <2>2. i \in granted /\ asked[i].subject = c.subject /\ c.now < asked[i].expires
      <3>1. records[i].subject = asked[i].subject /\ records[i].expires = asked[i].expires /\ i \in granted
        BY <1>2 DEF GateInv, RecordsAsAsked
      <3>2. asked[i].expires \in Nat /\ attempts[a].now \in Nat
        BY <1>0 DEF GateTypes, Asks, Calls
      <3> QED
        BY <1>2, <1>4, <3>1, <3>2
    <2> QED
      BY <1>1, <1>4, <1>6, <2>1, <2>2 DEF Own, Taken
  <1>12. InHandOwn'
    <2>1. \A b \in Handlers \ {a} : attempts'[b] = attempts[b] /\ (AtHand(b)' <=> AtHand(b))
      BY <1>0, <1>1, <1>4 DEF AtHand, GateTypes, Enforces
    <2>2. \A b \in Handlers \ {a} : AtHand(b) =>
             Own(attempts[b])' /\ Taken(attempts[b].id)' /\ attempts[b].id # i
      BY <1>0, <1>1, <1>2, <1>7, <2>1 DEF GateInv, InHandOwn, Own, Taken, GateTypes
    <2>3. attempts'[a].id = i
      BY <1>0, <1>4 DEF GateTypes
    <2>4. \A n \in DOMAIN executed : executed[n].id # i
      BY <1>2 DEF GateInv, ExecutedOwn, Taken
    <2>5. \A b, d \in Handlers : AtHand(b)' /\ AtHand(d)' /\ attempts'[d].id = attempts'[b].id => d = b
      BY <2>1, <2>2, <2>3 DEF GateInv, InHandOwn
    <2>6. \A b \in Handlers : AtHand(b)' => Own(attempts[b])' /\ Taken(attempts[b].id)'
      <3> SUFFICES ASSUME NEW b \in Handlers, AtHand(b)' PROVE Own(attempts[b])' /\ Taken(attempts[b].id)'
        OBVIOUS
      <3>1. CASE b = a
        BY <1>11, <3>1
      <3>2. CASE b # a
        BY <2>1, <2>2, <3>2
      <3> QED
        BY <3>1, <3>2
    <2>7. \A b \in Handlers : AtHand(b)' => \A n \in DOMAIN executed' : executed'[n].id # attempts'[b].id
      BY <1>1, <2>1, <2>3, <2>4 DEF GateInv, InHandOwn
    <2> QED
      BY <2>5, <2>6, <2>7 DEF InHandOwn
  <1>13. ExecutedOwn'
    BY <1>0, <1>1, <1>7 DEF GateInv, ExecutedOwn, Own, Taken, GateTypes
  <1> QED
    BY <1>8, <1>9, <1>10, <1>12, <1>13 DEF GateInv

LEMMA ConsumeNothingInv ==
    ASSUME GateAssumption, GateInv, NEW a \in Handlers, ConsumeNothing(a)
    PROVE  GateInv'
  <1>0. GateTypes
    BY DEF GateInv
  <1>1. /\ records' = Expire(attempts[a].now)
        /\ UNCHANGED <<gateMode, now, asked, granted, executed, happened>>
    BY DEF ConsumeNothing, historyVars
  <1>2. CASE Blocks(a) /\ UNCHANGED drawn
    BY <1>0, <1>1, <1>2, Blocking, OutOfHand DEF GateTypes
  <1>3. CASE drawn < MaxApprovals /\ drawn' = drawn + 1 /\ GoesTo(a, "absent", drawn + 1)
    <2>1. PICK c \in Calls(Places) :
             /\ attempts' = [attempts EXCEPT ![a] = c] /\ c.at = "absent" /\ c.id = drawn + 1
      <3>1. drawn + 1 \in Nat /\ "absent" \in Places
        BY <1>0 DEF GateTypes, Places
      <3> QED
        BY <1>0, <1>3, <3>1, Going
    <2>2. /\ drawn + 1 \in Ids \ granted /\ records[drawn + 1].state = "none"
          /\ drawn \in Nat /\ drawn' = drawn + 1 /\ MaxApprovals \in Nat
      <3>1. drawn \in Nat /\ MaxApprovals \in Nat /\ drawn < MaxApprovals /\ drawn' = drawn + 1
        BY <1>0, <1>3 DEF GateTypes, GateAssumption
      <3>2. drawn + 1 \in Ids /\ ~(drawn + 1 <= drawn)
        BY <3>1 DEF Ids
      <3>3. RecordsAsAsked
        BY DEF GateInv
      <3>4. drawn + 1 \notin granted /\ records[drawn + 1].state = "none"
        BY <3>2, <3>3 DEF RecordsAsAsked
      <3> QED
        BY <3>1, <3>2, <3>4
    <2>3. /\ records' \in [Ids -> ApprovalRecords]
          /\ \A i \in Ids :
                /\ records'[i].subject = records[i].subject /\ records'[i].expires = records[i].expires
                /\ records'[i].state = "none" <=> records[i].state = "none"
                /\ records'[i].state = "granted" => records[i].state = "granted"
                /\ records'[i].state = "pending" => records[i].state = "pending"
      BY <1>0, <1>1, ExpireKeeps
    <2>4. \A b \in Handlers : attempts'[b] = IF b = a THEN c ELSE attempts[b]
      BY <1>0, <2>1 DEF GateTypes
    <2>5. \A b \in Handlers : AtHand(b)' => AtHand(b) /\ attempts'[b] = attempts[b]
      BY <1>1, <2>1, <2>4 DEF AtHand, Enforces
    <2>6. GateTypes'
      BY <1>0, <1>1, <2>1, <2>2, <2>3 DEF GateTypes
    <2>7. RecordsAsAsked'
      <3> SUFFICES ASSUME NEW i \in Ids
                   PROVE  /\ i \in granted' => i <= drawn'
                          /\ records'[i].state # "none" => /\ i <= drawn'
                                                           /\ records'[i].subject = asked'[i].subject
                                                           /\ records'[i].expires = asked'[i].expires
                          /\ records'[i].state = "granted" => i \in granted'
        BY DEF RecordsAsAsked
      <3>1. i \in Nat
        BY DEF Ids
      <3> QED
        BY <1>1, <2>2, <2>3, <3>1 DEF GateInv, RecordsAsAsked
    <2>8. AbsentFresh'
      <3>1. \A b \in Handlers \ {a} : attempts[b].at = "absent" => attempts[b].id # drawn + 1
        <4> SUFFICES ASSUME NEW b \in Handlers, attempts[b].at = "absent" PROVE attempts[b].id # drawn + 1
          OBVIOUS
        <4>1. attempts[b].id \in Nat /\ attempts[b].id <= drawn
          BY DEF GateInv, AbsentFresh, Ids
        <4> QED
          BY <2>2, <4>1
      <3>2. \A b \in Handlers : attempts'[b].at = "absent" =>
               /\ attempts'[b].id \in Ids \ granted' /\ attempts'[b].id <= drawn'
               /\ records'[attempts'[b].id].state = "none"
        <4> SUFFICES ASSUME NEW b \in Handlers, attempts'[b].at = "absent"
                     PROVE  /\ attempts'[b].id \in Ids \ granted' /\ attempts'[b].id <= drawn'
                            /\ records'[attempts'[b].id].state = "none"
          OBVIOUS
        <4>1. CASE b = a
          BY <1>1, <2>1, <2>2, <2>3, <2>4, <4>1
        <4>2. CASE b # a
          <5>1. attempts'[b] = attempts[b]
            BY <2>4, <4>2
          <5>2. /\ attempts[b].id \in Ids \ granted /\ attempts[b].id <= drawn /\ attempts[b].id \in Nat
                /\ records[attempts[b].id].state = "none"
            BY <5>1 DEF GateInv, AbsentFresh, Ids
          <5> QED
            BY <1>1, <2>2, <2>3, <5>1, <5>2
        <4> QED
          BY <4>1, <4>2
      <3>3. \A b, d \in Handlers : attempts'[b].at = "absent" /\ attempts'[d].at = "absent"
                                     /\ attempts'[d].id = attempts'[b].id => d = b
        BY <2>1, <2>4, <3>1 DEF GateInv, AbsentFresh
      <3> QED
        BY <3>2, <3>3 DEF AbsentFresh
    <2>9. InHandOwn'
      <3> SUFFICES ASSUME NEW b \in Handlers, AtHand(b)'
                   PROVE  /\ Own(attempts[b])' /\ Taken(attempts[b].id)'
                          /\ \A d \in Handlers : AtHand(d)' /\ attempts'[d].id = attempts'[b].id => d = b
                          /\ \A n \in DOMAIN executed' : executed'[n].id # attempts'[b].id
        BY DEF InHandOwn
      <3>1. attempts[b].id \in Ids
        BY <1>0, <2>5 DEF GateInv, InHandOwn, Own, GateTypes
      <3> QED
        BY <1>1, <2>3, <2>5, <3>1 DEF GateInv, InHandOwn, Own, Taken
    <2>10. ExecutedOwn'
      BY <1>0, <1>1, <2>3 DEF GateInv, ExecutedOwn, Own, Taken, GateTypes
    <2> QED
      BY <2>6, <2>7, <2>8, <2>9, <2>10 DEF GateInv
  <1> QED
    BY <1>2, <1>3 DEF ConsumeNothing

LEMMA AdmitInv ==
    ASSUME GateAssumption, GateInv, NEW a \in Handlers, Admit(a)
    PROVE  GateInv'
  <1> DEFINE recs == Expire(attempts[a].now)
             i == attempts[a].id
             s == attempts[a].subject
             e == attempts[a].now + ApprovalTtl
             new == [state |-> "pending", subject |-> s, expires |-> e]
             ask == [subject |-> s, expires |-> e, boot |-> happened.stops]
  <1>0. GateTypes
    BY DEF GateInv
  <1>1. /\ attempts[a].at = "absent" /\ Blocks(a)
        /\ UNCHANGED <<gateMode, now, drawn, granted, executed, happened>>
    BY DEF Admit
  <1>2. CASE records' = recs /\ asked' = asked
    BY <1>0, <1>1, <1>2, Blocking, OutOfHand DEF GateTypes
  <1>3. CASE records' = [recs EXCEPT ![i] = new] /\ asked' = [asked EXCEPT ![i] = ask]
    <2>1. PICK c \in Calls(Places) :
             /\ attempts' = [attempts EXCEPT ![a] = c]
             /\ c.at # "absent" /\ ~(c.at = "authorized" \/ (c.at = "cleared" /\ Enforces))
      BY <1>0, <1>1, Blocking
    <2>2. i \in Ids \ granted /\ i <= drawn
      BY <1>1 DEF GateInv, AbsentFresh
    <2>3. /\ new \in ApprovalRecords /\ new.state = "pending"
          /\ ask \in Asks /\ ask.subject = new.subject /\ ask.expires = new.expires
      BY <1>0 DEF GateTypes, GateAssumption, Calls, ApprovalRecords, RecordStates, Asks
    <2> HIDE DEF new, ask
    <2>4. /\ records' \in [Ids -> ApprovalRecords] /\ records'[i] = new
          /\ \A j \in Ids \ {i} :
                /\ records'[j].subject = records[j].subject /\ records'[j].expires = records[j].expires
                /\ records'[j].state = "none" <=> records[j].state = "none"
                /\ records'[j].state = "granted" => records[j].state = "granted"
                /\ records'[j].state = "pending" => records[j].state = "pending"
      BY <1>0, <1>3, <2>2, <2>3, ExpireKeeps
    <2>5. asked' \in [Ids -> Asks] /\ asked'[i] = ask /\ \A j \in Ids \ {i} : asked'[j] = asked[j]
      BY <1>0, <1>3, <2>2, <2>3 DEF GateTypes
    <2> HIDE DEF recs, i
    <2>6. \A b \in Handlers : attempts'[b] = IF b = a THEN c ELSE attempts[b]
      BY <1>0, <2>1 DEF GateTypes
    <2>7. \A b \in Handlers : AtHand(b)' => AtHand(b) /\ attempts'[b] = attempts[b]
      BY <1>1, <2>1, <2>6 DEF AtHand, Enforces
    <2>8. GateTypes'
      BY <1>0, <1>1, <2>1, <2>4, <2>5 DEF GateTypes
    <2>9. RecordsAsAsked'
      BY <1>1, <2>2, <2>3, <2>4, <2>5 DEF GateInv, RecordsAsAsked
    <2>10. AbsentFresh'
      <3> SUFFICES ASSUME NEW b \in Handlers, attempts'[b].at = "absent"
                   PROVE  /\ attempts'[b].id \in Ids \ granted' /\ attempts'[b].id <= drawn'
                          /\ records'[attempts'[b].id].state = "none"
                          /\ \A d \in Handlers : attempts'[d].at = "absent"
                                /\ attempts'[d].id = attempts'[b].id => d = b
        BY DEF AbsentFresh
      <3>1. b # a /\ attempts'[b] = attempts[b] /\ attempts[b].at = "absent"
        BY <2>1, <2>6
      <3>2. attempts[b].id # i
        BY <1>1, <3>1 DEF GateInv, AbsentFresh, i
      <3> QED
        BY <1>1, <2>1, <2>4, <2>6, <3>1, <3>2 DEF GateInv, AbsentFresh
    <2>11. InHandOwn'
      <3> SUFFICES ASSUME NEW b \in Handlers, AtHand(b)'
                   PROVE  /\ Own(attempts[b])' /\ Taken(attempts[b].id)'
                          /\ \A d \in Handlers : AtHand(d)' /\ attempts'[d].id = attempts'[b].id => d = b
                          /\ \A n \in DOMAIN executed' : executed'[n].id # attempts'[b].id
        BY DEF InHandOwn
      <3>1. attempts[b].id \in Ids \ {i}
        BY <1>0, <2>2, <2>7 DEF GateInv, InHandOwn, Own, GateTypes
      <3> QED
        BY <1>1, <2>4, <2>5, <2>7, <3>1 DEF GateInv, InHandOwn, Own, Taken
    <2>12. ExecutedOwn'
      <3>1. \A n \in DOMAIN executed : executed[n].id \in Ids \ {i}
        BY <1>0, <2>2 DEF GateInv, ExecutedOwn, Own, GateTypes
      <3> QED
        BY <1>1, <2>4, <2>5, <3>1 DEF GateInv, ExecutedOwn, Own, Taken
    <2> QED
      BY <2>8, <2>9, <2>10, <2>11, <2>12 DEF GateInv
  <1> QED
    BY <1>2, <1>3 DEF Admit

LEMMA DecideInv ==
    ASSUME GateAssumption, GateInv, NEW i \in Ids, NEW approved \in BOOLEAN, Decide(i, approved)
    PROVE  GateInv'
  <1> DEFINE recs == Expire(now)
             to == IF approved THEN "granted" ELSE "denied"
             new == [state |-> to, subject |-> records[i].subject, expires |-> records[i].expires]
  <1>0. GateTypes
    BY DEF GateInv
  <1>1. UNCHANGED <<gateMode, now, attempts, drawn, asked, executed, happened>>
    BY DEF Decide
  <1>2. /\ records[i].state = "pending" /\ recs \in [Ids -> ApprovalRecords]
        /\ recs[i].subject = records[i].subject /\ recs[i].expires = records[i].expires
    BY <1>0, ExpireKeeps DEF Decide
  <1>3. records' = [recs EXCEPT ![i] = new]
    <2>1. [recs[i] EXCEPT !.state = to] = new
      BY <1>2 DEF ApprovalRecords
    <2> QED
      BY <2>1 DEF Decide
  <1>4. /\ new \in ApprovalRecords /\ new.state = to
        /\ new.subject = records[i].subject /\ new.expires = records[i].expires
    BY <1>0 DEF GateTypes, ApprovalRecords, RecordStates
  <1> HIDE DEF new
  <1>5. /\ records' \in [Ids -> ApprovalRecords] /\ records'[i].state = to
        /\ \A j \in Ids :
              /\ records'[j].subject = records[j].subject /\ records'[j].expires = records[j].expires
              /\ records'[j].state = "none" <=> records[j].state = "none"
        /\ \A j \in Ids \ {i} :
              /\ records'[j].state = "granted" => records[j].state = "granted"
              /\ records'[j].state = "pending" => records[j].state = "pending"
    BY <1>0, <1>2, <1>3, <1>4, ExpireKeeps
  <1> HIDE DEF recs
  <1>6. granted' \in {granted, granted \cup {i}} /\ (to = "granted" => i \in granted')
    BY DEF Decide
  <1> HIDE DEF to
  <1>7. \A j \in Ids : Taken(j) => Taken(j)'
    BY <1>2, <1>5 DEF Taken
  <1>8. i <= drawn
    BY <1>2 DEF GateInv, RecordsAsAsked
  <1>9. GateTypes'
    BY <1>0, <1>1, <1>5, <1>6 DEF GateTypes
  <1>10. RecordsAsAsked'
    BY <1>1, <1>5, <1>6, <1>8 DEF GateInv, RecordsAsAsked
  <1>11. AbsentFresh'
    BY <1>1, <1>2, <1>5, <1>6 DEF GateInv, AbsentFresh
  <1>12. InHandOwn'
    <2>1. \A b \in Handlers : AtHand(b) => attempts[b].id \in Ids
      BY <1>0 DEF GateInv, InHandOwn, Own, GateTypes
    <2> QED
      BY <1>1, <1>6, <1>7, <2>1 DEF GateInv, InHandOwn, AtHand, Enforces, Own, Taken
  <1>13. ExecutedOwn'
    <2>1. \A n \in DOMAIN executed : executed[n].id \in Ids
      BY <1>0 DEF GateInv, ExecutedOwn, Own, GateTypes
    <2> QED
      BY <1>1, <1>6, <1>7, <2>1 DEF GateInv, ExecutedOwn, Own, Taken
  <1> QED
    BY <1>9, <1>10, <1>11, <1>12, <1>13 DEF GateInv

LEMMA AuthorizeInv ==
    ASSUME GateAssumption, GateInv, NEW a \in Handlers, Authorize(a)
    PROVE  GateInv'
  <1>0. GateTypes
    BY DEF GateInv
  <1>1. /\ attempts[a].at = "authorized"
        /\ UNCHANGED <<gateMode, now, records, drawn, asked, granted, executed>>
    BY DEF Authorize, store, historyVars
  <1>2. CASE GoesTo(a, "cleared", attempts[a].id) /\ UNCHANGED happened
    <2>1. PICK c \in Calls(Places) :
             /\ attempts' = [attempts EXCEPT ![a] = c] /\ c.at = "cleared"
             /\ c.subject = attempts[a].subject /\ c.now = attempts[a].now /\ c.id = attempts[a].id
      <3>1. attempts[a].id \in Nat /\ "cleared" \in Places
        BY <1>0 DEF GateTypes, Calls, Places
      <3> QED
        BY <1>0, <1>2, <3>1, Going
    <2>2. \A b \in Handlers : attempts'[b] = IF b = a THEN c ELSE attempts[b]
      BY <1>0, <2>1 DEF GateTypes
    <2>3. \A b \in Handlers :
             /\ AtHand(b)' => AtHand(b)
             /\ attempts'[b].subject = attempts[b].subject /\ attempts'[b].now = attempts[b].now
             /\ attempts'[b].id = attempts[b].id
             /\ attempts'[b].at = "absent" => attempts[b].at = "absent"
      BY <1>1, <2>1, <2>2 DEF AtHand, Enforces
    <2>4. GateTypes'
      BY <1>0, <1>1, <1>2, <2>1 DEF GateTypes
    <2>5. RecordsAsAsked' /\ ExecutedOwn'
      BY <1>1 DEF GateInv, RecordsAsAsked, ExecutedOwn, Own, Taken
    <2>6. AbsentFresh' /\ InHandOwn'
      BY <1>1, <2>3 DEF GateInv, AbsentFresh, InHandOwn, Own, Taken
    <2> QED
      BY <2>4, <2>5, <2>6 DEF GateInv
  <1>3. CASE GateFault /\ Blocks(a)
    <2>1. happened' \in [faults : Nat, stops : Nat]
      BY <1>0, <1>3, FaultsCounted
    <2> QED
      BY <1>0, <1>1, <1>3, <2>1, Blocking, OutOfHand
  <1> QED
    BY <1>2, <1>3 DEF Authorize, WithoutEvidence

LEMMA SendInv ==
    ASSUME GateAssumption, GateInv, NEW a \in Handlers, Send(a)
    PROVE  GateInv'
  <1> DEFINE sent == [at |-> "sent", subject |-> attempts[a].subject, now |-> attempts[a].now,
                      id |-> attempts[a].id]
  <1>0. GateTypes
    BY DEF GateInv
  <1>1. /\ attempts[a].at = "cleared" /\ attempts' = [attempts EXCEPT ![a] = Idle]
        /\ UNCHANGED <<gateMode, now, records, drawn, asked, granted, happened>>
    BY DEF Send, Ends, store
  <1>2. Idle \in Calls(Places) /\ Idle.at = "idle"
    BY IdleCall DEF Idle
  <1>3. CASE ~Enforces
    <2>1. executed' = executed
      BY <1>3 DEF Send
    <2> QED
      BY <1>0, <1>1, <1>2, <2>1, OutOfHand DEF GateTypes
  <1>4. CASE Enforces
    <2>1. executed' = Append(executed, sent)
      <3>1. [attempts[a] EXCEPT !.at = "sent"] = sent
        <4>1. attempts[a] \in Calls(Places)
          BY <1>0 DEF GateTypes
        <4> QED
          BY <4>1 DEF Calls
      <3> QED
        BY <1>4, <3>1 DEF Send
    <2>2. /\ sent \in Calls({"sent"}) /\ sent.subject = attempts[a].subject
          /\ sent.now = attempts[a].now /\ sent.id = attempts[a].id
      BY <1>0 DEF GateTypes, Calls
    <2> HIDE DEF sent
    <2>3. /\ executed' \in Seq(Calls({"sent"})) /\ Len(executed') = Len(executed) + 1
          /\ \A n \in 1 .. Len(executed) : executed'[n] = executed[n]
          /\ executed'[Len(executed) + 1] = sent
      BY <1>0, <2>1, <2>2 DEF GateTypes
    <2>4. /\ Len(executed) \in Nat /\ DOMAIN executed = 1 .. Len(executed)
          /\ DOMAIN executed' = 1 .. Len(executed) + 1
      BY <1>0, <2>3 DEF GateTypes
    <2>5. \A b \in Handlers : attempts'[b] = IF b = a THEN Idle ELSE attempts[b]
      BY <1>0, <1>1 DEF GateTypes
    <2>6. AtHand(a) /\ \A b \in Handlers : AtHand(b)' => AtHand(b) /\ b # a /\ attempts'[b] = attempts[b]
      BY <1>1, <1>2, <1>4, <2>5 DEF AtHand, Enforces
    <2>7. \A b \in Handlers : attempts'[b].at = "absent" => attempts'[b] = attempts[b]
      BY <1>2, <2>5
    <2>8. GateTypes'
      BY <1>0, <1>1, <1>2, <2>3 DEF GateTypes
    <2>9. RecordsAsAsked' /\ AbsentFresh'
      BY <1>1, <2>7 DEF GateInv, RecordsAsAsked, AbsentFresh
    <2>10. \A n \in DOMAIN executed : executed[n].id # sent.id
      BY <2>2, <2>6 DEF GateInv, InHandOwn
    <2>11. Own(sent) /\ Taken(sent.id)
      BY <2>2, <2>6 DEF GateInv, InHandOwn, Own
    <2>12. ExecutedOwn'
      <3>1. \A n \in DOMAIN executed' : Own(executed[n])' /\ Taken(executed[n].id)'
        <4> SUFFICES ASSUME NEW n \in DOMAIN executed' PROVE Own(executed[n])' /\ Taken(executed[n].id)'
          OBVIOUS
        <4>1. CASE n \in DOMAIN executed
          BY <1>1, <2>3, <2>4, <4>1 DEF GateInv, ExecutedOwn, Own, Taken
        <4>2. CASE n = Len(executed) + 1
          BY <1>1, <2>3, <2>11, <4>2 DEF Own, Taken
        <4> QED
          BY <2>4, <4>1, <4>2
      <3>2. \A m, n \in DOMAIN executed' : executed'[m].id = executed'[n].id => m = n
        BY <2>3, <2>4, <2>10 DEF GateInv, ExecutedOwn
      <3> QED
        BY <3>1, <3>2 DEF ExecutedOwn
    <2>13. InHandOwn'
      <3> SUFFICES ASSUME NEW b \in Handlers, AtHand(b)'
                   PROVE  /\ Own(attempts[b])' /\ Taken(attempts[b].id)'
                          /\ \A d \in Handlers : AtHand(d)' /\ attempts'[d].id = attempts'[b].id => d = b
                          /\ \A n \in DOMAIN executed' : executed'[n].id # attempts'[b].id
        BY DEF InHandOwn
      <3>1. Own(attempts[b])' /\ Taken(attempts[b].id)'
        BY <1>1, <2>6 DEF GateInv, InHandOwn, Own, Taken
      <3>2. \A d \in Handlers : AtHand(d)' /\ attempts'[d].id = attempts'[b].id => d = b
        BY <2>6 DEF GateInv, InHandOwn
      <3>3. attempts[b].id # sent.id /\ \A n \in DOMAIN executed : executed[n].id # attempts[b].id
        BY <2>2, <2>6 DEF GateInv, InHandOwn
      <3>4. \A n \in DOMAIN executed' : executed'[n].id # attempts'[b].id
        BY <2>3, <2>4, <2>6, <3>3
      <3> QED
        BY <3>1, <3>2, <3>4
    <2> QED
      BY <2>8, <2>9, <2>12, <2>13 DEF GateInv
  <1> QED
    BY <1>3, <1>4

LEMMA GateStopInv ==
    ASSUME GateAssumption, GateInv, NEW left, GateStop(left)
    PROVE  GateInv'
  <1>0. GateTypes
    BY DEF GateInv
  <1>1. /\ records' = [i \in Ids |-> NoRecord] /\ attempts' = [a \in Handlers |-> Idle]
        /\ UNCHANGED <<gateMode, now, drawn, asked, granted, executed>>
    BY DEF GateStop
  <1>2. /\ Idle \in Calls(Places) /\ Idle.at = "idle"
        /\ NoRecord \in ApprovalRecords /\ NoRecord.state = "none"
    BY IdleCall DEF Idle, NoRecord, ApprovalRecords, RecordStates
  <1>3. happened' \in [faults : Nat, stops : Nat]
    BY <1>0 DEF GateTypes, GateStop
  <1>4. GateTypes'
    BY <1>0, <1>1, <1>2, <1>3 DEF GateTypes
  <1>5. RecordsAsAsked' /\ AbsentFresh' /\ InHandOwn'
    BY <1>1, <1>2 DEF GateInv, RecordsAsAsked, AbsentFresh, InHandOwn, AtHand
  <1>6. ExecutedOwn'
    <2>1. \A n \in DOMAIN executed : executed[n].id \in Ids
      BY <1>0 DEF GateInv, ExecutedOwn, Own, GateTypes
    <2> QED
      BY <1>1, <1>2, <2>1 DEF GateInv, ExecutedOwn, Own, Taken
  <1> QED
    BY <1>4, <1>5, <1>6 DEF GateInv

LEMMA ListPendingInv == ASSUME GateAssumption, GateInv, ListPending PROVE GateInv'
  <1>0. GateTypes
    BY DEF GateInv
  <1>1. /\ records' = Expire(now)
        /\ UNCHANGED <<gateMode, now, attempts, drawn, asked, granted, executed, happened>>
    BY DEF ListPending, historyVars
  <1>2. /\ records' \in [Ids -> ApprovalRecords]
        /\ \A i \in Ids :
              /\ records'[i].subject = records[i].subject /\ records'[i].expires = records[i].expires
              /\ records'[i].state = "none" <=> records[i].state = "none"
              /\ records'[i].state = "granted" => records[i].state = "granted"
              /\ records'[i].state = "pending" => records[i].state = "pending"
    BY <1>0, <1>1, ExpireKeeps
  <1>3. GateTypes' /\ RecordsAsAsked'
    BY <1>0, <1>1, <1>2 DEF GateInv, GateTypes, RecordsAsAsked
  <1>4. AbsentFresh'
    BY <1>1, <1>2 DEF GateInv, AbsentFresh
  <1>5. InHandOwn'
    <2>1. \A b \in Handlers : AtHand(b) => attempts[b].id \in Ids
      BY <1>0 DEF GateInv, InHandOwn, Own, GateTypes
    <2> QED
      BY <1>1, <1>2, <2>1 DEF GateInv, InHandOwn, AtHand, Enforces, Own, Taken
  <1>6. ExecutedOwn'
    <2>1. \A n \in DOMAIN executed : executed[n].id \in Ids
      BY <1>0 DEF GateInv, ExecutedOwn, Own, GateTypes
    <2> QED
      BY <1>1, <1>2, <2>1 DEF GateInv, ExecutedOwn, Own, Taken
  <1> QED
    BY <1>3, <1>4, <1>5, <1>6 DEF GateInv

LEMMA GateStepInv == ASSUME GateAssumption, GateInv, [GateNext]_gateVars PROVE GateInv'
  <1>0. GateTypes
    BY DEF GateInv
  <1>1. CASE UNCHANGED gateVars
    BY <1>0, <1>1, NothingMoves DEF gateVars, store, historyVars, GateTypes
  <1>2. CASE FlushEvidence \/ GateTick
    BY <1>0, <1>2, NothingMoves DEF FlushEvidence, GateTick, store, historyVars, GateTypes
  <1>3. ASSUME NEW left, GateStop(left) PROVE GateInv'
    BY <1>3, GateStopInv
  <1> QED
    BY <1>1, <1>2, <1>3, RecordRequestInv, ConsumeGrantedInv, ConsumeOtherInv, ConsumeNothingInv,
       AdmitInv, AuthorizeInv, SendInv, DecideInv, ListPendingInv DEF GateNext

-----------------------------------------------------------------------------
\* In enforce, each call that went upstream has a grant of its own: of its exact
\* subject, not expired when the attempt began, used by no other call
\* (ApprovalStore consume, request_bounded and decide with the gateway between
\* them).
THEOREM EffectsGranted == GateSpec => []OwnGrant
  <1>1. GateInit => GateInv
    BY InitInv, GateAssumption
  <1>2. GateInv /\ [GateNext]_gateVars => GateInv'
    BY GateStepInv, GateAssumption
  <1>3. GateInv => OwnGrant
    BY DEF GateInv, ExecutedOwn, Own, OwnGrant, IsInjective
  <1> QED
    BY <1>1, <1>2, <1>3, PTL DEF GateSpec

-----------------------------------------------------------------------------
(* What is sent is on record *)

OnRecord(i) == i \in forgotten \cup Range(evidence)

RecordInv ==
    /\ evidence \in Seq(Nat) /\ attempts \in [Handlers -> Calls(Places)]
    /\ \A a \in Handlers : attempts[a].at = "cleared" /\ Enforces => OnRecord(attempts[a].id)
    /\ \A n \in DOMAIN executed : OnRecord(executed[n].id)

\* A sequence with one more element.
LEMMA Appended ==
    ASSUME NEW T, NEW s \in Seq(T), NEW e
    PROVE  /\ DOMAIN s = 1 .. Len(s) /\ DOMAIN Append(s, e) = 1 .. Len(s) + 1 /\ Len(s) \in Nat
           /\ \A n \in 1 .. Len(s) : Append(s, e)[n] = s[n]
           /\ Append(s, e)[Len(s) + 1] = e
  OBVIOUS

LEMMA EvidenceGrows ==
    ASSUME evidence \in Seq(Nat), NEW i \in Nat, InLog(i)
    PROVE  evidence' \in Seq(Nat) /\ Range(evidence') = Range(evidence) \cup {i}
  <1>1. /\ evidence' \in Seq(Nat) /\ Len(evidence') = Len(evidence) + 1
        /\ \A n \in 1 .. Len(evidence) : evidence'[n] = evidence[n]
        /\ evidence'[Len(evidence) + 1] = i
        /\ DOMAIN evidence = 1 .. Len(evidence) /\ DOMAIN evidence' = 1 .. Len(evidence) + 1
        /\ Len(evidence) \in Nat
    BY DEF InLog
  <1>2. ASSUME NEW x \in Range(evidence') PROVE x \in Range(evidence) \cup {i}
    <2>1. PICK n \in DOMAIN evidence' : x = evidence'[n]
      BY <1>2 DEF Range
    <2>2. n \in DOMAIN evidence \/ n = Len(evidence) + 1
      BY <1>1
    <2> QED
      BY <1>1, <2>1, <2>2 DEF Range
  <1>3. ASSUME NEW n \in DOMAIN evidence PROVE evidence[n] \in Range(evidence')
    <2>1. n \in DOMAIN evidence' /\ evidence'[n] = evidence[n]
      BY <1>1
    <2> QED
      BY <2>1 DEF Range
  <1>4. i \in Range(evidence')
    <2>1. Len(evidence) + 1 \in DOMAIN evidence'
      BY <1>1
    <2> QED
      BY <1>1, <2>1 DEF Range
  <1>5. \A x \in Range(evidence) : x \in Range(evidence')
    BY <1>3 DEF Range
  <1> QED
    BY <1>1, <1>2, <1>4, <1>5

\* What RecordInv needs of a step that takes nothing from the log.
LEMMA StaysOnRecord ==
    ASSUME RecordInv, evidence' \in Seq(Nat), attempts' \in [Handlers -> Calls(Places)],
           Range(evidence) \subseteq Range(evidence'), UNCHANGED <<gateMode, forgotten, executed>>,
           \A a \in Handlers : attempts'[a].at = "cleared" /\ Enforces =>
               attempts'[a].id \in forgotten \cup Range(evidence')
    PROVE  RecordInv'
  BY DEF RecordInv, OnRecord, Enforces

LEMMA RecordStep ==
    ASSUME GateAssumption, GateInv, GateInv', RecordInv, [GateNext]_gateVars
    PROVE  RecordInv'
  <1>0. /\ GateTypes /\ GateTypes' /\ evidence \in Seq(Nat)
        /\ attempts' \in [Handlers -> Calls(Places)]
    BY DEF GateInv, GateTypes, RecordInv
  <1>1. ASSUME NEW a \in Handlers, NEW c \in Calls(Places), attempts' = [attempts EXCEPT ![a] = c],
               ~(c.at = "cleared" /\ Enforces), evidence' \in Seq(Nat),
               Range(evidence) \subseteq Range(evidence'), UNCHANGED <<gateMode, forgotten, executed>>
        PROVE  RecordInv'
    <2>1. \A b \in Handlers : attempts'[b].at = "cleared" /\ Enforces => attempts'[b] = attempts[b]
      BY <1>0, <1>1 DEF GateTypes
    <2> QED
      BY <1>0, <1>1, <2>1, StaysOnRecord DEF RecordInv, OnRecord
  <1>2. ASSUME NEW a \in Handlers, NEW s \in Subjects, RecordRequest(a, s) PROVE RecordInv'
    <2>1. evidence' = evidence /\ UNCHANGED <<gateMode, forgotten, executed>>
      BY <1>2 DEF RecordRequest, onRecord, historyVars
    <2> DEFINE c == [at |-> "recorded", subject |-> s, now |-> now, id |-> 0]
    <2>2. CASE attempts' = [attempts EXCEPT ![a] = c]
      <3>1. c \in Calls(Places) /\ c.at = "recorded"
        BY <1>0 DEF GateTypes, Calls, Places
      <3> HIDE DEF c
      <3> QED
        BY <1>0, <1>1, <2>1, <2>2, <3>1
    <2>3. CASE UNCHANGED attempts
      BY <1>0, <2>1, <2>3, StaysOnRecord DEF RecordInv, OnRecord
    <2> QED
      BY <1>2, <2>2, <2>3 DEF RecordRequest
  <1>3. ASSUME NEW a \in Handlers, NEW i \in Ids, ConsumeGranted(a, i) PROVE RecordInv'
    <2>1. i \in Nat /\ "authorized" \in Places /\ GoesTo(a, "authorized", i)
      BY <1>3 DEF ConsumeGranted, Ids, Places
    <2>2. PICK c \in Calls(Places) : attempts' = [attempts EXCEPT ![a] = c] /\ c.at = "authorized"
      BY <1>0, <2>1, Going
    <2>3. evidence' = evidence /\ UNCHANGED <<gateMode, forgotten, executed>>
      BY <1>3 DEF ConsumeGranted, onRecord, historyVars
    <2> QED
      BY <1>0, <1>1, <2>2, <2>3
  <1>4. ASSUME NEW a \in Handlers, Blocks(a), evidence' \in Seq(Nat),
               Range(evidence) \subseteq Range(evidence'), UNCHANGED <<gateMode, forgotten, executed>>
        PROVE  RecordInv'
    BY <1>0, <1>1, <1>4, Blocking
  <1>5. ASSUME NEW a \in Handlers, NEW i \in Ids, ConsumeOther(a, i) PROVE RecordInv'
    BY <1>0, <1>4, <1>5 DEF ConsumeOther, onRecord, historyVars
  <1>6. ASSUME NEW a \in Handlers, ConsumeNothing(a) PROVE RecordInv'
    <2>1. evidence' = evidence /\ UNCHANGED <<gateMode, forgotten, executed>>
      BY <1>6 DEF ConsumeNothing, onRecord, historyVars
    <2>2. CASE Blocks(a)
      BY <1>0, <1>4, <2>1, <2>2
    <2>3. CASE GoesTo(a, "absent", drawn + 1)
      <3>1. drawn + 1 \in Nat /\ "absent" \in Places
        BY <1>0 DEF GateTypes, Places
      <3>2. PICK c \in Calls(Places) : attempts' = [attempts EXCEPT ![a] = c] /\ c.at = "absent"
        BY <1>0, <2>3, <3>1, Going
      <3> QED
        BY <1>0, <1>1, <2>1, <3>2
    <2> QED
      BY <1>6, <2>2, <2>3 DEF ConsumeNothing
  <1>7. ASSUME NEW a \in Handlers, Admit(a) PROVE RecordInv'
    BY <1>0, <1>4, <1>7 DEF Admit, onRecord
  <1>8. ASSUME NEW a \in Handlers, Authorize(a) PROVE RecordInv'
    <2>1. UNCHANGED <<gateMode, forgotten, executed>> /\ attempts[a].id \in Nat
      BY <1>0, <1>8 DEF Authorize, historyVars, GateTypes, Calls
    <2>2. CASE InLog(attempts[a].id) /\ GoesTo(a, "cleared", attempts[a].id)
      <3>1. evidence' \in Seq(Nat) /\ Range(evidence') = Range(evidence) \cup {attempts[a].id}
        BY <1>0, <2>1, <2>2, EvidenceGrows
      <3>2. PICK c \in Calls(Places) : attempts' = [attempts EXCEPT ![a] = c] /\ c.id = attempts[a].id
        BY <1>0, <2>1, <2>2, Going DEF Places
      <3>3. \A b \in Handlers : attempts'[b] = IF b = a THEN c ELSE attempts[b]
        BY <1>0, <3>2 DEF GateTypes
      <3> QED
        BY <1>0, <2>1, <3>1, <3>2, <3>3, StaysOnRecord DEF RecordInv, OnRecord
    <2>3. CASE Blocks(a) /\ (InLog(attempts[a].id) \/ UNCHANGED evidence)
      <3>1. evidence' \in Seq(Nat) /\ Range(evidence) \subseteq Range(evidence')
        BY <1>0, <2>1, <2>3, EvidenceGrows
      <3> QED
        BY <1>4, <2>1, <2>3, <3>1
    <2> QED
      BY <1>8, <2>2, <2>3 DEF Authorize, WithoutEvidence
  <1>9. ASSUME NEW a \in Handlers, Send(a) PROVE RecordInv'
    <2>1. /\ attempts[a].at = "cleared" /\ attempts' = [attempts EXCEPT ![a] = Idle]
          /\ evidence' = evidence /\ UNCHANGED <<gateMode, forgotten>> /\ Idle.at = "idle"
      BY <1>9 DEF Send, Ends, onRecord, Idle
    <2>2. \A b \in Handlers : attempts'[b].at = "cleared" => attempts'[b] = attempts[b]
      BY <1>0, <2>1 DEF GateTypes
    <2>3. CASE ~Enforces
      <3>1. executed' = executed
        BY <1>9, <2>3 DEF Send
      <3> QED
        BY <1>0, <2>1, <2>2, <3>1, StaysOnRecord DEF RecordInv, OnRecord
    <2>4. CASE Enforces
      <3>1. OnRecord(attempts[a].id)
        BY <2>1, <2>4 DEF RecordInv
      <3>2. /\ DOMAIN executed = 1 .. Len(executed) /\ DOMAIN executed' = 1 .. Len(executed) + 1
            /\ Len(executed) \in Nat
            /\ \A n \in 1 .. Len(executed) : executed'[n] = executed[n]
            /\ executed'[Len(executed) + 1].id = attempts[a].id
        <4> DEFINE sent == [attempts[a] EXCEPT !.at = "sent"]
        <4>1. sent.id = attempts[a].id
          <5>1. attempts[a] \in Calls(Places)
            BY <1>0 DEF GateTypes
          <5> QED
            BY <5>1 DEF Calls
        <4>2. executed' = Append(executed, sent)
          BY <1>9, <2>4 DEF Send
        <4>3. executed \in Seq(Calls({"sent"}))
          BY <1>0 DEF GateTypes
        <4> HIDE DEF sent
        <4> QED
          BY <4>1, <4>2, <4>3, Appended
      <3>3. \A n \in DOMAIN executed' : OnRecord(executed[n].id)'
        <4>1. \A n \in DOMAIN executed : OnRecord(executed[n].id)
          BY DEF RecordInv
        <4>2. \A n \in DOMAIN executed' : OnRecord(executed'[n].id)
          <5> SUFFICES ASSUME NEW n \in DOMAIN executed' PROVE OnRecord(executed'[n].id)
            OBVIOUS
          <5>1. n \in DOMAIN executed \/ n = Len(executed) + 1
            BY <3>2
          <5> QED
            BY <3>1, <3>2, <4>1, <5>1
        <4> QED
          BY <2>1, <4>2 DEF OnRecord
      <3> QED
        BY <1>0, <2>1, <2>2, <3>3 DEF RecordInv, OnRecord, Enforces
    <2> QED
      BY <2>3, <2>4
  <1>10. ASSUME NEW i \in Ids, NEW approved \in BOOLEAN, Decide(i, approved) PROVE RecordInv'
    BY <1>10 DEF Decide, onRecord, RecordInv, OnRecord, Enforces
  <1>11. CASE ListPending \/ FlushEvidence \/ GateTick
    BY <1>11 DEF ListPending, FlushEvidence, GateTick, onRecord, historyVars, RecordInv, OnRecord, Enforces
  <1>12. ASSUME NEW left \in kept .. Len(evidence), GateStop(left) PROVE RecordInv'
    <2>1. evidence' = SubSeq(evidence, 1, left) /\ left <= Len(evidence)
      BY <1>12 DEF GateStop
    <2>2. evidence' \in Seq(Nat)
      BY <1>0, <1>12, <2>1
    <2>3. \A i : OnRecord(i) => OnRecord(i)'
      BY <1>12 DEF GateStop, OnRecord
    <2>4. \A a \in Handlers : attempts'[a].at = "idle"
      BY <1>12 DEF GateStop, Idle
    <2> QED
      BY <1>0, <1>12, <2>2, <2>3, <2>4 DEF GateStop, RecordInv, OnRecord
  <1>13. CASE UNCHANGED gateVars
    BY <1>13 DEF gateVars, onRecord, historyVars, RecordInv, OnRecord, Enforces
  <1> QED
    BY <1>2, <1>3, <1>5, <1>6, <1>7, <1>8, <1>9, <1>10, <1>11, <1>12, <1>13 DEF GateNext

\* What went upstream in enforce is in the log with the approval it spent, unless
\* a power failure took it (the gateway appends ToolAuthorized before it forwards,
\* and refuses when that fails).
THEOREM EffectsRecorded == GateSpec => []EffectOnRecord
  <1>1. GateInit => GateInv /\ RecordInv
    <2> SUFFICES ASSUME GateInit PROVE GateInv /\ RecordInv
      OBVIOUS
    <2>1. GateInv
      BY InitInv, GateAssumption
    <2> QED
      BY <2>1 DEF GateInv, GateTypes, GateInit, RecordInv, Idle
  <1>2. GateInv /\ RecordInv /\ [GateNext]_gateVars => GateInv' /\ RecordInv'
    BY GateStepInv, RecordStep, GateAssumption
  <1>3. RecordInv => EffectOnRecord
    BY DEF RecordInv, OnRecord, EffectOnRecord
  <1> QED
    BY <1>1, <1>2, <1>3, PTL DEF GateSpec
-----------------------------------------------------------------------------
(* No subject is executed in two processes *)

ThisBoot(i) == asked[i].boot = happened.stops

\* What was executed of the subject was asked for in this process.
Settled(s) ==
    \A n \in DOMAIN executed : executed[n].subject = s =>
        executed[n].id \in forgotten \/ ThisBoot(executed[n].id)

\* A request is opened only while its subject is settled, and everything on the
\* way from there to the effect ends with the process; of an earlier process
\* the log says what was executed.
OnceInv ==
    /\ \A i \in Ids : records[i].state # "none" => ThisBoot(i) /\ Settled(records[i].subject)
    /\ \A a \in Handlers : attempts[a].at = "absent" => Settled(attempts[a].subject)
    /\ \A a \in Handlers : AtHand(a) => ThisBoot(attempts[a].id) /\ Settled(attempts[a].subject)
    /\ \A n \in DOMAIN executed : \/ executed[n].id \in forgotten
                                  \/ executed[n].subject \in consumed
                                  \/ ThisBoot(executed[n].id)
    /\ ExecutedOnce

\* A step that executes nothing.
LEMMA OnceStays ==
    ASSUME OnceInv, UNCHANGED <<executed, forgotten>>, happened'.stops = happened.stops,
           consumed \subseteq consumed',
           \A n \in DOMAIN executed : asked'[executed[n].id] = asked[executed[n].id],
           \A i \in Ids : records'[i].state # "none" =>
               asked'[i].boot = happened.stops /\ Settled(records'[i].subject),
           \A a \in Handlers : attempts'[a].at = "absent" => Settled(attempts'[a].subject),
           \A a \in Handlers : AtHand(a)' =>
               asked'[attempts'[a].id].boot = happened.stops /\ Settled(attempts'[a].subject)
    PROVE  OnceInv'
  <1>1. \A n \in DOMAIN executed : ThisBoot(executed[n].id)' <=> ThisBoot(executed[n].id)
    BY DEF ThisBoot
  <1>2. \A s : Settled(s) => \A n \in DOMAIN executed' : executed'[n].subject = s =>
                 executed'[n].id \in forgotten' \/ ThisBoot(executed[n].id)'
    BY <1>1 DEF Settled
  <1>3. /\ \A i \in Ids : records'[i].state # "none" => ThisBoot(i)' /\ Settled(records[i].subject)'
        /\ \A a \in Handlers : attempts'[a].at = "absent" => Settled(attempts[a].subject)'
        /\ \A a \in Handlers : AtHand(a)' => ThisBoot(attempts[a].id)' /\ Settled(attempts[a].subject)'
    BY <1>2 DEF Settled, ThisBoot
  <1>4. \A n \in DOMAIN executed' : \/ executed'[n].id \in forgotten'
                                    \/ executed'[n].subject \in consumed'
                                    \/ ThisBoot(executed[n].id)'
    BY <1>1 DEF OnceInv
  <1>5. ExecutedOnce'
    BY DEF OnceInv, ExecutedOnce
  <1> QED
    BY <1>3, <1>4, <1>5 DEF OnceInv

\* Records only expire, and one attempt goes where it may not go upstream.
LEMMA OnceBlocked ==
    ASSUME GateTypes, OnceInv, NEW t, records' = records \/ records' = Expire(t),
           NEW a \in Handlers, NEW c \in Calls(Places), attempts' = [attempts EXCEPT ![a] = c],
           c.at = "absent" => Settled(c.subject),
           ~(c.at = "authorized" \/ (c.at = "cleared" /\ Enforces))
              \/ (asked[c.id].boot = happened.stops /\ Settled(c.subject)),
           UNCHANGED <<gateMode, executed, forgotten, asked>>, happened'.stops = happened.stops,
           consumed \subseteq consumed'
    PROVE  OnceInv'
  <1>1. \A i \in Ids : records'[i].subject = records[i].subject
                       /\ (records'[i].state = "none" <=> records[i].state = "none")
    BY ExpireKeeps
  <1>2. \A b \in Handlers : attempts'[b] = IF b = a THEN c ELSE attempts[b]
    BY DEF GateTypes
  <1>3. \A b \in Handlers : attempts'[b].at = "absent" => Settled(attempts'[b].subject)
    BY <1>2 DEF OnceInv
  <1>4. \A b \in Handlers : AtHand(b)' =>
           asked'[attempts'[b].id].boot = happened.stops /\ Settled(attempts'[b].subject)
    BY <1>2 DEF OnceInv, AtHand, ThisBoot, Enforces
  <1>5. \A i \in Ids : records'[i].state # "none" =>
           asked'[i].boot = happened.stops /\ Settled(records'[i].subject)
    BY <1>1 DEF OnceInv, ThisBoot
  <1> QED
    BY <1>3, <1>4, <1>5, OnceStays

LEMMA OnceStep ==
    ASSUME GateAssumption, GateInv, GateInv', RecordInv, OnceInv, [GateNext]_gateVars
    PROVE  OnceInv'
  <1>0. /\ GateTypes /\ GateTypes'
        /\ \A n \in DOMAIN executed : /\ executed[n].id \in Ids /\ executed[n].id \in granted
                                      /\ asked[executed[n].id].subject = executed[n].subject
        /\ \A b \in Handlers : AtHand(b) => attempts[b].id \in granted
    BY DEF GateInv, GateTypes, ExecutedOwn, InHandOwn, Own
  <1>1. ASSUME NEW a \in Handlers, NEW s \in Subjects, RecordRequest(a, s) PROVE OnceInv'
    <2>1. /\ UNCHANGED <<gateMode, records, consumed, asked, executed, forgotten>>
          /\ happened'.stops = happened.stops
      BY <1>0, <1>1 DEF RecordRequest, store, historyVars, GateFault, GateTypes
    <2> DEFINE c == [at |-> "recorded", subject |-> s, now |-> now, id |-> 0]
    <2>2. CASE attempts' = [attempts EXCEPT ![a] = c]
      <3>1. c \in Calls(Places) /\ c.at = "recorded"
        BY <1>0 DEF GateTypes, Calls, Places
      <3> HIDE DEF c
      <3> QED
        BY <1>0, <2>1, <2>2, <3>1, OnceBlocked
    <2>3. CASE UNCHANGED attempts
      BY <2>1, <2>3, OnceStays DEF OnceInv, AtHand, ThisBoot, Enforces
    <2> QED
      BY <1>1, <2>2, <2>3 DEF RecordRequest
  <1>2. ASSUME NEW a \in Handlers, NEW t, Blocks(a), records' = records \/ records' = Expire(t),
               UNCHANGED <<gateMode, executed, forgotten, asked, consumed>>, happened'.stops = happened.stops
        PROVE  OnceInv'
    BY <1>0, <1>2, Blocking, OnceBlocked
  <1>3. ASSUME NEW a \in Handlers, NEW i \in Ids, ConsumeGranted(a, i) PROVE OnceInv'
    <2> DEFINE recs == Expire(attempts[a].now)
    <2>1. /\ UNCHANGED <<gateMode, asked, executed, forgotten, happened>> /\ consumed \subseteq consumed'
          /\ records' = [recs EXCEPT ![i].state = "consumed"] /\ GoesTo(a, "authorized", i)
          /\ records[i].subject = attempts[a].subject /\ records[i].state # "none"
      BY <1>3 DEF ConsumeGranted, historyVars, FirstOf, Matches, Known
    <2>2. /\ recs \in [Ids -> ApprovalRecords]
          /\ \A j \in Ids : recs[j].subject = records[j].subject
                            /\ (recs[j].state = "none" <=> records[j].state = "none")
      BY <1>0, ExpireKeeps
    <2> HIDE DEF recs
    <2>3. \A j \in Ids : records'[j].subject = records[j].subject
                         /\ (records'[j].state # "none" => records[j].state # "none")
      BY <2>1, <2>2 DEF ApprovalRecords
    <2>4. PICK c \in Calls(Places) : /\ attempts' = [attempts EXCEPT ![a] = c]
                                     /\ c.at = "authorized" /\ c.subject = attempts[a].subject /\ c.id = i
      <3>1. i \in Nat /\ "authorized" \in Places
        BY DEF Ids, Places
      <3> QED
        BY <1>0, <2>1, <3>1, Going
    <2>5. \A b \in Handlers : attempts'[b] = IF b = a THEN c ELSE attempts[b]
      BY <1>0, <2>4 DEF GateTypes
    <2>6. asked[i].boot = happened.stops /\ Settled(c.subject)
      BY <2>1, <2>4 DEF OnceInv, ThisBoot
    <2>7. \A b \in Handlers : attempts'[b].at = "absent" => Settled(attempts'[b].subject)
      BY <2>4, <2>5 DEF OnceInv
    <2>8. \A b \in Handlers : AtHand(b)' =>
             asked'[attempts'[b].id].boot = happened.stops /\ Settled(attempts'[b].subject)
      BY <2>1, <2>4, <2>5, <2>6 DEF OnceInv, AtHand, ThisBoot, Enforces
    <2>9. \A j \in Ids : records'[j].state # "none" =>
             asked'[j].boot = happened.stops /\ Settled(records'[j].subject)
      BY <2>1, <2>3 DEF OnceInv, ThisBoot
    <2> QED
      BY <2>1, <2>7, <2>8, <2>9, OnceStays
  <1>4. ASSUME NEW a \in Handlers, NEW i \in Ids, ConsumeOther(a, i) PROVE OnceInv'
    BY <1>2, <1>4 DEF ConsumeOther, historyVars
  <1>5. ASSUME NEW a \in Handlers, ConsumeNothing(a) PROVE OnceInv'
    <2>1. /\ UNCHANGED <<gateMode, consumed, asked, executed, forgotten, happened>>
          /\ records' = Expire(attempts[a].now)
      BY <1>5 DEF ConsumeNothing, historyVars
    <2>2. CASE Blocks(a)
      BY <1>2, <2>1, <2>2
    <2>3. CASE ~Replayed(attempts[a].subject) /\ GoesTo(a, "absent", drawn + 1)
      <3>1. PICK c \in Calls(Places) : /\ attempts' = [attempts EXCEPT ![a] = c]
                                       /\ c.at = "absent" /\ c.subject = attempts[a].subject
        <4>1. drawn + 1 \in Nat /\ "absent" \in Places
          BY <1>0 DEF GateTypes, Places
        <4> QED
          BY <1>0, <2>3, <4>1, Going
      <3>2. Settled(c.subject)
        BY <2>3, <3>1 DEF OnceInv, Settled, Replayed
      <3> QED
        BY <1>0, <2>1, <3>1, <3>2, OnceBlocked
    <2> QED
      BY <1>5, <2>2, <2>3 DEF ConsumeNothing
  <1>6. ASSUME NEW a \in Handlers, Admit(a) PROVE OnceInv'
    <2> DEFINE recs == Expire(attempts[a].now)
               id == attempts[a].id
               s == attempts[a].subject
    <2>1. /\ attempts[a].at = "absent" /\ Blocks(a)
          /\ UNCHANGED <<gateMode, consumed, executed, forgotten, happened>>
          /\ \/ records' = recs /\ asked' = asked
             \/ \E expires : /\ records' = [recs EXCEPT ![id] =
                                               [state |-> "pending", subject |-> s, expires |-> expires]]
                             /\ asked' = [asked EXCEPT ![id] =
                                             [subject |-> s, expires |-> expires, boot |-> happened.stops]]
      BY <1>6 DEF Admit
    <2>2. CASE records' = recs /\ asked' = asked
      BY <1>2, <2>1, <2>2
    <2>3. ASSUME NEW expires,
                 records' = [recs EXCEPT ![id] = [state |-> "pending", subject |-> s, expires |-> expires]],
                 asked' = [asked EXCEPT ![id] = [subject |-> s, expires |-> expires, boot |-> happened.stops]]
          PROVE  OnceInv'
      <3>1. id \in Ids \ granted /\ Settled(s)
        BY <2>1 DEF GateInv, AbsentFresh, OnceInv
      <3>2. /\ recs \in [Ids -> ApprovalRecords]
            /\ \A j \in Ids : recs[j].subject = records[j].subject
                              /\ (recs[j].state = "none" <=> records[j].state = "none")
        BY <1>0, ExpireKeeps
      <3>3. PICK c \in Calls(Places) : /\ attempts' = [attempts EXCEPT ![a] = c] /\ c.at # "absent"
                                       /\ ~(c.at = "authorized" \/ (c.at = "cleared" /\ Enforces))
        BY <1>0, <2>1, Blocking
      <3>4. \A b \in Handlers : attempts'[b] = IF b = a THEN c ELSE attempts[b]
        BY <1>0, <3>3 DEF GateTypes
      <3> HIDE DEF recs, id, s
      <3>5. /\ \A j \in Ids : j # id => asked'[j] = asked[j] /\ records'[j] = recs[j]
            /\ asked'[id].boot = happened.stops /\ records'[id].subject = s
        BY <1>0, <2>3, <3>1, <3>2 DEF GateTypes
      <3>6. \A j \in Ids : records'[j].state # "none" =>
               asked'[j].boot = happened.stops /\ Settled(records'[j].subject)
        BY <3>1, <3>2, <3>5 DEF OnceInv, ThisBoot
      <3>7. \A b \in Handlers : attempts'[b].at = "absent" => Settled(attempts'[b].subject)
        BY <3>3, <3>4 DEF OnceInv
      <3>8. \A b \in Handlers : AtHand(b)' =>
               asked'[attempts'[b].id].boot = happened.stops /\ Settled(attempts'[b].subject)
        <4> SUFFICES ASSUME NEW b \in Handlers, AtHand(b)'
                     PROVE  asked'[attempts'[b].id].boot = happened.stops /\ Settled(attempts'[b].subject)
          OBVIOUS
        <4>1. attempts'[b] = attempts[b] /\ AtHand(b)
          BY <2>1, <3>3, <3>4 DEF AtHand, Enforces
        <4>2. attempts[b].id \in Ids /\ attempts[b].id # id
          BY <1>0, <3>1, <4>1 DEF GateTypes
        <4> QED
          BY <3>5, <4>1, <4>2 DEF OnceInv, ThisBoot
      <3>9. \A n \in DOMAIN executed : asked'[executed[n].id] = asked[executed[n].id]
        BY <1>0, <3>1, <3>5
      <3> QED
        BY <2>1, <3>6, <3>7, <3>8, <3>9, OnceStays
    <2> QED
      BY <2>1, <2>2, <2>3
  <1>7. ASSUME NEW i \in Ids, NEW approved \in BOOLEAN, Decide(i, approved) PROVE OnceInv'
    <2> DEFINE recs == Expire(now)
               state == IF approved THEN "granted" ELSE "denied"
    <2>1. /\ UNCHANGED <<gateMode, consumed, attempts, asked, executed, forgotten, happened>>
          /\ records' = [recs EXCEPT ![i].state = state] /\ recs[i].state = "pending"
      BY <1>7 DEF Decide
    <2>2. /\ recs \in [Ids -> ApprovalRecords]
          /\ \A j \in Ids : recs[j].subject = records[j].subject
                            /\ (recs[j].state = "none" <=> records[j].state = "none")
      BY <1>0, ExpireKeeps
    <2> HIDE DEF recs, state
    <2>3. \A j \in Ids : records'[j].subject = records[j].subject
                         /\ (records'[j].state # "none" => records[j].state # "none")
      BY <2>1, <2>2 DEF ApprovalRecords
    <2> QED
      BY <2>1, <2>3, OnceStays DEF OnceInv, ThisBoot, AtHand, Enforces
  <1>8. CASE ListPending
    <2>1. /\ UNCHANGED <<gateMode, consumed, attempts, asked, executed, forgotten, happened>>
          /\ records' = Expire(now)
      BY <1>8 DEF ListPending, historyVars
    <2>2. \A j \in Ids : records'[j].subject = records[j].subject
                         /\ (records'[j].state # "none" => records[j].state # "none")
      BY <1>0, <2>1, ExpireKeeps
    <2> QED
      BY <2>1, <2>2, OnceStays DEF OnceInv, ThisBoot, AtHand, Enforces
  <1>9. ASSUME NEW a \in Handlers, Authorize(a) PROVE OnceInv'
    <2>1. /\ UNCHANGED <<gateMode, records, consumed, asked, executed, forgotten>>
          /\ happened'.stops = happened.stops /\ attempts[a].at = "authorized"
          /\ GoesTo(a, "cleared", attempts[a].id) \/ Blocks(a)
      BY <1>0, <1>9 DEF Authorize, store, historyVars, GateFault, GateTypes, WithoutEvidence
    <2>2. CASE Blocks(a)
      BY <1>2, <2>1, <2>2
    <2>3. CASE GoesTo(a, "cleared", attempts[a].id)
      <3>1. PICK c \in Calls(Places) : /\ attempts' = [attempts EXCEPT ![a] = c] /\ c.at = "cleared"
                                       /\ c.subject = attempts[a].subject /\ c.id = attempts[a].id
        <4>1. attempts[a].id \in Nat /\ "cleared" \in Places
          BY <1>0 DEF GateTypes, Calls, Places
        <4> QED
          BY <1>0, <2>3, <4>1, Going
      <3>2. asked[c.id].boot = happened.stops /\ Settled(c.subject)
        BY <2>1, <3>1 DEF OnceInv, AtHand, ThisBoot
      <3> QED
        BY <1>0, <2>1, <3>1, <3>2, OnceBlocked
    <2> QED
      BY <2>1, <2>2, <2>3
  <1>10. ASSUME NEW a \in Handlers, Send(a) PROVE OnceInv'
    <2>1. /\ attempts[a].at = "cleared" /\ attempts' = [attempts EXCEPT ![a] = Idle]
          /\ UNCHANGED <<gateMode, records, consumed, asked, forgotten, happened>>
          /\ Idle.at = "idle" /\ Idle \in Calls(Places)
      BY <1>10, IdleCall DEF Send, Ends, store, Idle
    <2>2. CASE ~Enforces
      <3>1. executed' = executed
        BY <1>10, <2>2 DEF Send
      <3> QED
        BY <1>0, <2>1, <3>1, OnceBlocked
    <2>3. CASE Enforces
      <3> DEFINE e == [attempts[a] EXCEPT !.at = "sent"]
      <3>1. e.id = attempts[a].id /\ e.subject = attempts[a].subject
        <4>1. attempts[a] \in Calls(Places)
          BY <1>0 DEF GateTypes
        <4> QED
          BY <4>1 DEF Calls
      <3>2. executed' = Append(executed, e)
        BY <1>10, <2>3 DEF Send
      <3>3. AtHand(a) /\ ThisBoot(e.id) /\ Settled(e.subject)
        BY <2>1, <2>3, <3>1 DEF AtHand, OnceInv
      <3> HIDE DEF e
      <3>4. /\ DOMAIN executed' = DOMAIN executed \cup {Len(executed) + 1}
            /\ \A n \in DOMAIN executed : executed'[n] = executed[n]
            /\ executed'[Len(executed) + 1] = e
        <4>1. executed \in Seq(Calls({"sent"}))
          BY <1>0 DEF GateTypes
        <4>2. /\ DOMAIN executed = 1 .. Len(executed) /\ DOMAIN executed' = 1 .. Len(executed) + 1
              /\ Len(executed) \in Nat
              /\ \A n \in 1 .. Len(executed) : executed'[n] = executed[n]
              /\ executed'[Len(executed) + 1] = e
          BY <3>2, <4>1, Appended
        <4> QED
          BY <4>2
      <3>5. \A i : ThisBoot(i)' <=> ThisBoot(i)
        BY <2>1 DEF ThisBoot
      <3>6. \A s : Settled(s) => Settled(s)'
        <4> SUFFICES ASSUME NEW s, Settled(s), NEW n \in DOMAIN executed', executed'[n].subject = s
                     PROVE  executed'[n].id \in forgotten' \/ ThisBoot(executed'[n].id)
          BY <3>5 DEF Settled, ThisBoot
        <4>1. CASE n \in DOMAIN executed
          BY <2>1, <3>4, <4>1 DEF Settled
        <4>2. CASE n = Len(executed) + 1
          BY <3>3, <3>4, <4>2
        <4> QED
          BY <3>4, <4>1, <4>2
      <3>7. \A b \in Handlers : attempts'[b].at # "idle" => attempts'[b] = attempts[b]
        BY <1>0, <2>1 DEF GateTypes
      <3>8. \A i \in Ids : records'[i].state # "none" => ThisBoot(i)' /\ Settled(records[i].subject)'
        <4> SUFFICES ASSUME NEW i \in Ids, records'[i].state # "none"
                     PROVE  ThisBoot(i)' /\ Settled(records[i].subject)'
          OBVIOUS
        <4>1. ThisBoot(i) /\ Settled(records[i].subject) /\ records' = records
          BY <2>1 DEF OnceInv
        <4> QED
          BY <3>5, <3>6, <4>1 DEF Settled, ThisBoot
      <3>9. \A b \in Handlers : attempts'[b].at = "absent" => Settled(attempts[b].subject)'
        <4> SUFFICES ASSUME NEW b \in Handlers, attempts'[b].at = "absent"
                     PROVE  Settled(attempts[b].subject)'
          OBVIOUS
        <4>1. attempts'[b] = attempts[b] /\ Settled(attempts[b].subject)
          BY <3>7 DEF OnceInv
        <4> QED
          BY <3>6, <4>1 DEF Settled, ThisBoot
      <3>10. \A b \in Handlers : AtHand(b)' => ThisBoot(attempts[b].id)' /\ Settled(attempts[b].subject)'
        <4> SUFFICES ASSUME NEW b \in Handlers, AtHand(b)'
                     PROVE  ThisBoot(attempts[b].id)' /\ Settled(attempts[b].subject)'
          OBVIOUS
        <4>1. attempts'[b] = attempts[b] /\ AtHand(b)
          BY <2>1, <3>7 DEF AtHand, Enforces
        <4>2. ThisBoot(attempts[b].id) /\ Settled(attempts[b].subject)
          BY <4>1 DEF OnceInv
        <4> QED
          BY <3>5, <3>6, <4>1, <4>2 DEF Settled, ThisBoot
      <3>11. \A n \in DOMAIN executed' : \/ executed'[n].id \in forgotten'
                                         \/ executed'[n].subject \in consumed'
                                         \/ ThisBoot(executed[n].id)'
        BY <2>1, <3>3, <3>4 DEF OnceInv, ThisBoot
      <3>12. ExecutedOnce'
        <4>1. \A n \in DOMAIN executed : executed[n].subject = e.subject =>
                 executed[n].id \in forgotten \/ asked[executed[n].id].boot = asked[e.id].boot
          BY <3>3 DEF Settled, ThisBoot
        <4>2. \A m, n \in DOMAIN executed : executed[m].subject = executed[n].subject =>
                 \/ forgotten \cap {executed[m].id, executed[n].id} # {}
                 \/ asked[executed[m].id].boot = asked[executed[n].id].boot
          BY DEF OnceInv, ExecutedOnce
        <4> SUFFICES ASSUME NEW m \in DOMAIN executed', NEW n \in DOMAIN executed',
                            executed'[m].subject = executed'[n].subject
                     PROVE  \/ forgotten \cap {executed'[m].id, executed'[n].id} # {}
                            \/ asked[executed'[m].id].boot = asked[executed'[n].id].boot
          BY <2>1 DEF ExecutedOnce
        <4>3. CASE m \in DOMAIN executed /\ n \in DOMAIN executed
          BY <3>4, <4>2, <4>3
        <4>4. CASE m = Len(executed) + 1
          BY <3>4, <4>1, <4>4
        <4>5. CASE n = Len(executed) + 1
          BY <3>4, <4>1, <4>5
        <4> QED
          BY <3>4, <4>3, <4>4, <4>5
      <3> QED
        BY <3>8, <3>9, <3>10, <3>11, <3>12 DEF OnceInv
    <2> QED
      BY <2>2, <2>3
  <1>11. ASSUME NEW left \in kept .. Len(evidence), GateStop(left) PROVE OnceInv'
    <2>1. /\ evidence' = SubSeq(evidence, 1, left) /\ UNCHANGED <<asked, executed>>
          /\ forgotten' = forgotten \cup (Range(evidence) \ Range(evidence'))
          /\ records' = [i \in Ids |-> NoRecord] /\ consumed' = Warm(evidence')
          /\ attempts' = [a \in Handlers |-> Idle]
          /\ NoRecord.state = "none" /\ Idle.at = "idle"
      BY <1>11 DEF GateStop, NoRecord, Idle
    <2>2. ASSUME NEW n \in DOMAIN executed, executed[n].id \notin forgotten'
          PROVE  executed[n].subject \in consumed'
      <3>1. executed[n].id \in Range(evidence')
        BY <2>1, <2>2 DEF RecordInv, OnRecord
      <3>2. PICK k \in DOMAIN evidence' : evidence'[k] = executed[n].id
        BY <3>1 DEF Range
      <3>3. asked[evidence'[k]].subject = executed[n].subject
        BY <1>0, <3>2
      <3> QED
        BY <2>1, <3>2, <3>3 DEF Warm
    <2>3. ExecutedOnce'
      BY <2>1 DEF OnceInv, ExecutedOnce
    <2> QED
      BY <2>1, <2>2, <2>3 DEF OnceInv, AtHand
  <1>12. CASE UNCHANGED <<gateMode, records, consumed, attempts, asked, executed, forgotten, happened>>
    BY <1>12, OnceStays DEF OnceInv, ThisBoot, AtHand, Enforces
  <1> QED
    BY <1>1, <1>3, <1>4, <1>5, <1>6, <1>7, <1>8, <1>9, <1>10, <1>11, <1>12
       DEF GateNext, FlushEvidence, GateTick, store, historyVars, gateVars

\* No subject is executed twice in enforce, also across restarts, unless a power
\* failure took the evidence of the first time or both approvals were asked for
\* in one process (warm_consumed takes the executed subjects from the log, and
\* consume refuses those).
THEOREM SubjectsOnce == GateSpec => []ExecutedOnce
  <1>1. GateInit => GateInv /\ RecordInv /\ OnceInv
    <2> SUFFICES ASSUME GateInit PROVE GateInv /\ RecordInv /\ OnceInv
      OBVIOUS
    <2>1. GateInv
      BY InitInv, GateAssumption
    <2>2. RecordInv
      BY <2>1 DEF GateInv, GateTypes, GateInit, RecordInv, Idle
    <2>3. OnceInv
      BY DEF GateInit, OnceInv, AtHand, NoRecord, Idle, ExecutedOnce
    <2> QED
      BY <2>1, <2>2, <2>3
  <1>2. GateInv /\ RecordInv /\ OnceInv /\ [GateNext]_gateVars => GateInv' /\ RecordInv' /\ OnceInv'
    BY GateStepInv, RecordStep, OnceStep, GateAssumption
  <1>3. OnceInv => ExecutedOnce
    BY DEF OnceInv
  <1> QED
    BY <1>1, <1>2, <1>3, PTL DEF GateSpec

-----------------------------------------------------------------------------
(* Types and limits *)

\* No more requests are pending than a person shall be asked at once.
Limits(recs) ==
    /\ Cardinality(Pending(recs)) <= MaxPendingGlobal
    /\ \A g \in Agents :
          Cardinality({i \in Pending(recs) : recs[i].subject.agent = g}) <= MaxPendingPerAgent

CallsBounded ==
    \A a \in Handlers : attempts[a].now \in 0 .. MaxGateClock /\ attempts[a].id \in Ids \cup {0}

GateBounds ==
    /\ gateMode \in GateModes /\ now \in 0 .. MaxGateClock /\ drawn \in 0 .. MaxApprovals
    /\ consumed \subseteq Subjects /\ CallsBounded
    /\ evidence \in Seq(Ids) /\ kept \in 0 .. Len(evidence)
    /\ Limits(records)

LEMMA PendingFinite ==
    GateAssumption => \A recs : IsFiniteSet(Pending(recs)) /\ Cardinality(Pending(recs)) \in Nat
  <1> SUFFICES ASSUME GateAssumption, NEW recs
               PROVE  IsFiniteSet(Pending(recs)) /\ Cardinality(Pending(recs)) \in Nat
    OBVIOUS
  <1>1. IsFiniteSet(Ids)
    BY FS_Interval DEF GateAssumption, Ids
  <1>2. Pending(recs) \subseteq Ids
    BY DEF Pending
  <1>3. IsFiniteSet(Pending(recs))
    BY <1>1, <1>2, FS_Subset
  <1> QED
    BY <1>3, FS_CardinalityType

\* Whatever else happens to the requests, none becomes pending.
LEMMA NoneMore ==
    ASSUME GateAssumption, NEW recs, NEW new, Limits(recs),
           \A i \in Ids : new[i].state = "pending" =>
               recs[i].state = "pending" /\ new[i].subject = recs[i].subject
    PROVE  Limits(new)
  <1>1. /\ IsFiniteSet(Pending(recs)) /\ Pending(new) \subseteq Pending(recs)
        /\ MaxPendingGlobal \in Nat /\ MaxPendingPerAgent \in Nat
    BY PendingFinite DEF Pending, GateAssumption
  <1>2. Cardinality(Pending(new)) <= MaxPendingGlobal
    <2>1. /\ Cardinality(Pending(new)) <= Cardinality(Pending(recs))
          /\ Cardinality(Pending(new)) \in Nat /\ Cardinality(Pending(recs)) \in Nat
      BY <1>1, PendingFinite, FS_Subset
    <2> QED
      BY <1>1, <2>1 DEF Limits
  <1>3. ASSUME NEW g \in Agents
        PROVE  Cardinality({i \in Pending(new) : new[i].subject.agent = g}) <= MaxPendingPerAgent
    <2> DEFINE A == {i \in Pending(recs) : recs[i].subject.agent = g}
               B == {i \in Pending(new) : new[i].subject.agent = g}
    <2>1. A \subseteq Pending(recs) /\ B \subseteq A
      BY DEF Pending
    <2>2. Cardinality(A) <= MaxPendingPerAgent
      BY DEF Limits
    <2> HIDE DEF A, B
    <2>3. IsFiniteSet(A) /\ IsFiniteSet(B) /\ Cardinality(B) <= Cardinality(A)
      BY <1>1, <2>1, FS_Subset
    <2>4. Cardinality(A) \in Nat /\ Cardinality(B) \in Nat
      BY <2>3, FS_CardinalityType
    <2>5. Cardinality(B) <= MaxPendingPerAgent
      BY <1>1, <2>2, <2>3, <2>4
    <2> QED
      BY <2>5 DEF B
  <1> QED
    BY <1>2, <1>3 DEF Limits

\* A request that found room leaves the limits respected.
LEMMA OneMore ==
    ASSUME GateAssumption, NEW recs, Limits(recs), NEW s, HasRoom(recs, s),
           NEW new, NEW id \in Ids, new[id].subject = s,
           \A i \in Ids : i # id => new[i] = recs[i]
    PROVE  Limits(new)
  <1>1. /\ IsFiniteSet(Pending(recs)) /\ Cardinality(Pending(recs)) \in Nat
        /\ Pending(new) \subseteq Pending(recs) \cup {id}
        /\ MaxPendingGlobal \in Nat /\ MaxPendingPerAgent \in Nat
    BY PendingFinite DEF Pending, GateAssumption
  <1>2. ASSUME NEW S, NEW T, IsFiniteSet(S), T \subseteq S \cup {id}
        PROVE  Cardinality(T) <= Cardinality(S) + 1 /\ Cardinality(T) \in Nat /\ Cardinality(S) \in Nat
    <2>1. /\ IsFiniteSet(S \cup {id}) /\ Cardinality(S) \in Nat
          /\ Cardinality(S \cup {id}) = Cardinality(S) \/ Cardinality(S \cup {id}) = Cardinality(S) + 1
      BY <1>2, FS_AddElement, FS_CardinalityType
    <2>2. IsFiniteSet(T) /\ Cardinality(T) <= Cardinality(S \cup {id})
      BY <1>2, <2>1, FS_Subset
    <2>3. Cardinality(T) \in Nat
      BY <2>2, FS_CardinalityType
    <2> QED
      BY <2>1, <2>2, <2>3
  <1>3. Cardinality(Pending(new)) <= MaxPendingGlobal
    <2>1. /\ Cardinality(Pending(new)) <= Cardinality(Pending(recs)) + 1
          /\ Cardinality(Pending(new)) \in Nat
      BY <1>1, <1>2
    <2>2. Cardinality(Pending(recs)) < MaxPendingGlobal
      BY DEF HasRoom
    <2> QED
      BY <1>1, <2>1, <2>2
  <1>4. ASSUME NEW g \in Agents
        PROVE  Cardinality({i \in Pending(new) : new[i].subject.agent = g}) <= MaxPendingPerAgent
    <2> DEFINE A == {i \in Pending(recs) : recs[i].subject.agent = g}
               B == {i \in Pending(new) : new[i].subject.agent = g}
    <2>1. /\ A \subseteq Pending(recs) /\ B \subseteq A \cup {id}
          /\ g # s.agent => B \subseteq A
      BY DEF Pending
    <2>2. /\ Cardinality(A) <= MaxPendingPerAgent
          /\ g = s.agent => Cardinality(A) < MaxPendingPerAgent
      BY DEF Limits, HasRoom
    <2> HIDE DEF A, B
    <2>3. IsFiniteSet(A)
      BY <1>1, <2>1, FS_Subset
    <2>4. Cardinality(B) <= Cardinality(A) + 1 /\ Cardinality(B) \in Nat /\ Cardinality(A) \in Nat
      BY <1>2, <2>1, <2>3
    <2>5. g # s.agent => Cardinality(B) <= Cardinality(A)
      BY <2>1, <2>3, FS_Subset
    <2>6. Cardinality(B) <= MaxPendingPerAgent
      BY <1>1, <2>2, <2>4, <2>5
    <2> QED
      BY <2>6 DEF B
  <1> QED
    BY <1>3, <1>4 DEF Limits

\* Expiry makes nothing pending, and a request changes hands without becoming so.
LEMMA ExpireLimits ==
    ASSUME GateAssumption, GateTypes, Limits(records), NEW t PROVE Limits(Expire(t))
  <1> DEFINE recs == Expire(t)
  <1>1. \A i \in Ids : recs[i].state = "pending" =>
            records[i].state = "pending" /\ recs[i].subject = records[i].subject
    BY ExpireKeeps
  <1> HIDE DEF recs
  <1>2. Limits(recs)
    BY <1>1, NoneMore
  <1> QED
    BY <1>2 DEF recs

LEMMA GoingBounded ==
    ASSUME GateTypes, CallsBounded, NEW a \in Handlers, NEW at, NEW id \in Ids \cup {0}, GoesTo(a, at, id)
    PROVE  CallsBounded'
  <1>1. ASSUME NEW b \in Handlers
        PROVE  attempts'[b].now = attempts[b].now /\ attempts'[b].id \in {attempts[b].id, id}
    BY DEF GoesTo, GateTypes
  <1> QED
    BY <1>1 DEF CallsBounded

LEMMA IdleBounded == GateAssumption => Idle.now \in 0 .. MaxGateClock /\ Idle.id \in Ids \cup {0}
  BY DEF GateAssumption, Idle

LEMMA EndingBounded ==
    ASSUME GateAssumption, GateTypes, CallsBounded, NEW a \in Handlers, Ends(a) PROVE CallsBounded'
  <1>1. \A b \in Handlers : attempts'[b] \in {attempts[b], Idle}
    BY DEF Ends, GateTypes
  <1> QED
    BY <1>1, IdleBounded DEF CallsBounded

LEMMA BlockingBounded ==
    ASSUME GateAssumption, GateTypes, CallsBounded, NEW a \in Handlers, Blocks(a) PROVE CallsBounded'
  <1>1. attempts[a].id \in Ids \cup {0}
    BY DEF CallsBounded
  <1> QED
    BY <1>1, EndingBounded, GoingBounded DEF Blocks

\* What an attempt does to the records and to its own place.
LEMMA ConsumeBounds ==
    ASSUME GateAssumption, GateTypes, GateBounds, NEW a \in Handlers,
           \/ \E i \in Ids : ConsumeGranted(a, i) \/ ConsumeOther(a, i)
           \/ ConsumeNothing(a)
    PROVE  GateBounds'
  <1>0. /\ CallsBounded /\ Limits(records) /\ Ids \subseteq Ids \cup {0}
        /\ consumed \subseteq Subjects /\ attempts[a].subject \in Subjects
    BY DEF GateBounds, GateTypes, Calls
  <1> DEFINE recs == Expire(attempts[a].now)
  <1>1. /\ Limits(recs) /\ recs \in [Ids -> ApprovalRecords]
    BY <1>0, ExpireKeeps, ExpireLimits
  <1>2. ASSUME NEW i \in Ids, ConsumeGranted(a, i) PROVE GateBounds'
    <2>1. /\ recs[i].state = "granted" /\ records' = [recs EXCEPT ![i].state = "consumed"]
          /\ consumed' = consumed \cup {attempts[a].subject} /\ GoesTo(a, "authorized", i)
          /\ UNCHANGED <<gateMode, now, evidence, kept, drawn>>
      BY <1>2 DEF ConsumeGranted, onRecord
    <2> HIDE DEF recs
    <2>2. \A j \in Ids : records'[j].state = "pending" =>
              recs[j].state = "pending" /\ records'[j].subject = recs[j].subject
      <3>1. \A j \in Ids : j # i => records'[j] = recs[j]
        BY <1>1, <2>1
      <3>2. records'[i].state = "consumed"
        BY <1>1, <2>1 DEF ApprovalRecords
      <3> QED
        BY <3>1, <3>2
    <2>3. Limits(records')
      BY <1>1, <2>2, NoneMore
    <2>4. CallsBounded'
      BY <1>0, <2>1, GoingBounded
    <2> QED
      BY <1>0, <2>1, <2>3, <2>4 DEF GateBounds, Limits, Pending
  <1>3. ASSUME NEW i \in Ids, ConsumeOther(a, i) PROVE GateBounds'
    <2>1. /\ records' = recs /\ Blocks(a) /\ UNCHANGED <<gateMode, now, consumed, evidence, kept, drawn>>
      BY <1>3 DEF ConsumeOther, onRecord
    <2>2. CallsBounded'
      BY <1>0, <2>1, BlockingBounded
    <2> HIDE DEF recs
    <2> QED
      BY <1>1, <2>1, <2>2 DEF GateBounds, Limits, Pending
  <1>4. CASE ConsumeNothing(a)
    <2>1. /\ records' = recs /\ UNCHANGED <<gateMode, now, consumed, evidence, kept>>
          /\ \/ Blocks(a) /\ UNCHANGED drawn
             \/ drawn < MaxApprovals /\ drawn' = drawn + 1 /\ GoesTo(a, "absent", drawn + 1)
      BY <1>4 DEF ConsumeNothing, onRecord
    <2> HIDE DEF recs
    <2>2. CallsBounded' /\ drawn' \in 0 .. MaxApprovals
      <3>1. CASE Blocks(a) /\ UNCHANGED drawn
        BY <1>0, <3>1, BlockingBounded DEF GateBounds
      <3>2. CASE drawn < MaxApprovals /\ drawn' = drawn + 1 /\ GoesTo(a, "absent", drawn + 1)
        <4>1. drawn + 1 \in Ids \cup {0} /\ drawn' \in 0 .. MaxApprovals
          BY <3>2 DEF GateBounds, Ids, GateAssumption
        <4> QED
          BY <1>0, <3>2, <4>1, GoingBounded
      <3> QED
        BY <2>1, <3>1, <3>2
    <2> QED
      BY <1>1, <2>1, <2>2 DEF GateBounds, Limits, Pending
  <1> QED
    BY <1>2, <1>3, <1>4

LEMMA AdmitBounds ==
    ASSUME GateAssumption, GateInv, GateBounds, NEW a \in Handlers, Admit(a) PROVE GateBounds'
  <1>0. GateTypes /\ CallsBounded /\ Limits(records)
    BY DEF GateBounds, GateInv
  <1> DEFINE recs == Expire(attempts[a].now)
             s == attempts[a].subject
             id == attempts[a].id
             expires == attempts[a].now + ApprovalTtl
             admitted == ~(\E i \in Pending(recs) : recs[i].subject = s) /\ HasRoom(recs, s)
             asks == [state |-> "pending", subject |-> s, expires |-> expires]
  <1>1. /\ records' = IF admitted THEN [recs EXCEPT ![id] = asks] ELSE recs
        /\ Blocks(a) /\ UNCHANGED <<gateMode, now, consumed, evidence, kept, drawn>>
    BY DEF Admit, onRecord
  <1>2. /\ Limits(recs) /\ recs \in [Ids -> ApprovalRecords]
    BY <1>0, ExpireKeeps, ExpireLimits
  <1>3. id \in Ids
    BY DEF GateInv, AbsentFresh, Admit
  <1>4. CallsBounded'
    BY <1>0, <1>1, BlockingBounded
  <1>5. asks.subject = s /\ (admitted => HasRoom(recs, s))
    OBVIOUS
  <1> HIDE DEF recs, id, s, admitted, asks
  <1>6. Limits(records')
    <2>1. CASE admitted
      <3>1. records'[id].subject = s /\ \A i \in Ids : i # id => records'[i] = recs[i]
        BY <1>1, <1>2, <1>3, <1>5, <2>1
      <3> QED
        BY <1>2, <1>3, <1>5, <2>1, <3>1, OneMore
    <2> QED
      BY <1>1, <1>2, <2>1
  <1> QED
    BY <1>1, <1>4, <1>6 DEF GateBounds, Limits, Pending

LEMMA DecideBounds ==
    ASSUME GateAssumption, GateTypes, GateBounds, NEW i \in Ids, NEW approved, Decide(i, approved)
    PROVE  GateBounds'
  <1> DEFINE recs == Expire(now)
             decided == IF approved THEN "granted" ELSE "denied"
  <1>1. /\ records' = [recs EXCEPT ![i].state = decided] /\ decided # "pending"
        /\ UNCHANGED <<gateMode, now, consumed, attempts, evidence, kept, drawn>>
    BY DEF Decide, onRecord
  <1>2. Limits(recs) /\ recs \in [Ids -> ApprovalRecords]
    BY ExpireKeeps, ExpireLimits DEF GateBounds
  <1> HIDE DEF recs, decided
  <1>3. \A j \in Ids : records'[j].state = "pending" =>
            recs[j].state = "pending" /\ records'[j].subject = recs[j].subject
    <2>1. \A j \in Ids : j # i => records'[j] = recs[j]
      BY <1>1, <1>2
    <2>2. records'[i].state = decided
      BY <1>1, <1>2 DEF ApprovalRecords
    <2> QED
      BY <1>1, <2>1, <2>2
  <1>4. Limits(records')
    BY <1>2, <1>3, NoneMore
  <1> QED
    BY <1>1, <1>4 DEF GateBounds, CallsBounded, Limits, Pending

\* The log grows by the approval of an attempt, which is one.
LEMMA AuthorizeBounds ==
    ASSUME GateAssumption, GateInv, GateBounds, NEW a \in Handlers, Authorize(a) PROVE GateBounds'
  <1>0. GateTypes /\ CallsBounded
    BY DEF GateBounds, GateInv
  <1>1. attempts[a].id \in Ids
    BY <1>0 DEF GateInv, InHandOwn, AtHand, Own, Authorize, GateTypes
  <1>2. /\ UNCHANGED <<gateMode, now, records, consumed, drawn>>
        /\ \/ /\ InLog(attempts[a].id) /\ GoesTo(a, "cleared", attempts[a].id)
              /\ kept' = IF EvidenceSynced THEN Len(evidence') ELSE kept
           \/ /\ Blocks(a) /\ kept' = kept
              /\ InLog(attempts[a].id) \/ evidence' = evidence
    BY DEF Authorize, WithoutEvidence, store
  <1>3. CallsBounded'
    BY <1>0, <1>1, <1>2, GoingBounded, BlockingBounded
  <1>4. evidence' \in Seq(Ids) /\ kept' \in 0 .. Len(evidence')
    <2>1. evidence \in Seq(Ids) /\ kept \in 0 .. Len(evidence)
      BY DEF GateBounds
    <2>2. CASE InLog(attempts[a].id)
      <3>1. evidence' \in Seq(Ids) /\ Len(evidence') = Len(evidence) + 1
        BY <1>1, <2>1, <2>2 DEF InLog
      <3> QED
        BY <1>2, <2>1, <3>1
    <2> QED
      BY <1>2, <2>1, <2>2
  <1> QED
    BY <1>2, <1>3, <1>4 DEF GateBounds, Limits, Pending

LEMMA GateStopBounds ==
    ASSUME GateAssumption, GateTypes, GateBounds, NEW left \in kept .. Len(evidence), GateStop(left)
    PROVE  GateBounds'
  <1>1. /\ evidence' = SubSeq(evidence, 1, left) /\ kept' = left
        /\ records' = [i \in Ids |-> NoRecord] /\ consumed' = Warm(evidence')
        /\ attempts' = [a \in Handlers |-> Idle] /\ UNCHANGED <<gateMode, now, drawn, asked>>
    BY DEF GateStop
  <1>2. evidence' \in Seq(Ids) /\ kept' \in 0 .. Len(evidence')
    <2>1. evidence \in Seq(Ids) /\ kept \in 0 .. Len(evidence) /\ left \in 0 .. Len(evidence)
      BY DEF GateBounds
    <2>2. evidence' \in Seq(Ids) /\ Len(evidence') = left
      BY <1>1, <2>1
    <2> QED
      BY <1>1, <2>1, <2>2
  <1>3. consumed' \subseteq Subjects
    <2>1. \A n \in DOMAIN evidence' : asked[evidence'[n]].subject \in Subjects
      BY <1>2 DEF GateTypes, Asks
    <2> QED
      BY <1>1, <2>1 DEF Warm
  <1>4. CallsBounded'
    BY <1>1, IdleBounded DEF CallsBounded
  <1>5. Limits(records')
    <2>1. \A i \in Ids : records'[i].state = "pending" =>
              records[i].state = "pending" /\ records'[i].subject = records[i].subject
      BY <1>1 DEF NoRecord
    <2> QED
      BY <2>1, NoneMore DEF GateBounds
  <1> QED
    BY <1>1, <1>2, <1>3, <1>4, <1>5 DEF GateBounds, Limits, Pending

LEMMA GateBoundsStep ==
    ASSUME GateAssumption, GateInv, GateBounds, [GateNext]_gateVars PROVE GateBounds'
  <1>0. GateTypes /\ CallsBounded /\ Limits(records)
    BY DEF GateBounds, GateInv
  <1>1. ASSUME NEW a \in Handlers, NEW s \in Subjects, RecordRequest(a, s) PROVE GateBounds'
    <2>1. /\ UNCHANGED <<gateMode, now, records, consumed, evidence, kept, drawn>>
          /\ \/ attempts' = [attempts EXCEPT ![a] = [at |-> "recorded", subject |-> s, now |-> now, id |-> 0]]
             \/ UNCHANGED attempts
      BY <1>1 DEF RecordRequest, store, onRecord
    <2>2. CallsBounded'
      <3>1. ASSUME NEW b \in Handlers
            PROVE  \/ attempts'[b] = attempts[b]
                   \/ attempts'[b].now = now /\ attempts'[b].id = 0
        BY <1>0, <2>1 DEF GateTypes
      <3> QED
        BY <3>1 DEF CallsBounded, GateBounds
    <2> QED
      BY <2>1, <2>2 DEF GateBounds, Limits, Pending
  <1>2. ASSUME NEW a \in Handlers, Send(a) PROVE GateBounds'
    <2>1. Ends(a) /\ UNCHANGED <<gateMode, now, records, consumed, evidence, kept, drawn>>
      BY <1>2 DEF Send, store, onRecord
    <2> QED
      BY <1>0, <2>1, EndingBounded DEF GateBounds, Limits, Pending
  <1>3. CASE ListPending
    <2>1. records' = Expire(now) /\ UNCHANGED <<gateMode, now, consumed, attempts, evidence, kept, drawn>>
      BY <1>3 DEF ListPending, onRecord
    <2>2. Limits(Expire(now))
      BY <1>0, ExpireLimits
    <2> QED
      BY <2>1, <2>2 DEF GateBounds, CallsBounded, Limits, Pending
  <1>4. CASE FlushEvidence
    BY <1>4 DEF FlushEvidence, store, GateBounds, CallsBounded, Limits, Pending
  <1>5. CASE GateTick
    BY <1>5 DEF GateTick, store, onRecord, GateBounds, CallsBounded, Limits, Pending
  <1>6. CASE UNCHANGED gateVars
    BY <1>6 DEF gateVars, store, onRecord, GateBounds, CallsBounded, Limits, Pending
  <1>7. ASSUME NEW left \in kept .. Len(evidence), GateStop(left) PROVE GateBounds'
    BY <1>0, <1>7, GateStopBounds
  <1>8. ASSUME NEW i \in Ids, NEW approved \in BOOLEAN, Decide(i, approved) PROVE GateBounds'
    BY <1>0, <1>8, DecideBounds
  <1>9. ASSUME NEW a \in Handlers, ConsumeNothing(a) \/ Admit(a) \/ Authorize(a) PROVE GateBounds'
    BY <1>0, <1>9, ConsumeBounds, AdmitBounds, AuthorizeBounds
  <1>10. ASSUME NEW a \in Handlers, NEW i \in Ids, ConsumeGranted(a, i) \/ ConsumeOther(a, i)
         PROVE  GateBounds'
    BY <1>0, <1>10, ConsumeBounds
  <1> QED
    BY <1>1, <1>2, <1>3, <1>4, <1>5, <1>6, <1>7, <1>8, <1>9, <1>10 DEF GateNext

LEMMA GateBoundsInit == ASSUME GateAssumption, GateInit PROVE GateBounds
  <1>1. CallsBounded
    BY IdleBounded DEF GateInit, CallsBounded
  <1>2. Pending(records) = {}
    BY DEF GateInit, Pending, NoRecord
  <1>3. Limits(records)
    BY <1>2, FS_EmptySet DEF Limits, GateAssumption
  <1> QED
    BY <1>1, <1>3 DEF GateInit, GateBounds, GateAssumption

LEMMA GateTyped == ASSUME GateAssumption, GateInv, GateBounds PROVE GateTypeOK
  <1>1. \A a \in Handlers : attempts[a] \in
           [at : Places, subject : Subjects, now : 0 .. MaxGateClock, id : Ids \cup {0}]
    BY DEF GateInv, GateTypes, Calls, GateBounds, CallsBounded
  <1>2. attempts \in [Handlers -> [at : Places, subject : Subjects, now : 0 .. MaxGateClock, id : Ids \cup {0}]]
    BY <1>1 DEF GateInv, GateTypes
  <1> QED
    BY <1>2 DEF GateTypeOK, GateInv, GateTypes, GateBounds, Limits, Ids, ApprovalRecords, RecordStates,
                Places, GateAssumption

(***************************************************************************)
(* Types, and the ceilings of request_bounded: whatever attempts run side  *)
(* by side, no more requests than either limit wait for a person.          *)
(***************************************************************************)
THEOREM PendingIsBounded == GateSpec => []GateTypeOK
  <1>1. GateInit => GateInv /\ GateBounds
    BY InitInv, GateBoundsInit, GateAssumption
  <1>2. GateInv /\ GateBounds /\ [GateNext]_gateVars => GateInv' /\ GateBounds'
    BY GateStepInv, GateBoundsStep, GateAssumption
  <1>3. GateInv /\ GateBounds => GateTypeOK
    BY GateTyped, GateAssumption
  <1> QED
    BY <1>1, <1>2, <1>3, PTL DEF GateSpec
=============================================================================
