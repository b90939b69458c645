--------------------------- MODULE Sentinel_proofs ---------------------------
(***************************************************************************)
(* Whatever the workers, the log, the window and the bounds: as long as    *)
(* nothing was lost and every cursor could be written, the snapshot is not *)
(* ahead of the cursor file nor the cursor ahead of the log (startup.rs,   *)
(* W <= C <= H), and a strict boot has nothing to refuse; and as long as   *)
(* the log loses nothing and the window holds all sources, every raw row   *)
(* the sentinel has gone past has exactly one event.                       *)
(***************************************************************************)
EXTENDS Sentinel, TLAPS, WellFoundedInduction, SequenceTheorems, FiniteSetTheorems

Stages == {"idle", "pass", "row", "commit", "done", "captured"}

\* What a worker does is a record, whatever is in the window it holds.
Working(d) ==
    /\ d = [at |-> d.at, upto |-> d.upto, hand |-> d.hand]
    /\ d.at \in Stages /\ d.upto \in Nat /\ d.hand.until \in Nat

WatchTypes ==
    /\ rows \in Seq(Nat) /\ rowsSure \in Nat
    /\ next \in Nat \ {0} /\ cursor \in Nat \ {0} /\ snapshot.until \in Nat
    /\ running \in {"up", "down", "refused"} /\ excused \in BOOLEAN
    /\ doing = [w \in SentinelWorkers |-> doing[w]]
    /\ \A w \in SentinelWorkers : Working(doing[w])

Holds(w) == doing[w].at \in {"row", "commit"}

\* The mutex of the cursor
OneHolds == \A v, w \in SentinelWorkers : Holds(v) /\ Holds(w) => v = w

\* A worker does not go past the head it read, nor the cursor past the log.
BelowHead ==
    running = "up" =>
        /\ next <= Len(rows) + 1
        /\ \A w \in SentinelWorkers :
              /\ doing[w].at \in {"pass", "row", "commit"} => doing[w].upto <= Len(rows)
              /\ doing[w].at = "row" => next <= doing[w].upto

\* In memory the cursor is the file's, but for the row being committed.
Ordered ==
    ~excused =>
        /\ running # "refused"
        /\ snapshot.until <= cursor /\ cursor <= Len(rows) + 1
        /\ running = "up" =>
              \A w \in SentinelWorkers :
                 /\ doing[w].at = "captured" => doing[w].hand.until <= cursor
                 /\ doing[w].at = "commit" => next = cursor + 1

Level ==
    ~excused /\ running = "up" /\ (\A w \in SentinelWorkers : doing[w].at # "commit")
        => next = cursor

WatchInv == WatchTypes /\ OneHolds /\ BelowHead /\ Ordered /\ Level

-----------------------------------------------------------------------------
\* The worker v, and no other, goes on to d.
LEMMA OneMoves ==
    ASSUME WatchTypes, NEW v \in SentinelWorkers, NEW d, Working(d),
           doing' = [doing EXCEPT ![v] = d]
    PROVE  /\ doing' = [w \in SentinelWorkers |-> doing'[w]]
           /\ \A w \in SentinelWorkers : Working(doing[w])'
           /\ doing'[v] = d
           /\ \A w \in SentinelWorkers \ {v} : doing'[w] = doing[w]
  <1>1. doing' = [w \in SentinelWorkers |-> IF w = v THEN d ELSE doing[w]]
    BY DEF WatchTypes
  <1>2. doing'[v] = d /\ \A w \in SentinelWorkers \ {v} : doing'[w] = doing[w]
    BY <1>1
  <1>3. \A w \in SentinelWorkers : Working(doing'[w])
    BY <1>2 DEF WatchTypes
  <1>4. \A w \in SentinelWorkers : Working(doing[w])'
    BY <1>3 DEF Working
  <1> QED
    BY <1>1, <1>2, <1>4

LEMMA DoingWorks ==
    ASSUME NEW at \in Stages, NEW upto \in Nat, NEW hand, hand.until \in Nat
    PROVE  /\ Working(Doing(at, upto, hand))
           /\ Doing(at, upto, hand).at = at /\ Doing(at, upto, hand).upto = upto
           /\ Doing(at, upto, hand).hand = hand
  BY DEF Doing, Working

LEMMA NoSnapshotUntil == NoSnapshot.until = 0
  BY DEF NoSnapshot

LEMMA RowWorks ==
    ASSUME NEW upto \in Nat
    PROVE  /\ Working(Doing("row", upto, NoSnapshot))
           /\ Doing("row", upto, NoSnapshot).at = "row"
           /\ Doing("row", upto, NoSnapshot).upto = upto
  BY DoingWorks, NoSnapshotUntil DEF Stages

LEMMA IdlingWorks == Working(Idling) /\ Idling.at = "idle"
  BY DoingWorks, NoSnapshotUntil DEF Idling, Stages

\* The next stage of a worker keeps the rest of its record.
LEMMA NextStage ==
    ASSUME WatchTypes, NEW w \in SentinelWorkers, NEW at \in Stages, Goes(w, at)
    PROVE  \E d : /\ Working(d) /\ doing' = [doing EXCEPT ![w] = d]
                  /\ d.at = at /\ d.upto = doing[w].upto /\ d.hand = doing[w].hand
  <1> DEFINE d == [doing[w] EXCEPT !.at = at]
  <1>1. d = [at |-> at, upto |-> doing[w].upto, hand |-> doing[w].hand]
    BY DEF WatchTypes, Working
  <1>2. Working(d)
    BY <1>1 DEF WatchTypes, Working
  <1>3. doing' = [doing EXCEPT ![w] = d]
    BY DEF Goes
  <1>4. d.at = at /\ d.upto = doing[w].upto /\ d.hand = doing[w].hand
    BY <1>1
  <1> HIDE DEF d
  <1> QED
    BY <1>2, <1>3, <1>4

\* The log only grows.
Grows == rows' \in Seq(Nat) /\ rowsSure' \in Nat /\ Len(rows) <= Len(rows')

LEMMA LogGrows ==
    ASSUME WatchTypes, NEW row \in Nat, AppendRow(row)
    PROVE  Grows
  BY DEF WatchTypes, AppendRow, Grows

LEMMA InitWatch == ASSUME SentinelAssumption, SentinelInit PROVE WatchInv
  <1>1. NoSnapshot.until = 0 /\ Len(rows) = 0 /\ rows \in Seq(Nat)
    BY NoSnapshotUntil DEF SentinelInit
  <1>2. /\ doing = [w \in SentinelWorkers |-> doing[w]]
        /\ \A w \in SentinelWorkers : Working(doing[w]) /\ doing[w].at = "idle"
    BY IdlingWorks DEF SentinelInit
  <1>5. /\ rowsSure = 0 /\ next = 1 /\ cursor = 1 /\ snapshot.until = 0
        /\ running = "up" /\ excused = FALSE
    BY NoSnapshotUntil DEF SentinelInit
  <1>6. \A w \in SentinelWorkers : Working(doing[w])
    BY <1>2
  <1>7. rowsSure \in Nat /\ next \in Nat \ {0} /\ cursor \in Nat \ {0} /\ snapshot.until \in Nat
    BY <1>5
  <1>3. WatchTypes
    BY <1>1, <1>2, <1>5, <1>6, <1>7 DEF WatchTypes
  <1>4. OneHolds /\ BelowHead /\ Ordered /\ Level
    BY <1>1, <1>2 DEF SentinelInit, OneHolds, BelowHead, Ordered, Level, Holds
  <1> QED
    BY <1>3, <1>4 DEF WatchInv

\* The log grows and nobody moves.
LEMMA NobodyMoves ==
    ASSUME WatchInv, Grows,
           UNCHANGED <<next, cursor, snapshot, running, excused, doing>>
    PROVE  WatchInv'
  <1>1. WatchTypes'
    BY DEF WatchInv, WatchTypes, Grows, Working
  <1>2. OneHolds' /\ Level'
    BY DEF WatchInv, OneHolds, Level, Holds
  <1>3. Len(rows) \in Nat /\ Len(rows') \in Nat
    BY DEF WatchInv, WatchTypes, Grows
  <1>4. BelowHead'
    BY <1>1, <1>3 DEF WatchInv, BelowHead, Grows, WatchTypes, Working
  <1>5. Ordered'
    BY <1>1, <1>3 DEF WatchInv, Ordered, Grows, WatchTypes
  <1> QED
    BY <1>1, <1>2, <1>4, <1>5 DEF WatchInv

\* A worker goes where it does not hold the cursor.
LEMMA LetsGo ==
    ASSUME WatchInv, Grows, running = "up",
           NEW v \in SentinelWorkers, NEW d, Working(d), doing' = [doing EXCEPT ![v] = d],
           d.at \notin {"row", "commit"},
           d.at = "pass" => d.upto <= Len(rows),
           d.at = "captured" => excused \/ d.hand.until <= cursor,
           doing[v].at = "commit" => excused',
           excused' \in BOOLEAN, excused => excused',
           snapshot'.until \in Nat, excused \/ snapshot'.until <= cursor,
           UNCHANGED <<next, cursor, running>>
    PROVE  WatchInv'
  <1>0. WatchTypes
    BY DEF WatchInv
  <1>1. /\ doing' = [w \in SentinelWorkers |-> doing'[w]]
        /\ \A w \in SentinelWorkers : Working(doing[w])'
        /\ doing'[v] = d
        /\ \A w \in SentinelWorkers \ {v} : doing'[w] = doing[w]
    BY <1>0, OneMoves
  <1>2. WatchTypes'
    BY <1>0, <1>1 DEF WatchTypes, Grows
  <1>3. OneHolds'
    BY <1>1 DEF WatchInv, OneHolds, Holds
  <1>4. Len(rows) \in Nat /\ Len(rows') \in Nat
    BY <1>0 DEF WatchTypes, Grows
  <1>5. BelowHead'
    <2>1. next' <= Len(rows') + 1
      BY <1>0, <1>4 DEF WatchInv, BelowHead, Grows, WatchTypes
    <2>2. \A w \in SentinelWorkers :
             /\ doing'[w].at \in {"pass", "row", "commit"} => doing'[w].upto <= Len(rows')
             /\ doing'[w].at = "row" => next' <= doing'[w].upto
      <3> SUFFICES ASSUME NEW w \in SentinelWorkers
                   PROVE  /\ doing'[w].at \in {"pass", "row", "commit"} =>
                                doing'[w].upto <= Len(rows')
                          /\ doing'[w].at = "row" => next' <= doing'[w].upto
        OBVIOUS
      <3>1. doing'[w].upto \in Nat
        BY <1>1 DEF Working
      <3>2. CASE w = v
        BY <1>1, <1>4, <3>1, <3>2 DEF Grows
      <3>3. CASE w # v
        BY <1>1, <1>4, <3>1, <3>3 DEF WatchInv, BelowHead, Grows
      <3> QED
        BY <3>2, <3>3
    <2> QED
      BY <2>1, <2>2 DEF BelowHead
  <1>6. Ordered'
    BY <1>0, <1>1, <1>2, <1>4 DEF WatchInv, Ordered, Grows, WatchTypes
  <1>7. Level'
    BY <1>1, <1>0 DEF WatchInv, Level, WatchTypes
  <1> QED
    BY <1>2, <1>3, <1>5, <1>6, <1>7 DEF WatchInv

\* What the worker that holds the cursor, and no other, does with it.
LEMMA KeepsHolding ==
    ASSUME WatchInv, Grows, running = "up",
           NEW v \in SentinelWorkers, NEW d, Working(d), doing' = [doing EXCEPT ![v] = d],
           Holds(v) \/ \A w \in SentinelWorkers : ~Holds(w),
           d.at \in {"row", "commit", "done"},
           d.at # "done" => d.upto <= Len(rows),
           next' \in Nat \ {0}, cursor' \in Nat \ {0}, excused \/ cursor <= cursor',
           d.at = "row" => next' <= d.upto,
           next' <= Len(rows) + 1,
           ~excused => next' = IF d.at = "commit" THEN cursor' + 1 ELSE cursor',
           UNCHANGED <<snapshot, running, excused>>
    PROVE  WatchInv'
  <1>0. WatchTypes
    BY DEF WatchInv
  <1>1. /\ doing' = [w \in SentinelWorkers |-> doing'[w]]
        /\ \A w \in SentinelWorkers : Working(doing[w])'
        /\ doing'[v] = d
        /\ \A w \in SentinelWorkers \ {v} : doing'[w] = doing[w] /\ ~Holds(w)
    BY <1>0, OneMoves DEF WatchInv, OneHolds
  <1>2. WatchTypes'
    BY <1>0, <1>1 DEF WatchTypes, Grows
  <1>3. OneHolds'
    BY <1>1 DEF OneHolds, Holds
  <1>4. Len(rows) \in Nat /\ Len(rows') \in Nat
    BY <1>0 DEF WatchTypes, Grows
  <1>5. BelowHead'
    <2>1. next' <= Len(rows') + 1
      BY <1>4 DEF Grows
    <2>2. \A w \in SentinelWorkers :
             /\ doing'[w].at \in {"pass", "row", "commit"} => doing'[w].upto <= Len(rows')
             /\ doing'[w].at = "row" => next' <= doing'[w].upto
      <3> SUFFICES ASSUME NEW w \in SentinelWorkers
                   PROVE  /\ doing'[w].at \in {"pass", "row", "commit"} =>
                                doing'[w].upto <= Len(rows')
                          /\ doing'[w].at = "row" => next' <= doing'[w].upto
        OBVIOUS
      <3>1. doing'[w].upto \in Nat
        BY <1>1 DEF Working
      <3>2. CASE w = v
        BY <1>1, <1>4, <3>1, <3>2 DEF Grows
      <3>3. CASE w # v
        BY <1>1, <1>4, <3>1, <3>3 DEF WatchInv, BelowHead, Grows, Holds
      <3> QED
        BY <3>2, <3>3
    <2> QED
      BY <2>1, <2>2 DEF BelowHead
  <1>6. Ordered'
    <2> SUFFICES ASSUME ~excused
                 PROVE  /\ running # "refused"
                        /\ snapshot.until <= cursor' /\ cursor' <= Len(rows') + 1
                        /\ \A w \in SentinelWorkers :
                              /\ doing'[w].at = "captured" => doing'[w].hand.until <= cursor'
                              /\ doing'[w].at = "commit" => next' = cursor' + 1
      BY DEF Ordered
    <2>1. snapshot.until <= cursor' /\ cursor' <= Len(rows') + 1
      BY <1>0, <1>4 DEF WatchInv, Ordered, WatchTypes, Grows
    <2>2. ASSUME NEW w \in SentinelWorkers
          PROVE  /\ doing'[w].at = "captured" => doing'[w].hand.until <= cursor'
                 /\ doing'[w].at = "commit" => next' = cursor' + 1
      <3>1. CASE w = v
        BY <1>1, <3>1
      <3>2. CASE w # v
        <4>1. doing[w].hand.until \in Nat
          BY <1>0 DEF WatchTypes, Working
        <4> QED
          BY <1>0, <1>1, <3>2, <4>1 DEF WatchInv, Ordered, WatchTypes, Holds
      <3> QED
        BY <3>1, <3>2
    <2> QED
      BY <2>1, <2>2
  <1>7. Level'
    BY <1>1 DEF Level
  <1> QED
    BY <1>2, <1>3, <1>5, <1>6, <1>7 DEF WatchInv

\* A step of a worker, one case for each place it may be in.
LEMMA WorkerKeeps ==
    ASSUME SentinelAssumption, WatchInv, NEW w \in SentinelWorkers, WorkerStep(w)
    PROVE  WatchInv'
  <1>0. WatchTypes
    BY DEF WatchInv
  <1>1. Working(Idling) /\ Idling.at = "idle"
    BY IdlingWorks
  <1>2. Len(rows) \in Nat /\ Working(doing[w])
    BY <1>0 DEF WatchTypes
  <1>3. UNCHANGED logRows => Grows
    BY <1>0, <1>2 DEF Grows, logRows, WatchTypes
  <1>4. excused \/ snapshot.until <= cursor
    BY DEF WatchInv, Ordered
  <1>5. CASE TakeCatchUp(w) \/ Receive(w)
    <2> DEFINE d == Doing("pass", Len(rows), NoSnapshot)
    <2>2. Working(d) /\ d.at = "pass" /\ d.upto = Len(rows)
      BY <1>2, DoingWorks, NoSnapshotUntil DEF Stages
    <2>3. doing' = [doing EXCEPT ![w] = d]
      BY <1>5 DEF TakeCatchUp, Receive, Starts
    <2>4. /\ running = "up" /\ doing[w].at = "idle"
          /\ UNCHANGED <<logRows, next, cursor, snapshot, running, excused>>
      BY <1>5 DEF TakeCatchUp, Receive, Is
    <2> HIDE DEF d
    <2> QED
      BY <1>0, <1>2, <1>3, <1>4, <2>2, <2>3, <2>4, LetsGo DEF WatchTypes
  <1>6. CASE TimesOut(w)
    BY <1>3, <1>6, NobodyMoves DEF TimesOut
  <1>7. CASE LockCursor(w)
    <2>1. CASE next > doing[w].upto
      <3>1. /\ running = "up" /\ doing[w].at = "pass" /\ doing' = [doing EXCEPT ![w] = Idling]
            /\ UNCHANGED <<logRows, next, cursor, snapshot, running, excused>>
        BY <1>7, <2>1 DEF LockCursor, Is, Rests
      <3> QED
        BY <1>0, <1>1, <1>3, <1>4, <3>1, LetsGo DEF WatchTypes
    <2>2. CASE ~(next > doing[w].upto)
      <3>1. PICK last \in {doing[w].upto, next + CatchUpBatch - 1} :
               /\ last <= doing[w].upto
               /\ doing' = [doing EXCEPT ![w] = Doing("row", last, NoSnapshot)]
        BY <1>7, <2>2 DEF LockCursor
      <3>2. next \in Nat \ {0} /\ CatchUpBatch \in Nat \ {0} /\ doing[w].upto \in Nat
        BY <1>0, <1>2 DEF WatchTypes, Working, SentinelAssumption
      <3>3. last \in Nat /\ next <= last
        BY <2>2, <3>2
      <3> DEFINE d == Doing("row", last, NoSnapshot)
      <3>5. Working(d) /\ d.at = "row" /\ d.upto = last
        BY <3>3, RowWorks
      <3>6. /\ running = "up" /\ doing[w].at = "pass"
            /\ \A v \in SentinelWorkers : ~Holds(v)
            /\ UNCHANGED <<logRows, next, cursor, snapshot, running, excused>>
        BY <1>7 DEF LockCursor, Is, Locked, Holds
      <3>7. doing[w].upto <= Len(rows) /\ last <= Len(rows) /\ next <= Len(rows) + 1
        BY <1>2, <3>1, <3>2, <3>3, <3>6 DEF WatchInv, BelowHead
      <3>8. ~excused => next = cursor
        BY <3>6 DEF WatchInv, Level, Holds
      <3>9. doing' = [doing EXCEPT ![w] = d]
        BY <3>1
      <3>10. cursor \in Nat \ {0}
        BY <1>0 DEF WatchTypes
      <3>11. /\ Grows /\ next' \in Nat \ {0} /\ cursor' \in Nat \ {0} /\ cursor <= cursor'
             /\ next' <= d.upto /\ d.upto <= Len(rows) /\ next' <= Len(rows) + 1
             /\ ~excused => next' = cursor'
        BY <1>3, <3>2, <3>3, <3>5, <3>6, <3>7, <3>8, <3>10
      <3> HIDE DEF d
      <3> QED
        BY <3>5, <3>6, <3>7, <3>9, <3>11, KeepsHolding
    <2> QED
      BY <2>1, <2>2
  <1>8. ASSUME Is(w, "row"), Grows, Evaluated(w),
               UNCHANGED <<cursor, snapshot, running, excused>>
        PROVE  WatchInv'
    <2>0. doing[w].at = "row" /\ running = "up" /\ Holds(w)
      BY <1>8 DEF Is, Holds
    <2>1. CASE next' = next + 1 /\ Goes(w, "commit")
      <3>1. PICK d : /\ Working(d) /\ doing' = [doing EXCEPT ![w] = d]
                     /\ d.at = "commit" /\ d.upto = doing[w].upto
        BY <1>0, <2>1, NextStage DEF Stages
      <3>2. next \in Nat \ {0} /\ cursor \in Nat \ {0} /\ doing[w].upto \in Nat
        BY <1>0, <1>2 DEF WatchTypes, Working
      <3>3. next <= doing[w].upto /\ doing[w].upto <= Len(rows)
        BY <2>0 DEF WatchInv, BelowHead
      <3>4. next' \in Nat \ {0} /\ next' <= Len(rows) + 1
        BY <1>2, <2>1, <3>2, <3>3
      <3>5. ~excused => next = cursor
        <4>1. \A v \in SentinelWorkers : doing[v].at # "commit"
          BY <2>0 DEF WatchInv, OneHolds, Holds
        <4> QED
          BY <2>0, <4>1 DEF WatchInv, Level
      <3>6. ~excused => next' = cursor' + 1
        BY <1>8, <2>1, <3>5
      <3>7. excused \/ cursor <= cursor'
        BY <1>8, <3>2
      <3> QED
        BY <1>8, <2>0, <3>1, <3>2, <3>3, <3>4, <3>6, <3>7, KeepsHolding
    <2>2. CASE Rests(w) /\ UNCHANGED next
      <3>1. doing' = [doing EXCEPT ![w] = Idling]
        BY <2>2 DEF Rests
      <3> QED
        BY <1>0, <1>1, <1>4, <1>8, <2>0, <2>2, <3>1, LetsGo DEF WatchTypes
    <2> QED
      BY <1>8, <2>1, <2>2 DEF Evaluated
  <1>9. CASE Recognise(w)
    BY <1>3, <1>8, <1>9 DEF Recognise
  <1>10. CASE Derive(w)
    <2>1. next \in Nat
      BY <1>0 DEF WatchTypes
    <2>2. Grows
      BY <1>0, <1>10, <2>1, LogGrows DEF Derive
    <2> QED
      BY <1>8, <1>10, <2>2 DEF Derive
  <1>11. CASE FailsToDerive(w) \/ SkipCapture(w)
    <2>1. /\ running = "up" /\ doing[w].at # "commit" /\ doing' = [doing EXCEPT ![w] = Idling]
          /\ UNCHANGED <<logRows, next, cursor, snapshot, running, excused>>
      BY <1>11 DEF FailsToDerive, SkipCapture, Is, Rests
    <2> QED
      BY <1>0, <1>1, <1>3, <1>4, <2>1, LetsGo DEF WatchTypes
  <1>12. CASE CommitCursor(w)
    <2>0. /\ doing[w].at = "commit" /\ running = "up" /\ Holds(w)
          /\ UNCHANGED <<logRows, next, snapshot, running>>
      BY <1>12 DEF CommitCursor, Is, Holds
    <2>1. CASE /\ cursor' = next /\ UNCHANGED excused
               /\ IF next <= doing[w].upto THEN Goes(w, "row") ELSE Ends(w)
      <3>1. next \in Nat \ {0} /\ cursor \in Nat \ {0}
        BY <1>0 DEF WatchTypes
      <3>3. doing[w].upto <= Len(rows) /\ next <= Len(rows) + 1 /\ (excused \/ cursor <= next)
        BY <2>0, <3>1 DEF WatchInv, BelowHead, Ordered
      <3>2. CASE next <= doing[w].upto /\ Goes(w, "row")
        <4>1. PICK d : /\ Working(d) /\ doing' = [doing EXCEPT ![w] = d]
                       /\ d.at = "row" /\ d.upto = doing[w].upto
          BY <1>0, <3>2, NextStage DEF Stages
        <4> QED
          BY <1>3, <2>0, <2>1, <3>1, <3>2, <3>3, <4>1, KeepsHolding
      <3>4. CASE Ends(w)
        <4> DEFINE d == Doing("done", 0, NoSnapshot)
        <4>2. Working(d) /\ d.at = "done"
          BY DoingWorks, NoSnapshotUntil DEF Stages
        <4>3. doing' = [doing EXCEPT ![w] = d]
          BY <3>4 DEF Ends
        <4> HIDE DEF d
        <4> QED
          BY <1>3, <2>0, <2>1, <3>1, <3>3, <4>2, <4>3, KeepsHolding
      <3> QED
        BY <2>1, <3>2, <3>4
    <2>2. CASE excused' = TRUE /\ Rests(w) /\ UNCHANGED cursor
      <3>1. doing' = [doing EXCEPT ![w] = Idling]
        BY <2>2 DEF Rests
      <3> QED
        BY <1>0, <1>1, <1>3, <1>4, <2>0, <2>2, <3>1, LetsGo DEF WatchTypes
    <2> QED
      BY <1>12, <2>1, <2>2 DEF CommitCursor
  <1>13. CASE Capture(w)
    <2> DEFINE d == Doing("captured", 0, Captured)
    <2>1. Captured.until = next /\ next \in Nat
      BY <1>0 DEF Captured, WatchTypes
    <2>2. Working(d) /\ d.at = "captured" /\ d.hand.until = next
      <3>1. "captured" \in Stages /\ 0 \in Nat /\ Captured.until \in Nat
        BY <2>1 DEF Stages
      <3>2. Working(d) /\ d.at = "captured" /\ d.hand = Captured
        BY <3>1 DEF Doing, Working
      <3> QED
        BY <2>1, <3>2
    <2>3. /\ running = "up" /\ doing[w].at = "done" /\ snapshot'.until = 0
          /\ \A v \in SentinelWorkers : doing[v].at # "commit"
          /\ UNCHANGED <<logRows, next, cursor, running, excused>>
      BY <1>13 DEF Capture, Is, CursorFree, Locked, NoSnapshot
    <2>4. excused \/ d.hand.until <= cursor
      BY <1>0, <2>2, <2>3 DEF WatchInv, Level, WatchTypes
    <2>5. doing' = [doing EXCEPT ![w] = d]
      BY <1>13 DEF Capture
    <2>6. excused \/ snapshot'.until <= cursor
      BY <1>0, <2>3 DEF WatchTypes
    <2>7. Grows /\ snapshot'.until \in Nat /\ excused \in BOOLEAN
      BY <1>0, <1>3, <2>3 DEF WatchTypes
    <2> HIDE DEF d
    <2> QED
      BY <2>2, <2>3, <2>4, <2>5, <2>6, <2>7, LetsGo
  <1>14. CASE Publish(w)
    <2>1. /\ running = "up" /\ doing[w].at = "captured" /\ doing' = [doing EXCEPT ![w] = Idling]
          /\ UNCHANGED <<logRows, next, cursor, running, excused>>
          /\ snapshot' \in {doing[w].hand, snapshot}
      BY <1>14 DEF Publish, Is, Rests
    <2>2. snapshot'.until \in Nat
      BY <1>0, <1>2, <2>1 DEF WatchTypes, Working
    <2>3. excused \/ snapshot'.until <= cursor
      BY <1>4, <2>1 DEF WatchInv, Ordered
    <2> QED
      BY <1>0, <1>1, <1>3, <2>1, <2>2, <2>3, LetsGo DEF WatchTypes
  <1> QED
    BY <1>5, <1>6, <1>7, <1>9, <1>10, <1>11, <1>12, <1>13, <1>14 DEF WorkerStep

\* The process ends: what is left is on the disk.
LEMMA StopKeeps ==
    ASSUME WatchTypes, SentinelStops,
           rows' \in Seq(Nat), rowsSure' \in Nat, excused' \in BOOLEAN,
           snapshot'.until \in Nat, UNCHANGED cursor,
           ~excused' => snapshot'.until <= cursor /\ cursor <= Len(rows') + 1
    PROVE  WatchInv'
  <1>1. /\ doing' = [w \in SentinelWorkers |-> doing'[w]]
        /\ \A w \in SentinelWorkers : doing'[w] = Idling
        /\ running' = "down" /\ next' = 1
    BY DEF SentinelStops
  <1>2. \A w \in SentinelWorkers : Working(doing[w])'
    BY <1>1, IdlingWorks DEF Working
  <1>3. WatchTypes'
    BY <1>1, <1>2 DEF WatchTypes
  <1>4. OneHolds'
    BY <1>1, IdlingWorks DEF OneHolds, Holds
  <1>5. BelowHead' /\ Ordered' /\ Level'
    BY <1>1 DEF BelowHead, Ordered, Level
  <1> QED
    BY <1>3, <1>4, <1>5 DEF WatchInv

LEMMA NextKeeps ==
    ASSUME SentinelAssumption, WatchInv, SentinelNext
    PROVE  WatchInv'
  <1>0. WatchTypes /\ Len(rows) \in Nat
    BY DEF WatchInv, WatchTypes
  <1>1. CASE ClientAppends
    BY <1>1, <1>0, LogGrows, NobodyMoves DEF ClientAppends
  <1>2. CASE Hear \/ Lag
    <2>1. Grows /\ UNCHANGED <<next, cursor, snapshot, running, excused, doing>>
      BY <1>0, <1>2 DEF Hear, Lag, logRows, Grows, WatchTypes
    <2> QED
      BY <2>1, NobodyMoves
  <1>3. CASE WorkersStep
    BY <1>3, WorkerKeeps DEF WorkersStep
  <1>4. ~excused => snapshot.until <= cursor /\ cursor <= Len(rows) + 1
    BY DEF WatchInv, Ordered
  <1>5. CASE SentinelKill
    <2>1. SentinelStops /\ UNCHANGED <<rows, rowsSure, cursor, snapshot, excused>>
      BY <1>5 DEF SentinelKill, logRows
    <2> QED
      BY <1>0, <1>4, <2>1, StopKeeps DEF WatchTypes
  <1>6. CASE Shutdown
    <2>1. /\ running = "up" /\ SentinelStops /\ snapshot' = Captured
          /\ \A w \in SentinelWorkers : doing[w].at = "idle"
          /\ UNCHANGED <<rows, rowsSure, cursor, excused>>
      BY <1>6 DEF Shutdown, logRows
    <2>2. ~excused => next = cursor
      BY <2>1 DEF WatchInv, Level
    <2>3. snapshot'.until = next
      BY <2>1 DEF Captured
    <2> QED
      BY <1>0, <1>4, <2>1, <2>2, <2>3, StopKeeps DEF WatchTypes
  <1>7. CASE \E left \in rowsSure .. Len(rows) : SentinelPowerFails(left)
    <2>1. PICK left \in rowsSure .. Len(rows) : SentinelPowerFails(left)
      BY <1>7
    <2>2. /\ SentinelStops /\ rows' = SubSeq(rows, 1, left) /\ rowsSure' = left
          /\ excused' = (excused \/ left < Len(rows)) /\ UNCHANGED <<cursor, snapshot>>
      BY <2>1 DEF SentinelPowerFails
    <2>3. left \in 0 .. Len(rows)
      BY <1>0, <2>1 DEF WatchTypes
    <2>4. rows' \in Seq(Nat) /\ Len(rows') = left
      <3>1. rows \in Seq(Nat) /\ 1 \in 1 .. Len(rows) + 1 /\ left \in 0 .. Len(rows)
            /\ left - 1 + 1 = left /\ left \in Nat
        BY <1>0, <2>3 DEF WatchTypes
      <3>3. \A i \in 1 .. left : rows[i] \in Nat
        BY <1>0, <3>1
      <3>2. SubSeq(rows, 1, left) \in Seq(Nat) /\ Len(SubSeq(rows, 1, left)) = left
        BY <3>1, <3>3, SubSeqProperties
      <3> QED
        BY <2>2, <3>2
    <2>5. excused' \in BOOLEAN
      BY <2>2
    <2>6. ~excused' => snapshot'.until <= cursor /\ cursor <= Len(rows') + 1
      <3>2. ~excused' => ~excused /\ ~(left < Len(rows))
        BY Zenon, <2>2
      <3>1. ~excused' => ~excused /\ left = Len(rows)
        BY <1>0, <2>3, <3>2
      <3> QED
        BY <1>4, <2>2, <2>4, <3>1
    <2> QED
      BY <1>0, <2>2, <2>3, <2>4, <2>5, <2>6, StopKeeps DEF WatchTypes
  <1>8. CASE FileRots
    <2>1. /\ running = "down" /\ excused' = TRUE /\ UNCHANGED <<rows, rowsSure, next, doing, running>>
          /\ cursor' \in {1, cursor} /\ (snapshot' = snapshot \/ snapshot' = NoSnapshot)
      BY <1>8 DEF FileRots, logRows
    <2>2. WatchTypes'
      BY <1>0, <2>1, NoSnapshotUntil DEF WatchTypes, Working
    <2>3. OneHolds' /\ BelowHead' /\ Ordered' /\ Level'
      BY <2>1 DEF WatchInv, OneHolds, Holds, BelowHead, Ordered, Level
    <2> QED
      BY <2>2, <2>3 DEF WatchInv
  <1>9. CASE SentinelRefuses
    <2>1. /\ Diverges /\ running' = "refused"
          /\ UNCHANGED <<rows, rowsSure, next, doing, cursor, snapshot, excused>>
      BY <1>9 DEF SentinelRefuses, logRows
    <2>2. excused
      BY <1>0, <1>4, <2>1 DEF Diverges, WatchTypes
    <2>3. WatchTypes'
      BY <1>0, <2>1 DEF WatchTypes, Working
    <2>4. OneHolds' /\ BelowHead' /\ Ordered' /\ Level'
      BY <2>1, <2>2 DEF WatchInv, OneHolds, Holds, BelowHead, Ordered, Level
    <2> QED
      BY <2>3, <2>4 DEF WatchInv
  <1>10. CASE SentinelBoot
    <2>1. /\ running' = "up" /\ next' = (IF cursor > Len(rows) + 1 THEN 1 ELSE cursor)
          /\ doing' = [w \in SentinelWorkers |-> Idling]
          /\ UNCHANGED <<rows, rowsSure, cursor, excused>>
      BY <1>10 DEF SentinelBoot, logRows
    <2>2. snapshot'.until = next' \/ snapshot' = snapshot
      BY <1>10 DEF SentinelBoot
    <2>3. next' \in Nat \ {0} /\ next' <= Len(rows) + 1 /\ (~excused => next' = cursor)
      BY <1>0, <1>4, <2>1 DEF WatchTypes
    <2>4. \A w \in SentinelWorkers : Working(doing[w])' /\ doing'[w].at = "idle"
      BY <2>1, IdlingWorks DEF Working
    <2>5. snapshot'.until \in Nat /\ (~excused => snapshot'.until <= cursor)
      BY <1>0, <1>4, <2>2, <2>3 DEF WatchTypes
    <2>6. doing' = [w \in SentinelWorkers |-> doing'[w]]
      BY <2>1
    <2>7. WatchTypes'
      BY <1>0, <2>1, <2>3, <2>4, <2>5, <2>6 DEF WatchTypes
    <2>8. OneHolds' /\ BelowHead'
      BY <2>1, <2>3, <2>4 DEF OneHolds, Holds, BelowHead
    <2>9. Ordered' /\ Level'
      BY <1>4, <2>1, <2>3, <2>4, <2>5 DEF Ordered, Level
    <2> QED
      BY <2>7, <2>8, <2>9 DEF WatchInv
  <1> QED
    BY <1>1, <1>2, <1>3, <1>5, <1>6, <1>7, <1>8, <1>9, <1>10 DEF SentinelNext

-----------------------------------------------------------------------------
(* With every cursor written and nothing lost, the snapshot is behind the   *)
(* cursor and the cursor behind the head, at every moment a boot may find.  *)
THEOREM PositionsOrdered == SentinelSpec => []WatchInv
  <1>1. SentinelInit => WatchInv
    BY SentinelAssumption, InitWatch
  <1>2. WatchInv /\ [SentinelNext]_sentinelVars => WatchInv'
    <2> SUFFICES ASSUME WatchInv, [SentinelNext]_sentinelVars
                 PROVE  WatchInv'
      OBVIOUS
    <2>1. CASE SentinelNext
      BY <2>1, SentinelAssumption, NextKeeps
    <2>2. CASE UNCHANGED sentinelVars
      <3>1. /\ Grows
            /\ UNCHANGED <<next, cursor, snapshot, running, excused, doing>>
        BY <2>2 DEF sentinelVars, logRows, Grows, WatchInv, WatchTypes
      <3> QED
        BY <3>1, NobodyMoves
    <2> QED
      BY <2>1, <2>2
  <1> QED
    BY <1>1, <1>2, PTL DEF SentinelSpec

(* A boot under cursor_policy = strict refuses only after rows or files were *)
(* lost or a cursor could not be written: never because of a kill, whatever  *)
(* the workers and the publication of snapshots were doing.                  *)
THEOREM StrictBootNeedsCause == SentinelSpec => []RefusedForCause
  <1>1. WatchInv => RefusedForCause
    BY DEF WatchInv, Ordered, RefusedForCause
  <1> QED
    BY <1>1, PositionsOrdered, PTL
-----------------------------------------------------------------------------
(* Each raw row is derived from once *)

\* What the rows of a log derive from, and what they may derive from
Sources(log) == {log[m] : m \in DOMAIN log} \ {0}
RawRows(log) == {m \in DOMAIN log : log[m] = 0}

\* The raw rows before n have their derivation.
DerivedBelow(log, n) == \A m \in 1 .. n - 1 : log[m] = 0 => m \in Sources(log)

\* A window has each source at most once ...
WindowOf(log, win) ==
    /\ win \in Seq(Sources(log))
    /\ \A i, j \in 1 .. Len(win) : win[i] = win[j] => i = j

\* ... and those of the derived rows before n.
HasBelow(log, win, n) == \A m \in 1 .. n - 1 : log[m] # 0 => Contains(win, log[m])

SnapshotOf(log, s) ==
    \/ s = NoSnapshot
    \/ /\ s.until \in 1 .. Len(log) + 1
       /\ WindowOf(log, s.sources) /\ HasBelow(log, s.sources, s.until)

\* The window in memory has all sources, so that what is not in it has not been
\* derived from; a window that goes to a snapshot has those before its position,
\* and the boot reads the rest again.
MemoryOf(log, n, win) ==
    DerivedBelow(log, n) /\ WindowOf(log, win) /\ HasBelow(log, win, Len(log) + 1)

\* No row derives from one that another derives from, and there are no more
\* sources than a window holds.
LogInv ==
    /\ rowsSure = Len(rows)
    /\ Sources(rows) \subseteq RawRows(rows)
    /\ \A m, n \in DOMAIN rows : rows[m] # 0 /\ rows[m] = rows[n] => m = n
    /\ spent \in [raw : Nat, troubles : Nat]
    /\ Cardinality(RawRows(rows)) <= spent.raw /\ spent.raw <= MaxRaw

OnceInv ==
    /\ LogInv
    /\ cursor <= Len(rows) + 1 /\ DerivedBelow(rows, cursor)
    /\ SnapshotOf(rows, snapshot)
    /\ running = "up" =>
          /\ MemoryOf(rows, next, window)
          /\ \A w \in SentinelWorkers :
                doing[w].at = "captured" => SnapshotOf(rows, doing[w].hand)

\* A set of natural numbers has a smallest one.
LEMMA SmallestExists ==
    ASSUME NEW T \in SUBSET Nat, T # {}
    PROVE  \E x \in T : \A y \in T : x <= y
  <1> DEFINE R == OpToRel(<, Nat)
  <1>1. IsWellFoundedOn(R, Nat)
    BY NatLessThanWellFounded
  <1>2. PICK x \in T : \A y \in T : ~ (<<y, x>> \in R)
    BY <1>1, WFMin
  <1>3. ASSUME NEW y \in T PROVE x <= y
    <2>1. ~ (<<y, x>> \in {p \in Nat \X Nat : p[1] < p[2]})
      BY <1>2 DEF OpToRel
    <2> QED
      BY <2>1
  <1> QED
    BY <1>3

\* A set of numbers that has k and, with a number below a bound, the next one,
\* has every number from k to the bound.
LEMMA FromTo ==
    ASSUME NEW T, NEW k \in Nat, NEW max \in Nat, k \in T,
           \A n \in k .. max - 1 : n \in T => n + 1 \in T
    PROVE  \A n \in k .. max : n \in T
  <1> DEFINE Missing == {n \in k .. max : n \notin T}
  <1>1. SUFFICES ASSUME Missing # {} PROVE FALSE
    OBVIOUS
  <1>2. Missing \in SUBSET Nat
    OBVIOUS
  <1>3. PICK n \in Missing : \A m \in Missing : n <= m
    BY <1>1, <1>2, SmallestExists
  <1>4. n - 1 \in k .. max - 1 /\ n - 1 \notin Missing
    BY <1>3
  <1> QED
    BY <1>3, <1>4

\* A window of a set that is not larger than the window has room for any element.
LEMMA Remembers ==
    ASSUME SentinelAssumption, NEW S, IsFiniteSet(S), Cardinality(S) <= DerivedWindow,
           NEW win \in Seq(S), \A i, j \in 1 .. Len(win) : win[i] = win[j] => i = j,
           NEW n \in S
    PROVE  /\ Remember(win, n) \in Seq(S)
           /\ \A i, j \in 1 .. Len(Remember(win, n)) :
                 Remember(win, n)[i] = Remember(win, n)[j] => i = j
           /\ Contains(Remember(win, n), n)
           /\ \A s : Contains(win, s) => Contains(Remember(win, n), s)
  <1>1. CASE Contains(win, n)
    BY <1>1 DEF Remember
  <1>2. CASE ~Contains(win, n)
    <2>1. Len(win) \in Nat /\ win \in [1 .. Len(win) -> S]
      OBVIOUS
    <2>2. Len(win) < DerivedWindow
      <3>1. IsFiniteSet(S \ {n}) /\ Cardinality(S \ {n}) = Cardinality(S) - 1
        BY FS_RemoveElement
      <3>2. \A i \in 1 .. Len(win) : win[i] \in S \ {n}
        BY <1>2, <2>1 DEF Contains
      <3>3. win \in Injection(1 .. Len(win), S \ {n})
        <4>1. win \in [1 .. Len(win) -> S \ {n}]
          BY <2>1, <3>2
        <4> QED
          BY <2>1, <4>1 DEF Injection, IsInjective
      <3>4. Cardinality(1 .. Len(win)) <= Cardinality(S \ {n})
        BY <3>1, <3>3, FS_Injection
      <3>5. Cardinality(1 .. Len(win)) = Len(win)
        <4>1. 1 \in Int /\ Len(win) \in Int /\ Len(win) \in Nat
          BY <2>1
        <4>2. Cardinality(1 .. Len(win)) = IF 1 > Len(win) THEN 0 ELSE Len(win) - 1 + 1
          BY <4>1, FS_Interval
        <4> QED
          BY <4>1, <4>2
      <3>6. Cardinality(S) \in Nat /\ DerivedWindow \in Nat
        BY FS_CardinalityType DEF SentinelAssumption
      <3> QED
        BY <2>1, <3>1, <3>4, <3>5, <3>6
    <2>3. Remember(win, n) = Append(win, n)
      BY <1>2, <2>2 DEF Remember
    <2> DEFINE more == Append(win, n)
    <2>4. /\ more \in Seq(S) /\ Len(more) = Len(win) + 1 /\ more[Len(win) + 1] = n
          /\ \A i \in 1 .. Len(win) : more[i] = win[i]
      OBVIOUS
    <2> HIDE DEF more
    <2>5. \A i \in 1 .. Len(win) : win[i] # n
      BY <1>2 DEF Contains
    <2>6. \A i \in 1 .. Len(more) : i \in 1 .. Len(win) \/ i = Len(win) + 1
      BY <2>1, <2>4
    <2>7. \A i, j \in 1 .. Len(more) : more[i] = more[j] => i = j
      BY <2>4, <2>5, <2>6
    <2>8. Contains(more, n) /\ \A s : Contains(win, s) => Contains(more, s)
      <3>1. Len(win) + 1 \in 1 .. Len(more) /\ \A i \in 1 .. Len(win) : i \in 1 .. Len(more)
        BY <2>1, <2>4
      <3> QED
        BY <2>4, <3>1 DEF Contains
    <2> QED
      BY <2>3, <2>4, <2>7, <2>8 DEF more
  <1> QED
    BY <1>1, <1>2
LEMMA FewSources ==
    ASSUME SentinelAssumption, NEW log \in Seq(Nat), Sources(log) \subseteq RawRows(log),
           NEW n \in Nat, Cardinality(RawRows(log)) <= n, n <= MaxRaw, MaxRaw <= DerivedWindow
    PROVE  IsFiniteSet(Sources(log)) /\ Cardinality(Sources(log)) <= DerivedWindow
  <1>1. Len(log) \in Nat /\ DOMAIN log = 1 .. Len(log)
    OBVIOUS
  <1>2. IsFiniteSet(RawRows(log))
    <2>1. IsFiniteSet(1 .. Len(log))
      BY <1>1, FS_Interval
    <2>2. RawRows(log) \in SUBSET (1 .. Len(log))
      BY <1>1 DEF RawRows
    <2> QED
      BY <2>1, <2>2, FS_Subset
  <1>3. IsFiniteSet(Sources(log)) /\ Cardinality(Sources(log)) <= Cardinality(RawRows(log))
    <2>1. Sources(log) \in SUBSET RawRows(log)
      OBVIOUS
    <2> QED
      BY <1>2, <2>1, FS_Subset
  <1>4. Cardinality(Sources(log)) \in Nat /\ Cardinality(RawRows(log)) \in Nat
    BY <1>2, <1>3, FS_CardinalityType
  <1>5. MaxRaw \in Nat /\ DerivedWindow \in Nat
    BY DEF SentinelAssumption
  <1> QED
    BY <1>3, <1>4, <1>5

\* The log grows: what was said of windows, cursors and snapshots stays.
Longer(log, more) ==
    /\ log \in Seq(Nat) /\ more \in Seq(Nat) /\ Len(log) <= Len(more)
    /\ \A m \in 1 .. Len(log) : more[m] = log[m]

LEMMA LongerKeeps ==
    ASSUME NEW log, NEW more, Longer(log, more)
    PROVE  /\ Sources(log) \subseteq Sources(more)
           /\ \A n : n \in 1 .. Len(log) + 1 /\ DerivedBelow(log, n) => DerivedBelow(more, n)
           /\ \A win : WindowOf(log, win) => WindowOf(more, win)
           /\ \A win, n : n \in 1 .. Len(log) + 1 /\ HasBelow(log, win, n) => HasBelow(more, win, n)
           /\ \A s : SnapshotOf(log, s) => SnapshotOf(more, s)
  <1>1. /\ Len(log) \in Nat /\ Len(more) \in Nat
        /\ DOMAIN log = 1 .. Len(log) /\ DOMAIN more = 1 .. Len(more)
        /\ \A m \in 1 .. Len(log) : m \in 1 .. Len(more)
    BY DEF Longer
  <1>2. Sources(log) \subseteq Sources(more)
    BY <1>1 DEF Sources, Longer
  <1>3. ASSUME NEW n \in 1 .. Len(log) + 1, DerivedBelow(log, n) PROVE DerivedBelow(more, n)
    <2> SUFFICES ASSUME NEW m \in 1 .. n - 1, more[m] = 0
                 PROVE  m \in Sources(more)
      BY DEF DerivedBelow
    <2>1. m \in 1 .. Len(log)
      BY <1>1
    <2>2. log[m] = 0
      BY <2>1 DEF Longer
    <2> QED
      BY <1>2, <1>3, <2>2 DEF DerivedBelow
  <1>4. ASSUME NEW win, WindowOf(log, win) PROVE WindowOf(more, win)
    <2>1. win \in Seq(Sources(log))
      BY <1>4 DEF WindowOf
    <2>2. win \in Seq(Sources(more))
      BY <1>2, <2>1
    <2> QED
      BY <1>4, <2>2 DEF WindowOf
  <1>5. ASSUME NEW win, NEW n \in 1 .. Len(log) + 1, HasBelow(log, win, n)
        PROVE  HasBelow(more, win, n)
    <2> SUFFICES ASSUME NEW m \in 1 .. n - 1, more[m] # 0
                 PROVE  Contains(win, more[m])
      BY DEF HasBelow
    <2>1. m \in 1 .. Len(log)
      BY <1>1
    <2>2. more[m] = log[m]
      BY <2>1 DEF Longer
    <2> QED
      BY <1>5, <2>2 DEF HasBelow
  <1>6. ASSUME NEW s, SnapshotOf(log, s) PROVE SnapshotOf(more, s)
    <2>1. CASE s = NoSnapshot
      BY <2>1 DEF SnapshotOf
    <2>2. CASE /\ s.until \in 1 .. Len(log) + 1
               /\ WindowOf(log, s.sources) /\ HasBelow(log, s.sources, s.until)
      <3>1. WindowOf(more, s.sources) /\ HasBelow(more, s.sources, s.until)
        BY <1>4, <1>5, <2>2
      <3>2. s.until \in 1 .. Len(more) + 1
        BY <1>1, <2>2 DEF Longer
      <3> QED
        BY <3>1, <3>2 DEF SnapshotOf
    <2> QED
      BY <1>6, <2>1, <2>2 DEF SnapshotOf
  <1> QED
    BY <1>2, <1>3, <1>4, <1>5, <1>6

\* A boot reads the rows from `from` on into the window.
Reads(win, from, max, g) ==
    g = [n \in from - 1 .. max |->
            IF n < from THEN win
            ELSE IF rows[n] = 0 THEN g[n - 1] ELSE Remember(g[n - 1], rows[n])]

LEMMA ReadsExists ==
    ASSUME NEW win, NEW from \in Nat \ {0}, NEW last \in Nat, from - 1 <= last
    PROVE  \E g : Reads(win, from, last, g)
  <1> DEFINE T == {k \in Nat : \E g : Reads(win, from, k, g)}
  <1>0. from - 1 \in Nat
    OBVIOUS
  <1>1. from - 1 \in T
    <2> DEFINE g == [n \in from - 1 .. from - 1 |-> win]
    <2>1. Reads(win, from, from - 1, g)
      BY DEF Reads
    <2> HIDE DEF g
    <2> QED
      BY <1>0, <2>1
  <1>2. ASSUME NEW k \in from - 1 .. last - 1, k \in T PROVE k + 1 \in T
    <2>0. k \in Nat /\ k + 1 \in Nat /\ k >= from - 1
      BY <1>0
    <2>1. PICK h : Reads(win, from, k, h)
      BY <1>2
    <2> DEFINE is(f, n) == IF n < from THEN win
                           ELSE IF rows[n] = 0 THEN f[n - 1] ELSE Remember(f[n - 1], rows[n])
    <2>2. \A n \in from - 1 .. k : h[n] = is(h, n)
      BY <2>1 DEF Reads
    <2> DEFINE g == [n \in from - 1 .. k + 1 |-> IF n = k + 1 THEN is(h, k + 1) ELSE h[n]]
               gg == [n \in from - 1 .. k + 1 |-> is(g, n)]
    <2>3. ASSUME NEW n \in from - 1 .. k + 1 PROVE g[n] = gg[n]
      <3>0. gg[n] = is(g, n) /\ g[n] = (IF n = k + 1 THEN is(h, k + 1) ELSE h[n])
        OBVIOUS
      <3>1. n >= from => g[n - 1] = h[n - 1]
        <4>1. n >= from => n - 1 \in from - 1 .. k + 1 /\ n - 1 # k + 1
          BY <2>0
        <4> QED
          BY <4>1
      <3>2. n # k + 1 => n \in from - 1 .. k
        BY <2>0
      <3> HIDE DEF g, gg
      <3>3. n < from => is(g, n) = is(h, n)
        OBVIOUS
      <3>4. n >= from => is(g, n) = is(h, n)
        BY <3>1
      <3>5. is(g, n) = is(h, n)
        BY <2>0, <3>3, <3>4
      <3> HIDE DEF is
      <3>6. CASE n = k + 1
        BY <3>0, <3>5, <3>6
      <3>7. CASE n # k + 1
        BY <2>2, <3>0, <3>2, <3>5, <3>7
      <3> QED
        BY <3>6, <3>7
    <2>4. g = gg
      BY <2>3
    <2>5. Reads(win, from, k + 1, g)
      BY <2>4 DEF Reads
    <2> HIDE DEF g
    <2> QED
      BY <2>0, <2>5
  <1> HIDE DEF T
  <1>3. last \in T
    <2>1. \A n \in from - 1 .. last : n \in T
      BY <1>0, <1>1, <1>2, FromTo
    <2> QED
      BY <1>0, <2>1
  <1> QED
    BY <1>3 DEF T
\* After a boot the window has every source again.
LEMMA RestoredHas ==
    ASSUME SentinelAssumption, MaxRaw <= DerivedWindow, WatchTypes, LogInv, SnapshotOf(rows, snapshot)
    PROVE  WindowOf(rows, Restored) /\ HasBelow(rows, Restored, Len(rows) + 1)
  <1> DEFINE from == IF Trusted = NoSnapshot THEN 1 ELSE Trusted.until
             win == Trusted.sources
             last == Len(rows)
             good(g, n) == WindowOf(rows, g[n]) /\ HasBelow(rows, g[n], n + 1)
             T(g) == {n \in Nat : good(g, n)}
  <1>0. last \in Nat /\ DOMAIN rows = 1 .. last /\ \A m \in 1 .. last : rows[m] \in Nat
    <2>1. rows \in Seq(Nat)
      BY DEF WatchTypes
    <2> QED
      BY <2>1
  <1>1. from \in 1 .. last + 1 /\ WindowOf(rows, win) /\ HasBelow(rows, win, from)
    <2>1. CASE Trusted = NoSnapshot
      <3>1. win = << >> /\ from = 1
        BY <2>1 DEF NoSnapshot
      <3>2. WindowOf(rows, << >>)
        BY DEF WindowOf
      <3>3. HasBelow(rows, << >>, 1)
        BY DEF HasBelow
      <3> QED
        BY <1>0, <3>1, <3>2, <3>3
    <2>2. CASE Trusted # NoSnapshot
      <3>1. Trusted = snapshot
        BY <2>2 DEF Trusted
      <3> QED
        BY <2>2, <3>1 DEF SnapshotOf
    <2> QED
      BY <2>1, <2>2
  <1> HIDE DEF from, win, last
  <1>2. from \in Nat \ {0} /\ from - 1 <= last /\ from - 1 \in Nat
    BY <1>0, <1>1
  <1>3. Restored = (CHOOSE g : Reads(win, from, last, g))[last]
    BY DEF Restored, Reads, win, from, last
  <1>4. PICK g : g = (CHOOSE h : Reads(win, from, last, h)) /\ Reads(win, from, last, g)
    <2>1. \E h : Reads(win, from, last, h)
      BY <1>0, <1>2, ReadsExists
    <2> QED
      BY <2>1
  <1>5. \A n \in from - 1 .. last :
            g[n] = IF n < from THEN win
                   ELSE IF rows[n] = 0 THEN g[n - 1] ELSE Remember(g[n - 1], rows[n])
    BY <1>4 DEF Reads
  <1>6. from - 1 \in T(g)
    <2>1. g[from - 1] = win
      BY <1>2, <1>5
    <2>2. (from - 1) + 1 = from
      BY <1>2
    <2> QED
      BY <1>1, <1>2, <2>1, <2>2
  <1>7. ASSUME NEW n \in from - 1 .. last - 1, n \in T(g) PROVE n + 1 \in T(g)
    <2>1. n \in Nat /\ n + 1 \in from - 1 .. last /\ ~(n + 1 < from) /\ (n + 1) - 1 = n
          /\ n + 1 \in 1 .. last
      BY <1>0, <1>2
    <2>2. g[n + 1] = IF rows[n + 1] = 0 THEN g[n] ELSE Remember(g[n], rows[n + 1])
      BY <1>5, <2>1
    <2>3. WindowOf(rows, g[n]) /\ HasBelow(rows, g[n], n + 1)
      BY <1>7
    <2>4. \A m \in 1 .. (n + 1 + 1) - 1 : m \in 1 .. (n + 1) - 1 \/ m = n + 1
      BY <2>1
    <2>5. CASE rows[n + 1] = 0
      BY <2>1, <2>2, <2>3, <2>4, <2>5 DEF HasBelow
    <2>6. CASE rows[n + 1] # 0
      <3>1. rows[n + 1] \in Sources(rows)
        BY <1>0, <2>1, <2>6 DEF Sources
      <3>2. IsFiniteSet(Sources(rows)) /\ Cardinality(Sources(rows)) <= DerivedWindow
        BY FewSources DEF LogInv, WatchTypes
      <3>3. g[n] \in Seq(Sources(rows)) /\ \A i, j \in 1 .. Len(g[n]) : g[n][i] = g[n][j] => i = j
        BY <2>3 DEF WindowOf
      <3> DEFINE before == g[n]
                 source == rows[n + 1]
                 S == Sources(rows)
                 more == Remember(before, source)
      <3>4. /\ more \in Seq(S)
            /\ \A i, j \in 1 .. Len(more) : more[i] = more[j] => i = j
            /\ Contains(more, source)
            /\ \A s : Contains(before, s) => Contains(more, s)
        <4>1. /\ IsFiniteSet(S) /\ Cardinality(S) <= DerivedWindow /\ source \in S
              /\ before \in Seq(S) /\ \A i, j \in 1 .. Len(before) : before[i] = before[j] => i = j
          BY <3>1, <3>2, <3>3
        <4> HIDE DEF before, source, S
        <4> QED
          BY <4>1, Remembers
      <3>5. g[n + 1] = more
        BY <2>2, <2>6
      <3> HIDE DEF more
      <3>6. WindowOf(rows, g[n + 1])
        BY <3>4, <3>5 DEF WindowOf
      <3>7. HasBelow(rows, g[n + 1], (n + 1) + 1)
        BY <2>3, <2>4, <3>4, <3>5 DEF HasBelow
      <3> QED
        BY <2>1, <3>6, <3>7
    <2> QED
      BY <2>5, <2>6
  <1> HIDE DEF T
  <1>8. \A n \in from - 1 .. last : n \in T(g)
    BY <1>0, <1>2, <1>6, <1>7, FromTo
  <1>9. last \in T(g)
    BY <1>0, <1>2, <1>8
  <1> QED
    BY <1>3, <1>4, <1>9 DEF T, last
-----------------------------------------------------------------------------
(* What a step makes of the log *)

LEMMA Spends ==
    ASSUME spent \in [raw : Nat, troubles : Nat], UNCHANGED spent \/ Trouble
    PROVE  spent' \in [raw : Nat, troubles : Nat] /\ spent'.raw = spent.raw
  BY DEF Trouble, SpendOn

LEMMA SameLog ==
    ASSUME WatchTypes, LogInv, UNCHANGED logRows, UNCHANGED spent \/ Trouble
    PROVE  LogInv' /\ rows' = rows
  <1>1. spent' \in [raw : Nat, troubles : Nat] /\ spent'.raw = spent.raw
    BY Spends DEF LogInv
  <1> QED
    BY <1>1 DEF LogInv, logRows

\* A row more: a raw one, or one that derives from what none derives from.
LEMMA OneMore ==
    ASSUME WatchTypes, LogInv, NEW x \in Nat, rows' = Append(rows, x), rowsSure' = Len(rows'),
           spent' \in [raw : Nat, troubles : Nat], spent'.raw <= MaxRaw,
           \/ x = 0 /\ spent'.raw = spent.raw + 1
           \/ x \in RawRows(rows) \ Sources(rows) /\ spent'.raw = spent.raw
    PROVE  /\ LogInv' /\ Longer(rows, rows')
           /\ Len(rows') = Len(rows) + 1 /\ rows'[Len(rows) + 1] = x
           /\ x # 0 => x \in Sources(rows')
  <1>1. /\ Len(rows) \in Nat /\ DOMAIN rows = 1 .. Len(rows) /\ Len(rows') = Len(rows) + 1
        /\ rows' \in Seq(Nat) /\ DOMAIN rows' = 1 .. Len(rows) + 1
        /\ rows'[Len(rows) + 1] = x /\ \A m \in 1 .. Len(rows) : rows'[m] = rows[m]
    BY DEF WatchTypes
  <1>2. \A m \in 1 .. Len(rows) + 1 : m \in 1 .. Len(rows) \/ m = Len(rows) + 1
    BY <1>1
  <1>3. Longer(rows, rows')
    BY <1>1 DEF Longer, WatchTypes
  <1>4. \A s \in Sources(rows') : s \in Sources(rows) \/ s = x
    BY <1>1, <1>2 DEF Sources
  <1>5. x # 0 => x \in Sources(rows')
    <2>1. Len(rows) + 1 \in DOMAIN rows'
      BY <1>1
    <2> QED
      BY <1>1, <2>1 DEF Sources
  <1>6. RawRows(rows') = IF x = 0 THEN RawRows(rows) \cup {Len(rows) + 1} ELSE RawRows(rows)
    BY <1>1, <1>2 DEF RawRows
  <1>7. Cardinality(RawRows(rows')) <= spent'.raw
    <2>1. IsFiniteSet(RawRows(rows))
      <3>1. IsFiniteSet(1 .. Len(rows))
        BY <1>1, FS_Interval
      <3>2. RawRows(rows) \in SUBSET (1 .. Len(rows))
        BY <1>1 DEF RawRows
      <3> QED
        BY <3>1, <3>2, FS_Subset
    <2>2. Len(rows) + 1 \notin RawRows(rows)
      BY <1>1 DEF RawRows
    <2>3. Cardinality(RawRows(rows) \cup {Len(rows) + 1}) = Cardinality(RawRows(rows)) + 1
      BY <2>1, <2>2, FS_AddElement
    <2>4. Cardinality(RawRows(rows)) \in Nat /\ spent.raw \in Nat
          /\ Cardinality(RawRows(rows)) <= spent.raw
      BY <2>1, FS_CardinalityType DEF LogInv
    <2>5. CASE x = 0
      <3>1. x \notin RawRows(rows) \ Sources(rows)
        BY <1>1, <2>5 DEF RawRows
      <3> QED
        BY <1>6, <2>3, <2>4, <2>5, <3>1
    <2>6. CASE x # 0
      BY <1>6, <2>4, <2>6
    <2> QED
      BY <2>5, <2>6
  <1>8. Sources(rows') \subseteq RawRows(rows')
    <2>1. \A s \in RawRows(rows) : s \in RawRows(rows')
      BY <1>6
    <2>2. 0 \notin Sources(rows')
      BY DEF Sources
    <2> QED
      BY <1>4, <2>1, <2>2 DEF LogInv
  <1>9. \A m, n \in DOMAIN rows' : rows'[m] # 0 /\ rows'[m] = rows'[n] => m = n
    <2>1. x # 0 => \A m \in 1 .. Len(rows) : rows[m] # x
      <3>1. \A m \in 1 .. Len(rows) : rows[m] # 0 => rows[m] \in Sources(rows)
        BY <1>1 DEF Sources
      <3> QED
        BY <3>1
    <2> QED
      BY <1>1, <1>2, <2>1 DEF LogInv
  <1> QED
    BY <1>1, <1>3, <1>5, <1>7, <1>8, <1>9 DEF LogInv

LEMMA InitOnce == ASSUME SentinelAssumption, SentinelInit PROVE OnceInv
  <1>1. rows = << >> /\ Len(rows) = 0 /\ rowsSure = 0 /\ cursor = 1 /\ next = 1
        /\ window = << >> /\ Len(window) = 0 /\ snapshot = NoSnapshot
    BY DEF SentinelInit
  <1>2. Sources(rows) = {} /\ RawRows(rows) = {}
    BY <1>1 DEF Sources, RawRows
  <1>3. LogInv
    <2>1. Cardinality(RawRows(rows)) = 0
      BY <1>2, FS_EmptySet
    <2>2. spent = [raw |-> 0, troubles |-> 0] /\ MaxRaw \in Nat
      BY DEF SentinelInit, SentinelAssumption
    <2> QED
      BY <1>1, <1>2, <2>1, <2>2 DEF LogInv
  <1>4. DerivedBelow(rows, 1) /\ HasBelow(rows, window, 1) /\ WindowOf(rows, window)
    BY <1>1 DEF DerivedBelow, HasBelow, WindowOf
  <1>5. \A w \in SentinelWorkers : doing[w].at = "idle"
    BY IdlingWorks DEF SentinelInit
  <1> QED
    BY <1>1, <1>3, <1>4, <1>5 DEF OnceInv, MemoryOf, SnapshotOf

\* What is left to show of a step of a worker: the row being processed.
LEMMA WorkerStays ==
    ASSUME WatchTypes, OnceInv, running = "up", LogInv', Longer(rows, rows'),
           NEW w \in SentinelWorkers, NEW d, doing' = [doing EXCEPT ![w] = d],
           d.at = "captured" => SnapshotOf(rows, d.hand),
           cursor' = cursor \/ (cursor' = next /\ next <= Len(rows) + 1),
           snapshot' = snapshot \/ SnapshotOf(rows, snapshot'),
           MemoryOf(rows', next', window'), UNCHANGED running
    PROVE  OnceInv'
  <1>1. doing = [v \in SentinelWorkers |-> doing[v]] /\ Len(rows) \in Nat /\ Len(rows') \in Nat
        /\ cursor \in Nat \ {0} /\ next \in Nat \ {0}
    BY DEF WatchTypes, Longer
  <1>2. \A v \in SentinelWorkers : doing'[v] = IF v = w THEN d ELSE doing[v]
    BY <1>1
  <1>3. \A v \in SentinelWorkers : doing'[v].at = "captured" => SnapshotOf(rows, doing'[v].hand)
    BY <1>2 DEF OnceInv
  <1>4. \A s : SnapshotOf(rows, s) => SnapshotOf(rows', s)
    BY LongerKeeps
  <1>5. cursor' \in 1 .. Len(rows) + 1 /\ DerivedBelow(rows, cursor')
    BY <1>1 DEF OnceInv, MemoryOf
  <1>6. DerivedBelow(rows', cursor')
    BY <1>5, LongerKeeps
  <1>7. cursor' <= Len(rows') + 1
    BY <1>1, <1>5 DEF Longer
  <1>8. SnapshotOf(rows, snapshot')
    BY DEF OnceInv
  <1> QED
    BY <1>3, <1>4, <1>6, <1>7, <1>8 DEF OnceInv
\* What is captured of the memory is a snapshot.
LEMMA CapturedIs ==
    ASSUME rows \in Seq(Nat), next \in 1 .. Len(rows) + 1, MemoryOf(rows, next, window)
    PROVE  SnapshotOf(rows, Captured)
  <1>1. Captured.until = next /\ Captured.sources = window
    BY DEF Captured
  <1>2. WindowOf(rows, window) /\ HasBelow(rows, window, Len(rows) + 1)
    BY DEF MemoryOf
  <1>3. \A m \in 1 .. next - 1 : m \in 1 .. (Len(rows) + 1) - 1
    OBVIOUS
  <1>4. HasBelow(rows, window, next)
    BY <1>2, <1>3 DEF HasBelow
  <1> QED
    BY <1>1, <1>2, <1>4 DEF SnapshotOf
\* A step of a worker
LEMMA WorkerOnce ==
    ASSUME SentinelAssumption, ~TailExposed, MaxRaw <= DerivedWindow,
           WatchInv, OnceInv, NEW w \in SentinelWorkers, WorkerStep(w)
    PROVE  OnceInv'
  <1>0. /\ WatchTypes /\ LogInv /\ running = "up" /\ MemoryOf(rows, next, window)
        /\ next \in 1 .. Len(rows) + 1 /\ Len(rows) \in Nat /\ rows \in Seq(Nat)
    <2>1. running = "up"
      BY DEF WorkerStep, TakeCatchUp, Receive, TimesOut, LockCursor, Recognise, Derive,
             FailsToDerive, CommitCursor, Capture, SkipCapture, Publish, Is
    <2> QED
      BY <2>1 DEF WatchInv, WatchTypes, BelowHead, OnceInv
  <1>1. ASSUME UNCHANGED <<logRows, next, window, running>>, UNCHANGED spent \/ Trouble,
               NEW d, doing' = [doing EXCEPT ![w] = d],
               d.at = "captured" => SnapshotOf(rows, d.hand),
               cursor' = cursor \/ cursor' = next,
               snapshot' = snapshot \/ SnapshotOf(rows, snapshot')
        PROVE  OnceInv'
    <2>1. LogInv' /\ rows' = rows
      BY <1>0, <1>1, SameLog
    <2>2. Longer(rows, rows')
      BY <1>0, <2>1 DEF Longer
    <2>3. MemoryOf(rows', next', window') /\ UNCHANGED running
      BY <1>0, <1>1, <2>1
    <2>4. cursor' = cursor \/ (cursor' = next /\ next <= Len(rows) + 1)
      BY <1>0, <1>1
    <2>5. LogInv'
      BY <2>1
    <2>6. snapshot' = snapshot \/ SnapshotOf(rows, snapshot')
      BY <1>1
    <2>7. WatchTypes /\ running = "up"
      BY <1>0
    <2>8. doing' = [doing EXCEPT ![w] = d] /\ (d.at = "captured" => SnapshotOf(rows, d.hand))
      BY <1>1
    <2> QED
      BY <2>2, <2>3, <2>4, <2>5, <2>6, <2>7, <2>8, WorkerStays
  <1>2. Idling.at # "captured" /\ Doing("done", 0, NoSnapshot).at # "captured"
    BY IdlingWorks DEF Doing
  <1>3. CASE TakeCatchUp(w) \/ Receive(w)
    <2>1. /\ doing' = [doing EXCEPT ![w] = Doing("pass", Len(rows), NoSnapshot)]
          /\ UNCHANGED <<logRows, next, window, cursor, snapshot, running, spent>>
      BY <1>3 DEF TakeCatchUp, Receive, Starts
    <2>2. Doing("pass", Len(rows), NoSnapshot).at # "captured"
      BY DEF Doing
    <2> QED
      BY <1>1, <2>1, <2>2
  <1>4. CASE TimesOut(w)
    <2>1. UNCHANGED <<logRows, next, window, doing, cursor, snapshot, running, spent>>
      BY <1>4 DEF TimesOut
    <2> QED
      BY <2>1 DEF OnceInv, LogInv, logRows
  <1>5. CASE LockCursor(w)
    <2>1. UNCHANGED <<logRows, next, window, cursor, snapshot, running, spent>>
      BY <1>5 DEF LockCursor
    <2>2. CASE Rests(w)
      BY <1>1, <1>2, <2>1, <2>2 DEF Rests
    <2>3. ASSUME NEW upto, doing' = [doing EXCEPT ![w] = Doing("row", upto, NoSnapshot)]
          PROVE  OnceInv'
      <3>1. Doing("row", upto, NoSnapshot).at # "captured"
        BY DEF Doing
      <3> QED
        BY <1>1, <2>1, <2>3, <3>1
    <2> QED
      BY <1>5, <2>2, <2>3 DEF LockCursor
  <1>6. ASSUME Is(w, "row"), Evaluated(w), LogInv', Longer(rows, rows'),
               UNCHANGED <<cursor, snapshot, running>>,
               WindowOf(rows', window'), HasBelow(rows', window', Len(rows') + 1),
               rows[next] = 0 => next \in Sources(rows')
        PROVE  OnceInv'
    <2>1. next \in 1 .. Len(rows)
      <3>1. doing[w].upto <= Len(rows) /\ next <= doing[w].upto /\ doing[w].upto \in Nat
        BY <1>0, <1>6 DEF WatchInv, BelowHead, Is, WatchTypes, Working
      <3> QED
        BY <1>0, <3>1
    <2>2. DerivedBelow(rows', next)
      BY <1>0, <1>6, LongerKeeps DEF MemoryOf
    <2>3. CASE next' = next + 1 /\ Goes(w, "commit")
      <3>1. PICK d : doing' = [doing EXCEPT ![w] = d] /\ d.at = "commit"
        BY <1>0, <2>3, NextStage DEF Stages
      <3>2. DerivedBelow(rows', next + 1)
        <4>1. \A m \in 1 .. (next + 1) - 1 : m \in 1 .. next - 1 \/ m = next
          BY <2>1
        <4>2. rows'[next] = rows[next]
          BY <1>6, <2>1 DEF Longer
        <4> QED
          BY <1>6, <2>2, <4>1, <4>2 DEF DerivedBelow
      <3>3. MemoryOf(rows', next', window')
        BY <1>6, <2>3, <3>2 DEF MemoryOf
      <3> QED
        BY <1>0, <1>6, <3>1, <3>3, WorkerStays
    <2>4. CASE Rests(w) /\ UNCHANGED next
      <3>1. doing' = [doing EXCEPT ![w] = Idling]
        BY <2>4 DEF Rests
      <3>2. MemoryOf(rows', next', window')
        BY <1>6, <2>2, <2>4 DEF MemoryOf
      <3> QED
        BY <1>0, <1>2, <1>6, <3>1, <3>2, WorkerStays
    <2> QED
      BY <1>6, <2>3, <2>4 DEF Evaluated
  <1>7. CASE Recognise(w)
    <2>1. /\ Is(w, "row") /\ (rows[next] # 0 \/ AlreadyDerived(w)) /\ Evaluated(w)
          /\ UNCHANGED <<logRows, window, cursor, snapshot, running>>
      BY <1>7 DEF Recognise
    <2>2. LogInv' /\ rows' = rows
      BY <1>0, <2>1, SameLog DEF Evaluated
    <2>3. rows[next] = 0 => next \in Sources(rows)
      <3>1. CASE \E n \in next .. doing[w].upto : rows[n] = next
        <4>1. doing[w].upto <= Len(rows) /\ doing[w].upto \in Nat
          BY <1>0, <2>1 DEF WatchInv, BelowHead, Is, WatchTypes, Working
        <4>2. \A n \in next .. doing[w].upto : n \in DOMAIN rows
          BY <1>0, <4>1
        <4> QED
          BY <1>0, <3>1, <4>2 DEF Sources
      <3>2. CASE Contains(window, next)
        <4>1. window \in Seq(Sources(rows))
          BY <1>0 DEF MemoryOf, WindowOf
        <4> QED
          BY <3>2, <4>1 DEF Contains
      <3> QED
        BY <2>1, <3>1, <3>2 DEF AlreadyDerived
    <2>4. Longer(rows, rows')
      BY <1>0, <2>2 DEF Longer
    <2> QED
      BY <1>0, <1>6, <2>1, <2>2, <2>3, <2>4 DEF MemoryOf
  <1>8. CASE Derive(w)
    <2>1. /\ Is(w, "row") /\ rows[next] = 0 /\ ~Contains(window, next) /\ AppendRow(next)
          /\ window' = Remember(window, next) /\ Evaluated(w)
          /\ UNCHANGED <<cursor, snapshot, running>>
      BY <1>8 DEF Derive, AlreadyDerived
    <2>2. next \in 1 .. Len(rows) /\ next \in DOMAIN rows /\ DOMAIN rows = 1 .. Len(rows)
      <3>1. doing[w].upto <= Len(rows) /\ next <= doing[w].upto /\ doing[w].upto \in Nat
        BY <1>0, <2>1 DEF WatchInv, BelowHead, Is, WatchTypes, Working
      <3> QED
        BY <1>0, <3>1
    <2>3. next \in RawRows(rows) \ Sources(rows)
      <3>1. next \in RawRows(rows)
        BY <2>1, <2>2 DEF RawRows
      <3>2. \A m \in DOMAIN rows : rows[m] # next
        <4>1. \A m \in DOMAIN rows : rows[m] # 0 => Contains(window, rows[m])
          BY <1>0, <2>2 DEF MemoryOf, HasBelow
        <4> QED
          BY <2>1, <2>2, <4>1
      <3> QED
        BY <3>1, <3>2 DEF Sources
    <2>4. rows' = Append(rows, next) /\ rowsSure' = Len(rows')
      BY <2>1 DEF AppendRow
    <2>5. spent' \in [raw : Nat, troubles : Nat] /\ spent'.raw = spent.raw /\ spent.raw <= MaxRaw
      <3>1. UNCHANGED spent \/ Trouble
        BY <2>1 DEF Evaluated
      <3> QED
        BY <1>0, <3>1, Spends DEF LogInv
    <2>6. /\ LogInv' /\ Longer(rows, rows')
          /\ Len(rows') = Len(rows) + 1 /\ rows'[Len(rows) + 1] = next
          /\ next \in Sources(rows')
      <3>1. next \in Nat /\ next # 0
        BY <2>2
      <3> QED
        BY <1>0, <2>3, <2>4, <2>5, <3>1, OneMore
    <2>7. /\ WindowOf(rows', Remember(window, next)) /\ Contains(Remember(window, next), next)
          /\ \A s : Contains(window, s) => Contains(Remember(window, next), s)
      <3> DEFINE S == Sources(rows')
                 more == Remember(window, next)
      <3>1. IsFiniteSet(S) /\ Cardinality(S) <= DerivedWindow
        <4>1. /\ rows' \in Seq(Nat) /\ spent'.raw \in Nat
              /\ Sources(rows') \subseteq RawRows(rows')
              /\ Cardinality(RawRows(rows')) <= spent'.raw /\ spent'.raw <= MaxRaw
          BY <2>5, <2>6 DEF LogInv, Longer
        <4> QED
          BY <4>1, FewSources
      <3>2. WindowOf(rows', window)
        BY <1>0, <2>6, LongerKeeps DEF MemoryOf
      <3>3. window \in Seq(S) /\ \A i, j \in 1 .. Len(window) : window[i] = window[j] => i = j
        BY <3>2 DEF WindowOf
      <3> HIDE DEF S
      <3>4. /\ more \in Seq(S)
            /\ \A i, j \in 1 .. Len(more) : more[i] = more[j] => i = j
            /\ Contains(more, next)
            /\ \A s : Contains(window, s) => Contains(more, s)
        BY <2>6, <3>1, <3>3, Remembers DEF S
      <3> QED
        BY <3>4 DEF WindowOf, S
    <2>8. HasBelow(rows', window', Len(rows') + 1)
      <3>1. HasBelow(rows', window, Len(rows) + 1)
        BY <1>0, <2>6, LongerKeeps DEF MemoryOf
      <3>2. \A m \in 1 .. (Len(rows') + 1) - 1 : m \in 1 .. (Len(rows) + 1) - 1 \/ m = Len(rows) + 1
        BY <1>0, <2>6
      <3> QED
        BY <2>1, <2>6, <2>7, <3>1, <3>2 DEF HasBelow
    <2>9. WindowOf(rows', window')
      BY <2>1, <2>7
    <2> QED
      BY <1>6, <2>1, <2>6, <2>8, <2>9
  <1>9. CASE FailsToDerive(w) \/ SkipCapture(w)
    <2>1. /\ doing' = [doing EXCEPT ![w] = Idling] /\ (UNCHANGED spent \/ Trouble)
          /\ UNCHANGED <<logRows, next, window, cursor, snapshot, running>>
      BY <1>9 DEF FailsToDerive, SkipCapture, Rests
    <2> QED
      BY <1>1, <1>2, <2>1
  <1>10. CASE CommitCursor(w)
    <2>1. /\ UNCHANGED <<logRows, next, window, snapshot, running>>
          /\ UNCHANGED spent \/ Trouble
          /\ cursor' = cursor \/ cursor' = next
      BY <1>10 DEF CommitCursor
    <2>2. \/ Goes(w, "row") \/ doing' = [doing EXCEPT ![w] = Doing("done", 0, NoSnapshot)]
          \/ doing' = [doing EXCEPT ![w] = Idling]
      BY <1>10 DEF CommitCursor, Rests, Ends
    <2>3. CASE Goes(w, "row")
      <3>1. PICK d : doing' = [doing EXCEPT ![w] = d] /\ d.at = "row"
        BY <1>0, <2>3, NextStage DEF Stages
      <3> QED
        BY <1>1, <2>1, <3>1
    <2> QED
      BY <1>1, <1>2, <2>1, <2>2, <2>3
  <1>11. CASE Capture(w)
    <2>1. /\ snapshot' = NoSnapshot
          /\ doing' = [doing EXCEPT ![w] = Doing("captured", 0, Captured)]
          /\ UNCHANGED <<logRows, next, window, cursor, running, spent>>
      BY <1>11 DEF Capture
    <2>2. SnapshotOf(rows, Captured)
      BY <1>0, CapturedIs
    <2>3. Doing("captured", 0, Captured).hand = Captured /\ SnapshotOf(rows, NoSnapshot)
      BY DEF Doing, SnapshotOf
    <2> QED
      BY <1>1, <2>1, <2>2, <2>3
  <1>12. CASE Publish(w)
    <2>1. /\ doing[w].at = "captured" /\ doing' = [doing EXCEPT ![w] = Idling]
          /\ snapshot' = snapshot \/ snapshot' = doing[w].hand
          /\ UNCHANGED <<logRows, next, window, cursor, running>> /\ (UNCHANGED spent \/ Trouble)
      BY <1>12 DEF Publish, Is, Rests
    <2>2. SnapshotOf(rows, doing[w].hand)
      BY <1>0, <2>1 DEF OnceInv
    <2> QED
      BY <1>1, <1>2, <2>1, <2>2
  <1> QED
    BY <1>3, <1>4, <1>5, <1>7, <1>8, <1>9, <1>10, <1>11, <1>12 DEF WorkerStep
LEMMA NextOnce ==
    ASSUME SentinelAssumption, ~TailExposed, MaxRaw <= DerivedWindow,
           WatchInv, OnceInv, SentinelNext
    PROVE  OnceInv'
  <1>0. WatchTypes /\ LogInv /\ Len(rows) \in Nat /\ rows \in Seq(Nat) /\ cursor \in Nat \ {0}
    BY DEF WatchInv, WatchTypes, OnceInv
  <1>1. CASE ClientAppends
    <2>1. /\ rows' = Append(rows, 0) /\ rowsSure' = Len(rows')
          /\ UNCHANGED <<next, window, doing, cursor, snapshot, running>> /\ running = "up"
      BY <1>1 DEF ClientAppends, AppendRow
    <2>2. /\ spent' \in [raw : Nat, troubles : Nat] /\ spent'.raw <= MaxRaw
          /\ spent'.raw = spent.raw + 1
      <3>1. spent.raw < MaxRaw /\ spent' = [spent EXCEPT !["raw"] = spent.raw + 1]
        BY <1>1 DEF ClientAppends, SpendOn
      <3>2. MaxRaw \in Nat /\ spent \in [raw : Nat, troubles : Nat]
        BY <1>0 DEF LogInv, SentinelAssumption
      <3>3. spent' \in [raw : Nat, troubles : Nat] /\ spent'.raw = spent.raw + 1
        BY <3>1, <3>2
      <3> QED
        BY <3>1, <3>2, <3>3
    <2>3. /\ LogInv' /\ Longer(rows, rows') /\ Len(rows') = Len(rows) + 1
          /\ rows'[Len(rows) + 1] = 0
      BY <1>0, <2>1, <2>2, OneMore
    <2>4. /\ MemoryOf(rows, next, window) /\ next \in 1 .. Len(rows) + 1
          /\ \A w \in SentinelWorkers :
                doing[w].at = "captured" => SnapshotOf(rows, doing[w].hand)
      BY <1>0, <2>1 DEF OnceInv, WatchInv, BelowHead, WatchTypes
    <2>5. MemoryOf(rows', next, window)
      <3>1. /\ DerivedBelow(rows', next) /\ WindowOf(rows', window)
            /\ HasBelow(rows', window, Len(rows) + 1)
        BY <1>0, <2>3, <2>4, LongerKeeps DEF MemoryOf
      <3>2. \A m \in 1 .. (Len(rows') + 1) - 1 : m \in 1 .. (Len(rows) + 1) - 1 \/ m = Len(rows) + 1
        BY <1>0, <2>3
      <3>3. HasBelow(rows', window, Len(rows') + 1)
        BY <2>3, <3>1, <3>2 DEF HasBelow
      <3> QED
        BY <3>1, <3>3 DEF MemoryOf
    <2>6. cursor <= Len(rows') + 1 /\ DerivedBelow(rows', cursor)
      <3>1. cursor \in 1 .. Len(rows) + 1 /\ DerivedBelow(rows, cursor)
        BY <1>0 DEF OnceInv
      <3> QED
        BY <1>0, <2>3, <3>1, LongerKeeps
    <2>7. \A s : SnapshotOf(rows, s) => SnapshotOf(rows', s)
      BY <2>3, LongerKeeps
    <2>8. SnapshotOf(rows, snapshot)
      BY DEF OnceInv
    <2> QED
      BY <2>1, <2>3, <2>4, <2>5, <2>6, <2>7, <2>8 DEF OnceInv
  <1>2. CASE Hear \/ Lag
    <2>1. UNCHANGED <<logRows, next, window, doing, cursor, snapshot, running, spent>>
      BY <1>2 DEF Hear, Lag
    <2> QED
      BY <2>1 DEF OnceInv, LogInv, logRows
  <1>3. CASE WorkersStep
    BY <1>3, WorkerOnce DEF WorkersStep
  <1>4. ASSUME UNCHANGED logRows, SentinelStops, UNCHANGED cursor,
               snapshot' = snapshot \/ SnapshotOf(rows, snapshot')
        PROVE  OnceInv'
    <2>1. LogInv' /\ rows' = rows
      BY <1>0, <1>4, SameLog DEF SentinelStops
    <2>2. running' = "down"
      BY <1>4 DEF SentinelStops
    <2> QED
      BY <1>4, <2>1, <2>2 DEF OnceInv
  <1>5. CASE SentinelKill
    BY <1>4, <1>5 DEF SentinelKill
  <1>6. CASE Shutdown
    <2>1. running = "up" /\ SentinelStops /\ snapshot' = Captured /\ UNCHANGED <<logRows, cursor>>
      BY <1>6 DEF Shutdown
    <2>2. MemoryOf(rows, next, window) /\ next \in 1 .. Len(rows) + 1
      BY <1>0, <2>1 DEF OnceInv, WatchInv, BelowHead, WatchTypes
    <2>3. SnapshotOf(rows, Captured)
      BY <1>0, <2>2, CapturedIs
    <2> QED
      BY <1>4, <2>1, <2>3
  <1>7. CASE \E left \in rowsSure .. Len(rows) : SentinelPowerFails(left)
    <2>1. PICK left \in rowsSure .. Len(rows) : SentinelPowerFails(left)
      BY <1>7
    <2>2. left = Len(rows) /\ rowsSure = Len(rows)
      BY <1>0, <2>1 DEF LogInv
    <2>3. /\ SentinelStops /\ rows' = SubSeq(rows, 1, Len(rows)) /\ rowsSure' = Len(rows)
          /\ UNCHANGED <<cursor, snapshot>>
      BY <2>1, <2>2 DEF SentinelPowerFails
    <2>4. SubSeq(rows, 1, Len(rows)) = rows
      BY <1>0, SubSeqFull
    <2> QED
      BY <1>4, <2>2, <2>3, <2>4 DEF logRows
  <1>8. CASE FileRots
    <2>1. /\ UNCHANGED logRows /\ Trouble /\ running = "down" /\ UNCHANGED running
          /\ cursor' = 1 \/ cursor' = cursor
          /\ snapshot' = snapshot \/ snapshot' = NoSnapshot
      BY <1>8 DEF FileRots
    <2>2. LogInv' /\ rows' = rows
      BY <1>0, <2>1, SameLog
    <2>3. DerivedBelow(rows, 1) /\ SnapshotOf(rows, NoSnapshot)
      BY DEF DerivedBelow, SnapshotOf
    <2>4. cursor' <= Len(rows) + 1 /\ DerivedBelow(rows, cursor')
      BY <1>0, <2>1, <2>3 DEF OnceInv
    <2>5. SnapshotOf(rows, snapshot')
      BY <2>1, <2>3 DEF OnceInv
    <2> QED
      BY <2>1, <2>2, <2>4, <2>5 DEF OnceInv
  <1>9. CASE SentinelRefuses
    <2>1. UNCHANGED <<logRows, cursor, snapshot, spent>> /\ running' = "refused"
      BY <1>9 DEF SentinelRefuses
    <2> QED
      BY <2>1 DEF OnceInv, LogInv, logRows
  <1>10. CASE SentinelBoot
    <2>1. /\ UNCHANGED <<logRows, cursor, spent>> /\ window' = Restored
          /\ next' = IF cursor > Len(rows) + 1 THEN 1 ELSE cursor
          /\ snapshot' = snapshot \/ snapshot' = [until |-> next', sources |-> window']
          /\ doing' = [w \in SentinelWorkers |-> Idling]
      BY <1>10 DEF SentinelBoot
    <2>2. LogInv' /\ rows' = rows
      BY <1>0, <2>1, SameLog
    <2>3. cursor <= Len(rows) + 1 /\ DerivedBelow(rows, cursor) /\ SnapshotOf(rows, snapshot)
      BY DEF OnceInv
    <2>4. next' = cursor /\ next' \in 1 .. Len(rows) + 1
      BY <1>0, <2>1, <2>3
    <2>5. WindowOf(rows, window') /\ HasBelow(rows, window', Len(rows) + 1)
      BY <1>0, <2>1, <2>3, RestoredHas
    <2>6. SnapshotOf(rows, snapshot')
      <3>1. CASE snapshot' = snapshot
        BY <2>3, <3>1
      <3>2. CASE snapshot' = [until |-> next', sources |-> window']
        <4>1. snapshot'.until = next' /\ snapshot'.sources = window'
          BY <3>2
        <4>2. \A m \in 1 .. next' - 1 : m \in 1 .. (Len(rows) + 1) - 1
          BY <1>0, <2>4
        <4>3. HasBelow(rows, window', next')
          BY <2>5, <4>2 DEF HasBelow
        <4> QED
          BY <2>4, <2>5, <4>1, <4>3 DEF SnapshotOf
      <3> QED
        BY <2>1, <3>1, <3>2
    <2>7. \A w \in SentinelWorkers : doing'[w].at # "captured"
      BY <2>1, IdlingWorks
    <2>8. MemoryOf(rows, next', window')
      BY <2>3, <2>4, <2>5 DEF MemoryOf
    <2> QED
      BY <2>1, <2>2, <2>3, <2>6, <2>7, <2>8 DEF OnceInv
  <1> QED
    BY <1>1, <1>2, <1>3, <1>5, <1>6, <1>7, <1>8, <1>9, <1>10 DEF SentinelNext

\* A raw row the sentinel has gone past has exactly one event that derives from
\* it, whatever was retried, killed, rebuilt or replayed (process_until, "to
\* avoid duplicate logical SecurityEvents"), when a row is durable once it is
\* appended and the window holds the sources of the whole log.
THEOREM DerivedOnce ==
    ASSUME ~TailExposed, MaxRaw <= DerivedWindow
    PROVE  SentinelSpec => []DerivedExactlyOnce
  <1>1. SentinelInit => OnceInv
    BY SentinelAssumption, InitOnce
  <1>2. WatchInv /\ OnceInv /\ [SentinelNext]_sentinelVars => OnceInv'
    <2> SUFFICES ASSUME WatchInv, OnceInv, [SentinelNext]_sentinelVars
                 PROVE  OnceInv'
      OBVIOUS
    <2>1. CASE SentinelNext
      BY <2>1, SentinelAssumption, NextOnce
    <2>2. CASE UNCHANGED sentinelVars
      BY <2>2 DEF sentinelVars, logRows, OnceInv, LogInv
    <2> QED
      BY <2>1, <2>2
  <1>3. WatchInv /\ OnceInv => DerivedExactlyOnce
    <2> SUFFICES ASSUME WatchTypes, BelowHead, OnceInv
                 PROVE  DerivedExactlyOnce
      BY DEF WatchInv
    <2>0. Len(rows) \in Nat /\ DOMAIN rows = 1 .. Len(rows) /\ next \in Nat
      BY DEF WatchTypes
    <2>1. NoneSkipped
      <3> SUFFICES ASSUME running = "up", NEW n \in 1 .. next - 1, rows[n] = 0
                   PROVE  Derivations(n) # {}
        BY DEF NoneSkipped
      <3>1. n \in Sources(rows)
        BY DEF OnceInv, MemoryOf, DerivedBelow
      <3> QED
        BY <3>1 DEF Sources, Derivations
    <2>2. ASSUME NEW n \in DOMAIN rows PROVE Cardinality(Derivations(n)) <= 1
      <3>1. n # 0
        BY <2>0
      <3>2. \A a, b \in Derivations(n) : a = b
        BY <3>1 DEF OnceInv, LogInv, Derivations
      <3>3. CASE Derivations(n) = {}
        BY <3>3, FS_EmptySet
      <3>4. CASE Derivations(n) # {}
        <4>1. PICK a : Derivations(n) = {a}
          BY <3>2, <3>4
        <4>2. Cardinality({a}) = 1
          BY FS_Singleton
        <4>3. Cardinality(Derivations(n)) = 1
          BY <4>1, <4>2
        <4> QED
          BY <4>3
      <3> QED
        BY <3>3, <3>4
    <2> QED
      BY <2>1, <2>2 DEF DerivedExactlyOnce
  <1> QED
    BY <1>1, <1>2, <1>3, PositionsOrdered, PTL DEF SentinelSpec
=============================================================================
