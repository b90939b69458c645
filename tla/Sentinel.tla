------------------------------ MODULE Sentinel ------------------------------
(***************************************************************************)
(* The sentinel derives one security event from each raw row of the log    *)
(* and appends it to the same log (heraclitus-sentinel: lib.rs worker_loop *)
(* and process_until, queue.rs, cursor.rs, state/snapshot.rs,              *)
(* state/startup.rs).  It remembers how far it is in a cursor file, which  *)
(* it makes durable row by row, and what it derived in a snapshot; a boot  *)
(* reconciles the two with the log.                                        *)
(*                                                                         *)
(* Positions count from 1, so that the head of the log is Len(rows) + 1.   *)
(* Every raw row is one the normaliser takes.  Signals, incidents and what *)
(* else the detectors append are left out, and so is the index of the      *)
(* server that may recognise a repeated append: the sentinel is not to     *)
(* rely on it (engine.rs, append_sentinel_derived).                        *)
(***************************************************************************)
EXTENDS Integers, Sequences, FiniteSets, SequencesExt

CONSTANTS
    SentinelWorkers,   \* worker_threads
    QueueCapacity,     \* queue_capacity
    CatchUpBatch,      \* catch_up_batch
    DerivedWindow,     \* TECTO_LSN_DERIVADOS
    CursorPolicies,    \* cursor_policy at a boot: "strict" or "rebuild"
    TailExposed,       \* FsyncPolicy::GroupCommit, or else Always
    MaxRaw,            \* bound: raw rows
    MaxTroubles        \* bound: failed appends, evaluations and writes, ends of the
                       \* process and damaged files, all together

ASSUME SentinelAssumption ==
    /\ CursorPolicies \subseteq {"strict", "rebuild"}
    /\ TailExposed \in BOOLEAN
    /\ {QueueCapacity, CatchUpBatch, DerivedWindow} \subseteq Nat \ {0}
    /\ {MaxRaw, MaxTroubles} \subseteq Nat

VARIABLES
    rows,       \* the log: 0 for a raw row, or the position a SecurityEvent derives from
    rowsSure,   \* how many rows survive a power failure
    told,       \* rows the thread of the subscriber has heard of
    notices,    \* notifications in SecurityQueue
    catchUp,    \* SecurityQueue.catch_up_from is set
    next,       \* RuntimeInner.cursor; its mutex is held from "row" to "commit"
    window,     \* RuntimeInner.derived_sources
    doing,      \* what each worker does
    cursor,     \* cursor.json
    snapshot,   \* state.snapshot
    running,    \* "up", "down" or "refused"
    excused,    \* history: rows or files were lost, or a cursor could not be written
    spent       \* how much of each bound is spent

logRows      == <<rows, rowsSure>>
inbox        == <<told, notices, catchUp>>
sentinelVars == <<logRows, inbox, next, window, doing, cursor, snapshot,
                  running, excused, spent>>

NoSnapshot == [until |-> 0, sources |-> << >>]
Doing(at, upto, hand) == [at |-> at, upto |-> upto, hand |-> hand]
Idling == Doing("idle", 0, NoSnapshot)

SentinelInit ==
    /\ rows = << >> /\ rowsSure = 0
    /\ told = 0 /\ notices = 0 /\ catchUp = TRUE
    /\ next = 1 /\ window = << >> /\ doing = [w \in SentinelWorkers |-> Idling]
    /\ cursor = 1 /\ snapshot = NoSnapshot
    /\ running = "up" /\ excused = FALSE
    /\ spent = [raw |-> 0, troubles |-> 0]

SpendOn(what, bound) == spent[what] < bound /\ spent' = [spent EXCEPT ![what] = @ + 1]
Trouble == SpendOn("troubles", MaxTroubles)

\* Under GroupCommit the next commit comes before the next row, or it does not.
AppendRow(row) ==
    /\ rows' = Append(rows, row)
    /\ rowsSure' \in {Len(rows')} \cup IF TailExposed THEN {rowsSure} ELSE {}

\* JanelaRecente::inserir
Remember(win, source) ==
    IF Contains(win, source) THEN win
    ELSE Append(IF Len(win) < DerivedWindow THEN win ELSE Tail(win), source)

-----------------------------------------------------------------------------
(* The log and its subscriber *)

ClientAppends ==
    /\ running = "up" /\ SpendOn("raw", MaxRaw) /\ AppendRow(0)
    /\ UNCHANGED <<inbox, next, window, doing, cursor, snapshot,
                   running, excused>>

\* on_append; a full queue asks for a catch-up.
Hear ==
    /\ running = "up" /\ told < Len(rows) /\ told' = told + 1
    /\ IF notices < QueueCapacity
       THEN notices' = notices + 1 /\ UNCHANGED catchUp
       ELSE catchUp' = TRUE /\ UNCHANGED notices
    /\ UNCHANGED <<logRows, next, window, doing, cursor, snapshot, running,
                   excused, spent>>

\* on_buffer_overflow: the broadcast moved on without the subscriber.
Lag ==
    /\ running = "up" /\ told < Len(rows) /\ told' = Len(rows) /\ catchUp' = TRUE
    /\ UNCHANGED <<logRows, notices, next, window, doing, cursor, snapshot, running,
                   excused, spent>>

-----------------------------------------------------------------------------
(* worker_loop *)

Is(w, at) == running = "up" /\ doing[w].at = at
Goes(w, at) == doing' = [doing EXCEPT ![w].at = at]
Rests(w) == doing' = [doing EXCEPT ![w] = Idling]
Ends(w) == doing' = [doing EXCEPT ![w] = Doing("done", 0, NoSnapshot)]

\* process_until reads the head before it locks the cursor.
Starts(w) == doing' = [doing EXCEPT ![w] = Doing("pass", Len(rows), NoSnapshot)]

Locked == \E w \in SentinelWorkers : doing[w].at \in {"row", "commit"}
Publishing == \E w \in SentinelWorkers : doing[w].at = "captured"

TakeCatchUp(w) ==
    /\ Is(w, "idle") /\ catchUp /\ catchUp' = FALSE /\ Starts(w)
    /\ UNCHANGED <<logRows, told, notices, next, window, cursor, snapshot, running,
                   excused, spent>>

\* catch_up may have been set since the worker looked.
Receive(w) ==
    /\ Is(w, "idle") /\ notices > 0 /\ notices' = notices - 1 /\ Starts(w)
    /\ UNCHANGED <<logRows, told, catchUp, next, window, cursor, snapshot, running,
                   excused, spent>>

\* Mutant of NeedsWork: the head is not looked at.
NeverNeedsWork == FALSE

NeedsWork == next <= Len(rows)

TimesOut(w) ==
    /\ Is(w, "idle") /\ notices = 0 /\ ~catchUp /\ ~Locked /\ NeedsWork /\ catchUp' = TRUE
    /\ UNCHANGED <<logRows, told, notices, next, window, doing, cursor, snapshot, running,
                   excused, spent>>

-----------------------------------------------------------------------------
(* process_until: a batch under the mutex of the cursor *)

LockCursor(w) ==
    /\ Is(w, "pass") /\ ~Locked
    /\ IF next > doing[w].upto
       THEN Rests(w)
       ELSE \E upto \in {doing[w].upto, next + CatchUpBatch - 1} :
                /\ upto <= doing[w].upto /\ upto < next + CatchUpBatch
                /\ doing' = [doing EXCEPT ![w] = Doing("row", upto, NoSnapshot)]
    /\ UNCHANGED <<logRows, inbox, next, window, cursor, snapshot, running, excused, spent>>

\* A row that derives from this one is in the batch, or in the window.
AlreadyDerived(w) ==
    (\E n \in next .. doing[w].upto : rows[n] = next) \/ Contains(window, next)

\* What follows the derivation may fail, and the row is then taken again.
Evaluated(w) ==
    \/ next' = next + 1 /\ Goes(w, "commit") /\ UNCHANGED spent
    \/ Trouble /\ Rests(w) /\ UNCHANGED next

\* A derived row, or a raw one already derived from
Recognise(w) ==
    /\ Is(w, "row") /\ (rows[next] # 0 \/ AlreadyDerived(w)) /\ Evaluated(w)
    /\ UNCHANGED <<logRows, inbox, window, cursor, snapshot, running, excused>>

Derive(w) ==
    /\ Is(w, "row") /\ rows[next] = 0 /\ ~AlreadyDerived(w)
    /\ AppendRow(next) /\ window' = Remember(window, next) /\ Evaluated(w)
    /\ UNCHANGED <<inbox, cursor, snapshot, running, excused>>

FailsToDerive(w) ==
    /\ Is(w, "row") /\ rows[next] = 0 /\ ~AlreadyDerived(w) /\ Trouble /\ Rests(w)
    /\ UNCHANGED <<logRows, inbox, next, window, cursor, snapshot, running, excused>>

\* If the file cannot be written the cursor in memory has moved all the same.
CommitCursor(w) ==
    /\ Is(w, "commit")
    /\ \/ /\ cursor' = next
          /\ IF next <= doing[w].upto
             THEN Goes(w, "row") /\ UNCHANGED catchUp
             ELSE Ends(w) /\ catchUp' = (catchUp \/ next <= Len(rows))
          /\ UNCHANGED <<excused, spent>>
       \/ Trouble /\ excused' = TRUE /\ Rests(w) /\ UNCHANGED <<cursor, catchUp>>
    /\ UNCHANGED <<logRows, told, notices, next, window, snapshot, running>>

-----------------------------------------------------------------------------
(* Snapshots: captured under the mutex of the cursor, published without it *)

Captured == [until |-> next, sources |-> window]

\* Mutant of CursorFree: the capture does not wait for the batch.
CursorFreeAlways == TRUE

CursorFree == ~Locked

\* talvez_publicar_snapshot, when its thresholds say so and nobody publishes: the
\* snapshot there is becomes state.snapshot.prev, which no boot reads.
Capture(w) ==
    /\ Is(w, "done") /\ CursorFree /\ ~Publishing /\ snapshot' = NoSnapshot
    /\ doing' = [doing EXCEPT ![w] = Doing("captured", 0, Captured)]
    /\ UNCHANGED <<logRows, inbox, next, window, cursor, running, excused, spent>>

SkipCapture(w) ==
    /\ Is(w, "done") /\ Rests(w)
    /\ UNCHANGED <<logRows, inbox, next, window, cursor, snapshot, running,
                   excused, spent>>

Publish(w) ==
    /\ Is(w, "captured") /\ Rests(w)
    /\ \/ snapshot' = doing[w].hand /\ UNCHANGED spent
       \/ Trouble /\ UNCHANGED snapshot
    /\ UNCHANGED <<logRows, inbox, next, window, cursor, running, excused>>

-----------------------------------------------------------------------------
(* The process ends and starts again *)

SentinelStops ==
    /\ running' = "down" /\ Trouble
    /\ told' = 0 /\ notices' = 0 /\ catchUp' = FALSE /\ next' = 1 /\ window' = << >>
    /\ doing' = [w \in SentinelWorkers |-> Idling]

SentinelKill ==
    /\ running = "up" /\ SentinelStops
    /\ UNCHANGED <<logRows, cursor, snapshot, excused>>

\* shutdown: the workers have been joined, a last snapshot is published.
Shutdown ==
    /\ running = "up" /\ SentinelStops
    /\ \A w \in SentinelWorkers : doing[w].at = "idle"
    /\ snapshot' = Captured
    /\ UNCHANGED <<logRows, cursor, excused>>

\* A prefix of the rows is left, never less than what is durable.
SentinelPowerFails(left) ==
    /\ running # "refused" /\ SentinelStops
    /\ rows' = SubSeq(rows, 1, left) /\ rowsSure' = left
    /\ excused' = (excused \/ left < Len(rows))
    /\ UNCHANGED <<cursor, snapshot>>

\* carregar_tolerante takes an unreadable cursor as 0; an unreadable snapshot is none.
FileRots ==
    /\ running = "down" /\ Trouble /\ excused' = TRUE
    /\ \/ cursor' = 1 /\ UNCHANGED snapshot
       \/ snapshot' = NoSnapshot /\ UNCHANGED cursor
    /\ UNCHANGED <<logRows, inbox, next, window, doing, running>>

\* reconcile_startup_state
Diverges ==
    \/ cursor > Len(rows) + 1
    \/ snapshot # NoSnapshot /\ (snapshot.until > Len(rows) + 1 \/ cursor < snapshot.until)

SentinelRefuses ==
    /\ running = "down" /\ Diverges /\ "strict" \in CursorPolicies /\ running' = "refused"
    /\ UNCHANGED <<logRows, inbox, next, window, doing, cursor, snapshot,
                   excused, spent>>

Trusted == IF Diverges THEN NoSnapshot ELSE snapshot

\* Mutant of Restored: passagem_de_ids does not read the tail.
RestoredSources == Trusted.sources

\* passagem_de_ids: the window of the snapshot, then the derived rows after it
Restored ==
    LET from == IF Trusted = NoSnapshot THEN 1 ELSE Trusted.until
        read[n \in from - 1 .. Len(rows)] ==
            IF n < from THEN Trusted.sources
            ELSE IF rows[n] = 0 THEN read[n - 1] ELSE Remember(read[n - 1], rows[n])
    IN read[Len(rows)]

\* Without a snapshot to go by the boot publishes one, or fails to.
SentinelBoot ==
    /\ running = "down" /\ (Diverges => "rebuild" \in CursorPolicies) /\ running' = "up"
    /\ window' = Restored
    /\ next' = IF cursor > Len(rows) + 1 THEN 1 ELSE cursor
    /\ \/ UNCHANGED snapshot
       \/ Trusted = NoSnapshot /\ snapshot' = [until |-> next', sources |-> window']
    /\ doing' = [w \in SentinelWorkers |-> Idling]
    /\ told' = Len(rows) /\ notices' = 0 /\ catchUp' = TRUE
    /\ UNCHANGED <<logRows, cursor, excused, spent>>

WorkerStep(w) ==
    \/ TakeCatchUp(w) \/ Receive(w) \/ TimesOut(w)
    \/ LockCursor(w) \/ Recognise(w) \/ Derive(w) \/ FailsToDerive(w) \/ CommitCursor(w)
    \/ Capture(w) \/ SkipCapture(w) \/ Publish(w)

WorkersStep == \E w \in SentinelWorkers : WorkerStep(w)

SentinelNext ==
    \/ ClientAppends \/ Hear \/ Lag
    \/ WorkersStep
    \/ SentinelKill \/ Shutdown \/ \E left \in rowsSure .. Len(rows) : SentinelPowerFails(left)
    \/ FileRots \/ SentinelRefuses \/ SentinelBoot

\* While one of the workers can take a step, one of them does.
SentinelSpec ==
    SentinelInit /\ [][SentinelNext]_sentinelVars /\ WF_sentinelVars(WorkersStep)

-----------------------------------------------------------------------------
(* Properties *)

Derivations(n) == {m \in DOMAIN rows : rows[m] = n}

\* Nothing is lost on the way: a raw row the sentinel has gone past has its
\* security event (the comment of process_until, "This is the commit point: all
\* recoverable work for `lsn` completed").
NoneSkipped ==
    running = "up" =>
        \A n \in 1 .. next - 1 : rows[n] = 0 => Derivations(n) # {}

\* ... and no raw row has two, whatever was retried, killed, rebuilt or replayed
\* (process_until, "to avoid duplicate logical SecurityEvents").
DerivedExactlyOnce ==
    NoneSkipped /\ \A n \in DOMAIN rows : Cardinality(Derivations(n)) <= 1

\* Under cursor_policy = strict the boot refuses only after something was lost
\* or could not be written: a kill alone never puts the snapshot ahead of the
\* cursor, nor the cursor ahead of the log (startup.rs, W <= C <= H).
RefusedForCause == running = "refused" => excused

\* While the sentinel is up it always catches up, whatever notifications are
\* lost and whatever fails a bounded number of times.
CaughtUp == []<>(running # "up" \/ next > Len(rows))
=============================================================================
