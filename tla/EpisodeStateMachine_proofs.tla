--------------------- MODULE EpisodeStateMachine_proofs ---------------------
(***************************************************************************)
(* Whatever the nodes, the entries, the batches, the kills and the failed  *)
(* calls: if no snapshot is built with episodes still to be skipped, and   *)
(* none shorter than the log is installed, every log is a prefix of the    *)
(* agreed sequence (the machine implements AgreedLog), whoever is told an  *)
(* LSN finds its episode there, and snapshots hold what they say.  Types   *)
(* come last: that counts stay in their ranges rests on all of it.         *)
(*                                                                         *)
(* The invariant is stated over values, not over the variables, so that a  *)
(* lemma about a log, a sidecar or a snapshot serves every step.           *)
(***************************************************************************)
EXTENDS EpisodeStateMachine, TLAPS

\* The two runs raft_build_restart and raft_older_snapshot show why.
Undisturbed == ~BuildsAnytime /\ ~OlderSnapshots

\* l is a prefix of a.
Fits(l, a) == Len(l) <= Len(a) /\ \A i \in 1 .. Len(l) : l[i] = a[i]

NormalsIn(c, i) == IF i = 0 THEN 0 ELSE c[i].normals
MemberIn(c, i) == IF i = 0 THEN 0 ELSE c[i].member

\* An entry adds one to the count, if it carries an episode, and that is the
\* episode of the agreed sequence at that place.
EntryFits(i, c, a) ==
    /\ c[i].normals = NormalsIn(c, i - 1) + (IF c[i].kind = "normal" THEN 1 ELSE 0)
    /\ c[i].member = IF c[i].kind = "membership" THEN i ELSE MemberIn(c, i - 1)
    /\ c[i].normals <= Len(a)
    /\ c[i].kind = "normal" =>
          a[c[i].normals] =
             [id |-> i,
              ts |-> Stamp(IF c[i].normals = 1 THEN 0 ELSE a[c[i].normals - 1].ts, c[i].clock)]

HistoryFits(c, a) ==
    /\ c \in Seq(Entry) /\ Len(c) <= MaxEntries
    /\ a \in Seq(Episode) /\ Len(a) = NormalsIn(c, Len(c)) /\ Len(a) <= Len(c)
    /\ \A i \in 1 .. Len(a) : a[i].ts <= LastTs(a)
    /\ LastTs(a) <= MaxClock + Len(a)
    /\ \A i \in 1 .. Len(c) : EntryFits(i, c, a)

LogFits(l, a) == l \in Seq(Episode) /\ Fits(l, a)

\* A record of the applied prefix says what its entries add up to.
CountsFit(r, c) ==
    /\ r.applied \in 0 .. Len(c)
    /\ r.normals = NormalsIn(c, r.applied) /\ r.member = MemberIn(c, r.applied)

SnapshotFits(s, c, a) ==
    /\ s.last \in 0 .. Len(c) /\ s.member = MemberIn(c, s.last)
    /\ LogFits(s.episodes, a) /\ Len(s.episodes) = NormalsIn(c, s.last)

MetaFits(m, l, c) == CountsFit(m, c) /\ m.normals <= Len(l)

\* What is to be skipped is what the log has beyond what was counted.
StateFits(s, t, l, c) ==
    /\ CountsFit(s, c) /\ s.normals <= Len(l)
    /\ t.kind # "install" =>
          /\ s.skip = Len(l) - s.normals
          /\ s.lastTs \in {Unread, LastTs(l)}

Named(x, a) == x[2] \in Nat /\ x[2] + 1 <= Len(a) /\ a[x[2] + 1].id = x[1]

TaskFits(t, l, c, a) ==
    /\ t.kind = "apply" => t.upto \in 0 .. Len(c) /\ \A x \in t.out : Named(x, a)
    /\ t.kind = "install" => SnapshotFits(t.snapshot, c, a) /\ Len(l) <= Len(t.snapshot.episodes)

NodeFits(n) ==
    /\ LogFits(log[n], agreed)
    /\ MetaFits(meta[n], log[n], committed)
    /\ SnapshotFits(current[n], committed, agreed)
    /\ mode[n] = "up" =>
          /\ StateFits(state[n], task[n], log[n], committed)
          /\ TaskFits(task[n], log[n], committed, agreed)
    /\ mode[n] = "down" => task[n] = Idle

AreFunctions ==
    /\ log = [n \in Nodes |-> log[n]] /\ meta = [n \in Nodes |-> meta[n]]
    /\ state = [n \in Nodes |-> state[n]] /\ current = [n \in Nodes |-> current[n]]
    /\ task = [n \in Nodes |-> task[n]] /\ mode = [n \in Nodes |-> mode[n]]

MachineInv ==
    /\ AreFunctions
    /\ HistoryFits(committed, agreed)
    /\ \A n \in Nodes : NodeFits(n)
    /\ \A x \in answered : Named(x, agreed)

-----------------------------------------------------------------------------
(* Prefixes of a history that grows *)

LEMMA CountsAreNat ==
    ASSUME NEW c, NEW a, HistoryFits(c, a), NEW i \in 0 .. Len(c)
    PROVE  NormalsIn(c, i) \in Nat /\ NormalsIn(c, i) <= Len(a) /\ MemberIn(c, i) \in Indices
  <1>1. CASE i = 0
    BY <1>1, ConstantsAssumption DEF HistoryFits, NormalsIn, MemberIn, Indices
  <1>2. CASE i # 0
    <2>1. c[i] \in Entry /\ EntryFits(i, c, a)
      BY <1>2 DEF HistoryFits
    <2> QED
      BY <1>2, <2>1, ConstantsAssumption DEF Entry, EntryFits, NormalsIn, MemberIn, Indices
  <1> QED
    BY <1>1, <1>2

\* c2 and a2 continue c and a.
Continues(c, a, c2, a2) ==
    /\ Len(c) \in Nat /\ Len(a) \in Nat /\ Len(c2) \in Nat /\ Len(a2) \in Nat
    /\ Len(c) <= Len(c2) /\ \A i \in 1 .. Len(c) : c2[i] = c[i]
    /\ Len(a) <= Len(a2) /\ \A i \in 1 .. Len(a) : a2[i] = a[i]

LEMMA CountsContinue ==
    ASSUME NEW c, NEW a, NEW c2, NEW a2, Continues(c, a, c2, a2), NEW i \in 0 .. Len(c)
    PROVE  NormalsIn(c2, i) = NormalsIn(c, i) /\ MemberIn(c2, i) = MemberIn(c, i) /\ i \in 0 .. Len(c2)
  BY DEF Continues, NormalsIn, MemberIn

LEMMA FitsContinue ==
    ASSUME NEW c, NEW a, NEW c2, NEW a2, Continues(c, a, c2, a2)
    PROVE  /\ \A l : LogFits(l, a) => LogFits(l, a2)
           /\ \A x : Named(x, a) => Named(x, a2)
           /\ \A r : CountsFit(r, c) => CountsFit(r, c2)
  <1>1. ASSUME NEW l, LogFits(l, a) PROVE LogFits(l, a2)
    BY <1>1 DEF Continues, LogFits, Fits
  <1>2. ASSUME NEW x, Named(x, a) PROVE Named(x, a2)
    BY <1>2 DEF Continues, Named
  <1>3. ASSUME NEW r, CountsFit(r, c) PROVE CountsFit(r, c2)
    BY <1>3, CountsContinue DEF CountsFit
  <1> QED
    BY <1>1, <1>2, <1>3

LEMMA SnapshotsContinue ==
    ASSUME NEW c, NEW a, NEW c2, NEW a2, Continues(c, a, c2, a2), NEW s, SnapshotFits(s, c, a)
    PROVE  SnapshotFits(s, c2, a2)
  BY FitsContinue, CountsContinue DEF SnapshotFits

LEMMA AppendFits ==
    ASSUME NEW a \in Seq(Episode), NEW l, LogFits(l, a), Len(l) < Len(a)
    PROVE  /\ LogFits(Append(l, a[Len(l) + 1]), a)
           /\ Len(Append(l, a[Len(l) + 1])) = Len(l) + 1
           /\ LastTs(Append(l, a[Len(l) + 1])) = a[Len(l) + 1].ts
  <1>1. l \in Seq(Episode) /\ Len(l) \in Nat /\ a[Len(l) + 1] \in Episode
    BY DEF LogFits
  <1>2. /\ Append(l, a[Len(l) + 1]) \in Seq(Episode)
        /\ Len(Append(l, a[Len(l) + 1])) = Len(l) + 1
        /\ \A i \in 1 .. Len(l) : Append(l, a[Len(l) + 1])[i] = l[i]
        /\ Append(l, a[Len(l) + 1])[Len(l) + 1] = a[Len(l) + 1]
    BY <1>1
  <1>3. Append(l, a[Len(l) + 1]) # << >>
    BY <1>1, <1>2
  <1>4. LogFits(Append(l, a[Len(l) + 1]), a)
    BY <1>1, <1>2 DEF LogFits, Fits
  <1> QED
    BY <1>2, <1>3, <1>4 DEF LastTs

-----------------------------------------------------------------------------
(* What raft commits *)

LEMMA InitInv == ASSUME Init PROVE MachineInv
  <1>1. /\ Len(committed) = 0 /\ Len(agreed) = 0 /\ committed \in Seq(Entry) /\ agreed \in Seq(Episode)
        /\ LastTs(agreed) = 0 /\ NormalsIn(committed, 0) = 0 /\ MemberIn(committed, 0) = 0
    BY DEF Init, LastTs, NormalsIn, MemberIn
  <1>2. HistoryFits(committed, agreed)
    BY <1>1, ConstantsAssumption DEF HistoryFits
  <1>3. AreFunctions
    BY DEF Init, AreFunctions
  <1>4. \A n \in Nodes : /\ log[n] = << >> /\ meta[n] = NoMeta /\ current[n] = NoSnapshot
                         /\ mode[n] = "down" /\ task[n] = Idle
    BY DEF Init
  <1>5. LogFits(<< >>, agreed)
    BY <1>1 DEF LogFits, Fits
  <1>6. CountsFit(NoMeta, committed) /\ NoMeta.normals <= Len(<< >>)
    BY <1>1 DEF CountsFit, NoMeta
  <1>7. SnapshotFits(NoSnapshot, committed, agreed)
    BY <1>1, <1>5 DEF SnapshotFits, NoSnapshot
  <1>8. \A n \in Nodes : NodeFits(n)
    BY <1>4, <1>5, <1>6, <1>7 DEF NodeFits, MetaFits
  <1>9. answered = {}
    BY DEF Init
  <1> QED
    BY <1>2, <1>3, <1>8, <1>9 DEF MachineInv

LEMMA StampIs ==
    ASSUME NEW p \in Nat, NEW k \in Nat
    PROVE  Stamp(p, k) \in Nat /\ p < Stamp(p, k) /\ (Stamp(p, k) = k \/ Stamp(p, k) = p + 1)
  BY DEF Stamp

\* The next episode goes after all others.
LEMMA DecidesNext ==
    ASSUME HistoryFits(committed, agreed), NEW clock \in 0 .. MaxClock, Len(committed) < MaxEntries
    PROVE  /\ [id |-> Len(committed) + 1, ts |-> Stamp(LastTs(agreed), clock)] \in Episode
           /\ \A i \in 1 .. Len(agreed) : agreed[i].ts < Stamp(LastTs(agreed), clock)
           /\ Stamp(LastTs(agreed), clock) <= MaxClock + Len(agreed) + 1
           /\ LastTs(agreed) \in Nat
  <1>0. /\ MaxClock \in Nat /\ MaxEntries \in Nat /\ Len(committed) \in Nat /\ Len(agreed) \in Nat
        /\ Len(agreed) <= Len(committed) /\ LastTs(agreed) <= MaxClock + Len(agreed)
        /\ clock \in Nat /\ clock <= MaxClock
    BY ConstantsAssumption DEF HistoryFits
  <1>1. \A i \in 1 .. Len(agreed) : agreed[i].ts \in Nat /\ agreed[i].ts <= LastTs(agreed)
    <2>1. \A i \in 1 .. Len(agreed) : agreed[i] \in Episode /\ agreed[i].ts <= LastTs(agreed)
      BY DEF HistoryFits
    <2> QED
      BY <1>0, <2>1 DEF Episode, Stamps
  <1>2. LastTs(agreed) \in Nat
    <2>1. CASE agreed = << >>
      BY <2>1 DEF LastTs
    <2>2. CASE agreed # << >>
      <3>1. Len(agreed) \in 1 .. Len(agreed)
        BY <1>0, <2>2 DEF HistoryFits
      <3> QED
        BY <2>2, <3>1, <1>1 DEF LastTs
    <2> QED
      BY <2>1, <2>2
  <1>3. /\ Stamp(LastTs(agreed), clock) \in Nat /\ LastTs(agreed) < Stamp(LastTs(agreed), clock)
        /\ Stamp(LastTs(agreed), clock) <= MaxClock + Len(agreed) + 1
    <2>1. /\ Stamp(LastTs(agreed), clock) \in Nat /\ LastTs(agreed) < Stamp(LastTs(agreed), clock)
          /\ Stamp(LastTs(agreed), clock) \in {clock, LastTs(agreed) + 1}
      BY <1>0, <1>2, StampIs
    <2> QED
      BY <1>0, <1>2, <2>1
  <1>4. Stamp(LastTs(agreed), clock) \in Stamps
    BY <1>0, <1>3 DEF Stamps
  <1>5. Len(committed) + 1 \in 1 .. MaxEntries
    BY <1>0
  <1>6. \A i \in 1 .. Len(agreed) : agreed[i].ts < Stamp(LastTs(agreed), clock)
    BY <1>1, <1>2, <1>3
  <1> QED
    BY <1>2, <1>3, <1>4, <1>5, <1>6 DEF Episode

LEMMA CommitHistory ==
    ASSUME HistoryFits(committed, agreed), NEW kind \in Kinds, NEW clock \in 0 .. MaxClock,
           Commit(kind, clock)
    PROVE  /\ HistoryFits(committed, agreed)' /\ Continues(committed, agreed, committed', agreed')
           /\ \/ agreed' = agreed
              \/ \E e \in Episode : /\ \A i \in DOMAIN agreed : agreed[i].ts < e.ts
                                    /\ agreed' = Append(agreed, e)
  <1> DEFINE new == Len(committed) + 1
             e == [id |-> new, ts |-> Stamp(LastTs(agreed), clock)]
             x == [kind |-> kind, clock |-> clock, normals |-> Len(agreed'),
                   member |-> IF kind = "membership" THEN new ELSE MemberUpTo(Len(committed))]
  <1>0. /\ committed \in Seq(Entry) /\ Len(committed) \in Nat /\ Len(committed) < MaxEntries
        /\ agreed \in Seq(Episode) /\ Len(agreed) \in Nat /\ Len(agreed) <= Len(committed)
        /\ MaxEntries \in Nat /\ MaxClock \in Nat
        /\ committed' = Append(committed, x)
        /\ agreed' = IF kind = "normal" THEN Append(agreed, e) ELSE agreed
    BY ConstantsAssumption DEF HistoryFits, Commit
  <1>1. /\ e \in Episode /\ \A i \in 1 .. Len(agreed) : agreed[i].ts < e.ts
        /\ e.ts <= MaxClock + Len(agreed) + 1 /\ LastTs(agreed) \in Nat /\ e.ts \in Nat
    <2>1. e.ts = Stamp(LastTs(agreed), clock)
      OBVIOUS
    <2>2. /\ e \in Episode /\ LastTs(agreed) \in Nat
          /\ \A i \in 1 .. Len(agreed) : agreed[i].ts < Stamp(LastTs(agreed), clock)
          /\ Stamp(LastTs(agreed), clock) <= MaxClock + Len(agreed) + 1
      BY <1>0, DecidesNext
    <2>3. e.ts \in Nat
      BY <1>0, <2>2 DEF Episode, Stamps
    <2> HIDE DEF e
    <2> QED
      BY <2>1, <2>2, <2>3
  <1>2. /\ agreed' \in Seq(Episode)
        /\ Len(agreed') = Len(agreed) + (IF kind = "normal" THEN 1 ELSE 0)
        /\ \A i \in 1 .. Len(agreed) : agreed'[i] = agreed[i]
        /\ kind = "normal" => agreed'[Len(agreed')] = e /\ agreed' # << >>
    <2> HIDE DEF e, x
    <2>1. CASE kind = "normal"
      BY <1>0, <1>1, <2>1
    <2>2. CASE kind # "normal"
      BY <1>0, <1>1, <2>2
    <2> QED
      BY <2>1, <2>2
  <1>3. MemberUpTo(Len(committed)) = MemberIn(committed, Len(committed))
        /\ Len(agreed) = NormalsIn(committed, Len(committed))
    BY DEF MemberUpTo, MemberIn, HistoryFits
  <1>4. x \in Entry
    <2>1. MemberIn(committed, Len(committed)) \in Indices
      BY <1>0, CountsAreNat
    <2>2. new \in Indices /\ Len(agreed') \in Indices
      BY <1>0, <1>2 DEF Indices
    <2>3. x.member \in Indices
      BY <1>3, <2>1, <2>2
    <2> QED
      BY <2>2, <2>3 DEF Entry
  <1>5. x.kind = kind /\ x.clock = clock /\ x.normals = Len(agreed')
        /\ x.member = IF kind = "membership" THEN new ELSE MemberIn(committed, Len(committed))
    BY <1>3
  <1> HIDE DEF e, x
  <1>6. /\ committed' \in Seq(Entry) /\ Len(committed') = new
        /\ \A i \in 1 .. Len(committed) : committed'[i] = committed[i]
        /\ committed'[new] = x
    BY <1>0, <1>4
  <1>7. Continues(committed, agreed, committed', agreed')
    BY <1>0, <1>2, <1>6 DEF Continues
  <1>8. NormalsIn(committed', new) = Len(agreed')
    BY <1>0, <1>5, <1>6 DEF NormalsIn
  <1>9. (\A i \in 1 .. Len(agreed') : agreed'[i].ts <= LastTs(agreed'))
        /\ LastTs(agreed') <= MaxClock + Len(agreed')
    <2>1. CASE kind = "normal"
      <3>1. LastTs(agreed') = e.ts
        BY <1>2, <2>1 DEF LastTs
      <3>2. \A i \in 1 .. Len(agreed') : i \in 1 .. Len(agreed) \/ agreed'[i] = e
        BY <1>0, <1>2, <2>1
      <3>3. \A i \in 1 .. Len(agreed) : agreed[i].ts \in Nat
        <4>1. \A i \in 1 .. Len(agreed) : agreed[i] \in Episode
          BY <1>0
        <4> QED
          BY <1>0, <4>1 DEF Episode, Stamps
      <3>4. \A i \in 1 .. Len(agreed') : agreed'[i].ts <= e.ts
        BY <1>1, <1>2, <3>2, <3>3
      <3> QED
        BY <1>0, <1>1, <1>2, <2>1, <3>1, <3>4
    <2>2. CASE kind # "normal"
      BY <1>0, <2>2 DEF HistoryFits
    <2> QED
      BY <2>1, <2>2
  <1>10. ASSUME NEW i \in 1 .. Len(committed') PROVE EntryFits(i, committed', agreed')
    <2>1. CASE i \in 1 .. Len(committed)
      <3>1. EntryFits(i, committed, agreed) /\ committed'[i] = committed[i] /\ i - 1 \in 0 .. Len(committed)
        BY <1>0, <1>6, <2>1 DEF HistoryFits
      <3>2. /\ NormalsIn(committed', i - 1) = NormalsIn(committed, i - 1)
            /\ MemberIn(committed', i - 1) = MemberIn(committed, i - 1)
            /\ NormalsIn(committed, i - 1) \in Nat
        BY <1>7, <3>1, CountsContinue, CountsAreNat
      <3>3. committed[i].normals <= Len(agreed')
        BY <1>0, <1>2, <3>1, <3>2 DEF EntryFits
      <3>4. committed[i].kind = "normal" =>
               /\ committed[i].normals \in 1 .. Len(agreed)
               /\ committed[i].normals # 1 => committed[i].normals - 1 \in 1 .. Len(agreed)
        BY <1>0, <3>1, <3>2 DEF EntryFits
      <3> QED
        BY <1>2, <3>1, <3>2, <3>3, <3>4 DEF EntryFits
    <2>2. CASE i = new
      <3>1. /\ NormalsIn(committed', i - 1) = Len(agreed)
            /\ MemberIn(committed', i - 1) = MemberIn(committed, Len(committed))
        BY <1>0, <1>3, <1>7, <2>2, CountsContinue
      <3>2. committed'[i] = x
        BY <1>6, <2>2
      <3>3. kind = "normal" =>
               LastTs(agreed) = IF Len(agreed') = 1 THEN 0 ELSE agreed'[Len(agreed') - 1].ts
        <4>1. CASE agreed = << >>
          BY <1>0, <1>2, <4>1 DEF LastTs
        <4>2. CASE agreed # << >>
          BY <1>0, <1>2, <4>2 DEF LastTs
        <4> QED
          BY <4>1, <4>2
      <3>4. e = [id |-> new, ts |-> Stamp(LastTs(agreed), clock)]
        BY DEF e
      <3> QED
        BY <1>0, <1>2, <1>5, <2>2, <3>1, <3>2, <3>3, <3>4 DEF EntryFits
    <2> QED
      BY <1>0, <1>6, <2>1, <2>2
  <1>11. HistoryFits(committed', agreed')
    BY <1>0, <1>2, <1>6, <1>8, <1>9, <1>10 DEF HistoryFits
  <1>12. agreed' = agreed \/ \E f \in Episode : /\ \A i \in DOMAIN agreed : agreed[i].ts < f.ts
                                                /\ agreed' = Append(agreed, f)
    <2>1. DOMAIN agreed = 1 .. Len(agreed)
      BY <1>0
    <2> QED
      BY <1>0, <1>1, <2>1
  <1>13. HistoryFits(committed, agreed)'
    BY <1>11
  <1> QED
    BY <1>7, <1>12, <1>13

LEMMA CommitInv ==
    ASSUME MachineInv, NEW kind \in Kinds, NEW clock \in 0 .. MaxClock, Commit(kind, clock)
    PROVE  MachineInv'
  <1>0. /\ HistoryFits(committed, agreed)' /\ Continues(committed, agreed, committed', agreed')
        /\ UNCHANGED <<log, meta, state, current, task, mode, answered>>
    BY CommitHistory DEF MachineInv, Commit, disk
  <1>1. ASSUME NEW n \in Nodes PROVE NodeFits(n)'
    <2>0. NodeFits(n)
      BY DEF MachineInv
    <2>1. LogFits(log[n], agreed')
      BY <1>0, <2>0, FitsContinue DEF NodeFits
    <2>2. MetaFits(meta[n], log[n], committed')
      BY <1>0, <2>0, FitsContinue DEF NodeFits, MetaFits
    <2>3. SnapshotFits(current[n], committed', agreed')
      BY <1>0, <2>0, SnapshotsContinue DEF NodeFits
    <2>4. CASE mode[n] = "up"
      <3>1. StateFits(state[n], task[n], log[n], committed')
        BY <1>0, <2>0, <2>4, FitsContinue DEF NodeFits, StateFits
      <3>2. task[n].kind = "apply" =>
               task[n].upto \in 0 .. Len(committed') /\ \A x \in task[n].out : Named(x, agreed')
        BY <1>0, <2>0, <2>4, FitsContinue DEF NodeFits, TaskFits, Continues
      <3>3. task[n].kind = "install" =>
               SnapshotFits(task[n].snapshot, committed', agreed')
               /\ Len(log[n]) <= Len(task[n].snapshot.episodes)
        BY <1>0, <2>0, <2>4, SnapshotsContinue DEF NodeFits, TaskFits
      <3>4. TaskFits(task[n], log[n], committed', agreed')
        BY <3>2, <3>3 DEF TaskFits
      <3> QED
        BY <1>0, <2>0, <2>1, <2>2, <2>3, <2>4, <3>1, <3>4 DEF NodeFits
    <2>5. CASE mode[n] # "up"
      BY <1>0, <2>0, <2>1, <2>2, <2>3, <2>5 DEF NodeFits
    <2> QED
      BY <2>4, <2>5
  <1>2. \A x \in answered' : Named(x, agreed')
    BY <1>0, FitsContinue DEF MachineInv
  <1>3. AreFunctions'
    BY <1>0 DEF MachineInv, AreFunctions
  <1> QED
    BY <1>0, <1>1, <1>2, <1>3 DEF MachineInv

-----------------------------------------------------------------------------
(* What a node does *)

\* Nothing changes at the others, nor what raft committed.
OnlyAt(n) ==
    /\ UNCHANGED <<committed, agreed>> /\ AreFunctions'
    /\ \A m \in Nodes \ {n} :
          /\ log'[m] = log[m] /\ meta'[m] = meta[m] /\ state'[m] = state[m]
          /\ current'[m] = current[m] /\ task'[m] = task[m] /\ mode'[m] = mode[m]

\* The log of a node takes the next episode of the agreed sequence, or nothing.
Copies(n) ==
    \/ log' = log
    \/ /\ Len(log[n]) < Len(agreed)
       /\ log' = [log EXCEPT ![n] = Append(log[n], agreed[Len(log[n]) + 1])]

LEMMA OneNode ==
    ASSUME MachineInv, NEW n \in Nodes, OnlyAt(n), NodeFits(n)',
           \A x \in answered' : Named(x, agreed)
    PROVE  MachineInv'
  <1>1. ASSUME NEW m \in Nodes \ {n} PROVE NodeFits(m)'
    BY DEF MachineInv, OnlyAt, NodeFits
  <1>2. \A m \in Nodes : NodeFits(m)'
    BY <1>1
  <1> QED
    BY <1>2 DEF MachineInv, OnlyAt

\* The episode a node stamps is the one that was agreed on.
LEMMA StampedIsAgreed ==
    ASSUME MachineInv, NEW n \in Nodes, Reached(n), IsNormal(n)
    PROVE  /\ At(n) \in 1 .. Len(committed)
           /\ NormalsIn(committed, At(n)) = state[n].normals + 1
           /\ MemberIn(committed, At(n)) = state[n].member
           /\ state[n].normals \in Nat /\ state[n].normals + 1 <= Len(agreed)
           /\ agreed[state[n].normals + 1].id = At(n)
           /\ state[n].skip = 0 => /\ Len(log[n]) = state[n].normals
                                   /\ Stamped(n) = agreed[Len(log[n]) + 1]
  <1>0. /\ StateFits(state[n], task[n], log[n], committed) /\ TaskFits(task[n], log[n], committed, agreed)
        /\ LogFits(log[n], agreed) /\ HistoryFits(committed, agreed)
        /\ task[n].kind = "apply" /\ At(n) <= task[n].upto
    BY DEF MachineInv, NodeFits, Reached, Applying
  <1>1. /\ At(n) = state[n].applied + 1 /\ At(n) \in 1 .. Len(committed)
        /\ state[n].applied \in 0 .. Len(committed) /\ Len(committed) \in Nat
    BY <1>0 DEF At, StateFits, CountsFit, TaskFits, HistoryFits
  <1>2. EntryFits(At(n), committed, agreed) /\ committed[At(n)].kind = "normal"
    BY <1>0, <1>1 DEF HistoryFits, IsNormal
  <1>3. /\ state[n].normals = NormalsIn(committed, state[n].applied) /\ state[n].normals \in Nat
        /\ state[n].member = MemberIn(committed, state[n].applied)
    BY <1>0, <1>1, CountsAreNat DEF StateFits, CountsFit
  <1>4. /\ committed[At(n)].normals = state[n].normals + 1 /\ state[n].normals + 1 <= Len(agreed)
        /\ committed[At(n)].member = state[n].member
    BY <1>1, <1>2, <1>3 DEF EntryFits
  <1>5. /\ NormalsIn(committed, At(n)) = state[n].normals + 1
        /\ MemberIn(committed, At(n)) = state[n].member
    BY <1>1, <1>4 DEF NormalsIn, MemberIn
  <1>6. agreed[state[n].normals + 1] =
           [id |-> At(n),
            ts |-> Stamp(IF state[n].normals + 1 = 1 THEN 0 ELSE agreed[state[n].normals].ts,
                         committed[At(n)].clock)]
    BY <1>2, <1>3, <1>4 DEF EntryFits
  <1>7. ASSUME state[n].skip = 0
        PROVE  Len(log[n]) = state[n].normals /\ Stamped(n) = agreed[Len(log[n]) + 1]
    <2>1. Len(log[n]) \in Nat /\ log[n] \in Seq(Episode)
      BY <1>0 DEF LogFits
    <2>2. Len(log[n]) = state[n].normals /\ state[n].lastTs \in {Unread, LastTs(log[n])}
      BY <1>0, <1>3, <1>7, <2>1 DEF StateFits
    <2>3. LastTs(log[n]) = IF state[n].normals + 1 = 1 THEN 0 ELSE agreed[state[n].normals].ts
      <3>1. CASE log[n] = << >>
        BY <2>2, <3>1 DEF LastTs
      <3>2. CASE log[n] # << >>
        <4>1. Len(log[n]) \in 1 .. Len(log[n]) /\ Len(log[n]) # 0
          BY <2>1, <3>2
        <4>2. log[n][Len(log[n])] = agreed[Len(log[n])]
          BY <1>0, <4>1 DEF LogFits, Fits
        <4> QED
          BY <2>1, <2>2, <3>2, <4>1, <4>2 DEF LastTs
      <3> QED
        BY <3>1, <3>2
    <2> QED
      BY <1>6, <2>2, <2>3 DEF Stamped
  <1> QED
    BY <1>1, <1>3, <1>4, <1>5, <1>6, <1>7

LEMMA OpenKeeps ==
    ASSUME MachineInv, NEW n \in Nodes, Open(n)
    PROVE  MachineInv' /\ Copies(n)
  <1>0. NodeFits(n) /\ UNCHANGED <<committed, agreed, log, meta, current, task, answered>>
    BY DEF MachineInv, Open, raft, disk
  <1>1. OnlyAt(n)
    BY DEF MachineInv, AreFunctions, OnlyAt, Open, raft, disk
  <1>2. task[n].kind = "idle"
    BY <1>0 DEF Open, NodeFits, Idle
  <1>3. mode'[n] = "refused"
        \/ /\ mode'[n] = "up"
           /\ state'[n] = SmState(meta[n].applied, meta[n].member, meta[n].normals,
                                  Len(log[n]) - meta[n].normals, Unread)
    BY DEF MachineInv, AreFunctions, Open
  <1>4. mode'[n] = "up" => StateFits(state'[n], task[n], log[n], committed)
    BY <1>0, <1>3 DEF NodeFits, MetaFits, StateFits, CountsFit, SmState
  <1>5. TaskFits(task[n], log[n], committed, agreed)
    BY <1>2 DEF TaskFits
  <1>6. NodeFits(n)'
    BY <1>0, <1>3, <1>4, <1>5 DEF NodeFits
  <1> QED
    BY <1>0, <1>1, <1>6, OneNode DEF MachineInv, Copies

LEMMA ApplyBeginKeeps ==
    ASSUME MachineInv, NEW n \in Nodes, NEW upto \in Indices, ApplyBegin(n, upto)
    PROVE  MachineInv' /\ Copies(n)
  <1>0. /\ NodeFits(n) /\ mode[n] = "up" /\ task[n].kind = "idle"
        /\ UNCHANGED <<committed, agreed, log, meta, state, current, mode, answered>>
    BY DEF MachineInv, ApplyBegin, Ready, disk
  <1>1. OnlyAt(n)
    BY DEF MachineInv, AreFunctions, OnlyAt, ApplyBegin, disk
  <1>2. task'[n] = Batch(upto, {}) /\ upto \in 0 .. Len(committed)
    <2>1. state[n].applied \in 0 .. Len(committed) /\ Len(committed) \in Nat
      BY <1>0 DEF MachineInv, HistoryFits, NodeFits, StateFits, CountsFit
    <2> QED
      BY <2>1 DEF MachineInv, AreFunctions, ApplyBegin
  <1>3. TaskFits(task'[n], log[n], committed, agreed) /\ StateFits(state[n], task'[n], log[n], committed)
    BY <1>0, <1>2 DEF TaskFits, StateFits, NodeFits, Batch
  <1>4. NodeFits(n)'
    BY <1>0, <1>3 DEF NodeFits
  <1> QED
    BY <1>0, <1>1, <1>4, OneNode DEF MachineInv, Copies

LEMMA ApplyOtherKeeps ==
    ASSUME MachineInv, NEW n \in Nodes, ApplyOther(n)
    PROVE  MachineInv' /\ Copies(n)
  <1>0. /\ NodeFits(n) /\ mode[n] = "up" /\ task[n].kind = "apply" /\ At(n) <= task[n].upto
        /\ HistoryFits(committed, agreed) /\ Len(committed) \in Nat
        /\ UNCHANGED <<committed, agreed, log, meta, current, task, mode, answered>>
    BY DEF MachineInv, ApplyOther, Reached, Applying, raft, disk, HistoryFits
  <1>1. OnlyAt(n)
    BY DEF MachineInv, AreFunctions, OnlyAt, ApplyOther, raft, disk
  <1>2. /\ StateFits(state[n], task[n], log[n], committed)
        /\ TaskFits(task[n], log[n], committed, agreed)
    BY <1>0 DEF NodeFits
  <1>3. /\ At(n) = state[n].applied + 1 /\ state[n].applied \in 0 .. Len(committed)
        /\ At(n) \in 1 .. Len(committed)
    BY <1>0, <1>2 DEF At, StateFits, CountsFit, TaskFits
  <1>4. EntryFits(At(n), committed, agreed) /\ committed[At(n)].kind # "normal"
        /\ NormalsIn(committed, state[n].applied) \in Nat
    BY <1>0, <1>3, CountsAreNat DEF HistoryFits, ApplyOther, IsNormal
  <1>5. /\ NormalsIn(committed, At(n)) = state[n].normals
        /\ MemberIn(committed, At(n)) =
              IF committed[At(n)].kind = "membership" THEN At(n) ELSE state[n].member
    BY <1>2, <1>3, <1>4 DEF EntryFits, NormalsIn, MemberIn, StateFits, CountsFit
  <1>6. state'[n] = SmState(At(n), IF committed[At(n)].kind = "membership" THEN At(n) ELSE state[n].member,
                            state[n].normals, state[n].skip, state[n].lastTs)
    BY DEF MachineInv, AreFunctions, ApplyOther
  <1>7. StateFits(state'[n], task[n], log[n], committed)
    BY <1>2, <1>3, <1>5, <1>6 DEF StateFits, CountsFit, SmState
  <1>8. NodeFits(n)'
    BY <1>0, <1>7 DEF NodeFits
  <1> QED
    BY <1>0, <1>1, <1>8, OneNode DEF MachineInv, Copies

LEMMA AnswerFits ==
    ASSUME MachineInv, NEW n \in Nodes, Reached(n), IsNormal(n), Answer(n, state[n].normals),
           NEW l, LogFits(l, agreed)
    PROVE  TaskFits(task'[n], l, committed, agreed) /\ task'[n].kind = "apply"
  <1>1. task'[n] = Batch(task[n].upto, task[n].out \cup {<<At(n), state[n].normals>>})
    BY DEF MachineInv, AreFunctions, Answer
  <1>2. TaskFits(task[n], log[n], committed, agreed) /\ task[n].kind = "apply"
    BY DEF MachineInv, NodeFits, Reached, Applying
  <1>3. Named(<<At(n), state[n].normals>>, agreed)
    BY StampedIsAgreed DEF Named
  <1> QED
    BY <1>1, <1>2, <1>3 DEF TaskFits, Batch

LEMMA ApplySkipKeeps ==
    ASSUME MachineInv, NEW n \in Nodes, ApplySkip(n)
    PROVE  MachineInv' /\ Copies(n)
  <1>0. /\ NodeFits(n) /\ mode[n] = "up" /\ task[n].kind = "apply"
        /\ Reached(n) /\ IsNormal(n) /\ Answer(n, state[n].normals) /\ state[n].skip > 0
        /\ Len(log[n]) \in Nat /\ LogFits(log[n], agreed)
        /\ UNCHANGED <<committed, agreed, log, meta, current, mode, answered>>
    BY DEF MachineInv, ApplySkip, Reached, Applying, raft, disk, NodeFits, LogFits
  <1>1. OnlyAt(n)
    BY DEF MachineInv, AreFunctions, OnlyAt, ApplySkip, Counts, Answer, raft, disk
  <1>2. /\ StateFits(state[n], task[n], log[n], committed)
        /\ TaskFits(task'[n], log[n], committed, agreed) /\ task'[n].kind = "apply"
    BY <1>0, AnswerFits DEF NodeFits
  <1>3. state'[n] = SmState(At(n), state[n].member, state[n].normals + 1, state[n].skip - 1, Unread)
    BY DEF MachineInv, AreFunctions, ApplySkip, Counts
  <1>4. /\ At(n) \in 1 .. Len(committed)
        /\ NormalsIn(committed, At(n)) = state[n].normals + 1
        /\ MemberIn(committed, At(n)) = state[n].member
        /\ state[n].normals \in Nat
    BY <1>0, StampedIsAgreed
  <1>5. state[n].skip = Len(log[n]) - state[n].normals
    BY <1>0, <1>2 DEF StateFits
  <1>6. StateFits(state'[n], task'[n], log[n], committed)
    BY <1>0, <1>3, <1>4, <1>5 DEF StateFits, CountsFit, SmState
  <1>7. NodeFits(n)'
    BY <1>0, <1>2, <1>6 DEF NodeFits
  <1> QED
    BY <1>0, <1>1, <1>7, OneNode DEF MachineInv, Copies

\* What a log has after its next episode.
LEMMA NextEpisode ==
    ASSUME MachineInv, NEW n \in Nodes, Len(log[n]) < Len(agreed),
           log' = [log EXCEPT ![n] = Append(log[n], agreed[Len(log[n]) + 1])]
    PROVE  /\ LogFits(log'[n], agreed) /\ Len(log'[n]) = Len(log[n]) + 1
           /\ LastTs(log'[n]) = agreed[Len(log[n]) + 1].ts
           /\ Len(log[n]) \in Nat /\ Copies(n)
           /\ log' = [m \in Nodes |-> log'[m]] /\ \A m \in Nodes \ {n} : log'[m] = log[m]
  <1>1. LogFits(log[n], agreed) /\ agreed \in Seq(Episode) /\ Len(log[n]) \in Nat
    BY DEF MachineInv, NodeFits, LogFits, HistoryFits
  <1>2. log'[n] = Append(log[n], agreed[Len(log[n]) + 1])
    BY DEF MachineInv, AreFunctions
  <1> QED
    BY <1>1, <1>2, AppendFits DEF MachineInv, AreFunctions, Copies

LEMMA MetaKeepsFitting ==
    ASSUME MachineInv, NEW n \in Nodes, NEW l, Len(l) = Len(log[n]) + 1
    PROVE  MetaFits(meta[n], l, committed)
  <1>1. /\ meta[n].normals \in Nat /\ MetaFits(meta[n], log[n], committed) /\ Len(log[n]) \in Nat
    BY CountsAreNat DEF MachineInv, NodeFits, MetaFits, CountsFit, LogFits
  <1> QED
    BY <1>1 DEF MetaFits

LEMMA ApplyEpisodeKeeps ==
    ASSUME MachineInv, NEW n \in Nodes, ApplyEpisode(n)
    PROVE  MachineInv' /\ Copies(n)
  <1>0. /\ NodeFits(n) /\ mode[n] = "up" /\ task[n].kind = "apply"
        /\ Reached(n) /\ IsNormal(n) /\ state[n].skip = 0
        /\ UNCHANGED <<committed, agreed, meta, current, mode, answered>>
    BY DEF MachineInv, ApplyEpisode, Reached, Applying, raft
  <1>1. /\ At(n) \in 1 .. Len(committed)
        /\ NormalsIn(committed, At(n)) = state[n].normals + 1
        /\ MemberIn(committed, At(n)) = state[n].member
        /\ state[n].normals \in Nat /\ state[n].normals + 1 <= Len(agreed)
        /\ Len(log[n]) = state[n].normals
        /\ Stamped(n) = agreed[Len(log[n]) + 1]
    BY <1>0, StampedIsAgreed
  <1>2. /\ Len(log[n]) < Len(agreed)
        /\ log' = [log EXCEPT ![n] = Append(log[n], agreed[Len(log[n]) + 1])]
    <2>1. Len(agreed) \in Nat
      BY DEF MachineInv, HistoryFits
    <2> QED
      BY <1>1, <2>1 DEF ApplyEpisode
  <1>3. /\ LogFits(log'[n], agreed) /\ Len(log'[n]) = Len(log[n]) + 1
        /\ LastTs(log'[n]) = agreed[Len(log[n]) + 1].ts
        /\ Len(log[n]) \in Nat /\ Copies(n)
        /\ log' = [m \in Nodes |-> log'[m]] /\ \A m \in Nodes \ {n} : log'[m] = log[m]
    BY <1>2, NextEpisode
  <1>4. OnlyAt(n)
    BY <1>0, <1>3 DEF MachineInv, AreFunctions, OnlyAt, ApplyEpisode, Counts, Answer
  <1>5. TaskFits(task'[n], log'[n], committed, agreed) /\ task'[n].kind = "apply"
    BY <1>0, <1>1, <1>3, AnswerFits DEF ApplyEpisode
  <1>6. state'[n] = SmState(At(n), state[n].member, state[n].normals + 1, 0, Stamped(n).ts)
    BY DEF MachineInv, AreFunctions, ApplyEpisode, Counts
  <1>7. StateFits(state'[n], task'[n], log'[n], committed)
    BY <1>1, <1>3, <1>6 DEF StateFits, CountsFit, SmState
  <1>8. MetaFits(meta[n], log'[n], committed)
    BY <1>3, MetaKeepsFitting
  <1>9. NodeFits(n)'
    BY <1>0, <1>3, <1>5, <1>7, <1>8 DEF NodeFits
  <1> QED
    BY <1>0, <1>3, <1>4, <1>9, OneNode DEF MachineInv

LEMMA ApplyFailsKeeps ==
    ASSUME MachineInv, NEW n \in Nodes, ApplyFails(n)
    PROVE  MachineInv' /\ Copies(n)
  <1>0. /\ NodeFits(n) /\ Reached(n) /\ IsNormal(n) /\ state[n].skip = 0
        /\ UNCHANGED <<committed, agreed, meta, current, task, answered>>
        /\ mode'[n] = "failed"
    BY DEF MachineInv, AreFunctions, ApplyFails, Stops, raft
  <1>1. CASE log' = log
    <2>1. OnlyAt(n)
      BY <1>0, <1>1 DEF MachineInv, AreFunctions, OnlyAt, ApplyFails, Stops
    <2>2. NodeFits(n)'
      BY <1>0, <1>1 DEF NodeFits
    <2> QED
      BY <1>0, <1>1, <2>1, <2>2, OneNode DEF MachineInv, Copies
  <1>2. CASE log' = [log EXCEPT ![n] = Append(@, Stamped(n))]
    <2>1. /\ Len(log[n]) < Len(agreed)
          /\ log' = [log EXCEPT ![n] = Append(log[n], agreed[Len(log[n]) + 1])]
      <3>1. Len(agreed) \in Nat
        BY DEF MachineInv, HistoryFits
      <3>2. /\ state[n].normals \in Nat /\ state[n].normals + 1 <= Len(agreed)
            /\ Len(log[n]) = state[n].normals /\ Stamped(n) = agreed[Len(log[n]) + 1]
        BY <1>0, StampedIsAgreed
      <3> QED
        BY <1>2, <3>1, <3>2
    <2>2. /\ LogFits(log'[n], agreed) /\ Len(log'[n]) = Len(log[n]) + 1
          /\ Len(log[n]) \in Nat /\ Copies(n)
          /\ log' = [m \in Nodes |-> log'[m]] /\ \A m \in Nodes \ {n} : log'[m] = log[m]
      BY <2>1, NextEpisode
    <2>3. OnlyAt(n)
      BY <1>0, <2>2 DEF MachineInv, AreFunctions, OnlyAt, ApplyFails, Stops
    <2>4. MetaFits(meta[n], log'[n], committed)
      BY <2>2, MetaKeepsFitting
    <2>5. NodeFits(n)'
      BY <1>0, <2>2, <2>4 DEF NodeFits
    <2> QED
      BY <1>0, <2>2, <2>3, <2>5, OneNode DEF MachineInv
  <1> QED
    BY <1>1, <1>2 DEF ApplyFails

LEMMA ApplyEndKeeps ==
    ASSUME MachineInv, NEW n \in Nodes, ApplyEnd(n)
    PROVE  MachineInv' /\ Copies(n)
  <1>0. /\ NodeFits(n) /\ mode[n] = "up" /\ task[n].kind = "apply"
        /\ UNCHANGED <<committed, agreed, log, state, current>>
    BY DEF MachineInv, ApplyEnd, Applying, raft
  <1>1. /\ StateFits(state[n], task[n], log[n], committed)
        /\ TaskFits(task[n], log[n], committed, agreed)
    BY <1>0 DEF NodeFits
  <1>2. meta'[n] = meta[n] \/ meta'[n] = Recorded(n)
    BY DEF MachineInv, AreFunctions, ApplyEnd
  <1>3. MetaFits(meta'[n], log[n], committed)
    BY <1>0, <1>1, <1>2 DEF NodeFits, MetaFits, StateFits, CountsFit, Recorded, Sidecar
  <1>4. OnlyAt(n)
    BY DEF MachineInv, AreFunctions, OnlyAt, ApplyEnd, Stops, raft
  <1>5. answered' \subseteq answered \cup task[n].out
    BY DEF ApplyEnd
  <1>6. \A x \in answered' : Named(x, agreed)
    BY <1>0, <1>1, <1>5 DEF MachineInv, TaskFits
  <1>7. mode'[n] = "failed" \/ (mode'[n] = "up" /\ task'[n] = Idle)
    BY <1>0 DEF MachineInv, AreFunctions, ApplyEnd, Stops
  <1>8. task'[n] = Idle => /\ StateFits(state[n], task'[n], log[n], committed)
                           /\ TaskFits(task'[n], log[n], committed, agreed)
    BY <1>0, <1>1 DEF StateFits, TaskFits, Idle
  <1>9. NodeFits(n)'
    BY <1>0, <1>3, <1>7, <1>8 DEF NodeFits
  <1> QED
    BY <1>0, <1>4, <1>6, <1>9, OneNode DEF Copies

LEMMA BuildKeeps ==
    ASSUME MachineInv, Undisturbed, NEW n \in Nodes, Build(n)
    PROVE  MachineInv' /\ Copies(n)
  <1>0. /\ NodeFits(n) /\ mode[n] = "up" /\ task[n].kind = "idle" /\ state[n].skip = 0
        /\ UNCHANGED <<committed, agreed, log, meta, state, task, mode, answered>>
    BY DEF MachineInv, Build, Undisturbed, raft, disk
  <1>1. OnlyAt(n)
    BY DEF MachineInv, AreFunctions, OnlyAt, Build, raft, disk
  <1>2. /\ StateFits(state[n], task[n], log[n], committed) /\ LogFits(log[n], agreed)
        /\ state[n].skip = Len(log[n]) - state[n].normals
    BY <1>0 DEF NodeFits, StateFits
  <1>3. Len(log[n]) = state[n].normals
    <2>1. Len(log[n]) \in Nat /\ state[n].normals \in Nat
      BY <1>2, CountsAreNat DEF LogFits, StateFits, CountsFit, MachineInv
    <2> QED
      BY <1>0, <1>2, <2>1
  <1>4. current'[n] = [last |-> state[n].applied, member |-> state[n].member, episodes |-> log[n]]
    BY DEF MachineInv, AreFunctions, Build
  <1>5. SnapshotFits(current'[n], committed, agreed)
    BY <1>2, <1>3, <1>4 DEF SnapshotFits, StateFits, CountsFit
  <1>6. NodeFits(n)'
    BY <1>0, <1>5 DEF NodeFits
  <1> QED
    BY <1>0, <1>1, <1>6, OneNode DEF MachineInv, Copies

LEMMA InstallBeginKeeps ==
    ASSUME MachineInv, Undisturbed, NEW n \in Nodes, NEW m \in Nodes, InstallBegin(n, m)
    PROVE  MachineInv' /\ Copies(n)
  <1>0. /\ NodeFits(n) /\ NodeFits(m) /\ mode[n] = "up" /\ task[n].kind = "idle"
        /\ Len(current[m].episodes) >= Len(log[n])
        /\ UNCHANGED <<committed, agreed, log, meta, state, current, mode, answered>>
    BY DEF MachineInv, InstallBegin, Ready, Undisturbed, raft, disk
  <1>1. OnlyAt(n)
    BY DEF MachineInv, AreFunctions, OnlyAt, InstallBegin, raft, disk
  <1>2. task'[n] = [kind |-> "install", snapshot |-> current[m]]
    BY DEF MachineInv, AreFunctions, InstallBegin
  <1>3. Len(log[n]) <= Len(current[m].episodes)
    BY <1>0 DEF NodeFits, SnapshotFits, LogFits
  <1>4. TaskFits(task'[n], log[n], committed, agreed) /\ StateFits(state[n], task'[n], log[n], committed)
    BY <1>0, <1>2, <1>3 DEF TaskFits, StateFits, NodeFits
  <1>5. NodeFits(n)'
    BY <1>0, <1>4 DEF NodeFits
  <1> QED
    BY <1>0, <1>1, <1>5, OneNode DEF MachineInv, Copies

\* The episode an installation appends is the next one of the agreed sequence.
LEMMA InstalledIsAgreed ==
    ASSUME MachineInv, NEW n \in Nodes, Installing(n), Missing(n)
    PROVE  /\ Len(log[n]) < Len(agreed) /\ Len(log[n]) + 1 <= Len(task[n].snapshot.episodes)
           /\ task[n].snapshot.episodes[Len(log[n]) + 1] = agreed[Len(log[n]) + 1]
  <1>1. /\ LogFits(task[n].snapshot.episodes, agreed) /\ LogFits(log[n], agreed)
        /\ Len(agreed) \in Nat
    BY DEF MachineInv, NodeFits, Installing, TaskFits, SnapshotFits, HistoryFits
  <1>2. Len(log[n]) \in Nat /\ Len(task[n].snapshot.episodes) \in Nat
    BY <1>1 DEF LogFits
  <1>3. Len(log[n]) + 1 \in 1 .. Len(task[n].snapshot.episodes)
    BY <1>2 DEF Missing
  <1> QED
    BY <1>1, <1>2, <1>3 DEF LogFits, Fits

LEMMA InstallEpisodeKeeps ==
    ASSUME MachineInv, NEW n \in Nodes, InstallEpisode(n)
    PROVE  MachineInv' /\ Copies(n)
  <1>0. /\ NodeFits(n) /\ mode[n] = "up" /\ task[n].kind = "install"
        /\ Installing(n) /\ Missing(n)
        /\ UNCHANGED <<committed, agreed, meta, state, current, task, mode, answered>>
    BY DEF MachineInv, InstallEpisode, Installing, raft
  <1>1. /\ Len(log[n]) < Len(agreed) /\ Len(log[n]) + 1 <= Len(task[n].snapshot.episodes)
        /\ log' = [log EXCEPT ![n] = Append(log[n], agreed[Len(log[n]) + 1])]
    BY <1>0, InstalledIsAgreed DEF InstallEpisode
  <1>2. /\ LogFits(log'[n], agreed) /\ Len(log'[n]) = Len(log[n]) + 1
        /\ Len(log[n]) \in Nat /\ Copies(n)
        /\ log' = [m \in Nodes |-> log'[m]] /\ \A m \in Nodes \ {n} : log'[m] = log[m]
    BY <1>1, NextEpisode
  <1>3. OnlyAt(n)
    BY <1>0, <1>2 DEF MachineInv, AreFunctions, OnlyAt
  <1>4. MetaFits(meta[n], log'[n], committed)
    BY <1>2, MetaKeepsFitting
  <1>5. StateFits(state[n], task[n], log'[n], committed)
    <2>1. state[n].normals \in Nat /\ StateFits(state[n], task[n], log[n], committed)
      BY <1>0, CountsAreNat DEF MachineInv, NodeFits, StateFits, CountsFit
    <2> QED
      BY <1>0, <1>2, <2>1 DEF StateFits
  <1>6. TaskFits(task[n], log'[n], committed, agreed)
    BY <1>0, <1>1, <1>2 DEF TaskFits, NodeFits
  <1>7. NodeFits(n)'
    BY <1>0, <1>2, <1>4, <1>5, <1>6 DEF NodeFits
  <1> QED
    BY <1>0, <1>2, <1>3, <1>7, OneNode DEF MachineInv

LEMMA InstallEndKeeps ==
    ASSUME MachineInv, NEW n \in Nodes, InstallEnd(n)
    PROVE  MachineInv' /\ Copies(n)
  <1>0. /\ NodeFits(n) /\ mode[n] = "up" /\ task[n].kind = "install"
        /\ UNCHANGED <<committed, agreed, log, answered>>
    BY DEF MachineInv, InstallEnd, Installing
  <1>1. /\ SnapshotFits(task[n].snapshot, committed, agreed)
        /\ Len(log[n]) = Len(task[n].snapshot.episodes) /\ Len(log[n]) \in Nat
    <2>1. /\ SnapshotFits(task[n].snapshot, committed, agreed) /\ LogFits(log[n], agreed)
          /\ Len(log[n]) <= Len(task[n].snapshot.episodes)
          /\ ~(Len(log[n]) < Len(task[n].snapshot.episodes))
      BY <1>0 DEF NodeFits, TaskFits, InstallEnd, Missing
    <2>2. Len(log[n]) \in Nat /\ Len(task[n].snapshot.episodes) \in Nat
      BY <2>1 DEF SnapshotFits, LogFits
    <2> QED
      BY <2>1, <2>2
  <1>2. /\ current'[n] = task[n].snapshot /\ state'[n] = Installed(n, Unread)
        /\ meta'[n] = meta[n] \/ meta'[n] = InstalledMeta(n)
        /\ mode'[n] = "failed" \/ (mode'[n] = "up" /\ task'[n] = Idle)
    BY <1>0 DEF MachineInv, AreFunctions, InstallEnd, Stops
  <1>3. OnlyAt(n)
    BY DEF MachineInv, AreFunctions, OnlyAt, InstallEnd, Stops
  <1>4. MetaFits(meta'[n], log[n], committed)
    BY <1>0, <1>1, <1>2 DEF NodeFits, MetaFits, SnapshotFits, CountsFit, InstalledMeta, Sidecar
  <1>5. task'[n] = Idle => /\ StateFits(state'[n], task'[n], log[n], committed)
                           /\ TaskFits(task'[n], log[n], committed, agreed)
    BY <1>1, <1>2 DEF StateFits, CountsFit, SnapshotFits, TaskFits, Idle, Installed, SmState
  <1>6. NodeFits(n)'
    BY <1>0, <1>1, <1>2, <1>4, <1>5 DEF NodeFits
  <1> QED
    BY <1>0, <1>3, <1>6, OneNode DEF MachineInv, Copies

LEMMA InstallFailsKeeps ==
    ASSUME MachineInv, NEW n \in Nodes, InstallFails(n)
    PROVE  MachineInv' /\ Copies(n)
  <1>0. /\ NodeFits(n) /\ Installing(n) /\ mode'[n] = "failed"
        /\ UNCHANGED <<committed, agreed, meta, state, current, task, answered>>
    BY DEF MachineInv, AreFunctions, InstallFails, Stops, raft
  <1>1. CASE log' = log
    <2>1. OnlyAt(n)
      BY <1>0, <1>1 DEF MachineInv, AreFunctions, OnlyAt, InstallFails, Stops
    <2>2. NodeFits(n)'
      BY <1>0, <1>1 DEF NodeFits
    <2> QED
      BY <1>0, <1>1, <2>1, <2>2, OneNode DEF MachineInv, Copies
  <1>2. CASE /\ Missing(n)
             /\ log' = [log EXCEPT ![n] = Append(@, task[n].snapshot.episodes[Len(@) + 1])]
    <2>1. /\ Len(log[n]) < Len(agreed)
          /\ log' = [log EXCEPT ![n] = Append(log[n], agreed[Len(log[n]) + 1])]
      BY <1>0, <1>2, InstalledIsAgreed
    <2>2. /\ LogFits(log'[n], agreed) /\ Len(log'[n]) = Len(log[n]) + 1 /\ Copies(n)
          /\ log' = [m \in Nodes |-> log'[m]] /\ \A m \in Nodes \ {n} : log'[m] = log[m]
      BY <2>1, NextEpisode
    <2>3. OnlyAt(n)
      BY <1>0, <2>2 DEF MachineInv, AreFunctions, OnlyAt, InstallFails, Stops
    <2>4. MetaFits(meta[n], log'[n], committed)
      BY <2>2, MetaKeepsFitting
    <2>5. NodeFits(n)'
      BY <1>0, <2>2, <2>4 DEF NodeFits
    <2> QED
      BY <1>0, <2>2, <2>3, <2>5, OneNode DEF MachineInv
  <1> QED
    BY <1>1, <1>2 DEF InstallFails

LEMMA KillKeeps ==
    ASSUME MachineInv, NEW n \in Nodes, Kill(n)
    PROVE  MachineInv' /\ Copies(n)
  <1>0. /\ NodeFits(n) /\ UNCHANGED <<committed, agreed, log, meta, answered>>
    BY DEF MachineInv, Kill, raft, disk
  <1>1. OnlyAt(n)
    BY DEF MachineInv, AreFunctions, OnlyAt, Kill, raft, disk
  <1>2. mode'[n] = "down" /\ task'[n] = Idle /\ current'[n] = NoSnapshot
    BY DEF MachineInv, AreFunctions, Kill
  <1>3. SnapshotFits(NoSnapshot, committed, agreed)
    <2>1. Len(committed) \in Nat /\ Len(agreed) \in Nat
      BY DEF MachineInv, HistoryFits
    <2>2. LogFits(<< >>, agreed)
      BY <2>1 DEF LogFits, Fits
    <2> QED
      BY <2>1, <2>2 DEF SnapshotFits, NoSnapshot, NormalsIn, MemberIn
  <1>4. NodeFits(n)'
    BY <1>0, <1>2, <1>3 DEF NodeFits
  <1> QED
    BY <1>0, <1>1, <1>4, OneNode DEF MachineInv, Copies

-----------------------------------------------------------------------------
(* Every step, and what follows *)

NodeStep(n) ==
    \/ Open(n) \/ Apply(n) \/ ApplyFails(n) \/ Build(n)
    \/ \E m \in Nodes : InstallBegin(n, m)
    \/ Install(n) \/ InstallFails(n) \/ Kill(n)

LEMMA NodeStepKeeps ==
    ASSUME MachineInv, Undisturbed, NEW n \in Nodes, NodeStep(n)
    PROVE  MachineInv' /\ Copies(n)
  <1>1. CASE Apply(n)
    BY <1>1, ApplyBeginKeeps, ApplyOtherKeeps, ApplySkipKeeps, ApplyEpisodeKeeps, ApplyEndKeeps
       DEF Apply
  <1>2. CASE Install(n)
    BY <1>2, InstallEpisodeKeeps, InstallEndKeeps DEF Install
  <1> QED
    BY <1>1, <1>2, OpenKeeps, ApplyFailsKeeps, BuildKeeps, InstallBeginKeeps, InstallFailsKeeps,
       KillKeeps DEF NodeStep

LEMMA StutterInv == ASSUME MachineInv, UNCHANGED vars PROVE MachineInv'
  BY DEF MachineInv, AreFunctions, NodeFits, vars, raft, disk

LEMMA StepInv == ASSUME MachineInv, Undisturbed, [Next]_vars PROVE MachineInv'
  <1>1. CASE Next
    <2>1. \/ \E kind \in Kinds, clock \in 0 .. MaxClock : Commit(kind, clock)
          \/ \E n \in Nodes : NodeStep(n)
      BY <1>1, Zenon DEF Next, NodeStep
    <2> QED
      BY <2>1, CommitInv, NodeStepKeeps
  <1> QED
    BY <1>1, StutterInv

THEOREM MachineSafe == ASSUME Undisturbed PROVE Spec => []MachineInv
  <1>1. MachineInv /\ [Next]_vars => MachineInv'
    BY StepInv
  <1> QED
    BY <1>1, InitInv, PTL DEF Spec

(***************************************************************************)
(* Whoever is told an LSN by `apply` finds its own episode there, whatever *)
(* was killed, skipped after a restart or installed from a snapshot.       *)
(***************************************************************************)
THEOREM AnswersNamed == ASSUME Undisturbed PROVE Spec => []AnswersNameTheirEpisode
  <1>1. MachineInv => AnswersNameTheirEpisode
    BY DEF MachineInv, AnswersNameTheirEpisode, Named
  <1> QED
    BY <1>1, MachineSafe, PTL

(***************************************************************************)
(* The snapshot a node offers (build_snapshot, install_snapshot) holds     *)
(* exactly the episodes of the entries it is labelled with.                *)
(***************************************************************************)
THEOREM SnapshotsHold == ASSUME Undisturbed PROVE Spec => []SnapshotsWhole
  <1>1. MachineInv => SnapshotsWhole
    <2>1. ASSUME MachineInv, NEW n \in Nodes
          PROVE  /\ Len(current[n].episodes) = NormalsUpTo(current[n].last)
                 /\ Agreed!IsCopy(current[n].episodes)
                 /\ current[n].member = MemberUpTo(current[n].last)
      <3>1. SnapshotFits(current[n], committed, agreed)
        BY <2>1 DEF MachineInv, NodeFits
      <3> QED
        BY <3>1 DEF SnapshotFits, LogFits, Fits, NormalsIn, MemberIn, NormalsUpTo, MemberUpTo,
                    Agreed!IsCopy
    <2> QED
      BY <2>1, Zenon DEF SnapshotsWhole
  <1> QED
    BY <1>1, MachineSafe, PTL

(***************************************************************************)
(* No two nodes hold different episodes, or one episode with different     *)
(* stamps, at one LSN: the append-only logs never diverge.                 *)
(***************************************************************************)
THEOREM NeverDiverges == ASSUME Undisturbed PROVE Spec => []LogsAgree
  <1>1. MachineInv => LogsAgree
    BY DEF MachineInv, NodeFits, LogFits, Fits, LogsAgree, Agreed!Agreement, Agreed!IsCopy
  <1> QED
    BY <1>1, MachineSafe, PTL

(***************************************************************************)
(* The replicated state machine implements AgreedLog: raft decides, each   *)
(* node copies, and every other step leaves both the agreed sequence and   *)
(* the logs alone.  In particular no kill, restart or installation ever    *)
(* takes an episode back.                                                  *)
(***************************************************************************)
THEOREM MachineImplementsAgreedLog == ASSUME Undisturbed PROVE Spec => ImplementsAgreedLog
  <1>1. Init => Agreed!Init
    BY DEF Init, Agreed!Init
  <1>2. MachineInv /\ [Next]_vars => [Agreed!Next]_(Agreed!vars)
    <2> SUFFICES ASSUME MachineInv, [Next]_vars PROVE [Agreed!Next]_(Agreed!vars)
      OBVIOUS
    <2>1. ASSUME NEW kind \in Kinds, NEW clock \in 0 .. MaxClock, Commit(kind, clock)
          PROVE  [Agreed!Next]_(Agreed!vars)
      <3>1. UNCHANGED log
        BY <2>1 DEF Commit, disk
      <3>2. CASE agreed' = agreed
        BY <3>1, <3>2 DEF Agreed!vars
      <3>3. CASE \E e \in Episode : /\ \A i \in DOMAIN agreed : agreed[i].ts < e.ts
                                    /\ agreed' = Append(agreed, e)
        BY <3>1, <3>3 DEF Agreed!Next, Agreed!Decide
      <3> QED
        BY <2>1, <3>2, <3>3, CommitHistory DEF MachineInv
    <2>2. ASSUME NEW n \in Nodes, NodeStep(n) PROVE [Agreed!Next]_(Agreed!vars)
      <3>1. Copies(n)
        BY <2>2, NodeStepKeeps
      <3>2. UNCHANGED agreed
        BY <2>2 DEF NodeStep, Open, Apply, ApplyBegin, ApplyOther, ApplySkip, ApplyEpisode,
                    ApplyEnd, ApplyFails, Build, InstallBegin, Install, InstallEpisode, InstallEnd,
                    InstallFails, Kill, raft
      <3>3. CASE log' = log
        BY <3>2, <3>3 DEF Agreed!vars
      <3>4. CASE /\ Len(log[n]) < Len(agreed)
                 /\ log' = [log EXCEPT ![n] = Append(log[n], agreed[Len(log[n]) + 1])]
        BY <3>2, <3>4 DEF Agreed!Next, Agreed!Copy
      <3> QED
        BY <3>1, <3>3, <3>4 DEF Copies
    <2>3. CASE UNCHANGED vars
      BY <2>3 DEF vars, raft, disk, Agreed!vars
    <2>4. CASE Next
      <3>1. \/ \E kind \in Kinds, clock \in 0 .. MaxClock : Commit(kind, clock)
            \/ \E n \in Nodes : NodeStep(n)
        BY <2>4, Zenon DEF Next, NodeStep
      <3> QED
        BY <3>1, <2>1, <2>2
    <2> QED
      BY <2>3, <2>4
  <1> QED
    BY <1>1, <1>2, MachineSafe, PTL DEF Spec, ImplementsAgreedLog, Agreed!Spec

-----------------------------------------------------------------------------
(* Types.  The records of a node have their fields, also those of a node    *)
(* that stopped, of which the invariant above says nothing.                 *)

Metas == [known : BOOLEAN, applied : Indices, member : Indices, normals : Indices]
SmStates == [applied : Indices, member : Indices, normals : Indices, skip : Indices,
             lastTs : Stamps \cup {Unread}]
Snapshots == [last : Indices, member : Indices, episodes : Episodes]

NodeTyped(n) ==
    /\ received[n] \in Indices /\ meta[n] \in Metas /\ state[n] \in SmStates
    /\ current[n] \in Snapshots
    /\ task[n].kind \in {"idle", "apply", "install"}
    /\ task[n].kind = "install" => task[n].snapshot \in Snapshots
    /\ mode[n] \in {"up", "down", "failed", "refused"}

MachineTypes == received = [n \in Nodes |-> received[n]] /\ \A n \in Nodes : NodeTyped(n)

LEMMA IndicesAre == 0 \in Indices /\ \A i \in Nat : i <= MaxEntries => i \in Indices
  BY ConstantsAssumption DEF Indices

\* A log that fits has the type of a log, and its length is an index.
LEMMA FittingLog ==
    ASSUME NEW c, NEW a, HistoryFits(c, a), NEW l, LogFits(l, a)
    PROVE  l \in Episodes /\ Len(l) \in Indices /\ l \in Seq(Episode) /\ LastTs(l) \in Stamps
  <1>1. /\ l \in Seq(Episode) /\ Len(l) \in Nat /\ Len(l) <= MaxEntries
    BY ConstantsAssumption DEF HistoryFits, LogFits, Fits
  <1>2. Len(l) \in Indices /\ l \in [1 .. Len(l) -> Episode]
    BY <1>1, IndicesAre
  <1>3. LastTs(l) \in Stamps
    <2>1. CASE l = << >>
      BY <2>1, ConstantsAssumption DEF LastTs, Stamps
    <2>2. CASE l # << >>
      <3>1. Len(l) \in 1 .. Len(l)
        BY <1>1, <2>2
      <3>2. l[Len(l)] \in Episode
        BY <1>1, <3>1
      <3> QED
        BY <2>2, <3>2 DEF LastTs, Episode
    <2> QED
      BY <2>1, <2>2
  <1> QED
    BY <1>1, <1>2, <1>3 DEF Episodes

LEMMA HistoryTyped ==
    ASSUME NEW c, NEW a, HistoryFits(c, a)
    PROVE  /\ c \in Seq(Entry) /\ Len(c) \in Nat /\ Len(c) <= MaxEntries /\ a \in Episodes
           /\ \A i \in 0 .. Len(c) : i \in Indices
           /\ \A i \in 0 .. Len(a) : i \in Indices
  <1>1. LogFits(a, a)
    BY DEF HistoryFits, LogFits, Fits
  <1>2. Len(c) \in Nat /\ Len(a) \in Nat /\ Len(c) <= MaxEntries /\ Len(a) <= MaxEntries
    BY ConstantsAssumption DEF HistoryFits
  <1>3. (\A i \in 0 .. Len(c) : i \in Indices) /\ \A i \in 0 .. Len(a) : i \in Indices
    BY <1>2, IndicesAre, ConstantsAssumption
  <1> QED
    BY <1>1, <1>2, <1>3, FittingLog DEF HistoryFits

\* One node changes.
LEMMA OneNodeTyped ==
    ASSUME MachineTypes, NEW n \in Nodes,
           received' = [received EXCEPT ![n] = received'[n]],
           \A m \in Nodes \ {n} :
              /\ meta'[m] = meta[m] /\ state'[m] = state[m]
              /\ current'[m] = current[m] /\ task'[m] = task[m] /\ mode'[m] = mode[m],
           NodeTyped(n)'
    PROVE  MachineTypes'
  <1>1. received' = [m \in Nodes |-> received'[m]] /\ \A m \in Nodes \ {n} : received'[m] = received[m]
    BY DEF MachineTypes
  <1>2. ASSUME NEW m \in Nodes \ {n} PROVE NodeTyped(m)'
    BY <1>1, <1>2 DEF MachineTypes, NodeTyped
  <1> QED
    BY <1>1, <1>2 DEF MachineTypes

\* What the invariant says of the node that moves.
LEMMA AboutNode ==
    ASSUME MachineInv, MachineTypes, NEW n \in Nodes
    PROVE  /\ NodeTyped(n) /\ log[n] \in Episodes /\ Len(log[n]) \in Indices
           /\ meta[n].normals <= Len(log[n]) /\ Indices \subseteq Nat
           /\ mode[n] = "up" =>
                 /\ state[n].applied \in 0 .. Len(committed) /\ state[n].normals <= Len(log[n])
                 /\ task[n].kind = "apply" => task[n].upto \in 0 .. Len(committed)
  <1>1. NodeFits(n) /\ HistoryFits(committed, agreed)
    BY DEF MachineInv
  <1>2. LogFits(log[n], agreed)
    BY <1>1 DEF NodeFits
  <1>3. log[n] \in Episodes /\ Len(log[n]) \in Indices
    BY <1>1, <1>2, FittingLog
  <1>4. Indices \subseteq Nat
    BY ConstantsAssumption DEF Indices
  <1> QED
    BY <1>1, <1>3, <1>4 DEF MachineTypes, NodeFits, MetaFits, StateFits, CountsFit, TaskFits

LEMMA OpenTypes ==
    ASSUME MachineInv, MachineTypes, NEW n \in Nodes, Open(n)
    PROVE  MachineTypes'
  <1>1. /\ NodeTyped(n) /\ Len(log[n]) \in Indices /\ meta[n].normals <= Len(log[n])
        /\ AreFunctions /\ Indices \subseteq Nat
    BY AboutNode DEF MachineInv
  <1>2. /\ UNCHANGED <<received, meta, current, task>>
        /\ \A m \in Nodes \ {n} : state'[m] = state[m] /\ mode'[m] = mode[m]
        /\ mode'[n] \in {"up", "refused"}
        /\ \/ state'[n] = state[n]
           \/ state'[n] = SmState(meta[n].applied, meta[n].member, meta[n].normals,
                                  Len(log[n]) - meta[n].normals, Unread)
    BY <1>1 DEF Open, raft, disk, AreFunctions
  <1>3. state'[n] \in SmStates
    <2>1. Len(log[n]) - meta[n].normals \in Indices
      <3>1. PICK a, b : a = Len(log[n]) /\ b = meta[n].normals
        OBVIOUS
      <3>2. b \in Indices
        BY <1>1, <3>1 DEF NodeTyped, Metas
      <3>3. a \in 0 .. MaxEntries /\ b \in 0 .. MaxEntries /\ b <= a
        BY <1>1, <3>1, <3>2 DEF Indices
      <3>4. a - b \in 0 .. MaxEntries
        BY <3>3, ConstantsAssumption
      <3> QED
        BY <3>1, <3>4 DEF Indices
    <2> QED
      BY <1>1, <1>2, <2>1 DEF NodeTyped, Metas, SmStates, SmState
  <1>4. NodeTyped(n)'
    BY <1>1, <1>2, <1>3 DEF NodeTyped
  <1>5. received' = [received EXCEPT ![n] = received'[n]]
    BY <1>2 DEF MachineTypes
  <1> QED
    BY <1>2, <1>4, <1>5, OneNodeTyped

LEMMA ApplyBeginTypes ==
    ASSUME MachineInv, MachineTypes, NEW n \in Nodes, NEW upto \in Indices, ApplyBegin(n, upto)
    PROVE  MachineTypes'
  <1>1. NodeTyped(n) /\ AreFunctions /\ received = [m \in Nodes |-> received[m]]
    BY AboutNode DEF MachineInv, MachineTypes
  <1>2. /\ UNCHANGED <<meta, state, current, mode>>
        /\ \A m \in Nodes \ {n} : task'[m] = task[m]
        /\ task'[n] = Batch(upto, {})
        /\ received'[n] \in {upto, received[n]}
        /\ received' = [received EXCEPT ![n] = received'[n]]
    BY <1>1 DEF ApplyBegin, disk, AreFunctions
  <1>3. NodeTyped(n)'
    BY <1>1, <1>2 DEF NodeTyped, Batch
  <1> QED
    BY <1>2, <1>3, OneNodeTyped

LEMMA ApplyOtherTypes ==
    ASSUME MachineInv, MachineTypes, NEW n \in Nodes, ApplyOther(n)
    PROVE  MachineTypes'
  <1>1. /\ NodeTyped(n) /\ AreFunctions /\ HistoryFits(committed, agreed)
        /\ mode[n] = "up" /\ task[n].kind = "apply" /\ At(n) <= task[n].upto
    BY AboutNode DEF MachineInv, ApplyOther, Reached, Applying
  <1>2. At(n) \in Indices
    <2>1. state[n].applied \in 0 .. Len(committed) /\ task[n].upto \in 0 .. Len(committed)
      BY <1>1, AboutNode
    <2>2. At(n) \in 0 .. Len(committed)
      BY <1>1, <2>1, HistoryTyped DEF At
    <2> QED
      BY <1>1, <2>2, HistoryTyped
  <1>3. /\ UNCHANGED <<received, meta, current, task, mode>>
        /\ \A m \in Nodes \ {n} : state'[m] = state[m]
        /\ \E i \in {At(n), state[n].member} :
              state'[n] = SmState(At(n), i, state[n].normals, state[n].skip, state[n].lastTs)
    BY <1>1 DEF ApplyOther, raft, disk, AreFunctions
  <1>4. state'[n] \in SmStates
    BY <1>1, <1>2, <1>3 DEF NodeTyped, SmStates, SmState
  <1>5. NodeTyped(n)'
    BY <1>1, <1>3, <1>4 DEF NodeTyped
  <1>6. received' = [received EXCEPT ![n] = received'[n]]
    BY <1>3 DEF MachineTypes
  <1> QED
    BY <1>3, <1>5, <1>6, OneNodeTyped

\* The state after one more episode is counted.
LEMMA CountTyped ==
    ASSUME MachineInv, MachineTypes, NEW n \in Nodes, Reached(n), IsNormal(n),
           NEW skip \in Indices, NEW ts \in Stamps \cup {Unread}
    PROVE  /\ At(n) \in Indices
           /\ SmState(At(n), state[n].member, state[n].normals + 1, skip, ts) \in SmStates
           /\ SmState(state[n].applied, state[n].member, state[n].normals + 1, skip, ts) \in SmStates
  <1>1. NodeTyped(n) /\ HistoryFits(committed, agreed)
    BY DEF MachineInv, MachineTypes
  <1>2. /\ At(n) \in 1 .. Len(committed) /\ state[n].normals \in Nat
        /\ state[n].normals + 1 <= Len(agreed)
    BY StampedIsAgreed
  <1>3. At(n) \in Indices /\ state[n].normals + 1 \in Indices
    <2>1. Len(agreed) \in Nat
      BY <1>1 DEF HistoryFits
    <2>2. At(n) \in 0 .. Len(committed) /\ state[n].normals + 1 \in 0 .. Len(agreed)
      BY <1>1, <1>2, <2>1
    <2> QED
      BY <1>1, <2>2, HistoryTyped
  <1> QED
    BY <1>1, <1>3 DEF NodeTyped, SmStates, SmState

LEMMA ApplySkipTypes ==
    ASSUME MachineInv, MachineTypes, NEW n \in Nodes, ApplySkip(n)
    PROVE  MachineTypes'
  <1>1. /\ NodeTyped(n) /\ AreFunctions /\ Reached(n) /\ IsNormal(n) /\ state[n].skip > 0
    BY DEF MachineInv, MachineTypes, ApplySkip
  <1>2. /\ UNCHANGED <<received, meta, current, mode>>
        /\ \A m \in Nodes \ {n} : state'[m] = state[m] /\ task'[m] = task[m]
        /\ state'[n] = SmState(At(n), state[n].member, state[n].normals + 1, state[n].skip - 1, Unread)
        /\ task'[n].kind = "apply"
    BY <1>1 DEF ApplySkip, Counts, Answer, Batch, raft, disk, AreFunctions
  <1>3. state[n].skip - 1 \in Indices
    BY <1>1, ConstantsAssumption DEF NodeTyped, SmStates, Indices
  <1>4. state'[n] \in SmStates
    BY <1>1, <1>2, <1>3, CountTyped
  <1>5. NodeTyped(n)'
    BY <1>1, <1>2, <1>4 DEF NodeTyped
  <1>6. received' = [received EXCEPT ![n] = received'[n]]
    BY <1>2 DEF MachineTypes
  <1> QED
    BY <1>2, <1>5, <1>6, OneNodeTyped

LEMMA ApplyEpisodeTypes ==
    ASSUME MachineInv, MachineTypes, NEW n \in Nodes, ApplyEpisode(n)
    PROVE  MachineTypes'
  <1>1. /\ NodeTyped(n) /\ AreFunctions /\ Reached(n) /\ IsNormal(n) /\ state[n].skip = 0
        /\ HistoryFits(committed, agreed)
    BY DEF MachineInv, MachineTypes, ApplyEpisode
  <1>2. /\ UNCHANGED <<received, meta, current, mode>>
        /\ \A m \in Nodes \ {n} : state'[m] = state[m] /\ task'[m] = task[m]
        /\ state'[n] = SmState(At(n), state[n].member, state[n].normals + 1, 0, Stamped(n).ts)
        /\ task'[n].kind = "apply"
    BY <1>1 DEF ApplyEpisode, Counts, Answer, Batch, raft, AreFunctions
  <1>3. Stamped(n).ts \in Stamps
    <2>1. /\ Stamped(n) = agreed[Len(log[n]) + 1] /\ Len(log[n]) = state[n].normals
          /\ state[n].normals \in Nat /\ state[n].normals + 1 <= Len(agreed)
      BY <1>1, StampedIsAgreed
    <2>2. agreed \in Seq(Episode) /\ Len(log[n]) + 1 \in 1 .. Len(agreed)
      BY <1>1, <2>1 DEF HistoryFits
    <2>3. Stamped(n) \in Episode
      BY <2>1, <2>2
    <2> QED
      BY <2>3 DEF Episode
  <1>4. state'[n] \in SmStates
    BY <1>1, <1>2, <1>3, IndicesAre, CountTyped
  <1>5. NodeTyped(n)'
    BY <1>1, <1>2, <1>4 DEF NodeTyped
  <1>6. received' = [received EXCEPT ![n] = received'[n]]
    BY <1>2 DEF MachineTypes
  <1> QED
    BY <1>2, <1>5, <1>6, OneNodeTyped

LEMMA ApplyFailsTypes ==
    ASSUME MachineInv, MachineTypes, NEW n \in Nodes, ApplyFails(n)
    PROVE  MachineTypes'
  <1>1. NodeTyped(n) /\ AreFunctions /\ Reached(n) /\ IsNormal(n)
    BY DEF MachineInv, MachineTypes, ApplyFails
  <1>2. /\ UNCHANGED <<received, meta, current, task>>
        /\ \A m \in Nodes \ {n} : state'[m] = state[m] /\ mode'[m] = mode[m]
        /\ state'[n] = SmState(state[n].applied, state[n].member, state[n].normals + 1, 0,
                               state[n].lastTs)
        /\ mode'[n] = "failed"
    BY <1>1 DEF ApplyFails, Stops, raft, AreFunctions
  <1>3. state'[n] \in SmStates
    <2>1. state[n].lastTs \in Stamps \cup {Unread}
      BY <1>1 DEF NodeTyped, SmStates
    <2> QED
      BY <1>1, <1>2, <2>1, IndicesAre, CountTyped
  <1>4. NodeTyped(n)'
    BY <1>1, <1>2, <1>3 DEF NodeTyped
  <1>5. received' = [received EXCEPT ![n] = received'[n]]
    BY <1>2 DEF MachineTypes
  <1> QED
    BY <1>2, <1>4, <1>5, OneNodeTyped

LEMMA ApplyEndTypes ==
    ASSUME MachineInv, MachineTypes, NEW n \in Nodes, ApplyEnd(n)
    PROVE  MachineTypes'
  <1>1. NodeTyped(n) /\ AreFunctions
    BY DEF MachineInv, MachineTypes
  <1>2. /\ UNCHANGED <<received, state, current>>
        /\ \A m \in Nodes \ {n} : meta'[m] = meta[m] /\ mode'[m] = mode[m] /\ task'[m] = task[m]
        /\ meta'[n] \in {meta[n], Recorded(n)}
        /\ task'[n] \in {task[n], Idle} /\ mode'[n] \in {mode[n], "failed"}
    BY <1>1 DEF ApplyEnd, Stops, raft, AreFunctions
  <1>3. Recorded(n) \in Metas
    BY <1>1 DEF NodeTyped, SmStates, Recorded, Sidecar, Metas
  <1>4. NodeTyped(n)'
    BY <1>1, <1>2, <1>3 DEF NodeTyped, Idle
  <1>5. received' = [received EXCEPT ![n] = received'[n]]
    BY <1>2 DEF MachineTypes
  <1> QED
    BY <1>2, <1>4, <1>5, OneNodeTyped

LEMMA BuildTypes ==
    ASSUME MachineInv, MachineTypes, NEW n \in Nodes, Build(n)
    PROVE  MachineTypes'
  <1>1. NodeTyped(n) /\ AreFunctions /\ log[n] \in Episodes
    BY AboutNode DEF MachineInv
  <1>2. /\ UNCHANGED <<received, meta, state, task, mode>>
        /\ \A m \in Nodes \ {n} : current'[m] = current[m]
        /\ current'[n] = [last |-> state[n].applied, member |-> state[n].member, episodes |-> log[n]]
    BY <1>1 DEF Build, raft, disk, AreFunctions
  <1>3. current'[n] \in Snapshots
    BY <1>1, <1>2 DEF NodeTyped, SmStates, Snapshots
  <1>4. NodeTyped(n)'
    BY <1>1, <1>2, <1>3 DEF NodeTyped
  <1>5. received' = [received EXCEPT ![n] = received'[n]]
    BY <1>2 DEF MachineTypes
  <1> QED
    BY <1>2, <1>4, <1>5, OneNodeTyped

LEMMA InstallBeginTypes ==
    ASSUME MachineInv, MachineTypes, NEW n \in Nodes, NEW m \in Nodes, InstallBegin(n, m)
    PROVE  MachineTypes'
  <1>1. NodeTyped(n) /\ NodeTyped(m) /\ AreFunctions
    BY DEF MachineInv, MachineTypes
  <1>2. /\ UNCHANGED <<received, meta, state, current, mode>>
        /\ \A k \in Nodes \ {n} : task'[k] = task[k]
        /\ task'[n] = [kind |-> "install", snapshot |-> current[m]]
    BY <1>1 DEF InstallBegin, raft, disk, AreFunctions
  <1>3. NodeTyped(n)'
    BY <1>1, <1>2 DEF NodeTyped
  <1>4. received' = [received EXCEPT ![n] = received'[n]]
    BY <1>2 DEF MachineTypes
  <1> QED
    BY <1>2, <1>3, <1>4, OneNodeTyped

LEMMA InstallEndTypes ==
    ASSUME MachineInv, MachineTypes, NEW n \in Nodes, InstallEnd(n)
    PROVE  MachineTypes'
  <1>1. /\ NodeTyped(n) /\ AreFunctions /\ Len(log[n]) \in Indices
        /\ received = [m \in Nodes |-> received[m]]
    BY AboutNode DEF MachineInv, MachineTypes
  <1>2. task[n].snapshot \in Snapshots
    BY <1>1 DEF NodeTyped, InstallEnd, Installing
  <1>3. /\ \A m \in Nodes \ {n} :
              /\ meta'[m] = meta[m] /\ state'[m] = state[m] /\ mode'[m] = mode[m]
              /\ task'[m] = task[m] /\ current'[m] = current[m]
        /\ state'[n] = Installed(n, Unread) /\ current'[n] = task[n].snapshot
        /\ meta'[n] \in {meta[n], InstalledMeta(n)}
        /\ task'[n] \in {task[n], Idle} /\ mode'[n] \in {mode[n], "failed"}
        /\ received'[n] = task[n].snapshot.last
        /\ received' = [received EXCEPT ![n] = received'[n]]
    BY <1>1 DEF InstallEnd, Stops, AreFunctions
  <1>4. state'[n] \in SmStates
    BY <1>1, <1>2, <1>3, IndicesAre DEF Installed, SmState, SmStates, Snapshots
  <1>5. meta'[n] \in Metas
    <2>1. InstalledMeta(n) \in Metas
      BY <1>1, <1>2 DEF InstalledMeta, Sidecar, Metas, Snapshots
    <2> QED
      BY <1>1, <1>3, <2>1 DEF NodeTyped
  <1>6. received'[n] \in Indices
    BY <1>2, <1>3 DEF Snapshots
  <1>7. NodeTyped(n)'
    BY <1>1, <1>2, <1>3, <1>4, <1>5, <1>6 DEF NodeTyped, Idle
  <1> QED
    BY <1>3, <1>7, OneNodeTyped

\* Steps that change no more than the log and the mode of a node.
LEMMA QuietTypes ==
    ASSUME MachineInv, MachineTypes, NEW n \in Nodes, InstallEpisode(n) \/ InstallFails(n)
    PROVE  MachineTypes'
  <1>1. NodeTyped(n) /\ AreFunctions
    BY DEF MachineInv, MachineTypes
  <1>2. /\ UNCHANGED <<received, meta, state, current, task>>
        /\ \A m \in Nodes \ {n} : mode'[m] = mode[m]
        /\ mode'[n] \in {mode[n], "failed"}
    BY <1>1 DEF InstallEpisode, InstallFails, Stops, raft, AreFunctions
  <1>3. NodeTyped(n)'
    BY <1>1, <1>2 DEF NodeTyped
  <1>4. received' = [received EXCEPT ![n] = received'[n]]
    BY <1>2 DEF MachineTypes
  <1> QED
    BY <1>2, <1>3, <1>4, OneNodeTyped

LEMMA NothingTyped ==
    /\ NoMeta \in Metas /\ Unstarted \in SmStates /\ NoSnapshot \in Snapshots
    /\ Idle.kind = "idle"
  <1>1. << >> \in Episodes
    <2>1. << >> \in [1 .. 0 -> Episode]
      OBVIOUS
    <2> QED
      BY <2>1, IndicesAre DEF Episodes
  <1> QED
    BY <1>1, IndicesAre DEF NoMeta, Metas, Unstarted, SmState, SmStates, NoSnapshot, Snapshots, Idle

LEMMA KillTypes ==
    ASSUME MachineInv, MachineTypes, NEW n \in Nodes, Kill(n)
    PROVE  MachineTypes'
  <1>1. NodeTyped(n) /\ AreFunctions
    BY DEF MachineInv, MachineTypes
  <1>2. /\ UNCHANGED <<received, meta>>
        /\ \A m \in Nodes \ {n} :
              /\ state'[m] = state[m] /\ mode'[m] = mode[m]
              /\ task'[m] = task[m] /\ current'[m] = current[m]
        /\ state'[n] = Unstarted /\ current'[n] = NoSnapshot /\ task'[n] = Idle
        /\ mode'[n] = "down"
    BY <1>1 DEF Kill, raft, disk, AreFunctions
  <1>3. NodeTyped(n)'
    BY <1>1, <1>2, NothingTyped DEF NodeTyped
  <1>4. received' = [received EXCEPT ![n] = received'[n]]
    BY <1>2 DEF MachineTypes
  <1> QED
    BY <1>2, <1>3, <1>4, OneNodeTyped

LEMMA StepTypes == ASSUME MachineInv, MachineTypes, [Next]_vars PROVE MachineTypes'
  <1>1. ASSUME NEW kind \in Kinds, NEW clock \in 0 .. MaxClock, Commit(kind, clock)
        PROVE  MachineTypes'
    BY <1>1 DEF Commit, MachineTypes, NodeTyped, disk
  <1>2. ASSUME NEW n \in Nodes, NodeStep(n) PROVE MachineTypes'
    <2>1. CASE Apply(n)
      BY <2>1, ApplyBeginTypes, ApplyOtherTypes, ApplySkipTypes, ApplyEpisodeTypes, ApplyEndTypes
         DEF Apply
    <2>2. CASE Install(n)
      BY <2>2, QuietTypes, InstallEndTypes DEF Install
    <2> QED
      BY <1>2, <2>1, <2>2, OpenTypes, ApplyFailsTypes, BuildTypes, InstallBeginTypes, QuietTypes,
         KillTypes DEF NodeStep
  <1>3. CASE UNCHANGED vars
    BY <1>3 DEF vars, raft, disk, MachineTypes, NodeTyped
  <1>4. CASE Next
    <2>1. \/ \E kind \in Kinds, clock \in 0 .. MaxClock : Commit(kind, clock)
          \/ \E n \in Nodes : NodeStep(n)
      BY <1>4, Zenon DEF Next, NodeStep
    <2> QED
      BY <2>1, <1>1, <1>2
  <1> QED
    BY <1>3, <1>4

(***************************************************************************)
(* Types: in particular no count, skip or stamp leaves its range, whatever *)
(* failed while an episode was applied and whichever snapshot came.        *)
(***************************************************************************)
THEOREM MachineTypeOK == ASSUME Undisturbed PROVE Spec => []TypeOK
  <1>1. Init => MachineTypes
    BY NothingTyped, IndicesAre DEF Init, MachineTypes, NodeTyped
  <1>2. MachineInv /\ MachineTypes /\ [Next]_vars => MachineTypes'
    BY StepTypes
  <1>3. MachineInv /\ MachineTypes => TypeOK
    <2> SUFFICES ASSUME MachineInv, MachineTypes PROVE TypeOK
      OBVIOUS
    <2>1. HistoryFits(committed, agreed) /\ AreFunctions
      BY DEF MachineInv
    <2>2. committed \in Seq(Entry) /\ Len(committed) <= MaxEntries /\ agreed \in Episodes
      BY <2>1, HistoryTyped
    <2>3. ASSUME NEW n \in Nodes
          PROVE  /\ NodeTyped(n) /\ log[n] \in Episodes
      BY AboutNode
    <2>4. /\ received \in [Nodes -> Indices] /\ log \in [Nodes -> Episodes]
          /\ meta \in [Nodes -> Metas] /\ state \in [Nodes -> SmStates]
          /\ current \in [Nodes -> Snapshots]
          /\ mode \in [Nodes -> {"up", "down", "failed", "refused"}]
      BY <2>1, <2>3 DEF AreFunctions, NodeTyped, MachineTypes
    <2> QED
      BY <2>2, <2>3, <2>4 DEF TypeOK, Metas, SmStates, Snapshots, NodeTyped
  <1> QED
    BY <1>1, <1>2, <1>3, MachineSafe, PTL DEF Spec
=============================================================================
