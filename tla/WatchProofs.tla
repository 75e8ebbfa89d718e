----------------------------- MODULE WatchProofs -----------------------------
(***************************************************************************)
(* Watches for any number of devices, links, paths and edits.              *)
(***************************************************************************)
EXTENDS Watch, ReconcileProofs, FiniteSetTheorems

Replicas == [Device -> [Path -> File \cup {Missing}]]
States   == {"off", "idle", "due", "sync", "again", "last", "hung"}

\* The loop of l has nothing to do, and no change of its folder was missed.
Resting(l) == loop[l] \in {"off", "idle"} /\ l \notin missed

\* Where neither watch of a link has anything to do, its replicas are in step.
AgreeInv ==
  /\ disk \in Replicas /\ loop \in [Watched -> States]
  /\ \A l \in Watched :
       Reverse(l) \in Watched /\ Resting(l) /\ Resting(Reverse(l)) => Equal(l[1], l[2])

\* mtimes are ranks: none is above the number of those in use.
Dense(dk) ==
  \A d \in Device, p \in Path :
    dk[d][p] # Missing => dk[d][p].mtime <= Cardinality(Times(dk))

\* d made the last edit of p and has its file still.
Keeps(d, p) == latest[p].by = d /\ <<d, p>> \notin relayed /\ Has(d, p, latest[p].data)

\* A file that was neither relayed nor edited last is older than the last edit.
LastIsNewest ==
  \A d, e \in Device, p \in Path :
    Keeps(d, p) /\ e # d /\ disk[e][p] # Missing /\ <<e, p>> \notin relayed
      => disk[e][p].mtime < disk[d][p].mtime

NewestInv ==
  /\ disk \in Replicas /\ Dense(disk) /\ edits \in Nat
  /\ latest \in [Path -> [by : Device \cup {Missing}, data : Content \cup {Missing}]]
  /\ LastIsNewest

-----------------------------------------------------------------------------
(***************************************************************************)
(* Replicas.                                                               *)
(***************************************************************************)
\* A file is not a missing file.
LEMMA FilesThere == Missing \notin File
BY FolderSyncAssumption DEF File

\* The mtimes in use are finitely many numbers.
LEMMA TimesFinite ==
  ASSUME NEW dk \in Replicas
  PROVE  /\ IsFiniteSet(Times(dk)) /\ Times(dk) \subseteq Nat
         /\ Cardinality(Times(dk)) \in Nat
         /\ \A d \in Device, p \in Path :
              dk[d][p] # Missing => dk[d][p].mtime \in Times(dk)
         /\ \A t \in Times(dk) : \E d \in Device, p \in Path :
              dk[d][p] # Missing /\ t = dk[d][p].mtime
<1> DEFINE there == {x \in Device \X Path : dk[x[1]][x[2]] # Missing}
           M(e) == dk[e[1]][e[2]].mtime
           I == {M(e) : e \in there}
<1>1. IsFiniteSet(there)
  BY FolderSyncAssumption, FS_Product, FS_Subset
<1>2. IsFiniteSet(I)
  <2> HIDE DEF there
  <2> DEFINE f == [e \in there |-> M(e)]
  <2>1. f \in Surjection(there, I)
    BY DEF Surjection
  <2> QED BY <1>1, <2>1, FS_Surjection
<1>3. I \subseteq Nat
  <2> SUFFICES ASSUME NEW e \in Device \X Path, dk[e[1]][e[2]] # Missing
               PROVE  M(e) \in Nat
    OBVIOUS
  <2>1. dk[e[1]][e[2]] \in File
    BY DEF Replicas
  <2> QED BY <2>1 DEF File
<1>4. ASSUME NEW d \in Device, NEW p \in Path, dk[d][p] # Missing
      PROVE  dk[d][p].mtime \in I
  <2>1. <<d, p>> \in there /\ M(<<d, p>>) = dk[d][p].mtime
    BY <1>4
  <2> QED BY <2>1
<1>5. ASSUME NEW t \in I
      PROVE  \E d \in Device, p \in Path : dk[d][p] # Missing /\ t = dk[d][p].mtime
  OBVIOUS
<1>6. Cardinality(I) \in Nat
  BY <1>2, FS_CardinalityType
<1>7. I = Times(dk)
  BY DEF Times
<1> HIDE DEF I
<1> QED BY <1>2, <1>3, <1>4, <1>5, <1>6, <1>7

\* A new file is written at a time.
LEMMA TimeNow ==
  ASSUME disk \in Replicas
  PROVE  JustNow \in Nat
BY TimesFinite DEF JustNow

\* Ranks replace mtimes and nothing else.
LEMMA RankedSame ==
  ASSUME NEW dk \in Replicas, NEW times, times \subseteq Nat, NEW r, r = Ranked(dk, times)
  PROVE  /\ r \in Replicas
         /\ \A d \in Device, p \in Path :
              /\ r[d][p] = Missing <=> dk[d][p] = Missing
              /\ dk[d][p] # Missing => r[d][p].data = dk[d][p].data
<1> SUFFICES ASSUME NEW d \in Device, NEW p \in Path
             PROVE  /\ r[d][p] \in File \cup {Missing}
                    /\ r[d][p] = Missing <=> dk[d][p] = Missing
                    /\ dk[d][p] # Missing => r[d][p].data = dk[d][p].data
  BY DEF Ranked, Replicas
<1>1. CASE dk[d][p] = Missing
  BY <1>1 DEF Ranked
<1>2. CASE dk[d][p] # Missing
  <2> DEFINE f == dk[d][p]
             below == {u \in times : u <= f.mtime}
             k == Cardinality(below)
  <2>1. f \in File
    BY <1>2 DEF Replicas
  <2>2. f.mtime \in Nat
    BY <2>1 DEF File
  <2>3. k \in Nat
    <3> HIDE DEF f
    <3>1. IsFiniteSet(0..f.mtime)
      BY <2>2, FS_Interval
    <3>2. \A u \in below : u \in Nat /\ u <= f.mtime
      OBVIOUS
    <3>3. below \subseteq 0..f.mtime
      <4> HIDE DEF below
      <4> QED BY <2>2, <3>2
    <3>4. IsFiniteSet(below)
      BY <3>1, <3>3, FS_Subset
    <3> QED BY <3>4, FS_CardinalityType
  <2>4. r[d][p] = [f EXCEPT !.mtime = k]
    BY <1>2 DEF Ranked
  <2> HIDE DEF k
  <2>5. r[d][p] \in File /\ r[d][p].data = f.data
    BY <2>1, <2>3, <2>4 DEF File
  <2> QED BY <1>2, <2>5, FilesThere
<1> QED BY <1>1, <1>2

\* What a step makes of the replicas, but for the ranks.
LEMMA BecomesSame ==
  ASSUME NEW dk \in Replicas, Becomes(dk)
  PROVE  /\ disk' \in Replicas
         /\ \A d \in Device, p \in Path :
              /\ disk'[d][p] = Missing <=> dk[d][p] = Missing
              /\ dk[d][p] # Missing => disk'[d][p].data = dk[d][p].data
<1>1. Times(dk) \subseteq Nat
  BY TimesFinite
<1>2. disk' = Ranked(dk, Times(dk))
  BY DEF Becomes
<1> QED BY <1>1, <1>2, RankedSame

\* The rank of a time among others.
Rank(times, m) == Cardinality({u \in times : u <= m})

\* A later time has a higher rank, and no rank is above the number of times.
LEMMA RankOrder ==
  ASSUME NEW times \in SUBSET Nat, IsFiniteSet(times), NEW m \in times, NEW n \in times
  PROVE  /\ Rank(times, m) \in Nat /\ Rank(times, n) \in Nat
         /\ Rank(times, m) <= Cardinality(times)
         /\ m < n => Rank(times, m) < Rank(times, n)
<1> DEFINE A == {u \in times : u <= m}
           B == {u \in times : u <= n}
<1>1. A \in SUBSET times /\ B \in SUBSET times
  OBVIOUS
<1>2. IsFiniteSet(A) /\ IsFiniteSet(B) /\ Cardinality(A) <= Cardinality(times)
  BY <1>1, FS_Subset
<1>3. Cardinality(A) \in Nat /\ Cardinality(B) \in Nat
  BY <1>2, FS_CardinalityType
<1>4. ASSUME m < n PROVE Cardinality(A) < Cardinality(B)
  <2>1. \A u \in times : u <= m => u <= n
    BY <1>4
  <2>2. A \in SUBSET B /\ n \in B /\ n \notin A
    <3>1. m \in Nat /\ n \in Nat /\ n <= n /\ ~ (n <= m)
      BY <1>4
    <3> QED BY <2>1, <3>1
  <2>3. Cardinality(A) <= Cardinality(B) /\ Cardinality(A) # Cardinality(B)
    BY <1>2, <2>2, FS_Subset
  <2> QED BY <1>3, <2>3
<1> QED BY <1>2, <1>3, <1>4 DEF Rank

\* The files a step leaves have the order they were written in, and ranks for mtimes.
LEMMA BecomesOrder ==
  ASSUME NEW dk \in Replicas, Becomes(dk)
  PROVE  /\ Dense(disk')
         /\ \A d, e \in Device, p, q \in Path :
              dk[d][p] # Missing /\ dk[e][q] # Missing /\ dk[d][p].mtime < dk[e][q].mtime
                => disk'[d][p].mtime < disk'[e][q].mtime
<1> DEFINE T == Times(dk)
           U == Times(disk')
           f == [m \in T |-> Rank(T, m)]
<1>1. /\ IsFiniteSet(T) /\ T \in SUBSET Nat
      /\ \A d \in Device, p \in Path : dk[d][p] # Missing => dk[d][p].mtime \in T
      /\ \A t \in T : \E d \in Device, p \in Path : dk[d][p] # Missing /\ t = dk[d][p].mtime
  BY TimesFinite
<1>2. disk' = Ranked(dk, T)
  BY DEF Becomes
<1>3. /\ disk' \in Replicas
      /\ \A d \in Device, p \in Path : disk'[d][p] = Missing <=> dk[d][p] = Missing
  BY BecomesSame
<1>4. /\ \A d \in Device, p \in Path : disk'[d][p] # Missing => disk'[d][p].mtime \in U
      /\ \A t \in U : \E d \in Device, p \in Path : disk'[d][p] # Missing /\ t = disk'[d][p].mtime
  BY <1>3, TimesFinite
<1> HIDE DEF T, U
<1>5. ASSUME NEW d \in Device, NEW p \in Path, dk[d][p] # Missing
      PROVE  disk'[d][p].mtime = f[dk[d][p].mtime]
  <2>1. dk[d][p] \in File
    BY <1>5 DEF Replicas
  <2>2. disk'[d][p] = [dk[d][p] EXCEPT !.mtime = Rank(T, dk[d][p].mtime)]
    BY <1>2, <1>5 DEF Ranked, Rank
  <2> QED BY <1>1, <1>5, <2>1, <2>2 DEF File
<1>6. \A m, n \in T : f[m] \in Nat /\ f[m] <= Cardinality(T) /\ (m < n => f[m] < f[n])
  BY <1>1, RankOrder
<1>7. f \in Bijection(T, U)
  <2>1. \A m \in T : f[m] \in U
    <3> TAKE m \in T
    <3>1. PICK d \in Device, p \in Path : dk[d][p] # Missing /\ m = dk[d][p].mtime
      BY <1>1
    <3> HIDE DEF f
    <3> QED BY <1>3, <1>4, <1>5, <3>1
  <2>2. \A t \in U : \E m \in T : f[m] = t
    <3> TAKE t \in U
    <3>1. PICK d \in Device, p \in Path : disk'[d][p] # Missing /\ t = disk'[d][p].mtime
      BY <1>4
    <3> HIDE DEF f
    <3> QED BY <1>1, <1>3, <1>5, <3>1
  <2>3. \A m, n \in T : f[m] = f[n] => m = n
    <3> SUFFICES ASSUME NEW m \in T, NEW n \in T, m # n PROVE f[m] # f[n]
      OBVIOUS
    <3>1. m \in Nat /\ n \in Nat
      BY <1>1
    <3>2. f[m] \in Nat /\ f[n] \in Nat /\ (m < n => f[m] < f[n]) /\ (n < m => f[n] < f[m])
      BY <1>6
    <3> HIDE DEF f
    <3> QED BY <3>1, <3>2
  <2>4. f \in [T -> U]
    BY <2>1
  <2> HIDE DEF f
  <2> QED BY <2>2, <2>3, <2>4 DEF Bijection, Injection, Surjection, IsInjective
<1>8. Cardinality(U) = Cardinality(T)
  BY <1>1, <1>7, FS_Bijection DEF ExistsBijection
<1> HIDE DEF f
<1>9. Dense(disk')
  BY <1>1, <1>3, <1>5, <1>6, <1>8 DEF Dense, U
<1> QED BY <1>1, <1>5, <1>6, <1>9

\* What a device's index says of its files.
LEMMA SnapshotOf ==
  ASSUME disk \in Replicas, NEW d \in Device, NEW id \in DeviceId,
         NEW snap, snap = IndexToSnapshot(Scan(d), id)
  PROVE  /\ snap \in Snapshot
         /\ \A p \in Path :
              /\ snap[p] = Missing <=> disk[d][p] = Missing
              /\ disk[d][p] # Missing =>
                   /\ snap[p].hash = disk[d][p].data
                   /\ snap[p].version = SingleVersion(id, disk[d][p].mtime)
<1> DEFINE x == Scan(d)
<1>1. ASSUME NEW p \in Path
      PROVE  /\ x[p] \in IndexEntry \cup {Missing}
             /\ x[p] = Missing <=> disk[d][p] = Missing
             /\ disk[d][p] # Missing =>
                  x[p].hash = disk[d][p].data /\ x[p].mtime = disk[d][p].mtime
  <2>1. CASE disk[d][p] = Missing
    BY <2>1 DEF Scan
  <2>2. CASE disk[d][p] # Missing
    <3>1. disk[d][p] \in File
      BY <2>2 DEF Replicas
    <3>2. x[p] = [hash |-> disk[d][p].data, mtime |-> disk[d][p].mtime]
      BY <2>2 DEF Scan
    <3>3. x[p] \in IndexEntry
      BY <3>1, <3>2 DEF File, IndexEntry
    <3> QED BY <2>2, <3>2, <3>3, MissingAssumption
  <2> QED BY <2>1, <2>2
<1>2. x \in Index
  BY <1>1 DEF Scan, Index
<1> HIDE DEF x
<1>3. snap \in Snapshot
  BY <1>2, IndexToSnapshotType DEF x
<1>4. ASSUME NEW p \in Path
      PROVE  /\ snap[p] = Missing <=> disk[d][p] = Missing
             /\ disk[d][p] # Missing =>
                  /\ snap[p].hash = disk[d][p].data
                  /\ snap[p].version = SingleVersion(id, disk[d][p].mtime)
  <2>1. snap[p] = IF x[p] = Missing THEN Missing
          ELSE [hash |-> x[p].hash, version |-> SingleVersion(id, x[p].mtime)]
    BY DEF IndexToSnapshot, x
  <2>2. x[p] # Missing =>
          [hash |-> x[p].hash, version |-> SingleVersion(id, x[p].mtime)] \in SnapshotEntry
    BY <1>1, StampedEntry
  <2> QED BY <1>1, <2>1, <2>2, MissingAssumption
<1> QED BY <1>3, <1>4

\* A session that addresses the server by its own id: the later mtime wins, and
\* the server where there is none.
LEMMA NewerWins ==
  ASSUME disk \in Replicas, NEW c \in Device, NEW s \in Device, NEW p \in Path,
         NEW r, r = Outcome(c, s, Id[s])[p]
  PROVE  /\ disk[c][p] # Missing /\ disk[s][p] = Missing
              => r # Missing /\ r.hash = disk[c][p].data
         /\ disk[s][p] # Missing /\ disk[c][p] = Missing
              => r # Missing /\ r.hash = disk[s][p].data
         /\ disk[c][p] # Missing /\ disk[s][p] # Missing
              => /\ r # Missing /\ r.hash \in {disk[c][p].data, disk[s][p].data}
                 /\ disk[c][p].mtime > disk[s][p].mtime => r.hash = disk[c][p].data
                 /\ ~ disk[c][p].mtime > disk[s][p].mtime => r.hash = disk[s][p].data
<1> DEFINE cs == ClientSnap(c, Id[s])
           ss == ServerSnap(s)
<1>0. Id[s] \in DeviceId
  BY FolderSyncAssumption
<1>1. /\ cs[p] = Missing <=> disk[c][p] = Missing
      /\ disk[c][p] # Missing => /\ cs[p].hash = disk[c][p].data
                                 /\ cs[p].version = SingleVersion(Id[s], disk[c][p].mtime)
  BY <1>0, SnapshotOf DEF ClientSnap
<1>2. /\ ss[p] = Missing <=> disk[s][p] = Missing
      /\ disk[s][p] # Missing => /\ ss[p].hash = disk[s][p].data
                                 /\ ss[p].version = SingleVersion(Id[s], disk[s][p].mtime)
  BY <1>0, SnapshotOf DEF ServerSnap
<1>3. r = IF LocalWins(cs[p], ss[p]) \/ Only(cs[p], ss[p]) THEN cs[p] ELSE ss[p]
  BY DEF Outcome, Merged, ClientPush, SessionPlan, PlanFor
<1> HIDE DEF cs, ss
<1>4. CASE disk[c][p] = Missing \/ disk[s][p] = Missing
  BY <1>1, <1>2, <1>3, <1>4 DEF LocalWins, Diverges, Only
<1>5. CASE disk[c][p] # Missing /\ disk[s][p] # Missing
  <2> DEFINE m == disk[c][p].mtime
             n == disk[s][p].mtime
  <2>1. m \in Nat /\ n \in Nat
    <3>1. disk[c][p] \in File /\ disk[s][p] \in File
      BY <1>5 DEF Replicas
    <3> QED BY <3>1 DEF File
  <2> HIDE DEF m, n
  <2>2. Dominates(SingleVersion(Id[s], m), SingleVersion(Id[s], n)) <=> m > n
    BY <1>0, <2>1 DEF Dominates, SingleVersion, NewVersion
  <2>3. LocalWins(cs[p], ss[p]) <=> disk[c][p].data # disk[s][p].data /\ m > n
    BY <1>1, <1>2, <1>5, <2>2 DEF LocalWins, Diverges, m, n
  <2>4. ~ Only(cs[p], ss[p])
    BY <1>2, <1>5 DEF Only
  <2> QED BY <1>1, <1>2, <1>3, <1>5, <2>3, <2>4 DEF m, n
<1> QED BY <1>4, <1>5

\* A path that a session of c and s settled: both ends have the file of one of them.
Settled(c, s, p) ==
  IF disk[c][p] = Missing /\ disk[s][p] = Missing
  THEN \A d \in {c, s} : disk'[d][p] = Missing
  ELSE \E x \in {c, s} :
         /\ disk[x][p] # Missing
         /\ \A d \in {c, s} : disk'[d][p] # Missing /\ disk'[d][p].data = disk[x][p].data

\* A session leaves its two ends with the contents of its outcome, at the paths it
\* got to, and every file it does not relay as it was, but for the ranks.
LEMMA TransferLeaves ==
  ASSUME disk \in Replicas, NEW c \in Device, NEW s \in Device, c # s, NEW id \in DeviceId,
         NEW done \in SUBSET Path, Transfer(c, s, id, done)
  PROVE  /\ disk' \in Replicas
         /\ \A d \in {c, s}, p \in done : Outcome(c, s, id)[p] # Missing =>
              disk'[d][p] # Missing /\ disk'[d][p].data = Outcome(c, s, id)[p].hash
         /\ \A p \in done : Settled(c, s, p)
         /\ \A d \in Device, p \in Path : (d \in {c, s} /\ p \in done) \/ Same(d, p)
         /\ done = Path => Equal(c, s)' /\ Equal(s, c)'
         /\ \E dk \in Replicas :
              /\ Becomes(dk)
              /\ \A d \in Device, p \in Path : <<d, p>> \notin relayed' =>
                   <<d, p>> \notin relayed /\ dk[d][p] = disk[d][p]
<1> DEFINE cs == ClientSnap(c, id)
           ss == ServerSnap(s)
           result == Outcome(c, s, id)
           After(d) == [p \in Path |-> IF p \in done THEN Received(d, p, result[p])
                                       ELSE disk[d][p]]
           dk == [disk EXCEPT ![c] = After(c), ![s] = After(s)]
<1>1. /\ Becomes(dk)
      /\ relayed' = relayed \cup {e \in {c, s} \X Path : dk[e[1]][e[2]] # disk[e[1]][e[2]]}
  <2> DEFINE Left(x) ==
               /\ Becomes(x)
               /\ relayed' = relayed \cup {e \in {c, s} \X Path : x[e[1]][e[2]] # disk[e[1]][e[2]]}
             Step(r) == LET A(d) == [p \in Path |-> IF p \in done THEN Received(d, p, r[p])
                                                     ELSE disk[d][p]]
                        IN \E x \in {[disk EXCEPT ![c] = A(c), ![s] = A(s)]} : Left(x)
  <2>1. \E r \in {result} : Step(r)
    BY DEF Transfer
  <2>2. Step(result)
    <3> HIDE DEF Step, result
    <3> QED BY <2>1
  <2>3. \E x \in {dk} : Left(x)
    <3> HIDE DEF Left, result
    <3> QED BY <2>2
  <2> HIDE DEF dk
  <2> QED BY <2>3
<1>2. ASSUME NEW d \in Device, NEW p \in Path, <<d, p>> \notin relayed'
      PROVE  <<d, p>> \notin relayed /\ dk[d][p] = disk[d][p]
  <2> HIDE DEF After
  <2>1. CASE d \notin {c, s}
    BY <1>1, <1>2, <2>1 DEF Replicas
  <2>2. CASE d \in {c, s}
    <3> DEFINE e == <<d, p>>
    <3>1. e \in {c, s} \X Path /\ e[1] = d /\ e[2] = p
      BY <2>2
    <3> HIDE DEF dk
    <3> QED BY <1>1, <1>2, <3>1
  <2> QED BY <2>1, <2>2
<1>3. cs \in Snapshot /\ ss \in Snapshot
  BY SnapshotOf, FolderSyncAssumption DEF ClientSnap, ServerSnap
<1>5. \A p \in Path : /\ cs[p] = Missing <=> disk[c][p] = Missing
                      /\ cs[p] # Missing => cs[p].hash = disk[c][p].data
                      /\ ss[p] = Missing <=> disk[s][p] = Missing
                      /\ ss[p] # Missing => ss[p].hash = disk[s][p].data
  BY SnapshotOf, FolderSyncAssumption DEF ClientSnap, ServerSnap
<1>6. result = Merged(cs, ss)
  BY DEF Outcome
<1> HIDE DEF cs, ss, result
<1>7. \A p \in Path : /\ result[p] \in {cs[p], ss[p]}
                      /\ (cs[p] # Missing \/ ss[p] # Missing) => result[p] # Missing
  BY <1>3, <1>6, MergedKeepsPaths
<1>8. \A p \in Path : result[p] # Missing => result[p].hash \in Content
  BY <1>3, <1>7 DEF Snapshot, SnapshotEntry
<1>9. ASSUME NEW d \in {c, s}, NEW p \in Path
      PROVE  /\ Received(d, p, result[p]) \in File \cup {Missing}
             /\ Received(d, p, result[p]) = Missing <=> result[p] = Missing
             /\ result[p] # Missing => Received(d, p, result[p]).data = result[p].hash
  <2>0. disk[d][p] \in File \cup {Missing} /\ JustNow \in Nat
    BY TimeNow DEF Replicas
  <2>1. CASE result[p] = Missing
    BY <1>5, <1>7, <2>0, <2>1 DEF Received
  <2>2. CASE result[p] # Missing /\ Has(d, p, result[p].hash)
    BY <2>0, <2>2 DEF Received, Has
  <2>3. CASE result[p] # Missing /\ ~ Has(d, p, result[p].hash)
    <3>1. Received(d, p, result[p]) = [data |-> result[p].hash, mtime |-> JustNow]
      BY <2>3 DEF Received
    <3>2. [data |-> result[p].hash, mtime |-> JustNow] \in File
      BY <1>8, <2>0, <2>3 DEF File
    <3> QED BY <2>3, <3>1, <3>2, FilesThere
  <2> QED BY <2>1, <2>2, <2>3
<1>10. dk \in Replicas /\ dk[c] = After(c) /\ dk[s] = After(s)
  <2>1. After(c) \in [Path -> File \cup {Missing}] /\ After(s) \in [Path -> File \cup {Missing}]
    BY <1>9 DEF Replicas
  <2> HIDE DEF After
  <2> QED BY <2>1 DEF Replicas
<1>11. /\ \A d \in {c, s}, p \in done : dk[d][p] = Received(d, p, result[p])
       /\ \A d \in Device, p \in Path : (d \in {c, s} /\ p \in done) \/ dk[d][p] = disk[d][p]
  <2>1. \A d \in {c, s}, p \in Path :
          dk[d][p] = IF p \in done THEN Received(d, p, result[p]) ELSE disk[d][p]
    BY <1>10
  <2>2. \A d \in Device \ {c, s} : dk[d] = disk[d]
    BY DEF Replicas
  <2> HIDE DEF dk
  <2> QED BY <2>1, <2>2
<1> HIDE DEF dk
<1>12. /\ disk' \in Replicas
       /\ \A d \in Device, p \in Path :
            /\ disk'[d][p] = Missing <=> dk[d][p] = Missing
            /\ dk[d][p] # Missing => disk'[d][p].data = dk[d][p].data
  BY <1>1, <1>10, BecomesSame
<1>13. \A d \in {c, s}, p \in done :
         /\ disk'[d][p] = Missing <=> result[p] = Missing
         /\ result[p] # Missing => disk'[d][p].data = result[p].hash
  BY <1>9, <1>11, <1>12
<1>14. done = Path => Equal(c, s)' /\ Equal(s, c)'
  BY <1>13 DEF Equal
<1>15. ASSUME NEW p \in done PROVE Settled(c, s, p)
  BY <1>5, <1>7, <1>13 DEF Settled
<1>16. ASSUME NEW d \in Device, NEW p \in Path, ~ (d \in {c, s} /\ p \in done)
       PROVE  Same(d, p)
  BY <1>11, <1>12, <1>16 DEF Same
<1>17. \E x \in Replicas :
         /\ Becomes(x)
         /\ \A d \in Device, p \in Path : <<d, p>> \notin relayed' =>
              <<d, p>> \notin relayed /\ x[d][p] = disk[d][p]
  BY <1>1, <1>2, <1>10
<1> QED BY <1>12, <1>13, <1>14, <1>15, <1>16, <1>17 DEF result

-----------------------------------------------------------------------------
(***************************************************************************)
(* Loops.                                                                  *)
(***************************************************************************)
\* A link has two ends, and the link back has the same.
LEMMA Ends ==
  ASSUME NEW l \in Links
  PROVE  /\ l[1] \in Device /\ l[2] \in Device /\ l[1] # l[2]
         /\ Reverse(l)[1] = l[2] /\ Reverse(l)[2] = l[1] /\ Reverse(Reverse(l)) = l
BY FolderSyncAssumption DEF Reverse

\* Two devices that no step reaches are as equal as before.
LEMMA UnchangedEqual ==
  ASSUME NEW d \in Device \ Changed, NEW e \in Device \ Changed, Equal(d, e)
  PROVE  Equal(d, e)'
BY DEF Changed, Same, Equal

\* Every session of a watch, and of a user, moves files over its link.
LEMMA WatchTransfers ==
  ASSUME NEW l \in Watched, WatchSession(l) \/ WatchCut(l)
  PROVE  /\ l \in Links /\ Anonymous \in DeviceId
         /\ InSession(l) /\ \E after \in {Back(l), Hung(l)} : Events(after, {l[1], l[2]})
         /\ \E done \in SUBSET Path : Transfer(l[1], l[2], Anonymous, done)
BY WatchAssumption DEF WatchSession, WatchCut

LEMMA UserTransfers ==
  ASSUME NEW l \in Links, UserSync(l) \/ UserSyncCut(l)
  PROVE  /\ Id[l[2]] \in DeviceId
         /\ \E done \in SUBSET Path : Transfer(l[1], l[2], Id[l[2]], done)
BY Ends, FolderSyncAssumption DEF UserSync, UserSyncCut

\* A step of the file system, which brings the two ends of the links in S in step
\* and lets every loop be, but for those in S and in M and for the event: a watch
\* that is there gets the event, one that is not misses it; so do those in M.
LEMMA EventsAgree ==
  ASSUME AgreeInv, NEW S, \A k \in S : Reverse(k) \in S /\ Equal(k[1], k[2])',
         NEW M, NEW after \in [Watched -> States],
         \A k \in Watched \ (S \cup M) : after[k] = loop[k],
         NEW busy, Events(after, busy), disk' \in Replicas,
         M \subseteq missed', \A k \in Watched \ S : k \in missed \/ Unseen(k) => k \in missed'
  PROVE  AgreeInv'
<1>1. loop' = [k \in Watched |-> IF k[1] \in Changed THEN Queued(after[k]) ELSE after[k]]
  BY DEF Events
<1>2. \A a \in States : Queued(a) \in States /\ (Queued(a) \in {"off", "idle"} => a = "off")
  BY DEF Queued, States
<1>3. loop' \in [Watched -> States]
  BY <1>1, <1>2
<1>4. ASSUME NEW k \in Watched, k \notin S, Resting(k)'
      PROVE  Resting(k) /\ k[1] \notin Changed
  <2>1. k \notin missed /\ ~ Unseen(k) /\ k \notin M
    BY <1>4 DEF Resting
  <2>2. loop'[k] = IF k[1] \in Changed THEN Queued(loop[k]) ELSE loop[k]
    BY <1>1, <1>4, <2>1
  <2>3. loop[k] \in States
    BY DEF AgreeInv
  <2> QED BY <1>2, <1>4, <2>1, <2>2, <2>3 DEF Resting, Unseen
<1>5. ASSUME NEW k \in Watched, Reverse(k) \in Watched, Resting(k)', Resting(Reverse(k))'
      PROVE  Equal(k[1], k[2])'
  <2>0. /\ k \in Links /\ k[1] \in Device /\ k[2] \in Device
        /\ Reverse(k)[1] = k[2] /\ Reverse(Reverse(k)) = k
    BY WatchAssumption, Ends
  <2>1. CASE k \in S
    BY <2>1
  <2>2. CASE k \notin S
    <3>1. Reverse(k) \notin S
      BY <2>0, <2>2
    <3>2. Resting(k) /\ Resting(Reverse(k)) /\ k[1] \notin Changed /\ k[2] \notin Changed
      BY <1>4, <1>5, <2>0, <2>2, <3>1
    <3>3. Equal(k[1], k[2])
      BY <1>5, <3>2 DEF AgreeInv
    <3> QED BY <2>0, <3>2, <3>3, UnchangedEqual
  <2> QED BY <2>1, <2>2
<1> QED BY <1>3, <1>5 DEF AgreeInv

\* A step of the file system after which nothing is known of any link.
LEMMA NothingAgrees ==
  ASSUME AgreeInv, NEW M, NEW after \in [Watched -> States],
         \A k \in Watched \ M : after[k] = loop[k],
         NEW busy, Events(after, busy), disk' \in Replicas,
         M \subseteq missed', \A k \in Watched : k \in missed \/ Unseen(k) => k \in missed'
  PROVE  AgreeInv'
<1> DEFINE S == {}
<1>1. /\ \A k \in S : Reverse(k) \in S /\ Equal(k[1], k[2])'
      /\ \A k \in Watched \ (S \cup M) : after[k] = loop[k]
      /\ \A k \in Watched \ S : k \in missed \/ Unseen(k) => k \in missed'
  OBVIOUS
<1> HIDE DEF S
<1> QED BY <1>1, EventsAgree

\* A session of l that completes, however it is started.
LEMMA SessionAgrees ==
  ASSUME AgreeInv, NEW l \in Links, NEW id \in DeviceId, Transfer(l[1], l[2], id, Path),
         NEW after \in [Watched -> States],
         \A k \in Watched \ {l, Reverse(l)} : after[k] = loop[k],
         NEW busy, Events(after, busy), Misses({l, Reverse(l)})
  PROVE  AgreeInv'
<1>1. disk' \in Replicas /\ Equal(l[1], l[2])' /\ Equal(l[2], l[1])'
  BY Ends, TransferLeaves DEF AgreeInv
<1>2. \A k \in {l, Reverse(l)} : Reverse(k) \in {l, Reverse(l)} /\ Equal(k[1], k[2])'
  BY <1>1, Ends
<1>3. \A k \in Watched \ {l, Reverse(l)} : k \in missed \/ Unseen(k) => k \in missed'
  BY DEF Misses
<1> QED BY <1>1, <1>2, <1>3, EventsAgree

\* The loop of l changes and no file does.
LEMMA LoopStep ==
  ASSUME AgreeInv, NEW l \in Watched, NEW a \in States, loop' = [loop EXCEPT ![l] = a],
         UNCHANGED folderVars, missed \subseteq missed',
         a \in {"off", "idle"} => loop[l] \in {"off", "idle"} \/ l \in missed'
  PROVE  AgreeInv'
<1>1. disk' \in Replicas /\ loop' \in [Watched -> States] /\ loop'[l] = a
      /\ \A k \in Watched \ {l} : loop'[k] = loop[k]
  BY DEF AgreeInv, folderVars
<1>2. \A k \in Watched : Resting(k)' => Resting(k)
  BY <1>1 DEF Resting
<1>3. ASSUME NEW k \in Watched, Reverse(k) \in Watched, Resting(k)', Resting(Reverse(k))'
      PROVE  Equal(k[1], k[2])'
  <2>1. Equal(k[1], k[2])
    BY <1>2, <1>3 DEF AgreeInv
  <2> QED BY <2>1 DEF Equal, folderVars
<1> QED BY <1>1, <1>3 DEF AgreeInv

\* The loop after its session, or in one that hangs.
LEMMA BackType ==
  ASSUME AgreeInv, NEW l \in Watched, NEW after \in {Back(l), Hung(l)}
  PROVE  /\ after \in [Watched -> States] /\ after = [loop EXCEPT ![l] = after[l]]
         /\ \A k \in Watched \ {l} : after[k] = loop[k]
BY DEF AgreeInv, Back, Hung, States

\* Everything that can happen.
LEMMA AgreeStep ==
  ASSUME AgreeInv, [WatchNext]_vars
  PROVE  AgreeInv'
<1>1. ASSUME NEW l \in Watched, StartWatch(l) PROVE AgreeInv'
  <2>1. /\ loop' = [loop EXCEPT ![l] = "idle"] /\ loop[l] = "off"
        /\ UNCHANGED folderVars /\ missed' = missed
    BY <1>1 DEF StartWatch
  <2> QED BY <2>1, LoopStep DEF States
<1>2. ASSUME NEW l \in Watched, StopWatch(l) PROVE AgreeInv'
  <2>0. UNCHANGED folderVars
    BY <1>2 DEF StopWatch
  <2>1. CASE loop[l] = "idle" /\ loop' = [loop EXCEPT ![l] = "off"] /\ missed' = missed
    BY <2>0, <2>1, LoopStep DEF States
  <2>2. CASE loop' = [loop EXCEPT ![l] = "off"] /\ missed' = missed \cup {l}
    BY <2>0, <2>2, LoopStep DEF States
  <2>3. CASE loop' = [loop EXCEPT ![l] = "last"] /\ missed \subseteq missed'
    BY <2>0, <2>3, LoopStep DEF States
  <2> QED BY <1>2, <2>1, <2>2, <2>3 DEF StopWatch
<1>3. ASSUME NEW l \in Watched, Drain(l) PROVE AgreeInv'
  <2>1. /\ loop' = [loop EXCEPT ![l] = "sync"] /\ UNCHANGED folderVars /\ missed' = missed
    BY <1>3 DEF Drain
  <2> QED BY <2>1, LoopStep DEF States
<1>4. ASSUME NEW l \in Watched, WatchSession(l) PROVE AgreeInv'
  <2>1. /\ l \in Links /\ Anonymous \in DeviceId /\ Transfer(l[1], l[2], Anonymous, Path)
        /\ Events(Back(l), {l[1], l[2]}) /\ Misses({l, Reverse(l)})
    BY <1>4, WatchAssumption DEF WatchSession
  <2>2. /\ Back(l) \in [Watched -> States]
        /\ \A k \in Watched \ {l, Reverse(l)} : Back(l)[k] = loop[k]
    BY BackType
  <2> QED BY <2>1, <2>2, SessionAgrees
<1>5. ASSUME NEW l \in Watched, WatchFails(l) PROVE AgreeInv'
  <2>1. loop' = Back(l) /\ missed' = missed \cup {l} /\ UNCHANGED folderVars
    BY <1>5 DEF WatchFails
  <2>2. loop' = [loop EXCEPT ![l] = loop'[l]] /\ loop'[l] \in States
    BY <2>1, BackType
  <2> QED BY <2>1, <2>2, LoopStep
<1>6. ASSUME NEW l \in Links, UserSync(l) PROVE AgreeInv'
  <2>1. /\ Id[l[2]] \in DeviceId /\ Transfer(l[1], l[2], Id[l[2]], Path)
        /\ Events(loop, {l[1], l[2]}) /\ Misses({l, Reverse(l)})
    BY <1>6, Ends, FolderSyncAssumption DEF UserSync
  <2> QED BY <2>1, SessionAgrees DEF AgreeInv
<1>7. ASSUME NEW d \in Device, NEW p \in Path, UserEdit(d, p) PROVE AgreeInv'
  <2>1. ASSUME NEW f \in File \cup {Missing}, Becomes([disk EXCEPT ![d][p] = f])
        PROVE  disk' \in Replicas
    <3>1. [disk EXCEPT ![d][p] = f] \in Replicas
      BY DEF AgreeInv, Replicas
    <3> QED BY <2>1, <3>1, BecomesSame
  <2>2. disk' \in Replicas
    <3>1. CASE UserDelete(d, p)
      BY <2>1, <3>1 DEF UserDelete
    <3>2. ASSUME NEW c \in Content, UserWrite(d, p, c) PROVE disk' \in Replicas
      <4>1. [data |-> c, mtime |-> JustNow] \in File
        BY TimeNow DEF AgreeInv, File
      <4> QED BY <2>1, <3>2, <4>1 DEF UserWrite
    <3> QED BY <1>7, <3>1, <3>2 DEF UserEdit
  <2>3. /\ Events(loop, {}) /\ loop \in [Watched -> States]
        /\ \A k \in Watched : k \in missed \/ Unseen(k) => k \in missed'
    BY <1>7 DEF UserEdit, AgreeInv, Misses
  <2> QED BY <2>2, <2>3, NothingAgrees
<1>8. CASE UNCHANGED vars
  BY <1>8 DEF vars, folderVars, watchVars, AgreeInv, Resting, Equal
<1>9. ASSUME NEW l \in Watched, WatchCut(l) PROVE AgreeInv'
  <2>1. PICK done \in SUBSET Path : Transfer(l[1], l[2], Anonymous, done)
    BY <1>9 DEF WatchCut
  <2>2. /\ l \in Links /\ Anonymous \in DeviceId
        /\ missed' = missed \cup {l} \cup {k \in Watched : Unseen(k)}
    BY <1>9, WatchAssumption DEF WatchCut
  <2>3. disk' \in Replicas
    BY <2>1, <2>2, Ends, TransferLeaves DEF AgreeInv
  <2>4. PICK after \in {Back(l), Hung(l)} : Events(after, {l[1], l[2]})
    BY <1>9 DEF WatchCut
  <2>5. after \in [Watched -> States] /\ \A k \in Watched \ {l} : after[k] = loop[k]
    BY BackType
  <2>6. {l} \subseteq missed' /\ \A k \in Watched : k \in missed \/ Unseen(k) => k \in missed'
    BY <2>2
  <2> QED BY <2>3, <2>4, <2>5, <2>6, NothingAgrees
<1>10. ASSUME NEW l \in Links, UserSyncCut(l) PROVE AgreeInv'
  <2>1. PICK done \in SUBSET Path : Transfer(l[1], l[2], Id[l[2]], done)
    BY <1>10 DEF UserSyncCut
  <2>2. Id[l[2]] \in DeviceId /\ Events(loop, {l[1], l[2]}) /\ Misses({})
    BY <1>10, Ends, FolderSyncAssumption DEF UserSyncCut
  <2>3. disk' \in Replicas
    BY <2>1, <2>2, Ends, TransferLeaves DEF AgreeInv
  <2>4. loop \in [Watched -> States]
        /\ \A k \in Watched : k \in missed \/ Unseen(k) => k \in missed'
    BY <2>2 DEF AgreeInv, Misses
  <2> QED BY <2>2, <2>3, <2>4, NothingAgrees
<1> QED BY <1>1, <1>2, <1>3, <1>4, <1>5, <1>6, <1>7, <1>8, <1>9, <1>10 DEF WatchNext

\* No link is at rest before its first session.
LEMMA AgreeStart == WatchInit => AgreeInv
<1> SUFFICES ASSUME WatchInit PROVE AgreeInv
  OBVIOUS
<1>1. disk \in Replicas
  <2>1. PICK file \in [Path -> [data : Content, mtime : {1}] \cup {Missing}] :
          disk = [d \in Device |-> file]
    BY DEF WatchInit, FolderInit
  <2> QED BY <2>1 DEF Replicas, File
<1>2. loop \in [Watched -> States] /\ \A l \in Watched : ~ Resting(l)
  BY DEF WatchInit, States, Resting
<1> QED BY <1>1, <1>2 DEF AgreeInv

\* "keep syncing on every change", for any devices, links and edits: two devices
\* that watch each other hold the same files whenever both loops wait, unless a
\* change fell into a time without a watch or a session failed since.
THEOREM WatchesAgree == WatchSpec => []IdleWatchesAgree
<1>1. WatchInit => AgreeInv
  BY AgreeStart
<1>2. AgreeInv /\ [WatchNext]_vars => AgreeInv'
  BY AgreeStep
<1>3. AgreeInv => IdleWatchesAgree
  BY DEF AgreeInv, IdleWatchesAgree, Resting
<1> QED BY <1>1, <1>2, <1>3, PTL DEF WatchSpec

-----------------------------------------------------------------------------
(***************************************************************************)
(* The last edit.                                                          *)
(***************************************************************************)
\* Files that a step does not relay keep their order.
LEMMA RelayStep ==
  ASSUME NewestInv, latest' = latest, edits' = edits, NEW dk \in Replicas, Becomes(dk),
         \A d \in Device, p \in Path : <<d, p>> \notin relayed' =>
           <<d, p>> \notin relayed /\ dk[d][p] = disk[d][p]
  PROVE  NewestInv'
<1>1. /\ disk' \in Replicas
      /\ \A d \in Device, p \in Path :
           /\ disk'[d][p] = Missing <=> dk[d][p] = Missing
           /\ dk[d][p] # Missing => disk'[d][p].data = dk[d][p].data
  BY BecomesSame
<1>2. /\ Dense(disk')
      /\ \A d, e \in Device, p, q \in Path :
           dk[d][p] # Missing /\ dk[e][q] # Missing /\ dk[d][p].mtime < dk[e][q].mtime
             => disk'[d][p].mtime < disk'[e][q].mtime
  BY BecomesOrder
<1>3. ASSUME NEW d \in Device, NEW e \in Device, NEW p \in Path,
             Keeps(d, p)', e # d, disk'[e][p] # Missing, <<e, p>> \notin relayed'
      PROVE  disk'[e][p].mtime < disk'[d][p].mtime
  <2>1. /\ <<d, p>> \notin relayed' /\ disk'[d][p] # Missing
        /\ latest[p].by = d /\ disk'[d][p].data = latest[p].data
    BY <1>3 DEF Keeps, Has
  <2>2. Keeps(d, p) /\ dk[d][p] = disk[d][p] /\ dk[d][p] # Missing
    BY <1>1, <2>1 DEF Keeps, Has
  <2>3. <<e, p>> \notin relayed /\ dk[e][p] = disk[e][p] /\ dk[e][p] # Missing
    BY <1>1, <1>3
  <2>4. disk[e][p].mtime < disk[d][p].mtime
    BY <1>3, <2>2, <2>3 DEF NewestInv, LastIsNewest
  <2> QED BY <1>2, <2>2, <2>3, <2>4
<1>4. LastIsNewest'
  BY <1>3 DEF LastIsNewest
<1> QED BY <1>1, <1>2, <1>4 DEF NewestInv

\* The mtime of a file, and of one written now.
LEMMA NowIsLatest ==
  ASSUME NewestInv, NEW d \in Device, NEW p \in Path, disk[d][p] # Missing
  PROVE  disk[d][p].mtime \in Nat /\ disk[d][p].mtime < JustNow
<1>1. disk[d][p] \in File
  BY DEF NewestInv, Replicas
<1>2. disk[d][p].mtime \in Nat
  BY <1>1 DEF File
<1>3. disk[d][p].mtime <= Cardinality(Times(disk)) /\ Cardinality(Times(disk)) \in Nat
  BY TimesFinite DEF NewestInv, Dense
<1> QED BY <1>2, <1>3 DEF JustNow

\* A user's edit of p on d, c = Missing for a deletion.
LEMMA EditStep ==
  ASSUME NewestInv, NEW d \in Device, NEW p \in Path, NEW c \in Content \cup {Missing},
         NEW f, f = IF c = Missing THEN Missing ELSE [data |-> c, mtime |-> JustNow],
         Becomes([disk EXCEPT ![d][p] = f]),
         latest' = [latest EXCEPT ![p] = [by |-> d, data |-> c]],
         relayed' = relayed \ {<<d, p>>}, edits' = edits + 1
  PROVE  NewestInv'
<1> DEFINE dk == [disk EXCEPT ![d][p] = f]
<1>0. f \in File \cup {Missing} /\ (f = Missing <=> c = Missing)
      /\ (f # Missing => f.mtime = JustNow)
  <2>1. JustNow \in Nat
    BY TimeNow DEF NewestInv
  <2>2. c # Missing => [data |-> c, mtime |-> JustNow] \in File
    BY <2>1 DEF File
  <2> QED BY <2>2, FilesThere
<1>1. /\ dk \in Replicas /\ dk[d][p] = f
      /\ \A e \in Device, q \in Path : <<e, q>> # <<d, p>> => dk[e][q] = disk[e][q]
  BY <1>0 DEF NewestInv, Replicas
<1> HIDE DEF dk
<1>2. /\ disk' \in Replicas
      /\ \A e \in Device, q \in Path :
           /\ disk'[e][q] = Missing <=> dk[e][q] = Missing
           /\ dk[e][q] # Missing => disk'[e][q].data = dk[e][q].data
  BY <1>1, BecomesSame DEF dk
<1>3. /\ Dense(disk')
      /\ \A x, e \in Device, r, q \in Path :
           dk[x][r] # Missing /\ dk[e][q] # Missing /\ dk[x][r].mtime < dk[e][q].mtime
             => disk'[x][r].mtime < disk'[e][q].mtime
  BY <1>1, BecomesOrder DEF dk
<1>4. /\ latest'[p] = [by |-> d, data |-> c]
      /\ \A q \in Path \ {p} : latest'[q] = latest[q]
      /\ latest' \in [Path -> [by : Device \cup {Missing}, data : Content \cup {Missing}]]
  BY DEF NewestInv
<1>5. ASSUME NEW x \in Device, NEW e \in Device, NEW q \in Path,
             Keeps(x, q)', e # x, disk'[e][q] # Missing, <<e, q>> \notin relayed'
      PROVE  disk'[e][q].mtime < disk'[x][q].mtime
  <2>1. /\ <<x, q>> \notin relayed' /\ disk'[x][q] # Missing
        /\ latest'[q].by = x /\ disk'[x][q].data = latest'[q].data
    BY <1>5 DEF Keeps, Has
  <2>2. dk[x][q] # Missing /\ dk[e][q] # Missing
    BY <1>2, <1>5, <2>1
  <2>3. CASE q = p
    <3>1. x = d
      BY <1>4, <2>1, <2>3
    <3>2. dk[x][q].mtime = JustNow /\ dk[e][q] = disk[e][q]
      BY <1>0, <1>1, <1>5, <2>2, <2>3, <3>1
    <3>3. dk[e][q].mtime < dk[x][q].mtime
      BY <2>2, <3>2, NowIsLatest
    <3> QED BY <1>3, <2>2, <3>3
  <2>4. CASE q # p
    <3>1. dk[x][q] = disk[x][q] /\ dk[e][q] = disk[e][q] /\ latest'[q] = latest[q]
          /\ <<x, q>> \notin relayed /\ <<e, q>> \notin relayed
      BY <1>1, <1>4, <1>5, <2>1, <2>4
    <3>2. Keeps(x, q)
      BY <1>2, <2>1, <2>2, <3>1 DEF Keeps, Has
    <3>3. disk[e][q].mtime < disk[x][q].mtime
      BY <1>5, <2>2, <3>1, <3>2 DEF NewestInv, LastIsNewest
    <3> QED BY <1>3, <2>2, <3>1, <3>3
  <2> QED BY <2>3, <2>4
<1>6. LastIsNewest'
  BY <1>5 DEF LastIsNewest
<1> QED BY <1>2, <1>3, <1>4, <1>6 DEF NewestInv

\* Everything that can happen.
LEMMA NewestStep ==
  ASSUME NewestInv, [WatchNext]_vars
  PROVE  NewestInv'
<1>1. CASE UNCHANGED folderVars
  BY <1>1 DEF folderVars, NewestInv, Dense, Times, LastIsNewest, Keeps, Has
<1>2. ASSUME NEW l \in Links, NEW id \in DeviceId, NEW done \in SUBSET Path,
             Transfer(l[1], l[2], id, done)
      PROVE  NewestInv'
  <2>1. l[1] \in Device /\ l[2] \in Device /\ l[1] # l[2]
    BY Ends
  <2>2. PICK dk \in Replicas :
          /\ Becomes(dk)
          /\ \A d \in Device, p \in Path : <<d, p>> \notin relayed' =>
               <<d, p>> \notin relayed /\ dk[d][p] = disk[d][p]
    BY <1>2, <2>1, TransferLeaves DEF NewestInv
  <2>3. latest' = latest /\ edits' = edits
    BY <1>2 DEF Transfer
  <2> QED BY <2>2, <2>3, RelayStep
<1>3. ASSUME NEW d \in Device, NEW p \in Path, UserEdit(d, p) PROVE NewestInv'
  <2>1. CASE UserDelete(d, p)
    <3>1. /\ Becomes([disk EXCEPT ![d][p] = Missing])
          /\ latest' = [latest EXCEPT ![p] = [by |-> d, data |-> Missing]]
          /\ relayed' = relayed \ {<<d, p>>} /\ edits' = edits + 1
      BY <2>1 DEF UserDelete
    <3> QED BY <3>1, EditStep
  <2>2. ASSUME NEW c \in Content, UserWrite(d, p, c) PROVE NewestInv'
    <3>1. /\ Becomes([disk EXCEPT ![d][p] = [data |-> c, mtime |-> JustNow]])
          /\ latest' = [latest EXCEPT ![p] = [by |-> d, data |-> c]]
          /\ relayed' = relayed \ {<<d, p>>} /\ edits' = edits + 1
      BY <2>2 DEF UserWrite
    <3>2. c # Missing
      BY FolderSyncAssumption
    <3> QED BY <3>1, <3>2, EditStep
  <2> QED BY <1>3, <2>1, <2>2 DEF UserEdit
<1>4. ASSUME NEW l \in Watched, StartWatch(l) \/ StopWatch(l) \/ Drain(l) \/ WatchFails(l)
      PROVE  UNCHANGED folderVars
  BY <1>4 DEF StartWatch, StopWatch, Drain, WatchFails
<1>5. ASSUME NEW l \in Watched, WatchSession(l) \/ WatchCut(l) PROVE NewestInv'
  BY <1>2, <1>5, WatchTransfers
<1>6. ASSUME NEW l \in Links, UserSync(l) \/ UserSyncCut(l) PROVE NewestInv'
  BY <1>2, <1>6, UserTransfers
<1>7. CASE UNCHANGED vars
  BY <1>1, <1>7 DEF vars
<1> QED BY <1>1, <1>3, <1>4, <1>5, <1>6, <1>7 DEF WatchNext

\* At the start there was no edit.
LEMMA NewestStart == WatchInit => NewestInv
<1> SUFFICES ASSUME WatchInit PROVE NewestInv
  OBVIOUS
<1>1. PICK file \in [Path -> [data : Content, mtime : {1}] \cup {Missing}] :
        disk = [d \in Device |-> file]
  BY DEF WatchInit, FolderInit
<1>2. disk \in Replicas
  BY <1>1 DEF Replicas, File
<1>3. ASSUME NEW d \in Device, NEW p \in Path, disk[d][p] # Missing
      PROVE  disk[d][p].mtime <= Cardinality(Times(disk)) /\ disk[d][p].data \in Content
  <2>1. disk[d][p] \in [data : Content, mtime : {1}]
    BY <1>1, <1>3
  <2>2. disk[d][p].mtime = 1 /\ disk[d][p].data \in Content
    BY <2>1
  <2>3. Times(disk) # {} /\ IsFiniteSet(Times(disk)) /\ Cardinality(Times(disk)) \in Nat
    BY <1>2, <1>3, TimesFinite
  <2>4. Cardinality(Times(disk)) # 0
    BY <2>3, FS_EmptySet
  <2> QED BY <2>2, <2>3, <2>4
<1>4. edits = 0 /\ latest = [p \in Path |-> None]
  BY DEF WatchInit, FolderInit
<1>5. \A d \in Device, p \in Path : ~ Keeps(d, p)
  BY <1>3, <1>4, FolderSyncAssumption DEF Keeps, Has, None
<1>6. latest \in [Path -> [by : Device \cup {Missing}, data : Content \cup {Missing}]]
  BY <1>4 DEF None
<1> QED BY <1>2, <1>3, <1>4, <1>5, <1>6 DEF NewestInv, Dense, LastIsNewest

\* The order of the modification times, throughout.
LEMMA NewestHolds == WatchSpec => []NewestInv
<1>1. NewestInv /\ [WatchNext]_vars => NewestInv'
  BY NewestStep
<1> QED BY <1>1, NewestStart, PTL DEF WatchSpec

\* A session keeps the last edit of a path that it does not settle.
LEMMA UntouchedKeeps ==
  ASSUME NewestInv, NEW l \in Links, NEW id \in DeviceId, NEW done \in SUBSET Path,
         Transfer(l[1], l[2], id, done),
         NEW d \in Device, NEW p \in Path, Keeps(d, p), ~ (d \in {l[1], l[2]} /\ p \in done)
  PROVE  Has(d, p, latest[p].data)'
<1>1. l[1] \in Device /\ l[2] \in Device /\ l[1] # l[2]
  BY Ends
<1>2. latest' = latest
  BY DEF Transfer
<1>3. Same(d, p)
  BY <1>1, TransferLeaves DEF NewestInv
<1> QED BY <1>2, <1>3 DEF Keeps, Has, Same

\* A session under the server's own id that takes the last edit from its device:
\* the other end's file was relayed.
LEMMA LosesToRelayed ==
  ASSUME NewestInv, NEW l \in Links, NEW done \in SUBSET Path,
         Transfer(l[1], l[2], Id[l[2]], done),
         NEW d \in Device, NEW p \in Path, Keeps(d, p), ~ Has(d, p, latest[p].data)'
  PROVE  \E e \in Device : /\ <<e, p>> \in relayed /\ disk[e][p] # Missing
                           /\ disk'[d][p] # Missing
                           /\ disk'[d][p].data = disk[e][p].data
<1>0. latest' = latest
  BY DEF Transfer
<1> DEFINE c == l[1]
           s == l[2]
           r == Outcome(c, s, Id[s])[p]
<1>1. c \in Device /\ s \in Device /\ c # s /\ Id[s] \in DeviceId
  BY Ends, FolderSyncAssumption
<1>2. /\ disk[c][p] # Missing /\ disk[s][p] = Missing
           => r # Missing /\ r.hash = disk[c][p].data
      /\ disk[s][p] # Missing /\ disk[c][p] = Missing
           => r # Missing /\ r.hash = disk[s][p].data
      /\ disk[c][p] # Missing /\ disk[s][p] # Missing
           => /\ r # Missing /\ r.hash \in {disk[c][p].data, disk[s][p].data}
              /\ disk[c][p].mtime > disk[s][p].mtime => r.hash = disk[c][p].data
              /\ ~ disk[c][p].mtime > disk[s][p].mtime => r.hash = disk[s][p].data
  BY <1>1, NewerWins DEF NewestInv
<1>4. d \in {c, s} /\ p \in done
  BY <1>1, UntouchedKeeps
<1>3. \A x \in {c, s} : r # Missing => disk'[x][p] # Missing /\ disk'[x][p].data = r.hash
  BY <1>1, <1>4, TransferLeaves DEF NewestInv
<1> HIDE DEF c, s, r
<1>5. disk[d][p] # Missing /\ disk[d][p].data = latest[p].data /\ <<d, p>> \notin relayed
  BY DEF Keeps, Has
<1>6. PICK e \in {c, s} : e # d
  BY <1>1, <1>4
<1>7. disk[e][p] # Missing /\ r # Missing /\ r.hash = disk[e][p].data
      /\ disk[d][p].data # disk[e][p].data
  BY <1>0, <1>1, <1>2, <1>3, <1>4, <1>5, <1>6 DEF Has
<1>8. <<e, p>> \in relayed
  <2> SUFFICES ASSUME <<e, p>> \notin relayed PROVE FALSE
    OBVIOUS
  <2>1. disk[e][p].mtime < disk[d][p].mtime
    BY <1>1, <1>6, <1>7 DEF NewestInv, LastIsNewest
  <2>2. disk[e][p].mtime \in Nat /\ disk[d][p].mtime \in Nat
    BY <1>1, <1>5, <1>6, <1>7, NowIsLatest
  <2> QED BY <1>1, <1>2, <1>5, <1>4, <1>6, <1>7, <2>1, <2>2
<1>9. disk'[d][p] # Missing /\ disk'[d][p].data = disk[e][p].data
  BY <1>3, <1>4, <1>7
<1> QED BY <1>1, <1>6, <1>7, <1>8, <1>9

(***************************************************************************)
(* "newer-mtime-wins", for any devices, links, paths and edits: a session  *)
(* that addresses the server by its id takes the last edit of a path from  *)
(* the device that made it only for a copy that was relayed, and so looks  *)
(* newer than it is.                                                       *)
(***************************************************************************)
THEOREM LastEditKept == WatchSpec => NewestUnlessRelayed
<1>1. ASSUME NewestInv, loop \in [Watched -> States], [WatchNext]_vars,
             NEW d \in Device, NEW p \in Path, edits' = edits, pin' = pin,
             Keeps(d, p), ~ Has(d, p, latest[p].data)'
      PROVE  \/ \E l \in Watched : d \in {l[1], l[2]} /\ InSession(l) /\ loop'[l] # loop[l]
             \/ \E e \in Device : /\ <<e, p>> \in relayed /\ disk[e][p] # Missing
                                 /\ disk'[d][p] # Missing
                                 /\ disk'[d][p].data = disk[e][p].data
  <2>1. ~ UNCHANGED folderVars
    BY <1>1 DEF folderVars, Keeps, Has
  <2>2. ASSUME NEW l \in Watched, WatchSession(l) \/ WatchCut(l)
        PROVE  d \in {l[1], l[2]} /\ InSession(l) /\ loop'[l] # loop[l]
    <3>0. PICK after \in {Back(l), Hung(l)} : Events(after, {l[1], l[2]})
      BY <2>2, WatchTransfers
    <3>1. /\ l \in Links /\ Anonymous \in DeviceId /\ InSession(l)
          /\ \E done \in SUBSET Path : Transfer(l[1], l[2], Anonymous, done)
      BY <2>2, WatchTransfers
    <3>2. loop'[l] \in {after[l], Queued(after[l])}
      BY <3>0 DEF Events
    <3>3. after[l] \in {"due", "off", "idle", "hung"}
      BY <1>1, <3>0 DEF Back, Hung
    <3>4. loop'[l] # loop[l]
      BY <3>1, <3>2, <3>3 DEF InSession, Queued
    <3>5. ASSUME d \notin {l[1], l[2]} PROVE FALSE
      BY <1>1, <3>1, <3>5, UntouchedKeeps
    <3> QED BY <3>1, <3>4, <3>5
  <2>3. ASSUME NEW l \in Links, UserSync(l) \/ UserSyncCut(l)
        PROVE  \E e \in Device : /\ <<e, p>> \in relayed /\ disk[e][p] # Missing
                                 /\ disk'[d][p] # Missing
                                 /\ disk'[d][p].data = disk[e][p].data
    BY <1>1, <2>3, UserTransfers, LosesToRelayed
  <2>4. ASSUME NEW x \in Device, NEW q \in Path, UserEdit(x, q) PROVE FALSE
    <3>1. edits' = edits + 1
      BY <2>4 DEF UserEdit, UserDelete, UserWrite
    <3> QED BY <1>1, <3>1 DEF NewestInv
  <2>5. ASSUME NEW l \in Watched, StartWatch(l) \/ StopWatch(l) \/ Drain(l) \/ WatchFails(l)
        PROVE  FALSE
    BY <2>1, <2>5 DEF StartWatch, StopWatch, Drain, WatchFails
  <2>6. CASE UNCHANGED vars
    BY <2>1, <2>6 DEF vars
  <2> QED BY <1>1, <2>2, <2>3, <2>4, <2>5, <2>6 DEF WatchNext
<1>2. AgreeInv => loop \in [Watched -> States]
  BY DEF AgreeInv
<1>3. ASSUME NewestInv, AgreeInv, [WatchNext]_vars
      PROVE  [\A d \in Device, p \in Path :
                /\ edits' = edits /\ pin' = pin
                /\ latest[p].by = d /\ <<d, p>> \notin relayed
                /\ Has(d, p, latest[p].data) /\ ~ Has(d, p, latest[p].data)'
                => \/ \E l \in Watched : d \in {l[1], l[2]} /\ InSession(l) /\ loop'[l] # loop[l]
                   \/ \E e \in Device : /\ <<e, p>> \in relayed /\ disk[e][p] # Missing
                                       /\ disk'[d][p] # Missing
                                       /\ disk'[d][p].data = disk[e][p].data]_vars
  BY <1>1, <1>2, <1>3 DEF Keeps
<1>4. WatchSpec => []AgreeInv
  BY AgreeStep, AgreeStart, PTL DEF WatchSpec
<1> QED BY <1>2, <1>3, <1>4, NewestHolds, PTL DEF WatchSpec, NewestUnlessRelayed

-----------------------------------------------------------------------------
(***************************************************************************)
(* Deletions.                                                              *)
(***************************************************************************)
\* What a session changes it takes from the other end, which keeps it.
LEMMA SessionTakes ==
  ASSUME disk \in Replicas, NEW l \in Links, NEW id \in DeviceId, NEW done \in SUBSET Path,
         Transfer(l[1], l[2], id, done), NEW d \in Changed
  PROVE  TakenOver(d)
<1> DEFINE c == l[1]
           s == l[2]
<1>1. c \in Device /\ s \in Device /\ c # s
  BY Ends
<1>2. /\ \A p \in done : Settled(c, s, p)
      /\ \A x \in Device, p \in Path : (x \in {c, s} /\ p \in done) \/ Same(x, p)
  BY <1>1, TransferLeaves
<1>3. d \in {c, s}
  BY <1>1, <1>2 DEF Changed
<1> HIDE DEF c, s
<1>4. PICK e \in Device : {d, e} = {c, s} /\ e # d
  BY <1>1, <1>3
<1>5. ASSUME NEW p \in Path, ~ Same(d, p)
      PROVE  /\ disk[e][p] # Missing /\ Same(e, p)
             /\ disk'[d][p] # Missing /\ disk'[d][p].data = disk[e][p].data
  <2>1. p \in done /\ Settled(c, s, p)
    BY <1>2, <1>5 DEF Changed
  <2>2. ~ (disk[c][p] = Missing /\ disk[s][p] = Missing)
    BY <1>3, <1>5, <2>1 DEF Settled, Same
  <2>3. PICK x \in {c, s} :
          /\ disk[x][p] # Missing
          /\ \A y \in {c, s} : disk'[y][p] # Missing /\ disk'[y][p].data = disk[x][p].data
    BY <2>1, <2>2 DEF Settled
  <2>4. x # d
    BY <1>3, <1>5, <2>3 DEF Same
  <2>5. x = e
    BY <1>4, <2>4
  <2> QED BY <1>3, <1>4, <2>3, <2>5 DEF Same
<1> QED BY <1>4, <1>5 DEF c, s, TakenOver

\* A session that completes leaves both ends with every path either of them held.
LEMMA SessionUnites ==
  ASSUME disk \in Replicas, NEW l \in Links, NEW id \in DeviceId,
         Transfer(l[1], l[2], id, Path), NEW d \in {l[1], l[2]}
  PROVE  Held(d)' = Held(l[1]) \cup Held(l[2])
<1>1. \A p \in Path : Settled(l[1], l[2], p)
  BY Ends, TransferLeaves
<1> QED BY <1>1 DEF Held, Settled

\* An edit changes the device of its user only.
LEMMA EditChanges ==
  ASSUME NewestInv, NEW d \in Device, NEW p \in Path, NEW f \in File \cup {Missing},
         Becomes([disk EXCEPT ![d][p] = f])
  PROVE  Changed \subseteq {d}
<1> DEFINE dk == [disk EXCEPT ![d][p] = f]
<1>1. dk \in Replicas /\ \A e \in Device \ {d} : dk[e] = disk[e]
  BY DEF NewestInv, Replicas
<1> HIDE DEF dk
<1>2. \A e \in Device, q \in Path :
        /\ disk'[e][q] = Missing <=> dk[e][q] = Missing
        /\ dk[e][q] # Missing => disk'[e][q].data = dk[e][q].data
  BY <1>1, BecomesSame DEF dk
<1>3. ASSUME NEW e \in Device \ {d}, NEW q \in Path
      PROVE  Same(e, q)
  BY <1>1, <1>2 DEF Same
<1> QED BY <1>3 DEF Changed

\* An edit is counted, and changes its user's device only.
LEMMA UserChanges ==
  ASSUME NewestInv, NEW d \in Device, NEW p \in Path, UserEdit(d, p)
  PROVE  edits' = edits + 1 /\ Changed \subseteq {d}
<1>1. CASE UserDelete(d, p)
  BY <1>1, EditChanges DEF UserDelete
<1>2. ASSUME NEW c \in Content, UserWrite(d, p, c)
      PROVE  edits' = edits + 1 /\ Changed \subseteq {d}
  <2>1. [data |-> c, mtime |-> JustNow] \in File
    BY TimeNow DEF NewestInv, File
  <2> QED BY <1>2, <2>1, EditChanges DEF UserWrite
<1> QED BY <1>1, <1>2 DEF UserEdit

(***************************************************************************)
(* For any devices, links, paths and edits: only its user removes a file   *)
(* from a device; what a session changes, also one that is cut off, it     *)
(* takes from the other end, which keeps it; and once a link is not behind *)
(* any more, both its ends hold every path either of them held.            *)
(***************************************************************************)
THEOREM DeletedComesBack == WatchSpec => DeletionsReturn
<1>1. ASSUME NewestInv, [WatchNext]_vars, NEW d \in Changed
      PROVE  IF edits' = edits THEN TakenOver(d) ELSE Changed = {d}
  <2>1. disk' # disk
    BY <1>1 DEF Changed, Same
  <2>2. disk \in Replicas /\ edits \in Nat
    BY <1>1 DEF NewestInv
  <2>3. ASSUME NEW l \in Links, NEW id \in DeviceId, NEW done \in SUBSET Path,
               Transfer(l[1], l[2], id, done)
        PROVE  edits' = edits /\ TakenOver(d)
    <3>1. edits' = edits
      BY <2>3 DEF Transfer
    <3> QED BY <2>2, <2>3, <3>1, SessionTakes
  <2>4. ASSUME NEW u \in Device, NEW p \in Path, UserEdit(u, p)
        PROVE  edits' # edits /\ Changed = {d}
    <3>1. edits' = edits + 1 /\ Changed \subseteq {u}
      BY <1>1, <2>4, UserChanges
    <3> QED BY <2>2, <3>1
  <2>5. ASSUME NEW l \in Watched, StartWatch(l) \/ StopWatch(l) \/ Drain(l) \/ WatchFails(l)
        PROVE  FALSE
    BY <2>1, <2>5 DEF StartWatch, StopWatch, Drain, WatchFails, folderVars
  <2>6. CASE UNCHANGED vars
    BY <2>1, <2>6 DEF vars, folderVars
  <2>7. CASE \E l \in Watched : WatchSession(l) \/ WatchCut(l)
    BY <2>3, <2>7, WatchTransfers
  <2>8. CASE \E l \in Links : UserSync(l) \/ UserSyncCut(l)
    BY <2>3, <2>8, UserTransfers
  <2>9. CASE \E u \in Device, p \in Path : UserEdit(u, p)
    BY <2>4, <2>9
  <2> QED BY <1>1, <2>5, <2>6, <2>7, <2>8, <2>9 DEF WatchNext
<1>2. ASSUME NewestInv, [WatchNext]_vars, NEW l \in missed \ missed', NEW d \in Device,
             d \in {l[1], l[2]}
      PROVE  Held(d)' = Held(l[1]) \cup Held(l[2])
  <2>1. ASSUME NEW k \in Links, NEW id \in DeviceId, Transfer(k[1], k[2], id, Path),
               Misses({k, Reverse(k)})
        PROVE  Held(d)' = Held(l[1]) \cup Held(l[2])
    <3>1. l \in {k, Reverse(k)}
      BY <1>2, <2>1 DEF Misses
    <3>2. {l[1], l[2]} = {k[1], k[2]} /\ Held(l[1]) \cup Held(l[2]) = Held(k[1]) \cup Held(k[2])
      BY <3>1, Ends
    <3>3. d \in {k[1], k[2]}
      BY <1>2, <3>2
    <3>4. disk \in Replicas
      BY <1>2 DEF NewestInv
    <3>5. Held(d)' = Held(k[1]) \cup Held(k[2])
      BY <2>1, <3>3, <3>4, SessionUnites
    <3> QED BY <3>2, <3>5
  <2>2. ASSUME NEW k \in Watched, WatchSession(k)
        PROVE  Held(d)' = Held(l[1]) \cup Held(l[2])
    BY <2>1, <2>2, WatchAssumption DEF WatchSession
  <2>3. ASSUME NEW k \in Links, UserSync(k)
        PROVE  Held(d)' = Held(l[1]) \cup Held(l[2])
    BY <2>1, <2>3, Ends, FolderSyncAssumption DEF UserSync
  <2>4. ASSUME NEW k \in Watched,
               StartWatch(k) \/ StopWatch(k) \/ Drain(k) \/ WatchCut(k) \/ WatchFails(k)
        PROVE  missed \subseteq missed'
    BY <2>4 DEF StartWatch, StopWatch, Drain, WatchCut, WatchFails
  <2>5. ASSUME NEW k \in Links, UserSyncCut(k) PROVE missed \subseteq missed'
    BY <2>5 DEF UserSyncCut, Misses
  <2>6. ASSUME NEW u \in Device, NEW p \in Path, UserEdit(u, p) PROVE missed \subseteq missed'
    BY <2>6 DEF UserEdit, Misses
  <2>7. CASE UNCHANGED vars
    BY <1>2, <2>7 DEF vars, watchVars
  <2> QED BY <1>2, <2>2, <2>3, <2>4, <2>5, <2>6, <2>7 DEF WatchNext
<1>3. NewestInv /\ [WatchNext]_vars =>
        [/\ \A d \in Changed : IF edits' = edits THEN TakenOver(d) ELSE Changed = {d}
         /\ \A l \in missed \ missed', d \in Device :
              d \in {l[1], l[2]} => Held(d)' = Held(l[1]) \cup Held(l[2])]_vars
  BY <1>1, <1>2
<1> QED BY <1>3, NewestHolds, PTL DEF WatchSpec, DeletionsReturn
=============================================================================
