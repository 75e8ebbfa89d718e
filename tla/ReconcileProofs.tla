--------------------------- MODULE ReconcileProofs ---------------------------
(***************************************************************************)
(* What the reconciler guarantees for any two snapshots: the two ends of a *)
(* session compute mirrored plans, no path is planned twice, and what an   *)
(* undisturbed session leaves does not depend on which end is asked.       *)
(***************************************************************************)
EXTENDS Reconcile, TLAPS

\* A version never dominates itself, and never one that dominates it.
LEMMA DominatesAsymmetric ==
  ASSUME NEW v \in FileVersion, NEW w \in FileVersion, Dominates(v, w)
  PROVE  ~ Dominates(w, v)
BY DEF Dominates, FileVersion

\* A stamped entry is an entry of a snapshot.
LEMMA StampedEntry ==
  ASSUME NEW e \in IndexEntry, NEW dev \in DeviceId
  PROVE  [hash |-> e.hash, version |-> SingleVersion(dev, e.mtime)] \in SnapshotEntry
<1>1. e.hash \in Content /\ e.mtime \in Nat
  BY DEF IndexEntry
<1>2. SingleVersion(dev, e.mtime) \in FileVersion
  BY <1>1 DEF SingleVersion, NewVersion, FileVersion
<1> QED BY <1>1, <1>2 DEF SnapshotEntry

\* Stamping an index yields a snapshot.
LEMMA IndexToSnapshotType ==
  ASSUME NEW index \in Index, NEW dev \in DeviceId
  PROVE  IndexToSnapshot(index, dev) \in Snapshot
BY StampedEntry DEF Index, IndexToSnapshot, Snapshot

\* Who wins, seen from either side.
LEMMA OutcomesMirror ==
  ASSUME NEW l \in SnapshotEntry \cup {Missing}, NEW r \in SnapshotEntry \cup {Missing}
  PROVE  /\ LocalWins(l, r) <=> RemoteWins(r, l)
         /\ ConcurrentEdit(l, r) <=> ConcurrentEdit(r, l)
<1>1. Diverges(l, r) <=> Diverges(r, l)
  BY DEF Diverges
<1>2. ASSUME Diverges(l, r)
      PROVE  l.version \in FileVersion /\ r.version \in FileVersion
  BY <1>2 DEF Diverges, SnapshotEntry
<1>3. ASSUME Diverges(l, r)
      PROVE  Dominates(l.version, r.version) => ~ Dominates(r.version, l.version)
  BY <1>2, <1>3, DominatesAsymmetric
<1> QED BY <1>1, <1>3 DEF LocalWins, RemoteWins, ConcurrentEdit

(***************************************************************************)
(* reconcile treats its two sides alike: exchanging them exchanges uploads *)
(* and downloads and keeps the conflicts, whatever the tombstones.         *)
(***************************************************************************)
THEOREM PlanMirror ==
  ASSUME NEW c \in Snapshot, NEW s \in Snapshot, NEW cdel, NEW sdel
  PROVE  /\ PlanFor(c, s, cdel, sdel).uploads = PlanFor(s, c, sdel, cdel).downloads
         /\ PlanFor(c, s, cdel, sdel).downloads = PlanFor(s, c, sdel, cdel).uploads
         /\ PlanFor(c, s, cdel, sdel).conflicts = PlanFor(s, c, sdel, cdel).conflicts
<1>1. ASSUME NEW p \in Path
      PROVE  /\ LocalWins(c[p], s[p]) <=> RemoteWins(s[p], c[p])
             /\ LocalWins(s[p], c[p]) <=> RemoteWins(c[p], s[p])
             /\ ConcurrentEdit(c[p], s[p]) <=> ConcurrentEdit(s[p], c[p])
  <2>1. c[p] \in SnapshotEntry \cup {Missing} /\ s[p] \in SnapshotEntry \cup {Missing}
    BY DEF Snapshot
  <2> QED BY <2>1, OutcomesMirror
<1> QED BY <1>1 DEF PlanFor

(***************************************************************************)
(* A plan decides each path once: nothing is uploaded and downloaded, and  *)
(* a conflict is neither (reconcile's arms are exclusive).                 *)
(***************************************************************************)
THEOREM PlanDisjoint ==
  ASSUME NEW c \in Snapshot, NEW s \in Snapshot, NEW cdel, NEW sdel
  PROVE  LET plan == PlanFor(c, s, cdel, sdel)
         IN /\ plan.uploads \cap plan.downloads = {}
            /\ plan.uploads \cap plan.conflicts = {}
            /\ plan.downloads \cap plan.conflicts = {}
BY DEF PlanFor, LocalWins, RemoteWins, ConcurrentEdit, Diverges, Only

(***************************************************************************)
(* "The server proactively pushes everything our index says we lack (it    *)
(* computes the identical set)": in a session each end pushes exactly what *)
(* the other end waits for, and no path is pushed by both.                 *)
(***************************************************************************)
THEOREM SessionMirror ==
  ASSUME NEW c \in Snapshot, NEW s \in Snapshot
  PROVE  /\ ClientPush(SessionPlan(c, s)) = SessionPlan(s, c).downloads
         /\ ServerPush(SessionPlan(s, c), s) = ClientPull(SessionPlan(c, s), s)
         /\ ClientPush(SessionPlan(c, s)) \cap ServerPush(SessionPlan(s, c), s) = {}
<1>1. /\ SessionPlan(c, s).uploads = SessionPlan(s, c).downloads
      /\ SessionPlan(c, s).downloads = SessionPlan(s, c).uploads
      /\ SessionPlan(c, s).conflicts = SessionPlan(s, c).conflicts
  BY PlanMirror DEF SessionPlan
<1>2. /\ SessionPlan(c, s).uploads \cap SessionPlan(c, s).downloads = {}
      /\ SessionPlan(c, s).uploads \cap SessionPlan(c, s).conflicts = {}
  BY PlanDisjoint DEF SessionPlan
<1> QED BY <1>1, <1>2 DEF ClientPush, ClientPull, ServerPush

(***************************************************************************)
(* The result of a session has every path either side has: no file is      *)
(* planned away, and what is kept is one of the two announced entries.     *)
(***************************************************************************)
THEOREM MergedKeepsPaths ==
  ASSUME NEW c \in Snapshot, NEW s \in Snapshot, NEW p \in Path
  PROVE  /\ Merged(c, s)[p] \in {c[p], s[p]}
         /\ (c[p] # Missing \/ s[p] # Missing) => Merged(c, s)[p] # Missing
BY DEF Merged, ClientPush, SessionPlan, PlanFor, LocalWins, Diverges, Only
=============================================================================
