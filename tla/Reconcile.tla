------------------------------ MODULE Reconcile ------------------------------
(***************************************************************************)
(* The pure core of a sync session: file versions (domain/file.rs), the    *)
(* conversion of a protocol index into a snapshot (sync/orchestrator.rs),  *)
(* the reconciler (sync/reconciler.rs), and the rules by which the two     *)
(* ends of a session turn its plan into files to push and files to pull    *)
(* (sync_engine/session.rs).                                               *)
(*                                                                         *)
(* A content stands for its BLAKE3 hash: two contents are equal exactly    *)
(* when their hashes are.  A snapshot maps every path to its entry or to   *)
(* Missing.                                                                *)
(***************************************************************************)
EXTENDS Integers

CONSTANTS Path,       \* relative paths inside the folder
          Content,    \* file contents, standing for their hashes
          DeviceId,   \* device ids that stamp versions
          Missing     \* no entry for a path

FileVersion == [DeviceId -> Nat]

\* An index entry: the hash of the content and the mtime it was scanned with.
IndexEntry == [hash : Content, mtime : Nat]

SnapshotEntry == [hash : Content, version : FileVersion]

Index    == [Path -> IndexEntry \cup {Missing}]
Snapshot == [Path -> SnapshotEntry \cup {Missing}]

ASSUME MissingAssumption ==
  /\ Missing \notin IndexEntry
  /\ Missing \notin SnapshotEntry

-----------------------------------------------------------------------------
(***************************************************************************)
(* FileVersion.  The code's map and a total function agree: get() returns  *)
(* 0 for an absent device, and dominates() treats the two alike.           *)
(***************************************************************************)
NewVersion == [d \in DeviceId |-> 0]

SingleVersion(dev, n) == [NewVersion EXCEPT ![dev] = n]

Dominates(v, w) ==
  /\ \A d \in DeviceId : v[d] >= w[d]
  /\ \E d \in DeviceId : v[d] > w[d]

(***************************************************************************)
(* index_to_snapshot: every entry is stamped with the id the index carries *)
(* and the mtime as that device's counter.  An mtime of 0 gives the empty  *)
(* version, which SingleVersion(dev, 0) is.                                *)
(***************************************************************************)
IndexToSnapshot(index, dev) ==
  [p \in Path |->
     IF index[p] = Missing
     THEN Missing
     ELSE [hash    |-> index[p].hash,
           version |-> SingleVersion(dev, index[p].mtime)]]

-----------------------------------------------------------------------------
(***************************************************************************)
(* reconcile.  A path present on both sides is settled by hash first and   *)
(* version second, a path present on one side by the other's tombstones.   *)
(***************************************************************************)
Diverges(l, r) == l # Missing /\ r # Missing /\ l.hash # r.hash

LocalWins(l, r)  == Diverges(l, r) /\ Dominates(l.version, r.version)

RemoteWins(l, r) == /\ Diverges(l, r)
                    /\ ~ Dominates(l.version, r.version)
                    /\ Dominates(r.version, l.version)

ConcurrentEdit(l, r) == /\ Diverges(l, r)
                        /\ ~ Dominates(l.version, r.version)
                        /\ ~ Dominates(r.version, l.version)

Only(l, r) == l # Missing /\ r = Missing

PlanFor(local, remote, localDeleted, remoteDeleted) ==
  [uploads   |-> {p \in Path : \/ LocalWins(local[p], remote[p])
                               \/ /\ Only(local[p], remote[p])
                                  /\ p \notin remoteDeleted},
   downloads |-> {p \in Path : \/ RemoteWins(local[p], remote[p])
                               \/ /\ Only(remote[p], local[p])
                                  /\ p \notin localDeleted},
   conflicts |-> {p \in Path : \/ ConcurrentEdit(local[p], remote[p])
                               \/ /\ Only(local[p], remote[p])
                                  /\ p \in remoteDeleted
                               \/ /\ Only(remote[p], local[p])
                                  /\ p \in localDeleted}]

\* Mutant of SessionPlan: what the other end lacks is taken for deleted there.
SessionPlanDeleted(local, remote) ==
  PlanFor(local, remote, {}, {p \in Path : remote[p] = Missing})

\* reconcile_snapshots: a session always passes empty tombstone lists.
SessionPlan(local, remote) == PlanFor(local, remote, {}, {})

-----------------------------------------------------------------------------
(***************************************************************************)
(* How the two ends use their plans.  Both treat a conflict as "the        *)
(* server's version is transferred": the client pulls it and the server    *)
(* pushes it.                                                              *)
(***************************************************************************)
\* Mutant of ClientPush: conflicts are pushed as well as pulled.
ClientPushConflicts(plan) == plan.uploads \cup plan.conflicts
ClientPush(plan) == plan.uploads

ClientPull(plan, remote) ==
  plan.downloads \cup {p \in plan.conflicts : remote[p] # Missing}

\* Mutant of ServerPush: conflicts are forgotten.
ServerPushUploads(plan, local) == plan.uploads
ServerPush(plan, local) ==
  plan.uploads \cup {p \in plan.conflicts : local[p] # Missing}

(***************************************************************************)
(* What an undisturbed session leaves on both replicas, given the          *)
(* snapshots the client (c) and the server (s) announced.                  *)
(***************************************************************************)
Merged(c, s) ==
  LET push == ClientPush(SessionPlan(c, s))
  IN [p \in Path |-> IF p \in push THEN c[p] ELSE s[p]]
=============================================================================
