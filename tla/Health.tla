-------------------------------- MODULE Health --------------------------------
(***************************************************************************)
(* The health every front end shows (health.rs): a projection of the       *)
(* folder rows, the presence of the peers and the conflict backups found   *)
(* on disk.  Folders are numbered in the order list_sync_folders returns   *)
(* them; a view is everything else the projection reads.                   *)
(***************************************************************************)
EXTENDS Integers, FiniteSets, FiniteSetsExt

CONSTANTS Folders,   \* number of folder rows
          Device,    \* ids in the devices table
          Own,       \* this device's id
          Peers,     \* Peers[f]: the ids folder f is paired with
          Never,     \* a device that was never seen
          Ages       \* seconds since the devices were last seen

Folder == 1 .. Folders

ASSUME HealthAssumption ==
  /\ Folders \in Nat \ {0}
  /\ IsFiniteSet(Device) /\ Own \in Device
  /\ Peers \in [Folder -> (SUBSET Device) \ {{}}]
  /\ Never \notin Int /\ Ages \subseteq Nat \cup {Never}

CONNECTED_WINDOW_SECS == 300
RECENTLY_SEEN_WINDOW_SECS == 24 * 60 * 60

Presence(age) ==
  IF age = Never THEN "offline"
  ELSE IF age <= CONNECTED_WINDOW_SECS THEN "connected"
  ELSE IF age <= RECENTLY_SEEN_WINDOW_SECS THEN "recently_seen"
  ELSE "offline"

\* How long ago the devices were seen, whether the folders have synced, which of
\* them cannot be opened.  Every caller passes an empty live state: no folder is
\* known to be transferring or to have failed.
Views == [age : Ages, synced : BOOLEAN, gone : SUBSET Folder]

-----------------------------------------------------------------------------
\* Walks every folder that opens; backup[f] is the set of relative names of the
\* backups in f.  A relative name already listed is taken for a duplicate.
ListConflicts(backup, view) ==
  {e \in UNION {{f} \X backup[f] : f \in Folder \ view.gone} :
     \A f \in Folder \ view.gone : f < e[1] => e[2] \notin backup[f]}

\* What `conflicts --folder` prints.
CliList(listed, f) == {e \in listed : e[1] = f}

FolderConflicts(listed, f) == Cardinality(CliList(listed, f))

FolderHealth(d, conflicts, view) ==
  LET seen == Presence(view.age)
  IN IF d = Own THEN "not_configured"
     ELSE IF conflicts > 0 THEN "conflict"
     ELSE IF seen = "connected" /\ view.synced THEN "healthy"
     ELSE IF seen = "offline" /\ ~view.synced THEN "offline"
     ELSE "waiting"

HealthPriority(h) ==
  CASE h = "conflict" -> 6 [] h = "offline" -> 4 [] h = "not_configured" -> 3
    [] h = "waiting" -> 2 [] OTHER -> 0

NeedsAttention(h) == h \in {"conflict", "offline"}

\* One status per pair of a folder and a device.
FolderStatuses(listed, view) ==
  UNION {{[id |-> f, device |-> d, conflicts |-> FolderConflicts(listed, f),
           health |-> FolderHealth(d, FolderConflicts(listed, f), view)] : d \in Peers[f]} :
           f \in Folder}

\* Mutant of GroupFolder: the row of the lowest health represents the folder.
GroupFolderBest(statuses, f) ==
  LET peers == {s \in statuses : s.id = f}
      best == Min({HealthPriority(s.health) : s \in peers})
  IN (CHOOSE s \in peers : HealthPriority(s.health) = best).health

\* One row per folder: the health of the peers' rows that asks most for
\* attention; a folder that has only this device's row shows that row's.
GroupFolder(statuses, f) ==
  LET group == {s \in statuses : s.id = f}
      peers == {s \in group : s.device # Own}
  IN IF peers = {} THEN (CHOOSE s \in group : TRUE).health
     ELSE LET worst == Max({HealthPriority(s.health) : s \in peers})
          IN (CHOOSE s \in peers : HealthPriority(s.health) = worst).health

\* Every device but this one, with the folders it is paired to.
DeviceStatuses(view) ==
  {[id |-> d, presence |-> Presence(view.age),
    folder_count |-> Cardinality({f \in Folder : d \in Peers[f]})] : d \in Device \ {Own}}

ConflictsTotal(statuses) == MapThenSumSet(LAMBDA s : s.conflicts, statuses)

\* The roll-up: every row's conflicts are added up, a folder's once per device.
Summarize(devices, statuses) ==
  [device_total |-> Cardinality(devices),
   device_connected |-> Cardinality({d \in devices : d.presence = "connected"}),
   device_recently_seen |-> Cardinality({d \in devices : d.presence = "recently_seen"}),
   folders_total |-> Cardinality(statuses),
   folders_healthy |-> Cardinality({s \in statuses : s.health = "healthy"}),
   folders_needing_attention |-> Cardinality({s \in statuses : NeedsAttention(s.health)}),
   conflicts_total |-> ConflictsTotal(statuses)]

SummaryNeedsAttention(summary) ==
  summary.conflicts_total > 0 \/ summary.folders_needing_attention > 0

Snapshot(backup, view) ==
  LET statuses == FolderStatuses(ListConflicts(backup, view), view)
      devices == DeviceStatuses(view)
  IN [devices |-> devices, folders |-> statuses, summary |-> Summarize(devices, statuses)]

-----------------------------------------------------------------------------
(* What the front ends make of a snapshot. *)

\* The first line of `status` and of the REPL's dashboard.
Headline(summary) ==
  IF summary.folders_total = 0 /\ summary.device_total = 0 THEN "start"
  ELSE IF summary.conflicts_total > 0 THEN "conflicts"
  ELSE IF summary.folders_needing_attention > 0 THEN "attention"
  ELSE IF summary.device_total > summary.device_connected + summary.device_recently_seen
       THEN "offline"
  ELSE "synced"

\* The rows of `folders`, and of the FOLDERS part of `status`: one per folder.
CliFolders(snapshot) == [f \in Folder |-> GroupFolder(snapshot.folders, f)]

\* The ATTENTION part of `status`, made from those rows.
StatusAttention(snapshot) == {f \in Folder : NeedsAttention(CliFolders(snapshot)[f])}

\* The marks of the dashboard's folders.
DashboardMark(snapshot, f) ==
  LET h == CliFolders(snapshot)[f]
  IN CASE h = "healthy" -> "ok" [] h = "conflict" -> "warn" [] OTHER -> "dot"

\* The app's lists of one folder and of one device.
ApiFolderStatus(snapshot, f) == {s \in snapshot.folders : s.id = f}
ApiDeviceFolders(snapshot, d) == {s \in snapshot.folders : s.device = d}

\* The doctor's check of the folders: a warning if one is missing on disk.
CheckFolders(view) == IF view.gone = {} THEN "pass" ELSE "warn"
=============================================================================
