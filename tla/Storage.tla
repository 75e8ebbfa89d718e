-------------------------------- MODULE Storage --------------------------------
(***************************************************************************)
(* The metadata database of one device (storage/mod.rs) under the calls    *)
(* that change it: pairings, folders and their pairs with devices, shares, *)
(* sessions and removals.  IdentityMigration adds the start of the app.    *)
(*                                                                         *)
(* A storage function holds the connection's lock and is one step.  What   *)
(* it does in a transaction happens together or not at all; what it does   *)
(* in statements of their own stays when a later one fails.  The bundled   *)
(* SQLite enforces the schema's foreign keys.  A session is two steps, its *)
(* start and its records, and the removal of all devices one step for each *)
(* device: anything may happen between them.                               *)
(*                                                                         *)
(* A certificate is written as the id derived from it.  The process id     *)
(* that goes into a folder's guid is the same in every run (as it is in a  *)
(* container): a different one could only keep guids further apart.        *)
(* Modes, remote paths, addresses and times are left out.                  *)
(***************************************************************************)
EXTENDS Integers, FiniteSets, SequencesExt

CONSTANTS Id,          \* device ids
          Old,         \* the ids among them that older builds made up
          Own,         \* this device
          Person,      \* Person[i]: the device behind i, by its present id
          Label,       \* Label[i]: the display name of the device behind i
          Path,        \* local paths of folders, and the names made from them
          Remote,      \* guids of folders that peers share
          MaxRows,     \* bound on the row ids of folders
          MaxCalls,    \* bound on the calls that change the database
          MaxStarts,   \* bound on the starts of the program
          MaxSessions, \* MAX_SESSION_HISTORY
          None

Current  == Id \ Old
FolderId == 1..MaxRows
Names    == Id \cup Path \cup {Label[i] : i \in Id}

Row    == [name : Names, cert : Id \cup {None}]
Folder == [path : Path, dev : Id, guid : FolderId \cup Remote \cup {None},
           pairs : Seq(Id)]
Share  == [guid : FolderId \cup Remote, owner : Id, path : Path]

ASSUME StorageAssumption ==
  /\ Old \subseteq Id /\ Own \in Current
  /\ Person \in [Id -> Current] /\ \A i \in Current : Person[i] = i
  /\ MaxRows \in Nat \ {0} /\ MaxCalls \in Nat /\ MaxStarts \in Nat
  /\ MaxSessions \in Nat \ {0} /\ Path # {}
  /\ None \notin Id \cup Remote \cup FolderId \cup Row \cup Folder
  /\ Remote \cap FolderId = {}

VARIABLES
  db,       \* the tables, see Db
  running,  \* sessions under way: <<folder, device>>
  removing, \* devices that remove_all_devices has yet to remove
  idFile,   \* the id in the file device.id of an older build, or None
  start,    \* how far the start of the app has come, see IdentityMigration
  starts,   \* number of times the database was opened
  calls     \* number of calls so far

vars == <<db, running, removing, idFile, start, starts, calls>>

\* pairs is in order of insertion; last is the AUTOINCREMENT counter of folders;
\* of the sessions' numbers only the order matters.
Db == [devices  : [Id -> Row \cup {None}],
       folders  : [FolderId -> Folder \cup {None}],
       last     : 0..MaxRows,
       history  : SUBSET (FolderId \X Id),
       sessions : SUBSET (Nat \X Id),
       shares   : SUBSET Share]

Rows(d)     == {i \in Id : d.devices[i] # None}
Live(d)     == {f \in FolderId : d.folders[f] # None}
Pairs(d, f) == ToSet(d.folders[f].pairs)

\* list_sync_folders joins headers and pairs: a header without pairs is not listed.
Listed(d) == {e \in Live(d) \X Id : e[2] \in Pairs(d, e[1])}

\* FOREIGN KEY clauses of the schema.
Referential(d) ==
  /\ \A f \in Live(d) : Pairs(d, f) \cup {d.folders[f].dev} \subseteq Rows(d)
  /\ \A h \in d.history : h[1] \in Live(d)
  /\ \A s \in d.shares : s.owner \in Rows(d)

\* PRIMARY KEY of folder_devices and UNIQUE of shared_folders.
Unique(d) ==
  /\ \A f \in Live(d) : IsInjective(d.folders[f].pairs)
  /\ \A s, t \in d.shares : s.guid = t.guid /\ s.owner = t.owner => s = t

Valid(d) == Referential(d) /\ Unique(d)

\* A statement or transaction on c that would lead to d.
Commit(c, d) == IF Valid(d) THEN d ELSE c

-----------------------------------------------------------------------------
(***************************************************************************)
(* Statements.                                                             *)
(***************************************************************************)
\* upsert_device: the name is replaced, a stored certificate is kept.
Upserted(d, i, n, c) ==
  [d EXCEPT !.devices[i] =
     [name |-> n, cert |-> IF c = None /\ @ # None THEN @.cert ELSE c]]

\* ensure_device: a row under the id itself unless there is one.
Ensured(d, i) == IF i \in Rows(d) THEN d ELSE Upserted(d, i, i, None)

\* Rows found by path and by guid; LIMIT 1 takes the lowest row id.
At(d, p)    == {f \in Live(d) : d.folders[f].path = p}
Keyed(d, g) == {f \in Live(d) : d.folders[f].guid = g}

\* folder_id_for_path: the first listed row of the path.
ListedAt(d, p) == {e[1] : e \in {x \in Listed(d) : d.folders[x[1]].path = p}}

\* add_folder_device: idempotent per pair.
Attached(d, f, i) ==
  [d EXCEPT !.folders[f].pairs = IF Contains(@, i) THEN @ ELSE Append(@, i)]

\* INSERT INTO sync_folders: AUTOINCREMENT gives a row id never given before.
\* Mutant of NextRow: the highest row id in use and one more.
NextRowInUse(d) == Max(Live(d) \cup {0}) + 1
NextRow(d) == d.last + 1

Inserted(d, p, i, g, prs) ==
  [d EXCEPT !.folders[NextRow(d)] = [path |-> p, dev |-> i, guid |-> g, pairs |-> prs],
            !.last = IF NextRow(d) > @ THEN NextRow(d) ELSE @]

\* new_folder_guid of the row id that is expected to come next.
\* Mutant of NewGuid: counts the rows.
NewGuidByCount(d) == Cardinality(Live(d)) + 1
NewGuid(d) == Max(Live(d) \cup {0}) + 1

\* add_sync_folder: the row at the path, or a new one with its first pair.
Added(d, p, i) ==
  IF At(d, p) # {} THEN Attached(d, Min(At(d, p)), i)
                   ELSE Inserted(d, p, i, NewGuid(d), <<i>>)

\* ensure_folder_by_guid: the row of the guid, or a new one without a pair.
EnsuredGuid(d, p, g) ==
  IF Keyed(d, g) # {} THEN d ELSE Commit(d, Inserted(d, p, Own, g, <<>>))

\* share_folder: idempotent per guid and owner.
Shared(d, f) ==
  LET s == [guid |-> d.folders[f].guid, owner |-> Own, path |-> d.folders[f].path]
  IN IF \E t \in d.shares : t.guid = s.guid /\ t.owner = Own
     THEN d ELSE [d EXCEPT !.shares = @ \cup {s}]

\* DELETE of the pair of f with the device i, or of all its pairs.
Unpaired(d, f, i) ==
  [d EXCEPT !.folders[f].pairs = IF i = None THEN <<>> ELSE RemoveFirst(@, i)]

\* DELETE of the headers in F that have no pair left.
Pruned(d, F) ==
  [d EXCEPT !.folders = [f \in FolderId |->
     IF f \in F \cap Live(d) /\ Pairs(d, f) = {} THEN None ELSE @[f]]]

\* Room for a row, where the call inserts one.
Room(d) == d.last < MaxRows

-----------------------------------------------------------------------------
(***************************************************************************)
(* Calls of the API and of the command line.                               *)
(***************************************************************************)
\* A call is made while the program runs; it leaves the database as d.
Ready == start.at = 0 /\ calls < MaxCalls
Call(d) ==
  /\ db' = d /\ calls' = calls + 1
  /\ UNCHANGED <<running, removing, idFile, start, starts>>

\* A pairing stores the peer's certificate and display name.
UpsertDevice(i) == i # Own /\ Call(Upserted(db, i, Label[i], i))

\* add_sync_folder of the API: an existing row keeps its name.
AddSyncFolder(p, i) ==
  LET d == IF i = Own /\ i \notin Rows(db) THEN Upserted(db, i, Label[i], None)
                                           ELSE Ensured(db, i)
  IN (At(db, p) # {} \/ Room(db)) /\ Call(Commit(d, Added(d, p, i)))

\* add_sync_folder_with_peers, one peer: the id becomes the name.
AddSyncFolderWithPeers(p, i) ==
  LET d == Upserted(db, i, i, None)
  IN (At(db, p) # {} \/ Room(db)) /\ Call(Commit(d, Added(d, p, i)))

\* register_folder, when a folder is served: nothing if a pair of the path is listed.
RegisterFolder(p) ==
  LET d == Upserted(db, Own, Label[Own], None)
  IN /\ \A f \in At(db, p) : Pairs(db, f) = {}
     /\ At(db, p) # {} \/ Room(db)
     /\ Call(Commit(d, Added(d, p, Own)))

AddFolderDevice(f, i) ==
  f \in Live(db) /\ Call(Attached(Upserted(db, i, i, None), f, i))

\* set_folder_device: the pair that was inserted first is given to i.
Rekeyed(d, f, i) ==
  [Ensured(d, i) EXCEPT !.folders[f].pairs[1] = i]

\* `folders add` and `sync`: rows of the path that are paired with this device
\* are re-keyed in turn, up to the first that fails; then get_or_create_folder.
AdoptFolder(p, i) ==
  LET mine == {f \in At(db, p) : Own \in Pairs(db, f)}
      bad  == {f \in mine : ~ Valid(Rekeyed(db, f, i))}
      todo == {f \in mine : \A b \in bad : f < b}
      d    == [Ensured(db, i) EXCEPT !.folders = [f \in FolderId |->
                 IF f \in todo THEN Rekeyed(db, f, i).folders[f] ELSE @[f]]]
      held == \E f \in At(d, p) : i \in Pairs(d, f)
  IN /\ i # Own
     /\ At(db, p) # {} \/ Room(db)
     /\ Call(IF bad # {} \/ held THEN d ELSE Commit(d, Added(d, p, i)))

\* remove_folder_device: the pair, and the header with its last pair.
RemoveFolderDevice(f, i) ==
  /\ f \in Live(db) /\ i \in Pairs(db, f)
  /\ Call(Commit(db, Pruned(Unpaired(db, f, i), {f})))

\* remove_sync_folders: pairs by path, with the device i or all of them.
RemoveSyncFolders(p, i) ==
  LET d == [db EXCEPT !.folders = [f \in FolderId |->
              IF f \in At(db, p) THEN Unpaired(db, f, i).folders[f] ELSE @[f]]]
  IN At(db, p) # {} /\ Call(Commit(db, Pruned(d, At(db, p))))

\* remove_sync_folder_by_id: two statements, the second fails on history rows.
RemoveFolder(f) ==
  LET d == Unpaired(db, f, None)
  IN f \in Live(db) /\ Call(Commit(d, Pruned(d, {f})))

\* A device named on the command line: a row, never this device's.
CliDevice(i) == i \in Rows(db) \ {Own}

\* `folders remove`, of all pairs or of one device's.
CliRemoveFolder(p, i) ==
  (i = None \/ CliDevice(i)) /\ RemoveSyncFolders(p, i)

\* `folders add-device` refuses a pair there is; no device row is written.
CliAddDevice(p, i) ==
  /\ CliDevice(i) /\ ListedAt(db, p) # {}
  /\ i \notin Pairs(db, Min(ListedAt(db, p)))
  /\ Call(Attached(db, Min(ListedAt(db, p)), i))

\* `folders remove-device`.
CliRemoveDevice(p, i) ==
  /\ CliDevice(i) /\ ListedAt(db, p) # {}
  /\ RemoveFolderDevice(Min(ListedAt(db, p)), i)

\* What is left of d in remove_device's transaction before it is committed.
\* Mutant of Removal: the device's sessions stay.
RemovalKeepsSessions(d, i) ==
  LET with == {f \in Live(d) : i \in Pairs(d, f)}
      e == [d EXCEPT
              !.history  = {h \in @ : h[2] # i /\ h[1] \notin with},
              !.folders  = [f \in FolderId |->
                 IF f \in with THEN Unpaired(d, f, i).folders[f] ELSE @[f]]]
  IN [Pruned(e, FolderId) EXCEPT !.devices[i] = None]
\* Mutant of Removal: the history of the device's folders stays.
RemovalByDevice(d, i) ==
  LET e == [d EXCEPT
              !.sessions = {s \in @ : s[2] # i},
              !.history  = {h \in @ : h[2] # i},
              !.folders  = [f \in FolderId |->
                 IF f \in Live(d) THEN Unpaired(d, f, i).folders[f] ELSE @[f]]]
  IN [Pruned(e, FolderId) EXCEPT !.devices[i] = None]
Removal(d, i) ==
  LET with == {f \in Live(d) : i \in Pairs(d, f)}
      e == [d EXCEPT
              !.sessions = {s \in @ : s[2] # i},
              !.history  = {h \in @ : h[2] # i /\ h[1] \notin with},
              !.folders  = [f \in FolderId |->
                 IF f \in with THEN Unpaired(d, f, i).folders[f] ELSE @[f]]]
  IN [Pruned(e, FolderId) EXCEPT !.devices[i] = None]

RemoveDevice(i) == i \in Rows(db) /\ Call(Commit(db, Removal(db, i)))

\* remove_all_devices lists the devices, this one among them ...
RemoveAllDevices ==
  /\ removing = {}
  /\ removing' = Rows(db) /\ calls' = calls + 1
  /\ UNCHANGED <<db, running, idFile, start, starts>>

\* ... and removes them in the order they were seen, which may be any, up to the
\* first that fails.
RemoveNextDevice(i) ==
  /\ i \in removing
  /\ db' = Commit(db, Removal(db, i))
  /\ removing' = IF Valid(Removal(db, i)) THEN removing \ {i} ELSE {}
  /\ UNCHANGED <<running, idFile, start, starts, calls>>

\* clear_all_sync_state: sessions and shares are not touched.
ClearAllSyncState ==
  Call(Commit(db, [db EXCEPT !.history = {}, !.folders = [f \in FolderId |-> None],
                             !.devices = [i \in Id |-> None]]))

ShareFolder(f) ==
  /\ f \in Live(db) /\ db.folders[f].guid # None
  /\ Call(Shared(Upserted(db, Own, Label[Own], None), f))

\* `share add`: a path that is not listed is added first.
CliShare(p) ==
  LET d == Upserted(db, Own, Label[Own], None)
      e == IF ListedAt(d, p) # {} THEN d ELSE Added(d, p, Own)
  IN /\ \A s \in db.shares : s.owner = Own => s.path # p
     /\ At(db, p) # {} \/ Room(db)
     /\ Call(Shared(e, Min(ListedAt(e, p))))

UnshareFolder(s) == Call([db EXCEPT !.shares = @ \ {s}])

\* approve_folder_pair: the requester gets the folder's name for its own.
ApproveFolderPair(s, i) ==
  LET d == Upserted(db, i, s.path, None)
      e == EnsuredGuid(d, s.path, s.guid)
  IN /\ s.owner = Own /\ i # Own
     /\ Keyed(db, s.guid) # {} \/ Room(db)
     /\ Call(Attached(e, Min(Keyed(e, s.guid)), i))

\* wire_folder_pair after a grant: a transaction, then add_folder_device.
WireFolderPair(g, p, i) ==
  LET d == Upserted(db, Own, Label[Own], None)
      here == IF At(d, p) # {} THEN Min(At(d, p)) ELSE 0
      rebound == [d EXCEPT !.folders[here].guid = g, !.shares =
                    {IF s.owner = Own /\ s.guid = d.folders[here].guid
                     THEN [s EXCEPT !.guid = g] ELSE s : s \in @}]
      clash == \E s, t \in d.shares : s # t /\ s.owner = t.owner
                  /\ s.guid = d.folders[here].guid /\ t.guid = g
      e == IF here # 0 THEN rebound
           ELSE IF Keyed(d, g) # {} THEN d ELSE Inserted(d, p, Own, g, <<Own>>)
      f == IF here # 0 THEN here ELSE Min(Keyed(e, g))
  IN /\ i # Own
     /\ here # 0 \/ Keyed(d, g) # {} \/ Room(d)
     /\ Call(IF here # 0 /\ clash THEN d ELSE Commit(e, Attached(e, f, i)))

\* `folders request` after a grant: the owner is looked up as a device that is
\* called like the folder; with none (i = None) the pair has no device to name and
\* fails, and the header stays without one.
RegisterReplica(g, p, i) ==
  LET d == EnsuredGuid(db, p, g)
  IN /\ i \in Rows(db) \cup {None}
     /\ Keyed(db, g) # {} \/ Room(db)
     /\ Call(IF Keyed(d, g) = {} \/ i = None THEN d ELSE Attached(d, Min(Keyed(d, g)), i))

SetFolderLocalPath(f, p) ==
  f \in Live(db) /\ db.folders[f].path # p /\ Call([db EXCEPT !.folders[f].path = p])

\* A session with a paired device: the certificate is pinned on first use ...
StartSession(f, i) ==
  /\ <<f, i>> \notin running
  /\ f \in Live(db) /\ i \in Pairs(db, f) /\ i # Own
  /\ db' = IF db.devices[i].cert # None THEN db
           ELSE [db EXCEPT !.devices[i].cert = i]
  /\ running' = running \cup {<<f, i>>}
  /\ calls' = calls + 1
  /\ UNCHANGED <<removing, idFile, start, starts>>

\* record_history, whose failure is ignored, and record_session.
HistoryRecorded(d, f, i) == Commit(d, [d EXCEPT !.history = @ \cup {<<f, i>>}])
SessionRecorded(d, i) ==
  LET ss == d.sessions \cup {<<Max({0} \cup {s[1] : s \in d.sessions}) + 1, i>>}
  IN [d EXCEPT !.sessions =
        {s \in ss : Cardinality({t \in ss : t[1] > s[1]}) < MaxSessions}]

\* ... and at the end there are history rows, if they can be, and a record.
EndSession(f, i) ==
  /\ <<f, i>> \in running
  /\ running' = running \ {<<f, i>>}
  /\ db' = SessionRecorded(HistoryRecorded(db, f, i), i)
  /\ UNCHANGED <<removing, idFile, start, starts, calls>>

Calls ==
  \/ \E i \in Current : UpsertDevice(i) \/ RemoveDevice(i)
  \/ \E p \in Path, i \in Current :
       \/ AddSyncFolder(p, i) \/ AddSyncFolderWithPeers(p, i) \/ AdoptFolder(p, i)
       \/ CliAddDevice(p, i) \/ CliRemoveDevice(p, i)
  \/ \E p \in Path : RegisterFolder(p) \/ CliShare(p)
  \/ \E p \in Path, i \in Current \cup {None} :
       RemoveSyncFolders(p, i) \/ CliRemoveFolder(p, i)
  \/ \E f \in FolderId, i \in Current :
       AddFolderDevice(f, i) \/ RemoveFolderDevice(f, i) \/ StartSession(f, i)
  \/ \E f \in FolderId : RemoveFolder(f) \/ ShareFolder(f)
  \/ \E f \in FolderId, p \in Path : SetFolderLocalPath(f, p)
  \/ \E s \in db.shares : UnshareFolder(s)
  \/ \E s \in db.shares, i \in Current : ApproveFolderPair(s, i)
  \/ \E g \in Remote, p \in Path : \/ \E i \in Current : WireFolderPair(g, p, i)
                                   \/ \E i \in Current \cup {None} : RegisterReplica(g, p, i)
  \/ RemoveAllDevices \/ ClearAllSyncState
=============================================================================
