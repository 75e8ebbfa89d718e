--------------------------- MODULE IdentityMigration ---------------------------
(***************************************************************************)
(* The start of the program over the database of Storage: the schema's     *)
(* backfills at every open, and the migration of the app that folds the    *)
(* rows of one device under several ids into the row of its certificate    *)
(* (init_engine, migrate_legacy_device_identity,                           *)
(* reconcile_devices_by_cert).                                             *)
(*                                                                         *)
(* The migration is a series of statements outside any transaction: each   *)
(* may fail, which aborts the start, and the process may die between any   *)
(* two.  The command line opens the database and does not migrate.         *)
(***************************************************************************)
EXTENDS Storage

Tables == 1..5   \* folder_devices, sync_folders, shared_folders,
                 \* file_history, sync_sessions; then
Delete == 6      \* the folded rows go
Finish == 7      \* and this device's row is refreshed

\* at: 0 when the start is over, else the statement it has come to; moves: from
\* folded ids to ids; todo: the ids left at this statement; done: it succeeded.
Idle == [at |-> 0, moves |-> <<>>, todo |-> {}, done |-> FALSE]

Started ==
  [at : 0..Finish, todo : SUBSET Id, done : BOOLEAN,
   moves : UNION {[S -> Id] : S \in SUBSET Id}]

-----------------------------------------------------------------------------
\* An installation without rows.
Fresh ==
  /\ db = [devices |-> [i \in Id |-> None], folders |-> [f \in FolderId |-> None],
           last |-> 0, history |-> {}, sessions |-> {}, shares |-> {}]
  /\ idFile = None /\ calls = 0 /\ starts = 1

\* The database of an older build with one folder, before it is first opened;
\* only its starts are followed.  Older builds knew one id of a device and its
\* certificate, or its name only.
Legacy(rows, certified, dev, prs, h, sh) ==
  [devices  |-> [i \in Id |-> IF i \notin rows THEN None ELSE
                   [name |-> Label[i], cert |-> IF i \in certified THEN Person[i] ELSE None]],
   folders  |-> [f \in FolderId |-> IF f # 1 THEN None ELSE
                   [path |-> CHOOSE p \in Path : TRUE, dev |-> dev, pairs |-> prs,
                    guid |-> IF prs = <<>> THEN None ELSE 1]],
   last     |-> 1,
   history  |-> {<<1, h>>},
   sessions |-> {<<1, h>>},
   shares   |-> IF sh = None THEN {} ELSE
                {[guid |-> 1, owner |-> sh, path |-> CHOOSE p \in Path : TRUE]}]

Inherited ==
  /\ \E rows \in SUBSET {i \in Id : \E o \in Old : Person[o] = Person[i]} :
     \E certified \in SUBSET rows, dev, h \in rows :
     \E prs \in {<<>>} \cup {<<i>> : i \in rows} \cup {<<dev, i>> : i \in rows \ {dev}},
        sh \in {None} \cup {i \in rows : Person[i] = Own} :
       db = Legacy(rows, certified, dev, prs, h, sh)
  /\ idFile \in {None} \cup {i \in Old : Person[i] = Own}
  /\ calls = MaxCalls /\ starts = 0

Init == (Fresh \/ (Old # {} /\ Inherited)) /\ running = {} /\ removing = {} /\ start = Idle

-----------------------------------------------------------------------------
(***************************************************************************)
(* Opening the database, by any program.                                   *)
(***************************************************************************)
\* initialize_schema: a pair for every header, a guid for every row.
Opened(d) ==
  [d EXCEPT !.folders = [f \in FolderId |->
     IF f \notin Live(d) THEN None ELSE
       [Attached(d, f, d.folders[f].dev).folders[f]
          EXCEPT !.guid = IF @ = None THEN f ELSE @]]]

(***************************************************************************)
(* The ids to fold, as reconcile_devices_by_cert plans them from the rows. *)
(***************************************************************************)
Certified(d) == {i \in Rows(d) : d.devices[i].cert # None}

\* Rows under another id than their certificate's, and the id of device.id.
Misnamed(d) == {i \in Certified(d) : d.devices[i].cert # i}
\* Mutant of Legacies: the id of device.id only.
LegaciesOfFile(d) == {idFile} \ {None, Own}
Legacies(d) == (Misnamed(d) \cup ({idFile} \ {None})) \ {Own}

\* The certified rows of the same name as i.
\* Mutant of Namesakes: whatever the name.
NamesakesOfAny(d, i) == Certified(d)
Namesakes(d, i) == {j \in Certified(d) : d.devices[j].name = d.devices[i].name}

\* Rows without a certificate that share the name of one certified row.
Stubs(d) ==
  {i \in Rows(d) \ (Certified(d) \cup Legacies(d)) :
     \E j \in Id : Namesakes(d, i) = {j} /\ d.devices[j].cert # Own}

Moves(d) ==
  [i \in Legacies(d) \cup Stubs(d) |->
     IF i \in Misnamed(d) THEN d.devices[i].cert
     ELSE IF i \in Legacies(d) THEN Own
     ELSE d.devices[CHOOSE j \in Id : Namesakes(d, i) = {j}].cert]

\* UPDATE of one table: i becomes j.
Put(i, j, x) == IF x = i THEN j ELSE x
Repointed(d, t, i, j) ==
  CASE t = 1 -> [d EXCEPT !.folders = [f \in FolderId |-> IF f \notin Live(d) THEN None
                   ELSE [d.folders[f] EXCEPT !.pairs = [n \in DOMAIN @ |-> Put(i, j, @[n])]]]]
    [] t = 2 -> [d EXCEPT !.folders = [f \in FolderId |-> IF f \notin Live(d) THEN None
                   ELSE [d.folders[f] EXCEPT !.dev = Put(i, j, @)]]]
    [] t = 3 -> [d EXCEPT !.shares = {[s EXCEPT !.owner = Put(i, j, @)] : s \in @}]
    [] t = 4 -> [d EXCEPT !.history = {<<h[1], Put(i, j, h[2])>> : h \in @}]
    [] t = 5 -> [d EXCEPT !.sessions = {<<s[1], Put(i, j, s[2])>> : s \in @}]

\* The two owners of a share under one guid collide.
Collides(t, i, j) ==
  t = 3 /\ \E r, s \in db.shares : r.guid = s.guid /\ r.owner = i /\ s.owner = j /\ i # j

-----------------------------------------------------------------------------
(***************************************************************************)
(* Steps of a start.                                                       *)
(***************************************************************************)
\* The next statement that has something to do.
Advanced(s, todo) ==
  IF todo # {} THEN [s EXCEPT !.todo = todo]
  ELSE [s EXCEPT !.at = @ + 1, !.todo = IF s.at + 1 = Finish THEN {} ELSE DOMAIN s.moves]

Open(app) ==
  /\ starts < MaxStarts /\ start.at = 0
  /\ db' = Opened(db)
  /\ start' = IF ~ app THEN Idle
              ELSE LET m == Moves(Opened(db))
                   IN [at |-> IF m = <<>> THEN Finish ELSE 1, moves |-> m,
                       todo |-> DOMAIN m, done |-> FALSE]
  /\ starts' = starts + 1 /\ running' = {} /\ removing' = {}
  /\ UNCHANGED <<idFile, calls>>

\* One UPDATE, for one folded id; HashMap order is any order.
Repoint(i) ==
  /\ start.at \in Tables /\ i \in start.todo
  /\ LET d == Repointed(db, start.at, i, start.moves[i])
     IN IF Valid(d) /\ ~ Collides(start.at, i, start.moves[i])
        THEN db' = d /\ start' = Advanced(start, start.todo \ {i})
        ELSE db' = db /\ start' = Idle
  /\ UNCHANGED <<running, removing, idFile, starts, calls>>

DeleteFolded(i) ==
  /\ start.at = Delete /\ i \in start.todo
  /\ LET d == [db EXCEPT !.devices[i] = None]
     IN IF Valid(d) THEN db' = d /\ start' = Advanced(start, start.todo \ {i})
                    ELSE db' = db /\ start' = Idle
  /\ UNCHANGED <<running, removing, idFile, starts, calls>>

\* ensure_self_row, and the file of the old id is removed.
FinishStart ==
  /\ start.at = Finish
  /\ db' = [db EXCEPT !.devices[Own] = [name |-> Label[Own], cert |-> Own]]
  /\ idFile' = None
  /\ start' = [Idle EXCEPT !.done = TRUE]
  /\ UNCHANGED <<running, removing, starts, calls>>

\* The process dies, in the middle of a start, of sessions or of removals.
Crash ==
  /\ start.at # 0 \/ running # {} \/ removing # {}
  /\ start' = Idle /\ running' = {} /\ removing' = {}
  /\ UNCHANGED <<db, idFile, starts, calls>>

Next ==
  \/ Ready /\ Calls
  \/ \E f \in FolderId, i \in Current : EndSession(f, i)
  \/ \E app \in BOOLEAN : Open(app)
  \/ \E i \in Id : RemoveNextDevice(i) \/ Repoint(i) \/ DeleteFolded(i)
  \/ FinishStart \/ Crash

Spec == Init /\ [][Next]_vars

-----------------------------------------------------------------------------
(***************************************************************************)
(* Properties.                                                             *)
(***************************************************************************)
\* A guid minted here names one folder: the row id it is made from is guessed
\* before the INSERT (storage/mod.rs, add_sync_folder), rows come and go, and
\* the guess may be below the id the row then gets.
MintedGuidsDistinct ==
  \A f, g \in Live(db) :
    db.folders[f].guid = db.folders[g].guid /\ db.folders[f].guid \in FolderId => f = g

\* The removal of a device fails for one of three reasons: a folder that was
\* created for it is still paired with others, it owns shares, or a folder that
\* remove_folder left behind holds history with another device.
RemovalRefused(i) ==
  \/ \E f \in Live(db) : db.folders[f].dev = i /\ Pairs(db, f) \ {i} # {}
  \/ \E s \in db.shares : s.owner = i
  \/ \E f \in Live(db) : Pairs(db, f) = {} /\ \E h \in db.history : h[1] = f /\ h[2] # i
RemovalRefusedOnlyIf ==
  \A i \in Rows(db) : starts > 0 /\ start.at = 0 /\ ~ RemovalRefused(i) => Valid(Removal(db, i))

\* The ids each table names.
Mentions(d) ==
  {m \in Live(d) \X Id : m[2] \in Pairs(d, m[1]) \cup {d.folders[m[1]].dev}}
MentionedIds(d) ==
  {m[2] : m \in Mentions(d) \cup d.history \cup d.sessions} \cup {s.owner : s \in d.shares}

\* Devices that have different names.
NamesTell ==
  \A i, j \in Rows(db) : Person[i] # Person[j] => db.devices[i].name # db.devices[j].name

\* A device row goes only when no table names the device any more: remove_device
\* deletes what belongs to it, the migration re-points it first.  Two ways out:
\* clear_all_sync_state keeps the sessions, and a row without a certificate may
\* be planned to go although rows are folded into it, itself among them, as the
\* id of a namesake's certificate.
GoneMeansForgotten ==
  [][\A i \in Rows(db) \ Rows(db') :
       \/ i \notin MentionedIds(db')
       \/ Rows(db') = {} /\ calls' > calls
       \/ start.at = Delete /\ \E j \in DOMAIN start.moves : start.moves[j] = i]_vars

\* Starting the program, dying on the way and starting again never changes
\* which devices a folder is related to, as long as names tell devices apart.
RelationsKept ==
  [][(starts' > starts \/ start.at # 0) /\ NamesTell =>
       {<<m[1], Person[m[2]]>> : m \in Mentions(db')}
         = {<<m[1], Person[m[2]]>> : m \in Mentions(db)}]_vars

\* A folder's row id is never used again: a session that outlives its folder
\* records no history in another one.
RowsNotReused ==
  [][\A f \in FolderId : f <= db.last /\ f \notin Live(db) => f \notin Live(db')]_vars

\* After a start that succeeded, no row has a certificate of another id, and
\* the id of the old file is gone.
OneRowPerDevice ==
  start.done => Misnamed(db) = {} /\ idFile = None
=============================================================================
