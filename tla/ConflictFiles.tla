---------------------------- MODULE ConflictFiles ----------------------------
(***************************************************************************)
(* The files of one folder while sessions write into it and the device's   *)
(* user edits files and resolves conflicts.  A session that brings a file  *)
(* compares it with what is there, moves a different version aside under   *)
(* a name made of the second, a label and a hash of what it brings, writes *)
(* a temporary file and renames it over the path (session.rs); nothing is  *)
(* locked in between.  A file is written in two steps, emptied when it is  *)
(* opened and filled afterwards, and what was opened keeps being written   *)
(* wherever a rename has taken it.  Conflicts are resolved by name         *)
(* (conflicts.rs) and shown by the projection of Health.                   *)
(***************************************************************************)
EXTENDS Health, Sequences, Functions

CONSTANTS Path,        \* relative paths of ordinary files
          Stem,        \* Stem[p]: p without its extension
          Content,
          Session,     \* sessions that may run at once
          Started,     \* the ones this device started
          MaxTime,     \* seconds that pass
          MaxFiles,    \* files the sessions bring
          MaxEdits,    \* edits of the user
          MaxResolves, \* conflicts the user resolves
          MaxCopies,   \* names keep_both tries
          Nothing      \* no content, no name

ASSUME FilesAssumption ==
  /\ IsFiniteSet(Path) /\ DOMAIN Stem = Path
  /\ Nothing \notin Content
  /\ Started \subseteq Session /\ "user" \notin Session
  /\ {MaxTime, MaxFiles, MaxEdits, MaxResolves, MaxCopies} \subseteq Nat

\* A name is a path's own, that of a copy kept beside it, or that of a backup
\* of either.  A backup bears the second, the label of the loser and the hash
\* of the winner; names of files that are no backups have at = 0.
Plain(p) == [path |-> p, copy |-> 0, who |-> "local", at |-> 0, label |-> "local", hash |-> Nothing]
CopyName(n, label, k) == [Plain(n.path) EXCEPT !.copy = k, !.who = label]
IsBackup(n) == n.at # 0

VARIABLES
  files,     \* the files of the folder: of each name, the contents it has parts of
  temp,      \* the temporary files, likewise
  handle,    \* handle[w]: where the file is that w has open for writing
  task,      \* task[w]: the file session w is writing, and how far it is
  choice,    \* the resolution the user has asked for, and how far it is
  now,       \* the clock, in seconds
  used,      \* how many files were brought, edits made, conflicts resolved
  written,   \* history: names written since each writer last looked
  crossed,   \* history: sessions that were at one temporary file together
  origin     \* history: contents that came under each path

vars == <<files, temp, handle, task, choice, now, used, written, crossed, origin>>

NoFile == [at |-> "idle", n |-> Nothing, data |-> Nothing]
NoChoice == [at |-> "idle", n |-> Nothing, data |-> {}, to |-> Nothing]
Writer == Session \cup {"user"}

\* Where an open file may be: under a name of the folder, under a temporary
\* name, or no longer anywhere (also: nothing is open).
InFolder(n) == <<"file", n>>
InTemp(k) == <<"temp", k>>
Gone == <<"gone">>

Init ==
  /\ files \in UNION {[D -> {{c} : c \in Content}] : D \in SUBSET {Plain(p) : p \in Path}}
  /\ temp = <<>>
  /\ handle = [w \in Writer |-> Gone]
  /\ task = [w \in Session |-> NoFile]
  /\ choice = NoChoice
  /\ now = 1
  /\ used = [files |-> 0, edits |-> 0, resolves |-> 0]
  /\ written = [w \in Writer |-> {}]
  /\ crossed = {}
  /\ origin = [p \in Path |-> UNION {files[n] : n \in {m \in DOMAIN files : m.path = p}}]

-----------------------------------------------------------------------------
Has(n) == n \in DOMAIN files
Put(fs, n, c) == [m \in DOMAIN fs \cup {n} |-> IF m = n THEN c ELSE fs[m]]
Without(fs, n) == Restrict(fs, DOMAIN fs \ {n})
Renamed(fs, from, to) == Put(Without(fs, from), to, fs[from])

\* A file that is renamed stays open; one that is replaced or removed is gone.
Moved(from, to) ==
  handle' = [w \in Writer |-> CASE handle[w] = to -> Gone
                                [] handle[w] = from /\ from # to -> to
                                [] OTHER -> handle[w]]
Closed(w) == handle' = [handle EXCEPT ![w] = Gone]

\* Writing from the beginning of a file that holds something longer, which another
\* writer put there since it was opened, leaves the end of that.
Fills(w, parts) ==
  LET h == handle[w]
      Over(old) == {parts, parts \cup old}
  IN /\ Closed(w)
     /\ \/ /\ h[1] = "file"
           /\ \E new \in Over(files[h[2]]) : files' = [files EXCEPT ![h[2]] = new]
           /\ UNCHANGED temp
        \/ /\ h[1] = "temp"
           /\ \E new \in Over(temp[h[2]]) : temp' = [temp EXCEPT ![h[2]] = new]
           /\ UNCHANGED files
        \/ h = Gone /\ UNCHANGED <<files, temp>>

\* The names a writer works on once it has looked at the folder.
WorksOn(w) ==
  IF w = "user" THEN IF choice'.at = "idle" THEN {}
                     ELSE {choice'.n, choice'.to}
  ELSE IF task'[w].at \in {"idle", "check"} THEN {} ELSE {task'[w].n}

\* The history: names whose content this step changes are new to every writer
\* that works on them but the one that has just looked at the folder.
Track(looks) ==
  written' = [w \in Writer |->
    IF w \in looks THEN {}
    ELSE {n \in WorksOn(w) :
            \/ n \in written[w]
            \/ n \in DOMAIN files' /\ (~Has(n) \/ files[n] # files'[n])}]

-----------------------------------------------------------------------------
(* A session writes a file: backup_on_conflict, then the temporary file.   *)

\* The last frame of a file is in.
Arrive(w, n, c) ==
  /\ task[w].at = "idle" /\ used.files < MaxFiles
  /\ task' = [task EXCEPT ![w] = [at |-> "check", n |-> n, data |-> c]]
  /\ used' = [used EXCEPT !.files = @ + 1]
  /\ origin' = [origin EXCEPT ![n.path] = @ \cup {c}]
  /\ UNCHANGED <<files, temp, handle, choice, now, crossed>>
  /\ Track({})

\* Nothing there, or the same content: no backup.
NextStep(t) ==
  IF Has(t.n) /\ files[t.n] # {t.data} THEN "move" ELSE "write"

Check(w) ==
  /\ task[w].at = "check"
  /\ task' = [task EXCEPT ![w].at = NextStep(task[w])]
  /\ UNCHANGED <<files, temp, handle, choice, now, used, crossed, origin>>
  /\ Track({w})

\* The side that started the session labels the version it keeps "remote", the
\* other "local": backup_on_conflict compares the winner's label with "remote",
\* and the starting side passes the peer's id.
LoserLabel(w) == IF w \in Started THEN "remote" ELSE "local"

\* Mutant of BackupName: the backup's name has no time.
BackupNameUndated(w) == [task[w].n EXCEPT !.at = 1, !.label = LoserLabel(w), !.hash = task[w].data]

BackupName(w) == [task[w].n EXCEPT !.at = now, !.label = LoserLabel(w), !.hash = task[w].data]

\* The rename takes what is at the path now, over a backup of the same name.
Move(w) ==
  LET t == task[w]
  IN /\ t.at = "move"
     /\ IF Has(t.n)
        THEN /\ files' = Renamed(files, t.n, BackupName(w))
             /\ Moved(InFolder(t.n), InFolder(BackupName(w)))
             /\ task' = [task EXCEPT ![w].at = "write"]
        ELSE /\ task' = [task EXCEPT ![w] = NoFile]
             /\ UNCHANGED <<files, handle>>
     /\ UNCHANGED <<temp, choice, now, used, crossed, origin>>
     /\ Track({})

\* Mutant of TempName: one temporary name for the whole folder.
TempNameShared(n) == <<"tmp", 0, "local">>

\* with_extension replaces the extension: paths that differ in it share the name.
TempName(n) == <<Stem[n.path], n.copy, n.who>>

\* Mutant of Emptied: what an earlier session left stays.
EmptiedNot(k) == IF k \in DOMAIN temp THEN temp[k] ELSE {}

\* The file is created, or the one there is truncated.
Emptied(k) == {}

OpenTemp(w) ==
  LET t == task[w]
      k == TempName(t.n)
      others == {v \in Session \ {w} : task[v].at \in {"fill", "place"} /\ TempName(task[v].n) = k}
  IN /\ t.at = "write"
     /\ temp' = Put(temp, k, Emptied(k))
     /\ handle' = [handle EXCEPT ![w] = InTemp(k)]
     /\ task' = [task EXCEPT ![w].at = "fill"]
     /\ crossed' = IF others = {} THEN crossed ELSE crossed \cup others \cup {w}
     /\ UNCHANGED <<files, choice, now, used, origin>>
     /\ Track({})

FillTemp(w) ==
  /\ task[w].at = "fill"
  /\ Fills(w, {task[w].data})
  /\ task' = [task EXCEPT ![w].at = "place"]
  /\ UNCHANGED <<choice, now, used, crossed, origin>>
  /\ Track({})

\* The rename fails when another session has taken the temporary file; whatever
\* is at the temporary name then is removed.  (Where it fails for the target's
\* sake the session ends, as in Abort.)
Place(w) ==
  LET t == task[w]
      k == TempName(t.n)
  IN /\ t.at = "place"
     /\ \/ /\ k \in DOMAIN temp
           /\ files' = Put(files, t.n, temp[k])
           /\ temp' = Without(temp, k)
           /\ Moved(InTemp(k), InFolder(t.n))
           /\ task' = [task EXCEPT ![w] = NoFile]
           /\ crossed' = crossed \ {w}
        \/ /\ k \notin DOMAIN temp
           /\ task' = [task EXCEPT ![w].at = "clean"]
           /\ UNCHANGED <<files, temp, handle, crossed>>
     /\ UNCHANGED <<choice, now, used, origin>>
     /\ Track({})

Clean(w) ==
  /\ task[w].at = "clean"
  /\ temp' = Without(temp, TempName(task[w].n))
  /\ Moved(InTemp(TempName(task[w].n)), Gone)
  /\ task' = [task EXCEPT ![w] = NoFile]
  /\ crossed' = crossed \ {w}
  /\ UNCHANGED <<files, choice, now, used, origin>>
  /\ Track({})

\* A call fails, or the connection or the process ends where a step would have
\* followed.
Abort(w) ==
  /\ task[w].at # "idle"
  /\ Closed(w)
  /\ task' = [task EXCEPT ![w] = NoFile]
  /\ crossed' = crossed \ {w}
  /\ UNCHANGED <<files, temp, choice, now, used, origin>>
  /\ Track({})

-----------------------------------------------------------------------------
(* The user. *)

\* An editor writes into the file there is, or puts a new one in its place.
UserWrite(p, c) ==
  /\ used.edits < MaxEdits
  /\ used' = [used EXCEPT !.edits = @ + 1]
  /\ files' = Put(files, Plain(p), {c})
  /\ UNCHANGED handle \/ Moved(InFolder(Plain(p)), Gone)
  /\ origin' = [origin EXCEPT ![p] = @ \cup {c}]
  /\ UNCHANGED <<temp, task, choice, now, crossed>>
  /\ Track({})

\* resolve_conflict refuses what is no backup, and a backup that is gone.
Resolve(n) ==
  /\ choice.at = "idle" /\ used.resolves < MaxResolves
  /\ Has(n) /\ IsBackup(n)
  /\ used' = [used EXCEPT !.resolves = @ + 1]

WinnerName(n) == [n EXCEPT !.at = 0, !.label = "local", !.hash = Nothing]

\* keep_backup: read the backup, write it over the file, drop it.
KeepBackup(n) ==
  /\ Resolve(n)
  /\ choice' = [at |-> "overwrite", n |-> n, data |-> files[n], to |-> WinnerName(n)]
  /\ UNCHANGED <<files, temp, handle, task, now, crossed, origin>>
  /\ Track({"user"})

Overwrite ==
  /\ choice.at = "overwrite"
  /\ files' = Put(files, choice.to, {})
  /\ handle' = [handle EXCEPT !["user"] = InFolder(choice.to)]
  /\ choice' = [choice EXCEPT !.at = "fill"]
  /\ UNCHANGED <<temp, task, now, used, crossed, origin>>
  /\ Track({})

FillFile ==
  /\ choice.at = "fill"
  /\ Fills("user", choice.data)
  /\ choice' = [choice EXCEPT !.at = "drop"]
  /\ UNCHANGED <<task, now, used, crossed, origin>>
  /\ Track({})

Drop ==
  /\ choice.at = "drop"
  /\ files' = Without(files, choice.n)
  /\ Moved(InFolder(choice.n), Gone)
  /\ choice' = NoChoice
  /\ UNCHANGED <<temp, task, now, used, crossed, origin>>
  /\ Track({})

\* keep_original: drop the backup.
KeepOriginal(n) ==
  /\ Resolve(n)
  /\ choice' = [NoChoice EXCEPT !.at = "drop", !.n = n, !.data = files[n]]
  /\ UNCHANGED <<files, temp, handle, task, now, crossed, origin>>
  /\ Track({"user"})

\* The first name that is free.
CopyTo(n, k) ==
  /\ ~Has(CopyName(n, n.label, k))
  /\ \A j \in 1 .. k - 1 : Has(CopyName(n, n.label, j))

\* keep_both: find a free name, then rename the backup to it.
KeepBoth(n) ==
  /\ Resolve(n)
  /\ \E k \in 1 .. MaxCopies :
       /\ CopyTo(n, k)
       /\ choice' = [at |-> "rename", n |-> n, data |-> files[n],
                     to |-> CopyName(n, n.label, k)]
  /\ UNCHANGED <<files, temp, handle, task, now, crossed, origin>>
  /\ Track({"user"})

Rename ==
  /\ choice.at = "rename"
  /\ IF Has(choice.n)
     THEN /\ files' = Renamed(files, choice.n, choice.to)
          /\ Moved(InFolder(choice.n), InFolder(choice.to))
     ELSE UNCHANGED <<files, handle>>
  /\ choice' = NoChoice
  /\ UNCHANGED <<temp, task, now, used, crossed, origin>>
  /\ Track({})

\* A call fails, or the process ends, in the middle of a resolution.
Abandon ==
  /\ choice.at # "idle"
  /\ Closed("user")
  /\ choice' = NoChoice
  /\ UNCHANGED <<files, temp, task, now, used, crossed, origin>>
  /\ Track({})

\* `conflicts resolve <path> --keep <what>`: the only backup listed for the path;
\* with none or several it refuses, also when they are of the same folder.
CliResolve(m, keep) ==
  LET matches == {n \in DOMAIN files : IsBackup(n) /\ WinnerName(n) = m}
  IN /\ Cardinality(matches) = 1
     /\ \E n \in matches : CASE keep = "this"  -> KeepOriginal(n)
                             [] keep = "other" -> KeepBackup(n)
                             [] keep = "both"  -> KeepBoth(n)

Tick ==
  /\ now < MaxTime
  /\ now' = now + 1
  /\ UNCHANGED <<files, temp, handle, task, choice, used, written, crossed, origin>>

\* A peer may also send what this device once named a copy.
Names == {Plain(p) : p \in Path} \cup {n \in DOMAIN files : n.copy > 0 /\ ~IsBackup(n)}
            \cup {CopyName(Plain(p), "local", 1) : p \in Path}

Next ==
  \/ \E w \in Session : \/ \E c \in Content :
                             \E n \in Names : Arrive(w, n, c)
                        \/ Check(w) \/ Move(w) \/ OpenTemp(w) \/ FillTemp(w)
                        \/ Place(w) \/ Clean(w) \/ Abort(w)
  \/ \E p \in Path, c \in Content : UserWrite(p, c)
  \/ \E n \in DOMAIN files :
       KeepBackup(n) \/ KeepOriginal(n) \/ KeepBoth(n)
  \/ \E m \in Names, keep \in {"this", "other", "both"} : CliResolve(m, keep)
  \/ Overwrite \/ FillFile \/ Drop \/ Rename \/ Abandon \/ Tick

Spec == Init /\ [][Next]_vars

-----------------------------------------------------------------------------
\* The contents that some file of the folder holds whole.
Contents(fs) == {c \in Content : \E n \in DOMAIN fs : fs[n] = {c}}

\* The ways a content may leave a folder, each seen from the state before.
Explained(c) ==
  \/ used.edits # used'.edits                         \* the user overwrites it
  \/ choice.at \in {"overwrite", "fill"} /\ choice' # choice  \* the user prefers the backup
  \/ choice.at = "drop" /\ choice' # choice /\        \* ... or the file, or had it back
       (choice.data = {c} \/ choice.n \in written["user"])
  \/ choice.at = "rename" /\ choice.to \in written["user"]
  \/ \E w \in Session :
       /\ task[w] # task'[w]
       /\ \/ task[w].at = "place" /\ task[w].n \in written[w]
          \/ task[w].at = "place" /\ temp[TempName(task[w].n)] # {task[w].data}
          \/ task[w].at = "fill" /\ handle[w][1] = "file"
          \/ /\ task[w].at = "move"                   \* a backup of the same name
             /\ \E n \in DOMAIN files : /\ files[n] = {c} /\ IsBackup(n)
                                           /\ n.at = now /\ n.hash = task[w].data
                                           /\ n.path = task[w].n.path

\* No version is lost on its own: a content leaves a folder only where the user
\* replaces or discards it, or through one of the races the code leaves open:
\* the file was written after the session compared it (session.rs 436, no lock),
\* the temporary file it places is another session's by now, or was placed by
\* another session before this one wrote into it (session.rs 436-441), a backup
\* of the same path, second and incoming hash is replaced (session.rs 1483), the
\* name keep_both found free was taken, or the backup a resolution read was
\* replaced before it was dropped (conflicts.rs 200-250).
LossesExplained ==
  [][\A c \in Contents(files) \ Contents(files') : Explained(c)]_vars

\* Contents do not cross: a file, its copies and its backups hold only parts of
\* what the user wrote or a peer sent under that path, unless it came for a path
\* that differs only in its extension and went through the same temporary file
\* (session.rs 436).
ContentsStayHome ==
  \A n \in DOMAIN files, c \in Content :
    c \in files[n] => \E p \in Path : Stem[p] = Stem[n.path] /\ c \in origin[p]

\* Sessions place whole files: a file that is empty, cut off or mixed of several
\* contents is brought into the folder only by sessions that used one temporary
\* name at the same time, whatever crashes, failed calls and left-over temporary
\* files came before (session.rs 435-441, "temp file + rename to prevent
\* corruption on crash"), or by keep_backup, which writes over the file in place
\* (root.rs 133).
FilesAreWhole ==
  [][\A n \in DOMAIN files' :
       \/ \E c \in Content : files'[n] = {c}
       \/ \E m \in DOMAIN files : files[m] = files'[n]
       \/ \E w \in crossed : task'[w] # task[w]
       \/ choice.at \in {"overwrite", "fill"} /\ choice' # choice]_vars

\* Conflicts are seen: whatever the peers' presence and the place of the folder
\* among the others, of which some hold backups of the same relative names, a
\* backup on disk makes every headline speak of conflicts, and never of a system
\* that is in sync.  A folder paired with another device is marked in the
\* dashboard, listed under ATTENTION and shown as "conflict" to the app for each
\* of its peers exactly when `conflicts` lists one of its backups, which hides
\* only behind one of the same relative name in an earlier folder; in a folder
\* that cannot be opened nothing is seen, and the doctor says so.  The states
\* in the middle of a session's file or of a resolution add nothing, the same
\* backups are there before or after (health.rs 143-441, conflicts.rs 117-121,
\* status.rs 39-214, diagnostics.rs 211-255).
ConflictsShown ==
  LET found == {n \in DOMAIN files : IsBackup(n)}
      quiet == choice.at = "idle" /\ \A w \in Session : task[w].at = "idle"
  IN (quiet /\ found # {}) => \A f \in Folder, view \in Views, same \in SUBSET found :
       LET backup == [g \in Folder |-> IF g = f THEN found ELSE same]
           snap == Snapshot(backup, view)
           open == Folder \ view.gone
           hidden == IF \E g \in open : g < f THEN same ELSE {}
           seen == found \ hidden # {}
       IN IF f \in open
          THEN /\ SummaryNeedsAttention(snap.summary)
               /\ Headline(snap.summary) = "conflicts"
               /\ CliList(ListConflicts(backup, view), f) = {f} \X (found \ hidden)
               /\ Peers[f] # {Own} =>
                    /\ (f \in StatusAttention(snap) /\ DashboardMark(snap, f) = "warn") <=> seen
                    /\ \A d \in Peers[f] \ {Own} :
                         \E s \in ApiFolderStatus(snap, f) \cap ApiDeviceFolders(snap, d) :
                           s.health = "conflict" <=> seen
          ELSE CheckFolders(view) = "warn"
=============================================================================
