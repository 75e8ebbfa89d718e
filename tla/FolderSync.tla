------------------------------ MODULE FolderSync ------------------------------
(***************************************************************************)
(* A folder kept by several devices over time: the replicas, the users who *)
(* write and delete files, and what a session between two devices leaves.  *)
(* A session is one step here, with the outcome SyncSession establishes    *)
(* for a session that completes (Merged); one that is cut off has brought  *)
(* some of the paths.  What this module adds is how one session feeds the  *)
(* next: a received file carries the receiver's time of writing, a deleted *)
(* file leaves no trace, and the id a client's index is stamped with is    *)
(* the one it addresses the server by.                                     *)
(*                                                                         *)
(* Only the order of mtimes matters to the reconciler, so they are kept as *)
(* ranks: a step that writes a file gives it a rank above all others, and  *)
(* the ranks in use are always 1, 2, ... without gaps.                     *)
(*                                                                         *)
(* Conflict backups are files of the folder like any other; the paths of   *)
(* this module are the user's own.                                         *)
(***************************************************************************)
EXTENDS Reconcile, FiniteSets

CONSTANTS Device,      \* the devices that keep a replica
          Links,       \* pairs <<client, server>> that run sessions
          Id,          \* Id[d]: the id d serves under
          MaxEdits     \* bound on user edits

ASSUME FolderSyncAssumption ==
  /\ Links \subseteq Device \X Device
  /\ \A l \in Links : l[1] # l[2]
  /\ Id \in [Device -> DeviceId]
  /\ MaxEdits \in Nat
  /\ Missing \notin [data : Content, mtime : Nat] /\ Missing \notin Content
  /\ IsFiniteSet(Device) /\ IsFiniteSet(Path)

VARIABLES disk,     \* disk[d][p]: the file (data, mtime) or Missing
          edits,    \* number of user edits
          latest,   \* history: latest[p], the last user edit of p anywhere
          relayed   \* history: files that came from another device

folderVars == <<disk, edits, latest, relayed>>

File == [data : Content, mtime : Nat]

\* latest[p] is who edited p last and what it left (Missing: a deletion).
None == [by |-> Missing, data |-> Missing]

Scan(d) == [p \in Path |-> IF disk[d][p] = Missing THEN Missing
                           ELSE [hash  |-> disk[d][p].data,
                                 mtime |-> disk[d][p].mtime]]

Has(d, p, c) == disk[d][p] # Missing /\ disk[d][p].data = c

\* The snapshots the two ends of a session reconcile.
\* Mutant of ClientSnap: the client's index carries its own id.
ClientSnapOwnId(c, id) == IndexToSnapshot(Scan(c), Id[c])
ClientSnap(c, id) == IndexToSnapshot(Scan(c), id)
ServerSnap(s)     == IndexToSnapshot(Scan(s), Id[s])

\* What a completed session leaves on both ends.
Outcome(c, s, id) == Merged(ClientSnap(c, id), ServerSnap(s))

\* Every mtime in use, and a time later than all of them.
Times(dk) == {dk[e[1]][e[2]].mtime : e \in
                {x \in Device \X Path : dk[x[1]][x[2]] # Missing}}
JustNow == Cardinality(Times(disk)) + 1

\* The same order of mtimes, counted from 1.
Ranked(dk, times) ==
  [d \in Device |-> [p \in Path |->
     IF dk[d][p] = Missing THEN Missing
     ELSE [dk[d][p] EXCEPT !.mtime = Cardinality({u \in times : u <= @})]]]

\* The files after a step.
Becomes(dk) == \E times \in {Times(dk)} : disk' = Ranked(dk, times)

\* d's file after the session: its own, or the received one written just now.
Received(d, p, m) ==
  IF m = Missing \/ Has(d, p, m.hash)
  THEN disk[d][p]
  ELSE [data |-> m.hash, mtime |-> JustNow]

-----------------------------------------------------------------------------
\* The replicas start in step, some files missing.
FolderInit ==
  /\ \E file \in [Path -> [data : Content, mtime : {1}] \cup {Missing}] :
       disk = [d \in Device |-> file]
  /\ edits = 0
  /\ latest = [p \in Path |-> None]
  /\ relayed = {}

\* A session of client c, which addresses server s by id, as far as it got: done
\* are the paths that were settled.
Transfer(c, s, id, done) ==
  \E result \in {Outcome(c, s, id)} :
    LET After(d) == [p \in Path |-> IF p \in done THEN Received(d, p, result[p])
                                    ELSE disk[d][p]]
    IN \E dk \in {[disk EXCEPT ![c] = After(c), ![s] = After(s)]} :
         /\ Becomes(dk)
         /\ relayed' = relayed \cup {e \in {c, s} \X Path : dk[e[1]][e[2]] # disk[e[1]][e[2]]}
         /\ UNCHANGED <<edits, latest>>

UserWrite(d, p, c) ==
  /\ edits < MaxEdits
  /\ ~ Has(d, p, c)
  /\ \E dk \in {[disk EXCEPT ![d][p] = [data |-> c, mtime |-> JustNow]]} : Becomes(dk)
  /\ edits' = edits + 1
  /\ latest' = [latest EXCEPT ![p] = [by |-> d, data |-> c]]
  /\ relayed' = relayed \ {<<d, p>>}

UserDelete(d, p) ==
  /\ edits < MaxEdits
  /\ disk[d][p] # Missing
  /\ \E dk \in {[disk EXCEPT ![d][p] = Missing]} : Becomes(dk)
  /\ edits' = edits + 1
  /\ latest' = [latest EXCEPT ![p] = [by |-> d, data |-> Missing]]
  /\ relayed' = relayed \ {<<d, p>>}

-----------------------------------------------------------------------------
\* Two replicas hold the same content at every path.
Equal(d, e) ==
  \A p \in Path :
    IF disk[d][p] = Missing THEN disk[e][p] = Missing
    ELSE disk[e][p] # Missing /\ disk[d][p].data = disk[e][p].data

(***************************************************************************)
(* "newer-mtime-wins" (README, Integrity & comparison), "the newest        *)
(* version wins" (docs/index.html): a session never replaces the content   *)
(* of the last edit of a path by something else.                           *)
(***************************************************************************)
NewestEditSurvives ==
  [][\A d \in Device, p \in Path :
       /\ edits' = edits
       /\ latest[p] # None
       /\ Has(d, p, latest[p].data)
       => Has(d, p, latest[p].data)']_folderVars
=============================================================================
