----------------------------- MODULE SyncSession -----------------------------
(***************************************************************************)
(* One sync session over one connection: run_sync_session on the client,   *)
(* handle_server_session on the server (sync_engine/session.rs), from the  *)
(* exchange of indexes to the session-history row.  TLS, trust and Hello   *)
(* come before it.                                                         *)
(*                                                                         *)
(* Each end is a task that interleaves with the other end, with the        *)
(* network and with the user's edits at every await: a file is read, each  *)
(* frame is written, a frame is read, the old file is examined, moved      *)
(* aside and replaced, in separate steps.                                  *)
(***************************************************************************)
EXTENDS Reconcile, Sequences, FiniteSets

CONSTANTS ClientKey,  \* id in the client's index (the id it knows the server by)
          ServerKey,  \* id in the server's index (its own device_info.id)
          Now,        \* mtime of anything written while the session runs
          Chunks,     \* frames a file is sent in
          SockCap,    \* frames the two socket buffers of a direction hold
          TooBig,     \* contents validate_chunk refuses (256 MiB of buffers)
          DryRun,     \* the client may ask for the plan only
          Faults,     \* what may fail: the network ("reset", "silent"), "disk"
          MaxEdits,   \* bound on user edits
          EventCap,   \* slots of the event channel an end reports to
          Drained,    \* the ends whose front end reads that channel
          NoIndex, NoWrite

Peer == {"client", "server"}
Other(d) == IF d = "client" THEN "server" ELSE "client"
Key(d)   == IF d = "client" THEN ClientKey ELSE ServerKey

File == [data : Content, mtime : Nat]
Disk == [Path -> File \cup {Missing}]

IndexMsg == [kind : {"index"}]
ChunkMsg == [kind : {"chunk"}, path : Path, data : Content, last : BOOLEAN]
AckMsg   == [kind : {"ack"}, path : Path, ok : BOOLEAN]
EofMsg   == [kind : {"eof"}]
Message  == IndexMsg \cup ChunkMsg \cup AckMsg \cup EofMsg

\* A received file on its way to disk (see Commit below).
Write == [path : Path, data : Content, step : {"check", "aside", "place"}]

ASSUME SessionAssumption ==
  /\ ClientKey \in DeviceId /\ ServerKey \in DeviceId
  /\ Now \in Nat /\ Chunks \in Nat \ {0} /\ SockCap \in Nat \ {0}
  /\ TooBig \subseteq Content /\ DryRun \in BOOLEAN /\ MaxEdits \in Nat
  /\ EventCap \in Nat /\ Drained \subseteq Peer
  /\ Faults \subseteq {"reset", "silent", "disk"}
  /\ Missing \notin File /\ NoIndex \notin Index /\ NoWrite \notin Write
  /\ IsFiniteSet(Path)   \* a folder holds finitely many files

VARIABLES
  disk,      \* disk[d]: the replica of d
  aside,     \* aside[d]: conflict backups made by d, as <<path, content>>
  pc,        \* pc[d]: where d's task is
  index,     \* index[d]: the index d scanned and sent, or NoIndex
  todo,      \* todo[d]: files d has still to push
  outbox,    \* outbox[d]: frames d is blocked writing
  wire,      \* wire[d]: frames written by d and not read by its peer
  incoming,  \* incoming[d]: incoming_files, paths received in part
  writing,   \* writing[d]: the file d is committing, or NoWrite
  pushed,    \* pushed[d]: files d has sent
  acked,     \* acked_pushes of the client
  stored,    \* stored[d]: files d has received and committed
  gotEof,    \* the server has read the client's sentinel
  open,      \* open[d]: d has not closed its end
  link,      \* "up", or how the network failed
  lastSync,  \* lastSync[d]: d has stamped last_sync_at
  note,      \* note[d]: d has an event to send before it goes on
  room,      \* room[d]: free slots of d's event channel
  edits,     \* number of user edits
  touched,   \* history: paths edited since their index was built
  late       \* history: <<d, p>> edited in the middle of d's commit of p

netVars  == <<outbox, wire, open, link>>
taskVars == <<pc, index, todo, incoming, writing, pushed, acked, stored,
              gotEof, lastSync>>
chanVars == <<note, room>>
userVars == <<edits, touched, late>>
vars == <<disk, aside, netVars, taskVars, chanVars, userVars>>

-----------------------------------------------------------------------------
\* What d plans: the reconciler run on d's index and the one it received.
SnapOf(d) == IndexToSnapshot(index[d], Key(d))
Plan(d)   == SessionPlan(SnapOf(d), SnapOf(Other(d)))

PushSet(d) == IF d = "client" THEN ClientPush(Plan(d))
                              ELSE ServerPush(Plan(d), SnapOf(d))
PullSet    == ClientPull(Plan("client"), SnapOf("server"))

\* The files d expects from its peer (total_files counts them on the server).
Expected(d) == IF d = "client" THEN PullSet ELSE Plan("server").downloads

Scan(d) == [p \in Path |-> IF disk[d][p] = Missing THEN Missing
                           ELSE [hash  |-> disk[d][p].data,
                                 mtime |-> disk[d][p].mtime]]

Ended == {"complete", "cutoff", "failed", "dry"}

Running(d) == pc[d] \notin Ended

\* The connection no longer carries frames from d to its peer.
Severed(d) == link # "up" \/ ~ open[Other(d)]

\* A reset destroys frames that were sent and not read yet.
Prefix(s) == {SubSeq(s, 1, n) : n \in 0..Len(s)}

-----------------------------------------------------------------------------
Init ==
  /\ disk \in [Peer -> [Path -> [data : Content, mtime : 1..(Now - 1)]
                                 \cup {Missing}]]
  /\ aside = [d \in Peer |-> {}]
  /\ pc = [d \in Peer |-> IF d = "client" THEN "scan" ELSE "await"]
  /\ index = [d \in Peer |-> NoIndex]
  /\ todo = [d \in Peer |-> {}]
  /\ outbox = [d \in Peer |-> <<>>]
  /\ wire = [d \in Peer |-> <<>>]
  /\ incoming = [d \in Peer |-> {}]
  /\ writing = [d \in Peer |-> NoWrite]
  /\ pushed = [d \in Peer |-> {}]
  /\ acked = {}
  /\ stored = [d \in Peer |-> {}]
  /\ gotEof = FALSE
  /\ open = [d \in Peer |-> TRUE]
  /\ link = "up"
  /\ lastSync = [d \in Peer |-> FALSE]
  /\ note = [d \in Peer |-> FALSE]
  /\ room \in {r \in [Peer -> 0..EventCap] : \A d \in Drained : r[d] = EventCap}
  /\ edits = 0
  /\ touched = {}
  /\ late = {}

-----------------------------------------------------------------------------
(***************************************************************************)
(* The end of a task.  Leave closes d's socket; a close with unread frames *)
(* makes the kernel reset the connection, which may destroy what d had     *)
(* sent.  A task that returns an error stamps nothing.                     *)
(***************************************************************************)
Leave(d, how) ==
  /\ pc' = [pc EXCEPT ![d] = how]
  /\ open' = [open EXCEPT ![d] = FALSE]
  /\ outbox' = [outbox EXCEPT ![d] = <<>>]
  /\ IF wire[Other(d)] = <<>>
     THEN wire' = wire
     ELSE \E s \in Prefix(wire[d]) :
            wire' = [wire EXCEPT ![d] = s, ![Other(d)] = <<>>]

Fail(d) ==
  /\ Leave(d, "failed")
  /\ writing' = [writing EXCEPT ![d] = NoWrite]
  /\ note' = [note EXCEPT ![d] = FALSE]
  /\ UNCHANGED <<disk, aside, link, index, todo, incoming, pushed, acked,
                 stored, gotEof, lastSync, room, userVars>>

(***************************************************************************)
(* write_all of the next frame: it waits while the buffers are full, with  *)
(* no timeout.  On a severed connection the kernel may still take the      *)
(* frame (the peer answers with a reset that destroys what it had sent),   *)
(* or the write fails and the task returns the error.                      *)
(***************************************************************************)
Send(d) ==
  /\ outbox[d] # <<>>
  /\ ~ Severed(d)
  /\ Len(wire[d]) < SockCap
  /\ wire' = [wire EXCEPT ![d] = Append(@, Head(outbox[d]))]
  /\ outbox' = [outbox EXCEPT ![d] = Tail(@)]
  /\ UNCHANGED <<disk, aside, open, link, taskVars, chanVars, userVars>>

SendSevered(d) ==
  /\ outbox[d] # <<>>
  /\ Severed(d)
  /\ \/ /\ outbox' = [outbox EXCEPT ![d] = Tail(@)]
        /\ \E s \in Prefix(wire[Other(d)]) :
             wire' = [wire EXCEPT ![Other(d)] = s]
        /\ UNCHANGED <<disk, aside, open, link, taskVars, chanVars, userVars>>
     \/ link # "silent" /\ Fail(d)

(***************************************************************************)
(* Events.  Per file a task reports its progress (try_send, dropped when   *)
(* the channel is full) and then sends an event, which waits for a slot    *)
(* with no timeout.  Only the app and `ferrisync serve` read the channel:  *)
(* that of a command-line sync or watch is never read, is shared by all    *)
(* the sessions of the process, and may be full to any degree.             *)
(***************************************************************************)
Progress(d) ==
  room' = IF d \in Drained \/ room[d] = 0 THEN room
          ELSE [room EXCEPT ![d] = @ - 1]

Tell(d) ==
  /\ note[d] /\ outbox[d] = <<>>
  /\ d \in Drained \/ room[d] > 0
  /\ note' = [note EXCEPT ![d] = FALSE]
  /\ Progress(d)
  /\ UNCHANGED <<disk, aside, netVars, taskVars, userVars>>

\* d waits for ever for a slot of a channel nobody reads.
Stuck(d) == note[d] /\ d \notin Drained /\ room[d] = 0

\* A task goes on when its writes and events are out and no commit is under way.
Free(d) == outbox[d] = <<>> /\ ~ note[d] /\ writing[d] = NoWrite

-----------------------------------------------------------------------------
(***************************************************************************)
(* Exchange of indexes and planning.  Neither read has a timeout.          *)
(***************************************************************************)
ClientScan ==
  /\ pc["client"] = "scan"
  /\ index' = [index EXCEPT !["client"] = Scan("client")]
  /\ outbox' = [outbox EXCEPT !["client"] = <<[kind |-> "index"]>>]
  /\ pc' = [pc EXCEPT !["client"] = "await"]
  /\ UNCHANGED <<disk, aside, wire, open, link, todo, incoming, writing,
                 pushed, acked, stored, gotEof, lastSync, chanVars, userVars>>

\* The server answers the client's index with its own and plans at once.
ServerIndex ==
  /\ pc["server"] = "await"
  /\ wire["client"] # <<>> /\ Head(wire["client"]).kind = "index"
  /\ wire' = [wire EXCEPT !["client"] = Tail(@)]
  /\ index' = [index EXCEPT !["server"] = Scan("server")]
  /\ outbox' = [outbox EXCEPT !["server"] = <<[kind |-> "index"]>>]
  /\ todo' = [todo EXCEPT !["server"] = PushSet("server")']
  /\ pc' = [pc EXCEPT !["server"] = "push"]
  /\ UNCHANGED <<disk, aside, open, link, incoming, writing, pushed, acked,
                 stored, gotEof, lastSync, chanVars, userVars>>

\* The client plans; a dry run returns here, dropping the connection.
\* Mutant of DryRunReturn: the dry run is stamped as a synchronisation.
DryRunStamps ==
  /\ DryRun
  /\ pc' = [pc EXCEPT !["client"] = "dry"]
  /\ open' = [open EXCEPT !["client"] = FALSE]
  /\ wire' = [wire EXCEPT !["server"] = <<>>]
  /\ lastSync' = [lastSync EXCEPT !["client"] = TRUE]
  /\ UNCHANGED todo

DryRunReturn ==
  /\ DryRun
  /\ pc' = [pc EXCEPT !["client"] = "dry"]
  /\ open' = [open EXCEPT !["client"] = FALSE]
  /\ wire' = [wire EXCEPT !["server"] = <<>>]
  /\ UNCHANGED <<todo, lastSync>>

ClientIndex ==
  /\ pc["client"] = "await" /\ Free("client")
  /\ wire["server"] # <<>> /\ Head(wire["server"]).kind = "index"
  /\ \/ DryRunReturn
     \/ /\ pc' = [pc EXCEPT !["client"] = "push"]
        /\ todo' = [todo EXCEPT !["client"] = PushSet("client")]
        /\ wire' = [wire EXCEPT !["server"] = Tail(@)]
        /\ UNCHANGED <<open, lastSync>>
  /\ UNCHANGED <<disk, aside, outbox, link, index, incoming, writing, pushed,
                 acked, stored, gotEof, chanVars, userVars>>

\* The connection ends while d waits for the other index: the task fails.
\* Mutant of AwaitError: a reset connection goes unnoticed.
AwaitErrorOnClose(d) ==
  /\ pc[d] = "await" /\ Free(d)
  /\ wire[Other(d)] = <<>>
  /\ ~ open[Other(d)]
  /\ Fail(d)

AwaitError(d) ==
  /\ pc[d] = "await" /\ Free(d)
  /\ wire[Other(d)] = <<>>
  /\ link = "reset" \/ ~ open[Other(d)]
  /\ Fail(d)

-----------------------------------------------------------------------------
(***************************************************************************)
(* Pushing.  The order is that of a HashSet.  The file is read now, not    *)
(* when the index was built; one that cannot be read is skipped.           *)
(***************************************************************************)
FileChunks(p, c) ==
  [i \in 1..Chunks |->
     [kind |-> "chunk", path |-> p, data |-> c, last |-> (i = Chunks)]]

PushFile(d) ==
  /\ pc[d] = "push" /\ Free(d)
  /\ \E p \in todo[d] :
       /\ todo' = [todo EXCEPT ![d] = @ \ {p}]
       /\ IF disk[d][p] = Missing
          THEN UNCHANGED <<outbox, pushed, chanVars>>
          ELSE /\ outbox' = [outbox EXCEPT ![d] = FileChunks(p, disk[d][p].data)]
               /\ pushed' = [pushed EXCEPT ![d] = @ \cup {p}]
               /\ note' = [note EXCEPT ![d] = TRUE] /\ Progress(d)
  /\ UNCHANGED <<disk, aside, wire, open, link, pc, index, incoming, writing,
                 acked, stored, gotEof, lastSync, userVars>>

\* The sentinel: an Ack with an empty path.  d starts reading after it.
Sentinel(d) ==
  /\ pc[d] = "push" /\ Free(d) /\ todo[d] = {}
  /\ outbox' = [outbox EXCEPT ![d] = <<[kind |-> "eof"]>>]
  /\ pc' = [pc EXCEPT ![d] = "recv"]
  /\ UNCHANGED <<disk, aside, wire, open, link, index, todo, incoming,
                 writing, pushed, acked, stored, gotEof, lastSync, chanVars, userVars>>

-----------------------------------------------------------------------------
(***************************************************************************)
(* Receiving.  The client leaves its loop when every push is acknowledged  *)
(* (the ok flag is not looked at) and as many files as planned have been   *)
(* committed; the server when it has read the client's sentinel.           *)
(***************************************************************************)
\* Mutant of Finished: the pulls are not waited for.
FinishedOnAcks(d) ==
  /\ incoming[d] = {}
  /\ IF d = "client" THEN Cardinality(acked) >= Cardinality(pushed[d])
                     ELSE gotEof

Finished(d) ==
  /\ incoming[d] = {}
  /\ IF d = "client"
     THEN /\ Cardinality(acked) >= Cardinality(pushed[d])
          /\ Cardinality(stored[d]) >= Cardinality(PullSet)
     ELSE gotEof

Receiving(d) == pc[d] = "recv" /\ Free(d) /\ ~ Finished(d)

Next1(d, kind) == wire[Other(d)] # <<>> /\ Head(wire[Other(d)]).kind = kind

\* A chunk that validate_chunk refuses ends the task with an error.
RecvTooBig(d) ==
  /\ Receiving(d) /\ Next1(d, "chunk")
  /\ Head(wire[Other(d)]).data \in TooBig
  /\ Fail(d)

\* A chunk is buffered; the last one is checked against the announced hash.
\* Mutant of RecvChunk: the hash is not compared.
RecvChunkUnchecked(d) ==
  /\ Receiving(d) /\ Next1(d, "chunk")
  /\ LET m == Head(wire[Other(d)])
     IN /\ m.data \notin TooBig
        /\ IF ~ m.last
           THEN /\ incoming' = [incoming EXCEPT ![d] = @ \cup {m.path}]
                /\ UNCHANGED writing
           ELSE /\ incoming' = [incoming EXCEPT ![d] = @ \ {m.path}]
                /\ writing' = [writing EXCEPT ![d] =
                     [path |-> m.path, data |-> m.data, step |-> "check"]]
  /\ wire' = [wire EXCEPT ![Other(d)] = Tail(@)]
  /\ UNCHANGED <<disk, aside, outbox, open, link, pc, index, todo, pushed,
                 acked, stored, gotEof, lastSync, chanVars, userVars>>

RecvChunk(d) ==
  /\ Receiving(d) /\ Next1(d, "chunk")
  /\ LET m == Head(wire[Other(d)])
         announced == index[Other(d)][m.path]
     IN /\ m.data \notin TooBig
        /\ IF ~ m.last
           THEN /\ incoming' = [incoming EXCEPT ![d] = @ \cup {m.path}]
                /\ UNCHANGED <<outbox, writing>>
           ELSE /\ incoming' = [incoming EXCEPT ![d] = @ \ {m.path}]
                /\ IF announced # Missing /\ announced.hash # m.data
                   THEN /\ outbox' = [outbox EXCEPT ![d] =
                             <<[kind |-> "ack", path |-> m.path, ok |-> FALSE]>>]
                        /\ UNCHANGED writing
                   ELSE /\ writing' = [writing EXCEPT ![d] =
                             [path |-> m.path, data |-> m.data, step |-> "check"]]
                        /\ UNCHANGED outbox
  /\ wire' = [wire EXCEPT ![Other(d)] = Tail(@)]
  /\ UNCHANGED <<disk, aside, open, link, pc, index, todo, pushed, acked,
                 stored, gotEof, lastSync, chanVars, userVars>>

RecvAck(d) ==
  /\ Receiving(d) /\ Next1(d, "ack")
  /\ LET p == Head(wire[Other(d)]).path
     IN acked' = IF d = "client" THEN acked \cup ({p} \cap pushed[d]) ELSE acked
  /\ wire' = [wire EXCEPT ![Other(d)] = Tail(@)]
  /\ UNCHANGED <<disk, aside, outbox, open, link, pc, index, todo, incoming,
                 writing, pushed, stored, gotEof, lastSync, chanVars, userVars>>

RecvEof(d) ==
  /\ Receiving(d) /\ Next1(d, "eof")
  /\ gotEof' = (gotEof \/ d = "server")
  /\ wire' = [wire EXCEPT ![Other(d)] = Tail(@)]
  /\ UNCHANGED <<disk, aside, outbox, open, link, pc, index, todo, incoming,
                 writing, pushed, acked, stored, lastSync, chanVars, userVars>>

(***************************************************************************)
(* Committing a received file, one step per await: backup_on_conflict      *)
(* reads the target, and renames it when its content differs; the data go  *)
(* to a temporary file that is renamed over the target.  The target gets   *)
(* the time of the write, not the sender's mtime.                          *)
(***************************************************************************)
Committing(d, step) == writing[d] # NoWrite /\ writing[d].step = step

\* backup_on_conflict finds a target with other content.
InTheWay(d) ==
  LET w == writing[d]
      f == disk[d][w.path]
  IN f # Missing /\ f.data # w.data

\* Mutants of NextStep: equal content is skipped; no backup is made.
NextStepOrSkip(d) == IF InTheWay(d) THEN "aside" ELSE "skip"
NextStepPlace(d) == "place"
NextStep(d) == IF InTheWay(d) THEN "aside" ELSE "place"

CheckTarget(d) ==
  /\ Committing(d, "check")
  /\ writing' = [writing EXCEPT ![d].step = NextStep(d)]
  /\ UNCHANGED <<disk, aside, netVars, pc, index, todo, incoming, pushed,
                 acked, stored, gotEof, lastSync, chanVars, userVars>>

MoveAside(d) ==
  /\ Committing(d, "aside")
  /\ LET p == writing[d].path
     IN \/ /\ disk[d][p] # Missing
           /\ aside' = [aside EXCEPT ![d] = @ \cup {<<p, disk[d][p].data>>}]
           /\ disk' = [disk EXCEPT ![d][p] = Missing]
           /\ writing' = [writing EXCEPT ![d].step = "place"]
           /\ note' = [note EXCEPT ![d] = TRUE]
           /\ UNCHANGED <<netVars, pc, index, todo, incoming, pushed, acked,
                          stored, gotEof, lastSync, room, userVars>>
        \/ disk[d][p] = Missing /\ Fail(d)

Place(d) ==
  /\ Committing(d, "place") /\ ~ note[d]
  /\ LET w == writing[d]
     IN /\ disk' = [disk EXCEPT ![d][w.path] = [data |-> w.data, mtime |-> Now]]
        /\ stored' = [stored EXCEPT ![d] = @ \cup {w.path}]
        /\ outbox' = [outbox EXCEPT ![d] =
             <<[kind |-> "ack", path |-> w.path, ok |-> TRUE]>>]
  /\ writing' = [writing EXCEPT ![d] = NoWrite]
  /\ note' = [note EXCEPT ![d] = TRUE] /\ Progress(d)
  /\ UNCHANGED <<aside, wire, open, link, pc, index, todo, incoming, pushed,
                 acked, gotEof, lastSync, userVars>>

\* The temporary file cannot be written or renamed: the task fails.
PlaceError(d) ==
  /\ "disk" \in Faults
  /\ Committing(d, "place") /\ ~ note[d]
  /\ Fail(d)

-----------------------------------------------------------------------------
(***************************************************************************)
(* Leaving the loop: drain for 200 ms, close, stamp last_sync_at, record   *)
(* the session.  The drain may or may not get hold of everything that is   *)
(* on its way.  A loop left on a read error or on a timeout ends the same  *)
(* way and reports success too ("cutoff").                                 *)
(***************************************************************************)
Conclude(d, how) ==
  /\ \/ /\ wire' = [wire EXCEPT ![Other(d)] = <<>>]
        /\ pc' = [pc EXCEPT ![d] = how]
        /\ open' = [open EXCEPT ![d] = FALSE]
        /\ UNCHANGED outbox
     \/ wire[Other(d)] # <<>> /\ Leave(d, how)
  /\ lastSync' = [lastSync EXCEPT ![d] = TRUE]
  /\ UNCHANGED <<disk, aside, link, index, todo, incoming, writing, pushed,
                 acked, stored, gotEof, chanVars, userVars>>

Finish(d) == pc[d] = "recv" /\ Free(d) /\ Finished(d) /\ Conclude(d, "complete")

ReadError(d) ==
  /\ Receiving(d) /\ wire[Other(d)] = <<>>
  /\ link = "reset" \/ ~ open[Other(d)]
  /\ Conclude(d, "cutoff")

\* Mutant of Timeout: the server's loop has none.
TimeoutOfClient(d) ==
  /\ d = "client"
  /\ Receiving(d) /\ wire[Other(d)] = <<>>
  /\ Conclude(d, "cutoff")

Timeout(d) ==
  /\ Receiving(d) /\ wire[Other(d)] = <<>>
  /\ Conclude(d, "cutoff")

-----------------------------------------------------------------------------
(***************************************************************************)
(* The environment: the network fails, the user edits files.               *)
(***************************************************************************)
LinkDown ==
  /\ link = "up"
  /\ link' \in Faults \cap {"reset", "silent"}
  /\ \E s \in Prefix(wire["client"]), t \in Prefix(wire["server"]) :
       wire' = [d \in Peer |-> IF d = "client" THEN s ELSE t]
  /\ UNCHANGED <<disk, aside, outbox, open, taskVars, chanVars, userVars>>

Edit(d, p, f) ==
  /\ edits < MaxEdits /\ (Running("client") \/ Running("server"))
  /\ disk[d][p] # f
  /\ disk' = [disk EXCEPT ![d][p] = f]
  /\ edits' = edits + 1
  /\ touched' = IF index[d] = NoIndex THEN touched ELSE touched \cup {p}
  /\ late' = IF Committing(d, "place") /\ writing[d].path = p
             THEN late \cup {<<d, p>>} ELSE late
  /\ UNCHANGED <<aside, netVars, taskVars, chanVars>>

UserWrite(d)  == \E p \in Path, c \in Content :
                   Edit(d, p, [data |-> c, mtime |-> Now])
UserDelete(d) == \E p \in Path : Edit(d, p, Missing)

-----------------------------------------------------------------------------
Talk(d)   == Send(d) \/ SendSevered(d) \/ Tell(d) \/ AwaitError(d)
Push(d)   == PushFile(d) \/ Sentinel(d)
Recv(d)   == RecvTooBig(d) \/ RecvChunk(d) \/ RecvAck(d) \/ RecvEof(d)
Commit(d) == CheckTarget(d) \/ MoveAside(d) \/ Place(d) \/ PlaceError(d)
Depart(d) == Finish(d) \/ ReadError(d) \/ Timeout(d)

Task(d) == Talk(d) \/ Push(d) \/ Recv(d) \/ Commit(d) \/ Depart(d)

Exchange == ClientScan \/ ServerIndex \/ ClientIndex

Done == ~ Running("client") /\ ~ Running("server")

Next ==
  \/ Exchange
  \/ \E d \in Peer : Task(d)
  \/ LinkDown
  \/ \E d \in Peer : UserWrite(d) \/ UserDelete(d)
  \/ Done /\ UNCHANGED vars

Spec == Init /\ [][Next]_vars

\* Each task runs whenever it can; the timer of a timeout fires.
FairSpec == Spec /\ WF_vars(Exchange) /\ \A d \in Peer : WF_vars(Task(d))

-----------------------------------------------------------------------------
\* Types of the variables.
TypeOK ==
  /\ disk \in [Peer -> Disk]
  /\ aside \in [Peer -> SUBSET (Path \X Content)]
  /\ pc \in [Peer -> {"scan", "await", "push", "recv"} \cup Ended]
  /\ index \in [Peer -> Index \cup {NoIndex}]
  /\ todo \in [Peer -> SUBSET Path]
  /\ outbox \in [Peer -> Seq(Message)]
  /\ wire \in [Peer -> Seq(Message)]
  /\ incoming \in [Peer -> SUBSET Path]
  /\ writing \in [Peer -> Write \cup {NoWrite}]
  /\ pushed \in [Peer -> SUBSET Path]
  /\ acked \in SUBSET Path
  /\ stored \in [Peer -> SUBSET Path]
  /\ gotEof \in BOOLEAN
  /\ open \in [Peer -> BOOLEAN]
  /\ link \in {"up", "reset", "silent"}
  /\ lastSync \in [Peer -> BOOLEAN]
  /\ note \in [Peer -> BOOLEAN]
  /\ room \in [Peer -> 0..EventCap]
  /\ edits \in Nat
  /\ touched \in SUBSET Path
  /\ late \in SUBSET (Peer \X Path)

(***************************************************************************)
(* The client requests nothing: "the server proactively pushes everything  *)
(* our index says we lack (it computes the identical set)"                 *)
(* (session.rs, run_sync_session).  Whatever was edited between the two    *)
(* scans, each end expects exactly the files the other end plans to push.  *)
(***************************************************************************)
MirrorPlans ==
  index["client"] # NoIndex /\ index["server"] # NoIndex =>
    \A d \in Peer : PushSet(d) = Expected(Other(d))

(***************************************************************************)
(* "Divergent files transfer exactly once" (README, Synchronization): no   *)
(* path is committed by both ends, and none is committed a second time.    *)
(***************************************************************************)
TransferredOnce ==
  /\ stored["client"] \cap stored["server"] = {}
  /\ \A d \in Peer :
       writing[d] # NoWrite => writing[d].path \notin stored["client"] \cup stored["server"]

(***************************************************************************)
(* A session that the client ends by its own condition has brought the two *)
(* replicas to the same content on every path no user touched after the    *)
(* scans, the content the reconciler chose, also when the connection was   *)
(* reset, the server timed out or closed early, or a write failed.         *)
(***************************************************************************)
CompleteMerges ==
  pc["client"] = "complete" =>
    LET m == Merged(SnapOf("client"), SnapOf("server"))
    IN \A p \in Path \ touched, d \in Peer :
         IF m[p] = Missing THEN disk[d][p] = Missing
         ELSE disk[d][p] # Missing /\ disk[d][p].data = m[p].hash

(***************************************************************************)
(* "Dry-run: report the reconciliation plan without transferring anything" *)
(* (session.rs): although the server does not know and pushes its files,   *)
(* no file is replaced or moved on either end, and the client, which goes  *)
(* without a word, stamps no synchronisation.                              *)
(***************************************************************************)
DryRunLeavesFiles ==
  pc["client"] = "dry" => /\ \A d \in Peer : stored[d] = {} /\ aside[d] = {}
                          /\ ~ lastSync["client"]

(***************************************************************************)
(* A session never destroys content: when one of its steps replaces or     *)
(* removes a file, the old content is in a conflict backup of the same     *)
(* replica (backup_on_conflict), unless the user wrote it after the backup *)
(* was made and before the rename over the target.                         *)
(***************************************************************************)
Kept(d, p, c) ==
  \/ disk'[d][p] # Missing /\ disk'[d][p].data = c
  \/ <<p, c>> \in aside'[d]

SyncPreserves ==
  [][edits' = edits =>
       \A d \in Peer, p \in Path :
         disk[d][p] # Missing => Kept(d, p, disk[d][p].data) \/ <<d, p>> \in late]_vars

(***************************************************************************)
(* The session implements its contract: the newer file wins, the server on *)
(* a tie, each loser adopts exactly the announced content and at most      *)
(* once, however frames, failures and edits interleave.                    *)
(***************************************************************************)
Contract == INSTANCE SyncContract WITH SameKey <- (ClientKey = ServerKey)
ImplementsContract == Contract!Spec

(***************************************************************************)
(* An end that has reached its receive loop gets out of it, whatever the   *)
(* network does: SESSION_TIMEOUT covers every read of the loop.  It does   *)
(* not cover the events: an end nobody listens to may stay in one.         *)
(***************************************************************************)
Over(d) == pc[d] \in Ended \/ Stuck(d)
TransferEnds == \A d \in Peer : pc[d] = "recv" ~> Over(d)

(***************************************************************************)
(* A session ends on both sides, with success or an error, when the peer's *)
(* failure can be seen on the connection and its buffers take what is      *)
(* sent: nothing makes an end wait for ever but its own event channel, and *)
(* an end stuck there does not keep the other from ending.                 *)
(***************************************************************************)
EndsUnlessSilent ==
  [](link # "silent") => <>[](\A d \in Peer : Over(d))

-----------------------------------------------------------------------------
(***************************************************************************)
(* What documents and comments say and the code does not do.               *)
(***************************************************************************)

\* SESSION_TIMEOUT: "Maximum time a peer can remain idle after the TLS
\* handshake before the session is torn down" (session.rs).
SessionEnds == <>[](\A d \in Peer : pc[d] \in Ended)

\* "newer-mtime-wins with hash-based tie-breaking" (README, Synchronization):
\* of two versions with equal mtimes the hashes choose one, so a session leaves
\* the one it would leave if the other end had been the server.
TiesByHash ==
  pc["client"] = "complete" =>
    \A p \in Path \ touched :
      LET c == index["client"][p]
          s == index["server"][p]
      IN c # Missing /\ s # Missing /\ c.mtime = s.mtime =>
           disk["client"][p].data = Merged(SnapOf("server"), SnapOf("client"))[p].hash

=============================================================================
