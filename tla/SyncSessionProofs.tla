--------------------------- MODULE SyncSessionProofs ---------------------------
(***************************************************************************)
(* The sync session for any set of paths and contents, any number of       *)
(* frames per file, any buffer size and any combination of faults.         *)
(*                                                                         *)
(* First its types, the plans and what commits preserve; then what it does *)
(* to the two replicas: each file is transferred once, a dry run moves     *)
(* nothing, a session that the client completes has merged the replicas,   *)
(* and every session implements SyncContract.  These follow from one       *)
(* inductive invariant, SessionInv, which says what the frames under way,  *)
(* the commits under way and the untouched files have to do with the two   *)
(* indexes.                                                                *)
(***************************************************************************)
EXTENDS SyncSession, ReconcileProofs, SequenceTheorems, FiniteSetTheorems

USE DEF vars, netVars, taskVars, chanVars, userVars, Peer

MessageSeqs == [Peer -> Seq(Message)]

\* The other end is an end.
LEMMA OtherPeer == \A d \in Peer : Other(d) \in Peer /\ Other(d) # d /\ Other(Other(d)) = d
BY DEF Other

\* What a reset leaves of the frames under way is a sequence of frames.
LEMMA PrefixType ==
  ASSUME NEW s \in Seq(Message), NEW t \in Prefix(s)
  PROVE  t \in Seq(Message)
<1>1. PICK n \in 0..Len(s) : t = SubSeq(s, 1, n)
  BY DEF Prefix
<1>2. \A i \in 1..n : s[i] \in Message
  BY <1>1
<1> QED BY <1>1, <1>2, SubSeqProperties

\* The frames of a file are frames.
LEMMA FileChunksType ==
  ASSUME NEW p \in Path, NEW c \in Content
  PROVE  FileChunks(p, c) \in Seq(Message)
<1>1. Chunks \in Nat
  BY SessionAssumption
<1>2. ASSUME NEW i \in 1..Chunks
      PROVE  [kind |-> "chunk", path |-> p, data |-> c, last |-> (i = Chunks)] \in Message
  BY DEF Message, ChunkMsg
<1> QED BY <1>1, <1>2 DEF FileChunks

\* A scan is an index.
LEMMA ScanType ==
  ASSUME TypeOK, NEW d \in Peer
  PROVE  Scan(d) \in Index
BY DEF TypeOK, Scan, Index, IndexEntry, Disk, File

\* Plans only name paths.
LEMMA PushSetType ==
  ASSUME NEW d \in Peer
  PROVE  PushSet(d) \in SUBSET Path
BY DEF PushSet, ClientPush, ServerPush, Plan, SessionPlan, PlanFor

\* Ending a task keeps the types of what it changes.
LEMMA LeaveType ==
  ASSUME TypeOK, NEW d \in Peer, NEW how \in Ended, Leave(d, how)
  PROVE  /\ pc' \in [Peer -> {"scan", "await", "push", "recv"} \cup Ended]
         /\ open' \in [Peer -> BOOLEAN]
         /\ outbox' \in MessageSeqs
         /\ wire' \in MessageSeqs
<1>1. ASSUME NEW s \in Prefix(wire[d])
      PROVE  [wire EXCEPT ![d] = s, ![Other(d)] = <<>>] \in MessageSeqs
  BY PrefixType, OtherPeer DEF TypeOK, MessageSeqs
<1>2. wire' \in MessageSeqs
  <2>1. CASE wire' = wire
    BY <2>1 DEF TypeOK, MessageSeqs
  <2>2. CASE \E s \in Prefix(wire[d]) :
               wire' = [wire EXCEPT ![d] = s, ![Other(d)] = <<>>]
    BY <1>1, <2>2
  <2> QED BY <2>1, <2>2 DEF Leave
<1>3. outbox' \in MessageSeqs
  BY DEF Leave, TypeOK, MessageSeqs
<1> QED BY <1>2, <1>3 DEF Leave, TypeOK

\* So does failing.
LEMMA FailType ==
  ASSUME TypeOK, NEW d \in Peer, Fail(d)
  PROVE  TypeOK'
<1>1. "failed" \in Ended
  BY DEF Ended
<1> QED BY <1>1, LeaveType DEF Fail, TypeOK, MessageSeqs

\* Leaving the loop, after a complete transfer or a cut off one.
LEMMA ConcludeType ==
  ASSUME TypeOK, NEW d \in Peer, NEW how \in Ended, Conclude(d, how)
  PROVE  TypeOK'
<1>1. CASE Leave(d, how)
  BY <1>1, LeaveType DEF Conclude, TypeOK, MessageSeqs
<1>2. CASE /\ wire' = [wire EXCEPT ![Other(d)] = <<>>]
           /\ pc' = [pc EXCEPT ![d] = how]
           /\ open' = [open EXCEPT ![d] = FALSE]
           /\ UNCHANGED outbox
  <2>1. wire' \in [Peer -> Seq(Message)]
    BY <1>2, OtherPeer DEF TypeOK
  <2> QED BY <1>2, <2>1 DEF Conclude, TypeOK
<1> QED BY <1>1, <1>2 DEF Conclude

\* Reading a frame off the wire.
LEMMA TakeType ==
  ASSUME TypeOK, NEW d \in Peer, wire[Other(d)] # <<>>
  PROVE  /\ Head(wire[Other(d)]) \in Message
         /\ [wire EXCEPT ![Other(d)] = Tail(@)] \in [Peer -> Seq(Message)]
BY OtherPeer DEF TypeOK

\* Blocking on the write of frames.
LEMMA OutboxType ==
  ASSUME TypeOK, NEW d \in Peer, NEW s \in Seq(Message)
  PROVE  [outbox EXCEPT ![d] = s] \in [Peer -> Seq(Message)]
BY DEF TypeOK

\* Reporting on an event channel.
LEMMA ProgressType ==
  ASSUME TypeOK, NEW d \in Peer, Progress(d)
  PROVE  room' \in [Peer -> 0..EventCap]
<1>1. CASE room' = room
  BY <1>1 DEF TypeOK
<1>2. CASE room[d] # 0 /\ room' = [room EXCEPT ![d] = @ - 1]
  <2>1. room[d] - 1 \in 0..EventCap
    BY <1>2, SessionAssumption DEF TypeOK
  <2> QED BY <1>2, <2>1 DEF TypeOK
<1> QED BY <1>1, <1>2 DEF Progress

\* The next step of a commit.
LEMMA StepType ==
  ASSUME TypeOK, NEW d \in Peer, writing[d] # NoWrite, NEW step \in {"aside", "place"}
  PROVE  [writing EXCEPT ![d].step = step] \in [Peer -> Write \cup {NoWrite}]
<1>1. writing[d] \in Write
  BY DEF TypeOK
<1>2. [writing[d] EXCEPT !.step = step] \in Write
  BY <1>1 DEF Write
<1>3. [writing EXCEPT ![d].step = step] = [writing EXCEPT ![d] = [@ EXCEPT !.step = step]]
  OBVIOUS
<1> QED BY <1>2, <1>3 DEF TypeOK

\* Every step keeps the types.
LEMMA TypeStep == TypeOK /\ [Next]_vars => TypeOK'
<1> SUFFICES ASSUME TypeOK, [Next]_vars PROVE TypeOK'
  OBVIOUS
<1>i. <<[kind |-> "index"]>> \in Seq(Message) /\ <<[kind |-> "eof"]>> \in Seq(Message)
  BY DEF Message, IndexMsg, EofMsg
<1>k. ASSUME NEW p \in Path, NEW ok \in BOOLEAN
      PROVE  <<[kind |-> "ack", path |-> p, ok |-> ok]>> \in Seq(Message)
  BY DEF Message, AckMsg
<1>1. CASE ClientScan
  BY <1>1, <1>i, ScanType, OutboxType DEF ClientScan, TypeOK
<1>2. CASE ServerIndex
  <2>1. PushSet("server")' \in SUBSET Path
    BY DEF PushSet, ClientPush, ServerPush, Plan, SessionPlan, PlanFor
  <2>2. wire' \in [Peer -> Seq(Message)]
    BY <1>2, TakeType DEF ServerIndex, Other
  <2> QED BY <1>2, <1>i, <2>1, <2>2, ScanType, OutboxType DEF ServerIndex, TypeOK
<1>3. CASE ClientIndex
  <2>1. Tail(wire["server"]) \in Seq(Message)
    BY <1>3 DEF ClientIndex, TypeOK
  <2>2. PushSet("client") \in SUBSET Path
    BY PushSetType
  <2>3. wire' \in [Peer -> Seq(Message)]
    <3>1. CASE wire' = [wire EXCEPT !["server"] = <<>>]
      BY <3>1 DEF TypeOK
    <3>2. CASE wire' = [wire EXCEPT !["server"] = Tail(@)]
      BY <2>1, <3>2 DEF TypeOK
    <3> QED BY <1>3, <3>1, <3>2 DEF ClientIndex, DryRunReturn
  <2>4. pc' \in [Peer -> {"scan", "await", "push", "recv"} \cup Ended]
    BY <1>3 DEF ClientIndex, DryRunReturn, TypeOK, Ended
  <2>5. todo' \in [Peer -> SUBSET Path]
    BY <1>3, <2>2 DEF ClientIndex, DryRunReturn, TypeOK
  <2>6. open' \in [Peer -> BOOLEAN]
    <3>1. open' = open \/ open' = [open EXCEPT !["client"] = FALSE]
      BY <1>3 DEF ClientIndex, DryRunReturn
    <3> QED BY <3>1 DEF TypeOK
  <2>7. lastSync' = lastSync
    BY <1>3 DEF ClientIndex, DryRunReturn
  <2> QED BY <1>3, <2>3, <2>4, <2>5, <2>6, <2>7 DEF ClientIndex, TypeOK
<1>4. ASSUME NEW d \in Peer, Send(d) PROVE TypeOK'
  <2>1. Head(outbox[d]) \in Message /\ Tail(outbox[d]) \in Seq(Message)
    BY <1>4 DEF Send, TypeOK
  <2>2. Append(wire[d], Head(outbox[d])) \in Seq(Message)
    BY <2>1 DEF TypeOK
  <2> QED BY <1>4, <2>1, <2>2 DEF Send, TypeOK
<1>5. ASSUME NEW d \in Peer, SendSevered(d) PROVE TypeOK'
  <2>1. CASE Fail(d)
    BY <2>1, FailType
  <2>2. CASE /\ outbox' = [outbox EXCEPT ![d] = Tail(@)]
             /\ \E s \in Prefix(wire[Other(d)]) :
                  wire' = [wire EXCEPT ![Other(d)] = s]
             /\ UNCHANGED <<disk, aside, open, link, taskVars, chanVars, userVars>>
    <3>1. Tail(outbox[d]) \in Seq(Message)
      BY <1>5 DEF SendSevered, TypeOK
    <3>2. wire' \in [Peer -> Seq(Message)]
      BY <2>2, PrefixType, OtherPeer DEF TypeOK
    <3> QED BY <2>2, <3>1, <3>2 DEF TypeOK
  <2> QED BY <1>5, <2>1, <2>2 DEF SendSevered
<1>6. ASSUME NEW d \in Peer, PushFile(d) PROVE TypeOK'
  <2>1. PICK p \in todo[d] :
          /\ todo' = [todo EXCEPT ![d] = @ \ {p}]
          /\ IF disk[d][p] = Missing
             THEN UNCHANGED <<outbox, pushed, chanVars>>
             ELSE /\ outbox' = [outbox EXCEPT ![d] = FileChunks(p, disk[d][p].data)]
                  /\ pushed' = [pushed EXCEPT ![d] = @ \cup {p}]
                  /\ note' = [note EXCEPT ![d] = TRUE] /\ Progress(d)
    BY <1>6 DEF PushFile
  <2>2. p \in Path
    BY DEF TypeOK
  <2>3. ASSUME disk[d][p] # Missing PROVE FileChunks(p, disk[d][p].data) \in Seq(Message)
    BY <2>2, <2>3, FileChunksType DEF TypeOK, Disk, File
  <2>4. outbox' \in [Peer -> Seq(Message)]
    BY <2>1, <2>3, OutboxType DEF TypeOK
  <2>5. note' \in [Peer -> BOOLEAN] /\ room' \in [Peer -> 0..EventCap]
    BY <2>1, ProgressType DEF TypeOK
  <2>6. todo' \in [Peer -> SUBSET Path] /\ pushed' \in [Peer -> SUBSET Path]
    BY <2>1, <2>2 DEF TypeOK
  <2> QED BY <1>6, <2>4, <2>5, <2>6 DEF PushFile, TypeOK
<1>7. ASSUME NEW d \in Peer, Sentinel(d) PROVE TypeOK'
  BY <1>7, <1>i, OutboxType DEF Sentinel, TypeOK
<1>8. ASSUME NEW d \in Peer, RecvChunk(d) PROVE TypeOK'
  <2>0. PICK m : m = Head(wire[Other(d)])
    OBVIOUS
  <2>1. wire' \in [Peer -> Seq(Message)] /\ m \in Message /\ m.kind = "chunk"
    BY <1>8, <2>0, TakeType DEF RecvChunk, Next1
  <2>2. m.path \in Path /\ m.data \in Content
    BY <2>1 DEF Message, IndexMsg, ChunkMsg, AckMsg, EofMsg
  <2>3. /\ <<[kind |-> "ack", path |-> m.path, ok |-> FALSE]>> \in Seq(Message)
        /\ [path |-> m.path, data |-> m.data, step |-> "check"] \in Write
    BY <1>k, <2>2 DEF Write
  <2>4. \/ /\ incoming' = [incoming EXCEPT ![d] = @ \cup {m.path}]
           /\ UNCHANGED <<outbox, writing>>
        \/ /\ incoming' = [incoming EXCEPT ![d] = @ \ {m.path}]
           /\ outbox' = [outbox EXCEPT ![d] =
                <<[kind |-> "ack", path |-> m.path, ok |-> FALSE]>>]
           /\ UNCHANGED writing
        \/ /\ incoming' = [incoming EXCEPT ![d] = @ \ {m.path}]
           /\ writing' = [writing EXCEPT ![d] =
                [path |-> m.path, data |-> m.data, step |-> "check"]]
           /\ UNCHANGED outbox
    <3>1. CASE ~ m.last
      BY <1>8, <2>0, <3>1 DEF RecvChunk
    <3>2. CASE m.last
      BY <1>8, <2>0, <3>2 DEF RecvChunk
    <3> QED BY <3>1, <3>2
  <2>5. incoming' \in [Peer -> SUBSET Path]
    <3>1. incoming[d] \cup {m.path} \in SUBSET Path /\ incoming[d] \ {m.path} \in SUBSET Path
      BY <2>2 DEF TypeOK
    <3>2. \E new \in SUBSET Path : incoming' = [incoming EXCEPT ![d] = new]
      BY <2>4, <3>1
    <3> QED BY <3>2 DEF TypeOK
  <2>6. outbox' \in [Peer -> Seq(Message)]
    BY <2>3, <2>4, OutboxType DEF TypeOK
  <2>7. writing' \in [Peer -> Write \cup {NoWrite}]
    BY <2>3, <2>4 DEF TypeOK
  <2> QED BY <1>8, <2>1, <2>5, <2>6, <2>7 DEF RecvChunk, TypeOK
<1>9. ASSUME NEW d \in Peer, RecvAck(d) PROVE TypeOK'
  <2>1. wire' \in [Peer -> Seq(Message)]
    BY <1>9, TakeType DEF RecvAck, Next1
  <2>2. acked' \in SUBSET Path
    BY <1>9 DEF RecvAck, TypeOK
  <2> QED BY <1>9, <2>1, <2>2 DEF RecvAck, TypeOK
<1>10. ASSUME NEW d \in Peer, RecvEof(d) PROVE TypeOK'
  <2>1. wire' \in [Peer -> Seq(Message)]
    BY <1>10, TakeType DEF RecvEof, Next1
  <2> QED BY <1>10, <2>1 DEF RecvEof, TypeOK
<1>11. ASSUME NEW d \in Peer, CheckTarget(d) PROVE TypeOK'
  <2>1. PICK step \in {"aside", "place"} : writing' = [writing EXCEPT ![d].step = step]
    BY <1>11 DEF CheckTarget, NextStep
  <2>2. writing' \in [Peer -> Write \cup {NoWrite}]
    BY <1>11, <2>1, StepType DEF CheckTarget, Committing
  <2> QED BY <1>11, <2>2 DEF CheckTarget, TypeOK
<1>12. ASSUME NEW d \in Peer, MoveAside(d) PROVE TypeOK'
  <2>0. PICK p : p = writing[d].path
    OBVIOUS
  <2>1. p \in Path
    BY <1>12, <2>0 DEF MoveAside, Committing, TypeOK, Write
  <2>2. CASE Fail(d)
    BY <2>2, FailType
  <2>3. CASE /\ disk[d][p] # Missing
             /\ aside' = [aside EXCEPT ![d] = @ \cup {<<p, disk[d][p].data>>}]
             /\ disk' = [disk EXCEPT ![d][p] = Missing]
             /\ writing' = [writing EXCEPT ![d].step = "place"]
             /\ note' = [note EXCEPT ![d] = TRUE]
             /\ UNCHANGED <<netVars, pc, index, todo, incoming, pushed, acked,
                            stored, gotEof, lastSync, room, userVars>>
    <3>1. disk[d][p].data \in Content
      BY <2>1, <2>3 DEF TypeOK, Disk, File
    <3>2. writing' \in [Peer -> Write \cup {NoWrite}]
      BY <1>12, <2>3, StepType DEF MoveAside, Committing
    <3>3. disk' \in [Peer -> Disk]
      BY <2>1, <2>3 DEF TypeOK, Disk
    <3>4. aside' \in [Peer -> SUBSET (Path \X Content)]
      BY <2>1, <2>3, <3>1 DEF TypeOK
    <3> QED BY <2>3, <3>2, <3>3, <3>4 DEF TypeOK
  <2> QED BY <1>12, <2>0, <2>2, <2>3 DEF MoveAside
<1>13. ASSUME NEW d \in Peer, Place(d) PROVE TypeOK'
  <2> DEFINE w == writing[d]
  <2>1. w.path \in Path /\ w.data \in Content
    BY <1>13 DEF Place, Committing, TypeOK, Write
  <2>2. [data |-> w.data, mtime |-> Now] \in File
    BY <2>1, SessionAssumption DEF File
  <2>3. disk' \in [Peer -> Disk]
    BY <1>13, <2>1, <2>2 DEF Place, TypeOK, Disk
  <2>4. outbox' \in [Peer -> Seq(Message)]
    BY <1>13, <1>k, <2>1, OutboxType DEF Place
  <2>5. stored' \in [Peer -> SUBSET Path]
    BY <1>13, <2>1 DEF Place, TypeOK
  <2>6. note' \in [Peer -> BOOLEAN] /\ room' \in [Peer -> 0..EventCap]
    BY <1>13, ProgressType DEF Place, TypeOK
  <2>7. writing' \in [Peer -> Write \cup {NoWrite}]
    BY <1>13 DEF Place, TypeOK
  <2> QED BY <1>13, <2>3, <2>4, <2>5, <2>6, <2>7 DEF Place, TypeOK
<1>14. ASSUME NEW d \in Peer, Depart(d) PROVE TypeOK'
  <2>1. Conclude(d, "complete") \/ Conclude(d, "cutoff")
    BY <1>14 DEF Depart, Finish, ReadError, Timeout
  <2> QED BY <2>1, ConcludeType DEF Ended
<1>15. CASE LinkDown
  <2>1. wire' \in [Peer -> Seq(Message)]
    BY <1>15, PrefixType DEF LinkDown, TypeOK
  <2> QED BY <1>15, <2>1 DEF LinkDown, TypeOK
<1>16. ASSUME NEW d \in Peer, NEW p \in Path, NEW f \in File \cup {Missing}, Edit(d, p, f)
       PROVE  TypeOK'
  <2>1. disk' \in [Peer -> Disk]
    BY <1>16 DEF Edit, TypeOK, Disk
  <2>2. touched' \in SUBSET Path /\ late' \in SUBSET (Peer \X Path) /\ edits' \in Nat
    BY <1>16 DEF Edit, TypeOK
  <2> QED BY <1>16, <2>1, <2>2 DEF Edit, TypeOK
<1>17. ASSUME NEW d \in Peer, UserWrite(d) \/ UserDelete(d) PROVE TypeOK'
  <2>1. \A c \in Content : [data |-> c, mtime |-> Now] \in File
    BY SessionAssumption DEF File
  <2> QED BY <1>16, <1>17, <2>1 DEF UserWrite, UserDelete
<1>18. CASE UNCHANGED vars
  BY <1>18 DEF TypeOK
<1>19. ASSUME NEW d \in Peer, AwaitError(d) \/ RecvTooBig(d) \/ PlaceError(d) PROVE TypeOK'
  BY <1>19, FailType DEF AwaitError, RecvTooBig, PlaceError
<1>20. ASSUME NEW d \in Peer, Tell(d) PROVE TypeOK'
  <2>1. note' \in [Peer -> BOOLEAN] /\ room' \in [Peer -> 0..EventCap]
    BY <1>20, ProgressType DEF Tell, TypeOK
  <2> QED BY <1>20, <2>1 DEF Tell, TypeOK
<1> QED
  BY <1>1, <1>2, <1>3, <1>4, <1>5, <1>6, <1>7, <1>8, <1>9, <1>10, <1>11, <1>12,
     <1>13, <1>14, <1>15, <1>17, <1>18, <1>19, <1>20
  DEF Next, Exchange, Task, Talk, Push, Recv, Commit

(***************************************************************************)
(* The variables of a session keep their types.                            *)
(***************************************************************************)
THEOREM TypeCorrect == Spec => []TypeOK
<1>1. ASSUME Init PROVE TypeOK
  <2>1. disk \in [Peer -> Disk]
    <3>1. [data : Content, mtime : 1..(Now - 1)] \subseteq File
      BY SessionAssumption DEF File
    <3> QED BY <1>1, <3>1 DEF Init, Disk
  <2>2. /\ outbox \in [Peer -> Seq(Message)] /\ wire \in [Peer -> Seq(Message)]
    BY <1>1 DEF Init
  <2>3. room \in [Peer -> 0..EventCap]
    BY <1>1 DEF Init
  <2> QED BY <1>1, <2>1, <2>2, <2>3 DEF Init, TypeOK
<1> QED BY <1>1, TypeStep, PTL DEF Spec

-----------------------------------------------------------------------------
(***************************************************************************)
(* Whatever the two replicas looked like when they were scanned, each end  *)
(* waits for exactly the files the other end pushes.                       *)
(***************************************************************************)
THEOREM Mirrored == Spec => []MirrorPlans
<1>1. TypeOK => MirrorPlans
  <2> SUFFICES ASSUME TypeOK, index["client"] # NoIndex, index["server"] # NoIndex
               PROVE  \A d \in Peer : PushSet(d) = Expected(Other(d))
    BY DEF MirrorPlans
  <2>1. SnapOf("client") \in Snapshot /\ SnapOf("server") \in Snapshot
    BY IndexToSnapshotType, SessionAssumption DEF SnapOf, Key, TypeOK
  <2>2. PushSet("client") = Expected("server")
    BY <2>1, SessionMirror DEF PushSet, Expected, Plan, Other
  <2>3. PushSet("server") = Expected("client")
    BY <2>1, SessionMirror DEF PushSet, PullSet, Expected, Plan, Other
  <2> QED BY <2>2, <2>3 DEF Other
<1> QED BY <1>1, TypeCorrect, PTL

-----------------------------------------------------------------------------
(***************************************************************************)
(* Preservation.  Between the check of the target and the rename over it   *)
(* lie other tasks' steps and the user's edits.  When a file is about to   *)
(* be placed, the target is gone, or holds the same content, or was edited *)
(* in between, which the history records.                                  *)
(***************************************************************************)
Replaceable(d) ==
  LET w == writing[d]
      f == disk[d][w.path]
  IN f = Missing \/ f.data = w.data \/ <<d, w.path>> \in late

PlaceInv == \A d \in Peer : Committing(d, "place") => Replaceable(d)

\* A step that touches neither files nor commits keeps the invariant.
LEMMA PlaceKept ==
  ASSUME PlaceInv, disk' = disk, late' = late,
         \A d \in Peer : writing'[d] = writing[d] \/ ~ Committing(d, "place")'
  PROVE  PlaceInv'
BY DEF PlaceInv, Replaceable, Committing

\* A failing task drops its commit.
LEMMA FailDrops ==
  ASSUME TypeOK, NEW d \in Peer, Fail(d)
  PROVE  /\ disk' = disk /\ late' = late
         /\ \A e \in Peer : writing'[e] = writing[e] \/ ~ Committing(e, "place")'
BY DEF TypeOK, Fail, Committing

\* Every step keeps the target of a commit replaceable.
LEMMA PlaceStep == TypeOK /\ PlaceInv /\ [Next]_vars => PlaceInv'
<1> SUFFICES ASSUME TypeOK, PlaceInv, [Next]_vars PROVE PlaceInv'
  OBVIOUS
<1>1. CASE Exchange \/ LinkDown \/ UNCHANGED vars
  BY <1>1, PlaceKept DEF Exchange, ClientScan, ServerIndex, ClientIndex, LinkDown
<1>2. ASSUME NEW d \in Peer, Talk(d) \/ Push(d) \/ Depart(d) \/ RecvAck(d) \/ RecvEof(d)
      PROVE  PlaceInv'
  <2>1. CASE Fail(d)
    BY <2>1, FailDrops, PlaceKept
  <2>2. CASE disk' = disk /\ late' = late /\ writing' = writing
    BY <2>2, PlaceKept
  <2> QED BY <1>2, <2>1, <2>2
          DEF Talk, Send, SendSevered, Tell, AwaitError, Push, PushFile, Sentinel, Depart,
              Finish, ReadError, Timeout, Conclude, RecvAck, RecvEof
<1>3. ASSUME NEW d \in Peer, RecvTooBig(d) \/ PlaceError(d) PROVE PlaceInv'
  BY <1>3, FailDrops, PlaceKept DEF RecvTooBig, PlaceError
<1>4. ASSUME NEW d \in Peer, RecvChunk(d) PROVE PlaceInv'
  <2>1. disk' = disk /\ late' = late
    BY <1>4 DEF RecvChunk
  <2>2. \/ writing' = writing
        \/ \E p, c : writing' = [writing EXCEPT ![d] =
                                [path |-> p, data |-> c, step |-> "check"]]
    <3>1. PICK m : m = Head(wire[Other(d)])
      OBVIOUS
    <3>2. CASE ~ m.last
      BY <1>4, <3>1, <3>2 DEF RecvChunk
    <3>3. CASE m.last
      BY <1>4, <3>1, <3>3 DEF RecvChunk
    <3> QED BY <3>2, <3>3
  <2>3. \A e \in Peer : writing'[e] = writing[e] \/ ~ Committing(e, "place")'
    BY <2>2 DEF TypeOK, Committing
  <2> QED BY <2>1, <2>3, PlaceKept
<1>5. ASSUME NEW d \in Peer, CheckTarget(d) PROVE PlaceInv'
  <2>1. writing[d] \in Write
    BY <1>5 DEF CheckTarget, Committing, TypeOK
  <2>2. PICK step : /\ step = IF /\ disk[d][writing[d].path] # Missing
                                 /\ disk[d][writing[d].path].data # writing[d].data
                              THEN "aside" ELSE "place"
                    /\ writing' = [writing EXCEPT ![d].step = step]
    BY <1>5 DEF CheckTarget, NextStep, InTheWay
  <2>3. /\ writing'[d].step = step /\ writing'[d].path = writing[d].path
        /\ writing'[d].data = writing[d].data
        /\ \A e \in Peer : e # d => writing'[e] = writing[e]
    BY <2>1, <2>2 DEF TypeOK, Write
  <2>4. disk' = disk /\ late' = late
    BY <1>5 DEF CheckTarget
  <2>5. Committing(d, "place")' => Replaceable(d)'
    BY <2>2, <2>3, <2>4 DEF Committing, Replaceable
  <2> QED BY <2>3, <2>4, <2>5 DEF PlaceInv, Replaceable, Committing
<1>6. ASSUME NEW d \in Peer, MoveAside(d) PROVE PlaceInv'
  <2>1. CASE Fail(d)
    BY <2>1, FailDrops, PlaceKept
  <2>2. CASE /\ disk' = [disk EXCEPT ![d][writing[d].path] = Missing]
             /\ writing' = [writing EXCEPT ![d].step = "place"]
             /\ late' = late
    <3>1. writing[d] \in Write
      BY <1>6 DEF MoveAside, Committing, TypeOK
    <3>2. /\ writing'[d].path = writing[d].path
          /\ \A e \in Peer : e # d => writing'[e] = writing[e] /\ disk'[e] = disk[e]
      BY <2>2, <3>1 DEF TypeOK, Write
    <3>3. disk'[d][writing[d].path] = Missing
      BY <2>2, <3>1 DEF TypeOK, Write, Disk
    <3> QED BY <2>2, <3>2, <3>3 DEF PlaceInv, Replaceable, Committing
  <2> QED BY <1>6, <2>1, <2>2 DEF MoveAside
<1>7. ASSUME NEW d \in Peer, Place(d) PROVE PlaceInv'
  <2>1. /\ writing'[d] = NoWrite /\ late' = late
        /\ \A e \in Peer : e # d => writing'[e] = writing[e] /\ disk'[e] = disk[e]
    BY <1>7 DEF Place, TypeOK
  <2> QED BY <2>1 DEF PlaceInv, Replaceable, Committing
<1>8. ASSUME NEW d \in Peer, NEW p \in Path, NEW f, Edit(d, p, f) PROVE PlaceInv'
  <2>1. writing' = writing /\ late \subseteq late'
    BY <1>8 DEF Edit
  <2>2. ASSUME NEW e \in Peer, Committing(e, "place")' PROVE Replaceable(e)'
    <3>1. Committing(e, "place") /\ Replaceable(e) /\ writing[e] \in Write
      BY <2>1, <2>2 DEF Committing, PlaceInv, TypeOK
    <3>2. CASE e = d /\ writing[e].path = p
      BY <1>8, <2>1, <3>1, <3>2 DEF Edit, Replaceable
    <3>3. CASE ~ (e = d /\ writing[e].path = p)
      <4>1. disk'[e][writing[e].path] = disk[e][writing[e].path]
        BY <1>8, <3>1, <3>3 DEF Edit, TypeOK, Write, Disk
      <4> QED BY <2>1, <3>1, <4>1 DEF Replaceable
    <3> QED BY <3>2, <3>3
  <2> QED BY <2>2 DEF PlaceInv
<1> QED
  BY <1>1, <1>2, <1>3, <1>4, <1>5, <1>6, <1>7, <1>8
  DEF Next, Task, Recv, Commit, UserWrite, UserDelete

(***************************************************************************)
(* No step of a session destroys content: what it replaces or removes is   *)
(* in a backup of the same replica, unless the user wrote it between the   *)
(* backup and the rename (backup_on_conflict, then rename).                *)
(***************************************************************************)
THEOREM Preserves == Spec => SyncPreserves
<1> DEFINE Step ==
      edits' = edits =>
        \A d \in Peer, p \in Path :
          disk[d][p] # Missing => Kept(d, p, disk[d][p].data) \/ <<d, p>> \in late
<1>1. Init => PlaceInv
  BY DEF Init, PlaceInv, Committing
<1>2. TypeOK /\ PlaceInv /\ [Next]_vars => [Step]_vars
  <2> SUFFICES ASSUME TypeOK, PlaceInv, Next, edits' = edits,
                      NEW d \in Peer, NEW p \in Path, disk[d][p] # Missing
               PROVE  Kept(d, p, disk[d][p].data) \/ <<d, p>> \in late
    OBVIOUS
  <2>1. CASE disk' = disk
    BY <2>1 DEF Kept
  <2>2. ASSUME NEW e \in Peer, MoveAside(e)
        PROVE  Kept(d, p, disk[d][p].data)
    <3>1. CASE Fail(e)
      BY <3>1 DEF Fail, Kept
    <3>2. CASE /\ disk' = [disk EXCEPT ![e][writing[e].path] = Missing]
               /\ aside' = [aside EXCEPT ![e] = @ \cup
                              {<<writing[e].path, disk[e][writing[e].path].data>>}]
      <4>1. CASE d = e /\ p = writing[e].path
        BY <3>2, <4>1 DEF Kept, TypeOK
      <4>2. CASE ~ (d = e /\ p = writing[e].path)
        <5>1. disk'[d][p] = disk[d][p]
          BY <3>2, <4>2 DEF TypeOK, Disk
        <5> QED BY <5>1 DEF Kept
      <4> QED BY <4>1, <4>2
    <3> QED BY <2>2, <3>1, <3>2 DEF MoveAside
  <2>3. ASSUME NEW e \in Peer, Place(e)
        PROVE  Kept(d, p, disk[d][p].data) \/ <<d, p>> \in late
    <3>1. writing[e] \in Write /\ Replaceable(e)
      BY <2>3 DEF Place, Committing, TypeOK, PlaceInv
    <3>2. disk' = [disk EXCEPT ![e][writing[e].path] =
                     [data |-> writing[e].data, mtime |-> Now]]
      BY <2>3 DEF Place
    <3>3. CASE d = e /\ p = writing[e].path
      <4>1. disk'[d][p] = [data |-> writing[e].data, mtime |-> Now]
        BY <3>1, <3>2, <3>3 DEF TypeOK, Disk
      <4>2. disk'[d][p] # Missing /\ disk'[d][p].data = writing[e].data
        BY <3>1, <4>1, SessionAssumption DEF File, Write
      <4> QED BY <3>1, <3>3, <4>2 DEF Replaceable, Kept
    <3>4. CASE ~ (d = e /\ p = writing[e].path)
      <4>1. disk'[d][p] = disk[d][p]
        BY <3>1, <3>2, <3>4 DEF TypeOK, Disk, Write
      <4> QED BY <4>1 DEF Kept
    <3> QED BY <3>3, <3>4
  <2>4. ASSUME NEW e \in Peer, UserWrite(e) \/ UserDelete(e) PROVE FALSE
    <3>1. edits' = edits + 1
      BY <2>4 DEF UserWrite, UserDelete, Edit
    <3>2. edits \in Nat
      BY DEF TypeOK
    <3> QED BY <3>1, <3>2
  <2>5. ASSUME NEW e \in Peer, Task(e), ~ MoveAside(e), ~ Place(e) PROVE disk' = disk
    <3>1. CASE Talk(e)
      BY <3>1 DEF Talk, Send, SendSevered, Tell, AwaitError, Fail
    <3>2. CASE Push(e)
      BY <3>2 DEF Push, PushFile, Sentinel
    <3>3. CASE Recv(e)
      BY <3>3 DEF Recv, RecvTooBig, RecvChunk, RecvAck, RecvEof, Fail
    <3>4. CASE Commit(e)
      BY <2>5, <3>4 DEF Commit, CheckTarget, PlaceError, Fail
    <3>5. CASE Depart(e)
      BY <3>5 DEF Depart, Finish, ReadError, Timeout, Conclude
    <3> QED BY <2>5, <3>1, <3>2, <3>3, <3>4, <3>5 DEF Task
  <2>6. CASE Exchange \/ LinkDown
    BY <2>1, <2>6 DEF Exchange, ClientScan, ServerIndex, ClientIndex, LinkDown
  <2> QED BY <2>1, <2>2, <2>3, <2>4, <2>5, <2>6 DEF Next
<1> QED BY <1>1, <1>2, PlaceStep, TypeCorrect, PTL DEF Spec, SyncPreserves

-----------------------------------------------------------------------------
(***************************************************************************)
(* The replicas.                                                           *)
(***************************************************************************)
\* Both indexes have been scanned, so that both plans are fixed.
Announced == index["client"] # NoIndex /\ index["server"] # NoIndex

\* d has neither stored p nor started to commit it.
Unfinished(d, p) == p \notin stored[d] /\ (writing[d] # NoWrite => writing[d].path # p)

\* What a frame m of d that has not been read yet stands for: an index frame for
\* the index of d, an acknowledgement for a file that d has stored or that was
\* edited, a chunk for a file that d pushes and its peer has still to commit.
Honest(d, m) ==
  /\ m.kind = "index" => index[d] # NoIndex
  /\ m.kind = "ack" => m.path \in stored[d] \cup touched
  /\ m.kind = "chunk" => /\ m.path \in pushed[d] /\ Unfinished(Other(d), m.path)
                         /\ m.path \notin touched => m.data = index[d][m.path].hash

\* The last chunk of a file has no chunk of the same file after it, neither among
\* the frames s, nor among the frames t that follow s.
SameFile(m, n) == m.kind = "chunk" /\ n.kind = "chunk" /\ m.path = n.path
LastIsLast(s) == \A i, j \in 1..Len(s) : i < j /\ SameFile(s[i], s[j]) => ~ s[i].last
NoneAfter(s, t) == \A i \in 1..Len(s), j \in 1..Len(t) : SameFile(s[i], t[j]) => ~ s[i].last

\* The indexes come in order, once, and before anything is pushed; what an end
\* has pushed or is going to push is in its plan.
OrderInv ==
  /\ index["server"] # NoIndex => index["client"] # NoIndex
  /\ pc["client"] = "scan" => index["client"] = NoIndex
  /\ pc["server"] = "await" => index["server"] = NoIndex
  /\ pc["client"] \in {"scan", "await"} => pushed["client"] = {}
  /\ \A d \in Peer : /\ todo[d] \cap pushed[d] = {}
                     /\ IF Announced THEN todo[d] \cup pushed[d] \subseteq PushSet(d)
                                     ELSE todo[d] \cup pushed[d] = {}

\* The frames on their way from d.
Flow(d) ==
  /\ \A i \in 1..Len(wire[d]) : Honest(d, wire[d][i])
  /\ \A i \in 1..Len(outbox[d]) : Honest(d, outbox[d][i])
  /\ LastIsLast(wire[d]) /\ LastIsLast(outbox[d]) /\ NoneAfter(wire[d], outbox[d])

FlowInv == \A d \in Peer : Flow(d)

\* What an end stores was pushed by the other one; what it is about to store was
\* not stored before and has the announced content.
CommitInv == \A d \in Peer :
  /\ stored[d] \subseteq pushed[Other(d)]
  /\ writing[d] # NoWrite => /\ writing[d].path \in pushed[Other(d)] \ stored[d]
                             /\ writing[d].data = index[Other(d)][writing[d].path].hash

\* A file that nobody edited since it was scanned is still what was announced,
\* unless it is to be replaced, and is the peer's when it has been replaced.
Agrees(f, e) == IF e = Missing THEN f = Missing ELSE f # Missing /\ f.data = e.hash

ReplicaInv == \A d \in Peer, p \in Path \ touched : index[d] # NoIndex =>
  /\ ~ (Announced /\ p \in PushSet(Other(d))) => Agrees(disk[d][p], index[d][p])
  /\ p \in stored[d] => disk[d][p] # Missing /\ disk[d][p].data = index[Other(d)][p].hash

\* What the client counts before it leaves its loop.
ClientInv ==
  /\ acked \subseteq pushed["client"] \cap (stored["server"] \cup touched)
  /\ pc["client"] \in {"push", "recv", "complete"} =>
       Announced /\ PushSet("client") \subseteq todo["client"] \cup pushed["client"] \cup touched
  /\ pc["client"] \in {"recv", "complete"} => todo["client"] = {}
  /\ pc["client"] = "complete" => pushed["client"] \subseteq acked /\ PullSet \subseteq stored["client"]

\* Until the client has planned, and when it only plans, nothing is moved.
EarlyInv == pc["client"] \in {"scan", "await", "dry"} =>
  /\ pushed["client"] = {} /\ stored["client"] = {} /\ writing["client"] = NoWrite
  /\ ~ lastSync["client"] /\ \A d \in Peer : aside[d] = {}

-----------------------------------------------------------------------------
\* t is what remains of s when frames are taken from its ends.
Piece(t, s) ==
  \E k \in Nat : Len(t) + k <= Len(s) /\ \A i \in 1..Len(t) : t[i] = s[i + k]

\* All of the frames, and none of them, are a piece.
LEMMA PieceSelf ==
  ASSUME NEW s \in Seq(Message)
  PROVE  Piece(s, s) /\ Piece(<<>>, s)
<1>1. Len(s) + 0 <= Len(s) /\ \A i \in 1..Len(s) : s[i] = s[i + 0]
  OBVIOUS
<1>2. Len(<<>>) + 0 <= Len(s) /\ \A i \in 1..Len(<<>>) : <<>>[i] = s[i + 0]
  OBVIOUS
<1> QED BY <1>1, <1>2 DEF Piece

\* What is left when one frame has been read is a piece.
LEMMA PieceTail ==
  ASSUME NEW s \in Seq(Message), s # <<>>
  PROVE  Piece(Tail(s), s)
<1>1. Len(Tail(s)) + 1 <= Len(s) /\ \A i \in 1..Len(Tail(s)) : Tail(s)[i] = s[i + 1]
  OBVIOUS
<1> QED BY <1>1 DEF Piece

\* What a reset leaves is a piece.
LEMMA PiecePrefix ==
  ASSUME NEW s \in Seq(Message), NEW t \in Prefix(s)
  PROVE  Piece(t, s)
<1>1. PICK n \in 0..Len(s) : t = SubSeq(s, 1, n)
  BY DEF Prefix
<1>2. Len(t) = n /\ \A i \in 1..n : t[i] = s[i]
  <2>1. \A i \in 1..n : s[i] \in Message
    OBVIOUS
  <2> QED BY <1>1, <2>1, SubSeqProperties
<1>3. Len(t) + 0 <= Len(s) /\ \A i \in 1..Len(t) : t[i] = s[i + 0]
  BY <1>2
<1> QED BY <1>3 DEF Piece

\* In a piece the last chunk of a file is still the last one.
LEMMA PieceKeeps ==
  ASSUME NEW w \in Seq(Message), NEW o \in Seq(Message),
         NEW v \in Seq(Message), NEW n \in Seq(Message),
         Piece(v, w), Piece(n, o),
         LastIsLast(w), LastIsLast(o), NoneAfter(w, o)
  PROVE  LastIsLast(v) /\ LastIsLast(n) /\ NoneAfter(v, n)
<1>1. PICK k \in Nat : Len(v) + k <= Len(w) /\ \A i \in 1..Len(v) : v[i] = w[i + k]
  BY DEF Piece
<1>2. PICK l \in Nat : Len(n) + l <= Len(o) /\ \A i \in 1..Len(n) : n[i] = o[i + l]
  BY DEF Piece
<1>3. /\ \A i \in 1..Len(v) : i + k \in 1..Len(w)
      /\ \A i \in 1..Len(n) : i + l \in 1..Len(o)
  BY <1>1, <1>2
<1>4. LastIsLast(v)
  <2> SUFFICES ASSUME NEW i \in 1..Len(v), NEW j \in 1..Len(v), i < j, SameFile(v[i], v[j])
               PROVE  ~ v[i].last
    BY DEF LastIsLast
  <2>1. v[i] = w[i + k] /\ v[j] = w[j + k] /\ i + k < j + k
    BY <1>1
  <2> QED BY <1>3, <2>1 DEF LastIsLast
<1>5. LastIsLast(n)
  <2> SUFFICES ASSUME NEW i \in 1..Len(n), NEW j \in 1..Len(n), i < j, SameFile(n[i], n[j])
               PROVE  ~ n[i].last
    BY DEF LastIsLast
  <2>1. n[i] = o[i + l] /\ n[j] = o[j + l] /\ i + l < j + l
    BY <1>2
  <2> QED BY <1>3, <2>1 DEF LastIsLast
<1>6. NoneAfter(v, n)
  <2> SUFFICES ASSUME NEW i \in 1..Len(v), NEW j \in 1..Len(n), SameFile(v[i], n[j])
               PROVE  ~ v[i].last
    BY DEF NoneAfter
  <2>1. v[i] = w[i + k] /\ n[j] = o[j + l]
    BY <1>1, <1>2
  <2> QED BY <1>3, <2>1 DEF NoneAfter
<1> QED BY <1>4, <1>5, <1>6

\* Frames are only lost or read, on both ways and before they are written.
Shrinks == \A d \in Peer : Piece(wire'[d], wire[d]) /\ Piece(outbox'[d], outbox[d])

\* The commit of d goes on with the same file, or is over.
Settles(d) ==
  \/ writing'[d] = NoWrite
  \/ /\ writing[d] # NoWrite
     /\ writing'[d].path = writing[d].path /\ writing'[d].data = writing[d].data

\* A step that only loses or reads frames, or ends a task short of its goal.
Idle ==
  /\ Shrinks
  /\ UNCHANGED <<disk, aside, index, todo, pushed, acked, stored, touched>>
  /\ \A d \in Peer : /\ Settles(d)
                     /\ pc'[d] = pc[d] \/ pc'[d] \in {"failed", "cutoff"}
                     /\ lastSync'[d] = lastSync[d] \/ pc[d] = "recv"

\* A connection that is left alone shrinks trivially.
LEMMA PieceKept ==
  ASSUME TypeOK, UNCHANGED <<wire, outbox>>
  PROVE  Shrinks
BY PieceSelf DEF TypeOK, Shrinks

\* A commit that is left alone settles trivially.
LEMMA WriteKept ==
  ASSUME UNCHANGED writing, NEW d \in Peer
  PROVE  Settles(d)
BY DEF Settles

\* Closing the socket only loses frames.
LEMMA LeaveShrinks ==
  ASSUME TypeOK, NEW d \in Peer, NEW how, Leave(d, how)
  PROVE  Shrinks
<1>1. ASSUME NEW e \in Peer PROVE Piece(outbox'[e], outbox[e])
  <2>1. outbox'[e] = outbox[e] \/ outbox'[e] = <<>>
    BY DEF Leave, TypeOK
  <2> QED BY <2>1, PieceSelf DEF TypeOK
<1>2. CASE wire' = wire
  BY <1>1, <1>2, PieceSelf DEF Shrinks, TypeOK
<1>3. ASSUME NEW s \in Prefix(wire[d]), wire' = [wire EXCEPT ![d] = s, ![Other(d)] = <<>>]
      PROVE  Shrinks
  <2>1. ASSUME NEW e \in Peer PROVE Piece(wire'[e], wire[e])
    <3>1. wire[e] \in Seq(Message) /\ wire[d] \in Seq(Message)
      BY DEF TypeOK
    <3>2. CASE e = d
      BY <1>3, <3>1, <3>2, OtherPeer, PiecePrefix DEF TypeOK
    <3>3. CASE e = Other(d)
      BY <1>3, <3>1, <3>3, OtherPeer, PieceSelf DEF TypeOK
    <3> QED BY <3>2, <3>3 DEF Other
  <2> QED BY <1>1, <2>1 DEF Shrinks
<1> QED BY <1>2, <1>3 DEF Leave

\* A task that fails only loses frames.
LEMMA FailIdle ==
  ASSUME TypeOK, NEW d \in Peer, Fail(d)
  PROVE  Idle
<1>1. Shrinks
  BY LeaveShrinks DEF Fail
<1>2. ASSUME NEW e \in Peer
      PROVE  /\ Settles(e)
             /\ pc'[e] = pc[e] \/ pc'[e] \in {"failed", "cutoff"}
             /\ lastSync'[e] = lastSync[e]
  BY DEF Fail, Leave, TypeOK, Settles
<1> QED BY <1>1, <1>2 DEF Idle, Fail

\* Reading a frame.
LEMMA TakeShrinks ==
  ASSUME TypeOK, NEW d \in Peer, wire[Other(d)] # <<>>,
         wire' = [wire EXCEPT ![Other(d)] = Tail(@)]
  PROVE  \A e \in Peer : Piece(wire'[e], wire[e])
<1>1. ASSUME NEW e \in Peer PROVE Piece(wire'[e], wire[e])
  <2>1. wire'[e] = wire[e] \/ (wire'[e] = Tail(wire[e]) /\ wire[e] # <<>>)
    BY OtherPeer DEF TypeOK
  <2> QED BY <2>1, PieceSelf, PieceTail DEF TypeOK
<1> QED BY <1>1

\* Leaving the loop only loses frames.
LEMMA ConcludeShrinks ==
  ASSUME TypeOK, NEW d \in Peer, NEW how, Conclude(d, how)
  PROVE  /\ Shrinks
         /\ UNCHANGED <<disk, aside, index, todo, pushed, acked, stored, writing, touched>>
         /\ pc' = [pc EXCEPT ![d] = how]
         /\ \A e \in Peer : lastSync'[e] = lastSync[e] \/ e = d
<1>1. CASE Leave(d, how)
  BY <1>1, LeaveShrinks DEF Conclude, Leave, TypeOK
<1>2. CASE /\ wire' = [wire EXCEPT ![Other(d)] = <<>>]
           /\ pc' = [pc EXCEPT ![d] = how]
           /\ UNCHANGED outbox
  <2>1. ASSUME NEW e \in Peer PROVE Piece(wire'[e], wire[e]) /\ Piece(outbox'[e], outbox[e])
    <3>1. wire'[e] = wire[e] \/ wire'[e] = <<>>
      BY <1>2, OtherPeer DEF TypeOK
    <3> QED BY <1>2, <3>1, PieceSelf DEF TypeOK
  <2> QED BY <1>2, <2>1 DEF Conclude, TypeOK, Shrinks
<1> QED BY <1>1, <1>2 DEF Conclude

\* The steps that read, move or store something; every other step is idle.
Moves(d) ==
  \/ Send(d) \/ Push(d) \/ RecvChunk(d) \/ RecvAck(d) \/ Place(d) \/ Finish(d)
  \/ MoveAside(d) /\ ~ Fail(d)
  \/ \E p \in Path, f \in File \cup {Missing} : Edit(d, p, f)

\* Each step is an exchange of indexes, a step of Moves, or idle.
LEMMA StepKinds ==
  ASSUME TypeOK, [Next]_vars
  PROVE  Exchange \/ (\E d \in Peer : Moves(d)) \/ Idle
<1>1. CASE UNCHANGED vars
  BY <1>1, PieceKept, WriteKept DEF Idle
<1>2. CASE LinkDown
  <2>1. PICK s \in Prefix(wire["client"]), t \in Prefix(wire["server"]) :
          wire' = [d \in Peer |-> IF d = "client" THEN s ELSE t]
    BY <1>2 DEF LinkDown
  <2>2. ASSUME NEW e \in Peer PROVE Piece(wire'[e], wire[e]) /\ Piece(outbox'[e], outbox[e])
    <3>1. wire[e] \in Seq(Message) /\ outbox[e] \in Seq(Message) /\ wire'[e] \in Prefix(wire[e])
      BY <2>1 DEF TypeOK
    <3>2. outbox'[e] = outbox[e]
      BY <1>2 DEF LinkDown
    <3> QED BY <3>1, <3>2, PiecePrefix, PieceSelf
  <2> QED BY <1>2, <2>2, WriteKept DEF Idle, Shrinks, LinkDown
<1>3. ASSUME NEW d \in Peer, SendSevered(d) PROVE Idle
  <2>1. CASE Fail(d)
    BY <2>1, FailIdle
  <2>2. ASSUME outbox' = [outbox EXCEPT ![d] = Tail(@)],
               NEW s \in Prefix(wire[Other(d)]), wire' = [wire EXCEPT ![Other(d)] = s],
               UNCHANGED <<disk, aside, open, link, taskVars, chanVars, userVars>>
        PROVE  Idle
    <3>1. ASSUME NEW e \in Peer PROVE Piece(wire'[e], wire[e]) /\ Piece(outbox'[e], outbox[e])
      <4>1. wire'[e] = wire[e] \/ wire'[e] \in Prefix(wire[e])
        BY <2>2, OtherPeer DEF TypeOK
      <4>2. outbox'[e] = outbox[e] \/ (outbox'[e] = Tail(outbox[e]) /\ outbox[e] # <<>>)
        BY <1>3, <2>2 DEF TypeOK, SendSevered
      <4> QED BY <4>1, <4>2, PiecePrefix, PieceSelf, PieceTail DEF TypeOK
    <3> QED BY <2>2, <3>1, WriteKept DEF Idle, Shrinks
  <2> QED BY <1>3, <2>1, <2>2 DEF SendSevered
<1>4. ASSUME NEW d \in Peer, AwaitError(d) \/ RecvTooBig(d) \/ PlaceError(d) PROVE Idle
  BY <1>4, FailIdle DEF AwaitError, RecvTooBig, PlaceError
<1>5. ASSUME NEW d \in Peer, RecvEof(d) PROVE Idle
  BY <1>5, TakeShrinks, PieceSelf, WriteKept
     DEF RecvEof, Next1, Idle, Shrinks, TypeOK
<1>6. ASSUME NEW d \in Peer, CheckTarget(d) PROVE Idle
  <2>1. PICK step : writing' = [writing EXCEPT ![d].step = step]
    BY <1>6 DEF CheckTarget
  <2>2. writing[d] # NoWrite /\ writing[d] \in Write
    BY <1>6 DEF CheckTarget, Committing, TypeOK
  <2>3. \A e \in Peer : Settles(e)
    BY <2>1, <2>2 DEF Settles, TypeOK, Write
  <2> QED BY <1>6, <2>3, PieceKept DEF Idle, CheckTarget
<1>7. ASSUME NEW d \in Peer, ReadError(d) \/ Timeout(d) PROVE Idle
  <2>1. Conclude(d, "cutoff") /\ pc[d] = "recv"
    BY <1>7 DEF ReadError, Timeout, Receiving
  <2> QED BY <2>1, ConcludeShrinks, WriteKept DEF Idle, TypeOK
<1>8. ASSUME NEW d \in Peer, MoveAside(d), Fail(d) PROVE Idle
  BY <1>8, FailIdle
<1>9. ASSUME NEW d \in Peer, UserWrite(d) \/ UserDelete(d) PROVE Moves(d)
  <2>1. \A c \in Content : [data |-> c, mtime |-> Now] \in File
    BY SessionAssumption DEF File
  <2> QED BY <1>9, <2>1 DEF UserWrite, UserDelete, Moves
<1>10. ASSUME NEW d \in Peer, Tell(d) PROVE Idle
  BY <1>10, PieceKept, WriteKept DEF Tell, Idle
<1> QED
  BY <1>1, <1>2, <1>3, <1>4, <1>5, <1>6, <1>7, <1>8, <1>9, <1>10
  DEF Next, Task, Talk, Recv, Commit, Depart, Moves

-----------------------------------------------------------------------------
\* Plans depend on the indexes alone.
LEMMA PushSetFixed ==
  ASSUME index' = index, NEW d \in Peer
  PROVE  PushSet(d)' = PushSet(d)
BY DEF PushSet, Plan, SnapOf

\* What the two ends plan with are snapshots.
LEMMA SnapshotsTyped ==
  ASSUME TypeOK, Announced, NEW d \in Peer
  PROVE  SnapOf(d) \in Snapshot /\ index[d] \in Index
BY IndexToSnapshotType, SessionAssumption DEF SnapOf, Key, TypeOK, Announced

\* Each stamp of an index has one counter, so two stamps compare like their
\* mtimes, or not at all when their keys differ.
LEMMA DominatesSingle ==
  ASSUME NEW a \in DeviceId, NEW b \in DeviceId, NEW m \in Nat, NEW n \in Nat
  PROVE  Dominates(SingleVersion(a, m), SingleVersion(b, n)) <=> m > n /\ (a = b \/ n = 0)
<1>1. /\ \A d \in DeviceId : SingleVersion(a, m)[d] = IF d = a THEN m ELSE 0
      /\ \A d \in DeviceId : SingleVersion(b, n)[d] = IF d = b THEN n ELSE 0
  BY DEF SingleVersion, NewVersion
<1> QED BY <1>1 DEF Dominates

\* The snapshot of an index.
LEMMA SnapEntry ==
  ASSUME TypeOK, Announced, NEW d \in Peer, NEW p \in Path
  PROVE  /\ index[d][p] = Missing => SnapOf(d)[p] = Missing
         /\ index[d][p] # Missing =>
              /\ SnapOf(d)[p] # Missing
              /\ SnapOf(d)[p].hash = index[d][p].hash
              /\ SnapOf(d)[p].version = SingleVersion(Key(d), index[d][p].mtime)
              /\ index[d][p].mtime \in Nat
<1>1. SnapOf(d)[p] = IF index[d][p] = Missing THEN Missing
                     ELSE [hash |-> index[d][p].hash,
                           version |-> SingleVersion(Key(d), index[d][p].mtime)]
  BY DEF SnapOf, IndexToSnapshot
<1>2. SnapOf(d) \in Snapshot /\ index[d] \in Index
  BY SnapshotsTyped
<1>3. SnapOf(d)[p] \in SnapshotEntry \cup {Missing} /\ index[d][p] \in IndexEntry \cup {Missing}
  BY <1>2 DEF Snapshot, Index
<1>4. ASSUME index[d][p] # Missing
      PROVE  /\ SnapOf(d)[p] # Missing
             /\ index[d][p].mtime \in Nat
  <2>1. index[d][p] \in IndexEntry
    BY <1>3, <1>4
  <2>2. index[d][p].hash \in Content /\ index[d][p].mtime \in Nat
    BY <2>1 DEF IndexEntry
  <2>3. Key(d) \in DeviceId
    BY SessionAssumption DEF Key
  <2>4. SingleVersion(Key(d), index[d][p].mtime) \in FileVersion
    BY <2>2, <2>3 DEF SingleVersion, NewVersion, FileVersion
  <2>5. SnapOf(d)[p] \in SnapshotEntry
    BY <1>1, <1>4, <2>2, <2>4 DEF SnapshotEntry
  <2> QED BY <2>2, <2>5, MissingAssumption
<1> QED BY <1>1, <1>4

\* Who pushes a path, in terms of what was announced.
LEMMA WhoPushes ==
  ASSUME TypeOK, Announced, NEW p \in Path
  PROVE  LET c == index["client"][p]
             s == index["server"][p]
             newer == c.mtime > s.mtime /\ (ClientKey = ServerKey \/ s.mtime = 0)
             differ == c = Missing \/ s = Missing \/ c.hash # s.hash
         IN /\ p \in PushSet("client") <=> c # Missing /\ differ /\ (s = Missing \/ newer)
            /\ p \in PushSet("server") <=> s # Missing /\ differ /\ (c = Missing \/ ~ newer)
<1> DEFINE c == index["client"][p]
           s == index["server"][p]
           cs == SnapOf("client")[p]
           ss == SnapOf("server")[p]
<1>1. ClientKey \in DeviceId /\ ServerKey \in DeviceId
  BY SessionAssumption
<1>2. /\ (c = Missing => cs = Missing) /\ (s = Missing => ss = Missing)
      /\ c # Missing => /\ cs # Missing /\ cs.hash = c.hash /\ c.mtime \in Nat
                        /\ cs.version = SingleVersion(ClientKey, c.mtime)
      /\ s # Missing => /\ ss # Missing /\ ss.hash = s.hash /\ s.mtime \in Nat
                        /\ ss.version = SingleVersion(ServerKey, s.mtime)
  BY SnapEntry DEF Key
<1>3. c # Missing /\ s # Missing =>
        /\ Dominates(cs.version, ss.version)
             <=> c.mtime > s.mtime /\ (ClientKey = ServerKey \/ s.mtime = 0)
        /\ Dominates(ss.version, cs.version)
             <=> s.mtime > c.mtime /\ (ClientKey = ServerKey \/ c.mtime = 0)
  BY <1>1, <1>2, DominatesSingle
<1>4. /\ p \in PushSet("client") <=> LocalWins(cs, ss) \/ Only(cs, ss)
      /\ p \in PushSet("server") <=>
           \/ LocalWins(ss, cs) \/ Only(ss, cs)
           \/ ConcurrentEdit(ss, cs) /\ ss # Missing
  BY DEF PushSet, ClientPush, ServerPush, Plan, SessionPlan, PlanFor, Other
<1>5. /\ LocalWins(cs, ss) <=> c # Missing /\ s # Missing /\ c.hash # s.hash
                               /\ Dominates(cs.version, ss.version)
      /\ LocalWins(ss, cs) <=> c # Missing /\ s # Missing /\ c.hash # s.hash
                               /\ Dominates(ss.version, cs.version)
      /\ ConcurrentEdit(ss, cs) <=> /\ c # Missing /\ s # Missing /\ c.hash # s.hash
                                    /\ ~ Dominates(ss.version, cs.version)
                                    /\ ~ Dominates(cs.version, ss.version)
      /\ Only(cs, ss) <=> c # Missing /\ s = Missing
      /\ Only(ss, cs) <=> s # Missing /\ c = Missing
  BY <1>2 DEF LocalWins, ConcurrentEdit, Diverges, Only
<1>6. c # Missing /\ s # Missing =>
        ~ (Dominates(cs.version, ss.version) /\ Dominates(ss.version, cs.version))
  BY <1>2, <1>3
<1> QED BY <1>2, <1>3, <1>4, <1>5, <1>6

\* Nothing is pushed by both ends, and only what was announced is pushed.
LEMMA PushFacts ==
  ASSUME TypeOK, Announced
  PROVE  /\ PushSet("client") \cap PushSet("server") = {}
         /\ \A d \in Peer, p \in Path :
              p \in PushSet(d) => p \notin PushSet(Other(d)) /\ index[d][p] # Missing
<1>1. ASSUME NEW p \in Path
      PROVE  /\ ~ (p \in PushSet("client") /\ p \in PushSet("server"))
             /\ p \in PushSet("client") => index["client"][p] # Missing
             /\ p \in PushSet("server") => index["server"][p] # Missing
  BY WhoPushes
<1>2. PushSet("client") \subseteq Path /\ PushSet("server") \subseteq Path
  BY PushSetType
<1> QED BY <1>1, <1>2 DEF Other

-----------------------------------------------------------------------------
\* Indexes are announced in order, once, before anything is planned.
LEMMA OrderStep ==
  ASSUME TypeOK, OrderInv, FlowInv, [Next]_vars
  PROVE  /\ OrderInv'
         /\ Announced => index' = index
         /\ \A d \in Peer : index[d] # NoIndex => index'[d] = index[d]
<1>1. CASE ClientScan
  <2>1. index["client"] = NoIndex /\ index["server"] = NoIndex /\ ~ Announced
    BY <1>1 DEF ClientScan, OrderInv, Announced
  <2>2. ~ Announced' /\ index'["server"] = NoIndex
    BY <1>1, <2>1 DEF ClientScan, Announced, TypeOK
  <2>3. UNCHANGED <<todo, pushed>> /\ pc'["client"] = "await" /\ pc'["server"] = pc["server"]
    BY <1>1 DEF ClientScan, TypeOK
  <2>4. OrderInv'
    BY <2>1, <2>2, <2>3 DEF OrderInv
  <2> QED BY <1>1, <2>1, <2>4 DEF ClientScan, TypeOK
<1>2. CASE ServerIndex
  <2>1. index["server"] = NoIndex /\ ~ Announced
    BY <1>2 DEF ServerIndex, OrderInv, Announced
  <2>2. index["client"] # NoIndex
    <3>1. Honest("client", wire["client"][1]) /\ wire["client"][1].kind = "index"
      BY <1>2 DEF ServerIndex, FlowInv, Flow, TypeOK
    <3> QED BY <3>1 DEF Honest
  <2>3. Scan("server") \in Index /\ Scan("server") # NoIndex
    BY ScanType, SessionAssumption
  <2>4. Announced' /\ index'["client"] = index["client"]
    BY <1>2, <2>2, <2>3 DEF ServerIndex, Announced, TypeOK
  <2>5. /\ todo' = [todo EXCEPT !["server"] = PushSet("server")']
        /\ UNCHANGED pushed /\ pc'["client"] = pc["client"] /\ pc'["server"] = "push"
    BY <1>2 DEF ServerIndex, TypeOK
  <2>6. \A d \in Peer : todo[d] = {} /\ pushed[d] = {}
    BY <2>1 DEF OrderInv
  <2>7. todo'["client"] = {} /\ todo'["server"] = PushSet("server")' /\ pc["client"] # "scan"
    BY <2>2, <2>5, <2>6 DEF TypeOK, OrderInv
  <2>8. OrderInv'
    BY <2>4, <2>5, <2>6, <2>7, Zenon DEF OrderInv, Announced
  <2> QED BY <1>2, <2>1, <2>4, <2>8 DEF ServerIndex
<1>3. CASE ClientIndex
  <2>1. index' = index /\ pushed' = pushed
    BY <1>3 DEF ClientIndex
  <2>2. \/ todo' = todo
        \/ todo' = [todo EXCEPT !["client"] = PushSet("client")]
    BY <1>3 DEF ClientIndex, DryRunReturn
  <2>3. pc'["client"] \in {"dry", "push"} /\ pc'["server"] = pc["server"]
    BY <1>3 DEF ClientIndex, DryRunReturn, TypeOK
  <2>4. Announced
    <3>1. Honest("server", wire["server"][1]) /\ wire["server"][1].kind = "index"
      BY <1>3 DEF ClientIndex, FlowInv, Flow, TypeOK
    <3> QED BY <3>1 DEF Honest, OrderInv, Announced
  <2>5. pushed["client"] = {}
    BY <1>3 DEF ClientIndex, OrderInv
  <2>6. \A d \in Peer : todo'[d] = todo[d] \/ (d = "client" /\ todo'[d] = PushSet(d))
    BY <2>2 DEF TypeOK
  <2>7. \A d \in Peer : PushSet(d)' = PushSet(d)
    BY <2>1, PushSetFixed
  <2>8. Announced'
    BY <2>1, <2>4 DEF Announced
  <2>9. \A d \in Peer : /\ todo'[d] \cap pushed'[d] = {}
                        /\ todo'[d] \cup pushed'[d] \subseteq PushSet(d)
    BY <2>1, <2>4, <2>5, <2>6 DEF OrderInv
  <2> QED BY <2>1, <2>3, <2>4, <2>7, <2>8, <2>9 DEF OrderInv
<1>4. ASSUME NEW d \in Peer, PushFile(d)
      PROVE  OrderInv' /\ index' = index
  <2>1. PICK p \in todo[d] :
          /\ todo' = [todo EXCEPT ![d] = @ \ {p}]
          /\ UNCHANGED pushed \/ pushed' = [pushed EXCEPT ![d] = @ \cup {p}]
    BY <1>4 DEF PushFile
  <2>2. index' = index /\ pc' = pc /\ pc[d] = "push"
    BY <1>4 DEF PushFile
  <2>3. Announced /\ Announced'
    BY <2>1, <2>2 DEF OrderInv, Announced
  <2>4. \A e \in Peer : PushSet(e)' = PushSet(e)
    BY <2>2, PushSetFixed
  <2>5. \A e \in Peer : /\ todo'[e] \cap pushed'[e] = {}
                        /\ todo'[e] \cup pushed'[e] \subseteq todo[e] \cup pushed[e]
                        /\ e = d \/ pushed'[e] = pushed[e]
    BY <2>1 DEF OrderInv, TypeOK
  <2>6. pc["client"] \in {"scan", "await"} => pushed'["client"] = {}
    BY <2>2, <2>5 DEF OrderInv
  <2>7. \A e \in Peer : todo'[e] \cup pushed'[e] \subseteq PushSet(e)
    BY <2>3, <2>5 DEF OrderInv
  <2> QED BY <2>2, <2>3, <2>4, <2>5, <2>6, <2>7 DEF OrderInv
<1>5. ASSUME UNCHANGED <<index, todo, pushed>>,
             \A d \in Peer : pc'[d] = pc[d] \/ pc'[d] \notin {"scan", "await"}
      PROVE  OrderInv'
  <2>1. \A d \in Peer : PushSet(d)' = PushSet(d)
    BY <1>5, PushSetFixed
  <2> QED BY <1>5, <2>1 DEF OrderInv, Announced
<1>6. CASE Idle
  BY <1>5, <1>6 DEF Idle
<1>7. ASSUME NEW d \in Peer, Moves(d), ~ PushFile(d)
      PROVE  OrderInv' /\ index' = index
  <2>1. UNCHANGED <<index, todo, pushed>>
    BY <1>7 DEF Moves, Send, Push, Sentinel, RecvChunk, RecvAck, Place, Finish, Conclude,
                MoveAside, Edit
  <2>2. \/ pc' = pc
        \/ pc' = [pc EXCEPT ![d] = "recv"]
        \/ pc' = [pc EXCEPT ![d] = "complete"]
    BY <1>7 DEF Moves, Send, Push, Sentinel, RecvChunk, RecvAck, Place, Finish, Conclude, Leave,
                MoveAside, Edit
  <2>3. \A e \in Peer : pc'[e] = pc[e] \/ pc'[e] \notin {"scan", "await"}
    BY <2>2 DEF TypeOK
  <2> QED BY <1>5, <2>1, <2>3
<1> QED BY <1>1, <1>2, <1>3, <1>4, <1>6, <1>7, StepKinds DEF Exchange, Idle

-----------------------------------------------------------------------------
\* What a step never takes back.
Grows ==
  /\ touched \subseteq touched'
  /\ \A d \in Peer : /\ stored[d] \subseteq stored'[d] /\ pushed[d] \subseteq pushed'[d]
                     /\ index[d] # NoIndex => index'[d] = index[d]

StaysOpen(d) == \A p \in Path : Unfinished(d, p) => Unfinished(d, p)'

\* Whoever pushed a file has announced it.
LEMMA PushedAnnounced ==
  ASSUME TypeOK, OrderInv, NEW d \in Peer, NEW p \in pushed[d]
  PROVE  /\ Announced /\ p \in Path /\ p \in PushSet(d) /\ p \notin PushSet(Other(d))
         /\ index[d] # NoIndex /\ index[d][p] # Missing
<1>1. Announced /\ p \in Path /\ p \in PushSet(d)
  BY DEF OrderInv, TypeOK
<1> QED BY <1>1, PushFacts DEF Announced

\* A frame stays honest while its file stays unfinished.
LEMMA HonestKept ==
  ASSUME TypeOK, OrderInv, Grows, NEW d \in Peer, NEW m \in Message, Honest(d, m),
         m.kind = "chunk" => Unfinished(Other(d), m.path)'
  PROVE  Honest(d, m)'
<1>1. CASE m.kind = "chunk"
  <2>1. m.path \in pushed[d] /\ index[d] # NoIndex
    BY <1>1, PushedAnnounced DEF Honest
  <2> QED BY <1>1, <2>1 DEF Honest, Grows
<1>2. CASE m.kind # "chunk"
  <2>1. m.kind = "index" => index'[d] # NoIndex
    BY DEF Honest, Grows
  <2> QED BY <1>2, <2>1 DEF Honest, Grows
<1> QED BY <1>1, <1>2

\* The frames that are left stay honest.
LEMMA PieceHonest ==
  ASSUME TypeOK, OrderInv, Grows, NEW d \in Peer, StaysOpen(Other(d)),
         NEW s \in Seq(Message), NEW t \in Seq(Message), Piece(t, s),
         \A i \in 1..Len(s) : Honest(d, s[i])
  PROVE  \A i \in 1..Len(t) : Honest(d, t[i])'
<1>1. PICK k \in Nat : Len(t) + k <= Len(s) /\ \A i \in 1..Len(t) : t[i] = s[i + k]
  BY DEF Piece
<1> SUFFICES ASSUME NEW i \in 1..Len(t) PROVE Honest(d, t[i])'
  OBVIOUS
<1>2. i + k \in 1..Len(s) /\ t[i] = s[i + k] /\ t[i] \in Message
  BY <1>1
<1>3. Honest(d, t[i])
  BY <1>2
<1>4. t[i].kind = "chunk" => Unfinished(Other(d), t[i].path)'
  <2>1. t[i].kind = "chunk" => t[i].path \in Path
    BY <1>2 DEF Message, IndexMsg, ChunkMsg, AckMsg, EofMsg
  <2> QED BY <1>3, <2>1 DEF Honest, StaysOpen
<1>5. ASSUME NEW m \in Message, m = t[i] PROVE Honest(d, m)'
  BY <1>3, <1>4, <1>5, HonestKept
<1>6. PICK m \in Message : m = t[i]
  BY <1>2
<1>7. Honest(d, m)'
  BY <1>5, <1>6
<1>8. t[i].kind = m.kind /\ t[i].path = m.path /\ t[i].data = m.data
  BY <1>6
<1> QED BY <1>7, <1>8 DEF Honest

\* Losing and reading frames keeps the flow in order.
LEMMA FlowPiece ==
  ASSUME TypeOK, TypeOK', OrderInv, Grows, NEW d \in Peer, Flow(d), StaysOpen(Other(d)),
         Piece(wire'[d], wire[d]), Piece(outbox'[d], outbox[d])
  PROVE  Flow(d)'
<1>1. /\ wire[d] \in Seq(Message) /\ outbox[d] \in Seq(Message)
      /\ wire'[d] \in Seq(Message) /\ outbox'[d] \in Seq(Message)
  BY DEF TypeOK
<1>2. LastIsLast(wire'[d]) /\ LastIsLast(outbox'[d]) /\ NoneAfter(wire'[d], outbox'[d])
  BY <1>1, PieceKeeps DEF Flow
<1>3. (\A i \in 1..Len(wire[d]) : Honest(d, wire[d][i]))'
  BY <1>1, PieceHonest DEF Flow
<1>4. (\A i \in 1..Len(outbox[d]) : Honest(d, outbox[d][i]))'
  BY <1>1, PieceHonest DEF Flow
<1> QED BY <1>2, <1>3, <1>4 DEF Flow

\* One frame other than a chunk is handed to the connection.
LEMMA FlowFresh ==
  ASSUME TypeOK, TypeOK', OrderInv, Grows, NEW d \in Peer, Flow(d), StaysOpen(Other(d)),
         Piece(wire'[d], wire[d]),
         NEW m \in Message, outbox'[d] = <<m>>, m.kind # "chunk", Honest(d, m)'
  PROVE  Flow(d)'
<1>1. wire[d] \in Seq(Message) /\ wire'[d] \in Seq(Message) /\ outbox[d] \in Seq(Message)
  BY DEF TypeOK
<1>2. LastIsLast(wire'[d])
  BY <1>1, PieceKeeps, PieceSelf DEF Flow
<1>3. LastIsLast(outbox'[d]) /\ NoneAfter(wire'[d], outbox'[d])
  BY DEF LastIsLast, NoneAfter, SameFile
<1>4. (\A i \in 1..Len(wire[d]) : Honest(d, wire[d][i]))'
  BY <1>1, PieceHonest DEF Flow
<1>5. (\A i \in 1..Len(outbox[d]) : Honest(d, outbox[d][i]))'
  <2>1. Len(outbox'[d]) = 1 /\ outbox'[d][1] = m
    OBVIOUS
  <2> QED BY <2>1
<1> QED BY <1>2, <1>3, <1>4, <1>5 DEF Flow

\* The next frame goes to the buffers of the connection.
LEMMA FlowSend ==
  ASSUME TypeOK, TypeOK', OrderInv, Grows, NEW d \in Peer, Flow(d), StaysOpen(Other(d)), Send(d)
  PROVE  Flow(d)'
<1>0. PICK w \in Seq(Message), o \in Seq(Message) : w = wire[d] /\ o = outbox[d]
  BY DEF TypeOK
<1>1. /\ o # <<>> /\ wire'[d] = Append(w, o[1]) /\ outbox'[d] = Tail(o)
      /\ wire'[d] \in Seq(Message) /\ outbox'[d] \in Seq(Message)
  BY <1>0 DEF TypeOK, Send
<1>2. /\ Len(wire'[d]) = Len(w) + 1
      /\ \A i \in 1..Len(w) : wire'[d][i] = w[i]
      /\ wire'[d][Len(w) + 1] = o[1]
      /\ Len(outbox'[d]) = Len(o) - 1 /\ Len(o) >= 1
      /\ \A i \in 1..(Len(o) - 1) : outbox'[d][i] = o[i + 1]
  BY <1>1
<1>3. /\ \A i \in 1..Len(w) : Honest(d, w[i])
      /\ \A i \in 1..Len(o) : Honest(d, o[i])
      /\ LastIsLast(w) /\ LastIsLast(o) /\ NoneAfter(w, o)
  BY <1>0 DEF Flow
<1>4. LastIsLast(wire'[d])
  <2> SUFFICES ASSUME NEW i \in 1..Len(wire'[d]), NEW j \in 1..Len(wire'[d]), i < j,
                      SameFile(wire'[d][i], wire'[d][j])
               PROVE  ~ wire'[d][i].last
    BY DEF LastIsLast
  <2>1. i \in 1..Len(w) /\ wire'[d][i] = w[i]
    BY <1>1, <1>2
  <2>2. CASE j \in 1..Len(w)
    BY <1>2, <1>3, <2>1, <2>2 DEF LastIsLast
  <2>3. CASE j = Len(w) + 1
    <3>1. SameFile(w[i], o[1]) /\ 1 \in 1..Len(o)
      BY <1>1, <1>2, <2>1, <2>3
    <3> QED BY <1>3, <2>1, <3>1 DEF NoneAfter
  <2> QED BY <1>1, <1>2, <2>2, <2>3
<1>5. LastIsLast(outbox'[d])
  <2>1. Piece(Tail(o), o) /\ Piece(w, w) /\ Tail(o) \in Seq(Message)
    BY <1>1, PieceTail, PieceSelf
  <2>2. LastIsLast(Tail(o))
    BY <1>3, <2>1, PieceKeeps
  <2> QED BY <1>1, <2>2
<1>6. NoneAfter(wire'[d], outbox'[d])
  <2> SUFFICES ASSUME NEW i \in 1..Len(wire'[d]), NEW j \in 1..Len(outbox'[d]),
                      SameFile(wire'[d][i], outbox'[d][j])
               PROVE  ~ wire'[d][i].last
    BY DEF NoneAfter
  <2>1. outbox'[d][j] = o[j + 1] /\ j + 1 \in 1..Len(o) /\ 1 \in 1..Len(o) /\ 1 < j + 1
    BY <1>1, <1>2
  <2>2. CASE i \in 1..Len(w)
    BY <1>2, <1>3, <2>1, <2>2 DEF NoneAfter
  <2>3. CASE i = Len(w) + 1
    <3>1. SameFile(o[1], o[j + 1]) /\ wire'[d][i] = o[1]
      BY <1>2, <2>1, <2>3
    <3> QED BY <1>3, <2>1, <3>1 DEF LastIsLast
  <2> QED BY <1>1, <1>2, <2>2, <2>3
<1>7. (\A i \in 1..Len(wire[d]) : Honest(d, wire[d][i]))'
  <2>1. Piece(w, w) /\ Piece(o, o)
    BY <1>1, PieceSelf
  <2>2. \A i \in 1..Len(w) : Honest(d, w[i])'
    BY <1>1, <1>3, <2>1, PieceHonest
  <2>3. \A i \in 1..Len(o) : Honest(d, o[i])'
    BY <1>1, <1>3, <2>1, PieceHonest
  <2> QED BY <1>1, <1>2, <2>2, <2>3
<1>8. (\A i \in 1..Len(outbox[d]) : Honest(d, outbox[d][i]))'
  BY <1>1, <1>3, PieceTail, PieceHonest
<1> QED BY <1>4, <1>5, <1>6, <1>7, <1>8 DEF Flow

\* Every step grows.
LEMMA GrowsStep ==
  ASSUME TypeOK, OrderInv, FlowInv, [Next]_vars
  PROVE  Grows
<1>1. \A d \in Peer : index[d] # NoIndex => index'[d] = index[d]
  BY OrderStep
<1>2. CASE Exchange \/ Idle
  BY <1>1, <1>2 DEF Exchange, ClientScan, ServerIndex, ClientIndex, Idle, Grows
<1>3. ASSUME NEW d \in Peer, Moves(d) PROVE Grows
  <2>1. CASE PushFile(d)
    <3>1. stored' = stored /\ touched' = touched
      BY <2>1 DEF PushFile
    <3>2. pushed' = pushed \/ \E p : pushed' = [pushed EXCEPT ![d] = @ \cup {p}]
      BY <2>1 DEF PushFile
    <3>3. \A e \in Peer : pushed[e] \subseteq pushed'[e]
      BY <3>2 DEF TypeOK
    <3> QED BY <1>1, <3>1, <3>3 DEF Grows
  <2>2. CASE Place(d)
    <3>1. pushed' = pushed /\ touched' = touched
      BY <2>2 DEF Place
    <3>2. \E p : stored' = [stored EXCEPT ![d] = @ \cup {p}]
      BY <2>2 DEF Place
    <3>3. \A e \in Peer : stored[e] \subseteq stored'[e]
      BY <3>2 DEF TypeOK
    <3> QED BY <1>1, <3>1, <3>3 DEF Grows
  <2>3. ASSUME NEW p, NEW f, Edit(d, p, f) PROVE Grows
    BY <1>1, <2>3 DEF Edit, Grows
  <2>4. CASE Send(d) \/ Sentinel(d) \/ RecvChunk(d) \/ RecvAck(d) \/ Finish(d)
             \/ (MoveAside(d) /\ ~ Fail(d))
    <3>1. UNCHANGED <<stored, pushed, touched>>
      BY <2>4 DEF Send, Sentinel, RecvChunk, RecvAck, Finish, Conclude, MoveAside
    <3> QED BY <1>1, <3>1 DEF Grows
  <2> QED BY <1>3, <2>1, <2>2, <2>3, <2>4 DEF Moves, Push
<1> QED BY <1>2, <1>3, StepKinds

\* A commit that goes on or ends without storing leaves the others alone.
LEMMA SettlesOpen ==
  ASSUME NEW d \in Peer, Settles(d), stored'[d] = stored[d]
  PROVE  StaysOpen(d)
BY DEF Settles, StaysOpen, Unfinished

\* A commit that goes on keeps its file and its content.
LEMMA CommitKept ==
  ASSUME TypeOK, OrderInv, Grows, CommitInv, NEW d \in Peer, Settles(d), stored'[d] = stored[d]
  PROVE  /\ stored'[d] \subseteq pushed'[Other(d)]
         /\ writing'[d] # NoWrite =>
              /\ writing'[d].path \in pushed'[Other(d)] \ stored'[d]
              /\ writing'[d].data = index'[Other(d)][writing'[d].path].hash
<1>1. Other(d) \in Peer
  BY OtherPeer
<1>2. stored'[d] \subseteq pushed'[Other(d)]
  BY <1>1 DEF CommitInv, Grows
<1>3. ASSUME writing'[d] # NoWrite
      PROVE  /\ writing'[d].path \in pushed'[Other(d)] \ stored'[d]
             /\ writing'[d].data = index'[Other(d)][writing'[d].path].hash
  <2>1. /\ writing[d] # NoWrite /\ writing'[d].path = writing[d].path
        /\ writing'[d].data = writing[d].data
    BY <1>3 DEF Settles
  <2>2. /\ writing[d].path \in pushed[Other(d)] \ stored[d]
        /\ writing[d].data = index[Other(d)][writing[d].path].hash
    BY <2>1 DEF CommitInv
  <2>3. index[Other(d)] # NoIndex
    BY <1>1, <2>2, PushedAnnounced
  <2> QED BY <1>1, <2>1, <2>2, <2>3 DEF Grows
<1> QED BY <1>2, <1>3

\* A step that loses and reads frames and stores nothing.
LEMMA Quiet ==
  ASSUME TypeOK, TypeOK', OrderInv, FlowInv, CommitInv, Grows, Shrinks,
         UNCHANGED stored, \A d \in Peer : Settles(d)
  PROVE  FlowInv' /\ CommitInv'
<1>1. \A d \in Peer : StaysOpen(Other(d))
  BY SettlesOpen, OtherPeer
<1>2. FlowInv'
  BY <1>1, FlowPiece DEF FlowInv, Shrinks
<1>3. CommitInv'
  BY CommitKept DEF CommitInv
<1> QED BY <1>2, <1>3

\* A file is cut into frames of which only the last one is marked.
LEMMA FlowPush ==
  ASSUME TypeOK, TypeOK', OrderInv, FlowInv, CommitInv, ReplicaInv, Grows,
         NEW d \in Peer, PushFile(d)
  PROVE  Flow(d)'
<1>1. PICK p \in todo[d] :
        /\ todo' = [todo EXCEPT ![d] = @ \ {p}]
        /\ IF disk[d][p] = Missing
           THEN UNCHANGED <<outbox, pushed, chanVars>>
           ELSE /\ outbox' = [outbox EXCEPT ![d] = FileChunks(p, disk[d][p].data)]
                /\ pushed' = [pushed EXCEPT ![d] = @ \cup {p}]
  BY DEF PushFile
<1>2. /\ wire' = wire /\ index' = index /\ writing' = writing /\ stored' = stored
      /\ touched' = touched /\ outbox[d] = <<>>
  BY DEF PushFile, Free
<1>3. StaysOpen(Other(d)) /\ \A e \in Peer : Settles(e)
  BY <1>2, OtherPeer DEF StaysOpen, Unfinished, Settles
<1>4. /\ wire[d] \in Seq(Message) /\ wire'[d] \in Seq(Message) /\ Piece(wire'[d], wire[d])
      /\ outbox[d] \in Seq(Message)
  BY <1>2, PieceSelf DEF TypeOK
<1>5. CASE outbox' = outbox
  BY <1>3, <1>4, <1>5, FlowPiece, PieceSelf DEF FlowInv
<1>6. CASE /\ disk[d][p] # Missing
           /\ outbox' = [outbox EXCEPT ![d] = FileChunks(p, disk[d][p].data)]
           /\ pushed' = [pushed EXCEPT ![d] = @ \cup {p}]
  <2>1. PICK s : s = FileChunks(p, disk[d][p].data)
    OBVIOUS
  <2>2. Chunks \in Nat /\ Len(s) = Chunks /\ outbox'[d] = s /\ p \in pushed'[d]
    <3>1. Chunks \in Nat
      BY SessionAssumption
    <3>2. outbox'[d] = s /\ p \in pushed'[d]
      BY <1>6, <2>1 DEF TypeOK
    <3>3. Len(s) = Chunks
      BY <2>1, <3>1 DEF FileChunks
    <3> QED BY <3>1, <3>2, <3>3
  <2>3. \A i \in 1..Chunks : /\ s[i].kind = "chunk" /\ s[i].path = p
                             /\ s[i].data = disk[d][p].data /\ s[i].last = (i = Chunks)
    BY <2>1 DEF FileChunks
  <2>4. Announced /\ p \in PushSet(d) /\ p \notin pushed[d] /\ p \in Path
    BY DEF OrderInv, TypeOK
  <2>5. p \notin PushSet(Other(d)) /\ index[d][p] # Missing /\ index[d] # NoIndex
    BY <2>4, PushFacts DEF Announced
  <2>6. Unfinished(Other(d), p)
    <3>1. Other(d) \in Peer /\ Other(Other(d)) = d
      BY OtherPeer
    <3> QED BY <2>4, <3>1 DEF Unfinished, CommitInv
  <2>7. p \notin touched => disk[d][p].data = index[d][p].hash
    BY <2>4, <2>5 DEF ReplicaInv, Agrees
  <2>8. LastIsLast(s)
    <3> SUFFICES ASSUME NEW i \in 1..Len(s), NEW j \in 1..Len(s), i < j
                 PROVE  ~ s[i].last
      BY DEF LastIsLast
    <3>1. i \in 1..Chunks /\ i # Chunks
      BY <2>2
    <3>2. s[i].last = FALSE
      BY <2>3, <3>1
    <3> QED BY <3>2
  <2>9. NoneAfter(wire'[d], s)
    <3> SUFFICES ASSUME NEW i \in 1..Len(wire[d]), NEW j \in 1..Len(s),
                        SameFile(wire[d][i], s[j])
                 PROVE  FALSE
      BY <1>2 DEF NoneAfter
    <3>1. wire[d][i].path = p /\ wire[d][i].kind = "chunk"
      BY <2>2, <2>3 DEF SameFile
    <3>2. Honest(d, wire[d][i])
      BY DEF FlowInv, Flow
    <3> QED BY <2>4, <3>1, <3>2 DEF Honest
  <2>10. LastIsLast(wire'[d])
    BY <1>2 DEF FlowInv, Flow
  <2>11. (\A i \in 1..Len(wire[d]) : Honest(d, wire[d][i]))'
    BY <1>3, <1>4, PieceHonest DEF FlowInv, Flow
  <2>12. (\A i \in 1..Len(outbox[d]) : Honest(d, outbox[d][i]))'
    <3>1. ASSUME NEW i \in 1..Len(s) PROVE Honest(d, s[i])'
      <4>1. Unfinished(Other(d), p)'
        BY <1>2, <2>6 DEF Unfinished
      <4> QED BY <1>2, <2>2, <2>3, <2>7, <4>1 DEF Honest
    <3> QED BY <2>2, <3>1
  <2> QED BY <2>2, <2>8, <2>9, <2>10, <2>11, <2>12 DEF Flow
<1> QED BY <1>1, <1>5, <1>6

\* The last frame of a file has been read: no frame of it is left.
LEMMA FlowTaken ==
  ASSUME TypeOK, TypeOK', OrderInv, Grows, NEW d \in Peer, Flow(d),
         NEW m \in Message, wire[d] # <<>>, m = Head(wire[d]), m.kind = "chunk", m.last,
         wire'[d] = Tail(wire[d]), outbox'[d] = outbox[d], stored' = stored,
         writing'[Other(d)].path = m.path, writing[Other(d)] = NoWrite
  PROVE  Flow(d)'
<1>1. PICK w \in Seq(Message), o \in Seq(Message) : w = wire[d] /\ o = outbox[d]
  BY DEF TypeOK
<1>2. /\ Len(w) >= 1 /\ w[1] = m /\ wire'[d] = Tail(w) /\ outbox'[d] = o
      /\ Len(Tail(w)) = Len(w) - 1 /\ \A i \in 1..(Len(w) - 1) : Tail(w)[i] = w[i + 1]
  BY <1>1
<1>3. /\ \A i \in 1..Len(w) : Honest(d, w[i])
      /\ \A i \in 1..Len(o) : Honest(d, o[i])
      /\ LastIsLast(w) /\ LastIsLast(o) /\ NoneAfter(w, o)
  BY <1>1 DEF Flow
<1>4. Piece(Tail(w), w) /\ Piece(o, o) /\ Tail(w) \in Seq(Message)
  BY <1>1, <1>2, PieceTail, PieceSelf
<1>5. LastIsLast(Tail(w)) /\ NoneAfter(Tail(w), o)
  BY <1>3, <1>4, PieceKeeps
<1>6. ASSUME NEW n \in Message, Honest(d, n), n.kind = "chunk" => n.path # m.path
      PROVE  Honest(d, n)'
  <2>1. n.kind = "chunk" => Unfinished(Other(d), n.path)'
    BY <1>6 DEF Honest, Unfinished
  <2> QED BY <1>6, <2>1, HonestKept
<1>7. (\A i \in 1..Len(wire[d]) : Honest(d, wire[d][i]))'
  <2>1. ASSUME NEW i \in 1..(Len(w) - 1) PROVE Honest(d, w[i + 1])'
    <3>1. PICK n \in Message : n = w[i + 1]
      BY <1>2
    <3>2. i + 1 \in 1..Len(w) /\ 1 \in 1..Len(w) /\ 1 < i + 1
      BY <1>2
    <3>3. Honest(d, n) /\ (n.kind = "chunk" => n.path # m.path)
      BY <1>2, <1>3, <3>1, <3>2 DEF LastIsLast, SameFile
    <3>4. Honest(d, n)'
      BY <1>6, <3>3
    <3> QED BY <3>1, <3>4
  <2> QED BY <1>2, <2>1
<1>8. (\A i \in 1..Len(outbox[d]) : Honest(d, outbox[d][i]))'
  <2>1. ASSUME NEW i \in 1..Len(o) PROVE Honest(d, o[i])'
    <3>1. PICK n \in Message : n = o[i]
      OBVIOUS
    <3>2. 1 \in 1..Len(w)
      BY <1>2
    <3>3. Honest(d, n) /\ (n.kind = "chunk" => n.path # m.path)
      BY <1>2, <1>3, <3>1, <3>2 DEF NoneAfter, SameFile
    <3>4. Honest(d, n)'
      BY <1>6, <3>3
    <3> QED BY <3>1, <3>4
  <2> QED BY <1>2, <2>1
<1> QED BY <1>2, <1>3, <1>5, <1>7, <1>8 DEF Flow

\* Receiving a chunk.
LEMMA ChunkStep ==
  ASSUME TypeOK, TypeOK', OrderInv, FlowInv, CommitInv, Grows,
         NEW e \in Peer, RecvChunk(e)
  PROVE  FlowInv' /\ CommitInv'
<1>1. PICK d \in Peer : d = Other(e) /\ e = Other(d) /\ d # e
  BY OtherPeer
<1>2. wire[d] # <<>> /\ Head(wire[d]) \in Message
  BY <1>1, TakeType DEF RecvChunk, Next1
<1>3. PICK m \in Message : m = Head(wire[d])
  BY <1>2
<1>4. m.kind = "chunk" /\ wire[d] \in Seq(Message) /\ Honest(d, m)
  <2>1. m.kind = "chunk" /\ wire[d] \in Seq(Message)
    BY <1>1, <1>3 DEF RecvChunk, Next1, TypeOK
  <2>2. 1 \in 1..Len(wire[d]) /\ m = wire[d][1]
    BY <1>2, <1>3, <2>1
  <2> QED BY <2>1, <2>2 DEF FlowInv, Flow
<1>5. /\ m.path \in pushed[d] /\ m.path \notin stored[e] /\ m.path \in Path
      /\ m.path \notin touched => m.data = index[d][m.path].hash
      /\ Announced /\ index[d] # NoIndex /\ index[d][m.path] # Missing
  BY <1>1, <1>4, PushedAnnounced DEF Honest, Unfinished
<1>6. /\ UNCHANGED <<index, pushed, stored, touched>>
      /\ wire' = [wire EXCEPT ![d] = Tail(@)] /\ writing[e] = NoWrite
  BY <1>1 DEF RecvChunk, Receiving, Free
<1>7. /\ wire'[d] = Tail(wire[d]) /\ wire'[e] = wire[e]
      /\ \A f \in Peer : Piece(wire'[f], wire[f])
  <2>1. wire'[d] = Tail(wire[d]) /\ wire'[e] = wire[e]
    BY <1>1, <1>6 DEF TypeOK
  <2> QED BY <1>1, <1>2, <1>6, <2>1, TakeShrinks
<1>8. CASE ~ m.last
  <2>1. UNCHANGED <<outbox, writing>>
    BY <1>1, <1>3, <1>8 DEF RecvChunk
  <2>2. Shrinks
    BY <1>7, <2>1, PieceSelf DEF Shrinks, TypeOK
  <2> QED BY <1>6, <2>1, <2>2, WriteKept, Quiet
<1>9. CASE m.last /\ index[d][m.path].hash # m.data
  <2>1. /\ outbox' = [outbox EXCEPT ![e] = <<[kind |-> "ack", path |-> m.path, ok |-> FALSE]>>]
        /\ UNCHANGED writing
    BY <1>1, <1>3, <1>5, <1>9 DEF RecvChunk
  <2>2. PICK n \in Message : n = [kind |-> "ack", path |-> m.path, ok |-> FALSE]
    BY <1>5 DEF Message, AckMsg
  <2>3. outbox'[d] = outbox[d] /\ outbox'[e] = <<n>>
    BY <1>1, <2>1, <2>2 DEF TypeOK
  <2>4. \A f \in Peer : Settles(f) /\ StaysOpen(f)
    BY <1>6, <2>1, WriteKept, SettlesOpen
  <2>5. Honest(e, n)'
    BY <1>5, <1>6, <1>9, <2>2 DEF Honest
  <2>6. n.kind # "chunk"
    BY <2>2
  <2>7. Flow(e)'
    BY <1>1, <1>7, <2>3, <2>4, <2>5, <2>6, FlowFresh DEF FlowInv
  <2>8. Flow(d)'
    <3>1. Piece(outbox'[d], outbox[d])
      BY <2>3, PieceSelf DEF TypeOK
    <3> QED BY <1>1, <1>7, <2>4, <3>1, FlowPiece DEF FlowInv
  <2>9. CommitInv'
    BY <1>6, <2>4, CommitKept DEF CommitInv
  <2>10. \A f \in Peer : f = d \/ f = e
    BY <1>1
  <2> QED BY <2>7, <2>8, <2>9, <2>10 DEF FlowInv
<1>10. CASE m.last /\ index[d][m.path].hash = m.data
  <2>1. /\ writing' = [writing EXCEPT ![e] =
                         [path |-> m.path, data |-> m.data, step |-> "check"]]
        /\ UNCHANGED outbox
    BY <1>1, <1>3, <1>5, <1>10 DEF RecvChunk
  <2>2. /\ writing'[e].path = m.path /\ writing'[e].data = m.data
        /\ writing'[d] = writing[d]
    BY <1>1, <2>1 DEF TypeOK
  <2>3. Flow(d)'
    BY <1>1, <1>2, <1>3, <1>4, <1>6, <1>7, <1>10, <2>1, <2>2, FlowTaken DEF FlowInv
  <2>4. Settles(d) /\ StaysOpen(d)
    BY <1>6, <2>2, SettlesOpen DEF Settles
  <2>5. Flow(e)'
    <3>1. Piece(outbox'[e], outbox[e])
      BY <2>1, PieceSelf DEF TypeOK
    <3> QED BY <1>1, <1>7, <2>4, <3>1, FlowPiece DEF FlowInv
  <2>6. stored[e] \subseteq pushed[d]
    BY <1>1 DEF CommitInv
  <2>7. /\ stored'[d] \subseteq pushed'[e]
        /\ writing'[d] # NoWrite =>
             /\ writing'[d].path \in pushed'[e] \ stored'[d]
             /\ writing'[d].data = index'[e][writing'[d].path].hash
    BY <1>1, <1>6, <2>4, CommitKept
  <2>8. \A f \in Peer : f = d \/ f = e
    BY <1>1
  <2>9. CommitInv'
    <3>1. /\ stored'[e] \subseteq pushed'[d]
          /\ writing'[e].path \in pushed'[d] \ stored'[e]
          /\ writing'[e].data = index'[d][writing'[e].path].hash
      BY <1>5, <1>6, <1>10, <2>2, <2>6
    <3> QED BY <1>1, <2>7, <2>8, <3>1 DEF CommitInv
  <2> QED BY <2>3, <2>5, <2>8, <2>9 DEF FlowInv
<1> QED BY <1>8, <1>9, <1>10

\* Storing a file.
LEMMA PlaceFlow ==
  ASSUME TypeOK, TypeOK', OrderInv, FlowInv, CommitInv, Grows, NEW d \in Peer, Place(d)
  PROVE  FlowInv' /\ CommitInv'
<1>1. PICK p \in Path : p = writing[d].path
  BY DEF Place, Committing, TypeOK, Write
<1>2. PICK n \in Message : n = [kind |-> "ack", path |-> p, ok |-> TRUE]
  BY DEF Message, AckMsg
<1>3. /\ stored' = [stored EXCEPT ![d] = @ \cup {p}] /\ writing' = [writing EXCEPT ![d] = NoWrite]
      /\ outbox' = [outbox EXCEPT ![d] = <<n>>] /\ UNCHANGED <<wire, index, pushed, touched>>
      /\ writing[d] # NoWrite
  BY <1>1, <1>2 DEF Place, Committing
<1>4. /\ stored'[d] = stored[d] \cup {p} /\ writing'[d] = NoWrite /\ outbox'[d] = <<n>>
      /\ \A e \in Peer : e # d => /\ stored'[e] = stored[e] /\ writing'[e] = writing[e]
                                  /\ outbox'[e] = outbox[e]
  BY <1>3 DEF TypeOK
<1>5. \A e \in Peer : StaysOpen(e)
  BY <1>1, <1>3, <1>4 DEF StaysOpen, Unfinished
<1>6. \A e \in Peer : Piece(wire'[e], wire[e])
  BY <1>3, PieceSelf DEF TypeOK
<1>7. Honest(d, n)' /\ n.kind # "chunk"
  BY <1>2, <1>4 DEF Honest
<1>8. ASSUME NEW e \in Peer PROVE Flow(e)'
  <2>1. CASE e = d
    BY <1>4, <1>5, <1>6, <1>7, <2>1, OtherPeer, FlowFresh DEF FlowInv
  <2>2. CASE e # d
    <3>1. Piece(outbox'[e], outbox[e])
      BY <1>4, <2>2, PieceSelf DEF TypeOK
    <3> QED BY <1>5, <1>6, <3>1, OtherPeer, FlowPiece DEF FlowInv
  <2> QED BY <2>1, <2>2
<1>9. p \in pushed[Other(d)]
  BY <1>1, <1>3 DEF CommitInv
<1>10. CommitInv'
  BY <1>3, <1>4, <1>9 DEF CommitInv
<1> QED BY <1>8, <1>10 DEF FlowInv

\* Every step keeps the frames honest and the commits in order.
LEMMA FlowStep ==
  ASSUME TypeOK, TypeOK', OrderInv, FlowInv, CommitInv, ReplicaInv, [Next]_vars
  PROVE  FlowInv' /\ CommitInv'
<1>0. Grows
  BY GrowsStep
<1>q. ASSUME Shrinks, UNCHANGED stored, \A d \in Peer : Settles(d)
      PROVE  FlowInv' /\ CommitInv'
  BY <1>0, <1>q, Quiet
<1>f. ASSUME NEW d \in Peer, NEW m \in Message, m.kind # "chunk", Honest(d, m)',
             outbox' = [outbox EXCEPT ![d] = <<m>>], \A e \in Peer : Piece(wire'[e], wire[e]),
             UNCHANGED <<stored, writing>>
      PROVE  FlowInv' /\ CommitInv'
  <2>1. \A e \in Peer : Settles(e) /\ StaysOpen(e)
    BY <1>f, WriteKept, SettlesOpen
  <2>2. ASSUME NEW e \in Peer PROVE Flow(e)'
    <3>1. CASE e = d
      <4>1. outbox'[d] = <<m>>
        BY <1>f DEF TypeOK
      <4> QED BY <1>0, <1>f, <2>1, <3>1, <4>1, OtherPeer, FlowFresh DEF FlowInv
    <3>2. CASE e # d
      <4>1. Piece(outbox'[e], outbox[e])
        BY <1>f, <3>2, PieceSelf DEF TypeOK
      <4> QED BY <1>0, <1>f, <2>1, <4>1, OtherPeer, FlowPiece DEF FlowInv
    <3> QED BY <3>1, <3>2
  <2>3. CommitInv'
    BY <1>0, <1>f, <2>1, CommitKept DEF CommitInv
  <2> QED BY <2>2, <2>3 DEF FlowInv
<1>i. PICK m \in Message : m = [kind |-> "index"]
  BY DEF Message, IndexMsg
<1>1. CASE ClientScan
  <2>1. index'["client"] # NoIndex
    BY <1>1, ScanType, SessionAssumption DEF ClientScan, TypeOK
  <2>2. Honest("client", m)' /\ m.kind # "chunk"
    BY <1>i, <2>1 DEF Honest
  <2>3. \A e \in Peer : Piece(wire'[e], wire[e])
    BY <1>1, PieceSelf DEF ClientScan, TypeOK
  <2> QED BY <1>1, <1>i, <1>f, <2>2, <2>3 DEF ClientScan
<1>2. CASE ServerIndex
  <2>1. index'["server"] # NoIndex
    BY <1>2, ScanType, SessionAssumption DEF ServerIndex, TypeOK
  <2>2. Honest("server", m)' /\ m.kind # "chunk"
    BY <1>i, <2>1 DEF Honest
  <2>3. \A e \in Peer : Piece(wire'[e], wire[e])
    BY <1>2, TakeShrinks DEF ServerIndex, Other
  <2> QED BY <1>2, <1>i, <1>f, <2>2, <2>3 DEF ServerIndex
<1>3. CASE ClientIndex
  <2>1. \A e \in Peer : Piece(wire'[e], wire[e])
    <3>1. CASE wire' = [wire EXCEPT !["server"] = <<>>]
      <4>1. ASSUME NEW e \in Peer PROVE Piece(wire'[e], wire[e])
        <5>1. wire'[e] = wire[e] \/ wire'[e] = <<>>
          BY <3>1 DEF TypeOK
        <5> QED BY <5>1, PieceSelf DEF TypeOK
      <4> QED BY <4>1
    <3>2. CASE wire' = [wire EXCEPT !["server"] = Tail(@)]
      BY <1>3, <3>2, TakeShrinks DEF ClientIndex, Other
    <3> QED BY <1>3, <3>1, <3>2 DEF ClientIndex, DryRunReturn
  <2>2. Shrinks
    BY <1>3, <2>1, PieceSelf DEF ClientIndex, Shrinks, TypeOK
  <2> QED BY <1>3, <1>q, <2>2, WriteKept DEF ClientIndex
<1>4. ASSUME NEW d \in Peer, Send(d) PROVE FlowInv' /\ CommitInv'
  <2>1. UNCHANGED <<stored, writing>>
    BY <1>4 DEF Send
  <2>2. \A e \in Peer : Settles(e) /\ StaysOpen(e)
    BY <2>1, WriteKept, SettlesOpen
  <2>3. ASSUME NEW e \in Peer PROVE Flow(e)'
    <3>1. CASE e = d
      BY <1>0, <1>4, <2>2, <3>1, OtherPeer, FlowSend DEF FlowInv
    <3>2. CASE e # d
      <4>1. wire'[e] = wire[e] /\ outbox'[e] = outbox[e]
        BY <1>4, <3>2 DEF Send, TypeOK
      <4>2. Piece(wire'[e], wire[e]) /\ Piece(outbox'[e], outbox[e])
        BY <4>1, PieceSelf DEF TypeOK
      <4> QED BY <1>0, <2>2, <4>2, OtherPeer, FlowPiece DEF FlowInv
    <3> QED BY <3>1, <3>2
  <2>4. CommitInv'
    BY <1>0, <2>1, <2>2, CommitKept DEF CommitInv
  <2> QED BY <2>3, <2>4 DEF FlowInv
<1>5. ASSUME NEW d \in Peer, PushFile(d) PROVE FlowInv' /\ CommitInv'
  <2>1. UNCHANGED <<stored, writing, wire>>
    BY <1>5 DEF PushFile
  <2>2. \A e \in Peer : Settles(e) /\ StaysOpen(e)
    BY <2>1, WriteKept, SettlesOpen
  <2>3. ASSUME NEW e \in Peer PROVE Flow(e)'
    <3>1. CASE e = d
      BY <1>0, <1>5, <3>1, FlowPush
    <3>2. CASE e # d
      <4>1. outbox'[e] = outbox[e]
        BY <1>5, <3>2 DEF PushFile, TypeOK
      <4>2. Piece(wire'[e], wire[e]) /\ Piece(outbox'[e], outbox[e])
        BY <2>1, <4>1, PieceSelf DEF TypeOK
      <4> QED BY <1>0, <2>2, <4>2, OtherPeer, FlowPiece DEF FlowInv
    <3> QED BY <3>1, <3>2
  <2>4. CommitInv'
    BY <1>0, <2>1, <2>2, CommitKept DEF CommitInv
  <2> QED BY <2>3, <2>4 DEF FlowInv
<1>6. ASSUME NEW d \in Peer, Sentinel(d) PROVE FlowInv' /\ CommitInv'
  <2>1. PICK n \in Message : n = [kind |-> "eof"]
    BY DEF Message, EofMsg
  <2>2. Honest(d, n)' /\ n.kind # "chunk"
    BY <2>1 DEF Honest
  <2>3. \A e \in Peer : Piece(wire'[e], wire[e])
    BY <1>6, PieceSelf DEF Sentinel, TypeOK
  <2> QED BY <1>6, <1>f, <2>1, <2>2, <2>3 DEF Sentinel
<1>7. ASSUME NEW d \in Peer, RecvAck(d) PROVE FlowInv' /\ CommitInv'
  <2>1. Shrinks
    BY <1>7, TakeShrinks, PieceSelf DEF RecvAck, Next1, Shrinks, TypeOK
  <2> QED BY <1>7, <1>q, <2>1, WriteKept DEF RecvAck
<1>8. ASSUME NEW d \in Peer, Finish(d) PROVE FlowInv' /\ CommitInv'
  BY <1>8, <1>q, ConcludeShrinks, WriteKept DEF Finish
<1>9. ASSUME NEW d \in Peer, MoveAside(d), ~ Fail(d) PROVE FlowInv' /\ CommitInv'
  <2>1. UNCHANGED <<wire, outbox, stored>> /\ writing' = [writing EXCEPT ![d].step = "place"]
    BY <1>9 DEF MoveAside
  <2>2. writing[d] # NoWrite /\ writing[d] \in Write
    BY <1>9 DEF MoveAside, Committing, TypeOK
  <2>3. \A e \in Peer : Settles(e)
    BY <2>1, <2>2 DEF Settles, TypeOK, Write
  <2> QED BY <1>q, <2>1, <2>3, PieceKept
<1>10. ASSUME NEW d \in Peer, NEW p, NEW f, Edit(d, p, f) PROVE FlowInv' /\ CommitInv'
  BY <1>10, <1>q, PieceKept, WriteKept DEF Edit
<1>11. CASE Idle
  BY <1>11, <1>q DEF Idle
<1>12. ASSUME NEW d \in Peer, RecvChunk(d) PROVE FlowInv' /\ CommitInv'
  BY <1>0, <1>12, ChunkStep
<1>13. ASSUME NEW d \in Peer, Place(d) PROVE FlowInv' /\ CommitInv'
  BY <1>0, <1>13, PlaceFlow
<1> QED
  BY <1>1, <1>2, <1>3, <1>4, <1>5, <1>6, <1>7, <1>8, <1>9, <1>10, <1>11, <1>12, <1>13, StepKinds
  DEF Exchange, Moves, Push

-----------------------------------------------------------------------------
\* A file that is being committed is one that only the other end pushes.
LEMMA CommitPath ==
  ASSUME TypeOK, OrderInv, CommitInv, NEW d \in Peer, writing[d] # NoWrite
  PROVE  /\ writing[d] \in Write /\ writing[d].path \in Path
         /\ writing[d].path \in pushed[Other(d)] /\ writing[d].path \notin stored[d]
         /\ Announced /\ writing[d].path \in PushSet(Other(d))
         /\ writing[d].data = index[Other(d)][writing[d].path].hash
<1>1. writing[d] \in Write /\ writing[d].path \in Path
  BY DEF TypeOK, Write
<1>2. /\ writing[d].path \in pushed[Other(d)] /\ writing[d].path \notin stored[d]
      /\ writing[d].data = index[Other(d)][writing[d].path].hash
  BY DEF CommitInv
<1> QED BY <1>1, <1>2, OtherPeer, PushedAnnounced

\* Until it is edited, a file is what its replica announced, or what it adopted.
LEMMA ReplicaStep ==
  ASSUME TypeOK, TypeOK', OrderInv, FlowInv, CommitInv, ReplicaInv, [Next]_vars
  PROVE  ReplicaInv'
<1> DEFINE Holds(d, p) ==
      index[d] # NoIndex =>
        /\ ~ (Announced /\ p \in PushSet(Other(d))) => Agrees(disk[d][p], index[d][p])
        /\ p \in stored[d] => disk[d][p] # Missing /\ disk[d][p].data = index[Other(d)][p].hash
<1>0. Grows
  BY GrowsStep
<1>a. \A d \in Peer : ~ Announced => stored[d] = {}
  BY OtherPeer, PushedAnnounced DEF CommitInv
<1>b. ASSUME index' = index, NEW d \in Peer, NEW p \in Path \ touched',
             disk'[d][p] = disk[d][p], p \in stored'[d] => p \in stored[d]
      PROVE  Holds(d, p)'
  <2>1. Holds(d, p)
    BY <1>0, <1>b DEF ReplicaInv, Grows
  <2>2. PushSet(Other(d))' = PushSet(Other(d))
    BY <1>b, OtherPeer, PushSetFixed
  <2>3. Announced' = Announced
    BY <1>b DEF Announced
  <2> QED BY <1>b, <2>1, <2>2, <2>3
<1>c. ASSUME \A d \in Peer, p \in Path \ touched' : Holds(d, p)'
      PROVE  ReplicaInv'
  BY <1>c DEF ReplicaInv
<1>d. ASSUME UNCHANGED <<disk, index, stored>> PROVE ReplicaInv'
  BY <1>b, <1>c, <1>d
<1>e. ASSUME NEW d \in Peer, index' = [index EXCEPT ![d] = Scan(d)], ~ Announced,
             UNCHANGED <<disk, stored, touched>>
      PROVE  ReplicaInv'
  <2>1. ASSUME NEW e \in Peer, NEW p \in Path \ touched', index'[e] # NoIndex
        PROVE  Agrees(disk'[e][p], index'[e][p])
    <3>1. CASE e = d
      <4>1. index'[e] = Scan(d)
        BY <1>e, <3>1 DEF TypeOK
      <4>2. disk[d][p] = Missing \/ disk[d][p] \in File
        BY DEF TypeOK, Disk
      <4>3. CASE disk[d][p] = Missing
        BY <1>e, <3>1, <4>1, <4>3 DEF Scan, Agrees
      <4>4. CASE disk[d][p] # Missing
        <5>1. index'[e][p] = [hash |-> disk[d][p].data, mtime |-> disk[d][p].mtime]
          BY <4>1, <4>4 DEF Scan
        <5>2. disk[d][p].data \in Content /\ disk[d][p].mtime \in Nat
          BY <4>2, <4>4 DEF File
        <5>3. index'[e][p] \in IndexEntry
          BY <5>1, <5>2 DEF IndexEntry
        <5> QED BY <1>e, <3>1, <4>4, <5>1, <5>3, MissingAssumption DEF Agrees
      <4> QED BY <4>3, <4>4
    <3>2. CASE e # d
      <4>1. index'[e] = index[e] /\ disk' = disk /\ p \in Path \ touched
        BY <1>e, <3>2 DEF TypeOK
      <4> QED BY <1>e, <2>1, <4>1 DEF ReplicaInv
    <3> QED BY <3>1, <3>2
  <2>2. \A e \in Peer : stored'[e] = {}
    BY <1>a, <1>e
  <2> QED BY <1>c, <2>1, <2>2
<1>1. CASE ClientScan
  <2>1. ~ Announced
    BY <1>1 DEF ClientScan, OrderInv, Announced
  <2> QED BY <1>1, <1>e, <2>1 DEF ClientScan
<1>2. CASE ServerIndex
  <2>1. ~ Announced
    BY <1>2 DEF ServerIndex, OrderInv, Announced
  <2> QED BY <1>2, <1>e, <2>1 DEF ServerIndex
<1>3. CASE ClientIndex \/ Idle
  BY <1>3, <1>d DEF ClientIndex, Idle
<1>4. ASSUME NEW d \in Peer, MoveAside(d), ~ Fail(d) PROVE ReplicaInv'
  <2>1. /\ disk' = [disk EXCEPT ![d][writing[d].path] = Missing]
        /\ UNCHANGED <<index, stored, touched>> /\ writing[d] # NoWrite
    BY <1>4 DEF MoveAside, Committing
  <2>2. ASSUME NEW e \in Peer, NEW p \in Path \ touched' PROVE Holds(e, p)'
    <3>1. CASE e = d /\ p = writing[d].path
      <4>1. Announced /\ p \in PushSet(Other(d)) /\ p \notin stored[d]
        BY <2>1, <3>1, CommitPath
      <4>2. Announced' /\ p \in PushSet(Other(d))'
        BY <2>1, <4>1, OtherPeer, PushSetFixed DEF Announced
      <4> QED BY <2>1, <3>1, <4>1, <4>2
    <3>2. CASE ~ (e = d /\ p = writing[d].path)
      <4>1. disk'[e][p] = disk[e][p]
        BY <2>1, <3>2, CommitPath DEF TypeOK, Disk
      <4> QED BY <1>b, <2>1, <4>1
    <3> QED BY <3>1, <3>2
  <2> QED BY <1>c, <2>2
<1>5. ASSUME NEW d \in Peer, Place(d) PROVE ReplicaInv'
  <2>1. /\ disk' = [disk EXCEPT ![d][writing[d].path] = [data |-> writing[d].data, mtime |-> Now]]
        /\ stored' = [stored EXCEPT ![d] = @ \cup {writing[d].path}]
        /\ UNCHANGED <<index, touched>> /\ writing[d] # NoWrite
    BY <1>5 DEF Place, Committing
  <2>2. ASSUME NEW e \in Peer, NEW p \in Path \ touched' PROVE Holds(e, p)'
    <3>1. CASE e = d /\ p = writing[d].path
      <4>1. /\ Announced /\ p \in PushSet(Other(d)) /\ writing[d] \in Write
            /\ writing[d].data = index[Other(d)][p].hash
        BY <2>1, <3>1, CommitPath
      <4>2. Announced' /\ p \in PushSet(Other(d))'
        BY <2>1, <4>1, OtherPeer, PushSetFixed DEF Announced
      <4>3. disk'[d][p] = [data |-> writing[d].data, mtime |-> Now]
        BY <2>1, <3>1 DEF TypeOK, Disk
      <4>4. disk'[d][p] \in File
        BY <4>1, <4>3, SessionAssumption DEF File, Write
      <4>5. disk'[d][p] # Missing /\ disk'[d][p].data = index[Other(d)][p].hash
        BY <4>1, <4>3, <4>4, SessionAssumption
      <4> QED BY <2>1, <3>1, <4>2, <4>5
    <3>2. CASE ~ (e = d /\ p = writing[d].path)
      <4>1. disk'[e][p] = disk[e][p]
        BY <2>1, <3>2, CommitPath DEF TypeOK, Disk
      <4>2. p \in stored'[e] => p \in stored[e]
        BY <2>1, <3>2 DEF TypeOK
      <4> QED BY <1>b, <2>1, <4>1, <4>2
    <3> QED BY <3>1, <3>2
  <2> QED BY <1>c, <2>2
<1>6. ASSUME NEW d \in Peer, NEW q \in Path, NEW f, Edit(d, q, f) PROVE ReplicaInv'
  <2>1. /\ disk' = [disk EXCEPT ![d][q] = f] /\ UNCHANGED <<index, stored>>
        /\ touched' = IF index[d] = NoIndex THEN touched ELSE touched \cup {q}
    BY <1>6 DEF Edit
  <2>2. ASSUME NEW e \in Peer, NEW p \in Path \ touched' PROVE Holds(e, p)'
    <3>1. CASE e = d /\ p = q
      BY <2>1, <3>1
    <3>2. CASE ~ (e = d /\ p = q)
      <4>1. disk'[e][p] = disk[e][p]
        BY <2>1, <3>2 DEF TypeOK, Disk
      <4> QED BY <1>b, <2>1, <4>1
    <3> QED BY <3>1, <3>2
  <2> QED BY <1>c, <2>2
<1>7. ASSUME NEW d \in Peer,
             Send(d) \/ Push(d) \/ RecvChunk(d) \/ RecvAck(d) \/ Finish(d)
      PROVE  ReplicaInv'
  BY <1>7, <1>d DEF Send, Push, PushFile, Sentinel, RecvChunk, RecvAck, Finish, Conclude
<1> QED BY <1>1, <1>2, <1>3, <1>4, <1>5, <1>6, <1>7, StepKinds DEF Exchange, Moves

\* Before it plans, or when it only plans, the client has moved nothing.
LEMMA EarlyStep ==
  ASSUME TypeOK, OrderInv, CommitInv, EarlyInv, [Next]_vars
  PROVE  EarlyInv'
<1> SUFFICES ASSUME pc'["client"] \in {"scan", "await", "dry"}
             PROVE  /\ pushed'["client"] = {} /\ stored'["client"] = {}
                    /\ writing'["client"] = NoWrite /\ ~ lastSync'["client"]
                    /\ \A d \in Peer : aside'[d] = {}
  BY DEF EarlyInv
<1> DEFINE Early == pc["client"] \in {"scan", "await", "dry"}
<1>s. ASSUME Early
      PROVE  /\ pushed["client"] = {} /\ stored["client"] = {} /\ writing["client"] = NoWrite
             /\ ~ lastSync["client"] /\ writing["server"] = NoWrite
             /\ \A d \in Peer : aside[d] = {}
  BY <1>s DEF EarlyInv, CommitInv, Other
<1>k. ASSUME Early, UNCHANGED <<pushed, stored, writing, lastSync, aside>>
      PROVE  /\ pushed'["client"] = {} /\ stored'["client"] = {}
             /\ writing'["client"] = NoWrite /\ ~ lastSync'["client"]
             /\ \A d \in Peer : aside'[d] = {}
  BY <1>k, <1>s
<1>1. CASE Exchange
  <2>1. Early
    BY <1>1 DEF Exchange, ClientScan, ServerIndex, ClientIndex, TypeOK
  <2>2. UNCHANGED <<pushed, stored, writing, lastSync, aside>>
    BY <1>1 DEF Exchange, ClientScan, ServerIndex, ClientIndex, DryRunReturn
  <2> QED BY <1>k, <2>1, <2>2
<1>2. CASE Idle
  <2>1. Early /\ lastSync'["client"] = lastSync["client"]
    BY <1>2 DEF Idle
  <2>2. writing'["client"] = NoWrite
    BY <1>2, <1>s, <2>1 DEF Idle, Settles
  <2> QED BY <1>2, <1>s, <2>1, <2>2 DEF Idle
<1>3. ASSUME NEW d \in Peer, Send(d) \/ RecvAck(d) PROVE EarlyInv'
  <2>1. UNCHANGED <<pc, pushed, stored, writing, lastSync, aside>>
    BY <1>3 DEF Send, RecvAck
  <2> QED BY <2>1 DEF EarlyInv
<1>4. ASSUME NEW d \in Peer, Push(d) PROVE EarlyInv'
  <2>1. UNCHANGED <<stored, writing, lastSync, aside>> /\ pc[d] = "push"
    BY <1>4 DEF Push, PushFile, Sentinel
  <2>2. pc' = pc \/ pc' = [pc EXCEPT ![d] = "recv"]
    BY <1>4 DEF Push, PushFile, Sentinel
  <2>3. d = "server" /\ Early
    BY <2>1, <2>2 DEF TypeOK
  <2>4. pushed'["client"] = pushed["client"]
    BY <1>4, <2>3 DEF Push, PushFile, Sentinel, TypeOK
  <2> QED BY <1>s, <2>1, <2>3, <2>4 DEF EarlyInv
<1>5. ASSUME NEW d \in Peer, RecvChunk(d) PROVE EarlyInv'
  <2>1. UNCHANGED <<pc, pushed, stored, lastSync, aside>> /\ pc[d] = "recv"
    BY <1>5 DEF RecvChunk, Receiving
  <2>2. d = "server" /\ Early
    BY <2>1
  <2>3. writing' = writing \/ \E w : writing' = [writing EXCEPT ![d] = w]
    <3>1. PICK m : m = Head(wire[Other(d)])
      OBVIOUS
    <3>2. CASE ~ m.last
      BY <1>5, <3>1, <3>2 DEF RecvChunk
    <3>3. CASE m.last
      BY <1>5, <3>1, <3>3 DEF RecvChunk
    <3> QED BY <3>2, <3>3
  <2>4. writing'["client"] = writing["client"]
    BY <2>2, <2>3 DEF TypeOK
  <2> QED BY <1>s, <2>1, <2>2, <2>4 DEF EarlyInv
<1>6. ASSUME NEW d \in Peer, Place(d) \/ (MoveAside(d) /\ ~ Fail(d)) PROVE EarlyInv'
  <2>1. writing[d] # NoWrite /\ pc' = pc
    BY <1>6 DEF Place, MoveAside, Committing
  <2> QED BY <1>s, <2>1
<1>7. ASSUME NEW d \in Peer, Finish(d) PROVE EarlyInv'
  <2>1. pc[d] = "recv" /\ Conclude(d, "complete")
    BY <1>7 DEF Finish
  <2>2. /\ pc' = [pc EXCEPT ![d] = "complete"] /\ UNCHANGED <<aside, pushed, stored, writing>>
        /\ \A e \in Peer : lastSync'[e] = lastSync[e] \/ e = d
    BY <2>1, ConcludeShrinks
  <2>3. d = "server" /\ Early
    BY <2>1, <2>2 DEF TypeOK
  <2> QED BY <1>s, <2>2, <2>3 DEF EarlyInv
<1>8. ASSUME NEW d \in Peer, NEW p, NEW f, Edit(d, p, f) PROVE EarlyInv'
  <2>1. UNCHANGED <<pc, pushed, stored, writing, lastSync, aside>>
    BY <1>8 DEF Edit
  <2> QED BY <2>1 DEF EarlyInv
<1> QED BY <1>1, <1>2, <1>3, <1>4, <1>5, <1>6, <1>7, <1>8, StepKinds DEF Moves, EarlyInv

\* The client waits for exactly what the server pushes.
LEMMA PullIsPush ==
  ASSUME TypeOK, Announced
  PROVE  PullSet = PushSet("server")
<1>1. SnapOf("client") \in Snapshot /\ SnapOf("server") \in Snapshot
  BY SnapshotsTyped
<1> QED BY <1>1, SessionMirror DEF PushSet, PullSet, Plan, Other

\* A client that stops waiting has everything it waited for.
LEMMA FinishedHasAll ==
  ASSUME TypeOK, OrderInv, CommitInv, ClientInv, Announced, Finished("client")
  PROVE  pushed["client"] \subseteq acked /\ PullSet \subseteq stored["client"]
<1>1. IsFiniteSet(Path)
  BY SessionAssumption
<1>2. /\ acked \subseteq pushed["client"] /\ pushed["client"] \subseteq Path
      /\ stored["client"] \subseteq PullSet /\ PullSet \subseteq Path
  <2>1. stored["client"] \subseteq PushSet("server")
    BY DEF CommitInv, OrderInv, Other
  <2> QED BY <2>1, PullIsPush, PushSetType DEF ClientInv, TypeOK
<1>3. IsFiniteSet(pushed["client"]) /\ IsFiniteSet(PullSet)
  BY <1>1, <1>2, FS_Subset
<1>4. /\ IsFiniteSet(acked) /\ Cardinality(acked) <= Cardinality(pushed["client"])
      /\ Cardinality(acked) = Cardinality(pushed["client"]) => acked = pushed["client"]
  BY <1>2, <1>3, FS_Subset
<1>5. /\ IsFiniteSet(stored["client"]) /\ Cardinality(stored["client"]) <= Cardinality(PullSet)
      /\ Cardinality(stored["client"]) = Cardinality(PullSet) => stored["client"] = PullSet
  BY <1>2, <1>3, FS_Subset
<1>6. /\ Cardinality(acked) \in Nat /\ Cardinality(pushed["client"]) \in Nat
      /\ Cardinality(stored["client"]) \in Nat /\ Cardinality(PullSet) \in Nat
  BY <1>3, <1>4, <1>5, FS_CardinalityType
<1>7. /\ Cardinality(acked) >= Cardinality(pushed["client"])
      /\ Cardinality(stored["client"]) >= Cardinality(PullSet)
  BY DEF Finished
<1>8. acked = pushed["client"]
  BY <1>4, <1>6, <1>7
<1>9. stored["client"] = PullSet
  BY <1>5, <1>6, <1>7
<1> QED BY <1>8, <1>9

\* What the client counts.
LEMMA ClientStep ==
  ASSUME TypeOK, TypeOK', OrderInv, FlowInv, CommitInv, ReplicaInv, ClientInv, [Next]_vars
  PROVE  ClientInv'
<1>0. Grows
  BY GrowsStep
<1>a. Announced => Announced' /\ PushSet("client")' = PushSet("client") /\ PullSet' = PullSet
  <2>1. Announced => index' = index
    BY OrderStep
  <2>2. index' = index => PullSet' = PullSet
    BY DEF PullSet, Plan, SnapOf
  <2> QED BY <2>1, <2>2, PushSetFixed DEF Announced
<1>k. ASSUME acked' = acked, pushed'["client"] = pushed["client"], todo'["client"] = todo["client"],
             pc'["client"] = pc["client"] \/ pc'["client"] \notin {"push", "recv", "complete"}
      PROVE  ClientInv'
  <2>1. acked' \subseteq pushed'["client"] \cap (stored'["server"] \cup touched')
    BY <1>k, <1>0 DEF ClientInv, Grows
  <2> QED BY <1>k, <1>0, <1>a, <2>1 DEF ClientInv, Grows
<1>1. CASE ClientScan \/ ServerIndex
  <2>1. /\ acked' = acked /\ pushed' = pushed /\ todo'["client"] = todo["client"]
        /\ pc'["client"] = pc["client"] \/ pc'["client"] = "await"
    BY <1>1 DEF ClientScan, ServerIndex, TypeOK
  <2> QED BY <1>k, <2>1
<1>2. CASE ClientIndex
  <2>1. acked' = acked /\ pushed' = pushed /\ index' = index
    BY <1>2 DEF ClientIndex
  <2>2. Announced
    <3>1. Honest("server", wire["server"][1]) /\ wire["server"][1].kind = "index"
      BY <1>2 DEF ClientIndex, FlowInv, Flow, TypeOK
    <3> QED BY <3>1 DEF Honest, OrderInv, Announced
  <2>3. CASE pc'["client"] = "dry" /\ UNCHANGED todo
    BY <1>k, <2>1, <2>3
  <2>4. CASE pc'["client"] = "push" /\ todo'["client"] = PushSet("client")
    <3>1. acked' \subseteq pushed'["client"] \cap (stored'["server"] \cup touched')
      BY <1>0, <2>1 DEF ClientInv, Grows
    <3> QED BY <1>a, <2>2, <2>4, <3>1 DEF ClientInv
  <2> QED BY <1>2, <2>3, <2>4 DEF ClientIndex, DryRunReturn, TypeOK
<1>3. CASE Idle
  BY <1>3, <1>k DEF Idle
<1>4. ASSUME NEW d \in Peer, PushFile(d) PROVE ClientInv'
  <2>1. PICK p \in todo[d] :
          /\ todo' = [todo EXCEPT ![d] = @ \ {p}]
          /\ IF disk[d][p] = Missing
             THEN UNCHANGED <<outbox, pushed, chanVars>>
             ELSE /\ outbox' = [outbox EXCEPT ![d] = FileChunks(p, disk[d][p].data)]
                  /\ pushed' = [pushed EXCEPT ![d] = @ \cup {p}]
    BY <1>4 DEF PushFile
  <2>2. acked' = acked /\ pc' = pc /\ pc[d] = "push" /\ UNCHANGED <<stored, touched, index>>
    BY <1>4 DEF PushFile
  <2>3. CASE d # "client"
    <3>1. todo'["client"] = todo["client"] /\ pushed'["client"] = pushed["client"]
      BY <2>1, <2>3 DEF TypeOK
    <3> QED BY <1>k, <2>2, <3>1
  <2>4. CASE d = "client"
    <3>1. Announced /\ p \in PushSet("client") /\ p \in Path
      BY <2>4 DEF OrderInv, TypeOK
    <3>2. /\ p \notin PushSet("server") /\ index["client"][p] # Missing
          /\ index["client"] # NoIndex
      BY <3>1, PushFacts DEF Announced, Other
    <3>3. disk["client"][p] = Missing => p \in touched
      BY <3>1, <3>2 DEF ReplicaInv, Agrees, Other
    <3>4. /\ todo'["client"] = todo["client"] \ {p}
          /\ p \in pushed'["client"] \cup touched
      BY <2>1, <2>4, <3>3 DEF TypeOK
    <3>5. pushed["client"] \subseteq pushed'["client"]
      BY <1>0 DEF Grows
    <3>6. /\ PushSet("client") \subseteq todo["client"] \cup pushed["client"] \cup touched
          /\ acked \subseteq pushed["client"] \cap (stored["server"] \cup touched)
      BY <2>2, <2>4 DEF ClientInv
    <3>7. /\ PushSet("client") \subseteq todo'["client"] \cup pushed'["client"] \cup touched'
          /\ acked' \subseteq pushed'["client"] \cap (stored'["server"] \cup touched')
      BY <2>2, <3>4, <3>5, <3>6
    <3> QED BY <1>a, <2>2, <2>4, <3>1, <3>7 DEF ClientInv
  <2> QED BY <2>3, <2>4
<1>5. ASSUME NEW d \in Peer, Sentinel(d) PROVE ClientInv'
  <2>1. /\ acked' = acked /\ pushed' = pushed /\ todo' = todo /\ todo[d] = {}
        /\ UNCHANGED <<stored, touched>>
        /\ pc' = [pc EXCEPT ![d] = "recv"] /\ pc[d] = "push"
    BY <1>5 DEF Sentinel
  <2>2. CASE d # "client"
    BY <1>k, <2>1, <2>2 DEF TypeOK
  <2>3. CASE d = "client"
    <3>1. pc'["client"] = "recv"
      BY <2>1, <2>3 DEF TypeOK
    <3> QED BY <1>a, <2>1, <2>3, <3>1 DEF ClientInv
  <2> QED BY <2>2, <2>3
<1>6. ASSUME NEW d \in Peer, RecvAck(d) PROVE ClientInv'
  <2>1. UNCHANGED <<pc, pushed, todo, stored, touched>>
    BY <1>6 DEF RecvAck
  <2>2. CASE d # "client"
    <3>1. acked' = acked
      BY <1>6, <2>2 DEF RecvAck
    <3> QED BY <1>k, <2>1, <3>1
  <2>3. CASE d = "client"
    <3>1. PICK m : m = Head(wire["server"])
      OBVIOUS
    <3>2. m.kind = "ack" /\ wire["server"] # <<>> /\ wire["server"] \in Seq(Message)
      BY <1>6, <2>3, <3>1 DEF RecvAck, Next1, Other, TypeOK
    <3>3. m = wire["server"][1] /\ 1 \in 1..Len(wire["server"])
      BY <3>1, <3>2
    <3>4. m.path \in stored["server"] \cup touched
      BY <3>2, <3>3 DEF FlowInv, Flow, Honest
    <3>5. acked' = acked \cup ({m.path} \cap pushed["client"])
      BY <1>6, <2>3, <3>1 DEF RecvAck, Other
    <3>6. acked \subseteq acked' /\ acked' \subseteq pushed["client"] \cap (stored["server"] \cup touched)
      BY <3>4, <3>5 DEF ClientInv
    <3> QED BY <1>a, <2>1, <3>6 DEF ClientInv
  <2> QED BY <2>2, <2>3
<1>7. ASSUME NEW d \in Peer, Finish(d) PROVE ClientInv'
  <2>1. /\ pc' = [pc EXCEPT ![d] = "complete"]
        /\ UNCHANGED <<index, todo, pushed, acked, stored, touched>>
    BY <1>7, ConcludeShrinks DEF Finish
  <2>2. CASE d # "client"
    BY <1>k, <2>1, <2>2 DEF TypeOK
  <2>3. CASE d = "client"
    <3>1. pc["client"] = "recv" /\ Finished("client") /\ pc'["client"] = "complete"
      BY <1>7, <2>1, <2>3 DEF Finish, TypeOK
    <3>2. Announced /\ todo["client"] = {}
      BY <3>1 DEF ClientInv
    <3>3. pushed["client"] \subseteq acked /\ PullSet \subseteq stored["client"]
      BY <3>1, <3>2, FinishedHasAll
    <3> QED BY <1>a, <2>1, <3>1, <3>2, <3>3 DEF ClientInv
  <2> QED BY <2>2, <2>3
<1>8. ASSUME NEW d \in Peer, Send(d) \/ RecvChunk(d) \/ Place(d) \/ (MoveAside(d) /\ ~ Fail(d))
      PROVE  ClientInv'
  <2>1. UNCHANGED <<acked, pushed, todo, pc>>
    BY <1>8 DEF Send, RecvChunk, Place, MoveAside
  <2> QED BY <1>k, <2>1
<1>9. ASSUME NEW d \in Peer, NEW p, NEW f, Edit(d, p, f) PROVE ClientInv'
  <2>1. UNCHANGED <<acked, pushed, todo, pc>>
    BY <1>9 DEF Edit
  <2> QED BY <1>k, <2>1
<1> QED
  BY <1>1, <1>2, <1>3, <1>4, <1>5, <1>6, <1>7, <1>8, <1>9, StepKinds DEF Exchange, Moves, Push

-----------------------------------------------------------------------------
\* The inductive invariant of a session.
SessionInv == OrderInv /\ FlowInv /\ CommitInv /\ ReplicaInv /\ ClientInv /\ EarlyInv

\* SessionInv holds in every state of a session.
LEMMA SessionInvariant == Spec => []SessionInv
<1>1. ASSUME Init PROVE SessionInv
  <2>1. OrderInv
    BY <1>1 DEF Init, OrderInv, Announced
  <2>2. FlowInv
    <3>1. \A d \in Peer : wire[d] = <<>> /\ outbox[d] = <<>>
      BY <1>1 DEF Init
    <3>2. LastIsLast(<<>>) /\ NoneAfter(<<>>, <<>>)
      BY DEF LastIsLast, NoneAfter
    <3> QED BY <3>1, <3>2 DEF FlowInv, Flow
  <2>3. CommitInv
    BY <1>1 DEF Init, CommitInv
  <2>4. ReplicaInv
    BY <1>1 DEF Init, ReplicaInv
  <2>5. ClientInv /\ EarlyInv
    BY <1>1 DEF Init, ClientInv, EarlyInv
  <2> QED BY <2>1, <2>2, <2>3, <2>4, <2>5 DEF SessionInv
<1>2. TypeOK /\ TypeOK' /\ SessionInv /\ [Next]_vars => SessionInv'
  <2> SUFFICES ASSUME TypeOK, TypeOK', SessionInv, [Next]_vars PROVE SessionInv'
    OBVIOUS
  <2>1. OrderInv /\ FlowInv /\ CommitInv /\ ReplicaInv /\ ClientInv /\ EarlyInv
    BY DEF SessionInv
  <2>2. OrderInv'
    BY <2>1, OrderStep
  <2>3. FlowInv' /\ CommitInv'
    BY <2>1, FlowStep
  <2>4. ReplicaInv'
    BY <2>1, ReplicaStep
  <2>5. ClientInv'
    BY <2>1, ClientStep
  <2>6. EarlyInv'
    BY <2>1, EarlyStep
  <2> QED BY <2>2, <2>3, <2>4, <2>5, <2>6 DEF SessionInv
<1> QED BY <1>1, <1>2, TypeCorrect, PTL DEF Spec

(***************************************************************************)
(* "Divergent files transfer exactly once" (README, Synchronization): no   *)
(* path is committed by both ends, and none is committed twice.            *)
(***************************************************************************)
THEOREM Once == Spec => []TransferredOnce
<1>1. TypeOK /\ SessionInv => TransferredOnce
  <2> SUFFICES ASSUME TypeOK, OrderInv, CommitInv PROVE TransferredOnce
    BY DEF SessionInv
  <2>1. ASSUME NEW d \in Peer, NEW p \in pushed[Other(d)]
        PROVE  p \notin stored[Other(d)]
    <3>1. Other(d) \in Peer /\ Other(Other(d)) = d
      BY OtherPeer
    <3>2. Announced /\ p \notin PushSet(d)
      BY <3>1, PushedAnnounced
    <3>3. pushed[d] \subseteq PushSet(d)
      BY <3>2 DEF OrderInv
    <3> QED BY <3>1, <3>2, <3>3 DEF CommitInv
  <2>2. stored["client"] \cap stored["server"] = {}
    BY <2>1 DEF CommitInv, Other
  <2>3. ASSUME NEW d \in Peer, writing[d] # NoWrite
        PROVE  writing[d].path \notin stored["client"] \cup stored["server"]
    <3>1. writing[d].path \in pushed[Other(d)] /\ writing[d].path \notin stored[d]
      BY <2>3 DEF CommitInv
    <3>2. writing[d].path \notin stored[Other(d)]
      BY <2>1, <3>1
    <3> QED BY <3>1, <3>2 DEF Other
  <2> QED BY <2>2, <2>3 DEF TransferredOnce
<1> QED BY <1>1, SessionInvariant, TypeCorrect, PTL

(***************************************************************************)
(* "Dry-run: report the reconciliation plan without transferring anything" *)
(* (session.rs): although the server does not know and pushes its files, a *)
(* dry run moves nothing on either replica and stamps nothing.             *)
(***************************************************************************)
THEOREM DryRunMovesNothing == Spec => []DryRunLeavesFiles
<1>1. SessionInv => DryRunLeavesFiles
  <2> SUFFICES ASSUME SessionInv, pc["client"] = "dry"
               PROVE  /\ \A d \in Peer : stored[d] = {} /\ aside[d] = {}
                      /\ ~ lastSync["client"]
    BY DEF DryRunLeavesFiles
  <2>1. /\ pushed["client"] = {} /\ stored["client"] = {} /\ ~ lastSync["client"]
        /\ \A d \in Peer : aside[d] = {}
    BY DEF SessionInv, EarlyInv
  <2>2. stored["server"] = {}
    BY <2>1 DEF SessionInv, CommitInv, Other
  <2> QED BY <2>1, <2>2
<1> QED BY <1>1, SessionInvariant, PTL

(***************************************************************************)
(* A session that the client ends by its own condition, two counters that  *)
(* reach their totals (Finished), has merged the replicas on every path no *)
(* user touched after the scans, whatever failed in between.               *)
(***************************************************************************)
THEOREM Merges == Spec => []CompleteMerges
<1>1. TypeOK /\ SessionInv => CompleteMerges
  <2> SUFFICES ASSUME TypeOK, SessionInv, pc["client"] = "complete",
                      NEW p \in Path \ touched, NEW d \in Peer
               PROVE  LET m == Merged(SnapOf("client"), SnapOf("server"))
                      IN IF m[p] = Missing THEN disk[d][p] = Missing
                         ELSE disk[d][p] # Missing /\ disk[d][p].data = m[p].hash
    BY DEF CompleteMerges
  <2> USE DEF SessionInv
  <2> DEFINE m == Merged(SnapOf("client"), SnapOf("server"))
             c == index["client"][p]
             s == index["server"][p]
  <2>1. /\ Announced /\ todo["client"] = {}
        /\ PushSet("client") \subseteq todo["client"] \cup pushed["client"] \cup touched
        /\ acked \subseteq stored["server"] \cup touched
        /\ pushed["client"] \subseteq acked /\ PullSet \subseteq stored["client"]
    BY DEF ClientInv
  <2>2. index["client"] # NoIndex /\ index["server"] # NoIndex
    BY <2>1 DEF Announced
  <2>3. /\ p \in PushSet("client") => p \in stored["server"]
        /\ p \in PushSet("server") => p \in stored["client"]
    BY <2>1, PullIsPush
  <2>4. m[p] = IF p \in PushSet("client") THEN SnapOf("client")[p] ELSE SnapOf("server")[p]
    BY DEF Merged, PushSet, Plan, Other
  <2>5. /\ c = Missing => SnapOf("client")[p] = Missing
        /\ c # Missing => SnapOf("client")[p] # Missing /\ SnapOf("client")[p].hash = c.hash
        /\ s = Missing => SnapOf("server")[p] = Missing
        /\ s # Missing => SnapOf("server")[p] # Missing /\ SnapOf("server")[p].hash = s.hash
    BY <2>1, SnapEntry
  <2>6. /\ p \notin PushSet("server") => Agrees(disk["client"][p], c)
        /\ p \notin PushSet("client") => Agrees(disk["server"][p], s)
        /\ p \in stored["client"] => disk["client"][p] # Missing /\ disk["client"][p].data = s.hash
        /\ p \in stored["server"] => disk["server"][p] # Missing /\ disk["server"][p].data = c.hash
    BY <2>1, <2>2 DEF ReplicaInv, Other
  <2>7. /\ p \in PushSet("client") => c # Missing /\ p \notin PushSet("server")
        /\ p \in PushSet("server") => s # Missing /\ p \notin PushSet("client")
    BY <2>1, PushFacts DEF Other
  <2>8. p \notin PushSet("client") /\ p \notin PushSet("server") =>
          (c = Missing /\ s = Missing) \/ (c # Missing /\ s # Missing /\ c.hash = s.hash)
    BY <2>1, WhoPushes
  <2>9. CASE p \in PushSet("client")
    BY <2>3, <2>4, <2>5, <2>6, <2>7, <2>9 DEF Agrees
  <2>10. CASE p \in PushSet("server")
    BY <2>3, <2>4, <2>5, <2>6, <2>7, <2>10 DEF Agrees
  <2>11. CASE p \notin PushSet("client") /\ p \notin PushSet("server")
    BY <2>4, <2>5, <2>6, <2>8, <2>11 DEF Agrees
  <2> QED BY <2>9, <2>10, <2>11
<1> QED BY <1>1, SessionInvariant, TypeCorrect, PTL

-----------------------------------------------------------------------------
\* A file that an end receives is one that it loses by the contract.
LEMMA PushedLoses ==
  ASSUME TypeOK, Announced, NEW d \in Peer, NEW p \in Path, p \in PushSet(Other(d))
  PROVE  Contract!Loses(d, p)
<1> DEFINE c == index["client"][p]
           s == index["server"][p]
           newer == c.mtime > s.mtime /\ (ClientKey = ServerKey \/ s.mtime = 0)
<1>1. /\ p \in PushSet("client") <=> /\ c # Missing /\ (c = Missing \/ s = Missing \/ c.hash # s.hash)
                                     /\ s = Missing \/ newer
      /\ p \in PushSet("server") <=> /\ s # Missing /\ (c = Missing \/ s = Missing \/ c.hash # s.hash)
                                     /\ c = Missing \/ ~ newer
  BY WhoPushes
<1>2. CASE d = "client"
  BY <1>1, <1>2 DEF Contract!Loses, Contract!Announced, Contract!Winner, Contract!ClientNewer,
                    Contract!Other, Other, Announced
<1>3. CASE d = "server"
  BY <1>1, <1>3 DEF Contract!Loses, Contract!Announced, Contract!Winner, Contract!ClientNewer,
                    Contract!Other, Other, Announced
<1> QED BY <1>2, <1>3

(***************************************************************************)
(* A session implements its contract: ClientScan and ServerIndex announce, *)
(* MoveAside retires the loser's file, Place adopts the winner's content,  *)
(* an edit edits, and every other step stutters.                           *)
(***************************************************************************)
THEOREM Implements == Spec => ImplementsContract
<1>1. Init => Contract!Init
  <2> SUFFICES ASSUME Init PROVE Contract!Init
    OBVIOUS
  <2>1. [data : Content, mtime : 1..(Now - 1)] \subseteq Contract!File
    BY SessionAssumption DEF Contract!File
  <2>2. disk \in [Peer -> [Path -> Contract!File \cup {Missing}]]
    BY <2>1 DEF Init
  <2> QED BY <2>2 DEF Init, Contract!Init, Contract!Peer
<1>2. TypeOK /\ TypeOK' /\ SessionInv /\ [Next]_vars => [Contract!Next]_(Contract!vars)
  <2> SUFFICES ASSUME TypeOK, TypeOK', SessionInv, [Next]_vars
               PROVE  Contract!Next \/ UNCHANGED <<disk, aside, index, stored>>
    BY DEF Contract!vars
  <2>0. OrderInv /\ FlowInv /\ CommitInv
    BY DEF SessionInv
  <2>t. /\ Contract!File = File /\ Contract!Peer = Peer
        /\ \A d \in Peer : Contract!Other(d) = Other(d)
    BY DEF Contract!File, Contract!Peer, Contract!Other, File, Other
  <2>1. CASE ClientScan
    <3>1. Contract!Announce("client")
      BY <2>0, <2>1 DEF ClientScan, OrderInv, Scan, Contract!Announce
    <3> QED BY <2>t, <3>1 DEF Contract!Next
  <2>2. CASE ServerIndex
    <3>1. Contract!Announce("server")
      BY <2>0, <2>2 DEF ServerIndex, OrderInv, Scan, Contract!Announce
    <3> QED BY <2>t, <3>1 DEF Contract!Next
  <2>3. ASSUME NEW d \in Peer, MoveAside(d), ~ Fail(d) PROVE Contract!Next
    <3>1. PICK p \in Path : p = writing[d].path
      BY <2>0, <2>3, CommitPath DEF MoveAside, Committing
    <3>2. Contract!Loses(d, p) /\ p \notin stored[d]
      BY <2>0, <2>3, <3>1, CommitPath, PushedLoses DEF MoveAside, Committing
    <3>3. Contract!Retire(d, p)
      BY <2>3, <3>1, <3>2 DEF MoveAside, Contract!Retire
    <3> QED BY <2>t, <3>3 DEF Contract!Next
  <2>4. ASSUME NEW d \in Peer, Place(d) PROVE Contract!Next
    <3>1. PICK p \in Path : p = writing[d].path
      BY <2>0, <2>4, CommitPath DEF Place, Committing
    <3>2. /\ Contract!Loses(d, p) /\ p \notin stored[d] /\ writing[d] \in Write
          /\ writing[d].data = index[Other(d)][p].hash
      BY <2>0, <2>4, <3>1, CommitPath, PushedLoses DEF Place, Committing
    <3>3. /\ disk' = [disk EXCEPT ![d][p] = [data |-> writing[d].data, mtime |-> Now]]
          /\ stored' = [stored EXCEPT ![d] = @ \cup {p}] /\ UNCHANGED <<aside, index>>
      BY <2>4, <3>1 DEF Place
    <3>4. disk'[d][p] = [data |-> writing[d].data, mtime |-> Now]
      BY <3>3 DEF TypeOK, Disk
    <3>5. disk'[d][p] \in File /\ disk'[d][p].data = writing[d].data
      BY <3>2, <3>4, SessionAssumption DEF File, Write
    <3>6. disk' = [disk EXCEPT ![d][p] = disk'[d][p]]
      BY <3>3, <3>4
    <3>7. Contract!Adopt(d, p)
      BY <2>t, <3>2, <3>3, <3>5, <3>6 DEF Contract!Adopt
    <3> QED BY <2>t, <3>7 DEF Contract!Next
  <2>5. ASSUME NEW d \in Peer, NEW p \in Path, NEW f \in File \cup {Missing}, Edit(d, p, f)
        PROVE  Contract!Next
    <3>1. disk' = [disk EXCEPT ![d][p] = f] /\ UNCHANGED <<aside, index, stored>>
      BY <2>5 DEF Edit
    <3>2. disk'[d][p] = f
      BY <3>1 DEF TypeOK, Disk
    <3>3. disk' = [disk EXCEPT ![d][p] = disk'[d][p]]
      BY <3>1, <3>2
    <3>4. Contract!Edit(d, p)
      BY <2>t, <3>1, <3>2, <3>3 DEF Contract!Edit
    <3> QED BY <2>t, <3>4 DEF Contract!Next
  <2>6. CASE ClientIndex \/ Idle
    BY <2>6 DEF ClientIndex, Idle
  <2>7. ASSUME NEW d \in Peer,
               Send(d) \/ Push(d) \/ RecvChunk(d) \/ RecvAck(d) \/ Finish(d)
        PROVE  UNCHANGED <<disk, aside, index, stored>>
    BY <2>7 DEF Send, Push, PushFile, Sentinel, RecvChunk, RecvAck, Finish, Conclude
  <2> QED BY <2>1, <2>2, <2>3, <2>4, <2>5, <2>6, <2>7, StepKinds DEF Exchange, Moves
<1> QED BY <1>1, <1>2, SessionInvariant, TypeCorrect, PTL DEF Spec, ImplementsContract, Contract!Spec
=============================================================================
