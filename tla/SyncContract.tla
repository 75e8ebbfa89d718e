----------------------------- MODULE SyncContract -----------------------------
(***************************************************************************)
(* What a sync session promises to the two replicas it connects, with no   *)
(* word about messages, plans or failures.  Each replica announces its     *)
(* files once.  For each path one side is the winner: the only side that   *)
(* has the file, else the newer one, else the server.  A session changes a *)
(* replica in two ways only: it may retire the loser's file to a backup,   *)
(* and it may let the loser adopt, once, exactly the content the winner    *)
(* announced.  Users edit at any time.                                     *)
(***************************************************************************)
EXTENDS Integers

CONSTANTS Path, Content, Missing, NoIndex,
          SameKey   \* both indexes carry the same device id

VARIABLES disk,     \* disk[d][p]: a file (data, mtime) or Missing
          aside,    \* aside[d]: backups, as <<path, content>>
          index,    \* index[d]: what d announced, or NoIndex
          stored    \* stored[d]: paths adopted by d

vars == <<disk, aside, index, stored>>

Peer == {"client", "server"}
Other(d) == IF d = "client" THEN "server" ELSE "client"

File  == [data : Content, mtime : Nat]
Entry == [hash : Content, mtime : Nat]

Announced == index["client"] # NoIndex /\ index["server"] # NoIndex

\* Version keys that differ make every pair of stamps incomparable.
ClientNewer(c, s) == c.mtime > s.mtime /\ (SameKey \/ s.mtime = 0)

Winner(p) ==
  LET c == index["client"][p]
      s == index["server"][p]
  IN IF c # Missing /\ (s = Missing \/ ClientNewer(c, s))
     THEN "client" ELSE "server"

\* d has to end up with its peer's version of p.
Loses(d, p) ==
  /\ Announced
  /\ Winner(p) = Other(d)
  /\ index[Other(d)][p] # Missing
  /\ index[d][p] # Missing => index[d][p].hash # index[Other(d)][p].hash

-----------------------------------------------------------------------------
Init ==
  /\ disk \in [Peer -> [Path -> File \cup {Missing}]]
  /\ aside = [d \in Peer |-> {}]
  /\ index = [d \in Peer |-> NoIndex]
  /\ stored = [d \in Peer |-> {}]

Announce(d) ==
  /\ index[d] = NoIndex
  /\ index' = [index EXCEPT ![d] =
       [p \in Path |-> IF disk[d][p] = Missing THEN Missing
                       ELSE [hash |-> disk[d][p].data, mtime |-> disk[d][p].mtime]]]
  /\ UNCHANGED <<disk, aside, stored>>

Edit(d, p) ==
  /\ disk' = [disk EXCEPT ![d][p] = disk'[d][p]]
  /\ disk'[d][p] \in File \cup {Missing}
  /\ UNCHANGED <<aside, index, stored>>

Retire(d, p) ==
  /\ Loses(d, p) /\ p \notin stored[d]
  /\ disk[d][p] # Missing
  /\ aside' = [aside EXCEPT ![d] = @ \cup {<<p, disk[d][p].data>>}]
  /\ disk' = [disk EXCEPT ![d][p] = Missing]
  /\ UNCHANGED <<index, stored>>

Adopt(d, p) ==
  /\ Loses(d, p) /\ p \notin stored[d]
  /\ disk' = [disk EXCEPT ![d][p] = disk'[d][p]]
  /\ disk'[d][p] \in File
  /\ disk'[d][p].data = index[Other(d)][p].hash
  /\ stored' = [stored EXCEPT ![d] = @ \cup {p}]
  /\ UNCHANGED <<aside, index>>

Next == \E d \in Peer :
          \/ Announce(d)
          \/ \E p \in Path : Edit(d, p) \/ Retire(d, p) \/ Adopt(d, p)

Spec == Init /\ [][Next]_vars
=============================================================================
