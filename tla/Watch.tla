-------------------------------- MODULE Watch --------------------------------
(***************************************************************************)
(* Syncing on every change: the file watcher (watcher/mod.rs), the loop    *)
(* that runs a session per burst of events (commands/watch.rs) and the     *)
(* background watches of the shell (repl/state.rs), together with the      *)
(* sessions users run themselves.                                          *)
(*                                                                         *)
(* A watch of link <<c, s>> sees the changes of c's folder, its own        *)
(* session's and every other session's writes included.  It waits for a    *)
(* burst to settle, drops what is queued, and runs one session; a session  *)
(* that fails is only reported.  The loop addresses its server by the      *)
(* empty id: the server's certificate is pinned under that id at the first *)
(* contact, for every watch of the device.                                 *)
(***************************************************************************)
EXTENDS FolderSync

CONSTANTS Watched,     \* links that may be watched
          Anonymous,   \* the empty device id
          NoPin

ASSUME WatchAssumption ==
  /\ Watched \subseteq Links
  /\ Anonymous \in DeviceId /\ \A d \in Device : Id[d] # Anonymous
  /\ NoPin \notin Device

VARIABLES
  loop,     \* loop[l]: the watch of l is "off", "idle", has events queued ("due"),
            \* is in a session ("sync"), in one with events queued since
            \* ("again"), in its "last" one, or in one that never ends ("hung")
  pin,      \* pin[d]: whose certificate d's database has under the empty id
  missed    \* history: links with a change no session has followed

watchVars == <<loop, pin, missed>>
vars == <<folderVars, watchVars>>

Reverse(l) == <<l[2], l[1]>>

\* A device that watches may have a pin from an earlier watch of another server.
WatchInit ==
  /\ FolderInit
  /\ loop = [l \in Watched |-> "off"]
  /\ pin \in [Device -> Device \cup {NoPin}]
  /\ \A d \in Device : pin[d] # NoPin =>
       <<d, pin[d]>> \in Links \ Watched /\ \E l \in Watched : l[1] = d
  /\ missed = Watched

-----------------------------------------------------------------------------
\* A step leaves the file as it is, and the devices where it does not.
Same(d, p) ==
  IF disk[d][p] = Missing THEN disk'[d][p] = Missing
  ELSE disk'[d][p] # Missing /\ disk'[d][p].data = disk[d][p].data
Changed == {d \in Device : \E p \in Path : ~ Same(d, p)}

\* What an event does to a loop.
Queued(at) == CASE at = "idle" -> "due" [] at = "sync" -> "again" [] OTHER -> at

\* A step of the file system reaches the watches of the devices it changes.
\* Mutant of Events: a device's own session is not reported to its watches.
EventsOfOthers(after, busy) ==
  \E told \in {Changed \ busy} :
    loop' = [l \in Watched |-> IF l[1] \in told THEN Queued(after[l]) ELSE after[l]]
\* Mutant of Events: every session is reported, one that changes nothing too.
EventsOfReads(after, busy) ==
  \E told \in {Changed \cup busy} :
    loop' = [l \in Watched |-> IF l[1] \in told THEN Queued(after[l]) ELSE after[l]]
Events(after, busy) ==
  \E told \in {Changed} :
    loop' = [l \in Watched |-> IF l[1] \in told THEN Queued(after[l]) ELSE after[l]]

\* A change that no running watch of l sees; a session of l makes up for it.
Unseen(l) == l[1] \in Changed /\ loop[l] = "off"
Misses(synced) ==
  missed' = (missed \ synced) \cup {l \in Watched \ synced : Unseen(l)}

\* start_watch: no session is run for what is there already.
StartWatch(l) ==
  /\ loop[l] = "off"
  /\ loop' = [loop EXCEPT ![l] = "idle"]
  /\ UNCHANGED <<folderVars, pin, missed>>

\* stop_watch: the loop ends where it waits.  A session under way is not
\* aborted; of a shutdown and an event that are both there the loop may take
\* either.
StopWatch(l) ==
  /\ \/ loop[l] = "idle" /\ loop' = [loop EXCEPT ![l] = "off"] /\ UNCHANGED missed
     \/ /\ loop[l] = "due"
        /\ loop' = [loop EXCEPT ![l] = "off"] /\ missed' = missed \cup {l}
     \/ /\ loop[l] \in {"due", "sync", "again"}
        /\ loop' = [loop EXCEPT ![l] = "last"]
        /\ missed' = IF loop[l] = "again" THEN missed \cup {l} ELSE missed
  /\ UNCHANGED <<folderVars, pin>>

\* An event, the pause, and the queue emptied before the session starts.
Drain(l) ==
  /\ loop[l] = "due"
  /\ loop' = [loop EXCEPT ![l] = "sync"]
  /\ UNCHANGED <<folderVars, pin, missed>>

InSession(l) == loop[l] \in {"sync", "again", "last"}

\* The loop after its session ...
Back(l) == [loop EXCEPT ![l] = CASE @ = "again" -> "due" [] @ = "last" -> "off"
                               [] OTHER -> "idle"]

\* ... or in a session that hangs: once connected no write has a timeout, nor the
\* reads of the Hello and of the index, and a session waits for room in the
\* engine's event channel, which the loop never drains.
Hung(l) == [loop EXCEPT ![l] = "hung"]

\* run_sync with an empty device id: trust on first use.
WatchSession(l) ==
  /\ InSession(l) /\ pin[l[1]] \in {NoPin, l[2]}
  /\ Transfer(l[1], l[2], Anonymous, Path)
  /\ pin' = [pin EXCEPT ![l[1]] = l[2]]
  /\ Events(Back(l), {l[1], l[2]})
  /\ Misses({l, Reverse(l)})

\* The session is cut off, or hangs: the certificate is pinned and some paths
\* have come.
WatchCut(l) ==
  /\ InSession(l) /\ pin[l[1]] \in {NoPin, l[2]}
  /\ \E done \in SUBSET Path : Transfer(l[1], l[2], Anonymous, done)
  /\ pin' = [pin EXCEPT ![l[1]] = l[2]]
  /\ \E after \in {Back(l), Hung(l)} : Events(after, {l[1], l[2]})
  /\ missed' = missed \cup {l} \cup {k \in Watched : Unseen(k)}

\* No connection, or the certificate of another server under the empty id; the
\* events that led to the session are gone.
WatchFails(l) ==
  /\ InSession(l)
  /\ loop' = Back(l)
  /\ missed' = missed \cup {l}
  /\ UNCHANGED <<folderVars, pin>>

\* A session of the sync command or the app, under the server's own id.
UserSync(l) ==
  /\ Transfer(l[1], l[2], Id[l[2]], Path)
  /\ Events(loop, {l[1], l[2]})
  /\ Misses({l, Reverse(l)})
  /\ UNCHANGED pin

\* ... that is cut off.
UserSyncCut(l) ==
  /\ \E done \in SUBSET Path : Transfer(l[1], l[2], Id[l[2]], done)
  /\ Events(loop, {l[1], l[2]})
  /\ Misses({})
  /\ UNCHANGED pin

UserEdit(d, p) ==
  /\ UserDelete(d, p) \/ \E c \in Content : UserWrite(d, p, c)
  /\ Events(loop, {})
  /\ Misses({})
  /\ UNCHANGED pin

WatchNext ==
  \/ \E l \in Watched : \/ StartWatch(l) \/ StopWatch(l)
                       \/ Drain(l) \/ WatchSession(l) \/ WatchCut(l) \/ WatchFails(l)
  \/ \E l \in Links : UserSync(l) \/ UserSyncCut(l)
  \/ \E d \in Device, p \in Path : UserEdit(d, p)

\* A loop with work to do goes on: its session ends, or comes to where it hangs.
WatchSpec ==
  /\ WatchInit /\ [][WatchNext]_vars
  /\ \A l \in Watched : /\ WF_vars(Drain(l))
                        /\ WF_vars(WatchFails(l) \/ WatchSession(l) \/ WatchCut(l))

-----------------------------------------------------------------------------
(***************************************************************************)
(* "keep syncing on every change" (README): two devices that watch each    *)
(* other hold the same files whenever both loops wait for the next event,  *)
(* unless a change fell into a time without a watch or a session failed    *)
(* since.  Dropping the queued events before the session loses nothing,    *)
(* and what a session brings in from a third device is passed on.          *)
(***************************************************************************)
IdleWatchesAgree ==
  \A l \in Watched :
    /\ Reverse(l) \in Watched
    /\ loop[l] = "idle" /\ loop[Reverse(l)] = "idle"
    /\ {l, Reverse(l)} \cap missed = {}
    => Equal(l[1], l[2])

(***************************************************************************)
(* Once users stop editing the loops come to rest: although a session's    *)
(* own writes are events for the watches of both ends, they do not keep    *)
(* each other going, nor does a loop left behind by one that hangs in its  *)
(* session, which nothing ends.                                            *)
(***************************************************************************)
WatchesComeToRest == <>[](\A l \in Watched : loop[l] \in {"off", "idle", "hung"})

(***************************************************************************)
(* "newer-mtime-wins" (README), for the sessions that address the server   *)
(* by its id: the device that made the last edit of a path keeps it, or it *)
(* loses to a copy that only looks newer because it was relayed.           *)
(***************************************************************************)
NewestUnlessRelayed ==
  [][\A d \in Device, p \in Path :
       /\ edits' = edits /\ pin' = pin
       /\ latest[p].by = d /\ <<d, p>> \notin relayed
       /\ Has(d, p, latest[p].data) /\ ~ Has(d, p, latest[p].data)'
       => \/ \E l \in Watched : d \in {l[1], l[2]} /\ InSession(l) /\ loop'[l] # loop[l]
          \/ \E e \in Device : /\ <<e, p>> \in relayed /\ disk[e][p] # Missing
                              /\ disk'[d][p] # Missing
                              /\ disk'[d][p].data = disk[e][p].data]_vars

\* The paths d has a file at.
Held(d) == {p \in Path : disk[d][p] # Missing}

\* Everything a session changes at d becomes what the other end holds.
TakenOver(d) ==
  \E l \in Links, e \in Device :
    /\ {d, e} = {l[1], l[2]}
    /\ \A p \in Path : \/ Same(d, p)
                       \/ /\ disk[e][p] # Missing /\ Same(e, p)
                          /\ disk'[d][p] # Missing /\ disk'[d][p].data = disk[e][p].data

(***************************************************************************)
(* A deletion does not travel, and a deleted file comes back: sessions     *)
(* pass no tombstones (sync/orchestrator.rs 119), so that only the user of *)
(* a device removes files there; whatever a session changes, also one that *)
(* is cut off, it takes from the other end, which keeps it; and a link     *)
(* that was behind has both its ends holding every path either of them     *)
(* held once it no longer is.  A path leaves the folder only where its     *)
(* last holder deletes it.                                                 *)
(***************************************************************************)
DeletionsReturn ==
  [][/\ \A d \in Changed : IF edits' = edits THEN TakenOver(d) ELSE Changed = {d}
     /\ \A l \in missed \ missed', d \in Device :
          d \in {l[1], l[2]} => Held(d)' = Held(l[1]) \cup Held(l[2])]_vars

(***************************************************************************)
(* "it stays in sync" (docs/index.html): where the links form a star and   *)
(* the two ends of every link are brought in step again and again, which a *)
(* session that completes does, all replicas come to one content and stay  *)
(* there once the edits stop, whatever the watches do in between and       *)
(* although every transfer restamps the file it moves.                     *)
(***************************************************************************)
SessionsConverge ==
  (\A l \in Links : []<>Equal(l[1], l[2])) => <>[](\A d, e \in Device : Equal(d, e))
=============================================================================
