-------------------------------- MODULE Serving --------------------------------
(***************************************************************************)
(* The servers of the app: the table of folder listeners with the calls    *)
(* that start, stop and restart them (api/mod.rs), the accept loop and the *)
(* life of an inbound connection (listen_for_sync), and the way of events  *)
(* from a connection to the app's poll.                                    *)
(*                                                                         *)
(* The table's mutex is held for one lookup, insertion or drain; each      *)
(* await is a step boundary.  A listener that is started is one number.    *)
(***************************************************************************)
EXTENDS Integers, FiniteSets, FiniteSetsExt

CONSTANTS Op,           \* tasks that call the API
          Conn,         \* inbound connections
          FixedPort,    \* the port the app is set to use
          PortOf,       \* PortOf[o]: the port o asks for, FixedPort or 0 for a free one
          MAX_SESSIONS, \* permits of a listener
          Capacity,     \* of an event channel
          MaxEvents,    \* bound on the events of one connection
          MaxOps        \* bound on the API calls

ASSUME ServingAssumption ==
  /\ FixedPort \in Nat \ {0} /\ PortOf \in [Op -> {0, FixedPort}]
  /\ {MAX_SESSIONS, Capacity} \subseteq Nat \ {0}
  /\ {MaxEvents, MaxOps} \subseteq Nat

VARIABLES
  table,    \* the listener that serves the folder, or 0
  up,       \* listeners whose accept loop runs
  signal,   \* running listeners whose shutdown channel was set, or dropped with its handle
  port,     \* port[g]: where listener g is bound, while it runs
  started,  \* number of listeners so far
  op,       \* the API calls under way
  ops,      \* number of API calls so far
  conn,     \* conn[c]: where the connection is, its listener, events to send
  queue,    \* queue[g]: events in the channel of listener g
  shared,   \* events in the engine's channel
  poll      \* the app's poll and the events it has moved so far

apiVars   == <<table, up, signal, port, started, op, ops>>
eventVars == <<queue, shared, poll>>
vars      == <<apiVars, conn, eventVars>>

Gen  == 1..MaxOps   \* a call starts one listener at most
Task(at, gens, hint) == [at |-> at, gens |-> gens, hint |-> hint, alone |-> FALSE]
Idle == Task("idle", {}, 0)
Off  == [at |-> "off", gen |-> 0, left |-> 0]

\* Before the first call, which init_engine may make itself.
Init ==
  /\ table = 0 /\ up = {} /\ signal = {} /\ started = 0 /\ ops = 0
  /\ port = [g \in Gen |-> 0]
  /\ op = [o \in Op |-> Idle]
  /\ conn = [c \in Conn |-> Off]
  /\ queue = [g \in Gen |-> 0] /\ shared = 0
  /\ poll = [at |-> "off", taken |-> 0]

-----------------------------------------------------------------------------
(***************************************************************************)
(* API calls.                                                              *)
(***************************************************************************)
\* A stop is alone if no call that serves is under way while it runs.
Serving == {o \in Op : op[o].at \in {"bind", "insert", "restart"}}
Begin(o, r) ==
  /\ op[o].at = "idle" /\ ops < MaxOps /\ ops' = ops + 1
  /\ op' = [x \in Op |->
              IF x = o THEN [r EXCEPT !.alone = r.at = "stop" /\ Serving = {}]
                       ELSE [op[x] EXCEPT !.alone = @ /\ r.at = "stop"]]

\* start_server: nothing to do if the folder is in the table ...
StartServer(o) ==
  /\ table = 0
  /\ Begin(o, Task("bind", {}, PortOf[o]))
  /\ UNCHANGED <<table, up, signal, port, started, conn, eventVars>>

\* ... else serve_folder binds the port, or the call fails ...
Taken(p) == p # 0 /\ \E g \in up : port[g] = p
Bind(o) ==
  /\ op[o].at = "bind"
  /\ IF Taken(op[o].hint)
     THEN op' = [op EXCEPT ![o] = Idle] /\ UNCHANGED <<up, port, started>>
     ELSE /\ started' = started + 1
          /\ up' = up \cup {started'}
          /\ port' = [port EXCEPT ![started'] =
                        IF op[o].hint = 0 THEN FixedPort + started' ELSE op[o].hint]
          /\ op' = [op EXCEPT ![o] = Task("insert", {started'}, 0)]
  /\ UNCHANGED <<table, signal, ops, conn, eventVars>>

\* ... and the handle goes into the table; one that was there is dropped, and
\* with it the sender of its shutdown channel.
\* Mutant of Insert: the handle that is replaced goes on serving.
InsertDetached(o) ==
  /\ op[o].at = "insert"
  /\ table' = Max(op[o].gens)
  /\ op' = [op EXCEPT ![o] = Idle]
  /\ UNCHANGED <<up, signal, port, started, ops, conn, eventVars>>
Insert(o) ==
  /\ op[o].at = "insert"
  /\ table' = Max(op[o].gens)
  /\ signal' = signal \cup ({table} \ {0})
  /\ op' = [op EXCEPT ![o] = Idle]
  /\ UNCHANGED <<up, port, started, ops, conn, eventVars>>

PortToKeep(next) == IF next = "restart" THEN port[table] ELSE 0

\* stop_server and restart_all_servers drain the table and signal ...
\* Mutant of Drain: a stop forgets the handles.
DrainForgets(o, next) ==
  /\ Begin(o, Task(next, {}, PortToKeep(next)))
  /\ table' = 0
  /\ UNCHANGED <<up, signal, port, started, conn, eventVars>>
\* Mutant of Drain: the handles stay in the table while they are stopped.
DrainLeavesTable(o, next) ==
  /\ Begin(o, Task(next, {table} \ {0}, PortToKeep(next)))
  /\ signal' = signal \cup ({table} \ {0})
  /\ UNCHANGED <<table, up, port, started, conn, eventVars>>
Drain(o, next) ==
  /\ Begin(o, Task(next, {table} \ {0}, PortToKeep(next)))
  /\ table' = 0
  /\ signal' = signal \cup ({table} \ {0})
  /\ UNCHANGED <<up, port, started, conn, eventVars>>

StopServer(o)        == Drain(o, "stop")
RestartAllServers(o) == table # 0 /\ Drain(o, "restart")

\* ... wait for the task that advertises the listener, which may hang in the
\* start of mDNS ...
Stall(o) ==
  /\ op[o].at \in {"stop", "restart"} /\ op[o].gens # {}
  /\ op' = [op EXCEPT ![o] = Task("stalled", {}, 0)]
  /\ UNCHANGED <<table, up, signal, port, started, ops, conn, eventVars>>

\* ... and for the accept loop to finish ...
Stopped(o) ==
  /\ op[o].at = "stop" /\ op[o].gens \cap up = {}
  /\ op' = [op EXCEPT ![o] = Idle]
  /\ UNCHANGED <<table, up, signal, port, started, ops, conn, eventVars>>

\* ... and the restart calls start_server with the port it had.
Restarted(o) ==
  /\ op[o].at = "restart" /\ op[o].gens \cap up = {}
  /\ op' = [op EXCEPT ![o] = IF table = 0 THEN [@ EXCEPT !.at = "bind"] ELSE Idle]
  /\ UNCHANGED <<table, up, signal, port, started, ops, conn, eventVars>>

-----------------------------------------------------------------------------
(***************************************************************************)
(* The accept loop and its connections.                                    *)
(***************************************************************************)
\* The permit is held for the lifetime of the connection's task.
Holding(g) ==
  {c \in Conn : conn[c].gen = g /\ conn[c].at \in {"tls", "read", "work", "hung"}}

Closed(c) == conn' = [conn EXCEPT ![c] = [Off EXCEPT !.at = "closed"]]

\* select! leaves the loop on a signal; a connection may still win the choice.
\* Mutant of ListenerExit: waits for the connections.
ListenerExitDrained(g) ==
  /\ g \in up \cap signal /\ Holding(g) = {}
  /\ up' = up \ {g} /\ signal' = signal \ {g} /\ port' = [port EXCEPT ![g] = 0]
  /\ UNCHANGED <<table, started, op, ops, conn, eventVars>>
ListenerExit(g) ==
  /\ g \in up \cap signal
  /\ up' = up \ {g} /\ signal' = signal \ {g} /\ port' = [port EXCEPT ![g] = 0]
  /\ UNCHANGED <<table, started, op, ops, conn, eventVars>>

\* The task takes a permit or drops the connection.
Accept(c, g) ==
  /\ conn[c].at = "off" /\ g \in up
  /\ IF Cardinality(Holding(g)) < MAX_SESSIONS
     THEN conn' = [conn EXCEPT ![c] = [at |-> "tls", gen |-> g, left |-> 0]]
     ELSE Closed(c)
  /\ UNCHANGED <<apiVars, eventVars>>

\* The handshake succeeds, fails, or has taken HANDSHAKE_TIMEOUT.
Handshake(c) ==
  /\ conn[c].at = "tls"
  /\ conn' = [conn EXCEPT ![c].at = "read"] \/ Closed(c)
  /\ UNCHANGED <<apiVars, eventVars>>

\* Neither the read of a Hello nor that of the message after it has a timeout,
\* nor any write: the peer goes away, or is refused -- or never gets on.
PeerGone(c) ==
  /\ conn[c].at \in {"read", "hung"}
  /\ Closed(c)
  /\ UNCHANGED <<apiVars, eventVars>>

\* A pair request, an index of a known device, a list or folder request: the
\* answer comes with some events; anything else is closed.
Dispatch(c) ==
  /\ conn[c].at = "read"
  /\ \E n \in 0..MaxEvents : conn' = [conn EXCEPT ![c].at = "work", ![c].left = n]
  /\ UNCHANGED <<apiVars, eventVars>>

\* event_tx.send().await: waits for room in the listener's channel.
Send(c) ==
  LET g == conn[c].gen
  IN /\ conn[c].at = "work" /\ conn[c].left > 0 /\ queue[g] < Capacity
     /\ queue' = [queue EXCEPT ![g] = @ + 1]
     /\ conn' = [conn EXCEPT ![c].left = @ - 1]
     /\ UNCHANGED <<apiVars, shared, poll>>

\* A session pushes its files before it reads: a peer that does not read them,
\* be it that it pushes its own, stops it in a write.
Hang(c) ==
  /\ conn[c].at = "work"
  /\ conn' = [conn EXCEPT ![c].at = "hung", ![c].left = 0]
  /\ UNCHANGED <<apiVars, eventVars>>

Done(c) ==
  /\ conn[c].at = "work" /\ conn[c].left = 0
  /\ Closed(c)
  /\ UNCHANGED <<apiVars, eventVars>>

-----------------------------------------------------------------------------
(***************************************************************************)
(* Events.                                                                 *)
(***************************************************************************)
\* The task start_server spawns; it outlives the listener.
\* Mutant of Forward: ends with its listener.
ForwardWhileUp(g) ==
  /\ g \in up /\ queue[g] > 0 /\ shared < Capacity
  /\ queue' = [queue EXCEPT ![g] = @ - 1] /\ shared' = shared + 1
  /\ UNCHANGED <<apiVars, conn, poll>>
Forward(g) ==
  /\ queue[g] > 0 /\ shared < Capacity
  /\ queue' = [queue EXCEPT ![g] = @ - 1] /\ shared' = shared + 1
  /\ UNCHANGED <<apiVars, conn, poll>>

\* poll_sync_events: SyncEngine::events locks the receiver ...
PollStart ==
  /\ poll.at = "off" /\ shared > 0
  /\ poll' = [at |-> "drain", taken |-> 0]
  /\ UNCHANGED <<apiVars, conn, queue, shared>>

\* ... and moves what it finds into a channel that nobody reads before it
\* returns: one event more than that channel holds and it waits for ever.
PollTake ==
  /\ poll.at = "drain" /\ shared > 0
  /\ shared' = shared - 1
  /\ poll' = IF poll.taken < Capacity THEN [poll EXCEPT !.taken = @ + 1]
                                      ELSE [poll EXCEPT !.at = "stuck"]
  /\ UNCHANGED <<apiVars, conn, queue>>

PollReturn ==
  /\ poll.at = "drain" /\ shared = 0
  /\ poll' = [at |-> "off", taken |-> 0]
  /\ UNCHANGED <<apiVars, conn, queue, shared>>

-----------------------------------------------------------------------------
Next ==
  \/ \E o \in Op : \/ StartServer(o) \/ Bind(o) \/ Insert(o)
                   \/ StopServer(o) \/ Stall(o) \/ Stopped(o)
                   \/ RestartAllServers(o) \/ Restarted(o)
  \/ \E g \in Gen : ListenerExit(g) \/ Forward(g)
  \/ \E c \in Conn, g \in Gen : Accept(c, g)
  \/ \E c \in Conn : Handshake(c) \/ PeerGone(c) \/ Dispatch(c)
                     \/ Send(c) \/ Hang(c) \/ Done(c)
  \/ PollStart \/ PollTake \/ PollReturn

Spec == Init /\ [][Next]_vars

\* Tasks that can go on do so, and the app polls; peers promise nothing.  Each
\* of these steps is taken a bounded number of times, so that fairness to any one
\* of the tasks gives every one its turn.
FairSpec ==
  /\ Spec
  /\ WF_vars(\E o \in Op : Bind(o) \/ Insert(o) \/ Stopped(o) \/ Restarted(o))
  /\ WF_vars(\E g \in Gen : ListenerExit(g)) /\ SF_vars(\E g \in Gen : Forward(g))
  /\ WF_vars(\E c \in Conn : Handshake(c) \/ Done(c)) /\ SF_vars(\E c \in Conn : Send(c))
  /\ WF_vars(PollStart) /\ WF_vars(PollTake \/ PollReturn)

-----------------------------------------------------------------------------
\* However calls of start_server, stop_server and a rename overlap, no listener
\* is lost: one that nobody has told to stop is in the table, where a later stop
\* finds it, or in the hands of a call.
NoListenerLost ==
  \A g \in up \ signal : table = g \/ \E o \in Op : op[o].at = "insert" /\ g \in op[o].gens

\* What the table shows is served: the handle of a listener that ended, or was
\* told to, is not there.
TableServes == table # 0 => table \in up \ signal

\* After stop_server no listener is left, one that was replaced in the table by
\* an overlapping start included, unless a start or a rename overlaps it or
\* follows: a rename has the handles in its own hands and serves them again,
\* after the stop has found an empty table and returned.
StopStops ==
  (\E o \in Op : op[o].at = "stop" /\ op[o].alone) ~> up = {} \/ Serving # {}

\* Every call of the API comes back, and with no more of them (their number is
\* bounded) all have, also with connections open or hung -- except one that
\* stops a listener whose advertising task hangs: stop waits for it, though it
\* was spawned so that mDNS "must never delay binding or the caller".
CallsReturn ==
  LET back == {"idle", "stalled"}
  IN (\E o \in Op : op[o].at \notin back) ~> (\A o \in Op : op[o].at \in back)

\* Every event reaches the app, also from a connection whose listener was
\* stopped -- unless a poll was stuck on more events than its channel holds.
EventsPolled ==
  \/ <>(poll.at = "stuck")
  \/ []<>(shared = 0 /\ \A g \in Gen : queue[g] = 0)

\* A connection ends, and at last all of them, unless its peer is silent or does
\* not read where no timeout covers it, or a poll is stuck: then senders wait for
\* room for ever, and keep their permits.
ConnectionsEnd ==
  LET busy == {"tls", "work"}
  IN (\E c \in Conn : conn[c].at \in busy) ~>
       (\A c \in Conn : conn[c].at \notin busy) \/ poll.at = "stuck"
=============================================================================
