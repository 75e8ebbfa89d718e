----------------------------- MODULE ServingProofs -----------------------------
(***************************************************************************)
(* The table of listeners, for any number of callers, calls and listeners: *)
(* no listener is lost and the table shows only what is served.            *)
(*                                                                         *)
(* Neither is inductive.  The strengthening says what a call that has      *)
(* bound a port holds: one listener, that runs, that nobody has told to    *)
(* stop, that is not in the table and that no other call holds.            *)
(***************************************************************************)
EXTENDS Serving, TLAPS

\* The record of a call.
IsCall(r) == r = [at |-> r.at, gens |-> r.gens, hint |-> r.hint, alone |-> r.alone]

\* Listeners are numbered as they are started.
Numbered ==
  /\ started \in Nat
  /\ up \subseteq 1..started /\ signal \subseteq 1..started
  /\ table \in 0..started
  /\ op = [o \in Op |-> op[o]]
  /\ \A o \in Op : IsCall(op[o])

\* A call that has bound a port.
Holds(o, g) == op[o].at = "insert" /\ op[o].gens = {g}

Held ==
  /\ \A o \in Op : op[o].at = "insert" =>
       \E g \in up \ signal : g # table /\ Holds(o, g)
  /\ \A o, x \in Op : \A g \in up : Holds(o, g) /\ Holds(x, g) => o = x

Inv == Numbered /\ Held /\ NoListenerLost /\ TableServes

-----------------------------------------------------------------------------
\* A set with one listener has that one for its highest (FiniteSetsExt!Max, as
\* Insert uses it).
LEMMA MaxOfOne == ASSUME NEW g \in Nat PROVE Max({g}) = g
  BY DEF Max

\* Before the first call there is no listener.
LEMMA InitInv == Init => Inv
  BY DEF Init, Inv, Numbered, IsCall, Held, Holds, NoListenerLost, TableServes, Idle, Task

\* The start of a call leaves what the others hold alone.
LEMMA BeginKeeps ==
  ASSUME Inv, NEW o \in Op, NEW r, IsCall(r), r.at # "insert", Begin(o, r)
  PROVE  /\ op' = [x \in Op |-> op'[x]]
         /\ \A x \in Op : IsCall(op'[x])
         /\ op[o].at = "idle" /\ op'[o].at = r.at
         /\ \A x \in Op \ {o} : op'[x].at = op[x].at /\ op'[x].gens = op[x].gens
  <1> DEFINE new == (r.at = "stop") /\ (Serving = {})
             old(x) == op[x].alone /\ (r.at = "stop")
  <1>1. /\ op[o].at = "idle"
        /\ op' = [x \in Op |-> IF x = o THEN [r EXCEPT !.alone = new]
                               ELSE [op[x] EXCEPT !.alone = old(x)]]
    BY DEF Begin
  <1> HIDE DEF new, old
  <1>2. op'[o] = [r EXCEPT !.alone = new]
    BY <1>1
  <1>3. \A x \in Op \ {o} : op'[x] = [op[x] EXCEPT !.alone = old(x)]
    BY <1>1
  <1>4. IsCall(op'[o]) /\ op'[o].at = r.at
    BY <1>2 DEF IsCall
  <1>5. ASSUME NEW x \in Op \ {o}
        PROVE  IsCall(op'[x]) /\ op'[x].at = op[x].at /\ op'[x].gens = op[x].gens
    BY <1>3 DEF IsCall, Inv, Numbered
  <1> QED
    BY <1>1, <1>4, <1>5

\* What the calls hold is kept by a step that changes none of it.
LEMMA HeldKept ==
  ASSUME Inv, table' = table, up' = up, signal' = signal, started' = started,
         op' = [x \in Op |-> op'[x]], \A x \in Op : IsCall(op'[x]),
         \A x \in Op : \/ op'[x].at = op[x].at /\ op'[x].gens = op[x].gens
                       \/ op[x].at # "insert" /\ op'[x].at # "insert"
  PROVE  Inv'
  BY DEF Inv, Numbered, Held, Holds, NoListenerLost, TableServes

-----------------------------------------------------------------------------
(* One lemma for each kind of step. *)

\* start_server looks the folder up and goes on to bind.
LEMMA StartKeeps ==
  ASSUME Inv, NEW o \in Op, StartServer(o)
  PROVE  Inv'
  <1> DEFINE r == Task("bind", {}, PortOf[o])
  <1>1. IsCall(r) /\ r.at = "bind"
    BY DEF IsCall, Task
  <1>2. Begin(o, r)
    BY DEF StartServer
  <1> HIDE DEF r
  <1>3. /\ op' = [x \in Op |-> op'[x]] /\ \A x \in Op : IsCall(op'[x])
        /\ op[o].at = "idle" /\ op'[o].at = "bind"
        /\ \A x \in Op \ {o} : op'[x].at = op[x].at /\ op'[x].gens = op[x].gens
    BY <1>1, <1>2, BeginKeeps
  <1> QED
    BY <1>3, HeldKept DEF StartServer

\* A bind that fails ends the call; one that succeeds has a new listener.
LEMMA BindKeeps ==
  ASSUME Inv, NEW o \in Op, Bind(o)
  PROVE  Inv'
  <1>1. CASE Taken(op[o].hint)
    <2>1. /\ op' = [x \in Op |-> op'[x]] /\ \A x \in Op : IsCall(op'[x])
          /\ op'[o].at = "idle" /\ \A x \in Op \ {o} : op'[x] = op[x]
      BY <1>1 DEF Bind, Inv, Numbered, IsCall, Idle, Task
    <2> QED
      BY <1>1, <2>1, HeldKept DEF Bind
  <1>2. CASE ~ Taken(op[o].hint)
    <2>0. PICK new \in Nat : new = started + 1
      BY DEF Inv, Numbered
    <2>1. new \notin up /\ new \notin signal /\ new # table /\ new > 0
      BY <2>0 DEF Inv, Numbered
    <2>2. started' = new /\ up' = up \cup {new} /\ signal' = signal /\ table' = table
      BY <1>2, <2>0 DEF Bind
    <2>3. /\ op' = [x \in Op |-> op'[x]] /\ \A x \in Op : IsCall(op'[x])
          /\ op'[o].at = "insert" /\ op'[o].gens = {new}
          /\ \A x \in Op \ {o} : op'[x] = op[x]
      BY <1>2, <2>0 DEF Bind, Inv, Numbered, IsCall, Task
    <2>4. Numbered'
      BY <2>0, <2>1, <2>2, <2>3 DEF Inv, Numbered
    <2>5. Held'
      <3>1. \A x \in Op : op[x].at = "insert" => \E g \in up \ signal : g # table /\ Holds(x, g)
        BY DEF Inv, Held
      <3>2. \A x \in Op \ {o} : \A g : Holds(x, g)' <=> Holds(x, g)
        BY <2>3 DEF Holds
      <3>3. Holds(o, new)' /\ \A g : Holds(o, g)' => g = new
        BY <2>3 DEF Holds
      <3>4. \A x \in Op \ {o} : ~ Holds(x, new)
        BY <3>1, <2>1 DEF Holds
      <3>5. \A x \in Op : op'[x].at = "insert" => \E g \in up' \ signal' : g # table' /\ Holds(x, g)'
        BY <2>1, <2>2, <2>3, <3>1, <3>2, <3>3
      <3>6. \A x, y \in Op : \A g \in up' : Holds(x, g)' /\ Holds(y, g)' => x = y
        BY <2>2, <3>2, <3>3, <3>4 DEF Inv, Held
      <3> QED
        BY <3>5, <3>6 DEF Held, Holds
    <2>6. NoListenerLost'
      BY <1>2, <2>1, <2>2, <2>3 DEF Bind, Inv, NoListenerLost
    <2>7. TableServes'
      BY <2>1, <2>2 DEF Inv, TableServes
    <2> QED
      BY <2>4, <2>5, <2>6, <2>7 DEF Inv
  <1> QED
    BY <1>1, <1>2

\* The handle goes into the table, the one it replaces is dropped and signals.
LEMMA InsertKeeps ==
  ASSUME Inv, NEW o \in Op, Insert(o)
  PROVE  Inv'
  <1>1. PICK g \in up \ signal : g # table /\ Holds(o, g)
    BY DEF Insert, Inv, Held
  <1>2. g \in Nat /\ g # 0 /\ g \in 1..started
    BY DEF Inv, Numbered
  <1>3. table' = g /\ up' = up /\ started' = started /\ signal' = signal \cup ({table} \ {0})
    BY <1>1, <1>2, MaxOfOne DEF Insert, Holds
  <1>4. /\ op' = [x \in Op |-> op'[x]] /\ \A x \in Op : IsCall(op'[x])
        /\ op'[o].at = "idle" /\ \A x \in Op \ {o} : op'[x] = op[x]
    BY DEF Insert, Inv, Numbered, IsCall, Idle, Task
  <1>5. Numbered'
    BY <1>2, <1>3, <1>4 DEF Inv, Numbered
  <1>6. Held'
    <2>1. \A x \in Op \ {o} : \A h : Holds(x, h)' <=> Holds(x, h)
      BY <1>4 DEF Holds
    <2>2. \A x \in Op : op'[x].at = "insert" => x # o /\ op[x].at = "insert"
      BY <1>4
    <2>3. \A x \in Op \ {o} : ~ Holds(x, g)
      BY <1>1 DEF Inv, Held
    <2>4. \A x \in Op : op'[x].at = "insert" => \E h \in up' \ signal' : h # table' /\ Holds(x, h)'
      BY <1>3, <2>1, <2>2, <2>3 DEF Inv, Held
    <2>5. \A x \in Op : \A h : Holds(x, h)' => x # o
      BY <1>4 DEF Holds
    <2>6. \A x, y \in Op : \A h \in up' : Holds(x, h)' /\ Holds(y, h)' => x = y
      BY <1>3, <2>1, <2>5 DEF Inv, Held
    <2> QED
      BY <2>4, <2>6 DEF Held, Holds
  <1>7. NoListenerLost'
    <2> SUFFICES ASSUME NEW h \in up' \ signal'
                 PROVE  table' = h \/ \E x \in Op : op'[x].at = "insert" /\ h \in op'[x].gens
      BY DEF NoListenerLost
    <2>1. h \in up \ signal /\ h # table
      BY <1>3 DEF Inv, Numbered
    <2>2. PICK x \in Op : op[x].at = "insert" /\ h \in op[x].gens
      BY <2>1 DEF Inv, NoListenerLost
    <2>3. CASE x = o
      BY <1>1, <1>3, <2>2, <2>3 DEF Holds
    <2>4. CASE x # o
      BY <1>4, <2>2, <2>4
    <2> QED
      BY <2>3, <2>4
  <1>8. TableServes'
    BY <1>1, <1>3 DEF TableServes
  <1> QED
    BY <1>5, <1>6, <1>7, <1>8 DEF Inv

\* stop_server and a rename take the handle out of the table and signal.
LEMMA DrainKeeps ==
  ASSUME Inv, NEW o \in Op, NEW next \in {"stop", "restart"}, Drain(o, next)
  PROVE  Inv'
  <1> DEFINE r == Task(next, {table} \ {0}, PortToKeep(next))
  <1>1. IsCall(r) /\ r.at = next /\ r.at # "insert"
    BY DEF IsCall, Task
  <1>2. Begin(o, r)
    BY DEF Drain
  <1> HIDE DEF r
  <1>3. /\ op' = [x \in Op |-> op'[x]] /\ \A x \in Op : IsCall(op'[x])
        /\ op[o].at = "idle" /\ op'[o].at = next
        /\ \A x \in Op \ {o} : op'[x].at = op[x].at /\ op'[x].gens = op[x].gens
    BY <1>1, <1>2, BeginKeeps
  <1>4. /\ table' = 0 /\ up' = up /\ started' = started
        /\ signal' = signal \cup ({table} \ {0})
    BY DEF Drain
  <1>5. Numbered'
    BY <1>3, <1>4 DEF Inv, Numbered
  <1>6. Held'
    BY <1>3, <1>4 DEF Inv, Numbered, Held, Holds
  <1>7. NoListenerLost'
    BY <1>3, <1>4 DEF Inv, Numbered, NoListenerLost
  <1>8. TableServes'
    BY <1>4 DEF TableServes
  <1> QED
    BY <1>5, <1>6, <1>7, <1>8 DEF Inv

\* The end of a stop, and of the first half of a rename, or their wait for ever.
LEMMA AfterStopKeeps ==
  ASSUME Inv, NEW o \in Op, Stall(o) \/ Stopped(o) \/ Restarted(o)
  PROVE  Inv'
  <1>1. /\ op' = [x \in Op |-> op'[x]] /\ \A x \in Op : IsCall(op'[x])
        /\ op[o].at # "insert" /\ op'[o].at # "insert"
        /\ \A x \in Op \ {o} : op'[x] = op[x]
    <2>0. CASE Stall(o)
      BY <2>0 DEF Stall, Inv, Numbered, IsCall, Task
    <2>1. CASE Stopped(o)
      BY <2>1 DEF Stopped, Inv, Numbered, IsCall, Idle, Task
    <2>2. CASE Restarted(o)
      <3>1. CASE table = 0
        <4>1. op' = [op EXCEPT ![o] = [op[o] EXCEPT !.at = "bind"]]
          BY <2>2, <3>1 DEF Restarted, Inv, Numbered
        <4> QED
          BY <2>2, <4>1 DEF Restarted, Inv, Numbered, IsCall
      <3>2. CASE table # 0
        BY <2>2, <3>2 DEF Restarted, Inv, Numbered, IsCall, Idle, Task
      <3> QED
        BY <3>1, <3>2
    <2> QED
      BY <2>0, <2>1, <2>2
  <1> QED
    BY <1>1, HeldKept DEF Stall, Stopped, Restarted

\* A listener ends only when it was told to.
LEMMA ExitKeeps ==
  ASSUME Inv, NEW g \in Gen, ListenerExit(g)
  PROVE  Inv'
  <1>1. /\ g \in signal /\ up' = up \ {g} /\ signal' = signal \ {g}
        /\ UNCHANGED <<table, started, op>>
    BY DEF ListenerExit
  <1> QED
    BY <1>1 DEF Inv, Numbered, Held, Holds, NoListenerLost, TableServes

\* Every step of the next-state relation.
LEMMA NextInv == Inv /\ [Next]_vars => Inv'
  <1> SUFFICES ASSUME Inv, [Next]_vars PROVE Inv'
    OBVIOUS
  <1>1. ASSUME NEW o \in Op, StartServer(o) PROVE Inv'
    BY <1>1, StartKeeps
  <1>2. ASSUME NEW o \in Op, Bind(o) PROVE Inv'
    BY <1>2, BindKeeps
  <1>3. ASSUME NEW o \in Op, Insert(o) PROVE Inv'
    BY <1>3, InsertKeeps
  <1>4. ASSUME NEW o \in Op, StopServer(o) \/ RestartAllServers(o) PROVE Inv'
    <2>1. Drain(o, "stop") \/ Drain(o, "restart")
      BY <1>4 DEF StopServer, RestartAllServers
    <2> QED
      BY <2>1, DrainKeeps
  <1>5. ASSUME NEW o \in Op, Stall(o) \/ Stopped(o) \/ Restarted(o) PROVE Inv'
    BY <1>5, AfterStopKeeps
  <1>6. ASSUME NEW g \in Gen, ListenerExit(g) PROVE Inv'
    BY <1>6, ExitKeeps
  <1>7. ASSUME UNCHANGED apiVars PROVE Inv'
    BY <1>7 DEF apiVars, Inv, Numbered, Held, Holds, NoListenerLost, TableServes
  <1>8. ASSUME NEW c \in Conn,
               \/ \E g \in Gen : Accept(c, g)
               \/ Handshake(c) \/ PeerGone(c) \/ Dispatch(c)
               \/ Send(c) \/ Hang(c) \/ Done(c)
        PROVE Inv'
    <2>1. UNCHANGED apiVars
      BY <1>8 DEF Accept, Handshake, PeerGone, Dispatch, Send, Hang, Done
    <2> QED
      BY <2>1, <1>7
  <1>9. ASSUME NEW g \in Gen, Forward(g) PROVE Inv'
    BY <1>7, <1>9 DEF Forward
  <1>10. ASSUME PollStart \/ PollTake \/ PollReturn PROVE Inv'
    BY <1>7, <1>10 DEF PollStart, PollTake, PollReturn
  <1>11. ASSUME UNCHANGED vars PROVE Inv'
    BY <1>7, <1>11 DEF vars
  <1> QED
    BY <1>1, <1>2, <1>3, <1>4, <1>5, <1>6, <1>8, <1>9, <1>10, <1>11 DEF Next

-----------------------------------------------------------------------------
\* However the calls of start_server, stop_server and a rename overlap, and
\* however many there are, every listener that was not told to stop is in the
\* table or in the hands of a call (api/mod.rs, start_server).
THEOREM ListenersKept == Spec => []NoListenerLost
  <1>1. Inv => NoListenerLost
    BY DEF Inv
  <1> QED
    BY <1>1, InitInv, NextInv, PTL DEF Spec

\* The table never shows a listener that has ended or was told to end.
THEOREM TableTrue == Spec => []TableServes
  <1>1. Inv => TableServes
    BY DEF Inv
  <1> QED
    BY <1>1, InitInv, NextInv, PTL DEF Spec
=============================================================================
