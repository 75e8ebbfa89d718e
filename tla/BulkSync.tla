------------------------------- MODULE BulkSync -------------------------------
(***************************************************************************)
(* Which machine a device row is synced with.  A row has an id, the        *)
(* certificate pinned at the first contact and the last address that       *)
(* worked; machines change addresses.  Two callers run sessions: the bulk  *)
(* sync of every folder row (bulk.rs), and a sync of one folder, which is  *)
(* the app's with its fallback to discovery (sync_folder of api/mod.rs) or *)
(* the command line's that waits for the peer (commands/sync.rs).  A       *)
(* session dials an address, refuses itself, and compares or pins the      *)
(* certificate (session.rs); what it transfers is SyncSession's.  The app  *)
(* may also pair again with the devices it knows.                          *)
(***************************************************************************)
EXTENDS Integers, Sequences, FiniteSets

CONSTANTS Machine, Me,    \* machines; this one
          Id, Own,        \* ids of device rows; this device's
          Owner,          \* Owner[d]: the machine of certificate id d; None if d
                          \* was typed in as an address
          Addr,
          Literal,        \* Literal[d]: the address that id d itself names, if any
          Rows,           \* the device ids of list_sync_folders, in order
          Known,          \* devices that may have been paired before
          MaxMoves, MaxCalls,
          None

Peer == Id \ {Own}

ASSUME BulkAssumption ==
  /\ Me \in Machine /\ Own \in Id
  /\ Owner \in [Id -> Machine \cup {None}] /\ Owner[Own] = Me
  /\ Literal \in [Id -> Addr \cup {None}]
  /\ Rows \in Seq(Id) /\ Known \subseteq {d \in Peer : Owner[d] # None}
  /\ None \notin Machine \cup Addr
  /\ {MaxMoves, MaxCalls} \subseteq Nat

VARIABLES
  at,        \* at[a]: the machine that has address a
  row,       \* row[d]: pinned certificate and last address of device d
  talk,      \* talk[x]: the session caller x is running, or hangs in
  bulk,      \* the bulk sync; outs holds the rows that have an outcome
  call,      \* the sync of one folder; keep: it records the address
  repair,    \* addresses left to a repair of the known devices
  moves, calls,
  met,       \* history: machines a session under d's name completed with
  answered,  \* history: addresses where they were, and those pairing recorded
  repinned   \* history: devices whose pin was replaced by another machine's

vars == <<at, row, talk, bulk, call, repair, moves, calls, met, answered, repinned>>

Caller == {"bulk", "call"}
NoTalk == [at |-> "none", d |-> Own, addr |-> None, m |-> None]
NoBulk == [at |-> "idle", addr |-> <<>>, peer |-> <<>>, i |-> 0, todo |-> {},
           contacted |-> FALSE, outs |-> {}]
NoCall == [at |-> "idle", d |-> Own, addr |-> None, keep |-> FALSE]

\* Addresses in use belong to one machine.
Placements == {p \in [Addr -> Machine \cup {None}] :
                 \A a, b \in Addr : (p[a] = p[b] /\ p[a] # None) => a = b}

\* A row is paired (certificate, address) or written by hand (neither).
Init ==
  /\ at \in Placements /\ \E a \in Addr : at[a] = Me
  /\ row \in [Id -> [cert : Machine \cup {None}, addr : Addr \cup {None}]]
  /\ \A d \in Id : row[d] # [cert |-> None, addr |-> None] =>
                     d \in Known /\ row[d].cert = Owner[d]
  /\ talk = [x \in Caller |-> NoTalk]
  /\ bulk = NoBulk /\ call = NoCall /\ repair = {}
  /\ moves = 0 /\ calls = 0
  /\ met = [d \in Id |-> {}]
  /\ answered = [d \in Id |-> {row[d].addr}]
  /\ repinned = {}

Move ==
  /\ moves < MaxMoves
  /\ moves' = moves + 1
  /\ at' \in Placements /\ \E a \in Addr : at'[a] = Me
  /\ Cardinality({a \in Addr : at'[a] # at[a]}) \in 1 .. 2
  /\ UNCHANGED <<row, talk, bulk, call, repair, calls, met, answered, repinned>>

-----------------------------------------------------------------------------
\* The recorded address, else the one the id itself is.
Resolve(d) == IF row[d].addr # None THEN row[d].addr ELSE Literal[d]

IsOwnAddress(a) == a # None /\ at[a] = Me

\* What one browse may find: some of the machines that are up, not ourselves.
Discoveries ==
  {found \in [Peer -> Addr \cup {None}] :
     \A d \in Peer : found[d] # None => at[found[d]] = Owner[d] /\ Owner[d] # None}

-----------------------------------------------------------------------------
(* A session: dial, then transfer. *)

Dialled(x, d, a) == talk' = [talk EXCEPT ![x] = [at |-> "dial", d |-> d, addr |-> a, m |-> None]]

\* How a dial ends at once: nobody answers in time, the peer is this machine, it
\* is not the machine pinned, or the database fails.
Refusal(t) ==
  {"unreachable"} \cup
  (IF at[t.addr] \notin {Me, None} THEN {"failed"} ELSE {}) \cup
  (IF at[t.addr] = Me THEN {"self"} ELSE {}) \cup
  (IF at[t.addr] \notin {Me, None} /\ row[t.d].cert \notin {None, at[t.addr]} THEN {"tofu"} ELSE {})

\* Mutant of Accepted: the certificate is compared only when an address is recorded.
AcceptedUnchecked(d, m) == row[d].addr = None \/ row[d].cert \in {None, m}

Accepted(d, m) == row[d].cert \in {None, m}

\* The certificate is read and compared; a device without one is to be pinned.
Connect(x) ==
  LET t == talk[x]
      m == at[t.addr]
  IN /\ t.at = "dial"
     /\ m \notin {Me, None} /\ Accepted(t.d, m)
     /\ talk' = [talk EXCEPT ![x].at = IF row[t.d].cert = None THEN "pin" ELSE "run", ![x].m = m]
     /\ UNCHANGED <<at, row, bulk, call, repair, moves, calls, met, answered, repinned>>

\* Trust on first use; the row is not read again.
Pin(x) ==
  LET t == talk[x]
  IN /\ t.at = "pin"
     /\ row' = [row EXCEPT ![t.d].cert = t.m]
     /\ repinned' = IF row[t.d].cert \in {None, t.m} THEN repinned ELSE repinned \cup {t.d}
     /\ talk' = [talk EXCEPT ![x].at = "run"]
     /\ UNCHANGED <<at, bulk, call, repair, moves, calls, met, answered>>

\* A session may never end: its peer is silent or does not read, or the event
\* channel of the call, which nobody drains, is full.
Hang(x) ==
  /\ talk[x].at = "run"
  /\ talk' = [talk EXCEPT ![x].at = "hung"]
  /\ UNCHANGED <<at, row, bulk, call, repair, moves, calls, met, answered, repinned>>

\* What a caller records when its session is over; not all keep the address, and
\* that it could not be written is not reported.
Over(x, result, keep) ==
  LET t == talk[x]
  IN /\ talk' = [talk EXCEPT ![x] = NoTalk]
     /\ IF result = "ok"
        THEN /\ row' \in {row} \cup IF keep THEN {[row EXCEPT ![t.d].addr = t.addr]} ELSE {}
             /\ met' = [met EXCEPT ![t.d] = @ \cup {t.m}]
             /\ answered' = [answered EXCEPT ![t.d] = @ \cup {t.addr}]
        ELSE UNCHANGED <<row, met, answered>>
     /\ UNCHANGED <<at, repair, moves, calls, repinned>>

Results(x) ==
  CASE talk[x].at = "dial" -> Refusal(talk[x])
    [] talk[x].at = "pin"  -> {"failed"}
    [] talk[x].at = "run"  -> {"ok", "failed"}
    [] OTHER               -> {}

-----------------------------------------------------------------------------
(* sync_all_folders. *)

Idx == 1 .. Len(Rows)

\* A storage error ends the call, and what outcomes it has are dropped.
Aborted == [NoBulk EXCEPT !.at = "aborted"]

\* The static pass.
BulkStart ==
  /\ bulk.at = "idle" /\ calls < MaxCalls
  /\ calls' = calls + 1
  /\ \/ bulk' = [NoBulk EXCEPT !.at = "discover",
                               !.addr = [i \in Idx |-> Resolve(Rows[i])],
                               !.peer = [d \in Peer |-> Resolve(d)]]
     \/ bulk' = Aborted
  /\ UNCHANGED <<at, row, talk, call, repair, moves, met, answered, repinned>>

\* The discovery pass, for the addresses that are missing.
BulkDiscover ==
  /\ bulk.at = "discover"
  /\ \E found \in Discoveries :
       LET Fill(a, d) == IF a = None /\ d # Own THEN found[d] ELSE a
       IN bulk' = [bulk EXCEPT !.at = "rows", !.i = 1,
                     !.addr = [i \in Idx |-> Fill(bulk.addr[i], Rows[i])],
                     !.peer = [d \in Peer |-> Fill(bulk.peer[d], d)],
                     !.todo = Peer]
  /\ UNCHANGED <<at, row, talk, call, repair, moves, calls, met, answered, repinned>>

\* Mutant of NextRow: the row after a served folder is left out.
NextRowSkips(outs) ==
  [bulk EXCEPT !.i = @ + (IF Rows[@] = Own THEN 2 ELSE 1), !.todo = Peer, !.contacted = FALSE,
               !.outs = @ \cup outs]

NextRow(outs) ==
  [bulk EXCEPT !.i = @ + 1, !.todo = Peer, !.contacted = FALSE, !.outs = @ \cup outs]

AtRow == bulk.at = "rows" /\ bulk.i \in Idx /\ talk["bulk"].at = "none"

\* A row without an address is skipped, one that points here is an error.
BulkSkip ==
  LET a == bulk.addr[bulk.i]
  IN /\ AtRow /\ Rows[bulk.i] # Own
     /\ a = None \/ IsOwnAddress(a)
     /\ bulk' = NextRow({bulk.i})
     /\ UNCHANGED <<at, row, talk, call, repair, moves, calls, met, answered, repinned>>

\* The path on the remote side is looked up before each session.
BulkDial ==
  LET d == Rows[bulk.i]
      a == bulk.addr[bulk.i]
  IN /\ AtRow /\ d # Own
     /\ a # None /\ ~IsOwnAddress(a)
     /\ \/ Dialled("bulk", d, a) /\ UNCHANGED bulk
        \/ bulk' = Aborted /\ UNCHANGED talk
     /\ UNCHANGED <<at, row, call, repair, moves, calls, met, answered, repinned>>

\* A folder served here goes to every other device with an address, in turn.
FanOut(d) ==
  LET a == bulk.peer[d]
  IN /\ AtRow /\ Rows[bulk.i] = Own
     /\ d \in bulk.todo
     /\ IF a = None \/ IsOwnAddress(a)
        THEN /\ bulk' = [bulk EXCEPT !.todo = @ \ {d}]
             /\ UNCHANGED talk
        ELSE \/ /\ Dialled("bulk", d, a)
                /\ bulk' = [bulk EXCEPT !.todo = @ \ {d}, !.contacted = TRUE]
             \/ bulk' = Aborted /\ UNCHANGED talk
     /\ UNCHANGED <<at, row, call, repair, moves, calls, met, answered, repinned>>

FanOutEnd ==
  /\ AtRow /\ Rows[bulk.i] = Own /\ bulk.todo = {}
  /\ bulk' = NextRow(IF bulk.contacted THEN {} ELSE {bulk.i})
  /\ UNCHANGED <<at, row, talk, call, repair, moves, calls, met, answered, repinned>>

\* A session's result is an outcome; a served folder goes on with its peers.
BulkOver(result) ==
  /\ Over("bulk", result, TRUE)
  /\ bulk' = IF Rows[bulk.i] = Own
             THEN [bulk EXCEPT !.outs = @ \cup {bulk.i}]
             ELSE NextRow({bulk.i})
  /\ UNCHANGED call

BulkReturn ==
  /\ bulk.at = "rows" /\ bulk.i > Len(Rows)
  /\ bulk' = [bulk EXCEPT !.at = "returned"]
  /\ UNCHANGED <<at, row, talk, call, repair, moves, calls, met, answered, repinned>>

\* The caller has the outcomes, or the error.
BulkTaken ==
  /\ bulk.at \in {"returned", "aborted"}
  /\ bulk' = NoBulk
  /\ UNCHANGED <<at, row, talk, call, repair, moves, calls, met, answered, repinned>>

-----------------------------------------------------------------------------
(* sync_folder of the app; nothing of a dry run is recorded. *)

Called(stage, d, a, keep) ==
  /\ call.at = "idle" /\ calls < MaxCalls
  /\ calls' = calls + 1
  /\ call' = [at |-> stage, d |-> d, addr |-> a, keep |-> keep]
  /\ Dialled("call", d, a)
  /\ UNCHANGED <<at, row, bulk, repair, moves, met, answered, repinned>>

CallStart(d, dry) == Resolve(d) # None /\ Called("first", d, Resolve(d), ~dry)

\* Only an address nobody answers at is looked up again, once.
CallOver(result) ==
  /\ call.at \in {"first", "second"}
  /\ Over("call", result, call.keep)
  /\ call' = IF call.at = "first" /\ result = "unreachable"
             THEN [call EXCEPT !.at = "lookup"] ELSE NoCall
  /\ UNCHANGED bulk

CallLookup ==
  /\ call.at = "lookup"
  /\ \E found \in Discoveries :
       LET fresh == found[call.d]
       IN IF fresh \notin {None, call.addr} /\ ~IsOwnAddress(fresh)
          THEN /\ Dialled("call", call.d, fresh)
               /\ call' = [call EXCEPT !.at = "second", !.addr = fresh]
          ELSE /\ call' = NoCall
               /\ UNCHANGED talk
  /\ UNCHANGED <<at, row, bulk, repair, moves, calls, met, answered, repinned>>

-----------------------------------------------------------------------------
(* `sync <folder> --device <device>` of the command line. *)

\* The device is given by its id, a prefix of its name or an address; this
\* device's own row never matches.
CliTarget == Peer

\* A device typed in as an address is dialled there, another where it was last.
CliAddr(d) == IF Literal[d] # None THEN Literal[d] ELSE row[d].addr

CliSync(d) == CliAddr(d) # None /\ Called("cli", d, CliAddr(d), FALSE)

\* While nobody answers, the same address is dialled again until the time is up.
CliOver(result) ==
  /\ call.at = "cli"
  /\ Over("call", result, FALSE)
  /\ \/ call' = NoCall
     \/ result = "unreachable" /\ call' = [call EXCEPT !.at = "wait"]
  /\ UNCHANGED bulk

CliRetry ==
  /\ call.at = "wait"
  /\ Dialled("call", call.d, call.addr)
  /\ call' = [call EXCEPT !.at = "cli"]
  /\ UNCHANGED <<at, row, bulk, repair, moves, calls, met, answered, repinned>>

-----------------------------------------------------------------------------
(* auto_repair_known_devices. *)

\* list_trusted_device_addrs: rows with a certificate and an address.
RepairStart ==
  /\ repair = {} /\ calls < MaxCalls
  /\ calls' = calls + 1
  /\ repair' = {row[d].addr : d \in {e \in Id : row[e].cert # None}} \ {None}
  /\ UNCHANGED <<at, row, talk, bulk, call, moves, met, answered, repinned>>

\* pair_with: whoever has the address is recorded with it, under the id of its own
\* certificate, whether it was known before or not (the new row of a machine that
\* has no id here is not followed) ...
Repaired(a) ==
  LET who == {d \in Id : Owner[d] = at[a]}
  IN /\ a \in repair /\ at[a] # None
     /\ repair' = repair \ {a}
     /\ row' = [d \in Id |-> IF d \in who THEN [cert |-> at[a], addr |-> a] ELSE row[d]]
     /\ answered' = [d \in Id |-> answered[d] \cup (IF d \in who THEN {a} ELSE {})]
     /\ repinned' = repinned \cup {d \in who : row[d].cert \notin {None, at[a]}}
     /\ UNCHANGED <<at, talk, bulk, call, moves, calls, met>>

\* ... unless it does not accept, or nobody is there.
NotRepaired(a) ==
  /\ a \in repair
  /\ repair' = repair \ {a}
  /\ UNCHANGED <<at, row, talk, bulk, call, moves, calls, met, answered, repinned>>

-----------------------------------------------------------------------------
BulkStep ==
  \/ BulkDiscover \/ BulkSkip \/ BulkDial \/ FanOutEnd \/ BulkReturn
  \/ \E d \in Peer : FanOut(d)
  \/ Connect("bulk") \/ Pin("bulk")
  \/ \E result \in Results("bulk") : BulkOver(result)

CallStep ==
  \/ CallLookup \/ CliRetry \/ Connect("call") \/ Pin("call")
  \/ \E result \in Results("call") : CallOver(result) \/ CliOver(result)

Next ==
  \/ Move
  \/ BulkStart \/ BulkStep \/ BulkTaken
  \/ \E d \in Peer, dry \in BOOLEAN : CallStart(d, dry)
  \/ \E d \in CliTarget : CliSync(d)
  \/ CallStep
  \/ \E x \in Caller : Hang(x)
  \/ RepairStart \/ \E a \in Addr : Repaired(a) \/ NotRepaired(a)

\* The bulk sync goes on: a dial has a time limit, and a session ends or hangs.
Spec == Init /\ [][Next]_vars /\ WF_vars(BulkStep)

-----------------------------------------------------------------------------
\* A device row stands for one machine: whatever addresses change hands between
\* resolution, dial and record, all sessions completed under a device's name were
\* with the machine its row pins, and the address recorded is one at which that
\* machine completed a session or was paired.  A repair, which may reach another
\* machine at a device's address, leaves that device's row alone.  A pin is
\* replaced in two cases: it is read and set in two steps, so two first contacts
\* at once may each pin a machine, and pairing puts a device's own certificate
\* over that of a machine met first under its id (session.rs 97-115, bulk.rs
\* 228-306, api/mod.rs 528-560 and 1081-1117).
RowsStandForOneMachine ==
  \A d \in Peer : /\ met[d] \subseteq {row[d].cert} \/ d \in repinned
                  /\ row[d].addr \in answered[d]

\* A bulk sync comes to its end with an outcome for every folder row, whichever
\* of them fail, move or have no address (bulk.rs 131-137: "A failing or
\* unresolvable folder does not abort the rest") -- unless the database fails,
\* which aborts the rest and drops the outcomes, or a session hangs.
BulkAnswersEvery ==
  (bulk.at = "discover") ~>
    \/ bulk.at = "returned" /\ Idx \subseteq bulk.outs
    \/ bulk.at = "aborted" \/ talk["bulk"].at = "hung"
=============================================================================
