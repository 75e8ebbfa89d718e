---------------------------- MODULE BulkSyncProofs ----------------------------
(***************************************************************************)
(* A device row stands for one machine, for any machines, addresses and    *)
(* rows, and however often machines move and callers run side by side.     *)
(***************************************************************************)
EXTENDS BulkSync, TLAPS

USE DEF vars

Address == Addr \cup {None}
Talk == [at : {"none", "dial", "pin", "run", "hung"}, d : Id, addr : Address, m : Machine \cup {None}]
Call == [at : {"idle", "first", "second", "lookup", "cli", "wait"}, d : Id,
         addr : Address, keep : BOOLEAN]
Bulk == [at : {"idle", "discover", "rows", "returned", "aborted"}, addr : {<<>>} \cup [Idx -> Address],
         peer : {<<>>} \cup [Peer -> Address], i : Nat, todo : SUBSET Peer,
         contacted : BOOLEAN, outs : SUBSET Nat]

\* Types of the variables, and what the callers have at hand at each stage: the
\* bulk sync its addresses, a call its device and address, a dial the address.
TypeOK ==
  /\ at \in [Addr -> Machine \cup {None}]
  /\ row \in [Id -> [cert : Machine \cup {None}, addr : Address]]
  /\ talk \in [Caller -> Talk]
  /\ bulk \in Bulk /\ call \in Call
  /\ met \in [Id -> SUBSET Machine]
  /\ answered \in [Id -> SUBSET Address]
  /\ repinned \in SUBSET Id
  /\ bulk.at \in {"discover", "rows"} =>
       bulk.addr \in [Idx -> Address] /\ bulk.peer \in [Peer -> Address]
  /\ call.at # "idle" => call.d \in Peer /\ call.addr \in Addr
  /\ \A x \in Caller : talk[x].at = "dial" => talk[x].addr \in Addr

(***************************************************************************)
(* What RowsStandForOneMachine leaves open between two steps: a session    *)
(* that compared or pinned the certificate is with a machine, and with the *)
(* one the row pins unless the pin was replaced meanwhile.                 *)
(***************************************************************************)
TalkInv ==
  /\ \A x \in Caller : talk[x].at \in {"pin", "run"} => talk[x].m \in Machine
  /\ \A x \in Caller :
       talk[x].at = "run" => talk[x].m = row[talk[x].d].cert \/ talk[x].d \in repinned

MetInv ==
  \A d \in Id : /\ met[d] \subseteq {row[d].cert} \/ d \in repinned
                /\ row[d].addr \in answered[d]

BulkInv == TypeOK /\ TalkInv /\ MetInv

-----------------------------------------------------------------------------
(* What the steps of a session do to the rows and to the sessions. *)

Quiet == UNCHANGED <<row, met, answered, repinned>>

\* The parts of the type that a session's steps may touch.
SessionType ==
  /\ row \in [Id -> [cert : Machine \cup {None}, addr : Address]]
  /\ talk \in [Caller -> Talk]
  /\ met \in [Id -> SUBSET Machine]
  /\ answered \in [Id -> SUBSET Address]
  /\ repinned \in SUBSET Id
  /\ \A x \in Caller : talk[x].at = "dial" => talk[x].addr \in Addr

SessionInv == SessionType /\ TalkInv /\ MetInv

\* A session's parts are part of the invariant.
LEMMA SessionPart == BulkInv => SessionInv
BY DEF BulkInv, TypeOK, SessionInv, SessionType

\* Dialling changes no row and trusts nobody.
LEMMA DialStep ==
  ASSUME BulkInv, Quiet, NEW x \in Caller, NEW d \in Id, NEW a \in Addr, Dialled(x, d, a)
  PROVE  SessionInv'
<1>1. talk \in [Caller -> Talk] /\ None \notin Machine
  BY BulkAssumption DEF BulkInv, TypeOK
<1>2. [at |-> "dial", d |-> d, addr |-> a, m |-> None] \in Talk
  BY DEF Talk, Address
<1>3. /\ talk'[x] = [at |-> "dial", d |-> d, addr |-> a, m |-> None]
      /\ \A y \in Caller : y # x => talk'[y] = talk[y]
      /\ talk' \in [Caller -> Talk]
  BY <1>1, <1>2 DEF Dialled
<1>4. talk'[x].at = "dial" /\ talk'[x].addr \in Addr
  BY <1>3
<1>5. SessionType'
  BY <1>3, <1>4 DEF BulkInv, TypeOK, SessionType, Quiet
<1>6. TalkInv'
  BY <1>3, <1>4 DEF BulkInv, TalkInv, Quiet
<1>7. MetInv'
  BY DEF BulkInv, MetInv, Quiet
<1> QED BY <1>5, <1>6, <1>7 DEF SessionInv

\* A step that leaves the sessions and the rows alone.
LEMMA IdleStep ==
  ASSUME BulkInv, Quiet, talk' = talk
  PROVE  SessionInv'
BY DEF BulkInv, TypeOK, SessionInv, SessionType, TalkInv, MetInv, Quiet

\* A session that hangs ends no dial and completes with nobody.
LEMMA HangStep ==
  ASSUME BulkInv, NEW x \in Caller, Hang(x)
  PROVE  SessionInv'
<1>1. talk[x] \in Talk /\ talk \in [Caller -> Talk] /\ Quiet
  BY DEF BulkInv, TypeOK, Hang, Quiet
<1>2. /\ talk'[x].at = "hung" /\ talk' \in [Caller -> Talk]
      /\ \A y \in Caller : y # x => talk'[y] = talk[y]
  BY <1>1 DEF Hang, Talk
<1>3. SessionType'
  BY <1>1, <1>2 DEF BulkInv, TypeOK, SessionType, Quiet
<1>4. TalkInv' /\ MetInv'
  BY <1>1, <1>2 DEF BulkInv, TalkInv, MetInv, Quiet
<1> QED BY <1>3, <1>4 DEF SessionInv

\* The certificate is compared with the one the row pins.
LEMMA ConnectStep ==
  ASSUME BulkInv, NEW x \in Caller, Connect(x)
  PROVE  SessionInv'
<1>0. /\ talk \in [Caller -> Talk] /\ talk[x] \in Talk /\ talk[x].at = "dial"
      /\ Quiet
  BY DEF BulkInv, TypeOK, Connect, Quiet
<1>1. talk[x].addr \in Addr /\ talk[x].d \in Id
  BY <1>0 DEF BulkInv, TypeOK, Talk
<1>2. PICK m : m = at[talk[x].addr]
  OBVIOUS
<1>3. m \in Machine /\ row[talk[x].d].cert \in {None, m}
  BY <1>1, <1>2 DEF BulkInv, TypeOK, Connect, Accepted
<1>4. PICK stage : stage = IF row[talk[x].d].cert = None THEN "pin" ELSE "run"
  OBVIOUS
<1>5. talk' = [talk EXCEPT ![x].at = stage, ![x].m = m]
  BY <1>2, <1>4 DEF Connect
<1>6. /\ talk'[x].at = stage /\ talk'[x].m = m /\ talk'[x].d = talk[x].d
      /\ \A y \in Caller : y # x => talk'[y] = talk[y]
      /\ talk' \in [Caller -> Talk]
  BY <1>0, <1>3, <1>4, <1>5 DEF Talk
<1>7. SessionType'
  BY <1>0, <1>4, <1>6 DEF BulkInv, TypeOK, SessionType, Quiet
<1>8. TalkInv'
  BY <1>0, <1>3, <1>4, <1>6 DEF BulkInv, TalkInv, Quiet
<1>9. MetInv'
  BY <1>0 DEF BulkInv, MetInv, Quiet
<1> QED BY <1>7, <1>8, <1>9 DEF SessionInv

\* A certificate is written to some rows: where it replaces another one, the
\* device counts as repinned; where there was none, nobody was met.
LEMMA PinnedStep ==
  ASSUME BulkInv, NEW who \in SUBSET Id, NEW m \in Machine,
         row' \in [Id -> [cert : Machine \cup {None}, addr : Address]],
         \A d \in who : row'[d].cert = m,
         \A d \in Id \ who : row'[d].cert = row[d].cert,
         repinned' = repinned \cup {d \in who : row[d].cert \notin {None, m}},
         met' = met
  PROVE  /\ \A d \in Id : met'[d] \subseteq {row'[d].cert} \/ d \in repinned'
         /\ \A x \in Caller : talk[x].at = "run" =>
              talk[x].m = row'[talk[x].d].cert \/ talk[x].d \in repinned'
<1>0. None \notin Machine
  BY BulkAssumption
<1>1. ASSUME NEW d \in Id PROVE met'[d] \subseteq {row'[d].cert} \/ d \in repinned'
  <2>1. met[d] \subseteq Machine /\ (met[d] \subseteq {row[d].cert} \/ d \in repinned)
    BY DEF BulkInv, TypeOK, MetInv
  <2>2. CASE d \in who /\ row[d].cert = None
    BY <1>0, <2>1, <2>2
  <2>3. CASE d \in who /\ row[d].cert # None
    BY <2>1, <2>3
  <2>4. CASE d \notin who
    BY <2>1, <2>4
  <2> QED BY <2>2, <2>3, <2>4
<1>2. ASSUME NEW x \in Caller, talk[x].at = "run"
      PROVE  talk[x].m = row'[talk[x].d].cert \/ talk[x].d \in repinned'
  <2>0. talk[x].d \in Id
    BY DEF BulkInv, TypeOK, Talk
  <2>1. PICK d \in Id : d = talk[x].d
    BY <2>0
  <2>2. talk[x].m \in Machine /\ (talk[x].m = row[d].cert \/ d \in repinned)
    BY <1>2, <2>1 DEF BulkInv, TalkInv
  <2>3. CASE d \in who /\ row[d].cert = None
    BY <1>0, <2>1, <2>2, <2>3
  <2>4. CASE d \in who /\ row[d].cert # None
    BY <2>1, <2>2, <2>4
  <2>5. CASE d \notin who
    BY <2>1, <2>2, <2>5
  <2> QED BY <2>3, <2>4, <2>5
<1> QED BY <1>1, <1>2

\* Trust on first use pins the machine that was dialled.
LEMMA PinStep ==
  ASSUME BulkInv, NEW x \in Caller, Pin(x)
  PROVE  SessionInv'
<1>0. /\ talk \in [Caller -> Talk] /\ talk[x] \in Talk /\ talk[x].at = "pin"
      /\ row \in [Id -> [cert : Machine \cup {None}, addr : Address]]
  BY DEF BulkInv, TypeOK, Pin
<1>1. PICK d \in Id : d = talk[x].d
  BY <1>0 DEF Talk
<1>2. PICK m \in Machine : m = talk[x].m
  BY <1>0 DEF BulkInv, TalkInv
<1>3. row' = [row EXCEPT ![d].cert = m] /\ UNCHANGED <<met, answered>>
  BY <1>1, <1>2 DEF Pin
<1>4. /\ row' \in [Id -> [cert : Machine \cup {None}, addr : Address]]
      /\ row'[d].cert = m
      /\ \A e \in Id : e # d => row'[e].cert = row[e].cert
      /\ \A e \in Id : row'[e].addr = row[e].addr
  BY <1>0, <1>3
<1>5. repinned' = repinned \cup {e \in {d} : row[e].cert \notin {None, m}}
  BY <1>1, <1>2 DEF Pin
<1>6. /\ \A e \in Id : met'[e] \subseteq {row'[e].cert} \/ e \in repinned'
      /\ \A y \in Caller : talk[y].at = "run" =>
           talk[y].m = row'[talk[y].d].cert \/ talk[y].d \in repinned'
  <2>1. PICK who \in SUBSET Id : who = {d}
    OBVIOUS
  <2>2. /\ \A e \in who : row'[e].cert = m
        /\ \A e \in Id \ who : row'[e].cert = row[e].cert
    BY <1>4, <2>1
  <2>3. repinned' = repinned \cup {e \in who : row[e].cert \notin {None, m}}
    BY <1>5, <2>1
  <2> QED BY <1>3, <1>4, <2>2, <2>3, PinnedStep
<1>7. /\ talk'[x].at = "run" /\ talk'[x].m = m /\ talk'[x].d = d
      /\ \A y \in Caller : y # x => talk'[y] = talk[y]
      /\ talk' \in [Caller -> Talk]
  BY <1>0, <1>1, <1>2 DEF Pin, Talk
<1>8. SessionType'
  BY <1>3, <1>4, <1>5, <1>7 DEF BulkInv, TypeOK, SessionType
<1>9. TalkInv'
  BY <1>4, <1>6, <1>7 DEF BulkInv, TalkInv
<1>10. MetInv'
  BY <1>3, <1>4, <1>6 DEF BulkInv, MetInv
<1> QED BY <1>8, <1>9, <1>10 DEF SessionInv

\* Pairing writes the certificate and the address of the machine that answers.
LEMMA RepairStep ==
  ASSUME BulkInv, NEW a \in Addr, Repaired(a)
  PROVE  SessionInv'
<1>1. PICK m : m = at[a]
  OBVIOUS
<1>2. m \in Machine
  BY <1>1 DEF BulkInv, TypeOK, Repaired
<1>3. PICK who \in SUBSET Id : who = {d \in Id : Owner[d] = m}
  OBVIOUS
<1>4. /\ row' = [d \in Id |-> IF d \in who THEN [cert |-> m, addr |-> a] ELSE row[d]]
      /\ answered' = [d \in Id |-> answered[d] \cup (IF d \in who THEN {a} ELSE {})]
      /\ repinned' = repinned \cup {d \in who : row[d].cert \notin {None, m}}
      /\ UNCHANGED <<talk, met>>
  BY <1>1, <1>3 DEF Repaired
<1>5. /\ row \in [Id -> [cert : Machine \cup {None}, addr : Address]]
      /\ answered \in [Id -> SUBSET Address] /\ a \in Address
  BY DEF BulkInv, TypeOK, Address
<1>6. row' \in [Id -> [cert : Machine \cup {None}, addr : Address]]
  BY <1>2, <1>4, <1>5
<1>7. /\ \A d \in who : row'[d].cert = m /\ row'[d].addr = a
      /\ \A d \in Id \ who : row'[d] = row[d]
  BY <1>4
<1>8. answered' \in [Id -> SUBSET Address]
  BY <1>4, <1>5
<1>9. /\ \A d \in Id : met'[d] \subseteq {row'[d].cert} \/ d \in repinned'
      /\ \A x \in Caller : talk[x].at = "run" =>
           talk[x].m = row'[talk[x].d].cert \/ talk[x].d \in repinned'
  BY <1>2, <1>4, <1>6, <1>7, PinnedStep
<1>10. SessionType'
  BY <1>4, <1>6, <1>8 DEF BulkInv, TypeOK, SessionType
<1>11. TalkInv'
  BY <1>4, <1>9 DEF BulkInv, TalkInv
<1>12. MetInv'
  <2>1. ASSUME NEW d \in Id PROVE row'[d].addr \in answered'[d]
    BY <1>4, <1>5, <1>7 DEF BulkInv, MetInv
  <2> QED BY <1>9, <2>1 DEF MetInv
<1> QED BY <1>10, <1>11, <1>12 DEF SessionInv

\* The end of a session: a completed one was with the machine the row pins.
LEMMA OverStep ==
  ASSUME BulkInv, NEW x \in Caller, NEW result \in Results(x), NEW keep \in BOOLEAN,
         Over(x, result, keep)
  PROVE  SessionInv'
<1>0. /\ talk \in [Caller -> Talk] /\ NoTalk \in Talk /\ None \notin Machine
      /\ row \in [Id -> [cert : Machine \cup {None}, addr : Address]]
      /\ met \in [Id -> SUBSET Machine] /\ answered \in [Id -> SUBSET Address]
  BY BulkAssumption DEF BulkInv, TypeOK, Talk, NoTalk, Address
<1>1. /\ talk'[x].at = "none"
      /\ \A y \in Caller : y # x => talk'[y] = talk[y]
      /\ talk' \in [Caller -> Talk] /\ repinned' = repinned
  BY <1>0 DEF Over, NoTalk
<1>2. CASE result # "ok"
  <2>1. Quiet
    BY <1>1, <1>2 DEF Over, Quiet
  <2>2. SessionType'
    BY <1>1, <2>1 DEF BulkInv, TypeOK, SessionType, Quiet
  <2>3. TalkInv' /\ MetInv'
    BY <1>1, <2>1 DEF BulkInv, TalkInv, MetInv, Quiet
  <2> QED BY <2>2, <2>3 DEF SessionInv
<1>3. CASE result = "ok"
  <2>1. talk[x].at = "run"
    BY <1>3 DEF Results, Refusal
  <2>2. PICK d \in Id : d = talk[x].d
    BY <1>0 DEF Talk
  <2>3. PICK m \in Machine : m = talk[x].m
    BY <2>1 DEF BulkInv, TalkInv
  <2>4. PICK a \in Address : a = talk[x].addr
    BY <1>0 DEF Talk
  <2>5. m = row[d].cert \/ d \in repinned
    BY <2>1, <2>2, <2>3 DEF BulkInv, TalkInv
  <2>6. /\ row' = row \/ row' = [row EXCEPT ![d].addr = a]
        /\ met' = [met EXCEPT ![d] = @ \cup {m}]
        /\ answered' = [answered EXCEPT ![d] = @ \cup {a}]
    BY <1>3, <2>2, <2>3, <2>4 DEF Over
  <2>7. /\ row' \in [Id -> [cert : Machine \cup {None}, addr : Address]]
        /\ \A e \in Id : row'[e].cert = row[e].cert
        /\ \A e \in Id : e # d => row'[e].addr = row[e].addr
        /\ row'[d].addr \in {a, row[d].addr}
    <3>1. CASE row' = [row EXCEPT ![d].addr = a]
      BY <1>0, <3>1
    <3>2. CASE row' = row
      BY <1>0, <3>2
    <3> QED BY <2>6, <3>1, <3>2
  <2>8. /\ met' \in [Id -> SUBSET Machine] /\ answered' \in [Id -> SUBSET Address]
        /\ met'[d] = met[d] \cup {m} /\ answered'[d] = answered[d] \cup {a}
        /\ \A e \in Id : e # d => met'[e] = met[e] /\ answered'[e] = answered[e]
    BY <1>0, <2>6
  <2>9. SessionType'
    BY <1>1, <2>7, <2>8 DEF BulkInv, TypeOK, SessionType
  <2>10. TalkInv'
    <3>1. \A y \in Caller : talk[y].d \in Id
      BY <1>0 DEF Talk
    <3> QED BY <1>1, <2>7, <3>1 DEF BulkInv, TalkInv
  <2>11. MetInv'
    <3>1. ASSUME NEW e \in Id
          PROVE  /\ met'[e] \subseteq {row'[e].cert} \/ e \in repinned'
                 /\ row'[e].addr \in answered'[e]
      <4>1. /\ met[e] \subseteq {row[e].cert} \/ e \in repinned
            /\ row[e].addr \in answered[e]
        BY DEF BulkInv, MetInv
      <4>2. CASE e = d
        BY <1>1, <2>5, <2>7, <2>8, <4>1, <4>2
      <4>3. CASE e # d
        BY <1>1, <2>7, <2>8, <4>1, <4>3
      <4> QED BY <4>2, <4>3
    <3> QED BY <3>1 DEF MetInv
  <2> QED BY <2>9, <2>10, <2>11 DEF SessionInv
<1> QED BY <1>2, <1>3

-----------------------------------------------------------------------------
(* The callers. *)

CallType == call \in Call /\ (call.at # "idle" => call.d \in Peer /\ call.addr \in Addr)

BulkType ==
  /\ bulk \in Bulk
  /\ bulk.at \in {"discover", "rows"} =>
       bulk.addr \in [Idx -> Address] /\ bulk.peer \in [Peer -> Address]

AtType == at \in [Addr -> Machine \cup {None}]

\* The invariant, part by part.
LEMMA Parts ==
  /\ BulkInv <=> SessionInv /\ CallType /\ BulkType /\ AtType
  /\ SessionInv' /\ CallType' /\ BulkType' /\ AtType' => BulkInv'
BY DEF BulkInv, TypeOK, SessionInv, SessionType, CallType, BulkType, AtType

\* An address that is recorded or typed in is one, or none.
LEMMA ResolveType ==
  ASSUME BulkInv, NEW d \in Id
  PROVE  Resolve(d) \in Address /\ CliAddr(d) \in Address
BY BulkAssumption DEF BulkInv, TypeOK, Resolve, CliAddr, Address

\* Going on to the next row, and every other step within the rows.
LEMMA RowsType ==
  ASSUME BulkInv, NEW todo \in SUBSET Peer, NEW outs \in SUBSET Nat,
         \/ bulk' = NextRow(outs)
         \/ bulk' = [bulk EXCEPT !.todo = todo]
         \/ bulk' = [bulk EXCEPT !.todo = todo, !.contacted = TRUE]
         \/ bulk' = [bulk EXCEPT !.outs = @ \cup outs]
         \/ bulk' = [bulk EXCEPT !.at = "returned"]
  PROVE  BulkType'
<1>1. bulk \in Bulk /\ BulkType
  BY Parts DEF BulkType
<1>2. /\ bulk' \in Bulk /\ bulk'.at \in {bulk.at, "returned"}
      /\ bulk'.addr = bulk.addr /\ bulk'.peer = bulk.peer
  <2>1. CASE bulk' = NextRow(outs)
    <3>1. bulk' = [at |-> bulk.at, addr |-> bulk.addr, peer |-> bulk.peer, i |-> bulk.i + 1,
                   todo |-> Peer, contacted |-> FALSE, outs |-> bulk.outs \cup outs]
      BY <1>1, <2>1, Zenon DEF NextRow, Bulk
    <3> QED BY <1>1, <3>1 DEF Bulk
  <2>2. CASE bulk' = [bulk EXCEPT !.todo = todo]
    BY <1>1, <2>2 DEF Bulk
  <2>3. CASE bulk' = [bulk EXCEPT !.todo = todo, !.contacted = TRUE]
    BY <1>1, <2>3 DEF Bulk
  <2>4. CASE bulk' = [bulk EXCEPT !.outs = @ \cup outs]
    BY <1>1, <2>4 DEF Bulk
  <2>5. CASE bulk' = [bulk EXCEPT !.at = "returned"]
    BY <1>1, <2>5 DEF Bulk
  <2> QED BY <2>1, <2>2, <2>3, <2>4, <2>5
<1> QED BY <1>1, <1>2 DEF BulkType

\* A call under way has an address.
LEMMA CalledStep ==
  ASSUME BulkInv, NEW d \in Peer, NEW a \in Addr, NEW keep \in BOOLEAN,
         NEW stage \in {"first", "cli"}, Called(stage, d, a, keep)
  PROVE  BulkInv'
<1>1. SessionInv'
  <2>1. "call" \in Caller /\ d \in Id
    BY DEF Caller, Peer
  <2> QED BY <2>1, DialStep DEF Called, Quiet
<1>2. CallType'
  BY DEF Called, CallType, Call, Address, Peer
<1>3. BulkType' /\ AtType'
  BY Parts DEF Called, BulkType, AtType
<1> QED BY <1>1, <1>2, <1>3, Parts

\* The addresses a browse finds.
LEMMA FoundType ==
  ASSUME BulkInv, NEW found \in Discoveries
  PROVE  found \in [Peer -> Address]
BY DEF Discoveries, Address

\* The discovery pass keeps what the static pass resolved.
LEMMA DiscoverStep ==
  ASSUME BulkInv, BulkDiscover
  PROVE  BulkInv'
<1>0. /\ bulk \in Bulk /\ bulk.at = "discover"
      /\ bulk.addr \in [Idx -> Address] /\ bulk.peer \in [Peer -> Address]
      /\ \A i \in Idx : Rows[i] \in Id
  BY BulkAssumption DEF BulkInv, TypeOK, BulkDiscover, Idx
<1> DEFINE Fill(found, a, d) == IF a = None /\ d # Own THEN found[d] ELSE a
<1>1. PICK found \in Discoveries :
        bulk' = [bulk EXCEPT !.at = "rows", !.i = 1,
                   !.addr = [i \in Idx |-> Fill(found, bulk.addr[i], Rows[i])],
                   !.peer = [d \in Peer |-> Fill(found, bulk.peer[d], d)],
                   !.todo = Peer]
  BY DEF BulkDiscover
<1>2. found \in [Peer -> Address]
  BY <1>1, FoundType
<1>3. PICK addr : addr = [i \in Idx |-> Fill(found, bulk.addr[i], Rows[i])]
  OBVIOUS
<1>4. PICK peer : peer = [d \in Peer |-> Fill(found, bulk.peer[d], d)]
  OBVIOUS
<1>5. addr \in [Idx -> Address] /\ peer \in [Peer -> Address]
  BY <1>0, <1>2, <1>3, <1>4 DEF Peer
<1>6. bulk' = [at |-> "rows", addr |-> addr, peer |-> peer, i |-> 1, todo |-> Peer,
               contacted |-> bulk.contacted, outs |-> bulk.outs]
  <2>1. bulk' = [bulk EXCEPT !.at = "rows", !.i = 1, !.addr = addr, !.peer = peer, !.todo = Peer]
    BY <1>1, <1>3, <1>4
  <2> QED BY <1>0, <2>1, Zenon DEF Bulk
<1>7. BulkType'
  <2>1. bulk' \in Bulk
    BY <1>0, <1>5, <1>6 DEF Bulk
  <2> QED BY <1>5, <1>6, <2>1 DEF BulkType
<1>8. SessionInv' /\ CallType' /\ AtType'
  BY IdleStep, Parts DEF BulkDiscover, Quiet, CallType, AtType
<1> QED BY <1>7, <1>8, Parts

\* The other steps of the bulk sync.
LEMMA BulkStepInv ==
  ASSUME BulkInv, BulkStart \/ BulkStep \/ BulkTaken
  PROVE  BulkInv'
<1> USE DEF Quiet
<1>0. "bulk" \in Caller /\ \A i \in Idx : i \in Nat /\ Rows[i] \in Id
  BY BulkAssumption DEF Caller, Idx
<1>abort. ASSUME bulk' = Aborted PROVE BulkType'
  <2>1. bulk' \in Bulk /\ bulk'.at = "aborted"
    BY <1>abort DEF Aborted, NoBulk, Bulk
  <2> QED BY <2>1 DEF BulkType
<1>1. CASE BulkStart
  <2>1. PICK addr : addr = [i \in Idx |-> Resolve(Rows[i])]
    OBVIOUS
  <2>2. PICK peer : peer = [d \in Peer |-> Resolve(d)]
    OBVIOUS
  <2>3. addr \in [Idx -> Address] /\ peer \in [Peer -> Address]
    BY <1>0, <2>1, <2>2, ResolveType DEF Peer
  <2>4. \/ bulk' = [at |-> "discover", addr |-> addr, peer |-> peer, i |-> 0, todo |-> {},
                    contacted |-> FALSE, outs |-> {}]
        \/ bulk' = Aborted
    BY <1>1, <2>1, <2>2 DEF BulkStart, NoBulk
  <2>5. BulkType'
    <3>1. CASE bulk' = [at |-> "discover", addr |-> addr, peer |-> peer, i |-> 0, todo |-> {},
                        contacted |-> FALSE, outs |-> {}]
      <4>1. bulk' \in Bulk
        BY <2>3, <3>1 DEF Bulk
      <4> QED BY <2>3, <3>1, <4>1 DEF BulkType
    <3> QED BY <1>abort, <2>4, <3>1
  <2>6. SessionInv' /\ CallType' /\ AtType'
    BY <1>1, IdleStep, Parts DEF BulkStart, CallType, AtType
  <2> QED BY <2>5, <2>6, Parts
<1>2. CASE BulkDiscover
  BY <1>2, DiscoverStep
<1>3. CASE BulkSkip \/ FanOutEnd
  <2>1. /\ bulk.at = "rows" /\ bulk.i \in Nat
        /\ \E outs \in {{}, {bulk.i}} : bulk' = NextRow(outs)
    BY <1>0, <1>3 DEF BulkSkip, FanOutEnd, AtRow
  <2>2. BulkType'
    BY <2>1, RowsType
  <2>3. SessionInv' /\ CallType' /\ AtType'
    BY <1>3, IdleStep, Parts DEF BulkSkip, FanOutEnd, CallType, AtType
  <2> QED BY <2>2, <2>3, Parts
<1>4. CASE BulkDial
  <2>1. bulk.i \in Idx /\ bulk.at = "rows" /\ bulk.addr[bulk.i] # None
    BY <1>4 DEF BulkDial, AtRow
  <2>2. bulk.addr[bulk.i] \in Addr /\ Rows[bulk.i] \in Id
    BY <1>0, <2>1 DEF BulkInv, TypeOK, Address
  <2>3. SessionInv'
    BY <1>0, <1>4, <2>2, DialStep, IdleStep DEF BulkDial
  <2>4. CallType' /\ AtType'
    BY <1>4, Parts DEF BulkDial, CallType, AtType
  <2>5. BulkType'
    BY <1>4, <1>abort, Parts DEF BulkDial, BulkType
  <2> QED BY <2>3, <2>4, <2>5, Parts
<1>5. CASE \E d \in Peer : FanOut(d)
  <2>1. PICK d \in Peer : FanOut(d)
    BY <1>5
  <2>2. bulk.at = "rows" /\ d \in Id /\ bulk.peer[d] \in Address
    BY <2>1 DEF FanOut, AtRow, BulkInv, TypeOK, Peer
  <2>3. CASE bulk.peer[d] = None \/ IsOwnAddress(bulk.peer[d])
    <3>1. bulk' = [bulk EXCEPT !.todo = bulk.todo \ {d}] /\ talk' = talk
      BY <2>1, <2>3 DEF FanOut
    <3>2. bulk.todo \ {d} \in SUBSET Peer
      BY DEF BulkInv, TypeOK, Bulk
    <3>3. BulkType'
      BY <2>2, <3>1, <3>2, RowsType
    <3>4. SessionInv' /\ CallType' /\ AtType'
      BY <2>1, <3>1, IdleStep, Parts DEF FanOut, CallType, AtType
    <3> QED BY <3>3, <3>4, Parts
  <2>4. CASE ~ (bulk.peer[d] = None \/ IsOwnAddress(bulk.peer[d]))
    <3>1. \/ /\ bulk' = [bulk EXCEPT !.todo = bulk.todo \ {d}, !.contacted = TRUE]
             /\ Dialled("bulk", d, bulk.peer[d])
          \/ bulk' = Aborted /\ talk' = talk
      BY <2>1, <2>4 DEF FanOut
    <3>2. bulk.todo \ {d} \in SUBSET Peer /\ bulk.peer[d] \in Addr
      BY <2>2, <2>4 DEF BulkInv, TypeOK, Bulk, Address
    <3>3. BulkType'
      <4>1. CASE bulk' = Aborted
        BY <1>abort, <4>1
      <4>2. CASE bulk' # Aborted
        BY <2>2, <3>1, <3>2, <4>2, RowsType
      <4> QED BY <4>1, <4>2
    <3>4. SessionInv'
      BY <1>0, <2>1, <2>2, <3>1, <3>2, DialStep, IdleStep DEF FanOut
    <3>5. CallType' /\ AtType'
      BY <2>1, Parts DEF FanOut, CallType, AtType
    <3> QED BY <3>3, <3>4, <3>5, Parts
  <2> QED BY <2>3, <2>4
<1>6. CASE Connect("bulk") \/ Pin("bulk")
  <2>1. SessionInv'
    BY <1>0, <1>6, ConnectStep, PinStep
  <2>2. BulkType' /\ CallType' /\ AtType'
    BY <1>6, Parts DEF Connect, Pin, BulkType, CallType, AtType
  <2> QED BY <2>1, <2>2, Parts
<1>7. CASE BulkReturn
  <2>1. BulkType'
    BY <1>7, RowsType DEF BulkReturn
  <2>2. SessionInv' /\ CallType' /\ AtType'
    BY <1>7, IdleStep, Parts DEF BulkReturn, CallType, AtType
  <2> QED BY <2>1, <2>2, Parts
<1>8. CASE BulkTaken
  <2>1. bulk' = NoBulk /\ NoBulk \in Bulk
    BY <1>8 DEF BulkTaken, NoBulk, Bulk
  <2>2. BulkType'
    BY <2>1 DEF BulkType, NoBulk
  <2>3. SessionInv' /\ CallType' /\ AtType'
    BY <1>8, IdleStep, Parts DEF BulkTaken, CallType, AtType
  <2> QED BY <2>2, <2>3, Parts
<1>9. CASE \E result \in Results("bulk") : BulkOver(result)
  <2>1. PICK result \in Results("bulk") : BulkOver(result)
    BY <1>9
  <2>2. SessionInv'
    BY <1>0, <2>1, OverStep DEF BulkOver
  <2>3. CallType' /\ AtType'
    BY <2>1, Parts DEF BulkOver, Over, CallType, AtType
  <2>4. BulkType'
    <3>1. bulk.i \in Nat /\ bulk \in Bulk
      BY DEF BulkInv, TypeOK, Bulk
    <3>2. PICK outs \in SUBSET Nat : outs = {bulk.i}
      BY <3>1
    <3>3. \/ bulk' = [bulk EXCEPT !.outs = @ \cup outs]
          \/ bulk' = NextRow(outs)
      BY <2>1, <3>2 DEF BulkOver
    <3> QED BY <3>3, RowsType
  <2> QED BY <2>2, <2>3, <2>4, Parts
<1> QED
  BY <1>1, <1>2, <1>3, <1>4, <1>5, <1>6, <1>7, <1>8, <1>9 DEF BulkStep

\* The steps of the sync of one folder.
LEMMA CallStepInv ==
  ASSUME BulkInv,
         \/ \E d \in Peer, dry \in BOOLEAN : CallStart(d, dry)
         \/ \E d \in CliTarget : CliSync(d)
         \/ CallStep
  PROVE  BulkInv'
<1> USE DEF Quiet
<1>0. /\ "call" \in Caller /\ Peer \subseteq Id
      /\ call \in Call /\ call.d \in Id /\ call.keep \in BOOLEAN
      /\ call.at # "idle" => call.d \in Peer /\ call.addr \in Addr
  BY DEF Caller, Peer, BulkInv, TypeOK, Call
<1>1. ASSUME NEW d \in Peer, NEW dry \in BOOLEAN, CallStart(d, dry) PROVE BulkInv'
  <2>1. Resolve(d) \in Addr
    BY <1>0, <1>1, ResolveType DEF CallStart, Address
  <2> QED BY <1>0, <1>1, <2>1, CalledStep DEF CallStart
<1>2. ASSUME NEW d \in Peer, CliSync(d) PROVE BulkInv'
  <2>1. CliAddr(d) \in Addr
    BY <1>0, <1>2, ResolveType DEF CliSync, Address
  <2> QED BY <1>0, <1>2, <2>1, CalledStep DEF CliSync
<1>3. CASE CallLookup
  <2>1. PICK found \in Discoveries :
          \/ /\ found[call.d] \notin {None, call.addr}
             /\ Dialled("call", call.d, found[call.d])
             /\ call' = [call EXCEPT !.at = "second", !.addr = found[call.d]]
          \/ call' = NoCall /\ UNCHANGED talk
    BY <1>3 DEF CallLookup
  <2>2. BulkType' /\ AtType' /\ Quiet
    BY <1>3, Parts DEF CallLookup, BulkType, AtType
  <2>3. CASE call' = NoCall /\ UNCHANGED talk
    <3>1. CallType'
      BY <2>3, BulkAssumption DEF CallType, NoCall, Call, Address
    <3> QED BY <2>2, <2>3, <3>1, IdleStep, Parts
  <2>4. CASE /\ found[call.d] \notin {None, call.addr}
             /\ Dialled("call", call.d, found[call.d])
             /\ call' = [call EXCEPT !.at = "second", !.addr = found[call.d]]
    <3>1. found[call.d] \in Addr
      <4>1. call.d \in Peer
        BY <1>0, <1>3 DEF CallLookup
      <4> QED BY <2>4, <4>1, FoundType DEF Address
    <3>2. SessionInv'
      BY <1>0, <2>2, <2>4, <3>1, DialStep
    <3>3. CallType'
      <4>1. call' = [at |-> "second", d |-> call.d, addr |-> found[call.d], keep |-> call.keep]
        BY <1>0, <2>4, Zenon DEF Call
      <4>2. call.d \in Peer
        BY <1>0, <1>3 DEF CallLookup
      <4> QED BY <1>0, <3>1, <4>1, <4>2 DEF CallType, Call, Address
    <3> QED BY <2>2, <3>2, <3>3, Parts
  <2> QED BY <2>1, <2>3, <2>4
<1>4. CASE CliRetry
  <2>1. SessionInv'
    BY <1>0, <1>4, DialStep DEF CliRetry
  <2>2. CallType'
    BY <1>0, <1>4 DEF CliRetry, CallType, Call
  <2>3. BulkType' /\ AtType'
    BY <1>4, Parts DEF CliRetry, BulkType, AtType
  <2> QED BY <2>1, <2>2, <2>3, Parts
<1>5. CASE Connect("call") \/ Pin("call")
  <2>1. SessionInv'
    BY <1>0, <1>5, ConnectStep, PinStep
  <2>2. BulkType' /\ CallType' /\ AtType'
    BY <1>5, Parts DEF Connect, Pin, BulkType, CallType, AtType
  <2> QED BY <2>1, <2>2, Parts
<1>6. ASSUME NEW result \in Results("call"), CallOver(result) \/ CliOver(result)
      PROVE  BulkInv'
  <2>1. SessionInv'
    BY <1>0, <1>6, OverStep DEF CallOver, CliOver
  <2>2. CallType'
    <3>1. CASE call' = NoCall
      BY <3>1, BulkAssumption DEF CallType, NoCall, Call, Address
    <3>2. CASE call' = [call EXCEPT !.at = "lookup"] \/ call' = [call EXCEPT !.at = "wait"]
      <4>1. call.d \in Peer /\ call.addr \in Addr
        BY <1>0, <1>6 DEF CallOver, CliOver
      <4>2. call' \in Call /\ call'.d = call.d /\ call'.addr = call.addr
        BY <1>0, <3>2 DEF Call
      <4> QED BY <4>1, <4>2 DEF CallType
    <3> QED BY <1>6, <3>1, <3>2 DEF CallOver, CliOver
  <2>3. BulkType' /\ AtType'
    BY <1>6, Parts DEF CallOver, CliOver, Over, BulkType, AtType
  <2> QED BY <2>1, <2>2, <2>3, Parts
<1> QED BY <1>1, <1>2, <1>3, <1>4, <1>5, <1>6 DEF CallStep, CliTarget

\* Every step of machines, callers and repair keeps the invariant.
LEMMA InvStep == BulkInv /\ [Next]_vars => BulkInv'
<1> SUFFICES ASSUME BulkInv, [Next]_vars PROVE BulkInv'
  OBVIOUS
<1>1. CASE Move
  <2>1. SessionInv' /\ CallType' /\ BulkType'
    BY <1>1, IdleStep, Parts DEF Move, Quiet, CallType, BulkType
  <2>2. AtType'
    BY <1>1 DEF Move, Placements, AtType
  <2> QED BY <2>1, <2>2, Parts
<1>2. CASE RepairStart \/ (\E a \in Addr : NotRepaired(a)) \/ UNCHANGED vars
  <2>1. Quiet /\ UNCHANGED <<talk, call, bulk, at>>
    BY <1>2 DEF RepairStart, NotRepaired, Quiet
  <2>2. CallType' /\ BulkType' /\ AtType'
    BY <2>1, Parts DEF CallType, BulkType, AtType
  <2> QED BY <2>1, <2>2, IdleStep, Parts
<1>3. ASSUME NEW a \in Addr, Repaired(a) PROVE BulkInv'
  <2>1. CallType' /\ BulkType' /\ AtType'
    BY <1>3, Parts DEF Repaired, CallType, BulkType, AtType
  <2> QED BY <1>3, <2>1, RepairStep, Parts
<1>6. ASSUME NEW x \in Caller, Hang(x) PROVE BulkInv'
  <2>1. CallType' /\ BulkType' /\ AtType'
    BY <1>6, Parts DEF Hang, CallType, BulkType, AtType
  <2> QED BY <1>6, <2>1, HangStep, Parts
<1>4. CASE BulkStart \/ BulkStep \/ BulkTaken
  BY <1>4, BulkStepInv
<1>5. CASE \/ \E d \in Peer, dry \in BOOLEAN : CallStart(d, dry)
           \/ \E d \in CliTarget : CliSync(d)
           \/ CallStep
  BY <1>5, CallStepInv
<1> QED BY <1>1, <1>2, <1>3, <1>4, <1>5, <1>6 DEF Next

\* At the start nobody was met and no session runs.
LEMMA InvInit == Init => BulkInv
<1> SUFFICES ASSUME Init PROVE BulkInv
  OBVIOUS
<1>1. NoTalk \in Talk /\ NoCall \in Call /\ NoBulk \in Bulk
  BY BulkAssumption DEF NoTalk, NoCall, NoBulk, Talk, Call, Bulk, Address
<1>2. /\ row \in [Id -> [cert : Machine \cup {None}, addr : Address]]
      /\ at \in [Addr -> Machine \cup {None}]
      /\ talk = [x \in Caller |-> NoTalk] /\ bulk = NoBulk /\ call = NoCall
      /\ met = [d \in Id |-> {}] /\ answered = [d \in Id |-> {row[d].addr}]
      /\ repinned = {}
  BY DEF Init, Placements, Address
<1>3. /\ talk \in [Caller -> Talk] /\ met \in [Id -> SUBSET Machine]
      /\ answered \in [Id -> SUBSET Address]
  BY <1>1, <1>2
<1>4. TypeOK
  BY <1>1, <1>2, <1>3 DEF TypeOK, NoTalk, NoCall, NoBulk
<1>5. TalkInv
  BY <1>2 DEF TalkInv, NoTalk
<1>6. MetInv
  BY <1>2 DEF MetInv
<1> QED BY <1>4, <1>5, <1>6 DEF BulkInv

(***************************************************************************)
(* A device row stands for one machine, and the address it records is one  *)
(* where that machine answered, for any number of machines that change     *)
(* addresses while the bulk sync, a single sync and a repair run.          *)
(***************************************************************************)
THEOREM OneMachine == Spec => []RowsStandForOneMachine
<1>1. BulkInv => RowsStandForOneMachine
  BY DEF BulkInv, MetInv, RowsStandForOneMachine, Peer
<1> QED BY <1>1, InvInit, InvStep, PTL DEF Spec
=============================================================================
