------------------------------ MODULE PairClient ------------------------------
(***************************************************************************)
(* The other side of the gate: a device that pairs with this server        *)
(* (sync_engine/pairing.rs) and asks for one of its folders                *)
(* (sync_engine/shared_folder.rs, request_folder_pairing of the API).      *)
(*                                                                         *)
(* Both calls repeat their request, each time on a new connection, while   *)
(* the operator has not answered, until they notice that their time is up. *)
(* A connection may break between request and answer, and the server may   *)
(* be restarted; the request may have been carried out all the same.       *)
(***************************************************************************)
EXTENDS PairGate

CONSTANTS MaxCalls   \* bound on the calls of a device

\* The server is one of the app: its requests are listed, no channel fills up.
ASSUME ClientAssumption == MaxCalls \in Nat /\ Frontend = "app"

VARIABLES
  client,   \* client[d]: the call of d that is under way
  peer,     \* devices that store this server's certificate
  wired,    \* folder pairs in the requesters' databases
  made,     \* made[d]: number of calls so far
  lost      \* history: folder requests whose device was removed, or whose
            \* approval failed in the database, at some time

clientVars == <<client, peer, wired, made, lost>>
allVars    == <<vars, clientVars>>

\* at: no call ("off"), a request is out ("asked"), it will get no answer ("mute"),
\* between two requests ("sleep"); folder: NoFolder for pair_with; timed: there is
\* a deadline; late: it has passed.
NoCall == [at |-> "off", folder |-> NoFolder, timed |-> FALSE, late |-> FALSE]

ClientInit ==
  /\ Init
  /\ client = [d \in Device |-> NoCall]
  /\ peer = {} /\ wired = {}
  /\ made = [d \in Device |-> 0]
  /\ lost = {}

\* The request the call of d sends; the server's handler starts.
Asks(d, f) ==
  IF f = NoFolder THEN PairRequest(d) ELSE FolderRequest(d, f)

Returns(d) == client' = [client EXCEPT ![d] = NoCall]

\* pair_with has a budget; a folder request polls for ever if its lifetime is 0
\* (None), although the API says "0 = poll once".
Begin(d, f, timed) ==
  /\ client[d].at = "off" /\ made[d] < MaxCalls
  /\ f = NoFolder => timed
  /\ Asks(d, f)
  /\ client' = [client EXCEPT ![d] = [at |-> "asked", folder |-> f,
                                      timed |-> timed, late |-> FALSE]]
  /\ made' = [made EXCEPT ![d] = @ + 1]
  /\ UNCHANGED <<peer, wired, lost>>

\* The handler has answered; an accepted device is stored after the answer.
Answered(d) == task[d].at \in {"idle", "store", "paired"}

\* The deadline is looked at after an attempt that found the request held.
\* Mutant of Again: the time that is left is not looked at.
AgainForEver(d) == client' = [client EXCEPT ![d].at = "sleep"]
Again(d) ==
  IF client[d].timed /\ client[d].late
  THEN Returns(d) ELSE client' = [client EXCEPT ![d].at = "sleep"]

\* pair_attempt: an acceptance stores the server, a held request is repeated.
\* Mutant of PairReply: every answer that is no denial counts.
PairReplyHeld(d) ==
  /\ Returns(d)
  /\ peer' = IF reply[d] = "deny" THEN peer ELSE peer \cup {d}
  /\ UNCHANGED wired
PairReply(d) ==
  /\ IF reply[d] = "hold" THEN Again(d) ELSE Returns(d)
  /\ peer' = IF reply[d] = "accept" THEN peer \cup {d} ELSE peer
  /\ UNCHANGED wired

\* request_and_collect_pairing; a grant is wired into the requester's database,
\* which fails if the requester does not know the owner (a foreign key).
FolderReply(d) ==
  /\ IF reply[d] = "pending" THEN Again(d) ELSE Returns(d)
  /\ wired' = IF reply[d] = "approved" /\ d \in peer
              THEN wired \cup {<<d, client[d].folder>>} ELSE wired
  /\ UNCHANGED peer

Collect(d) ==
  /\ client[d].at = "asked" /\ Answered(d)
  /\ IF client[d].folder = NoFolder THEN PairReply(d) ELSE FolderReply(d)
  /\ UNCHANGED <<vars, made, lost>>

\* After the interval, the same request on a new connection.
Retry(d) ==
  /\ client[d].at = "sleep"
  /\ Asks(d, client[d].folder)
  /\ client' = [client EXCEPT ![d].at = "asked"]
  /\ UNCHANGED <<peer, wired, made, lost>>

\* No answer comes: the network or the server is silent, or its handler waits
\* for room in a full event channel.
Mute(d) ==
  /\ client[d].at = "asked"
  /\ client' = [client EXCEPT ![d].at = "mute"]
  /\ UNCHANGED <<vars, peer, wired, made, lost>>

\* PAIR_RESPONSE_TIMEOUT passes and the call fails.  read_frame has no timeout:
\* a folder request waits as long as the connection lives.
TimesOut(d) ==
  /\ client[d].at \in {"asked", "mute"} /\ client[d].folder = NoFolder
  /\ Returns(d)
  /\ UNCHANGED <<vars, peer, wired, made, lost>>

\* The connection breaks or cannot be made again: the call fails, and the
\* handler it leaves behind goes on.
Broken(d) ==
  /\ client[d].at # "off"
  /\ Returns(d)
  /\ UNCHANGED <<vars, peer, wired, made, lost>>

Deadline(d) ==
  /\ client[d].at \in {"asked", "sleep"} /\ client[d].timed /\ ~ client[d].late
  /\ client' = [client EXCEPT ![d].late = TRUE]
  /\ UNCHANGED <<vars, peer, wired, made, lost>>

\* A server that ends takes the connections with it.
ServerRestart ==
  /\ Restart
  /\ client' = [d \in Device |-> IF client[d].at = "asked" THEN NoCall ELSE client[d]]
  /\ UNCHANGED <<peer, wired, made, lost>>

\* The approval t carries out fails in the database, after its grant was recorded.
Refused(t) ==
  /\ task[t].at \in {"row", "pair"} /\ About(t) \notin pairs'
  /\ GrantFails(t)

\* The steps of the server and of its operator.  SetShared is left out: a folder
\* no longer shared is refused as one that cannot be read is (Errors).
ServerNext ==
  /\ \/ \E d \in Device : Handler(d) \/ ApprovePairing(d) \/ DenyPairing(d)
     \/ \E t \in Thread : Grant(t)
     \/ \E d \in Device, f \in Folder : ApproveFolderPairing(d, f) \/ DenyFolderPairing(d, f)
     \/ Approving
  /\ lost' = lost \cup {About(t) : t \in {t \in Thread : Refused(t)}}
  /\ UNCHANGED <<client, peer, wired, made>>

ServerRemoves(d) ==
  /\ RemoveDevice(d)
  /\ lost' = lost \cup ({d} \X Folder)
  /\ UNCHANGED <<client, peer, wired, made>>

ClientNext ==
  \/ ServerNext \/ ServerRestart
  \/ \E d \in Device : ServerRemoves(d)
  \/ \E d \in Device, f \in Folder \cup {NoFolder}, timed \in BOOLEAN : Begin(d, f, timed)
  \/ \E d \in Device : \/ Collect(d) \/ Retry(d) \/ Deadline(d)
                       \/ Mute(d) \/ TimesOut(d) \/ Broken(d)

\* Handlers, approvals under way, clients and their timers go on.
ServerTask(A) == A /\ ServerNext
ClientSpec ==
  /\ ClientInit /\ [][ClientNext]_allVars
  /\ \A d \in Device : /\ WF_allVars(ServerTask(Handler(d)))
                       /\ WF_allVars(Collect(d)) /\ WF_allVars(Retry(d))
                       /\ WF_allVars(Deadline(d)) /\ WF_allVars(TimesOut(d))
  /\ \A t \in Thread : WF_allVars(ServerTask(Grant(t)))
  /\ WF_allVars(ServerTask(Approving))

-----------------------------------------------------------------------------
\* A device that reports a pairing (pair_with returned Ok, the server stored as a
\* peer) was let in by the operator at some time, whatever retries, restarts and
\* broken connections came between: answers of two requests are never mixed up.
PairedMeansAdmitted == Policy = "confirm" => peer \subseteq vouched

\* A call with a deadline comes back although the operator never answers, and a
\* pairing also when the server says nothing.  A folder request does not: the
\* lifetime that "bounds the total time spent polling" (shared_folder.rs) is
\* looked at only after an answer.
TimedCallsEnd ==
  \A d \in Device :
    client[d].at # "off" /\ client[d].timed ~>
      client[d].at = "off" \/ (client[d].at = "mute" /\ client[d].folder # NoFolder)

\* A recorded folder grant is written to the database, so that the requester that
\* collects it finds the pair.  approve_folder_pair records it first: it is not
\* written if the server is restarted in between, if the device is removed (the
\* pair needs its row) or if a write fails, and it can be collected all the same.
GrantGetsWired ==
  \A r \in Device \X Folder :
    r \in folderApproved ~> r \in pairs \cup lost \/ r \notin folderApproved

\* A requester that polls collects its grant, or its call ends otherwise, unless
\* it waits for an answer that never comes; the grant may have been recorded by
\* an earlier call that broke off.
GrantCollected ==
  \A d \in Device, f \in Folder :
    client[d].folder = f /\ <<d, f>> \in folderApproved ~>
      client[d].folder # f \/ client[d].at = "mute" \/ <<d, f>> \notin folderApproved
=============================================================================
