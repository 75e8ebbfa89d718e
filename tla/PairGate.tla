------------------------------- MODULE PairGate -------------------------------
(***************************************************************************)
(* Who gets in: the pairing gate of a folder server (sync_engine/server.rs)*)
(* with the handlers that consult it (listen_for_sync in session.rs), the  *)
(* operator who answers held requests, and the device and folder-pair      *)
(* tables they share (storage/mod.rs).                                     *)
(*                                                                         *)
(* Handlers run in their own tasks, the operator in another.  The gate's   *)
(* mutex and the database's are taken and released several times within    *)
(* one request, and every such section is a step of its own.  A device     *)
(* stands for its TLS certificate, from which its id is derived.           *)
(***************************************************************************)
EXTENDS Integers, Sequences

CONSTANTS Device,     \* devices that connect to this server
          Folder,     \* guids of the folders it shares
          Policy,     \* "confirm" or "auto" (PairPolicy)
          Frontend,   \* "cli": prompts come from the event channel, in order;
                      \* "app": the channel is drained, requests are listed
          EventCap,   \* capacity of the event channel
          Errors,     \* database reads and writes may fail
          Removals,   \* the operator may remove devices
          Operator,   \* the operator's task
          NoFolder

ASSUME GateAssumption ==
  /\ Policy \in {"confirm", "auto"} /\ Frontend \in {"cli", "app"}
  /\ EventCap \in Nat \ {0}
  /\ Errors \in BOOLEAN /\ Removals \in BOOLEAN
  /\ Operator \notin Device /\ NoFolder \notin Folder

VARIABLES
  rows,            \* devices table: no row, a row without and with certificate
  pairs,           \* folder_devices table
  shared,          \* shared_folders that are discoverable and enabled
  pending, denied, \* PairGateInner, device requests
  folderPending, folderApproved, folderDenied,   \* and folder requests
  events,          \* the event channel
  task,            \* task[t]: what a handler, or the operator, is doing
  reply,           \* reply[d]: the last answer sent to d
  consented,       \* history: devices the operator approved and did not remove
  vouched,         \* history: devices that were known at some time
  allowed,         \* history: folder pairs the operator approved
  overtaken        \* history: devices removed while being stored

gate == <<pending, denied, folderPending, folderApproved, folderDenied>>
db   == <<rows, pairs, shared>>
hist == <<consented, vouched, allowed, overtaken>>
vars == <<db, gate, events, task, reply, hist>>

Request == Device \X Folder
Row     == {"none", "bare", "cert"}
Prompt  == [kind : {"device", "paired"}, dev : Device]
           \cup [kind : {"folder"}, dev : Device, folder : Folder]
Idle    == [at |-> "idle"]

\* The steps of a device request and of its approval, and of a folder request.
PairSteps   == {"gate", "notify", "store", "paired",
                "approve", "approveBare", "retain"}
FolderSteps == {"denied", "trust", "hold", "tell", "record", "row", "pair"}
Busy == [at : PairSteps, dev : Device, folder : {NoFolder}]
        \cup [at : FolderSteps, dev : Device, folder : Folder]

Reply   == {"none", "accept", "hold", "deny", "approved", "pending", "rejected"}

Thread == Device \cup {Operator}

At(t, step) == task[t].at = step
Goto(t, step) == task' = [task EXCEPT ![t].at = step]
Finish(t) == task' = [task EXCEPT ![t] = Idle]
Answer(d, r) == reply' = [reply EXCEPT ![d] = r] /\ Finish(d)
About(t) == <<task[t].dev, task[t].folder>>

\* get_device_cert and get_device_by_cert_fingerprint find a certificate.
Known(d) == rows[d] = "cert"

\* They find none; a lookup that fails counts as one that finds none.
Unfound(d) == ~ Known(d) \/ Errors

\* upsert_device: COALESCE keeps a certificate that is already stored.
\* Mutant of Upserted: every row counts as certified.
UpsertedCertified(d, cert) == [rows EXCEPT ![d] = "cert"]

Upserted(d, cert) ==
  [rows EXCEPT ![d] = IF cert \/ @ = "cert" THEN "cert" ELSE "bare"]

\* send().await on the event channel: it waits while the channel is full.
Emit(e) ==
  IF Frontend = "cli"
  THEN Len(events) < EventCap /\ events' = Append(events, e)
  ELSE UNCHANGED events

-----------------------------------------------------------------------------
Init ==
  /\ rows \in [Device -> {"none", "cert"}]
  /\ pairs = {}
  /\ shared = Folder
  /\ pending = {} /\ denied = {}
  /\ folderPending = {} /\ folderApproved = {} /\ folderDenied = {}
  /\ events = <<>>
  /\ task = [t \in Thread |-> Idle]
  /\ reply = [d \in Device |-> "none"]
  /\ consented = {d \in Device : Known(d)}
  /\ vouched = consented
  /\ allowed = {} /\ overtaken = {}

-----------------------------------------------------------------------------
(***************************************************************************)
(* A PairRequest.  admit looks the certificate up first and takes the      *)
(* gate's lock afterwards; an accepted device is answered before it is     *)
(* stored.                                                                 *)
(***************************************************************************)
PairRequest(d) ==
  /\ At(d, "idle")
  /\ \/ /\ Known(d) \/ Policy = "auto"
        /\ reply' = [reply EXCEPT ![d] = "accept"]
        /\ task' = [task EXCEPT ![d] =
             [at |-> "store", dev |-> d, folder |-> NoFolder]]
     \/ /\ Unfound(d) /\ Policy # "auto"
        /\ task' = [task EXCEPT ![d] =
             [at |-> "gate", dev |-> d, folder |-> NoFolder]]
        /\ UNCHANGED reply
  /\ UNCHANGED <<db, gate, events, hist>>

\* Mutant of Admit: the deny list is not consulted.
AdmitDenied(d) ==
  /\ At(d, "gate")
  /\ \/ d \in pending /\ Answer(d, "hold") /\ UNCHANGED pending
     \/ /\ d \notin pending
        /\ pending' = pending \cup {d}
        /\ Goto(d, "notify") /\ UNCHANGED reply
  /\ UNCHANGED <<db, denied, folderPending, folderApproved, folderDenied,
                 events, hist>>

\* Mutant of Admit: every retry is announced again.
AdmitAgain(d) ==
  /\ At(d, "gate")
  /\ \/ d \in denied /\ Answer(d, "deny") /\ UNCHANGED pending
     \/ /\ d \notin denied
        /\ pending' = pending \cup {d}
        /\ Goto(d, "notify") /\ UNCHANGED reply
  /\ UNCHANGED <<db, denied, folderPending, folderApproved, folderDenied,
                 events, hist>>

Admit(d) ==
  /\ At(d, "gate")
  /\ \/ d \in denied /\ Answer(d, "deny") /\ UNCHANGED pending
     \/ d \notin denied /\ d \in pending /\ Answer(d, "hold") /\ UNCHANGED pending
     \/ /\ d \notin denied /\ d \notin pending
        /\ pending' = pending \cup {d}
        /\ Goto(d, "notify") /\ UNCHANGED reply
  /\ UNCHANGED <<db, denied, folderPending, folderApproved, folderDenied,
                 events, hist>>

Notify(d) ==
  /\ At(d, "notify")
  /\ Emit([kind |-> "device", dev |-> d])
  /\ Answer(d, "hold")
  /\ UNCHANGED <<db, gate, hist>>

Store(d) ==
  /\ At(d, "store")
  /\ \/ /\ rows' = Upserted(d, TRUE)
        /\ vouched' = vouched \cup {d}
        /\ Goto(d, "paired")
     \/ Errors /\ UNCHANGED <<rows, vouched>> /\ Finish(d)
  /\ UNCHANGED <<pairs, shared, gate, events, reply, consented, allowed, overtaken>>

Paired(d) ==
  /\ At(d, "paired")
  /\ Emit([kind |-> "paired", dev |-> d])
  /\ Finish(d)
  /\ UNCHANGED <<db, gate, reply, hist>>

-----------------------------------------------------------------------------
(***************************************************************************)
(* A RequestFolderPair.  An earlier grant comes first, then an earlier     *)
(* denial, then trust in the device; what remains is held.  A share that   *)
(* cannot be read from the database counts as one that is not there.       *)
(***************************************************************************)
\* Mutant of FolderRequest: an earlier grant is not looked up.
FolderRequestAnew(d, f) ==
  /\ At(d, "idle")
  /\ \/ (f \notin shared \/ Errors) /\ Answer(d, "rejected")
     \/ /\ f \in shared
        /\ task' = [task EXCEPT ![d] = [at |-> "denied", dev |-> d, folder |-> f]]
        /\ UNCHANGED reply
  /\ UNCHANGED <<db, gate, events, hist>>

FolderRequest(d, f) ==
  /\ At(d, "idle")
  /\ \/ (f \notin shared \/ Errors) /\ Answer(d, "rejected")
     \/ f \in shared /\ <<d, f>> \in folderApproved /\ Answer(d, "approved")
     \/ /\ f \in shared /\ <<d, f>> \notin folderApproved
        /\ task' = [task EXCEPT ![d] = [at |-> "denied", dev |-> d, folder |-> f]]
        /\ UNCHANGED reply
  /\ UNCHANGED <<db, gate, events, hist>>

\* Mutant of CheckDenied: a denied request gets no answer.
CheckDeniedSilent(d) ==
  /\ At(d, "denied")
  /\ About(d) \notin folderDenied
  /\ Goto(d, "trust")
  /\ UNCHANGED <<db, gate, events, reply, hist>>

CheckDenied(d) ==
  /\ At(d, "denied")
  /\ IF About(d) \in folderDenied THEN Answer(d, "rejected")
                                  ELSE Goto(d, "trust") /\ UNCHANGED reply
  /\ UNCHANGED <<db, gate, events, hist>>

\* Mutant of CheckTrust: the certificate is not looked up.
TrustEveryone(d) ==
  /\ At(d, "trust")
  /\ Goto(d, "record")
  /\ UNCHANGED <<db, gate, events, reply, hist>>

CheckTrust(d) ==
  /\ At(d, "trust")
  /\ \/ Known(d) /\ Goto(d, "record")
     \/ Unfound(d) /\ Goto(d, "hold")
  /\ UNCHANGED <<db, gate, events, reply, hist>>

Hold(d) ==
  /\ At(d, "hold")
  /\ folderPending' = folderPending \cup {About(d)}
  /\ Goto(d, "tell")
  /\ UNCHANGED <<db, pending, denied, folderApproved, folderDenied, events,
                 reply, hist>>

\* Every held request is announced, a repeated one too.
Tell(d) ==
  /\ At(d, "tell")
  /\ Emit([kind |-> "folder", dev |-> d, folder |-> task[d].folder])
  /\ Answer(d, "pending")
  /\ UNCHANGED <<db, gate, hist>>

(***************************************************************************)
(* approve_folder_pair, run by a handler for a trusted device and by the   *)
(* operator: the grant is recorded first, the database written afterwards. *)
(* A pair needs its device row (a foreign key).                            *)
(***************************************************************************)
Record(t) ==
  /\ At(t, "record")
  /\ folderPending' = folderPending \ {About(t)}
  /\ folderApproved' = folderApproved \cup {About(t)}
  /\ Goto(t, "row")
  /\ UNCHANGED <<db, pending, denied, folderDenied, events, reply, hist>>

\* A failed approval: a handler queues the request again, the operator sees
\* the error.
GrantFails(t) ==
  /\ IF t = Operator
     THEN Finish(t) /\ UNCHANGED folderPending
     ELSE Goto(t, "tell") /\ folderPending' = folderPending \cup {About(t)}
  /\ UNCHANGED <<db, pending, denied, folderApproved, folderDenied, events,
                 reply, hist>>

\* Mutant of WriteRow: the pair is not written.
WriteRowOnly(t) ==
  /\ At(t, "row")
  /\ rows' = Upserted(task[t].dev, FALSE)
  /\ Finish(t)
  /\ UNCHANGED <<pairs, shared, gate, events, reply, hist>>

WriteRow(t) ==
  /\ At(t, "row")
  /\ \/ /\ rows' = Upserted(task[t].dev, FALSE)
        /\ Goto(t, "pair")
        /\ UNCHANGED <<pairs, shared, gate, events, reply, hist>>
     \/ Errors /\ GrantFails(t)

WritePair(t) ==
  /\ At(t, "pair")
  /\ \/ /\ rows[task[t].dev] # "none"
        /\ pairs' = pairs \cup {About(t)}
        /\ IF t = Operator THEN Finish(t) /\ UNCHANGED reply
                           ELSE Answer(t, "approved")
        /\ UNCHANGED <<rows, shared, gate, events, hist>>
     \/ (Errors \/ rows[task[t].dev] = "none") /\ GrantFails(t)

-----------------------------------------------------------------------------
(***************************************************************************)
(* The operator.  The command line asks about the oldest event; the app    *)
(* and the shell list what is held.                                        *)
(***************************************************************************)
IsNext(e) == events # <<>> /\ Head(events) = e

Takes(e, held) ==
  /\ At(Operator, "idle")
  /\ IF Frontend = "cli" THEN IsNext(e) /\ events' = Tail(events)
                         ELSE held /\ UNCHANGED events

AsksDevice(d) == Takes([kind |-> "device", dev |-> d], d \in pending)
AsksFolder(d, f) ==
  /\ Policy = "confirm"
  /\ Takes([kind |-> "folder", dev |-> d, folder |-> f], <<d, f>> \in folderPending)

\* approve_pairing: the certificate is read from the held request under the
\* lock, if there is one, the device is stored, and the request is dropped
\* under the lock again.
ApprovePairing(d) ==
  /\ AsksDevice(d)
  /\ task' = [task EXCEPT ![Operator] =
       [at |-> IF d \in pending THEN "approve" ELSE "approveBare",
        dev |-> d, folder |-> NoFolder]]
  /\ UNCHANGED <<db, gate, reply, hist>>

ApproveStore ==
  /\ task[Operator].at \in {"approve", "approveBare"}
  /\ LET d == task[Operator].dev
     IN \/ /\ rows' = Upserted(d, At(Operator, "approve"))
           /\ consented' = consented \cup {d}
           /\ vouched' = vouched \cup {d}
           /\ overtaken' = overtaken \ {d}
           /\ Goto(Operator, "retain")
        \/ Errors /\ Finish(Operator) /\ UNCHANGED <<rows, consented, vouched, overtaken>>
  /\ UNCHANGED <<pairs, shared, gate, events, reply, allowed>>

ApproveRetain ==
  /\ At(Operator, "retain")
  /\ pending' = pending \ {task[Operator].dev}
  /\ Finish(Operator)
  /\ UNCHANGED <<db, denied, folderPending, folderApproved, folderDenied,
                 events, reply, hist>>

DenyPairing(d) ==
  /\ AsksDevice(d)
  /\ pending' = pending \ {d}
  /\ denied' = denied \cup {d}
  /\ UNCHANGED <<db, folderPending, folderApproved, folderDenied, task, reply,
                 hist>>

ApproveFolderPairing(d, f) ==
  /\ AsksFolder(d, f)
  /\ task' = [task EXCEPT ![Operator] = [at |-> "record", dev |-> d, folder |-> f]]
  /\ allowed' = allowed \cup {<<d, f>>}
  /\ UNCHANGED <<db, gate, reply, consented, vouched, overtaken>>

DenyFolderPairing(d, f) ==
  /\ AsksFolder(d, f)
  /\ folderPending' = folderPending \ {<<d, f>>}
  /\ folderDenied' = folderDenied \cup {<<d, f>>}
  /\ UNCHANGED <<db, pending, denied, folderApproved, task, reply, hist>>

\* Events that only print a line: a finished pairing, and a folder request
\* on a server that accepts everyone.
Drain ==
  /\ events # <<>>
  /\ Head(events).kind \in {"paired"} \cup (IF Policy = "auto" THEN {"folder"} ELSE {})
  /\ events' = Tail(events)
  /\ UNCHANGED <<db, gate, task, reply, hist>>

RemoveDevice(d) ==
  /\ Removals /\ rows[d] # "none"
  /\ rows' = [rows EXCEPT ![d] = "none"]
  /\ pairs' = {r \in pairs : r[1] # d}
  /\ consented' = consented \ {d}
  /\ overtaken' = IF At(d, "store") THEN overtaken \cup {d} ELSE overtaken
  /\ UNCHANGED <<shared, gate, events, task, reply, vouched, allowed>>

SetShared(f) ==
  /\ shared' = IF f \in shared THEN shared \ {f} ELSE shared \cup {f}
  /\ UNCHANGED <<rows, pairs, gate, events, task, reply, hist>>

\* The server process ends and is started again: the gate is empty.
Restart ==
  /\ pending' = {} /\ denied' = {}
  /\ folderPending' = {} /\ folderApproved' = {} /\ folderDenied' = {}
  /\ events' = <<>>
  /\ task' = [t \in Thread |-> Idle]
  /\ UNCHANGED <<db, reply, hist>>

-----------------------------------------------------------------------------
Handler(d) ==
  \/ Admit(d) \/ Notify(d) \/ Store(d) \/ Paired(d)
  \/ CheckDenied(d) \/ CheckTrust(d) \/ Hold(d) \/ Tell(d)

Grant(t) == Record(t) \/ WriteRow(t) \/ WritePair(t)

Approving == ApproveStore \/ ApproveRetain

Next ==
  \/ \E d \in Device : \/ PairRequest(d) \/ Handler(d)
                       \/ ApprovePairing(d) \/ DenyPairing(d) \/ RemoveDevice(d)
  \/ \E t \in Thread : Grant(t)
  \/ \E d \in Device, f \in Folder :
       \/ FolderRequest(d, f)
       \/ ApproveFolderPairing(d, f) \/ DenyFolderPairing(d, f)
  \/ Approving
  \/ Drain
  \/ \E f \in Folder : SetShared(f)
  \/ Restart

Spec == Init /\ [][Next]_vars

\* Handlers and approvals under way go on, and lines are printed.
FairSpec == /\ Spec
            /\ \A d \in Device : WF_vars(Handler(d))
            /\ \A t \in Thread : WF_vars(Grant(t))
            /\ WF_vars(Approving) /\ WF_vars(Drain)

-----------------------------------------------------------------------------
\* Types of the variables.
TypeOK ==
  /\ rows \in [Device -> Row]
  /\ pairs \in SUBSET Request
  /\ shared \in SUBSET Folder
  /\ pending \in SUBSET Device /\ denied \in SUBSET Device
  /\ folderPending \in SUBSET Request /\ folderApproved \in SUBSET Request
  /\ folderDenied \in SUBSET Request
  /\ events \in Seq(Prompt)
  /\ task \in [Thread -> Busy \cup {Idle}]
  /\ reply \in [Device -> Reply]
  /\ consented \in SUBSET Device /\ vouched \in SUBSET Device
  /\ overtaken \in SUBSET Device /\ allowed \in SUBSET Request

(***************************************************************************)
(* "Unknown devices are held for operator approval before they can sync"   *)
(* (SECURITY.md): on a server that confirms, a certificate is in the       *)
(* device table only if the operator approved it and has not removed it    *)
(* since, except that a removal may be overtaken by a request of the same  *)
(* device that was accepted before.                                        *)
(***************************************************************************)
ConsentedOnly ==
  Policy = "confirm" => \A d \in Device : Known(d) => d \in consented \cup overtaken

(***************************************************************************)
(* The deny list exists "so denied devices are not re-queued while the     *)
(* client retries" (PairGateInner): no device is denied and held, however  *)
(* its retries interleave with the operator's answers.                     *)
(***************************************************************************)
DeniedNotQueued == pending \cap denied = {}

(***************************************************************************)
(* "Device pairing is the single approval gate" (README): a folder grant,  *)
(* and a stored folder pair, go back to a device that was paired or to a   *)
(* folder request the operator approved, also when a handler and the       *)
(* operator approve side by side, writes fail or devices are removed.      *)
(***************************************************************************)
GrantNeedsTrust ==
  \A r \in folderApproved \cup pairs : r \in allowed \/ r[1] \in vouched

(***************************************************************************)
(* When the operator approves, the held request with the certificate is    *)
(* still there: the device is stored with its certificate, so that "its    *)
(* next pairing attempt is accepted instantly" (approve_pairing).          *)
(***************************************************************************)
ApprovalHasCert == task[Operator].at # "approveBare"

\* Every handler answers, although it takes the two locks again and again.
RequestsAnswered == \A d \in Device : ~ At(d, "idle") ~> At(d, "idle")
=============================================================================
