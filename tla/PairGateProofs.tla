---------------------------- MODULE PairGateProofs ----------------------------
(***************************************************************************)
(* Safety of the pairing gate for any number of devices and folders, any   *)
(* capacity of the event channel, with or without failing writes and       *)
(* removals; then of the gate with its clients.                            *)
(***************************************************************************)
EXTENDS PairClient, TLAPS

USE DEF vars, gate, db, hist

TaskType == task \in [Thread -> Busy \cup {Idle}]

\* A task that is not idle stays well formed when it goes on.
LEMMA GotoType ==
  ASSUME TypeOK, NEW t \in Thread, NEW step, Goto(t, step),
         \/ task[t].at \in PairSteps /\ step \in PairSteps
         \/ task[t].at \in FolderSteps /\ step \in FolderSteps
  PROVE  TaskType'
BY DEF TypeOK, Goto, Busy, Idle, PairSteps, FolderSteps, TaskType

\* A task that ends keeps the types of all tasks.
LEMMA FinishType ==
  ASSUME TypeOK, NEW t \in Thread, Finish(t)
  PROVE  TaskType'
BY DEF TypeOK, Finish, TaskType

\* An answer is one of the protocol's, and ends the handler.
LEMMA AnswerType ==
  ASSUME TypeOK, NEW d \in Device, NEW r \in Reply, Answer(d, r)
  PROVE  TaskType' /\ reply' \in [Device -> Reply]
BY DEF TypeOK, Finish, Answer, TaskType, Thread

\* A task in one of the folder steps is about a folder request.
LEMMA AboutType ==
  ASSUME TypeOK, NEW t \in Thread, task[t].at \in FolderSteps
  PROVE  About(t) \in Request /\ task[t].dev \in Device /\ task[t].folder \in Folder
<1>1. task[t] \in Busy
  BY DEF TypeOK, Idle, FolderSteps
<1>2. task[t].at \notin PairSteps
  BY DEF PairSteps, FolderSteps
<1>3. task[t] \in [at : FolderSteps, dev : Device, folder : Folder]
  BY <1>1, <1>2 DEF Busy
<1> QED BY <1>3 DEF About, Request

\* upsert_device leaves a table of device rows.
LEMMA UpsertType ==
  ASSUME TypeOK, NEW d \in Device, NEW c \in BOOLEAN
  PROVE  Upserted(d, c) \in [Device -> Row]
BY DEF TypeOK, Upserted, Row

\* The event channel holds prompts only.
LEMMA EmitType ==
  ASSUME TypeOK, NEW e \in Prompt, Emit(e)
  PROVE  events' \in Seq(Prompt)
BY DEF TypeOK, Emit

(***************************************************************************)
(* Every step of the gate keeps the types.                                 *)
(***************************************************************************)
LEMMA TypeStep == TypeOK /\ [Next]_vars => TypeOK'
<1> SUFFICES ASSUME TypeOK, [Next]_vars PROVE TypeOK'
  OBVIOUS
<1> USE DEF At
<1>1. ASSUME NEW d \in Device, PairRequest(d) PROVE TypeOK'
  <2>1. TaskType' /\ reply' \in [Device -> Reply]
    BY <1>1 DEF PairRequest, TypeOK, TaskType, Busy, PairSteps, Thread, Reply
  <2> QED BY <1>1, <2>1 DEF PairRequest, TypeOK, TaskType
<1>2. ASSUME NEW d \in Device, Admit(d) PROVE TypeOK'
  <2>1. CASE Answer(d, "deny") \/ Answer(d, "hold")
    BY <1>2, <2>1, AnswerType DEF Admit, TypeOK, TaskType, Reply
  <2>2. CASE Goto(d, "notify") /\ UNCHANGED reply
    BY <1>2, <2>2, GotoType DEF Admit, TypeOK, TaskType, Thread, PairSteps
  <2> QED BY <1>2, <2>1, <2>2 DEF Admit
<1>3. ASSUME NEW d \in Device, Notify(d) PROVE TypeOK'
  <2>1. [kind |-> "device", dev |-> d] \in Prompt
    BY DEF Prompt
  <2> QED BY <1>3, <2>1, EmitType, AnswerType DEF Notify, TypeOK, TaskType, Reply
<1>4. ASSUME NEW d \in Device, Store(d) PROVE TypeOK'
  <2>1. TaskType'
    BY <1>4, GotoType, FinishType DEF Store, Thread, PairSteps
  <2> QED BY <1>4, <2>1, UpsertType DEF Store, TypeOK, TaskType
<1>5. ASSUME NEW d \in Device, Paired(d) PROVE TypeOK'
  <2>1. [kind |-> "paired", dev |-> d] \in Prompt
    BY DEF Prompt
  <2> QED BY <1>5, <2>1, EmitType, FinishType DEF Paired, TypeOK, TaskType, Thread
<1>6. ASSUME NEW d \in Device, NEW f \in Folder, FolderRequest(d, f) PROVE TypeOK'
  <2>1. CASE Answer(d, "rejected") \/ Answer(d, "approved")
    BY <1>6, <2>1, AnswerType DEF FolderRequest, TypeOK, TaskType, Reply
  <2>2. CASE /\ task' = [task EXCEPT ![d] = [at |-> "denied", dev |-> d, folder |-> f]]
             /\ UNCHANGED reply
    <3>1. TaskType'
      BY <2>2 DEF TypeOK, TaskType, Busy, FolderSteps, Thread
    <3> QED BY <1>6, <2>2, <3>1 DEF FolderRequest, TypeOK, TaskType
  <2> QED BY <1>6, <2>1, <2>2 DEF FolderRequest
<1>7. ASSUME NEW d \in Device, CheckDenied(d) PROVE TypeOK'
  <2>1. CASE Answer(d, "rejected")
    BY <1>7, <2>1, AnswerType DEF CheckDenied, TypeOK, TaskType, Reply
  <2>2. CASE Goto(d, "trust") /\ UNCHANGED reply
    BY <1>7, <2>2, GotoType DEF CheckDenied, TypeOK, TaskType, Thread, FolderSteps
  <2> QED BY <1>7, <2>1, <2>2 DEF CheckDenied
<1>8. ASSUME NEW d \in Device, CheckTrust(d) PROVE TypeOK'
  <2>1. Goto(d, "record") \/ Goto(d, "hold")
    BY <1>8 DEF CheckTrust
  <2> QED BY <1>8, <2>1, GotoType DEF CheckTrust, TypeOK, TaskType, Thread, FolderSteps
<1>9. ASSUME NEW d \in Device, Hold(d) PROVE TypeOK'
  <2>1. TaskType' /\ About(d) \in Request
    BY <1>9, GotoType, AboutType DEF Hold, Thread, FolderSteps
  <2> QED BY <1>9, <2>1 DEF Hold, TypeOK, TaskType
<1>10. ASSUME NEW d \in Device, Tell(d) PROVE TypeOK'
  <2>1. [kind |-> "folder", dev |-> d, folder |-> task[d].folder] \in Prompt
    BY <1>10, AboutType DEF Tell, Prompt, Thread, FolderSteps
  <2> QED BY <1>10, <2>1, EmitType, AnswerType DEF Tell, TypeOK, TaskType, Reply
<1>11. ASSUME NEW t \in Thread, Record(t) PROVE TypeOK'
  <2>1. TaskType' /\ About(t) \in Request
    BY <1>11, GotoType, AboutType DEF Record, FolderSteps
  <2> QED BY <1>11, <2>1 DEF Record, TypeOK, TaskType
<1>12. ASSUME NEW t \in Thread, task[t].at \in {"row", "pair"}, GrantFails(t)
       PROVE  TypeOK'
  <2>1. TaskType' /\ About(t) \in Request
    BY <1>12, GotoType, FinishType, AboutType DEF GrantFails, FolderSteps
  <2> QED BY <1>12, <2>1 DEF GrantFails, TypeOK, TaskType
<1>13. ASSUME NEW t \in Thread, WriteRow(t) PROVE TypeOK'
  <2>1. CASE GrantFails(t)
    BY <1>12, <1>13, <2>1 DEF WriteRow
  <2>2. CASE rows' = Upserted(task[t].dev, FALSE) /\ Goto(t, "pair")
             /\ UNCHANGED <<pairs, shared, gate, events, reply, hist>>
    <3>1. TaskType' /\ task[t].dev \in Device
      BY <1>13, <2>2, GotoType, AboutType DEF WriteRow, FolderSteps
    <3> QED BY <2>2, <3>1, UpsertType DEF TypeOK, TaskType
  <2> QED BY <1>13, <2>1, <2>2 DEF WriteRow
<1>14. ASSUME NEW t \in Thread, WritePair(t) PROVE TypeOK'
  <2>1. CASE GrantFails(t)
    BY <1>12, <1>14, <2>1 DEF WritePair
  <2>2. CASE /\ pairs' = pairs \cup {About(t)}
             /\ IF t = Operator THEN Finish(t) /\ UNCHANGED reply
                                ELSE Answer(t, "approved")
             /\ UNCHANGED <<rows, shared, gate, events, hist>>
    <3>1. About(t) \in Request
      BY <1>14, AboutType DEF WritePair, FolderSteps
    <3>2. TaskType' /\ reply' \in [Device -> Reply]
      <4>1. CASE t = Operator
        BY <2>2, <4>1, FinishType DEF TypeOK
      <4>2. CASE t # Operator
        BY <2>2, <4>2, AnswerType DEF Thread, Reply
      <4> QED BY <4>1, <4>2
    <3> QED BY <2>2, <3>1, <3>2 DEF TypeOK, TaskType
  <2> QED BY <1>14, <2>1, <2>2 DEF WritePair
<1>15. ASSUME NEW e, NEW held, Takes(e, held) PROVE events' \in Seq(Prompt)
  <2>1. events \in Seq(Prompt)
    BY DEF TypeOK
  <2>2. events' = events \/ (events # <<>> /\ events' = Tail(events))
    BY <1>15 DEF Takes, IsNext
  <2> QED BY <2>1, <2>2
<1>16. ASSUME NEW d \in Device, ApprovePairing(d) PROVE TypeOK'
  <2>1. TaskType'
    BY <1>16 DEF ApprovePairing, TypeOK, TaskType, Busy, PairSteps, Thread
  <2> QED BY <1>15, <1>16, <2>1 DEF ApprovePairing, AsksDevice, TypeOK, TaskType
<1>17. ASSUME ApproveStore PROVE TypeOK'
  <2>1. task[Operator].dev \in Device
    BY <1>17 DEF ApproveStore, TypeOK, Busy, Idle, Thread
  <2>2. TaskType'
    BY <1>17, GotoType, FinishType DEF ApproveStore, Thread, PairSteps
  <2> QED BY <1>17, <2>1, <2>2, UpsertType DEF ApproveStore, TypeOK, TaskType
<1>18. ASSUME ApproveRetain PROVE TypeOK'
  BY <1>18, FinishType DEF ApproveRetain, TypeOK, TaskType, Thread
<1>19. ASSUME NEW d \in Device, DenyPairing(d) PROVE TypeOK'
  BY <1>15, <1>19 DEF DenyPairing, AsksDevice, TypeOK
<1>20. ASSUME NEW d \in Device, NEW f \in Folder, ApproveFolderPairing(d, f)
       PROVE  TypeOK'
  <2>1. TaskType'
    BY <1>20 DEF ApproveFolderPairing, TypeOK, TaskType, Busy, FolderSteps, Thread
  <2> QED BY <1>15, <1>20, <2>1
          DEF ApproveFolderPairing, AsksFolder, TypeOK, TaskType, Request
<1>21. ASSUME NEW d \in Device, NEW f \in Folder, DenyFolderPairing(d, f)
       PROVE  TypeOK'
  BY <1>15, <1>21 DEF DenyFolderPairing, AsksFolder, TypeOK, Request
<1>22. CASE Drain
  BY <1>22 DEF Drain, TypeOK
<1>23. ASSUME NEW d \in Device, RemoveDevice(d) PROVE TypeOK'
  BY <1>23 DEF RemoveDevice, TypeOK, Row
<1>24. ASSUME NEW f \in Folder, SetShared(f) PROVE TypeOK'
  BY <1>24 DEF SetShared, TypeOK
<1>25. CASE Restart
  BY <1>25 DEF Restart, TypeOK
<1>26. CASE UNCHANGED vars
  BY <1>26 DEF TypeOK
<1> QED
  BY <1>1, <1>2, <1>3, <1>4, <1>5, <1>6, <1>7, <1>8, <1>9, <1>10, <1>11, <1>13,
     <1>14, <1>16, <1>17, <1>18, <1>19, <1>20, <1>21, <1>22, <1>23, <1>24,
     <1>25, <1>26
  DEF Next, Handler, Grant, Approving

(***************************************************************************)
(* The variables keep their types.                                         *)
(***************************************************************************)
THEOREM TypeCorrect == Spec => []TypeOK
<1>1. Init => TypeOK
  BY DEF Init, TypeOK, Row, Known, Reply
<1> QED BY <1>1, TypeStep, PTL DEF Spec

-----------------------------------------------------------------------------
(***************************************************************************)
(* Consent.  What ConsentedOnly leaves open between two steps: a handler   *)
(* that has accepted a device and not stored it yet stands for a device    *)
(* the operator had approved when the handler looked.                      *)
(***************************************************************************)
ConsentInv ==
  Policy = "confirm" =>
    \A d \in Device : Known(d) \/ At(d, "store") => d \in consented \cup overtaken

\* upsert_device makes a device known only when it brings a certificate.
LEMMA UpsertKnown ==
  ASSUME TypeOK, NEW d \in Device, NEW c \in BOOLEAN, rows' = Upserted(d, c),
         NEW e \in Device, Known(e)'
  PROVE  Known(e) \/ (c /\ e = d)
BY DEF TypeOK, Upserted, Known, Row

\* A step of one task leaves the others where they are.
LEMMA OthersStay ==
  ASSUME TypeOK, NEW t \in Thread, NEW step, Goto(t, step) \/ Finish(t),
         NEW u \in Thread, u # t
  PROVE  task'[u] = task[u]
BY DEF TypeOK, Goto, Finish

\* A task that goes on is where it goes, about what it was about.
LEMMA GotoAt ==
  ASSUME TypeOK, NEW t \in Thread, NEW step, Goto(t, step), task[t].at # "idle"
  PROVE  task'[t].at = step /\ task'[t].dev = task[t].dev
         /\ task'[t].folder = task[t].folder
BY DEF TypeOK, Goto, Busy, Idle

\* A task that ends is idle.
LEMMA FinishAt ==
  ASSUME TypeOK, NEW t \in Thread, Finish(t)
  PROVE  task'[t].at = "idle"
BY DEF TypeOK, Finish, Idle

\* Every step keeps the consent invariant.
LEMMA ConsentStep == TypeOK /\ ConsentInv /\ [Next]_vars => ConsentInv'
<1> SUFFICES ASSUME TypeOK, ConsentInv, [Next]_vars, Policy = "confirm",
                    NEW e \in Device, Known(e)' \/ At(e, "store")'
             PROVE  e \in consented' \cup overtaken'
  BY DEF ConsentInv
<1>0. Known(e) \/ At(e, "store") => e \in consented \cup overtaken
  BY DEF ConsentInv
\* Most steps neither store a device nor accept one.
<1>a. ASSUME UNCHANGED <<consented, overtaken>>,
             Known(e)' => Known(e), At(e, "store")' => At(e, "store") \/ Known(e)
      PROVE  e \in consented' \cup overtaken'
  BY <1>0, <1>a
<1>b. ASSUME NEW t \in Thread, task[t].at # "idle",
             \/ Finish(t)
             \/ \E step \in (PairSteps \cup FolderSteps) \ {"store"} : Goto(t, step)
      PROVE  At(e, "store")' => At(e, "store")
  <2>1. CASE e = t
    BY <1>b, <2>1, GotoAt, FinishAt DEF At
  <2>2. CASE e # t
    BY <1>b, <2>2, OthersStay DEF At, Thread
  <2> QED BY <2>1, <2>2
<1>1. ASSUME NEW d \in Device, PairRequest(d) PROVE e \in consented' \cup overtaken'
  <2>1. At(e, "store")' => At(e, "store") \/ Known(e)
    BY <1>1 DEF PairRequest, At, TypeOK, Thread
  <2> QED BY <1>1, <1>a, <2>1 DEF PairRequest, Known
<1>2. ASSUME NEW d \in Device, Handler(d), ~ Store(d)
      PROVE  e \in consented' \cup overtaken'
  <2>1. rows' = rows /\ UNCHANGED <<consented, overtaken>>
    BY <1>2 DEF Handler, Admit, Notify, Paired, CheckDenied, CheckTrust, Hold, Tell
  <2>2. At(e, "store")' => At(e, "store")
    <3>1. task[d].at # "idle" /\ d \in Thread
      BY <1>2 DEF Handler, Admit, Notify, Paired, CheckDenied, CheckTrust, Hold,
                  Tell, At, Thread
    <3>2. \/ Finish(d)
          \/ \E step \in {"notify", "trust", "record", "hold", "tell"} : Goto(d, step)
      BY <1>2 DEF Handler, Admit, Notify, Paired, CheckDenied, CheckTrust, Hold,
                  Tell, Answer
    <3> QED BY <1>b, <3>1, <3>2 DEF PairSteps, FolderSteps
  <2> QED BY <1>a, <2>1, <2>2 DEF Known
<1>3. ASSUME NEW d \in Device, Store(d) PROVE e \in consented' \cup overtaken'
  <2>1. UNCHANGED <<consented, overtaken>>
    BY <1>3 DEF Store
  <2>2. Known(e)' => Known(e) \/ e = d
    BY <1>3, UpsertKnown DEF Store, Known
  <2>3. At(e, "store")' => At(e, "store")
    BY <1>3, <1>b DEF Store, At, Thread, PairSteps
  <2>4. At(d, "store")
    BY <1>3 DEF Store
  <2> QED BY <1>0, <2>1, <2>2, <2>3, <2>4
<1>4. ASSUME NEW t \in Thread, Grant(t) PROVE e \in consented' \cup overtaken'
  <2>1. UNCHANGED <<consented, overtaken>>
    BY <1>4 DEF Grant, Record, WriteRow, WritePair, GrantFails
  <2>2. Known(e)' => Known(e)
    <3>1. CASE rows' = Upserted(task[t].dev, FALSE) /\ At(t, "row")
      BY <3>1, UpsertKnown, AboutType DEF At, FolderSteps
    <3>2. CASE rows' = rows
      BY <3>2 DEF Known
    <3> QED BY <1>4, <3>1, <3>2 DEF Grant, Record, WriteRow, WritePair, GrantFails
  <2>3. At(e, "store")' => At(e, "store")
    BY <1>4, <1>b DEF Grant, Record, WriteRow, WritePair, GrantFails, Answer, At,
                      FolderSteps
  <2> QED BY <1>a, <2>1, <2>2, <2>3
<1>5. ASSUME NEW d \in Device, ApprovePairing(d) PROVE e \in consented' \cup overtaken'
  <2>1. At(e, "store")' => At(e, "store")
    BY <1>5, GateAssumption DEF ApprovePairing, At, TypeOK, Thread
  <2> QED BY <1>5, <1>a, <2>1 DEF ApprovePairing, Known
<1>6. ASSUME ApproveStore PROVE e \in consented' \cup overtaken'
  <2>1. task[Operator].dev \in Device
    BY <1>6 DEF ApproveStore, TypeOK, Busy, Idle, Thread
  <2>2. At(e, "store")' => At(e, "store")
    BY <1>6, <1>b DEF ApproveStore, Thread, PairSteps
  <2>3. Known(e)' => Known(e) \/ (e = task[Operator].dev /\ e \in consented')
    BY <1>6, <2>1, UpsertKnown DEF ApproveStore, Known, At
  <2>4. e \in consented \cup overtaken => e \in consented' \cup overtaken'
    BY <1>6 DEF ApproveStore
  <2> QED BY <1>0, <2>2, <2>3, <2>4
<1>7. ASSUME ApproveRetain PROVE e \in consented' \cup overtaken'
  <2>1. At(e, "store")' => At(e, "store")
    BY <1>7, <1>b DEF ApproveRetain, At, Thread
  <2> QED BY <1>7, <1>a, <2>1 DEF ApproveRetain, Known
<1>8. ASSUME NEW d \in Device, NEW f \in Folder, FolderRequest(d, f)
      PROVE  e \in consented' \cup overtaken'
  <2>1. At(e, "store")' => At(e, "store")
    BY <1>8 DEF FolderRequest, At, Answer, Finish, Idle, TypeOK, Thread
  <2> QED BY <1>8, <1>a, <2>1 DEF FolderRequest, Known
<1>9. ASSUME NEW d \in Device, NEW f \in Folder, ApproveFolderPairing(d, f)
      PROVE  e \in consented' \cup overtaken'
  <2>1. At(e, "store")' => At(e, "store")
    BY <1>9, GateAssumption DEF ApproveFolderPairing, At, TypeOK, Thread
  <2> QED BY <1>9, <1>a, <2>1 DEF ApproveFolderPairing, Known
<1>10. ASSUME NEW d \in Device, RemoveDevice(d) PROVE e \in consented' \cup overtaken'
  <2>1. At(e, "store")' => At(e, "store")
    BY <1>10 DEF RemoveDevice, At
  <2>2. CASE e = d
    BY <1>10, <2>1, <2>2 DEF RemoveDevice, Known, At, TypeOK
  <2>3. CASE e # d
    BY <1>0, <1>10, <2>1, <2>3 DEF RemoveDevice, Known, TypeOK
  <2> QED BY <2>2, <2>3
<1>11. CASE Restart
  <2>1. ~ At(e, "store")'
    BY <1>11 DEF Restart, At, Idle, Thread
  <2> QED BY <1>11, <1>a, <2>1 DEF Restart, Known
<1>12. CASE \/ UNCHANGED vars \/ Drain \/ \E f \in Folder : SetShared(f)
            \/ \E d \in Device : DenyPairing(d)
            \/ \E d \in Device, f \in Folder : DenyFolderPairing(d, f)
  BY <1>12, <1>a DEF Drain, SetShared, DenyPairing, DenyFolderPairing, Known, At
<1> QED
  BY <1>1, <1>2, <1>3, <1>4, <1>5, <1>6, <1>7, <1>8, <1>9, <1>10, <1>11, <1>12
  DEF Next, Approving

(***************************************************************************)
(* A confirming server knows only certificates the operator approved, in   *)
(* every interleaving of handlers, operator, failures and restarts.        *)
(***************************************************************************)
THEOREM Consent == Spec => []ConsentedOnly
<1>1. Init => ConsentInv
  BY DEF Init, ConsentInv, Known, At, Idle, Thread
<1>2. ConsentInv => ConsentedOnly
  BY DEF ConsentInv, ConsentedOnly
<1> QED BY <1>1, <1>2, TypeCorrect, ConsentStep, PTL DEF Spec

-----------------------------------------------------------------------------
(***************************************************************************)
(* No device is denied and held: admit checks the deny list and queues the *)
(* request under one lock, deny_pairing moves it under one lock.           *)
(***************************************************************************)
THEOREM DeniedStayOut == Spec => []DeniedNotQueued
<1>1. Init => DeniedNotQueued
  BY DEF Init, DeniedNotQueued
<1>2. DeniedNotQueued /\ [Next]_vars => DeniedNotQueued'
  <2> SUFFICES ASSUME DeniedNotQueued, [Next]_vars PROVE DeniedNotQueued'
    OBVIOUS
  <2>1. ASSUME NEW d \in Device, Admit(d) PROVE DeniedNotQueued'
    BY <2>1 DEF Admit, DeniedNotQueued
  <2>2. ASSUME NEW d \in Device, DenyPairing(d) PROVE DeniedNotQueued'
    BY <2>2 DEF DenyPairing, DeniedNotQueued
  <2>3. CASE ApproveRetain \/ Restart
    BY <2>3 DEF ApproveRetain, Restart, DeniedNotQueued
  <2>4. CASE UNCHANGED <<pending, denied>>
    BY <2>4 DEF DeniedNotQueued
  <2>5. ASSUME NEW d \in Device, Handler(d), ~ Admit(d) PROVE UNCHANGED <<pending, denied>>
    BY <2>5 DEF Handler, Notify, Store, Paired, CheckDenied, CheckTrust, Hold, Tell
  <2>6. ASSUME NEW t \in Thread, Grant(t) PROVE UNCHANGED <<pending, denied>>
    BY <2>6 DEF Grant, Record, WriteRow, WritePair, GrantFails
  <2> QED
    BY <2>1, <2>2, <2>3, <2>4, <2>5, <2>6
    DEF Next, PairRequest, ApprovePairing, RemoveDevice, FolderRequest,
        ApproveFolderPairing, DenyFolderPairing, Approving, ApproveStore, Drain,
        SetShared
<1> QED BY <1>1, <1>2, PTL DEF Spec

-----------------------------------------------------------------------------
(***************************************************************************)
(* Grants.  A grant is recorded two steps after the trust check and wired  *)
(* two steps later still, so the invariant follows the request through the *)
(* task that carries it.                                                   *)
(***************************************************************************)
Backed(r) == r \in allowed \/ r[1] \in vouched

Granting(t) == task[t].at \in {"record", "row", "pair"}

TrustInv ==
  /\ \A d \in Device : Known(d) => d \in vouched
  /\ \A d \in Device : task[d].at \in FolderSteps => task[d].dev = d
  /\ \A t \in Thread : Granting(t) => Backed(About(t))
  /\ \A r \in folderApproved \cup pairs : Backed(r)

\* What is backed stays backed: both histories only grow.
LEMMA BackedStays ==
  ASSUME [Next]_vars PROVE allowed \subseteq allowed' /\ vouched \subseteq vouched'
<1>1. ASSUME NEW d \in Device, Handler(d)
      PROVE  allowed \subseteq allowed' /\ vouched \subseteq vouched'
  BY <1>1 DEF Handler, Admit, Notify, Store, Paired, CheckDenied, CheckTrust, Hold, Tell
<1>2. ASSUME NEW t \in Thread, Grant(t)
      PROVE  allowed \subseteq allowed' /\ vouched \subseteq vouched'
  BY <1>2 DEF Grant, Record, WriteRow, WritePair, GrantFails
<1> QED
  BY <1>1, <1>2
  DEF Next, PairRequest, ApprovePairing, DenyPairing, RemoveDevice, FolderRequest,
      ApproveFolderPairing, DenyFolderPairing, Approving, ApproveStore,
      ApproveRetain, Drain, SetShared, Restart

\* A step of task t that ends it, moves it on, or gives it a backed request.
LEMMA TaskStep ==
  ASSUME TypeOK, TrustInv, [Next]_vars, NEW t \in Thread,
         \A u \in Thread : u # t => task'[u] = task[u],
         t \in Device /\ task'[t].at \in FolderSteps => task'[t].dev = t,
         Granting(t)' => Backed(About(t))'
  PROVE  /\ \A d \in Device : task'[d].at \in FolderSteps => task'[d].dev = d
         /\ \A u \in Thread : Granting(u)' => Backed(About(u))'
BY BackedStays DEF TrustInv, Granting, Backed, About, Thread

\* Every step keeps the trust invariant.
LEMMA TrustStep == TypeOK /\ TrustInv /\ [Next]_vars => TrustInv'
<1> SUFFICES ASSUME TypeOK, TrustInv, [Next]_vars PROVE TrustInv'
  OBVIOUS
<1> DEFINE Tasks == /\ \A d \in Device : task'[d].at \in FolderSteps => task'[d].dev = d
                    /\ \A u \in Thread : Granting(u)' => Backed(About(u))'
\* The conjuncts about rows and about grants, where they are not disturbed.
<1>a. ASSUME rows' = rows PROVE \A d \in Device : Known(d)' => d \in vouched'
  BY <1>a, BackedStays DEF TrustInv, Known
<1>b. ASSUME UNCHANGED <<folderApproved, pairs>>
      PROVE  \A r \in folderApproved' \cup pairs' : Backed(r)'
  BY <1>b, BackedStays DEF TrustInv, Backed
<1>c. ASSUME task' = task PROVE Tasks
  BY <1>c, BackedStays DEF TrustInv, Granting, Backed, About
<1>d. ASSUME NEW t \in Thread, Finish(t) PROVE Tasks
  <2>1. \A u \in Thread : u # t => task'[u] = task[u]
    BY <1>d, OthersStay
  <2>2. task'[t].at \notin FolderSteps
    BY <1>d, FinishAt DEF FolderSteps
  <2> QED BY <2>1, <2>2, TaskStep DEF Granting, FolderSteps
<1>e. ASSUME NEW t \in Thread, NEW step, Goto(t, step), task[t].at # "idle",
             step \in FolderSteps => task[t].at \in FolderSteps,
             step \in {"record", "row", "pair"} => Backed(About(t))
      PROVE  Tasks
  <2>1. \A u \in Thread : u # t => task'[u] = task[u]
    BY <1>e, OthersStay
  <2>2. task'[t].at = step /\ task'[t].dev = task[t].dev /\ About(t)' = About(t)
    BY <1>e, GotoAt DEF About
  <2>3. t \in Device /\ task'[t].at \in FolderSteps => task'[t].dev = t
    BY <1>e, <2>2 DEF TrustInv
  <2>4. Granting(t)' => Backed(About(t))'
    BY <1>e, <2>2, BackedStays DEF Granting, Backed
  <2> QED BY <2>1, <2>3, <2>4, TaskStep
<1>1. ASSUME NEW d \in Device, PairRequest(d) PROVE TrustInv'
  <2>1. /\ \A u \in Thread : u # d => task'[u] = task[u]
        /\ task'[d].at \in {"gate", "store"}
    BY <1>1 DEF PairRequest, TypeOK, Thread
  <2>2. Tasks
    BY <2>1, TaskStep DEF Granting, FolderSteps, Thread
  <2> QED BY <1>1, <1>a, <1>b, <2>2 DEF PairRequest, TrustInv
<1>2. ASSUME NEW d \in Device, Store(d) PROVE TrustInv'
  <2>1. Tasks
    BY <1>2, <1>d, <1>e DEF Store, At, Thread, FolderSteps
  <2>2. \A e \in Device : Known(e)' => e \in vouched'
    BY <1>2, <1>a, UpsertKnown DEF Store, TrustInv
  <2> QED BY <1>2, <1>b, <2>1, <2>2 DEF Store, TrustInv
<1>3. ASSUME NEW d \in Device, Handler(d), ~ Store(d) PROVE TrustInv'
  <2>1. UNCHANGED <<rows, folderApproved, pairs>>
    BY <1>3 DEF Handler, Admit, Notify, Paired, CheckDenied, CheckTrust, Hold, Tell
  <2>2. Tasks
    <3>1. CASE Finish(d)
      BY <1>d, <3>1 DEF Thread
    <3>2. CASE task[d].at = "gate" /\ Goto(d, "notify")
      BY <1>e, <3>2 DEF Thread, FolderSteps
    <3>3. CASE \/ task[d].at = "denied" /\ Goto(d, "trust")
               \/ task[d].at = "trust" /\ Goto(d, "hold")
               \/ task[d].at = "hold" /\ Goto(d, "tell")
      BY <1>e, <3>3 DEF Thread, FolderSteps
    <3>4. CASE task[d].at = "trust" /\ Goto(d, "record") /\ Known(d)
      <4>1. Backed(About(d))
        BY <3>4 DEF TrustInv, Backed, About, FolderSteps
      <4> QED BY <1>e, <3>4, <4>1 DEF Thread, FolderSteps
    <3> QED BY <1>3, <3>1, <3>2, <3>3, <3>4
            DEF Handler, Admit, Notify, Paired, CheckDenied, CheckTrust, Hold, Tell,
                Answer, At
  <2> QED BY <1>a, <1>b, <2>1, <2>2 DEF TrustInv
<1>4. ASSUME NEW d \in Device, NEW f \in Folder, FolderRequest(d, f) PROVE TrustInv'
  <2>1. CASE Finish(d)
    BY <1>4, <1>a, <1>b, <1>d, <2>1 DEF FolderRequest, TrustInv, Thread
  <2>2. CASE task' = [task EXCEPT ![d] = [at |-> "denied", dev |-> d, folder |-> f]]
    <3>1. /\ \A u \in Thread : u # d => task'[u] = task[u]
          /\ task'[d].at = "denied" /\ task'[d].dev = d
      BY <2>2 DEF TypeOK, Thread
    <3>2. Tasks
      BY <3>1, TaskStep DEF Granting, Thread
    <3> QED BY <1>4, <1>a, <1>b, <3>2 DEF FolderRequest, TrustInv
  <2> QED BY <1>4, <2>1, <2>2 DEF FolderRequest, Answer
<1>5. ASSUME NEW t \in Thread, Grant(t) PROVE TrustInv'
  <2>1. Granting(t) /\ Backed(About(t))
    BY <1>5 DEF Grant, Record, WriteRow, WritePair, At, Granting, TrustInv
  <2>2. \A r \in folderApproved' \cup pairs' : Backed(r)'
    <3>1. \A r \in folderApproved' \cup pairs' :
            r \in folderApproved \cup pairs \cup {About(t)}
      BY <1>5 DEF Grant, Record, WriteRow, WritePair, GrantFails
    <3> QED BY <2>1, <3>1, BackedStays DEF TrustInv, Backed
  <2>3. Tasks
    <3>1. CASE Finish(t)
      BY <1>d, <3>1
    <3>2. CASE \E step \in {"row", "pair", "tell"} : Goto(t, step)
      BY <1>e, <2>1, <3>2 DEF Granting, FolderSteps
    <3> QED BY <1>5, <3>1, <3>2
            DEF Grant, Record, WriteRow, WritePair, GrantFails, Answer
  <2>4. \A d \in Device : Known(d)' => d \in vouched'
    <3>1. CASE rows' = rows
      BY <1>a, <3>1
    <3>2. CASE At(t, "row") /\ rows' = Upserted(task[t].dev, FALSE)
      BY <3>2, AboutType, UpsertKnown, BackedStays DEF At, FolderSteps, TrustInv
    <3> QED BY <1>5, <3>1, <3>2 DEF Grant, Record, WriteRow, WritePair, GrantFails
  <2> QED BY <2>2, <2>3, <2>4 DEF TrustInv
<1>6. ASSUME NEW d \in Device, ApprovePairing(d) PROVE TrustInv'
  <2>1. /\ \A u \in Thread : u # Operator => task'[u] = task[u]
        /\ task'[Operator].at \in {"approve", "approveBare"}
    BY <1>6 DEF ApprovePairing, TypeOK, Thread
  <2>2. Tasks
    BY <2>1, TaskStep, GateAssumption DEF Granting, Thread
  <2> QED BY <1>6, <1>a, <1>b, <2>2 DEF ApprovePairing, TrustInv
<1>7. CASE ApproveStore
  <2>1. task[Operator].dev \in Device
    BY <1>7 DEF ApproveStore, TypeOK, Busy, Idle, Thread
  <2>2. Tasks
    BY <1>7, <1>d, <1>e DEF ApproveStore, Thread, FolderSteps
  <2>3. \A d \in Device : Known(d)' => d \in vouched'
    BY <1>7, <1>a, <2>1, UpsertKnown DEF ApproveStore, TrustInv, At
  <2> QED BY <1>7, <1>b, <2>2, <2>3 DEF ApproveStore, TrustInv
<1>8. CASE ApproveRetain
  BY <1>8, <1>a, <1>b, <1>d DEF ApproveRetain, TrustInv, Thread
<1>9. ASSUME NEW d \in Device, NEW f \in Folder, ApproveFolderPairing(d, f)
      PROVE  TrustInv'
  <2>1. /\ \A u \in Thread : u # Operator => task'[u] = task[u]
        /\ About(Operator)' = <<d, f>>
    BY <1>9 DEF ApproveFolderPairing, TypeOK, Thread, About
  <2>2. Backed(About(Operator))'
    BY <1>9, <2>1 DEF ApproveFolderPairing, Backed
  <2>3. Tasks
    BY <2>1, <2>2, TaskStep, GateAssumption DEF Thread
  <2> QED BY <1>9, <1>a, <1>b, <2>3 DEF ApproveFolderPairing, TrustInv
<1>10. ASSUME NEW d \in Device, RemoveDevice(d) PROVE TrustInv'
  <2>1. \A e \in Device : Known(e)' => e \in vouched'
    BY <1>10, BackedStays DEF RemoveDevice, TrustInv, Known, TypeOK
  <2>2. \A r \in folderApproved' \cup pairs' : Backed(r)'
    BY <1>10, BackedStays DEF RemoveDevice, TrustInv, Backed
  <2> QED BY <1>10, <1>c, <2>1, <2>2 DEF RemoveDevice, TrustInv
<1>11. CASE Restart
  <2>1. \A t \in Thread : task'[t].at = "idle"
    BY <1>11 DEF Restart, Idle
  <2>2. \A r \in folderApproved' \cup pairs' : Backed(r)'
    BY <1>11, BackedStays DEF Restart, TrustInv, Backed
  <2> QED BY <1>11, <1>a, <2>1, <2>2 DEF Restart, TrustInv, Granting, FolderSteps, Thread
<1>12. CASE \/ UNCHANGED vars \/ Drain \/ \E f \in Folder : SetShared(f)
            \/ \E d \in Device : DenyPairing(d)
            \/ \E d \in Device, f \in Folder : DenyFolderPairing(d, f)
  <2>1. UNCHANGED <<rows, pairs, folderApproved, task>>
    BY <1>12 DEF Drain, SetShared, DenyPairing, DenyFolderPairing
  <2> QED BY <1>a, <1>b, <1>c, <2>1 DEF TrustInv
<1> QED
  BY <1>1, <1>2, <1>3, <1>4, <1>5, <1>6, <1>7, <1>8, <1>9, <1>10, <1>11, <1>12
  DEF Next, Approving

(***************************************************************************)
(* Every folder grant and every stored pair goes back to a paired device   *)
(* or to the operator's approval of that very request.                     *)
(***************************************************************************)
THEOREM GrantsTrusted == Spec => []GrantNeedsTrust
<1>1. Init => TrustInv
  BY DEF Init, TrustInv, Known, Granting, Idle, Thread, FolderSteps
<1>2. TrustInv => GrantNeedsTrust
  BY DEF TrustInv, Backed, GrantNeedsTrust
<1> QED BY <1>1, <1>2, TypeCorrect, TrustStep, PTL DEF Spec

-----------------------------------------------------------------------------
(***************************************************************************)
(* Approvals.  The command line answers an event, not a held request, so   *)
(* the request it stands for has to be held still.  It is, because a held  *)
(* request is announced once: the handler about to announce it, the event  *)
(* in the channel and the operator deciding on it exclude one another, and *)
(* each of them means that the request is held.                            *)
(***************************************************************************)
DevicePrompt(d) == [kind |-> "device", dev |-> d]

Prompted(d) == \E i \in 1..Len(events) : events[i] = DevicePrompt(d)

Deciding(d) == task[Operator].at \in {"approve", "retain"} /\ task[Operator].dev = d

\* No device is announced twice in the channel.
AnnouncedOnce ==
  \A i, j \in 1..Len(events) : events[i].kind = "device" /\ events[i] = events[j] => i = j

OnePrompt(d) ==
  /\ Deciding(d) \/ Prompted(d) \/ At(d, "notify") => d \in pending
  /\ At(d, "notify") => ~ Prompted(d)
  /\ Deciding(d) => ~ Prompted(d) /\ ~ At(d, "notify")

PromptInv ==
  /\ ApprovalHasCert
  /\ Frontend = "cli" => AnnouncedOnce /\ \A d \in Device : OnePrompt(d)

\* What an event other than a device request does to the channel's prompts,
\* and what taking the oldest event does.
LEMMA ChannelStep ==
  ASSUME TypeOK, AnnouncedOnce,
         \/ events' = events
         \/ \E e \in Prompt : e.kind # "device" /\ events' = Append(events, e)
         \/ events # <<>> /\ events' = Tail(events)
  PROVE  AnnouncedOnce' /\ \A d \in Device : Prompted(d)' => Prompted(d)
<1>0. events \in Seq(Prompt)
  BY DEF TypeOK
<1>1. CASE events' = events
  BY <1>1 DEF AnnouncedOnce, Prompted
<1>2. CASE \E e \in Prompt : e.kind # "device" /\ events' = Append(events, e)
  <2>1. PICK e \in Prompt : e.kind # "device" /\ events' = Append(events, e)
    BY <1>2
  <2>2. /\ Len(events') = Len(events) + 1 /\ Len(events) \in Nat
        /\ \A i \in 1..Len(events) : events'[i] = events[i]
        /\ events'[Len(events) + 1] = e
    BY <1>0, <2>1
  <2>3. AnnouncedOnce'
    BY <2>1, <2>2 DEF AnnouncedOnce
  <2>4. ASSUME NEW d \in Device, Prompted(d)' PROVE Prompted(d)
    <3>1. PICK i \in 1..Len(events') : events'[i] = DevicePrompt(d)
      BY <2>4 DEF Prompted, DevicePrompt
    <3>2. i # Len(events) + 1
      BY <2>1, <2>2, <3>1 DEF DevicePrompt
    <3> QED BY <2>2, <3>1, <3>2 DEF Prompted
  <2> QED BY <2>3, <2>4
<1>3. CASE events # <<>> /\ events' = Tail(events)
  <2>1. /\ Len(events') = Len(events) - 1 /\ Len(events) \in Nat
        /\ \A i \in 1..Len(events') : events'[i] = events[i + 1]
    BY <1>0, <1>3
  <2>2. AnnouncedOnce'
    <3> SUFFICES ASSUME NEW i \in 1..Len(events'), NEW j \in 1..Len(events'),
                        events'[i].kind = "device", events'[i] = events'[j]
                 PROVE  i = j
      BY DEF AnnouncedOnce
    <3>1. i + 1 \in 1..Len(events) /\ j + 1 \in 1..Len(events)
      BY <2>1
    <3>2. i + 1 = j + 1
      BY <2>1, <3>1 DEF AnnouncedOnce
    <3> QED BY <3>2
  <2>3. ASSUME NEW d \in Device, Prompted(d)' PROVE Prompted(d)
    <3>1. PICK i \in 1..Len(events') : events'[i] = DevicePrompt(d)
      BY <2>3 DEF Prompted, DevicePrompt
    <3>2. i + 1 \in 1..Len(events) /\ events[i + 1] = DevicePrompt(d)
      BY <2>1, <3>1
    <3> QED BY <3>2 DEF Prompted
  <2> QED BY <2>2, <2>3
<1> QED BY <1>1, <1>2, <1>3

\* Once the operator has taken the event about a device, no other one about
\* it is left.
LEMMA TakenPrompt ==
  ASSUME TypeOK, AnnouncedOnce, NEW d \in Device,
         IsNext(DevicePrompt(d)), events' = Tail(events)
  PROVE  Prompted(d) /\ ~ Prompted(d)'
<1>0. events \in Seq(Prompt) /\ events # <<>>
  BY DEF TypeOK, IsNext
<1>1. 1 \in 1..Len(events) /\ events[1] = DevicePrompt(d)
  BY <1>0 DEF IsNext
<1>2. ASSUME Prompted(d)' PROVE FALSE
  <2>1. PICK i \in 1..Len(events') : events'[i] = DevicePrompt(d)
    BY <1>2 DEF Prompted, DevicePrompt
  <2>2. i + 1 \in 1..Len(events) /\ events[i + 1] = DevicePrompt(d) /\ i + 1 # 1
    BY <1>0, <2>1
  <2>3. events[1].kind = "device"
    BY <1>1 DEF DevicePrompt
  <2> QED BY <1>1, <2>2, <2>3 DEF AnnouncedOnce
<1> QED BY <1>1, <1>2 DEF Prompted

\* Announcing a device that is not announced.
LEMMA AnnounceStep ==
  ASSUME TypeOK, AnnouncedOnce, NEW d \in Device, ~ Prompted(d),
         events' = Append(events, DevicePrompt(d))
  PROVE  AnnouncedOnce' /\ \A e \in Device : Prompted(e)' => Prompted(e) \/ e = d
<1>0. events \in Seq(Prompt) /\ DevicePrompt(d) \in Prompt
  BY DEF TypeOK, DevicePrompt, Prompt
<1>1. /\ Len(events') = Len(events) + 1 /\ Len(events) \in Nat
      /\ \A i \in 1..Len(events) : events'[i] = events[i]
      /\ events'[Len(events) + 1] = DevicePrompt(d)
  BY <1>0
<1>2. AnnouncedOnce'
  BY <1>1 DEF AnnouncedOnce, Prompted
<1>3. ASSUME NEW e \in Device, Prompted(e)' PROVE Prompted(e) \/ e = d
  <2>1. PICK i \in 1..Len(events') : events'[i] = DevicePrompt(e)
    BY <1>3 DEF Prompted, DevicePrompt
  <2>2. CASE i = Len(events) + 1
    BY <1>1, <2>1, <2>2 DEF DevicePrompt
  <2>3. CASE i # Len(events) + 1
    BY <1>1, <2>1, <2>3 DEF Prompted
  <2> QED BY <2>2, <2>3
<1> QED BY <1>2, <1>3

\* A step that starts no announcement and no decision keeps the invariant,
\* as long as it drops no held request.
LEMMA QuietStep ==
  ASSUME TypeOK, PromptInv, ApprovalHasCert', pending \subseteq pending',
         \/ events' = events
         \/ \E e \in Prompt : e.kind # "device" /\ events' = Append(events, e)
         \/ events # <<>> /\ events' = Tail(events),
         \A d \in Device : Deciding(d)' => Deciding(d),
         \A d \in Device : At(d, "notify")' => At(d, "notify")
  PROVE  PromptInv'
<1> SUFFICES ASSUME Frontend = "cli"
             PROVE  AnnouncedOnce' /\ \A d \in Device : OnePrompt(d)'
  BY DEF PromptInv
<1>1. AnnouncedOnce' /\ \A d \in Device : Prompted(d)' => Prompted(d)
  BY ChannelStep DEF PromptInv
<1>2. ASSUME NEW d \in Device PROVE OnePrompt(d)'
  BY <1>1 DEF PromptInv, OnePrompt
<1> QED BY <1>1, <1>2

\* A handler that ends, or goes on to something else than the announcement.
LEMMA HandlerQuiet ==
  ASSUME TypeOK, PromptInv, NEW t \in Device,
         \A u \in Thread : u # t => task'[u] = task[u],
         task'[t].at # "notify"
  PROVE  /\ ApprovalHasCert'
         /\ \A d \in Device : Deciding(d)' => Deciding(d)
         /\ \A d \in Device : At(d, "notify")' => At(d, "notify")
<1>1. Operator # t /\ task'[Operator] = task[Operator]
  BY GateAssumption DEF Thread
<1>2. \A d \in Device : At(d, "notify")' => At(d, "notify")
  BY DEF At, Thread
<1> QED BY <1>1, <1>2 DEF PromptInv, ApprovalHasCert, Deciding

\* An operator's task that is neither deciding on a device nor about to.
LEMMA OperatorQuiet ==
  ASSUME TypeOK, PromptInv, 
         \A u \in Thread : u # Operator => task'[u] = task[u],
         task'[Operator].at \notin {"approve", "approveBare", "retain"}
  PROVE  /\ ApprovalHasCert'
         /\ \A d \in Device : ~ Deciding(d)'
         /\ \A d \in Device : At(d, "notify")' => At(d, "notify")
BY GateAssumption DEF ApprovalHasCert, Deciding, At, Thread

\* Every step keeps the prompt invariant.
LEMMA PromptStep == TypeOK /\ PromptInv /\ [Next]_vars => PromptInv'
<1> SUFFICES ASSUME TypeOK, PromptInv, [Next]_vars PROVE PromptInv'
  OBVIOUS
<1>0. Operator \in Thread /\ Device \subseteq Thread /\ Operator \notin Device
  BY GateAssumption DEF Thread
<1>1. ASSUME NEW d \in Device, PairRequest(d) PROVE PromptInv'
  <2>1. /\ \A u \in Thread : u # d => task'[u] = task[u]
        /\ task'[d].at # "notify"
    BY <1>0, <1>1 DEF PairRequest, TypeOK
  <2> QED BY <1>1, <2>1, HandlerQuiet, QuietStep DEF PairRequest
<1>2. ASSUME NEW d \in Device, Admit(d) PROVE PromptInv'
  <2>0. task[d].at = "gate" /\ \A u \in Thread : u # d => task'[u] = task[u]
    BY <1>0, <1>2, OthersStay DEF Admit, Answer, At
  <2>1. CASE Answer(d, "deny") \/ Answer(d, "hold")
    <3>1. task'[d].at # "notify" /\ UNCHANGED pending
      BY <1>0, <1>2, <2>0, <2>1, FinishAt, GotoAt DEF Admit, Answer
    <3> QED BY <1>2, <2>0, <3>1, HandlerQuiet, QuietStep DEF Admit
  <2>2. CASE d \notin pending /\ pending' = pending \cup {d} /\ Goto(d, "notify")
    <3>1. task'[Operator] = task[Operator] /\ events' = events
      BY <1>0, <1>2, <2>0 DEF Admit
    <3>2. \A e \in Device : At(e, "notify")' => At(e, "notify") \/ e = d
      BY <1>0, <2>0 DEF At
    <3>3. ASSUME NEW e \in Device, OnePrompt(e) PROVE OnePrompt(e)'
      <4>1. (Prompted(e)' <=> Prompted(e)) /\ (Deciding(e)' <=> Deciding(e))
        BY <3>1 DEF Prompted, Deciding
      <4> QED BY <2>2, <3>2, <3>3, <4>1 DEF OnePrompt
    <3>4. ApprovalHasCert' /\ (AnnouncedOnce => AnnouncedOnce')
      BY <3>1 DEF PromptInv, ApprovalHasCert, AnnouncedOnce
    <3> QED BY <3>3, <3>4 DEF PromptInv
  <2> QED BY <1>2, <2>1, <2>2 DEF Admit
<1>3. ASSUME NEW d \in Device, Notify(d) PROVE PromptInv'
  <2>1. /\ \A u \in Thread : u # d => task'[u] = task[u]
        /\ task'[d].at = "idle" /\ task[d].at = "notify" /\ pending' = pending
    BY <1>0, <1>3, OthersStay, FinishAt DEF Notify, Answer, At
  <2>2. /\ ApprovalHasCert'
        /\ \A e \in Device : Deciding(e)' => Deciding(e)
        /\ \A e \in Device : At(e, "notify")' => At(e, "notify")
    BY <2>1, HandlerQuiet
  <2>3. CASE Frontend = "cli"
    <3>1. events' = Append(events, DevicePrompt(d))
      BY <1>3, <2>3 DEF Notify, Emit, DevicePrompt
    <3>2. AnnouncedOnce /\ OnePrompt(d) /\ At(d, "notify") /\ ~ At(d, "notify")'
      BY <2>1, <2>3 DEF PromptInv, At
    <3>3. ~ Prompted(d) /\ d \in pending /\ ~ Deciding(d)
      BY <3>2 DEF OnePrompt
    <3>4. AnnouncedOnce' /\ \A e \in Device : Prompted(e)' => Prompted(e) \/ e = d
      BY <3>1, <3>2, <3>3, AnnounceStep
    <3>5. ASSUME NEW e \in Device PROVE OnePrompt(e)'
      <4>1. CASE e = d
        BY <2>1, <2>2, <3>2, <3>3, <4>1 DEF OnePrompt
      <4>2. CASE e # d
        BY <2>1, <2>2, <2>3, <3>4, <4>2 DEF OnePrompt, PromptInv
      <4> QED BY <4>1, <4>2
    <3> QED BY <2>2, <3>4, <3>5 DEF PromptInv
  <2>4. CASE Frontend # "cli"
    BY <2>2, <2>4 DEF PromptInv
  <2> QED BY <2>3, <2>4
<1>4. ASSUME NEW d \in Device, Handler(d), ~ Admit(d), ~ Notify(d) PROVE PromptInv'
  <2>1. task[d].at # "idle" /\ pending' = pending
    BY <1>4 DEF Handler, Store, Paired, CheckDenied, CheckTrust, Hold, Tell, At
  <2>2. \/ Finish(d)
        \/ \E step \in {"paired", "trust", "record", "hold", "tell"} : Goto(d, step)
    BY <1>4 DEF Handler, Store, Paired, CheckDenied, CheckTrust, Hold, Tell, Answer
  <2>3. /\ \A u \in Thread : u # d => task'[u] = task[u]
        /\ task'[d].at # "notify"
    BY <1>0, <2>1, <2>2, OthersStay, FinishAt, GotoAt
  <2>4. \/ events' = events
        \/ \E e \in Prompt : e.kind # "device" /\ events' = Append(events, e)
    <3>1. CASE Paired(d)
      <4>1. [kind |-> "paired", dev |-> d] \in Prompt
        BY DEF Prompt
      <4> QED BY <3>1, <4>1 DEF Paired, Emit
    <3>2. CASE Tell(d)
      <4>1. [kind |-> "folder", dev |-> d, folder |-> task[d].folder] \in Prompt
        BY <1>0, <3>2, AboutType DEF Tell, Prompt, FolderSteps, At
      <4> QED BY <3>2, <4>1 DEF Tell, Emit
    <3> QED BY <1>4, <3>1, <3>2 DEF Handler, Store, CheckDenied, CheckTrust, Hold
  <2> QED BY <2>1, <2>3, <2>4, HandlerQuiet, QuietStep
<1>5. ASSUME NEW t \in Thread, Grant(t) PROVE PromptInv'
  <2>1. /\ task[t].at \in {"record", "row", "pair"}
        /\ UNCHANGED <<pending, events>>
    BY <1>5 DEF Grant, Record, WriteRow, WritePair, GrantFails, At
  <2>2. Finish(t) \/ \E step \in {"row", "pair", "tell"} : Goto(t, step)
    BY <1>5 DEF Grant, Record, WriteRow, WritePair, GrantFails, Answer
  <2>3. /\ \A u \in Thread : u # t => task'[u] = task[u]
        /\ task'[t].at \in {"idle", "row", "pair", "tell"}
    BY <2>1, <2>2, OthersStay, FinishAt, GotoAt
  <2>4. CASE t = Operator
    BY <2>1, <2>3, <2>4, OperatorQuiet, QuietStep
  <2>5. CASE t \in Device
    BY <2>1, <2>3, <2>5, HandlerQuiet, QuietStep
  <2> QED BY <2>4, <2>5 DEF Thread
<1>6. ASSUME NEW d \in Device, NEW f \in Folder, FolderRequest(d, f) PROVE PromptInv'
  <2>1. /\ \A u \in Thread : u # d => task'[u] = task[u]
        /\ task'[d].at # "notify"
    BY <1>0, <1>6 DEF FolderRequest, Answer, Finish, Idle, TypeOK
  <2> QED BY <1>6, <2>1, HandlerQuiet, QuietStep DEF FolderRequest
<1>7. ASSUME NEW d \in Device, ApprovePairing(d) PROVE PromptInv'
  <2>1. /\ \A u \in Thread : u # Operator => task'[u] = task[u]
        /\ task'[Operator].at = IF d \in pending THEN "approve" ELSE "approveBare"
        /\ task'[Operator].dev = d
        /\ UNCHANGED pending
    BY <1>0, <1>7 DEF ApprovePairing, TypeOK
  <2>2. CASE Frontend = "cli"
    <3>0. AnnouncedOnce /\ OnePrompt(d)
      BY <2>2 DEF PromptInv
    <3>1. IsNext(DevicePrompt(d)) /\ events' = Tail(events) /\ events # <<>>
      BY <1>7, <2>2 DEF ApprovePairing, AsksDevice, Takes, DevicePrompt, IsNext
    <3>2. Prompted(d) /\ ~ Prompted(d)'
      BY <3>0, <3>1, TakenPrompt
    <3>3. AnnouncedOnce' /\ \A e \in Device : Prompted(e)' => Prompted(e)
      BY <3>0, <3>1, ChannelStep
    <3>4. d \in pending /\ ~ At(d, "notify") /\ ApprovalHasCert'
      BY <2>1, <3>0, <3>2 DEF OnePrompt, ApprovalHasCert
    <3>5. \A e \in Device : /\ At(e, "notify")' <=> At(e, "notify")
                            /\ Deciding(e)' => e = d
      BY <1>0, <2>1 DEF At, Deciding
    <3>6. ASSUME NEW e \in Device PROVE OnePrompt(e)'
      <4>1. CASE e = d
        BY <2>1, <3>2, <3>4, <3>5, <4>1 DEF OnePrompt
      <4>2. CASE e # d
        BY <2>1, <2>2, <3>3, <3>5, <4>2 DEF OnePrompt, PromptInv
      <4> QED BY <4>1, <4>2
    <3> QED BY <3>3, <3>4, <3>6 DEF PromptInv
  <2>3. CASE Frontend # "cli"
    BY <1>7, <2>1, <2>3 DEF ApprovePairing, AsksDevice, Takes, PromptInv, ApprovalHasCert
  <2> QED BY <2>2, <2>3
<1>8. CASE ApproveStore
  <2>1. task[Operator].at = "approve" /\ UNCHANGED <<pending, events>>
    BY <1>8 DEF ApproveStore, PromptInv, ApprovalHasCert
  <2>2. \A u \in Thread : u # Operator => task'[u] = task[u]
    BY <1>0, <1>8, OthersStay DEF ApproveStore
  <2>3. CASE Finish(Operator)
    BY <1>0, <2>1, <2>2, <2>3, FinishAt, OperatorQuiet, QuietStep
  <2>4. CASE Goto(Operator, "retain")
    <3>1. task'[Operator].at = "retain" /\ task'[Operator].dev = task[Operator].dev
      BY <1>0, <2>1, <2>4, GotoAt
    <3>2. ApprovalHasCert' /\ \A d \in Device : Deciding(d)' => Deciding(d)
      BY <2>1, <3>1 DEF ApprovalHasCert, Deciding
    <3>3. \A d \in Device : At(d, "notify")' => At(d, "notify")
      BY <1>0, <2>2 DEF At
    <3> QED BY <2>1, <3>2, <3>3, QuietStep
  <2> QED BY <1>8, <2>3, <2>4 DEF ApproveStore
<1>9. CASE ApproveRetain
  <2>1. /\ \A u \in Thread : u # Operator => task'[u] = task[u]
        /\ task'[Operator].at = "idle" /\ task[Operator].at = "retain"
        /\ pending' = pending \ {task[Operator].dev} /\ events' = events
    BY <1>0, <1>9, OthersStay, FinishAt DEF ApproveRetain, At
  <2>2. /\ ApprovalHasCert'
        /\ \A d \in Device : ~ Deciding(d)'
        /\ \A d \in Device : At(d, "notify")' => At(d, "notify")
    BY <2>1, OperatorQuiet
  <2>3. CASE Frontend = "cli"
    <3>1. ASSUME NEW d \in Device PROVE OnePrompt(d)'
      <4>1. OnePrompt(d) /\ (Prompted(d)' <=> Prompted(d))
        BY <2>1, <2>3 DEF PromptInv, Prompted
      <4>2. d = task[Operator].dev => Deciding(d)
        BY <2>1 DEF Deciding
      <4> QED BY <2>1, <2>2, <4>1, <4>2 DEF OnePrompt
    <3> QED BY <2>1, <2>2, <2>3, <3>1 DEF PromptInv, AnnouncedOnce
  <2>4. CASE Frontend # "cli"
    BY <2>2, <2>4 DEF PromptInv
  <2> QED BY <2>3, <2>4
<1>10. ASSUME NEW d \in Device, DenyPairing(d) PROVE PromptInv'
  <2>0. /\ pending' = pending \ {d} /\ task' = task /\ task[Operator].at = "idle"
        /\ ApprovalHasCert'
    BY <1>10 DEF DenyPairing, AsksDevice, Takes, At, ApprovalHasCert
  <2>1. CASE Frontend = "cli"
    <3>0. AnnouncedOnce /\ OnePrompt(d)
      BY <2>1 DEF PromptInv
    <3>1. IsNext(DevicePrompt(d)) /\ events' = Tail(events) /\ events # <<>>
      BY <1>10, <2>1 DEF DenyPairing, AsksDevice, Takes, DevicePrompt, IsNext
    <3>2. Prompted(d) /\ ~ Prompted(d)'
      BY <3>0, <3>1, TakenPrompt
    <3>3. AnnouncedOnce' /\ \A e \in Device : Prompted(e)' => Prompted(e)
      BY <3>0, <3>1, ChannelStep
    <3>4. \A e \in Device : (At(e, "notify")' <=> At(e, "notify")) /\ ~ Deciding(e)'
      BY <2>0 DEF At, Deciding
    <3>5. ASSUME NEW e \in Device PROVE OnePrompt(e)'
      <4>1. CASE e = d
        BY <3>0, <3>2, <3>4, <4>1 DEF OnePrompt
      <4>2. CASE e # d
        BY <2>0, <2>1, <3>3, <3>4, <4>2 DEF OnePrompt, PromptInv
      <4> QED BY <4>1, <4>2
    <3> QED BY <2>0, <3>3, <3>5 DEF PromptInv
  <2>2. CASE Frontend # "cli"
    BY <2>0, <2>2 DEF PromptInv
  <2> QED BY <2>1, <2>2
<1>11. ASSUME NEW d \in Device, NEW f \in Folder,
              ApproveFolderPairing(d, f) \/ DenyFolderPairing(d, f)
       PROVE  PromptInv'
  <2>1. /\ pending' = pending
        /\ events' = events \/ (events # <<>> /\ events' = Tail(events))
    BY <1>11 DEF ApproveFolderPairing, DenyFolderPairing, AsksFolder, Takes, IsNext
  <2>2. /\ \A u \in Thread : u # Operator => task'[u] = task[u]
        /\ task'[Operator].at \in {"record", "idle"}
    BY <1>0, <1>11 DEF ApproveFolderPairing, DenyFolderPairing, AsksFolder, Takes, At, TypeOK
  <2> QED BY <2>1, <2>2, OperatorQuiet, QuietStep
<1>12. CASE Restart
  <2>1. events' = <<>> /\ \A t \in Thread : task'[t].at = "idle"
    BY <1>12 DEF Restart, Idle
  <2>2. \A d \in Device : ~ Prompted(d)' /\ ~ Deciding(d)' /\ ~ At(d, "notify")'
    BY <1>0, <2>1 DEF Prompted, Deciding, At
  <2> QED BY <1>0, <2>1, <2>2 DEF PromptInv, OnePrompt, AnnouncedOnce, ApprovalHasCert
<1>13. CASE \/ UNCHANGED vars \/ Drain \/ \E f \in Folder : SetShared(f)
            \/ \E d \in Device : RemoveDevice(d)
  <2>1. /\ UNCHANGED <<pending, task>>
        /\ events' = events \/ (events # <<>> /\ events' = Tail(events))
    BY <1>13 DEF Drain, SetShared, RemoveDevice
  <2>2. /\ ApprovalHasCert'
        /\ \A d \in Device : Deciding(d)' => Deciding(d)
        /\ \A d \in Device : At(d, "notify")' => At(d, "notify")
    BY <2>1 DEF PromptInv, ApprovalHasCert, Deciding, At
  <2> QED BY <2>1, <2>2, QuietStep
<1> QED
  BY <1>1, <1>2, <1>3, <1>4, <1>5, <1>6, <1>7, <1>8, <1>9, <1>10, <1>11, <1>12, <1>13
  DEF Next, Approving

(***************************************************************************)
(* An approval always finds the held request with the certificate it is    *)
(* about, whether the operator lists the held requests or answers events   *)
(* that may be old: in every interleaving of retries, answers, failed      *)
(* writes and restarts.                                                    *)
(***************************************************************************)
THEOREM ApprovalsCertified == Spec => []ApprovalHasCert
<1>1. Init => PromptInv
  BY GateAssumption
  DEF Init, PromptInv, OnePrompt, AnnouncedOnce, Prompted, Deciding, ApprovalHasCert,
      At, Idle, Thread
<1>2. PromptInv => ApprovalHasCert
  BY DEF PromptInv
<1> QED BY <1>1, <1>2, TypeCorrect, PromptStep, PTL DEF Spec

-----------------------------------------------------------------------------
(***************************************************************************)
(* The gate with its clients.  Whatever the clients do, retries, broken    *)
(* connections and deadlines included, the server and its operator run as  *)
(* PairGate says, so what is proved of the gate holds beside them.  From   *)
(* that, what a client reports about a pairing is true.                    *)
(***************************************************************************)
USE DEF allVars, clientVars

Call == [at : {"off", "asked", "mute", "sleep"}, folder : Folder \cup {NoFolder},
         timed : BOOLEAN, late : BOOLEAN]

\* Types of the clients' variables.
ClientTypeOK ==
  /\ client \in [Device -> Call]
  /\ peer \in SUBSET Device
  /\ wired \in SUBSET Request
  /\ made \in [Device -> Nat]
  /\ lost \in SUBSET Request

\* A call that returns, sleeps or is repeated is a call, and keeps its folder.
LEMMA CallType ==
  ASSUME ClientTypeOK, NEW d \in Device,
         \/ Returns(d) \/ Again(d)
         \/ client' = [client EXCEPT ![d].at = "asked"]
         \/ client' = [client EXCEPT ![d].at = "mute"]
         \/ client' = [client EXCEPT ![d].late = TRUE]
  PROVE  client' \in [Device -> Call]
<1>1. client \in [Device -> Call] /\ NoCall \in Call
  BY DEF ClientTypeOK, Call, NoCall
<1>2. CASE Returns(d)
  BY <1>1, <1>2 DEF Returns
<1>3. CASE client' = [client EXCEPT ![d].at = "sleep"]
  BY <1>1, <1>3 DEF Call
<1>4. CASE client' = [client EXCEPT ![d].at = "asked"]
  BY <1>1, <1>4 DEF Call
<1>5. CASE client' = [client EXCEPT ![d].late = TRUE]
  BY <1>1, <1>5 DEF Call
<1>6. CASE client' = [client EXCEPT ![d].at = "mute"]
  BY <1>1, <1>6 DEF Call
<1> QED BY <1>2, <1>3, <1>4, <1>5, <1>6 DEF Again

\* Every step of the whole keeps the types of the clients' variables.
LEMMA ClientTypeStep == TypeOK /\ ClientTypeOK /\ [ClientNext]_allVars => ClientTypeOK'
<1> SUFFICES ASSUME TypeOK, ClientTypeOK, [ClientNext]_allVars PROVE ClientTypeOK'
  OBVIOUS
<1>0. CASE UNCHANGED allVars
  BY <1>0 DEF ClientTypeOK
<1>1. CASE ServerNext
  <2>1. ASSUME NEW t \in Thread, Refused(t) PROVE About(t) \in Request
    BY <2>1 DEF Refused, About, Request, TypeOK, Busy, Idle, PairSteps, FolderSteps
  <2>2. lost' \in SUBSET Request
    BY <1>1, <2>1 DEF ServerNext, ClientTypeOK
  <2> QED BY <1>1, <2>2 DEF ServerNext, ClientTypeOK
<1>2. CASE ServerRestart
  <2>1. client' \in [Device -> Call]
    BY <1>2 DEF ServerRestart, ClientTypeOK, Call, NoCall
  <2> QED BY <1>2, <2>1 DEF ServerRestart, ClientTypeOK
<1>3. ASSUME NEW d \in Device, ServerRemoves(d) PROVE ClientTypeOK'
  BY <1>3 DEF ServerRemoves, ClientTypeOK, Request
<1>4. ASSUME NEW d \in Device, NEW f \in Folder \cup {NoFolder}, NEW timed \in BOOLEAN,
             Begin(d, f, timed)
      PROVE  ClientTypeOK'
  <2>1. client' \in [Device -> Call]
    BY <1>4 DEF Begin, ClientTypeOK, Call
  <2>2. made' \in [Device -> Nat]
    BY <1>4 DEF Begin, ClientTypeOK
  <2> QED BY <1>4, <2>1, <2>2 DEF Begin, ClientTypeOK
<1>5. ASSUME NEW d \in Device, Collect(d) PROVE ClientTypeOK'
  <2>1. client' \in [Device -> Call]
    BY <1>5, CallType DEF Collect, PairReply, FolderReply
  <2>2. peer' \in SUBSET Device
    BY <1>5 DEF Collect, PairReply, FolderReply, ClientTypeOK
  <2>3. wired' \in SUBSET Request
    <3>1. CASE client[d].folder = NoFolder
      BY <1>5, <3>1 DEF Collect, PairReply, ClientTypeOK
    <3>2. CASE client[d].folder # NoFolder
      <4>1. <<d, client[d].folder>> \in Request
        BY <3>2 DEF ClientTypeOK, Call, Request
      <4> QED BY <1>5, <3>2, <4>1 DEF Collect, FolderReply, ClientTypeOK
    <3> QED BY <3>1, <3>2
  <2> QED BY <1>5, <2>1, <2>2, <2>3 DEF Collect, ClientTypeOK
<1>6. ASSUME NEW d \in Device,
             Retry(d) \/ Mute(d) \/ TimesOut(d) \/ Broken(d) \/ Deadline(d)
      PROVE  ClientTypeOK'
  <2>1. client' \in [Device -> Call]
    BY <1>6, CallType DEF Retry, Mute, TimesOut, Broken, Deadline
  <2> QED BY <1>6, <2>1 DEF Retry, Mute, TimesOut, Broken, Deadline, ClientTypeOK
<1> QED BY <1>0, <1>1, <1>2, <1>3, <1>4, <1>5, <1>6 DEF ClientNext

\* Every request a client sends is one the gate expects.
LEMMA AsksGate ==
  ASSUME NEW d \in Device, NEW f \in Folder \cup {NoFolder}, Asks(d, f)
  PROVE  Next
BY DEF Asks, Next

\* Every step of the whole is a step of the gate or leaves the gate alone.
LEMMA GateStep == ClientTypeOK /\ [ClientNext]_allVars => [Next]_vars
<1> SUFFICES ASSUME ClientTypeOK, [ClientNext]_allVars PROVE [Next]_vars
  OBVIOUS
<1>1. CASE ServerNext
  BY <1>1 DEF ServerNext, Next
<1>2. CASE ServerRestart
  BY <1>2 DEF ServerRestart, Next
<1>3. ASSUME NEW d \in Device, ServerRemoves(d) PROVE Next
  BY <1>3 DEF ServerRemoves, Next
<1>4. ASSUME NEW d \in Device, NEW f \in Folder \cup {NoFolder}, NEW timed \in BOOLEAN,
             Begin(d, f, timed)
      PROVE  Next
  BY <1>4, AsksGate DEF Begin
<1>5. ASSUME NEW d \in Device, Retry(d) PROVE Next
  <2>1. client[d].folder \in Folder \cup {NoFolder}
    BY DEF ClientTypeOK, Call
  <2> QED BY <1>5, <2>1, AsksGate DEF Retry
<1>6. ASSUME NEW d \in Device,
             Collect(d) \/ Mute(d) \/ TimesOut(d) \/ Broken(d) \/ Deadline(d)
      PROVE  UNCHANGED vars
  BY <1>6 DEF Collect, Mute, TimesOut, Broken, Deadline
<1>7. CASE UNCHANGED allVars
  BY <1>7
<1> QED BY <1>1, <1>2, <1>3, <1>4, <1>5, <1>6, <1>7 DEF ClientNext

(***************************************************************************)
(* The variables of the clients keep their types.                          *)
(***************************************************************************)
THEOREM ClientTypeCorrect == ClientSpec => []ClientTypeOK
<1>1. ClientInit => TypeOK /\ ClientTypeOK
  <2> SUFFICES ASSUME ClientInit PROVE TypeOK /\ ClientTypeOK
    OBVIOUS
  <2>1. TypeOK
    BY DEF ClientInit, Init, TypeOK, Row, Known, Reply
  <2>2. ClientTypeOK
    BY DEF ClientInit, ClientTypeOK, Call, NoCall
  <2> QED BY <2>1, <2>2
<1>2. TypeOK /\ ClientTypeOK /\ [ClientNext]_allVars => TypeOK' /\ ClientTypeOK'
  BY TypeStep, GateStep, ClientTypeStep
<1> QED BY <1>1, <1>2, PTL DEF ClientSpec

(***************************************************************************)
(* A server used through pair_with and request_folder_pairing behaves as   *)
(* the gate alone does: what holds of Spec holds with the clients.         *)
(***************************************************************************)
THEOREM GateWithClients == ClientSpec => Spec
<1>1. ClientInit => Init
  BY DEF ClientInit
<1> QED BY <1>1, ClientTypeCorrect, GateStep, PTL DEF ClientSpec, Spec

-----------------------------------------------------------------------------
(***************************************************************************)
(* An acceptance that was sent stays readable until the next answer, long  *)
(* after the handler is done, and the device may have been removed since:  *)
(* it shows that the device was known when it was sent.                    *)
(***************************************************************************)
AcceptInv == Policy = "confirm" => \A d \in Device : reply[d] = "accept" => d \in vouched

\* Only a pairing request of a known device is answered with an acceptance.
LEMMA AcceptStep == TypeOK /\ TrustInv /\ AcceptInv /\ [Next]_vars => AcceptInv'
<1> SUFFICES ASSUME TypeOK, TrustInv, AcceptInv, [Next]_vars, Policy = "confirm",
                    NEW e \in Device, reply'[e] = "accept"
             PROVE  e \in vouched'
  BY DEF AcceptInv
<1>0. vouched \subseteq vouched' /\ reply \in [Device -> Reply]
  BY BackedStays DEF TypeOK
\* Every other answer leaves the acceptances as they were, or replaces one.
<1>a. ASSUME NEW d \in Device, NEW r, r # "accept",
             reply' = [reply EXCEPT ![d] = r] \/ reply' = reply
      PROVE  e \in vouched'
  <2>1. reply[e] = "accept"
    BY <1>0, <1>a
  <2> QED BY <1>0, <2>1 DEF AcceptInv
<1>1. ASSUME NEW d \in Device, PairRequest(d) PROVE e \in vouched'
  <2>1. CASE Known(d) /\ reply' = [reply EXCEPT ![d] = "accept"]
    <3>1. d \in vouched
      BY <2>1 DEF TrustInv
    <3>2. e = d \/ reply[e] = "accept"
      BY <1>0, <2>1
    <3> QED BY <1>0, <3>1, <3>2 DEF AcceptInv
  <2>2. CASE UNCHANGED reply
    BY <1>0, <2>2 DEF AcceptInv
  <2> QED BY <1>1, <2>1, <2>2 DEF PairRequest
<1>2. ASSUME NEW d \in Device, Handler(d) PROVE e \in vouched'
  <2>1. \/ reply' = reply
        \/ \E r \in {"deny", "hold", "rejected", "pending"} :
             reply' = [reply EXCEPT ![d] = r]
    BY <1>2 DEF Handler, Admit, Notify, Store, Paired, CheckDenied, CheckTrust, Hold,
                Tell, Answer
  <2> QED BY <1>0, <1>a, <2>1 DEF AcceptInv
<1>3. ASSUME NEW t \in Thread, Grant(t) PROVE e \in vouched'
  <2>1. CASE reply' = reply
    BY <1>0, <2>1 DEF AcceptInv
  <2>2. CASE t \in Device /\ Answer(t, "approved")
    <3>1. reply' = [reply EXCEPT ![t] = "approved"]
      BY <2>2 DEF Answer
    <3>2. reply[e] = "accept"
      BY <1>0, <2>2, <3>1
    <3> QED BY <1>0, <3>2 DEF AcceptInv
  <2> QED BY <1>3, <2>1, <2>2 DEF Grant, Record, WriteRow, WritePair, GrantFails, Thread
<1>4. ASSUME NEW d \in Device, NEW f \in Folder, FolderRequest(d, f)
      PROVE  e \in vouched'
  <2>1. \/ reply' = reply
        \/ \E r \in {"rejected", "approved"} : reply' = [reply EXCEPT ![d] = r]
    BY <1>4 DEF FolderRequest, Answer
  <2> QED BY <1>0, <1>a, <2>1 DEF AcceptInv
<1>5. CASE reply' = reply
  BY <1>0, <1>5 DEF AcceptInv
<1>6. ASSUME NEW d \in Device, NEW f \in Folder,
             ApproveFolderPairing(d, f) \/ DenyFolderPairing(d, f)
      PROVE  reply' = reply
  BY <1>6 DEF ApproveFolderPairing, DenyFolderPairing
<1>7. ASSUME NEW d \in Device, ApprovePairing(d) \/ DenyPairing(d) \/ RemoveDevice(d)
      PROVE  reply' = reply
  BY <1>7 DEF ApprovePairing, DenyPairing, RemoveDevice
<1>8. ASSUME ApproveStore \/ ApproveRetain \/ Drain \/ Restart PROVE reply' = reply
  BY <1>8 DEF ApproveStore, ApproveRetain, Drain, Restart
<1>9. ASSUME NEW f \in Folder, SetShared(f) PROVE reply' = reply
  BY <1>9 DEF SetShared
<1>10. CASE UNCHANGED vars
  BY <1>5, <1>10
<1> QED
  BY <1>1, <1>2, <1>3, <1>4, <1>5, <1>6, <1>7, <1>8, <1>9, <1>10 DEF Next, Approving

\* A client stores the server as a peer only on an acceptance.
LEMMA PeerStep ==
  TypeOK /\ TrustInv /\ AcceptInv /\ PairedMeansAdmitted /\ ClientTypeOK
    /\ [ClientNext]_allVars => PairedMeansAdmitted'
<1> SUFFICES ASSUME TypeOK, TrustInv, AcceptInv, PairedMeansAdmitted, ClientTypeOK,
                    [ClientNext]_allVars, Policy = "confirm"
             PROVE  peer' \subseteq vouched'
  BY DEF PairedMeansAdmitted
<1>1. peer \subseteq vouched /\ vouched \subseteq vouched'
  BY GateStep, BackedStays DEF PairedMeansAdmitted
<1>2. ASSUME NEW d \in Device, Collect(d) PROVE peer' \subseteq vouched'
  BY <1>1, <1>2 DEF Collect, PairReply, FolderReply, AcceptInv
<1>3. CASE peer' = peer
  BY <1>1, <1>3
<1> QED
  BY <1>2, <1>3
  DEF ClientNext, ServerNext, ServerRestart, ServerRemoves, Begin, Retry, Mute, TimesOut,
      Broken, Deadline

(***************************************************************************)
(* A device that stores the server as a peer was admitted by it, in every  *)
(* interleaving of calls, retries, broken connections, restarts and        *)
(* removals.                                                               *)
(***************************************************************************)
THEOREM PairingsAdmitted == ClientSpec => []PairedMeansAdmitted
<1>1. Init => TrustInv /\ AcceptInv
  BY DEF Init, TrustInv, Known, Granting, Idle, Thread, FolderSteps, AcceptInv
<1>2. ClientInit => PairedMeansAdmitted
  BY DEF ClientInit, PairedMeansAdmitted
<1>3. Spec => [](TypeOK /\ TrustInv /\ AcceptInv)
  BY <1>1, TypeCorrect, TrustStep, AcceptStep, PTL DEF Spec
<1> QED
  BY <1>2, <1>3, GateWithClients, ClientTypeCorrect, PeerStep, PTL DEF ClientSpec

(***************************************************************************)
(* What is proved of the gate's decisions holds with its clients.          *)
(***************************************************************************)
COROLLARY GateSafeWithClients ==
  ClientSpec => [](ConsentedOnly /\ DeniedNotQueued /\ GrantNeedsTrust /\ ApprovalHasCert)
BY GateWithClients, Consent, DeniedStayOut, GrantsTrusted, ApprovalsCertified, PTL
=============================================================================
