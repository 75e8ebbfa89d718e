------------------------- MODULE ConflictFilesProofs -------------------------
(***************************************************************************)
(* Where the contents of a folder come from, how they may leave it, and    *)
(* what the front ends show of its backups, for any paths, contents,       *)
(* folders, devices, number of sessions and bounds.                        *)
(***************************************************************************)
EXTENDS ConflictFiles, FiniteSetTheorems, WellFoundedInduction, TLAPS

USE DEF vars

Label == {"local", "remote"}
Name == [path : Path, copy : Nat, who : Label, at : Nat, label : Label,
         hash : Content \cup {Nothing}]
File == [at : {"idle", "check", "move", "write", "fill", "place", "clean"},
         n : Name \cup {Nothing}, data : Content \cup {Nothing}]
Choice == [at : {"idle", "overwrite", "fill", "drop", "rename"}, n : Name \cup {Nothing},
           data : SUBSET Content, to : Name \cup {Nothing}]

\* Types of the variables.
TypeOK ==
  /\ DOMAIN files \subseteq Name
  /\ task \in [Session -> File] /\ choice \in Choice
  /\ now \in Nat \ {0}
  /\ used \in [files : Nat, edits : Nat, resolves : Nat]
  /\ origin \in [Path -> SUBSET Content]

\* A session brings ordinary files; a resolution is about a backup and the
\* ordinary name it belongs to.
NameInv ==
  /\ \A w \in Session : task[w].at # "idle" => task[w].n \in Name /\ ~ IsBackup(task[w].n)
  /\ choice.at # "idle" => choice.n \in Name /\ IsBackup(choice.n)
  /\ choice.at \in {"overwrite", "fill", "rename"} =>
       /\ choice.to \in Name /\ ~ IsBackup(choice.to)
       /\ choice.to.path = choice.n.path

\* In the history came, c came under a path with this stem.
Home(stem, c, came) == \E q \in Path : Stem[q] = stem /\ c \in came[q]

(***************************************************************************)
(* What ContentsStayHome leaves open: the contents that are on their way,  *)
(* in a session's memory, in a temporary file or in a resolution, came     *)
(* under the path they are meant for ...                                   *)
(***************************************************************************)
HomeInv ==
  /\ \A n \in DOMAIN files : \A c \in files[n] : Home(Stem[n.path], c, origin)
  /\ \A k \in DOMAIN temp : \A c \in temp[k] : Home(k[1], c, origin)
  /\ \A w \in Session : task[w].at # "idle" => task[w].data \in origin[task[w].n.path]
  /\ choice.at \in {"overwrite", "fill"} =>
       \A c \in choice.data : Home(Stem[choice.to.path], c, origin)

\* ... and what is open for writing has not left that path, wherever renames took
\* it.  Only a writer that is about to fill its file has one open.
StemOf(h) == IF h[1] = "file" THEN Stem[h[2].path] ELSE h[2][1]
HandleInv ==
  /\ handle = [w \in Writer |-> handle[w]]
  /\ \A w \in Session : handle[w] # Gone =>
       task[w].at = "fill" /\ StemOf(handle[w]) = Stem[task[w].n.path]
  /\ handle["user"] # Gone => choice.at = "fill" /\ StemOf(handle["user"]) = Stem[choice.to.path]

(***************************************************************************)
(* What a writer found when it looked is still so, unless the name was     *)
(* written since: a session that is about to write finds its path free or  *)
(* holding what it brings, a resolution its backup, and keep_both the free *)
(* name.                                                                   *)
(***************************************************************************)
LookInv ==
  /\ \A w \in Session :
       task[w].at \in {"write", "fill", "place"} /\ task[w].n \notin written[w] /\ Has(task[w].n) =>
         files[task[w].n] = {task[w].data}
  /\ choice.at # "idle" /\ choice.n \notin written["user"] /\ Has(choice.n) =>
       files[choice.n] = choice.data
  /\ choice.at = "rename" /\ choice.to \notin written["user"] => ~ Has(choice.to)

-----------------------------------------------------------------------------
(* The operations on a folder. *)

\* Writing a name.
LEMMA PutFile ==
  ASSUME NEW n, NEW c, files' = Put(files, n, c)
  PROVE  /\ DOMAIN files' = DOMAIN files \cup {n}
         /\ files'[n] = c
         /\ \A m \in DOMAIN files : m # n => files'[m] = files[m]
BY DEF Put

\* Removing a name.
LEMMA WithoutFile ==
  ASSUME NEW n, files' = Without(files, n)
  PROVE  /\ DOMAIN files' = DOMAIN files \ {n}
         /\ \A m \in DOMAIN files : m # n => files'[m] = files[m]
BY DEF Without, Restrict

\* Renaming one name over another.
LEMMA RenamedFile ==
  ASSUME NEW from, NEW to, Has(from), files' = Renamed(files, from, to)
  PROVE  /\ DOMAIN files' = (DOMAIN files \ {from}) \cup {to}
         /\ files'[to] = files[from]
         /\ \A m \in DOMAIN files : m \notin {from, to} => files'[m] = files[m]
BY DEF Renamed, Put, Without, Restrict, Has

\* Filling an open file changes that file only, and brings nothing but the data.
LEMMA FillsOne ==
  ASSUME NEW w, NEW parts, Fills(w, parts)
  PROVE  /\ DOMAIN files' = DOMAIN files /\ DOMAIN temp' = DOMAIN temp
         /\ \A m \in DOMAIN files : handle[w] = Gone \/ handle[w][1] # "file" \/ handle[w][2] # m =>
              files'[m] = files[m]
         /\ \A m \in DOMAIN files : files'[m] \subseteq files[m] \cup parts
         /\ \A k \in DOMAIN temp : handle[w] = Gone \/ handle[w][1] # "temp" \/ handle[w][2] # k =>
              temp'[k] = temp[k]
         /\ \A k \in DOMAIN temp : temp'[k] \subseteq temp[k] \cup parts
         /\ Closed(w)
         /\ handle[w] = Gone => UNCHANGED <<files, temp>>
<1>0. Gone[1] = "gone"
  BY DEF Gone
<1>1. CASE /\ handle[w][1] = "file"
           /\ \E new \in {parts, parts \cup files[handle[w][2]]} :
                files' = [files EXCEPT ![handle[w][2]] = new]
           /\ UNCHANGED temp
  BY <1>0, <1>1 DEF Fills
<1>2. CASE /\ handle[w][1] = "temp"
           /\ \E new \in {parts, parts \cup temp[handle[w][2]]} :
                temp' = [temp EXCEPT ![handle[w][2]] = new]
           /\ UNCHANGED files
  BY <1>0, <1>2 DEF Fills
<1>3. CASE handle[w] = Gone /\ UNCHANGED <<files, temp>>
  BY <1>3 DEF Fills
<1> QED BY <1>1, <1>2, <1>3 DEF Fills

\* Names made from names are names, of the same path.
LEMMA PlainName ==
  ASSUME NEW p \in Path
  PROVE  Plain(p) \in Name /\ Plain(p).path = p /\ ~ IsBackup(Plain(p))
BY DEF Plain, Name, Label, IsBackup

\* The ordinary name a backup belongs to.
LEMMA WinnerNameName ==
  ASSUME NEW n \in Name
  PROVE  WinnerName(n) \in Name /\ WinnerName(n).path = n.path /\ ~ IsBackup(WinnerName(n))
<1>1. PICK a \in Name : a = [n EXCEPT !.at = 0]
  BY DEF Name
<1>2. PICK b \in Name : b = [a EXCEPT !.label = "local"]
  BY DEF Name, Label
<1>3. WinnerName(n) = [b EXCEPT !.hash = Nothing]
  BY <1>1, <1>2, Zenon DEF WinnerName
<1>4. b.path = n.path /\ b.at = 0
  <2>1. a.path = n.path /\ a.at = 0
    BY <1>1 DEF Name
  <2> QED BY <1>2, <2>1 DEF Name
<1> QED BY <1>3, <1>4 DEF Name, IsBackup

\* The name of a copy kept beside a file.
LEMMA CopyNameName ==
  ASSUME NEW n \in Name, NEW label \in Label, NEW k \in Nat
  PROVE  /\ CopyName(n, label, k) \in Name /\ CopyName(n, label, k).path = n.path
         /\ ~ IsBackup(CopyName(n, label, k))
<1>0. Plain(n.path) \in Name /\ Plain(n.path).path = n.path /\ Plain(n.path).at = 0
  <2>1. n.path \in Path
    BY DEF Name
  <2> QED BY <2>1, PlainName DEF IsBackup
<1>1. PICK a \in Name : a = [Plain(n.path) EXCEPT !.copy = k]
  BY <1>0 DEF Name
<1>2. CopyName(n, label, k) = [a EXCEPT !.who = label]
  BY <1>1, Zenon DEF CopyName
<1>3. a.path = n.path /\ a.at = 0
  BY <1>0, <1>1 DEF Name
<1> QED BY <1>2, <1>3 DEF Name, IsBackup

\* A backup's name is another one than the name of the file.
LEMMA BackupNameName ==
  ASSUME TypeOK, NameInv, NEW w \in Session, task[w].at # "idle"
  PROVE  /\ BackupName(w) \in Name /\ BackupName(w).path = task[w].n.path
         /\ BackupName(w).at = now /\ BackupName(w).hash = task[w].data
         /\ IsBackup(BackupName(w)) /\ BackupName(w) # task[w].n
<1>0. task[w].n \in Name /\ task[w].n.at = 0
  BY DEF NameInv, IsBackup
<1>1. PICK n \in Name : n = task[w].n
  BY <1>0
<1>2. LoserLabel(w) \in Label /\ task[w].data \in Content \cup {Nothing} /\ now \in Nat \ {0}
  BY DEF LoserLabel, Label, TypeOK, File
<1>3. PICK a \in Name : a = [n EXCEPT !.at = now]
  BY <1>2 DEF Name
<1>4. PICK b \in Name : b = [a EXCEPT !.label = LoserLabel(w)]
  BY <1>2 DEF Name
<1>5. BackupName(w) = [b EXCEPT !.hash = task[w].data]
  BY <1>1, <1>3, <1>4, Zenon DEF BackupName
<1>6. b.path = n.path /\ b.at = now
  <2>1. a.path = n.path /\ a.at = now
    BY <1>3 DEF Name
  <2> QED BY <1>4, <2>1 DEF Name
<1>7. /\ BackupName(w) \in Name /\ BackupName(w).path = n.path
      /\ BackupName(w).at = now /\ BackupName(w).hash = task[w].data
  BY <1>2, <1>5, <1>6 DEF Name
<1> QED BY <1>0, <1>1, <1>2, <1>7 DEF IsBackup

\* What a peer may send, and a resolution may be asked for, are ordinary names.
LEMMA NamesName ==
  ASSUME TypeOK
  PROVE  \A n \in Names : n \in Name /\ ~ IsBackup(n)
<1>1. ASSUME NEW p \in Path
      PROVE  CopyName(Plain(p), "local", 1) \in Name /\ ~ IsBackup(CopyName(Plain(p), "local", 1))
  <2>1. Plain(p) \in Name /\ "local" \in Label /\ 1 \in Nat
    BY PlainName DEF Label
  <2> QED BY <2>1, CopyNameName
<1>2. ASSUME NEW n \in DOMAIN files PROVE n \in Name
  BY DEF TypeOK
<1> QED BY <1>1, <1>2, PlainName DEF Names

-----------------------------------------------------------------------------
(* The steps, and the types. *)

Resolving(n) == KeepBackup(n) \/ KeepOriginal(n) \/ KeepBoth(n)
SessionStep(w) ==
  Check(w) \/ Move(w) \/ OpenTemp(w) \/ FillTemp(w) \/ Place(w) \/ Clean(w) \/ Abort(w)

\* The command line resolves what the app may resolve: the kinds of steps.
LEMMA StepKinds ==
  ASSUME [Next]_vars
  PROVE  \/ \E w \in Session, c \in Content, n \in Names : Arrive(w, n, c)
         \/ \E w \in Session : SessionStep(w)
         \/ \E p \in Path, c \in Content : UserWrite(p, c)
         \/ \E n \in DOMAIN files : Resolving(n)
         \/ Overwrite \/ FillFile \/ Drop \/ Rename \/ Abandon
         \/ Tick \/ UNCHANGED vars
<1>1. ASSUME NEW m, NEW keep \in {"this", "other", "both"}, CliResolve(m, keep)
      PROVE  \E n \in DOMAIN files : Resolving(n)
  BY <1>1 DEF CliResolve, Resolving
<1> QED BY <1>1 DEF Next, Resolving, SessionStep

\* A session's task that goes on keeps its file.
LEMMA TaskGoes ==
  ASSUME TypeOK, NEW w \in Session, NEW step \in {"move", "write", "fill", "place", "clean"},
         task' = [task EXCEPT ![w].at = step]
  PROVE  /\ task' \in [Session -> File]
         /\ task'[w].at = step /\ task'[w].n = task[w].n /\ task'[w].data = task[w].data
         /\ \A v \in Session : v # w => task'[v] = task[v]
BY DEF TypeOK, File

\* A session's task that ends.
LEMMA TaskEnds ==
  ASSUME TypeOK, NEW w \in Session, task' = [task EXCEPT ![w] = NoFile]
  PROVE  /\ task' \in [Session -> File] /\ task'[w].at = "idle"
         /\ \A v \in Session : v # w => task'[v] = task[v]
<1>1. NoFile \in File /\ NoFile.at = "idle"
  BY DEF File, NoFile
<1> QED BY <1>1 DEF TypeOK

\* What the steps of a session do to the tasks.
LEMMA SessionSteps ==
  ASSUME TypeOK, NEW w \in Session,
         SessionStep(w)
  PROVE  /\ task' \in [Session -> File]
         /\ \A v \in Session : v # w => task'[v] = task[v]
         /\ task[w].at # "idle"
         /\ task'[w].at = "idle" \/ (task'[w].n = task[w].n /\ task'[w].data = task[w].data)
<1>1. task[w].at # "idle"
  BY DEF SessionStep, Check, Move, OpenTemp, FillTemp, Place, Clean, Abort
<1>2. CASE \E step \in {"move", "write", "fill", "place", "clean"} : task' = [task EXCEPT ![w].at = step]
  BY <1>1, <1>2, TaskGoes
<1>3. CASE task' = [task EXCEPT ![w] = NoFile]
  BY <1>1, <1>3, TaskEnds
<1>4. NextStep(task[w]) \in {"move", "write"}
  BY DEF NextStep
<1> QED BY <1>2, <1>3, <1>4 DEF SessionStep, Check, Move, OpenTemp, FillTemp, Place, Clean, Abort

\* A resolution starts with what the folder holds.
LEMMA ResolvingNames ==
  ASSUME TypeOK, HomeInv, NEW n \in DOMAIN files, Resolving(n)
  PROVE  /\ choice' \in Choice /\ choice'.n = n /\ choice'.data = files[n]
         /\ n \in Name /\ IsBackup(n) /\ choice'.at # "idle"
         /\ choice'.at \in {"overwrite", "fill", "rename"} =>
              choice'.to \in Name /\ ~ IsBackup(choice'.to) /\ choice'.to.path = n.path
         /\ choice'.at = "rename" => ~ Has(choice'.to)
<1>0. n \in Name /\ IsBackup(n) /\ n.label \in Label
  BY DEF TypeOK, Resolving, KeepBackup, KeepOriginal, KeepBoth, Resolve, Name
<1>1. files[n] \in SUBSET Content
  BY DEF HomeInv, Home, TypeOK
<1>2. CASE KeepBackup(n)
  <2>1. choice' = [at |-> "overwrite", n |-> n, data |-> files[n], to |-> WinnerName(n)]
    BY <1>2 DEF KeepBackup
  <2>2. WinnerName(n) \in Name /\ WinnerName(n).path = n.path /\ ~ IsBackup(WinnerName(n))
    BY <1>0, WinnerNameName
  <2>3. choice' \in Choice
    BY <1>0, <1>1, <2>1, <2>2 DEF Choice
  <2> QED BY <1>0, <2>1, <2>2, <2>3
<1>3. CASE KeepOriginal(n)
  <2>1. PICK a : a = [NoChoice EXCEPT !.at = "drop"]
    OBVIOUS
  <2>2. PICK b : b = [a EXCEPT !.n = n]
    OBVIOUS
  <2>3. choice' = [b EXCEPT !.data = files[n]]
    BY <1>3, <2>1, <2>2, Zenon DEF KeepOriginal
  <2>4. a = [at |-> "drop", n |-> Nothing, data |-> {}, to |-> Nothing]
    BY <2>1 DEF NoChoice
  <2>5. b = [at |-> "drop", n |-> n, data |-> {}, to |-> Nothing]
    BY <2>2, <2>4
  <2>6. choice' = [at |-> "drop", n |-> n, data |-> files[n], to |-> Nothing]
    BY <2>3, <2>5
  <2>7. choice' \in Choice
    BY <1>0, <1>1, <2>6 DEF Choice
  <2> QED BY <1>0, <2>6, <2>7
<1>4. CASE KeepBoth(n)
  <2>1. PICK k \in 1 .. MaxCopies :
          /\ CopyTo(n, k)
          /\ choice' = [at |-> "rename", n |-> n, data |-> files[n],
                        to |-> CopyName(n, n.label, k)]
    BY <1>4 DEF KeepBoth
  <2>2. /\ CopyName(n, n.label, k) \in Name /\ CopyName(n, n.label, k).path = n.path
        /\ ~ IsBackup(CopyName(n, n.label, k)) /\ ~ Has(CopyName(n, n.label, k))
    BY <1>0, <2>1, CopyNameName DEF CopyTo
  <2>3. choice' \in Choice
    BY <1>0, <1>1, <2>1, <2>2 DEF Choice
  <2> QED BY <1>0, <2>1, <2>2, <2>3
<1> QED BY <1>2, <1>3, <1>4 DEF Resolving

\* ... and changes nothing else.
LEMMA ResolvingOnly ==
  ASSUME NEW n, Resolving(n)
  PROVE  /\ choice.at = "idle"
         /\ UNCHANGED <<files, temp, handle, task, now, origin>> /\ Track({"user"})
         /\ used' = [used EXCEPT !.resolves = @ + 1]
BY DEF Resolving, KeepBackup, KeepOriginal, KeepBoth, Resolve

FilesInv == TypeOK /\ NameInv /\ HomeInv /\ HandleInv /\ LookInv

\* Every step keeps the types, and the names of the right kind.
LEMMA TypeStep == FilesInv /\ [Next]_vars => TypeOK' /\ NameInv'
<1> SUFFICES ASSUME TypeOK, NameInv, HomeInv, [Next]_vars PROVE TypeOK' /\ NameInv'
  BY DEF FilesInv
<1> USE DEF IsBackup
\* The names in use, where a step does not touch the tasks, or the choice.
<1>a. ASSUME task' = task PROVE
        \A w \in Session : task'[w].at # "idle" => task'[w].n \in Name /\ ~ IsBackup(task'[w].n)
  BY <1>a DEF NameInv
<1>b. ASSUME \/ choice' = choice \/ choice' = NoChoice
      PROVE  /\ choice' \in Choice
             /\ choice'.at # "idle" => choice'.n \in Name /\ IsBackup(choice'.n)
             /\ choice'.at \in {"overwrite", "fill", "rename"} =>
                  /\ choice'.to \in Name /\ ~ IsBackup(choice'.to)
                  /\ choice'.to.path = choice'.n.path
  <2>1. NoChoice \in Choice /\ NoChoice.at = "idle"
    BY DEF NoChoice, Choice
  <2> QED BY <1>b, <2>1 DEF TypeOK, NameInv
<1>1. ASSUME NEW w \in Session, NEW c \in Content, NEW n \in Names, Arrive(w, n, c)
      PROVE  TypeOK' /\ NameInv'
  <2>0. n \in Name /\ ~ IsBackup(n) /\ n.path \in Path
    BY NamesName DEF Name
  <2>1. /\ task' \in [Session -> File] /\ task'[w].n = n
        /\ \A v \in Session : v # w => task'[v] = task[v]
    BY <1>1, <2>0 DEF Arrive, TypeOK, File
  <2>2. origin' \in [Path -> SUBSET Content]
    BY <1>1, <2>0 DEF Arrive, TypeOK
  <2>3. used' \in [files : Nat, edits : Nat, resolves : Nat]
    BY <1>1 DEF Arrive, TypeOK
  <2>4. UNCHANGED <<files, choice, now>>
    BY <1>1 DEF Arrive
  <2>5. TypeOK'
    BY <2>1, <2>2, <2>3, <2>4 DEF TypeOK
  <2>6. \A v \in Session : task'[v].at # "idle" => task'[v].n \in Name /\ ~ IsBackup(task'[v].n)
    BY <2>0, <2>1 DEF NameInv
  <2> QED BY <1>b, <2>4, <2>5, <2>6 DEF NameInv
<1>2. ASSUME NEW w \in Session,
             SessionStep(w)
      PROVE  TypeOK' /\ NameInv'
  <2>1. /\ task' \in [Session -> File]
        /\ \A v \in Session : v # w => task'[v] = task[v]
        /\ task[w].at # "idle"
        /\ task'[w].at = "idle" \/ task'[w].n = task[w].n
    BY <1>2, SessionSteps
  <2>2. UNCHANGED <<choice, now, used, origin>>
    BY <1>2 DEF SessionStep, Check, Move, OpenTemp, FillTemp, Place, Clean, Abort
  <2>3. DOMAIN files' \subseteq Name
    <3>1. CASE files' = files
      BY <3>1 DEF TypeOK
    <3>2. CASE Has(task[w].n) /\ files' = Renamed(files, task[w].n, BackupName(w))
      <4>1. BackupName(w) \in Name
        BY <2>1, BackupNameName
      <4>2. DOMAIN files' = (DOMAIN files \ {task[w].n}) \cup {BackupName(w)}
        BY <3>2, RenamedFile
      <4> QED BY <4>1, <4>2 DEF TypeOK
    <3>3. CASE files' = Put(files, task[w].n, temp[TempName(task[w].n)])
      <4>1. task[w].n \in Name
        BY <2>1 DEF NameInv
      <4>2. DOMAIN files' = DOMAIN files \cup {task[w].n}
        BY <3>3, PutFile
      <4> QED BY <4>1, <4>2 DEF TypeOK
    <3>4. CASE Fills(w, {task[w].data})
      BY <3>4, FillsOne DEF TypeOK
    <3> QED BY <1>2, <3>1, <3>2, <3>3, <3>4 DEF SessionStep, Check, Move, OpenTemp, FillTemp, Place, Clean, Abort
  <2>4. \A v \in Session : task'[v].at # "idle" => task'[v].n \in Name /\ ~ IsBackup(task'[v].n)
    BY <2>1 DEF NameInv
  <2> QED BY <1>b, <2>1, <2>2, <2>3, <2>4 DEF TypeOK, NameInv
<1>3. ASSUME NEW p \in Path, NEW c \in Content, UserWrite(p, c) PROVE TypeOK' /\ NameInv'
  <2>1. DOMAIN files' \subseteq Name
    <3>1. files' = Put(files, Plain(p), {c})
      BY <1>3 DEF UserWrite
    <3>2. DOMAIN files' = DOMAIN files \cup {Plain(p)}
      BY <3>1, PutFile
    <3> QED BY <3>2, PlainName DEF TypeOK
  <2>2. origin' \in [Path -> SUBSET Content]
    BY <1>3 DEF UserWrite, TypeOK
  <2>3. used' \in [files : Nat, edits : Nat, resolves : Nat]
    BY <1>3 DEF UserWrite, TypeOK
  <2>4. UNCHANGED <<task, choice, now>>
    BY <1>3 DEF UserWrite
  <2> QED BY <1>a, <1>b, <2>1, <2>2, <2>3, <2>4 DEF TypeOK, NameInv
<1>4. ASSUME NEW n \in DOMAIN files, Resolving(n) PROVE TypeOK' /\ NameInv'
  <2>1. used' \in [files : Nat, edits : Nat, resolves : Nat]
    BY <1>4, ResolvingOnly DEF TypeOK
  <2>2. UNCHANGED <<files, temp, task, now, origin>>
    BY <1>4, ResolvingOnly
  <2>3. /\ choice' \in Choice /\ choice'.n = n /\ n \in Name /\ IsBackup(n)
        /\ choice'.at \in {"overwrite", "fill", "rename"} =>
             choice'.to \in Name /\ ~ IsBackup(choice'.to) /\ choice'.to.path = n.path
    BY <1>4, ResolvingNames
  <2> QED BY <1>a, <2>1, <2>2, <2>3 DEF TypeOK, NameInv
<1>5. CASE Overwrite \/ FillFile
  <2>1. choice \in Choice /\ choice.to \in Name /\ choice.n \in Name /\ IsBackup(choice.n)
        /\ ~ IsBackup(choice.to) /\ choice.to.path = choice.n.path
    BY <1>5 DEF Overwrite, FillFile, TypeOK, NameInv
  <2>2. DOMAIN files' \subseteq Name
    <3>1. CASE files' = Put(files, choice.to, {})
      <4>1. DOMAIN files' = DOMAIN files \cup {choice.to}
        BY <3>1, PutFile
      <4> QED BY <2>1, <4>1 DEF TypeOK
    <3>2. CASE Fills("user", choice.data)
      BY <3>2, FillsOne DEF TypeOK
    <3> QED BY <1>5, <3>1, <3>2 DEF Overwrite, FillFile
  <2>3. /\ choice' \in Choice /\ choice'.at \in {"fill", "drop"}
        /\ choice'.n = choice.n /\ choice'.to = choice.to
    BY <1>5, <2>1 DEF Overwrite, FillFile, Choice
  <2>4. UNCHANGED <<task, now, used, origin>>
    BY <1>5 DEF Overwrite, FillFile
  <2> QED BY <1>a, <2>1, <2>2, <2>3, <2>4 DEF TypeOK, NameInv
<1>6. CASE Drop \/ Rename \/ Abandon
  <2>1. choice' = NoChoice /\ UNCHANGED <<task, now, used, origin>>
    BY <1>6 DEF Drop, Rename, Abandon
  <2>2. DOMAIN files' \subseteq Name
    <3>1. CASE files' = files
      BY <3>1 DEF TypeOK
    <3>2. CASE files' = Without(files, choice.n)
      BY <3>2, WithoutFile DEF TypeOK
    <3>3. CASE choice.at = "rename" /\ Has(choice.n) /\ files' = Renamed(files, choice.n, choice.to)
      <4>1. DOMAIN files' = (DOMAIN files \ {choice.n}) \cup {choice.to}
        BY <3>3, RenamedFile
      <4> QED BY <3>3, <4>1 DEF TypeOK, NameInv
    <3> QED BY <1>6, <3>1, <3>2, <3>3 DEF Drop, Rename, Abandon
  <2> QED BY <1>a, <1>b, <2>1, <2>2 DEF TypeOK, NameInv
<1>7. CASE Tick \/ UNCHANGED vars
  <2>1. now' \in Nat \ {0} /\ UNCHANGED <<files, task, choice, used, origin>>
    BY <1>7 DEF Tick, TypeOK
  <2> QED BY <1>a, <1>b, <2>1 DEF TypeOK, NameInv
<1> QED BY <1>1, <1>2, <1>3, <1>4, <1>5, <1>6, <1>7, StepKinds

-----------------------------------------------------------------------------
(* Where contents come from. *)

\* The history of a path only grows.
LEMMA OriginGrows ==
  ASSUME TypeOK, [Next]_vars PROVE \A p \in Path : origin[p] \subseteq origin'[p]
<1>1. ASSUME NEW w \in Session, NEW c \in Content, NEW n \in Names, Arrive(w, n, c)
      PROVE  \A p \in Path : origin[p] \subseteq origin'[p]
  BY <1>1 DEF Arrive, TypeOK
<1>2. ASSUME NEW p \in Path, NEW c \in Content, UserWrite(p, c)
      PROVE  \A q \in Path : origin[q] \subseteq origin'[q]
  BY <1>2 DEF UserWrite, TypeOK
<1>3. ASSUME NEW w \in Session, SessionStep(w)
      PROVE  origin' = origin
  BY <1>3 DEF SessionStep, Check, Move, OpenTemp, FillTemp, Place, Clean, Abort
<1>4. CASE Overwrite \/ FillFile \/ Drop \/ Rename \/ Abandon \/ Tick \/ UNCHANGED vars
  BY <1>4 DEF Overwrite, FillFile, Drop, Rename, Abandon, Tick
<1> QED BY <1>1, <1>2, <1>3, <1>4, ResolvingOnly, StepKinds

\* So what came under a path stays at home there.
LEMMA HomeStays ==
  ASSUME TypeOK, [Next]_vars, NEW stem, NEW c, Home(stem, c, origin)
  PROVE  Home(stem, c, origin')
BY OriginGrows DEF Home

\* The parts of HomeInv.
HomeFiles == \A n \in DOMAIN files : \A c \in files[n] : Home(Stem[n.path], c, origin)
HomeTemp  == \A k \in DOMAIN temp : \A c \in temp[k] : Home(k[1], c, origin)
HomeTasks == \A w \in Session : task[w].at # "idle" => task[w].data \in origin[task[w].n.path]
HomeChoice == choice.at \in {"overwrite", "fill"} =>
                \A c \in choice.data : Home(Stem[choice.to.path], c, origin)

\* Files that stay as they are stay at home; one name may be new.
LEMMA HomeFilesStep ==
  ASSUME FilesInv, [Next]_vars, NEW n,
         n \in DOMAIN files' => \A c \in files'[n] : Home(Stem[n.path], c, origin'),
         \A m \in DOMAIN files' : m # n => m \in DOMAIN files /\ files'[m] = files[m]
  PROVE  HomeFiles'
<1>1. ASSUME NEW m \in DOMAIN files', m # n, NEW c \in files'[m]
      PROVE  Home(Stem[m.path], c, origin')
  <2>1. m \in DOMAIN files /\ files'[m] = files[m]
    BY <1>1
  <2>2. Home(Stem[m.path], c, origin)
    BY <1>1, <2>1 DEF FilesInv, HomeInv
  <2> QED BY <2>2, HomeStays DEF FilesInv
<1> QED BY <1>1 DEF HomeFiles

\* Tasks that stay as they are, or go on with their file.
LEMMA HomeTasksStep ==
  ASSUME FilesInv, [Next]_vars,
         \A w \in Session : task'[w].at # "idle" =>
           task[w].at # "idle" /\ task'[w].n = task[w].n /\ task'[w].data = task[w].data
  PROVE  HomeTasks'
<1>1. ASSUME NEW w \in Session, task'[w].at # "idle"
      PROVE  task'[w].data \in origin'[task'[w].n.path]
  <2>1. task[w].n.path \in Path /\ task[w].data \in origin[task[w].n.path]
    BY <1>1 DEF FilesInv, NameInv, HomeInv, Name
  <2> QED BY <1>1, <2>1, OriginGrows DEF FilesInv
<1> QED BY <1>1 DEF HomeTasks

\* The temporary files that stay as they are; one may be new.
LEMMA HomeTempStep ==
  ASSUME FilesInv, [Next]_vars, NEW k,
         k \in DOMAIN temp' => \A c \in temp'[k] : Home(k[1], c, origin'),
         \A m \in DOMAIN temp' : m # k => m \in DOMAIN temp /\ temp'[m] = temp[m]
  PROVE  HomeTemp'
<1>1. ASSUME NEW m \in DOMAIN temp', m # k, NEW c \in temp'[m] PROVE Home(m[1], c, origin')
  <2>1. m \in DOMAIN temp /\ temp'[m] = temp[m]
    BY <1>1
  <2>2. Home(m[1], c, origin)
    BY <1>1, <2>1 DEF FilesInv, HomeInv
  <2> QED BY <2>2, HomeStays DEF FilesInv
<1> QED BY <1>1 DEF HomeTemp

\* A resolution that stays as it is, goes on to fill, or is past its overwriting.
LEMMA HomeChoiceStep ==
  ASSUME FilesInv, [Next]_vars,
         \/ choice'.at \notin {"overwrite", "fill"}
         \/ /\ choice.at \in {"overwrite", "fill"}
            /\ choice'.to = choice.to /\ choice'.data = choice.data
         \/ choice' = choice
  PROVE  HomeChoice'
<1> SUFFICES ASSUME choice'.at \in {"overwrite", "fill"}, NEW c \in choice'.data
             PROVE  Home(Stem[choice'.to.path], c, origin')
  BY DEF HomeChoice
<1>1. /\ choice.at \in {"overwrite", "fill"}
      /\ choice'.to = choice.to /\ choice'.data = choice.data
  OBVIOUS
<1>2. Home(Stem[choice.to.path], c, origin)
  BY <1>1 DEF FilesInv, HomeInv
<1> QED BY <1>1, <1>2, HomeStays DEF FilesInv

\* Filling what is open keeps it at home, whether it is a temporary file still or
\* has been renamed.
LEMMA HomeFills ==
  ASSUME FilesInv, [Next]_vars, NEW w, NEW parts, NEW stem, Fills(w, parts),
         handle[w] # Gone => StemOf(handle[w]) = stem,
         \A c \in parts : Home(stem, c, origin)
  PROVE  HomeFiles' /\ HomeTemp'
<1>0. TypeOK /\ HomeInv
  BY DEF FilesInv
<1>1. ASSUME NEW m \in DOMAIN files', NEW c \in files'[m] PROVE Home(Stem[m.path], c, origin')
  <2>1. m \in DOMAIN files /\ files'[m] \subseteq files[m] \cup parts
    BY FillsOne
  <2>2. CASE c \in files[m]
    BY <1>0, <2>1, <2>2, HomeStays DEF HomeInv
  <2>3. CASE c \notin files[m]
    <3>1. c \in parts /\ files'[m] # files[m]
      BY <1>1, <2>1, <2>3
    <3>2. handle[w] # Gone /\ handle[w][1] = "file" /\ handle[w][2] = m
      BY <2>1, <3>1, FillsOne
    <3>3. Home(stem, c, origin) /\ Stem[m.path] = stem
      BY <3>1, <3>2 DEF StemOf
    <3> QED BY <1>0, <3>3, HomeStays
  <2> QED BY <2>2, <2>3
<1>2. ASSUME NEW k \in DOMAIN temp', NEW c \in temp'[k] PROVE Home(k[1], c, origin')
  <2>1. k \in DOMAIN temp /\ temp'[k] \subseteq temp[k] \cup parts
    BY FillsOne
  <2>2. CASE c \in temp[k]
    BY <1>0, <2>1, <2>2, HomeStays DEF HomeInv
  <2>3. CASE c \notin temp[k]
    <3>1. c \in parts /\ temp'[k] # temp[k]
      BY <1>2, <2>1, <2>3
    <3>2. handle[w] # Gone /\ handle[w][1] = "temp" /\ handle[w][2] = k
      BY <2>1, <3>1, FillsOne
    <3>3. Home(stem, c, origin) /\ k[1] = stem
      BY <3>1, <3>2 DEF StemOf
    <3> QED BY <1>0, <3>3, HomeStays
  <2> QED BY <2>2, <2>3
<1> QED BY <1>1, <1>2 DEF HomeFiles, HomeTemp

\* Every step keeps the contents at home.
LEMMA HomeStep == FilesInv /\ [Next]_vars => HomeInv'
<1> SUFFICES ASSUME FilesInv, [Next]_vars
             PROVE  HomeFiles' /\ HomeTemp' /\ HomeTasks' /\ HomeChoice'
  BY DEF HomeInv, HomeFiles, HomeTemp, HomeTasks, HomeChoice
<1>0. TypeOK /\ NameInv /\ HomeInv /\ HandleInv
  BY DEF FilesInv
\* What a step leaves alone stays at home.
<1>a. ASSUME files' = files PROVE HomeFiles'
  <2>1. ASSUME NEW m \in DOMAIN files, NEW c \in files[m] PROVE Home(Stem[m.path], c, origin')
    BY <1>0, <2>1, HomeStays DEF HomeInv
  <2> QED BY <1>a, <2>1 DEF HomeFiles
<1>b. ASSUME temp' = temp PROVE HomeTemp'
  <2>1. ASSUME NEW k \in DOMAIN temp, NEW c \in temp[k] PROVE Home(k[1], c, origin')
    BY <1>0, <2>1, HomeStays DEF HomeInv
  <2> QED BY <1>b, <2>1 DEF HomeTemp
<1>c. ASSUME task' = task PROVE HomeTasks'
  BY <1>c, HomeTasksStep
<1>d. ASSUME choice' = choice \/ choice'.at \notin {"overwrite", "fill"} PROVE HomeChoice'
  BY <1>d, HomeChoiceStep
<1>1. ASSUME NEW w \in Session, NEW c \in Content, NEW n \in Names, Arrive(w, n, c)
      PROVE  HomeFiles' /\ HomeTemp' /\ HomeTasks' /\ HomeChoice'
  <2>1. UNCHANGED <<files, temp, choice>>
    BY <1>1 DEF Arrive
  <2>2. n.path \in Path
    BY <1>0, NamesName DEF Name
  <2>3. /\ task'[w].n = n /\ task'[w].data = c
        /\ \A v \in Session : v # w => task'[v] = task[v]
    BY <1>0, <1>1 DEF Arrive, TypeOK
  <2>4. c \in origin'[n.path]
    BY <1>0, <1>1, <2>2 DEF Arrive, TypeOK
  <2>5. ASSUME NEW v \in Session, v # w, task[v].at # "idle"
        PROVE  task[v].data \in origin'[task[v].n.path]
    <3>1. task[v].n.path \in Path /\ task[v].data \in origin[task[v].n.path]
      BY <1>0, <2>5 DEF NameInv, HomeInv, Name
    <3> QED BY <1>0, <3>1, OriginGrows
  <2>6. HomeTasks'
    BY <2>3, <2>4, <2>5 DEF HomeTasks
  <2> QED BY <1>a, <1>b, <1>d, <2>1, <2>6
<1>2. ASSUME NEW w \in Session, SessionStep(w)
      PROVE  HomeFiles' /\ HomeTemp' /\ HomeTasks' /\ HomeChoice'
  <2>0. task[w].at # "idle" /\ task[w].n \in Name /\ task[w].n.path \in Path
    BY <1>0, <1>2, SessionSteps DEF NameInv, Name
  <2>1. HomeTasks' /\ HomeChoice'
    <3>1. choice' = choice
      BY <1>2 DEF SessionStep, Check, Move, OpenTemp, FillTemp, Place, Clean, Abort
    <3> QED BY <1>0, <1>2, <1>d, <3>1, SessionSteps, HomeTasksStep
  <2>2. CASE Check(w) \/ Abort(w)
    BY <1>a, <1>b, <2>1, <2>2 DEF Check, Abort
  <2>3. CASE Move(w)
    <3>1. temp' = temp
      BY <2>3 DEF Move
    <3>2. CASE files' = files
      BY <1>a, <1>b, <2>1, <3>1, <3>2
    <3>3. CASE Has(task[w].n) /\ files' = Renamed(files, task[w].n, BackupName(w))
      <4>1. PICK b \in Name : b = BackupName(w) /\ b.path = task[w].n.path
        BY <1>0, <2>0, BackupNameName
      <4>2. /\ DOMAIN files' = (DOMAIN files \ {task[w].n}) \cup {b}
            /\ files'[b] = files[task[w].n]
            /\ \A m \in DOMAIN files : m \notin {task[w].n, b} => files'[m] = files[m]
        <5>1. Has(task[w].n) /\ files' = Renamed(files, task[w].n, b)
          BY <3>3, <4>1
        <5> QED BY <5>1, RenamedFile
      <4>3. ASSUME NEW c \in files'[b] PROVE Home(Stem[b.path], c, origin')
        <5>1. Home(Stem[task[w].n.path], c, origin)
          BY <1>0, <3>3, <4>2, <4>3 DEF HomeInv, Has
        <5> QED BY <1>0, <4>1, <5>1, HomeStays
      <4>4. HomeFiles'
        BY <4>2, <4>3, HomeFilesStep
      <4> QED BY <1>b, <2>1, <3>1, <4>4
    <3> QED BY <2>3, <3>2, <3>3 DEF Move
  <2>4. CASE OpenTemp(w)
    <3>1. files' = files /\ temp' = Put(temp, TempName(task[w].n), {})
      BY <2>4 DEF OpenTemp, Emptied
    <3>2. PICK k : k = TempName(task[w].n)
      OBVIOUS
    <3>3. /\ DOMAIN temp' = DOMAIN temp \cup {k} /\ temp'[k] = {}
          /\ \A m \in DOMAIN temp : m # k => temp'[m] = temp[m]
      BY <3>1, <3>2 DEF Put
    <3>4. HomeTemp'
      BY <3>3, HomeTempStep
    <3> QED BY <1>a, <2>1, <3>1, <3>4
  <2>5. CASE FillTemp(w)
    <3>1. Fills(w, {task[w].data})
      BY <2>5 DEF FillTemp
    <3>2. handle[w] # Gone => StemOf(handle[w]) = Stem[task[w].n.path]
      BY <1>0 DEF HandleInv
    <3>3. Home(Stem[task[w].n.path], task[w].data, origin)
      BY <1>0, <2>0 DEF HomeInv, Home
    <3>4. HomeFiles' /\ HomeTemp'
      BY <3>1, <3>2, <3>3, HomeFills
    <3> QED BY <2>1, <3>4
  <2>6. CASE Place(w)
    <3>1. CASE UNCHANGED <<files, temp>>
      BY <1>a, <1>b, <2>1, <3>1
    <3>2. CASE /\ TempName(task[w].n) \in DOMAIN temp
               /\ files' = Put(files, task[w].n, temp[TempName(task[w].n)])
               /\ temp' = Without(temp, TempName(task[w].n))
      <4>1. PICK k \in DOMAIN temp : k = TempName(task[w].n)
        BY <3>2
      <4>2. /\ DOMAIN files' = DOMAIN files \cup {task[w].n}
            /\ files'[task[w].n] = temp[k]
            /\ \A m \in DOMAIN files : m # task[w].n => files'[m] = files[m]
        BY <3>2, <4>1, PutFile
      <4>3. ASSUME NEW c \in files'[task[w].n] PROVE Home(Stem[task[w].n.path], c, origin')
        <5>1. Home(k[1], c, origin)
          BY <1>0, <4>2, <4>3 DEF HomeInv
        <5>2. k[1] = Stem[task[w].n.path]
          BY <4>1 DEF TempName
        <5> QED BY <1>0, <5>1, <5>2, HomeStays
      <4>4. HomeFiles'
        BY <4>2, <4>3, HomeFilesStep
      <4>5. \A m \in DOMAIN temp' : m # k => m \in DOMAIN temp /\ temp'[m] = temp[m]
        BY <3>2 DEF Without, Restrict
      <4>6. k \notin DOMAIN temp'
        BY <3>2, <4>1 DEF Without, Restrict
      <4>7. HomeTemp'
        BY <4>5, <4>6, HomeTempStep
      <4> QED BY <2>1, <4>4, <4>7
    <3> QED BY <2>6, <3>1, <3>2 DEF Place
  <2>7. CASE Clean(w)
    <3>1. files' = files /\ temp' = Without(temp, TempName(task[w].n))
      BY <2>7 DEF Clean
    <3>2. PICK k : k = TempName(task[w].n)
      OBVIOUS
    <3>3. /\ k \notin DOMAIN temp'
          /\ \A m \in DOMAIN temp' : m # k => m \in DOMAIN temp /\ temp'[m] = temp[m]
      BY <3>1, <3>2 DEF Without, Restrict
    <3>4. HomeTemp'
      BY <3>3, HomeTempStep
    <3> QED BY <1>a, <2>1, <3>1, <3>4
  <2> QED BY <1>2, <2>2, <2>3, <2>4, <2>5, <2>6, <2>7 DEF SessionStep
<1>3. ASSUME NEW p \in Path, NEW c \in Content, UserWrite(p, c)
      PROVE  HomeFiles' /\ HomeTemp' /\ HomeTasks' /\ HomeChoice'
  <2>1. files' = Put(files, Plain(p), {c}) /\ UNCHANGED <<temp, task, choice>>
    BY <1>3 DEF UserWrite
  <2>2. PICK n \in Name : n = Plain(p) /\ n.path = p
    BY PlainName
  <2>3. /\ DOMAIN files' = DOMAIN files \cup {n} /\ files'[n] = {c}
        /\ \A m \in DOMAIN files : m # n => files'[m] = files[m]
    BY <2>1, <2>2, PutFile
  <2>4. \A d \in files'[n] : Home(Stem[n.path], d, origin')
    <3>1. c \in origin'[p]
      BY <1>0, <1>3 DEF UserWrite, TypeOK
    <3> QED BY <2>2, <2>3, <3>1 DEF Home
  <2>5. HomeFiles'
    BY <2>3, <2>4, HomeFilesStep
  <2> QED BY <1>b, <1>c, <1>d, <2>1, <2>5
<1>4. ASSUME NEW n \in DOMAIN files, Resolving(n)
      PROVE  HomeFiles' /\ HomeTemp' /\ HomeTasks' /\ HomeChoice'
  <2>1. UNCHANGED <<files, temp, task, origin>>
    BY <1>4, ResolvingOnly
  <2>2. /\ choice'.data = files[n]
        /\ choice'.at \in {"overwrite", "fill"} => choice'.to.path = n.path
    BY <1>0, <1>4, ResolvingNames
  <2>3. \A c \in files[n] : Home(Stem[n.path], c, origin)
    BY <1>0 DEF HomeInv
  <2>4. HomeChoice'
    BY <2>1, <2>2, <2>3 DEF HomeChoice
  <2> QED BY <1>a, <1>b, <1>c, <2>1, <2>4
<1>5. CASE Overwrite
  <2>1. /\ files' = Put(files, choice.to, {}) /\ UNCHANGED <<temp, task>>
        /\ choice.at = "overwrite" /\ choice' = [choice EXCEPT !.at = "fill"]
    BY <1>5 DEF Overwrite
  <2>2. /\ DOMAIN files' = DOMAIN files \cup {choice.to} /\ files'[choice.to] = {}
        /\ \A m \in DOMAIN files : m # choice.to => files'[m] = files[m]
    BY <2>1, PutFile
  <2>3. HomeFiles'
    BY <2>2, HomeFilesStep
  <2>4. choice'.to = choice.to /\ choice'.data = choice.data
    BY <1>0, <2>1 DEF TypeOK, Choice
  <2>5. HomeChoice'
    BY <2>1, <2>4, HomeChoiceStep
  <2> QED BY <1>b, <1>c, <2>1, <2>3, <2>5
<1>9. CASE FillFile
  <2>1. /\ Fills("user", choice.data) /\ UNCHANGED task
        /\ choice.at = "fill" /\ choice' = [choice EXCEPT !.at = "drop"]
    BY <1>9 DEF FillFile
  <2>2. /\ handle["user"] # Gone => StemOf(handle["user"]) = Stem[choice.to.path]
        /\ \A c \in choice.data : Home(Stem[choice.to.path], c, origin)
    BY <1>0, <2>1 DEF HandleInv, HomeInv
  <2>3. HomeFiles' /\ HomeTemp'
    BY <2>1, <2>2, HomeFills
  <2>4. choice'.at \notin {"overwrite", "fill"}
    BY <1>0, <2>1 DEF TypeOK, Choice
  <2> QED BY <1>c, <1>d, <2>1, <2>3, <2>4
<1>6. CASE Drop
  <2>1. /\ files' = Without(files, choice.n) /\ UNCHANGED <<temp, task>>
        /\ choice' = NoChoice /\ choice.at = "drop"
    BY <1>6 DEF Drop
  <2>2. choice.n \in Name
    BY <1>0, <2>1 DEF NameInv
  <2>3. /\ DOMAIN files' = DOMAIN files \ {choice.n}
        /\ \A m \in DOMAIN files : m # choice.n => files'[m] = files[m]
    BY <2>1, WithoutFile
  <2>4. HomeFiles'
    BY <2>2, <2>3, HomeFilesStep
  <2>5. choice'.at \notin {"overwrite", "fill"}
    BY <2>1 DEF NoChoice
  <2> QED BY <1>b, <1>c, <1>d, <2>1, <2>4, <2>5
<1>7. CASE Rename
  <2>1. /\ UNCHANGED <<temp, task>> /\ choice' = NoChoice /\ choice.at = "rename"
        /\ files' = IF Has(choice.n) THEN Renamed(files, choice.n, choice.to) ELSE files
    BY <1>7 DEF Rename
  <2>2. choice'.at \notin {"overwrite", "fill"}
    BY <2>1 DEF NoChoice
  <2>3. choice.to \in Name /\ choice.to.path = choice.n.path /\ choice.n.path \in Path
    BY <1>0, <2>1 DEF NameInv, Name
  <2>4. CASE Has(choice.n)
    <3>1. /\ DOMAIN files' = (DOMAIN files \ {choice.n}) \cup {choice.to}
          /\ files'[choice.to] = files[choice.n]
          /\ \A m \in DOMAIN files : m \notin {choice.n, choice.to} => files'[m] = files[m]
      BY <2>1, <2>4, RenamedFile
    <3>2. ASSUME NEW c \in files'[choice.to] PROVE Home(Stem[choice.to.path], c, origin')
      <4>1. Home(Stem[choice.n.path], c, origin)
        BY <1>0, <2>4, <3>1, <3>2 DEF HomeInv, Has
      <4> QED BY <1>0, <2>3, <4>1, HomeStays
    <3>3. HomeFiles'
      BY <2>3, <3>1, <3>2, HomeFilesStep
    <3> QED BY <1>b, <1>c, <1>d, <2>1, <2>2, <3>3
  <2>5. CASE ~ Has(choice.n)
    BY <1>a, <1>b, <1>c, <1>d, <2>1, <2>2, <2>5
  <2> QED BY <2>4, <2>5
<1>8. CASE Abandon \/ Tick \/ UNCHANGED vars
  <2>1. UNCHANGED <<files, temp, task>> /\ (choice' = choice \/ choice' = NoChoice)
    BY <1>8 DEF Abandon, Tick
  <2>2. NoChoice.at \notin {"overwrite", "fill"}
    BY DEF NoChoice
  <2> QED BY <1>a, <1>b, <1>c, <1>d, <2>1, <2>2
<1> QED BY <1>1, <1>2, <1>3, <1>4, <1>5, <1>6, <1>7, <1>8, <1>9, StepKinds

-----------------------------------------------------------------------------
(* What is open for writing. *)

\* Open files stay open, where they were or under a name of the same stem.
Follows ==
  /\ handle' = [w \in Writer |-> handle'[w]]
  /\ \A w \in Writer : handle'[w] # Gone =>
       handle[w] # Gone /\ StemOf(handle'[w]) = StemOf(handle[w])

LEMMA MovedFollows ==
  ASSUME NEW from, NEW to, from # Gone, to = Gone \/ StemOf(to) = StemOf(from), Moved(from, to)
  PROVE  Follows
BY Zenon DEF Follows, Moved

LEMMA ClosedFollows ==
  ASSUME HandleInv, NEW w \in Writer, Closed(w)
  PROVE  Follows /\ handle'[w] = Gone
BY DEF Follows, Closed, HandleInv

\* Places are told apart by what they are.
LEMMA Places ==
  ASSUME NEW n, NEW k
  PROVE  /\ InFolder(n) # Gone /\ InTemp(k) # Gone
         /\ StemOf(InFolder(n)) = Stem[n.path] /\ StemOf(InTemp(k)) = k[1]
<1>1. InFolder(n)[1] = "file" /\ InTemp(k)[1] = "temp" /\ Gone[1] = "gone"
  BY DEF InFolder, InTemp, Gone
<1> QED BY <1>1 DEF StemOf, InFolder, InTemp

\* A writer whose file stays open has not gone on.
LEMMA HandleGoes ==
  ASSUME HandleInv, Follows,
         \A w \in Session : task'[w] = task[w] \/ handle[w] = Gone \/ handle'[w] = Gone,
         choice' = choice \/ handle["user"] = Gone \/ handle'["user"] = Gone
  PROVE  HandleInv'
<1>1. Session \subseteq Writer /\ "user" \in Writer
  BY DEF Writer
<1>2. ASSUME NEW w \in Session, handle'[w] # Gone
      PROVE  task'[w].at = "fill" /\ StemOf(handle'[w]) = Stem[task'[w].n.path]
  <2>1. handle[w] # Gone /\ StemOf(handle'[w]) = StemOf(handle[w]) /\ task'[w] = task[w]
    BY <1>1, <1>2 DEF Follows
  <2> QED BY <2>1 DEF HandleInv
<1>3. ASSUME handle'["user"] # Gone
      PROVE  choice'.at = "fill" /\ StemOf(handle'["user"]) = Stem[choice'.to.path]
  <2>1. handle["user"] # Gone /\ StemOf(handle'["user"]) = StemOf(handle["user"]) /\ choice' = choice
    BY <1>1, <1>3 DEF Follows
  <2> QED BY <2>1 DEF HandleInv
<1>4. handle' = [w \in Writer |-> handle'[w]]
  BY DEF Follows
<1>5. HandleInv' <=> /\ handle' = [w \in Writer |-> handle'[w]]
                     /\ \A w \in Session : handle'[w] # Gone =>
                          task'[w].at = "fill" /\ StemOf(handle'[w]) = Stem[task'[w].n.path]
                     /\ handle'["user"] # Gone =>
                          choice'.at = "fill" /\ StemOf(handle'["user"]) = Stem[choice'.to.path]
  BY DEF HandleInv, StemOf, Gone
<1> QED BY <1>2, <1>3, <1>4, <1>5

\* Every step keeps what is open at home.
LEMMA HandleStep == FilesInv /\ [Next]_vars => HandleInv'
<1> SUFFICES ASSUME FilesInv, [Next]_vars PROVE HandleInv'
  OBVIOUS
<1>0. TypeOK /\ NameInv /\ HandleInv
  BY DEF FilesInv
<1>w. Session \subseteq Writer /\ "user" \in Writer /\ "user" \notin Session
  BY FilesAssumption DEF Writer
<1>u. ASSUME handle' = handle PROVE Follows
  BY <1>0, <1>u DEF Follows, HandleInv
<1>1. ASSUME NEW w \in Session, NEW c \in Content, NEW n \in Names, Arrive(w, n, c)
      PROVE  HandleInv'
  <2>1. /\ handle' = handle /\ choice' = choice /\ handle[w] = Gone
        /\ \A v \in Session : v # w => task'[v] = task[v]
    BY <1>0, <1>1 DEF Arrive, TypeOK, HandleInv
  <2> QED BY <1>0, <1>u, <2>1, HandleGoes
<1>2. ASSUME NEW w \in Session, SessionStep(w) PROVE HandleInv'
  <2>1. /\ choice' = choice /\ \A v \in Session : v # w => task'[v] = task[v]
        /\ task[w].at # "idle" /\ task[w].n \in Name
    BY <1>0, <1>2, SessionSteps DEF SessionStep, Check, Move, OpenTemp, FillTemp, Place, Clean, Abort, NameInv
  <2>2. CASE OpenTemp(w)
    <3>1. /\ handle' = [handle EXCEPT ![w] = InTemp(TempName(task[w].n))]
          /\ task' = [task EXCEPT ![w].at = "fill"]
      BY <2>2 DEF OpenTemp
    <3>2. task'[w].at = "fill" /\ task'[w].n = task[w].n
      BY <1>0, <3>1, TaskGoes
    <3>3. TempName(task[w].n)[1] = Stem[task[w].n.path]
      BY DEF TempName
    <3>4. PICK h : h = InTemp(TempName(task[w].n)) /\ StemOf(h) = Stem[task[w].n.path]
      BY <3>3, Places
    <3>5. /\ handle' = [v \in Writer |-> handle'[v]] /\ handle'[w] = h
          /\ \A v \in Writer : v # w => handle'[v] = handle[v]
      BY <1>0, <1>w, <3>1, <3>4 DEF HandleInv
    <3>6. ASSUME NEW v \in Session, handle'[v] # Gone
          PROVE  task'[v].at = "fill" /\ StemOf(handle'[v]) = Stem[task'[v].n.path]
      <4>1. CASE v = w
        BY <3>2, <3>4, <3>5, <4>1
      <4>2. CASE v # w
        <5>1. handle'[v] = handle[v] /\ task'[v] = task[v]
          BY <1>w, <2>1, <3>5, <4>2
        <5> QED BY <1>0, <3>6, <5>1 DEF HandleInv
      <4> QED BY <4>1, <4>2
    <3>7. handle'["user"] = handle["user"]
      BY <1>w, <3>5
    <3>8. ASSUME handle'["user"] # Gone
          PROVE  choice'.at = "fill" /\ StemOf(handle'["user"]) = Stem[choice'.to.path]
      BY <1>0, <2>1, <3>7, <3>8 DEF HandleInv
    <3> QED BY <3>5, <3>6, <3>8 DEF HandleInv, StemOf, Gone
  <2>3. CASE FillTemp(w) \/ Abort(w)
    <3>1. Closed(w)
      BY <2>3, FillsOne DEF FillTemp, Abort
    <3>2. Follows /\ handle'[w] = Gone
      BY <1>0, <1>w, <3>1, ClosedFollows
    <3> QED BY <1>0, <2>1, <3>2, HandleGoes
  <2>4. CASE Check(w) \/ Move(w) \/ Place(w) \/ Clean(w)
    <3>1. handle[w] = Gone
      BY <1>0, <2>4 DEF Check, Move, Place, Clean, HandleInv
    <3>2. CASE handle' = handle
      BY <1>0, <1>u, <2>1, <3>1, <3>2, HandleGoes
    <3>3. CASE Move(w) /\ Moved(InFolder(task[w].n), InFolder(BackupName(w)))
      <4>1. BackupName(w).path = task[w].n.path
        BY <1>0, <2>1, BackupNameName
      <4>2. Follows
        BY <3>3, <4>1, MovedFollows, Places
      <4> QED BY <1>0, <2>1, <3>1, <4>2, HandleGoes
    <3>4. CASE Moved(InTemp(TempName(task[w].n)), InFolder(task[w].n))
      <4>1. TempName(task[w].n)[1] = Stem[task[w].n.path]
        BY DEF TempName
      <4>2. Follows
        BY <3>4, <4>1, MovedFollows, Places
      <4> QED BY <1>0, <2>1, <3>1, <4>2, HandleGoes
    <3>5. CASE Moved(InTemp(TempName(task[w].n)), Gone)
      <4>1. Follows
        BY <3>5, MovedFollows, Places
      <4> QED BY <1>0, <2>1, <3>1, <4>1, HandleGoes
    <3> QED BY <2>4, <3>2, <3>3, <3>4, <3>5 DEF Check, Move, Place, Clean
  <2> QED BY <1>2, <2>2, <2>3, <2>4 DEF SessionStep
<1>3. ASSUME NEW p \in Path, NEW c \in Content, UserWrite(p, c) PROVE HandleInv'
  <2>1. task' = task /\ choice' = choice
    BY <1>3 DEF UserWrite
  <2>2. Follows
    BY <1>3, <1>u, MovedFollows, Places DEF UserWrite
  <2> QED BY <1>0, <2>1, <2>2, HandleGoes
<1>4. ASSUME NEW n \in DOMAIN files, Resolving(n) PROVE HandleInv'
  <2>1. handle' = handle /\ task' = task /\ choice.at = "idle"
    BY <1>4, ResolvingOnly
  <2>2. handle["user"] = Gone
    BY <1>0, <2>1 DEF HandleInv
  <2> QED BY <1>0, <1>u, <2>1, <2>2, HandleGoes
<1>5. CASE Overwrite
  <2>1. /\ handle' = [handle EXCEPT !["user"] = InFolder(choice.to)] /\ task' = task
        /\ choice' = [choice EXCEPT !.at = "fill"]
    BY <1>5 DEF Overwrite
  <2>2. choice'.at = "fill" /\ choice'.to = choice.to
    BY <1>0, <2>1 DEF TypeOK, Choice
  <2>3. PICK h : h = InFolder(choice.to) /\ StemOf(h) = Stem[choice.to.path]
    BY Places
  <2>4. /\ handle' = [v \in Writer |-> handle'[v]] /\ handle'["user"] = h
        /\ \A v \in Writer : v # "user" => handle'[v] = handle[v]
    BY <1>0, <1>w, <2>1, <2>3 DEF HandleInv
  <2>5. ASSUME NEW v \in Session, handle'[v] # Gone
        PROVE  task'[v].at = "fill" /\ StemOf(handle'[v]) = Stem[task'[v].n.path]
    <3>1. handle'[v] = handle[v]
      BY <1>w, <2>4
    <3> QED BY <1>0, <2>1, <2>5, <3>1 DEF HandleInv
  <2> QED BY <2>2, <2>3, <2>4, <2>5 DEF HandleInv, StemOf, Gone
<1>6. CASE FillFile \/ Abandon
  <2>1. Closed("user") /\ task' = task
    BY <1>6, FillsOne DEF FillFile, Abandon
  <2>2. Follows /\ handle'["user"] = Gone
    BY <1>0, <1>w, <2>1, ClosedFollows
  <2> QED BY <1>0, <2>1, <2>2, HandleGoes
<1>7. CASE Drop \/ Rename
  <2>1. task' = task /\ choice.at \in {"drop", "rename"}
    BY <1>7 DEF Drop, Rename
  <2>2. handle["user"] = Gone
    BY <1>0, <2>1 DEF HandleInv
  <2>3. Follows
    <3>1. CASE Drop
      BY <3>1, MovedFollows, Places DEF Drop
    <3>2. CASE Rename /\ handle' = handle
      BY <1>u, <3>2
    <3>3. CASE Rename /\ Moved(InFolder(choice.n), InFolder(choice.to))
      <4>1. choice.to.path = choice.n.path
        BY <1>0, <3>3 DEF Rename, NameInv
      <4> QED BY <3>3, <4>1, MovedFollows, Places
    <3> QED BY <1>7, <3>1, <3>2, <3>3 DEF Rename
  <2> QED BY <1>0, <2>1, <2>2, <2>3, HandleGoes
<1>8. CASE Tick \/ UNCHANGED vars
  <2>1. UNCHANGED <<handle, task, choice>>
    BY <1>8 DEF Tick
  <2> QED BY <1>0, <1>u, <2>1, HandleGoes
<1> QED BY <1>1, <1>2, <1>3, <1>4, <1>5, <1>6, <1>7, <1>8, StepKinds

-----------------------------------------------------------------------------
(* What a writer may rely on. *)

LookTask(w) ==
  task[w].at \in {"write", "fill", "place"} /\ task[w].n \notin written[w] /\ Has(task[w].n) =>
    files[task[w].n] = {task[w].data}
LookChoice ==
  choice.at # "idle" /\ choice.n \notin written["user"] /\ Has(choice.n) =>
    files[choice.n] = choice.data
LookFree == choice.at = "rename" /\ choice.to \notin written["user"] => ~ Has(choice.to)

\* A name a writer works on that is not marked afterwards was not marked before,
\* and the step did not write it.
LEMMA Unmarked ==
  ASSUME NEW looks, Track(looks), NEW w \in Writer, w \notin looks, NEW n \in WorksOn(w),
         n \notin written'[w]
  PROVE  /\ n \notin written[w]
         /\ n \in DOMAIN files' => Has(n) /\ files'[n] = files[n]
BY DEF Track

\* A session that goes on with its file may rely on what it found.
LEMMA TaskLooks ==
  ASSUME NEW looks, Track(looks), NEW w \in Session, w \notin looks, LookTask(w),
         task[w].at \in {"write", "fill", "place"}, task'[w].n = task[w].n, task'[w].data = task[w].data
  PROVE  LookTask(w)'
<1> SUFFICES ASSUME task'[w].at \in {"write", "fill", "place"}, task'[w].n \notin written'[w],
                    task'[w].n \in DOMAIN files'
             PROVE  files'[task'[w].n] = {task'[w].data}
  BY DEF LookTask, Has
<1>1. w \in Writer /\ w # "user"
  BY FilesAssumption DEF Writer
<1>2. task'[w].n \in WorksOn(w)
  BY <1>1 DEF WorksOn
<1>3. /\ task'[w].n \notin written[w] /\ Has(task'[w].n)
      /\ files'[task'[w].n] = files[task'[w].n]
  BY <1>1, <1>2, Unmarked
<1> QED BY <1>3 DEF LookTask

\* So may a resolution.
LEMMA ChoiceLooks ==
  ASSUME NEW looks, Track(looks), "user" \notin looks, LookChoice,
         choice.at # "idle", choice'.n = choice.n, choice'.data = choice.data
  PROVE  LookChoice'
<1> SUFFICES ASSUME choice'.at # "idle", choice'.n \notin written'["user"],
                    choice'.n \in DOMAIN files'
             PROVE  files'[choice'.n] = choice'.data
  BY DEF LookChoice, Has
<1>1. "user" \in Writer /\ choice'.n \in WorksOn("user")
  BY DEF Writer, WorksOn
<1>2. /\ choice'.n \notin written["user"] /\ Has(choice'.n)
      /\ files'[choice'.n] = files[choice'.n]
  BY <1>1, Unmarked
<1> QED BY <1>2 DEF LookChoice

\* A name that keep_both found free is free, or marked.
LEMMA FreeLooks ==
  ASSUME NEW looks, Track(looks), "user" \notin looks, LookFree, choice' = choice
  PROVE  LookFree'
<1> SUFFICES ASSUME choice.at = "rename", choice.to \notin written'["user"],
                    choice.to \in DOMAIN files'
             PROVE  FALSE
  BY DEF LookFree, Has
<1>1. "user" \in Writer /\ choice.to \in WorksOn("user")
  BY DEF Writer, WorksOn
<1>2. choice.to \notin written["user"] /\ Has(choice.to)
  BY <1>1, Unmarked
<1> QED BY <1>2 DEF LookFree

\* Every step keeps what the writers may rely on.
LEMMA LookStep == FilesInv /\ [Next]_vars => LookInv'
<1> SUFFICES ASSUME FilesInv, [Next]_vars
             PROVE  (\A w \in Session : LookTask(w))' /\ LookChoice' /\ LookFree'
  BY DEF LookInv, LookTask, LookChoice, LookFree
<1>0. /\ TypeOK /\ NameInv /\ HomeInv
      /\ (\A w \in Session : LookTask(w)) /\ LookChoice /\ LookFree
  BY DEF FilesInv, LookInv, LookTask, LookChoice, LookFree
<1>u. "user" \notin Session
  BY FilesAssumption
\* Tasks and choices that a step leaves alone.
<1>a. ASSUME NEW looks, Track(looks), NEW w \in Session, w \notin looks, task'[w] = task[w]
      PROVE  LookTask(w)'
  <2>1. CASE task[w].at \in {"write", "fill", "place"}
    BY <1>0, <1>a, <2>1, TaskLooks
  <2>2. CASE task[w].at \notin {"write", "fill", "place"}
    BY <1>a, <2>2 DEF LookTask
  <2> QED BY <2>1, <2>2
<1>b. ASSUME NEW looks, Track(looks), "user" \notin looks, choice' = choice
      PROVE  LookChoice' /\ LookFree'
  <2>1. CASE choice.at # "idle"
    BY <1>0, <1>b, <2>1, ChoiceLooks, FreeLooks
  <2>2. CASE choice.at = "idle"
    BY <1>b, <2>2 DEF LookChoice, LookFree
  <2> QED BY <2>1, <2>2
<1>1. ASSUME NEW w \in Session, NEW c \in Content, NEW n \in Names, Arrive(w, n, c)
      PROVE  (\A v \in Session : LookTask(v))' /\ LookChoice' /\ LookFree'
  <2>1. /\ task'[w].at = "check" /\ choice' = choice /\ Track({})
        /\ \A v \in Session : v # w => task'[v] = task[v]
    BY <1>0, <1>1 DEF Arrive, TypeOK
  <2>2. LookTask(w)'
    BY <2>1 DEF LookTask
  <2>3. ASSUME NEW v \in Session, v # w PROVE LookTask(v)'
    BY <1>a, <2>1, <2>3
  <2>4. (\A v \in Session : LookTask(v))'
    BY <2>2, <2>3
  <2> QED BY <1>b, <2>1, <2>4
<1>2. ASSUME NEW w \in Session, SessionStep(w)
      PROVE  (\A v \in Session : LookTask(v))' /\ LookChoice' /\ LookFree'
  <2>1. PICK looks \in {{}, {w}} : Track(looks)
    BY <1>2 DEF SessionStep, Check, Move, OpenTemp, FillTemp, Place, Clean, Abort
  <2>2. choice' = choice /\ \A v \in Session : v # w => task'[v] = task[v]
    BY <1>0, <1>2, SessionSteps DEF SessionStep, Check, Move, OpenTemp, FillTemp, Place, Clean, Abort
  <2>3. LookChoice' /\ LookFree'
    BY <1>b, <1>u, <2>1, <2>2
  <2>4. ASSUME NEW v \in Session, v # w PROVE LookTask(v)'
    BY <1>a, <2>1, <2>2, <2>4
  <2>5. LookTask(w)'
    <3>1. CASE Check(w)
      <4>1. /\ files' = files
            /\ task' = [task EXCEPT ![w].at = NextStep(task[w])]
        BY <3>1 DEF Check
      <4>2. CASE Has(task[w].n) /\ files[task[w].n] # {task[w].data}
        <5>1. task' = [task EXCEPT ![w].at = "move"]
          BY <4>1, <4>2 DEF NextStep
        <5>2. task'[w].at = "move"
          BY <1>0, <5>1, TaskGoes
        <5> QED BY <5>2 DEF LookTask
      <4>3. CASE ~ (Has(task[w].n) /\ files[task[w].n] # {task[w].data})
        <5>1. task' = [task EXCEPT ![w].at = "write"]
          BY <4>1, <4>3 DEF NextStep
        <5>2. task'[w].n = task[w].n /\ task'[w].data = task[w].data
          BY <1>0, <5>1, TaskGoes
        <5> QED BY <4>1, <4>3, <5>2 DEF LookTask, Has
      <4> QED BY <4>2, <4>3
    <3>2. CASE Move(w) /\ Has(task[w].n)
      <4>1. /\ files' = Renamed(files, task[w].n, BackupName(w))
            /\ task' = [task EXCEPT ![w].at = "write"] /\ task[w].at = "move"
        BY <3>2 DEF Move
      <4>2. BackupName(w) # task[w].n
        BY <1>0, <4>1, BackupNameName
      <4>3. DOMAIN files' = (DOMAIN files \ {task[w].n}) \cup {BackupName(w)}
        BY <3>2, <4>1, RenamedFile
      <4>4. task'[w].n = task[w].n
        BY <1>0, <4>1, TaskGoes
      <4> QED BY <4>2, <4>3, <4>4 DEF LookTask, Has
    <3>3. CASE OpenTemp(w) \/ FillTemp(w)
      <4>1. PICK step \in {"fill", "place"} :
              /\ Track({}) /\ task[w].at \in {"write", "fill"}
              /\ task' = [task EXCEPT ![w].at = step]
        BY <3>3 DEF OpenTemp, FillTemp
      <4>2. task'[w].n = task[w].n /\ task'[w].data = task[w].data
        BY <1>0, <4>1, TaskGoes
      <4> QED BY <1>0, <4>1, <4>2, TaskLooks
    <3>5. CASE task' = [task EXCEPT ![w].at = "clean"]
      <4>1. task'[w].at = "clean"
        BY <1>0, <3>5, TaskGoes
      <4> QED BY <4>1 DEF LookTask
    <3>4. CASE task' = [task EXCEPT ![w] = NoFile]
      <4>1. task'[w].at = "idle"
        BY <1>0, <3>4, TaskEnds
      <4> QED BY <4>1 DEF LookTask
    <3> QED BY <1>2, <3>1, <3>2, <3>3, <3>4, <3>5 DEF SessionStep, Move, Place, Clean, Abort
  <2>6. (\A v \in Session : LookTask(v))'
    BY <2>4, <2>5
  <2> QED BY <2>3, <2>6
<1>3. ASSUME NEW p \in Path, NEW c \in Content, UserWrite(p, c)
      PROVE  (\A v \in Session : LookTask(v))' /\ LookChoice' /\ LookFree'
  <2>1. Track({}) /\ task' = task /\ choice' = choice
    BY <1>3 DEF UserWrite
  <2>2. ASSUME NEW v \in Session PROVE LookTask(v)'
    BY <1>a, <2>1, <2>2
  <2>3. (\A v \in Session : LookTask(v))'
    BY <2>2
  <2> QED BY <1>b, <2>1, <2>3
<1>4. ASSUME NEW n \in DOMAIN files, Resolving(n)
      PROVE  (\A v \in Session : LookTask(v))' /\ LookChoice' /\ LookFree'
  <2>1. Track({"user"}) /\ task' = task /\ files' = files
    BY <1>4, ResolvingOnly
  <2>2. ASSUME NEW v \in Session PROVE LookTask(v)'
    BY <1>a, <1>u, <2>1, <2>2
  <2>3. (\A v \in Session : LookTask(v))'
    BY <2>2
  <2>4. /\ choice'.n = n /\ choice'.data = files[n]
        /\ choice'.at = "rename" => ~ Has(choice'.to)
    BY <1>0, <1>4, ResolvingNames
  <2>5. LookChoice' /\ LookFree'
    BY <2>1, <2>4 DEF LookChoice, LookFree, Has
  <2> QED BY <2>3, <2>5
<1>5. CASE Overwrite \/ FillFile \/ Drop \/ Rename \/ Abandon
  <2>1. Track({}) /\ task' = task
    BY <1>5 DEF Overwrite, FillFile, Drop, Rename, Abandon
  <2>2. ASSUME NEW v \in Session PROVE LookTask(v)'
    BY <1>a, <2>1, <2>2
  <2>3. (\A v \in Session : LookTask(v))'
    BY <2>2
  <2>4. CASE choice' = NoChoice
    BY <2>3, <2>4 DEF NoChoice, LookChoice, LookFree
  <2>5. CASE Overwrite \/ FillFile
    <3>1. PICK step \in {"fill", "drop"} :
            choice.at \in {"overwrite", "fill"} /\ choice' = [choice EXCEPT !.at = step]
      BY <2>5 DEF Overwrite, FillFile
    <3>2. choice'.at = step /\ choice'.n = choice.n /\ choice'.data = choice.data
      BY <1>0, <3>1 DEF TypeOK, Choice
    <3>3. LookChoice'
      BY <1>0, <2>1, <3>1, <3>2, ChoiceLooks
    <3>4. LookFree'
      BY <3>2 DEF LookFree
    <3> QED BY <2>3, <3>3, <3>4
  <2> QED BY <1>5, <2>4, <2>5 DEF Drop, Rename, Abandon
<1>6. CASE Tick \/ UNCHANGED vars
  <2>1. UNCHANGED <<files, task, choice, written>>
    BY <1>6 DEF Tick
  <2>2. ASSUME NEW v \in Session PROVE LookTask(v)'
    BY <1>0, <2>1 DEF LookTask, Has
  <2>3. (\A v \in Session : LookTask(v))'
    BY <2>2
  <2>4. LookChoice' /\ LookFree'
    BY <1>0, <2>1 DEF LookChoice, LookFree, Has
  <2> QED BY <2>3, <2>4
<1> QED BY <1>1, <1>2, <1>3, <1>4, <1>5, <1>6, StepKinds

-----------------------------------------------------------------------------
(* The theorems. *)

\* At the start the folder holds what came under its paths, and nothing runs.
LEMMA InvInit == Init => FilesInv
<1> SUFFICES ASSUME Init PROVE FilesInv
  OBVIOUS
<1>1. PICK D \in SUBSET {Plain(p) : p \in Path} : files \in [D -> {{c} : c \in Content}]
  BY DEF Init
<1>2. \A n \in DOMAIN files : n \in Name /\ n.path \in Path /\ files[n] \in SUBSET Content
  BY <1>1, PlainName
<1>3. NoFile \in File /\ NoFile.at = "idle" /\ NoChoice \in Choice /\ NoChoice.at = "idle"
  BY DEF NoFile, File, NoChoice, Choice
<1>4. task \in [Session -> File] /\ \A w \in Session : task[w].at = "idle"
  BY <1>3 DEF Init
<1>5. choice \in Choice /\ choice.at = "idle"
  BY <1>3 DEF Init
<1>6. used \in [files : Nat, edits : Nat, resolves : Nat] /\ now \in Nat \ {0}
  BY DEF Init
<1>7. origin = [p \in Path |-> UNION {files[n] : n \in {m \in DOMAIN files : m.path = p}}]
  BY DEF Init
<1>8. origin \in [Path -> SUBSET Content]
  BY <1>2, <1>7
<1>9. \A n \in DOMAIN files : \A c \in files[n] : Home(Stem[n.path], c, origin)
  BY <1>2, <1>7 DEF Home
<1>10. DOMAIN temp = {}
  BY DEF Init
<1>11. TypeOK
  BY <1>2, <1>4, <1>5, <1>6, <1>8 DEF TypeOK
<1>12. NameInv /\ LookInv
  BY <1>4, <1>5 DEF NameInv, LookInv
<1>13. HomeInv
  BY <1>4, <1>5, <1>9, <1>10 DEF HomeInv
<1>14. HandleInv
  <2>1. handle = [w \in Writer |-> Gone] /\ Session \subseteq Writer /\ "user" \in Writer
    BY DEF Init, Writer
  <2> QED BY <2>1 DEF HandleInv
<1> QED BY <1>11, <1>12, <1>13, <1>14 DEF FilesInv

\* The invariant holds throughout.
LEMMA InvHolds == Spec => []FilesInv
<1>1. FilesInv /\ [Next]_vars => FilesInv'
  BY TypeStep, HomeStep, HandleStep, LookStep DEF FilesInv
<1> QED BY <1>1, InvInit, PTL DEF Spec

(***************************************************************************)
(* A file, its copies and its backups hold only parts of contents that     *)
(* came under that path, or under one that shares its temporary file,      *)
(* however the opening, filling and renaming of files by sessions, edits   *)
(* and resolutions interleave, and wherever they are cut off.              *)
(***************************************************************************)
THEOREM StayHome == Spec => []ContentsStayHome
<1>1. FilesInv => ContentsStayHome
  BY DEF FilesInv, HomeInv, Home, ContentsStayHome
<1> QED BY <1>1, InvHolds, PTL

\* A content that leaves the folder was held by a name the step changed.
LEMMA LostName ==
  ASSUME NEW c \in Contents(files) \ Contents(files')
  PROVE  \E m \in DOMAIN files : /\ files[m] = {c}
                                 /\ \A n \in DOMAIN files' : files'[n] # {c}
BY DEF Contents

\* Every loss is explained by the step that causes it.
LEMMA LossStep ==
  ASSUME FilesInv, [Next]_vars, NEW c \in Contents(files) \ Contents(files')
  PROVE  Explained(c)
<1>0. TypeOK /\ NameInv /\ HomeInv /\ LookInv
  BY DEF FilesInv
<1>1. PICK m \in DOMAIN files : files[m] = {c} /\ \A n \in DOMAIN files' : files'[n] # {c}
  BY LostName
<1>2. files' # files
  BY <1>1
<1>3. ASSUME NEW w \in Session, Move(w) PROVE Explained(c)
  <2>1. /\ task[w].at = "move" /\ Has(task[w].n)
        /\ task' = [task EXCEPT ![w].at = "write"]
    BY <1>2, <1>3 DEF Move
  <2>2. PICK b : b = BackupName(w)
    OBVIOUS
  <2>3. files' = Renamed(files, task[w].n, b)
    BY <1>3, <2>1, <2>2 DEF Move
  <2>4. /\ b.path = task[w].n.path /\ b.at = now /\ b.hash = task[w].data /\ IsBackup(b)
    BY <1>0, <2>1, <2>2, BackupNameName
  <2>5. /\ DOMAIN files' = (DOMAIN files \ {task[w].n}) \cup {b}
        /\ files'[b] = files[task[w].n]
        /\ \A n \in DOMAIN files : n \notin {task[w].n, b} => files'[n] = files[n]
    BY <2>1, <2>3, RenamedFile
  <2>6. m = b
    BY <1>1, <2>5
  <2>7. task'[w].at = "write"
    BY <1>0, <2>1, TaskGoes
  <2>8. task[w] # task'[w]
    BY <2>1, <2>7
  <2> QED BY <1>1, <2>1, <2>4, <2>6, <2>8 DEF Explained
<1>4. ASSUME NEW w \in Session, Place(w) PROVE Explained(c)
  <2>1. /\ task[w].at = "place" /\ task' = [task EXCEPT ![w] = NoFile]
        /\ files' = Put(files, task[w].n, temp[TempName(task[w].n)])
    BY <1>2, <1>4 DEF Place
  <2>2. task[w] # task'[w]
    BY <1>0, <2>1, TaskEnds
  <2>3. /\ DOMAIN files' = DOMAIN files \cup {task[w].n}
        /\ files'[task[w].n] = temp[TempName(task[w].n)]
        /\ \A n \in DOMAIN files : n # task[w].n => files'[n] = files[n]
    BY <2>1, PutFile
  <2>4. m = task[w].n
    BY <1>1, <2>3
  <2>5. CASE task[w].n \notin written[w]
    <3>1. files[task[w].n] = {task[w].data}
      BY <1>0, <2>1, <2>4, <2>5 DEF LookInv, Has
    <3>2. temp[TempName(task[w].n)] # {task[w].data}
      BY <1>1, <2>3, <2>4, <3>1
    <3> QED BY <2>1, <2>2, <3>2 DEF Explained
  <2>6. CASE task[w].n \in written[w]
    BY <2>1, <2>2, <2>6 DEF Explained
  <2> QED BY <2>5, <2>6
<1>10. ASSUME NEW w \in Session, FillTemp(w) PROVE Explained(c)
  <2>1. /\ task[w].at = "fill" /\ task' = [task EXCEPT ![w].at = "place"]
        /\ Fills(w, {task[w].data})
    BY <1>10 DEF FillTemp
  <2>2. task[w] # task'[w]
    <3>1. task'[w].at = "place"
      BY <1>0, <2>1, TaskGoes
    <3> QED BY <2>1, <3>1
  <2>3. files'[m] # files[m] /\ DOMAIN files' = DOMAIN files
    BY <1>1, <2>1, FillsOne
  <2>4. handle[w][1] = "file"
    BY <2>1, <2>3, FillsOne
  <2> QED BY <2>1, <2>2, <2>4 DEF Explained
<1>5. ASSUME NEW p \in Path, NEW d \in Content, UserWrite(p, d) PROVE Explained(c)
  <2>1. used' = [used EXCEPT !.edits = @ + 1]
    BY <1>5 DEF UserWrite
  <2>2. used \in [files : Nat, edits : Nat, resolves : Nat]
    BY <1>0 DEF TypeOK
  <2>3. used'.edits = used.edits + 1 /\ used.edits \in Nat
    BY <2>1, <2>2
  <2>4. used.edits # used'.edits
    BY <2>3
  <2> QED BY <2>4 DEF Explained
<1>6. CASE Overwrite \/ FillFile
  <2>1. PICK step \in {"fill", "drop"} :
          /\ choice.at \in {"overwrite", "fill"} /\ choice.at # step
          /\ choice' = [choice EXCEPT !.at = step]
    BY <1>6 DEF Overwrite, FillFile
  <2>2. choice' # choice
    BY <1>0, <2>1 DEF TypeOK, Choice
  <2> QED BY <2>1, <2>2 DEF Explained
<1>7. CASE Drop
  <2>1. choice.at = "drop" /\ choice' = NoChoice /\ files' = Without(files, choice.n)
    BY <1>7 DEF Drop
  <2>2. choice' # choice
    BY <2>1 DEF NoChoice
  <2>3. /\ DOMAIN files' = DOMAIN files \ {choice.n}
        /\ \A n \in DOMAIN files : n # choice.n => files'[n] = files[n]
    BY <2>1, WithoutFile
  <2>4. m = choice.n
    BY <1>1, <2>3
  <2>5. choice.data = {c} \/ choice.n \in written["user"]
    BY <1>0, <1>1, <2>1, <2>4 DEF LookInv, Has
  <2> QED BY <2>1, <2>2, <2>5 DEF Explained
<1>8. CASE Rename
  <2>1. choice.at = "rename" /\ Has(choice.n) /\ files' = Renamed(files, choice.n, choice.to)
    BY <1>2, <1>8 DEF Rename
  <2>2. /\ DOMAIN files' = (DOMAIN files \ {choice.n}) \cup {choice.to}
        /\ files'[choice.to] = files[choice.n]
        /\ \A n \in DOMAIN files : n \notin {choice.n, choice.to} => files'[n] = files[n]
    BY <2>1 DEF Has, Renamed, Put, Without, Restrict
  <2>3. m = choice.to
    BY <1>1, <2>2
  <2>4. choice.to \in written["user"]
    BY <1>0, <2>1, <2>3 DEF LookInv, Has
  <2> QED BY <2>1, <2>4 DEF Explained
<1>9. ASSUME \/ \E w \in Session, d \in Content, n \in Names : Arrive(w, n, d)
             \/ \E w \in Session : Check(w) \/ OpenTemp(w) \/ Clean(w) \/ Abort(w)
             \/ \E n \in DOMAIN files : Resolving(n)
             \/ Abandon \/ Tick \/ UNCHANGED vars
      PROVE  FALSE
  BY <1>2, <1>9, ResolvingOnly DEF Arrive, Check, OpenTemp, Clean, Abort, Abandon, Tick
<1> QED BY <1>3, <1>4, <1>5, <1>6, <1>7, <1>8, <1>9, <1>10, StepKinds DEF SessionStep

(***************************************************************************)
(* No version is lost on its own: whatever leaves the folder was replaced  *)
(* or discarded by the user, or went through one of the races              *)
(* LossesExplained names.  There are no others.                            *)
(***************************************************************************)
THEOREM NothingElseIsLost == Spec => LossesExplained
<1>1. FilesInv /\ [Next]_vars =>
        [\A c \in Contents(files) \ Contents(files') : Explained(c)]_vars
  BY LossStep
<1> QED BY <1>1, InvHolds, PTL DEF Spec, LossesExplained

-----------------------------------------------------------------------------
(***************************************************************************)
(* Sums over a finite set.  MapThenSumSet is a function over the subsets   *)
(* of the set, chosen to take one element at a time; that there is such a  *)
(* function, and what it gives, is shown by the least number of elements   *)
(* for which it would not be so.                                           *)
(***************************************************************************)


\* Every nonempty set of numbers has a least element.
LEMMA LeastNumber ==
  ASSUME NEW T \in SUBSET Nat, T # {}
  PROVE  \E n \in T : \A m \in T : n <= m
<1>1. OpToRel(<, Nat) = {ss \in Nat \X Nat : ss[1] < ss[2]}
  BY DEF OpToRel
<1> DEFINE R == {ss \in Nat \X Nat : ss[1] < ss[2]}
<1>2. IsWellFoundedOn(R, Nat)
  BY <1>1, NatLessThanWellFounded
<1>3. \A x, y \in Nat : <<y, x>> \in R <=> y < x
  OBVIOUS
<1> HIDE DEF R
<1>4. PICK n \in T : \A m \in T : ~ (<<m, n>> \in R)
  BY <1>2, WFMin
<1>5. ASSUME NEW m \in T PROVE n <= m
  <2>1. m \in Nat /\ n \in Nat /\ ~ (m < n)
    BY <1>3, <1>4
  <2> QED BY <2>1
<1> QED BY <1>5

\* The sum over a set, an element at a time.
First(s) == CHOOSE x \in s : TRUE
Adds(f, s) == IF s = {} THEN 0 ELSE First(s).conflicts + f[s \ {First(s)}]
Iter(S) == CHOOSE f : f = [s \in SUBSET S |-> Adds(f, s)]

LEMMA TotalIsIter ==
  ASSUME NEW S
  PROVE  ConflictsTotal(S) = Iter(S)[S]
BY DEF ConflictsTotal, MapThenSumSet, MapThenFoldSet, Iter, Adds, First

\* What is left after the first element.
LEMMA Rest ==
  ASSUME NEW S, IsFiniteSet(S), NEW s \in SUBSET S, s # {}
  PROVE  /\ First(s) \in s /\ s \ {First(s)} \in SUBSET S
         /\ IsFiniteSet(s) /\ Cardinality(s) \in Nat \ {0}
         /\ Cardinality(s \ {First(s)}) = Cardinality(s) - 1
<1>1. First(s) \in s
  BY DEF First
<1>2. IsFiniteSet(s)
  BY FS_Subset
<1>3. Cardinality(s \ {First(s)}) = Cardinality(s) - 1
  BY <1>1, <1>2, FS_RemoveElement
<1>4. Cardinality(s) \in Nat /\ Cardinality(s) # 0
  BY <1>2, FS_CardinalityType, FS_EmptySet
<1> QED BY <1>1, <1>2, <1>3, <1>4

\* f is the sum over the subsets of S of at most n elements.
Small(S, n) == {s \in SUBSET S : Cardinality(s) <= n}
SumsTo(f, S, n) == f = [s \in Small(S, n) |-> Adds(f, s)]

LEMMA IterExists ==
  ASSUME NEW S, IsFiniteSet(S)
  PROVE  \A n \in Nat : \E f : SumsTo(f, S, n)
<1> DEFINE T == {n \in Nat : ~ \E f : SumsTo(f, S, n)}
<1>1. SUFFICES ASSUME T # {} PROVE FALSE
  OBVIOUS
<1>2. PICK n \in T : \A m \in T : n <= m
  BY <1>1, LeastNumber
<1>3. CASE n = 0
  <2> DEFINE f == [s \in Small(S, 0) |-> 0]
  <2>1. ASSUME NEW s \in Small(S, 0), s # {}
        PROVE  FALSE
    <3>1. s \in SUBSET S /\ Cardinality(s) <= 0
      BY DEF Small
    <3>2. Cardinality(s) \in Nat \ {0}
      BY <2>1, <3>1, Rest
    <3> QED BY <3>1, <3>2
  <2>2. f = [s \in Small(S, 0) |-> Adds(f, s)]
    BY <2>1 DEF Adds
  <2> HIDE DEF f
  <2> QED BY <1>3, <2>2 DEF SumsTo
<1>4. CASE n # 0
  <2>1. n - 1 \in Nat /\ n - 1 \notin T
    BY <1>2, <1>4
  <2>2. PICK g : SumsTo(g, S, n - 1)
    BY <2>1
  <2> DEFINE f == [s \in Small(S, n) |-> Adds(g, s)]
  <2>3. \A s \in Small(S, n - 1) : s \in Small(S, n) /\ g[s] = Adds(g, s)
    <3>1. \A s \in Small(S, n - 1) : Cardinality(s) \in Nat
      BY FS_Subset, FS_CardinalityType DEF Small
    <3>2. Small(S, n - 1) \subseteq Small(S, n)
      BY <3>1, <2>1 DEF Small
    <3> QED BY <3>2, <2>2 DEF SumsTo
  <2>4. \A s \in Small(S, n - 1) : f[s] = g[s]
    BY <2>3
  <2>5. ASSUME NEW s \in Small(S, n)
        PROVE  Adds(f, s) = Adds(g, s)
    <3>1. CASE s = {}
      BY <3>1 DEF Adds
    <3>2. CASE s # {}
      <4>1. s \ {First(s)} \in Small(S, n - 1)
        BY <3>2, <2>1, Rest DEF Small
      <4>2. f[s \ {First(s)}] = g[s \ {First(s)}]
        BY <2>4, <4>1
      <4> HIDE DEF f
      <4> QED BY <4>2, <3>2 DEF Adds
    <3> QED BY <3>1, <3>2
  <2>6. f = [s \in Small(S, n) |-> Adds(f, s)]
    BY <2>5
  <2> HIDE DEF f
  <2> QED BY <2>6 DEF SumsTo
<1> QED BY <1>3, <1>4

LEMMA IterAdds ==
  ASSUME NEW S, IsFiniteSet(S), NEW s \in SUBSET S
  PROVE  Iter(S)[s] = Adds(Iter(S), s)
<1>1. Cardinality(S) \in Nat
  BY FS_CardinalityType
<1>2. Small(S, Cardinality(S)) = SUBSET S
  BY FS_Subset DEF Small
<1>3. \E f : f = [x \in SUBSET S |-> Adds(f, x)]
  <2>1. PICK f : SumsTo(f, S, Cardinality(S))
    BY <1>1, IterExists
  <2> QED BY <1>2, <2>1 DEF SumsTo
<1>4. Iter(S) = [x \in SUBSET S |-> Adds(Iter(S), x)]
  BY <1>3 DEF Iter
<1> QED BY <1>4

\* A sum is positive if one of its terms is.
LEMMA TotalPositive ==
  ASSUME NEW S, IsFiniteSet(S), \A s \in S : s.conflicts \in Nat
  PROVE  ConflictsTotal(S) \in Nat /\ ((\E s \in S : s.conflicts > 0) => ConflictsTotal(S) > 0)
<1> DEFINE Good(s) == Iter(S)[s] \in Nat /\ ((\E x \in s : x.conflicts > 0) => Iter(S)[s] > 0)
           T == {Cardinality(s) : s \in {x \in SUBSET S : ~ Good(x)}}
<1>1. \A s \in SUBSET S : Cardinality(s) \in Nat
  BY FS_Subset, FS_CardinalityType
<1>2. SUFFICES T = {}
  BY TotalIsIter
<1>3. SUFFICES ASSUME T # {} PROVE FALSE
  OBVIOUS
<1>4. PICK n \in T : \A m \in T : n <= m
  BY <1>1, <1>3, LeastNumber
<1>5. PICK s \in SUBSET S : ~ Good(s) /\ n = Cardinality(s)
  BY <1>4
<1>6. Iter(S)[s] = Adds(Iter(S), s)
  BY IterAdds
<1>7. s # {}
  BY <1>5, <1>6 DEF Adds
<1> DEFINE r == s \ {First(s)}
<1>8. /\ First(s) \in s /\ r \in SUBSET S /\ Cardinality(r) < Cardinality(s)
      /\ Cardinality(s) \in Nat /\ Cardinality(r) \in Nat
  BY <1>1, <1>7, Rest
<1>9. Good(r)
  BY <1>4, <1>5, <1>8
<1>10. Iter(S)[s] = First(s).conflicts + Iter(S)[r] /\ First(s).conflicts \in Nat
  BY <1>6, <1>7, <1>8 DEF Adds
<1>11. (\E x \in s : x.conflicts > 0) => First(s).conflicts > 0 \/ \E x \in r : x.conflicts > 0
  BY <1>8
<1> HIDE DEF r
<1> QED BY <1>5, <1>9, <1>10, <1>11

-----------------------------------------------------------------------------
(* What the front ends show of the backups. *)

\* The image of a finite set is finite.
LEMMA FiniteImage ==
  ASSUME NEW S, IsFiniteSet(S), NEW f, DOMAIN f = S, f = [x \in S |-> f[x]]
  PROVE  IsFiniteSet({f[x] : x \in S})
<1> DEFINE T == {f[x] : x \in S}
<1>1. f \in Surjection(S, T)
  BY DEF Surjection
<1> QED BY <1>1, FS_Surjection

\* The backups a walk over the folders finds, and the folders it can open.
Found == {n \in DOMAIN files : IsBackup(n)}
Backups(f, same) == [g \in Folder |-> IF g = f THEN Found ELSE same]
Open(view) == Folder \ view.gone
Hidden(f, same, view) == IF \E g \in Open(view) : g < f THEN same ELSE {}

\* What the walk lists.
LEMMA Listed ==
  ASSUME NEW backup, NEW view, NEW g, NEW n
  PROVE  <<g, n>> \in ListConflicts(backup, view) <=>
           /\ g \in Open(view) /\ n \in backup[g]
           /\ \A h \in Open(view) : h < g => n \notin backup[h]
<1>1. \A h : <<g, n>> \in {h} \X backup[h] <=> h = g /\ n \in backup[h]
  OBVIOUS
<1>2. <<g, n>> \in UNION {{h} \X backup[h] : h \in Folder \ view.gone} <=>
        g \in Folder \ view.gone /\ n \in backup[g]
  BY <1>1
<1> QED BY <1>2 DEF ListConflicts, Open

\* ... and that it lists pairs.
LEMMA ListedPair ==
  ASSUME NEW backup, NEW view, NEW e \in ListConflicts(backup, view)
  PROVE  e = <<e[1], e[2]>> /\ e[1] \in Folder
<1>1. PICK g \in Folder : e \in {g} \X backup[g]
  BY DEF ListConflicts
<1> QED BY <1>1

\* A backup of a folder is listed there, unless it hides behind an earlier one.
LEMMA ListedOf ==
  ASSUME NEW f \in Folder, NEW view, f \in Open(view), NEW same \in SUBSET Found
  PROVE  CliList(ListConflicts(Backups(f, same), view), f) = {f} \X (Found \ Hidden(f, same, view))
<1> DEFINE L == ListConflicts(Backups(f, same), view)
<1>1. \A n : <<f, n>> \in L <=> n \in Found \ Hidden(f, same, view)
  <2> SUFFICES ASSUME NEW n
               PROVE  <<f, n>> \in L <=> n \in Found \ Hidden(f, same, view)
    OBVIOUS
  <2>1. \A h \in Open(view) : h < f => Backups(f, same)[h] = same
    BY DEF Backups, Open, Folder
  <2>2. Backups(f, same)[f] = Found
    BY DEF Backups
  <2>3. (\A h \in Open(view) : h < f => n \notin Backups(f, same)[h])
          <=> n \notin Hidden(f, same, view)
    BY <2>1 DEF Hidden
  <2> QED BY <2>2, <2>3, Listed
<1>2. \A e \in L : e = <<e[1], e[2]>>
  BY ListedPair
<1> HIDE DEF L
<1>3. ASSUME NEW e \in CliList(L, f) PROVE e \in {f} \X (Found \ Hidden(f, same, view))
  <2>1. e \in L /\ e[1] = f /\ e = <<f, e[2]>>
    BY <1>2 DEF CliList
  <2>2. e[2] \in Found \ Hidden(f, same, view)
    BY <1>1, <2>1
  <2> QED BY <2>1, <2>2
<1>4. ASSUME NEW e \in {f} \X (Found \ Hidden(f, same, view)) PROVE e \in CliList(L, f)
  <2>1. PICK n \in Found \ Hidden(f, same, view) : e = <<f, n>>
    OBVIOUS
  <2> QED BY <1>1, <2>1 DEF CliList
<1>5. CliList(L, f) = {f} \X (Found \ Hidden(f, same, view))
  BY <1>3, <1>4
<1> QED BY <1>5 DEF L

\* A folder that holds backups and can be opened makes the walk list something.
LEMMA SomethingListed ==
  ASSUME NEW f \in Folder, NEW view, f \in Open(view), Found # {}, NEW same \in SUBSET Found
  PROVE  \E g \in Folder : CliList(ListConflicts(Backups(f, same), view), g) # {}
<1> DEFINE backup == Backups(f, same)
           Holds(n) == {g \in Open(view) : n \in backup[g]}
<1>1. PICK n : n \in Found
  OBVIOUS
<1>2. f \in Holds(n) /\ Holds(n) \subseteq Folder
  BY <1>1 DEF Backups, Open
<1>3. Holds(n) \in SUBSET Nat
  BY <1>2 DEF Folder
<1>4. PICK g \in Holds(n) : \A h \in Holds(n) : g <= h
  BY <1>2, <1>3, LeastNumber
<1>5. ASSUME NEW h \in Open(view), h < g PROVE n \notin backup[h]
  <2>1. SUFFICES ASSUME n \in backup[h] PROVE FALSE
    OBVIOUS
  <2>2. g <= h /\ g \in Nat /\ h \in Nat
    BY <1>3, <1>4, <2>1
  <2> QED BY <1>5, <2>2
<1>6. g \in Open(view) /\ n \in backup[g] /\ g \in Folder
  BY <1>2, <1>4
<1> HIDE DEF backup, Holds
<1>7. <<g, n>> \in ListConflicts(backup, view)
  BY <1>5, <1>6, Listed
<1>8. <<g, n>> \in CliList(ListConflicts(backup, view), g)
  BY <1>7 DEF CliList
<1> QED BY <1>6, <1>8 DEF backup

\* The backups listed for a folder are finitely many.
LEMMA ListedFinite ==
  ASSUME IsFiniteSet(Found), NEW f \in Folder, NEW view, NEW same \in SUBSET Found, NEW g \in Folder
  PROVE  IsFiniteSet(CliList(ListConflicts(Backups(f, same), view), g))
<1> DEFINE L == ListConflicts(Backups(f, same), view)
<1>1. IsFiniteSet({g} \X Found)
  BY FS_Singleton, FS_Product
<1>2. \A e \in L : e = <<e[1], e[2]>>
  BY ListedPair
<1>3. \A n : <<g, n>> \in L => n \in Found
  <2>1. Backups(f, same)[g] \subseteq Found
    BY DEF Backups
  <2> QED BY <2>1, Listed
<1> HIDE DEF L
<1>4. CliList(L, g) \subseteq {g} \X Found
  BY <1>2, <1>3 DEF CliList
<1>5. IsFiniteSet(CliList(L, g))
  BY <1>1, <1>4, FS_Subset
<1> QED BY <1>5 DEF L

\* A folder's row for a device.
Row(listed, view, f, d) ==
  [id |-> f, device |-> d, conflicts |-> FolderConflicts(listed, f),
   health |-> FolderHealth(d, FolderConflicts(listed, f), view)]

LEMMA Rows ==
  ASSUME NEW listed, NEW view, NEW s
  PROVE  s \in FolderStatuses(listed, view) <=>
           \E f \in Folder : \E d \in Peers[f] : s = Row(listed, view, f, d)
BY DEF FolderStatuses, Row

\* The rows are finitely many.
LEMMA RowsFinite ==
  ASSUME NEW listed, NEW view
  PROVE  IsFiniteSet(FolderStatuses(listed, view))
<1>1. IsFiniteSet(Folder)
  BY HealthAssumption, FS_Interval DEF Folder
<1>2. IsFiniteSet(Folder \X Device)
  BY <1>1, HealthAssumption, FS_Product
<1> DEFINE F == [e \in Folder \X Device |-> Row(listed, view, e[1], e[2])]
           T == {F[e] : e \in Folder \X Device}
<1>3. IsFiniteSet(T)
  <2>1. DOMAIN F = Folder \X Device /\ F = [e \in Folder \X Device |-> F[e]]
    OBVIOUS
  <2> HIDE DEF F
  <2> QED BY <1>2, <2>1, FiniteImage
<1>4. ASSUME NEW s \in FolderStatuses(listed, view)
      PROVE  s \in T
  <2>1. PICK f \in Folder : \E d \in Peers[f] : s = Row(listed, view, f, d)
    BY Rows
  <2>2. PICK d \in Device : s = Row(listed, view, f, d)
    BY <2>1, HealthAssumption
  <2>3. <<f, d>> \in Folder \X Device /\ F[<<f, d>>] = Row(listed, view, f, d)
    BY <2>1, <2>2
  <2> HIDE DEF F
  <2> QED BY <2>2, <2>3
<1> HIDE DEF T
<1>5. FolderStatuses(listed, view) \subseteq T
  BY <1>4
<1> QED BY <1>3, <1>5, FS_Subset

\* The rows count the backups listed for their folders.
LEMMA RowConflicts ==
  ASSUME NEW listed, NEW view, \A g \in Folder : IsFiniteSet(CliList(listed, g))
  PROVE  /\ \A g \in Folder : /\ FolderConflicts(listed, g) \in Nat
                              /\ FolderConflicts(listed, g) > 0 <=> CliList(listed, g) # {}
         /\ \A s \in FolderStatuses(listed, view) : s.conflicts \in Nat
<1>1. ASSUME NEW g \in Folder
      PROVE  /\ FolderConflicts(listed, g) \in Nat
             /\ FolderConflicts(listed, g) > 0 <=> CliList(listed, g) # {}
  <2>1. /\ Cardinality(CliList(listed, g)) \in Nat
        /\ Cardinality(CliList(listed, g)) = 0 <=> CliList(listed, g) = {}
    BY FS_CardinalityType, FS_EmptySet
  <2> QED BY <2>1 DEF FolderConflicts
<1>2. ASSUME NEW s \in FolderStatuses(listed, view) PROVE s.conflicts \in Nat
  BY <1>1, Rows DEF Row
<1> QED BY <1>1, <1>2

\* A backup listed anywhere makes the total positive, and the headline speak of it.
LEMMA TotalShows ==
  ASSUME NEW backup, NEW view,
         \A g \in Folder : IsFiniteSet(CliList(ListConflicts(backup, view), g)),
         NEW g \in Folder, CliList(ListConflicts(backup, view), g) # {}
  PROVE  /\ SummaryNeedsAttention(Snapshot(backup, view).summary)
         /\ Headline(Snapshot(backup, view).summary) = "conflicts"
<1> DEFINE listed == ListConflicts(backup, view)
           statuses == FolderStatuses(listed, view)
           summary == Summarize(DeviceStatuses(view), statuses)
<1>1. PICK d : d \in Peers[g]
  BY HealthAssumption
<1>2. Row(listed, view, g, d) \in statuses
  BY <1>1, Rows
<1>3. Row(listed, view, g, d).conflicts > 0
  BY RowConflicts DEF Row
<1>4. IsFiniteSet(statuses) /\ \A s \in statuses : s.conflicts \in Nat
  BY RowsFinite, RowConflicts
<1> HIDE DEF listed, statuses
<1>5. ConflictsTotal(statuses) > 0
  BY <1>2, <1>3, <1>4, TotalPositive
<1>6. Cardinality(statuses) # 0
  BY <1>2, <1>4, FS_EmptySet
<1>7. summary.conflicts_total > 0 /\ summary.folders_total # 0
  BY <1>5, <1>6 DEF Summarize
<1>8. Snapshot(backup, view).summary = summary
  BY DEF Snapshot, listed, statuses
<1> HIDE DEF summary
<1> QED BY <1>7, <1>8 DEF SummaryNeedsAttention, Headline

\* The largest of a few priorities is one of them.
LEMMA MaxPriority ==
  ASSUME NEW T \in SUBSET {0, 2, 3, 4, 6}, T # {}
  PROVE  Max(T) \in T /\ \A x \in T : Max(T) >= x
<1> DEFINE Top(x) == \A y \in T : x >= y
<1>1. 6 \in T => Top(6)
  OBVIOUS
<1>2. 6 \notin T /\ 4 \in T => Top(4)
  OBVIOUS
<1>3. 6 \notin T /\ 4 \notin T /\ 3 \in T => Top(3)
  OBVIOUS
<1>4. T \subseteq {0, 2} /\ 2 \in T => Top(2)
  OBVIOUS
<1>5. T \subseteq {0} => 0 \in T /\ Top(0)
  <2>1. ASSUME T \subseteq {0} PROVE T = {0}
    BY <2>1
  <2>2. T = {0} => 0 \in T /\ Top(0)
    OBVIOUS
  <2> HIDE DEF Top
  <2> QED BY <2>1, <2>2
<1>6. T \subseteq {0} \/ (T \subseteq {0, 2} /\ 2 \in T) \/ 3 \in T \/ 4 \in T \/ 6 \in T
  <2>1. ASSUME 3 \notin T, 4 \notin T, 6 \notin T PROVE T \subseteq {0, 2}
    BY <2>1
  <2>2. ASSUME T \subseteq {0, 2}, 2 \notin T PROVE T \subseteq {0}
    BY <2>2
  <2> QED BY <2>1, <2>2
<1>7. Max(T) = CHOOSE x \in T : Top(x)
  BY DEF Max
<1> HIDE DEF Top
<1>8. \E x \in T : Top(x)
  BY <1>1, <1>2, <1>3, <1>4, <1>5, <1>6
<1>9. Max(T) \in T /\ Top(Max(T))
  BY <1>7, <1>8
<1> QED BY <1>9 DEF Top

\* The healths of a peer's row.
LEMMA RowHealth ==
  ASSUME NEW listed, NEW view, NEW f \in Folder, NEW d, d # Own,
         FolderConflicts(listed, f) \in Nat
  PROVE  /\ Row(listed, view, f, d).health = "conflict" <=> FolderConflicts(listed, f) > 0
         /\ Row(listed, view, f, d).health \in {"conflict", "healthy", "offline", "waiting"}
BY DEF Row, FolderHealth

\* A folder paired with another device shows the health of one of its peers' rows.
LEMMA GroupHealth ==
  ASSUME NEW listed, NEW view, NEW f \in Folder, Peers[f] # {Own}
  PROVE  \E d \in Peers[f] \ {Own} :
           GroupFolder(FolderStatuses(listed, view), f) = Row(listed, view, f, d).health
<1> DEFINE statuses == FolderStatuses(listed, view)
           peers == {s \in {x \in statuses : x.id = f} : s.device # Own}
           T == {HealthPriority(s.health) : s \in peers}
<1>1. PICK d \in Peers[f] : d # Own
  BY HealthAssumption
<1>2. Row(listed, view, f, d) \in peers
  <2>1. Row(listed, view, f, d) \in statuses
    BY Rows
  <2> QED BY <1>1, <2>1 DEF Row
<1>3. ASSUME NEW s \in peers PROVE \E e \in Peers[f] \ {Own} : s = Row(listed, view, f, e)
  <2>1. PICK g \in Folder : \E e \in Peers[g] : s = Row(listed, view, g, e)
    BY Rows
  <2> QED BY <2>1 DEF Row
<1> HIDE DEF statuses
<1>4. T \in SUBSET {0, 2, 3, 4, 6} /\ T # {}
  BY <1>2 DEF HealthPriority
<1>5. Max(T) \in T
  BY <1>4, MaxPriority
<1>6. \E s \in peers : HealthPriority(s.health) = Max(T)
  BY <1>5
<1>7. GroupFolder(statuses, f) = (CHOOSE s \in peers : HealthPriority(s.health) = Max(T)).health
  BY <1>2, Zenon DEF GroupFolder
<1> HIDE DEF T, peers
<1>8. \E s \in peers : GroupFolder(statuses, f) = s.health
  BY <1>6, <1>7
<1> QED BY <1>3, <1>8 DEF statuses

(***************************************************************************)
(* The marks of one folder: a conflict exactly if a backup of it is        *)
(* listed, also in the lists of the app.                                   *)
(***************************************************************************)
LEMMA FolderShows ==
  ASSUME NEW backup, NEW view, NEW f \in Folder, Peers[f] # {Own},
         \A g \in Folder : IsFiniteSet(CliList(ListConflicts(backup, view), g)),
         NEW seen \in BOOLEAN, seen <=> CliList(ListConflicts(backup, view), f) # {}
  PROVE  LET snap == Snapshot(backup, view)
         IN /\ (f \in StatusAttention(snap) /\ DashboardMark(snap, f) = "warn") <=> seen
            /\ \A d \in Peers[f] \ {Own} :
                 \E s \in ApiFolderStatus(snap, f) \cap ApiDeviceFolders(snap, d) :
                   s.health = "conflict" <=> seen
<1> DEFINE listed == ListConflicts(backup, view)
           snap == Snapshot(backup, view)
<1>1. \A d \in Peers[f] \ {Own} : Row(listed, view, f, d).health = "conflict" <=> seen
  BY RowConflicts, RowHealth
<1>2. snap.folders = FolderStatuses(listed, view)
  BY DEF Snapshot
<1> HIDE DEF listed, snap
<1>3. CliFolders(snap)[f] = "conflict" <=> seen
  BY <1>1, <1>2, GroupHealth DEF CliFolders
<1>4. (f \in StatusAttention(snap) /\ DashboardMark(snap, f) = "warn") <=> seen
  BY <1>3 DEF StatusAttention, DashboardMark, NeedsAttention
<1>5. ASSUME NEW d \in Peers[f] \ {Own}
      PROVE  \E s \in ApiFolderStatus(snap, f) \cap ApiDeviceFolders(snap, d) :
               s.health = "conflict" <=> seen
  <2>1. Row(listed, view, f, d) \in snap.folders
    BY <1>2, Rows
  <2>2. Row(listed, view, f, d) \in ApiFolderStatus(snap, f) \cap ApiDeviceFolders(snap, d)
    BY <2>1 DEF ApiFolderStatus, ApiDeviceFolders, Row
  <2> QED BY <1>1, <2>2
<1> QED BY <1>4, <1>5 DEF snap

\* Finitely many files: what every front end shows follows.
LEMMA FilesShown ==
  ASSUME IsFiniteSet(DOMAIN files)
  PROVE  ConflictsShown
<1> SUFFICES ASSUME Found # {},
                    NEW f \in Folder, NEW view \in Views, NEW same \in SUBSET Found
             PROVE  LET backup == Backups(f, same)
                        snap == Snapshot(backup, view)
                        seen == Found \ Hidden(f, same, view) # {}
                    IN IF f \in Open(view)
                       THEN /\ SummaryNeedsAttention(snap.summary)
                            /\ Headline(snap.summary) = "conflicts"
                            /\ CliList(ListConflicts(backup, view), f) =
                                 {f} \X (Found \ Hidden(f, same, view))
                            /\ Peers[f] # {Own} =>
                                 /\ (f \in StatusAttention(snap) /\ DashboardMark(snap, f) = "warn")
                                      <=> seen
                                 /\ \A d \in Peers[f] \ {Own} :
                                      \E s \in ApiFolderStatus(snap, f) \cap ApiDeviceFolders(snap, d) :
                                        s.health = "conflict" <=> seen
                       ELSE CheckFolders(view) = "warn"
  BY DEF ConflictsShown, Backups, Open, Hidden, Found
<1> DEFINE backup == Backups(f, same)
           snap == Snapshot(backup, view)
           seen == Found \ Hidden(f, same, view) # {}
<1>0. IsFiniteSet(Found)
  BY FS_Subset DEF Found
<1>1. CASE f \in Open(view)
  <2>1. CliList(ListConflicts(backup, view), f) = {f} \X (Found \ Hidden(f, same, view))
    BY <1>1, ListedOf
  <2>2. \A g \in Folder : IsFiniteSet(CliList(ListConflicts(backup, view), g))
    BY <1>0, ListedFinite
  <2>3. PICK g \in Folder : CliList(ListConflicts(backup, view), g) # {}
    BY <1>1, SomethingListed
  <2>4. SummaryNeedsAttention(snap.summary) /\ Headline(snap.summary) = "conflicts"
    BY <2>2, <2>3, TotalShows
  <2>5. seen <=> CliList(ListConflicts(backup, view), f) # {}
    <3>1. ASSUME NEW n \in Found \ Hidden(f, same, view)
          PROVE  {f} \X (Found \ Hidden(f, same, view)) # {}
      <4>1. <<f, n>> \in {f} \X (Found \ Hidden(f, same, view))
        OBVIOUS
      <4> QED BY <4>1
    <3>2. ASSUME NEW e \in {f} \X (Found \ Hidden(f, same, view))
          PROVE  Found \ Hidden(f, same, view) # {}
      OBVIOUS
    <3> QED BY <2>1, <3>1, <3>2
  <2>6. seen \in BOOLEAN
    OBVIOUS
  <2> HIDE DEF backup, seen
  <2>7. Peers[f] # {Own} =>
          /\ (f \in StatusAttention(snap) /\ DashboardMark(snap, f) = "warn") <=> seen
          /\ \A d \in Peers[f] \ {Own} :
               \E s \in ApiFolderStatus(snap, f) \cap ApiDeviceFolders(snap, d) :
                 s.health = "conflict" <=> seen
    BY <2>2, <2>5, <2>6, FolderShows
  <2> HIDE DEF snap
  <2> QED BY <1>1, <2>1, <2>4, <2>7 DEF backup, snap, seen
<1>2. CASE f \notin Open(view)
  BY <1>2 DEF CheckFolders, Open
<1> QED BY <1>1, <1>2

\* A step writes at most one new name.
LEMMA OneName ==
  ASSUME [Next]_vars
  PROVE  \E n : DOMAIN files' \subseteq DOMAIN files \cup {n}
<1>1. ASSUME NEW n, NEW c, files' = Put(files, n, c)
      PROVE  \E m : DOMAIN files' \subseteq DOMAIN files \cup {m}
  BY <1>1, PutFile
<1>2. ASSUME NEW from, NEW to, Has(from), files' = Renamed(files, from, to)
      PROVE  \E m : DOMAIN files' \subseteq DOMAIN files \cup {m}
  BY <1>2, RenamedFile
<1>3. ASSUME NEW n, files' = Without(files, n)
      PROVE  \E m : DOMAIN files' \subseteq DOMAIN files \cup {m}
  BY <1>3, WithoutFile
<1>4. ASSUME NEW w \in Session, SessionStep(w)
      PROVE  \E m : DOMAIN files' \subseteq DOMAIN files \cup {m}
  BY <1>1, <1>2, <1>4, FillsOne DEF SessionStep, Check, Move, OpenTemp, FillTemp, Place, Clean, Abort
<1>5. CASE Overwrite \/ FillFile \/ Drop \/ Rename
  BY <1>1, <1>2, <1>3, <1>5, FillsOne DEF Overwrite, FillFile, Drop, Rename
<1>6. CASE \/ \E w \in Session, c \in Content, n \in Names : Arrive(w, n, c)
           \/ \E n \in DOMAIN files : Resolving(n)
           \/ Abandon \/ Tick \/ UNCHANGED vars
  BY <1>6, ResolvingOnly DEF Arrive, Abandon, Tick
<1>7. CASE \E p \in Path, c \in Content : UserWrite(p, c)
  BY <1>1, <1>7 DEF UserWrite
<1> QED BY <1>4, <1>5, <1>6, <1>7, StepKinds

\* A folder never holds but finitely many files.
LEMMA FilesFinite == Spec => []IsFiniteSet(DOMAIN files)
<1>1. Init => IsFiniteSet(DOMAIN files)
  <2> SUFFICES ASSUME Init PROVE IsFiniteSet(DOMAIN files)
    OBVIOUS
  <2> DEFINE plain == [p \in Path |-> Plain(p)]
             T == {plain[p] : p \in Path}
  <2>1. IsFiniteSet(Path)
    BY FilesAssumption
  <2>2. IsFiniteSet(T)
    <3>1. DOMAIN plain = Path /\ plain = [p \in Path |-> plain[p]]
      OBVIOUS
    <3> HIDE DEF plain
    <3> QED BY <2>1, <3>1, FiniteImage
  <2>3. PICK D \in SUBSET {Plain(p) : p \in Path} : files \in [D -> {{c} : c \in Content}]
    BY DEF Init
  <2>4. DOMAIN files \subseteq T
    BY <2>3
  <2> HIDE DEF T
  <2> QED BY <2>2, <2>4, FS_Subset
<1>2. IsFiniteSet(DOMAIN files) /\ [Next]_vars => IsFiniteSet(DOMAIN files)'
  <2> SUFFICES ASSUME IsFiniteSet(DOMAIN files), [Next]_vars PROVE IsFiniteSet(DOMAIN files')
    OBVIOUS
  <2>1. PICK n : DOMAIN files' \subseteq DOMAIN files \cup {n}
    BY OneName
  <2>2. IsFiniteSet(DOMAIN files \cup {n})
    BY FS_AddElement
  <2> QED BY <2>1, <2>2, FS_Subset
<1> QED BY <1>1, <1>2, PTL DEF Spec

(***************************************************************************)
(* Whatever the folders, devices, presences and folders that cannot be     *)
(* opened, a backup on disk makes every headline speak of conflicts, and a *)
(* folder is marked exactly when one of its backups is listed.             *)
(***************************************************************************)
THEOREM ConflictsSeen == Spec => []ConflictsShown
<1>1. IsFiniteSet(DOMAIN files) => ConflictsShown
  BY FilesShown
<1> QED BY <1>1, FilesFinite, PTL
=============================================================================
