------------------------ MODULE IdentityMigrationProofs ------------------------
(***************************************************************************)
(* The database for any devices, folders and calls, across any number of   *)
(* starts that may each die anywhere.                                      *)
(***************************************************************************)
EXTENDS IdentityMigration, SequenceTheorems, WellFoundedInduction, TLAPS

-----------------------------------------------------------------------------
(***************************************************************************)
(* Numbers and sequences.                                                  *)
(***************************************************************************)
\* A set of natural numbers that is not empty has a least element.
LEMMA Least ==
  ASSUME NEW S \in SUBSET Nat, S # {}
  PROVE  \E x \in S : \A y \in S : x <= y
<1> DEFINE R == OpToRel(<, Nat)
<1>1. IsWellFoundedOn(R, Nat)
  BY NatLessThanWellFounded
<1>2. PICK x \in S : \A y \in S : ~ (<<y, x>> \in R)
  <2> HIDE DEF R
  <2> QED BY <1>1, WFMin
<1>3. \A y \in S : ~ (y < x)
  BY <1>2 DEF OpToRel
<1> QED BY <1>3

\* LIMIT 1: the lowest row id of some is one of them.
LEMMA MinIn ==
  ASSUME NEW S \in SUBSET Nat, S # {}
  PROVE  Min(S) \in S /\ \A y \in S : Min(S) <= y
BY Least DEF Min

\* SELECT MAX(id): the highest row id, 0 without rows.
LEMMA MaxIn ==
  ASSUME NEW n \in Nat, NEW S \in SUBSET (1..n)
  PROVE  Max(S \cup {0}) \in S \cup {0} /\ \A y \in S : Max(S \cup {0}) >= y
<1> DEFINE T == S \cup {0}
           U == {k \in Nat : \A y \in T : k >= y}
<1>1. n \in U
  OBVIOUS
<1>2. PICK k \in U : \A m \in U : k <= m
  BY <1>1, Least
<1>3. k \in T
  <2>1. CASE k = 0
    BY <2>1
  <2>2. CASE k # 0
    <3>1. k - 1 \in Nat /\ k - 1 \notin U
      BY <1>2, <2>2
    <3>2. PICK y \in T : ~ (k - 1 >= y)
      BY <3>1
    <3> QED BY <3>2, <1>2
  <2> QED BY <2>1, <2>2
<1>4. \E x \in T : \A y \in T : x >= y
  BY <1>2, <1>3
<1>5. Max(T) \in T /\ \A y \in T : Max(T) >= y
  <2> HIDE DEF T
  <2> QED BY <1>4 DEF Max
<1> QED BY <1>5

\* An element that is added at the end of a sequence.
LEMMA Appended ==
  ASSUME NEW S, NEW s \in Seq(S), NEW x \in S
  PROVE  /\ Append(s, x) \in Seq(S)
         /\ ToSet(Append(s, x)) = ToSet(s) \cup {x}
         /\ IsInjective(s) /\ x \notin ToSet(s) => IsInjective(Append(s, x))
<1>1. /\ Append(s, x) \in Seq(S) /\ Len(Append(s, x)) = Len(s) + 1
      /\ DOMAIN Append(s, x) = 1..Len(s) + 1 /\ DOMAIN s = 1..Len(s)
      /\ \A n \in 1..Len(s) : Append(s, x)[n] = s[n]
      /\ Append(s, x)[Len(s) + 1] = x
  OBVIOUS
<1>2. ToSet(Append(s, x)) = ToSet(s) \cup {x}
  BY <1>1, Len(s) \in Nat DEF ToSet
<1>3. IsInjective(s) /\ x \notin ToSet(s) => IsInjective(Append(s, x))
  BY <1>1, Len(s) \in Nat DEF ToSet, IsInjective
<1> QED BY <1>1, <1>2, <1>3

\* DELETE of a row that occurs once at most: the others stay.
LEMMA RemovedFirst ==
  ASSUME NEW S, NEW s \in Seq(S), NEW x, IsInjective(s)
  PROVE  /\ RemoveFirst(s, x) \in Seq(S)
         /\ ToSet(RemoveFirst(s, x)) = ToSet(s) \ {x}
         /\ IsInjective(RemoveFirst(s, x))
<1>0. DOMAIN s = 1..Len(s) /\ Len(s) \in Nat
  OBVIOUS
<1>1. CASE ~ \E n \in 1..Len(s) : s[n] = x
  <2>1. RemoveFirst(s, x) = s
    BY <1>1 DEF RemoveFirst
  <2>2. x \notin ToSet(s)
    BY <1>1, <1>0 DEF ToSet
  <2> QED BY <2>1, <2>2
<1>2. CASE \E n \in 1..Len(s) : s[n] = x
  <2> DEFINE I == {n \in 1..Len(s) : s[n] = x}
             k == Min(I)
             t == SubSeq(s, 1, k - 1) \o SubSeq(s, k + 1, Len(s))
  <2>1. I # {} /\ I \in SUBSET Nat
    BY <1>2
  <2>2. k \in 1..Len(s) /\ s[k] = x
    BY <2>1, MinIn
  <2>3. RemoveFirst(s, x) = t
    BY <1>2, <2>1 DEF RemoveFirst, RemoveAt, SelectInSeq
  <2> HIDE DEF I, k
  <2>4. /\ SubSeq(s, 1, k - 1) \in Seq(S) /\ Len(SubSeq(s, 1, k - 1)) = k - 1
        /\ \A n \in 1..k - 1 : SubSeq(s, 1, k - 1)[n] = s[n]
    <3>1. \A n \in 1..k - 1 : s[n] \in S
      BY <2>2, <1>0
    <3> QED BY <3>1, <2>2, <1>0, SubSeqProperties
  <2>5. /\ SubSeq(s, k + 1, Len(s)) \in Seq(S)
        /\ Len(SubSeq(s, k + 1, Len(s))) = Len(s) - k
        /\ \A n \in 1..Len(s) - k : SubSeq(s, k + 1, Len(s))[n] = s[n + k]
    <3>1. \A n \in k + 1..Len(s) : s[n] \in S
      BY <2>2, <1>0
    <3>2. k + 1 \in 1..Len(s) + 1 /\ Len(s) \in k..Len(s)
      BY <2>2, <1>0
    <3> DEFINE u == SubSeq(s, k + 1, Len(s))
    <3>3. /\ u \in Seq(S)
          /\ Len(u) = IF k + 1 <= Len(s) THEN Len(s) - (k + 1) + 1 ELSE 0
          /\ \A n \in 1..Len(s) - (k + 1) + 1 : u[n] = s[(k + 1) + n - 1]
      BY <3>1, <3>2, <1>0, SubSeqProperties
    <3> HIDE DEF u
    <3>4. Len(u) = Len(s) - k
      <4>1. CASE k + 1 <= Len(s)
        <5>1. Len(s) - (k + 1) + 1 = Len(s) - k
          BY <2>2, <1>0
        <5> QED BY <4>1, <5>1, <3>3
      <4>2. CASE k = Len(s)
        <5>1. Len(s) - k = 0 /\ ~ (k + 1 <= Len(s))
          BY <4>2, <1>0
        <5> QED BY <5>1, <3>3
      <4>3. k \in Int /\ Len(s) \in Int /\ k <= Len(s)
        BY <2>2, <1>0
      <4>4. k + 1 <= Len(s) \/ k = Len(s)
        BY <4>3
      <4> QED BY <4>1, <4>2, <4>4
    <3>5. ASSUME NEW n \in 1..Len(s) - k PROVE u[n] = s[n + k]
      <4>1. n \in 1..Len(s) - (k + 1) + 1 /\ (k + 1) + n - 1 = n + k
        BY <2>2, <1>0
      <4> QED BY <4>1, <3>3
    <3> QED BY <3>3, <3>4, <3>5 DEF u
  <2>6. /\ t \in Seq(S) /\ Len(t) = Len(s) - 1 /\ DOMAIN t = 1..Len(s) - 1
        /\ \A n \in 1..Len(s) - 1 : t[n] = IF n < k THEN s[n] ELSE s[n + 1]
    <3> DEFINE l == SubSeq(s, 1, k - 1)
               u == SubSeq(s, k + 1, Len(s))
    <3> HIDE DEF l, u
    <3>1. t = l \o u
      BY DEF l, u
    <3>2. /\ l \in Seq(S) /\ Len(l) = k - 1 /\ \A n \in 1..k - 1 : l[n] = s[n]
          /\ u \in Seq(S) /\ Len(u) = Len(s) - k
          /\ \A n \in 1..Len(s) - k : u[n] = s[n + k]
      BY <2>4, <2>5 DEF l, u
    <3> HIDE DEF t
    <3>3. /\ t \in Seq(S) /\ Len(t) = Len(l) + Len(u)
          /\ \A n \in 1..Len(l) + Len(u) :
               t[n] = IF n <= Len(l) THEN l[n] ELSE u[n - Len(l)]
      BY <3>1, <3>2, ConcatProperties
    <3>4. Len(t) = Len(s) - 1 /\ DOMAIN t = 1..Len(s) - 1
      BY <3>2, <3>3, <2>2, <1>0
    <3>5. ASSUME NEW n \in 1..Len(s) - 1
          PROVE  t[n] = IF n < k THEN s[n] ELSE s[n + 1]
      <4>0. n \in 1..Len(l) + Len(u)
        BY <3>2, <2>2, <1>0
      <4>1. CASE n < k
        <5>1. n <= Len(l) /\ n \in 1..k - 1
          BY <4>1, <3>2, <2>2, <1>0
        <5> QED BY <4>0, <4>1, <5>1, <3>2, <3>3
      <4>2. CASE n >= k
        <5>1. ~ (n <= Len(l)) /\ n - Len(l) \in 1..Len(s) - k /\ n - Len(l) + k = n + 1
          BY <4>2, <3>2, <2>2, <1>0
        <5>2. t[n] = u[n - Len(l)]
          BY <4>0, <5>1, <3>3
        <5>3. u[n - Len(l)] = s[n - Len(l) + k]
          BY <5>1, <3>2
        <5> QED BY <5>1, <5>2, <5>3, <4>2, <2>2
      <4> QED BY <4>1, <4>2, <2>2
    <3> QED BY <3>3, <3>4, <3>5
  <2> HIDE DEF t
  <2>7. ToSet(t) = ToSet(s) \ {x}
    <3>1. ASSUME NEW y \in ToSet(t) PROVE y \in ToSet(s) \ {x}
      <4>1. PICK n \in 1..Len(s) - 1 : y = t[n]
        BY <2>6 DEF ToSet
      <4>2. PICK m \in 1..Len(s) : y = s[m] /\ m # k
        BY <4>1, <2>6, <2>2, <1>0
      <4> QED BY <4>2, <1>0, <2>2 DEF ToSet, IsInjective
    <3>2. ASSUME NEW y \in ToSet(s), y # x PROVE y \in ToSet(t)
      <4>1. PICK m \in 1..Len(s) : y = s[m]
        BY <1>0 DEF ToSet
      <4>2. m # k
        BY <4>1, <3>2, <2>2
      <4>3. CASE m < k
        BY <4>1, <4>3, <2>6, <2>2, <1>0 DEF ToSet
      <4>4. CASE m > k
        <5>1. m - 1 \in DOMAIN t /\ t[m - 1] = s[m]
          BY <4>4, <2>6, <2>2, <1>0
        <5> QED BY <5>1, <4>1 DEF ToSet
      <4> QED BY <4>2, <4>3, <4>4, <2>2
    <3> QED BY <3>1, <3>2
  <2>8. IsInjective(t)
    <3>1. \A a, b \in 1..Len(s) : s[a] = s[b] => a = b
      BY <1>0 DEF IsInjective
    <3>2. SUFFICES ASSUME NEW a \in 1..Len(s) - 1, NEW b \in 1..Len(s) - 1, t[a] = t[b]
                   PROVE  a = b
      BY <2>6 DEF IsInjective
    <3>3. CASE a < k /\ b < k
      BY <3>1, <3>2, <3>3, <2>6, <2>2, <1>0
    <3>4. CASE a < k /\ b >= k
      BY <3>1, <3>2, <3>4, <2>6, <2>2, <1>0
    <3>5. CASE a >= k /\ b < k
      BY <3>1, <3>2, <3>5, <2>6, <2>2, <1>0
    <3>6. CASE a >= k /\ b >= k
      BY <3>1, <3>2, <3>6, <2>6, <2>2, <1>0
    <3> QED BY <3>3, <3>4, <3>5, <3>6, <2>2
  <2> QED BY <2>3, <2>6, <2>7, <2>8
<1> QED BY <1>1, <1>2
-----------------------------------------------------------------------------
(***************************************************************************)
(* The invariant.                                                          *)
(***************************************************************************)
\* The tables have their columns; the log of sessions may be anything.
Shape(d) ==
  d \in [devices  : [Id -> Row \cup {None}],
         folders  : [FolderId -> Folder \cup {None}],
         last     : 0..MaxRows,
         history  : SUBSET (FolderId \X Id),
         sessions : {d.sessions},
         shares   : SUBSET Share]

\* Row ids were given by the counter, and a minted guid is not above the row that
\* has it: what is minted next, from the highest row id, is above them all.
NumbersGiven(d) ==
  /\ \A f \in Live(d) : f <= d.last /\ (d.folders[f].guid \in FolderId => d.folders[f].guid <= f)
  /\ \A s \in d.shares : s.guid \in FolderId => s.guid <= d.last

GuidsDistinct(d) ==
  \A f, h \in Live(d) :
    d.folders[f].guid = d.folders[h].guid /\ d.folders[f].guid \in FolderId => f = h

\* A stored certificate is the device's own.
CertsTrue(d) == \A i \in Certified(d) : d.devices[i].cert = Person[i]

Sound(d) == Shape(d) /\ NumbersGiven(d) /\ GuidsDistinct(d) /\ CertsTrue(d)

DbInv(d) == Sound(d) /\ Valid(d)

\* Rows without a guid are only in databases that were never opened.
GuidsThere(d) == \A f \in Live(d) : d.folders[f].guid # None

\* Before the first start of an inherited database nothing else runs.
UnopenedInv ==
  /\ starts \in Nat /\ calls \in Nat
  /\ starts = 0 => calls = MaxCalls /\ start.at = 0 /\ Live(db) \subseteq {1}
  /\ starts > 0 => GuidsThere(db)

\* The ids of the moves are those of one device, if names tell devices apart.
MovesTrue == NamesTell => \A i \in DOMAIN start.moves : Person[start.moves[i]] = Person[i]

\* What is misnamed is to be deleted; this device's own row is refreshed.
StartInv ==
  /\ start \in Started
  /\ start.at \in Tables \cup {Delete} => start.todo \subseteq DOMAIN start.moves
  /\ start.at \in Tables => MovesTrue /\ Misnamed(db) \ {Own} \subseteq DOMAIN start.moves
  /\ start.at = Delete => Misnamed(db) \ {Own} \subseteq start.todo
  /\ start.at = Finish => Misnamed(db) \subseteq {Own}
  /\ start.at # 0 => removing = {} /\ ~ start.done
  /\ start.done => Misnamed(db) = {} /\ idFile = None

FileInv == /\ idFile \in Id \cup {None} /\ (idFile # None => Person[idFile] = Own)
           /\ removing \subseteq Id

StoreInv == DbInv(db) /\ UnopenedInv /\ StartInv /\ FileInv

\* What a step may make of the database d: an e in which row ids are new ones or
\* are kept, guids stay, and no certificate is under another id that was not before.
Continues(d, e) ==
  /\ DbInv(e)
  /\ d.last <= e.last /\ \A f \in Live(e) : f \in Live(d) \/ f > d.last
  /\ GuidsThere(d) => GuidsThere(e)
  /\ Misnamed(e) \subseteq Misnamed(d)

\* ... and no device is forgotten.
Follows(d, e) == Continues(d, e) /\ Rows(d) \subseteq Rows(e)

-----------------------------------------------------------------------------
(***************************************************************************)
(* Databases that follow one another.                                      *)
(***************************************************************************)
\* NULL is no id, number or row.
LEMMA NoneIsNothing ==
  None \notin Id /\ None \notin Remote /\ None \notin FolderId /\ None \notin Row /\ None \notin Folder
BY StorageAssumption

\* The columns of a database.
LEMMA Columns ==
  ASSUME NEW d, Shape(d)
  PROVE  /\ d.devices \in [Id -> Row \cup {None}]
         /\ d.folders \in [FolderId -> Folder \cup {None}]
         /\ d.last \in 0..MaxRows
         /\ d.history \in SUBSET (FolderId \X Id)
         /\ d.shares \in SUBSET Share
         /\ Rows(d) \subseteq Id /\ \A i \in Rows(d) : d.devices[i] \in Row
         /\ Live(d) \subseteq FolderId
         /\ \A f \in Live(d) : /\ d.folders[f] \in Folder
                               /\ d.folders[f].pairs \in Seq(Id)
                               /\ Pairs(d, f) \subseteq Id
<1>1. /\ d.devices \in [Id -> Row \cup {None}]
      /\ d.folders \in [FolderId -> Folder \cup {None}]
      /\ d.last \in 0..MaxRows
      /\ d.history \in SUBSET (FolderId \X Id)
      /\ d.shares \in SUBSET Share
  BY DEF Shape
<1>2. Rows(d) \subseteq Id /\ \A i \in Rows(d) : d.devices[i] \in Row
  BY <1>1 DEF Rows
<1>3. Live(d) \subseteq FolderId /\ \A f \in Live(d) : d.folders[f] \in Folder
  BY <1>1 DEF Live
<1>4. ASSUME NEW f \in Live(d)
      PROVE  d.folders[f].pairs \in Seq(Id) /\ Pairs(d, f) \subseteq Id
  BY <1>3 DEF Folder, Pairs, ToSet
<1> QED BY <1>1, <1>2, <1>3, <1>4

\* A database follows itself.
LEMMA FollowsSelf ==
  ASSUME NEW d, DbInv(d)
  PROVE  Follows(d, d)
<1>1. d.last \in Int
  BY Columns, StorageAssumption DEF DbInv, Sound
<1> QED BY <1>1 DEF Follows, Continues

\* What follows a follower follows.
LEMMA FollowsOn ==
  ASSUME NEW c, NEW d, NEW e, DbInv(c), Follows(c, d), Follows(d, e)
  PROVE  Follows(c, e)
<1>1. c.last \in Int /\ d.last \in Int /\ e.last \in Int
  BY Columns, StorageAssumption DEF DbInv, Sound, Follows, Continues
<1>2. Live(e) \subseteq Int
  BY StorageAssumption DEF Live, FolderId
<1> QED BY <1>1, <1>2 DEF Follows, Continues

\* A statement that is dropped if it is not valid.
LEMMA Committed ==
  ASSUME NEW b, NEW c, NEW d, Follows(b, c), Valid(d) => Follows(b, d)
  PROVE  Follows(b, Commit(c, d))
BY DEF Commit

\* Rows that stay, go or get the guid of a peer's folder break nothing but, perhaps,
\* references.
LEMMA Kept ==
  ASSUME NEW d, NEW e, Sound(d), Shape(e), e.last = d.last,
         \A f \in Live(e) : /\ f \in Live(d)
                            /\ \/ e.folders[f].guid = d.folders[f].guid
                               \/ e.folders[f].guid \in Remote,
         \A s \in e.shares : s.guid \in FolderId => s.guid <= d.last,
         \A i \in Certified(e) : \/ e.devices[i].cert = i /\ Person[i] = i
                                 \/ i \in Certified(d) /\ e.devices[i].cert = d.devices[i].cert
  PROVE  /\ Sound(e) /\ (Valid(e) => Continues(d, e))
         /\ Valid(e) /\ Rows(d) \subseteq Rows(e) => Follows(d, e)
<1>1. NumbersGiven(e)
  BY StorageAssumption DEF NumbersGiven, Sound
<1>2. GuidsDistinct(e)
  BY StorageAssumption DEF GuidsDistinct, Sound
<1>3. CertsTrue(e)
  BY DEF CertsTrue, Sound
<1>4. Misnamed(e) \subseteq Misnamed(d)
  BY DEF Misnamed
<1>5. GuidsThere(d) => GuidsThere(e)
  BY NoneIsNothing DEF GuidsThere
<1>6. d.last <= e.last
  BY Columns, StorageAssumption DEF Sound
<1> QED BY <1>1, <1>2, <1>3, <1>4, <1>5, <1>6 DEF Sound, DbInv, Follows, Continues

\* References still hold when devices come and nothing else changes.
LEMMA ValidGrows ==
  ASSUME NEW d, NEW e, Valid(d), e.folders = d.folders, e.history = d.history,
         e.shares = d.shares, Rows(d) \subseteq Rows(e)
  PROVE  Valid(e)
<1>1. Live(e) = Live(d) /\ \A f \in Live(d) : Pairs(e, f) = Pairs(d, f)
  BY DEF Live, Pairs
<1> QED BY <1>1 DEF Valid, Referential, Unique

\* upsert_device adds a row or renames it; a certificate is the device's.
LEMMA UpsertedFollows ==
  ASSUME NEW d, NEW i \in Id, NEW n \in Names, NEW c, DbInv(d),
         c = None \/ (c = i /\ i \in Current)
  PROVE  LET e == Upserted(d, i, n, c)
         IN /\ Follows(d, e) /\ Rows(e) = Rows(d) \cup {i}
            /\ e.folders = d.folders /\ e.last = d.last
            /\ e.history = d.history /\ e.shares = d.shares
<1> DEFINE k == IF c = None /\ d.devices[i] # None THEN d.devices[i].cert ELSE c
           r == [name |-> n, cert |-> k]
           e == Upserted(d, i, n, c)
<1>0. Shape(d)
  BY DEF DbInv, Sound
<1>1. r \in Row
  BY <1>0, Columns DEF Row
<1>2. /\ e.devices = [d.devices EXCEPT ![i] = r]
      /\ e.folders = d.folders /\ e.last = d.last
      /\ e.history = d.history /\ e.shares = d.shares
  BY <1>0 DEF Upserted, Shape
<1>3. Shape(e)
  BY <1>0, <1>1 DEF Upserted, Shape
<1> HIDE DEF e
<1>4. e.devices[i] = r /\ \A j \in Id \ {i} : e.devices[j] = d.devices[j]
  BY <1>0, <1>2, Columns
<1>5. Rows(e) = Rows(d) \cup {i}
  BY <1>1, <1>4, NoneIsNothing DEF Rows
<1>6. Valid(e)
  BY <1>2, <1>5, ValidGrows DEF DbInv
<1>7. \A f \in Live(e) : f \in Live(d) /\ e.folders[f].guid = d.folders[f].guid
  BY <1>2 DEF Live
<1>8. ASSUME NEW j \in Certified(e)
      PROVE  \/ e.devices[j].cert = j /\ Person[j] = j
             \/ j \in Certified(d) /\ e.devices[j].cert = d.devices[j].cert
  <2>1. CASE j # i
    BY <2>1, <1>4, <1>5 DEF Certified, Rows
  <2>2. CASE j = i
    BY <2>2, <1>4, StorageAssumption DEF Certified, Rows
  <2> QED BY <2>1, <2>2
<1>9. Sound(d) /\ \A s \in e.shares : s.guid \in FolderId => s.guid <= d.last
  BY <1>2 DEF DbInv, Sound, NumbersGiven
<1>10. Follows(d, e)
  BY <1>2, <1>3, <1>5, <1>6, <1>7, <1>8, <1>9, Kept
<1> QED BY <1>2, <1>5, <1>10 DEF e

\* ensure_device.
LEMMA EnsuredFollows ==
  ASSUME NEW d, NEW i \in Id, DbInv(d)
  PROVE  LET e == Ensured(d, i)
         IN /\ Follows(d, e) /\ Rows(e) = Rows(d) \cup {i}
            /\ e.folders = d.folders /\ e.last = d.last
            /\ e.history = d.history /\ e.shares = d.shares
<1>1. i \in Names
  BY DEF Names
<1>2. CASE i \in Rows(d)
  BY <1>2, FollowsSelf DEF Ensured
<1>3. CASE i \notin Rows(d)
  <2>1. Ensured(d, i) = Upserted(d, i, i, None)
    BY <1>3 DEF Ensured
  <2> QED BY <1>1, <2>1, UpsertedFollows
<1> QED BY <1>2, <1>3

\* The pairs of one folder become others, of known devices and each once.
LEMMA PairsPut ==
  ASSUME NEW d, NEW f \in Live(d), NEW q \in Seq(Id), DbInv(d),
         IsInjective(q), ToSet(q) \subseteq Rows(d),
         NEW e, e = [d EXCEPT !.folders[f].pairs = q]
  PROVE  /\ Follows(d, e) /\ Rows(e) = Rows(d) /\ Live(e) = Live(d) /\ e.last = d.last
         /\ \A h \in Live(d) : /\ e.folders[h].guid = d.folders[h].guid
                               /\ e.folders[h].path = d.folders[h].path
                               /\ e.folders[h].dev = d.folders[h].dev
         /\ e.shares = d.shares /\ Pairs(e, f) = ToSet(q)
         /\ e.devices = d.devices
         /\ \A h \in FolderId \ {f} : e.folders[h] = d.folders[h]
<1> DEFINE r == [d.folders[f] EXCEPT !.pairs = q]
<1>0. Shape(d) /\ Sound(d) /\ Valid(d) /\ f \in FolderId
  BY DEF DbInv, Sound, Live
<1>1. d.folders[f] \in Folder
  BY <1>0, Columns
<1>2. /\ r \in Folder /\ r.pairs = q /\ r.guid = d.folders[f].guid
      /\ r.path = d.folders[f].path /\ r.dev = d.folders[f].dev
  BY <1>1 DEF Folder
<1>3. /\ e.folders = [d.folders EXCEPT ![f] = r]
      /\ e.devices = d.devices /\ e.last = d.last
      /\ e.history = d.history /\ e.shares = d.shares
  BY <1>0 DEF Shape
<1>4. Shape(e)
  <2>1. [d.folders EXCEPT ![f] = r] \in [FolderId -> Folder \cup {None}]
    BY <1>0, <1>2, Columns
  <2>2. e = [d EXCEPT !.folders = [d.folders EXCEPT ![f] = r]]
    OBVIOUS
  <2> HIDE DEF r
  <2> QED BY <1>0, <2>1, <2>2 DEF Shape
<1> HIDE DEF r
<1>5. e.folders[f] = r /\ \A h \in FolderId \ {f} : e.folders[h] = d.folders[h]
  BY <1>0, <1>3, Columns
<1>6. Live(e) = Live(d) /\ Rows(e) = Rows(d)
  BY <1>2, <1>3, <1>5, NoneIsNothing DEF Live, Rows
<1>7. \A h \in Live(d) : /\ e.folders[h].guid = d.folders[h].guid
                         /\ e.folders[h].path = d.folders[h].path
                         /\ e.folders[h].dev = d.folders[h].dev
  BY <1>2, <1>5 DEF Live
<1>8. Pairs(e, f) = ToSet(q) /\ \A h \in Live(d) \ {f} : Pairs(e, h) = Pairs(d, h)
  BY <1>2, <1>5 DEF Pairs, Live
<1>9. Valid(e)
  <2>1. Referential(e)
    BY <1>0, <1>3, <1>6, <1>7, <1>8 DEF Valid, Referential
  <2>2. \A h \in Live(e) : IsInjective(e.folders[h].pairs)
    BY <1>0, <1>2, <1>5, <1>6 DEF Valid, Unique, Live
  <2> QED BY <1>0, <1>3, <2>1, <2>2 DEF Valid, Unique
<1>10. Certified(e) = Certified(d)
  BY <1>3, <1>6 DEF Certified
<1>11. \A s \in e.shares : s.guid \in FolderId => s.guid <= d.last
  BY <1>0, <1>3 DEF Sound, NumbersGiven
<1>12. Follows(d, e)
  BY <1>0, <1>3, <1>4, <1>6, <1>7, <1>9, <1>10, <1>11, Kept
<1> QED BY <1>3, <1>5, <1>6, <1>7, <1>8, <1>12

\* add_folder_device of a device that has a row.
LEMMA AttachedFollows ==
  ASSUME NEW d, NEW f \in Live(d), NEW i \in Rows(d), DbInv(d)
  PROVE  LET e == Attached(d, f, i)
         IN /\ Follows(d, e) /\ Rows(e) = Rows(d) /\ Live(e) = Live(d) /\ e.last = d.last
            /\ \A h \in Live(d) : /\ e.folders[h].guid = d.folders[h].guid
                                  /\ e.folders[h].path = d.folders[h].path
                                  /\ e.folders[h].dev = d.folders[h].dev
            /\ e.shares = d.shares /\ Pairs(e, f) = Pairs(d, f) \cup {i}
            /\ \A h \in FolderId \ {f} : e.folders[h] = d.folders[h]
<1> DEFINE s == d.folders[f].pairs
           q == IF Contains(s, i) THEN s ELSE Append(s, i)
<1>0. Shape(d) /\ Valid(d) /\ i \in Id
  BY DEF DbInv, Sound, Rows
<1>1. s \in Seq(Id) /\ ToSet(s) = Pairs(d, f) /\ IsInjective(s) /\ ToSet(s) \subseteq Rows(d)
  BY <1>0, Columns DEF Pairs, Valid, Unique, Referential
<1>2. Contains(s, i) <=> i \in ToSet(s)
  BY <1>1 DEF Contains, ToSet
<1>3. q \in Seq(Id) /\ IsInjective(q) /\ ToSet(q) = ToSet(s) \cup {i}
  <2> HIDE DEF s
  <2>1. CASE Contains(s, i)
    BY <2>1, <1>1, <1>2
  <2>2. CASE ~ Contains(s, i)
    BY <2>2, <1>0, <1>1, <1>2, Appended
  <2> QED BY <2>1, <2>2
<1>4. Attached(d, f, i) = [d EXCEPT !.folders[f].pairs = q]
  BY DEF Attached
<1> HIDE DEF q, s
<1>5. ToSet(q) \subseteq Rows(d) /\ ToSet(q) = Pairs(d, f) \cup {i}
  BY <1>1, <1>3
<1> QED BY <1>3, <1>4, <1>5, PairsPut

\* INSERT of a folder: a row id above all that were given, and either a peer's guid
\* or one that no row has and that is not above the new row.
LEMMA InsertedFollows ==
  ASSUME NEW d, NEW p \in Path, NEW i \in Rows(d), NEW g \in FolderId \cup Remote,
         NEW q \in Seq(Id), DbInv(d), Room(d), IsInjective(q), ToSet(q) \subseteq Rows(d),
         g \in FolderId => g <= d.last + 1 /\ Keyed(d, g) = {},
         NEW e, e = Inserted(d, p, i, g, q), NEW f, f = NextRow(d)
  PROVE  /\ Follows(d, e) /\ Rows(e) = Rows(d) /\ Live(e) = Live(d) \cup {f}
         /\ \A h \in Live(d) : e.folders[h] = d.folders[h]
         /\ e.folders[f].guid = g /\ e.folders[f].path = p /\ Pairs(e, f) = ToSet(q)
         /\ e.shares = d.shares
<1> DEFINE r == [path |-> p, dev |-> i, guid |-> g, pairs |-> q]
<1>0. Shape(d) /\ Sound(d) /\ Valid(d) /\ i \in Id
  BY DEF DbInv, Sound, Rows
<1>1. d.last \in Nat /\ d.last < MaxRows /\ MaxRows \in Nat
  BY <1>0, Columns, StorageAssumption DEF Room
<1>2. f = d.last + 1 /\ f \in FolderId /\ f > d.last /\ f \in 0..MaxRows
  BY <1>1 DEF FolderId, NextRow
<1>3. r \in Folder
  BY <1>0 DEF Folder
<1>4. /\ e.folders = [d.folders EXCEPT ![f] = r]
      /\ e.devices = d.devices /\ e.last = f
      /\ e.history = d.history /\ e.shares = d.shares
  BY <1>0, <1>2 DEF Shape, Inserted
<1>5. Shape(e)
  <2>1. [d.folders EXCEPT ![f] = r] \in [FolderId -> Folder \cup {None}]
    BY <1>0, <1>2, <1>3, Columns
  <2>2. e = [d EXCEPT !.folders = [d.folders EXCEPT ![f] = r], !.last = f]
    BY <1>2 DEF Inserted
  <2> HIDE DEF r
  <2> QED BY <1>0, <1>2, <2>1, <2>2 DEF Shape
<1>6. e.folders[f] = r /\ \A h \in FolderId \ {f} : e.folders[h] = d.folders[h]
  BY <1>0, <1>2, <1>4, Columns
<1>7. f \notin Live(d)
  BY <1>0, <1>1, <1>2 DEF Sound, NumbersGiven
<1>8. Live(e) = Live(d) \cup {f} /\ Rows(e) = Rows(d)
  <2> HIDE DEF r
  <2> QED BY <1>2, <1>3, <1>4, <1>6, NoneIsNothing DEF Live, Rows
<1>9. \A h \in Live(d) : e.folders[h] = d.folders[h] /\ Pairs(e, h) = Pairs(d, h)
  BY <1>6, <1>7 DEF Live, Pairs
<1>10. /\ e.folders[f].guid = g /\ e.folders[f].path = p /\ e.folders[f].dev = i
       /\ e.folders[f].pairs = q /\ Pairs(e, f) = ToSet(q)
  BY <1>6 DEF Pairs
<1> HIDE DEF r
<1>11. Valid(e)
  <2>1. Referential(e)
    BY <1>0, <1>4, <1>8, <1>9, <1>10 DEF Valid, Referential
  <2>2. \A h \in Live(e) : IsInjective(e.folders[h].pairs)
    BY <1>0, <1>8, <1>9, <1>10 DEF Valid, Unique
  <2> QED BY <1>0, <1>4, <2>1, <2>2 DEF Valid, Unique
<1>12. NumbersGiven(e)
  <2>1. \A h \in Live(d) : h <= d.last /\ (d.folders[h].guid \in FolderId => d.folders[h].guid <= h)
    BY <1>0 DEF Sound, NumbersGiven
  <2>2. \A s \in d.shares : s.guid \in FolderId => s.guid <= d.last
    BY <1>0 DEF Sound, NumbersGiven
  <2>3. f = d.last + 1 /\ FolderId \subseteq Int
    BY <1>2 DEF FolderId
  <2>4. \A h \in Live(e) : h <= e.last /\ (e.folders[h].guid \in FolderId => e.folders[h].guid <= h)
    <3>1. ASSUME NEW h \in Live(d)
          PROVE  h <= e.last /\ (e.folders[h].guid \in FolderId => e.folders[h].guid <= h)
      BY <2>1, <2>3, <1>1, <1>4, <1>9 DEF Live
    <3>2. f <= e.last /\ (e.folders[f].guid \in FolderId => e.folders[f].guid <= f)
      BY <2>3, <1>1, <1>4, <1>10
    <3> QED BY <3>1, <3>2, <1>8
  <2>5. \A s \in e.shares : s.guid \in FolderId => s.guid <= e.last
    <3>1. SUFFICES ASSUME NEW s \in e.shares, s.guid \in FolderId PROVE s.guid <= e.last
      OBVIOUS
    <3>2. s.guid \in Int /\ s.guid <= d.last
      BY <3>1, <2>2, <2>3, <1>4
    <3> QED BY <3>2, <2>3, <1>1, <1>4
  <2> QED BY <2>4, <2>5 DEF NumbersGiven
<1>13. GuidsDistinct(e)
  <2>1. \A h \in Live(d) : g \in FolderId => d.folders[h].guid # g
    BY DEF Keyed
  <2> QED BY <2>1, <1>0, <1>8, <1>9, <1>10 DEF Sound, GuidsDistinct
<1>14. Certified(e) = Certified(d) /\ Misnamed(e) = Misnamed(d)
  BY <1>4, <1>8 DEF Certified, Misnamed
<1>15. CertsTrue(e)
  BY <1>0, <1>4, <1>14 DEF Sound, CertsTrue
<1>16. GuidsThere(d) => GuidsThere(e)
  BY <1>8, <1>9, <1>10, NoneIsNothing DEF GuidsThere
<1>17. d.last <= e.last /\ \A h \in Live(e) : h \in Live(d) \/ h > d.last
  BY <1>1, <1>2, <1>4, <1>8
<1>18. Follows(d, e)
  BY <1>5, <1>8, <1>11, <1>12, <1>13, <1>14, <1>15, <1>16, <1>17 DEF Follows, Continues, DbInv, Sound
<1> QED BY <1>2, <1>4, <1>8, <1>9, <1>10, <1>18

\* new_folder_guid mints a guid that no row has: it is above the highest row id,
\* and no row has a guid above its id.
LEMMA NewGuidIsNew ==
  ASSUME NEW d, DbInv(d), Room(d)
  PROVE  NewGuid(d) \in FolderId /\ NewGuid(d) <= d.last + 1 /\ Keyed(d, NewGuid(d)) = {}
<1>0. Shape(d) /\ NumbersGiven(d) /\ MaxRows \in Nat /\ d.last \in Nat /\ d.last < MaxRows
  BY Columns, StorageAssumption DEF DbInv, Sound, Room
<1>1. Live(d) \in SUBSET (1..MaxRows)
  BY DEF Live, FolderId
<1> DEFINE m == Max(Live(d) \cup {0})
<1>2. m \in Live(d) \cup {0} /\ \A f \in Live(d) : m >= f
  BY <1>0, <1>1, MaxIn
<1> HIDE DEF m
<1>3. m \in Nat /\ m <= d.last
  BY <1>0, <1>1, <1>2 DEF NumbersGiven
<1>4. NewGuid(d) = m + 1
  BY DEF NewGuid, m
<1>5. m + 1 \in FolderId /\ m + 1 <= d.last + 1
  BY <1>0, <1>3 DEF FolderId
<1>6. ASSUME NEW f \in Live(d), d.folders[f].guid = m + 1 PROVE FALSE
  <2>1. m + 1 <= f
    BY <1>0, <1>5, <1>6 DEF NumbersGiven
  <2> QED BY <2>1, <1>1, <1>2, <1>3
<1> QED BY <1>4, <1>5, <1>6 DEF Keyed

\* add_sync_folder of the storage: the device has a row, and there is a row of the
\* path or room for one.  The path is then listed.
LEMMA AddedFollows ==
  ASSUME NEW d, NEW p \in Path, NEW i \in Rows(d), DbInv(d), At(d, p) # {} \/ Room(d)
  PROVE  LET e == Added(d, p, i)
         IN Follows(d, e) /\ e.shares = d.shares /\ Rows(e) = Rows(d) /\ ListedAt(e, p) # {}
<1> DEFINE e == Added(d, p, i)
<1>0. i \in Id /\ Live(d) \subseteq Nat /\ FolderId \subseteq Nat
  BY StorageAssumption DEF Rows, Live, FolderId
<1>1. CASE At(d, p) # {}
  <2> DEFINE f == Min(At(d, p))
  <2>1. At(d, p) \in SUBSET Nat
    BY <1>0 DEF At
  <2>2. f \in At(d, p)
    BY <1>1, <2>1, MinIn
  <2>3. f \in Live(d) /\ d.folders[f].path = p
    BY <2>2 DEF At
  <2>4. e = Attached(d, f, i)
    BY <1>1 DEF Added
  <2> HIDE DEF f, e
  <2>5. /\ Follows(d, e) /\ e.shares = d.shares /\ Rows(e) = Rows(d) /\ Live(e) = Live(d)
        /\ e.folders[f].path = p /\ i \in Pairs(e, f)
    BY <2>3, <2>4, AttachedFollows
  <2>6. <<f, i>> \in Listed(e)
    BY <1>0, <2>3, <2>5 DEF Listed
  <2>7. f \in ListedAt(e, p)
    BY <2>5, <2>6 DEF ListedAt
  <2> QED BY <2>5, <2>7 DEF e
<1>2. CASE At(d, p) = {}
  <2> DEFINE f == NextRow(d)
             q == <<i>>
  <2>1. Room(d) /\ e = Inserted(d, p, i, NewGuid(d), q)
    BY <1>2 DEF Added
  <2>2. q \in Seq(Id) /\ IsInjective(q) /\ ToSet(q) = {i} /\ ToSet(q) \subseteq Rows(d)
    BY <1>0 DEF IsInjective, ToSet
  <2>3. /\ NewGuid(d) \in FolderId /\ NewGuid(d) <= d.last + 1 /\ Keyed(d, NewGuid(d)) = {}
    BY <2>1, NewGuidIsNew
  <2> HIDE DEF f, e, q
  <2>4. /\ Follows(d, e) /\ e.shares = d.shares /\ Rows(e) = Rows(d) /\ f \in Live(e)
        /\ e.folders[f].path = p /\ i \in Pairs(e, f)
    BY <2>1, <2>2, <2>3, InsertedFollows DEF f
  <2>6. <<f, i>> \in Listed(e)
    BY <1>0, <2>4 DEF Listed
  <2>7. f \in ListedAt(e, p)
    BY <2>4, <2>6 DEF ListedAt
  <2> QED BY <2>4, <2>7 DEF e
<1> QED BY <1>1, <1>2

\* ensure_folder_by_guid: there is a row of the guid afterwards, unless this device
\* has no row of its own.
LEMMA EnsuredGuidFollows ==
  ASSUME NEW d, NEW p \in Path, NEW g \in FolderId \cup Remote, DbInv(d),
         g \in FolderId => g <= d.last + 1, Keyed(d, g) # {} \/ Room(d),
         NEW e, e = EnsuredGuid(d, p, g)
  PROVE  /\ Follows(d, e) /\ Rows(e) = Rows(d) /\ e.shares = d.shares
         /\ Own \in Rows(d) => Keyed(e, g) # {}
<1>1. CASE Keyed(d, g) # {}
  BY <1>1, FollowsSelf DEF EnsuredGuid
<1>2. CASE Keyed(d, g) = {}
  <2> DEFINE q == <<>>
             h == Inserted(d, p, Own, g, q)
             f == NextRow(d)
  <2>1. Room(d) /\ e = Commit(d, h)
    BY <1>2 DEF EnsuredGuid
  <2>2. q \in Seq(Id) /\ IsInjective(q) /\ ToSet(q) \subseteq Rows(d)
    BY DEF IsInjective, ToSet
  <2>3. CASE Own \in Rows(d)
    <3> HIDE DEF q, h, f
    <3>1. h = Inserted(d, p, Own, g, q) /\ f = NextRow(d)
      BY DEF h, f
    <3>2. /\ Follows(d, h) /\ Rows(h) = Rows(d) /\ h.shares = d.shares
          /\ f \in Live(h) /\ h.folders[f].guid = g
      BY <1>2, <2>1, <2>2, <2>3, <3>1, InsertedFollows
    <3>3. e = h
      BY <2>1, <3>2 DEF Commit, Follows, Continues, DbInv
    <3>4. f \in Keyed(e, g)
      BY <3>2, <3>3 DEF Keyed
    <3> QED BY <3>2, <3>3, <3>4
  <2>4. CASE Own \notin Rows(d)
    <3>0. Shape(d) /\ d.last \in Nat /\ d.last < MaxRows /\ MaxRows \in Nat
      BY <2>1, Columns, StorageAssumption DEF DbInv, Sound, Room
    <3>1. f \in FolderId
      BY <3>0 DEF NextRow, FolderId
    <3> DEFINE r == [path |-> p, dev |-> Own, guid |-> g, pairs |-> q]
    <3>2. r \in Folder /\ r.dev = Own
      BY StorageAssumption DEF Folder, Current
    <3>3. h.folders[f] \in Folder /\ h.folders[f].dev = Own /\ h.devices = d.devices
      <4>1. h = [d EXCEPT !.folders[f] = r, !.last = IF f > @ THEN f ELSE @]
        BY DEF Inserted
      <4> HIDE DEF h, f, r
      <4>2. h.folders = [d.folders EXCEPT ![f] = r] /\ h.devices = d.devices
        BY <3>0, <4>1 DEF Shape
      <4>3. h.folders[f] = r
        BY <3>0, <3>1, <4>2, Columns
      <4> QED BY <3>2, <4>2, <4>3
    <3> HIDE DEF h, q, f
    <3>4. f \in Live(h) /\ Own \notin Rows(h)
      BY <2>4, <3>1, <3>3, NoneIsNothing DEF Live, Rows
    <3>5. ~ Valid(h)
      BY <3>3, <3>4 DEF Valid, Referential
    <3> QED BY <2>1, <2>4, <3>5, FollowsSelf DEF Commit
  <2> QED BY <2>3, <2>4
<1> QED BY <1>1, <1>2

\* The rows that are found by a guid or a path.
LEMMA Found ==
  ASSUME NEW d, NEW x
  PROVE  /\ Keyed(d, x) # {} => Min(Keyed(d, x)) \in Live(d) /\ d.folders[Min(Keyed(d, x))].guid = x
         /\ At(d, x) # {} => Min(At(d, x)) \in Live(d) /\ d.folders[Min(At(d, x))].path = x
         /\ ListedAt(d, x) # {} => /\ Min(ListedAt(d, x)) \in Live(d)
                                   /\ d.folders[Min(ListedAt(d, x))].path = x
<1>1. Live(d) \subseteq Nat
  BY StorageAssumption DEF Live, FolderId
<1>2. Keyed(d, x) \in SUBSET Nat /\ At(d, x) \in SUBSET Nat
  BY <1>1 DEF Keyed, At
<1>3. \A f \in ListedAt(d, x) : f \in Live(d) /\ d.folders[f].path = x
  BY DEF ListedAt, Listed
<1>4. ListedAt(d, x) \in SUBSET Nat
  BY <1>1, <1>3
<1>5. Keyed(d, x) # {} => Min(Keyed(d, x)) \in Keyed(d, x)
  BY <1>2, MinIn
<1>6. At(d, x) # {} => Min(At(d, x)) \in At(d, x)
  BY <1>2, MinIn
<1>7. ListedAt(d, x) # {} => Min(ListedAt(d, x)) \in ListedAt(d, x)
  BY <1>4, MinIn
<1> QED BY <1>3, <1>5, <1>6, <1>7 DEF Keyed, At

\* The pairs that are left of a folder without i, or without any device.
Left(d, f, i) == IF i = None THEN {} ELSE Pairs(d, f) \ {i}

\* DELETE of pairs: what is left of one folder.
LEMMA UnpairedFolder ==
  ASSUME NEW d, NEW f \in Live(d), NEW i, DbInv(d),
         NEW r, r = Unpaired(d, f, i).folders[f]
  PROVE  /\ r \in Folder /\ r.path = d.folders[f].path /\ r.dev = d.folders[f].dev
         /\ r.guid = d.folders[f].guid /\ ToSet(r.pairs) = Left(d, f, i)
         /\ IsInjective(r.pairs) /\ r.pairs \in Seq(Id)
<1> DEFINE s == d.folders[f].pairs
           q == IF i = None THEN <<>> ELSE RemoveFirst(s, i)
<1>0. Shape(d) /\ Valid(d) /\ f \in FolderId
  BY DEF DbInv, Sound, Live
<1>1. s \in Seq(Id) /\ IsInjective(s) /\ ToSet(s) = Pairs(d, f) /\ d.folders[f] \in Folder
  BY <1>0, Columns DEF Valid, Unique, Pairs
<1>2. q \in Seq(Id) /\ IsInjective(q) /\ ToSet(q) = Left(d, f, i)
  <2> HIDE DEF s
  <2>1. CASE i = None
    BY <2>1 DEF IsInjective, ToSet, Left
  <2>2. CASE i # None
    BY <2>2, <1>1, RemovedFirst DEF Left
  <2> QED BY <2>1, <2>2
<1>3. Unpaired(d, f, i) = [d EXCEPT !.folders[f].pairs = q]
  BY DEF Unpaired
<1> HIDE DEF q, s
<1>4. r = [d.folders[f] EXCEPT !.pairs = q]
  BY <1>0, <1>3 DEF Shape
<1> QED BY <1>1, <1>2, <1>4 DEF Folder

\* DELETE of pairs in several folders.
LessPairs(d, W, i) == [f \in FolderId |-> IF f \in W THEN Unpaired(d, f, i).folders[f] ELSE d.folders[f]]

Remaining(d, W, i, f) == IF f \in W THEN Left(d, f, i) ELSE Pairs(d, f)

\* X is what is left of the folders of d.
LeftOver(d, W, i, X) ==
  /\ X \in [FolderId -> Folder \cup {None}]
  /\ \A f \in FolderId : X[f] # None <=> f \in Live(d)
  /\ \A f \in Live(d) : /\ X[f].guid = d.folders[f].guid /\ X[f].dev = d.folders[f].dev
                        /\ IsInjective(X[f].pairs)
                        /\ ToSet(X[f].pairs) = Remaining(d, W, i, f)

\* The other columns and the other folders stay.
LEMMA UnpairedFolders ==
  ASSUME NEW d, NEW W \in SUBSET Live(d), NEW i, DbInv(d), NEW X, X = LessPairs(d, W, i)
  PROVE  LeftOver(d, W, i, X)
<1>0. Shape(d) /\ Valid(d) /\ Live(d) \subseteq FolderId
  BY DEF DbInv, Sound, Live
<1>1. ASSUME NEW f \in W
      PROVE  /\ X[f] \in Folder /\ X[f].guid = d.folders[f].guid /\ X[f].dev = d.folders[f].dev
             /\ IsInjective(X[f].pairs) /\ ToSet(X[f].pairs) = Left(d, f, i)
  <2>1. f \in Live(d) /\ X[f] = Unpaired(d, f, i).folders[f]
    BY <1>0 DEF LessPairs
  <2> QED BY <2>1, UnpairedFolder
<1>2. ASSUME NEW f \in FolderId \ W
      PROVE  X[f] = d.folders[f]
  BY DEF LessPairs
<1>3. ASSUME NEW f \in Live(d) \ W
      PROVE  /\ X[f] \in Folder /\ X[f].guid = d.folders[f].guid /\ X[f].dev = d.folders[f].dev
             /\ IsInjective(X[f].pairs) /\ ToSet(X[f].pairs) = Pairs(d, f)
  BY <1>0, <1>2, Columns DEF Valid, Unique, Pairs
<1>4. \A f \in FolderId \ Live(d) : X[f] = None
  BY <1>2 DEF Live
<1>5. X = [f \in FolderId |-> X[f]]
  BY DEF LessPairs
<1>6. \A f \in FolderId : X[f] \in Folder \cup {None}
  BY <1>1, <1>3, <1>4
<1>7. \A f \in FolderId : X[f] # None <=> f \in Live(d)
  BY <1>1, <1>3, <1>4, NoneIsNothing
<1>8. \A f \in Live(d) : ToSet(X[f].pairs) = Remaining(d, W, i, f)
  BY <1>1, <1>3 DEF Remaining
<1> QED BY <1>1, <1>3, <1>5, <1>6, <1>7, <1>8 DEF LeftOver

\* The pairs of several folders become others, of known devices and each once.
LEMMA FoldersPut ==
  ASSUME NEW d, DbInv(d), NEW X \in [FolderId -> Folder \cup {None}],
         \A f \in FolderId : X[f] # None <=> f \in Live(d),
         \A f \in Live(d) : /\ X[f].guid = d.folders[f].guid /\ X[f].dev = d.folders[f].dev
                            /\ IsInjective(X[f].pairs) /\ ToSet(X[f].pairs) \subseteq Rows(d),
         NEW e, e = [d EXCEPT !.folders = X]
  PROVE  /\ Follows(d, e) /\ e.folders = X /\ e.devices = d.devices /\ Rows(e) = Rows(d)
         /\ Live(e) = Live(d) /\ e.last = d.last /\ e.history = d.history /\ e.shares = d.shares
<1>0. Shape(d) /\ Sound(d) /\ Valid(d)
  BY DEF DbInv, Sound
<1>1. /\ e.folders = X /\ e.devices = d.devices /\ e.last = d.last
      /\ e.history = d.history /\ e.shares = d.shares
  BY <1>0 DEF Shape
<1>2. Shape(e)
  BY <1>0 DEF Shape
<1>3. Live(e) = Live(d) /\ Rows(e) = Rows(d) /\ Certified(e) = Certified(d)
  BY <1>1 DEF Live, Rows, Certified
<1>4. \A f \in Live(e) : Pairs(e, f) = ToSet(X[f].pairs)
  BY <1>1 DEF Pairs
<1>5. Valid(e)
  <2>1. Referential(e)
    BY <1>0, <1>1, <1>3, <1>4 DEF Valid, Referential
  <2> QED BY <2>1, <1>0, <1>1, <1>3 DEF Valid, Unique
<1>6. \A s \in e.shares : s.guid \in FolderId => s.guid <= d.last
  BY <1>0, <1>1 DEF Sound, NumbersGiven
<1>7. Follows(d, e)
  BY <1>0, <1>1, <1>2, <1>3, <1>5, <1>6, Kept
<1> QED BY <1>1, <1>3, <1>7

\* DELETE of headers without pairs.
LEMMA PrunedKept ==
  ASSUME NEW d, NEW F, Sound(d), NEW e, e = Pruned(d, F)
  PROVE  /\ Sound(e) /\ (Valid(e) => Follows(d, e))
         /\ e.devices = d.devices /\ e.last = d.last
         /\ e.history = d.history /\ e.shares = d.shares
         /\ e.sessions = d.sessions
         /\ Live(e) = {f \in Live(d) : f \in F => Pairs(d, f) # {}}
         /\ \A f \in Live(e) : e.folders[f] = d.folders[f]
<1> DEFINE X == [f \in FolderId |->
                  IF f \in F \cap Live(d) /\ Pairs(d, f) = {} THEN None ELSE d.folders[f]]
<1>0. Shape(d)
  BY DEF Sound
<1>1. e = [d EXCEPT !.folders = X]
  BY DEF Pruned
<1>2. X \in [FolderId -> Folder \cup {None}]
  BY <1>0, Columns
<1>3. \A f \in FolderId : X[f] = IF f \in F \cap Live(d) /\ Pairs(d, f) = {}
                                 THEN None ELSE d.folders[f]
  OBVIOUS
<1> HIDE DEF X
<1>4. /\ e.folders = X /\ e.devices = d.devices /\ e.last = d.last
      /\ e.history = d.history /\ e.shares = d.shares /\ e.sessions = d.sessions
  BY <1>0, <1>1 DEF Shape
<1>5. Shape(e)
  BY <1>0, <1>1, <1>2 DEF Shape
<1>6. Live(e) = {f \in Live(d) : f \in F => Pairs(d, f) # {}}
  BY <1>3, <1>4 DEF Live
<1>7. \A f \in Live(e) : e.folders[f] = d.folders[f]
  BY <1>3, <1>4 DEF Live
<1>8. Certified(e) = Certified(d) /\ Rows(e) = Rows(d)
  BY <1>4 DEF Certified, Rows
<1>9. \A s \in e.shares : s.guid \in FolderId => s.guid <= d.last
  BY <1>4 DEF Sound, NumbersGiven
<1>10. Sound(e) /\ (Valid(e) => Follows(d, e))
  BY <1>4, <1>5, <1>6, <1>7, <1>8, <1>9, Kept
<1> QED BY <1>4, <1>6, <1>7, <1>10

\* Pairs of several folders are deleted.
LEMMA UnpairedFollows ==
  ASSUME NEW d, NEW W \in SUBSET Live(d), NEW i, DbInv(d),
         NEW e, e = [d EXCEPT !.folders = LessPairs(d, W, i)]
  PROVE  Follows(d, e)
<1> DEFINE X == LessPairs(d, W, i)
<1> HIDE DEF X
<1>1. X = LessPairs(d, W, i)
  BY DEF X
<1>2. /\ X \in [FolderId -> Folder \cup {None}]
      /\ \A f \in FolderId : X[f] # None <=> f \in Live(d)
      /\ \A f \in Live(d) : /\ X[f].guid = d.folders[f].guid /\ X[f].dev = d.folders[f].dev
                            /\ IsInjective(X[f].pairs)
                            /\ ToSet(X[f].pairs) = Remaining(d, W, i, f)
  <2>1. LeftOver(d, W, i, X)
    BY <1>1, UnpairedFolders
  <2> QED BY <2>1 DEF LeftOver
<1>3. \A f \in Live(d) : ToSet(X[f].pairs) \subseteq Rows(d)
  <2>1. \A f \in Live(d) : Pairs(d, f) \subseteq Rows(d)
    BY DEF DbInv, Valid, Referential
  <2> QED BY <2>1, <1>2 DEF Left, Remaining
<1> QED BY <1>1, <1>2, <1>3, FoldersPut

\* ... and then headers that have none left.
LEMMA PrunedFollows ==
  ASSUME NEW c, NEW d, NEW F, NEW b, DbInv(c), Follows(c, d), b = c \/ b = d
  PROVE  Follows(c, Commit(b, Pruned(d, F)))
<1> DEFINE e == Pruned(d, F)
<1> HIDE DEF e
<1>1. e = Pruned(d, F) /\ Sound(d)
  BY DEF e, Follows, Continues, DbInv
<1>2. Valid(e) => Follows(d, e)
  BY <1>1, PrunedKept
<1>3. Valid(e) => Follows(c, e)
  BY <1>2, FollowsOn
<1>4. Follows(c, b)
  BY FollowsSelf
<1> QED BY <1>1, <1>3, <1>4, Committed

\* remove_device: what its transaction leaves.
LEMMA RemovalLeaves ==
  ASSUME NEW d, NEW i \in Id, DbInv(d), NEW e, e = Removal(d, i)
  PROVE  /\ Sound(e) /\ (Valid(e) => Continues(d, e))
         /\ Rows(e) = Rows(d) \ {i} /\ e.shares = d.shares
         /\ e.history = {h \in d.history : h[2] # i /\ ~ (h[1] \in Live(d) /\ i \in Pairs(d, h[1]))}
         /\ e.sessions = {t \in d.sessions : t[2] # i}
         /\ Live(e) = {f \in Live(d) : Pairs(d, f) \ {i} # {}}
         /\ \A f \in Live(e) : /\ Pairs(e, f) = Pairs(d, f) \ {i}
                               /\ e.folders[f].dev = d.folders[f].dev
                               /\ IsInjective(e.folders[f].pairs)
<1> DEFINE W == {f \in Live(d) : i \in Pairs(d, f)}
           X == LessPairs(d, W, i)
           H == {h \in d.history : h[2] # i /\ h[1] \notin W}
           s == {t \in d.sessions : t[2] # i}
           b == [d EXCEPT !.sessions = s, !.history = H, !.folders = X]
           c == Pruned(b, FolderId)
<1>0. Shape(d) /\ Sound(d) /\ Valid(d) /\ None # i
  BY NoneIsNothing DEF DbInv, Sound
<1>1. e = [c EXCEPT !.devices[i] = None]
  BY DEF Removal, LessPairs
<1>2. /\ X \in [FolderId -> Folder \cup {None}]
      /\ \A f \in FolderId : X[f] # None <=> f \in Live(d)
      /\ \A f \in Live(d) : /\ X[f].guid = d.folders[f].guid /\ X[f].dev = d.folders[f].dev
                            /\ IsInjective(X[f].pairs)
                            /\ ToSet(X[f].pairs) = Remaining(d, W, i, f)
  <2> HIDE DEF X
  <2>1. X = LessPairs(d, W, i) /\ W \in SUBSET Live(d)
    BY DEF X
  <2>2. LeftOver(d, W, i, X)
    BY <2>1, UnpairedFolders
  <2> QED BY <2>2 DEF LeftOver
<1>3. \A f \in Live(d) : ToSet(X[f].pairs) = Pairs(d, f) \ {i}
  BY <1>0, <1>2 DEF Left, Remaining
<1> HIDE DEF X, s
<1>4. /\ b.folders = X /\ b.devices = d.devices /\ b.last = d.last
      /\ b.history = H /\ b.shares = d.shares /\ b.sessions = s
  BY <1>0 DEF Shape
<1>5. Shape(b)
  BY <1>0, <1>2 DEF Shape
<1> HIDE DEF b
<1>6. Live(b) = Live(d) /\ Rows(b) = Rows(d) /\ Certified(b) = Certified(d)
  BY <1>2, <1>4 DEF Live, Rows, Certified
<1>7. \A t \in b.shares : t.guid \in FolderId => t.guid <= d.last
  BY <1>0, <1>4 DEF Sound, NumbersGiven
<1>8. Sound(b)
  BY <1>0, <1>2, <1>4, <1>5, <1>6, <1>7, Kept
<1>9. /\ Sound(c) /\ c.devices = d.devices /\ c.last = d.last
      /\ c.history = H /\ c.shares = d.shares /\ c.sessions = s
      /\ Live(c) = {f \in Live(b) : Pairs(b, f) # {}}
      /\ \A f \in Live(c) : c.folders[f] = b.folders[f]
  <2> HIDE DEF c
  <2>1. c = Pruned(b, FolderId) /\ Live(b) \subseteq FolderId
    BY DEF c, Live
  <2> QED BY <2>1, <1>4, <1>8, PrunedKept
<1> HIDE DEF c
<1>10. Shape(c)
  BY <1>9 DEF Sound
<1>11. /\ e.devices = [d.devices EXCEPT ![i] = None] /\ e.folders = c.folders /\ e.last = d.last
       /\ e.history = H /\ e.shares = d.shares /\ e.sessions = s
  BY <1>1, <1>9, <1>10 DEF Shape
<1>12. Shape(e)
  BY <1>1, <1>10 DEF Shape
<1>13. Live(e) = Live(c) /\ \A f \in Live(b) : Pairs(b, f) = Pairs(d, f) \ {i}
  BY <1>3, <1>4, <1>6, <1>11 DEF Live, Pairs
<1>14. Live(e) = {f \in Live(d) : Pairs(d, f) \ {i} # {}}
  BY <1>6, <1>9, <1>13
<1>15. \A f \in Live(e) : /\ Pairs(e, f) = Pairs(d, f) \ {i} /\ f \in Live(d)
                          /\ e.folders[f] = X[f]
  BY <1>3, <1>4, <1>9, <1>11, <1>13, <1>14 DEF Pairs
<1>16. \A j \in Id : e.devices[j] = IF j = i THEN None ELSE d.devices[j]
  BY <1>0, <1>11, Columns
<1>17. Rows(e) = Rows(d) \ {i}
  BY <1>16 DEF Rows
<1>18. \A j \in Certified(e) : j \in Certified(d) /\ e.devices[j].cert = d.devices[j].cert
  BY <1>16, <1>17 DEF Certified, Rows
<1>19. \A f \in Live(e) : f \in Live(d) /\ e.folders[f].guid = d.folders[f].guid
  BY <1>2, <1>15
<1>20. \A t \in e.shares : t.guid \in FolderId => t.guid <= d.last
  BY <1>0, <1>11 DEF Sound, NumbersGiven
<1>21. Sound(e) /\ (Valid(e) => Continues(d, e))
  BY <1>0, <1>11, <1>12, <1>18, <1>19, <1>20, Kept
<1> QED BY <1>2, <1>11, <1>14, <1>15, <1>17, <1>21 DEF s

\* A share of a folder with a guid, owned by this device.
LEMMA SharedFollows ==
  ASSUME NEW d, NEW f \in Live(d), DbInv(d), Own \in Rows(d), d.folders[f].guid # None,
         NEW e, e = Shared(d, f)
  PROVE  Follows(d, e)
<1> DEFINE s == [guid |-> d.folders[f].guid, owner |-> Own, path |-> d.folders[f].path]
<1>0. Shape(d) /\ Sound(d) /\ Valid(d) /\ Own \in Id /\ f \in FolderId
  BY DEF DbInv, Sound, Rows, Live
<1>1. CASE \E t \in d.shares : t.guid = s.guid /\ t.owner = Own
  BY <1>1, FollowsSelf DEF Shared
<1>2. CASE ~ \E t \in d.shares : t.guid = s.guid /\ t.owner = Own
  <2>1. e = [d EXCEPT !.shares = d.shares \cup {s}]
    BY <1>2 DEF Shared
  <2>2. s \in Share
    BY <1>0, Columns DEF Folder, Share
  <2>3. s.guid \in FolderId => s.guid <= d.last
    <3>1. d.last \in Int /\ FolderId \subseteq Int
      BY <1>0, Columns DEF FolderId
    <3>2. f <= d.last /\ (s.guid \in FolderId => s.guid <= f)
      BY <1>0 DEF Sound, NumbersGiven
    <3> HIDE DEF s
    <3> QED BY <1>0, <3>1, <3>2
  <2>4. s.owner = Own
    OBVIOUS
  <2> HIDE DEF s
  <2>5. /\ e.folders = d.folders /\ e.devices = d.devices /\ e.last = d.last
        /\ e.history = d.history /\ e.shares = d.shares \cup {s}
    BY <1>0, <2>1 DEF Shape
  <2>6. Shape(e)
    BY <1>0, <2>1, <2>2 DEF Shape
  <2>7. Live(e) = Live(d) /\ Rows(e) = Rows(d) /\ Certified(e) = Certified(d)
    BY <2>5 DEF Live, Rows, Certified
  <2>8. \A h \in Live(d) : Pairs(e, h) = Pairs(d, h)
    BY <2>5 DEF Pairs
  <2>9. Valid(e)
    <3>1. Referential(e)
      BY <1>0, <2>4, <2>5, <2>7, <2>8 DEF Valid, Referential
    <3>2. Unique(e)
      BY <1>0, <1>2, <2>4, <2>5, <2>7 DEF Valid, Unique
    <3> QED BY <3>1, <3>2 DEF Valid
  <2>10. \A t \in e.shares : t.guid \in FolderId => t.guid <= d.last
    BY <1>0, <2>3, <2>5 DEF Sound, NumbersGiven
  <2> QED BY <1>0, <2>5, <2>6, <2>7, <2>9, <2>10, Kept
<1> QED BY <1>1, <1>2

\* add_folder_device of a device that may have no row: it fails then.
LEMMA AttachCommitted ==
  ASSUME NEW d, NEW f \in Live(d), NEW i \in Id, DbInv(d)
  PROVE  Follows(d, Commit(d, Attached(d, f, i)))
<1> DEFINE e == Attached(d, f, i)
<1>1. CASE i \in Rows(d)
  <2>1. Follows(d, e)
    BY <1>1, AttachedFollows
  <2> QED BY <2>1, FollowsSelf, Committed
<1>2. CASE i \notin Rows(d)
  <2> DEFINE s == d.folders[f].pairs
  <2>0. Shape(d) /\ Valid(d) /\ f \in FolderId
    BY DEF DbInv, Sound, Live
  <2>1. s \in Seq(Id) /\ ToSet(s) \subseteq Rows(d) /\ d.folders[f] \in Folder
    BY <2>0, Columns DEF Valid, Referential, Pairs
  <2>2. ~ Contains(s, i)
    BY <1>2, <2>1 DEF Contains, ToSet
  <2>3. e = [d EXCEPT !.folders[f].pairs = Append(s, i)]
    BY <2>2 DEF Attached
  <2> DEFINE q == Append(s, i)
  <2>4. q \in Seq(Id) /\ i \in ToSet(q)
    <3> HIDE DEF s
    <3> QED BY <2>1, Appended
  <2> HIDE DEF q, e, s
  <2>5. e.folders[f] = [d.folders[f] EXCEPT !.pairs = q] /\ e.devices = d.devices
    BY <2>0, <2>3 DEF Shape, q
  <2>6. e.folders[f] \in Folder /\ e.folders[f].pairs = q
    BY <2>1, <2>4, <2>5 DEF Folder
  <2>7. f \in Live(e) /\ i \in Pairs(e, f) /\ i \notin Rows(e)
    BY <1>2, <2>0, <2>4, <2>5, <2>6, NoneIsNothing DEF Live, Pairs, Rows
  <2>8. ~ Valid(e)
    BY <2>7 DEF Valid, Referential
  <2> QED BY <2>8, FollowsSelf DEF Commit, e
<1> QED BY <1>1, <1>2

\* The rows of a database with the same folders, and room in it.
LEMMA SameFolders ==
  ASSUME NEW d, NEW e, e.folders = d.folders, e.last = d.last
  PROVE  /\ Live(e) = Live(d) /\ (Room(e) <=> Room(d))
         /\ \A x : Keyed(e, x) = Keyed(d, x) /\ At(e, x) = At(d, x) /\ ListedAt(e, x) = ListedAt(d, x)
<1>1. Live(e) = Live(d)
  BY DEF Live
<1>2. Listed(e) = Listed(d)
  BY <1>1 DEF Listed, Pairs
<1> QED BY <1>1, <1>2 DEF Room, Keyed, At, ListedAt

\* Add and commit, after the device has got its row.
LEMMA AddCommitted ==
  ASSUME NEW c, NEW d, NEW p \in Path, NEW i \in Rows(d), DbInv(c), Follows(c, d),
         At(d, p) # {} \/ Room(d)
  PROVE  Follows(c, Commit(d, Added(d, p, i)))
<1>1. DbInv(d)
  BY DEF Follows, Continues
<1>2. Follows(d, Added(d, p, i))
  BY <1>1, AddedFollows
<1> QED BY <1>2, FollowsOn, Committed

\* wire_folder_pair, the path has a row: it and its own share get the peer's guid.
NoClash(d, f, g) ==
  ~ \E s, t \in d.shares : s # t /\ s.owner = t.owner
       /\ s.guid = d.folders[f].guid /\ t.guid = g
ReboundTo(d, f, g) ==
  [d EXCEPT !.folders[f].guid = g, !.shares =
     {IF s.owner = Own /\ s.guid = d.folders[f].guid
      THEN [s EXCEPT !.guid = g] ELSE s : s \in @}]

\* The shares stay unique.
LEMMA Rebound ==
  ASSUME NEW d, NEW f \in Live(d), NEW g \in Remote, DbInv(d), NoClash(d, f, g),
         NEW e, e = ReboundTo(d, f, g)
  PROVE  Follows(d, e) /\ Live(e) = Live(d)
<1> DEFINE old == d.folders[f].guid
           To(s) == IF s.owner = Own /\ s.guid = old THEN [s EXCEPT !.guid = g] ELSE s
           S == {To(s) : s \in d.shares}
           r == [d.folders[f] EXCEPT !.guid = g]
<1>0. Shape(d) /\ Sound(d) /\ Valid(d) /\ f \in FolderId
  BY DEF DbInv, Sound, Live
<1>1. /\ r \in Folder /\ r.guid = g /\ r.dev = d.folders[f].dev /\ r.pairs = d.folders[f].pairs
  BY <1>0, Columns DEF Folder
<1>2. ASSUME NEW s \in d.shares
      PROVE  /\ To(s) \in Share /\ To(s).owner = s.owner /\ To(s).path = s.path
             /\ To(s).guid = s.guid \/ (s.owner = Own /\ s.guid = old /\ To(s).guid = g)
             /\ (s.owner = Own /\ s.guid = old) => To(s).guid = g
  BY <1>0, Columns DEF Share
<1>3. e = [d EXCEPT !.folders = [d.folders EXCEPT ![f] = r], !.shares = S]
  BY DEF ReboundTo
<1>4. S \in SUBSET Share
  BY <1>2
<1>5. \A t \in S : \E s \in d.shares : t = To(s)
  OBVIOUS
<1> HIDE DEF S, r, To
<1>6. /\ e.folders = [d.folders EXCEPT ![f] = r] /\ e.devices = d.devices /\ e.last = d.last
      /\ e.history = d.history /\ e.shares = S
  BY <1>0, <1>3 DEF Shape
<1>7. Shape(e)
  <2>1. [d.folders EXCEPT ![f] = r] \in [FolderId -> Folder \cup {None}]
    BY <1>0, <1>1, Columns
  <2> QED BY <1>0, <1>3, <1>4, <2>1 DEF Shape
<1>8. e.folders[f] = r /\ \A h \in FolderId \ {f} : e.folders[h] = d.folders[h]
  BY <1>0, <1>6, Columns
<1>9. Live(e) = Live(d) /\ Rows(e) = Rows(d) /\ Certified(e) = Certified(d)
  BY <1>1, <1>6, <1>8, NoneIsNothing DEF Live, Rows, Certified
<1>10. \A h \in Live(d) : /\ Pairs(e, h) = Pairs(d, h) /\ e.folders[h].dev = d.folders[h].dev
                          /\ e.folders[h].pairs = d.folders[h].pairs
                          /\ e.folders[h].guid = d.folders[h].guid \/ e.folders[h].guid \in Remote
  BY <1>1, <1>8 DEF Live, Pairs
<1>11. \A a, b \in e.shares : a.guid = b.guid /\ a.owner = b.owner => a = b
  <2> SUFFICES ASSUME NEW a \in e.shares, NEW b \in e.shares,
                      a.guid = b.guid, a.owner = b.owner
               PROVE  a = b
    OBVIOUS
  <2>0. PICK s \in d.shares, t \in d.shares : a = To(s) /\ b = To(t)
    BY <1>5, <1>6
  <2>1. To(s).guid = To(t).guid /\ To(s).owner = To(t).owner
    BY <2>0
  <2>2. s.owner = t.owner
    BY <1>2, <2>1
  <2>3. s.guid = t.guid => s = t
    BY <1>0, <2>2 DEF Valid, Unique
  <2>4. CASE s.owner = Own /\ s.guid = old /\ t.guid # old
    <3>1. To(s).guid = g /\ To(t).guid = t.guid
      BY <1>2, <2>4
    <3> QED BY <3>1, <2>1, <2>2, <2>4 DEF NoClash
  <2>5. CASE t.owner = Own /\ t.guid = old /\ s.guid # old
    <3>1. To(t).guid = g /\ To(s).guid = s.guid
      BY <1>2, <2>5
    <3> QED BY <3>1, <2>1, <2>2, <2>5 DEF NoClash
  <2>6. CASE s.owner = Own /\ s.guid = old /\ t.guid = old
    BY <2>0, <2>3, <2>6
  <2>7. CASE ~ (s.owner = Own /\ (s.guid = old \/ t.guid = old))
    <3>1. To(t) = t /\ To(s) = s
      BY <2>2, <2>7 DEF To
    <3> QED BY <3>1, <2>0, <2>1, <2>3
  <2> QED BY <2>2, <2>4, <2>5, <2>6, <2>7
<1>12. \A t \in e.shares : t.guid \in FolderId => t.guid <= d.last
  <2>1. \A s \in d.shares : s.guid \in FolderId => s.guid <= d.last
    BY <1>0 DEF Sound, NumbersGiven
  <2>2. g \notin FolderId
    BY StorageAssumption
  <2> SUFFICES ASSUME NEW t \in e.shares, t.guid \in FolderId PROVE t.guid <= d.last
    OBVIOUS
  <2>3. PICK s \in d.shares : t = To(s)
    BY <1>5, <1>6
  <2> QED BY <1>2, <2>1, <2>2, <2>3
<1>13. ASSUME NEW t \in e.shares PROVE t.owner \in Rows(e)
  <2>1. PICK s \in d.shares : t = To(s)
    BY <1>5, <1>6
  <2>2. s.owner \in Rows(d)
    BY <1>0 DEF Valid, Referential
  <2> QED BY <1>2, <1>9, <2>1, <2>2
<1>14. Valid(e)
  <2>1. Referential(e)
    BY <1>0, <1>6, <1>9, <1>10, <1>13 DEF Valid, Referential
  <2>2. Unique(e)
    BY <1>0, <1>9, <1>10, <1>11 DEF Valid, Unique
  <2> QED BY <2>1, <2>2 DEF Valid
<1>15. Follows(d, e)
  BY <1>0, <1>6, <1>7, <1>9, <1>10, <1>12, <1>14, Kept
<1> QED BY <1>9, <1>15

\* The pairs of one folder are deleted.
LEMMA UnpairedOne ==
  ASSUME NEW d, NEW f \in Live(d), NEW i, DbInv(d)
  PROVE  Follows(d, Unpaired(d, f, i))
<1> DEFINE q == IF i = None THEN <<>> ELSE RemoveFirst(d.folders[f].pairs, i)
           e == Unpaired(d, f, i)
           r == e.folders[f]
<1>0. Shape(d) /\ Valid(d) /\ f \in FolderId
  BY DEF DbInv, Sound, Live
<1>1. e = [d EXCEPT !.folders[f].pairs = q]
  BY DEF Unpaired
<1>2. /\ r \in Folder /\ ToSet(r.pairs) = Left(d, f, i)
      /\ IsInjective(r.pairs) /\ r.pairs \in Seq(Id)
  BY UnpairedFolder
<1> HIDE DEF q, e
<1>3. r.pairs = q
  <2>1. d.folders[f] \in Folder
    BY <1>0, Columns
  <2>2. r = [d.folders[f] EXCEPT !.pairs = q]
    BY <1>0, <1>1 DEF Shape
  <2> QED BY <2>1, <2>2 DEF Folder
<1>4. ToSet(q) \subseteq Rows(d)
  BY <1>0, <1>2, <1>3 DEF Left, Valid, Referential
<1>5. Follows(d, e)
  BY <1>1, <1>2, <1>3, <1>4, PairsPut
<1> QED BY <1>5 DEF e

-----------------------------------------------------------------------------
(***************************************************************************)
(* Every call leads to a database that follows.                            *)
(***************************************************************************)
\* Names and certificates that calls store.
LEMMA NamesThere ==
  Label[Own] \in Names /\ Own \in Id /\ Own \in Current /\ Current \subseteq Id /\ Id \subseteq Names
                      /\ Path \subseteq Names /\ \A i \in Id : Label[i] \in Names
BY StorageAssumption DEF Names, Current

\* A pairing stores a certificate under its own id.
LEMMA PairingCall ==
  ASSUME DbInv(db), NEW i \in Current, UpsertDevice(i)
  PROVE  Follows(db, db')
BY NamesThere, UpsertedFollows DEF UpsertDevice, Call

\* add_sync_folder of the API adds a device, then a folder or a pair.
LEMMA AddSyncFolderCall ==
  ASSUME DbInv(db), NEW p \in Path, NEW i \in Current, AddSyncFolder(p, i)
  PROVE  Follows(db, db')
<1> DEFINE d == IF i = Own /\ i \notin Rows(db) THEN Upserted(db, i, Label[i], None)
                                                ELSE Ensured(db, i)
<1>1. Follows(db, d) /\ i \in Rows(d) /\ d.folders = db.folders /\ d.last = db.last
  BY NamesThere, UpsertedFollows, EnsuredFollows
<1>2. (At(db, p) # {} \/ Room(db)) /\ db' = Commit(d, Added(d, p, i))
  BY DEF AddSyncFolder, Call
<1> HIDE DEF d
<1>3. At(d, p) # {} \/ Room(d)
  BY <1>1, <1>2, SameFolders
<1> QED BY <1>1, <1>2, <1>3, AddCommitted

\* add_sync_folder_with_peers.
LEMMA AddWithPeersCall ==
  ASSUME DbInv(db), NEW p \in Path, NEW i \in Current, AddSyncFolderWithPeers(p, i)
  PROVE  Follows(db, db')
<1> DEFINE d == Upserted(db, i, i, None)
<1>1. Follows(db, d) /\ i \in Rows(d) /\ d.folders = db.folders /\ d.last = db.last
  BY NamesThere, UpsertedFollows
<1>2. (At(db, p) # {} \/ Room(db)) /\ db' = Commit(d, Added(d, p, i))
  BY DEF AddSyncFolderWithPeers, Call
<1> HIDE DEF d
<1>3. At(d, p) # {} \/ Room(d)
  BY <1>1, <1>2, SameFolders
<1> QED BY <1>1, <1>2, <1>3, AddCommitted

\* register_folder, for this device.
LEMMA RegisterFolderCall ==
  ASSUME DbInv(db), NEW p \in Path, RegisterFolder(p)
  PROVE  Follows(db, db')
<1> DEFINE d == Upserted(db, Own, Label[Own], None)
<1>1. Follows(db, d) /\ Own \in Rows(d) /\ d.folders = db.folders /\ d.last = db.last
  BY NamesThere, UpsertedFollows
<1>2. (At(db, p) # {} \/ Room(db)) /\ db' = Commit(d, Added(d, p, Own))
  BY DEF RegisterFolder, Call
<1> HIDE DEF d
<1>3. At(d, p) # {} \/ Room(d)
  BY <1>1, <1>2, SameFolders
<1> QED BY <1>1, <1>2, <1>3, AddCommitted

\* add_folder_device, after the device's row.
LEMMA AddFolderDeviceCall ==
  ASSUME DbInv(db), NEW f \in FolderId, NEW i \in Current, AddFolderDevice(f, i)
  PROVE  Follows(db, db')
<1> DEFINE d == Upserted(db, i, i, None)
<1>1. Follows(db, d) /\ i \in Rows(d) /\ d.folders = db.folders /\ d.last = db.last
  BY NamesThere, UpsertedFollows
<1>2. f \in Live(db) /\ db' = Attached(d, f, i)
  BY DEF AddFolderDevice, Call
<1> HIDE DEF d
<1>3. f \in Live(d) /\ DbInv(d)
  BY <1>1, <1>2, SameFolders DEF Follows, Continues
<1>4. Follows(d, db')
  BY <1>1, <1>2, <1>3, AttachedFollows
<1> QED BY <1>1, <1>4, FollowsOn

\* `folders add`: the rows that are re-keyed are valid one by one, hence together.
LEMMA AdoptFolderCall ==
  ASSUME DbInv(db), NEW p \in Path, NEW i \in Current, AdoptFolder(p, i)
  PROVE  Follows(db, db')
<1> DEFINE mine == {f \in At(db, p) : Own \in Pairs(db, f)}
           bad  == {f \in mine : ~ Valid(Rekeyed(db, f, i))}
           todo == {f \in mine : \A b \in bad : f < b}
           c    == Ensured(db, i)
           X    == [f \in FolderId |-> IF f \in todo THEN Rekeyed(db, f, i).folders[f]
                                       ELSE c.folders[f]]
           d    == [c EXCEPT !.folders = X]
<1>0. i \in Id /\ Shape(db) /\ Valid(db) /\ FolderId \subseteq Int
  BY NamesThere DEF DbInv, Sound, FolderId
<1>1. /\ Follows(db, c) /\ i \in Rows(c) /\ c.folders = db.folders /\ c.last = db.last
      /\ Rows(c) = Rows(db) \cup {i}
  BY <1>0, EnsuredFollows
<1>2. /\ At(db, p) # {} \/ Room(db)
      /\ db' = d \/ db' = Commit(d, Added(d, p, i))
  BY DEF AdoptFolder, Call
<1>3. DbInv(c) /\ Shape(c) /\ Live(c) = Live(db) /\ At(c, p) = At(db, p) /\ (Room(c) <=> Room(db))
  BY <1>1, SameFolders DEF Follows, Continues, DbInv, Sound
<1>4. ASSUME NEW f \in todo
      PROVE  /\ f \in Live(c) /\ X[f] \in Folder /\ X[f].guid = c.folders[f].guid
             /\ X[f].dev = c.folders[f].dev /\ X[f].path = c.folders[f].path
             /\ IsInjective(X[f].pairs) /\ ToSet(X[f].pairs) \subseteq Rows(c)
  <2> DEFINE s == c.folders[f].pairs
             q == [s EXCEPT ![1] = i]
             e == Rekeyed(db, f, i)
             r == [c.folders[f] EXCEPT !.pairs = q]
  <2>1. f \in At(db, p) /\ Own \in Pairs(db, f) /\ f \in FolderId
    BY DEF At, Live
  <2>2. Valid(e)
    BY <1>0, <2>1
  <2>3. f \in Live(c) /\ c.folders[f] \in Folder /\ s \in Seq(Id)
    BY <1>3, <2>1, Columns DEF At
  <2>4. q \in Seq(Id)
    <3> HIDE DEF s
    <3>1. DOMAIN q = 1..Len(s) /\ Len(s) \in Nat /\ \A n \in 1..Len(s) : q[n] \in Id
      BY <1>0, <2>3
    <3>2. q = [n \in 1..Len(s) |-> q[n]]
      BY <2>3
    <3> HIDE DEF q
    <3> QED BY <3>1, <3>2
  <2>5. r \in Folder /\ r.guid = c.folders[f].guid /\ r.dev = c.folders[f].dev
        /\ r.path = c.folders[f].path /\ r.pairs = q
    <3> HIDE DEF q
    <3> QED BY <2>3, <2>4 DEF Folder
  <2>6. e = [c EXCEPT !.folders[f].pairs = q]
    BY DEF Rekeyed
  <2> HIDE DEF q, c, X
  <2>7. e.folders[f] = r /\ e.devices = c.devices
    <3> HIDE DEF e
    <3> QED BY <1>3, <2>1, <2>6 DEF Shape
  <2>8. X[f] = r
    BY <2>1, <2>7 DEF X
  <2> HIDE DEF e, r
  <2>9. f \in Live(e) /\ Rows(e) = Rows(c)
    BY <2>1, <2>5, <2>7, NoneIsNothing DEF Live, Rows
  <2>10. IsInjective(r.pairs) /\ ToSet(r.pairs) \subseteq Rows(c)
    BY <2>2, <2>7, <2>9 DEF Valid, Unique, Referential, Pairs
  <2> QED BY <2>3, <2>5, <2>8, <2>10
<1>5. ASSUME NEW f \in Live(c) \ todo
      PROVE  /\ X[f] \in Folder /\ X[f] = c.folders[f]
             /\ IsInjective(X[f].pairs) /\ ToSet(X[f].pairs) \subseteq Rows(c)
  <2> HIDE DEF c, todo
  <2>1. X[f] = c.folders[f] /\ c.folders[f] \in Folder /\ Valid(c)
    BY <1>3, Columns DEF Live, DbInv
  <2> QED BY <2>1 DEF Valid, Unique, Referential, Pairs
<1>6. ASSUME NEW f \in FolderId, f \notin Live(c)
      PROVE  X[f] = None
  <2>1. f \notin todo
    BY <1>4, <1>6
  <2> QED BY <1>6, <2>1 DEF Live
<1>7. X \in [FolderId -> Folder \cup {None}]
  <2>1. \A f \in FolderId : X[f] \in Folder \cup {None}
    <3> HIDE DEF X, todo, c
    <3> QED BY <1>4, <1>5, <1>6
  <2> QED BY <2>1
<1> HIDE DEF X, c, todo
<1>8. \A f \in FolderId : X[f] # None <=> f \in Live(c)
  BY <1>4, <1>5, <1>6, NoneIsNothing
<1>9. \A f \in Live(c) : /\ X[f].guid = c.folders[f].guid /\ X[f].dev = c.folders[f].dev
                         /\ X[f].path = c.folders[f].path
                         /\ IsInjective(X[f].pairs) /\ ToSet(X[f].pairs) \subseteq Rows(c)
  BY <1>4, <1>5
<1> HIDE DEF d
<1>10. /\ Follows(c, d) /\ d.folders = X /\ Rows(d) = Rows(c) /\ Live(d) = Live(c) /\ d.last = c.last
  BY <1>3, <1>7, <1>8, <1>9, FoldersPut DEF d
<1>11. At(d, p) = At(c, p)
  BY <1>9, <1>10 DEF At
<1>12. At(d, p) # {} \/ Room(d)
  BY <1>2, <1>3, <1>10, <1>11 DEF Room
<1>13. Follows(db, d)
  BY <1>1, <1>10, FollowsOn
<1>14. Follows(db, Commit(d, Added(d, p, i)))
  BY <1>1, <1>10, <1>12, <1>13, AddCommitted
<1> QED BY <1>2, <1>13, <1>14

\* remove_folder_device: the pair, and the header with its last pair, or neither.
LEMMA RemoveFolderDeviceCall ==
  ASSUME DbInv(db), NEW f, NEW i \in Id, RemoveFolderDevice(f, i)
  PROVE  Follows(db, db')
<1> DEFINE d == Unpaired(db, f, i)
<1>1. f \in Live(db) /\ db' = Commit(db, Pruned(d, {f}))
  BY DEF RemoveFolderDevice, Call
<1>2. Follows(db, d)
  BY <1>1, UnpairedOne
<1> QED BY <1>1, <1>2, PrunedFollows

\* remove_sync_folder_by_id: if its second statement fails, the first one stays.
LEMMA RemoveFolderCall ==
  ASSUME DbInv(db), NEW f \in FolderId, RemoveFolder(f)
  PROVE  Follows(db, db')
<1> DEFINE d == Unpaired(db, f, None)
<1>1. f \in Live(db) /\ db' = Commit(d, Pruned(d, {f}))
  BY DEF RemoveFolder, Call
<1>2. Follows(db, d)
  BY <1>1, UnpairedOne
<1> QED BY <1>1, <1>2, PrunedFollows

\* remove_sync_folders, of one device's pairs or of all.
LEMMA RemoveSyncFoldersCall ==
  ASSUME DbInv(db), NEW p \in Path, NEW i, RemoveSyncFolders(p, i)
  PROVE  Follows(db, db')
<1> DEFINE W == At(db, p)
           d == [db EXCEPT !.folders = LessPairs(db, W, i)]
<1>1. db' = Commit(db, Pruned(d, W))
  BY DEF RemoveSyncFolders, Call, LessPairs
<1>2. W \in SUBSET Live(db)
  BY DEF At
<1> HIDE DEF W, d
<1>3. Follows(db, d)
  BY <1>2, UnpairedFollows DEF d
<1> QED BY <1>1, <1>3, PrunedFollows

\* `folders add-device`, whose device has a row.
LEMMA CliAddDeviceCall ==
  ASSUME DbInv(db), NEW p \in Path, NEW i \in Current, CliAddDevice(p, i)
  PROVE  Follows(db, db')
<1> DEFINE f == Min(ListedAt(db, p))
<1>1. i \in Rows(db) /\ ListedAt(db, p) # {} /\ db' = Attached(db, f, i)
  BY DEF CliAddDevice, CliDevice, Call
<1>2. f \in Live(db)
  BY <1>1, Found
<1> HIDE DEF f
<1> QED BY <1>1, <1>2, AttachedFollows

\* remove_device, or nothing.
LEMMA RemoveDeviceCall ==
  ASSUME DbInv(db), NEW i \in Id, NEW d, d = Commit(db, Removal(db, i))
  PROVE  Continues(db, d)
<1> DEFINE e == Removal(db, i)
<1> HIDE DEF e
<1>1. Valid(e) => Continues(db, e)
  BY RemovalLeaves DEF e
<1> QED BY <1>1, FollowsSelf DEF Commit, Follows, e

\* clear_all_sync_state, or nothing where this device owns shares.
LEMMA ClearCall ==
  ASSUME DbInv(db), ClearAllSyncState
  PROVE  Continues(db, db')
<1> DEFINE e == [db EXCEPT !.history = {}, !.folders = [f \in FolderId |-> None],
                           !.devices = [i \in Id |-> None]]
<1>0. Shape(db) /\ Sound(db)
  BY DEF DbInv, Sound
<1>1. db' = Commit(db, e)
  BY DEF ClearAllSyncState, Call
<1>2. /\ e.folders = [f \in FolderId |-> None] /\ e.devices = [i \in Id |-> None]
      /\ e.last = db.last /\ e.shares = db.shares
  BY <1>0 DEF Shape
<1>3. Shape(e)
  BY <1>0 DEF Shape
<1> HIDE DEF e
<1>4. Live(e) = {} /\ Certified(e) = {}
  BY <1>2 DEF Live, Certified, Rows
<1>5. \A s \in e.shares : s.guid \in FolderId => s.guid <= db.last
  BY <1>0, <1>2 DEF Sound, NumbersGiven
<1>6. Valid(e) => Continues(db, e)
  BY <1>0, <1>2, <1>3, <1>4, <1>5, Kept
<1> QED BY <1>1, <1>6, FollowsSelf DEF Commit, Follows

\* share_folder: a share's guid is that of a folder.
LEMMA ShareFolderCall ==
  ASSUME DbInv(db), NEW f \in FolderId, ShareFolder(f)
  PROVE  Follows(db, db')
<1> DEFINE d == Upserted(db, Own, Label[Own], None)
<1>1. Follows(db, d) /\ Own \in Rows(d) /\ d.folders = db.folders /\ d.last = db.last
  BY NamesThere, UpsertedFollows
<1>2. f \in Live(db) /\ db.folders[f].guid # None /\ db' = Shared(d, f)
  BY DEF ShareFolder, Call
<1> HIDE DEF d
<1>3. f \in Live(d) /\ DbInv(d)
  BY <1>1, <1>2, SameFolders DEF Follows, Continues
<1>4. Follows(d, db')
  BY <1>1, <1>2, <1>3, SharedFollows
<1> QED BY <1>1, <1>4, FollowsOn

\* `share add`, with the folder it may have to add.
LEMMA CliShareCall ==
  ASSUME DbInv(db), GuidsThere(db), NEW p \in Path, CliShare(p)
  PROVE  Follows(db, db')
<1> DEFINE d == Upserted(db, Own, Label[Own], None)
           e == IF ListedAt(d, p) # {} THEN d ELSE Added(d, p, Own)
           f == Min(ListedAt(e, p))
<1>1. Follows(db, d) /\ Own \in Rows(d) /\ d.folders = db.folders /\ d.last = db.last
  BY NamesThere, UpsertedFollows
<1>2. (At(db, p) # {} \/ Room(db)) /\ db' = Shared(e, f)
  BY DEF CliShare, Call
<1> HIDE DEF d
<1>3. DbInv(d) /\ (At(d, p) # {} \/ Room(d))
  BY <1>1, <1>2, SameFolders DEF Follows, Continues
<1>4. Follows(d, e) /\ Own \in Rows(e) /\ ListedAt(e, p) # {}
  <2>1. CASE ListedAt(d, p) # {}
    BY <2>1, <1>1, <1>3, FollowsSelf
  <2>2. CASE ListedAt(d, p) = {}
    BY <2>2, <1>1, <1>3, AddedFollows
  <2> QED BY <2>1, <2>2
<1> HIDE DEF e
<1>5. Follows(db, e)
  BY <1>1, <1>4, FollowsOn
<1>6. f \in Live(e)
  BY <1>4, Found
<1> HIDE DEF f
<1>7. e.folders[f].guid # None
  BY <1>5, <1>6 DEF Follows, Continues, GuidsThere
<1>8. Follows(e, db')
  BY <1>2, <1>4, <1>5, <1>6, <1>7, SharedFollows DEF Follows, Continues
<1> QED BY <1>5, <1>8, FollowsOn

\* A share goes; nothing refers to it.
LEMMA UnshareCall ==
  ASSUME DbInv(db), NEW s \in db.shares, UnshareFolder(s)
  PROVE  Follows(db, db')
<1> DEFINE e == [db EXCEPT !.shares = db.shares \ {s}]
<1>0. Shape(db) /\ Sound(db) /\ Valid(db)
  BY DEF DbInv, Sound
<1>1. db' = e
  BY DEF UnshareFolder, Call
<1>2. /\ e.folders = db.folders /\ e.devices = db.devices /\ e.history = db.history
      /\ e.last = db.last /\ e.shares = db.shares \ {s}
  BY <1>0 DEF Shape
<1>3. Shape(e)
  BY <1>0 DEF Shape
<1> HIDE DEF e
<1>4. Live(e) = Live(db) /\ Certified(e) = Certified(db) /\ Rows(e) = Rows(db)
  BY <1>2 DEF Live, Certified, Rows
<1>5. \A t \in e.shares : t.guid \in FolderId => t.guid <= db.last
  BY <1>0, <1>2 DEF Sound, NumbersGiven
<1>6. Valid(e)
  BY <1>0, <1>2, <1>4 DEF Valid, Referential, Unique, Pairs
<1>7. Follows(db, e)
  BY <1>0, <1>2, <1>3, <1>4, <1>5, <1>6, Kept
<1> QED BY <1>1, <1>7

\* approve_folder_pair: the requester's row, the folder of the share, the pair.
LEMMA ApproveCall ==
  ASSUME DbInv(db), NEW s \in db.shares, NEW i \in Current, ApproveFolderPair(s, i)
  PROVE  Follows(db, db')
<1> DEFINE d == Upserted(db, i, s.path, None)
           e == EnsuredGuid(d, s.path, s.guid)
           f == Min(Keyed(e, s.guid))
<1>0. Shape(db) /\ Sound(db) /\ Valid(db) /\ db.last \in Int /\ FolderId \subseteq Int
  BY Columns DEF DbInv, Sound, FolderId
<1>1. s.path \in Path /\ s.guid \in FolderId \cup Remote
  BY <1>0, Columns DEF Share
<1>2. /\ s.owner = Own /\ (Keyed(db, s.guid) # {} \/ Room(db)) /\ db' = Attached(e, f, i)
  BY DEF ApproveFolderPair, Call
<1>3. Own \in Rows(db)
  BY <1>0, <1>2 DEF Valid, Referential
<1>4. /\ Follows(db, d) /\ i \in Rows(d) /\ Own \in Rows(d)
      /\ d.folders = db.folders /\ d.last = db.last
  BY <1>1, <1>3, NamesThere, UpsertedFollows
<1>5. s.guid \in FolderId => s.guid <= db.last
  BY <1>0 DEF Sound, NumbersGiven
<1>6. s.guid \in FolderId => s.guid <= d.last + 1
  <2>1. SUFFICES ASSUME s.guid \in FolderId PROVE s.guid <= d.last + 1
    OBVIOUS
  <2>2. s.guid \in Int /\ s.guid <= db.last
    BY <1>0, <1>5, <2>1
  <2> QED BY <1>0, <1>4, <2>2
<1> HIDE DEF d, e, f
<1>7. DbInv(d) /\ (Keyed(d, s.guid) # {} \/ Room(d))
  BY <1>2, <1>4, SameFolders DEF Follows, Continues
<1>8. e = EnsuredGuid(d, s.path, s.guid)
  BY DEF e
<1>9. Follows(d, e) /\ Rows(e) = Rows(d) /\ Keyed(e, s.guid) # {}
  BY <1>1, <1>4, <1>6, <1>7, <1>8, EnsuredGuidFollows
<1>10. f \in Live(e) /\ DbInv(e)
  BY <1>9, Found DEF f, Follows, Continues
<1>11. Follows(e, db')
  BY <1>2, <1>4, <1>9, <1>10, AttachedFollows
<1>12. Follows(db, e)
  BY <1>4, <1>9, FollowsOn
<1> QED BY <1>11, <1>12, FollowsOn

\* `folders request`: a folder with a peer's guid, perhaps without a pair.
LEMMA RegisterReplicaCall ==
  ASSUME DbInv(db), NEW g \in Remote, NEW p \in Path, NEW i, RegisterReplica(g, p, i)
  PROVE  Follows(db, db')
<1> DEFINE d == EnsuredGuid(db, p, g)
           f == Min(Keyed(d, g))
<1>1. /\ i \in Rows(db) \cup {None} /\ (Keyed(db, g) # {} \/ Room(db))
      /\ db' = IF Keyed(d, g) = {} \/ i = None THEN d ELSE Attached(d, f, i)
  BY DEF RegisterReplica, Call
<1> HIDE DEF d, f
<1>2. d = EnsuredGuid(db, p, g) /\ g \notin FolderId
  BY StorageAssumption DEF d
<1>3. Follows(db, d) /\ Rows(d) = Rows(db)
  BY <1>1, <1>2, EnsuredGuidFollows
<1>4. CASE Keyed(d, g) = {} \/ i = None
  BY <1>1, <1>3, <1>4
<1>5. CASE ~ (Keyed(d, g) = {} \/ i = None)
  <2>1. f \in Live(d) /\ DbInv(d) /\ i \in Rows(d)
    BY <1>1, <1>3, <1>5, Found DEF f, Follows, Continues
  <2>2. db' = Attached(d, f, i)
    BY <1>1, <1>5
  <2>3. Follows(d, db')
    BY <2>1, <2>2, AttachedFollows
  <2> QED BY <1>3, <2>3, FollowsOn
<1> QED BY <1>4, <1>5

\* wire_folder_pair: a folder and its shares get a peer's guid, or a folder is added.
LEMMA WireCall ==
  ASSUME DbInv(db), NEW g \in Remote, NEW p \in Path, NEW i \in Current, WireFolderPair(g, p, i)
  PROVE  Follows(db, db')
<1> DEFINE d == Upserted(db, Own, Label[Own], None)
           here == IF At(d, p) # {} THEN Min(At(d, p)) ELSE 0
           rebound == [d EXCEPT !.folders[here].guid = g, !.shares =
                         {IF s.owner = Own /\ s.guid = d.folders[here].guid
                          THEN [s EXCEPT !.guid = g] ELSE s : s \in @}]
           clash == \E s, t \in d.shares : s # t /\ s.owner = t.owner
                       /\ s.guid = d.folders[here].guid /\ t.guid = g
           e == IF here # 0 THEN rebound
                ELSE IF Keyed(d, g) # {} THEN d ELSE Inserted(d, p, Own, g, <<Own>>)
           f == IF here # 0 THEN here ELSE Min(Keyed(e, g))
<1>1. Follows(db, d) /\ Own \in Rows(d)
  BY NamesThere, UpsertedFollows
<1>2. /\ here # 0 \/ Keyed(d, g) # {} \/ Room(d)
      /\ db' = IF here # 0 /\ clash THEN d ELSE Commit(e, Attached(e, f, i))
  BY DEF WireFolderPair, Call
<1> HIDE DEF d
<1>3. DbInv(d) /\ i \in Id /\ Own \in Id
  BY <1>1, NamesThere DEF Follows, Continues
<1>4. here # 0 => here \in Live(d)
  BY Found
<1> HIDE DEF here, clash
<1>5. ASSUME ~ (here # 0 /\ clash)
      PROVE  Follows(d, e) /\ f \in Live(e)
  <2>1. CASE here # 0
    <3>1. here \in Live(d) /\ e = rebound /\ f = here
      BY <1>4, <2>1
    <3>2. NoClash(d, here, g)
      BY <1>5, <2>1 DEF clash, NoClash
    <3>3. e = ReboundTo(d, here, g)
      BY <3>1 DEF ReboundTo
    <3> HIDE DEF e, f, rebound
    <3>4. Follows(d, e) /\ Live(e) = Live(d)
      BY <1>3, <3>1, <3>2, <3>3, Rebound
    <3> QED BY <3>1, <3>4
  <2>2. CASE here = 0 /\ Keyed(d, g) # {}
    <3>1. e = d /\ f = Min(Keyed(d, g))
      BY <2>2
    <3> QED BY <1>3, <2>2, <3>1, Found, FollowsSelf
  <2>3. CASE here = 0 /\ Keyed(d, g) = {}
    <3> DEFINE q == <<Own>>
               h == NextRow(d)
    <3>1. Room(d) /\ e = Inserted(d, p, Own, g, q) /\ f = Min(Keyed(e, g))
      BY <1>2, <2>3
    <3>2. q \in Seq(Id) /\ IsInjective(q) /\ ToSet(q) \subseteq Rows(d)
      BY <1>1, <1>3 DEF IsInjective, ToSet
    <3>3. g \notin FolderId /\ g \in FolderId \cup Remote
      BY StorageAssumption
    <3> HIDE DEF q, h, e, f
    <3>4. h = NextRow(d)
      BY DEF h
    <3>5. Follows(d, e) /\ h \in Live(e) /\ e.folders[h].guid = g
      BY <1>1, <1>3, <3>1, <3>2, <3>3, <3>4, InsertedFollows
    <3>6. Keyed(e, g) # {}
      BY <3>5 DEF Keyed
    <3> QED BY <3>1, <3>5, <3>6, Found
  <2> QED BY <2>1, <2>2, <2>3
<1>6. CASE here # 0 /\ clash
  BY <1>1, <1>2, <1>6
<1>7. CASE ~ (here # 0 /\ clash)
  <2> HIDE DEF e, f
  <2>1. Follows(d, e) /\ f \in Live(e) /\ DbInv(e)
    BY <1>5, <1>7 DEF Follows, Continues
  <2>2. db' = Commit(e, Attached(e, f, i))
    BY <1>2, <1>7
  <2>3. Follows(e, db')
    BY <1>3, <2>1, <2>2, AttachCommitted
  <2>4. Follows(db, e)
    BY <1>1, <2>1, FollowsOn
  <2> QED BY <2>3, <2>4, FollowsOn
<1> QED BY <1>6, <1>7

\* A folder's path changes; nothing else of it does.
LEMMA SetPathCall ==
  ASSUME DbInv(db), NEW f \in FolderId, NEW p \in Path, SetFolderLocalPath(f, p)
  PROVE  Follows(db, db')
<1> DEFINE r == [db.folders[f] EXCEPT !.path = p]
           X == [db.folders EXCEPT ![f] = r]
<1>0. Shape(db) /\ Valid(db) /\ f \in Live(db) /\ db.folders[f] \in Folder
  BY Columns DEF DbInv, Sound, SetFolderLocalPath
<1>1. /\ r \in Folder /\ r.guid = db.folders[f].guid /\ r.dev = db.folders[f].dev
      /\ r.pairs = db.folders[f].pairs
  BY <1>0 DEF Folder
<1>2. db' = [db EXCEPT !.folders = X]
  BY DEF SetFolderLocalPath, Call
<1> HIDE DEF r
<1>3. X \in [FolderId -> Folder \cup {None}]
  BY <1>0, <1>1, Columns
<1>4. \A h \in FolderId : X[h] = IF h = f THEN r ELSE db.folders[h]
  BY <1>0, Columns
<1> HIDE DEF X
<1>5. \A h \in FolderId : X[h] # None <=> h \in Live(db)
  BY <1>0, <1>1, <1>4, NoneIsNothing DEF Live
<1>6. \A h \in Live(db) : IsInjective(db.folders[h].pairs) /\ ToSet(db.folders[h].pairs) \subseteq Rows(db)
  BY <1>0 DEF Valid, Unique, Referential, Pairs
<1>7. \A h \in Live(db) : /\ X[h].guid = db.folders[h].guid /\ X[h].dev = db.folders[h].dev
                          /\ IsInjective(X[h].pairs) /\ ToSet(X[h].pairs) \subseteq Rows(db)
  BY <1>1, <1>4, <1>6 DEF Live
<1> QED BY <1>2, <1>3, <1>5, <1>7, FoldersPut

\* A session pins the certificate of the device it talks to.
LEMMA StartSessionCall ==
  ASSUME DbInv(db), NEW f \in FolderId, NEW i \in Current, StartSession(f, i)
  PROVE  Follows(db, db')
<1>0. Shape(db) /\ Sound(db) /\ Valid(db) /\ i \in Id /\ f \in Live(db) /\ i \in Pairs(db, f)
  BY NamesThere DEF DbInv, Sound, StartSession
<1>1. i \in Rows(db) /\ db.devices[i] \in Row
  BY <1>0, Columns DEF Valid, Referential
<1>2. CASE db.devices[i].cert # None
  BY <1>2, FollowsSelf DEF StartSession
<1>3. CASE db.devices[i].cert = None
  <2> DEFINE r == [db.devices[i] EXCEPT !.cert = i]
             e == [db EXCEPT !.devices[i].cert = i]
  <2>1. db' = e
    BY <1>3 DEF StartSession
  <2>2. r \in Row /\ r.cert = i
    BY <1>0, <1>1 DEF Row
  <2>3. /\ e.devices = [db.devices EXCEPT ![i] = r] /\ e.folders = db.folders /\ e.last = db.last
        /\ e.history = db.history /\ e.shares = db.shares
    BY <1>0 DEF Shape
  <2>4. Shape(e)
    <3>1. [db.devices EXCEPT ![i] = r] \in [Id -> Row \cup {None}]
      BY <1>0, <2>2, Columns
    <3>2. e = [db EXCEPT !.devices = [db.devices EXCEPT ![i] = r]]
      OBVIOUS
    <3> HIDE DEF r, e
    <3> QED BY <1>0, <3>1, <3>2 DEF Shape
  <2> HIDE DEF r, e
  <2>5. e.devices[i] = r /\ \A j \in Id \ {i} : e.devices[j] = db.devices[j]
    BY <1>0, <2>3, Columns
  <2>6. Rows(e) = Rows(db) /\ Live(e) = Live(db)
    BY <1>1, <2>2, <2>3, <2>5, NoneIsNothing DEF Rows, Live
  <2>7. Valid(e)
    BY <1>0, <2>3, <2>6, ValidGrows
  <2>8. ASSUME NEW j \in Certified(e)
        PROVE  \/ e.devices[j].cert = j /\ Person[j] = j
               \/ j \in Certified(db) /\ e.devices[j].cert = db.devices[j].cert
    <3>1. CASE j = i
      BY <3>1, <2>2, <2>5, StorageAssumption
    <3>2. CASE j # i
      BY <3>2, <2>5, <2>6 DEF Certified, Rows
    <3> QED BY <3>1, <3>2
  <2>9. \A s \in e.shares : s.guid \in FolderId => s.guid <= db.last
    BY <1>0, <2>3 DEF Sound, NumbersGiven
  <2>10. Follows(db, e)
    BY <1>0, <2>3, <2>4, <2>6, <2>7, <2>8, <2>9, Kept
  <2> QED BY <2>1, <2>10
<1> QED BY <1>2, <1>3

\* The records of a session change nothing but history and the log.
LEMMA EndSessionStep ==
  ASSUME DbInv(db), NEW f \in FolderId, NEW i \in Current, EndSession(f, i)
  PROVE  Follows(db, db') /\ db'.folders = db.folders /\ db'.devices = db.devices
<1> DEFINE H == db.history \cup {<<f, i>>}
           c == [db EXCEPT !.history = H]
           b == HistoryRecorded(db, f, i)
           S == b.sessions \cup {<<Max({0} \cup {s[1] : s \in b.sessions}) + 1, i>>}
           L == {s \in S : Cardinality({t \in S : t[1] > s[1]}) < MaxSessions}
           e == [b EXCEPT !.sessions = L]
<1>0. Shape(db) /\ Sound(db) /\ Valid(db) /\ i \in Id
  BY NamesThere DEF DbInv, Sound
<1>1. db' = e
  BY DEF EndSession, SessionRecorded
<1>2. b = Commit(db, c)
  BY DEF HistoryRecorded
<1>3. /\ c.folders = db.folders /\ c.devices = db.devices /\ c.last = db.last /\ c.shares = db.shares
      /\ Shape(c)
  BY <1>0 DEF Shape
<1> HIDE DEF L, c, b
<1>4. /\ b.folders = db.folders /\ b.devices = db.devices /\ b.last = db.last
      /\ b.shares = db.shares /\ Shape(b) /\ Valid(b)
  BY <1>0, <1>2, <1>3 DEF Commit
<1>5. /\ e.folders = db.folders /\ e.devices = db.devices /\ e.last = db.last
      /\ e.shares = db.shares /\ e.history = b.history /\ Shape(e)
  BY <1>4 DEF Shape
<1> HIDE DEF e
<1>6. Rows(e) = Rows(db) /\ Live(e) = Live(db) /\ Certified(e) = Certified(db) /\ Rows(e) = Rows(b)
  BY <1>4, <1>5 DEF Rows, Live, Certified
<1>7. Valid(e)
  BY <1>4, <1>5, <1>6, ValidGrows
<1>8. \A s \in e.shares : s.guid \in FolderId => s.guid <= db.last
  BY <1>0, <1>5 DEF Sound, NumbersGiven
<1>9. Follows(db, e)
  BY <1>0, <1>5, <1>6, <1>7, <1>8, Kept
<1> QED BY <1>1, <1>5, <1>9

\* What calls leave alone.
LEMMA CallsLeave ==
  ASSUME Calls
  PROVE  /\ UNCHANGED <<idFile, start, starts>> /\ calls' = calls + 1
         /\ removing' = removing \/ removing' = Rows(db)
<1> DEFINE Rest == /\ UNCHANGED <<idFile, start, starts>> /\ calls' = calls + 1
                   /\ removing' = removing \/ removing' = Rows(db)
<1> SUFFICES Rest
  OBVIOUS
<1>1. ASSUME NEW d, Call(d) PROVE Rest
  BY <1>1 DEF Call
<1>2. ASSUME NEW f, NEW i, StartSession(f, i) PROVE Rest
  BY <1>2 DEF StartSession
<1>3. CASE RemoveAllDevices
  BY <1>3 DEF RemoveAllDevices
<1> HIDE DEF Rest
<1>4. ASSUME NEW i, UpsertDevice(i) \/ RemoveDevice(i) PROVE Rest
  BY <1>1, <1>4 DEF UpsertDevice, RemoveDevice
<1>5. ASSUME NEW p, NEW i, RemoveSyncFolders(p, i) \/ CliRemoveFolder(p, i) PROVE Rest
  BY <1>1, <1>5 DEF RemoveSyncFolders, CliRemoveFolder
<1>6. ASSUME NEW f, NEW i, AddFolderDevice(f, i) \/ RemoveFolderDevice(f, i) PROVE Rest
  BY <1>1, <1>6 DEF AddFolderDevice, RemoveFolderDevice
<1>7. ASSUME NEW p, NEW i, \/ AddSyncFolder(p, i) \/ AddSyncFolderWithPeers(p, i)
                           \/ CliAddDevice(p, i) \/ CliRemoveDevice(p, i)
      PROVE  Rest
  BY <1>1, <1>6, <1>7 DEF AddSyncFolder, AddSyncFolderWithPeers, CliAddDevice, CliRemoveDevice
<1>8. ASSUME NEW p, NEW i, AdoptFolder(p, i) PROVE Rest
  BY <1>1, <1>8 DEF AdoptFolder
<1>9. ASSUME NEW p, RegisterFolder(p) \/ CliShare(p) PROVE Rest
  BY <1>1, <1>9 DEF RegisterFolder, CliShare
<1>10. ASSUME NEW f, RemoveFolder(f) \/ ShareFolder(f) PROVE Rest
  BY <1>1, <1>10 DEF RemoveFolder, ShareFolder
<1>11. ASSUME NEW f, NEW p, SetFolderLocalPath(f, p) PROVE Rest
  BY <1>1, <1>11 DEF SetFolderLocalPath
<1>12. ASSUME NEW s, UnshareFolder(s) PROVE Rest
  BY <1>1, <1>12 DEF UnshareFolder
<1>13. ASSUME NEW s, NEW i, ApproveFolderPair(s, i) PROVE Rest
  BY <1>1, <1>13 DEF ApproveFolderPair
<1>14. ASSUME NEW g, NEW p, NEW i, WireFolderPair(g, p, i) \/ RegisterReplica(g, p, i) PROVE Rest
  BY <1>1, <1>14 DEF WireFolderPair, RegisterReplica
<1>15. CASE ClearAllSyncState
  BY <1>1, <1>15 DEF ClearAllSyncState
<1> QED
  BY <1>2, <1>3, <1>4, <1>5, <1>6, <1>7, <1>8, <1>9, <1>10, <1>11, <1>12, <1>13, <1>14, <1>15
  DEF Calls

\* The calls that forget devices.
Forgets == (\E i \in Current : RemoveDevice(i)) \/ ClearAllSyncState

\* Every other call leads to a database that follows.
LEMMA CallsFollow ==
  ASSUME DbInv(db), GuidsThere(db), Calls
  PROVE  Follows(db, db') \/ Forgets
<1> USE NamesThere
<1>1. CASE \E i \in Current : UpsertDevice(i) \/ RemoveDevice(i)
  BY <1>1, PairingCall DEF Forgets
<1>2. CASE \E p \in Path, i \in Current :
             \/ AddSyncFolder(p, i) \/ AddSyncFolderWithPeers(p, i) \/ AdoptFolder(p, i)
             \/ CliAddDevice(p, i) \/ CliRemoveDevice(p, i)
  BY <1>2, AddSyncFolderCall, AddWithPeersCall, AdoptFolderCall, CliAddDeviceCall,
     RemoveFolderDeviceCall DEF CliRemoveDevice
<1>3. CASE \E p \in Path : RegisterFolder(p) \/ CliShare(p)
  BY <1>3, RegisterFolderCall, CliShareCall
<1>4. CASE \E p \in Path, i \in Current \cup {None} : RemoveSyncFolders(p, i) \/ CliRemoveFolder(p, i)
  BY <1>4, RemoveSyncFoldersCall DEF CliRemoveFolder
<1>5. CASE \E f \in FolderId, i \in Current :
             AddFolderDevice(f, i) \/ RemoveFolderDevice(f, i) \/ StartSession(f, i)
  BY <1>5, AddFolderDeviceCall, RemoveFolderDeviceCall, StartSessionCall
<1>6. CASE \E f \in FolderId : RemoveFolder(f) \/ ShareFolder(f)
  BY <1>6, RemoveFolderCall, ShareFolderCall
<1>7. CASE \E f \in FolderId, p \in Path : SetFolderLocalPath(f, p)
  BY <1>7, SetPathCall
<1>8. CASE \E s \in db.shares : UnshareFolder(s)
  BY <1>8, UnshareCall
<1>9. CASE \E s \in db.shares, i \in Current : ApproveFolderPair(s, i)
  BY <1>9, ApproveCall
<1>10. CASE \E g \in Remote, p \in Path : \/ \E i \in Current : WireFolderPair(g, p, i)
                                          \/ \E i \in Current \cup {None} : RegisterReplica(g, p, i)
  BY <1>10, WireCall, RegisterReplicaCall
<1>11. CASE RemoveAllDevices
  BY <1>11, FollowsSelf DEF RemoveAllDevices
<1>12. CASE ClearAllSyncState
  BY <1>12 DEF Forgets
<1> QED BY <1>1, <1>2, <1>3, <1>4, <1>5, <1>6, <1>7, <1>8, <1>9, <1>10, <1>11, <1>12 DEF Calls

\* Every call leads to a database that goes on.
LEMMA CallsContinue ==
  ASSUME DbInv(db), GuidsThere(db), Calls
  PROVE  Continues(db, db')
<1>1. CASE Follows(db, db')
  BY <1>1 DEF Follows
<1>2. CASE \E i \in Current : RemoveDevice(i)
  BY <1>2, NamesThere, RemoveDeviceCall DEF RemoveDevice, Call
<1>3. CASE ClearAllSyncState
  BY <1>3, ClearCall
<1> QED BY <1>1, <1>2, <1>3, CallsFollow DEF Forgets

-----------------------------------------------------------------------------
(***************************************************************************)
(* The start of the program.                                               *)
(***************************************************************************)
\* A database in which folders have other pairs and guids, and nothing else changed.
LEMMA Refilled ==
  ASSUME NEW d, DbInv(d), NEW X \in [FolderId -> Folder \cup {None}],
         \A f \in FolderId : X[f] # None <=> f \in Live(d),
         \A f \in Live(d) : /\ X[f].dev = d.folders[f].dev /\ (X[f].guid \in FolderId => X[f].guid <= f)
                            /\ IsInjective(X[f].pairs) /\ ToSet(X[f].pairs) \subseteq Rows(d),
         \A f, h \in Live(d) : X[f].guid = X[h].guid /\ X[f].guid \in FolderId => f = h,
         NEW e, e = [d EXCEPT !.folders = X]
  PROVE  /\ DbInv(e) /\ e.folders = X /\ e.devices = d.devices /\ Rows(e) = Rows(d)
         /\ Live(e) = Live(d) /\ e.last = d.last /\ Misnamed(e) = Misnamed(d)
<1>0. Shape(d) /\ Sound(d) /\ Valid(d)
  BY DEF DbInv, Sound
<1>1. /\ e.folders = X /\ e.devices = d.devices /\ e.last = d.last
      /\ e.history = d.history /\ e.shares = d.shares
  BY <1>0 DEF Shape
<1>2. Shape(e)
  BY <1>0 DEF Shape
<1>3. Live(e) = Live(d) /\ Rows(e) = Rows(d) /\ Certified(e) = Certified(d)
  BY <1>1 DEF Live, Rows, Certified
<1>4. \A f \in Live(e) : Pairs(e, f) = ToSet(X[f].pairs)
  BY <1>1 DEF Pairs
<1>5. Valid(e)
  <2>1. Referential(e)
    BY <1>0, <1>1, <1>3, <1>4 DEF Valid, Referential
  <2> QED BY <2>1, <1>0, <1>1, <1>3 DEF Valid, Unique
<1>6. NumbersGiven(e)
  BY <1>0, <1>1, <1>3 DEF Sound, NumbersGiven
<1>7. GuidsDistinct(e)
  BY <1>1, <1>3 DEF GuidsDistinct
<1>8. CertsTrue(e)
  BY <1>0, <1>1, <1>3 DEF Sound, CertsTrue
<1>9. Misnamed(e) = Misnamed(d)
  BY <1>1, <1>3 DEF Misnamed
<1> QED BY <1>1, <1>2, <1>3, <1>5, <1>6, <1>7, <1>8, <1>9 DEF DbInv, Sound

\* The backfills give each folder the pair of its own device, and a guid if it has
\* none; only a database that was never opened has such a folder, and no other.
LEMMA OpenedDb ==
  ASSUME NEW d, DbInv(d), GuidsThere(d) \/ Live(d) \subseteq {1}, NEW e, e = Opened(d)
  PROVE  /\ DbInv(e) /\ GuidsThere(e) /\ Live(e) = Live(d) /\ e.last = d.last
         /\ e.devices = d.devices /\ Misnamed(e) = Misnamed(d)
         /\ \A f \in Live(d) : /\ Pairs(e, f) = Pairs(d, f) \cup {d.folders[f].dev}
                               /\ e.folders[f].dev = d.folders[f].dev
<1> DEFINE A(f) == Attached(d, f, d.folders[f].dev).folders[f]
           R(f) == [A(f) EXCEPT !.guid = IF A(f).guid = None THEN f ELSE A(f).guid]
           X == [f \in FolderId |-> IF f \notin Live(d) THEN None ELSE R(f)]
<1>0. Shape(d) /\ Sound(d) /\ Valid(d) /\ FolderId \subseteq Int /\ Live(d) \subseteq FolderId
  BY DEF DbInv, Sound, FolderId, Live
<1>1. e = [d EXCEPT !.folders = X]
  BY DEF Opened
<1>2. ASSUME NEW f \in Live(d)
      PROVE  /\ A(f) \in Folder /\ A(f).guid = d.folders[f].guid /\ A(f).dev = d.folders[f].dev
             /\ IsInjective(A(f).pairs) /\ ToSet(A(f).pairs) = Pairs(d, f) \cup {d.folders[f].dev}
  <2> DEFINE i == d.folders[f].dev
             b == Attached(d, f, i)
  <2>1. i \in Rows(d)
    BY <1>0 DEF Valid, Referential
  <2> HIDE DEF i
  <2>2. /\ Follows(d, b) /\ Live(b) = Live(d) /\ b.folders[f].guid = d.folders[f].guid
        /\ b.folders[f].dev = d.folders[f].dev /\ Pairs(b, f) = Pairs(d, f) \cup {i}
    BY <2>1, AttachedFollows
  <2>3. A(f) = b.folders[f]
    BY DEF i
  <2> HIDE DEF b, A
  <2>4. Shape(b) /\ Valid(b)
    BY <2>2 DEF Follows, Continues, DbInv, Sound
  <2>5. b.folders[f] \in Folder /\ IsInjective(b.folders[f].pairs)
    BY <2>2, <2>4, Columns DEF Valid, Unique
  <2> QED BY <2>2, <2>3, <2>5 DEF Pairs, i
<1> HIDE DEF A
<1>3. ASSUME NEW f \in Live(d)
      PROVE  /\ R(f) \in Folder /\ R(f).dev = d.folders[f].dev /\ R(f).pairs = A(f).pairs
             /\ R(f).guid = IF d.folders[f].guid = None THEN f ELSE d.folders[f].guid
  BY <1>0, <1>2 DEF Folder
<1>4. \A f \in Live(d) : X[f] = R(f)
  BY <1>0
<1> HIDE DEF R
<1>5. X \in [FolderId -> Folder \cup {None}]
  BY <1>3
<1>6. \A f \in FolderId : X[f] # None <=> f \in Live(d)
  BY <1>3, NoneIsNothing
<1> HIDE DEF X
<1>7. \A f \in Live(d) : ToSet(X[f].pairs) \subseteq Rows(d) /\ IsInjective(X[f].pairs)
  BY <1>0, <1>2, <1>3, <1>4 DEF Valid, Referential
<1>8. \A f \in Live(d) : X[f].dev = d.folders[f].dev /\ (X[f].guid \in FolderId => X[f].guid <= f)
  <2> SUFFICES ASSUME NEW f \in Live(d)
               PROVE  X[f].dev = d.folders[f].dev /\ (X[f].guid \in FolderId => X[f].guid <= f)
    OBVIOUS
  <2>1. f \in Int /\ (d.folders[f].guid \in FolderId => d.folders[f].guid <= f)
    BY <1>0 DEF Sound, NumbersGiven
  <2>2. X[f].dev = d.folders[f].dev /\ (X[f].guid = f \/ X[f].guid = d.folders[f].guid)
    BY <1>3, <1>4
  <2> QED BY <2>1, <2>2
<1>9. \A f, h \in Live(d) : X[f].guid = X[h].guid /\ X[f].guid \in FolderId => f = h
  <2>1. CASE Live(d) \subseteq {1}
    BY <2>1
  <2>2. CASE GuidsThere(d)
    <3>1. \A f \in Live(d) : X[f].guid = d.folders[f].guid
      BY <2>2, <1>3, <1>4 DEF GuidsThere
    <3> QED BY <1>0, <3>1 DEF Sound, GuidsDistinct
  <2> QED BY <2>1, <2>2
<1>10. /\ DbInv(e) /\ e.folders = X /\ e.devices = d.devices
       /\ Live(e) = Live(d) /\ e.last = d.last /\ Misnamed(e) = Misnamed(d)
  BY <1>1, <1>5, <1>6, <1>7, <1>8, <1>9, Refilled
<1>11. GuidsThere(e)
  BY <1>0, <1>3, <1>4, <1>10, NoneIsNothing DEF GuidsThere
<1>12. \A f \in Live(d) : Pairs(e, f) = Pairs(d, f) \cup {d.folders[f].dev}
  BY <1>2, <1>3, <1>4, <1>10 DEF Pairs
<1> QED BY <1>8, <1>10, <1>11, <1>12

\* Devices of d that have different names.
NamesTellIn(d) ==
  \A i, j \in Rows(d) : Person[i] # Person[j] => d.devices[i].name # d.devices[j].name

\* The plan covers what is misnamed, and folds ids of one device if names tell.
LEMMA Planned ==
  ASSUME NEW d, DbInv(d), FileInv, NEW m, m = Moves(d)
  PROVE  /\ DOMAIN m \subseteq Id /\ m \in [DOMAIN m -> Id]
         /\ Misnamed(d) \ {Own} \subseteq DOMAIN m
         /\ NamesTellIn(d) => \A i \in DOMAIN m : Person[m[i]] = Person[i]
<1>0. /\ Shape(d) /\ CertsTrue(d) /\ Rows(d) \subseteq Id /\ Own \in Id
      /\ \A i \in Id : Person[i] \in Id /\ Person[Person[i]] = Person[i]
      /\ Person[Own] = Own
  BY Columns, StorageAssumption DEF DbInv, Sound, Current
<1>1. DOMAIN m = Legacies(d) \cup Stubs(d)
  BY DEF Moves
<1>2. Misnamed(d) \subseteq Certified(d) /\ Certified(d) \subseteq Rows(d)
  BY DEF Misnamed, Certified
<1>3. Legacies(d) \subseteq Id /\ Stubs(d) \subseteq Rows(d)
  BY <1>0, <1>2 DEF Legacies, Stubs, FileInv
<1>4. ASSUME NEW i \in DOMAIN m
      PROVE  m[i] \in Id /\ (NamesTellIn(d) => Person[m[i]] = Person[i])
  <2>1. CASE i \in Misnamed(d)
    <3>1. m[i] = d.devices[i].cert
      BY <1>1, <2>1 DEF Moves
    <3>2. m[i] = Person[i] /\ i \in Id
      BY <1>0, <1>2, <2>1, <3>1 DEF CertsTrue
    <3> QED BY <1>0, <3>2
  <2>2. CASE i \notin Misnamed(d) /\ i \in Legacies(d)
    <3>1. m[i] = Own /\ i = idFile /\ idFile # None
      BY <1>1, <2>2 DEF Moves, Legacies
    <3> QED BY <1>0, <3>1 DEF FileInv
  <2>3. CASE i \notin Misnamed(d) /\ i \notin Legacies(d)
    <3>1. i \in Stubs(d)
      BY <1>1, <2>3
    <3> DEFINE j == CHOOSE k \in Id : Namesakes(d, i) = {k}
    <3>2. j \in Id /\ Namesakes(d, i) = {j}
      BY <3>1 DEF Stubs
    <3>3. m[i] = d.devices[j].cert
      BY <1>1, <2>3 DEF Moves
    <3> HIDE DEF j
    <3>4. j \in Certified(d) /\ d.devices[j].name = d.devices[i].name
      BY <3>2 DEF Namesakes
    <3>5. m[i] = Person[j]
      BY <1>0, <3>3, <3>4 DEF CertsTrue
    <3>6. NamesTellIn(d) => Person[i] = Person[j]
      BY <1>2, <1>3, <3>1, <3>4 DEF NamesTellIn
    <3> QED BY <1>0, <3>2, <3>5, <3>6
  <2> QED BY <2>1, <2>2, <2>3
<1>5. m \in [DOMAIN m -> Id]
  BY <1>1, <1>4 DEF Moves
<1>6. Misnamed(d) \ {Own} \subseteq DOMAIN m
  BY <1>1 DEF Legacies
<1> QED BY <1>0, <1>1, <1>3, <1>4, <1>5, <1>6

-----------------------------------------------------------------------------
(***************************************************************************)
(* The statements of a migration.                                          *)
(***************************************************************************)
\* An UPDATE of the folders' rows that leaves their guids alone.
LEMMA Rewritten ==
  ASSUME NEW d, Sound(d), NEW X \in [FolderId -> Folder \cup {None}],
         \A f \in FolderId : X[f] # None <=> f \in Live(d),
         \A f \in Live(d) : X[f].guid = d.folders[f].guid,
         NEW e, e = [d EXCEPT !.folders = X]
  PROVE  /\ Sound(e) /\ (Valid(e) => Follows(d, e))
         /\ e.folders = X /\ e.devices = d.devices /\ Live(e) = Live(d)
<1>0. Shape(d)
  BY DEF Sound
<1>1. /\ e.folders = X /\ e.devices = d.devices /\ e.last = d.last
      /\ e.history = d.history /\ e.shares = d.shares
  BY <1>0 DEF Shape
<1>2. Shape(e)
  BY <1>0 DEF Shape
<1>3. Live(e) = Live(d) /\ Certified(e) = Certified(d) /\ Rows(e) = Rows(d)
  BY <1>1 DEF Live, Rows, Certified
<1>4. \A s \in e.shares : s.guid \in FolderId => s.guid <= d.last
  BY <1>1 DEF Sound, NumbersGiven
<1>5. Sound(e) /\ (Valid(e) => Follows(d, e))
  BY <1>1, <1>2, <1>3, <1>4, Kept
<1> QED BY <1>1, <1>3, <1>5

\* An UPDATE of another table than the folders' or the devices'.
LEMMA RewrittenElsewhere ==
  ASSUME NEW d, Sound(d), NEW e, Shape(e), e.folders = d.folders, e.devices = d.devices,
         e.last = d.last, \A s \in e.shares : \E r \in d.shares : s.guid = r.guid
  PROVE  Sound(e) /\ (Valid(e) => Follows(d, e)) /\ Live(e) = Live(d)
<1>1. Live(e) = Live(d) /\ Certified(e) = Certified(d) /\ Rows(e) = Rows(d)
  BY DEF Live, Rows, Certified
<1>2. \A s \in e.shares : s.guid \in FolderId => s.guid <= d.last
  BY DEF Sound, NumbersGiven
<1>3. Sound(e) /\ (Valid(e) => Follows(d, e))
  BY <1>1, <1>2, Kept
<1> QED BY <1>1, <1>3

\* The pairs and the first device of folder f after an UPDATE of table t.
PairsAfter(d, t, i, j, f) == IF t = 1 THEN {Put(i, j, x) : x \in Pairs(d, f)} ELSE Pairs(d, f)
DevAfter(d, t, i, j, f) == IF t = 2 THEN Put(i, j, d.folders[f].dev) ELSE d.folders[f].dev

\* An UPDATE of the migration replaces an id by another and touches no device's row.
LEMMA RepointedKept ==
  ASSUME NEW d, Sound(d), NEW t \in Tables, NEW i \in Id, NEW j \in Id,
         NEW e, e = Repointed(d, t, i, j)
  PROVE  /\ Sound(e) /\ (Valid(e) => Follows(d, e)) /\ e.devices = d.devices /\ Live(e) = Live(d)
         /\ \A f \in Live(d) : /\ Pairs(e, f) = PairsAfter(d, t, i, j, f)
                               /\ e.folders[f].dev = DevAfter(d, t, i, j, f)
<1>0. Shape(d) /\ \A x \in Id : Put(i, j, x) \in Id
  BY DEF Sound, Put
<1>1. CASE t = 1
  <2> DEFINE Q(f) == [n \in DOMAIN d.folders[f].pairs |-> Put(i, j, d.folders[f].pairs[n])]
             R(f) == [d.folders[f] EXCEPT !.pairs = Q(f)]
             X == [f \in FolderId |-> IF f \notin Live(d) THEN None ELSE R(f)]
  <2>1. e = [d EXCEPT !.folders = X]
    BY <1>1 DEF Repointed
  <2>2. ASSUME NEW f \in Live(d)
        PROVE  Q(f) \in Seq(Id) /\ ToSet(Q(f)) = {Put(i, j, x) : x \in Pairs(d, f)}
    <3>1. d.folders[f].pairs \in Seq(Id)
      BY <1>0, Columns
    <3> DEFINE s == d.folders[f].pairs
    <3>2. s \in Seq(Id) /\ Len(s) \in Nat /\ DOMAIN s = 1..Len(s) /\ \A n \in DOMAIN s : s[n] \in Id
      BY <3>1
    <3> HIDE DEF s
    <3>3. [n \in DOMAIN s |-> Put(i, j, s[n])] \in Seq(Id)
      BY <1>0, <3>2, IsASeq
    <3>4. Pairs(d, f) = ToSet(s)
      BY DEF Pairs, s
    <3>5. ToSet([n \in DOMAIN s |-> Put(i, j, s[n])]) = {Put(i, j, x) : x \in ToSet(s)}
      BY DEF ToSet
    <3> QED BY <3>3, <3>4, <3>5 DEF s
  <2> HIDE DEF Q
  <2>3. ASSUME NEW f \in Live(d)
        PROVE  /\ R(f) \in Folder /\ R(f).guid = d.folders[f].guid
               /\ R(f).dev = d.folders[f].dev /\ R(f).pairs = Q(f)
    BY <2>2, <1>0, Columns DEF Folder
  <2>4. \A f \in Live(d) : X[f] = R(f)
    BY DEF Live
  <2> HIDE DEF R
  <2>5. /\ X \in [FolderId -> Folder \cup {None}]
        /\ \A f \in FolderId : X[f] # None <=> f \in Live(d)
    BY <2>3, NoneIsNothing
  <2> HIDE DEF X
  <2>6. /\ Sound(e) /\ (Valid(e) => Follows(d, e))
        /\ e.folders = X /\ e.devices = d.devices /\ Live(e) = Live(d)
    BY <2>1, <2>3, <2>4, <2>5, Rewritten
  <2> QED BY <1>1, <2>2, <2>3, <2>4, <2>6 DEF Pairs, PairsAfter, DevAfter
<1>2. CASE t = 2
  <2> DEFINE R(f) == [d.folders[f] EXCEPT !.dev = Put(i, j, d.folders[f].dev)]
             X == [f \in FolderId |-> IF f \notin Live(d) THEN None ELSE R(f)]
  <2>1. e = [d EXCEPT !.folders = X]
    BY <1>2 DEF Repointed
  <2>3. ASSUME NEW f \in Live(d)
        PROVE  /\ R(f) \in Folder /\ R(f).guid = d.folders[f].guid
               /\ R(f).dev = Put(i, j, d.folders[f].dev) /\ R(f).pairs = d.folders[f].pairs
    BY <1>0, Columns DEF Folder
  <2>4. \A f \in Live(d) : X[f] = R(f)
    BY DEF Live
  <2> HIDE DEF R
  <2>5. /\ X \in [FolderId -> Folder \cup {None}]
        /\ \A f \in FolderId : X[f] # None <=> f \in Live(d)
    BY <2>3, NoneIsNothing
  <2> HIDE DEF X
  <2>6. /\ Sound(e) /\ (Valid(e) => Follows(d, e))
        /\ e.folders = X /\ e.devices = d.devices /\ Live(e) = Live(d)
    BY <2>1, <2>3, <2>4, <2>5, Rewritten
  <2> QED BY <1>2, <2>3, <2>4, <2>6 DEF Pairs, PairsAfter, DevAfter
<1>3. CASE t \in 3..5
  <2>1. /\ Shape(e) /\ e.folders = d.folders /\ e.devices = d.devices /\ e.last = d.last
        /\ \A s \in e.shares : \E r \in d.shares : s.guid = r.guid
    <3>1. CASE t = 3
      <4> DEFINE S == {[s EXCEPT !.owner = Put(i, j, s.owner)] : s \in d.shares}
      <4>1. e = [d EXCEPT !.shares = S]
        BY <3>1 DEF Repointed
      <4>2. S \in SUBSET Share /\ \A s \in S : \E r \in d.shares : s.guid = r.guid
        BY <1>0, Columns DEF Share
      <4> HIDE DEF S
      <4> QED BY <1>0, <4>1, <4>2 DEF Shape
    <3>2. CASE t = 4
      <4> DEFINE H == {<<h[1], Put(i, j, h[2])>> : h \in d.history}
      <4>1. e = [d EXCEPT !.history = H]
        BY <3>2 DEF Repointed
      <4>2. H \in SUBSET (FolderId \X Id)
        BY <1>0, Columns
      <4> HIDE DEF H
      <4> QED BY <1>0, <4>1, <4>2 DEF Shape
    <3>3. CASE t = 5
      <4> DEFINE L == {<<s[1], Put(i, j, s[2])>> : s \in d.sessions}
      <4>1. e = [d EXCEPT !.sessions = L]
        BY <3>3 DEF Repointed
      <4> HIDE DEF L
      <4> QED BY <1>0, <4>1 DEF Shape
    <3> QED BY <1>3, <3>1, <3>2, <3>3
  <2>2. Sound(e) /\ (Valid(e) => Follows(d, e)) /\ Live(e) = Live(d)
    BY <2>1, RewrittenElsewhere
  <2>3. t # 1 /\ t # 2
    BY <1>3
  <2> QED BY <2>1, <2>2, <2>3 DEF Pairs, PairsAfter, DevAfter
<1> QED BY <1>1, <1>2, <1>3 DEF Tables

\* DELETE of a device's row, where nothing refers to it.
LEMMA RowDeleted ==
  ASSUME NEW d, Sound(d), NEW i \in Id, NEW e, e = [d EXCEPT !.devices[i] = None]
  PROVE  /\ Sound(e) /\ (Valid(e) => Continues(d, e)) /\ e.folders = d.folders
         /\ Misnamed(e) = Misnamed(d) \ {i}
<1>0. Shape(d)
  BY DEF Sound
<1>1. /\ e.devices = [d.devices EXCEPT ![i] = None] /\ e.folders = d.folders
      /\ e.last = d.last /\ e.history = d.history /\ e.shares = d.shares
  BY <1>0 DEF Shape
<1>2. Shape(e)
  <2>1. [d.devices EXCEPT ![i] = None] \in [Id -> Row \cup {None}]
    BY <1>0, Columns
  <2>2. e = [d EXCEPT !.devices = [d.devices EXCEPT ![i] = None]]
    OBVIOUS
  <2> QED BY <1>0, <2>1, <2>2 DEF Shape
<1>3. \A k \in Id : e.devices[k] = IF k = i THEN None ELSE d.devices[k]
  BY <1>0, <1>1, Columns
<1>4. Certified(e) = Certified(d) \ {i} /\ Misnamed(e) = Misnamed(d) \ {i}
  BY <1>3 DEF Certified, Rows, Misnamed
<1>5. Live(e) = Live(d)
  BY <1>1 DEF Live
<1>6. \A k \in Certified(e) : k \in Certified(d) /\ e.devices[k].cert = d.devices[k].cert
  BY <1>3, <1>4 DEF Certified, Rows
<1>7. \A s \in e.shares : s.guid \in FolderId => s.guid <= d.last
  BY <1>1 DEF Sound, NumbersGiven
<1>8. Sound(e) /\ (Valid(e) => Continues(d, e))
  BY <1>1, <1>2, <1>5, <1>6, <1>7, Kept
<1> QED BY <1>1, <1>4, <1>8

-----------------------------------------------------------------------------
(***************************************************************************)
(* Every step preserves the invariant.                                     *)
(***************************************************************************)
\* No start is under way.
LEMMA IdleStarted ==
  Idle \in Started /\ Idle.at = 0 /\ Idle.todo = {} /\ ~ Idle.done
<1>1. <<>> \in [{} -> Id] /\ [{} -> Id] \in {[S -> Id] : S \in SUBSET Id}
  OBVIOUS
<1>2. <<>> \in UNION {[S -> Id] : S \in SUBSET Id}
  BY <1>1
<1>3. 0 \in 0..Finish /\ {} \in SUBSET Id /\ FALSE \in BOOLEAN
  BY DEF Finish
<1> HIDE DEF Finish
<1> QED BY <1>2, <1>3 DEF Idle, Started

\* Nothing is asked of a start that is not under way and did not succeed.
LEMMA IdleInv ==
  ASSUME start = Idle
  PROVE  StartInv
BY IdleStarted DEF StartInv, Tables, Delete, Finish

\* A new installation has nothing that could be wrong.
LEMMA FreshInv ==
  ASSUME Fresh, start = Idle, removing = {}
  PROVE  StoreInv
<1>1. /\ db.devices = [i \in Id |-> None] /\ db.folders = [f \in FolderId |-> None]
      /\ db.last = 0 /\ db.history = {} /\ db.shares = {}
  BY DEF Fresh
<1>2. Shape(db)
  BY StorageAssumption DEF Fresh, Shape
<1>3. Live(db) = {} /\ Rows(db) = {} /\ Certified(db) = {} /\ Misnamed(db) = {}
  BY <1>1 DEF Live, Rows, Certified, Misnamed
<1>4. DbInv(db)
  BY <1>1, <1>2, <1>3 DEF DbInv, Sound, Valid, Referential, Unique, NumbersGiven, GuidsDistinct, CertsTrue
<1>5. UnopenedInv
  <2>1. starts = 1 /\ calls = 0
    BY DEF Fresh
  <2>2. GuidsThere(db)
    BY <1>3 DEF GuidsThere
  <2> QED BY <2>1, <2>2 DEF UnopenedInv
<1>6. StartInv
  BY IdleInv
<1>7. FileInv
  BY DEF Fresh, FileInv
<1> QED BY <1>4, <1>5, <1>6, <1>7 DEF StoreInv

\* The pairs of the folder of an older build.
OldPairs(rows, dev) ==
  {<<>>} \cup {<<i>> : i \in rows} \cup {<<dev, i>> : i \in rows \ {dev}}

\* What an older build left is sound, though perhaps without guids and pairs.
LEMMA LegacySound ==
  ASSUME NEW rows \in SUBSET Id, NEW certified \in SUBSET rows,
         NEW dev \in rows, NEW h \in rows, NEW prs \in OldPairs(rows, dev),
         NEW sh \in {None} \cup rows, NEW d, d = Legacy(rows, certified, dev, prs, h, sh)
  PROVE  DbInv(d) /\ Live(d) = {1}
<1> DEFINE P == CHOOSE p \in Path : TRUE
           V(i) == [name |-> Label[i], cert |-> IF i \in certified THEN Person[i] ELSE None]
           D == [i \in Id |-> IF i \notin rows THEN None ELSE V(i)]
           R == [path |-> P, dev |-> dev, pairs |-> prs, guid |-> IF prs = <<>> THEN None ELSE 1]
           X == [f \in FolderId |-> IF f # 1 THEN None ELSE R]
           S == IF sh = None THEN {} ELSE {[guid |-> 1, owner |-> sh, path |-> P]}
           H == {<<1, h>>}
<1>0. P \in Path /\ 1 \in FolderId /\ dev \in Id /\ h \in Id /\ \A i \in Id : Person[i] \in Id
  BY StorageAssumption DEF FolderId, Current
<1>1. d = [devices |-> D, folders |-> X, last |-> 1, history |-> H,
           sessions |-> {<<1, h>>}, shares |-> S]
  BY DEF Legacy
<1>c. d.devices = D /\ d.folders = X /\ d.last = 1 /\ d.history = H /\ d.shares = S
  BY <1>1
<1> HIDE DEF P
<1>2. prs \in Seq(Id) /\ IsInjective(prs) /\ ToSet(prs) \subseteq rows
  <2>1. CASE prs = <<>>
    BY <2>1 DEF IsInjective, ToSet
  <2>2. ASSUME NEW i \in rows, prs = <<i>>
        PROVE  prs \in Seq(Id) /\ IsInjective(prs) /\ ToSet(prs) \subseteq rows
    BY <2>2 DEF IsInjective, ToSet
  <2>3. ASSUME NEW i \in rows, i # dev, prs = <<dev, i>>
        PROVE  prs \in Seq(Id) /\ IsInjective(prs) /\ ToSet(prs) \subseteq rows
    BY <2>3 DEF IsInjective, ToSet
  <2> QED BY <2>1, <2>2, <2>3 DEF OldPairs
<1>3. R \in Folder /\ R.pairs = prs /\ R.dev = dev /\ (R.guid = None \/ R.guid = 1)
  BY <1>0, <1>2 DEF Folder
<1>4. \A i \in rows : /\ V(i) \in Row
                      /\ V(i).cert = IF i \in certified THEN Person[i] ELSE None
  BY <1>0 DEF Row, Names
<1>5. S \in SUBSET Share /\ \A s \in S : s.guid = 1 /\ s.owner \in rows
  BY <1>0 DEF Share
<1>6. \A i \in Id : D[i] = IF i \notin rows THEN None ELSE V(i)
  OBVIOUS
<1>7. \A f \in FolderId : X[f] = IF f # 1 THEN None ELSE R
  OBVIOUS
<1>8. D \in [Id -> Row \cup {None}] /\ X \in [FolderId -> Folder \cup {None}]
  BY <1>3, <1>4
<1>9. H \in SUBSET (FolderId \X Id) /\ 1 \in 0..MaxRows
  BY <1>0, StorageAssumption
<1>10. \A s, t \in S : s = t
  OBVIOUS
<1> HIDE DEF D, V, R, X, S
<1>11. Shape(d)
  BY <1>1, <1>5, <1>8, <1>9 DEF Shape
<1>12. Live(d) = {1} /\ d.folders[1] = R
  BY <1>0, <1>c, <1>3, <1>7, NoneIsNothing DEF Live
<1>13. Rows(d) = rows
  BY <1>c, <1>4, <1>6, NoneIsNothing DEF Rows
<1>14. CertsTrue(d)
  BY <1>c, <1>4, <1>6, <1>13 DEF CertsTrue, Certified
<1>15. NumbersGiven(d)
  BY <1>0, <1>c, <1>3, <1>5, <1>12, NoneIsNothing DEF NumbersGiven
<1>16. GuidsDistinct(d)
  BY <1>12 DEF GuidsDistinct
<1>17. Valid(d)
  <2>1. Pairs(d, 1) = ToSet(prs)
    BY <1>3, <1>12 DEF Pairs
  <2>2. \A k \in d.history : k[1] \in Live(d)
    BY <1>c, <1>12
  <2>3. Referential(d)
    BY <2>1, <2>2, <1>c, <1>2, <1>3, <1>5, <1>12, <1>13 DEF Referential
  <2>4. Unique(d)
    BY <1>c, <1>2, <1>3, <1>10, <1>12 DEF Unique
  <2> QED BY <2>3, <2>4 DEF Valid
<1> QED BY <1>11, <1>12, <1>14, <1>15, <1>16, <1>17 DEF DbInv, Sound

\* A database of an older build.
LEMMA InheritedInv ==
  ASSUME Inherited, start = Idle, removing = {}
  PROVE  StoreInv
<1>1. DbInv(db) /\ Live(db) = {1}
  <2>1. PICK rows \in SUBSET {i \in Id : \E o \in Old : Person[o] = Person[i]} :
          \E certified \in SUBSET rows, dev, h \in rows :
          \E prs \in {<<>>} \cup {<<i>> : i \in rows} \cup {<<dev, i>> : i \in rows \ {dev}},
             sh \in {None} \cup {i \in rows : Person[i] = Own} :
            db = Legacy(rows, certified, dev, prs, h, sh)
    BY DEF Inherited
  <2>2. PICK certified \in SUBSET rows, dev \in rows, h \in rows :
          \E prs \in {<<>>} \cup {<<i>> : i \in rows} \cup {<<dev, i>> : i \in rows \ {dev}},
             sh \in {None} \cup {i \in rows : Person[i] = Own} :
            db = Legacy(rows, certified, dev, prs, h, sh)
    BY <2>1
  <2>3. PICK prs \in {<<>>} \cup {<<i>> : i \in rows} \cup {<<dev, i>> : i \in rows \ {dev}},
             sh \in {None} \cup {i \in rows : Person[i] = Own} :
          db = Legacy(rows, certified, dev, prs, h, sh)
    BY <2>2
  <2>4. prs \in OldPairs(rows, dev)
    BY DEF OldPairs
  <2>5. rows \in SUBSET Id /\ sh \in {None} \cup rows
    OBVIOUS
  <2> QED BY <2>3, <2>4, <2>5, LegacySound
<1>2. UnopenedInv
  BY <1>1, IdleStarted, StorageAssumption DEF UnopenedInv, Inherited
<1>3. FileInv
  BY StorageAssumption DEF Inherited, FileInv
<1> QED BY <1>1, <1>2, <1>3, IdleInv DEF StoreInv

\* While no start is under way, a database that follows is as good.
LEMMA SettledStep ==
  ASSUME StoreInv, start.at = 0, starts > 0, Continues(db, db'),
         UNCHANGED <<idFile, start, starts>>, calls' \in Nat, removing' \subseteq Id
  PROVE  StoreInv'
<1>1. DbInv(db') /\ GuidsThere(db') /\ Misnamed(db') \subseteq Misnamed(db)
  BY DEF StoreInv, UnopenedInv, Continues
<1>2. UnopenedInv'
  BY <1>1 DEF StoreInv, UnopenedInv
<1>3. StartInv'
  BY <1>1 DEF StoreInv, StartInv, Tables, Delete, Finish
<1> QED BY <1>1, <1>2, <1>3 DEF StoreInv, FileInv

\* The same devices have the same names and certificates.
LEMMA SameRows ==
  ASSUME db'.devices = db.devices
  PROVE  Misnamed(db') = Misnamed(db) /\ NamesTell' = NamesTell
BY DEF Misnamed, Certified, NamesTell, Rows

\* Where devices and folders stay, so does everything.
LEMMA SameRowsStep ==
  ASSUME StoreInv, DbInv(db'), db'.devices = db.devices, db'.folders = db.folders,
         UNCHANGED <<removing, idFile, start, starts, calls>>
  PROVE  StoreInv'
<1>1. Misnamed(db') = Misnamed(db) /\ NamesTell' = NamesTell
  BY SameRows
<1>2. Live(db') = Live(db) /\ (GuidsThere(db) => GuidsThere(db'))
  BY DEF Live, GuidsThere
<1>3. UnopenedInv'
  BY <1>2 DEF StoreInv, UnopenedInv
<1>4. StartInv'
  BY <1>1 DEF StoreInv, StartInv, MovesTrue
<1> QED BY <1>3, <1>4 DEF StoreInv, FileInv

\* A start is an id of a statement, and moves from ids to ids.
LEMMA StartColumns ==
  ASSUME start \in Started
  PROVE  /\ start.at \in 0..7 /\ start.todo \in SUBSET Id /\ start.done \in BOOLEAN
         /\ start.moves \in UNION {[S -> Id] : S \in SUBSET Id}
         /\ DOMAIN start.moves \subseteq Id /\ \A i \in DOMAIN start.moves : start.moves[i] \in Id
<1>1. /\ start.at \in 0..7 /\ start.todo \in SUBSET Id /\ start.done \in BOOLEAN
      /\ start.moves \in UNION {[S -> Id] : S \in SUBSET Id}
  BY DEF Started, Finish
<1>2. PICK S \in SUBSET Id : start.moves \in [S -> Id]
  BY <1>1
<1> QED BY <1>1, <1>2

\* The statement after this one, or this one for another id.
LEMMA AdvancedTo ==
  ASSUME start \in Started, start.at \in Tables \cup {Delete}, ~ start.done,
         NEW T \in SUBSET start.todo, NEW s, s = Advanced(start, T)
  PROVE  /\ s \in Started /\ s.moves = start.moves /\ ~ s.done
         /\ T # {} => s.at = start.at /\ s.todo = T
         /\ T = {} => s.at = start.at + 1 /\ (s.at # Finish => s.todo = DOMAIN start.moves)
<1>1. /\ start.at \in 1..6 /\ start.todo \in SUBSET Id /\ start.done \in BOOLEAN
      /\ DOMAIN start.moves \subseteq Id
  BY StartColumns DEF Tables, Delete
<1>2. CASE T # {}
  <2>1. s = [start EXCEPT !.todo = T]
    BY <1>2 DEF Advanced
  <2> QED BY <1>1, <1>2, <2>1 DEF Started
<1>3. CASE T = {}
  <2> DEFINE k == start.at + 1
             U == IF k = Finish THEN {} ELSE DOMAIN start.moves
  <2>1. k \in 0..Finish /\ U \in SUBSET Id
    BY <1>1 DEF Finish
  <2>2. s = [start EXCEPT !.at = k, !.todo = U]
    BY <1>3 DEF Advanced
  <2>3. s \in Started /\ s.moves = start.moves /\ s.done = start.done /\ s.at = k /\ s.todo = U
    <3> HIDE DEF k, U, Finish
    <3> QED BY <2>1, <2>2 DEF Started
  <2> QED BY <1>3, <2>3
<1> QED BY <1>2, <1>3

\* A start that is given up leaves the database in a sound state.
LEMMA GivenUp ==
  ASSUME StoreInv, DbInv(db'), GuidsThere(db) => GuidsThere(db'), Live(db') \subseteq Live(db),
         start' = Idle, removing' = {} \/ removing' = removing, UNCHANGED <<idFile, starts, calls>>
  PROVE  StoreInv'
<1>1. UnopenedInv'
  BY IdleStarted DEF StoreInv, UnopenedInv
<1>2. StartInv'
  <2>1. (start = Idle)'
    OBVIOUS
  <2> QED BY <2>1, IdleStarted DEF StartInv, Tables, Delete, Finish
<1> QED BY <1>1, <1>2 DEF StoreInv, FileInv

\* Calls, and the sessions and removals that go on between them.
LEMMA CallsInv ==
  ASSUME StoreInv, Ready /\ Calls
  PROVE  StoreInv'
<1>1. start.at = 0 /\ starts > 0
  BY StorageAssumption DEF Ready, StoreInv, UnopenedInv
<1>2. Continues(db, db')
  BY <1>1, CallsContinue DEF StoreInv, UnopenedInv
<1>3. UNCHANGED <<idFile, start, starts>> /\ calls' \in Nat /\ removing' \subseteq Id
  BY CallsLeave DEF StoreInv, UnopenedInv, FileInv, Rows
<1> QED BY <1>1, <1>2, <1>3, SettledStep

\* A session's records.
LEMMA EndSessionInv ==
  ASSUME StoreInv, NEW f \in FolderId, NEW i \in Current, EndSession(f, i)
  PROVE  StoreInv'
<1>1. DbInv(db') /\ db'.devices = db.devices /\ db'.folders = db.folders
  BY EndSessionStep DEF StoreInv, Follows, Continues
<1>2. UNCHANGED <<removing, idFile, start, starts, calls>>
  BY DEF EndSession
<1> QED BY <1>1, <1>2, SameRowsStep

\* A removal of remove_all_devices: no start is under way.
LEMMA RemoveNextInv ==
  ASSUME StoreInv, NEW i \in Id, RemoveNextDevice(i)
  PROVE  StoreInv'
<1>1. DbInv(db) /\ start.at = 0
  BY DEF StoreInv, StartInv, RemoveNextDevice
<1>2. db' = Commit(db, Removal(db, i)) /\ UNCHANGED <<idFile, start, starts, calls>>
  BY DEF RemoveNextDevice
<1>3. Continues(db, db')
  <2>1. Continues(db, db)
    BY <1>1, FollowsSelf DEF Follows
  <2>2. Valid(Removal(db, i)) => Continues(db, Removal(db, i))
    BY <1>1, RemovalLeaves
  <2> QED BY <1>2, <2>1, <2>2 DEF Commit
<1>4. removing' \subseteq Id
  BY DEF RemoveNextDevice, StoreInv, FileInv
<1>5. calls' \in Nat /\ calls \in Nat /\ starts \in Nat
  BY <1>2 DEF StoreInv, UnopenedInv
<1>6. CASE starts > 0
  BY <1>1, <1>2, <1>3, <1>4, <1>5, <1>6, SettledStep
<1>7. CASE starts = 0
  <2>1. Live(db') \subseteq Live(db)
    <3>1. Live(Removal(db, i)) \subseteq Live(db)
      BY <1>1, RemovalLeaves
    <3> QED BY <1>2, <3>1 DEF Commit
  <2>2. UnopenedInv'
    BY <1>2, <1>7, <2>1 DEF StoreInv, UnopenedInv
  <2>3. StartInv'
    <3>1. Misnamed(db') \subseteq Misnamed(db)
      BY <1>3 DEF Follows, Continues
    <3> QED BY <1>1, <1>2, <3>1 DEF StoreInv, StartInv, Tables, Delete, Finish
  <2>4. FileInv'
    BY <1>2, <1>4 DEF StoreInv, FileInv
  <2> QED BY <1>3, <2>2, <2>3, <2>4 DEF StoreInv, Follows, Continues
<1> QED BY <1>5, <1>6, <1>7

\* Opening the database, and the plan of the migration.
LEMMA OpenInv ==
  ASSUME StoreInv, NEW app \in BOOLEAN, Open(app)
  PROVE  StoreInv'
<1> DEFINE e == Opened(db)
           m == Moves(e)
           s == [at |-> IF m = <<>> THEN Finish ELSE 1, moves |-> m,
                 todo |-> DOMAIN m, done |-> FALSE]
<1>1. /\ db' = e /\ start' = (IF ~ app THEN Idle ELSE s) /\ starts' = starts + 1
      /\ removing' = {} /\ UNCHANGED <<idFile, calls>>
  BY DEF Open
<1>2. /\ DbInv(e) /\ GuidsThere(e)
  <2>1. DbInv(db) /\ (GuidsThere(db) \/ Live(db) \subseteq {1})
    BY DEF StoreInv, UnopenedInv
  <2> HIDE DEF e
  <2> QED BY <2>1, OpenedDb DEF e
<1> HIDE DEF e
<1>3. /\ DOMAIN m \subseteq Id /\ m \in [DOMAIN m -> Id]
      /\ Misnamed(e) \ {Own} \subseteq DOMAIN m
      /\ NamesTellIn(e) => \A i \in DOMAIN m : Person[m[i]] = Person[i]
  BY <1>2, Planned DEF StoreInv
<1> HIDE DEF m
<1>4. UnopenedInv'
  BY <1>1, <1>2 DEF StoreInv, UnopenedInv
<1>5. FileInv'
  BY <1>1 DEF StoreInv, FileInv
<1>6. StartInv'
  <2>1. CASE ~ app
    <3>1. start' = Idle
      BY <1>1, <2>1
    <3> QED BY <3>1, IdleStarted DEF StartInv, Tables, Delete, Finish
  <2>2. CASE app
    <3>1. start' = s /\ s.at = (IF m = <<>> THEN Finish ELSE 1) /\ s.moves = m /\ s.todo = DOMAIN m /\ ~ s.done
      BY <1>1, <2>2
    <3>2. s \in Started
      <4>1. (IF m = <<>> THEN Finish ELSE 1) \in 0..Finish
        BY DEF Finish
      <4>2. m \in UNION {[S -> Id] : S \in SUBSET Id}
        BY <1>3
      <4> QED BY <1>3, <4>1, <4>2 DEF Started
    <3> HIDE DEF s
    <3>3. MovesTrue'
      BY <1>1, <1>3, <3>1 DEF MovesTrue, NamesTell, NamesTellIn
    <3>4. m = <<>> => DOMAIN m = {}
      OBVIOUS
    <3>5. start'.at = Finish => Misnamed(db') \subseteq {Own}
      BY <1>1, <1>3, <3>1, <3>4 DEF Finish
    <3> QED BY <1>1, <1>3, <3>1, <3>2, <3>3, <3>5 DEF StartInv, Tables, Delete, Finish
  <2> QED BY <2>1, <2>2
<1> QED BY <1>1, <1>2, <1>4, <1>5, <1>6 DEF StoreInv

\* One UPDATE of the migration.
LEMMA RepointInv ==
  ASSUME StoreInv, NEW i \in Id, Repoint(i)
  PROVE  StoreInv'
<1> DEFINE t == start.at
           j == start.moves[i]
           d == Repointed(db, t, i, j)
           s == Advanced(start, start.todo \ {i})
<1>0. /\ t \in Tables /\ i \in start.todo /\ i \in DOMAIN start.moves /\ j \in Id
      /\ start \in Started /\ start.todo \subseteq DOMAIN start.moves
      /\ ~ start.done /\ removing = {} /\ DbInv(db)
  BY StartColumns DEF StoreInv, StartInv, Repoint, Tables
<1>1. UNCHANGED <<removing, idFile, starts, calls>>
  BY DEF Repoint
<1>2. \/ Valid(d) /\ db' = d /\ start' = s
      \/ db' = db /\ start' = Idle
  BY DEF Repoint
<1>3. CASE db' = db /\ start' = Idle
  BY <1>0, <1>1, <1>3, GivenUp
<1>4. CASE Valid(d) /\ db' = d /\ start' = s
  <2>1. Sound(d) /\ Follows(db, d) /\ d.devices = db.devices /\ Live(d) = Live(db)
    <3> HIDE DEF d, t, j
    <3>1. d = Repointed(db, t, i, j) /\ Sound(db)
      BY <1>0 DEF d, DbInv
    <3> QED BY <1>0, <1>4, <3>1, RepointedKept
  <2> HIDE DEF d
  <2>2. Misnamed(db') = Misnamed(db) /\ NamesTell' = NamesTell
    BY <1>4, <2>1, SameRows
  <2>3. /\ s \in Started /\ s.moves = start.moves /\ ~ s.done
        /\ start.todo \ {i} # {} => s.at = t /\ s.todo = start.todo \ {i}
        /\ start.todo \ {i} = {} => s.at = t + 1 /\ (s.at # Finish => s.todo = DOMAIN start.moves)
    <3> HIDE DEF s
    <3>1. s = Advanced(start, start.todo \ {i}) /\ start.todo \ {i} \in SUBSET start.todo
      BY DEF s
    <3> QED BY <1>0, <3>1, AdvancedTo
  <2> HIDE DEF s
  <2>4. Misnamed(db) \ {Own} \subseteq DOMAIN start.moves /\ MovesTrue
    BY <1>0 DEF StoreInv, StartInv
  <2>5. MovesTrue'
    BY <1>4, <2>2, <2>3, <2>4 DEF MovesTrue
  <2>6. s.at \in 1..6 /\ (s.at \in Tables \cup {Delete} => s.todo \subseteq DOMAIN s.moves)
        /\ (s.at = Delete => s.todo = DOMAIN s.moves)
    BY <1>0, <2>3 DEF Tables, Delete, Finish
  <2>7. StartInv'
    BY <1>0, <1>1, <1>4, <2>2, <2>3, <2>4, <2>5, <2>6 DEF StartInv, Tables, Delete, Finish
  <2>8. UnopenedInv'
    BY <1>0, <1>1, <1>4, <2>1 DEF StoreInv, UnopenedInv, Follows, Continues, Tables
  <2> QED BY <1>1, <1>4, <2>1, <2>7, <2>8 DEF StoreInv, FileInv, Follows, Continues
<1> QED BY <1>2, <1>3, <1>4

\* The rows of folded ids go.
LEMMA DeleteFoldedInv ==
  ASSUME StoreInv, NEW i \in Id, DeleteFolded(i)
  PROVE  StoreInv'
<1> DEFINE d == [db EXCEPT !.devices[i] = None]
           s == Advanced(start, start.todo \ {i})
<1>0. /\ start.at = Delete /\ i \in start.todo /\ start \in Started
      /\ start.todo \subseteq DOMAIN start.moves /\ Misnamed(db) \ {Own} \subseteq start.todo
      /\ ~ start.done /\ removing = {} /\ DbInv(db) /\ Sound(db)
  BY DEF StoreInv, StartInv, DeleteFolded, Tables, Delete, DbInv
<1>1. UNCHANGED <<removing, idFile, starts, calls>>
  BY DEF DeleteFolded
<1>2. \/ Valid(d) /\ db' = d /\ start' = s
      \/ db' = db /\ start' = Idle
  BY DEF DeleteFolded
<1>3. CASE db' = db /\ start' = Idle
  BY <1>0, <1>1, <1>3, GivenUp
<1>4. CASE Valid(d) /\ db' = d /\ start' = s
  <2> HIDE DEF d, s
  <2>1. d = [db EXCEPT !.devices[i] = None] /\ s = Advanced(start, start.todo \ {i})
    BY DEF d, s
  <2>2. Continues(db, d) /\ d.folders = db.folders /\ Misnamed(d) = Misnamed(db) \ {i}
    BY <1>0, <1>4, <2>1, RowDeleted
  <2>3. /\ s \in Started /\ s.moves = start.moves /\ ~ s.done
        /\ start.todo \ {i} # {} => s.at = start.at /\ s.todo = start.todo \ {i}
        /\ start.todo \ {i} = {} => s.at = start.at + 1
    BY <1>0, <2>1, AdvancedTo
  <2>4. s.at = Delete \/ s.at = Finish
    BY <1>0, <2>3 DEF Delete, Finish
  <2>5. s.at = Delete => s.todo = start.todo \ {i}
    BY <1>0, <2>3 DEF Delete
  <2>6. s.at = Finish => start.todo \subseteq {i}
    BY <1>0, <2>3 DEF Delete, Finish
  <2>7. StartInv'
    BY <1>0, <1>1, <1>4, <2>2, <2>3, <2>4, <2>5, <2>6 DEF StartInv, Tables, Delete, Finish
  <2>8. UnopenedInv'
    BY <1>0, <1>1, <1>4, <2>2 DEF StoreInv, UnopenedInv, Follows, Continues, Delete
  <2> QED BY <1>1, <1>4, <2>2, <2>7, <2>8 DEF StoreInv, FileInv, Follows, Continues
<1> QED BY <1>2, <1>3, <1>4

\* This device's own row is written last, under its own certificate.
LEMMA OwnRow ==
  ASSUME NEW d, DbInv(d), NEW r, r = [name |-> Label[Own], cert |-> Own],
         NEW e, e = [d EXCEPT !.devices[Own] = r]
  PROVE  Follows(d, e) /\ e.folders = d.folders /\ Misnamed(e) = Misnamed(d) \ {Own}
<1>0. Shape(d) /\ Sound(d) /\ Own \in Id /\ Person[Own] = Own
  BY NamesThere, StorageAssumption DEF DbInv, Sound
<1>1. r \in Row /\ r # None /\ r.cert = Own
  BY NamesThere, NoneIsNothing DEF Row
<1>2. /\ e.devices = [d.devices EXCEPT ![Own] = r] /\ e.folders = d.folders
      /\ e.last = d.last /\ e.history = d.history /\ e.shares = d.shares
  BY <1>0 DEF Shape
<1>3. Shape(e)
  <2>1. [d.devices EXCEPT ![Own] = r] \in [Id -> Row \cup {None}]
    BY <1>0, <1>1, Columns
  <2>2. e = [d EXCEPT !.devices = [d.devices EXCEPT ![Own] = r]]
    OBVIOUS
  <2> QED BY <1>0, <2>1, <2>2 DEF Shape
<1>4. \A k \in Id : e.devices[k] = IF k = Own THEN r ELSE d.devices[k]
  BY <1>0, <1>2, Columns
<1>5. Rows(e) = Rows(d) \cup {Own}
  BY <1>0, <1>1, <1>4 DEF Rows
<1>6. Misnamed(e) = Misnamed(d) \ {Own}
  BY <1>0, <1>1, <1>4, <1>5, NoneIsNothing DEF Misnamed, Certified, Rows
<1>7. \A k \in Certified(e) : \/ e.devices[k].cert = k /\ Person[k] = k
                              \/ k \in Certified(d) /\ e.devices[k].cert = d.devices[k].cert
  BY <1>0, <1>1, <1>4, <1>5 DEF Certified, Rows
<1>8. Valid(e)
  BY <1>2, <1>5, ValidGrows DEF DbInv
<1>9. Live(e) = Live(d)
  BY <1>2 DEF Live
<1>10. \A s \in e.shares : s.guid \in FolderId => s.guid <= d.last
  BY <1>0, <1>2 DEF Sound, NumbersGiven
<1>11. Follows(d, e)
  BY <1>0, <1>2, <1>3, <1>5, <1>7, <1>8, <1>9, <1>10, Kept
<1> QED BY <1>2, <1>5, <1>6, <1>11

\* The end of a start that succeeded.
LEMMA FinishInv ==
  ASSUME StoreInv, FinishStart
  PROVE  StoreInv'
<1> DEFINE s == [Idle EXCEPT !.done = TRUE]
<1>0. start.at = Finish /\ Misnamed(db) \subseteq {Own} /\ DbInv(db)
  BY DEF FinishStart, StoreInv, StartInv
<1>1. /\ db' = [db EXCEPT !.devices[Own] = [name |-> Label[Own], cert |-> Own]]
      /\ idFile' = None /\ start' = s /\ UNCHANGED <<removing, starts, calls>>
  BY DEF FinishStart
<1>2. Follows(db, db') /\ db'.folders = db.folders /\ Misnamed(db') = Misnamed(db) \ {Own}
  BY <1>0, <1>1, OwnRow
<1>3. s \in Started /\ s.at = 0 /\ s.done
  BY IdleStarted DEF Started
<1> HIDE DEF s
<1>4. UnopenedInv'
  BY <1>0, <1>1, <1>2, <1>3 DEF StoreInv, UnopenedInv, Follows, Continues, Finish
<1>5. StartInv'
  BY <1>0, <1>1, <1>2, <1>3 DEF StartInv, Tables, Delete, Finish
<1>6. FileInv'
  BY <1>1 DEF StoreInv, FileInv
<1> QED BY <1>2, <1>4, <1>5, <1>6 DEF StoreInv, Follows, Continues

\* Everything that can happen.
LEMMA NextInv ==
  ASSUME StoreInv, [Next]_vars
  PROVE  StoreInv'
<1>1. CASE \E i \in Id : RemoveNextDevice(i) \/ Repoint(i) \/ DeleteFolded(i)
  BY <1>1, RemoveNextInv, RepointInv, DeleteFoldedInv
<1>2. CASE Crash
  BY <1>2, GivenUp DEF Crash, StoreInv
<1>3. CASE UNCHANGED vars
  <2>1. db' = db /\ removing' = removing /\ idFile' = idFile /\ start' = start
        /\ starts' = starts /\ calls' = calls
    BY <1>3 DEF vars
  <2> QED BY <2>1, SameRowsStep DEF StoreInv
<1> QED BY <1>1, <1>2, <1>3, CallsInv, EndSessionInv, OpenInv, FinishInv DEF Next

\* The databases of all installations, whatever happens to them, are sound: every
\* reference holds, row ids and minted guids are in order, and certificates are true.
THEOREM StoreSound == Spec => []StoreInv
<1>1. Init => StoreInv
  BY FreshInv, InheritedInv DEF Init
<1>2. StoreInv /\ [Next]_vars => StoreInv'
  BY NextInv
<1> QED BY <1>1, <1>2, PTL DEF Spec

-----------------------------------------------------------------------------
(***************************************************************************)
(* What follows.                                                           *)
(***************************************************************************)
\* new_folder_guid guesses a row id, and two folders still never get the same guid.
THEOREM GuidsAreOnes == Spec => []MintedGuidsDistinct
<1>1. StoreInv => MintedGuidsDistinct
  BY DEF StoreInv, DbInv, Sound, GuidsDistinct, MintedGuidsDistinct
<1> QED BY <1>1, StoreSound, PTL

\* A start that came to its end has folded every row of another certificate.
THEOREM Folded == Spec => []OneRowPerDevice
<1>1. StoreInv => OneRowPerDevice
  BY DEF StoreInv, StartInv, OneRowPerDevice
<1> QED BY <1>1, StoreSound, PTL

\* The three reasons for which remove_device fails are all there are.
THEOREM RemovalExplained == Spec => []RemovalRefusedOnlyIf
<1>1. StoreInv => RemovalRefusedOnlyIf
  <2> SUFFICES ASSUME StoreInv, NEW i \in Rows(db), ~ RemovalRefused(i)
               PROVE  Valid(Removal(db, i))
    BY DEF RemovalRefusedOnlyIf
  <2> DEFINE e == Removal(db, i)
  <2>0. DbInv(db) /\ i \in Id /\ Valid(db)
    BY DEF StoreInv, DbInv, Rows
  <2>1. /\ Rows(e) = Rows(db) \ {i} /\ e.shares = db.shares
        /\ e.history = {h \in db.history : h[2] # i /\ ~ (h[1] \in Live(db) /\ i \in Pairs(db, h[1]))}
        /\ Live(e) = {f \in Live(db) : Pairs(db, f) \ {i} # {}}
        /\ \A f \in Live(e) : /\ Pairs(e, f) = Pairs(db, f) \ {i}
                              /\ e.folders[f].dev = db.folders[f].dev
                              /\ IsInjective(e.folders[f].pairs)
    <3> HIDE DEF e
    <3> QED BY <2>0, RemovalLeaves DEF e
  <2> HIDE DEF e
  <2>2. \A f \in Live(e) : Pairs(e, f) \cup {e.folders[f].dev} \subseteq Rows(e)
    BY <2>0, <2>1 DEF RemovalRefused, Valid, Referential
  <2>3. \A h \in e.history : h[1] \in Live(e)
    BY <2>0, <2>1 DEF RemovalRefused, Valid, Referential
  <2>4. \A s \in e.shares : s.owner \in Rows(e)
    BY <2>0, <2>1 DEF RemovalRefused, Valid, Referential
  <2>5. Unique(e)
    BY <2>0, <2>1 DEF Valid, Unique
  <2> QED BY <2>2, <2>3, <2>4, <2>5 DEF Valid, Referential, e
<1> QED BY <1>1, StoreSound, PTL

\* Row ids of live folders are old ones or new.
RowsGoOn == \A f \in Live(db') : f \in Live(db) \/ f > db.last

\* A folder's row id is given once, as AUTOINCREMENT promises: a session or a
\* removal that outlives its folder never meets another one under its number.
THEOREM RowIdsGivenOnce == Spec => RowsNotReused
<1>1. ASSUME StoreInv, [Next]_vars
      PROVE  RowsGoOn
  <2>0. DbInv(db) /\ Sound(db)
    BY <1>1 DEF StoreInv, DbInv
  <2>1. CASE Ready /\ Calls
    <3>1. GuidsThere(db)
      BY <1>1, <2>1, StorageAssumption DEF Ready, StoreInv, UnopenedInv
    <3> QED BY <2>0, <2>1, <3>1, CallsContinue DEF Continues, RowsGoOn
  <2>2. ASSUME NEW f \in FolderId, NEW i \in Current, EndSession(f, i) PROVE RowsGoOn
    BY <2>0, <2>2, EndSessionStep DEF Follows, Continues, RowsGoOn
  <2>3. ASSUME NEW app \in BOOLEAN, Open(app) PROVE RowsGoOn
    <3>1. db' = Opened(db) /\ (GuidsThere(db) \/ Live(db) \subseteq {1})
      BY <1>1, <2>3 DEF Open, StoreInv, UnopenedInv
    <3> QED BY <2>0, <3>1, OpenedDb DEF RowsGoOn
  <2>4. ASSUME NEW i \in Id, RemoveNextDevice(i) PROVE RowsGoOn
    <3>1. db' = db \/ db' = Removal(db, i)
      BY <2>4 DEF RemoveNextDevice, Commit
    <3>2. Live(Removal(db, i)) \subseteq Live(db)
      BY <2>0, RemovalLeaves
    <3> QED BY <3>1, <3>2 DEF RowsGoOn
  <2>5. ASSUME NEW i \in Id, Repoint(i) PROVE RowsGoOn
    <3>1. start.at \in Tables /\ start.moves[i] \in Id
      BY <1>1, <2>5, StartColumns DEF Repoint, StoreInv, StartInv
    <3>2. db' = db \/ db' = Repointed(db, start.at, i, start.moves[i])
      BY <2>5 DEF Repoint
    <3>3. Live(Repointed(db, start.at, i, start.moves[i])) = Live(db)
      BY <2>0, <3>1, RepointedKept
    <3> QED BY <3>2, <3>3 DEF RowsGoOn
  <2>6. ASSUME NEW i \in Id, DeleteFolded(i) PROVE RowsGoOn
    <3>1. db' = db \/ db' = [db EXCEPT !.devices[i] = None]
      BY <2>6 DEF DeleteFolded
    <3>2. db'.folders = db.folders
      BY <2>0, <3>1, RowDeleted
    <3> QED BY <3>2 DEF RowsGoOn, Live
  <2>7. CASE FinishStart
    <3>1. db'.folders = db.folders
      BY <2>0, <2>7, OwnRow DEF FinishStart
    <3> QED BY <3>1 DEF RowsGoOn, Live
  <2>8. CASE Crash \/ UNCHANGED vars
    BY <2>8 DEF Crash, vars, RowsGoOn
  <2> QED BY <1>1, <2>1, <2>2, <2>3, <2>4, <2>5, <2>6, <2>7, <2>8 DEF Next
<1>2. ASSUME StoreInv, [Next]_vars
      PROVE  [\A f \in FolderId : f <= db.last /\ f \notin Live(db) => f \notin Live(db')]_vars
  <2>1. RowsGoOn
    BY <1>1, <1>2
  <2>2. db.last \in Int /\ FolderId \subseteq Int
    BY <1>2, Columns, StorageAssumption DEF StoreInv, DbInv, Sound, FolderId
  <2> QED BY <2>1, <2>2 DEF RowsGoOn
<1> QED BY <1>2, StoreSound, PTL DEF Spec, RowsNotReused

-----------------------------------------------------------------------------
(***************************************************************************)
(* The folders' devices across starts.                                     *)
(***************************************************************************)
\* The devices behind the ids of folder f, and those of all folders.
Related(d, f) == {Person[x] : x \in Pairs(d, f) \cup {d.folders[f].dev}}
Relations(d)  == {<<m[1], Person[m[2]]>> : m \in Mentions(d)}

\* Folders related to as many devices or more.
LEMMA RelationsGrow ==
  ASSUME NEW d, NEW e, Shape(d), Shape(e), Live(d) \subseteq Live(e),
         \A f \in Live(d) : Related(d, f) \subseteq Related(e, f)
  PROVE  Relations(d) \subseteq Relations(e)
<1> SUFFICES ASSUME NEW r \in Relations(d)
             PROVE  r \in Relations(e)
  OBVIOUS
<1>1. PICK m \in Mentions(d) : r = <<m[1], Person[m[2]]>>
  BY DEF Relations
<1> DEFINE f == m[1]
<1>2. f \in Live(d) /\ Person[m[2]] \in Related(d, f)
  BY DEF Mentions, Related
<1> HIDE DEF f
<1>3. PICK x \in Pairs(e, f) \cup {e.folders[f].dev} : Person[m[2]] = Person[x]
  BY <1>2 DEF Related
<1>4. f \in Live(e) /\ x \in Id
  BY <1>2, <1>3, Columns DEF Folder
<1>5. <<f, x>> \in Mentions(e)
  BY <1>3, <1>4 DEF Mentions
<1>6. r = <<<<f, x>>[1], Person[<<f, x>>[2]]>>
  BY <1>1, <1>3 DEF f
<1> QED BY <1>5, <1>6 DEF Relations

\* Folders related to the same devices.
LEMMA RelationsSame ==
  ASSUME NEW d, NEW e, Shape(d), Shape(e), Live(d) = Live(e),
         \A f \in Live(d) : Related(d, f) = Related(e, f)
  PROVE  Relations(e) = Relations(d)
<1>1. Relations(d) \subseteq Relations(e)
  BY RelationsGrow
<1>2. Relations(e) \subseteq Relations(d)
  BY RelationsGrow
<1> QED BY <1>1, <1>2

\* An UPDATE that replaces an id by another of the same device.
LEMMA RepointRelates ==
  ASSUME NEW d, Sound(d), NEW t \in Tables, NEW i \in Id, NEW j \in Id, Person[i] = Person[j],
         NEW e, e = Repointed(d, t, i, j)
  PROVE  Relations(e) = Relations(d)
<1>1. /\ Sound(e) /\ Live(e) = Live(d)
      /\ \A f \in Live(d) : /\ Pairs(e, f) = PairsAfter(d, t, i, j, f)
                            /\ e.folders[f].dev = DevAfter(d, t, i, j, f)
  BY RepointedKept
<1>2. \A x : Person[Put(i, j, x)] = Person[x]
  BY DEF Put
<1>3. ASSUME NEW f \in Live(d)
      PROVE  Related(d, f) = Related(e, f)
  <2>1. Person[e.folders[f].dev] = Person[d.folders[f].dev]
    BY <1>1, <1>2 DEF DevAfter
  <2>2. \A x \in Pairs(e, f) : \E y \in Pairs(d, f) : Person[x] = Person[y]
    BY <1>1, <1>2 DEF PairsAfter
  <2>3. \A y \in Pairs(d, f) : \E x \in Pairs(e, f) : Person[x] = Person[y]
    BY <1>1, <1>2 DEF PairsAfter
  <2> QED BY <2>1, <2>2, <2>3 DEF Related
<1> QED BY <1>1, <1>3, RelationsSame DEF Sound

\* Any number of starts, each dying anywhere, leaves every folder with the devices
\* it was related to, if no two devices have one name.
THEOREM StartsKeepRelations == Spec => RelationsKept
<1>1. ASSUME StoreInv, [Next]_vars, starts' > starts \/ start.at # 0, NamesTell
      PROVE  Relations(db') = Relations(db)
  <2>0. DbInv(db) /\ Sound(db) /\ Shape(db) /\ starts \in Int
    BY <1>1 DEF StoreInv, DbInv, Sound, UnopenedInv
  <2>f. ASSUME db'.folders = db.folders
        PROVE  Relations(db') = Relations(db)
    BY <2>f DEF Relations, Mentions, Live, Pairs
  <2>1. CASE Ready /\ Calls
    BY <1>1, <2>0, <2>1, CallsLeave DEF Ready
  <2>2. ASSUME NEW f \in FolderId, NEW i \in Current, EndSession(f, i)
        PROVE  Relations(db') = Relations(db)
    BY <2>0, <2>2, <2>f, EndSessionStep
  <2>3. ASSUME NEW app \in BOOLEAN, Open(app)
        PROVE  Relations(db') = Relations(db)
    <3>1. db' = Opened(db) /\ (GuidsThere(db) \/ Live(db) \subseteq {1})
      BY <1>1, <2>3 DEF Open, StoreInv, UnopenedInv
    <3>2. /\ DbInv(db') /\ Live(db') = Live(db)
          /\ \A f \in Live(db) : /\ Pairs(db', f) = Pairs(db, f) \cup {db.folders[f].dev}
                                 /\ db'.folders[f].dev = db.folders[f].dev
      BY <2>0, <3>1, OpenedDb
    <3>3. \A f \in Live(db) : Related(db, f) = Related(db', f)
      BY <3>2 DEF Related
    <3>4. Shape(db')
      BY <3>2 DEF DbInv, Sound
    <3> QED BY <2>0, <3>2, <3>3, <3>4, RelationsSame
  <2>4. ASSUME NEW i \in Id, RemoveNextDevice(i)
        PROVE  Relations(db') = Relations(db)
    <3>1. start.at = 0 /\ starts' = starts
      BY <1>1, <2>4 DEF RemoveNextDevice, StoreInv, StartInv
    <3> QED BY <1>1, <2>0, <3>1
  <2>5. ASSUME NEW i \in Id, Repoint(i)
        PROVE  Relations(db') = Relations(db)
    <3>1. /\ start.at \in Tables /\ start.moves[i] \in Id
          /\ Person[start.moves[i]] = Person[i]
      BY <1>1, <2>5, StartColumns DEF Repoint, StoreInv, StartInv, MovesTrue
    <3>2. db' = db \/ db' = Repointed(db, start.at, i, start.moves[i])
      BY <2>5 DEF Repoint
    <3>3. Relations(Repointed(db, start.at, i, start.moves[i])) = Relations(db)
      BY <2>0, <3>1, RepointRelates
    <3> QED BY <3>2, <3>3
  <2>6. ASSUME NEW i \in Id, DeleteFolded(i)
        PROVE  Relations(db') = Relations(db)
    <3>1. db' = db \/ db' = [db EXCEPT !.devices[i] = None]
      BY <2>6 DEF DeleteFolded
    <3>2. db'.folders = db.folders
      BY <2>0, <3>1, RowDeleted
    <3> QED BY <3>2, <2>f
  <2>7. CASE FinishStart
    BY <2>0, <2>7, <2>f, OwnRow DEF FinishStart
  <2>8. CASE Crash \/ UNCHANGED vars
    BY <2>8, <2>f DEF Crash, vars
  <2> QED BY <1>1, <2>1, <2>2, <2>3, <2>4, <2>5, <2>6, <2>7, <2>8 DEF Next
<1>2. ASSUME StoreInv, [Next]_vars
      PROVE  [(starts' > starts \/ start.at # 0) /\ NamesTell =>
                {<<m[1], Person[m[2]]>> : m \in Mentions(db')}
                  = {<<m[1], Person[m[2]]>> : m \in Mentions(db)}]_vars
  BY <1>1, <1>2 DEF Relations
<1> QED BY <1>2, StoreSound, PTL DEF Spec, RelationsKept
-----------------------------------------------------------------------------
(***************************************************************************)
(* Devices that go.                                                        *)
(***************************************************************************)
\* The ids in the two tables whose device column is no foreign key: an UPDATE
\* that is missing there is refused by nobody.
Column(S)   == {m[2] : m \in S}
Named(d, t) == Column(IF t = 4 THEN d.history ELSE d.sessions)

Targets == {start.moves[i] : i \in DOMAIN start.moves}

\* The UPDATE of table t for id i was executed in this start.
Passed(t, i) ==
  start.at \in t + 1 .. Delete \/ (start.at = t /\ i \notin start.todo)

\* Ids that are folded, and into which none is, are named no more.
ForgetInv ==
  /\ start.at # 0 => running = {}
  /\ \A t \in {4, 5}, i \in DOMAIN start.moves \ Targets :
       Passed(t, i) => i \notin Named(db, t)

\* The ids of a column after an UPDATE.
Updated(K, H, i, j) == K = {<<h[1], Put(i, j, h[2])>> : h \in H}

LEMMA ColumnPut ==
  ASSUME NEW H, NEW i, NEW j, NEW K, Updated(K, H, i, j)
  PROVE  Column(K) = {Put(i, j, x) : x \in Column(H)}
<1>1. ASSUME NEW h \in H
      PROVE  Put(i, j, h[2]) \in Column(K)
  <2>1. <<h[1], Put(i, j, h[2])>> \in K
    BY DEF Updated
  <2>2. <<h[1], Put(i, j, h[2])>>[2] = Put(i, j, h[2])
    OBVIOUS
  <2> QED BY <2>1, <2>2 DEF Column
<1>2. ASSUME NEW m \in K
      PROVE  \E h \in H : m[2] = Put(i, j, h[2])
  BY DEF Updated
<1> QED BY <1>1, <1>2 DEF Column

\* What an UPDATE makes of the ids of its own table and of others.
LEMMA RepointedNames ==
  ASSUME NEW d, Sound(d), NEW t \in Tables, NEW i \in Id, NEW j \in Id, NEW u \in {4, 5},
         NEW e, e = Repointed(d, t, i, j)
  PROVE  Named(e, u) = IF u = t THEN {Put(i, j, x) : x \in Named(d, u)} ELSE Named(d, u)
<1>0. Shape(d)
  BY DEF Sound
<1>1. CASE t = 1
  <2>1. e.history = d.history /\ e.sessions = d.sessions
    BY <1>0, <1>1 DEF Repointed, Shape
  <2> QED BY <1>1, <2>1 DEF Named
<1>2. CASE t = 2
  <2>1. e.history = d.history /\ e.sessions = d.sessions
    BY <1>0, <1>2 DEF Repointed, Shape
  <2> QED BY <1>2, <2>1 DEF Named
<1>3. CASE t = 3
  <2>1. e.history = d.history /\ e.sessions = d.sessions
    BY <1>0, <1>3 DEF Repointed, Shape
  <2> QED BY <1>3, <2>1 DEF Named
<1>4. CASE t = 4
  <2>1. e = [d EXCEPT !.history = {<<h[1], Put(i, j, h[2])>> : h \in d.history}]
    BY <1>4 DEF Repointed
  <2>2. /\ e.history = {<<h[1], Put(i, j, h[2])>> : h \in d.history}
        /\ e.sessions = d.sessions
    BY <1>0, <2>1 DEF Shape
  <2>3. CASE u = 4
    <3>1. Named(d, u) = Column(d.history) /\ Named(e, u) = Column(e.history) /\ u = t
      BY <1>4, <2>3 DEF Named
    <3>2. Updated(e.history, d.history, i, j)
      BY <2>2 DEF Updated
    <3> QED BY <3>1, <3>2, ColumnPut
  <2>4. CASE u = 5
    BY <1>4, <2>2, <2>4 DEF Named
  <2> QED BY <2>3, <2>4
<1>5. CASE t = 5
  <2>1. e = [d EXCEPT !.sessions = {<<s[1], Put(i, j, s[2])>> : s \in d.sessions}]
    BY <1>5 DEF Repointed
  <2>2. /\ e.sessions = {<<s[1], Put(i, j, s[2])>> : s \in d.sessions}
        /\ e.history = d.history
    BY <1>0, <2>1 DEF Shape
  <2>3. CASE u = 4
    BY <1>5, <2>2, <2>3 DEF Named
  <2>4. CASE u = 5
    <3>1. Named(d, u) = Column(d.sessions) /\ Named(e, u) = Column(e.sessions) /\ u = t
      BY <1>5, <2>4 DEF Named
    <3>2. Updated(e.sessions, d.sessions, i, j)
      BY <2>2 DEF Updated
    <3> QED BY <3>1, <3>2, ColumnPut
  <2> QED BY <2>3, <2>4
<1> QED BY <1>1, <1>2, <1>3, <1>4, <1>5 DEF Tables

\* Where no table was updated yet, or no start is under way, nothing is claimed.
LEMMA NothingPassed ==
  ASSUME start'.at \in {0, 1, Finish}, start'.at # 0 => running' = {}
  PROVE  ForgetInv'
<1>1. \A t \in {4, 5} : start'.at \notin t + 1 .. Delete /\ start'.at # t
  BY DEF Delete, Finish
<1> QED BY <1>1 DEF ForgetInv, Passed

\* One UPDATE.
LEMMA RepointForgets ==
  ASSUME StoreInv, ForgetInv, NEW i \in Id, Repoint(i)
  PROVE  ForgetInv'
<1> DEFINE t == start.at
           j == start.moves[i]
           d == Repointed(db, t, i, j)
           s == Advanced(start, start.todo \ {i})
<1>0. /\ t \in Tables /\ i \in start.todo /\ i \in DOMAIN start.moves /\ j \in Id
      /\ start \in Started /\ start.todo \subseteq DOMAIN start.moves
      /\ ~ start.done /\ Sound(db) /\ running = {}
  BY StartColumns DEF StoreInv, StartInv, Repoint, Tables, DbInv, ForgetInv
<1>1. running' = running
  BY DEF Repoint
<1>2. \/ db' = d /\ start' = s
      \/ start' = Idle
  BY DEF Repoint
<1>3. CASE start' = Idle
  BY <1>3, NothingPassed DEF Idle
<1>4. CASE db' = d /\ start' = s
  <2>1. /\ s.moves = start.moves
        /\ start.todo \ {i} # {} => s.at = t /\ s.todo = start.todo \ {i}
        /\ start.todo \ {i} = {} => s.at = t + 1 /\ (s.at # Finish => s.todo = DOMAIN start.moves)
    <3> HIDE DEF s
    <3>1. s = Advanced(start, start.todo \ {i}) /\ start.todo \ {i} \in SUBSET start.todo
      BY DEF s
    <3> QED BY <1>0, <3>1, AdvancedTo
  <2>2. ASSUME NEW u \in {4, 5}, NEW k \in DOMAIN start.moves \ Targets, Passed(u, k)'
        PROVE  k \notin Named(db', u)
    <3>1. Named(db', u) = IF u = t THEN {Put(i, j, x) : x \in Named(db, u)} ELSE Named(db, u)
      <4> HIDE DEF d, t, j
      <4>1. d = Repointed(db, t, i, j)
        BY DEF d
      <4> QED BY <1>0, <1>4, <4>1, RepointedNames
    <3> HIDE DEF d, s
    <3>2. j # k
      BY <1>0 DEF Targets
    <3> HIDE DEF j
    <3>3. CASE k = i /\ u = t
      BY <3>1, <3>2, <3>3 DEF Put
    <3>4. CASE k # i \/ u # t
      <4>1. s.at \in u + 1 .. Delete \/ (s.at = u /\ k \notin s.todo)
        BY <1>4, <2>2 DEF Passed
      <4>2. Passed(u, k)
        <5>1. CASE start.todo \ {i} # {}
          BY <1>0, <2>1, <3>4, <4>1, <5>1 DEF Passed, Tables, Delete
        <5>2. CASE start.todo \ {i} = {}
          <6>1. s.at = t + 1 /\ s.todo = DOMAIN start.moves /\ start.todo = {i}
            BY <1>0, <2>1, <5>2 DEF Tables, Finish
          <6> QED BY <1>0, <3>4, <4>1, <6>1 DEF Passed, Tables, Delete
        <5> QED BY <5>1, <5>2
      <4>3. k \notin Named(db, u)
        BY <4>2 DEF ForgetInv
      <4> QED BY <3>1, <3>2, <4>3 DEF Put
    <3> QED BY <3>3, <3>4
  <2>3. start'.moves = start.moves /\ Targets' = Targets
    <3> HIDE DEF s
    <3> QED BY <1>4, <2>1 DEF Targets
  <2> QED BY <1>0, <1>1, <2>2, <2>3 DEF ForgetInv
<1> QED BY <1>2, <1>3, <1>4

\* The rows of folded ids go, and nothing else.
LEMMA DeleteForgets ==
  ASSUME StoreInv, ForgetInv, NEW i \in Id, DeleteFolded(i)
  PROVE  ForgetInv'
<1> DEFINE d == [db EXCEPT !.devices[i] = None]
           s == Advanced(start, start.todo \ {i})
<1>0. /\ start.at = Delete /\ i \in start.todo /\ start \in Started
      /\ ~ start.done /\ Sound(db) /\ running = {} /\ running' = running
  BY DEF StoreInv, StartInv, DeleteFolded, DbInv, ForgetInv, Tables, Delete
<1>1. \/ db' = d /\ start' = s
      \/ start' = Idle
  BY DEF DeleteFolded
<1>2. CASE start' = Idle
  BY <1>2, NothingPassed DEF Idle
<1>3. CASE db' = d /\ start' = s
  <2>1. d.history = db.history /\ d.sessions = db.sessions
    BY <1>0 DEF Sound, Shape
  <2> HIDE DEF d, s
  <2>2. s.moves = start.moves
    <3>1. s = Advanced(start, start.todo \ {i}) /\ start.todo \ {i} \in SUBSET start.todo
      BY DEF s
    <3> QED BY <1>0, <3>1, AdvancedTo
  <2>3. \A t \in {4, 5} : Named(db', t) = Named(db, t)
    BY <1>3, <2>1 DEF Named
  <2>4. \A t \in {4, 5}, k \in DOMAIN start.moves : Passed(t, k)
    BY <1>0 DEF Passed, Delete
  <2>5. start'.moves = start.moves /\ Targets' = Targets
    BY <1>3, <2>2 DEF Targets
  <2> QED BY <1>0, <2>3, <2>4, <2>5 DEF ForgetInv
<1> QED BY <1>1, <1>2, <1>3

\* Everything that can happen.
LEMMA NextForgets ==
  ASSUME StoreInv, ForgetInv, [Next]_vars
  PROVE  ForgetInv'
<1>1. CASE Ready /\ Calls
  <2>1. start'.at = 0
    BY <1>1, CallsLeave DEF Ready
  <2> QED BY <2>1, NothingPassed
<1>2. ASSUME NEW f \in FolderId, NEW i \in Current, EndSession(f, i) PROVE ForgetInv'
  <2>1. start'.at = 0
    BY <1>2 DEF EndSession, ForgetInv
  <2> QED BY <2>1, NothingPassed
<1>3. ASSUME NEW app \in BOOLEAN, Open(app) PROVE ForgetInv'
  <2>1. start'.at \in {0, 1, Finish} /\ running' = {}
    BY <1>3 DEF Open, Idle
  <2> QED BY <2>1, NothingPassed
<1>4. ASSUME NEW i \in Id, RemoveNextDevice(i) PROVE ForgetInv'
  <2>1. start'.at = 0
    BY <1>4 DEF RemoveNextDevice, StoreInv, StartInv
  <2> QED BY <2>1, NothingPassed
<1>5. CASE FinishStart \/ Crash
  <2>1. start'.at = 0
    BY <1>5 DEF FinishStart, Crash, Idle
  <2> QED BY <2>1, NothingPassed
<1>6. CASE UNCHANGED vars
  <2>1. db' = db /\ start' = start /\ running' = running
    BY <1>6 DEF vars
  <2> QED BY <2>1 DEF ForgetInv, Targets, Passed
<1> QED BY <1>1, <1>2, <1>3, <1>4, <1>5, <1>6, RepointForgets, DeleteForgets DEF Next

\* An id that no table names.
LEMMA Unmentioned ==
  ASSUME NEW d, Valid(d), NEW i \in Id, i \notin Rows(d),
         i \notin Column(d.history), i \notin Column(d.sessions)
  PROVE  i \notin MentionedIds(d)
<1>1. \A f \in Live(d) : i \notin Pairs(d, f) \cup {d.folders[f].dev}
  BY DEF Valid, Referential
<1>2. \A m \in Mentions(d) : m[2] # i
  BY <1>1 DEF Mentions
<1>3. \A m \in d.history \cup d.sessions : m[2] # i
  BY DEF Column
<1>4. \A s \in d.shares : s.owner # i
  BY DEF Valid, Referential
<1> QED BY <1>2, <1>3, <1>4 DEF MentionedIds

\* What remove_device leaves behind.
LEMMA RemovalForgets ==
  ASSUME NEW d, DbInv(d), NEW i \in Id, NEW e, e = Commit(d, Removal(d, i)),
         NEW k \in Rows(d) \ Rows(e)
  PROVE  k \notin MentionedIds(e)
<1> DEFINE r == Removal(d, i)
<1> HIDE DEF r
<1>1. Valid(r) /\ e = r
  BY DEF Commit, r
<1>2. /\ Rows(r) = Rows(d) \ {i}
      /\ r.history = {h \in d.history : h[2] # i /\ ~ (h[1] \in Live(d) /\ i \in Pairs(d, h[1]))}
      /\ r.sessions = {t \in d.sessions : t[2] # i}
  BY RemovalLeaves DEF r
<1>3. k = i
  BY <1>1, <1>2
<1>4. i \notin Column(r.history) /\ i \notin Column(r.sessions)
  BY <1>2 DEF Column
<1> QED BY <1>1, <1>2, <1>3, <1>4, Unmentioned

\* What a step may do to the rows of devices.
Forgotten ==
  \A i \in Rows(db) \ Rows(db') :
    \/ i \notin MentionedIds(db')
    \/ Rows(db') = {} /\ calls' > calls
    \/ start.at = Delete /\ \E j \in DOMAIN start.moves : start.moves[j] = i

\* No table names a device whose row is gone: neither remove_device nor a migration
\* that died and was started again, any number of times, leaves rows behind that
\* point nowhere.
THEOREM GoneForgotten == Spec => GoneMeansForgotten
<1>1. Init => ForgetInv
  BY DEF Init, Idle, ForgetInv, Passed, Delete
<1>2. StoreInv /\ ForgetInv /\ [Next]_vars => ForgetInv'
  BY NextForgets
<1>3. ASSUME StoreInv, ForgetInv, [Next]_vars
      PROVE  Forgotten
  <2>0. DbInv(db) /\ Sound(db) /\ Rows(db) \subseteq Id
    BY <1>3 DEF StoreInv, DbInv, Rows
  <2>k. ASSUME Rows(db) \subseteq Rows(db')
        PROVE  Forgotten
    BY <2>k DEF Forgotten
  <2>1. CASE Ready /\ Calls
    <3>1. GuidsThere(db)
      BY <1>3, <2>1, StorageAssumption DEF Ready, StoreInv, UnopenedInv
    <3>2. CASE Follows(db, db')
      BY <3>2, <2>k DEF Follows
    <3>3. ASSUME NEW i \in Current, RemoveDevice(i) PROVE Forgotten
      <4>1. i \in Id /\ db' = Commit(db, Removal(db, i))
        BY <3>3, NamesThere DEF RemoveDevice, Call
      <4> QED BY <2>0, <4>1, RemovalForgets DEF Forgotten
    <3>4. CASE ClearAllSyncState
      <4> DEFINE e == [db EXCEPT !.history = {}, !.folders = [f \in FolderId |-> None],
                                 !.devices = [i \in Id |-> None]]
      <4>1. db' = Commit(db, e) /\ calls' = calls + 1 /\ calls \in Nat
        BY <1>3, <3>4 DEF ClearAllSyncState, Call, StoreInv, UnopenedInv
      <4>2. e.devices = [i \in Id |-> None]
        BY <2>0 DEF Sound, Shape
      <4> HIDE DEF e
      <4>3. Rows(e) = {}
        BY <4>2 DEF Rows
      <4>4. CASE db' = db
        BY <4>4, <2>k
      <4>5. CASE db' = e
        BY <4>1, <4>3, <4>5 DEF Forgotten
      <4> QED BY <4>1, <4>4, <4>5 DEF Commit
    <3> QED BY <2>0, <2>1, <3>1, <3>2, <3>3, <3>4, CallsFollow DEF Forgets
  <2>2. ASSUME NEW f \in FolderId, NEW i \in Current, EndSession(f, i) PROVE Forgotten
    BY <2>0, <2>2, <2>k, EndSessionStep DEF Follows
  <2>3. ASSUME NEW app \in BOOLEAN, Open(app) PROVE Forgotten
    <3>1. db' = Opened(db) /\ (GuidsThere(db) \/ Live(db) \subseteq {1})
      BY <1>3, <2>3 DEF Open, StoreInv, UnopenedInv
    <3>2. db'.devices = db.devices
      BY <2>0, <3>1, OpenedDb
    <3> QED BY <3>2, <2>k DEF Rows
  <2>4. ASSUME NEW i \in Id, RemoveNextDevice(i) PROVE Forgotten
    <3>1. db' = Commit(db, Removal(db, i))
      BY <2>4 DEF RemoveNextDevice
    <3> QED BY <2>0, <3>1, RemovalForgets DEF Forgotten
  <2>5. ASSUME NEW i \in Id, Repoint(i) PROVE Forgotten
    <3>1. start.at \in Tables /\ start.moves[i] \in Id
      BY <1>3, <2>5, StartColumns DEF Repoint, StoreInv, StartInv
    <3>2. db' = db \/ db' = Repointed(db, start.at, i, start.moves[i])
      BY <2>5 DEF Repoint
    <3>3. Repointed(db, start.at, i, start.moves[i]).devices = db.devices
      BY <2>0, <3>1, RepointedKept
    <3>4. db'.devices = db.devices
      BY <3>2, <3>3
    <3> QED BY <3>4, <2>k DEF Rows
  <2>6. ASSUME NEW i \in Id, DeleteFolded(i) PROVE Forgotten
    <3> DEFINE d == [db EXCEPT !.devices[i] = None]
    <3>1. db' = db \/ (db' = d /\ Valid(d))
      BY <2>6 DEF DeleteFolded
    <3>2. /\ start.at = Delete /\ i \in DOMAIN start.moves
      BY <1>3, <2>6 DEF DeleteFolded, StoreInv, StartInv
    <3>3. /\ d.devices = [db.devices EXCEPT ![i] = None]
          /\ d.history = db.history /\ d.sessions = db.sessions
      BY <2>0 DEF Sound, Shape
    <3> HIDE DEF d
    <3>4. CASE db' = db
      BY <3>4, <2>k
    <3>5. CASE db' = d /\ Valid(d)
      <4>1. Rows(db) \ Rows(d) \subseteq {i} /\ i \notin Rows(d)
        <5>1. db.devices \in [Id -> Row \cup {None}]
          BY <2>0, Columns DEF Sound
        <5> QED BY <3>3, <5>1 DEF Rows
      <4>2. CASE i \in Targets
        BY <3>2, <3>5, <4>1, <4>2 DEF Targets, Forgotten
      <4>3. CASE i \notin Targets
        <5>1. Passed(4, i) /\ Passed(5, i)
          BY <3>2 DEF Passed, Delete
        <5>2. i \notin Named(db, 4) /\ i \notin Named(db, 5)
          BY <1>3, <3>2, <4>3, <5>1 DEF ForgetInv
        <5>3. i \notin Column(d.history) /\ i \notin Column(d.sessions)
          BY <3>3, <5>2 DEF Named
        <5>4. i \notin MentionedIds(d)
          BY <3>5, <4>1, <5>3, Unmentioned
        <5> QED BY <3>5, <4>1, <5>4 DEF Forgotten
      <4> QED BY <4>2, <4>3
    <3> QED BY <3>1, <3>4, <3>5
  <2>7. CASE FinishStart
    <3>1. Follows(db, db')
      BY <2>0, <2>7, OwnRow DEF FinishStart
    <3> QED BY <3>1, <2>k DEF Follows
  <2>8. CASE Crash \/ UNCHANGED vars
    BY <2>8, <2>k DEF Crash, vars
  <2> QED BY <1>3, <2>1, <2>2, <2>3, <2>4, <2>5, <2>6, <2>7, <2>8 DEF Next
<1>4. ASSUME StoreInv, ForgetInv, [Next]_vars
      PROVE  [Forgotten]_vars
  BY <1>3, <1>4
<1>5. [Forgotten]_vars => [\A i \in Rows(db) \ Rows(db') :
        \/ i \notin MentionedIds(db')
        \/ Rows(db') = {} /\ calls' > calls
        \/ start.at = Delete /\ \E j \in DOMAIN start.moves : start.moves[j] = i]_vars
  BY DEF Forgotten
<1> QED BY <1>1, <1>2, <1>4, <1>5, StoreSound, PTL DEF Spec, GoneMeansForgotten
=============================================================================
