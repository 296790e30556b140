------------------------------ MODULE FileProofs -----------------------------
(***************************************************************************)
(* base::File: for all processes, names, inodes and objects, and every     *)
(* finite set of descriptors, whatever the functions of file.cc do and     *)
(* wherever they fail, descriptors have one owner each (FilesAreOwned).    *)
(* And whatever one Read or Write moves in how many system calls, it is in *)
(* a row and as long as the call returns (TransfersAreTrue).               *)
(* base::ScopedTempDir: for all objects and names, whatever other programs *)
(* do to the directories that callers name, directories made for objects   *)
(* have one owner each (NothingLeftBehind) and objects one directory until *)
(* Delete or Take (EstablishedOnce).                                       *)
(* DeleteFile: for all trees, processes and orders of readdir, whatever    *)
(* others delete and which files come and go, it returns true only when    *)
(* the path is gone, and touches nothing behind a link (TreesAreTrue).     *)
(***************************************************************************)
EXTENDS File, ScopedTempDir, DirTree, FiniteSetTheorems, SequenceTheorems, WellFoundedInduction, TLAPS

-----------------------------------------------------------------------------
\* Numbers: the kernel can give out the lowest free descriptor.
LEMMA LeastExists ==
  ASSUME NEW T, T \subseteq Nat, T # {}
  PROVE  \E d \in T : \A e \in T : d <= e
<1> DEFINE R == OpToRel(<, Nat)
<1>1. PICK d \in T : \A e \in T : ~(<<e, d>> \in R)
  BY NatLessThanWellFounded, WFMin
<1>2. R = {x \in Nat \X Nat : x[1] < x[2]}
  BY Zenon DEF OpToRel
<1> HIDE DEF R
<1>3. ASSUME NEW e \in T PROVE d <= e
  <2>1. <<e, d>> \in R <=> e < d
    BY <1>2
  <2> QED
    BY <1>1, <2>1
<1> QED
  BY <1>3

LEMMA LowestIsFree ==
  ASSUME FileAssumption, FileTypeOK, NEW p \in Procs, FreeFds(p) # {}
  PROVE  FirstFree(p) \in FreeFds(p)
<1>1. FreeFds(p) \subseteq Nat
  BY DEF FileAssumption, FreeFds
<1>2. \E d \in FreeFds(p) : \A e \in FreeFds(p) : d <= e
  BY <1>1, LeastExists
<1> QED
  BY <1>2 DEF FirstFree

\* The descriptors on a description are finitely many.
LEMMA OnFinite ==
  ASSUME FileAssumption, NEW k
  PROVE  /\ IsFiniteSet(DescriptorsOn(k)) /\ Cardinality(DescriptorsOn(k)) \in Nat
         /\ Cardinality(DescriptorsOn(k)) = 0 <=> DescriptorsOn(k) = {}
<1>1. DescriptorsOn(k) \subseteq Fds /\ IsFiniteSet(Fds)
  BY DEF DescriptorsOn, FileAssumption
<1>2. IsFiniteSet(DescriptorsOn(k))
  BY <1>1, FS_Subset
<1> QED
  BY <1>2, FS_EmptySet, FS_CardinalityType

\* A process that has a free descriptor has room for another description: each of those it
\* has is that of some descriptor.
LEMMA RoomForDescription ==
  ASSUME FileAssumption, FileInv, NEW p \in Procs, FreeFds(p) # {}
  PROVE  \E k \in {p} \X Fds : desc[k].refs = 0
<1> SUFFICES ASSUME \A k \in {p} \X Fds : desc[k].refs # 0 PROVE FALSE
  OBVIOUS
<1> DEFINE open == {d \in Fds : fdtab[p][d] # None}
           f == [d \in open |-> fdtab[p][d][2]]
<1>1. IsFiniteSet(Fds) /\ open \subseteq Fds /\ open # Fds
  BY DEF FileAssumption, FreeFds
<1>2. IsFiniteSet(open) /\ Cardinality(open) < Cardinality(Fds)
  BY <1>1, FS_Subset, FS_CardinalityType
<1>3. ASSUME NEW d \in open PROVE f[d] \in Fds
  BY DEF FileInv, FileTypeOK, Descs
<1>4. ASSUME NEW e \in Fds PROVE \E d \in open : f[d] = e
  <2>1. <<p, e>> \in {p} \X Fds /\ <<p, e>> \in Descs
    BY DEF Descs
  <2>2. Cardinality(DescriptorsOn(<<p, e>>)) # 0
    BY <2>1 DEF FileInv, DescriptionsCounted
  <2>3. PICK d \in Fds : fdtab[p][d] = <<p, e>>
    BY <2>2, OnFinite DEF DescriptorsOn
  <2>4. <<p, e>> # None
    BY <2>1 DEF FileAssumption
  <2>5. d \in open
    BY <2>3, <2>4
  <2>6. f[d] = <<p, e>>[2]
    BY <2>3, <2>5
  <2> QED
    BY <2>5, <2>6
<1> HIDE DEF f, open
<1>5. f \in [open -> Fds]
  BY <1>3 DEF f
<1>6. f \in Surjection(open, Fds)
  BY <1>4, <1>5 DEF Surjection
<1>7. Cardinality(Fds) <= Cardinality(open)
  BY <1>2, <1>6, FS_Surjection
<1> QED
  BY <1>1, <1>2, <1>7, FS_CardinalityType

\* What a call of open that succeeds has found.
LEMMA OpenFinds ==
  ASSUME NEW p, NEW name, NEW how, OpenError(p, name, how) = "OK"
  PROVE  /\ how.excl => dir[name] = None
         /\ FreeFds(p) # {}
         /\ dir[name] = None => \E i \in Inodes : i \notin Used
BY DEF OpenError

-----------------------------------------------------------------------------
\* A descriptor d of p is opened on description k: the table, and the counts.
NewDescriptor(p, d, k) ==
    /\ d \in FreeFds(p) /\ k \in Descs /\ k[1] = p
    /\ fdtab' = [fdtab EXCEPT ![p][d] = k]

LEMMA TableAfterNew ==
  ASSUME FileAssumption, FileInv, NEW p \in Procs, NEW d, NEW k, NewDescriptor(p, d, k)
  PROVE  /\ fdtab' \in [Procs -> [Fds -> Descs \cup {None}]]
         /\ d \in Fds /\ fdtab[p][d] = None /\ fdtab'[p][d] = k /\ k # None
         /\ \A e \in Fds \ {d} : fdtab'[p][e] = fdtab[p][e]
         /\ \A q \in Procs \ {p} : fdtab'[q] = fdtab[q]
<1>1. fdtab \in [Procs -> [Fds -> Descs \cup {None}]]
  BY DEF FileInv, FileTypeOK
<1>2. d \in Fds /\ fdtab[p][d] = None /\ k \in Descs /\ k # None
  BY DEF NewDescriptor, FreeFds, FileAssumption
<1>3. fdtab' = [fdtab EXCEPT ![p] = [fdtab[p] EXCEPT ![d] = k]]
  BY DEF NewDescriptor
<1>4. fdtab[p] \in [Fds -> Descs \cup {None}]
  BY <1>1
<1> QED
  BY <1>1, <1>2, <1>3, <1>4

LEMMA CountsAfterNew ==
  ASSUME FileAssumption, FileInv, NEW p \in Procs, NEW d, NEW k, NewDescriptor(p, d, k)
  PROVE  /\ Cardinality(DescriptorsOn(k)') = Cardinality(DescriptorsOn(k)) + 1
         /\ \A j \in Descs \ {k} : DescriptorsOn(j)' = DescriptorsOn(j)
<1>1. k \in Descs /\ k[1] = p
  BY DEF NewDescriptor
<1>2. DescriptorsOn(k)' = DescriptorsOn(k) \cup {d} /\ d \notin DescriptorsOn(k)
  BY <1>1, TableAfterNew DEF DescriptorsOn
<1>3. ASSUME NEW j \in Descs \ {k} PROVE DescriptorsOn(j)' = DescriptorsOn(j)
  <2>1. j[1] \in Procs /\ j # None
    BY DEF Descs, FileAssumption
  <2>2. ASSUME NEW e \in Fds PROVE fdtab'[j[1]][e] = j <=> fdtab[j[1]][e] = j
    <3>1. CASE j[1] = p /\ e = d
      BY <2>1, <3>1, TableAfterNew
    <3>2. CASE j[1] # p \/ e # d
      BY <2>1, <3>2, TableAfterNew
    <3> QED BY <3>1, <3>2
  <2> QED BY <2>2 DEF DescriptorsOn
<1>4. IsFiniteSet(DescriptorsOn(k))
  BY OnFinite
<1> QED
  BY <1>2, <1>3, <1>4, FS_AddElement

\* A File o of p that was invalid is that descriptor's: every descriptor has its File.
LEMMA FilesAfterNew ==
  ASSUME FileAssumption, FileInv, NEW p \in Procs, NEW o \in Objects, NEW d, NEW k,
         NewDescriptor(p, d, k), ~Valid(p, o), NEW c \in BOOLEAN, Opened(p, o, d, c)
  PROVE  /\ file' \in [Procs -> [Objects -> [fd : Fds \cup {None}, error : Errors,
                                             created : BOOLEAN]]]
         /\ \A q \in Procs \ {p} : file'[q] = file[q]
         /\ ValidIsOpen' /\ FileOfEach'
<1> DEFINE Record == [fd : Fds \cup {None}, error : Errors, created : BOOLEAN]
           new == [fd |-> d, error |-> "OK", created |-> c]
<1>1. file \in [Procs -> [Objects -> Record]]
  BY DEF FileInv, FileTypeOK
<1>2. d \in Fds /\ fdtab[p][d] = None /\ d # None
  BY TableAfterNew DEF FileAssumption
<1>3. new \in Record /\ new.fd = d /\ new.error = "OK"
  <2>1. d \in Fds \cup {None} /\ "OK" \in Errors
    BY <1>2 DEF Errors
  <2>2. new \in Record
    BY <2>1, Zenon
  <2> QED BY <2>2
<1>4. file' = [file EXCEPT ![p] = [file[p] EXCEPT ![o] = new]]
  BY DEF Opened
<1> HIDE DEF Record, new
<1>5. /\ file' \in [Procs -> [Objects -> Record]]
      /\ file'[p][o] = new /\ \A r \in Objects \ {o} : file'[p][r] = file[p][r]
      /\ \A q \in Procs \ {p} : file'[q] = file[q]
  BY <1>1, <1>3, <1>4
<1>6. ASSUME NEW r \in Objects PROVE file[p][r].fd # d
  BY <1>2 DEF FileInv, ValidIsOpen, Valid
<1>7. ASSUME NEW q \in Procs, NEW r \in Objects, Valid(q, r)'
      PROVE  fdtab'[q][file'[q][r].fd] # None /\ file'[q][r].error = "OK"
  <2>1. CASE q = p /\ r = o
    BY <1>3, <1>5, <2>1, TableAfterNew
  <2>2. CASE q # p \/ r # o
    <3>1. file'[q][r] = file[q][r] /\ Valid(q, r)
      BY <1>5, <1>7, <2>2 DEF Valid
    <3>2. fdtab[q][file[q][r].fd] # None /\ file[q][r].error = "OK"
      BY <3>1 DEF FileInv, ValidIsOpen
    <3>3. file[q][r].fd \in Fds
      BY <1>1, <3>1 DEF Valid, Record
    <3>4. q = p => file[q][r].fd # d
      BY <1>6
    <3>5. fdtab'[q][file[q][r].fd] = fdtab[q][file[q][r].fd]
      BY <3>3, <3>4, TableAfterNew
    <3> QED BY <3>1, <3>2, <3>5
  <2> QED BY <2>1, <2>2
<1>8. ASSUME NEW q \in Procs, NEW e \in Fds, fdtab'[q][e] # None
      PROVE  \E r \in Objects : /\ file'[q][r].fd = e
                                /\ \A x \in Objects : file'[q][x].fd = e => x = r
  <2>1. CASE q = p /\ e = d
    BY <1>3, <1>5, <1>6, <2>1
  <2>2. CASE q # p \/ e # d
    <3>1. fdtab[q][e] # None
      BY <1>8, <2>2, TableAfterNew
    <3>2. PICK r \in Objects : /\ file[q][r].fd = e
                               /\ \A x \in Objects : file[q][x].fd = e => x = r
      BY <3>1 DEF FileInv, FileOfEach
    <3>3. e # None
      BY DEF FileAssumption
    <3>4. q = p => r # o /\ file'[q][o].fd # e
      BY <1>3, <1>5, <2>2, <3>2, <3>3 DEF Valid
    <3>5. file'[q][r] = file[q][r] /\ \A x \in Objects : file'[q][x].fd = e => file[q][x].fd = e
      BY <1>5, <3>4
    <3> QED BY <3>2, <3>5
  <2> QED BY <2>1, <2>2
<1>9. ValidIsOpen' /\ FileOfEach'
  BY <1>7, <1>8 DEF ValidIsOpen, FileOfEach
<1> QED
  BY <1>5, <1>9 DEF Record

\* One process moves at a time: the calls of the others go on.
LEMMA CallsKept ==
  ASSUME FileInv, NEW p \in Procs, InCall(p)',
         \A q \in Procs \ {p} : call'[q] = call[q] /\ file'[q] = file[q]
  PROVE  \A q \in Procs : InCall(q)'
<1>1. ASSUME NEW q \in Procs \ {p} PROVE InCall(q)'
  BY DEF FileInv, FileTypeOK, InCall, Valid
<1> QED
  BY <1>1

-----------------------------------------------------------------------------
\* open(2): the new descriptor, its description and the inode.
LEMMA OpenDoes ==
  ASSUME FileAssumption, FileInv, NEW p \in Procs, NEW name \in Names, NEW how, NEW append,
         OpenError(p, name, how) = "OK", OpenEffect(p, name, how, append)
  PROVE  \E k \in Descs, ino \in Inodes :
            /\ NewDescriptor(p, FirstFree(p), k)
            /\ desc[k].refs = 0
            /\ desc' = [desc EXCEPT ![k] = [ino |-> ino, pos |-> 0, append |-> append, refs |-> 1]]
            /\ dir' = [dir EXCEPT ![name] = ino]
            /\ IF dir[name] = None THEN ino \notin Used ELSE ino = dir[name]
<1> DEFINE d == FirstFree(p)
           k == CHOOSE k \in {p} \X Fds : desc[k].refs = 0
           ino == IF dir[name] # None THEN dir[name] ELSE CHOOSE i \in Inodes \ Used : TRUE
<1>1. FileTypeOK
  BY DEF FileInv
<1>2. d \in FreeFds(p)
  BY <1>1, OpenFinds, LowestIsFree
<1>3. k \in {p} \X Fds /\ desc[k].refs = 0
  BY OpenFinds, RoomForDescription
<1>4. k \in Descs /\ k[1] = p
  BY <1>3 DEF Descs
<1>5. ino \in Inodes /\ IF dir[name] = None THEN ino \notin Used ELSE ino = dir[name]
  <2>1. CASE dir[name] = None
    BY <2>1, OpenFinds
  <2>2. CASE dir[name] # None
    BY <1>1, <2>2 DEF FileTypeOK
  <2> QED BY <2>1, <2>2
<1>6. /\ dir' = [dir EXCEPT ![name] = ino]
      /\ desc' = [desc EXCEPT ![k] = [ino |-> ino, pos |-> 0, append |-> append, refs |-> 1]]
      /\ fdtab' = [fdtab EXCEPT ![p][d] = k]
  BY DEF OpenEffect
<1> HIDE DEF d, k, ino
<1>7. NewDescriptor(p, d, k)
  BY <1>2, <1>4, <1>6 DEF NewDescriptor
<1> QED
  BY <1>3, <1>4, <1>5, <1>6, <1>7 DEF d

\* ... after which descriptions count their descriptors again.
LEMMA DescriptionsAfterOpen ==
  ASSUME FileAssumption, FileInv, NEW p \in Procs, NEW d, NEW k \in Descs, NEW ino \in Inodes,
         NEW append, NewDescriptor(p, d, k), desc[k].refs = 0,
         desc' = [desc EXCEPT ![k] = [ino |-> ino, pos |-> 0, append |-> append, refs |-> 1]]
  PROVE  /\ DescriptionsCounted' /\ DOMAIN desc' = Descs
         /\ \A j \in Descs : /\ DOMAIN desc'[j] = {"ino", "pos", "append", "refs"}
                             /\ desc'[j].ino \in Inodes \cup {None} /\ desc'[j].refs \in Nat
<1>1. FileTypeOK /\ DescriptionsCounted
  BY DEF FileInv
<1> DEFINE new == [ino |-> ino, pos |-> 0, append |-> append, refs |-> 1]
<1>2. new.ino = ino /\ new.refs = 1 /\ DOMAIN new = {"ino", "pos", "append", "refs"}
  OBVIOUS
<1> HIDE DEF new
<1>3. DOMAIN desc' = Descs /\ desc'[k] = new /\ \A j \in Descs \ {k} : desc'[j] = desc[j]
  BY <1>1 DEF FileTypeOK, new
<1>4. DescriptorsOn(k) = {} /\ Cardinality(DescriptorsOn(k)) = 0
  BY <1>1, OnFinite DEF DescriptionsCounted
<1>5. Cardinality(DescriptorsOn(k)') = 1
  BY <1>4, CountsAfterNew
<1>6. ASSUME NEW j \in Descs
      PROVE  /\ desc'[j].refs = Cardinality(DescriptorsOn(j)')
             /\ DOMAIN desc'[j] = {"ino", "pos", "append", "refs"}
             /\ desc'[j].ino \in Inodes \cup {None} /\ desc'[j].refs \in Nat
  <2>1. CASE j = k
    BY <1>2, <1>3, <1>5, <2>1
  <2>2. CASE j # k
    BY <1>1, <1>3, <2>2, CountsAfterNew DEF FileTypeOK, DescriptionsCounted
  <2> QED BY <2>1, <2>2
<1>7. ASSUME NEW q \in Procs, NEW e \in Fds, fdtab'[q][e] # None
      PROVE  fdtab'[q][e][1] = q /\ Inode(q, e)' \in Inodes
  <2>1. CASE q = p /\ e = d
    <3>1. fdtab'[q][e] = k
      BY <2>1, TableAfterNew
    <3>2. k[1] = q
      BY <2>1 DEF NewDescriptor
    <3>3. Inode(q, e)' = ino
      BY <1>2, <1>3, <3>1 DEF Inode
    <3> QED BY <3>1, <3>2, <3>3
  <2>2. CASE q # p \/ e # d
    <3>1. fdtab'[q][e] = fdtab[q][e] /\ fdtab[q][e] # None
      BY <1>7, <2>2, TableAfterNew
    <3>2. fdtab[q][e] \in Descs /\ fdtab[q][e][1] = q /\ Inode(q, e) \in Inodes
      BY <1>1, <3>1 DEF FileTypeOK, DescriptionsCounted
    <3>3. fdtab[q][e] # k
      BY <1>4, <3>2 DEF DescriptorsOn
    <3> QED BY <1>3, <3>1, <3>2, <3>3 DEF Inode
  <2> QED BY <2>1, <2>2
<1>8. DescriptionsCounted'
  BY <1>6, <1>7 DEF DescriptionsCounted
<1> QED
  BY <1>3, <1>6, <1>8

\* ... and who claims to have created the file did.
LEMMA CreatorsAfterOpen ==
  ASSUME FileAssumption, FileInv, NEW p \in Procs, NEW name \in Names, NEW ino \in Inodes,
         NEW mode, NEW created, Claims(p, name, mode, created),
         dir' = [dir EXCEPT ![name] = ino],
         IF dir[name] = None THEN ino \notin Used ELSE ino = dir[name],
         created /\ mode \in {"CREATE", "OPEN_ALWAYS_EXCLUSIVE"} => dir[name] = None
  PROVE  /\ dir' \in [Names -> Inodes \cup {None}] /\ maker' \subseteq Procs \X Inodes
         /\ CreatedIsNamed' /\ OneExclusiveCreator'
<1>1. /\ dir \in [Names -> Inodes \cup {None}] /\ maker \subseteq Procs \X Inodes
      /\ CreatedIsNamed /\ OneExclusiveCreator
  BY DEF FileInv, FileTypeOK
<1>2. /\ dir' \in [Names -> Inodes \cup {None}]
      /\ dir'[name] = ino /\ \A n \in Names \ {name} : dir'[n] = dir[n]
  BY <1>1
<1>3. \A m \in maker : m[2] \in Inodes /\ m[2] # None
  BY <1>1 DEF FileAssumption
<1>4. ASSUME NEW m \in maker PROVE \E n \in Names : dir'[n] = m[2]
  <2>1. PICK n \in Names : dir[n] = m[2]
    BY <1>1 DEF CreatedIsNamed
  <2>2. CASE n = name
    BY <1>2, <1>3, <2>1, <2>2
  <2>3. CASE n # name
    BY <1>2, <2>1, <2>3
  <2> QED BY <2>2, <2>3
<1>5. CASE maker' = maker
  BY <1>1, <1>2, <1>4, <1>5 DEF CreatedIsNamed, OneExclusiveCreator
<1>6. CASE maker' = maker \cup {<<p, ino>>} /\ dir[name] = None
  <2>1. ASSUME NEW m \in maker PROVE m[2] # ino
    BY <1>1, <1>6 DEF CreatedIsNamed, Used
  <2>2. maker' \subseteq Procs \X Inodes
    BY <1>1, <1>6
  <2>3. CreatedIsNamed'
    BY <1>2, <1>4, <1>6 DEF CreatedIsNamed
  <2>4. ASSUME NEW m \in maker', NEW n \in maker', m[2] = n[2] PROVE m = n
    BY <1>1, <1>6, <2>1, <2>4 DEF OneExclusiveCreator
  <2> QED BY <1>2, <2>2, <2>3, <2>4 DEF OneExclusiveCreator
<1>7. maker' = maker \/ (maker' = maker \cup {<<p, ino>>} /\ dir[name] = None)
  BY <1>2 DEF Claims
<1> QED
  BY <1>5, <1>6, <1>7

\* An open that succeeds, at the first call or at the second.
LEMMA OpenKeeps ==
  ASSUME FileAssumption, FileInv, NEW p \in Procs, NEW o \in Objects, NEW name \in Names,
         NEW how, NEW append, NEW mode, NEW created \in BOOLEAN,
         ~Valid(p, o), OpenError(p, name, how) = "OK", OpenEffect(p, name, how, append),
         Opened(p, o, FirstFree(p), created), Claims(p, name, mode, created),
         created /\ mode \in {"CREATE", "OPEN_ALWAYS_EXCLUSIVE"} => how.excl,
         alone' = alone, DOMAIN call' = Procs, call'[p] = Idle,
         \A q \in Procs \ {p} : call'[q] = call[q]
  PROVE  FileInv'
<1> DEFINE d == FirstFree(p)
<1>1. PICK k \in Descs, ino \in Inodes :
         /\ NewDescriptor(p, d, k)
         /\ desc[k].refs = 0
         /\ desc' = [desc EXCEPT ![k] = [ino |-> ino, pos |-> 0, append |-> append, refs |-> 1]]
         /\ dir' = [dir EXCEPT ![name] = ino]
         /\ IF dir[name] = None THEN ino \notin Used ELSE ino = dir[name]
  BY OpenDoes
<1> HIDE DEF d
<1>2. Opened(p, o, d, created)
  BY DEF d
<1>3. created /\ mode \in {"CREATE", "OPEN_ALWAYS_EXCLUSIVE"} => dir[name] = None
  BY OpenFinds
<1>4. /\ fdtab' \in [Procs -> [Fds -> Descs \cup {None}]]
  BY <1>1, TableAfterNew
<1>5. /\ DescriptionsCounted' /\ DOMAIN desc' = Descs
      /\ \A j \in Descs : /\ DOMAIN desc'[j] = {"ino", "pos", "append", "refs"}
                          /\ desc'[j].ino \in Inodes \cup {None} /\ desc'[j].refs \in Nat
  BY <1>1, DescriptionsAfterOpen
<1>6. /\ file' \in [Procs -> [Objects -> [fd : Fds \cup {None}, error : Errors,
                                          created : BOOLEAN]]]
      /\ \A q \in Procs \ {p} : file'[q] = file[q]
      /\ ValidIsOpen' /\ FileOfEach'
  BY <1>1, <1>2, FilesAfterNew
<1>7. /\ dir' \in [Names -> Inodes \cup {None}] /\ maker' \subseteq Procs \X Inodes
      /\ CreatedIsNamed' /\ OneExclusiveCreator'
  BY <1>1, <1>3, CreatorsAfterOpen
<1>8. lock' = lock /\ GrantedIsHeld'
  BY DEF FileInv, GrantedIsHeld, OpenEffect
<1>9. \A q \in Procs : InCall(q)'
  <2>1. InCall(p)'
    BY DEF InCall
  <2> QED BY <1>6, <2>1, CallsKept
<1>10. FileTypeOK'
  BY <1>4, <1>5, <1>6, <1>7, <1>8, <1>9 DEF FileInv, FileTypeOK
<1> QED
  BY <1>5, <1>6, <1>7, <1>8, <1>10 DEF FileInv

\* A step of p that opens, closes, locks and moves nothing.
DescriptionsStay ==
    /\ DOMAIN desc' = Descs
    /\ \A k \in Descs : /\ DOMAIN desc'[k] = {"ino", "pos", "append", "refs"}
                        /\ desc'[k].ino = desc[k].ino /\ desc'[k].refs = desc[k].refs
FilesStay(p) ==
    /\ file' \in [Procs -> [Objects -> [fd : Fds \cup {None}, error : Errors,
                                        created : BOOLEAN]]]
    /\ \A q \in Procs \ {p} : file'[q] = file[q]
    /\ \A o \in Objects : /\ file'[p][o].fd = file[p][o].fd
                          /\ Valid(p, o) => file'[p][o].error = file[p][o].error

LEMMA QuietKeeps ==
  ASSUME FileInv, NEW p \in Procs, UNCHANGED <<dir, fdtab, lock, alone, maker>>,
         DescriptionsStay, FilesStay(p), DOMAIN call' = Procs,
         \A q \in Procs \ {p} : call'[q] = call[q], InCall(p)'
  PROVE  FileInv'
<1>1. \A q \in Procs : InCall(q)'
  BY CallsKept DEF FilesStay
<1>2. FileTypeOK'
  BY <1>1 DEF FileInv, FileTypeOK, FilesStay, DescriptionsStay
<1>3. ASSUME NEW q \in Procs, NEW o \in Objects
      PROVE  file'[q][o].fd = file[q][o].fd /\ (Valid(q, o) => file'[q][o].error = file[q][o].error)
  BY DEF FilesStay
<1>4. ValidIsOpen' /\ FileOfEach'
  BY <1>3 DEF FileInv, ValidIsOpen, FileOfEach, Valid
<1>5. DescriptionsCounted'
  <2>1. \A k \in Descs : DescriptorsOn(k)' = DescriptorsOn(k)
    BY DEF DescriptorsOn
  <2>2. \A q \in Procs, e \in Fds : fdtab[q][e] # None => fdtab[q][e] \in Descs
    BY DEF FileInv, FileTypeOK
  <2> QED BY <2>1, <2>2 DEF FileInv, DescriptionsCounted, DescriptionsStay, Inode
<1>6. GrantedIsHeld' /\ CreatedIsNamed' /\ OneExclusiveCreator'
  BY DEF FileInv, GrantedIsHeld, CreatedIsNamed, OneExclusiveCreator
<1> QED
  BY <1>2, <1>4, <1>5, <1>6 DEF FileInv

\* Nothing but a position changes ...
LEMMA MovingStays ==
  ASSUME FileInv, NEW k, NEW at, desc' = [desc EXCEPT ![k].pos = at]
  PROVE  DescriptionsStay
<1>1. /\ DOMAIN desc = Descs
      /\ \A j \in Descs : DOMAIN desc[j] = {"ino", "pos", "append", "refs"}
  BY DEF FileInv, FileTypeOK
<1>2. DOMAIN desc' = Descs
  BY <1>1
<1>3. ASSUME NEW j \in Descs
      PROVE  /\ DOMAIN desc'[j] = {"ino", "pos", "append", "refs"}
             /\ desc'[j].ino = desc[j].ino /\ desc'[j].refs = desc[j].refs
  <2>1. CASE j = k
    <3>1. desc'[j] = [desc[j] EXCEPT !.pos = at]
      BY <1>1, <2>1
    <3> QED BY <1>1, <3>1
  <2>2. CASE j # k
    <3>1. desc'[j] = desc[j]
      BY <1>1, <2>2
    <3> QED BY <1>1, <3>1
  <2> QED BY <2>1, <2>2
<1> QED
  BY <1>2, <1>3 DEF DescriptionsStay

\* ... or not even that.
LEMMA NothingStays ==
  ASSUME FileInv
  PROVE  /\ desc' = desc => DescriptionsStay
         /\ file' = file => \A p \in Procs : FilesStay(p)
         /\ call' = call => DOMAIN call' = Procs /\ \A p \in Procs : file' = file => InCall(p)'
BY DEF FileInv, FileTypeOK, DescriptionsStay, FilesStay, InCall, Valid

LEMMA ErrorsAreErrors == \A err : OSErrorToFileError(err) \in Errors
BY DEF OSErrorToFileError, Errors

\* A File that was invalid stays so, with another error.
LEMMA FailureStays ==
  ASSUME FileInv, NEW p \in Procs, NEW o \in Objects, ~Valid(p, o), NEW error \in Errors,
         file' = [file EXCEPT ![p][o] = Invalid(error)]
  PROVE  FilesStay(p)
<1> DEFINE Record == [fd : Fds \cup {None}, error : Errors, created : BOOLEAN]
           new == Invalid(error)
<1>1. file \in [Procs -> [Objects -> Record]]
  BY DEF FileInv, FileTypeOK
<1>2. new \in Record /\ new.fd = None
  BY DEF Invalid
<1>3. file' = [file EXCEPT ![p] = [file[p] EXCEPT ![o] = new]]
  OBVIOUS
<1> HIDE DEF Record, new
<1>4. /\ file' \in [Procs -> [Objects -> Record]]
      /\ file'[p][o] = new /\ \A r \in Objects \ {o} : file'[p][r] = file[p][r]
      /\ \A q \in Procs \ {p} : file'[q] = file[q]
  BY <1>1, <1>2, <1>3
<1>5. ASSUME NEW r \in Objects
      PROVE  file'[p][r].fd = file[p][r].fd /\ (Valid(p, r) => file'[p][r].error = file[p][r].error)
  BY <1>2, <1>4 DEF Valid
<1> QED
  BY <1>4, <1>5 DEF FilesStay, Record

\* Begin, SysCall, Seek and SetLength: bytes move, and nothing else.
LEMMA BytesKeep ==
  ASSUME FileInv, NEW p \in Procs, UNCHANGED <<dir, fdtab, lock, file, alone, maker>>,
         DescriptionsStay, DOMAIN call' = Procs,
         \A q \in Procs \ {p} : call'[q] = call[q], InCall(p)'
  PROVE  FileInv'
BY QuietKeeps, NothingStays

LEMMA SeekKeeps ==
  ASSUME FileInv, NEW p \in Procs, NEW o \in Objects, NEW at, Seek(p, o, at)
  PROVE  FileInv'
<1>1. DescriptionsStay
  BY MovingStays DEF Seek
<1>2. UNCHANGED <<dir, fdtab, lock, file, alone, maker, call>>
  BY DEF Seek, hist
<1> QED
  BY <1>1, <1>2, BytesKeep, NothingStays

LEMMA SetLengthKeeps ==
  ASSUME FileInv, NEW p \in Procs, NEW o \in Objects, NEW n, SetLength(p, o, n)
  PROVE  FileInv'
<1>1. UNCHANGED <<dir, fdtab, lock, file, alone, maker, call, desc>>
  BY DEF SetLength, hist
<1> QED
  BY <1>1, BytesKeep, NothingStays

LEMMA BeginKeeps ==
  ASSUME FileInv, NEW p \in Procs, NEW o \in Objects, NEW op \in {"read", "write"}, NEW at, NEW n,
         NEW loops, Begin(p, o, op, at, n, loops)
  PROVE  FileInv'
<1>1. UNCHANGED <<dir, fdtab, lock, file, alone, maker, desc>>
  BY DEF Begin, disk
<1> DEFINE c == [op |-> op, fd |-> file[p][o].fd, size |-> n, loops |-> loops, done |-> <<>>,
                 at |-> IF op = "write" /\ desc[fdtab[p][file[p][o].fd]].append THEN None ELSE at]
<1>2. /\ call' = [call EXCEPT ![p] = c]
      /\ "op" \in DOMAIN c /\ c.op = op
  BY DEF Begin
<1> HIDE DEF c
<1>3. DOMAIN call' = Procs /\ call'[p] = c /\ \A q \in Procs \ {p} : call'[q] = call[q]
  BY <1>2 DEF FileInv, FileTypeOK
<1>4. InCall(p)'
  BY <1>2, <1>3 DEF InCall
<1> QED
  BY <1>1, <1>3, <1>4, BytesKeep, NothingStays

\* One turn of the loop of a Read or Write, or its end.
LEMMA TurnKeepsCalls ==
  ASSUME FileInv, NEW p \in Procs, call[p].op \in {"read", "write"}, NEW rv, NEW from,
         Turn(p, rv, from)
  PROVE  DOMAIN call' = Procs /\ InCall(p)' /\ \A q \in Procs \ {p} : call'[q] = call[q]
<1>1. DOMAIN call = Procs /\ InCall(p)
  BY DEF FileInv, FileTypeOK
<1>2. CASE call' = [call EXCEPT ![p] = Idle]
  BY <1>1, <1>2 DEF InCall
<1>3. ASSUME NEW done, call' = [call EXCEPT ![p].done = done]
      PROVE  DOMAIN call' = Procs /\ InCall(p)' /\ \A q \in Procs \ {p} : call'[q] = call[q]
  <2>1. "op" \in DOMAIN call[p]
    BY <1>1 DEF InCall, Idle
  <2>2. /\ DOMAIN call' = Procs /\ \A q \in Procs \ {p} : call'[q] = call[q]
        /\ call'[p] = [call[p] EXCEPT !.done = done]
    BY <1>1, <1>3
  <2>3. "op" \in DOMAIN call'[p] /\ call'[p].op = call[p].op
    BY <2>1, <2>2
  <2> QED BY <2>2, <2>3 DEF InCall
<1>4. call' = [call EXCEPT ![p] = Idle] \/ \E done : call' = [call EXCEPT ![p].done = done]
  BY DEF Turn
<1> QED
  BY <1>2, <1>3, <1>4

LEMMA SysCallKeeps ==
  ASSUME FileInv, NEW p \in Procs, SysCall(p)
  PROVE  FileInv'
<1>1. UNCHANGED <<dir, fdtab, lock, file, alone, maker>> /\ call[p].op \in {"read", "write"}
  BY DEF SysCall
<1>2. /\ \E rv, from : Turn(p, rv, from)
      /\ desc' = desc \/ \E k, at : desc' = [desc EXCEPT ![k].pos = at]
  BY DEF SysCall
<1>3. DescriptionsStay
  BY <1>2, MovingStays, NothingStays
<1>4. DOMAIN call' = Procs /\ InCall(p)' /\ \A q \in Procs \ {p} : call'[q] = call[q]
  BY <1>1, <1>2, TurnKeepsCalls
<1> QED
  BY <1>1, <1>3, <1>4, BytesKeep

-----------------------------------------------------------------------------
\* Opening.
LEMMA InitializeKeeps ==
  ASSUME FileAssumption, FileInv, NEW p \in Procs, NEW o \in Objects, NEW name \in Names, NEW f,
         Initialize(p, o, name, f)
  PROVE  FileInv'
<1> DEFINE how == FirstOpen(f.open)
           err == OpenError(p, name, how)
<1>1. call[p] = Idle /\ ~Valid(p, o)
  BY DEF Initialize
<1>2. CASE /\ err = "OK" /\ OpenEffect(p, name, how, f.append)
           /\ Opened(p, o, FirstFree(p), CreatesSurely(f.open))
           /\ Claims(p, name, f.open, CreatesSurely(f.open))
           /\ UNCHANGED <<call, spent, last, alone>>
  <2>1. CreatesSurely(f.open) \in BOOLEAN
    BY DEF CreatesSurely
  <2>2. CreatesSurely(f.open) /\ f.open \in {"CREATE", "OPEN_ALWAYS_EXCLUSIVE"} => how.excl
    BY DEF CreatesSurely, FirstOpen
  <2>3. DOMAIN call' = Procs /\ call'[p] = Idle /\ \A q \in Procs \ {p} : call'[q] = call[q]
    BY <1>1, <1>2 DEF FileInv, FileTypeOK
  <2> HIDE DEF how
  <2> QED BY <1>1, <1>2, <2>1, <2>2, <2>3, OpenKeeps
<1>3. CASE /\ file' = [file EXCEPT ![p][o] = Invalid(OSErrorToFileError(err))]
           /\ UNCHANGED <<disk, call, hist, spent>>
  <2>1. FilesStay(p)
    BY <1>1, <1>3, FailureStays, ErrorsAreErrors
  <2>2. InCall(p)'
    BY <1>1, <1>3 DEF InCall
  <2>3. DescriptionsStay /\ DOMAIN call' = Procs
    BY <1>3, NothingStays DEF disk, FileInv, FileTypeOK
  <2> QED BY <1>3, <2>1, <2>2, <2>3, QuietKeeps DEF disk, hist
<1>4. CASE /\ OpensAlways(f.open)
           /\ call' = [call EXCEPT ![p] = [op |-> "open", obj |-> o, name |-> name, flags |-> f]]
           /\ file' = [file EXCEPT ![p][o].created = FALSE]
           /\ UNCHANGED <<disk, hist, spent>>
  <2> DEFINE Record == [fd : Fds \cup {None}, error : Errors, created : BOOLEAN]
             c == [op |-> "open", obj |-> o, name |-> name, flags |-> f]
  <2>1. /\ DOMAIN call' = Procs /\ call'[p] = c
        /\ \A q \in Procs \ {p} : call'[q] = call[q]
    BY <1>4 DEF FileInv, FileTypeOK
  <2>2. file \in [Procs -> [Objects -> Record]]
    BY DEF FileInv, FileTypeOK
  <2>3. PICK new \in Record : /\ new.fd = file[p][o].fd
                              /\ file' = [file EXCEPT ![p] = [file[p] EXCEPT ![o] = new]]
    <3>1. file[p][o] \in Record
      BY <2>2
    <3>2. [file[p][o] EXCEPT !.created = FALSE] \in Record
      BY <3>1
    <3>3. [file[p][o] EXCEPT !.created = FALSE].fd = file[p][o].fd
      BY <3>1
    <3>4. file' = [file EXCEPT ![p] = [file[p] EXCEPT
                                         ![o] = [file[p][o] EXCEPT !.created = FALSE]]]
      BY <1>4
    <3> QED BY <3>2, <3>3, <3>4
  <2> HIDE DEF Record
  <2>4. /\ file' \in [Procs -> [Objects -> Record]]
        /\ file'[p][o] = new /\ \A r \in Objects \ {o} : file'[p][r] = file[p][r]
        /\ \A q \in Procs \ {p} : file'[q] = file[q]
    BY <2>2, <2>3
  <2>5. FilesStay(p)
    <3>1. ASSUME NEW r \in Objects
          PROVE  /\ file'[p][r].fd = file[p][r].fd
                 /\ Valid(p, r) => file'[p][r].error = file[p][r].error
      BY <1>1, <2>3, <2>4 DEF Valid
    <3> QED BY <2>4, <3>1 DEF FilesStay, Record
  <2>6. InCall(p)'
    <3>1. c.op = "open" /\ c.obj = o /\ c.name = name /\ c.flags = f
      OBVIOUS
    <3>2. ~Valid(p, o)'
      BY <1>1, <2>3, <2>4 DEF Valid
    <3> HIDE DEF c
    <3> QED BY <1>4, <2>1, <3>1, <3>2 DEF InCall
  <2>7. DescriptionsStay
    BY <1>4, NothingStays DEF disk
  <2> QED BY <1>4, <2>1, <2>5, <2>6, <2>7, QuietKeeps DEF disk, hist
<1> QED
  BY <1>2, <1>3, <1>4 DEF Initialize

LEMMA OpenAgainKeeps ==
  ASSUME FileAssumption, FileInv, NEW p \in Procs, OpenAgain(p)
  PROVE  FileInv'
<1> DEFINE c == call[p]
           how == SecondOpen(c.flags.open)
           err == OpenError(p, c.name, how)
<1>1. /\ c.op = "open" /\ c.obj \in Objects /\ ~Valid(p, c.obj) /\ c.name \in Names
      /\ OpensAlways(c.flags.open)
  <2>1. c.op = "open"
    BY DEF OpenAgain
  <2>2. InCall(p)
    BY DEF FileInv, FileTypeOK
  <2>3. call[p] # Idle
    BY <2>1 DEF Idle
  <2> HIDE DEF c
  <2> QED BY <2>1, <2>2, <2>3 DEF InCall, c
<1>2. /\ DOMAIN call' = Procs /\ call'[p] = Idle /\ \A q \in Procs \ {p} : call'[q] = call[q]
      /\ alone' = alone
  BY DEF OpenAgain, FileInv, FileTypeOK
<1>3. CASE /\ err = "OK" /\ OpenEffect(p, c.name, how, c.flags.append)
           /\ Opened(p, c.obj, FirstFree(p), TRUE) /\ Claims(p, c.name, c.flags.open, TRUE)
  <2>1. c.flags.open \in {"CREATE", "OPEN_ALWAYS_EXCLUSIVE"} => how.excl
    BY <1>1 DEF OpensAlways, SecondOpen
  <2> HIDE DEF c, how
  <2> QED BY <1>1, <1>2, <1>3, <2>1, OpenKeeps
<1>4. CASE /\ file' = [file EXCEPT ![p][c.obj] = [@ EXCEPT !.error = OSErrorToFileError(err)]]
           /\ UNCHANGED <<disk, maker>>
  <2> DEFINE Record == [fd : Fds \cup {None}, error : Errors, created : BOOLEAN]
             o == c.obj
             new == [file[p][o] EXCEPT !.error = OSErrorToFileError(err)]
  <2>1. file \in [Procs -> [Objects -> Record]]
    BY DEF FileInv, FileTypeOK
  <2>2. new \in Record /\ new.fd = file[p][o].fd
    <3>1. file[p][o] \in Record /\ OSErrorToFileError(err) \in Errors
      BY <1>1, <2>1, ErrorsAreErrors
    <3> HIDE DEF err
    <3> QED BY <3>1
  <2>3. file' = [file EXCEPT ![p] = [file[p] EXCEPT ![o] = new]]
    BY <1>4
  <2>4. o \in Objects /\ ~Valid(p, o)
    BY <1>1
  <2> HIDE DEF Record, new, o
  <2>5. /\ file' \in [Procs -> [Objects -> Record]]
        /\ file'[p][o] = new /\ \A r \in Objects \ {o} : file'[p][r] = file[p][r]
        /\ \A q \in Procs \ {p} : file'[q] = file[q]
    BY <2>1, <2>2, <2>3, <2>4
  <2>6. FilesStay(p)
    <3>1. ASSUME NEW r \in Objects
          PROVE  /\ file'[p][r].fd = file[p][r].fd
                 /\ Valid(p, r) => file'[p][r].error = file[p][r].error
      BY <2>2, <2>4, <2>5 DEF Valid
    <3> QED BY <2>5, <3>1 DEF FilesStay, Record
  <2>7. InCall(p)' /\ DescriptionsStay
    BY <1>2, <1>4, NothingStays DEF InCall, disk
  <2> QED BY <1>2, <1>4, <2>6, <2>7, QuietKeeps DEF disk
<1> QED
  BY <1>3, <1>4 DEF OpenAgain

\* A name goes, and with it the claims to have created its file.
LEMMA UnlinkKeeps ==
  ASSUME FileAssumption, FileInv, NEW name \in Names, Unlink(name)
  PROVE  FileInv'
<1>1. /\ dir' = [dir EXCEPT ![name] = None] /\ maker' = {m \in maker : m[2] # dir[name]}
      /\ UNCHANGED <<desc, fdtab, lock, file, call, alone>>
  BY DEF Unlink
<1>2. CreatedIsNamed'
  <2>1. ASSUME NEW m \in maker' PROVE \E n \in Names : dir'[n] = m[2]
    <3>1. PICK n \in Names : dir[n] = m[2]
      BY <1>1 DEF FileInv, CreatedIsNamed
    <3>2. n # name /\ dir'[n] = dir[n]
      BY <1>1, <3>1 DEF FileInv, FileTypeOK
    <3> QED BY <3>1, <3>2
  <2> QED BY <2>1 DEF CreatedIsNamed
<1>3. OneExclusiveCreator'
  BY <1>1 DEF FileInv, OneExclusiveCreator
<1>4. FileTypeOK'
  BY <1>1 DEF FileInv, FileTypeOK, InCall, Valid
<1>5. ValidIsOpen' /\ FileOfEach' /\ GrantedIsHeld'
  BY <1>1 DEF FileInv, ValidIsOpen, FileOfEach, GrantedIsHeld, Valid
<1>6. DescriptionsCounted'
  BY <1>1 DEF FileInv, DescriptionsCounted, DescriptorsOn, Inode
<1> QED
  BY <1>2, <1>3, <1>4, <1>5, <1>6 DEF FileInv

-----------------------------------------------------------------------------
\* close(2) of a descriptor d of p: the table, the counts, the locks.
LEMMA TableAfterClose ==
  ASSUME FileAssumption, FileInv, NEW p \in Procs, NEW ds, ds \subseteq Fds, CloseEffect(p, ds)
  PROVE  /\ fdtab' \in [Procs -> [Fds -> Descs \cup {None}]]
         /\ \A d \in ds : fdtab'[p][d] = None
         /\ \A e \in Fds \ ds : fdtab'[p][e] = fdtab[p][e]
         /\ \A q \in Procs \ {p} : fdtab'[q] = fdtab[q]
<1>1. fdtab \in [Procs -> [Fds -> Descs \cup {None}]]
  BY DEF FileInv, FileTypeOK
<1> DEFINE row == [d \in Fds |-> IF d \in ds THEN None ELSE fdtab[p][d]]
<1>2. fdtab' = [fdtab EXCEPT ![p] = row]
  BY DEF CloseEffect
<1>3. /\ row \in [Fds -> Descs \cup {None}]
      /\ \A d \in Fds : row[d] = IF d \in ds THEN None ELSE fdtab[p][d]
  BY <1>1
<1> HIDE DEF row
<1>4. fdtab' \in [Procs -> [Fds -> Descs \cup {None}]] /\ fdtab'[p] = row
  BY <1>1, <1>2, <1>3
<1>5. \A q \in Procs \ {p} : fdtab'[q] = fdtab[q]
  BY <1>1, <1>2
<1> QED
  BY <1>3, <1>4, <1>5

\* A lock goes with any descriptor on its file, and who had it granted does not say
\* so any more.
LEMMA LocksAfterClose ==
  ASSUME FileAssumption, FileInv, NEW p \in Procs, NEW ds, ds \subseteq Fds, CloseEffect(p, ds)
  PROVE  /\ lock' \in [Inodes -> Procs \cup {None}] /\ alone' \in [Procs -> SUBSET Inodes]
         /\ GrantedIsHeld'
<1>1. lock \in [Inodes -> Procs \cup {None}] /\ alone \in [Procs -> SUBSET Inodes] /\ GrantedIsHeld
  BY DEF FileInv, FileTypeOK
<1> DEFINE gone == {Inode(p, d) : d \in ds}
<1>2. /\ lock' = [i \in Inodes |-> IF lock[i] = p /\ i \in gone THEN None ELSE lock[i]]
      /\ alone' = [alone EXCEPT ![p] = @ \ gone]
  BY DEF CloseEffect
<1> HIDE DEF gone
<1>3. lock' \in [Inodes -> Procs \cup {None}] /\ alone' \in [Procs -> SUBSET Inodes]
  BY <1>1, <1>2
<1>4. ASSUME NEW q \in Procs, NEW i \in alone'[q] PROVE lock'[i] = q
  <2>1. i \in Inodes /\ i \in alone[q] /\ (q = p => i \notin gone)
    BY <1>1, <1>2
  <2>2. lock[i] = q
    BY <1>1, <2>1 DEF GrantedIsHeld
  <2> QED BY <1>2, <2>1, <2>2
<1> QED
  BY <1>3, <1>4 DEF GrantedIsHeld

\* ... a description goes with its last descriptor.
LEMMA DescriptionsAfterClose ==
  ASSUME FileAssumption, FileInv, NEW p \in Procs, NEW d \in Fds, fdtab[p][d] # None,
         CloseEffect(p, {d})
  PROVE  /\ DescriptionsCounted' /\ DOMAIN desc' = Descs
         /\ \A j \in Descs : /\ DOMAIN desc'[j] = {"ino", "pos", "append", "refs"}
                             /\ desc'[j].ino \in Inodes \cup {None} /\ desc'[j].refs \in Nat
<1>1. FileTypeOK /\ DescriptionsCounted
  BY DEF FileInv
<1>2. PICK k \in Descs : fdtab[p][d] = k /\ k # None /\ k[1] = p
  BY <1>1 DEF FileTypeOK, DescriptionsCounted
<1> DEFINE less == IF desc[k].refs = 1 THEN [desc[k] EXCEPT !.refs = 0, !.ino = None]
                   ELSE [desc[k] EXCEPT !.refs = @ - 1]
<1>3. d \in DescriptorsOn(k) /\ DescriptorsOn(k)' = DescriptorsOn(k) \ {d}
  BY <1>2, TableAfterClose DEF DescriptorsOn
<1>4. /\ Cardinality(DescriptorsOn(k)') = Cardinality(DescriptorsOn(k)) - 1
      /\ desc[k].refs = Cardinality(DescriptorsOn(k)) /\ desc[k].refs \in Nat \ {0}
  <2>1. IsFiniteSet(DescriptorsOn(k))
    BY OnFinite
  <2>2. desc[k].refs = Cardinality(DescriptorsOn(k)) /\ Cardinality(DescriptorsOn(k)) # 0
    BY <1>1, <1>2, <1>3, OnFinite DEF DescriptionsCounted
  <2> QED BY <1>3, <2>1, <2>2, FS_RemoveElement, OnFinite
<1>5. /\ less.refs = desc[k].refs - 1
      /\ DOMAIN less = {"ino", "pos", "append", "refs"}
      /\ less.ino \in Inodes \cup {None}
      /\ desc[k].refs # 1 => less.ino = desc[k].ino
  <2>1. /\ DOMAIN desc[k] = {"ino", "pos", "append", "refs"}
        /\ desc[k].ino \in Inodes \cup {None}
    BY <1>1, <1>2 DEF FileTypeOK
  <2>2. CASE desc[k].refs = 1
    BY <2>1, <2>2
  <2>3. CASE desc[k].refs # 1
    BY <2>1, <2>3
  <2> QED BY <2>2, <2>3
<1>6. desc' = [j \in Descs |-> IF k = j THEN less ELSE desc[j]]
  BY <1>2 DEF CloseEffect
<1> HIDE DEF less
<1>7. ASSUME NEW j \in Descs \ {k} PROVE DescriptorsOn(j)' = DescriptorsOn(j)
  <2>1. j[1] \in Procs /\ j # None
    BY DEF Descs, FileAssumption
  <2>2. ASSUME NEW e \in Fds PROVE fdtab'[j[1]][e] = j <=> fdtab[j[1]][e] = j
    <3>1. CASE j[1] = p /\ e = d
      BY <1>2, <2>1, <3>1, TableAfterClose
    <3>2. CASE j[1] # p \/ e # d
      BY <2>1, <3>2, TableAfterClose
    <3> QED BY <3>1, <3>2
  <2> QED BY <2>2 DEF DescriptorsOn
<1>8. ASSUME NEW j \in Descs
      PROVE  /\ desc'[j].refs = Cardinality(DescriptorsOn(j)')
             /\ DOMAIN desc'[j] = {"ino", "pos", "append", "refs"}
             /\ desc'[j].ino \in Inodes \cup {None} /\ desc'[j].refs \in Nat
  <2>1. CASE j = k
    <3>1. desc'[j] = less
      BY <1>6, <2>1
    <3> QED BY <1>4, <1>5, <2>1, <3>1
  <2>2. CASE j # k
    <3>1. desc'[j] = desc[j]
      BY <1>6, <2>2
    <3> QED BY <1>1, <1>7, <2>2, <3>1 DEF FileTypeOK, DescriptionsCounted
  <2> QED BY <2>1, <2>2
<1>9. ASSUME NEW q \in Procs, NEW e \in Fds, fdtab'[q][e] # None
      PROVE  fdtab'[q][e][1] = q /\ Inode(q, e)' \in Inodes
  <2>1. q # p \/ e # d
    BY <1>9, TableAfterClose
  <2>2. fdtab'[q][e] = fdtab[q][e]
    BY <2>1, TableAfterClose
  <2>3. fdtab[q][e] \in Descs /\ fdtab[q][e][1] = q /\ desc[fdtab[q][e]].ino \in Inodes
    BY <1>1, <1>9, <2>2 DEF FileTypeOK, DescriptionsCounted, Inode
  <2>4. CASE fdtab[q][e] = k
    <3>1. q = p /\ e \in DescriptorsOn(k)'
      BY <1>2, <1>3, <2>1, <2>3, <2>4 DEF DescriptorsOn
    <3>2. Cardinality(DescriptorsOn(k)') # 0
      <4>1. IsFiniteSet(DescriptorsOn(k)')
        BY <1>3, OnFinite, FS_RemoveElement
      <4> QED BY <3>1, <4>1, FS_EmptySet
    <3>3. desc[k].refs # 1
      BY <1>4, <3>2
    <3>4. desc'[k].ino = desc[k].ino
      BY <1>2, <1>5, <1>6, <3>3
    <3> QED BY <2>2, <2>3, <2>4, <3>4 DEF Inode
  <2>5. CASE fdtab[q][e] # k
    <3>1. desc'[fdtab[q][e]] = desc[fdtab[q][e]]
      BY <1>6, <2>3, <2>5
    <3> QED BY <2>2, <2>3, <3>1 DEF Inode
  <2> QED BY <2>4, <2>5
<1>10. DOMAIN desc' = Descs
  BY <1>6
<1> QED
  BY <1>8, <1>9, <1>10 DEF DescriptionsCounted

\* ... and when nothing is closed, nothing happens.
LEMMA DescriptionsAfterNoClose ==
  ASSUME FileAssumption, FileInv, NEW p \in Procs, CloseEffect(p, {})
  PROVE  /\ DescriptionsCounted' /\ DOMAIN desc' = Descs
         /\ \A j \in Descs : /\ DOMAIN desc'[j] = {"ino", "pos", "append", "refs"}
                             /\ desc'[j].ino \in Inodes \cup {None} /\ desc'[j].refs \in Nat
<1>1. FileTypeOK /\ DescriptionsCounted
  BY DEF FileInv
<1>2. desc' = [j \in Descs |-> desc[j]]
  BY DEF CloseEffect
<1>3. DOMAIN desc' = Descs /\ \A j \in Descs : desc'[j] = desc[j]
  BY <1>2
<1>4. \A q \in Procs, e \in Fds : fdtab'[q][e] = fdtab[q][e]
  BY TableAfterClose
<1>5. \A j \in Descs : DescriptorsOn(j)' = DescriptorsOn(j)
  BY <1>4 DEF DescriptorsOn, Descs
<1>6. \A q \in Procs, e \in Fds : fdtab[q][e] # None => fdtab[q][e] \in Descs
  BY <1>1 DEF FileTypeOK
<1> QED
  BY <1>1, <1>3, <1>4, <1>5, <1>6 DEF FileTypeOK, DescriptionsCounted, Inode

\* What the Files of p must do when it closes ds: those that are valid were, with other
\* descriptors, and each of these has one File still.
FilesFollow(p, ds) ==
    /\ file' \in [Procs -> [Objects -> [fd : Fds \cup {None}, error : Errors,
                                        created : BOOLEAN]]]
    /\ \A q \in Procs \ {p} : file'[q] = file[q]
    /\ \A r \in Objects : file'[p][r].fd # None =>
          \E x \in Objects : /\ file'[p][r].fd = file[p][x].fd /\ file[p][x].fd \notin ds
                             /\ file'[p][r].error = file[p][x].error
    /\ \A e \in Fds \ ds, x \in Objects : file[p][x].fd = e =>
          \E r \in Objects : \A y \in Objects : file'[p][y].fd = e <=> y = r

LEMMA OwnersAfterClose ==
  ASSUME FileAssumption, FileInv, NEW p \in Procs, NEW ds, ds \subseteq Fds, CloseEffect(p, ds),
         FilesFollow(p, ds)
  PROVE  ValidIsOpen' /\ FileOfEach'
<1>1. ValidIsOpen /\ FileOfEach
  BY DEF FileInv
<1>2. ASSUME NEW q \in Procs, NEW r \in Objects, Valid(q, r)'
      PROVE  fdtab'[q][file'[q][r].fd] # None /\ file'[q][r].error = "OK"
  <2>1. CASE q = p
    <3>1. PICK x \in Objects : /\ file'[p][r].fd = file[p][x].fd /\ file[p][x].fd \notin ds
                               /\ file'[p][r].error = file[p][x].error
      BY <1>2, <2>1 DEF FilesFollow, Valid
    <3>2. Valid(p, x)
      BY <1>2, <2>1, <3>1 DEF Valid
    <3>3. fdtab[p][file[p][x].fd] # None /\ file[p][x].error = "OK"
      BY <1>1, <3>2 DEF ValidIsOpen
    <3>4. file[p][x].fd \in Fds \ ds
      BY <3>1, <3>2 DEF FileInv, FileTypeOK, Valid
    <3> QED BY <2>1, <3>1, <3>3, <3>4, TableAfterClose
  <2>2. CASE q # p
    BY <1>1, <1>2, <2>2, TableAfterClose DEF FilesFollow, ValidIsOpen, Valid
  <2> QED BY <2>1, <2>2
<1>3. ASSUME NEW q \in Procs, NEW e \in Fds, fdtab'[q][e] # None
      PROVE  \E r \in Objects : /\ file'[q][r].fd = e
                                /\ \A x \in Objects : file'[q][x].fd = e => x = r
  <2>1. CASE q = p
    <3>1. e \notin ds /\ fdtab[p][e] # None
      BY <1>3, <2>1, TableAfterClose
    <3>2. PICK x \in Objects : file[p][x].fd = e
      BY <1>1, <3>1 DEF FileOfEach
    <3>3. PICK r \in Objects : \A y \in Objects : file'[p][y].fd = e <=> y = r
      BY <3>1, <3>2 DEF FilesFollow
    <3> QED BY <2>1, <3>3
  <2>2. CASE q # p
    BY <1>1, <1>3, <2>2, TableAfterClose DEF FilesFollow, FileOfEach
  <2> QED BY <2>1, <2>2
<1> QED
  BY <1>2, <1>3 DEF ValidIsOpen, FileOfEach

\* Closing, and moving to a File that is closed first.
LEMMA ClosingKeeps ==
  ASSUME FileAssumption, FileInv, NEW p \in Procs, NEW o \in Objects, call[p] = Idle,
         CloseEffect(p, {file[p][o].fd} \ {None}), FilesFollow(p, {file[p][o].fd} \ {None}),
         UNCHANGED <<call, maker>>
  PROVE  FileInv'
<1>1. PICK ds : ds = {file[p][o].fd} \ {None}
  OBVIOUS
<1>2. ds \subseteq Fds /\ CloseEffect(p, ds) /\ FilesFollow(p, ds)
  BY <1>1 DEF FileInv, FileTypeOK
<1>3. /\ DescriptionsCounted' /\ DOMAIN desc' = Descs
      /\ \A j \in Descs : /\ DOMAIN desc'[j] = {"ino", "pos", "append", "refs"}
                          /\ desc'[j].ino \in Inodes \cup {None} /\ desc'[j].refs \in Nat
  <2>1. CASE file[p][o].fd = None
    <3>1. ds = {}
      BY <1>1, <2>1
    <3> QED BY <1>2, <3>1, DescriptionsAfterNoClose
  <2>2. CASE file[p][o].fd # None
    <3>1. ds = {file[p][o].fd} /\ file[p][o].fd \in Fds
      BY <1>1, <1>2, <2>2
    <3>2. fdtab[p][file[p][o].fd] # None
      BY <2>2 DEF FileInv, ValidIsOpen, Valid
    <3> QED BY <1>2, <3>1, <3>2, DescriptionsAfterClose
  <2> QED BY <2>1, <2>2
<1>4. ValidIsOpen' /\ FileOfEach'
  BY <1>2, OwnersAfterClose
<1>5. /\ lock' \in [Inodes -> Procs \cup {None}] /\ alone' \in [Procs -> SUBSET Inodes]
      /\ GrantedIsHeld'
  BY <1>2, LocksAfterClose
<1>6. fdtab' \in [Procs -> [Fds -> Descs \cup {None}]]
  BY <1>2, TableAfterClose
<1>7. \A q \in Procs : InCall(q)'
  <2>1. InCall(p)' /\ \A q \in Procs \ {p} : call'[q] = call[q] /\ file'[q] = file[q]
    BY DEF InCall, FilesFollow
  <2> QED BY <2>1, CallsKept
<1>8. dir' = dir
  BY DEF CloseEffect
<1>9. FileTypeOK'
  BY <1>2, <1>3, <1>5, <1>6, <1>7, <1>8 DEF FileInv, FileTypeOK, FilesFollow
<1>10. CreatedIsNamed' /\ OneExclusiveCreator'
  BY <1>8 DEF FileInv, CreatedIsNamed, OneExclusiveCreator
<1> QED
  BY <1>3, <1>4, <1>5, <1>9, <1>10 DEF FileInv

\* Two Files of a process have different descriptors.
LEMMA FdsDiffer ==
  ASSUME FileInv, NEW p \in Procs, NEW o \in Objects, NEW r \in Objects,
         file[p][o].fd = file[p][r].fd, Valid(p, o)
  PROVE  o = r
<1>1. file[p][o].fd \in Fds /\ fdtab[p][file[p][o].fd] # None
  BY DEF FileInv, FileTypeOK, ValidIsOpen, Valid
<1> QED
  BY <1>1 DEF FileInv, FileOfEach

LEMMA CloseKeeps ==
  ASSUME FileAssumption, FileInv, NEW p \in Procs, NEW o \in Objects, Close(p, o)
  PROVE  FileInv'
<1> DEFINE Record == [fd : Fds \cup {None}, error : Errors, created : BOOLEAN]
           new == [file[p][o] EXCEPT !.fd = None]
<1>1. PICK d : d = file[p][o].fd
  OBVIOUS
<1>2. call[p] = Idle /\ Valid(p, o) /\ d # None /\ CloseEffect(p, {d}) /\ UNCHANGED <<call, maker>>
  BY <1>1 DEF Close, Valid
<1>3. file \in [Procs -> [Objects -> Record]]
  BY DEF FileInv, FileTypeOK
<1>4. new \in Record /\ new.fd = None
  <2>1. file[p][o] \in Record
    BY <1>3
  <2> QED BY <2>1
<1>5. file' = [file EXCEPT ![p] = [file[p] EXCEPT ![o] = new]]
  BY DEF Close
<1> HIDE DEF Record, new
<1>6. /\ file' \in [Procs -> [Objects -> Record]]
      /\ file'[p][o].fd = None /\ \A r \in Objects \ {o} : file'[p][r] = file[p][r]
      /\ \A q \in Procs \ {p} : file'[q] = file[q]
  BY <1>3, <1>4, <1>5
<1>7. ASSUME NEW r \in Objects, file'[p][r].fd # None
      PROVE  file'[p][r] = file[p][r] /\ file[p][r].fd \notin {d}
  <2>1. r # o
    BY <1>6, <1>7
  <2> QED BY <1>1, <1>2, <1>6, <2>1, FdsDiffer
<1>8. ASSUME NEW e \in Fds \ {d}, NEW x \in Objects, file[p][x].fd = e
      PROVE  \A y \in Objects : file'[p][y].fd = e <=> y = x
  <2>1. e # None /\ Valid(p, x) /\ x # o
    BY <1>1, <1>8 DEF Valid, FileAssumption
  <2>2. ASSUME NEW y \in Objects PROVE file'[p][y].fd = e <=> y = x
    <3>1. CASE y = o
      BY <1>6, <2>1, <3>1
    <3>2. CASE y # o
      BY <1>6, <1>8, <2>1, <3>2, FdsDiffer
    <3> QED BY <3>1, <3>2
  <2> QED BY <2>2
<1>9. FilesFollow(p, {d})
  BY <1>6, <1>7, <1>8 DEF FilesFollow, Record
<1>10. {file[p][o].fd} \ {None} = {d}
  BY <1>1, <1>2
<1> QED
  BY <1>2, <1>9, <1>10, ClosingKeeps

LEMMA MoveKeeps ==
  ASSUME FileAssumption, FileInv, NEW p \in Procs, NEW o \in Objects, NEW q \in Objects,
         Move(p, o, q)
  PROVE  FileInv'
<1> DEFINE Record == [fd : Fds \cup {None}, error : Errors, created : BOOLEAN]
           new == [file[p][q] EXCEPT !.fd = None]
<1>1. PICK ds : ds = {file[p][o].fd} \ {None}
  OBVIOUS
<1>2. call[p] = Idle /\ o # q /\ CloseEffect(p, ds) /\ UNCHANGED <<call, maker>>
  BY <1>1 DEF Move
<1>3. file \in [Procs -> [Objects -> Record]]
  BY DEF FileInv, FileTypeOK
<1>4. new \in Record /\ new.fd = None
  <2>1. file[p][q] \in Record
    BY <1>3
  <2> QED BY <2>1
<1>5. file' = [file EXCEPT ![p] = [file[p] EXCEPT ![o] = file[p][q], ![q] = new]]
  <2>1. file' = [file EXCEPT ![p][o] = file[p][q], ![p][q].fd = None]
    BY DEF Move
  <2> QED BY <1>2, <1>3, <2>1
<1> HIDE DEF Record, new
<1>6. /\ file' \in [Procs -> [Objects -> Record]]
      /\ file'[p][o] = file[p][q] /\ file'[p][q].fd = None
      /\ \A r \in Objects \ {o, q} : file'[p][r] = file[p][r]
      /\ \A x \in Procs \ {p} : file'[x] = file[x]
  BY <1>2, <1>3, <1>4, <1>5
<1>7. ASSUME NEW r \in Objects, file'[p][r].fd # None
      PROVE  \E x \in Objects : file'[p][r] = file[p][x] /\ file[p][x].fd \notin ds
  <2>1. PICK x \in Objects \ {o} : file'[p][r] = file[p][x]
    BY <1>2, <1>6, <1>7
  <2>2. file[p][x].fd # None /\ Valid(p, x)
    BY <1>7, <2>1 DEF Valid
  <2>3. file[p][x].fd # file[p][o].fd
    BY <2>2, FdsDiffer
  <2> QED BY <1>1, <2>1, <2>3
<1>8. ASSUME NEW e \in Fds \ ds, NEW x \in Objects, file[p][x].fd = e
      PROVE  \E r \in Objects : \A y \in Objects : file'[p][y].fd = e <=> y = r
  <2>1. e # None /\ Valid(p, x) /\ x # o
    BY <1>1, <1>8 DEF Valid, FileAssumption
  <2>2. \A y \in Objects : file[p][y].fd = e <=> y = x
    BY <1>8, <2>1, FdsDiffer
  <2>3. CASE x = q
    <3>1. ASSUME NEW y \in Objects PROVE file'[p][y].fd = e <=> y = o
      BY <1>2, <1>6, <2>1, <2>2, <2>3
    <3> QED BY <3>1
  <2>4. CASE x # q
    <3>1. ASSUME NEW y \in Objects PROVE file'[p][y].fd = e <=> y = x
      BY <1>2, <1>6, <2>1, <2>2, <2>4
    <3> QED BY <3>1
  <2> QED BY <2>3, <2>4
<1>9. FilesFollow(p, ds)
  <2>1. ASSUME NEW r \in Objects, file'[p][r].fd # None
        PROVE  \E x \in Objects : /\ file'[p][r].fd = file[p][x].fd /\ file[p][x].fd \notin ds
                                  /\ file'[p][r].error = file[p][x].error
    <3>1. PICK x \in Objects : file'[p][r] = file[p][x] /\ file[p][x].fd \notin ds
      BY <1>7, <2>1
    <3> QED BY <3>1
  <2> QED BY <1>6, <1>8, <2>1 DEF FilesFollow, Record
<1> QED
  BY <1>1, <1>2, <1>9, ClosingKeeps

\* dup(2): the new descriptor is on the same description.
LEMMA DescriptionsAfterDuplicate ==
  ASSUME FileAssumption, FileInv, NEW p \in Procs, NEW d, NEW k \in Descs,
         NewDescriptor(p, d, k), DescriptorsOn(k) # {}, desc' = [desc EXCEPT ![k].refs = @ + 1]
  PROVE  /\ DescriptionsCounted' /\ DOMAIN desc' = Descs
         /\ \A j \in Descs : /\ DOMAIN desc'[j] = {"ino", "pos", "append", "refs"}
                             /\ desc'[j].ino \in Inodes \cup {None} /\ desc'[j].refs \in Nat
<1> DEFINE more == [desc[k] EXCEPT !.refs = @ + 1]
<1>1. FileTypeOK /\ DescriptionsCounted
  BY DEF FileInv
<1>2. /\ DOMAIN desc[k] = {"ino", "pos", "append", "refs"}
      /\ desc[k].ino \in Inodes \cup {None} /\ desc[k].refs \in Nat
  BY <1>1 DEF FileTypeOK
<1>3. /\ more.refs = desc[k].refs + 1 /\ more.ino = desc[k].ino
      /\ DOMAIN more = {"ino", "pos", "append", "refs"}
  BY <1>2
<1>4. desc' = [desc EXCEPT ![k] = more]
  OBVIOUS
<1> HIDE DEF more
<1>5. DOMAIN desc' = Descs /\ desc'[k] = more /\ \A j \in Descs \ {k} : desc'[j] = desc[j]
  BY <1>1, <1>4 DEF FileTypeOK
<1>6. ASSUME NEW j \in Descs
      PROVE  /\ desc'[j].refs = Cardinality(DescriptorsOn(j)')
             /\ DOMAIN desc'[j] = {"ino", "pos", "append", "refs"}
             /\ desc'[j].ino \in Inodes \cup {None} /\ desc'[j].refs \in Nat
  <2>1. CASE j = k
    <3>1. desc[k].refs = Cardinality(DescriptorsOn(k))
      BY <1>1 DEF DescriptionsCounted
    <3>2. Cardinality(DescriptorsOn(k)') = desc[k].refs + 1
      BY <3>1, CountsAfterNew
    <3> QED BY <1>2, <1>3, <1>5, <2>1, <3>2
  <2>2. CASE j # k
    <3>1. desc'[j] = desc[j] /\ DescriptorsOn(j)' = DescriptorsOn(j)
      BY <1>5, <2>2, CountsAfterNew
    <3> QED BY <1>1, <3>1 DEF FileTypeOK, DescriptionsCounted
  <2> QED BY <2>1, <2>2
<1>7. desc[k].ino \in Inodes
  <2>1. PICK e \in Fds : fdtab[k[1]][e] = k
    BY DEF DescriptorsOn
  <2>2. k # None /\ k[1] \in Procs
    BY DEF FileAssumption, Descs
  <2> QED BY <1>1, <2>1, <2>2 DEF DescriptionsCounted, Inode
<1>8. \A j \in Descs : desc'[j].ino = desc[j].ino
  BY <1>3, <1>5
<1>9. ASSUME NEW q \in Procs, NEW e \in Fds, fdtab'[q][e] # None
      PROVE  fdtab'[q][e][1] = q /\ Inode(q, e)' \in Inodes
  <2>1. CASE q = p /\ e = d
    <3>1. fdtab'[q][e] = k
      BY <2>1, TableAfterNew
    <3>2. k[1] = q
      BY <2>1 DEF NewDescriptor
    <3> QED BY <1>7, <1>8, <3>1, <3>2 DEF Inode
  <2>2. CASE q # p \/ e # d
    <3>1. fdtab'[q][e] = fdtab[q][e] /\ fdtab[q][e] # None
      BY <1>9, <2>2, TableAfterNew
    <3>2. fdtab[q][e] \in Descs /\ fdtab[q][e][1] = q /\ Inode(q, e) \in Inodes
      BY <1>1, <3>1 DEF FileTypeOK, DescriptionsCounted
    <3> QED BY <1>8, <3>1, <3>2 DEF Inode
  <2> QED BY <2>1, <2>2
<1> QED
  BY <1>5, <1>6, <1>9 DEF DescriptionsCounted

LEMMA DuplicateKeeps ==
  ASSUME FileAssumption, FileInv, NEW p \in Procs, NEW o \in Objects, NEW q \in Objects,
         Duplicate(p, o, q)
  PROVE  FileInv'
<1>1. /\ call[p] = Idle /\ ~Valid(p, o)
      /\ UNCHANGED <<call, dir, lock, alone, maker>>
  BY DEF Duplicate, hist
<1>2. ASSUME NEW error \in Errors, file' = [file EXCEPT ![p][o] = Invalid(error)],
             UNCHANGED <<desc, fdtab>>
      PROVE  FileInv'
  <2>1. FilesStay(p) /\ DescriptionsStay
    BY <1>1, <1>2, FailureStays, NothingStays
  <2>2. DOMAIN call' = Procs /\ InCall(p)'
    BY <1>1 DEF InCall, FileInv, FileTypeOK
  <2> QED BY <1>1, <1>2, <2>1, <2>2, QuietKeeps
<1>3. CASE /\ Valid(p, q) /\ FreeFds(p) # {}
           /\ desc' = [desc EXCEPT ![fdtab[p][file[p][q].fd]].refs = @ + 1]
           /\ fdtab' = [fdtab EXCEPT ![p][FirstFree(p)] = fdtab[p][file[p][q].fd]]
           /\ file' = [file EXCEPT ![p][o] = [fd |-> FirstFree(p), error |-> "OK",
                                              created |-> FALSE]]
  <2>1. PICK e \in Fds : e = file[p][q].fd /\ fdtab[p][e] # None
    BY <1>3 DEF FileInv, FileTypeOK, ValidIsOpen, Valid
  <2>2. PICK k \in Descs : k = fdtab[p][e] /\ k[1] = p
    BY <2>1 DEF FileInv, FileTypeOK, DescriptionsCounted
  <2>3. PICK d : d = FirstFree(p) /\ d \in FreeFds(p)
    BY <1>3, LowestIsFree DEF FileInv
  <2>4. NewDescriptor(p, d, k) /\ DescriptorsOn(k) # {} /\ desc' = [desc EXCEPT ![k].refs = @ + 1]
    BY <1>3, <2>1, <2>2, <2>3 DEF NewDescriptor, DescriptorsOn
  <2>5. Opened(p, o, d, FALSE)
    BY <1>3, <2>3 DEF Opened
  <2>6. fdtab' \in [Procs -> [Fds -> Descs \cup {None}]]
    BY <2>4, TableAfterNew
  <2>7. /\ DescriptionsCounted' /\ DOMAIN desc' = Descs
        /\ \A j \in Descs : /\ DOMAIN desc'[j] = {"ino", "pos", "append", "refs"}
                            /\ desc'[j].ino \in Inodes \cup {None} /\ desc'[j].refs \in Nat
    BY <2>4, DescriptionsAfterDuplicate
  <2>8. /\ file' \in [Procs -> [Objects -> [fd : Fds \cup {None}, error : Errors,
                                            created : BOOLEAN]]]
        /\ \A x \in Procs \ {p} : file'[x] = file[x]
        /\ ValidIsOpen' /\ FileOfEach'
    BY <1>1, <2>4, <2>5, FilesAfterNew
  <2>9. \A x \in Procs : InCall(x)'
    <3>1. InCall(p)' /\ \A x \in Procs \ {p} : call'[x] = call[x]
      BY <1>1 DEF InCall
    <3> QED BY <2>8, <3>1, CallsKept
  <2>10. FileTypeOK'
    BY <1>1, <2>6, <2>7, <2>8, <2>9 DEF FileInv, FileTypeOK
  <2>11. GrantedIsHeld' /\ CreatedIsNamed' /\ OneExclusiveCreator'
    BY <1>1 DEF FileInv, GrantedIsHeld, CreatedIsNamed, OneExclusiveCreator
  <2> QED BY <2>7, <2>8, <2>10, <2>11 DEF FileInv
<1>4. "FAILED" \in Errors /\ "TOO_MANY_OPENED" \in Errors
  BY DEF Errors
<1> QED
  BY <1>2, <1>3, <1>4 DEF Duplicate

-----------------------------------------------------------------------------
\* Locking.
LEMMA LocksKeep ==
  ASSUME FileInv, NEW p \in Procs, UNCHANGED <<dir, desc, fdtab, file, call, maker>>,
         lock' \in [Inodes -> Procs \cup {None}], alone' \in [Procs -> SUBSET Inodes],
         GrantedIsHeld'
  PROVE  FileInv'
<1>1. FileTypeOK'
  BY DEF FileInv, FileTypeOK, InCall, Valid
<1>2. ValidIsOpen' /\ FileOfEach' /\ CreatedIsNamed' /\ OneExclusiveCreator'
  BY DEF FileInv, ValidIsOpen, FileOfEach, CreatedIsNamed, OneExclusiveCreator, Valid
<1>3. DescriptionsCounted'
  BY DEF FileInv, DescriptionsCounted, DescriptorsOn, Inode
<1> QED
  BY <1>1, <1>2, <1>3 DEF FileInv

\* The inode that a valid File is open on.
LEMMA FileHasInode ==
  ASSUME FileInv, NEW p \in Procs, NEW o \in Objects, Valid(p, o)
  PROVE  Inode(p, file[p][o].fd) \in Inodes
<1>1. file[p][o].fd \in Fds /\ fdtab[p][file[p][o].fd] # None
  BY DEF FileInv, FileTypeOK, ValidIsOpen, Valid
<1> QED
  BY <1>1 DEF FileInv, DescriptionsCounted

LEMMA LockKeeps ==
  ASSUME FileAssumption, FileInv, NEW p \in Procs, NEW o \in Objects, Lock(p, o)
  PROVE  FileInv'
<1>1. PICK i \in Inodes : i = Inode(p, file[p][o].fd)
  BY FileHasInode DEF Lock
<1>2. /\ lock \in [Inodes -> Procs \cup {None}] /\ alone \in [Procs -> SUBSET Inodes]
      /\ GrantedIsHeld
  BY DEF FileInv, FileTypeOK
<1>3. UNCHANGED <<dir, desc, fdtab, file, call, maker>>
  BY DEF Lock
<1>4. CASE lock[i] \in {None, p}
  <2>1. lock' = [lock EXCEPT ![i] = p] /\ alone' = [alone EXCEPT ![p] = @ \cup {i}]
    BY <1>1, <1>4 DEF Lock, LockResult
  <2>2. lock' \in [Inodes -> Procs \cup {None}] /\ alone' \in [Procs -> SUBSET Inodes]
    BY <1>2, <2>1
  <2>3. ASSUME NEW q \in Procs, NEW j \in alone'[q] PROVE lock'[j] = q
    <3>1. CASE j = i
      <4>1. q = p
        <5>1. SUFFICES ASSUME q # p PROVE FALSE
          OBVIOUS
        <5>2. i \in alone[q]
          BY <1>2, <2>1, <3>1, <5>1
        <5>3. lock[i] = q /\ q # None
          BY <1>2, <5>2 DEF GrantedIsHeld, FileAssumption
        <5> QED BY <1>4, <5>1, <5>3
      <4> QED BY <1>2, <2>1, <3>1, <4>1
    <3>2. CASE j # i
      <4>1. j \in alone[q] /\ j \in Inodes
        BY <1>2, <2>1, <3>2
      <4> QED BY <1>2, <2>1, <3>2, <4>1 DEF GrantedIsHeld
    <3> QED BY <3>1, <3>2
  <2> QED BY <1>3, <2>2, <2>3, LocksKeep DEF GrantedIsHeld
<1>5. CASE lock[i] \notin {None, p}
  <2>1. lock' = lock /\ alone' = alone
    BY <1>1, <1>5 DEF Lock, LockResult
  <2> QED BY <1>2, <1>3, <2>1, LocksKeep DEF GrantedIsHeld
<1> QED
  BY <1>4, <1>5

LEMMA UnlockKeeps ==
  ASSUME FileAssumption, FileInv, NEW p \in Procs, NEW o \in Objects, Unlock(p, o)
  PROVE  FileInv'
<1>1. PICK i \in Inodes : i = Inode(p, file[p][o].fd)
  BY FileHasInode DEF Unlock
<1>2. /\ lock \in [Inodes -> Procs \cup {None}] /\ alone \in [Procs -> SUBSET Inodes]
      /\ GrantedIsHeld
  BY DEF FileInv, FileTypeOK
<1>3. /\ UNCHANGED <<dir, desc, fdtab, file, call, maker>>
      /\ lock' = IF lock[i] = p THEN [lock EXCEPT ![i] = None] ELSE lock
      /\ alone' = [alone EXCEPT ![p] = @ \ {i}]
  BY <1>1 DEF Unlock
<1>4. lock' \in [Inodes -> Procs \cup {None}] /\ alone' \in [Procs -> SUBSET Inodes]
  BY <1>2, <1>3
<1>5. ASSUME NEW q \in Procs, NEW j \in alone'[q] PROVE lock'[j] = q
  <2>1. j \in alone[q] /\ (q = p => j # i) /\ j \in Inodes
    BY <1>2, <1>3
  <2>2. lock[j] = q
    BY <1>2, <2>1 DEF GrantedIsHeld
  <2> QED BY <1>2, <1>3, <2>1, <2>2
<1> QED
  BY <1>3, <1>4, <1>5, LocksKeep DEF GrantedIsHeld

-----------------------------------------------------------------------------
\* The invariant holds at first ...
LEMMA FileInitHolds == ASSUME FileAssumption, FileInit PROVE FileInv
<1>1. /\ DOMAIN desc = Descs
      /\ \A k \in Descs : desc[k] = [ino |-> None, pos |-> 0, append |-> FALSE, refs |-> 0]
  BY DEF FileInit
<1>2. \A k \in Descs : /\ DOMAIN desc[k] = {"ino", "pos", "append", "refs"}
                       /\ desc[k].ino = None /\ desc[k].refs = 0
  BY <1>1
<1>3. \A p \in Procs, o \in Objects : file[p][o].fd = None
  BY DEF FileInit, Invalid
<1>4. file \in [Procs -> [Objects -> [fd : Fds \cup {None}, error : Errors, created : BOOLEAN]]]
  <2>1. Invalid("FAILED") \in [fd : Fds \cup {None}, error : Errors, created : BOOLEAN]
    BY DEF Invalid, Errors
  <2> QED BY <2>1 DEF FileInit
<1>5. \A p \in Procs, d \in Fds : fdtab[p][d] = None
  BY DEF FileInit
<1>6. FileTypeOK
  <2>1. dir \in [Names -> Inodes \cup {None}] /\ lock \in [Inodes -> Procs \cup {None}]
    BY DEF FileInit
  <2>2. fdtab \in [Procs -> [Fds -> Descs \cup {None}]]
    BY DEF FileInit
  <2>3. DOMAIN call = Procs /\ \A p \in Procs : InCall(p)
    BY DEF FileInit, InCall
  <2>4. alone \in [Procs -> SUBSET Inodes] /\ maker \subseteq Procs \X Inodes
    BY DEF FileInit
  <2> QED BY <1>1, <1>2, <1>4, <2>1, <2>2, <2>3, <2>4 DEF FileTypeOK
<1>7. ValidIsOpen /\ FileOfEach
  BY <1>3, <1>5 DEF ValidIsOpen, FileOfEach, Valid
<1>8. DescriptionsCounted
  <2>1. ASSUME NEW k \in Descs PROVE desc[k].refs = Cardinality(DescriptorsOn(k))
    <3>1. DescriptorsOn(k) = {}
      BY <1>5 DEF DescriptorsOn, Descs, FileAssumption
    <3> QED BY <1>2, <3>1, FS_EmptySet
  <2> QED BY <1>5, <2>1 DEF DescriptionsCounted
<1>9. GrantedIsHeld /\ CreatedIsNamed /\ OneExclusiveCreator
  BY DEF FileInit, GrantedIsHeld, CreatedIsNamed, OneExclusiveCreator
<1> QED
  BY <1>6, <1>7, <1>8, <1>9 DEF FileInv

\* ... and every step keeps it.
LEMMA FileStepHolds ==
  ASSUME FileAssumption, FileInv, [FileNext]_fileVars
  PROVE  FileInv'
<1>1. CASE UNCHANGED fileVars
  BY <1>1 DEF fileVars, FileInv, FileTypeOK, ValidIsOpen, FileOfEach, DescriptionsCounted,
     GrantedIsHeld, CreatedIsNamed, OneExclusiveCreator, DescriptorsOn, Inode, InCall, Valid
<1>2. ASSUME NEW name \in Names, Unlink(name) PROVE FileInv'
  BY <1>2, UnlinkKeeps
<1>3. ASSUME NEW p \in Procs, OpenAgain(p) \/ SysCall(p) PROVE FileInv'
  BY <1>3, OpenAgainKeeps, SysCallKeeps
<1>4. ASSUME NEW p \in Procs, NEW o \in Objects, NEW name \in Names, NEW f \in Modes,
             Initialize(p, o, name, f)
      PROVE  FileInv'
  BY <1>4, InitializeKeeps
<1>5. ASSUME NEW p \in Procs, NEW o \in Objects, Close(p, o) \/ Lock(p, o) \/ Unlock(p, o)
      PROVE  FileInv'
  BY <1>5, CloseKeeps, LockKeeps, UnlockKeeps
<1>6. ASSUME NEW p \in Procs, NEW o \in Objects, NEW q \in Objects,
             Move(p, o, q) \/ Duplicate(p, o, q)
      PROVE  FileInv'
  BY <1>6, MoveKeeps, DuplicateKeeps
<1>7. ASSUME NEW p \in Procs, NEW o \in Objects, NEW n \in Offsets,
             Seek(p, o, n) \/ SetLength(p, o, n)
      PROVE  FileInv'
  BY <1>7, SeekKeeps, SetLengthKeeps
<1>8. ASSUME NEW p \in Procs, NEW o \in Objects, NEW op \in {"read", "write"}, NEW n \in Sizes,
             NEW at \in Offsets \cup {None}, NEW loops \in BOOLEAN, Begin(p, o, op, at, n, loops)
      PROVE  FileInv'
  BY <1>8, BeginKeeps
<1> QED
  BY <1>1, <1>2, <1>3, <1>4, <1>5, <1>6, <1>7, <1>8 DEF FileNext

\* The invariant says what is promised.
LEMMA FileInvIsSafe == ASSUME FileAssumption, FileInv PROVE FilesAreOwned
<1>1. ASSUME NEW p \in Procs, NEW d \in Fds
      PROVE  Cardinality({o \in Objects : file[p][o].fd = d}) = IF fdtab[p][d] = None THEN 0 ELSE 1
  <2>1. CASE fdtab[p][d] = None
    <3>1. ASSUME NEW o \in Objects PROVE file[p][o].fd # d
      BY <2>1 DEF FileInv, ValidIsOpen, Valid, FileAssumption
    <3>2. {o \in Objects : file[p][o].fd = d} = {}
      BY <3>1
    <3> QED BY <2>1, <3>2, FS_EmptySet
  <2>2. CASE fdtab[p][d] # None
    <3>1. PICK r \in Objects : /\ file[p][r].fd = d
                               /\ \A q \in Objects : file[p][q].fd = d => q = r
      BY <2>2 DEF FileInv, FileOfEach
    <3>2. {o \in Objects : file[p][o].fd = d} = {r}
      BY <3>1
    <3> QED BY <2>2, <3>2, FS_Singleton
  <2> QED BY <2>1, <2>2
<1>2. ASSUME NEW p \in Procs, NEW q \in Procs, p # q PROVE alone[p] \cap alone[q] = {}
  BY <1>2 DEF FileInv, GrantedIsHeld
<1> QED
  BY <1>1, <1>2 DEF FilesAreOwned, DescriptorsOwned, LockMeansAlone, FileInv

\* Every variable of File keeps its type, and its parts agree: who is the File of a
\* descriptor, which descriptors are open on a description, which locks are held for the
\* grants that were given, and which names the created files have.
THEOREM FileInvariantHolds ==
  ASSUME FileAssumption
  PROVE  FileSpec => []FileInv
<1>1. FileInit => FileInv
  BY FileInitHolds
<1>2. FileInv /\ [FileNext]_fileVars => FileInv'
  BY FileStepHolds
<1> QED
  BY <1>1, <1>2, PTL DEF FileSpec

\* Any number of processes may open, duplicate, move, lock and close Files (file.cc), with
\* calls that fail and names that go meanwhile: every open descriptor is that of exactly one
\* File, a description lasts as long as its descriptors, at most one open claims to have
\* created a file exclusively, and a granted lock is one process's alone.
THEOREM FilesAlwaysOwned ==
  ASSUME FileAssumption
  PROVE  FileSpec => []FilesAreOwned
<1>1. FileInv => FilesAreOwned
  BY FileInvIsSafe
<1> QED
  BY <1>1, FileInvariantHolds, PTL

-----------------------------------------------------------------------------
Bytes == Seq(Procs \cup {"zero"})

\* What the last Read or Write of a process says of itself.
Reported(l) == /\ l.rv = Len(l.done) \/ (l.rv = -1 /\ l.done = <<>>)
               /\ ~l.append => InARow(l.done, l.at)
               /\ ~l.short

\* Whose a description is.
LEMMA OwnDescription ==
  ASSUME FileAssumption, FileInv, NEW p \in Procs, NEW d \in Fds, fdtab[p][d] # None
  PROVE  fdtab[p][d] \in Descs /\ fdtab[p][d][1] = p /\ Inode(p, d) \in Inodes
BY DEF FileInv, FileTypeOK, DescriptionsCounted

\* The steps of one process leave the calls of the others alone.
LEMMA OthersUnderWay ==
  ASSUME FileAssumption, FileInv, NEW p \in Procs, call'[p] = call[p], fdtab'[p] = fdtab[p],
         \A k \in Descs : k[1] = p => desc'[k] = desc[k], UnderWay(p)
  PROVE  UnderWay(p)'
<1> DEFINE c == call[p]
           k == fdtab[p][c.fd]
<1>1. k \in Descs /\ c.fd \in Fds /\ k # None
  BY DEF UnderWay, FileAssumption
<1>2. k[1] = p
  BY <1>1, OwnDescription
<1>3. desc'[k] = desc[k] /\ fdtab'[p][call'[p].fd] = k
  BY <1>1, <1>2
<1> QED
  BY <1>3 DEF UnderWay, InARow

\* A step of one process leaves the transfers of the others as they are.
LEMMA TransfersGoOn ==
  ASSUME FileAssumption, TransferInv, FileInv', NEW p \in Procs,
         \A q \in Procs \ {p} : call'[q] = call[q] /\ fdtab'[q] = fdtab[q] /\ last'[q] = last[q],
         \A k \in Descs : desc'[k].pos \in Nat /\ (k[1] # p => desc'[k] = desc[k]),
         data' \in [Inodes -> Bytes], call'[p].op \in {"read", "write"} => UnderWay(p)',
         DOMAIN last' = Procs, Reported(last'[p])
  PROVE  TransferInv'
<1>1. ASSUME NEW q \in Procs, call'[q].op \in {"read", "write"}
      PROVE  UnderWay(q)'
  <2>1. CASE q = p
    BY <1>1, <2>1
  <2>2. CASE q # p
    <3>1. call'[q] = call[q] /\ fdtab'[q] = fdtab[q] /\ \A k \in Descs : k[1] = q => desc'[k] = desc[k]
      BY <2>2
    <3>2. FileInv /\ UnderWay(q)
      BY <1>1, <3>1 DEF TransferInv
    <3> QED
      BY <3>1, <3>2, OthersUnderWay
  <2> QED
    BY <2>1, <2>2
<1>2. ASSUME NEW q \in Procs
      PROVE  Reported(last'[q])
  BY DEF TransferInv, ReportsWhatMoved, ShortOnlyAtTheEnd, Reported
<1>3. ReportsWhatMoved' /\ ShortOnlyAtTheEnd'
  BY <1>2 DEF ReportsWhatMoved, ShortOnlyAtTheEnd, Reported, InARow
<1> QED
  BY <1>1, <1>3 DEF TransferInv, Bytes

\* A step of a process that is in no Read or Write.
LEMMA NoTransfer ==
  ASSUME FileAssumption, TransferInv, FileInv', NEW p \in Procs, UNCHANGED last,
         call'[p].op \notin {"read", "write"},
         \A q \in Procs \ {p} : call'[q] = call[q] /\ fdtab'[q] = fdtab[q],
         \A k \in Descs : desc'[k].pos \in Nat /\ (k[1] # p => desc'[k] = desc[k]),
         data' \in [Inodes -> Bytes]
  PROVE  TransferInv'
<1>1. DOMAIN last' = Procs /\ Reported(last'[p])
  BY DEF TransferInv, ReportsWhatMoved, ShortOnlyAtTheEnd, Reported
<1> QED
  BY <1>1, TransfersGoOn

\* Opening touches the opener's own descriptors and descriptions only.
LEMMA OpensOwn ==
  ASSUME FileAssumption, TransferInv, NEW p \in Procs, NEW name \in Names, NEW how, NEW append,
         OpenError(p, name, how) = "OK", OpenEffect(p, name, how, append)
  PROVE  /\ \A q \in Procs \ {p} : fdtab'[q] = fdtab[q]
         /\ \A k \in Descs : desc'[k].pos \in Nat /\ (k[1] # p => desc'[k] = desc[k])
         /\ data' \in [Inodes -> Bytes]
<1> DEFINE k == CHOOSE k \in {p} \X Fds : desc[k].refs = 0
           new(i) == [ino |-> i, pos |-> 0, append |-> append, refs |-> 1]
<1>1. FileInv /\ FileTypeOK /\ data \in [Inodes -> Bytes] /\ \A j \in Descs : desc[j].pos \in Nat
  BY DEF TransferInv, FileInv, Bytes
<1>2. k \in {p} \X Fds
  BY <1>1, OpenFinds, RoomForDescription
<1>3. PICK i : /\ desc' = [desc EXCEPT ![k] = new(i)]
               /\ data' = data \/ data' = [data EXCEPT ![i] = <<>>]
               /\ \E d : fdtab' = [fdtab EXCEPT ![p][d] = k]
  BY DEF OpenEffect
<1> HIDE DEF k
<1>4. k[1] = p
  BY <1>2
<1>5. \A j \in Descs : j # k => desc'[j] = desc[j]
  BY <1>1, <1>3 DEF FileTypeOK
<1>6. k \in Descs => desc'[k] = new(i)
  BY <1>1, <1>3 DEF FileTypeOK
<1>7. \A q \in Procs \ {p} : fdtab'[q] = fdtab[q]
  BY <1>1, <1>3 DEF FileTypeOK
<1>8. <<>> \in Bytes
  BY DEF Bytes
<1>9. data' \in [Inodes -> Bytes]
  BY <1>1, <1>3, <1>8
<1>10. \A j \in Descs : desc'[j].pos \in Nat
  BY <1>1, <1>5, <1>6
<1> QED
  BY <1>4, <1>5, <1>7, <1>9, <1>10

\* Closing touches the closer's own descriptors and descriptions only.
LEMMA ClosesOwn ==
  ASSUME FileAssumption, TransferInv, NEW p \in Procs, NEW ds \in SUBSET Fds, CloseEffect(p, ds)
  PROVE  /\ \A q \in Procs \ {p} : fdtab'[q] = fdtab[q]
         /\ \A k \in Descs : desc'[k].pos \in Nat /\ (k[1] # p => desc'[k] = desc[k])
         /\ data' \in [Inodes -> Bytes]
<1>1. FileInv /\ FileTypeOK /\ data \in [Inodes -> Bytes] /\ \A j \in Descs : desc[j].pos \in Nat
  BY DEF TransferInv, FileInv, Bytes
<1>2. ASSUME NEW k \in Descs
      PROVE  desc'[k].pos \in Nat /\ (k[1] # p => desc'[k] = desc[k])
  <2>1. DOMAIN desc[k] = {"ino", "pos", "append", "refs"} /\ desc[k].pos \in Nat /\ k # None
    BY <1>1 DEF FileTypeOK, FileAssumption
  <2>2. desc'[k] = IF \E d \in ds : fdtab[p][d] = k
                   THEN IF desc[k].refs = 1 THEN [desc[k] EXCEPT !.refs = 0, !.ino = None]
                        ELSE [desc[k] EXCEPT !.refs = @ - 1]
                   ELSE desc[k]
    BY DEF CloseEffect
  <2>3. k[1] # p => ~\E d \in ds : fdtab[p][d] = k
    BY <1>1, <2>1, OwnDescription
  <2>4. desc'[k].pos = desc[k].pos
    BY <2>1, <2>2
  <2> QED
    BY <2>1, <2>2, <2>3, <2>4
<1>3. \A q \in Procs \ {p} : fdtab'[q] = fdtab[q]
  BY <1>1 DEF FileTypeOK, CloseEffect
<1> QED
  BY <1>1, <1>2, <1>3 DEF CloseEffect

\* Files are opened.
LEMMA InitializeTransfers ==
  ASSUME FileAssumption, TransferInv, FileInv', NEW p \in Procs, NEW o \in Objects, NEW name \in Names,
         NEW f, Initialize(p, o, name, f)
  PROVE  TransferInv'
<1> DEFINE how == FirstOpen(f.open)
<1>1. /\ call[p] = Idle /\ UNCHANGED last /\ DOMAIN call = Procs
      /\ data \in [Inodes -> Bytes] /\ \A k \in Descs : desc[k].pos \in Nat
  BY DEF Initialize, hist, TransferInv, FileInv, FileTypeOK, Bytes
<1>2. CASE OpenError(p, name, how) = "OK" /\ OpenEffect(p, name, how, f.append) /\ UNCHANGED call
  BY <1>1, <1>2, OpensOwn, NoTransfer DEF Idle
<1>3. ASSUME UNCHANGED <<data, desc, fdtab>>, NEW c, c.op \notin {"read", "write"},
             call' = [call EXCEPT ![p] = c]
      PROVE  TransferInv'
  <2>1. call'[p] = c /\ \A q \in Procs \ {p} : call'[q] = call[q]
    BY <1>1, <1>3
  <2> QED
    BY <1>1, <1>3, <2>1, NoTransfer
<1>4. CASE UNCHANGED <<data, desc, fdtab, call>>
  BY <1>1, <1>4, NoTransfer DEF Idle
<1> DEFINE c == [op |-> "open", obj |-> o, name |-> name, flags |-> f]
<1>5. c.op \notin {"read", "write"}
  OBVIOUS
<1>6. CASE UNCHANGED <<data, desc, fdtab>> /\ call' = [call EXCEPT ![p] = c]
  <2> HIDE DEF c
  <2> QED
    BY <1>3, <1>5, <1>6
<1>7. \/ OpenError(p, name, how) = "OK" /\ OpenEffect(p, name, how, f.append) /\ UNCHANGED call
      \/ UNCHANGED disk /\ (UNCHANGED call \/ call' = [call EXCEPT ![p] = c])
  BY DEF Initialize
<1> QED
  BY <1>2, <1>4, <1>6, <1>7 DEF disk

\* A file that is there is opened at the second attempt.
LEMMA OpenAgainTransfers ==
  ASSUME FileAssumption, TransferInv, FileInv', NEW p \in Procs, OpenAgain(p)
  PROVE  TransferInv'
<1> DEFINE c == call[p]
           how == SecondOpen(c.flags.open)
<1>1. /\ call' = [call EXCEPT ![p] = Idle] /\ UNCHANGED last /\ DOMAIN call = Procs
      /\ data \in [Inodes -> Bytes] /\ \A k \in Descs : desc[k].pos \in Nat
      /\ c.name \in Names
  <2>1. /\ call' = [call EXCEPT ![p] = Idle] /\ UNCHANGED last /\ DOMAIN call = Procs
        /\ data \in [Inodes -> Bytes] /\ \A k \in Descs : desc[k].pos \in Nat
    BY DEF OpenAgain, TransferInv, FileInv, FileTypeOK, Bytes
  <2>2. c.op = "open" /\ InCall(p)
    BY DEF OpenAgain, TransferInv, FileInv, FileTypeOK
  <2>3. c.name \in Names
    BY <2>2 DEF InCall, Idle
  <2> QED
    BY <2>1, <2>3
<1>2. call'[p].op \notin {"read", "write"} /\ \A q \in Procs \ {p} : call'[q] = call[q]
  BY <1>1 DEF Idle
<1>3. CASE OpenError(p, c.name, how) = "OK" /\ OpenEffect(p, c.name, how, c.flags.append)
  BY <1>1, <1>2, <1>3, OpensOwn, NoTransfer
<1>4. CASE UNCHANGED disk
  BY <1>1, <1>2, <1>4, NoTransfer DEF disk
<1> QED
  BY <1>3, <1>4 DEF OpenAgain

\* They are closed, moved, duplicated, locked; a name goes.
LEMMA CloseTransfers ==
  ASSUME FileAssumption, TransferInv, FileInv', NEW p \in Procs, NEW o \in Objects, NEW q \in Objects,
         Close(p, o) \/ Move(p, o, q)
  PROVE  TransferInv'
<1>1. PICK ds \in SUBSET Fds : CloseEffect(p, ds)
  <2>1. file[p][o].fd \in Fds \cup {None}
    BY DEF TransferInv, FileInv, FileTypeOK
  <2>2. CASE Close(p, o)
    BY <2>1, <2>2 DEF Close, Valid
  <2>3. CASE Move(p, o, q)
    BY <2>1, <2>3 DEF Move
  <2> QED
    BY <2>2, <2>3
<1>2. call[p] = Idle /\ UNCHANGED <<call, last>>
  BY DEF Close, Move
<1> QED
  BY <1>1, <1>2, ClosesOwn, NoTransfer DEF Idle

\* A valid file is open.
LEMMA ValidHasDescription ==
  ASSUME FileInv, NEW p \in Procs, NEW o \in Objects, Valid(p, o)
  PROVE  file[p][o].fd \in Fds /\ fdtab[p][file[p][o].fd] # None
<1>1. file \in [Procs -> [Objects -> [fd : Fds \cup {None}, error : Errors, created : BOOLEAN]]]
  BY DEF FileInv, FileTypeOK
<1>2. file[p][o].fd \in Fds \cup {None}
  BY <1>1
<1>3. file[p][o].fd # None
  BY DEF Valid
<1>4. ValidIsOpen
  BY DEF FileInv
<1> QED
  BY <1>2, <1>3, <1>4 DEF ValidIsOpen

\* Descriptors are duplicated.
LEMMA DuplicateTransfers ==
  ASSUME FileAssumption, TransferInv, FileInv', NEW p \in Procs, NEW o \in Objects, NEW q \in Objects,
         Duplicate(p, o, q)
  PROVE  TransferInv'
<1> DEFINE k == fdtab[p][file[p][q].fd]
<1>1. /\ FileInv /\ FileTypeOK /\ data' \in [Inodes -> Bytes] /\ \A j \in Descs : desc[j].pos \in Nat
      /\ call[p] = Idle /\ UNCHANGED <<call, last>>
  BY DEF TransferInv, FileInv, Bytes, Duplicate, hist
<1>2. CASE UNCHANGED <<desc, fdtab>>
  BY <1>1, <1>2, NoTransfer DEF Idle
<1>3. CASE /\ Valid(p, q) /\ desc' = [desc EXCEPT ![k].refs = @ + 1]
           /\ fdtab' = [fdtab EXCEPT ![p][FirstFree(p)] = k]
  <2>1. file[p][q].fd \in Fds /\ k # None
    BY <1>1, <1>3, ValidHasDescription
  <2>2. k \in Descs /\ k[1] = p
    BY <1>1, <2>1, OwnDescription
  <2> HIDE DEF k
  <2>3. ASSUME NEW j \in Descs
        PROVE  desc'[j].pos \in Nat /\ (j[1] # p => desc'[j] = desc[j])
    <3>1. CASE j = k
      <4>1. desc'[j] = [desc[j] EXCEPT !.refs = @ + 1] /\ DOMAIN desc[j] = {"ino", "pos", "append", "refs"}
        BY <1>1, <1>3, <3>1 DEF FileTypeOK
      <4>2. desc'[j].pos = desc[j].pos
        BY <4>1
      <4> QED
        BY <1>1, <2>2, <3>1, <4>2
    <3>2. CASE j # k
      BY <1>1, <1>3, <3>2 DEF FileTypeOK
    <3> QED
      BY <3>1, <3>2
  <2>4. \A r \in Procs \ {p} : fdtab'[r] = fdtab[r]
    BY <1>1, <1>3 DEF FileTypeOK
  <2> QED
    BY <1>1, <2>3, <2>4, NoTransfer DEF Idle
<1> QED
  BY <1>2, <1>3 DEF Duplicate

\* Files are locked and unlocked.
LEMMA LockTransfers ==
  ASSUME FileAssumption, TransferInv, FileInv', NEW p \in Procs, NEW o \in Objects,
         Lock(p, o) \/ Unlock(p, o)
  PROVE  TransferInv'
<1>1. call[p] = Idle /\ UNCHANGED <<call, last, desc, fdtab, data>>
  BY DEF Lock, Unlock
<1> QED
  BY <1>1, NoTransfer DEF Idle, TransferInv, Bytes

\* Names go away; what is open stays.
LEMMA UnlinkTransfers ==
  ASSUME FileAssumption, TransferInv, FileInv', NEW name \in Names, Unlink(name)
  PROVE  TransferInv'
<1>1. UNCHANGED <<call, last, desc, fdtab, data>>
  BY DEF Unlink
<1>2. \A p \in Procs : UnderWay(p) => UnderWay(p)'
  BY <1>1 DEF UnderWay, InARow
<1> QED
  BY <1>1, <1>2 DEF TransferInv, ReportsWhatMoved, ShortOnlyAtTheEnd, InARow

\* The position is set, and the length.
LEMMA SeekTransfers ==
  ASSUME FileAssumption, TransferInv, FileInv', NEW p \in Procs, NEW o \in Objects, NEW at \in Offsets,
         Seek(p, o, at)
  PROVE  TransferInv'
<1> DEFINE k == fdtab[p][file[p][o].fd]
<1>1. /\ FileInv /\ FileTypeOK /\ data' \in [Inodes -> Bytes] /\ \A j \in Descs : desc[j].pos \in Nat
      /\ call[p] = Idle /\ UNCHANGED <<call, last, fdtab>> /\ Valid(p, o) /\ at \in Nat
      /\ desc' = [desc EXCEPT ![k].pos = at]
  BY DEF TransferInv, FileInv, Bytes, Seek, hist, FileAssumption
<1>2. k[1] = p
  <2>1. file[p][o].fd \in Fds /\ k # None
    BY <1>1, ValidHasDescription
  <2> QED
    BY <1>1, <2>1, OwnDescription
<1> HIDE DEF k
<1>3. ASSUME NEW j \in Descs
      PROVE  desc'[j].pos \in Nat /\ (j[1] # p => desc'[j] = desc[j])
  <2>1. CASE j = k
    <3>1. desc'[j] = [desc[j] EXCEPT !.pos = at] /\ DOMAIN desc[j] = {"ino", "pos", "append", "refs"}
      BY <1>1, <2>1 DEF FileTypeOK
    <3>2. desc'[j].pos = at
      BY <3>1
    <3> QED
      BY <1>1, <1>2, <2>1, <3>2
  <2>2. CASE j # k
    BY <1>1, <2>2 DEF FileTypeOK
  <2> QED
    BY <2>1, <2>2
<1> QED
  BY <1>1, <1>3, NoTransfer DEF Idle

\* Files are cut or grown.
LEMMA SetLengthTransfers ==
  ASSUME FileAssumption, TransferInv, FileInv', NEW p \in Procs, NEW o \in Objects, NEW n \in Offsets,
         SetLength(p, o, n)
  PROVE  TransferInv'
<1> DEFINE i == Inode(p, file[p][o].fd)
           Byte == Procs \cup {"zero"}
<1>1. /\ data \in [Inodes -> Bytes] /\ call[p] = Idle /\ UNCHANGED <<call, last, fdtab, desc>> /\ n \in Nat
      /\ data' = [data EXCEPT ![i] = IF n <= Len(@) THEN SubSeq(@, 1, n) ELSE @ \o Zeros(n - Len(@))]
  BY DEF TransferInv, FileInv, Bytes, SetLength, hist, FileAssumption
<1>2. ASSUME NEW s \in Seq(Byte)
      PROVE  (IF n <= Len(s) THEN SubSeq(s, 1, n) ELSE s \o Zeros(n - Len(s))) \in Seq(Byte)
  <2>1. CASE n <= Len(s)
    <3>1. \A j \in 1..n : s[j] \in Byte
      BY <1>1, <2>1
    <3> QED
      BY <1>1, <2>1, <3>1, SubSeqProperties
  <2>2. CASE ~(n <= Len(s))
    <3>1. n - Len(s) \in Nat /\ "zero" \in Byte
      BY <1>1, <2>2
    <3>2. Zeros(n - Len(s)) \in Seq(Byte)
      BY <3>1, IsASeq DEF Zeros
    <3> QED
      BY <2>2, <3>2, ConcatProperties
  <2> QED
    BY <2>1, <2>2
<1>3. data' \in [Inodes -> Bytes]
  BY <1>1, <1>2 DEF Bytes
<1> QED
  BY <1>1, <1>3, NoTransfer DEF Idle, TransferInv

-----------------------------------------------------------------------------
\* A Read or Write begins: nothing is moved yet.
LEMMA BeginTransfers ==
  ASSUME FileAssumption, TransferInv, FileInv', NEW p \in Procs, NEW o \in Objects,
         NEW op \in {"read", "write"}, NEW at \in Offsets \cup {None}, NEW n \in Sizes,
         NEW loops \in BOOLEAN, Begin(p, o, op, at, n, loops)
  PROVE  TransferInv'
<1> DEFINE fd == file[p][o].fd
           c == [op |-> op, fd |-> fd, size |-> n, loops |-> loops, done |-> <<>>,
                 at |-> IF op = "write" /\ desc[fdtab[p][fd]].append THEN None ELSE at]
<1>1. /\ FileInv /\ FileTypeOK /\ data' \in [Inodes -> Bytes] /\ n \in Nat
      /\ UNCHANGED <<desc, fdtab>> /\ call' = [call EXCEPT ![p] = c] /\ last' = [last EXCEPT ![p] = NothingMoved]
      /\ Valid(p, o) /\ DOMAIN call = Procs /\ DOMAIN last = Procs
      /\ \A j \in Descs : desc'[j].pos \in Nat
  BY DEF TransferInv, FileInv, FileTypeOK, Bytes, Begin, disk, FileAssumption
<1>2. fd \in Fds /\ fdtab[p][fd] # None /\ fdtab[p][fd] \in Descs
  BY <1>1, OwnDescription DEF FileInv, FileTypeOK, ValidIsOpen, Valid
<1>3. /\ DOMAIN c = {"op", "fd", "size", "loops", "done", "at"} /\ c.fd = fd /\ c.size \in Nat
      /\ c.loops \in BOOLEAN /\ c.at \in Offsets \cup {None} /\ c.done = <<>> /\ c.op = op
      /\ c.op = "write" /\ desc[fdtab[p][fd]].append => c.at = None
  BY <1>1
<1> HIDE DEF c, fd
<1>4. call'[p] = c /\ last'[p] = NothingMoved /\ \A q \in Procs \ {p} : call'[q] = call[q] /\ last'[q] = last[q]
  BY <1>1
<1>5. UnderWay(p)'
  <2>1. fdtab'[p][fd] = fdtab[p][fd] /\ desc' = desc
    BY <1>1
  <2>2. <<>> \in Seq(Nat) /\ Len(<<>>) = 0 /\ InARow(<<>>, c.at)
    BY DEF InARow
  <2>3. InARow(<<>>, c.at)'
    BY DEF InARow
  <2> QED
    BY <1>2, <1>3, <1>4, <2>1, <2>2, <2>3 DEF UnderWay
<1>6. Reported(last'[p])
  BY <1>4 DEF Reported, NothingMoved, InARow
<1> QED
  BY <1>1, <1>4, <1>5, <1>6, TransfersGoOn

\* What is moved by one turn of the loop comes behind what was.
Follows(more, done, from, n) ==
  /\ more \in Seq(Nat) /\ Len(more) = Len(done) + n /\ Len(done) \in Nat
  /\ \A i \in 1..Len(done) : more[i] = done[i]
  /\ \A i \in 1..n : more[Len(done) + i] = from + i

\* The positions that one call moves come behind those moved before.
LEMMA MovedFollows ==
  ASSUME NEW done \in Seq(Nat), NEW from \in Nat, NEW n \in Nat
  PROVE  LET more == done \o [i \in 1..n |-> from + i]
         IN  Follows(more, done, from, n) /\ (n = 0 => more = done)
<1> DEFINE new == [i \in 1..n |-> from + i]
<1>1. new \in Seq(Nat) /\ Len(new) = n /\ \A i \in 1..n : new[i] = from + i
  <2>1. \A i \in 1..n : from + i \in Nat
    OBVIOUS
  <2> QED
    BY <2>1
<1>2. n = 0 => new = <<>>
  BY <1>1
<1> HIDE DEF new
<1> QED
  BY <1>1, <1>2 DEF new, Follows

\* Positions in a row, and more that go on where they end, are in a row.
LEMMA RowGrows ==
  ASSUME NEW done \in Seq(Nat), NEW at, at = None \/ at \in Nat, InARow(done, at),
         NEW from \in Nat, NEW n \in Nat,
         at = None /\ done # <<>> => from = done[Len(done)], at # None => from = at + Len(done),
         NEW more, Follows(more, done, from, n)
  PROVE  /\ InARow(more, at)
         /\ n > 0 => more[Len(more)] = from + n
<1> DEFINE first(s) == IF at = None THEN s[1] - 1 ELSE at
<1>2. /\ more \in Seq(Nat) /\ Len(more) = Len(done) + n /\ Len(done) \in Nat
      /\ \A i \in 1..Len(done) : more[i] = done[i]
      /\ \A i \in 1..n : more[Len(done) + i] = from + i
  BY DEF Follows
<1>3. InARow(more, at)
  <2> SUFFICES ASSUME NEW i \in 1..Len(more)
               PROVE  more[i] = first(more) + i
    BY DEF InARow
  <2>1. CASE i <= Len(done)
    <3>1. done[i] = first(done) + i /\ more[i] = done[i] /\ more[1] = done[1]
      BY <1>2, <2>1 DEF InARow
    <3> QED
      BY <3>1
  <2>2. CASE i > Len(done) /\ done = <<>>
    <3>1. Len(done) = 0 /\ more[i] = from + i /\ more[1] = from + 1
      BY <1>2, <2>2
    <3> QED
      BY <3>1
  <2>3. CASE i > Len(done) /\ done # <<>>
    <3>1. Len(done) \in Nat /\ Len(done) > 0
      BY <2>3
    <3>2. /\ done[Len(done)] = first(done) + Len(done) /\ more[1] = done[1]
          /\ more[i] = from + (i - Len(done))
      <4>1. i - Len(done) \in 1..n /\ i = Len(done) + (i - Len(done))
        BY <1>2, <2>3
      <4>2. more[i] = from + (i - Len(done))
        BY <1>2, <4>1
      <4>3. done[Len(done)] = first(done) + Len(done) /\ more[1] = done[1]
        BY <1>2, <3>1 DEF InARow
      <4> QED
        BY <4>2, <4>3
    <3>3. first(done) \in Int /\ first(more) = first(done) /\ from = first(done) + Len(done)
      BY <3>1, <3>2
    <3> QED
      BY <3>1, <3>2, <3>3
  <2> QED
    BY <1>2, <2>1, <2>2, <2>3
<1> QED
  BY <1>2, <1>3

\* One turn of the loop, or its end.
LEMMA TurnReports ==
  ASSUME FileAssumption, TransferInv, NEW p \in Procs, call[p].op \in {"read", "write"},
         NEW rv \in Int, rv >= -1, NEW from \in Nat, Turn(p, rv, from), fdtab' = fdtab,
         LET c == call[p]
             k == fdtab[p][c.fd]
         IN  /\ desc'[k].append = desc[k].append
             /\ c.at = None /\ rv > 0 => desc'[k].pos = from + rv
             /\ rv > 0 /\ (c.op = "read" \/ ~desc[k].append)
                => /\ c.at = None /\ c.done # <<>> => from = c.done[Len(c.done)]
                   /\ c.at # None => from = c.at + Len(c.done)
  PROVE  /\ \A q \in Procs \ {p} : call'[q] = call[q] /\ last'[q] = last[q]
         /\ call'[p].op \in {"read", "write"} => UnderWay(p)'
         /\ DOMAIN last' = Procs /\ Reported(last'[p])
<1> DEFINE c == call[p]
           k == fdtab[p][c.fd]
           n == Max({rv, 0})
           done == c.done \o [i \in 1..n |-> from + i]
<1>1. /\ UnderWay(p) /\ DOMAIN call = Procs /\ DOMAIN last = Procs /\ Reported(last[p])
      /\ c.op \in {"read", "write"}
  BY DEF TransferInv, FileInv, FileTypeOK, Reported, ReportsWhatMoved, ShortOnlyAtTheEnd
<1>2. n = IF rv > 0 THEN rv ELSE 0
  <2>1. (IF rv > 0 THEN rv ELSE 0) \in {rv, 0} /\ \A y \in {rv, 0} : (IF rv > 0 THEN rv ELSE 0) >= y
    OBVIOUS
  <2>2. \A x \in {rv, 0} : (\A y \in {rv, 0} : x >= y) => x = IF rv > 0 THEN rv ELSE 0
    OBVIOUS
  <2> QED
    BY <2>1, <2>2 DEF Max
<1> HIDE DEF n
<1>3. /\ n \in Nat /\ c.done \in Seq(Nat) /\ (c.at = None \/ c.at \in Nat)
      /\ c.size \in Nat /\ c.loops \in BOOLEAN
  <2>1. n \in Nat
    BY <1>2
  <2>2. c.done \in Seq(Nat) /\ c.at \in Offsets \cup {None} /\ c.size \in Nat /\ c.loops \in BOOLEAN
    BY <1>1 DEF UnderWay
  <2>3. c.at = None \/ c.at \in Nat
    BY <2>2 DEF FileAssumption
  <2> QED
    BY <2>1, <2>2, <2>3
<1>4. Follows(done, c.done, from, n) /\ (n = 0 => done = c.done)
  <2> HIDE DEF c
  <2> QED
    BY <1>3, MovedFollows
<1> HIDE DEF done
<1>5. c.op = "read" \/ ~desc[k].append
      => /\ InARow(done, c.at)
         /\ n > 0 => done[Len(done)] = from + n
  <2> SUFFICES ASSUME c.op = "read" \/ ~desc[k].append
               PROVE  InARow(done, c.at) /\ (n > 0 => done[Len(done)] = from + n)
    OBVIOUS
  <2>1. InARow(c.done, c.at)
    BY <1>1 DEF UnderWay
  <2>2. CASE n > 0
    <3>1. /\ c.at = None /\ c.done # <<>> => from = c.done[Len(c.done)]
          /\ c.at # None => from = c.at + Len(c.done)
      BY <1>2, <2>2
    <3>3. c.done \in Seq(Nat) /\ (c.at = None \/ c.at \in Nat) /\ n \in Nat
      BY <1>3
    <3> HIDE DEF c
    <3> QED
      BY <1>4, <2>1, <2>2, <3>1, <3>3, RowGrows
  <2>3. CASE n = 0
    BY <1>4, <2>1, <2>3
  <2> QED
    BY <1>3, <2>2, <2>3
<1>6. CASE GoesOn(c, rv) /\ call' = [call EXCEPT ![p].done = done] /\ UNCHANGED last
  <2>1. rv > 0 /\ n = rv
    BY <1>2, <1>6 DEF GoesOn
  <2>2. call'[p] = [c EXCEPT !.done = done] /\ \A q \in Procs \ {p} : call'[q] = call[q]
    BY <1>1, <1>6
  <2>3. LET d == call'[p] IN
        /\ DOMAIN d = {"op", "fd", "size", "loops", "done", "at"} /\ d.fd = c.fd /\ d.size = c.size
        /\ d.loops = c.loops /\ d.at = c.at /\ d.op = c.op /\ d.done = done
    BY <1>1, <2>2 DEF UnderWay
  <2>4. UnderWay(p)'
    BY <1>1, <1>4, <1>5, <2>1, <2>3 DEF UnderWay, InARow, Follows
  <2> QED
    BY <1>1, <1>6, <2>2, <2>4
<1>7. CASE /\ ~GoesOn(c, rv) /\ call' = [call EXCEPT ![p] = Idle]
           /\ last' = [last EXCEPT ![p] = [op |-> c.op, rv |-> Return(done, rv), at |-> c.at,
                                           done |-> done, append |-> desc[k].append,
                                           short |-> c.loops /\ rv > 0 /\ Len(done) < c.size]]
  <2>1. call'[p] = Idle /\ \A q \in Procs \ {p} : call'[q] = call[q] /\ last'[q] = last[q]
    BY <1>1, <1>7
  <2>2. /\ DOMAIN last' = Procs
        /\ last'[p].rv = Return(done, rv) /\ last'[p].done = done /\ last'[p].at = c.at
        /\ last'[p].append = desc[k].append
        /\ last'[p].short = (c.loops /\ rv > 0 /\ Len(done) < c.size)
    BY <1>1, <1>7
  <2>3. Return(done, rv) = Len(done) \/ (Return(done, rv) = -1 /\ done = <<>>)
    <3>1. done = <<>> => rv = 0 \/ rv = -1
      <4>1. Len(done) = Len(c.done) + n /\ Len(c.done) \in Nat
        BY <1>4 DEF Follows
      <4>2. rv > 0 => Len(done) > 0
        <5> HIDE DEF done, n, c
        <5> QED
          BY <1>2, <4>1
      <4> HIDE DEF done
      <4> QED
        BY <4>2
    <3> QED
      BY <3>1 DEF Return
  <2>4. ~(c.loops /\ rv > 0 /\ Len(done) < c.size)
    BY <1>2, <1>4, <1>7 DEF GoesOn, Follows
  <2>5. Reported(last'[p])
    BY <1>5, <2>2, <2>3, <2>4 DEF Reported
  <2> QED
    BY <2>1, <2>2, <2>5 DEF Idle
<1> QED
  BY <1>6, <1>7 DEF Turn, n, done

\* A position is set.
LEMMA PositionIs ==
  ASSUME FileInv, \A j \in Descs : desc[j].pos \in Nat, NEW k \in Descs, NEW at \in Nat,
         desc' = [desc EXCEPT ![k].pos = at]
  PROVE  /\ desc'[k].pos = at /\ desc'[k].append = desc[k].append
         /\ \A j \in Descs : desc'[j].pos \in Nat /\ (j # k => desc'[j] = desc[j])
<1>1. DOMAIN desc = Descs /\ DOMAIN desc[k] = {"ino", "pos", "append", "refs"}
  BY DEF FileInv, FileTypeOK
<1>2. desc'[k] = [desc[k] EXCEPT !.pos = at] /\ \A j \in Descs : j # k => desc'[j] = desc[j]
  BY <1>1
<1>3. desc'[k].pos = at /\ desc'[k].append = desc[k].append
  BY <1>1, <1>2
<1> QED
  BY <1>2, <1>3

\* A number of bytes that a call can move.
LEMMA FromZeroUp ==
  ASSUME NEW m \in Int, NEW n, n = 0 \/ n \in 1..m
  PROVE  n \in Nat
OBVIOUS

\* The Min and Max of two numbers.
LEMMA LeastOfTwo ==
  ASSUME NEW a \in Int, NEW b \in Int
  PROVE  Min({a, b}) = IF a <= b THEN a ELSE b
<1> DEFINE m == IF a <= b THEN a ELSE b
<1>1. m \in {a, b} /\ \A y \in {a, b} : m =< y
  OBVIOUS
<1>2. \A x \in {a, b} : (\A y \in {a, b} : x =< y) => x = m
  OBVIOUS
<1> QED
  BY <1>1, <1>2 DEF Min

LEMMA LargestOfTwo ==
  ASSUME NEW a \in Int, NEW b \in Int
  PROVE  Max({a, b}) = IF a >= b THEN a ELSE b
<1> DEFINE m == IF a >= b THEN a ELSE b
<1>1. m \in {a, b} /\ \A y \in {a, b} : m >= y
  OBVIOUS
<1>2. \A x \in {a, b} : (\A y \in {a, b} : x >= y) => x = m
  OBVIOUS
<1> QED
  BY <1>1, <1>2 DEF Max

\* What is written into bytes gives bytes, and behind them leaves them as they are.
LEMMA SpliceIs ==
  ASSUME NEW p \in Procs, NEW s \in Bytes, NEW at \in Nat, NEW n \in Nat
  PROVE  /\ Splice(s, at, n, p) \in Bytes
         /\ at = Len(s) => /\ Len(s) <= Len(Splice(s, at, n, p))
                           /\ SubSeq(Splice(s, at, n, p), 1, Len(s)) = s
<1> DEFINE Byte == Procs \cup {"zero"}
           m == Max({Len(s), at + n})
           e(i) == IF i > at /\ i <= at + n THEN p ELSE IF i <= Len(s) THEN s[i] ELSE "zero"
           new == Splice(s, at, n, p)
<1>1. s \in Seq(Byte) /\ Len(s) \in Nat
  BY DEF Bytes
<1>2. m = IF Len(s) >= at + n THEN Len(s) ELSE at + n
  BY <1>1, LargestOfTwo
<1>3. m \in Nat /\ m >= Len(s)
  BY <1>1, <1>2
<1>4. \A i \in 1..m : e(i) \in Byte
  BY <1>1
<1>5. new = [i \in 1..m |-> e(i)]
  BY DEF Splice
<1> HIDE DEF m, new
<1>6. new \in Seq(Byte) /\ Len(new) = m /\ \A i \in 1..m : new[i] = e(i)
  BY <1>3, <1>4, <1>5
<1>7. at = Len(s) => SubSeq(new, 1, Len(s)) = s
  <2> SUFFICES ASSUME at = Len(s) PROVE SubSeq(new, 1, Len(s)) = s
    OBVIOUS
  <2>1. \A i \in 1..Len(s) : new[i] = s[i] /\ new[i] \in Byte
    BY <1>1, <1>3, <1>6
  <2>2. SubSeq(new, 1, Len(s)) \in Seq(Byte) /\ Len(SubSeq(new, 1, Len(s))) = Len(s)
        /\ \A i \in 1..Len(s) : SubSeq(new, 1, Len(s))[i] = new[i]
    BY <1>1, <1>3, <1>6
  <2> QED
    BY <1>1, <2>1, <2>2, SeqEqual
<1> QED
  BY <1>3, <1>6, <1>7 DEF new, Bytes

\* A call of read or write, or a failure.
LEMMA SysCallTransfers ==
  ASSUME FileAssumption, TransferInv, FileInv', NEW p \in Procs, SysCall(p)
  PROVE  TransferInv'
<1> DEFINE c == call[p]
           k == fdtab[p][c.fd]
           i == desc[k].ino
           left == c.size - Len(c.done)
           at == IF c.at = None THEN desc[k].pos ELSE c.at + Len(c.done)
<1>1. /\ FileInv /\ data \in [Inodes -> Bytes] /\ \A j \in Descs : desc[j].pos \in Nat
      /\ c.op \in {"read", "write"} /\ UnderWay(p) /\ fdtab' = fdtab
  BY DEF TransferInv, SysCall, Bytes
<1>2. /\ c.fd \in Fds /\ k \in Descs /\ k # None /\ c.size \in Nat /\ c.done \in Seq(Nat)
      /\ c.at \in Offsets \cup {None}
  BY <1>1 DEF UnderWay, FileAssumption
<1>3. k[1] = p /\ i \in Inodes
  BY <1>1, <1>2, OwnDescription DEF Inode
<1>4. left \in Int /\ at \in Nat /\ data[i] \in Bytes /\ Len(data[i]) \in Nat
  <2>1. Len(c.done) \in Nat /\ desc[k].pos \in Nat /\ (c.at = None \/ c.at \in Nat)
    <3>1. Len(c.done) \in Nat
      <4> HIDE DEF c
      <4> QED
        BY <1>2
    <3>2. desc[k].pos \in Nat
      <4> HIDE DEF k
      <4> QED
        BY <1>1, <1>2
    <3>3. c.at = None \/ c.at \in Nat
      <4> HIDE DEF c
      <4> QED
        BY <1>2 DEF FileAssumption
    <3> QED
      BY <3>1, <3>2, <3>3
  <2>2. at \in Nat /\ left \in Int
    BY <1>2, <2>1
  <2>3. data[i] \in Bytes /\ Len(data[i]) \in Nat
    <3> HIDE DEF i
    <3>1. data[i] \in Bytes
      BY <1>1, <1>3
    <3> QED
      BY <3>1 DEF Bytes
  <2> QED
    BY <2>2, <2>3
<1>5. c.op = "read" \/ ~desc[k].append
      => /\ c.at = None /\ c.done # <<>> => at = c.done[Len(c.done)]
         /\ c.at # None => at = c.at + Len(c.done)
  BY <1>1 DEF UnderWay
<1>6. ASSUME NEW n \in Nat, NEW from \in Nat, Turn(p, n, from), data' \in [Inodes -> Bytes],
             desc' = IF c.at = None THEN [desc EXCEPT ![k].pos = from + n] ELSE desc,
             c.op = "read" \/ ~desc[k].append => from = at
      PROVE  TransferInv'
  <2>1. /\ desc'[k].append = desc[k].append /\ (c.at = None => desc'[k].pos = from + n)
        /\ \A j \in Descs : desc'[j].pos \in Nat /\ (j # k => desc'[j] = desc[j])
    <3>1. CASE c.at = None
      <4>1. desc' = [desc EXCEPT ![k].pos = from + n] /\ from + n \in Nat
        BY <1>6, <3>1
      <4> HIDE DEF k
      <4> QED
        BY <1>1, <1>2, <4>1, PositionIs
    <3>2. CASE c.at # None
      BY <1>1, <1>6, <3>2
    <3> QED
      BY <3>1, <3>2
  <2>2. n > 0 /\ (c.op = "read" \/ ~desc[k].append)
        => /\ c.at = None /\ c.done # <<>> => from = c.done[Len(c.done)]
           /\ c.at # None => from = c.at + Len(c.done)
    BY <1>5, <1>6
  <2>3. /\ \A q \in Procs \ {p} : call'[q] = call[q] /\ last'[q] = last[q]
        /\ call'[p].op \in {"read", "write"} => UnderWay(p)'
        /\ DOMAIN last' = Procs /\ Reported(last'[p])
    <3>1. n \in Int /\ n >= -1 /\ Turn(p, n, from) /\ fdtab' = fdtab /\ c.op \in {"read", "write"}
      BY <1>1, <1>6
    <3>2. c.at = None /\ n > 0 => desc'[k].pos = from + n
      BY <2>1
    <3>3. desc'[k].append = desc[k].append
      BY <2>1
    <3> QED
      BY <2>2, <3>1, <3>2, <3>3, TurnReports
  <2> QED
    BY <1>1, <1>3, <1>6, <2>1, <2>3, TransfersGoOn
<1>7. CASE /\ c.op = "read" /\ UNCHANGED <<data, spent>>
           /\ \E n \in IF left = 0 \/ at >= Len(data[i]) THEN {0} ELSE 1..Min({left, Len(data[i]) - at}) :
                /\ desc' = IF c.at = None THEN [desc EXCEPT ![k].pos = at + n] ELSE desc
                /\ Turn(p, n, at)
  <2>1. PICK n \in IF left = 0 \/ at >= Len(data[i]) THEN {0} ELSE 1..Min({left, Len(data[i]) - at}) :
                /\ desc' = IF c.at = None THEN [desc EXCEPT ![k].pos = at + n] ELSE desc
                /\ Turn(p, n, at)
    BY <1>7
  <2>2. Min({left, Len(data[i]) - at}) \in Int
    <3>1. left \in Int /\ Len(data[i]) - at \in Int
      <4> HIDE DEF left, at, i
      <4> QED
        BY <1>4
    <3> QED
      BY <3>1, LeastOfTwo
  <2>3. n \in Nat
    <3> DEFINE most == Min({left, Len(data[i]) - at})
    <3>1. n \in (IF left = 0 \/ at >= Len(data[i]) THEN {0} ELSE 1..most) /\ most \in Int
      BY <2>1, <2>2
    <3> HIDE DEF most
    <3>2. n = 0 \/ n \in 1..most
      BY <3>1
    <3> QED
      BY <3>1, <3>2, FromZeroUp
  <2> QED
    BY <1>1, <1>4, <1>6, <1>7, <2>1, <2>3
<1>8. CASE /\ c.op = "write"
           /\ \E to \in Landing(k, c, at), n \in IF left = 0 THEN {0} ELSE 1..left :
                /\ data' = IF n = 0 THEN data ELSE [data EXCEPT ![i] = Splice(@, to, n, p)]
                /\ desc' = IF c.at = None THEN [desc EXCEPT ![k].pos = to + n] ELSE desc
                /\ Turn(p, n, to)
  <2>1. PICK to \in Landing(k, c, at), n \in IF left = 0 THEN {0} ELSE 1..left :
                /\ data' = IF n = 0 THEN data ELSE [data EXCEPT ![i] = Splice(@, to, n, p)]
                /\ desc' = IF c.at = None THEN [desc EXCEPT ![k].pos = to + n] ELSE desc
                /\ Turn(p, n, to)
    BY <1>8
  <2>2. n \in Nat
    <3>1. left \in Int /\ (n = 0 \/ n \in 1..left)
      BY <1>4, <2>1
    <3> HIDE DEF left
    <3> QED
      BY <3>1, FromZeroUp
  <2>3. to \in Nat /\ (~desc[k].append => to = at)
    BY <1>4, <2>1 DEF Landing
  <2>4. Splice(data[i], to, n, p) \in Bytes
    BY <1>4, <2>2, <2>3, SpliceIs
  <2>5. data' \in [Inodes -> Bytes]
    BY <1>1, <1>3, <2>1, <2>4
  <2> QED
    BY <1>6, <1>8, <2>1, <2>2, <2>3, <2>5
<1>9. CASE Turn(p, -1, 0) /\ UNCHANGED <<data, desc>>
  <2>1. /\ \A q \in Procs \ {p} : call'[q] = call[q] /\ last'[q] = last[q]
        /\ call'[p].op \in {"read", "write"} => UnderWay(p)'
        /\ DOMAIN last' = Procs /\ Reported(last'[p])
    <3>1. /\ -1 \in Int /\ -1 >= -1 /\ ~(-1 > 0) /\ 0 \in Nat
          /\ Turn(p, -1, 0) /\ desc'[k].append = desc[k].append
      BY <1>9
    <3> QED
      BY <1>1, <3>1, TurnReports
  <2> QED
    BY <1>1, <1>9, <2>1, TransfersGoOn
<1> QED
  BY <1>7, <1>8, <1>9 DEF SysCall

-----------------------------------------------------------------------------
\* The invariant holds at first and is kept by every step.
LEMMA TransfersBegin ==
  ASSUME FileAssumption, FileInit
  PROVE  TransferInv
<1>1. FileInv
  BY FileInitHolds
<1>2. <<>> \in Seq(Procs \cup {"zero"}) /\ Len(<<>>) = 0
  OBVIOUS
<1>3. \A p \in Procs : call[p] = Idle /\ last[p] = NothingMoved
  BY DEF FileInit
<1>4. ReportsWhatMoved /\ ShortOnlyAtTheEnd
  BY <1>2, <1>3 DEF ReportsWhatMoved, ShortOnlyAtTheEnd, NothingMoved, InARow
<1> QED
  BY <1>1, <1>2, <1>3, <1>4 DEF TransferInv, FileInit, Idle

LEMMA TransfersContinue ==
  ASSUME FileAssumption, TransferInv, [FileNext]_fileVars
  PROVE  TransferInv'
<1>1. FileInv'
  BY FileStepHolds DEF TransferInv
<1>2. CASE UNCHANGED fileVars
  <2>1. UNCHANGED <<data, desc, fdtab, call, last>>
    BY <1>2 DEF fileVars
  <2>2. \A p \in Procs : UnderWay(p) => UnderWay(p)'
    BY <2>1 DEF UnderWay, InARow
  <2> QED
    BY <1>1, <2>1, <2>2 DEF TransferInv, ReportsWhatMoved, ShortOnlyAtTheEnd, InARow
<1>3. ASSUME NEW name \in Names, Unlink(name) PROVE TransferInv'
  BY <1>1, <1>3, UnlinkTransfers
<1>4. ASSUME NEW p \in Procs, OpenAgain(p) \/ SysCall(p) PROVE TransferInv'
  BY <1>1, <1>4, OpenAgainTransfers, SysCallTransfers
<1>5. ASSUME NEW p \in Procs, NEW o \in Objects, NEW name \in Names, NEW f \in Modes,
             Initialize(p, o, name, f)
      PROVE  TransferInv'
  BY <1>1, <1>5, InitializeTransfers
<1>6. ASSUME NEW p \in Procs, NEW o \in Objects, Close(p, o) \/ Lock(p, o) \/ Unlock(p, o)
      PROVE  TransferInv'
  BY <1>1, <1>6, CloseTransfers, LockTransfers
<1>7. ASSUME NEW p \in Procs, NEW o \in Objects, NEW q \in Objects,
             Move(p, o, q) \/ Duplicate(p, o, q)
      PROVE  TransferInv'
  BY <1>1, <1>7, CloseTransfers, DuplicateTransfers
<1>8. ASSUME NEW p \in Procs, NEW o \in Objects, NEW n \in Offsets,
             Seek(p, o, n) \/ SetLength(p, o, n)
      PROVE  TransferInv'
  BY <1>1, <1>8, SeekTransfers, SetLengthTransfers
<1>9. ASSUME NEW p \in Procs, NEW o \in Objects, NEW op \in {"read", "write"}, NEW n \in Sizes,
             NEW at \in Offsets \cup {None}, NEW loops \in BOOLEAN, Begin(p, o, op, at, n, loops)
      PROVE  TransferInv'
  BY <1>1, <1>9, BeginTransfers
<1> QED
  BY <1>2, <1>3, <1>4, <1>5, <1>6, <1>7, <1>8, <1>9 DEF FileNext

\* Bytes, positions and calls that are under way keep their types, and what a Read or Write
\* has moved so far is in a row, up to the position where the next call goes on (file.cc).
THEOREM TransferInvariantHolds ==
  ASSUME FileAssumption
  PROVE  FileSpec => []TransferInv
<1>1. FileInit => TransferInv
  BY TransfersBegin
<1>2. TransferInv /\ [FileNext]_fileVars => TransferInv'
  BY TransfersContinue
<1> QED
  BY <1>1, <1>2, PTL DEF FileSpec

\* What Read and Write return is the number of bytes they moved, one after the other from
\* where they began, also if a call of their loop failed; and they give up early only at the
\* end or after a failure (file.cc).
THEOREM TransfersReportWhatMoved ==
  ASSUME FileAssumption
  PROVE  FileSpec => [](ReportsWhatMoved /\ ShortOnlyAtTheEnd)
<1>1. TransferInv => ReportsWhatMoved /\ ShortOnlyAtTheEnd
  BY DEF TransferInv
<1> QED
  BY <1>1, TransferInvariantHolds, PTL

\* Only its own calls move a Read or Write on.
LEMMA OwnCalls ==
  ASSUME TransferInv, FileNext, NEW p \in Procs, call[p].op = "write", call'[p] # call[p]
  PROVE  SysCall(p)
<1>1. DOMAIN call = Procs
  BY DEF TransferInv, FileInv, FileTypeOK
<1>2. call[p] # Idle
  BY DEF Idle
<1>3. ASSUME NEW q \in Procs, NEW x, call' = [call EXCEPT ![q] = x], q # p
      PROVE  FALSE
  BY <1>1, <1>3
<1>4. ASSUME NEW q \in Procs, OpenAgain(q) PROVE FALSE
  BY <1>1, <1>4 DEF OpenAgain
<1>5. ASSUME NEW q \in Procs, SysCall(q), q # p PROVE FALSE
  <2>1. \E x : call' = [call EXCEPT ![q].done = x] \/ call' = [call EXCEPT ![q] = x]
    BY <1>5 DEF SysCall, Turn
  <2> QED
    BY <1>1, <1>5, <2>1
<1>6. ASSUME NEW name, Unlink(name) PROVE FALSE
  BY <1>6 DEF Unlink
<1>7. ASSUME NEW q \in Procs, NEW o, NEW name, NEW f, Initialize(q, o, name, f) PROVE FALSE
  BY <1>1, <1>2, <1>7 DEF Initialize
<1>8. ASSUME NEW q \in Procs, NEW o, NEW r, NEW n,
             Close(q, o) \/ Lock(q, o) \/ Unlock(q, o) \/ Move(q, o, r) \/ Duplicate(q, o, r)
             \/ Seek(q, o, n) \/ SetLength(q, o, n)
      PROVE  FALSE
  BY <1>8 DEF Close, Lock, Unlock, Move, Duplicate, Seek, SetLength
<1>9. ASSUME NEW q \in Procs, NEW o, NEW op, NEW at, NEW n, NEW loops, Begin(q, o, op, at, n, loops)
      PROVE  FALSE
  BY <1>1, <1>2, <1>9 DEF Begin
<1> QED
  BY <1>4, <1>5, <1>6, <1>7, <1>8, <1>9 DEF FileNext

\* Writing through an append file leaves everything that the file has as it is, wherever the
\* caller wanted to write and whatever others write meanwhile (file.cc).
THEOREM AppendsOnlyExtend ==
  ASSUME FileAssumption
  PROVE  FileSpec => AppendsExtend
<1>1. ASSUME TransferInv, [FileNext]_fileVars
      PROVE  [AppendsExtendStep]_fileVars
  <2> SUFFICES ASSUME FileNext, NEW p \in Procs, call[p].op = "write", call'[p] # call[p],
                      desc[fdtab[p][call[p].fd]].append
               PROVE  LET i == Inode(p, call[p].fd) IN
                      Len(data[i]) <= Len(data'[i]) /\ SubSeq(data'[i], 1, Len(data[i])) = data[i]
    BY <1>1 DEF AppendsExtendStep
  <2> DEFINE c == call[p]
             k == fdtab[p][c.fd]
             i == desc[k].ino
             end == Len(data[i])
  <2>1. SysCall(p)
    BY <1>1, OwnCalls
  <2>2. UnderWay(p) /\ FileInv /\ data \in [Inodes -> Bytes]
    BY <1>1 DEF TransferInv, Bytes
  <2>3. c.at = None /\ c.fd \in Fds /\ k # None /\ c.size \in Nat /\ c.done \in Seq(Nat)
    BY <2>2 DEF UnderWay, FileAssumption
  <2>4. i = Inode(p, c.fd) /\ i \in Inodes /\ data[i] \in Bytes /\ end \in Nat
    BY <2>2, <2>3, OwnDescription DEF Inode, Bytes
  <2>5. \/ data' = data
        \/ \E n \in Nat : data' = [data EXCEPT ![i] = Splice(@, end, n, p)]
    <3>1. CASE UNCHANGED data
      BY <3>1
    <3>2. ASSUME NEW to, to \in Landing(k, c, desc[k].pos),
                 NEW n \in IF c.size - Len(c.done) = 0 THEN {0} ELSE 1..(c.size - Len(c.done)),
                 data' = IF n = 0 THEN data ELSE [data EXCEPT ![i] = Splice(@, to, n, p)]
          PROVE  data' = data \/ \E m \in Nat : data' = [data EXCEPT ![i] = Splice(@, end, m, p)]
      <4>1. to = end
        BY <2>3, <3>2 DEF Landing
      <4>2. n \in Nat
        BY <2>3, <3>2
      <4> QED
        BY <3>2, <4>1, <4>2
    <3> QED
      BY <2>1, <2>3, <3>1, <3>2 DEF SysCall
  <2>6. CASE data' = data
    BY <2>4, <2>6 DEF Bytes
  <2>7. ASSUME NEW n \in Nat, data' = [data EXCEPT ![i] = Splice(@, end, n, p)]
        PROVE  end <= Len(data'[i]) /\ SubSeq(data'[i], 1, end) = data[i]
    <3>1. data'[i] = Splice(data[i], end, n, p)
      BY <2>2, <2>4, <2>7
    <3> QED
      BY <2>4, <3>1, SpliceIs
  <2> QED
    BY <2>4, <2>5, <2>6, <2>7
<1> QED
  BY <1>1, TransferInvariantHolds, PTL DEF FileSpec, AppendsExtend

-----------------------------------------------------------------------------
(* Temporary directories.                                                  *)

\* What the constants are to each other.
LEMMA PathsAre ==
    ASSUME ScopedTempDirAssumption
    PROVE  /\ \A n \in Unique : n \in Paths /\ n # Empty /\ n \notin Named
           /\ \A p \in Named : p \in Paths /\ p # Empty
           /\ InTmp \subseteq Unique /\ InBase \subseteq Unique /\ Empty \notin Paths
           /\ \A p \in Paths : Below(p) \subseteq InBase /\ Below(p) \cap InTmp = {}
           /\ Base \in Named /\ NoStep \in Steps
BY DEF ScopedTempDirAssumption, Paths, Unique, Named, Below, NoStep, Steps

\* An object in the middle of a call is at the first step, and has no directory.
LEMMA MidCall ==
    ASSUME TypeOK, NEW d \in Dir, doing[d].do # "none"
    PROVE  path_[d] = Empty
<1>1. ~Ready(d)
  BY DEF Ready, NoStep
<1> QED
  BY <1>1 DEF TypeOK

\* A directory is made for an object that has none.
LEMMA Makes ==
    ASSUME ScopedTempDirAssumption, TempDirInv, NEW d \in Dir, path_[d] = Empty,
           NEW names \in SUBSET Unique, NEW possible, Mkdtemp(d, names, possible),
           (Ready(d) /\ doing' = doing) \/ Goes(d, NoStep), UNCHANGED history
    PROVE  TempDirInv'
<1>1. TypeOK /\ \A n \in Unique : HandKnown(n)
  BY DEF TempDirInv
<1>2. CASE UNCHANGED <<path_, kind, used>>
  <2>1. TypeOK'
    <3>1. doing' \in [Dir -> Steps] /\ \A e \in Dir : ~Ready(e)' => ~Ready(e)
      BY <1>1, PathsAre DEF TypeOK, Goes, Ready
    <3> QED
      BY <1>1, <1>2, <3>1 DEF TypeOK, history
  <2> QED
    BY <1>1, <1>2, <2>1 DEF TempDirInv, HandKnown, Owns, history
<1>3. ASSUME NEW n \in names \ used, Has(d, n), Put({n}, "dir"), used' = used \cup {n}
      PROVE  TempDirInv'
  <2>1. n \in Unique /\ n \in Paths /\ n # Empty
    BY PathsAre
  <2>2. /\ path_' = [path_ EXCEPT ![d] = n] /\ path_ \in [Dir -> Paths \cup {Empty}]
        /\ kind' = [p \in Paths |-> IF p \in {n} THEN "dir" ELSE kind[p]]
        /\ taken' = taken /\ failed' = failed /\ changes' = changes
    BY <1>1, <1>3 DEF Has, Put, TypeOK, history
  <2>3. TypeOK'
    <3>1. doing' \in [Dir -> Steps] /\ \A e \in Dir : ~Ready(e)' => ~Ready(e) /\ e # d
      BY <1>1, PathsAre DEF TypeOK, Goes, Ready
    <3>2. path_' \in [Dir -> Paths \cup {Empty}] /\ \A e \in Dir : e # d => path_'[e] = path_[e]
      BY <2>1, <2>2
    <3>3. kind' \in [Paths -> {"absent", "dir", "file"}]
      BY <1>1, <2>2 DEF TypeOK
    <3>4. used' \subseteq Unique
      BY <1>1, <1>3, <2>1 DEF TypeOK
    <3> QED
      BY <1>1, <2>2, <3>1, <3>2, <3>3, <3>4 DEF TypeOK
  <2>4. ASSUME NEW m \in Unique
        PROVE  HandKnown(m)'
    <3>1. HandKnown(m) /\ m \in Paths
      BY <1>1, PathsAre
    <3>2. CASE m = n
      <4>1. /\ kind'[n] = "dir" /\ n \in used' /\ path_'[d] = n
            /\ \A e \in Dir : path_'[e] = n => e = d
        BY <1>3, <2>1, <2>2, <3>1, <3>2 DEF HandKnown, Owns
      <4>2. n \notin taken' /\ n \notin failed'
        BY <2>2, <3>1, <3>2 DEF HandKnown
      <4> QED
        BY <3>2, <4>1, <4>2 DEF HandKnown, Owns
    <3>3. CASE m # n
      <4>1. kind'[m] = kind[m] /\ (m \in used' <=> m \in used) /\ m # Empty
        BY <1>3, <2>2, <3>1, <3>3, PathsAre
      <4>2. \A e \in Dir : path_'[e] = m <=> path_[e] = m
        BY <2>2, <3>3, <4>1
      <4> QED
        BY <2>2, <3>1, <4>1, <4>2 DEF HandKnown, Owns
    <3> QED
      BY <3>2, <3>3
  <2> QED
    BY <2>3, <2>4 DEF TempDirInv
<1> QED
  BY <1>2, <1>3 DEF Mkdtemp

\* Nothing changes for a directory, or nothing but that it vanishes with the one it is in.
LEMMA HandStays ==
    ASSUME NEW n \in Unique, HandKnown(n), used' = used, taken' = taken, failed' = failed,
           \A e \in Dir : path_'[e] = n <=> path_[e] = n,
           kind'[n] = kind[n] \/ (n \notin InTmp /\ kind'[n] = "absent")
    PROVE  HandKnown(n)'
<1>1. \A e \in Dir : Owns(e, n)' <=> Owns(e, n)
  BY DEF Owns
<1>2. CASE kind'[n] = kind[n]
  BY <1>1, <1>2 DEF HandKnown
<1>3. CASE n \notin InTmp /\ kind'[n] = "absent"
  <2>1. kind'[n] # "dir"
    BY <1>3
  <2> QED
    BY <1>1, <1>3, <2>1, Zenon DEF HandKnown
<1> QED
  BY <1>2, <1>3

\* The first step of CreateUniqueTempDirUnderPath, and World where something appears, and
\* both steps of Set: directories that are named come and go, and may be an object's.
LEMMA NamedOnes ==
    ASSUME ScopedTempDirAssumption, TempDirInv, used' = used, taken' = taken, failed' = failed,
           changes' \in Nat, path_' \in [Dir -> Paths \cup {Empty}], doing' \in [Dir -> Steps],
           kind' \in [Paths -> {"absent", "dir", "file"}],
           \A e \in Dir : path_'[e] # path_[e] => path_[e] = Empty /\ path_'[e] \in Named,
           \A e \in Dir : ~Ready(e)' => path_'[e] = Empty,
           \A n \in Unique : kind'[n] = kind[n] \/ (n \notin InTmp /\ kind'[n] = "absent")
    PROVE  TempDirInv'
<1>1. TypeOK /\ \A n \in Unique : HandKnown(n)
  BY DEF TempDirInv
<1>2. TypeOK'
  BY <1>1 DEF TypeOK
<1>3. ASSUME NEW n \in Unique
      PROVE  HandKnown(n)'
  <2>1. \A e \in Dir : path_'[e] = n <=> path_[e] = n
    BY PathsAre
  <2> QED
    BY <1>1, <2>1, HandStays
<1> QED
  BY <1>2, <1>3 DEF TempDirInv

\* The directory of an object is let go: it is gone, or it stays and its taker's, or nobody's.
LEMMA LetsGo ==
    ASSUME ScopedTempDirAssumption, TempDirInv, NEW d \in Dir, Ready(d), path_[d] # Empty,
           Has(d, Empty), doing' = doing, used' = used, changes' = changes,
           kind' \in [Paths -> {"absent", "dir", "file"}],
           \/ kind'[path_[d]] = "absent" /\ taken' = taken /\ failed' = failed
           \/ /\ path_[d] \in Unique => kind'[path_[d]] = kind[path_[d]]
              /\ \/ taken' = taken \cup {path_[d]} /\ failed' = failed
                 \/ taken' = taken /\ failed' = failed \cup {path_[d]},
           \A n \in Unique \ {path_[d]} : kind'[n] = kind[n] \/ (n \notin InTmp /\ kind'[n] = "absent")
    PROVE  TempDirInv'
<1> DEFINE q == path_[d]
<1>1. TypeOK /\ \A n \in Unique : HandKnown(n)
  BY DEF TempDirInv
<1>2. /\ path_' = [path_ EXCEPT ![d] = Empty] /\ path_ \in [Dir -> Paths \cup {Empty}]
      /\ q \in Paths
  BY <1>1 DEF Has, TypeOK
<1>3. TypeOK'
  <2>1. path_' \in [Dir -> Paths \cup {Empty}] /\ \A e \in Dir : path_'[e] = path_[e] \/ path_'[e] = Empty
    BY <1>2
  <2>2. \A e \in Dir : ~Ready(e)' => path_'[e] = Empty
    BY <1>1, <2>1 DEF TypeOK, Ready
  <2>3. taken' \cup failed' \subseteq Paths
    BY <1>1, <1>2 DEF TypeOK
  <2> QED
    BY <1>1, <2>1, <2>2, <2>3 DEF TypeOK
<1>4. ASSUME NEW n \in Unique
      PROVE  HandKnown(n)'
  <2>1. HandKnown(n) /\ n # Empty
    BY <1>1, PathsAre
  <2>2. CASE n = q
    <3>1. n \notin taken /\ n \notin failed /\ n \in used /\ (n \in InTmp => kind[n] = "dir")
      BY <2>1, <2>2 DEF HandKnown, Owns
    <3>2. \A e \in Dir : ~Owns(e, n)'
      BY <1>2, <2>1, <2>2 DEF HandKnown, Owns
    <3>3. CASE kind'[q] = "absent" /\ taken' = taken /\ failed' = failed
      BY <2>2, <3>1, <3>2, <3>3 DEF HandKnown
    <3>4. CASE kind'[n] = kind[n] /\ taken' = taken \cup {q} /\ failed' = failed
      BY <2>2, <3>1, <3>2, <3>4 DEF HandKnown
    <3>5. CASE kind'[n] = kind[n] /\ taken' = taken /\ failed' = failed \cup {q}
      BY <2>2, <3>1, <3>2, <3>5 DEF HandKnown
    <3> QED
      BY <2>2, <3>3, <3>4, <3>5
  <2>3. CASE n # q
    <3>1. \A e \in Dir : Owns(e, n)' <=> Owns(e, n)
      BY <1>2, <2>1, <2>3 DEF Owns
    <3>2. (n \in taken' <=> n \in taken) /\ (n \in failed' <=> n \in failed)
      BY <2>3
    <3>3. kind'[n] = kind[n] \/ (n \notin InTmp /\ kind'[n] = "absent")
      BY <2>3
    <3>4. CASE kind'[n] = kind[n]
      BY <2>1, <3>1, <3>2, <3>4, Zenon DEF HandKnown
    <3>5. CASE n \notin InTmp /\ kind'[n] = "absent"
      <4>1. kind'[n] # "dir"
        BY <3>5
      <4> QED
        BY <2>1, <3>1, <3>2, <3>5, <4>1, Zenon DEF HandKnown
    <3> QED
      BY <3>3, <3>4, <3>5
  <2> QED
    BY <2>2, <2>3
<1> QED
  BY <1>3, <1>4 DEF TempDirInv

-----------------------------------------------------------------------------
\* Nothing has been made.
LEMMA TempDirsBegin ==
    ASSUME ScopedTempDirAssumption, Init
    PROVE  TempDirInv
<1>1. TypeOK
  BY PathsAre DEF Init, TypeOK, Ready
<1>2. ASSUME NEW n \in Unique
      PROVE  HandKnown(n)
  BY PathsAre DEF Init, HandKnown, Owns
<1> QED
  BY <1>1, <1>2 DEF TempDirInv

\* What is taken away at a path and below it.
LEMMA PutAbsent ==
    ASSUME ScopedTempDirAssumption, TypeOK, NEW q \in Paths, NEW S \in SUBSET ({q} \cup Below(q)),
           Put(S, "absent")
    PROVE  /\ kind' \in [Paths -> {"absent", "dir", "file"}]
           /\ \A n \in Unique \ {q} : kind'[n] = kind[n] \/ (n \notin InTmp /\ kind'[n] = "absent")
           /\ q \in S => kind'[q] = "absent"
           /\ q \notin S => kind'[q] = kind[q]
<1>1. kind' = [p \in Paths |-> IF p \in S THEN "absent" ELSE kind[p]]
  BY DEF Put
<1>2. kind' \in [Paths -> {"absent", "dir", "file"}]
  BY <1>1 DEF TypeOK
<1>3. ASSUME NEW n \in Unique \ {q}
      PROVE  kind'[n] = kind[n] \/ (n \notin InTmp /\ kind'[n] = "absent")
  <2>1. n \in Paths /\ (n \in S => n \notin InTmp)
    BY PathsAre
  <2> QED
    BY <1>1, <2>1
<1> QED
  BY <1>1, <1>2, <1>3

\* A path that mkdtemp gave has nothing below that is looked at.
LEMMA NothingBelow ==
    ASSUME ScopedTempDirAssumption, NEW q \in Unique
    PROVE  Below(q) = {}
BY PathsAre DEF Below

\* Delete: all of it, and the object has none; or some of what is inside, and it keeps it.
LEMMA Deletes ==
    ASSUME ScopedTempDirAssumption, TempDirInv, NEW d \in Dir, Delete(d)
    PROVE  TempDirInv'
<1>1. /\ TypeOK /\ Ready(d) /\ path_[d] # Empty /\ path_[d] \in Paths
      /\ UNCHANGED <<doing, used, taken, failed, changes>>
  BY DEF TempDirInv, TypeOK, Delete, history
<1>2. CASE DeletesAll(path_[d]) /\ Has(d, Empty)
  <2>1. Put({path_[d]} \cup Below(path_[d]), "absent")
    BY <1>2 DEF DeletesAll
  <2> QED
    BY <1>1, <1>2, <2>1, PutAbsent, LetsGo
<1>3. CASE DeletesSome(path_[d]) /\ UNCHANGED path_
  <2>1. PICK S \in SUBSET Below(path_[d]) : Put(S, "absent")
    BY <1>3 DEF DeletesSome
  <2>2. /\ kind' \in [Paths -> {"absent", "dir", "file"}]
        /\ \A n \in Unique : kind'[n] = kind[n] \/ (n \notin InTmp /\ kind'[n] = "absent")
    BY <1>1, <2>1, PutAbsent, NothingBelow
  <2>3. changes' \in Nat /\ path_' \in [Dir -> Paths \cup {Empty}] /\ doing' \in [Dir -> Steps]
        /\ \A e \in Dir : ~Ready(e)' => path_'[e] = Empty
    BY <1>1, <1>3 DEF TypeOK, Ready
  <2> QED
    BY <1>1, <1>3, <2>2, <2>3, NamedOnes
<1> QED
  BY <1>2, <1>3 DEF Delete

\* The destructor: gone, or left to nobody.
LEMMA Destroys ==
    ASSUME ScopedTempDirAssumption, TempDirInv, NEW d \in Dir, Destroy(d)
    PROVE  TempDirInv'
<1>1. /\ TypeOK /\ Ready(d) /\ path_[d] # Empty /\ path_[d] \in Paths /\ Has(d, Empty)
      /\ UNCHANGED <<doing, used, taken, changes>>
  BY DEF TempDirInv, TypeOK, Destroy
<1>2. CASE DeletesAll(path_[d]) /\ UNCHANGED failed
  <2>1. Put({path_[d]} \cup Below(path_[d]), "absent")
    BY <1>2 DEF DeletesAll
  <2> QED
    BY <1>1, <1>2, <2>1, PutAbsent, LetsGo
<1>3. CASE DeletesSome(path_[d]) /\ failed' = failed \cup {path_[d]}
  <2>1. PICK S \in SUBSET Below(path_[d]) : Put(S, "absent")
    BY <1>3 DEF DeletesSome
  <2>2. /\ kind' \in [Paths -> {"absent", "dir", "file"}]
        /\ \A n \in Unique \ {path_[d]} : kind'[n] = kind[n] \/ (n \notin InTmp /\ kind'[n] = "absent")
        /\ path_[d] \in Unique => kind'[path_[d]] = kind[path_[d]]
    BY <1>1, <2>1, PutAbsent, NothingBelow
  <2> QED
    BY <1>1, <1>3, <2>2, LetsGo
<1> QED
  BY <1>2, <1>3 DEF Destroy

\* Take leaves everything where it is.
LEMMA Takes ==
    ASSUME ScopedTempDirAssumption, TempDirInv, NEW d \in Dir, Take(d)
    PROVE  TempDirInv'
BY LetsGo DEF TempDirInv, TypeOK, Take

\* Set, when the directory exists and when it has to be made.
LEMMA Sets ==
    ASSUME ScopedTempDirAssumption, TempDirInv, NEW d \in Dir, NEW p \in Named, Set(d, p)
    PROVE  TempDirInv'
<1>1. /\ TypeOK /\ Ready(d) /\ path_[d] = Empty /\ UNCHANGED <<kind, used, taken, failed, changes>>
      /\ p \in Paths
  BY PathsAre DEF TempDirInv, Set, history
<1>2. CASE Has(d, p) /\ UNCHANGED doing
  <2>1. path_' \in [Dir -> Paths \cup {Empty}] /\ path_'[d] = p /\ \A e \in Dir \ {d} : path_'[e] = path_[e]
    BY <1>1, <1>2 DEF TypeOK, Has
  <2>2. \A e \in Dir : ~Ready(e)' => path_'[e] = Empty
    BY <1>1, <1>2, <2>1 DEF TypeOK, Ready
  <2> QED
    BY <1>1, <1>2, <2>1, <2>2, NamedOnes DEF TypeOK
<1>3. CASE Goes(d, [do |-> "mkdir", dir |-> p]) /\ UNCHANGED path_
  <2>1. doing' \in [Dir -> Steps] /\ \A e \in Dir \ {d} : doing'[e] = doing[e]
    BY <1>1, <1>3 DEF TypeOK, Goes, Steps
  <2>2. \A e \in Dir : ~Ready(e)' => path_'[e] = Empty
    BY <1>1, <1>3, <2>1 DEF TypeOK, Ready
  <2> QED
    BY <1>1, <1>3, <2>1, <2>2, NamedOnes DEF TypeOK
<1> QED
  BY <1>2, <1>3 DEF Set

\* What is put at a named path is none of the directories that mkdtemp made.
LEMMA PutNamed ==
    ASSUME ScopedTempDirAssumption, TypeOK, NEW q \in Named, NEW k \in {"dir", "file"}, Put({q}, k)
    PROVE  kind' \in [Paths -> {"absent", "dir", "file"}] /\ \A n \in Unique : kind'[n] = kind[n]
<1>1. kind' = [p \in Paths |-> IF p \in {q} THEN k ELSE kind[p]]
  BY DEF Put
<1>2. \A n \in Unique : n \in Paths /\ n # q
  BY PathsAre
<1> QED
  BY <1>1, <1>2 DEF TypeOK

\* CreateUniqueTempDirUnderPath, before mkdtemp.
LEMMA CreatesUnder ==
    ASSUME ScopedTempDirAssumption, TempDirInv, NEW d \in Dir, CreateUniqueTempDirUnderPath(d)
    PROVE  TempDirInv'
<1>1. /\ TypeOK /\ Ready(d) /\ path_[d] = Empty /\ UNCHANGED <<path_, used, taken, failed, changes>>
      /\ Directory(Base, Goes(d, [do |-> "mkdtemp"]), UNCHANGED doing)
  BY DEF TempDirInv, CreateUniqueTempDirUnderPath, history
<1>2. /\ kind' \in [Paths -> {"absent", "dir", "file"}] /\ \A n \in Unique : kind'[n] = kind[n]
      /\ Goes(d, [do |-> "mkdtemp"]) \/ UNCHANGED doing
  <2>1. CASE Put({Base}, "dir")
    BY <1>1, <2>1, PathsAre, PutNamed DEF Directory
  <2>2. CASE UNCHANGED kind
    BY <1>1, <2>2 DEF TypeOK, Directory
  <2> QED
    BY <1>1, <2>1, <2>2 DEF Directory
<1>3. doing' \in [Dir -> Steps] /\ \A e \in Dir \ {d} : doing'[e] = doing[e]
  BY <1>1, <1>2 DEF TypeOK, Goes, Steps
<1>4. \A e \in Dir : ~Ready(e)' => path_'[e] = Empty
  BY <1>1, <1>3 DEF TypeOK, Ready
<1> QED
  BY <1>1, <1>2, <1>3, <1>4, NamedOnes DEF TypeOK

\* Set, after CreateDirectory.
LEMMA SetsCreated ==
    ASSUME ScopedTempDirAssumption, TempDirInv, NEW d \in Dir, SetCreates(d)
    PROVE  TempDirInv'
<1> DEFINE q == doing[d].dir
<1>1. /\ TypeOK /\ doing[d].do = "mkdir" /\ Goes(d, NoStep) /\ UNCHANGED <<used, taken, failed, changes>>
      /\ Directory(q, Has(d, q), UNCHANGED path_)
  BY DEF TempDirInv, SetCreates, history
<1>2. q \in Named /\ q \in Paths /\ path_[d] = Empty
  <2>1. doing[d] \in Steps
    BY <1>1 DEF TypeOK
  <2>2. q \in Named
    BY <1>1, <2>1 DEF Steps, NoStep
  <2> QED
    BY <1>1, <2>2, MidCall, PathsAre
<1> HIDE DEF q
<1>3. /\ kind' \in [Paths -> {"absent", "dir", "file"}] /\ \A n \in Unique : kind'[n] = kind[n]
      /\ Has(d, q) \/ UNCHANGED path_
  <2>1. CASE Put({q}, "dir")
    BY <1>1, <1>2, <2>1, PutNamed DEF Directory
  <2>2. CASE UNCHANGED kind
    BY <1>1, <2>2 DEF TypeOK, Directory
  <2> QED
    BY <1>1, <2>1, <2>2 DEF Directory
<1>4. /\ path_' \in [Dir -> Paths \cup {Empty}] /\ \A e \in Dir \ {d} : path_'[e] = path_[e]
      /\ path_'[d] \in {path_[d], q}
  BY <1>1, <1>2, <1>3 DEF TypeOK, Has
<1>5. doing' \in [Dir -> Steps] /\ doing'[d] = NoStep /\ \A e \in Dir \ {d} : doing'[e] = doing[e]
  BY <1>1, PathsAre DEF TypeOK, Goes
<1>6. \A e \in Dir : ~Ready(e)' => path_'[e] = Empty
  BY <1>1, <1>4, <1>5 DEF TypeOK, Ready
<1> QED
  BY <1>1, <1>2, <1>3, <1>4, <1>5, <1>6, NamedOnes DEF TypeOK

\* Other programs touch named directories; with one goes what is in it.
LEMMA Worlds ==
    ASSUME ScopedTempDirAssumption, TempDirInv, NEW p \in Named, World(p)
    PROVE  TempDirInv'
<1>1. /\ TypeOK /\ UNCHANGED <<path_, doing, used, taken, failed>> /\ changes' = changes + 1
      /\ p \in Paths
  BY PathsAre DEF TempDirInv, World
<1>2. /\ kind' \in [Paths -> {"absent", "dir", "file"}]
      /\ \A n \in Unique : kind'[n] = kind[n] \/ (n \notin InTmp /\ kind'[n] = "absent")
  <2>1. CASE \E k \in {"dir", "file"} : Put({p}, k)
    BY <1>1, <2>1, PutNamed
  <2>2. CASE DeletesAll(p)
    <3>1. Put({p} \cup Below(p), "absent")
      BY <2>2 DEF DeletesAll
    <3>2. \A n \in Unique : n # p
      BY PathsAre
    <3> QED
      BY <1>1, <3>1, <3>2, PutAbsent
  <2> QED
    BY <2>1, <2>2 DEF World
<1>3. \A e \in Dir : ~Ready(e)' => path_'[e] = Empty
  BY <1>1 DEF TypeOK, Ready
<1> QED
  BY <1>1, <1>2, <1>3, NamedOnes DEF TypeOK

\* TempDirInv is inductive.
LEMMA TempDirsContinue ==
    ASSUME ScopedTempDirAssumption, TempDirInv, [Next]_vars
    PROVE  TempDirInv'
<1>1. ASSUME NEW d \in Dir, CreateUniqueTempDir(d)
      PROVE  TempDirInv'
  <2>1. InTmp \in SUBSET Unique
    BY PathsAre
  <2> QED
    BY <1>1, <2>1, Makes DEF CreateUniqueTempDir, history
<1>2. ASSUME NEW d \in Dir, CreateTemporaryDirInDir(d)
      PROVE  TempDirInv'
  <2>1. InBase \in SUBSET Unique
    BY PathsAre
  <2>2. path_[d] = Empty
    BY <1>2, MidCall DEF CreateTemporaryDirInDir, TempDirInv
  <2> QED
    BY <1>2, <2>1, <2>2, Makes DEF CreateTemporaryDirInDir
<1>3. CASE UNCHANGED vars
  BY <1>3 DEF vars, TempDirInv, TypeOK, HandKnown, Owns, Ready
<1> QED
  BY <1>1, <1>2, <1>3, CreatesUnder, Sets, SetsCreated, Deletes, Destroys, Takes, Worlds DEF Next

\* Every variable of ScopedTempDir keeps its type; a directory that mkdtemp made is in one
\* hand; names that it has yet to give are nowhere (scoped_temp_dir.cc, file_util.cc).
THEOREM TempDirInvariantHolds ==
    ASSUME ScopedTempDirAssumption
    PROVE  Spec => []TempDirInv
<1>1. Init => TempDirInv
  BY TempDirsBegin
<1>2. TempDirInv /\ [Next]_vars => TempDirInv'
  BY TempDirsContinue
<1> QED
  BY <1>1, <1>2, PTL DEF Spec

\* Directories made for ScopedTempDirs are theirs, or their takers', until they are gone: none
\* is left behind but those that a destructor could not delete, and none that was taken
\* disappears (scoped_temp_dir.cc:11-76).
THEOREM NothingIsLeftBehind ==
    ASSUME ScopedTempDirAssumption
    PROVE  Spec => []NothingLeftBehind
<1>1. ASSUME TempDirInv
      PROVE  NothingLeftBehind
  <2> SUFFICES ASSUME NEW n \in Unique
               PROVE  /\ n \in taken \cap InTmp => kind[n] = "dir"
                      /\ LET owners == {d \in Dir : path_[d] = n}
                             others == (IF n \in taken THEN 1 ELSE 0) + (IF n \in failed THEN 1 ELSE 0)
                         IN  /\ Cardinality(owners) + others <= 1
                             /\ kind[n] = "dir" => Cardinality(owners) + others = 1
    BY DEF NothingLeftBehind
  <2> DEFINE owners == {d \in Dir : path_[d] = n}
             others == (IF n \in taken THEN 1 ELSE 0) + (IF n \in failed THEN 1 ELSE 0)
  <2>1. HandKnown(n)
    BY <1>1 DEF TempDirInv
  <2>2. others \in {0, 1} /\ (others = 1 <=> n \in taken \/ n \in failed)
    BY <2>1 DEF HandKnown
  <2>3. CASE owners = {}
    <3>1. Cardinality(owners) = 0
      BY <2>3, FS_EmptySet
    <3>2. kind[n] = "dir" => others = 1
      BY <2>1, <2>2, <2>3 DEF HandKnown, Owns
    <3> HIDE DEF owners, others
    <3>3. Cardinality(owners) + others <= 1 /\ (kind[n] = "dir" => Cardinality(owners) + others = 1)
      BY <2>2, <3>1, <3>2
    <3> QED
      BY <2>1, <3>3 DEF HandKnown, owners, others
  <2>4. CASE owners # {}
    <3>1. PICK d \in Dir : path_[d] = n
      BY <2>4
    <3>2. owners = {d}
      BY <2>1, <3>1 DEF HandKnown, Owns
    <3>3. Cardinality(owners) = 1
      BY <3>2, FS_Singleton
    <3>4. others = 0
      BY <2>1, <2>2, <3>1 DEF HandKnown, Owns
    <3> HIDE DEF owners, others
    <3>5. Cardinality(owners) + others = 1
      BY <3>3, <3>4
    <3>6. n \in taken \cap InTmp => kind[n] = "dir"
      BY <2>1 DEF HandKnown
    <3>7. Cardinality(owners) + others <= 1
      BY <3>5
    <3> QED
      BY <3>5, <3>6, <3>7 DEF owners, others
  <2> QED
    BY <2>3, <2>4
<1> QED
  BY <1>1, TempDirInvariantHolds, PTL

\* An object that has a directory has that one until Delete or Take, whatever is called
\* (scoped_temp_dir.h:10-12).
THEOREM DirectoriesAreEstablishedOnce ==
    ASSUME ScopedTempDirAssumption
    PROVE  Spec => EstablishedOnce
<1>1. ASSUME TempDirInv, [Next]_vars
      PROVE  [EstablishedOnceStep]_vars
  <2> SUFFICES ASSUME NEW e \in Dir, path_[e] # Empty, Next
               PROVE  path_'[e] \in {path_[e], Empty}
    BY <1>1 DEF EstablishedOnceStep
  <2>1. TypeOK
    BY <1>1 DEF TempDirInv
  <2>2. ASSUME NEW d \in Dir, NEW q, Has(d, q), path_[d] = Empty \/ q = Empty
        PROVE  path_'[e] \in {path_[e], Empty}
    BY <2>1, <2>2 DEF Has, TypeOK
  <2>3. CASE UNCHANGED path_
    BY <2>3
  <2>4. ASSUME NEW d \in Dir, NEW q, NEW f, Directory(q, Has(d, f), UNCHANGED path_), path_[d] = Empty
        PROVE  path_'[e] \in {path_[e], Empty}
    BY <2>2, <2>3, <2>4 DEF Directory
  <2>5. ASSUME NEW d \in Dir, NEW names, NEW possible, Mkdtemp(d, names, possible), path_[d] = Empty
        PROVE  path_'[e] \in {path_[e], Empty}
    BY <2>2, <2>3, <2>5 DEF Mkdtemp
  <2>6. ASSUME NEW d \in Dir, CreateUniqueTempDir(d) \/ CreateTemporaryDirInDir(d)
        PROVE  path_'[e] \in {path_[e], Empty}
    BY <2>1, <2>5, <2>6, MidCall DEF CreateUniqueTempDir, CreateTemporaryDirInDir
  <2>7. ASSUME NEW d \in Dir, NEW p \in Named, Set(d, p)
        PROVE  path_'[e] \in {path_[e], Empty}
    BY <2>2, <2>3, <2>7 DEF Set
  <2>8. ASSUME NEW d \in Dir, SetCreates(d)
        PROVE  path_'[e] \in {path_[e], Empty}
    BY <2>1, <2>4, <2>8, MidCall DEF SetCreates
  <2>9. ASSUME NEW d \in Dir, Delete(d) \/ Destroy(d) \/ Take(d)
        PROVE  path_'[e] \in {path_[e], Empty}
    BY <2>2, <2>3, <2>9 DEF Delete, Destroy, Take
  <2>10. ASSUME NEW d \in Dir, CreateUniqueTempDirUnderPath(d)
         PROVE  path_'[e] \in {path_[e], Empty}
    BY <2>3, <2>10 DEF CreateUniqueTempDirUnderPath
  <2>11. ASSUME NEW p \in Named, World(p)
         PROVE  path_'[e] \in {path_[e], Empty}
    BY <2>3, <2>11 DEF World
  <2> QED
    BY <2>6, <2>7, <2>8, <2>9, <2>10, <2>11 DEF Next
<1> QED
  BY <1>1, TempDirInvariantHolds, PTL DEF Spec, EstablishedOnce

-----------------------------------------------------------------------------
(* Directory trees.                                                        *)

\* The root is within, and so is what is found within.
LEMMA FoundWithin ==
    ASSUME DirTreeAssumption
    PROVE  Root \in Within /\ \A n \in Within : Children(n) \subseteq Within
<1>1. Root \in Nodes /\ Linked # Root /\ Parent[Root] = "top" /\ Parent[Linked] = "top"
      /\ Linked \in Nodes /\ "top" \notin Nodes
  BY DEF DirTreeAssumption
<1> QED
  BY <1>1 DEF Within, Children

\* What readdir gives is a sequence of what there is.
LEMMA OrdersAreSequences ==
    ASSUME NEW S, IsFiniteSet(S), NEW s \in SetToSeqs(S)
    PROVE  s \in Seq(S)
<1>1. Cardinality(S) \in Nat
  BY FS_CardinalityType
<1>2. s \in [1..Cardinality(S) -> S]
  BY DEF SetToSeqs
<1> QED
  BY <1>1, <1>2

\* What is left of a sequence ends as the sequence does.
LEMMA LastOfTail ==
    ASSUME NEW S, NEW s \in Seq(S), s # <<>>
    PROVE  /\ s[1] \in S /\ Tail(s) \in Seq(S)
           /\ IF Tail(s) = <<>> THEN s[1] = s[Len(s)] ELSE Tail(s)[Len(Tail(s))] = s[Len(s)]
<1> DEFINE t == Tail(s)
<1>1. /\ Len(s) \in Nat /\ s[1] \in S /\ t \in Seq(S)
      /\ Len(t) = Len(s) - 1 /\ \A i \in 1..(Len(s) - 1) : t[i] = s[i + 1]
  OBVIOUS
<1>2. (t = <<>>) <=> (Len(t) = 0)
  <2> HIDE DEF t
  <2> QED
    BY <1>1
<1> HIDE DEF t
<1>3. CASE Len(t) = 0
  <2>1. Len(s) = 1
    BY <1>1, <1>3
  <2> QED
    BY <1>1, <1>2, <1>3, <2>1 DEF t
<1>4. CASE Len(t) # 0
  <2>1. Len(t) \in Nat
    BY <1>1
  <2>2. Len(s) - 1 \in 1..(Len(s) - 1)
    BY <1>1, <1>4, <2>1
  <2>3. t[Len(t)] = s[Len(s)]
    BY <1>1, <2>2
  <2> QED
    BY <1>1, <1>2, <1>4, <2>3 DEF t
<1> QED
  BY <1>3, <1>4

\* What a sequence begins with, and what is left.
LEMMA HeadAndTail ==
    ASSUME NEW S, NEW s \in Seq(S), s # <<>>
    PROVE  s[1] \in S /\ Tail(s) \in Seq(S)
OBVIOUS

\* Directories are put before those that are pending.
OldAndNew(more, S, new, old) ==
    /\ more \in Seq(S)
    /\ \A i \in 1..Len(more) : more[i] \in new \/ \E j \in 1..Len(old) : more[i] = old[j]

LEMMA PutBefore ==
    ASSUME NEW S, NEW T, T \subseteq S, NEW s \in Seq(T), NEW t \in Seq(S)
    PROVE  OldAndNew(Reverse(s) \o t, S, T, t)
<1> DEFINE r == Reverse(s)
<1>1. Len(s) \in Nat /\ Len(t) \in Nat /\ \A i \in 1..Len(s) : s[i] \in T
  OBVIOUS
<1>2. r \in Seq(T) /\ Len(r) = Len(s) /\ \A i \in 1..Len(r) : r[i] \in T
  <2>1. \A i \in 1..Len(s) : (Len(s) - i) + 1 \in 1..Len(s)
    BY <1>1
  <2>2. r = [i \in 1..Len(s) |-> s[(Len(s) - i) + 1]]
    BY DEF Reverse
  <2>3. \A i \in 1..Len(s) : s[(Len(s) - i) + 1] \in T
    BY <1>1, <2>1
  <2> HIDE DEF r
  <2> QED
    BY <1>1, <2>2, <2>3
<1> HIDE DEF r
<1>3. /\ r \o t \in Seq(S) /\ Len(r \o t) = Len(r) + Len(t)
      /\ \A i \in 1..Len(r) + Len(t) : (r \o t)[i] = IF i <= Len(r) THEN r[i] ELSE t[i - Len(r)]
  BY <1>1, <1>2
<1>4. ASSUME NEW i \in 1..Len(r \o t)
      PROVE  (r \o t)[i] \in T \/ \E j \in 1..Len(t) : (r \o t)[i] = t[j]
  <2>1. CASE i <= Len(r)
    BY <1>1, <1>2, <1>3, <2>1
  <2>2. CASE ~(i <= Len(r))
    <3>1. i - Len(r) \in 1..Len(t) /\ (r \o t)[i] = t[i - Len(r)]
      BY <1>1, <1>2, <1>3, <2>2
    <3> QED
      BY <3>1
  <2> QED
    BY <2>1, <2>2
<1> QED
  BY <1>3, <1>4 DEF r, OldAndNew

-----------------------------------------------------------------------------
\* What a step of DeleteFile, ComputeDirectorySize or the world does to the tree.
TreeStep ==
    /\ tree' \in [Nodes -> Kinds]
    /\ \A n \in Nodes : /\ tree'[n] = "link" => tree[n] = "link"
                        /\ n \notin Within => tree'[n] = tree[n]
    /\ tree[Root] = "absent" => tree'[Root] = "absent"

\* Something within goes away.
LEMMA NodeGone ==
    ASSUME NEW n \in Within, tree \in [Nodes -> Kinds], Becomes(n, "absent")
    PROVE  TreeStep
<1>1. n \in Nodes /\ tree' = [tree EXCEPT ![n] = "absent"] /\ "absent" \in Kinds
  BY DEF Within, Becomes, Kinds
<1> QED
  BY <1>1 DEF TreeStep

\* The tree is left alone.
LEMMA NothingGone ==
    ASSUME tree \in [Nodes -> Kinds], tree' = tree
    PROVE  TreeStep
BY DEF TreeStep

\* The traversals of those that do not move go on as before.
LEMMA OthersDelete ==
    ASSUME NEW p, DeletesWithin(p), TreeStep, calling'[p] = calling[p]
    PROVE  DeletesWithin(p)'
<1> DEFINE c == calling[p]
<1> SUFFICES ASSUME c.op = "DeleteFile"
             PROVE  /\ \A i \in 1..Len(c.pending) : tree'[c.pending[i]] # "link"
                    /\ c.todo = <<>> => tree'[Root] = "absent"
  BY DEF DeletesWithin, Within
<1>1. /\ c.pending \in Seq(Within) /\ \A i \in 1..Len(c.pending) : tree[c.pending[i]] # "link"
      /\ c.todo = <<>> => tree[Root] = "absent"
  BY DEF DeletesWithin
<1>2. \A i \in 1..Len(c.pending) : c.pending[i] \in Nodes
  <2>1. \A s \in Seq(Within) : \A i \in 1..Len(s) : s[i] \in Within
    OBVIOUS
  <2> QED
    BY <1>1, <2>1 DEF Within
<1> QED
  BY <1>1, <1>2 DEF TreeStep

\* No directory that is pending becomes a link.
LEMMA PendingStays ==
    ASSUME NEW s \in Seq(Within), \A i \in 1..Len(s) : tree[s[i]] # "link", TreeStep
    PROVE  \A i \in 1..Len(s) : tree'[s[i]] # "link"
<1>1. \A i \in 1..Len(s) : s[i] \in Nodes
  <2>1. \A i \in 1..Len(s) : s[i] \in Within
    OBVIOUS
  <2> QED
    BY <2>1 DEF Within
<1> QED
  BY <1>1 DEF TreeStep

\* Who walks, and what a traversal is.
Walkers == {"DeleteFile", "ComputeDirectorySize"}
Fields == {"op", "pc", "entries", "pending", "listed", "todo"}

\* One process goes on with c.
LEMMA DeletesGoOn ==
    ASSUME DeleteInv, NEW p \in Callers, NEW c, GoOn(p, c), TreeStep,
           c.op # "CreateDirectory", c.op \in Walkers => DOMAIN c = Fields,
           c.op = "DeleteFile" => DeletesWithin(p)'
    PROVE  DeleteInv'
<1>1. DOMAIN calling = Callers /\ calling' = [calling EXCEPT ![p] = c]
  BY DEF DeleteInv, GoOn
<1>2. calling'[p] = c /\ \A q \in Callers \ {p} : calling'[q] = calling[q]
  BY <1>1
<1>3. DOMAIN calling' = Callers
  BY <1>1
<1>4. ASSUME NEW q \in Callers
      PROVE  /\ calling'[q].op # "CreateDirectory" /\ DeletesWithin(q)'
             /\ calling'[q].op \in Walkers => DOMAIN calling'[q] = Fields
  <2>1. CASE q = p
    <3>1. DeletesWithin(p)'
      BY <1>2 DEF DeletesWithin
    <3> QED
      BY <1>2, <2>1, <3>1
  <2>2. CASE q # p
    <3>1. calling'[q] = calling[q] /\ DeletesWithin(q)
      BY <1>2, <2>2 DEF DeleteInv
    <3>2. DeletesWithin(q)'
      BY <3>1, OthersDelete
    <3> QED
      BY <3>1, <3>2 DEF DeleteInv, Walkers, Fields
  <2> QED
    BY <2>1, <2>2
<1> QED
  BY <1>3, <1>4 DEF DeleteInv, TreeStep, Walkers, Fields

\* One process returns.
LEMMA ReturnKeeps ==
    ASSUME DeleteInv, NEW p \in Callers, NEW rv, GiveBack(p, rv), TreeStep
    PROVE  DeleteInv'
<1> DEFINE c == [op |-> "idle", rv |-> rv]
<1>1. GoOn(p, c) /\ c.op = "idle"
  BY DEF GiveBack
<1> HIDE DEF c
<1> QED
  BY <1>1, DeletesGoOn DEF Walkers

-----------------------------------------------------------------------------
\* DeleteFile begins.
LEMMA StartDeleteKeeps ==
    ASSUME DirTreeAssumption, DeleteInv, NEW p \in Callers, NEW recursive \in BOOLEAN,
           StartDelete(p, recursive)
    PROVE  DeleteInv' /\ TreeStep
<1>1. tree \in [Nodes -> Kinds] /\ tree' = tree
  BY DEF DeleteInv, StartDelete, Begins
<1>2. TreeStep
  BY <1>1, NothingGone
<1>3. ASSUME NEW rv, GiveBack(p, rv) PROVE DeleteInv'
  <2> DEFINE c == [op |-> "idle", rv |-> rv]
  <2>1. GoOn(p, c) /\ c.op = "idle"
    BY <1>3 DEF GiveBack
  <2> HIDE DEF c
  <2> QED
    BY <1>2, <2>1, DeletesGoOn DEF Walkers
<1>4. ASSUME NEW op \in {"unlink root", "rmdir root"}, GoOn(p, [op |-> op]) PROVE DeleteInv'
  <2> DEFINE c == [op |-> op]
  <2>1. GoOn(p, c) /\ c.op = op
    BY <1>4
  <2> HIDE DEF c
  <2> QED
    BY <1>2, <1>4, <2>1, DeletesGoOn DEF Walkers
<1>5. CASE tree[Root] = "dir" /\ GoOn(p, Walking("DeleteFile"))
  <2> DEFINE c == Walking("DeleteFile")
  <2>1. /\ DOMAIN c = Fields /\ c.op = "DeleteFile" /\ c.pc = "next" /\ c.listed = {}
        /\ c.pending = <<Root>> /\ c.entries = <<>> /\ c.todo = <<Root>>
    BY DEF Walking, Fields
  <2>2. calling'[p] = c
    BY <1>5 DEF GoOn, DeleteInv
  <2>3. /\ <<Root>> \in Seq(Within) /\ Len(<<Root>>) = 1 /\ <<Root>>[1] = Root /\ <<Root>> # <<>>
        /\ <<>> \in Seq([node : Within, isDir : BOOLEAN])
    BY FoundWithin
  <2> HIDE DEF c
  <2>4. \A i \in 1..Len(c.pending) : tree'[c.pending[i]] # "link"
    BY <1>1, <1>5, <2>1, <2>3
  <2>5. c.entries \in Seq([node : Within, isDir : BOOLEAN]) /\ c.todo[Len(c.todo)] = Root
    BY <2>1, <2>3
  <2>6. DeletesWithin(p)'
    BY <2>1, <2>2, <2>3, <2>4, <2>5 DEF DeletesWithin, Within
  <2> QED
    BY <1>2, <1>5, <2>1, <2>6, DeletesGoOn DEF c
<1> QED
  BY <1>2, <1>3, <1>4, <1>5 DEF StartDelete

\* What is no directory, or only an empty one, is deleted at once.
LEMMA DeleteRootKeeps ==
    ASSUME DirTreeAssumption, DeleteInv, NEW p \in Callers, DeleteRoot(p)
    PROVE  DeleteInv' /\ TreeStep
<1>1. TreeStep
  <2>1. CASE UNCHANGED tree
    BY <2>1, NothingGone DEF DeleteInv
  <2>2. CASE Becomes(Root, "absent")
    BY <2>2, FoundWithin, NodeGone DEF DeleteInv
  <2> QED
    BY <2>1, <2>2 DEF DeleteRoot, Untouched
<1>2. PICK rv \in BOOLEAN : GiveBack(p, rv)
  BY DEF DeleteRoot
<1> DEFINE c == [op |-> "idle", rv |-> rv]
<1>3. GoOn(p, c) /\ c.op = "idle"
  BY <1>2 DEF GiveBack
<1> HIDE DEF c
<1> QED
  BY <1>1, <1>3, DeletesGoOn DEF Walkers

\* ComputeDirectorySize begins.
LEMMA StartSizeKeeps ==
    ASSUME DeleteInv, NEW p \in Callers, StartSize(p)
    PROVE  DeleteInv' /\ TreeStep
<1> DEFINE c == Walking("ComputeDirectorySize")
<1>1. DOMAIN c = Fields /\ c.op = "ComputeDirectorySize" /\ GoOn(p, c)
  BY DEF Walking, Fields, StartSize
<1>2. TreeStep
  BY NothingGone DEF DeleteInv, StartSize, Begins
<1> HIDE DEF c
<1> QED
  BY <1>1, <1>2, DeletesGoOn

\* A directory is listed.
LEMMA ListKeeps ==
    ASSUME DirTreeAssumption, DeleteInv, NEW p \in Callers, List(p)
    PROVE  DeleteInv' /\ TreeStep
<1> DEFINE c == calling[p]
           n == c.pending[1]
           place == Target(n)
           d == [c EXCEPT !.pending = Popped(c, place),
                          !.pc = IF tree[place] = "dir" THEN "stat" ELSE "next",
                          !.listed = IF tree[place] = "dir" THEN Children(place) ELSE {}]
<1>1. c.op \in Walkers /\ c.pending # <<>> /\ GoOn(p, d) /\ tree' = tree
  BY DEF List, Walkers
<1>2. TreeStep
  BY <1>1, NothingGone DEF DeleteInv
<1>3. DOMAIN c = Fields
  BY <1>1 DEF DeleteInv, Walkers, Fields
<1>4. /\ DOMAIN d = Fields /\ d.op = c.op /\ d.entries = c.entries /\ d.todo = c.todo
      /\ d.pending = Tail(c.pending) /\ d.pc \in {"next", "stat"}
      /\ d.listed = IF tree[place] = "dir" THEN Children(place) ELSE {}
  BY <1>3 DEF Fields, Popped
<1>5. calling'[p] = d
  BY <1>1 DEF GoOn, DeleteInv
<1>6. c.op = "DeleteFile" => DeletesWithin(p)'
  <2> SUFFICES ASSUME c.op = "DeleteFile" PROVE DeletesWithin(p)'
    OBVIOUS
  <2>1. /\ c.pending \in Seq(Within) /\ \A i \in 1..Len(c.pending) : tree[c.pending[i]] # "link"
        /\ c.entries \in Seq([node : Within, isDir : BOOLEAN]) /\ c.todo \in Seq(Within)
        /\ c.todo # <<>> /\ c.todo[Len(c.todo)] = Root
    BY <1>1 DEF DeleteInv, DeletesWithin
  <2> HIDE DEF c, d
  <2>2. /\ n \in Within /\ tree[n] # "link" /\ Tail(c.pending) \in Seq(Within)
        /\ \A i \in 1..Len(Tail(c.pending)) : tree[Tail(c.pending)[i]] # "link"
    BY <1>1, <2>1
  <2>3. place = n
    BY <2>2 DEF Target
  <2>4. d.listed \subseteq Within
    BY <1>4, <2>2, <2>3, FoundWithin
  <2> QED
    BY <1>1, <1>4, <1>5, <2>1, <2>2, <2>4 DEF DeletesWithin, Within
<1> HIDE DEF d
<1> QED
  BY <1>1, <1>2, <1>3, <1>4, <1>6, DeletesGoOn DEF Walkers

\* What was listed is looked at.
LEMMA StatEntriesKeeps ==
    ASSUME DirTreeAssumption, DeleteInv, NEW p \in Callers, StatEntries(p)
    PROVE  DeleteInv' /\ TreeStep
<1> DEFINE c == calling[p]
<1>1. /\ c.op \in Walkers /\ c.pc = "stat" /\ tree' = tree
  BY DEF StatEntries, Walkers
<1>2. PICK dirs \in SetToSeqs(Push(c.op, c.listed)), out \in SetToSeqs({n \in c.listed : Wanted(c.op, n)}) :
         GoOn(p, [c EXCEPT !.pc = "next", !.listed = {}, !.pending = Reverse(dirs) \o @,
                           !.entries = [i \in 1..Len(out) |->
                               [node |-> out[i], isDir |-> Stat(c.op, out[i]) = "dir"]]])
  BY DEF StatEntries
<1> DEFINE found == [i \in 1..Len(out) |-> [node |-> out[i], isDir |-> Stat(c.op, out[i]) = "dir"]]
           d == [c EXCEPT !.pc = "next", !.listed = {}, !.pending = Reverse(dirs) \o @,
                          !.entries = found]
<1>3. TreeStep
  BY <1>1, NothingGone DEF DeleteInv
<1>4. DOMAIN c = Fields
  BY <1>1 DEF DeleteInv, Walkers, Fields
<1>5. /\ DOMAIN d = Fields /\ d.op = c.op /\ d.entries = found /\ d.todo = c.todo
      /\ d.pending = Reverse(dirs) \o c.pending /\ d.pc = "next" /\ d.listed = {}
  BY <1>4 DEF Fields
<1>6. GoOn(p, d) /\ calling'[p] = d
  BY <1>2 DEF GoOn, DeleteInv
<1>7. c.op = "DeleteFile" => DeletesWithin(p)'
  <2> SUFFICES ASSUME c.op = "DeleteFile" PROVE DeletesWithin(p)'
    OBVIOUS
  <2>1. /\ c.pending \in Seq(Within) /\ \A i \in 1..Len(c.pending) : tree[c.pending[i]] # "link"
        /\ c.listed \subseteq Within /\ c.todo \in Seq(Within)
        /\ c.todo # <<>> /\ c.todo[Len(c.todo)] = Root
    BY <1>1 DEF DeleteInv, DeletesWithin
  <2> DEFINE S == Push(c.op, c.listed)
             O == {n \in c.listed : Wanted(c.op, n)}
  <2>2. S \subseteq Within /\ O \subseteq Within /\ \A n \in S : tree[n] = "dir"
    BY <2>1 DEF Push, Stat
  <2>3. IsFiniteSet(S) /\ IsFiniteSet(O)
    BY <2>2, FS_Subset DEF Within, DirTreeAssumption
  <2>4. dirs \in Seq(S) /\ out \in Seq(O)
    BY <2>3, OrdersAreSequences
  <2>5. found \in Seq([node : Within, isDir : BOOLEAN])
    <3>1. Len(out) \in Nat /\ \A i \in 1..Len(out) : out[i] \in Within
      BY <2>2, <2>4
    <3> HIDE DEF c
    <3>2. \A i \in 1..Len(out) : [node |-> out[i], isDir |-> Stat(c.op, out[i]) = "dir"]
                                    \in [node : Within, isDir : BOOLEAN]
      BY <3>1
    <3> QED
      BY <3>1, <3>2
  <2>9. dirs \in Seq(S) /\ S \subseteq Within /\ c.pending \in Seq(Within)
    BY <2>1, <2>2, <2>4
  <2> HIDE DEF S, c, d, found
  <2>6. OldAndNew(Reverse(dirs) \o c.pending, Within, S, c.pending)
    BY <2>9, PutBefore
  <2>7. \A i \in 1..Len(d.pending) : tree'[d.pending[i]] # "link"
    <3> SUFFICES ASSUME NEW i \in 1..Len(d.pending) PROVE tree[d.pending[i]] # "link"
      BY <1>1
    <3>1. d.pending = Reverse(dirs) \o c.pending
      BY <1>5
    <3>2. d.pending[i] \in S \/ \E j \in 1..Len(c.pending) : d.pending[i] = c.pending[j]
      BY <2>6, <3>1 DEF OldAndNew
    <3> QED
      BY <2>1, <2>2, <3>2
  <2>8. /\ d.pc = "next" /\ d.listed = {} /\ d.pending \in Seq(Within) /\ d.todo = c.todo
        /\ d.entries \in Seq([node : Within, isDir : BOOLEAN])
    BY <1>5, <2>5, <2>6 DEF OldAndNew
  <2> QED
    BY <1>6, <2>1, <2>7, <2>8 DEF DeletesWithin, Within
<1> HIDE DEF d
<1> QED
  BY <1>1, <1>3, <1>5, <1>6, <1>7, DeletesGoOn DEF Walkers

\* The caller's turn with an entry.
LEMMA VisitKeeps ==
    ASSUME DirTreeAssumption, DeleteInv, NEW p \in Callers, Visit(p)
    PROVE  DeleteInv' /\ TreeStep
<1> DEFINE c == calling[p]
           e == c.entries[1]
           d == [c EXCEPT !.entries = Tail(@)]
           m == [d EXCEPT !.todo = Remember(@, e.node)]
<1>1. c.op \in Walkers /\ c.entries # <<>> /\ DOMAIN c = Fields /\ tree \in [Nodes -> Kinds]
  BY DEF Visit, DeleteInv, Walkers, Fields
<1>2. /\ DOMAIN d = Fields /\ d.op = c.op /\ d.entries = Tail(c.entries) /\ d.todo = c.todo
      /\ d.pending = c.pending /\ d.pc = c.pc /\ d.listed = c.listed
  BY <1>1 DEF Fields
<1>3. /\ DOMAIN m = Fields /\ m.op = c.op /\ m.entries = Tail(c.entries)
      /\ m.todo = <<e.node>> \o c.todo
      /\ m.pending = c.pending /\ m.pc = c.pc /\ m.listed = c.listed
  BY <1>1 DEF Fields, Remember
<1>4. ASSUME c.op = "DeleteFile"
      PROVE  /\ e.node \in Within /\ Tail(c.entries) \in Seq([node : Within, isDir : BOOLEAN])
             /\ c.todo \in Seq(Within) /\ c.todo # <<>> /\ c.todo[Len(c.todo)] = Root
  <2>1. /\ c.entries \in Seq([node : Within, isDir : BOOLEAN]) /\ c.todo \in Seq(Within)
        /\ c.todo # <<>> /\ c.todo[Len(c.todo)] = Root
    BY <1>1, <1>4 DEF DeleteInv, DeletesWithin
  <2> HIDE DEF c
  <2> DEFINE E == [node : Within, isDir : BOOLEAN]
  <2>2. e \in E /\ Tail(c.entries) \in Seq(E)
    <3> HIDE DEF E
    <3> QED
      BY <1>1, <2>1, HeadAndTail DEF E
  <2> QED
    BY <2>1, <2>2
<1>5. ASSUME TreeStep, GoOn(p, d) PROVE DeleteInv'
  <2>1. c.op = "DeleteFile" => DeletesWithin(p)'
    <3> SUFFICES ASSUME c.op = "DeleteFile" PROVE DeletesWithin(p)'
      OBVIOUS
    <3>1. DeletesWithin(p) /\ calling'[p] = d
      BY <1>5 DEF DeleteInv, GoOn
    <3>2. /\ c.pc \in {"next", "stat"} /\ c.listed \subseteq Within /\ c.pending \in Seq(Within)
          /\ \A i \in 1..Len(c.pending) : tree[c.pending[i]] # "link"
      BY <3>1 DEF DeletesWithin
    <3>3. \A i \in 1..Len(c.pending) : tree'[c.pending[i]] # "link"
      BY <1>5, <3>2, PendingStays
    <3> HIDE DEF c, d
    <3> QED
      BY <1>2, <1>4, <3>1, <3>2, <3>3 DEF DeletesWithin, Within
  <2> HIDE DEF d
  <2> QED
    BY <1>1, <1>2, <1>5, <2>1, DeletesGoOn DEF Walkers
<1>6. ASSUME TreeStep, c.op = "DeleteFile", GoOn(p, m) PROVE DeleteInv'
  <2>1. DeletesWithin(p)'
    <3>1. DeletesWithin(p) /\ calling'[p] = m
      BY <1>6 DEF DeleteInv, GoOn
    <3>2. /\ c.pc \in {"next", "stat"} /\ c.listed \subseteq Within /\ c.pending \in Seq(Within)
          /\ \A i \in 1..Len(c.pending) : tree[c.pending[i]] # "link"
      BY <1>6, <3>1 DEF DeletesWithin
    <3>3. \A i \in 1..Len(c.pending) : tree'[c.pending[i]] # "link"
      BY <1>6, <3>2, PendingStays
    <3>4. \A n \in Within, t \in Seq(Within) :
             /\ <<n>> \o t \in Seq(Within) /\ <<n>> \o t # <<>>
             /\ t # <<>> => (<<n>> \o t)[Len(<<n>> \o t)] = t[Len(t)]
      OBVIOUS
    <3> HIDE DEF c, e, m
    <3>5. m.todo \in Seq(Within) /\ m.todo # <<>> /\ m.todo[Len(m.todo)] = Root
      BY <1>3, <1>4, <1>6, <3>4
    <3> QED
      BY <1>3, <1>4, <1>6, <3>1, <3>2, <3>3, <3>5 DEF DeletesWithin, Within
  <2> HIDE DEF m
  <2> QED
    BY <1>1, <1>3, <1>6, <2>1, DeletesGoOn DEF Walkers
<1>7. ASSUME TreeStep, GiveBack(p, FALSE) PROVE DeleteInv'
  BY <1>7, ReturnKeeps
<1>8. CASE GoOn(p, d) /\ Untouched
  BY <1>1, <1>5, <1>8, NothingGone DEF Untouched
<1>9. CASE c.op = "DeleteFile" /\ GoOn(p, m) /\ Untouched
  BY <1>1, <1>6, <1>9, NothingGone DEF Untouched
<1>10. CASE c.op = "DeleteFile" /\ Becomes(e.node, "absent") /\ GoOn(p, d)
  BY <1>1, <1>4, <1>5, <1>10, NodeGone
<1>11. CASE Untouched /\ GiveBack(p, FALSE)
  BY <1>1, <1>7, <1>11, NothingGone DEF Untouched
<1> QED
  BY <1>8, <1>9, <1>10, <1>11 DEF Visit

\* The directories are removed.
LEMMA FinishKeeps ==
    ASSUME DirTreeAssumption, DeleteInv, NEW p \in Callers, Finish(p)
    PROVE  DeleteInv' /\ TreeStep
<1> DEFINE c == calling[p]
           n == c.todo[1]
           d == [c EXCEPT !.todo = Tail(@)]
<1>1. /\ c.op \in Walkers /\ c.entries = <<>> /\ c.pending = <<>> /\ c.pc = "next"
      /\ DOMAIN c = Fields /\ tree \in [Nodes -> Kinds]
  BY DEF Finish, DeleteInv, Walkers, Fields
<1>2. ASSUME NEW rv, GiveBack(p, rv), Untouched PROVE DeleteInv' /\ TreeStep
  BY <1>1, <1>2, NothingGone, ReturnKeeps DEF Untouched
<1>3. CASE c.op = "DeleteFile" /\ c.todo # <<>> /\ Becomes(n, "absent") /\ GoOn(p, d)
  <2>1. /\ DOMAIN d = Fields /\ d.op = c.op /\ d.entries = c.entries /\ d.todo = Tail(c.todo)
        /\ d.pending = c.pending /\ d.pc = c.pc /\ d.listed = c.listed
    BY <1>1 DEF Fields
  <2>2. c.todo \in Seq(Within) /\ c.todo[Len(c.todo)] = Root /\ c.listed \subseteq Within
    BY <1>3 DEF DeleteInv, DeletesWithin
  <2>3. calling'[p] = d
    BY <1>3 DEF GoOn, DeleteInv
  <2> HIDE DEF c, d
  <2>4. /\ n \in Within /\ Tail(c.todo) \in Seq(Within)
        /\ IF Tail(c.todo) = <<>> THEN n = Root ELSE Tail(c.todo)[Len(Tail(c.todo))] = Root
    BY <1>3, <2>2, LastOfTail
  <2>5. TreeStep
    BY <1>1, <1>3, <2>4, NodeGone
  <2>6. d.todo = <<>> => tree'[Root] = "absent"
    <3>1. \A k \in Nodes : tree' = [tree EXCEPT ![k] = "absent"] => tree'[k] = "absent"
      BY <1>1
    <3> QED
      BY <1>3, <2>1, <2>4, <3>1 DEF Becomes, Within
  <2>7. <<>> \in Seq([node : Within, isDir : BOOLEAN]) /\ <<>> \in Seq(Within) /\ Len(<<>>) = 0
    OBVIOUS
  <2>8. /\ d.pc = "next" /\ d.listed \subseteq Within /\ d.entries = <<>> /\ d.pending = <<>>
        /\ d.todo \in Seq(Within)
        /\ d.todo # <<>> => d.todo[Len(d.todo)] = Root
    BY <1>1, <2>1, <2>2, <2>4
  <2>9. DeletesWithin(p)'
    BY <2>3, <2>6, <2>7, <2>8 DEF DeletesWithin, Within
  <2> QED
    BY <1>1, <1>3, <2>1, <2>5, <2>9, DeletesGoOn DEF Walkers
<1> QED
  BY <1>2, <1>3 DEF Finish

-----------------------------------------------------------------------------
\* Others' changes.
LEMMA TreeChangesKeeps ==
    ASSUME DirTreeAssumption, DeleteInv, NEW n \in Nodes, TreeChanges(n)
    PROVE  DeleteInv' /\ TreeStep
<1>1. PICK k \in {"file", "absent"} : tree' = [tree EXCEPT ![n] = k]
  BY DEF TreeChanges, Becomes
<1>2. n # Root /\ n \in Within /\ tree \in [Nodes -> Kinds] /\ k \in Kinds /\ calling' = calling
  BY DEF TreeChanges, Within, DeleteInv, Kinds
<1>3. TreeStep
  BY <1>1, <1>2 DEF TreeStep
<1>4. \A p \in Callers : DeletesWithin(p)'
  BY <1>2, <1>3, OthersDelete DEF DeleteInv
<1> QED
  BY <1>2, <1>3, <1>4 DEF DeleteInv, TreeStep

\* The invariant of deletions holds at first.
LEMMA DeletesBegin ==
    ASSUME DirTreeAssumption, TreeInit
    PROVE  DeleteInv
BY DEF DirTreeAssumption, TreeInit, DeleteInv, DeletesWithin, NoCall

\* And every step keeps it.
LEMMA DeletesContinue ==
    ASSUME DirTreeAssumption, "CreateDirectory" \notin Calls, DeleteInv, [TreeNext]_treeVars
    PROVE  DeleteInv' /\ TreeStep
<1>1. CASE UNCHANGED treeVars
  <2>1. tree' = tree /\ calling' = calling
    BY <1>1 DEF treeVars
  <2>2. TreeStep
    BY <2>1, NothingGone DEF DeleteInv
  <2>3. \A p \in Callers : DeletesWithin(p)'
    BY <2>1, <2>2, OthersDelete DEF DeleteInv
  <2> QED
    BY <2>1, <2>2, <2>3 DEF DeleteInv
<1>2. ASSUME NEW n \in Nodes, TreeChanges(n) PROVE DeleteInv' /\ TreeStep
  BY <1>2, TreeChangesKeeps
<1>3. ASSUME NEW p \in Callers, Work(p) PROVE DeleteInv' /\ TreeStep
  <2>1. ~CreateStep(p)
    BY DEF DeleteInv, CreateStep
  <2> QED
    BY <1>3, <2>1, DeleteRootKeeps, ListKeeps, StatEntriesKeeps, VisitKeeps, FinishKeeps DEF Work
<1>4. ASSUME NEW p \in Callers, NEW recursive \in BOOLEAN, StartDelete(p, recursive)
      PROVE  DeleteInv' /\ TreeStep
  BY <1>4, StartDeleteKeeps
<1>5. ASSUME NEW p \in Callers, StartSize(p) PROVE DeleteInv' /\ TreeStep
  BY <1>5, StartSizeKeeps
<1> QED
  BY <1>1, <1>2, <1>3, <1>4, <1>5 DEF TreeNext

\* A call that returns true has just removed the root, or found nothing left to remove.
LEMMA TrueWhenGone ==
    ASSUME DirTreeAssumption, "CreateDirectory" \notin Calls, DeleteInv, TreeNext,
           NEW p \in Callers, Deleting(p), Returns(p), calling'[p].rv
    PROVE  tree'[Root] = "absent"
<1>1. DOMAIN calling = Callers /\ tree \in [Nodes -> Kinds] /\ Root \in Nodes
  BY DEF DeleteInv, DirTreeAssumption
<1>2. calling[p].op \in {"DeleteFile", "unlink root", "rmdir root"} /\ calling'[p].op = "idle"
  BY DEF Deleting, Returns
<1>3. ASSUME NEW q, NEW c, GoOn(q, c) PROVE q = p /\ calling'[p] = c
  BY <1>1, <1>2, <1>3 DEF GoOn
<1>4. ASSUME NEW q, NEW rv, GiveBack(q, rv) PROVE q = p /\ rv
  BY <1>3, <1>4 DEF GiveBack
<1>5. ASSUME NEW n \in Nodes, TreeChanges(n) PROVE FALSE
  BY <1>2, <1>5 DEF TreeChanges
<1>6. ASSUME NEW q \in Callers, calling[q].op = "idle", NEW c, GoOn(q, c) PROVE FALSE
  BY <1>2, <1>3, <1>6
<1>7. ASSUME NEW q \in Callers, NEW recursive, StartDelete(q, recursive) PROVE FALSE
  BY <1>6, <1>7 DEF StartDelete, Begins, GiveBack
<1>8. ASSUME NEW q \in Callers, StartSize(q) PROVE FALSE
  BY <1>6, <1>8 DEF StartSize, Begins
<1>9. ASSUME NEW q \in Callers, DeleteRoot(q) PROVE tree'[Root] = "absent"
  BY <1>1, <1>4, <1>9 DEF DeleteRoot, Becomes
<1>10. ASSUME NEW q \in Callers, List(q) \/ StatEntries(q) \/ Visit(q) PROVE FALSE
  <2>1. DOMAIN calling[q] = Fields /\ calling[q].op \in Walkers
    BY <1>10 DEF List, StatEntries, Visit, DeleteInv, Fields, Walkers
  <2>2. ASSUME NEW c, GoOn(q, c), c.op \in Walkers PROVE FALSE
    BY <1>2, <1>3, <2>2 DEF Walkers
  <2>3. CASE List(q)
    BY <2>1, <2>2, <2>3 DEF List, Fields
  <2>4. CASE StatEntries(q)
    BY <2>1, <2>2, <2>4 DEF StatEntries, Fields
  <2>5. CASE Visit(q)
    BY <1>4, <2>1, <2>2, <2>5 DEF Visit, Fields
  <2> QED
    BY <1>10, <2>3, <2>4, <2>5
<1>11. ASSUME NEW q \in Callers, Finish(q) PROVE tree'[Root] = "absent"
  <2>1. DOMAIN calling[q] = Fields /\ calling[q].op \in Walkers
    BY <1>11 DEF Finish, DeleteInv, Fields, Walkers
  <2>2. ASSUME NEW c, GoOn(q, c), c.op \in Walkers PROVE FALSE
    BY <1>2, <1>3, <2>2 DEF Walkers
  <2>3. ASSUME NEW rv, GiveBack(q, rv) PROVE q = p /\ rv
    BY <1>4, <2>3
  <2>4. CASE calling[q].op = "DeleteFile" /\ calling[q].todo = <<>> /\ Untouched
    BY <2>4 DEF DeleteInv, DeletesWithin, Untouched
  <2>5. CASE calling[q].op = "ComputeDirectorySize" /\ GiveBack(q, TRUE)
    BY <1>2, <2>3, <2>5
  <2>6. CASE GiveBack(q, FALSE)
    BY <2>3, <2>6
  <2>7. CASE GoOn(q, [calling[q] EXCEPT !.todo = Tail(@)])
    BY <2>1, <2>2, <2>7 DEF Fields
  <2> QED
    BY <1>11, <2>4, <2>5, <2>6, <2>7 DEF Finish
<1>12. ASSUME NEW q \in Callers, CreateStep(q) PROVE FALSE
  BY <1>12 DEF DeleteInv, CreateStep
<1> QED
  BY <1>5, <1>7, <1>8, <1>9, <1>10, <1>11, <1>12 DEF TreeNext, Work

-----------------------------------------------------------------------------
\* What DeleteFile found it found within, and what it has to remove ends with the path it was
\* given (file_util.cc, file_enumerator.cc), as long as nobody makes directories.
THEOREM DeleteInvariantHolds ==
    ASSUME DirTreeAssumption, "CreateDirectory" \notin Calls
    PROVE  TreeSpec => []DeleteInv
<1>1. TreeInit => DeleteInv
  BY DeletesBegin
<1>2. DeleteInv /\ [TreeNext]_treeVars => DeleteInv'
  BY DeletesContinue
<1> QED
  BY <1>1, <1>2, PTL DEF TreeSpec

\* DeleteFile returns true only when the path is gone, whoever deletes, makes files or walks
\* there meanwhile (file_util.cc), as long as nobody makes directories.
THEOREM DeletedIsGone ==
    ASSUME DirTreeAssumption, "CreateDirectory" \notin Calls
    PROVE  TreeSpec => SuccessMeansGone
<1>1. DeleteInv /\ [TreeNext]_treeVars => [SuccessMeansGoneStep]_treeVars
  BY TrueWhenGone DEF SuccessMeansGoneStep
<1> QED
  BY <1>1, DeleteInvariantHolds, PTL DEF TreeSpec, SuccessMeansGone

\* DeleteFile never touches what is behind a link (file_util.cc, file_enumerator.cc).
THEOREM LinksAreNotFollowed ==
    ASSUME DirTreeAssumption, "CreateDirectory" \notin Calls
    PROVE  TreeSpec => OutsideUntouched
<1>1. DeleteInv /\ [TreeNext]_treeVars => [OutsideUntouchedStep]_treeVars
  BY DeletesContinue DEF TreeStep, OutsideUntouchedStep, Within
<1> QED
  BY <1>1, DeleteInvariantHolds, PTL DEF TreeSpec, OutsideUntouched
=============================================================================
