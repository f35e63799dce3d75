--------------------------- MODULE StableReadProofs ---------------------------
(* The safety of reading one file, for any inodes, contents, modes and       *)
(* numbers of ticks and changes.                                             *)
(*                                                                           *)
(* The argument is about ctime.  Whoever changes the opened inode after the  *)
(* first fstat leaves a later ctime on it than fstat saw, unless fstat saw   *)
(* the current tick (fresh); so until then what was read is the beginning of *)
(* what fstat saw (Stable).  Quiet follows a file that nothing touches from  *)
(* the scan's open to a verification.                                        *)
EXTENDS StableRead, TLAPS

(* What has been read is the beginning of a content.                         *)
Begins(read, whole) ==
  Len(read) <= Len(whole) /\ \A k \in 1 .. Len(read) : read[k] = whole[k]

Held ==
  /\ pc \in {"stat", "read", "finish"} => fd \in Inodes
  /\ pc \in {"read", "finish"} =>
       /\ opened \in Status /\ snap \in Version
       /\ opened.mode = snap.mode /\ opened.ctime <= now
       /\ reviewed # None => opened.mode = reviewed.mode
  /\ pc \in {"idle", "open"} => fd = None
  /\ pc \notin {"read", "finish"} => bytes = << >>
  /\ pc # "idle" => verdict = "none"
  /\ \A i \in Inodes : inode[i].ctime <= now

Stable ==
  pc \in {"read", "finish"} /\ ~fresh =>
    /\ opened.ctime < now
    /\ \/ inode[fd].ctime > opened.ctime
       \/ /\ inode[fd].blocks = snap.blocks
          /\ Begins(bytes, snap.blocks)
          /\ pc = "finish" => Len(bytes) = Len(snap.blocks)

Quiet ==
  ~touched =>
    /\ pc \in {"stat", "read", "finish"} => path = fd
    /\ pc \in {"read", "finish"} =>
         /\ opened = Stat(fd) /\ Begins(bytes, inode[fd].blocks)
         /\ pc = "finish" => Len(bytes) = Len(inode[fd].blocks)
    /\ reviewed # None =>
         /\ path \in Inodes
         /\ reviewed.blocks = inode[path].blocks
         /\ reviewed.mode = inode[path].mode

Promises == ReviewedIsSnapshot /\ VerifiedIsReviewed /\ UntouchedPasses

IInv == TypeOK /\ Held /\ Stable /\ Quiet /\ Promises

USE DEF Stages

(* A complete beginning is the whole.                                        *)
LEMMA WholeRead ==
  ASSUME NEW a \in Seq(Blocks), NEW b \in Seq(Blocks), Begins(a, b), Len(a) = Len(b)
  PROVE  a = b
  BY DEF Begins

(* One block more is still a beginning.                                      *)
LEMMA OneBlockMore ==
  ASSUME NEW a \in Seq(Blocks), NEW b \in Seq(Blocks), Begins(a, b), Len(a) < Len(b)
  PROVE  /\ Append(a, b[Len(a) + 1]) \in Seq(Blocks)
         /\ Begins(Append(a, b[Len(a) + 1]), b)
  BY DEF Begins

LEMMA StatType ==
  ASSUME TypeOK, NEW i \in Inodes
  PROVE  /\ Stat(i) \in Status
         /\ Stat(i).mode = inode[i].mode /\ Stat(i).ctime = inode[i].ctime
         /\ VersionOf(i) \in Version
         /\ VersionOf(i).blocks = inode[i].blocks /\ VersionOf(i).mode = inode[i].mode
<1>1. inode[i] \in Inode /\ inode[i].blocks \in Seq(Blocks)
  BY StableReadAssumption DEF TypeOK, Inode
<1> QED
  BY <1>1 DEF Stat, Status, Inode, Version, VersionOf

LEMMA InitIInv == Init => IInv
<1> SUFFICES ASSUME Init PROVE IInv
  OBVIOUS
<1> USE StableReadAssumption DEF Init
<1>1. TypeOK
  <2>1. inode \in [Inodes -> Inode]
    BY DEF Inode
  <2>2. /\ basis \in [snap : Version \cup {None}, fresh : BOOLEAN]
        /\ bytes \in Seq(Blocks)
    OBVIOUS
  <2>3. now \in 0 .. MaxTick /\ changes \in 0 .. MaxChanges
    OBVIOUS
  <2> QED
    BY <2>1, <2>2, <2>3 DEF TypeOK
<1>2. Held /\ Stable /\ Quiet
  <2>1. \A i \in Inodes : inode[i].ctime = 0
    OBVIOUS
  <2> QED
    BY <2>1 DEF Held, Stable, Quiet
<1>3. Promises
  BY DEF Promises, ReviewedIsSnapshot, VerifiedIsReviewed, UntouchedPasses
<1> QED
  BY <1>1, <1>2, <1>3 DEF IInv

---------------------------------------------------------------------------
(* What a change by another process leaves alone, and what it leaves behind. *)
Changed ==
  /\ inode' \in [Inodes -> Inode] /\ path' \in Inodes \cup {None}
  /\ \A i \in Inodes : inode'[i] = inode[i] \/ inode'[i].ctime = now
  /\ changes' \in 0 .. MaxChanges /\ touched' = TRUE
  /\ origin' \in {origin, None}
  /\ UNCHANGED <<now, pc, listed, fd, opened, bytes, reviewed, verdict, snap,
                 fresh, basis>>

LEMMA EveryChange ==
  ASSUME TypeOK, Rename \/ \E i \in Inodes : Write(i) \/ Utimes(i) \/ Chmod(i)
  PROVE  Changed
<1> USE StableReadAssumption DEF TypeOK, Change, Changed
<1>0. \A i \in Inodes : inode[i] \in Inode
  OBVIOUS
<1>t. now \in Nat /\ 0 .. MaxTick \subseteq Nat
  OBVIOUS
<1>o. origin' \in {origin, None}
  BY DEF Rename, Write, Utimes, Chmod
<1>1. CASE Rename
  <2>1. PICK j \in (Inodes \cup {None}) \ {path} :
          /\ Change([k \in Inodes |->
                       IF k \in {j, path} THEN [inode[k] EXCEPT !.ctime = now]
                                          ELSE inode[k]])
          /\ path' = j
    BY <1>1 DEF Rename
  <2>2. \A k \in Inodes : /\ [inode[k] EXCEPT !.ctime = now] \in Inode
                          /\ [inode[k] EXCEPT !.ctime = now].ctime = now
    BY ONLY <1>0, <1>t DEF Inode
  <2>3. inode' \in [Inodes -> Inode]
    BY <1>0, <2>1, <2>2
  <2>4. \A k \in Inodes : inode'[k] = inode[k] \/ inode'[k].ctime = now
    BY <2>1, <2>2
  <2> QED
    BY <1>o, <2>1, <2>3, <2>4
<1>2. ASSUME NEW i \in Inodes, Write(i) \/ Utimes(i) \/ Chmod(i)
      PROVE  Changed
  <2>1. ASSUME NEW e \in Inode, e.ctime = now, UNCHANGED path,
               Change([inode EXCEPT ![i] = e])
        PROVE  Changed
    BY <1>o, <2>1
  <2>2. CASE Write(i)
    <3> DEFINE e(c) == [inode[i] EXCEPT !.blocks = c, !.mtime = now, !.ctime = now]
    <3>1. PICK c \in Contents : /\ Change([inode EXCEPT ![i] = e(c)])
                              /\ UNCHANGED path
      BY <2>2 DEF Write
    <3>2. e(c) \in Inode /\ e(c).ctime = now
      <4>1. inode[i] \in Inode /\ now \in Nat /\ c \in Contents
        BY <1>0, <1>t
      <4> QED
        BY ONLY <4>1 DEF Inode, e
    <3> HIDE DEF e
    <3> QED
      BY <2>1, <3>1, <3>2
  <2>3. CASE Utimes(i)
    <3> DEFINE e(t) == [inode[i] EXCEPT !.mtime = t, !.ctime = now]
    <3>1. PICK t \in 0 .. MaxTick : /\ Change([inode EXCEPT ![i] = e(t)])
                              /\ UNCHANGED path
      BY <2>3 DEF Utimes
    <3>2. e(t) \in Inode /\ e(t).ctime = now
      <4>1. inode[i] \in Inode /\ now \in Nat /\ t \in Nat
        BY <1>0, <1>t
      <4> QED
        BY ONLY <4>1 DEF Inode, e
    <3> HIDE DEF e
    <3> QED
      BY <2>1, <3>1, <3>2
  <2>4. CASE Chmod(i)
    <3> DEFINE e(m) == [inode[i] EXCEPT !.mode = m, !.ctime = now]
    <3>1. PICK m \in Modes : /\ Change([inode EXCEPT ![i] = e(m)])
                              /\ UNCHANGED path
      BY <2>4 DEF Chmod
    <3>2. e(m) \in Inode /\ e(m).ctime = now
      <4>1. inode[i] \in Inode /\ now \in Nat /\ m \in Modes
        BY <1>0, <1>t
      <4> QED
        BY ONLY <4>1 DEF Inode, e
    <3> HIDE DEF e
    <3> QED
      BY <2>1, <3>1, <3>2
  <2> QED
    BY <1>2, <2>2, <2>3, <2>4
<1> QED
  BY <1>1, <1>2

LEMMA StepChanged ==
  ASSUME IInv, Changed
  PROVE  IInv'
<1> USE DEF IInv, Changed
<1>1. TypeOK'
  BY DEF TypeOK
<1>2. Held'
  <2>1. \A i \in Inodes : inode'[i].ctime <= now
    BY DEF Held, TypeOK
  <2> QED
    BY <2>1 DEF Held
<1>3. Stable'
  <2> SUFFICES ASSUME pc \in {"read", "finish"}, ~fresh
               PROVE  Stable'
    BY DEF Stable
  <2>1. fd \in Inodes /\ opened.ctime < now
    BY DEF Stable, Held
  <2>2. inode'[fd] = inode[fd] \/ inode'[fd].ctime = now
    BY <2>1
  <2> QED
    BY <2>1, <2>2 DEF Stable, Begins
<1>4. Quiet'
  BY DEF Quiet
<1>5. Promises'
  BY DEF Promises, ReviewedIsSnapshot, VerifiedIsReviewed, UntouchedPasses
<1> QED
  BY <1>1, <1>2, <1>3, <1>4, <1>5

LEMMA StepTick ==
  ASSUME IInv, Tick
  PROVE  IInv'
<1> USE StableReadAssumption DEF IInv, Tick
<1>1. TypeOK'
  BY DEF TypeOK
<1>2. Held'
  <2>1. \A i \in Inodes : inode[i].ctime \in Nat
    BY DEF TypeOK, Inode
  <2>2. opened \in Status => opened.ctime \in Nat
    BY DEF Status
  <2> QED
    BY <2>1, <2>2 DEF Held, TypeOK
<1>3. Stable'
  <2>1. opened \in Status => opened.ctime \in Nat
    BY DEF Status
  <2> QED
    BY <2>1 DEF Stable, Begins, TypeOK, Held
<1>4. Quiet'
  BY DEF Quiet, Begins, Stat
<1>5. Promises'
  BY DEF Promises, ReviewedIsSnapshot, VerifiedIsReviewed, UntouchedPasses
<1> QED
  BY <1>1, <1>2, <1>3, <1>4, <1>5
---------------------------------------------------------------------------
(* The reader's own steps.                                                   *)
LEMMA EndType ==
  ASSUME NEW how \in {"accepted", "changed", "refused"}, End(how)
  PROVE  /\ pc' = "idle" /\ fd' = None /\ listed' = None /\ opened' = None
         /\ bytes' \in Seq(Blocks) /\ verdict' = how
  BY DEF End

LEMMA StepBegin ==
  ASSUME IInv, List \/ StartVerify
  PROVE  IInv'
<1> USE DEF IInv, disk
<1>1. CASE List
  <2>0. path \in Inodes => Stat(path) \in Status /\ VersionOf(path) \in Version
    BY StatType
  <2>1. TypeOK'
    <3>1. CASE End("refused")
      BY <1>1, <3>1, EndType DEF List, TypeOK
    <3>2. CASE ~End("refused")
      <4>1. path \in Inodes /\ origin' \in Version \cup {None}
        BY <1>1, <2>0, <3>2 DEF List, TypeOK
      <4> QED
        BY <1>1, <2>0, <3>2, <4>1 DEF List, TypeOK
    <3> QED
      BY <3>1, <3>2
  <2> USE DEF End
  <2>2. Held'
    BY <1>1 DEF List, Held
  <2>3. Stable'
    BY <1>1 DEF List, Stable
  <2>4. Quiet'
    BY <1>1 DEF List, Quiet
  <2>5. Promises'
    BY <1>1 DEF List, Promises, ReviewedIsSnapshot, VerifiedIsReviewed, UntouchedPasses
  <2> QED
    BY <2>1, <2>2, <2>3, <2>4, <2>5
<1>2. CASE StartVerify
  <2>1. TypeOK'
    BY <1>2 DEF StartVerify, TypeOK
  <2>2. Held'
    BY <1>2 DEF StartVerify, Held
  <2>3. Stable'
    BY <1>2 DEF StartVerify, Stable
  <2>4. Quiet'
    BY <1>2 DEF StartVerify, Quiet
  <2>5. Promises'
    BY <1>2 DEF StartVerify, Promises, ReviewedIsSnapshot, VerifiedIsReviewed, UntouchedPasses
  <2> QED
    BY <2>1, <2>2, <2>3, <2>4, <2>5
<1> QED
  BY <1>1, <1>2

LEMMA StepOpen ==
  ASSUME IInv, Open
  PROVE  IInv'
<1> USE DEF IInv, disk, Open
<1>1. TypeOK'
  <2>1. CASE End("refused")
    BY <2>1, EndType DEF TypeOK
  <2>2. CASE ~End("refused")
    BY <2>2 DEF TypeOK
  <2> QED
    BY <2>1, <2>2
<1> USE DEF End
<1>2. Held'
  BY DEF Held, TypeOK
<1>3. Stable'
  BY DEF Stable
<1>4. Quiet'
  BY DEF Quiet
<1>5. Promises'
  BY DEF Held, Promises, ReviewedIsSnapshot, VerifiedIsReviewed, UntouchedPasses
<1> QED
  BY <1>1, <1>2, <1>3, <1>4, <1>5

LEMMA StepStatOpened ==
  ASSUME IInv, StatOpened
  PROVE  IInv'
<1> USE DEF IInv, disk
<1>0. /\ fd \in Inodes /\ Stat(fd) \in Status
      /\ Stat(fd).mode = inode[fd].mode /\ Stat(fd).ctime = inode[fd].ctime
      /\ VersionOf(fd) \in Version
      /\ VersionOf(fd).blocks = inode[fd].blocks /\ VersionOf(fd).mode = inode[fd].mode
  BY StatType DEF StatOpened, Held
<1>t. now \in Nat /\ inode[fd].ctime \in Nat
  BY <1>0, StableReadAssumption DEF TypeOK, Inode
<1>1. TypeOK'
  <2>1. CASE End("changed")
    BY <1>0, <2>1, EndType DEF StatOpened, TypeOK
  <2>2. CASE ~End("changed")
    BY <1>0, <2>2 DEF StatOpened, TypeOK
  <2> QED
    BY <2>1, <2>2
<1> USE DEF End
<1>2. Held'
  BY <1>0 DEF StatOpened, Held
<1>3. Stable'
  <2>1. fresh' \/ inode[fd].ctime < now
    <3>1. inode[fd].ctime <= now
      BY <1>0 DEF Held
    <3>2. fresh' <=> inode[fd].ctime = now
      BY DEF StatOpened
    <3> QED
      BY <1>t, <3>1, <3>2
  <2>2. Begins(<< >>, inode[fd].blocks)
    BY <1>0 DEF Begins, TypeOK, Inode
  <2> QED
    BY <1>0, <1>t, <2>1, <2>2 DEF StatOpened, Stable, Held
<1>4. Quiet'
  <2>1. CASE pc' = "read"
    <3>1. Stat(fd)' = Stat(fd) /\ opened' = Stat(fd)
      BY <2>1 DEF StatOpened, Stat
    <3>2. Begins(<< >>, inode[fd].blocks)
      BY <1>0 DEF Begins, TypeOK, Inode
    <3> QED
      BY <1>0, <2>1, <3>1, <3>2 DEF StatOpened, Quiet, Held
  <2>2. CASE pc' # "read"
    BY <2>2 DEF StatOpened, Quiet
  <2> QED
    BY <2>1, <2>2
<1>5. Promises'
  BY <1>0 DEF StatOpened, Held, Quiet, Promises, ReviewedIsSnapshot, VerifiedIsReviewed, UntouchedPasses
<1> QED
  BY <1>1, <1>2, <1>3, <1>4, <1>5

LEMMA StepReadBlock ==
  ASSUME IInv, ReadBlock
  PROVE  IInv'
<1> DEFINE whole == inode[fd].blocks
<1> USE DEF IInv, disk
<1>0. /\ fd \in Inodes /\ whole \in Seq(Blocks) /\ bytes \in Seq(Blocks)
      /\ snap.blocks \in Seq(Blocks) /\ pc = "read"
  BY StableReadAssumption DEF ReadBlock, Held, TypeOK, Inode, Version
<1>1. CASE Len(bytes) < Len(whole)
  <2>1. /\ bytes' = Append(bytes, whole[Len(bytes) + 1]) /\ UNCHANGED pc
        /\ UNCHANGED <<disk, listed, fd, opened, reviewed, verdict, snap, fresh,
                       basis, touched, origin>>
    BY <1>1 DEF ReadBlock
  <2>2. bytes' \in Seq(Blocks)
    BY <1>0, <1>1, <2>1
  <2>3. TypeOK'
    BY <2>1, <2>2 DEF TypeOK
  <2>4. Held'
    BY <1>0, <2>1 DEF Held
  <2>5. Stable'
    <3>1. CASE Begins(bytes, whole)
      <4>1. Begins(bytes', whole)
        BY <1>0, <1>1, <2>1, <3>1, OneBlockMore
      <4> QED
        BY <1>0, <2>1, <4>1 DEF Stable
    <3>2. CASE ~Begins(bytes, whole)
      BY <1>0, <2>1, <3>2 DEF Stable
    <3> QED
      BY <3>1, <3>2
  <2>6. Quiet'
    <3>1. CASE ~touched
      <4>1. Begins(bytes', whole)
        BY <1>0, <1>1, <2>1, <3>1, OneBlockMore DEF Quiet
      <4> QED
        BY <1>0, <2>1, <4>1 DEF Quiet, Stat
    <3>2. CASE touched
      BY <2>1, <3>2 DEF Quiet
    <3> QED
      BY <3>1, <3>2
  <2>7. Promises'
    BY <2>1 DEF Held, Promises, ReviewedIsSnapshot, VerifiedIsReviewed, UntouchedPasses
  <2> QED
    BY <2>3, <2>4, <2>5, <2>6, <2>7
<1>2. CASE ~(Len(bytes) < Len(whole))
  <2>1. /\ pc' = "finish"
        /\ UNCHANGED <<disk, bytes, listed, fd, opened, reviewed, verdict, snap,
                       fresh, basis, touched, origin>>
    BY <1>2 DEF ReadBlock
  <2>2. Begins(bytes, whole) => Len(bytes) = Len(whole)
    BY <1>0, <1>2 DEF Begins
  <2>3. TypeOK'
    BY <2>1 DEF TypeOK
  <2>4. Held'
    BY <1>0, <2>1 DEF Held
  <2>5. Stable'
    BY <1>0, <2>1, <2>2 DEF Stable
  <2>6. Quiet'
    BY <1>0, <2>1, <2>2 DEF Quiet, Stat
  <2>7. Promises'
    BY <2>1 DEF Held, Promises, ReviewedIsSnapshot, VerifiedIsReviewed, UntouchedPasses
  <2> QED
    BY <2>3, <2>4, <2>5, <2>6, <2>7
<1> QED
  BY <1>1, <1>2

(* A read that ends without an answer.                                       *)
LEMMA StepGiveUp ==
  ASSUME IInv, Fail \/ FifoAnswers
  PROVE  IInv'
<1> USE DEF IInv, disk
<1>1. /\ End("refused")
      /\ UNCHANGED <<disk, reviewed, snap, fresh, basis, touched, origin>>
  BY DEF Fail, FifoAnswers
<1>2. TypeOK'
  BY <1>1, EndType DEF TypeOK
<1> USE DEF End
<1>3. Held'
  BY <1>1 DEF Held
<1>4. Stable' /\ Quiet'
  BY <1>1 DEF Stable, Quiet
<1>5. Promises'
  BY <1>1 DEF Promises, ReviewedIsSnapshot, VerifiedIsReviewed, UntouchedPasses
<1> QED
  BY <1>2, <1>3, <1>4, <1>5

(* What the two comparisons of fstat say about what was read in between.     *)
LEMMA ReadsOneVersion ==
  ASSUME IInv, pc = "finish", Unchanged(opened, Stat(fd)), ~fresh
  PROVE  bytes = snap.blocks
<1>1. /\ fd \in Inodes /\ opened.ctime = inode[fd].ctime /\ opened.ctime \in Nat
      /\ snap.blocks \in Seq(Blocks) /\ bytes \in Seq(Blocks)
  BY StableReadAssumption DEF IInv, Held, TypeOK, Unchanged, Stat, Status, Version
<1>2. Begins(bytes, snap.blocks) /\ Len(bytes) = Len(snap.blocks)
  BY <1>1 DEF IInv, Stable
<1> QED
  BY <1>1, <1>2, WholeRead

(* The same for a file that nothing touched.                                 *)
LEMMA ReadsTheFile ==
  ASSUME IInv, pc = "finish", ~touched
  PROVE  /\ Unchanged(opened, Stat(fd)) /\ bytes = inode[fd].blocks
         /\ path = fd /\ fd \in Inodes
<1>1. /\ path = fd /\ fd \in Inodes /\ opened = Stat(fd)
      /\ Begins(bytes, inode[fd].blocks) /\ Len(bytes) = Len(inode[fd].blocks)
  BY DEF IInv, Held, Quiet
<1>2. bytes \in Seq(Blocks) /\ inode[fd].blocks \in Seq(Blocks)
  BY <1>1, StableReadAssumption DEF IInv, TypeOK, Inode
<1> QED
  BY <1>1, <1>2, WholeRead DEF Unchanged

LEMMA StepFinishScan ==
  ASSUME IInv, FinishScan
  PROVE  IInv'
<1> USE DEF disk
<1>1. CASE SameFile(listed, opened) /\ Unchanged(opened, Stat(fd))
  <2>1. /\ End("accepted")
        /\ reviewed' = [blocks |-> bytes, mode |-> opened.mode]
        /\ basis' = [snap |-> snap, fresh |-> fresh]
        /\ UNCHANGED <<disk, snap, fresh, touched, origin>> /\ pc = "finish"
    BY <1>1 DEF FinishScan
  <2>2. /\ bytes \in Seq(Blocks) /\ opened.mode \in Modes /\ snap \in Version
        /\ opened.mode = snap.mode /\ fd \in Inodes
    BY <2>1 DEF IInv, Held, TypeOK, Status
  <2>3. reviewed' \in Accepted /\ reviewed' # None
    BY <2>1, <2>2, StableReadAssumption DEF Accepted
  <2>4. TypeOK'
    BY <2>1, <2>2, <2>3, EndType DEF IInv, TypeOK
  <2>5. ~fresh => reviewed' = snap
    BY <1>1, <2>1, <2>2, ReadsOneVersion DEF Version
  <2> USE DEF End
  <2>6. Held' /\ Stable'
    BY <2>1 DEF IInv, Held, Stable
  <2>7. Quiet'
    <3>1. CASE ~touched
      <4>1. /\ bytes = inode[fd].blocks /\ path = fd
            /\ opened.mode = inode[fd].mode
        BY <2>1, <2>2, <3>1, ReadsTheFile, StatType DEF IInv, Quiet
      <4> QED
        BY <2>1, <2>2, <4>1 DEF Quiet
    <3>2. CASE touched
      BY <2>1, <3>2 DEF Quiet
    <3> QED
      BY <3>1, <3>2
  <2>8. Promises'
    BY <2>1, <2>3, <2>5 DEF Promises, ReviewedIsSnapshot, VerifiedIsReviewed, UntouchedPasses
  <2> QED
    BY <2>4, <2>6, <2>7, <2>8 DEF IInv
<1>2. CASE ~(SameFile(listed, opened) /\ Unchanged(opened, Stat(fd)))
  <2>1. /\ End("changed") /\ reviewed = None
        /\ UNCHANGED <<disk, snap, fresh, touched, reviewed, basis, origin>>
    BY <1>2 DEF FinishScan
  <2>2. TypeOK'
    BY <2>1, EndType DEF IInv, TypeOK
  <2> USE DEF End
  <2>3. Held' /\ Stable' /\ Quiet'
    BY <2>1 DEF IInv, Held, Stable, Quiet
  <2>4. Promises'
    BY <2>1 DEF IInv, Promises, ReviewedIsSnapshot, VerifiedIsReviewed, UntouchedPasses
  <2> QED
    BY <2>2, <2>3, <2>4 DEF IInv
<1> QED
  BY <1>1, <1>2

LEMMA StepFinishVerify ==
  ASSUME IInv, FinishVerify
  PROVE  IInv'
<1> USE DEF disk
<1>1. /\ pc = "finish" /\ reviewed # None
      /\ UNCHANGED <<disk, reviewed, snap, fresh, basis, touched, origin>>
      /\ End("accepted") \/ End("changed")
  BY DEF FinishVerify
<1>2. TypeOK'
  BY <1>1, EndType DEF IInv, TypeOK
<1>3. VerifiedIsReviewed'
  <2> SUFFICES ASSUME verdict' = "accepted", ~fresh, ~basis.fresh
               PROVE  snap = basis.snap
    BY <1>1 DEF VerifiedIsReviewed
  <2>1. Unchanged(opened, Stat(fd)) /\ bytes = reviewed.blocks
    BY DEF FinishVerify, End
  <2>2. bytes = snap.blocks
    BY <1>1, <2>1, ReadsOneVersion
  <2>3. reviewed = basis.snap
    BY <1>1 DEF IInv, Promises, ReviewedIsSnapshot
  <2>4. reviewed.mode = snap.mode /\ snap \in Version /\ reviewed \in Accepted
    BY <1>1 DEF IInv, Held, TypeOK
  <2>5. /\ snap = [blocks |-> snap.blocks, mode |-> snap.mode]
        /\ reviewed = [blocks |-> reviewed.blocks, mode |-> reviewed.mode]
    BY ONLY <2>4 DEF Version, Accepted
  <2> QED
    BY <2>1, <2>2, <2>3, <2>4, <2>5
<1>4. UntouchedPasses'
  <2> SUFFICES ASSUME ~touched, verdict' = "changed"
               PROVE  FALSE
    BY <1>1 DEF UntouchedPasses
  <2>1. Unchanged(opened, Stat(fd)) /\ bytes = reviewed.blocks
    BY <1>1, ReadsTheFile DEF IInv, Quiet
  <2> QED
    BY <2>1 DEF FinishVerify, End
<1>5. ReviewedIsSnapshot'
  BY <1>1 DEF IInv, Promises, ReviewedIsSnapshot
<1> USE DEF End
<1>6. Held' /\ Stable' /\ Quiet'
  BY <1>1 DEF IInv, Held, Stable, Quiet
<1> QED
  BY <1>2, <1>3, <1>4, <1>5, <1>6 DEF IInv, Promises

---------------------------------------------------------------------------
(* From lstat to the end of a scan: as long as the inode lstat saw has the   *)
(* mtime lstat saw it has that content, and so has what was read of it.      *)
Traced ==
  /\ pc \in {"read", "finish"} => opened.ino = fd
  /\ reviewed = None /\ pc \in Reading => listed \in Status
  /\ reviewed = None /\ pc \in Reading /\ origin # None =>
       /\ listed.mtime < now
       /\ \/ inode[listed.ino].mtime > listed.mtime
          \/ /\ inode[listed.ino].mtime = listed.mtime
             /\ inode[listed.ino].blocks = origin.blocks
       /\ /\ pc \in {"read", "finish"} /\ fd = listed.ino
          /\ inode[fd].mtime = listed.mtime
          => /\ Begins(bytes, origin.blocks)
             /\ pc = "finish" => Len(bytes) = Len(origin.blocks)

(* Others change the content of a file only together with its mtime, or set  *)
(* the mtime and lose the trace.                                             *)
LEMMA ChangeTraced ==
  ASSUME IInv, Traced, ReviewedWasListed,
         Rename \/ \E i \in Inodes : Write(i) \/ Utimes(i) \/ Chmod(i)
  PROVE  (Traced /\ ReviewedWasListed)'
<1>0. /\ Changed /\ TypeOK /\ now \in Nat
      /\ \A i \in Inodes : inode[i].mtime \in Nat
  BY EveryChange DEF IInv, TypeOK, Inode
<1>1. reviewed # None => origin' = origin
  BY DEF Rename, Write, Utimes, Chmod
<1>2. origin' # None /\ reviewed = None =>
        \A i \in Inodes :
          \/ inode'[i].mtime = now
          \/ inode'[i].mtime = inode[i].mtime /\ inode'[i].blocks = inode[i].blocks
  <2>1. CASE Rename
    BY <1>0, <2>1 DEF Rename, Change, TypeOK, Inode
  <2>2. ASSUME NEW i \in Inodes, Write(i) \/ Chmod(i)
        PROVE  \A j \in Inodes :
          \/ inode'[j].mtime = now
          \/ inode'[j].mtime = inode[j].mtime /\ inode'[j].blocks = inode[j].blocks
    <3>1. inode[i] \in Inode /\ inode \in [Inodes -> Inode]
      BY <1>0 DEF TypeOK
    <3>2. CASE Write(i)
      <4>1. PICK c \in Contents :
              inode' = [inode EXCEPT ![i] =
                [inode[i] EXCEPT !.blocks = c, !.mtime = now, !.ctime = now]]
        BY <3>2 DEF Write, Change
      <4>2. [inode[i] EXCEPT !.blocks = c, !.mtime = now, !.ctime = now].mtime = now
        BY ONLY <3>1 DEF Inode
      <4> QED
        BY <3>1, <4>1, <4>2
    <3>3. CASE Chmod(i)
      <4>1. PICK m \in Modes :
              inode' = [inode EXCEPT ![i] =
                [inode[i] EXCEPT !.mode = m, !.ctime = now]]
        BY <3>3 DEF Chmod, Change
      <4>2. LET e == [inode[i] EXCEPT !.mode = m, !.ctime = now]
            IN  e.mtime = inode[i].mtime /\ e.blocks = inode[i].blocks
        BY ONLY <3>1 DEF Inode
      <4> QED
        BY <3>1, <4>1, <4>2
    <3> QED
      BY <2>2, <3>2, <3>3
  <2>3. ASSUME NEW i \in Inodes, Utimes(i), reviewed = None
        PROVE  origin' = None
    BY <2>3 DEF Utimes
  <2> QED
    BY <2>1, <2>2, <2>3
<1>3. ReviewedWasListed'
  BY <1>0, <1>1 DEF Changed, ReviewedWasListed
<1>4. Traced'
  <2>1. listed \in Status => listed.mtime \in Nat /\ listed.ino \in Inodes
    BY DEF Status
  <2> QED
    BY <1>0, <1>2, <2>1 DEF Changed, Traced, Begins
<1> QED
  BY <1>3, <1>4

(* The scan's own steps.                                                     *)
LEMMA StepTraced ==
  ASSUME IInv, Traced, ReviewedWasListed, [Next]_vars
  PROVE  (Traced /\ ReviewedWasListed)'
<1> USE DEF disk, Reading
<1>0. /\ TypeOK /\ Held /\ now \in Nat
      /\ \A i \in Inodes : inode[i].mtime \in Nat /\ inode[i].blocks \in Seq(Blocks)
      /\ bytes \in Seq(Blocks)
      /\ origin # None => origin.blocks \in Seq(Blocks)
      /\ listed \in Status => listed.mtime \in Nat /\ listed.ino \in Inodes
  BY StableReadAssumption DEF IInv, TypeOK, Inode, Status, Version
<1>1. ASSUME NEW how \in {"accepted", "changed", "refused"}, End(how),
             UNCHANGED <<reviewed, origin>>
      PROVE  (Traced /\ ReviewedWasListed)'
  BY <1>1 DEF End, Traced, ReviewedWasListed
<1>2. CASE List
  <2>1. CASE End("refused") /\ UNCHANGED origin
    BY <1>1, <1>2, <2>1 DEF List
  <2>2. CASE ~(End("refused") /\ UNCHANGED origin)
    <3>1. /\ path \in Inodes /\ pc' = "open" /\ listed' = Stat(path)
          /\ origin' = IF inode[path].mtime < now THEN VersionOf(path) ELSE None
          /\ UNCHANGED <<disk, reviewed>> /\ reviewed = None
      BY <1>0, <1>2, <2>2 DEF List, TypeOK
    <3>2. /\ Stat(path) \in Status /\ Stat(path).mtime = inode[path].mtime
          /\ Stat(path).ino = path /\ VersionOf(path).blocks = inode[path].blocks
      BY <1>0, <3>1, StatType DEF Stat
    <3> QED
      BY <1>0, <3>1, <3>2 DEF Traced, ReviewedWasListed
  <2> QED
    BY <2>1, <2>2
<1>3. CASE StartVerify
  BY <1>3 DEF StartVerify, Traced, ReviewedWasListed
<1>4. CASE Open
  <2>1. CASE End("refused")
    BY <1>1, <1>4, <2>1 DEF Open
  <2>2. CASE ~End("refused")
    BY <1>4, <2>2 DEF Open, Traced, ReviewedWasListed
  <2> QED
    BY <2>1, <2>2
<1>5. CASE StatOpened
  <2>1. CASE End("changed")
    BY <1>1, <1>5, <2>1 DEF StatOpened
  <2>2. CASE ~End("changed")
    <3>1. /\ pc = "stat" /\ pc' = "read" /\ opened' = Stat(fd)
          /\ UNCHANGED <<disk, listed, fd, bytes, reviewed, origin>>
      BY <1>5, <2>2 DEF StatOpened
    <3>2. bytes = << >> /\ Stat(fd).ino = fd
      BY <1>0, <3>1 DEF Held, Stat
    <3>3. origin # None => Begins(<< >>, origin.blocks)
      BY <1>0 DEF Begins
    <3> QED
      BY <1>0, <3>1, <3>2, <3>3 DEF Traced, ReviewedWasListed
  <2> QED
    BY <2>1, <2>2
<1>6. CASE ReadBlock
  <2> DEFINE whole == inode[fd].blocks
  <2>0. /\ pc = "read" /\ fd \in Inodes /\ opened.ino = fd
        /\ UNCHANGED <<disk, listed, fd, opened, reviewed, origin>>
    BY <1>0, <1>6 DEF ReadBlock, Held, Traced
  <2>1. ReviewedWasListed'
    BY <2>0 DEF ReviewedWasListed
  <2>2. /\ reviewed = None /\ origin # None /\ fd = listed.ino
        /\ inode[fd].mtime = listed.mtime
        => /\ Begins(bytes', origin.blocks)
           /\ pc' = "finish" => Len(bytes') = Len(origin.blocks)
    <3> SUFFICES ASSUME reviewed = None, origin # None, fd = listed.ino,
                        inode[fd].mtime = listed.mtime
                 PROVE  /\ Begins(bytes', origin.blocks)
                        /\ pc' = "finish" => Len(bytes') = Len(origin.blocks)
      OBVIOUS
    <3>1. whole = origin.blocks /\ Begins(bytes, whole)
      BY <1>0, <2>0 DEF Traced
    <3>2. CASE Len(bytes) < Len(whole)
      <4>1. bytes' = Append(bytes, whole[Len(bytes) + 1]) /\ pc' = "read"
        BY <1>6, <2>0, <3>2 DEF ReadBlock
      <4> QED
        BY <1>0, <2>0, <3>1, <3>2, <4>1, OneBlockMore
    <3>3. CASE ~(Len(bytes) < Len(whole))
      <4>1. bytes' = bytes /\ Len(bytes) = Len(whole)
        BY <1>0, <1>6, <2>0, <3>1, <3>3 DEF ReadBlock, Begins
      <4> QED
        BY <3>1, <4>1
    <3> QED
      BY <3>2, <3>3
  <2>3. pc' \in {"read", "finish"}
    BY <1>6, <2>0 DEF ReadBlock
  <2> QED
    BY <1>0, <2>0, <2>1, <2>2, <2>3 DEF Traced
<1>7. CASE FinishScan
  <2>1. CASE SameFile(listed, opened) /\ Unchanged(opened, Stat(fd))
    <3>1. /\ End("accepted") /\ pc = "finish" /\ reviewed = None
          /\ reviewed' = [blocks |-> bytes, mode |-> opened.mode]
          /\ UNCHANGED <<disk, origin>>
      BY <1>7, <2>1 DEF FinishScan
    <3>2. /\ fd = listed.ino /\ inode[fd].mtime = listed.mtime /\ fd \in Inodes
      BY <1>0, <2>1, <3>1 DEF SameFile, Unchanged, Stat, Traced, Held
    <3>3. origin # None => bytes = origin.blocks
      BY <1>0, <3>1, <3>2, WholeRead DEF Traced
    <3> QED
      BY <3>1, <3>3, StableReadAssumption DEF End, Traced, ReviewedWasListed
  <2>2. CASE ~(SameFile(listed, opened) /\ Unchanged(opened, Stat(fd)))
    BY <1>1, <1>7, <2>2 DEF FinishScan
  <2> QED
    BY <2>1, <2>2
<1>8. CASE FinishVerify
  BY <1>1, <1>8 DEF FinishVerify
<1>9. CASE Fail \/ FifoAnswers
  BY <1>1, <1>9 DEF Fail, FifoAnswers
<1>10. CASE Tick
  BY <1>0, <1>10 DEF Tick, Traced, ReviewedWasListed, Begins
<1>11. CASE Rename \/ \E i \in Inodes : Write(i) \/ Utimes(i) \/ Chmod(i)
  BY <1>11, ChangeTraced
<1>12. CASE UNCHANGED vars
  BY <1>12 DEF vars, Traced, ReviewedWasListed, Begins
<1> QED
  BY <1>2, <1>3, <1>4, <1>5, <1>6, <1>7, <1>8, <1>9, <1>10, <1>11, <1>12
  DEF Next, ReadGoesOn

---------------------------------------------------------------------------
LEMMA Invariance == Spec => []IInv
<1>1. IInv /\ [Next]_vars => IInv'
  <2> SUFFICES ASSUME IInv, [Next]_vars PROVE IInv'
    OBVIOUS
  <2>1. CASE List \/ StartVerify
    BY <2>1, StepBegin
  <2>2. CASE ReadGoesOn
    BY <2>2, StepOpen, StepStatOpened, StepReadBlock, StepFinishScan,
       StepFinishVerify DEF ReadGoesOn
  <2>3. CASE Fail \/ FifoAnswers
    BY <2>3, StepGiveUp
  <2>4. CASE Tick
    BY <2>4, StepTick
  <2>5. CASE Rename \/ \E i \in Inodes : Write(i) \/ Utimes(i) \/ Chmod(i)
    BY <2>5, EveryChange, StepChanged DEF IInv
  <2>6. CASE UNCHANGED vars
    BY <2>6 DEF vars, disk, IInv, TypeOK, Held, Stable, Quiet, Begins, Stat,
                Promises, ReviewedIsSnapshot, VerifiedIsReviewed, UntouchedPasses
  <2> QED
    BY <2>1, <2>2, <2>3, <2>4, <2>5, <2>6 DEF Next
<1> QED
  BY <1>1, InitIInv, PTL DEF Spec

(* Every state is of the declared type.                                      *)
THEOREM TypeCorrect == Spec => []TypeOK
BY Invariance, PTL DEF IInv

(* What the scan reviews and records is one version of the file, for any     *)
(* number of writers' steps between its reads (scanner.py 385-408).          *)
THEOREM Snapshot == Spec => []ReviewedIsSnapshot
<1>1. IInv => ReviewedIsSnapshot
  BY DEF IInv, Promises
<1> QED
  BY <1>1, Invariance, PTL

(* What the scan accepts is what lstat saw, unless the time stamps of the    *)
(* file cannot tell (scanner.py 399-419).                                    *)
THEOREM Listed == Spec => []ReviewedWasListed
<1>1. Init => Traced /\ ReviewedWasListed
  BY DEF Init, Traced, Reading, ReviewedWasListed
<1>2. /\ IInv /\ Traced /\ ReviewedWasListed /\ [Next]_vars
      => (Traced /\ ReviewedWasListed)'
  BY StepTraced
<1> QED
  BY <1>1, <1>2, Invariance, PTL DEF Spec

(* A receipt's file is verified against that version, never against a        *)
(* mixture of versions (receipts.py 125-147).                                *)
THEOREM Verified == Spec => []VerifiedIsReviewed
<1>1. IInv => VerifiedIsReviewed
  BY DEF IInv, Promises
<1> QED
  BY <1>1, Invariance, PTL

(* A file nothing touches is never reported as changed (scanner.py 446-453,  *)
(* receipts.py 127-147).                                                     *)
THEOREM Untouched == Spec => []UntouchedPasses
<1>1. IInv => UntouchedPasses
  BY DEF IInv, Promises
<1> QED
  BY <1>1, Invariance, PTL

---------------------------------------------------------------------------
(* A read takes one look: the abstract reader looks when the first fstat     *)
(* does, and answers when the read ends.                                     *)
LEMMA ChangeIsAbstract ==
  ASSUME IInv, Changed
  PROVE  OneLook!Change
<1> USE DEF IInv, Changed
<1>1. ASSUME NEW i \in Inodes
      PROVE  /\ VersionOf(i)' \in Accepted
             /\ inode'[i].ctime # now => VersionOf(i)' = VersionOf(i)
             /\ inode[i].ctime = now => inode'[i].ctime = now
  <2>1. inode'[i] \in Inode
    OBVIOUS
  <2>2. VersionOf(i)' \in Accepted
    BY <2>1, StableReadAssumption DEF VersionOf, Inode, Accepted
  <2> QED
    BY <2>2 DEF VersionOf
<1>2. Seen' = Seen
  BY DEF Seen
<1>3. \A i \in Inodes : VersionOf(i)' # VersionOf(i) => inode'[i].ctime = now
  BY <1>1
<1>4. [i \in Inodes |-> VersionOf(i)]' \in [Inodes -> Accepted]
  BY <1>1
<1>5. /\ {i \in Inodes : inode[i].ctime = now} \subseteq {i \in Inodes : inode[i].ctime = now}'
      /\ {i \in Inodes : inode[i].ctime = now}' \subseteq Inodes
  BY <1>1
<1> QED
  BY <1>2, <1>3, <1>4, <1>5 DEF OneLook!Change, OneLook!reader

LEMMA TickIsAbstract ==
  ASSUME IInv, Tick
  PROVE  OneLook!Tick
<1>1. \A i \in Inodes : inode[i].ctime \in Nat /\ inode[i].ctime <= now
  BY DEF IInv, Held, TypeOK, Inode
<1>2. now \in Nat /\ now' = now + 1 /\ inode' = inode
  BY StableReadAssumption DEF IInv, TypeOK, Tick
<1>3. {i \in Inodes : inode[i].ctime = now}' = {}
  BY <1>1, <1>2
<1>4. Seen' = Seen /\ [i \in Inodes |-> VersionOf(i)]' = [i \in Inodes |-> VersionOf(i)]
  BY <1>2 DEF Tick, Seen, VersionOf
<1> QED
  BY <1>3, <1>4 DEF Tick, OneLook!Tick, OneLook!reader

(* Steps of the reader leave the file system alone.                          *)
LEMMA FilesStay ==
  ASSUME UNCHANGED disk
  PROVE  /\ [i \in Inodes |-> VersionOf(i)]' = [i \in Inodes |-> VersionOf(i)]
         /\ {i \in Inodes : inode[i].ctime = now}' = {i \in Inodes : inode[i].ctime = now}
         /\ path' = path
  BY DEF disk, VersionOf

LEMMA EndIsAbstract ==
  ASSUME NEW how \in {"accepted", "changed", "refused"}, End(how), UNCHANGED disk
  PROVE  OneLook!Close(how)
<1>1. Seen' = None
  BY DEF End, Seen
<1> QED
  BY <1>1, FilesStay DEF End, OneLook!Close

LEMMA StatIsAbstract ==
  ASSUME IInv, StatOpened
  PROVE  OneLook!Look \/ OneLook!Refuse
<1>1. fd \in Inodes /\ fd # None /\ UNCHANGED <<disk, reviewed>> /\ pc = "stat"
  BY StableReadAssumption DEF StatOpened, IInv, Held
<1>2. CASE End("changed")
  BY <1>1, <1>2, EndIsAbstract DEF OneLook!Refuse
<1>3. CASE ~End("changed")
  <2>1. /\ pc' = "read" /\ snap' = VersionOf(fd) /\ fresh' = (inode[fd].ctime = now)
        /\ UNCHANGED <<fd, verdict>>
    BY <1>3 DEF StatOpened
  <2>2. /\ Seen = None
        /\ Seen' = [version |-> VersionOf(fd), sure |-> ~(inode[fd].ctime = now)]
    BY <1>1, <2>1 DEF Seen
  <2>3. fd \notin {i \in Inodes : inode[i].ctime = now} <=> ~(inode[fd].ctime = now)
    BY <1>1
  <2> QED
    BY <1>1, <2>1, <2>2, <2>3, FilesStay DEF OneLook!Look
<1> QED
  BY <1>2, <1>3

LEMMA FinishIsAbstract ==
  ASSUME IInv, FinishScan \/ FinishVerify
  PROVE  OneLook!Review \/ OneLook!Verify \/ OneLook!Refuse
<1>1. /\ pc = "finish" /\ UNCHANGED disk /\ snap \in Version
      /\ Seen = [version |-> snap, sure |-> ~fresh]
  BY DEF FinishScan, FinishVerify, IInv, Held, Seen
<1>2. Version \subseteq Accepted /\ None \notin Accepted
  BY StableReadAssumption DEF Version, Accepted
<1>3. Seen # None
  <2>1. snap \in Accepted
    BY <1>1, <1>2
  <2>2. (~fresh) \in BOOLEAN
    BY Zenon
  <2>3. [version |-> snap, sure |-> ~fresh] \in [version : Accepted, sure : BOOLEAN]
    BY ONLY <2>1, <2>2, Zenon
  <2> QED
    BY ONLY <1>1, <2>3, StableReadAssumption, Zenon
<1>4. Seen.version = snap /\ (Seen.sure <=> ~fresh)
  BY <1>1
<1>5. CASE FinishScan /\ SameFile(listed, opened) /\ Unchanged(opened, Stat(fd))
  <2>1. /\ End("accepted") /\ reviewed = None
        /\ reviewed' = [blocks |-> bytes, mode |-> opened.mode]
    BY <1>5 DEF FinishScan
  <2>2. bytes \in Seq(Blocks) /\ opened.mode \in Modes /\ opened.mode = snap.mode
    BY <1>1 DEF IInv, Held, TypeOK, Status
  <2>3. ~fresh => reviewed' = snap
    BY <1>1, <1>5, <2>1, <2>2, ReadsOneVersion DEF Version
  <2>4. reviewed' \in Accepted
    BY <2>1, <2>2 DEF Accepted
  <2> QED
    BY <1>1, <1>3, <1>4, <2>1, <2>3, <2>4, EndIsAbstract DEF OneLook!Review
<1>6. CASE FinishVerify /\ Unchanged(opened, Stat(fd)) /\ bytes = reviewed.blocks
  <2>1. End("accepted") /\ reviewed # None /\ UNCHANGED reviewed
    BY <1>6 DEF FinishVerify
  <2>2. reviewed \in Accepted /\ reviewed.mode = snap.mode
    BY <1>1, <2>1 DEF IInv, Held, TypeOK
  <2>3. ~fresh => reviewed.blocks = snap.blocks
    BY <1>1, <1>6, ReadsOneVersion
  <2>4. ~fresh => reviewed = snap
    <3>1. /\ snap = [blocks |-> snap.blocks, mode |-> snap.mode]
          /\ reviewed = [blocks |-> reviewed.blocks, mode |-> reviewed.mode]
      BY ONLY <1>1, <2>2 DEF Version, Accepted
    <3> QED
      BY <2>2, <2>3, <3>1
  <2> QED
    BY <1>1, <1>3, <1>4, <2>1, <2>4, EndIsAbstract DEF OneLook!Verify
<1>7. CASE /\ ~(FinishScan /\ SameFile(listed, opened) /\ Unchanged(opened, Stat(fd)))
           /\ ~(FinishVerify /\ Unchanged(opened, Stat(fd)) /\ bytes = reviewed.blocks)
  <2>1. End("changed") /\ UNCHANGED reviewed
    BY <1>7 DEF FinishScan, FinishVerify
  <2> QED
    BY <1>1, <2>1, EndIsAbstract DEF OneLook!Refuse
<1> QED
  BY <1>5, <1>6, <1>7

LEMMA StepOneLook ==
  ASSUME IInv, [Next]_vars
  PROVE  [OneLook!Next]_(OneLook!vars)
<1>1. CASE Changed
  BY <1>1, ChangeIsAbstract DEF OneLook!Next
<1>2. CASE Tick
  BY <1>2, TickIsAbstract DEF OneLook!Next
<1>3. ASSUME UNCHANGED <<disk, reviewed>>, End("refused")
      PROVE  OneLook!Refuse
  BY <1>3, EndIsAbstract DEF OneLook!Refuse
<1>4. CASE List \/ StartVerify
  <2>1. CASE End("refused")
    BY <1>3, <1>4, <2>1 DEF List, StartVerify, OneLook!Next
  <2>2. CASE ~End("refused")
    <3>1. /\ UNCHANGED <<disk, fd, reviewed>> /\ verdict' = "none" /\ pc = "idle" /\ pc' = "open"
      BY <1>4, <2>2 DEF List, StartVerify
    <3>2. fd = None /\ Seen = None /\ Seen' = None
      BY <3>1 DEF IInv, Held, Seen
    <3> QED
      BY <3>1, <3>2, FilesStay DEF OneLook!Begin, OneLook!Next
  <2> QED
    BY <2>1, <2>2
<1>5. CASE Open
  <2>1. CASE End("refused")
    BY <1>3, <1>5, <2>1 DEF Open, OneLook!Next
  <2>2. CASE ~End("refused")
    <3>1. /\ UNCHANGED <<disk, reviewed, verdict>> /\ path # None /\ fd' = path
          /\ pc = "open" /\ pc' \in {"stat", "blocked"}
      BY <1>5, <2>2 DEF Open
    <3>2. fd = None /\ Seen = None /\ Seen' = None
      BY <3>1 DEF IInv, Held, Seen
    <3> QED
      BY <3>1, <3>2, FilesStay DEF OneLook!Open, OneLook!Next
  <2> QED
    BY <2>1, <2>2
<1>6. CASE StatOpened
  BY <1>6, StatIsAbstract DEF OneLook!Next
<1>7. CASE ReadBlock
  <2>1. /\ UNCHANGED <<disk, fd, reviewed, verdict, snap, fresh>>
        /\ pc = "read" /\ pc' \in {"read", "finish"}
    BY <1>7 DEF ReadBlock
  <2>2. Seen' = Seen
    BY <2>1 DEF Seen
  <2> QED
    BY <2>1, <2>2, FilesStay DEF OneLook!vars
<1>8. CASE FinishScan \/ FinishVerify
  BY <1>8, FinishIsAbstract DEF OneLook!Next
<1>9. CASE Fail \/ FifoAnswers
  BY <1>3, <1>9 DEF Fail, FifoAnswers, OneLook!Next
<1>10. CASE UNCHANGED vars
  <2>1. UNCHANGED <<disk, fd, reviewed, verdict>> /\ Seen' = Seen
    BY <1>10 DEF vars, Seen
  <2> QED
    BY <2>1, FilesStay DEF OneLook!vars
<1>11. Rename \/ (\E i \in Inodes : Write(i) \/ Utimes(i) \/ Chmod(i)) => Changed
  BY EveryChange DEF IInv
<1> QED
  BY <1>1, <1>2, <1>4, <1>5, <1>6, <1>7, <1>8, <1>9, <1>10, <1>11 DEF Next, ReadGoesOn

(* Reading a file system call by system call implements reading it with one  *)
(* look, which is how the modules of the session have it.                    *)
THEOREM Refinement == Spec => ReadsAtOnce
<1>1. Init => OneLook!Init
  <2> SUFFICES ASSUME Init PROVE OneLook!Init
    OBVIOUS
  <2>1. \A i \in Inodes : VersionOf(i) \in Accepted /\ inode[i].ctime = now
    BY StableReadAssumption DEF Init, VersionOf, Accepted
  <2>2. Seen = None
    BY DEF Init, Seen
  <2> QED
    BY <2>1, <2>2 DEF Init, OneLook!Init
<1> QED
  BY Invariance, <1>1, StepOneLook, PTL DEF Spec, ReadsAtOnce, OneLook!Spec
==============================================================================
