----------------------------- MODULE StableRead -----------------------------
(* How the guard reads one file that others may write: lstat, open, fstat,   *)
(* reads and fstat again in aur_codex_guard/scanner.py, deterministic_scan;  *)
(* and open, fstat, reads and fstat in receipts.py, _hash_regular_file_at,   *)
(* whose result is compared with what the scan has read.  The modules of the *)
(* guarded session take each of these reads for one step.                    *)
(*                                                                           *)
(* The path names an inode or nothing.  Time stamps are ticks of the file    *)
(* system's clock: changes in one tick get the same stamp.  utimes sets      *)
(* mtime to any time, but every change sets ctime to the current tick, and   *)
(* so does a rename to the inodes it concerns.  A hash is its content.       *)
EXTENDS Naturals, Sequences

CONSTANTS
  Inodes,
  Blocks,      \* what one read returns
  Contents,    \* what a file may contain
  Modes,
  None,
  MaxTick,     \* bound: ticks of the clock
  MaxChanges   \* bound: changes by other processes

Version == [blocks : Contents, mode : Modes]
Accepted == [blocks : Seq(Blocks), mode : Modes]

ASSUME StableReadAssumption ==
  /\ Contents \subseteq Seq(Blocks)
  /\ None \notin Inodes \cup Accepted \cup [version : Accepted, sure : BOOLEAN]
  /\ MaxTick \in Nat /\ MaxChanges \in Nat

VARIABLES
  inode,     \* kind, content and metadata of each inode
  path,      \* the inode the path names, or None
  now,       \* the clock
  pc,        \* where the reader is
  listed,    \* what lstat returned
  fd,        \* the inode that was opened
  opened,    \* what the first fstat returned
  bytes,     \* what has been read since
  reviewed,  \* content and mode the scan accepted; None before
  verdict,   \* how the latest read ended
  snap,      \* history: the opened inode when the first fstat looked
  fresh,     \* history: it had been changed in that very tick
  basis,     \* history: snap and fresh of the accepted scan
  touched,   \* history: something has changed since the scan's open
  origin,    \* history: the file lstat saw, if its mtime tells it from later
             \* ones: not of that very tick, nor set by hand since
  changes    \* bound
disk == <<inode, path, now, changes>>
vars == <<disk, pc, listed, fd, opened, bytes, reviewed, verdict, snap, fresh,
          basis, touched, origin>>

Inode == [kind : {"file", "fifo"}, blocks : Contents, mode : Modes,
          mtime : Nat, ctime : Nat]
Status == [ino : Inodes, size : Nat, mode : Modes, mtime : Nat, ctime : Nat]

Stages == {"idle", "open", "blocked", "stat", "read", "finish"}
Reading == Stages \ {"idle", "blocked"}

TypeOK ==
  /\ inode \in [Inodes -> Inode] /\ path \in Inodes \cup {None}
  /\ now \in 0 .. MaxTick /\ changes \in 0 .. MaxChanges
  /\ pc \in Stages /\ fd \in Inodes \cup {None}
  /\ listed \in Status \cup {None} /\ opened \in Status \cup {None}
  /\ bytes \in Seq(Blocks) /\ reviewed \in Accepted \cup {None}
  /\ verdict \in {"none", "accepted", "changed", "refused"}
  /\ snap \in Version \cup {None} /\ fresh \in BOOLEAN
  /\ basis \in [snap : Version \cup {None}, fresh : BOOLEAN]
  /\ touched \in BOOLEAN /\ origin \in Version \cup {None}

(* A checkout yay has just made: its files are at tick 0 and may be read at  *)
(* once.                                                                     *)
Init ==
  /\ inode \in [Inodes -> [kind : {"file", "fifo"}, blocks : Contents,
                           mode : Modes, mtime : {0}, ctime : {0}]]
  /\ path \in Inodes
  /\ now = 0 /\ changes = 0
  /\ pc = "idle" /\ fd = None /\ listed = None /\ opened = None
  /\ bytes = << >> /\ reviewed = None /\ verdict = "none"
  /\ snap = None /\ fresh = FALSE
  /\ basis = [snap |-> None, fresh |-> FALSE] /\ touched = FALSE
  /\ origin = None

---------------------------------------------------------------------------
(* Other processes.                                                          *)
Change(f) ==
  /\ changes < MaxChanges /\ changes' = changes + 1
  /\ inode' = f /\ touched' = TRUE
  /\ UNCHANGED <<now, pc, listed, fd, opened, bytes, reviewed, verdict, snap,
                 fresh, basis>>

Write(i) ==
  \E c \in Contents :
    /\ Change([inode EXCEPT ![i] = [@ EXCEPT !.blocks = c, !.mtime = now,
                                             !.ctime = now]])
    /\ UNCHANGED <<path, origin>>

Utimes(i) ==
  \E t \in 0 .. MaxTick :
    /\ Change([inode EXCEPT ![i] = [@ EXCEPT !.mtime = t, !.ctime = now]])
    /\ origin' = IF reviewed = None THEN None ELSE origin
    /\ UNCHANGED path

Chmod(i) ==
  \E m \in Modes :
    /\ Change([inode EXCEPT ![i] = [@ EXCEPT !.mode = m, !.ctime = now]])
    /\ UNCHANGED <<path, origin>>

(* rename over the path, or unlink.                                          *)
Rename ==
  \E i \in (Inodes \cup {None}) \ {path} :
    /\ Change([j \in Inodes |->
                 IF j \in {i, path} THEN [inode[j] EXCEPT !.ctime = now]
                                    ELSE inode[j]])
    /\ path' = i /\ UNCHANGED origin

Tick ==
  /\ now < MaxTick /\ now' = now + 1
  /\ UNCHANGED <<inode, path, changes, pc, listed, fd, opened, bytes, reviewed,
                 verdict, snap, fresh, basis, touched, origin>>

---------------------------------------------------------------------------
(* The reader: the scan until it has accepted the file, then verifications.  *)
Stat(i) ==
  [ino |-> i, size |-> Len(inode[i].blocks), mode |-> inode[i].mode,
   mtime |-> inode[i].mtime, ctime |-> inode[i].ctime]

VersionOf(i) == [blocks |-> inode[i].blocks, mode |-> inode[i].mode]

(* Mutant: st_mtime is not compared with what lstat returned.                *)
SameFile_NoMtime(s, t) == s.ino = t.ino /\ s.size = t.size

SameFile(s, t) ==
  s.ino = t.ino /\ s.size = t.size /\ s.mtime = t.mtime

(* Mutant: st_ctime is not compared.                                         *)
Unchanged_NoCtime(s, t) == s.size = t.size /\ s.mtime = t.mtime

Unchanged(s, t) ==
  s.size = t.size /\ s.mtime = t.mtime /\ s.ctime = t.ctime

End(how) ==
  /\ pc' = "idle" /\ verdict' = how
  /\ listed' = None /\ fd' = None /\ opened' = None /\ bytes' = << >>

(* lstat: what is no regular file ends in a finding.                         *)
List ==
  /\ pc = "idle" /\ reviewed = None
  /\ \/ /\ path # None /\ inode[path].kind = "file"
        /\ pc' = "open" /\ listed' = Stat(path) /\ verdict' = "none"
        /\ origin' = IF inode[path].mtime < now THEN VersionOf(path) ELSE None
        /\ UNCHANGED <<fd, opened, bytes>>
     \/ End("refused") /\ UNCHANGED origin
  /\ UNCHANGED <<disk, reviewed, snap, fresh, basis, touched>>

StartVerify ==
  /\ pc = "idle" /\ reviewed # None
  /\ pc' = "open" /\ verdict' = "none"
  /\ UNCHANGED <<disk, listed, fd, opened, bytes, reviewed, snap, fresh, basis,
                 touched, origin>>

(* open with O_NOFOLLOW, which waits if the path names a FIFO.               *)
Open ==
  /\ pc = "open"
  /\ \/ /\ path # None
        /\ pc' = IF inode[path].kind = "file" THEN "stat" ELSE "blocked"
        /\ fd' = path
        /\ UNCHANGED <<verdict, listed, opened, bytes>>
     \/ End("refused")
  /\ touched' = (reviewed # None /\ touched)
  /\ UNCHANGED <<disk, reviewed, snap, fresh, basis, origin>>

(* Mutant: the mode is not compared when a receipt is verified.              *)
StatOpened_AnyMode ==
  /\ pc = "stat"
  /\ snap' = VersionOf(fd)
  /\ fresh' = (inode[fd].ctime = now)
  /\ pc' = "read" /\ opened' = Stat(fd)
  /\ UNCHANGED <<disk, listed, fd, bytes, reviewed, verdict, basis, touched, origin>>

(* The first fstat; a verification compares the mode here.                   *)
StatOpened ==
  /\ pc = "stat"
  /\ snap' = VersionOf(fd)
  /\ fresh' = (inode[fd].ctime = now)
  /\ IF reviewed # None /\ inode[fd].mode # reviewed.mode
     THEN End("changed")
     ELSE pc' = "read" /\ opened' = Stat(fd)
            /\ UNCHANGED <<verdict, listed, fd, bytes>>
  /\ UNCHANGED <<disk, reviewed, basis, touched, origin>>

(* Mutant: the file is read until it has its size.                           *)
ReadBlock_ToSize ==
  /\ pc = "read"
  /\ \/ /\ Len(bytes) < Len(inode[fd].blocks)
        /\ bytes' = Append(bytes, inode[fd].blocks[Len(bytes) + 1])
        /\ UNCHANGED pc
     \/ Len(bytes) >= opened.size /\ pc' = "finish" /\ UNCHANGED bytes
  /\ UNCHANGED <<disk, listed, fd, opened, reviewed, verdict, snap, fresh,
                 basis, touched, origin>>

(* os.read returns the next block, or nothing at the end of the file.        *)
ReadBlock ==
  /\ pc = "read"
  /\ IF Len(bytes) < Len(inode[fd].blocks)
     THEN /\ bytes' = Append(bytes, inode[fd].blocks[Len(bytes) + 1])
          /\ UNCHANGED pc
     ELSE pc' = "finish" /\ UNCHANGED bytes
  /\ UNCHANGED <<disk, listed, fd, opened, reviewed, verdict, snap, fresh,
                 basis, touched, origin>>

(* Mutant: the mode lstat returned goes into the receipt.                    *)
FinishScan_ListedMode ==
  /\ pc = "finish" /\ reviewed = None
  /\ IF SameFile(listed, opened) /\ Unchanged(opened, Stat(fd))
     THEN /\ End("accepted")
          /\ reviewed' = [blocks |-> bytes, mode |-> listed.mode]
          /\ basis' = [snap |-> snap, fresh |-> fresh]
     ELSE End("changed") /\ UNCHANGED <<reviewed, basis>>
  /\ UNCHANGED <<disk, snap, fresh, touched, origin>>

(* The second fstat and the comparisons: of the inode lstat saw with the     *)
(* opened one, and of the opened one with itself after the reads.            *)
FinishScan ==
  /\ pc = "finish" /\ reviewed = None
  /\ IF SameFile(listed, opened) /\ Unchanged(opened, Stat(fd))
     THEN /\ End("accepted")
          /\ reviewed' = [blocks |-> bytes, mode |-> opened.mode]
          /\ basis' = [snap |-> snap, fresh |-> fresh]
     ELSE End("changed") /\ UNCHANGED <<reviewed, basis>>
  /\ UNCHANGED <<disk, snap, fresh, touched, origin>>

(* Mutant: the file is not looked at again after it was hashed.              *)
FinishVerify_OneStat ==
  /\ pc = "finish" /\ reviewed # None
  /\ End(IF bytes = reviewed.blocks THEN "accepted" ELSE "changed")
  /\ UNCHANGED <<disk, reviewed, snap, fresh, basis, touched, origin>>

(* The second fstat, and the hash against the receipt's.                     *)
FinishVerify ==
  /\ pc = "finish" /\ reviewed # None
  /\ End(IF Unchanged(opened, Stat(fd)) /\ bytes = reviewed.blocks
         THEN "accepted" ELSE "changed")
  /\ UNCHANGED <<disk, reviewed, snap, fresh, basis, touched, origin>>

(* A system call fails.                                                      *)
Fail ==
  /\ pc \in {"stat", "read", "finish"}
  /\ End("refused")
  /\ UNCHANGED <<disk, reviewed, snap, fresh, basis, touched, origin>>

(* A FIFO that was opened gets a writer: it is not the inode lstat saw, or   *)
(* not a regular file.                                                       *)
FifoAnswers ==
  /\ pc = "blocked"
  /\ End("refused")
  /\ UNCHANGED <<disk, reviewed, snap, fresh, basis, touched, origin>>

ReadGoesOn == Open \/ StatOpened \/ ReadBlock \/ FinishScan \/ FinishVerify

Next ==
  \/ List \/ StartVerify \/ ReadGoesOn \/ Fail \/ FifoAnswers
  \/ Tick \/ Rename \/ \E i \in Inodes : Write(i) \/ Utimes(i) \/ Chmod(i)

(* A read that has begun goes on whenever it can; it need not fail.          *)
Spec == Init /\ [][Next]_vars
Fairness == WF_vars(ReadGoesOn)

---------------------------------------------------------------------------
(* What the scan reviews and records is one version of the opened file, its  *)
(* content and mode at one moment, whatever was written between the reads,   *)
(* unless the file had been changed in the very tick in which it was opened  *)
(* (scanner.py 385-408, 446-453).                                            *)
ReviewedIsSnapshot ==
  reviewed # None /\ ~basis.fresh => reviewed = basis.snap

(* What the scan accepts has the content that the path had when lstat looked *)
(* at it, although it is opened and read later: whatever was written or      *)
(* renamed in between is noticed, unless the time stamp cannot tell, that is *)
(* unless the file was modified in lstat's own tick or its mtime set by hand *)
(* (scanner.py 399-419).                                                     *)
ReviewedWasListed ==
  reviewed # None /\ origin # None => reviewed.blocks = origin.blocks

(* A file that passes verification was, at one moment of that verification,  *)
(* in the version that was a version of the file at one moment of the        *)
(* review: no mixture of versions, no other mode, with the same exception    *)
(* for either moment (receipts.py 125-147).                                  *)
VerifiedIsReviewed ==
  reviewed # None /\ verdict = "accepted" /\ ~fresh /\ ~basis.fresh =>
    snap = basis.snap

(* A file nothing has touched since the scan opened it is not reported as    *)
(* changed when its receipt is verified: what the scan records, content and  *)
(* mode, is what a later open finds (scanner.py 446-453, receipts.py         *)
(* 127-147).                                                                 *)
UntouchedPasses ==
  reviewed # None /\ verdict = "changed" => touched

(* A read has looked once the first fstat is done.                           *)
Seen ==
  IF pc \in {"read", "finish"} THEN [version |-> snap, sure |-> ~fresh] ELSE None

OneLook == INSTANCE AtomicRead WITH
  Versions <- Accepted,
  file     <- [i \in Inodes |-> VersionOf(i)],
  recent   <- {i \in Inodes : inode[i].ctime = now},
  target   <- fd,
  look     <- Seen,
  answer   <- verdict

(* However many system calls it takes, a read does what one look at the      *)
(* opened file would do: what the scan records is what that look saw, and    *)
(* only a file that looks as recorded passes, except in one tick.  So the    *)
(* modules of the session may take it for one step (scanner.py 385-454,      *)
(* receipts.py 115-147).                                                     *)
ReadsAtOnce == OneLook!Spec

(* A read that has begun comes to an end although the file is truncated,     *)
(* extended or replaced meanwhile, unless it waits in open for the other end *)
(* of a FIFO.  The changes are finitely many: a file that somebody extends   *)
(* for ever is read for ever (scanner.py 390), which this does not speak of. *)
ReadEnds == pc \in Reading ~> pc \in {"idle", "blocked"}
=============================================================================
