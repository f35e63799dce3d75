------------------------------ MODULE AtomicRead ------------------------------
(* What reading a file means to the rest of the guard: one look at the file  *)
(* that was opened, and an answer that follows from what was seen.  A look   *)
(* is sure unless the file was changed in that very tick of the file         *)
(* system's clock.                                                           *)
CONSTANTS Inodes, Versions, None

VARIABLES
  file,      \* the version of each inode
  path,      \* the inode the path names, or None
  recent,    \* the inodes changed in this tick
  target,    \* the inode a read has opened
  look,      \* what the read has seen, None before it looks
  reviewed,  \* the version the scan accepted, None before
  answer     \* how the latest read ended
vars == <<file, path, recent, target, look, reviewed, answer>>
reader == <<target, look, reviewed, answer>>

Init ==
  /\ file \in [Inodes -> Versions] /\ path \in Inodes
  /\ recent = Inodes
  /\ target = None /\ look = None /\ reviewed = None /\ answer = "none"

Change ==
  /\ file' \in [Inodes -> Versions] /\ path' \in Inodes \cup {None}
  /\ recent \subseteq recent' /\ recent' \subseteq Inodes
  /\ \A i \in Inodes : file'[i] # file[i] => i \in recent'
  /\ UNCHANGED reader

Tick == recent' = {} /\ UNCHANGED <<file, path, reader>>

Begin ==
  /\ target = None
  /\ answer' = "none"
  /\ UNCHANGED <<file, path, recent, target, look, reviewed>>

Open ==
  /\ target = None /\ path # None
  /\ target' = path
  /\ UNCHANGED <<file, path, recent, look, reviewed, answer>>

Look ==
  /\ target # None /\ look = None
  /\ look' = [version |-> file[target], sure |-> target \notin recent]
  /\ UNCHANGED <<file, path, recent, target, reviewed, answer>>

Close(how) ==
  /\ target' = None /\ look' = None /\ answer' = how
  /\ UNCHANGED <<file, path, recent>>

(* The scan records what it has seen.                                        *)
Review ==
  /\ look # None /\ reviewed = None
  /\ reviewed' \in Versions /\ (look.sure => reviewed' = look.version)
  /\ Close("accepted")

(* Only what was recorded passes.                                            *)
Verify ==
  /\ look # None /\ reviewed # None
  /\ look.sure => reviewed = look.version
  /\ Close("accepted") /\ UNCHANGED reviewed

Refuse ==
  /\ Close("changed") \/ Close("refused")
  /\ UNCHANGED reviewed

Next ==
  \/ Change \/ Tick
  \/ Begin \/ Open \/ Look \/ Review \/ Verify \/ Refuse

Spec == Init /\ [][Next]_vars
=============================================================================
