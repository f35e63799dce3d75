---------------------------- MODULE AuditLogProofs ----------------------------
(* The safety of the audit log, for any number of writers, any limit and any *)
(* number of kills and power failures.                                       *)
(*                                                                           *)
(* The properties speak of acknowledged events only.  IInv also follows an   *)
(* event on its way there: nothing of a writer is in a file before it writes *)
(* (NotYet), and between its write and its fsync the event stays in the log, *)
(* because the writer holds the lock (HolderOwns, Written).                  *)
EXTENDS AuditLog, TLAPS

Critical == {"check", "rotate", "write", "sync", "close"}
Early == {"ready", "lock", "check", "rotate", "write"}

HolderOwns == \A w \in Writers : pc[w] \in Critical <=> holder = w

NotYet ==
  \A w \in Writers : pc[w] \in Early =>
    result[w] = "none" /\ ~InFile(w, log) /\ ~InFile(w, rotated)

Written ==
  \A w \in Writers : pc[w] = "sync" =>
    /\ result[w] = "none"
    /\ InFile(w, log) /\ ~InFile(w, rotated)
    /\ \E i \in DOMAIN history : history[i] = w

RotatesFull ==
  \A w \in Writers : pc[w] = "rotate" => Len(log.events) >= Limit

(* At least n events came after one of w's.                                  *)
Followed(w, n) ==
  \E i \in DOMAIN history : history[i] = w /\ Len(history) - i >= n

Kept ==
  \A w \in Writers : result[w] = "ok" =>
    \/ InFile(w, log) /\ Followed(w, 0)
    \/ InFile(w, rotated) /\ Followed(w, Len(log.events))
    \/ Followed(w, Limit)

IInv ==
  /\ TypeOK /\ HolderOwns /\ NotYet /\ Written /\ RotatesFull
  /\ AcknowledgedIsSynced /\ Kept

USE DEF Stages, Gone, Critical, Early

(* The initial states satisfy the invariant.                                 *)
LEMMA InitIInv == Init => IInv
<1> SUFFICES ASSUME Init PROVE IInv
  OBVIOUS
<1> USE AuditAssumption DEF Init, Empty
<1>1. Empty \in File /\ Len(Empty.events) = 0 /\ DOMAIN Empty.events = {}
  BY DEF File
<1>2. TypeOK
  BY <1>1 DEF TypeOK
<1>3. HolderOwns /\ NotYet /\ Written /\ RotatesFull
  BY <1>1 DEF HolderOwns, NotYet, Written, RotatesFull, InFile
<1>4. AcknowledgedIsSynced /\ Kept
  BY DEF AcknowledgedIsSynced, Kept
<1> QED
  BY <1>2, <1>3, <1>4 DEF IInv

(* What a power failure leaves of a file is a file, its beginning, and no    *)
(* less than what was synced.                                                *)
LEMMA WhatSurvives ==
  ASSUME NEW file \in File, file.synced <= Len(file.events),
         NEW left \in Survives(file)
  PROVE  /\ left \in File /\ left.synced = Len(left.events)
         /\ file.synced <= left.synced /\ Len(left.events) <= Len(file.events)
         /\ \A i \in DOMAIN left.events :
              i \in DOMAIN file.events /\ left.events[i] = file.events[i]
         /\ \A i \in DOMAIN file.events :
              i <= file.synced => i \in DOMAIN left.events
<1>1. PICK n \in file.synced .. Len(file.events) :
        left = [events |-> SubSeq(file.events, 1, n), synced |-> n]
  BY DEF Survives
<1>2. file.events \in Seq(Writers) /\ file.synced \in Nat
  BY DEF File
<1>3. n \in Nat /\ n <= Len(file.events)
  BY <1>1, <1>2
<1>4. /\ left.events \in Seq(Writers) /\ Len(left.events) = n
      /\ \A i \in 1 .. n : left.events[i] = file.events[i]
  BY <1>1, <1>2, <1>3
<1>5. DOMAIN left.events = 1 .. n /\ DOMAIN file.events = 1 .. Len(file.events)
  BY <1>2, <1>4
<1>6. left \in File
  BY <1>1, <1>3, <1>4 DEF File
<1> QED
  BY <1>1, <1>2, <1>3, <1>4, <1>5, <1>6

(* Appending an event to the log keeps what is there and puts it last.       *)
LEMMA WhatIsAppended ==
  ASSUME NEW s, NEW S, s \in Seq(S), NEW e \in S
  PROVE  /\ Append(s, e) \in Seq(S) /\ Len(Append(s, e)) = Len(s) + 1
         /\ \A i \in DOMAIN s :
              i \in DOMAIN Append(s, e) /\ Append(s, e)[i] = s[i]
         /\ Len(s) + 1 \in DOMAIN Append(s, e) /\ Append(s, e)[Len(s) + 1] = e
         /\ \A i \in DOMAIN Append(s, e) : i \in DOMAIN s \/ i = Len(s) + 1
  OBVIOUS

(* Every step keeps the variables in their types.                            *)
LEMMA StepTypeOK == TypeOK /\ [Next]_vars => TypeOK'
<1> SUFFICES ASSUME TypeOK, [Next]_vars PROVE TypeOK'
  OBVIOUS
<1> USE AuditAssumption DEF TypeOK
<1>0. Empty \in File /\ Empty.synced <= Len(Empty.events)
  BY DEF Empty, File
<1>1. CASE UNCHANGED vars
  BY <1>1 DEF vars
<1>2. CASE PowerFails
  <2>1. /\ log' \in File /\ log'.synced <= Len(log'.events)
        /\ rotated' \in File /\ rotated'.synced <= Len(rotated'.events)
    <3>1. log' \in Survives(log) /\ rotated' \in Survives(rotated)
      BY <1>2 DEF PowerFails
    <3>2. /\ log' \in File /\ log'.synced = Len(log'.events)
          /\ rotated' \in File /\ rotated'.synced = Len(rotated'.events)
      BY <3>1, WhatSurvives
    <3> QED
      BY <3>2 DEF File
  <2>2. crashes' \in 0 .. MaxCrashes /\ holder' \in Writers \cup {Nobody}
    BY <1>2 DEF PowerFails
  <2>3. /\ pc' \in [Writers -> Stages]
        /\ result' \in [Writers -> {"none", "ok", "error"}]
        /\ history' \in Seq(Writers)
    BY <1>2 DEF PowerFails
  <2> QED
    BY <2>1, <2>2, <2>3
<1>3. ASSUME NEW w \in Writers, AppendEvent(w) \/ Kill(w) PROVE TypeOK'
  <2>1. CASE Begin(w) \/ Lock(w) \/ Check(w)
    BY <2>1 DEF Begin, Lock, Check, Goto, Raise
  <2>2. CASE Rotate(w)
    BY <2>2, <1>0 DEF Rotate, Goto, Raise
  <2>3. CASE Write(w)
    <3>1. pc' \in [Writers -> Stages]
          /\ result' \in [Writers -> {"none", "ok", "error"}]
      BY <2>3 DEF Write, Goto, Raise
    <3>2. CASE UNCHANGED <<log, history>>
      BY <2>3, <3>1, <3>2 DEF Write
    <3>3. CASE /\ log' = [log EXCEPT !.events = Append(@, w)]
               /\ history' = Append(history, w)
      <4>1. log.events \in Seq(Writers) /\ log.synced \in Nat
        BY DEF File
      <4>2. /\ Append(log.events, w) \in Seq(Writers)
            /\ Len(Append(log.events, w)) = Len(log.events) + 1
        BY <4>1, WhatIsAppended
      <4>3. log' = [events |-> Append(log.events, w), synced |-> log.synced]
        BY <3>3 DEF File
      <4>4. log' \in File /\ log'.synced <= Len(log'.events)
        BY <4>1, <4>2, <4>3 DEF File
      <4>5. history' \in Seq(Writers)
        BY <3>3, WhatIsAppended
      <4> QED
        BY <2>3, <3>1, <4>4, <4>5 DEF Write
    <3> QED
      BY <2>3, <3>2, <3>3 DEF Write
  <2>4. CASE Sync(w)
    <3>1. /\ pc' \in [Writers -> Stages]
          /\ result' \in [Writers -> {"none", "ok", "error"}]
      BY <2>4 DEF Sync, Raise
    <3>2. log.events \in Seq(Writers) /\ Len(log.events) \in Nat
      BY DEF File
    <3>3. log' \in File /\ log'.synced <= Len(log'.events)
      <4>1. CASE UNCHANGED log
        BY <4>1
      <4>2. CASE log' = [log EXCEPT !.synced = Len(log.events)]
        <5>1. log' = [events |-> log.events, synced |-> Len(log.events)]
          BY <4>2 DEF File
        <5> QED
          BY <5>1, <3>2 DEF File
      <4> QED
        BY <2>4, <4>1, <4>2 DEF Sync
    <3> QED
      BY <2>4, <3>1, <3>3 DEF Sync
  <2>5. CASE Close(w) \/ Kill(w)
    BY <2>5 DEF Close, Kill, Goto
  <2> QED
    BY <1>3, <2>1, <2>2, <2>3, <2>4, <2>5 DEF AppendEvent
<1> QED
  BY <1>1, <1>2, <1>3 DEF Next

(* The lock is held by whoever is between flock and the close of its         *)
(* descriptor.                                                               *)
LEMMA StepHolder == TypeOK /\ HolderOwns /\ [Next]_vars => HolderOwns'
<1> SUFFICES ASSUME TypeOK, HolderOwns, [Next]_vars PROVE HolderOwns'
  OBVIOUS
<1> USE AuditAssumption DEF TypeOK, HolderOwns
<1>1. CASE UNCHANGED vars
  BY <1>1 DEF vars
<1>2. CASE PowerFails
  BY <1>2 DEF PowerFails
<1>3. ASSUME NEW w \in Writers, AppendEvent(w) \/ Kill(w) PROVE HolderOwns'
  <2>1. CASE Begin(w) \/ Lock(w) \/ Check(w)
    BY <2>1 DEF Begin, Lock, Check, Goto, Raise
  <2>2. CASE Rotate(w) \/ Write(w) \/ Sync(w)
    BY <2>2 DEF Rotate, Write, Sync, Goto, Raise
  <2>3. CASE Close(w) \/ Kill(w)
    BY <2>3 DEF Close, Kill, Goto
  <2> QED
    BY <1>3, <2>1, <2>2, <2>3 DEF AppendEvent
<1> QED
  BY <1>1, <1>2, <1>3 DEF Next

OnTheWay == NotYet /\ Written /\ RotatesFull

(* An event is in no file before its write, and in the log until its fsync.  *)
LEMMA StepOnTheWay == TypeOK /\ HolderOwns /\ OnTheWay /\ [Next]_vars => OnTheWay'
<1> SUFFICES ASSUME TypeOK, HolderOwns, OnTheWay, [Next]_vars PROVE OnTheWay'
  OBVIOUS
<1> USE AuditAssumption DEF OnTheWay, TypeOK
<1>0. /\ log.events \in Seq(Writers) /\ Len(log.events) \in Nat
      /\ rotated.events \in Seq(Writers)
  BY DEF File
<1>1. CASE UNCHANGED vars
  BY <1>1 DEF vars, NotYet, Written, RotatesFull, InFile
<1>2. CASE PowerFails
  <2>1. /\ \A w \in Writers : InFile(w, log)' => InFile(w, log)
        /\ \A w \in Writers : InFile(w, rotated)' => InFile(w, rotated)
    <3>1. log' \in Survives(log) /\ rotated' \in Survives(rotated)
      BY <1>2 DEF PowerFails
    <3> QED
      BY <3>1, WhatSurvives DEF InFile
  <2>2. \A w \in Writers : /\ pc'[w] \in Gone \cup {"ready"}
                           /\ pc'[w] = "ready" => pc[w] = "ready"
                           /\ result'[w] = result[w]
    BY <1>2 DEF PowerFails
  <2> QED
    BY <2>1, <2>2 DEF NotYet, Written, RotatesFull
<1>3. ASSUME NEW w \in Writers, AppendEvent(w) \/ Kill(w) PROVE OnTheWay'
  <2>0. \A v \in Writers : v # w =>
          /\ pc'[v] = pc[v] /\ result'[v] = result[v]
          /\ pc[w] \in Critical => pc[v] \notin Critical
    <3>1. \A v \in Writers : v # w => pc'[v] = pc[v] /\ result'[v] = result[v]
      <4>1. CASE Begin(w) \/ Lock(w) \/ Check(w)
        BY <4>1 DEF Begin, Lock, Check, Goto, Raise
      <4>2. CASE Rotate(w) \/ Write(w) \/ Sync(w)
        BY <4>2 DEF Rotate, Write, Sync, Goto, Raise
      <4>3. CASE Close(w) \/ Kill(w)
        BY <4>3 DEF Close, Kill, Goto
      <4> QED
        BY <1>3, <4>1, <4>2, <4>3 DEF AppendEvent
    <3>2. \A v \in Writers : v # w /\ pc[w] \in Critical => pc[v] \notin Critical
      BY DEF HolderOwns
    <3> QED
      BY <3>1, <3>2
  <2>1. CASE Begin(w) \/ Lock(w) \/ Check(w) \/ Close(w) \/ Kill(w)
    <3>1. UNCHANGED <<log, rotated, history>>
      BY <2>1 DEF Begin, Lock, Check, Close, Kill
    <3>2. /\ pc'[w] \in Early => pc[w] \in Early /\ result'[w] = result[w]
          /\ pc'[w] # "sync"
          /\ pc'[w] = "rotate" => Len(log.events) >= Limit
      BY <2>1 DEF Begin, Lock, Check, Close, Kill, Goto, Raise
    <3>3. NotYet' /\ Written'
      BY <2>0, <3>1, <3>2 DEF NotYet, Written, InFile
    <3>4. RotatesFull'
      BY <2>0, <3>1, <3>2 DEF RotatesFull
    <3> QED
      BY <3>3, <3>4
  <2>2. CASE Rotate(w)
    <3>1. \A v \in Writers : pc'[v] \notin {"sync", "rotate"}
      BY <2>0, <2>2 DEF Rotate, Goto, Raise
    <3>2. /\ pc'[w] \in Early => result'[w] = result[w]
          /\ pc[w] = "rotate"
      BY <2>2 DEF Rotate, Goto, Raise
    <3>3. \A v \in Writers : ~InFile(v, log) /\ ~InFile(v, rotated) =>
            ~InFile(v, log)' /\ ~InFile(v, rotated)'
      <4>1. CASE UNCHANGED <<log, rotated>>
        BY <4>1 DEF InFile
      <4>2. CASE rotated' = log /\ log' = Empty
        BY <4>2 DEF InFile, Empty
      <4> QED
        BY <2>2, <4>1, <4>2 DEF Rotate
    <3> QED
      BY <2>0, <3>1, <3>2, <3>3 DEF NotYet, Written, RotatesFull
  <2>3. CASE Write(w)
    <3>1. \A v \in Writers : v # w => pc'[v] \notin {"sync", "rotate"}
      BY <2>0, <2>3 DEF Write
    <3>2. /\ pc[w] = "write" /\ pc'[w] \in {"sync", "close"}
          /\ UNCHANGED rotated
      BY <2>3 DEF Write, Goto, Raise
    <3>3. CASE UNCHANGED <<log, history>> /\ pc'[w] = "close"
      BY <2>0, <3>1, <3>2, <3>3 DEF NotYet, Written, RotatesFull, InFile
    <3>4. CASE /\ log' = [log EXCEPT !.events = Append(@, w)]
               /\ history' = Append(history, w)
               /\ result' = result
      <4>1. log'.events = Append(log.events, w)
        BY <3>4 DEF File
      <4>2. \A v \in Writers : v # w /\ ~InFile(v, log) => ~InFile(v, log)'
        BY <4>1, <1>0, WhatIsAppended DEF InFile
      <4>3. InFile(w, log)'
        BY <4>1, <1>0, WhatIsAppended DEF InFile
      <4>4. \E i \in DOMAIN history' : history'[i] = w
        BY <3>4, WhatIsAppended
      <4>5. ~InFile(w, rotated)' /\ result'[w] = "none"
        BY <3>2, <3>4 DEF NotYet, InFile
      <4>6. \A v \in Writers : InFile(v, rotated)' = InFile(v, rotated)
        BY <3>2 DEF InFile
      <4>7. NotYet'
        BY <2>0, <3>2, <4>2, <4>6 DEF NotYet
      <4>8. Written' /\ RotatesFull'
        BY <3>1, <3>2, <4>3, <4>4, <4>5 DEF Written, RotatesFull
      <4> QED
        BY <4>7, <4>8
    <3> QED
      BY <2>3, <3>3, <3>4 DEF Write, Goto, Raise
  <2>4. CASE Sync(w)
    <3>1. \A v \in Writers : pc'[v] \notin {"sync", "rotate"}
      BY <2>0, <2>4 DEF Sync, Raise
    <3>2. pc'[w] = "close" /\ UNCHANGED rotated /\ log'.events = log.events
      BY <2>4 DEF Sync, Raise, File
    <3> QED
      BY <2>0, <3>1, <3>2 DEF NotYet, Written, RotatesFull, InFile
  <2> QED
    BY <1>3, <2>1, <2>2, <2>3, <2>4 DEF AppendEvent
<1> QED
  BY <1>1, <1>2, <1>3 DEF Next

(* Only Sync acknowledges an event.                                          *)
LEMMA WhoAcknowledges ==
  ASSUME TypeOK, NEW w \in Writers, AppendEvent(w) \/ Kill(w), ~Sync(w),
         NEW v \in Writers, result'[v] = "ok"
  PROVE  result[v] = "ok"
<1> USE DEF TypeOK
<1>1. CASE Begin(w) \/ Lock(w) \/ Check(w)
  BY <1>1 DEF Begin, Lock, Check, Goto, Raise
<1>2. CASE Rotate(w) \/ Write(w)
  BY <1>2 DEF Rotate, Write, Goto, Raise
<1>3. CASE Close(w) \/ Kill(w)
  BY <1>3 DEF Close, Kill, Goto
<1> QED
  BY <1>1, <1>2, <1>3 DEF AppendEvent

(* What is acknowledged stays behind an fsync.                               *)
LEMMA StepSynced ==
  TypeOK /\ OnTheWay /\ AcknowledgedIsSynced /\ [Next]_vars => AcknowledgedIsSynced'
<1> SUFFICES ASSUME TypeOK, OnTheWay, AcknowledgedIsSynced, [Next]_vars
             PROVE  AcknowledgedIsSynced'
  OBVIOUS
<1> USE AuditAssumption DEF TypeOK
<1> DEFINE Covered(w, file) ==
             \A i \in DOMAIN file.events : file.events[i] = w => i <= file.synced
<1>0. /\ log.events \in Seq(Writers) /\ rotated.events \in Seq(Writers)
      /\ log.synced \in Nat /\ rotated.synced \in Nat
      /\ DOMAIN log.events = 1 .. Len(log.events) /\ Len(log.events) \in Nat
  BY DEF File
<1>a. \A w \in Writers : result[w] = "ok" => Covered(w, log) /\ Covered(w, rotated)
  BY DEF AcknowledgedIsSynced
<1>b. SUFFICES ASSUME NEW v \in Writers, result'[v] = "ok"
               PROVE  Covered(v, log') /\ Covered(v, rotated')
  BY DEF AcknowledgedIsSynced
<1>1. CASE UNCHANGED vars
  BY <1>1, <1>a, <1>b DEF vars
<1>2. CASE PowerFails
  <2>1. log' \in Survives(log) /\ rotated' \in Survives(rotated)
    BY <1>2 DEF PowerFails
  <2>2. /\ log'.events \in Seq(Writers) /\ log'.synced = Len(log'.events)
        /\ rotated'.events \in Seq(Writers) /\ rotated'.synced = Len(rotated'.events)
    BY <2>1, WhatSurvives DEF File
  <2> QED
    BY <2>2
<1>3. ASSUME NEW w \in Writers, AppendEvent(w) \/ Kill(w)
      PROVE  Covered(v, log') /\ Covered(v, rotated')
  <2>1. CASE Sync(w)
    <3>1. UNCHANGED rotated /\ log'.events = log.events /\ log.synced <= log'.synced
      BY <2>1, <1>0 DEF Sync, Raise, File
    <3>2. CASE result[v] = "ok"
      <4>1. Covered(v, log) /\ Covered(v, rotated)
        BY <3>2, <1>a
      <4>2. log'.synced \in Nat
        BY <2>1, <1>0 DEF Sync, Raise, File
      <4> QED
        BY <3>1, <4>1, <4>2, <1>0
    <3>3. CASE result[v] # "ok"
      <4>1. v = w /\ log'.synced = Len(log.events)
        BY <2>1, <3>3, <1>b DEF Sync, Raise, File
      <4>2. ~InFile(v, rotated)
        BY <2>1, <4>1 DEF Sync, OnTheWay, Written
      <4> QED
        BY <3>1, <4>1, <4>2, <1>0 DEF InFile
    <3> QED
      BY <3>2, <3>3
  <2>2. CASE ~Sync(w)
    <3>1. result[v] = "ok"
      BY <2>2, <1>3, <1>b, WhoAcknowledges
    <3>2. Covered(v, log) /\ Covered(v, rotated)
      BY <3>1, <1>a
    <3>3. CASE UNCHANGED <<log, rotated>>
      BY <3>2, <3>3
    <3>4. CASE Rotate(w)
      <4>1. CASE rotated' = log /\ log' = Empty
        <5>1. DOMAIN Empty.events = {}
          BY DEF Empty
        <5> QED
          BY <3>2, <4>1, <5>1
      <4> QED
        BY <3>3, <3>4, <4>1 DEF Rotate
    <3>5. CASE Write(w)
      <4>1. CASE UNCHANGED log
        BY <3>5, <3>3, <4>1 DEF Write
      <4>2. CASE log' = [log EXCEPT !.events = Append(@, w)]
        <5>1. log'.events = Append(log.events, w) /\ log'.synced = log.synced
          BY <4>2 DEF File
        <5>2. v # w
          BY <3>1, <3>5 DEF Write, OnTheWay, NotYet
        <5>3. Covered(v, log')
          BY <3>2, <5>1, <5>2, <1>0, WhatIsAppended
        <5> QED
          BY <3>2, <3>5, <5>3 DEF Write
      <4> QED
        BY <3>5, <4>1, <4>2 DEF Write
    <3>6. CASE Begin(w) \/ Lock(w) \/ Check(w) \/ Close(w) \/ Kill(w)
      BY <3>3, <3>6 DEF Begin, Lock, Check, Close, Kill
    <3> QED
      BY <1>3, <2>2, <3>4, <3>5, <3>6 DEF AppendEvent
  <2> QED
    BY <2>1, <2>2
<1> QED
  BY <1>1, <1>2, <1>3 DEF Next

(* What is acknowledged is followed by enough other events before it goes.   *)
LEMMA StepKept ==
  TypeOK /\ OnTheWay /\ AcknowledgedIsSynced /\ Kept /\ [Next]_vars => Kept'
<1> SUFFICES ASSUME TypeOK, OnTheWay, AcknowledgedIsSynced, Kept, [Next]_vars,
                    NEW v \in Writers, result'[v] = "ok"
             PROVE  \/ InFile(v, log)' /\ Followed(v, 0)'
                    \/ InFile(v, rotated)' /\ Followed(v, Len(log.events))'
                    \/ Followed(v, Limit)'
  BY DEF Kept
<1> USE AuditAssumption DEF TypeOK
<1>0. /\ log.events \in Seq(Writers) /\ Len(log.events) \in Nat
      /\ rotated.events \in Seq(Writers)
      /\ Len(history) \in Nat /\ DOMAIN history = 1 .. Len(history)
  BY DEF File
<1>1. CASE UNCHANGED vars
  BY <1>1 DEF vars, Kept, InFile, Followed
<1>2. CASE PowerFails
  <2>1. /\ log' \in Survives(log) /\ rotated' \in Survives(rotated)
        /\ result' = result /\ history' = history
    BY <1>2 DEF PowerFails
  <2>2. /\ InFile(v, log) => InFile(v, log)'
        /\ InFile(v, rotated) => InFile(v, rotated)'
        /\ Len(log'.events) \in Nat /\ Len(log'.events) <= Len(log.events)
    <3>1. /\ \A i \in DOMAIN log.events : log.events[i] = v => i <= log.synced
          /\ \A i \in DOMAIN rotated.events :
               rotated.events[i] = v => i <= rotated.synced
      BY <2>1 DEF AcknowledgedIsSynced
    <3>2. /\ \A i \in DOMAIN log.events : i <= log.synced =>
               i \in DOMAIN log'.events /\ log'.events[i] = log.events[i]
          /\ \A i \in DOMAIN rotated.events : i <= rotated.synced =>
               i \in DOMAIN rotated'.events /\ rotated'.events[i] = rotated.events[i]
      BY <2>1, WhatSurvives
    <3>3. log'.events \in Seq(Writers) /\ Len(log'.events) <= Len(log.events)
      BY <2>1, WhatSurvives DEF File
    <3> QED
      BY <3>1, <3>2, <3>3 DEF InFile
  <2>3. /\ Followed(v, 0) => Followed(v, 0)'
        /\ Followed(v, Limit) => Followed(v, Limit)'
        /\ Followed(v, Len(log.events)) => Followed(v, Len(log.events))'
    BY <2>1, <2>2, <1>0 DEF Followed
  <2> QED
    BY <2>1, <2>2, <2>3 DEF Kept
<1>3. ASSUME NEW w \in Writers, AppendEvent(w) \/ Kill(w)
      PROVE  \/ InFile(v, log)' /\ Followed(v, 0)'
             \/ InFile(v, rotated)' /\ Followed(v, Len(log.events))'
             \/ Followed(v, Limit)'
  <2>1. CASE Sync(w)
    <3>1. UNCHANGED <<rotated, history>> /\ log'.events = log.events
      BY <2>1 DEF Sync, Raise, File
    <3>2. CASE result[v] = "ok"
      BY <3>1, <3>2 DEF Kept, InFile, Followed
    <3>3. CASE result[v] # "ok"
      <4>1. v = w
        BY <2>1, <3>3 DEF Sync, Raise
      <4>2. InFile(v, log) /\ \E i \in DOMAIN history : history[i] = v
        BY <2>1, <4>1 DEF Sync, OnTheWay, Written
      <4> QED
        BY <3>1, <4>2, <1>0 DEF InFile, Followed
    <3> QED
      BY <3>2, <3>3
  <2>2. CASE ~Sync(w)
    <3>1. result[v] = "ok"
      BY <2>2, <1>3, WhoAcknowledges
    <3>2. \/ InFile(v, log) /\ Followed(v, 0)
          \/ InFile(v, rotated) /\ Followed(v, Len(log.events))
          \/ Followed(v, Limit)
      BY <3>1 DEF Kept
    <3>3. CASE UNCHANGED <<log, rotated, history>>
      BY <3>2, <3>3 DEF InFile, Followed
    <3>4. CASE Rotate(w)
      <4>1. CASE rotated' = log /\ log' = Empty
        <5>1. history' = history /\ Len(log.events) >= Limit
          BY <3>4 DEF Rotate, OnTheWay, RotatesFull
        <5>2. Len(log'.events) = 0
          BY <4>1 DEF Empty
        <5>3. CASE InFile(v, log) /\ Followed(v, 0)
          BY <4>1, <5>1, <5>2, <5>3 DEF InFile, Followed
        <5>4. CASE Followed(v, Len(log.events)) \/ Followed(v, Limit)
          BY <5>1, <5>4, <1>0 DEF Followed
        <5> QED
          BY <3>2, <5>3, <5>4
      <4> QED
        BY <3>3, <3>4, <4>1 DEF Rotate
    <3>5. CASE Write(w)
      <4>1. CASE UNCHANGED <<log, history>>
        BY <3>5, <3>3, <4>1 DEF Write
      <4>2. CASE /\ log' = [log EXCEPT !.events = Append(@, w)]
                 /\ history' = Append(history, w)
        <5>1. log'.events = Append(log.events, w)
          BY <4>2 DEF File
        <5>2. /\ Len(log'.events) = Len(log.events) + 1
              /\ InFile(v, log) => InFile(v, log)'
          BY <5>1, <1>0, WhatIsAppended DEF InFile
        <5>3. rotated' = rotated
          BY <3>5 DEF Write
        <5>4. ASSUME NEW n \in Nat, Followed(v, n)
              PROVE  \E i \in DOMAIN history' :
                       history'[i] = v /\ Len(history') - i >= n + 1
          <6>1. PICK i \in DOMAIN history : history[i] = v /\ Len(history) - i >= n
            BY <5>4 DEF Followed
          <6>2. /\ i \in DOMAIN history' /\ history'[i] = v
                /\ Len(history') = Len(history) + 1
            BY <4>2, <6>1, WhatIsAppended
          <6> QED
            BY <6>1, <6>2, <1>0
        <5>5. DOMAIN history' \subseteq Nat /\ Len(history') \in Nat
          BY <4>2, WhatIsAppended
        <5>6. Followed(v, 0) => Followed(v, 0)'
          BY <5>4, <5>5 DEF Followed
        <5>7. Followed(v, Limit) => Followed(v, Limit)'
          BY <5>4, <5>5 DEF Followed
        <5>8. Followed(v, Len(log.events)) => Followed(v, Len(log.events))'
          BY <5>2, <5>4, <1>0 DEF Followed
        <5> QED
          BY <3>2, <5>2, <5>3, <5>6, <5>7, <5>8 DEF InFile
      <4> QED
        BY <3>5, <4>1, <4>2 DEF Write
    <3>6. CASE Begin(w) \/ Lock(w) \/ Check(w) \/ Close(w) \/ Kill(w)
      BY <3>3, <3>6 DEF Begin, Lock, Check, Close, Kill
    <3> QED
      BY <1>3, <2>2, <3>4, <3>5, <3>6 DEF AppendEvent
  <2> QED
    BY <2>1, <2>2
<1> QED
  BY <1>1, <1>2, <1>3 DEF Next

LEMMA Invariance == Spec => []IInv
<1>1. IInv /\ [Next]_vars => IInv'
  BY StepTypeOK, StepHolder, StepOnTheWay, StepSynced, StepKept DEF IInv, OnTheWay
<1> QED
  BY InitIInv, <1>1, PTL DEF Spec

(* The variables of the audit log keep to their types; no more of a file is  *)
(* taken to be synced than it has.                                           *)
THEOREM TypeCorrect == Spec => []TypeOK
<1>1. IInv => TypeOK
  BY DEF IInv
<1> QED
  BY Invariance, <1>1, PTL

(* Success of _append_event means that the event is behind an fsync, in the  *)
(* file it is in, for any number of writers and crashes.                     *)
THEOREM Synced == Spec => []AcknowledgedIsSynced
<1>1. IInv => AcknowledgedIsSynced
  BY DEF IInv
<1> QED
  BY Invariance, <1>1, PTL

(* Rotation throws an acknowledged event away only after as many others as   *)
(* the limit, whoever appends at the same time.                              *)
THEOREM RecentKept == Spec => []RecentEventsAreKept
<1>1. IInv => RecentEventsAreKept
  BY DEF IInv, Kept, RecentEventsAreKept, Followed
<1> QED
  BY Invariance, <1>1, PTL
=============================================================================
