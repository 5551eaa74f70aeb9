---------------------------- MODULE NoteEditProofs ----------------------------
(***************************************************************************)
(* The write lock of a note and the tools of the server that hold it: what *)
(* holds of the lock for any set of writers, any timeout and any number of *)
(* crashes; that it excludes where nobody dies inside and nobody stays as  *)
(* long as the stale age; and that the tools implement the atomic note and *)
(* leave the index in agreement with the file, for any number of servers.  *)
(***************************************************************************)
EXTENDS NoteEdit, TLAPS

(***************************************************************************)
(* The lock.                                                               *)
(***************************************************************************)

\* The assumption under which the lock excludes: no crash, and a live holder
\* always leaves before its file can be judged stale.
Orderly == MaxCrashes = 0 /\ HoldLimit < StaleAge

\* Every writer that is inside owns the lock file, until the first misfire.
InsideOwns == misfired \/ \A w \in Inside : lock = w

\* In an orderly run a lock file belongs to a writer that is inside and is no
\* older than the stay of that writer, so nobody ever gets to unlink it.
FilesAreYoung ==
    /\ ~misfired
    /\ \A w \in Writers : lock = w => pc[w] = "critical" /\ age <= held[w]
    /\ \A w \in Writers : pc[w] # "reclaim"

LEMMA StaleAgeNat == StaleAge \in Nat /\ StaleAge > 0
  BY LockConstants DEF StaleAge

LEMMA AgeAfterBound ==
  ASSUME NEW limit \in Nat, NEW a \in 0 .. limit
  PROVE  AgeAfter(a, limit) \in 0 .. limit
  BY DEF AgeAfter

LEMMA LockInitType == LockInit => LockTypeOK
<1>1. 0 \in 0 .. StaleAge /\ 0 \in 0 .. Timeout /\ 0 \in 0 .. HoldLimit /\ 0 \in 0 .. MaxCrashes
  BY LockConstants, StaleAgeNat
<1> QED BY <1>1 DEF LockInit, LockTypeOK, PCs, Waiting

LEMMA LockNextType == LockTypeOK /\ [LockNext]_lockVars => LockTypeOK'
<1> SUFFICES ASSUME LockTypeOK, [LockNext]_lockVars PROVE LockTypeOK'
  OBVIOUS
<1> USE LockConstants, StaleAgeNat DEF LockTypeOK, PCs, Waiting, Goto
<1>1. ASSUME NEW w \in Writers, Enter(w) PROVE LockTypeOK'
  BY <1>1 DEF Enter
<1>2. ASSUME NEW w \in Writers, Acquire(w) PROVE LockTypeOK'
  <2>1. CASE Create(w)          BY <2>1 DEF Create
  <2>2. CASE CreateFails(w)     BY <2>2 DEF CreateFails
  <2>3. CASE GiveUp(w)          BY <2>3 DEF GiveUp
  <2>4. CASE BeforeDeadline(w)  BY <2>4 DEF BeforeDeadline
  <2>5. CASE Stat(w)            BY <2>5 DEF Stat
  <2>6. CASE Reclaim(w)         BY <2>6 DEF Reclaim
  <2>7. CASE Wake(w)            BY <2>7 DEF Wake
  <2> QED BY <1>2, <2>1, <2>2, <2>3, <2>4, <2>5, <2>6, <2>7 DEF Acquire
<1>3. ASSUME NEW w \in Writers, Release(w) PROVE LockTypeOK'
  BY <1>3 DEF Release
<1>4. ASSUME NEW w \in Writers, Crash(w) PROVE LockTypeOK'
  BY <1>4 DEF Crash
<1>5. ASSUME Tick PROVE LockTypeOK'
  <2>1. age' \in 0 .. StaleAge
    BY <1>5, AgeAfterBound DEF Tick
  <2>2. waited' \in [Writers -> 0 .. Timeout]
    BY <1>5, AgeAfterBound DEF Tick
  <2>3. held' \in [Writers -> 0 .. HoldLimit]
    BY <1>5 DEF Tick
  <2> QED BY <1>5, <2>1, <2>2, <2>3 DEF Tick
<1>6. ASSUME UNCHANGED lockVars PROVE LockTypeOK'
  BY <1>6 DEF lockVars
<1> QED BY <1>1, <1>2, <1>3, <1>4, <1>5, <1>6 DEF LockNext

\* The variables of the lock keep their types, whatever crashes.
THEOREM LockTypeCorrect == LockSpec => []LockTypeOK
  BY LockInitType, LockNextType, PTL DEF LockSpec

LEMMA InsideOwnsStep ==
  LockTypeOK /\ InsideOwns /\ [LockNext]_lockVars => InsideOwns'
<1> SUFFICES ASSUME LockTypeOK, InsideOwns, [LockNext]_lockVars PROVE InsideOwns'
  OBVIOUS
<1> USE LockConstants DEF LockTypeOK, InsideOwns, Inside, Goto
<1>1. ASSUME NEW w \in Writers, Enter(w) PROVE InsideOwns'
  BY <1>1 DEF Enter
<1>2. ASSUME NEW w \in Writers, Acquire(w) PROVE InsideOwns'
  <2>1. CASE Create(w)
    \* The file was not there, so before the first misfire nobody was inside.
    BY <2>1 DEF Create
  <2>2. CASE CreateFails(w)     BY <2>2 DEF CreateFails
  <2>3. CASE GiveUp(w)          BY <2>3 DEF GiveUp
  <2>4. CASE BeforeDeadline(w)  BY <2>4 DEF BeforeDeadline
  <2>5. CASE Stat(w)            BY <2>5 DEF Stat
  <2>6. CASE Reclaim(w)
    \* Taking the file of a writer that is inside is the misfire itself.
    BY <2>6 DEF Reclaim
  <2>7. CASE Wake(w)            BY <2>7 DEF Wake
  <2> QED BY <1>2, <2>1, <2>2, <2>3, <2>4, <2>5, <2>6, <2>7 DEF Acquire
<1>3. ASSUME NEW w \in Writers, Release(w) PROVE InsideOwns'
  \* Before the first misfire w was alone inside.
  BY <1>3 DEF Release
<1>4. ASSUME NEW w \in Writers, Crash(w) PROVE InsideOwns'
  BY <1>4 DEF Crash
<1>5. ASSUME Tick PROVE InsideOwns'
  BY <1>5 DEF Tick
<1>6. ASSUME UNCHANGED lockVars PROVE InsideOwns'
  BY <1>6 DEF lockVars
<1> QED BY <1>1, <1>2, <1>3, <1>4, <1>5, <1>6 DEF LockNext

\* Until a waiter misfires, every writer inside the block owns the lock file.
THEOREM InsideOwnsAlways == LockSpec => []InsideOwns
<1>1. LockInit => InsideOwns
  BY DEF LockInit, InsideOwns, Inside
<1> QED BY <1>1, LockTypeCorrect, InsideOwnsStep, PTL DEF LockSpec

\* For any writers, timeouts, stays and crashes: two writers are inside one block
\* only after a waiter has unlinked the file of a live holder.
THEOREM OverlapOnlyByMisfire == LockSpec => []OverlapNeedsMisfire
<1>1. InsideOwns => OverlapNeedsMisfire
  BY DEF InsideOwns, OverlapNeedsMisfire, MutualExclusion
<1> QED BY <1>1, InsideOwnsAlways, PTL

LEMMA FilesAreYoungStep ==
  ASSUME Orderly
  PROVE  LockTypeOK /\ InsideOwns /\ FilesAreYoung /\ [LockNext]_lockVars => FilesAreYoung'
<1> SUFFICES ASSUME LockTypeOK, InsideOwns, FilesAreYoung, [LockNext]_lockVars
             PROVE  FilesAreYoung'
  OBVIOUS
<1> USE LockConstants, StaleAgeNat, Orderly
    DEF Orderly, LockTypeOK, FilesAreYoung, Goto
<1>1. ASSUME NEW w \in Writers, Enter(w) PROVE FilesAreYoung'
  BY <1>1 DEF Enter
<1>2. ASSUME NEW w \in Writers, Acquire(w) PROVE FilesAreYoung'
  <2>1. CASE Create(w)          BY <2>1 DEF Create
  <2>2. CASE CreateFails(w)     BY <2>2 DEF CreateFails
  <2>3. CASE GiveUp(w)          BY <2>3 DEF GiveUp
  <2>4. CASE BeforeDeadline(w)  BY <2>4 DEF BeforeDeadline
  <2>5. CASE Stat(w)
    <3>1. lock # NoOwner => age < StaleAge
      \* The age is at most the stay of a live holder, and that is bounded.
      <4> SUFFICES ASSUME lock # NoOwner PROVE age < StaleAge
        OBVIOUS
      <4>1. lock \in Writers
        OBVIOUS
      <4>2. age <= held[lock] /\ held[lock] \in 0 .. HoldLimit
        BY <4>1
      <4> QED BY <4>2
    <3> QED BY <2>5, <3>1 DEF Stat
  <2>6. CASE Reclaim(w)         BY <2>6 DEF Reclaim
  <2>7. CASE Wake(w)            BY <2>7 DEF Wake
  <2> QED BY <1>2, <2>1, <2>2, <2>3, <2>4, <2>5, <2>6, <2>7 DEF Acquire
<1>3. ASSUME NEW w \in Writers, Release(w) PROVE FilesAreYoung'
  BY <1>3 DEF Release
<1>4. ASSUME NEW w \in Writers, Crash(w) PROVE FilesAreYoung'
  BY <1>4 DEF Crash
<1>5. ASSUME Tick PROVE FilesAreYoung'
  <2> SUFFICES ASSUME NEW w \in Writers, lock = w PROVE age' <= held'[w]
    BY <1>5 DEF Tick
  <2>1. pc[w] = "critical" /\ age <= held[w]
    OBVIOUS
  <2>2. held'[w] = held[w] + 1
    BY <1>5, <2>1 DEF Tick
  <2>3. age' <= age + 1
    BY <1>5 DEF Tick, AgeAfter
  <2>4. age \in Nat /\ held[w] \in Nat
    BY StaleAgeNat
  <2>5. age' \in Nat
    BY <1>5, <2>4 DEF Tick, AgeAfter
  <2> QED BY <2>1, <2>2, <2>3, <2>4, <2>5
<1>6. ASSUME UNCHANGED lockVars PROVE FilesAreYoung'
  BY <1>6 DEF lockVars
<1> QED BY <1>1, <1>2, <1>3, <1>4, <1>5, <1>6 DEF LockNext

\* Where nobody dies inside and nobody overstays, no reclaim ever takes the file
\* of a live holder.
THEOREM OrderlyNeverMisfires == ASSUME Orderly PROVE LockSpec => []FilesAreYoung
<1>1. LockInit => FilesAreYoung
  BY LockConstants DEF LockInit, FilesAreYoung
<1>2. LockTypeOK /\ InsideOwns /\ FilesAreYoung /\ [LockNext]_lockVars => FilesAreYoung'
  BY FilesAreYoungStep
<1> QED BY <1>1, <1>2, LockTypeCorrect, InsideOwnsAlways, PTL DEF LockSpec

\* Mutual exclusion of the writers of a note, for any number of them and any
\* timeout, where nobody dies inside and stays are shorter than the stale age.
THEOREM OrderlyExclusion == ASSUME Orderly PROVE LockSpec => []MutualExclusion
<1>1. FilesAreYoung /\ OverlapNeedsMisfire => MutualExclusion
  BY DEF FilesAreYoung, OverlapNeedsMisfire
<1> QED BY <1>1, OrderlyNeverMisfires, OverlapOnlyByMisfire, PTL

(***************************************************************************)
(* The tools under the lock.                                               *)
(***************************************************************************)

\* What a tool is about to write is made of the note as it still is.
FreshText ==
    misfired \/ \A w \in Writers : At(w, "write") => text[w] = Note!Apply(op[w], w, file)

\* Outside the block no tool is half done.
StartsAtRead == \A w \in Writers : pc[w] # "critical" => step[w] = "read"

\* What is apart from the file is what the last call that wrote it left undone.
Agreed ==
    /\ row = file \/ "row" \in cut
    /\ edges = {file} \/ "edges" \in cut
    /\ vec = file \/ "vec" \in cut

\* How far the tool of w has brought the row, the links and the vector.
OnItsWay(w) ==
    /\ step[w] \in {"read", "write", "leave"} => Agreed
    /\ step[w] \in {"sync", "upsert", "unlink", "link", "index"} => text[w] = file
    /\ step[w] \in {"upsert", "unlink", "link"} => synced[w] = file
    /\ step[w] \in {"unlink", "link", "index"} => row = file
    /\ step[w] = "index" => edges = {file}

IndexFollows ==
    ~ misfired => /\ Inside = {} => Agreed
                  /\ \A w \in Inside : OnItsWay(w)

\* A run of the tools is a run of the lock.
LEMMA StepIsLockStep == [Next]_vars => [LockNext]_lockVars
<1> SUFFICES ASSUME [Next]_vars PROVE [LockNext]_lockVars
  OBVIOUS
<1>1. ASSUME NEW w \in Writers, Call(w) PROVE LockNext
  BY <1>1 DEF Call, LockNext
<1>2. ASSUME NEW w \in Writers, Wait(w) PROVE LockNext
  BY <1>2 DEF Wait, LockNext
<1>3. ASSUME NEW w \in Writers, Tool(w) PROVE UNCHANGED lockVars
  BY <1>3 DEF Tool, Read, Refuse, WriteFile, SyncRead, Upsert, Unlink, Link, Index, Fail
<1>4. ASSUME NEW w \in Writers, Leave(w) PROVE LockNext
  BY <1>4 DEF Leave, LockNext
<1>5. ASSUME NEW w \in Writers, Die(w) PROVE LockNext
  BY <1>5 DEF Die, LockNext
<1>6. CASE Pass BY <1>6 DEF Pass, LockNext
<1>7. CASE UNCHANGED vars BY <1>7 DEF vars
<1> QED BY <1>1, <1>2, <1>3, <1>4, <1>5, <1>6, <1>7 DEF Next

LEMMA SpecIsLockSpec == Spec => LockSpec
<1>1. Init => LockInit
  BY DEF Init
<1> QED BY <1>1, StepIsLockStep, PTL DEF Spec, LockSpec

\* A tool makes a note of a note.
LEMMA ApplyType ==
  ASSUME NEW o \in Ops, NEW w \in Writers, NEW t \in Note!Contents
  PROVE  Note!Apply(o, w, t) \in Note!Contents
<1>1. CASE o = "write"  BY <1>1 DEF Note!Apply, Note!Contents
<1>2. CASE o = "append" BY <1>2 DEF Note!Apply, Note!Contents
<1>3. CASE o = "patch"  BY <1>3 DEF Note!Apply, Note!Contents
<1> QED BY <1>1, <1>2, <1>3 DEF Ops

LEMMA BlankType == Blank \in Note!Contents
  BY DEF Blank, Note!Contents

\* The actions that come from the lock, as far as the tools' own variables go.
LEMMA OuterStep ==
  ASSUME Next, ~ \E w \in Writers : Tool(w)
  PROVE  /\ UNCHANGED <<file, row, edges, vec, faults>>
         /\ \/ \E w \in Writers, o \in Tools :
                  op' = [op EXCEPT ![w] = o] /\ UNCHANGED <<step, text, synced>>
            \/ \E w \in Writers : Forget(w)
            \/ UNCHANGED locals
         /\ \/ cut' = cut
            \/ \E w \in Writers : Die(w) /\ cut' = CutAfter(step[w])
<1>1. ASSUME NEW w \in Writers, Call(w)
      PROVE  /\ UNCHANGED <<file, index, faults, step, text, synced>>
             /\ \E o \in Tools : op' = [op EXCEPT ![w] = o]
  BY <1>1 DEF Call
<1>2. ASSUME NEW w \in Writers, Wait(w)
      PROVE  UNCHANGED <<file, index, faults>> /\ (Forget(w) \/ UNCHANGED locals)
  BY <1>2 DEF Wait
<1>3. ASSUME NEW w \in Writers, Leave(w)
      PROVE  UNCHANGED <<file, index, faults>> /\ Forget(w)
  BY <1>3 DEF Leave
<1>4. ASSUME NEW w \in Writers, Die(w)
      PROVE  UNCHANGED <<file, row, edges, vec, faults>> /\ Forget(w) /\ cut' = CutAfter(step[w])
  BY <1>4 DEF Die
<1>5. ASSUME Pass PROVE UNCHANGED <<file, index, faults, locals>>
  BY <1>5 DEF Pass, editVars
<1> QED BY <1>1, <1>2, <1>3, <1>4, <1>5 DEF Next, locals, index

LEMMA CutAfterType ==
  ASSUME TypeOK, NEW w \in Writers
  PROVE  CutAfter(step[w]) \in SUBSET Parts
  BY DEF CutAfter, TypeOK, Parts

LEMMA NextType == TypeOK /\ [Next]_vars => TypeOK'
<1> SUFFICES ASSUME TypeOK, [Next]_vars PROVE TypeOK'
  OBVIOUS
<1>1. LockTypeOK'
  BY StepIsLockStep, LockNextType DEF TypeOK
<1>0. \A w \in Writers : CutAfter(step[w]) \in SUBSET Parts
  BY CutAfterType
<1> USE DEF TypeOK, StepTo, Steps, index
<1>2. ASSUME NEW w \in Writers, Tool(w) PROVE TypeOK'
  <2> USE <1>1
  <2>1. CASE Read(w)
    <3>1. Note!Apply(op[w], w, file) \in Note!Contents
      BY ApplyType
    <3> QED BY <2>1, <3>1 DEF Read
  <2>2. CASE Refuse(w)    BY <2>2 DEF Refuse
  <2>3. CASE WriteFile(w) BY <2>3 DEF WriteFile
  <2>4. CASE SyncRead(w)  BY <2>4 DEF SyncRead
  <2>5. CASE Upsert(w)    BY <2>5 DEF Upsert
  <2>6. CASE Unlink(w)    BY <2>6 DEF Unlink
  <2>7. CASE Link(w)      BY <2>7 DEF Link
  <2>8. CASE Index(w)     BY <2>8 DEF Index
  <2>9. CASE Fail(w)      BY <1>0, <2>9, EditConstants DEF Fail
  <2> QED BY <1>2, <2>1, <2>2, <2>3, <2>4, <2>5, <2>6, <2>7, <2>8, <2>9 DEF Tool
<1>3. ASSUME Next, ~ \E w \in Writers : Tool(w) PROVE TypeOK'
  <2>1. UNCHANGED <<file, row, edges, vec, faults>> /\ cut' \in SUBSET Parts
    BY <1>0, <1>3, OuterStep
  <2>2. ASSUME NEW w \in Writers, NEW o \in Tools,
               op' = [op EXCEPT ![w] = o], UNCHANGED <<step, text, synced>>
        PROVE  TypeOK'
    BY <1>1, <2>1, <2>2, EditConstants
  <2>3. ASSUME NEW w \in Writers, Forget(w) PROVE TypeOK'
    BY <1>1, <2>1, <2>3, BlankType DEF Forget, Ops
  <2>4. CASE UNCHANGED locals
    BY <1>1, <2>1, <2>4 DEF locals
  <2> QED BY <1>3, <2>2, <2>3, <2>4, OuterStep
<1>4. CASE UNCHANGED vars
  BY <1>1, <1>4 DEF vars, editVars, locals
<1> QED BY <1>2, <1>3, <1>4

\* The file, the row, the vector and the tools' locals keep their types.
THEOREM TypeCorrect == Spec => []TypeOK
<1>1. Init => TypeOK
  <2>1. 0 \in 0 .. MaxFaults
    BY EditConstants
  <2> QED BY <2>1, LockInitType, BlankType DEF Init, TypeOK, Ops, Steps, Parts
<1> QED BY <1>1, NextType, PTL DEF Spec

----------------------------------------------------------------------------
(* The edits.                                                              *)

\* A writer that is inside after a step of the lock, of the clock or of another
\* writer has its locals untouched, and has just come in or was inside before.
LEMMA OuterEntry ==
  ASSUME TypeOK, Next, ~ \E v \in Writers : Tool(v),
         NEW w \in Writers, pc'[w] = "critical"
  PROVE  /\ step'[w] = step[w] /\ op'[w] = op[w]
         /\ text'[w] = text[w] /\ synced'[w] = synced[w]
         /\ pc[w] = "critical" \/ Create(w)
<1> USE DEF TypeOK, LockTypeOK, Goto
<1>1. CASE \E v \in Writers : Call(v)
  BY <1>1 DEF Call, Enter
<1>2. CASE \E v \in Writers : Wait(v)
  <2> PICK v \in Writers : Wait(v)
    BY <1>2
  <2>1. v # w => pc'[w] = pc[w]
    BY DEF Wait, Acquire, Create, CreateFails, GiveUp, BeforeDeadline, Stat, Reclaim, Wake
  <2>2. v = w => Create(w) /\ UNCHANGED locals
    BY DEF Wait, Acquire, Create, CreateFails, GiveUp, BeforeDeadline, Stat, Reclaim, Wake
  <2> QED BY <2>1, <2>2 DEF Wait, Forget, StepTo, locals
<1>3. CASE \E v \in Writers : Leave(v) \/ Die(v)
  BY <1>3 DEF Leave, Die, Release, Crash, Forget, StepTo
<1>4. CASE Pass
  BY <1>4 DEF Pass, Tick, editVars, locals
<1> QED BY <1>1, <1>2, <1>3, <1>4 DEF Next

LEMMA StartsAtReadStep == TypeOK /\ StartsAtRead /\ [Next]_vars => StartsAtRead'
<1> SUFFICES ASSUME TypeOK, StartsAtRead, [Next]_vars PROVE StartsAtRead'
  OBVIOUS
<1> USE DEF TypeOK, LockTypeOK, StartsAtRead, Goto
<1>1. ASSUME NEW w \in Writers, Call(w) PROVE StartsAtRead'
  BY <1>1 DEF Call, Enter
<1>2. ASSUME NEW w \in Writers, Wait(w) PROVE StartsAtRead'
  <2>1. step[w] = "read" /\ \A v \in Writers \ {w} : pc'[v] = pc[v]
    BY <1>2 DEF Wait, Acquire, Create, CreateFails, GiveUp, BeforeDeadline, Stat, Reclaim, Wake
  <2>2. \A v \in Writers : step'[v] = step[v]
    BY <1>2, <2>1 DEF Wait, Forget, StepTo, locals
  <2> QED BY <2>1, <2>2
<1>3. ASSUME NEW w \in Writers, Tool(w) PROVE StartsAtRead'
  BY <1>3 DEF Tool, Read, Refuse, WriteFile, SyncRead, Upsert, Unlink, Link, Index, Fail, At, StepTo, lockVars
<1>4. ASSUME NEW w \in Writers, Leave(w) \/ Die(w) PROVE StartsAtRead'
  BY <1>4 DEF Leave, Die, Release, Crash, Forget, StepTo
<1>5. CASE Pass
  BY <1>5 DEF Pass, Tick, editVars, locals
<1>6. CASE UNCHANGED vars
  BY <1>6 DEF vars, lockVars, editVars, locals
<1> QED BY <1>1, <1>2, <1>3, <1>4, <1>5, <1>6 DEF Next

LEMMA MisfireIsForGood == TypeOK /\ [Next]_vars => (misfired => misfired')
<1>1. LockTypeOK /\ [LockNext]_lockVars => (misfired => misfired')
  BY DEF LockNext, lockVars, Enter, Acquire, Create, CreateFails, GiveUp, BeforeDeadline,
         Stat, Reclaim, Wake, Release, Crash, Tick
<1> QED BY <1>1, StepIsLockStep DEF TypeOK

LEMMA FreshTextStep ==
  TypeOK /\ InsideOwns /\ StartsAtRead /\ FreshText /\ [Next]_vars => FreshText'
<1> SUFFICES ASSUME TypeOK, InsideOwns, StartsAtRead, FreshText, [Next]_vars, ~ misfired',
                    NEW w \in Writers, At(w, "write")'
             PROVE  text'[w] = Note!Apply(op'[w], w, file')
  BY DEF FreshText, At
<1>1. ~ misfired
  BY MisfireIsForGood
<1>2. At(w, "write") => text[w] = Note!Apply(op[w], w, file)
  BY <1>1 DEF FreshText
<1>3. CASE \E v \in Writers : Tool(v)
  <2> PICK v \in Writers : Tool(v)
    BY <1>3
  <2> USE DEF TypeOK, LockTypeOK, At, StepTo, lockVars
  <2>1. CASE Read(v)      BY <1>2, <2>1 DEF Read
  <2>2. CASE Refuse(v)    BY <1>2, <2>2 DEF Refuse
  <2>3. CASE WriteFile(v)
    \* v and w would both own the lock file.
    <3>1. v # w /\ v \in Inside /\ w \in Inside
      BY <2>3 DEF WriteFile, Inside
    <3> QED BY <1>1, <3>1 DEF InsideOwns
  <2>4. CASE SyncRead(v)  BY <1>2, <2>4 DEF SyncRead
  <2>5. CASE Upsert(v)    BY <1>2, <2>5 DEF Upsert
  <2>6. CASE Unlink(v)    BY <1>2, <2>6 DEF Unlink
  <2>7. CASE Link(v)      BY <1>2, <2>7 DEF Link
  <2>8. CASE Index(v)     BY <1>2, <2>8 DEF Index
  <2>9. CASE Fail(v)      BY <1>2, <2>9 DEF Fail
  <2> QED BY <2>1, <2>2, <2>3, <2>4, <2>5, <2>6, <2>7, <2>8, <2>9 DEF Tool
<1>4. CASE Next /\ ~ \E v \in Writers : Tool(v)
  <2>1. pc'[w] = "critical" /\ step'[w] = "write"
    BY DEF At
  <2>2. /\ step[w] = "write" /\ op'[w] = op[w] /\ text'[w] = text[w]
        /\ pc[w] = "critical" \/ Create(w)
    BY <1>4, <2>1, OuterEntry
  <2>3. pc[w] = "critical"
    BY <2>2 DEF Create, StartsAtRead
  <2>4. file' = file
    BY <1>4, OuterStep
  <2> QED BY <1>2, <2>2, <2>3, <2>4 DEF At
<1>5. CASE UNCHANGED vars
  BY <1>2, <1>5 DEF vars, lockVars, editVars, locals, At
<1> QED BY <1>3, <1>4, <1>5

\* The inductive invariant of the edits.
EditInv == TypeOK /\ InsideOwns /\ StartsAtRead /\ FreshText

THEOREM EditInvariant == Spec => []EditInv
<1>1. Init => StartsAtRead /\ FreshText
  BY DEF Init, LockInit, StartsAtRead, FreshText, At
<1>2. EditInv /\ [Next]_vars => StartsAtRead' /\ FreshText'
  BY StartsAtReadStep, FreshTextStep DEF EditInv
<1> QED BY <1>1, <1>2, TypeCorrect, SpecIsLockSpec, InsideOwnsAlways, PTL DEF Spec, EditInv

LEMMA FileStep ==
  EditInv /\ [Next]_vars =>
    [misfired \/ \E w \in Writers, o \in Ops : Note!Edit(w, o)]_file
<1> SUFFICES ASSUME EditInv, [Next]_vars, file' # file, ~ misfired
             PROVE  \E w \in Writers, o \in Ops : Note!Edit(w, o)
  OBVIOUS
<1>1. \E v \in Writers : Tool(v)
  <2>1. ~ UNCHANGED vars
    BY DEF vars, editVars
  <2> QED BY <2>1, OuterStep
<1>2. PICK w \in Writers : WriteFile(w)
  BY <1>1 DEF Tool, Read, Refuse, SyncRead, Upsert, Unlink, Link, Index, Fail, index
<1>3. file' = Note!Apply(op[w], w, file)
  BY <1>2 DEF WriteFile, EditInv, FreshText
<1>4. op[w] \in Ops
  BY DEF EditInv, TypeOK
<1> QED BY <1>3, <1>4 DEF Note!Edit

\* Whatever dies, fails or overstays: until a waiter unlinks a live holder's lock
\* file, every change of the note is one tool applied to the note as it was.
THEOREM EditsAreAtomic == Spec => LinearizableUntilMisfire
  BY EditInvariant, FileStep, PTL DEF Spec, LinearizableUntilMisfire

\* In orderly runs (nobody dies inside, nobody overstays the stale age) the tools
\* implement the atomic note.
THEOREM ToolsImplementAtomicNote == ASSUME Orderly PROVE Spec => Linearizable
<1>1. Init => Note!Init
  BY BlankType DEF Init, Note!Init
<1>2. EditInv /\ FilesAreYoung /\ [Next]_vars => [Note!Next]_file
  BY FileStep DEF FilesAreYoung, Note!Next, Ops, Note!Ops
<1>3. Spec => []FilesAreYoung
  BY SpecIsLockSpec, OrderlyNeverMisfires
<1> QED BY <1>1, <1>2, <1>3, EditInvariant, PTL DEF Spec, Linearizable, Note!Spec

----------------------------------------------------------------------------
(* The index.                                                              *)

\* A call that is cut short at a step leaves behind what it had not come to, and
\* nothing else.
LEMMA CutShortAgrees ==
  ASSUME TypeOK, NEW w \in Writers, OnItsWay(w), UNCHANGED <<file, row, edges, vec>>,
         cut' = CutAfter(step[w])
  PROVE  Agreed'
<1>1. CASE step[w] \in {"read", "write", "leave"}
  BY <1>1 DEF CutAfter, OnItsWay, Agreed
<1>2. CASE step[w] \in {"sync", "upsert"}
  BY <1>2 DEF CutAfter, OnItsWay, Agreed, Parts
<1>3. CASE step[w] \in {"unlink", "link"}
  BY <1>3 DEF CutAfter, OnItsWay, Agreed
<1>4. CASE step[w] = "index"
  BY <1>4 DEF CutAfter, OnItsWay, Agreed
<1> QED BY <1>1, <1>2, <1>3, <1>4 DEF TypeOK, Steps

LEMMA IndexFollowsStep ==
  EditInv /\ IndexFollows /\ [Next]_vars => IndexFollows'
<1> SUFFICES ASSUME EditInv, IndexFollows, [Next]_vars, ~ misfired'
             PROVE  (Inside = {} => Agreed)' /\ \A w \in Inside' : OnItsWay(w)'
  BY DEF IndexFollows
<1>1. /\ ~ misfired
      /\ Inside = {} => Agreed
      /\ \A w \in Inside : lock = w /\ OnItsWay(w)
  BY MisfireIsForGood DEF EditInv, IndexFollows, InsideOwns
<1>2. CASE \E v \in Writers : Tool(v)
  <2> PICK v \in Writers : Tool(v)
    BY <1>2
  <2>1. v \in Inside /\ Inside' = Inside /\ \A w \in Inside : w = v
    BY <1>1 DEF Tool, Read, Refuse, WriteFile, SyncRead, Upsert, Unlink, Link, Index, Fail,
       At, Inside, lockVars
  <2>2. OnItsWay(v)
    BY <1>1, <2>1
  <2> SUFFICES OnItsWay(v)'
    BY <2>1
  <2> USE <2>2 DEF EditInv, TypeOK, At, StepTo, OnItsWay, Agreed, index
  <2>3. CASE Read(v)      BY <2>3 DEF Read
  <2>4. CASE Refuse(v)    BY <2>4 DEF Refuse
  <2>5. CASE WriteFile(v) BY <2>5 DEF WriteFile
  <2>6. CASE SyncRead(v)  BY <2>6 DEF SyncRead
  <2>7. CASE Upsert(v)    BY <2>7 DEF Upsert
  <2>8. CASE Unlink(v)    BY <2>8 DEF Unlink
  <2>9. CASE Link(v)      BY <2>9 DEF Link
  <2>10. CASE Index(v)    BY <2>10 DEF Index
  <2>11. CASE Fail(v)
    <3>1. Agreed'
      BY <2>11, <2>1, CutShortAgrees DEF Fail, EditInv
    <3>2. step'[v] = "leave"
      BY <2>11 DEF Fail
    <3> QED BY <3>1, <3>2
  <2> QED BY <2>3, <2>4, <2>5, <2>6, <2>7, <2>8, <2>9, <2>10, <2>11 DEF Tool
<1>3. CASE Next /\ ~ \E v \in Writers : Tool(v)
  <2>1. UNCHANGED <<file, row, edges, vec>>
    BY <1>3, OuterStep
  <2>2. Inside = {} => cut' = cut
    \* Whoever dies outside had not begun with the note.
    <3> SUFFICES ASSUME Inside = {}, NEW w \in Writers, cut' = CutAfter(step[w])
                 PROVE  cut' = cut
      BY <1>3, OuterStep
    <3>1. step[w] = "read"
      BY DEF Inside, EditInv, StartsAtRead
    <3> QED BY <3>1 DEF CutAfter
  <2>3. ASSUME NEW w \in Inside' PROVE OnItsWay(w)'
    <3>1. /\ w \in Writers /\ pc'[w] = "critical"
          /\ step'[w] = step[w] /\ text'[w] = text[w] /\ synced'[w] = synced[w]
          /\ pc[w] = "critical" \/ Create(w)
      BY <1>3, OuterEntry DEF Inside, EditInv
    <3>2. CASE pc[w] = "critical"
      <4>1. \A v \in Writers : v # w => step[v] = "read"
        BY <1>1, <3>1, <3>2 DEF Inside, EditInv, StartsAtRead
      <4>2. ~ Die(w)
        BY <3>1 DEF Die, Crash, Goto, EditInv, TypeOK, LockTypeOK
      <4>3. cut' = cut
        BY <1>3, <4>1, <4>2, OuterStep DEF CutAfter
      <4> QED BY <1>1, <2>1, <3>1, <3>2, <4>3 DEF Inside, OnItsWay, Agreed
    <3>3. CASE Create(w)
      \* Nobody was inside, or the lock file would have been there.
      <4>1. Inside = {}
        BY <1>1, <3>3, LockConstants DEF Create, Inside
      <4>2. step[w] = "read"
        BY <3>1, <3>3 DEF Create, EditInv, StartsAtRead
      <4> QED BY <1>1, <2>1, <2>2, <3>1, <4>1, <4>2 DEF OnItsWay, Agreed
    <3> QED BY <3>1, <3>2, <3>3
  <2>4. ASSUME Inside' = {} PROVE Agreed'
    <3>1. CASE Inside = {}
      BY <1>1, <2>1, <2>2, <3>1 DEF Agreed
    <3>2. ASSUME NEW w \in Inside PROVE Agreed'
      <4>1. w \in Writers /\ pc[w] = "critical" /\ pc'[w] # "critical"
        BY <2>4, <3>2 DEF Inside
      <4>2. Leave(w) \/ Die(w)
        BY <1>3, <4>1 DEF Next, Call, Enter, Wait, Acquire, Create, CreateFails, GiveUp,
           BeforeDeadline, Stat, Reclaim, Wake, Leave, Release, Die, Crash, Pass, Tick, Goto,
           EditInv, TypeOK, LockTypeOK
      <4>3. CASE Leave(w)
        BY <1>1, <2>1, <3>2, <4>3 DEF Leave, OnItsWay, Agreed, index
      <4>4. CASE Die(w)
        BY <1>1, <3>2, <4>1, <4>4, CutShortAgrees DEF Die, EditInv
      <4> QED BY <4>2, <4>3, <4>4
    <3> QED BY <3>1, <3>2
  <2> QED BY <2>3, <2>4
<1>4. CASE UNCHANGED vars
  BY <1>1, <1>4 DEF vars, lockVars, editVars, index, locals, Inside, OnItsWay, Agreed
<1> QED BY <1>2, <1>3, <1>4

\* Between two tools the row, the links and the vector are those of the file, but
\* for what the last call that wrote it was kept from: whichever step fails, whoever
\* dies and however often, until a waiter unlinks a live holder's lock file.
THEOREM IndexAgreesAlways == Spec => []IndexAgrees
<1>1. Init => IndexFollows
  BY DEF Init, LockInit, IndexFollows, Agreed, Inside
<1>2. IndexFollows => IndexAgrees
  BY DEF IndexFollows, IndexAgrees, Agreed
<1> QED BY <1>1, <1>2, IndexFollowsStep, EditInvariant, PTL DEF Spec
=============================================================================
