---------------------------- MODULE NoteWriteLock ----------------------------
(***************************************************************************)
(* The per-note file lock of src/symbiosis_brain/write_lock.py:            *)
(* note_write_lock.  A lock is a file created with O_EXCL; a waiter polls, *)
(* gives up after timeout_s, and removes a file that is 2 * timeout_s old. *)
(*                                                                         *)
(* One lock (one note of one vault) and the writers that want it: threads  *)
(* and processes alike, since the code keeps nothing but the file.  Time   *)
(* is kept as differences, each capped where the code stops telling values *)
(* apart, so no clock bound is needed: `age` is now - mtime of the file,   *)
(* `waited[w]` is now - (deadline - timeout_s), `held[w]` the time spent   *)
(* inside the with block; each is 0 where it has no meaning.               *)
(***************************************************************************)
EXTENDS Naturals

CONSTANTS
    Writers,      \* the callers of note_write_lock for this note
    Timeout,      \* timeout_s, in ticks
    HoldLimit,    \* the longest a live writer stays inside the with block
    MaxCrashes,   \* how many writers may die (kill, os._exit) in a behaviour
    NoOwner       \* the lock file does not exist

ASSUME LockConstants ==
    /\ Timeout \in Nat \ {0}
    /\ HoldLimit \in Nat
    /\ MaxCrashes \in Nat
    /\ NoOwner \notin Writers

StaleAge == 2 * Timeout

VARIABLES
    lock,         \* who created the lock file that is there, or NoOwner
    age,          \* now - mtime of that file, capped at StaleAge
    pc,           \* where each writer is in note_write_lock
    waited,       \* since note_write_lock was called, capped at Timeout
    held,         \* since the lock was acquired
    crashes,
    misfired      \* history: a waiter has removed the file of a live holder

lockVars == <<lock, age, pc, waited, held, crashes, misfired>>

Waiting == {"create", "exists", "stat", "reclaim", "sleep"}
PCs == Waiting \cup {"idle", "critical"}

LockTypeOK ==
    /\ lock \in Writers \cup {NoOwner}
    /\ age \in 0 .. StaleAge
    /\ pc \in [Writers -> PCs]
    /\ waited \in [Writers -> 0 .. Timeout]
    /\ held \in [Writers -> 0 .. HoldLimit]
    /\ crashes \in 0 .. MaxCrashes
    /\ misfired \in BOOLEAN

LockInit ==
    /\ lock = NoOwner
    /\ age = 0
    /\ pc = [w \in Writers |-> "idle"]
    /\ waited = [w \in Writers |-> 0]
    /\ held = [w \in Writers |-> 0]
    /\ crashes = 0
    /\ misfired = FALSE

Goto(w, label) == pc' = [pc EXCEPT ![w] = label]

\* note_write_lock(...) is entered: deadline = time.time() + timeout_s.
Enter(w) ==
    /\ pc[w] = "idle"
    /\ Goto(w, "create")
    /\ UNCHANGED <<lock, age, waited, held, crashes, misfired>>

\* os.open(O_CREAT | O_EXCL) succeeds: the with block starts.
Create(w) ==
    /\ pc[w] = "create"
    /\ lock = NoOwner
    /\ lock' = w
    /\ age' = 0
    /\ held' = [held EXCEPT ![w] = 0]
    /\ waited' = [waited EXCEPT ![w] = 0]
    /\ Goto(w, "critical")
    /\ UNCHANGED <<crashes, misfired>>

\* os.open raises FileExistsError.
CreateFails(w) ==
    /\ pc[w] = "create"
    /\ lock # NoOwner
    /\ Goto(w, "exists")
    /\ UNCHANGED <<lock, age, waited, held, crashes, misfired>>

\* As if the TimeoutError left through the finally clause.
GiveUpUnlinks(w) ==
    /\ pc[w] = "exists"
    /\ waited[w] >= Timeout
    /\ lock' = NoOwner
    /\ age' = 0
    /\ Goto(w, "idle")
    /\ waited' = [waited EXCEPT ![w] = 0]
    /\ UNCHANGED <<held, crashes, misfired>>

\* The deadline is looked at first, whatever the age of the file: TimeoutError.
GiveUp(w) ==
    /\ pc[w] = "exists"
    /\ waited[w] >= Timeout
    /\ Goto(w, "idle")
    /\ waited' = [waited EXCEPT ![w] = 0]
    /\ UNCHANGED <<lock, age, held, crashes, misfired>>

BeforeDeadline(w) ==
    /\ pc[w] = "exists"
    /\ waited[w] < Timeout
    /\ Goto(w, "stat")
    /\ UNCHANGED <<lock, age, waited, held, crashes, misfired>>

\* lockfile.stat(): the file is gone, or old enough to be reclaimed, or live.
Stat(w) ==
    /\ pc[w] = "stat"
    /\ Goto(w, IF lock = NoOwner THEN "create"
               ELSE IF age >= StaleAge THEN "reclaim" ELSE "sleep")
    /\ UNCHANGED <<lock, age, waited, held, crashes, misfired>>

\* lockfile.unlink(): whatever file is there by now, not the one that was
\* judged stale (the age is not looked at again).
Reclaim(w) ==
    /\ pc[w] = "reclaim"
    /\ lock' = NoOwner
    /\ misfired' = (misfired \/ lock \in {v \in Writers : pc[v] = "critical"})
    /\ age' = 0
    /\ Goto(w, "create")
    /\ UNCHANGED <<waited, held, crashes>>

\* As if every poll computed the deadline anew.
WakeRenewed(w) ==
    /\ pc[w] = "sleep"
    /\ Goto(w, "create")
    /\ waited' = [waited EXCEPT ![w] = 0]
    /\ UNCHANGED <<lock, age, held, crashes, misfired>>

\* time.sleep(poll_s) ends.
Wake(w) ==
    /\ pc[w] = "sleep"
    /\ Goto(w, "create")
    /\ UNCHANGED <<lock, age, waited, held, crashes, misfired>>

\* The finally clause: unlink whatever lock file is there, ignore its absence.
Release(w) ==
    /\ pc[w] = "critical"
    /\ lock' = NoOwner
    /\ age' = 0
    /\ held' = [held EXCEPT ![w] = 0]
    /\ Goto(w, "idle")
    /\ UNCHANGED <<waited, crashes, misfired>>

\* The process dies without running its finally clauses; the host starts a new
\* one in its place.  The lock file stays.
Crash(w) ==
    /\ pc[w] # "idle"
    /\ crashes < MaxCrashes
    /\ crashes' = crashes + 1
    /\ waited' = [waited EXCEPT ![w] = 0]
    /\ held' = [held EXCEPT ![w] = 0]
    /\ Goto(w, "idle")
    /\ UNCHANGED <<lock, age, misfired>>

\* A stretch of time, followed no further than the code compares it.
AgeAfter(a, limit) == IF a < limit THEN a + 1 ELSE limit

\* One tick.  HoldLimit is the assumption about the guarded code: a writer that
\* is alive has left the block before it has been in it for more.
Tick ==
    /\ \A w \in Writers : pc[w] = "critical" => held[w] < HoldLimit
    /\ age' = IF lock = NoOwner THEN age ELSE AgeAfter(age, StaleAge)
    /\ waited' = [w \in Writers |-> IF pc[w] \in Waiting
                                    THEN AgeAfter(waited[w], Timeout)
                                    ELSE waited[w]]
    /\ held' = [w \in Writers |-> IF pc[w] = "critical" THEN held[w] + 1
                                  ELSE held[w]]
    /\ UNCHANGED <<lock, pc, crashes, misfired>>

\* The steps of note_write_lock up to the with block.
Acquire(w) ==
    \/ Create(w) \/ CreateFails(w) \/ GiveUp(w) \/ BeforeDeadline(w)
    \/ Stat(w) \/ Reclaim(w) \/ Wake(w)

LockNext ==
    \/ \E w \in Writers : Enter(w) \/ Acquire(w) \/ Release(w) \/ Crash(w)
    \/ Tick

LockSpec == LockInit /\ [][LockNext]_lockVars

----------------------------------------------------------------------------
(* What the lock is for.                                                   *)

Inside == {w \in Writers : pc[w] = "critical"}

\* Two writers are never inside the with block of one note at the same time
\* ("serializes concurrent writes to the same note across processes").
MutualExclusion == \A v, w \in Inside : v = w

\* Whatever dies and however long a holder stays, two writers are inside only
\* after a waiter has removed the lock file of a writer that was still inside:
\* an orphaned file that is reclaimed correctly never lets two writers in.
OverlapNeedsMisfire == misfired \/ MutualExclusion

\* Nobody polls for ever: a call of note_write_lock ends in the block or with
\* TimeoutError (or its writer dies), though others keep taking the lock and
\* dead writers leave their files behind.
WaitEnds == \A w \in Writers : pc[w] \in Waiting ~> pc[w] \notin Waiting
=============================================================================
