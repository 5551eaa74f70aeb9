------------------------------- MODULE NoteEdit -------------------------------
(***************************************************************************)
(* The write tools of src/symbiosis_brain/server.py on one note that       *)
(* exists: brain_write, brain_append and brain_patch read the file, change *)
(* the text, replace the file, refresh the row of the index (sync_one) and *)
(* the vector (index_note), all inside note_write_lock.  The writers are   *)
(* the server processes: one per open session on the same vault.           *)
(*                                                                         *)
(* The row, the links and the vector are the text they were made from.     *)
(* Each has a commit of its own, and any step may fail.  Deleting and      *)
(* renaming the note, and syncs that do not take its lock, are elsewhere.  *)
(***************************************************************************)
EXTENDS NoteWriteLock

CONSTANTS
    Tools,        \* the tools that are called, of Ops
    MaxFaults     \* how many steps may fail (OSError, SQLite, the model)

Ops == {"write", "append", "patch"}

ASSUME EditConstants == Tools \subseteq Ops /\ MaxFaults \in Nat

VARIABLES
    file,     \* the text of the note on disk
    row,      \* the text the notes row was made from
    edges,    \* the text its relations were made from, in a set; {} without them
    vec,      \* the text the vector was made from
    cut,      \* history: what the last call that had written the file left undone
    op,       \* the tool each writer runs
    step,     \* where in the tool it is, inside the block
    text,     \* new_text, what the tool made of the note it read
    synced,   \* what sync_one read
    faults

locals == <<op, step, text, synced>>
index == <<row, edges, vec, cut>>
editVars == <<file, index, locals, faults>>
vars == <<lockVars, editVars>>

Steps == {"read", "write", "sync", "upsert", "unlink", "link", "index", "leave"}
Parts == {"row", "edges", "vec"}

Note == INSTANCE AtomicNote WITH note <- file

TypeOK ==
    /\ LockTypeOK
    /\ file \in Note!Contents
    /\ row \in Note!Contents
    /\ edges \in SUBSET Note!Contents
    /\ vec \in Note!Contents
    /\ cut \in SUBSET Parts
    /\ op \in [Writers -> Ops]
    /\ step \in [Writers -> Steps]
    /\ text \in [Writers -> Note!Contents]
    /\ synced \in [Writers -> Note!Contents]
    /\ faults \in 0 .. MaxFaults

Blank == [by |-> NoOwner, front |-> {}, body |-> {}]

\* The note is there and indexed; nobody is at it.
Init ==
    /\ LockInit
    /\ file = Blank /\ row = Blank /\ edges = {Blank} /\ vec = Blank
    /\ cut = {}
    /\ op = [w \in Writers |-> "append"]
    /\ step = [w \in Writers |-> "read"]
    /\ text = [w \in Writers |-> Blank]
    /\ synced = [w \in Writers |-> Blank]
    /\ faults = 0

StepTo(w, s) == step' = [step EXCEPT ![w] = s]

\* The locals of a call do not outlive it.
Forget(w) ==
    /\ op' = [op EXCEPT ![w] = "append"]
    /\ StepTo(w, "read")
    /\ text' = [text EXCEPT ![w] = Blank]
    /\ synced' = [synced EXCEPT ![w] = Blank]

At(w, s) == pc[w] = "critical" /\ step[w] = s

\* As if the tool read the note before its with statement.
CallHavingRead(w) ==
    /\ Enter(w)
    /\ \E o \in Tools : /\ op' = [op EXCEPT ![w] = o]
                        /\ text' = [text EXCEPT ![w] = Note!Apply(o, w, file)]
    /\ StepTo(w, "write")
    /\ UNCHANGED <<file, index, synced, faults>>

\* A tool is called and comes to its with statement.
Call(w) ==
    /\ Enter(w)
    /\ \E o \in Tools : op' = [op EXCEPT ![w] = o]
    /\ UNCHANGED <<file, index, step, text, synced, faults>>

\* The lock steps; a TimeoutError ends the call.
Wait(w) ==
    /\ Acquire(w)
    /\ IF pc'[w] = "idle" THEN Forget(w) ELSE UNCHANGED locals
    /\ UNCHANGED <<file, index, faults>>

\* The tool reads the note and makes the new text of it.
Read(w) ==
    /\ At(w, "read")
    /\ text' = [text EXCEPT ![w] = Note!Apply(op[w], w, file)]
    /\ StepTo(w, "write")
    /\ UNCHANGED <<lockVars, file, index, op, synced, faults>>

\* The section or the anchor is not in the note, or a new link is not valid: an
\* error text is the answer.
Refuse(w) ==
    /\ At(w, "read")
    /\ op[w] # "write"
    /\ StepTo(w, "leave")
    /\ UNCHANGED <<lockVars, file, index, op, text, synced, faults>>

\* atomic_write_text: the whole new text, or nothing.
WriteFile(w) ==
    /\ At(w, "write")
    /\ file' = text[w]
    /\ StepTo(w, "sync")
    /\ UNCHANGED <<lockVars, index, op, text, synced, faults>>

\* sync_one is not given the text: it reads the file again.
SyncRead(w) ==
    /\ At(w, "sync")
    /\ synced' = [synced EXCEPT ![w] = file]
    /\ StepTo(w, "upsert")
    /\ UNCHANGED <<lockVars, file, index, op, text, faults>>

\* As if sync_one, like sync_all, took a row with the hash of the file for done.
UpsertIfChanged(w) ==
    /\ At(w, "upsert")
    /\ row' = synced[w]
    /\ StepTo(w, IF row = synced[w] THEN "index" ELSE "unlink")
    /\ UNCHANGED <<lockVars, file, edges, vec, cut, op, text, synced, faults>>

\* upsert_note, with the hash of what was read.
Upsert(w) ==
    /\ At(w, "upsert")
    /\ row' = synced[w]
    /\ StepTo(w, "unlink")
    /\ UNCHANGED <<lockVars, file, edges, vec, cut, op, text, synced, faults>>

\* _sync_wikilinks: the note's relations go, committed by themselves ...
Unlink(w) ==
    /\ At(w, "unlink")
    /\ edges' = {}
    /\ StepTo(w, "link")
    /\ UNCHANGED <<lockVars, file, row, vec, cut, op, text, synced, faults>>

\* ... and come anew, one by one.
Link(w) ==
    /\ At(w, "link")
    /\ edges' = {synced[w]}
    /\ StepTo(w, "index")
    /\ UNCHANGED <<lockVars, file, row, vec, cut, op, text, synced, faults>>

\* index_note, of the text the tool made, in one transaction.
Index(w) ==
    /\ At(w, "index")
    /\ vec' = text[w]
    /\ cut' = {}
    /\ StepTo(w, "leave")
    /\ UNCHANGED <<lockVars, file, row, edges, op, text, synced, faults>>

\* What a call that ends at a step, short of its last one, has not done; before
\* the file is written it has nothing to do.
CutAfter(s) ==
    CASE s \in {"sync", "upsert"} -> Parts
      [] s \in {"unlink", "link"} -> {"edges", "vec"}
      [] s = "index"              -> {"vec"}
      [] OTHER                    -> cut

\* An exception leaves the tool from any of its steps; nothing that was done
\* before is undone.
Fail(w) ==
    /\ pc[w] = "critical"
    /\ step[w] # "leave"
    /\ faults < MaxFaults
    /\ faults' = faults + 1
    /\ cut' = CutAfter(step[w])
    /\ StepTo(w, "leave")
    /\ UNCHANGED <<lockVars, file, row, edges, vec, op, text, synced>>

Leave(w) ==
    /\ step[w] = "leave"
    /\ Release(w)
    /\ Forget(w)
    /\ UNCHANGED <<file, index, faults>>

Die(w) ==
    /\ Crash(w)
    /\ cut' = CutAfter(step[w])
    /\ Forget(w)
    /\ UNCHANGED <<file, row, edges, vec, faults>>

Pass == Tick /\ UNCHANGED editVars

Tool(w) ==
    \/ Read(w) \/ Refuse(w) \/ WriteFile(w) \/ SyncRead(w) \/ Upsert(w)
    \/ Unlink(w) \/ Link(w) \/ Index(w) \/ Fail(w)

Next ==
    \/ \E w \in Writers : Call(w) \/ Wait(w) \/ Tool(w) \/ Leave(w) \/ Die(w)
    \/ Pass

Spec == Init /\ [][Next]_vars

\* Every live writer keeps taking steps (the operating system schedules it), the
\* with block ends, and time passes; nobody has to call a tool, or to die.
FairSpec ==
    /\ Spec
    /\ \A w \in Writers : WF_vars(Wait(w)) /\ WF_vars(Tool(w) \/ Leave(w))
    /\ WF_vars(Pass)

----------------------------------------------------------------------------
(* What the write tools promise.                                           *)

\* Every change of the file is one tool taking effect on the note as it was at
\* that moment: no tool writes over an edit it has not read ("a concurrent
\* append cannot read stale content and clobber the first writer's changes").
Linearizable == Note!Spec

\* The same, wherever writers die, fail or overstay, up to the moment a waiter
\* unlinks the lock file of a live writer.
LinearizableUntilMisfire ==
    [][misfired \/ \E w \in Writers, o \in Ops : Note!Edit(w, o)]_file

\* Between two tools the row, the links and the vector are those of the file, but
\* for what the last call that wrote it did not come to, because a step of it
\* failed or its process ended ("so the three stay consistent under contention").
\* So a failure leaves no other part behind, and the next tool that is answered
\* brings all of them to the file, whatever earlier ones left and although the
\* new text may have the very bytes that a cut call stored.
IndexAgrees ==
    Inside = {} /\ ~ misfired =>
        /\ row = file \/ "row" \in cut
        /\ edges = {file} \/ "edges" \in cut
        /\ vec = file \/ "vec" \in cut
=============================================================================
