------------------------------- MODULE Refactor -------------------------------
(***************************************************************************)
(* brain_rename and brain_delete (refactor.py): operations over several    *)
(* notes.  Both look up the notes that link to the one they are about,     *)
(* rewrite the links there, one note and one lock at a time, and then move *)
(* or remove the file, its row, its edges and its vector, a commit each.   *)
(* Other servers do the same, and append to notes, meanwhile.              *)
(*                                                                         *)
(* A text is the edits it carries and the links in it.  A link names a     *)
(* note by its path, or by its basename alone.  note_write_lock excludes   *)
(* (NoteWriteLock says when it does not).                                  *)
(***************************************************************************)
EXTENDS Naturals, FiniteSets

CONSTANTS
    Notes,         \* vault-relative paths
    Basenames,     \* the names of short links
    Base,          \* Base[n]: the basename of n
    Vaults,        \* the vaults to begin with: which notes there are, and their links
    Servers,
    Edits,         \* the calls of brain_append
    NewLinks,      \* what they link to, None for nothing
    Ops,           \* what is called: of "append", "rename", "safe", "cascade"
    MaxRefactors,  \* how many renames and deletes are called
    MaxFaults,     \* how many calls die, fail or time out half way
    None

Names == Notes \cup Basenames
Texts == [says : SUBSET Edits, links : SUBSET Names]

Rows == [text : Texts, born : {"first", "later"}]

ASSUME RefactorConstants ==
    /\ Base \in [Notes -> Basenames]
    /\ Notes \cap Basenames = {}
    /\ \A v \in Vaults, n \in Notes : v[n] = None \/ v[n] \subseteq Names
    /\ NewLinks \subseteq Names \cup {None}
    /\ Ops \subseteq {"append", "rename", "safe", "cascade"}
    /\ MaxRefactors \in Nat /\ MaxFaults \in Nat
    /\ None \notin Notes \cup Basenames \cup Servers \cup Edits /\ None \notin Texts \cup Rows
    /\ None \notin {"append", "rename", "safe", "cascade"}

VARIABLES
    disk,          \* the text of each file, None where there is none
    rows,          \* the notes table: the text, and whether the row was there at first
    edges,         \* the relations table: source, link and what it resolved to
    vec,           \* the text each vector was made from
    lock,          \* who is inside each note's lock
    pc,
    job,           \* the locals of each server's call
    refactors, faults,
    asked,         \* the appends that were called
    answered,      \* history: those that succeeded
    gone,          \* history: the edits in a file as it was deleted or overwritten
    named,         \* history: the notes a rename or delete was called with
    overlapped     \* history: two calls were under way at once

tables == <<rows, edges, vec>>
history == <<asked, answered, gone, named, overlapped>>
vars == <<disk, tables, lock, pc, job, refactors, faults, history>>

Edges == [from : Notes, link : Names, to : Notes \cup {None}]

NoText == [says |-> {}, links |-> {}]

\* `note` is the note of the call, `to` its new path, `at` the note in hand.
NoJob == [op |-> None, note |-> None, to |-> None, edit |-> None, link |-> None,
          at |-> None, todo |-> {}, text |-> NoText]

\* resolve_target: a path, or a basename that only one note has.
Resolve(l, paths) ==
    LET matches == {n \in paths : n = l \/ Base[n] = l} IN
    IF Cardinality(matches) = 1 THEN CHOOSE n \in matches : TRUE ELSE None

Indexed(r) == {n \in Notes : r[n] # None}

From(n) == {e \in edges : e.from = n}

At(p, label) == pc[p] = label
Goto(p, label) == pc' = [pc EXCEPT ![p] = label]
Holds(p, n) == lock[n] = p

\* The call is over, whichever way; what it holds is released.
Finish(p) ==
    /\ Goto(p, "idle")
    /\ job' = [job EXCEPT ![p] = NoJob]
    /\ lock' = [n \in Notes |-> IF Holds(p, n) THEN None ELSE lock[n]]

\* One note is done, the lock is released, the next one is looked for.
NextSource(p) ==
    /\ Goto(p, "sources")
    /\ lock' = [n \in Notes |-> IF Holds(p, n) THEN None ELSE lock[n]]
    /\ job' = [job EXCEPT ![p].at = None, ![p].text = NoText]

\* sync_one: the row of what is in the file, its links, resolved against the rows, and
\* the broken links of other notes that name this one.
SyncOne(n) ==
    LET text == disk[n]
        r == [rows EXCEPT ![n] =
                [text |-> text, born |-> IF @ = None THEN "later" ELSE @.born]]
        fresh == {[from |-> n, link |-> l, to |-> Resolve(l, Indexed(r))] : l \in text.links}
        mend(e) == IF e.to = None /\ e.link \in {n, Base[n]}
                   THEN [e EXCEPT !.to = Resolve(e.link, Indexed(r))] ELSE e
    IN /\ rows' = r
       /\ edges' = {mend(e) : e \in (edges \ From(n)) \cup fresh}

----------------------------------------------------------------------------
(* The calls.                                                              *)

Begin(p, j) ==
    /\ At(p, "idle")
    /\ job' = [job EXCEPT ![p] = j]
    /\ overlapped' = (overlapped \/ \E q \in Servers \ {p} : ~At(q, "idle"))

\* brain_append: the file exists, the rest is inside the lock.
Append(p) ==
    /\ "append" \in Ops
    /\ \E e \in Edits, n \in Notes, l \in NewLinks :
         /\ e \notin asked /\ asked' = asked \cup {e}
         /\ disk[n] # None
         /\ Begin(p, [NoJob EXCEPT !.op = "append", !.note = n, !.at = n,
                                   !.edit = e, !.link = l])
    /\ Goto(p, "lock")
    /\ UNCHANGED <<disk, tables, lock, refactors, faults, answered, gone, named>>

\* brain_rename: there is a note at the old path and none at the new one.
Rename(p) ==
    /\ "rename" \in Ops
    /\ refactors < MaxRefactors
    /\ refactors' = refactors + 1
    /\ \E n, to \in Notes :
         /\ disk[n] # None /\ disk[to] = None
         /\ Begin(p, [NoJob EXCEPT !.op = "rename", !.note = n, !.to = to])
         /\ named' = named \cup {n, to}
    /\ Goto(p, "inbound")
    /\ UNCHANGED <<disk, tables, lock, faults, asked, answered, gone>>

Delete(p) ==
    /\ refactors < MaxRefactors
    /\ refactors' = refactors + 1
    /\ \E n \in Notes, mode \in Ops \cap {"safe", "cascade"} :
         /\ disk[n] # None
         /\ Begin(p, [NoJob EXCEPT !.op = mode, !.note = n])
         /\ named' = named \cup {n}
    /\ Goto(p, "inbound")
    /\ UNCHANGED <<disk, tables, lock, faults, asked, answered, gone>>

\* As if a safe delete did not look who links to the note.
FindInboundNever(p) ==
    /\ At(p, "inbound")
    /\ job' = [job EXCEPT ![p].todo = IF job[p].op = "safe" THEN {}
                                      ELSE {e.from : e \in {f \in edges : f.to = job[p].note}}]
    /\ Goto(p, "sources")
    /\ UNCHANGED <<disk, tables, lock, refactors, faults, history>>

\* find_inbound_refs, and the refusal of a safe delete.
FindInbound(p) ==
    /\ At(p, "inbound")
    /\ LET sources == {e.from : e \in {f \in edges : f.to = job[p].note}} IN
       IF job[p].op = "safe" /\ sources # {}
       THEN Finish(p)
       ELSE /\ job' = [job EXCEPT ![p].todo = sources]
            /\ Goto(p, "sources")
            /\ UNCHANGED lock
    /\ UNCHANGED <<disk, tables, refactors, faults, history>>

\* As if a source were rewritten without its lock.
PickSourceUnlocked(p) ==
    /\ At(p, "sources")
    /\ IF job[p].todo = {}
       THEN /\ job' = [job EXCEPT ![p].at =
                         IF job[p].op = "rename" THEN job[p].to ELSE job[p].note]
            /\ Goto(p, "targetlock")
       ELSE \E n \in job[p].todo :
              /\ job' = [job EXCEPT ![p].todo = @ \ {n}, ![p].at = n]
              /\ Goto(p, "read")
    /\ UNCHANGED <<disk, tables, lock, refactors, faults, history>>

\* The next source whose file is still there; after the last one, the note itself.
PickSource(p) ==
    /\ At(p, "sources")
    /\ IF job[p].todo = {}
       THEN /\ job' = [job EXCEPT ![p].at =
                         IF job[p].op = "rename" THEN job[p].to ELSE job[p].note]
            /\ Goto(p, "targetlock")
       ELSE \E n \in job[p].todo :
              IF disk[n] = None
              THEN /\ job' = [job EXCEPT ![p].todo = @ \ {n}]
                   /\ UNCHANGED pc
              ELSE /\ job' = [job EXCEPT ![p].todo = @ \ {n}, ![p].at = n]
                   /\ Goto(p, "lock")
    /\ UNCHANGED <<disk, tables, lock, refactors, faults, history>>

Behind(p) ==
    IF At(p, "lock") THEN "read"
    ELSE IF job[p].op = "rename" THEN "move" ELSE "unlink"

\* note_write_lock of the note in hand.
TakeLock(p) ==
    /\ pc[p] \in {"lock", "targetlock"}
    /\ lock[job[p].at] = None
    /\ lock' = [lock EXCEPT ![job[p].at] = p]
    /\ Goto(p, Behind(p))
    /\ UNCHANGED <<disk, tables, job, refactors, faults, history>>

----------------------------------------------------------------------------
(* Inside the lock of one note: read, rewrite, write back, index.          *)

\* What the call makes of a text.  Links by basename are not matched.
Rewrite(j, text) ==
    CASE j.op = "append" ->
           [says |-> text.says \cup {j.edit}, links |-> text.links \cup ({j.link} \ {None})]
      [] j.op = "rename" ->
           [text EXCEPT !.links = IF j.note \in @ THEN (@ \ {j.note}) \cup {j.to} ELSE @]
      [] OTHER -> [text EXCEPT !.links = @ \ {j.note}]

\* A source that does not change is left alone; an append whose link does not resolve
\* is refused; a file that has gone meanwhile ends the call.
Read(p) ==
    /\ At(p, "read")
    /\ LET n == job[p].at
           text == disk[n]
           new == Rewrite(job[p], text)
       IN IF text = None THEN Finish(p)
          ELSE IF /\ job[p].op = "append"
                  /\ job[p].link \notin text.links \cup {None}
                  /\ Resolve(job[p].link, Indexed(rows)) = None
          THEN Finish(p)
          ELSE IF new = text /\ job[p].op # "append" THEN NextSource(p)
          ELSE /\ job' = [job EXCEPT ![p].text = new]
               /\ Goto(p, "write")
               /\ UNCHANGED lock
    /\ UNCHANGED <<disk, tables, refactors, faults, history>>

\* atomic_write_text.
Write(p) ==
    /\ At(p, "write")
    /\ disk' = [disk EXCEPT ![job[p].at] = job[p].text]
    /\ Goto(p, "sync")
    /\ UNCHANGED <<tables, lock, job, refactors, faults, history>>

Sync(p) ==
    /\ At(p, "sync")
    /\ IF disk[job[p].at] = None
       THEN Finish(p) /\ UNCHANGED <<rows, edges>>
       ELSE /\ SyncOne(job[p].at)
            /\ Goto(p, "index")
            /\ UNCHANGED <<lock, job>>
    /\ UNCHANGED <<disk, vec, refactors, faults, history>>

\* As if a rewritten source kept its vector.
IndexAppendsOnly(p) ==
    /\ At(p, "index")
    /\ IF job[p].op = "append"
       THEN /\ vec' = [vec EXCEPT ![job[p].at] = job[p].text]
            /\ answered' = answered \cup {job[p].edit}
            /\ Finish(p)
       ELSE NextSource(p) /\ UNCHANGED <<vec, answered>>
    /\ UNCHANGED <<disk, rows, edges, refactors, faults, asked, gone, named, overlapped>>

\* The vector: of the text appended to, or of the row of the rewritten source.
Index(p) ==
    /\ At(p, "index")
    /\ IF job[p].op = "append"
       THEN /\ vec' = [vec EXCEPT ![job[p].at] = job[p].text]
            /\ answered' = answered \cup {job[p].edit}
            /\ Finish(p)
       ELSE /\ vec' = [vec EXCEPT ![job[p].at] =
                         IF rows[job[p].at] = None THEN @ ELSE rows[job[p].at].text]
            /\ NextSource(p)
            /\ UNCHANGED answered
    /\ UNCHANGED <<disk, rows, edges, refactors, faults, asked, gone, named, overlapped>>

----------------------------------------------------------------------------
(* The end of a rename, inside the lock of the new path.                   *)

Says(n) == IF disk[n] = None THEN {} ELSE disk[n].says

\* Path.rename.  A file that has come to the new path meanwhile is replaced by POSIX,
\* and keeps Windows from renaming.
MoveFile(p) ==
    /\ At(p, "move")
    /\ LET old == job[p].note
           new == job[p].to
       IN \/ /\ disk[old] # None
             /\ disk' = [disk EXCEPT ![new] = disk[old], ![old] = None]
             /\ gone' = gone \cup Says(new)
             /\ Goto(p, "rekey")
             /\ UNCHANGED <<lock, job>>
          \/ /\ disk[old] = None \/ disk[new] # None
             /\ Finish(p)
             /\ UNCHANGED <<disk, gone>>
    /\ UNCHANGED <<tables, refactors, faults, asked, answered, named, overlapped>>

\* move_note: the row keeps all but its path.
MoveRow(p) ==
    /\ At(p, "rekey")
    /\ rows' = [rows EXCEPT ![job[p].to] = rows[job[p].note], ![job[p].note] = None]
    /\ Goto(p, "moveedges")
    /\ UNCHANGED <<disk, edges, vec, lock, job, refactors, faults, history>>

DropMovedEdges(p) ==
    /\ At(p, "moveedges")
    /\ edges' = edges \ From(job[p].note)
    /\ Goto(p, "movevec")
    /\ UNCHANGED <<disk, rows, vec, lock, job, refactors, faults, history>>

MoveVector(p) ==
    /\ At(p, "movevec")
    /\ vec' = [vec EXCEPT ![job[p].to] = vec[job[p].note], ![job[p].note] = None]
    /\ Goto(p, "resync")
    /\ UNCHANGED <<disk, rows, edges, lock, job, refactors, faults, history>>

Resync(p) ==
    /\ At(p, "resync")
    /\ IF disk[job[p].to] = None THEN UNCHANGED <<rows, edges>> ELSE SyncOne(job[p].to)
    /\ Finish(p)
    /\ UNCHANGED <<disk, vec, refactors, faults, history>>

----------------------------------------------------------------------------
(* The end of a delete, inside the lock of the note.                       *)

Unlink(p) ==
    /\ At(p, "unlink")
    /\ IF disk[job[p].note] = None
       THEN Finish(p) /\ UNCHANGED <<disk, gone>>
       ELSE /\ disk' = [disk EXCEPT ![job[p].note] = None]
            /\ gone' = gone \cup Says(job[p].note)
            /\ Goto(p, "droprow")
            /\ UNCHANGED <<lock, job>>
    /\ UNCHANGED <<tables, refactors, faults, asked, answered, named, overlapped>>

DeleteRow(p) ==
    /\ At(p, "droprow")
    /\ rows' = [rows EXCEPT ![job[p].note] = None]
    /\ Goto(p, "dropedges")
    /\ UNCHANGED <<disk, edges, vec, lock, job, refactors, faults, history>>

\* As if the edges went with the row.
DropEdgesOfNone(p) ==
    /\ At(p, "dropedges")
    /\ Goto(p, "dropvec")
    /\ UNCHANGED <<disk, tables, lock, job, refactors, faults, history>>

DropEdges(p) ==
    /\ At(p, "dropedges")
    /\ edges' = edges \ From(job[p].note)
    /\ Goto(p, "dropvec")
    /\ UNCHANGED <<disk, rows, vec, lock, job, refactors, faults, history>>

DropVector(p) ==
    /\ At(p, "dropvec")
    /\ vec' = [vec EXCEPT ![job[p].note] = None]
    /\ Finish(p)
    /\ UNCHANGED <<disk, rows, edges, refactors, faults, history>>

----------------------------------------------------------------------------
\* An exception, a TimeoutError of the lock, or the end of the process, whose lock
\* file is reclaimed when it is stale.
CutShort(p) ==
    /\ ~At(p, "idle")
    /\ faults < MaxFaults
    /\ faults' = faults + 1
    /\ Finish(p)
    /\ UNCHANGED <<disk, tables, refactors, history>>

\* A vault that is indexed and at rest.
Init ==
    /\ \E v \in Vaults :
         LET there == {n \in Notes : v[n] # None} IN
         /\ disk = [n \in Notes |-> IF n \in there
                                    THEN [says |-> {}, links |-> v[n]] ELSE None]
         /\ edges = {[from |-> e[1], link |-> e[2], to |-> Resolve(e[2], there)] :
                       e \in {f \in there \X Names : f[2] \in v[f[1]]}}
    /\ rows = [n \in Notes |-> IF disk[n] = None THEN None
                               ELSE [text |-> disk[n], born |-> "first"]]
    /\ vec = disk
    /\ lock = [n \in Notes |-> None]
    /\ pc = [p \in Servers |-> "idle"]
    /\ job = [p \in Servers |-> NoJob]
    /\ refactors = 0 /\ faults = 0
    /\ asked = {} /\ answered = {} /\ gone = {} /\ named = {} /\ overlapped = FALSE

Rewriting(p) == TakeLock(p) \/ Read(p) \/ Write(p) \/ Sync(p) \/ Index(p)
Moving(p) == MoveFile(p) \/ MoveRow(p) \/ DropMovedEdges(p) \/ MoveVector(p) \/ Resync(p)
Removing(p) == Unlink(p) \/ DeleteRow(p) \/ DropEdges(p) \/ DropVector(p)

Next ==
    \E p \in Servers :
      \/ Append(p) \/ Rename(p) \/ Delete(p)
      \/ FindInbound(p) \/ PickSource(p) \/ Rewriting(p) \/ Moving(p) \/ Removing(p)
      \/ CutShort(p)

Spec == Init /\ [][Next]_vars

----------------------------------------------------------------------------
(* What a rename and a delete promise.                                     *)

TypeOK ==
    /\ disk \in [Notes -> Texts \cup {None}]
    /\ rows \in [Notes -> Rows \cup {None}]
    /\ edges \subseteq Edges
    /\ vec \in [Notes -> Texts \cup {None}]
    /\ lock \in [Notes -> Servers \cup {None}]
    /\ \A p \in Servers : Cardinality({n \in Notes : Holds(p, n)}) <= 1
    /\ refactors \in 0..MaxRefactors /\ faults \in 0..MaxFaults
    /\ gone \subseteq Edits /\ answered \subseteq asked /\ asked \subseteq Edits /\ named \subseteq Notes

Idle == \A p \in Servers : At(p, "idle")

\* Calls that never overlapped, none of them cut short.
Quiet == Idle /\ ~overlapped /\ faults = 0

\* An append that was answered is in a file, whoever renames and rewrites around it,
\* unless its file was deleted or a rename went over it: no rewrite puts back a text it
\* read before the append.
NothingLost ==
    \A e \in answered : e \in gone \/ \E n \in Notes : e \in Says(n)

\* A note that no rename or delete was about has the row, the links and the vector of
\* its file whenever its lock is free, however many of them rewrote its links and
\* whoever appended to it at the same time.
BystandersAgree ==
    faults = 0 => \A n \in Notes \ named :
      lock[n] = None /\ disk[n] # None =>
        /\ rows[n] # None /\ rows[n].text = disk[n]
        /\ vec[n] = disk[n]
        /\ {e.link : e \in From(n)} = disk[n].links

\* One call after the other leaves rows, vectors and links those of the files, and a
\* renamed note keeps its dates ("Re-key, don't re-create").
QuietMirrors ==
    Quiet => /\ Indexed(rows) = {n \in Notes : disk[n] # None}
             /\ \A n \in Indexed(rows) : rows[n].text = disk[n] /\ rows[n].born = "first"
             /\ vec = disk
             /\ \A n \in Notes : {e.link : e \in From(n)} =
                                 IF disk[n] = None THEN {} ELSE disk[n].links

\* After a rename or a delete every link by path still leads to a note, in the files
\* and in the graph.
PathLinksLead ==
    Quiet => \A e \in edges : e.link \in Notes => e.to = e.link /\ disk[e.to] # None

\* The same of every link that led somewhere ("rewrite all inbound references").
LinksLead ==
    Quiet => \A e \in edges :
               Resolve(e.link, {n \in Notes : disk[n] # None}) # None

=============================================================================
