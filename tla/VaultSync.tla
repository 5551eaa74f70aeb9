------------------------------ MODULE VaultSync ------------------------------
(***************************************************************************)
(* How the index follows the vault: VaultSync.sync_all and sync_one        *)
(* (sync.py) on the tables of storage.py and the vectors of search.py.     *)
(*                                                                         *)
(* Several processes work on one database: servers (one per open session)  *)
(* sync at their start and on brain_sync, then maintain the vectors, and   *)
(* write notes; hooks sync before every recall and embed nothing.  People  *)
(* edit the files meanwhile.  The connection is in autocommit mode, so a   *)
(* statement is a step and a run may be cut between any two of them.       *)
(*                                                                         *)
(* A text is a model value with the set of notes its wikilinks point at;   *)
(* its hash is the text itself (no collisions).                            *)
(***************************************************************************)
EXTENDS Naturals, FiniteSets

CONSTANTS
    Notes,        \* vault-relative paths
    Texts,        \* contents of note files
    Links,        \* Links[t]: the notes the wikilinks of t name
    Unparsable,   \* texts whose frontmatter parse_note rejects
    Bodyless,     \* texts with an empty body
    Servers, Hooks,
    MaxEdits,     \* how often a file changes outside the program
    MaxWrites,    \* how often brain_write is called
    MaxFaults,    \* how many runs are cut short or waits for the reindex lock time out
    Rebuild,      \* whether a migration has just asked for a full reindex
    None

Procs == Servers \cup Hooks

ASSUME VaultConstants ==
    /\ Links \in [Texts -> SUBSET Notes]
    /\ Unparsable \subseteq Texts
    /\ Bodyless \subseteq Texts
    /\ Servers \cap Hooks = {}
    /\ MaxEdits \in Nat /\ MaxWrites \in Nat /\ MaxFaults \in Nat
    /\ Rebuild \in BOOLEAN
    /\ None \notin Texts \cup Notes \cup Procs

VARIABLES
    disk,         \* the text of each file, None where there is none
    rows,         \* the notes table: body and content_hash
    edges,        \* the relations table: <<source, target, broken>>
    vec,          \* notes_vec: the text each vector was made from
    marker,       \* the reindex-done marker of schema_version
    relock,       \* the reindex lock file: its process, "orphan" or None
    pc,
    job,          \* the locals of each process' current run
    edits, writes, crashes, giveups

counts == <<edits, writes, crashes, giveups>>
vars == <<disk, rows, edges, vec, marker, relock, pc, job, counts>>

Row(body, hash) == [body |-> body, hash |-> hash]
Rows == [body : Texts, hash : Texts \cup {None}]

ASSUME NamesApart == None \notin Rows /\ "orphan" \notin Procs

\* `note` is the note at hand, `text` what was read of it, `new` what brain_write
\* writes; `queue` holds the bodies Pass 2 has to link, `alone` is history: no
\* other run and no edit has overlapped this one.
NoJob ==
    [force |-> FALSE, locked |-> FALSE, one |-> FALSE, repaired |-> FALSE,
     alone |-> FALSE, walk |-> {}, snap |-> [n \in {} |-> None],
     pre |-> [n \in {} |-> None], pairs |-> {}, todo |-> {}, links |-> {},
     queue |-> [n \in {} |-> None], broken |-> {}, touched |-> {}, removed |-> {},
     moved |-> {}, note |-> None, text |-> None, new |-> None]

Present == {n \in Notes : disk[n] # None}
Indexed == {n \in Notes : rows[n] # None}

From(n) == {e \in edges : e[1] = n}

Drop(f, n) == [m \in DOMAIN f \ {n} |-> f[m]]
Put(f, n, v) == [m \in DOMAIN f \cup {n} |-> IF m = n THEN v ELSE f[m]]

Goto(p, label) == pc' = [pc EXCEPT ![p] = label]
At(p, label) == pc[p] = label

tables == <<rows, edges, vec, marker>>
world == <<disk, relock, counts>>

----------------------------------------------------------------------------
(* sync_all: the reindex lock, the walk and the snapshot.                  *)

Overlap(p) == [q \in Procs |-> [job[q] EXCEPT !.alone = FALSE]]

\* A server starts or runs brain_sync, a hook recalls: needs_full_reindex().
StartSync(p) ==
    /\ At(p, "idle")
    /\ Goto(p, IF marker THEN "walk" ELSE "lock")
    /\ job' = [Overlap(p) EXCEPT ![p] =
                 [NoJob EXCEPT !.alone = \A q \in Procs \ {p} : At(q, "idle")]]
    /\ UNCHANGED <<tables, world>>

\* What each of the three waits for the reindex lock leads to.
Behind == [lock |-> "recheck", veclock |-> "vectors", replock |-> "lists"]

\* _reindex_lock: taken when free; an orphan is broken once it is stale.
TakeLock(p) ==
    /\ pc[p] \in DOMAIN Behind
    /\ relock \in {None, "orphan"}
    /\ relock' = p
    /\ job' = [job EXCEPT ![p].locked = TRUE]
    /\ Goto(p, Behind[pc[p]])
    /\ UNCHANGED <<tables, disk, counts>>

\* After _REINDEX_LOCK_WAIT_S the caller goes on without the lock.
GiveUpLock(p) ==
    /\ pc[p] \in DOMAIN Behind
    /\ crashes + giveups < MaxFaults
    /\ relock # None
    /\ giveups' = giveups + 1
    /\ Goto(p, Behind[pc[p]])
    /\ UNCHANGED <<tables, disk, relock, edits, writes, crashes, job>>

Unlocked(p) == IF job[p].locked THEN None ELSE relock

\* As if the lock were taken and the marker not read again.
RecheckNothing(p) ==
    /\ At(p, "recheck")
    /\ job' = [job EXCEPT ![p].force = TRUE]
    /\ Goto(p, "purge")
    /\ UNCHANGED <<tables, world>>

\* The marker again, under the lock: somebody may have rebuilt meanwhile.
Recheck(p) ==
    /\ At(p, "recheck")
    /\ IF marker
       THEN /\ relock' = Unlocked(p)
            /\ job' = [job EXCEPT ![p].locked = FALSE]
            /\ Goto(p, "walk")
       ELSE /\ job' = [job EXCEPT ![p].force = TRUE]
            /\ Goto(p, "purge")
            /\ UNCHANGED relock
    /\ UNCHANGED <<tables, disk, counts>>

Purge(p) ==
    /\ At(p, "purge")
    /\ edges' = {}
    /\ Goto(p, "walk")
    /\ UNCHANGED <<rows, vec, marker, world, job>>

Walk(p) ==
    /\ At(p, "walk")
    /\ job' = [job EXCEPT ![p].walk = Present]
    /\ Goto(p, "snapshot")
    /\ UNCHANGED <<tables, world>>

Snapshot(p) ==
    /\ At(p, "snapshot")
    /\ job' = [job EXCEPT ![p].snap = [n \in Indexed |-> rows[n].hash]]
    /\ Goto(p, "pair")
    /\ UNCHANGED <<tables, world>>

----------------------------------------------------------------------------
(* Pass 0: a vanished row and a new file with the same bytes are a move.   *)

Gone(p) ==
    {n \in DOMAIN job[p].snap \ job[p].walk :
        job[p].snap[n] # None /\ rows[n] # None /\ rows[n].body \notin Bodyless}

\* The new files that can be read now, with their text.
Newcomers(p) ==
    IF Gone(p) = {} THEN [n \in {} |-> None]
    ELSE [n \in (job[p].walk \ DOMAIN job[p].snap) \cap Present |-> disk[n]]

\* Only a hash that one vanished row and one new file share makes a pair.
Pairs(gone, snap, new) ==
    {pair \in gone \X DOMAIN new :
        LET hash == new[pair[2]] IN
        /\ snap[pair[1]] = hash
        /\ \A m \in gone \ {pair[1]} : snap[m] # hash
        /\ \A m \in DOMAIN new \ {pair[2]} : new[m] # hash}

Pair(p) ==
    /\ At(p, "pair")
    /\ job' = [job EXCEPT ![p].pre = Newcomers(p),
                          ![p].pairs = Pairs(Gone(p), job[p].snap, Newcomers(p))]
    /\ Goto(p, "move")
    /\ UNCHANGED <<tables, world>>

\* move_note: one transaction; a row at the new path is replaced.
MoveRow(p) ==
    /\ At(p, "move")
    /\ \E pair \in job[p].pairs :
         /\ rows' = [rows EXCEPT ![pair[2]] = rows[pair[1]], ![pair[1]] = None]
         /\ job' = [job EXCEPT ![p] =
                      [job[p] EXCEPT !.pairs = @ \ {pair},
                                     !.moved = @ \cup {pair},
                                     !.note = pair[1],
                                     !.snap = Put(Drop(@, pair[1]), pair[2], @[pair[1]])]]
    /\ Goto(p, "unlink")
    /\ UNCHANGED <<edges, vec, marker, world>>

\* delete_relations_by_source(old)
DropMovedEdges(p) ==
    /\ At(p, "unlink")
    /\ edges' = edges \ From(job[p].note)
    /\ Goto(p, "move")
    /\ UNCHANGED <<rows, vec, marker, world, job>>

EndMoves(p) ==
    /\ At(p, "move")
    /\ job[p].pairs = {}
    /\ job' = [job EXCEPT ![p].todo = job[p].walk]
    /\ Goto(p, "ingest")
    /\ UNCHANGED <<tables, world>>

----------------------------------------------------------------------------
(* Pass 1: read every file; upsert the changed ones, drop the vanished.    *)

MovedTo(p) == {pair[2] : pair \in job[p].moved}

\* The text of the file, as read in Pass 0 or now.
Content(p, n) == IF n \in DOMAIN job[p].pre THEN job[p].pre[n] ELSE disk[n]

\* As if a path that has a row were up to date.
UnchangedIfKnown(p, n) == n \in DOMAIN job[p].snap

Unchanged(p, n) ==
    /\ n \in DOMAIN job[p].snap
    /\ job[p].snap[n] = Content(p, n)

\* As if a moved note, unchanged by construction, could be skipped.
SkipMovedToo(p, n) ==
    /\ At(p, "ingest") /\ n \in job[p].todo
    /\ Content(p, n) # None
    /\ Unchanged(p, n) /\ ~job[p].force
    /\ job' = [job EXCEPT ![p].todo = @ \ {n}]
    /\ UNCHANGED <<tables, world, pc>>

\* The hash says the row is up to date, and nothing forces it through.
Skip(p, n) ==
    /\ At(p, "ingest") /\ n \in job[p].todo
    /\ Content(p, n) # None
    /\ Unchanged(p, n) /\ ~job[p].force /\ n \notin MovedTo(p)
    /\ job' = [job EXCEPT ![p].todo = @ \ {n}]
    /\ UNCHANGED <<tables, world, pc>>

Ingest(p, n) ==
    /\ At(p, "ingest") /\ n \in job[p].todo
    /\ Content(p, n) \in Texts \ Unparsable
    /\ ~Unchanged(p, n) \/ job[p].force \/ n \in MovedTo(p)
    /\ job' = [job EXCEPT ![p].note = n, ![p].text = Content(p, n)]
    /\ Goto(p, "upsert")
    /\ UNCHANGED <<tables, world>>

\* As if the row of a file that cannot be parsed stayed as it is.
RejectVouching(p, n) ==
    /\ At(p, "ingest") /\ n \in job[p].todo
    /\ Content(p, n) = None \/ Content(p, n) \in Unparsable
    /\ Content(p, n) # None => ~Unchanged(p, n) \/ job[p].force \/ n \in MovedTo(p)
    /\ job' = [job EXCEPT ![p].todo = @ \ {n}]
    /\ UNCHANGED <<tables, world, pc>>

\* The file cannot be read or parsed: its row may stay but vouches for nothing.
Reject(p, n) ==
    /\ At(p, "ingest") /\ n \in job[p].todo
    /\ Content(p, n) = None \/ Content(p, n) \in Unparsable
    /\ Content(p, n) # None => ~Unchanged(p, n) \/ job[p].force \/ n \in MovedTo(p)
    /\ rows' = IF rows[n] = None THEN rows ELSE [rows EXCEPT ![n].hash = None]
    /\ job' = [job EXCEPT ![p].todo = @ \ {n}]
    /\ UNCHANGED <<edges, vec, marker, world, pc>>

\* upsert_note: the body and the hash in one statement.
Upsert(p) ==
    /\ At(p, "upsert")
    /\ LET n == job[p].note  t == job[p].text IN
       /\ rows' = [rows EXCEPT ![n] = Row(t, t)]
       /\ job' = [job EXCEPT ![p].todo = @ \ {n},
                             ![p].queue = Put(@, n, t),
                             ![p].touched = IF n \in MovedTo(p) THEN @ ELSE @ \cup {n}]
    /\ Goto(p, IF job[p].one THEN "link" ELSE "ingest")
    /\ UNCHANGED <<edges, vec, marker, world>>

EndIngest(p) ==
    /\ At(p, "ingest")
    /\ job[p].todo = {}
    /\ job' = [job EXCEPT ![p].todo = DOMAIN job[p].snap \ job[p].walk]
    /\ Goto(p, "sweep")
    /\ UNCHANGED <<tables, world>>

\* A row whose file the walk did not see: its edges, then the row.
SweepEdges(p, n) ==
    /\ At(p, "sweep") /\ n \in job[p].todo
    /\ edges' = edges \ From(n)
    /\ job' = [job EXCEPT ![p].note = n]
    /\ Goto(p, "delete")
    /\ UNCHANGED <<rows, vec, marker, world>>

DeleteRow(p) ==
    /\ At(p, "delete")
    /\ rows' = [rows EXCEPT ![job[p].note] = None]
    /\ job' = [job EXCEPT ![p].todo = @ \ {job[p].note},
                          ![p].removed = @ \cup {job[p].note}]
    /\ Goto(p, "sweep")
    /\ UNCHANGED <<edges, vec, marker, world>>

EndSweep(p) ==
    /\ At(p, "sweep")
    /\ job[p].todo = {}
    /\ job' = [job EXCEPT ![p] = [@ EXCEPT !.walk = {}, !.snap = NoJob.snap,
                                           !.pre = NoJob.pre, !.note = None,
                                           !.text = None]]
    /\ Goto(p, "link")
    /\ UNCHANGED <<tables, world>>

----------------------------------------------------------------------------
(* Pass 2: the edges of every upserted note, of the body Pass 1 read.      *)

Targets(n) == {e[2] : e \in From(n)}

\* _sync_wikilinks begins by dropping the edges of the note.
Unlink(p, n) ==
    /\ At(p, "link")
    /\ job[p].links = {} /\ n \in DOMAIN job[p].queue
    /\ edges' = edges \ From(n)
    /\ job' = [job EXCEPT ![p].links = Links[job[p].queue[n]],
                          ![p].queue = Drop(@, n),
                          ![p].note = n]
    /\ UNCHANGED <<rows, vec, marker, world, pc>>

\* resolve_target and upsert_relation: broken when no row has that path.
AddEdge(p, t) ==
    /\ At(p, "link")
    /\ t \in job[p].links
    /\ edges' = edges \cup {<<job[p].note, t, rows[t] = None>>}
    /\ job' = [job EXCEPT ![p].links = @ \ {t}]
    /\ UNCHANGED <<rows, vec, marker, world, pc>>

AfterSync(p) == IF p \in Servers THEN "veclock" ELSE "vectors"

EndLinks(p) ==
    /\ At(p, "link")
    /\ job[p].links = {} /\ DOMAIN job[p].queue = {}
    /\ job' = [job EXCEPT ![p].broken =
                 IF job[p].one THEN {e \in edges : e[2] = job[p].note /\ e[3]} ELSE {}]
    /\ Goto(p, IF job[p].one THEN "reresolve"
               ELSE IF job[p].force THEN "mark" ELSE AfterSync(p))
    /\ UNCHANGED <<tables, world>>

\* mark_reindex_done, at the end of a forced run.
Mark(p) ==
    /\ At(p, "mark")
    /\ marker' = TRUE
    /\ Goto(p, "unlock")
    /\ UNCHANGED <<rows, edges, vec, world, job>>

Unlock(p) ==
    /\ At(p, "unlock")
    /\ relock' = Unlocked(p)
    /\ job' = [job EXCEPT ![p].locked = FALSE]
    /\ Goto(p, AfterSync(p))
    /\ UNCHANGED <<tables, disk, counts>>

----------------------------------------------------------------------------
(* The vectors: a hook only drops and re-keys; a server embeds, under the  *)
(* reindex lock (_apply_targeted_index), and then repairs (repair_index).  *)

DropVector(p, n) ==
    /\ At(p, "vectors")
    /\ n \in job[p].removed
    /\ vec' = [vec EXCEPT ![n] = None]
    /\ job' = [job EXCEPT ![p].removed = @ \ {n}]
    /\ UNCHANGED <<rows, edges, marker, world, pc>>

\* move_vec: one transaction.
MoveVector(p) ==
    /\ At(p, "vectors")
    /\ job[p].removed = {}
    /\ \E pair \in job[p].moved :
         /\ vec' = [vec EXCEPT ![pair[2]] = vec[pair[1]], ![pair[1]] = None]
         /\ job' = [job EXCEPT ![p].moved = @ \ {pair}]
    /\ UNCHANGED <<rows, edges, marker, world, pc>>

\* The end of a run forgets its locals.
Finish(p) ==
    /\ job' = [job EXCEPT ![p] = NoJob]
    /\ Goto(p, "idle")

EndVectors(p) ==
    /\ At(p, "vectors")
    /\ job[p].removed = {} /\ job[p].moved = {}
    /\ IF p \in Servers
       THEN /\ job' = [job EXCEPT ![p].todo = job[p].touched, ![p].touched = {}]
            /\ Goto(p, "embed")
       ELSE Finish(p)
    /\ UNCHANGED <<tables, world>>

\* get_note: the row as it is now, if there still is one.
ReadRow(p, n) ==
    /\ At(p, "embed")
    /\ n \in job[p].todo
    /\ IF rows[n] = None
       THEN job' = [job EXCEPT ![p].todo = @ \ {n}] /\ UNCHANGED pc
       ELSE /\ job' = [job EXCEPT ![p].todo = @ \ {n}, ![p].note = n,
                                  ![p].text = rows[n].body]
            /\ Goto(p, "store")
    /\ UNCHANGED <<tables, world>>

\* index_note, when the embedding has been computed.
StoreVector(p) ==
    /\ At(p, "store")
    /\ vec' = [vec EXCEPT ![job[p].note] = job[p].text]
    /\ Goto(p, "embed")
    /\ UNCHANGED <<rows, edges, marker, world, job>>

EndEmbed(p) ==
    /\ At(p, "embed")
    /\ job[p].todo = {}
    /\ relock' = Unlocked(p)
    /\ IF job[p].repaired
       THEN Finish(p)
       ELSE /\ job' = [job EXCEPT ![p].locked = FALSE]
            /\ Goto(p, "replock")
    /\ UNCHANGED <<tables, disk, counts>>

Missing == {n \in Notes : rows[n] # None /\ vec[n] = None}
Orphans == {n \in Notes : rows[n] = None /\ vec[n] # None}

\* As if rows and vectors were only counted (is_index_dirty).
NoDeltaByCount(p) ==
    /\ At(p, "replock")
    /\ Cardinality(Missing) = Cardinality(Orphans)
    /\ Finish(p)
    /\ UNCHANGED <<tables, world>>

\* A starting server repairs only if has_index_delta(); brain_sync always does.
NoDelta(p) ==
    /\ At(p, "replock")
    /\ Missing \cup Orphans = {}
    /\ Finish(p)
    /\ UNCHANGED <<tables, world>>

ListDrift(p) ==
    /\ At(p, "lists")
    /\ job' = [job EXCEPT ![p].removed = Orphans, ![p].touched = Missing,
                          ![p].repaired = TRUE]
    /\ Goto(p, "vectors")
    /\ UNCHANGED <<tables, world>>

----------------------------------------------------------------------------
(* brain_write: the file, sync_one and the vector, under the note's lock   *)
(* (NoteWriteLock), which keeps two servers from writing one note at once. *)

Write(p, n, t) ==
    /\ At(p, "idle") /\ p \in Servers
    /\ writes < MaxWrites
    /\ \A q \in Servers : job[q].one => job[q].note # n
    /\ writes' = writes + 1
    /\ job' = [Overlap(p) EXCEPT ![p] = [NoJob EXCEPT !.one = TRUE, !.note = n, !.new = t]]
    /\ Goto(p, "write")
    /\ UNCHANGED <<tables, disk, relock, edits, crashes, giveups>>

WriteFile(p) ==
    /\ At(p, "write")
    /\ disk' = [disk EXCEPT ![job[p].note] = job[p].new]
    /\ Goto(p, "resync")
    /\ UNCHANGED <<tables, relock, counts, job>>

\* sync_one reads the file again; an exception ends the call.
Resync(p) ==
    /\ At(p, "resync")
    /\ LET t == disk[job[p].note] IN
       IF t \in Texts \ Unparsable
       THEN job' = [job EXCEPT ![p].text = t] /\ Goto(p, "upsert")
       ELSE Finish(p)
    /\ UNCHANGED <<tables, world>>

\* _reresolve_broken_inbound: an edge that is still there and resolves now.
Reresolve(p, e) ==
    /\ At(p, "reresolve")
    /\ e \in job[p].broken
    /\ edges' = IF e \in edges /\ rows[e[2]] # None
                THEN (edges \ {e}) \cup {<<e[1], e[2], FALSE>>} ELSE edges
    /\ job' = [job EXCEPT ![p].broken = @ \ {e}]
    /\ UNCHANGED <<rows, vec, marker, world, pc>>

\* index_note, of the text the tool was given.
IndexWritten(p) ==
    /\ At(p, "reresolve")
    /\ job[p].broken = {}
    /\ vec' = [vec EXCEPT ![job[p].note] = job[p].new]
    /\ Finish(p)
    /\ UNCHANGED <<rows, edges, marker, world>>

----------------------------------------------------------------------------
(* The vault's owner, and runs cut short.                                  *)

\* A file is changed, made, renamed or removed outside the program.
Revise(newDisk) ==
    /\ edits < MaxEdits
    /\ edits' = edits + 1
    /\ disk' = newDisk
    /\ disk' # disk
    /\ job' = [p \in Procs |-> [job[p] EXCEPT !.alone = FALSE]]
    /\ UNCHANGED <<tables, relock, writes, crashes, giveups, pc>>

Edit(n, t) == Revise([disk EXCEPT ![n] = t])

Rename(n, m) ==
    /\ disk[n] # None /\ disk[m] = None
    /\ Revise([disk EXCEPT ![m] = disk[n], ![n] = None])

\* The process is gone (os._exit, a killed hook): nothing it did is undone, and
\* the lock file it holds stays.
Die(p) ==
    /\ ~At(p, "idle")
    /\ crashes + giveups < MaxFaults
    /\ crashes' = crashes + 1
    /\ relock' = IF job[p].locked THEN "orphan" ELSE relock
    /\ Finish(p)
    /\ UNCHANGED <<tables, disk, edits, writes, giveups>>

\* An exception (a busy database, a full disk) ends the run; the lock is released.
Abort(p) ==
    /\ ~At(p, "idle")
    /\ crashes + giveups < MaxFaults
    /\ crashes' = crashes + 1
    /\ relock' = Unlocked(p)
    /\ Finish(p)
    /\ UNCHANGED <<tables, disk, edits, writes, giveups>>

----------------------------------------------------------------------------
Mirror(d) == [n \in Notes |-> IF d[n] \in Texts \ Unparsable THEN Row(d[n], d[n]) ELSE None]

\* The database mirrors the vault, or has just been migrated and asks for a
\* rebuild: it is then new, or full of edges an older resolver made.
InitWith(rebuild) ==
    /\ disk \in [Notes -> Texts \cup {None}]
    /\ rows \in IF rebuild THEN {Mirror(disk), [n \in Notes |-> None]} ELSE {Mirror(disk)}
    /\ vec = [n \in Notes |-> IF rows[n] = None THEN None ELSE rows[n].body]
    /\ \E b \in BOOLEAN :
         edges = {e \in Notes \X Notes \X BOOLEAN :
                     /\ rows[e[1]] # None /\ e[2] \in Links[rows[e[1]].body]
                     /\ e[3] = IF rebuild THEN b ELSE rows[e[2]] = None}
    /\ marker = ~rebuild
    /\ relock = None
    /\ pc = [p \in Procs |-> "idle"]
    /\ job = [p \in Procs |-> NoJob]
    /\ edits = 0 /\ writes = 0
    /\ crashes = 0 /\ giveups = 0

Init == InitWith(Rebuild)

SyncStep(p) ==
    \/ StartSync(p) \/ TakeLock(p) \/ GiveUpLock(p) \/ Recheck(p) \/ Purge(p)
    \/ Walk(p) \/ Snapshot(p) \/ Pair(p) \/ MoveRow(p) \/ DropMovedEdges(p)
    \/ EndMoves(p) \/ EndIngest(p) \/ DeleteRow(p) \/ EndSweep(p)
    \/ \E n \in Notes : Skip(p, n) \/ Ingest(p, n) \/ Reject(p, n) \/ SweepEdges(p, n)
    \/ Upsert(p) \/ EndLinks(p) \/ Mark(p) \/ Unlock(p)
    \/ \E n \in Notes : Unlink(p, n) \/ AddEdge(p, n)

VectorStep(p) ==
    \/ \E n \in Notes : DropVector(p, n) \/ ReadRow(p, n)
    \/ MoveVector(p) \/ EndVectors(p) \/ StoreVector(p) \/ EndEmbed(p)
    \/ NoDelta(p) \/ ListDrift(p)

WriteStep(p) ==
    \/ WriteFile(p) \/ Resync(p) \/ IndexWritten(p)
    \/ \E e \in job[p].broken : Reresolve(p, e)

Step(p) == SyncStep(p) \/ VectorStep(p) \/ WriteStep(p)

Next ==
    \/ \E p \in Procs : Step(p) \/ Die(p) \/ Abort(p)
    \/ \E p \in Servers, n \in Notes, t \in Texts \ Unparsable : Write(p, n, t)
    \/ \E n \in Notes, t \in Texts \cup {None} : Edit(n, t)
    \/ \E n, m \in Notes : Rename(n, m)

Spec == Init /\ [][Next]_vars

\* Whoever runs goes on, and everybody syncs again and again: a hook before each
\* recall, a server at each start and brain_sync.
FairSpec == Spec /\ \A p \in Procs : WF_vars(Step(p))

----------------------------------------------------------------------------
(* What the index promises.                                                *)

Labels ==
    {"idle", "lock", "recheck", "purge", "walk", "snapshot", "pair", "move", "unlink",
     "ingest", "upsert", "sweep", "delete", "link", "mark", "unlock", "veclock",
     "vectors", "embed", "store", "replock", "lists", "write", "resync", "reresolve"}

\* The tables hold notes and texts, every row that vouches for a file vouches for
\* the body it has, and the lock file is held by the run that took it.
TypeOK ==
    /\ disk \in [Notes -> Texts \cup {None}]
    /\ rows \in [Notes -> Rows \cup {None}]
    /\ \A n \in Indexed : rows[n].hash \in {None, rows[n].body}
    /\ edges \subseteq Notes \X Notes \X BOOLEAN
    /\ vec \in [Notes -> Texts \cup {None}]
    /\ marker \in BOOLEAN
    /\ relock \in Procs \cup {None, "orphan"}
    /\ pc \in [Procs -> Labels]
    /\ \A p \in Procs : job[p].locked <=> relock = p
    /\ edits \in 0..MaxEdits /\ writes \in 0..MaxWrites /\ crashes + giveups \in 0..MaxFaults

\* A readable file has its row, a vanished file has none, and the row of an
\* unreadable one vouches for nothing.
RowMirrors(n) ==
    IF disk[n] = None THEN rows[n] = None
    ELSE IF disk[n] \in Unparsable THEN rows[n] # None => rows[n].hash = None
    ELSE rows[n] = Row(disk[n], disk[n])

Synced(p) == pc[p] \in {"mark", "unlock", "veclock", "vectors", "embed", "store",
                        "replock", "lists"}

\* When sync_all returns, and nobody else ran or edited meanwhile, the rows mirror
\* the vault: whatever crashed or overlapping runs had left of it, through moves,
\* vanished and unreadable files.
QuietSyncMirrors ==
    \A p \in Procs : Synced(p) /\ job[p].alone => \A n \in Notes : RowMirrors(n)

\* The edges of a note go where the links of its row point.
EdgesFollow(n) == rows[n].hash # None => Targets(n) = Links[rows[n].body]

AtRest == \A p \in Procs : At(p, "idle")

\* Between two runs every row that vouches for its file has the edges of its body
\* and no other note has any.
GraphFollowsRows ==
    AtRest => /\ \A n \in Indexed : EdgesFollow(n)
              /\ \A e \in edges : e[1] \in Indexed

\* Between two runs every vector was made from the body of its row, unless a file
\* was edited while a tool wrote it (the vector is then of the tool's text).
VectorsFollowRows ==
    AtRest /\ (edits = 0 \/ writes = 0) =>
        \A n \in Notes : vec[n] = IF rows[n] = None THEN None ELSE rows[n].body

\* Links and vectors are the rows' own, whatever files came, went, moved and stopped
\* parsing between and during the runs.
IndexFollowsRows == GraphFollowsRows /\ VectorsFollowRows

\* All the edges, each with the flag the resolver now gives it.
Rebuilt ==
    \A n \in Indexed :
        From(n) = {<<n, t, rows[t] = None>> : t \in Links[rows[n].body]}

\* Once the marker says the forced rebuild is done the graph has been rebuilt,
\* whoever died on the way ("the next run simply sees the marker missing"), as long
\* as the vault rests and nobody goes on without the lock.
MarkedIsRebuilt == edits + writes + giveups = 0 /\ marker => Rebuilt

\* A server that ran alone leaves a vector for every row and for nothing else,
\* whatever hooks, crashes and races had left of the vector table.
RepairLeavesNoDrift ==
    [][\A p \in Servers :
         pc[p] \in {"embed", "replock"} /\ pc'[p] = "idle"
            /\ job[p].alone /\ crashes' = crashes
         => Missing \cup Orphans = {}]_vars

\* When the edits stop, the rows come to mirror the vault and every row to have its
\* vector, for good: whatever runs overlapped, died or went on without the lock.
Settles == <>[](Missing \cup Orphans = {} /\ \A n \in Notes : RowMirrors(n))

\* When the edits stop, the graph comes to follow the rows for good, although runs
\* were cut short ("os._exit is safe - WAL handles crash recovery by design").
GraphSettles == <>[](\A n \in Indexed : EdgesFollow(n))

=============================================================================
