--------------------------- MODULE ModelMigration ---------------------------
(* The embedding model of a vault's vector index: how a starting server      *)
(* registers it, changes it and repairs the index, while other servers serve *)
(* (server.py, _init and _apply_targeted_index; search.py, SearchEngine).    *)
(*                                                                           *)
(* The database names the model (schema_version.embedding_model), every      *)
(* process resolves it once, when it builds its engine, and vec0 accepts     *)
(* only vectors of the width its table was created with. Each action is one  *)
(* transaction. Texts are left out (VaultSync has them): a vector is the     *)
(* model it was made with. The lock is AgedLock's; here a dead holder's file *)
(* is broken, a live holder's is not, and a waiter may give up.              *)
EXTENDS Naturals, FiniteSets

CONSTANTS
    Processes,      \* server processes
    Pages,        \* notes of the vault
    Width,        \* [models fastembed knows -> width of their vectors]
    Odd,          \* a model name fastembed does not know
    DefaultModel, \* _MODEL_NAME
    Unset,        \* no row, no request, no vector
    MaxStarts,    \* bound on the starts of servers
    MaxPages      \* bound on the changes of notes

ASSUME DefaultIsKnown ==
    /\ DefaultModel \in DOMAIN Width /\ Odd \notin DOMAIN Width
    /\ Unset \notin DOMAIN Width \cup {Odd}
    /\ Processes \cap {"free", "orphan"} = {}

VARIABLES
    pages,     \* the notes with a row
    vecs,      \* [Pages -> Unset or the model, and how its writer stood; see Vector]
    width,     \* of notes_vec, 0 when there is no table
    tag,       \* schema_version.embedding_model
    rebuild,   \* the reindex lock: "free", "orphan" or its holder
    server,    \* [Processes -> what the process knows and where it is]
    tooLong,   \* a waiter went on without the lock
    starts, changes

mvars == <<pages, vecs, width, tag, rebuild, server, tooLong, starts, changes>>

Models == DOMAIN Width \cup {Odd}
WidthOf(m) == IF m \in DOMAIN Width THEN Width[m] ELSE Width[DefaultModel]
Registered == IF tag = Unset THEN DefaultModel ELSE tag

NoServer == [at |-> "off", engine |-> DefaultModel, pinned |-> FALSE, vec |-> FALSE,
             asked |-> Unset, todo |-> {}, gone |-> {}, guarded |-> FALSE]

MigrationInit ==
    /\ pages \in SUBSET Pages
    /\ vecs = [n \in Pages |-> Unset]
    /\ width = 0
    /\ tag = Unset
    /\ rebuild = "free"
    /\ server = [s \in Processes |-> NoServer]
    /\ tooLong = FALSE
    /\ starts = 0 /\ changes = 0

Target(s) == IF server[s].asked # Unset THEN server[s].asked ELSE server[s].engine
Steps(s, to) == server' = [server EXCEPT ![s].at = to]

(* Whether it is written under the lock and by an engine that another        *)
(* process' change has left behind.                                          *)
Vector(s) == [model |-> server[s].engine, held |-> server[s].guarded,
              late  |-> server[s].engine # Registered]
Fits(s) == WidthOf(server[s].engine) = width
Unembedded(P) == {n \in P : vecs[n] = Unset}
Orphans == {n \in Pages \ pages : vecs[n] # Unset}

(* SearchEngine(storage): the model is the database's, the table is created  *)
(* if there is none, and the drift of the model will be looked at.           *)
FreshEngine(r) == [r EXCEPT !.engine = Registered, !.pinned = FALSE, !.vec = TRUE]
EnsureTable(m) == width' = IF width = 0 THEN WidthOf(m) ELSE width

StartServer(s, asked) ==
    /\ server[s].at = "off"
    /\ starts < MaxStarts
    /\ starts' = starts + 1
    /\ server' = [server EXCEPT ![s] = [FreshEngine(NoServer) EXCEPT !.at = "sync", !.asked = asked]]
    /\ EnsureTable(Registered)
    /\ UNCHANGED <<pages, vecs, tag, rebuild, tooLong, changes>>

(* sync_all, of a start and of brain_sync (with full and without): what      *)
(* changed outside gets or loses its row now and its vector later.           *)
After(at) == CASE at = "sync"  -> {"decide"} [] at = "ready" -> {"for diff", "for all"}

SyncPages(s, P) ==
    /\ server[s].at \in {"sync", "ready"}
    /\ changes + Cardinality(P) <= MaxPages
    /\ changes' = changes + Cardinality(P)
    /\ \E here \in SUBSET P, to \in After(server[s].at) :
         /\ P \ here \subseteq pages
         /\ pages' = (pages \ P) \cup here
         /\ server' = [server EXCEPT ![s].at = to, ![s].todo = here, ![s].gone = P \ here]
    /\ UNCHANGED <<vecs, width, tag, rebuild, tooLong, starts>>

(* The first look at the name, without the lock.                             *)
Decide(s) ==
    /\ server[s].at = "decide"
    /\ Steps(s, CASE tag = Unset /\ Target(s) = server[s].engine -> "for boot"
                  [] tag # Target(s)                             -> "for change"
                  [] OTHER                                       -> "for diff")
    /\ UNCHANGED <<pages, vecs, width, tag, rebuild, tooLong, starts, changes>>

Waits == {"for boot", "for change", "for diff", "for repair", "for all"}
EnteredAs(at) == CASE at = "for boot"   -> "boot"   [] at = "for change" -> "change"
                 [] at = "for diff"   -> "diff"   [] at = "for repair" -> "repair"
                 [] at = "for all"    -> "all"

(* _reindex_lock: entered when free, or without it at the end of the wait.   *)
TakeRebuild(s) ==
    /\ server[s].at \in Waits
    /\ \/ rebuild = "free" /\ rebuild' = s
       \/ rebuild # "free" /\ rebuild' = rebuild
    /\ tooLong' = (tooLong \/ rebuild # "free")
    /\ server' = [server EXCEPT ![s].at = EnteredAs(server[s].at), ![s].guarded = rebuild = "free"]
    /\ UNCHANGED <<pages, vecs, width, tag, starts, changes>>

Leaves(s, r, to) ==
    /\ server' = [server EXCEPT ![s] = [r EXCEPT !.at = to, !.guarded = FALSE]]
    /\ rebuild' = IF server[s].guarded THEN "free" ELSE rebuild

(* The name is read again under the lock: another process may have been here.*)
Boot(s) ==
    /\ server[s].at = "boot"
    /\ \/ /\ tag # Unset
          /\ Leaves(s, FreshEngine(server[s]), "for diff")
       \/ /\ tag = Unset
          /\ Steps(s, IF Cardinality(pages) # Cardinality({n \in Pages : vecs[n] # Unset})
                      THEN "boot all" ELSE "boot name")
          /\ UNCHANGED rebuild
    /\ UNCHANGED <<pages, vecs, width, tag, tooLong, starts, changes>>

(* index_all: every row in one transaction, or none of it.                   *)
IndexAll(s) == vecs' = IF pages = {} THEN vecs
                       ELSE [n \in Pages |-> IF n \in pages THEN Vector(s) ELSE Unset]

BootIndexes(s) ==
    /\ server[s].at = "boot all"
    /\ IndexAll(s)
    /\ Steps(s, "boot name")
    /\ UNCHANGED <<pages, width, tag, rebuild, tooLong, starts, changes>>

BootRegisters(s) ==
    /\ server[s].at = "boot name"
    /\ tag' = server[s].engine
    /\ Leaves(s, server[s], "ready")
    /\ UNCHANGED <<pages, vecs, width, tooLong, starts, changes>>

(* _model_loadable: a name fastembed does not know never loads, another may  *)
(* fail to. Only after it is the old table dropped.                          *)
Change(s) ==
    /\ server[s].at = "change"
    /\ \/ /\ tag = Target(s)
          /\ Leaves(s, FreshEngine(server[s]), "for diff")
       \/ /\ tag # Target(s)
          /\ Target(s) # Odd
          /\ Steps(s, "recreate")
          /\ UNCHANGED rebuild
       \/ /\ tag # Target(s)
          /\ Leaves(s, server[s], "for diff")
    /\ UNCHANGED <<pages, vecs, width, tag, tooLong, starts, changes>>

AltRecreate(s) ==
    /\ server[s].at = "recreate"
    /\ width' = WidthOf(Target(s))
    /\ vecs' = IF width' = width THEN vecs ELSE [n \in Pages |-> Unset]
    /\ Steps(s, "name")
    /\ UNCHANGED <<pages, tag, rebuild, tooLong, starts, changes>>

Recreate(s) ==
    /\ server[s].at = "recreate"
    /\ width' = WidthOf(Target(s))
    /\ vecs' = [n \in Pages |-> Unset]
    /\ Steps(s, "name")
    /\ UNCHANGED <<pages, tag, rebuild, tooLong, starts, changes>>

(* The engine of a change was built with the name, not from the database.    *)
NameModel(s) ==
    /\ server[s].at = "name"
    /\ tag' = Target(s)
    /\ server' = [server EXCEPT ![s].at = "all of it", ![s].engine = Target(s),
                                ![s].pinned = TRUE, ![s].vec = TRUE]
    /\ UNCHANGED <<pages, vecs, width, rebuild, tooLong, starts, changes>>

(* A failure now leaves the process without vectors; brain_sync(full=true)   *)
(* rebuilds under the same lock.                                             *)
ReembedAll(s) ==
    /\ server[s].at \in {"all of it", "all"}
    /\ \/ server[s].vec /\ Fits(s) /\ IndexAll(s) /\ Leaves(s, [server[s] EXCEPT !.todo = {}, !.gone = {}], "ready")
       \/ /\ server[s].at = "all of it"
          /\ UNCHANGED vecs
          /\ Leaves(s, [server[s] EXCEPT !.vec = FALSE], "ready")
       \/ /\ server[s].at = "all" /\ ~(server[s].vec /\ Fits(s))
          /\ UNCHANGED vecs
          /\ Leaves(s, server[s], "ready")
    /\ UNCHANGED <<pages, width, tag, tooLong, starts, changes>>

(* _apply_targeted_index and repair_index: first what must go, then what     *)
(* lacks a vector, one transaction each; a vector of another width is        *)
(* refused, and that ends the start.                                         *)
DropVectors(s) ==
    /\ server[s].at \in {"diff", "repair"}
    /\ server[s].gone # {}
    /\ server' = [server EXCEPT ![s].gone = {}]
    /\ vecs' = IF server[s].vec THEN [n \in Pages |-> IF n \in server[s].gone THEN Unset ELSE vecs[n]]
               ELSE vecs
    /\ UNCHANGED <<pages, width, tag, rebuild, tooLong, starts, changes>>

IndexOne(s, n) ==
    /\ server[s].at \in {"diff", "repair"}
    /\ server[s].gone = {}
    /\ n \in server[s].todo
    /\ IF server[s].vec /\ n \in pages /\ ~Fits(s)
       THEN Leaves(s, [server[s] EXCEPT !.todo = {}], "ready") /\ UNCHANGED vecs
       ELSE /\ server' = [server EXCEPT ![s].todo = @ \ {n}]
            /\ vecs' = IF server[s].vec /\ n \in pages THEN [vecs EXCEPT ![n] = Vector(s)] ELSE vecs
            /\ UNCHANGED rebuild
    /\ UNCHANGED <<pages, width, tag, tooLong, starts, changes>>

(* has_index_delta: a row without a vector or a vector without a row.        *)
EndDiff(s) ==
    /\ server[s].at = "diff"
    /\ server[s].todo = {} /\ server[s].gone = {}
    /\ Leaves(s, server[s],
              IF server[s].vec /\ Unembedded(pages) \cup Orphans # {} THEN "for repair" ELSE "ready")
    /\ UNCHANGED <<pages, vecs, width, tag, tooLong, starts, changes>>

(* The two lists are made under the lock.                                    *)
ListRepairs(s) ==
    /\ server[s].at = "repair"
    /\ server[s].todo = {} /\ server[s].gone = {}
    /\ Unembedded(pages) \cup Orphans # {}
    /\ server' = [server EXCEPT ![s].todo = Unembedded(pages), ![s].gone = Orphans]
    /\ UNCHANGED <<pages, vecs, width, tag, rebuild, tooLong, starts, changes>>

EndRepair(s) ==
    /\ server[s].at = "repair"
    /\ server[s].todo = {} /\ server[s].gone = {}
    /\ Unembedded(pages) \cup Orphans = {}
    /\ Leaves(s, server[s], "ready")
    /\ UNCHANGED <<pages, vecs, width, tag, tooLong, starts, changes>>

(* A ready server: a note tool stores the row and then the vector, without   *)
(* the reindex lock; brain_delete drops both.                                *)
WritePage(s, n) ==
    /\ server[s].at = "ready"
    /\ changes < MaxPages
    /\ changes' = changes + 1
    /\ pages' = pages \cup {n}
    /\ vecs' = IF server[s].vec /\ Fits(s) THEN [vecs EXCEPT ![n] = Vector(s)] ELSE vecs
    /\ UNCHANGED <<width, tag, rebuild, server, tooLong, starts>>

DropPage(s, n) ==
    /\ server[s].at = "ready"
    /\ n \in pages
    /\ changes < MaxPages
    /\ changes' = changes + 1
    /\ pages' = pages \ {n}
    /\ vecs' = IF server[s].vec THEN [vecs EXCEPT ![n] = Unset] ELSE vecs
    /\ UNCHANGED <<width, tag, rebuild, server, tooLong, starts>>

(* brain_search after the recheck interval: _check_model_drift. A pinned     *)
(* engine does not look.                                                     *)
Query(s) ==
    /\ server[s].at = "ready"
    /\ server[s].vec /\ ~server[s].pinned
    /\ tag # Unset /\ tag # server[s].engine
    /\ server' = [server EXCEPT ![s].vec = FALSE]
    /\ UNCHANGED <<pages, vecs, width, tag, rebuild, tooLong, starts, changes>>

(* The process ends anywhere: os._exit, or its window is closed.             *)
EndServer(s) ==
    /\ server[s].at # "off"
    /\ server' = [server EXCEPT ![s] = NoServer]
    /\ rebuild' = IF server[s].guarded THEN "orphan" ELSE rebuild
    /\ UNCHANGED <<pages, vecs, width, tag, tooLong, starts, changes>>

BreakRebuild ==
    /\ rebuild = "orphan"
    /\ rebuild' = "free"
    /\ UNCHANGED <<pages, vecs, width, tag, server, tooLong, starts, changes>>

MigrationNext ==
    \/ BreakRebuild
    \/ \E s \in Processes :
         \/ \E m \in Models \cup {Unset} : StartServer(s, m)
         \/ \E P \in SUBSET Pages : SyncPages(s, P)
         \/ \E n \in Pages : IndexOne(s, n) \/ WritePage(s, n) \/ DropPage(s, n)
         \/ Decide(s) \/ TakeRebuild(s) \/ Boot(s) \/ BootIndexes(s) \/ BootRegisters(s)
         \/ Change(s) \/ Recreate(s) \/ NameModel(s) \/ ReembedAll(s)
         \/ DropVectors(s) \/ EndDiff(s) \/ ListRepairs(s) \/ EndRepair(s)
         \/ Query(s) \/ EndServer(s)

MigrationSpec == MigrationInit /\ [][MigrationNext]_mvars

---------------------------------------------------------------------------
(* As long as nobody gives up waiting: what a process wrote under the lock   *)
(* with the database's model is of the database's model, so a change of the  *)
(* model leaves nothing of the one before, wherever it is cut off (the       *)
(* comments at server.py:167 and :270).                                      *)
TagIsHonest ==
    ~tooLong => \A n \in Pages :
        vecs[n] # Unset /\ vecs[n].held /\ ~vecs[n].late => vecs[n].model = Registered

(* What the docstring of _apply_targeted_index says its lock prevents: a     *)
(* vector of another model, written under the lock into a table that was     *)
(* recreated in the meantime.                                                *)
NoLateVectors ==
    ~tooLong => \A n \in Pages :
        vecs[n] # Unset /\ vecs[n].held => vecs[n].model = Registered
=============================================================================
