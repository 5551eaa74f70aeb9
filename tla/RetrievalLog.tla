---------------------------- MODULE RetrievalLog ----------------------------
(* The retrieval log (retrieval_log.py): every process that serves a search *)
(* writes one event with its hits, in one transaction on a connection of    *)
(* its own, next to everything else that writes the database.               *)
(*                                                                          *)
(* A database that is busy twice costs the event, which is then counted;    *)
(* any other error costs it too and switches the log off for the process.   *)
(* The count is kept in memory until it can ride along with an event that   *)
(* is stored, or is flushed when the log is switched off or closed.         *)
EXTENDS Naturals, FiniteSets

CONSTANTS
    Writers,     \* the processes
    Searches     \* the searches served; each is logged by one process, once

VARIABLES
    stored,      \* the events of retrieval_event
    hits,        \* the events with rows in retrieval_hit
    total,       \* schema_version: retrieval_log_skipped_total
    locked,      \* the process in a write transaction, "other", or "none"
    writer,      \* [Writers -> [at, event, tries, pending, off]]
    unheard,     \* the searches of a process whose log is off
    persisted,   \* the searches that were dropped and are counted in total,
    held,        \* ... in what a process has pending, [Writers -> SUBSET Searches],
    forgotten    \* ... or were, by a process that died

lvars == <<stored, hits, total, locked, writer, unheard, persisted, held, forgotten>>

Fresh == [at |-> "idle", event |-> 0, tries |-> 0, pending |-> 0, off |-> FALSE]

LogInit ==
    /\ stored = {} /\ hits = {}
    /\ total = 0
    /\ locked = "none"
    /\ writer = [p \in Writers |-> Fresh]
    /\ unheard = {}
    /\ persisted = {} /\ held = [p \in Writers |-> {}] /\ forgotten = {}

Dropped == persisted \union forgotten \union UNION {held[p] : p \in Writers}
Seen == stored \union Dropped \union unheard \union {writer[p].event : p \in Writers}

(* Another connection writes the database for a while. *)
OtherWrites ==
    /\ \/ locked = "none" /\ locked' = "other"
       \/ locked = "other" /\ locked' = "none"
    /\ UNCHANGED <<stored, hits, total, writer, unheard, persisted, held, forgotten>>

(* record, record_read, record_context: nothing once the log is off. *)
Record(p, e) ==
    /\ writer[p].at = "idle"
    /\ e \notin Seen
    /\ IF writer[p].off
       THEN /\ unheard' = unheard \union {e}
            /\ writer' = writer
       ELSE /\ unheard' = unheard
            /\ writer' = [writer EXCEPT ![p].at = "begin", ![p].event = e, ![p].tries = 0]
    /\ UNCHANGED <<stored, hits, total, locked, persisted, held, forgotten>>

(* _count_skip: the process goes on at another place, one event short.      *)
CountsSkip(p, at, off) ==
    /\ writer' = [writer EXCEPT ![p].at = at, ![p].event = 0,
                                ![p].pending = @ + 1, ![p].off = off]
    /\ held' = [held EXCEPT ![p] = @ \union {writer[p].event}]

(* What p has pending is added to the count that is stored.                 *)
StoresCount(p) ==
    /\ total' = total + writer[p].pending
    /\ persisted' = persisted \union held[p]
    /\ held' = [held EXCEPT ![p] = {}]

(* BEGIN IMMEDIATE: one retry when the database stays busy. *)
Begin(p) ==
    /\ writer[p].at = "begin"
    /\ IF locked = "none"
       THEN /\ locked' = p
            /\ writer' = [writer EXCEPT ![p].at = "commit"]
            /\ held' = held
       ELSE /\ locked' = locked
            /\ IF writer[p].tries = 0
               THEN /\ writer' = [writer EXCEPT ![p].tries = 1]
                    /\ held' = held
               ELSE CountsSkip(p, "idle", FALSE)
    /\ UNCHANGED <<stored, hits, total, unheard, persisted, forgotten>>

(* Mutant: the pending count is stored and not reset. *)
AltCommit(p) ==
    /\ writer[p].at = "commit"
    /\ stored' = stored \union {writer[p].event}
    /\ StoresCount(p)
    /\ locked' = "none"
    /\ writer' = [writer EXCEPT ![p].at = "idle", ![p].event = 0]
    /\ UNCHANGED <<hits, unheard, forgotten>>

(* The event, its hits and the pending count, in one transaction. *)
Commit(p) ==
    /\ writer[p].at = "commit"
    /\ \E found \in BOOLEAN :
          hits' = IF found THEN hits \union {writer[p].event} ELSE hits
    /\ stored' = stored \union {writer[p].event}
    /\ StoresCount(p)
    /\ locked' = "none"
    /\ writer' = [writer EXCEPT ![p].at = "idle", ![p].event = 0, ![p].pending = 0]
    /\ UNCHANGED <<unheard, forgotten>>

(* _disable: any other error, from the connection on; the transaction, if   *)
(* there is one, is rolled back.                                            *)
Disable(p) ==
    /\ writer[p].at \in {"begin", "commit"}
    /\ locked' = IF locked = p THEN "none" ELSE locked
    /\ CountsSkip(p, "flush", TRUE)
    /\ UNCHANGED <<stored, hits, total, unheard, persisted, forgotten>>

(* close(), at the end of a hook. *)
Close(p) ==
    /\ writer[p].at = "idle"
    /\ writer[p].pending > 0
    /\ writer' = [writer EXCEPT ![p].at = "flush"]
    /\ UNCHANGED <<stored, hits, total, locked, unheard, persisted, held, forgotten>>

(* _flush_skipped: a connection of its own; the count is kept on a failure. *)
Flush(p) ==
    /\ writer[p].at = "flush"
    /\ \/ /\ locked = "none"
          /\ StoresCount(p)
          /\ writer' = [writer EXCEPT ![p].at = "idle", ![p].pending = 0]
       \/ /\ writer' = [writer EXCEPT ![p].at = "idle"]
          /\ UNCHANGED <<total, persisted, held>>
    /\ UNCHANGED <<stored, hits, locked, unheard, forgotten>>

(* rotate: events older than ninety days go, with their hits. *)
RotateLog(old) ==
    /\ locked = "none"
    /\ old # {}
    /\ hits' = hits \ old
    /\ stored' = stored \ old
    /\ UNCHANGED <<total, locked, writer, unheard, persisted, held, forgotten>>

(* The process is killed, or leaves through os._exit; another takes its     *)
(* place.  SQLite rolls its transaction back.                               *)
Exit(p) ==
    /\ writer[p] # Fresh
    /\ forgotten' = forgotten \union held[p]
    /\ held' = [held EXCEPT ![p] = {}]
    /\ locked' = IF locked = p THEN "none" ELSE locked
    /\ writer' = [writer EXCEPT ![p] = Fresh]
    /\ UNCHANGED <<stored, hits, total, unheard, persisted>>

LogNext ==
    \/ OtherWrites
    \/ \E old \in SUBSET stored : RotateLog(old)
    \/ \E p \in Writers :
          \/ Begin(p) \/ Commit(p) \/ Disable(p) \/ Close(p) \/ Flush(p) \/ Exit(p)
          \/ \E e \in Searches : Record(p, e)

LogSpec == LogInit /\ [][LogNext]_lvars

-----------------------------------------------------------------------------
(* The report can say how incomplete the log is: each search that was        *)
(* dropped is counted once, in the persisted count or in one that is still   *)
(* in memory, unless that died with its process; what is stored was not      *)
(* dropped, and no hit is without its event (retrieval_log.py:436-485).      *)
SkipsAreCountedOnce ==
    /\ total = Cardinality(persisted)
    /\ \A p \in Writers :
          /\ writer[p].pending = Cardinality(held[p])
          /\ held[p] \intersect (persisted \union forgotten) = {}
          /\ \A q \in Writers \ {p} : held[p] \intersect held[q] = {}
    /\ stored \intersect Dropped = {}
    /\ hits \subseteq stored
=============================================================================
