--------------------------- MODULE CodexSupervisor ---------------------------
(***************************************************************************)
(* One run of a Codex hook (adapters/codex/supervisor.py): the supervisor  *)
(* reads the request, has a thread start the worker, feeds it and waits,   *)
(* all before one deadline.  Starting a process cannot be cancelled, so    *)
(* the deadline may pass while the launcher thread is in it, or between    *)
(* its hand-over and the supervisor's taking.                              *)
(*                                                                         *)
(* The supervisor is a process: its threads and its end of the worker's    *)
(* stdin go with it.  On Windows the worker is in a job that is killed     *)
(* with the last handle to it.                                             *)
(***************************************************************************)
EXTENDS Naturals

VARIABLES
    windows,         \* the platform
    late,            \* the deadline has passed
    input,           \* the request: "coming", "good" or "bad"
    main,            \* where the main thread is, and how the process ended
    launcher,        \* where the launcher thread is
    cancelled, claimed,  \* the two events
    offer,           \* the queue of one: "empty", "process", "error" or "taken"
    worker,          \* the worker process
    fed,             \* the request was written to its stdin
    answer           \* what was emitted: "none", "continue", "empty" or "worker's"

supervisorVars == <<windows, late, input, main, launcher, cancelled, claimed, offer, worker, fed, answer>>

Gone == {"done", "exited", "killed"}
Alive == {"reading", "serving"}

Terminated(w) == IF w \in Alive THEN "terminated" ELSE w

Emit(what) == main' = "done" /\ answer' = what

Late ==
    /\ ~late /\ late' = TRUE
    /\ UNCHANGED <<windows, input, main, launcher, cancelled, claimed, offer, worker, fed, answer>>

Input ==
    /\ input = "coming" /\ input' \in {"good", "bad"}
    /\ UNCHANGED <<windows, late, main, launcher, cancelled, claimed, offer, worker, fed, answer>>

\* _read_input_before, and the launch unless there is nothing to launch for.
Read ==
    /\ main = "reading"
    /\ \/ late /\ Emit("continue") /\ UNCHANGED launcher
       \/ input = "bad" /\ Emit("empty") /\ UNCHANGED launcher
       \/ /\ input = "good"
          /\ main' = "launching" /\ launcher' = "starting"
          /\ UNCHANGED answer
    /\ UNCHANGED <<windows, late, input, cancelled, claimed, offer, worker, fed>>
-----------------------------------------------------------------------------
(* _launch_owned_process.                                                   *)

LauncherRuns == main \notin {"exited", "killed"}

Spawn ==
    /\ LauncherRuns /\ launcher = "starting"
    /\ \/ launcher' = "spawned" /\ worker' = "reading" /\ UNCHANGED offer
       \/ launcher' = "ended" /\ offer' = "error" /\ UNCHANGED worker
       \/ /\ windows                    \* no job to contain it
          /\ launcher' = "ended" /\ offer' = "error" /\ worker' = "terminated"
    /\ UNCHANGED <<windows, late, input, main, cancelled, claimed, fed, answer>>

HandOver ==
    /\ LauncherRuns
    /\ \/ /\ launcher = "spawned" /\ cancelled
          /\ launcher' = "ended" /\ worker' = Terminated(worker) /\ UNCHANGED offer
       \/ /\ launcher = "spawned" /\ ~cancelled
          /\ launcher' = "putting" /\ UNCHANGED <<worker, offer>>
       \/ /\ launcher = "putting"
          /\ launcher' = "put" /\ offer' = "process" /\ UNCHANGED worker
    /\ UNCHANGED <<windows, late, input, main, cancelled, claimed, fed, answer>>

\* As if whatever is not claimed yet were abandoned.
AbandonedSoon == ~claimed

Abandoned == cancelled /\ ~claimed

\* After the hand-over: the events are tested first, the process is terminated then.
Review ==
    /\ LauncherRuns
    /\ \/ /\ launcher = "put"
          /\ launcher' = IF Abandoned THEN "killing" ELSE "ended"
          /\ UNCHANGED worker
       \/ /\ launcher = "killing"
          /\ launcher' = "ended" /\ worker' = Terminated(worker)
    /\ UNCHANGED <<windows, late, input, main, cancelled, claimed, offer, fed, answer>>
-----------------------------------------------------------------------------
(* _start_worker_before and the rest of run_cli.                            *)

\* The wait for the launcher ends with nothing; if it was not over before it
\* began, the queue is looked at once more.
Cancel ==
    /\ main = "launching" /\ late /\ offer \in {"empty", "process"}
    /\ cancelled' = TRUE
    /\ \/ Emit("continue")
       \/ offer = "empty" /\ main' = "draining" /\ UNCHANGED answer
    /\ UNCHANGED <<windows, late, input, launcher, claimed, offer, worker, fed>>

Drain ==
    /\ main = "draining"
    /\ IF offer = "process"
       THEN offer' = "taken" /\ claimed' = TRUE /\ worker' = Terminated(worker)
       ELSE UNCHANGED <<offer, claimed, worker>>
    /\ Emit("continue")
    /\ UNCHANGED <<windows, late, input, launcher, cancelled, fed>>

Take ==
    /\ main = "launching"
    /\ \/ /\ offer = "process" /\ offer' = "taken" /\ claimed' = TRUE
          /\ main' = "feeding" /\ UNCHANGED answer
       \/ /\ offer = "error" /\ Emit("continue") /\ UNCHANGED <<offer, claimed>>
    /\ UNCHANGED <<windows, late, input, launcher, cancelled, worker, fed>>

\* communicate: it may find the worker dead.
Feed ==
    /\ main = "feeding"
    /\ IF late THEN worker' = Terminated(worker) /\ Emit("continue") /\ UNCHANGED fed
               ELSE fed' = TRUE /\ main' = "waiting" /\ UNCHANGED <<worker, answer>>
    /\ UNCHANGED <<windows, late, input, launcher, cancelled, claimed, offer>>

Overtaken ==
    /\ main = "waiting" /\ late /\ worker \in Alive
    /\ worker' = Terminated(worker) /\ Emit("continue")
    /\ UNCHANGED <<windows, late, input, launcher, cancelled, claimed, offer, fed>>

\* An answer that came too late, or is none, is not passed on.
Answered ==
    /\ main = "waiting" /\ worker \notin Alive
    /\ Emit(IF worker = "answered" /\ ~late THEN "worker's" ELSE "continue")
    /\ UNCHANGED <<windows, late, input, launcher, cancelled, claimed, offer, worker, fed>>

\* The process ends: its threads stop and its pipes close.
MainExits ==
    /\ main = "done" /\ main' = "exited"
    /\ worker' = IF windows THEN Terminated(worker) ELSE worker
    /\ UNCHANGED <<windows, late, input, launcher, cancelled, claimed, offer, fed, answer>>

\* The host does not wait for the deadline.
HostKills ==
    /\ main \notin Gone /\ main' = "killed"
    /\ worker' = IF windows THEN Terminated(worker) ELSE worker
    /\ UNCHANGED <<windows, late, input, launcher, cancelled, claimed, offer, fed, answer>>
-----------------------------------------------------------------------------
(* worker_main.                                                             *)

\* As if the worker held an end of its own pipe.
MeetsNoEnd(closed) == FALSE

MeetsEnd(closed) == closed

\* It reads to the end: the request, or nothing when the supervisor is gone.
WorkerReads ==
    /\ worker = "reading"
    /\ \/ fed /\ ~late /\ worker' = "serving"
       \/ fed /\ late /\ worker' = "answered"
       \/ ~fed /\ MeetsEnd(main \in {"exited", "killed"}) /\ worker' = "ended"
    /\ UNCHANGED <<windows, late, input, main, launcher, cancelled, claimed, offer, fed, answer>>

WorkerServes ==
    /\ worker = "serving" /\ worker' \in {"answered", "ended"}
    /\ UNCHANGED <<windows, late, input, main, launcher, cancelled, claimed, offer, fed, answer>>

SupervisorInit ==
    /\ windows \in BOOLEAN /\ late = FALSE /\ input = "coming"
    /\ main = "reading" /\ launcher = "none" /\ cancelled = FALSE /\ claimed = FALSE
    /\ offer = "empty" /\ worker = "none" /\ fed = FALSE /\ answer = "none"

Main == Read \/ Cancel \/ Drain \/ Take \/ Feed \/ Overtaken \/ Answered \/ MainExits
Launcher == Spawn \/ HandOver \/ Review

SupervisorNext == Late \/ Input \/ Main \/ Launcher \/ HostKills \/ WorkerReads \/ WorkerServes

SupervisorSpec == SupervisorInit /\ [][SupervisorNext]_supervisorVars

\* The deadline comes, the supervisor's main thread runs, and a process that has
\* its input goes on; the request, the start of a process and the adapter may
\* take for ever.
-----------------------------------------------------------------------------
\* A worker in use is never terminated by the launcher that handed it over, and
\* once the supervisor has answered none is still at work in the vault, unheard.
WorkerIsOwned ==
    /\ main \in {"feeding", "waiting"} => launcher # "killing" /\ worker # "terminated"
    /\ main \in {"done", "exited"} => worker # "serving"

\* No worker outlives its hook, on whichever side of the deadline it was started:
\* it is taken, terminated, or sees the end of its input.  (A host that kills the
\* supervisor of a worker that serves leaves it to finish, except on Windows.)
WorkersEnd ==
    (worker = "reading") ~> (worker \notin Alive \/ (main = "killed" /\ ~windows /\ worker = "serving"))
=============================================================================
