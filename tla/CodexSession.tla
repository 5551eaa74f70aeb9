---------------------------- MODULE CodexSession ----------------------------
(***************************************************************************)
(* What the Codex hooks remember of one session between their processes:   *)
(* the counters (adapters/codex/session_state.py), the hits already shown  *)
(* (recall_dedup.py in the same directory) and the reminders that follow   *)
(* from them (adapter.py).                                                 *)
(*                                                                         *)
(* Each hook is a process that may be killed at its deadline at any point. *)
(* Its transactions hold the session's flock; the collector of any other   *)
(* process, and the seen-store of any other session, remove files by age   *)
(* without it.  The lock is taken and the files are read in one step:      *)
(* nothing that happens between the two could tell them apart.             *)
(***************************************************************************)
EXTENDS Naturals

CONSTANTS
    Hooks,           \* hook processes under way at once
    Hits,            \* notes and routes that a recall may show
    Interval,        \* save_reminder_turns
    MaxTurns,        \* bound: prompts
    NoState

ASSUME SessionAssumption == Interval \in Nat \ {0} /\ MaxTurns \in Nat

VARIABLES
    state,           \* the session's file, or NoState
    stale,           \* it is older than the collector allows
    seen,            \* the session's seen-file: the hits that have not expired
    holder,          \* the hook that holds the flock, or NoState
    hook,            \* the processes
    sweep,           \* another process has found the file to be stale
    zone,            \* history: the last zone with a reminder in the life of the file
    covered,         \* history: a save was recorded since the last checkpoint
    shown,           \* history: hits shown, not expired, in the life of the seen-file
    forgotten        \* history: hits whose record a failing file took

sessionVars == <<state, stale, seen, holder, hook, sweep, zone, covered, shown, forgotten>>

Counters == [turn : Nat, saved : Nat, reminded : Nat, compaction : BOOLEAN]

ASSUME NoStateIsApart == NoState \notin Hooks /\ NoState \notin Counters

NewState == [turn |-> 0, saved |-> 0, reminded |-> 0, compaction |-> FALSE]
NotRunning == [pc |-> "out", kind |-> "none", had |-> NoState, seen |-> {},
               blind |-> FALSE, reaped |-> FALSE]

Updates == {"start", "prompt", "save", "precompact", "postcompact"}
Kinds == Updates \union {"stop", "end", "recall"}

Updated(kind, s) ==
    CASE kind = "start"       -> s
      [] kind = "prompt"      -> [s EXCEPT !.turn = @ + 1]
      [] kind = "save"        -> [s EXCEPT !.saved = s.turn]
      [] kind = "precompact"  -> [s EXCEPT !.compaction = TRUE]
      [] kind = "postcompact" -> [s EXCEPT !.compaction = FALSE]

Turns(s) == IF s = NoState THEN 0 ELSE s.turn
ZoneOf(turn) == turn \div Interval

\* _stop: a turn that ends a zone which has had no check yet.
AtCheckpoint(s) ==
    /\ s.turn >= Interval /\ s.turn % Interval = 0
    /\ ZoneOf(s.reminded) < ZoneOf(s.turn)

\* As if a save in answer to the last reminder did not count.
SavedAfter(s) == s.saved > 0 /\ s.saved > s.reminded

SavedSince(s) == s.saved > 0 /\ s.saved >= s.reminded
-----------------------------------------------------------------------------
Call(h, kind) ==
    /\ hook[h].pc = "out"
    /\ kind = "prompt" => Turns(state) < MaxTurns
    /\ hook' = [hook EXCEPT ![h] = [NotRunning EXCEPT !.pc = "waiting", !.kind = kind]]
    /\ UNCHANGED <<state, stale, seen, holder, sweep, zone, covered, shown, forgotten>>

\* As if the lock were not asked for.
MayEnterAnyway(h) == TRUE

MayEnter(h) == holder = NoState

\* What a hook makes of a file that is there and cannot be read: a fresh one.
MayBeBlind(kind, kept) ==
    IF kind = "recall" THEN seen # {} ELSE kind # "end" /\ kept # NoState

\* The process runs the collector before it looks for its file.
Enter(h) ==
    LET kept == IF stale THEN NoState ELSE state
    IN  /\ hook[h].pc = "waiting" /\ MayEnter(h)
        /\ hook[h].kind = "prompt" => Turns(kept) < MaxTurns
        /\ holder' = h
        /\ state' = kept /\ stale' = FALSE
        /\ \E blind \in BOOLEAN :
              /\ blind => MayBeBlind(hook[h].kind, kept)
              /\ hook' = [hook EXCEPT ![h].pc = "inside", ![h].blind = blind,
                                      ![h].had = IF kept = NoState \/ blind THEN NewState ELSE kept,
                                      ![h].seen = IF blind THEN {} ELSE seen]
        /\ zone' = IF stale THEN 0 ELSE zone
        /\ covered' = (covered /\ ~stale)
        /\ UNCHANGED <<seen, sweep, shown, forgotten>>

\* A prompt goes on to its recall, unless it is too short for one.
Leave(h) ==
    /\ holder' = NoState
    /\ \/ hook' = [hook EXCEPT ![h] = NotRunning]
       \/ /\ hook[h].kind = "prompt"
          /\ hook' = [hook EXCEPT ![h] = [NotRunning EXCEPT !.pc = "waiting", !.kind = "recall"]]

Inside(h, kind) == hook[h].pc = "inside" /\ hook[h].kind = kind

Save(h, s) == state' = s /\ stale' = FALSE

\* A hook that could not read the counters begins them anew, and overwrites them.
Update(h) ==
    /\ \E kind \in Updates :
          /\ Inside(h, kind)
          /\ Save(h, Updated(kind, hook[h].had))
          /\ covered' = ((covered /\ ~hook[h].blind) \/ (kind = "save" /\ hook[h].had.turn > 0))
    /\ zone' = IF hook[h].blind THEN 0 ELSE zone
    /\ Leave(h)
    /\ UNCHANGED <<seen, sweep, shown, forgotten>>

\* The check is recorded before the answer is given, so a hook that is killed in
\* between has used up the reminder of its zone.
Remind(h) ==
    LET s == hook[h].had
    IN  /\ Inside(h, "stop") /\ AtCheckpoint(s) /\ ~SavedSince(s)
        /\ Save(h, [s EXCEPT !.reminded = s.turn])
        /\ zone' = ZoneOf(s.turn) /\ covered' = FALSE
        /\ Leave(h)
        /\ UNCHANGED <<seen, sweep, shown, forgotten>>

PassCheckpoint(h) ==
    LET s == hook[h].had
    IN  /\ Inside(h, "stop") /\ AtCheckpoint(s) /\ SavedSince(s)
        /\ Save(h, [s EXCEPT !.reminded = s.turn])
        /\ covered' = FALSE
        /\ Leave(h)
        /\ UNCHANGED <<seen, sweep, zone, shown, forgotten>>

PassStop(h) ==
    /\ Inside(h, "stop") /\ ~AtCheckpoint(hook[h].had)
    /\ Leave(h)
    /\ UNCHANGED <<state, stale, seen, sweep, zone, covered, shown, forgotten>>

\* The files are removed one by one.
End(h) ==
    /\ Inside(h, "end")
    /\ state' = NoState /\ stale' = FALSE /\ zone' = 0 /\ covered' = FALSE
    /\ \/ seen' = {} /\ shown' = {} /\ forgotten' = {}
       \/ UNCHANGED <<seen, shown, forgotten>>
    /\ Leave(h)
    /\ UNCHANGED sweep

\* As if only the fresh hits were written back.
RecordedAlone(had, fresh) == fresh

Recorded(had, fresh) == had \union fresh

\* What a failing file costs: the fresh hits if the write fails, and what was
\* recorded before if the file could not be read and is written over.
Failed(h, fresh, lands) == (IF lands THEN {} ELSE fresh) \union (IF hook[h].blind /\ lands THEN seen ELSE {})

\* run_recall under the lock: the hits found that were not shown, up to a limit,
\* are recorded, as far as the file can be written, and shown whether it can or
\* not, unless the process is killed in between.
Recall(h) ==
    /\ Inside(h, "recall")
    /\ \E fresh \in SUBSET (Hits \ hook[h].seen), lands \in BOOLEAN :
          /\ seen' = IF lands THEN Recorded(hook[h].seen, fresh) ELSE seen
          /\ shown' \in {shown, shown \union fresh}
          /\ forgotten' = (forgotten \union Failed(h, fresh, lands)) \ seen'
    /\ Leave(h)
    /\ UNCHANGED <<state, stale, sweep, zone, covered>>

\* The wait of a second is over, the counters cannot be written, the file is none
\* that a hook will open, or the supervisor kills the process.
GiveUp(h) ==
    /\ hook[h].pc \in {"waiting", "inside"}
    /\ \/ hook' = [hook EXCEPT ![h] = NotRunning]
       \/ /\ hook[h].kind = "prompt"
          /\ hook' = [hook EXCEPT ![h] = [NotRunning EXCEPT !.pc = "waiting", !.kind = "recall"]]
    /\ holder' = IF holder = h THEN NoState ELSE holder
    /\ UNCHANGED <<state, stale, seen, sweep, zone, covered, shown, forgotten>>
-----------------------------------------------------------------------------
(* Others, and time, which passes while no hook is inside.                  *)

StateAges ==
    /\ holder = NoState /\ state # NoState /\ ~stale
    /\ stale' = TRUE
    /\ UNCHANGED <<state, seen, holder, hook, sweep, zone, covered, shown, forgotten>>

HitExpires ==
    /\ holder = NoState
    /\ \E hit \in seen \union forgotten :
          seen' = seen \ {hit} /\ shown' = shown \ {hit} /\ forgotten' = forgotten \ {hit}
    /\ UNCHANGED <<state, stale, holder, hook, sweep, zone, covered>>

\* Another session's seen-store takes this one's file for that of a dead session.
Reap ==
    /\ seen # {}
    /\ seen' = {} /\ shown' = {} /\ forgotten' = {}
    /\ UNCHANGED <<state, stale, holder, hook, sweep, zone, covered>>

SweepFinds ==
    /\ stale /\ ~sweep
    /\ sweep' = TRUE
    /\ UNCHANGED <<state, stale, seen, holder, hook, zone, covered, shown, forgotten>>

\* It unlinks by name: what is there by now goes.
SweepUnlinks ==
    /\ sweep
    /\ sweep' = FALSE
    /\ state' = NoState /\ stale' = FALSE /\ zone' = 0 /\ covered' = FALSE
    /\ hook' = [h \in Hooks |-> [hook[h] EXCEPT !.reaped = @ \/ hook[h].pc = "inside"]]
    /\ UNCHANGED <<seen, holder, shown, forgotten>>

SessionInit ==
    /\ state = NoState /\ stale = FALSE /\ seen = {} /\ holder = NoState
    /\ hook = [h \in Hooks |-> NotRunning] /\ sweep = FALSE
    /\ zone = 0 /\ covered = FALSE /\ shown = {} /\ forgotten = {}

SessionNext ==
    \/ \E h \in Hooks :
          \/ \E kind \in Kinds : Call(h, kind)
          \/ Enter(h) \/ Update(h) \/ Remind(h) \/ PassCheckpoint(h) \/ PassStop(h)
          \/ End(h) \/ Recall(h) \/ GiveUp(h)
    \/ StateAges \/ HitExpires \/ Reap \/ SweepFinds \/ SweepUnlinks

SessionSpec == SessionInit /\ [][SessionNext]_sessionVars
-----------------------------------------------------------------------------
\* A hook writes the counters back over exactly what it read, although hooks are
\* killed and time out: no hook's update is lost to another's.  Only a collector
\* may have taken the file away meanwhile, and a file that could not be read is
\* begun anew.
NoUpdateLost ==
    [][\A h \in Hooks :
          hook[h].pc = "inside" /\ hook'[h].pc # "inside" /\ state' # state
          => \/ state = hook[h].had
             \/ state = NoState /\ (hook[h].had = NewState \/ hook[h].reaped)
             \/ hook[h].blind /\ hook[h].had = NewState]_sessionVars

\* The agent is asked to save at most once in a zone of turns, whichever stop
\* hooks repeat or race, and never when a save was recorded since the last
\* checkpoint, in the same turn or a later one.  (The zones begin anew when a
\* collector takes the file or a hook begins it anew.)
ReminderIsDue ==
    [][\A h \in Hooks :
          hook[h].kind = "stop" /\ hook'[h].pc = "out" /\ zone' # zone /\ zone' > 0
          => zone < zone' /\ ~covered]_sessionVars

\* A hit that has been shown is kept from being shown again until it expires, the
\* session ends, or another session's store takes the file away: the record of
\* what was shown is behind only by what a file that could not be read or written
\* has taken from it.
ShownIsRecorded == shown \subseteq seen \union forgotten
=============================================================================
