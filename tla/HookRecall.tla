------------------------------ MODULE HookRecall ------------------------------
(* What the Claude Code hooks inject into one session, and how they keep from *)
(* repeating it: every hook is a short process that loads a store of what was *)
(* shown (recall_dedup.py), picks what is not in it, writes the store back    *)
(* and prints what it picked at its end (pre_action_recall.py, __main__.py).  *)
(*                                                                            *)
(* A hook goes through one or two stores, of which two hooks at once may use  *)
(* the same; no lock is taken. What is found and how it ranks is left open;   *)
(* routes that are never de-duplicated are left out.                          *)
EXTENDS Naturals, FiniteSets

LOCAL INSTANCE Sequences

CONSTANTS
    HookRuns,  \* hook processes alive at once
    Plan,      \* the stores a kind of hook goes through, in order
    Offer,     \* what there is to show: pairs of a store and an item
    Kept,      \* stores whose window outlasts the sweep of idle files
    Cap,       \* the most a hook shows of one store
    MaxRuns    \* bound on hooks started

Stores == {p[1] : p \in Offer}

ASSUME CapIsPositive == Cap \in Nat \ {0}
ASSUME PlansAreSequences == \A kind \in DOMAIN Plan : Plan[kind] \in Seq(Stores)

VARIABLES
    seenFile,   \* the stores on disk: pairs that have not expired
    run,        \* a hook: [plan, had, loaded, block]
    started,
    onScreen,   \* pairs printed within their window
    wasted,     \* recorded by a hook that died before it printed
    unrecorded, \* pairs whose record another hook, a sweep or an error took
    repeated    \* pairs printed again with no such excuse

recallVars == <<seenFile, run, started, onScreen, wasted, unrecorded, repeated>>

Of(S, store) == {p \in S : p[1] = store}
OutOfRun == [plan |-> <<>>, had |-> {}, loaded |-> FALSE, block |-> {}]

RecallInit ==
    /\ seenFile = {} /\ run = [h \in HookRuns |-> OutOfRun] /\ started = 0
    /\ onScreen = {} /\ wasted = {} /\ unrecorded = {} /\ repeated = {}

Busy(h) == run[h].plan # <<>> \/ run[h].block # {}
Store(h) == Head(run[h].plan)

StartHook(h, kind) ==
    /\ ~Busy(h) /\ started < MaxRuns
    /\ started' = started + 1
    /\ run' = [run EXCEPT ![h].plan = Plan[kind]]
    /\ UNCHANGED <<seenFile, onScreen, wasted, unrecorded, repeated>>

LoadSeen(h) ==
    /\ run[h].plan # <<>> /\ ~run[h].loaded
    /\ run' = [run EXCEPT ![h].loaded = TRUE, ![h].had = Of(seenFile, Store(h))]
    /\ UNCHANGED <<seenFile, started, onScreen, wasted, unrecorded, repeated>>

(* Nothing matched, or this part of the hook is switched off or failed.      *)
PassStore(h) ==
    /\ run[h].plan # <<>>
    /\ run' = [run EXCEPT ![h].plan = Tail(@), ![h].loaded = FALSE, ![h].had = {}]
    /\ UNCHANGED <<seenFile, started, onScreen, wasted, unrecorded, repeated>>

(* What a hook records, of what it may still show.                           *)
Picks(h) == {S \in SUBSET (Of(Offer, Store(h)) \ run[h].had) : Cardinality(S) <= Cap}

(* As if a hook wrote only its own picks.                                    *)
AltWritten(had, picks) == picks
Written(had, picks) == had \cup picks

(* The picks join what was loaded, and the whole is written; an error loses  *)
(* the write and nothing else. Whatever others wrote since is gone.          *)
RecordSeen(h) ==
    /\ run[h].loaded
    /\ \E picks \in Picks(h), lands \in BOOLEAN :
          /\ seenFile' = IF lands THEN (seenFile \ Of(seenFile, Store(h))) \cup Written(run[h].had, picks)
                                  ELSE seenFile
          /\ unrecorded' = unrecorded \cup (Of(seenFile, Store(h)) \ run[h].had)
                                 \cup (IF lands THEN {} ELSE picks)
          /\ run' = [run EXCEPT ![h].plan = Tail(@), ![h].loaded = FALSE, ![h].had = {},
                                ![h].block = @ \cup picks]
    /\ UNCHANGED <<started, onScreen, wasted, repeated>>

(* The hook ends: what it picked is printed.                                 *)
Speak(h) ==
    /\ run[h].plan = <<>> /\ run[h].block # {}
    /\ repeated' = repeated \cup ((run[h].block \cap onScreen) \ unrecorded)
    /\ onScreen' = onScreen \cup run[h].block
    /\ run' = [run EXCEPT ![h] = OutOfRun]
    /\ UNCHANGED <<seenFile, started, wasted, unrecorded>>

(* The deadline of the shell hook, or a crash: nothing is printed.           *)
KillHook(h) ==
    /\ Busy(h)
    /\ wasted' = wasted \cup run[h].block
    /\ run' = [run EXCEPT ![h] = OutOfRun]
    /\ UNCHANGED <<seenFile, started, onScreen, unrecorded, repeated>>

(* The window of a pair ends.                                                *)
ExpirePair(p) ==
    /\ p \in seenFile \cup onScreen
    /\ \A h \in HookRuns : p \notin run[h].block
    /\ seenFile' = seenFile \ {p} /\ onScreen' = onScreen \ {p}
    /\ wasted' = wasted \ {p} /\ unrecorded' = unrecorded \ {p}
    /\ run' = [h \in HookRuns |-> [run[h] EXCEPT !.had = @ \ {p}]]
    /\ UNCHANGED <<started, repeated>>

(* An hour without a write, and any other session removes the file.          *)
SweepSeen(store) ==
    /\ store \in Kept /\ Of(seenFile, store) # {}
    /\ seenFile' = seenFile \ Of(seenFile, store)
    /\ unrecorded' = unrecorded \cup Of(seenFile, store)
    /\ UNCHANGED <<run, started, onScreen, wasted, repeated>>

RecallNext ==
    \/ \E h \in HookRuns :
          \/ \E kind \in DOMAIN Plan : StartHook(h, kind)
          \/ LoadSeen(h) \/ PassStore(h) \/ RecordSeen(h) \/ Speak(h) \/ KillHook(h)
    \/ \E p \in Offer : ExpirePair(p)
    \/ \E store \in Kept : SweepSeen(store)

RecallSpec == RecallInit /\ [][RecallNext]_recallVars

---------------------------------------------------------------------------
(* Nothing is shown twice within its window unless its record was really     *)
(* lost: another hook of the session worked on the store at the same time, a *)
(* sweep took the idle file, or the write failed (recall_dedup.py:100).      *)
ShownOnce == repeated = {}

(* And nothing is held back for nothing: whatever a store suppresses was     *)
(* shown, is about to be, or its hook died before it could                   *)
(* (pre_action_recall.py:150).                                               *)
SuppressedWasShown ==
    seenFile \subseteq onScreen \cup wasted \cup UNION {run[h].block : h \in HookRuns}

RecallIsOnce == ShownOnce /\ SuppressedWasShown
=============================================================================
