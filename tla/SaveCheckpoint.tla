--------------------------- MODULE SaveCheckpoint ---------------------------
(***************************************************************************)
(* When the OpenCode plugin reminds the agent to save                      *)
(* (opencode/src/save-checkpoint.ts, called by server-hooks.ts): a list of *)
(* todos that becomes complete is a milestone, and the next useful tool    *)
(* result carries one reminder unless a write to the vault that began at   *)
(* or after the last activity has been confirmed.                          *)
(*                                                                         *)
(* One session.  Tool results, todo events and prompts come in any order,  *)
(* twice or not at all; a generation is the one the coordinator counts,    *)
(* which goes on by itself when the session has moved, and starts over     *)
(* when it has forgotten the session.                                      *)
(***************************************************************************)
EXTENDS Naturals, FiniteSets

CONSTANTS
    Calls,           \* call ids of writes to the vault
    MaxActivity,     \* bound: activities
    MaxTurns,        \* bound: generations
    NoRevision

ASSUME SaveAssumption == {MaxActivity, MaxTurns} \subseteq Nat /\ NoRevision \notin Nat

VARIABLES
    checkpoint,      \* the session's SessionCheckpoint
    turn,            \* the generation the coordinator gives
    used,            \* call ids seen (seenCalls of the hooks)
    saves,           \* history: how far along the confirmed writes began
    due,             \* history: a milestone without a reminder in this generation
    moved,           \* history: activities after which a generation came without another
    forgotten        \* history: the coordinator has lost count

saveVars == <<checkpoint, turn, used, saves, due, moved, forgotten>>

NoWrite == [gen |-> NoRevision, rev |-> NoRevision]
New == [rev |-> 0, gen |-> 0, saved |-> NoRevision, saw |-> FALSE, mile |-> NoRevision,
        delivered |-> FALSE, writes |-> [c \in Calls |-> NoWrite]]

Bind(c, g) ==
    IF g <= c.gen THEN c
    ELSE [c EXCEPT !.gen = g, !.saw = FALSE, !.mile = NoRevision, !.saved = NoRevision, !.delivered = FALSE]

Active(c, g) == [Bind(c, g) EXCEPT !.rev = @ + 1]

\* chat.message and command.execute.before: begin counts the generation.
Prompt ==
    /\ turn < MaxTurns /\ checkpoint.rev < MaxActivity
    /\ turn' = turn + 1
    /\ checkpoint' = Active(checkpoint, turn + 1)
    /\ due' = (due /\ turn + 1 <= checkpoint.gen)
    /\ UNCHANGED <<used, saves, moved, forgotten>>

\* Whatever first finds the session in another place or scope, a prepare say, has
\* the generation counted, and the checkpoint does not hear of it.
Move ==
    /\ turn < MaxTurns
    /\ turn' = turn + 1
    /\ UNCHANGED <<checkpoint, used, saves, due, moved, forgotten>>

\* tool.execute.before for a tool that is an activity.
Activity ==
    /\ checkpoint.rev < MaxActivity
    /\ checkpoint' = Active(checkpoint, turn)
    /\ due' = (due /\ turn <= checkpoint.gen)
    /\ UNCHANGED <<turn, used, saves, moved, forgotten>>

\* tool.execute.before of a write, which is an activity too if it has a query;
\* a call id is taken once.
BrainStart(c) ==
    /\ c \notin used /\ checkpoint.rev < MaxActivity
    /\ used' = used \union {c}
    /\ \E active \in BOOLEAN :
       LET k == IF active THEN Active(checkpoint, turn) ELSE Bind(checkpoint, turn)
       IN  /\ checkpoint' = [k EXCEPT !.writes[c] = [gen |-> turn, rev |-> k.rev]]
           /\ moved' = IF turn > checkpoint.gen /\ ~active THEN moved \union {k.rev} ELSE moved
    /\ due' = (due /\ turn <= checkpoint.gen)
    /\ UNCHANGED <<turn, saves, forgotten>>

\* As if the last confirmation counted, and not the one of the latest write.
ConfirmLast(k, w) ==
    IF k.mile # NoRevision /\ k.mile <= w.rev
    THEN [k EXCEPT !.saved = w.rev, !.mile = NoRevision, !.delivered = FALSE]
    ELSE [k EXCEPT !.saved = w.rev]

Confirm(k, w) ==
    LET saved == IF k.saved = NoRevision \/ w.rev > k.saved THEN w.rev ELSE k.saved
    IN  IF k.mile # NoRevision /\ k.mile <= saved
        THEN [k EXCEPT !.saved = saved, !.mile = NoRevision, !.delivered = FALSE]
        ELSE [k EXCEPT !.saved = saved]

\* tool.execute.after of a write; it may have failed, or be of an older generation.
BrainResult(c) ==
    LET w == checkpoint.writes[c]
        k == [checkpoint EXCEPT !.writes[c] = NoWrite]
    IN  /\ w # NoWrite
        /\ \E confirmed \in BOOLEAN :
              /\ checkpoint' = IF confirmed /\ w.gen = k.gen THEN Confirm(k, w) ELSE k
              /\ saves' = IF confirmed THEN saves \union {w.rev} ELSE saves
        /\ UNCHANGED <<turn, used, due, moved, forgotten>>

\* A report of the todos: some are open, all are done, or there are none.  The
\* tool and an event report the same list.
Todo(open, done) ==
    LET k == checkpoint
        complete == k.saw /\ done /\ ~open
        fresh == k.saved # NoRevision /\ k.saved >= k.rev
    IN  /\ checkpoint' = [k EXCEPT !.saw = open,
                             !.mile = IF ~complete THEN @ ELSE IF fresh THEN NoRevision ELSE k.rev,
                             !.delivered = @ /\ ~complete]
        /\ due' = (due \/ complete)
        /\ UNCHANGED <<turn, used, saves, moved, forgotten>>

ReminderPending == checkpoint.mile # NoRevision /\ ~checkpoint.delivered

\* appendPending on the successful result of any other tool.
Remind ==
    /\ ReminderPending
    /\ checkpoint' = [checkpoint EXCEPT !.delivered = TRUE]
    /\ due' = FALSE
    /\ UNCHANGED <<turn, used, saves, moved, forgotten>>

\* The coordinator pushes the idle session out, or the hooks this checkpoint.
Forget ==
    /\ turn > 0 /\ ~forgotten
    /\ turn' = 0 /\ forgotten' = TRUE
    /\ UNCHANGED <<checkpoint, used, saves, due, moved>>

ForgetCheckpoint ==
    /\ checkpoint' = New /\ saves' = {} /\ due' = FALSE /\ moved' = {}
    /\ UNCHANGED <<turn, used, forgotten>>

SaveInit ==
    /\ checkpoint = New /\ turn = 0 /\ used = {}
    /\ saves = {} /\ due = FALSE /\ moved = {} /\ forgotten = FALSE

SaveNext ==
    \/ Prompt \/ Move \/ Activity \/ Remind \/ Forget \/ ForgetCheckpoint
    \/ \E c \in Calls : BrainStart(c) \/ BrainResult(c)
    \/ \E open, done \in BOOLEAN : Todo(open, done)

SaveSpec == SaveInit /\ [][SaveNext]_saveVars
-----------------------------------------------------------------------------
\* A reminder is for a milestone that has had none, and that no confirmed write
\* covers: one that began at or after the last activity before it, whatever the
\* order in which results, todo reports and prompts come.  Two things spoil that:
\* the session moved after that activity, and a write, which is none, was the first
\* to tell the checkpoint of the new generation, which drops the save it knew
\* (line 123); or the coordinator has forgotten the session and counts its
\* generations anew, and the checkpoint takes every save for an old one.
RemindersAreDue ==
    [][ReminderPending /\ checkpoint'.delivered
          => /\ due
             /\ forgotten \/ checkpoint.mile \in moved \/ \A rev \in saves : rev < checkpoint.mile]_saveVars
=============================================================================
