----------------------------- MODULE SaveTrigger -----------------------------
(* The shell hooks that remind one Claude Code session of its memory: the    *)
(* status line exports the context percentage (sb-export.sh), the Stop hook  *)
(* asks for a save at its thresholds, PreCompact blocks one compaction, the  *)
(* prompt hook relays it and repeats the rules (brain-save-trigger.sh), a    *)
(* save leaves a marker (brain-save-marker.sh), and SessionStart, which also *)
(* follows a compaction, wipes most of it (brain-session-start.sh:177).      *)
(*                                                                           *)
(* Everything the hooks know is in small files of the session; each write is *)
(* an action. Percentages are levels; what the reminders say is left out.    *)
EXTENDS Naturals, Integers, FiniteSetsExt

CONSTANTS
    Thresholds,  \* SYMBIOSIS_BRAIN_SAVE_THRESHOLDS
    Guard,       \* SYMBIOSIS_BRAIN_SAVE_DELTA_GUARD
    Zones,       \* SYMBIOSIS_BRAIN_RULES_ZONES
    EveryTurns,  \* SYMBIOSIS_BRAIN_RULES_TURN_INTERVAL
    Full,        \* the highest level
    MaxCompacts, \* bound on compactions
    MaxInstead   \* bound on the routes in place of the rules, one after another

ASSUME ThresholdsAreLevels == Thresholds \subseteq 1 .. Full /\ Thresholds # {}

(* The shipped values keep it: 10 points of growth, the first threshold 25.  *)
ASSUME GuardBelowSoft == Guard \in Nat /\ \A t \in Thresholds : Guard <= t

ASSUME LevelsAreNumbers == Full \in Nat /\ MaxCompacts \in Nat /\ EveryTurns \in Nat \ {0}

VARIABLES
    context,   \* the level the context really has
    export,     \* brain-context-state: [pct, new], pct = -1 for "unknown" and no file
    pct,       \* brain-context-pct, -1 for no file
    line,      \* the status line: [at, pct]
    stop,      \* the Stop hook: [at, pct]
    said,      \* brain-triggered: the thresholds announced
    saved,     \* brain-last-save-pct, 0 for no file
    later,     \* brain-save-later exists
    blocked,   \* brain-precompact and brain-precompact-pending exist: [once, pending]
    rules,     \* brain-rules-shown and -turn-counter: [shown, turns]
    session,   \* "open", or "compacted": SessionStart is to come
    compacts,  \* compactions so far
    told,      \* the thresholds really reached when a reminder came, in this epoch
    savedAt,   \* the level of the last save in this epoch, -1 for none
    without,   \* prompts since the rules were last shown in full
    instead,   \* of these, turns of the rules on which a route took their place
    strayed    \* a level exported after a compaction was read before it

triggerVars == <<context, export, pct, line, stop, said, saved, later, blocked, rules, session,
                 compacts, told, savedAt, without, instead, strayed>>
bridge == <<export, pct, line>>
flags == <<said, saved, later, blocked, rules>>
ghosts == <<told, savedAt, without, instead, strayed>>

NoReading == [pct |-> -1, new |-> FALSE]
NotReading == [at |-> "off", pct |-> -1]
NoRules == [shown |-> {}, turns |-> 0]
NoBlock == [once |-> FALSE, pending |-> FALSE]
SoftZone == Min(Thresholds)
TopZone == Max(Thresholds)
CrossedBy(p, S) == {z \in S : z <= p}

TriggerInit ==
    /\ context = 0 /\ export = NoReading /\ pct = -1
    /\ line = NotReading /\ stop = NotReading
    /\ said = {} /\ saved = 0 /\ later = FALSE /\ blocked = NoBlock /\ rules = NoRules
    /\ session = "open" /\ compacts = 0
    /\ told = {} /\ savedAt = -1 /\ without = 0 /\ instead = 0 /\ strayed = FALSE

(* A turn adds to the context.                                               *)
GrowContext ==
    /\ session = "open"
    /\ context < Full
    /\ context' = context + 1
    /\ UNCHANGED <<bridge, stop, flags, session, compacts, ghosts>>

(* The export: invalidate, percentage, state. The harness may cancel it.      *)
StartLine ==
    /\ line.at = "off"
    /\ line' = [at |-> "pct", pct |-> context]
    /\ export' = NoReading
    /\ UNCHANGED <<context, pct, stop, flags, session, compacts, ghosts>>

ExportPct ==
    /\ line.at = "pct"
    /\ pct' = line.pct
    /\ line' = [line EXCEPT !.at = "export"]
    /\ UNCHANGED <<context, export, stop, flags, session, compacts, ghosts>>

ExportState ==
    /\ line.at = "export"
    /\ export' = [pct |-> line.pct, new |-> TRUE]
    /\ line' = NotReading
    /\ UNCHANGED <<context, pct, stop, flags, session, compacts, ghosts>>

CancelLine ==
    /\ line.at # "off"
    /\ line' = NotReading
    /\ UNCHANGED <<context, export, pct, stop, flags, session, compacts, ghosts>>

(* A minute passes: the state is not used any more.                           *)
OutdateState ==
    /\ export.new
    /\ export' = [export EXCEPT !.new = FALSE]
    /\ UNCHANGED <<context, pct, line, stop, flags, session, compacts, ghosts>>

(* sb_context_read: a fresh state whose level the older file has too.         *)
ReadLevel(st, p) == IF st.new /\ st.pct = p THEN p ELSE -1

(* brain_write succeeded, brain-save-marker.sh ran.                          *)
MarkSave ==
    /\ session = "open" /\ stop.at = "off"
    /\ saved' = IF ReadLevel(export, pct) # -1 THEN ReadLevel(export, pct) ELSE saved
    /\ savedAt' = IF ReadLevel(export, pct) # -1 THEN context ELSE savedAt
    /\ UNCHANGED <<context, bridge, stop, said, later, blocked, rules, session, compacts,
                   told, without, instead, strayed>>

AskLater ==
    /\ session = "open" /\ stop.at = "off"
    /\ later' = TRUE
    /\ UNCHANGED <<context, bridge, stop, said, saved, blocked, rules, session, compacts, ghosts>>

(* Stop: the state, then the older file, then the verdict.                    *)
ReadState ==
    /\ session = "open" /\ stop.at = "off"
    /\ export.new
    /\ stop' = [at |-> "read", pct |-> export.pct]
    /\ UNCHANGED <<context, bridge, flags, session, compacts, ghosts>>

ReadPct ==
    /\ stop.at = "read"
    /\ stop' = IF pct = stop.pct THEN [stop EXCEPT !.at = "judge"] ELSE NotReading
    /\ UNCHANGED <<context, bridge, flags, session, compacts, ghosts>>

(* The highest crossed threshold not announced yet; below the top one it     *)
(* needs growth since the last save, and the lowest may be put off once. The *)
(* reminder announces every threshold crossed.                               *)
Due(p) == CrossedBy(p, Thresholds) \ said
Guarded(t, p) == t < TopZone /\ p - saved < Guard
PutOff(t) == t = SoftZone /\ t < TopZone /\ later

JudgeStop ==
    /\ stop.at = "judge"
    /\ stop' = NotReading
    /\ LET p == stop.pct
           speaks == Due(p) # {} /\ ~Guarded(Max(Due(p)), p) /\ ~PutOff(Max(Due(p)))
       IN /\ said' = IF speaks THEN said \cup CrossedBy(p, Thresholds) ELSE said
          /\ told' = IF speaks THEN told \cup CrossedBy(context, Thresholds) ELSE told
          /\ later' = (later /\ ~(Due(p) # {} /\ ~Guarded(Max(Due(p)), p) /\ PutOff(Max(Due(p)))))
    /\ UNCHANGED <<context, bridge, saved, blocked, rules, session, compacts,
                   savedAt, without, instead, strayed>>

(* PreCompact blocks once; the next time it lets the compaction happen.      *)
BlockCompact ==
    /\ session = "open" /\ stop.at = "off" /\ context > 0
    /\ ~blocked.once
    /\ blocked' = [once |-> TRUE, pending |-> TRUE]
    /\ UNCHANGED <<context, bridge, stop, said, saved, later, rules, session, compacts, ghosts>>

Compact ==
    /\ session = "open" /\ stop.at = "off"
    /\ blocked.once
    /\ compacts < MaxCompacts
    /\ compacts' = compacts + 1
    /\ context' = 0
    /\ session' = "compacted"
    /\ UNCHANGED <<bridge, stop, flags, ghosts>>

(* SessionStart keeps the save marker, and only that.                        *)
AltStartSession ==
    /\ session = "compacted"
    /\ session' = "open"
    /\ later' = FALSE /\ blocked' = NoBlock /\ rules' = NoRules
    /\ export' = NoReading /\ pct' = -1
    /\ told' = {} /\ savedAt' = -1
    /\ strayed' = (strayed \/ line.at # "off")
    /\ UNCHANGED <<context, line, stop, said, saved, compacts, without, instead>>

StartSession ==
    /\ session = "compacted"
    /\ session' = "open"
    /\ said' = {} /\ later' = FALSE /\ blocked' = NoBlock /\ rules' = NoRules
    /\ export' = NoReading /\ pct' = -1
    /\ told' = {} /\ savedAt' = -1
    /\ strayed' = (strayed \/ line.at # "off")
    /\ UNCHANGED <<context, line, stop, saved, compacts, without, instead>>

(* The prompt hook: relays a blocked compaction, and shows the rules in full *)
(* at the first turn, when a zone is crossed and every EveryTurns turns. Of  *)
(* these turns it counts too the ones on which a route has carried the tools *)
(* part already, which the rules then leave out. Zone 0 marks the first turn.*)
AskPrompt ==
    /\ session = "open" /\ stop.at = "off"
    /\ LET p == ReadLevel(export, pct)
           turns == rules.turns + 1
           first == rules.shown = {} /\ turns <= 1
           crossed == CrossedBy(p, Zones)
           hit == crossed # {} /\ Max(crossed) \notin rules.shown
           cadence == first \/ hit \/ turns >= EveryTurns
       IN /\ rules' = [shown |-> rules.shown \cup (IF first THEN {0} ELSE {})
                                             \cup (IF hit THEN crossed ELSE {}),
                       turns |-> IF cadence THEN 0 ELSE turns]
          /\ \/ cadence /\ without' = 0 /\ instead' = 0
             \/ cadence /\ instead < MaxInstead /\ without' = without + 1 /\ instead' = instead + 1
             \/ ~cadence /\ without' = without + 1 /\ instead' = instead
    /\ blocked' = [blocked EXCEPT !.pending = FALSE]
    /\ UNCHANGED <<context, bridge, stop, said, saved, later, session, compacts,
                   told, savedAt, strayed>>

TriggerNext ==
    \/ GrowContext \/ StartLine \/ ExportPct \/ ExportState \/ CancelLine \/ OutdateState
    \/ MarkSave \/ AskLater \/ ReadState \/ ReadPct \/ JudgeStop
    \/ BlockCompact \/ Compact \/ StartSession \/ AskPrompt

TriggerSpec == TriggerInit /\ [][TriggerNext]_triggerVars

---------------------------------------------------------------------------
(* A Stop that knows the level and finds a threshold reached that no         *)
(* reminder of this epoch has spoken of stays silent only for a reason the   *)
(* user can see: little was added since a save, of this epoch or the one     *)
(* whose marker the compaction kept, or the reminder was put off. Only a     *)
(* status line that carries a level across a compaction can spoil it         *)
(* (brain-save-trigger.sh:68, brain-session-start.sh:177).                   *)
Unspoken == CrossedBy(context, Thresholds) \ told
Excused(t) ==
    \/ t < TopZone /\ savedAt # -1 /\ context - savedAt < Guard
    \/ t < TopZone /\ compacts > 0 /\ context - saved < Guard
    \/ t < TopZone /\ t = SoftZone /\ later

SilenceIsEarned ==
    [][ (stop.at = "judge" /\ stop'.at = "off" /\ stop.pct = context /\ ~strayed
         /\ Unspoken # {} /\ told' = told) => Excused(Max(Unspoken)) ]_triggerVars

(* However often the session is compacted, the rules come back before        *)
(* EveryTurns prompts have gone without them, or a route in place of their   *)
(* tools part has: the next time is then EveryTurns prompts off at most      *)
(* (brain-save-trigger.sh:295).                                              *)
RulesComeBack == without < EveryTurns * (instead + 1)

SessionIsReminded == SilenceIsEarned /\ []RulesComeBack
=============================================================================
