--------------------------- MODULE MCServerAndHooks ---------------------------
(* What several server processes and the hooks of a session do to the same   *)
(* files, one part at a time: the parts share no variable.                   *)
EXTENDS Refactor, ModelMigration, SaveTrigger, RosterCache, ActionRules, HookRecall,
        CodexSession, TLC

CONSTANTS a, b, c, x, y, z, s1, s2

VARIABLE subject

(* Three paths, two of them taken, with links by path both ways.             *)
MCBase == a :> x @@ b :> y @@ c :> z
MCVaults == {a :> {b} @@ b :> {a} @@ c :> None, a :> {} @@ b :> {a, b} @@ c :> None}

(* Two models of one width, and one of another.                              *)
MCWidth == "bge" :> 1 @@ "e5" :> 1 @@ "mpnet" :> 2

MCPlan == "prompt" :> <<"route", "memory">> @@ "agent" :> <<"tool", "route">>
MCOffer == {<<"route", 1>>, <<"memory", 1>>, <<"tool", 1>>, <<"tool", 2>>}

Alike == Permutations({s1, s2})

AnyInit ==
    /\ subject \in {"refactor", "migration", "reminders", "rules", "roster", "action rules",
                    "recall", "codex session"}
    /\ Init /\ MigrationInit /\ TriggerInit /\ RosterInit /\ RulesInit
    /\ RecallInit /\ SessionInit
    /\ subject # "refactor" => disk[a].links = {b}
    /\ subject # "migration" => pages = {}
    /\ subject # "roster" => layers = 1
    /\ subject # "action rules" => catalog = {"d"}

(* The save reminders without the prompt hook, then the other way round.     *)
TriggerPart ==
    /\ TriggerNext
    /\ subject = "reminders" => rules' = rules
    /\ subject = "rules" => stop' = stop /\ later' = later /\ saved' = saved

AnyNext ==
    /\ UNCHANGED subject
    /\ \/ /\ subject = "refactor" /\ Next
          /\ UNCHANGED <<mvars, triggerVars, rosterVars, ruleVars, recallVars, sessionVars>>
       \/ /\ subject = "migration" /\ MigrationNext
          /\ UNCHANGED <<vars, triggerVars, rosterVars, ruleVars, recallVars, sessionVars>>
       \/ /\ subject \in {"reminders", "rules"} /\ TriggerPart
          /\ UNCHANGED <<vars, mvars, rosterVars, ruleVars, recallVars, sessionVars>>
       \/ /\ subject = "roster" /\ RosterNext
          /\ UNCHANGED <<vars, mvars, triggerVars, ruleVars, recallVars, sessionVars>>
       \/ /\ subject = "action rules" /\ RulesNext
          /\ UNCHANGED <<vars, mvars, triggerVars, rosterVars, recallVars, sessionVars>>
       \/ /\ subject = "recall" /\ RecallNext
          /\ UNCHANGED <<vars, mvars, triggerVars, rosterVars, ruleVars, sessionVars>>
       \/ /\ subject = "codex session" /\ SessionNext
          /\ UNCHANGED <<vars, mvars, triggerVars, rosterVars, ruleVars, recallVars>>

EverySpec ==
    AnyInit /\ [][AnyNext]_<<subject, vars, mvars, triggerVars, rosterVars, ruleVars, recallVars, sessionVars>>
=============================================================================
