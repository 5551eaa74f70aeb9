----------------------------- MODULE ActionRules -----------------------------
(* The compiled action rules (action_rules.py): a sync or a setup compiles   *)
(* the catalog, shipped and the vault's own, into a table and one            *)
(* fast-reject file per tool, validating each rule with the grep it finds;   *)
(* before every command the hook greps the fast-reject file and then looks   *)
(* for the rule in the table (brain-pre-action-trigger.sh:58).               *)
(*                                                                           *)
(* Rules of one tool; what they match is left out, so is meta.json. Every    *)
(* write replaces a file atomically, and a failed one is logged and skipped. *)
EXTENDS Naturals, FiniteSets

CONSTANTS
    Rules,      \* action routes that are well formed and pass their vectors
    OwnRules,   \* those of the vault's tool-routing override
    Compilers,  \* processes that compile
    NotThere,
    MaxChoices, \* bound on edits of the override
    MaxCompiles \* bound on compiles

ASSUME OwnAreRules == OwnRules \subseteq Rules
ASSUME NotThereIsApart == \A S \in SUBSET Rules : S # NotThere

VARIABLES
    catalog,   \* the rules the merged catalog has
    table,     \* action-rules.tsv: its rules, or NotThere
    fast,      \* action-rules.bash.re: its rules
    compile,   \* a compiler: [at, rules, grep]
    asking,    \* the hook before a command only one rule matches: [at, rule]
    choices, compiles,
    steady,    \* the rules every catalog so far has had
    given,     \* the rules that have stood in both files
    excused,   \* the rules a compile could not read or validate
    silent     \* the rules a command passed without

compiled == <<table, fast>>
ruleGhosts == <<steady, given, excused, silent>>
ruleVars == <<catalog, compiled, compile, asking, choices, compiles, ruleGhosts>>

NoCompile == [at |-> "off", rules |-> {}, grep |-> TRUE]
NoCommand == [at |-> "off", rule |-> NotThere]

RulesInit ==
    /\ catalog \in SUBSET Rules /\ Rules \ OwnRules \subseteq catalog
    /\ table = NotThere /\ fast = {}
    /\ compile = [c \in Compilers |-> NoCompile] /\ asking = NoCommand
    /\ choices = 0 /\ compiles = 0
    /\ steady = catalog /\ given = {} /\ excused = {} /\ silent = {}

(* The user adds, changes or switches off rules in the override.             *)
ChooseRules ==
    /\ choices < MaxChoices
    /\ choices' = choices + 1
    /\ catalog' \in SUBSET Rules
    /\ steady' = steady \cap catalog'
    /\ UNCHANGED <<compiled, compile, asking, compiles, given, excused, silent>>

(* An override that is caught half written counts as absent.                 *)
Merged(readable) == IF readable THEN catalog ELSE Rules \ OwnRules

(* Every rule is tried with grep, if there is one; a call may time out.      *)
Validated(S, grep, late) == IF grep THEN S \ late ELSE {}

StartCompile(c) ==
    /\ compile[c].at = "off"
    /\ compiles < MaxCompiles
    /\ compiles' = compiles + 1
    /\ \E grep \in BOOLEAN, readable \in BOOLEAN, late \in {{}} \cup {{r} : r \in catalog} :
          LET valid == Validated(Merged(readable), grep, late)
          IN /\ compile' = [compile EXCEPT ![c] = [at |-> "check", rules |-> valid, grep |-> grep]]
             /\ excused' = IF grep THEN excused \cup (catalog \ valid) ELSE excused
    /\ UNCHANGED <<catalog, compiled, asking, choices, steady, given, silent>>

(* Without a grep nothing was validated, so a table there is kept.           *)
AltKeepTable(c) ==
    /\ compile[c].at = "check"
    /\ compile' = [compile EXCEPT ![c].at = "table"]
    /\ UNCHANGED <<catalog, compiled, asking, choices, compiles, ruleGhosts>>

KeepTable(c) ==
    /\ compile[c].at = "check"
    /\ compile' = IF ~compile[c].grep /\ table # NotThere
                  THEN [compile EXCEPT ![c] = NoCompile]
                  ELSE [compile EXCEPT ![c].at = "table"]
    /\ UNCHANGED <<catalog, compiled, asking, choices, compiles, ruleGhosts>>

(* A compile without a grep that found no table yet overwrites both.         *)
Blind == \E c \in Compilers : compile[c].at \in {"table", "fast"} /\ ~compile[c].grep
Stand(t, f) == IF t = NotThere THEN {} ELSE t \cap f
Give == given' = given \cup (IF Blind THEN {} ELSE Stand(table', fast'))

WriteTable(c) ==
    /\ compile[c].at = "table"
    /\ compile' = [compile EXCEPT ![c].at = "fast"]
    /\ table' \in {table, compile[c].rules}
    /\ fast' = fast
    /\ Give
    /\ UNCHANGED <<catalog, asking, choices, compiles, steady, excused, silent>>

WriteFast(c) ==
    /\ compile[c].at = "fast"
    /\ fast' \in {fast, compile[c].rules}
    /\ table' = table
    /\ Give
    /\ compile' = [compile EXCEPT ![c] = NoCompile]
    /\ UNCHANGED <<catalog, asking, choices, compiles, steady, excused, silent>>

KillCompile(c) ==
    /\ compile[c].at # "off"
    /\ compile' = [compile EXCEPT ![c] = NoCompile]
    /\ UNCHANGED <<catalog, compiled, asking, choices, compiles, ruleGhosts>>

(* The hook: no table or an empty fast-reject file, or no match in it, is    *)
(* the end of it; otherwise the row is looked for.                           *)
CheckFast(r) ==
    /\ asking.at = "off"
    /\ IF table # NotThere /\ r \in fast
       THEN asking' = [at |-> "find", rule |-> r] /\ UNCHANGED silent
       ELSE UNCHANGED asking /\ silent' = silent \cup ({r} \cap given)
    /\ UNCHANGED <<catalog, compiled, compile, choices, compiles, steady, given, excused>>

FindRow ==
    /\ asking.at = "find"
    /\ silent' = silent \cup (({asking.rule} \cap given) \ table)
    /\ asking' = NoCommand
    /\ UNCHANGED <<catalog, compiled, compile, choices, compiles, steady, given, excused>>

RulesNext ==
    \/ ChooseRules \/ FindRow
    \/ \E r \in Rules : CheckFast(r)
    \/ \E c \in Compilers : StartCompile(c) \/ KeepTable(c) \/ WriteTable(c) \/ WriteFast(c) \/ KillCompile(c)

RulesSpec == RulesInit /\ [][RulesNext]_ruleVars

---------------------------------------------------------------------------
(* A rule the user has wanted all along keeps warning from the moment it     *)
(* first stands in both files, no blind compile being under way, whatever    *)
(* compiles overlap, are killed, fail to write a file or find no grep        *)
(* (action_rules.py:408), and between the hook's two reads; unless some      *)
(* compile could not read the override or validate that very rule.           *)
RulesStand == silent \cap steady \subseteq excused
=============================================================================
