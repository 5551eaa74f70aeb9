----------------------------- MODULE HookProofs ------------------------------
(***************************************************************************)
(* The hooks.  The files those of Claude Code share without a lock: the    *)
(* roster and its key (RosterCache), the compiled rules (ActionRules),     *)
(* what was shown (HookRecall).  For any number of hooks, rules, layers    *)
(* and items, an older answer passes under a newer key only after          *)
(* overlapping polls, a rule that stands keeps warning, and recall neither *)
(* repeats nor holds back without a cause.                                 *)
(*                                                                         *)
(* The reminders to save: those of the OpenCode plugin (SaveCheckpoint)    *)
(* and those of a Claude Code session (SaveTrigger).  For any number of    *)
(* writes, any thresholds and any zones, a reminder is due, and silence    *)
(* has a reason the user can see.                                          *)
(***************************************************************************)
EXTENDS RosterCache, ActionRules, HookRecall, SaveCheckpoint, SaveTrigger, Sequences,
        WellFoundedInduction, TLAPS

-----------------------------------------------------------------------------
(* The compiled rules.  A rule is held when it has stood in both files, the  *)
(* user still wants it and no compile missed it: then it stands, every       *)
(* compile under way that may write has it, and none is blind.               *)

Held == (given \cap steady) \ excused

Compiling == [at : {"off", "check", "table", "fast"}, rules : SUBSET Rules, grep : BOOLEAN]

RulesTyped ==
    /\ compile \in [Compilers -> Compiling]
    /\ table \in (SUBSET Rules) \cup {NotThere}

HeldStand == Held # {} => table # NotThere /\ Held \subseteq table \cap fast /\ ~Blind

RulesInv ==
    /\ RulesTyped
    /\ catalog \subseteq Rules
    /\ steady \subseteq catalog
    /\ \A c \in Compilers :
          compile[c].at # "off" /\ compile[c].grep => steady \ excused \subseteq compile[c].rules
    /\ HeldStand
    /\ RulesStand

LEMMA RestIsTyped == NoCompile \in Compiling /\ NoCompile.at = "off"
  BY DEF NoCompile, Compiling

LEMMA RulesInitially == RulesInit => RulesInv
<1> SUFFICES ASSUME RulesInit PROVE RulesInv
  OBVIOUS
<1>1. RulesTyped /\ \A c \in Compilers : compile[c].at = "off"
  BY RestIsTyped DEF RulesInit, RulesTyped
<1>2. HeldStand
  BY DEF RulesInit, HeldStand, Held
<1> QED BY <1>1, <1>2 DEF RulesInit, RulesInv, RulesStand

(* A compile that goes on to a write keeps its rules; one that ends is off.  *)
LEMMA Moving ==
  ASSUME RulesTyped, NEW c \in Compilers, NEW to \in {"table", "fast"},
         compile' = [compile EXCEPT ![c] = NoCompile] \/ compile' = [compile EXCEPT ![c].at = to]
  PROVE  /\ compile' \in [Compilers -> Compiling]
         /\ \A k \in Compilers \ {c} : compile'[k] = compile[k]
         /\ \/ compile'[c].at = "off"
            \/ compile'[c].rules = compile[c].rules /\ compile'[c].grep = compile[c].grep
<1>1. compile \in [Compilers -> Compiling] /\ compile[c] \in Compiling
  BY DEF RulesTyped
<1>2. CASE compile' = [compile EXCEPT ![c] = NoCompile]
  BY <1>1, <1>2, RestIsTyped
<1>3. CASE compile' = [compile EXCEPT ![c].at = to]
  BY <1>1, <1>3 DEF Compiling
<1> QED BY <1>2, <1>3

LEMMA ChoosingKeeps == ASSUME RulesInv, ChooseRules PROVE RulesInv'
  BY DEF ChooseRules, compiled, RulesInv, RulesTyped, HeldStand, Held, Blind, RulesStand

(* A compile that can validate has every wanted rule, or excuses it.         *)
LEMMA StartingKeeps == ASSUME RulesInv, NEW c \in Compilers, StartCompile(c) PROVE RulesInv'
<1>1. PICK grep \in BOOLEAN, valid \in SUBSET Rules :
         /\ compile' = [compile EXCEPT ![c] = [at |-> "check", rules |-> valid, grep |-> grep]]
         /\ excused' = IF grep THEN excused \cup (catalog \ valid) ELSE excused
  <2>1. PICK grep \in BOOLEAN, readable \in BOOLEAN, late \in {{}} \cup {{r} : r \in catalog} :
           /\ compile' = [compile EXCEPT ![c] = [at |-> "check",
                            rules |-> Validated(Merged(readable), grep, late), grep |-> grep]]
           /\ excused' = IF grep THEN excused \cup (catalog \ Validated(Merged(readable), grep, late))
                         ELSE excused
    BY DEF StartCompile
  <2>2. Validated(Merged(readable), grep, late) \subseteq Rules
    BY OwnAreRules DEF Validated, Merged, RulesInv
  <2> QED BY <2>1, <2>2
<1>2. UNCHANGED <<catalog, table, fast, asking, steady, given, silent>>
  BY DEF StartCompile, compiled
<1>3. /\ RulesTyped'
      /\ compile'[c].at = "check" /\ compile'[c].rules = valid /\ compile'[c].grep = grep
      /\ \A k \in Compilers \ {c} : compile'[k] = compile[k]
  BY <1>1, <1>2 DEF RulesInv, RulesTyped, Compiling
<1>4. Blind' => Blind
  BY <1>3 DEF Blind
<1>5. HeldStand'
  BY <1>1, <1>2, <1>4 DEF RulesInv, HeldStand, Held
<1>6. \A k \in Compilers : compile'[k].at # "off" /\ compile'[k].grep
                              => steady' \ excused' \subseteq compile'[k].rules
  BY <1>1, <1>2, <1>3 DEF RulesInv
<1> QED BY <1>1, <1>2, <1>3, <1>5, <1>6 DEF RulesInv, RulesStand

(* A compile without a grep goes on only where there is no table, and so no  *)
(* rule that is held.                                                        *)
LEMMA KeepingKeeps ==
  ASSUME RulesInv, NEW c \in Compilers, KeepTable(c) \/ KillCompile(c) PROVE RulesInv'
<1>1. UNCHANGED <<catalog, table, fast, steady, given, excused, silent>>
  BY DEF KeepTable, KillCompile, compiled, ruleGhosts
<1>2. \/ compile' = [compile EXCEPT ![c] = NoCompile]
      \/ /\ compile' = [compile EXCEPT ![c].at = "table"]
         /\ compile[c].at = "check" /\ (compile[c].grep \/ table = NotThere)
  BY DEF KeepTable, KillCompile, RulesInv, RulesTyped
<1>3. /\ RulesTyped' /\ \A k \in Compilers \ {c} : compile'[k] = compile[k]
      /\ \/ compile'[c].at = "off"
         \/ /\ compile'[c].rules = compile[c].rules /\ compile'[c].grep = compile[c].grep
            /\ compile[c].at = "check" /\ (compile[c].grep \/ table = NotThere)
  <2>1. RulesTyped
    BY DEF RulesInv
  <2>2. CASE compile' = [compile EXCEPT ![c] = NoCompile]
    <3>1. compile'[c].at = "off"
      BY <2>1, <2>2, RestIsTyped DEF RulesTyped
    <3> QED BY <1>1, <2>1, <2>2, <3>1, Moving DEF RulesTyped
  <2>3. CASE compile' = [compile EXCEPT ![c].at = "table"]
    <3>1. compile'[c].at = "table"
      BY <2>1, <2>3 DEF RulesTyped, Compiling
    <3>2. "table" \in {"table", "fast"}
      OBVIOUS
    <3> QED BY <1>1, <1>2, <2>1, <2>3, <3>1, <3>2, Moving, RestIsTyped DEF RulesTyped
  <2> QED BY <1>2, <2>2, <2>3
<1>4. Blind' => Blind \/ table = NotThere
  BY <1>3 DEF Blind
<1>5. HeldStand'
  BY <1>1, <1>4 DEF RulesInv, HeldStand, Held
<1> QED BY <1>1, <1>3, <1>5 DEF RulesInv, RulesStand

(* What a compile writes has all that is held.                               *)
LEMMA WritingKeeps ==
  ASSUME RulesInv, NEW c \in Compilers, WriteTable(c) \/ WriteFast(c) PROVE RulesInv'
<1>1. /\ compile[c].at \in {"table", "fast"} /\ Give
      /\ table' \in {table, compile[c].rules} /\ fast' \in {fast, compile[c].rules}
      /\ UNCHANGED <<catalog, steady, excused, silent>>
      /\ compile' = [compile EXCEPT ![c].at = "fast"] \/ compile' = [compile EXCEPT ![c] = NoCompile]
  BY DEF WriteTable, WriteFast
<1>2. /\ RulesTyped' /\ \A k \in Compilers \ {c} : compile'[k] = compile[k]
      /\ \/ compile'[c].at = "off"
         \/ compile'[c].rules = compile[c].rules /\ compile'[c].grep = compile[c].grep
  <2>1. compile[c].rules \in SUBSET Rules
    BY DEF RulesInv, RulesTyped, Compiling
  <2> QED BY <1>1, <2>1, Moving DEF RulesInv, RulesTyped
<1>3. Blind' => Blind
  BY <1>1, <1>2 DEF Blind
<1>4. compile[c].rules \in SUBSET Rules /\ compile[c].rules # NotThere
  BY OwnAreRules, NotThereIsApart DEF RulesInv, RulesTyped, Compiling
<1>5. HeldStand'
  <2>1. CASE Blind
    <3>1. given' = given /\ Held = {}
      BY <1>1, <2>1 DEF Give, RulesInv, HeldStand
    <3> QED BY <1>1, <3>1 DEF HeldStand, Held
  <2>2. CASE ~Blind
    <3>1. compile[c].grep /\ steady \ excused \subseteq compile[c].rules
      BY <1>1, <2>2 DEF Blind, RulesInv, RulesTyped
    <3>2. given' = given \cup Stand(table', fast')
      BY <1>1, <2>2 DEF Give
    <3>3. ASSUME NEW r \in Held'
          PROVE  table' # NotThere /\ r \in table' /\ r \in fast'
      <4>1. CASE r \in Stand(table', fast')
        BY <4>1 DEF Stand
      <4>2. CASE r \in given
        <5>1. r \in Held /\ r \in steady \ excused
          BY <1>1, <3>3, <4>2 DEF Held
        <5> QED BY <1>1, <1>4, <3>1, <5>1 DEF RulesInv, HeldStand
      <4> QED BY <3>2, <3>3, <4>1, <4>2 DEF Held
    <3> QED BY <1>3, <2>2, <3>3 DEF HeldStand
  <2> QED BY <2>1, <2>2
<1> QED BY <1>1, <1>2, <1>5 DEF RulesInv, RulesStand

LEMMA AskingKeeps ==
  ASSUME RulesInv, FindRow \/ \E r \in Rules : CheckFast(r) PROVE RulesInv'
<1>1. UNCHANGED <<catalog, table, fast, compile, steady, given, excused>>
  BY DEF FindRow, CheckFast, compiled
<1>2. silent' \cap Held \subseteq silent
  BY DEF FindRow, CheckFast, RulesInv, HeldStand
<1>3. silent' \subseteq silent \cup given
  BY DEF FindRow, CheckFast
<1>4. RulesStand'
  BY <1>1, <1>2, <1>3 DEF RulesInv, RulesStand, Held
<1> QED BY <1>1, <1>4 DEF RulesInv, RulesTyped, HeldStand, Held, Blind

LEMMA RulesInvKept == RulesInv /\ [RulesNext]_ruleVars => RulesInv'
<1>1. ASSUME RulesInv, UNCHANGED ruleVars PROVE RulesInv'
  BY <1>1 DEF ruleVars, compiled, ruleGhosts, RulesInv, RulesTyped, HeldStand, Held, Blind, RulesStand
<1> QED BY <1>1, ChoosingKeeps, StartingKeeps, KeepingKeeps, WritingKeeps, AskingKeeps DEF RulesNext

(* A rule that stands keeps warning (action_rules.py:408).                   *)
THEOREM RulesKeepWarning == RulesSpec => []RulesStand
<1>1. RulesInv => RulesStand
  BY DEF RulesInv
<1> QED BY <1>1, RulesInitially, RulesInvKept, PTL DEF RulesSpec

-----------------------------------------------------------------------------
(* The roster.  A poll that no other overlapped is the newest while it is    *)
(* published, so what it writes cannot be older than what it joins.          *)

Answers == [poll : Nat, under : Layers]
Keys == [of : Layers, poll : Nat]
Stages == {"idle", "missed", "compare", "adopt", "publish", "roster", "key"}
Starters == [at : Stages, key : Keys \cup {NoFile}, answer : Answers \cup {NoFile},
             seen : Layers \cup {NoFile}]

RosterTyped ==
    /\ layers \in Layers /\ polls \in Nat
    /\ roster \in Answers \cup {NoFile} /\ keyFile \in Keys \cup {NoFile}
    /\ starter \in [Sessions -> Starters]

Checking(s) == starter[s].at \in {"compare", "adopt"}

(* What a session carries through its stages, and that no poll is from the   *)
(* future.                                                                   *)
Carries(s) ==
    /\ Checking(s) => starter[s].key \in Keys /\ starter[s].key.poll <= polls
    /\ s \in Publishing => starter[s].answer \in Answers /\ starter[s].answer.poll <= polls
    /\ starter[s].at \in {"roster", "key"} => starter[s].seen \in Layers

PollsPassed ==
    /\ roster # NoFile => roster.poll <= polls
    /\ keyFile # NoFile => keyFile.poll <= polls

Alone(s) == s \in Publishing /\ starter[s].answer.poll \notin crossed

Newest(s) ==
    Alone(s) => /\ starter[s].answer.poll = polls
                /\ \A t \in Publishing : t = s
                /\ starter[s].at = "key" /\ roster # NoFile => roster.poll = polls

Fits(answer, key) ==
    \/ answer.poll >= key.poll
    \/ answer.under = key.of
    \/ {answer.poll, key.poll} \cap crossed # {}

RosterInv ==
    /\ RosterTyped
    /\ PollsPassed
    /\ \A s \in Sessions : Carries(s) /\ Newest(s)
    /\ roster # NoFile /\ keyFile # NoFile => Fits(roster, keyFile)
    /\ \A s \in Sessions : Checking(s) /\ roster # NoFile => Fits(roster, starter[s].key)
    /\ \A s \in Sessions : adopted[s] # NoFile => Fits(adopted[s].answer, adopted[s].key)
    /\ DOMAIN adopted = Sessions /\ adopted = [s \in Sessions |-> adopted[s]]

LEMMA RestingIsTyped == Resting \in Starters /\ Resting.at = "idle"
  BY DEF Resting, Starters, Stages

LEMMA RosterInitially == RosterInit => RosterInv
<1> SUFFICES ASSUME RosterInit PROVE RosterInv
  OBVIOUS
<1>1. RosterTyped /\ \A s \in Sessions : starter[s].at = "idle"
  BY RestingIsTyped DEF RosterInit, RosterTyped
<1>2. Publishing = {} /\ \A s \in Sessions : ~Checking(s)
  BY <1>1 DEF Publishing, Checking
<1>3. \A s \in Sessions : Carries(s) /\ Newest(s)
  BY <1>1, <1>2 DEF Carries, Newest, Alone
<1> QED BY <1>1, <1>2, <1>3 DEF RosterInit, RosterInv, PollsPassed

(* A step that leaves every stage as it is or back at rest, and the files as *)
(* they are or gone, keeps all.                                              *)
LEMMA FewerKeeps ==
  ASSUME RosterInv, RosterTyped', UNCHANGED <<polls, crossed>>,
         roster' \in {roster, NoFile}, keyFile' \in {keyFile, NoFile},
         \A s \in Sessions : starter'[s] = starter[s] \/ starter'[s].at \in {"idle", "missed"},
         adopted' = [s \in Sessions |-> adopted'[s]],
         \A s \in Sessions : adopted'[s] = adopted[s] \/ adopted'[s] = NoFile
  PROVE  RosterInv'
<1>1. PollsPassed'
  BY DEF RosterInv, PollsPassed
<1>2. Publishing' \subseteq Publishing /\ \A s \in Publishing' : starter'[s] = starter[s]
  BY DEF Publishing
<1>3. \A s \in Sessions : Carries(s)' /\ (Checking(s)' => Checking(s) /\ starter'[s] = starter[s])
  BY <1>2 DEF RosterInv, Carries, Checking
<1>4. \A s \in Sessions : Newest(s)'
  BY <1>2 DEF RosterInv, Newest, Alone
<1> QED BY <1>1, <1>3, <1>4 DEF RosterInv, Fits

LEMMA OneStarterMoves ==
  ASSUME RosterTyped, NEW s \in Sessions, NEW x \in Starters, starter' = [starter EXCEPT ![s] = x]
  PROVE  /\ starter' \in [Sessions -> Starters] /\ starter'[s] = x
         /\ \A t \in Sessions \ {s} : starter'[t] = starter[t]
  BY DEF RosterTyped

LEMMA FilesOnlyKeep ==
  ASSUME RosterInv, ChangeLayers \/ OutliveRoster \/ SweepRoster \/ UNCHANGED rosterVars
  PROVE  RosterInv'
<1>1. /\ UNCHANGED <<polls, crossed, starter, adopted>> /\ layers' \in Layers
      /\ roster' \in {roster, NoFile} /\ keyFile' \in {keyFile, NoFile}
  BY DEF ChangeLayers, OutliveRoster, SweepRoster, rosterVars, rosterFiles, RosterInv, RosterTyped
<1>2. RosterTyped'
  BY <1>1 DEF RosterInv, RosterTyped
<1>3. adopted' = [t \in Sessions |-> adopted'[t]]
  BY <1>1 DEF RosterInv
<1> QED BY <1>1, <1>2, <1>3, FewerKeeps

LEMMA ResumingKeeps ==
  ASSUME RosterInv, NEW s \in Sessions, DropOwn(s) \/ PollNothing(s) \/ BreakPublish(s)
  PROVE  RosterInv'
<1>1. /\ UNCHANGED <<layers, polls, crossed, roster, keyFile>>
      /\ starter' = starter \/ starter' = [starter EXCEPT ![s] = Resting]
      /\ adopted' = adopted \/ adopted' = [adopted EXCEPT ![s] = NoFile]
  BY DEF DropOwn, PollNothing, BreakPublish, Rest, rosterFiles
<1>2. RosterTyped /\ adopted = [t \in Sessions |-> adopted[t]]
  BY DEF RosterInv
<1>3. RosterTyped' /\ \A t \in Sessions : starter'[t] = starter[t] \/ starter'[t].at \in {"idle", "missed"}
  BY <1>1, <1>2, OneStarterMoves, RestingIsTyped DEF RosterTyped
<1>4. adopted' = [t \in Sessions |-> adopted'[t]] /\ \A t \in Sessions : adopted'[t] \in {adopted[t], NoFile}
  BY <1>1, <1>2
<1> QED BY <1>1, <1>3, <1>4, FewerKeeps

(* A check takes the key that is there, which fits the answer that is there. *)
LEMMA CheckingKeeps ==
  ASSUME RosterInv, NEW s \in Sessions, ReadKey(s) \/ CompareKey(s) PROVE RosterInv'
<1>1. RosterTyped /\ starter[s] \in Starters
  BY DEF RosterInv, RosterTyped
<1>2. UNCHANGED <<layers, polls, crossed, roster, keyFile, adopted>>
  BY DEF ReadKey, CompareKey, rosterFiles
<1>3. PICK x \in Starters :
        /\ starter' = [starter EXCEPT ![s] = x]
        /\ \/ x.at = "missed"
           \/ x.at = "compare" /\ x.key = keyFile /\ roster # NoFile /\ keyFile # NoFile
           \/ x.at = "adopt" /\ x.key = starter[s].key /\ Checking(s)
  <2>1. CASE ReadKey(s)
    <3> DEFINE x == [starter[s] EXCEPT !.key = keyFile,
                       !.at = IF roster = NoFile \/ keyFile = NoFile \/ outlived THEN "missed" ELSE "compare"]
    <3>1. x \in Starters /\ x.key = keyFile
          /\ x.at = IF roster = NoFile \/ keyFile = NoFile \/ outlived THEN "missed" ELSE "compare"
      BY <1>1 DEF Starters, Stages, RosterTyped
    <3>2. starter' = [starter EXCEPT ![s] = x]
      BY <2>1 DEF ReadKey
    <3> QED BY <3>1, <3>2
  <2>2. CASE CompareKey(s)
    <3> DEFINE x == [starter[s] EXCEPT !.at = IF layers = starter[s].key.of THEN "adopt" ELSE "missed"]
    <3>1. x \in Starters /\ x.key = starter[s].key
          /\ x.at = IF layers = starter[s].key.of THEN "adopt" ELSE "missed"
      BY <1>1 DEF Starters, Stages
    <3>2. starter' = [starter EXCEPT ![s] = x] /\ Checking(s)
      BY <2>2 DEF CompareKey, GoTo, Checking
    <3> QED BY <3>1, <3>2
  <2> QED BY <2>1, <2>2
<1>4. /\ RosterTyped' /\ starter'[s] = x
      /\ \A t \in Sessions \ {s} : starter'[t] = starter[t]
  BY <1>1, <1>2, <1>3, OneStarterMoves DEF RosterTyped
<1>5. CASE x.at = "missed"
  <2>1. adopted' = [t \in Sessions |-> adopted'[t]]
    BY <1>2 DEF RosterInv
  <2> QED BY <1>2, <1>4, <1>5, <2>1, FewerKeeps
<1>6. CASE x.at # "missed"
  <2>1. /\ Checking(s)' /\ s \notin Publishing'
        /\ x.key \in Keys /\ x.key.poll <= polls /\ (roster # NoFile => Fits(roster, x.key))
    BY <1>1, <1>3, <1>4, <1>6 DEF Checking, Publishing, RosterInv, RosterTyped, Carries, PollsPassed
  <2>2. Publishing' \subseteq Publishing /\ \A t \in Publishing' : t # s /\ starter'[t] = starter[t]
    BY <1>4, <2>1 DEF Publishing
  <2>3. \A t \in Sessions : Newest(t)'
    BY <1>2, <2>2 DEF RosterInv, Newest, Alone
  <2>4. \A t \in Sessions : Carries(t)'
    BY <1>2, <1>3, <1>4, <1>6, <2>1, <2>2 DEF RosterInv, Carries, Checking
  <2>5. \A t \in Sessions : Checking(t)' /\ roster' # NoFile => Fits(roster, starter[t].key)'
    BY <1>2, <1>4, <2>1 DEF RosterInv, Checking, Fits
  <2> QED BY <1>2, <1>4, <2>3, <2>4, <2>5 DEF RosterInv, PollsPassed, Fits
<1> QED BY <1>5, <1>6

LEMMA AdoptingKeeps == ASSUME RosterInv, NEW s \in Sessions, Adopt(s) PROVE RosterInv'
<1>1. RosterTyped /\ starter[s] \in Starters /\ adopted = [t \in Sessions |-> adopted[t]] /\ Checking(s)
  BY DEF RosterInv, RosterTyped, Adopt, Checking
<1>2. UNCHANGED <<layers, polls, crossed, roster, keyFile>>
  BY DEF Adopt, rosterFiles
<1>3. PICK x \in Starters : x.at \in {"idle", "missed"} /\ starter' = [starter EXCEPT ![s] = x]
  <2>1. [starter[s] EXCEPT !.at = "missed"] \in Starters
        /\ [starter[s] EXCEPT !.at = "missed"].at = "missed"
    BY <1>1 DEF Starters, Stages
  <2> QED BY <2>1, RestingIsTyped DEF Adopt, Rest, GoTo
<1>4. /\ RosterTyped' /\ starter'[s] = x
      /\ \A t \in Sessions \ {s} : starter'[t] = starter[t]
  BY <1>1, <1>2, <1>3, OneStarterMoves DEF RosterTyped
<1>5. \/ adopted' = adopted
      \/ /\ roster # NoFile
         /\ adopted' = [adopted EXCEPT ![s] = [answer |-> roster, key |-> starter[s].key]]
  BY DEF Adopt
<1>6. /\ adopted' = [t \in Sessions |-> adopted'[t]]
      /\ \A t \in Sessions : adopted'[t] # NoFile => Fits(adopted'[t].answer, adopted'[t].key)
  BY <1>1, <1>5 DEF RosterInv
<1>7. Publishing' \subseteq Publishing /\ \A t \in Publishing' : starter'[t] = starter[t]
  BY <1>3, <1>4 DEF Publishing
<1>8. \A t \in Sessions : Carries(t)' /\ (Checking(t)' => Checking(t) /\ starter'[t] = starter[t])
  BY <1>2, <1>3, <1>4, <1>7 DEF RosterInv, Carries, Checking
<1>9. \A t \in Sessions : Newest(t)'
  BY <1>2, <1>7 DEF RosterInv, Newest, Alone
<1> QED BY <1>2, <1>4, <1>6, <1>8, <1>9 DEF RosterInv, PollsPassed, Fits

(* A poll that begins while another is published crosses both.               *)
LEMMA PollingKeeps == ASSUME RosterInv, NEW s \in Sessions, Poll(s) PROVE RosterInv'
<1>1. RosterTyped /\ starter[s] \in Starters /\ s \notin Publishing
  BY DEF RosterInv, RosterTyped, Poll, Publishing
<1>2. UNCHANGED <<layers, roster, keyFile, adopted>> /\ polls' = polls + 1
  BY DEF Poll, rosterFiles
<1> DEFINE answer == [poll |-> polls + 1, under |-> layers]
<1>3. PICK x \in Starters : /\ x.at = "publish" /\ x.answer = answer
                            /\ starter' = [starter EXCEPT ![s] = x]
  <2> DEFINE x == [starter[s] EXCEPT !.at = "publish", !.key = NoFile, !.answer = answer]
  <2>1. answer \in Answers
    BY <1>1 DEF Answers, RosterTyped
  <2>2. x \in Starters /\ x.at = "publish" /\ x.answer = answer
    BY <1>1, <2>1 DEF Starters, Stages
  <2>3. starter' = [starter EXCEPT ![s] = x]
    BY DEF Poll
  <2> QED BY <2>2, <2>3
<1>4. /\ starter' \in [Sessions -> Starters] /\ starter'[s] = x
      /\ \A t \in Sessions \ {s} : starter'[t] = starter[t]
  BY <1>1, <1>3, OneStarterMoves
<1>5. RosterTyped' /\ answer \in Answers /\ answer.poll = polls + 1 /\ polls \in Nat
  BY <1>1, <1>2, <1>4 DEF RosterTyped, Answers
<1>6. Publishing' = Publishing \cup {s}
  BY <1>3, <1>4 DEF Publishing
<1>7. /\ crossed \subseteq crossed'
      /\ Publishing # {} => /\ polls + 1 \in crossed'
                            /\ \A t \in Publishing : starter[t].answer.poll \in crossed'
  BY DEF Poll
<1>8. \A t \in Sessions : Newest(t)'
  BY <1>1, <1>2, <1>3, <1>4, <1>5, <1>6, <1>7 DEF Newest, Alone
<1>9. PollsPassed'
  BY <1>2, <1>5 DEF RosterInv, PollsPassed, RosterTyped, Answers, Keys
<1>10. ASSUME NEW t \in Sessions PROVE Carries(t)'
  <2>1. CASE t = s
    BY <1>2, <1>3, <1>4, <1>5, <2>1 DEF Carries, Checking
  <2>2. CASE t # s
    BY <1>2, <1>4, <1>5, <1>6, <2>2 DEF RosterInv, Carries, Checking, Answers, Keys
  <2> QED BY <2>1, <2>2
<1>11. \A t \in Sessions : Checking(t)' => Checking(t) /\ starter'[t] = starter[t]
  BY <1>3, <1>4 DEF Checking
<1> QED BY <1>2, <1>5, <1>7, <1>8, <1>9, <1>10, <1>11 DEF RosterInv, Fits

(* What a publisher knows of its next stage.                                 *)
LEMMA PublisherMoves ==
  ASSUME RosterInv, NEW s \in Sessions, s \in Publishing, NEW x \in Starters,
         starter' = [starter EXCEPT ![s] = x], UNCHANGED <<layers, polls, crossed, adopted>>,
         x = Resting \/ (x.at \in {"roster", "key"} /\ x.answer = starter[s].answer /\ x.seen \in Layers)
  PROVE  /\ starter' \in [Sessions -> Starters] /\ starter'[s] = x
         /\ \A t \in Sessions \ {s} : starter'[t] = starter[t]
         /\ Publishing' \subseteq Publishing
         /\ \A t \in Publishing' : starter'[t].answer = starter[t].answer
         /\ \A t \in Sessions : Carries(t)'
         /\ \A t \in Sessions : Checking(t)' => Checking(t) /\ starter'[t] = starter[t] /\ t # s
<1>1. RosterTyped
  BY DEF RosterInv
<1>2. /\ starter' \in [Sessions -> Starters] /\ starter'[s] = x
      /\ \A t \in Sessions \ {s} : starter'[t] = starter[t]
  BY <1>1, OneStarterMoves
<1>3. x.at \in {"idle", "roster", "key"}
  BY RestingIsTyped
<1>4. Publishing' \subseteq Publishing /\ \A t \in Publishing' : starter'[t].answer = starter[t].answer
  BY <1>2, RestingIsTyped DEF Publishing
<1>5. \A t \in Sessions : Checking(t)' => Checking(t) /\ starter'[t] = starter[t] /\ t # s
  BY <1>2, <1>3 DEF Checking
<1>6. \A t \in Sessions : Carries(t)'
  <2>1. ASSUME NEW t \in Sessions, t # s PROVE Carries(t)'
    BY <1>2, <1>4, <1>5, <2>1 DEF RosterInv, Carries
  <2>2. Carries(s)'
    BY <1>2, <1>4, <1>5, RestingIsTyped DEF RosterInv, Carries
  <2> QED BY <2>1, <2>2
<1> QED BY <1>2, <1>4, <1>5, <1>6

LEMMA PublishOwnKeeps == ASSUME RosterInv, NEW s \in Sessions, PublishOwn(s) PROVE RosterInv'
<1>1. /\ starter[s].at = "publish" /\ s \in Publishing /\ RosterTyped
      /\ UNCHANGED <<layers, polls, crossed, roster, keyFile, adopted>>
  BY DEF PublishOwn, Publishing, rosterFiles, RosterInv
<1>2. PICK x \in Starters : /\ x.at = "roster" /\ x.answer = starter[s].answer /\ x.seen \in Layers
                            /\ starter' = [starter EXCEPT ![s] = x]
  <2> DEFINE x == [starter[s] EXCEPT !.seen = layers, !.at = "roster"]
  <2>1. starter[s] \in Starters /\ layers \in Layers
    BY <1>1 DEF RosterTyped
  <2>2. x \in Starters /\ x.at = "roster" /\ x.answer = starter[s].answer /\ x.seen \in Layers
    BY <2>1 DEF Starters, Stages
  <2>3. starter' = [starter EXCEPT ![s] = x]
    BY DEF PublishOwn
  <2> QED BY <2>2, <2>3
<1>3. /\ starter' \in [Sessions -> Starters] /\ starter'[s] = x
      /\ \A t \in Sessions \ {s} : starter'[t] = starter[t]
      /\ Publishing' \subseteq Publishing
      /\ \A t \in Publishing' : starter'[t].answer = starter[t].answer
      /\ \A t \in Sessions : Carries(t)'
      /\ \A t \in Sessions : Checking(t)' => Checking(t) /\ starter'[t] = starter[t] /\ t # s
  BY <1>1, <1>2, PublisherMoves
<1>4. \A t \in Sessions : Newest(t)'
  BY <1>1, <1>2, <1>3 DEF RosterInv, Newest, Alone
<1> QED BY <1>1, <1>3, <1>4 DEF RosterInv, RosterTyped, PollsPassed, Fits

(* The answer first: alone, it is the newest there is.                       *)
LEMMA PublishRosterKeeps ==
  ASSUME RosterInv, NEW s \in Sessions, PublishShared(s), starter[s].at = "roster" PROVE RosterInv'
<1>1. /\ s \in Publishing /\ RosterTyped /\ starter[s].seen \in Layers
      /\ starter[s].answer \in Answers /\ starter[s].answer.poll <= polls /\ Newest(s)
      /\ UNCHANGED <<layers, polls, crossed, keyFile, adopted>> /\ roster' = starter[s].answer
  BY DEF PublishShared, WriteRoster, Publishing, RosterInv, Carries
<1>2. PICK x \in Starters : /\ x.at = "key" /\ x.answer = starter[s].answer /\ x.seen \in Layers
                            /\ starter' = [starter EXCEPT ![s] = x]
  <2> DEFINE x == [starter[s] EXCEPT !.at = "key"]
  <2>1. starter[s] \in Starters
    BY <1>1 DEF RosterTyped
  <2>2. x \in Starters /\ x.at = "key" /\ x.answer = starter[s].answer /\ x.seen \in Layers
    BY <1>1, <2>1 DEF Starters, Stages
  <2>3. starter' = [starter EXCEPT ![s] = x]
    BY DEF PublishShared, GoTo
  <2> QED BY <2>2, <2>3
<1>3. /\ starter' \in [Sessions -> Starters] /\ starter'[s] = x
      /\ \A t \in Sessions \ {s} : starter'[t] = starter[t]
      /\ Publishing' \subseteq Publishing
      /\ \A t \in Publishing' : starter'[t].answer = starter[t].answer
      /\ \A t \in Sessions : Carries(t)'
      /\ \A t \in Sessions : Checking(t)' => Checking(t) /\ starter'[t] = starter[t] /\ t # s
  BY <1>1, <1>2, PublisherMoves
<1>4. RosterTyped' /\ PollsPassed'
  BY <1>1, <1>3 DEF RosterInv, RosterTyped, PollsPassed
<1>5. ASSUME NEW t \in Sessions PROVE Newest(t)'
  <2>1. CASE t = s
    BY <1>1, <1>2, <1>3, <2>1 DEF Newest, Alone
  <2>2. CASE t # s
    <3>1. ~Alone(t)
      BY <1>1, <2>2 DEF RosterInv, Newest
    <3> QED BY <1>1, <1>3, <3>1 DEF Newest, Alone
  <2> QED BY <2>1, <2>2
<1>6. ASSUME NEW key \in Keys, key.poll <= polls PROVE Fits(roster, key)'
  <2>1. CASE Alone(s)
    BY <1>1, <1>6, <2>1 DEF Fits, Newest
  <2>2. CASE ~Alone(s)
    BY <1>1, <2>2 DEF Fits, Alone
  <2> QED BY <2>1, <2>2
<1>7. keyFile' # NoFile => Fits(roster, keyFile)'
  BY <1>1, <1>6 DEF RosterInv, RosterTyped, PollsPassed, Fits
<1>8. \A t \in Sessions : Checking(t)' => Fits(roster, starter[t].key)'
  BY <1>1, <1>3, <1>6 DEF RosterInv, Carries, Fits
<1> QED BY <1>1, <1>3, <1>4, <1>5, <1>7, <1>8 DEF RosterInv, Fits

(* Then the key: alone, it joins the answer of its own poll.                 *)
LEMMA PublishKeyKeeps ==
  ASSUME RosterInv, NEW s \in Sessions, PublishShared(s), starter[s].at = "key" PROVE RosterInv'
<1>1. /\ s \in Publishing /\ RosterTyped /\ starter[s].seen \in Layers
      /\ starter[s].answer \in Answers /\ starter[s].answer.poll <= polls /\ Newest(s)
      /\ UNCHANGED <<layers, polls, crossed, roster, adopted>>
      /\ keyFile' = [of |-> starter[s].seen, poll |-> starter[s].answer.poll]
      /\ starter' = [starter EXCEPT ![s] = Resting]
  BY DEF PublishShared, WriteKey, Rest, Publishing, RosterInv, Carries
<1>2. /\ starter' \in [Sessions -> Starters] /\ starter'[s] = Resting
      /\ \A t \in Sessions \ {s} : starter'[t] = starter[t]
      /\ Publishing' \subseteq Publishing
      /\ \A t \in Publishing' : starter'[t].answer = starter[t].answer
      /\ \A t \in Sessions : Carries(t)'
      /\ \A t \in Sessions : Checking(t)' => Checking(t) /\ starter'[t] = starter[t] /\ t # s
  BY <1>1, RestingIsTyped, PublisherMoves
<1>3. keyFile' \in Keys /\ keyFile'.poll = starter[s].answer.poll
  BY <1>1 DEF Keys, Answers
<1>4. RosterTyped' /\ PollsPassed'
  BY <1>1, <1>2, <1>3 DEF RosterInv, RosterTyped, PollsPassed
<1>5. \A t \in Sessions : Newest(t)'
  BY <1>1, <1>2, RestingIsTyped DEF RosterInv, Newest, Alone
<1>6. roster' # NoFile => Fits(roster, keyFile)'
  <2>1. CASE Alone(s)
    BY <1>1, <1>3, <2>1 DEF Fits, Newest, RosterTyped
  <2>2. CASE ~Alone(s)
    BY <1>1, <1>3, <2>2 DEF Fits, Alone
  <2> QED BY <2>1, <2>2
<1> QED BY <1>1, <1>2, <1>4, <1>5, <1>6 DEF RosterInv, Fits

LEMMA RosterInvKept == RosterInv /\ [RosterNext]_rosterVars => RosterInv'
<1>1. ASSUME RosterInv, NEW s \in Sessions, PublishShared(s) PROVE RosterInv'
  BY <1>1, PublishRosterKeeps, PublishKeyKeeps DEF PublishShared
<1> QED BY <1>1, FilesOnlyKeep, ResumingKeeps, CheckingKeeps, AdoptingKeeps, PollingKeeps,
           PublishOwnKeeps DEF RosterNext

(* An older roster passes under a newer key only after overlapping polls     *)
(* (mcp_roster.py:289).                                                      *)
THEOREM AdoptedRosterBelongs == RosterSpec => []RosterBelongs
<1>1. RosterInv => RosterBelongs
  BY DEF RosterInv, RosterBelongs, Fits
<1> QED BY <1>1, RosterInitially, RosterInvKept, PTL DEF RosterSpec

-----------------------------------------------------------------------------
(* What was shown.  A pair that is on the screen or in a block is recorded,  *)
(* or its record was taken; one that two hooks are to show, or one shows     *)
(* again, was taken.                                                         *)

HookStates == [plan : Seq(Stores), had : SUBSET Offer, loaded : BOOLEAN, block : SUBSET Offer]

RecallTyped == run \in [HookRuns -> HookStates] /\ seenFile \subseteq Offer

AboutToShow == UNION {run[h].block : h \in HookRuns}

RecallInv ==
    /\ RecallTyped
    /\ onScreen \cup AboutToShow \subseteq seenFile \cup unrecorded
    /\ \A h \in HookRuns : run[h].block \cap onScreen \subseteq unrecorded
    /\ \A g, h \in HookRuns : g # h => run[g].block \cap run[h].block \subseteq unrecorded
    /\ \A h \in HookRuns : run[h].had \subseteq onScreen \cup wasted \cup AboutToShow
    /\ RecallIsOnce

LEMMA RecallInitially == RecallInit => RecallInv
<1> SUFFICES ASSUME RecallInit PROVE RecallInv
  OBVIOUS
<1>1. OutOfRun \in HookStates /\ OutOfRun.block = {} /\ OutOfRun.had = {}
  BY DEF OutOfRun, HookStates
<1>2. RecallTyped /\ \A h \in HookRuns : run[h].block = {} /\ run[h].had = {}
  BY <1>1 DEF RecallInit, RecallTyped
<1> QED BY <1>2 DEF RecallInit, RecallInv, AboutToShow, RecallIsOnce, ShownOnce, SuppressedWasShown

LEMMA OneRunChanges ==
  ASSUME RecallTyped, NEW h \in HookRuns, NEW r \in HookStates, run' = [run EXCEPT ![h] = r]
  PROVE  /\ run' \in [HookRuns -> HookStates] /\ run'[h] = r
         /\ \A g \in HookRuns \ {h} : run'[g] = run[g]
  BY DEF RecallTyped

(* Starting, loading and passing over a store show nothing.                  *)
LEMMA QuietHooksKeep ==
  ASSUME RecallInv, NEW h \in HookRuns,
         (\E kind \in DOMAIN Plan : StartHook(h, kind)) \/ LoadSeen(h) \/ PassStore(h)
  PROVE  RecallInv'
<1>1. UNCHANGED <<seenFile, onScreen, wasted, unrecorded, repeated>>
  BY DEF StartHook, LoadSeen, PassStore
<1>2. RecallTyped /\ run[h] \in HookStates
  BY DEF RecallInv, RecallTyped
<1>3. PICK r \in HookStates :
        run' = [run EXCEPT ![h] = r] /\ r.block = run[h].block /\ r.had \subseteq run[h].had \cup seenFile
  <2>1. ASSUME NEW kind \in DOMAIN Plan, StartHook(h, kind)
        PROVE  \E r \in HookStates : /\ run' = [run EXCEPT ![h] = r] /\ r.block = run[h].block
                                      /\ r.had \subseteq run[h].had \cup seenFile
    <3> DEFINE r == [run[h] EXCEPT !.plan = Plan[kind]]
    <3>1. r \in HookStates /\ r.block = run[h].block /\ r.had = run[h].had
      BY <1>2, PlansAreSequences DEF HookStates
    <3>2. run' = [run EXCEPT ![h] = r]
      BY <2>1 DEF StartHook
    <3> QED BY <3>1, <3>2
  <2>2. ASSUME LoadSeen(h)
        PROVE  \E r \in HookStates : /\ run' = [run EXCEPT ![h] = r] /\ r.block = run[h].block
                                      /\ r.had \subseteq run[h].had \cup seenFile
    <3> DEFINE r == [run[h] EXCEPT !.loaded = TRUE, !.had = Of(seenFile, Store(h))]
    <3>1. Of(seenFile, Store(h)) \subseteq seenFile /\ seenFile \subseteq Offer
      BY <1>2 DEF Of, RecallTyped
    <3>2. r \in HookStates /\ r.block = run[h].block /\ r.had = Of(seenFile, Store(h))
      BY <1>2, <3>1 DEF HookStates
    <3>3. run' = [run EXCEPT ![h] = r]
      BY <2>2 DEF LoadSeen
    <3> QED BY <3>1, <3>2, <3>3
  <2>3. ASSUME PassStore(h)
        PROVE  \E r \in HookStates : /\ run' = [run EXCEPT ![h] = r] /\ r.block = run[h].block
                                      /\ r.had \subseteq run[h].had \cup seenFile
    <3> DEFINE r == [run[h] EXCEPT !.plan = Tail(@), !.loaded = FALSE, !.had = {}]
    <3>1. run[h].plan \in Seq(Stores) /\ run[h].plan # <<>>
      BY <1>2, <2>3 DEF HookStates, PassStore
    <3>2. Tail(run[h].plan) \in Seq(Stores)
      BY <3>1
    <3>3. r \in HookStates /\ r.block = run[h].block /\ r.had = {}
      BY <1>2, <3>2 DEF HookStates
    <3>4. run' = [run EXCEPT ![h] = r]
      BY <2>3 DEF PassStore
    <3> QED BY <3>3, <3>4
  <2> QED BY <2>1, <2>2, <2>3
<1>4. /\ run' \in [HookRuns -> HookStates] /\ run'[h] = r
      /\ \A g \in HookRuns \ {h} : run'[g] = run[g]
  BY <1>2, <1>3, OneRunChanges
<1>5. \A g \in HookRuns : run'[g].block = run[g].block
  BY <1>3, <1>4
<1>6. AboutToShow' = AboutToShow
  BY <1>5 DEF AboutToShow
<1>7. \A g \in HookRuns : run'[g].had \subseteq onScreen \cup wasted \cup AboutToShow
  BY <1>3, <1>4 DEF RecallInv, RecallIsOnce, SuppressedWasShown, AboutToShow
<1>8. RecallIsOnce'
  BY <1>1, <1>6 DEF RecallInv, RecallIsOnce, ShownOnce, SuppressedWasShown, AboutToShow
<1> QED BY <1>1, <1>4, <1>5, <1>6, <1>7, <1>8 DEF RecallInv, RecallTyped

(* A hook records its picks over what it had loaded.  Whatever another wrote *)
(* to the store in between, a pick that it is to show as well included, is   *)
(* taken by that very write.                                                 *)
LEMMA RecordingKeeps == ASSUME RecallInv, NEW h \in HookRuns, RecordSeen(h) PROVE RecallInv'
<1>1. RecallTyped /\ run[h] \in HookStates
  BY DEF RecallInv, RecallTyped
<1>2. PICK store : store = Store(h)
  OBVIOUS
<1>3. PICK picks \in Picks(h), lands \in BOOLEAN :
        /\ seenFile' = IF lands THEN (seenFile \ Of(seenFile, store)) \cup (run[h].had \cup picks)
                       ELSE seenFile
        /\ unrecorded' = unrecorded \cup (Of(seenFile, store) \ run[h].had)
                             \cup (IF lands THEN {} ELSE picks)
        /\ run' = [run EXCEPT ![h].plan = Tail(@), ![h].loaded = FALSE, ![h].had = {},
                              ![h].block = @ \cup picks]
  BY <1>2 DEF RecordSeen, Written
<1>4. picks \subseteq Offer /\ (\A p \in picks : p[1] = store) /\ picks \cap run[h].had = {}
  BY <1>2 DEF Picks, Of
<1>5. UNCHANGED <<onScreen, wasted, repeated>>
  BY DEF RecordSeen
<1>6. /\ run' \in [HookRuns -> HookStates]
      /\ run'[h].block = run[h].block \cup picks /\ run'[h].had = {}
      /\ \A g \in HookRuns \ {h} : run'[g] = run[g]
  <2> DEFINE r == [run[h] EXCEPT !.plan = Tail(@), !.loaded = FALSE, !.had = {},
                                 !.block = @ \cup picks]
  <2>1. Tail(run[h].plan) \in Seq(Stores)
    <3>1. run[h].plan \in Seq(Stores)
      BY <1>1 DEF HookStates
    <3>2. CASE run[h].plan # <<>>
      BY <3>1, <3>2
    <3>3. CASE run[h].plan = <<>>
      BY <3>3 DEF RecordSeen
    <3> QED BY <3>2, <3>3
  <2>2. r \in HookStates /\ r.block = run[h].block \cup picks /\ r.had = {}
    BY <1>1, <1>4, <2>1 DEF HookStates
  <2>3. run' = [run EXCEPT ![h] = r]
    BY <1>3
  <2> QED BY <1>1, <2>2, <2>3, OneRunChanges
<1>7. AboutToShow' = AboutToShow \cup picks
  BY <1>6 DEF AboutToShow
<1>8. \A p \in picks : p \in seenFile => p \in unrecorded'
  BY <1>3, <1>4 DEF Of
<1>9. seenFile' \cup unrecorded' = seenFile \cup unrecorded \cup picks \cup (IF lands THEN run[h].had ELSE {})
  BY <1>3 DEF Of
<1>10. \A p \in picks : p \in onScreen \cup AboutToShow => p \in unrecorded'
  BY <1>3, <1>8 DEF RecallInv
<1>11. unrecorded \subseteq unrecorded' /\ seenFile' \subseteq seenFile \cup run[h].had \cup picks
  BY <1>3
<1>12. RecallTyped'
  BY <1>1, <1>3, <1>4, <1>6 DEF RecallTyped, HookStates
<1>13. (onScreen \cup AboutToShow)' \subseteq (seenFile \cup unrecorded)'
  BY <1>5, <1>7, <1>9 DEF RecallInv
<1>14. run[h].block \subseteq AboutToShow /\ \A g \in HookRuns : run[g].block \subseteq AboutToShow
  BY DEF AboutToShow
<1>15. \A g \in HookRuns : (run[g].block \cap onScreen)' \subseteq unrecorded'
  BY <1>5, <1>6, <1>10, <1>11 DEF RecallInv
<1>16. \A f, g \in HookRuns : f # g => (run'[f].block \cap run'[g].block) \subseteq unrecorded'
  <2>1. ASSUME NEW f \in HookRuns \ {h}
        PROVE  (run'[f].block \cap run'[h].block) \subseteq unrecorded'
    BY <1>6, <1>10, <1>11, <1>14 DEF RecallInv
  <2>2. ASSUME NEW f \in HookRuns \ {h}, NEW g \in HookRuns \ {h}, f # g
        PROVE  (run'[f].block \cap run'[g].block) \subseteq unrecorded'
    BY <1>6, <1>11, <2>2 DEF RecallInv
  <2> QED BY <2>1, <2>2
<1>17. \A g \in HookRuns : run'[g].had \subseteq onScreen' \cup wasted' \cup AboutToShow'
  BY <1>5, <1>6, <1>7 DEF RecallInv
<1>18. RecallIsOnce'
  <2>1. seenFile \cup run[h].had \subseteq onScreen \cup wasted \cup AboutToShow
    BY DEF RecallInv, RecallIsOnce, SuppressedWasShown, AboutToShow
  <2>2. seenFile' \subseteq onScreen' \cup wasted' \cup AboutToShow'
    BY <1>5, <1>7, <1>11, <2>1
  <2> QED BY <1>5, <2>2 DEF RecallInv, RecallIsOnce, ShownOnce, SuppressedWasShown, AboutToShow
<1> QED BY <1>12, <1>13, <1>15, <1>16, <1>17, <1>18 DEF RecallInv

(* A hook that ends empties its block, whether it printed it or not.         *)
LEMMA OneRunEnds ==
  ASSUME RecallTyped, NEW h \in HookRuns, run' = [run EXCEPT ![h] = OutOfRun]
  PROVE  /\ run' \in [HookRuns -> HookStates]
         /\ run'[h].block = {} /\ run'[h].had = {}
         /\ \A g \in HookRuns \ {h} : run'[g] = run[g]
         /\ AboutToShow = AboutToShow' \cup run[h].block
<1>1. OutOfRun \in HookStates /\ OutOfRun.block = {} /\ OutOfRun.had = {}
  BY DEF OutOfRun, HookStates
<1>2. /\ run' \in [HookRuns -> HookStates]
      /\ run'[h].block = {} /\ run'[h].had = {}
      /\ \A g \in HookRuns \ {h} : run'[g] = run[g]
  BY <1>1, OneRunChanges
<1> QED BY <1>2 DEF AboutToShow

LEMMA SpeakingKeeps == ASSUME RecallInv, NEW h \in HookRuns, Speak(h) PROVE RecallInv'
<1>1. /\ onScreen' = onScreen \cup run[h].block
      /\ repeated' = repeated \cup ((run[h].block \cap onScreen) \ unrecorded)
      /\ UNCHANGED <<seenFile, wasted, unrecorded>>
  BY DEF Speak
<1>2. /\ run' \in [HookRuns -> HookStates]
      /\ run'[h].block = {} /\ run'[h].had = {}
      /\ \A g \in HookRuns \ {h} : run'[g] = run[g]
      /\ AboutToShow = AboutToShow' \cup run[h].block
  BY OneRunEnds DEF Speak, RecallInv
<1>3. RecallTyped'
  BY <1>1, <1>2 DEF RecallInv, RecallTyped
<1>4. (onScreen \cup AboutToShow)' = onScreen \cup AboutToShow
  BY <1>1, <1>2
<1>5. \A g \in HookRuns : (run'[g].block \cap onScreen') \subseteq unrecorded'
  BY <1>1, <1>2 DEF RecallInv
<1>6. \A f, g \in HookRuns : f # g => (run'[f].block \cap run'[g].block) \subseteq unrecorded'
  BY <1>1, <1>2 DEF RecallInv
<1>7. \A g \in HookRuns : run'[g].had \subseteq onScreen' \cup wasted' \cup AboutToShow'
  BY <1>1, <1>2, <1>4 DEF RecallInv
<1>8. repeated' = {}
  BY <1>1 DEF RecallInv, RecallIsOnce, ShownOnce
<1>9. seenFile' \subseteq onScreen' \cup wasted' \cup AboutToShow'
  BY <1>1, <1>4 DEF RecallInv, RecallIsOnce, SuppressedWasShown, AboutToShow
<1>10. RecallIsOnce'
  BY <1>8, <1>9 DEF RecallIsOnce, ShownOnce, SuppressedWasShown, AboutToShow
<1>11. (onScreen \cup AboutToShow)' \subseteq (seenFile \cup unrecorded)'
  BY <1>1, <1>4 DEF RecallInv
<1> QED BY <1>3, <1>5, <1>6, <1>7, <1>10, <1>11 DEF RecallInv

LEMMA KillingKeeps == ASSUME RecallInv, NEW h \in HookRuns, KillHook(h) PROVE RecallInv'
<1>1. /\ wasted' = wasted \cup run[h].block
      /\ UNCHANGED <<seenFile, onScreen, unrecorded, repeated>>
  BY DEF KillHook
<1>2. /\ run' \in [HookRuns -> HookStates]
      /\ run'[h].block = {} /\ run'[h].had = {}
      /\ \A g \in HookRuns \ {h} : run'[g] = run[g]
      /\ AboutToShow = AboutToShow' \cup run[h].block
  BY OneRunEnds DEF KillHook, RecallInv
<1>3. RecallTyped'
  BY <1>1, <1>2 DEF RecallInv, RecallTyped
<1>4. (onScreen \cup AboutToShow)' \subseteq (seenFile \cup unrecorded)'
  BY <1>1, <1>2 DEF RecallInv
<1>5. \A g \in HookRuns : (run'[g].block \cap onScreen') \subseteq unrecorded'
  BY <1>1, <1>2 DEF RecallInv
<1>6. \A f, g \in HookRuns : f # g => (run'[f].block \cap run'[g].block) \subseteq unrecorded'
  BY <1>1, <1>2 DEF RecallInv
<1>7. \A g \in HookRuns : run'[g].had \subseteq onScreen' \cup wasted' \cup AboutToShow'
  BY <1>1, <1>2 DEF RecallInv
<1>8. seenFile' \subseteq onScreen' \cup wasted' \cup AboutToShow'
  BY <1>1, <1>2 DEF RecallInv, RecallIsOnce, SuppressedWasShown, AboutToShow
<1>9. RecallIsOnce'
  BY <1>1, <1>8 DEF RecallInv, RecallIsOnce, ShownOnce, SuppressedWasShown, AboutToShow
<1> QED BY <1>3, <1>4, <1>5, <1>6, <1>7, <1>9 DEF RecallInv

(* The window of a pair ends only while no hook holds it to show.            *)
LEMMA ExpiringKeeps == ASSUME RecallInv, NEW p \in Offer, ExpirePair(p) PROVE RecallInv'
<1>1. /\ seenFile' = seenFile \ {p} /\ onScreen' = onScreen \ {p}
      /\ wasted' = wasted \ {p} /\ unrecorded' = unrecorded \ {p}
      /\ repeated' = repeated /\ \A g \in HookRuns : p \notin run[g].block
  BY DEF ExpirePair
<1>2. RecallTyped
  BY DEF RecallInv
<1>3. /\ run' \in [HookRuns -> HookStates]
      /\ \A g \in HookRuns : run'[g].block = run[g].block /\ run'[g].had = run[g].had \ {p}
  <2>1. ASSUME NEW g \in HookRuns
        PROVE  /\ run'[g] \in HookStates
               /\ run'[g].block = run[g].block /\ run'[g].had = run[g].had \ {p}
    <3> DEFINE r == [run[g] EXCEPT !.had = @ \ {p}]
    <3>1. run[g] \in HookStates
      BY <1>2 DEF RecallTyped
    <3>2. r \in HookStates /\ r.block = run[g].block /\ r.had = run[g].had \ {p}
      BY <3>1 DEF HookStates
    <3>3. run'[g] = r
      BY DEF ExpirePair
    <3> QED BY <3>2, <3>3
  <2>2. run' = [g \in HookRuns |-> run'[g]]
    BY DEF ExpirePair
  <2> QED BY <2>1, <2>2
<1>4. AboutToShow' = AboutToShow /\ p \notin AboutToShow
  BY <1>1, <1>3 DEF AboutToShow
<1>5. RecallTyped'
  BY <1>1, <1>2, <1>3 DEF RecallTyped
<1>6. (onScreen \cup AboutToShow)' \subseteq (seenFile \cup unrecorded)'
  BY <1>1, <1>4 DEF RecallInv
<1>7. \A g \in HookRuns : (run'[g].block \cap onScreen') \subseteq unrecorded'
  BY <1>1, <1>3 DEF RecallInv
<1>8. \A f, g \in HookRuns : f # g => (run'[f].block \cap run'[g].block) \subseteq unrecorded'
  BY <1>1, <1>3 DEF RecallInv
<1>9. \A g \in HookRuns : run'[g].had \subseteq onScreen' \cup wasted' \cup AboutToShow'
  BY <1>1, <1>3, <1>4 DEF RecallInv
<1>10. seenFile' \subseteq onScreen' \cup wasted' \cup AboutToShow'
  BY <1>1, <1>4 DEF RecallInv, RecallIsOnce, SuppressedWasShown, AboutToShow
<1>11. RecallIsOnce'
  BY <1>1, <1>10 DEF RecallInv, RecallIsOnce, ShownOnce, SuppressedWasShown, AboutToShow
<1> QED BY <1>5, <1>6, <1>7, <1>8, <1>9, <1>11 DEF RecallInv

LEMMA SweepingKeeps == ASSUME RecallInv, NEW store \in Kept, SweepSeen(store) PROVE RecallInv'
<1>1. /\ seenFile' = seenFile \ Of(seenFile, store)
      /\ unrecorded' = unrecorded \cup Of(seenFile, store)
      /\ UNCHANGED <<run, onScreen, wasted, repeated>>
  BY DEF SweepSeen
<1>2. AboutToShow' = AboutToShow
  BY <1>1 DEF AboutToShow
<1>3. seenFile' \subseteq seenFile /\ seenFile \subseteq (seenFile \cup unrecorded)'
  BY <1>1
<1>4. RecallTyped'
  BY <1>1, <1>3 DEF RecallInv, RecallTyped
<1>5. RecallIsOnce'
  BY <1>1, <1>2, <1>3 DEF RecallInv, RecallIsOnce, ShownOnce, SuppressedWasShown, AboutToShow
<1> QED BY <1>1, <1>2, <1>3, <1>4, <1>5 DEF RecallInv

LEMMA RecallInvKept == RecallInv /\ [RecallNext]_recallVars => RecallInv'
<1> SUFFICES ASSUME RecallInv, [RecallNext]_recallVars PROVE RecallInv'
  OBVIOUS
<1>1. ASSUME NEW h \in HookRuns, \/ \E kind \in DOMAIN Plan : StartHook(h, kind)
                                 \/ LoadSeen(h) \/ PassStore(h) \/ RecordSeen(h)
                                 \/ Speak(h) \/ KillHook(h)
      PROVE  RecallInv'
  BY <1>1, QuietHooksKeep, RecordingKeeps, SpeakingKeeps, KillingKeeps
<1>2. ASSUME UNCHANGED recallVars PROVE RecallInv'
  BY <1>2 DEF recallVars, RecallInv, RecallTyped, AboutToShow, RecallIsOnce, ShownOnce,
              SuppressedWasShown
<1> QED BY <1>1, <1>2, ExpiringKeeps, SweepingKeeps DEF RecallNext

(* Nothing is shown twice within its window unless its record was taken, and *)
(* whatever a store suppresses was shown, is about to be, or its hook died   *)
(* (recall_dedup.py, pre_action_recall.py), for any number of hooks, stores  *)
(* and items.                                                                *)
THEOREM RecallShowsOnce == RecallSpec => []RecallIsOnce
<1>1. RecallInv => RecallIsOnce
  BY DEF RecallInv
<1> QED BY <1>1, RecallInitially, RecallInvKept, PTL DEF RecallSpec

-----------------------------------------------------------------------------
(* The save checkpoint of the OpenCode plugin.  A pending milestone is due,  *)
(* and lies after every save; a write of an earlier generation began before  *)
(* whatever is a milestone in this one, unless this one came without another *)
(* activity.                                                                  *)

Revisions == Nat \union {NoRevision}
BrainWrites == [gen : Nat, rev : Nat] \union {NoWrite}
Checkpoints == [rev : Nat, gen : Nat, saved : Revisions, saw : BOOLEAN, mile : Revisions,
                delivered : BOOLEAN, writes : [Calls -> BrainWrites]]

Before(rev, k, M) == k.mile # NoRevision => rev < k.mile \/ k.mile \in M

WritesInOrder(k, M) ==
    \A c \in Calls :
       \/ k.writes[c] = NoWrite
       \/ /\ k.writes[c].gen \in 0 .. k.gen /\ k.writes[c].rev \in 0 .. k.rev
          /\ k.writes[c].gen # k.gen => k.writes[c].rev < k.rev \/ k.rev \in M
          /\ k.writes[c].gen # k.gen => Before(k.writes[c].rev, k, M)

SavesInOrder(k, S, M) ==
    \A rev \in S : /\ rev <= k.rev /\ Before(rev, k, M)
                   /\ rev = k.rev => (k.saved # NoRevision /\ k.saved >= rev) \/ k.rev \in M

CheckpointInv ==
    /\ checkpoint \in Checkpoints /\ turn \in Nat /\ saves \subseteq Nat
    /\ due \in BOOLEAN /\ forgotten \in BOOLEAN
    /\ ReminderPending => due
    /\ ~forgotten => /\ WritesInOrder(checkpoint, moved) /\ SavesInOrder(checkpoint, saves, moved)
                     /\ checkpoint.gen <= turn

LEMMA BindIs ==
    ASSUME NEW k \in Checkpoints, NEW g \in Nat, NEW b, b = Bind(k, g)
    PROVE  /\ b \in Checkpoints /\ b.rev = k.rev /\ b.writes = k.writes
           /\ g <= k.gen => b = k
           /\ g > k.gen => b.gen = g /\ b.mile = NoRevision
<1>1. CASE g <= k.gen
  BY <1>1 DEF Bind, Checkpoints
<1>2. CASE ~(g <= k.gen)
  <2>1. b = [k EXCEPT !.gen = g, !.saw = FALSE, !.mile = NoRevision, !.saved = NoRevision, !.delivered = FALSE]
    BY <1>2 DEF Bind
  <2>2. /\ b \in Checkpoints /\ b.rev = k.rev /\ b.writes = k.writes
        /\ b.gen = g /\ b.mile = NoRevision
    BY <2>1 DEF Checkpoints, Revisions
  <2> QED BY <1>2, <2>2
<1> QED BY <1>1, <1>2

LEMMA ActiveIs ==
    ASSUME NEW k \in Checkpoints, NEW g \in Nat, NEW a, a = Active(k, g)
    PROVE  /\ a \in Checkpoints /\ a.rev = k.rev + 1 /\ a.writes = k.writes
           /\ g <= k.gen => a.gen = k.gen /\ a.mile = k.mile /\ a.delivered = k.delivered
           /\ g > k.gen => a.gen = g /\ a.mile = NoRevision
<1>1. PICK b : b = Bind(k, g)
  OBVIOUS
<1>2. /\ b \in Checkpoints /\ b.rev = k.rev /\ b.writes = k.writes
      /\ g <= k.gen => b = k
      /\ g > k.gen => b.gen = g /\ b.mile = NoRevision
  BY <1>1, BindIs
<1>3. PICK n \in Nat : n = b.rev + 1
  BY <1>2 DEF Checkpoints
<1>4. a = [b EXCEPT !.rev = n]
  BY <1>1, <1>3 DEF Active
<1>5. /\ a \in Checkpoints /\ a.rev = n /\ a.writes = b.writes /\ a.gen = b.gen /\ a.mile = b.mile
      /\ a.delivered = b.delivered
  BY <1>2, <1>4 DEF Checkpoints
<1> QED BY <1>2, <1>3, <1>5

\* An activity, or the first thing a generation does, comes after all that was.
LEMMA ActivityInOrder ==
    ASSUME NEW k \in Checkpoints, NEW g \in Nat, NEW S \in SUBSET Nat, NEW M, NEW a,
           a = Active(k, g), WritesInOrder(k, M), SavesInOrder(k, S, M)
    PROVE  WritesInOrder(a, M) /\ SavesInOrder(a, S, M)
<1>1. /\ a \in Checkpoints /\ a.rev = k.rev + 1 /\ a.writes = k.writes
      /\ g <= k.gen => a.gen = k.gen /\ a.mile = k.mile
      /\ g > k.gen => a.gen = g /\ a.mile = NoRevision
  BY ActiveIs
<1>2. k.rev \in Nat /\ k.gen \in Nat
  BY DEF Checkpoints
<1>3. SavesInOrder(a, S, M)
  BY <1>1, <1>2 DEF SavesInOrder, Before
<1>4. WritesInOrder(a, M)
  BY <1>1, <1>2 DEF WritesInOrder, Before
<1> QED BY <1>3, <1>4

LEMMA CheckpointCalls ==
    ASSUME CheckpointInv, Prompt \/ Activity
    PROVE  CheckpointInv'
<1>0. PICK k, a : k = checkpoint /\ a = checkpoint'
  OBVIOUS
<1>1. PICK g \in Nat : /\ a = Active(k, g) /\ turn' = g /\ g >= turn
                       /\ due' = (due /\ g <= k.gen)
  <2>1. CASE Prompt
    BY <1>0, <2>1 DEF Prompt, CheckpointInv
  <2>2. CASE Activity
    BY <1>0, <2>2 DEF Activity, CheckpointInv
  <2> QED BY <2>1, <2>2
<1>2. UNCHANGED <<saves, moved, forgotten>> /\ k \in Checkpoints /\ turn \in Nat /\ saves \in SUBSET Nat
  BY <1>0 DEF Prompt, Activity, CheckpointInv
<1>3. /\ a \in Checkpoints /\ a.rev = k.rev + 1 /\ a.writes = k.writes
      /\ g <= k.gen => a.gen = k.gen /\ a.mile = k.mile /\ a.delivered = k.delivered
      /\ g > k.gen => a.gen = g /\ a.mile = NoRevision
  BY <1>1, <1>2, ActiveIs
<1>4. k.gen \in Nat
  BY <1>2 DEF Checkpoints
<1>5. ReminderPending' => due'
  <2>1. CASE g <= k.gen
    BY <1>0, <1>1, <1>3, <2>1 DEF ReminderPending, CheckpointInv
  <2>2. CASE g > k.gen
    BY <1>0, <1>3, <2>2 DEF ReminderPending
  <2> QED BY <1>4, <2>1, <2>2
<1>6. ASSUME ~forgotten' PROVE WritesInOrder(a, moved) /\ SavesInOrder(a, saves, moved) /\ a.gen <= g
  <2>1. WritesInOrder(k, moved) /\ SavesInOrder(k, saves, moved) /\ k.gen <= turn
    BY <1>0, <1>2, <1>6 DEF CheckpointInv
  <2>2. WritesInOrder(a, moved) /\ SavesInOrder(a, saves, moved)
    BY <1>1, <1>2, <2>1, ActivityInOrder
  <2>3. a.gen <= g
    BY <1>1, <1>2, <1>3, <1>4, <2>1
  <2> QED BY <2>2, <2>3
<1>7. due' \in BOOLEAN
  BY <1>1 DEF CheckpointInv
<1> QED BY <1>0, <1>1, <1>2, <1>3, <1>5, <1>6, <1>7 DEF CheckpointInv

LEMMA CheckpointStart ==
    ASSUME CheckpointInv, NEW c \in Calls, BrainStart(c)
    PROVE  CheckpointInv'
<1>0. PICK k : k = checkpoint
  OBVIOUS
<1>a. PICK active \in BOOLEAN :
        LET b == IF active THEN Active(checkpoint, turn) ELSE Bind(checkpoint, turn)
        IN  /\ checkpoint' = [b EXCEPT !.writes[c] = [gen |-> turn, rev |-> b.rev]]
            /\ moved' = IF turn > checkpoint.gen /\ ~active THEN moved \union {b.rev} ELSE moved
  BY DEF BrainStart
<1>1. PICK b :
        /\ b = IF active THEN Active(k, turn) ELSE Bind(k, turn)
        /\ checkpoint' = [b EXCEPT !.writes[c] = [gen |-> turn, rev |-> b.rev]]
        /\ moved' = IF turn > k.gen /\ ~active THEN moved \union {b.rev} ELSE moved
        /\ due' = (due /\ turn <= k.gen)
  <2>1. due' = (due /\ turn <= k.gen)
    BY <1>0 DEF BrainStart
  <2> QED BY <1>0, <1>a, <2>1
<1>2. /\ UNCHANGED <<turn, saves, forgotten>> /\ k \in Checkpoints /\ turn \in Nat /\ saves \in SUBSET Nat
      /\ k.rev \in Nat /\ k.gen \in Nat
  BY <1>0 DEF BrainStart, CheckpointInv, Checkpoints
<1>3. /\ b \in Checkpoints /\ b.writes = k.writes /\ b.rev \in Nat /\ (~active => b.rev = k.rev)
      /\ turn <= k.gen => b.gen = k.gen /\ b.mile = k.mile /\ b.delivered = k.delivered
      /\ turn > k.gen => b.gen = turn /\ b.mile = NoRevision
  BY <1>1, <1>2, ActiveIs, BindIs DEF Checkpoints
<1>4. PICK w : w = [gen |-> turn, rev |-> b.rev]
  OBVIOUS
<1>5. w \in BrainWrites /\ w.gen = turn /\ w.rev = b.rev
  BY <1>2, <1>3, <1>4 DEF BrainWrites
<1>6. PICK ws : ws = [b.writes EXCEPT ![c] = w]
  OBVIOUS
<1>7. ws \in [Calls -> BrainWrites] /\ ws[c] = w /\ \A d \in Calls \ {c} : ws[d] = k.writes[d]
  BY <1>3, <1>5, <1>6 DEF Checkpoints
<1>8. PICK n : n = checkpoint'
  OBVIOUS
<1>9. n = [b EXCEPT !.writes = ws]
  BY <1>1, <1>4, <1>6, <1>8
<1>10. /\ n \in Checkpoints /\ n.writes = ws /\ n.rev = b.rev /\ n.gen = b.gen /\ n.mile = b.mile
       /\ n.delivered = b.delivered /\ n.saved = b.saved
  BY <1>3, <1>7, <1>9 DEF Checkpoints
<1>11. ReminderPending' => due'
  BY <1>0, <1>1, <1>2, <1>3, <1>8, <1>10 DEF ReminderPending, CheckpointInv
<1>12. PICK M : M = moved'
  OBVIOUS
<1>13. ASSUME ~forgotten' PROVE WritesInOrder(n, M) /\ SavesInOrder(n, saves, M) /\ n.gen <= turn
  <2>1. WritesInOrder(k, moved) /\ SavesInOrder(k, saves, moved) /\ k.gen <= turn
    BY <1>0, <1>2, <1>13 DEF CheckpointInv
  <2>2. n.gen = turn
    BY <1>2, <1>3, <1>10, <2>1
  <2>3. moved \subseteq M
    BY <1>1, <1>12
  <2>4. WritesInOrder(b, M) /\ SavesInOrder(b, saves, M)
    <3>1. CASE active
      <4>1. b = Active(k, turn) /\ M = moved
        BY <1>1, <1>12, <3>1
      <4> QED BY <1>2, <2>1, <4>1, ActivityInOrder
    <3>2. CASE ~active /\ turn <= k.gen
      <4>1. b = k /\ M = moved
        BY <1>1, <1>2, <1>12, <3>2, BindIs
      <4> QED BY <2>1, <4>1
    <3>3. CASE ~active /\ turn > k.gen
      <4>1. b.mile = NoRevision /\ b.rev \in M /\ b.rev = k.rev /\ b.gen = turn /\ b.writes = k.writes
        BY <1>1, <1>2, <1>3, <1>12, <3>3
      <4>2. WritesInOrder(b, M)
        BY <1>2, <2>1, <3>3, <4>1 DEF WritesInOrder, Before
      <4>3. SavesInOrder(b, saves, M)
        BY <2>1, <4>1 DEF SavesInOrder, Before
      <4> QED BY <4>2, <4>3
    <3> QED BY <1>1, <1>2, <3>1, <3>2, <3>3
  <2>5. b.gen = turn
    BY <1>10, <2>2
  <2>6. WritesInOrder(n, M)
    BY <1>2, <1>3, <1>5, <1>7, <1>10, <2>2, <2>4, <2>5 DEF WritesInOrder, Before
  <2>7. SavesInOrder(n, saves, M)
    BY <1>10, <2>4 DEF SavesInOrder, Before
  <2> QED BY <1>2, <2>2, <2>6, <2>7
<1>14. due' \in BOOLEAN
  BY <1>1 DEF CheckpointInv
<1> QED BY <1>2, <1>8, <1>10, <1>11, <1>12, <1>13, <1>14 DEF CheckpointInv

LEMMA CheckpointResult ==
    ASSUME CheckpointInv, NEW c \in Calls, BrainResult(c)
    PROVE  CheckpointInv'
<1>0. PICK o, w, k, n : /\ o = checkpoint /\ w = o.writes[c]
                        /\ k = [o EXCEPT !.writes[c] = NoWrite] /\ n = checkpoint'
  OBVIOUS
<1>1. PICK confirmed \in BOOLEAN :
        /\ n = IF confirmed /\ w.gen = k.gen THEN Confirm(k, w) ELSE k
        /\ saves' = IF confirmed THEN saves \union {w.rev} ELSE saves
  BY <1>0 DEF BrainResult
<1>2. /\ UNCHANGED <<turn, due, moved, forgotten>> /\ w # NoWrite
      /\ o \in Checkpoints /\ turn \in Nat /\ saves \in SUBSET Nat
  BY <1>0 DEF BrainResult, CheckpointInv
<1>3. PICK ws : ws = [o.writes EXCEPT ![c] = NoWrite]
  OBVIOUS
<1>4. NoWrite \in BrainWrites
  BY DEF BrainWrites
<1>5. ws \in [Calls -> BrainWrites] /\ ws[c] = NoWrite /\ \A d \in Calls \ {c} : ws[d] = o.writes[d]
  BY <1>2, <1>3, <1>4 DEF Checkpoints
<1>6. k = [o EXCEPT !.writes = ws]
  BY <1>0, <1>3
<1>7. /\ k \in Checkpoints /\ k.writes = ws /\ k.rev = o.rev /\ k.gen = o.gen /\ k.mile = o.mile
      /\ k.delivered = o.delivered /\ k.saved = o.saved /\ k.rev \in Nat /\ k.gen \in Nat
  BY <1>2, <1>5, <1>6 DEF Checkpoints
<1>8. w.gen \in Nat /\ w.rev \in Nat
  BY <1>0, <1>2 DEF Checkpoints, BrainWrites
<1>9. saves' \subseteq Nat
  BY <1>1, <1>2, <1>8
<1>10. PICK new : new = IF k.saved = NoRevision \/ w.rev > k.saved THEN w.rev ELSE k.saved
  OBVIOUS
<1>11. /\ n \in Checkpoints /\ n.writes = ws /\ n.rev = o.rev /\ n.gen = o.gen
       /\ n.mile = NoRevision \/ (n.mile = o.mile /\ n.delivered = o.delivered)
       /\ n.saved = IF confirmed /\ w.gen = o.gen THEN new ELSE o.saved
       /\ confirmed /\ w.gen = o.gen /\ n.mile # NoRevision => ~(n.mile <= new)
  <2>1. CASE ~(confirmed /\ w.gen = k.gen)
    BY <1>1, <1>7, <2>1
  <2>2. CASE confirmed /\ w.gen = k.gen
    <3>1. n = Confirm(k, w)
      BY <1>1, <2>2
    <3>2. new \in Revisions
      BY <1>7, <1>8, <1>10 DEF Checkpoints, Revisions
    <3>3. CASE k.mile # NoRevision /\ k.mile <= new
      <4>1. n = [k EXCEPT !.saved = new, !.mile = NoRevision, !.delivered = FALSE]
        BY <1>10, <3>1, <3>3 DEF Confirm
      <4>2. /\ n \in Checkpoints /\ n.writes = k.writes /\ n.rev = k.rev /\ n.gen = k.gen
            /\ n.mile = NoRevision /\ n.saved = new
        BY <1>7, <3>2, <4>1 DEF Checkpoints, Revisions
      <4> QED BY <1>7, <2>2, <4>2
    <3>4. CASE ~(k.mile # NoRevision /\ k.mile <= new)
      <4>1. n = [k EXCEPT !.saved = new]
        BY <1>10, <3>1, <3>4 DEF Confirm
      <4>2. /\ n \in Checkpoints /\ n.writes = k.writes /\ n.rev = k.rev /\ n.gen = k.gen
            /\ n.mile = k.mile /\ n.delivered = k.delivered /\ n.saved = new
        BY <1>7, <3>2, <4>1 DEF Checkpoints
      <4> QED BY <1>7, <2>2, <3>4, <4>2
    <3> QED BY <3>3, <3>4
  <2> QED BY <2>1, <2>2
<1>12. ReminderPending' => due'
  BY <1>0, <1>2, <1>11 DEF ReminderPending, CheckpointInv
<1>13. ASSUME ~forgotten' PROVE WritesInOrder(n, moved) /\ SavesInOrder(n, saves', moved) /\ n.gen <= turn
  <2>1. WritesInOrder(o, moved) /\ SavesInOrder(o, saves, moved) /\ o.gen <= turn
    BY <1>0, <1>2, <1>13 DEF CheckpointInv
  <2>2. w.gen \in 0 .. o.gen /\ w.rev \in 0 .. o.rev 
        /\ (w.gen # o.gen => (w.rev < o.rev \/ o.rev \in moved) /\ Before(w.rev, o, moved))
    BY <1>0, <1>2, <2>1 DEF WritesInOrder
  <2>3. WritesInOrder(n, moved)
    BY <1>5, <1>11, <2>1 DEF WritesInOrder, Before
  <2>4. ASSUME NEW rev \in saves'
        PROVE  /\ rev <= n.rev /\ Before(rev, n, moved)
               /\ rev = n.rev => (n.saved # NoRevision /\ n.saved >= rev) \/ n.rev \in moved
    <3>1. rev \in Nat /\ o.rev \in Nat /\ o.saved \in Revisions /\ o.mile \in Revisions /\ NoRevision \notin Nat
      BY <1>2, <1>9, <2>4, SaveAssumption DEF Checkpoints
    <3>2. CASE rev \in saves
      <4>1. /\ rev <= o.rev /\ Before(rev, o, moved)
            /\ rev = o.rev => (o.saved # NoRevision /\ o.saved >= rev) \/ o.rev \in moved
        BY <2>1, <3>2 DEF SavesInOrder
      <4>2. o.saved # NoRevision => new # NoRevision /\ new >= o.saved
        BY <1>7, <1>8, <1>10, <3>1 DEF Revisions
      <4>3. new \in Revisions
        BY <1>7, <1>8, <1>10, <3>1 DEF Revisions
      <4> QED BY <1>11, <3>1, <4>1, <4>2, <4>3 DEF Before, Revisions
    <3>3. CASE confirmed /\ rev = w.rev /\ w.gen = o.gen
      <4>1. new \in Nat /\ new >= w.rev
        BY <1>7, <1>8, <1>10, <3>1 DEF Revisions
      <4>2. n.mile # NoRevision => n.mile \in Nat /\ new < n.mile
        BY <1>11, <3>1, <3>3, <4>1 DEF Revisions
      <4> QED BY <1>8, <1>11, <2>2, <3>1, <3>3, <4>1, <4>2 DEF Before
    <3>4. CASE confirmed /\ rev = w.rev /\ w.gen # o.gen
      BY <1>8, <1>11, <2>2, <3>1, <3>4 DEF Before
    <3> QED BY <1>1, <2>4, <3>2, <3>3, <3>4
  <2> QED BY <1>11, <2>1, <2>3, <2>4 DEF SavesInOrder
<1> QED BY <1>0, <1>2, <1>9, <1>11, <1>12, <1>13 DEF CheckpointInv

LEMMA CheckpointTodo ==
    ASSUME CheckpointInv, NEW open \in BOOLEAN, NEW done \in BOOLEAN, Todo(open, done)
    PROVE  CheckpointInv'
<1>0. PICK k, n : k = checkpoint /\ n = checkpoint'
  OBVIOUS
<1>1. PICK complete \in BOOLEAN, fresh \in BOOLEAN :
        /\ complete = (k.saw /\ done /\ ~open)
        /\ fresh = (k.saved # NoRevision /\ k.saved >= k.rev)
        /\ n = [k EXCEPT !.saw = open,
                         !.mile = IF ~complete THEN @ ELSE IF fresh THEN NoRevision ELSE k.rev,
                         !.delivered = @ /\ ~complete]
        /\ due' = (due \/ complete)
  BY <1>0 DEF Todo
<1>2. UNCHANGED <<turn, saves, moved, forgotten>> /\ k \in Checkpoints /\ turn \in Nat /\ saves \in SUBSET Nat
  BY <1>0 DEF Todo, CheckpointInv
<1>3. PICK m \in Revisions, d \in BOOLEAN :
        /\ m = IF ~complete THEN k.mile ELSE IF fresh THEN NoRevision ELSE k.rev
        /\ d = (k.delivered /\ ~complete)
  BY <1>2 DEF Checkpoints, Revisions
<1>4. n = [k EXCEPT !.saw = open, !.mile = m, !.delivered = d]
  BY <1>1, <1>3
<1>5. /\ n \in Checkpoints /\ n.writes = k.writes /\ n.rev = k.rev /\ n.gen = k.gen /\ n.saved = k.saved
      /\ n.mile = m /\ n.delivered = d
  BY <1>2, <1>4 DEF Checkpoints
<1>6. ReminderPending' => due'
  BY <1>0, <1>1, <1>3, <1>5 DEF ReminderPending, CheckpointInv
<1>7. ASSUME ~forgotten' PROVE WritesInOrder(n, moved) /\ SavesInOrder(n, saves, moved) /\ n.gen <= turn
  <2>1. WritesInOrder(k, moved) /\ SavesInOrder(k, saves, moved) /\ k.gen <= turn
    BY <1>0, <1>2, <1>7 DEF CheckpointInv
  <2>2. m = k.mile \/ m = NoRevision \/ (m = k.rev /\ ~fresh)
    BY <1>3
  <2>3. WritesInOrder(n, moved)
    BY <1>5, <2>1, <2>2 DEF WritesInOrder, Before
  <2>4. ASSUME NEW rev \in saves PROVE Before(rev, n, moved)
    <3>1. /\ rev <= k.rev /\ Before(rev, k, moved)
          /\ rev = k.rev => (k.saved # NoRevision /\ k.saved >= rev) \/ k.rev \in moved
      BY <2>1, <2>4 DEF SavesInOrder
    <3>2. rev \in Nat /\ k.rev \in Nat
      BY <1>2, <2>4 DEF Checkpoints
    <3> QED BY <1>1, <1>5, <2>2, <3>1, <3>2 DEF Before
  <2> QED BY <1>5, <2>1, <2>3, <2>4 DEF SavesInOrder
<1>8. due' \in BOOLEAN
  BY <1>1 DEF CheckpointInv
<1> QED BY <1>0, <1>2, <1>5, <1>6, <1>7, <1>8 DEF CheckpointInv

LEMMA NewIsInOrder ==
    /\ New \in Checkpoints /\ New.mile = NoRevision
    /\ New.gen = 0 /\ WritesInOrder(New, {}) /\ SavesInOrder(New, {}, {})
<1>1. /\ New \in Checkpoints /\ New.mile = NoRevision /\ New.gen = 0 /\ New.rev = 0
      /\ New.writes = [c \in Calls |-> NoWrite]
  BY DEF New, Checkpoints, Revisions, BrainWrites
<1>2. \A c \in Calls : New.writes[c] = NoWrite
  BY <1>1
<1>3. WritesInOrder(New, {})
  BY <1>2 DEF WritesInOrder
<1>4. SavesInOrder(New, {}, {})
  BY DEF SavesInOrder
<1> QED BY <1>1, <1>3, <1>4

LEMMA CheckpointInitially == SaveInit => CheckpointInv
<1> SUFFICES ASSUME SaveInit PROVE CheckpointInv
  OBVIOUS
<1>1. /\ checkpoint = New /\ turn = 0 /\ saves = {} /\ moved = {} /\ due \in BOOLEAN /\ forgotten \in BOOLEAN
  BY DEF SaveInit
<1>2. /\ WritesInOrder(checkpoint, moved) /\ SavesInOrder(checkpoint, saves, moved) /\ checkpoint.gen <= turn
  BY <1>1, NewIsInOrder
<1>3. checkpoint \in Checkpoints /\ ~ReminderPending
  BY <1>1, NewIsInOrder DEF ReminderPending
<1> QED BY <1>1, <1>2, <1>3 DEF CheckpointInv

LEMMA CheckpointKept == CheckpointInv /\ [SaveNext]_saveVars => CheckpointInv'
<1> SUFFICES ASSUME CheckpointInv, [SaveNext]_saveVars PROVE CheckpointInv'
  OBVIOUS
<1>1. CASE Remind
  <2>1. PICK k, n : k = checkpoint /\ n = checkpoint' /\ n = [k EXCEPT !.delivered = TRUE]
    BY <1>1 DEF Remind
  <2>2. k \in Checkpoints
    BY <2>1 DEF CheckpointInv
  <2>3. /\ n \in Checkpoints /\ n.writes = k.writes /\ n.rev = k.rev /\ n.gen = k.gen /\ n.saved = k.saved
        /\ n.mile = k.mile /\ n.delivered = TRUE
    BY <2>1, <2>2 DEF Checkpoints
  <2>4. UNCHANGED <<turn, saves, moved, forgotten>> /\ due' = FALSE
    BY <1>1 DEF Remind
  <2> QED BY <2>1, <2>3, <2>4
          DEF CheckpointInv, ReminderPending, WritesInOrder, SavesInOrder, Before
<1>2. CASE Forget
  BY <1>2 DEF Forget, CheckpointInv, ReminderPending
<1>3. CASE ForgetCheckpoint
  <2>1. /\ checkpoint' = New /\ saves' = {} /\ moved' = {} /\ due' = FALSE
        /\ UNCHANGED <<turn, forgotten>> /\ turn \in Nat /\ forgotten \in BOOLEAN
    BY <1>3 DEF ForgetCheckpoint, CheckpointInv
  <2>2. WritesInOrder(checkpoint', moved') /\ SavesInOrder(checkpoint', saves', moved')
    BY <2>1, NewIsInOrder
  <2>3. checkpoint'.gen = 0 /\ checkpoint' \in Checkpoints /\ ~ReminderPending'
    BY <2>1, NewIsInOrder DEF ReminderPending
  <2>4. turn' \in Nat /\ checkpoint'.gen <= turn' /\ saves' \subseteq Nat
    BY <2>1, <2>3
  <2>5. due' \in BOOLEAN /\ forgotten' \in BOOLEAN
    BY <2>1
  <2> QED BY <2>2, <2>3, <2>4, <2>5 DEF CheckpointInv
<1>4. CASE Move
  <2>1. checkpoint.gen \in Nat /\ turn \in Nat
    BY DEF CheckpointInv, Checkpoints
  <2> QED BY <1>4, <2>1 DEF Move, CheckpointInv, ReminderPending
<1>5. CASE UNCHANGED saveVars
  BY <1>5 DEF saveVars, CheckpointInv, ReminderPending
<1> QED BY <1>1, <1>2, <1>3, <1>4, <1>5, CheckpointCalls, CheckpointStart, CheckpointResult, CheckpointTodo DEF SaveNext

\* RemindersAreDue of every step, for any number of writes, generations and activities:
\* a reminder is given once, and only for a milestone that no confirmed write covers,
\* unless a generation came without an activity or the coordinator lost count.
THEOREM SaveRemindersAreDue == SaveSpec => RemindersAreDue
<1>1. CheckpointInv => [ReminderPending /\ checkpoint'.delivered
                          => /\ due
                             /\ forgotten \/ checkpoint.mile \in moved \/ \A rev \in saves : rev < checkpoint.mile]_saveVars
  BY DEF CheckpointInv, ReminderPending, SavesInOrder, Before
<1> QED BY <1>1, CheckpointInitially, CheckpointKept, PTL DEF SaveSpec, RemindersAreDue

-----------------------------------------------------------------------------
(* The reminders of a Claude Code session.  Unless a level was carried over a *)
(* compaction, what the hooks read is a level the context has had in this     *)
(* epoch, so they announce no threshold before it is reached.                 *)

\* Every non-empty set of numbers has a least one.
LEMMA LeastNumber ==
    ASSUME NEW T \in SUBSET Nat, T # {}
    PROVE  \E x \in T : \A y \in T : x <= y
<1>1. PICK R : R = OpToRel(<, Nat)
  OBVIOUS
<1>2. IsWellFoundedOn(R, Nat)
  BY <1>1, NatLessThanWellFounded
<1>3. PICK x \in T : \A y \in T : ~ (<<y, x>> \in R)
  BY <1>2, WFMin
<1>4. ASSUME NEW y \in T PROVE ~(y < x)
  BY <1>1, <1>3 DEF OpToRel
<1> QED BY <1>3, <1>4

LEMMA MaxIs ==
    ASSUME NEW n \in Nat, NEW T \in SUBSET (0 .. n), T # {}
    PROVE  Max(T) \in T /\ \A y \in T : Max(T) >= y
<1>0. \A x \in T : x \in Int /\ n - x \in Nat
  OBVIOUS
<1>1. PICK U : U = {n - x : x \in T}
  OBVIOUS
<1>1a. U \in SUBSET Nat
  <2> SUFFICES ASSUME NEW u \in U PROVE u \in Nat
    OBVIOUS
  <2>1. PICK x \in T : u = n - x
    BY <1>1
  <2> QED BY <2>1, <1>0
<1>2. U # {}
  BY <1>1
<1>3. PICK u \in U : \A v \in U : u <= v
  BY <1>1a, <1>2, LeastNumber
<1>4. PICK x \in T : u = n - x
  BY <1>1
<1>5. \A y \in T : x >= y
  <2> TAKE y \in T
  <2>1. n - x <= n - y
    BY <1>1, <1>3, <1>4
  <2> QED BY <1>0, <2>1
<1>6. \E z \in T : \A y \in T : z >= y
  BY <1>5
<1> QED BY <1>6 DEF Max

LEMMA MaxOnly ==
    ASSUME NEW n \in Nat, NEW T \in SUBSET (0 .. n), NEW x \in T, \A y \in T : x >= y
    PROVE  Max(T) = x
<1>1. PICK m : m = Max(T) /\ m \in T /\ \A y \in T : m >= y
  BY MaxIs
<1>2. m \in Int /\ x \in Int /\ m >= x /\ x >= m
  BY <1>1
<1> QED BY <1>1, <1>2

Readings == [pct : Int, new : BOOLEAN]
Lines == [at : {"off", "pct", "export"}, pct : Int]
Stops == [at : {"off", "read", "judge"}, pct : Int]

TriggerTyped ==
    /\ context \in 0 .. Full /\ compacts \in Nat
    /\ pct \in Int /\ saved \in Int /\ savedAt \in Int
    /\ export \in Readings /\ line \in Lines /\ stop \in Stops
    /\ said \subseteq Thresholds /\ told \subseteq Thresholds
    /\ strayed \in BOOLEAN

\* Whatever is on its way to the Stop hook has been reached.
LevelsReached ==
    /\ pct <= context /\ export.pct <= context
    /\ line.at # "off" => line.pct <= context
    /\ stop.at # "off" => stop.pct <= context

ToldIsDownward == \A t \in told, u \in Thresholds : u <= t => u \in told

SaveKnown ==
    /\ savedAt # -1 => saved <= savedAt
    /\ savedAt = -1 => saved = 0 \/ compacts > 0

TriggerInv ==
    /\ TriggerTyped
    /\ ToldIsDownward
    /\ session = "compacted" => compacts > 0
    /\ stop.at # "off" => session = "open"
    /\ ~strayed => (session = "open" => LevelsReached) /\ said \subseteq told /\ SaveKnown

LEMMA TriggerStarts == TriggerInit => TriggerInv
<1> SUFFICES ASSUME TriggerInit PROVE TriggerInv
  OBVIOUS
<1>1. NoReading \in Readings /\ NotReading \in Lines /\ NotReading \in Stops
      /\ NoReading.pct = -1 /\ NotReading.at = "off"
  BY DEF NoReading, NotReading, Readings, Lines, Stops
<1>2. TriggerTyped
  <2>1. 0 \in 0 .. Full /\ -1 \in Int /\ 0 \in Int /\ 0 \in Nat
    BY LevelsAreNumbers
  <2>2. /\ context = 0 /\ compacts = 0 /\ pct = -1 /\ saved = 0 /\ savedAt = -1
        /\ export \in Readings /\ line \in Lines /\ stop \in Stops
        /\ said = {} /\ told = {} /\ strayed = FALSE
    BY <1>1 DEF TriggerInit
  <2> QED BY <2>1, <2>2 DEF TriggerTyped
<1>3. LevelsReached
  BY <1>1 DEF TriggerInit, LevelsReached
<1>4. ToldIsDownward /\ SaveKnown /\ said \subseteq told /\ stop.at = "off" /\ session = "open"
  BY <1>1 DEF TriggerInit, ToldIsDownward, SaveKnown
<1> QED BY <1>2, <1>3, <1>4 DEF TriggerInv

LEMMA LevelsKept ==
    ASSUME TriggerInv,
           \/ GrowContext \/ StartLine \/ ExportPct \/ ExportState \/ CancelLine \/ OutdateState
           \/ ReadState \/ ReadPct
    PROVE  TriggerInv'
<1>1. /\ UNCHANGED <<compacts, saved, savedAt, said, told, strayed, session>>
      /\ context' \in 0 .. Full /\ context' >= context
  BY LevelsAreNumbers DEF GrowContext, StartLine, ExportPct, ExportState, CancelLine, OutdateState, ReadState, ReadPct,
         flags, ghosts, bridge, TriggerInv, TriggerTyped
<1>2. context \in Int /\ context' \in Int /\ pct \in Int
      /\ export \in Readings /\ line \in Lines /\ stop \in Stops
  BY <1>1, LevelsAreNumbers DEF TriggerInv, TriggerTyped
<1>3. /\ pct' \in {pct, line.pct} /\ (pct' # pct => line.at # "off")
      /\ pct' \in Int
      /\ export' \in Readings
      /\ export'.pct = export.pct \/ export'.pct = -1 \/ (line.at # "off" /\ export'.pct = line.pct)
      /\ line' \in Lines
      /\ line'.at # "off" => (line.at # "off" /\ line'.pct = line.pct) \/ line'.pct = context
      /\ stop' \in Stops
      /\ stop'.at # "off" => (stop.at # "off" /\ stop'.pct = stop.pct) \/ (session = "open" /\ stop'.pct = export.pct)
  <2>1. CASE GrowContext
    BY <1>2, <2>1 DEF GrowContext, bridge
  <2>2. CASE StartLine
    <3>1. /\ line' = [at |-> "pct", pct |-> context] /\ export' = [pct |-> -1, new |-> FALSE]
          /\ pct' = pct /\ stop' = stop
      BY <2>2 DEF StartLine, NoReading
    <3> QED BY <1>2, <3>1 DEF Readings, Lines
  <2>3. CASE ExportPct
    <3>1. pct' = line.pct /\ line.at = "pct" /\ line' = [line EXCEPT !.at = "export"] /\ UNCHANGED <<export, stop>>
      BY <2>3 DEF ExportPct
    <3> QED BY <1>2, <3>1 DEF Lines
  <2>4. CASE ExportState
    <3>1. /\ line.at = "export" /\ export' = [pct |-> line.pct, new |-> TRUE]
          /\ line' = [at |-> "off", pct |-> -1] /\ UNCHANGED <<pct, stop>>
      BY <2>4 DEF ExportState, NotReading
    <3> QED BY <1>2, <3>1 DEF Lines, Readings
  <2>5. CASE CancelLine
    <3>1. line' = [at |-> "off", pct |-> -1] /\ UNCHANGED <<pct, export, stop>>
      BY <2>5 DEF CancelLine, NotReading
    <3> QED BY <1>2, <3>1 DEF Lines
  <2>6. CASE OutdateState
    <3>1. export' = [export EXCEPT !.new = FALSE] /\ UNCHANGED <<pct, line, stop>>
      BY <2>6 DEF OutdateState
    <3> QED BY <1>2, <3>1 DEF Readings
  <2>7. CASE ReadState
    <3>1. stop' = [at |-> "read", pct |-> export.pct] /\ session = "open" /\ UNCHANGED <<pct, export, line>>
      BY <2>7 DEF ReadState, bridge
    <3> QED BY <1>2, <3>1 DEF Stops, Readings
  <2>8. CASE ReadPct
    <3>1. /\ stop.at = "read" /\ UNCHANGED <<pct, export, line>>
          /\ stop' = [stop EXCEPT !.at = "judge"] \/ stop' = [at |-> "off", pct |-> -1]
      BY <2>8 DEF ReadPct, bridge, NotReading
    <3> QED BY <1>2, <3>1 DEF Stops
  <2> QED BY <2>1, <2>2, <2>3, <2>4, <2>5, <2>6, <2>7, <2>8
<1>4. TriggerTyped'
  BY <1>1, <1>3 DEF TriggerInv, TriggerTyped
<1>5. LevelsReached /\ session = "open" => LevelsReached'
  BY <1>1, <1>2, <1>3, LevelsAreNumbers DEF LevelsReached, Readings, Lines, Stops, TriggerInv, TriggerTyped
<1>6. stop'.at # "off" => session' = "open"
  BY <1>1, <1>3 DEF TriggerInv
<1> QED BY <1>1, <1>4, <1>5, <1>6 DEF TriggerInv, ToldIsDownward, SaveKnown

LEMMA SilentKept ==
    ASSUME TriggerInv, AskLater \/ BlockCompact \/ AskPrompt \/ UNCHANGED triggerVars
    PROVE  TriggerInv'
<1>1. UNCHANGED <<context, export, pct, line, stop, said, saved, session, compacts, told, savedAt, strayed>>
  BY DEF AskLater, BlockCompact, AskPrompt, triggerVars, bridge, ghosts
<1> QED BY <1>1 DEF TriggerInv, TriggerTyped, ToldIsDownward, LevelsReached, SaveKnown

LEMMA MarkKept ==
    ASSUME TriggerInv, MarkSave
    PROVE  TriggerInv'
<1>1. /\ session = "open" /\ UNCHANGED <<context, export, pct, line, stop, said, session, compacts, told, strayed>>
      /\ saved' \in Int /\ savedAt' \in Int
      /\ (saved' = saved /\ savedAt' = savedAt) \/ (saved' = pct /\ savedAt' = context)
  BY LevelsAreNumbers DEF MarkSave, ReadLevel, TriggerInv, TriggerTyped, bridge
<1>2. context \in 0 .. Full
  BY DEF TriggerInv, TriggerTyped
<1>3. ~strayed => LevelsReached
  BY <1>1 DEF TriggerInv
<1>4. ~strayed => SaveKnown'
  BY <1>1, <1>2, <1>3, LevelsAreNumbers DEF SaveKnown, LevelsReached, TriggerInv
<1> QED BY <1>1, <1>4 DEF TriggerInv, TriggerTyped, ToldIsDownward, LevelsReached

LEMMA JudgeKept ==
    ASSUME TriggerInv, JudgeStop
    PROVE  TriggerInv'
<1>1. /\ UNCHANGED <<context, export, pct, line, saved, session, compacts, savedAt, strayed>>
      /\ stop.at = "judge" /\ stop' = NotReading
      /\ \/ said' = said /\ told' = told
         \/ /\ said' = said \cup CrossedBy(stop.pct, Thresholds)
            /\ told' = told \cup CrossedBy(context, Thresholds)
  BY DEF JudgeStop, bridge
<1>2. NotReading \in Stops /\ NotReading.at = "off"
  BY DEF NotReading, Stops
<1>3. Thresholds \subseteq Int /\ context \in Int /\ stop.pct \in Int
  BY ThresholdsAreLevels, LevelsAreNumbers DEF TriggerInv, TriggerTyped, Stops
<1>4. PICK A, B :
                  /\ A \subseteq Thresholds /\ B \subseteq Thresholds
                  /\ said' = said \cup A /\ told' = told \cup B
                  /\ \A t \in B, u \in Thresholds : u <= t => u \in B
                  /\ (stop.pct <= context => A \subseteq B)
  <2>1. CASE said' = said /\ told' = told
    <3>1. PICK E : E = {}
      OBVIOUS
    <3>2. said' = said \cup E /\ told' = told \cup E /\ E \subseteq Thresholds
      BY <2>1, <3>1
    <3> QED BY <3>1, <3>2
  <2>2. CASE /\ said' = said \cup CrossedBy(stop.pct, Thresholds)
             /\ told' = told \cup CrossedBy(context, Thresholds)
    <3>1. PICK A, B : A = CrossedBy(stop.pct, Thresholds) /\ B = CrossedBy(context, Thresholds)
      OBVIOUS
    <3>2. /\ A \subseteq Thresholds /\ \A t \in A : t <= stop.pct
          /\ B \subseteq Thresholds /\ \A t \in Thresholds : (t \in B) <=> (t <= context)
      BY <3>1 DEF CrossedBy
    <3>3. \A t \in B, u \in Thresholds : u <= t => u \in B
      BY <1>3, <3>2
    <3>4. stop.pct <= context => A \subseteq B
      BY <1>3, <3>2
    <3> QED BY <2>2, <3>1, <3>2, <3>3, <3>4
  <2> QED BY <1>1, <2>1, <2>2
<1>5. told' \subseteq Thresholds /\ said' \subseteq Thresholds
  BY <1>4 DEF TriggerInv, TriggerTyped
<1>6. ToldIsDownward'
  <2> SUFFICES ASSUME NEW t \in told', NEW u \in Thresholds, u <= t PROVE u \in told'
    BY DEF ToldIsDownward
  <2>1. t \in told \/ t \in B
    BY <1>4
  <2>2. CASE t \in told
    BY <1>4, <2>2 DEF TriggerInv, ToldIsDownward
  <2>3. CASE t \in B
    BY <1>4, <2>3
  <2> QED BY <2>1, <2>2, <2>3
<1>7. ~strayed => said' \subseteq told'
  <2>1. session = "open" /\ stop.at # "off"
    BY <1>1 DEF TriggerInv
  <2>2. ~strayed => stop.pct <= context /\ said \subseteq told
    BY <2>1 DEF TriggerInv, LevelsReached
  <2>3. ~strayed => A \subseteq B
    BY <1>3, <1>4, <2>2
  <2>4. said \subseteq told /\ A \subseteq B => said' \subseteq told'
    BY <1>4
  <2> QED BY <2>2, <2>3, <2>4
<1> QED BY <1>1, <1>2, <1>5, <1>6, <1>7 DEF TriggerInv, TriggerTyped, LevelsReached, SaveKnown

LEMMA EpochKept ==
    ASSUME TriggerInv, Compact \/ StartSession
    PROVE  TriggerInv'
<1>1. CASE Compact
  <2>1. /\ UNCHANGED <<export, pct, line, stop, said, saved, told, savedAt, strayed>>
        /\ compacts' = compacts + 1 /\ context' = 0 /\ session' = "compacted" /\ stop.at = "off"
    BY <1>1 DEF Compact, bridge, flags, ghosts
  <2>2. TriggerTyped' /\ compacts' > 0 /\ compacts' # 0
    BY <2>1, LevelsAreNumbers DEF TriggerInv, TriggerTyped
  <2>3. SaveKnown => SaveKnown'
    BY <2>1, <2>2 DEF SaveKnown
  <2>4. ToldIsDownward'
    BY <2>1 DEF TriggerInv, ToldIsDownward
  <2> QED BY <2>1, <2>2, <2>3, <2>4 DEF TriggerInv
<1>2. CASE StartSession
  <2>1. /\ UNCHANGED <<context, line, stop, saved, compacts>>
        /\ session = "compacted" /\ session' = "open" /\ said' = {} /\ told' = {} /\ savedAt' = -1
        /\ export' = NoReading /\ pct' = -1 /\ strayed' = (strayed \/ line.at # "off")
    BY <1>2 DEF StartSession
  <2>2. NoReading \in Readings /\ NoReading.pct = -1
    BY DEF NoReading, Readings
  <2>3. TriggerTyped'
    BY <2>1, <2>2, LevelsAreNumbers DEF TriggerInv, TriggerTyped
  <2>4. ToldIsDownward' /\ said' \subseteq told' /\ stop.at = "off" /\ compacts > 0
    BY <2>1 DEF TriggerInv, ToldIsDownward
  <2>5. SaveKnown'
    BY <2>1, <2>4 DEF SaveKnown
  <2>6. ~strayed' => LevelsReached'
    <3>1. context \in Int /\ context >= 0 /\ context' = context
      BY <2>1, LevelsAreNumbers DEF TriggerInv, TriggerTyped
    <3>2. -1 <= context' /\ pct' <= context' /\ export'.pct <= context'
      BY <2>1, <2>2, <3>1
    <3>3. strayed' \/ line'.at = "off"
      BY <2>1
    <3>4. stop'.at = "off"
      BY <2>1, <2>4
    <3> QED BY <3>2, <3>3, <3>4 DEF LevelsReached
  <2> QED BY <2>1, <2>3, <2>4, <2>5, <2>6 DEF TriggerInv
<1> QED BY <1>1, <1>2

LEMMA TriggerKept == TriggerInv /\ [TriggerNext]_triggerVars => TriggerInv'
  BY LevelsKept, SilentKept, MarkKept, JudgeKept, EpochKept DEF TriggerNext

\* The silence of the Stop hook, once the level it knows is the real one.
LEMMA SilenceHasCause ==
    ASSUME TriggerInv, JudgeStop, stop.pct = context, ~strayed, Unspoken # {}, told' = told
    PROVE  Excused(Max(Unspoken))
<1>0. PICK D, rest :
        /\ D = Due(context) /\ rest = Unspoken
        /\ D = {t \in Thresholds : t <= context} \ said
        /\ rest = {t \in Thresholds : t <= context} \ told
  BY DEF Due, Unspoken, CrossedBy
<1>1. /\ D \in SUBSET (0 .. Full) /\ rest \in SUBSET (0 .. Full)
      /\ D = Due(context) /\ rest = Unspoken
      /\ D = {t \in Thresholds : t <= context} \ said
      /\ rest = {t \in Thresholds : t <= context} \ told
  <2>1. \A t \in Thresholds : t \in 0 .. Full
    BY ThresholdsAreLevels, LevelsAreNumbers
  <2> QED BY <1>0, <2>1
<1>2. rest # {} /\ rest \subseteq D
  BY <1>1 DEF TriggerInv
<1>3. PICK t : t = Max(rest) /\ t \in rest /\ \A y \in rest : t >= y
  BY <1>1, <1>2, LevelsAreNumbers, MaxIs
<1>4. \A y \in D : t >= y
  <2> SUFFICES ASSUME NEW y \in D, ~(t >= y) PROVE FALSE
    OBVIOUS
  <2>1. y \in told /\ t \in Thresholds /\ t \notin told /\ t \in Nat /\ y \in Nat
    BY <1>1, <1>3, LevelsAreNumbers
  <2> QED BY <2>1 DEF TriggerInv, ToldIsDownward
<1>5. Max(D) = t
  BY <1>1, <1>2, <1>3, <1>4, LevelsAreNumbers, MaxOnly
<1>6. Guarded(t, context) \/ PutOff(t)
  <2> SUFFICES ASSUME ~Guarded(t, context), ~PutOff(t) PROVE FALSE
    OBVIOUS
  <2>1. told' = told \cup CrossedBy(context, Thresholds)
    BY <1>1, <1>2, <1>5 DEF JudgeStop
  <2> QED BY <1>1, <1>2, <2>1 DEF CrossedBy
<1>7. /\ SaveKnown /\ context \in Int /\ saved \in Int /\ savedAt \in Int /\ Guard \in Nat /\ t <= context
      /\ Guard <= t /\ t \in Int
  BY <1>1, <1>3, GuardBelowSoft, LevelsAreNumbers DEF TriggerInv, TriggerTyped
<1>8. CASE Guarded(t, context)
  BY <1>1, <1>3, <1>7, <1>8 DEF Guarded, Excused, SaveKnown
<1>9. CASE PutOff(t)
  BY <1>1, <1>3, <1>9 DEF PutOff, Excused
<1> QED BY <1>6, <1>8, <1>9

\* The prompts without the rules are those the counter has counted and a whole
\* interval for each route in their place, but for a session that has just been
\* compacted, whose next prompt is a first one.
RulesCount ==
    /\ without \in Nat /\ instead \in Nat /\ rules.turns \in Nat
    /\ without < EveryTurns * (instead + 1)
    /\ without <= rules.turns + EveryTurns * instead \/ (rules.turns = 0 /\ rules.shown = {})

LEMMA Intervals ==
    \A n \in Nat : EveryTurns * n \in Nat /\ EveryTurns * (n + 1) = EveryTurns * n + EveryTurns
  BY LevelsAreNumbers

LEMMA RulesKept == RulesCount /\ [TriggerNext]_triggerVars => RulesCount'
<1> SUFFICES ASSUME RulesCount, [TriggerNext]_triggerVars PROVE RulesCount'
  OBVIOUS
<1>1. CASE AskPrompt
  <2>1. PICK turns, first, hit, zones :
          LET cadence == first \/ hit \/ turns >= EveryTurns IN
          /\ turns = rules.turns + 1
          /\ first <=> rules.shown = {} /\ turns <= 1
          /\ rules' = [shown |-> rules.shown \cup (IF first THEN {0} ELSE {})
                                             \cup (IF hit THEN zones ELSE {}),
                       turns |-> IF cadence THEN 0 ELSE turns]
          /\ \/ cadence /\ without' = 0 /\ instead' = 0
             \/ cadence /\ without' = without + 1 /\ instead' = instead + 1
             \/ ~cadence /\ without' = without + 1 /\ instead' = instead
    BY <1>1 DEF AskPrompt
  <2>2. rules'.turns = IF first \/ hit \/ turns >= EveryTurns THEN 0 ELSE turns
    BY <2>1
  <2>3. PICK whole \in Nat : whole = EveryTurns * instead /\ EveryTurns * (instead + 1) = whole + EveryTurns
    BY Intervals DEF RulesCount
  <2>4. /\ EveryTurns \in Nat \ {0} /\ rules.turns \in Nat /\ without \in Nat /\ instead \in Nat
        /\ without < whole + EveryTurns
        /\ without <= rules.turns + whole \/ (rules.turns = 0 /\ rules.shown = {})
    BY <2>3, LevelsAreNumbers DEF RulesCount
  <2>5. CASE without' = 0 /\ instead' = 0 /\ rules'.turns = 0
    <3>1. EveryTurns * 0 = 0 /\ EveryTurns * (0 + 1) = EveryTurns
      BY <2>4
    <3> QED BY <2>4, <2>5, <3>1 DEF RulesCount
  <2>6. CASE without' = without + 1 /\ instead' = instead + 1 /\ rules'.turns = 0
    <3>1. EveryTurns * (instead' + 1) = whole + EveryTurns + EveryTurns /\ EveryTurns * instead' = whole + EveryTurns
      <4>1. instead + 1 \in Nat
        BY <2>4
      <4> QED BY <2>3, <2>6, <4>1, Intervals
    <3>2. without' < whole + EveryTurns + EveryTurns /\ without' <= rules'.turns + (whole + EveryTurns)
      BY <2>4, <2>6
    <3>3. without' \in Nat /\ instead' \in Nat /\ rules'.turns \in Nat
      BY <2>4, <2>6
    <3> QED BY <3>1, <3>2, <3>3 DEF RulesCount
  <2>7. CASE /\ ~(first \/ hit \/ turns >= EveryTurns)
             /\ without' = without + 1 /\ instead' = instead /\ rules'.turns = turns
    <3>1. without <= rules.turns + whole
      <4> SUFFICES ASSUME ~(without <= rules.turns + whole) PROVE FALSE
        OBVIOUS
      <4>1. rules.turns = 0 /\ rules.shown = {}
        BY <2>4
      <4>2. turns <= 1
        BY <2>1, <4>1
      <4> QED BY <2>1, <2>7, <4>1, <4>2
    <3>2. turns = rules.turns + 1 /\ turns < EveryTurns
      BY <2>1, <2>4, <2>7
    <3>3. without' < whole + EveryTurns /\ without' <= rules'.turns + whole
      BY <2>4, <2>7, <3>1, <3>2
    <3>4. without' \in Nat /\ instead' \in Nat /\ rules'.turns \in Nat
      BY <2>4, <2>7, <3>2
    <3> QED BY <2>3, <2>7, <3>3, <3>4 DEF RulesCount
  <2> QED BY <2>1, <2>2, <2>5, <2>6, <2>7
<1>2. CASE StartSession
  <2>1. rules' = [shown |-> {}, turns |-> 0] /\ UNCHANGED <<without, instead>>
    BY <1>2 DEF StartSession, NoRules
  <2>2. rules'.turns = 0 /\ rules'.shown = {}
    BY <2>1
  <2> QED BY <2>1, <2>2 DEF RulesCount
<1>3. CASE UNCHANGED <<rules, without, instead>>
  BY <1>3 DEF RulesCount
<1> QED BY <1>1, <1>2, <1>3
        DEF TriggerNext, GrowContext, StartLine, ExportPct, ExportState, CancelLine, OutdateState,
            MarkSave, AskLater, ReadState, ReadPct, JudgeStop, BlockCompact, Compact,
            flags, ghosts, triggerVars

\* SessionIsReminded of every session, for any thresholds, zones, guard and interval: the
\* Stop hook keeps silent only for a reason the user can see, and the rules come back in
\* time, however often the session is compacted.
THEOREM SessionsAreReminded == TriggerSpec => SessionIsReminded
<1>1. TriggerInv /\ [TriggerNext]_triggerVars
        => [ (stop.at = "judge" /\ stop'.at = "off" /\ stop.pct = context /\ ~strayed
              /\ Unspoken # {} /\ told' = told) => Excused(Max(Unspoken)) ]_triggerVars
  <2> SUFFICES ASSUME TriggerInv, TriggerNext, stop.at = "judge", stop'.at = "off", stop.pct = context,
                      ~strayed, Unspoken # {}, told' = told
               PROVE  Excused(Max(Unspoken))
    OBVIOUS
  <2>1. stop' # stop
    OBVIOUS
  <2>2. JudgeStop
    BY <2>1 DEF TriggerNext, GrowContext, StartLine, ExportPct, ExportState, CancelLine, OutdateState,
                MarkSave, AskLater, ReadState, ReadPct, BlockCompact, Compact, StartSession, AskPrompt
  <2> QED BY <2>2, SilenceHasCause
<1>2. TriggerInit => RulesCount
  <2>1. NoRules.turns = 0
    BY DEF NoRules
  <2>2. EveryTurns * 0 = 0 /\ EveryTurns * (0 + 1) = EveryTurns
    BY LevelsAreNumbers
  <2> QED BY <2>1, <2>2, LevelsAreNumbers DEF TriggerInit, RulesCount
<1>3. RulesCount => RulesComeBack
  BY DEF RulesCount, RulesComeBack
<1> QED BY <1>1, <1>2, <1>3, TriggerStarts, TriggerKept, RulesKept, PTL
        DEF TriggerSpec, SessionIsReminded, SilenceIsEarned

=============================================================================
