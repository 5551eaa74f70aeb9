----------------------------- MODULE ClaudeSetup -----------------------------
(* setup, setup --repair and uninstall for Claude Code (install_cli.py,     *)
(* install_lib.py): settings.json and CLAUDE.md, which the user and Claude  *)
(* Code write as well, our scripts beside them, and the registration kept   *)
(* by the `claude` command.                                                 *)
(*                                                                          *)
(* setup copies both files, merges and appends, copies the scripts and      *)
(* registers; when a step raises it puts back what it copied.  Nothing is   *)
(* put back when it is killed.  uninstall copies the newest backups over    *)
(* the files and removes the rest.                                          *)
EXTENDS Naturals, Sequences

CONSTANTS
    Packages,     \* the packages, each at a path of its own
    Vaults,       \* paths a vault may have
    Scripts,      \* the skills, hooks and slash commands
    MaxSetups,    \* bound: how many commands are given
    MaxOwnEdits,  \* bound: how often the user edits
    Absent        \* no file, no path

Keep == 3         \* backups kept of a file (install_lib.py:19)

ASSUME SetupAssumption ==
    /\ Packages \subseteq Nat \ {0}
    /\ Absent \notin Vaults \union Packages
    /\ MaxSetups \in Nat /\ MaxOwnEdits \in Nat

VARIABLES
    settings,    \* the user's part; the package of our hooks, status line and
                 \* interpreter; the two paths under `env`: [own, ours, vault,
                 \* tools], or Absent
    memory,      \* CLAUDE.md: [own, ours], or Absent
    scripts,     \* [Scripts -> the package its copy is from, or Absent]
    mcp,         \* the vault the server is registered with, or Absent
    settingsBaks, memoryBaks,   \* the backups, the newest last
    setup,       \* the command that runs, or the last one
    before,      \* what was there when it began
    outcome,     \* how it ended: "done", "failed", "removed" or, so far, "none"
    given, ownEdits             \* commands and edits so far

svars == <<settings, memory, scripts, mcp, settingsBaks, memoryBaks, setup, before, outcome,
           given, ownEdits>>
files == <<settings, memory, scripts, mcp>>
baks == <<settingsBaks, memoryBaks>>
rest == <<before, given, ownEdits>>

NoSetup == [at |-> "over", package |-> 0, vault |-> Absent, explicit |-> FALSE,
            seen |-> Absent, settings |-> Absent, memory |-> Absent, todo |-> {},
            there |-> {}, created |-> {}, missing |-> FALSE, touched |-> FALSE,
            partly |-> FALSE, unsure |-> FALSE]

NoSettings == [own |-> 0, ours |-> 0, vault |-> Absent, tools |-> Absent]

SetupInit ==
    /\ settings \in {Absent, NoSettings}
    /\ memory \in {Absent, [own |-> 0, ours |-> FALSE]}
    /\ scripts = [s \in Scripts |-> Absent]
    /\ mcp = Absent
    /\ settingsBaks = <<>> /\ memoryBaks = <<>>
    /\ setup = NoSetup
    /\ before = files
    /\ outcome = "none"
    /\ given = 0 /\ ownEdits = 0

SetupMoves(at) == setup' = [setup EXCEPT !.at = at]

(* backup_file: a copy, of which the newest few are kept.  A second copy in  *)
(* the same second replaces the first.                                       *)
Backup(bs, file, sameSecond) ==
    LET kept == IF sameSecond /\ bs # <<>> THEN SubSeq(bs, 1, Len(bs) - 1) ELSE bs
        all == Append(kept, file)
    IN  IF file = Absent THEN bs
        ELSE SubSeq(all, IF Len(all) > Keep THEN Len(all) - Keep + 1 ELSE 1, Len(all))

-----------------------------------------------------------------------------
(* The user, or Claude Code, edits one of the files, or writes a new one.    *)
OwnEdit ==
    /\ ownEdits < MaxOwnEdits
    /\ ownEdits' = ownEdits + 1
    /\ \/ /\ settings' = [(IF settings = Absent THEN NoSettings ELSE settings)
                            EXCEPT !.own = ownEdits']
          /\ UNCHANGED memory
       \/ /\ memory' = IF memory = Absent THEN [own |-> ownEdits', ours |-> FALSE]
                       ELSE [memory EXCEPT !.own = ownEdits']
          /\ UNCHANGED settings
    /\ setup' = [setup EXCEPT !.touched = TRUE]
    /\ UNCHANGED <<scripts, mcp, baks, before, outcome, given>>

(* cmd_setup up to its try.  An explicit vault is the owner's word; with     *)
(* --repair or the prompt it is what is configured, or the default.          *)
StartSetup(p, v, explicit) ==
    /\ setup.at = "over"
    /\ given < MaxSetups
    /\ given' = given + 1
    /\ settingsBaks' = Backup(settingsBaks, settings, FALSE)
    /\ memoryBaks' = Backup(memoryBaks, memory, FALSE)
    /\ \E missing \in BOOLEAN :
          setup' = [NoSetup EXCEPT !.at = "merge", !.package = p, !.vault = v,
                       !.explicit = explicit, !.settings = settings, !.memory = memory,
                       !.missing = missing]
    /\ before' = files
    /\ outcome' = "none"
    /\ UNCHANGED <<files, ownEdits>>

(* merge_settings_json reads the file, an empty one if there is none, ...    *)
MergeReads ==
    /\ setup.at = "merge"
    /\ settings' = IF settings = Absent THEN NoSettings ELSE settings
    /\ setup' = [setup EXCEPT !.at = "merged", !.seen = settings']
    /\ UNCHANGED <<memory, scripts, mcp, baks, outcome, rest>>

(* ... drops our entries of any age, adds today's and replaces it.  Under     *)
(* `env` what is there stays: only a vault the owner named goes over it, and  *)
(* the path of the tools, which the hook before a tool is run from, is the    *)
(* one of the package that set it first.                                     *)
MergeWrites ==
    /\ setup.at = "merged"
    /\ settings' = [setup.seen EXCEPT !.ours = setup.package,
                       !.vault = IF setup.explicit \/ @ = Absent THEN setup.vault ELSE @,
                       !.tools = IF @ = Absent THEN setup.package ELSE @]
    /\ SetupMoves("append")
    /\ UNCHANGED <<memory, scripts, mcp, baks, outcome, rest>>

(* append_claude_md_block: once, after another backup. *)
AppendBlock ==
    /\ setup.at = "append"
    /\ IF memory # Absent /\ memory.ours
       THEN UNCHANGED <<memory, memoryBaks>>
       ELSE LET now == IF memory = Absent THEN [own |-> 0, ours |-> FALSE] ELSE memory
            IN  /\ \E sameSecond \in BOOLEAN : memoryBaks' = Backup(memoryBaks, now, sameSecond)
                /\ memory' = [now EXCEPT !.ours = TRUE]
    /\ setup' = [setup EXCEPT !.at = "copy", !.todo = Scripts,
                              !.there = {s \in Scripts : scripts[s] # Absent}]
    /\ UNCHANGED <<settings, scripts, mcp, settingsBaks, outcome, rest>>

(* _copy_skills, _copy_hooks, _copy_commands: a script the package lacks is  *)
(* skipped and complained of when all are through.                           *)
CopyScript(s) ==
    /\ setup.at = "copy"
    /\ s \in setup.todo
    /\ \/ scripts' = [scripts EXCEPT ![s] = setup.package]
       \/ setup.missing /\ scripts' = scripts
    /\ setup' = [setup EXCEPT !.todo = @ \ {s}]
    /\ UNCHANGED <<settings, memory, mcp, baks, outcome, rest>>

(* What is new among the scripts is known from here on. *)
CopyEnds ==
    /\ setup.at = "copy"
    /\ setup.todo = {}
    /\ setup' = [setup EXCEPT
          !.at = IF setup.missing THEN "rollback" ELSE "register",
          !.created = {s \in Scripts : scripts[s] # Absent} \ setup.there]
    /\ UNCHANGED <<files, baks, outcome, rest>>

(* A step before that raises: the disk is full, a file is locked.            *)
StepFails ==
    /\ setup.at \in {"merge", "merged", "append", "copy"}
    /\ setup' = [setup EXCEPT !.at = "rollback", !.partly = setup.at = "copy"]
    /\ UNCHANGED <<files, baks, outcome, rest>>

Succeeds ==
    /\ SetupMoves("over")
    /\ outcome' = "done"

(* _register_mcp.  The listing may not come, or name no vault; what is       *)
(* registered stays unless the owner named another vault.                    *)
ListServers ==
    /\ setup.at = "register"
    /\ \/ /\ setup' = [setup EXCEPT !.at = "over", !.unsure = TRUE]
          /\ outcome' = "done"
       \/ /\ mcp # Absent /\ (~setup.explicit \/ mcp = setup.vault)
          /\ Succeeds
       \/ /\ mcp # Absent /\ setup.explicit /\ mcp # setup.vault
          /\ SetupMoves("remove") /\ UNCHANGED outcome
       \/ /\ mcp = Absent
          /\ SetupMoves("add") /\ UNCHANGED outcome
    /\ UNCHANGED <<files, baks, rest>>

(* A command that fails changes nothing; one that runs out of time may have. *)
RemoveServer ==
    /\ setup.at = "remove"
    /\ \/ mcp' = Absent /\ SetupMoves("move")
       \/ mcp' = mcp /\ SetupMoves("rollback")
       \/ mcp' \in {mcp, Absent} /\ setup' = [setup EXCEPT !.at = "rollback", !.unsure = TRUE]
    /\ UNCHANGED <<settings, memory, scripts, baks, outcome, rest>>

(* Mutant: the old registration is not put back. *)
AltAddServer ==
    /\ setup.at \in {"add", "move"}
    /\ \/ mcp' = setup.vault /\ Succeeds
       \/ mcp' = mcp /\ SetupMoves("rollback") /\ UNCHANGED outcome
    /\ UNCHANGED <<settings, memory, scripts, baks, rest>>

AddServer ==
    /\ setup.at \in {"add", "move"}
    /\ \/ mcp' = setup.vault /\ Succeeds
       \/ /\ mcp' = mcp
          /\ SetupMoves(IF setup.at = "move" THEN "restore" ELSE "rollback")
          /\ UNCHANGED outcome
       \/ /\ mcp' \in {mcp, setup.vault}
          /\ setup' = [setup EXCEPT !.at = "rollback", !.unsure = TRUE]
          /\ UNCHANGED outcome
    /\ UNCHANGED <<settings, memory, scripts, baks, rest>>

(* The old registration is put back, unless that fails too. *)
RestoreServer ==
    /\ setup.at = "restore"
    /\ \/ mcp' = before[4] /\ SetupMoves("rollback")
       \/ mcp' = mcp /\ setup' = [setup EXCEPT !.at = "rollback", !.unsure = TRUE]
    /\ UNCHANGED <<settings, memory, scripts, baks, outcome, rest>>

(* The backups go back over the files, or the files go that were not there,  *)
(* and the new scripts with them.  What was overwritten of old ones stays.   *)
Rollback ==
    /\ setup.at = "rollback"
    /\ settings' = setup.settings
    /\ memory' = setup.memory
    /\ scripts' = [s \in Scripts |-> IF s \in setup.created THEN Absent ELSE scripts[s]]
    /\ SetupMoves("over")
    /\ outcome' = "failed"
    /\ UNCHANGED <<mcp, baks, rest>>

-----------------------------------------------------------------------------
(* cmd_uninstall. *)

Newest(bs, file) == IF bs = <<>> THEN file ELSE bs[Len(bs)]

StartUninstall ==
    /\ setup.at = "over"
    /\ given < MaxSetups
    /\ given' = given + 1
    /\ setup' = [NoSetup EXCEPT !.at = "restore files"]
    /\ before' = files
    /\ outcome' = "none"
    /\ UNCHANGED <<files, baks, ownEdits>>

RestoreFiles ==
    /\ setup.at = "restore files"
    /\ settings' = Newest(settingsBaks, settings)
    /\ memory' = Newest(memoryBaks, memory)
    /\ SetupMoves("delete")
    /\ UNCHANGED <<scripts, mcp, baks, outcome, rest>>

DeleteScripts ==
    /\ setup.at = "delete"
    /\ scripts' = [s \in Scripts |-> Absent]
    /\ SetupMoves("unregister")
    /\ UNCHANGED <<settings, memory, mcp, baks, outcome, rest>>

Unregister ==
    /\ setup.at = "unregister"
    /\ mcp' \in {mcp, Absent}
    /\ SetupMoves("over")
    /\ outcome' = "removed"
    /\ UNCHANGED <<settings, memory, scripts, baks, rest>>

(* The command is killed between two steps. *)
KillSetup ==
    /\ setup.at # "over"
    /\ SetupMoves("over")
    /\ UNCHANGED <<files, baks, outcome, rest>>

SetupNext ==
    \/ OwnEdit
    \/ \E p \in Packages, v \in Vaults, explicit \in BOOLEAN : StartSetup(p, v, explicit)
    \/ MergeReads \/ MergeWrites \/ AppendBlock \/ CopyEnds \/ StepFails
    \/ \E s \in Scripts : CopyScript(s)
    \/ ListServers \/ RemoveServer \/ AddServer \/ RestoreServer \/ Rollback
    \/ StartUninstall \/ RestoreFiles \/ DeleteScripts \/ Unregister
    \/ KillSetup

SetupSpec == SetupInit /\ [][SetupNext]_svars

-----------------------------------------------------------------------------
(* Properties. *)

(* A setup that says "Done" leaves the hooks, the interpreter and the scripts *)
(* of one package, whatever earlier ones that failed, were killed or were of *)
(* another package left, and the vault the owner named in both places; of    *)
(* the paths under `env` it overwrites none but that vault, so the tools     *)
(* stay the package's that was named there first (install_lib.py:333-360).   *)
(* One that fails leaves both files and the registration as it found them    *)
(* and none of its new scripts behind (install_cli.py:556, :271).  Left out: *)
(* what the user wrote meanwhile, the new scripts when the copying itself    *)
(* raised, and the registration when a `claude` command ran out of time or   *)
(* the way back failed.                                                      *)
DoneOrUndone ==
    LET was == [settings |-> before[1], memory |-> before[2],
                scripts |-> before[3], mcp |-> before[4]]
        had == IF was.settings = Absent THEN NoSettings ELSE was.settings
    IN  ~setup.touched =>
        /\ outcome = "done" =>
              /\ settings.ours = setup.package /\ memory.ours
              /\ \A s \in Scripts : scripts[s] = setup.package
              /\ settings.own = had.own
              /\ was.memory # Absent => memory.own = was.memory.own
              /\ settings.tools = (IF had.tools = Absent THEN setup.package ELSE had.tools)
              /\ settings.vault = (IF setup.explicit \/ had.vault = Absent THEN setup.vault
                                   ELSE had.vault)
              /\ setup.explicit /\ ~setup.unsure => mcp = setup.vault
        /\ outcome = "failed" =>
              /\ settings = was.settings /\ memory = was.memory
              /\ ~setup.partly =>
                    \A s \in Scripts : was.scripts[s] = Absent => scripts[s] = Absent
              /\ ~setup.unsure => mcp = was.mcp
=============================================================================
