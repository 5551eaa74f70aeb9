----------------------------- MODULE Installer -----------------------------
(* The OpenCode installer (opencode/install): setup, doctor and removal of  *)
(* a few entries in files the user keeps editing.                           *)
(*                                                                          *)
(* Setup plans from what it reads, takes the lock, settles an unfinished    *)
(* transaction, checks that the plan still fits, writes a journal, changes  *)
(* the files one by one (each by an exchange that fails when the file is    *)
(* not what was read: ConditionalCommit), writes the receipt and removes    *)
(* the journal.  Removal is a journal in which all is done already and has  *)
(* to be reversed; the receipt goes last.  Every command settles the        *)
(* journal a killed one left: forward when the receipt is written, else     *)
(* backward, target by target.                                              *)
(*                                                                          *)
(* A target is [ours, mine]: the version of our entry in it (or what the    *)
(* user made of it), and the user's own part.  A target in Whole is a file  *)
(* of ours from end to end.                                                 *)
EXTENDS Naturals, Sequences, SequencesExt, FiniteSets

CONSTANTS
    Order,       \* the targets, in the order they are written
    Whole,       \* of these, the files that are all ours
    Versions,    \* what may be installed
    Runs,        \* the commands running at a time
    MaxTxn,      \* bound: how many setups and removals are started
    MaxEdits     \* bound: how often the user edits

Targets == ToSet(Order)
Missing == 0
Changed == 99    \* an entry the user wrote or changed

ASSUME InstallerAssumption ==
    /\ Order \in Seq(Targets)
    /\ "free" \notin Runs
    /\ Whole \subseteq Targets
    /\ Versions \subseteq Nat \ {Missing, Changed}
    /\ MaxTxn \in Nat /\ MaxEdits \in Nat

VARIABLES
    entry,      \* [Targets -> [ours, mine]]
    journal,    \* [phase, txn, ops, reversed, removes]; phase "none": no journal
    receipt,    \* [txn, ops]; txn 0: no receipt
    lockedBy,   \* the command that holds the lock, or "free"
    cmd,        \* [Runs -> the state of a command]
    txns,       \* transaction identifiers given out
    first,      \* what was in the targets before the first setup
    edited,     \* the targets the user edited
    undone,     \* targets given back by a removal whose receipt is still there
    overtaken   \* targets a setup began with that were not as it had planned from

ghosts == <<first, edited, undone, overtaken>>
ivars == <<entry, journal, receipt, lockedBy, cmd, txns, ghosts>>

NoOps == [t \in {} |-> Missing]
NoTransaction == [phase |-> "none", txn |-> 0, ops |-> NoOps, reversed |-> {}, removes |-> FALSE]
NoReceipt == [txn |-> 0, ops |-> NoOps]
NoCommand == [what |-> "", at |-> "idle", version |-> Missing, txn |-> 0, plan |-> NoOps, base |-> 0,
         then |-> "", todo |-> {}, seen |-> [ours |-> Missing, mine |-> 0], bad |-> FALSE]

InstallerInit ==
    /\ first \in [Targets -> {Missing, Changed}]
    /\ \A t \in Whole : first[t] = Missing
    /\ entry = [t \in Targets |-> [ours |-> first[t], mine |-> 0]]
    /\ journal = NoTransaction
    /\ receipt = NoReceipt
    /\ lockedBy = "free"
    /\ cmd = [r \in Runs |-> NoCommand]
    /\ txns = 0
    /\ edited = {}
    /\ undone = {} /\ overtaken = {}

Moves(r, at) == cmd' = [cmd EXCEPT ![r].at = at]

(* The command ends, with an error or without. *)
Ends(r) ==
    /\ cmd' = [cmd EXCEPT ![r] = NoCommand]
    /\ lockedBy' = IF lockedBy = r THEN "free" ELSE lockedBy

(* The journal is settled: plan and report go on without the lock.           *)
Continues(r) ==
    /\ Moves(r, cmd[r].then)
    /\ lockedBy' = IF cmd[r].then \in {"plan", "report"} THEN "free" ELSE lockedBy

(* reverseTarget: an entry is given back when it is ours, or back already. *)
Reversible(op, e) == e.ours \in {op.before, op.after}

(* The targets are written in their order and given back the other way.     *)
FirstOf(S) == Order[CHOOSE i \in DOMAIN Order :
                        Order[i] \in S /\ \A j \in 1 .. i - 1 : Order[j] \notin S]
LastOf(S) == Order[CHOOSE i \in DOMAIN Order :
                       Order[i] \in S /\ \A j \in i + 1 .. Len(Order) : Order[j] \notin S]

-----------------------------------------------------------------------------
(* The user edits a target: the own part, or our entry. *)
UserEdits(t) ==
    /\ Cardinality(edited) < MaxEdits \/ t \in edited
    /\ \/ /\ t \notin Whole
          /\ entry[t].mine = 0
          /\ entry' = [entry EXCEPT ![t].mine = 1]
       \/ /\ entry[t].ours \notin {Changed, Missing}
          /\ \E v \in {Missing, Changed} : entry' = [entry EXCEPT ![t].ours = v]
    /\ edited' = edited \union {t}
    /\ UNCHANGED <<journal, receipt, lockedBy, cmd, txns, first, undone, overtaken>>

(* A command is given.  Removal starts from a receipt it reads. *)
Start(r, what, v) ==
    /\ cmd[r].at = "idle"
    /\ what = "doctor" \/ txns < MaxTxn
    /\ what = "remove" => receipt.txn # 0
    /\ txns' = IF what = "doctor" THEN txns ELSE txns + 1
    /\ cmd' = [cmd EXCEPT ![r] =
          [NoCommand EXCEPT !.what = what, !.version = v, !.txn = txns', !.base = receipt.txn,
                       !.at = IF what = "remove" THEN "lock" ELSE "look",
                       !.then = "begin"]]
    /\ UNCHANGED <<entry, journal, receipt, lockedBy, ghosts>>

(* Setup and doctor settle a journal first, under the lock. *)
LookForJournal(r) ==
    /\ cmd[r].at = "look"
    /\ LET next == IF cmd[r].what = "doctor" THEN "report" ELSE "plan"
       IN  cmd' = [cmd EXCEPT ![r].at = IF journal.phase = "none" THEN next ELSE "lock",
                              ![r].then = next]
    /\ UNCHANGED <<entry, journal, receipt, lockedBy, txns, ghosts>>

-----------------------------------------------------------------------------
(* planInstall *)

(* addTargetFile: a file that is neither ours nor missing is not touched,    *)
(* nor is one of ours that is not what the receipt says.                     *)
Foreign(t, v) ==
    /\ t \in Whole
    /\ entry[t].ours # v
    /\ IF t \in DOMAIN receipt.ops THEN entry[t].ours # receipt.ops[t].after
                                   ELSE entry[t].ours # Missing

Plan(r) ==
    /\ cmd[r].at = "plan"
    /\ LET v == cmd[r].version
           targets == {t \in Targets : entry[t].ours # v}
       IN  IF \E t \in Targets : Foreign(t, v)
           THEN Ends(r) /\ UNCHANGED entry
           ELSE /\ cmd' = [cmd EXCEPT
                      ![r].plan = [t \in targets |->
                          [before |-> entry[t].ours, after |-> v, going |-> FALSE]],
                      ![r].base = receipt.txn, ![r].at = "lock", ![r].then = "begin"]
                /\ UNCHANGED lockedBy
    /\ UNCHANGED <<entry, journal, receipt, txns, ghosts>>

(* acquireInstallLock: one winner, the others give up.  A removal whose      *)
(* receipt is not the current one ends here.                                 *)
LockInstall(r) ==
    /\ cmd[r].at = "lock"
    /\ IF lockedBy # "free"
       THEN Ends(r)
       ELSE IF cmd[r].what = "remove" /\ receipt.txn # cmd[r].base
       THEN Ends(r)
       ELSE /\ lockedBy' = r
            /\ Moves(r, "settle")
    /\ UNCHANGED <<entry, journal, receipt, txns, ghosts>>

-----------------------------------------------------------------------------
(* recoverJournalUnlocked *)

(* Mutant: a journal is settled by removing it.                              *)
AltSettleJournal(r) ==
    /\ cmd[r].at = "settle"
    /\ journal' = NoTransaction
    /\ undone' = IF journal.removes THEN DOMAIN receipt.ops ELSE undone
    /\ Continues(r)
    /\ UNCHANGED <<entry, receipt, txns, first, edited, overtaken>>

(* A journal whose receipt is written, or that was brought to its end, is    *)
(* removed; another is reversed, the last target first.                      *)
SettleJournal(r) ==
    /\ cmd[r].at = "settle"
    /\ IF journal.phase = "none"
       THEN Continues(r) /\ UNCHANGED <<journal, undone>>
       ELSE IF journal.txn = receipt.txn \/ journal.phase = "committed"
       THEN /\ journal' = NoTransaction
            /\ undone' = IF journal.removes THEN DOMAIN receipt.ops ELSE undone
            /\ Continues(r)
       ELSE /\ cmd' = [cmd EXCEPT ![r].at = "reverse", ![r].bad = FALSE,
                  ![r].todo = {t \in DOMAIN journal.ops : journal.ops[t].going} \ journal.reversed]
            /\ UNCHANGED <<journal, lockedBy, undone>>
    /\ UNCHANGED <<entry, receipt, txns, first, edited, overtaken>>

(* A target is read; what is not ours any more is a conflict and stays. *)
ReverseNext(r) ==
    /\ cmd[r].at = "reverse"
    /\ cmd[r].todo # {}
    /\ LET t == LastOf(cmd[r].todo)
       IN  cmd' = IF Reversible(journal.ops[t], entry[t])
                  THEN [cmd EXCEPT ![r].at = "undo", ![r].seen = entry[t]]
                  ELSE [cmd EXCEPT ![r].todo = @ \ {t}, ![r].bad = TRUE]
    /\ UNCHANGED <<entry, journal, receipt, lockedBy, txns, ghosts>>

(* The exchange, and the note in the journal that it is done. *)
Undo(r) ==
    /\ cmd[r].at = "undo"
    /\ LET t == LastOf(cmd[r].todo)
       IN  IF entry[t] = cmd[r].seen
           THEN /\ entry' = [entry EXCEPT ![t].ours = journal.ops[t].before]
                /\ Moves(r, "note")
           ELSE /\ cmd' = [cmd EXCEPT ![r].at = "reverse", ![r].todo = @ \ {t}, ![r].bad = TRUE]
                /\ entry' = entry
    /\ UNCHANGED <<journal, receipt, lockedBy, txns, ghosts>>

NoteReversed(r) ==
    /\ cmd[r].at = "note"
    /\ LET t == LastOf(cmd[r].todo)
       IN  /\ journal' = [journal EXCEPT !.reversed = @ \union {t}]
           /\ cmd' = [cmd EXCEPT ![r].at = "reverse", ![r].todo = @ \ {t}]
    /\ UNCHANGED <<entry, receipt, lockedBy, txns, ghosts>>

(* All targets were tried. *)
JudgeReversal(r) ==
    /\ cmd[r].at = "reverse"
    /\ cmd[r].todo = {}
    /\ IF cmd[r].bad
       THEN journal' = [journal EXCEPT !.phase = "conflict"] /\ Ends(r)
       ELSE /\ journal' = [journal EXCEPT !.phase = "committed"]
            /\ Moves(r, "forget")
            /\ UNCHANGED lockedBy
    /\ UNCHANGED <<entry, receipt, txns, ghosts>>

Forget(r) ==
    /\ cmd[r].at = "forget"
    /\ journal' = NoTransaction
    /\ undone' = IF journal.removes THEN DOMAIN receipt.ops ELSE undone
    /\ Continues(r)
    /\ UNCHANGED <<entry, receipt, txns, first, edited, overtaken>>

-----------------------------------------------------------------------------
(* applyInstall, removeOwned and inspectInstall, once the journal is settled. *)

(* The receipt is the plan's, what it owns is reversible (verifyOwnedState), *)
(* and every operation fits (preflightOperations): the journal is written.   *)
BeginInstall(r) ==
    /\ cmd[r].at = "begin"
    /\ cmd[r].what = "install"
    /\ IF /\ receipt.txn = cmd[r].base
          /\ \A t \in DOMAIN receipt.ops : Reversible(receipt.ops[t], entry[t])
          /\ \A t \in DOMAIN cmd[r].plan : Reversible(cmd[r].plan[t], entry[t])
       THEN /\ journal' = [NoTransaction EXCEPT !.phase = "applying", !.txn = cmd[r].txn,
                                            !.ops = cmd[r].plan]
            /\ overtaken' = overtaken \union
                  {t \in DOMAIN cmd[r].plan : entry[t].ours # cmd[r].plan[t].before}
            /\ Moves(r, "mark")
            /\ UNCHANGED lockedBy
       ELSE Ends(r) /\ UNCHANGED <<journal, overtaken>>
    /\ UNCHANGED <<entry, receipt, txns, first, edited, undone>>

Waiting == {t \in DOMAIN journal.ops : ~journal.ops[t].going}

(* The journal says which operation is being written, before it is. *)
Mark(r) ==
    /\ cmd[r].at = "mark"
    /\ IF Waiting = {}
       THEN Moves(r, "receipt") /\ journal' = journal
       ELSE LET t == FirstOf(Waiting)
            IN  /\ journal' = [journal EXCEPT !.ops[t].going = TRUE]
                /\ cmd' = [cmd EXCEPT ![r].at = "read", ![r].todo = {t}]
    /\ UNCHANGED <<entry, receipt, lockedBy, txns, ghosts>>

(* writeOperation: what is there is read, must be the state before or after, *)
(* and is exchanged if it still is what was read.                            *)
ReadTarget(r) ==
    /\ cmd[r].at = "read"
    /\ LET t == FirstOf(cmd[r].todo)
       IN  IF Reversible(journal.ops[t], entry[t])
           THEN /\ cmd' = [cmd EXCEPT ![r].at = "swap", ![r].seen = entry[t]]
                /\ UNCHANGED lockedBy
           ELSE Ends(r)
    /\ UNCHANGED <<entry, journal, receipt, txns, ghosts>>

Swap(r) ==
    /\ cmd[r].at = "swap"
    /\ LET t == FirstOf(cmd[r].todo)
       IN  IF entry[t] = cmd[r].seen
           THEN /\ entry' = [entry EXCEPT ![t].ours = journal.ops[t].after]
                /\ Moves(r, "mark")
                /\ UNCHANGED lockedBy
           ELSE Ends(r) /\ entry' = entry
    /\ UNCHANGED <<journal, receipt, txns, ghosts>>

(* mergeOwnership: what a target was before the first setup is kept. *)
Merged(old, ops) ==
    [t \in DOMAIN old \union DOMAIN ops |->
        IF t \notin DOMAIN ops THEN old[t]
        ELSE [before |-> IF t \in DOMAIN old THEN old[t].before ELSE ops[t].before,
              after  |-> ops[t].after]]

WriteReceipt(r) ==
    /\ cmd[r].at = "receipt"
    /\ receipt' = [txn |-> journal.txn, ops |-> Merged(receipt.ops, journal.ops)]
    /\ undone' = undone \ DOMAIN journal.ops
    /\ Moves(r, "commit")
    /\ UNCHANGED <<entry, journal, lockedBy, txns, first, edited, overtaken>>

CommitJournal(r) ==
    /\ cmd[r].at = "commit"
    /\ IF journal.phase = "committed"
       THEN journal' = NoTransaction /\ Ends(r)
       ELSE /\ journal' = [journal EXCEPT !.phase = "committed"]
            /\ UNCHANGED <<cmd, lockedBy>>
    /\ UNCHANGED <<entry, receipt, txns, ghosts>>

(* Removal: a journal of the receipt's operations, all done. *)
BeginRemoval(r) ==
    /\ cmd[r].at = "begin"
    /\ cmd[r].what = "remove"
    /\ journal' = [NoTransaction EXCEPT !.phase = "applying", !.txn = cmd[r].txn, !.removes = TRUE,
                       !.ops = [t \in DOMAIN receipt.ops |->
                           [before |-> receipt.ops[t].before, after |-> receipt.ops[t].after,
                            going |-> TRUE]]]
    /\ cmd' = [cmd EXCEPT ![r].at = "settle", ![r].then = "unreceipt"]
    /\ UNCHANGED <<entry, receipt, lockedBy, txns, ghosts>>

RemoveReceipt(r) ==
    /\ cmd[r].at = "unreceipt"
    /\ receipt' = NoReceipt
    /\ undone' = {}
    /\ Ends(r)
    /\ UNCHANGED <<entry, journal, txns, first, edited, overtaken>>

(* doctor only reports. *)
Doctor(r) ==
    /\ cmd[r].at = "report"
    /\ Ends(r)
    /\ UNCHANGED <<entry, journal, receipt, txns, ghosts>>

(* The command is killed; its lock helper sees the end of its input. *)
KillCommand(r) ==
    /\ cmd[r].at # "idle"
    /\ cmd' = [cmd EXCEPT ![r] = NoCommand]
    /\ lockedBy' = IF lockedBy = r THEN "free" ELSE lockedBy
    /\ UNCHANGED <<entry, journal, receipt, txns, ghosts>>

InstallerNext ==
    \/ \E t \in Targets : UserEdits(t)
    \/ \E r \in Runs :
          \/ \E v \in Versions : Start(r, "install", v)
          \/ Start(r, "doctor", Missing) \/ Start(r, "remove", Missing)
          \/ LookForJournal(r) \/ Plan(r) \/ LockInstall(r) \/ SettleJournal(r) \/ ReverseNext(r) \/ Undo(r)
          \/ NoteReversed(r) \/ JudgeReversal(r) \/ Forget(r) \/ BeginInstall(r) \/ Mark(r) \/ ReadTarget(r)
          \/ Swap(r) \/ WriteReceipt(r) \/ CommitJournal(r) \/ BeginRemoval(r)
          \/ RemoveReceipt(r) \/ Doctor(r) \/ KillCommand(r)

InstallerSpec == InstallerInit /\ [][InstallerNext]_ivars

-----------------------------------------------------------------------------
(* Properties. *)

(* When no journal waits to be settled, the targets the user left            *)
(* alone are all as the receipt says, or, without one, all as they were      *)
(* before the first setup: however many setups, upgrades and removals were   *)
(* interrupted and settled by another command (cli.ts:569, :670, :787), and  *)
(* settling ends in a conflict only over a target the user edited.  (After a *)
(* removal that another command completed the receipt stays and is wrong.)   *)
(* The exception the code leaves: a setup plans before it has the lock       *)
(* (:316), so "before" may be what another setup had just written.  When     *)
(* that one is given back, preflightOperations accepts the target because it *)
(* is already as the plan wants it (:555), and reversing the later setup     *)
(* would restore the other's entry.                                          *)
AllOrNothing ==
    /\ journal.phase = "none" =>
          \A t \in Targets \ (edited \union overtaken) :
              entry[t].ours = IF t \in DOMAIN receipt.ops \ undone
                              THEN receipt.ops[t].after ELSE first[t]
    /\ journal.phase = "conflict" => edited \union overtaken # {}
=============================================================================
