------------------------- MODULE ConditionalCommit -------------------------
(* conditional_replace.py: one file is replaced, created or deleted if it   *)
(* still has the text the caller expects, while editors write and delete it *)
(* at any moment and the helper may be killed between any two steps.        *)
(*                                                                          *)
(* A commit opens the target so that nobody else can write it, compares,    *)
(* writes its intent, moves the target aside into the capture file (from    *)
(* here on the name is free), moves the new text to the name only if it is  *)
(* still free, seals the transaction, and removes capture, seal and intent  *)
(* in this order.  An intent that is there is settled first, by the seal or *)
(* by what the target and the capture hold.                                 *)
(*                                                                          *)
(* One helper runs at a time: the installer calls it under its lock.        *)
EXTENDS Naturals, FiniteSets

CONSTANTS
    Texts,     \* the texts the file may have
    None       \* no file

ASSUME CommitAssumption == None \notin Texts

VARIABLES
    target,    \* what is at the name
    capture,   \* the file that was moved aside
    intent,    \* the journal: [is, before, after]; is: "none", "torn" (created, not written) or "whole"
    seal,      \* the marker of a published text: "none", "torn" or "whole"
    helper,    \* [at, ask, expected, after, holds, seen, then]
    said,      \* the last answer
    truth,     \* what the file is, for one who sees a commit as one step
    swapped,   \* the transaction took effect
    touched,   \* an editor wrote or deleted the file since it began
    revivable  \* an editor deleted the file while a capture waited to be put back

cvars == <<target, capture, intent, seal, helper, said, truth, swapped, touched, revivable>>

NoIntent == [is |-> "none", before |-> None, after |-> None]
NoHelper == [at |-> "away", ask |-> "", expected |-> None, after |-> None,
         holds |-> FALSE, seen |-> None, then |-> ""]

CommitInit ==
    /\ target \in Texts \union {None}
    /\ capture = None
    /\ intent = NoIntent
    /\ seal = "none"
    /\ helper = NoHelper
    /\ said = ""
    /\ truth = target
    /\ swapped = FALSE /\ touched = FALSE /\ revivable = FALSE

Answers(a) ==
    /\ helper' = NoHelper
    /\ said' = a

HelperGoes(at) ==
    /\ helper' = [helper EXCEPT !.at = at]
    /\ said' = said

(* _cleanup is entered, to end with an answer.  A commit that had to settle  *)
(* an intent first does not go on to its own request.                        *)
CleansUp(a) ==
    /\ helper' = [helper EXCEPT !.at = "capture gone",
                     !.then = IF helper.ask = "commit" /\ helper.seen # "unread"
                              THEN "recovery-required" ELSE a]
    /\ said' = said

-----------------------------------------------------------------------------
(* Editors: the open handle of a commit shares reading only. *)

EditorWrites(t) ==
    /\ ~helper.holds
    /\ t # target
    /\ target' = t
    /\ truth' = t
    /\ touched' = TRUE
    /\ revivable' = FALSE
    /\ UNCHANGED <<capture, intent, seal, helper, said, swapped>>

EditorDeletes ==
    /\ ~helper.holds
    /\ target # None
    /\ target' = None
    /\ truth' = None
    /\ touched' = TRUE
    /\ revivable' = (capture # None /\ seal # "whole")
    /\ UNCHANGED <<capture, intent, seal, helper, said, swapped>>

-----------------------------------------------------------------------------
(* A request: to commit, or only to settle what an earlier one left. *)
Ask(op, e, a) ==
    /\ helper.at = "away"
    /\ helper' = [NoHelper EXCEPT !.at = IF intent.is # "none" THEN "look"
                                     ELSE IF op = "commit" THEN "open" ELSE "clean",
                              !.ask = op, !.expected = e, !.after = a, !.seen = "unread"]
    /\ said' = ""
    /\ IF intent.is = "none" THEN swapped' = FALSE /\ touched' = FALSE
                              ELSE UNCHANGED <<swapped, touched>>
    /\ UNCHANGED <<target, capture, intent, seal, truth, revivable>>

Clean ==
    /\ helper.at = "clean"
    /\ Answers("clean")
    /\ UNCHANGED <<target, capture, intent, seal, truth, swapped, touched, revivable>>

(* CreateFileW and the comparison under the handle. *)
Open ==
    /\ helper.at = "open"
    /\ IF target # helper.expected THEN Answers("conflict")
       ELSE IF target = None /\ helper.after = None THEN Answers("before")
       ELSE /\ helper' = [helper EXCEPT !.at = "journal", !.holds = target # None]
            /\ said' = said
    /\ UNCHANGED <<target, capture, intent, seal, truth, swapped, touched, revivable>>

(* _write_new of the intent: the file is there before what it says is. *)
CreateJournal ==
    /\ helper.at = "journal"
    /\ intent' = [NoIntent EXCEPT !.is = "torn"]
    /\ HelperGoes("intent")
    /\ UNCHANGED <<target, capture, seal, truth, swapped, touched, revivable>>

WriteIntent ==
    /\ helper.at = "intent"
    /\ intent' = [is |-> "whole", before |-> helper.expected, after |-> helper.after]
    /\ HelperGoes(IF helper.holds THEN "aside" ELSE "publish")
    /\ UNCHANGED <<target, capture, seal, truth, swapped, touched, revivable>>

(* The target is moved aside by its handle, and the handle is closed. *)
Capture ==
    /\ helper.at = "aside"
    /\ capture' = target
    /\ target' = None
    /\ helper' = [helper EXCEPT !.at = IF helper.after = None THEN "mark" ELSE "publish",
                                !.holds = FALSE]
    /\ UNCHANGED <<intent, seal, said, truth, swapped, touched, revivable>>

(* Mutant: the new text is moved over whatever is there. *)
AltPublish ==
    /\ helper.at = "publish"
    /\ target' = helper.after
    /\ truth' = IF target = None THEN helper.after ELSE truth
    /\ swapped' = TRUE
    /\ revivable' = FALSE
    /\ HelperGoes("mark")
    /\ UNCHANGED <<capture, intent, seal, touched>>

(* The new text gets the name if nobody took it in the meantime. *)
Publish ==
    /\ helper.at = "publish"
    /\ IF target = None
       THEN /\ target' = helper.after
            /\ truth' = helper.after
            /\ swapped' = TRUE
            /\ revivable' = FALSE
            /\ HelperGoes("mark")
       ELSE /\ Answers("conflict")
            /\ UNCHANGED <<target, truth, swapped, revivable>>
    /\ UNCHANGED <<capture, intent, seal, touched>>

CreateMarker ==
    /\ helper.at = "mark"
    /\ seal' = "torn"
    /\ HelperGoes("seal")
    /\ UNCHANGED <<target, capture, intent, truth, swapped, touched, revivable>>

(* With the seal, a deletion is done as well. *)
Seal ==
    /\ helper.at = "seal"
    /\ seal' = "whole"
    /\ truth' = IF helper.after = None THEN target ELSE truth
    /\ swapped' = TRUE
    /\ CleansUp(IF helper.after = None THEN "absent" ELSE "after")
    /\ UNCHANGED <<target, capture, intent, touched, revivable>>

-----------------------------------------------------------------------------
(* _recover *)

(* The target and the capture are hashed; a target that cannot be read, an   *)
(* editor has it open for itself, counts as absent.                          *)
ReadBoth ==
    /\ helper.at = "look"
    /\ \E seen \in {target, None} :
          /\ helper' = [helper EXCEPT !.at = "settle", !.seen = seen]
          /\ touched' = (touched \/ seen # target)
    /\ UNCHANGED <<target, capture, intent, seal, said, truth, swapped, revivable>>

Published == intent.after # None /\ helper.seen = intent.after
Untouched == helper.seen = intent.before /\ capture = None
Interrupted == helper.seen = None /\ capture = intent.before
Deleted == intent.after = None /\ helper.seen = None /\ capture = None

Resolve ==
    /\ helper.at = "settle"
    /\ LET Conflicts == Answers("recovery-conflict") /\ UNCHANGED <<target, capture>>
           Ends(a) == CleansUp(a) /\ UNCHANGED <<target, capture>>
       IN  IF intent.is = "torn" THEN Conflicts
           ELSE IF seal = "whole" THEN Ends(IF intent.after = None THEN "absent" ELSE "after")
           ELSE IF Published THEN Ends("after")
           ELSE IF Untouched THEN Ends("before")
           ELSE IF Interrupted
           THEN IF target = None
                THEN /\ target' = capture
                     /\ capture' = None
                     /\ CleansUp("before")
                ELSE Conflicts
           ELSE IF Deleted THEN Ends("absent")
           ELSE Conflicts
    /\ UNCHANGED <<intent, seal, truth, swapped, touched, revivable>>

-----------------------------------------------------------------------------
(* _cleanup: each file may refuse to go. *)

StaysBehind ==
    /\ Answers("recovery-conflict")
    /\ UNCHANGED <<capture, intent, seal, revivable>>

DropCapture ==
    /\ helper.at = "capture gone"
    /\ \/ /\ capture' = None
          /\ revivable' = (revivable /\ target # truth)
          /\ HelperGoes("marker gone")
          /\ UNCHANGED <<intent, seal>>
       \/ StaysBehind
    /\ UNCHANGED <<target, truth, swapped, touched>>

DropMarker ==
    /\ helper.at = "marker gone"
    /\ \/ /\ seal' = "none"
          /\ HelperGoes("journal gone")
          /\ UNCHANGED <<capture, intent, revivable>>
       \/ StaysBehind
    /\ UNCHANGED <<target, truth, swapped, touched>>

DropJournal ==
    /\ helper.at = "journal gone"
    /\ \/ /\ intent' = NoIntent
          /\ Answers(helper.then)
          /\ UNCHANGED <<capture, seal, revivable>>
       \/ StaysBehind
    /\ UNCHANGED <<target, truth, swapped, touched>>

(* The helper is killed: its handle is closed, the files stay. *)
KillHelper ==
    /\ helper.at # "away"
    /\ helper' = NoHelper
    /\ UNCHANGED <<target, capture, intent, seal, said, truth, swapped, touched, revivable>>

CommitNext ==
    \/ EditorDeletes
    \/ \E t \in Texts : EditorWrites(t)
    \/ Ask("recover", None, None)
    \/ \E e, a \in Texts \union {None} : e # a /\ Ask("commit", e, a)
    \/ Clean \/ Open \/ CreateJournal \/ WriteIntent \/ Capture \/ Publish
    \/ CreateMarker \/ Seal \/ ReadBoth \/ Resolve
    \/ DropCapture \/ DropMarker \/ DropJournal
    \/ KillHelper

CommitSpec == CommitInit /\ [][CommitNext]_cvars

-----------------------------------------------------------------------------
(* Properties. *)

(* Whatever editors and kills do, the file at the name is the last text an   *)
(* editor or a commit gave it; while a commit holds it aside it is in the    *)
(* capture, and an intent leads there ("an editor's file is never            *)
(* overwritten", conditional_replace.py:4).  The exception: a file an editor *)
(* deleted while a capture waited comes back with the old text (:222).       *)
FileStands ==
    /\ \/ target = truth
       \/ target = None /\ capture = truth
       \/ revivable
    /\ capture # None => intent.is = "whole"

(* What the caller is told is so: "after" and "absent" mean the exchange     *)
(* took effect, "before" and "conflict" that it did not, for a commit as for *)
(* the settling of one that was killed; an editor that wrote since then, or  *)
(* keeps the file from being read (:126), may make it look otherwise.        *)
AnswersAreTrue ==
    touched \/ CASE said \in {"after", "absent"}    -> swapped
                 [] said \in {"before", "conflict"} -> ~swapped
                 [] OTHER                           -> TRUE

(* The exchange is one step for whoever asks and whoever edits.              *)
ExchangeIsExact == FileStands /\ AnswersAreTrue
=============================================================================
