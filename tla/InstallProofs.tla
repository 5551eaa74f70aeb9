----------------------------- MODULE InstallProofs -----------------------------
(***************************************************************************)
(* Theorems about what is put on the owner's machine and taken back: the   *)
(* conditional exchange of a file by the OpenCode installer's helper,      *)
(* setup, repair and uninstall for Claude Code, and the transactions of    *)
(* the OpenCode installer.                                                 *)
(***************************************************************************)
EXTENDS ConditionalCommit, ClaudeSetup, Installer, SequenceTheorems, WellFoundedInduction, TLAPS

(***************************************************************************)
(* The conditional exchange of a file.                                     *)
(*                                                                         *)
(* The files of a transaction come and go in one order, so what the seal,  *)
(* the capture and the target say together tells how far it was when the   *)
(* helper died; and every file that is dropped is one the name no longer   *)
(* stands for.  None of this depends on who writes the file meanwhile, and *)
(* what the helper answers only on nobody having done so.                  *)
(***************************************************************************)

HelperPlaces == {"away", "look", "open", "clean", "journal", "intent", "aside", "publish", "mark",
           "seal", "settle", "capture gone", "marker gone", "journal gone"}

Contents == Texts \union {None}

IsHelper(h) ==
    h \in [at : HelperPlaces, ask : {"", "commit", "recover"}, expected : Contents,
           after : Contents, holds : BOOLEAN, seen : Contents \union {"unread"},
           then : {"", "before", "after", "absent", "recovery-required"}]

IsIntent(i) == i \in [is : {"none", "torn", "whole"}, before : Contents, after : Contents]

CommitTypeOK ==
    /\ IsHelper(helper) /\ IsIntent(intent)
    /\ seal \in {"none", "torn", "whole"}
    /\ target \in Contents /\ capture \in Contents

HelperAt(places) == helper.at \in places

\* The files of a transaction come and go in this order.
FilesInOrder ==
    /\ intent.is = "none" => seal = "none" /\ ~HelperAt({"look", "settle"})
    /\ intent.is # "whole" => capture = None /\ seal = "none"
    /\ HelperAt({"clean", "open", "journal"}) => intent.is = "none"
    /\ HelperAt({"intent"}) => intent.is = "torn"
    /\ HelperAt({"aside", "publish", "mark", "seal"}) =>
          /\ intent.is = "whole"
          /\ intent.before = helper.expected /\ intent.after = helper.after
          /\ seal # "whole"
    /\ HelperAt({"aside"}) => capture = None
    /\ HelperAt({"journal", "intent", "aside", "mark", "seal"}) =>
          (helper.after = None => helper.expected # None)
    /\ HelperAt({"publish"}) => helper.after # None
    /\ HelperAt({"capture gone", "marker gone", "journal gone"}) => intent.is = "whole"
    /\ HelperAt({"marker gone", "journal gone"}) => capture = None
    /\ HelperAt({"journal gone"}) => seal = "none"

\* The handle is open exactly while a file that is there is compared and journalled.
HandleIsHeld ==
    /\ helper.holds => HelperAt({"journal", "intent", "aside"}) /\ target = helper.expected
    /\ HelperAt({"journal", "intent"}) => (helper.holds <=> helper.expected # None)
    /\ HelperAt({"aside"}) => helper.holds /\ helper.expected # None

\* The file at the name is the last text it was given, but for one that came back.
Here == target = truth \/ revivable

NobodyIsForgotten ==
    /\ target # None => Here
    /\ target = None => truth = None \/ capture = truth \/ revivable
    /\ capture # None /\ seal # "whole" /\ target = None => truth = capture \/ revivable
    /\ seal = "whole" \/ HelperAt({"capture gone"}) => Here
    /\ HelperAt({"settle"}) /\ helper.seen # None => Here
    /\ HelperAt({"mark", "seal"}) /\ helper.after # None => Here

\* How far the transaction is, as long as no editor wrote since it began.
Undone ==
    /\ seal # "whole"
    /\ \/ target = intent.before /\ capture = None
       \/ target = None /\ capture = intent.before

Exchanged ==
    /\ target = intent.after
    /\ intent.after = None => capture = None \/ seal = "whole"

Progress ==
    /\ seal = "whole" => swapped
    /\ HelperAt({"clean", "open", "journal", "intent", "aside"}) => ~swapped
    /\ HelperAt({"publish"}) => ~swapped
    /\ intent.is = "torn" => ~swapped
    /\ intent.is = "whole" => intent.before # intent.after
    /\ HelperAt({"open", "journal", "intent"}) => helper.expected # helper.after
    /\ HelperAt({"mark", "seal"}) /\ helper.after # None => swapped
    /\ HelperAt({"mark", "seal"}) /\ helper.after = None => ~swapped
    /\ ~touched =>
          /\ HelperAt({"journal", "intent"}) => target = helper.expected
          /\ HelperAt({"publish"}) => target = None
          /\ HelperAt({"mark", "seal"}) /\ helper.after = None => target = None
          /\ HelperAt({"capture gone"}) /\ ~swapped => target = intent.before
          /\ HelperAt({"settle"}) => helper.seen = target
          /\ intent.is = "whole" => IF swapped THEN Exchanged ELSE Undone

\* What is about to be answered is so.
AnswerIsDue ==
    /\ helper.at # "away" => said = ""
    /\ HelperAt({"capture gone", "marker gone", "journal gone"}) =>
          /\ helper.then \in {"before", "after", "absent", "recovery-required"}
          /\ helper.then \in {"after", "absent"} => touched \/ swapped
          /\ helper.then = "before" => touched \/ ~swapped

CommitInv ==
    /\ CommitTypeOK /\ FilesInOrder /\ HandleIsHeld /\ NobodyIsForgotten
    /\ Progress /\ AnswerIsDue /\ AnswersAreTrue
LEMMA Away == IsHelper(NoHelper) /\ NoHelper.at = "away" /\ NoHelper.holds = FALSE
  BY DEF IsHelper, NoHelper, HelperPlaces, Contents

LEMMA Nothing == IsIntent(NoIntent) /\ NoIntent.is = "none"
  BY DEF IsIntent, NoIntent, Contents

\* What was asked for stays with the helper to the end.
SameRequest(g, h) == g.ask = h.ask /\ g.expected = h.expected /\ g.after = h.after

LEMMA KeepsEditorDeletes ==
  ASSUME CommitInv, EditorDeletes
  PROVE  CommitInv'
<1> USE CommitAssumption DEF CommitInv, CommitTypeOK, Contents, IsHelper, HelperAt, SameRequest,
    Answers, HelperGoes, CleansUp, StaysBehind, EditorDeletes
<1>1. UNCHANGED helper /\ IsHelper(helper')
  BY DEF EditorDeletes, CommitTypeOK
<1>2. CommitTypeOK'
  BY <1>1
<1>3. FilesInOrder'
  BY <1>1 DEF FilesInOrder, HandleIsHeld
<1>4. HandleIsHeld'
  BY <1>1 DEF HandleIsHeld, FilesInOrder
<1>5. NobodyIsForgotten'
  BY <1>1 DEF NobodyIsForgotten, Here, FilesInOrder, HandleIsHeld
<1>6. Progress'
  BY <1>1 DEF Progress, Exchanged, Undone, FilesInOrder, HandleIsHeld
<1>7. AnswerIsDue'
  BY <1>1 DEF AnswerIsDue, Progress
<1>8. AnswersAreTrue'
  BY <1>1 DEF AnswersAreTrue, AnswerIsDue, Progress
<1> QED
  BY <1>2, <1>3, <1>4, <1>5, <1>6, <1>7, <1>8

LEMMA KeepsEditorWrites ==
  ASSUME CommitInv, NEW t \in Texts, EditorWrites(t)
  PROVE  CommitInv'
<1> USE CommitAssumption DEF CommitInv, CommitTypeOK, Contents, IsHelper, HelperAt, SameRequest,
    Answers, HelperGoes, CleansUp, StaysBehind, EditorWrites
<1>1. UNCHANGED helper /\ IsHelper(helper')
  BY DEF EditorWrites, CommitTypeOK
<1>2. CommitTypeOK'
  BY <1>1
<1>3. FilesInOrder'
  BY <1>1 DEF FilesInOrder, HandleIsHeld
<1>4. HandleIsHeld'
  BY <1>1 DEF HandleIsHeld, FilesInOrder
<1>5. NobodyIsForgotten'
  BY <1>1 DEF NobodyIsForgotten, Here, FilesInOrder, HandleIsHeld
<1>6. Progress'
  BY <1>1 DEF Progress, Exchanged, Undone, FilesInOrder, HandleIsHeld
<1>7. AnswerIsDue'
  BY <1>1 DEF AnswerIsDue, Progress
<1>8. AnswersAreTrue'
  BY <1>1 DEF AnswersAreTrue, AnswerIsDue, Progress
<1> QED
  BY <1>2, <1>3, <1>4, <1>5, <1>6, <1>7, <1>8

LEMMA KeepsClean ==
  ASSUME CommitInv, Clean
  PROVE  CommitInv'
<1> USE CommitAssumption DEF CommitInv, CommitTypeOK, Contents, IsHelper, HelperAt, SameRequest,
    Answers, HelperGoes, CleansUp, StaysBehind, Clean
<1>1. IsHelper(helper') /\ helper'.at = "away" /\ helper'.holds = FALSE
  BY Away DEF Clean, Answers
<1>2. CommitTypeOK'
  BY <1>1
<1>3. FilesInOrder'
  BY <1>1 DEF FilesInOrder, HandleIsHeld
<1>4. HandleIsHeld'
  BY <1>1 DEF HandleIsHeld, FilesInOrder
<1>5. NobodyIsForgotten'
  BY <1>1 DEF NobodyIsForgotten, Here, FilesInOrder, HandleIsHeld
<1>6. Progress'
  BY <1>1 DEF Progress, Exchanged, Undone, FilesInOrder, HandleIsHeld
<1>7. AnswerIsDue'
  BY <1>1 DEF AnswerIsDue, Progress
<1>8. AnswersAreTrue'
  BY <1>1 DEF AnswersAreTrue, AnswerIsDue, Progress
<1> QED
  BY <1>2, <1>3, <1>4, <1>5, <1>6, <1>7, <1>8

LEMMA KeepsCreateJournal ==
  ASSUME CommitInv, CreateJournal
  PROVE  CommitInv'
<1> USE CommitAssumption DEF CommitInv, CommitTypeOK, Contents, IsHelper, HelperAt, SameRequest,
    Answers, HelperGoes, CleansUp, StaysBehind, CreateJournal
<1>1. IsHelper(helper') /\ helper'.at = "intent"
       /\ SameRequest(helper', helper) /\ helper'.holds = helper.holds
       /\ helper'.seen = helper.seen /\ helper'.then = helper.then
  BY DEF HelperPlaces, IsHelper, SameRequest, HelperGoes, CommitTypeOK
<1>2. IsIntent(intent') /\ intent'.is = "torn"
  BY DEF CreateJournal, IsIntent, NoIntent, Contents
<1>3. CommitTypeOK'
  BY <1>1, <1>2
<1>4. FilesInOrder'
  BY <1>1, <1>2 DEF FilesInOrder, HandleIsHeld
<1>5. HandleIsHeld'
  BY <1>1, <1>2 DEF HandleIsHeld, FilesInOrder
<1>6. NobodyIsForgotten'
  BY <1>1, <1>2 DEF NobodyIsForgotten, Here, FilesInOrder, HandleIsHeld
<1>7. Progress'
  BY <1>1, <1>2 DEF Progress, Exchanged, Undone, FilesInOrder, HandleIsHeld
<1>8. AnswerIsDue'
  BY <1>1, <1>2 DEF AnswerIsDue, Progress
<1>9. AnswersAreTrue'
  BY <1>1, <1>2 DEF AnswersAreTrue, AnswerIsDue, Progress
<1> QED
  BY <1>3, <1>4, <1>5, <1>6, <1>7, <1>8, <1>9

LEMMA KeepsCreateMarker ==
  ASSUME CommitInv, CreateMarker
  PROVE  CommitInv'
<1> USE CommitAssumption DEF CommitInv, CommitTypeOK, Contents, IsHelper, HelperAt, SameRequest,
    Answers, HelperGoes, CleansUp, StaysBehind, CreateMarker
<1>1. IsHelper(helper') /\ helper'.at = "seal"
       /\ SameRequest(helper', helper) /\ helper'.holds = helper.holds
       /\ helper'.seen = helper.seen /\ helper'.then = helper.then
  BY DEF HelperPlaces, IsHelper, SameRequest, HelperGoes, CommitTypeOK
<1>2. CommitTypeOK'
  BY <1>1
<1>3. FilesInOrder'
  BY <1>1 DEF FilesInOrder, HandleIsHeld
<1>4. HandleIsHeld'
  BY <1>1 DEF HandleIsHeld, FilesInOrder
<1>5. NobodyIsForgotten'
  BY <1>1 DEF NobodyIsForgotten, Here, FilesInOrder, HandleIsHeld
<1>6. Progress'
  BY <1>1 DEF Progress, Exchanged, Undone, FilesInOrder, HandleIsHeld
<1>7. AnswerIsDue'
  BY <1>1 DEF AnswerIsDue, Progress
<1>8. AnswersAreTrue'
  BY <1>1 DEF AnswersAreTrue, AnswerIsDue, Progress
<1> QED
  BY <1>2, <1>3, <1>4, <1>5, <1>6, <1>7, <1>8

LEMMA KeepsKillHelper ==
  ASSUME CommitInv, KillHelper
  PROVE  CommitInv'
<1> USE CommitAssumption DEF CommitInv, CommitTypeOK, Contents, HelperAt, KillHelper
<1>1. IsHelper(helper') /\ helper'.at = "away" /\ helper'.holds = FALSE
  BY Away DEF KillHelper, Answers
<1>2. CommitTypeOK'
  BY <1>1
<1>3. FilesInOrder'
  BY <1>1 DEF FilesInOrder, HandleIsHeld
<1>4. HandleIsHeld'
  BY <1>1 DEF HandleIsHeld, FilesInOrder
<1>5. NobodyIsForgotten'
  BY <1>1 DEF NobodyIsForgotten, Here, FilesInOrder, HandleIsHeld
<1>6. Progress'
  BY <1>1 DEF Progress, Exchanged, Undone, FilesInOrder, HandleIsHeld
<1>7. AnswerIsDue'
  BY <1>1 DEF AnswerIsDue, Progress
<1>8. AnswersAreTrue'
  BY <1>1 DEF AnswersAreTrue, AnswerIsDue, Progress
<1> QED
  BY <1>2, <1>3, <1>4, <1>5, <1>6, <1>7, <1>8

LEMMA KeepsAsk ==
  ASSUME CommitInv, NEW op \in {"commit", "recover"}, NEW e \in Contents, NEW a \in Contents,
         op = "commit" => e # a, Ask(op, e, a)
  PROVE  CommitInv'
<1> USE CommitAssumption DEF CommitInv, CommitTypeOK, Contents, HelperAt, SameRequest, Ask
<1>1. CASE intent.is # "none"
  <2>1. helper' = [NoHelper EXCEPT !.at = "look", !.ask = op, !.expected = e, !.after = a,
        !.seen = "unread"]
    BY <1>1 DEF Ask
  <2>2. IsHelper(helper') /\ helper'.at = "look" /\ helper'.expected = e /\ helper'.after = a
       /\ helper'.holds = FALSE
    BY <2>1 DEF HelperPlaces, IsHelper, NoHelper, Contents
  <2>3. CommitTypeOK'
    BY <1>1, <2>1, <2>2 DEF IsHelper
  <2>4. FilesInOrder'
    BY <1>1, <2>1, <2>2 DEF FilesInOrder, HandleIsHeld
  <2>5. HandleIsHeld'
    BY <1>1, <2>1, <2>2 DEF HandleIsHeld, FilesInOrder
  <2>6. NobodyIsForgotten'
    BY <1>1, <2>1, <2>2 DEF NobodyIsForgotten, Here, FilesInOrder, HandleIsHeld
  <2>7. Progress'
    BY <1>1, <2>1, <2>2 DEF Progress, Exchanged, Undone, FilesInOrder, HandleIsHeld
  <2>8. AnswerIsDue'
    BY <1>1, <2>1, <2>2 DEF AnswerIsDue, Progress
  <2>9. AnswersAreTrue'
    BY <1>1, <2>1, <2>2 DEF AnswersAreTrue, AnswerIsDue, Progress
  <2> QED
    BY <2>3, <2>4, <2>5, <2>6, <2>7, <2>8, <2>9
<1>2. CASE intent.is = "none" /\ op = "commit"
  <2>1. helper' = [NoHelper EXCEPT !.at = "open", !.ask = op, !.expected = e, !.after = a,
        !.seen = "unread"]
    BY <1>2 DEF Ask
  <2>2. IsHelper(helper') /\ helper'.at = "open" /\ helper'.expected = e /\ helper'.after = a
       /\ helper'.holds = FALSE
    BY <2>1 DEF HelperPlaces, IsHelper, NoHelper, Contents
  <2>3. CommitTypeOK'
    BY <1>2, <2>1, <2>2 DEF IsHelper
  <2>4. FilesInOrder'
    BY <1>2, <2>1, <2>2 DEF FilesInOrder, HandleIsHeld
  <2>5. HandleIsHeld'
    BY <1>2, <2>1, <2>2 DEF HandleIsHeld, FilesInOrder
  <2>6. NobodyIsForgotten'
    BY <1>2, <2>1, <2>2 DEF NobodyIsForgotten, Here, FilesInOrder, HandleIsHeld
  <2>7. Progress'
    BY <1>2, <2>1, <2>2 DEF Progress, Exchanged, Undone, FilesInOrder, HandleIsHeld
  <2>8. AnswerIsDue'
    BY <1>2, <2>1, <2>2 DEF AnswerIsDue, Progress
  <2>9. AnswersAreTrue'
    BY <1>2, <2>1, <2>2 DEF AnswersAreTrue, AnswerIsDue, Progress
  <2> QED
    BY <2>3, <2>4, <2>5, <2>6, <2>7, <2>8, <2>9
<1>3. CASE intent.is = "none" /\ op # "commit"
  <2>1. helper' = [NoHelper EXCEPT !.at = "clean", !.ask = op, !.expected = e, !.after = a,
        !.seen = "unread"]
    BY <1>3 DEF Ask
  <2>2. IsHelper(helper') /\ helper'.at = "clean" /\ helper'.expected = e /\ helper'.after = a
       /\ helper'.holds = FALSE
    BY <2>1 DEF HelperPlaces, IsHelper, NoHelper, Contents
  <2>3. CommitTypeOK'
    BY <1>3, <2>1, <2>2 DEF IsHelper
  <2>4. FilesInOrder'
    BY <1>3, <2>1, <2>2 DEF FilesInOrder, HandleIsHeld
  <2>5. HandleIsHeld'
    BY <1>3, <2>1, <2>2 DEF HandleIsHeld, FilesInOrder
  <2>6. NobodyIsForgotten'
    BY <1>3, <2>1, <2>2 DEF NobodyIsForgotten, Here, FilesInOrder, HandleIsHeld
  <2>7. Progress'
    BY <1>3, <2>1, <2>2 DEF Progress, Exchanged, Undone, FilesInOrder, HandleIsHeld
  <2>8. AnswerIsDue'
    BY <1>3, <2>1, <2>2 DEF AnswerIsDue, Progress
  <2>9. AnswersAreTrue'
    BY <1>3, <2>1, <2>2 DEF AnswersAreTrue, AnswerIsDue, Progress
  <2> QED
    BY <2>3, <2>4, <2>5, <2>6, <2>7, <2>8, <2>9
<1> QED
  BY <1>1, <1>2, <1>3

LEMMA KeepsWriteIntent ==
  ASSUME CommitInv, WriteIntent
  PROVE  CommitInv'
<1> USE CommitAssumption DEF CommitInv, CommitTypeOK, Contents, HelperAt, SameRequest, WriteIntent
<1>1. CASE helper.holds
  <2>1. helper' = [helper EXCEPT !.at = "aside"] /\ said' = said
    BY <1>1 DEF WriteIntent, HelperGoes
  <2>2. IsHelper(helper') /\ helper'.at = "aside"
       /\ SameRequest(helper', helper) /\ helper'.holds = helper.holds
       /\ helper'.seen = helper.seen /\ helper'.then = helper.then
    BY <2>1 DEF HelperPlaces, CommitTypeOK, IsHelper, SameRequest
  <2>3. IsIntent(intent') /\ intent'.is = "whole" /\ intent'.before = helper.expected
       /\ intent'.after = helper.after
    BY DEF WriteIntent, CommitTypeOK, IsHelper, IsIntent
  <2>4. CommitTypeOK'
    BY <1>1, <2>1, <2>2, <2>3 DEF IsHelper
  <2>5. FilesInOrder'
    BY <1>1, <2>1, <2>2, <2>3 DEF FilesInOrder, HandleIsHeld
  <2>6. HandleIsHeld'
    BY <1>1, <2>1, <2>2, <2>3 DEF HandleIsHeld, FilesInOrder
  <2>7. NobodyIsForgotten'
    BY <1>1, <2>1, <2>2, <2>3 DEF NobodyIsForgotten, Here, FilesInOrder, HandleIsHeld
  <2>8. Progress'
    BY <1>1, <2>1, <2>2, <2>3 DEF Progress, Exchanged, Undone, FilesInOrder, HandleIsHeld
  <2>9. AnswerIsDue'
    BY <1>1, <2>1, <2>2, <2>3 DEF AnswerIsDue, Progress
  <2>10. AnswersAreTrue'
    BY <1>1, <2>1, <2>2, <2>3 DEF AnswersAreTrue, AnswerIsDue, Progress
  <2> QED
    BY <2>4, <2>5, <2>6, <2>7, <2>8, <2>9, <2>10
<1>2. CASE ~helper.holds
  <2>1. helper' = [helper EXCEPT !.at = "publish"] /\ said' = said
    BY <1>2 DEF WriteIntent, HelperGoes
  <2>2. IsHelper(helper') /\ helper'.at = "publish"
       /\ SameRequest(helper', helper) /\ helper'.holds = helper.holds
       /\ helper'.seen = helper.seen /\ helper'.then = helper.then
    BY <2>1 DEF HelperPlaces, CommitTypeOK, IsHelper, SameRequest
  <2>3. IsIntent(intent') /\ intent'.is = "whole" /\ intent'.before = helper.expected
       /\ intent'.after = helper.after
    BY DEF WriteIntent, CommitTypeOK, IsHelper, IsIntent
  <2>4. CommitTypeOK'
    BY <1>2, <2>1, <2>2, <2>3 DEF IsHelper
  <2>5. FilesInOrder'
    BY <1>2, <2>1, <2>2, <2>3 DEF FilesInOrder, HandleIsHeld
  <2>6. HandleIsHeld'
    BY <1>2, <2>1, <2>2, <2>3 DEF HandleIsHeld, FilesInOrder
  <2>7. NobodyIsForgotten'
    BY <1>2, <2>1, <2>2, <2>3 DEF NobodyIsForgotten, Here, FilesInOrder, HandleIsHeld
  <2>8. Progress'
    BY <1>2, <2>1, <2>2, <2>3 DEF Progress, Exchanged, Undone, FilesInOrder, HandleIsHeld
  <2>9. AnswerIsDue'
    BY <1>2, <2>1, <2>2, <2>3 DEF AnswerIsDue, Progress
  <2>10. AnswersAreTrue'
    BY <1>2, <2>1, <2>2, <2>3 DEF AnswersAreTrue, AnswerIsDue, Progress
  <2> QED
    BY <2>4, <2>5, <2>6, <2>7, <2>8, <2>9, <2>10
<1> QED
  BY <1>1, <1>2

LEMMA KeepsCapture ==
  ASSUME CommitInv, Capture
  PROVE  CommitInv'
<1> USE CommitAssumption DEF CommitInv, CommitTypeOK, Contents, HelperAt, SameRequest, Capture
<1>1. CASE helper.after = None
  <2>1. helper' = [helper EXCEPT !.at = "mark", !.holds = FALSE] /\ said' = said
    BY <1>1 DEF Capture, HelperGoes
  <2>2. IsHelper(helper') /\ helper'.at = "mark" /\ SameRequest(helper', helper) /\
          helper'.holds = FALSE
       /\ helper'.seen = helper.seen /\ helper'.then = helper.then
    BY <2>1 DEF HelperPlaces, CommitTypeOK, IsHelper, SameRequest
  <2>3. CommitTypeOK'
    BY <1>1, <2>1, <2>2 DEF IsHelper
  <2>4. FilesInOrder'
    BY <1>1, <2>1, <2>2 DEF FilesInOrder, HandleIsHeld
  <2>5. HandleIsHeld'
    BY <1>1, <2>1, <2>2 DEF HandleIsHeld, FilesInOrder
  <2>6. NobodyIsForgotten'
    BY <1>1, <2>1, <2>2 DEF NobodyIsForgotten, Here, FilesInOrder, HandleIsHeld
  <2>7. Progress'
    BY <1>1, <2>1, <2>2 DEF Progress, Exchanged, Undone, FilesInOrder, HandleIsHeld
  <2>8. AnswerIsDue'
    BY <1>1, <2>1, <2>2 DEF AnswerIsDue, Progress
  <2>9. AnswersAreTrue'
    BY <1>1, <2>1, <2>2 DEF AnswersAreTrue, AnswerIsDue, Progress
  <2> QED
    BY <2>3, <2>4, <2>5, <2>6, <2>7, <2>8, <2>9
<1>2. CASE helper.after # None
  <2>1. helper' = [helper EXCEPT !.at = "publish", !.holds = FALSE] /\ said' = said
    BY <1>2 DEF Capture, HelperGoes
  <2>2. IsHelper(helper') /\ helper'.at = "publish" /\ SameRequest(helper', helper) /\
          helper'.holds = FALSE
       /\ helper'.seen = helper.seen /\ helper'.then = helper.then
    BY <2>1 DEF HelperPlaces, CommitTypeOK, IsHelper, SameRequest
  <2>3. CommitTypeOK'
    BY <1>2, <2>1, <2>2 DEF IsHelper
  <2>4. FilesInOrder'
    BY <1>2, <2>1, <2>2 DEF FilesInOrder, HandleIsHeld
  <2>5. HandleIsHeld'
    BY <1>2, <2>1, <2>2 DEF HandleIsHeld, FilesInOrder
  <2>6. NobodyIsForgotten'
    BY <1>2, <2>1, <2>2 DEF NobodyIsForgotten, Here, FilesInOrder, HandleIsHeld
  <2>7. Progress'
    BY <1>2, <2>1, <2>2 DEF Progress, Exchanged, Undone, FilesInOrder, HandleIsHeld
  <2>8. AnswerIsDue'
    BY <1>2, <2>1, <2>2 DEF AnswerIsDue, Progress
  <2>9. AnswersAreTrue'
    BY <1>2, <2>1, <2>2 DEF AnswersAreTrue, AnswerIsDue, Progress
  <2> QED
    BY <2>3, <2>4, <2>5, <2>6, <2>7, <2>8, <2>9
<1> QED
  BY <1>1, <1>2

LEMMA KeepsSeal ==
  ASSUME CommitInv, Seal
  PROVE  CommitInv'
<1> USE CommitAssumption DEF CommitInv, CommitTypeOK, Contents, HelperAt, SameRequest, Seal
<1>1. CASE helper.after = None
  <2>1. helper' = [helper EXCEPT !.at = "capture gone", !.then = IF helper.ask = "commit" /\
          helper.seen # "unread" THEN "recovery-required" ELSE "absent"]
       /\ said' = said
    BY <1>1 DEF Seal, CleansUp
  <2>2. IsHelper(helper') /\ helper'.at = "capture gone"
       /\ SameRequest(helper', helper) /\ helper'.holds = helper.holds
       /\ helper'.then \in {"absent", "recovery-required"}
    BY <2>1 DEF HelperPlaces, CommitTypeOK, IsHelper, SameRequest
  <2>3. CommitTypeOK'
    BY <1>1, <2>1, <2>2 DEF IsHelper
  <2>4. FilesInOrder'
    BY <1>1, <2>1, <2>2 DEF FilesInOrder, HandleIsHeld
  <2>5. HandleIsHeld'
    BY <1>1, <2>1, <2>2 DEF HandleIsHeld, FilesInOrder
  <2>6. NobodyIsForgotten'
    BY <1>1, <2>1, <2>2 DEF NobodyIsForgotten, Here, FilesInOrder, HandleIsHeld
  <2>7. Progress'
    BY <1>1, <2>1, <2>2 DEF Progress, Exchanged, Undone, FilesInOrder, HandleIsHeld
  <2>8. AnswerIsDue'
    BY <1>1, <2>1, <2>2 DEF AnswerIsDue, Progress
  <2>9. AnswersAreTrue'
    BY <1>1, <2>1, <2>2 DEF AnswersAreTrue, AnswerIsDue, Progress
  <2> QED
    BY <2>3, <2>4, <2>5, <2>6, <2>7, <2>8, <2>9
<1>2. CASE helper.after # None
  <2>1. helper' = [helper EXCEPT !.at = "capture gone", !.then = IF helper.ask = "commit" /\
          helper.seen # "unread" THEN "recovery-required" ELSE "after"]
       /\ said' = said
    BY <1>2 DEF Seal, CleansUp
  <2>2. IsHelper(helper') /\ helper'.at = "capture gone"
       /\ SameRequest(helper', helper) /\ helper'.holds = helper.holds
       /\ helper'.then \in {"after", "recovery-required"}
    BY <2>1 DEF HelperPlaces, CommitTypeOK, IsHelper, SameRequest
  <2>3. CommitTypeOK'
    BY <1>2, <2>1, <2>2 DEF IsHelper
  <2>4. FilesInOrder'
    BY <1>2, <2>1, <2>2 DEF FilesInOrder, HandleIsHeld
  <2>5. HandleIsHeld'
    BY <1>2, <2>1, <2>2 DEF HandleIsHeld, FilesInOrder
  <2>6. NobodyIsForgotten'
    BY <1>2, <2>1, <2>2 DEF NobodyIsForgotten, Here, FilesInOrder, HandleIsHeld
  <2>7. Progress'
    BY <1>2, <2>1, <2>2 DEF Progress, Exchanged, Undone, FilesInOrder, HandleIsHeld
  <2>8. AnswerIsDue'
    BY <1>2, <2>1, <2>2 DEF AnswerIsDue, Progress
  <2>9. AnswersAreTrue'
    BY <1>2, <2>1, <2>2 DEF AnswersAreTrue, AnswerIsDue, Progress
  <2> QED
    BY <2>3, <2>4, <2>5, <2>6, <2>7, <2>8, <2>9
<1> QED
  BY <1>1, <1>2

LEMMA KeepsOpen ==
  ASSUME CommitInv, Open
  PROVE  CommitInv'
<1> USE CommitAssumption DEF CommitInv, CommitTypeOK, Contents, HelperAt, SameRequest, Open
<1>1. CASE target # helper.expected
  <2>1. IsHelper(helper') /\ helper'.at = "away" /\ helper'.holds = FALSE /\ said' = "conflict"
    BY <1>1, Away DEF Open, Answers
  <2>2. CommitTypeOK'
    BY <1>1, <2>1 DEF IsHelper
  <2>3. FilesInOrder'
    BY <1>1, <2>1 DEF FilesInOrder, HandleIsHeld
  <2>4. HandleIsHeld'
    BY <1>1, <2>1 DEF HandleIsHeld, FilesInOrder
  <2>5. NobodyIsForgotten'
    BY <1>1, <2>1 DEF NobodyIsForgotten, Here, FilesInOrder, HandleIsHeld
  <2>6. Progress'
    BY <1>1, <2>1 DEF Progress, Exchanged, Undone, FilesInOrder, HandleIsHeld
  <2>7. AnswerIsDue'
    BY <1>1, <2>1 DEF AnswerIsDue, Progress
  <2>8. AnswersAreTrue'
    BY <1>1, <2>1 DEF AnswersAreTrue, AnswerIsDue, Progress
  <2> QED
    BY <2>2, <2>3, <2>4, <2>5, <2>6, <2>7, <2>8
<1>2. CASE target = helper.expected /\ target = None /\ helper.after = None
  <2>1. IsHelper(helper') /\ helper'.at = "away" /\ helper'.holds = FALSE /\ said' = "before"
    BY <1>2, Away DEF Open, Answers
  <2>2. CommitTypeOK'
    BY <1>2, <2>1 DEF IsHelper
  <2>3. FilesInOrder'
    BY <1>2, <2>1 DEF FilesInOrder, HandleIsHeld
  <2>4. HandleIsHeld'
    BY <1>2, <2>1 DEF HandleIsHeld, FilesInOrder
  <2>5. NobodyIsForgotten'
    BY <1>2, <2>1 DEF NobodyIsForgotten, Here, FilesInOrder, HandleIsHeld
  <2>6. Progress'
    BY <1>2, <2>1 DEF Progress, Exchanged, Undone, FilesInOrder, HandleIsHeld
  <2>7. AnswerIsDue'
    BY <1>2, <2>1 DEF AnswerIsDue, Progress
  <2>8. AnswersAreTrue'
    BY <1>2, <2>1 DEF AnswersAreTrue, AnswerIsDue, Progress
  <2> QED
    BY <2>2, <2>3, <2>4, <2>5, <2>6, <2>7, <2>8
<1>3. CASE target = helper.expected /\ ~(target = None /\ helper.after = None)
  <2>1. helper' = [helper EXCEPT !.at = "journal", !.holds = (target # None)] /\ said' = said
    BY <1>3 DEF Open, HelperGoes
  <2>2. IsHelper(helper') /\ helper'.at = "journal" /\ SameRequest(helper', helper) /\
          helper'.holds = (target # None)
       /\ helper'.seen = helper.seen /\ helper'.then = helper.then
    BY <2>1 DEF HelperPlaces, CommitTypeOK, IsHelper, SameRequest
  <2>3. CommitTypeOK'
    BY <1>3, <2>1, <2>2 DEF IsHelper
  <2>4. FilesInOrder'
    BY <1>3, <2>1, <2>2 DEF FilesInOrder, HandleIsHeld
  <2>5. HandleIsHeld'
    BY <1>3, <2>1, <2>2 DEF HandleIsHeld, FilesInOrder
  <2>6. NobodyIsForgotten'
    BY <1>3, <2>1, <2>2 DEF NobodyIsForgotten, Here, FilesInOrder, HandleIsHeld
  <2>7. Progress'
    BY <1>3, <2>1, <2>2 DEF Progress, Exchanged, Undone, FilesInOrder, HandleIsHeld
  <2>8. AnswerIsDue'
    BY <1>3, <2>1, <2>2 DEF AnswerIsDue, Progress
  <2>9. AnswersAreTrue'
    BY <1>3, <2>1, <2>2 DEF AnswersAreTrue, AnswerIsDue, Progress
  <2> QED
    BY <2>3, <2>4, <2>5, <2>6, <2>7, <2>8, <2>9
<1> QED
  BY <1>1, <1>2, <1>3

LEMMA KeepsPublish ==
  ASSUME CommitInv, Publish
  PROVE  CommitInv'
<1> USE CommitAssumption DEF CommitInv, CommitTypeOK, Contents, HelperAt, SameRequest, Publish
<1>1. CASE target = None
  <2>1. helper' = [helper EXCEPT !.at = "mark"] /\ said' = said
    BY <1>1 DEF Publish, HelperGoes
  <2>2. IsHelper(helper') /\ helper'.at = "mark"
       /\ SameRequest(helper', helper) /\ helper'.holds = helper.holds
       /\ helper'.seen = helper.seen /\ helper'.then = helper.then
    BY <2>1 DEF HelperPlaces, CommitTypeOK, IsHelper, SameRequest
  <2>3. CommitTypeOK'
    BY <1>1, <2>1, <2>2 DEF IsHelper
  <2>4. FilesInOrder'
    BY <1>1, <2>1, <2>2 DEF FilesInOrder, HandleIsHeld
  <2>5. HandleIsHeld'
    BY <1>1, <2>1, <2>2 DEF HandleIsHeld, FilesInOrder
  <2>6. NobodyIsForgotten'
    BY <1>1, <2>1, <2>2 DEF NobodyIsForgotten, Here, FilesInOrder, HandleIsHeld
  <2>7. Progress'
    BY <1>1, <2>1, <2>2 DEF Progress, Exchanged, Undone, FilesInOrder, HandleIsHeld
  <2>8. AnswerIsDue'
    BY <1>1, <2>1, <2>2 DEF AnswerIsDue, Progress
  <2>9. AnswersAreTrue'
    BY <1>1, <2>1, <2>2 DEF AnswersAreTrue, AnswerIsDue, Progress
  <2> QED
    BY <2>3, <2>4, <2>5, <2>6, <2>7, <2>8, <2>9
<1>2. CASE target # None
  <2>1. IsHelper(helper') /\ helper'.at = "away" /\ helper'.holds = FALSE /\ said' = "conflict"
    BY <1>2, Away DEF Publish, Answers
  <2>2. CommitTypeOK'
    BY <1>2, <2>1 DEF IsHelper
  <2>3. FilesInOrder'
    BY <1>2, <2>1 DEF FilesInOrder, HandleIsHeld
  <2>4. HandleIsHeld'
    BY <1>2, <2>1 DEF HandleIsHeld, FilesInOrder
  <2>5. NobodyIsForgotten'
    BY <1>2, <2>1 DEF NobodyIsForgotten, Here, FilesInOrder, HandleIsHeld
  <2>6. Progress'
    BY <1>2, <2>1 DEF Progress, Exchanged, Undone, FilesInOrder, HandleIsHeld
  <2>7. AnswerIsDue'
    BY <1>2, <2>1 DEF AnswerIsDue, Progress
  <2>8. AnswersAreTrue'
    BY <1>2, <2>1 DEF AnswersAreTrue, AnswerIsDue, Progress
  <2> QED
    BY <2>2, <2>3, <2>4, <2>5, <2>6, <2>7, <2>8
<1> QED
  BY <1>1, <1>2

LEMMA KeepsReadBoth ==
  ASSUME CommitInv, ReadBoth
  PROVE  CommitInv'
<1> USE CommitAssumption DEF CommitInv, CommitTypeOK, Contents, HelperAt, SameRequest, ReadBoth
<1>1. PICK seen \in {target, None} :
        /\ helper' = [helper EXCEPT !.at = "settle", !.seen = seen]
        /\ touched' = (touched \/ seen # target)
  BY DEF ReadBoth
<1>2. seen \in Contents
  BY DEF CommitTypeOK, Contents
<1>3. IsHelper(helper') /\ helper'.at = "settle" /\ SameRequest(helper', helper)
     /\ helper'.holds = helper.holds /\ helper'.seen = seen /\ helper'.then = helper.then
  BY <1>1, <1>2 DEF HelperPlaces, CommitTypeOK, IsHelper, SameRequest
<1>4. CommitTypeOK'
  BY <1>1, <1>2, <1>3 DEF IsHelper
<1>5. FilesInOrder'
  BY <1>1, <1>2, <1>3 DEF FilesInOrder, HandleIsHeld
<1>6. HandleIsHeld'
  BY <1>1, <1>2, <1>3 DEF HandleIsHeld, FilesInOrder
<1>7. NobodyIsForgotten'
  BY <1>1, <1>2, <1>3 DEF NobodyIsForgotten, Here, FilesInOrder, HandleIsHeld
<1>8. Progress'
  BY <1>1, <1>2, <1>3 DEF Progress, Exchanged, Undone, FilesInOrder, HandleIsHeld
<1>9. AnswerIsDue'
  BY <1>1, <1>2, <1>3 DEF AnswerIsDue, Progress
<1>10. AnswersAreTrue'
  BY <1>1, <1>2, <1>3 DEF AnswersAreTrue, AnswerIsDue, Progress
<1> QED
  BY <1>4, <1>5, <1>6, <1>7, <1>8, <1>9, <1>10

LEMMA KeepsResolve ==
  ASSUME CommitInv, Resolve
  PROVE  CommitInv'
<1> USE CommitAssumption DEF CommitInv, CommitTypeOK, Contents, HelperAt, SameRequest,
    Published, Untouched, Interrupted, Deleted, Exchanged, Undone
<1>0. helper.at = "settle" /\ UNCHANGED <<intent, seal, truth, swapped, touched, revivable>>
  BY DEF Resolve
<1>1. CASE intent.is = "torn"
  <2>1. IsHelper(helper') /\ helper'.at = "away" /\ helper'.holds = FALSE /\ UNCHANGED <<target,
          capture>> /\ said' = "recovery-conflict"
    BY <1>0, <1>1, Away DEF Resolve, Answers, Published, Untouched, Interrupted, Deleted
  <2>2. CommitTypeOK'
    BY <1>0, <1>1, <2>1 DEF IsHelper
  <2>3. FilesInOrder'
    BY <1>0, <1>1, <2>1 DEF FilesInOrder, HandleIsHeld
  <2>4. HandleIsHeld'
    BY <1>0, <1>1, <2>1 DEF HandleIsHeld, FilesInOrder
  <2>5. NobodyIsForgotten'
    BY <1>0, <1>1, <2>1 DEF NobodyIsForgotten, Here, FilesInOrder, HandleIsHeld
  <2>6. Progress'
    BY <1>0, <1>1, <2>1 DEF Progress, FilesInOrder, HandleIsHeld
  <2>7. AnswerIsDue'
    BY <1>0, <1>1, <2>1 DEF AnswerIsDue, Progress
  <2>8. AnswersAreTrue'
    BY <1>0, <1>1, <2>1 DEF AnswersAreTrue, AnswerIsDue, Progress
  <2> QED
    BY <2>2, <2>3, <2>4, <2>5, <2>6, <2>7, <2>8
<1>2. CASE intent.is = "whole" /\ seal = "whole" /\ intent.after = None
  <2>1. helper' = [helper EXCEPT !.at = "capture gone", !.then = IF helper.ask = "commit" /\
          helper.seen # "unread" THEN "recovery-required" ELSE "absent"]
       /\ said' = said /\ UNCHANGED <<target, capture>>
    BY <1>0, <1>2 DEF Resolve, CleansUp, Published, Untouched, Interrupted, Deleted
  <2>2. IsHelper(helper') /\ helper'.at = "capture gone"
       /\ SameRequest(helper', helper) /\ helper'.holds = helper.holds
       /\ helper'.then \in {"absent", "recovery-required"}
    BY <2>1 DEF HelperPlaces, CommitTypeOK, IsHelper, SameRequest
  <2>3. CommitTypeOK'
    BY <1>0, <1>2, <2>1, <2>2 DEF IsHelper
  <2>4. FilesInOrder'
    BY <1>0, <1>2, <2>1, <2>2 DEF FilesInOrder, HandleIsHeld
  <2>5. HandleIsHeld'
    BY <1>0, <1>2, <2>1, <2>2 DEF HandleIsHeld, FilesInOrder
  <2>6. NobodyIsForgotten'
    BY <1>0, <1>2, <2>1, <2>2 DEF NobodyIsForgotten, Here, FilesInOrder, HandleIsHeld
  <2>7. Progress'
    BY <1>0, <1>2, <2>1, <2>2 DEF Progress, FilesInOrder, HandleIsHeld
  <2>8. AnswerIsDue'
    BY <1>0, <1>2, <2>1, <2>2 DEF AnswerIsDue, Progress
  <2>9. AnswersAreTrue'
    BY <1>0, <1>2, <2>1, <2>2 DEF AnswersAreTrue, AnswerIsDue, Progress
  <2> QED
    BY <2>3, <2>4, <2>5, <2>6, <2>7, <2>8, <2>9
<1>3. CASE intent.is = "whole" /\ seal = "whole" /\ intent.after # None
  <2>1. helper' = [helper EXCEPT !.at = "capture gone", !.then = IF helper.ask = "commit" /\
          helper.seen # "unread" THEN "recovery-required" ELSE "after"]
       /\ said' = said /\ UNCHANGED <<target, capture>>
    BY <1>0, <1>3 DEF Resolve, CleansUp, Published, Untouched, Interrupted, Deleted
  <2>2. IsHelper(helper') /\ helper'.at = "capture gone"
       /\ SameRequest(helper', helper) /\ helper'.holds = helper.holds
       /\ helper'.then \in {"after", "recovery-required"}
    BY <2>1 DEF HelperPlaces, CommitTypeOK, IsHelper, SameRequest
  <2>3. CommitTypeOK'
    BY <1>0, <1>3, <2>1, <2>2 DEF IsHelper
  <2>4. FilesInOrder'
    BY <1>0, <1>3, <2>1, <2>2 DEF FilesInOrder, HandleIsHeld
  <2>5. HandleIsHeld'
    BY <1>0, <1>3, <2>1, <2>2 DEF HandleIsHeld, FilesInOrder
  <2>6. NobodyIsForgotten'
    BY <1>0, <1>3, <2>1, <2>2 DEF NobodyIsForgotten, Here, FilesInOrder, HandleIsHeld
  <2>7. Progress'
    BY <1>0, <1>3, <2>1, <2>2 DEF Progress, FilesInOrder, HandleIsHeld
  <2>8. AnswerIsDue'
    BY <1>0, <1>3, <2>1, <2>2 DEF AnswerIsDue, Progress
  <2>9. AnswersAreTrue'
    BY <1>0, <1>3, <2>1, <2>2 DEF AnswersAreTrue, AnswerIsDue, Progress
  <2> QED
    BY <2>3, <2>4, <2>5, <2>6, <2>7, <2>8, <2>9
<1>4. CASE intent.is = "whole" /\ seal # "whole" /\ Published
  <2>1. helper' = [helper EXCEPT !.at = "capture gone", !.then = IF helper.ask = "commit" /\
          helper.seen # "unread" THEN "recovery-required" ELSE "after"]
       /\ said' = said /\ UNCHANGED <<target, capture>>
    BY <1>0, <1>4 DEF Resolve, CleansUp, Published, Untouched, Interrupted, Deleted
  <2>2. IsHelper(helper') /\ helper'.at = "capture gone"
       /\ SameRequest(helper', helper) /\ helper'.holds = helper.holds
       /\ helper'.then \in {"after", "recovery-required"}
    BY <2>1 DEF HelperPlaces, CommitTypeOK, IsHelper, SameRequest
  <2>3. CommitTypeOK'
    BY <1>0, <1>4, <2>1, <2>2 DEF IsHelper
  <2>4. FilesInOrder'
    BY <1>0, <1>4, <2>1, <2>2 DEF FilesInOrder, HandleIsHeld
  <2>5. HandleIsHeld'
    BY <1>0, <1>4, <2>1, <2>2 DEF HandleIsHeld, FilesInOrder
  <2>6. NobodyIsForgotten'
    BY <1>0, <1>4, <2>1, <2>2 DEF NobodyIsForgotten, Here, FilesInOrder, HandleIsHeld
  <2>7. Progress'
    BY <1>0, <1>4, <2>1, <2>2 DEF Progress, FilesInOrder, HandleIsHeld
  <2>8. AnswerIsDue'
    BY <1>0, <1>4, <2>1, <2>2 DEF AnswerIsDue, Progress
  <2>9. AnswersAreTrue'
    BY <1>0, <1>4, <2>1, <2>2 DEF AnswersAreTrue, AnswerIsDue, Progress
  <2> QED
    BY <2>3, <2>4, <2>5, <2>6, <2>7, <2>8, <2>9
<1>5. CASE intent.is = "whole" /\ seal # "whole" /\ ~Published /\ Untouched
  <2>1. helper' = [helper EXCEPT !.at = "capture gone", !.then = IF helper.ask = "commit" /\
          helper.seen # "unread" THEN "recovery-required" ELSE "before"]
       /\ said' = said /\ UNCHANGED <<target, capture>>
    BY <1>0, <1>5 DEF Resolve, CleansUp, Published, Untouched, Interrupted, Deleted
  <2>2. IsHelper(helper') /\ helper'.at = "capture gone"
       /\ SameRequest(helper', helper) /\ helper'.holds = helper.holds
       /\ helper'.then \in {"before", "recovery-required"}
    BY <2>1 DEF HelperPlaces, CommitTypeOK, IsHelper, SameRequest
  <2>3. CommitTypeOK'
    BY <1>0, <1>5, <2>1, <2>2 DEF IsHelper
  <2>4. FilesInOrder'
    BY <1>0, <1>5, <2>1, <2>2 DEF FilesInOrder, HandleIsHeld
  <2>5. HandleIsHeld'
    BY <1>0, <1>5, <2>1, <2>2 DEF HandleIsHeld, FilesInOrder
  <2>6. NobodyIsForgotten'
    BY <1>0, <1>5, <2>1, <2>2 DEF NobodyIsForgotten, Here, FilesInOrder, HandleIsHeld
  <2>7. Progress'
    BY <1>0, <1>5, <2>1, <2>2 DEF Progress, FilesInOrder, HandleIsHeld
  <2>8. AnswerIsDue'
    BY <1>0, <1>5, <2>1, <2>2 DEF AnswerIsDue, Progress
  <2>9. AnswersAreTrue'
    BY <1>0, <1>5, <2>1, <2>2 DEF AnswersAreTrue, AnswerIsDue, Progress
  <2> QED
    BY <2>3, <2>4, <2>5, <2>6, <2>7, <2>8, <2>9
<1>6. CASE /\ intent.is = "whole" /\ seal # "whole"
           /\ ~Published /\ ~Untouched /\ Interrupted /\ target = None
  <2>1. helper' = [helper EXCEPT !.at = "capture gone", !.then = IF helper.ask = "commit" /\
          helper.seen # "unread" THEN "recovery-required" ELSE "before"]
       /\ said' = said /\ target' = capture /\ capture' = None
    BY <1>0, <1>6 DEF Resolve, CleansUp, Published, Untouched, Interrupted, Deleted
  <2>2. IsHelper(helper') /\ helper'.at = "capture gone"
       /\ SameRequest(helper', helper) /\ helper'.holds = helper.holds
       /\ helper'.then \in {"before", "recovery-required"}
    BY <2>1 DEF HelperPlaces, CommitTypeOK, IsHelper, SameRequest
  <2>3. CommitTypeOK'
    BY <1>0, <1>6, <2>1, <2>2 DEF IsHelper
  <2>4. FilesInOrder'
    BY <1>0, <1>6, <2>1, <2>2 DEF FilesInOrder, HandleIsHeld
  <2>5. HandleIsHeld'
    BY <1>0, <1>6, <2>1, <2>2 DEF HandleIsHeld, FilesInOrder
  <2>6. NobodyIsForgotten'
    BY <1>0, <1>6, <2>1, <2>2 DEF NobodyIsForgotten, Here, FilesInOrder, HandleIsHeld
  <2>7. Progress'
    BY <1>0, <1>6, <2>1, <2>2 DEF Progress, FilesInOrder, HandleIsHeld
  <2>8. AnswerIsDue'
    BY <1>0, <1>6, <2>1, <2>2 DEF AnswerIsDue, Progress
  <2>9. AnswersAreTrue'
    BY <1>0, <1>6, <2>1, <2>2 DEF AnswersAreTrue, AnswerIsDue, Progress
  <2> QED
    BY <2>3, <2>4, <2>5, <2>6, <2>7, <2>8, <2>9
<1>7. CASE /\ intent.is = "whole" /\ seal # "whole"
           /\ ~Published /\ ~Untouched /\ Interrupted /\ target # None
  <2>1. IsHelper(helper') /\ helper'.at = "away" /\ helper'.holds = FALSE /\ UNCHANGED <<target,
          capture>> /\ said' = "recovery-conflict"
    BY <1>0, <1>7, Away DEF Resolve, Answers, Published, Untouched, Interrupted, Deleted
  <2>2. CommitTypeOK'
    BY <1>0, <1>7, <2>1 DEF IsHelper
  <2>3. FilesInOrder'
    BY <1>0, <1>7, <2>1 DEF FilesInOrder, HandleIsHeld
  <2>4. HandleIsHeld'
    BY <1>0, <1>7, <2>1 DEF HandleIsHeld, FilesInOrder
  <2>5. NobodyIsForgotten'
    BY <1>0, <1>7, <2>1 DEF NobodyIsForgotten, Here, FilesInOrder, HandleIsHeld
  <2>6. Progress'
    BY <1>0, <1>7, <2>1 DEF Progress, FilesInOrder, HandleIsHeld
  <2>7. AnswerIsDue'
    BY <1>0, <1>7, <2>1 DEF AnswerIsDue, Progress
  <2>8. AnswersAreTrue'
    BY <1>0, <1>7, <2>1 DEF AnswersAreTrue, AnswerIsDue, Progress
  <2> QED
    BY <2>2, <2>3, <2>4, <2>5, <2>6, <2>7, <2>8
<1>8. CASE /\ intent.is = "whole" /\ seal # "whole"
           /\ ~Published /\ ~Untouched /\ ~Interrupted /\ Deleted
  <2>1. helper' = [helper EXCEPT !.at = "capture gone", !.then = IF helper.ask = "commit" /\
          helper.seen # "unread" THEN "recovery-required" ELSE "absent"]
       /\ said' = said /\ UNCHANGED <<target, capture>>
    BY <1>0, <1>8 DEF Resolve, CleansUp, Published, Untouched, Interrupted, Deleted
  <2>2. IsHelper(helper') /\ helper'.at = "capture gone"
       /\ SameRequest(helper', helper) /\ helper'.holds = helper.holds
       /\ helper'.then \in {"absent", "recovery-required"}
    BY <2>1 DEF HelperPlaces, CommitTypeOK, IsHelper, SameRequest
  <2>3. CommitTypeOK'
    BY <1>0, <1>8, <2>1, <2>2 DEF IsHelper
  <2>4. FilesInOrder'
    BY <1>0, <1>8, <2>1, <2>2 DEF FilesInOrder, HandleIsHeld
  <2>5. HandleIsHeld'
    BY <1>0, <1>8, <2>1, <2>2 DEF HandleIsHeld, FilesInOrder
  <2>6. NobodyIsForgotten'
    BY <1>0, <1>8, <2>1, <2>2 DEF NobodyIsForgotten, Here, FilesInOrder, HandleIsHeld
  <2>7. Progress'
    BY <1>0, <1>8, <2>1, <2>2 DEF Progress, FilesInOrder, HandleIsHeld
  <2>8. AnswerIsDue'
    BY <1>0, <1>8, <2>1, <2>2 DEF AnswerIsDue, Progress
  <2>9. AnswersAreTrue'
    BY <1>0, <1>8, <2>1, <2>2 DEF AnswersAreTrue, AnswerIsDue, Progress
  <2> QED
    BY <2>3, <2>4, <2>5, <2>6, <2>7, <2>8, <2>9
<1>9. CASE /\ intent.is = "whole" /\ seal # "whole"
           /\ ~Published /\ ~Untouched /\ ~Interrupted /\ ~Deleted
  <2>1. IsHelper(helper') /\ helper'.at = "away" /\ helper'.holds = FALSE /\ UNCHANGED <<target,
          capture>> /\ said' = "recovery-conflict"
    BY <1>0, <1>9, Away DEF Resolve, Answers, Published, Untouched, Interrupted, Deleted
  <2>2. CommitTypeOK'
    BY <1>0, <1>9, <2>1 DEF IsHelper
  <2>3. FilesInOrder'
    BY <1>0, <1>9, <2>1 DEF FilesInOrder, HandleIsHeld
  <2>4. HandleIsHeld'
    BY <1>0, <1>9, <2>1 DEF HandleIsHeld, FilesInOrder
  <2>5. NobodyIsForgotten'
    BY <1>0, <1>9, <2>1 DEF NobodyIsForgotten, Here, FilesInOrder, HandleIsHeld
  <2>6. Progress'
    BY <1>0, <1>9, <2>1 DEF Progress, FilesInOrder, HandleIsHeld
  <2>7. AnswerIsDue'
    BY <1>0, <1>9, <2>1 DEF AnswerIsDue, Progress
  <2>8. AnswersAreTrue'
    BY <1>0, <1>9, <2>1 DEF AnswersAreTrue, AnswerIsDue, Progress
  <2> QED
    BY <2>2, <2>3, <2>4, <2>5, <2>6, <2>7, <2>8
<1> QED
  BY <1>0, <1>1, <1>2, <1>3, <1>4, <1>5, <1>6, <1>7, <1>8, <1>9 DEF CommitTypeOK, IsIntent,
      FilesInOrder, HelperAt

LEMMA KeepsDropCapture ==
  ASSUME CommitInv, DropCapture
  PROVE  CommitInv'
<1> USE CommitAssumption DEF CommitInv, CommitTypeOK, Contents, IsHelper, HelperAt, SameRequest,
    Answers, HelperGoes, CleansUp, StaysBehind, DropCapture
<1>1. CASE capture' = None /\ HelperGoes("marker gone") /\ UNCHANGED intent
  <2>1. IsHelper(helper') /\ helper'.at = "marker gone"
       /\ SameRequest(helper', helper) /\ helper'.holds = helper.holds
     /\ helper'.seen = helper.seen /\ helper'.then = helper.then
    BY <1>1 DEF HelperPlaces, IsHelper, SameRequest, HelperGoes, CommitTypeOK
  <2>0. UNCHANGED <<seal, said>>
    BY <1>1 DEF DropCapture, StaysBehind, HelperGoes, Answers
  <2>2. CommitTypeOK'
    BY <1>1, <2>0, <2>1
  <2>3. FilesInOrder'
    BY <1>1, <2>0, <2>1 DEF FilesInOrder, HandleIsHeld
  <2>4. HandleIsHeld'
    BY <1>1, <2>0, <2>1 DEF HandleIsHeld, FilesInOrder
  <2>5. NobodyIsForgotten'
    BY <1>1, <2>0, <2>1 DEF NobodyIsForgotten, Here, FilesInOrder, HandleIsHeld
  <2>6. Progress'
    BY <1>1, <2>0, <2>1 DEF Progress, Exchanged, Undone, FilesInOrder, HandleIsHeld
  <2>7. AnswerIsDue'
    BY <1>1, <2>0, <2>1 DEF AnswerIsDue, Progress
  <2>8. AnswersAreTrue'
    BY <1>1, <2>0, <2>1 DEF AnswersAreTrue, AnswerIsDue, Progress
  <2> QED
    BY <2>2, <2>3, <2>4, <2>5, <2>6, <2>7, <2>8
<1>2. CASE StaysBehind
  <2>1. IsHelper(helper') /\ helper'.at = "away" /\ helper'.holds = FALSE
    BY <1>2, Away DEF StaysBehind, Answers
  <2>2. CommitTypeOK'
    BY <1>2, <2>1
  <2>3. FilesInOrder'
    BY <1>2, <2>1 DEF FilesInOrder, HandleIsHeld
  <2>4. HandleIsHeld'
    BY <1>2, <2>1 DEF HandleIsHeld, FilesInOrder
  <2>5. NobodyIsForgotten'
    BY <1>2, <2>1 DEF NobodyIsForgotten, Here, FilesInOrder, HandleIsHeld
  <2>6. Progress'
    BY <1>2, <2>1 DEF Progress, Exchanged, Undone, FilesInOrder, HandleIsHeld
  <2>7. AnswerIsDue'
    BY <1>2, <2>1 DEF AnswerIsDue, Progress
  <2>8. AnswersAreTrue'
    BY <1>2, <2>1 DEF AnswersAreTrue, AnswerIsDue, Progress
  <2> QED
    BY <2>2, <2>3, <2>4, <2>5, <2>6, <2>7, <2>8
<1> QED
  BY <1>1, <1>2 DEF DropCapture

LEMMA KeepsDropMarker ==
  ASSUME CommitInv, DropMarker
  PROVE  CommitInv'
<1> USE CommitAssumption DEF CommitInv, CommitTypeOK, Contents, IsHelper, HelperAt, SameRequest,
    Answers, HelperGoes, CleansUp, StaysBehind, DropMarker
<1>1. CASE seal' = "none" /\ HelperGoes("journal gone") /\ UNCHANGED intent
  <2>1. IsHelper(helper') /\ helper'.at = "journal gone"
       /\ SameRequest(helper', helper) /\ helper'.holds = helper.holds
     /\ helper'.seen = helper.seen /\ helper'.then = helper.then
    BY <1>1 DEF HelperPlaces, IsHelper, SameRequest, HelperGoes, CommitTypeOK
  <2>0. UNCHANGED <<capture, revivable, said>>
    BY <1>1 DEF DropMarker, StaysBehind, HelperGoes, Answers
  <2>2. CommitTypeOK'
    BY <1>1, <2>0, <2>1
  <2>3. FilesInOrder'
    BY <1>1, <2>0, <2>1 DEF FilesInOrder, HandleIsHeld
  <2>4. HandleIsHeld'
    BY <1>1, <2>0, <2>1 DEF HandleIsHeld, FilesInOrder
  <2>5. NobodyIsForgotten'
    BY <1>1, <2>0, <2>1 DEF NobodyIsForgotten, Here, FilesInOrder, HandleIsHeld
  <2>6. Progress'
    BY <1>1, <2>0, <2>1 DEF Progress, Exchanged, Undone, FilesInOrder, HandleIsHeld
  <2>7. AnswerIsDue'
    BY <1>1, <2>0, <2>1 DEF AnswerIsDue, Progress
  <2>8. AnswersAreTrue'
    BY <1>1, <2>0, <2>1 DEF AnswersAreTrue, AnswerIsDue, Progress
  <2> QED
    BY <2>2, <2>3, <2>4, <2>5, <2>6, <2>7, <2>8
<1>2. CASE StaysBehind
  <2>1. IsHelper(helper') /\ helper'.at = "away" /\ helper'.holds = FALSE
    BY <1>2, Away DEF StaysBehind, Answers
  <2>2. CommitTypeOK'
    BY <1>2, <2>1
  <2>3. FilesInOrder'
    BY <1>2, <2>1 DEF FilesInOrder, HandleIsHeld
  <2>4. HandleIsHeld'
    BY <1>2, <2>1 DEF HandleIsHeld, FilesInOrder
  <2>5. NobodyIsForgotten'
    BY <1>2, <2>1 DEF NobodyIsForgotten, Here, FilesInOrder, HandleIsHeld
  <2>6. Progress'
    BY <1>2, <2>1 DEF Progress, Exchanged, Undone, FilesInOrder, HandleIsHeld
  <2>7. AnswerIsDue'
    BY <1>2, <2>1 DEF AnswerIsDue, Progress
  <2>8. AnswersAreTrue'
    BY <1>2, <2>1 DEF AnswersAreTrue, AnswerIsDue, Progress
  <2> QED
    BY <2>2, <2>3, <2>4, <2>5, <2>6, <2>7, <2>8
<1> QED
  BY <1>1, <1>2 DEF DropMarker

LEMMA KeepsDropJournal ==
  ASSUME CommitInv, DropJournal
  PROVE  CommitInv'
<1> USE CommitAssumption DEF CommitInv, CommitTypeOK, Contents, IsHelper, HelperAt, SameRequest,
    Answers, HelperGoes, CleansUp, StaysBehind, DropJournal
<1>1. IsHelper(helper') /\ helper'.at = "away" /\ helper'.holds = FALSE
  BY Away DEF DropJournal, StaysBehind, Answers
<1>2. IsIntent(intent') /\ (intent' = intent \/ intent'.is = "none")
  BY Nothing DEF DropJournal, StaysBehind, CommitTypeOK
<1>3. CommitTypeOK'
  BY <1>1, <1>2
<1>4. FilesInOrder'
  BY <1>1, <1>2 DEF FilesInOrder, HandleIsHeld
<1>5. HandleIsHeld'
  BY <1>1, <1>2 DEF HandleIsHeld, FilesInOrder
<1>6. NobodyIsForgotten'
  BY <1>1, <1>2 DEF NobodyIsForgotten, Here, FilesInOrder, HandleIsHeld
<1>7. Progress'
  BY <1>1, <1>2 DEF Progress, Exchanged, Undone, FilesInOrder, HandleIsHeld
<1>8. AnswerIsDue'
  BY <1>1, <1>2 DEF AnswerIsDue, Progress
<1>9. AnswersAreTrue'
  BY <1>1, <1>2 DEF AnswersAreTrue, AnswerIsDue, Progress
<1> QED
  BY <1>3, <1>4, <1>5, <1>6, <1>7, <1>8, <1>9

LEMMA CommitInitially == CommitInit => CommitInv
<1> SUFFICES ASSUME CommitInit PROVE CommitInv
  OBVIOUS
<1> USE CommitAssumption, Away, Nothing DEF CommitInit
<1>1. CommitTypeOK
  BY DEF CommitTypeOK, Contents
<1>2. FilesInOrder /\ HandleIsHeld
  BY DEF FilesInOrder, HandleIsHeld, HelperAt
<1>3. NobodyIsForgotten
  BY DEF NobodyIsForgotten, HelperAt, Here
<1>4. Progress /\ AnswerIsDue /\ AnswersAreTrue
  BY DEF Progress, AnswerIsDue, AnswersAreTrue, HelperAt
<1> QED
  BY <1>1, <1>2, <1>3, <1>4 DEF CommitInv

LEMMA CommitInvKept == CommitInv /\ [CommitNext]_cvars => CommitInv'
<1> SUFFICES ASSUME CommitInv, [CommitNext]_cvars PROVE CommitInv'
  OBVIOUS
<1>1. CASE EditorDeletes
  BY <1>1, KeepsEditorDeletes
<1>2. CASE \E t \in Texts : EditorWrites(t)
  BY <1>2, KeepsEditorWrites
<1>3. CASE Ask("recover", None, None)
  BY <1>3, KeepsAsk DEF Contents
<1>4. CASE \E e, a \in Contents : e # a /\ Ask("commit", e, a)
  BY <1>4, KeepsAsk
<1>5. CASE Clean
  BY <1>5, KeepsClean
<1>6. CASE Open
  BY <1>6, KeepsOpen
<1>7. CASE CreateJournal
  BY <1>7, KeepsCreateJournal
<1>8. CASE WriteIntent
  BY <1>8, KeepsWriteIntent
<1>9. CASE Capture
  BY <1>9, KeepsCapture
<1>10. CASE Publish
  BY <1>10, KeepsPublish
<1>11. CASE CreateMarker
  BY <1>11, KeepsCreateMarker
<1>12. CASE Seal
  BY <1>12, KeepsSeal
<1>13. CASE ReadBoth
  BY <1>13, KeepsReadBoth
<1>14. CASE Resolve
  BY <1>14, KeepsResolve
<1>15. CASE DropCapture
  BY <1>15, KeepsDropCapture
<1>16. CASE DropMarker
  BY <1>16, KeepsDropMarker
<1>17. CASE DropJournal
  BY <1>17, KeepsDropJournal
<1>18. CASE KillHelper
  BY <1>18, KeepsKillHelper
<1>19. CASE UNCHANGED cvars
  <2> USE <1>19 DEF cvars, CommitInv, HelperAt
  <2>1. CommitTypeOK' /\ FilesInOrder' /\ HandleIsHeld'
    BY DEF CommitTypeOK, FilesInOrder, HandleIsHeld
  <2>2. NobodyIsForgotten'
    BY DEF NobodyIsForgotten, Here
  <2>3. Progress'
    BY DEF Progress, Exchanged, Undone
  <2>4. AnswerIsDue' /\ AnswersAreTrue'
    BY DEF AnswerIsDue, AnswersAreTrue
  <2> QED
    BY <2>1, <2>2, <2>3, <2>4
<1> QED
  BY <1>1, <1>2, <1>3, <1>4, <1>5, <1>6, <1>7, <1>8, <1>9, <1>10, <1>11, <1>12, <1>13, <1>14,
      <1>15, <1>16, <1>17, <1>18, <1>19 DEF CommitNext, Contents

(* Whatever editors and kills do between any two steps of the helper, the    *)
(* file at the name is the last text it was given, or it waits in the        *)
(* capture where an intent leads to it; and what the caller is told of the   *)
(* exchange is so (conditional_replace.py).                                  *)
THEOREM ExchangesAreExact == CommitSpec => []ExchangeIsExact
<1>1. CommitInv => ExchangeIsExact
  BY DEF CommitInv, ExchangeIsExact, FileStands, NobodyIsForgotten, FilesInOrder, Here
<1> QED
  BY <1>1, CommitInitially, CommitInvKept, PTL DEF CommitSpec

(***************************************************************************)
(* Setup and uninstall for Claude Code.                                    *)
(*                                                                         *)
(* What makes the property inductive is what a setup that runs remembers:  *)
(* what it found, how far the two files, the scripts and the registration  *)
(* have got, and that the new scripts are known from the end of the copying *)
(* on, so that every way out of it, also the one over "restore", leads back. *)
(***************************************************************************)

Registering == {"register", "remove", "add", "move", "restore"}

SetupPlaces ==
    {"over", "merge", "merged", "append", "copy", "rollback", "restore files", "delete",
          "unregister"}
        \union Registering

SettingsFile ==
    [own : Nat, ours : Nat, vault : Vaults \union {Absent}, tools : Packages \union {Absent}]
MemoryFile == [own : Nat, ours : BOOLEAN]
InPlace == Packages \union {Absent}
Places == Vaults \union {Absent}

IsSetup(u) ==
    u \in [at : SetupPlaces, package : Packages \union {0}, vault : Places, explicit : BOOLEAN,
           seen : SettingsFile \union {Absent}, settings : SettingsFile \union {Absent},
           memory : MemoryFile \union {Absent}, todo : SUBSET Scripts, there : SUBSET Scripts,
           created : SUBSET Scripts, missing : BOOLEAN, touched : BOOLEAN, partly : BOOLEAN,
           unsure : BOOLEAN]

Found == [settings |-> before[1], memory |-> before[2], scripts |-> before[3], mcp |-> before[4]]

\* The settings a setup began with, empty ones if there were none.
Had == IF Found.settings = Absent THEN NoSettings ELSE Found.settings

SetupTypeOK ==
    /\ IsSetup(setup)
    /\ settings \in SettingsFile \union {Absent}
    /\ memory \in MemoryFile \union {Absent}
    /\ scripts \in [Scripts -> InPlace]
    /\ mcp \in Places /\ Found.mcp \in Places
    /\ settingsBaks \in Seq(SettingsFile \union {Absent})
    /\ memoryBaks \in Seq(MemoryFile \union {Absent})
    /\ given \in Nat /\ ownEdits \in Nat

SetupAt(places) == setup.at \in places

\* A setup that runs has said nothing yet and knows what it copied.
Remembers ==
    /\ setup.at # "over" => outcome = "none"
    /\ SetupAt({"merge", "merged", "append", "copy", "rollback"} \union Registering) =>
          /\ setup.package \in Packages /\ setup.vault \in Vaults
          /\ SetupAt({"merged"}) => setup.seen \in SettingsFile
          /\ setup.settings = Found.settings /\ setup.memory = Found.memory

MergedSettings(file) ==
    /\ file \in SettingsFile
    /\ file.ours = setup.package
    /\ file.own = Had.own
    /\ file.tools = (IF Had.tools = Absent THEN setup.package ELSE Had.tools)
    /\ file.vault = (IF setup.explicit \/ Had.vault = Absent THEN setup.vault ELSE Had.vault)

\* What the files are while nobody else writes them.
FilesFollow ==
    ~setup.touched =>
        /\ SetupAt({"merge"}) => settings = Found.settings
        /\ SetupAt({"merged"}) =>
              /\ settings = setup.seen /\ settings = Had
        /\ SetupAt({"append", "copy"} \union Registering) => MergedSettings(settings)
        /\ SetupAt({"merge", "merged", "append"}) => memory = Found.memory
        /\ SetupAt({"copy"} \union Registering) =>
              /\ memory \in MemoryFile /\ memory.ours = TRUE
              /\ Found.memory # Absent => memory.own = Found.memory.own

\* The scripts that are new are known once the copying is through.
NewIsKnown == \A s \in Scripts : Found.scripts[s] = Absent /\ scripts[s] # Absent => s \in
      setup.created

ScriptsFollow ==
    /\ SetupAt({"merge", "merged", "append"}) => scripts = Found.scripts /\ ~setup.partly
    /\ SetupAt({"copy"}) =>
          /\ setup.there = {s \in Scripts : Found.scripts[s] # Absent}
          /\ \A s \in Scripts \ setup.todo : setup.missing \/ scripts[s] = setup.package
    /\ SetupAt(Registering) => NewIsKnown /\ \A s \in Scripts : scripts[s] = setup.package
    /\ SetupAt({"rollback"}) /\ ~setup.partly => NewIsKnown

ServerFollows ==
    /\ SetupAt({"merge", "merged", "append", "copy", "register", "remove", "add"}) => mcp =
          Found.mcp
    /\ SetupAt({"rollback"}) /\ ~setup.unsure => mcp = Found.mcp

SetupInv ==
    /\ SetupTypeOK /\ Remembers /\ FilesFollow /\ ScriptsFollow /\ ServerFollows /\ DoneOrUndone

LEMMA BackupType ==
  ASSUME NEW S, NEW bs \in Seq(S), NEW file \in S, NEW sameSecond \in BOOLEAN
  PROVE  Backup(bs, file, sameSecond) \in Seq(S)
<1>1. PICK kept : kept = IF sameSecond /\ bs # <<>> THEN SubSeq(bs, 1, Len(bs) - 1) ELSE bs
  OBVIOUS
<1>2. kept \in Seq(S)
  <2>1. bs # <<>> => SubSeq(bs, 1, Len(bs) - 1) \in Seq(S)
    BY Len(bs) - 1 \in Int, \A i \in 1 .. Len(bs) - 1 : bs[i] \in S, SubSeqProperties
  <2> QED
    BY <1>1, <2>1
<1>3. PICK all : all = Append(kept, file)
  OBVIOUS
<1>4. all \in Seq(S) /\ Len(all) \in Nat
  BY <1>2, <1>3, AppendProperties
<1>5. PICK from \in Nat : from = IF Len(all) > Keep THEN Len(all) - Keep + 1 ELSE 1
  BY <1>4 DEF Keep
<1>6. SubSeq(all, from, Len(all)) \in Seq(S)
  <2>1. \A i \in from .. Len(all) : all[i] \in S
    BY <1>4, <1>5 DEF Keep
  <2> QED
    BY <1>4, <2>1, SubSeqProperties
<1>7. Backup(bs, file, sameSecond) = IF file = Absent THEN bs ELSE SubSeq(all, from, Len(all))
  BY <1>1, <1>3, <1>5 DEF Backup
<1> QED
  BY <1>6, <1>7

LEMMA NewestType ==
  ASSUME NEW S, NEW bs \in Seq(S), NEW file \in S
  PROVE  Newest(bs, file) \in S
  BY DEF Newest

SameCommand(g, h) ==
    /\ g.package = h.package /\ g.vault = h.vault /\ g.explicit = h.explicit
    /\ g.settings = h.settings /\ g.memory = h.memory
    /\ g.missing = h.missing /\ g.touched = h.touched

LEMMA KeepsMergeReads ==
  ASSUME SetupInv, MergeReads
  PROVE  SetupInv'
<1> USE SetupAssumption DEF SetupInv, SetupTypeOK, SetupAt, Registering, SettingsFile, MemoryFile,
        InPlace, Places, files, baks, rest, SameCommand, MergeReads
<1>1. setup' = [setup EXCEPT !.at = "merged", !.seen = settings']
  BY DEF SetupMoves, Succeeds
<1>2. settings' \in SettingsFile
  BY DEF MergeReads, NoSettings
<1>3. IsSetup(setup') /\ setup'.at = "merged"
     /\ SameCommand(setup', setup)
     /\ setup'.seen = settings'
     /\ setup'.todo = setup.todo
     /\ setup'.there = setup.there
     /\ setup'.created = setup.created
     /\ setup'.partly = setup.partly
     /\ setup'.unsure = setup.unsure
  BY <1>1, <1>2 DEF IsSetup, SetupPlaces
<1>4. SetupTypeOK'
  BY <1>1, <1>2, <1>3 DEF IsSetup, Found, Remembers, Succeeds
<1>5. Remembers'
  BY <1>1, <1>2, <1>3 DEF Remembers, Found, Succeeds
<1>6. FilesFollow'
  BY <1>1, <1>2, <1>3 DEF FilesFollow, Found, MergedSettings, Had, Remembers, Succeeds
<1>7. ScriptsFollow'
  BY <1>1, <1>2, <1>3 DEF ScriptsFollow, Found, NewIsKnown, Remembers, Succeeds
<1>8. ServerFollows'
  BY <1>1, <1>2, <1>3 DEF ServerFollows, Found, Remembers, Succeeds
<1>9. DoneOrUndone'
  BY <1>1, <1>2, <1>3 DEF DoneOrUndone, FilesFollow, ScriptsFollow, ServerFollows, Remembers,
      Found, MergedSettings, Had, NewIsKnown, Succeeds
<1> QED
  BY <1>4, <1>5, <1>6, <1>7, <1>8, <1>9

LEMMA KeepsMergeWrites ==
  ASSUME SetupInv, MergeWrites
  PROVE  SetupInv'
<1> USE SetupAssumption DEF SetupInv, SetupTypeOK, SetupAt, Registering, SettingsFile, MemoryFile,
        InPlace, Places, files, baks, rest, SameCommand, MergeWrites
<1>1. setup' = [setup EXCEPT !.at = "append"]
  BY DEF SetupMoves, Succeeds
<1>2. IsSetup(setup') /\ setup'.at = "append"
     /\ SameCommand(setup', setup)
     /\ setup'.seen = setup.seen
     /\ setup'.todo = setup.todo
     /\ setup'.there = setup.there
     /\ setup'.created = setup.created
     /\ setup'.partly = setup.partly
     /\ setup'.unsure = setup.unsure
  BY <1>1 DEF IsSetup, SetupPlaces
<1>0. settings' \in SettingsFile
  <2>1. setup.seen \in SettingsFile /\ setup.package \in Packages /\ setup.package \in Nat
        /\ setup.vault \in Vaults
    BY DEF Remembers
  <2>2. PICK v \in Places : v = (IF setup.explicit \/ setup.seen.vault = Absent
                                  THEN setup.vault ELSE setup.seen.vault)
    BY <2>1
  <2>3. PICK t \in InPlace : t = (IF setup.seen.tools = Absent THEN setup.package ELSE setup.seen.tools)
    BY <2>1
  <2>4. settings' = [setup.seen EXCEPT !.ours = setup.package, !.vault = v, !.tools = t]
    BY <2>1, <2>2, <2>3
  <2> QED BY <2>1, <2>4
<1>3. SetupTypeOK'
  BY <1>0, <1>1, <1>2 DEF IsSetup, Found, Remembers, Succeeds
<1>4. Remembers'
  BY <1>1, <1>2 DEF Remembers, Found, Succeeds
<1>5. FilesFollow'
  <2>1. /\ Found' = Found /\ Had' = Had /\ setup'.touched = setup.touched /\ memory' = memory
        /\ setup'.package = setup.package /\ setup'.vault = setup.vault
        /\ setup'.explicit = setup.explicit
    BY <1>1 DEF Found, Had, IsSetup
  <2>2. ASSUME ~setup.touched PROVE MergedSettings(settings)'
    <3>1. setup.seen = Had /\ setup.seen \in SettingsFile
      BY <2>2 DEF FilesFollow, Remembers
    <3>2. /\ settings'.own = Had.own /\ settings'.ours = setup.package
          /\ settings'.tools = (IF Had.tools = Absent THEN setup.package ELSE Had.tools)
          /\ settings'.vault = (IF setup.explicit \/ Had.vault = Absent THEN setup.vault
                                ELSE Had.vault)
      BY <3>1
    <3> QED BY <1>0, <2>1, <3>2 DEF MergedSettings
  <2>3. ~setup.touched => memory = Found.memory
    BY DEF FilesFollow
  <2> QED BY <1>2, <2>1, <2>2, <2>3 DEF FilesFollow
<1>6. ScriptsFollow'
  BY <1>1, <1>2 DEF ScriptsFollow, Found, NewIsKnown, Remembers, Succeeds
<1>7. ServerFollows'
  BY <1>1, <1>2 DEF ServerFollows, Found, Remembers, Succeeds
<1>8. DoneOrUndone'
  BY <1>1, <1>2 DEF DoneOrUndone, FilesFollow, ScriptsFollow, ServerFollows, Remembers, Found,
      MergedSettings, Had, NewIsKnown, Succeeds
<1> QED
  BY <1>3, <1>4, <1>5, <1>6, <1>7, <1>8

LEMMA KeepsCopyScript ==
  ASSUME SetupInv, NEW s \in Scripts, CopyScript(s)
  PROVE  SetupInv'
<1> USE SetupAssumption DEF SetupInv, SetupTypeOK, SetupAt, Registering, SettingsFile, MemoryFile,
        InPlace, Places, files, baks, rest, SameCommand, CopyScript
<1>1. setup' = [setup EXCEPT !.at = "copy", !.todo = setup.todo \ {s}]
  BY DEF SetupMoves, Succeeds
<1>2. setup.todo \ {s} \in SUBSET Scripts
  BY DEF IsSetup
<1>3. IsSetup(setup') /\ setup'.at = "copy"
     /\ SameCommand(setup', setup)
     /\ setup'.seen = setup.seen
     /\ setup'.todo = setup.todo \ {s}
     /\ setup'.there = setup.there
     /\ setup'.created = setup.created
     /\ setup'.partly = setup.partly
     /\ setup'.unsure = setup.unsure
  BY <1>1, <1>2 DEF IsSetup, SetupPlaces
<1>4. SetupTypeOK'
  BY <1>1, <1>2, <1>3 DEF IsSetup, Found, Remembers, Succeeds
<1>5. Remembers'
  BY <1>1, <1>2, <1>3 DEF Remembers, Found, Succeeds
<1>6. FilesFollow'
  BY <1>1, <1>2, <1>3 DEF FilesFollow, Found, MergedSettings, Had, Remembers, Succeeds
<1>7. ScriptsFollow'
  BY <1>1, <1>2, <1>3 DEF ScriptsFollow, Found, NewIsKnown, Remembers, Succeeds
<1>8. ServerFollows'
  BY <1>1, <1>2, <1>3 DEF ServerFollows, Found, Remembers, Succeeds
<1>9. DoneOrUndone'
  BY <1>1, <1>2, <1>3 DEF DoneOrUndone, FilesFollow, ScriptsFollow, ServerFollows, Remembers,
      Found, MergedSettings, Had, NewIsKnown, Succeeds
<1> QED
  BY <1>4, <1>5, <1>6, <1>7, <1>8, <1>9

LEMMA KeepsCopyEnds ==
  ASSUME SetupInv, CopyEnds
  PROVE  SetupInv'
<1> USE SetupAssumption DEF SetupInv, SetupTypeOK, SetupAt, Registering, SettingsFile, MemoryFile,
        InPlace, Places, files, baks, rest, SameCommand, CopyEnds
<1>1. CASE setup.missing
  <2>1. setup' = [setup EXCEPT !.at = "rollback", !.created = {s \in Scripts : scripts[s] #
        Absent} \ setup.there]
    BY <1>1 DEF SetupMoves, Succeeds
  <2>2. {s \in Scripts : scripts[s] # Absent} \ setup.there \in SUBSET Scripts
    OBVIOUS
  <2>3. IsSetup(setup') /\ setup'.at = "rollback"
       /\ SameCommand(setup', setup)
       /\ setup'.seen = setup.seen
       /\ setup'.todo = setup.todo
       /\ setup'.there = setup.there
       /\ setup'.created = {s \in Scripts : scripts[s] # Absent} \ setup.there
       /\ setup'.partly = setup.partly
       /\ setup'.unsure = setup.unsure
    BY <2>1, <2>2 DEF IsSetup, SetupPlaces
  <2>4. SetupTypeOK'
    BY <1>1, <2>1, <2>2, <2>3 DEF IsSetup, Found, Remembers, Succeeds
  <2>5. Remembers'
    BY <1>1, <2>1, <2>2, <2>3 DEF Remembers, Found, Succeeds
  <2>6. FilesFollow'
    BY <1>1, <2>1, <2>2, <2>3 DEF FilesFollow, Found, MergedSettings, Had, Remembers, Succeeds
  <2>7. ScriptsFollow'
    BY <1>1, <2>1, <2>2, <2>3 DEF ScriptsFollow, Found, NewIsKnown, Remembers, Succeeds
  <2>8. ServerFollows'
    BY <1>1, <2>1, <2>2, <2>3 DEF ServerFollows, Found, Remembers, Succeeds
  <2>9. DoneOrUndone'
    BY <1>1, <2>1, <2>2, <2>3 DEF DoneOrUndone, FilesFollow, ScriptsFollow, ServerFollows,
        Remembers, Found, MergedSettings, Had, NewIsKnown, Succeeds
  <2> QED
    BY <2>4, <2>5, <2>6, <2>7, <2>8, <2>9
<1>2. CASE ~setup.missing
  <2>1. setup' = [setup EXCEPT !.at = "register", !.created = {s \in Scripts : scripts[s] #
        Absent} \ setup.there]
    BY <1>2 DEF SetupMoves, Succeeds
  <2>2. {s \in Scripts : scripts[s] # Absent} \ setup.there \in SUBSET Scripts
    OBVIOUS
  <2>3. IsSetup(setup') /\ setup'.at = "register"
       /\ SameCommand(setup', setup)
       /\ setup'.seen = setup.seen
       /\ setup'.todo = setup.todo
       /\ setup'.there = setup.there
       /\ setup'.created = {s \in Scripts : scripts[s] # Absent} \ setup.there
       /\ setup'.partly = setup.partly
       /\ setup'.unsure = setup.unsure
    BY <2>1, <2>2 DEF IsSetup, SetupPlaces
  <2>4. SetupTypeOK'
    BY <1>2, <2>1, <2>2, <2>3 DEF IsSetup, Found, Remembers, Succeeds
  <2>5. Remembers'
    BY <1>2, <2>1, <2>2, <2>3 DEF Remembers, Found, Succeeds
  <2>6. FilesFollow'
    BY <1>2, <2>1, <2>2, <2>3 DEF FilesFollow, Found, MergedSettings, Had, Remembers, Succeeds
  <2>7. ScriptsFollow'
    BY <1>2, <2>1, <2>2, <2>3 DEF ScriptsFollow, Found, NewIsKnown, Remembers, Succeeds
  <2>8. ServerFollows'
    BY <1>2, <2>1, <2>2, <2>3 DEF ServerFollows, Found, Remembers, Succeeds
  <2>9. DoneOrUndone'
    BY <1>2, <2>1, <2>2, <2>3 DEF DoneOrUndone, FilesFollow, ScriptsFollow, ServerFollows,
        Remembers, Found, MergedSettings, Had, NewIsKnown, Succeeds
  <2> QED
    BY <2>4, <2>5, <2>6, <2>7, <2>8, <2>9
<1> QED
  BY <1>1, <1>2

LEMMA KeepsStepFails ==
  ASSUME SetupInv, StepFails
  PROVE  SetupInv'
<1> USE SetupAssumption DEF SetupInv, SetupTypeOK, SetupAt, Registering, SettingsFile, MemoryFile,
        InPlace, Places, files, baks, rest, SameCommand, StepFails
<1>1. setup' = [setup EXCEPT !.at = "rollback", !.partly = (setup.at = "copy")]
  BY DEF SetupMoves, Succeeds
<1>2. IsSetup(setup') /\ setup'.at = "rollback"
     /\ SameCommand(setup', setup)
     /\ setup'.seen = setup.seen
     /\ setup'.todo = setup.todo
     /\ setup'.there = setup.there
     /\ setup'.created = setup.created
     /\ setup'.partly = (setup.at = "copy")
     /\ setup'.unsure = setup.unsure
  BY <1>1 DEF IsSetup, SetupPlaces
<1>3. SetupTypeOK'
  BY <1>1, <1>2 DEF IsSetup, Found, Remembers, Succeeds
<1>4. Remembers'
  BY <1>1, <1>2 DEF Remembers, Found, Succeeds
<1>5. FilesFollow'
  BY <1>1, <1>2 DEF FilesFollow, Found, MergedSettings, Had, Remembers, Succeeds
<1>6. ScriptsFollow'
  BY <1>1, <1>2 DEF ScriptsFollow, Found, NewIsKnown, Remembers, Succeeds
<1>7. ServerFollows'
  BY <1>1, <1>2 DEF ServerFollows, Found, Remembers, Succeeds
<1>8. DoneOrUndone'
  BY <1>1, <1>2 DEF DoneOrUndone, FilesFollow, ScriptsFollow, ServerFollows, Remembers, Found,
      MergedSettings, Had, NewIsKnown, Succeeds
<1> QED
  BY <1>3, <1>4, <1>5, <1>6, <1>7, <1>8

LEMMA KeepsListServers ==
  ASSUME SetupInv, ListServers
  PROVE  SetupInv'
<1> USE SetupAssumption DEF SetupInv, SetupTypeOK, SetupAt, Registering, SettingsFile, MemoryFile,
        InPlace, Places, files, baks, rest, SameCommand, ListServers
<1>1. CASE setup' = [setup EXCEPT !.at = "over", !.unsure = TRUE] /\ outcome' = "done"
  <2>1. setup' = [setup EXCEPT !.at = "over", !.unsure = TRUE]
    BY <1>1 DEF SetupMoves, Succeeds
  <2>2. IsSetup(setup') /\ setup'.at = "over"
       /\ SameCommand(setup', setup)
       /\ setup'.seen = setup.seen
       /\ setup'.todo = setup.todo
       /\ setup'.there = setup.there
       /\ setup'.created = setup.created
       /\ setup'.partly = setup.partly
       /\ setup'.unsure = TRUE
    BY <2>1 DEF IsSetup, SetupPlaces
  <2>3. SetupTypeOK'
    BY <1>1, <2>1, <2>2 DEF IsSetup, Found, Remembers, Succeeds
  <2>4. Remembers'
    BY <1>1, <2>1, <2>2 DEF Remembers, Found, Succeeds
  <2>5. FilesFollow'
    BY <1>1, <2>1, <2>2 DEF FilesFollow, Found, MergedSettings, Had, Remembers, Succeeds
  <2>6. ScriptsFollow'
    BY <1>1, <2>1, <2>2 DEF ScriptsFollow, Found, NewIsKnown, Remembers, Succeeds
  <2>7. ServerFollows'
    BY <1>1, <2>1, <2>2 DEF ServerFollows, Found, Remembers, Succeeds
  <2>8. DoneOrUndone'
    BY <1>1, <2>1, <2>2 DEF DoneOrUndone, FilesFollow, ScriptsFollow, ServerFollows, Remembers,
        Found, MergedSettings, Had, NewIsKnown, Succeeds
  <2> QED
    BY <2>3, <2>4, <2>5, <2>6, <2>7, <2>8
<1>2. CASE mcp # Absent /\ (~setup.explicit \/ mcp = setup.vault) /\ Succeeds
  <2>1. setup' = [setup EXCEPT !.at = "over"]
    BY <1>2 DEF SetupMoves, Succeeds
  <2>2. IsSetup(setup') /\ setup'.at = "over"
       /\ SameCommand(setup', setup)
       /\ setup'.seen = setup.seen
       /\ setup'.todo = setup.todo
       /\ setup'.there = setup.there
       /\ setup'.created = setup.created
       /\ setup'.partly = setup.partly
       /\ setup'.unsure = setup.unsure
    BY <2>1 DEF IsSetup, SetupPlaces
  <2>3. SetupTypeOK'
    BY <1>2, <2>1, <2>2 DEF IsSetup, Found, Remembers, Succeeds
  <2>4. Remembers'
    BY <1>2, <2>1, <2>2 DEF Remembers, Found, Succeeds
  <2>5. FilesFollow'
    BY <1>2, <2>1, <2>2 DEF FilesFollow, Found, MergedSettings, Had, Remembers, Succeeds
  <2>6. ScriptsFollow'
    BY <1>2, <2>1, <2>2 DEF ScriptsFollow, Found, NewIsKnown, Remembers, Succeeds
  <2>7. ServerFollows'
    BY <1>2, <2>1, <2>2 DEF ServerFollows, Found, Remembers, Succeeds
  <2>8. DoneOrUndone'
    BY <1>2, <2>1, <2>2 DEF DoneOrUndone, FilesFollow, ScriptsFollow, ServerFollows, Remembers,
        Found, MergedSettings, Had, NewIsKnown, Succeeds
  <2> QED
    BY <2>3, <2>4, <2>5, <2>6, <2>7, <2>8
<1>3. CASE mcp # Absent /\ SetupMoves("remove") /\ UNCHANGED outcome
  <2>1. setup' = [setup EXCEPT !.at = "remove"]
    BY <1>3 DEF SetupMoves, Succeeds
  <2>2. IsSetup(setup') /\ setup'.at = "remove"
       /\ SameCommand(setup', setup)
       /\ setup'.seen = setup.seen
       /\ setup'.todo = setup.todo
       /\ setup'.there = setup.there
       /\ setup'.created = setup.created
       /\ setup'.partly = setup.partly
       /\ setup'.unsure = setup.unsure
    BY <2>1 DEF IsSetup, SetupPlaces
  <2>3. SetupTypeOK'
    BY <1>3, <2>1, <2>2 DEF IsSetup, Found, Remembers, Succeeds
  <2>4. Remembers'
    BY <1>3, <2>1, <2>2 DEF Remembers, Found, Succeeds
  <2>5. FilesFollow'
    BY <1>3, <2>1, <2>2 DEF FilesFollow, Found, MergedSettings, Had, Remembers, Succeeds
  <2>6. ScriptsFollow'
    BY <1>3, <2>1, <2>2 DEF ScriptsFollow, Found, NewIsKnown, Remembers, Succeeds
  <2>7. ServerFollows'
    BY <1>3, <2>1, <2>2 DEF ServerFollows, Found, Remembers, Succeeds
  <2>8. DoneOrUndone'
    BY <1>3, <2>1, <2>2 DEF DoneOrUndone, FilesFollow, ScriptsFollow, ServerFollows, Remembers,
        Found, MergedSettings, Had, NewIsKnown, Succeeds
  <2> QED
    BY <2>3, <2>4, <2>5, <2>6, <2>7, <2>8
<1>4. CASE mcp = Absent /\ SetupMoves("add") /\ UNCHANGED outcome
  <2>1. setup' = [setup EXCEPT !.at = "add"]
    BY <1>4 DEF SetupMoves, Succeeds
  <2>2. IsSetup(setup') /\ setup'.at = "add"
       /\ SameCommand(setup', setup)
       /\ setup'.seen = setup.seen
       /\ setup'.todo = setup.todo
       /\ setup'.there = setup.there
       /\ setup'.created = setup.created
       /\ setup'.partly = setup.partly
       /\ setup'.unsure = setup.unsure
    BY <2>1 DEF IsSetup, SetupPlaces
  <2>3. SetupTypeOK'
    BY <1>4, <2>1, <2>2 DEF IsSetup, Found, Remembers, Succeeds
  <2>4. Remembers'
    BY <1>4, <2>1, <2>2 DEF Remembers, Found, Succeeds
  <2>5. FilesFollow'
    BY <1>4, <2>1, <2>2 DEF FilesFollow, Found, MergedSettings, Had, Remembers, Succeeds
  <2>6. ScriptsFollow'
    BY <1>4, <2>1, <2>2 DEF ScriptsFollow, Found, NewIsKnown, Remembers, Succeeds
  <2>7. ServerFollows'
    BY <1>4, <2>1, <2>2 DEF ServerFollows, Found, Remembers, Succeeds
  <2>8. DoneOrUndone'
    BY <1>4, <2>1, <2>2 DEF DoneOrUndone, FilesFollow, ScriptsFollow, ServerFollows, Remembers,
        Found, MergedSettings, Had, NewIsKnown, Succeeds
  <2> QED
    BY <2>3, <2>4, <2>5, <2>6, <2>7, <2>8
<1> QED
  BY <1>1, <1>2, <1>3, <1>4 DEF ListServers

LEMMA KeepsRemoveServer ==
  ASSUME SetupInv, RemoveServer
  PROVE  SetupInv'
<1> USE SetupAssumption DEF SetupInv, SetupTypeOK, SetupAt, Registering, SettingsFile, MemoryFile,
        InPlace, Places, files, baks, rest, SameCommand, RemoveServer
<1>1. CASE mcp' = Absent /\ SetupMoves("move")
  <2>1. setup' = [setup EXCEPT !.at = "move"]
    BY <1>1 DEF SetupMoves, Succeeds
  <2>2. IsSetup(setup') /\ setup'.at = "move"
       /\ SameCommand(setup', setup)
       /\ setup'.seen = setup.seen
       /\ setup'.todo = setup.todo
       /\ setup'.there = setup.there
       /\ setup'.created = setup.created
       /\ setup'.partly = setup.partly
       /\ setup'.unsure = setup.unsure
    BY <2>1 DEF IsSetup, SetupPlaces
  <2>3. SetupTypeOK'
    BY <1>1, <2>1, <2>2 DEF IsSetup, Found, Remembers, Succeeds
  <2>4. Remembers'
    BY <1>1, <2>1, <2>2 DEF Remembers, Found, Succeeds
  <2>5. FilesFollow'
    BY <1>1, <2>1, <2>2 DEF FilesFollow, Found, MergedSettings, Had, Remembers, Succeeds
  <2>6. ScriptsFollow'
    BY <1>1, <2>1, <2>2 DEF ScriptsFollow, Found, NewIsKnown, Remembers, Succeeds
  <2>7. ServerFollows'
    BY <1>1, <2>1, <2>2 DEF ServerFollows, Found, Remembers, Succeeds
  <2>8. DoneOrUndone'
    BY <1>1, <2>1, <2>2 DEF DoneOrUndone, FilesFollow, ScriptsFollow, ServerFollows, Remembers,
        Found, MergedSettings, Had, NewIsKnown, Succeeds
  <2> QED
    BY <2>3, <2>4, <2>5, <2>6, <2>7, <2>8
<1>2. CASE mcp' = mcp /\ SetupMoves("rollback")
  <2>1. setup' = [setup EXCEPT !.at = "rollback"]
    BY <1>2 DEF SetupMoves, Succeeds
  <2>2. IsSetup(setup') /\ setup'.at = "rollback"
       /\ SameCommand(setup', setup)
       /\ setup'.seen = setup.seen
       /\ setup'.todo = setup.todo
       /\ setup'.there = setup.there
       /\ setup'.created = setup.created
       /\ setup'.partly = setup.partly
       /\ setup'.unsure = setup.unsure
    BY <2>1 DEF IsSetup, SetupPlaces
  <2>3. SetupTypeOK'
    BY <1>2, <2>1, <2>2 DEF IsSetup, Found, Remembers, Succeeds
  <2>4. Remembers'
    BY <1>2, <2>1, <2>2 DEF Remembers, Found, Succeeds
  <2>5. FilesFollow'
    BY <1>2, <2>1, <2>2 DEF FilesFollow, Found, MergedSettings, Had, Remembers, Succeeds
  <2>6. ScriptsFollow'
    BY <1>2, <2>1, <2>2 DEF ScriptsFollow, Found, NewIsKnown, Remembers, Succeeds
  <2>7. ServerFollows'
    BY <1>2, <2>1, <2>2 DEF ServerFollows, Found, Remembers, Succeeds
  <2>8. DoneOrUndone'
    BY <1>2, <2>1, <2>2 DEF DoneOrUndone, FilesFollow, ScriptsFollow, ServerFollows, Remembers,
        Found, MergedSettings, Had, NewIsKnown, Succeeds
  <2> QED
    BY <2>3, <2>4, <2>5, <2>6, <2>7, <2>8
<1>3. CASE mcp' \in {mcp, Absent} /\ setup' = [setup EXCEPT !.at = "rollback", !.unsure = TRUE]
  <2>1. setup' = [setup EXCEPT !.at = "rollback", !.unsure = TRUE]
    BY <1>3 DEF SetupMoves, Succeeds
  <2>2. IsSetup(setup') /\ setup'.at = "rollback"
       /\ SameCommand(setup', setup)
       /\ setup'.seen = setup.seen
       /\ setup'.todo = setup.todo
       /\ setup'.there = setup.there
       /\ setup'.created = setup.created
       /\ setup'.partly = setup.partly
       /\ setup'.unsure = TRUE
    BY <2>1 DEF IsSetup, SetupPlaces
  <2>3. SetupTypeOK'
    BY <1>3, <2>1, <2>2 DEF IsSetup, Found, Remembers, Succeeds
  <2>4. Remembers'
    BY <1>3, <2>1, <2>2 DEF Remembers, Found, Succeeds
  <2>5. FilesFollow'
    BY <1>3, <2>1, <2>2 DEF FilesFollow, Found, MergedSettings, Had, Remembers, Succeeds
  <2>6. ScriptsFollow'
    BY <1>3, <2>1, <2>2 DEF ScriptsFollow, Found, NewIsKnown, Remembers, Succeeds
  <2>7. ServerFollows'
    BY <1>3, <2>1, <2>2 DEF ServerFollows, Found, Remembers, Succeeds
  <2>8. DoneOrUndone'
    BY <1>3, <2>1, <2>2 DEF DoneOrUndone, FilesFollow, ScriptsFollow, ServerFollows, Remembers,
        Found, MergedSettings, Had, NewIsKnown, Succeeds
  <2> QED
    BY <2>3, <2>4, <2>5, <2>6, <2>7, <2>8
<1> QED
  BY <1>1, <1>2, <1>3 DEF RemoveServer

LEMMA KeepsAddServer ==
  ASSUME SetupInv, AddServer
  PROVE  SetupInv'
<1> USE SetupAssumption DEF SetupInv, SetupTypeOK, SetupAt, Registering, SettingsFile, MemoryFile,
        InPlace, Places, files, baks, rest, SameCommand, AddServer
<1>1. CASE mcp' = setup.vault /\ Succeeds
  <2>1. setup' = [setup EXCEPT !.at = "over"]
    BY <1>1 DEF SetupMoves, Succeeds
  <2>2. IsSetup(setup') /\ setup'.at = "over"
       /\ SameCommand(setup', setup)
       /\ setup'.seen = setup.seen
       /\ setup'.todo = setup.todo
       /\ setup'.there = setup.there
       /\ setup'.created = setup.created
       /\ setup'.partly = setup.partly
       /\ setup'.unsure = setup.unsure
    BY <2>1 DEF IsSetup, SetupPlaces
  <2>3. SetupTypeOK'
    BY <1>1, <2>1, <2>2 DEF IsSetup, Found, Remembers, Succeeds
  <2>4. Remembers'
    BY <1>1, <2>1, <2>2 DEF Remembers, Found, Succeeds
  <2>5. FilesFollow'
    BY <1>1, <2>1, <2>2 DEF FilesFollow, Found, MergedSettings, Had, Remembers, Succeeds
  <2>6. ScriptsFollow'
    BY <1>1, <2>1, <2>2 DEF ScriptsFollow, Found, NewIsKnown, Remembers, Succeeds
  <2>7. ServerFollows'
    BY <1>1, <2>1, <2>2 DEF ServerFollows, Found, Remembers, Succeeds
  <2>8. DoneOrUndone'
    BY <1>1, <2>1, <2>2 DEF DoneOrUndone, FilesFollow, ScriptsFollow, ServerFollows, Remembers,
        Found, MergedSettings, Had, NewIsKnown, Succeeds
  <2> QED
    BY <2>3, <2>4, <2>5, <2>6, <2>7, <2>8
<1>2. CASE setup.at = "move" /\ mcp' = mcp /\ SetupMoves("restore") /\ UNCHANGED outcome
  <2>1. setup' = [setup EXCEPT !.at = "restore"]
    BY <1>2 DEF SetupMoves, Succeeds
  <2>2. IsSetup(setup') /\ setup'.at = "restore"
       /\ SameCommand(setup', setup)
       /\ setup'.seen = setup.seen
       /\ setup'.todo = setup.todo
       /\ setup'.there = setup.there
       /\ setup'.created = setup.created
       /\ setup'.partly = setup.partly
       /\ setup'.unsure = setup.unsure
    BY <2>1 DEF IsSetup, SetupPlaces
  <2>3. SetupTypeOK'
    BY <1>2, <2>1, <2>2 DEF IsSetup, Found, Remembers, Succeeds
  <2>4. Remembers'
    BY <1>2, <2>1, <2>2 DEF Remembers, Found, Succeeds
  <2>5. FilesFollow'
    BY <1>2, <2>1, <2>2 DEF FilesFollow, Found, MergedSettings, Had, Remembers, Succeeds
  <2>6. ScriptsFollow'
    BY <1>2, <2>1, <2>2 DEF ScriptsFollow, Found, NewIsKnown, Remembers, Succeeds
  <2>7. ServerFollows'
    BY <1>2, <2>1, <2>2 DEF ServerFollows, Found, Remembers, Succeeds
  <2>8. DoneOrUndone'
    BY <1>2, <2>1, <2>2 DEF DoneOrUndone, FilesFollow, ScriptsFollow, ServerFollows, Remembers,
        Found, MergedSettings, Had, NewIsKnown, Succeeds
  <2> QED
    BY <2>3, <2>4, <2>5, <2>6, <2>7, <2>8
<1>3. CASE setup.at = "add" /\ mcp' = mcp /\ SetupMoves("rollback") /\ UNCHANGED outcome
  <2>1. setup' = [setup EXCEPT !.at = "rollback"]
    BY <1>3 DEF SetupMoves, Succeeds
  <2>2. IsSetup(setup') /\ setup'.at = "rollback"
       /\ SameCommand(setup', setup)
       /\ setup'.seen = setup.seen
       /\ setup'.todo = setup.todo
       /\ setup'.there = setup.there
       /\ setup'.created = setup.created
       /\ setup'.partly = setup.partly
       /\ setup'.unsure = setup.unsure
    BY <2>1 DEF IsSetup, SetupPlaces
  <2>3. SetupTypeOK'
    BY <1>3, <2>1, <2>2 DEF IsSetup, Found, Remembers, Succeeds
  <2>4. Remembers'
    BY <1>3, <2>1, <2>2 DEF Remembers, Found, Succeeds
  <2>5. FilesFollow'
    BY <1>3, <2>1, <2>2 DEF FilesFollow, Found, MergedSettings, Had, Remembers, Succeeds
  <2>6. ScriptsFollow'
    BY <1>3, <2>1, <2>2 DEF ScriptsFollow, Found, NewIsKnown, Remembers, Succeeds
  <2>7. ServerFollows'
    BY <1>3, <2>1, <2>2 DEF ServerFollows, Found, Remembers, Succeeds
  <2>8. DoneOrUndone'
    BY <1>3, <2>1, <2>2 DEF DoneOrUndone, FilesFollow, ScriptsFollow, ServerFollows, Remembers,
        Found, MergedSettings, Had, NewIsKnown, Succeeds
  <2> QED
    BY <2>3, <2>4, <2>5, <2>6, <2>7, <2>8
<1>4. CASE /\ mcp' \in {mcp, setup.vault} /\ UNCHANGED outcome
           /\ setup' = [setup EXCEPT !.at = "rollback", !.unsure = TRUE]
  <2>1. setup' = [setup EXCEPT !.at = "rollback", !.unsure = TRUE]
    BY <1>4 DEF SetupMoves, Succeeds
  <2>2. IsSetup(setup') /\ setup'.at = "rollback"
       /\ SameCommand(setup', setup)
       /\ setup'.seen = setup.seen
       /\ setup'.todo = setup.todo
       /\ setup'.there = setup.there
       /\ setup'.created = setup.created
       /\ setup'.partly = setup.partly
       /\ setup'.unsure = TRUE
    BY <2>1 DEF IsSetup, SetupPlaces
  <2>3. SetupTypeOK'
    BY <1>4, <2>1, <2>2 DEF IsSetup, Found, Remembers, Succeeds
  <2>4. Remembers'
    BY <1>4, <2>1, <2>2 DEF Remembers, Found, Succeeds
  <2>5. FilesFollow'
    BY <1>4, <2>1, <2>2 DEF FilesFollow, Found, MergedSettings, Had, Remembers, Succeeds
  <2>6. ScriptsFollow'
    BY <1>4, <2>1, <2>2 DEF ScriptsFollow, Found, NewIsKnown, Remembers, Succeeds
  <2>7. ServerFollows'
    BY <1>4, <2>1, <2>2 DEF ServerFollows, Found, Remembers, Succeeds
  <2>8. DoneOrUndone'
    BY <1>4, <2>1, <2>2 DEF DoneOrUndone, FilesFollow, ScriptsFollow, ServerFollows, Remembers,
        Found, MergedSettings, Had, NewIsKnown, Succeeds
  <2> QED
    BY <2>3, <2>4, <2>5, <2>6, <2>7, <2>8
<1> QED
  BY <1>1, <1>2, <1>3, <1>4 DEF AddServer

LEMMA KeepsRestoreServer ==
  ASSUME SetupInv, RestoreServer
  PROVE  SetupInv'
<1> USE SetupAssumption DEF SetupInv, SetupTypeOK, SetupAt, Registering, SettingsFile, MemoryFile,
        InPlace, Places, files, baks, rest, SameCommand, RestoreServer
<1>1. CASE mcp' = before[4] /\ SetupMoves("rollback")
  <2>1. setup' = [setup EXCEPT !.at = "rollback"]
    BY <1>1 DEF SetupMoves, Succeeds
  <2>2. IsSetup(setup') /\ setup'.at = "rollback"
       /\ SameCommand(setup', setup)
       /\ setup'.seen = setup.seen
       /\ setup'.todo = setup.todo
       /\ setup'.there = setup.there
       /\ setup'.created = setup.created
       /\ setup'.partly = setup.partly
       /\ setup'.unsure = setup.unsure
    BY <2>1 DEF IsSetup, SetupPlaces
  <2>3. SetupTypeOK'
    BY <1>1, <2>1, <2>2 DEF IsSetup, Found, Remembers, Succeeds
  <2>4. Remembers'
    BY <1>1, <2>1, <2>2 DEF Remembers, Found, Succeeds
  <2>5. FilesFollow'
    BY <1>1, <2>1, <2>2 DEF FilesFollow, Found, MergedSettings, Had, Remembers, Succeeds
  <2>6. ScriptsFollow'
    BY <1>1, <2>1, <2>2 DEF ScriptsFollow, Found, NewIsKnown, Remembers, Succeeds
  <2>7. ServerFollows'
    BY <1>1, <2>1, <2>2 DEF ServerFollows, Found, Remembers, Succeeds
  <2>8. DoneOrUndone'
    BY <1>1, <2>1, <2>2 DEF DoneOrUndone, FilesFollow, ScriptsFollow, ServerFollows, Remembers,
        Found, MergedSettings, Had, NewIsKnown, Succeeds
  <2> QED
    BY <2>3, <2>4, <2>5, <2>6, <2>7, <2>8
<1>2. CASE mcp' = mcp /\ setup' = [setup EXCEPT !.at = "rollback", !.unsure = TRUE]
  <2>1. setup' = [setup EXCEPT !.at = "rollback", !.unsure = TRUE]
    BY <1>2 DEF SetupMoves, Succeeds
  <2>2. IsSetup(setup') /\ setup'.at = "rollback"
       /\ SameCommand(setup', setup)
       /\ setup'.seen = setup.seen
       /\ setup'.todo = setup.todo
       /\ setup'.there = setup.there
       /\ setup'.created = setup.created
       /\ setup'.partly = setup.partly
       /\ setup'.unsure = TRUE
    BY <2>1 DEF IsSetup, SetupPlaces
  <2>3. SetupTypeOK'
    BY <1>2, <2>1, <2>2 DEF IsSetup, Found, Remembers, Succeeds
  <2>4. Remembers'
    BY <1>2, <2>1, <2>2 DEF Remembers, Found, Succeeds
  <2>5. FilesFollow'
    BY <1>2, <2>1, <2>2 DEF FilesFollow, Found, MergedSettings, Had, Remembers, Succeeds
  <2>6. ScriptsFollow'
    BY <1>2, <2>1, <2>2 DEF ScriptsFollow, Found, NewIsKnown, Remembers, Succeeds
  <2>7. ServerFollows'
    BY <1>2, <2>1, <2>2 DEF ServerFollows, Found, Remembers, Succeeds
  <2>8. DoneOrUndone'
    BY <1>2, <2>1, <2>2 DEF DoneOrUndone, FilesFollow, ScriptsFollow, ServerFollows, Remembers,
        Found, MergedSettings, Had, NewIsKnown, Succeeds
  <2> QED
    BY <2>3, <2>4, <2>5, <2>6, <2>7, <2>8
<1> QED
  BY <1>1, <1>2 DEF RestoreServer

LEMMA KeepsRollback ==
  ASSUME SetupInv, Rollback
  PROVE  SetupInv'
<1> USE SetupAssumption DEF SetupInv, SetupTypeOK, SetupAt, Registering, SettingsFile, MemoryFile,
        InPlace, Places, files, baks, rest, SameCommand, Rollback
<1>1. setup' = [setup EXCEPT !.at = "over"]
  BY DEF SetupMoves, Succeeds
<1>2. IsSetup(setup') /\ setup'.at = "over"
     /\ SameCommand(setup', setup)
     /\ setup'.seen = setup.seen
     /\ setup'.todo = setup.todo
     /\ setup'.there = setup.there
     /\ setup'.created = setup.created
     /\ setup'.partly = setup.partly
     /\ setup'.unsure = setup.unsure
  BY <1>1 DEF IsSetup, SetupPlaces
<1>3. SetupTypeOK'
  BY <1>1, <1>2 DEF IsSetup, Found, Remembers, Succeeds
<1>4. Remembers'
  BY <1>1, <1>2 DEF Remembers, Found, Succeeds
<1>5. FilesFollow'
  BY <1>1, <1>2 DEF FilesFollow, Found, MergedSettings, Had, Remembers, Succeeds
<1>6. ScriptsFollow'
  BY <1>1, <1>2 DEF ScriptsFollow, Found, NewIsKnown, Remembers, Succeeds
<1>7. ServerFollows'
  BY <1>1, <1>2 DEF ServerFollows, Found, Remembers, Succeeds
<1>8. DoneOrUndone'
  BY <1>1, <1>2 DEF DoneOrUndone, FilesFollow, ScriptsFollow, ServerFollows, Remembers, Found,
      MergedSettings, Had, NewIsKnown, Succeeds
<1> QED
  BY <1>3, <1>4, <1>5, <1>6, <1>7, <1>8

LEMMA KeepsDeleteScripts ==
  ASSUME SetupInv, DeleteScripts
  PROVE  SetupInv'
<1> USE SetupAssumption DEF SetupInv, SetupTypeOK, SetupAt, Registering, SettingsFile, MemoryFile,
        InPlace, Places, files, baks, rest, SameCommand, DeleteScripts
<1>1. setup' = [setup EXCEPT !.at = "unregister"]
  BY DEF SetupMoves, Succeeds
<1>2. IsSetup(setup') /\ setup'.at = "unregister"
     /\ SameCommand(setup', setup)
     /\ setup'.seen = setup.seen
     /\ setup'.todo = setup.todo
     /\ setup'.there = setup.there
     /\ setup'.created = setup.created
     /\ setup'.partly = setup.partly
     /\ setup'.unsure = setup.unsure
  BY <1>1 DEF IsSetup, SetupPlaces
<1>3. SetupTypeOK'
  BY <1>1, <1>2 DEF IsSetup, Found, Remembers, Succeeds
<1>4. Remembers'
  BY <1>1, <1>2 DEF Remembers, Found, Succeeds
<1>5. FilesFollow'
  BY <1>1, <1>2 DEF FilesFollow, Found, MergedSettings, Had, Remembers, Succeeds
<1>6. ScriptsFollow'
  BY <1>1, <1>2 DEF ScriptsFollow, Found, NewIsKnown, Remembers, Succeeds
<1>7. ServerFollows'
  BY <1>1, <1>2 DEF ServerFollows, Found, Remembers, Succeeds
<1>8. DoneOrUndone'
  BY <1>1, <1>2 DEF DoneOrUndone, FilesFollow, ScriptsFollow, ServerFollows, Remembers, Found,
      MergedSettings, Had, NewIsKnown, Succeeds
<1> QED
  BY <1>3, <1>4, <1>5, <1>6, <1>7, <1>8

LEMMA KeepsUnregister ==
  ASSUME SetupInv, Unregister
  PROVE  SetupInv'
<1> USE SetupAssumption DEF SetupInv, SetupTypeOK, SetupAt, Registering, SettingsFile, MemoryFile,
        InPlace, Places, files, baks, rest, SameCommand, Unregister
<1>1. setup' = [setup EXCEPT !.at = "over"]
  BY DEF SetupMoves, Succeeds
<1>2. IsSetup(setup') /\ setup'.at = "over"
     /\ SameCommand(setup', setup)
     /\ setup'.seen = setup.seen
     /\ setup'.todo = setup.todo
     /\ setup'.there = setup.there
     /\ setup'.created = setup.created
     /\ setup'.partly = setup.partly
     /\ setup'.unsure = setup.unsure
  BY <1>1 DEF IsSetup, SetupPlaces
<1>3. SetupTypeOK'
  BY <1>1, <1>2 DEF IsSetup, Found, Remembers, Succeeds
<1>4. Remembers'
  BY <1>1, <1>2 DEF Remembers, Found, Succeeds
<1>5. FilesFollow'
  BY <1>1, <1>2 DEF FilesFollow, Found, MergedSettings, Had, Remembers, Succeeds
<1>6. ScriptsFollow'
  BY <1>1, <1>2 DEF ScriptsFollow, Found, NewIsKnown, Remembers, Succeeds
<1>7. ServerFollows'
  BY <1>1, <1>2 DEF ServerFollows, Found, Remembers, Succeeds
<1>8. DoneOrUndone'
  BY <1>1, <1>2 DEF DoneOrUndone, FilesFollow, ScriptsFollow, ServerFollows, Remembers, Found,
      MergedSettings, Had, NewIsKnown, Succeeds
<1> QED
  BY <1>3, <1>4, <1>5, <1>6, <1>7, <1>8

LEMMA KeepsKillSetup ==
  ASSUME SetupInv, KillSetup
  PROVE  SetupInv'
<1> USE SetupAssumption DEF SetupInv, SetupTypeOK, SetupAt, Registering, SettingsFile, MemoryFile,
        InPlace, Places, files, baks, rest, SameCommand, KillSetup
<1>1. setup' = [setup EXCEPT !.at = "over"]
  BY DEF SetupMoves, Succeeds
<1>2. IsSetup(setup') /\ setup'.at = "over"
     /\ SameCommand(setup', setup)
     /\ setup'.seen = setup.seen
     /\ setup'.todo = setup.todo
     /\ setup'.there = setup.there
     /\ setup'.created = setup.created
     /\ setup'.partly = setup.partly
     /\ setup'.unsure = setup.unsure
  BY <1>1 DEF IsSetup, SetupPlaces
<1>3. SetupTypeOK'
  BY <1>1, <1>2 DEF IsSetup, Found, Remembers, Succeeds
<1>4. Remembers'
  BY <1>1, <1>2 DEF Remembers, Found, Succeeds
<1>5. FilesFollow'
  BY <1>1, <1>2 DEF FilesFollow, Found, MergedSettings, Had, Remembers, Succeeds
<1>6. ScriptsFollow'
  BY <1>1, <1>2 DEF ScriptsFollow, Found, NewIsKnown, Remembers, Succeeds
<1>7. ServerFollows'
  BY <1>1, <1>2 DEF ServerFollows, Found, Remembers, Succeeds
<1>8. DoneOrUndone'
  BY <1>1, <1>2 DEF DoneOrUndone, FilesFollow, ScriptsFollow, ServerFollows, Remembers, Found,
      MergedSettings, Had, NewIsKnown, Succeeds
<1> QED
  BY <1>3, <1>4, <1>5, <1>6, <1>7, <1>8

LEMMA KeepsRestoreFiles ==
  ASSUME SetupInv, RestoreFiles
  PROVE  SetupInv'
<1>0. /\ settings' \in SettingsFile \union {Absent}
      /\ memory' \in MemoryFile \union {Absent}
      /\ settingsBaks' \in Seq(SettingsFile \union {Absent})
      /\ memoryBaks' \in Seq(MemoryFile \union {Absent})
  BY NewestType DEF SetupInv, SetupTypeOK, RestoreFiles, files, baks, rest
<1> USE SetupAssumption DEF SetupInv, SetupTypeOK, SetupAt, Registering, SettingsFile, MemoryFile,
        InPlace, Places, files, baks, rest, SameCommand, RestoreFiles
<1>1. setup' = [setup EXCEPT !.at = "delete"]
  BY DEF SetupMoves, Succeeds
<1>2. IsSetup(setup') /\ setup'.at = "delete"
     /\ SameCommand(setup', setup)
     /\ setup'.seen = setup.seen
     /\ setup'.todo = setup.todo
     /\ setup'.there = setup.there
     /\ setup'.created = setup.created
     /\ setup'.partly = setup.partly
     /\ setup'.unsure = setup.unsure
  BY <1>1 DEF IsSetup, SetupPlaces
<1>3. SetupTypeOK'
  BY <1>1, <1>2, <1>0 DEF IsSetup, Found, Remembers, Succeeds
<1>4. Remembers'
  BY <1>1, <1>2, <1>0 DEF Remembers, Found, Succeeds
<1>5. FilesFollow'
  BY <1>1, <1>2, <1>0 DEF FilesFollow, Found, MergedSettings, Had, Remembers, Succeeds
<1>6. ScriptsFollow'
  BY <1>1, <1>2, <1>0 DEF ScriptsFollow, Found, NewIsKnown, Remembers, Succeeds
<1>7. ServerFollows'
  BY <1>1, <1>2, <1>0 DEF ServerFollows, Found, Remembers, Succeeds
<1>8. DoneOrUndone'
  BY <1>1, <1>2, <1>0 DEF DoneOrUndone, FilesFollow, ScriptsFollow, ServerFollows, Remembers,
      Found, MergedSettings, Had, NewIsKnown, Succeeds
<1> QED
  BY <1>3, <1>4, <1>5, <1>6, <1>7, <1>8

LEMMA KeepsStartUninstall ==
  ASSUME SetupInv, StartUninstall
  PROVE  SetupInv'
<1>0. given' \in Nat /\ ownEdits' \in Nat
  <2>1. given \in Nat /\ ownEdits \in Nat
    BY DEF SetupInv, SetupTypeOK
  <2>2. given' = given + 1 /\ ownEdits' = ownEdits
    BY DEF StartUninstall
  <2> QED
    BY <2>1, <2>2
<1> USE SetupAssumption DEF SetupInv, SetupTypeOK, SetupAt, Registering, 
        InPlace, Places, files, baks, rest, SameCommand, StartUninstall
<1>1. setup' = [NoSetup EXCEPT !.at = "restore files"]
  BY DEF StartUninstall
<1>2. IsSetup(setup') /\ setup'.at = "restore files" /\ setup'.touched = FALSE
  BY <1>1 DEF IsSetup, SetupPlaces, NoSetup
<1>3. before'[1] = settings /\ before'[2] = memory /\ before'[3] = scripts /\ before'[4] = mcp
  BY DEF StartUninstall
<1>4. SetupTypeOK'
  BY <1>2, <1>3, <1>0 DEF Found, Succeeds
<1>5. Remembers'
  BY <1>2, <1>3, <1>0 DEF Remembers, Found, Succeeds
<1>6. FilesFollow'
  BY <1>2, <1>3, <1>0 DEF FilesFollow, Found, MergedSettings, Had, Remembers, Succeeds
<1>7. ScriptsFollow'
  BY <1>2, <1>3, <1>0 DEF ScriptsFollow, Found, NewIsKnown, Remembers, Succeeds
<1>8. ServerFollows'
  BY <1>2, <1>3, <1>0 DEF ServerFollows, Found, Remembers, Succeeds
<1>9. DoneOrUndone'
  BY <1>2, <1>3, <1>0 DEF DoneOrUndone, FilesFollow, ScriptsFollow, ServerFollows, Remembers,
      Found, MergedSettings, Had, NewIsKnown, Succeeds
<1> QED
  BY <1>4, <1>5, <1>6, <1>7, <1>8, <1>9

LEMMA KeepsStartSetup ==
  ASSUME SetupInv, NEW p \in Packages, NEW v \in Vaults, NEW explicit \in BOOLEAN, StartSetup(p,
        v, explicit)
  PROVE  SetupInv'
<1>0. /\ settings' \in SettingsFile \union {Absent}
      /\ memory' \in MemoryFile \union {Absent}
      /\ settingsBaks' \in Seq(SettingsFile \union {Absent})
      /\ memoryBaks' \in Seq(MemoryFile \union {Absent})
  BY BackupType DEF SetupInv, SetupTypeOK, StartSetup, files, baks, rest
<1> USE SetupAssumption DEF SetupInv, SetupTypeOK, SetupAt, Registering, SettingsFile, MemoryFile,
        InPlace, Places, files, baks, rest, SameCommand, SetupMoves
<1>1. PICK missing \in BOOLEAN :
        setup' = [NoSetup EXCEPT !.at = "merge", !.package = p, !.vault = v,
                     !.explicit = explicit, !.settings = settings, !.memory = memory,
                     !.missing = missing]
  BY DEF StartSetup
<1>2. setup' = [at |-> "merge", package |-> p, vault |-> v, explicit |-> explicit,
          seen |-> Absent, settings |-> settings, memory |-> memory, todo |-> {},
          there |-> {}, created |-> {}, missing |-> missing, touched |-> FALSE,
          partly |-> FALSE, unsure |-> FALSE]
  BY <1>1 DEF NoSetup
<1>3. IsSetup(setup')
  BY <1>2 DEF IsSetup, SetupPlaces
<1>4. /\ setup'.at = "merge" /\ setup'.touched = FALSE /\ setup'.partly = FALSE
     /\ setup'.package = p /\ setup'.vault = v /\ setup'.settings = settings
     /\ setup'.memory = memory
  BY <1>2
<1>5. /\ UNCHANGED <<settings, memory, scripts, mcp, ownEdits>> /\ outcome' = "none"
     /\ given' = given + 1
  BY DEF StartSetup
<1>6. before'[1] = settings /\ before'[2] = memory /\ before'[3] = scripts /\ before'[4] = mcp
  BY DEF StartSetup
<1>7. SetupTypeOK'
  BY <1>1, <1>2, <1>3, <1>4, <1>5, <1>6, <1>0 DEF IsSetup, Found, Remembers, Succeeds
<1>8. Remembers'
  BY <1>1, <1>2, <1>3, <1>4, <1>5, <1>6, <1>0 DEF Remembers, Found, Succeeds
<1>9. FilesFollow'
  BY <1>1, <1>2, <1>3, <1>4, <1>5, <1>6, <1>0 DEF FilesFollow, Found, MergedSettings, Had, Remembers, Succeeds
<1>10. ScriptsFollow'
  BY <1>1, <1>2, <1>3, <1>4, <1>5, <1>6, <1>0 DEF ScriptsFollow, Found, NewIsKnown, Remembers,
      Succeeds
<1>11. ServerFollows'
  BY <1>1, <1>2, <1>3, <1>4, <1>5, <1>6, <1>0 DEF ServerFollows, Found, Remembers, Succeeds
<1>12. DoneOrUndone'
  BY <1>1, <1>2, <1>3, <1>4, <1>5, <1>6, <1>0 DEF DoneOrUndone, FilesFollow, ScriptsFollow,
      ServerFollows, Remembers, Found, MergedSettings, Had, NewIsKnown, Succeeds
<1> QED
  BY <1>7, <1>8, <1>9, <1>10, <1>11, <1>12

LEMMA KeepsAppendBlock ==
  ASSUME SetupInv, AppendBlock
  PROVE  SetupInv'
<1>0. /\ memory' \in MemoryFile /\ memory'.ours = TRUE
      /\ memory # Absent => memory'.own = memory.own
      /\ memoryBaks' \in Seq(MemoryFile \union {Absent})
  <2>1. CASE memory # Absent /\ memory.ours
    BY <2>1 DEF AppendBlock, SetupInv, SetupTypeOK, MemoryFile
  <2>2. CASE ~(memory # Absent /\ memory.ours)
    <3>1. PICK now : now = IF memory = Absent THEN [own |-> 0, ours |-> FALSE] ELSE memory
      OBVIOUS
    <3>2. now \in MemoryFile /\ (memory # Absent => now = memory)
      BY <3>1 DEF SetupInv, SetupTypeOK, MemoryFile
    <3>3. PICK sameSecond \in BOOLEAN : memoryBaks' = Backup(memoryBaks, now, sameSecond)
      BY <2>2, <3>1 DEF AppendBlock
    <3>4. memoryBaks' \in Seq(MemoryFile \union {Absent})
      BY <3>2, <3>3, BackupType DEF SetupInv, SetupTypeOK
    <3>5. memory' = [now EXCEPT !.ours = TRUE]
      BY <2>2, <3>1 DEF AppendBlock
    <3> QED
      BY <3>2, <3>4, <3>5 DEF MemoryFile
  <2> QED
    BY <2>1, <2>2
<1> USE SetupAssumption DEF SetupInv, SetupTypeOK, SetupAt, Registering, 
        InPlace, Places, files, baks, rest, SameCommand, SetupMoves
<1>1. setup' = [setup EXCEPT !.at = "copy", !.todo = Scripts, !.there = {s \in Scripts :
      scripts[s] # Absent}]
  BY DEF AppendBlock
<1>2. {s \in Scripts : scripts[s] # Absent} \in SUBSET Scripts
  OBVIOUS
<1>3. IsSetup(setup') /\ setup'.at = "copy"
     /\ SameCommand(setup', setup)
     /\ setup'.seen = setup.seen
     /\ setup'.todo = Scripts
     /\ setup'.there = {s \in Scripts : scripts[s] # Absent}
     /\ setup'.created = setup.created
     /\ setup'.partly = setup.partly
     /\ setup'.unsure = setup.unsure
  BY <1>1, <1>2 DEF IsSetup, SetupPlaces
<1>4. /\ UNCHANGED <<settings, scripts, mcp, settingsBaks, outcome, before, given, ownEdits>>
     /\ setup.at = "append"
  BY DEF AppendBlock
<1>5. SetupTypeOK'
  BY <1>3, <1>4, <1>0 DEF Found, Succeeds
<1>6. Remembers'
  BY <1>3, <1>4, <1>0 DEF Remembers, Found, Succeeds
<1>7. FilesFollow'
  BY <1>3, <1>4, <1>0 DEF FilesFollow, Found, MergedSettings, Had, Remembers, Succeeds
<1>8. ScriptsFollow'
  BY <1>3, <1>4, <1>0 DEF ScriptsFollow, Found, NewIsKnown, Remembers, Succeeds
<1>9. ServerFollows'
  BY <1>3, <1>4, <1>0 DEF ServerFollows, Found, Remembers, Succeeds
<1>10. DoneOrUndone'
  BY <1>3, <1>4, <1>0 DEF DoneOrUndone, FilesFollow, ScriptsFollow, ServerFollows, Remembers,
      Found, MergedSettings, Had, NewIsKnown, Succeeds
<1> QED
  BY <1>5, <1>6, <1>7, <1>8, <1>9, <1>10

LEMMA KeepsOwnEdit ==
  ASSUME SetupInv, OwnEdit
  PROVE  SetupInv'
<1>0. /\ settings' \in SettingsFile \union {Absent}
      /\ memory' \in MemoryFile \union {Absent} /\ ownEdits' \in Nat
  <2>1. ownEdits' = ownEdits + 1 /\ ownEdits' \in Nat
    BY DEF SetupInv, SetupTypeOK, OwnEdit
  <2>2. settings' \in SettingsFile \union {Absent}
    <3>1. [NoSettings EXCEPT !.own = ownEdits'] \in SettingsFile
      BY <2>1 DEF SettingsFile, NoSettings
    <3>2. settings # Absent => [settings EXCEPT !.own = ownEdits'] \in SettingsFile
      BY <2>1 DEF SettingsFile, SetupInv, SetupTypeOK
    <3> QED
      BY <3>1, <3>2 DEF OwnEdit, SetupInv, SetupTypeOK
  <2>3. memory' \in MemoryFile \union {Absent}
    <3>1. [own |-> ownEdits', ours |-> FALSE] \in MemoryFile
      BY <2>1 DEF MemoryFile
    <3>2. memory # Absent => [memory EXCEPT !.own = ownEdits'] \in MemoryFile
      BY <2>1 DEF MemoryFile, SetupInv, SetupTypeOK
    <3> QED
      BY <3>1, <3>2 DEF OwnEdit, SetupInv, SetupTypeOK
  <2> QED
    BY <2>1, <2>2, <2>3
<1> USE SetupAssumption DEF SetupInv, SetupTypeOK, SetupAt, Registering, SettingsFile, MemoryFile,
        InPlace, Places, files, baks, rest, SameCommand, OwnEdit
<1>1. setup' = [setup EXCEPT !.touched = TRUE]
  BY DEF OwnEdit
<1>2. IsSetup(setup') /\ setup'.at = setup.at /\ setup'.touched = TRUE /\ setup'.package =
      setup.package
     /\ setup'.vault = setup.vault /\ setup'.settings = setup.settings
     /\ setup'.memory = setup.memory /\ setup'.missing = setup.missing /\ setup'.unsure =
           setup.unsure
     /\ setup'.partly = setup.partly /\ setup'.seen = setup.seen
     /\ setup'.todo = setup.todo /\ setup'.there = setup.there /\ setup'.created = setup.created
  BY <1>1 DEF IsSetup
<1>3. SetupTypeOK'
  BY <1>1, <1>2, <1>0 DEF IsSetup, Found, Remembers, Succeeds
<1>4. Remembers'
  BY <1>1, <1>2, <1>0 DEF Remembers, Found, Succeeds
<1>5. FilesFollow'
  BY <1>1, <1>2, <1>0 DEF FilesFollow, Found, MergedSettings, Had, Remembers, Succeeds
<1>6. ScriptsFollow'
  BY <1>1, <1>2, <1>0 DEF ScriptsFollow, Found, NewIsKnown, Remembers, Succeeds
<1>7. ServerFollows'
  BY <1>1, <1>2, <1>0 DEF ServerFollows, Found, Remembers, Succeeds
<1>8. DoneOrUndone'
  BY <1>1, <1>2, <1>0 DEF DoneOrUndone, FilesFollow, ScriptsFollow, ServerFollows, Remembers,
      Found, MergedSettings, Had, NewIsKnown, Succeeds
<1> QED
  BY <1>3, <1>4, <1>5, <1>6, <1>7, <1>8

LEMMA SetupInitially == SetupInit => SetupInv
<1> SUFFICES ASSUME SetupInit PROVE SetupInv
  OBVIOUS
<1>0. settings \in SettingsFile \union {Absent} /\ memory \in MemoryFile \union {Absent}
  <2>1. NoSettings \in SettingsFile
    BY DEF SettingsFile, NoSettings
  <2>2. [own |-> 0, ours |-> FALSE] \in MemoryFile
    BY DEF MemoryFile
  <2> QED
    BY <2>1, <2>2 DEF SetupInit
<1> USE SetupAssumption DEF SetupInit, InPlace, Places, files
<1>1. IsSetup(setup)
  BY DEF IsSetup, NoSetup, SetupPlaces, SettingsFile, MemoryFile
<1>2. setup.at = "over"
  BY DEF NoSetup
<1>3. SetupTypeOK
  <2>1. before[4] = Absent
    OBVIOUS
  <2>2. Found.mcp \in Places
    BY <2>1 DEF Found
  <2>3. settingsBaks \in Seq(SettingsFile \union {Absent}) /\ memoryBaks \in Seq(MemoryFile
        \union {Absent})
    BY EmptySeq
  <2> QED
    BY <1>0, <1>1, <2>2, <2>3 DEF SetupTypeOK
<1>4. Remembers /\ FilesFollow /\ ScriptsFollow /\ ServerFollows /\ DoneOrUndone
  BY <1>2 DEF Remembers, FilesFollow, ScriptsFollow, ServerFollows, DoneOrUndone, SetupAt,
      Registering
<1> QED
  BY <1>3, <1>4 DEF SetupInv

LEMMA SetupInvKept == SetupInv /\ [SetupNext]_svars => SetupInv'
<1> SUFFICES ASSUME SetupInv, [SetupNext]_svars PROVE SetupInv'
  OBVIOUS
<1>1. CASE OwnEdit
  BY <1>1, KeepsOwnEdit
<1>2. CASE \E p \in Packages, v \in Vaults, explicit \in BOOLEAN : StartSetup(p, v, explicit)
  BY <1>2, KeepsStartSetup
<1>3. CASE MergeReads
  BY <1>3, KeepsMergeReads
<1>4. CASE MergeWrites
  BY <1>4, KeepsMergeWrites
<1>5. CASE AppendBlock
  BY <1>5, KeepsAppendBlock
<1>6. CASE CopyEnds
  BY <1>6, KeepsCopyEnds
<1>7. CASE StepFails
  BY <1>7, KeepsStepFails
<1>8. CASE \E s \in Scripts : CopyScript(s)
  BY <1>8, KeepsCopyScript
<1>9. CASE ListServers
  BY <1>9, KeepsListServers
<1>10. CASE RemoveServer
  BY <1>10, KeepsRemoveServer
<1>11. CASE AddServer
  BY <1>11, KeepsAddServer
<1>12. CASE RestoreServer
  BY <1>12, KeepsRestoreServer
<1>13. CASE Rollback
  BY <1>13, KeepsRollback
<1>14. CASE StartUninstall
  BY <1>14, KeepsStartUninstall
<1>15. CASE RestoreFiles
  BY <1>15, KeepsRestoreFiles
<1>16. CASE DeleteScripts
  BY <1>16, KeepsDeleteScripts
<1>17. CASE Unregister
  BY <1>17, KeepsUnregister
<1>18. CASE KillSetup
  BY <1>18, KeepsKillSetup
<1>19. CASE UNCHANGED svars
  <2> USE <1>19 DEF svars, SetupInv, SetupAt
  <2>1. SetupTypeOK' /\ Remembers'
    BY DEF SetupTypeOK, Remembers, Found
  <2>2. FilesFollow'
    BY DEF FilesFollow, MergedSettings, Had, Found
  <2>3. ScriptsFollow' /\ ServerFollows'
    BY DEF ScriptsFollow, ServerFollows, NewIsKnown, Found
  <2>4. DoneOrUndone'
    BY DEF DoneOrUndone
  <2> QED
    BY <2>1, <2>2, <2>3, <2>4
<1> QED
  BY <1>1, <1>2, <1>3, <1>4, <1>5, <1>6, <1>7, <1>8, <1>9, <1>10, <1>11, <1>12, <1>13, <1>14,
      <1>15, <1>16, <1>17, <1>18, <1>19 DEF SetupNext

(* A setup that says it is done has left all of one package, whatever        *)
(* earlier ones left; one that says it failed has left the files, the        *)
(* registration and the set of scripts as it found them (install_cli.py:556, *)
(* :271): for any packages, vaults and scripts, and any number of commands,  *)
(* kills and edits.                                                          *)
THEOREM SetupsAreWhole == SetupSpec => []DoneOrUndone
<1>1. SetupInv => DoneOrUndone
  BY DEF SetupInv
<1> QED
  BY <1>1, SetupInitially, SetupInvKept, PTL DEF SetupSpec

(***************************************************************************)
(* The OpenCode installer.                                                 *)
(*                                                                         *)
(* What a target should be while a journal waits is what it was when the   *)
(* transaction began: as the receipt says, or for a removal as it was      *)
(* before the first setup.  A target of the transaction is still so, or is *)
(* being written and is what it is to become.  With that, each of the two  *)
(* ways to settle a journal ends in one of the two states allowed.         *)
(***************************************************************************)

CommandPlaces == {"idle", "look", "plan", "lock", "settle", "reverse", "undo", "note", "forget",
                  "begin", "mark", "read", "swap", "receipt", "commit", "unreceipt", "report"}
LockedPlaces == CommandPlaces \ {"idle", "look", "plan", "lock", "report"}

Entries == Versions \union {Missing, Changed}
Reading == [ours : Entries, mine : {0, 1}]

IsJournal(j) ==
    /\ j = [phase |-> j.phase, txn |-> j.txn, ops |-> j.ops, reversed |-> j.reversed,
            removes |-> j.removes]
    /\ j.phase \in {"none", "applying", "committed", "conflict"}
    /\ j.txn \in Nat /\ j.removes \in BOOLEAN /\ j.reversed \subseteq Targets
    /\ DOMAIN j.ops \subseteq Targets
    /\ j.ops \in [DOMAIN j.ops -> [before : Entries, after : Entries, going : BOOLEAN]]
    /\ j.phase = "none" => ~j.removes /\ j.txn = 0

IsReceipt(c) ==
    /\ c = [txn |-> c.txn, ops |-> c.ops]
    /\ c.txn \in Nat /\ DOMAIN c.ops \subseteq Targets
    /\ c.ops \in [DOMAIN c.ops -> [before : Entries, after : Entries]]

IsPlan(p) ==
    /\ DOMAIN p \subseteq Targets
    /\ p \in [DOMAIN p -> [before : Entries, after : Entries, going : {FALSE}]]

HasFields(k) ==
    k = [what |-> k.what, at |-> k.at, version |-> k.version, txn |-> k.txn, plan |-> k.plan,
         base |-> k.base, then |-> k.then, todo |-> k.todo, seen |-> k.seen, bad |-> k.bad]

IsCommand(k) ==
    /\ HasFields(k)
    /\ k.what \in {"", "install", "doctor", "remove"} /\ k.at \in CommandPlaces
    /\ k.version \in Entries /\ k.txn \in Nat /\ IsPlan(k.plan)
    /\ k.base \in Nat /\ k.then \in {"", "begin", "plan", "report", "unreceipt"}
    /\ k.todo \subseteq Targets /\ k.seen \in Reading /\ k.bad \in BOOLEAN

CommandsAreSuch ==
    /\ cmd = [r \in Runs |-> cmd[r]]
    /\ \A r \in Runs : IsCommand(cmd[r])

InstallerTypeOK ==
    /\ entry \in [Targets -> Reading]
    /\ IsJournal(journal) /\ IsReceipt(receipt)
    /\ lockedBy \in Runs \union {"free"}
    /\ CommandsAreSuch
    /\ txns \in Nat
    /\ first \in [Targets -> Entries]
    /\ edited \subseteq Targets /\ undone \subseteq Targets /\ overtaken \subseteq Targets

\* The lock is held by the command that works under it.
LockIsHeld == \A r \in Runs : cmd[r].at \in LockedPlaces <=> lockedBy = r

\* The transaction of the command is still to come.
Fresh(k) ==
    /\ k.what \in {"install", "remove"} /\ k.then # "unreceipt"
    /\ k.at \in {"look", "plan", "lock", "settle", "reverse", "undo", "note", "forget", "begin"}

\* A transaction has a number of its own.
NumbersAreNew ==
    /\ receipt.txn <= txns /\ journal.txn <= txns
    /\ \A r \in Runs : cmd[r].txn <= txns
    /\ \A r \in Runs : Fresh(cmd[r]) =>
          /\ cmd[r].txn > 0 /\ cmd[r].txn # receipt.txn /\ cmd[r].txn # journal.txn
          /\ \A q \in Runs : q # r /\ Fresh(cmd[q]) => cmd[q].txn # cmd[r].txn

\* A journal whose transaction is neither certified by the receipt nor brought to its end.
Unsettled == journal.phase \in {"applying", "conflict"} /\ journal.txn # receipt.txn

Excepted == edited \union overtaken

\* What a target should be when nobody is at work, and when a transaction began.
StandsAs(t) == IF t \in DOMAIN receipt.ops \ undone THEN receipt.ops[t].after ELSE first[t]
Origin(t) == IF journal.removes THEN first[t] ELSE StandsAs(t)

TargetFits(t) ==
    IF Unsettled /\ t \in DOMAIN journal.ops
    THEN /\ journal.ops[t].before = Origin(t)
         /\ \/ entry[t].ours = journal.ops[t].before
            \/ /\ entry[t].ours = journal.ops[t].after
               /\ journal.ops[t].going /\ t \notin journal.reversed
    ELSE entry[t].ours = Origin(t)

TargetsAreWhole == \A t \in Targets \ Excepted : TargetFits(t)

\* The receipt keeps what was there before the first setup; a removal's journal is made from it.
ReceiptIsKept ==
    /\ \A t \in DOMAIN receipt.ops \ Excepted : receipt.ops[t].before = first[t]
    /\ journal.removes =>
          /\ journal.txn # receipt.txn
          /\ DOMAIN journal.ops = DOMAIN receipt.ops

ConflictHasACause == journal.phase = "conflict" => Excepted # {}

\* What the place of a command says of the journal; PlaceFits and the next two are of one command.
PlaceFits(k) ==
    /\ k.at \in {"look", "plan", "lock", "begin"} => k.then # "unreceipt"
    /\ k.at \in {"lock", "settle", "reverse", "undo", "note", "forget"} => k.then # ""
    /\ k.at \in {"begin", "unreceipt"} => journal.phase = "none"
    /\ k.at = "unreceipt" => DOMAIN receipt.ops \subseteq undone
    /\ k.at \in {"settle", "reverse", "undo", "note", "forget"} /\ k.then = "unreceipt" =>
          journal.removes /\ journal.phase # "none"
    /\ k.at = "settle" /\ k.then = "unreceipt" => journal.phase = "applying"
    /\ k.at = "forget" => journal.phase = "committed"
    /\ k.at = "commit" => journal.txn = receipt.txn

\* All that was begun is reversed, or is still to be tried, or was found to be a conflict.
ReversalFits(k) ==
    /\ k.at \in {"reverse", "undo", "note"} =>
          /\ Unsettled
          /\ k.todo \subseteq DOMAIN journal.ops
          /\ k.bad => Excepted # {}
          /\ ~k.bad => \A t \in DOMAIN journal.ops \ (journal.reversed \union k.todo) :
                           ~journal.ops[t].going
    /\ k.at \in {"undo", "note"} => k.todo # {}
    /\ k.at = "undo" => (LastOf(k.todo) \notin Excepted => entry[LastOf(k.todo)] = k.seen)
    /\ k.at = "note" => (LastOf(k.todo) \notin Excepted =>
                            entry[LastOf(k.todo)].ours = journal.ops[LastOf(k.todo)].before)

\* What was begun is written, but for the one target at hand.
WritingFits(k) ==
    /\ k.at \in {"mark", "read", "swap", "receipt"} =>
          /\ journal.phase = "applying" /\ ~journal.removes /\ journal.txn # receipt.txn
          /\ journal.reversed = {}
    /\ k.at \in {"read", "swap"} =>
          \E t \in DOMAIN journal.ops : k.todo = {t} /\ journal.ops[t].going
    /\ k.at = "receipt" => Waiting = {}
    /\ k.at \in {"mark", "read", "swap", "receipt"} =>
          \A t \in DOMAIN journal.ops \ Excepted :
              journal.ops[t].going =>
                  \/ entry[t].ours = journal.ops[t].after
                  \/ k.at \in {"read", "swap"} /\ t \in k.todo

CommandFits(k) == PlaceFits(k) /\ ReversalFits(k) /\ WritingFits(k)

InstallerInv ==
    /\ InstallerTypeOK /\ LockIsHeld /\ NumbersAreNew
    /\ TargetsAreWhole /\ ReceiptIsKept /\ ConflictHasACause
    /\ \A r \in Runs : CommandFits(cmd[r])

Steps(r, k) ==
    /\ cmd' = [cmd EXCEPT ![r] = k]
    /\ lockedBy' = IF k.at \in LockedPlaces THEN r ELSE IF lockedBy = r THEN "free" ELSE lockedBy
    /\ k.at \in LockedPlaces => lockedBy \in {r, "free"}

\* The command goes on with the transaction it has, or comes to none.
SameNumber(r, k) ==
    /\ Fresh(k) => Fresh(cmd[r]) /\ k.txn = cmd[r].txn
    /\ k.txn <= txns

\* Every non-empty set of numbers has a least one.
LEMMA LeastNumber ==
    ASSUME NEW T \in SUBSET Nat, T # {}
    PROVE  \E x \in T : \A y \in T : x <= y
<1>1. PICK R : R = OpToRel(<, Nat)
  OBVIOUS
<1>2. IsWellFoundedOn(R, Nat)
  BY <1>1, NatLessThanWellFounded
<1>3. PICK x \in T : \A y \in T : ~ (<<y, x>> \in R)
  BY <1>2, WFMin
<1>4. ASSUME NEW y \in T PROVE ~(y < x)
  BY <1>1, <1>3 DEF OpToRel
<1> QED BY <1>3, <1>4

LEMMA FirstIsOne ==
    ASSUME NEW S \in SUBSET Targets, S # {}
    PROVE  FirstOf(S) \in S
<1>1. Order \in Seq(Targets) /\ DOMAIN Order = 1 .. Len(Order) /\ Len(Order) \in Nat
  BY InstallerAssumption, LenProperties
<1>2. PICK T : T = {i \in DOMAIN Order : Order[i] \in S}
  OBVIOUS
<1>3. T \in SUBSET Nat /\ T # {}
  BY <1>1, <1>2 DEF Targets, ToSet
<1>4. PICK i \in T : \A j \in T : i <= j
  BY <1>3, LeastNumber
<1>5. i \in DOMAIN Order /\ Order[i] \in S /\ \A j \in 1 .. i - 1 : Order[j] \notin S
  BY <1>1, <1>2, <1>4
<1> QED BY <1>5 DEF FirstOf

LEMMA LastIsOne ==
    ASSUME NEW S \in SUBSET Targets, S # {}
    PROVE  LastOf(S) \in S
<1>1. Order \in Seq(Targets) /\ DOMAIN Order = 1 .. Len(Order) /\ Len(Order) \in Nat
  BY InstallerAssumption, LenProperties
<1>2. PICK n : n = Len(Order)
  OBVIOUS
<1>3. PICK T : T = {m \in 0 .. n : Order[n - m] \in S /\ n - m \in 1 .. n}
  OBVIOUS
<1>4. T \in SUBSET Nat
  BY <1>1, <1>2, <1>3
<1>5. T # {}
  <2>1. PICK i \in 1 .. n : Order[i] \in S
    BY <1>1, <1>2 DEF Targets, ToSet
  <2>2. n - i \in 0 .. n /\ n - (n - i) = i
    BY <1>1, <1>2
  <2> QED BY <1>3, <2>1, <2>2
<1>6. PICK m \in T : \A j \in T : m <= j
  BY <1>4, <1>5, LeastNumber
<1>7. n - m \in DOMAIN Order /\ Order[n - m] \in S
  BY <1>1, <1>2, <1>3, <1>6
<1>8. ASSUME NEW j \in n - m + 1 .. n PROVE Order[j] \notin S
  <2>1. j \in 1 .. n /\ n - j \in 0 .. n /\ n - (n - j) = j /\ n - j < m
    BY <1>1, <1>2, <1>3, <1>6
  <2> QED BY <2>1, <1>1, <1>2, <1>3, <1>4, <1>6
<1> QED BY <1>2, <1>7, <1>8 DEF LastOf

LEMMA Fields ==
    ASSUME NEW what, NEW at, NEW version, NEW txn, NEW plan, NEW base, NEW then, NEW todo, NEW seen,
           NEW bad, NEW k,
           k = [what |-> what, at |-> at, version |-> version, txn |-> txn, plan |-> plan,
                base |-> base, then |-> then, todo |-> todo, seen |-> seen, bad |-> bad]
    PROVE  /\ k.what = what /\ k.at = at /\ k.version = version /\ k.txn = txn /\ k.plan = plan
           /\ k.base = base /\ k.then = then /\ k.todo = todo /\ k.seen = seen /\ k.bad = bad
           /\ HasFields(k)
BY DEF HasFields

LEMMA NoPlan == IsPlan(NoOps)
<1>1. DOMAIN NoOps = {}
  BY DEF NoOps
<1>2. NoOps \in [{} -> [before : Entries, after : Entries, going : {FALSE}]]
  BY DEF NoOps
<1> QED BY <1>1, <1>2 DEF IsPlan

LEMMA NoCommandIs == IsCommand(NoCommand) /\ CommandFits(NoCommand) /\ ~Fresh(NoCommand)
<1>1. NoCommand = [what |-> "", at |-> "idle", version |-> Missing, txn |-> 0, plan |-> NoOps, base |-> 0,
         then |-> "", todo |-> {}, seen |-> [ours |-> Missing, mine |-> 0], bad |-> FALSE]
  BY DEF NoCommand
<1>2. "idle" \in CommandPlaces
  BY DEF CommandPlaces
<1>3. Missing \in Entries /\ [ours |-> Missing, mine |-> 0] \in Reading
  BY DEF Entries, Reading
<1>5. /\ NoCommand.what = "" /\ NoCommand.at = "idle" /\ NoCommand.version = Missing /\ NoCommand.txn = 0
      /\ NoCommand.plan = NoOps /\ NoCommand.base = 0 /\ NoCommand.then = "" /\ NoCommand.todo = {}
      /\ NoCommand.seen = [ours |-> Missing, mine |-> 0] /\ NoCommand.bad = FALSE /\ HasFields(NoCommand)
  BY <1>1 DEF HasFields
<1>4. IsCommand(NoCommand)
  <2>1. PICK k : k = NoCommand
    OBVIOUS
  <2>0. k.txn \in Nat /\ k.base \in Nat
    <3>1. k.txn = 0 /\ k.base = 0
      BY <1>1, <2>1
    <3> QED BY <3>1
  <2>2. HasFields(k) /\ k.what = "" /\ k.at \in CommandPlaces /\ k.version \in Entries
    BY <1>2, <1>3, <1>5, <2>1
  <2>3. IsPlan(k.plan) /\ k.then = "" /\ k.todo \subseteq Targets /\ k.seen \in Reading /\ k.bad \in BOOLEAN
    BY <1>3, <1>5, <2>1, NoPlan
  <2>4. IsCommand(k)
    BY <2>0, <2>2, <2>3 DEF IsCommand
  <2> QED BY <2>1, <2>4
<1> QED
  BY <1>4, <1>5 DEF CommandFits, PlaceFits, ReversalFits, WritingFits, Fresh

LEMMA StepsKeepCommands ==
    ASSUME InstallerTypeOK, LockIsHeld, NEW r \in Runs, NEW k, IsCommand(k), Steps(r, k)
    PROVE  /\ CommandsAreSuch' /\ LockIsHeld' /\ lockedBy' \in Runs \union {"free"}
           /\ cmd'[r] = k /\ \A q \in Runs \ {r} : cmd'[q] = cmd[q]
<1>1. cmd = [q \in Runs |-> cmd[q]] /\ \A q \in Runs : IsCommand(cmd[q])
  BY DEF InstallerTypeOK, CommandsAreSuch
<1>2. cmd' = [q \in Runs |-> IF q = r THEN k ELSE cmd[q]]
  BY <1>1 DEF Steps
<1>3. cmd'[r] = k /\ \A q \in Runs \ {r} : cmd'[q] = cmd[q]
  BY <1>2
<1>4. CommandsAreSuch'
  <2>1. \A q \in Runs : IsCommand(cmd'[q])
    BY <1>1, <1>3
  <2>2. cmd' = [q \in Runs |-> cmd'[q]]
    BY <1>2, <1>3
  <2>3. ASSUME NEW q \in Runs PROVE IsCommand(cmd[q])'
    BY <2>1 DEF IsCommand
  <2> QED BY <2>2, <2>3 DEF CommandsAreSuch
<1>5. lockedBy' \in Runs \union {"free"}
  BY DEF Steps, InstallerTypeOK
<1>6. ASSUME NEW q \in Runs PROVE (cmd[q].at \in LockedPlaces <=> lockedBy = q)'
  <2>1. "free" \notin Runs
    BY InstallerAssumption
  <2>2. CASE q = r
    BY <2>1, <2>2, <1>3 DEF Steps, LockIsHeld, InstallerTypeOK
  <2>3. CASE q # r
    BY <2>1, <2>3, <1>3 DEF Steps, LockIsHeld, InstallerTypeOK
  <2> QED BY <2>2, <2>3
<1> QED BY <1>3, <1>4, <1>5, <1>6 DEF LockIsHeld

LEMMA NumbersKept ==
    ASSUME InstallerTypeOK, NumbersAreNew, NEW r \in Runs, NEW k, IsCommand(k),
           cmd'[r] = k, \A q \in Runs \ {r} : cmd'[q] = cmd[q],
           SameNumber(r, k), txns' = txns, receipt'.txn \in {receipt.txn, journal.txn, 0},
           \/ journal'.txn \in {journal.txn, 0}
           \/ journal'.txn = cmd[r].txn /\ Fresh(cmd[r]) /\ ~Fresh(k)
    PROVE  NumbersAreNew'
<1>1. receipt.txn <= txns /\ journal.txn <= txns /\ txns \in Nat /\ receipt.txn \in Nat /\ journal.txn \in Nat
  BY DEF NumbersAreNew, InstallerTypeOK, IsReceipt, IsJournal
<1>2. \A q \in Runs : cmd[q].txn <= txns /\ cmd[q].txn \in Nat
  BY DEF NumbersAreNew, InstallerTypeOK, CommandsAreSuch, IsCommand
<1>3. receipt'.txn <= txns' /\ journal'.txn <= txns'
  BY <1>1, <1>2
<1>4. \A q \in Runs : cmd'[q].txn <= txns'
  BY <1>1, <1>2 DEF SameNumber
<1>5. ASSUME NEW q \in Runs, Fresh(cmd'[q])
      PROVE  Fresh(cmd[q]) /\ cmd'[q].txn = cmd[q].txn
  BY <1>5 DEF SameNumber
<1>6. ASSUME NEW q \in Runs, Fresh(cmd[q]) PROVE cmd[q].txn > 0 /\ cmd[q].txn # receipt.txn /\ cmd[q].txn # journal.txn
  BY <1>6 DEF NumbersAreNew
<1>7. ASSUME NEW q \in Runs, NEW p \in Runs, p # q, Fresh(cmd[q]), Fresh(cmd[p]) PROVE cmd[q].txn # cmd[p].txn
  BY <1>7 DEF NumbersAreNew
<1>8. ASSUME NEW q \in Runs, Fresh(cmd'[q])
      PROVE  /\ cmd'[q].txn > 0 /\ cmd'[q].txn # receipt'.txn /\ cmd'[q].txn # journal'.txn
             /\ \A p \in Runs : p # q /\ Fresh(cmd'[p]) => cmd'[p].txn # cmd'[q].txn
  <2>1. Fresh(cmd[q]) /\ cmd'[q].txn = cmd[q].txn
    BY <1>5, <1>8
  <2>2. cmd'[q].txn > 0 /\ cmd'[q].txn # receipt'.txn
    BY <2>1, <1>6, <1>2
  <2>3. cmd'[q].txn # journal'.txn
    BY <2>1, <1>6, <1>7, <1>2, <1>8
  <2>4. ASSUME NEW p \in Runs, p # q, Fresh(cmd'[p]) PROVE cmd'[p].txn # cmd'[q].txn
    BY <2>1, <2>4, <1>5, <1>7
  <2> QED BY <2>2, <2>3, <2>4
<1>9. ASSUME NEW q \in Runs PROVE Fresh(cmd[q])' <=> Fresh(cmd'[q])
  BY DEF Fresh
<1> QED BY <1>3, <1>4, <1>8, <1>9 DEF NumbersAreNew

\* Who does not hold the lock is not affected by what is done under it.
LEMMA UnlockedFits ==
    ASSUME NEW k, k.at \notin LockedPlaces, k.at \in CommandPlaces, CommandFits(k)
    PROVE  CommandFits(k)'
BY DEF CommandFits, PlaceFits, ReversalFits, WritingFits, LockedPlaces, CommandPlaces

\* A step of a command that leaves the rest alone.
LEMMA CommandSteps ==
    ASSUME InstallerInv, NEW r \in Runs, NEW k, IsCommand(k), Steps(r, k), SameNumber(r, k),
           CommandFits(k), UNCHANGED <<entry, journal, receipt, txns, ghosts>>
    PROVE  InstallerInv'
<1> USE DEF ghosts
<1>1. /\ CommandsAreSuch' /\ LockIsHeld' /\ lockedBy' \in Runs \union {"free"}
      /\ cmd'[r] = k /\ \A q \in Runs \ {r} : cmd'[q] = cmd[q]
  BY StepsKeepCommands DEF InstallerInv
<1>2. InstallerTypeOK'
  BY <1>1 DEF InstallerInv, InstallerTypeOK, IsJournal, IsReceipt
<1>3. NumbersAreNew'
  BY <1>1, NumbersKept DEF InstallerInv
<1>4. TargetsAreWhole' /\ ReceiptIsKept' /\ ConflictHasACause'
  BY DEF InstallerInv, TargetsAreWhole, TargetFits, ReceiptIsKept, ConflictHasACause, Excepted,
         Unsettled, Origin, StandsAs
<1>5. ASSUME NEW q \in Runs PROVE CommandFits(cmd[q])'
  <2>1. CommandFits(cmd'[q])
    BY <1>1 DEF InstallerInv
  <2> QED BY <2>1 DEF CommandFits, PlaceFits, ReversalFits, WritingFits, Unsettled, Excepted, Waiting
<1> QED BY <1>1, <1>2, <1>3, <1>4, <1>5 DEF InstallerInv

LEMMA CommandStops ==
    ASSUME InstallerInv, NEW r \in Runs, Ends(r),
           UNCHANGED <<entry, journal, receipt, txns, ghosts>>
    PROVE  InstallerInv'
<1>1. IsCommand(NoCommand) /\ CommandFits(NoCommand) /\ ~Fresh(NoCommand)
  BY NoCommandIs
<1>2. Steps(r, NoCommand)
  BY DEF Ends, Steps, NoCommand, LockedPlaces
<1>3. SameNumber(r, NoCommand)
  <2>1. NoCommand.txn = 0 /\ 0 <= txns
    BY DEF NoCommand, InstallerInv, InstallerTypeOK
  <2> QED BY <1>1, <2>1 DEF SameNumber
<1> QED BY <1>1, <1>2, <1>3, CommandSteps

\* A step of the command that holds the lock.
LEMMA LockedSteps ==
    ASSUME InstallerInv, NEW r \in Runs, NEW k, IsCommand(k), Steps(r, k), SameNumber(r, k),
           lockedBy = r, UNCHANGED <<txns, first, edited>>,
           entry' \in [Targets -> Reading], IsJournal(journal)', IsReceipt(receipt)',
           undone' \subseteq Targets, overtaken' \subseteq Targets,
           receipt'.txn \in {receipt.txn, journal.txn, 0},
           \/ journal'.txn \in {journal.txn, 0}
           \/ journal'.txn = cmd[r].txn /\ Fresh(cmd[r]) /\ ~Fresh(k),
           TargetsAreWhole', ReceiptIsKept', ConflictHasACause', CommandFits(k)'
    PROVE  InstallerInv'
<1>1. /\ CommandsAreSuch' /\ LockIsHeld' /\ lockedBy' \in Runs \union {"free"}
      /\ cmd'[r] = k /\ \A q \in Runs \ {r} : cmd'[q] = cmd[q]
  BY StepsKeepCommands DEF InstallerInv
<1>2. InstallerTypeOK'
  BY <1>1 DEF InstallerInv, InstallerTypeOK
<1>3. NumbersAreNew'
  BY <1>1, NumbersKept DEF InstallerInv
<1>4. ASSUME NEW q \in Runs PROVE CommandFits(cmd[q])'
  <2>1. CASE q = r
    BY <1>1, <2>1 DEF CommandFits, PlaceFits, ReversalFits, WritingFits
  <2>2. CASE q # r
    <3>1. PICK c : c = cmd[q]
      OBVIOUS
    <3>2. c.at \notin LockedPlaces /\ c.at \in CommandPlaces
      BY <2>2, <3>1 DEF InstallerInv, InstallerTypeOK, LockIsHeld, CommandsAreSuch, IsCommand
    <3>3. CommandFits(c)'
      BY <3>1, <3>2, UnlockedFits DEF InstallerInv
    <3>4. cmd'[q] = c
      BY <1>1, <2>2, <3>1
    <3>5. PlaceFits(cmd[q])'
      BY <3>3, <3>4 DEF CommandFits, PlaceFits
    <3>6. ReversalFits(cmd[q])'
      BY <3>3, <3>4 DEF CommandFits, ReversalFits
    <3>7. WritingFits(cmd[q])'
      BY <3>3, <3>4 DEF CommandFits, WritingFits
    <3> QED BY <3>5, <3>6, <3>7 DEF CommandFits
  <2> QED BY <2>1, <2>2
<1> QED BY <1>1, <1>2, <1>3, <1>4 DEF InstallerInv

LEMMA NoneIs == IsJournal(NoTransaction) /\ IsReceipt(NoReceipt)
<1>1. \A S : DOMAIN NoOps = {} /\ NoOps \in [{} -> S]
  BY DEF NoOps
<1>2. /\ NoTransaction.phase = "none" /\ NoTransaction.txn = 0 /\ NoTransaction.ops = NoOps
      /\ NoTransaction.reversed = {} /\ NoTransaction.removes = FALSE
      /\ NoReceipt.txn = 0 /\ NoReceipt.ops = NoOps
  BY DEF NoTransaction, NoReceipt
<1>3. IsReceipt(NoReceipt)
  BY <1>1, <1>2 DEF IsReceipt, NoReceipt
<1>4. IsJournal(NoTransaction)
  BY <1>1, <1>2 DEF IsJournal, NoTransaction
<1> QED BY <1>3, <1>4

LEMMA InstallerInitially == InstallerInit => InstallerInv
<1> SUFFICES ASSUME InstallerInit PROVE InstallerInv
  OBVIOUS
<1>1. cmd = [r \in Runs |-> NoCommand] /\ \A r \in Runs : cmd[r] = NoCommand
  BY DEF InstallerInit
<1>2. \A r \in Runs : IsCommand(cmd[r]) /\ CommandFits(cmd[r]) /\ ~Fresh(cmd[r])
  BY <1>1, NoCommandIs
<1>3. CommandsAreSuch
  BY <1>1, <1>2 DEF CommandsAreSuch
<1>4. IsJournal(journal) /\ IsReceipt(receipt)
  BY NoneIs DEF InstallerInit
<1>5. entry \in [Targets -> Reading] /\ first \in [Targets -> Entries]
  BY DEF InstallerInit, Reading, Entries
<1>6. InstallerTypeOK
  BY <1>3, <1>4, <1>5 DEF InstallerTypeOK, InstallerInit
<1>7. LockIsHeld
  <2>1. \A r \in Runs : cmd[r].at = "idle" /\ r # "free"
    BY <1>1, InstallerAssumption DEF NoCommand
  <2> QED BY <2>1 DEF LockIsHeld, InstallerInit, LockedPlaces
<1>8. NumbersAreNew
  <2>1. \A r \in Runs : cmd[r].txn = 0 /\ ~Fresh(cmd[r])
    BY <1>1, <1>2 DEF NoCommand
  <2>2. receipt.txn = 0 /\ journal.txn = 0 /\ txns = 0
    BY DEF InstallerInit, NoTransaction, NoReceipt
  <2> QED BY <2>1, <2>2 DEF NumbersAreNew
<1>9. TargetsAreWhole /\ ReceiptIsKept /\ ConflictHasACause
  BY DEF InstallerInit, NoTransaction, NoReceipt, NoOps, TargetsAreWhole, TargetFits, Unsettled,
         Origin, StandsAs, ReceiptIsKept, ConflictHasACause
<1> QED BY <1>2, <1>6, <1>7, <1>8, <1>9 DEF InstallerInv

LEMMA KeepsUserEdits ==
    ASSUME InstallerInv, NEW t \in Targets, UserEdits(t)
    PROVE  InstallerInv'
<1>1. /\ UNCHANGED <<journal, receipt, lockedBy, cmd, txns, first, undone, overtaken>>
      /\ edited' = edited \union {t}
      /\ entry' \in [Targets -> Reading]
      /\ \A u \in Targets \ {t} : entry'[u] = entry[u]
  BY DEF UserEdits, InstallerInv, InstallerTypeOK, Reading, Entries
<1>2. InstallerTypeOK'
  BY <1>1 DEF InstallerInv, InstallerTypeOK, CommandsAreSuch, IsCommand, IsJournal, IsReceipt
<1>3. LockIsHeld' /\ NumbersAreNew'
  BY <1>1 DEF InstallerInv, LockIsHeld, NumbersAreNew, Fresh
<1>4. Excepted' = Excepted \union {t}
  BY <1>1 DEF Excepted
<1>5. TargetsAreWhole'
  BY <1>1, <1>4 DEF InstallerInv, TargetsAreWhole, TargetFits, Unsettled, Origin, StandsAs
<1>6. ReceiptIsKept' /\ ConflictHasACause'
  BY <1>1, <1>4 DEF InstallerInv, ReceiptIsKept, ConflictHasACause
<1>7. ASSUME NEW r \in Runs PROVE CommandFits(cmd[r])'
  <2>1. PICK k : k = cmd[r]
    OBVIOUS
  <2>2. k' = k /\ cmd'[r] = k
    BY <1>1, <2>1
  <2>3. PlaceFits(k) /\ ReversalFits(k) /\ WritingFits(k) /\ k.todo \subseteq Targets
    BY <2>1 DEF InstallerInv, CommandFits, InstallerTypeOK, CommandsAreSuch, IsCommand
  <2>4. PlaceFits(k)' /\ WritingFits(k)'
    BY <1>1, <1>4, <2>3 DEF PlaceFits, WritingFits, Waiting, InstallerInv, InstallerTypeOK, IsJournal
  <2>5. ReversalFits(k)'
    <3>1. k.at \in {"undo", "note"} => LastOf(k.todo) \in Targets
      BY <2>3, LastIsOne DEF ReversalFits
    <3> QED BY <1>1, <1>4, <2>3, <3>1 DEF ReversalFits, Unsettled
  <2> QED BY <2>2, <2>4, <2>5 DEF CommandFits, PlaceFits, ReversalFits, WritingFits
<1> QED BY <1>2, <1>3, <1>5, <1>6, <1>7 DEF InstallerInv

\* The command is the same but for its place and what it does there.
SameOrder(k, c) ==
    /\ k.what = c.what /\ k.version = c.version /\ k.txn = c.txn /\ k.plan = c.plan
    /\ k.base = c.base /\ k.then = c.then

LEMMA CommandMoves ==
    ASSUME InstallerInv, NEW r \in Runs, NEW at \in CommandPlaces, Moves(r, at)
    PROVE  \E k : /\ cmd' = [cmd EXCEPT ![r] = k] /\ IsCommand(k) /\ SameOrder(k, cmd[r])
                  /\ k.at = at /\ k.todo = cmd[r].todo /\ k.seen = cmd[r].seen /\ k.bad = cmd[r].bad
<1>1. PICK c : c = cmd[r] /\ IsCommand(c)
  BY DEF InstallerInv, InstallerTypeOK, CommandsAreSuch
<1>2. PICK k : k = [c EXCEPT !.at = at]
  OBVIOUS
<1>3. /\ k.at = at /\ k.todo = c.todo /\ k.seen = c.seen /\ k.bad = c.bad /\ SameOrder(k, c)
      /\ k = [what |-> c.what, at |-> at, version |-> c.version, txn |-> c.txn, plan |-> c.plan,
              base |-> c.base, then |-> c.then, todo |-> c.todo, seen |-> c.seen, bad |-> c.bad]
  BY <1>1, <1>2 DEF IsCommand, HasFields, SameOrder
<1>4. IsCommand(k)
  <2>1. /\ c.what \in {"", "install", "doctor", "remove"} /\ c.version \in Entries /\ c.txn \in Nat
        /\ IsPlan(c.plan) /\ c.base \in Nat /\ c.then \in {"", "begin", "plan", "report", "unreceipt"}
        /\ c.todo \in SUBSET Targets /\ c.seen \in Reading /\ c.bad \in BOOLEAN
    BY <1>1 DEF IsCommand
  <2>2. HasFields(k)
    BY <1>3 DEF HasFields
  <2>3. k.what = c.what /\ k.version = c.version /\ k.txn = c.txn /\ k.plan = c.plan /\ k.base = c.base /\ k.then = c.then
    BY <1>3 DEF SameOrder
  <2> QED BY <1>3, <2>1, <2>2, <2>3 DEF IsCommand
<1>5. cmd' = [cmd EXCEPT ![r] = k]
  BY <1>1, <1>2 DEF Moves
<1> QED BY <1>1, <1>3, <1>4, <1>5

LEMMA KeepsStart ==
    ASSUME InstallerInv, NEW r \in Runs, NEW what \in {"install", "doctor", "remove"},
           NEW v \in Entries, Start(r, what, v)
    PROVE  InstallerInv'
<1>0. /\ cmd[r].at = "idle" /\ txns \in Nat /\ receipt.txn \in Nat
      /\ txns' = (IF what = "doctor" THEN txns ELSE txns + 1)
      /\ UNCHANGED <<entry, journal, receipt, lockedBy, ghosts>>
  BY DEF Start, InstallerInv, InstallerTypeOK, IsReceipt
<1>1. PICK n : n = txns'
  OBVIOUS
<1>2. PICK k : k = [NoCommand EXCEPT !.what = what, !.version = v, !.txn = n, !.base = receipt.txn,
                       !.at = IF what = "remove" THEN "lock" ELSE "look", !.then = "begin"]
  OBVIOUS
<1>3. cmd' = [cmd EXCEPT ![r] = k]
  BY <1>1, <1>2 DEF Start
<1>4. /\ k = [what |-> what, at |-> k.at, version |-> v, txn |-> n, plan |-> NoOps,
              base |-> receipt.txn, then |-> "begin", todo |-> {},
              seen |-> [ours |-> Missing, mine |-> 0], bad |-> FALSE]
      /\ k.at \in {"look", "lock"} /\ k.then = "begin"
  BY <1>2 DEF NoCommand
<1>5. IsCommand(k)
  <2>1. [ours |-> Missing, mine |-> 0] \in Reading
    BY DEF Entries, Reading
  <2>2. n \in Nat
    BY <1>0, <1>1
  <2>3. k.at \in CommandPlaces
    BY <1>4 DEF CommandPlaces
  <2>4. /\ k.what = what /\ k.version = v /\ k.txn = n /\ k.plan = NoOps /\ k.base = receipt.txn
        /\ k.then = "begin" /\ k.todo = {} /\ k.seen = [ours |-> Missing, mine |-> 0] /\ k.bad = FALSE
    BY <1>4
  <2>5. HasFields(k)
    BY <1>4 DEF HasFields
  <2> QED BY <1>0, <2>1, <2>2, <2>3, <2>4, <2>5, NoPlan DEF IsCommand
<1>6. Steps(r, k)
  <2>1. lockedBy # r
    BY <1>0 DEF InstallerInv, LockIsHeld, LockedPlaces
  <2> QED BY <1>0, <1>3, <1>4, <2>1 DEF Steps, LockedPlaces
<1>7. /\ CommandsAreSuch' /\ LockIsHeld' /\ lockedBy' \in Runs \union {"free"}
      /\ cmd'[r] = k /\ \A q \in Runs \ {r} : cmd'[q] = cmd[q]
  BY <1>5, <1>6, StepsKeepCommands DEF InstallerInv
<1>8. InstallerTypeOK'
  BY <1>0, <1>7 DEF InstallerInv, InstallerTypeOK, IsJournal, IsReceipt, ghosts
<1>9. NumbersAreNew'
  <2>1. txns <= n /\ (what # "doctor" => n = txns + 1) /\ n \in Nat
    BY <1>0, <1>1
  <2>2. k.txn = n /\ k.what = what
    BY <1>4
  <2>3. \A q \in Runs : cmd[q].txn <= txns /\ cmd[q].txn \in Nat
    BY DEF InstallerInv, NumbersAreNew, InstallerTypeOK, CommandsAreSuch, IsCommand
  <2>4. receipt'.txn <= txns /\ journal'.txn <= txns /\ receipt'.txn \in Nat /\ journal'.txn \in Nat
    BY <1>0 DEF InstallerInv, NumbersAreNew, InstallerTypeOK, IsReceipt, IsJournal
  <2>5. receipt'.txn <= txns' /\ journal'.txn <= txns' /\ \A q \in Runs : cmd'[q].txn <= txns'
    BY <1>0, <1>1, <1>7, <2>1, <2>2, <2>3, <2>4
  <2>6. ASSUME NEW q \in Runs, Fresh(cmd'[q])
        PROVE  /\ cmd'[q].txn > 0 /\ cmd'[q].txn # receipt'.txn /\ cmd'[q].txn # journal'.txn
               /\ \A p \in Runs : p # q /\ Fresh(cmd'[p]) => cmd'[p].txn # cmd'[q].txn
    <3>1. CASE q = r
      <4>1. n = txns + 1 /\ cmd'[q].txn = n
        BY <1>7, <2>1, <2>2, <2>6, <3>1 DEF Fresh
      <4>2. \A p \in Runs : p # q => cmd'[p].txn <= txns /\ cmd'[p].txn \in Nat
        BY <1>7, <2>3, <3>1
      <4> QED BY <1>0, <2>4, <4>1, <4>2
    <3>2. CASE q # r
      <4>1. Fresh(cmd[q]) /\ cmd'[q] = cmd[q]
        BY <1>7, <2>6, <3>2
      <4>2. cmd'[q].txn > 0 /\ cmd'[q].txn # receipt'.txn /\ cmd'[q].txn # journal'.txn
        BY <1>0, <4>1 DEF InstallerInv, NumbersAreNew
      <4>3. ASSUME NEW p \in Runs, p # q, Fresh(cmd'[p]) PROVE cmd'[p].txn # cmd'[q].txn
        <5>1. CASE p = r
          <6>1. n = txns + 1 /\ cmd'[p].txn = n
            BY <1>7, <2>1, <2>2, <4>3, <5>1 DEF Fresh
          <6> QED BY <1>0, <2>3, <4>1, <6>1
        <5>2. CASE p # r
          BY <1>7, <4>1, <4>3, <5>2 DEF InstallerInv, NumbersAreNew
        <5> QED BY <5>1, <5>2
      <4> QED BY <4>2, <4>3
    <3> QED BY <3>1, <3>2
  <2>7. ASSUME NEW q \in Runs PROVE Fresh(cmd[q])' <=> Fresh(cmd'[q])
    BY DEF Fresh
  <2> QED BY <2>5, <2>6, <2>7 DEF NumbersAreNew
<1>10. TargetsAreWhole' /\ ReceiptIsKept' /\ ConflictHasACause'
  BY <1>0 DEF InstallerInv, TargetsAreWhole, TargetFits, ReceiptIsKept, ConflictHasACause, Excepted,
         Unsettled, Origin, StandsAs, ghosts
<1>11. CommandFits(k)
  BY <1>4 DEF CommandFits, PlaceFits, ReversalFits, WritingFits
<1>12. ASSUME NEW q \in Runs PROVE CommandFits(cmd[q])'
  <2>1. CommandFits(cmd'[q])
    BY <1>7, <1>11 DEF InstallerInv
  <2> QED BY <1>0, <2>1 DEF CommandFits, PlaceFits, ReversalFits, WritingFits, Unsettled, Excepted,
                            Waiting, ghosts
<1> QED BY <1>7, <1>8, <1>9, <1>10, <1>12 DEF InstallerInv

LEMMA KeepsLookForJournal ==
    ASSUME InstallerInv, NEW r \in Runs, LookForJournal(r)
    PROVE  InstallerInv'
<1>1. PICK c : c = cmd[r] /\ IsCommand(c) /\ c.at = "look"
  BY DEF InstallerInv, InstallerTypeOK, CommandsAreSuch, LookForJournal
<1>2. PICK next \in {"report", "plan"} : next = (IF c.what = "doctor" THEN "report" ELSE "plan")
  OBVIOUS
<1>3. PICK k : k = [c EXCEPT !.at = IF journal.phase = "none" THEN next ELSE "lock", !.then = next]
  OBVIOUS
<1>4. /\ k.at \in {"report", "plan", "lock"} /\ k.then = next /\ k.what = c.what /\ k.txn = c.txn
      /\ k = [what |-> c.what, at |-> k.at, version |-> c.version, txn |-> c.txn, plan |-> c.plan,
              base |-> c.base, then |-> next, todo |-> c.todo, seen |-> c.seen, bad |-> c.bad]
  BY <1>1, <1>2, <1>3 DEF IsCommand, HasFields
<1>5. IsCommand(k)
  <2>1. /\ c.what \in {"", "install", "doctor", "remove"} /\ c.version \in Entries /\ c.txn \in Nat
        /\ IsPlan(c.plan) /\ c.base \in Nat
        /\ c.todo \in SUBSET Targets /\ c.seen \in Reading /\ c.bad \in BOOLEAN
    BY <1>1 DEF IsCommand
  <2>2. k.at \in CommandPlaces
    BY <1>4 DEF CommandPlaces
  <2>3. /\ k.what = c.what /\ k.version = c.version /\ k.txn = c.txn /\ k.plan = c.plan
        /\ k.base = c.base /\ k.then = next /\ k.todo = c.todo /\ k.seen = c.seen /\ k.bad = c.bad
    BY <1>4
  <2>4. HasFields(k)
    BY <1>4 DEF HasFields
  <2> QED BY <2>1, <2>2, <2>3, <2>4 DEF IsCommand
<1>6. cmd' = [cmd EXCEPT ![r] = k] /\ UNCHANGED <<entry, journal, receipt, lockedBy, txns, ghosts>>
  BY <1>1, <1>2, <1>3 DEF LookForJournal
<1>7. Steps(r, k)
  <2>1. lockedBy # r
    BY <1>1 DEF InstallerInv, LockIsHeld, LockedPlaces
  <2> QED BY <1>4, <1>6, <2>1 DEF Steps, LockedPlaces
<1>8. SameNumber(r, k)
  <2>1. c.then # "unreceipt" /\ c.txn <= txns
    BY <1>1 DEF InstallerInv, CommandFits, PlaceFits, NumbersAreNew
  <2> QED BY <1>1, <1>4, <2>1 DEF SameNumber, Fresh
<1>9. CommandFits(k)
  BY <1>4 DEF CommandFits, PlaceFits, ReversalFits, WritingFits
<1> QED BY <1>5, <1>6, <1>7, <1>8, <1>9, CommandSteps

LEMMA KeepsPlan ==
    ASSUME InstallerInv, NEW r \in Runs, Plan(r)
    PROVE  InstallerInv'
<1>1. PICK c : c = cmd[r] /\ IsCommand(c) /\ c.at = "plan"
  BY DEF InstallerInv, InstallerTypeOK, CommandsAreSuch, Plan
<1>2. PICK v : v = c.version
  OBVIOUS
<1>3. CASE \E t \in Targets : Foreign(t, v)
  <2>1. Ends(r) /\ UNCHANGED <<entry, journal, receipt, txns, ghosts>>
    BY <1>1, <1>2, <1>3 DEF Plan
  <2> QED BY <2>1, CommandStops
<1>4. CASE ~\E t \in Targets : Foreign(t, v)
  <2>1. PICK p : p = [t \in {t \in Targets : entry[t].ours # v} |->
                        [before |-> entry[t].ours, after |-> v, going |-> FALSE]]
    OBVIOUS
  <2>2. IsPlan(p)
    <3>1. v \in Entries /\ \A t \in Targets : entry[t].ours \in Entries
      BY <1>1, <1>2 DEF IsCommand, InstallerInv, InstallerTypeOK, Reading
    <3> QED BY <2>1, <3>1 DEF IsPlan
  <2>3. PICK k : k = [c EXCEPT !.plan = p, !.base = receipt.txn, !.at = "lock", !.then = "begin"]
    OBVIOUS
  <2>4. /\ k.at = "lock" /\ k.then = "begin" /\ k.what = c.what /\ k.txn = c.txn /\ k.plan = p
        /\ k = [what |-> c.what, at |-> "lock", version |-> c.version, txn |-> c.txn, plan |-> p,
              base |-> receipt.txn, then |-> "begin", todo |-> c.todo, seen |-> c.seen, bad |-> c.bad]
    BY <1>1, <2>3 DEF IsCommand, HasFields
  <2>5. IsCommand(k)
    <3>1. receipt.txn \in Nat
      BY DEF InstallerInv, InstallerTypeOK, IsReceipt
    <3>2. /\ c.what \in {"", "install", "doctor", "remove"} /\ c.version \in Entries /\ c.txn \in Nat
          /\ c.todo \in SUBSET Targets /\ c.seen \in Reading /\ c.bad \in BOOLEAN
      BY <1>1 DEF IsCommand
    <3>3. "lock" \in CommandPlaces
      BY DEF CommandPlaces
    <3>4. /\ k.what = c.what /\ k.at = "lock" /\ k.version = c.version /\ k.txn = c.txn /\ k.plan = p
          /\ k.base = receipt.txn /\ k.then = "begin" /\ k.todo = c.todo /\ k.seen = c.seen /\ k.bad = c.bad
      BY <2>4
    <3>5. HasFields(k)
      BY <2>4 DEF HasFields
    <3> QED BY <2>2, <3>1, <3>2, <3>3, <3>4, <3>5 DEF IsCommand
  <2>6. /\ cmd' = [cmd EXCEPT ![r].plan = p, ![r].base = receipt.txn, ![r].at = "lock", ![r].then = "begin"]
        /\ UNCHANGED <<entry, journal, receipt, lockedBy, txns, ghosts>>
    <3>1. cmd[r].version = v
      BY <1>1, <1>2
    <3>2. ~\E t \in Targets : Foreign(t, cmd[r].version)
      BY <1>4, <3>1
    <3>3. p = [t \in {t \in Targets : entry[t].ours # cmd[r].version} |->
                  [before |-> entry[t].ours, after |-> cmd[r].version, going |-> FALSE]]
      BY <2>1, <3>1
    <3> QED BY <3>2, <3>3 DEF Plan
  <2>6a. cmd' = [cmd EXCEPT ![r] = k]
    <3>1. k = [cmd[r] EXCEPT !.plan = p, !.base = receipt.txn, !.at = "lock", !.then = "begin"]
      BY <1>1, <2>3
    <3> QED BY <2>6, <3>1
  <2>7. Steps(r, k)
    <3>1. lockedBy # r
      BY <1>1 DEF InstallerInv, LockIsHeld, LockedPlaces
    <3> QED BY <2>4, <2>6, <2>6a, <3>1 DEF Steps, LockedPlaces
  <2>8. SameNumber(r, k)
    <3>1. c.then # "unreceipt" /\ c.txn <= txns
      BY <1>1 DEF InstallerInv, CommandFits, PlaceFits, NumbersAreNew
    <3> QED BY <1>1, <2>4, <3>1 DEF SameNumber, Fresh
  <2>9. CommandFits(k)
    BY <2>4 DEF CommandFits, PlaceFits, ReversalFits, WritingFits
  <2> QED BY <2>5, <2>6, <2>7, <2>8, <2>9, CommandSteps
<1> QED BY <1>3, <1>4

LEMMA KeepsLockInstall ==
    ASSUME InstallerInv, NEW r \in Runs, LockInstall(r)
    PROVE  InstallerInv'
<1>1. PICK c : c = cmd[r] /\ IsCommand(c) /\ c.at = "lock"
  BY DEF InstallerInv, InstallerTypeOK, CommandsAreSuch, LockInstall
<1>2. UNCHANGED <<entry, journal, receipt, txns, ghosts>>
  BY DEF LockInstall
<1>3. CASE lockedBy = "free" /\ lockedBy' = r /\ Moves(r, "settle")
  <2>1. PICK k : /\ cmd' = [cmd EXCEPT ![r] = k] /\ IsCommand(k) /\ SameOrder(k, c) /\ k.at = "settle"
    BY <1>1, <1>3, CommandMoves DEF CommandPlaces
  <2>2. Steps(r, k)
    BY <1>3, <2>1 DEF Steps, LockedPlaces, CommandPlaces
  <2>3. c.then \notin {"", "unreceipt"} /\ c.txn <= txns
    BY <1>1 DEF InstallerInv, CommandFits, PlaceFits, NumbersAreNew
  <2>4. SameNumber(r, k)
    BY <1>1, <2>1, <2>3 DEF SameNumber, Fresh, SameOrder
  <2>5. CommandFits(k)
    BY <2>1, <2>3 DEF CommandFits, PlaceFits, ReversalFits, WritingFits, SameOrder
  <2> QED BY <1>2, <2>1, <2>2, <2>4, <2>5, CommandSteps
<1>4. CASE Ends(r)
  BY <1>2, <1>4, CommandStops
<1> QED BY <1>3, <1>4 DEF LockInstall

LEMMA KeepsDoctor ==
    ASSUME InstallerInv, NEW r \in Runs, Doctor(r)
    PROVE  InstallerInv'
BY CommandStops DEF Doctor

LEMMA KeepsKillCommand ==
    ASSUME InstallerInv, NEW r \in Runs, KillCommand(r)
    PROVE  InstallerInv'
BY CommandStops DEF KillCommand, Ends

-----------------------------------------------------------------------------
(* Settling a journal. *)

LEMMA WorksUnderLock ==
    ASSUME InstallerInv, NEW r \in Runs, cmd[r].at \in LockedPlaces
    PROVE  lockedBy = r /\ IsCommand(cmd[r]) /\ CommandFits(cmd[r]) /\ cmd[r].txn <= txns /\ txns \in Nat
BY DEF InstallerInv, LockIsHeld, InstallerTypeOK, CommandsAreSuch, NumbersAreNew

LEMMA CommandContinues ==
    ASSUME InstallerInv, NEW r \in Runs, cmd[r].at \in {"settle", "forget"}, Continues(r)
    PROVE  \E k : /\ IsCommand(k) /\ Steps(r, k) /\ SameNumber(r, k)
                  /\ k.at \in {"plan", "report", "begin", "unreceipt"}
                  /\ k.at = cmd[r].then /\ k.then = cmd[r].then
<1>1. PICK c : c = cmd[r]
  OBVIOUS
<1>2. c.at \in LockedPlaces /\ c.at \in {"settle", "forget"}
  BY <1>1 DEF LockedPlaces, CommandPlaces
<1>3. lockedBy = r /\ IsCommand(c) /\ CommandFits(c) /\ c.txn <= txns
  BY <1>1, <1>2, WorksUnderLock
<1>4. c.then \in {"plan", "report", "begin", "unreceipt"}
  BY <1>2, <1>3 DEF CommandFits, PlaceFits, IsCommand
<1>5. c.then \in CommandPlaces /\ Moves(r, c.then)
  BY <1>1, <1>4 DEF CommandPlaces, Continues
<1>6. PICK k : /\ cmd' = [cmd EXCEPT ![r] = k] /\ IsCommand(k) /\ SameOrder(k, c) /\ k.at = c.then
  BY <1>1, <1>5, CommandMoves
<1>7. k.at = c.then /\ k.then = c.then /\ k.what = c.what /\ k.txn = c.txn
  BY <1>6 DEF SameOrder
<1>8. Steps(r, k)
  <2>1. lockedBy' = IF c.then \in {"plan", "report"} THEN "free" ELSE lockedBy
    BY <1>1 DEF Continues
  <2> QED BY <1>3, <1>4, <1>6, <1>7, <2>1 DEF Steps, LockedPlaces, CommandPlaces
<1>9. SameNumber(r, k)
  <2>1. Fresh(k) => Fresh(c)
    BY <1>2, <1>7 DEF Fresh
  <2> QED BY <1>1, <1>3, <1>7, <2>1 DEF SameNumber
<1> QED BY <1>1, <1>4, <1>6, <1>7, <1>8, <1>9

\* The journal is removed once the entries are as they should be.
LEMMA JournalGoes ==
    ASSUME InstallerInv, NEW r \in Runs, cmd[r].at \in {"settle", "forget"}, Continues(r),
           ~Unsettled, cmd[r].at = "settle" => cmd[r].then # "unreceipt",
           journal' = NoTransaction,
           undone' = (IF journal.removes THEN DOMAIN receipt.ops ELSE undone),
           UNCHANGED <<entry, receipt, txns, first, edited, overtaken>>
    PROVE  InstallerInv'
<1>1. PICK k : /\ IsCommand(k) /\ Steps(r, k) /\ SameNumber(r, k)
               /\ k.at \in {"plan", "report", "begin", "unreceipt"}
               /\ k.at = cmd[r].then /\ k.then = cmd[r].then
  BY CommandContinues
<1>2. lockedBy = r /\ CommandFits(cmd[r])
  BY WorksUnderLock DEF LockedPlaces, CommandPlaces
<1>3. /\ journal'.phase = "none" /\ journal'.txn = 0 /\ journal'.ops = NoOps
      /\ journal'.removes = FALSE /\ IsJournal(journal')
  BY NoneIs DEF NoTransaction
<1>4. IsJournal(journal)' /\ IsReceipt(receipt)'
  BY <1>3 DEF IsJournal, IsReceipt, InstallerInv, InstallerTypeOK
<1>5. entry' \in [Targets -> Reading] /\ undone' \subseteq Targets /\ overtaken' \subseteq Targets
  BY DEF InstallerInv, InstallerTypeOK, IsReceipt
<1>6. ~Unsettled' /\ Excepted' = Excepted
  BY <1>3 DEF Unsettled, Excepted
<1>7. TargetsAreWhole'
  <2> SUFFICES ASSUME NEW t \in Targets \ Excepted PROVE TargetFits(t)'
    BY <1>6 DEF TargetsAreWhole
  <2>1. entry[t].ours = Origin(t)
    BY DEF InstallerInv, TargetsAreWhole, TargetFits
  <2>2. Origin(t)' = Origin(t)
    BY <1>3 DEF Origin, StandsAs
  <2> QED BY <1>6, <2>1, <2>2 DEF TargetFits
<1>8. ReceiptIsKept' /\ ConflictHasACause'
  BY <1>3, <1>6 DEF InstallerInv, ReceiptIsKept, ConflictHasACause
<1>9. CommandFits(k)'
  <2>1. k.at = "unreceipt" => journal.removes /\ DOMAIN receipt'.ops \subseteq undone'
    BY <1>1, <1>2 DEF CommandFits, PlaceFits
  <2>2. PlaceFits(k)'
    BY <1>1, <1>3, <2>1 DEF PlaceFits
  <2>3. ReversalFits(k)' /\ WritingFits(k)'
    BY <1>1 DEF ReversalFits, WritingFits
  <2> QED BY <2>2, <2>3 DEF CommandFits
<1>10. receipt'.txn \in {receipt.txn, journal.txn, 0} /\ journal'.txn \in {journal.txn, 0}
  BY <1>3
<1> QED BY <1>1, <1>2, <1>4, <1>5, <1>7, <1>8, <1>9, <1>10, LockedSteps

LEMMA KeepsForgetJournal ==
    ASSUME InstallerInv, NEW r \in Runs, Forget(r)
    PROVE  InstallerInv'
<1>1. cmd[r].at = "forget" /\ Continues(r)
  BY DEF Forget
<1>2. ~Unsettled
  <2>1. CommandFits(cmd[r])
    BY DEF InstallerInv
  <2> QED BY <1>1, <2>1 DEF CommandFits, PlaceFits, Unsettled
<1> QED BY <1>1, <1>2, JournalGoes DEF Forget

LEMMA KeepsSettleJournal ==
    ASSUME InstallerInv, NEW r \in Runs, SettleJournal(r)
    PROVE  InstallerInv'
<1>1. PICK c : c = cmd[r] /\ c.at = "settle"
  BY DEF SettleJournal
<1>2. lockedBy = r /\ IsCommand(c) /\ CommandFits(c) /\ c.txn <= txns
  BY <1>1, WorksUnderLock DEF LockedPlaces, CommandPlaces
<1>3. UNCHANGED <<entry, receipt, txns, first, edited, overtaken>>
  BY DEF SettleJournal
<1>4. CASE journal.phase = "none"
  <2>1. Continues(r) /\ UNCHANGED <<journal, undone>>
    BY <1>4 DEF SettleJournal
  <2>2. PICK k : /\ IsCommand(k) /\ Steps(r, k) /\ SameNumber(r, k)
                 /\ k.at \in {"plan", "report", "begin", "unreceipt"}
                 /\ k.at = c.then /\ k.then = c.then
    BY <1>1, <2>1, CommandContinues
  <2>3. k.at # "unreceipt"
    BY <1>1, <1>2, <1>4, <2>2 DEF CommandFits, PlaceFits
  <2>4. CommandFits(k)
    BY <1>4, <2>2, <2>3 DEF CommandFits, PlaceFits, ReversalFits, WritingFits
  <2> QED BY <1>3, <2>1, <2>2, <2>4, CommandSteps DEF ghosts
<1>5. CASE journal.phase # "none" /\ (journal.txn = receipt.txn \/ journal.phase = "committed")
  <2>1. ~Unsettled
    BY <1>5 DEF Unsettled
  <2>2. c.then # "unreceipt"
    BY <1>1, <1>2, <1>5 DEF CommandFits, PlaceFits, InstallerInv, ReceiptIsKept
  <2>3. Continues(r) /\ journal' = NoTransaction
        /\ undone' = (IF journal.removes THEN DOMAIN receipt.ops ELSE undone)
    BY <1>5 DEF SettleJournal
  <2> QED BY <1>1, <1>3, <2>1, <2>2, <2>3, JournalGoes
<1>6. CASE journal.phase # "none" /\ ~(journal.txn = receipt.txn \/ journal.phase = "committed")
  <2>1. PICK todo : todo = {t \in DOMAIN journal.ops : journal.ops[t].going} \ journal.reversed
    OBVIOUS
  <2>2. PICK k : k = [c EXCEPT !.at = "reverse", !.bad = FALSE, !.todo = todo]
    OBVIOUS
  <2>3. /\ cmd' = [cmd EXCEPT ![r].at = "reverse", ![r].bad = FALSE, ![r].todo = todo]
        /\ UNCHANGED <<journal, lockedBy, undone>>
    BY <1>6, <2>1 DEF SettleJournal
  <2>4. /\ k.at = "reverse" /\ SameOrder(k, c) /\ k.todo = todo /\ k.seen = c.seen /\ k.bad = FALSE
        /\ HasFields(k)
    BY <1>2, <2>2 DEF SameOrder, HasFields, IsCommand
  <2>5. IsCommand(k)
    <3>1. todo \subseteq Targets
      BY <2>1 DEF InstallerInv, InstallerTypeOK, IsJournal
    <3>2. k.at \in CommandPlaces /\ k.bad \in BOOLEAN
      BY <2>4 DEF CommandPlaces
    <3> QED BY <1>2, <2>4, <3>1, <3>2 DEF IsCommand, SameOrder
  <2>6. Steps(r, k)
    <3>1. cmd' = [cmd EXCEPT ![r] = k]
      BY <1>1, <2>2, <2>3
    <3> QED BY <1>2, <2>3, <2>4, <3>1 DEF Steps, LockedPlaces, CommandPlaces
  <2>7. SameNumber(r, k)
    BY <1>1, <1>2, <2>4 DEF SameNumber, SameOrder, Fresh
  <2>8. Unsettled
    BY <1>6 DEF Unsettled, InstallerInv, InstallerTypeOK, IsJournal
  <2>9. PlaceFits(k)
    BY <1>1, <1>2, <1>6, <2>4 DEF CommandFits, PlaceFits, SameOrder
  <2>10. ReversalFits(k)
    BY <2>1, <2>4, <2>8 DEF ReversalFits
  <2>11. WritingFits(k)
    BY <2>4 DEF WritingFits
  <2> QED BY <1>3, <2>3, <2>5, <2>6, <2>7, <2>9, <2>10, <2>11, CommandSteps DEF ghosts, CommandFits
<1> QED BY <1>4, <1>5, <1>6

LEMMA KeepsReverseNext ==
    ASSUME InstallerInv, NEW r \in Runs, ReverseNext(r)
    PROVE  InstallerInv'
<1>1. PICK c : c = cmd[r] /\ c.at = "reverse" /\ c.todo # {}
  BY DEF ReverseNext
<1>2. lockedBy = r /\ IsCommand(c) /\ CommandFits(c) /\ c.txn <= txns
  BY <1>1, WorksUnderLock DEF LockedPlaces, CommandPlaces
<1>3. UNCHANGED <<entry, journal, receipt, lockedBy, txns, ghosts>>
  BY DEF ReverseNext
<1>4. PICK t : t = LastOf(c.todo) /\ t \in c.todo /\ t \in Targets /\ t \in DOMAIN journal.ops
  BY <1>1, <1>2, LastIsOne DEF IsCommand, CommandFits, ReversalFits
<1>5. Unsettled
  BY <1>1, <1>2 DEF CommandFits, ReversalFits
<1>6. CASE Reversible(journal.ops[t], entry[t])
  <2>1. PICK seen : seen = entry[t]
    OBVIOUS
  <2>2. PICK k : k = [c EXCEPT !.at = "undo", !.seen = seen]
    OBVIOUS
  <2>3. /\ k.at = "undo" /\ SameOrder(k, c) /\ k.todo = c.todo /\ k.seen = seen /\ k.bad = c.bad
        /\ HasFields(k)
    BY <1>2, <2>2 DEF SameOrder, HasFields, IsCommand
  <2>4. IsCommand(k)
    <3>1. seen \in Reading
      BY <1>4, <2>1 DEF InstallerInv, InstallerTypeOK
    <3>2. k.at \in CommandPlaces
      BY <2>3 DEF CommandPlaces
    <3> QED BY <1>2, <2>3, <3>1, <3>2 DEF IsCommand, SameOrder
  <2>5. cmd' = [cmd EXCEPT ![r] = k]
    <3>1. cmd' = [cmd EXCEPT ![r].at = "undo", ![r].seen = seen]
      BY <1>1, <1>4, <1>6, <2>1 DEF ReverseNext
    <3> QED BY <1>1, <2>2, <3>1
  <2>6. Steps(r, k)
    BY <1>2, <1>3, <2>3, <2>5 DEF Steps, LockedPlaces, CommandPlaces
  <2>7. SameNumber(r, k)
    BY <1>1, <1>2, <2>3 DEF SameNumber, SameOrder, Fresh
  <2>8. PlaceFits(k)
    BY <1>1, <1>2, <2>3 DEF CommandFits, PlaceFits, SameOrder
  <2>9. ReversalFits(k)
    BY <1>1, <1>2, <1>4, <2>1, <2>3 DEF CommandFits, ReversalFits
  <2>10. WritingFits(k)
    BY <2>3 DEF WritingFits
  <2> QED BY <1>3, <2>4, <2>6, <2>7, <2>8, <2>9, <2>10, CommandSteps DEF CommandFits
<1>7. CASE ~Reversible(journal.ops[t], entry[t])
  <2>1. Excepted # {}
    BY <1>4, <1>5, <1>7 DEF InstallerInv, TargetsAreWhole, TargetFits, Reversible
  <2>2. PICK k : k = [c EXCEPT !.todo = c.todo \ {t}, !.bad = TRUE]
    OBVIOUS
  <2>3. /\ k.at = "reverse" /\ SameOrder(k, c) /\ k.todo = c.todo \ {t} /\ k.seen = c.seen /\ k.bad = TRUE
        /\ HasFields(k)
    BY <1>1, <1>2, <2>2 DEF SameOrder, HasFields, IsCommand
  <2>4. IsCommand(k)
    <3>1. k.at \in CommandPlaces /\ k.bad \in BOOLEAN
      BY <2>3 DEF CommandPlaces
    <3> QED BY <1>2, <2>3, <3>1 DEF IsCommand, SameOrder
  <2>5. cmd' = [cmd EXCEPT ![r] = k]
    <3>1. cmd' = [cmd EXCEPT ![r].todo = @ \ {t}, ![r].bad = TRUE]
      BY <1>1, <1>4, <1>7 DEF ReverseNext
    <3> QED BY <1>1, <2>2, <3>1
  <2>6. Steps(r, k)
    BY <1>2, <1>3, <2>3, <2>5 DEF Steps, LockedPlaces, CommandPlaces
  <2>7. SameNumber(r, k)
    BY <1>1, <1>2, <2>3 DEF SameNumber, SameOrder, Fresh
  <2>8. PlaceFits(k)
    BY <1>1, <1>2, <2>3 DEF CommandFits, PlaceFits, SameOrder
  <2>9. ReversalFits(k)
    BY <1>1, <1>2, <2>1, <2>3 DEF CommandFits, ReversalFits
  <2>10. WritingFits(k)
    BY <2>3 DEF WritingFits
  <2> QED BY <1>3, <2>4, <2>6, <2>7, <2>8, <2>9, <2>10, CommandSteps DEF CommandFits
<1> QED BY <1>6, <1>7

LEMMA KeepsUndo ==
    ASSUME InstallerInv, NEW r \in Runs, Undo(r)
    PROVE  InstallerInv'
<1>1. PICK c : c = cmd[r] /\ c.at = "undo"
  BY DEF Undo
<1>2. lockedBy = r /\ IsCommand(c) /\ CommandFits(c) /\ c.txn <= txns
  BY <1>1, WorksUnderLock DEF LockedPlaces, CommandPlaces
<1>3. UNCHANGED <<journal, receipt, lockedBy, txns, ghosts>>
  BY DEF Undo
<1>4. PICK t : t = LastOf(c.todo) /\ t \in c.todo /\ t \in Targets /\ t \in DOMAIN journal.ops
  BY <1>1, <1>2, LastIsOne DEF IsCommand, CommandFits, ReversalFits
<1>5. Unsettled
  BY <1>1, <1>2 DEF CommandFits, ReversalFits
<1>6. CASE entry[t] = c.seen
  <2>1. entry' = [entry EXCEPT ![t].ours = journal.ops[t].before] /\ Moves(r, "note")
    BY <1>1, <1>4, <1>6 DEF Undo
  <2>2. PICK k : /\ cmd' = [cmd EXCEPT ![r] = k] /\ IsCommand(k) /\ SameOrder(k, c) /\ k.at = "note"
                 /\ k.todo = c.todo /\ k.bad = c.bad
    BY <1>1, <2>1, CommandMoves DEF CommandPlaces
  <2>3. Steps(r, k)
    BY <1>2, <1>3, <2>2 DEF Steps, LockedPlaces, CommandPlaces
  <2>4. SameNumber(r, k)
    BY <1>1, <1>2, <2>2 DEF SameNumber, SameOrder, Fresh
  <2>5. /\ entry' \in [Targets -> Reading] /\ entry'[t].ours = journal.ops[t].before
        /\ \A u \in Targets \ {t} : entry'[u] = entry[u]
    <3>1. journal.ops[t].before \in Entries
      BY <1>4 DEF InstallerInv, InstallerTypeOK, IsJournal
    <3> QED BY <1>4, <2>1, <3>1 DEF InstallerInv, InstallerTypeOK, Reading
  <2>6. IsJournal(journal)' /\ IsReceipt(receipt)' /\ undone' \subseteq Targets /\ overtaken' \subseteq Targets
    BY <1>3 DEF IsJournal, IsReceipt, InstallerInv, InstallerTypeOK, ghosts
  <2>7. TargetsAreWhole'
    <3> SUFFICES ASSUME NEW u \in Targets \ Excepted PROVE TargetFits(u)'
      BY <1>3 DEF TargetsAreWhole, Excepted, ghosts
    <3>1. TargetFits(u)
      BY DEF InstallerInv, TargetsAreWhole
    <3>2. Origin(u)' = Origin(u) /\ Unsettled'
      BY <1>3, <1>5 DEF Origin, StandsAs, ghosts, Unsettled
    <3> QED BY <1>3, <1>4, <1>5, <2>5, <3>1, <3>2 DEF TargetFits
  <2>8. ReceiptIsKept' /\ ConflictHasACause'
    BY <1>3 DEF InstallerInv, ReceiptIsKept, ConflictHasACause, Excepted, ghosts
  <2>9. PlaceFits(k)'
    BY <1>1, <1>2, <1>3, <2>2 DEF CommandFits, PlaceFits, SameOrder, ghosts
  <2>10. ReversalFits(k)'
    BY <1>1, <1>2, <1>3, <1>4, <2>2, <2>5 DEF CommandFits, ReversalFits, Unsettled, Excepted, ghosts
  <2>11. WritingFits(k)'
    BY <2>2 DEF WritingFits
  <2> QED BY <1>2, <1>3, <2>2, <2>3, <2>4, <2>5, <2>6, <2>7, <2>8, <2>9, <2>10, <2>11, LockedSteps
          DEF ghosts, CommandFits
<1>7. CASE entry[t] # c.seen
  <2>1. Excepted # {}
    BY <1>1, <1>2, <1>4, <1>7 DEF CommandFits, ReversalFits
  <2>2. PICK k : k = [c EXCEPT !.at = "reverse", !.todo = c.todo \ {t}, !.bad = TRUE]
    OBVIOUS
  <2>3. /\ k.at = "reverse" /\ SameOrder(k, c) /\ k.todo = c.todo \ {t} /\ k.seen = c.seen /\ k.bad = TRUE
        /\ HasFields(k)
    BY <1>1, <1>2, <2>2 DEF SameOrder, HasFields, IsCommand
  <2>4. IsCommand(k)
    <3>1. k.at \in CommandPlaces /\ k.bad \in BOOLEAN
      BY <2>3 DEF CommandPlaces
    <3> QED BY <1>2, <2>3, <3>1 DEF IsCommand, SameOrder
  <2>5. cmd' = [cmd EXCEPT ![r] = k] /\ entry' = entry
    <3>1. cmd' = [cmd EXCEPT ![r].at = "reverse", ![r].todo = @ \ {t}, ![r].bad = TRUE] /\ entry' = entry
      BY <1>1, <1>4, <1>7 DEF Undo
    <3> QED BY <1>1, <2>2, <3>1
  <2>6. Steps(r, k)
    BY <1>2, <1>3, <2>3, <2>5 DEF Steps, LockedPlaces, CommandPlaces
  <2>7. SameNumber(r, k)
    BY <1>1, <1>2, <2>3 DEF SameNumber, SameOrder, Fresh
  <2>8. PlaceFits(k)
    BY <1>1, <1>2, <2>3 DEF CommandFits, PlaceFits, SameOrder
  <2>9. ReversalFits(k)
    BY <1>1, <1>2, <2>1, <2>3 DEF CommandFits, ReversalFits
  <2>10. WritingFits(k)
    BY <2>3 DEF WritingFits
  <2> QED BY <1>3, <2>4, <2>5, <2>6, <2>7, <2>8, <2>9, <2>10, CommandSteps DEF CommandFits
<1> QED BY <1>6, <1>7

LEMMA KeepsNoteReversed ==
    ASSUME InstallerInv, NEW r \in Runs, NoteReversed(r)
    PROVE  InstallerInv'
<1>1. PICK c : c = cmd[r] /\ c.at = "note"
  BY DEF NoteReversed
<1>2. lockedBy = r /\ IsCommand(c) /\ CommandFits(c) /\ c.txn <= txns
  BY <1>1, WorksUnderLock DEF LockedPlaces, CommandPlaces
<1>3. UNCHANGED <<entry, receipt, lockedBy, txns, ghosts>>
  BY DEF NoteReversed
<1>4. PICK t : t = LastOf(c.todo) /\ t \in c.todo /\ t \in Targets /\ t \in DOMAIN journal.ops
  BY <1>1, <1>2, LastIsOne DEF IsCommand, CommandFits, ReversalFits
<1>5. Unsettled
  BY <1>1, <1>2 DEF CommandFits, ReversalFits
<1>6. PICK k : k = [c EXCEPT !.at = "reverse", !.todo = c.todo \ {t}]
  OBVIOUS
<1>7. /\ k.at = "reverse" /\ SameOrder(k, c) /\ k.todo = c.todo \ {t} /\ k.seen = c.seen /\ k.bad = c.bad
      /\ HasFields(k)
  BY <1>1, <1>2, <1>6 DEF SameOrder, HasFields, IsCommand
<1>8. IsCommand(k)
  <2>1. k.at \in CommandPlaces
    BY <1>7 DEF CommandPlaces
  <2> QED BY <1>2, <1>7, <2>1 DEF IsCommand, SameOrder
<1>9. /\ cmd' = [cmd EXCEPT ![r] = k]
      /\ journal' = [journal EXCEPT !.reversed = @ \union {t}]
  <2>1. /\ cmd' = [cmd EXCEPT ![r].at = "reverse", ![r].todo = @ \ {t}]
        /\ journal' = [journal EXCEPT !.reversed = @ \union {t}]
    BY <1>1, <1>4 DEF NoteReversed
  <2> QED BY <1>1, <1>6, <2>1
<1>10. Steps(r, k)
  BY <1>2, <1>3, <1>7, <1>9 DEF Steps, LockedPlaces, CommandPlaces
<1>11. SameNumber(r, k)
  BY <1>1, <1>2, <1>7 DEF SameNumber, SameOrder, Fresh
<1>12. /\ journal'.phase = journal.phase /\ journal'.txn = journal.txn /\ journal'.ops = journal.ops
       /\ journal'.reversed = journal.reversed \union {t}
       /\ journal' = [phase |-> journal'.phase, txn |-> journal'.txn, ops |-> journal'.ops,
                      reversed |-> journal'.reversed, removes |-> journal'.removes]
  BY <1>9 DEF InstallerInv, InstallerTypeOK, IsJournal
<1>13. journal'.removes = journal.removes
  BY <1>9 DEF InstallerInv, InstallerTypeOK, IsJournal
<1>14. IsJournal(journal)' /\ IsReceipt(receipt)'
  BY <1>3, <1>4, <1>12, <1>13 DEF IsJournal, IsReceipt, InstallerInv, InstallerTypeOK
<1>15. entry' \in [Targets -> Reading] /\ undone' \subseteq Targets /\ overtaken' \subseteq Targets
  BY <1>3 DEF InstallerInv, InstallerTypeOK, ghosts
<1>16. Excepted' = Excepted /\ Unsettled'
  BY <1>3, <1>5, <1>12 DEF Excepted, Unsettled, ghosts
<1>17. TargetsAreWhole'
  <2> SUFFICES ASSUME NEW u \in Targets \ Excepted PROVE TargetFits(u)'
    BY <1>16 DEF TargetsAreWhole
  <2>1. TargetFits(u)
    BY DEF InstallerInv, TargetsAreWhole
  <2>2. Origin(u)' = Origin(u)
    BY <1>3, <1>13 DEF Origin, StandsAs, ghosts
  <2>3. CASE u = t
    <3>1. entry[u].ours = journal.ops[u].before
      BY <1>1, <1>2, <1>4, <2>3 DEF CommandFits, ReversalFits
    <3> QED BY <1>3, <1>4, <1>5, <1>12, <1>16, <2>1, <2>2, <2>3, <3>1 DEF TargetFits
  <2>4. CASE u # t
    BY <1>3, <1>5, <1>12, <1>16, <2>1, <2>2, <2>4 DEF TargetFits
  <2> QED BY <2>3, <2>4
<1>18. ReceiptIsKept' /\ ConflictHasACause'
  BY <1>3, <1>12, <1>13, <1>16 DEF InstallerInv, ReceiptIsKept, ConflictHasACause, ghosts
<1>19. PlaceFits(k)'
  BY <1>1, <1>2, <1>3, <1>7, <1>12, <1>13 DEF CommandFits, PlaceFits, SameOrder, ghosts
<1>20. ReversalFits(k)'
  BY <1>1, <1>2, <1>4, <1>7, <1>12, <1>16 DEF CommandFits, ReversalFits
<1>21. WritingFits(k)'
  BY <1>7 DEF WritingFits
<1>22. receipt'.txn \in {receipt.txn, journal.txn, 0} /\ journal'.txn \in {journal.txn, 0}
  BY <1>3, <1>12
<1> QED BY <1>2, <1>3, <1>8, <1>10, <1>11, <1>14, <1>15, <1>17, <1>18, <1>19, <1>20, <1>21, <1>22,
           LockedSteps DEF ghosts, CommandFits

LEMMA KeepsJudgeReversal ==
    ASSUME InstallerInv, NEW r \in Runs, JudgeReversal(r)
    PROVE  InstallerInv'
<1>1. PICK c : c = cmd[r] /\ c.at = "reverse" /\ c.todo = {}
  BY DEF JudgeReversal
<1>2. lockedBy = r /\ IsCommand(c) /\ CommandFits(c) /\ c.txn <= txns
  BY <1>1, WorksUnderLock DEF LockedPlaces, CommandPlaces
<1>3. UNCHANGED <<entry, receipt, txns, ghosts>>
  BY DEF JudgeReversal
<1>4. Unsettled
  BY <1>1, <1>2 DEF CommandFits, ReversalFits
<1>5. PICK p \in {"conflict", "committed"} : p = (IF c.bad THEN "conflict" ELSE "committed")
  OBVIOUS
<1>6. journal' = [journal EXCEPT !.phase = p]
  BY <1>1, <1>5 DEF JudgeReversal
<1>7. /\ journal'.phase = p /\ journal'.txn = journal.txn /\ journal'.ops = journal.ops
      /\ journal'.reversed = journal.reversed
      /\ journal' = [phase |-> journal'.phase, txn |-> journal'.txn, ops |-> journal'.ops,
                     reversed |-> journal'.reversed, removes |-> journal'.removes]
  BY <1>6 DEF InstallerInv, InstallerTypeOK, IsJournal
<1>8. journal'.removes = journal.removes
  BY <1>6 DEF InstallerInv, InstallerTypeOK, IsJournal
<1>9. IsJournal(journal)' /\ IsReceipt(receipt)'
  BY <1>3, <1>5, <1>7, <1>8 DEF IsJournal, IsReceipt, InstallerInv, InstallerTypeOK
<1>10. entry' \in [Targets -> Reading] /\ undone' \subseteq Targets /\ overtaken' \subseteq Targets
  BY <1>3 DEF InstallerInv, InstallerTypeOK, ghosts
<1>11. Excepted' = Excepted
  BY <1>3 DEF Excepted, ghosts
<1>12. \A u : Origin(u)' = Origin(u)
  BY <1>3, <1>8 DEF Origin, StandsAs, ghosts
<1>13. receipt'.txn \in {receipt.txn, journal.txn, 0} /\ journal'.txn \in {journal.txn, 0}
  BY <1>3, <1>7
<1>14. ReceiptIsKept'
  BY <1>3, <1>7, <1>8, <1>11 DEF InstallerInv, ReceiptIsKept, ghosts
<1>15. CASE c.bad
  <2>1. Ends(r) /\ p = "conflict"
    BY <1>1, <1>5, <1>15 DEF JudgeReversal
  <2>2. Steps(r, NoCommand)
    BY <2>1 DEF Ends, Steps, NoCommand, LockedPlaces
  <2>3. IsCommand(NoCommand) /\ SameNumber(r, NoCommand)
    <3>1. NoCommand.txn = 0 /\ 0 <= txns
      BY DEF NoCommand, InstallerInv, InstallerTypeOK
    <3> QED BY <3>1, NoCommandIs DEF SameNumber
  <2>4. CommandFits(NoCommand)'
    <3>1. NoCommand.at = "idle"
      BY DEF NoCommand
    <3> QED BY <3>1 DEF CommandFits, PlaceFits, ReversalFits, WritingFits
  <2>5. Unsettled' /\ Excepted # {}
    BY <1>1, <1>2, <1>3, <1>4, <1>7, <1>15, <2>1 DEF Unsettled, CommandFits, ReversalFits
  <2>6. TargetsAreWhole'
    BY <1>3, <1>4, <1>7, <1>11, <1>12, <2>5 DEF InstallerInv, TargetsAreWhole, TargetFits
  <2>7. ConflictHasACause'
    BY <1>11, <2>5 DEF ConflictHasACause
  <2> QED BY <1>2, <1>3, <1>9, <1>10, <1>13, <1>14, <2>2, <2>3, <2>4, <2>6, <2>7, LockedSteps DEF ghosts
<1>16. CASE ~c.bad
  <2>1. Moves(r, "forget") /\ lockedBy' = lockedBy /\ p = "committed"
    BY <1>1, <1>5, <1>16 DEF JudgeReversal
  <2>2. PICK k : /\ cmd' = [cmd EXCEPT ![r] = k] /\ IsCommand(k) /\ SameOrder(k, c) /\ k.at = "forget"
    BY <1>1, <2>1, CommandMoves DEF CommandPlaces
  <2>3. Steps(r, k)
    BY <1>2, <2>1, <2>2 DEF Steps, LockedPlaces, CommandPlaces
  <2>4. SameNumber(r, k)
    BY <1>1, <1>2, <2>2 DEF SameNumber, SameOrder, Fresh
  <2>5. ~Unsettled'
    BY <1>7, <2>1 DEF Unsettled
  <2>6. TargetsAreWhole'
    <3> SUFFICES ASSUME NEW u \in Targets \ Excepted PROVE TargetFits(u)'
      BY <1>11 DEF TargetsAreWhole
    <3>1. TargetFits(u)
      BY DEF InstallerInv, TargetsAreWhole
    <3>2. entry[u].ours = Origin(u)
      <4>1. \A t \in DOMAIN journal.ops \ journal.reversed : ~journal.ops[t].going
        BY <1>1, <1>2, <1>16 DEF CommandFits, ReversalFits
      <4> QED BY <1>4, <3>1, <4>1 DEF TargetFits
    <3> QED BY <1>3, <1>12, <2>5, <3>2 DEF TargetFits
  <2>7. ConflictHasACause'
    BY <1>7, <2>1 DEF ConflictHasACause
  <2>8. PlaceFits(k)'
    BY <1>1, <1>2, <1>7, <1>8, <2>1, <2>2 DEF CommandFits, PlaceFits, SameOrder
  <2>9. ReversalFits(k)' /\ WritingFits(k)'
    BY <2>2 DEF ReversalFits, WritingFits
  <2> QED BY <1>2, <1>3, <1>9, <1>10, <1>13, <1>14, <2>2, <2>3, <2>4, <2>6, <2>7, <2>8, <2>9, LockedSteps
          DEF ghosts, CommandFits
<1> QED BY <1>15, <1>16

-----------------------------------------------------------------------------
(* A transaction of a setup, and of a removal. *)

LEMMA KeepsBeginInstall ==
    ASSUME InstallerInv, NEW r \in Runs, BeginInstall(r)
    PROVE  InstallerInv'
<1>1. PICK c : c = cmd[r] /\ c.at = "begin" /\ c.what = "install"
  BY DEF BeginInstall
<1>2. lockedBy = r /\ IsCommand(c) /\ CommandFits(c) /\ c.txn <= txns
  BY <1>1, WorksUnderLock DEF LockedPlaces, CommandPlaces
<1>3. UNCHANGED <<entry, receipt, txns, first, edited, undone>>
  BY DEF BeginInstall
<1>4. CASE Ends(r) /\ UNCHANGED <<journal, overtaken>>
  BY <1>3, <1>4, CommandStops DEF ghosts
<1>5. CASE /\ journal' = [NoTransaction EXCEPT !.phase = "applying", !.txn = cmd[r].txn,
                                            !.ops = cmd[r].plan]
           /\ overtaken' = overtaken \union
                  {t \in DOMAIN cmd[r].plan : entry[t].ours # cmd[r].plan[t].before}
           /\ Moves(r, "mark")
           /\ UNCHANGED lockedBy
  <2>1. PICK k : /\ cmd' = [cmd EXCEPT ![r] = k] /\ IsCommand(k) /\ SameOrder(k, c) /\ k.at = "mark"
    BY <1>1, <1>5, CommandMoves DEF CommandPlaces
  <2>2. Steps(r, k)
    BY <1>2, <1>5, <2>1 DEF Steps, LockedPlaces, CommandPlaces
  <2>3. ~Fresh(k) /\ Fresh(c)
    BY <1>1, <1>2, <2>1 DEF Fresh, CommandFits, PlaceFits
  <2>4. SameNumber(r, k)
    BY <1>2, <2>1, <2>3 DEF SameNumber, SameOrder
  <2>5. PICK p : p = c.plan /\ IsPlan(p)
    BY <1>2 DEF IsCommand
  <2>6. /\ journal'.phase = "applying" /\ journal'.txn = c.txn /\ journal'.ops = p
        /\ journal'.reversed = {} /\ journal'.removes = FALSE
        /\ journal' = [phase |-> journal'.phase, txn |-> journal'.txn, ops |-> journal'.ops,
                       reversed |-> journal'.reversed, removes |-> journal'.removes]
    BY <1>1, <1>5, <2>5 DEF NoTransaction
  <2>7. /\ overtaken' = overtaken \union {t \in DOMAIN p : entry[t].ours # p[t].before}
        /\ Excepted' = Excepted \union {t \in DOMAIN p : entry[t].ours # p[t].before}
    BY <1>1, <1>3, <1>5, <2>5 DEF Excepted
  <2>8. c.txn \in Nat /\ c.txn # receipt.txn
    BY <1>1, <1>2, <2>3 DEF InstallerInv, NumbersAreNew, IsCommand
  <2>9. /\ DOMAIN p \subseteq Targets /\ p \in [DOMAIN p -> [before : Entries, after : Entries, going : BOOLEAN]]
        /\ \A t \in DOMAIN p : p[t].going = FALSE
    BY <2>5 DEF IsPlan
  <2>10. IsJournal(journal)' /\ IsReceipt(receipt)'
    BY <1>3, <2>6, <2>8, <2>9 DEF IsJournal, IsReceipt, InstallerInv, InstallerTypeOK
  <2>11. entry' \in [Targets -> Reading] /\ undone' \subseteq Targets /\ overtaken' \subseteq Targets
    BY <1>3, <2>7, <2>9 DEF InstallerInv, InstallerTypeOK
  <2>12. journal.phase = "none" /\ ~journal.removes /\ ~Unsettled
    BY <1>1, <1>2 DEF CommandFits, PlaceFits, Unsettled, InstallerInv, InstallerTypeOK, IsJournal
  <2>13. Unsettled'
    BY <1>3, <2>6, <2>8 DEF Unsettled
  <2>14. TargetsAreWhole'
    <3> SUFFICES ASSUME NEW u \in Targets, u \notin Excepted' PROVE TargetFits(u)'
      BY DEF TargetsAreWhole
    <3>1. u \notin Excepted /\ (u \in DOMAIN p => entry[u].ours = p[u].before)
      BY <2>7
    <3>2. entry[u].ours = Origin(u)
      BY <2>12, <3>1 DEF InstallerInv, TargetsAreWhole, TargetFits
    <3>3. Origin(u)' = Origin(u)
      BY <1>3, <2>6, <2>12 DEF Origin, StandsAs
    <3> QED BY <1>3, <2>6, <2>13, <3>1, <3>2, <3>3 DEF TargetFits
  <2>15. ReceiptIsKept' /\ ConflictHasACause'
    BY <1>3, <2>6, <2>7 DEF InstallerInv, ReceiptIsKept, ConflictHasACause
  <2>16. PlaceFits(k)' /\ ReversalFits(k)'
    BY <2>1 DEF PlaceFits, ReversalFits
  <2>17. WritingFits(k)'
    BY <1>3, <2>1, <2>6, <2>8, <2>9 DEF WritingFits
  <2>18. receipt'.txn \in {receipt.txn, journal.txn, 0} /\ journal'.txn = cmd[r].txn /\ Fresh(cmd[r])
    BY <1>1, <1>3, <2>3, <2>6
  <2> QED BY <1>2, <1>3, <2>1, <2>2, <2>3, <2>4, <2>10, <2>11, <2>14, <2>15, <2>16, <2>17, <2>18,
             LockedSteps DEF CommandFits
<1> QED BY <1>4, <1>5 DEF BeginInstall

LEMMA KeepsMark ==
    ASSUME InstallerInv, NEW r \in Runs, Mark(r)
    PROVE  InstallerInv'
<1>1. PICK c : c = cmd[r] /\ c.at = "mark"
  BY DEF Mark
<1>2. lockedBy = r /\ IsCommand(c) /\ CommandFits(c) /\ c.txn <= txns
  BY <1>1, WorksUnderLock DEF LockedPlaces, CommandPlaces
<1>3. UNCHANGED <<entry, receipt, lockedBy, txns, ghosts>>
  BY DEF Mark
<1>4. /\ journal.phase = "applying" /\ ~journal.removes /\ journal.txn # receipt.txn
      /\ journal.reversed = {} /\ Unsettled
      /\ \A t \in DOMAIN journal.ops \ Excepted :
              journal.ops[t].going => entry[t].ours = journal.ops[t].after
  BY <1>1, <1>2 DEF CommandFits, WritingFits, Unsettled
<1>5. CASE Waiting = {}
  <2>1. Moves(r, "receipt") /\ journal' = journal
    BY <1>5 DEF Mark
  <2>2. PICK k : /\ cmd' = [cmd EXCEPT ![r] = k] /\ IsCommand(k) /\ SameOrder(k, c) /\ k.at = "receipt"
    BY <1>1, <2>1, CommandMoves DEF CommandPlaces
  <2>3. Steps(r, k)
    BY <1>2, <1>3, <2>2 DEF Steps, LockedPlaces, CommandPlaces
  <2>4. SameNumber(r, k)
    BY <1>2, <1>1, <2>2 DEF SameNumber, SameOrder, Fresh
  <2>5. PlaceFits(k) /\ ReversalFits(k)
    BY <2>2 DEF PlaceFits, ReversalFits
  <2>6. WritingFits(k)
    BY <1>4, <1>5, <2>2 DEF WritingFits
  <2> QED BY <1>3, <2>1, <2>2, <2>3, <2>4, <2>5, <2>6, CommandSteps DEF CommandFits
<1>6. CASE Waiting # {}
  <2>1. PICK t : t = FirstOf(Waiting) /\ t \in DOMAIN journal.ops /\ ~journal.ops[t].going /\ t \in Targets
    <3>1. Waiting \subseteq Targets
      BY DEF Waiting, InstallerInv, InstallerTypeOK, IsJournal
    <3>2. FirstOf(Waiting) \in Waiting
      BY <1>6, <3>1, FirstIsOne
    <3> QED BY <3>1, <3>2 DEF Waiting
  <2>2. /\ journal' = [journal EXCEPT !.ops[t].going = TRUE]
        /\ cmd' = [cmd EXCEPT ![r].at = "read", ![r].todo = {t}]
    BY <1>6, <2>1 DEF Mark
  <2>3. PICK k : k = [c EXCEPT !.at = "read", !.todo = {t}]
    OBVIOUS
  <2>4. /\ k.at = "read" /\ SameOrder(k, c) /\ k.todo = {t} /\ k.seen = c.seen /\ k.bad = c.bad
        /\ HasFields(k)
    BY <1>1, <1>2, <2>3 DEF SameOrder, HasFields, IsCommand
  <2>5. IsCommand(k)
    <3>1. k.at \in CommandPlaces
      BY <2>4 DEF CommandPlaces
    <3> QED BY <1>2, <2>1, <2>4, <3>1 DEF IsCommand, SameOrder
  <2>6. cmd' = [cmd EXCEPT ![r] = k]
    BY <1>1, <2>2, <2>3
  <2>7. Steps(r, k)
    BY <1>2, <1>3, <2>4, <2>6 DEF Steps, LockedPlaces, CommandPlaces
  <2>8. SameNumber(r, k)
    BY <1>2, <1>1, <2>4 DEF SameNumber, SameOrder, Fresh
  <2>9. PICK ops : ops = [journal.ops EXCEPT ![t].going = TRUE]
    OBVIOUS
  <2>10. journal' = [journal EXCEPT !.ops = ops]
    BY <2>2, <2>9
  <2>11. /\ journal'.phase = journal.phase /\ journal'.txn = journal.txn /\ journal'.ops = ops
         /\ journal'.reversed = journal.reversed
         /\ journal' = [phase |-> journal'.phase, txn |-> journal'.txn, ops |-> journal'.ops,
                        reversed |-> journal'.reversed, removes |-> journal'.removes]
    BY <2>10 DEF InstallerInv, InstallerTypeOK, IsJournal
  <2>12. journal'.removes = journal.removes
    BY <2>10 DEF InstallerInv, InstallerTypeOK, IsJournal
  <2>13. /\ DOMAIN ops = DOMAIN journal.ops
         /\ ops \in [DOMAIN ops -> [before : Entries, after : Entries, going : BOOLEAN]]
    BY <2>1, <2>9 DEF InstallerInv, InstallerTypeOK, IsJournal
  <2>14. /\ ops[t].before = journal.ops[t].before /\ ops[t].after = journal.ops[t].after /\ ops[t].going
         /\ \A u \in DOMAIN ops \ {t} : ops[u] = journal.ops[u]
    BY <2>1, <2>9 DEF InstallerInv, InstallerTypeOK, IsJournal
  <2>15. IsJournal(journal)' /\ IsReceipt(receipt)'
    BY <1>3, <2>11, <2>12, <2>13 DEF IsJournal, IsReceipt, InstallerInv, InstallerTypeOK
  <2>16. entry' \in [Targets -> Reading] /\ undone' \subseteq Targets /\ overtaken' \subseteq Targets
    BY <1>3 DEF InstallerInv, InstallerTypeOK, ghosts
  <2>17. Excepted' = Excepted /\ Unsettled'
    BY <1>3, <1>4, <2>11 DEF Excepted, Unsettled, ghosts
  <2>18. TargetsAreWhole'
    <3> SUFFICES ASSUME NEW u \in Targets \ Excepted PROVE TargetFits(u)'
      BY <2>17 DEF TargetsAreWhole
    <3>1. TargetFits(u)
      BY DEF InstallerInv, TargetsAreWhole
    <3>2. Origin(u)' = Origin(u)
      BY <1>3, <2>12 DEF Origin, StandsAs, ghosts
    <3>3. CASE u = t
      <4>1. entry[u].ours = journal.ops[u].before /\ journal.ops[u].before = Origin(u)
        BY <1>4, <2>1, <3>1, <3>3 DEF TargetFits
      <4>2. entry'[u].ours = journal'.ops[u].before /\ journal'.ops[u].before = Origin(u)'
        BY <1>3, <2>11, <2>14, <3>2, <3>3, <4>1
      <4> QED BY <2>1, <2>11, <2>13, <2>17, <3>3, <4>2 DEF TargetFits
    <3>4. CASE u # t
      BY <1>3, <1>4, <2>11, <2>13, <2>14, <2>17, <3>1, <3>2, <3>4 DEF TargetFits
    <3> QED BY <3>3, <3>4
  <2>19. ReceiptIsKept' /\ ConflictHasACause'
    BY <1>3, <2>11, <2>12, <2>13, <2>17 DEF InstallerInv, ReceiptIsKept, ConflictHasACause, ghosts
  <2>20. PlaceFits(k)' /\ ReversalFits(k)'
    BY <2>4 DEF PlaceFits, ReversalFits
  <2>21. WritingFits(k)'
    <3>1. journal'.phase = "applying" /\ ~journal'.removes /\ journal'.txn # receipt'.txn /\ journal'.reversed = {}
      BY <1>3, <1>4, <2>11, <2>12
    <3>2. t \in DOMAIN journal'.ops /\ k.todo = {t} /\ journal'.ops[t].going
      BY <2>1, <2>4, <2>11, <2>13, <2>14
    <3>3. \A u \in DOMAIN journal'.ops \ Excepted' :
              journal'.ops[u].going => entry'[u].ours = journal'.ops[u].after \/ u \in k.todo
      BY <1>3, <1>4, <2>4, <2>11, <2>13, <2>14, <2>17
    <3> QED BY <2>4, <3>1, <3>2, <3>3 DEF WritingFits
  <2>22. receipt'.txn \in {receipt.txn, journal.txn, 0} /\ journal'.txn \in {journal.txn, 0}
    BY <1>3, <2>11
  <2> QED BY <1>2, <1>3, <2>5, <2>7, <2>8, <2>15, <2>16, <2>18, <2>19, <2>20, <2>21, <2>22,
             LockedSteps DEF ghosts, CommandFits
<1> QED BY <1>5, <1>6

LEMMA KeepsReadTarget ==
    ASSUME InstallerInv, NEW r \in Runs, ReadTarget(r)
    PROVE  InstallerInv'
<1>1. PICK c : c = cmd[r] /\ c.at = "read"
  BY DEF ReadTarget
<1>2. lockedBy = r /\ IsCommand(c) /\ CommandFits(c) /\ c.txn <= txns
  BY <1>1, WorksUnderLock DEF LockedPlaces, CommandPlaces
<1>3. UNCHANGED <<entry, journal, receipt, txns, ghosts>>
  BY DEF ReadTarget
<1>4. CASE Ends(r)
  BY <1>3, <1>4, CommandStops
<1>5. CASE /\ cmd' = [cmd EXCEPT ![r].at = "swap", ![r].seen = entry[FirstOf(cmd[r].todo)]]
           /\ UNCHANGED lockedBy
  <2>1. FirstOf(c.todo) \in Targets
    BY <1>1, <1>2, FirstIsOne DEF IsCommand, CommandFits, WritingFits
  <2>2. PICK seen \in Reading : seen = entry[FirstOf(c.todo)]
    BY <2>1 DEF InstallerInv, InstallerTypeOK
  <2>3. PICK k : k = [c EXCEPT !.at = "swap", !.seen = seen]
    OBVIOUS
  <2>4. /\ k.at = "swap" /\ SameOrder(k, c) /\ k.todo = c.todo /\ k.seen = seen /\ k.bad = c.bad
        /\ HasFields(k)
    BY <1>1, <1>2, <2>3 DEF SameOrder, HasFields, IsCommand
  <2>5. IsCommand(k)
    <3>1. k.at \in CommandPlaces
      BY <2>4 DEF CommandPlaces
    <3> QED BY <1>2, <2>4, <3>1 DEF IsCommand, SameOrder
  <2>6. cmd' = [cmd EXCEPT ![r] = k]
    BY <1>1, <1>5, <2>2, <2>3
  <2>7. Steps(r, k)
    BY <1>2, <1>5, <2>4, <2>6 DEF Steps, LockedPlaces, CommandPlaces
  <2>8. SameNumber(r, k)
    BY <1>2, <1>1, <2>4 DEF SameNumber, SameOrder, Fresh
  <2>9. PlaceFits(k) /\ ReversalFits(k)
    BY <2>4 DEF PlaceFits, ReversalFits
  <2>10. WritingFits(k)
    BY <1>1, <1>2, <2>4 DEF CommandFits, WritingFits
  <2> QED BY <1>3, <2>5, <2>7, <2>8, <2>9, <2>10, CommandSteps DEF CommandFits
<1> QED BY <1>4, <1>5 DEF ReadTarget

LEMMA KeepsSwap ==
    ASSUME InstallerInv, NEW r \in Runs, Swap(r)
    PROVE  InstallerInv'
<1>1. PICK c : c = cmd[r] /\ c.at = "swap"
  BY DEF Swap
<1>2. lockedBy = r /\ IsCommand(c) /\ CommandFits(c) /\ c.txn <= txns
  BY <1>1, WorksUnderLock DEF LockedPlaces, CommandPlaces
<1>3. UNCHANGED <<journal, receipt, txns, ghosts>>
  BY DEF Swap
<1>4. PICK t \in DOMAIN journal.ops : c.todo = {t} /\ journal.ops[t].going
  BY <1>1, <1>2 DEF CommandFits, WritingFits
<1>5. t \in Targets /\ FirstOf(c.todo) = t
  <2>1. t \in Targets
    BY <1>4 DEF InstallerInv, InstallerTypeOK, IsJournal
  <2>2. FirstOf(c.todo) \in {t}
    BY <1>4, <2>1, FirstIsOne
  <2> QED BY <2>1, <2>2
<1>6. /\ journal.phase = "applying" /\ ~journal.removes /\ journal.txn # receipt.txn
      /\ journal.reversed = {} /\ Unsettled
      /\ \A u \in DOMAIN journal.ops \ Excepted :
              journal.ops[u].going => entry[u].ours = journal.ops[u].after \/ u = t
  BY <1>1, <1>2, <1>4 DEF CommandFits, WritingFits, Unsettled
<1>7. CASE Ends(r) /\ entry' = entry
  BY <1>3, <1>7, CommandStops
<1>8. CASE /\ entry' = [entry EXCEPT ![t].ours = journal.ops[t].after]
           /\ Moves(r, "mark")
           /\ UNCHANGED lockedBy
  <2>1. PICK k : /\ cmd' = [cmd EXCEPT ![r] = k] /\ IsCommand(k) /\ SameOrder(k, c) /\ k.at = "mark"
    BY <1>1, <1>8, CommandMoves DEF CommandPlaces
  <2>2. Steps(r, k)
    BY <1>2, <1>8, <2>1 DEF Steps, LockedPlaces, CommandPlaces
  <2>3. SameNumber(r, k)
    BY <1>2, <1>1, <2>1 DEF SameNumber, SameOrder, Fresh
  <2>4. /\ entry' \in [Targets -> Reading] /\ entry'[t].ours = journal.ops[t].after
        /\ \A u \in Targets \ {t} : entry'[u] = entry[u]
    <3>1. journal.ops[t].after \in Entries
      BY <1>4 DEF InstallerInv, InstallerTypeOK, IsJournal
    <3> QED BY <1>5, <1>8, <3>1 DEF InstallerInv, InstallerTypeOK, Reading
  <2>5. IsJournal(journal)' /\ IsReceipt(receipt)' /\ undone' \subseteq Targets /\ overtaken' \subseteq Targets
    BY <1>3 DEF IsJournal, IsReceipt, InstallerInv, InstallerTypeOK, ghosts
  <2>6. Excepted' = Excepted /\ Unsettled'
    BY <1>3, <1>6 DEF Excepted, Unsettled, ghosts
  <2>7. TargetsAreWhole'
    <3> SUFFICES ASSUME NEW u \in Targets \ Excepted PROVE TargetFits(u)'
      BY <2>6 DEF TargetsAreWhole
    <3>1. TargetFits(u)
      BY DEF InstallerInv, TargetsAreWhole
    <3>2. Origin(u)' = Origin(u)
      BY <1>3 DEF Origin, StandsAs, ghosts
    <3> QED BY <1>3, <1>4, <1>6, <2>4, <2>6, <3>1, <3>2 DEF TargetFits
  <2>8. ReceiptIsKept' /\ ConflictHasACause'
    BY <1>3, <2>6 DEF InstallerInv, ReceiptIsKept, ConflictHasACause, ghosts
  <2>9. PlaceFits(k)' /\ ReversalFits(k)'
    BY <2>1 DEF PlaceFits, ReversalFits
  <2>10. WritingFits(k)'
    <3>1. DOMAIN journal.ops \subseteq Targets
      BY DEF InstallerInv, InstallerTypeOK, IsJournal
    <3>2. \A u \in DOMAIN journal'.ops \ Excepted' :
              journal'.ops[u].going => entry'[u].ours = journal'.ops[u].after
      BY <1>3, <1>6, <2>4, <2>6, <3>1
    <3> QED BY <1>3, <1>6, <2>1, <3>2 DEF WritingFits
  <2>11. receipt'.txn \in {receipt.txn, journal.txn, 0} /\ journal'.txn \in {journal.txn, 0}
    BY <1>3
  <2> QED BY <1>2, <1>3, <2>1, <2>2, <2>3, <2>4, <2>5, <2>7, <2>8, <2>9, <2>10, <2>11,
             LockedSteps DEF ghosts, CommandFits
<1> QED BY <1>1, <1>5, <1>7, <1>8 DEF Swap

LEMMA KeepsWriteReceipt ==
    ASSUME InstallerInv, NEW r \in Runs, WriteReceipt(r)
    PROVE  InstallerInv'
<1>1. PICK c : c = cmd[r] /\ c.at = "receipt"
  BY DEF WriteReceipt
<1>2. lockedBy = r /\ IsCommand(c) /\ CommandFits(c) /\ c.txn <= txns
  BY <1>1, WorksUnderLock DEF LockedPlaces, CommandPlaces
<1>3. UNCHANGED <<entry, journal, lockedBy, txns, first, edited, overtaken>>
  BY DEF WriteReceipt
<1>4. /\ journal.phase = "applying" /\ ~journal.removes /\ journal.txn # receipt.txn
      /\ journal.reversed = {} /\ Unsettled
      /\ \A t \in DOMAIN journal.ops \ Excepted : entry[t].ours = journal.ops[t].after
  BY <1>1, <1>2 DEF CommandFits, WritingFits, Unsettled, Waiting
<1>5. PICK k : /\ cmd' = [cmd EXCEPT ![r] = k] /\ IsCommand(k) /\ SameOrder(k, c) /\ k.at = "commit"
  BY <1>1, CommandMoves DEF CommandPlaces, WriteReceipt
<1>6. Steps(r, k)
  BY <1>2, <1>3, <1>5 DEF Steps, LockedPlaces, CommandPlaces
<1>7. SameNumber(r, k)
  BY <1>2, <1>1, <1>5 DEF SameNumber, SameOrder, Fresh
<1>8. PICK ops : ops = Merged(receipt.ops, journal.ops)
  OBVIOUS
<1>9. /\ receipt' = [txn |-> journal.txn, ops |-> ops] /\ receipt'.txn = journal.txn /\ receipt'.ops = ops
      /\ undone' = undone \ DOMAIN journal.ops
  BY <1>8 DEF WriteReceipt
<1>10. /\ DOMAIN ops = DOMAIN receipt.ops \union DOMAIN journal.ops
       /\ \A t \in DOMAIN receipt.ops \ DOMAIN journal.ops : ops[t] = receipt.ops[t]
       /\ \A t \in DOMAIN journal.ops : ops[t].after = journal.ops[t].after
       /\ \A t \in DOMAIN journal.ops \ DOMAIN receipt.ops : ops[t].before = journal.ops[t].before
       /\ \A t \in DOMAIN journal.ops \intersect DOMAIN receipt.ops : ops[t].before = receipt.ops[t].before
  BY <1>8 DEF Merged
<1>11. ops \in [DOMAIN ops -> [before : Entries, after : Entries]] /\ DOMAIN ops \subseteq Targets
  <2>1. /\ receipt.ops \in [DOMAIN receipt.ops -> [before : Entries, after : Entries]]
        /\ journal.ops \in [DOMAIN journal.ops -> [before : Entries, after : Entries, going : BOOLEAN]]
        /\ DOMAIN receipt.ops \subseteq Targets /\ DOMAIN journal.ops \subseteq Targets
    BY DEF InstallerInv, InstallerTypeOK, IsJournal, IsReceipt
  <2> QED BY <1>8, <2>1 DEF Merged
<1>12. IsJournal(journal)' /\ IsReceipt(receipt)'
  <2>1. journal.txn \in Nat
    BY DEF InstallerInv, InstallerTypeOK, IsJournal
  <2> QED BY <1>3, <1>9, <1>11, <2>1 DEF IsJournal, IsReceipt, InstallerInv, InstallerTypeOK
<1>13. entry' \in [Targets -> Reading] /\ undone' \subseteq Targets /\ overtaken' \subseteq Targets
  BY <1>3, <1>9 DEF InstallerInv, InstallerTypeOK
<1>14. Excepted' = Excepted /\ ~Unsettled'
  BY <1>3, <1>9 DEF Excepted, Unsettled
<1>15. TargetsAreWhole'
  <2> SUFFICES ASSUME NEW u \in Targets \ Excepted PROVE entry'[u].ours = Origin(u)'
    BY <1>14 DEF TargetsAreWhole, TargetFits
  <2>1. TargetFits(u)
    BY DEF InstallerInv, TargetsAreWhole
  <2>2. Origin(u)' = IF u \in DOMAIN ops \ (undone \ DOMAIN journal.ops) THEN ops[u].after ELSE first[u]
    BY <1>3, <1>4, <1>9 DEF Origin, StandsAs
  <2>3. CASE u \in DOMAIN journal.ops
    BY <1>3, <1>4, <1>10, <2>2, <2>3
  <2>4. CASE u \notin DOMAIN journal.ops
    BY <1>3, <1>4, <1>10, <2>1, <2>2, <2>4 DEF TargetFits, Origin, StandsAs
  <2> QED BY <2>3, <2>4
<1>16. ReceiptIsKept'
  <2> SUFFICES ASSUME NEW u \in DOMAIN ops \ Excepted PROVE ops[u].before = first[u]
    BY <1>3, <1>4, <1>9, <1>14 DEF ReceiptIsKept
  <2>1. CASE u \in DOMAIN receipt.ops
    BY <1>10, <2>1 DEF InstallerInv, ReceiptIsKept
  <2>2. CASE u \notin DOMAIN receipt.ops
    <3>1. u \in DOMAIN journal.ops /\ u \in Targets \ Excepted
      BY <1>10, <1>11, <2>2
    <3>2. TargetFits(u)
      BY <3>1 DEF InstallerInv, TargetsAreWhole
    <3> QED BY <1>4, <1>10, <2>2, <3>1, <3>2 DEF TargetFits, Origin, StandsAs
  <2> QED BY <2>1, <2>2
<1>17. ConflictHasACause'
  BY <1>3, <1>4 DEF ConflictHasACause
<1>18. CommandFits(k)'
  BY <1>3, <1>5, <1>9 DEF CommandFits, PlaceFits, ReversalFits, WritingFits
<1>19. receipt'.txn \in {receipt.txn, journal.txn, 0} /\ journal'.txn \in {journal.txn, 0}
  BY <1>3, <1>9
<1> QED BY <1>2, <1>3, <1>5, <1>6, <1>7, <1>12, <1>13, <1>15, <1>16, <1>17, <1>18, <1>19, LockedSteps

LEMMA KeepsCommitJournal ==
    ASSUME InstallerInv, NEW r \in Runs, CommitJournal(r)
    PROVE  InstallerInv'
<1>1. PICK c : c = cmd[r] /\ c.at = "commit"
  BY DEF CommitJournal
<1>2. lockedBy = r /\ IsCommand(c) /\ CommandFits(c) /\ c.txn <= txns
  BY <1>1, WorksUnderLock DEF LockedPlaces, CommandPlaces
<1>3. UNCHANGED <<entry, receipt, txns, ghosts>>
  BY DEF CommitJournal
<1>4. journal.txn = receipt.txn /\ ~Unsettled /\ ~journal.removes
  BY <1>1, <1>2 DEF CommandFits, PlaceFits, Unsettled, InstallerInv, ReceiptIsKept
<1>5. entry' \in [Targets -> Reading] /\ undone' \subseteq Targets /\ overtaken' \subseteq Targets
      /\ IsReceipt(receipt)' /\ Excepted' = Excepted
  BY <1>3 DEF InstallerInv, InstallerTypeOK, ghosts, IsReceipt, Excepted
<1>6. CASE journal.phase = "committed"
  <2>1. journal' = NoTransaction /\ Ends(r)
    BY <1>6 DEF CommitJournal
  <2>2. /\ journal'.phase = "none" /\ journal'.txn = 0 /\ journal'.removes = FALSE /\ IsJournal(journal')
    BY <2>1, NoneIs DEF NoTransaction
  <2>3. IsJournal(journal)'
    BY <2>2 DEF IsJournal
  <2>4. ~Unsettled'
    BY <2>2 DEF Unsettled
  <2>5. \A u : Origin(u)' = Origin(u)
    BY <1>3, <1>4, <2>2 DEF Origin, StandsAs, ghosts
  <2>6. TargetsAreWhole'
    BY <1>3, <1>4, <1>5, <2>4, <2>5 DEF InstallerInv, TargetsAreWhole, TargetFits
  <2>7. ReceiptIsKept' /\ ConflictHasACause'
    BY <1>3, <1>5, <2>2 DEF InstallerInv, ReceiptIsKept, ConflictHasACause, ghosts
  <2>8. Steps(r, NoCommand)
    BY <2>1 DEF Ends, Steps, NoCommand, LockedPlaces
  <2>9. IsCommand(NoCommand) /\ SameNumber(r, NoCommand)
    <3>1. NoCommand.txn = 0 /\ 0 <= txns
      BY DEF NoCommand, InstallerInv, InstallerTypeOK
    <3> QED BY <3>1, NoCommandIs DEF SameNumber
  <2>10. CommandFits(NoCommand)'
    <3>1. NoCommand.at = "idle"
      BY DEF NoCommand
    <3> QED BY <3>1 DEF CommandFits, PlaceFits, ReversalFits, WritingFits
  <2>11. receipt'.txn \in {receipt.txn, journal.txn, 0} /\ journal'.txn \in {journal.txn, 0}
    BY <1>3, <2>2
  <2> QED BY <1>2, <1>3, <1>5, <2>3, <2>6, <2>7, <2>8, <2>9, <2>10, <2>11, LockedSteps DEF ghosts
<1>7. CASE journal.phase # "committed"
  <2>1. journal' = [journal EXCEPT !.phase = "committed"] /\ UNCHANGED <<cmd, lockedBy>>
    BY <1>7 DEF CommitJournal
  <2>2. /\ journal'.phase = "committed" /\ journal'.txn = journal.txn /\ journal'.ops = journal.ops
        /\ journal'.reversed = journal.reversed
        /\ journal' = [phase |-> journal'.phase, txn |-> journal'.txn, ops |-> journal'.ops,
                       reversed |-> journal'.reversed, removes |-> journal'.removes]
    BY <2>1 DEF InstallerInv, InstallerTypeOK, IsJournal
  <2>3. journal'.removes = journal.removes
    BY <2>1 DEF InstallerInv, InstallerTypeOK, IsJournal
  <2>4. IsJournal(journal)'
    BY <2>2, <2>3 DEF IsJournal, InstallerInv, InstallerTypeOK
  <2>5. ~Unsettled'
    BY <2>2 DEF Unsettled
  <2>6. \A u : Origin(u)' = Origin(u)
    BY <1>3, <2>3 DEF Origin, StandsAs, ghosts
  <2>7. TargetsAreWhole'
    BY <1>3, <1>4, <1>5, <2>5, <2>6 DEF InstallerInv, TargetsAreWhole, TargetFits
  <2>8. ReceiptIsKept' /\ ConflictHasACause'
    BY <1>3, <1>4, <1>5, <2>2, <2>3 DEF InstallerInv, ReceiptIsKept, ConflictHasACause, ghosts
  <2>9. Steps(r, c)
    <3>1. cmd' = [cmd EXCEPT ![r] = c]
      BY <1>1, <2>1 DEF InstallerInv, InstallerTypeOK, CommandsAreSuch
    <3> QED BY <1>1, <1>2, <2>1, <3>1 DEF Steps, LockedPlaces, CommandPlaces
  <2>10. SameNumber(r, c)
    BY <1>1, <1>2 DEF SameNumber
  <2>11. CommandFits(c)'
    BY <1>1, <1>3, <1>4, <2>2 DEF CommandFits, PlaceFits, ReversalFits, WritingFits
  <2>12. receipt'.txn \in {receipt.txn, journal.txn, 0} /\ journal'.txn \in {journal.txn, 0}
    BY <1>3, <2>2
  <2> QED BY <1>2, <1>3, <1>5, <2>4, <2>7, <2>8, <2>9, <2>10, <2>11, <2>12, LockedSteps DEF ghosts
<1> QED BY <1>6, <1>7

LEMMA KeepsBeginRemoval ==
    ASSUME InstallerInv, NEW r \in Runs, BeginRemoval(r)
    PROVE  InstallerInv'
<1>1. PICK c : c = cmd[r] /\ c.at = "begin" /\ c.what = "remove"
  BY DEF BeginRemoval
<1>2. lockedBy = r /\ IsCommand(c) /\ CommandFits(c) /\ c.txn <= txns
  BY <1>1, WorksUnderLock DEF LockedPlaces, CommandPlaces
<1>3. UNCHANGED <<entry, receipt, lockedBy, txns, ghosts>>
  BY DEF BeginRemoval
<1>4. PICK ops : ops = [t \in DOMAIN receipt.ops |->
                           [before |-> receipt.ops[t].before, after |-> receipt.ops[t].after,
                            going |-> TRUE]]
  OBVIOUS
<1>5. journal' = [NoTransaction EXCEPT !.phase = "applying", !.txn = cmd[r].txn, !.removes = TRUE,
                                       !.ops = ops]
  BY <1>4 DEF BeginRemoval
<1>6. PICK k : k = [c EXCEPT !.at = "settle", !.then = "unreceipt"]
  OBVIOUS
<1>7. cmd' = [cmd EXCEPT ![r] = k]
  <2>1. cmd' = [cmd EXCEPT ![r].at = "settle", ![r].then = "unreceipt"]
    BY DEF BeginRemoval
  <2> QED BY <1>1, <1>6, <2>1
<1>8. /\ k.at = "settle" /\ k.then = "unreceipt" /\ k.what = c.what /\ k.version = c.version
      /\ k.txn = c.txn /\ k.plan = c.plan /\ k.base = c.base /\ k.todo = c.todo /\ k.seen = c.seen
      /\ HasFields(k)
  BY <1>2, <1>6 DEF IsCommand, HasFields
<1>8a. k.bad = c.bad
  BY <1>2, <1>6 DEF IsCommand, HasFields
<1>9. IsCommand(k)
  <2>1. k.at \in CommandPlaces
    BY <1>8 DEF CommandPlaces
  <2> QED BY <1>2, <1>8, <1>8a, <2>1 DEF IsCommand
<1>10. Steps(r, k)
  BY <1>2, <1>3, <1>7, <1>8 DEF Steps, LockedPlaces, CommandPlaces
<1>11. ~Fresh(k) /\ Fresh(c)
  BY <1>1, <1>2, <1>8 DEF Fresh, CommandFits, PlaceFits
<1>12. SameNumber(r, k)
  BY <1>2, <1>8, <1>11 DEF SameNumber
<1>13. /\ journal'.phase = "applying" /\ journal'.txn = c.txn /\ journal'.ops = ops
       /\ journal'.reversed = {} /\ journal'.removes = TRUE
       /\ journal' = [phase |-> journal'.phase, txn |-> journal'.txn, ops |-> journal'.ops,
                      reversed |-> journal'.reversed, removes |-> journal'.removes]
  BY <1>1, <1>5 DEF NoTransaction
<1>14. c.txn \in Nat /\ c.txn # receipt.txn
  BY <1>1, <1>2, <1>11 DEF InstallerInv, NumbersAreNew, IsCommand
<1>15. /\ DOMAIN ops = DOMAIN receipt.ops /\ DOMAIN ops \subseteq Targets
       /\ ops \in [DOMAIN ops -> [before : Entries, after : Entries, going : BOOLEAN]]
       /\ \A t \in DOMAIN ops : /\ ops[t].going = TRUE /\ ops[t].before = receipt.ops[t].before
                                /\ ops[t].after = receipt.ops[t].after
  BY <1>4 DEF InstallerInv, InstallerTypeOK, IsReceipt
<1>16. IsJournal(journal)' /\ IsReceipt(receipt)'
  BY <1>3, <1>13, <1>14, <1>15 DEF IsJournal, IsReceipt, InstallerInv, InstallerTypeOK
<1>17. entry' \in [Targets -> Reading] /\ undone' \subseteq Targets /\ overtaken' \subseteq Targets
  BY <1>3 DEF InstallerInv, InstallerTypeOK, ghosts
<1>18. journal.phase = "none" /\ ~journal.removes /\ ~Unsettled
  BY <1>1, <1>2 DEF CommandFits, PlaceFits, Unsettled, InstallerInv, InstallerTypeOK, IsJournal
<1>19. Unsettled' /\ Excepted' = Excepted
  BY <1>3, <1>13, <1>14 DEF Unsettled, Excepted, ghosts
<1>20. TargetsAreWhole'
  <2> SUFFICES ASSUME NEW u \in Targets \ Excepted PROVE TargetFits(u)'
    BY <1>19 DEF TargetsAreWhole
  <2>1. entry[u].ours = StandsAs(u)
    BY <1>18 DEF InstallerInv, TargetsAreWhole, TargetFits, Origin
  <2>2. Origin(u)' = first[u]
    BY <1>3, <1>13 DEF Origin, ghosts
  <2>3. CASE u \in DOMAIN ops
    <3>1. receipt.ops[u].before = first[u]
      BY <1>15, <2>3 DEF InstallerInv, ReceiptIsKept
    <3>2. entry[u].ours = ops[u].before \/ entry[u].ours = ops[u].after
      BY <1>15, <2>1, <2>3, <3>1 DEF StandsAs
    <3> QED BY <1>3, <1>13, <1>15, <1>19, <2>2, <2>3, <3>1, <3>2 DEF TargetFits
  <2>4. CASE u \notin DOMAIN ops
    BY <1>3, <1>13, <1>15, <2>1, <2>2, <2>4 DEF TargetFits, StandsAs
  <2> QED BY <2>3, <2>4
<1>21. ReceiptIsKept' /\ ConflictHasACause'
  BY <1>3, <1>13, <1>14, <1>15, <1>19 DEF InstallerInv, ReceiptIsKept, ConflictHasACause, ghosts
<1>22. CommandFits(k)'
  BY <1>8, <1>13 DEF CommandFits, PlaceFits, ReversalFits, WritingFits
<1>23. receipt'.txn \in {receipt.txn, journal.txn, 0} /\ journal'.txn = cmd[r].txn /\ Fresh(cmd[r])
  BY <1>1, <1>3, <1>11, <1>13
<1> QED BY <1>2, <1>3, <1>9, <1>10, <1>11, <1>12, <1>16, <1>17, <1>20, <1>21, <1>22, <1>23, LockedSteps
        DEF ghosts

LEMMA KeepsRemoveReceipt ==
    ASSUME InstallerInv, NEW r \in Runs, RemoveReceipt(r)
    PROVE  InstallerInv'
<1>1. PICK c : c = cmd[r] /\ c.at = "unreceipt"
  BY DEF RemoveReceipt
<1>2. lockedBy = r /\ IsCommand(c) /\ CommandFits(c)
  BY <1>1, WorksUnderLock DEF LockedPlaces, CommandPlaces
<1>3. UNCHANGED <<entry, journal, txns, first, edited, overtaken>> /\ undone' = {} /\ receipt' = NoReceipt /\ Ends(r)
  BY DEF RemoveReceipt
<1>4. journal.phase = "none" /\ ~journal.removes /\ ~Unsettled /\ DOMAIN receipt.ops \subseteq undone
  BY <1>1, <1>2 DEF CommandFits, PlaceFits, Unsettled, InstallerInv, InstallerTypeOK, IsJournal
<1>5. receipt'.txn = 0 /\ DOMAIN receipt'.ops = {} /\ IsReceipt(receipt')
  <2>1. DOMAIN NoOps = {}
    BY DEF NoOps
  <2> QED BY <1>3, <2>1, NoneIs DEF NoReceipt
<1>6. IsJournal(journal)' /\ IsReceipt(receipt)'
  BY <1>3, <1>5 DEF IsJournal, IsReceipt, InstallerInv, InstallerTypeOK
<1>7. /\ entry' \in [Targets -> Reading] /\ undone' \subseteq Targets /\ overtaken' \subseteq Targets
      /\ Excepted' = Excepted /\ ~Unsettled'
  BY <1>3, <1>4 DEF InstallerInv, InstallerTypeOK, Excepted, Unsettled
<1>8. \A u : Origin(u) = first[u] /\ Origin(u)' = first[u]
  BY <1>3, <1>4, <1>5 DEF Origin, StandsAs
<1>9. TargetsAreWhole'
  BY <1>3, <1>4, <1>7, <1>8 DEF InstallerInv, TargetsAreWhole, TargetFits
<1>10. ReceiptIsKept' /\ ConflictHasACause'
  BY <1>3, <1>4, <1>5 DEF ReceiptIsKept, ConflictHasACause
<1>11. Steps(r, NoCommand)
  BY <1>3 DEF Ends, Steps, NoCommand, LockedPlaces
<1>12. IsCommand(NoCommand) /\ SameNumber(r, NoCommand)
  <2>1. NoCommand.txn = 0 /\ 0 <= txns
    BY DEF NoCommand, InstallerInv, InstallerTypeOK
  <2> QED BY <2>1, NoCommandIs DEF SameNumber
<1>13. CommandFits(NoCommand)'
  <2>1. NoCommand.at = "idle"
    BY DEF NoCommand
  <2> QED BY <2>1 DEF CommandFits, PlaceFits, ReversalFits, WritingFits
<1>14. receipt'.txn \in {receipt.txn, journal.txn, 0} /\ journal'.txn \in {journal.txn, 0}
  BY <1>3, <1>5
<1> QED BY <1>2, <1>3, <1>6, <1>7, <1>9, <1>10, <1>11, <1>12, <1>13, <1>14, LockedSteps

-----------------------------------------------------------------------------
LEMMA InstallerInvKept == InstallerInv /\ [InstallerNext]_ivars => InstallerInv'
<1> SUFFICES ASSUME InstallerInv, [InstallerNext]_ivars PROVE InstallerInv'
  OBVIOUS
<1>1. CASE \E t \in Targets : UserEdits(t)
  BY <1>1, KeepsUserEdits
<1>2. CASE \E r \in Runs :
          \/ \E v \in Versions : Start(r, "install", v)
          \/ Start(r, "doctor", Missing) \/ Start(r, "remove", Missing)
  <2>1. Versions \subseteq Entries /\ Missing \in Entries
    BY DEF Entries
  <2> QED BY <1>2, <2>1, KeepsStart
<1>3. CASE \E r \in Runs : LookForJournal(r) \/ Plan(r) \/ LockInstall(r) \/ Doctor(r) \/ KillCommand(r)
  BY <1>3, KeepsLookForJournal, KeepsPlan, KeepsLockInstall, KeepsDoctor, KeepsKillCommand
<1>4. CASE \E r \in Runs : SettleJournal(r) \/ ReverseNext(r) \/ Undo(r) \/ NoteReversed(r)
                              \/ JudgeReversal(r) \/ Forget(r)
  BY <1>4, KeepsSettleJournal, KeepsReverseNext, KeepsUndo, KeepsNoteReversed, KeepsJudgeReversal,
     KeepsForgetJournal
<1>5. CASE \E r \in Runs : BeginInstall(r) \/ Mark(r) \/ ReadTarget(r) \/ Swap(r) \/ WriteReceipt(r)
                              \/ CommitJournal(r)
  BY <1>5, KeepsBeginInstall, KeepsMark, KeepsReadTarget, KeepsSwap, KeepsWriteReceipt, KeepsCommitJournal
<1>6. CASE \E r \in Runs : BeginRemoval(r) \/ RemoveReceipt(r)
  BY <1>6, KeepsBeginRemoval, KeepsRemoveReceipt
<1>7. CASE UNCHANGED ivars
  <2> USE <1>7 DEF ivars, ghosts
  <2>1. InstallerTypeOK' /\ LockIsHeld' /\ NumbersAreNew'
    BY DEF InstallerInv, InstallerTypeOK, CommandsAreSuch, IsCommand, IsJournal, IsReceipt,
           LockIsHeld, NumbersAreNew, Fresh
  <2>2. TargetsAreWhole' /\ ReceiptIsKept' /\ ConflictHasACause'
    BY DEF InstallerInv, TargetsAreWhole, TargetFits, Unsettled, Origin, StandsAs, Excepted,
           ReceiptIsKept, ConflictHasACause
  <2>3. ASSUME NEW r \in Runs PROVE CommandFits(cmd[r])'
    <3>1. CommandFits(cmd[r])
      BY DEF InstallerInv
    <3> QED BY <3>1 DEF CommandFits, PlaceFits, ReversalFits, WritingFits, Unsettled, Excepted, Waiting
  <2> QED BY <2>1, <2>2, <2>3 DEF InstallerInv
<1> QED BY <1>1, <1>2, <1>3, <1>4, <1>5, <1>6, <1>7 DEF InstallerNext

(* Setups, upgrades and removals that were interrupted and settled by        *)
(* another command leave every entry the user left alone as the receipt says *)
(* it is, or as it was before the first setup, and settling one ends in a    *)
(* conflict only over an entry the user edited or a setup had overtaken      *)
(* (cli.ts:569, :670, :787): for any targets, versions, commands and number  *)
(* of transactions and edits.                                                *)
THEOREM InstallsAreWhole == InstallerSpec => []AllOrNothing
<1>1. InstallerInv => AllOrNothing
  <2> SUFFICES ASSUME InstallerInv PROVE AllOrNothing
    OBVIOUS
  <2>1. ASSUME journal.phase = "none", NEW t \in Targets \ (edited \union overtaken)
        PROVE  entry[t].ours = IF t \in DOMAIN receipt.ops \ undone
                               THEN receipt.ops[t].after ELSE first[t]
    <3>1. ~Unsettled /\ ~journal.removes /\ t \in Targets \ Excepted
      BY <2>1 DEF Unsettled, Excepted, InstallerInv, InstallerTypeOK, IsJournal
    <3> QED BY <3>1 DEF InstallerInv, TargetsAreWhole, TargetFits, Origin, StandsAs
  <2>2. journal.phase = "conflict" => edited \union overtaken # {}
    BY DEF InstallerInv, ConflictHasACause, Excepted
  <2> QED BY <2>1, <2>2 DEF AllOrNothing
<1> QED BY <1>1, InstallerInitially, InstallerInvKept, PTL DEF InstallerSpec
=============================================================================
