------------------------------ MODULE Rotation ------------------------------
(* brain_rotate_handoffs (rotation.py and its branch of server.call_tool):  *)
(* old handoff sections are moved out of a project card into archive notes. *)
(*                                                                          *)
(* A rotation reads a card, chooses the sections of all but the newest      *)
(* dates, writes each into an archive note named by its date and a slug     *)
(* ("is it there" and the write are two steps), and then replaces the card  *)
(* by the text it READ less those sections.  Only the two writes are made   *)
(* under the note lock, so a handoff added between the reading and the      *)
(* cutting is overwritten.  Every server process may rotate, and a process  *)
(* may be killed between any two steps.  An archive note that exists with   *)
(* another text ends the whole call, before anything is indexed.            *)
(*                                                                          *)
(* The notes are named by the SCOPE a card is filed under, not by the card:  *)
(* the one the call gives, else the card's own.  Several cards may have one  *)
(* scope, and then share the names.                                          *)
(*                                                                          *)
(* A section is a record [date, cand, text]: cand is the slug its heading   *)
(* suggests, a sequence of words (numbers), empty when it suggests none.    *)
EXTENDS Naturals, Sequences, SequencesExt, FiniteSets

CONSTANTS
    Cards,        \* the project cards
    Stem,         \* [Cards -> the name of the card's file]
    Scope,        \* [Cards -> the scope the card's text gives, else its name]
    Homes,        \* the cards in a directory of their name; the others share one
    Stock,        \* the sections that may be written
    InlineDays,   \* how many of the newest dates stay in a card
    Rotators      \* the processes that rotate

ASSUME RotationAssumption ==
    /\ InlineDays \in 1 .. 7
    /\ \A s \in Stock : s.date \in Nat /\ s.cand \in Seq(Nat)

VARIABLES
    card,      \* [Cards -> [sections, index]]: the card's file
    archive,   \* path -> the section of that archive note
    outdated,  \* the files whose row was not made from their text of now
    rot,       \* [Rotators -> the state of its call]
    written,   \* what was ever written: pairs <<card, section>>
    raced,     \* of these, the ones written while a rotation held an older text
    met,       \* the {c, d} that two rotations held at the same time, c = d or
               \* both filed under one name
    broken     \* some call ended by a conflict or a kill

rvars == <<card, archive, outdated, rot, written, raced, met, broken>>

Idle == [at |-> "idle", scope |-> "", left |-> {}, card |-> "", text |-> [sections |-> <<>>, index |-> {}],
         todo |-> <<>>, index |-> {}, fresh |-> {}]

RotationInit ==
    /\ card = [c \in Cards |-> [sections |-> <<>>, index |-> {}]]
    /\ archive = [p \in {} |-> {}]
    /\ outdated = {}
    /\ rot = [r \in Rotators |-> Idle]
    /\ written = {}
    /\ raced = {}
    /\ met = {}
    /\ broken = FALSE

(* The scopes a call may name. *)
Scopes == {Stem[c] : c \in Cards} \union {Scope[c] : c \in Cards}

Holds(r, c) == rot[r].at \in {"check", "write", "cut"} /\ rot[r].card = c

-----------------------------------------------------------------------------
(* Pure parts of a rotation. *)

Dates(ss) == {s.date : s \in ToSet(ss)}

(* The newest `InlineDays` dates of a text. *)
KeepDates(ss) ==
    {d \in Dates(ss) : Cardinality({e \in Dates(ss) : e > d}) < InlineDays}

(* The sections of these dates, in their order. *)
Chosen(ss, dates) ==
    LET chosen[n \in 0 .. Len(ss)] ==
            IF n = 0 THEN <<>>
            ELSE IF ss[n].date \in dates THEN Append(chosen[n - 1], ss[n])
            ELSE chosen[n - 1]
    IN  chosen[Len(ss)]

Stays(ss) == Chosen(ss, KeepDates(ss))
Candidates(ss) == Chosen(ss, Dates(ss) \ KeepDates(ss))

(* Mutant: two sections of a date may get one slug. *)
AltFreeSlug(cand, used) == cand

(* The slug of a section among those already given out for its date: its     *)
(* own, else with the least number that makes it new.                        *)
FreeSlug(cand, used) ==
    IF cand \notin used THEN cand
    ELSE LET taken(n) == Append(cand, n) \in used
             n == CHOOSE k \in 2 .. Cardinality(used) + 2 :
                      ~taken(k) /\ \A j \in 2 .. k - 1 : taken(j)
         IN  Append(cand, n)

Used(slugs, ss, i) == {slugs[k] : k \in {k \in 1 .. i - 1 : ss[k].date = ss[i].date}}

AssignSlugs(ss) ==
    LET slugs[i \in DOMAIN ss] == FreeSlug(ss[i].cand, Used(slugs, ss, i))
    IN  slugs

(* What the archive notes of card c are named by in call `me`: the scope, and *)
(* their directory, the scope's own or the one shared by all the others.     *)
Filing(me, c) ==
    LET scope == IF me.scope = "" THEN Scope[c] ELSE me.scope
    IN  [scope |-> scope,
         dir |-> IF c \in Homes /\ Stem[c] = scope THEN scope ELSE "archive/handoffs"]

(* The archive note of section s of a card with text ss, filed under f. *)
ArchivePath(f, ss, s) ==
    LET i == CHOOSE k \in DOMAIN ss : ss[k] = s
    IN  <<f, s.date, AssignSlugs(ss)[i]>>

-----------------------------------------------------------------------------
(* An agent writes a handoff into a card, before or after those there; the   *)
(* note tool does it under the card's lock and indexes the card.             *)
Handoff(c, s) ==
    /\ \A k \in Cards : <<k, s>> \notin written
    /\ \E ss \in {<<s>> \o card[c].sections, Append(card[c].sections, s)} :
           card' = [card EXCEPT ![c].sections = ss]
    /\ outdated' = outdated \ {<<c>>}
    /\ written' = written \union {<<c, s>>}
    /\ raced' = IF \E r \in Rotators : Holds(r, c) THEN raced \union {<<c, s>>} ELSE raced
    /\ UNCHANGED <<archive, rot, met, broken>>

(* The cards of a scope: the one with its name, else all that give it.       *)
FoundCards(scope) ==
    LET named == {c \in Cards : Stem[c] = scope}
    IN  IF scope = "" THEN Cards
        ELSE IF named = {} THEN {c \in Cards : Scope[c] = scope}
        ELSE IF named \intersect Homes # {} THEN named \intersect Homes
        ELSE named

(* The call: one scope, or every card. *)
Rotate(r, scope) ==
    /\ rot[r].at = "idle"
    /\ rot' = [rot EXCEPT ![r] =
                  [Idle EXCEPT !.at = "walk", !.scope = scope, !.left = FoundCards(scope)]]
    /\ UNCHANGED <<card, archive, outdated, written, raced, met, broken>>

(* Call q is at work on a card filed as call r files c, or on c itself. *)
Shares(q, r, c) ==
    /\ rot[q].at \in {"check", "write", "cut"}
    /\ \/ rot[q].card = c
       \/ Filing(rot[q], rot[q].card) = Filing(rot[r], c)

(* The next card is read; one with nothing to archive is skipped. *)
ReadCard(r, c) ==
    /\ rot[r].at = "walk"
    /\ c \in rot[r].left
    /\ LET text == card[c]
           todo == Candidates(text.sections)
           rest == [rot[r] EXCEPT !.left = @ \ {c}]
       IN  IF todo = <<>>
           THEN /\ rot' = [rot EXCEPT ![r] = rest]
                /\ met' = met
           ELSE /\ rot' = [rot EXCEPT ![r] =
                      [rest EXCEPT !.at = "check", !.card = c, !.text = text,
                                   !.todo = todo, !.index = {}]]
                /\ met' = met \union {{c, rot[q].card} : q \in {q \in Rotators : Shares(q, r, c)}}
    /\ UNCHANGED <<card, archive, outdated, written, raced, broken>>

Path(r) ==
    ArchivePath(Filing(rot[r], rot[r].card), rot[r].text.sections, Head(rot[r].todo))

(* The first candidate is dealt with: its index entry is kept for the card. *)
Dealt(r) ==
    LET me == rot[r]
    IN  [me EXCEPT !.at = IF Len(me.todo) = 1 THEN "cut" ELSE "check",
                   !.todo = Tail(me.todo),
                   !.index = me.index \union {<<Path(r), Head(me.todo)>>}]

(* Mutant: an archive note that exists is taken for the same one. *)
AltCheckNote(r) ==
    /\ rot[r].at = "check"
    /\ rot' = [rot EXCEPT ![r] = IF Path(r) \in DOMAIN archive THEN Dealt(r) ELSE [@ EXCEPT !.at = "write"]]
    /\ UNCHANGED <<card, archive, outdated, written, raced, met, broken>>

(* "if archive_path.exists()": the same text is passed over, another one     *)
(* ends the call; nothing the call wrote before is indexed then.             *)
CheckNote(r) ==
    /\ rot[r].at = "check"
    /\ IF Path(r) \notin DOMAIN archive
       THEN /\ rot' = [rot EXCEPT ![r].at = "write"]
            /\ broken' = broken
       ELSE IF archive[Path(r)] = Head(rot[r].todo)
       THEN /\ rot' = [rot EXCEPT ![r] = Dealt(r)]
            /\ broken' = broken
       ELSE /\ rot' = [rot EXCEPT ![r] = Idle]
            /\ broken' = TRUE
    /\ UNCHANGED <<card, archive, outdated, written, raced, met>>

(* The archive note is written, whatever is there by now. *)
WriteNote(r) ==
    /\ rot[r].at = "write"
    /\ archive' = [p \in DOMAIN archive \union {Path(r)} |->
                      IF p = Path(r) THEN Head(rot[r].todo) ELSE archive[p]]
    /\ outdated' = outdated \union {Path(r)}
    /\ rot' = [rot EXCEPT ![r] = [Dealt(r) EXCEPT !.fresh = @ \union {Path(r)}]]
    /\ UNCHANGED <<card, written, raced, met, broken>>

(* The card becomes the text that was read, less the archived sections, with *)
(* their entries merged into its index.                                      *)
CutCard(r) ==
    /\ rot[r].at = "cut"
    /\ LET c == rot[r].card
           text == rot[r].text
       IN  /\ card' = [card EXCEPT ![c] = [sections |-> Stays(text.sections),
                                           index |-> text.index \union rot[r].index]]
           /\ outdated' = outdated \union {<<c>>}
           /\ rot' = [rot EXCEPT ![r].at = "walk", ![r].fresh = @ \union {<<c>>}]
    /\ UNCHANGED <<archive, written, raced, met, broken>>

(* After the last card, the files written are indexed one by one. *)
IndexFile(r, f) ==
    /\ rot[r].at = "walk"
    /\ rot[r].left = {}
    /\ f \in rot[r].fresh
    /\ outdated' = outdated \ {f}
    /\ rot' = [rot EXCEPT ![r].fresh = @ \ {f}]
    /\ UNCHANGED <<card, archive, written, raced, met, broken>>

Report(r) ==
    /\ rot[r].at = "walk"
    /\ rot[r].left = {}
    /\ rot[r].fresh = {}
    /\ rot' = [rot EXCEPT ![r] = Idle]
    /\ UNCHANGED <<card, archive, outdated, written, raced, met, broken>>

(* The process is killed in the middle of the call. *)
KillRotator(r) ==
    /\ rot[r].at # "idle"
    /\ rot' = [rot EXCEPT ![r] = Idle]
    /\ broken' = TRUE
    /\ UNCHANGED <<card, archive, outdated, written, raced, met>>

RotationNext ==
    \/ \E c \in Cards, s \in Stock : Handoff(c, s)
    \/ \E r \in Rotators :
          \/ CheckNote(r) \/ WriteNote(r) \/ CutCard(r) \/ Report(r) \/ KillRotator(r)
          \/ \E scope \in {""} \union Scopes : Rotate(r, scope)
          \/ \E c \in Cards : ReadCard(r, c)
          \/ \E f \in rot[r].fresh : IndexFile(r, f)

RotationSpec == RotationInit /\ [][RotationNext]_rvars

-----------------------------------------------------------------------------
(* Properties. *)

InCard(c, s) == s \in ToSet(card[c].sections)
InArchive(s) == \E p \in DOMAIN archive : archive[p] = s

(* The archive notes of a card may be written over: two rotations were at    *)
(* work at once, on it and another card filed under the same name, or on it  *)
(* alone after a handoff was written meanwhile (they number its slugs        *)
(* differently then).                                                        *)
MayBeOverwritten(c) ==
    \/ \E d \in Cards \ {c} : {c, d} \in met
    \/ {c} \in met /\ \E v \in raced : v[1] = c

(* A handoff that was written is in its card or in an archive note, however  *)
(* many processes rotate and wherever they are killed, and however many      *)
(* cards share a scope and with it the names (rotation.py:463).  The         *)
(* exceptions are the ones the code leaves: a handoff written while a        *)
(* rotation held an older text of the card (:435 reads before the lock of    *)
(* :497), and two rotations whose notes get one name (:466 asks for the note *)
(* before the lock of :477).                                                 *)
LostOnlyToARace ==
    \A w \in written :
        InCard(w[1], w[2]) \/ InArchive(w[2]) \/ w \in raced \/ MayBeOverwritten(w[1])

(* The entries of a card's archive index lead to the section they stand for, *)
(* with no other written over it (:448-460), and the sections in a card      *)
(* would be archived under different names (assign_slugs).                   *)
IndexLeads ==
    \A c \in Cards :
        /\ \A e \in card[c].index :
              (e[1] \in DOMAIN archive /\ archive[e[1]] = e[2]) \/ MayBeOverwritten(c)
        /\ LET ss == card[c].sections
               f == Filing(Idle, c)
           IN  \A i, j \in DOMAIN ss :
                  i # j => ArchivePath(f, ss, ss[i]) # ArchivePath(f, ss, ss[j])

(* Between calls every file a rotation wrote is indexed, unless some call    *)
(* was ended by a conflict or a kill before it came to that.                 *)
RotatedIsIndexed ==
    (\A r \in Rotators : rot[r].at = "idle") => (outdated = {} \/ broken)

(* What a rotation took out of a card can be found: from the card and by a   *)
(* search.                                                                   *)
RotatedIsFound == IndexLeads /\ RotatedIsIndexed

(* Rotation moves handoffs and loses none: each stays in its card or can be  *)
(* found in the archive (rotation.py:466 and :497), but for those races.     *)
RotationKeeps == LostOnlyToARace /\ RotatedIsFound
=============================================================================
