------------------------------ MODULE AtomicNote ------------------------------
(***************************************************************************)
(* What the write tools of the server promise about one note, seen from    *)
(* outside: each brain_write, brain_append and brain_patch that succeeds   *)
(* takes effect once, on the note as it is at that moment, keeping all     *)
(* that the tool does not replace.                                         *)
(*                                                                         *)
(* A note is its `written_by` stamp, the frontmatter fields and the pieces *)
(* of the body; a writer puts in its own field and its own piece.          *)
(***************************************************************************)
EXTENDS Naturals

CONSTANTS Writers, NoOwner

VARIABLE note

Ops == {"write", "append", "patch"}

Contents ==
    [by : Writers \cup {NoOwner}, front : SUBSET Writers, body : SUBSET Writers]

\* The text the tool makes of the text it read: brain_write replaces the body
\* and keeps the fields it was not given (merge_frontmatter), brain_append and
\* an anchor patch add to the body, a field patch adds to the frontmatter.
Apply(op, w, text) ==
    [by    |-> w,
     front |-> IF op = "append" THEN text.front ELSE text.front \cup {w},
     body  |-> CASE op = "write"  -> {w}
                 [] op = "append" -> text.body \cup {w}
                 [] op = "patch"  -> text.body]

Init == note \in Contents

Edit(w, op) == note' = Apply(op, w, note)

Next == \E w \in Writers, op \in Ops : Edit(w, op)

Spec == Init /\ [][Next]_note
=============================================================================
