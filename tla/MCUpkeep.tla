------------------------------ MODULE MCUpkeep ------------------------------
(* What keeps a vault, its database and the installed files in order beside  *)
(* the note tools and the sync, one part at a time: they share no state.     *)
EXTENDS Rotation, GitSync, AgedLock, RetrievalLog, ConditionalCommit, Installer,
        ClaudeSetup

VARIABLE subject

(* Four handoffs: two of the first day whose headings suggest one slug, and  *)
(* two of the second whose headings suggest none.                            *)
MCStock == {[date |-> 1, cand |-> <<10>>, text |-> "a"],
            [date |-> 1, cand |-> <<10>>, text |-> "b"],
            [date |-> 2, cand |-> <<>>, text |-> "d"],
            [date |-> 2, cand |-> <<>>, text |-> "e"]}

(* Two cards of one scope, which has the name of the first. *)
MCStem == [c \in {"k1", "k2"} |-> c]
MCScope == [c \in {"k1", "k2"} |-> "k1"]

(* Two notes: the second edit made here and the one made elsewhere do not    *)
(* touch the same one, the first and that one do.                            *)
MCNote == ("a" :> 1) @@ ("b" :> 2) @@ ("z" :> 1)

MCOrder == <<"config", "command">>

RotationSubjects == {"rotation", "rotation of two cards"}

(* The first card alone, with three handoffs; or both, with a first day and a *)
(* second day each.                                                          *)
RotationBounded ==
    /\ RotationNext
    /\ subject = "rotation" =>
          /\ \A w \in written' : w[1] = "k1" /\ w[2].text # "e"
          /\ \A r \in Rotators : rot'[r].scope \in {"", "k1"} /\ "k2" \notin rot'[r].left
    /\ subject = "rotation of two cards" =>
          \A w \in written' : w[1] = "k1" <=> w[2].text \in {"a", "d"}

InstallSubjects == {"install", "install together", "install over another"}

Init ==
    /\ subject \in {"git", "aged", "log", "commit", "claude setup"}
                  \union RotationSubjects \union InstallSubjects
    /\ RotationInit /\ GitInit /\ AgedInit /\ LogInit /\ CommitInit /\ InstallerInit
    /\ SetupInit
    /\ subject # "aged" => which = "claim"
    /\ subject # "commit" => target = None
    /\ subject \notin InstallSubjects => first["config"] = Missing
    /\ subject # "claude setup" => settings = Absent /\ memory = Absent

(* A long life with one command at a time; a shorter one with two; setups of *)
(* one version, then of another, then of the first, by two commands at a     *)
(* time, which nobody removes or edits.                                      *)
InstallBounded ==
    /\ InstallerNext
    /\ subject = "install" => cmd'["r2"] = cmd["r2"]
    /\ subject = "install together" => txns' < MaxTxn
    /\ subject = "install together" => \A r \in Runs : cmd'[r].version # 2
    /\ subject = "install over another" =>
          /\ edited' = {}
          /\ \A r \in Runs :
                /\ cmd'[r].what # "remove"
                /\ cmd'[r].what = "install" => (cmd'[r].version = 2 <=> cmd'[r].txn = 2)

Next ==
    /\ UNCHANGED subject
    /\ \/ /\ subject \in RotationSubjects /\ RotationBounded
          /\ UNCHANGED <<gvars, avars, lvars, cvars, ivars, svars>>
       \/ /\ subject = "git" /\ GitNext
          /\ UNCHANGED <<rvars, avars, lvars, cvars, ivars, svars>>
       \/ /\ subject = "aged" /\ AgedNext
          /\ UNCHANGED <<rvars, gvars, lvars, cvars, ivars, svars>>
       \/ /\ subject = "log" /\ LogNext
          /\ UNCHANGED <<rvars, gvars, avars, cvars, ivars, svars>>
       \/ /\ subject = "commit" /\ CommitNext
          /\ UNCHANGED <<rvars, gvars, avars, lvars, ivars, svars>>
       \/ /\ subject \in InstallSubjects /\ InstallBounded
          /\ UNCHANGED <<rvars, gvars, avars, lvars, cvars, svars>>
       \/ /\ subject = "claude setup" /\ SetupNext
          /\ UNCHANGED <<rvars, gvars, avars, lvars, cvars, ivars>>

Spec == Init /\ [][Next]_<<subject, rvars, gvars, avars, lvars, cvars, ivars, svars>>
=============================================================================
