------------------------------ MODULE AgedLock ------------------------------
(* The two lock files that are broken by age alone: the onboarding claim    *)
(* (onboard_lock.py) and the reindex lock (with_reindex_lock of search.py). *)
(*                                                                          *)
(* Both create the file exclusively, call it abandoned when its time of     *)
(* modification is too old, unlink it by name, and release it by name.      *)
(* The claim is given up at once when a fresh file is there; the reindex    *)
(* lock looks at the file a second time before it unlinks it, waits for a   *)
(* fresh one, and after its deadline goes on without the lock.              *)
EXTENDS Naturals, FiniteSets

CONSTANT Claimants   \* the processes

ASSUME NobodyIsNone == "nobody" \notin Claimants

VARIABLES
    file,      \* "none", "fresh" or "old": the lock file
    owner,     \* who created the file that is there; "nobody" else
    at,        \* [Claimants -> where it is]
    which,     \* "claim" or "reindex": the lock this is
    misfired,  \* an unlink hit a file that was not the one judged old
    outlived,  \* a file grew old while its owner was at work
    gaveUp     \* someone went on without the lock

avars == <<file, owner, at, which, misfired, outlived, gaveUp>>

AgedInit ==
    /\ file = "none"
    /\ owner = "nobody"
    /\ at = [p \in Claimants |-> "away"]
    /\ which \in {"claim", "reindex"}
    /\ misfired = FALSE
    /\ outlived = FALSE
    /\ gaveUp = FALSE

MovesTo(p, to) == at' = [at EXCEPT ![p] = to]

(* The claim: exists(), and the age of what exists. *)
Look(p) ==
    /\ which = "claim"
    /\ at[p] = "away"
    /\ MovesTo(p, CASE file = "none"  -> "create"
                 [] file = "old"   -> "break"
                 [] file = "fresh" -> "away")
    /\ UNCHANGED <<file, owner, which, misfired, outlived, gaveUp>>

(* The reindex lock: create first, and judge the file that is in the way. *)
Judge(p) ==
    /\ which = "reindex"
    /\ at[p] = "judge"
    /\ \/ file = "none" /\ MovesTo(p, "create") /\ gaveUp' = gaveUp
       \/ file = "old" /\ MovesTo(p, "again") /\ gaveUp' = gaveUp
       \/ file = "fresh" /\ MovesTo(p, "unguarded") /\ gaveUp' = TRUE
    /\ UNCHANGED <<file, owner, which, misfired, outlived>>

(* "Re-stat immediately before unlinking": a file that moved since is live. *)
JudgeAgain(p) ==
    /\ at[p] = "again"
    /\ MovesTo(p, IF file = "old" THEN "break" ELSE "create")
    /\ UNCHANGED <<file, owner, which, misfired, outlived, gaveUp>>

Break(p) ==
    /\ at[p] = "break"
    /\ file' = "none"
    /\ owner' = "nobody"
    /\ misfired' = (misfired \/ file = "fresh")
    /\ MovesTo(p, "create")
    /\ UNCHANGED <<which, outlived, gaveUp>>

(* A process that wants the reindex lock starts with the creation. *)
Want(p) ==
    /\ which = "reindex"
    /\ at[p] = "away"
    /\ MovesTo(p, "create")
    /\ UNCHANGED <<file, owner, which, misfired, outlived, gaveUp>>

(* Mutant: the file is not created exclusively. *)
AltCreate(p) ==
    /\ at[p] = "create"
    /\ file' = "fresh"
    /\ owner' = p
    /\ MovesTo(p, "holds")
    /\ UNCHANGED <<which, misfired, outlived, gaveUp>>

Create(p) ==
    /\ at[p] = "create"
    /\ IF file = "none"
       THEN /\ file' = "fresh"
            /\ owner' = p
            /\ MovesTo(p, "holds")
       ELSE /\ UNCHANGED <<file, owner>>
            /\ MovesTo(p, IF which = "claim" THEN "away" ELSE "judge")
    /\ UNCHANGED <<which, misfired, outlived, gaveUp>>

(* By name: whoever created the file that is there. *)
Release(p) ==
    /\ at[p] = "holds"
    /\ file' = "none"
    /\ owner' = "nobody"
    /\ MovesTo(p, "away")
    /\ UNCHANGED <<which, misfired, outlived, gaveUp>>

EndUnguarded(p) ==
    /\ at[p] = "unguarded"
    /\ MovesTo(p, "away")
    /\ UNCHANGED <<file, owner, which, misfired, outlived, gaveUp>>

(* A process is killed: what it created stays. *)
Die(p) ==
    /\ at[p] # "away"
    /\ MovesTo(p, "away")
    /\ UNCHANGED <<file, owner, which, misfired, outlived, gaveUp>>

GrowOld ==
    /\ file = "fresh"
    /\ file' = "old"
    /\ outlived' = (outlived \/ (owner # "nobody" /\ at[owner] = "holds"))
    /\ UNCHANGED <<owner, at, which, misfired, gaveUp>>

AgedNext ==
    \/ GrowOld
    \/ \E p \in Claimants :
          \/ Look(p) \/ Want(p) \/ Judge(p) \/ JudgeAgain(p) \/ Break(p)
          \/ Create(p) \/ Release(p) \/ EndUnguarded(p) \/ Die(p)

AgedSpec == AgedInit /\ [][AgedNext]_avars

-----------------------------------------------------------------------------
(* Two processes onboard one scope, or reindex one vault, at the same time   *)
(* only when someone outlived the age that makes a file old, gave up         *)
(* waiting, or unlinked a file younger than the one it had judged: between   *)
(* the judgement and the unlink another process can break the old file and   *)
(* create its own (onboard_lock.py:43-48, search.py:470-472).                *)
OneAtWork ==
    \A p, q \in Claimants :
        at[p] \in {"holds", "unguarded"} /\ at[q] \in {"holds", "unguarded"} /\ p # q
            => misfired \/ outlived \/ gaveUp
=============================================================================
