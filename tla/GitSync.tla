------------------------------ MODULE GitSync ------------------------------
(* hooks/brain-sync.sh: the vault of one machine against its Git remote, at *)
(* the end of every session.                                                *)
(*                                                                          *)
(* One run of the script: reap a lock that is too old, take the lock or     *)
(* leave, leave with an alarm when something half-finished is there, stage  *)
(* and commit, find out whether the remote has the branch, pull with rebase *)
(* and autostash, undo a rebase that stopped, reset a tree whose autostash  *)
(* did not apply, push, and raise or clear the marker.  Around it: sessions *)
(* edit notes at any moment, the owner merges and rebases by hand, another  *)
(* machine pushes, the network fails or answers too late, and the host      *)
(* kills the hook at the end of its budget.                                 *)
(*                                                                          *)
(* A commit is the set of the edits it carries; two sets of edits conflict  *)
(* when they touch one note that Git does not merge line by line.           *)
EXTENDS Naturals, FiniteSets

CONSTANTS
    Windows,     \* the sessions whose end runs the script
    Ours,        \* the edits made on this machine
    Theirs,      \* the edits another machine pushes
    Note,        \* [Ours \union Theirs -> the note an edit touches]
    Union        \* the notes merged by union (.gitattributes: log.md)

VARIABLES
    work,        \* edits in the tree, not committed
    auto,        \* edits the pull put aside for the time of its rebase
    head,        \* edits in the commits of the local branch
    stash,       \* edits kept in the stash
    remote,      \* edits on the remote; {} when it lacks the branch
    tracked,     \* there is a remote-tracking ref
    half,        \* what is half-finished in the tree, and whose it is
    lock,        \* "none", "held", or "corpse": its holder was killed
    marker,      \* the alarm file
    sync,        \* [Windows -> [at, stage, first, came]]
    late,        \* the owner's work began while a sync was past its guard
    made,        \* the edits made here so far
    hot,         \* of these, the ones made in a tree that a sync then put back
    missed,      \* edits the last commit found here and did not take
    due          \* edits that were there when the last sync to finish arrived;
                 \* {} when a sync was killed since

gvars == <<work, auto, head, stash, remote, tracked, half, lock, marker, sync,
           late, made, hot, missed, due>>

\* The owner's own: a rebase, a merge with unmerged paths, and one without any:
\* its conflicts are added already, or there were none (merge --no-commit).
Owners == {"rebase", "merge", "staged"}
Left == {"pulling", "unmerged"}       \* a rebase that stopped, an autostash that did not apply

Away == [at |-> "away", stage |-> "", first |-> FALSE, came |-> {}]

GitInit ==
    /\ work = {} /\ auto = {} /\ head = {} /\ stash = {} /\ remote = {}
    /\ tracked = FALSE
    /\ half = "none"
    /\ lock = "none"
    /\ marker = FALSE
    /\ sync = [w \in Windows |-> Away]
    /\ late = FALSE
    /\ made = {} /\ hot = {} /\ missed = {} /\ due = {}

Here == (work \union auto \union head \union stash) \intersect Ours
Running == \E w \in Windows : sync[w].at \notin {"away", "lock"}
PastGuard == \E w \in Windows : sync[w].at \notin {"away", "lock", "guard", "end"}

Conflict(A, B) == \E a \in A, b \in B : Note[a] = Note[b] /\ Note[a] \notin Union

(* rebase_in_progress, and whether `git ls-files --unmerged` names a path: it *)
(* may for a rebase, and does not for a merge that is only to be committed.  *)
RebaseInProgress == half \in {"rebase", "pulling"}
Unmerged == half \in {"merge", "unmerged"}

Goes(w, at) == sync' = [sync EXCEPT ![w].at = at]
Fails(w, stage) == sync' = [sync EXCEPT ![w].at = "end", ![w].stage = stage]

-----------------------------------------------------------------------------
(* Around the script. *)

Edit(e) ==
    /\ e \notin made
    /\ work' = work \union {e}
    /\ made' = made \union {e}
    /\ hot' = IF half \in Left \/ late THEN hot \union {e} ELSE hot
    /\ UNCHANGED <<auto, head, stash, remote, tracked, half, lock, marker, sync,
                   late, missed, due>>

OtherPushes(e) ==
    /\ e \notin remote
    /\ remote' = remote \union {e}
    /\ UNCHANGED <<work, auto, head, stash, tracked, half, lock, marker, sync,
                   late, made, hot, missed, due>>

OwnerStarts ==
    /\ half = "none"
    /\ half' \in Owners
    /\ IF half' = "rebase" THEN auto' = work /\ work' = {} ELSE UNCHANGED <<auto, work>>
    /\ late' = PastGuard
    /\ UNCHANGED <<head, stash, remote, tracked, lock, marker, sync,
                   made, hot, missed, due>>

(* The owner adds what he has resolved; the merge is to be committed yet.    *)
OwnerAdds ==
    /\ half = "merge"
    /\ half' = "staged"
    /\ UNCHANGED <<work, auto, head, stash, remote, tracked, lock, marker, sync,
                   late, made, hot, missed, due>>

(* The owner finishes what is half-finished, his own or what a killed sync  *)
(* left; he may have merged the remote's commits, and may pop the stash.    *)
OwnerEnds ==
    /\ half \in Owners \/ (half = "none" /\ stash # {})
    /\ half' = "none"
    /\ \E got \in {{}, remote}, back \in {{}, stash} :
          /\ head' = head \union got
          /\ work' = work \union auto \union back
          /\ stash' = stash \ back
    /\ auto' = {}
    /\ late' = FALSE
    /\ UNCHANGED <<remote, tracked, lock, marker, sync, made, hot, missed, due>>

-----------------------------------------------------------------------------
(* The script. *)

(* A session ends: a corpse's lock that is old by now is removed. *)
Arrive(w) ==
    /\ sync[w].at = "away"
    /\ \E old \in BOOLEAN :
          lock' = IF lock = "corpse" /\ old THEN "none" ELSE lock
    /\ Goes(w, "lock")
    /\ UNCHANGED <<work, auto, head, stash, remote, tracked, half, marker, late,
                   made, hot, missed, due>>

(* mkdir: the winner goes on, the others leave without a word. *)
TakeLock(w) ==
    /\ sync[w].at = "lock"
    /\ IF lock = "none"
       THEN /\ lock' = "held"
            /\ sync' = [sync EXCEPT ![w] = [Away EXCEPT !.at = "guard", !.came = Here]]
       ELSE /\ lock' = lock
            /\ Goes(w, "away")
    /\ UNCHANGED <<work, auto, head, stash, remote, tracked, half, marker, late,
                   made, hot, missed, due>>

(* Mutant: only a rebase is looked for. *)
AltGuard(w) ==
    /\ sync[w].at = "guard"
    /\ IF RebaseInProgress THEN Fails(w, "conflict") ELSE Goes(w, "add")
    /\ UNCHANGED <<work, auto, head, stash, remote, tracked, half, lock, marker,
                   late, made, hot, missed, due>>

(* What is half-finished here is not ours: the alarm, and nothing else.  A    *)
(* merge that is only to be committed is not seen.                           *)
Guard(w) ==
    /\ sync[w].at = "guard"
    /\ IF RebaseInProgress \/ Unmerged THEN Fails(w, "conflict") ELSE Goes(w, "add")
    /\ UNCHANGED <<work, auto, head, stash, remote, tracked, half, lock, marker,
                   late, made, hot, missed, due>>

(* git add -A and the commit, which may be refused (no user.email, a hook)  *)
(* and whose outcome nobody looks at.  A merge of the owner's is resolved by *)
(* the one and finished by the other; on his rebase, begun after the guard,  *)
(* it is a commit of that rebase, which is not followed further.             *)
AddAndCommit(w) ==
    /\ sync[w].at = "add"
    /\ \/ /\ IF half = "rebase"
             THEN hot' = hot \union work /\ head' = head
             ELSE head' = head \union work /\ hot' = hot
          /\ work' = {}
          /\ half' = IF half \in {"merge", "staged"} THEN "none" ELSE half
       \/ /\ work # {} \/ half \in {"merge", "staged"}
          /\ half' = IF half = "merge" THEN "staged" ELSE half
          /\ UNCHANGED <<head, work, hot>>
    /\ missed' = sync[w].came \ head'
    /\ Goes(w, "branch")
    /\ UNCHANGED <<auto, stash, remote, tracked, lock, marker, late, made, due>>

(* A remote without the branch is pushed to at once; a remote that cannot   *)
(* be asked counts as one that has it, and a detached HEAD has no branch.   *)
FindBranch(w) ==
    /\ sync[w].at = "branch"
    /\ \E reached \in BOOLEAN :
          LET first == half # "rebase" /\ ~tracked /\ reached /\ remote = {}
          IN  sync' = [sync EXCEPT ![w].first = first,
                                   ![w].at = IF first THEN "push" ELSE "pull"]
    /\ UNCHANGED <<work, auto, head, stash, remote, tracked, half, lock, marker,
                   late, made, hot, missed, due>>

(* git pull --rebase --autostash *)
PullFails(w) ==
    /\ Goes(w, "failed")
    /\ UNCHANGED <<work, auto, head, stash, tracked, half>>

PullStops(w) ==
    /\ half = "none"
    /\ remote # {}
    /\ head \ remote # {}
    /\ half' = "pulling"
    /\ auto' = work
    /\ work' = {}
    /\ tracked' = TRUE
    /\ Goes(w, "failed")
    /\ UNCHANGED <<head, stash>>

PullRebases(w) ==
    /\ half = "none"
    /\ remote # {}
    /\ ~Conflict(head \ remote, remote \ head)
    /\ head' = head \union remote
    /\ tracked' = TRUE
    /\ IF Conflict(work, remote \ head)
       THEN /\ half' = "unmerged"
            /\ stash' = stash \union work
            /\ work' = {}
       ELSE UNCHANGED <<half, stash, work>>
    /\ Goes(w, "popped")
    /\ UNCHANGED auto

Pull(w) ==
    /\ sync[w].at = "pull"
    /\ PullFails(w) \/ PullStops(w) \/ PullRebases(w)
    /\ UNCHANGED <<remote, lock, marker, late, made, hot, missed, due>>

(* Mutant: a rebase that stopped is left as it is. *)
AltAbortRebase(w) ==
    /\ sync[w].at = "failed"
    /\ Fails(w, IF RebaseInProgress THEN "conflict" ELSE "pull")
    /\ UNCHANGED <<work, auto, head, stash, remote, tracked, half, lock, marker,
                   late, made, hot, missed, due>>

(* A rebase that stopped is aborted: the tree goes back to what it was, and *)
(* edits made in the meantime go with it.                                   *)
AbortRebase(w) ==
    /\ sync[w].at = "failed"
    /\ IF RebaseInProgress
       THEN /\ half' = "none"
            /\ work' = auto
            /\ auto' = {}
            /\ Fails(w, "conflict")
       ELSE /\ UNCHANGED <<half, work, auto>>
            /\ Fails(w, "pull")
    /\ UNCHANGED <<head, stash, remote, tracked, lock, marker, late, made, hot, missed, due>>

(* The pull ended well but left unmerged paths: reset; the stash has them.  *)
ResetUnmerged(w) ==
    /\ sync[w].at = "popped"
    /\ \/ /\ Unmerged \/ half = "rebase"
          /\ half' = IF half = "rebase" THEN half ELSE "none"
          /\ work' = {}
          /\ hot' = IF half \in Owners THEN hot \union work ELSE hot
          /\ Fails(w, "conflict")
       \/ /\ ~Unmerged
          /\ UNCHANGED <<half, work, hot>>
          /\ Goes(w, "push")
    /\ UNCHANGED <<auto, head, stash, remote, tracked, lock, marker, late, made, missed, due>>

(* The push goes through when the remote has nothing we lack, from a branch. *)
(* One that comes too late is a failure although the remote has it.          *)
Push(w) ==
    /\ sync[w].at = "push"
    /\ \E told \in BOOLEAN :
          \/ /\ remote \subseteq head
             /\ head # {}
             /\ half # "rebase" \/ sync[w].first
             /\ remote' = head
             /\ tracked' = (told \/ tracked)
             /\ IF told THEN Goes(w, "end") ELSE Fails(w, "push")
          \/ /\ Fails(w, "push")
             /\ UNCHANGED <<remote, tracked>>
    /\ UNCHANGED <<work, auto, head, stash, half, lock, marker, late, made, hot, missed, due>>

(* The marker, and the trap that removes the lock. *)
Finish(w) ==
    /\ sync[w].at = "end"
    /\ marker' = (sync[w].stage # "")
    /\ due' = sync[w].came
    /\ lock' = "none"
    /\ sync' = [sync EXCEPT ![w] = Away]
    /\ UNCHANGED <<work, auto, head, stash, remote, tracked, half, late, made, hot, missed>>

(* The host kills the hook: the lock stays, and so does what is half done,  *)
(* which nothing tells from the owner's own work from now on.               *)
KillSync(w) ==
    /\ sync[w].at \notin {"away", "lock"}
    /\ lock' = "corpse"
    /\ due' = {}
    /\ half' = CASE half = "pulling" -> "rebase"
                 [] half = "unmerged" -> "merge"
                 [] OTHER -> half
    /\ late' = FALSE
    /\ sync' = [sync EXCEPT ![w] = Away]
    /\ UNCHANGED <<work, auto, head, stash, remote, tracked, marker, made, hot, missed>>

GitNext ==
    \/ \E e \in Ours : Edit(e)
    \/ \E e \in Theirs : OtherPushes(e)
    \/ OwnerStarts \/ OwnerAdds \/ OwnerEnds
    \/ \E w \in Windows :
          \/ Arrive(w) \/ TakeLock(w) \/ Guard(w) \/ AddAndCommit(w) \/ FindBranch(w)
          \/ Pull(w) \/ AbortRebase(w) \/ ResetUnmerged(w) \/ Push(w) \/ Finish(w)
          \/ KillSync(w)

GitSpec == GitInit /\ [][GitNext]_gvars

-----------------------------------------------------------------------------
(* Properties. *)

(* Every edit made here is in the tree, in a commit, in the stash or put     *)
(* aside for a running rebase ("nothing unrecoverable is dropped",           *)
(* brain-sync.sh:147), and a tree in the middle of a rebase or full of       *)
(* conflicts is there only while a sync is at work on it.  The edits that go *)
(* are the ones a session makes in the tree that a sync is about to put back *)
(* (:132, :150).                                                             *)
NothingDropped ==
    /\ made \subseteq work \union auto \union head \union stash \union hot
    /\ half \in Left => Running

(* What the owner has half-finished and the guard can see, a rebase or a     *)
(* merge with unmerged paths, is never ended by a sync (:69-82), if he began *)
(* it before the sync had passed its guard.  A merge that is only to be      *)
(* committed the guard does not see (:78): a sync may conclude it, with all  *)
(* that is in the tree, and never throws it away.                            *)
OwnersWorkStands ==
    [][/\ sync' # sync
       /\ half \in Owners
       /\ \A w \in Windows : sync'[w] # Away \/ sync[w] = Away
       => \/ half' = half
          \/ late /\ half # "staged"
          \/ half = "staged" /\ half' = "none" /\ work \subseteq head']_gvars

(* When the last sync came to its end and left no alarm, every edit it found *)
(* here is on the remote, but for those its commit did not take: a refused   *)
(* commit (:88) and edits in the stash raise no alarm.                       *)
SilentMeansPushed ==
    ~marker /\ ~Running => due \subseteq remote \union missed

(* An edit is where the owner can find it, and one that did not get out left *)
(* an alarm.                                                                 *)
NothingLostInSilence == NothingDropped /\ SilentMeansPushed

=============================================================================
