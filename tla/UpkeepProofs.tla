----------------------------- MODULE UpkeepProofs -----------------------------
(***************************************************************************)
(* Theorems about the processes that look after the vault beside the note  *)
(* tools: the lock files broken by age, the change of the embedding model, *)
(* the synchronisation of the vault with its Git remote, the retrieval log *)
(* that every search writes, and the rotation of cards into the archive.   *)
(***************************************************************************)
EXTENDS AgedLock, ModelMigration, GitSync, RetrievalLog, Rotation, FiniteSetTheorems,
        SequenceTheorems, WellFoundedInduction, TLAPS

(***************************************************************************)
(* A lock file broken by age.                                              *)
(*                                                                         *)
(* Two processes are at work under a lock file that is broken by age only  *)
(* when one outlived the age, gave up waiting, or unlinked a younger file  *)
(* than the one it had judged: for any number of processes, any deaths and *)
(* both locks.  The invariant adds to the property where the file is: as   *)
(* long as none of the three has happened, whoever is at work made the     *)
(* file that is there, and it is fresh.                                    *)
(***************************************************************************)

Places == {"away", "create", "judge", "again", "break", "holds", "unguarded"}

AgedTypeOK ==
    /\ file \in {"none", "fresh", "old"}
    /\ at \in [Claimants -> Places]
    /\ misfired \in BOOLEAN /\ outlived \in BOOLEAN /\ gaveUp \in BOOLEAN

Orderly == ~misfired /\ ~outlived /\ ~gaveUp

HoldersOwn ==
    Orderly => \A p \in Claimants :
        /\ at[p] # "unguarded"
        /\ at[p] = "holds" => owner = p /\ file = "fresh"

AgedInv == AgedTypeOK /\ HoldersOwn

LEMMA AgedInitially == AgedInit => AgedInv
  BY DEF AgedInit, AgedInv, AgedTypeOK, HoldersOwn, Places

(* No step lets a second process in unless it leaves one of the three marks. *)
LEMMA AgedInvKept == AgedInv /\ [AgedNext]_avars => AgedInv'
<1> SUFFICES ASSUME AgedInv, [AgedNext]_avars PROVE AgedInv'
  OBVIOUS
<1> USE DEF AgedInv, AgedTypeOK, HoldersOwn, Orderly, Places, MovesTo
<1>1. CASE GrowOld
  BY <1>1, NobodyIsNone DEF GrowOld
<1>2. ASSUME NEW p \in Claimants, Look(p) PROVE AgedInv'
  BY <1>2 DEF Look
<1>3. ASSUME NEW p \in Claimants, Want(p) PROVE AgedInv'
  BY <1>3 DEF Want
<1>4. ASSUME NEW p \in Claimants, Judge(p) PROVE AgedInv'
  BY <1>4 DEF Judge
<1>5. ASSUME NEW p \in Claimants, JudgeAgain(p) PROVE AgedInv'
  BY <1>5 DEF JudgeAgain
<1>6. ASSUME NEW p \in Claimants, Break(p) PROVE AgedInv'
  BY <1>6 DEF Break
<1>7. ASSUME NEW p \in Claimants, Create(p) PROVE AgedInv'
  <2>1. CASE file = "none"
    BY <1>7, <2>1 DEF Create
  <2>2. CASE file # "none"
    BY <1>7, <2>2 DEF Create
  <2> QED BY <2>1, <2>2
<1>8. ASSUME NEW p \in Claimants, Release(p) PROVE AgedInv'
  BY <1>8 DEF Release
<1>9. ASSUME NEW p \in Claimants, EndUnguarded(p) PROVE AgedInv'
  BY <1>9 DEF EndUnguarded
<1>10. ASSUME NEW p \in Claimants, Die(p) PROVE AgedInv'
  BY <1>10 DEF Die
<1>11. CASE UNCHANGED avars
  BY <1>11 DEF avars
<1> QED
  BY <1>1, <1>2, <1>3, <1>4, <1>5, <1>6, <1>7, <1>8, <1>9, <1>10, <1>11 DEF AgedNext

LEMMA AgedInvGives == AgedInv => OneAtWork
  BY DEF AgedInv, AgedTypeOK, HoldersOwn, Orderly, OneAtWork

(* The onboarding claim and the reindex lock let two processes work at once  *)
(* only for one of the three reasons.                                        *)
THEOREM OneAtWorkAlways == AgedSpec => []OneAtWork
  BY AgedInitially, AgedInvKept, AgedInvGives, PTL DEF AgedSpec

-----------------------------------------------------------------------------
(* The model of the vector index.  Under the lock, and as long as nobody     *)
(* goes on without it, one process at a time boots, changes or repairs the   *)
(* index; so the name is still missing when a boot registers it, and between *)
(* the new table and its name nobody else stores a vector under the lock.    *)

Locked == {"boot", "boot all", "boot name", "change", "recreate", "name", "all of it", "all",
           "diff", "repair"}
Spots == Locked \cup Waits \cup {"off", "sync", "decide", "ready"}

ServerStates ==
    [at : Spots, engine : Models, pinned : BOOLEAN, vec : BOOLEAN, asked : Models \cup {Unset},
     todo : SUBSET Pages, gone : SUBSET Pages, guarded : BOOLEAN]
VectorRecords == [model : Models, held : BOOLEAN, late : BOOLEAN]

MigrationTypeOK ==
    /\ vecs \in [Pages -> VectorRecords \cup {Unset}]
    /\ tag \in Models \cup {Unset}
    /\ rebuild \in Processes \cup {"free", "orphan"}
    /\ server \in [Processes -> ServerStates]
    /\ tooLong \in BOOLEAN

(* Who has the lock is in a section that needs it, and nobody else is there. *)
LockGuards ==
    \A s \in Processes :
        /\ server[s].guarded = TRUE <=> rebuild = s
        /\ server[s].guarded = TRUE => server[s].at \in Locked
        /\ ~tooLong /\ server[s].at \in Locked => server[s].guarded = TRUE

(* As long as the database names no model, every engine is the default's.    *)
NamelessIsDefault == tag = Unset => \A s \in Processes : server[s].engine = DefaultModel

BootIsFirst ==
    ~tooLong => \A s \in Processes : server[s].at \in {"boot all", "boot name"} => tag = Unset

NothingHeldBeforeTheName ==
    ~tooLong => \A s \in Processes : server[s].at = "name" =>
        \A n \in Pages : vecs[n] # Unset => vecs[n].held = FALSE

HeldIsNamed ==
    ~tooLong => \A n \in Pages :
        vecs[n] # Unset /\ vecs[n].held = TRUE /\ vecs[n].late = FALSE => vecs[n].model = Registered

MigrationInv ==
    /\ MigrationTypeOK /\ LockGuards /\ NamelessIsDefault /\ BootIsFirst
    /\ NothingHeldBeforeTheName /\ HeldIsNamed


LEMMA ModelsAreNamed == DefaultModel \in Models /\ Unset \notin Models
  BY DefaultIsKnown DEF Models

LEMMA RegisteredIsModel == MigrationTypeOK => Registered \in Models
  BY ModelsAreNamed DEF MigrationTypeOK, Registered

LEMMA NoServerIsState == NoServer \in ServerStates
  BY ModelsAreNamed DEF NoServer, ServerStates, Spots

LEMMA FreshIsState ==
  ASSUME MigrationTypeOK, NEW r \in ServerStates
  PROVE  /\ FreshEngine(r) \in ServerStates /\ FreshEngine(r).engine = Registered
         /\ FreshEngine(r).at = r.at /\ FreshEngine(r).guarded = r.guarded
  BY RegisteredIsModel DEF FreshEngine, ServerStates

(* A process keeps what it has of the lock, and enters no section that needs *)
(* the lock.                                                                 *)
LEMMA LockStays ==
  ASSUME MigrationInv, NEW s \in Processes, NEW r \in ServerStates,
         server' = [server EXCEPT ![s] = r], UNCHANGED <<rebuild, tooLong>>,
         r.guarded = server[s].guarded, r.guarded = TRUE => r.at \in Locked,
         r.at \in Locked => server[s].at \in Locked
  PROVE  LockGuards' /\ rebuild' \in Processes \cup {"free", "orphan"}
<1>1. server'[s] = r /\ \A q \in Processes \ {s} : server'[q] = server[q]
  BY DEF MigrationInv, MigrationTypeOK
<1> QED BY <1>1 DEF MigrationInv, MigrationTypeOK, LockGuards

(* It leaves such a section, and lets the lock go if it has it.              *)
LEMMA LockIsLeft ==
  ASSUME MigrationInv, NEW s \in Processes, NEW r \in ServerStates,
         server' = [server EXCEPT ![s] = r], UNCHANGED tooLong,
         r.guarded = FALSE, r.at \notin Locked,
         NEW rest \in {"free", "orphan"},
         rebuild' = IF server[s].guarded THEN rest ELSE rebuild
  PROVE  LockGuards' /\ rebuild' \in Processes \cup {"free", "orphan"}
<1>1. server'[s] = r /\ \A q \in Processes \ {s} : server'[q] = server[q]
  BY DEF MigrationInv, MigrationTypeOK
<1>2. \A q \in Processes : q # rest
  BY DefaultIsKnown
<1>3. server[s].guarded \in BOOLEAN /\ rebuild \in Processes \cup {"free", "orphan"}
  BY DEF MigrationInv, MigrationTypeOK, ServerStates
<1>4. CASE server[s].guarded = TRUE
  BY <1>1, <1>2, <1>4 DEF MigrationInv, LockGuards
<1>5. CASE server[s].guarded = FALSE
  BY <1>1, <1>3, <1>5 DEF MigrationInv, LockGuards
<1> QED BY <1>3, <1>4, <1>5

(* What a vector stored by s may say.                                        *)
Honest(s, v) ==
    /\ v \in VectorRecords /\ v.held = server[s].guarded
    /\ v.late = FALSE => v.model = Registered

LEMMA VectorIsHonest ==
  ASSUME MigrationInv, NEW s \in Processes
  PROVE  Honest(s, Vector(s))
<1>1. server[s].engine \in Models /\ server[s].guarded \in BOOLEAN
  BY DEF MigrationInv, MigrationTypeOK, ServerStates
<1>2. (server[s].engine # Registered) \in BOOLEAN
  OBVIOUS
<1>3. Vector(s) \in VectorRecords
  BY <1>1, <1>2 DEF Vector, VectorRecords
<1>4. Vector(s).held = server[s].guarded /\ Vector(s).model = server[s].engine
      /\ (Vector(s).late = FALSE => server[s].engine = Registered)
  BY DEF Vector
<1> QED BY <1>3, <1>4 DEF Honest

(* A step that leaves the name alone: vectors go, or come from s.            *)
LEMMA NameStays ==
  ASSUME MigrationInv, NEW s \in Processes, NEW r \in ServerStates,
         server' = [server EXCEPT ![s] = r], UNCHANGED tag,
         tooLong' \in BOOLEAN, tooLong => tooLong',
         LockGuards', rebuild' \in Processes \cup {"free", "orphan"},
         NEW W, vecs' = [n \in Pages |-> W[n]],
         \A n \in Pages : W[n] \in {vecs[n], Unset} \/ Honest(s, W[n]),
         r.engine \in {server[s].engine, Registered},
         r.at \in {"boot all", "boot name"} => tag = Unset \/ server[s].at \in {"boot all", "boot name"},
         r.at = "name" => \A n \in Pages : W[n] = Unset
  PROVE  MigrationInv'
<1>1. server'[s] = r /\ \A q \in Processes \ {s} : server'[q] = server[q]
  BY DEF MigrationInv, MigrationTypeOK
<1>2. \A n \in Pages : vecs'[n] = W[n]
  OBVIOUS
<1>3. MigrationTypeOK'
  <2>1. \A n \in Pages : W[n] \in VectorRecords \cup {Unset}
    BY DEF Honest, MigrationInv, MigrationTypeOK
  <2> QED BY <2>1 DEF MigrationInv, MigrationTypeOK
<1>4. NamelessIsDefault'
  BY <1>1 DEF MigrationInv, NamelessIsDefault, Registered
<1>5. BootIsFirst'
  BY <1>1 DEF MigrationInv, BootIsFirst
<1>6. Registered' = Registered
  BY DEF Registered
<1>7. NothingHeldBeforeTheName'
  <2> SUFFICES ASSUME ~tooLong', NEW q \in Processes, server'[q].at = "name",
                      NEW n \in Pages, W[n] # Unset
               PROVE  W[n].held = FALSE
    BY <1>2 DEF NothingHeldBeforeTheName
  <2>1. q # s
    BY <1>1
  <2>2. server[q].at = "name" /\ ~tooLong
    BY <1>1, <2>1
  <2>3. server[q].guarded = TRUE /\ server[s].guarded # TRUE
    BY <2>1, <2>2 DEF MigrationInv, LockGuards, Locked
  <2>4. server[s].guarded = FALSE
    BY <2>3 DEF MigrationInv, MigrationTypeOK, ServerStates
  <2> QED BY <2>2, <2>4 DEF Honest, MigrationInv, NothingHeldBeforeTheName
<1>8. HeldIsNamed'
  BY <1>2, <1>6 DEF Honest, MigrationInv, HeldIsNamed
<1> QED BY <1>3, <1>4, <1>5, <1>7, <1>8 DEF MigrationInv

LEMMA SameVectors ==
  ASSUME MigrationInv, UNCHANGED vecs
  PROVE  vecs' = [n \in Pages |-> vecs[n]]
  BY DEF MigrationInv, MigrationTypeOK

(* Steps that store no vector.                                               *)
LEMMA PlainServerStep ==
  ASSUME MigrationInv, NEW s \in Processes, NEW r \in ServerStates,
         server' = [server EXCEPT ![s] = r], UNCHANGED <<tag, vecs>>,
         tooLong' \in BOOLEAN, tooLong => tooLong',
         LockGuards', rebuild' \in Processes \cup {"free", "orphan"},
         r.engine \in {server[s].engine, Registered},
         r.at \in {"boot all", "boot name"} => tag = Unset \/ server[s].at \in {"boot all", "boot name"},
         r.at # "name"
  PROVE  MigrationInv'
<1>1. PICK W : W = vecs
  OBVIOUS
<1>2. vecs' = [n \in Pages |-> W[n]]
  BY <1>1, SameVectors
<1>3. \A n \in Pages : W[n] \in {vecs[n], Unset} \/ Honest(s, W[n])
  BY <1>1
<1> HIDE <1>1
<1> QED BY <1>2, <1>3, NameStays

LEMMA MigrationInitially == MigrationInit => MigrationInv
<1> SUFFICES ASSUME MigrationInit PROVE MigrationInv
  OBVIOUS
<1>1. MigrationTypeOK
  BY NoServerIsState DEF MigrationInit, MigrationTypeOK
<1>2. \A s \in Processes : /\ server[s].at = "off" /\ server[s].guarded = FALSE
                           /\ server[s].engine = DefaultModel
  BY DEF MigrationInit, NoServer
<1>3. \A s \in Processes : s # "free"
  BY DefaultIsKnown
<1> QED BY <1>1, <1>2, <1>3 DEF MigrationInit, MigrationInv, LockGuards, NamelessIsDefault, BootIsFirst,
           NothingHeldBeforeTheName, HeldIsNamed, Locked


(* How a step changes what a process knows.                                  *)
Placed(r, spot) == [r EXCEPT !.at = spot]
Released(r, spot) == [r EXCEPT !.at = spot, !.guarded = FALSE]

LEMMA PlacedIsState ==
  ASSUME NEW r \in ServerStates, NEW spot \in Spots
  PROVE  /\ Placed(r, spot) \in ServerStates /\ Placed(r, spot).at = spot
         /\ Placed(r, spot).engine = r.engine /\ Placed(r, spot).guarded = r.guarded
  BY DEF Placed, ServerStates

LEMMA LeftIsState ==
  ASSUME NEW r \in ServerStates, NEW spot \in Spots
  PROVE  /\ Released(r, spot) \in ServerStates /\ Released(r, spot).at = spot
         /\ Released(r, spot).engine = r.engine /\ Released(r, spot).guarded = FALSE
  BY DEF Released, ServerStates

LEMMA StateOf ==
  ASSUME MigrationInv, NEW s \in Processes
  PROVE  /\ server[s] \in ServerStates
         /\ server[s].guarded = TRUE => server[s].at \in Locked
         /\ server[s].guarded \in BOOLEAN /\ tooLong \in BOOLEAN
  BY DEF MigrationInv, MigrationTypeOK, LockGuards, ServerStates

(* A step that only goes on, in the section or outside.                      *)
LEMMA GoesOn ==
  ASSUME MigrationInv, NEW s \in Processes, NEW spot \in Spots, Steps(s, spot),
         UNCHANGED <<tag, vecs, rebuild, tooLong>>,
         server[s].at \in Locked <=> spot \in Locked, spot # "name",
         spot \in {"boot all", "boot name"} => tag = Unset \/ server[s].at \in {"boot all", "boot name"}
  PROVE  MigrationInv'
<1>1. PICK r \in ServerStates : r = server[s]
  BY StateOf
<1>2. PICK n \in ServerStates : n = Placed(r, spot)
  BY PlacedIsState
<1>3. n.at = spot /\ n.engine = server[s].engine /\ n.guarded = server[s].guarded
  BY <1>1, <1>2, PlacedIsState
<1>4. server' = [server EXCEPT ![s] = n]
  BY <1>1, <1>2 DEF Steps, Placed
<1>5. LockGuards' /\ rebuild' \in Processes \cup {"free", "orphan"}
  BY <1>3, <1>4, LockStays, StateOf
<1> QED BY <1>3, <1>4, <1>5, PlainServerStep, StateOf

(* A section is left, with or without the lock.                              *)
LEMMA LeavesSafely ==
  ASSUME MigrationInv, NEW s \in Processes, NEW o \in ServerStates, NEW spot \in Spots \ Locked,
         Leaves(s, o, spot), UNCHANGED <<tag, tooLong>>,
         o.engine \in {server[s].engine, Registered},
         NEW W, vecs' = [n \in Pages |-> W[n]],
         \A n \in Pages : W[n] \in {vecs[n], Unset} \/ Honest(s, W[n])
  PROVE  MigrationInv'
<1>1. PICK n \in ServerStates : n = Released(o, spot)
  BY LeftIsState
<1>2. n.at = spot /\ n.engine = o.engine /\ n.guarded = FALSE
  BY <1>1, LeftIsState
<1>3. server' = [server EXCEPT ![s] = n]
  BY <1>1 DEF Leaves, Released
<1>4. rebuild' = IF server[s].guarded THEN "free" ELSE rebuild
  BY DEF Leaves
<1>5. LockGuards' /\ rebuild' \in Processes \cup {"free", "orphan"}
  BY <1>2, <1>3, <1>4, LockIsLeft
<1>6. spot # "name" /\ spot \notin {"boot all", "boot name"}
  BY DEF Locked
<1> QED BY <1>2, <1>3, <1>5, <1>6, NameStays, StateOf

LEMMA LeavesPlainly ==
  ASSUME MigrationInv, NEW s \in Processes, NEW o \in ServerStates, NEW spot \in Spots \ Locked,
         Leaves(s, o, spot), UNCHANGED <<tag, tooLong, vecs>>,
         o.engine \in {server[s].engine, Registered}
  PROVE  MigrationInv'
<1>1. PICK W : W = vecs
  OBVIOUS
<1>2. vecs' = [n \in Pages |-> W[n]]
  BY <1>1, SameVectors
<1>3. \A n \in Pages : W[n] \in {vecs[n], Unset} \/ Honest(s, W[n])
  BY <1>1
<1> HIDE <1>1
<1> QED BY <1>2, <1>3, LeavesSafely

LEMMA StartKeepsName ==
  ASSUME MigrationInv, NEW s \in Processes, NEW m \in Models \cup {Unset}, StartServer(s, m)
  PROVE  MigrationInv'
<1> DEFINE f == FreshEngine(NoServer)
<1>1. f \in ServerStates /\ f.engine = Registered /\ f.guarded = FALSE
  BY NoServerIsState, FreshIsState DEF MigrationInv, NoServer
<1>2. PICK r \in ServerStates : r = [f EXCEPT !.at = "sync", !.asked = m]
  <2> HIDE DEF f
  <2> QED BY <1>1 DEF ServerStates, Spots
<1>3. r.at = "sync" /\ r.engine = Registered /\ r.guarded = FALSE
  <2> HIDE DEF f
  <2> QED BY <1>1, <1>2 DEF ServerStates
<1>4. server' = [server EXCEPT ![s] = r] /\ UNCHANGED <<vecs, tag, rebuild, tooLong>>
      /\ server[s].at = "off"
  BY <1>2 DEF StartServer
<1>5. server[s].guarded = FALSE
  BY <1>4, StateOf DEF Locked, Waits
<1>6. LockGuards' /\ rebuild' \in Processes \cup {"free", "orphan"}
  BY <1>3, <1>4, <1>5, LockStays DEF Locked
<1> QED BY <1>3, <1>4, <1>6, PlainServerStep, StateOf

LEMMA SyncKeepsName ==
  ASSUME MigrationInv, NEW s \in Processes, NEW P \in SUBSET Pages, SyncPages(s, P)
  PROVE  MigrationInv'
<1>1. server[s].at \in {"sync", "ready"} /\ UNCHANGED <<vecs, tag, rebuild, tooLong>>
  BY DEF SyncPages
<1>2. PICK here \in SUBSET P, to \in After(server[s].at) :
          server' = [server EXCEPT ![s].at = to, ![s].todo = here, ![s].gone = P \ here]
  BY DEF SyncPages
<1>3. to \in {"decide", "for diff", "for all"}
  BY <1>1, <1>2 DEF After
<1>4. PICK o \in ServerStates : o = server[s]
  BY StateOf
<1>5. PICK r \in ServerStates : r = [o EXCEPT !.at = to, !.todo = here, !.gone = P \ here]
  BY <1>2, <1>3, <1>4 DEF ServerStates, Spots, Waits
<1>6. r.at = to /\ r.engine = server[s].engine /\ r.guarded = server[s].guarded
  BY <1>4, <1>5 DEF ServerStates
<1>7. server' = [server EXCEPT ![s] = r]
  BY <1>2, <1>4, <1>5
<1>8. r.at \notin Locked /\ server[s].guarded = FALSE
  BY <1>1, <1>3, <1>6, StateOf DEF Locked
<1>9. LockGuards' /\ rebuild' \in Processes \cup {"free", "orphan"}
  BY <1>1, <1>6, <1>7, <1>8, LockStays
<1>10. r.at # "name" /\ r.at \notin {"boot all", "boot name"}
  BY <1>3, <1>6
<1> QED BY <1>1, <1>6, <1>7, <1>9, <1>10, PlainServerStep, StateOf

LEMMA TakeRebuildKeepsName ==
  ASSUME MigrationInv, NEW s \in Processes, TakeRebuild(s)
  PROVE  MigrationInv'
<1>1. /\ server[s].at \in Waits /\ UNCHANGED <<vecs, tag>>
      /\ tooLong' = (tooLong \/ rebuild # "free")
      /\ \/ rebuild = "free" /\ rebuild' = s
         \/ rebuild # "free" /\ rebuild' = rebuild
  BY Zenon DEF TakeRebuild
<1>2. PICK o \in ServerStates : o = server[s]
  BY StateOf
<1>3. PICK to \in Spots : to = EnteredAs(server[s].at)
  BY <1>1 DEF EnteredAs, Waits, Spots, Locked
<1>4. to \in {"boot", "change", "diff", "repair", "all"}
  BY <1>1, <1>3 DEF EnteredAs, Waits
<1>5. PICK b \in BOOLEAN : b = (rebuild = "free")
  OBVIOUS
<1>6. PICK r \in ServerStates : r = [o EXCEPT !.at = to, !.guarded = b]
  BY DEF ServerStates
<1>7. r.at = to /\ r.engine = server[s].engine /\ r.guarded = b
  BY <1>2, <1>6 DEF ServerStates
<1>8. server' = [server EXCEPT ![s] = r]
  BY <1>2, <1>3, <1>5, <1>6 DEF TakeRebuild
<1>9. server'[s] = r /\ \A q \in Processes \ {s} : server'[q] = server[q]
  BY <1>8 DEF MigrationInv, MigrationTypeOK
<1>10. server[s].guarded = FALSE
  BY <1>1, StateOf DEF Waits, Locked
<1>11. LockGuards'
  <2>1. s # "free" /\ to \in Locked
    BY <1>4, DefaultIsKnown DEF Locked
  <2>2. CASE rebuild = "free"
    <3>1. \A q \in Processes : server[q].guarded # TRUE
      BY <2>2, DefaultIsKnown DEF MigrationInv, LockGuards
    <3>2. tooLong' = tooLong /\ rebuild' = s /\ b = TRUE
      BY <1>1, <1>5, <2>2, StateOf
    <3> QED BY <1>7, <1>9, <2>1, <3>1, <3>2 DEF MigrationInv, LockGuards
  <2>3. CASE rebuild # "free"
    <3>1. tooLong' = TRUE /\ rebuild' = rebuild /\ b = FALSE
      BY <1>1, <1>5, <2>3
    <3> QED BY <1>7, <1>9, <1>10, <3>1 DEF MigrationInv, LockGuards
  <2> QED BY <2>2, <2>3
<1>12. rebuild' \in Processes \cup {"free", "orphan"} /\ tooLong' \in BOOLEAN /\ (tooLong => tooLong')
  BY <1>1, StateOf DEF MigrationInv, MigrationTypeOK
<1>13. r.at # "name" /\ r.at \notin {"boot all", "boot name"}
  BY <1>4, <1>7
<1> QED BY <1>1, <1>7, <1>8, <1>11, <1>12, <1>13, PlainServerStep


LEMMA BootKeepsName ==
  ASSUME MigrationInv, NEW s \in Processes, Boot(s)
  PROVE  MigrationInv'
<1>1. server[s].at = "boot" /\ UNCHANGED <<vecs, tag, tooLong>>
  BY DEF Boot
<1>2. CASE Leaves(s, FreshEngine(server[s]), "for diff")
  <2>1. PICK f \in ServerStates : f = FreshEngine(server[s])
    BY FreshIsState, StateOf DEF MigrationInv
  <2>2. f.engine = Registered
    BY <2>1, FreshIsState, StateOf DEF MigrationInv
  <2>3. "for diff" \in Spots \ Locked
    BY DEF Spots, Waits, Locked
  <2> QED BY <1>1, <1>2, <2>1, <2>2, <2>3, LeavesPlainly
<1>3. CASE tag = Unset /\ UNCHANGED rebuild
           /\ \E spot \in {"boot all", "boot name"} : Steps(s, spot)
  <2>1. PICK spot \in {"boot all", "boot name"} : Steps(s, spot)
    BY <1>3
  <2>2. spot \in Spots /\ spot \in Locked /\ server[s].at \in Locked /\ spot # "name"
    BY <1>1, <2>1 DEF Spots, Locked
  <2> QED BY <1>1, <1>3, <2>1, <2>2, GoesOn
<1> QED BY <1>2, <1>3 DEF Boot

LEMMA AllAreHonest ==
  ASSUME MigrationInv, NEW s \in Processes, IndexAll(s)
  PROVE  \E W : vecs' = [n \in Pages |-> W[n]]
                /\ \A n \in Pages : W[n] \in {vecs[n], Unset} \/ Honest(s, W[n])
<1>1. CASE pages = {}
  <2>1. PICK W : W = vecs
    OBVIOUS
  <2>2. vecs' = [n \in Pages |-> W[n]]
    BY <1>1, <2>1, SameVectors DEF IndexAll
  <2> QED BY <2>1, <2>2
<1>2. CASE pages # {}
  <2>1. PICK v : v = Vector(s)
    OBVIOUS
  <2>2. Honest(s, v)
    BY <2>1, VectorIsHonest
  <2> DEFINE W == [n \in Pages |-> IF n \in pages THEN v ELSE Unset]
  <2>3. vecs' = W
    BY <1>2, <2>1 DEF IndexAll
  <2>4. \A n \in Pages : W[n] \in {vecs[n], Unset} \/ Honest(s, W[n])
    BY <2>2
  <2>5. vecs' = [n \in Pages |-> W[n]]
    BY <2>3
  <2> HIDE DEF W
  <2> QED BY <2>4, <2>5
<1> QED BY <1>1, <1>2

LEMMA BootIndexesKeepsName ==
  ASSUME MigrationInv, NEW s \in Processes, BootIndexes(s)
  PROVE  MigrationInv'
<1>1. server[s].at = "boot all" /\ IndexAll(s) /\ UNCHANGED <<tag, rebuild, tooLong>>
      /\ Steps(s, "boot name")
  BY DEF BootIndexes
<1>2. PICK W : vecs' = [n \in Pages |-> W[n]]
               /\ \A n \in Pages : W[n] \in {vecs[n], Unset} \/ Honest(s, W[n])
  BY <1>1, AllAreHonest
<1>3. PICK o \in ServerStates : o = server[s]
  BY StateOf
<1>4. "boot name" \in Spots
  BY DEF Spots, Locked
<1>5. PICK r \in ServerStates : r = Placed(o, "boot name")
  BY <1>4, PlacedIsState
<1>6. r.at = "boot name" /\ r.engine = server[s].engine /\ r.guarded = server[s].guarded
  BY <1>3, <1>4, <1>5, PlacedIsState
<1>7. server' = [server EXCEPT ![s] = r]
  BY <1>1, <1>3, <1>5 DEF Steps, Placed
<1>8. LockGuards' /\ rebuild' \in Processes \cup {"free", "orphan"}
  BY <1>1, <1>6, <1>7, LockStays DEF Locked
<1> QED BY <1>1, <1>2, <1>6, <1>7, <1>8, NameStays, StateOf

(* The name a boot registers is the one the index was made with.             *)
LEMMA BootRegistersKeepsName ==
  ASSUME MigrationInv, NEW s \in Processes, BootRegisters(s)
  PROVE  MigrationInv'
<1>1. server[s].at = "boot name" /\ tag' = server[s].engine /\ UNCHANGED <<vecs, tooLong>>
      /\ Leaves(s, server[s], "ready")
  BY DEF BootRegisters
<1>2. PICK o \in ServerStates : o = server[s]
  BY StateOf
<1>3. "ready" \in Spots /\ "ready" \notin Locked
  BY DEF Spots, Locked
<1>4. PICK r \in ServerStates : r = Released(o, "ready")
  BY <1>3, LeftIsState
<1>5. r.at = "ready" /\ r.engine = server[s].engine /\ r.guarded = FALSE
  BY <1>2, <1>3, <1>4, LeftIsState
<1>6. server' = [server EXCEPT ![s] = r]
  BY <1>1, <1>2, <1>4 DEF Leaves, Released
<1>7. rebuild' = IF server[s].guarded THEN "free" ELSE rebuild
  BY <1>1 DEF Leaves
<1>8. LockGuards' /\ rebuild' \in Processes \cup {"free", "orphan"}
  BY <1>1, <1>3, <1>5, <1>6, <1>7, LockIsLeft
<1>9. server'[s] = r /\ \A q \in Processes \ {s} : server'[q] = server[q]
  BY <1>6 DEF MigrationInv, MigrationTypeOK
<1>10. tag' \in Models /\ tag' # Unset
  BY <1>1, <1>2, ModelsAreNamed DEF ServerStates
<1>11. MigrationTypeOK'
  BY <1>1, <1>6, <1>8, <1>10 DEF MigrationInv, MigrationTypeOK
<1>12. ~tooLong => tag = Unset /\ Registered' = Registered
  BY <1>1, <1>10, ModelsAreNamed DEF MigrationInv, BootIsFirst, NamelessIsDefault, Registered
<1>13. HeldIsNamed'
  BY <1>1, <1>12 DEF MigrationInv, HeldIsNamed
<1>14. NothingHeldBeforeTheName'
  BY <1>1, <1>5, <1>9 DEF MigrationInv, NothingHeldBeforeTheName
<1>15. BootIsFirst'
  <2> SUFFICES ASSUME ~tooLong', NEW q \in Processes, server'[q].at \in {"boot all", "boot name"}
               PROVE  FALSE
    BY DEF BootIsFirst
  <2>1. q # s /\ server[q].at \in {"boot all", "boot name"} /\ ~tooLong
    BY <1>1, <1>5, <1>9
  <2>2. server[q].guarded = TRUE /\ server[s].guarded = TRUE
    BY <1>1, <2>1 DEF MigrationInv, LockGuards, Locked
  <2> QED BY <2>1, <2>2 DEF MigrationInv, LockGuards
<1>16. NamelessIsDefault'
  BY <1>10 DEF NamelessIsDefault
<1> QED BY <1>8, <1>11, <1>13, <1>14, <1>15, <1>16 DEF MigrationInv

LEMMA ChangeKeepsName ==
  ASSUME MigrationInv, NEW s \in Processes, Change(s)
  PROVE  MigrationInv'
<1>1. server[s].at = "change" /\ UNCHANGED <<vecs, tag, tooLong>>
  BY DEF Change
<1>2. "for diff" \in Spots \ Locked
  BY DEF Spots, Waits, Locked
<1>3. CASE Leaves(s, FreshEngine(server[s]), "for diff")
  <2>1. PICK f \in ServerStates : f = FreshEngine(server[s])
    BY FreshIsState, StateOf DEF MigrationInv
  <2>2. f.engine = Registered
    BY <2>1, FreshIsState, StateOf DEF MigrationInv
  <2> QED BY <1>1, <1>2, <1>3, <2>1, <2>2, LeavesPlainly
<1>4. CASE Steps(s, "recreate") /\ UNCHANGED rebuild
  <2>1. "recreate" \in Spots /\ "recreate" \in Locked /\ server[s].at \in Locked
    BY <1>1 DEF Spots, Locked
  <2> QED BY <1>1, <1>4, <2>1, GoesOn
<1>5. CASE Leaves(s, server[s], "for diff")
  BY <1>1, <1>2, <1>5, StateOf, LeavesPlainly
<1> QED BY <1>3, <1>4, <1>5 DEF Change

LEMMA RecreateKeepsName ==
  ASSUME MigrationInv, NEW s \in Processes, Recreate(s)
  PROVE  MigrationInv'
<1>1. server[s].at = "recreate" /\ Steps(s, "name") /\ UNCHANGED <<tag, rebuild, tooLong>>
      /\ vecs' = [n \in Pages |-> Unset]
  BY DEF Recreate
<1>2. PICK o \in ServerStates : o = server[s]
  BY StateOf
<1>3. "name" \in Spots
  BY DEF Spots, Locked
<1>4. PICK r \in ServerStates : r = Placed(o, "name")
  BY <1>3, PlacedIsState
<1>5. r.at = "name" /\ r.engine = server[s].engine /\ r.guarded = server[s].guarded
  BY <1>2, <1>3, <1>4, PlacedIsState
<1>6. server' = [server EXCEPT ![s] = r]
  BY <1>1, <1>2, <1>4 DEF Steps, Placed
<1>7. LockGuards' /\ rebuild' \in Processes \cup {"free", "orphan"}
  BY <1>1, <1>5, <1>6, LockStays DEF Locked
<1>8. PICK W : W = [n \in Pages |-> Unset]
  OBVIOUS
<1>9. vecs' = [n \in Pages |-> W[n]] /\ \A n \in Pages : W[n] = Unset
  BY <1>1, <1>8
<1>10. \A n \in Pages : W[n] \in {vecs[n], Unset} \/ Honest(s, W[n])
  BY <1>9
<1>11. tooLong' \in BOOLEAN /\ (tooLong => tooLong')
  BY <1>1, StateOf
<1> QED BY <1>1, <1>5, <1>6, <1>7, <1>9, <1>10, <1>11, NameStays

(* Whoever names the new model has the lock, and has emptied the table.      *)
LEMMA NameModelKeepsName ==
  ASSUME MigrationInv, NEW s \in Processes, NameModel(s)
  PROVE  MigrationInv'
<1>1. server[s].at = "name" /\ tag' = Target(s) /\ UNCHANGED <<vecs, rebuild, tooLong>>
  BY DEF NameModel
<1>2. PICK o \in ServerStates : o = server[s]
  BY StateOf
<1>3. PICK m \in Models : m = Target(s)
  BY <1>2 DEF Target, ServerStates
<1>4. PICK r \in ServerStates :
          r = [o EXCEPT !.at = "all of it", !.engine = m, !.pinned = TRUE, !.vec = TRUE]
  BY <1>2, <1>3 DEF ServerStates, Spots, Locked
<1>5. r.at = "all of it" /\ r.guarded = server[s].guarded
  BY <1>2, <1>4 DEF ServerStates
<1>6. server' = [server EXCEPT ![s] = r]
  BY <1>2, <1>3, <1>4 DEF NameModel
<1>7. LockGuards' /\ rebuild' \in Processes \cup {"free", "orphan"}
  BY <1>1, <1>5, <1>6, LockStays, StateOf DEF Locked
<1>8. server'[s] = r /\ \A q \in Processes \ {s} : server'[q] = server[q]
  BY <1>6 DEF MigrationInv, MigrationTypeOK
<1>9. tag' \in Models /\ tag' # Unset
  BY <1>1, <1>3, ModelsAreNamed
<1>10. MigrationTypeOK'
  BY <1>1, <1>6, <1>7, <1>9 DEF MigrationInv, MigrationTypeOK
<1>11. ~tooLong => \A n \in Pages : vecs[n] # Unset => vecs[n].held = FALSE
  BY <1>1 DEF MigrationInv, NothingHeldBeforeTheName
<1>12. NothingHeldBeforeTheName' /\ HeldIsNamed'
  BY <1>1, <1>11 DEF NothingHeldBeforeTheName, HeldIsNamed
<1>13. BootIsFirst'
  <2> SUFFICES ASSUME ~tooLong', NEW q \in Processes, server'[q].at \in {"boot all", "boot name"}
               PROVE  FALSE
    BY DEF BootIsFirst
  <2>1. q # s /\ server[q].at \in {"boot all", "boot name"} /\ ~tooLong
    BY <1>1, <1>5, <1>8
  <2>2. server[q].guarded = TRUE /\ server[s].guarded = TRUE
    BY <1>1, <2>1 DEF MigrationInv, LockGuards, Locked
  <2> QED BY <2>1, <2>2 DEF MigrationInv, LockGuards
<1>14. NamelessIsDefault'
  BY <1>9 DEF NamelessIsDefault
<1> QED BY <1>7, <1>10, <1>12, <1>13, <1>14 DEF MigrationInv


LEMMA ReembedKeepsName ==
  ASSUME MigrationInv, NEW s \in Processes, ReembedAll(s)
  PROVE  MigrationInv'
<1>1. UNCHANGED <<tag, tooLong>>
  BY DEF ReembedAll
<1>2. PICK o \in ServerStates : o = server[s]
  BY StateOf
<1>3. "ready" \in Spots \ Locked
  BY DEF Spots, Locked
<1>4. CASE IndexAll(s) /\ Leaves(s, [server[s] EXCEPT !.todo = {}, !.gone = {}], "ready")
  <2>1. PICK W : vecs' = [n \in Pages |-> W[n]]
                 /\ \A n \in Pages : W[n] \in {vecs[n], Unset} \/ Honest(s, W[n])
    BY <1>4, AllAreHonest
  <2>2. PICK r \in ServerStates : r = [o EXCEPT !.todo = {}, !.gone = {}]
    BY DEF ServerStates
  <2>3. r.engine = server[s].engine /\ Leaves(s, r, "ready")
    BY <1>2, <1>4, <2>2 DEF ServerStates
  <2> QED BY <1>1, <1>3, <2>1, <2>3, LeavesSafely
<1>5. CASE UNCHANGED vecs /\ Leaves(s, [server[s] EXCEPT !.vec = FALSE], "ready")
  <2>1. PICK r \in ServerStates : r = [o EXCEPT !.vec = FALSE]
    BY DEF ServerStates
  <2>2. r.engine = server[s].engine /\ Leaves(s, r, "ready")
    BY <1>2, <1>5, <2>1 DEF ServerStates
  <2> QED BY <1>1, <1>3, <1>5, <2>2, LeavesPlainly
<1>6. CASE UNCHANGED vecs /\ Leaves(s, server[s], "ready")
  BY <1>1, <1>3, <1>6, StateOf, LeavesPlainly
<1> QED BY <1>4, <1>5, <1>6 DEF ReembedAll

LEMMA DropVectorsKeepsName ==
  ASSUME MigrationInv, NEW s \in Processes, DropVectors(s)
  PROVE  MigrationInv'
<1>1. server[s].at \in {"diff", "repair"} /\ UNCHANGED <<tag, rebuild, tooLong>>
  BY DEF DropVectors
<1>2. PICK o \in ServerStates : o = server[s]
  BY StateOf
<1>3. PICK r \in ServerStates : r = [o EXCEPT !.gone = {}]
  BY DEF ServerStates
<1>4. r.at = server[s].at /\ r.engine = server[s].engine /\ r.guarded = server[s].guarded
  BY <1>2, <1>3 DEF ServerStates
<1>5. server' = [server EXCEPT ![s] = r]
  BY <1>2, <1>3 DEF DropVectors
<1>6. LockGuards' /\ rebuild' \in Processes \cup {"free", "orphan"}
  BY <1>1, <1>4, <1>5, LockStays, StateOf
<1>7. \E W : vecs' = [n \in Pages |-> W[n]] /\ \A n \in Pages : W[n] \in {vecs[n], Unset}
  <2>1. CASE server[s].vec
    <3> DEFINE W == [n \in Pages |-> IF n \in server[s].gone THEN Unset ELSE vecs[n]]
    <3>1. vecs' = W
      BY <2>1 DEF DropVectors
    <3>2. vecs' = [n \in Pages |-> W[n]] /\ \A n \in Pages : W[n] \in {vecs[n], Unset}
      BY <3>1
    <3> HIDE DEF W
    <3> QED BY <3>2
  <2>2. CASE ~server[s].vec
    <3>1. PICK W : W = vecs
      OBVIOUS
    <3>2. vecs' = [n \in Pages |-> W[n]]
      BY <2>2, <3>1, SameVectors DEF DropVectors
    <3> QED BY <3>1, <3>2
  <2> QED BY <2>1, <2>2
<1>8. PICK W : vecs' = [n \in Pages |-> W[n]] /\ \A n \in Pages : W[n] \in {vecs[n], Unset}
  BY <1>7
<1>9. \A n \in Pages : W[n] \in {vecs[n], Unset} \/ Honest(s, W[n])
  BY <1>8
<1>10. r.at # "name" /\ r.at \notin {"boot all", "boot name"}
  BY <1>1, <1>4
<1>11. tooLong' \in BOOLEAN /\ (tooLong => tooLong')
  BY <1>1, StateOf
<1> QED BY <1>1, <1>4, <1>5, <1>6, <1>8, <1>9, <1>10, <1>11, NameStays

(* A vector of s goes where one was, or nothing changes.                     *)
LEMMA OneIsHonest ==
  ASSUME MigrationInv, NEW s \in Processes, NEW n \in Pages,
         \/ vecs' = [vecs EXCEPT ![n] = Vector(s)]
         \/ vecs' = [vecs EXCEPT ![n] = Unset]
         \/ UNCHANGED vecs
  PROVE  \E W : vecs' = [m \in Pages |-> W[m]]
                /\ \A m \in Pages : W[m] \in {vecs[m], Unset} \/ Honest(s, W[m])
<1>1. PICK v : v = Vector(s) /\ Honest(s, v)
  BY VectorIsHonest
<1>2. PICK V : V = vecs
  OBVIOUS
<1>3. V = [m \in Pages |-> V[m]]
  BY <1>2 DEF MigrationInv, MigrationTypeOK
<1>4. ASSUME NEW x, vecs' = [vecs EXCEPT ![n] = x], x = Unset \/ Honest(s, x)
      PROVE  \E W : vecs' = [m \in Pages |-> W[m]]
                    /\ \A m \in Pages : W[m] \in {vecs[m], Unset} \/ Honest(s, W[m])
  <2> DEFINE W == [m \in Pages |-> IF m = n THEN x ELSE V[m]]
  <2>1. vecs' = [m \in Pages |-> W[m]]
    BY <1>2, <1>3, <1>4
  <2>2. \A m \in Pages : W[m] \in {vecs[m], Unset} \/ Honest(s, W[m])
    BY <1>2, <1>4
  <2> HIDE DEF W
  <2> QED BY <2>1, <2>2
<1>5. CASE UNCHANGED vecs
  <2>1. vecs' = [m \in Pages |-> V[m]] /\ \A m \in Pages : V[m] \in {vecs[m], Unset}
    BY <1>2, <1>3, <1>5
  <2> HIDE <1>2
  <2> QED BY <2>1
<1> QED BY <1>1, <1>4, <1>5

LEMMA IndexOneKeepsName ==
  ASSUME MigrationInv, NEW s \in Processes, NEW n \in Pages, IndexOne(s, n)
  PROVE  MigrationInv'
<1>1. server[s].at \in {"diff", "repair"} /\ UNCHANGED <<tag, tooLong>>
  BY DEF IndexOne
<1>2. PICK o \in ServerStates : o = server[s]
  BY StateOf
<1>3. CASE Leaves(s, [server[s] EXCEPT !.todo = {}], "ready") /\ UNCHANGED vecs
  <2>1. "ready" \in Spots \ Locked
    BY DEF Spots, Locked
  <2>2. PICK r \in ServerStates : r = [o EXCEPT !.todo = {}]
    BY DEF ServerStates
  <2>3. r.engine = server[s].engine /\ Leaves(s, r, "ready")
    BY <1>2, <1>3, <2>2 DEF ServerStates
  <2> QED BY <1>1, <1>3, <2>1, <2>3, LeavesPlainly
<1>4. CASE /\ server' = [server EXCEPT ![s].todo = @ \ {n}]
           /\ vecs' = IF server[s].vec /\ n \in pages THEN [vecs EXCEPT ![n] = Vector(s)] ELSE vecs
           /\ UNCHANGED rebuild
  <2>1. PICK r \in ServerStates : r = [o EXCEPT !.todo = o.todo \ {n}]
    BY DEF ServerStates
  <2>2. r.at = server[s].at /\ r.engine = server[s].engine /\ r.guarded = server[s].guarded
    BY <1>2, <2>1 DEF ServerStates
  <2>3. server' = [server EXCEPT ![s] = r]
    BY <1>2, <1>4, <2>1
  <2>4. LockGuards' /\ rebuild' \in Processes \cup {"free", "orphan"}
    BY <1>1, <1>4, <2>2, <2>3, LockStays, StateOf
  <2>5. vecs' = [vecs EXCEPT ![n] = Vector(s)] \/ UNCHANGED vecs
    BY <1>4
  <2>6. PICK W : vecs' = [m \in Pages |-> W[m]]
                 /\ \A m \in Pages : W[m] \in {vecs[m], Unset} \/ Honest(s, W[m])
    BY <2>5, OneIsHonest
  <2>7. r.at # "name" /\ r.at \notin {"boot all", "boot name"}
    BY <1>1, <2>2
  <2>8. tooLong' \in BOOLEAN /\ (tooLong => tooLong')
    BY <1>1, StateOf
  <2> QED BY <1>1, <2>2, <2>3, <2>4, <2>6, <2>7, <2>8, NameStays
<1> QED BY <1>3, <1>4 DEF IndexOne

LEMMA DiffKeepsName ==
  ASSUME MigrationInv, pages \in SUBSET Pages,
         NEW s \in Processes, EndDiff(s) \/ EndRepair(s) \/ ListRepairs(s)
  PROVE  MigrationInv'
<1>1. server[s].at \in {"diff", "repair"} /\ UNCHANGED <<vecs, tag, tooLong>>
  BY DEF EndDiff, EndRepair, ListRepairs
<1>2. CASE EndDiff(s) \/ EndRepair(s)
  <2>1. PICK spot \in {"for repair", "ready"} : Leaves(s, server[s], spot)
    BY <1>2 DEF EndDiff, EndRepair
  <2>2. spot \in Spots \ Locked
    BY <2>1 DEF Spots, Waits, Locked
  <2> QED BY <1>1, <2>1, <2>2, StateOf, LeavesPlainly
<1>3. CASE ListRepairs(s)
  <2>1. PICK o \in ServerStates : o = server[s]
    BY StateOf
  <2>2. Unembedded(pages) \in SUBSET Pages /\ Orphans \in SUBSET Pages
    BY DEF Unembedded, Orphans
  <2>3. PICK T \in SUBSET Pages, G \in SUBSET Pages :
            server' = [server EXCEPT ![s].todo = T, ![s].gone = G]
    BY <1>3, <2>2 DEF ListRepairs
  <2>4. PICK r \in ServerStates : r = [o EXCEPT !.todo = T, !.gone = G]
    BY DEF ServerStates
  <2>5. r.at = server[s].at /\ r.engine = server[s].engine /\ r.guarded = server[s].guarded
    BY <2>1, <2>4 DEF ServerStates
  <2>6. server' = [server EXCEPT ![s] = r] /\ UNCHANGED rebuild
    BY <1>3, <2>1, <2>3, <2>4 DEF ListRepairs
  <2>7. LockGuards' /\ rebuild' \in Processes \cup {"free", "orphan"}
    BY <1>1, <2>5, <2>6, LockStays, StateOf
  <2>8. r.at # "name" /\ r.at \notin {"boot all", "boot name"}
    BY <1>1, <2>5
  <2> QED BY <1>1, <2>5, <2>6, <2>7, <2>8, PlainServerStep, StateOf
<1> QED BY <1>2, <1>3

(* What a ready server stores or drops is not under the lock.                *)
LEMMA PagesKeepName ==
  ASSUME MigrationInv, NEW s \in Processes, NEW n \in Pages, WritePage(s, n) \/ DropPage(s, n)
  PROVE  MigrationInv'
<1>1. server[s].at = "ready" /\ UNCHANGED <<tag, rebuild, server, tooLong>>
  BY DEF WritePage, DropPage
<1>2. \/ vecs' = [vecs EXCEPT ![n] = Vector(s)]
      \/ vecs' = [vecs EXCEPT ![n] = Unset]
      \/ UNCHANGED vecs
  BY DEF WritePage, DropPage
<1>3. PICK W : vecs' = [m \in Pages |-> W[m]]
               /\ \A m \in Pages : W[m] \in {vecs[m], Unset} \/ Honest(s, W[m])
  BY <1>2, OneIsHonest
<1>4. PICK r \in ServerStates : r = server[s]
  BY StateOf
<1>5. server' = [server EXCEPT ![s] = r]
  BY <1>1, <1>4 DEF MigrationInv, MigrationTypeOK
<1>6. LockGuards' /\ rebuild' \in Processes \cup {"free", "orphan"}
  BY <1>1 DEF MigrationInv, MigrationTypeOK, LockGuards
<1>7. tooLong' \in BOOLEAN /\ (tooLong => tooLong')
  BY <1>1, StateOf
<1>8. r.engine = server[s].engine /\ r.at = "ready"
  BY <1>1, <1>4
<1> QED BY <1>1, <1>3, <1>5, <1>6, <1>7, <1>8, NameStays

LEMMA DecideKeepsName ==
  ASSUME MigrationInv, NEW s \in Processes, Decide(s)
  PROVE  MigrationInv'
<1>1. server[s].at = "decide" /\ UNCHANGED <<vecs, tag, rebuild, tooLong>>
  BY DEF Decide
<1>2. PICK spot \in {"for boot", "for change", "for diff"} : Steps(s, spot)
  BY DEF Decide
<1>3. spot \in Spots /\ spot \notin Locked /\ server[s].at \notin Locked
  BY <1>1, <1>2 DEF Spots, Waits, Locked
<1> QED BY <1>1, <1>2, <1>3, GoesOn

LEMMA QueryKeepsName ==
  ASSUME MigrationInv, NEW s \in Processes, Query(s)
  PROVE  MigrationInv'
<1>1. server[s].at = "ready" /\ UNCHANGED <<vecs, tag, rebuild, tooLong>>
  BY DEF Query
<1>2. PICK o \in ServerStates : o = server[s]
  BY StateOf
<1>3. PICK r \in ServerStates : r = [o EXCEPT !.vec = FALSE]
  BY DEF ServerStates
<1>4. r.at = "ready" /\ r.engine = server[s].engine /\ r.guarded = server[s].guarded
  BY <1>1, <1>2, <1>3 DEF ServerStates
<1>5. server' = [server EXCEPT ![s] = r]
  BY <1>2, <1>3 DEF Query
<1>6. LockGuards' /\ rebuild' \in Processes \cup {"free", "orphan"}
  BY <1>1, <1>4, <1>5, LockStays, StateOf
<1> QED BY <1>1, <1>4, <1>5, <1>6, PlainServerStep, StateOf

(* The next engine of a process that ended is the default's until it starts. *)
LEMMA EndServerKeepsName ==
  ASSUME MigrationInv, NEW s \in Processes, EndServer(s)
  PROVE  MigrationInv'
<1>1. UNCHANGED <<vecs, tag, tooLong>> /\ server' = [server EXCEPT ![s] = NoServer]
      /\ rebuild' = IF server[s].guarded THEN "orphan" ELSE rebuild
  BY DEF EndServer
<1>2. PICK r \in ServerStates : r = NoServer
  BY NoServerIsState
<1>3. r.at = "off" /\ r.guarded = FALSE /\ r.engine = DefaultModel
  BY <1>2 DEF NoServer
<1>4. LockGuards' /\ rebuild' \in Processes \cup {"free", "orphan"}
  BY <1>1, <1>2, <1>3, LockIsLeft DEF Locked
<1>5. server'[s] = r /\ \A q \in Processes \ {s} : server'[q] = server[q]
  BY <1>1, <1>2 DEF MigrationInv, MigrationTypeOK
<1>6. MigrationTypeOK'
  BY <1>1, <1>2, <1>4 DEF MigrationInv, MigrationTypeOK
<1>7. NamelessIsDefault' /\ BootIsFirst' /\ NothingHeldBeforeTheName'
  BY <1>1, <1>3, <1>5 DEF MigrationInv, NamelessIsDefault, BootIsFirst, NothingHeldBeforeTheName
<1>8. HeldIsNamed'
  BY <1>1 DEF MigrationInv, HeldIsNamed, Registered
<1> QED BY <1>4, <1>6, <1>7, <1>8 DEF MigrationInv

LEMMA BreakKeepsName == MigrationInv /\ BreakRebuild => MigrationInv'
<1> SUFFICES ASSUME MigrationInv, BreakRebuild PROVE MigrationInv'
  OBVIOUS
<1>1. \A s \in Processes : s # "free" /\ s # "orphan"
  BY DefaultIsKnown
<1> QED BY <1>1 DEF BreakRebuild, MigrationInv, MigrationTypeOK, LockGuards, NamelessIsDefault, BootIsFirst,
           NothingHeldBeforeTheName, HeldIsNamed, Registered

PagesInVault == pages \in SUBSET Pages

LEMMA PagesStayInVault == MigrationInv /\ PagesInVault /\ [MigrationNext]_mvars => PagesInVault'
<1> SUFFICES ASSUME MigrationInv, pages \in SUBSET Pages, [MigrationNext]_mvars
             PROVE  pages' \in SUBSET Pages
  BY DEF PagesInVault
<1>1. ASSUME NEW s \in Processes, NEW P \in SUBSET Pages, SyncPages(s, P)
      PROVE  pages' \in SUBSET Pages
  BY <1>1 DEF SyncPages
<1>2. ASSUME NEW s \in Processes, NEW n \in Pages, WritePage(s, n) \/ DropPage(s, n)
      PROVE  pages' \in SUBSET Pages
  BY <1>2 DEF WritePage, DropPage
<1> QED BY <1>1, <1>2 DEF MigrationNext, mvars, BreakRebuild, StartServer, IndexOne, Decide, TakeRebuild,
           Boot, BootIndexes, BootRegisters, Change, Recreate, NameModel, ReembedAll, DropVectors,
           EndDiff, ListRepairs, EndRepair, Query, EndServer

LEMMA MigrationInvKept == MigrationInv /\ PagesInVault /\ [MigrationNext]_mvars => MigrationInv'
<1> SUFFICES ASSUME MigrationInv, pages \in SUBSET Pages, [MigrationNext]_mvars PROVE MigrationInv'
  BY DEF PagesInVault
<1>1. ASSUME NEW s \in Processes,
             \/ Boot(s) \/ BootIndexes(s) \/ BootRegisters(s) \/ Change(s) \/ Recreate(s)
             \/ NameModel(s) \/ ReembedAll(s)
      PROVE  MigrationInv'
  BY <1>1, BootKeepsName, BootIndexesKeepsName, BootRegistersKeepsName, ChangeKeepsName,
     RecreateKeepsName, NameModelKeepsName, ReembedKeepsName
<1>2. ASSUME NEW s \in Processes,
             \/ Decide(s) \/ TakeRebuild(s) \/ DropVectors(s) \/ EndDiff(s) \/ ListRepairs(s)
             \/ EndRepair(s) \/ Query(s) \/ EndServer(s)
      PROVE  MigrationInv'
  BY <1>2, DecideKeepsName, TakeRebuildKeepsName, DropVectorsKeepsName, DiffKeepsName,
     QueryKeepsName, EndServerKeepsName
<1>3. CASE UNCHANGED mvars
  BY <1>3 DEF mvars, MigrationInv, MigrationTypeOK, LockGuards, NamelessIsDefault, BootIsFirst,
              NothingHeldBeforeTheName, HeldIsNamed, Registered
<1> QED BY <1>1, <1>2, <1>3, BreakKeepsName, StartKeepsName, SyncKeepsName, IndexOneKeepsName,
           PagesKeepName DEF MigrationNext

(* Whatever models are asked for, and wherever a change of the model is cut  *)
(* off, the vectors a process stored under the lock with the database's      *)
(* model are of the model the database names, until a waiter goes on without *)
(* the lock.                                                                 *)
THEOREM TagIsHonestAlways == MigrationSpec => []TagIsHonest
<1>1. MigrationInv => TagIsHonest
  <2> SUFFICES ASSUME MigrationInv, ~tooLong, NEW n \in Pages,
                      vecs[n] # Unset /\ vecs[n].held /\ ~vecs[n].late
               PROVE  vecs[n].model = Registered
    BY DEF TagIsHonest
  <2>1. vecs[n] \in VectorRecords
    BY DEF MigrationInv, MigrationTypeOK
  <2>2. vecs[n].held = TRUE /\ vecs[n].late = FALSE
    BY <2>1 DEF VectorRecords
  <2> QED BY <2>2 DEF MigrationInv, HeldIsNamed
<1>2. MigrationInit => PagesInVault
  BY DEF MigrationInit, PagesInVault
<1> QED BY <1>1, <1>2, MigrationInitially, MigrationInvKept, PagesStayInVault, PTL DEF MigrationSpec

-----------------------------------------------------------------------------
(* The vault and its Git remote.  One sync at a time is past the lock; what  *)
(* it half-finishes is there only at the two places that clean it up; and    *)
(* what is in a tree that a sync may put back came after the sync's pull, so *)
(* it counts among the edits that go.                                        *)

SyncSpots == {"away", "lock", "guard", "add", "branch", "pull", "failed", "popped", "push", "end"}
Stages == {"", "conflict", "pull", "push"}
SyncStates == [at : SyncSpots, stage : Stages, first : BOOLEAN, came : SUBSET Ours]

GitTypeOK ==
    /\ sync \in [Windows -> SyncStates]
    /\ half \in {"none"} \cup Owners \cup Left
    /\ late \in BOOLEAN /\ marker \in BOOLEAN

InSync(w) == sync[w].at \notin {"away", "lock"}
Committing == {"add", "branch", "pull", "failed", "popped", "push"}

OneSyncs ==
    \A w \in Windows : InSync(w) => lock = "held" /\ \A v \in Windows : InSync(v) => v = w

(* Where a sync's own unfinished work is.                                    *)
LeftIsAtHand ==
    /\ half = "pulling" => \E w \in Windows : sync[w].at = "failed"
    /\ half = "unmerged" => \E w \in Windows : sync[w].at = "popped"

AsideInRebase == auto # {} => half \in {"rebase", "pulling"}

(* The owner's work that the guard can see: a sync meets it past its guard    *)
(* only when it began after the guard.                                       *)
OwnersSeen == {"rebase", "merge"}

OwnerIsLate == half \in OwnersSeen /\ (\E w \in Windows : sync[w].at \in Committing) => late

PutBackIsHot == half \in Left \/ (half = "rebase" /\ late) => work \subseteq hot

(* What the commit was to carry it carries, or it is counted as missed.      *)
CameIsAccounted ==
    \A w \in Windows :
        /\ sync[w].at \in Committing \ {"add"} => sync[w].came \subseteq head \cup missed
        /\ sync[w].at = "end" /\ sync[w].stage = "" => sync[w].came \subseteq remote \cup missed

Kept == made \subseteq work \cup auto \cup head \cup stash \cup hot

GitInv ==
    /\ GitTypeOK /\ OneSyncs /\ LeftIsAtHand /\ AsideInRebase /\ OwnerIsLate /\ PutBackIsHot
    /\ CameIsAccounted /\ Kept /\ SilentMeansPushed


GoneTo(r, spot) == [r EXCEPT !.at = spot]
Failed(r, stage) == [r EXCEPT !.at = "end", !.stage = stage]

LEMMA GoneIsState ==
  ASSUME NEW r \in SyncStates, NEW spot \in SyncSpots
  PROVE  /\ GoneTo(r, spot) \in SyncStates /\ GoneTo(r, spot).at = spot /\ GoneTo(r, spot).stage = r.stage
         /\ GoneTo(r, spot).came = r.came
  BY DEF GoneTo, SyncStates

LEMMA FailedIsState ==
  ASSUME NEW r \in SyncStates, NEW stage \in Stages
  PROVE  /\ Failed(r, stage) \in SyncStates /\ Failed(r, stage).at = "end"
         /\ Failed(r, stage).stage = stage /\ Failed(r, stage).came = r.came
  BY DEF Failed, SyncStates, SyncSpots

LEMMA AwayIsState == Away \in SyncStates /\ Away.at = "away"
  BY DEF Away, SyncStates, SyncSpots, Stages

(* How one process' step shows.                                              *)
LEMMA GoesShows ==
  ASSUME GitTypeOK, NEW w \in Windows, NEW spot \in SyncSpots, Goes(w, spot)
  PROVE  \E r \in SyncStates : /\ sync' = [sync EXCEPT ![w] = r] /\ r.at = spot
                               /\ r.stage = sync[w].stage /\ r.came = sync[w].came
<1>1. PICK o \in SyncStates : o = sync[w]
  BY DEF GitTypeOK
<1>2. PICK r \in SyncStates : r = GoneTo(o, spot)
  BY GoneIsState
<1>3. r.at = spot /\ r.stage = o.stage /\ r.came = o.came
  BY <1>2, GoneIsState
<1>4. sync' = [sync EXCEPT ![w] = r]
  BY <1>1, <1>2 DEF Goes, GoneTo
<1> QED BY <1>1, <1>3, <1>4

LEMMA FailsShows ==
  ASSUME GitTypeOK, NEW w \in Windows, NEW stage \in Stages \ {""}, Fails(w, stage)
  PROVE  \E r \in SyncStates : /\ sync' = [sync EXCEPT ![w] = r] /\ r.at = "end"
                               /\ r.stage # "" /\ r.came = sync[w].came
<1>1. PICK o \in SyncStates : o = sync[w]
  BY DEF GitTypeOK
<1>2. PICK r \in SyncStates : r = Failed(o, stage)
  BY FailedIsState
<1>3. r.at = "end" /\ r.stage = stage /\ r.came = o.came
  BY <1>2, FailedIsState
<1>4. sync' = [sync EXCEPT ![w] = r]
  BY <1>1, <1>2 DEF Fails, Failed
<1> QED BY <1>1, <1>3, <1>4

(* While a sync is past the lock the others are not.                         *)
LEMMA OthersAreOutside ==
  ASSUME GitInv, NEW w \in Windows, InSync(w)
  PROVE  /\ \A v \in Windows \ {w} : sync[v].at \in {"away", "lock"}
         /\ lock = "held"
  BY DEF GitInv, OneSyncs, InSync

(* What a step of the sync under way has to keep.                            *)
LEMMA SyncMoves ==
  ASSUME GitInv, NEW w \in Windows, InSync(w), NEW r \in SyncStates,
         sync' = [sync EXCEPT ![w] = r], r.at \notin {"away", "lock"}, UNCHANGED lock,
         half' \in {"none"} \cup Owners \cup Left, UNCHANGED <<late, marker>>,
         half' = "pulling" => r.at = "failed", half' = "unmerged" => r.at = "popped",
         auto' # {} => half' \in {"rebase", "pulling"},
         half' \in OwnersSeen /\ r.at \in Committing => late,
         half' \in Left \/ (half' = "rebase" /\ late) => work' \subseteq hot',
         r.at \in Committing \ {"add"} => r.came \subseteq head' \cup missed',
         r.at = "end" /\ r.stage = "" => r.came \subseteq remote' \cup missed',
         Kept'
  PROVE  GitInv'
<1>1. sync'[w] = r /\ \A v \in Windows \ {w} : sync'[v] = sync[v]
  BY DEF GitInv, GitTypeOK
<1>2. \A v \in Windows \ {w} : sync'[v].at \in {"away", "lock"}
  BY <1>1, OthersAreOutside
<1>3. GitTypeOK'
  BY DEF GitInv, GitTypeOK
<1>4. OneSyncs'
  BY <1>1, <1>2, OthersAreOutside DEF OneSyncs, InSync
<1>5. LeftIsAtHand'
  BY <1>1 DEF LeftIsAtHand
<1>6. OwnerIsLate'
  BY <1>1, <1>2 DEF OwnerIsLate, Committing
<1>7. CameIsAccounted'
  <2> SUFFICES ASSUME NEW v \in Windows
               PROVE  /\ sync'[v].at \in Committing \ {"add"} => sync'[v].came \subseteq head' \cup missed'
                      /\ sync'[v].at = "end" /\ sync'[v].stage = "" =>
                            sync'[v].came \subseteq remote' \cup missed'
    BY DEF CameIsAccounted
  <2>1. CASE v = w
    BY <1>1, <2>1
  <2>2. CASE v # w
    BY <1>2, <2>2 DEF Committing
  <2> QED BY <2>1, <2>2
<1>8. AsideInRebase' /\ PutBackIsHot'
  BY DEF AsideInRebase, PutBackIsHot
<1>9. SilentMeansPushed'
  BY <1>1 DEF SilentMeansPushed, Running
<1> QED BY <1>3, <1>4, <1>5, <1>6, <1>7, <1>8, <1>9 DEF GitInv

LEMMA GitStarts == GitInit => GitInv
<1> SUFFICES ASSUME GitInit PROVE GitInv
  OBVIOUS
<1>1. GitTypeOK
  BY AwayIsState DEF GitInit, GitTypeOK
<1>2. \A w \in Windows : sync[w].at = "away"
  BY AwayIsState DEF GitInit
<1> QED BY <1>1, <1>2 DEF GitInit, GitInv, OneSyncs, InSync, LeftIsAtHand, AsideInRebase, OwnerIsLate,
       PutBackIsHot, CameIsAccounted, Kept, SilentMeansPushed, Committing, Left, Owners

LEMMA GuardKeeps ==
  ASSUME GitInv, NEW w \in Windows, Guard(w)
  PROVE  GitInv'
<1>1. sync[w].at = "guard" /\ InSync(w)
      /\ UNCHANGED <<work, auto, head, stash, remote, half, lock, marker, late, made, hot, missed, due>>
  BY DEF Guard, InSync
<1>2. \A v \in Windows : sync[v].at \notin {"failed", "popped"}
  BY <1>1, OthersAreOutside
<1>3. half \notin Left
  BY <1>2 DEF GitInv, LeftIsAtHand, Left
<1>4. CASE RebaseInProgress \/ Unmerged
  <2>1. "conflict" \in Stages \ {""} /\ Fails(w, "conflict")
    BY <1>4 DEF Guard, Stages
  <2>2. PICK r \in SyncStates : /\ sync' = [sync EXCEPT ![w] = r] /\ r.at = "end"
                                /\ r.stage # "" /\ r.came = sync[w].came
    BY <2>1, FailsShows DEF GitInv
  <2> QED BY <1>1, <1>3, <2>2, SyncMoves
          DEF GitInv, GitTypeOK, AsideInRebase, PutBackIsHot, Kept, Committing, Left, OwnersSeen
<1>5. CASE ~(RebaseInProgress \/ Unmerged)
  <2>1. "add" \in SyncSpots /\ Goes(w, "add") /\ half \in {"none", "staged"}
    BY <1>3, <1>5 DEF Guard, SyncSpots, RebaseInProgress, Unmerged, GitInv, GitTypeOK, Owners, Left
  <2>2. PICK r \in SyncStates : /\ sync' = [sync EXCEPT ![w] = r] /\ r.at = "add"
                                /\ r.stage = sync[w].stage /\ r.came = sync[w].came
    BY <2>1, GoesShows DEF GitInv
  <2> QED BY <1>1, <2>1, <2>2, SyncMoves
          DEF GitInv, GitTypeOK, AsideInRebase, PutBackIsHot, Kept, Committing, Left, Owners, OwnersSeen
<1> QED BY <1>4, <1>5


(* Past the guard, the facts a step of the sync may use.                     *)
LEMMA AtWork ==
  ASSUME GitInv, NEW w \in Windows, sync[w].at \in Committing
  PROVE  /\ InSync(w)
         /\ half \in OwnersSeen => late
         /\ half = "pulling" => sync[w].at = "failed"
         /\ half = "unmerged" => sync[w].at = "popped"
<1>1. InSync(w)
  BY DEF InSync, Committing
<1>2. \A v \in Windows \ {w} : sync[v].at \in {"away", "lock"}
  BY <1>1, OthersAreOutside
<1> QED BY <1>1, <1>2 DEF GitInv, OwnerIsLate, LeftIsAtHand

LEMMA AddAndCommitKeeps ==
  ASSUME GitInv, NEW w \in Windows, AddAndCommit(w)
  PROVE  GitInv'
<1>1. /\ sync[w].at = "add" /\ Goes(w, "branch") /\ missed' = sync[w].came \ head'
      /\ UNCHANGED <<auto, stash, remote, lock, marker, late, made, due>>
  BY DEF AddAndCommit
<1>2. sync[w].at \in Committing /\ "branch" \in SyncSpots
  BY <1>1 DEF Committing, SyncSpots
<1>3. InSync(w) /\ (half \in OwnersSeen => late) /\ half \in {"none"} \cup Owners
  BY <1>1, <1>2, AtWork DEF GitInv, GitTypeOK, Left
<1>4. PICK r \in SyncStates : /\ sync' = [sync EXCEPT ![w] = r] /\ r.at = "branch"
                              /\ r.stage = sync[w].stage /\ r.came = sync[w].came
  BY <1>1, <1>2, GoesShows DEF GitInv
<1>5. half' \in {"none"} \cup Owners /\ half' \in {half, "none", "staged"}
      /\ (half = "rebase" => half' = half)
  BY <1>3 DEF AddAndCommit, Owners
<1>6. half = "rebase" /\ late => work \subseteq hot
  BY DEF GitInv, PutBackIsHot
<1>7. half' = "rebase" /\ late => work' \subseteq hot'
  BY <1>5, <1>6 DEF AddAndCommit
<1>8. work \cup head \cup hot = work' \cup head' \cup hot'
  BY DEF AddAndCommit
<1>9. Kept'
  BY <1>1, <1>8 DEF GitInv, Kept
<1>10. r.came \subseteq head' \cup missed'
  BY <1>1, <1>4
<1>11. auto' # {} => half' = "rebase"
  BY <1>1, <1>3, <1>5 DEF GitInv, AsideInRebase, Owners
<1> QED BY <1>1, <1>3, <1>4, <1>5, <1>7, <1>9, <1>10, <1>11, SyncMoves
        DEF Owners, Left, OwnersSeen

Branched(r, first, spot) == [r EXCEPT !.first = first, !.at = spot]

LEMMA BranchedIsState ==
  ASSUME NEW r \in SyncStates, NEW first \in BOOLEAN, NEW spot \in SyncSpots
  PROVE  /\ Branched(r, first, spot) \in SyncStates /\ Branched(r, first, spot).at = spot
         /\ Branched(r, first, spot).stage = r.stage /\ Branched(r, first, spot).came = r.came
  BY DEF Branched, SyncStates

LEMMA FindBranchKeeps ==
  ASSUME GitInv, NEW w \in Windows, FindBranch(w)
  PROVE  GitInv'
<1>1. /\ sync[w].at = "branch" /\ sync[w].at \in Committing
      /\ UNCHANGED <<work, auto, head, stash, remote, half, lock, marker, late, made, hot, missed, due>>
  BY DEF FindBranch, Committing
<1>2. InSync(w) /\ (half \in OwnersSeen => late) /\ half \notin Left
  BY <1>1, AtWork DEF Left
<1>3. PICK first \in BOOLEAN :
          sync' = [sync EXCEPT ![w].first = first, ![w].at = IF first THEN "push" ELSE "pull"]
  <2>1. \A b \in BOOLEAN : (half # "rebase" /\ ~tracked /\ b /\ remote = {}) \in BOOLEAN
    OBVIOUS
  <2> QED BY <2>1 DEF FindBranch
<1>4. PICK o \in SyncStates : o = sync[w]
  BY DEF GitInv, GitTypeOK
<1>5. PICK spot \in {"push", "pull"} : spot = IF first THEN "push" ELSE "pull"
  OBVIOUS
<1>6. spot \in SyncSpots
  BY <1>5 DEF SyncSpots
<1>7. PICK r \in SyncStates : r = Branched(o, first, spot)
  BY <1>6, BranchedIsState
<1>8. r.at = spot /\ r.came = sync[w].came
  BY <1>4, <1>6, <1>7, BranchedIsState
<1>9. sync' = [sync EXCEPT ![w] = r]
  BY <1>3, <1>4, <1>5, <1>7 DEF Branched
<1>10. sync[w].came \subseteq head \cup missed
  BY <1>1 DEF GitInv, CameIsAccounted, Committing
<1> QED BY <1>1, <1>2, <1>5, <1>8, <1>9, <1>10, SyncMoves
        DEF GitInv, GitTypeOK, AsideInRebase, PutBackIsHot, Kept, Left

LEMMA PullKeeps ==
  ASSUME GitInv, NEW w \in Windows, Pull(w)
  PROVE  GitInv'
<1>1. /\ sync[w].at = "pull" /\ sync[w].at \in Committing
      /\ UNCHANGED <<remote, lock, marker, late, made, hot, missed, due>>
  BY DEF Pull, Committing
<1>2. InSync(w) /\ (half \in OwnersSeen => late) /\ half \notin Left
  BY <1>1, AtWork DEF Left
<1>3. sync[w].came \subseteq head \cup missed
  BY <1>1 DEF GitInv, CameIsAccounted, Committing
<1>4. "failed" \in SyncSpots /\ "popped" \in SyncSpots
  BY DEF SyncSpots
<1>5. half = "none" => auto = {}
  BY DEF GitInv, AsideInRebase
<1>6. CASE PullFails(w)
  <2>1. UNCHANGED <<work, auto, head, stash, half>> /\ Goes(w, "failed")
    BY <1>6 DEF PullFails
  <2>2. PICK r \in SyncStates : /\ sync' = [sync EXCEPT ![w] = r] /\ r.at = "failed"
                                /\ r.stage = sync[w].stage /\ r.came = sync[w].came
    BY <1>4, <2>1, GoesShows DEF GitInv
  <2> QED BY <1>1, <1>2, <1>3, <2>1, <2>2, SyncMoves
          DEF GitInv, GitTypeOK, AsideInRebase, PutBackIsHot, Kept, Left
<1>7. CASE PullStops(w)
  <2>1. /\ half = "none" /\ half' = "pulling" /\ auto' = work /\ work' = {}
        /\ UNCHANGED <<head, stash>> /\ Goes(w, "failed")
    BY <1>7 DEF PullStops
  <2>2. PICK r \in SyncStates : /\ sync' = [sync EXCEPT ![w] = r] /\ r.at = "failed"
                                /\ r.stage = sync[w].stage /\ r.came = sync[w].came
    BY <1>4, <2>1, GoesShows DEF GitInv
  <2>3. Kept'
    BY <1>1, <1>5, <2>1 DEF GitInv, Kept
  <2> QED BY <1>1, <1>2, <1>3, <2>1, <2>2, <2>3, SyncMoves DEF Left, Owners, OwnersSeen
<1>8. CASE PullRebases(w)
  <2>1. half = "none" /\ head' = head \cup remote /\ auto' = auto /\ Goes(w, "popped")
    BY <1>8 DEF PullRebases
  <2>2. PICK r \in SyncStates : /\ sync' = [sync EXCEPT ![w] = r] /\ r.at = "popped"
                                /\ r.stage = sync[w].stage /\ r.came = sync[w].came
    BY <1>4, <2>1, GoesShows DEF GitInv
  <2>3. \/ half' = "unmerged" /\ stash' = stash \cup work /\ work' = {}
        \/ UNCHANGED <<half, stash, work>>
    BY <1>8 DEF PullRebases
  <2>4. Kept'
    BY <1>1, <2>1, <2>3 DEF GitInv, Kept
  <2>5. auto' = {} /\ half' \in {"none", "unmerged"} /\ (half' = "unmerged" => work' = {})
    BY <1>5, <2>1, <2>3
  <2> QED BY <1>1, <1>2, <1>3, <2>1, <2>2, <2>4, <2>5, SyncMoves DEF Left, Owners, OwnersSeen
<1> QED BY <1>6, <1>7, <1>8 DEF Pull

(* The tree an abort puts back has only what counts among the edits that go. *)
LEMMA AbortRebaseKeeps ==
  ASSUME GitInv, NEW w \in Windows, AbortRebase(w)
  PROVE  GitInv'
<1>1. /\ sync[w].at = "failed" /\ sync[w].at \in Committing
      /\ UNCHANGED <<head, stash, remote, lock, marker, late, made, hot, missed, due>>
  BY DEF AbortRebase, Committing
<1>2. InSync(w) /\ (half \in OwnersSeen => late) /\ half # "unmerged"
  BY <1>1, AtWork
<1>3. PICK stage \in Stages \ {""} : Fails(w, stage)
  BY DEF AbortRebase, Stages
<1>4. PICK r \in SyncStates : /\ sync' = [sync EXCEPT ![w] = r] /\ r.at = "end"
                              /\ r.stage # "" /\ r.came = sync[w].came
  BY <1>3, FailsShows DEF GitInv
<1>5. CASE RebaseInProgress
  <2>1. half' = "none" /\ work' = auto /\ auto' = {}
    BY <1>5 DEF AbortRebase
  <2>2. work \subseteq hot
    BY <1>2, <1>5 DEF RebaseInProgress, GitInv, PutBackIsHot, Left, OwnersSeen
  <2>3. Kept'
    BY <1>1, <2>1, <2>2 DEF GitInv, Kept
  <2> QED BY <1>1, <1>2, <1>4, <2>1, <2>3, SyncMoves DEF Left, Owners, OwnersSeen, Committing
<1>6. CASE ~RebaseInProgress
  <2>1. UNCHANGED <<half, work, auto>> /\ half \notin Left
    BY <1>2, <1>6 DEF AbortRebase, RebaseInProgress, Left
  <2> QED BY <1>1, <1>2, <1>4, <2>1, SyncMoves
          DEF GitInv, GitTypeOK, AsideInRebase, PutBackIsHot, Kept, Left, Committing
<1> QED BY <1>5, <1>6

LEMMA ResetUnmergedKeeps ==
  ASSUME GitInv, NEW w \in Windows, ResetUnmerged(w)
  PROVE  GitInv'
<1>1. /\ sync[w].at = "popped" /\ sync[w].at \in Committing
      /\ UNCHANGED <<auto, head, stash, remote, lock, marker, late, made, missed, due>>
  BY DEF ResetUnmerged, Committing
<1>2. InSync(w) /\ (half \in OwnersSeen => late) /\ half # "pulling"
  BY <1>1, AtWork
<1>3. CASE /\ Unmerged \/ half = "rebase"
           /\ half' = IF half = "rebase" THEN half ELSE "none"
           /\ work' = {}
           /\ hot' = IF half \in Owners THEN hot \cup work ELSE hot
           /\ Fails(w, "conflict")
  <2>1. "conflict" \in Stages \ {""} /\ Fails(w, "conflict")
    BY <1>3 DEF Stages
  <2>2. PICK r \in SyncStates : /\ sync' = [sync EXCEPT ![w] = r] /\ r.at = "end"
                                /\ r.stage # "" /\ r.came = sync[w].came
    BY <2>1, FailsShows DEF GitInv
  <2>3. work \subseteq hot'
    BY <1>3 DEF GitInv, GitTypeOK, PutBackIsHot, Unmerged, Owners, Left
  <2>4. hot \subseteq hot'
    BY <1>3
  <2>5. Kept'
    BY <1>1, <2>3, <2>4 DEF GitInv, Kept
  <2>6. auto' # {} => half' = "rebase"
    BY <1>1, <1>2, <1>3 DEF GitInv, AsideInRebase
  <2>7. half' \in {"none", "rebase"}
    BY <1>3
  <2> QED BY <1>1, <1>2, <1>3, <2>2, <2>5, <2>6, <2>7, SyncMoves DEF Left, Owners, Committing
<1>4. CASE ~Unmerged /\ UNCHANGED <<half, work, hot>> /\ Goes(w, "push")
  <2>1. "push" \in SyncSpots /\ half \notin Left
    BY <1>2, <1>4 DEF Unmerged, SyncSpots, Left
  <2>2. PICK r \in SyncStates : /\ sync' = [sync EXCEPT ![w] = r] /\ r.at = "push"
                                /\ r.stage = sync[w].stage /\ r.came = sync[w].came
    BY <1>4, <2>1, GoesShows DEF GitInv
  <2>3. sync[w].came \subseteq head \cup missed
    BY <1>1 DEF GitInv, CameIsAccounted, Committing
  <2> QED BY <1>1, <1>2, <1>4, <2>1, <2>2, <2>3, SyncMoves
          DEF GitInv, GitTypeOK, AsideInRebase, PutBackIsHot, Kept, Left
<1> QED BY <1>3, <1>4 DEF ResetUnmerged

(* A push that is known to have gone through carried what was committed.     *)
LEMMA PushKeeps ==
  ASSUME GitInv, NEW w \in Windows, Push(w)
  PROVE  GitInv'
<1>1. /\ sync[w].at = "push" /\ sync[w].at \in Committing
      /\ UNCHANGED <<work, auto, head, stash, half, lock, marker, late, made, hot, missed, due>>
  BY DEF Push, Committing
<1>2. InSync(w) /\ (half \in OwnersSeen => late) /\ half \notin Left
  BY <1>1, AtWork DEF Left
<1>3. sync[w].came \subseteq head \cup missed
  BY <1>1 DEF GitInv, CameIsAccounted, Committing
<1>4. CASE Fails(w, "push")
  <2>1. "push" \in Stages \ {""}
    BY DEF Stages
  <2>2. PICK r \in SyncStates : /\ sync' = [sync EXCEPT ![w] = r] /\ r.at = "end"
                                /\ r.stage # "" /\ r.came = sync[w].came
    BY <1>4, <2>1, FailsShows DEF GitInv
  <2> QED BY <1>1, <1>2, <2>2, SyncMoves
          DEF GitInv, GitTypeOK, AsideInRebase, PutBackIsHot, Kept, Left, Committing
<1>5. CASE Goes(w, "end") /\ remote' = head
  <2>1. "end" \in SyncSpots
    BY DEF SyncSpots
  <2>2. PICK r \in SyncStates : /\ sync' = [sync EXCEPT ![w] = r] /\ r.at = "end"
                                /\ r.stage = sync[w].stage /\ r.came = sync[w].came
    BY <1>5, <2>1, GoesShows DEF GitInv
  <2> QED BY <1>1, <1>2, <1>3, <1>5, <2>2, SyncMoves
          DEF GitInv, GitTypeOK, AsideInRebase, PutBackIsHot, Kept, Left, Committing
<1> QED BY <1>4, <1>5 DEF Push


(* A sync that is over, and nobody is past the lock.                         *)
LEMMA SyncEnds ==
  ASSUME GitInv, NEW w \in Windows, InSync(w), sync' = [sync EXCEPT ![w] = Away],
         half' \in {"none"} \cup Owners, UNCHANGED <<work, auto, head, stash, made, hot>>,
         late' \in BOOLEAN, marker' \in BOOLEAN, auto # {} => half' = "rebase",
         half' = "rebase" /\ late' => work \subseteq hot,
         SilentMeansPushed'
  PROVE  GitInv'
<1>1. sync'[w].at = "away" /\ \A v \in Windows \ {w} : sync'[v] = sync[v]
  BY AwayIsState DEF GitInv, GitTypeOK
<1>2. \A v \in Windows : sync'[v].at \in {"away", "lock"}
  BY <1>1, OthersAreOutside
<1>3. GitTypeOK'
  BY AwayIsState DEF GitInv, GitTypeOK
<1>4. OneSyncs' /\ OwnerIsLate' /\ CameIsAccounted'
  BY <1>2 DEF OneSyncs, InSync, OwnerIsLate, CameIsAccounted, Committing
<1>5. LeftIsAtHand' /\ AsideInRebase' /\ PutBackIsHot'
  BY DEF LeftIsAtHand, AsideInRebase, PutBackIsHot, Left, Owners
<1>6. Kept'
  BY DEF GitInv, Kept
<1> QED BY <1>3, <1>4, <1>5, <1>6 DEF GitInv

LEMMA FinishKeeps ==
  ASSUME GitInv, NEW w \in Windows, Finish(w)
  PROVE  GitInv'
<1>1. /\ sync[w].at = "end" /\ marker' = (sync[w].stage # "") /\ due' = sync[w].came
      /\ sync' = [sync EXCEPT ![w] = Away]
      /\ UNCHANGED <<work, auto, head, stash, remote, half, late, made, hot, missed>>
  BY DEF Finish
<1>2. InSync(w)
  BY <1>1 DEF InSync
<1>3. half \notin Left
  <2>1. \A v \in Windows : sync[v].at \notin {"failed", "popped"}
    BY <1>1, <1>2, OthersAreOutside
  <2> QED BY <2>1 DEF GitInv, LeftIsAtHand, Left
<1>4. SilentMeansPushed'
  BY <1>1 DEF GitInv, CameIsAccounted, SilentMeansPushed
<1>5. marker' \in BOOLEAN
  BY <1>1
<1> QED BY <1>1, <1>2, <1>3, <1>4, <1>5, SyncEnds
        DEF GitInv, GitTypeOK, AsideInRebase, PutBackIsHot, Left

LEMMA KillSyncKeeps ==
  ASSUME GitInv, NEW w \in Windows, KillSync(w)
  PROVE  GitInv'
<1>1. /\ InSync(w) /\ due' = {} /\ late' = FALSE /\ sync' = [sync EXCEPT ![w] = Away]
      /\ half' = CASE half = "pulling" -> "rebase" [] half = "unmerged" -> "merge" [] OTHER -> half
      /\ UNCHANGED <<work, auto, head, stash, remote, marker, made, hot, missed>>
  BY DEF KillSync, InSync
<1>2. /\ half = "pulling" => half' = "rebase"
      /\ half = "unmerged" => half' = "merge"
      /\ half \notin Left => half' = half
  BY <1>1 DEF Left
<1>3. half' \in {"none"} \cup Owners /\ (auto # {} => half' = "rebase")
  BY <1>2 DEF GitInv, GitTypeOK, AsideInRebase, Owners, Left
<1>4. SilentMeansPushed'
  BY <1>1 DEF SilentMeansPushed
<1> QED BY <1>1, <1>3, <1>4, SyncEnds DEF GitInv, GitTypeOK

(* Steps of a session that is not past the lock.                             *)
LEMMA OutsideKeeps ==
  ASSUME GitInv, NEW w \in Windows, Arrive(w) \/ TakeLock(w)
  PROVE  GitInv'
<1>1. /\ sync[w].at \in {"away", "lock"}
      /\ UNCHANGED <<work, auto, head, stash, remote, tracked, half, marker, late, made, hot, missed, due>>
  BY DEF Arrive, TakeLock
<1>2. \E r \in SyncStates : /\ sync' = [sync EXCEPT ![w] = r]
                            /\ r.at \in {"away", "lock", "guard"}
                            /\ r.at = "guard" => lock = "none" /\ lock' = "held"
  <2>1. CASE Goes(w, "lock") \/ Goes(w, "away")
    <3>1. PICK spot \in {"lock", "away"} : Goes(w, spot)
      BY <2>1
    <3>2. spot \in SyncSpots
      BY <3>1 DEF SyncSpots
    <3> QED BY <3>1, <3>2, GoesShows DEF GitInv
  <2>2. CASE /\ lock = "none" /\ lock' = "held"
             /\ sync' = [sync EXCEPT ![w] = [Away EXCEPT !.at = "guard", !.came = Here]]
    <3>1. PICK r \in SyncStates : r = [Away EXCEPT !.at = "guard", !.came = Here]
      BY AwayIsState DEF SyncStates, SyncSpots, Here
    <3>2. r.at = "guard"
      BY <3>1 DEF Away
    <3> QED BY <2>2, <3>1, <3>2
  <2> QED BY <2>1, <2>2 DEF Arrive, TakeLock
<1>3. PICK r \in SyncStates : /\ sync' = [sync EXCEPT ![w] = r]
                              /\ r.at \in {"away", "lock", "guard"}
                              /\ r.at = "guard" => lock = "none" /\ lock' = "held"
  BY <1>2
<1>4. lock = "held" => lock' = lock
  BY DEF Arrive, TakeLock
<1>5. sync'[w] = r /\ \A v \in Windows \ {w} : sync'[v] = sync[v]
  BY <1>3 DEF GitInv, GitTypeOK
<1>6. OneSyncs'
  <2>1. CASE r.at = "guard"
    <3>1. \A v \in Windows : ~InSync(v)
      BY <1>3, <2>1 DEF GitInv, OneSyncs
    <3> QED BY <1>3, <1>5, <2>1, <3>1 DEF OneSyncs, InSync
  <2>2. CASE r.at # "guard"
    BY <1>1, <1>3, <1>4, <1>5, <2>2 DEF GitInv, OneSyncs, InSync
  <2> QED BY <2>1, <2>2
<1>7. GitTypeOK'
  BY <1>1, <1>3 DEF GitInv, GitTypeOK
<1>8. LeftIsAtHand'
  BY <1>1, <1>5 DEF GitInv, LeftIsAtHand
<1>9. OwnerIsLate'
  BY <1>1, <1>3, <1>5 DEF GitInv, OwnerIsLate, Committing
<1>10. CameIsAccounted'
  <2> SUFFICES ASSUME NEW v \in Windows
               PROVE  /\ sync'[v].at \in Committing \ {"add"} => sync'[v].came \subseteq head \cup missed
                      /\ sync'[v].at = "end" /\ sync'[v].stage = "" =>
                            sync'[v].came \subseteq remote \cup missed
    BY <1>1 DEF CameIsAccounted
  <2>1. CASE v = w
    BY <1>3, <1>5, <2>1 DEF Committing
  <2>2. CASE v # w
    BY <1>5, <2>2 DEF GitInv, CameIsAccounted
  <2> QED BY <2>1, <2>2
<1>11. SilentMeansPushed'
  <2>1. Running => Running'
    BY <1>1, <1>5 DEF Running
  <2> QED BY <1>1, <2>1 DEF GitInv, SilentMeansPushed
<1>12. AsideInRebase' /\ PutBackIsHot' /\ Kept'
  BY <1>1 DEF GitInv, AsideInRebase, PutBackIsHot, Kept
<1> QED BY <1>6, <1>7, <1>8, <1>9, <1>10, <1>11, <1>12 DEF GitInv

LEMMA AroundKeeps ==
  ASSUME GitInv, OwnerStarts \/ OwnerAdds \/ OwnerEnds \/ (\E e \in Ours : Edit(e)) \/ (\E e \in Theirs : OtherPushes(e))
  PROVE  GitInv'
<1>1. UNCHANGED <<lock, marker, sync, missed, due>>
  BY DEF OwnerStarts, OwnerAdds, OwnerEnds, Edit, OtherPushes
<1>2. OneSyncs' /\ remote \subseteq remote' /\ head \subseteq head'
  BY <1>1 DEF GitInv, OneSyncs, InSync, OwnerStarts, OwnerAdds, OwnerEnds, Edit, OtherPushes
<1>3. CameIsAccounted' /\ SilentMeansPushed'
  BY <1>1, <1>2 DEF GitInv, CameIsAccounted, SilentMeansPushed, Running
<1>4. CASE \E e \in Ours : Edit(e)
  <2>1. PICK e \in Ours : Edit(e)
    BY <1>4
  <2>2. /\ work' = work \cup {e} /\ made' = made \cup {e} /\ hot \subseteq hot'
        /\ half \in Left \/ late => hot' = hot \cup {e}
        /\ UNCHANGED <<auto, head, stash, half, late>>
    BY <2>1 DEF Edit
  <2>3. GitTypeOK' /\ LeftIsAtHand' /\ AsideInRebase' /\ OwnerIsLate'
    BY <1>1, <2>2 DEF GitInv, GitTypeOK, LeftIsAtHand, AsideInRebase, OwnerIsLate
  <2>4. PutBackIsHot' /\ Kept'
    BY <2>2 DEF GitInv, PutBackIsHot, Kept
  <2> QED BY <1>2, <1>3, <2>3, <2>4 DEF GitInv
<1>5. CASE \E e \in Theirs : OtherPushes(e)
  <2>1. UNCHANGED <<work, auto, head, stash, half, late, made, hot>>
    BY <1>5 DEF OtherPushes
  <2>2. GitTypeOK' /\ LeftIsAtHand' /\ AsideInRebase' /\ OwnerIsLate'
    BY <1>1, <2>1 DEF GitInv, GitTypeOK, LeftIsAtHand, AsideInRebase, OwnerIsLate
  <2>3. PutBackIsHot' /\ Kept'
    BY <2>1 DEF GitInv, PutBackIsHot, Kept
  <2> QED BY <1>2, <1>3, <2>2, <2>3 DEF GitInv
<1>6. CASE OwnerStarts
  <2>1. /\ half = "none" /\ half' \in Owners /\ late' = PastGuard
        /\ half' = "rebase" => auto' = work /\ work' = {}
        /\ half' # "rebase" => UNCHANGED <<auto, work>>
        /\ UNCHANGED <<head, stash, made, hot>>
    BY <1>6 DEF OwnerStarts
  <2>2. auto = {}
    BY <2>1 DEF GitInv, AsideInRebase
  <2>3. PastGuard \in BOOLEAN
    BY DEF PastGuard
  <2>4. GitTypeOK' /\ LeftIsAtHand'
    BY <1>1, <2>1, <2>3 DEF GitInv, GitTypeOK, LeftIsAtHand, Owners
  <2>5. OwnerIsLate'
    BY <1>1, <2>1 DEF OwnerIsLate, PastGuard, Committing
  <2>6. AsideInRebase' /\ PutBackIsHot' /\ Kept'
    BY <2>1, <2>2 DEF GitInv, AsideInRebase, PutBackIsHot, Kept, Owners, Left
  <2> QED BY <1>2, <1>3, <2>4, <2>5, <2>6 DEF GitInv
<1>7. CASE OwnerEnds
  <2>1. half' = "none" /\ auto' = {} /\ late' = FALSE /\ UNCHANGED <<made, hot>>
    BY <1>7 DEF OwnerEnds
  <2>2. PICK got \in {{}, remote}, back \in {{}, stash} :
            head' = head \cup got /\ work' = work \cup auto \cup back /\ stash' = stash \ back
    BY <1>7 DEF OwnerEnds
  <2>3. Kept'
    BY <2>1, <2>2 DEF GitInv, Kept
  <2>4. GitTypeOK' /\ LeftIsAtHand' /\ AsideInRebase' /\ OwnerIsLate' /\ PutBackIsHot'
    BY <1>1, <2>1 DEF GitInv, GitTypeOK, LeftIsAtHand, AsideInRebase, OwnerIsLate, PutBackIsHot, Owners, Left, OwnersSeen
  <2> QED BY <1>2, <1>3, <2>3, <2>4 DEF GitInv
<1>8. CASE OwnerAdds
  <2>1. half' = "staged" /\ half = "merge" /\ UNCHANGED <<work, auto, head, stash, late, made, hot>>
    BY <1>8 DEF OwnerAdds
  <2>2. GitTypeOK' /\ LeftIsAtHand' /\ AsideInRebase' /\ OwnerIsLate'
    BY <1>1, <2>1 DEF GitInv, GitTypeOK, LeftIsAtHand, AsideInRebase, OwnerIsLate, Owners, Left, OwnersSeen
  <2>3. PutBackIsHot' /\ Kept'
    BY <2>1 DEF GitInv, PutBackIsHot, Kept, Left
  <2> QED BY <1>2, <1>3, <2>2, <2>3 DEF GitInv
<1> QED BY <1>4, <1>5, <1>6, <1>7, <1>8

LEMMA GitInvKept == GitInv /\ [GitNext]_gvars => GitInv'
<1> SUFFICES ASSUME GitInv, [GitNext]_gvars PROVE GitInv'
  OBVIOUS
<1>1. ASSUME NEW w \in Windows,
             \/ Arrive(w) \/ TakeLock(w) \/ Guard(w) \/ AddAndCommit(w) \/ FindBranch(w)
             \/ Pull(w) \/ AbortRebase(w) \/ ResetUnmerged(w) \/ Push(w) \/ Finish(w) \/ KillSync(w)
      PROVE  GitInv'
  BY <1>1, OutsideKeeps, GuardKeeps, AddAndCommitKeeps, FindBranchKeeps, PullKeeps, AbortRebaseKeeps,
     ResetUnmergedKeeps, PushKeeps, FinishKeeps, KillSyncKeeps
<1>2. CASE UNCHANGED gvars
  BY <1>2 DEF gvars, GitInv, GitTypeOK, OneSyncs, InSync, LeftIsAtHand, AsideInRebase, OwnerIsLate,
              PutBackIsHot, CameIsAccounted, Kept, SilentMeansPushed, Running
<1> QED BY <1>1, <1>2, AroundKeeps DEF GitNext

(* No edit made on this machine is dropped but those a session makes in a    *)
(* tree that is about to be put back, and what a sync found and did not get  *)
(* out left an alarm or was counted as missed: for any number of sessions,   *)
(* any edits, conflicts, kills and work of the owner's.                      *)
THEOREM NothingIsLostInSilence == GitSpec => []NothingLostInSilence
<1>1. GitInv => NothingLostInSilence
  BY DEF GitInv, LeftIsAtHand, Kept, NothingLostInSilence, NothingDropped, Left, Running
<1> QED BY <1>1, GitStarts, GitInvKept, PTL DEF GitSpec

(* A rebase of the owner's, or a merge with unmerged paths, that began       *)
(* before a sync passed its guard is never ended by a step of that sync; a   *)
(* merge that was only to be committed is at most concluded, with all that   *)
(* is in the tree.                                                           *)
THEOREM OwnersWorkIsLeft == GitSpec => OwnersWorkStands
<1> DEFINE Stands ==
      sync' # sync /\ half \in Owners /\ (\A w \in Windows : sync'[w] # Away \/ sync[w] = Away)
          => \/ half' = half
             \/ late /\ half # "staged"
             \/ half = "staged" /\ half' = "none" /\ work \subseteq head'
<1>1. ASSUME GitInv, [GitNext]_gvars
      PROVE  [Stands]_gvars
  <2> SUFFICES ASSUME sync' # sync, half \in Owners, half' # half, ~(late /\ half # "staged"),
                      \A w \in Windows : sync'[w] # Away \/ sync[w] = Away
               PROVE  half = "staged" /\ half' = "none" /\ work \subseteq head'
    OBVIOUS
  <2>2. PICK w \in Windows :
            \/ Arrive(w) \/ TakeLock(w) \/ Guard(w) \/ AddAndCommit(w) \/ FindBranch(w)
            \/ Pull(w) \/ AbortRebase(w) \/ ResetUnmerged(w) \/ Push(w) \/ Finish(w) \/ KillSync(w)
    BY <1>1 DEF GitNext, gvars, Edit, OtherPushes, OwnerStarts, OwnerAdds, OwnerEnds
  <2>3. ~KillSync(w)
    <3> SUFFICES ASSUME KillSync(w) PROVE FALSE
      OBVIOUS
    <3>1. sync[w].at # "away" /\ sync'[w] = Away
      BY <1>1 DEF KillSync, GitInv, GitTypeOK
    <3>2. sync[w] # Away
      BY <3>1, AwayIsState
    <3> QED BY <3>1, <3>2
  <2>4. ~Arrive(w) /\ ~TakeLock(w) /\ ~Guard(w) /\ ~FindBranch(w) /\ ~Push(w) /\ ~Finish(w)
    BY DEF Arrive, TakeLock, Guard, FindBranch, Push, Finish
  <2>5. AddAndCommit(w) \/ Pull(w) \/ AbortRebase(w) \/ ResetUnmerged(w)
    BY <2>2, <2>3, <2>4
  <2>6. half = "staged"
    <3>1. sync[w].at \in Committing
      BY <2>5 DEF Committing, AddAndCommit, Pull, AbortRebase, ResetUnmerged
    <3>2. half \in OwnersSeen => late
      BY <1>1, <3>1 DEF GitInv, OwnerIsLate
    <3> QED BY <3>2 DEF Owners, OwnersSeen
  <2>7. ~Pull(w) /\ ~AbortRebase(w) /\ ~ResetUnmerged(w)
    BY <2>6 DEF Pull, PullFails, PullStops, PullRebases, AbortRebase, RebaseInProgress,
                ResetUnmerged, Unmerged
  <2>8. AddAndCommit(w)
    BY <2>5, <2>7
  <2> QED BY <2>6, <2>8 DEF AddAndCommit
<1> QED BY <1>1, GitStarts, GitInvKept, PTL DEF GitSpec, OwnersWorkStands

-----------------------------------------------------------------------------
(* The retrieval log.  A search that was dropped is counted once, and in one *)
(* place: in the stored total, in what its process has still to store, or,   *)
(* when the process died, nowhere.  The invariant adds where the event in    *)
(* flight is: in none of these and in no other process, so that the step     *)
(* that drops or stores it changes one of the counts by one.                 *)
-----------------------------------------------------------------------------

LogTypeOK ==
    /\ writer \in [Writers -> [at : {"idle", "begin", "commit", "flush"}, event : Searches \union {0},
                               tries : {0, 1}, pending : Nat, off : BOOLEAN]]
    /\ total \in Nat
    /\ IsFiniteSet(persisted)
    /\ held \in [Writers -> SUBSET Searches]
    /\ \A p \in Writers : IsFiniteSet(held[p])

\* An event in flight is nowhere else.
InFlight(p) == writer[p].at \in {"begin", "commit"}

EventsApart ==
    \A p \in Writers :
        /\ ~InFlight(p) => writer[p].event = 0
        /\ InFlight(p) =>
              /\ writer[p].event # 0
              /\ writer[p].event \notin stored \union Dropped
              /\ \A q \in Writers \ {p} : writer[q].event # writer[p].event

CountsApart ==
    \A p \in Writers :
        /\ held[p] \intersect (persisted \union forgotten) = {}
        /\ \A q \in Writers \ {p} : held[p] \intersect held[q] = {}

CountsAreExact ==
    /\ total = Cardinality(persisted)
    /\ \A p \in Writers : writer[p].pending = Cardinality(held[p])

LogInv ==
    /\ LogTypeOK /\ EventsApart /\ CountsApart /\ CountsAreExact
    /\ stored \intersect Dropped = {}
    /\ hits \subseteq stored

LEMMA InDropped ==
  \A e : e \in Dropped <=> e \in persisted \/ e \in forgotten \/ \E p \in Writers : e \in held[p]
  BY DEF Dropped

LEMMA CountOfUnion ==
  ASSUME NEW S, NEW T, IsFiniteSet(S), IsFiniteSet(T), S \intersect T = {}
  PROVE  IsFiniteSet(S \union T) /\ Cardinality(S \union T) = Cardinality(S) + Cardinality(T)
<1>1. Cardinality(S) \in Nat /\ Cardinality(T) \in Nat
  BY FS_CardinalityType
<1>2. Cardinality(S \intersect T) = 0
  BY FS_EmptySet
<1>3. /\ IsFiniteSet(S \union T)
      /\ Cardinality(S \union T) = Cardinality(S) + Cardinality(T) - Cardinality(S \intersect T)
  BY FS_Union
<1> QED
  BY <1>1, <1>2, <1>3

\* What a step of p leaves alone.
OthersStay(p) ==
    \A q \in Writers \ {p} : writer'[q] = writer[q] /\ held'[q] = held[q]

\* The event of p is dropped: it is counted in what p has pending.
LEMMA DroppedIsHeld ==
  ASSUME LogInv, NEW p \in Writers, InFlight(p), LogTypeOK', OthersStay(p),
         held'[p] = held[p] \union {writer[p].event}, writer'[p].event = 0, ~InFlight(p)',
         writer'[p].pending = writer[p].pending + 1,
         UNCHANGED <<stored, hits, total, persisted, forgotten>>
  PROVE  LogInv'
<1> USE DEF LogInv, InFlight, OthersStay
<1>1. PICK e : e = writer[p].event
  OBVIOUS
<1>2. e \notin stored /\ e \notin persisted /\ e \notin forgotten /\ \A q \in Writers : e \notin held[q]
  BY <1>1, InDropped DEF EventsApart
<1>3. \A x : x \in Dropped' <=> x \in Dropped \/ x = e
  <2>1. \A x : x \in Dropped' <=> x \in persisted' \/ x \in forgotten' \/ \E q \in Writers : x \in held'[q]
    BY DEF Dropped
  <2> QED
    BY <1>1, <2>1, InDropped
<1>4. EventsApart'
  <2> SUFFICES ASSUME NEW q \in Writers
               PROVE  /\ ~InFlight(q)' => writer'[q].event = 0
                      /\ InFlight(q)' => /\ writer'[q].event \notin stored' \union Dropped'
                                         /\ \A r \in Writers \ {q} : writer'[r].event # writer'[q].event
    BY DEF EventsApart
  <2>1. CASE q = p
    BY <2>1
  <2>2. CASE q # p
    <3>1. writer'[q] = writer[q]
      BY <2>2
    <3>2. ASSUME InFlight(q)
          PROVE  /\ writer[q].event # e /\ writer[q].event # 0
                 /\ writer[q].event \notin stored \union Dropped
      BY <1>1, <2>2, <3>2 DEF EventsApart
    <3>3. ASSUME InFlight(q), NEW r \in Writers \ {q} PROVE writer'[r].event # writer[q].event
      BY <3>2, <3>3 DEF EventsApart
    <3> QED
      BY <1>3, <3>1, <3>2, <3>3 DEF EventsApart
  <2> QED
    BY <2>1, <2>2
<1>5. CountsApart'
  BY <1>1, <1>2 DEF CountsApart
<1>6. CountsAreExact'
  <2>1. Cardinality(held'[p]) = Cardinality(held[p]) + 1
    <3>1. IsFiniteSet(held[p]) /\ e \notin held[p] /\ held'[p] = held[p] \union {e}
      BY <1>1, <1>2 DEF LogTypeOK
    <3> QED
      BY <3>1, FS_AddElement
  <2> QED
    BY <2>1 DEF CountsAreExact
<1>7. stored' \intersect Dropped' = {} /\ hits' \subseteq stored'
  BY <1>2, <1>3
<1> QED
  BY <1>4, <1>5, <1>6, <1>7

LEMMA HeldIsStored ==
  ASSUME LogInv, NEW p \in Writers, LogTypeOK', OthersStay(p),
         total' = total + writer[p].pending, persisted' = persisted \union held[p],
         held'[p] = {}, writer'[p].pending = 0, writer'[p].event = 0, ~InFlight(p)',
         UNCHANGED forgotten,
         stored' = stored \/ (InFlight(p) /\ stored' = stored \union {writer[p].event}),
         hits' \subseteq stored'
  PROVE  LogInv'
<1> USE DEF LogInv, InFlight, OthersStay
<1>1. \A x : x \in Dropped' <=> x \in Dropped
  <2>1. \A x : x \in Dropped' <=> x \in persisted' \/ x \in forgotten' \/ \E q \in Writers : x \in held'[q]
    BY DEF Dropped
  <2> QED
    BY <2>1, InDropped
<1>2. EventsApart'
  <2> SUFFICES ASSUME NEW q \in Writers
               PROVE  /\ ~InFlight(q)' => writer'[q].event = 0
                      /\ InFlight(q)' => /\ writer'[q].event \notin stored' \union Dropped'
                                         /\ \A r \in Writers \ {q} : writer'[r].event # writer'[q].event
    BY DEF EventsApart
  <2>1. CASE q = p
    BY <2>1
  <2>2. CASE q # p
    <3>1. writer'[q] = writer[q]
      BY <2>2
    <3>2. ASSUME InFlight(q)
          PROVE  /\ writer[q].event \notin stored' /\ writer[q].event # 0
                 /\ writer[q].event \notin stored \union Dropped
      BY <2>2, <3>2 DEF EventsApart
    <3>3. ASSUME InFlight(q), NEW r \in Writers \ {q} PROVE writer'[r].event # writer[q].event
      BY <3>2, <3>3 DEF EventsApart
    <3> QED
      BY <1>1, <3>1, <3>2, <3>3 DEF EventsApart
  <2> QED
    BY <2>1, <2>2
<1>3. CountsApart'
  BY DEF CountsApart
<1>4. CountsAreExact'
  <2>1. Cardinality(persisted') = Cardinality(persisted) + Cardinality(held[p])
    BY CountOfUnion DEF LogTypeOK, CountsApart
  <2>2. Cardinality(held'[p]) = 0
    BY FS_EmptySet
  <2> QED
    BY <2>1, <2>2 DEF CountsAreExact
<1>5. stored' \intersect Dropped' = {}
  BY <1>1 DEF EventsApart
<1> QED
  BY <1>2, <1>3, <1>4, <1>5

LEMMA HeldIsForgotten ==
  ASSUME LogInv, NEW p \in Writers, LogTypeOK', OthersStay(p),
         forgotten' = forgotten \union held[p], held'[p] = {}, writer'[p].pending = 0,
         writer'[p].event = 0, ~InFlight(p)', UNCHANGED <<stored, hits, total, persisted>>
  PROVE  LogInv'
<1> USE DEF LogInv, InFlight, OthersStay
<1>1. \A x : x \in Dropped' <=> x \in Dropped
  <2>1. \A x : x \in Dropped' <=> x \in persisted' \/ x \in forgotten' \/ \E q \in Writers : x \in held'[q]
    BY DEF Dropped
  <2> QED
    BY <2>1, InDropped
<1>2. EventsApart'
  <2> SUFFICES ASSUME NEW q \in Writers
               PROVE  /\ ~InFlight(q)' => writer'[q].event = 0
                      /\ InFlight(q)' => /\ writer'[q].event \notin stored' \union Dropped'
                                         /\ \A r \in Writers \ {q} : writer'[r].event # writer'[q].event
    BY DEF EventsApart
  <2>1. CASE q = p
    BY <2>1
  <2>2. CASE q # p
    <3>1. writer'[q] = writer[q]
      BY <2>2
    <3>2. ASSUME InFlight(q)
          PROVE  /\ writer[q].event # 0 /\ writer[q].event \notin stored \union Dropped
      BY <2>2, <3>2 DEF EventsApart
    <3>3. ASSUME InFlight(q), NEW r \in Writers \ {q} PROVE writer'[r].event # writer[q].event
      BY <3>2, <3>3 DEF EventsApart
    <3> QED
      BY <1>1, <3>1, <3>2, <3>3 DEF EventsApart
  <2> QED
    BY <2>1, <2>2
<1>3. CountsApart'
  BY DEF CountsApart
<1>4. CountsAreExact'
  BY FS_EmptySet DEF CountsAreExact
<1>5. stored' \intersect Dropped' = {}
  BY <1>1
<1> QED
  BY <1>2, <1>3, <1>4, <1>5

WriterFields == [at : {"idle", "begin", "commit", "flush"}, event : Searches \union {0},
                 tries : {0, 1}, pending : Nat, off : BOOLEAN]

LEMMA HeldStaysFinite ==
  ASSUME LogInv, NEW p \in Writers, NEW T \in SUBSET Searches, IsFiniteSet(T),
         held' = [held EXCEPT ![p] = T], NEW u \in WriterFields, writer' = [writer EXCEPT ![p] = u],
         total' \in Nat, IsFiniteSet(persisted')
  PROVE  /\ LogTypeOK' /\ OthersStay(p)
         /\ held'[p] = T /\ writer'[p] = u
  BY DEF LogInv, LogTypeOK, OthersStay, WriterFields

LEMMA KeepsCountsSkip ==
  ASSUME LogInv, NEW p \in Writers, InFlight(p), NEW place \in {"idle", "flush"}, NEW off \in BOOLEAN,
         CountsSkip(p, place, off), UNCHANGED <<stored, hits, total, persisted, forgotten>>
  PROVE  LogInv'
<1>1. PICK u : u = [writer[p] EXCEPT !.at = place, !.event = 0, !.pending = writer[p].pending + 1,
                                     !.off = off]
  OBVIOUS
<1>2. /\ u \in WriterFields /\ u.at = place /\ u.event = 0 /\ u.pending = writer[p].pending + 1
      /\ writer[p] \in WriterFields
  <2>1. writer[p] \in WriterFields
    BY DEF LogInv, LogTypeOK, WriterFields
  <2>2. u = [at |-> place, event |-> 0, tries |-> writer[p].tries,
             pending |-> writer[p].pending + 1, off |-> off]
    BY <1>1, <2>1 DEF WriterFields
  <2> QED
    BY <2>1, <2>2 DEF WriterFields
<1>3. writer' = [writer EXCEPT ![p] = u]
  BY <1>1 DEF CountsSkip, LogInv, LogTypeOK
<1>4. PICK T : T = held[p] \union {writer[p].event}
  OBVIOUS
<1>5. T \in SUBSET Searches /\ IsFiniteSet(T)
  <2>1. writer[p].event \in Searches
    BY <1>2 DEF LogInv, EventsApart, InFlight, WriterFields
  <2>2. held[p] \in SUBSET Searches /\ IsFiniteSet(held[p])
    BY DEF LogInv, LogTypeOK
  <2> QED
    BY <1>4, <2>1, <2>2, FS_AddElement
<1>6. held' = [held EXCEPT ![p] = T]
  BY <1>4 DEF CountsSkip
<1>7. total' \in Nat /\ IsFiniteSet(persisted')
  BY DEF LogInv, LogTypeOK
<1>8. LogTypeOK' /\ OthersStay(p) /\ held'[p] = T /\ writer'[p] = u
  BY <1>2, <1>3, <1>5, <1>6, <1>7, HeldStaysFinite
<1>9. ~InFlight(p)'
  BY <1>2, <1>8 DEF InFlight
<1> QED
  BY <1>2, <1>4, <1>8, <1>9, DroppedIsHeld

(* No step of a process that only moves on disturbs the counts.             *)
LEMMA NothingCounted ==
  ASSUME LogInv, LogTypeOK', UNCHANGED <<hits, total, persisted, held, forgotten, stored>>,
         NEW p \in Writers, OthersStay(p), writer'[p].pending = writer[p].pending,
         \/ InFlight(p)' /\ InFlight(p) /\ writer'[p].event = writer[p].event
         \/ ~InFlight(p)' /\ writer'[p].event = 0
         \/ InFlight(p)' /\ ~InFlight(p) /\ writer'[p].event \notin Seen
  PROVE  LogInv'
<1> USE DEF LogInv, InFlight, OthersStay
<1>1. Dropped' = Dropped
  BY DEF Dropped
<1>2. EventsApart'
  <2>1. CASE InFlight(p)' /\ InFlight(p) /\ writer'[p].event = writer[p].event
    BY <1>1, <2>1 DEF EventsApart
  <2>2. CASE ~InFlight(p)' /\ writer'[p].event = 0
    BY <1>1, <2>2 DEF EventsApart
  <2>3. CASE InFlight(p)' /\ ~InFlight(p) /\ writer'[p].event \notin Seen
    <3>1. \A q \in Writers : writer'[p].event # writer[q].event
      BY <2>3 DEF Seen
    <3>2. writer'[p].event \notin stored \union Dropped
      BY <2>3 DEF Seen
    <3>3. writer'[p].event # 0
      BY <2>3, <3>1 DEF EventsApart
    <3> QED
      BY <1>1, <2>3, <3>1, <3>2, <3>3 DEF EventsApart
  <2> QED
    BY <2>1, <2>2, <2>3
<1>3. CountsApart' /\ CountsAreExact'
  BY DEF CountsApart, CountsAreExact
<1> QED
  BY <1>1, <1>2, <1>3

(* Where p goes next, with everything counted as it was.                    *)
LEMMA KeepsMoves ==
  ASSUME LogInv, NEW p \in Writers, NEW u \in WriterFields, writer' = [writer EXCEPT ![p] = u],
         u.pending = writer[p].pending,
         UNCHANGED <<hits, total, persisted, held, forgotten, stored>>,
         \/ u.at \in {"begin", "commit"} /\ InFlight(p) /\ u.event = writer[p].event
         \/ u.at \notin {"begin", "commit"} /\ u.event = 0
         \/ u.at \in {"begin", "commit"} /\ ~InFlight(p) /\ u.event \notin Seen
  PROVE  LogInv'
<1>1. LogTypeOK' /\ OthersStay(p) /\ writer'[p] = u
  BY DEF LogInv, LogTypeOK, OthersStay, WriterFields
<1> QED
  BY <1>1, NothingCounted DEF InFlight

LEMMA KeepsRecord ==
  ASSUME LogInv, NEW p \in Writers, NEW e \in Searches, Record(p, e)
  PROVE  LogInv'
<1>1. writer[p] \in WriterFields
  BY DEF LogInv, LogTypeOK, WriterFields
<1>2. CASE writer[p].off
  <2>1. UNCHANGED <<hits, total, persisted, held, forgotten, stored, writer>>
    BY <1>2 DEF Record
  <2>2. writer' = [writer EXCEPT ![p] = writer[p]]
    BY <2>1 DEF LogInv, LogTypeOK
  <2>3. writer[p].at \notin {"begin", "commit"} /\ writer[p].event = 0
    BY DEF Record, LogInv, EventsApart, InFlight
  <2> QED
    BY <1>1, <2>1, <2>2, <2>3, KeepsMoves
<1>3. CASE ~writer[p].off
  <2>1. PICK u : u = [writer[p] EXCEPT !.at = "begin", !.event = e, !.tries = 0]
    OBVIOUS
  <2>2. u \in WriterFields /\ u.pending = writer[p].pending /\ u.at = "begin" /\ u.event = e
    BY <1>1, <2>1 DEF WriterFields
  <2>3. writer' = [writer EXCEPT ![p] = u]
    BY <1>3, <2>1 DEF Record, LogInv, LogTypeOK
  <2> QED
    BY <2>2, <2>3, KeepsMoves DEF Record, InFlight
<1> QED
  BY <1>2, <1>3

LEMMA KeepsBegin ==
  ASSUME LogInv, NEW p \in Writers, Begin(p)
  PROVE  LogInv'
<1>1. writer[p] \in WriterFields /\ InFlight(p)
  BY DEF LogInv, LogTypeOK, WriterFields, Begin, InFlight
<1>2. CASE locked = "none"
  <2>1. PICK u : u = [writer[p] EXCEPT !.at = "commit"]
    OBVIOUS
  <2>2. /\ u \in WriterFields /\ u.pending = writer[p].pending /\ u.at = "commit"
        /\ u.event = writer[p].event
    BY <1>1, <2>1 DEF WriterFields
  <2>3. writer' = [writer EXCEPT ![p] = u]
    BY <1>2, <2>1 DEF Begin, LogInv, LogTypeOK
  <2> QED
    BY <1>1, <1>2, <2>2, <2>3, KeepsMoves DEF Begin
<1>3. CASE locked # "none" /\ writer[p].tries = 0
  <2>1. PICK u : u = [writer[p] EXCEPT !.tries = 1]
    OBVIOUS
  <2>2. /\ u \in WriterFields /\ u.pending = writer[p].pending /\ u.at = writer[p].at
        /\ u.event = writer[p].event
    BY <1>1, <2>1 DEF WriterFields
  <2>3. writer' = [writer EXCEPT ![p] = u]
    BY <1>3, <2>1 DEF Begin, LogInv, LogTypeOK
  <2> QED
    BY <1>1, <1>3, <2>2, <2>3, KeepsMoves DEF Begin, InFlight
<1>4. CASE locked # "none" /\ writer[p].tries # 0
  BY <1>1, <1>4, KeepsCountsSkip DEF Begin
<1> QED
  BY <1>2, <1>3, <1>4

LEMMA KeepsDisable ==
  ASSUME LogInv, NEW p \in Writers, Disable(p)
  PROVE  LogInv'
  BY KeepsCountsSkip DEF Disable, InFlight

LEMMA KeepsClose ==
  ASSUME LogInv, NEW p \in Writers, Close(p)
  PROVE  LogInv'
<1>1. writer[p] \in WriterFields /\ writer[p].event = 0
  BY DEF LogInv, LogTypeOK, WriterFields, Close, InFlight, EventsApart
<1>2. PICK u : u = [writer[p] EXCEPT !.at = "flush"]
  OBVIOUS
<1>3. u \in WriterFields /\ u.pending = writer[p].pending /\ u.at = "flush" /\ u.event = 0
  BY <1>1, <1>2 DEF WriterFields
<1>4. writer' = [writer EXCEPT ![p] = u]
  BY <1>2 DEF Close, LogInv, LogTypeOK
<1> QED
  BY <1>3, <1>4, KeepsMoves DEF Close

(* What p has pending is stored, alone or with its event.                   *)
LEMMA KeepsStoresCount ==
  ASSUME LogInv, NEW p \in Writers, StoresCount(p),
         writer' = [writer EXCEPT ![p] = [writer[p] EXCEPT !.at = "idle", !.event = 0, !.pending = 0]],
         UNCHANGED forgotten,
         stored' = stored \/ (InFlight(p) /\ stored' = stored \union {writer[p].event}),
         hits' \subseteq stored'
  PROVE  LogInv'
<1>1. PICK u : u = [writer[p] EXCEPT !.at = "idle", !.event = 0, !.pending = 0]
  OBVIOUS
<1>2. u \in WriterFields /\ u.pending = 0 /\ u.at = "idle" /\ u.event = 0
  <2>1. writer[p] \in WriterFields
    BY DEF LogInv, LogTypeOK, WriterFields
  <2> QED
    BY <1>1, <2>1 DEF WriterFields
<1>3. {} \in SUBSET Searches /\ IsFiniteSet({})
  BY FS_EmptySet
<1>4. total' \in Nat /\ IsFiniteSet(persisted')
  <2>1. total \in Nat /\ writer[p].pending \in Nat /\ IsFiniteSet(persisted) /\ IsFiniteSet(held[p])
    BY DEF LogInv, LogTypeOK
  <2>2. IsFiniteSet(persisted \union held[p])
    BY <2>1, FS_Union
  <2>3. persisted' = persisted \union held[p] /\ total' = total + writer[p].pending
    BY DEF StoresCount
  <2> QED
    BY <2>1, <2>2, <2>3
<1>5. held' = [held EXCEPT ![p] = {}]
  BY DEF StoresCount
<1>6. LogTypeOK' /\ OthersStay(p) /\ held'[p] = {} /\ writer'[p] = u
  BY <1>1, <1>2, <1>3, <1>4, <1>5, HeldStaysFinite
<1>7. ~InFlight(p)'
  BY <1>2, <1>6 DEF InFlight
<1> QED
  BY <1>2, <1>6, <1>7, HeldIsStored DEF StoresCount

LEMMA KeepsCommit ==
  ASSUME LogInv, NEW p \in Writers, Commit(p)
  PROVE  LogInv'
<1>1. writer' = [writer EXCEPT ![p] = [writer[p] EXCEPT !.at = "idle", !.event = 0, !.pending = 0]]
  BY DEF Commit, LogInv, LogTypeOK
<1>2. hits' \subseteq stored'
  BY DEF Commit, LogInv
<1>3. InFlight(p) /\ stored' = stored \union {writer[p].event}
  BY DEF Commit, InFlight
<1> QED
  BY <1>1, <1>2, <1>3, KeepsStoresCount DEF Commit

LEMMA KeepsFlush ==
  ASSUME LogInv, NEW p \in Writers, Flush(p)
  PROVE  LogInv'
<1>1. writer[p] \in WriterFields /\ writer[p].event = 0
  BY DEF LogInv, LogTypeOK, WriterFields, Flush, InFlight, EventsApart
<1>2. CASE StoresCount(p) /\ writer' = [writer EXCEPT ![p].at = "idle", ![p].pending = 0]
  <2>1. [writer[p] EXCEPT !.at = "idle", !.pending = 0]
          = [writer[p] EXCEPT !.at = "idle", !.event = 0, !.pending = 0]
    BY <1>1 DEF WriterFields
  <2>2. writer' = [writer EXCEPT ![p] = [writer[p] EXCEPT !.at = "idle", !.event = 0, !.pending = 0]]
    BY <1>2, <2>1 DEF LogInv, LogTypeOK
  <2> QED
    BY <1>2, <2>2, KeepsStoresCount DEF Flush, LogInv
<1>3. CASE writer' = [writer EXCEPT ![p].at = "idle"] /\ UNCHANGED <<total, persisted, held>>
  <2>1. PICK u : u = [writer[p] EXCEPT !.at = "idle"]
    OBVIOUS
  <2>2. u \in WriterFields /\ u.pending = writer[p].pending /\ u.at = "idle" /\ u.event = 0
    BY <1>1, <2>1 DEF WriterFields
  <2>3. writer' = [writer EXCEPT ![p] = u]
    BY <1>3, <2>1 DEF LogInv, LogTypeOK
  <2> QED
    BY <1>3, <2>2, <2>3, KeepsMoves DEF Flush
<1> QED
  BY <1>2, <1>3 DEF Flush

LEMMA KeepsExit ==
  ASSUME LogInv, NEW p \in Writers, Exit(p)
  PROVE  LogInv'
<1>1. Fresh \in WriterFields /\ Fresh.at = "idle" /\ Fresh.event = 0 /\ Fresh.pending = 0
  BY DEF Fresh, WriterFields
<1>2. {} \in SUBSET Searches /\ IsFiniteSet({})
  BY FS_EmptySet
<1>3. LogTypeOK' /\ OthersStay(p) /\ held'[p] = {} /\ writer'[p] = Fresh
  BY <1>1, <1>2, HeldStaysFinite DEF Exit, LogInv, LogTypeOK
<1>4. ~InFlight(p)'
  BY <1>1, <1>3 DEF InFlight
<1> QED
  BY <1>1, <1>3, <1>4, HeldIsForgotten DEF Exit

LEMMA KeepsRest ==
  ASSUME LogInv, UNCHANGED <<total, persisted, held, forgotten, writer>>,
         stored' \subseteq stored, hits' \subseteq stored'
  PROVE  LogInv'
<1>1. Dropped' = Dropped
  BY DEF Dropped
<1>2. LogTypeOK' /\ CountsApart' /\ CountsAreExact'
  BY DEF LogInv, LogTypeOK, CountsApart, CountsAreExact
<1>3. EventsApart' /\ stored' \intersect Dropped' = {}
  BY <1>1 DEF LogInv, EventsApart, InFlight
<1> QED
  BY <1>2, <1>3 DEF LogInv

LEMMA LogInitially == LogInit => LogInv
<1> SUFFICES ASSUME LogInit PROVE LogInv
  OBVIOUS
<1>1. Fresh \in WriterFields /\ Fresh.at = "idle" /\ Fresh.event = 0 /\ Fresh.pending = 0
  BY DEF Fresh, WriterFields
<1>2. LogTypeOK
  BY <1>1, FS_EmptySet DEF LogInit, LogTypeOK, WriterFields
<1>3. EventsApart /\ CountsApart /\ CountsAreExact
  BY <1>1, FS_EmptySet DEF LogInit, EventsApart, InFlight, CountsApart, CountsAreExact
<1> QED
  BY <1>2, <1>3 DEF LogInit, LogInv

LEMMA LogInvKept == LogInv /\ [LogNext]_lvars => LogInv'
<1> SUFFICES ASSUME LogInv, [LogNext]_lvars PROVE LogInv'
  OBVIOUS
<1>1. CASE OtherWrites
  BY <1>1, KeepsRest DEF OtherWrites, LogInv
<1>2. CASE \E old \in SUBSET stored : RotateLog(old)
  BY <1>2, KeepsRest DEF RotateLog, LogInv
<1>3. ASSUME NEW p \in Writers, Begin(p) \/ Commit(p) \/ Disable(p) PROVE LogInv'
  BY <1>3, KeepsBegin, KeepsCommit, KeepsDisable
<1>4. ASSUME NEW p \in Writers, Close(p) \/ Flush(p) \/ Exit(p) PROVE LogInv'
  BY <1>4, KeepsClose, KeepsFlush, KeepsExit
<1>5. ASSUME NEW p \in Writers, NEW e \in Searches, Record(p, e) PROVE LogInv'
  BY <1>5, KeepsRecord
<1>6. CASE UNCHANGED lvars
  BY <1>6, KeepsRest DEF lvars, LogInv
<1> QED
  BY <1>1, <1>2, <1>3, <1>4, <1>5, <1>6 DEF LogNext

(* Each search the log dropped is counted once, in the stored count or in    *)
(* one that is still in memory or died with its process; and no event is     *)
(* stored and dropped (retrieval_log.py:436-485): for any number of          *)
(* processes and searches, and any busy or failing database.                 *)
THEOREM SkipsAreCounted == LogSpec => []SkipsAreCountedOnce
<1>1. LogInv => SkipsAreCountedOnce
  BY DEF LogInv, SkipsAreCountedOnce, CountsApart, CountsAreExact
<1> QED
  BY <1>1, LogInitially, LogInvKept, PTL DEF LogSpec

(***************************************************************************)
(* The rotation of cards.                                                  *)
(*                                                                         *)
(* However many processes rotate, and wherever they are killed, a handoff  *)
(* is in its card or in an archive note, but for the two races the model   *)
(* names.  Two arguments carry it.  The pure one: the sections of a text   *)
(* are archived under different names, and what stays of a text has        *)
(* nothing more to archive.  The other is about the calls on one card: as  *)
(* long as no handoff came in between they all hold one text, so the same  *)
(* name stands for the same section in each of them, a note is never       *)
(* written over with another text, and the cut takes out only what has its *)
(* note.                                                                   *)
(***************************************************************************)

LEMMA LeastNumber ==
    ASSUME NEW T \in SUBSET Nat, T # {}
    PROVE  \E x \in T : \A y \in T : x <= y
<1>1. PICK R : R = OpToRel(<, Nat)
  OBVIOUS
<1>2. IsWellFoundedOn(R, Nat)
  BY <1>1, NatLessThanWellFounded
<1>3. PICK x \in T : \A y \in T : ~ (<<y, x>> \in R)
  BY <1>2, WFMin
<1>4. ASSUME NEW y \in T PROVE ~(y < x)
  BY <1>1, <1>3 DEF OpToRel
<1> QED BY <1>3, <1>4

LEMMA ChosenStepwise ==
    ASSUME NEW ss, Len(ss) \in Nat, NEW D
    PROVE  \E f : /\ f = [n \in 0 .. Len(ss) |->
                             IF n = 0 THEN <<>>
                             ELSE IF ss[n].date \in D THEN Append(f[n - 1], ss[n])
                             ELSE f[n - 1]]
                  /\ Chosen(ss, D) = f[Len(ss)]
<1> DEFINE Rule(f, m) == [n \in 0 .. m |->
                             IF n = 0 THEN <<>>
                             ELSE IF ss[n].date \in D THEN Append(f[n - 1], ss[n])
                             ELSE f[n - 1]]
           Upto(m) == \E f : f = Rule(f, m)
           Bad == {m \in Nat : ~Upto(m)}
<1>1. Upto(Len(ss))
  <2> SUFFICES ASSUME ~Upto(Len(ss)) PROVE FALSE
    OBVIOUS
  <2> HIDE DEF Upto
  <2>1. PICK m \in Bad : \A k \in Bad : m <= k
    BY LeastNumber
  <2>2. m # 0
    <3>1. PICK f : f = [n \in 0 .. 0 |-> <<>>]
      OBVIOUS
    <3>2. f = Rule(f, 0)
      BY <3>1
    <3> QED BY <3>2, <2>1 DEF Upto
  <2>3. m - 1 \in Nat /\ m \in Nat /\ ~(m <= m - 1)
    BY <2>1, <2>2
  <2>4. Upto(m - 1)
    BY <2>1, <2>3
  <2>5. PICK g : g = Rule(g, m - 1)
    BY <2>4 DEF Upto
  <2>6. PICK f : f = [n \in 0 .. m |->
                        IF n # m THEN g[n]
                        ELSE IF ss[m].date \in D THEN Append(g[m - 1], ss[m])
                        ELSE g[m - 1]]
    OBVIOUS
  <2>7. f = Rule(f, m)
    <3>1. ASSUME NEW n \in 0 .. m
          PROVE  f[n] = IF n = 0 THEN <<>>
                        ELSE IF ss[n].date \in D THEN Append(f[n - 1], ss[n])
                        ELSE f[n - 1]
      <4>1. CASE n = m
        <5>1. f[n - 1] = g[m - 1]
          BY <4>1, <2>6, <2>3
        <5> QED BY <4>1, <5>1, <2>6, <2>2
      <4>2. CASE n # m
        <5>1. n \in 0 .. m - 1 /\ f[n] = g[n]
          BY <4>2, <2>6, <2>3
        <5>2. n # 0 => n - 1 \in 0 .. m /\ n - 1 # m /\ f[n - 1] = g[n - 1]
          BY <5>1, <2>6, <2>3
        <5>3. g[n] = IF n = 0 THEN <<>>
                     ELSE IF ss[n].date \in D THEN Append(g[n - 1], ss[n])
                     ELSE g[n - 1]
          BY <2>5, <5>1
        <5> QED BY <5>1, <5>2, <5>3
      <4> QED BY <4>1, <4>2
    <3>2. f = [n \in 0 .. m |-> f[n]]
      BY <2>6
    <3> QED BY <3>1, <3>2
  <2> QED BY <2>1, <2>7 DEF Upto
<1>2. PICK f : f = CHOOSE g : g = Rule(g, Len(ss))
  OBVIOUS
<1>3. f = Rule(f, Len(ss))
  BY <1>1, <1>2
<1>4. Chosen(ss, D) = f[Len(ss)]
  BY <1>2 DEF Chosen
<1> QED BY <1>3, <1>4

LEMMA AppendIs ==
    ASSUME NEW S, NEW q \in Seq(S), NEW s \in S
    PROVE  /\ Append(q, s) \in Seq(S)
           /\ ToSet(Append(q, s)) = ToSet(q) \union {s}
           /\ IsInjective(q) /\ s \notin ToSet(q) => IsInjective(Append(q, s))
<1>1. PICK a : a = Append(q, s)
  OBVIOUS
<1>2. /\ a \in Seq(S) /\ Len(a) = Len(q) + 1 /\ a[Len(q) + 1] = s
      /\ \A i \in 1 .. Len(q) : a[i] = q[i]
      /\ DOMAIN q = 1 .. Len(q) /\ DOMAIN a = 1 .. Len(q) + 1 /\ Len(q) \in Nat
  BY <1>1
<1>3. ToSet(a) = ToSet(q) \union {s}
  <2>1. ASSUME NEW x \in ToSet(a) PROVE x \in ToSet(q) \union {s}
    <3>1. PICK i \in DOMAIN a : x = a[i]
      BY DEF ToSet
    <3>2. i \in 1 .. Len(q) \/ i = Len(q) + 1
      BY <1>2
    <3> QED BY <3>1, <3>2, <1>2 DEF ToSet
  <2>2. ASSUME NEW x \in ToSet(q) PROVE x \in ToSet(a)
    <3>1. PICK i \in DOMAIN q : x = q[i]
      BY DEF ToSet
    <3>2. i \in 1 .. Len(q) + 1 /\ a[i] = x
      BY <1>2, <3>1
    <3> QED BY <3>2, <1>2 DEF ToSet
  <2>3. s \in ToSet(a)
    BY <1>2 DEF ToSet
  <2> QED BY <2>1, <2>2, <2>3
<1>4. ASSUME IsInjective(q), s \notin ToSet(q) PROVE IsInjective(a)
  <2> SUFFICES ASSUME NEW i \in 1 .. Len(q) + 1, NEW j \in 1 .. Len(q) + 1, a[i] = a[j]
               PROVE  i = j
    BY <1>2 DEF IsInjective
  <2>1. \A k \in 1 .. Len(q) : q[k] # s
    BY <1>4, <1>2 DEF ToSet
  <2>2. (i \in 1 .. Len(q) \/ i = Len(q) + 1) /\ (j \in 1 .. Len(q) \/ j = Len(q) + 1)
    BY <1>2
  <2>3. CASE i \in 1 .. Len(q) /\ j \in 1 .. Len(q)
    <3>1. q[i] = q[j]
      BY <2>3, <1>2
    <3> QED BY <3>1, <2>3, <1>2, <1>4 DEF IsInjective
  <2> QED BY <2>1, <2>2, <2>3, <1>2
<1> QED BY <1>1, <1>2, <1>3, <1>4

(* The sections chosen by their dates are those of the text with these       *)
(* dates, each once if each is once in the text.                             *)
LEMMA ChosenIs ==
    ASSUME NEW S, NEW ss \in Seq(S), NEW D
    PROVE  /\ Chosen(ss, D) \in Seq(S)
           /\ ToSet(Chosen(ss, D)) = {s \in ToSet(ss) : s.date \in D}
           /\ IsInjective(ss) => IsInjective(Chosen(ss, D))
<1>1. Len(ss) \in Nat /\ DOMAIN ss = 1 .. Len(ss) /\ \A n \in 1 .. Len(ss) : ss[n] \in S
  OBVIOUS
<1>2. PICK f : /\ f = [n \in 0 .. Len(ss) |->
                          IF n = 0 THEN <<>>
                          ELSE IF ss[n].date \in D THEN Append(f[n - 1], ss[n])
                          ELSE f[n - 1]]
               /\ Chosen(ss, D) = f[Len(ss)]
  BY <1>1, ChosenStepwise
<1>3. ASSUME NEW n \in 0 .. Len(ss)
      PROVE  f[n] = IF n = 0 THEN <<>>
                    ELSE IF ss[n].date \in D THEN Append(f[n - 1], ss[n])
                    ELSE f[n - 1]
  BY <1>2
<1> DEFINE Good(n) == /\ f[n] \in Seq(S)
                      /\ \A s : s \in ToSet(f[n]) <=> \E k \in 1 .. n : s = ss[k] /\ s.date \in D
                      /\ IsInjective(ss) => IsInjective(f[n])
           Bad == {n \in Nat : n \in 0 .. Len(ss) /\ ~Good(n)}
<1>4. Good(Len(ss))
  <2> SUFFICES ASSUME ~Good(Len(ss)) PROVE FALSE
    OBVIOUS
  <2> HIDE DEF Good
  <2>0. Bad \in SUBSET Nat /\ Len(ss) \in Bad
    BY <1>1
  <2>1. PICK n \in Bad : \A k \in Bad : n <= k
    <3> HIDE DEF Bad
    <3> QED BY LeastNumber, <2>0
  <2>2. n \in 0 .. Len(ss) /\ ~Good(n)
    BY <2>1
  <2>3. n # 0
    <3>1. ASSUME n = 0 PROVE FALSE
      <4>1. f[n] = <<>>
        BY <3>1, <1>3, <2>2
      <4>2. f[n] \in Seq(S) /\ ToSet(f[n]) = {} /\ IsInjective(f[n])
        BY <4>1 DEF ToSet, IsInjective
      <4>3. ~ \E k \in 1 .. n : TRUE
        BY <3>1
      <4> QED BY <4>2, <4>3, <2>2 DEF Good
    <3> QED BY <3>1
  <2>4. n - 1 \in 0 .. Len(ss) /\ n - 1 \in Nat /\ ~(n <= n - 1) /\ n \in 1 .. Len(ss)
    BY <2>2, <2>3, <1>1
  <2>5. Good(n - 1)
    BY <2>1, <2>4
  <2>6. PICK q : q = f[n - 1]
    OBVIOUS
  <2>7. /\ q \in Seq(S)
        /\ \A s : s \in ToSet(q) <=> \E k \in 1 .. n - 1 : s = ss[k] /\ s.date \in D
        /\ IsInjective(ss) => IsInjective(q)
    BY <2>5, <2>6 DEF Good
  <2>8. \A k : k \in 1 .. n <=> (k \in 1 .. n - 1 \/ k = n)
    BY <2>4, <1>1
  <2>9. CASE ss[n].date \in D
    <3>1. f[n] = Append(q, ss[n]) /\ ss[n] \in S
      BY <2>9, <2>4, <2>6, <1>3, <1>1, <2>2, <2>3
    <3>2. ASSUME IsInjective(ss) PROVE ss[n] \notin ToSet(q)
      <4>1. ASSUME NEW k \in 1 .. n - 1 PROVE ss[k] # ss[n]
        <5>1. k \in DOMAIN ss /\ n \in DOMAIN ss /\ k # n
          BY <2>4, <1>1
        <5> QED BY <5>1, <3>2 DEF IsInjective
      <4> QED BY <4>1, <2>7
    <3>3. /\ f[n] \in Seq(S)
          /\ ToSet(f[n]) = ToSet(q) \union {ss[n]}
          /\ IsInjective(ss) => IsInjective(f[n])
      BY <3>1, <3>2, <2>7, AppendIs
    <3>4. ASSUME NEW s
          PROVE  s \in ToSet(f[n]) <=> \E k \in 1 .. n : s = ss[k] /\ s.date \in D
      BY <3>3, <2>7, <2>8, <2>9
    <3> QED BY <3>3, <3>4, <2>2 DEF Good
  <2>10. CASE ss[n].date \notin D
    <3>1. f[n] = q
      BY <2>10, <2>4, <2>6, <1>3, <2>2, <2>3
    <3>2. ASSUME NEW s
          PROVE  s \in ToSet(f[n]) <=> \E k \in 1 .. n : s = ss[k] /\ s.date \in D
      BY <3>1, <2>7, <2>8, <2>10
    <3> QED BY <3>1, <3>2, <2>7, <2>2 DEF Good
  <2> QED BY <2>9, <2>10
<1>5. ASSUME NEW s
      PROVE  s \in ToSet(f[Len(ss)]) <=> s \in {x \in ToSet(ss) : x.date \in D}
  <2>1. s \in ToSet(ss) <=> \E k \in 1 .. Len(ss) : s = ss[k]
    BY <1>1 DEF ToSet
  <2>2. s \in ToSet(f[Len(ss)]) <=> \E k \in 1 .. Len(ss) : s = ss[k] /\ s.date \in D
    BY <1>4
  <2> HIDE DEF Good
  <2> QED BY <2>1, <2>2
<1> QED BY <1>2, <1>4, <1>5

LEMMA ImageIsFinite ==
    ASSUME NEW n \in Nat, NEW f, NEW T, \A t \in T : \E k \in 1 .. n : t = f[k]
    PROVE  IsFiniteSet(T) /\ Cardinality(T) \in Nat
<1>1. CASE T = {}
  BY <1>1, FS_EmptySet
<1>2. CASE T # {}
  <2>1. PICK t0 : t0 \in T
    BY <1>2
  <2>2. PICK g : g = [k \in 1 .. n |-> IF f[k] \in T THEN f[k] ELSE t0]
    OBVIOUS
  <2>3. g \in Surjection(1 .. n, T)
    <3>1. g \in [1 .. n -> T]
      BY <2>1, <2>2
    <3>2. \A t \in T : \E k \in 1 .. n : g[k] = t
      BY <2>2
    <3> QED BY <3>1, <3>2 DEF Surjection
  <2>4. IsFiniteSet(1 .. n)
    BY FS_Interval
  <2>5. IsFiniteSet(T)
    BY <2>3, <2>4, FS_Surjection
  <2> QED BY <2>5, FS_CardinalityType
<1> QED BY <1>1, <1>2

LEMMA DatesFinite ==
    ASSUME NEW S, NEW ss \in Seq(S)
    PROVE  IsFiniteSet(Dates(ss))
<1>1. Len(ss) \in Nat /\ DOMAIN ss = 1 .. Len(ss)
  OBVIOUS
<1>2. PICK f : f = [k \in 1 .. Len(ss) |-> ss[k].date]
  OBVIOUS
<1>3. \A d \in Dates(ss) : \E k \in 1 .. Len(ss) : d = f[k]
  BY <1>1, <1>2 DEF Dates, ToSet
<1> QED BY <1>1, <1>3, ImageIsFinite

(* What stays of a text has nothing more to archive.                         *)
LEMMA StaysStay ==
    ASSUME NEW S, NEW ss \in Seq(S)
    PROVE  Candidates(Stays(ss)) = <<>>
<1>1. PICK ks : ks = Stays(ss)
  OBVIOUS
<1>2. ks \in Seq(S) /\ ToSet(ks) = {s \in ToSet(ss) : s.date \in KeepDates(ss)}
  BY <1>1, ChosenIs DEF Stays
<1>3. Dates(ks) = KeepDates(ss)
  BY <1>2 DEF Dates, KeepDates
<1>4. ASSUME NEW d \in Dates(ks) PROVE d \in KeepDates(ks)
  <2>1. PICK A, B : /\ A = {e \in Dates(ss) : e > d}
                    /\ B = {e \in Dates(ks) : e > d}
    OBVIOUS
  <2>2. B \in SUBSET A /\ A \in SUBSET Dates(ss)
    BY <2>1, <1>3 DEF KeepDates
  <2>3. IsFiniteSet(A) /\ IsFiniteSet(B) /\ Cardinality(B) <= Cardinality(A)
    BY <2>2, DatesFinite, FS_Subset
  <2>4. Cardinality(A) \in Nat /\ Cardinality(B) \in Nat
    BY <2>3, FS_CardinalityType
  <2>5. Cardinality(A) < InlineDays
    BY <2>1, <1>3, <1>4 DEF KeepDates
  <2>6. InlineDays \in Nat
    BY RotationAssumption
  <2>7. Cardinality(B) < InlineDays
    BY <2>3, <2>4, <2>5, <2>6
  <2> QED BY <1>4, <2>1, <2>7 DEF KeepDates
<1>5. Dates(ks) \ KeepDates(ks) = {}
  BY <1>4
<1>6. PICK cs : cs = Candidates(ks)
  OBVIOUS
<1>7. cs \in Seq(S) /\ ToSet(cs) = {}
  BY <1>2, <1>5, <1>6, ChosenIs DEF Candidates
<1>8. Len(cs) = 0
  <2>1. Len(cs) \in Nat /\ DOMAIN cs = 1 .. Len(cs)
    BY <1>7
  <2>2. \A i \in 1 .. Len(cs) : FALSE
    BY <2>1, <1>7 DEF ToSet
  <2> QED BY <2>1, <2>2
<1> QED BY <1>1, <1>6, <1>7, <1>8

LEMMA TextIsSplit ==
    ASSUME NEW S, NEW ss \in Seq(S)
    PROVE  /\ Stays(ss) \in Seq(S) /\ Candidates(ss) \in Seq(S)
           /\ ToSet(ss) = ToSet(Stays(ss)) \union ToSet(Candidates(ss))
           /\ IsInjective(ss) => IsInjective(Stays(ss))
<1>1. \A s \in ToSet(ss) : s.date \in Dates(ss)
  BY DEF Dates
<1>2. ToSet(Stays(ss)) = {s \in ToSet(ss) : s.date \in KeepDates(ss)}
  BY ChosenIs DEF Stays
<1>3. ToSet(Candidates(ss)) = {s \in ToSet(ss) : s.date \in Dates(ss) \ KeepDates(ss)}
  BY ChosenIs DEF Candidates
<1>4. ToSet(ss) = ToSet(Stays(ss)) \union ToSet(Candidates(ss))
  BY <1>1, <1>2, <1>3
<1> QED BY <1>4, ChosenIs DEF Stays, Candidates

LEMMA IntervalSize ==
    ASSUME NEW a \in Int, NEW b \in Int, a <= b
    PROVE  IsFiniteSet(a .. b) /\ Cardinality(a .. b) = b - a + 1
  BY FS_Interval

(* A slug is given out once.                                                 *)
LEMMA FreeSlugIsFree ==
    ASSUME NEW cand \in Seq(Nat), NEW used, IsFiniteSet(used), Cardinality(used) \in Nat
    PROVE  FreeSlug(cand, used) \notin used /\ FreeSlug(cand, used) \in Seq(Nat)
<1>1. CASE cand \notin used
  BY <1>1 DEF FreeSlug
<1>2. CASE cand \in used
  <2> DEFINE N == Cardinality(used)
             I == 2 .. N + 2
             Free == {k \in I : Append(cand, k) \notin used}
  <2>0. N \in Nat
    OBVIOUS
  <2>1. Free \in SUBSET Nat
    OBVIOUS
  <2>2. Free # {}
    <3> SUFFICES ASSUME \A k \in I : Append(cand, k) \in used PROVE FALSE
      OBVIOUS
    <3>1. PICK f : f = [k \in I |-> Append(cand, k)]
      OBVIOUS
    <3>2. f \in [I -> used]
      BY <3>1
    <3>3. IsFiniteSet(I) /\ Cardinality(I) = N + 1
      <4>1. 2 \in Int /\ N + 2 \in Int /\ 2 <= N + 2 /\ (N + 2) - 2 + 1 = N + 1
        BY <2>0
      <4> HIDE DEF N
      <4> QED BY <4>1, IntervalSize
    <3>4. N < N + 1
      OBVIOUS
    <3>5. PICK x, y \in I : x # y /\ f[x] = f[y]
      <4> HIDE DEF I, N
      <4>1. Cardinality(used) < Cardinality(I)
        BY <3>3, <3>4 DEF N
      <4> QED BY <3>2, <3>3, <4>1, FS_PigeonHole
    <3>6. x \in Nat /\ y \in Nat /\ Append(cand, x) = Append(cand, y)
      BY <3>1, <3>5
    <3>7. Append(cand, x)[Len(cand) + 1] = x /\ Append(cand, y)[Len(cand) + 1] = y
      BY <3>6
    <3> QED BY <3>5, <3>6, <3>7
  <2>3. PICK m \in Free : \A k \in Free : m <= k
    <3> HIDE DEF Free
    <3> QED BY <2>1, <2>2, LeastNumber
  <2>4. m \in I /\ Append(cand, m) \notin used /\ \A j \in 2 .. m - 1 : Append(cand, j) \in used
    <3>1. m \in I /\ Append(cand, m) \notin used
      OBVIOUS
    <3>2. ASSUME NEW j \in 2 .. m - 1 PROVE Append(cand, j) \in used
      <4>1. j \in I /\ ~(m <= j)
        BY <3>1
      <4> QED BY <4>1, <2>3
    <3> QED BY <3>1, <3>2
  <2>5. PICK n : n = CHOOSE k \in I : Append(cand, k) \notin used /\ \A j \in 2 .. k - 1 : Append(cand, j) \in used
    OBVIOUS
  <2>6. n \in I /\ Append(cand, n) \notin used
    BY <2>4, <2>5
  <2>7. FreeSlug(cand, used) = Append(cand, n)
    BY <1>2, <2>5 DEF FreeSlug
  <2>8. n \in Nat
    BY <2>6
  <2> QED BY <2>6, <2>7, <2>8
<1> QED BY <1>1, <1>2

LEMMA UsedIsFinite ==
    ASSUME NEW f, NEW ss, NEW i \in Nat \ {0}
    PROVE  IsFiniteSet(Used(f, ss, i)) /\ Cardinality(Used(f, ss, i)) \in Nat
<1>1. \A t \in Used(f, ss, i) : \E k \in 1 .. i - 1 : t = f[k]
  BY DEF Used
<1>2. i - 1 \in Nat
  OBVIOUS
<1> QED BY <1>1, <1>2, ImageIsFinite

LEMMA UsedBefore ==
    ASSUME NEW f, NEW g, NEW ss, NEW i, \A k \in 1 .. i - 1 : f[k] = g[k]
    PROVE  Used(f, ss, i) = Used(g, ss, i)
  BY DEF Used

LEMMA SlugsStepwise ==
    ASSUME NEW ss, Len(ss) \in Nat, DOMAIN ss = 1 .. Len(ss)
    PROVE  \E f : /\ f = [i \in 1 .. Len(ss) |-> FreeSlug(ss[i].cand, Used(f, ss, i))]
                  /\ AssignSlugs(ss) = f
<1> DEFINE Rule(f, m) == [i \in 1 .. m |-> FreeSlug(ss[i].cand, Used(f, ss, i))]
           Upto(m) == \E f : f = Rule(f, m)
           Bad == {m \in Nat : ~Upto(m)}
<1>1. Upto(Len(ss))
  <2> SUFFICES ASSUME ~Upto(Len(ss)) PROVE FALSE
    OBVIOUS
  <2> HIDE DEF Upto
  <2>1. PICK m \in Bad : \A k \in Bad : m <= k
    BY LeastNumber
  <2>2. m # 0
    <3>1. PICK f : f = [i \in 1 .. 0 |-> <<>>]
      OBVIOUS
    <3>2. f = Rule(f, 0)
      BY <3>1
    <3> QED BY <3>2, <2>1 DEF Upto
  <2>3. m - 1 \in Nat /\ m \in Nat /\ ~(m <= m - 1)
    BY <2>1, <2>2
  <2>4. Upto(m - 1)
    BY <2>1, <2>3
  <2>5. PICK g : g = Rule(g, m - 1)
    BY <2>4 DEF Upto
  <2>6. PICK f : f = [i \in 1 .. m |->
                        IF i # m THEN g[i] ELSE FreeSlug(ss[m].cand, Used(g, ss, m))]
    OBVIOUS
  <2>7. f = Rule(f, m)
    <3>1. ASSUME NEW i \in 1 .. m
          PROVE  f[i] = FreeSlug(ss[i].cand, Used(f, ss, i))
      <4>0. \A k \in 1 .. i - 1 : f[k] = g[k]
        BY <2>6, <2>3
      <4>1. Used(f, ss, i) = Used(g, ss, i)
        BY <4>0, UsedBefore
      <4>2. CASE i = m
        BY <4>1, <4>2, <2>6
      <4>3. CASE i # m
        <5>1. i \in 1 .. m - 1 /\ f[i] = g[i]
          BY <4>3, <2>6, <2>3
        <5>2. g[i] = FreeSlug(ss[i].cand, Used(g, ss, i))
          BY <5>1, <2>5
        <5> QED BY <5>1, <5>2, <4>1
      <4> QED BY <4>2, <4>3
    <3>2. f = [i \in 1 .. m |-> f[i]]
      BY <2>6
    <3> QED BY <3>1, <3>2
  <2> QED BY <2>1, <2>7 DEF Upto
<1>2. PICK f : f = CHOOSE g : g = Rule(g, Len(ss))
  OBVIOUS
<1>3. f = Rule(f, Len(ss))
  BY <1>1, <1>2
<1>4. AssignSlugs(ss) = f
  BY <1>2 DEF AssignSlugs
<1> QED BY <1>3, <1>4

(* Sections of one date get different slugs.                                 *)
LEMMA SlugsDiffer ==
    ASSUME NEW ss \in Seq(Stock)
    PROVE  /\ \A i \in 1 .. Len(ss) : AssignSlugs(ss)[i] \in Seq(Nat)
           /\ \A i, j \in 1 .. Len(ss) :
                 i # j /\ ss[i].date = ss[j].date => AssignSlugs(ss)[i] # AssignSlugs(ss)[j]
<1>1. Len(ss) \in Nat /\ DOMAIN ss = 1 .. Len(ss) /\ \A n \in 1 .. Len(ss) : ss[n] \in Stock
  OBVIOUS
<1>2. PICK f : /\ f = [i \in 1 .. Len(ss) |-> FreeSlug(ss[i].cand, Used(f, ss, i))]
               /\ AssignSlugs(ss) = f
  BY <1>1, SlugsStepwise
<1>3. ASSUME NEW i \in 1 .. Len(ss)
      PROVE  f[i] \notin Used(f, ss, i) /\ f[i] \in Seq(Nat)
  <2>1. f[i] = FreeSlug(ss[i].cand, Used(f, ss, i))
    BY <1>2
  <2>2. IsFiniteSet(Used(f, ss, i)) /\ Cardinality(Used(f, ss, i)) \in Nat
    BY UsedIsFinite
  <2>3. ss[i].cand \in Seq(Nat)
    BY <1>1, RotationAssumption
  <2> QED BY <2>1, <2>2, <2>3, FreeSlugIsFree
<1>4. ASSUME NEW i \in 1 .. Len(ss), NEW j \in 1 .. Len(ss), i < j, ss[i].date = ss[j].date
      PROVE  f[i] # f[j]
  <2>1. i \in 1 .. j - 1
    BY <1>4
  <2>2. f[i] \in Used(f, ss, j)
    BY <2>1, <1>4 DEF Used
  <2> QED BY <2>2, <1>3
<1>5. \A i, j \in 1 .. Len(ss) : i # j => i < j \/ j < i
  OBVIOUS
<1>6. \A i, j \in 1 .. Len(ss) : i # j /\ ss[i].date = ss[j].date => f[i] # f[j]
  BY <1>4, <1>5
<1> QED BY <1>2, <1>3, <1>6

(* The archive note of a section: a name of its scope and date that no other *)
(* section of the text has.                                                  *)
Filings == [scope : Scopes, dir : Scopes \union {"archive/handoffs"}]
CardPaths == Filings \X Nat \X Seq(Nat)

LEMMA FilingIs ==
    ASSUME NEW c \in Cards, NEW me, me.scope \in Scopes \union {""}
    PROVE  Filing(me, c) \in Filings
<1>1. Scope[c] \in Scopes
  BY DEF Scopes
<1>2. PICK x : x = (IF me.scope = "" THEN Scope[c] ELSE me.scope)
  OBVIOUS
<1>3. x \in Scopes
  BY <1>1, <1>2
<1>4. PICK d : d = (IF c \in Homes /\ Stem[c] = x THEN x ELSE "archive/handoffs")
  OBVIOUS
<1>5. PICK D : D = Scopes \union {"archive/handoffs"} /\ d \in D
  BY <1>3, <1>4
<1>6. Filing(me, c) = [scope |-> x, dir |-> d]
  BY <1>2, <1>4 DEF Filing
<1>7. [scope |-> x, dir |-> d] \in [scope : Scopes, dir : D]
  BY <1>3, <1>5
<1> QED BY <1>5, <1>6, <1>7 DEF Filings

LEMMA PathsDiffer ==
    ASSUME NEW f \in Filings, NEW ss \in Seq(Stock), IsInjective(ss)
    PROVE  /\ \A s \in ToSet(ss) : ArchivePath(f, ss, s) \in CardPaths /\ ArchivePath(f, ss, s)[1] = f
           /\ \A s, t \in ToSet(ss) : ArchivePath(f, ss, s) = ArchivePath(f, ss, t) => s = t
<1>1. Len(ss) \in Nat /\ DOMAIN ss = 1 .. Len(ss) /\ \A n \in 1 .. Len(ss) : ss[n] \in Stock
  OBVIOUS
<1>2. ASSUME NEW s \in ToSet(ss)
      PROVE  \E i \in 1 .. Len(ss) : ss[i] = s /\ ArchivePath(f, ss, s) = <<f, s.date, AssignSlugs(ss)[i]>>
  <2>1. PICK i : i = CHOOSE k \in DOMAIN ss : ss[k] = s
    OBVIOUS
  <2>2. i \in DOMAIN ss /\ ss[i] = s
    BY <2>1 DEF ToSet
  <2>3. ArchivePath(f, ss, s) = <<f, s.date, AssignSlugs(ss)[i]>>
    BY <2>1 DEF ArchivePath
  <2> QED BY <1>1, <2>2, <2>3
<1>3. ASSUME NEW s \in ToSet(ss)
      PROVE  ArchivePath(f, ss, s) \in CardPaths /\ ArchivePath(f, ss, s)[1] = f
  <2>1. PICK i \in 1 .. Len(ss) : ss[i] = s /\ ArchivePath(f, ss, s) = <<f, s.date, AssignSlugs(ss)[i]>>
    BY <1>2
  <2>2. AssignSlugs(ss)[i] \in Seq(Nat)
    BY SlugsDiffer
  <2>3. s.date \in Nat
    BY <1>1, <2>1, RotationAssumption
  <2> QED BY <2>1, <2>2, <2>3 DEF CardPaths
<1>4. ASSUME NEW s \in ToSet(ss), NEW t \in ToSet(ss), ArchivePath(f, ss, s) = ArchivePath(f, ss, t)
      PROVE  s = t
  <2>1. PICK i \in 1 .. Len(ss) : ss[i] = s /\ ArchivePath(f, ss, s) = <<f, s.date, AssignSlugs(ss)[i]>>
    BY <1>2
  <2>2. PICK j \in 1 .. Len(ss) : ss[j] = t /\ ArchivePath(f, ss, t) = <<f, t.date, AssignSlugs(ss)[j]>>
    BY <1>2
  <2>3. s.date = t.date /\ AssignSlugs(ss)[i] = AssignSlugs(ss)[j]
    BY <2>1, <2>2, <1>4
  <2>4. i = j
    BY <2>1, <2>2, <2>3, SlugsDiffer
  <2> QED BY <2>1, <2>2, <2>4
<1> QED BY <1>3, <1>4

CardFiles == {<<c>> : c \in Cards} \union CardPaths
CardTexts == [sections : Seq(Stock), index : SUBSET (CardPaths \X Stock)]
CallRecords ==
    [at : {"idle", "walk", "check", "write", "cut"}, scope : Scopes \union {""}, left : SUBSET Cards, card : Cards \union {""},
     text : CardTexts, todo : Seq(Stock), index : SUBSET (CardPaths \X Stock),
     fresh : SUBSET CardFiles]

RotationTyped ==
    /\ card \in [Cards -> CardTexts]
    /\ DOMAIN archive \subseteq CardPaths
    /\ rot \in [Rotators -> CallRecords]
    /\ written \subseteq Cards \X Stock
    /\ broken \in BOOLEAN
    /\ \A r \in Rotators : rot[r].at = "idle" => rot[r] = Idle

(* A call that holds the text of a card: the text names every section once,  *)
(* has some to archive, and each of them waits or has its index entry.       *)
OnCard(me) == me.at \in {"check", "write", "cut"}

CallFits(me) ==
    LET ss == me.text.sections
    IN  /\ me.card \in Cards
        /\ IsInjective(ss)
        /\ ToSet(me.todo) \subseteq ToSet(ss)
        /\ me.todo = <<>> <=> me.at = "cut"
        /\ Candidates(ss) # <<>>
        /\ \A s \in ToSet(Candidates(ss)) :
              s \in ToSet(me.todo) \/ \E e \in me.index : e[2] = s

CallsFit == \A r \in Rotators : OnCard(rot[r]) => CallFits(rot[r])

TextsWritten ==
    /\ \A c \in Cards : /\ IsInjective(card[c].sections)
                        /\ \A s \in ToSet(card[c].sections) : <<c, s>> \in written
    /\ \A r \in Rotators : OnCard(rot[r]) =>
          \A s \in ToSet(rot[r].text.sections) : <<rot[r].card, s>> \in written
    /\ \A p \in DOMAIN archive : \E c \in Cards : <<c, archive[p]>> \in written
    /\ \A v, w \in written : v[2] = w[2] => v[1] = w[1]

(* Two calls on one card, or on cards filed under one name, met there.       *)
Together(me, other) ==
    \/ me.card = other.card
    \/ Filing(me, me.card) = Filing(other, other.card)

OthersMet ==
    \A q, r \in Rotators :
        q # r /\ OnCard(rot[q]) /\ OnCard(rot[r]) /\ Together(rot[q], rot[r])
            => {rot[q].card, rot[r].card} \in met

Raced(c) == \E v \in raced : v[1] = c

Leads(c, e) ==
    e[1] \in DOMAIN archive /\ archive[e[1]] = e[2] /\ <<c, e[2]>> \in written

(* Whoever wrote this text has the excuse of the races.                      *)
OwnerExcused(s) == \A c \in Cards : <<c, s>> \in written => MayBeOverwritten(c)

EntriesLead ==
    /\ \A c \in Cards : ~MayBeOverwritten(c) => \A e \in card[c].index : Leads(c, e)
    /\ \A r \in Rotators : OnCard(rot[r]) /\ ~MayBeOverwritten(rot[r].card) =>
          \A e \in rot[r].index \union rot[r].text.index : Leads(rot[r].card, e)

(* A note about to be written is not there, or is the same, or has the       *)
(* excuse of the races.                                                      *)
WritesFit ==
    \A r \in Rotators :
        rot[r].at = "write" /\ Path(r) \in DOMAIN archive =>
            archive[Path(r)] = Head(rot[r].todo) \/ OwnerExcused(archive[Path(r)])

(* Without a handoff in between, the calls on a card hold one text, and the  *)
(* card has it or what stays of it.                                          *)
OneText ==
    \A r \in Rotators : OnCard(rot[r]) /\ ~Raced(rot[r].card) =>
        /\ card[rot[r].card].sections \in {rot[r].text.sections, Stays(rot[r].text.sections)}
        /\ \A q \in Rotators : OnCard(rot[q]) /\ rot[q].card = rot[r].card =>
              rot[q].text.sections = rot[r].text.sections

(* What a card has and a call on it does not was written in between.         *)
SinceRead ==
    \A r \in Rotators : OnCard(rot[r]) /\ ~MayBeOverwritten(rot[r].card) =>
        \A s \in ToSet(card[rot[r].card].sections) :
            s \in ToSet(rot[r].text.sections) \/ <<rot[r].card, s>> \in raced

(* What is not indexed is on some call's list.                               *)
ListsHold == broken \/ \A f \in outdated : \E r \in Rotators : f \in rot[r].fresh

RotationInv ==
    /\ RotationTyped /\ CallsFit /\ TextsWritten /\ OthersMet /\ EntriesLead
    /\ WritesFit /\ OneText /\ SinceRead /\ ListsHold /\ LostOnlyToARace

LEMMA RotationInitially == RotationInit => RotationInv
<1> SUFFICES ASSUME RotationInit PROVE RotationInv
  OBVIOUS
<1>1. /\ \A c \in Cards : card[c].sections = <<>> /\ card[c].index = {}
      /\ \A r \in Rotators : rot[r] = Idle
      /\ DOMAIN archive = {} /\ outdated = {} /\ written = {} /\ raced = {} /\ met = {} /\ broken = FALSE
  BY DEF RotationInit
<1>2. ~OnCard(Idle) /\ Idle.at # "write"
  BY DEF Idle, OnCard
<1>3. ToSet(<<>>) = {} /\ IsInjective(<<>>)
  BY DEF ToSet, IsInjective
<1>4. RotationTyped
  <2>1. card \in [Cards -> CardTexts]
    BY DEF RotationInit, CardTexts
  <2>2. Idle \in CallRecords
    BY DEF Idle, CallRecords, CardTexts
  <2>3. rot \in [Rotators -> CallRecords]
    BY <2>2 DEF RotationInit
  <2> QED BY <1>1, <2>1, <2>3 DEF RotationTyped
<1>5. TextsWritten
  BY <1>1, <1>2, <1>3 DEF TextsWritten
<1>6. CallsFit /\ OthersMet /\ OneText /\ SinceRead /\ ListsHold /\ WritesFit /\ EntriesLead
  BY <1>1, <1>2 DEF CallsFit, OthersMet, OneText, SinceRead, ListsHold, WritesFit, EntriesLead
<1>7. LostOnlyToARace
  BY <1>1 DEF LostOnlyToARace
<1> QED BY <1>4, <1>5, <1>6, <1>7 DEF RotationInv

(* The invariant gives the property.                                         *)
LEMMA RotationInvGives == RotationInv => RotationKeeps
<1> SUFFICES ASSUME RotationInv PROVE RotationKeeps
  OBVIOUS
<1>1. IndexLeads
  <2>1. ASSUME NEW c \in Cards, NEW e \in card[c].index
        PROVE  \/ e[1] \in DOMAIN archive /\ archive[e[1]] = e[2]
               \/ MayBeOverwritten(c)
    BY DEF RotationInv, EntriesLead, Leads
  <2>2. ASSUME NEW c \in Cards, NEW i \in DOMAIN card[c].sections, NEW j \in DOMAIN card[c].sections, i # j
        PROVE  ArchivePath(Filing(Idle, c), card[c].sections, card[c].sections[i])
                  # ArchivePath(Filing(Idle, c), card[c].sections, card[c].sections[j])
    <3>0. Filing(Idle, c) \in Filings
      BY FilingIs DEF Idle
    <3>1. PICK ss : ss = card[c].sections
      OBVIOUS
    <3>2. ss \in Seq(Stock) /\ IsInjective(ss)
      BY <3>1 DEF RotationInv, RotationTyped, CardTexts, TextsWritten
    <3>3. ss[i] \in ToSet(ss) /\ ss[j] \in ToSet(ss) /\ ss[i] # ss[j]
      BY <3>1, <3>2, <2>2 DEF ToSet, IsInjective
    <3>4. ArchivePath(Filing(Idle, c), ss, ss[i]) # ArchivePath(Filing(Idle, c), ss, ss[j])
      BY <3>0, <3>2, <3>3, PathsDiffer
    <3> QED BY <3>1, <3>4
  <2> QED BY <2>1, <2>2 DEF IndexLeads
<1>2. RotatedIsIndexed
  <2> SUFFICES ASSUME \A r \in Rotators : rot[r].at = "idle", ~broken PROVE outdated = {}
    BY DEF RotatedIsIndexed
  <2>1. \A r \in Rotators : rot[r].fresh = {}
    <3>1. Idle.fresh = {}
      BY DEF Idle
    <3> QED BY <3>1 DEF RotationInv, RotationTyped
  <2> QED BY <2>1 DEF RotationInv, ListsHold
<1> QED BY <1>1, <1>2 DEF RotationInv, RotationKeeps, RotatedIsFound

LEMMA HeadOf ==
    ASSUME NEW S, NEW q \in Seq(S), q # <<>>
    PROVE  /\ Head(q) \in ToSet(q) /\ Head(q) \in S
           /\ ToSet(q) = ToSet(Tail(q)) \union {Head(q)}
           /\ Tail(q) \in Seq(S) /\ (Tail(q) = <<>> <=> Len(q) = 1)
<1>1. /\ Len(q) \in Nat /\ Len(q) >= 1 /\ DOMAIN q = 1 .. Len(q) /\ Head(q) = q[1]
      /\ Tail(q) \in Seq(S) /\ Len(Tail(q)) = Len(q) - 1 /\ DOMAIN Tail(q) = 1 .. Len(q) - 1
      /\ \A i \in 1 .. Len(q) - 1 : Tail(q)[i] = q[i + 1]
  OBVIOUS
<1>2. 1 \in DOMAIN q
  BY <1>1
<1>3. Head(q) \in ToSet(q)
  BY <1>1, <1>2 DEF ToSet
<1>4. ASSUME NEW x \in ToSet(q) PROVE x = Head(q) \/ x \in ToSet(Tail(q))
  <2>1. PICK i \in 1 .. Len(q) : x = q[i]
    BY <1>1 DEF ToSet
  <2>2. CASE i = 1
    BY <2>1, <2>2, <1>1
  <2>3. CASE i # 1
    <3>1. i - 1 \in 1 .. Len(q) - 1 /\ (i - 1) + 1 = i
      BY <2>3, <1>1
    <3>2. Tail(q)[i - 1] = x
      BY <3>1, <2>1, <1>1
    <3> QED BY <3>1, <3>2, <1>1 DEF ToSet
  <2> QED BY <2>2, <2>3
<1>5. ASSUME NEW x \in ToSet(Tail(q)) PROVE x \in ToSet(q)
  <2>1. PICK i \in 1 .. Len(q) - 1 : x = q[i + 1]
    BY <1>1 DEF ToSet
  <2>2. i + 1 \in DOMAIN q
    BY <1>1
  <2> QED BY <2>1, <2>2 DEF ToSet
<1>6. Tail(q) = <<>> <=> Len(q) = 1
  BY <1>1
<1>7. Head(q) \in S
  BY <1>1, <1>2
<1> QED BY <1>1, <1>3, <1>4, <1>5, <1>6, <1>7

LEMMA PrependIs ==
    ASSUME NEW S, NEW q \in Seq(S), NEW s \in S
    PROVE  /\ <<s>> \o q \in Seq(S)
           /\ ToSet(<<s>> \o q) = ToSet(q) \union {s}
           /\ IsInjective(q) /\ s \notin ToSet(q) => IsInjective(<<s>> \o q)
<1>1. PICK a : a = <<s>> \o q
  OBVIOUS
<1>2. /\ a \in Seq(S) /\ Len(a) = Len(q) + 1 /\ a[1] = s
      /\ \A i \in 2 .. Len(q) + 1 : a[i] = q[i - 1]
      /\ DOMAIN q = 1 .. Len(q) /\ DOMAIN a = 1 .. Len(q) + 1 /\ Len(q) \in Nat
  BY <1>1
<1>3. ToSet(a) = ToSet(q) \union {s}
  <2>1. ASSUME NEW x \in ToSet(a) PROVE x \in ToSet(q) \union {s}
    <3>1. PICK i \in DOMAIN a : x = a[i]
      BY DEF ToSet
    <3>2. (i \in 2 .. Len(q) + 1 /\ i - 1 \in 1 .. Len(q)) \/ i = 1
      BY <1>2
    <3> QED BY <3>1, <3>2, <1>2 DEF ToSet
  <2>2. ASSUME NEW x \in ToSet(q) PROVE x \in ToSet(a)
    <3>1. PICK i \in DOMAIN q : x = q[i]
      BY DEF ToSet
    <3>2. i + 1 \in 2 .. Len(q) + 1 /\ (i + 1) - 1 = i
      BY <1>2, <3>1
    <3>3. a[i + 1] = x /\ i + 1 \in DOMAIN a
      BY <3>1, <3>2, <1>2
    <3> QED BY <3>3 DEF ToSet
  <2>3. s \in ToSet(a)
    <3>1. 1 \in DOMAIN a
      BY <1>2
    <3> QED BY <3>1, <1>2 DEF ToSet
  <2> QED BY <2>1, <2>2, <2>3
<1>4. ASSUME IsInjective(q), s \notin ToSet(q) PROVE IsInjective(a)
  <2> SUFFICES ASSUME NEW i \in 1 .. Len(q) + 1, NEW j \in 1 .. Len(q) + 1, a[i] = a[j]
               PROVE  i = j
    BY <1>2 DEF IsInjective
  <2>1. \A k \in 1 .. Len(q) : q[k] # s
    BY <1>4, <1>2 DEF ToSet
  <2>2. /\ (i \in 2 .. Len(q) + 1 /\ i - 1 \in 1 .. Len(q)) \/ i = 1
        /\ (j \in 2 .. Len(q) + 1 /\ j - 1 \in 1 .. Len(q)) \/ j = 1
    BY <1>2
  <2>3. CASE i # 1 /\ j # 1
    <3>1. q[i - 1] = q[j - 1] /\ i - 1 \in DOMAIN q /\ j - 1 \in DOMAIN q
      BY <2>2, <2>3, <1>2
    <3>2. i - 1 = j - 1
      BY <3>1, <1>4 DEF IsInjective
    <3> QED BY <3>2
  <2>4. CASE i = 1 /\ j # 1
    BY <2>1, <2>2, <2>4, <1>2
  <2>5. CASE i # 1 /\ j = 1
    BY <2>1, <2>2, <2>5, <1>2
  <2> QED BY <2>3, <2>4, <2>5
<1> QED BY <1>1, <1>2, <1>3, <1>4

(* The next section of a call on a card, and the name of its note.           *)
LEMMA NextNote ==
    ASSUME RotationInv, NEW r \in Rotators, OnCard(rot[r]), rot[r].at # "cut"
    PROVE  /\ rot[r] \in CallRecords /\ rot[r].todo \in Seq(Stock) /\ rot[r].todo # <<>>
           /\ rot[r].card \in Cards
           /\ rot[r].text.sections \in Seq(Stock) /\ IsInjective(rot[r].text.sections)
           /\ Head(rot[r].todo) \in ToSet(rot[r].text.sections)
           /\ Head(rot[r].todo) \in Stock
           /\ Path(r) \in CardPaths /\ Path(r)[1] = Filing(rot[r], rot[r].card)
           /\ Filing(rot[r], rot[r].card) \in Filings
<1>1. rot[r] \in CallRecords /\ CallFits(rot[r])
  BY DEF RotationInv, RotationTyped, CallsFit
<1>2. /\ rot[r].todo \in Seq(Stock) /\ rot[r].text.sections \in Seq(Stock)
  BY <1>1 DEF CallRecords, CardTexts
<1>3. /\ rot[r].todo # <<>> /\ rot[r].card \in Cards /\ IsInjective(rot[r].text.sections)
      /\ ToSet(rot[r].todo) \subseteq ToSet(rot[r].text.sections)
  BY <1>1 DEF CallFits
<1>4. Head(rot[r].todo) \in ToSet(rot[r].text.sections) /\ Head(rot[r].todo) \in Stock
  BY <1>2, <1>3, HeadOf
<1>5. Filing(rot[r], rot[r].card) \in Filings
  BY <1>1, <1>3, FilingIs DEF CallRecords
<1>6. Path(r) \in CardPaths /\ Path(r)[1] = Filing(rot[r], rot[r].card)
  BY <1>2, <1>3, <1>4, <1>5, PathsDiffer DEF Path
<1> QED BY <1>1, <1>2, <1>3, <1>4, <1>5, <1>6

(* A step that no card, note or call on a card takes part in.                *)
RotationCore ==
    /\ CallsFit /\ TextsWritten /\ OthersMet /\ EntriesLead
    /\ WritesFit /\ OneText /\ SinceRead /\ LostOnlyToARace

LEMMA CalmStep ==
    ASSUME RotationInv, UNCHANGED <<card, archive, written, raced, met>>,
           \A q \in Rotators : OnCard(rot'[q]) => rot'[q] = rot[q]
    PROVE  RotationCore'
<1>1. CallsFit'
  BY DEF RotationInv, CallsFit
<1>2. TextsWritten'
  BY DEF RotationInv, TextsWritten
<1>3. OthersMet'
  BY DEF RotationInv, OthersMet
<1>4. EntriesLead'
  BY DEF RotationInv, EntriesLead, MayBeOverwritten, Raced, Leads
<1>5. WritesFit'
  <2> SUFFICES ASSUME NEW q \in Rotators, rot'[q].at = "write", Path(q)' \in DOMAIN archive
               PROVE  archive[Path(q)'] = Head(rot'[q].todo) \/ OwnerExcused(archive[Path(q)'])
    BY DEF WritesFit, OwnerExcused, MayBeOverwritten
  <2>1. rot'[q] = rot[q] /\ Path(q)' = Path(q)
    BY DEF OnCard, Path
  <2> QED BY <2>1 DEF RotationInv, WritesFit
<1>6. OneText'
  BY DEF RotationInv, OneText, Raced
<1>7. SinceRead'
  BY DEF RotationInv, SinceRead, MayBeOverwritten, Raced
<1>8. LostOnlyToARace'
  BY DEF RotationInv, LostOnlyToARace, InCard, InArchive, MayBeOverwritten
<1> QED BY <1>1, <1>2, <1>3, <1>4, <1>5, <1>6, <1>7, <1>8 DEF RotationCore

(* An archive note is only written over where the races excuse it.           *)
ArchiveStands ==
    \A p \in DOMAIN archive :
        p \in DOMAIN archive' /\ (archive'[p] = archive[p] \/ OwnerExcused(archive[p]))

(* The races and the entries after a step.                                   *)
RacedThen(c) == \E v \in raced' : v[1] = c
ExcusedThen(c) ==
    (\E d \in Cards \ {c} : {c, d} \in met') \/ ({c} \in met' /\ RacedThen(c))
LeadsThen(c, e) ==
    e[1] \in DOMAIN archive' /\ archive'[e[1]] = e[2] /\ <<c, e[2]>> \in written'
OwnerExcusedThen(s) == \A c \in Cards : <<c, s>> \in written' => ExcusedThen(c)

LEMMA EntriesLeadThen ==
    ASSUME \A c \in Cards : ~ExcusedThen(c) => \A e \in card'[c].index : LeadsThen(c, e),
           \A r \in Rotators : OnCard(rot'[r]) /\ ~ExcusedThen(rot'[r].card) =>
              \A e \in rot'[r].index \union rot'[r].text.index : LeadsThen(rot'[r].card, e)
    PROVE  EntriesLead'
  BY DEF EntriesLead, OnCard, MayBeOverwritten, Raced, ExcusedThen, RacedThen, Leads, LeadsThen

LEMMA WritesFitThen ==
    ASSUME \A r \in Rotators :
             rot'[r].at = "write" /\ Path(r)' \in DOMAIN archive' =>
                archive'[Path(r)'] = Head(rot'[r].todo) \/ OwnerExcusedThen(archive'[Path(r)'])
    PROVE  WritesFit'
  BY DEF WritesFit, OwnerExcused, OwnerExcusedThen, MayBeOverwritten, ExcusedThen, RacedThen

LEMMA OneTextThen ==
    ASSUME \A r \in Rotators : OnCard(rot'[r]) /\ ~RacedThen(rot'[r].card) =>
             /\ card'[rot'[r].card].sections
                   \in {rot'[r].text.sections, Stays(rot'[r].text.sections)}
             /\ \A q \in Rotators : OnCard(rot'[q]) /\ rot'[q].card = rot'[r].card =>
                   rot'[q].text.sections = rot'[r].text.sections
    PROVE  OneText'
  BY DEF OneText, OnCard, Raced, RacedThen

LEMMA SinceReadThen ==
    ASSUME \A r \in Rotators : OnCard(rot'[r]) /\ ~ExcusedThen(rot'[r].card) =>
             \A s \in ToSet(card'[rot'[r].card].sections) :
                s \in ToSet(rot'[r].text.sections) \/ <<rot'[r].card, s>> \in raced'
    PROVE  SinceRead'
  BY DEF SinceRead, OnCard, MayBeOverwritten, Raced, ExcusedThen, RacedThen

LEMMA LeadsStand ==
    ASSUME NEW c \in Cards, NEW e, Leads(c, e), ~MayBeOverwritten(c), ArchiveStands, written' = written
    PROVE  LeadsThen(c, e)
  BY DEF Leads, LeadsThen, ArchiveStands, OwnerExcused

LEMMA FoundStand ==
    ASSUME NEW c \in Cards, NEW s, <<c, s>> \in written, InArchive(s), ~MayBeOverwritten(c), ArchiveStands
    PROVE  InArchive(s)'
  BY DEF InArchive, ArchiveStands, OwnerExcused

LEMMA TogetherStays ==
    ASSUME RotationInv, met' = met,
           \A q \in Rotators : /\ OnCard(rot'[q]) => OnCard(rot[q])
                              /\ rot'[q].card = rot[q].card /\ rot'[q].scope = rot[q].scope
    PROVE  OthersMet'
<1> SUFFICES ASSUME NEW p \in Rotators, NEW q \in Rotators, p # q,
                    OnCard(rot'[p]), OnCard(rot'[q]), Together(rot'[p], rot'[q])
             PROVE  {rot'[p].card, rot'[q].card} \in met
  BY DEF OthersMet
<1>1. \A a, b, c : a.scope = b.scope => Filing(a, c) = Filing(b, c)
  BY DEF Filing
<1>2. Together(rot[p], rot[q])
  BY <1>1 DEF Together
<1> QED BY <1>2 DEF RotationInv, OthersMet

(* The record of a call that has dealt with its next section.                *)
DealtWith(r, k) ==
    /\ k.at = IF Len(rot[r].todo) = 1 THEN "cut" ELSE "check"
    /\ k.scope = rot[r].scope
    /\ k.card = rot[r].card /\ k.text = rot[r].text /\ k.todo = Tail(rot[r].todo)
    /\ k.index = rot[r].index \union {<<Path(r), Head(rot[r].todo)>>}

LEMMA DealtStep ==
    ASSUME RotationInv, NEW r \in Rotators, rot[r].at \in {"check", "write"},
           NEW k, DealtWith(r, k), rot' = [rot EXCEPT ![r] = k],
           UNCHANGED <<card, written, raced, met>>,
           ArchiveStands,
           DOMAIN archive' \subseteq DOMAIN archive \union {Path(r)},
           \A p \in DOMAIN archive : p # Path(r) => archive'[p] = archive[p],
           Path(r) \in DOMAIN archive' /\ archive'[Path(r)] = Head(rot[r].todo)
    PROVE  RotationCore'
<1> DEFINE c == rot[r].card
           ss == rot[r].text.sections
           s == Head(rot[r].todo)
           e == <<Path(r), s>>
<1>1. /\ OnCard(rot[r]) /\ rot[r].at # "cut" /\ OnCard(k)
      /\ k.card = c /\ k.text = rot[r].text /\ k.todo = Tail(rot[r].todo)
      /\ k.index = rot[r].index \union {e}
  BY DEF DealtWith, OnCard
<1>2. /\ rot[r].todo \in Seq(Stock) /\ rot[r].todo # <<>> /\ c \in Cards
      /\ ss \in Seq(Stock) /\ IsInjective(ss)
      /\ s \in ToSet(ss) /\ Path(r) \in CardPaths /\ Path(r)[1] = Filing(rot[r], c)
  BY <1>1, NextNote
<1>3. /\ ToSet(rot[r].todo) = ToSet(k.todo) \union {s}
      /\ k.todo = <<>> <=> Len(rot[r].todo) = 1
  BY <1>1, <1>2, HeadOf
<1>4. /\ rot'[r] = k /\ \A q \in Rotators : q # r => rot'[q] = rot[q]
      /\ \A q \in Rotators : /\ OnCard(rot'[q]) => OnCard(rot[q])
                             /\ rot'[q].card = rot[q].card /\ rot'[q].text = rot[q].text
                             /\ rot'[q].scope = rot[q].scope
  BY <1>1 DEF RotationInv, RotationTyped, DealtWith
<1>5. \A d : ExcusedThen(d) <=> MayBeOverwritten(d)
  BY DEF MayBeOverwritten, Raced, ExcusedThen, RacedThen
<1> HIDE DEF c, ss, s, e
<1>6. CallFits(k)
  <2>1. CallFits(rot[r])
    BY <1>1 DEF RotationInv, CallsFit
  <2>2. k.todo = <<>> <=> k.at = "cut"
    BY <1>3 DEF DealtWith
  <2>3. ToSet(k.todo) \subseteq ToSet(k.text.sections)
    BY <1>1, <1>3, <2>1 DEF CallFits
  <2>4. ASSUME NEW x \in ToSet(Candidates(k.text.sections))
        PROVE  x \in ToSet(k.todo) \/ \E f \in k.index : f[2] = x
    <3>1. x \in ToSet(rot[r].todo) \/ \E f \in rot[r].index : f[2] = x
      BY <1>1, <2>1 DEF CallFits
    <3>2. e \in k.index /\ e[2] = s
      BY <1>1 DEF e
    <3> QED BY <3>1, <3>2, <1>1, <1>3
  <2>5. k.card \in Cards /\ IsInjective(k.text.sections) /\ Candidates(k.text.sections) # <<>>
    BY <1>1, <2>1 DEF CallFits, c
  <2> QED BY <2>2, <2>3, <2>4, <2>5 DEF CallFits
<1>7. CallsFit'
  BY <1>4, <1>6 DEF RotationInv, CallsFit
<1>8. TextsWritten'
  <2>1. /\ \A d \in Cards : /\ IsInjective(card[d].sections)
                            /\ \A x \in ToSet(card[d].sections) : <<d, x>> \in written
        /\ \A q \in Rotators : OnCard(rot'[q]) =>
              \A x \in ToSet(rot'[q].text.sections) : <<rot'[q].card, x>> \in written
    BY <1>4 DEF RotationInv, TextsWritten
  <2>2. <<c, s>> \in written
    BY <1>1, <1>2 DEF RotationInv, TextsWritten, c, ss
  <2>3. \A p \in DOMAIN archive' : \E d \in Cards : <<d, archive'[p]>> \in written
    BY <2>2, <1>2 DEF RotationInv, TextsWritten, s
  <2> QED BY <2>1, <2>3 DEF RotationInv, TextsWritten, OnCard
<1>9. OthersMet'
  BY <1>4, TogetherStays
<1>10. EntriesLead'
  <2>1. ASSUME NEW d \in Cards, ~ExcusedThen(d), NEW f \in card[d].index PROVE LeadsThen(d, f)
    BY <2>1, <1>5, LeadsStand DEF RotationInv, EntriesLead
  <2>2. ASSUME NEW q \in Rotators, OnCard(rot'[q]), ~MayBeOverwritten(rot[q].card),
               NEW f \in rot'[q].index \union rot[q].text.index
        PROVE  LeadsThen(rot[q].card, f)
    <3>1. CASE f \in rot[q].index \union rot[q].text.index
      <4>1. Leads(rot[q].card, f)
        BY <2>2, <3>1, <1>4 DEF RotationInv, EntriesLead
      <4>2. rot[q].card \in Cards
        BY <2>2, <1>4 DEF RotationInv, CallsFit, CallFits
      <4> QED BY <4>1, <4>2, <2>2, LeadsStand
    <3>2. CASE f \notin rot[q].index \union rot[q].text.index
      <4>1. q = r /\ f = e
        BY <2>2, <3>2, <1>1, <1>4
      <4>2. <<c, s>> \in written
        BY <1>1, <1>2 DEF RotationInv, TextsWritten, c, ss
      <4> QED BY <4>1, <4>2, <1>2 DEF LeadsThen, e, s, c
    <3> QED BY <3>1, <3>2
  <2>3. \A q \in Rotators : OnCard(rot'[q]) => rot[q].card \in Cards
    BY <1>4 DEF RotationInv, CallsFit, CallFits
  <2> QED BY <2>1, <2>2, <2>3, <1>4, <1>5, EntriesLeadThen
<1>11. WritesFit'
  <2> SUFFICES ASSUME NEW q \in Rotators, rot'[q].at = "write", Path(q)' \in DOMAIN archive'
               PROVE  archive'[Path(q)'] = Head(rot'[q].todo) \/ OwnerExcusedThen(archive'[Path(q)'])
    BY WritesFitThen
  <2>1. q # r
    BY <1>4 DEF DealtWith
  <2>2. rot'[q] = rot[q] /\ Path(q)' = Path(q) /\ OnCard(rot[q]) /\ rot[q].at # "cut"
    BY <2>1, <1>4 DEF Path, OnCard
  <2>3. /\ rot[q].card \in Cards /\ Path(q)[1] = Filing(rot[q], rot[q].card)
        /\ Head(rot[q].todo) \in ToSet(rot[q].text.sections)
        /\ Filing(rot[q], rot[q].card) \in Filings
    BY <2>2, NextNote
  <2>4. \A x : OwnerExcused(x) => OwnerExcusedThen(x)
    BY <1>5 DEF OwnerExcused, OwnerExcusedThen
  <2>5. CASE Path(q) = Path(r)
    <3>1. Filing(rot[q], rot[q].card) = Filing(rot[r], rot[r].card)
      BY <2>3, <2>5, <1>2 DEF c
    <3>2. {rot[q].card, c} \in met
      BY <3>1, <2>1, <2>2, <1>1 DEF RotationInv, OthersMet, Together, c
    <3>3. <<c, s>> \in written /\ \A d \in Cards : <<d, s>> \in written => d = c
      BY <1>1, <1>2 DEF RotationInv, TextsWritten, c, ss
    <3>4. CASE MayBeOverwritten(c)
      BY <3>3, <3>4, <2>2, <2>4, <2>5 DEF OwnerExcused, s
    <3>5. CASE ~MayBeOverwritten(c)
      <4>1. rot[q].card = c
        <5>1. {rot[q].card, c} = {c, rot[q].card}
          OBVIOUS
        <5> QED BY <5>1, <3>2, <3>5, <2>3 DEF MayBeOverwritten
      <4>2. {rot[q].card, c} = {c}
        BY <4>1
      <4>3. ~Raced(c)
        BY <4>2, <3>2, <3>5 DEF MayBeOverwritten, Raced
      <4>4. rot[q].text.sections = ss
        BY <4>1, <4>3, <2>2, <1>1 DEF RotationInv, OneText, ss, c
      <4>5. ArchivePath(Filing(rot[q], rot[q].card), ss, Head(rot[q].todo))
               = ArchivePath(Filing(rot[q], rot[q].card), ss, s)
        BY <4>4, <3>1, <2>5 DEF Path, ss, s
      <4>6. Head(rot[q].todo) = s
        BY <4>4, <4>5, <2>3, <1>2, PathsDiffer
      <4> QED BY <4>6, <2>2, <2>5 DEF s
    <3> QED BY <3>4, <3>5
  <2>6. CASE Path(q) # Path(r)
    <3>1. Path(q) \in DOMAIN archive /\ archive'[Path(q)] = archive[Path(q)]
      BY <2>2, <2>6
    <3>2. archive[Path(q)] = Head(rot[q].todo) \/ OwnerExcused(archive[Path(q)])
      BY <3>1, <2>2 DEF RotationInv, WritesFit
    <3> QED BY <3>1, <3>2, <2>2, <2>4
  <2> QED BY <2>5, <2>6
<1>12. OneText'
  BY <1>4 DEF RotationInv, OneText, Raced
<1>13. SinceRead'
  BY <1>4, <1>5, SinceReadThen DEF RotationInv, SinceRead
<1>14. LostOnlyToARace'
  <2> SUFFICES ASSUME NEW w \in written, w \notin raced, ~InCard(w[1], w[2])', ~MayBeOverwritten(w[1])
               PROVE  InArchive(w[2])'
    BY DEF LostOnlyToARace, MayBeOverwritten
  <2>1. InArchive(w[2])
    BY DEF RotationInv, LostOnlyToARace, InCard
  <2>2. w[1] \in Cards /\ w = <<w[1], w[2]>>
    BY DEF RotationInv, RotationTyped
  <2> QED BY <2>1, <2>2, FoundStand
<1> QED BY <1>7, <1>8, <1>9, <1>10, <1>11, <1>12, <1>13, <1>14 DEF RotationCore

(* A note that is not there is about to be written.                          *)
LEMMA PassedStep ==
    ASSUME RotationInv, NEW r \in Rotators, rot[r].at = "check", Path(r) \notin DOMAIN archive,
           NEW k, rot' = [rot EXCEPT ![r] = k], k.at = "write",
           k.scope = rot[r].scope, k.card = rot[r].card, k.text = rot[r].text, k.todo = rot[r].todo, k.index = rot[r].index,
           UNCHANGED <<card, archive, written, raced, met>>
    PROVE  RotationCore'
<1>1. /\ rot'[r] = k /\ \A q \in Rotators : q # r => rot'[q] = rot[q]
      /\ OnCard(k) /\ OnCard(rot[r])
  BY DEF RotationInv, RotationTyped, OnCard
<1>2. \A q \in Rotators :
        /\ rot'[q].card = rot[q].card /\ rot'[q].text = rot[q].text /\ rot'[q].scope = rot[q].scope
        /\ rot'[q].todo = rot[q].todo /\ rot'[q].index = rot[q].index
        /\ OnCard(rot'[q]) => OnCard(rot[q])
        /\ Path(q)' = Path(q)
  <2>1. \A q \in Rotators :
          /\ rot'[q].card = rot[q].card /\ rot'[q].text = rot[q].text /\ rot'[q].scope = rot[q].scope
          /\ rot'[q].todo = rot[q].todo /\ rot'[q].index = rot[q].index
          /\ OnCard(rot'[q]) => OnCard(rot[q])
    BY <1>1
  <2>0. \A a, b, c : a.scope = b.scope => Filing(a, c) = Filing(b, c)
    BY DEF Filing
  <2>2. \A q \in Rotators : Filing(rot'[q], rot'[q].card) = Filing(rot[q], rot[q].card)
    BY <2>0, <2>1
  <2>3. \A q \in Rotators : Path(q)' = Path(q)
    BY <2>1, <2>2 DEF Path
  <2> QED BY <2>1, <2>3
<1>3. \A d : (ExcusedThen(d) <=> MayBeOverwritten(d)) /\ (RacedThen(d) <=> Raced(d))
  BY DEF MayBeOverwritten, Raced, ExcusedThen, RacedThen
<1>4. CallFits(rot[r])
  BY <1>1 DEF RotationInv, CallsFit
<1>5. CallFits(k)
  BY <1>4 DEF CallFits
<1>6. CallsFit'
  BY <1>1, <1>5 DEF RotationInv, CallsFit
<1>7. TextsWritten'
  BY <1>2 DEF RotationInv, TextsWritten
<1>8. OthersMet'
  BY <1>2, TogetherStays
<1>9. EntriesLead'
  <2>1. \A d, e : LeadsThen(d, e) <=> Leads(d, e)
    BY DEF Leads, LeadsThen
  <2> QED BY <2>1, <1>2, <1>3, EntriesLeadThen DEF RotationInv, EntriesLead
<1>10. WritesFit'
  <2> SUFFICES ASSUME NEW q \in Rotators, rot'[q].at = "write", Path(q)' \in DOMAIN archive'
               PROVE  archive'[Path(q)'] = Head(rot'[q].todo) \/ OwnerExcusedThen(archive'[Path(q)'])
    BY WritesFitThen
  <2>1. q # r
    BY <1>2
  <2>2. archive[Path(q)] = Head(rot[q].todo) \/ OwnerExcused(archive[Path(q)])
    BY <2>1, <1>1, <1>2 DEF RotationInv, WritesFit
  <2> QED BY <2>1, <2>2, <1>1, <1>2, <1>3 DEF OwnerExcused, OwnerExcusedThen
<1>11. OneText'
  BY <1>2, <1>3, OneTextThen DEF RotationInv, OneText
<1>12. SinceRead'
  BY <1>2, <1>3, SinceReadThen DEF RotationInv, SinceRead
<1>13. LostOnlyToARace'
  BY DEF RotationInv, LostOnlyToARace, InCard, InArchive, MayBeOverwritten
<1> QED BY <1>6, <1>7, <1>8, <1>9, <1>10, <1>11, <1>12, <1>13 DEF RotationCore

(* A call takes a card that has sections to archive.                         *)
LEMMA TakenStep ==
    ASSUME RotationInv, NEW r \in Rotators, NEW c \in Cards, rot[r].at = "walk",
           NEW k, k.at = "check", k.scope = rot[r].scope, k.card = c, k.text = card[c],
           k.todo = Candidates(card[c].sections), k.todo # <<>>, k.index = {},
           rot' = [rot EXCEPT ![r] = k],
           met' = met \union {{c, rot[q].card} : q \in {q \in Rotators : Shares(q, r, c)}},
           UNCHANGED <<card, archive, written, raced>>
    PROVE  RotationCore'
<1>1. OnCard(k) /\ ~OnCard(rot[r])
  BY DEF OnCard
<1>2. /\ rot'[r] = k /\ \A q \in Rotators : q # r => rot'[q] = rot[q]
  BY DEF RotationInv, RotationTyped
<1>3. \A d \in Cards : (~ExcusedThen(d) => ~MayBeOverwritten(d)) /\ (RacedThen(d) <=> Raced(d))
  BY DEF MayBeOverwritten, Raced, ExcusedThen, RacedThen
<1>4. PICK ss : ss = card[c].sections
  OBVIOUS
<1>5. ss \in Seq(Stock) /\ IsInjective(ss) /\ \A s \in ToSet(ss) : <<c, s>> \in written
  BY <1>4 DEF RotationInv, RotationTyped, CardTexts, TextsWritten
<1>6. CallFits(k)
  <2>1. ToSet(k.todo) \subseteq ToSet(ss) /\ k.text.sections = ss
    BY <1>4, <1>5, TextIsSplit
  <2> QED BY <2>1, <1>4, <1>5 DEF CallFits
<1>7. CallsFit'
  BY <1>2, <1>6 DEF RotationInv, CallsFit
<1>8. TextsWritten'
  BY <1>2, <1>4, <1>5 DEF RotationInv, TextsWritten
<1>9. ASSUME NEW q \in Rotators, q # r, OnCard(rot[q]), Together(rot[q], k) \/ Together(k, rot[q])
      PROVE  {c, rot[q].card} \in met'
  <2>1. Shares(q, r, c)
    BY <1>9 DEF Shares, OnCard, Together, Filing
  <2> QED BY <2>1
<1>10. OthersMet'
  <2> SUFFICES ASSUME NEW p \in Rotators, NEW q \in Rotators, p # q,
                      OnCard(rot'[p]), OnCard(rot'[q]), Together(rot'[p], rot'[q])
               PROVE  {rot'[p].card, rot'[q].card} \in met'
    BY DEF OthersMet
  <2>1. CASE p = r
    BY <2>1, <1>2, <1>9
  <2>2. CASE q = r
    <3>1. {c, rot[p].card} \in met'
      BY <2>2, <1>2, <1>9
    <3>2. {rot'[p].card, rot'[q].card} = {c, rot[p].card}
      BY <2>2, <1>2
    <3> QED BY <3>1, <3>2
  <2>3. CASE p # r /\ q # r
    <3>1. {rot[p].card, rot[q].card} \in met
      BY <2>3, <1>2 DEF RotationInv, OthersMet
    <3> QED BY <3>1, <2>3, <1>2
  <2> QED BY <2>1, <2>2, <2>3
<1>11. EntriesLead'
  <2>1. \A d, e : LeadsThen(d, e) <=> Leads(d, e)
    BY DEF Leads, LeadsThen
  <2>2. ASSUME NEW d \in Cards, ~ExcusedThen(d), NEW e \in card[d].index PROVE Leads(d, e)
    BY <2>2, <1>3 DEF RotationInv, EntriesLead
  <2>3. ASSUME NEW q \in Rotators, OnCard(rot'[q]), ~ExcusedThen(rot'[q].card),
               NEW e \in rot'[q].index \union rot'[q].text.index
        PROVE  Leads(rot'[q].card, e)
    <3>1. CASE q = r
      BY <3>1, <2>2, <2>3, <1>2
    <3>2. CASE q # r
      <4>1. rot'[q] = rot[q] /\ OnCard(rot[q]) /\ rot[q].card \in Cards
        BY <3>2, <2>3, <1>2 DEF RotationInv, CallsFit, CallFits
      <4>2. ~MayBeOverwritten(rot[q].card)
        BY <4>1, <2>3, <1>3
      <4> QED BY <4>1, <4>2, <2>3 DEF RotationInv, EntriesLead
    <3> QED BY <3>1, <3>2
  <2> QED BY <2>1, <2>2, <2>3, EntriesLeadThen
<1>12. WritesFit'
  <2> SUFFICES ASSUME NEW q \in Rotators, rot'[q].at = "write", Path(q)' \in DOMAIN archive
               PROVE  archive[Path(q)'] = Head(rot'[q].todo) \/ OwnerExcusedThen(archive[Path(q)'])
    BY WritesFitThen
  <2>1. q # r
    BY <1>2
  <2>2. rot'[q] = rot[q] /\ Path(q)' = Path(q) /\ OnCard(rot[q])
    BY <2>1, <1>2 DEF Path, OnCard
  <2>3. archive[Path(q)] = Head(rot[q].todo) \/ OwnerExcused(archive[Path(q)])
    BY <2>2 DEF RotationInv, WritesFit
  <2> QED BY <2>2, <2>3, <1>3 DEF OwnerExcused, OwnerExcusedThen
<1>13. ASSUME NEW q \in Rotators, q # r, OnCard(rot[q]), rot[q].card = c, ~Raced(c)
       PROVE  rot[q].text.sections = ss
  <2>1. ss \in {rot[q].text.sections, Stays(rot[q].text.sections)}
    BY <1>4, <1>13 DEF RotationInv, OneText
  <2>2. rot[q].text.sections \in Seq(Stock)
    BY DEF RotationInv, RotationTyped, CallRecords, CardTexts
  <2>3. Candidates(ss) # <<>>
    BY <1>4
  <2>4. ss # Stays(rot[q].text.sections)
    BY <2>2, <2>3, StaysStay
  <2> QED BY <2>1, <2>4
<1>14. OneText'
  <2> SUFFICES ASSUME NEW p \in Rotators, OnCard(rot'[p]), ~RacedThen(rot'[p].card)
               PROVE  /\ card[rot'[p].card].sections \in {rot'[p].text.sections, Stays(rot'[p].text.sections)}
                      /\ \A q \in Rotators : OnCard(rot'[q]) /\ rot'[q].card = rot'[p].card =>
                            rot'[q].text.sections = rot'[p].text.sections
    BY OneTextThen
  <2>1. CASE p = r
    <3>1. rot'[p].card = c /\ rot'[p].text.sections = ss /\ ~Raced(c)
      BY <2>1, <1>2, <1>3, <1>4
    <3>2. \A q \in Rotators : q # r /\ OnCard(rot'[q]) /\ rot'[q].card = c => rot'[q].text.sections = ss
      BY <3>1, <1>2, <1>13
    <3> QED BY <3>1, <3>2, <2>1, <1>4
  <2>2. CASE p # r
    <3>1. rot'[p] = rot[p] /\ OnCard(rot[p]) /\ rot[p].card \in Cards
      BY <2>2, <1>2 DEF RotationInv, CallsFit, CallFits
    <3>2. ~Raced(rot[p].card)
      BY <3>1, <1>3
    <3>3. /\ card[rot[p].card].sections \in {rot[p].text.sections, Stays(rot[p].text.sections)}
          /\ \A q \in Rotators : OnCard(rot[q]) /\ rot[q].card = rot[p].card =>
                rot[q].text.sections = rot[p].text.sections
      BY <3>1, <3>2 DEF RotationInv, OneText
    <3>4. rot[p].card = c => k.text.sections = rot[p].text.sections
      BY <3>1, <3>2, <2>2, <1>4, <1>13
    <3> QED BY <3>1, <3>3, <3>4, <1>2
  <2> QED BY <2>1, <2>2
<1>15. SinceRead'
  <2> SUFFICES ASSUME NEW q \in Rotators, OnCard(rot'[q]), ~ExcusedThen(rot'[q].card),
                      NEW s \in ToSet(card[rot'[q].card].sections)
               PROVE  s \in ToSet(rot'[q].text.sections) \/ <<rot'[q].card, s>> \in raced
    BY SinceReadThen
  <2>1. CASE q = r
    BY <2>1, <1>2
  <2>2. CASE q # r
    <3>1. rot'[q] = rot[q] /\ OnCard(rot[q]) /\ rot[q].card \in Cards
      BY <2>2, <1>2 DEF RotationInv, CallsFit, CallFits
    <3>2. ~MayBeOverwritten(rot[q].card)
      BY <3>1, <1>3
    <3> QED BY <3>1, <3>2 DEF RotationInv, SinceRead
  <2> QED BY <2>1, <2>2
<1>16. LostOnlyToARace'
  BY DEF RotationInv, LostOnlyToARace, InCard, InArchive, MayBeOverwritten
<1> QED BY <1>7, <1>8, <1>10, <1>11, <1>12, <1>14, <1>15, <1>16 DEF RotationCore

(* A card is cut: it has what stays of the text that was read, and the rest  *)
(* is in the archive.                                                        *)
LEMMA CutStep ==
    ASSUME RotationInv, NEW r \in Rotators, CutCard(r)
    PROVE  RotationCore'
<1>1. PICK c, T : c \in Cards /\ c = rot[r].card /\ T = rot[r].text.sections /\ T \in Seq(Stock)
  BY DEF CutCard, RotationInv, RotationTyped, CallRecords, CardTexts, CallsFit, CallFits, OnCard
<1>2. PICK k, b :
        /\ rot[r].at = "cut" /\ k.at = "walk"
        /\ b = [sections |-> Stays(T), index |-> rot[r].text.index \union rot[r].index]
        /\ card' = [card EXCEPT ![c] = b] /\ rot' = [rot EXCEPT ![r] = k]
        /\ UNCHANGED <<archive, written, raced, met>>
  <2>1. PICK k : k = [rot[r] EXCEPT !.at = "walk", !.fresh = @ \union {<<c>>}]
    OBVIOUS
  <2>2. k.at = "walk"
    BY <2>1 DEF RotationInv, RotationTyped, CallRecords
  <2>3. rot' = [rot EXCEPT ![r] = k]
    BY <2>1, <1>1 DEF CutCard, RotationInv, RotationTyped
  <2> QED BY <2>2, <2>3, <1>1 DEF CutCard
<1>3. /\ OnCard(rot[r]) /\ ~OnCard(k) /\ k.at # "write"
      /\ rot'[r] = k /\ \A q \in Rotators : q # r => rot'[q] = rot[q]
      /\ card'[c] = b /\ \A d \in Cards : d # c => card'[d] = card[d]
      /\ b.sections = Stays(T) /\ b.index = rot[r].text.index \union rot[r].index
  <2>1. OnCard(rot[r]) /\ ~OnCard(k) /\ k.at # "write"
    BY <1>2 DEF OnCard
  <2>2. rot'[r] = k /\ \A q \in Rotators : q # r => rot'[q] = rot[q]
    BY <1>2 DEF RotationInv, RotationTyped
  <2>3. card'[c] = b /\ \A d \in Cards : d # c => card'[d] = card[d]
    BY <1>1, <1>2 DEF RotationInv, RotationTyped
  <2>4. b.sections = Stays(T) /\ b.index = rot[r].text.index \union rot[r].index
    BY <1>2
  <2> QED BY <2>1, <2>2, <2>3, <2>4
<1>4. \A d : (ExcusedThen(d) <=> MayBeOverwritten(d)) /\ (RacedThen(d) <=> Raced(d))
  BY <1>2 DEF MayBeOverwritten, Raced, ExcusedThen, RacedThen
<1>5. /\ IsInjective(T) /\ rot[r].todo = <<>>
      /\ \A s \in ToSet(Candidates(T)) : s \in ToSet(rot[r].todo) \/ \E e \in rot[r].index : e[2] = s
  BY <1>1, <1>2, <1>3 DEF RotationInv, CallsFit, CallFits
<1>6. /\ IsInjective(Stays(T)) /\ ToSet(T) = ToSet(Stays(T)) \union ToSet(Candidates(T))
  BY <1>1, <1>5, TextIsSplit
<1>7. CallsFit'
  BY <1>3 DEF RotationInv, CallsFit
<1>8. TextsWritten'
  <2>1. \A s \in ToSet(T) : <<c, s>> \in written
    BY <1>1, <1>3 DEF RotationInv, TextsWritten
  <2>2. ASSUME NEW d \in Cards
        PROVE  IsInjective(card'[d].sections) /\ \A s \in ToSet(card'[d].sections) : <<d, s>> \in written
    <3>1. CASE d = c
      BY <3>1, <2>1, <1>3, <1>6
    <3>2. CASE d # c
      BY <3>2, <1>3 DEF RotationInv, TextsWritten
    <3> QED BY <3>1, <3>2
  <2>3. ASSUME NEW q \in Rotators, OnCard(rot'[q])
        PROVE  \A s \in ToSet(rot'[q].text.sections) : <<rot'[q].card, s>> \in written
    BY <2>3, <1>3 DEF RotationInv, TextsWritten
  <2>4. /\ \A p \in DOMAIN archive : \E d \in Cards : <<d, archive[p]>> \in written
        /\ \A v, w \in written : v[2] = w[2] => v[1] = w[1]
    BY DEF RotationInv, TextsWritten
  <2> QED BY <2>2, <2>3, <2>4, <1>2 DEF TextsWritten, OnCard
<1>9. OthersMet'
  BY <1>2, <1>3 DEF RotationInv, OthersMet
<1>10. EntriesLead'
  <2>1. \A d, e : LeadsThen(d, e) <=> Leads(d, e)
    BY <1>2 DEF Leads, LeadsThen
  <2>2. ASSUME NEW d \in Cards, ~ExcusedThen(d), NEW e \in card'[d].index PROVE Leads(d, e)
    <3>1. ~MayBeOverwritten(d)
      BY <1>4, <2>2
    <3>2. CASE d = c
      BY <3>1, <3>2, <2>2, <1>1, <1>3 DEF RotationInv, EntriesLead
    <3>3. CASE d # c
      BY <3>1, <3>3, <2>2, <1>3 DEF RotationInv, EntriesLead
    <3> QED BY <3>2, <3>3
  <2>3. ASSUME NEW q \in Rotators, OnCard(rot'[q]), ~ExcusedThen(rot'[q].card),
               NEW e \in rot'[q].index \union rot'[q].text.index
        PROVE  Leads(rot'[q].card, e)
    <3>1. rot'[q] = rot[q] /\ ~MayBeOverwritten(rot[q].card)
      BY <2>3, <1>3, <1>4
    <3> QED BY <3>1, <2>3 DEF RotationInv, EntriesLead
  <2> QED BY <2>1, <2>2, <2>3, EntriesLeadThen
<1>11. WritesFit'
  <2> SUFFICES ASSUME NEW q \in Rotators, rot'[q].at = "write", Path(q)' \in DOMAIN archive'
               PROVE  archive'[Path(q)'] = Head(rot'[q].todo) \/ OwnerExcusedThen(archive'[Path(q)'])
    BY WritesFitThen
  <2>1. rot'[q] = rot[q] /\ Path(q)' = Path(q) /\ archive' = archive /\ written' = written
    BY <1>2, <1>3 DEF Path
  <2>2. archive[Path(q)] = Head(rot[q].todo) \/ OwnerExcused(archive[Path(q)])
    BY <2>1 DEF RotationInv, WritesFit
  <2> QED BY <2>1, <2>2, <1>4 DEF OwnerExcused, OwnerExcusedThen
<1>12. ASSUME NEW q \in Rotators, q # r, OnCard(rot[q]), rot[q].card = c, ~MayBeOverwritten(c)
       PROVE  rot[q].text.sections = T
  <2>1. {rot[q].card, rot[r].card} \in met
    BY <1>12, <1>1, <1>3 DEF RotationInv, OthersMet, Together
  <2>2. {rot[q].card, rot[r].card} = {c}
    BY <1>12, <1>1
  <2>3. ~Raced(c)
    BY <2>1, <2>2, <1>12 DEF MayBeOverwritten, Raced
  <2> QED BY <2>3, <1>12, <1>1, <1>3 DEF RotationInv, OneText
<1>13. OneText'
  <2> SUFFICES ASSUME NEW p \in Rotators, OnCard(rot'[p]), ~RacedThen(rot'[p].card)
               PROVE  /\ card'[rot'[p].card].sections
                            \in {rot'[p].text.sections, Stays(rot'[p].text.sections)}
                      /\ \A q \in Rotators : OnCard(rot'[q]) /\ rot'[q].card = rot'[p].card =>
                            rot'[q].text.sections = rot'[p].text.sections
    BY OneTextThen
  <2>1. p # r /\ rot'[p] = rot[p] /\ OnCard(rot[p]) /\ ~Raced(rot[p].card) /\ rot[p].card \in Cards
    BY <1>3, <1>4 DEF RotationInv, CallsFit, CallFits
  <2>2. /\ card[rot[p].card].sections \in {rot[p].text.sections, Stays(rot[p].text.sections)}
        /\ \A q \in Rotators : OnCard(rot[q]) /\ rot[q].card = rot[p].card =>
              rot[q].text.sections = rot[p].text.sections
    BY <2>1 DEF RotationInv, OneText
  <2>3. rot[p].card = c => rot[p].text.sections = T
    BY <2>1, <1>1, <1>3 DEF RotationInv, OneText
  <2>4. card'[rot[p].card].sections \in {rot[p].text.sections, Stays(rot[p].text.sections)}
    <3>1. CASE rot[p].card = c
      BY <3>1, <2>3, <1>3
    <3>2. CASE rot[p].card # c
      BY <3>2, <2>1, <2>2, <1>3
    <3> QED BY <3>1, <3>2
  <2> QED BY <2>1, <2>2, <2>4, <1>3
<1>14. SinceRead'
  <2> SUFFICES ASSUME NEW q \in Rotators, OnCard(rot'[q]), ~ExcusedThen(rot'[q].card),
                      NEW s \in ToSet(card'[rot'[q].card].sections)
               PROVE  s \in ToSet(rot'[q].text.sections) \/ <<rot'[q].card, s>> \in raced'
    BY SinceReadThen
  <2>1. /\ q # r /\ rot'[q] = rot[q] /\ OnCard(rot[q]) /\ ~MayBeOverwritten(rot[q].card)
        /\ rot[q].card \in Cards /\ raced' = raced
    BY <1>2, <1>3, <1>4 DEF RotationInv, CallsFit, CallFits
  <2>2. CASE rot[q].card = c
    <3>1. rot[q].text.sections = T
      BY <2>1, <2>2, <1>12
    <3> QED BY <3>1, <2>1, <2>2, <1>3, <1>6
  <2>3. CASE rot[q].card # c
    BY <2>1, <2>3, <1>3 DEF RotationInv, SinceRead
  <2> QED BY <2>2, <2>3
<1>15. LostOnlyToARace'
  <2>0. UNCHANGED <<archive, written, raced, met>>
    BY <1>2
  <2> SUFFICES ASSUME NEW w \in written, w \notin raced, ~MayBeOverwritten(w[1]),
                      w[2] \notin ToSet(card'[w[1]].sections)
               PROVE  InArchive(w[2])
    BY <2>0 DEF LostOnlyToARace, InCard, InArchive, MayBeOverwritten, Raced
  <2>1. w[1] \in Cards /\ w = <<w[1], w[2]>>
    BY DEF RotationInv, RotationTyped
  <2>2. CASE InArchive(w[2])
    BY <2>2
  <2>3. CASE ~InArchive(w[2])
    <3>1. w[2] \in ToSet(card[w[1]].sections)
      BY <2>3 DEF RotationInv, LostOnlyToARace, InCard, MayBeOverwritten, Raced
    <3>2. w[1] = c
      BY <3>1, <2>1, <1>3
    <3>3. w[2] \in ToSet(T)
      BY <3>1, <3>2, <2>1, <1>1, <1>3 DEF RotationInv, SinceRead
    <3>4. w[2] \in ToSet(Candidates(T))
      BY <3>2, <3>3, <1>3, <1>6
    <3>5. PICK e \in rot[r].index : e[2] = w[2]
      <4>1. ToSet(rot[r].todo) = {}
        BY <1>5 DEF ToSet
      <4> QED BY <3>4, <4>1, <1>5
    <3>6. Leads(c, e)
      BY <3>2, <3>5, <1>1, <1>3 DEF RotationInv, EntriesLead
    <3> QED BY <3>2, <3>5, <3>6 DEF Leads, InArchive
  <2> QED BY <2>2, <2>3
<1> QED BY <1>7, <1>8, <1>9, <1>10, <1>11, <1>13, <1>14, <1>15 DEF RotationCore

LEMMA HandoffFields ==
    ASSUME RotationTyped, NEW c \in Cards, NEW s \in Stock, Handoff(c, s), TextsWritten
    PROVE  \E b \in CardTexts :
             /\ card' = [card EXCEPT ![c] = b]
             /\ b.index = card[c].index /\ IsInjective(b.sections)
             /\ ToSet(b.sections) = ToSet(card[c].sections) \union {s}
<1>1. PICK ss \in {<<s>> \o card[c].sections, Append(card[c].sections, s)} :
        card' = [card EXCEPT ![c].sections = ss]
  BY DEF Handoff
<1>2. card[c] \in CardTexts /\ card[c].sections \in Seq(Stock) /\ IsInjective(card[c].sections)
  BY DEF RotationTyped, TextsWritten, CardTexts
<1>3. s \notin ToSet(card[c].sections)
  BY DEF Handoff, TextsWritten
<1>4. /\ ss \in Seq(Stock) /\ IsInjective(ss)
      /\ ToSet(ss) = ToSet(card[c].sections) \union {s}
  <2>1. CASE ss = <<s>> \o card[c].sections
    BY <2>1, <1>2, <1>3, PrependIs
  <2>2. CASE ss = Append(card[c].sections, s)
    BY <2>2, <1>2, <1>3, AppendIs
  <2> QED BY <2>1, <2>2
<1>5. PICK b : b = [card[c] EXCEPT !.sections = ss]
  OBVIOUS
<1>6. b \in CardTexts /\ b.sections = ss /\ b.index = card[c].index
  BY <1>2, <1>4, <1>5 DEF CardTexts
<1>7. card' = [card EXCEPT ![c] = b]
  BY <1>1, <1>5 DEF RotationTyped
<1> QED BY <1>4, <1>6, <1>7

(* A handoff is written.                                                     *)
LEMMA HandoffStep ==
    ASSUME RotationInv, NEW c \in Cards, NEW s \in Stock, Handoff(c, s)
    PROVE  RotationCore'
<1>1. PICK b \in CardTexts :
        /\ card' = [card EXCEPT ![c] = b]
        /\ b.index = card[c].index /\ IsInjective(b.sections)
        /\ ToSet(b.sections) = ToSet(card[c].sections) \union {s}
  BY HandoffFields DEF RotationInv
<1>2. /\ card'[c] = b /\ \A d \in Cards : d # c => card'[d] = card[d]
      /\ \A d \in Cards : card'[d].index = card[d].index
  BY <1>1 DEF RotationInv, RotationTyped
<1>3. /\ written' = written \union {<<c, s>>}
      /\ raced' = IF \E r \in Rotators : Holds(r, c) THEN raced \union {<<c, s>>} ELSE raced
      /\ UNCHANGED <<archive, rot, met>>
  BY DEF Handoff
<1>4. \A d : (~ExcusedThen(d) => ~MayBeOverwritten(d)) /\ (~RacedThen(d) => ~Raced(d))
  BY <1>3 DEF MayBeOverwritten, Raced, ExcusedThen, RacedThen
<1>5. ASSUME NEW r \in Rotators, OnCard(rot[r]), rot[r].card = c
      PROVE  <<c, s>> \in raced' /\ RacedThen(c)
  <2>1. Holds(r, c)
    BY <1>5 DEF Holds, OnCard
  <2>2. <<c, s>> \in raced'
    BY <2>1, <1>3
  <2> QED BY <2>2 DEF RacedThen
<1>6. CallsFit'
  BY <1>3 DEF RotationInv, CallsFit
<1>7. TextsWritten'
  <2>1. ASSUME NEW d \in Cards
        PROVE  IsInjective(card'[d].sections) /\ \A x \in ToSet(card'[d].sections) : <<d, x>> \in written'
    <3>1. CASE d = c
      BY <3>1, <1>1, <1>2, <1>3 DEF RotationInv, TextsWritten
    <3>2. CASE d # c
      BY <3>2, <1>2, <1>3 DEF RotationInv, TextsWritten
    <3> QED BY <3>1, <3>2
  <2>2. ASSUME NEW q \in Rotators, OnCard(rot[q])
        PROVE  \A x \in ToSet(rot[q].text.sections) : <<rot[q].card, x>> \in written'
    BY <2>2, <1>3 DEF RotationInv, TextsWritten
  <2>3. \A p \in DOMAIN archive : \E d \in Cards : <<d, archive[p]>> \in written'
    BY <1>3 DEF RotationInv, TextsWritten
  <2>4. \A v, w \in written' : v[2] = w[2] => v[1] = w[1]
    <3>1. \A v \in written : v[1] \in Cards /\ v = <<v[1], v[2]>>
      BY DEF RotationInv, RotationTyped
    <3>2. \A v \in written : v[2] # s
      BY <3>1 DEF Handoff
    <3> QED BY <3>2, <1>3 DEF RotationInv, TextsWritten
  <2> QED BY <2>1, <2>2, <2>3, <2>4, <1>3 DEF TextsWritten
<1>8. OthersMet'
  BY <1>3 DEF RotationInv, OthersMet
<1>9. EntriesLead'
  <2>1. \A d, e : Leads(d, e) => LeadsThen(d, e)
    BY <1>3 DEF Leads, LeadsThen
  <2>2. ASSUME NEW d \in Cards, ~ExcusedThen(d), NEW e \in card'[d].index PROVE Leads(d, e)
    BY <2>2, <1>2, <1>4 DEF RotationInv, EntriesLead
  <2>3. ASSUME NEW q \in Rotators, OnCard(rot[q]), ~ExcusedThen(rot[q].card),
               NEW e \in rot[q].index \union rot[q].text.index
        PROVE  Leads(rot[q].card, e)
    BY <2>3, <1>4 DEF RotationInv, EntriesLead
  <2> QED BY <2>1, <2>2, <2>3, <1>3, EntriesLeadThen
<1>10. WritesFit'
  <2> SUFFICES ASSUME NEW q \in Rotators, rot'[q].at = "write", Path(q)' \in DOMAIN archive'
               PROVE  archive'[Path(q)'] = Head(rot'[q].todo) \/ OwnerExcusedThen(archive'[Path(q)'])
    BY WritesFitThen
  <2>1. rot'[q] = rot[q] /\ Path(q)' = Path(q) /\ archive' = archive
    BY <1>3 DEF Path
  <2>2. archive[Path(q)] = Head(rot[q].todo) \/ OwnerExcused(archive[Path(q)])
    BY <2>1 DEF RotationInv, WritesFit
  <2>3. \A d \in Cards : <<d, archive[Path(q)]>> \in written' => <<d, archive[Path(q)]>> \in written
    <3>1. archive[Path(q)] # s
      BY <2>1 DEF RotationInv, TextsWritten, Handoff
    <3> QED BY <3>1, <1>3
  <2>4. \A d \in Cards : MayBeOverwritten(d) => ExcusedThen(d)
    BY <1>4
  <2> QED BY <2>1, <2>2, <2>3, <2>4 DEF OwnerExcused, OwnerExcusedThen
<1>11. OneText'
  <2> SUFFICES ASSUME NEW p \in Rotators, OnCard(rot'[p]), ~RacedThen(rot'[p].card)
               PROVE  /\ card'[rot'[p].card].sections
                            \in {rot'[p].text.sections, Stays(rot'[p].text.sections)}
                      /\ \A q \in Rotators : OnCard(rot'[q]) /\ rot'[q].card = rot'[p].card =>
                            rot'[q].text.sections = rot'[p].text.sections
    BY OneTextThen
  <2>1. rot' = rot /\ ~Raced(rot[p].card) /\ rot[p].card # c /\ rot[p].card \in Cards
    BY <1>3, <1>4, <1>5 DEF RotationInv, CallsFit, CallFits
  <2> QED BY <2>1, <1>2 DEF RotationInv, OneText
<1>12. SinceRead'
  <2> SUFFICES ASSUME NEW q \in Rotators, OnCard(rot'[q]), ~ExcusedThen(rot'[q].card),
                      NEW x \in ToSet(card'[rot'[q].card].sections)
               PROVE  x \in ToSet(rot'[q].text.sections) \/ <<rot'[q].card, x>> \in raced'
    BY SinceReadThen
  <2>1. /\ rot' = rot /\ ~MayBeOverwritten(rot[q].card) /\ rot[q].card \in Cards /\ raced \subseteq raced'
    BY <1>3, <1>4 DEF RotationInv, CallsFit, CallFits
  <2>2. \A y \in ToSet(card[rot[q].card].sections) :
           y \in ToSet(rot[q].text.sections) \/ <<rot[q].card, y>> \in raced
    BY <2>1 DEF RotationInv, SinceRead
  <2>3. CASE rot[q].card = c
    BY <2>1, <2>2, <2>3, <1>1, <1>2, <1>5
  <2>4. CASE rot[q].card # c
    BY <2>1, <2>2, <2>4, <1>2
  <2> QED BY <2>3, <2>4
<1>13. LostOnlyToARace'
  <2>0. /\ UNCHANGED <<archive, met>> /\ raced \subseteq raced'
        /\ \A d \in Cards : ToSet(card[d].sections) \subseteq ToSet(card'[d].sections)
    BY <1>1, <1>2, <1>3
  <2> SUFFICES ASSUME NEW w \in written', w \notin raced, ~MayBeOverwritten(w[1]), ~InArchive(w[2])
               PROVE  w[2] \in ToSet(card'[w[1]].sections)
    BY <2>0 DEF LostOnlyToARace, InCard, InArchive, MayBeOverwritten, Raced
  <2>1. CASE w \in written
    <3>1. w[1] \in Cards
      BY <2>1 DEF RotationInv, RotationTyped
    <3>2. w[2] \in ToSet(card[w[1]].sections)
      BY <2>1 DEF RotationInv, LostOnlyToARace, InCard, MayBeOverwritten, Raced
    <3> QED BY <3>1, <3>2, <2>0
  <2>2. CASE w = <<c, s>>
    BY <2>2, <1>1, <1>2
  <2> QED BY <2>1, <2>2, <1>3
<1> QED BY <1>6, <1>7, <1>8, <1>9, <1>10, <1>11, <1>12, <1>13 DEF RotationCore

(* The call's record after each of its steps.                                *)
LEMMA CheckOutcomes ==
    ASSUME RotationInv, NEW r \in Rotators, CheckNote(r)
    PROVE  /\ OnCard(rot[r]) /\ rot[r].at = "check" /\ rot[r] \in CallRecords
           /\ \/ /\ Path(r) \notin DOMAIN archive /\ broken' = broken
                 /\ \E k \in CallRecords :
                       /\ rot' = [rot EXCEPT ![r] = k] /\ k.fresh = rot[r].fresh
                       /\ k.at = "write" /\ k.scope = rot[r].scope /\ k.card = rot[r].card /\ k.text = rot[r].text
                       /\ k.todo = rot[r].todo /\ k.index = rot[r].index
              \/ /\ Path(r) \in DOMAIN archive /\ archive[Path(r)] = Head(rot[r].todo)
                 /\ broken' = broken /\ rot' = [rot EXCEPT ![r] = Dealt(r)]
              \/ /\ broken' = TRUE /\ rot' = [rot EXCEPT ![r] = Idle]
<1>1. rot[r] \in CallRecords /\ rot[r].at = "check" /\ OnCard(rot[r])
  BY DEF CheckNote, RotationInv, RotationTyped, OnCard
<1>2. CASE Path(r) \notin DOMAIN archive
  <2>1. PICK k : k = [rot[r] EXCEPT !.at = "write"]
    OBVIOUS
  <2>2. /\ k \in CallRecords /\ k.fresh = rot[r].fresh
        /\ k.at = "write" /\ k.scope = rot[r].scope /\ k.card = rot[r].card /\ k.text = rot[r].text
        /\ k.todo = rot[r].todo /\ k.index = rot[r].index
    BY <2>1, <1>1 DEF CallRecords
  <2>3. rot' = [rot EXCEPT ![r] = k]
    BY <1>2, <2>1 DEF CheckNote, RotationInv, RotationTyped
  <2> QED BY <1>1, <1>2, <2>2, <2>3 DEF CheckNote
<1>3. CASE Path(r) \in DOMAIN archive
  BY <1>1, <1>3 DEF CheckNote
<1> QED BY <1>2, <1>3

LEMMA DealtIs ==
    ASSUME RotationInv, NEW r \in Rotators, OnCard(rot[r]), rot[r].at # "cut"
    PROVE  Dealt(r) \in CallRecords /\ DealtWith(r, Dealt(r)) /\ Dealt(r).fresh = rot[r].fresh
<1>1. /\ rot[r] \in CallRecords /\ rot[r].todo \in Seq(Stock) /\ rot[r].todo # <<>>
      /\ Head(rot[r].todo) \in Stock /\ Path(r) \in CardPaths
  BY NextNote
<1>2. PICK x, t, i :
        /\ x = (IF Len(rot[r].todo) = 1 THEN "cut" ELSE "check")
        /\ t = Tail(rot[r].todo) /\ i = rot[r].index \union {<<Path(r), Head(rot[r].todo)>>}
  OBVIOUS
<1>3. Dealt(r) = [rot[r] EXCEPT !.at = x, !.todo = t, !.index = i]
  BY <1>2 DEF Dealt
<1>4. t \in Seq(Stock) /\ x \in {"cut", "check"}
  BY <1>1, <1>2
<1>5. i \in SUBSET (CardPaths \X Stock)
  <2>1. rot[r].index \in SUBSET (CardPaths \X Stock)
    BY <1>1 DEF CallRecords
  <2>2. <<Path(r), Head(rot[r].todo)>> \in CardPaths \X Stock
    BY <1>1
  <2> QED BY <2>1, <2>2, <1>2
<1>6. Dealt(r) \in CallRecords
  BY <1>1, <1>3, <1>4, <1>5 DEF CallRecords
<1>7. /\ Dealt(r).at = x /\ Dealt(r).todo = t /\ Dealt(r).index = i /\ Dealt(r).fresh = rot[r].fresh
      /\ Dealt(r).card = rot[r].card /\ Dealt(r).text = rot[r].text /\ Dealt(r).scope = rot[r].scope
  BY <1>1, <1>3 DEF CallRecords
<1> QED BY <1>2, <1>6, <1>7 DEF DealtWith

LEMMA WriteOutcome ==
    ASSUME RotationInv, NEW r \in Rotators, WriteNote(r)
    PROVE  /\ OnCard(rot[r]) /\ rot[r].at = "write"
           /\ DOMAIN archive' = DOMAIN archive \union {Path(r)}
           /\ archive'[Path(r)] = Head(rot[r].todo)
           /\ \A p \in DOMAIN archive : p # Path(r) => archive'[p] = archive[p]
           /\ \E k \in CallRecords : /\ rot' = [rot EXCEPT ![r] = k] /\ DealtWith(r, k)
                                      /\ k.fresh = rot[r].fresh \union {Path(r)}
<1>1. OnCard(rot[r]) /\ rot[r].at = "write" /\ rot[r].at # "cut"
  BY DEF WriteNote, OnCard
<1>6. /\ DOMAIN archive' = DOMAIN archive \union {Path(r)}
      /\ archive'[Path(r)] = Head(rot[r].todo)
      /\ \A p \in DOMAIN archive : p # Path(r) => archive'[p] = archive[p]
  BY DEF WriteNote
<1>7. Dealt(r) \in CallRecords /\ DealtWith(r, Dealt(r)) /\ Dealt(r).fresh = rot[r].fresh
  BY <1>1, DealtIs
<1>8. PICK k : k = [Dealt(r) EXCEPT !.fresh = @ \union {Path(r)}]
  OBVIOUS
<1>9. /\ k.at = Dealt(r).at /\ k.scope = Dealt(r).scope /\ k.card = Dealt(r).card /\ k.text = Dealt(r).text
      /\ k.todo = Dealt(r).todo /\ k.index = Dealt(r).index
      /\ k.fresh = rot[r].fresh \union {Path(r)}
  BY <1>7, <1>8 DEF CallRecords
<1>10. Path(r) \in CardFiles
  BY <1>1, NextNote DEF CardFiles
<1>11. k \in CallRecords
  BY <1>7, <1>8, <1>10 DEF CallRecords
<1>12. DealtWith(r, k)
  BY <1>7, <1>9 DEF DealtWith
<1>13. rot' = [rot EXCEPT ![r] = k]
  BY <1>8 DEF WriteNote
<1> QED BY <1>1, <1>6, <1>9, <1>11, <1>12, <1>13

(* Every step of a call that leaves the cards and the notes alone.           *)
LEMMA CallSteps ==
    ASSUME RotationInv, NEW r \in Rotators,
           \/ CheckNote(r) \/ WriteNote(r) \/ Report(r) \/ KillRotator(r)
           \/ \E scope \in {""} \union Scopes : Rotate(r, scope)
           \/ \E c \in Cards : ReadCard(r, c)
           \/ \E f \in rot[r].fresh : IndexFile(r, f)
    PROVE  RotationCore'
<1>0. /\ rot \in [Rotators -> CallRecords]
      /\ \A k, q : q \in Rotators /\ rot' = [rot EXCEPT ![r] = k] /\ q # r => rot'[q] = rot[q]
      /\ \A k : rot' = [rot EXCEPT ![r] = k] => rot'[r] = k
  BY DEF RotationInv, RotationTyped
<1>1. ~OnCard(Idle)
  BY DEF Idle, OnCard
<1>2. ASSUME NEW scope \in {""} \union Scopes, Rotate(r, scope) PROVE RotationCore'
  <2>1. PICK k : k = [Idle EXCEPT !.at = "walk", !.scope = scope, !.left = FoundCards(scope)]
    OBVIOUS
  <2>2. rot' = [rot EXCEPT ![r] = k] /\ UNCHANGED <<card, archive, written, raced, met>>
    BY <1>2, <2>1 DEF Rotate
  <2>3. ~OnCard(k)
    BY <2>1 DEF Idle, OnCard
  <2>4. \A q \in Rotators : OnCard(rot'[q]) => rot'[q] = rot[q]
    BY <2>2, <2>3, <1>0
  <2> QED BY <2>2, <2>4, CalmStep
<1>3. CASE CheckNote(r)
  <2>0. UNCHANGED <<card, archive, written, raced, met>>
    BY <1>3 DEF CheckNote
  <2>1. ASSUME rot' = [rot EXCEPT ![r] = Idle] PROVE RotationCore'
    BY <2>0, <2>1, <1>0, <1>1, CalmStep
  <2>2. ASSUME Path(r) \in DOMAIN archive, archive[Path(r)] = Head(rot[r].todo),
               rot' = [rot EXCEPT ![r] = Dealt(r)]
        PROVE  RotationCore'
    <3>1. rot[r].at = "check" /\ OnCard(rot[r]) /\ rot[r].at # "cut"
      BY <1>3 DEF CheckNote, OnCard
    <3>2. DealtWith(r, Dealt(r))
      BY <3>1, DealtIs
    <3>3. ArchiveStands
      BY <2>0 DEF ArchiveStands
    <3> QED BY <2>0, <2>2, <3>1, <3>2, <3>3, DealtStep
  <2>3. ASSUME Path(r) \notin DOMAIN archive,
               \E k \in CallRecords :
                  /\ rot' = [rot EXCEPT ![r] = k] /\ k.fresh = rot[r].fresh
                  /\ k.at = "write" /\ k.scope = rot[r].scope /\ k.card = rot[r].card /\ k.text = rot[r].text
                  /\ k.todo = rot[r].todo /\ k.index = rot[r].index
        PROVE  RotationCore'
    <3>1. rot[r].at = "check"
      BY <1>3 DEF CheckNote
    <3> QED BY <2>0, <2>3, <3>1, PassedStep
  <2>4. \/ /\ Path(r) \notin DOMAIN archive
           /\ \E k \in CallRecords :
                 /\ rot' = [rot EXCEPT ![r] = k] /\ k.fresh = rot[r].fresh
                 /\ k.at = "write" /\ k.scope = rot[r].scope /\ k.card = rot[r].card /\ k.text = rot[r].text
                 /\ k.todo = rot[r].todo /\ k.index = rot[r].index
        \/ /\ Path(r) \in DOMAIN archive /\ archive[Path(r)] = Head(rot[r].todo)
           /\ rot' = [rot EXCEPT ![r] = Dealt(r)]
        \/ rot' = [rot EXCEPT ![r] = Idle]
    BY <1>3, CheckOutcomes
  <2> QED BY <2>1, <2>2, <2>3, <2>4
<1>4. CASE WriteNote(r)
  <2>1. /\ OnCard(rot[r]) /\ rot[r].at = "write" /\ rot[r].at # "cut"
        /\ DOMAIN archive' = DOMAIN archive \union {Path(r)}
        /\ archive'[Path(r)] = Head(rot[r].todo)
        /\ \A p \in DOMAIN archive : p # Path(r) => archive'[p] = archive[p]
    BY <1>4, WriteOutcome
  <2>2. PICK k \in CallRecords : rot' = [rot EXCEPT ![r] = k] /\ DealtWith(r, k)
    BY <1>4, WriteOutcome
  <2>4. ArchiveStands
    <3>1. Path(r) \in DOMAIN archive =>
             archive[Path(r)] = Head(rot[r].todo) \/ OwnerExcused(archive[Path(r)])
      BY <2>1 DEF RotationInv, WritesFit
    <3> QED BY <2>1, <3>1 DEF ArchiveStands
  <2>5. UNCHANGED <<card, written, raced, met>>
    BY <1>4 DEF WriteNote
  <2> QED BY <2>1, <2>2, <2>4, <2>5, DealtStep
<1>5. CASE Report(r)
  BY <1>5, <1>0, <1>1, CalmStep DEF Report
<1>6. CASE KillRotator(r)
  BY <1>6, <1>0, <1>1, CalmStep DEF KillRotator
<1>7. ASSUME NEW c \in Cards, ReadCard(r, c) PROVE RotationCore'
  <2>1. /\ rot[r].at = "walk" /\ UNCHANGED <<card, archive, written, raced>>
        /\ rot[r] \in CallRecords
    BY <1>7, <1>0 DEF ReadCard
  <2>2. PICK rest : rest = [rot[r] EXCEPT !.left = @ \ {c}]
    OBVIOUS
  <2>3. CASE Candidates(card[c].sections) = <<>>
    <3>1. rot' = [rot EXCEPT ![r] = rest] /\ met' = met
      BY <1>7, <2>2, <2>3 DEF ReadCard
    <3>2. ~OnCard(rest)
      BY <2>1, <2>2 DEF CallRecords, OnCard
    <3> QED BY <3>1, <3>2, <2>1, <1>0, CalmStep
  <2>4. CASE Candidates(card[c].sections) # <<>>
    <3>1. PICK k : k = [rest EXCEPT !.at = "check", !.card = c, !.text = card[c],
                                    !.todo = Candidates(card[c].sections), !.index = {}]
      OBVIOUS
    <3>2. /\ rot' = [rot EXCEPT ![r] = k]
          /\ met' = met \union {{c, rot[q].card} : q \in {q \in Rotators : Shares(q, r, c)}}
      BY <1>7, <2>2, <2>4, <3>1 DEF ReadCard
    <3>3. /\ k.at = "check" /\ k.scope = rot[r].scope /\ k.card = c /\ k.text = card[c]
          /\ k.todo = Candidates(card[c].sections) /\ k.index = {}
      BY <2>1, <2>2, <3>1 DEF CallRecords
    <3> QED BY <2>1, <2>4, <3>2, <3>3, TakenStep
  <2> QED BY <2>3, <2>4
<1>8. ASSUME NEW f \in rot[r].fresh, IndexFile(r, f) PROVE RotationCore'
  <2>1. PICK k : k = [rot[r] EXCEPT !.fresh = @ \ {f}]
    OBVIOUS
  <2>2. rot' = [rot EXCEPT ![r] = k]
    BY <1>8, <2>1, <1>0 DEF IndexFile
  <2>3. rot[r] \in CallRecords /\ rot[r].at = "walk"
    BY <1>8, <1>0 DEF IndexFile
  <2>4. k.at = "walk"
    BY <2>1, <2>3 DEF CallRecords
  <2>5. ~OnCard(k)
    BY <2>4 DEF OnCard
  <2>6. \A q \in Rotators : OnCard(rot'[q]) => rot'[q] = rot[q]
    BY <2>2, <2>5, <1>0
  <2> QED BY <1>8, <2>6, CalmStep DEF IndexFile
<1> QED BY <1>2, <1>3, <1>4, <1>5, <1>6, <1>7, <1>8

LEMMA RotationTypedKept == RotationInv /\ [RotationNext]_rvars => RotationTyped'
<1> SUFFICES ASSUME RotationInv, [RotationNext]_rvars PROVE RotationTyped'
  OBVIOUS
<1>1. /\ card \in [Cards -> CardTexts] /\ DOMAIN archive \subseteq CardPaths
      /\ rot \in [Rotators -> CallRecords] /\ written \subseteq Cards \X Stock
      /\ broken \in BOOLEAN /\ \A r \in Rotators : rot[r].at = "idle" => rot[r] = Idle
  BY DEF RotationInv, RotationTyped
<1>2. Idle \in CallRecords
  BY DEF Idle, CallRecords, CardTexts
<1>3. ASSUME NEW r \in Rotators, NEW k \in CallRecords, rot' = [rot EXCEPT ![r] = k],
             k.at = "idle" => k = Idle
      PROVE  rot' \in [Rotators -> CallRecords] /\ \A q \in Rotators : rot'[q].at = "idle" => rot'[q] = Idle
  BY <1>1, <1>3
<1>4. ASSUME NEW c \in Cards, NEW s \in Stock, Handoff(c, s) PROVE RotationTyped'
  <2>1. PICK b \in CardTexts : card' = [card EXCEPT ![c] = b]
    BY <1>4, HandoffFields DEF RotationInv
  <2>2. card' \in [Cards -> CardTexts]
    BY <1>1, <2>1
  <2>3. written' \subseteq Cards \X Stock /\ UNCHANGED <<archive, rot, broken>>
    BY <1>1, <1>4 DEF Handoff
  <2> QED BY <1>1, <2>2, <2>3 DEF RotationTyped
<1>5. ASSUME NEW r \in Rotators, NEW scope \in {""} \union Scopes, Rotate(r, scope) PROVE RotationTyped'
  <2>1. FoundCards(scope) \in SUBSET Cards
    BY DEF FoundCards
  <2>2. PICK k : k = [Idle EXCEPT !.at = "walk", !.scope = scope, !.left = FoundCards(scope)]
    OBVIOUS
  <2>3. k \in CallRecords /\ k.at = "walk"
    BY <1>2, <2>1, <2>2 DEF CallRecords
  <2>4. rot' = [rot EXCEPT ![r] = k]
    BY <1>5, <2>2 DEF Rotate
  <2> QED BY <1>1, <1>3, <1>5, <2>3, <2>4 DEF RotationTyped, Rotate
<1>6. ASSUME NEW r \in Rotators, CheckNote(r) PROVE RotationTyped'
  <2>1. UNCHANGED <<card, archive, written>> /\ broken' \in BOOLEAN
    BY <1>1, <1>6 DEF CheckNote
  <2>2. OnCard(rot[r]) /\ rot[r].at # "cut"
    BY <1>6 DEF CheckNote, OnCard
  <2>3. Dealt(r) \in CallRecords /\ DealtWith(r, Dealt(r))
    BY <2>2, DealtIs
  <2>4. Dealt(r).at # "idle"
    BY <2>3 DEF DealtWith
  <2>5. \E k \in CallRecords : rot' = [rot EXCEPT ![r] = k] /\ (k.at = "idle" => k = Idle)
    BY <1>2, <1>6, <2>3, <2>4, CheckOutcomes
  <2> QED BY <1>1, <1>3, <2>1, <2>5 DEF RotationTyped
<1>7. ASSUME NEW r \in Rotators, WriteNote(r) PROVE RotationTyped'
  <2>1. /\ OnCard(rot[r]) /\ rot[r].at # "cut" /\ DOMAIN archive' = DOMAIN archive \union {Path(r)}
    BY <1>7, WriteOutcome
  <2>2. PICK k \in CallRecords : rot' = [rot EXCEPT ![r] = k] /\ DealtWith(r, k)
    BY <1>7, WriteOutcome
  <2>3. k.at # "idle"
    BY <2>2 DEF DealtWith
  <2>4. Path(r) \in CardPaths
    BY <2>1, NextNote
  <2> QED BY <1>1, <1>3, <1>7, <2>1, <2>2, <2>3, <2>4 DEF RotationTyped, WriteNote
<1>8. ASSUME NEW r \in Rotators, CutCard(r) PROVE RotationTyped'
  <2>1. /\ rot[r].at = "cut" /\ rot[r].card \in Cards /\ rot[r] \in CallRecords
    BY <1>1, <1>8 DEF CutCard, RotationInv, CallsFit, CallFits, OnCard
  <2>2. PICK T, I : T = Stays(rot[r].text.sections) /\ I = rot[r].text.index \union rot[r].index
    OBVIOUS
  <2>3. rot[r].text \in CardTexts /\ rot[r].index \in SUBSET (CardPaths \X Stock)
    BY <2>1 DEF CallRecords
  <2>4. rot[r].text.sections \in Seq(Stock) /\ rot[r].text.index \in SUBSET (CardPaths \X Stock)
    BY <2>3 DEF CardTexts
  <2>5. T \in Seq(Stock) /\ I \in SUBSET (CardPaths \X Stock)
    BY <2>2, <2>3, <2>4, TextIsSplit
  <2>6. PICK b : b = [sections |-> T, index |-> I]
    OBVIOUS
  <2>7. b \in CardTexts /\ card' = [card EXCEPT ![rot[r].card] = b]
    BY <1>8, <2>2, <2>5, <2>6 DEF CardTexts, CutCard
  <2>8. PICK k : k = [rot[r] EXCEPT !.at = "walk", !.fresh = @ \union {<<rot[r].card>>}]
    OBVIOUS
  <2>9. <<rot[r].card>> \in CardFiles
    BY <2>1 DEF CardFiles
  <2>10. k \in CallRecords /\ k.at = "walk"
    BY <2>1, <2>8, <2>9 DEF CallRecords
  <2>11. rot' = [rot EXCEPT ![r] = k]
    BY <1>1, <1>8, <2>8 DEF CutCard
  <2>12. card' \in [Cards -> CardTexts]
    BY <1>1, <2>7
  <2> QED BY <1>1, <1>3, <1>8, <2>10, <2>11, <2>12 DEF RotationTyped, CutCard
<1>9. ASSUME NEW r \in Rotators, Report(r) PROVE RotationTyped'
  BY <1>1, <1>2, <1>3, <1>9 DEF RotationTyped, Report
<1>10. ASSUME NEW r \in Rotators, KillRotator(r) PROVE RotationTyped'
  BY <1>1, <1>2, <1>3, <1>10 DEF RotationTyped, KillRotator
<1>11. ASSUME NEW r \in Rotators, NEW c \in Cards, ReadCard(r, c) PROVE RotationTyped'
  <2>1. /\ rot[r].at = "walk" /\ rot[r] \in CallRecords /\ card[c] \in CardTexts
        /\ UNCHANGED <<card, archive, written, broken>>
    BY <1>1, <1>11 DEF ReadCard
  <2>2. PICK rest : rest = [rot[r] EXCEPT !.left = @ \ {c}]
    OBVIOUS
  <2>3. rest \in CallRecords /\ rest.at = "walk"
    BY <2>1, <2>2 DEF CallRecords
  <2>4. PICK todo : todo = Candidates(card[c].sections)
    OBVIOUS
  <2>5. todo \in Seq(Stock)
    <3>1. card[c].sections \in Seq(Stock)
      BY <2>1 DEF CardTexts
    <3> QED BY <3>1, <2>4, TextIsSplit
  <2>6. PICK k : k = [rest EXCEPT !.at = "check", !.card = c, !.text = card[c], !.todo = todo, !.index = {}]
    OBVIOUS
  <2>7. k \in CallRecords /\ k.at = "check"
    BY <2>1, <2>3, <2>5, <2>6 DEF CallRecords
  <2>8. rot' = [rot EXCEPT ![r] = rest] \/ rot' = [rot EXCEPT ![r] = k]
    BY <1>11, <2>2, <2>4, <2>6 DEF ReadCard
  <2> QED BY <1>1, <1>3, <2>1, <2>3, <2>7, <2>8 DEF RotationTyped
<1>12. ASSUME NEW r \in Rotators, NEW f \in rot[r].fresh, IndexFile(r, f) PROVE RotationTyped'
  <2>1. PICK k : k = [rot[r] EXCEPT !.fresh = @ \ {f}]
    OBVIOUS
  <2>2. k \in CallRecords /\ k.at = "walk"
    BY <1>1, <1>12, <2>1 DEF IndexFile, CallRecords
  <2>3. rot' = [rot EXCEPT ![r] = k]
    BY <1>1, <1>12, <2>1 DEF IndexFile
  <2> QED BY <1>1, <1>3, <1>12, <2>2, <2>3 DEF RotationTyped, IndexFile
<1>13. CASE UNCHANGED rvars
  BY <1>13, <1>1 DEF rvars, RotationTyped
<1> QED
  BY <1>4, <1>5, <1>6, <1>7, <1>8, <1>9, <1>10, <1>11, <1>12, <1>13 DEF RotationNext

LEMMA ListsHoldKept == RotationInv /\ [RotationNext]_rvars => ListsHold'
<1> SUFFICES ASSUME RotationInv, [RotationNext]_rvars, ~broken' PROVE \A f \in outdated' : \E r \in Rotators : f \in rot'[r].fresh
  BY DEF ListsHold
<1>1. /\ rot \in [Rotators -> CallRecords] /\ broken \in BOOLEAN
      /\ \A r \in Rotators : rot[r].at = "idle" => rot[r].fresh = {}
      /\ broken \/ \A f \in outdated : \E r \in Rotators : f \in rot[r].fresh
  <2>1. Idle.fresh = {}
    BY DEF Idle
  <2> QED BY <2>1 DEF RotationInv, RotationTyped, ListsHold
<1>2. ASSUME NEW r \in Rotators, NEW k, rot' = [rot EXCEPT ![r] = k], broken' = broken,
             NEW f \in outdated', f \in k.fresh \/ (f \in outdated /\ f \notin rot[r].fresh)
      PROVE  \E q \in Rotators : f \in rot'[q].fresh
  BY <1>1, <1>2
<1>3. ASSUME NEW c \in Cards, NEW s \in Stock, Handoff(c, s)
      PROVE  \A f \in outdated' : \E r \in Rotators : f \in rot'[r].fresh
  BY <1>1, <1>3 DEF Handoff
<1>4. ASSUME NEW r \in Rotators, NEW scope \in {""} \union Scopes, Rotate(r, scope)
      PROVE  \A f \in outdated' : \E q \in Rotators : f \in rot'[q].fresh
  <2>1. PICK k : rot' = [rot EXCEPT ![r] = k]
    BY <1>4 DEF Rotate
  <2> QED BY <1>1, <1>2, <1>4, <2>1 DEF Rotate
<1>5. ASSUME NEW r \in Rotators, CheckNote(r)
      PROVE  \A f \in outdated' : \E q \in Rotators : f \in rot'[q].fresh
  <2>1. outdated' = outdated
    BY <1>5 DEF CheckNote
  <2>2. OnCard(rot[r]) /\ rot[r].at # "cut"
    BY <1>5 DEF CheckNote, OnCard
  <2>3. Dealt(r).fresh = rot[r].fresh
    BY <2>2, DealtIs
  <2>4. broken' = broken /\ \E k : rot' = [rot EXCEPT ![r] = k] /\ k.fresh = rot[r].fresh
    BY <1>5, <2>3, CheckOutcomes
  <2> QED BY <1>1, <1>2, <2>1, <2>4
<1>6. ASSUME NEW r \in Rotators, WriteNote(r)
      PROVE  \A f \in outdated' : \E q \in Rotators : f \in rot'[q].fresh
  <2>1. outdated' = outdated \union {Path(r)} /\ broken' = broken
    BY <1>6 DEF WriteNote
  <2>2. PICK k \in CallRecords : rot' = [rot EXCEPT ![r] = k] /\ k.fresh = rot[r].fresh \union {Path(r)}
    BY <1>6, WriteOutcome
  <2> QED BY <1>1, <1>2, <2>1, <2>2
<1>7. ASSUME NEW r \in Rotators, CutCard(r)
      PROVE  \A f \in outdated' : \E q \in Rotators : f \in rot'[q].fresh
  <2>1. outdated' = outdated \union {<<rot[r].card>>} /\ broken' = broken
    BY <1>7 DEF CutCard
  <2>2. PICK k : k = [rot[r] EXCEPT !.at = "walk", !.fresh = @ \union {<<rot[r].card>>}]
    OBVIOUS
  <2>3. rot' = [rot EXCEPT ![r] = k] /\ k.fresh = rot[r].fresh \union {<<rot[r].card>>}
    BY <1>1, <1>7, <2>2 DEF CutCard, CallRecords
  <2> QED BY <1>1, <1>2, <2>1, <2>3
<1>8. ASSUME NEW r \in Rotators, Report(r)
      PROVE  \A f \in outdated' : \E q \in Rotators : f \in rot'[q].fresh
  BY <1>1, <1>2, <1>8 DEF Report
<1>9. ASSUME NEW r \in Rotators, NEW c \in Cards, ReadCard(r, c)
      PROVE  \A f \in outdated' : \E q \in Rotators : f \in rot'[q].fresh
  <2>1. outdated' = outdated /\ broken' = broken /\ rot[r] \in CallRecords
    BY <1>1, <1>9 DEF ReadCard
  <2>2. PICK rest, todo : rest = [rot[r] EXCEPT !.left = @ \ {c}] /\ todo = Candidates(card[c].sections)
    OBVIOUS
  <2>3. PICK k : k = [rest EXCEPT !.at = "check", !.card = c, !.text = card[c], !.todo = todo, !.index = {}]
    OBVIOUS
  <2>4. rest.fresh = rot[r].fresh /\ k.fresh = rot[r].fresh
    BY <2>1, <2>2, <2>3 DEF CallRecords
  <2>5. rot' = [rot EXCEPT ![r] = rest] \/ rot' = [rot EXCEPT ![r] = k]
    BY <1>9, <2>2, <2>3 DEF ReadCard
  <2> QED BY <1>1, <1>2, <2>1, <2>4, <2>5
<1>10. ASSUME NEW r \in Rotators, NEW g \in rot[r].fresh, IndexFile(r, g)
       PROVE  \A f \in outdated' : \E q \in Rotators : f \in rot'[q].fresh
  <2>1. outdated' = outdated \ {g} /\ broken' = broken
    BY <1>10 DEF IndexFile
  <2>2. PICK k : k = [rot[r] EXCEPT !.fresh = @ \ {g}]
    OBVIOUS
  <2>3. rot' = [rot EXCEPT ![r] = k] /\ k.fresh = rot[r].fresh \ {g}
    BY <1>1, <1>10, <2>2 DEF IndexFile, CallRecords
  <2> QED BY <1>1, <1>2, <2>1, <2>3
<1>11. ASSUME NEW r \in Rotators PROVE ~KillRotator(r)
  BY DEF KillRotator
<1>12. CASE UNCHANGED rvars
  BY <1>1, <1>12 DEF rvars
<1> QED
  BY <1>3, <1>4, <1>5, <1>6, <1>7, <1>8, <1>9, <1>10, <1>11, <1>12 DEF RotationNext

LEMMA RotationInvKept == RotationInv /\ [RotationNext]_rvars => RotationInv'
<1> SUFFICES ASSUME RotationInv, [RotationNext]_rvars PROVE RotationCore'
  BY RotationTypedKept, ListsHoldKept DEF RotationCore, RotationInv
<1>1. CASE UNCHANGED rvars
  BY <1>1, CalmStep DEF rvars
<1> QED BY <1>1, HandoffStep, CallSteps, CutStep DEF RotationNext

(* Rotation moves handoffs and loses none, and what it moved can be found,   *)
(* but for the races: for any cards, however many of them share a scope, any *)
(* handoffs and number of processes, wherever they are killed.               *)
THEOREM RotationKeepsHandoffs == RotationSpec => []RotationKeeps
  BY RotationInitially, RotationInvKept, RotationInvGives, PTL DEF RotationSpec
===============================================================================
