---------------------------- MODULE VaultSyncProofs ----------------------------
(***************************************************************************)
(* What a sync leaves behind, for any vault, any number of servers and     *)
(* hooks, any edits, crashes and waits that end without the lock: a run of *)
(* sync_all that nothing overlapped leaves rows that mirror the files, a   *)
(* server's run that nothing overlapped leaves a vector for each row,      *)
(* the marker of a forced rebuild is written only over a whole graph, and  *)
(* a server that has the vault to itself keeps links and vectors those of  *)
(* the rows.                                                               *)
(*                                                                         *)
(* QuietInv follows such a run through its passes.  The snapshot is the    *)
(* table until Pass 1 reaches a note, moves included; what Pass 1 has      *)
(* passed mirrors its file; what it has not is found by the snapshot.      *)
(*                                                                         *)
(* RebuildInv follows the rebuild while the vault rests: before the marker *)
(* only the process that has the lock works, on rows that come from the    *)
(* files, and after it every run finds nothing to do.                      *)
(*                                                                         *)
(* DriftInv follows a repair: what it has listed and not yet done covers   *)
(* what is left of the drift.                                              *)
(*                                                                         *)
(* RestInv follows links and vectors through the runs of one server that   *)
(* is never cut short: at each place of a run, which notes may have edges  *)
(* or vectors that are not those of their rows, and that the run still     *)
(* holds each of them in its locals.                                       *)
(***************************************************************************)
EXTENDS VaultSync, TLAPS

Partial(V) == UNION {[S -> V] : S \in SUBSET Notes}
Hashes == Texts \cup {None}
Arrows == (Notes \cup {None}) \X Notes \X BOOLEAN

Jobs ==
    [force : BOOLEAN, locked : BOOLEAN, one : BOOLEAN, repaired : BOOLEAN, alone : BOOLEAN,
     walk : SUBSET Notes, snap : Partial(Hashes), pre : Partial(Hashes),
     pairs : SUBSET (Notes \X Notes),
     todo : SUBSET Notes, links : SUBSET Notes, queue : Partial(Texts), broken : SUBSET Arrows,
     touched : SUBSET Notes, removed : SUBSET Notes, moved : SUBSET (Notes \X Notes),
     note : Notes \cup {None}, text : Texts \cup {None}, new : Texts \cup {None}]

TablesTyped ==
    /\ disk \in [Notes -> Texts \cup {None}]
    /\ rows \in [Notes -> Rows \cup {None}]
    /\ edges \subseteq Arrows

(* A row vouches for the body it has or for nothing, and no body failed to   *)
(* parse.                                                                    *)
Vouches ==
    \A n \in Notes : rows[n] # None =>
        rows[n].body \notin Unparsable /\ rows[n].hash \in {None, rows[n].body}

(* The snapshot has the row of n as it is.                                   *)
InSnap(j, n) ==
    /\ n \in DOMAIN j.snap <=> rows[n] # None
    /\ n \in DOMAIN j.snap => j.snap[n] = rows[n].hash

(* What is left to move comes from rows whose files are gone and goes to     *)
(* files without a row, no two moves sharing an end.                         *)
PairsApart(j) ==
    /\ \A pair \in j.pairs : pair[1] \in DOMAIN j.snap \ j.walk /\ pair[2] \in j.walk \ DOMAIN j.snap
    /\ \A pair, other \in j.pairs : pair # other => pair[1] # other[1] /\ pair[2] # other[2]

(* What a run needs of its locals where it stands.                           *)
ReadyFor(l, j) ==
    /\ l = "idle" => ~j.alone
    /\ l \in {"move", "unlink"} => PairsApart(j)
    /\ l \in {"write", "resync", "upsert", "delete"} => j.note \in Notes
    /\ l = "upsert" => j.text \in Texts \ Unparsable

RunsTyped ==
    /\ pc \in [Procs -> Labels]
    /\ job \in [Procs -> Jobs]
    /\ \A p \in Procs : ReadyFor(pc[p], job[p])

Ingested(j) ==
    /\ j.todo \subseteq j.walk
    /\ \A n \in j.walk \ j.todo : RowMirrors(n)
    /\ \A n \in (Notes \ j.walk) \cup j.todo : InSnap(j, n)

(* How far a run that has been alone so far has come.                        *)
StageOf(l, j) ==
    /\ l \notin {"write", "resync", "reresolve"}
    /\ l \in {"snapshot", "pair", "move", "unlink", "ingest", "upsert", "sweep", "delete"} =>
          j.walk = Present
    /\ l \in {"pair", "move", "unlink"} => \A n \in Notes : InSnap(j, n)
    /\ l \in {"move", "unlink", "ingest", "upsert"} => \A n \in DOMAIN j.pre : j.pre[n] = disk[n]
    /\ l \in {"ingest", "upsert"} => Ingested(j)
    /\ l = "upsert" => j.note \in j.todo /\ j.text = disk[j.note]
    /\ l \in {"sweep", "delete"} =>
          j.todo \cap j.walk = {} /\ \A n \in Notes \ j.todo : RowMirrors(n)
    /\ l = "delete" => j.note \in j.todo
    /\ l \in {"link", "mark", "unlock", "veclock", "vectors", "embed", "store", "replock", "lists"} =>
          \A n \in Notes : RowMirrors(n)

AloneIsAlone ==
    \A p \in Procs : job[p].alone =>
        /\ ~job[p].one
        /\ \A q \in Procs \ {p} : pc[q] = "idle"
        /\ StageOf(pc[p], job[p])

QuietInv == TablesTyped /\ Vouches /\ RunsTyped /\ AloneIsAlone

-----------------------------------------------------------------------------
(* Small facts.                                                              *)

LEMMA NewRunIsTyped == NoJob \in Jobs /\ ~NoJob.alone /\ ~NoJob.one
<1>1. \A V : [n \in {} |-> None] \in Partial(V)
  BY DEF Partial
<1> QED BY <1>1 DEF NoJob, Jobs

LEMMA PartialMaps ==
  ASSUME NEW V, NEW S \in SUBSET Notes, NEW f, f = [n \in S |-> f[n]], \A n \in S : f[n] \in V
  PROVE  f \in Partial(V)
<1>1. f \in [S -> V]
  OBVIOUS
<1> QED BY <1>1 DEF Partial

LEMMA PartialDomain ==
  ASSUME NEW V, NEW f \in Partial(V)
  PROVE  /\ DOMAIN f \in SUBSET Notes /\ f = [n \in DOMAIN f |-> f[n]]
         /\ \A n \in DOMAIN f : f[n] \in V
  BY DEF Partial

LEMMA DropIsPartial ==
  ASSUME NEW V, NEW f \in Partial(V), NEW n
  PROVE  Drop(f, n) \in Partial(V)
<1>1. Drop(f, n) = [m \in DOMAIN f \ {n} |-> Drop(f, n)[m]]
  BY DEF Drop
<1>2. \A m \in DOMAIN f \ {n} : Drop(f, n)[m] = f[m]
  BY DEF Drop
<1>3. DOMAIN f \ {n} \in SUBSET Notes /\ \A m \in DOMAIN f \ {n} : Drop(f, n)[m] \in V
  BY <1>2, PartialDomain
<1> QED BY <1>1, <1>3, PartialMaps

LEMMA PutIsPartial ==
  ASSUME NEW V, NEW f \in Partial(V), NEW n \in Notes, NEW v \in V
  PROVE  Put(f, n, v) \in Partial(V)
<1>1. Put(f, n, v) = [m \in DOMAIN f \cup {n} |-> Put(f, n, v)[m]]
  BY DEF Put
<1>2. Put(f, n, v)[n] = v /\ \A m \in DOMAIN f \ {n} : Put(f, n, v)[m] = f[m]
  BY DEF Put
<1>3. DOMAIN f \cup {n} \in SUBSET Notes /\ \A m \in DOMAIN f \cup {n} : Put(f, n, v)[m] \in V
  BY <1>2, PartialDomain
<1> QED BY <1>1, <1>3, PartialMaps

LEMMA RowsAreTyped ==
  ASSUME TablesTyped, NEW n \in Notes, rows[n] # None
  PROVE  rows[n].body \in Texts /\ rows[n].hash \in Texts \cup {None}
  BY DEF TablesTyped, Rows

LEMMA FilesAndRowsStay ==
  ASSUME TablesTyped, Vouches, UNCHANGED <<disk, rows>>, edges' \subseteq Arrows
  PROVE  TablesTyped' /\ Vouches'
  BY DEF TablesTyped, Vouches

(* One step of a run that is under way keeps the invariant if it keeps the   *)
(* types and, should the run be alone, its stage.                            *)
LEMMA RunMoves ==
  ASSUME QuietInv, NEW p \in Procs, NEW l \in Labels, NEW r \in Jobs,
         pc[p] # "idle", pc' = [pc EXCEPT ![p] = l], job' = [job EXCEPT ![p] = r],
         TablesTyped', Vouches',
         ReadyFor(l, r),
         r.alone => job[p].alone /\ r.one = job[p].one,
         job[p].alone /\ StageOf(pc[p], job[p]) => StageOf(l, r)'
  PROVE  QuietInv'
<1>1. RunsTyped /\ AloneIsAlone
  BY DEF QuietInv
<1>2. /\ pc' \in [Procs -> Labels] /\ job' \in [Procs -> Jobs]
      /\ pc'[p] = l /\ job'[p] = r
      /\ \A q \in Procs \ {p} : pc'[q] = pc[q] /\ job'[q] = job[q]
  BY <1>1 DEF RunsTyped
<1>3. RunsTyped'
  BY <1>1, <1>2 DEF RunsTyped
<1>4. ASSUME NEW q \in Procs, job'[q].alone
      PROVE  q = p /\ job[p].alone
  BY <1>1, <1>2, <1>4 DEF AloneIsAlone
<1>5. job[p].alone => StageOf(l, r)'
  BY <1>1 DEF AloneIsAlone
<1>6. AloneIsAlone'
  <2> SUFFICES ASSUME NEW q \in Procs, job'[q].alone
               PROVE  /\ ~job'[q].one
                      /\ \A o \in Procs \ {q} : pc'[o] = "idle"
                      /\ StageOf(pc[q], job[q])'
    BY DEF AloneIsAlone
  <2>1. q = p /\ job[p].alone
    BY <1>4
  <2> QED BY <1>1, <1>2, <1>5, <2>1 DEF AloneIsAlone
<1> QED BY <1>3, <1>6 DEF QuietInv

-----------------------------------------------------------------------------
(* Steps outside the passes that decide on rows.                             *)

Early == {"lock", "recheck", "purge", "walk"}
Late == {"link", "mark", "unlock", "veclock", "vectors", "embed", "store", "replock", "lists"}

LEMMA PlainStep ==
  ASSUME QuietInv, NEW p \in Procs, NEW l \in Early \cup Late \cup {"reresolve"}, NEW r \in Jobs,
         pc[p] \in Early \cup Late \cup {"reresolve"},
         l \in Late => pc[p] \in Late,
         l = "reresolve" => ~r.alone,
         pc' = [pc EXCEPT ![p] = l], job' = [job EXCEPT ![p] = r],
         UNCHANGED <<disk, rows>>, edges' \subseteq Arrows,
         r.alone = job[p].alone /\ r.one = job[p].one
  PROVE  QuietInv'
<1>1. TablesTyped' /\ Vouches'
  BY FilesAndRowsStay DEF QuietInv
<1>2. l \in Labels /\ ReadyFor(l, r) /\ pc[p] # "idle"
  BY DEF Early, Late, Labels, ReadyFor
<1>3. ASSUME job[p].alone, StageOf(pc[p], job[p])
      PROVE  StageOf(l, r)'
  <2>1. l # "reresolve"
    BY <1>3
  <2>2. l \in Late => \A n \in Notes : RowMirrors(n)'
    BY <1>3 DEF StageOf, Early, Late, RowMirrors
  <2>3. \/ l \in Early
        \/ l \in Late /\ \A n \in Notes : RowMirrors(n)'
    BY <2>1, <2>2
  <2> QED BY <2>3 DEF StageOf, Early, Late
<1> QED BY <1>1, <1>2, <1>3, RunMoves

(* The end of a run, wherever it is.                                         *)
LEMMA EndingKeeps ==
  ASSUME QuietInv, NEW p \in Procs, pc[p] # "idle", Finish(p),
         UNCHANGED <<disk, rows>>, edges' \subseteq Arrows
  PROVE  QuietInv'
<1>1. TablesTyped' /\ Vouches'
  BY FilesAndRowsStay DEF QuietInv
<1>2. "idle" \in Labels
  BY DEF Labels
<1> QED BY <1>1, <1>2, NewRunIsTyped, RunMoves DEF Finish, Goto, StageOf, ReadyFor, RunsTyped, QuietInv, AloneIsAlone

(* The same run with some of its locals changed.                             *)
Continues(r, j) == r \in Jobs /\ r.alone = j.alone /\ r.one = j.one

LEMMA FieldsChange ==
  ASSUME NEW j \in Jobs
  PROVE  /\ \A v \in BOOLEAN : Continues([j EXCEPT !.locked = v], j)
         /\ \A v \in BOOLEAN : Continues([j EXCEPT !.force = v], j)
         /\ \A S \in SUBSET Notes : Continues([j EXCEPT !.links = S], j)
         /\ \A S \in SUBSET Notes : Continues([j EXCEPT !.todo = S], j)
         /\ \A S \in SUBSET Notes : Continues([j EXCEPT !.removed = S], j)
         /\ \A S \in SUBSET (Notes \X Notes) : Continues([j EXCEPT !.moved = S], j)
         /\ \A S \in SUBSET Arrows : Continues([j EXCEPT !.broken = S], j)
         /\ \A S, T \in SUBSET Notes : Continues([j EXCEPT !.todo = S, !.touched = T], j)
         /\ \A S \in SUBSET Notes, n \in Notes, t \in Texts \cup {None} :
               Continues([j EXCEPT !.todo = S, !.note = n, !.text = t], j)
         /\ \A S \in SUBSET Notes, f \in Partial(Texts), n \in Notes :
               Continues([j EXCEPT !.links = S, !.queue = f, !.note = n], j)
         /\ \A S, T \in SUBSET Notes :
               Continues([j EXCEPT !.removed = S, !.touched = T, !.repaired = TRUE], j)
<1>1. \A v \in BOOLEAN : Continues([j EXCEPT !.locked = v], j)
  BY DEF Jobs, Continues
<1>2. \A v \in BOOLEAN : Continues([j EXCEPT !.force = v], j)
  BY DEF Jobs, Continues
<1>3. \A S \in SUBSET Notes : Continues([j EXCEPT !.links = S], j)
  BY DEF Jobs, Continues
<1>4. \A S \in SUBSET Notes : Continues([j EXCEPT !.todo = S], j)
  BY DEF Jobs, Continues
<1>5. \A S \in SUBSET Notes : Continues([j EXCEPT !.removed = S], j)
  BY DEF Jobs, Continues
<1>6. \A S \in SUBSET (Notes \X Notes) : Continues([j EXCEPT !.moved = S], j)
  BY DEF Jobs, Continues
<1>7. \A S \in SUBSET Arrows : Continues([j EXCEPT !.broken = S], j)
  BY DEF Jobs, Continues
<1>8. \A S, T \in SUBSET Notes : Continues([j EXCEPT !.todo = S, !.touched = T], j)
  BY DEF Jobs, Continues
<1>9. \A S \in SUBSET Notes, n \in Notes, t \in Texts \cup {None} :
               Continues([j EXCEPT !.todo = S, !.note = n, !.text = t], j)
  BY DEF Jobs, Continues
<1>10. \A S \in SUBSET Notes, f \in Partial(Texts), n \in Notes :
               Continues([j EXCEPT !.links = S, !.queue = f, !.note = n], j)
  BY DEF Jobs, Continues
<1>11. \A S, T \in SUBSET Notes :
               Continues([j EXCEPT !.removed = S, !.touched = T, !.repaired = TRUE], j)
  BY DEF Jobs, Continues
<1> QED BY <1>1, <1>2, <1>3, <1>4, <1>5, <1>6, <1>7, <1>8, <1>9, <1>10, <1>11

LEMMA NowTyped ==
  ASSUME QuietInv, NEW p \in Procs
  PROVE  /\ pc[p] \in Labels /\ job[p] \in Jobs /\ job = [job EXCEPT ![p] = job[p]]
         /\ disk \in [Notes -> Texts \cup {None}] /\ rows \in [Notes -> Rows \cup {None}]
         /\ edges \subseteq Arrows
         /\ \A t \in Texts : Links[t] \subseteq Notes
  BY VaultConstants DEF QuietInv, RunsTyped, TablesTyped

LEMMA PlainMove ==
  ASSUME QuietInv, NEW p \in Procs, NEW l \in Early \cup Late \cup {"reresolve"},
         NEW r, Continues(r, job[p]),
         pc[p] \in Early \cup Late \cup {"reresolve"},
         l \in Late => pc[p] \in Late,
         l = "reresolve" => ~job[p].alone,
         pc' = [pc EXCEPT ![p] = l], job' = [job EXCEPT ![p] = r],
         UNCHANGED <<disk, rows>>, edges' \subseteq Arrows
  PROVE  QuietInv'
  BY PlainStep DEF Continues

LEMMA LockStepsKeep ==
  ASSUME QuietInv, NEW p \in Procs,
         TakeLock(p) \/ GiveUpLock(p) \/ Recheck(p) \/ Purge(p) \/ Mark(p) \/ Unlock(p)
  PROVE  QuietInv'
<1> DEFINE Next2(l) == pc' = [pc EXCEPT ![p] = l]
<1>1. job[p] \in Jobs /\ edges \subseteq Arrows /\ job = [job EXCEPT ![p] = job[p]]
  BY NowTyped
<1>2. UNCHANGED <<disk, rows>> /\ edges' \subseteq Arrows
  BY <1>1 DEF TakeLock, GiveUpLock, Recheck, Purge, Mark, Unlock, world, tables
<1>3. \E r : Continues(r, job[p]) /\ job' = [job EXCEPT ![p] = r]
  <2>1. Continues(job[p], job[p])
    BY <1>1 DEF Continues
  <2>2. \/ job' = job
        \/ job' = [job EXCEPT ![p] = [job[p] EXCEPT !.locked = TRUE]]
        \/ job' = [job EXCEPT ![p] = [job[p] EXCEPT !.locked = FALSE]]
        \/ job' = [job EXCEPT ![p] = [job[p] EXCEPT !.force = TRUE]]
    BY DEF TakeLock, GiveUpLock, Recheck, Purge, Mark, Unlock, world
  <2> QED BY <1>1, <2>1, <2>2, FieldsChange
<1>4. \E l \in Early \cup Late : /\ pc' = [pc EXCEPT ![p] = l] /\ pc[p] \in Early \cup Late
                                 /\ l \in Late => pc[p] \in Late
  <2>1. CASE TakeLock(p) \/ GiveUpLock(p)
    <3>1. \/ pc[p] = "lock" /\ Goto(p, "recheck")
          \/ pc[p] = "veclock" /\ Goto(p, "vectors")
          \/ pc[p] = "replock" /\ Goto(p, "lists")
      BY <2>1 DEF TakeLock, GiveUpLock, Behind
    <3> QED BY <3>1 DEF Goto, Early, Late
  <2>2. CASE Recheck(p) \/ Purge(p) \/ Mark(p)
    BY <2>2 DEF Recheck, Purge, Mark, At, Goto, Early, Late
  <2>3. CASE Unlock(p)
    BY <2>3 DEF Unlock, AfterSync, At, Goto, Early, Late
  <2> QED BY <2>1, <2>2, <2>3
<1> QED BY <1>2, <1>3, <1>4, PlainMove DEF Early, Late

LEMMA LinkStepsKeep ==
  ASSUME QuietInv, NEW p \in Procs,
         \/ EndLinks(p)
         \/ \E n \in Notes : Unlink(p, n) \/ AddEdge(p, n)
         \/ \E e \in job[p].broken : Reresolve(p, e)
  PROVE  QuietInv'
<1>1. /\ job[p] \in Jobs /\ edges \subseteq Arrows /\ pc = [pc EXCEPT ![p] = pc[p]]
      /\ \A t \in Texts : Links[t] \subseteq Notes
  BY NowTyped DEF QuietInv, RunsTyped
<1>2. PICK j \in Jobs : j = job[p]
  BY <1>1
<1>3. CASE EndLinks(p)
  <2>1. PICK B \in SUBSET Arrows : job' = [job EXCEPT ![p] = [job[p] EXCEPT !.broken = B]]
    <3>1. {e \in edges : e[2] = job[p].note /\ e[3]} \in SUBSET Arrows /\ {} \in SUBSET Arrows
      BY <1>1
    <3> QED BY <1>3, <3>1 DEF EndLinks
  <2>2. Continues([job[p] EXCEPT !.broken = B], job[p])
    BY <1>1, FieldsChange
  <2>3. UNCHANGED <<disk, rows, edges>>
    BY <1>3 DEF EndLinks, world, tables
  <2>4. \E l \in Late \cup {"reresolve"} : /\ pc' = [pc EXCEPT ![p] = l]
                                           /\ l = "reresolve" => job[p].one
    <3>1. \/ job[p].one /\ Goto(p, "reresolve")
          \/ Goto(p, "mark") \/ Goto(p, "veclock") \/ Goto(p, "vectors")
      BY <1>3 DEF EndLinks, AfterSync
    <3> QED BY <3>1 DEF Goto, Late
  <2>5. pc[p] = "link" /\ "link" \in Late
    BY <1>3 DEF EndLinks, At, Late
  <2>6. job[p].one => ~job[p].alone
    BY DEF QuietInv, AloneIsAlone
  <2> QED BY <1>1, <2>1, <2>2, <2>3, <2>4, <2>5, <2>6, PlainMove
<1>4. ASSUME NEW n \in Notes, Unlink(p, n)
      PROVE  QuietInv'
  <2>1. j.queue \in Partial(Texts) /\ n \in DOMAIN j.queue
    BY <1>2, <1>4 DEF Jobs, Unlink
  <2>2. Drop(j.queue, n) \in Partial(Texts) /\ Links[j.queue[n]] \in SUBSET Notes
    BY <1>1, <2>1, DropIsPartial, PartialDomain
  <2>3. job' = [job EXCEPT ![p] = [job[p] EXCEPT !.links = Links[j.queue[n]],
                                                 !.queue = Drop(j.queue, n), !.note = n]]
    BY <1>2, <1>4 DEF Unlink
  <2>4. Continues([job[p] EXCEPT !.links = Links[j.queue[n]],
                                 !.queue = Drop(j.queue, n), !.note = n], job[p])
    BY <1>1, <2>2, FieldsChange
  <2>5. UNCHANGED <<disk, rows, pc>> /\ pc[p] = "link" /\ "link" \in Late
    BY <1>4 DEF Unlink, At, Late, world
  <2>6. edges' \subseteq Arrows
    BY <1>1, <1>4 DEF Unlink
  <2> QED BY <1>1, <2>3, <2>4, <2>5, <2>6, PlainMove
<1>5. ASSUME NEW n \in Notes, AddEdge(p, n)
      PROVE  QuietInv'
  <2>1. j.links \ {n} \in SUBSET Notes /\ j.note \in Notes \cup {None}
    BY <1>2, <1>4 DEF Jobs
  <2>2. job' = [job EXCEPT ![p] = [job[p] EXCEPT !.links = j.links \ {n}]]
    BY <1>2, <1>5 DEF AddEdge
  <2>3. Continues([job[p] EXCEPT !.links = j.links \ {n}], job[p])
    BY <1>1, <2>1, FieldsChange
  <2>4. UNCHANGED <<disk, rows, pc>> /\ pc[p] = "link" /\ "link" \in Late
    BY <1>5 DEF AddEdge, At, Late, world
  <2>5. edges' \subseteq Arrows
    <3>1. <<j.note, n, rows[n] = None>> \in Arrows
      BY <2>1 DEF Arrows
    <3> QED BY <1>1, <1>2, <1>5, <3>1 DEF AddEdge
  <2> QED BY <1>1, <2>2, <2>3, <2>4, <2>5, PlainMove
<1>6. ASSUME NEW e \in job[p].broken, Reresolve(p, e)
      PROVE  QuietInv'
  <2>1. j.broken \ {e} \in SUBSET Arrows /\ e \in Arrows
    BY <1>2, <1>6 DEF Jobs
  <2>2. job' = [job EXCEPT ![p] = [job[p] EXCEPT !.broken = j.broken \ {e}]]
    BY <1>2, <1>6 DEF Reresolve
  <2>3. Continues([job[p] EXCEPT !.broken = j.broken \ {e}], job[p])
    BY <1>1, <2>1, FieldsChange
  <2>4. UNCHANGED <<disk, rows, pc>> /\ pc[p] = "reresolve"
    BY <1>6 DEF Reresolve, At, world
  <2>5. edges' \subseteq Arrows
    <3>1. <<e[1], e[2], FALSE>> \in Arrows
      BY <2>1 DEF Arrows
    <3> QED BY <1>1, <1>6, <3>1 DEF Reresolve
  <2>6. ~job[p].alone
    BY <2>4 DEF QuietInv, AloneIsAlone, StageOf
  <2> QED BY <1>1, <2>2, <2>3, <2>4, <2>5, <2>6, PlainMove DEF Late
<1> QED BY <1>3, <1>4, <1>5, <1>6

LEMMA VectorStepsKeep ==
  ASSUME QuietInv, NEW p \in Procs, VectorStep(p)
  PROVE  QuietInv'
<1>1. job[p] \in Jobs /\ edges \subseteq Arrows /\ job = [job EXCEPT ![p] = job[p]]
      /\ pc = [pc EXCEPT ![p] = pc[p]]
  BY NowTyped DEF QuietInv, RunsTyped
<1>2. PICK j \in Jobs : j = job[p]
  BY <1>1
<1>3. UNCHANGED <<disk, rows, edges>> /\ edges' \subseteq Arrows
  BY <1>1 DEF VectorStep, DropVector, ReadRow, MoveVector, EndVectors, StoreVector, EndEmbed,
              NoDelta, ListDrift, tables, world
<1>4. pc[p] \in Late /\ pc[p] # "idle"
  BY DEF VectorStep, DropVector, ReadRow, MoveVector, EndVectors, StoreVector, EndEmbed,
         NoDelta, ListDrift, At, Late
<1>5. ASSUME Finish(p)
      PROVE  QuietInv'
  BY <1>3, <1>4, <1>5, EndingKeeps
<1>6. ASSUME NEW l \in Late, NEW r, Continues(r, j), pc' = [pc EXCEPT ![p] = l],
             job' = [job EXCEPT ![p] = r]
      PROVE  QuietInv'
  <2>1. "reresolve" \notin Late /\ l \in Early \cup Late \cup {"reresolve"}
    BY DEF Late
  <2> QED BY <1>2, <1>3, <1>4, <1>6, <2>1, PlainMove
<1>7. /\ j.touched \in SUBSET Notes /\ \A n : j.removed \ {n} \in SUBSET Notes
      /\ \A n : j.todo \ {n} \in SUBSET Notes
      /\ \A pair : j.moved \ {pair} \in SUBSET (Notes \X Notes)
      /\ Orphans \in SUBSET Notes /\ Missing \in SUBSET Notes
  BY <1>2 DEF Jobs, Orphans, Missing
<1>8. Continues(j, j)
  BY <1>2 DEF Continues
<1>9. ASSUME NEW n \in Notes, DropVector(p, n) \/ ReadRow(p, n)
      PROVE  QuietInv'
  <2>1. CASE DropVector(p, n)
    <3>1. job' = [job EXCEPT ![p] = [j EXCEPT !.removed = j.removed \ {n}]] /\ UNCHANGED pc
      BY <1>2, <2>1 DEF DropVector
    <3>2. Continues([j EXCEPT !.removed = j.removed \ {n}], j)
      BY <1>7, FieldsChange
    <3> QED BY <1>1, <1>4, <1>6, <3>1, <3>2
  <2>2. CASE ReadRow(p, n) /\ rows[n] = None
    <3>1. job' = [job EXCEPT ![p] = [j EXCEPT !.todo = j.todo \ {n}]] /\ UNCHANGED pc
      BY <1>2, <2>2 DEF ReadRow
    <3>2. Continues([j EXCEPT !.todo = j.todo \ {n}], j)
      BY <1>7, FieldsChange
    <3> QED BY <1>1, <1>4, <1>6, <3>1, <3>2
  <2>3. CASE ReadRow(p, n) /\ rows[n] # None
    <3>1. /\ job' = [job EXCEPT ![p] = [j EXCEPT !.todo = j.todo \ {n}, !.note = n,
                                                 !.text = rows[n].body]]
          /\ pc' = [pc EXCEPT ![p] = "store"]
      BY <1>2, <2>3 DEF ReadRow, Goto
    <3>2. rows[n].body \in Texts
      BY <2>3, RowsAreTyped DEF QuietInv
    <3>3. Continues([j EXCEPT !.todo = j.todo \ {n}, !.note = n, !.text = rows[n].body], j)
      BY <1>7, <3>2, FieldsChange
    <3> QED BY <1>6, <3>1, <3>3 DEF Late
  <2> QED BY <1>9, <2>1, <2>2, <2>3
<1>10. CASE MoveVector(p)
  <2>1. PICK pair \in j.moved : job' = [job EXCEPT ![p] = [j EXCEPT !.moved = j.moved \ {pair}]]
    BY <1>2, <1>10 DEF MoveVector
  <2>2. Continues([j EXCEPT !.moved = j.moved \ {pair}], j)
    BY <1>7, FieldsChange
  <2>3. UNCHANGED pc
    BY <1>10 DEF MoveVector
  <2> QED BY <1>1, <1>4, <1>6, <2>1, <2>2, <2>3
<1>11. CASE EndVectors(p)
  <2>1. \/ Finish(p)
        \/ /\ job' = [job EXCEPT ![p] = [j EXCEPT !.todo = j.touched, !.touched = {}]]
           /\ pc' = [pc EXCEPT ![p] = "embed"]
    BY <1>2, <1>11 DEF EndVectors, Goto
  <2>2. Continues([j EXCEPT !.todo = j.touched, !.touched = {}], j)
    BY <1>7, FieldsChange
  <2> QED BY <1>5, <1>6, <2>1, <2>2 DEF Late
<1>12. CASE StoreVector(p)
  <2>1. job' = [job EXCEPT ![p] = j] /\ pc' = [pc EXCEPT ![p] = "embed"]
    BY <1>1, <1>2, <1>12 DEF StoreVector, Goto
  <2> QED BY <1>6, <1>8, <2>1 DEF Late
<1>13. CASE EndEmbed(p)
  <2>1. \/ Finish(p)
        \/ /\ job' = [job EXCEPT ![p] = [j EXCEPT !.locked = FALSE]]
           /\ pc' = [pc EXCEPT ![p] = "replock"]
    BY <1>2, <1>13 DEF EndEmbed, Goto
  <2>2. Continues([j EXCEPT !.locked = FALSE], j)
    BY <1>7, FieldsChange
  <2> QED BY <1>5, <1>6, <2>1, <2>2 DEF Late
<1>14. CASE NoDelta(p)
  BY <1>5, <1>14 DEF NoDelta
<1>15. CASE ListDrift(p)
  <2>1. /\ job' = [job EXCEPT ![p] = [j EXCEPT !.removed = Orphans, !.touched = Missing,
                                               !.repaired = TRUE]]
        /\ pc' = [pc EXCEPT ![p] = "vectors"]
    BY <1>2, <1>15 DEF ListDrift, Goto
  <2>2. Continues([j EXCEPT !.removed = Orphans, !.touched = Missing, !.repaired = TRUE], j)
    BY <1>7, FieldsChange
  <2> QED BY <1>6, <2>1, <2>2 DEF Late
<1> QED BY <1>9, <1>10, <1>11, <1>12, <1>13, <1>14, <1>15 DEF VectorStep

(* Runs cut short, and the end of a write.                                   *)
LEMMA EndingsKeep ==
  ASSUME QuietInv, NEW p \in Procs, Die(p) \/ Abort(p) \/ IndexWritten(p)
  PROVE  QuietInv'
<1>1. Finish(p) /\ UNCHANGED <<disk, rows, edges>> /\ pc[p] # "idle"
  BY DEF Die, Abort, IndexWritten, tables, world, At
<1>2. edges \subseteq Arrows
  BY NowTyped
<1> QED BY <1>1, <1>2, EndingKeeps

-----------------------------------------------------------------------------
(* The passes.                                                               *)

Walked(j, S) == [j EXCEPT !.walk = S]
Listed(j, f) == [j EXCEPT !.snap = f]
Matched(j, f, P) == [j EXCEPT !.pre = f, !.pairs = P]
Moved(j, P, M, n, f) == [j EXCEPT !.pairs = P, !.moved = M, !.note = n, !.snap = f]
Facing(j, S) == [j EXCEPT !.todo = S]
Reading(j, n, t) == [j EXCEPT !.note = n, !.text = t]
Stored(j, S, f, T) == [j EXCEPT !.todo = S, !.queue = f, !.touched = T]
Naming(j, n) == [j EXCEPT !.note = n]
Removing(j, S, T) == [j EXCEPT !.todo = S, !.removed = T]
Rereading(j, t) == [j EXCEPT !.text = t]

LEMMA WalkField ==
  ASSUME NEW j \in Jobs, NEW S \in SUBSET Notes
  PROVE  \E r : /\ r = Walked(j, S) /\ Continues(r, j)
               /\ r.walk = S
<1>1. Walked(j, S) \in Jobs
  BY DEF Walked, Jobs
<1>2. \A r : r = Walked(j, S) =>
         /\ r.alone = j.alone /\ r.one = j.one
         /\ r.walk = S
  BY DEF Walked, Jobs
<1> QED BY <1>1, <1>2 DEF Continues

LEMMA SnapField ==
  ASSUME NEW j \in Jobs, NEW f \in Partial(Hashes)
  PROVE  \E r : /\ r = Listed(j, f) /\ Continues(r, j)
               /\ r.walk = j.walk /\ r.snap = f
<1>1. Listed(j, f) \in Jobs
  BY DEF Listed, Jobs
<1>2. \A r : r = Listed(j, f) =>
         /\ r.alone = j.alone /\ r.one = j.one
         /\ r.walk = j.walk /\ r.snap = f
  BY DEF Listed, Jobs
<1> QED BY <1>1, <1>2 DEF Continues

LEMMA PairFields ==
  ASSUME NEW j \in Jobs, NEW f \in Partial(Hashes), NEW P \in SUBSET (Notes \X Notes)
  PROVE  \E r : /\ r = Matched(j, f, P) /\ Continues(r, j)
               /\ r.walk = j.walk /\ r.snap = j.snap /\ r.pre = f /\ r.pairs = P
<1>1. Matched(j, f, P) \in Jobs
  BY DEF Matched, Jobs
<1>2. \A r : r = Matched(j, f, P) =>
         /\ r.alone = j.alone /\ r.one = j.one
         /\ r.walk = j.walk /\ r.snap = j.snap /\ r.pre = f /\ r.pairs = P
  BY DEF Matched, Jobs
<1> QED BY <1>1, <1>2 DEF Continues

LEMMA MoveFields ==
  ASSUME NEW j \in Jobs, NEW P \in SUBSET (Notes \X Notes), NEW M \in SUBSET (Notes \X Notes),
         NEW n \in Notes, NEW f \in Partial(Hashes)
  PROVE  \E r : /\ r = Moved(j, P, M, n, f) /\ Continues(r, j)
               /\ r.walk = j.walk /\ r.pre = j.pre /\ r.pairs = P /\ r.snap = f
<1>1. Moved(j, P, M, n, f) \in Jobs
  BY DEF Moved, Jobs
<1>2. \A r : r = Moved(j, P, M, n, f) =>
         /\ r.alone = j.alone /\ r.one = j.one
         /\ r.walk = j.walk /\ r.pre = j.pre /\ r.pairs = P /\ r.snap = f
  BY DEF Moved, Jobs
<1> QED BY <1>1, <1>2 DEF Continues

LEMMA TodoField ==
  ASSUME NEW j \in Jobs, NEW S \in SUBSET Notes
  PROVE  \E r : /\ r = Facing(j, S) /\ Continues(r, j)
               /\ r.walk = j.walk /\ r.pre = j.pre /\ r.snap = j.snap /\ r.todo = S
<1>1. Facing(j, S) \in Jobs
  BY DEF Facing, Jobs
<1>2. \A r : r = Facing(j, S) =>
         /\ r.alone = j.alone /\ r.one = j.one
         /\ r.walk = j.walk /\ r.pre = j.pre /\ r.snap = j.snap /\ r.todo = S
  BY DEF Facing, Jobs
<1> QED BY <1>1, <1>2 DEF Continues

LEMMA TextFields ==
  ASSUME NEW j \in Jobs, NEW n \in Notes, NEW t \in Texts \cup {None}
  PROVE  \E r : /\ r = Reading(j, n, t) /\ Continues(r, j)
               /\ r.walk = j.walk /\ r.pre = j.pre /\ r.snap = j.snap /\ r.todo = j.todo
               /\ r.note = n /\ r.text = t
<1>1. Reading(j, n, t) \in Jobs
  BY DEF Reading, Jobs
<1>2. \A r : r = Reading(j, n, t) =>
         /\ r.alone = j.alone /\ r.one = j.one
         /\ r.walk = j.walk /\ r.pre = j.pre /\ r.snap = j.snap /\ r.todo = j.todo
         /\ r.note = n /\ r.text = t
  BY DEF Reading, Jobs
<1> QED BY <1>1, <1>2 DEF Continues

LEMMA UpsertFields ==
  ASSUME NEW j \in Jobs, NEW S \in SUBSET Notes, NEW f \in Partial(Texts), NEW T \in SUBSET Notes
  PROVE  \E r : /\ r = Stored(j, S, f, T) /\ Continues(r, j)
               /\ r.walk = j.walk /\ r.pre = j.pre /\ r.snap = j.snap /\ r.todo = S
<1>1. Stored(j, S, f, T) \in Jobs
  BY DEF Stored, Jobs
<1>2. \A r : r = Stored(j, S, f, T) =>
         /\ r.alone = j.alone /\ r.one = j.one
         /\ r.walk = j.walk /\ r.pre = j.pre /\ r.snap = j.snap /\ r.todo = S
  BY DEF Stored, Jobs
<1> QED BY <1>1, <1>2 DEF Continues

LEMMA NoteField ==
  ASSUME NEW j \in Jobs, NEW n \in Notes
  PROVE  \E r : /\ r = Naming(j, n) /\ Continues(r, j)
               /\ r.walk = j.walk /\ r.todo = j.todo /\ r.note = n
<1>1. Naming(j, n) \in Jobs
  BY DEF Naming, Jobs
<1>2. \A r : r = Naming(j, n) =>
         /\ r.alone = j.alone /\ r.one = j.one
         /\ r.walk = j.walk /\ r.todo = j.todo /\ r.note = n
  BY DEF Naming, Jobs
<1> QED BY <1>1, <1>2 DEF Continues

LEMMA DeleteFields ==
  ASSUME NEW j \in Jobs, NEW S \in SUBSET Notes, NEW T \in SUBSET Notes
  PROVE  \E r : /\ r = Removing(j, S, T) /\ Continues(r, j)
               /\ r.walk = j.walk /\ r.todo = S
<1>1. Removing(j, S, T) \in Jobs
  BY DEF Removing, Jobs
<1>2. \A r : r = Removing(j, S, T) =>
         /\ r.alone = j.alone /\ r.one = j.one
         /\ r.walk = j.walk /\ r.todo = S
  BY DEF Removing, Jobs
<1> QED BY <1>1, <1>2 DEF Continues

LEMMA ResyncField ==
  ASSUME NEW j \in Jobs, NEW t \in Texts \cup {None}
  PROVE  \E r : /\ r = Rereading(j, t) /\ Continues(r, j)
               /\ r.note = j.note /\ r.text = t
<1>1. Rereading(j, t) \in Jobs
  BY DEF Rereading, Jobs
<1>2. \A r : r = Rereading(j, t) =>
         /\ r.alone = j.alone /\ r.one = j.one
         /\ r.note = j.note /\ r.text = t
  BY DEF Rereading, Jobs
<1> QED BY <1>1, <1>2 DEF Continues

LEMMA PassMoves ==
  ASSUME QuietInv, NEW p \in Procs, NEW l \in Labels, NEW r, Continues(r, job[p]),
         ReadyFor(l, r), pc[p] # "idle",
         pc' = [pc EXCEPT ![p] = l], job' = [job EXCEPT ![p] = r],
         TablesTyped', Vouches',
         job[p].alone /\ StageOf(pc[p], job[p]) => StageOf(l, r)'
  PROVE  QuietInv'
  BY RunMoves DEF Continues

LEMMA ListingKeeps ==
  ASSUME QuietInv, NEW p \in Procs, Walk(p) \/ Snapshot(p)
  PROVE  QuietInv'
<1>1. PICK j \in Jobs : j = job[p]
  BY NowTyped
<1>2. UNCHANGED <<disk, rows, edges>> /\ TablesTyped' /\ Vouches'
  <2>1. UNCHANGED <<disk, rows, edges>>
    BY DEF Walk, Snapshot, tables, world
  <2> QED BY <2>1, FilesAndRowsStay, NowTyped DEF QuietInv
<1>3. CASE Walk(p)
  <2>1. PICK r : /\ r = Walked(j, Present)
                 /\ Continues(r, j) /\ r.walk = Present
    BY <1>1, WalkField DEF Present
  <2>2. /\ pc[p] = "walk" /\ pc' = [pc EXCEPT ![p] = "snapshot"]
        /\ job' = [job EXCEPT ![p] = r]
    BY <1>1, <1>3, <2>1 DEF Walk, Walked, At, Goto
  <2>3. StageOf("snapshot", r)'
    BY <1>2, <2>1 DEF StageOf, Present
  <2> QED BY <1>1, <1>2, <2>1, <2>2, <2>3, PassMoves DEF ReadyFor, Labels
<1>4. CASE Snapshot(p)
  <2>1. PICK f \in Partial(Hashes) : f = [n \in Indexed |-> rows[n].hash]
    <3>1. Indexed \in SUBSET Notes /\ \A n \in Indexed : rows[n].hash \in Hashes
      BY RowsAreTyped DEF Indexed, QuietInv, Hashes
    <3> QED BY <3>1, PartialMaps
  <2>2. PICK r : /\ r = Listed(j, f) /\ Continues(r, j)
                 /\ r.walk = j.walk /\ r.snap = f
    <3>1. j \in Jobs /\ f \in Partial(Hashes)
      BY <1>1, <2>1
    <3> QED BY <3>1, SnapField
  <2>3. /\ pc[p] = "snapshot" /\ pc' = [pc EXCEPT ![p] = "pair"]
        /\ job' = [job EXCEPT ![p] = r]
    BY <1>1, <1>4, <2>1, <2>2 DEF Snapshot, Listed, At, Goto
  <2>4. ASSUME StageOf("snapshot", j)
        PROVE  StageOf("pair", r)'
    <3>1. \A n \in Notes : InSnap(r, n)'
      BY <1>2, <2>1, <2>2 DEF InSnap, Indexed
    <3>2. (r.walk = Present)'
      BY <1>2, <2>2, <2>4 DEF StageOf, Present
    <3> QED BY <3>1, <3>2 DEF StageOf
  <2>5. "pair" \in Labels /\ ReadyFor("pair", r)
    BY DEF Labels, ReadyFor
  <2> QED BY <1>1, <1>2, <2>2, <2>3, <2>4, <2>5, PassMoves
<1> QED BY <1>3, <1>4

(* Pass 0. *)
LEMMA PairsAreApart ==
  ASSUME NEW gone, NEW snap, NEW new, NEW pair \in Pairs(gone, snap, new),
         NEW other \in Pairs(gone, snap, new), pair # other
  PROVE  pair[1] # other[1] /\ pair[2] # other[2]
<1>1. /\ pair \in gone \X DOMAIN new /\ other \in gone \X DOMAIN new
      /\ snap[pair[1]] = new[pair[2]] /\ snap[other[1]] = new[other[2]]
      /\ \A m \in gone \ {pair[1]} : snap[m] # new[pair[2]]
      /\ \A m \in DOMAIN new \ {pair[2]} : new[m] # new[pair[2]]
  BY DEF Pairs
<1>2. pair[1] = other[1] <=> pair[2] = other[2]
  BY <1>1
<1> QED BY <1>1, <1>2

LEMMA PairKeeps ==
  ASSUME QuietInv, NEW p \in Procs, Pair(p)
  PROVE  QuietInv'
<1>1. PICK j \in Jobs : j = job[p]
  BY NowTyped
<1>2. UNCHANGED <<disk, rows, edges>> /\ TablesTyped' /\ Vouches'
  <2>1. UNCHANGED <<disk, rows, edges>>
    BY DEF Pair, tables, world
  <2> QED BY <2>1, FilesAndRowsStay, NowTyped DEF QuietInv
<1>3. /\ j.walk \in SUBSET Notes /\ j.snap \in Partial(Hashes)
      /\ DOMAIN j.snap \in SUBSET Notes
  BY PartialDomain DEF Jobs
<1>4. PICK new \in Partial(Hashes) :
         /\ new = Newcomers(p) /\ DOMAIN new \subseteq j.walk \ DOMAIN j.snap
         /\ \A n \in DOMAIN new : new[n] = disk[n]
  <2>1. CASE Gone(p) = {}
    <3>1. Newcomers(p) = [n \in {} |-> None]
      BY <2>1 DEF Newcomers
    <3>2. [n \in {} |-> None] \in Partial(Hashes)
      BY DEF Partial
    <3> QED BY <3>1, <3>2
  <2>2. CASE Gone(p) # {}
    <3>1. Newcomers(p) = [n \in (j.walk \ DOMAIN j.snap) \cap Present |-> disk[n]]
      BY <1>1, <2>2 DEF Newcomers
    <3>2. \A n \in Notes : disk[n] \in Hashes
      BY NowTyped DEF Hashes
    <3>3. (j.walk \ DOMAIN j.snap) \cap Present \in SUBSET Notes
      BY <1>3
    <3>4. Newcomers(p) \in Partial(Hashes)
      BY <3>1, <3>2, <3>3, PartialMaps
    <3> QED BY <3>1, <3>4
  <2> QED BY <2>1, <2>2
<1>5. PICK P \in SUBSET (Notes \X Notes) :
         /\ P = Pairs(Gone(p), j.snap, new)
         /\ \A pair \in P : pair[1] \in DOMAIN j.snap \ j.walk /\ pair[2] \in j.walk \ DOMAIN j.snap
  <2>1. Gone(p) \subseteq DOMAIN j.snap \ j.walk
    BY <1>1 DEF Gone
  <2>2. \A pair \in Pairs(Gone(p), j.snap, new) : pair \in (DOMAIN j.snap \ j.walk) \X (j.walk \ DOMAIN j.snap)
    BY <1>4, <2>1 DEF Pairs
  <2> QED BY <1>3, <2>2
<1>6. PICK r : /\ r = Matched(j, new, P)
               /\ Continues(r, j) /\ r.walk = j.walk /\ r.snap = j.snap /\ r.pre = new /\ r.pairs = P
  <2>1. j \in Jobs /\ new \in Partial(Hashes) /\ P \in SUBSET (Notes \X Notes)
    BY <1>1, <1>4, <1>5
  <2> QED BY <2>1, PairFields
<1>7. /\ pc[p] = "pair" /\ pc' = [pc EXCEPT ![p] = "move"]
      /\ job' = [job EXCEPT ![p] = r]
  BY <1>1, <1>4, <1>5, <1>6 DEF Pair, Matched, At, Goto
<1>8. PairsApart(r)
  BY <1>5, <1>6, PairsAreApart DEF PairsApart
<1>9. ASSUME StageOf("pair", j)
      PROVE  StageOf("move", r)'
  <2>1. \A n \in Notes : InSnap(r, n)'
    BY <1>2, <1>6, <1>9 DEF InSnap, StageOf
  <2>2. (r.walk = Present)' /\ (\A n \in DOMAIN r.pre : r.pre[n] = disk[n])'
    BY <1>2, <1>4, <1>6, <1>9 DEF StageOf, Present
  <2> QED BY <2>1, <2>2 DEF StageOf
<1>10. ReadyFor("move", r)
  BY <1>8 DEF ReadyFor
<1>11. "move" \in Labels
  BY DEF Labels
<1> QED BY <1>1, <1>2, <1>6, <1>7, <1>9, <1>10, <1>11, PassMoves

(* A row changes hands: from a note without a file to one without a row.     *)
LEMMA MoveRowKeeps ==
  ASSUME QuietInv, NEW p \in Procs, MoveRow(p)
  PROVE  QuietInv'
<1>1. PICK j \in Jobs : j = job[p]
  BY NowTyped
<1>2. pc[p] = "move" /\ PairsApart(j)
  BY <1>1 DEF MoveRow, At, QuietInv, RunsTyped, ReadyFor
<1>3. PICK pair \in j.pairs :
         /\ rows' = [rows EXCEPT ![pair[2]] = rows[pair[1]], ![pair[1]] = None]
         /\ job' = [job EXCEPT ![p] = Moved(j, j.pairs \ {pair}, j.moved \cup {pair}, pair[1],
                     Put(Drop(j.snap, pair[1]), pair[2], j.snap[pair[1]]))]
  <2>1. PICK pair \in j.pairs :
           /\ rows' = [rows EXCEPT ![pair[2]] = rows[pair[1]], ![pair[1]] = None]
           /\ job' = [job EXCEPT ![p] =
                        [job[p] EXCEPT !.pairs = @ \ {pair}, !.moved = @ \cup {pair},
                                       !.note = pair[1],
                                       !.snap = Put(Drop(@, pair[1]), pair[2], @[pair[1]])]]
    BY <1>1 DEF MoveRow
  <2>2. Moved(j, j.pairs \ {pair}, j.moved \cup {pair}, pair[1],
              Put(Drop(j.snap, pair[1]), pair[2], j.snap[pair[1]]))
          = [job[p] EXCEPT !.pairs = @ \ {pair}, !.moved = @ \cup {pair},
                           !.note = pair[1],
                           !.snap = Put(Drop(@, pair[1]), pair[2], @[pair[1]])]
    BY <1>1 DEF Moved
  <2> QED BY <2>1, <2>2
<1>4. PICK a \in Notes, b \in Notes :
         /\ a = pair[1] /\ b = pair[2] /\ a # b
         /\ a \in DOMAIN j.snap \ j.walk /\ b \in j.walk \ DOMAIN j.snap
         /\ \A other \in j.pairs \ {pair} : other[1] # a /\ other[2] # b
  BY <1>1, <1>2, <1>3 DEF Jobs, PairsApart
<1>5. PICK f \in Partial(Hashes) :
         /\ f = Put(Drop(j.snap, a), b, j.snap[a])
         /\ DOMAIN f = (DOMAIN j.snap \ {a}) \cup {b} /\ f[b] = j.snap[a]
         /\ \A n \in DOMAIN j.snap \ {a, b} : f[n] = j.snap[n]
  <2>1. j.snap \in Partial(Hashes) /\ j.snap[a] \in Hashes
    BY <1>1, <1>4, PartialDomain DEF Jobs
  <2>2. PICK d \in Partial(Hashes) : d = Drop(j.snap, a)
    BY <2>1, DropIsPartial
  <2>3. Put(d, b, j.snap[a]) \in Partial(Hashes)
    BY <1>4, <2>1, <2>2, PutIsPartial
  <2>4. DOMAIN d = DOMAIN j.snap \ {a} /\ \A n \in DOMAIN j.snap \ {a} : d[n] = j.snap[n]
    BY <2>2 DEF Drop
  <2>5. PICK f \in Partial(Hashes) : f = Put(d, b, j.snap[a])
    BY <2>3
  <2>6. /\ DOMAIN f = DOMAIN d \cup {b} /\ f[b] = j.snap[a]
        /\ \A n \in DOMAIN d \ {b} : f[n] = d[n]
    BY <2>5 DEF Put
  <2> QED BY <2>2, <2>4, <2>5, <2>6
<1>6. PICK P \in SUBSET (Notes \X Notes), M \in SUBSET (Notes \X Notes) :
         P = j.pairs \ {pair} /\ M = j.moved \cup {pair}
  BY <1>1, <1>3 DEF Jobs
<1>7. PICK r : /\ r = Moved(j, P, M, a, f) /\ Continues(r, j)
               /\ r.walk = j.walk /\ r.pre = j.pre /\ r.pairs = P /\ r.snap = f
  <2>1. j \in Jobs /\ a \in Notes /\ f \in Partial(Hashes)
    BY <1>1, <1>4, <1>5
  <2>2. P \in SUBSET (Notes \X Notes) /\ M \in SUBSET (Notes \X Notes)
    BY <1>6
  <2> QED BY <2>1, <2>2, MoveFields
<1>8. job' = [job EXCEPT ![p] = r] /\ pc' = [pc EXCEPT ![p] = "unlink"]
  BY <1>3, <1>4, <1>5, <1>6, <1>7 DEF MoveRow, Goto
<1>9. /\ rows \in [Notes -> Rows \cup {None}] /\ rows' \in [Notes -> Rows \cup {None}]
      /\ rows'[a] = None /\ rows'[b] = rows[a]
      /\ \A n \in Notes \ {a, b} : rows'[n] = rows[n]
  BY <1>3, <1>4, NowTyped
<1>10. TablesTyped' /\ Vouches'
  <2>1. UNCHANGED <<disk, edges>>
    BY DEF MoveRow, world
  <2>2. TablesTyped'
    BY <1>9, <2>1 DEF QuietInv, TablesTyped
  <2>3. Vouches'
    BY <1>4, <1>9 DEF QuietInv, Vouches
  <2> QED BY <2>2, <2>3
<1>11. ReadyFor("unlink", r)
  <2>1. PairsApart(r)
    <3>1. /\ P = j.pairs \ {pair} /\ r.pairs = P /\ r.walk = j.walk /\ r.snap = f
          /\ DOMAIN f = (DOMAIN j.snap \ {a}) \cup {b}
      BY <1>5, <1>6, <1>7
    <3>2. \A other \in P : other[1] \in DOMAIN f \ j.walk /\ other[2] \in j.walk \ DOMAIN f
      BY <1>2, <1>4, <3>1 DEF PairsApart
    <3> QED BY <1>2, <3>1, <3>2 DEF PairsApart
  <2> QED BY <2>1 DEF ReadyFor
<1>12. ASSUME StageOf("move", j)
       PROVE  StageOf("unlink", r)'
  <2>1. UNCHANGED disk
    BY DEF MoveRow, world
  <2>2. \A n \in Notes : InSnap(j, n)
    BY <1>12 DEF StageOf
  <2>3. \A n \in Notes : InSnap(r, n)'
    <3> SUFFICES ASSUME NEW n \in Notes
                 PROVE  InSnap(r, n)'
      OBVIOUS
    <3>1. CASE n = a
      BY <1>4, <1>5, <1>7, <1>9, <3>1 DEF InSnap
    <3>2. CASE n = b
      BY <1>4, <1>5, <1>7, <1>9, <2>2, <3>2 DEF InSnap
    <3>3. CASE n \notin {a, b}
      BY <1>4, <1>5, <1>7, <1>9, <2>2, <3>3 DEF InSnap
    <3> QED BY <3>1, <3>2, <3>3
  <2>4. (r.walk = Present)' /\ (\A n \in DOMAIN r.pre : r.pre[n] = disk[n])'
    BY <1>7, <1>12, <2>1 DEF StageOf, Present
  <2> QED BY <2>3, <2>4 DEF StageOf
<1>13. "unlink" \in Labels
  BY DEF Labels
<1> QED BY <1>1, <1>2, <1>7, <1>8, <1>10, <1>11, <1>12, <1>13, PassMoves

LEMMA DropMovedEdgesKeeps ==
  ASSUME QuietInv, NEW p \in Procs, DropMovedEdges(p)
  PROVE  QuietInv'
<1>1. PICK j \in Jobs : j = job[p] /\ job = [job EXCEPT ![p] = j]
  BY NowTyped
<1>2. UNCHANGED <<disk, rows, job>> /\ edges' \subseteq Arrows /\ pc[p] = "unlink"
      /\ pc' = [pc EXCEPT ![p] = "move"]
  BY NowTyped DEF DropMovedEdges, At, Goto, world
<1>3. TablesTyped' /\ Vouches'
  BY <1>2, FilesAndRowsStay DEF QuietInv
<1>4. ReadyFor("move", j)
  BY <1>1, <1>2 DEF QuietInv, RunsTyped, ReadyFor
<1>5. ASSUME StageOf("unlink", j)
      PROVE  StageOf("move", j)'
  BY <1>2, <1>5 DEF StageOf, InSnap, Present
<1>6. "move" \in Labels /\ Continues(j, j)
  BY DEF Labels, Continues
<1> QED BY <1>1, <1>2, <1>3, <1>4, <1>5, <1>6, PassMoves

LEMMA EndMovesKeeps ==
  ASSUME QuietInv, NEW p \in Procs, EndMoves(p)
  PROVE  QuietInv'
<1>1. PICK j \in Jobs : j = job[p]
  BY NowTyped
<1>2. UNCHANGED <<disk, rows, edges>> /\ TablesTyped' /\ Vouches'
  <2>1. UNCHANGED <<disk, rows, edges>>
    BY DEF EndMoves, tables, world
  <2> QED BY <2>1, FilesAndRowsStay, NowTyped DEF QuietInv
<1>3. j.walk \in SUBSET Notes
  BY <1>1 DEF Jobs
<1>4. PICK r : /\ r = Facing(j, j.walk) /\ Continues(r, j)
               /\ r.walk = j.walk /\ r.pre = j.pre /\ r.snap = j.snap /\ r.todo = j.walk
  <2>1. j \in Jobs
    BY <1>1
  <2> QED BY <1>3, <2>1, TodoField
<1>5. pc[p] = "move" /\ pc' = [pc EXCEPT ![p] = "ingest"] /\ job' = [job EXCEPT ![p] = r]
  BY <1>1, <1>4 DEF EndMoves, Facing, At, Goto
<1>6. ASSUME StageOf("move", j)
      PROVE  StageOf("ingest", r)'
  <2>1. \A n \in Notes : InSnap(r, n)'
    BY <1>2, <1>4, <1>6 DEF StageOf, InSnap
  <2>2. Ingested(r)'
    BY <1>3, <1>4, <2>1 DEF Ingested
  <2>3. (r.walk = Present)' /\ (\A n \in DOMAIN r.pre : r.pre[n] = disk[n])'
    BY <1>2, <1>4, <1>6 DEF StageOf, Present
  <2> QED BY <2>2, <2>3 DEF StageOf
<1>7. "ingest" \in Labels /\ ReadyFor("ingest", r)
  BY DEF Labels, ReadyFor
<1> QED BY <1>1, <1>2, <1>4, <1>5, <1>6, <1>7, PassMoves

(* What a run that has been alone reads in Pass 1 is what the file has.      *)
LEMMA ReadsTheFile ==
  ASSUME NEW p \in Procs, NEW n \in Notes, NEW j, j = job[p], StageOf("ingest", j)
  PROVE  Content(p, n) = disk[n]
  BY DEF StageOf, Content

LEMMA SkipKeeps ==
  ASSUME QuietInv, NEW p \in Procs, NEW n \in Notes, Skip(p, n)
  PROVE  QuietInv'
<1>1. PICK j \in Jobs : j = job[p]
  BY NowTyped
<1>2. UNCHANGED <<disk, rows, edges, pc>> /\ TablesTyped' /\ Vouches'
  <2>1. UNCHANGED <<disk, rows, edges, pc>>
    BY DEF Skip, tables, world
  <2> QED BY <2>1, FilesAndRowsStay, NowTyped DEF QuietInv
<1>3. PICK S \in SUBSET Notes : S = j.todo \ {n}
  BY <1>1 DEF Jobs
<1>4. PICK r : /\ r = Facing(j, S) /\ Continues(r, j)
               /\ r.walk = j.walk /\ r.pre = j.pre /\ r.snap = j.snap /\ r.todo = S
  <2>1. j \in Jobs
    BY <1>1
  <2> QED BY <1>3, <2>1, TodoField
<1>5. /\ pc[p] = "ingest" /\ pc = [pc EXCEPT ![p] = "ingest"] /\ n \in j.todo
      /\ job' = [job EXCEPT ![p] = r]
  BY <1>1, <1>3, <1>4 DEF Skip, Facing, At, QuietInv, RunsTyped
<1>6. ASSUME StageOf("ingest", j)
      PROVE  StageOf("ingest", r)'
  <2>1. disk[n] # None /\ n \in DOMAIN j.snap /\ j.snap[n] = disk[n]
    BY <1>1, <1>6, ReadsTheFile DEF Skip, Unchanged
  <2>2. Ingested(j)
    BY <1>6 DEF StageOf
  <2>3. rows[n] # None /\ rows[n].hash = disk[n]
    BY <1>5, <2>1, <2>2 DEF Ingested, InSnap
  <2>4. rows[n].body = disk[n] /\ rows[n].body \notin Unparsable /\ rows[n] \in Rows
    BY <2>1, <2>3 DEF QuietInv, TablesTyped, Vouches
  <2>5. RowMirrors(n)
    BY <2>1, <2>3, <2>4 DEF RowMirrors, Row, Rows
  <2>6. Ingested(r)'
    BY <1>2, <1>3, <1>4, <2>2, <2>5 DEF Ingested, InSnap, RowMirrors
  <2>7. (r.walk = Present)' /\ (\A m \in DOMAIN r.pre : r.pre[m] = disk[m])'
    BY <1>2, <1>4, <1>6 DEF StageOf, Present
  <2> QED BY <2>6, <2>7 DEF StageOf
<1>7. "ingest" \in Labels /\ ReadyFor("ingest", r)
  BY DEF Labels, ReadyFor
<1> QED BY <1>1, <1>2, <1>4, <1>5, <1>6, <1>7, PassMoves

LEMMA IngestKeeps ==
  ASSUME QuietInv, NEW p \in Procs, NEW n \in Notes, Ingest(p, n)
  PROVE  QuietInv'
<1>1. PICK j \in Jobs : j = job[p]
  BY NowTyped
<1>2. UNCHANGED <<disk, rows, edges>> /\ TablesTyped' /\ Vouches'
  <2>1. UNCHANGED <<disk, rows, edges>>
    BY DEF Ingest, tables, world
  <2> QED BY <2>1, FilesAndRowsStay, NowTyped DEF QuietInv
<1>3. PICK t \in Texts \cup {None} : t = Content(p, n) /\ t \in Texts \ Unparsable
  BY DEF Ingest
<1>4. PICK r : /\ r = Reading(j, n, t) /\ Continues(r, j)
               /\ r.walk = j.walk /\ r.pre = j.pre /\ r.snap = j.snap /\ r.todo = j.todo
               /\ r.note = n /\ r.text = t
  <2>1. j \in Jobs /\ t \in Texts \cup {None}
    BY <1>1, <1>3
  <2> QED BY <2>1, TextFields
<1>5. /\ pc[p] = "ingest" /\ pc' = [pc EXCEPT ![p] = "upsert"] /\ n \in j.todo
      /\ job' = [job EXCEPT ![p] = r]
  BY <1>1, <1>3, <1>4 DEF Ingest, Reading, At, Goto
<1>6. ASSUME StageOf("ingest", j)
      PROVE  StageOf("upsert", r)'
  <2>1. r.note \in r.todo /\ (r.text = disk[r.note])'
    BY <1>1, <1>2, <1>3, <1>4, <1>5, <1>6, ReadsTheFile
  <2>2. Ingested(r)'
    BY <1>2, <1>4, <1>6 DEF StageOf, Ingested, InSnap, RowMirrors
  <2>3. (r.walk = Present)' /\ (\A m \in DOMAIN r.pre : r.pre[m] = disk[m])'
    BY <1>2, <1>4, <1>6 DEF StageOf, Present
  <2> QED BY <2>1, <2>2, <2>3 DEF StageOf
<1>7. "upsert" \in Labels /\ ReadyFor("upsert", r)
  BY <1>3, <1>4 DEF Labels, ReadyFor
<1> QED BY <1>1, <1>2, <1>4, <1>5, <1>6, <1>7, PassMoves

LEMMA RejectKeeps ==
  ASSUME QuietInv, NEW p \in Procs, NEW n \in Notes, Reject(p, n)
  PROVE  QuietInv'
<1>1. PICK j \in Jobs : j = job[p]
  BY NowTyped
<1>2. UNCHANGED <<disk, edges, pc>>
  BY DEF Reject, world
<1>3. PICK S \in SUBSET Notes : S = j.todo \ {n}
  BY <1>1 DEF Jobs
<1>4. PICK r : /\ r = Facing(j, S) /\ Continues(r, j)
               /\ r.walk = j.walk /\ r.pre = j.pre /\ r.snap = j.snap /\ r.todo = S
  <2>1. j \in Jobs
    BY <1>1
  <2> QED BY <1>3, <2>1, TodoField
<1>5. /\ pc[p] = "ingest" /\ pc = [pc EXCEPT ![p] = "ingest"] /\ n \in j.todo
      /\ job' = [job EXCEPT ![p] = r]
  BY <1>1, <1>3, <1>4 DEF Reject, Facing, At, QuietInv, RunsTyped
<1>6. /\ rows' \in [Notes -> Rows \cup {None}]
      /\ \A m \in Notes \ {n} : rows'[m] = rows[m]
      /\ rows'[n] # None => rows[n] # None /\ rows'[n].hash = None /\ rows'[n].body = rows[n].body
  <2>1. CASE rows[n] = None
    BY <2>1, NowTyped DEF Reject
  <2>2. CASE rows[n] # None
    <3>1. rows \in [Notes -> Rows \cup {None}] /\ rows[n] \in Rows
      BY <2>2, NowTyped
    <3>2. PICK row \in Rows : row = [rows[n] EXCEPT !.hash = None] /\ row.hash = None
                              /\ row.body = rows[n].body
      <4>1. [rows[n] EXCEPT !.hash = None] \in Rows
        BY <3>1 DEF Rows
      <4>2. /\ [rows[n] EXCEPT !.hash = None].hash = None
            /\ [rows[n] EXCEPT !.hash = None].body = rows[n].body
        BY <3>1 DEF Rows
      <4> QED BY <4>1, <4>2
    <3>3. rows' = [rows EXCEPT ![n] = row]
      BY <2>2, <3>2 DEF Reject
    <3> QED BY <2>2, <3>1, <3>2, <3>3
  <2> QED BY <2>1, <2>2
<1>7. TablesTyped' /\ Vouches'
  <2>1. TablesTyped'
    BY <1>2, <1>6 DEF QuietInv, TablesTyped
  <2>2. Vouches'
    BY <1>6 DEF QuietInv, Vouches
  <2> QED BY <2>1, <2>2
<1>8. ASSUME StageOf("ingest", j)
      PROVE  StageOf("ingest", r)'
  <2>1. Ingested(j) /\ j.walk = Present
    BY <1>8 DEF StageOf
  <2>2. disk[n] # None /\ disk[n] \in Unparsable
    BY <1>1, <1>5, <1>8, <2>1, ReadsTheFile DEF Reject, Ingested, Present
  <2>3. RowMirrors(n)'
    BY <1>2, <1>6, <2>2 DEF RowMirrors
  <2>4. \A m \in Notes \ {n} : RowMirrors(m) => RowMirrors(m)'
    BY <1>2, <1>6 DEF RowMirrors
  <2>5. \A m \in Notes \ {n} : InSnap(j, m) => InSnap(r, m)'
    BY <1>4, <1>6 DEF InSnap
  <2>6. Ingested(r)'
    <3>1. r.todo \subseteq r.walk /\ n \in r.walk
      BY <1>3, <1>4, <1>5, <2>1 DEF Ingested
    <3>2. ASSUME NEW m \in r.walk \ r.todo
          PROVE  RowMirrors(m)'
      <4>1. m \in Notes /\ (m = n \/ m \in j.walk \ j.todo)
        BY <1>1, <1>3, <1>4 DEF Jobs
      <4> QED BY <2>1, <2>3, <2>4, <4>1 DEF Ingested
    <3>3. ASSUME NEW m \in (Notes \ r.walk) \cup r.todo
          PROVE  InSnap(r, m)'
      <4>1. m \in Notes \ {n} /\ m \in (Notes \ j.walk) \cup j.todo
        BY <1>3, <1>4, <3>1
      <4> QED BY <2>1, <2>5, <4>1 DEF Ingested
    <3> QED BY <3>1, <3>2, <3>3 DEF Ingested
  <2>7. (r.walk = Present)' /\ (\A m \in DOMAIN r.pre : r.pre[m] = disk[m])'
    BY <1>2, <1>4, <1>8 DEF StageOf, Present
  <2> QED BY <2>6, <2>7 DEF StageOf
<1>9. "ingest" \in Labels /\ ReadyFor("ingest", r)
  BY DEF Labels, ReadyFor
<1> QED BY <1>1, <1>2, <1>4, <1>5, <1>7, <1>8, <1>9, PassMoves

LEMMA UpsertKeeps ==
  ASSUME QuietInv, NEW p \in Procs, Upsert(p)
  PROVE  QuietInv'
<1>1. PICK j \in Jobs : j = job[p]
  BY NowTyped
<1>2. UNCHANGED <<disk, edges>> /\ pc[p] = "upsert"
  BY DEF Upsert, world, At
<1>3. PICK n \in Notes, t \in Texts \ Unparsable : n = j.note /\ t = j.text
  BY <1>1, <1>2 DEF QuietInv, RunsTyped, ReadyFor
<1>4. PICK S \in SUBSET Notes, T \in SUBSET Notes :
         S = j.todo \ {n} /\ T = IF n \in MovedTo(p) THEN j.touched ELSE j.touched \cup {n}
  BY <1>1 DEF Jobs
<1>5. PICK f \in Partial(Texts) : f = Put(j.queue, n, t)
  <2>1. j.queue \in Partial(Texts) /\ t \in Texts
    BY <1>1, <1>3 DEF Jobs
  <2> QED BY <2>1, PutIsPartial
<1>6. PICK r : /\ r = Stored(j, S, f, T) /\ Continues(r, j)
               /\ r.walk = j.walk /\ r.pre = j.pre /\ r.snap = j.snap /\ r.todo = S
  <2>1. j \in Jobs
    BY <1>1
  <2>2. S \in SUBSET Notes /\ T \in SUBSET Notes /\ f \in Partial(Texts)
    BY <1>4, <1>5
  <2> QED BY <2>1, <2>2, UpsertFields
<1>7. job' = [job EXCEPT ![p] = r]
  BY <1>1, <1>3, <1>4, <1>5, <1>6 DEF Upsert, Stored
<1>8. PICK l \in Labels : /\ pc' = [pc EXCEPT ![p] = l] /\ ReadyFor(l, r)
                          /\ l = IF j.one THEN "link" ELSE "ingest"
  BY <1>1 DEF Upsert, Goto, Labels, ReadyFor
<1>9. Row(t, t) \in Rows /\ Row(t, t).body = t /\ Row(t, t).hash = t
  BY <1>3 DEF Row, Rows
<1>10. /\ rows' \in [Notes -> Rows \cup {None}] /\ rows'[n] = Row(t, t)
       /\ \A m \in Notes \ {n} : rows'[m] = rows[m]
  BY <1>1, <1>3, <1>9, NowTyped DEF Upsert
<1>11. TablesTyped' /\ Vouches'
  <2>1. TablesTyped'
    BY <1>2, <1>10 DEF QuietInv, TablesTyped
  <2>2. Vouches'
    BY <1>3, <1>9, <1>10 DEF QuietInv, Vouches
  <2> QED BY <2>1, <2>2
<1>12. ASSUME j.alone, StageOf("upsert", j)
       PROVE  StageOf(l, r)'
  <2>1. l = "ingest"
    BY <1>1, <1>8, <1>12 DEF QuietInv, AloneIsAlone
  <2>2. Ingested(j) /\ j.walk = Present /\ n \in j.todo /\ t = disk[n]
    BY <1>3, <1>12 DEF StageOf
  <2>3. RowMirrors(n)'
    <3>1. t # None /\ t \notin Unparsable
      BY <1>3, VaultConstants
    <3> QED BY <1>2, <1>10, <2>2, <3>1 DEF RowMirrors
  <2>4. \A m \in Notes \ {n} : RowMirrors(m) => RowMirrors(m)'
    BY <1>2, <1>10 DEF RowMirrors
  <2>5. \A m \in Notes \ {n} : InSnap(j, m) => InSnap(r, m)'
    BY <1>6, <1>10 DEF InSnap
  <2>6. Ingested(r)'
    <3>1. r.todo \subseteq r.walk /\ n \in r.walk
      BY <1>4, <1>6, <2>2 DEF Ingested
    <3>2. ASSUME NEW m \in r.walk \ r.todo
          PROVE  RowMirrors(m)'
      <4>1. m \in Notes /\ (m = n \/ m \in j.walk \ j.todo)
        BY <1>1, <1>4, <1>6 DEF Jobs
      <4> QED BY <2>2, <2>3, <2>4, <4>1 DEF Ingested
    <3>3. ASSUME NEW m \in (Notes \ r.walk) \cup r.todo
          PROVE  InSnap(r, m)'
      <4>1. m \in Notes \ {n} /\ m \in (Notes \ j.walk) \cup j.todo
        BY <1>4, <1>6, <3>1
      <4> QED BY <2>2, <2>5, <4>1 DEF Ingested
    <3> QED BY <3>1, <3>2, <3>3 DEF Ingested
  <2>7. (r.walk = Present)' /\ (\A m \in DOMAIN r.pre : r.pre[m] = disk[m])'
    BY <1>2, <1>6, <1>12 DEF StageOf, Present
  <2> QED BY <2>1, <2>6, <2>7 DEF StageOf
<1> QED BY <1>1, <1>2, <1>6, <1>7, <1>8, <1>11, <1>12, PassMoves

LEMMA EndIngestKeeps ==
  ASSUME QuietInv, NEW p \in Procs, EndIngest(p)
  PROVE  QuietInv'
<1>1. PICK j \in Jobs : j = job[p]
  BY NowTyped
<1>2. UNCHANGED <<disk, rows, edges>> /\ TablesTyped' /\ Vouches'
  <2>1. UNCHANGED <<disk, rows, edges>>
    BY DEF EndIngest, tables, world
  <2> QED BY <2>1, FilesAndRowsStay, NowTyped DEF QuietInv
<1>3. PICK S \in SUBSET Notes : S = DOMAIN j.snap \ j.walk
  BY <1>1, PartialDomain DEF Jobs
<1>4. PICK r : /\ r = Facing(j, S) /\ Continues(r, j)
               /\ r.walk = j.walk /\ r.pre = j.pre /\ r.snap = j.snap /\ r.todo = S
  <2>1. j \in Jobs
    BY <1>1
  <2> QED BY <1>3, <2>1, TodoField
<1>5. /\ pc[p] = "ingest" /\ pc' = [pc EXCEPT ![p] = "sweep"] /\ j.todo = {}
      /\ job' = [job EXCEPT ![p] = r]
  BY <1>1, <1>3, <1>4 DEF EndIngest, Facing, At, Goto
<1>6. ASSUME StageOf("ingest", j)
      PROVE  StageOf("sweep", r)'
  <2>1. Ingested(j) /\ j.walk = Present
    BY <1>6 DEF StageOf
  <2>2. ASSUME NEW n \in Notes \ r.todo
        PROVE  RowMirrors(n)'
    <3>1. CASE n \in j.walk
      BY <1>2, <1>5, <2>1, <3>1 DEF Ingested, RowMirrors
    <3>2. CASE n \notin j.walk
      <4>1. disk[n] = None /\ n \notin DOMAIN j.snap
        BY <1>3, <1>4, <2>1, <3>2 DEF Present
      <4>2. rows[n] = None
        BY <2>1, <3>2, <4>1 DEF Ingested, InSnap
      <4> QED BY <1>2, <4>1, <4>2 DEF RowMirrors
    <3> QED BY <3>1, <3>2
  <2>3. (r.walk = Present)' /\ r.todo \cap r.walk = {}
    BY <1>2, <1>3, <1>4, <2>1 DEF Present
  <2> QED BY <2>2, <2>3 DEF StageOf
<1>7. "sweep" \in Labels /\ ReadyFor("sweep", r)
  BY DEF Labels, ReadyFor
<1> QED BY <1>1, <1>2, <1>4, <1>5, <1>6, <1>7, PassMoves

LEMMA SweepEdgesKeeps ==
  ASSUME QuietInv, NEW p \in Procs, NEW n \in Notes, SweepEdges(p, n)
  PROVE  QuietInv'
<1>1. PICK j \in Jobs : j = job[p]
  BY NowTyped
<1>2. UNCHANGED <<disk, rows>> /\ edges' \subseteq Arrows
  BY NowTyped DEF SweepEdges, world
<1>3. TablesTyped' /\ Vouches'
  BY <1>2, FilesAndRowsStay DEF QuietInv
<1>4. PICK r : /\ r = Naming(j, n) /\ Continues(r, j)
               /\ r.walk = j.walk /\ r.todo = j.todo /\ r.note = n
  <2>1. j \in Jobs
    BY <1>1
  <2> QED BY <2>1, NoteField
<1>5. /\ pc[p] = "sweep" /\ pc' = [pc EXCEPT ![p] = "delete"] /\ n \in j.todo
      /\ job' = [job EXCEPT ![p] = r]
  BY <1>1, <1>4 DEF SweepEdges, Naming, At, Goto
<1>6. ASSUME StageOf("sweep", j)
      PROVE  StageOf("delete", r)'
  <2>1. r.todo \cap r.walk = {} /\ r.note \in r.todo
    BY <1>4, <1>5, <1>6 DEF StageOf
  <2>2. (\A m \in Notes \ r.todo : RowMirrors(m))' /\ (r.walk = Present)'
    BY <1>2, <1>4, <1>6 DEF StageOf, RowMirrors, Present
  <2> QED BY <2>1, <2>2 DEF StageOf
<1>7. "delete" \in Labels /\ ReadyFor("delete", r)
  BY <1>4 DEF Labels, ReadyFor
<1> QED BY <1>1, <1>3, <1>4, <1>5, <1>6, <1>7, PassMoves

LEMMA DeleteRowKeeps ==
  ASSUME QuietInv, NEW p \in Procs, DeleteRow(p)
  PROVE  QuietInv'
<1>1. PICK j \in Jobs : j = job[p]
  BY NowTyped
<1>2. UNCHANGED <<disk, edges>> /\ pc[p] = "delete" /\ pc' = [pc EXCEPT ![p] = "sweep"]
  BY DEF DeleteRow, world, At, Goto
<1>3. PICK n \in Notes : n = j.note
  BY <1>1, <1>2 DEF QuietInv, RunsTyped, ReadyFor
<1>4. PICK S \in SUBSET Notes, T \in SUBSET Notes : S = j.todo \ {n} /\ T = j.removed \cup {n}
  BY <1>1, <1>3 DEF Jobs
<1>5. PICK r : r = Removing(j, S, T) /\ Continues(r, j) /\ r.walk = j.walk /\ r.todo = S
  <2>1. j \in Jobs
    BY <1>1
  <2>2. S \in SUBSET Notes /\ T \in SUBSET Notes
    BY <1>4
  <2> QED BY <2>1, <2>2, DeleteFields
<1>6. job' = [job EXCEPT ![p] = r]
  BY <1>1, <1>3, <1>4, <1>5 DEF DeleteRow, Removing
<1>7. /\ rows' \in [Notes -> Rows \cup {None}] /\ rows'[n] = None
      /\ \A m \in Notes \ {n} : rows'[m] = rows[m]
  BY <1>1, <1>3, NowTyped DEF DeleteRow
<1>8. TablesTyped' /\ Vouches'
  <2>1. TablesTyped'
    BY <1>2, <1>7 DEF QuietInv, TablesTyped
  <2>2. Vouches'
    BY <1>7 DEF QuietInv, Vouches
  <2> QED BY <2>1, <2>2
<1>9. ASSUME StageOf("delete", j)
      PROVE  StageOf("sweep", r)'
  <2>1. j.walk = Present /\ n \in j.todo /\ j.todo \cap j.walk = {}
        /\ \A m \in Notes \ j.todo : RowMirrors(m)
    BY <1>3, <1>9 DEF StageOf
  <2>2. RowMirrors(n)'
    BY <1>2, <1>7, <2>1 DEF RowMirrors, Present
  <2>3. \A m \in Notes \ {n} : RowMirrors(m) => RowMirrors(m)'
    BY <1>2, <1>7 DEF RowMirrors
  <2>4. \A m \in Notes \ r.todo : RowMirrors(m)'
    BY <1>4, <1>5, <2>1, <2>2, <2>3
  <2>5. (r.walk = Present)' /\ r.todo \cap r.walk = {}
    BY <1>2, <1>4, <1>5, <2>1 DEF Present
  <2> QED BY <2>4, <2>5 DEF StageOf
<1>10. "sweep" \in Labels /\ ReadyFor("sweep", r)
  BY DEF Labels, ReadyFor
<1> QED BY <1>1, <1>2, <1>5, <1>6, <1>8, <1>9, <1>10, PassMoves

Emptied(j) ==
    [j EXCEPT !.walk = {}, !.snap = NoJob.snap, !.pre = NoJob.pre, !.note = None, !.text = None]

LEMMA EndSweepKeeps ==
  ASSUME QuietInv, NEW p \in Procs, EndSweep(p)
  PROVE  QuietInv'
<1>1. PICK j \in Jobs : j = job[p]
  BY NowTyped
<1>2. UNCHANGED <<disk, rows, edges>> /\ TablesTyped' /\ Vouches'
  <2>1. UNCHANGED <<disk, rows, edges>>
    BY DEF EndSweep, tables, world
  <2> QED BY <2>1, FilesAndRowsStay, NowTyped DEF QuietInv
<1>3. PICK r : r = Emptied(j) /\ Continues(r, j)
  <2>1. j \in Jobs /\ NoJob.snap \in Partial(Hashes) /\ NoJob.pre \in Partial(Hashes)
    BY <1>1, NewRunIsTyped DEF Jobs
  <2>2. Emptied(j) \in Jobs
    BY <2>1 DEF Emptied, Jobs
  <2>3. \A r : r = Emptied(j) => r.alone = j.alone /\ r.one = j.one
    BY <2>1 DEF Emptied, Jobs
  <2> QED BY <2>2, <2>3 DEF Continues
<1>4. /\ pc[p] = "sweep" /\ pc' = [pc EXCEPT ![p] = "link"] /\ j.todo = {}
      /\ job' = [job EXCEPT ![p] = r]
  BY <1>1, <1>3 DEF EndSweep, Emptied, At, Goto
<1>5. ASSUME StageOf("sweep", j)
      PROVE  StageOf("link", r)'
  <2>1. \A n \in Notes : RowMirrors(n)'
    BY <1>2, <1>4, <1>5 DEF StageOf, RowMirrors
  <2> QED BY <2>1 DEF StageOf
<1>6. "link" \in Labels /\ ReadyFor("link", r)
  BY DEF Labels, ReadyFor
<1> QED BY <1>1, <1>2, <1>3, <1>4, <1>5, <1>6, PassMoves

-----------------------------------------------------------------------------
(* Writes, starts and the vault's owner.                                     *)

LEMMA ResyncKeeps ==
  ASSUME QuietInv, NEW p \in Procs, Resync(p)
  PROVE  QuietInv'
<1>1. PICK j \in Jobs : j = job[p]
  BY NowTyped
<1>2. UNCHANGED <<disk, rows, edges>> /\ TablesTyped' /\ Vouches' /\ edges \subseteq Arrows
  <2>1. UNCHANGED <<disk, rows, edges>>
    BY DEF Resync, tables, world
  <2> QED BY <2>1, FilesAndRowsStay, NowTyped DEF QuietInv
<1>3. pc[p] = "resync" /\ j.note \in Notes /\ ~j.alone
  BY <1>1 DEF Resync, At, QuietInv, RunsTyped, ReadyFor, AloneIsAlone, StageOf
<1>4. CASE disk[j.note] \in Texts \ Unparsable
  <2>1. PICK t \in Texts \cup {None} : t = disk[j.note] /\ t \in Texts \ Unparsable
    BY <1>4
  <2>2. PICK r : r = Rereading(j, t) /\ Continues(r, j) /\ r.note = j.note /\ r.text = t
    <3>1. j \in Jobs /\ t \in Texts \cup {None}
      BY <1>1, <2>1
    <3> QED BY <3>1, ResyncField
  <2>3. job' = [job EXCEPT ![p] = r] /\ pc' = [pc EXCEPT ![p] = "upsert"]
    BY <1>1, <1>4, <2>1, <2>2 DEF Resync, Rereading, Goto
  <2>4. "upsert" \in Labels /\ ReadyFor("upsert", r)
    BY <1>3, <2>1, <2>2 DEF Labels, ReadyFor
  <2> QED BY <1>1, <1>2, <1>3, <2>2, <2>3, <2>4, PassMoves
<1>5. CASE disk[j.note] \notin Texts \ Unparsable
  <2>1. Finish(p)
    BY <1>1, <1>5 DEF Resync
  <2> QED BY <1>2, <1>3, <2>1, EndingKeeps
<1> QED BY <1>4, <1>5

LEMMA WriteFileKeeps ==
  ASSUME QuietInv, NEW p \in Procs, WriteFile(p)
  PROVE  QuietInv'
<1>1. PICK j \in Jobs : j = job[p] /\ job = [job EXCEPT ![p] = j]
  BY NowTyped
<1>2. /\ UNCHANGED <<rows, edges, job>> /\ pc[p] = "write" /\ pc' = [pc EXCEPT ![p] = "resync"]
      /\ disk' = [disk EXCEPT ![j.note] = j.new]
  BY <1>1 DEF WriteFile, At, Goto, tables
<1>3. j.note \in Notes /\ ~j.alone /\ j.new \in Texts \cup {None}
  BY <1>1, <1>2 DEF QuietInv, RunsTyped, ReadyFor, AloneIsAlone, StageOf, Jobs
<1>4. TablesTyped' /\ Vouches'
  <2>1. disk' \in [Notes -> Texts \cup {None}]
    BY <1>2, <1>3, NowTyped
  <2> QED BY <1>2, <2>1 DEF QuietInv, TablesTyped, Vouches
<1>5. "resync" \in Labels /\ ReadyFor("resync", j) /\ Continues(j, j)
  BY <1>3 DEF Labels, ReadyFor, Continues
<1> QED BY <1>1, <1>2, <1>3, <1>4, <1>5, PassMoves

Overlapped(j) == [j EXCEPT !.alone = FALSE]

LEMMA OverlappedRuns ==
  ASSUME NEW j \in Jobs
  PROVE  /\ Overlapped(j) \in Jobs /\ ~Overlapped(j).alone
         /\ \A l : ReadyFor(l, j) => ReadyFor(l, Overlapped(j))
<1>1. Overlapped(j) \in Jobs
  BY DEF Overlapped, Jobs
<1>2. /\ Overlapped(j).alone = FALSE /\ Overlapped(j).pairs = j.pairs
      /\ Overlapped(j).walk = j.walk /\ Overlapped(j).snap = j.snap
      /\ Overlapped(j).note = j.note /\ Overlapped(j).text = j.text
  BY DEF Overlapped, Jobs
<1> QED BY <1>1, <1>2 DEF ReadyFor, PairsApart

(* A run begins, and no other is alone any longer.                           *)
LEMMA RunStarts ==
  ASSUME QuietInv, NEW p \in Procs, NEW l \in Labels, NEW r \in Jobs, ReadyFor(l, r),
         pc' = [pc EXCEPT ![p] = l], job' = [Overlap(p) EXCEPT ![p] = r],
         UNCHANGED <<disk, rows, edges>>,
         r.alone => ~r.one /\ StageOf(l, r)' /\ \A q \in Procs \ {p} : pc[q] = "idle"
  PROVE  QuietInv'
<1>1. TablesTyped' /\ Vouches'
  BY FilesAndRowsStay, NowTyped DEF QuietInv
<1>2. RunsTyped
  BY DEF QuietInv
<1>3. /\ job' = [q \in Procs |-> IF q = p THEN r ELSE Overlapped(job[q])]
      /\ pc' \in [Procs -> Labels] /\ pc'[p] = l /\ \A q \in Procs \ {p} : pc'[q] = pc[q]
  BY <1>2 DEF Overlap, Overlapped, RunsTyped
<1>4. RunsTyped'
  <2>1. \A q \in Procs : job'[q] = IF q = p THEN r ELSE Overlapped(job[q])
    BY <1>3
  <2>2. ASSUME NEW q \in Procs
        PROVE  job'[q] \in Jobs /\ ReadyFor(pc'[q], job'[q])
    BY <1>2, <1>3, <2>1, OverlappedRuns DEF RunsTyped
  <2>3. job' \in [Procs -> Jobs]
    BY <1>3, <2>2
  <2> QED BY <1>3, <2>2, <2>3 DEF RunsTyped
<1>5. AloneIsAlone'
  <2> SUFFICES ASSUME NEW q \in Procs, job'[q].alone
               PROVE  /\ ~job'[q].one
                      /\ \A o \in Procs \ {q} : pc'[o] = "idle"
                      /\ StageOf(pc[q], job[q])'
    BY DEF AloneIsAlone
  <2>1. q = p
    BY <1>2, <1>3, OverlappedRuns DEF RunsTyped
  <2> QED BY <1>3, <2>1
<1> QED BY <1>1, <1>4, <1>5 DEF QuietInv

LEMMA StartsKeep ==
  ASSUME QuietInv, NEW p \in Procs,
         StartSync(p) \/ \E n \in Notes, t \in Texts \ Unparsable : Write(p, n, t)
  PROVE  QuietInv'
<1>1. CASE StartSync(p)
  <2>1. PICK b \in BOOLEAN : b = \A q \in Procs \ {p} : At(q, "idle")
    OBVIOUS
  <2>2. PICK r \in Jobs : r = [NoJob EXCEPT !.alone = b] /\ r.alone = b /\ ~r.one
    <3>1. [NoJob EXCEPT !.alone = b] \in Jobs
      BY NewRunIsTyped DEF Jobs
    <3>2. [NoJob EXCEPT !.alone = b].alone = b /\ ~[NoJob EXCEPT !.alone = b].one
      BY NewRunIsTyped DEF Jobs
    <3> QED BY <3>1, <3>2
  <2>3. /\ UNCHANGED <<disk, rows, edges>> /\ job' = [Overlap(p) EXCEPT ![p] = r]
    BY <1>1, <2>1, <2>2 DEF StartSync, tables, world
  <2>4. PICK l \in {"walk", "lock"} : pc' = [pc EXCEPT ![p] = l]
    BY <1>1 DEF StartSync, Goto
  <2>5. StageOf(l, r)' /\ l \in Labels /\ ReadyFor(l, r)
    BY <2>4 DEF StageOf, Labels, ReadyFor
  <2>6. r.alone => \A q \in Procs \ {p} : pc[q] = "idle"
    BY <2>1, <2>2 DEF At
  <2> QED BY <2>2, <2>3, <2>4, <2>5, <2>6, RunStarts
<1>2. ASSUME NEW n \in Notes, NEW t \in Texts \ Unparsable, Write(p, n, t)
      PROVE  QuietInv'
  <2>1. PICK r \in Jobs : /\ r = [NoJob EXCEPT !.one = TRUE, !.note = n, !.new = t]
                          /\ ~r.alone /\ r.note = n
    <3>1. [NoJob EXCEPT !.one = TRUE, !.note = n, !.new = t] \in Jobs
      BY NewRunIsTyped DEF Jobs
    <3>2. /\ ~[NoJob EXCEPT !.one = TRUE, !.note = n, !.new = t].alone
          /\ [NoJob EXCEPT !.one = TRUE, !.note = n, !.new = t].note = n
      BY NewRunIsTyped DEF Jobs
    <3> QED BY <3>1, <3>2
  <2>2. /\ UNCHANGED <<disk, rows, edges>> /\ job' = [Overlap(p) EXCEPT ![p] = r]
        /\ pc' = [pc EXCEPT ![p] = "write"]
    BY <1>2, <2>1 DEF Write, Goto, tables
  <2>3. "write" \in Labels /\ ReadyFor("write", r)
    BY <2>1 DEF Labels, ReadyFor
  <2> QED BY <2>1, <2>2, <2>3, RunStarts
<1> QED BY <1>1, <1>2

LEMMA OwnerKeeps ==
  ASSUME QuietInv,
         \/ \E n \in Notes, t \in Texts \cup {None} : Edit(n, t)
         \/ \E n, m \in Notes : Rename(n, m)
  PROVE  QuietInv'
<1>1. disk' \in [Notes -> Texts \cup {None}] /\ UNCHANGED <<rows, edges, pc>>
      /\ job' = [p \in Procs |-> Overlapped(job[p])]
  BY NowTyped DEF QuietInv, TablesTyped, Edit, Rename, Revise, Overlapped, tables
<1>2. TablesTyped' /\ Vouches'
  BY <1>1 DEF QuietInv, TablesTyped, Vouches
<1>3. RunsTyped
  BY DEF QuietInv
<1>4. RunsTyped'
  BY <1>1, <1>3, OverlappedRuns DEF RunsTyped
<1>5. AloneIsAlone'
  <2>1. \A p \in Procs : ~job'[p].alone
    BY <1>1, <1>3, OverlappedRuns DEF RunsTyped
  <2> QED BY <2>1 DEF AloneIsAlone
<1> QED BY <1>2, <1>4, <1>5 DEF QuietInv

-----------------------------------------------------------------------------
LEMMA QuietInvStarts == Init => QuietInv
<1> SUFFICES ASSUME Init PROVE QuietInv
  OBVIOUS
<1>1. disk \in [Notes -> Texts \cup {None}]
  BY DEF Init, InitWith
<1>2. /\ rows \in [Notes -> Rows \cup {None}]
      /\ \A n \in Notes : rows[n] # None => rows[n].body \notin Unparsable /\ rows[n].hash = rows[n].body
  <2>1. \A t \in Texts : Row(t, t) \in Rows /\ Row(t, t).body = t /\ Row(t, t).hash = t
    BY DEF Row, Rows
  <2>2. rows \in {Mirror(disk), [n \in Notes |-> None]}
    BY DEF Init, InitWith
  <2>3. CASE rows = Mirror(disk)
    BY <1>1, <2>1, <2>3 DEF Mirror
  <2>4. CASE rows = [n \in Notes |-> None]
    BY <2>4
  <2> QED BY <2>2, <2>3, <2>4
<1>3. edges \subseteq Arrows
  BY DEF Init, InitWith, Arrows
<1>4. RunsTyped
  BY NewRunIsTyped DEF Init, InitWith, RunsTyped, ReadyFor, Labels
<1>5. AloneIsAlone
  BY NewRunIsTyped DEF Init, InitWith, AloneIsAlone
<1> QED BY <1>1, <1>2, <1>3, <1>4, <1>5 DEF QuietInv, TablesTyped, Vouches

LEMMA QuietInvKept == QuietInv /\ [Next]_vars => QuietInv'
<1> SUFFICES ASSUME QuietInv, [Next]_vars PROVE QuietInv'
  OBVIOUS
<1>1. ASSUME NEW p \in Procs, SyncStep(p)
      PROVE  QuietInv'
  <2>1. CASE StartSync(p)
    BY <2>1, StartsKeep
  <2>2. CASE TakeLock(p) \/ GiveUpLock(p) \/ Recheck(p) \/ Purge(p) \/ Mark(p) \/ Unlock(p)
    BY <2>2, LockStepsKeep
  <2>3. CASE Walk(p) \/ Snapshot(p)
    BY <2>3, ListingKeeps
  <2>4. CASE Pair(p) \/ MoveRow(p) \/ DropMovedEdges(p) \/ EndMoves(p)
    BY <2>4, PairKeeps, MoveRowKeeps, DropMovedEdgesKeeps, EndMovesKeeps
  <2>5. CASE \E n \in Notes : Skip(p, n) \/ Ingest(p, n) \/ Reject(p, n) \/ SweepEdges(p, n)
    BY <2>5, SkipKeeps, IngestKeeps, RejectKeeps, SweepEdgesKeeps
  <2>6. CASE Upsert(p) \/ EndIngest(p) \/ DeleteRow(p) \/ EndSweep(p)
    BY <2>6, UpsertKeeps, EndIngestKeeps, DeleteRowKeeps, EndSweepKeeps
  <2>7. CASE EndLinks(p) \/ \E n \in Notes : Unlink(p, n) \/ AddEdge(p, n)
    BY <2>7, LinkStepsKeep
  <2> QED BY <1>1, <2>1, <2>2, <2>3, <2>4, <2>5, <2>6, <2>7 DEF SyncStep
<1>2. ASSUME NEW p \in Procs, WriteStep(p)
      PROVE  QuietInv'
  <2>1. CASE WriteFile(p) \/ Resync(p)
    BY <2>1, WriteFileKeeps, ResyncKeeps
  <2>2. CASE IndexWritten(p)
    BY <2>2, EndingsKeep
  <2>3. CASE \E e \in job[p].broken : Reresolve(p, e)
    BY <2>3, LinkStepsKeep
  <2> QED BY <1>2, <2>1, <2>2, <2>3 DEF WriteStep
<1>3. ASSUME NEW p \in Procs, Step(p) \/ Die(p) \/ Abort(p)
      PROVE  QuietInv'
  BY <1>1, <1>2, <1>3, VectorStepsKeep, EndingsKeep DEF Step
<1>4. ASSUME NEW p \in Servers, NEW n \in Notes, NEW t \in Texts \ Unparsable, Write(p, n, t)
      PROVE  QuietInv'
  BY <1>4, StartsKeep DEF Procs
<1>5. CASE UNCHANGED vars
  BY <1>5 DEF vars, QuietInv, TablesTyped, Vouches, RunsTyped, AloneIsAlone, StageOf, InSnap,
              Ingested, RowMirrors, Present
<1> QED BY <1>3, <1>4, <1>5, OwnerKeeps DEF Next

(* When sync_all of a run returns, and no other run or edit has overlapped   *)
(* it, the rows mirror the files: for any vault, any number of servers and   *)
(* hooks, and whatever crashed or overlapping runs had left of the rows.     *)
THEOREM SyncMirrors == Spec => []QuietSyncMirrors
<1>1. QuietInv => QuietSyncMirrors
  BY DEF QuietInv, AloneIsAlone, StageOf, QuietSyncMirrors, Synced
<1> QED BY <1>1, QuietInvStarts, QuietInvKept, PTL DEF Spec

-----------------------------------------------------------------------------
(* The rebuild.  While the vault rests and nobody goes on without the lock,  *)
(* rows come only from the files; until the marker is written only the       *)
(* process that has the lock goes beyond waiting for it, and what follows    *)
(* the marker finds nothing to do.                                           *)

Calm == edits + writes + giveups = 0

Fresh(j) == ~j.one /\ ~j.force /\ DOMAIN j.queue = {} /\ j.links = {} /\ j.moved = {}

(* How far a run has come that finds the graph rebuilt.                      *)
Resting(l, j) ==
    /\ l \notin {"purge", "unlink", "upsert", "delete", "mark", "write", "resync", "reresolve"}
    /\ l \in {"lock", "recheck", "walk", "snapshot", "pair", "move", "ingest", "sweep", "link"} =>
          Fresh(j)
    /\ l \in {"snapshot", "pair", "move", "ingest", "sweep"} => j.walk = Present
    /\ l \in {"pair", "move", "ingest"} =>
          DOMAIN j.snap = Indexed /\ \A n \in Indexed : j.snap[n] = disk[n]
    /\ l \in {"move", "ingest"} => j.pairs = {} /\ DOMAIN j.pre = {}
    /\ l = "ingest" => j.todo \subseteq Present
    /\ l = "sweep" => j.todo = {}

(* The notes Pass 2 has passed have their edges, but for the links at hand.  *)
LinksUnderWay(j) ==
    /\ j.links # {} => j.note \in Indexed \ DOMAIN j.queue /\ j.links \subseteq Links[rows[j.note].body]
    /\ \A n \in Indexed \ DOMAIN j.queue :
          From(n) = {<<n, t, rows[t] = None>> :
                        t \in Links[rows[n].body] \ (IF n = j.note THEN j.links ELSE {})}

(* How far the run has come that has the lock before the marker is written.  *)
Rebuilding(l, j) ==
    /\ l \in {"recheck", "purge", "walk", "snapshot", "pair", "move", "ingest", "upsert", "sweep",
              "link", "mark"}
    /\ j.locked /\ ~j.one /\ j.moved = {}
    /\ j.force <=> l # "recheck"
    /\ l \in {"recheck", "purge", "walk", "snapshot", "pair", "move"} => DOMAIN j.queue = {}
    /\ l # "link" => j.links = {}
    /\ l \in {"snapshot", "pair", "move", "ingest", "upsert", "sweep"} => j.walk = Present
    /\ l \in {"pair", "move", "ingest", "upsert"} => DOMAIN j.snap \subseteq Present
    /\ l \in {"move", "ingest", "upsert"} => j.pairs = {} /\ DOMAIN j.pre = {}
    /\ l \in {"ingest", "upsert"} =>
          /\ j.todo \subseteq Present
          /\ DOMAIN j.queue = {n \in Present \ j.todo : disk[n] \notin Unparsable}
          /\ \A n \in DOMAIN j.queue : j.queue[n] = disk[n] /\ rows[n] = Row(disk[n], disk[n])
    /\ l = "upsert" => j.note \in j.todo /\ j.text = disk[j.note]
    /\ l \in {"sweep", "link", "mark"} => rows = Mirror(disk)
    /\ l = "sweep" => j.todo = {} /\ DOMAIN j.queue = Indexed
    /\ l \in {"sweep", "link"} =>
          DOMAIN j.queue \subseteq Indexed /\ \A n \in DOMAIN j.queue : j.queue[n] = rows[n].body
    /\ l = "link" => LinksUnderWay(j)
    /\ l = "mark" => Rebuilt

RowsFromFiles == \A n \in Notes : rows[n] \in {None, Mirror(disk)[n]}
RunsRest == marker => rows = Mirror(disk) /\ Rebuilt /\ \A p \in Procs : Resting(pc[p], job[p])
OneRebuilds ==
    ~marker => \A p \in Procs :
        IF relock = p THEN Rebuilding(pc[p], job[p])
        ELSE pc[p] \in {"idle", "lock"} /\ Fresh(job[p]) /\ ~job[p].locked

RebuildInv ==
    /\ edits \in Nat /\ writes \in Nat /\ giveups \in Nat /\ marker \in BOOLEAN
    /\ Calm => RowsFromFiles /\ RunsRest /\ OneRebuilds

(* What the steps of such runs leave of a run's locals.                      *)
Lasting(r, j) ==
    /\ r.one = j.one /\ r.force = j.force /\ r.locked = j.locked /\ r.moved = j.moved
    /\ r.queue = j.queue /\ r.links = j.links

Locked(j, v) == [j EXCEPT !.locked = v]
Forced(j) == [j EXCEPT !.force = TRUE]
Unlinking(j, L, f, n) == [j EXCEPT !.links = L, !.queue = f, !.note = n]
Linking(j, L) == [j EXCEPT !.links = L]
Broken(j, B) == [j EXCEPT !.broken = B]

LEMMA WalkedLasts ==
  ASSUME NEW j \in Jobs
  PROVE  \A S : Lasting(Walked(j, S), j) /\ Walked(j, S).walk = S
  BY DEF Walked, Lasting, Jobs

LEMMA ListedLasts ==
  ASSUME NEW j \in Jobs
  PROVE  \A f : Lasting(Listed(j, f), j) /\ Listed(j, f).walk = j.walk /\ Listed(j, f).snap = f
  BY DEF Listed, Lasting, Jobs

LEMMA MatchedLasts ==
  ASSUME NEW j \in Jobs
  PROVE  \A f, P : LET r == Matched(j, f, P) IN
         /\ Lasting(r, j) /\ r.walk = j.walk /\ r.snap = j.snap /\ r.pre = f /\ r.pairs = P
  BY DEF Matched, Lasting, Jobs

LEMMA FacingLasts ==
  ASSUME NEW j \in Jobs
  PROVE  \A S : LET r == Facing(j, S) IN
         /\ Lasting(r, j) /\ r.walk = j.walk /\ r.snap = j.snap /\ r.pre = j.pre
         /\ r.pairs = j.pairs /\ r.todo = S
  BY DEF Facing, Lasting, Jobs

LEMMA ReadingLasts ==
  ASSUME NEW j \in Jobs
  PROVE  \A n, t : LET r == Reading(j, n, t) IN
         /\ Lasting(r, j) /\ r.walk = j.walk /\ r.snap = j.snap /\ r.pre = j.pre
         /\ r.pairs = j.pairs /\ r.todo = j.todo /\ r.note = n /\ r.text = t
  BY DEF Reading, Lasting, Jobs

LEMMA StoredLasts ==
  ASSUME NEW j \in Jobs
  PROVE  \A S, f, T : LET r == Stored(j, S, f, T) IN
         /\ r.one = j.one /\ r.force = j.force /\ r.locked = j.locked /\ r.moved = j.moved
         /\ r.queue = f /\ r.links = j.links /\ r.walk = j.walk /\ r.snap = j.snap
         /\ r.pre = j.pre /\ r.pairs = j.pairs /\ r.todo = S
  BY DEF Stored, Lasting, Jobs

LEMMA EmptiedLasts ==
  ASSUME NEW j \in Jobs
  PROVE  Lasting(Emptied(j), j)
  BY DEF Emptied, Lasting, Jobs

LEMMA LockedLasts ==
  ASSUME NEW j \in Jobs
  PROVE  \A v : LET r == Locked(j, v) IN
         /\ r.one = j.one /\ r.force = j.force /\ r.locked = v /\ r.moved = j.moved
         /\ r.queue = j.queue /\ r.links = j.links
  BY DEF Locked, Lasting, Jobs

LEMMA ForcedLasts ==
  ASSUME NEW j \in Jobs
  PROVE  LET r == Forced(j) IN
         /\ r.one = j.one /\ r.force = TRUE /\ r.locked = j.locked /\ r.moved = j.moved
         /\ r.queue = j.queue /\ r.links = j.links
  BY DEF Forced, Lasting, Jobs

LEMMA UnlinkingLasts ==
  ASSUME NEW j \in Jobs
  PROVE  \A L, f, n : LET r == Unlinking(j, L, f, n) IN
         /\ r.one = j.one /\ r.force = j.force /\ r.locked = j.locked /\ r.moved = j.moved
         /\ r.queue = f /\ r.links = L /\ r.note = n
  BY DEF Unlinking, Lasting, Jobs

LEMMA LinkingLasts ==
  ASSUME NEW j \in Jobs
  PROVE  \A L : LET r == Linking(j, L) IN
         /\ r.one = j.one /\ r.force = j.force /\ r.locked = j.locked /\ r.moved = j.moved
         /\ r.queue = j.queue /\ r.links = L /\ r.note = j.note
  BY DEF Linking, Lasting, Jobs

LEMMA BrokenLasts ==
  ASSUME NEW j \in Jobs
  PROVE  \A B : Lasting(Broken(j, B), j)
  BY DEF Broken, Lasting, Jobs

LEMMA OverlappedLasts ==
  ASSUME NEW j \in Jobs
  PROVE  LET r == Overlapped(j) IN
         /\ Lasting(r, j) /\ r.walk = j.walk /\ r.snap = j.snap /\ r.pre = j.pre
         /\ r.pairs = j.pairs /\ r.todo = j.todo /\ r.note = j.note /\ r.text = j.text
  BY DEF Overlapped, Lasting, Jobs

(* Steps that leave the tables as they are, of a run that finds the graph    *)
(* rebuilt.                                                                  *)
LEMMA RestingStep ==
  ASSUME QuietInv, RebuildInv, Calm, marker, NEW p \in Procs, NEW l \in Labels, NEW r,
         pc' = [pc EXCEPT ![p] = l], job' = [job EXCEPT ![p] = r],
         UNCHANGED <<disk, rows, edges, marker, edits, writes, giveups>>,
         Resting(pc[p], job[p]) => Resting(l, r)
  PROVE  RebuildInv'
<1>1. /\ pc'[p] = l /\ job'[p] = r
      /\ \A q \in Procs \ {p} : pc'[q] = pc[q] /\ job'[q] = job[q]
  BY DEF QuietInv, RunsTyped
<1>2. ASSUME NEW q \in Procs
      PROVE  Resting(pc[q], job[q])'
  <2>1. Resting(pc'[q], job'[q])
    BY <1>1 DEF RebuildInv, RunsRest
  <2> QED BY <2>1 DEF Resting, Present, Indexed, Fresh
<1>3. RowsFromFiles' /\ (rows = Mirror(disk) /\ Rebuilt)'
  BY DEF RebuildInv, RunsRest, RowsFromFiles, Mirror, Rebuilt, From, Indexed
<1> QED BY <1>2, <1>3 DEF RebuildInv, RunsRest, OneRebuilds

(* A step of the run that has the lock before the marker is written.         *)
LEMMA HolderStep ==
  ASSUME QuietInv, RebuildInv, Calm, ~marker, NEW p \in Procs, NEW l \in Labels, NEW r,
         relock = p, pc' = [pc EXCEPT ![p] = l], job' = [job EXCEPT ![p] = r],
         UNCHANGED <<relock, marker, edits, writes, giveups>>,
         RowsFromFiles', Rebuilding(l, r)'
  PROVE  RebuildInv'
<1>1. /\ pc'[p] = l /\ job'[p] = r
      /\ \A q \in Procs \ {p} : pc'[q] = pc[q] /\ job'[q] = job[q]
  BY DEF QuietInv, RunsTyped
<1>2. Rebuilding(pc[p], job[p])'
  BY <1>1
<1>3. OneRebuilds'
  <2> SUFFICES ASSUME NEW q \in Procs
               PROVE  (IF relock = q THEN Rebuilding(pc[q], job[q])
                       ELSE pc[q] \in {"idle", "lock"} /\ Fresh(job[q]) /\ ~job[q].locked)'
    BY DEF OneRebuilds
  <2>1. CASE q = p
    BY <1>2, <2>1
  <2>2. CASE q # p
    BY <1>1, <2>2 DEF RebuildInv, OneRebuilds, Fresh
  <2> QED BY <2>1, <2>2
<1> QED BY <1>3 DEF RebuildInv, RunsRest

(* Before the marker is written only the holder of the lock is under way.    *)
LEMMA OnlyTheHolder ==
  ASSUME RebuildInv, Calm, ~marker, NEW p \in Procs, pc[p] \notin {"idle", "lock"}
  PROVE  relock = p /\ Rebuilding(pc[p], job[p])
  BY DEF RebuildInv, OneRebuilds

LEMMA FilesAndRows ==
  ASSUME QuietInv, NEW n \in Notes
  PROVE  /\ n \in Present <=> disk[n] # None
         /\ n \in Present => disk[n] \in Texts
         /\ Mirror(disk)[n] = IF disk[n] \in Texts \ Unparsable THEN Row(disk[n], disk[n]) ELSE None
         /\ \A t : Row(t, t).body = t /\ Row(t, t).hash = t
         /\ \A t \in Texts : Row(t, t) # None
<1>1. \A t \in Texts : Row(t, t) \in Rows
  BY DEF Row, Rows
<1>2. \A t \in Texts : Row(t, t) # None
  BY <1>1, NamesApart
<1>3. disk[n] \in Texts \cup {None}
  BY NowTyped DEF QuietInv, TablesTyped
<1>4. Mirror(disk)[n] = IF disk[n] \in Texts \ Unparsable THEN Row(disk[n], disk[n]) ELSE None
  BY DEF Mirror
<1>5. \A t : Row(t, t).body = t /\ Row(t, t).hash = t
  BY DEF Row
<1> QED BY <1>2, <1>3, <1>4, <1>5 DEF Present

LEMMA IndexedHasFile ==
  ASSUME QuietInv, RowsFromFiles, NEW n \in Indexed
  PROVE  /\ n \in Present /\ disk[n] \in Texts \ Unparsable
         /\ rows[n] = Row(disk[n], disk[n]) /\ rows[n].body = disk[n] /\ rows[n].hash = disk[n]
<1>1. n \in Notes /\ rows[n] # None
  BY DEF Indexed
<1>2. rows[n] = Mirror(disk)[n]
  BY <1>1 DEF RowsFromFiles
<1>3. disk[n] \in Texts \ Unparsable /\ rows[n] = Row(disk[n], disk[n])
  BY <1>1, <1>2, FilesAndRows
<1>4. n \in Present /\ rows[n].body = disk[n] /\ rows[n].hash = disk[n]
  BY <1>1, <1>3, FilesAndRows, VaultConstants
<1> QED BY <1>3, <1>4

(* With no vanished rows nothing is taken for a move.                        *)
LEMMA NothingGone ==
  ASSUME NEW p \in Procs, NEW j, j = job[p], DOMAIN j.snap \subseteq j.walk
  PROVE  DOMAIN Newcomers(p) = {} /\ Pairs(Gone(p), j.snap, Newcomers(p)) = {}
<1>1. Gone(p) = {}
  BY DEF Gone
<1> QED BY <1>1 DEF Newcomers, Pairs

LEMMA ReadsWhatIsThere ==
  ASSUME NEW p \in Procs, NEW n \in Notes, NEW j, j = job[p], DOMAIN j.pre = {}, j.moved = {}
  PROVE  Content(p, n) = disk[n] /\ MovedTo(p) = {}
  BY DEF Content, MovedTo

LEMMA HolderPlainStep ==
  ASSUME QuietInv, RebuildInv, Calm, ~marker, NEW p \in Procs, NEW l \in Labels, NEW r,
         relock = p, pc' = [pc EXCEPT ![p] = l], job' = [job EXCEPT ![p] = r],
         UNCHANGED <<disk, rows, edges, relock, marker, edits, writes, giveups>>,
         Rebuilding(l, r)
  PROVE  RebuildInv'
<1>1. RowsFromFiles'
  BY DEF RebuildInv, RowsFromFiles, Mirror
<1>2. Rebuilding(l, r)'
  BY DEF Rebuilding, Present, Indexed, Mirror, LinksUnderWay, From, Rebuilt
<1> QED BY <1>1, <1>2, HolderStep

(* Listing the files and the rows. *)
LEMMA ListingRebuilds ==
  ASSUME QuietInv, RebuildInv, Calm, NEW p \in Procs, Walk(p) \/ Snapshot(p) \/ Pair(p) \/ EndMoves(p)
  PROVE  RebuildInv'
<1>1. PICK j \in Jobs : j = job[p]
  BY NowTyped
<1>2. /\ UNCHANGED <<disk, rows, edges, relock, marker, edits, writes, giveups>>
      /\ pc[p] \notin {"idle", "lock"} /\ RowsFromFiles
  BY DEF Walk, Snapshot, Pair, EndMoves, tables, world, counts, At, RebuildInv
<1>3. CASE Walk(p)
  <2>1. PICK r : r = Walked(j, Present)
    OBVIOUS
  <2>2. Lasting(r, j) /\ r.walk = Present
    BY <1>1, <2>1, WalkedLasts
  <2>3. /\ pc[p] = "walk" /\ pc' = [pc EXCEPT ![p] = "snapshot"] /\ job' = [job EXCEPT ![p] = r]
    BY <1>1, <1>3, <2>1 DEF Walk, Walked, At, Goto
  <2>4. Resting("walk", j) => Resting("snapshot", r)
    BY <2>2 DEF Resting, Fresh, Lasting
  <2>5. Rebuilding("walk", j) => Rebuilding("snapshot", r)
    BY <2>2 DEF Rebuilding, Lasting
  <2>6. "snapshot" \in Labels
    BY DEF Labels
  <2> QED BY <1>1, <1>2, <2>3, <2>4, <2>5, <2>6, RestingStep, HolderPlainStep, OnlyTheHolder
<1>4. CASE Snapshot(p)
  <2>1. PICK f : f = [n \in Indexed |-> rows[n].hash]
    OBVIOUS
  <2>2. PICK r : r = Listed(j, f)
    OBVIOUS
  <2>3. Lasting(r, j) /\ r.walk = j.walk /\ r.snap = f
    BY <1>1, <2>2, ListedLasts
  <2>4. /\ pc[p] = "snapshot" /\ pc' = [pc EXCEPT ![p] = "pair"] /\ job' = [job EXCEPT ![p] = r]
    BY <1>1, <1>4, <2>1, <2>2 DEF Snapshot, Listed, At, Goto
  <2>5. DOMAIN f = Indexed /\ Indexed \subseteq Present /\ \A n \in Indexed : f[n] = disk[n]
    BY <1>2, <2>1, IndexedHasFile
  <2>6. Resting("snapshot", j) => Resting("pair", r)
    BY <2>3, <2>5 DEF Resting, Fresh, Lasting
  <2>7. Rebuilding("snapshot", j) => Rebuilding("pair", r)
    BY <2>3, <2>5 DEF Rebuilding, Lasting
  <2>8. "pair" \in Labels
    BY DEF Labels
  <2> QED BY <1>1, <1>2, <2>4, <2>6, <2>7, <2>8, RestingStep, HolderPlainStep, OnlyTheHolder
<1>5. CASE Pair(p)
  <2>1. PICK f, P : f = Newcomers(p) /\ P = Pairs(Gone(p), j.snap, Newcomers(p))
    OBVIOUS
  <2>2. PICK r : r = Matched(j, f, P)
    OBVIOUS
  <2>3. Lasting(r, j) /\ r.walk = j.walk /\ r.snap = j.snap /\ r.pre = f /\ r.pairs = P
    BY <1>1, <2>2, MatchedLasts
  <2>4. /\ pc[p] = "pair" /\ pc' = [pc EXCEPT ![p] = "move"] /\ job' = [job EXCEPT ![p] = r]
    BY <1>1, <1>5, <2>1, <2>2 DEF Pair, Matched, At, Goto
  <2>5. DOMAIN j.snap \subseteq j.walk => DOMAIN f = {} /\ P = {}
    BY <1>1, <2>1, NothingGone
  <2>6. Indexed \subseteq Present
    BY <1>2, IndexedHasFile
  <2>7. Resting("pair", j) => Resting("move", r)
    BY <2>3, <2>5, <2>6 DEF Resting, Fresh, Lasting
  <2>8. Rebuilding("pair", j) => Rebuilding("move", r)
    BY <2>3, <2>5 DEF Rebuilding, Lasting
  <2>9. "move" \in Labels
    BY DEF Labels
  <2> QED BY <1>1, <1>2, <2>4, <2>7, <2>8, <2>9, RestingStep, HolderPlainStep, OnlyTheHolder
<1>6. CASE EndMoves(p)
  <2>1. PICK r : r = Facing(j, j.walk)
    OBVIOUS
  <2>2. /\ Lasting(r, j) /\ r.walk = j.walk /\ r.snap = j.snap /\ r.pre = j.pre
        /\ r.pairs = j.pairs /\ r.todo = j.walk
    BY <1>1, <2>1, FacingLasts
  <2>3. /\ pc[p] = "move" /\ pc' = [pc EXCEPT ![p] = "ingest"] /\ job' = [job EXCEPT ![p] = r]
    BY <1>1, <1>6, <2>1 DEF EndMoves, Facing, At, Goto
  <2>4. Resting("move", j) => Resting("ingest", r)
    BY <2>2 DEF Resting, Fresh, Lasting
  <2>5. Rebuilding("move", j) => Rebuilding("ingest", r)
    BY <2>2 DEF Rebuilding, Lasting
  <2>6. "ingest" \in Labels
    BY DEF Labels
  <2> QED BY <1>1, <1>2, <2>3, <2>4, <2>5, <2>6, RestingStep, HolderPlainStep, OnlyTheHolder
<1> QED BY <1>3, <1>4, <1>5, <1>6

LEMMA LockRebuilds ==
  ASSUME QuietInv, RebuildInv, Calm, NEW p \in Procs,
         TakeLock(p) \/ Recheck(p) \/ Purge(p) \/ Unlock(p)
  PROVE  RebuildInv'
<1>1. PICK j \in Jobs : j = job[p]
  BY NowTyped
<1>2. UNCHANGED <<disk, rows, marker, edits, writes, giveups>>
  BY DEF TakeLock, Recheck, Purge, Unlock, tables, world, counts
<1>3. CASE TakeLock(p)
  <2>1. PICK r : r = Locked(j, TRUE)
    OBVIOUS
  <2>2. /\ r.one = j.one /\ r.force = j.force /\ r.locked = TRUE /\ r.moved = j.moved
        /\ r.queue = j.queue /\ r.links = j.links
    BY <1>1, <2>1, LockedLasts
  <2>3. /\ job' = [job EXCEPT ![p] = r] /\ UNCHANGED edges /\ relock \in {None, "orphan"} /\ relock' = p
    BY <1>1, <1>3, <2>1 DEF TakeLock, Locked, tables
  <2>4. CASE marker
    <3>1. PICK l \in {"recheck", "vectors", "lists"} :
             /\ pc' = [pc EXCEPT ![p] = l]
             /\ l = "recheck" => pc[p] = "lock"
      <4>1. \/ pc[p] = "lock" /\ Goto(p, "recheck")
            \/ Goto(p, "vectors") \/ Goto(p, "lists")
        BY <1>3 DEF TakeLock, Behind
      <4> QED BY <4>1 DEF Goto
    <3>2. Resting(pc[p], j) => Resting(l, r)
      BY <2>2, <3>1 DEF Resting, Fresh
    <3>3. l \in Labels
      BY DEF Labels
    <3> QED BY <1>1, <1>2, <2>3, <2>4, <3>1, <3>2, <3>3, RestingStep
  <2>5. CASE ~marker
    <3>1. \A q \in Procs : /\ relock # q
                           /\ pc[q] \in {"idle", "lock"} /\ Fresh(job[q]) /\ ~job[q].locked
      BY <2>3, <2>5, VaultConstants, NamesApart DEF RebuildInv, OneRebuilds
    <3>2. pc[p] = "lock" /\ pc' = [pc EXCEPT ![p] = "recheck"]
      <4>1. pc[p] = "lock"
        BY <1>3, <3>1 DEF TakeLock, Behind
      <4> QED BY <1>3, <4>1 DEF TakeLock, Behind, Goto
    <3>3. /\ pc'[p] = "recheck" /\ job'[p] = r
          /\ \A q \in Procs \ {p} : pc'[q] = pc[q] /\ job'[q] = job[q]
      BY <2>3, <3>2 DEF QuietInv, RunsTyped
    <3>4. Fresh(j)
      BY <1>1, <3>1
    <3>5. Rebuilding("recheck", r)'
      BY <2>2, <3>4 DEF Rebuilding, Fresh
    <3>6. OneRebuilds'
      <4> SUFFICES ASSUME NEW q \in Procs
                   PROVE  (IF relock = q THEN Rebuilding(pc[q], job[q])
                           ELSE pc[q] \in {"idle", "lock"} /\ Fresh(job[q]) /\ ~job[q].locked)'
        BY DEF OneRebuilds
      <4>1. CASE q = p
        <5>1. Rebuilding(pc[p], job[p])'
          BY <3>3, <3>5
        <5> QED BY <2>3, <4>1, <5>1
      <4>2. CASE q # p
        BY <2>3, <3>1, <3>3, <4>2 DEF Fresh
      <4> QED BY <4>1, <4>2
    <3>7. RowsFromFiles'
      BY <1>2 DEF RebuildInv, RowsFromFiles, Mirror
    <3> QED BY <1>2, <2>5, <3>6, <3>7 DEF RebuildInv, RunsRest
  <2> QED BY <2>4, <2>5
<1>4. CASE Recheck(p)
  <2>1. pc[p] = "recheck" /\ UNCHANGED edges
    BY <1>4 DEF Recheck, At, tables
  <2>2. CASE marker
    <3>1. PICK r : r = Locked(j, FALSE)
      OBVIOUS
    <3>2. r.one = j.one /\ r.force = j.force /\ r.moved = j.moved /\ r.queue = j.queue /\ r.links = j.links
      BY <1>1, <3>1, LockedLasts
    <3>3. job' = [job EXCEPT ![p] = r] /\ pc' = [pc EXCEPT ![p] = "walk"]
      BY <1>1, <1>4, <2>2, <3>1 DEF Recheck, Locked, Goto
    <3>4. Resting("recheck", j) => Resting("walk", r)
      BY <3>2 DEF Resting, Fresh
    <3>5. "walk" \in Labels
      BY DEF Labels
    <3> QED BY <1>1, <1>2, <2>1, <2>2, <3>3, <3>4, <3>5, RestingStep
  <2>3. CASE ~marker
    <3>1. PICK r : r = Forced(j)
      OBVIOUS
    <3>2. /\ r.one = j.one /\ r.force = TRUE /\ r.locked = j.locked /\ r.moved = j.moved
          /\ r.queue = j.queue /\ r.links = j.links
      BY <1>1, <3>1, ForcedLasts
    <3>3. job' = [job EXCEPT ![p] = r] /\ pc' = [pc EXCEPT ![p] = "purge"] /\ UNCHANGED relock
      BY <1>1, <1>4, <2>3, <3>1 DEF Recheck, Forced, Goto
    <3>4. relock = p /\ Rebuilding("recheck", j)
      BY <1>1, <2>1, <2>3, OnlyTheHolder
    <3>5. Rebuilding("purge", r)
      BY <3>2, <3>4 DEF Rebuilding
    <3>6. "purge" \in Labels
      BY DEF Labels
    <3> QED BY <1>2, <2>1, <2>3, <3>3, <3>4, <3>5, <3>6, HolderPlainStep
  <2> QED BY <2>2, <2>3
<1>5. CASE Purge(p)
  <2>1. pc[p] = "purge" /\ pc' = [pc EXCEPT ![p] = "walk"] /\ UNCHANGED <<job, relock>>
    BY <1>5 DEF Purge, At, Goto, world
  <2>2. ~marker
    BY <2>1 DEF RebuildInv, RunsRest, Resting
  <2>3. relock = p /\ Rebuilding("purge", j)
    BY <1>1, <2>1, <2>2, OnlyTheHolder
  <2>4. Rebuilding("walk", j)'
    BY <2>3 DEF Rebuilding
  <2>5. "walk" \in Labels /\ job' = [job EXCEPT ![p] = j]
    BY <1>1, <2>1, NowTyped DEF Labels
  <2>6. RowsFromFiles'
    BY <1>2 DEF RebuildInv, RowsFromFiles, Mirror
  <2> QED BY <1>2, <2>1, <2>2, <2>3, <2>4, <2>5, <2>6, HolderStep
<1>6. CASE Unlock(p)
  <2>1. pc[p] = "unlock" /\ UNCHANGED edges
    BY <1>6 DEF Unlock, At, tables
  <2>2. marker
    BY <2>1, OnlyTheHolder DEF Rebuilding
  <2>3. PICK r : job' = [job EXCEPT ![p] = r]
    BY <1>6 DEF Unlock
  <2>4. PICK l \in {"veclock", "vectors"} : pc' = [pc EXCEPT ![p] = l]
    BY <1>6 DEF Unlock, AfterSync, Goto
  <2>5. Resting(l, r) /\ l \in Labels
    BY DEF Resting, Labels
  <2> QED BY <1>2, <2>1, <2>2, <2>3, <2>4, <2>5, RestingStep
<1> QED BY <1>3, <1>4, <1>5, <1>6

(* Passes 0 and 1 find nothing moved and nothing vanished.                   *)
LEMMA NothingVanishes ==
  ASSUME QuietInv, RebuildInv, Calm, NEW p \in Procs
  PROVE  /\ ~MoveRow(p) /\ ~DropMovedEdges(p) /\ ~DeleteRow(p)
         /\ \A n \in Notes : ~SweepEdges(p, n)
<1>1. pc[p] \notin {"unlink", "delete"}
  BY OnlyTheHolder DEF RebuildInv, RunsRest, Resting, Rebuilding
<1>2. pc[p] = "move" => job[p].pairs = {}
  BY OnlyTheHolder DEF RebuildInv, RunsRest, Resting, Rebuilding
<1>3. pc[p] = "sweep" => job[p].todo = {}
  BY OnlyTheHolder DEF RebuildInv, RunsRest, Resting, Rebuilding
<1> QED BY <1>1, <1>2, <1>3 DEF MoveRow, DropMovedEdges, DeleteRow, SweepEdges, At

LEMMA SkipRebuilds ==
  ASSUME QuietInv, RebuildInv, Calm, NEW p \in Procs, NEW n \in Notes, Skip(p, n)
  PROVE  RebuildInv'
<1>1. PICK j \in Jobs : j = job[p]
  BY NowTyped
<1>2. /\ UNCHANGED <<disk, rows, edges, relock, marker, edits, writes, giveups, pc>>
      /\ pc[p] = "ingest" /\ pc' = [pc EXCEPT ![p] = "ingest"] /\ ~j.force
  BY <1>1 DEF Skip, tables, world, counts, At, QuietInv, RunsTyped
<1>3. marker
  BY <1>1, <1>2, OnlyTheHolder DEF Rebuilding
<1>4. PICK r : r = Facing(j, j.todo \ {n})
  OBVIOUS
<1>5. /\ Lasting(r, j) /\ r.walk = j.walk /\ r.snap = j.snap /\ r.pre = j.pre
      /\ r.pairs = j.pairs /\ r.todo = j.todo \ {n}
  BY <1>1, <1>4, FacingLasts
<1>6. job' = [job EXCEPT ![p] = r] /\ "ingest" \in Labels
  BY <1>1, <1>4 DEF Skip, Facing, Labels
<1>7. Resting("ingest", j) => Resting("ingest", r)
  BY <1>5 DEF Resting, Fresh, Lasting
<1> QED BY <1>1, <1>2, <1>3, <1>6, <1>7, RestingStep

LEMMA IngestRebuilds ==
  ASSUME QuietInv, RebuildInv, Calm, NEW p \in Procs, NEW n \in Notes, Ingest(p, n)
  PROVE  RebuildInv'
<1>1. PICK j \in Jobs : j = job[p]
  BY NowTyped
<1>2. /\ UNCHANGED <<disk, rows, edges, relock, marker, edits, writes, giveups>>
      /\ pc[p] = "ingest" /\ pc' = [pc EXCEPT ![p] = "upsert"] /\ n \in j.todo
  BY <1>1 DEF Ingest, tables, world, counts, At, Goto
<1>3. ~marker
  <2> SUFFICES ASSUME marker PROVE FALSE
    OBVIOUS
  <2>1. Resting("ingest", j)
    BY <1>1, <1>2 DEF RebuildInv, RunsRest
  <2>2. Content(p, n) = disk[n] /\ MovedTo(p) = {} /\ n \in Present /\ ~j.force
        /\ DOMAIN j.snap = Indexed /\ \A m \in Indexed : j.snap[m] = disk[m]
    BY <1>1, <1>2, <2>1, ReadsWhatIsThere DEF Resting, Fresh
  <2>3. disk[n] \in Texts \ Unparsable
    BY <2>2 DEF Ingest
  <2>4. rows[n] # None
    BY <2>3, FilesAndRows DEF RebuildInv, RunsRest
  <2>5. n \in Indexed
    BY <2>4 DEF Indexed
  <2>6. Unchanged(p, n)
    BY <1>1, <2>2, <2>5 DEF Unchanged
  <2> QED BY <1>1, <2>2, <2>6 DEF Ingest
<1>4. relock = p /\ Rebuilding("ingest", j)
  BY <1>1, <1>2, <1>3, OnlyTheHolder
<1>5. Content(p, n) = disk[n]
  BY <1>1, <1>4, ReadsWhatIsThere DEF Rebuilding
<1>6. PICK r : r = Reading(j, n, disk[n])
  OBVIOUS
<1>7. /\ Lasting(r, j) /\ r.walk = j.walk /\ r.snap = j.snap /\ r.pre = j.pre
      /\ r.pairs = j.pairs /\ r.todo = j.todo /\ r.note = n /\ r.text = disk[n]
  BY <1>1, <1>6, ReadingLasts
<1>8. job' = [job EXCEPT ![p] = r] /\ "upsert" \in Labels
  BY <1>1, <1>5, <1>6 DEF Ingest, Reading, Labels
<1>9. Rebuilding("upsert", r)
  BY <1>2, <1>4, <1>7 DEF Rebuilding, Lasting
<1> QED BY <1>2, <1>3, <1>4, <1>8, <1>9, HolderPlainStep

LEMMA RejectRebuilds ==
  ASSUME QuietInv, RebuildInv, Calm, NEW p \in Procs, NEW n \in Notes, Reject(p, n)
  PROVE  RebuildInv'
<1>1. PICK j \in Jobs : j = job[p]
  BY NowTyped
<1>2. /\ UNCHANGED <<disk, edges, relock, marker, edits, writes, giveups, pc>> /\ n \in j.todo
      /\ pc[p] = "ingest" /\ pc' = [pc EXCEPT ![p] = "ingest"]
  BY <1>1 DEF Reject, tables, world, counts, At, QuietInv, RunsTyped
<1>3. marker \/ (relock = p /\ Rebuilding("ingest", j))
  BY <1>1, <1>2, OnlyTheHolder
<1>4. n \in Present /\ DOMAIN j.pre = {} /\ j.moved = {}
  BY <1>1, <1>2, <1>3 DEF RebuildInv, RunsRest, Resting, Rebuilding, Fresh
<1>5. disk[n] \in Unparsable
  BY <1>1, <1>4, ReadsWhatIsThere, FilesAndRows DEF Reject
<1>6. rows[n] = None /\ UNCHANGED rows
  <2>1. rows[n] = None
    BY <1>5, FilesAndRows DEF RebuildInv, RowsFromFiles
  <2> QED BY <2>1 DEF Reject
<1>7. PICK r : r = Facing(j, j.todo \ {n})
  OBVIOUS
<1>8. /\ Lasting(r, j) /\ r.walk = j.walk /\ r.snap = j.snap /\ r.pre = j.pre
      /\ r.pairs = j.pairs /\ r.todo = j.todo \ {n}
  BY <1>1, <1>7, FacingLasts
<1>9. job' = [job EXCEPT ![p] = r] /\ "ingest" \in Labels
  BY <1>1, <1>7 DEF Reject, Facing, Labels
<1>10. Resting("ingest", j) => Resting("ingest", r)
  BY <1>8 DEF Resting, Fresh, Lasting
<1>11. ASSUME Rebuilding("ingest", j)
       PROVE  Rebuilding("ingest", r)
  <2>1. {m \in Present \ r.todo : disk[m] \notin Unparsable}
          = {m \in Present \ j.todo : disk[m] \notin Unparsable}
    BY <1>5, <1>8
  <2> QED BY <1>8, <1>11, <2>1 DEF Rebuilding, Lasting
<1> QED BY <1>1, <1>2, <1>3, <1>6, <1>9, <1>10, <1>11, RestingStep, HolderPlainStep

LEMMA UpsertRebuilds ==
  ASSUME QuietInv, RebuildInv, Calm, NEW p \in Procs, Upsert(p)
  PROVE  RebuildInv'
<1>1. PICK j \in Jobs : j = job[p]
  BY NowTyped
<1>2. /\ UNCHANGED <<disk, edges, relock, marker, edits, writes, giveups>> /\ pc[p] = "upsert"
  BY DEF Upsert, world, counts, At
<1>3. ~marker
  BY <1>2 DEF RebuildInv, RunsRest, Resting
<1>4. relock = p /\ Rebuilding("upsert", j)
  BY <1>1, <1>2, <1>3, OnlyTheHolder
<1>5. PICK n \in Notes : n = j.note /\ n \in j.todo /\ j.text = disk[n] /\ n \in Present
  BY <1>4 DEF Rebuilding, Present
<1>6. disk[n] \in Texts \ Unparsable
  BY <1>1, <1>2, <1>5 DEF QuietInv, RunsTyped, ReadyFor
<1>7. PICK f, T : /\ f = Put(j.queue, n, disk[n])
                  /\ T = IF n \in MovedTo(p) THEN j.touched ELSE j.touched \cup {n}
  OBVIOUS
<1>8. PICK r : r = Stored(j, j.todo \ {n}, f, T)
  OBVIOUS
<1>9. /\ r.one = j.one /\ r.force = j.force /\ r.locked = j.locked /\ r.moved = j.moved
      /\ r.queue = f /\ r.links = j.links /\ r.walk = j.walk /\ r.snap = j.snap
      /\ r.pre = j.pre /\ r.pairs = j.pairs /\ r.todo = j.todo \ {n}
  BY <1>1, <1>8, StoredLasts
<1>10. /\ job' = [job EXCEPT ![p] = r] /\ pc' = [pc EXCEPT ![p] = "ingest"] /\ "ingest" \in Labels
  <2>1. ~job[p].one
    BY <1>1, <1>4 DEF Rebuilding
  <2> QED BY <1>1, <1>5, <1>7, <1>8, <2>1 DEF Upsert, Stored, Goto, Labels
<1>11. rows'[n] = Row(disk[n], disk[n]) /\ \A m \in Notes \ {n} : rows'[m] = rows[m]
  BY <1>1, <1>5, NowTyped DEF Upsert
<1>12. RowsFromFiles'
  <2>1. \A m \in Notes : rows'[m] \in {None, Mirror(disk)[m]}
    BY <1>6, <1>11, FilesAndRows DEF RebuildInv, RowsFromFiles
  <2> QED BY <1>2, <2>1 DEF RowsFromFiles, Mirror
<1>13. /\ DOMAIN f = DOMAIN j.queue \cup {n} /\ f[n] = disk[n]
       /\ \A m \in DOMAIN j.queue \ {n} : f[m] = j.queue[m]
  BY <1>7 DEF Put
<1>14. Rebuilding("ingest", r)'
  <2>1. /\ DOMAIN j.queue = {m \in Present \ j.todo : disk[m] \notin Unparsable}
        /\ \A m \in DOMAIN j.queue : j.queue[m] = disk[m] /\ rows[m] = Row(disk[m], disk[m])
        /\ j.todo \subseteq Present
    BY <1>4 DEF Rebuilding
  <2>2. DOMAIN r.queue = {m \in Present \ r.todo : disk[m] \notin Unparsable}
    BY <1>5, <1>6, <1>9, <1>13, <2>1
  <2>3. ASSUME NEW m \in DOMAIN r.queue
        PROVE  r.queue[m] = disk[m] /\ rows'[m] = Row(disk[m], disk[m])
    <3>1. m \in Notes /\ (m = n \/ m \in DOMAIN j.queue \ {n})
      BY <1>9, <1>13, <2>2, <2>3 DEF Present
    <3> QED BY <1>9, <1>11, <1>13, <2>1, <3>1
  <2>4. (r.todo \subseteq Present)' /\ (r.walk = Present)' /\ (DOMAIN r.snap \subseteq Present)'
        /\ (DOMAIN r.queue = {m \in Present \ r.todo : disk[m] \notin Unparsable})'
    BY <1>2, <1>4, <1>9, <2>1, <2>2 DEF Rebuilding, Present
  <2>5. (\A m \in DOMAIN r.queue : r.queue[m] = disk[m] /\ rows[m] = Row(disk[m], disk[m]))'
    BY <1>2, <2>3
  <2> QED BY <1>4, <1>9, <2>4, <2>5 DEF Rebuilding
<1> QED BY <1>2, <1>3, <1>4, <1>10, <1>12, <1>14, HolderStep

LEMMA EndIngestRebuilds ==
  ASSUME QuietInv, RebuildInv, Calm, NEW p \in Procs, EndIngest(p)
  PROVE  RebuildInv'
<1>1. PICK j \in Jobs : j = job[p]
  BY NowTyped
<1>2. /\ UNCHANGED <<disk, rows, edges, relock, marker, edits, writes, giveups>> /\ j.todo = {}
      /\ pc[p] = "ingest" /\ pc' = [pc EXCEPT ![p] = "sweep"] /\ RowsFromFiles
  BY <1>1 DEF EndIngest, tables, world, counts, At, Goto, RebuildInv
<1>3. PICK r : r = Facing(j, DOMAIN j.snap \ j.walk)
  OBVIOUS
<1>4. Lasting(r, j) /\ r.walk = j.walk /\ r.todo = DOMAIN j.snap \ j.walk
  BY <1>1, <1>3, FacingLasts
<1>5. job' = [job EXCEPT ![p] = r] /\ "sweep" \in Labels
  BY <1>1, <1>3 DEF EndIngest, Facing, Labels
<1>6. Indexed \subseteq Present
  BY <1>2, IndexedHasFile
<1>7. Resting("ingest", j) => Resting("sweep", r)
  BY <1>4, <1>6 DEF Resting, Fresh, Lasting
<1>8. ASSUME Rebuilding("ingest", j)
      PROVE  Rebuilding("sweep", r)
  <2>1. /\ DOMAIN j.queue = {m \in Present : disk[m] \notin Unparsable}
        /\ \A m \in DOMAIN j.queue : j.queue[m] = disk[m] /\ rows[m] = Row(disk[m], disk[m])
    BY <1>2, <1>8 DEF Rebuilding
  <2>2. ASSUME NEW m \in Notes
        PROVE  rows[m] = Mirror(disk)[m] /\ (m \in Indexed <=> m \in DOMAIN j.queue)
    <3>1. CASE disk[m] \in Texts \ Unparsable
      BY <2>1, <3>1, FilesAndRows, VaultConstants DEF Indexed
    <3>2. CASE disk[m] \notin Texts \ Unparsable
      BY <1>2, <2>1, <3>2, FilesAndRows DEF Indexed, RowsFromFiles
    <3> QED BY <3>1, <3>2
  <2>3. rows = Mirror(disk)
    <3>1. rows \in [Notes -> Rows \cup {None}] /\ Mirror(disk) = [m \in Notes |-> Mirror(disk)[m]]
      BY NowTyped DEF Mirror
    <3> QED BY <2>2, <3>1
  <2>4. DOMAIN j.queue = Indexed
    BY <2>1, <2>2 DEF Indexed, Present
  <2>5. \A m \in DOMAIN j.queue : j.queue[m] = rows[m].body
    BY <1>2, <2>1, <2>4, IndexedHasFile
  <2> QED BY <1>4, <1>8, <2>3, <2>4, <2>5 DEF Rebuilding, Lasting
<1> QED BY <1>1, <1>2, <1>5, <1>7, <1>8, RestingStep, HolderPlainStep, OnlyTheHolder

LEMMA EndSweepRebuilds ==
  ASSUME QuietInv, RebuildInv, Calm, NEW p \in Procs, EndSweep(p)
  PROVE  RebuildInv'
<1>1. PICK j \in Jobs : j = job[p]
  BY NowTyped
<1>2. /\ UNCHANGED <<disk, rows, edges, relock, marker, edits, writes, giveups>>
      /\ pc[p] = "sweep" /\ pc' = [pc EXCEPT ![p] = "link"]
  BY DEF EndSweep, tables, world, counts, At, Goto
<1>3. PICK r : r = Emptied(j)
  OBVIOUS
<1>4. Lasting(r, j)
  BY <1>1, <1>3, EmptiedLasts
<1>5. job' = [job EXCEPT ![p] = r] /\ "link" \in Labels
  BY <1>1, <1>3 DEF EndSweep, Emptied, Labels
<1>6. Resting("sweep", j) => Resting("link", r)
  BY <1>4 DEF Resting, Fresh, Lasting
<1>7. Rebuilding("sweep", j) => Rebuilding("link", r)
  BY <1>4 DEF Rebuilding, LinksUnderWay, Lasting
<1> QED BY <1>1, <1>2, <1>5, <1>6, <1>7, RestingStep, HolderPlainStep, OnlyTheHolder

(* Pass 2: the edges of one note after the other. *)
LEMMA UnlinkRebuilds ==
  ASSUME QuietInv, RebuildInv, Calm, NEW p \in Procs, NEW n \in Notes, Unlink(p, n)
  PROVE  RebuildInv'
<1>1. PICK j \in Jobs : j = job[p]
  BY NowTyped
<1>2. /\ UNCHANGED <<disk, rows, relock, marker, edits, writes, giveups, pc>>
      /\ pc[p] = "link" /\ pc' = [pc EXCEPT ![p] = "link"] /\ edges' = edges \ From(n)
      /\ n \in DOMAIN j.queue /\ j.links = {}
  BY <1>1 DEF Unlink, world, counts, At, QuietInv, RunsTyped
<1>3. ~marker
  BY <1>1, <1>2 DEF RebuildInv, RunsRest, Resting, Fresh
<1>4. relock = p /\ Rebuilding("link", j)
  BY <1>1, <1>2, <1>3, OnlyTheHolder
<1>5. PICK L, f : L = Links[j.queue[n]] /\ f = Drop(j.queue, n)
  OBVIOUS
<1>6. PICK r : r = Unlinking(j, L, f, n)
  OBVIOUS
<1>7. /\ r.one = j.one /\ r.force = j.force /\ r.locked = j.locked /\ r.moved = j.moved
      /\ r.queue = f /\ r.links = L /\ r.note = n
  BY <1>1, <1>6, UnlinkingLasts
<1>8. job' = [job EXCEPT ![p] = r] /\ "link" \in Labels
  BY <1>1, <1>5, <1>6 DEF Unlink, Unlinking, Labels
<1>9. DOMAIN f = DOMAIN j.queue \ {n} /\ \A m \in DOMAIN f : f[m] = j.queue[m]
  BY <1>5 DEF Drop
<1>10. rows = Mirror(disk) /\ LinksUnderWay(j) /\ DOMAIN j.queue \subseteq Indexed
       /\ \A m \in DOMAIN j.queue : j.queue[m] = rows[m].body
  BY <1>4 DEF Rebuilding
<1>11. LinksUnderWay(r)'
  <2>1. n \in Indexed \ DOMAIN f /\ L = Links[rows[n].body]
    BY <1>2, <1>5, <1>9, <1>10
  <2>2. {e \in edges' : e[1] = n} = {}
    BY <1>2 DEF From
  <2>3. ASSUME NEW m \in Indexed \ DOMAIN f
        PROVE  {e \in edges' : e[1] = m}
                 = {<<m, t, rows[t] = None>> :
                      t \in Links[rows[m].body] \ (IF m = r.note THEN r.links ELSE {})}
    <3>1. CASE m = n
      BY <1>7, <2>1, <2>2, <3>1
    <3>2. CASE m # n
      <4>1. {e \in edges' : e[1] = m} = From(m)
        BY <1>2, <3>2 DEF From
      <4>2. From(m) = {<<m, t, rows[t] = None>> :
                         t \in Links[rows[m].body] \ (IF m = j.note THEN j.links ELSE {})}
        BY <1>9, <1>10, <3>2 DEF LinksUnderWay
      <4> QED BY <1>2, <1>7, <3>2, <4>1, <4>2
    <3> QED BY <3>1, <3>2
  <2> QED BY <1>2, <1>7, <2>1, <2>3 DEF LinksUnderWay, From, Indexed
<1>12. Rebuilding("link", r)'
  <2>1. (rows = Mirror(disk))' /\ (DOMAIN r.queue \subseteq Indexed)'
        /\ (\A m \in DOMAIN r.queue : r.queue[m] = rows[m].body)'
    BY <1>2, <1>7, <1>9, <1>10 DEF Mirror, Indexed
  <2> QED BY <1>4, <1>7, <1>11, <2>1 DEF Rebuilding
<1>13. RowsFromFiles'
  BY <1>2 DEF RebuildInv, RowsFromFiles, Mirror
<1> QED BY <1>2, <1>3, <1>4, <1>8, <1>12, <1>13, HolderStep

LEMMA AddEdgeRebuilds ==
  ASSUME QuietInv, RebuildInv, Calm, NEW p \in Procs, NEW t \in Notes, AddEdge(p, t)
  PROVE  RebuildInv'
<1>1. PICK j \in Jobs : j = job[p]
  BY NowTyped
<1>2. /\ UNCHANGED <<disk, rows, relock, marker, edits, writes, giveups, pc>>
      /\ pc[p] = "link" /\ pc' = [pc EXCEPT ![p] = "link"]
      /\ edges' = edges \cup {<<j.note, t, rows[t] = None>>} /\ t \in j.links
  BY <1>1 DEF AddEdge, world, counts, At, QuietInv, RunsTyped
<1>3. ~marker
  BY <1>1, <1>2 DEF RebuildInv, RunsRest, Resting, Fresh
<1>4. relock = p /\ Rebuilding("link", j)
  BY <1>1, <1>2, <1>3, OnlyTheHolder
<1>5. PICK r : r = Linking(j, j.links \ {t})
  OBVIOUS
<1>6. /\ r.one = j.one /\ r.force = j.force /\ r.locked = j.locked /\ r.moved = j.moved
      /\ r.queue = j.queue /\ r.links = j.links \ {t} /\ r.note = j.note
  BY <1>1, <1>5, LinkingLasts
<1>7. job' = [job EXCEPT ![p] = r] /\ "link" \in Labels
  BY <1>1, <1>5 DEF AddEdge, Linking, Labels
<1>8. rows = Mirror(disk) /\ LinksUnderWay(j) /\ DOMAIN j.queue \subseteq Indexed
      /\ \A m \in DOMAIN j.queue : j.queue[m] = rows[m].body
  BY <1>4 DEF Rebuilding
<1>9. PICK n : n = j.note /\ n \in Indexed \ DOMAIN j.queue /\ t \in Links[rows[n].body]
  BY <1>2, <1>8 DEF LinksUnderWay
<1>10. LinksUnderWay(r)'
  <2>1. ASSUME NEW m \in Indexed \ DOMAIN j.queue
        PROVE  {e \in edges' : e[1] = m}
                 = {<<m, u, rows[u] = None>> :
                      u \in Links[rows[m].body] \ (IF m = r.note THEN r.links ELSE {})}
    <3>1. From(m) = {<<m, u, rows[u] = None>> :
                       u \in Links[rows[m].body] \ (IF m = j.note THEN j.links ELSE {})}
      BY <1>8 DEF LinksUnderWay
    <3>2. CASE m = n
      <4>1. {e \in edges' : e[1] = m} = From(m) \cup {<<m, t, rows[t] = None>>}
        BY <1>2, <1>9, <3>2 DEF From
      <4>2. Links[rows[m].body] \ r.links = (Links[rows[m].body] \ j.links) \cup {t}
        BY <1>2, <1>6, <1>9, <3>2
      <4> QED BY <1>6, <1>9, <3>1, <3>2, <4>1, <4>2
    <3>3. CASE m # n
      <4>1. {e \in edges' : e[1] = m} = From(m)
        BY <1>2, <1>9, <3>3 DEF From
      <4> QED BY <1>6, <1>9, <3>1, <3>3, <4>1
    <3> QED BY <3>2, <3>3
  <2>2. r.links # {} => r.note \in Indexed \ DOMAIN r.queue /\ r.links \subseteq Links[rows[r.note].body]
    BY <1>6, <1>8, <1>9 DEF LinksUnderWay
  <2> QED BY <1>2, <1>6, <2>1, <2>2 DEF LinksUnderWay, From, Indexed
<1>11. Rebuilding("link", r)'
  <2>1. (rows = Mirror(disk))' /\ (DOMAIN r.queue \subseteq Indexed)'
        /\ (\A m \in DOMAIN r.queue : r.queue[m] = rows[m].body)'
    BY <1>2, <1>6, <1>8 DEF Mirror, Indexed
  <2> QED BY <1>4, <1>6, <1>10, <2>1 DEF Rebuilding
<1>12. RowsFromFiles'
  BY <1>2 DEF RebuildInv, RowsFromFiles, Mirror
<1> QED BY <1>2, <1>3, <1>4, <1>7, <1>11, <1>12, HolderStep

LEMMA EndLinksRebuilds ==
  ASSUME QuietInv, RebuildInv, Calm, NEW p \in Procs, EndLinks(p)
  PROVE  RebuildInv'
<1>1. PICK j \in Jobs : j = job[p]
  BY NowTyped
<1>2. /\ UNCHANGED <<disk, rows, edges, relock, marker, edits, writes, giveups>>
      /\ pc[p] = "link" /\ j.links = {} /\ DOMAIN j.queue = {}
  BY <1>1 DEF EndLinks, tables, world, counts, At
<1>3. PICK r, B : r = Broken(j, B) /\ job' = [job EXCEPT ![p] = r]
  BY <1>1 DEF EndLinks, Broken
<1>4. Lasting(r, j)
  BY <1>1, <1>3, BrokenLasts
<1>5. CASE marker
  <2>1. Resting("link", j)
    BY <1>1, <1>2, <1>5 DEF RebuildInv, RunsRest
  <2>2. ~j.one /\ ~j.force
    BY <2>1 DEF Resting, Fresh
  <2>3. PICK l \in {"veclock", "vectors"} : pc' = [pc EXCEPT ![p] = l]
    BY <1>1, <2>2 DEF EndLinks, AfterSync, Goto
  <2>4. Resting(l, r) /\ l \in Labels
    BY DEF Resting, Labels
  <2> QED BY <1>2, <1>3, <1>5, <2>3, <2>4, RestingStep
<1>6. CASE ~marker
  <2>1. relock = p /\ Rebuilding("link", j)
    BY <1>1, <1>2, <1>6, OnlyTheHolder
  <2>2. ~j.one /\ j.force
    BY <2>1 DEF Rebuilding
  <2>3. pc' = [pc EXCEPT ![p] = "mark"] /\ "mark" \in Labels
    BY <1>1, <2>2 DEF EndLinks, Goto, Labels
  <2>4. Rebuilt
    <3>1. ASSUME NEW n \in Indexed
          PROVE  From(n) = {<<n, t, rows[t] = None>> : t \in Links[rows[n].body]}
      <4>1. From(n) = {<<n, t, rows[t] = None>> :
                         t \in Links[rows[n].body] \ (IF n = j.note THEN j.links ELSE {})}
        BY <1>2, <2>1 DEF Rebuilding, LinksUnderWay
      <4>2. Links[rows[n].body] \ (IF n = j.note THEN j.links ELSE {}) = Links[rows[n].body]
        BY <1>2
      <4> QED BY <4>1, <4>2
    <3> QED BY <3>1 DEF Rebuilt
  <2>5. Rebuilding("mark", r)
    BY <1>2, <1>4, <2>1, <2>4 DEF Rebuilding, Lasting
  <2> QED BY <1>2, <1>3, <1>6, <2>1, <2>3, <2>5, HolderPlainStep
<1> QED BY <1>5, <1>6

(* The marker is written. *)
LEMMA MarkRebuilds ==
  ASSUME QuietInv, RebuildInv, Calm, NEW p \in Procs, Mark(p)
  PROVE  RebuildInv'
<1>1. /\ UNCHANGED <<disk, rows, edges, edits, writes, giveups, job>> /\ marker' = TRUE
      /\ pc[p] = "mark" /\ pc' = [pc EXCEPT ![p] = "unlock"]
  BY DEF Mark, world, counts, At, Goto
<1>2. ~marker
  BY <1>1 DEF RebuildInv, RunsRest, Resting
<1>3. relock = p /\ Rebuilding("mark", job[p])
  BY <1>1, <1>2, OnlyTheHolder
<1>4. (rows = Mirror(disk) /\ Rebuilt)'
  BY <1>1, <1>3 DEF Rebuilding, Mirror, Rebuilt, From, Indexed
<1>5. ASSUME NEW q \in Procs
      PROVE  Resting(pc[q], job[q])'
  <2>1. CASE q = p
    BY <1>1, <2>1 DEF QuietInv, RunsTyped, Resting
  <2>2. CASE q # p
    <3>1. pc'[q] \in {"idle", "lock"} /\ Fresh(job'[q])
      BY <1>1, <1>2, <1>3, <2>2 DEF QuietInv, RunsTyped, RebuildInv, OneRebuilds
    <3> QED BY <3>1 DEF Resting, Fresh
  <2> QED BY <2>1, <2>2
<1>6. RowsFromFiles'
  BY <1>1 DEF RebuildInv, RowsFromFiles, Mirror
<1> QED BY <1>1, <1>4, <1>5, <1>6 DEF RebuildInv, RunsRest, OneRebuilds

(* What follows a sync leaves rows and edges alone.                          *)
LEMMA VectorsRebuild ==
  ASSUME QuietInv, RebuildInv, Calm, NEW p \in Procs, VectorStep(p)
  PROVE  RebuildInv'
<1>1. UNCHANGED <<disk, rows, edges, marker, edits, writes, giveups>>
  BY DEF VectorStep, DropVector, ReadRow, MoveVector, EndVectors, StoreVector, EndEmbed,
         NoDelta, ListDrift, tables, world, counts
<1>2. pc[p] \in {"vectors", "embed", "store", "replock", "lists"}
  BY DEF VectorStep, DropVector, ReadRow, MoveVector, EndVectors, StoreVector, EndEmbed,
         NoDelta, ListDrift, At
<1>3. marker
  BY <1>2, OnlyTheHolder DEF Rebuilding
<1>4. PICK r : job' = [job EXCEPT ![p] = r]
  <2>1. job = [job EXCEPT ![p] = job[p]]
    BY NowTyped
  <2>2. ASSUME NEW n \in Notes, DropVector(p, n)
        PROVE  \E r : job' = [job EXCEPT ![p] = r]
    BY <2>2 DEF DropVector
  <2>3. ASSUME NEW n \in Notes, ReadRow(p, n)
        PROVE  \E r : job' = [job EXCEPT ![p] = r]
    <3>1. CASE rows[n] = None
      BY <2>3, <3>1 DEF ReadRow
    <3>2. CASE rows[n] # None
      <4>1. job' = [job EXCEPT ![p] = [job[p] EXCEPT !.todo = @ \ {n}, !.note = n, !.text = rows[n].body]]
        BY <2>3, <3>2 DEF ReadRow
      <4> QED BY <4>1
    <3> QED BY <3>1, <3>2
  <2>4. CASE MoveVector(p)
    BY <2>4 DEF MoveVector
  <2>5. CASE EndVectors(p)
    <3>1. \/ job' = [job EXCEPT ![p] = NoJob]
          \/ job' = [job EXCEPT ![p] = [job[p] EXCEPT !.todo = job[p].touched, !.touched = {}]]
      BY <2>5 DEF EndVectors, Finish
    <3> QED BY <3>1
  <2>6. CASE StoreVector(p)
    BY <2>1, <2>6 DEF StoreVector
  <2>7. CASE EndEmbed(p)
    BY <2>7 DEF EndEmbed, Finish
  <2>8. CASE NoDelta(p)
    BY <2>8 DEF NoDelta, Finish
  <2>9. CASE ListDrift(p)
    <3>1. job' = [job EXCEPT ![p] = [job[p] EXCEPT !.removed = Orphans, !.touched = Missing,
                                                   !.repaired = TRUE]]
      BY <2>9 DEF ListDrift
    <3> QED BY <3>1
  <2> QED BY <2>2, <2>3, <2>4, <2>5, <2>6, <2>7, <2>8, <2>9 DEF VectorStep
<1>5. PICK l \in {"vectors", "embed", "store", "replock", "lists", "idle"} : pc' = [pc EXCEPT ![p] = l]
  <2>1. pc = [pc EXCEPT ![p] = pc[p]]
    BY DEF QuietInv, RunsTyped
  <2> QED BY <1>2, <2>1 DEF VectorStep, DropVector, ReadRow, MoveVector, EndVectors, StoreVector,
         EndEmbed, NoDelta, ListDrift, Finish, Goto
<1>6. Resting(l, r) /\ l \in Labels
  BY DEF Resting, Labels
<1> QED BY <1>1, <1>3, <1>4, <1>5, <1>6, RestingStep

LEMMA NobodyWrites ==
  ASSUME QuietInv, RebuildInv, Calm, NEW p \in Procs
  PROVE  ~WriteStep(p)
<1>1. pc[p] \notin {"write", "resync", "reresolve"}
  BY OnlyTheHolder DEF RebuildInv, RunsRest, Resting, Rebuilding
<1> QED BY <1>1 DEF WriteStep, WriteFile, Resync, IndexWritten, Reresolve, At

(* Starts, ends and the steps that end the calm.                             *)
LEMMA StartRebuilds ==
  ASSUME QuietInv, RebuildInv, Calm, NEW p \in Procs, StartSync(p)
  PROVE  RebuildInv'
<1>1. /\ UNCHANGED <<disk, rows, edges, relock, marker, edits, writes, giveups>> /\ pc[p] = "idle"
      /\ pc' = [pc EXCEPT ![p] = IF marker THEN "walk" ELSE "lock"]
  BY DEF StartSync, tables, world, counts, At, Goto
<1>2. PICK b \in BOOLEAN : job' = [Overlap(p) EXCEPT ![p] = [NoJob EXCEPT !.alone = b]]
  BY DEF StartSync
<1>3. PICK r : r = [NoJob EXCEPT !.alone = b]
  OBVIOUS
<1>4. Fresh(r) /\ ~r.locked
  BY <1>3 DEF NoJob, Fresh
<1>5. /\ pc'[p] = (IF marker THEN "walk" ELSE "lock") /\ job'[p] = r
      /\ \A q \in Procs \ {p} : pc'[q] = pc[q] /\ job'[q] = Overlapped(job[q])
  BY <1>1, <1>2, <1>3 DEF Overlap, Overlapped, QuietInv, RunsTyped
<1>6. RowsFromFiles'
  BY <1>1 DEF RebuildInv, RowsFromFiles, Mirror
<1>7. ASSUME NEW q \in Procs \ {p}, NEW j \in Jobs, j = job[q], NEW k, k = Overlapped(j)
      PROVE  /\ Lasting(k, j) /\ k.walk = j.walk /\ k.snap = j.snap /\ k.pre = j.pre
             /\ k.pairs = j.pairs /\ k.todo = j.todo /\ k.note = j.note /\ k.text = j.text
  BY <1>7, OverlappedLasts
<1>8. CASE marker
  <2>1. ASSUME NEW q \in Procs
        PROVE  Resting(pc[q], job[q])'
    <3>1. CASE q = p
      BY <1>4, <1>5, <1>8, <3>1 DEF Resting, Fresh
    <3>2. CASE q # p
      <4>1. PICK j \in Jobs : j = job[q]
        BY NowTyped
      <4>2. PICK k : k = Overlapped(j)
        OBVIOUS
      <4>3. Resting(pc[q], j)
        BY <1>8, <4>1 DEF RebuildInv, RunsRest
      <4>4. Resting(pc[q], k)
        BY <1>7, <3>2, <4>1, <4>2, <4>3 DEF Resting, Fresh, Lasting
      <4>5. pc'[q] = pc[q] /\ job'[q] = k
        BY <1>5, <3>2, <4>1, <4>2
      <4>6. Resting(pc'[q], job'[q])
        BY <4>4, <4>5
      <4> QED BY <1>1, <4>6 DEF Resting, Present, Indexed, Fresh
    <3> QED BY <3>1, <3>2
  <2>2. (rows = Mirror(disk) /\ Rebuilt)'
    BY <1>1, <1>8 DEF RebuildInv, RunsRest, Mirror, Rebuilt, From, Indexed
  <2> QED BY <1>1, <1>6, <1>8, <2>1, <2>2 DEF RebuildInv, RunsRest, OneRebuilds
<1>9. CASE ~marker
  <2>1. relock # p
    BY <1>1, <1>9 DEF RebuildInv, OneRebuilds, Rebuilding
  <2>2. ASSUME NEW q \in Procs
        PROVE  (IF relock = q THEN Rebuilding(pc[q], job[q])
                ELSE pc[q] \in {"idle", "lock"} /\ Fresh(job[q]) /\ ~job[q].locked)'
    <3>1. CASE q = p
      BY <1>1, <1>4, <1>5, <1>9, <2>1, <3>1 DEF Fresh
    <3>2. CASE q # p
      <4>1. PICK j \in Jobs : j = job[q]
        BY NowTyped
      <4>2. PICK k : k = Overlapped(j)
        OBVIOUS
      <4>3. pc'[q] = pc[q] /\ job'[q] = k
        BY <1>5, <3>2, <4>1, <4>2
      <4>4. CASE relock = q
        <5>1. Rebuilding(pc[q], j)
          BY <1>9, <4>1, <4>4 DEF RebuildInv, OneRebuilds
        <5>2. Rebuilding(pc[q], k)
          BY <1>7, <3>2, <4>1, <4>2, <5>1 DEF Rebuilding, LinksUnderWay, Lasting
        <5>3. Rebuilding(pc'[q], job'[q])
          BY <4>3, <5>2
        <5>4. Rebuilding(pc[q], job[q])'
          BY <1>1, <5>3 DEF Rebuilding, Present, Indexed, Mirror, LinksUnderWay, From, Rebuilt
        <5> QED BY <1>1, <4>4, <5>4
      <4>5. CASE relock # q
        <5>1. pc[q] \in {"idle", "lock"} /\ Fresh(j) /\ ~j.locked
          BY <1>9, <4>1, <4>5 DEF RebuildInv, OneRebuilds
        <5>2. Fresh(k) /\ ~k.locked
          BY <1>7, <3>2, <4>1, <4>2, <5>1 DEF Fresh, Lasting
        <5> QED BY <1>1, <4>3, <4>5, <5>1, <5>2 DEF Fresh
      <4> QED BY <4>4, <4>5
    <3> QED BY <3>1, <3>2
  <2> QED BY <1>1, <1>6, <1>9, <2>2 DEF RebuildInv, RunsRest, OneRebuilds
<1> QED BY <1>8, <1>9

LEMMA CutRebuilds ==
  ASSUME QuietInv, RebuildInv, Calm, NEW p \in Procs, Die(p) \/ Abort(p)
  PROVE  RebuildInv'
<1>1. /\ UNCHANGED <<disk, rows, edges, marker, edits, writes, giveups>>
      /\ pc' = [pc EXCEPT ![p] = "idle"] /\ job' = [job EXCEPT ![p] = NoJob]
      /\ \/ job[p].locked /\ relock' \in {None, "orphan"}
         \/ ~job[p].locked /\ relock' = relock
  BY DEF Die, Abort, Unlocked, Finish, Goto, tables
<1>2. CASE marker
  <2>1. Resting("idle", NoJob) /\ "idle" \in Labels
    BY DEF Resting, Labels
  <2> QED BY <1>1, <1>2, <2>1, RestingStep
<1>3. CASE ~marker
  <2>1. /\ pc'[p] = "idle" /\ job'[p] = NoJob
        /\ \A q \in Procs \ {p} : pc'[q] = pc[q] /\ job'[q] = job[q]
    BY <1>1 DEF QuietInv, RunsTyped
  <2>2. relock' # p
    BY <1>1, <1>3, VaultConstants, NamesApart DEF RebuildInv, OneRebuilds, Rebuilding
  <2>3. Fresh(NoJob) /\ ~NoJob.locked
    BY DEF NoJob, Fresh
  <2>4. relock' # relock => relock = p
    BY <1>1, <1>3 DEF RebuildInv, OneRebuilds
  <2>5. ASSUME NEW q \in Procs
        PROVE  (IF relock = q THEN Rebuilding(pc[q], job[q])
                ELSE pc[q] \in {"idle", "lock"} /\ Fresh(job[q]) /\ ~job[q].locked)'
    <3>1. CASE q = p
      BY <2>1, <2>2, <2>3, <3>1 DEF Fresh
    <3>2. CASE q # p /\ relock = q
      <4>1. Rebuilding(pc'[q], job'[q])
        BY <1>3, <2>1, <3>2 DEF RebuildInv, OneRebuilds
      <4>2. Rebuilding(pc[q], job[q])'
        BY <1>1, <4>1 DEF Rebuilding, Present, Indexed, Mirror, LinksUnderWay, From, Rebuilt
      <4> QED BY <2>4, <3>2, <4>2
    <3>3. CASE q # p /\ relock # q
      <4>1. relock' # q
        BY <1>1, <3>3, VaultConstants, NamesApart
      <4> QED BY <1>3, <2>1, <3>3, <4>1 DEF RebuildInv, OneRebuilds, Fresh
    <3> QED BY <3>1, <3>2, <3>3
  <2>6. RowsFromFiles'
    BY <1>1 DEF RebuildInv, RowsFromFiles, Mirror
  <2> QED BY <1>1, <1>3, <2>5, <2>6 DEF RebuildInv, RunsRest, OneRebuilds
<1> QED BY <1>2, <1>3

(* The counts only grow, so that what ends the calm ends it for good.        *)
LEMMA CountsGrow ==
  ASSUME RebuildInv, [Next]_vars
  PROVE  /\ edits' \in Nat /\ writes' \in Nat /\ giveups' \in Nat /\ marker' \in BOOLEAN
         /\ edits' >= edits /\ writes' >= writes /\ giveups' >= giveups
<1>1. edits \in Nat /\ writes \in Nat /\ giveups \in Nat /\ marker \in BOOLEAN
  BY DEF RebuildInv
<1>2. /\ edits' \in {edits, edits + 1} /\ writes' \in {writes, writes + 1}
      /\ giveups' \in {giveups, giveups + 1} /\ marker' \in {marker, TRUE}
  <2>1. ASSUME NEW p \in Procs, SyncStep(p)
        PROVE  UNCHANGED <<edits, writes>> /\ giveups' \in {giveups, giveups + 1}
               /\ marker' \in {marker, TRUE}
    BY <2>1 DEF SyncStep, StartSync, TakeLock, GiveUpLock, Recheck, Purge, Walk, Snapshot, Pair, MoveRow,
       DropMovedEdges, EndMoves, EndIngest, DeleteRow, EndSweep, Skip, Ingest, Reject, SweepEdges,
       Upsert, EndLinks, Mark, Unlock, Unlink, AddEdge, tables, world, counts
  <2>2. ASSUME NEW p \in Procs, VectorStep(p)
        PROVE  UNCHANGED <<edits, writes, giveups, marker>>
    BY <2>2 DEF VectorStep, DropVector, ReadRow, MoveVector, EndVectors, StoreVector, EndEmbed,
         NoDelta, ListDrift, tables, world, counts
  <2>3. ASSUME NEW p \in Procs, WriteStep(p)
        PROVE  UNCHANGED <<edits, writes, giveups, marker>>
    BY <2>3 DEF WriteStep, WriteFile, Resync, IndexWritten, Reresolve, tables, world, counts
  <2>4. ASSUME NEW p \in Procs, Die(p) \/ Abort(p)
        PROVE  UNCHANGED <<edits, writes, giveups, marker>>
    BY <2>4 DEF Die, Abort, tables
  <2>5. ASSUME NEW p \in Servers, NEW n \in Notes, NEW t \in Texts \ Unparsable, Write(p, n, t)
        PROVE  UNCHANGED <<edits, giveups, marker>> /\ writes' = writes + 1
    BY <2>5 DEF Write, tables
  <2>6. ASSUME NEW d, Revise(d)
        PROVE  UNCHANGED <<writes, giveups, marker>> /\ edits' = edits + 1
    BY <2>6 DEF Revise, tables
  <2>7. CASE UNCHANGED vars
    BY <2>7 DEF vars, counts
  <2> QED BY <2>1, <2>2, <2>3, <2>4, <2>5, <2>6, <2>7 DEF Next, Step, Edit, Rename
<1>3. edits' \in Nat /\ edits' >= edits
  BY <1>1, <1>2
<1>4. writes' \in Nat /\ writes' >= writes
  BY <1>1, <1>2
<1>5. giveups' \in Nat /\ giveups' >= giveups
  BY <1>1, <1>2
<1>6. marker' \in BOOLEAN
  BY <1>1, <1>2
<1> QED BY <1>3, <1>4, <1>5, <1>6

-----------------------------------------------------------------------------
LEMMA RebuildInvStarts == Init => RebuildInv
<1> SUFFICES ASSUME Init PROVE RebuildInv
  OBVIOUS
<1>1. TablesTyped
  BY QuietInvStarts DEF QuietInv
<1>2. edits \in Nat /\ writes \in Nat /\ giveups \in Nat /\ marker \in BOOLEAN
  BY VaultConstants DEF Init, InitWith
<1>3. RowsFromFiles
  <2>1. rows \in {Mirror(disk), [n \in Notes |-> None]}
    BY DEF Init, InitWith
  <2> QED BY <2>1 DEF RowsFromFiles
<1>4. ASSUME marker
      PROVE  RunsRest
  <2>1. ~Rebuild /\ rows = Mirror(disk)
    BY <1>4 DEF Init, InitWith
  <2>2. edges = {e \in Notes \X Notes \X BOOLEAN :
                   /\ rows[e[1]] # None /\ e[2] \in Links[rows[e[1]].body]
                   /\ e[3] = (rows[e[2]] = None)}
    BY <2>1 DEF Init, InitWith
  <2>3. ASSUME NEW n \in Indexed
        PROVE  From(n) = {<<n, t, rows[t] = None>> : t \in Links[rows[n].body]}
    <3>1. n \in Notes /\ rows[n] # None /\ Links[rows[n].body] \subseteq Notes
      BY <1>1, <2>3, RowsAreTyped, VaultConstants DEF Indexed
    <3>2. ASSUME NEW e \in From(n)
          PROVE  e \in {<<n, t, rows[t] = None>> : t \in Links[rows[n].body]}
      <4>1. e \in Notes \X Notes \X BOOLEAN /\ e[1] = n /\ e[2] \in Links[rows[n].body]
            /\ e[3] = (rows[e[2]] = None)
        BY <2>2, <3>2 DEF From
      <4>2. e = <<e[1], e[2], e[3]>>
        BY <4>1
      <4> QED BY <4>1, <4>2
    <3>3. ASSUME NEW t \in Links[rows[n].body]
          PROVE  <<n, t, rows[t] = None>> \in From(n)
      <4>1. <<n, t, rows[t] = None>> \in Notes \X Notes \X BOOLEAN
        BY <3>1, <3>3
      <4> QED BY <2>2, <3>1, <3>3, <4>1 DEF From
    <3> QED BY <3>2, <3>3
  <2>4. \A p \in Procs : Resting(pc[p], job[p])
    BY DEF Init, InitWith, Resting
  <2> QED BY <2>1, <2>3, <2>4 DEF RunsRest, Rebuilt
<1>5. OneRebuilds
  <2>1. Fresh(NoJob) /\ ~NoJob.locked
    BY DEF NoJob, Fresh
  <2>2. \A p \in Procs : relock # p
    BY VaultConstants DEF Init, InitWith
  <2> QED BY <2>1, <2>2 DEF Init, InitWith, OneRebuilds
<1> QED BY <1>2, <1>3, <1>4, <1>5 DEF RebuildInv, RunsRest

LEMMA StutterRebuilds == RebuildInv /\ UNCHANGED vars => RebuildInv'
  BY DEF vars, counts, RebuildInv, Calm, RowsFromFiles, RunsRest, OneRebuilds, Resting, Rebuilding,
         Fresh, LinksUnderWay, Present, Indexed, Mirror, From, Rebuilt

LEMMA NoSum ==
  ASSUME NEW a \in Nat, NEW b \in Nat, NEW c \in Nat, a + b + c = 0
  PROVE  a = 0 /\ b = 0 /\ c = 0
  OBVIOUS

LEMMA RebuildInvKept == QuietInv /\ RebuildInv /\ [Next]_vars => RebuildInv'
<1> SUFFICES ASSUME QuietInv, RebuildInv, [Next]_vars PROVE RebuildInv'
  OBVIOUS
<1>1. /\ edits' \in Nat /\ writes' \in Nat /\ giveups' \in Nat /\ marker' \in BOOLEAN
      /\ edits' >= edits /\ writes' >= writes /\ giveups' >= giveups
  BY CountsGrow
<1>2. CASE ~Calm'
  BY <1>1, <1>2 DEF RebuildInv
<1>3. CASE Calm'
  <2>1. edits \in Nat /\ writes \in Nat /\ giveups \in Nat
    BY DEF RebuildInv
  <2>2. edits' = 0 /\ writes' = 0 /\ giveups' = 0
    <3>1. edits' \in Nat /\ writes' \in Nat /\ giveups' \in Nat
      BY <1>1
    <3>2. edits' + writes' + giveups' = 0
      BY <1>3 DEF Calm
    <3> QED BY <3>1, <3>2, NoSum
  <2>3. edits = 0 /\ writes = 0 /\ giveups = 0
    BY <1>1, <2>1, <2>2
  <2>4. Calm
    BY <2>3 DEF Calm
  <2>5. ASSUME NEW p \in Procs, SyncStep(p)
        PROVE  RebuildInv'
    <3>1. ~GiveUpLock(p)
      BY <2>2, <2>3 DEF GiveUpLock
    <3>2. /\ ~MoveRow(p) /\ ~DropMovedEdges(p) /\ ~DeleteRow(p)
          /\ \A n \in Notes : ~SweepEdges(p, n)
      BY <2>4, NothingVanishes
    <3>3. CASE StartSync(p)
      BY <2>4, <3>3, StartRebuilds
    <3>4. CASE TakeLock(p) \/ Recheck(p) \/ Purge(p) \/ Unlock(p)
      BY <2>4, <3>4, LockRebuilds
    <3>5. CASE Walk(p) \/ Snapshot(p) \/ Pair(p) \/ EndMoves(p)
      BY <2>4, <3>5, ListingRebuilds
    <3>6. CASE EndIngest(p) \/ EndSweep(p) \/ Upsert(p)
      BY <2>4, <3>6, EndIngestRebuilds, EndSweepRebuilds, UpsertRebuilds
    <3>7. CASE \E n \in Notes : Skip(p, n) \/ Ingest(p, n) \/ Reject(p, n) \/ SweepEdges(p, n)
      BY <2>4, <3>2, <3>7, SkipRebuilds, IngestRebuilds, RejectRebuilds
    <3>8. CASE EndLinks(p) \/ Mark(p)
      BY <2>4, <3>8, EndLinksRebuilds, MarkRebuilds
    <3>9. CASE \E n \in Notes : Unlink(p, n) \/ AddEdge(p, n)
      BY <2>4, <3>9, UnlinkRebuilds, AddEdgeRebuilds
    <3> QED BY <2>5, <3>1, <3>2, <3>3, <3>4, <3>5, <3>6, <3>7, <3>8, <3>9 DEF SyncStep
  <2>6. ASSUME NEW p \in Procs, Step(p) \/ Die(p) \/ Abort(p)
        PROVE  RebuildInv'
    BY <2>4, <2>5, <2>6, VectorsRebuild, NobodyWrites, CutRebuilds DEF Step
  <2>7. \A p \in Servers, n \in Notes, t \in Texts \ Unparsable : ~Write(p, n, t)
    BY <2>2, <2>3 DEF Write
  <2>8. \A d : ~Revise(d)
    BY <2>2, <2>3 DEF Revise
  <2> QED BY <2>6, <2>7, <2>8, StutterRebuilds DEF Next, Edit, Rename
<1> QED BY <1>2, <1>3

(* Whoever rebuilds the graph dies, fails or finishes: as long as nobody     *)
(* edits and nobody goes on without the lock, the marker is written only     *)
(* over a graph that has every edge of every row, each with its flag, and    *)
(* no run that comes later disturbs it.                                      *)
THEOREM RebuildIsWhole == Spec => []MarkedIsRebuilt
<1>1. RebuildInv => MarkedIsRebuilt
  BY DEF RebuildInv, Calm, RunsRest, MarkedIsRebuilt
<1> QED BY <1>1, QuietInvStarts, QuietInvKept, RebuildInvStarts, RebuildInvKept, PTL DEF Spec

-----------------------------------------------------------------------------
(* The repair.  Nothing but a repair in progress is between the drift a run   *)
(* found and its end: what it has listed covers what is left of the drift, as *)
(* long as the run is alone.                                                  *)

Embedding == {"embed", "store", "replock", "lists"}

ShapeOf(l, j) ==
    /\ j.repaired => l \in {"vectors", "embed", "store"} /\ j.moved = {}
    /\ l \in Embedding => j.moved = {}
    /\ l = "store" => j.note \in Notes /\ j.text \in Texts

(* The drift that is left, of a repair that is alone.                        *)
DriftLeft(l, j) ==
    j.repaired /\ j.alone =>
        /\ l = "vectors" => /\ Orphans \subseteq j.removed /\ Missing \subseteq j.touched
                            /\ \A n \in j.removed : rows[n] = None
        /\ l = "embed" => Orphans = {} /\ Missing \subseteq j.todo
        /\ l = "store" => /\ Orphans = {} /\ Missing \subseteq j.todo \cup {j.note}
                          /\ rows[j.note] # None

Vectors == [Notes -> Texts \cup {None}]

DriftInv ==
    /\ vec \in Vectors /\ crashes \in Nat
    /\ \A p \in Procs : ShapeOf(pc[p], job[p]) /\ DriftLeft(pc[p], job[p])

(* A run's step leaves the others their places and locals.                   *)
Others(p) == \A q \in Procs \ {p} : pc'[q] = pc[q] /\ job'[q] = job[q]

LEMMA DriftStep ==
  ASSUME QuietInv, DriftInv, NEW p \in Procs, pc[p] # "idle", Others(p),
         vec' \in Vectors, crashes' \in Nat,
         ShapeOf(pc'[p], job'[p]), DriftLeft(pc[p], job[p])'
  PROVE  DriftInv'
<1>1. ASSUME NEW q \in Procs \ {p}
      PROVE  (ShapeOf(pc[q], job[q]) /\ DriftLeft(pc[q], job[q]))'
  <2>1. ShapeOf(pc'[q], job'[q]) /\ ~job'[q].alone
    BY DEF DriftInv, Others, QuietInv, AloneIsAlone
  <2> QED BY <2>1 DEF ShapeOf, DriftLeft, Embedding
<1>2. ShapeOf(pc[p], job[p])'
  BY DEF ShapeOf, Embedding
<1> QED BY <1>1, <1>2 DEF DriftInv

(* Before the vectors no run repairs.                                        *)
LEMMA EarlyStep ==
  ASSUME QuietInv, DriftInv, NEW p \in Procs, pc[p] \notin {"idle", "vectors"} \cup Embedding,
         Others(p), pc'[p] \notin Embedding, job'[p].repaired = job[p].repaired,
         vec' \in Vectors, UNCHANGED crashes
  PROVE  DriftInv'
<1>1. ~job'[p].repaired
  BY DEF DriftInv, ShapeOf, Embedding
<1>2. ShapeOf(pc'[p], job'[p]) /\ DriftLeft(pc[p], job[p])'
  BY <1>1 DEF ShapeOf, DriftLeft, Embedding
<1> QED BY <1>2, DriftStep DEF DriftInv

LEMMA PlacesTyped ==
  ASSUME QuietInv
  PROVE  pc \in [Procs -> Labels] /\ job \in [Procs -> Jobs]
  BY DEF QuietInv, RunsTyped

LEMMA ListingDrifts ==
  ASSUME QuietInv, DriftInv, NEW p \in Procs,
         \/ Purge(p) \/ Walk(p) \/ Snapshot(p) \/ Pair(p) \/ EndMoves(p) \/ EndIngest(p)
         \/ DropMovedEdges(p) \/ DeleteRow(p) \/ Recheck(p) \/ Mark(p)
  PROVE  DriftInv'
<1>1. pc \in [Procs -> Labels] /\ job \in [Procs -> Jobs]
  BY PlacesTyped
<1>2. pc[p] \notin {"idle", "vectors"} \cup Embedding /\ UNCHANGED <<vec, crashes>>
  BY DEF Purge, Walk, Snapshot, Pair, EndMoves, EndIngest, DropMovedEdges, DeleteRow, Recheck, Mark,
         At, Embedding, tables, world, counts
<1>3. Others(p) /\ job'[p].repaired = job[p].repaired /\ pc'[p] \notin Embedding
  <2>1. CASE Purge(p) \/ DropMovedEdges(p) \/ Mark(p)
    BY <1>1, <2>1 DEF Purge, DropMovedEdges, Mark, Goto, Others, Embedding, world
  <2>2. CASE Walk(p)
    BY <1>1, <2>2 DEF Walk, Goto, Others, Embedding, Jobs
  <2>3. CASE Snapshot(p)
    BY <1>1, <2>3 DEF Snapshot, Goto, Others, Embedding, Jobs
  <2>4. CASE Pair(p)
    BY <1>1, <2>4 DEF Pair, Goto, Others, Embedding, Jobs
  <2>5. CASE EndMoves(p) \/ EndIngest(p)
    BY <1>1, <2>5 DEF EndMoves, EndIngest, Goto, Others, Embedding, Jobs
  <2>6. CASE DeleteRow(p)
    BY <1>1, <2>6 DEF DeleteRow, Goto, Others, Embedding, Jobs
  <2>7. CASE Recheck(p)
    BY <1>1, <2>7 DEF Recheck, Goto, Others, Embedding, Jobs
  <2> QED BY <2>1, <2>2, <2>3, <2>4, <2>5, <2>6, <2>7
<1> QED BY <1>2, <1>3, EarlyStep DEF DriftInv

LEMMA NotesDrift ==
  ASSUME QuietInv, DriftInv, NEW p \in Procs, NEW n \in Notes,
         \/ Skip(p, n) \/ Ingest(p, n) \/ Reject(p, n) \/ SweepEdges(p, n)
         \/ Unlink(p, n) \/ AddEdge(p, n)
  PROVE  DriftInv'
<1>1. pc \in [Procs -> Labels] /\ job \in [Procs -> Jobs]
  BY PlacesTyped
<1>2. pc[p] \notin {"idle", "vectors"} \cup Embedding /\ UNCHANGED <<vec, crashes>>
  BY DEF Skip, Ingest, Reject, SweepEdges, Unlink, AddEdge, At, Embedding, tables, world, counts
<1>3. Others(p) /\ job'[p].repaired = job[p].repaired /\ pc'[p] \notin Embedding
  <2>1. CASE Skip(p, n) \/ Reject(p, n)
    BY <1>1, <1>2, <2>1 DEF Skip, Reject, Goto, Others, Embedding, Jobs
  <2>2. CASE Ingest(p, n)
    BY <1>1, <2>2 DEF Ingest, Goto, Others, Embedding, Jobs
  <2>3. CASE SweepEdges(p, n)
    BY <1>1, <2>3 DEF SweepEdges, Goto, Others, Embedding, Jobs
  <2>4. CASE Unlink(p, n)
    BY <1>1, <1>2, <2>4 DEF Unlink, Goto, Others, Embedding, Jobs
  <2>5. CASE AddEdge(p, n)
    BY <1>1, <1>2, <2>5 DEF AddEdge, Goto, Others, Embedding, Jobs
  <2> QED BY <2>1, <2>2, <2>3, <2>4, <2>5
<1> QED BY <1>2, <1>3, EarlyStep DEF DriftInv

LEMMA StoringDrifts ==
  ASSUME QuietInv, DriftInv, NEW p \in Procs,
         \/ MoveRow(p) \/ Upsert(p) \/ EndSweep(p) \/ EndLinks(p) \/ WriteFile(p)
         \/ \E e \in job[p].broken : Reresolve(p, e)
  PROVE  DriftInv'
<1>1. pc \in [Procs -> Labels] /\ job \in [Procs -> Jobs]
  BY PlacesTyped
<1>2. pc[p] \notin {"idle", "vectors"} \cup Embedding /\ UNCHANGED <<vec, crashes>>
  BY DEF MoveRow, Upsert, EndSweep, EndLinks, WriteFile, Reresolve, At, Embedding, tables, world, counts
<1>3. Others(p) /\ job'[p].repaired = job[p].repaired /\ pc'[p] \notin Embedding
  <2>1. CASE MoveRow(p)
    <3>1. PICK j \in Jobs : j = job[p]
      BY <1>1
    <3>1a. PICK P, M, a, f : job' = [job EXCEPT ![p] = Moved(j, P, M, a, f)]
      <4>1. PICK pair \in j.pairs : job' = [job EXCEPT ![p] =
                        [job[p] EXCEPT !.pairs = @ \ {pair}, !.moved = @ \cup {pair},
                                       !.note = pair[1],
                                       !.snap = Put(Drop(@, pair[1]), pair[2], @[pair[1]])]]
        BY <2>1, <3>1 DEF MoveRow
      <4>2. Moved(j, j.pairs \ {pair}, j.moved \cup {pair}, pair[1],
                  Put(Drop(j.snap, pair[1]), pair[2], j.snap[pair[1]]))
              = [job[p] EXCEPT !.pairs = @ \ {pair}, !.moved = @ \cup {pair},
                               !.note = pair[1],
                               !.snap = Put(Drop(@, pair[1]), pair[2], @[pair[1]])]
        BY <3>1 DEF Moved
      <4> QED BY <4>1, <4>2
    <3>1b. Moved(j, P, M, a, f).repaired = j.repaired
      BY <3>1 DEF Moved, Jobs
    <3>2. pc' = [pc EXCEPT ![p] = "unlink"]
      BY <2>1 DEF MoveRow, Goto
    <3> QED BY <1>1, <3>1, <3>1a, <3>1b, <3>2 DEF Others, Embedding
  <2>2. CASE Upsert(p)
    <3>1. PICK S, f, T : job' = [job EXCEPT ![p].todo = S, ![p].queue = f, ![p].touched = T]
      BY <2>2 DEF Upsert
    <3>2. \E l \in {"link", "ingest"} : pc' = [pc EXCEPT ![p] = l]
      BY <2>2 DEF Upsert, Goto
    <3> QED BY <1>1, <3>1, <3>2 DEF Others, Embedding, Jobs
  <2>3. CASE EndSweep(p)
    <3>1. job' = [job EXCEPT ![p] = Emptied(job[p])]
      BY <2>3 DEF EndSweep, Emptied
    <3>2. Emptied(job[p]).repaired = job[p].repaired
      BY <1>1 DEF Emptied, Jobs
    <3> QED BY <1>1, <2>3, <3>1, <3>2 DEF EndSweep, Goto, Others, Embedding
  <2>4. CASE EndLinks(p)
    <3>1. PICK B : job' = [job EXCEPT ![p].broken = B]
      BY <2>4 DEF EndLinks
    <3>2. \E l \in {"reresolve", "mark", "veclock", "vectors"} : pc' = [pc EXCEPT ![p] = l]
      BY <2>4 DEF EndLinks, Goto, AfterSync
    <3> QED BY <1>1, <3>1, <3>2 DEF Others, Embedding, Jobs
  <2>5. CASE WriteFile(p)
    BY <1>1, <2>5 DEF WriteFile, Goto, Others, Embedding
  <2>6. ASSUME NEW e \in job[p].broken, Reresolve(p, e)
        PROVE  Others(p) /\ job'[p].repaired = job[p].repaired /\ pc'[p] = pc[p]
    BY <1>1, <2>6 DEF Reresolve, Others, Jobs
  <2> QED BY <1>2, <2>1, <2>2, <2>3, <2>4, <2>5, <2>6
<1> QED BY <1>2, <1>3, EarlyStep DEF DriftInv

(* Locks: only a run without a repair waits for one.                         *)
LEMMA LockDrifts ==
  ASSUME QuietInv, DriftInv, NEW p \in Procs, TakeLock(p) \/ GiveUpLock(p) \/ Unlock(p)
  PROVE  DriftInv'
<1>1. pc \in [Procs -> Labels] /\ job \in [Procs -> Jobs]
  BY PlacesTyped
<1>2. UNCHANGED <<vec, crashes>> /\ pc[p] # "idle"
  BY DEF TakeLock, GiveUpLock, Unlock, At, Behind, tables, counts
<1>3. Others(p) /\ job'[p].repaired = job[p].repaired /\ job'[p].moved = job[p].moved
  BY <1>1 DEF TakeLock, GiveUpLock, Unlock, Goto, Others, Jobs
<1>4. \/ pc[p] = "lock" /\ pc'[p] = "recheck"
      \/ pc[p] = "veclock" /\ pc'[p] = "vectors"
      \/ pc[p] = "replock" /\ pc'[p] = "lists"
      \/ pc[p] = "unlock" /\ pc'[p] \in {"veclock", "vectors"}
  <2>1. CASE TakeLock(p) \/ GiveUpLock(p)
    <3>1. \/ pc[p] = "lock" /\ Goto(p, "recheck")
          \/ pc[p] = "veclock" /\ Goto(p, "vectors")
          \/ pc[p] = "replock" /\ Goto(p, "lists")
      BY <2>1 DEF TakeLock, GiveUpLock, Behind
    <3> QED BY <1>1, <3>1 DEF Goto
  <2>2. CASE Unlock(p)
    BY <1>1, <2>2 DEF Unlock, AfterSync, At, Goto
  <2> QED BY <2>1, <2>2
<1>5. ~job'[p].repaired /\ (pc[p] = "replock" => job'[p].moved = {})
  BY <1>3, <1>4 DEF DriftInv, ShapeOf, Embedding
<1>6. ShapeOf(pc'[p], job'[p]) /\ DriftLeft(pc[p], job[p])'
  BY <1>4, <1>5 DEF ShapeOf, DriftLeft, Embedding
<1> QED BY <1>2, <1>3, <1>6, DriftStep DEF DriftInv

LEMMA EndDrifts ==
  ASSUME QuietInv, DriftInv, NEW p \in Procs, pc[p] # "idle", Finish(p),
         vec' \in Vectors, crashes' \in Nat
  PROVE  DriftInv'
<1>1. pc \in [Procs -> Labels] /\ job \in [Procs -> Jobs]
  BY PlacesTyped
<1>2. pc'[p] = "idle" /\ job'[p] = NoJob /\ Others(p) /\ ~NoJob.repaired
  BY <1>1 DEF Finish, Goto, Others, NoJob
<1> QED BY <1>2, DriftStep DEF ShapeOf, DriftLeft, Embedding

LEMMA WriteDrifts ==
  ASSUME QuietInv, DriftInv, NEW p \in Procs, Resync(p) \/ IndexWritten(p) \/ Die(p) \/ Abort(p)
  PROVE  DriftInv'
<1>1. pc \in [Procs -> Labels] /\ job \in [Procs -> Jobs]
  BY PlacesTyped
<1>2. CASE Resync(p)
  <2>1. UNCHANGED <<vec, crashes>> /\ pc[p] = "resync"
    BY <1>2 DEF Resync, At, tables, world, counts
  <2>2. CASE Finish(p)
    BY <2>1, <2>2, EndDrifts DEF DriftInv
  <2>3. CASE ~Finish(p)
    <3>1. job' = [job EXCEPT ![p].text = disk[job[p].note]] /\ pc' = [pc EXCEPT ![p] = "upsert"]
      BY <1>2, <2>3 DEF Resync, Goto
    <3>2. Others(p) /\ job'[p].repaired = job[p].repaired /\ pc'[p] \notin Embedding
      BY <1>1, <3>1 DEF Others, Jobs, Embedding
    <3> QED BY <2>1, <3>2, EarlyStep DEF DriftInv, Embedding
  <2> QED BY <2>2, <2>3
<1>3. CASE IndexWritten(p)
  <2>1. Finish(p) /\ pc[p] = "reresolve" /\ UNCHANGED crashes
        /\ vec' = [vec EXCEPT ![job[p].note] = job[p].new]
    BY <1>3 DEF IndexWritten, At, world, counts
  <2>2. job[p].new \in Texts \cup {None}
    BY <1>1 DEF Jobs
  <2>3. vec' \in Vectors
    BY <2>1, <2>2 DEF Vectors, DriftInv
  <2> QED BY <2>1, <2>3, EndDrifts DEF DriftInv
<1>4. CASE Die(p) \/ Abort(p)
  <2>1. Finish(p) /\ pc[p] # "idle" /\ UNCHANGED vec /\ crashes' = crashes + 1
    BY <1>4 DEF Die, Abort, At, tables
  <2> QED BY <2>1, EndDrifts DEF DriftInv
<1> QED BY <1>2, <1>3, <1>4

(* The start of a run, and the owner's edits: nothing stays alone.            *)
LEMMA OverlapDrifts ==
  ASSUME QuietInv, DriftInv, NEW q \in Procs, pc'[q] = pc[q], job'[q] = Overlapped(job[q])
  PROVE  (ShapeOf(pc[q], job[q]) /\ DriftLeft(pc[q], job[q]))'
<1>1. PICK j \in Jobs : j = job[q]
  BY PlacesTyped
<1>2. PICK k : k = Overlapped(j)
  OBVIOUS
<1>3. /\ k.repaired = j.repaired /\ ~k.alone /\ k.moved = j.moved
      /\ k.note = j.note /\ k.text = j.text
  BY <1>1, <1>2 DEF Overlapped, Jobs
<1>4. ShapeOf(pc[q], k)
  BY <1>1, <1>3 DEF DriftInv, ShapeOf
<1>5. ShapeOf(pc'[q], job'[q]) /\ ~job'[q].alone
  BY <1>1, <1>2, <1>3, <1>4
<1> QED BY <1>5 DEF ShapeOf, DriftLeft, Embedding

LEMMA StartsDrift ==
  ASSUME QuietInv, DriftInv,
         \/ \E p \in Procs : StartSync(p)
         \/ \E p \in Servers, n \in Notes, t \in Texts \ Unparsable : Write(p, n, t)
         \/ \E d : Revise(d)
  PROVE  DriftInv'
<1>1. pc \in [Procs -> Labels] /\ job \in [Procs -> Jobs]
  BY PlacesTyped
<1>2. UNCHANGED <<vec, crashes>>
  BY DEF StartSync, Write, Revise, tables, world, counts
<1>3. CASE \E d : Revise(d)
  <2>1. \A q \in Procs : pc'[q] = pc[q] /\ job'[q] = Overlapped(job[q])
    BY <1>3 DEF Revise, Overlapped
  <2>2. \A q \in Procs : (ShapeOf(pc[q], job[q]) /\ DriftLeft(pc[q], job[q]))'
    BY <2>1, OverlapDrifts
  <2> QED BY <1>2, <2>2 DEF DriftInv
<1>4. ASSUME NEW p \in Procs, NEW r, NEW l, ~r.repaired, l \notin Embedding,
             job' = [Overlap(p) EXCEPT ![p] = r], pc' = [pc EXCEPT ![p] = l]
      PROVE  DriftInv'
  <2>1. /\ pc'[p] = l /\ job'[p] = r
        /\ \A q \in Procs \ {p} : pc'[q] = pc[q] /\ job'[q] = Overlapped(job[q])
    BY <1>1, <1>4 DEF Overlap, Overlapped
  <2>2. ASSUME NEW q \in Procs
        PROVE  (ShapeOf(pc[q], job[q]) /\ DriftLeft(pc[q], job[q]))'
    <3>1. CASE q = p
      BY <1>4, <2>1, <3>1 DEF ShapeOf, DriftLeft, Embedding
    <3>2. CASE q # p
      BY <2>1, <3>2, OverlapDrifts
    <3> QED BY <3>1, <3>2
  <2> QED BY <1>2, <2>2 DEF DriftInv
<1>5. ASSUME NEW p \in Procs, StartSync(p)
      PROVE  DriftInv'
  <2>1. PICK b \in BOOLEAN : job' = [Overlap(p) EXCEPT ![p] = [NoJob EXCEPT !.alone = b]]
    BY <1>5 DEF StartSync
  <2>2. PICK r : r = [NoJob EXCEPT !.alone = b]
    OBVIOUS
  <2>3. ~r.repaired
    BY <2>2 DEF NoJob
  <2>4. PICK l \in {"walk", "lock"} : pc' = [pc EXCEPT ![p] = l]
    BY <1>5 DEF StartSync, Goto
  <2> QED BY <1>4, <2>1, <2>2, <2>3, <2>4 DEF Embedding
<1>6. ASSUME NEW p \in Servers, NEW n \in Notes, NEW t \in Texts \ Unparsable, Write(p, n, t)
      PROVE  DriftInv'
  <2>1. PICK r : r = [NoJob EXCEPT !.one = TRUE, !.note = n, !.new = t]
    OBVIOUS
  <2>2. ~r.repaired
    BY <2>1 DEF NoJob
  <2>3. pc' = [pc EXCEPT ![p] = "write"] /\ job' = [Overlap(p) EXCEPT ![p] = r] /\ p \in Procs
    BY <1>6, <2>1 DEF Write, Goto, Procs
  <2> QED BY <1>4, <2>2, <2>3 DEF Embedding
<1> QED BY <1>3, <1>5, <1>6

(* The vectors themselves.                                                   *)
LEMMA VectorDrifts ==
  ASSUME QuietInv, DriftInv, NEW p \in Procs, VectorStep(p)
  PROVE  DriftInv'
<1>1. pc \in [Procs -> Labels] /\ job \in [Procs -> Jobs]
  BY PlacesTyped
<1>2. PICK j \in Jobs : j = job[p]
  BY <1>1
<1>3. UNCHANGED <<rows, crashes>> /\ pc[p] # "idle" /\ vec \in Vectors /\ crashes \in Nat
      /\ ShapeOf(pc[p], j) /\ DriftLeft(pc[p], j)
  BY <1>2 DEF VectorStep, DropVector, ReadRow, MoveVector, EndVectors, StoreVector, EndEmbed,
              NoDelta, ListDrift, tables, world, counts, At, DriftInv
<1>4. ASSUME Finish(p), vec' = vec
      PROVE  DriftInv'
  BY <1>3, <1>4, EndDrifts
<1>5. ASSUME NEW l, NEW r, pc' = [pc EXCEPT ![p] = l], job' = [job EXCEPT ![p] = r],
             vec' \in Vectors, ShapeOf(l, r), DriftLeft(l, r)'
      PROVE  DriftInv'
  <2>1. pc'[p] = l /\ job'[p] = r /\ Others(p)
    BY <1>1, <1>5 DEF Others
  <2>2. DriftLeft(pc[p], job[p])'
    BY <1>5, <2>1 DEF DriftLeft
  <2> QED BY <1>3, <1>5, <2>1, <2>2, DriftStep
<1>6. pc = [pc EXCEPT ![p] = pc[p]] /\ job = [job EXCEPT ![p] = j]
  BY <1>1, <1>2
<1>7. ASSUME NEW n \in Notes, DropVector(p, n)
      PROVE  DriftInv'
  <2>1. PICK r : r = [j EXCEPT !.removed = j.removed \ {n}]
    OBVIOUS
  <2>2. /\ r.removed = j.removed \ {n} /\ r.touched = j.touched /\ r.moved = j.moved
        /\ r.repaired = j.repaired /\ r.alone = j.alone
    BY <2>1 DEF Jobs
  <2>3. /\ pc[p] = "vectors" /\ pc' = [pc EXCEPT ![p] = "vectors"] /\ n \in j.removed
        /\ job' = [job EXCEPT ![p] = r] /\ vec' = [vec EXCEPT ![n] = None]
    BY <1>2, <1>6, <1>7, <2>1 DEF DropVector, At
  <2>4. vec' \in Vectors /\ vec'[n] = None /\ \A m \in Notes \ {n} : vec'[m] = vec[m]
    BY <1>3, <2>3 DEF Vectors
  <2>5. ShapeOf("vectors", r)
    BY <1>3, <2>2, <2>3 DEF ShapeOf, Embedding
  <2>6. DriftLeft("vectors", r)'
    BY <1>3, <2>2, <2>3, <2>4 DEF DriftLeft, Orphans, Missing
  <2> QED BY <1>5, <2>3, <2>4, <2>5, <2>6
<1>8. CASE MoveVector(p)
  <2>1. PICK pair \in j.moved : /\ vec' = [vec EXCEPT ![pair[2]] = vec[pair[1]], ![pair[1]] = None]
                                /\ job' = [job EXCEPT ![p] = [j EXCEPT !.moved = j.moved \ {pair}]]
    BY <1>2, <1>8 DEF MoveVector
  <2>2. PICK r : r = [j EXCEPT !.moved = j.moved \ {pair}]
    OBVIOUS
  <2>3. r.repaired = j.repaired /\ pair \in Notes \X Notes
    BY <1>2, <2>2 DEF Jobs
  <2>4. pc[p] = "vectors" /\ pc' = [pc EXCEPT ![p] = "vectors"] /\ ~j.repaired
    BY <1>3, <1>6, <1>8, <2>1 DEF MoveVector, At, ShapeOf
  <2>5. vec' \in Vectors
    BY <1>3, <2>1, <2>3 DEF Vectors
  <2>6. ShapeOf("vectors", r) /\ DriftLeft("vectors", r)'
    BY <2>3, <2>4 DEF ShapeOf, DriftLeft, Embedding
  <2> QED BY <1>5, <2>1, <2>2, <2>4, <2>5, <2>6
<1>9. CASE EndVectors(p)
  <2>1. pc[p] = "vectors" /\ j.removed = {} /\ j.moved = {} /\ UNCHANGED vec
    BY <1>2, <1>9 DEF EndVectors, At, tables
  <2>2. CASE Finish(p)
    BY <1>4, <2>1, <2>2
  <2>3. CASE ~Finish(p)
    <3>1. PICK r : r = [j EXCEPT !.todo = j.touched, !.touched = {}]
      OBVIOUS
    <3>2. /\ r.todo = j.touched /\ r.moved = j.moved /\ r.repaired = j.repaired /\ r.alone = j.alone
      BY <3>1 DEF Jobs
    <3>3. pc' = [pc EXCEPT ![p] = "embed"] /\ job' = [job EXCEPT ![p] = r]
      BY <1>2, <1>9, <2>3, <3>1 DEF EndVectors, Goto
    <3>4. ShapeOf("embed", r)
      BY <1>3, <2>1, <3>2 DEF ShapeOf
    <3>5. DriftLeft("embed", r)'
      BY <1>3, <2>1, <3>2 DEF DriftLeft, Orphans, Missing
    <3> QED BY <1>3, <1>5, <2>1, <3>3, <3>4, <3>5
  <2> QED BY <2>2, <2>3
<1>10. ASSUME NEW n \in Notes, ReadRow(p, n)
       PROVE  DriftInv'
  <2>1. pc[p] = "embed" /\ n \in j.todo /\ UNCHANGED vec
    BY <1>2, <1>10 DEF ReadRow, At, tables
  <2>2. CASE rows[n] = None
    <3>1. PICK r : r = [j EXCEPT !.todo = j.todo \ {n}]
      OBVIOUS
    <3>2. r.todo = j.todo \ {n} /\ r.moved = j.moved /\ r.repaired = j.repaired /\ r.alone = j.alone
      BY <3>1 DEF Jobs
    <3>3. pc' = [pc EXCEPT ![p] = "embed"] /\ job' = [job EXCEPT ![p] = r]
      BY <1>2, <1>6, <1>10, <2>1, <2>2, <3>1 DEF ReadRow
    <3>4. ShapeOf("embed", r)
      BY <1>3, <2>1, <3>2 DEF ShapeOf, Embedding
    <3>5. DriftLeft("embed", r)'
      BY <1>3, <2>1, <2>2, <3>2 DEF DriftLeft, Orphans, Missing
    <3> QED BY <1>3, <1>5, <2>1, <3>3, <3>4, <3>5
  <2>3. CASE rows[n] # None
    <3>1. PICK r : r = [j EXCEPT !.todo = j.todo \ {n}, !.note = n, !.text = rows[n].body]
      OBVIOUS
    <3>2. /\ r.todo = j.todo \ {n} /\ r.moved = j.moved /\ r.repaired = j.repaired /\ r.alone = j.alone
          /\ r.note = n /\ r.text = rows[n].body
      BY <3>1 DEF Jobs
    <3>3. pc' = [pc EXCEPT ![p] = "store"] /\ job' = [job EXCEPT ![p] = r]
      BY <1>2, <1>10, <2>3, <3>1 DEF ReadRow, Goto
    <3>4. rows[n].body \in Texts
      BY <2>3, RowsAreTyped DEF QuietInv
    <3>5. ShapeOf("store", r)
      BY <1>3, <2>1, <3>2, <3>4 DEF ShapeOf, Embedding
    <3>6. DriftLeft("store", r)'
      BY <1>3, <2>1, <2>3, <3>2 DEF DriftLeft, Orphans, Missing
    <3> QED BY <1>3, <1>5, <2>1, <3>3, <3>5, <3>6
  <2> QED BY <2>2, <2>3
<1>11. CASE StoreVector(p)
  <2>1. /\ pc[p] = "store" /\ pc' = [pc EXCEPT ![p] = "embed"] /\ job' = [job EXCEPT ![p] = j]
        /\ vec' = [vec EXCEPT ![j.note] = j.text]
    BY <1>2, <1>6, <1>11 DEF StoreVector, At, Goto
  <2>2. j.note \in Notes /\ j.text \in Texts /\ j.moved = {} /\ j.text # None
    BY <1>3, <2>1, VaultConstants DEF ShapeOf, Embedding
  <2>3. vec' \in Vectors /\ vec'[j.note] = j.text /\ \A m \in Notes \ {j.note} : vec'[m] = vec[m]
    BY <1>3, <2>1, <2>2 DEF Vectors
  <2>4. ShapeOf("embed", j)
    BY <1>3, <2>1, <2>2 DEF ShapeOf
  <2>5. DriftLeft("embed", j)'
    BY <1>3, <2>1, <2>2, <2>3 DEF DriftLeft, Orphans, Missing
  <2> QED BY <1>5, <2>1, <2>3, <2>4, <2>5
<1>12. CASE EndEmbed(p)
  <2>1. pc[p] = "embed" /\ UNCHANGED vec
    BY <1>12 DEF EndEmbed, At, tables
  <2>2. CASE Finish(p)
    BY <1>4, <2>1, <2>2
  <2>3. CASE ~Finish(p)
    <3>1. PICK r : r = [j EXCEPT !.locked = FALSE]
      OBVIOUS
    <3>2. r.moved = j.moved /\ r.repaired = j.repaired
      BY <3>1 DEF Jobs
    <3>3. pc' = [pc EXCEPT ![p] = "replock"] /\ job' = [job EXCEPT ![p] = r] /\ ~j.repaired
      BY <1>2, <1>12, <2>3, <3>1 DEF EndEmbed, Goto
    <3>4. ShapeOf("replock", r) /\ DriftLeft("replock", r)'
      BY <1>3, <2>1, <3>2, <3>3 DEF ShapeOf, DriftLeft, Embedding
    <3> QED BY <1>3, <1>5, <2>1, <3>3, <3>4
  <2> QED BY <2>2, <2>3
<1>13. CASE NoDelta(p)
  BY <1>4, <1>13 DEF NoDelta, tables
<1>14. CASE ListDrift(p)
  <2>1. PICK r : r = [j EXCEPT !.removed = Orphans, !.touched = Missing, !.repaired = TRUE]
    OBVIOUS
  <2>2. r.moved = j.moved /\ r.removed = Orphans /\ r.touched = Missing
    BY <2>1 DEF Jobs
  <2>3. /\ pc[p] = "lists" /\ pc' = [pc EXCEPT ![p] = "vectors"] /\ job' = [job EXCEPT ![p] = r]
        /\ UNCHANGED vec
    BY <1>2, <1>14, <2>1 DEF ListDrift, At, Goto, tables
  <2>4. ShapeOf("vectors", r)
    BY <1>3, <2>2, <2>3 DEF ShapeOf, Embedding
  <2>5. DriftLeft("vectors", r)'
    BY <1>3, <2>2, <2>3 DEF DriftLeft, Orphans, Missing
  <2> QED BY <1>3, <1>5, <2>3, <2>4, <2>5
<1> QED BY <1>7, <1>8, <1>9, <1>10, <1>11, <1>12, <1>13, <1>14 DEF VectorStep

LEMMA DriftInvStarts == Init => DriftInv
<1> SUFFICES ASSUME Init PROVE DriftInv
  OBVIOUS
<1>1. QuietInv
  BY QuietInvStarts
<1>2. vec \in Vectors
  <2>1. \A n \in Notes : rows[n] # None => rows[n].body \in Texts
    BY <1>1, RowsAreTyped DEF QuietInv
  <2>2. vec = [n \in Notes |-> IF rows[n] = None THEN None ELSE rows[n].body]
    BY DEF Init, InitWith
  <2> QED BY <2>1, <2>2 DEF Vectors
<1>3. \A p \in Procs : pc[p] = "idle" /\ ~job[p].repaired
  BY DEF Init, InitWith, NoJob
<1>4. crashes \in Nat
  BY DEF Init, InitWith
<1> QED BY <1>2, <1>3, <1>4 DEF DriftInv, ShapeOf, DriftLeft, Embedding

LEMMA DriftInvKept == QuietInv /\ DriftInv /\ [Next]_vars => DriftInv'
<1> SUFFICES ASSUME QuietInv, DriftInv, [Next]_vars PROVE DriftInv'
  OBVIOUS
<1>1. ASSUME NEW p \in Procs, SyncStep(p)
      PROVE  DriftInv'
  <2>1. CASE \E n \in Notes : Skip(p, n) \/ Ingest(p, n) \/ Reject(p, n) \/ SweepEdges(p, n)
    BY <2>1, NotesDrift
  <2>2. CASE \E n \in Notes : Unlink(p, n) \/ AddEdge(p, n)
    BY <2>2, NotesDrift
  <2>3. CASE TakeLock(p) \/ GiveUpLock(p) \/ Unlock(p)
    BY <2>3, LockDrifts
  <2>4. CASE \/ Purge(p) \/ Walk(p) \/ Snapshot(p) \/ Pair(p) \/ EndMoves(p) \/ EndIngest(p)
             \/ DropMovedEdges(p) \/ DeleteRow(p) \/ Recheck(p) \/ Mark(p)
    BY <2>4, ListingDrifts
  <2>5. CASE MoveRow(p) \/ Upsert(p) \/ EndSweep(p) \/ EndLinks(p)
    BY <2>5, StoringDrifts
  <2>6. CASE StartSync(p)
    BY <2>6, StartsDrift
  <2> QED BY <1>1, <2>1, <2>2, <2>3, <2>4, <2>5, <2>6 DEF SyncStep
<1>2. ASSUME NEW p \in Procs, WriteStep(p)
      PROVE  DriftInv'
  BY <1>2, StoringDrifts, WriteDrifts DEF WriteStep
<1>3. ASSUME NEW p \in Procs, Step(p) \/ Die(p) \/ Abort(p)
      PROVE  DriftInv'
  BY <1>1, <1>2, <1>3, VectorDrifts, WriteDrifts DEF Step
<1>4. CASE UNCHANGED vars
  BY <1>4 DEF vars, counts, DriftInv, ShapeOf, DriftLeft, Orphans, Missing
<1>5. CASE \/ \E p \in Servers, n \in Notes, t \in Texts \ Unparsable : Write(p, n, t)
           \/ \E n \in Notes, t \in Texts \cup {None} : Edit(n, t)
           \/ \E n, m \in Notes : Rename(n, m)
  BY <1>5, StartsDrift DEF Edit, Rename
<1> QED BY <1>3, <1>4, <1>5 DEF Next

(* The step that ends a server's run.                                        *)
LEMMA EndsWithoutDrift ==
  ASSUME QuietInv, DriftInv, [Next]_vars, NEW p \in Servers,
         pc[p] \in {"embed", "replock"}, pc'[p] = "idle", job[p].alone, crashes' = crashes
  PROVE  Missing \cup Orphans = {}
<1>1. pc \in [Procs -> Labels] /\ job \in [Procs -> Jobs] /\ p \in Procs /\ crashes \in Nat
  BY PlacesTyped DEF Procs, DriftInv
<1>2. \A q \in Procs \ {p} : pc[q] = "idle"
  BY <1>1 DEF QuietInv, AloneIsAlone
<1>3. pc' # pc
  OBVIOUS
<1>4. EndEmbed(p) \/ NoDelta(p)
  <2>1. ~Die(p) /\ ~Abort(p)
    BY <1>1 DEF Die, Abort
  <2>2. \A q \in Procs : ~StartSync(q) \/ pc'[p] # "idle"
    BY <1>1 DEF StartSync, At, Goto
  <2>3. ASSUME NEW q \in Servers, NEW n \in Notes, NEW t \in Texts \ Unparsable, Write(q, n, t)
        PROVE  FALSE
    BY <1>1, <2>3 DEF Write, At, Goto
  <2>4. \A d : ~Revise(d)
    BY <1>3 DEF Revise
  <2>5. ASSUME NEW q \in Procs \ {p}, Step(q) \/ Die(q) \/ Abort(q)
        PROVE  pc[q] # "idle" \/ StartSync(q)
    BY <2>5 DEF Step, SyncStep, VectorStep, WriteStep, Die, Abort, TakeLock, GiveUpLock, Behind, Recheck, Purge,
       Walk, Snapshot, Pair, MoveRow, DropMovedEdges, EndMoves, EndIngest, DeleteRow, EndSweep, Skip,
       Ingest, Reject, SweepEdges, Upsert, EndLinks, Mark, Unlock, Unlink, AddEdge, DropVector, ReadRow,
       MoveVector, EndVectors, StoreVector, EndEmbed, NoDelta, ListDrift, WriteFile, Resync, IndexWritten,
       Reresolve, At
  <2>6. Step(p)
    BY <1>2, <1>3, <2>1, <2>2, <2>3, <2>4, <2>5 DEF Next, Edit, Rename, vars
  <2>7. ASSUME SyncStep(p)
        PROVE  pc'[p] = "lists" \/ pc[p] \notin {"embed", "replock"}
    <3>1. CASE TakeLock(p) \/ GiveUpLock(p)
      <4>1. pc[p] \in {"lock", "veclock"} \/ (pc[p] = "replock" /\ Goto(p, "lists"))
        BY <3>1 DEF TakeLock, GiveUpLock, Behind
      <4> QED BY <1>1, <4>1 DEF Goto
    <3>2. CASE ~TakeLock(p) /\ ~GiveUpLock(p)
      BY <2>7, <3>2 DEF SyncStep, StartSync, Recheck, Purge,
         Walk, Snapshot, Pair, MoveRow, DropMovedEdges, EndMoves, EndIngest, DeleteRow, EndSweep, Skip,
         Ingest, Reject, SweepEdges, Upsert, EndLinks, Mark, Unlock, Unlink, AddEdge, At
    <3> QED BY <3>1, <3>2
  <2>8. ~WriteStep(p)
    BY DEF WriteStep, WriteFile, Resync, IndexWritten, Reresolve, At
  <2>9. VectorStep(p)
    BY <2>6, <2>7, <2>8 DEF Step
  <2>10. \A n \in Notes : ~DropVector(p, n) /\ ~ReadRow(p, n)
    BY <1>1 DEF DropVector, ReadRow, At, Goto
  <2>11. ~MoveVector(p) /\ ~EndVectors(p) /\ ~StoreVector(p) /\ ~ListDrift(p)
    BY DEF MoveVector, EndVectors, StoreVector, ListDrift, At
  <2> QED BY <2>9, <2>10, <2>11 DEF VectorStep
<1>5. CASE NoDelta(p)
  BY <1>5 DEF NoDelta
<1>6. CASE EndEmbed(p)
  <2>1. pc[p] = "embed" /\ job[p].todo = {}
    BY <1>6 DEF EndEmbed, At
  <2>2. job[p].repaired
    BY <1>1, <1>6 DEF EndEmbed, Goto
  <2> QED BY <1>1, <2>1, <2>2 DEF DriftInv, DriftLeft
<1> QED BY <1>4, <1>5, <1>6

(* A server's run that was alone ends with a vector for every row and for    *)
(* nothing else, whatever runs cut short, hooks and races had left: for any  *)
(* vault, any number of processes, edits, writes and faults.                 *)
THEOREM RepairsLeaveNoDrift == Spec => RepairLeavesNoDrift
<1>1. QuietInv /\ DriftInv /\ [Next]_vars
        => [\A p \in Servers :
              pc[p] \in {"embed", "replock"} /\ pc'[p] = "idle"
                 /\ job[p].alone /\ crashes' = crashes
              => Missing \cup Orphans = {}]_vars
  BY EndsWithoutDrift
<1> QED BY <1>1, QuietInvStarts, QuietInvKept, DriftInvStarts, DriftInvKept, PTL
        DEF Spec, RepairLeavesNoDrift

-----------------------------------------------------------------------------
(* Between two runs.  One server and nobody else: then each run leaves links *)
(* and vectors those of the rows, for what Pass 1 has stored waits in the    *)
(* queue until its links are made, and what has no vector of its own is      *)
(* among the notes touched, removed or moved.                                *)

MovedIn(j) == {pair[2] : pair \in j.moved}
MovedOut(j) == {pair[1] : pair \in j.moved}
Body(n) == IF rows[n] = None THEN None ELSE rows[n].body

Idling(j) ==
    j.links = {} /\ DOMAIN j.queue = {} /\ j.moved = {} /\ j.touched = {} /\ j.removed = {}

(* What a run has in hand, by where it stands.                               *)
HandOf(l, j) ==
    /\ l \in {"idle", "lock", "recheck", "purge", "walk", "snapshot", "pair", "write", "resync"} => Idling(j)
    /\ l \in {"move", "unlink"} =>
          j.links = {} /\ DOMAIN j.queue = {} /\ j.touched = {} /\ j.removed = {}
    /\ l \in {"ingest", "upsert", "sweep", "delete"} => j.links = {}
    /\ l \in {"ingest", "upsert"} => j.removed = {}
    /\ l \in {"lock", "recheck"} => ~j.force
    /\ l = "purge" => j.force
    /\ l \in Embedding => j.removed = {} /\ j.moved = {} /\ j.touched = {}
    /\ l \notin {"upsert", "link"} => (j.one <=> l \in {"write", "resync", "reresolve"})
    /\ j.one => writes # 0
    /\ l = "upsert" /\ j.one => Idling(j)
    /\ l \in {"link", "reresolve"} /\ j.one =>
          /\ j.moved = {} /\ j.removed = {} /\ j.touched = {j.note} /\ DOMAIN j.queue \subseteq {j.note}

(* How the locals of a run that syncs the vault stand to the rows.           *)
PassOf(l, j) ==
    /\ l \in {"pair", "move", "unlink"} => \A n \in Notes : InSnap(j, n)
    /\ l = "unlink" => rows[j.note] = None
    /\ l \in {"move", "unlink"} =>
          \A pair \in j.pairs : pair[2] \in DOMAIN j.pre /\ j.pre[pair[2]] = rows[pair[1]].body
    /\ l \in {"move", "unlink", "ingest", "upsert", "sweep", "delete"} =>
          \A pair \in j.moved : pair[1] \notin j.walk /\ pair[2] \in j.walk
    /\ l \in {"move", "unlink"} =>
          \A n \in MovedIn(j) : n \in DOMAIN j.pre /\ j.pre[n] = Body(n)
    /\ l \in {"ingest", "upsert"} /\ ~j.one =>
          /\ j.todo \subseteq j.walk /\ j.touched \subseteq j.walk
          /\ DOMAIN j.queue \subseteq j.walk \ j.todo
          /\ Indexed \subseteq j.walk \cup DOMAIN j.snap
          /\ DOMAIN j.snap \ j.walk \subseteq Indexed
          /\ \A n \in MovedIn(j) \cap j.todo : n \in DOMAIN j.pre /\ j.pre[n] = Body(n)
    /\ l = "upsert" /\ ~j.one =>
          j.note \in j.todo /\ (j.note \in MovedIn(j) => j.text = Body(j.note))
    /\ l \in {"sweep", "delete"} =>
          /\ j.todo \cap j.walk = {} /\ j.todo \subseteq Indexed
          /\ j.touched \subseteq j.walk /\ DOMAIN j.queue \subseteq j.walk
    /\ l = "delete" => j.note \in j.todo /\ From(j.note) = {}
    /\ l \in {"ingest", "upsert", "sweep", "delete", "link"} =>
          \A n \in DOMAIN j.queue : rows[n] # None /\ rows[n].body = j.queue[n]

(* The notes whose edges may not be those of their rows yet.                 *)
LinksLate(l, j) ==
    IF l \in {"walk", "snapshot", "pair", "move", "unlink"} /\ j.force THEN Notes
    ELSE IF l \in {"move", "unlink"} THEN MovedIn(j)
    ELSE IF l = "ingest" \/ (l = "upsert" /\ ~j.one)
         THEN DOMAIN j.queue \cup (IF j.force THEN j.todo \cup (DOMAIN j.snap \ j.walk)
                                   ELSE MovedIn(j) \cap j.todo)
    ELSE IF l \in {"sweep", "delete"} THEN DOMAIN j.queue \cup j.todo
    ELSE IF l = "link" THEN DOMAIN j.queue \cup (IF j.links = {} THEN {} ELSE {j.note})
    ELSE {}

LinkingOne(j) ==
    /\ j.note \in Indexed \ DOMAIN j.queue
    /\ Targets(j.note) \subseteq Links[rows[j.note].body]
    /\ Links[rows[j.note].body] \subseteq Targets(j.note) \cup j.links
    /\ j.links \subseteq Links[rows[j.note].body]

GraphOf(l, j) ==
    /\ \A e \in edges : e[1] \in Notes /\ (rows[e[1]] # None \/ (l = "unlink" /\ e[1] = j.note))
    /\ \A n \in Indexed \ LinksLate(l, j) : EdgesFollow(n)
    /\ l = "link" /\ j.links # {} => LinkingOne(j)

(* The notes whose vectors may not be those of their rows yet.               *)
Unindexed(l, j) ==
    IF l = "idle" THEN {}
    ELSE j.touched \cup j.removed \cup MovedIn(j) \cup MovedOut(j)
           \cup (IF l \in {"embed", "store"} THEN j.todo ELSE {})
           \cup (IF l = "store" THEN {j.note} ELSE {})

VectorsOf(l, j) ==
    /\ \A n \in Notes \ Unindexed(l, j) : vec[n] = Body(n)
    /\ \A n \in j.touched : rows[n] # None
    /\ \A n \in j.removed : rows[n] = None /\ n \notin MovedOut(j)
    /\ \A pair \in j.moved : /\ rows[pair[1]] = None /\ rows[pair[2]] # None
                             /\ vec[pair[1]] = Body(pair[2])
    /\ \A pair, other \in j.moved : pair # other => pair[1] # other[1] /\ pair[2] # other[2]
    /\ l \in {"embed", "store"} => \A n \in j.todo : rows[n] # None
    /\ l = "store" => rows[j.note] # None /\ j.text = rows[j.note].body
    /\ j.one /\ l = "resync" => disk[j.note] = j.new
    /\ j.one /\ l = "upsert" => j.text = j.new
    /\ j.one /\ l \in {"link", "reresolve"} => rows[j.note] # None /\ rows[j.note].body = j.new

RestInv ==
    \A p \in Procs :
        /\ HandOf(pc[p], job[p]) /\ PassOf(pc[p], job[p]) /\ GraphOf(pc[p], job[p])
        /\ edits = 0 \/ writes = 0 => VectorsOf(pc[p], job[p])

RestOf(l, j) ==
    /\ HandOf(l, j) /\ PassOf(l, j) /\ GraphOf(l, j)
    /\ edits = 0 \/ writes = 0 => VectorsOf(l, j)

(* Two runs that differ in the locals named at most.                         *)
Locals == {"force", "one", "walk", "snap", "pre", "pairs", "todo", "links", "queue", "broken",
           "touched", "removed", "moved", "note", "text", "new"}
But(r, j, changed) == \A f \in Locals \ changed : r[f] = j[f]

LEMMA ButFields ==
  ASSUME NEW r, NEW j, NEW C, But(r, j, C)
  PROVE  /\ "force" \notin C => r.force = j.force
         /\ "one" \notin C => r.one = j.one
         /\ "walk" \notin C => r.walk = j.walk
         /\ "snap" \notin C => r.snap = j.snap
         /\ "pre" \notin C => r.pre = j.pre
         /\ "pairs" \notin C => r.pairs = j.pairs
         /\ "todo" \notin C => r.todo = j.todo
         /\ "links" \notin C => r.links = j.links
         /\ "queue" \notin C => r.queue = j.queue
         /\ "broken" \notin C => r.broken = j.broken
         /\ "touched" \notin C => r.touched = j.touched
         /\ "removed" \notin C => r.removed = j.removed
         /\ "moved" \notin C => r.moved = j.moved
         /\ "note" \notin C => r.note = j.note
         /\ "text" \notin C => r.text = j.text
         /\ "new" \notin C => r.new = j.new
  BY DEF But, Locals

(* Steps that leave the tables as they are.                                  *)
LEMMA StartRests ==
  ASSUME NEW j, RestOf("idle", j), NEW r, NEW b \in BOOLEAN, r = [NoJob EXCEPT !.alone = b],
         NEW l \in {"lock", "walk"}
  PROVE  RestOf(l, r)
<1>1. /\ ~r.one /\ ~r.force /\ r.links = {} /\ DOMAIN r.queue = {} /\ r.moved = {} /\ r.touched = {}
      /\ r.removed = {}
  BY DEF NoJob
<1>2. HandOf(l, r) /\ PassOf(l, r)
  BY <1>1 DEF HandOf, PassOf, Idling, Embedding
<1>3. GraphOf(l, r)
  BY <1>1 DEF RestOf, GraphOf, LinksLate
<1>4. edits = 0 \/ writes = 0 => VectorsOf(l, r)
  BY <1>1 DEF RestOf, VectorsOf, Unindexed, MovedIn, MovedOut
<1> QED BY <1>2, <1>3, <1>4 DEF RestOf

LEMMA LockRests ==
  ASSUME NEW j, NEW r, NEW l, NEW m, But(r, j, {}), RestOf(l, j),
         \/ l = "lock" /\ m = "recheck"
         \/ l = "recheck" /\ m = "walk"
         \/ l = "mark" /\ m = "unlock"
         \/ l = "unlock" /\ m \in {"veclock", "vectors"}
         \/ l = "veclock" /\ m = "vectors"
         \/ l = "replock" /\ m = "lists"
         \/ l = "embed" /\ m = "replock" /\ j.todo = {}
  PROVE  RestOf(m, r)
<1>1. HandOf(m, r) /\ PassOf(m, r)
  BY ButFields DEF RestOf, HandOf, PassOf, Idling, Embedding
<1>2. GraphOf(m, r)
  BY ButFields DEF RestOf, HandOf, GraphOf, LinksLate
<1>3. edits = 0 \/ writes = 0 => VectorsOf(m, r)
  BY ButFields DEF RestOf, VectorsOf, Unindexed, MovedIn, MovedOut
<1> QED BY <1>1, <1>2, <1>3 DEF RestOf

LEMMA ForceRests ==
  ASSUME NEW j, NEW r, But(r, j, {"force"}), RestOf("recheck", j)
  PROVE  r.force => RestOf("purge", r)
<1>1. r.force => HandOf("purge", r) /\ PassOf("purge", r)
  BY ButFields DEF RestOf, HandOf, PassOf, Idling, Embedding
<1>2. GraphOf("purge", r)
  BY ButFields DEF RestOf, GraphOf, LinksLate
<1>3. edits = 0 \/ writes = 0 => VectorsOf("purge", r)
  BY ButFields DEF RestOf, VectorsOf, Unindexed, MovedIn, MovedOut
<1> QED BY <1>1, <1>2, <1>3 DEF RestOf

LEMMA WalkRests ==
  ASSUME NEW j, NEW r, But(r, j, {"walk"}), RestOf("walk", j)
  PROVE  RestOf("snapshot", r)
<1>1. HandOf("snapshot", r) /\ PassOf("snapshot", r)
  BY ButFields DEF RestOf, HandOf, PassOf, Idling, Embedding
<1>2. GraphOf("snapshot", r)
  BY ButFields DEF RestOf, GraphOf, LinksLate
<1>3. edits = 0 \/ writes = 0 => VectorsOf("snapshot", r)
  BY ButFields DEF RestOf, VectorsOf, Unindexed, MovedIn, MovedOut
<1> QED BY <1>1, <1>2, <1>3 DEF RestOf

LEMMA SnapshotRests ==
  ASSUME NEW j, NEW r, But(r, j, {"snap"}), RestOf("snapshot", j),
         r.snap = [n \in Indexed |-> rows[n].hash]
  PROVE  RestOf("pair", r)
<1>1. HandOf("pair", r)
  BY ButFields DEF RestOf, HandOf, Idling, Embedding
<1>2. PassOf("pair", r)
  BY DEF PassOf, InSnap, Indexed
<1>3. GraphOf("pair", r)
  BY ButFields DEF RestOf, GraphOf, LinksLate
<1>4. edits = 0 \/ writes = 0 => VectorsOf("pair", r)
  BY ButFields DEF RestOf, VectorsOf, Unindexed, MovedIn, MovedOut
<1> QED BY <1>1, <1>2, <1>3, <1>4 DEF RestOf

LEMMA PairRests ==
  ASSUME QuietInv, NEW p \in Procs, NEW r, But(r, job[p], {"pre", "pairs"}), RestOf("pair", job[p]),
         r.pre = Newcomers(p), r.pairs = Pairs(Gone(p), job[p].snap, r.pre)
  PROVE  RestOf("move", r)
<1>1. HandOf("move", r)
  BY ButFields DEF RestOf, HandOf, Idling, Embedding
<1>2. r.moved = {} /\ r.snap = job[p].snap /\ \A n \in Notes : InSnap(r, n)
  BY ButFields DEF RestOf, HandOf, Idling, PassOf, InSnap
<1>3. ASSUME NEW pair \in r.pairs
      PROVE  pair[2] \in DOMAIN r.pre /\ r.pre[pair[2]] = rows[pair[1]].body
  <2>1. pair \in Gone(p) \X DOMAIN r.pre /\ job[p].snap[pair[1]] = r.pre[pair[2]]
    BY <1>3 DEF Pairs
  <2>2. job[p] \in Jobs
    BY NowTyped
  <2>3. /\ pair[1] \in DOMAIN job[p].snap /\ job[p].snap[pair[1]] # None /\ rows[pair[1]] # None
        /\ pair[1] \in Notes
    BY <2>1, <2>2, PartialDomain DEF Gone, Jobs
  <2>4. job[p].snap[pair[1]] = rows[pair[1]].hash
    BY <1>2, <2>3 DEF InSnap
  <2> QED BY <2>1, <2>3, <2>4 DEF QuietInv, Vouches
<1>4. PassOf("move", r)
  BY <1>2, <1>3 DEF PassOf, MovedIn
<1>5. GraphOf("move", r)
  BY ButFields DEF RestOf, GraphOf, LinksLate, HandOf, Idling, MovedIn
<1>6. edits = 0 \/ writes = 0 => VectorsOf("move", r)
  BY ButFields DEF RestOf, VectorsOf, Unindexed, MovedIn, MovedOut
<1> QED BY <1>1, <1>4, <1>5, <1>6 DEF RestOf

LEMMA EndMovesRests ==
  ASSUME QuietInv, NEW p \in Procs, NEW j, j = job[p], NEW r, But(r, j, {"todo"}), r.todo = j.walk,
         RestOf("move", j)
  PROVE  RestOf("ingest", r)
<1>0. j \in Jobs
  BY NowTyped
<1>1. HandOf("ingest", r)
  BY ButFields DEF RestOf, HandOf, Idling, Embedding
<1>2. PassOf("ingest", r)
  <2>1. /\ MovedIn(r) = MovedIn(j) /\ r.moved = j.moved /\ r.pre = j.pre /\ r.snap = j.snap
        /\ r.walk = j.walk /\ r.touched = {} /\ DOMAIN r.queue = {} /\ ~r.one
    BY ButFields DEF RestOf, HandOf, MovedIn
  <2>2. Indexed \subseteq DOMAIN j.snap /\ DOMAIN j.snap \subseteq Indexed
    <3>1. DOMAIN j.snap \subseteq Notes
      BY <1>0, PartialDomain DEF Jobs
    <3> QED BY <3>1 DEF RestOf, PassOf, InSnap, Indexed
  <2> QED BY <2>1, <2>2 DEF RestOf, PassOf
<1>3. GraphOf("ingest", r)
  BY ButFields DEF RestOf, GraphOf, LinksLate, HandOf, Indexed, PassOf, InSnap, MovedIn
<1>4. edits = 0 \/ writes = 0 => VectorsOf("ingest", r)
  BY ButFields DEF RestOf, VectorsOf, Unindexed, MovedIn, MovedOut
<1> QED BY <1>1, <1>2, <1>3, <1>4 DEF RestOf

LEMMA SkipRests ==
  ASSUME NEW j, NEW r, NEW n \in j.todo, But(r, j, {"todo"}), r.todo = j.todo \ {n},
         RestOf("ingest", j), ~j.force, n \notin MovedIn(j)
  PROVE  RestOf("ingest", r)
<1>1. HandOf("ingest", r)
  BY ButFields DEF RestOf, HandOf, Idling, Embedding
<1>2. PassOf("ingest", r)
  <2>1. ~j.one /\ MovedIn(r) = MovedIn(j)
    BY ButFields DEF RestOf, HandOf, MovedIn
  <2> QED BY <2>1, ButFields DEF RestOf, PassOf, Embedding
<1>3. GraphOf("ingest", r)
  BY ButFields DEF RestOf, GraphOf, LinksLate, MovedIn
<1>4. edits = 0 \/ writes = 0 => VectorsOf("ingest", r)
  BY ButFields DEF RestOf, VectorsOf, Unindexed, MovedIn, MovedOut
<1> QED BY <1>1, <1>2, <1>3, <1>4 DEF RestOf

LEMMA IngestRests ==
  ASSUME NEW p \in Procs, NEW j, j = job[p], NEW r, NEW n \in j.todo, But(r, j, {"note", "text"}),
         r.note = n, r.text = Content(p, n), RestOf("ingest", j)
  PROVE  RestOf("upsert", r)
<1>1. HandOf("upsert", r)
  BY ButFields DEF RestOf, HandOf, Idling, Embedding
<1>2. PassOf("upsert", r)
  <2>1. ~j.one /\ MovedIn(r) = MovedIn(j)
    BY ButFields DEF RestOf, HandOf, MovedIn
  <2> QED BY <2>1, ButFields DEF RestOf, PassOf, Embedding, Content
<1>3. GraphOf("upsert", r)
  BY <1>1, ButFields DEF RestOf, HandOf, GraphOf, LinksLate, MovedIn
<1>4. edits = 0 \/ writes = 0 => VectorsOf("upsert", r)
  <2>1. ~j.one
    BY DEF RestOf, HandOf
  <2> QED BY <2>1, ButFields DEF RestOf, VectorsOf, Unindexed, MovedIn, MovedOut
<1> QED BY <1>1, <1>2, <1>3, <1>4 DEF RestOf

LEMMA EndIngestRests ==
  ASSUME NEW j, NEW r, But(r, j, {"todo"}), j.todo = {}, r.todo = DOMAIN j.snap \ j.walk,
         RestOf("ingest", j)
  PROVE  RestOf("sweep", r)
<1>0. ~j.one /\ MovedIn(r) = MovedIn(j)
  BY ButFields DEF RestOf, HandOf, MovedIn
<1>1. HandOf("sweep", r)
  BY ButFields DEF RestOf, HandOf, Idling, Embedding
<1>2. PassOf("sweep", r)
  BY <1>0, ButFields DEF RestOf, PassOf, Embedding
<1>3. GraphOf("sweep", r)
  BY <1>0, ButFields DEF RestOf, GraphOf, LinksLate
<1>4. edits = 0 \/ writes = 0 => VectorsOf("sweep", r)
  BY ButFields DEF RestOf, VectorsOf, Unindexed, MovedIn, MovedOut
<1> QED BY <1>1, <1>2, <1>3, <1>4 DEF RestOf

LEMMA EndSweepRests ==
  ASSUME NEW j, NEW r, But(r, j, {"walk", "snap", "pre", "note", "text"}), j.todo = {},
         RestOf("sweep", j)
  PROVE  RestOf("link", r)
<1>0. ~j.one /\ MovedIn(r) = MovedIn(j) /\ r.links = {} /\ r.queue = j.queue
  BY ButFields DEF RestOf, HandOf, MovedIn
<1>1. HandOf("link", r)
  BY <1>0, ButFields DEF RestOf, HandOf, Idling, Embedding
<1>2. PassOf("link", r)
  BY <1>0 DEF RestOf, PassOf, Embedding
<1>3. GraphOf("link", r)
  BY <1>0 DEF RestOf, GraphOf, LinksLate
<1>4. edits = 0 \/ writes = 0 => VectorsOf("link", r)
  BY <1>0, ButFields DEF RestOf, VectorsOf, Unindexed, MovedIn, MovedOut
<1> QED BY <1>1, <1>2, <1>3, <1>4 DEF RestOf

LEMMA EndLinksRests ==
  ASSUME NEW j, NEW r, NEW l, But(r, j, {"broken"}), j.links = {}, DOMAIN j.queue = {},
         IF j.one THEN l = "reresolve" ELSE l \in {"mark", "veclock", "vectors"}, RestOf("link", j)
  PROVE  RestOf(l, r)
<1>1. HandOf(l, r)
  BY ButFields DEF RestOf, HandOf, Idling, Embedding
<1>2. PassOf(l, r)
  BY DEF PassOf
<1>3. GraphOf(l, r)
  BY ButFields DEF RestOf, GraphOf, LinksLate
<1>4. edits = 0 \/ writes = 0 => VectorsOf(l, r)
  BY ButFields DEF RestOf, VectorsOf, Unindexed, MovedIn, MovedOut
<1> QED BY <1>1, <1>2, <1>3, <1>4 DEF RestOf

LEMMA EndVectorsRests ==
  ASSUME NEW j, NEW r, But(r, j, {"todo", "touched"}), j.removed = {}, j.moved = {},
         r.todo = j.touched, r.touched = {}, RestOf("vectors", j)
  PROVE  RestOf("embed", r)
<1>1. HandOf("embed", r) /\ ~r.one
  BY ButFields DEF RestOf, HandOf, Idling, Embedding
<1>2. PassOf("embed", r)
  BY DEF PassOf
<1>3. GraphOf("embed", r)
  BY ButFields DEF RestOf, GraphOf, LinksLate
<1>4. edits = 0 \/ writes = 0 => VectorsOf("embed", r)
  BY <1>1, ButFields DEF RestOf, VectorsOf, Unindexed, MovedIn, MovedOut
<1> QED BY <1>1, <1>2, <1>3, <1>4 DEF RestOf

LEMMA ReadRowRests ==
  ASSUME NEW j, NEW r, NEW l, NEW n \in j.todo, r.todo = j.todo \ {n}, RestOf("embed", j),
         \/ l = "embed" /\ But(r, j, {"todo"}) /\ rows[n] = None
         \/ /\ l = "store" /\ But(r, j, {"todo", "note", "text"})
            /\ rows[n] # None /\ r.note = n /\ r.text = rows[n].body
  PROVE  RestOf(l, r)
<1>1. HandOf(l, r) /\ ~r.one
  BY ButFields DEF RestOf, HandOf, Idling, Embedding
<1>2. PassOf(l, r)
  BY DEF PassOf
<1>3. GraphOf(l, r)
  BY ButFields DEF RestOf, GraphOf, LinksLate
<1>4. edits = 0 \/ writes = 0 => VectorsOf(l, r)
  BY <1>1, ButFields DEF RestOf, VectorsOf, Unindexed, MovedIn, MovedOut
<1> QED BY <1>1, <1>2, <1>3, <1>4 DEF RestOf

(* A run that has nothing left to link or to embed may end.                  *)
LEMMA FinishRests ==
  ASSUME NEW l, NEW j, RestOf(l, j), l # "unlink", LinksLate(l, j) = {}, Unindexed(l, j) = {}
  PROVE  RestOf("idle", NoJob)
<1>1. /\ ~NoJob.one /\ NoJob.links = {} /\ DOMAIN NoJob.queue = {} /\ NoJob.moved = {}
      /\ NoJob.touched = {} /\ NoJob.removed = {}
  BY DEF NoJob
<1>2. HandOf("idle", NoJob) /\ PassOf("idle", NoJob)
  BY <1>1 DEF HandOf, PassOf, Idling, Embedding
<1>3. GraphOf("idle", NoJob)
  BY DEF RestOf, GraphOf, LinksLate
<1>4. edits = 0 \/ writes = 0 => VectorsOf("idle", NoJob)
  BY <1>1 DEF RestOf, VectorsOf, Unindexed
<1> QED BY <1>2, <1>3, <1>4 DEF RestOf

LEMMA ListDriftRests ==
  ASSUME NEW j, NEW r, But(r, j, {"removed", "touched"}), r.removed = Orphans, r.touched = Missing,
         RestOf("lists", j)
  PROVE  RestOf("vectors", r)
<1>1. HandOf("vectors", r) /\ ~r.one /\ r.moved = {}
  BY ButFields DEF RestOf, HandOf, Idling, Embedding
<1>2. PassOf("vectors", r)
  BY DEF PassOf
<1>3. GraphOf("vectors", r)
  BY ButFields DEF RestOf, GraphOf, LinksLate
<1>4. edits = 0 \/ writes = 0 => VectorsOf("vectors", r)
  BY <1>1, ButFields DEF RestOf, HandOf, Embedding, VectorsOf, Unindexed, MovedIn, MovedOut, Orphans, Missing
<1> QED BY <1>1, <1>2, <1>3, <1>4 DEF RestOf

LEMMA ResyncRests ==
  ASSUME NEW j, NEW r, But(r, j, {"text"}), r.text = disk[j.note], RestOf("resync", j)
  PROVE  RestOf("upsert", r)
<1>1. HandOf("upsert", r) /\ r.one /\ Idling(r) /\ Idling(j)
  BY ButFields DEF RestOf, HandOf, Idling, Embedding
<1>2. PassOf("upsert", r)
  BY <1>1 DEF PassOf, Idling
<1>3. GraphOf("upsert", r)
  BY <1>1, ButFields DEF RestOf, GraphOf, LinksLate
<1>4. edits = 0 \/ writes = 0 => VectorsOf("upsert", r)
  BY <1>1, ButFields DEF RestOf, VectorsOf, Unindexed, MovedIn, MovedOut, Idling
<1> QED BY <1>1, <1>2, <1>3, <1>4 DEF RestOf

(* The steps of one process of which there is no other.                      *)
LEMMA RestStep ==
  ASSUME QuietInv, NEW p \in Procs, Procs = {p}, NEW l, NEW r,
         pc' = [pc EXCEPT ![p] = l], job' = [job EXCEPT ![p] = r], RestOf(l, r)'
  PROVE  RestInv'
<1>1. pc'[p] = l /\ job'[p] = r
  BY PlacesTyped
<1>2. RestOf(pc[p], job[p])'
  BY <1>1 DEF RestOf, HandOf, PassOf, GraphOf, VectorsOf, LinksLate, LinkingOne, Unindexed
<1> QED BY <1>2 DEF RestInv, RestOf

LEMMA TablesStay ==
  ASSUME UNCHANGED <<rows, edges, vec, disk, edits, writes>>, NEW l, NEW r, RestOf(l, r)
  PROVE  RestOf(l, r)'
<1>1. HandOf(l, r)' /\ PassOf(l, r)'
  BY DEF RestOf, HandOf, PassOf, Idling, InSnap, MovedIn, Body, From, Indexed
<1>2. GraphOf(l, r)'
  BY DEF RestOf, GraphOf, LinksLate, LinkingOne, MovedIn, EdgesFollow, Targets, From, Indexed
<1>3. (edits = 0 \/ writes = 0 => VectorsOf(l, r))'
  BY DEF RestOf, VectorsOf, Unindexed, MovedIn, MovedOut, Body
<1> QED BY <1>1, <1>2, <1>3 DEF RestOf

LEMMA RestNow ==
  ASSUME RestInv, NEW p \in Procs
  PROVE  RestOf(pc[p], job[p])
  BY DEF RestInv, RestOf

(* Pass 0 and the steps of Pass 1 that change rows.                          *)
LEMMA PurgeRests ==
  ASSUME NEW p \in Procs, NEW j, j = job[p], Purge(p), RestOf("purge", j)
  PROVE  RestOf("walk", j)'
<1>1. UNCHANGED <<rows, vec, disk, edits, writes>> /\ edges' = {} /\ j' = j
  BY DEF Purge, world, counts
<1>2. HandOf("walk", j)' /\ PassOf("walk", j)'
  BY <1>1 DEF RestOf, HandOf, PassOf, Idling, Embedding
<1>3. j.force
  BY DEF RestOf, HandOf
<1>4. GraphOf("walk", j)'
  BY <1>1, <1>3 DEF GraphOf, LinksLate, Indexed
<1>5. (edits = 0 \/ writes = 0 => VectorsOf("walk", j))'
  BY <1>1 DEF RestOf, VectorsOf, Unindexed, MovedIn, MovedOut, Body
<1> QED BY <1>2, <1>4, <1>5 DEF RestOf

LEMMA MoveRowRests ==
  ASSUME QuietInv, NEW p \in Procs, NEW j \in Jobs, j = job[p], NEW a \in Notes, NEW b \in Notes,
         <<a, b>> \in j.pairs, PairsApart(j), NEW r,
         But(r, j, {"pairs", "moved", "note", "snap"}),
         r.pairs = j.pairs \ {<<a, b>>}, r.moved = j.moved \cup {<<a, b>>}, r.note = a,
         r.snap = Put(Drop(j.snap, a), b, j.snap[a]),
         rows' = [rows EXCEPT ![b] = rows[a], ![a] = None],
         UNCHANGED <<edges, vec, disk, edits, writes>>,
         RestOf("move", j)
  PROVE  RestOf("unlink", r)'
<1>0. /\ r.force = j.force /\ r.one = j.one /\ r.walk = j.walk /\ r.pre = j.pre
      /\ r.links = j.links /\ r.queue = j.queue /\ r.touched = j.touched /\ r.removed = j.removed
  BY ButFields
<1>1. HandOf("unlink", r)'
  BY <1>0 DEF RestOf, HandOf, Idling, Embedding
<1>2. /\ a \in DOMAIN j.snap /\ a \notin j.walk /\ b \in j.walk /\ b \notin DOMAIN j.snap
      /\ \A n \in Notes : InSnap(j, n)
      /\ rows[a] # None /\ rows[b] = None /\ a # b
  <2>1. \A n \in Notes : InSnap(j, n)
    BY DEF RestOf, PassOf
  <2>2. a \in DOMAIN j.snap \ j.walk /\ b \in j.walk \ DOMAIN j.snap
    BY DEF PairsApart
  <2> QED BY <2>1, <2>2 DEF InSnap
<1>3. /\ rows'[b] = rows[a] /\ rows'[a] = None
      /\ \A n \in Notes \ {a, b} : rows'[n] = rows[n]
  BY <1>2, NowTyped
<1>4. \A n \in Notes : InSnap(r, n)'
  <2>1. /\ DOMAIN r.snap = (DOMAIN j.snap \ {a}) \cup {b} /\ r.snap[b] = j.snap[a]
        /\ \A n \in DOMAIN j.snap \ {a} : r.snap[n] = j.snap[n]
    BY <1>2 DEF Put, Drop
  <2>2. InSnap(r, a)'
    <3>1. a \notin DOMAIN r.snap /\ rows'[a] = None
      BY <1>2, <1>3, <2>1
    <3> QED BY <3>1 DEF InSnap
  <2>2b. InSnap(r, b)'
    <3>1. InSnap(j, a)
      BY <1>2
    <3>2. b \in DOMAIN r.snap /\ rows'[b] # None /\ r.snap[b] = rows'[b].hash
      BY <1>2, <1>3, <2>1, <3>1 DEF InSnap
    <3> QED BY <3>2 DEF InSnap
  <2>3. ASSUME NEW n \in Notes \ {a, b} PROVE InSnap(r, n)'
    <3>1. InSnap(j, n) /\ rows'[n] = rows[n]
      BY <1>2, <1>3
    <3>2. /\ n \in DOMAIN r.snap <=> n \in DOMAIN j.snap
          /\ n \in DOMAIN j.snap => r.snap[n] = j.snap[n]
      BY <2>1
    <3> QED BY <3>1, <3>2 DEF InSnap
  <2> QED BY <2>2, <2>2b, <2>3
<1>5. MovedIn(r) = MovedIn(j) \cup {b} /\ MovedOut(r) = MovedOut(j) \cup {a}
  BY DEF MovedIn, MovedOut
<1>6. \A n \in MovedIn(j) : n \in j.walk
  BY DEF RestOf, PassOf, MovedIn
<1>7. PassOf("unlink", r)'
  <2>1. \A pair \in r.pairs : pair[1] # a /\ pair[1] # b /\ pair[1] \in Notes
    BY <1>2 DEF PairsApart, Jobs
  <2>2. ASSUME NEW pair \in r.pairs
        PROVE  pair[2] \in DOMAIN r.pre /\ r.pre[pair[2]] = rows'[pair[1]].body
    <3>1. pair \in j.pairs /\ rows'[pair[1]] = rows[pair[1]]
      BY <1>3, <2>1
    <3> QED BY <1>0, <3>1 DEF RestOf, PassOf
  <2>3. \A pair \in r.moved : pair[1] \notin r.walk /\ pair[2] \in r.walk
    BY <1>2, ButFields DEF RestOf, PassOf
  <2>4. \A n \in MovedIn(r) : n \in DOMAIN r.pre /\ r.pre[n] = Body(n)'
    <3>1. b \in DOMAIN r.pre /\ r.pre[b] = Body(b)'
      BY <1>2, <1>3, ButFields DEF RestOf, PassOf, Body
    <3>2. ASSUME NEW n \in MovedIn(j), n # b
          PROVE  n \in DOMAIN r.pre /\ r.pre[n] = Body(n)'
      <4>1. n \in Notes /\ n # a
        BY <1>2, <1>6 DEF MovedIn, Jobs
      <4>2. n \in DOMAIN j.pre /\ j.pre[n] = Body(n)
        BY DEF RestOf, PassOf
      <4>3. rows'[n] = rows[n]
        BY <1>3, <3>2, <4>1
      <4> QED BY <1>0, <4>2, <4>3 DEF Body
    <3> QED BY <1>5, <3>1, <3>2
  <2> QED BY <1>3, <1>4, <2>2, <2>3, <2>4 DEF PassOf, MovedIn
<1>8. GraphOf("unlink", r)'
  <2>1. \A e \in edges : e[1] \in Notes /\ rows[e[1]] # None
    BY DEF RestOf, GraphOf
  <2>2. \A e \in edges' : e[1] \in Notes /\ (rows'[e[1]] # None \/ e[1] = r.note)
    BY <1>2, <1>3, <2>1
  <2>3. ASSUME NEW n \in Indexed' \ LinksLate("unlink", r) PROVE EdgesFollow(n)'
    <3>1. n \in Notes \ {a, b} /\ n \in Indexed \ LinksLate("move", j)
      <4>1. n \notin {a, b} \/ r.force
        BY <1>2, <1>3, <1>5 DEF LinksLate, Indexed
      <4>2. n \in Notes /\ ~r.force /\ n \notin MovedIn(j)
        BY <1>5 DEF LinksLate, Indexed
      <4> QED BY <1>0, <1>3, <4>1, <4>2 DEF LinksLate, Indexed
    <3> QED BY <1>3, <3>1 DEF RestOf, GraphOf, EdgesFollow, Targets, From
  <2>4. LinksLate("unlink", r)' = LinksLate("unlink", r)
    BY DEF LinksLate, MovedIn
  <2> QED BY <2>2, <2>3, <2>4 DEF GraphOf
<1>9. (edits = 0 \/ writes = 0)' => VectorsOf("unlink", r)'
  <2> SUFFICES ASSUME edits = 0 \/ writes = 0 PROVE VectorsOf("unlink", r)'
    OBVIOUS
  <2>0. VectorsOf("move", j)
    BY DEF RestOf
  <2>1. j.touched = {} /\ j.removed = {} /\ r.touched = {} /\ r.removed = {}
    BY <1>0 DEF RestOf, HandOf
  <2>2. vec[a] = Body(a)
    BY <1>2, <1>6, <2>0, <2>1 DEF VectorsOf, Unindexed, MovedOut
  <2>3. \A n \in Notes \ Unindexed("unlink", r) : vec'[n] = Body(n)'
    <3>1. Unindexed("unlink", r) = Unindexed("move", j) \cup {a, b}
      BY <1>5, <2>1 DEF Unindexed
    <3>2. ASSUME NEW n \in Notes \ Unindexed("unlink", r) PROVE vec'[n] = Body(n)'
      <4>1. n \in Notes \ Unindexed("move", j) /\ rows'[n] = rows[n]
        BY <1>3, <3>1
      <4> QED BY <2>0, <4>1 DEF VectorsOf, Body
    <3> QED BY <3>2
  <2>4. ASSUME NEW pair \in r.moved
        PROVE  rows'[pair[1]] = None /\ rows'[pair[2]] # None /\ vec'[pair[1]] = Body(pair[2])'
    <3>1. CASE pair = <<a, b>>
      BY <1>2, <1>3, <2>2, <3>1 DEF Body
    <3>2. CASE pair \in j.moved
      <4>1. /\ rows[pair[1]] = None /\ rows[pair[2]] # None /\ vec[pair[1]] = Body(pair[2])
            /\ pair[1] \in Notes /\ pair[2] \in Notes /\ pair[1] \notin j.walk /\ pair[2] \in j.walk
        BY <2>0, <3>2 DEF VectorsOf, RestOf, PassOf, Jobs
      <4> QED BY <1>2, <1>3, <4>1 DEF Body
    <3> QED BY <3>1, <3>2
  <2>5. \A pair, other \in r.moved : pair # other => pair[1] # other[1] /\ pair[2] # other[2]
    BY <1>2, <2>0 DEF VectorsOf
  <2> QED BY <1>3, <2>1, <2>3, <2>4, <2>5 DEF VectorsOf, Unindexed, MovedIn, MovedOut
<1> QED BY <1>1, <1>7, <1>8, <1>9 DEF RestOf

LEMMA DropMovedEdgesRests ==
  ASSUME QuietInv, NEW p \in Procs, NEW j \in Jobs, j = job[p],
         edges' = edges \ From(j.note), UNCHANGED <<rows, vec, disk, edits, writes>>,
         RestOf("unlink", j)
  PROVE  RestOf("move", j)'
<1>1. HandOf("move", j)'
  BY DEF RestOf, HandOf, Idling, Embedding
<1>2. PassOf("move", j)'
  BY DEF RestOf, PassOf, InSnap, MovedIn, Body
<1>3. \A e \in edges' : e[1] \in Notes /\ rows'[e[1]] # None
  BY DEF RestOf, GraphOf, From
<1>4. rows[j.note] = None
  BY DEF RestOf, PassOf
<1>5. ASSUME NEW n \in Indexed' \ LinksLate("move", j) PROVE EdgesFollow(n)'
  <2>1. n # j.note /\ n \in Indexed \ LinksLate("unlink", j)
    BY <1>4 DEF Indexed, LinksLate
  <2>2. From(n)' = From(n)
    BY <2>1 DEF From
  <2> QED BY <2>1, <2>2 DEF RestOf, GraphOf, EdgesFollow, Targets
<1>6. GraphOf("move", j)'
  BY <1>3, <1>5 DEF GraphOf, LinksLate, MovedIn
<1>7. (edits = 0 \/ writes = 0)' => VectorsOf("move", j)'
  BY DEF RestOf, VectorsOf, Unindexed, MovedIn, MovedOut, Body
<1> QED BY <1>1, <1>2, <1>6, <1>7 DEF RestOf

LEMMA RejectRests ==
  ASSUME QuietInv, NEW j \in Jobs, NEW r, NEW n \in j.todo, But(r, j, {"todo"}), r.todo = j.todo \ {n},
         rows' = IF rows[n] = None THEN rows ELSE [rows EXCEPT ![n].hash = None],
         UNCHANGED <<edges, vec, disk, edits, writes>>,
         RestOf("ingest", j)
  PROVE  RestOf("ingest", r)'
<1>0. /\ r.force = j.force /\ r.one = j.one /\ r.walk = j.walk /\ r.pre = j.pre /\ r.snap = j.snap
      /\ r.links = j.links /\ r.queue = j.queue /\ r.touched = j.touched /\ r.removed = j.removed
      /\ r.moved = j.moved /\ ~j.one
  BY ButFields DEF RestOf, HandOf
<1>1. /\ \A m \in Notes : rows'[m] = None <=> rows[m] = None
      /\ \A m \in Notes : rows[m] # None => rows'[m].body = rows[m].body
      /\ \A m \in Notes \ {n} : rows'[m] = rows[m]
      /\ rows[n] # None => rows'[n].hash = None
  <2>1. n \in Notes
    BY DEF Jobs
  <2>2. CASE rows[n] = None
    BY <2>2
  <2>3. CASE rows[n] # None
    <3>1. rows[n] \in Rows /\ rows \in [Notes -> Rows \cup {None}]
      BY <2>1, <2>3 DEF QuietInv, TablesTyped
    <3>2. PICK row : row = [rows[n] EXCEPT !.hash = None]
      OBVIOUS
    <3>3. row \in Rows /\ row.hash = None /\ row.body = rows[n].body
      BY <3>1, <3>2 DEF Rows
    <3>4. rows'[n] = row /\ \A m \in Notes \ {n} : rows'[m] = rows[m]
      BY <2>1, <2>3, <3>1, <3>2
    <3> QED BY <2>3, <3>3, <3>4, NamesApart
  <2> QED BY <2>2, <2>3
<1>2. Indexed' = Indexed /\ \A m \in Notes : Body(m)' = Body(m)
  BY <1>1 DEF Indexed, Body
<1>3. HandOf("ingest", r)'
  BY <1>0 DEF RestOf, HandOf, Idling, Embedding
<1>4. PassOf("ingest", r)'
  <2>1. \A m \in DOMAIN r.queue : m \in Notes /\ rows'[m] # None /\ rows'[m].body = r.queue[m]
    <3>1. DOMAIN j.queue \subseteq Notes
      BY PartialDomain DEF Jobs
    <3> QED BY <1>0, <1>1, <3>1 DEF RestOf, PassOf
  <2>2. MovedIn(r) = MovedIn(j) /\ \A m \in MovedIn(j) : m \in Notes
    BY <1>0 DEF MovedIn, Jobs
  <2>3. \A m \in MovedIn(r) \cap r.todo : m \in DOMAIN r.pre /\ r.pre[m] = Body(m)'
    BY <1>0, <1>2, <2>2 DEF RestOf, PassOf
  <2> QED BY <1>0, <1>2, <2>1, <2>2, <2>3 DEF RestOf, PassOf, MovedIn
<1>5. GraphOf("ingest", r)'
  <2>1. \A e \in edges' : e[1] \in Notes /\ rows'[e[1]] # None
    BY <1>1 DEF RestOf, GraphOf
  <2>2. ASSUME NEW m \in Indexed' \ LinksLate("ingest", r) PROVE EdgesFollow(m)'
    <3>1. CASE m = n
      BY <1>1, <1>2, <3>1 DEF EdgesFollow, Indexed
    <3>2. CASE m # n
      <4>1. m \in Indexed \ LinksLate("ingest", j)
        BY <1>0, <1>2, <3>2 DEF LinksLate, MovedIn
      <4>2. rows'[m] = rows[m]
        BY <1>1, <3>2, <4>1 DEF Indexed
      <4> QED BY <4>1, <4>2 DEF RestOf, GraphOf, EdgesFollow, Targets, From
    <3> QED BY <3>1, <3>2
  <2> QED BY <2>1, <2>2 DEF GraphOf, LinksLate, MovedIn
<1>6. (edits = 0 \/ writes = 0)' => VectorsOf("ingest", r)'
  <2>1. \A m \in Notes : rows'[m] = None <=> rows[m] = None
    BY <1>1
  <2>2. \A m \in j.touched \cup j.removed \cup MovedIn(j) \cup MovedOut(j) : m \in Notes
    BY DEF Jobs, MovedIn, MovedOut
  <2> HIDE DEF EdgesFollow
  <2>3. ASSUME edits = 0 \/ writes = 0 PROVE VectorsOf("ingest", r)'
    <3>1. VectorsOf("ingest", j) /\ MovedIn(r) = MovedIn(j) /\ MovedOut(r) = MovedOut(j)
      BY <1>0, <2>3 DEF RestOf, MovedIn, MovedOut
    <3>2. \A m \in Notes \ Unindexed("ingest", r) : vec'[m] = Body(m)'
      BY <1>0, <1>2, <3>1 DEF VectorsOf, Unindexed
    <3>3. \A pair \in r.moved : /\ rows'[pair[1]] = None /\ rows'[pair[2]] # None
                                /\ vec'[pair[1]] = Body(pair[2])'
      BY <1>0, <1>2, <2>1, <2>2, <3>1 DEF VectorsOf, MovedIn, MovedOut
    <3> QED BY <1>0, <2>1, <2>2, <3>1, <3>2, <3>3 DEF VectorsOf, Unindexed, MovedIn, MovedOut
  <2> QED BY <2>3
<1> QED BY <1>3, <1>4, <1>5, <1>6 DEF RestOf

(* An upsert, of a tool's write and of Pass 1.                               *)
LEMMA WrittenRests ==
  ASSUME QuietInv, NEW j \in Jobs, NEW r, NEW n \in Notes, NEW t \in Texts, j.note = n, j.text = t, j.one,
         But(r, j, {"todo", "queue", "touched"}), r.queue = Put(j.queue, n, t),
         r.touched = IF n \in MovedIn(j) THEN j.touched ELSE j.touched \cup {n},
         rows' = [rows EXCEPT ![n] = Row(t, t)],
         UNCHANGED <<edges, vec, disk, edits, writes>>,
         RestOf("upsert", j)
  PROVE  RestOf("link", r)'
<1>0. /\ r.one = j.one /\ r.note = n /\ r.new = j.new /\ r.links = {} /\ r.moved = {} /\ r.removed = {}
      /\ r.touched = {n} /\ DOMAIN r.queue = {n} /\ r.queue[n] = t /\ Idling(j)
  <2>1. Idling(j) /\ r.links = {} /\ r.moved = {} /\ r.removed = {} /\ r.one = j.one /\ r.note = n
        /\ r.new = j.new
    <3>1. Idling(j)
      BY DEF RestOf, HandOf
    <3>2. r.links = j.links /\ r.moved = j.moved /\ r.removed = j.removed /\ r.one = j.one
          /\ r.note = j.note /\ r.new = j.new
      BY DEF But, Locals
    <3> QED BY <3>1, <3>2 DEF Idling
  <2>2. DOMAIN Put(j.queue, n, t) = {n} /\ Put(j.queue, n, t)[n] = t
    BY <2>1 DEF Idling, Put
  <2>3. MovedIn(j) = {}
    BY <2>1 DEF Idling, MovedIn
  <2> QED BY <2>1, <2>2, <2>3 DEF Idling
<1>1. /\ rows'[n] = Row(t, t) /\ rows'[n] # None /\ rows'[n].body = t
      /\ \A m \in Notes \ {n} : rows'[m] = rows[m]
  <2>1. Row(t, t) \in Rows /\ Row(t, t).body = t
    BY DEF Row, Rows
  <2> QED BY <2>1, NowTyped, NamesApart DEF QuietInv, TablesTyped
<1>2. HandOf("link", r)'
  BY <1>0 DEF RestOf, HandOf, Idling, Embedding
<1>3. PassOf("link", r)'
  BY <1>0, <1>1 DEF PassOf
<1>4. GraphOf("link", r)'
  <2>1. \A e \in edges' : e[1] \in Notes /\ rows'[e[1]] # None
    BY <1>1 DEF RestOf, GraphOf
  <2>2. ASSUME NEW m \in Indexed' \ {n} PROVE EdgesFollow(m)'
    <3>1. m \in Indexed /\ rows'[m] = rows[m] /\ LinksLate("upsert", j) = {}
      BY <1>1 DEF Indexed, LinksLate
    <3> QED BY <3>1 DEF RestOf, GraphOf, EdgesFollow, Targets, From
  <2> QED BY <1>0, <2>1, <2>2 DEF GraphOf, LinksLate
<1>5. (edits = 0 \/ writes = 0)' => VectorsOf("link", r)'
  <2> SUFFICES ASSUME edits = 0 \/ writes = 0 PROVE VectorsOf("link", r)'
    OBVIOUS
  <2>1. VectorsOf("upsert", j) /\ Unindexed("upsert", j) = {} /\ Unindexed("link", r) = {n}
    BY <1>0 DEF RestOf, Unindexed, Idling, MovedIn, MovedOut
  <2>2. \A m \in Notes \ {n} : vec'[m] = Body(m)'
    BY <1>1, <2>1 DEF VectorsOf, Body
  <2> QED BY <1>0, <1>1, <2>1, <2>2 DEF VectorsOf
<1> QED BY <1>2, <1>3, <1>4, <1>5 DEF RestOf

LEMMA UpsertRests ==
  ASSUME QuietInv, NEW j \in Jobs, NEW r, NEW n \in Notes, NEW t \in Texts, j.note = n, j.text = t, ~j.one,
         But(r, j, {"todo", "queue", "touched"}), r.todo = j.todo \ {n}, r.queue = Put(j.queue, n, t),
         r.touched = IF n \in MovedIn(j) THEN j.touched ELSE j.touched \cup {n},
         rows' = [rows EXCEPT ![n] = Row(t, t)],
         UNCHANGED <<edges, vec, disk, edits, writes>>,
         RestOf("upsert", j)
  PROVE  RestOf("ingest", r)'
<1>0. /\ r.force = j.force /\ r.one = j.one /\ r.walk = j.walk /\ r.pre = j.pre /\ r.snap = j.snap
      /\ r.links = j.links /\ r.removed = j.removed /\ r.moved = j.moved
      /\ MovedIn(r) = MovedIn(j) /\ MovedOut(r) = MovedOut(j)
  BY ButFields DEF MovedIn, MovedOut
<1>1. /\ rows'[n] # None /\ rows'[n].body = t
      /\ \A m \in Notes \ {n} : rows'[m] = rows[m]
      /\ Indexed' = Indexed \cup {n}
  <2>1. Row(t, t) \in Rows /\ Row(t, t).body = t
    BY DEF Row, Rows
  <2> QED BY <2>1, NowTyped, NamesApart DEF QuietInv, TablesTyped, Indexed
<1>2. /\ DOMAIN r.queue = DOMAIN j.queue \cup {n} /\ r.queue[n] = t
      /\ \A m \in DOMAIN j.queue \ {n} : r.queue[m] = j.queue[m]
  BY DEF Put
<1>3. /\ n \in j.todo /\ j.todo \subseteq j.walk /\ DOMAIN j.queue \subseteq Notes
      /\ \A m \in MovedIn(j) : m \in Notes
      /\ \A pair \in j.moved : pair[1] \in Notes \ j.walk /\ pair[2] \in Notes
  BY PartialDomain DEF RestOf, PassOf, Jobs, MovedIn
<1>4. HandOf("ingest", r)'
  BY <1>0 DEF RestOf, HandOf, Idling, Embedding
<1>5. PassOf("ingest", r)'
  <2>1. \A m \in DOMAIN r.queue : rows'[m] # None /\ rows'[m].body = r.queue[m]
    BY <1>1, <1>2, <1>3 DEF RestOf, PassOf
  <2>2. \A m \in MovedIn(r) \cap r.todo : m \in DOMAIN r.pre /\ r.pre[m] = Body(m)'
    <3>1. ASSUME NEW m \in MovedIn(j) \cap j.todo, m # n
          PROVE  m \in DOMAIN j.pre /\ j.pre[m] = Body(m)'
      <4>1. rows'[m] = rows[m] /\ m \in DOMAIN j.pre /\ j.pre[m] = Body(m)
        BY <1>1, <1>3, <3>1 DEF RestOf, PassOf
      <4> QED BY <4>1 DEF Body
    <3> QED BY <1>0, <3>1
  <2>3. /\ r.todo \subseteq r.walk /\ r.touched \subseteq r.walk /\ DOMAIN r.queue \subseteq r.walk \ r.todo
        /\ Indexed' \subseteq r.walk \cup DOMAIN r.snap /\ DOMAIN r.snap \ r.walk \subseteq Indexed'
    BY <1>0, <1>1, <1>2, <1>3 DEF RestOf, PassOf
  <2>4. \A pair \in r.moved : pair[1] \notin r.walk /\ pair[2] \in r.walk
    BY <1>0 DEF RestOf, PassOf
  <2> QED BY <1>0, <2>1, <2>2, <2>3, <2>4 DEF PassOf, MovedIn
<1>6. GraphOf("ingest", r)'
  <2>1. \A e \in edges' : e[1] \in Notes /\ rows'[e[1]] # None
    BY <1>1 DEF RestOf, GraphOf
  <2>2. ASSUME NEW m \in Indexed' \ LinksLate("ingest", r) PROVE EdgesFollow(m)'
    <3>1. m # n
      BY <1>2, <2>2 DEF LinksLate
    <3>2. m \in Indexed \ LinksLate("upsert", j)
      BY <1>0, <1>1, <1>2, <3>1 DEF LinksLate
    <3>3. rows'[m] = rows[m]
      BY <1>1, <3>1, <3>2 DEF Indexed
    <3> QED BY <3>2, <3>3 DEF RestOf, GraphOf, EdgesFollow, Targets, From
  <2> QED BY <2>1, <2>2 DEF GraphOf, LinksLate, MovedIn
<1>7. (edits = 0 \/ writes = 0)' => VectorsOf("ingest", r)'
  <2> SUFFICES ASSUME edits = 0 \/ writes = 0 PROVE VectorsOf("ingest", r)'
    OBVIOUS
  <2>1. VectorsOf("upsert", j)
    BY DEF RestOf
  <2>2. Unindexed("upsert", j) \cup {n} \subseteq Unindexed("ingest", r)
    BY <1>0 DEF Unindexed
  <2>3. \A m \in Notes \ Unindexed("ingest", r) : vec'[m] = Body(m)'
    BY <1>1, <2>1, <2>2 DEF VectorsOf, Body
  <2>4. n \in MovedIn(j) => Body(n)' = Body(n)
    BY <1>1 DEF RestOf, PassOf, Body
  <2>5. ASSUME NEW pair \in j.moved
        PROVE  rows'[pair[1]] = None /\ rows'[pair[2]] # None /\ vec'[pair[1]] = Body(pair[2])'
    <3>1. rows'[pair[1]] = rows[pair[1]] /\ rows[pair[1]] = None
      BY <1>1, <1>3, <2>1 DEF VectorsOf
    <3>2. rows'[pair[2]] # None /\ Body(pair[2])' = Body(pair[2])
      <4>1. CASE pair[2] = n
        BY <1>1, <2>4, <4>1 DEF MovedIn
      <4>2. CASE pair[2] # n
        BY <1>1, <1>3, <2>1, <4>2 DEF VectorsOf, Body
      <4> QED BY <4>1, <4>2
    <3> QED BY <2>1, <3>1, <3>2 DEF VectorsOf
  <2>6. r.removed = {} /\ \A m \in r.touched : rows'[m] # None
    <3>1. j.touched \subseteq Notes
      BY DEF Jobs
    <3> QED BY <1>0, <1>1, <2>1, <3>1 DEF VectorsOf, RestOf, HandOf
  <2> QED BY <1>0, <2>1, <2>3, <2>5, <2>6 DEF VectorsOf, Unindexed, MovedIn, MovedOut
<1> QED BY <1>4, <1>5, <1>6, <1>7 DEF RestOf

(* The removal loop.                                                         *)
LEMMA SweepEdgesRests ==
  ASSUME NEW j, NEW r, NEW n \in j.todo, But(r, j, {"note"}), r.note = n,
         edges' = edges \ From(n), UNCHANGED <<rows, vec, disk, edits, writes>>,
         RestOf("sweep", j)
  PROVE  RestOf("delete", r)'
<1>0. /\ r.one = j.one /\ r.walk = j.walk /\ r.todo = j.todo /\ r.queue = j.queue
      /\ r.links = j.links /\ r.removed = j.removed /\ r.moved = j.moved /\ r.touched = j.touched
      /\ MovedIn(r) = MovedIn(j) /\ MovedOut(r) = MovedOut(j)
  BY ButFields DEF MovedIn, MovedOut
<1>1. HandOf("delete", r)'
  BY <1>0 DEF RestOf, HandOf, Idling, Embedding
<1>2. PassOf("delete", r)'
  BY <1>0 DEF RestOf, PassOf, From, Indexed
<1>3. GraphOf("delete", r)'
  <2>1. ASSUME NEW m \in Indexed' \ LinksLate("delete", r) PROVE EdgesFollow(m)'
    <3>1. m \in Indexed \ LinksLate("sweep", j) /\ m # n
      BY <1>0 DEF Indexed, LinksLate
    <3>2. From(m)' = From(m)
      BY <3>1 DEF From
    <3> QED BY <3>1, <3>2 DEF RestOf, GraphOf, EdgesFollow, Targets
  <2> QED BY <2>1 DEF RestOf, GraphOf, LinksLate
<1>4. (edits = 0 \/ writes = 0)' => VectorsOf("delete", r)'
  BY <1>0 DEF RestOf, VectorsOf, Unindexed, Body, MovedIn, MovedOut
<1> QED BY <1>1, <1>2, <1>3, <1>4 DEF RestOf

LEMMA DeleteRowRests ==
  ASSUME QuietInv, NEW j \in Jobs, NEW r, NEW n \in Notes, j.note = n,
         But(r, j, {"todo", "removed"}), r.todo = j.todo \ {n}, r.removed = j.removed \cup {n},
         rows' = [rows EXCEPT ![n] = None],
         UNCHANGED <<edges, vec, disk, edits, writes>>,
         RestOf("delete", j)
  PROVE  RestOf("sweep", r)'
<1>0. /\ r.one = j.one /\ r.walk = j.walk /\ r.queue = j.queue
      /\ r.links = j.links /\ r.moved = j.moved /\ r.touched = j.touched
      /\ MovedIn(r) = MovedIn(j) /\ MovedOut(r) = MovedOut(j)
  BY ButFields DEF MovedIn, MovedOut
<1>1. /\ rows'[n] = None /\ \A m \in Notes \ {n} : rows'[m] = rows[m]
      /\ Indexed' = Indexed \ {n}
  BY NowTyped DEF QuietInv, TablesTyped, Indexed
<1>2. /\ n \in j.todo /\ n \notin j.walk /\ n \in Indexed /\ From(n) = {}
      /\ DOMAIN j.queue \subseteq j.walk /\ DOMAIN j.queue \subseteq Notes
      /\ j.touched \subseteq j.walk /\ j.touched \subseteq Notes
      /\ \A pair \in j.moved : pair[1] \in Notes /\ pair[2] \in j.walk /\ pair[2] \in Notes
  BY PartialDomain DEF RestOf, PassOf, Jobs
<1>3. HandOf("sweep", r)'
  BY <1>0 DEF RestOf, HandOf, Idling, Embedding
<1>4. PassOf("sweep", r)'
  BY <1>0, <1>1, <1>2 DEF RestOf, PassOf
<1>5. GraphOf("sweep", r)'
  <2>1. \A e \in edges' : e[1] \in Notes /\ rows'[e[1]] # None
    BY <1>1, <1>2 DEF RestOf, GraphOf, From
  <2>2. ASSUME NEW m \in Indexed' \ LinksLate("sweep", r) PROVE EdgesFollow(m)'
    <3>1. m \in Indexed \ LinksLate("delete", j) /\ rows'[m] = rows[m]
      BY <1>0, <1>1 DEF Indexed, LinksLate
    <3> QED BY <3>1 DEF RestOf, GraphOf, EdgesFollow, Targets, From
  <2> QED BY <2>1, <2>2 DEF GraphOf, LinksLate
<1>6. (edits = 0 \/ writes = 0)' => VectorsOf("sweep", r)'
  <2> SUFFICES ASSUME edits = 0 \/ writes = 0 PROVE VectorsOf("sweep", r)'
    OBVIOUS
  <2>1. VectorsOf("delete", j)
    BY DEF RestOf
  <2>2. Unindexed("sweep", r) = Unindexed("delete", j) \cup {n}
    BY <1>0 DEF Unindexed
  <2>3. \A m \in Notes \ Unindexed("sweep", r) : vec'[m] = Body(m)'
    BY <1>1, <2>1, <2>2 DEF VectorsOf, Body
  <2>4. \A m \in r.touched : rows'[m] # None
    BY <1>0, <1>1, <1>2, <2>1 DEF VectorsOf
  <2>5. \A m \in r.removed : rows'[m] = None /\ m \notin MovedOut(r)
    <3>1. n \notin MovedOut(j)
      BY <1>2, <2>1 DEF VectorsOf, MovedOut, Indexed
    <3>2. j.removed \subseteq Notes
      BY DEF Jobs
    <3> QED BY <1>0, <1>1, <2>1, <3>1, <3>2 DEF VectorsOf
  <2>6. ASSUME NEW pair \in j.moved
        PROVE  rows'[pair[1]] = None /\ rows'[pair[2]] # None /\ vec'[pair[1]] = Body(pair[2])'
    BY <1>1, <1>2, <2>1 DEF VectorsOf, Body
  <2> QED BY <1>0, <2>1, <2>3, <2>4, <2>5, <2>6 DEF VectorsOf, Unindexed, MovedIn, MovedOut
<1> QED BY <1>3, <1>4, <1>5, <1>6 DEF RestOf

(* Pass 2.                                                                   *)
LEMMA UnlinkRests ==
  ASSUME NEW j \in Jobs, NEW r, NEW n \in DOMAIN j.queue, j.links = {},
         But(r, j, {"links", "queue", "note"}), r.links = Links[j.queue[n]],
         r.queue = Drop(j.queue, n), r.note = n,
         edges' = edges \ From(n), UNCHANGED <<rows, vec, disk, edits, writes>>,
         RestOf("link", j)
  PROVE  RestOf("link", r)'
<1>0. /\ r.one = j.one /\ r.new = j.new /\ r.removed = j.removed /\ r.moved = j.moved
      /\ r.touched = j.touched /\ (j.one => n = j.note)
      /\ MovedIn(r) = MovedIn(j) /\ MovedOut(r) = MovedOut(j)
  BY ButFields DEF RestOf, HandOf, MovedIn, MovedOut
<1>1. /\ DOMAIN r.queue = DOMAIN j.queue \ {n} /\ \A m \in DOMAIN r.queue : r.queue[m] = j.queue[m]
      /\ n \in Notes
  BY PartialDomain DEF Drop, Jobs
<1>2. rows[n] # None /\ rows[n].body = j.queue[n]
  BY DEF RestOf, PassOf
<1>3. HandOf("link", r)'
  BY <1>0, <1>1 DEF RestOf, HandOf, Embedding
<1>4. PassOf("link", r)'
  BY <1>0, <1>1 DEF RestOf, PassOf
<1>5. Targets(n)' = {}
  BY DEF Targets, From
<1>6. GraphOf("link", r)'
  <2>1. \A e \in edges' : e[1] \in Notes /\ rows'[e[1]] # None
    BY DEF RestOf, GraphOf
  <2>2. ASSUME NEW m \in Indexed' \ LinksLate("link", r) PROVE EdgesFollow(m)'
    <3>1. CASE m = n
      BY <1>2, <1>5, <2>2, <3>1 DEF EdgesFollow, LinksLate
    <3>2. CASE m # n
      <4>1. m \in Indexed \ LinksLate("link", j)
        BY <1>1, <3>2 DEF LinksLate, Indexed
      <4>2. From(m)' = From(m)
        BY <3>2 DEF From
      <4> QED BY <4>1, <4>2 DEF RestOf, GraphOf, EdgesFollow, Targets
    <3> QED BY <3>1, <3>2
  <2>3. LinkingOne(r)'
    BY <1>1, <1>2, <1>5 DEF LinkingOne, Indexed
  <2> QED BY <2>1, <2>2, <2>3 DEF GraphOf, LinksLate
<1>7. (edits = 0 \/ writes = 0)' => VectorsOf("link", r)'
  BY <1>0 DEF RestOf, VectorsOf, Unindexed, Body, MovedIn, MovedOut
<1> QED BY <1>3, <1>4, <1>6, <1>7 DEF RestOf

LEMMA AddEdgeRests ==
  ASSUME NEW j \in Jobs, NEW r, NEW t \in j.links, But(r, j, {"links"}), r.links = j.links \ {t},
         NEW late \in BOOLEAN,
         edges' = edges \cup {<<j.note, t, late>>}, UNCHANGED <<rows, vec, disk, edits, writes>>,
         RestOf("link", j)
  PROVE  RestOf("link", r)'
<1>0. /\ r.one = j.one /\ r.new = j.new /\ r.removed = j.removed /\ r.moved = j.moved
      /\ r.touched = j.touched /\ r.note = j.note /\ r.queue = j.queue
      /\ MovedIn(r) = MovedIn(j) /\ MovedOut(r) = MovedOut(j)
  BY ButFields DEF MovedIn, MovedOut
<1>1. LinkingOne(j)
  BY DEF RestOf, GraphOf
<1>2. HandOf("link", r)'
  BY <1>0 DEF RestOf, HandOf, Embedding
<1>3. PassOf("link", r)'
  BY <1>0 DEF RestOf, PassOf
<1>4. /\ Targets(j.note)' = Targets(j.note) \cup {t}
      /\ \A m : m # j.note => Targets(m)' = Targets(m)
  <2>1. PICK f : f = <<j.note, t, late>>
    OBVIOUS
  <2>2. f[1] = j.note /\ f[2] = t /\ edges' = edges \cup {f}
    BY <2>1
  <2>3. From(j.note)' = From(j.note) \cup {f} /\ \A m : m # j.note => From(m)' = From(m)
    BY <2>2 DEF From
  <2>4. Targets(j.note)' = Targets(j.note) \cup {t}
    BY <2>2, <2>3 DEF Targets
  <2>5. \A m : m # j.note => Targets(m)' = Targets(m)
    BY <2>3 DEF Targets
  <2> QED BY <2>4, <2>5
<1>5. GraphOf("link", r)'
  <2>1. \A e \in edges' : e[1] \in Notes /\ rows'[e[1]] # None
    BY <1>1 DEF RestOf, GraphOf, LinkingOne, Indexed
  <2>2. ASSUME NEW m \in Indexed' \ LinksLate("link", r) PROVE EdgesFollow(m)'
    <3>1. CASE m = j.note
      <4>1. j.links = {t}
        BY <1>0, <2>2, <3>1 DEF LinksLate
      <4>2. Targets(j.note)' = Links[rows[j.note].body]
        BY <1>1, <1>4, <4>1 DEF LinkingOne
      <4> QED BY <3>1, <4>2 DEF EdgesFollow
    <3>2. CASE m # j.note
      <4>1. m \in Indexed \ LinksLate("link", j)
        BY <1>0, <2>2, <3>2 DEF LinksLate, Indexed
      <4> QED BY <1>4, <3>2, <4>1 DEF RestOf, GraphOf, EdgesFollow
    <3> QED BY <3>1, <3>2
  <2>3. LinkingOne(r)'
    BY <1>0, <1>1, <1>4 DEF LinkingOne, Indexed
  <2> QED BY <2>1, <2>2, <2>3 DEF GraphOf, LinksLate
<1>6. (edits = 0 \/ writes = 0)' => VectorsOf("link", r)'
  BY <1>0 DEF RestOf, VectorsOf, Unindexed, Body, MovedIn, MovedOut
<1> QED BY <1>2, <1>3, <1>5, <1>6 DEF RestOf

LEMMA ReresolveRests ==
  ASSUME NEW j \in Jobs, NEW r, But(r, j, {"broken"}), NEW e \in Arrows,
         edges' = IF e \in edges /\ rows[e[2]] # None
                  THEN (edges \ {e}) \cup {<<e[1], e[2], FALSE>>} ELSE edges,
         UNCHANGED <<rows, vec, disk, edits, writes>>,
         RestOf("reresolve", j)
  PROVE  RestOf("reresolve", r)'
<1>0. /\ r.one = j.one /\ r.new = j.new /\ r.removed = j.removed /\ r.moved = j.moved
      /\ r.touched = j.touched /\ r.note = j.note /\ r.queue = j.queue /\ r.links = j.links
      /\ MovedIn(r) = MovedIn(j) /\ MovedOut(r) = MovedOut(j)
  BY ButFields DEF MovedIn, MovedOut
<1>1. HandOf("reresolve", r)' /\ PassOf("reresolve", r)'
  BY <1>0 DEF RestOf, HandOf, PassOf, Embedding, Idling
<1>2. \A m : Targets(m)' = Targets(m)
  <2>1. CASE edges' = edges
    BY <2>1 DEF Targets, From
  <2>2. CASE e \in edges /\ edges' = (edges \ {e}) \cup {<<e[1], e[2], FALSE>>}
    <3>1. PICK f : f = <<e[1], e[2], FALSE>>
      OBVIOUS
    <3>2. f[1] = e[1] /\ f[2] = e[2]
      BY <3>1
    <3>3. ASSUME NEW m, NEW x \in Targets(m) PROVE x \in Targets(m)'
      <4>1. PICK d \in edges : d[1] = m /\ d[2] = x
        BY <3>3 DEF Targets, From
      <4>2. \E c \in edges' : c[1] = m /\ c[2] = x
        BY <2>2, <3>1, <3>2, <4>1
      <4> QED BY <4>2 DEF Targets, From
    <3>4. ASSUME NEW m, NEW x \in Targets(m)' PROVE x \in Targets(m)
      <4>1. PICK d \in edges' : d[1] = m /\ d[2] = x
        BY <3>4 DEF Targets, From
      <4>2. \E c \in edges : c[1] = m /\ c[2] = x
        BY <2>2, <3>1, <3>2, <4>1
      <4> QED BY <4>2 DEF Targets, From
    <3> QED BY <3>3, <3>4
  <2> QED BY <2>1, <2>2
<1>3. GraphOf("reresolve", r)'
  <2>0. PICK f : f = <<e[1], e[2], FALSE>>
    OBVIOUS
  <2>1. \A d \in edges' : d[1] \in Notes /\ rows'[d[1]] # None
    <3>1. f[1] = e[1] /\ (e \in edges => e[1] \in Notes /\ rows[e[1]] # None)
      BY <2>0 DEF RestOf, GraphOf
    <3>2. \A d \in edges' : d \in edges \/ (d = f /\ e \in edges)
      BY <2>0
    <3>3. \A d \in edges : d[1] \in Notes /\ rows[d[1]] # None
      BY DEF RestOf, GraphOf
    <3> QED BY <3>1, <3>2, <3>3
  <2>2. \A m \in Indexed' : EdgesFollow(m)'
    BY <1>2 DEF RestOf, GraphOf, LinksLate, EdgesFollow, Indexed
  <2> QED BY <2>1, <2>2 DEF GraphOf
<1>4. (edits = 0 \/ writes = 0)' => VectorsOf("reresolve", r)'
  BY <1>0 DEF RestOf, VectorsOf, Unindexed, Body, MovedIn, MovedOut
<1> QED BY <1>1, <1>3, <1>4 DEF RestOf

(* The vectors.                                                              *)
LEMMA VectorTables ==
  ASSUME UNCHANGED <<rows, edges, disk, edits, writes>>, NEW m, NEW r,
         HandOf(m, r), PassOf(m, r), GraphOf(m, r),
         edits = 0 \/ writes = 0 => VectorsOf(m, r)'
  PROVE  RestOf(m, r)'
<1>1. HandOf(m, r)' /\ PassOf(m, r)'
  BY DEF HandOf, PassOf, Idling, InSnap, MovedIn, Body, From, Indexed
<1>2. GraphOf(m, r)'
  BY DEF GraphOf, LinksLate, LinkingOne, MovedIn, EdgesFollow, Targets, From, Indexed
<1> QED BY <1>1, <1>2 DEF RestOf

LEMMA DropVectorRests ==
  ASSUME QuietInv, vec \in Vectors, NEW j \in Jobs, NEW r, NEW n \in j.removed, But(r, j, {"removed"}), r.removed = j.removed \ {n},
         vec' = [vec EXCEPT ![n] = None], UNCHANGED <<rows, edges, disk, edits, writes>>,
         RestOf("vectors", j)
  PROVE  RestOf("vectors", r)'
<1>0. /\ r.one = j.one /\ r.new = j.new /\ r.moved = j.moved
      /\ r.touched = j.touched /\ r.note = j.note /\ r.queue = j.queue /\ r.links = j.links
      /\ MovedIn(r) = MovedIn(j) /\ MovedOut(r) = MovedOut(j)
  BY ButFields DEF MovedIn, MovedOut
<1>1. HandOf("vectors", r) /\ PassOf("vectors", r)
  BY <1>0 DEF RestOf, HandOf, PassOf, Embedding, Idling
<1>2. GraphOf("vectors", r)
  BY DEF RestOf, GraphOf, LinksLate
<1>3. n \in Notes /\ vec'[n] = None /\ \A m \in Notes \ {n} : vec'[m] = vec[m]
  BY DEF Jobs, Vectors
<1>4. ASSUME edits = 0 \/ writes = 0 PROVE VectorsOf("vectors", r)'
  <2>1. VectorsOf("vectors", j) /\ Unindexed("vectors", j) \subseteq Unindexed("vectors", r) \cup {n}
    BY <1>0, <1>4 DEF RestOf, Unindexed
  <2>2. rows[n] = None /\ n \notin MovedOut(j)
    BY <2>1 DEF VectorsOf
  <2>3. \A m \in Notes \ Unindexed("vectors", r) : vec'[m] = Body(m)'
    BY <1>3, <2>1, <2>2 DEF VectorsOf, Body
  <2>4. ASSUME NEW pair \in j.moved
        PROVE  rows'[pair[1]] = None /\ rows'[pair[2]] # None /\ vec'[pair[1]] = Body(pair[2])'
    <3>1. pair[1] # n /\ pair[1] \in Notes
      BY <2>2 DEF MovedOut, Jobs
    <3> QED BY <1>3, <2>1, <3>1 DEF VectorsOf, Body
  <2> QED BY <1>0, <2>1, <2>3, <2>4 DEF VectorsOf, Unindexed, MovedIn, MovedOut
<1> QED BY <1>1, <1>2, <1>4, VectorTables

LEMMA MoveVectorRests ==
  ASSUME QuietInv, vec \in Vectors, NEW j \in Jobs, NEW r, NEW a \in Notes, NEW b \in Notes, <<a, b>> \in j.moved,
         j.removed = {}, But(r, j, {"moved"}), r.moved = j.moved \ {<<a, b>>},
         vec' = [vec EXCEPT ![b] = vec[a], ![a] = None],
         UNCHANGED <<rows, edges, disk, edits, writes>>,
         RestOf("vectors", j)
  PROVE  RestOf("vectors", r)'
<1>0. /\ r.one = j.one /\ r.new = j.new /\ r.removed = j.removed
      /\ r.touched = j.touched /\ r.note = j.note /\ r.queue = j.queue /\ r.links = j.links
  BY ButFields
<1>1. HandOf("vectors", r) /\ PassOf("vectors", r)
  BY <1>0 DEF RestOf, HandOf, PassOf, Embedding, Idling
<1>2. GraphOf("vectors", r)
  BY DEF RestOf, GraphOf, LinksLate
<1>3. ASSUME edits = 0 \/ writes = 0 PROVE VectorsOf("vectors", r)'
  <2>1. VectorsOf("vectors", j)
    BY <1>3 DEF RestOf
  <2>2. rows[a] = None /\ rows[b] # None /\ vec[a] = Body(b) /\ a # b
    BY <2>1 DEF VectorsOf
  <2>3. vec'[b] = vec[a] /\ vec'[a] = None /\ \A m \in Notes \ {a, b} : vec'[m] = vec[m]
    BY <2>2 DEF Vectors
  <2>4. \A m \in Notes \ Unindexed("vectors", r) : vec'[m] = Body(m)'
    <3>1. \A m \in Notes : m \in Unindexed("vectors", j) => m \in Unindexed("vectors", r) \cup {a, b}
      BY <1>0 DEF Unindexed, MovedIn, MovedOut
    <3>2. ASSUME NEW m \in Notes \ Unindexed("vectors", r) PROVE vec'[m] = Body(m)'
      <4>1. CASE m = a
        BY <2>2, <2>3, <4>1 DEF Body
      <4>2. CASE m = b
        BY <2>2, <2>3, <4>2 DEF Body
      <4>3. CASE m \notin {a, b}
        BY <2>1, <2>3, <3>1, <3>2, <4>3 DEF VectorsOf, Body
      <4> QED BY <4>1, <4>2, <4>3
    <3> QED BY <3>2
  <2>5. ASSUME NEW pair \in r.moved
        PROVE  rows'[pair[1]] = None /\ rows'[pair[2]] # None /\ vec'[pair[1]] = Body(pair[2])'
    <3>1. pair \in j.moved /\ pair # <<a, b>> /\ pair[1] \in Notes
      BY DEF Jobs
    <3>2. pair[1] # a /\ rows[pair[1]] = None
      BY <2>1, <3>1 DEF VectorsOf
    <3>3. vec'[pair[1]] = vec[pair[1]]
      BY <2>2, <2>3, <3>1, <3>2
    <3> QED BY <2>1, <3>1, <3>3 DEF VectorsOf, Body
  <2>6. \A m \in MovedOut(r) : m \in MovedOut(j)
    BY DEF MovedOut
  <2> QED BY <1>0, <2>1, <2>4, <2>5, <2>6 DEF VectorsOf
<1> QED BY <1>1, <1>2, <1>3, VectorTables

LEMMA StoreVectorRests ==
  ASSUME vec \in Vectors, NEW j, NEW n \in Notes, NEW t, j.note = n, j.text = t,
         vec' = [vec EXCEPT ![n] = t], UNCHANGED <<rows, edges, disk, edits, writes>>,
         RestOf("store", j)
  PROVE  RestOf("embed", j)'
<1>1. HandOf("embed", j) /\ PassOf("embed", j) /\ ~j.one /\ j.moved = {}
  BY DEF RestOf, HandOf, PassOf, Embedding, Idling
<1>2. GraphOf("embed", j)
  BY DEF RestOf, GraphOf, LinksLate
<1>3. vec'[n] = t /\ \A m \in Notes \ {n} : vec'[m] = vec[m]
  BY DEF Vectors
<1>4. ASSUME edits = 0 \/ writes = 0 PROVE VectorsOf("embed", j)'
  <2>1. VectorsOf("store", j) /\ Unindexed("store", j) = Unindexed("embed", j) \cup {n}
    BY <1>4 DEF RestOf, Unindexed
  <2>2. \A m \in Notes \ Unindexed("embed", j) : vec'[m] = Body(m)'
    BY <1>3, <2>1 DEF VectorsOf, Body
  <2> QED BY <1>1, <2>1, <2>2 DEF VectorsOf, Unindexed, MovedIn, MovedOut
<1> QED BY <1>1, <1>2, <1>4, VectorTables

LEMMA IndexWrittenRests ==
  ASSUME vec \in Vectors, NEW j, NEW n \in Notes, NEW t, j.note = n, j.new = t,
         vec' = [vec EXCEPT ![n] = t], UNCHANGED <<rows, edges, disk, edits, writes>>,
         RestOf("reresolve", j)
  PROVE  RestOf("idle", NoJob)'
<1>1. /\ ~NoJob.one /\ NoJob.links = {} /\ DOMAIN NoJob.queue = {} /\ NoJob.moved = {}
      /\ NoJob.touched = {} /\ NoJob.removed = {}
  BY DEF NoJob
<1>2. HandOf("idle", NoJob) /\ PassOf("idle", NoJob)
  BY <1>1 DEF HandOf, PassOf, Idling, Embedding
<1>3. GraphOf("idle", NoJob)
  BY DEF RestOf, GraphOf, LinksLate
<1>4. j.one /\ j.moved = {} /\ j.removed = {} /\ j.touched = {n}
  BY DEF RestOf, HandOf
<1>5. vec'[n] = t /\ \A m \in Notes \ {n} : vec'[m] = vec[m]
  BY DEF Vectors
<1>6. ASSUME edits = 0 \/ writes = 0 PROVE VectorsOf("idle", NoJob)'
  <2>1. VectorsOf("reresolve", j) /\ Unindexed("reresolve", j) = {n}
    BY <1>4, <1>6 DEF RestOf, Unindexed, MovedIn, MovedOut
  <2>2. \A m \in Notes : vec'[m] = Body(m)'
    BY <1>4, <1>5, <2>1 DEF VectorsOf, Body
  <2> QED BY <1>1, <2>2 DEF VectorsOf, Unindexed
<1> QED BY <1>2, <1>3, <1>6, VectorTables

(* A tool's write, and the vault's owner.                                    *)
LEMMA WriteFileRests ==
  ASSUME QuietInv, NEW j \in Jobs, NEW n \in Notes, j.note = n,
         disk' = [disk EXCEPT ![n] = j.new], UNCHANGED <<rows, edges, vec, edits, writes>>,
         RestOf("write", j)
  PROVE  RestOf("resync", j)'
<1>1. HandOf("resync", j)' /\ PassOf("resync", j)'
  BY DEF RestOf, HandOf, PassOf, Idling, Embedding
<1>2. GraphOf("resync", j)'
  BY DEF RestOf, GraphOf, LinksLate, EdgesFollow, Targets, From, Indexed
<1>3. disk'[n] = j.new
  BY DEF QuietInv, TablesTyped
<1>4. (edits = 0 \/ writes = 0 => VectorsOf("resync", j))'
  BY <1>3 DEF RestOf, VectorsOf, Unindexed, MovedIn, MovedOut, Body
<1> QED BY <1>1, <1>2, <1>4 DEF RestOf

LEMMA ReviseRests ==
  ASSUME NEW j, NEW r, NEW l, But(r, j, {}), edits' # 0,
         UNCHANGED <<rows, edges, vec, writes>>, RestOf(l, j)
  PROVE  RestOf(l, r)'
<1>1. HandOf(l, r)'
  BY ButFields DEF RestOf, HandOf, Idling
<1>2. PassOf(l, r)'
  BY ButFields DEF RestOf, PassOf, InSnap, MovedIn, Body, From, Indexed
<1>3. GraphOf(l, r)'
  BY ButFields DEF RestOf, GraphOf, LinksLate, LinkingOne, MovedIn, EdgesFollow, Targets, From, Indexed
<1>4. ASSUME writes = 0 PROVE VectorsOf(l, r)'
  <2>1. ~j.one /\ VectorsOf(l, j)
    BY <1>4 DEF RestOf, HandOf
  <2> QED BY <2>1, ButFields DEF VectorsOf, Unindexed, MovedIn, MovedOut, Body
<1> QED BY <1>1, <1>2, <1>3, <1>4 DEF RestOf

LEMMA WriteRests ==
  ASSUME NEW j, RestOf("idle", j), NEW r, NEW n, NEW t,
         r = [NoJob EXCEPT !.one = TRUE, !.note = n, !.new = t],
         writes' # 0, UNCHANGED <<rows, edges, vec, disk, edits>>
  PROVE  RestOf("write", r)'
<1>1. /\ r.one /\ ~r.force /\ r.links = {} /\ DOMAIN r.queue = {} /\ r.moved = {} /\ r.touched = {}
      /\ r.removed = {}
  BY DEF NoJob
<1>2. HandOf("write", r)' /\ PassOf("write", r)'
  BY <1>1 DEF HandOf, PassOf, Idling, Embedding
<1>3. GraphOf("write", r)'
  BY <1>1 DEF RestOf, GraphOf, LinksLate, EdgesFollow, Targets, From, Indexed
<1>4. (edits = 0 \/ writes = 0 => VectorsOf("write", r))'
  BY <1>1 DEF RestOf, VectorsOf, Unindexed, MovedIn, MovedOut, Body
<1> QED BY <1>2, <1>3, <1>4 DEF RestOf

(* Each step of the one process there is.                                    *)
Touching(j, S, T) == [j EXCEPT !.todo = S, !.touched = T]
Visiting(j, S, n, t) == [j EXCEPT !.todo = S, !.note = n, !.text = t]
Shedding(j, S) == [j EXCEPT !.removed = S]
Carrying(j, M) == [j EXCEPT !.moved = M]
Drifting(j, R, T) == [j EXCEPT !.removed = R, !.touched = T, !.repaired = TRUE]

LEMMA StayStep ==
  ASSUME QuietInv, NEW p \in Procs, Procs = {p}, NEW l, NEW r,
         pc' = [pc EXCEPT ![p] = l], job' = [job EXCEPT ![p] = r],
         UNCHANGED <<rows, edges, vec, disk, edits, writes>>, RestOf(l, r)
  PROVE  RestInv'
<1>1. RestOf(l, r)'
  BY TablesStay
<1> QED BY <1>1, RestStep

LEMMA LockFollows ==
  ASSUME QuietInv, RestInv, NEW p \in Procs, Procs = {p},
         TakeLock(p) \/ Recheck(p) \/ Mark(p) \/ Unlock(p)
  PROVE  RestInv'
<1>1. PICK j \in Jobs : j = job[p] /\ job = [job EXCEPT ![p] = j]
  BY NowTyped
<1>2. RestOf(pc[p], j)
  BY <1>1, RestNow
<1>3. UNCHANGED <<rows, edges, vec, disk, edits, writes>>
  BY DEF TakeLock, Recheck, Mark, Unlock, tables, world, counts
<1>4. ASSUME NEW v \in BOOLEAN PROVE But(Locked(j, v), j, {}) /\ But(j, j, {})
  BY DEF Locked, Jobs, But, Locals
<1>5. CASE TakeLock(p)
  <2>1. PICK r : r = Locked(j, TRUE)
    OBVIOUS
  <2>2. But(r, j, {}) /\ job' = [job EXCEPT ![p] = r]
    BY <1>1, <1>4, <1>5, <2>1 DEF TakeLock, Locked
  <2>3. PICK m : /\ pc' = [pc EXCEPT ![p] = m]
                 /\ \/ pc[p] = "lock" /\ m = "recheck"
                    \/ pc[p] = "veclock" /\ m = "vectors"
                    \/ pc[p] = "replock" /\ m = "lists"
    <3>1. \/ pc[p] = "lock" /\ Goto(p, "recheck")
          \/ pc[p] = "veclock" /\ Goto(p, "vectors")
          \/ pc[p] = "replock" /\ Goto(p, "lists")
      BY <1>5 DEF TakeLock, Behind
    <3> QED BY <3>1 DEF Goto
  <2>4. RestOf(m, r)
    BY <1>2, <2>2, <2>3, LockRests
  <2> QED BY <1>3, <2>2, <2>3, <2>4, StayStep
<1>6. CASE Recheck(p) /\ marker
  <2>1. PICK r : r = Locked(j, FALSE)
    OBVIOUS
  <2>2. But(r, j, {}) /\ job' = [job EXCEPT ![p] = r]
    BY <1>1, <1>4, <1>6, <2>1 DEF Recheck, Locked
  <2>3. pc' = [pc EXCEPT ![p] = "walk"] /\ pc[p] = "recheck"
    BY <1>6 DEF Recheck, Goto, At
  <2>4. RestOf("walk", r)
    BY <1>2, <2>2, <2>3, LockRests
  <2> QED BY <1>3, <2>2, <2>3, <2>4, StayStep
<1>7. CASE Recheck(p) /\ ~marker
  <2>1. PICK r : r = Forced(j)
    OBVIOUS
  <2>2. But(r, j, {"force"}) /\ r.force
    BY <2>1 DEF Forced, Jobs, But, Locals
  <2>3. job' = [job EXCEPT ![p] = r] /\ pc' = [pc EXCEPT ![p] = "purge"] /\ pc[p] = "recheck"
    BY <1>1, <1>7, <2>1 DEF Recheck, Forced, Goto, At
  <2>4. RestOf("purge", r)
    BY <1>2, <2>2, <2>3, ForceRests
  <2> QED BY <1>3, <2>3, <2>4, StayStep
<1>8. CASE Mark(p)
  <2>1. pc' = [pc EXCEPT ![p] = "unlock"] /\ pc[p] = "mark" /\ job' = [job EXCEPT ![p] = j]
    BY <1>1, <1>8 DEF Mark, Goto, At, world
  <2>2. RestOf("unlock", j)
    BY <1>2, <1>4, <2>1, LockRests
  <2> QED BY <1>3, <2>1, <2>2, StayStep
<1>9. CASE Unlock(p)
  <2>1. PICK r : r = Locked(j, FALSE)
    OBVIOUS
  <2>2. But(r, j, {}) /\ job' = [job EXCEPT ![p] = r]
    BY <1>1, <1>4, <1>9, <2>1 DEF Unlock, Locked
  <2>3. PICK m \in {"veclock", "vectors"} : pc' = [pc EXCEPT ![p] = m] /\ pc[p] = "unlock"
    BY <1>9 DEF Unlock, AfterSync, Goto, At
  <2>4. RestOf(m, r)
    BY <1>2, <2>2, <2>3, LockRests
  <2> QED BY <1>3, <2>2, <2>3, <2>4, StayStep
<1> QED BY <1>5, <1>6, <1>7, <1>8, <1>9

LEMMA ListingFollows ==
  ASSUME QuietInv, RestInv, NEW p \in Procs, Procs = {p},
         \/ StartSync(p) \/ Purge(p) \/ Walk(p) \/ Snapshot(p) \/ Pair(p) \/ EndMoves(p)
         \/ EndIngest(p) \/ EndSweep(p) \/ EndLinks(p)
  PROVE  RestInv'
<1>1. PICK j \in Jobs : j = job[p] /\ job = [job EXCEPT ![p] = j]
  BY NowTyped
<1>2. RestOf(pc[p], j)
  BY <1>1, RestNow
<1>3. ASSUME ~Purge(p) PROVE UNCHANGED <<rows, edges, vec, disk, edits, writes>>
  BY <1>3 DEF StartSync, Walk, Snapshot, Pair, EndMoves, EndIngest, EndSweep, EndLinks, tables, world, counts
<1>4. CASE StartSync(p)
  <2>1. PICK b \in BOOLEAN : job' = [Overlap(p) EXCEPT ![p] = [NoJob EXCEPT !.alone = b]]
    BY <1>4 DEF StartSync
  <2>2. PICK r : r = [NoJob EXCEPT !.alone = b]
    OBVIOUS
  <2>3. job' = [job EXCEPT ![p] = r]
    <3>1. job \in [Procs -> Jobs] /\ DOMAIN Overlap(p) = Procs
      BY PlacesTyped DEF Overlap
    <3>2. [Overlap(p) EXCEPT ![p] = r] = [job EXCEPT ![p] = r]
      BY <3>1
    <3> QED BY <2>1, <2>2, <3>2
  <2>4. PICK l \in {"lock", "walk"} : pc' = [pc EXCEPT ![p] = l]
    BY <1>4 DEF StartSync, Goto
  <2>5. RestOf("idle", j) /\ ~Purge(p)
    BY <1>2, <1>4 DEF StartSync, Purge, At
  <2>6. RestOf(l, r)
    BY <2>2, <2>5, StartRests
  <2> QED BY <1>3, <2>3, <2>4, <2>5, <2>6, StayStep
<1>5. CASE Purge(p)
  <2>1. pc' = [pc EXCEPT ![p] = "walk"] /\ job' = [job EXCEPT ![p] = j] /\ RestOf("purge", j)
    BY <1>1, <1>2, <1>5 DEF Purge, Goto, At
  <2>2. PICK k : k = j /\ k = job[p]
    BY <1>1
  <2>3. RestOf("walk", k)'
    BY <1>5, <2>1, <2>2, PurgeRests
  <2>4. RestOf("walk", j)'
    BY <2>2, <2>3
  <2> QED BY <2>1, <2>4, RestStep
<1>6. CASE Walk(p)
  <2>1. PICK r : r = Walked(j, Present)
    OBVIOUS
  <2>2. But(r, j, {"walk"}) /\ ~Purge(p)
    BY <1>6, <2>1 DEF Walked, Jobs, But, Locals, Walk, Purge, At
  <2>3. pc' = [pc EXCEPT ![p] = "snapshot"] /\ job' = [job EXCEPT ![p] = r] /\ RestOf("walk", j)
    BY <1>1, <1>2, <1>6, <2>1 DEF Walk, Walked, Goto, At
  <2>4. RestOf("snapshot", r)
    BY <2>2, <2>3, WalkRests
  <2> QED BY <1>3, <2>2, <2>3, <2>4, StayStep
<1>7. CASE Snapshot(p)
  <2>1. PICK f : f = [n \in Indexed |-> rows[n].hash]
    OBVIOUS
  <2>2. PICK r : r = Listed(j, f)
    OBVIOUS
  <2>3. But(r, j, {"snap"}) /\ r.snap = f /\ ~Purge(p)
    BY <1>7, <2>2 DEF Listed, Jobs, But, Locals, Snapshot, Purge, At
  <2>4. pc' = [pc EXCEPT ![p] = "pair"] /\ job' = [job EXCEPT ![p] = r] /\ RestOf("snapshot", j)
    BY <1>1, <1>2, <1>7, <2>1, <2>2 DEF Snapshot, Listed, Goto, At
  <2>5. RestOf("pair", r)
    BY <2>1, <2>3, <2>4, SnapshotRests
  <2> QED BY <1>3, <2>3, <2>4, <2>5, StayStep
<1>8. CASE Pair(p)
  <2>1. PICK f, P : f = Newcomers(p) /\ P = Pairs(Gone(p), j.snap, f)
    OBVIOUS
  <2>2. PICK r : r = Matched(j, f, P)
    OBVIOUS
  <2>3. But(r, job[p], {"pre", "pairs"}) /\ r.pre = f /\ r.pairs = P /\ ~Purge(p)
    BY <1>1, <1>8, <2>2 DEF Matched, Jobs, But, Locals, Pair, Purge, At
  <2>4. pc' = [pc EXCEPT ![p] = "move"] /\ job' = [job EXCEPT ![p] = r] /\ RestOf("pair", job[p])
    BY <1>1, <1>2, <1>8, <2>1, <2>2 DEF Pair, Matched, Goto, At
  <2>5. RestOf("move", r)
    BY <1>1, <2>1, <2>3, <2>4, PairRests
  <2> QED BY <1>3, <2>3, <2>4, <2>5, StayStep
<1>9. CASE EndMoves(p)
  <2>1. PICK r : r = Facing(j, j.walk)
    OBVIOUS
  <2>2. But(r, j, {"todo"}) /\ r.todo = j.walk /\ ~Purge(p)
    BY <1>9, <2>1 DEF Facing, Jobs, But, Locals, EndMoves, Purge, At
  <2>3. pc' = [pc EXCEPT ![p] = "ingest"] /\ job' = [job EXCEPT ![p] = r] /\ RestOf("move", j)
    BY <1>1, <1>2, <1>9, <2>1 DEF EndMoves, Facing, Goto, At
  <2>4. RestOf("ingest", r)
    BY <1>1, <2>2, <2>3, EndMovesRests
  <2> QED BY <1>3, <2>2, <2>3, <2>4, StayStep
<1>10. CASE EndIngest(p)
  <2>1. PICK r : r = Facing(j, DOMAIN j.snap \ j.walk)
    OBVIOUS
  <2>2. But(r, j, {"todo"}) /\ r.todo = DOMAIN j.snap \ j.walk /\ ~Purge(p)
    BY <1>10, <2>1 DEF Facing, Jobs, But, Locals, EndIngest, Purge, At
  <2>3. /\ pc' = [pc EXCEPT ![p] = "sweep"] /\ job' = [job EXCEPT ![p] = r] /\ RestOf("ingest", j)
        /\ j.todo = {}
    BY <1>1, <1>2, <1>10, <2>1 DEF EndIngest, Facing, Goto, At
  <2>4. RestOf("sweep", r)
    BY <2>2, <2>3, EndIngestRests
  <2> QED BY <1>3, <2>2, <2>3, <2>4, StayStep
<1>11. CASE EndSweep(p)
  <2>1. PICK r : r = Emptied(j)
    OBVIOUS
  <2>2. But(r, j, {"walk", "snap", "pre", "note", "text"}) /\ ~Purge(p)
    BY <1>11, <2>1 DEF Emptied, Jobs, But, Locals, EndSweep, Purge, At
  <2>3. /\ pc' = [pc EXCEPT ![p] = "link"] /\ job' = [job EXCEPT ![p] = r] /\ RestOf("sweep", j)
        /\ j.todo = {}
    BY <1>1, <1>2, <1>11, <2>1 DEF EndSweep, Emptied, Goto, At
  <2>4. RestOf("link", r)
    BY <2>2, <2>3, EndSweepRests
  <2> QED BY <1>3, <2>2, <2>3, <2>4, StayStep
<1>12. CASE EndLinks(p)
  <2>1. PICK B : job' = [job EXCEPT ![p].broken = B]
    BY <1>12 DEF EndLinks
  <2>2. PICK r : r = Broken(j, B)
    OBVIOUS
  <2>3. But(r, j, {"broken"}) /\ ~Purge(p)
    BY <1>12, <2>2 DEF Broken, Jobs, But, Locals, EndLinks, Purge, At
  <2>4. /\ job' = [job EXCEPT ![p] = r] /\ RestOf("link", j)
        /\ j.links = {} /\ DOMAIN j.queue = {}
    BY <1>1, <1>2, <1>12, <2>1, <2>2 DEF EndLinks, Broken, At
  <2>5. PICK l : /\ pc' = [pc EXCEPT ![p] = l]
                 /\ IF j.one THEN l = "reresolve" ELSE l \in {"mark", "veclock", "vectors"}
    BY <1>1, <1>12 DEF EndLinks, AfterSync, Goto
  <2>6. RestOf(l, r)
    BY <2>3, <2>4, <2>5, EndLinksRests
  <2> QED BY <1>3, <2>3, <2>4, <2>5, <2>6, StayStep
<1> QED BY <1>4, <1>5, <1>6, <1>7, <1>8, <1>9, <1>10, <1>11, <1>12

LEMMA PassesFollow ==
  ASSUME QuietInv, RestInv, NEW p \in Procs, Procs = {p}, NEW n \in Notes,
         Skip(p, n) \/ Ingest(p, n) \/ Reject(p, n) \/ SweepEdges(p, n)
  PROVE  RestInv'
<1>1. PICK j \in Jobs : j = job[p] /\ pc = [pc EXCEPT ![p] = pc[p]]
  BY NowTyped, PlacesTyped
<1>2. RestOf(pc[p], j) /\ n \in j.todo
  BY <1>1, RestNow DEF Skip, Ingest, Reject, SweepEdges
<1>3. CASE Skip(p, n)
  <2>1. PICK r : r = Facing(j, j.todo \ {n})
    OBVIOUS
  <2>2. But(r, j, {"todo"}) /\ r.todo = j.todo \ {n}
    BY <2>1 DEF Facing, Jobs, But, Locals
  <2>3. /\ pc' = [pc EXCEPT ![p] = "ingest"] /\ job' = [job EXCEPT ![p] = r] /\ RestOf("ingest", j)
        /\ ~j.force /\ n \notin MovedIn(j)
    BY <1>1, <1>2, <1>3, <2>1 DEF Skip, Facing, At, MovedTo, MovedIn
  <2>4. RestOf("ingest", r)
    BY <1>2, <2>2, <2>3, SkipRests
  <2>5. UNCHANGED <<rows, edges, vec, disk, edits, writes>>
    BY <1>3 DEF Skip, tables, world, counts
  <2> QED BY <2>3, <2>4, <2>5, StayStep
<1>4. CASE Ingest(p, n)
  <2>1. PICK t : t = Content(p, n)
    OBVIOUS
  <2>2. PICK r : r = Reading(j, n, t)
    OBVIOUS
  <2>3. But(r, j, {"note", "text"}) /\ r.note = n /\ r.text = t
    BY <2>2 DEF Reading, Jobs, But, Locals
  <2>4. pc' = [pc EXCEPT ![p] = "upsert"] /\ job' = [job EXCEPT ![p] = r] /\ RestOf("ingest", j)
    BY <1>1, <1>2, <1>4, <2>1, <2>2 DEF Ingest, Reading, At, Goto
  <2>5. RestOf("upsert", r)
    BY <1>1, <1>2, <2>1, <2>3, <2>4, IngestRests
  <2>6. UNCHANGED <<rows, edges, vec, disk, edits, writes>>
    BY <1>4 DEF Ingest, tables, world, counts
  <2> QED BY <2>4, <2>5, <2>6, StayStep
<1>5. CASE Reject(p, n)
  <2>1. PICK r : r = Facing(j, j.todo \ {n})
    OBVIOUS
  <2>2. But(r, j, {"todo"}) /\ r.todo = j.todo \ {n}
    BY <2>1 DEF Facing, Jobs, But, Locals
  <2>3. /\ pc' = [pc EXCEPT ![p] = "ingest"] /\ job' = [job EXCEPT ![p] = r] /\ RestOf("ingest", j)
        /\ rows' = IF rows[n] = None THEN rows ELSE [rows EXCEPT ![n].hash = None]
        /\ UNCHANGED <<edges, vec, disk, edits, writes>>
    BY <1>1, <1>2, <1>5, <2>1 DEF Reject, Facing, At, world, counts
  <2>4. RestOf("ingest", r)'
    BY <1>2, <2>2, <2>3, RejectRests
  <2> QED BY <2>3, <2>4, RestStep
<1>6. CASE SweepEdges(p, n)
  <2>1. PICK r : r = Naming(j, n)
    OBVIOUS
  <2>2. But(r, j, {"note"}) /\ r.note = n
    BY <2>1 DEF Naming, Jobs, But, Locals
  <2>3. /\ pc' = [pc EXCEPT ![p] = "delete"] /\ job' = [job EXCEPT ![p] = r] /\ RestOf("sweep", j)
        /\ edges' = edges \ From(n) /\ UNCHANGED <<rows, vec, disk, edits, writes>>
    BY <1>1, <1>2, <1>6, <2>1 DEF SweepEdges, Naming, At, Goto, world, counts
  <2>4. RestOf("delete", r)'
    BY <1>2, <2>2, <2>3, SweepEdgesRests
  <2> QED BY <2>3, <2>4, RestStep
<1> QED BY <1>3, <1>4, <1>5, <1>6

LEMMA RowsFollow ==
  ASSUME QuietInv, RestInv, NEW p \in Procs, Procs = {p},
         MoveRow(p) \/ DropMovedEdges(p) \/ Upsert(p) \/ DeleteRow(p)
  PROVE  RestInv'
<1>1. PICK j \in Jobs : j = job[p] /\ job = [job EXCEPT ![p] = j]
  BY NowTyped
<1>2. RestOf(pc[p], j) /\ ReadyFor(pc[p], j)
  BY <1>1, RestNow DEF QuietInv, RunsTyped
<1>3. CASE MoveRow(p)
  <2>1. PICK pair \in j.pairs :
           /\ rows' = [rows EXCEPT ![pair[2]] = rows[pair[1]], ![pair[1]] = None]
           /\ job' = [job EXCEPT ![p] = Moved(j, j.pairs \ {pair}, j.moved \cup {pair}, pair[1],
                       Put(Drop(j.snap, pair[1]), pair[2], j.snap[pair[1]]))]
    <3>1. PICK pair \in j.pairs :
             /\ rows' = [rows EXCEPT ![pair[2]] = rows[pair[1]], ![pair[1]] = None]
             /\ job' = [job EXCEPT ![p] =
                          [job[p] EXCEPT !.pairs = @ \ {pair}, !.moved = @ \cup {pair},
                                         !.note = pair[1],
                                         !.snap = Put(Drop(@, pair[1]), pair[2], @[pair[1]])]]
      BY <1>1, <1>3 DEF MoveRow
    <3>2. Moved(j, j.pairs \ {pair}, j.moved \cup {pair}, pair[1],
                Put(Drop(j.snap, pair[1]), pair[2], j.snap[pair[1]]))
            = [job[p] EXCEPT !.pairs = @ \ {pair}, !.moved = @ \cup {pair},
                             !.note = pair[1],
                             !.snap = Put(Drop(@, pair[1]), pair[2], @[pair[1]])]
      BY <1>1 DEF Moved
    <3> QED BY <3>1, <3>2
  <2>2. PICK a \in Notes, b \in Notes : pair = <<a, b>> /\ a = pair[1] /\ b = pair[2]
    BY <2>1 DEF Jobs
  <2>3. PICK f : f = Put(Drop(j.snap, a), b, j.snap[a])
    OBVIOUS
  <2>4. PICK r : r = Moved(j, j.pairs \ {<<a, b>>}, j.moved \cup {<<a, b>>}, a, f)
    OBVIOUS
  <2>5. /\ But(r, j, {"pairs", "moved", "note", "snap"})
        /\ r.pairs = j.pairs \ {<<a, b>>} /\ r.moved = j.moved \cup {<<a, b>>} /\ r.note = a
        /\ r.snap = f
    BY <2>4 DEF Moved, Jobs, But, Locals
  <2>6. /\ job' = [job EXCEPT ![p] = r] /\ rows' = [rows EXCEPT ![b] = rows[a], ![a] = None]
        /\ <<a, b>> \in j.pairs
    BY <2>1, <2>2, <2>3, <2>4
  <2>7. /\ pc' = [pc EXCEPT ![p] = "unlink"] /\ RestOf("move", j) /\ PairsApart(j)
        /\ UNCHANGED <<edges, vec, disk, edits, writes>>
    BY <1>2, <1>3 DEF MoveRow, Goto, At, ReadyFor, world, counts
  <2>8. RestOf("unlink", r)'
    BY <1>1, <2>3, <2>5, <2>6, <2>7, MoveRowRests
  <2> QED BY <2>6, <2>7, <2>8, RestStep
<1>4. CASE DropMovedEdges(p)
  <2>1. /\ pc' = [pc EXCEPT ![p] = "move"] /\ job' = [job EXCEPT ![p] = j] /\ RestOf("unlink", j)
        /\ edges' = edges \ From(j.note) /\ UNCHANGED <<rows, vec, disk, edits, writes>>
    BY <1>1, <1>2, <1>4 DEF DropMovedEdges, Goto, At, world, counts
  <2>2. RestOf("move", j)'
    BY <1>1, <2>1, DropMovedEdgesRests
  <2> QED BY <2>1, <2>2, RestStep
<1>5. CASE Upsert(p)
  <2>1. pc[p] = "upsert"
    BY <1>5 DEF Upsert, At
  <2>2. PICK n \in Notes, t \in Texts : n = j.note /\ t = j.text
    BY <1>2, <2>1 DEF ReadyFor
  <2>3. PICK S, f, T : /\ S = j.todo \ {n} /\ f = Put(j.queue, n, t)
                       /\ T = IF n \in MovedIn(j) THEN j.touched ELSE j.touched \cup {n}
    OBVIOUS
  <2>4. PICK r : r = Stored(j, S, f, T)
    OBVIOUS
  <2>5. But(r, j, {"todo", "queue", "touched"}) /\ r.todo = S /\ r.queue = f /\ r.touched = T
    BY <2>4 DEF Stored, Jobs, But, Locals
  <2>6. /\ job' = [job EXCEPT ![p] = r] /\ rows' = [rows EXCEPT ![n] = Row(t, t)]
        /\ UNCHANGED <<edges, vec, disk, edits, writes>>
    BY <1>1, <1>5, <2>2, <2>3, <2>4 DEF Upsert, Stored, MovedTo, MovedIn, world, counts
  <2>7. pc' = [pc EXCEPT ![p] = IF j.one THEN "link" ELSE "ingest"] /\ RestOf("upsert", j)
    BY <1>1, <1>2, <1>5, <2>1 DEF Upsert, Goto
  <2>8. CASE j.one
    <3>1. RestOf("link", r)'
      BY <2>2, <2>3, <2>5, <2>6, <2>7, <2>8, WrittenRests
    <3> QED BY <2>6, <2>7, <2>8, <3>1, RestStep
  <2>9. CASE ~j.one
    <3>1. RestOf("ingest", r)'
      BY <2>2, <2>3, <2>5, <2>6, <2>7, <2>9, UpsertRests
    <3> QED BY <2>6, <2>7, <2>9, <3>1, RestStep
  <2> QED BY <2>8, <2>9
<1>6. CASE DeleteRow(p)
  <2>1. pc[p] = "delete"
    BY <1>6 DEF DeleteRow, At
  <2>2. PICK n \in Notes : n = j.note
    BY <1>2, <2>1 DEF ReadyFor
  <2>3. PICK r : r = Removing(j, j.todo \ {n}, j.removed \cup {n})
    OBVIOUS
  <2>4. But(r, j, {"todo", "removed"}) /\ r.todo = j.todo \ {n} /\ r.removed = j.removed \cup {n}
    BY <2>3 DEF Removing, Jobs, But, Locals
  <2>5. /\ pc' = [pc EXCEPT ![p] = "sweep"] /\ job' = [job EXCEPT ![p] = r] /\ RestOf("delete", j)
        /\ rows' = [rows EXCEPT ![n] = None] /\ UNCHANGED <<edges, vec, disk, edits, writes>>
    BY <1>1, <1>2, <1>6, <2>1, <2>2, <2>3 DEF DeleteRow, Removing, Goto, world, counts
  <2>6. RestOf("sweep", r)'
    BY <2>2, <2>4, <2>5, DeleteRowRests
  <2> QED BY <2>5, <2>6, RestStep
<1> QED BY <1>3, <1>4, <1>5, <1>6

LEMMA LinksFollow ==
  ASSUME QuietInv, RestInv, NEW p \in Procs, Procs = {p},
         \/ \E n \in Notes : Unlink(p, n) \/ AddEdge(p, n)
         \/ \E e \in job[p].broken : Reresolve(p, e)
  PROVE  RestInv'
<1>1. PICK j \in Jobs : j = job[p] /\ pc = [pc EXCEPT ![p] = pc[p]]
  BY NowTyped, PlacesTyped
<1>2. RestOf(pc[p], j)
  BY <1>1, RestNow
<1>3. ASSUME NEW n \in Notes, Unlink(p, n) PROVE RestInv'
  <2>1. PICK f, L : f = Drop(j.queue, n) /\ L = Links[j.queue[n]]
    OBVIOUS
  <2>2. PICK r : r = Unlinking(j, L, f, n)
    OBVIOUS
  <2>3. But(r, j, {"links", "queue", "note"}) /\ r.links = L /\ r.queue = f /\ r.note = n
    BY <2>2 DEF Unlinking, Jobs, But, Locals
  <2>4. /\ pc' = [pc EXCEPT ![p] = "link"] /\ job' = [job EXCEPT ![p] = r] /\ RestOf("link", j)
        /\ edges' = edges \ From(n) /\ j.links = {} /\ n \in DOMAIN j.queue
        /\ UNCHANGED <<rows, vec, disk, edits, writes>>
    BY <1>1, <1>2, <1>3, <2>1, <2>2 DEF Unlink, Unlinking, At, world, counts
  <2>5. RestOf("link", r)'
    BY <2>1, <2>3, <2>4, UnlinkRests
  <2> QED BY <2>4, <2>5, RestStep
<1>4. ASSUME NEW t \in Notes, AddEdge(p, t) PROVE RestInv'
  <2>1. PICK late \in BOOLEAN : late <=> rows[t] = None
    OBVIOUS
  <2>2. PICK r : r = Linking(j, j.links \ {t})
    OBVIOUS
  <2>3. But(r, j, {"links"}) /\ r.links = j.links \ {t}
    BY <2>2 DEF Linking, Jobs, But, Locals
  <2>4. /\ pc' = [pc EXCEPT ![p] = "link"] /\ job' = [job EXCEPT ![p] = r] /\ RestOf("link", j)
        /\ edges' = edges \cup {<<j.note, t, late>>} /\ t \in j.links
        /\ UNCHANGED <<rows, vec, disk, edits, writes>>
    <3>1. <<j.note, t, rows[t] = None>> = <<j.note, t, late>>
      BY <2>1
    <3>2. edges' = edges \cup {<<j.note, t, rows[t] = None>>}
      BY <1>1, <1>4 DEF AddEdge
    <3> QED BY <1>1, <1>2, <1>4, <2>2, <3>1, <3>2 DEF AddEdge, Linking, At, world, counts
  <2>5. RestOf("link", r)'
    BY <2>3, <2>4, AddEdgeRests
  <2> QED BY <2>4, <2>5, RestStep
<1>5. ASSUME NEW e \in job[p].broken, Reresolve(p, e) PROVE RestInv'
  <2>1. PICK r : r = Broken(j, j.broken \ {e})
    OBVIOUS
  <2>2. But(r, j, {"broken"})
    BY <2>1 DEF Broken, Jobs, But, Locals
  <2>3. /\ pc' = [pc EXCEPT ![p] = "reresolve"] /\ job' = [job EXCEPT ![p] = r]
        /\ RestOf("reresolve", j) /\ e \in Arrows
        /\ edges' = IF e \in edges /\ rows[e[2]] # None
                    THEN (edges \ {e}) \cup {<<e[1], e[2], FALSE>>} ELSE edges
        /\ UNCHANGED <<rows, vec, disk, edits, writes>>
    <3>1. e \in Arrows
      BY <1>1 DEF Jobs
    <3> QED BY <1>1, <1>2, <1>5, <2>1, <3>1 DEF Reresolve, Broken, At, world, counts
  <2>4. RestOf("reresolve", r)'
    BY <2>2, <2>3, ReresolveRests
  <2> QED BY <2>3, <2>4, RestStep
<1> QED BY <1>3, <1>4, <1>5

LEMMA FinishStep ==
  ASSUME QuietInv, NEW p \in Procs, Procs = {p}, Finish(p), NEW l, NEW j,
         UNCHANGED <<rows, edges, vec, disk, edits, writes>>,
         RestOf(l, j), l # "unlink", LinksLate(l, j) = {}, Unindexed(l, j) = {}
  PROVE  RestInv'
<1>1. pc' = [pc EXCEPT ![p] = "idle"] /\ job' = [job EXCEPT ![p] = NoJob]
  BY DEF Finish, Goto
<1>2. RestOf("idle", NoJob)
  BY FinishRests
<1> QED BY <1>1, <1>2, StayStep

LEMMA VectorsFollow ==
  ASSUME QuietInv, DriftInv, RestInv, NEW p \in Servers, Procs = {p}, VectorStep(p)
  PROVE  RestInv'
<1>1. PICK j \in Jobs : j = job[p] /\ pc = [pc EXCEPT ![p] = pc[p]] /\ job = [job EXCEPT ![p] = j]
  BY NowTyped, PlacesTyped
<1>2. RestOf(pc[p], j) /\ ShapeOf(pc[p], j) /\ vec \in Vectors
  BY <1>1, RestNow DEF DriftInv
<1>3. ASSUME NEW n \in Notes, DropVector(p, n) PROVE RestInv'
  <2>1. PICK r : r = Shedding(j, j.removed \ {n})
    OBVIOUS
  <2>2. But(r, j, {"removed"}) /\ r.removed = j.removed \ {n}
    BY <2>1 DEF Shedding, Jobs, But, Locals
  <2>3. /\ pc' = [pc EXCEPT ![p] = "vectors"] /\ job' = [job EXCEPT ![p] = r]
        /\ RestOf("vectors", j) /\ n \in j.removed
        /\ vec' = [vec EXCEPT ![n] = None] /\ UNCHANGED <<rows, edges, disk, edits, writes>>
    BY <1>1, <1>2, <1>3, <2>1 DEF DropVector, Shedding, At, world, counts
  <2>4. RestOf("vectors", r)'
    BY <1>2, <2>2, <2>3, DropVectorRests
  <2> QED BY <2>3, <2>4, RestStep
<1>4. CASE MoveVector(p)
  <2>1. PICK pair \in j.moved : /\ vec' = [vec EXCEPT ![pair[2]] = vec[pair[1]], ![pair[1]] = None]
                                /\ job' = [job EXCEPT ![p] = [j EXCEPT !.moved = j.moved \ {pair}]]
    BY <1>1, <1>4 DEF MoveVector
  <2>2. PICK a \in Notes, b \in Notes : pair = <<a, b>> /\ a = pair[1] /\ b = pair[2]
    BY <2>1 DEF Jobs
  <2>3. PICK r : r = Carrying(j, j.moved \ {<<a, b>>})
    OBVIOUS
  <2>4. But(r, j, {"moved"}) /\ r.moved = j.moved \ {<<a, b>>}
    BY <2>3 DEF Carrying, Jobs, But, Locals
  <2>5. /\ vec' = [vec EXCEPT ![b] = vec[a], ![a] = None] /\ job' = [job EXCEPT ![p] = r]
        /\ <<a, b>> \in j.moved
    BY <2>1, <2>2, <2>3 DEF Carrying
  <2>6. /\ pc' = [pc EXCEPT ![p] = "vectors"] /\ RestOf("vectors", j) /\ j.removed = {}
        /\ UNCHANGED <<rows, edges, disk, edits, writes>>
    BY <1>1, <1>2, <1>4 DEF MoveVector, At, world, counts
  <2>7. RestOf("vectors", r)'
    BY <1>2, <2>4, <2>5, <2>6, MoveVectorRests
  <2> QED BY <2>5, <2>6, <2>7, RestStep
<1>5. CASE EndVectors(p)
  <2>1. PICK r : r = Touching(j, j.touched, {})
    OBVIOUS
  <2>2. But(r, j, {"todo", "touched"}) /\ r.todo = j.touched /\ r.touched = {}
    BY <2>1 DEF Touching, Jobs, But, Locals
  <2>3. /\ pc' = [pc EXCEPT ![p] = "embed"] /\ job' = [job EXCEPT ![p] = r]
        /\ RestOf("vectors", j) /\ j.removed = {} /\ j.moved = {}
        /\ UNCHANGED <<rows, edges, vec, disk, edits, writes>>
    BY <1>1, <1>2, <1>5, <2>1 DEF EndVectors, Touching, Goto, At, tables, world, counts
  <2>4. RestOf("embed", r)
    BY <2>2, <2>3, EndVectorsRests
  <2> QED BY <2>3, <2>4, StayStep
<1>6. ASSUME NEW n \in Notes, ReadRow(p, n) PROVE RestInv'
  <2>1. RestOf("embed", j) /\ n \in j.todo /\ UNCHANGED <<rows, edges, vec, disk, edits, writes>>
        /\ pc[p] = "embed"
    BY <1>1, <1>2, <1>6 DEF ReadRow, At, tables, world, counts
  <2>2. CASE rows[n] = None
    <3>1. PICK r : r = Facing(j, j.todo \ {n})
      OBVIOUS
    <3>2. But(r, j, {"todo"}) /\ r.todo = j.todo \ {n}
      BY <3>1 DEF Facing, Jobs, But, Locals
    <3>3. pc' = [pc EXCEPT ![p] = "embed"] /\ job' = [job EXCEPT ![p] = r]
      BY <1>1, <1>6, <2>1, <2>2, <3>1 DEF ReadRow, Facing
    <3>4. RestOf("embed", r)
      BY <2>1, <2>2, <3>2, ReadRowRests
    <3> QED BY <2>1, <3>3, <3>4, StayStep
  <2>3. CASE rows[n] # None
    <3>1. PICK t : t = rows[n].body
      OBVIOUS
    <3>2. PICK r : r = Visiting(j, j.todo \ {n}, n, t)
      OBVIOUS
    <3>3. But(r, j, {"todo", "note", "text"}) /\ r.todo = j.todo \ {n} /\ r.note = n /\ r.text = t
      BY <3>2 DEF Visiting, Jobs, But, Locals
    <3>4. pc' = [pc EXCEPT ![p] = "store"] /\ job' = [job EXCEPT ![p] = r]
      BY <1>1, <1>6, <2>3, <3>1, <3>2 DEF ReadRow, Visiting, Goto
    <3>5. RestOf("store", r)
      BY <2>1, <2>3, <3>1, <3>3, ReadRowRests
    <3> QED BY <2>1, <3>4, <3>5, StayStep
  <2> QED BY <2>2, <2>3
<1>7. CASE StoreVector(p)
  <2>1. pc[p] = "store"
    BY <1>7 DEF StoreVector, At
  <2>2. PICK n \in Notes, t \in Texts : n = j.note /\ t = j.text
    BY <1>2, <2>1 DEF ShapeOf
  <2>3. /\ pc' = [pc EXCEPT ![p] = "embed"] /\ job' = [job EXCEPT ![p] = j] /\ RestOf("store", j)
        /\ vec' = [vec EXCEPT ![n] = t] /\ UNCHANGED <<rows, edges, disk, edits, writes>>
    BY <1>1, <1>2, <1>7, <2>1, <2>2 DEF StoreVector, Goto, world, counts
  <2>4. RestOf("embed", j)'
    BY <1>2, <2>2, <2>3, StoreVectorRests
  <2> QED BY <2>3, <2>4, RestStep
<1>8. CASE EndEmbed(p)
  <2>1. RestOf("embed", j) /\ j.todo = {} /\ UNCHANGED <<rows, edges, vec, disk, edits, writes>>
    BY <1>1, <1>2, <1>8 DEF EndEmbed, At, tables, counts
  <2>2. CASE Finish(p)
    <3>1. j.touched = {} /\ j.removed = {} /\ j.moved = {}
      BY <2>1 DEF RestOf, HandOf, Embedding
    <3>2. LinksLate("embed", j) = {} /\ Unindexed("embed", j) = {}
      BY <2>1, <3>1 DEF LinksLate, Unindexed, MovedIn, MovedOut
    <3>3. p \in Procs /\ "embed" # "unlink"
      BY DEF Procs
    <3> QED BY <2>1, <2>2, <3>2, <3>3, FinishStep
  <2>3. CASE ~Finish(p)
    <3>1. PICK r : r = Locked(j, FALSE)
      OBVIOUS
    <3>2. But(r, j, {})
      BY <3>1 DEF Locked, Jobs, But, Locals
    <3>3. pc' = [pc EXCEPT ![p] = "replock"] /\ job' = [job EXCEPT ![p] = r]
      BY <1>1, <1>8, <2>3, <3>1 DEF EndEmbed, Locked, Goto
    <3>4. RestOf("replock", r)
      BY <2>1, <3>2, LockRests
    <3> QED BY <2>1, <3>3, <3>4, StayStep
  <2> QED BY <2>2, <2>3
<1>9. CASE NoDelta(p)
  <2>1. RestOf("replock", j) /\ UNCHANGED <<rows, edges, vec, disk, edits, writes>> /\ Finish(p)
    BY <1>2, <1>9 DEF NoDelta, At, tables, world, counts
  <2>2. j.touched = {} /\ j.removed = {} /\ j.moved = {}
    BY <2>1 DEF RestOf, HandOf, Embedding
  <2>3. LinksLate("replock", j) = {} /\ Unindexed("replock", j) = {}
    BY <2>2 DEF LinksLate, Unindexed, MovedIn, MovedOut
  <2>4. p \in Procs /\ "replock" # "unlink"
    BY DEF Procs
  <2> QED BY <2>1, <2>3, <2>4, FinishStep
<1>10. CASE ListDrift(p)
  <2>1. PICK r : r = Drifting(j, Orphans, Missing)
    OBVIOUS
  <2>2. But(r, j, {"removed", "touched"}) /\ r.removed = Orphans /\ r.touched = Missing
    BY <2>1 DEF Drifting, Jobs, But, Locals
  <2>3. /\ pc' = [pc EXCEPT ![p] = "vectors"] /\ job' = [job EXCEPT ![p] = r] /\ RestOf("lists", j)
        /\ UNCHANGED <<rows, edges, vec, disk, edits, writes>>
    BY <1>1, <1>2, <1>10, <2>1 DEF ListDrift, Drifting, Goto, At, tables, world, counts
  <2>4. RestOf("vectors", r)
    BY <2>2, <2>3, ListDriftRests
  <2> QED BY <2>3, <2>4, StayStep
<1> QED BY <1>3, <1>4, <1>5, <1>6, <1>7, <1>8, <1>9, <1>10 DEF VectorStep

LEMMA WritesFollow ==
  ASSUME QuietInv, DriftInv, RestInv, NEW p \in Procs, Procs = {p},
         WriteFile(p) \/ Resync(p) \/ IndexWritten(p)
  PROVE  RestInv'
<1>1. PICK j \in Jobs : j = job[p] /\ job = [job EXCEPT ![p] = j]
  BY NowTyped
<1>2. RestOf(pc[p], j) /\ ReadyFor(pc[p], j) /\ vec \in Vectors
  BY <1>1, RestNow DEF DriftInv, QuietInv, RunsTyped
<1>3. CASE WriteFile(p)
  <2>1. pc[p] = "write"
    BY <1>3 DEF WriteFile, At
  <2>2. PICK n \in Notes : n = j.note
    BY <1>2, <2>1 DEF ReadyFor
  <2>3. /\ pc' = [pc EXCEPT ![p] = "resync"] /\ job' = [job EXCEPT ![p] = j] /\ RestOf("write", j)
        /\ disk' = [disk EXCEPT ![n] = j.new] /\ UNCHANGED <<rows, edges, vec, edits, writes>>
    BY <1>1, <1>2, <1>3, <2>1, <2>2 DEF WriteFile, Goto, tables, counts
  <2>4. RestOf("resync", j)'
    BY <2>2, <2>3, WriteFileRests
  <2> QED BY <2>3, <2>4, RestStep
<1>4. CASE Resync(p)
  <2>1. RestOf("resync", j) /\ UNCHANGED <<rows, edges, vec, disk, edits, writes>>
    BY <1>2, <1>4 DEF Resync, At, tables, world, counts
  <2>2. CASE Finish(p)
    <3>1. Idling(j)
      BY <2>1 DEF RestOf, HandOf
    <3>2. LinksLate("resync", j) = {} /\ Unindexed("resync", j) = {}
      BY <3>1 DEF Idling, LinksLate, Unindexed, MovedIn, MovedOut
    <3>3. "resync" # "unlink"
      OBVIOUS
    <3> QED BY <2>1, <2>2, <3>2, <3>3, FinishStep
  <2>3. CASE ~Finish(p)
    <3>1. PICK t : t = disk[j.note]
      OBVIOUS
    <3>2. PICK r : r = Rereading(j, t)
      OBVIOUS
    <3>3. But(r, j, {"text"}) /\ r.text = t
      BY <3>2 DEF Rereading, Jobs, But, Locals
    <3>4. pc' = [pc EXCEPT ![p] = "upsert"] /\ job' = [job EXCEPT ![p] = r]
      BY <1>1, <1>4, <2>3, <3>1, <3>2 DEF Resync, Rereading, Goto
    <3>5. RestOf("upsert", r)
      BY <2>1, <3>1, <3>3, ResyncRests
    <3> QED BY <2>1, <3>4, <3>5, StayStep
  <2> QED BY <2>2, <2>3
<1>5. CASE IndexWritten(p)
  <2>1. /\ pc' = [pc EXCEPT ![p] = "idle"] /\ job' = [job EXCEPT ![p] = NoJob]
        /\ RestOf("reresolve", j) /\ vec' = [vec EXCEPT ![j.note] = j.new]
        /\ UNCHANGED <<rows, edges, disk, edits, writes>>
    BY <1>1, <1>2, <1>5 DEF IndexWritten, At, Finish, Goto, world, counts
  <2>2. j.note \in Notes
    <3>1. j.one /\ j.touched = {j.note} /\ j.touched \subseteq Notes
      BY <2>1 DEF RestOf, HandOf, Jobs
    <3> QED BY <3>1
  <2>3. PICK n, t : n = j.note /\ t = j.new
    OBVIOUS
  <2>4. RestOf("idle", NoJob)'
    BY <1>2, <2>1, <2>2, <2>3, IndexWrittenRests
  <2> QED BY <2>1, <2>4, RestStep
<1> QED BY <1>3, <1>4, <1>5

LEMMA OwnersFollow ==
  ASSUME QuietInv, RebuildInv, RestInv, NEW p \in Procs, Procs = {p},
         \/ \E n \in Notes, t \in Texts \ Unparsable : Write(p, n, t)
         \/ \E d : Revise(d)
  PROVE  RestInv'
<1>1. PICK j \in Jobs : j = job[p] /\ pc = [pc EXCEPT ![p] = pc[p]]
  BY NowTyped, PlacesTyped
<1>2. RestOf(pc[p], j) /\ edits \in Nat /\ writes \in Nat
  BY <1>1, RestNow DEF RebuildInv
<1>3. ASSUME NEW n \in Notes, NEW t \in Texts \ Unparsable, Write(p, n, t) PROVE RestInv'
  <2>1. PICK r : r = [NoJob EXCEPT !.one = TRUE, !.note = n, !.new = t]
    OBVIOUS
  <2>2. job' = [job EXCEPT ![p] = r]
    <3>1. job \in [Procs -> Jobs] /\ DOMAIN Overlap(p) = Procs
      BY PlacesTyped DEF Overlap
    <3>2. [Overlap(p) EXCEPT ![p] = r] = [job EXCEPT ![p] = r]
      BY <3>1
    <3> QED BY <1>3, <2>1, <3>2 DEF Write
  <2>3. /\ pc' = [pc EXCEPT ![p] = "write"] /\ RestOf("idle", j)
        /\ writes' # 0 /\ UNCHANGED <<rows, edges, vec, disk, edits>>
    <3>1. pc' = [pc EXCEPT ![p] = "write"] /\ pc[p] = "idle" /\ writes' = writes + 1
          /\ UNCHANGED <<rows, edges, vec, disk, edits>>
      BY <1>3 DEF Write, Goto, At, tables
    <3>2. RestOf("idle", j) /\ writes' # 0
      BY <1>2, <3>1
    <3> QED BY <3>1, <3>2
  <2>4. RestOf("write", r)'
    BY <2>1, <2>3, WriteRests
  <2> QED BY <2>2, <2>3, <2>4, RestStep
<1>4. ASSUME NEW d, Revise(d) PROVE RestInv'
  <2>1. PICK r, l : r = Overlapped(j) /\ l = pc[p]
    OBVIOUS
  <2>2. But(r, j, {})
    BY <2>1 DEF Overlapped, Jobs, But, Locals
  <2>3. job' = [job EXCEPT ![p] = r] /\ pc' = [pc EXCEPT ![p] = l]
    <3>1. job \in [Procs -> Jobs]
      BY PlacesTyped
    <3>2. job' = [q \in Procs |-> Overlapped(job[q])]
      BY <1>4 DEF Revise, Overlapped
    <3> QED BY <1>1, <1>4, <2>1, <3>1, <3>2 DEF Revise
  <2>4. edits' # 0 /\ UNCHANGED <<rows, edges, vec, writes>>
    <3>1. edits' = edits + 1 /\ UNCHANGED <<rows, edges, vec, writes>>
      BY <1>4 DEF Revise, tables
    <3> QED BY <1>2, <3>1
  <2>5. RestOf(l, r)'
    BY <1>2, <2>1, <2>2, <2>4, ReviseRests
  <2> QED BY <2>3, <2>5, RestStep
<1> QED BY <1>3, <1>4

LEMMA RestInvStarts == Init => RestInv
<1> SUFFICES ASSUME Init PROVE RestInv
  OBVIOUS
<1>1. \A p \in Procs : pc[p] = "idle" /\ job[p] = NoJob
  BY DEF Init, InitWith
<1>2. /\ ~NoJob.one /\ NoJob.links = {} /\ DOMAIN NoJob.queue = {} /\ NoJob.moved = {}
      /\ NoJob.touched = {} /\ NoJob.removed = {}
  BY DEF NoJob
<1>3. HandOf("idle", NoJob) /\ PassOf("idle", NoJob)
  BY <1>2 DEF HandOf, PassOf, Idling, Embedding
<1>4. PICK b \in BOOLEAN :
         edges = {e \in Notes \X Notes \X BOOLEAN :
                     /\ rows[e[1]] # None /\ e[2] \in Links[rows[e[1]].body]
                     /\ e[3] = IF Rebuild THEN b ELSE rows[e[2]] = None}
  BY DEF Init, InitWith
<1>5. \A e \in edges : e[1] \in Notes /\ rows[e[1]] # None
  BY <1>4
<1>6. ASSUME NEW n \in Indexed PROVE Targets(n) = Links[rows[n].body]
  <2>1. Links[rows[n].body] \subseteq Notes /\ n \in Notes /\ rows[n] # None
    <3>1. n \in Notes /\ rows[n] # None
      BY DEF Indexed
    <3>2. rows[n].body \in Texts
      BY <3>1, QuietInvStarts, RowsAreTyped DEF QuietInv
    <3> QED BY <3>1, <3>2, VaultConstants
  <2>2. ASSUME NEW t \in Links[rows[n].body] PROVE t \in Targets(n)
    <3>1. PICK late \in BOOLEAN : late = IF Rebuild THEN b ELSE rows[t] = None
      OBVIOUS
    <3>2. PICK e \in Notes \X Notes \X BOOLEAN : e[1] = n /\ e[2] = t /\ e[3] = late
      <4>1. <<n, t, late>> \in Notes \X Notes \X BOOLEAN
        BY <2>1
      <4> QED BY <4>1
    <3>3. e \in edges
      BY <1>4, <2>1, <3>1, <3>2
    <3> QED BY <3>2, <3>3 DEF Targets, From
  <2>3. \A t \in Targets(n) : t \in Links[rows[n].body]
    BY <1>4 DEF Targets, From
  <2> QED BY <2>2, <2>3
<1>7. GraphOf("idle", NoJob)
  BY <1>5, <1>6 DEF GraphOf, EdgesFollow
<1>8. \A n \in Notes : vec[n] = Body(n)
  BY DEF Init, InitWith, Body
<1>9. VectorsOf("idle", NoJob)
  BY <1>2, <1>8 DEF VectorsOf
<1> QED BY <1>1, <1>3, <1>7, <1>9 DEF RestInv

LEMMA RestInvKept ==
  ASSUME NEW s \in Servers, Procs = {s}, MaxFaults = 0
  PROVE  QuietInv /\ RebuildInv /\ DriftInv /\ RestInv /\ [Next]_vars => RestInv'
<1> SUFFICES ASSUME QuietInv, RebuildInv, DriftInv, RestInv, [Next]_vars PROVE RestInv'
  OBVIOUS
<1>1. s \in Procs
  BY DEF Procs
<1>2. ~GiveUpLock(s) /\ ~Die(s) /\ ~Abort(s)
  <2>1. ~(crashes + giveups < MaxFaults)
    BY DEF DriftInv, RebuildInv
  <2> QED BY <2>1 DEF GiveUpLock, Die, Abort
<1>3. ASSUME SyncStep(s) PROVE RestInv'
  <2>1. CASE TakeLock(s) \/ Recheck(s) \/ Mark(s) \/ Unlock(s)
    BY <1>1, <2>1, LockFollows
  <2>2. CASE \/ StartSync(s) \/ Purge(s) \/ Walk(s) \/ Snapshot(s) \/ Pair(s) \/ EndMoves(s)
             \/ EndIngest(s) \/ EndSweep(s) \/ EndLinks(s)
    BY <1>1, <2>2, ListingFollows
  <2>3. CASE \E n \in Notes : Skip(s, n) \/ Ingest(s, n) \/ Reject(s, n) \/ SweepEdges(s, n)
    BY <1>1, <2>3, PassesFollow
  <2>4. CASE MoveRow(s) \/ DropMovedEdges(s) \/ Upsert(s) \/ DeleteRow(s)
    BY <1>1, <2>4, RowsFollow
  <2>5. CASE \E n \in Notes : Unlink(s, n) \/ AddEdge(s, n)
    BY <1>1, <2>5, LinksFollow
  <2> QED BY <1>2, <1>3, <2>1, <2>2, <2>3, <2>4, <2>5 DEF SyncStep
<1>4. ASSUME WriteStep(s) PROVE RestInv'
  BY <1>1, <1>4, WritesFollow, LinksFollow DEF WriteStep
<1>5. CASE \/ \E p \in Servers, n \in Notes, t \in Texts \ Unparsable : Write(p, n, t)
           \/ \E n \in Notes, t \in Texts \cup {None} : Edit(n, t)
           \/ \E n, m \in Notes : Rename(n, m)
  <2>1. \A p \in Servers : p = s
    BY DEF Procs
  <2>2. \/ \E n \in Notes, t \in Texts \ Unparsable : Write(s, n, t)
        \/ \E d : Revise(d)
    BY <1>5, <2>1 DEF Edit, Rename
  <2> QED BY <1>1, <2>2, OwnersFollow
<1>6. CASE UNCHANGED vars
  <2>1. pc' = pc /\ job' = job /\ UNCHANGED <<rows, edges, vec, disk, edits, writes>>
    BY <1>6 DEF vars, counts
  <2>2. pc' = [pc EXCEPT ![s] = pc[s]] /\ job' = [job EXCEPT ![s] = job[s]]
    BY <1>1, <2>1, PlacesTyped
  <2>3. PICK l, j : l = pc[s] /\ j = job[s]
    OBVIOUS
  <2>4. RestOf(l, j)
    BY <1>1, <2>3, RestNow
  <2> QED BY <1>1, <2>1, <2>2, <2>3, <2>4, StayStep
<1> QED BY <1>1, <1>2, <1>3, <1>4, <1>5, <1>6, VectorsFollow DEF Next, Step

LEMMA RestIsWhole ==
  ASSUME NEW s \in Procs, RestInv
  PROVE  IndexFollowsRows
<1>1. RestOf(pc[s], job[s])
  BY RestNow
<1>2. AtRest => RestOf("idle", job[s])
  BY <1>1 DEF AtRest, At
<1>3. GraphFollowsRows
  <2>1. LinksLate("idle", job[s]) = {}
    BY DEF LinksLate
  <2> QED BY <1>2, <2>1 DEF GraphFollowsRows, RestOf, GraphOf, Indexed
<1>4. VectorsFollowRows
  <2>1. Unindexed("idle", job[s]) = {}
    BY DEF Unindexed
  <2> QED BY <1>2, <2>1 DEF VectorsFollowRows, RestOf, VectorsOf, Body
<1> QED BY <1>3, <1>4 DEF IndexFollowsRows

(* A server that has the vault to itself leaves, whenever it rests, links     *)
(* and vectors that are those of the rows: after any number of syncs,         *)
(* rebuilds and tool writes, whatever files came, went, moved and stopped     *)
(* parsing between and during them, as long as no run is cut short.           *)
THEOREM IndexAlwaysFollows ==
  ASSUME NEW s \in Servers, Procs = {s}, MaxFaults = 0
  PROVE  Spec => []IndexFollowsRows
<1>1. Spec => []RestInv
  <2>1. QuietInv /\ RebuildInv /\ DriftInv /\ RestInv /\ [Next]_vars => RestInv'
    BY RestInvKept
  <2> QED BY <2>1, QuietInvStarts, QuietInvKept, RebuildInvStarts, RebuildInvKept,
             DriftInvStarts, DriftInvKept, RestInvStarts, PTL DEF Spec
<1>2. RestInv => IndexFollowsRows
  BY RestIsWhole DEF Procs
<1> QED BY <1>1, <1>2, PTL

=============================================================================
