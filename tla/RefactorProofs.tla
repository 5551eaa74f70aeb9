---------------------------- MODULE RefactorProofs ----------------------------
(***************************************************************************)
(* Renames, deletes and appends, for any number of servers, notes and calls *)
(* and wherever the calls are cut short:                                    *)
(*   - no answered append is lost (IInv: who is past a lock holds it, a     *)
(*     text about to be written has every edit of the file it is written    *)
(*     over, and an edit that has been written is in a file, or gone);      *)
(*   - a note that no rename or delete is about agrees with its row, vector *)
(*     and links (ByInv: but for what the holder of its lock has to do);    *)
(*   - calls one after the other leave them those of the files (AloneInv:   *)
(*     for each label, what the one call at work has left to do);           *)
(*   - and no broken link by path (LinkInv: the links to the note of the    *)
(*     call are in the sources it has still to rewrite).                    *)
(***************************************************************************)
EXTENDS Refactor, TLAPS, FiniteSetTheorems

Inside == {"read", "write", "sync", "index", "move", "rekey", "moveedges", "movevec",
           "resync", "unlink", "droprow", "dropedges", "dropvec"}
Labels == Inside \cup {"idle", "inbound", "sources", "lock", "targetlock"}

Jobs == [op : Ops \cup {None}, note : Notes \cup {None}, to : Notes \cup {None},
         edit : Edits \cup {None}, link : NewLinks \cup {None}, at : Notes \cup {None},
         todo : SUBSET Notes, text : Texts]

Typed ==
    /\ disk \in [Notes -> Texts \cup {None}]
    /\ edges \subseteq Edges
    /\ lock \in [Notes -> Servers \cup {None}]
    /\ pc \in [Servers -> Labels]
    /\ job \in [Servers -> Jobs]

\* The arguments a call keeps from its beginning to its end.
WellCalled(j) ==
    /\ j.op = "append" => j.edit \in Edits
    /\ j.op = "rename" => j.note \in Notes /\ j.to \in Notes /\ j.note # j.to
    /\ j.op \in {"safe", "cascade"} => j.note \in Notes

Aimed(p) ==
    /\ WellCalled(job[p])
    /\ pc[p] = "idle" \/ job[p].op # None
    /\ pc[p] \in {"inbound", "sources", "targetlock"} => job[p].op # "append"
    /\ pc[p] \in {"lock", "targetlock"} => job[p].at \in Notes
    /\ pc[p] = "targetlock" =>
         job[p].at = IF job[p].op = "rename" THEN job[p].to ELSE job[p].note
    /\ pc[p] = "move" => job[p].op = "rename" /\ job[p].at = job[p].to
    /\ pc[p] \in {"rekey", "moveedges", "movevec", "resync"} => job[p].op = "rename"

Guarded(p) == pc[p] \in Inside => job[p].at \in Notes /\ lock[job[p].at] = p

\* What is about to be written has every edit of what it is written over.
Fresh(p) ==
    pc[p] = "write" =>
      /\ Says(job[p].at) \subseteq job[p].text.says
      /\ job[p].op = "append" => job[p].edit \in job[p].text.says

Written(e) ==
    \/ e \in answered
    \/ \E p \in Servers : pc[p] \in {"sync", "index"} /\ job[p].op = "append" /\ job[p].edit = e

Kept(e) == e \in gone \/ \E n \in Notes : e \in Says(n)

IInv ==
    /\ Typed
    /\ \A p \in Servers : Aimed(p) /\ Guarded(p) /\ Fresh(p)
    /\ \A e : Written(e) => Kept(e)

----------------------------------------------------------------------------
(* What the operators return.                                              *)

\* A resolved link is one of the notes at hand, or nothing.
LEMMA ResolveType ==
    ASSUME NEW l, NEW paths \in SUBSET Notes
    PROVE  Resolve(l, paths) \in Notes \cup {None}
<1> DEFINE matches == {n \in paths : n = l \/ Base[n] = l}
<1>1. Cardinality(matches) = 1 => matches # {} BY FS_EmptySet
<1>2. matches # {} => (CHOOSE n \in matches : TRUE) \in matches OBVIOUS
<1> QED BY <1>1, <1>2 DEF Resolve

\* A rewritten text has every edit of the text, and the appended one.
LEMMA RewriteKeeps ==
    ASSUME NEW j \in Jobs, WellCalled(j), j.op # None, NEW text \in Texts
    PROVE  /\ Rewrite(j, text) \in Texts
           /\ text.says \subseteq Rewrite(j, text).says
           /\ j.op = "append" => j.edit \in Rewrite(j, text).says
<1>1. CASE j.op = "append"
  <2>1. j.link \in Names \cup {None} BY RefactorConstants DEF Jobs
  <2>2. Rewrite(j, text) = [says |-> text.says \cup {j.edit},
                            links |-> text.links \cup ({j.link} \ {None})]
        BY <1>1 DEF Rewrite
  <2> QED BY <1>1, <2>1, <2>2 DEF Texts, WellCalled
<1>2. CASE j.op = "rename"
  <2>1. Rewrite(j, text) = [text EXCEPT !.links =
                              IF j.note \in @ THEN (@ \ {j.note}) \cup {j.to} ELSE @]
        BY <1>2 DEF Rewrite
  <2> QED BY <1>2, <2>1 DEF Texts, WellCalled, Names
<1>3. CASE j.op # "append" /\ j.op # "rename"
  <2>1. Rewrite(j, text) = [text EXCEPT !.links = @ \ {j.note}]
        BY <1>3 DEF Rewrite
  <2> QED BY <1>3, <2>1 DEF Texts
<1> QED BY <1>1, <1>2, <1>3

\* sync_one leaves a relations table of edges between notes.
LEMMA SyncOneType ==
    ASSUME NEW n \in Notes, edges \subseteq Edges, disk[n] \in Texts, SyncOne(n)
    PROVE  edges' \subseteq Edges
<1> DEFINE r == [rows EXCEPT ![n] =
                   [text |-> disk[n], born |-> IF @ = None THEN "later" ELSE @.born]]
           fresh == {[from |-> n, link |-> l, to |-> Resolve(l, Indexed(r))] :
                       l \in disk[n].links}
           mend(e) == IF e.to = None /\ e.link \in {n, Base[n]}
                      THEN [e EXCEPT !.to = Resolve(e.link, Indexed(r))] ELSE e
<1> HIDE DEF r
<1>1. Indexed(r) \in SUBSET Notes BY DEF Indexed
<1>2. \A l : Resolve(l, Indexed(r)) \in Notes \cup {None} BY <1>1, ResolveType
<1>3. fresh \subseteq Edges BY <1>2 DEF Edges, Texts
<1>4. \A e \in Edges : mend(e) \in Edges BY <1>2 DEF Edges
<1>5. edges' = {mend(e) : e \in (edges \ From(n)) \cup fresh} BY DEF SyncOne, r
<1> QED BY <1>3, <1>4, <1>5

----------------------------------------------------------------------------
(* What several actions have in common.                                    *)

\* A call that ends takes nothing from the others.
LEMMA FinishKeeps ==
    ASSUME IInv, NEW p \in Servers, Finish(p), disk' = disk, gone' = gone,
           edges' \subseteq Edges, \A e \in answered' : Written(e)
    PROVE  IInv'
<1>1. NoJob \in Jobs /\ WellCalled(NoJob)
  <2>1. NoText \in Texts BY DEF NoText, Texts
  <2>2. NoJob \in Jobs BY <2>1 DEF NoJob, Jobs
  <2> QED BY <2>2, RefactorConstants DEF NoJob, WellCalled
<1>2. Typed'
      BY <1>1 DEF IInv, Typed, Finish, Goto, Labels, Holds
<1>3. pc'[p] = "idle" /\ job'[p] = NoJob BY DEF IInv, Typed, Finish, Goto
<1>4. ASSUME NEW q \in Servers \ {p} PROVE pc'[q] = pc[q] /\ job'[q] = job[q]
      BY <1>4 DEF IInv, Typed, Finish, Goto
<1>5. ASSUME NEW q \in Servers PROVE (Aimed(q) /\ Guarded(q) /\ Fresh(q))'
  <2>1. CASE q = p BY <2>1, <1>1, <1>3 DEF Aimed, Guarded, Fresh, Inside
  <2>2. CASE q # p
    <3>1. Aimed(q) /\ Guarded(q) /\ Fresh(q) BY DEF IInv
    <3>2. Aimed(q)' BY <3>1, <1>4, <2>2 DEF Aimed, WellCalled
    <3>3. Guarded(q)'
          BY <3>1, <1>4, <2>2 DEF Guarded, Finish, Holds, IInv, Typed
    <3>4. Fresh(q)' BY <3>1, <1>4, <2>2 DEF Fresh, Says
    <3> QED BY <3>2, <3>3, <3>4
  <2> QED BY <2>1, <2>2
<1>6. \A e : Written(e)' => Written(e) BY <1>3, <1>4 DEF Written
<1>7. \A e : Kept(e)' <=> Kept(e) BY DEF Kept, Says
<1> QED BY <1>2, <1>5, <1>6, <1>7 DEF IInv

\* Nor does one that turns from a source to the next.
LEMMA NextSourceKeeps ==
    ASSUME IInv, NEW p \in Servers, NextSource(p), disk' = disk, gone' = gone,
           edges = edges', answered' = answered,
           pc[p] \in Inside, job[p].op # "append"
    PROVE  IInv'
<1> DEFINE j == [job[p] EXCEPT !.at = None, !.text = NoText]
<1>0. job[p] \in Jobs /\ WellCalled(job[p]) BY DEF IInv, Typed, Aimed
<1>1. j \in Jobs /\ j.op = job[p].op /\ WellCalled(j)
  <2>1. NoText \in Texts BY DEF NoText, Texts
  <2>2. j \in Jobs BY <1>0, <2>1 DEF Jobs
  <2> QED BY <1>0, <2>2 DEF Jobs, WellCalled
<1> HIDE DEF j
<1>2. pc'[p] = "sources" /\ job'[p] = j
      BY DEF IInv, Typed, NextSource, Goto, j
<1>3. ASSUME NEW q \in Servers \ {p} PROVE pc'[q] = pc[q] /\ job'[q] = job[q]
      BY <1>3 DEF IInv, Typed, NextSource, Goto
<1>4. Typed'
  <2>1. job' \in [Servers -> Jobs]
        BY <1>1, <1>2, <1>3 DEF IInv, Typed, NextSource
  <2> QED BY <2>1 DEF IInv, Typed, NextSource, Goto, Labels, Holds
<1>5. ASSUME NEW q \in Servers PROVE (Aimed(q) /\ Guarded(q) /\ Fresh(q))'
  <2>1. CASE q = p
        BY <2>1, <1>1, <1>2 DEF Aimed, Guarded, Fresh, Inside, IInv
  <2>2. CASE q # p
    <3>1. Aimed(q) /\ Guarded(q) /\ Fresh(q) BY DEF IInv
    <3>2. Aimed(q)' BY <3>1, <1>3, <2>2 DEF Aimed, WellCalled
    <3>3. Guarded(q)'
          BY <3>1, <1>3, <2>2 DEF Guarded, NextSource, Holds, IInv, Typed
    <3>4. Fresh(q)' BY <3>1, <1>3, <2>2 DEF Fresh, Says
    <3> QED BY <3>2, <3>3, <3>4
  <2> QED BY <2>1, <2>2
<1>6. \A e : Written(e)' => Written(e) BY <1>2, <1>3 DEF Written
<1>7. \A e : Kept(e)' <=> Kept(e) BY DEF Kept, Says
<1> QED BY <1>4, <1>5, <1>6, <1>7 DEF IInv

\* Nor one that goes on inside its lock and leaves the files alone.
LEMMA StepKeeps ==
    ASSUME IInv, NEW p \in Servers, NEW label \in Inside \ {"write", "sync", "move"},
           Goto(p, label), UNCHANGED <<disk, lock, job, gone, answered>>,
           edges' \subseteq Edges, pc[p] \in Inside, label = "index" => pc[p] = "sync",
           label \in {"rekey", "moveedges", "movevec", "resync"} => job[p].op = "rename"
    PROVE  IInv'
<1>1. pc'[p] = label BY DEF IInv, Typed, Goto
<1>2. ASSUME NEW q \in Servers \ {p} PROVE pc'[q] = pc[q] BY <1>2 DEF IInv, Typed, Goto
<1>3. Typed' BY DEF IInv, Typed, Goto, Labels
<1>4. ASSUME NEW q \in Servers PROVE (Aimed(q) /\ Guarded(q) /\ Fresh(q))'
  <2>1. Aimed(q) /\ Guarded(q) /\ Fresh(q) BY DEF IInv
  <2>2. CASE q = p BY <2>1, <2>2, <1>1 DEF Aimed, Guarded, Fresh, Inside, WellCalled
  <2>3. CASE q # p BY <2>1, <2>3, <1>2 DEF Aimed, Guarded, Fresh, Says, WellCalled
  <2> QED BY <2>2, <2>3
<1>5. \A e : Written(e)' => Written(e) BY <1>1, <1>2 DEF Written
<1>6. \A e : Kept(e)' <=> Kept(e) BY DEF Kept, Says
<1> QED BY <1>3, <1>4, <1>5, <1>6 DEF IInv

\* Nor a call that begins, or one that has looked where to go and holds no lock.
LEMMA TurnKeeps ==
    ASSUME IInv, NEW p \in Servers, NEW j \in Jobs, WellCalled(j), j.op # None,
           NEW label \in {"lock", "inbound", "sources", "targetlock"},
           job' = [job EXCEPT ![p] = j], pc' = [pc EXCEPT ![p] = label],
           UNCHANGED <<disk, edges, lock, gone, answered>>,
           label # "lock" => j.op # "append",
           label \in {"lock", "targetlock"} => j.at \in Notes,
           label = "targetlock" => j.at = IF j.op = "rename" THEN j.to ELSE j.note
    PROVE  IInv'
<1>1. pc'[p] = label /\ job'[p] = j BY DEF IInv, Typed
<1>2. ASSUME NEW q \in Servers \ {p} PROVE pc'[q] = pc[q] /\ job'[q] = job[q]
      BY <1>2 DEF IInv, Typed
<1>3. Typed' BY DEF IInv, Typed, Labels
<1>4. ASSUME NEW q \in Servers PROVE (Aimed(q) /\ Guarded(q) /\ Fresh(q))'
  <2>1. Aimed(q) /\ Guarded(q) /\ Fresh(q) BY DEF IInv
  <2>2. CASE q = p BY <2>2, <1>1 DEF Aimed, Guarded, Fresh, Inside, WellCalled
  <2>3. CASE q # p BY <2>1, <2>3, <1>2 DEF Aimed, Guarded, Fresh, Says, WellCalled
  <2> QED BY <2>2, <2>3
<1>5. \A e : Written(e)' => Written(e) BY <1>1, <1>2 DEF Written
<1>6. \A e : Kept(e)' <=> Kept(e) BY DEF Kept, Says
<1> QED BY <1>3, <1>4, <1>5, <1>6 DEF IInv

----------------------------------------------------------------------------
(* The actions.                                                            *)

LEMMA AppendKeeps == ASSUME IInv, NEW p \in Servers, Append(p) PROVE IInv'
<1>1. PICK e \in Edits, n \in Notes, l \in NewLinks :
        Begin(p, [NoJob EXCEPT !.op = "append", !.note = n, !.at = n, !.edit = e, !.link = l])
      BY DEF Append
<1> DEFINE j == [NoJob EXCEPT !.op = "append", !.note = n, !.at = n, !.edit = e, !.link = l]
<1>2. NoText \in Texts BY DEF NoText, Texts
<1>3. "append" \in Ops BY DEF Append
<1>4. j \in Jobs /\ j.op = "append" /\ j.edit = e /\ j.at = n
      BY <1>2, <1>3 DEF NoJob, Jobs
<1>5. job' = [job EXCEPT ![p] = j] BY <1>1 DEF Begin
<1>6. pc' = [pc EXCEPT ![p] = "lock"] BY DEF Append, Goto
<1>7. UNCHANGED <<disk, edges, lock, gone, answered>> BY DEF Append, tables
<1> HIDE DEF j
<1>8. WellCalled(j) /\ j.op # None BY <1>4, RefactorConstants DEF WellCalled
<1> QED BY <1>4, <1>5, <1>6, <1>7, <1>8, TurnKeeps

LEMMA RenameKeeps == ASSUME IInv, NEW p \in Servers, Rename(p) PROVE IInv'
<1>1. PICK n \in Notes, to \in Notes :
        /\ disk[n] # None /\ disk[to] = None
        /\ Begin(p, [NoJob EXCEPT !.op = "rename", !.note = n, !.to = to])
      BY DEF Rename
<1> DEFINE j == [NoJob EXCEPT !.op = "rename", !.note = n, !.to = to]
<1>2. NoText \in Texts BY DEF NoText, Texts
<1>3. "rename" \in Ops BY DEF Rename
<1>4. j \in Jobs /\ j.op = "rename" /\ j.note = n /\ j.to = to
      BY <1>2, <1>3 DEF NoJob, Jobs
<1>5. job' = [job EXCEPT ![p] = j] BY <1>1 DEF Begin
<1>6. pc' = [pc EXCEPT ![p] = "inbound"] BY DEF Rename, Goto
<1>7. UNCHANGED <<disk, edges, lock, gone, answered>> BY DEF Rename, tables
<1> HIDE DEF j
<1>8. WellCalled(j) /\ j.op # None BY <1>1, <1>4, RefactorConstants DEF WellCalled
<1> QED BY <1>4, <1>5, <1>6, <1>7, <1>8, TurnKeeps

LEMMA DeleteKeeps == ASSUME IInv, NEW p \in Servers, Delete(p) PROVE IInv'
<1>1. PICK n \in Notes, mode \in Ops \cap {"safe", "cascade"} :
        Begin(p, [NoJob EXCEPT !.op = mode, !.note = n])
      BY DEF Delete
<1> DEFINE j == [NoJob EXCEPT !.op = mode, !.note = n]
<1>2. NoText \in Texts BY DEF NoText, Texts
<1>3. j \in Jobs /\ j.op = mode /\ j.note = n
      BY <1>2 DEF NoJob, Jobs
<1>4. job' = [job EXCEPT ![p] = j] BY <1>1 DEF Begin
<1>5. pc' = [pc EXCEPT ![p] = "inbound"] BY DEF Delete, Goto
<1>6. UNCHANGED <<disk, edges, lock, gone, answered>> BY DEF Delete, tables
<1> HIDE DEF j
<1>7. WellCalled(j) /\ j.op # None /\ j.op # "append"
      BY <1>3, RefactorConstants DEF WellCalled
<1> QED BY <1>3, <1>4, <1>5, <1>6, <1>7, TurnKeeps

LEMMA FindInboundKeeps == ASSUME IInv, NEW p \in Servers, FindInbound(p) PROVE IInv'
<1> DEFINE sources == {e.from : e \in {f \in edges : f.to = job[p].note}}
           j == [job[p] EXCEPT !.todo = sources]
<1>1. UNCHANGED <<disk, edges, gone, answered>> BY DEF FindInbound, tables, history
<1>2. CASE Finish(p)
      BY <1>1, <1>2, FinishKeeps DEF Written, IInv, Typed
<1>3. CASE job' = [job EXCEPT ![p].todo = sources] /\ Goto(p, "sources") /\ UNCHANGED lock
  <2>1. job[p] \in Jobs /\ Aimed(p) /\ pc[p] = "inbound" BY DEF IInv, Typed, FindInbound, At
  <2>2. sources \subseteq Notes BY DEF IInv, Typed, Edges
  <2> HIDE DEF sources
  <2>3. j \in Jobs /\ j.op = job[p].op /\ WellCalled(j)
        BY <2>1, <2>2 DEF Jobs, Aimed, WellCalled
  <2>4. job' = [job EXCEPT ![p] = j] BY <1>3
  <2>5. j.op # "append" /\ j.op # None BY <2>1, <2>3 DEF Aimed
  <2> HIDE DEF j
  <2> QED BY <1>1, <1>3, <2>3, <2>4, <2>5, TurnKeeps DEF Goto
<1> QED BY <1>2, <1>3 DEF FindInbound

LEMMA PickSourceKeeps == ASSUME IInv, NEW p \in Servers, PickSource(p) PROVE IInv'
<1>1. UNCHANGED <<disk, edges, lock, gone, answered>> BY DEF PickSource, tables, history
<1>2. job[p] \in Jobs /\ Aimed(p) /\ pc[p] = "sources" BY DEF IInv, Typed, PickSource, At
<1>3. job[p].op # "append" /\ job[p].op # None /\ WellCalled(job[p])
      BY <1>2 DEF Aimed
<1>4. CASE job[p].todo = {}
  <2> DEFINE at == IF job[p].op = "rename" THEN job[p].to ELSE job[p].note
             j == [job[p] EXCEPT !.at = at]
  <2>1. job[p].op \in {"rename", "safe", "cascade"}
        BY <1>2, <1>3, RefactorConstants DEF Jobs
  <2>2. at \in Notes BY <1>3, <2>1 DEF WellCalled
  <2>3. j \in Jobs /\ j.op = job[p].op /\ j.at = at /\ j.to = job[p].to
        /\ j.note = job[p].note /\ j.edit = job[p].edit
        BY <1>2, <2>2 DEF Jobs
  <2>4. job' = [job EXCEPT ![p] = j] /\ pc' = [pc EXCEPT ![p] = "targetlock"]
        BY <1>4 DEF PickSource, Goto
  <2>5. WellCalled(j) BY <1>3, <2>3 DEF WellCalled
  <2> HIDE DEF j
  <2> QED BY <1>1, <1>3, <2>2, <2>3, <2>4, <2>5, TurnKeeps
<1>5. CASE job[p].todo # {}
  <2>1. PICK n \in job[p].todo :
          IF disk[n] = None
          THEN /\ job' = [job EXCEPT ![p].todo = @ \ {n}]
               /\ UNCHANGED pc
          ELSE /\ job' = [job EXCEPT ![p].todo = @ \ {n}, ![p].at = n]
               /\ Goto(p, "lock")
        BY <1>5 DEF PickSource
  <2>2. n \in Notes BY <1>2 DEF Jobs
  <2>3. CASE disk[n] = None
    <3> DEFINE j == [job[p] EXCEPT !.todo = @ \ {n}]
    <3>1. j \in Jobs /\ j.op = job[p].op /\ WellCalled(j)
          BY <1>2, <1>3 DEF Jobs, WellCalled
    <3>2. job' = [job EXCEPT ![p] = j] BY <2>1, <2>3
    <3>3. pc' = [pc EXCEPT ![p] = "sources"] BY <1>2, <2>1, <2>3 DEF IInv, Typed
    <3> HIDE DEF j
    <3> QED BY <1>1, <1>3, <3>1, <3>2, <3>3, TurnKeeps
  <2>4. CASE disk[n] # None
    <3> DEFINE j == [job[p] EXCEPT !.todo = @ \ {n}, !.at = n]
    <3>1. j \in Jobs /\ j.op = job[p].op /\ j.at = n /\ WellCalled(j)
          BY <1>2, <1>3, <2>2 DEF Jobs, WellCalled
    <3>2. job' = [job EXCEPT ![p] = j] BY <2>1, <2>4
    <3>3. pc' = [pc EXCEPT ![p] = "lock"] BY <2>1, <2>4 DEF Goto
    <3> HIDE DEF j
    <3> QED BY <1>1, <1>3, <2>2, <3>1, <3>2, <3>3, TurnKeeps
  <2> QED BY <2>3, <2>4
<1> QED BY <1>4, <1>5

LEMMA TakeLockKeeps == ASSUME IInv, NEW p \in Servers, TakeLock(p) PROVE IInv'
<1> DEFINE at == job[p].at
<1>1. UNCHANGED <<disk, edges, job, gone, answered>> BY DEF TakeLock, tables, history
<1>2. Aimed(p) /\ pc[p] \in {"lock", "targetlock"} /\ lock[at] = None
      BY DEF IInv, TakeLock
<1>3. at \in Notes BY <1>2 DEF Aimed
<1>4. lock' = [lock EXCEPT ![at] = p] BY DEF TakeLock
<1>5. pc' = [pc EXCEPT ![p] = Behind(p)] BY DEF TakeLock, Goto
<1>6. /\ Behind(p) \in {"read", "move", "unlink"}
      /\ Behind(p) = "move" => job[p].op = "rename" /\ at = job[p].to
      BY <1>2 DEF Behind, At, Aimed
<1>7. pc'[p] = Behind(p) BY <1>5 DEF IInv, Typed
<1>8. ASSUME NEW q \in Servers \ {p} PROVE pc'[q] = pc[q]
      BY <1>5, <1>8 DEF IInv, Typed
<1> HIDE DEF at
<1>9. Typed' BY <1>1, <1>3, <1>4, <1>5, <1>6 DEF IInv, Typed, Labels, Inside
<1>10. ASSUME NEW q \in Servers PROVE (Aimed(q) /\ Guarded(q) /\ Fresh(q))'
  <2>1. Aimed(q) /\ Guarded(q) /\ Fresh(q) BY DEF IInv
  <2>2. CASE q = p
    <3>1. Aimed(p)' BY <1>1, <1>2, <1>6, <1>7 DEF Aimed, WellCalled, at
    <3>2. Guarded(p)' BY <1>1, <1>3, <1>4 DEF Guarded, IInv, Typed, at
    <3>3. Fresh(p)' BY <1>6, <1>7 DEF Fresh
    <3> QED BY <2>2, <3>1, <3>2, <3>3
  <2>3. CASE q # p
    <3>1. Aimed(q)' /\ Fresh(q)'
          BY <1>1, <1>8, <2>1, <2>3 DEF Aimed, Fresh, Says, WellCalled
    <3>2. Guarded(q)'
          BY <1>1, <1>2, <1>3, <1>4, <1>8, <2>1, <2>3, RefactorConstants
          DEF Guarded, IInv, Typed
    <3> QED BY <3>1, <3>2
  <2> QED BY <2>2, <2>3
<1>11. \A e : Written(e)' => Written(e) BY <1>1, <1>6, <1>7, <1>8 DEF Written
<1>12. \A e : Kept(e)' <=> Kept(e) BY <1>1 DEF Kept, Says
<1> QED BY <1>9, <1>10, <1>11, <1>12 DEF IInv

LEMMA ReadKeeps == ASSUME IInv, NEW p \in Servers, Read(p) PROVE IInv'
<1> DEFINE text == disk[job[p].at]
           new == Rewrite(job[p], text)
           j == [job[p] EXCEPT !.text = new]
<1>1. UNCHANGED <<disk, edges, gone, answered>> BY DEF Read, tables, history
<1>2. pc[p] = "read" /\ pc[p] \in Inside BY DEF Read, At, Inside
<1>3. CASE Finish(p)
      BY <1>1, <1>3, FinishKeeps DEF Written, IInv, Typed
<1>4. CASE NextSource(p) /\ job[p].op # "append"
      BY <1>1, <1>2, <1>4, NextSourceKeeps
<1>5. CASE /\ text # None
           /\ job' = [job EXCEPT ![p].text = new] /\ Goto(p, "write") /\ UNCHANGED lock
  <2>1. /\ job[p] \in Jobs /\ job[p].at \in Notes /\ WellCalled(job[p])
        /\ job[p].op # None /\ lock[job[p].at] = p
        BY <1>2 DEF IInv, Typed, Guarded, Aimed
  <2>2. text \in Texts BY <1>5, <2>1 DEF IInv, Typed
  <2>3. /\ new \in Texts /\ text.says \subseteq new.says
        /\ job[p].op = "append" => job[p].edit \in new.says
        BY <2>1, <2>2, RewriteKeeps
  <2> HIDE DEF new, text
  <2>4. /\ j \in Jobs /\ j.op = job[p].op /\ j.at = job[p].at /\ j.edit = job[p].edit
        /\ j.note = job[p].note /\ j.to = job[p].to /\ j.text = new
        BY <2>1, <2>3 DEF Jobs
  <2>5. job' = [job EXCEPT ![p] = j] BY <1>5
  <2> HIDE DEF j
  <2>6. pc'[p] = "write" /\ job'[p] = j BY <1>5, <2>5 DEF IInv, Typed, Goto
  <2>7. ASSUME NEW q \in Servers \ {p} PROVE pc'[q] = pc[q] /\ job'[q] = job[q]
        BY <1>5, <2>5, <2>7 DEF IInv, Typed, Goto
  <2>8. Typed' BY <1>1, <1>5, <2>4, <2>5 DEF IInv, Typed, Goto, Labels, Inside
  <2>9. Says(job[p].at) = text.says BY <1>5 DEF Says, text
  <2>10. ASSUME NEW q \in Servers PROVE (Aimed(q) /\ Guarded(q) /\ Fresh(q))'
    <3>1. Aimed(q) /\ Guarded(q) /\ Fresh(q) BY DEF IInv
    <3>2. CASE q = p
      <4>1. Aimed(p)' BY <2>1, <2>4, <2>6 DEF Aimed, WellCalled
      <4>2. Guarded(p)' BY <1>5, <2>1, <2>4, <2>6 DEF Guarded
      <4>3. Fresh(p)' BY <1>1, <2>3, <2>4, <2>6, <2>9 DEF Fresh, Says
      <4> QED BY <3>2, <4>1, <4>2, <4>3
    <3>3. CASE q # p
          BY <1>1, <1>5, <2>7, <3>1, <3>3 DEF Aimed, Guarded, Fresh, Says, WellCalled
    <3> QED BY <3>2, <3>3
  <2>11. \A e : Written(e)' => Written(e) BY <1>1, <2>6, <2>7 DEF Written
  <2>12. \A e : Kept(e)' <=> Kept(e) BY <1>1 DEF Kept, Says
  <2> QED BY <2>8, <2>10, <2>11, <2>12 DEF IInv
<1> QED BY <1>3, <1>4, <1>5 DEF Read

LEMMA WriteKeeps == ASSUME IInv, NEW p \in Servers, Write(p) PROVE IInv'
<1>1. UNCHANGED <<edges, lock, job, gone, answered>> BY DEF Write, tables, history
<1>2. pc[p] = "write" /\ pc[p] \in Inside BY DEF Write, At, Inside
<1>3. job[p].at \in Notes /\ job[p].text \in Texts
      BY <1>2 DEF IInv, Typed, Guarded, Jobs
<1>4. PICK at \in Notes, text \in Texts : at = job[p].at /\ text = job[p].text BY <1>3
<1>5. /\ lock[at] = p
      /\ Says(at) \subseteq text.says
      /\ job[p].op = "append" => job[p].edit \in text.says
      BY <1>2, <1>4 DEF IInv, Guarded, Fresh
<1>6. disk' = [disk EXCEPT ![at] = text] BY <1>4 DEF Write
<1>7. pc' = [pc EXCEPT ![p] = "sync"] BY DEF Write, Goto
<1>8. pc'[p] = "sync" BY <1>7 DEF IInv, Typed
<1>9. ASSUME NEW q \in Servers \ {p} PROVE pc'[q] = pc[q] BY <1>7, <1>9 DEF IInv, Typed
<1>10. text # None BY RefactorConstants
<1>11. \A n \in Notes \ {at} : Says(n)' = Says(n) BY <1>6 DEF Says, IInv, Typed
<1>12. Says(at)' = text.says
       BY <1>5, <1>6, <1>10 DEF Says, IInv, Typed
<1>13. Typed' BY <1>1, <1>5, <1>6, <1>7 DEF IInv, Typed, Labels, Inside
<1>14. ASSUME NEW q \in Servers PROVE (Aimed(q) /\ Guarded(q) /\ Fresh(q))'
  <2>1. Aimed(q) /\ Guarded(q) /\ Fresh(q) BY DEF IInv
  <2>2. CASE q = p
        BY <1>1, <1>2, <1>8, <2>1, <2>2 DEF Aimed, Guarded, Fresh, Inside, WellCalled
  <2>3. CASE q # p
    <3>1. Aimed(q)' /\ Guarded(q)' BY <1>1, <1>9, <2>1, <2>3 DEF Aimed, Guarded, WellCalled
    <3>2. pc[q] = "write" => job[q].at \in Notes \ {at}
          BY <1>5, <2>1, <2>3 DEF Guarded, Inside
    <3>3. Fresh(q)' BY <1>1, <1>9, <1>11, <2>1, <2>3, <3>2 DEF Fresh
    <3> QED BY <3>1, <3>3
  <2> QED BY <2>2, <2>3
<1>15. ASSUME NEW e, Written(e)' PROVE Kept(e)'
  <2>1. Written(e) \/ (job[p].op = "append" /\ job[p].edit = e)
        BY <1>1, <1>8, <1>9, <1>15 DEF Written
  <2>2. Kept(e) \/ e \in text.says BY <1>4, <1>5, <2>1 DEF IInv
  <2>3. e \in gone \/ e \in text.says \/ \E n \in Notes \ {at} : e \in Says(n)
        BY <1>5, <2>2 DEF Kept
  <2> QED BY <1>1, <1>5, <1>11, <1>12, <2>3 DEF Kept
<1> QED BY <1>13, <1>14, <1>15 DEF IInv

LEMMA SyncKeeps == ASSUME IInv, NEW p \in Servers, Sync(p) PROVE IInv'
<1>1. UNCHANGED <<disk, gone, answered>> BY DEF Sync, history
<1>2. pc[p] = "sync" /\ pc[p] \in Inside BY DEF Sync, At, Inside
<1>3. CASE Finish(p) /\ UNCHANGED <<rows, edges>>
      BY <1>1, <1>3, FinishKeeps DEF Written, IInv, Typed
<1>4. CASE /\ disk[job[p].at] # None /\ SyncOne(job[p].at)
           /\ Goto(p, "index") /\ UNCHANGED <<lock, job>>
  <2>1. job[p].at \in Notes /\ disk[job[p].at] \in Texts
        BY <1>2, <1>4 DEF IInv, Typed, Guarded
  <2>2. edges' \subseteq Edges BY <1>4, <2>1, SyncOneType DEF IInv, Typed
  <2> QED BY <1>1, <1>2, <1>4, <2>2, StepKeeps DEF Inside
<1> QED BY <1>3, <1>4 DEF Sync

LEMMA IndexKeeps == ASSUME IInv, NEW p \in Servers, Index(p) PROVE IInv'
<1>1. UNCHANGED <<disk, edges, gone>> BY DEF Index
<1>2. pc[p] = "index" /\ pc[p] \in Inside BY DEF Index, At, Inside
<1>3. CASE job[p].op = "append"
  <2>1. Finish(p) /\ answered' = answered \cup {job[p].edit} BY <1>3 DEF Index
  <2>2. \A e \in answered' : Written(e) BY <1>2, <1>3, <2>1 DEF Written
  <2> QED BY <1>1, <2>1, <2>2, FinishKeeps DEF IInv, Typed
<1>4. CASE job[p].op # "append"
  <2>1. NextSource(p) /\ answered' = answered BY <1>4 DEF Index
  <2> QED BY <1>1, <1>2, <1>4, <2>1, NextSourceKeeps
<1> QED BY <1>3, <1>4

\* The edits of the note go with it, those of a file it replaces are gone; nobody is
\* about to write at the new path, whose lock is held.
LEMMA MoveFileKeeps == ASSUME IInv, NEW p \in Servers, MoveFile(p) PROVE IInv'
<1>1. UNCHANGED <<edges, answered>> BY DEF MoveFile, tables
<1>2. pc[p] = "move" /\ pc[p] \in Inside BY DEF MoveFile, At, Inside
<1>3. CASE Finish(p) /\ UNCHANGED <<disk, gone>>
      BY <1>1, <1>3, FinishKeeps DEF Written, IInv, Typed
<1>4. CASE /\ disk[job[p].note] # None
           /\ disk' = [disk EXCEPT ![job[p].to] = disk[job[p].note], ![job[p].note] = None]
           /\ gone' = gone \cup Says(job[p].to)
           /\ Goto(p, "rekey")
           /\ UNCHANGED <<lock, job>>
  <2>1. /\ job[p].note \in Notes /\ job[p].to \in Notes /\ job[p].note # job[p].to
        /\ lock[job[p].to] = p
        BY <1>2 DEF IInv, Aimed, Guarded, WellCalled
  <2>2. PICK old \in Notes, new \in Notes :
          old = job[p].note /\ new = job[p].to /\ old # new /\ lock[new] = p
        BY <2>1
  <2>3. /\ disk' = [disk EXCEPT ![new] = disk[old], ![old] = None]
        /\ gone' = gone \cup Says(new)
        BY <1>4, <2>2
  <2>4. Typed' BY <1>1, <1>4, <2>3 DEF IInv, Typed, Goto, Labels, Inside
  <2>5. Says(old)' = {} /\ Says(new)' = Says(old) BY <2>2, <2>3 DEF Says, IInv, Typed
  <2>6. \A n \in Notes \ {old, new} : Says(n)' = Says(n) BY <2>3 DEF Says, IInv, Typed
  <2>7. pc'[p] = "rekey" BY <1>4 DEF IInv, Typed, Goto
  <2>8. ASSUME NEW q \in Servers \ {p} PROVE pc'[q] = pc[q]
        BY <1>4, <2>8 DEF IInv, Typed, Goto
  <2>9. ASSUME NEW q \in Servers PROVE (Aimed(q) /\ Guarded(q) /\ Fresh(q))'
    <3>1. Aimed(q) /\ Guarded(q) /\ Fresh(q) BY DEF IInv
    <3>2. CASE q = p
          BY <1>2, <1>4, <2>7, <3>1, <3>2 DEF Aimed, Guarded, Fresh, Inside, WellCalled
    <3>3. CASE q # p
      <4>1. Aimed(q)' /\ Guarded(q)'
            BY <1>4, <2>8, <3>1, <3>3 DEF Aimed, Guarded, WellCalled
      <4>2. pc[q] = "write" => job[q].at \in Notes \ {new}
            BY <2>2, <3>1, <3>3 DEF Guarded, Inside
      <4>3. \A n \in Notes \ {new} : Says(n)' \subseteq Says(n) BY <2>5, <2>6
      <4>4. Fresh(q)' BY <1>4, <2>8, <3>1, <3>3, <4>2, <4>3 DEF Fresh
      <4> QED BY <4>1, <4>4
    <3> QED BY <3>2, <3>3
  <2>10. \A e : Written(e)' => Written(e) BY <1>1, <1>4, <2>7, <2>8 DEF Written
  <2>11. \A e : Kept(e) => Kept(e)' BY <2>3, <2>5, <2>6 DEF Kept
  <2> QED BY <2>4, <2>9, <2>10, <2>11 DEF IInv
<1> QED BY <1>3, <1>4 DEF MoveFile

LEMMA UnlinkKeeps == ASSUME IInv, NEW p \in Servers, Unlink(p) PROVE IInv'
<1>1. UNCHANGED <<edges, answered>> BY DEF Unlink, tables
<1>2. pc[p] = "unlink" /\ pc[p] \in Inside BY DEF Unlink, At, Inside
<1>3. CASE Finish(p) /\ UNCHANGED <<disk, gone>>
      BY <1>1, <1>3, FinishKeeps DEF Written, IInv, Typed
<1>4. CASE /\ disk[job[p].note] # None
           /\ disk' = [disk EXCEPT ![job[p].note] = None]
           /\ gone' = gone \cup Says(job[p].note)
           /\ Goto(p, "droprow")
           /\ UNCHANGED <<lock, job>>
  <2>1. \A n \in Notes : disk'[n] = IF n = job[p].note THEN None ELSE disk[n]
        BY <1>4 DEF IInv, Typed
  <2>2. Typed' BY <1>1, <1>4, <2>1 DEF IInv, Typed, Goto, Labels, Inside
  <2>3. \A n \in Notes : Says(n)' \subseteq Says(n) BY <2>1 DEF Says
  <2>4. \A n \in Notes : \A e \in Says(n) : e \in Says(n)' \/ e \in gone'
        BY <1>4, <2>1 DEF Says
  <2>5. pc'[p] = "droprow" BY <1>4 DEF IInv, Typed, Goto
  <2>6. ASSUME NEW q \in Servers \ {p} PROVE pc'[q] = pc[q]
        BY <1>4, <2>6 DEF IInv, Typed, Goto
  <2>7. ASSUME NEW q \in Servers PROVE (Aimed(q) /\ Guarded(q) /\ Fresh(q))'
    <3>1. Aimed(q) /\ Guarded(q) /\ Fresh(q) BY DEF IInv
    <3>2. CASE q = p
          BY <1>2, <1>4, <2>5, <3>1, <3>2 DEF Aimed, Guarded, Fresh, Inside, WellCalled
    <3>3. CASE q # p
      <4>1. Aimed(q)' /\ Guarded(q)'
            BY <1>4, <2>6, <3>1, <3>3 DEF Aimed, Guarded, WellCalled
      <4>2. pc[q] = "write" => job[q].at \in Notes BY <3>1 DEF Guarded, Inside
      <4>3. Fresh(q)' BY <1>4, <2>3, <2>6, <3>1, <3>3, <4>2 DEF Fresh
      <4> QED BY <4>1, <4>3
    <3> QED BY <3>2, <3>3
  <2>8. \A e : Written(e)' => Written(e) BY <1>1, <1>4, <2>5, <2>6 DEF Written
  <2>9. \A e : Kept(e) => Kept(e)' BY <1>4, <2>4 DEF Kept
  <2> QED BY <2>2, <2>7, <2>8, <2>9 DEF IInv
<1> QED BY <1>3, <1>4 DEF Unlink

\* The commits inside the last lock of a rename or a delete.
LEMMA CommitKeeps ==
    ASSUME IInv, NEW p \in Servers,
           \/ MoveRow(p) \/ DropMovedEdges(p) \/ MoveVector(p)
           \/ DeleteRow(p) \/ DropEdges(p)
    PROVE  IInv'
<1>1. CASE MoveRow(p)
  <2>1. /\ pc[p] = "rekey" /\ Goto(p, "moveedges")
        /\ UNCHANGED <<disk, lock, job, gone, answered>> /\ edges' \subseteq edges
        BY <1>1 DEF MoveRow, At, history
  <2>2. pc[p] \in {"rekey", "moveedges", "movevec"} => job[p].op = "rename"
        BY DEF IInv, Aimed
  <2> QED BY <2>1, <2>2, StepKeeps DEF Inside, IInv, Typed
<1>2. CASE DropMovedEdges(p)
  <2>1. /\ pc[p] = "moveedges" /\ Goto(p, "movevec")
        /\ UNCHANGED <<disk, lock, job, gone, answered>> /\ edges' \subseteq edges
        BY <1>2 DEF DropMovedEdges, At, history
  <2>2. pc[p] \in {"rekey", "moveedges", "movevec"} => job[p].op = "rename"
        BY DEF IInv, Aimed
  <2> QED BY <2>1, <2>2, StepKeeps DEF Inside, IInv, Typed
<1>3. CASE MoveVector(p)
  <2>1. /\ pc[p] = "movevec" /\ Goto(p, "resync")
        /\ UNCHANGED <<disk, lock, job, gone, answered>> /\ edges' \subseteq edges
        BY <1>3 DEF MoveVector, At, history
  <2>2. pc[p] \in {"rekey", "moveedges", "movevec"} => job[p].op = "rename"
        BY DEF IInv, Aimed
  <2> QED BY <2>1, <2>2, StepKeeps DEF Inside, IInv, Typed
<1>4. CASE DeleteRow(p)
  <2>1. /\ pc[p] = "droprow" /\ Goto(p, "dropedges")
        /\ UNCHANGED <<disk, lock, job, gone, answered>> /\ edges' \subseteq edges
        BY <1>4 DEF DeleteRow, At, history
  <2>2. pc[p] \in {"rekey", "moveedges", "movevec"} => job[p].op = "rename"
        BY DEF IInv, Aimed
  <2> QED BY <2>1, <2>2, StepKeeps DEF Inside, IInv, Typed
<1>5. CASE DropEdges(p)
  <2>1. /\ pc[p] = "dropedges" /\ Goto(p, "dropvec")
        /\ UNCHANGED <<disk, lock, job, gone, answered>> /\ edges' \subseteq edges
        BY <1>5 DEF DropEdges, At, history
  <2>2. pc[p] \in {"rekey", "moveedges", "movevec"} => job[p].op = "rename"
        BY DEF IInv, Aimed
  <2> QED BY <2>1, <2>2, StepKeeps DEF Inside, IInv, Typed
<1> QED BY <1>1, <1>2, <1>3, <1>4, <1>5

LEMMA ResyncKeeps == ASSUME IInv, NEW p \in Servers, Resync(p) PROVE IInv'
<1>1. Finish(p) /\ UNCHANGED <<disk, gone, answered>> BY DEF Resync, history
<1>2. edges' \subseteq Edges
  <2>1. CASE UNCHANGED <<rows, edges>> BY <2>1 DEF IInv, Typed
  <2>2. CASE disk[job[p].to] # None /\ SyncOne(job[p].to)
    <3>1. job[p].to \in Notes BY DEF IInv, Aimed, WellCalled, Resync, At
    <3>2. disk[job[p].to] \in Texts BY <2>2, <3>1 DEF IInv, Typed
    <3> QED BY <2>2, <3>1, <3>2, SyncOneType DEF IInv, Typed
  <2> QED BY <2>1, <2>2 DEF Resync
<1> QED BY <1>1, <1>2, FinishKeeps DEF Written

LEMMA EndKeeps ==
    ASSUME IInv, NEW p \in Servers, DropVector(p) \/ CutShort(p)
    PROVE  IInv'
<1>1. Finish(p) /\ UNCHANGED <<disk, edges, gone, answered>>
      BY DEF DropVector, CutShort, tables, history
<1> QED BY <1>1, FinishKeeps DEF Written, IInv, Typed

----------------------------------------------------------------------------
LEMMA InitKept == Init => IInv
<1> SUFFICES ASSUME Init PROVE IInv OBVIOUS
<1>1. PICK v \in Vaults :
        LET there == {n \in Notes : v[n] # None} IN
        /\ disk = [n \in Notes |-> IF n \in there THEN [says |-> {}, links |-> v[n]] ELSE None]
        /\ edges = {[from |-> e[1], link |-> e[2], to |-> Resolve(e[2], there)] :
                      e \in {f \in there \X Names : f[2] \in v[f[1]]}}
      BY DEF Init
<1> DEFINE there == {n \in Notes : v[n] # None}
<1>2. \A n \in there : v[n] \subseteq Names BY RefactorConstants
<1>3. disk \in [Notes -> Texts \cup {None}] BY <1>1, <1>2 DEF Texts
<1>4. edges \subseteq Edges
  <2>1. there \in SUBSET Notes OBVIOUS
  <2>2. \A l : Resolve(l, there) \in Notes \cup {None} BY <2>1, ResolveType
  <2> HIDE DEF there
  <2>3. edges = {[from |-> e[1], link |-> e[2], to |-> Resolve(e[2], there)] :
                   e \in {f \in there \X Names : f[2] \in v[f[1]]}}
        BY <1>1 DEF there
  <2>4. \A e \in there \X Names : e[1] \in Notes /\ e[2] \in Names BY <2>1
  <2> QED BY <2>2, <2>3, <2>4 DEF Edges
<1>5. NoJob \in Jobs /\ WellCalled(NoJob)
  <2>1. NoText \in Texts BY DEF NoText, Texts
  <2>2. NoJob \in Jobs BY <2>1 DEF NoJob, Jobs
  <2> QED BY <2>2, RefactorConstants DEF NoJob, WellCalled
<1>6. Typed BY <1>3, <1>4, <1>5 DEF Typed, Init, Labels
<1>7. \A p \in Servers : Aimed(p) /\ Guarded(p) /\ Fresh(p)
      BY <1>5 DEF Init, Aimed, Guarded, Fresh, Inside
<1>8. \A e : ~Written(e) BY DEF Init, Written
<1> QED BY <1>6, <1>7, <1>8 DEF IInv

LEMMA NextKept == IInv /\ [Next]_vars => IInv'
<1> SUFFICES ASSUME IInv, [Next]_vars PROVE IInv' OBVIOUS
<1>1. ASSUME NEW p \in Servers, Append(p) \/ Rename(p) \/ Delete(p) PROVE IInv'
      BY <1>1, AppendKeeps, RenameKeeps, DeleteKeeps
<1>2. ASSUME NEW p \in Servers, FindInbound(p) \/ PickSource(p) PROVE IInv'
      BY <1>2, FindInboundKeeps, PickSourceKeeps
<1>3. ASSUME NEW p \in Servers, Rewriting(p) PROVE IInv'
      BY <1>3, TakeLockKeeps, ReadKeeps, WriteKeeps, SyncKeeps, IndexKeeps DEF Rewriting
<1>4. ASSUME NEW p \in Servers, Moving(p) PROVE IInv'
      BY <1>4, MoveFileKeeps, CommitKeeps, ResyncKeeps DEF Moving
<1>5. ASSUME NEW p \in Servers, Removing(p) PROVE IInv'
      BY <1>5, UnlinkKeeps, CommitKeeps, EndKeeps DEF Removing
<1>6. ASSUME NEW p \in Servers, CutShort(p) PROVE IInv'
      BY <1>6, EndKeeps
<1>7. CASE UNCHANGED vars
  <2>1. UNCHANGED <<disk, edges, lock, pc, job, gone, answered>>
        BY <1>7 DEF vars, tables, history
  <2> QED BY <2>1 DEF IInv, Typed, Aimed, WellCalled, Guarded, Fresh, Written, Kept, Says
<1> QED BY <1>1, <1>2, <1>3, <1>4, <1>5, <1>6, <1>7 DEF Next

\* NothingLost holds in every reachable state: whoever renames, deletes, rewrites or
\* dies, an answered append is in a file or went with one that was deleted or replaced.
THEOREM NoAppendIsLost == Spec => []NothingLost
<1>1. IInv => NothingLost BY DEF IInv, Written, Kept, NothingLost
<1> QED BY InitKept, NextKept, <1>1, PTL DEF Spec

----------------------------------------------------------------------------
(* Bystanders.  A note that no rename or delete is about agrees with its     *)
(* row, its vector and its links but for what the holder of its lock has     *)
(* still to do; and a lock is held by a call that is at the note.            *)

LinksOf(n) == {e.link : e \in From(n)}

Agrees(n) ==
    rows[n] # None /\ rows[n].text = disk[n] /\ vec[n] = disk[n] /\ LinksOf(n) = disk[n].links

Late == Inside \ {"read", "write", "sync", "index"}

TablesTyped ==
    /\ rows \in [Notes -> Rows \cup {None}]
    /\ vec \in [Notes -> Texts \cup {None}]
    /\ faults \in Nat
    /\ named \subseteq Notes

\* What a rename or delete is about has been named.
IsAbout(p) ==
    /\ job[p].op \in {"rename", "safe", "cascade"} => job[p].note \in named
    /\ job[p].op = "rename" => job[p].to \in named
    /\ pc[p] \in Late => job[p].op # "append" /\ job[p].at \in named

HolderIsAt(n) == \A p \in Servers : lock[n] = p => pc[p] \in Inside /\ job[p].at = n

\* What is left to do inside the lock of n.
Remains(p, n) ==
    /\ pc[p] \in {"read", "write"} => Agrees(n)
    /\ pc[p] = "sync" => disk[n] = job[p].text
    /\ pc[p] = "index" => /\ disk[n] = job[p].text
                          /\ rows[n] # None /\ rows[n].text = disk[n]
                          /\ LinksOf(n) = disk[n].links

Tidy(n) ==
    disk[n] # None =>
      /\ lock[n] = None => Agrees(n)
      /\ \A p \in Servers : lock[n] = p => Remains(p, n)

ByInv ==
    /\ TablesTyped
    /\ \A p \in Servers : IsAbout(p)
    /\ \A n \in Notes : HolderIsAt(n)
    /\ faults = 0 => \A n \in Notes \ named : Tidy(n)

----------------------------------------------------------------------------
(* One call after the other.  As long as no two calls overlapped and none    *)
(* was cut short, one server at most is at work, and rows, vectors and links *)
(* are those of the files but for what its call has still to do.             *)

Alone == ~overlapped /\ faults = 0

HasRow(n) ==
    IF disk[n] = None THEN rows[n] = None
    ELSE rows[n] # None /\ rows[n].text = disk[n] /\ rows[n].born = "first"
HasLinks(n) == LinksOf(n) = IF disk[n] = None THEN {} ELSE disk[n].links
Mirrored(n) == HasRow(n) /\ vec[n] = disk[n] /\ HasLinks(n)

Nearing == {"inbound", "sources", "lock", "targetlock", "read", "write", "move", "unlink"}
Editing == {"lock", "read", "write", "sync", "index"}
Moved == {"rekey", "moveedges", "movevec", "resync"}
Removed == {"droprow", "dropedges", "dropvec"}

InEdit(p) ==
    LET n == job[p].at IN
    /\ disk[n] # None
    /\ pc[p] = "sync" => disk[n] = job[p].text /\ rows[n] # None /\ rows[n].born = "first"
    /\ pc[p] = "index" => disk[n] = job[p].text /\ HasRow(n) /\ HasLinks(n)
    /\ \A m \in Notes \ {n} : Mirrored(m)

InMove(p) ==
    LET old == job[p].note
        new == job[p].to
        from == IF pc[p] = "rekey" THEN old ELSE new
    IN /\ disk[old] = None /\ disk[new] # None
       /\ rows[from] # None /\ rows[from].text = disk[new] /\ rows[from].born = "first"
       /\ \A n \in {old, new} \ {from} : rows[n] = None
       /\ vec[IF pc[p] = "resync" THEN new ELSE old] = disk[new]
       /\ pc[p] = "resync" => vec[old] = None
       /\ LinksOf(new) = {}
       /\ pc[p] \in {"movevec", "resync"} => LinksOf(old) = {}
       /\ \A n \in Notes \ {old, new} : Mirrored(n)

InRemoval(p) ==
    LET n == job[p].note IN
    /\ disk[n] = None
    /\ pc[p] # "droprow" => rows[n] = None
    /\ pc[p] = "dropvec" => LinksOf(n) = {}
    /\ \A m \in Notes \ {n} : Mirrored(m)

Doing(p) ==
    /\ pc[p] \in Nearing => \A n \in Notes : Mirrored(n)
    /\ pc[p] \in Editing => InEdit(p)
    /\ pc[p] \in Moved => InMove(p)
    /\ pc[p] \in Removed => InRemoval(p)
    /\ job[p].op = "rename" /\ pc[p] \notin Moved =>
         disk[job[p].note] # None /\ disk[job[p].to] = None
    /\ pc[p] \in {"unlink"} \cup Removed => job[p].op \in {"safe", "cascade"}

\* Rows, vectors and links are right up to what p's call has left to do.
UpTo(p) ==
    /\ pc[p] = "idle" => \A n \in Notes : Mirrored(n)
    /\ pc[p] # "idle" => Doing(p)

OneCallOnly == \A p, q \in Servers : pc[p] # "idle" /\ pc[q] # "idle" => p = q

AloneInv ==
    Alone =>
      /\ OneCallOnly
      /\ Idle => \A n \in Notes : Mirrored(n)
      /\ \A p \in Servers : pc[p] # "idle" => Doing(p)

----------------------------------------------------------------------------
(* Links by path.  Those of the files lead to a file, and those of the graph *)
(* to the note they name, but for the new path of a rename that is under     *)
(* way; those to the note of the call are left in the sources still to do.   *)

ByPath(t) == t.links \cap Notes

Coming(p) == IF pc[p] # "idle" /\ job[p].op = "rename" THEN {job[p].to} ELSE {}

LinksMeant(p) ==
    /\ \A n \in Notes : disk[n] # None =>
         \A l \in ByPath(disk[n]) : disk[l] # None \/ l \in Coming(p)
    /\ \A e \in edges : e.link \in Notes => e.to = e.link \/ (e.to = None /\ e.link \in Coming(p))

LinksLeft(p) ==
    /\ pc[p] = "write" =>
         \A l \in ByPath(job[p].text) :
           /\ disk[l] # None \/ l \in Coming(p)
           /\ job[p].op # "append" => l # job[p].note
    /\ pc[p] \in {"targetlock"} \cup Late => job[p].todo = {}
    /\ job[p].op # "append" /\ pc[p] \notin {"idle", "inbound"} =>
         \A n \in Notes : disk[n] # None /\ job[p].note \in disk[n].links =>
           n \in job[p].todo \/ (pc[p] \in {"lock", "read", "write"} /\ n = job[p].at)

LinksUpTo(p) == LinksMeant(p) /\ LinksLeft(p)

AllLead ==
    /\ \A n \in Notes : disk[n] # None => \A l \in ByPath(disk[n]) : disk[l] # None
    /\ \A e \in edges : e.link \in Notes => e.to = e.link

LinkInv ==
    Alone =>
      /\ Idle => AllLead
      /\ \A p \in Servers : pc[p] # "idle" => LinksUpTo(p)

\* What sync_one leaves of row and links: those of the file for its note, and of every
\* other note the row it had and links to the same names.
LEMMA SyncOneDoes ==
    ASSUME NEW n \in Notes, edges \subseteq Edges, rows \in [Notes -> Rows \cup {None}],
           disk[n] \in Texts, SyncOne(n)
    PROVE  /\ rows' \in [Notes -> Rows \cup {None}]
           /\ rows'[n] # None /\ rows'[n].text = disk[n]
           /\ rows'[n].born = IF rows[n] = None THEN "later" ELSE rows[n].born
           /\ LinksOf(n)' = disk[n].links
           /\ \A m \in Notes \ {n} : rows'[m] = rows[m] /\ LinksOf(m)' = LinksOf(m)
<1> DEFINE row == [text |-> disk[n], born |-> IF rows[n] = None THEN "later" ELSE rows[n].born]
           r == [rows EXCEPT ![n] = row]
           fresh == {[from |-> n, link |-> l, to |-> Resolve(l, Indexed(r))] :
                       l \in disk[n].links}
           mend(e) == IF e.to = None /\ e.link \in {n, Base[n]}
                      THEN [e EXCEPT !.to = Resolve(e.link, Indexed(r))] ELSE e
<1>1. rows' = r /\ edges' = {mend(e) : e \in (edges \ From(n)) \cup fresh}
  BY DEF SyncOne
<1>2. row \in Rows /\ row # None
  BY RefactorConstants DEF Rows
<1>3. Indexed(r) \in SUBSET Notes
  BY DEF Indexed
<1>4. \A l : Resolve(l, Indexed(r)) \in Notes \cup {None}
  BY <1>3, ResolveType
<1> HIDE DEF r
<1>5. fresh \subseteq Edges
  BY <1>4 DEF Edges, Texts
<1>6. \A e \in Edges : mend(e).from = e.from /\ mend(e).link = e.link
  BY DEF Edges
<1>7. \A e \in fresh : e.from = n /\ e.link \in disk[n].links
  OBVIOUS
<1>8. ASSUME NEW l \in disk[n].links PROVE \E e \in fresh : e.from = n /\ e.link = l
  <2>1. PICK e : e = [from |-> n, link |-> l, to |-> Resolve(l, Indexed(r))]
    OBVIOUS
  <2> QED BY <2>1
<1> HIDE DEF fresh, mend
<1>9. LinksOf(n)' = disk[n].links
  <2>1. ASSUME NEW l \in LinksOf(n)' PROVE l \in disk[n].links
    <3>1. PICK d \in edges' : d.from = n /\ d.link = l
      BY <2>1 DEF LinksOf, From
    <3>2. PICK e \in (edges \ From(n)) \cup fresh : d = mend(e)
      BY <1>1, <3>1
    <3>3. e \in Edges /\ e.from = n /\ e.link = l
      BY <1>5, <1>6, <3>1, <3>2
    <3> QED BY <1>7, <3>2, <3>3 DEF From
  <2>2. ASSUME NEW l \in disk[n].links PROVE l \in LinksOf(n)'
    <3>1. PICK e \in fresh : e.from = n /\ e.link = l
      BY <1>8, <2>2
    <3>2. mend(e) \in edges' /\ mend(e).from = n /\ mend(e).link = l
      BY <1>1, <1>5, <1>6, <3>1
    <3> QED BY <3>2 DEF LinksOf, From
  <2> QED BY <2>1, <2>2
<1>10. ASSUME NEW m \in Notes \ {n} PROVE LinksOf(m)' = LinksOf(m)
  <2>1. ASSUME NEW l \in LinksOf(m)' PROVE l \in LinksOf(m)
    <3>1. PICK d \in edges' : d.from = m /\ d.link = l
      BY <2>1 DEF LinksOf, From
    <3>2. PICK e \in (edges \ From(n)) \cup fresh : d = mend(e)
      BY <1>1, <3>1
    <3>3. e \in Edges /\ e.from = m /\ e.link = l
      BY <1>5, <1>6, <3>1, <3>2
    <3>4. e \in edges
      BY <1>7, <1>10, <3>2, <3>3
    <3> QED BY <3>3, <3>4 DEF LinksOf, From
  <2>2. ASSUME NEW l \in LinksOf(m) PROVE l \in LinksOf(m)'
    <3>1. PICK e \in edges : e.from = m /\ e.link = l
      BY <2>2 DEF LinksOf, From
    <3>2. e \in edges \ From(n) /\ e \in Edges
      BY <1>10, <3>1 DEF From
    <3>3. mend(e) \in edges' /\ mend(e).from = m /\ mend(e).link = l
      BY <1>1, <1>6, <3>1, <3>2
    <3> QED BY <3>3 DEF LinksOf, From
  <2> QED BY <2>1, <2>2
<1>11. rows' \in [Notes -> Rows \cup {None}] /\ rows'[n] = row
       /\ \A m \in Notes \ {n} : rows'[m] = rows[m]
  BY <1>1, <1>2 DEF r
<1> QED BY <1>2, <1>9, <1>10, <1>11

\* Whose job it is: nobody but p moves, and of the locks only p's change.
Turn(p) ==
    /\ \A q \in Servers \ {p} : pc'[q] = pc[q] /\ job'[q] = job[q]
    /\ \A n \in Notes : \/ lock'[n] = lock[n]
                        \/ lock[n] = p /\ lock'[n] = None
                        \/ lock[n] = None /\ lock'[n] = p
    /\ \A n \in Notes : lock'[n] = p => pc'[p] \in Inside /\ job'[p].at = n
    /\ faults \in Nat => faults' \in Nat /\ (faults' = 0 => faults = 0)
    /\ named \subseteq named'

Untouched(n) ==
    disk'[n] = disk[n] /\ rows'[n] = rows[n] /\ vec'[n] = vec[n] /\ LinksOf(n)' = LinksOf(n)

\* It is enough to look at p, and at the note whose lock it holds, takes or releases.
LEMMA ByTurn ==
    ASSUME IInv, ByInv, NEW p \in Servers, Turn(p), TablesTyped', IsAbout(p)',
           \A n \in Notes \ named' : lock[n] # p /\ lock'[n] # p => Untouched(n),
           ASSUME NEW n \in Notes \ named', faults = 0, faults' = 0, Tidy(n), lock[n] = p \/ lock'[n] = p
           PROVE  Tidy(n)'
    PROVE  ByInv'
<1>1. p # None
  BY RefactorConstants
<1>2. ASSUME NEW q \in Servers PROVE IsAbout(q)'
  BY <1>2 DEF ByInv, IsAbout, Turn
<1>3. ASSUME NEW n \in Notes PROVE HolderIsAt(n)'
  <2> SUFFICES ASSUME NEW q \in Servers, lock'[n] = q PROVE pc'[q] \in Inside /\ job'[q].at = n
    BY DEF HolderIsAt
  <2>1. CASE q = p
    BY <2>1 DEF Turn
  <2>2. CASE q # p
    <3>1. lock[n] = q
      BY <2>2, <1>1, RefactorConstants DEF Turn
    <3> QED BY <2>2, <3>1 DEF Turn, ByInv, HolderIsAt
  <2> QED BY <2>1, <2>2
<1>4. ASSUME NEW n \in Notes \ named', faults' = 0 PROVE Tidy(n)'
  <2>1. faults = 0 /\ n \in Notes \ named /\ Tidy(n)
    BY <1>4 DEF Turn, ByInv, TablesTyped
  <2>2. CASE lock[n] = p \/ lock'[n] = p
    BY <1>4, <2>1, <2>2
  <2>3. CASE lock[n] # p /\ lock'[n] # p
    <3>1. lock'[n] = lock[n] /\ Untouched(n)
      BY <1>4, <2>3 DEF Turn
    <3>2. Agrees(n) => Agrees(n)'
      BY <3>1 DEF Untouched, Agrees
    <3>3. ASSUME NEW q \in Servers, lock[n] = q PROVE Remains(q, n) => Remains(q, n)'
      BY <2>3, <3>1, <3>2, <3>3 DEF Turn, Untouched, Remains
    <3> QED BY <2>1, <3>1, <3>2, <3>3 DEF Tidy, Untouched
  <2> QED BY <2>2, <2>3
<1> QED BY <1>2, <1>3, <1>4 DEF ByInv

\* A call that ends, or goes on to the next source, releases what it holds.
LEMMA Releases ==
    ASSUME IInv, ByInv, NEW p \in Servers, Finish(p) \/ NextSource(p)
    PROVE  /\ \A q \in Servers \ {p} : pc'[q] = pc[q] /\ job'[q] = job[q]
           /\ \A n \in Notes : lock'[n] = IF lock[n] = p THEN None ELSE lock[n]
           /\ pc'[p] \in {"idle", "sources"}
           /\ \/ Finish(p) /\ pc'[p] = "idle" /\ job'[p] = NoJob
              \/ NextSource(p) /\ pc'[p] = "sources" /\ job'[p] \in Jobs
                 /\ job'[p].op = job[p].op /\ job'[p].note = job[p].note /\ job'[p].to = job[p].to
                 /\ job'[p].todo = job[p].todo
<1>1. CASE Finish(p)
  BY <1>1 DEF Finish, Goto, Holds, IInv, Typed
<1>2. CASE NextSource(p)
  <2>1. PICK j : j = [job[p] EXCEPT !.at = None, !.text = NoText]
    OBVIOUS
  <2>2. job[p] \in Jobs /\ NoText \in Texts
    BY DEF IInv, Typed, NoText, Texts
  <2>3. j \in Jobs /\ j.op = job[p].op /\ j.note = job[p].note /\ j.to = job[p].to /\ j.todo = job[p].todo
    BY <2>1, <2>2 DEF Jobs
  <2>4. job' = [job EXCEPT ![p] = j]
    BY <1>2, <2>1 DEF NextSource, IInv, Typed
  <2> QED BY <1>2, <2>3, <2>4 DEF NextSource, Goto, Holds, IInv, Typed
<1> QED BY <1>1, <1>2

LEMMA ReleasesTurn ==
    ASSUME IInv, ByInv, NEW p \in Servers, Finish(p) \/ NextSource(p),
           named' = named, faults \in Nat => faults' \in Nat /\ (faults' = 0 => faults = 0)
    PROVE  Turn(p) /\ IsAbout(p)'
<1>1. p # None
  BY RefactorConstants
<1>2. Turn(p)
  BY <1>1, Releases DEF Turn
<1>3. IsAbout(p)
  BY DEF ByInv
<1>4. NoJob.op = None
  BY DEF NoJob
<1>5. IsAbout(p)'
  BY <1>3, <1>4, Releases, RefactorConstants DEF IsAbout, Late, Inside
<1> QED BY <1>2, <1>5

\* A call that holds no lock and looks where to go leaves the notes as they are.
LEMMA LookingTurn ==
    ASSUME IInv, ByInv, NEW p \in Servers, pc[p] \notin Inside,
           \A q \in Servers \ {p} : pc'[q] = pc[q] /\ job'[q] = job[q],
           pc'[p] \notin Inside, lock' = lock, UNCHANGED <<disk, tables, faults>>,
           named \subseteq named', named' \subseteq Notes, IsAbout(p)'
    PROVE  ByInv'
<1>1. \A n \in Notes : lock[n] # p
  BY DEF ByInv, HolderIsAt
<1>2. TablesTyped'
  BY DEF ByInv, TablesTyped, tables
<1>3. Turn(p)
  BY <1>1 DEF Turn
<1>4. \A n \in Notes : Untouched(n)
  BY DEF Untouched, LinksOf, From, tables
<1> QED BY <1>1, <1>2, <1>3, <1>4, ByTurn

LEMMA ByCall ==
    ASSUME IInv, ByInv, NEW p \in Servers, Append(p) \/ Rename(p) \/ Delete(p)
    PROVE  ByInv'
<1>1. PICK j : /\ job' = [job EXCEPT ![p] = j] /\ pc[p] = "idle" /\ named \subseteq named'
               /\ j.op \in {"rename", "safe", "cascade"} => j.note \in named'
               /\ j.op = "rename" => j.to \in named'
               /\ named' \subseteq Notes
               /\ Goto(p, "lock") \/ Goto(p, "inbound")
  <2>0. named \subseteq Notes
    BY DEF ByInv, TablesTyped
  <2>1. CASE Append(p)
    <3>1. PICK e \in Edits, n \in Notes, l \in NewLinks :
             Begin(p, [NoJob EXCEPT !.op = "append", !.note = n, !.at = n, !.edit = e, !.link = l])
      BY <2>1 DEF Append
    <3>2. PICK j : j = [NoJob EXCEPT !.op = "append", !.note = n, !.at = n, !.edit = e, !.link = l]
      OBVIOUS
    <3>3. j.op = "append"
      BY <3>2 DEF NoJob
    <3> QED BY <2>0, <2>1, <3>1, <3>2, <3>3 DEF Append, Begin, At
  <2>2. CASE Rename(p)
    <3>1. PICK n \in Notes, to \in Notes :
             /\ Begin(p, [NoJob EXCEPT !.op = "rename", !.note = n, !.to = to])
             /\ named' = named \cup {n, to}
      BY <2>2 DEF Rename
    <3>2. PICK j : j = [NoJob EXCEPT !.op = "rename", !.note = n, !.to = to]
      OBVIOUS
    <3>3. j.op = "rename" /\ j.note = n /\ j.to = to
      BY <3>2 DEF NoJob
    <3> QED BY <2>0, <2>2, <3>1, <3>2, <3>3 DEF Rename, Begin, At
  <2>3. CASE Delete(p)
    <3>1. PICK n \in Notes, mode \in Ops \cap {"safe", "cascade"} :
             /\ Begin(p, [NoJob EXCEPT !.op = mode, !.note = n])
             /\ named' = named \cup {n}
      BY <2>3 DEF Delete
    <3>2. PICK j : j = [NoJob EXCEPT !.op = mode, !.note = n]
      OBVIOUS
    <3>3. j.op = mode /\ j.note = n
      BY <3>2 DEF NoJob
    <3> QED BY <2>0, <2>3, <3>1, <3>2, <3>3 DEF Delete, Begin, At
  <2> QED BY <2>1, <2>2, <2>3
<1>2. /\ \A q \in Servers \ {p} : pc'[q] = pc[q] /\ job'[q] = job[q]
      /\ job'[p] = j /\ pc'[p] \in {"lock", "inbound"}
  BY <1>1 DEF Goto, IInv, Typed
<1>3. IsAbout(p)'
  BY <1>1, <1>2 DEF IsAbout, Late, Inside
<1>4. lock' = lock /\ UNCHANGED <<disk, tables, faults>>
  BY DEF Append, Rename, Delete
<1> QED BY <1>1, <1>2, <1>3, <1>4, LookingTurn DEF Inside

\* What a call that looks for its sources changes of its locals.
LooksOn(p, T, m) == job' = [job EXCEPT ![p] = [job[p] EXCEPT !.todo = T, !.at = m]]

LEMMA JobChanges ==
    ASSUME IInv, NEW p \in Servers, NEW T, NEW m, LooksOn(p, T, m)
    PROVE  /\ job'[p].todo = T /\ job'[p].at = m
           /\ job'[p].op = job[p].op /\ job'[p].note = job[p].note /\ job'[p].to = job[p].to
           /\ job'[p].text = job[p].text
           /\ \A q \in Servers \ {p} : job'[q] = job[q]
<1>1. PICK j : j = [job[p] EXCEPT !.todo = T, !.at = m]
  OBVIOUS
<1>2. job[p] \in Jobs
  BY DEF IInv, Typed
<1>3. /\ j.todo = T /\ j.at = m
      /\ j.op = job[p].op /\ j.note = job[p].note /\ j.to = job[p].to /\ j.text = job[p].text
  BY <1>1, <1>2 DEF Jobs
<1>4. job'[p] = j /\ \A q \in Servers \ {p} : job'[q] = job[q]
  BY <1>1 DEF IInv, Typed, LooksOn
<1> QED BY <1>3, <1>4

LEMMA LookChanges ==
    ASSUME IInv, NEW p \in Servers, FindInbound(p) \/ PickSource(p), ~(FindInbound(p) /\ Finish(p))
    PROVE  /\ lock' = lock /\ UNCHANGED <<disk, rows, edges, vec, faults, named, overlapped>>
           /\ \A q \in Servers \ {p} : pc'[q] = pc[q] /\ job'[q] = job[q]
           /\ job'[p].op = job[p].op /\ job'[p].note = job[p].note /\ job'[p].to = job[p].to
           /\ \/ /\ pc[p] = "inbound" /\ pc'[p] = "sources"
                 /\ job'[p].todo = {e.from : e \in {f \in edges : f.to = job[p].note}}
                 /\ job[p].op = "safe" => job'[p].todo = {}
              \/ /\ pc[p] = "sources" /\ pc'[p] = "targetlock"
                 /\ job[p].todo = {} /\ job'[p].todo = {}
              \/ /\ pc[p] = "sources" /\ pc'[p] = "sources"
                 /\ \E n \in job[p].todo : disk[n] = None /\ job'[p].todo = job[p].todo \ {n}
              \/ /\ pc[p] = "sources" /\ pc'[p] = "lock" /\ job'[p].at \in job[p].todo
                 /\ disk[job'[p].at] # None /\ job'[p].todo = job[p].todo \ {job'[p].at}
<1>1. lock' = lock /\ UNCHANGED <<disk, rows, edges, vec, faults, named, overlapped>>
  BY DEF FindInbound, PickSource, history, tables
<1>0. job[p] \in Jobs
  BY DEF IInv, Typed
<1>2. CASE FindInbound(p)
  <2>1. PICK T : T = {e.from : e \in {f \in edges : f.to = job[p].note}}
    OBVIOUS
  <2>2. /\ pc[p] = "inbound" /\ Goto(p, "sources")
        /\ job' = [job EXCEPT ![p].todo = T] /\ (job[p].op = "safe" => T = {})
    BY <1>2, <2>1 DEF FindInbound, At
  <2>3. pc'[p] = "sources" /\ \A q \in Servers \ {p} : pc'[q] = pc[q]
    BY <2>2 DEF Goto, IInv, Typed
  <2>4. LooksOn(p, T, job[p].at)
    <3>1. [job[p] EXCEPT !.todo = T] = [job[p] EXCEPT !.todo = T, !.at = job[p].at]
      BY <1>0 DEF Jobs
    <3> QED BY <2>2, <3>1 DEF IInv, Typed, LooksOn
  <2>5. /\ job'[p].todo = T
        /\ job'[p].op = job[p].op /\ job'[p].note = job[p].note /\ job'[p].to = job[p].to
        /\ \A q \in Servers \ {p} : job'[q] = job[q]
    BY <2>4, JobChanges
  <2> QED BY <1>1, <2>1, <2>2, <2>3, <2>5
<1>3. CASE PickSource(p)
  <2>1. CASE job[p].todo = {}
    <3>1. PICK m : pc[p] = "sources" /\ job' = [job EXCEPT ![p].at = m] /\ Goto(p, "targetlock")
      BY <1>3, <2>1 DEF PickSource, At
    <3>2. pc'[p] = "targetlock" /\ \A q \in Servers \ {p} : pc'[q] = pc[q]
      BY <3>1 DEF Goto, IInv, Typed
    <3>3. LooksOn(p, job[p].todo, m)
      <4>1. [job[p] EXCEPT !.at = m] = [job[p] EXCEPT !.todo = job[p].todo, !.at = m]
        BY <1>0 DEF Jobs
      <4> QED BY <3>1, <4>1 DEF IInv, Typed, LooksOn
    <3>4. /\ job'[p].todo = job[p].todo
          /\ job'[p].op = job[p].op /\ job'[p].note = job[p].note /\ job'[p].to = job[p].to
          /\ \A q \in Servers \ {p} : job'[q] = job[q]
      BY <3>3, JobChanges
    <3> QED BY <1>1, <2>1, <3>1, <3>2, <3>4
  <2>2. CASE job[p].todo # {}
    <3>1. PICK n \in job[p].todo :
            \/ disk[n] = None /\ job' = [job EXCEPT ![p].todo = @ \ {n}] /\ UNCHANGED pc
            \/ /\ disk[n] # None /\ job' = [job EXCEPT ![p].todo = @ \ {n}, ![p].at = n]
               /\ Goto(p, "lock")
      BY <1>3, <2>2 DEF PickSource
    <3>2. PICK T : T = job[p].todo \ {n}
      OBVIOUS
    <3>3. CASE disk[n] = None /\ job' = [job EXCEPT ![p].todo = @ \ {n}] /\ UNCHANGED pc
      <4>1. LooksOn(p, T, job[p].at)
        <5>1. [job[p] EXCEPT !.todo = job[p].todo \ {n}] = [job[p] EXCEPT !.todo = T, !.at = job[p].at]
          BY <1>0, <3>2 DEF Jobs
        <5> QED BY <3>3, <5>1 DEF IInv, Typed, LooksOn
      <4>2. /\ job'[p].todo = T
            /\ job'[p].op = job[p].op /\ job'[p].note = job[p].note /\ job'[p].to = job[p].to
            /\ \A q \in Servers \ {p} : job'[q] = job[q]
        BY <4>1, JobChanges
      <4>3. pc[p] = "sources" /\ pc' = pc
        BY <1>3, <3>3 DEF PickSource, At
      <4> QED BY <1>1, <3>2, <3>3, <4>2, <4>3
    <3>4. CASE disk[n] # None /\ job' = [job EXCEPT ![p].todo = @ \ {n}, ![p].at = n] /\ Goto(p, "lock")
      <4>1. LooksOn(p, T, n)
        BY <3>2, <3>4 DEF IInv, Typed, LooksOn
      <4>2. pc'[p] = "lock" /\ \A q \in Servers \ {p} : pc'[q] = pc[q]
        BY <3>4 DEF Goto, IInv, Typed
      <4>3. /\ job'[p].todo = T /\ job'[p].at = n
            /\ job'[p].op = job[p].op /\ job'[p].note = job[p].note /\ job'[p].to = job[p].to
            /\ \A q \in Servers \ {p} : job'[q] = job[q]
        BY <4>1, JobChanges
      <4>4. pc[p] = "sources"
        BY <1>3 DEF PickSource, At
      <4> QED BY <1>1, <3>2, <3>4, <4>2, <4>3, <4>4
    <3> QED BY <3>1, <3>3, <3>4
  <2> QED BY <2>1, <2>2
<1> QED BY <1>2, <1>3

LEMMA ByLook ==
    ASSUME IInv, ByInv, NEW p \in Servers, FindInbound(p) \/ PickSource(p)
    PROVE  ByInv'
<1>1. pc[p] \in {"inbound", "sources"} /\ IsAbout(p)
  BY DEF ByInv, FindInbound, PickSource, At
<1>2. CASE FindInbound(p) /\ Finish(p)
  <2>1. lock' = lock
    <3>1. \A n \in Notes : lock[n] # p
      BY <1>1 DEF ByInv, HolderIsAt, Inside
    <3> QED BY <1>2, <3>1 DEF Finish, Holds, IInv, Typed
  <2>2. Turn(p) /\ IsAbout(p)' /\ named' = named
    BY <1>2, ReleasesTurn DEF FindInbound, history
  <2>3. pc'[p] = "idle"
    BY <1>2 DEF Finish, Goto, IInv, Typed
  <2> QED BY <1>1, <1>2, <2>1, <2>2, <2>3, LookingTurn DEF FindInbound, Inside, Turn, ByInv, TablesTyped
<1>3. CASE ~(FindInbound(p) /\ Finish(p))
  <2>1. pc'[p] \notin Inside /\ IsAbout(p)'
    BY <1>1, <1>3, LookChanges DEF IsAbout, Late, Inside
  <2> QED BY <1>1, <1>3, <2>1, LookChanges, LookingTurn DEF Inside, ByInv, TablesTyped, tables
<1> QED BY <1>2, <1>3

\* In this step, note n is left with p gone and nothing to do, or with p holding it.
LEMMA ByTakeLock ==
    ASSUME IInv, ByInv, NEW p \in Servers, TakeLock(p)
    PROVE  ByInv'
<1> DEFINE m == job[p].at
<1>1. /\ pc[p] \in {"lock", "targetlock"} /\ lock[m] = None /\ lock' = [lock EXCEPT ![m] = p]
      /\ pc' = [pc EXCEPT ![p] = Behind(p)]
      /\ UNCHANGED <<disk, rows, edges, vec, job, faults, named>>
  BY DEF TakeLock, Goto, history, tables
<1>2. /\ m \in Notes /\ p # None /\ Aimed(p) /\ IsAbout(p)
      /\ Behind(p) = IF pc[p] = "lock" THEN "read" ELSE IF job[p].op = "rename" THEN "move" ELSE "unlink"
  BY <1>1, RefactorConstants DEF IInv, Aimed, ByInv, Behind, At
<1>3. /\ pc'[p] = Behind(p) /\ \A q \in Servers \ {p} : pc'[q] = pc[q]
      /\ lock'[m] = p /\ \A n \in Notes \ {m} : lock'[n] = lock[n]
  BY <1>1, <1>2 DEF IInv, Typed
<1>4. \A n \in Notes : lock[n] # p
  BY <1>1 DEF ByInv, HolderIsAt, Inside
<1> HIDE DEF m
<1>5. Turn(p)
  <2>1. \A n \in Notes : lock'[n] = p => n = m
    BY <1>3, <1>4
  <2>2. Behind(p) \in Inside
    BY <1>2 DEF Inside
  <2> QED BY <1>1, <1>2, <1>3, <1>4, <2>1, <2>2 DEF Turn, m
<1>6. TablesTyped'
  BY <1>1 DEF ByInv, TablesTyped
<1>7. \A n \in Notes : Untouched(n)
  BY <1>1 DEF Untouched, LinksOf, From
<1>8. IsAbout(p)'
  <2>1. CASE pc[p] = "lock"
    BY <1>1, <1>2, <1>3, <2>1 DEF IsAbout, Late
  <2>2. CASE pc[p] = "targetlock"
    BY <1>1, <1>2, <1>3, <2>2, RefactorConstants DEF IsAbout, Late, Aimed, m, Typed, IInv, Jobs
  <2> QED BY <1>1, <2>1, <2>2
<1>9. ASSUME NEW n \in Notes \ named', faults = 0, faults' = 0, Tidy(n), lock[n] = p \/ lock'[n] = p
      PROVE  Tidy(n)'
  <2>1. n = m /\ pc[p] = "lock"
    <3>1. n = m
      BY <1>3, <1>4, <1>9
    <3> QED BY <1>1, <1>2, <1>3, <1>8, <1>9, <3>1 DEF IsAbout, Late, Inside, m
  <2>2. disk[n] # None => Agrees(n)
    BY <1>1, <1>9, <2>1 DEF Tidy
  <2>3. Agrees(n) => Agrees(n)'
    BY <1>7 DEF Untouched, Agrees
  <2> QED BY <1>1, <1>2, <1>3, <2>1, <2>2, <2>3 DEF Tidy, Remains
<1> QED BY <1>5, <1>6, <1>7, <1>8, <1>9, ByTurn

\* What the steps inside the lock of the note in hand have in common.
LEMMA InHand ==
    ASSUME IInv, ByInv, NEW p \in Servers, pc[p] \in Inside
    PROVE  /\ job[p].at \in Notes /\ lock[job[p].at] = p /\ p # None
           /\ \A n \in Notes : lock[n] = p <=> n = job[p].at
           /\ job[p] \in Jobs /\ WellCalled(job[p]) /\ job[p].op # None
<1>1. Guarded(p) /\ Aimed(p) /\ p # None
  BY RefactorConstants DEF IInv
<1>2. \A n \in Notes : lock[n] = p => job[p].at = n
  BY DEF ByInv, HolderIsAt
<1> QED BY <1>1, <1>2 DEF Guarded, Aimed, IInv, Typed, Inside

\* A step inside the lock that goes on inside it.
LEMMA InsideTurn ==
    ASSUME IInv, ByInv, NEW p \in Servers, pc[p] \in Inside, NEW label \in Inside,
           pc' = [pc EXCEPT ![p] = label], lock' = lock, UNCHANGED <<faults, named>>,
           \A q \in Servers \ {p} : job'[q] = job[q],
           job'[p].at = job[p].at, job'[p].op = job[p].op, job'[p].note = job[p].note,
           job'[p].to = job[p].to, label \in Late => pc[p] \in Late
    PROVE  Turn(p) /\ IsAbout(p)' /\ pc'[p] = label
<1>1. pc'[p] = label /\ \A q \in Servers \ {p} : pc'[q] = pc[q]
  BY DEF IInv, Typed
<1>2. Turn(p)
  BY <1>1, InHand DEF Turn
<1>3. IsAbout(p)
  BY DEF ByInv
<1> QED BY <1>1, <1>2, <1>3 DEF IsAbout

LEMMA ByRead ==
    ASSUME IInv, ByInv, NEW p \in Servers, Read(p)
    PROVE  ByInv'
<1>1. /\ pc[p] = "read" /\ UNCHANGED <<disk, rows, edges, vec, faults, named>>
  BY DEF Read, At, tables, history
<1>2. pc[p] \in Inside
  BY <1>1 DEF Inside
<1>3. TablesTyped' /\ \A n \in Notes : Untouched(n)
  BY <1>1 DEF ByInv, TablesTyped, Untouched, LinksOf, From
<1>4. \A n \in Notes \ named : faults = 0 /\ lock[n] = p /\ disk[n] # None => Agrees(n)
  BY <1>1 DEF ByInv, Tidy, Remains
<1>5. \A n \in Notes : Agrees(n) => Agrees(n)'
  BY <1>3 DEF Untouched, Agrees
<1>6. CASE Finish(p) \/ NextSource(p)
  <2>1. Turn(p) /\ IsAbout(p)'
    BY <1>1, <1>6, ReleasesTurn
  <2>2. \A n \in Notes : lock'[n] # p /\ (lock[n] = p => lock'[n] = None)
    BY <1>2, <1>6, InHand, Releases
  <2>3. ASSUME NEW n \in Notes \ named', faults = 0, faults' = 0, Tidy(n), lock[n] = p \/ lock'[n] = p
        PROVE  Tidy(n)'
    BY <1>1, <1>4, <1>5, <2>2, <2>3, RefactorConstants DEF Tidy
  <2> QED BY <1>3, <2>1, <2>3, ByTurn
<1>7. CASE ~Finish(p) /\ ~NextSource(p)
  <2>1. PICK t : job' = [job EXCEPT ![p].text = t] /\ Goto(p, "write") /\ lock' = lock
    BY <1>7 DEF Read
  <2>2. PICK j : j = [job[p] EXCEPT !.text = t]
    OBVIOUS
  <2>3. job[p] \in Jobs
    BY DEF IInv, Typed
  <2>4. j.at = job[p].at /\ j.op = job[p].op /\ j.note = job[p].note /\ j.to = job[p].to
    BY <2>2, <2>3 DEF Jobs
  <2>5. job'[p] = j /\ \A q \in Servers \ {p} : job'[q] = job[q]
    BY <2>1, <2>2 DEF IInv, Typed
  <2>6. Turn(p) /\ IsAbout(p)' /\ pc'[p] = "write"
    BY <1>1, <1>2, <2>1, <2>4, <2>5, InsideTurn DEF Inside, Late, Goto
  <2>7. ASSUME NEW n \in Notes \ named', faults = 0, faults' = 0, Tidy(n), lock[n] = p \/ lock'[n] = p
        PROVE  Tidy(n)'
    <3>1. lock[n] = p /\ n \in Notes \ named
      BY <1>1, <2>1, <2>7
    <3>2. disk'[n] # None => Agrees(n)'
      BY <1>1, <1>4, <1>5, <2>7, <3>1
    <3> QED BY <1>2, <2>1, <2>6, <3>1, <3>2, InHand DEF Tidy, Remains
  <2> QED BY <1>3, <2>6, <2>7, ByTurn
<1> QED BY <1>6, <1>7

LEMMA ByWrite ==
    ASSUME IInv, ByInv, NEW p \in Servers, Write(p)
    PROVE  ByInv'
<1>1. /\ pc[p] = "write" /\ UNCHANGED <<rows, edges, vec, lock, job, faults, named>>
      /\ disk' = [disk EXCEPT ![job[p].at] = job[p].text] /\ pc' = [pc EXCEPT ![p] = "sync"]
  BY DEF Write, At, Goto, tables, history
<1>2. pc[p] \in Inside
  BY <1>1 DEF Inside
<1>3. Turn(p) /\ IsAbout(p)' /\ pc'[p] = "sync"
  BY <1>1, <1>2, InsideTurn DEF Inside, Late
<1>4. TablesTyped'
  BY <1>1 DEF ByInv, TablesTyped
<1>5. disk'[job[p].at] = job[p].text /\ \A n \in Notes \ {job[p].at} : disk'[n] = disk[n]
  BY <1>1, <1>2, InHand DEF IInv, Typed
<1>6. \A n \in Notes \ named' : lock[n] # p /\ lock'[n] # p => Untouched(n)
  BY <1>1, <1>2, <1>5, InHand DEF Untouched, LinksOf, From
<1>7. ASSUME NEW n \in Notes \ named', faults = 0, faults' = 0, Tidy(n), lock[n] = p \/ lock'[n] = p
      PROVE  Tidy(n)'
  BY <1>1, <1>2, <1>3, <1>5, <1>7, InHand DEF Tidy, Remains
<1> QED BY <1>3, <1>4, <1>6, <1>7, ByTurn

LEMMA BySync ==
    ASSUME IInv, ByInv, NEW p \in Servers, Sync(p)
    PROVE  ByInv'
<1>0. PICK m : m = job[p].at
  OBVIOUS
<1>1. pc[p] = "sync" /\ UNCHANGED <<disk, vec, faults, named>>
  BY <1>0 DEF Sync, At, tables, history
<1>2. pc[p] \in Inside
  BY <1>0, <1>1 DEF Inside
<1>3. CASE disk[m] = None
  <2>1. Finish(p) /\ UNCHANGED <<rows, edges>>
    BY <1>0, <1>3 DEF Sync
  <2>2. Turn(p) /\ IsAbout(p)'
    BY <1>0, <1>1, <2>1, ReleasesTurn
  <2>3. TablesTyped' /\ \A n \in Notes : Untouched(n)
    BY <1>0, <1>1, <2>1 DEF ByInv, TablesTyped, Untouched, LinksOf, From
  <2>4. ASSUME NEW n \in Notes \ named', faults = 0, faults' = 0, Tidy(n), lock[n] = p \/ lock'[n] = p
        PROVE  Tidy(n)'
    <3>1. \A k \in Notes : lock'[k] # p
      BY <1>0, <1>2, <2>1, Releases, InHand
    <3> QED BY <1>0, <1>1, <1>2, <1>3, <2>4, <3>1, InHand DEF Tidy
  <2> QED BY <1>0, <2>2, <2>3, <2>4, ByTurn
<1>4. CASE disk[m] # None
  <2>1. SyncOne(m) /\ UNCHANGED <<lock, job>> /\ pc' = [pc EXCEPT ![p] = "index"]
    BY <1>0, <1>4 DEF Sync, Goto
  <2>2. m \in Notes /\ disk[m] \in Texts /\ edges \subseteq Edges /\ rows \in [Notes -> Rows \cup {None}]
    BY <1>0, <1>2, <1>4, InHand DEF IInv, Typed, ByInv, TablesTyped
  <2>3. /\ rows' \in [Notes -> Rows \cup {None}]
        /\ rows'[m] # None /\ rows'[m].text = disk[m] /\ LinksOf(m)' = disk[m].links
        /\ \A n \in Notes \ {m} : rows'[n] = rows[n] /\ LinksOf(n)' = LinksOf(n)
    BY <1>0, <2>1, <2>2, SyncOneDoes
  <2>4. Turn(p) /\ IsAbout(p)' /\ pc'[p] = "index"
    BY <1>0, <1>1, <1>2, <2>1, InsideTurn DEF Inside, Late
  <2>5. TablesTyped'
    BY <1>0, <1>1, <2>3 DEF ByInv, TablesTyped
  <2>6. \A n \in Notes : lock[n] = p <=> n = m
    BY <1>0, <1>2, InHand
  <2>7. \A n \in Notes \ named' : lock[n] # p /\ lock'[n] # p => Untouched(n)
    BY <1>0, <1>1, <2>3, <2>6 DEF Untouched
  <2>8. ASSUME NEW n \in Notes \ named', faults = 0, faults' = 0, Tidy(n), lock[n] = p \/ lock'[n] = p
        PROVE  Tidy(n)'
    <3>1. n = m
      BY <1>0, <2>1, <2>6, <2>8
    <3>2. disk[m] = job[p].text
      BY <1>0, <1>1, <1>4, <2>1, <2>8, <3>1 DEF Tidy, Remains
    <3>3. disk'[n] # None /\ lock'[n] = p /\ disk'[n] = job'[p].text
      BY <1>0, <1>1, <1>4, <2>1, <2>6, <3>1, <3>2
    <3>4. p # None
      BY <1>0, RefactorConstants
    <3> QED BY <1>0, <1>1, <2>1, <2>3, <2>4, <3>1, <3>3, <3>4 DEF Tidy, Remains
  <2> QED BY <1>0, <2>4, <2>5, <2>7, <2>8, ByTurn
<1> QED BY <1>0, <1>3, <1>4

LEMMA ByIndex ==
    ASSUME IInv, ByInv, NEW p \in Servers, Index(p)
    PROVE  ByInv'
<1>0. PICK m : m = job[p].at
  OBVIOUS
<1> DEFINE t == IF job[p].op = "append" THEN job[p].text
                ELSE IF rows[m] = None THEN vec[m] ELSE rows[m].text
<1>1. /\ pc[p] = "index" /\ UNCHANGED <<disk, rows, edges, faults, named>>
      /\ vec' = [vec EXCEPT ![m] = t] /\ (Finish(p) \/ NextSource(p))
  BY <1>0 DEF Index, At
<1>2. pc[p] \in Inside
  BY <1>0, <1>1 DEF Inside
<1>3. Turn(p) /\ IsAbout(p)'
  BY <1>0, <1>1, ReleasesTurn
<1>4. m \in Notes /\ (\A n \in Notes : lock[n] = p <=> n = m) /\ p # None
  BY <1>0, <1>2, InHand
<1>5. t \in Texts \cup {None}
  <2>1. job[p].text \in Texts
    BY <1>0, <1>2, InHand DEF Jobs
  <2>2. rows[m] \in Rows \cup {None} /\ vec[m] \in Texts \cup {None}
    BY <1>0, <1>4 DEF ByInv, TablesTyped
  <2> QED BY <1>0, <2>1, <2>2 DEF Rows
<1>6. TablesTyped' /\ vec'[m] = t /\ \A n \in Notes \ {m} : vec'[n] = vec[n]
  BY <1>0, <1>1, <1>4, <1>5 DEF ByInv, TablesTyped
<1>7. \A n \in Notes \ named' : lock[n] # p /\ lock'[n] # p => Untouched(n)
  BY <1>0, <1>1, <1>4, <1>6 DEF Untouched, LinksOf, From
<1>8. lock'[m] = None
  BY <1>0, <1>1, <1>4, Releases
<1>9. ASSUME NEW n \in Notes \ named', faults = 0, faults' = 0, Tidy(n), lock[n] = p \/ lock'[n] = p
      PROVE  Tidy(n)'
  <2>1. n = m
    BY <1>0, <1>1, <1>4, <1>9, Releases
  <2>2. disk[m] # None => /\ disk[m] = job[p].text /\ rows[m] # None /\ rows[m].text = disk[m]
                          /\ LinksOf(m) = disk[m].links
    BY <1>0, <1>1, <1>4, <1>9, <2>1 DEF Tidy, Remains
  <2>3. disk[m] # None => t = disk[m]
    BY <1>0, <2>2
  <2>4. LinksOf(m)' = LinksOf(m)
    BY <1>0, <1>1 DEF LinksOf, From
  <2>5. disk'[m] # None => Agrees(m)'
    BY <1>0, <1>1, <1>6, <2>2, <2>3, <2>4 DEF Agrees
  <2>6. \A q \in Servers : q # None
    BY <1>0, RefactorConstants
  <2> QED BY <1>0, <1>8, <2>1, <2>5, <2>6 DEF Tidy
<1> QED BY <1>0, <1>3, <1>6, <1>7, <1>9, ByTurn

\* The end of a rename or a delete touches none but the notes it is about.
LEMMA LateTurn ==
    ASSUME IInv, ByInv, NEW p \in Servers, pc[p] \in Late, Turn(p), IsAbout(p)', TablesTyped',
           named' = named, \A n \in Notes : lock'[n] = p => lock[n] = p,
           \A n \in Notes \ named : Untouched(n)
    PROVE  ByInv'
<1>1. pc[p] \in Inside /\ job[p].at \in named
  BY DEF Late, ByInv, IsAbout
<1>2. \A n \in Notes \ named' : lock[n] # p /\ lock'[n] # p
  BY <1>1, InHand
<1> QED BY <1>2, ByTurn

\* What it is about.
LEMMA LateIsAbout ==
    ASSUME IInv, ByInv, NEW p \in Servers, pc[p] \in Late
    PROVE  /\ job[p].op # "append" /\ job[p].op # None
           /\ job[p].note \in named /\ named \subseteq Notes
           /\ job[p].op = "rename" => job[p].to \in named
           /\ pc[p] \in {"move", "rekey", "moveedges", "movevec", "resync"} => job[p].op = "rename"
<1>1. IsAbout(p) /\ Aimed(p) /\ job[p].op \in Ops \cup {None}
  BY DEF ByInv, IInv, Typed, Jobs
<1>2. pc[p] # "idle"
  BY DEF Late, Inside
<1> QED BY <1>1, <1>2, RefactorConstants DEF IsAbout, Aimed, ByInv, TablesTyped

LEMMA ByMoveFile ==
    ASSUME IInv, ByInv, NEW p \in Servers, MoveFile(p)
    PROVE  ByInv'
<1>1. pc[p] = "move" /\ UNCHANGED <<rows, edges, vec, faults, named>>
  BY DEF MoveFile, At, tables
<1>2. pc[p] \in Late /\ pc[p] \in Inside
  BY <1>1 DEF Late, Inside
<1>3. TablesTyped'
  BY <1>1 DEF ByInv, TablesTyped
<1>4. CASE Finish(p) /\ disk' = disk
  <2>1. Turn(p) /\ IsAbout(p)'
    BY <1>1, <1>4, ReleasesTurn
  <2>2. \A n \in Notes : lock'[n] # p
    BY <1>2, <1>4, InHand, Releases
  <2>3. \A n \in Notes : Untouched(n)
    BY <1>1, <1>4 DEF Untouched, LinksOf, From
  <2> QED BY <1>1, <1>2, <1>3, <2>1, <2>2, <2>3, LateTurn
<1>5. CASE /\ disk' = [disk EXCEPT ![job[p].to] = disk[job[p].note], ![job[p].note] = None]
           /\ Goto(p, "rekey") /\ UNCHANGED <<lock, job>>
  <2>1. Turn(p) /\ IsAbout(p)'
    BY <1>1, <1>2, <1>5, InsideTurn DEF Goto, Inside, Late
  <2>2. \A n \in Notes \ named : disk'[n] = disk[n]
    BY <1>1, <1>2, <1>5, LateIsAbout DEF IInv, Typed
  <2>3. \A n \in Notes \ named : Untouched(n)
    BY <1>1, <2>2 DEF Untouched, LinksOf, From
  <2> QED BY <1>1, <1>2, <1>3, <1>5, <2>1, <2>3, LateTurn
<1> QED BY <1>4, <1>5 DEF MoveFile

LEMMA ByUnlink ==
    ASSUME IInv, ByInv, NEW p \in Servers, Unlink(p)
    PROVE  ByInv'
<1>1. pc[p] = "unlink" /\ UNCHANGED <<rows, edges, vec, faults, named>>
  BY DEF Unlink, At, tables
<1>2. pc[p] \in Late /\ pc[p] \in Inside
  BY <1>1 DEF Late, Inside
<1>3. TablesTyped'
  BY <1>1 DEF ByInv, TablesTyped
<1>4. CASE Finish(p) /\ disk' = disk
  <2>1. Turn(p) /\ IsAbout(p)'
    BY <1>1, <1>4, ReleasesTurn
  <2>2. \A n \in Notes : lock'[n] # p
    BY <1>2, <1>4, InHand, Releases
  <2>3. \A n \in Notes : Untouched(n)
    BY <1>1, <1>4 DEF Untouched, LinksOf, From
  <2> QED BY <1>1, <1>2, <1>3, <2>1, <2>2, <2>3, LateTurn
<1>5. CASE /\ disk' = [disk EXCEPT ![job[p].note] = None]
           /\ Goto(p, "droprow") /\ UNCHANGED <<lock, job>>
  <2>1. Turn(p) /\ IsAbout(p)'
    BY <1>1, <1>2, <1>5, InsideTurn DEF Goto, Inside, Late
  <2>2. \A n \in Notes \ named : disk'[n] = disk[n]
    BY <1>1, <1>2, <1>5, LateIsAbout DEF IInv, Typed
  <2>3. \A n \in Notes \ named : Untouched(n)
    BY <1>1, <2>2 DEF Untouched, LinksOf, From
  <2> QED BY <1>1, <1>2, <1>3, <1>5, <2>1, <2>3, LateTurn
<1> QED BY <1>4, <1>5 DEF Unlink

\* A commit that leaves the files alone, and the tables of other notes too.
LEMMA ByCommit ==
    ASSUME IInv, ByInv, NEW p \in Servers, pc[p] \in Late, TablesTyped',
           \/ Finish(p)
           \/ UNCHANGED <<lock, job>> /\ \E label \in Late : Goto(p, label),
           UNCHANGED <<disk, faults, named>>,
           \A n \in Notes \ named : rows'[n] = rows[n] /\ vec'[n] = vec[n] /\ LinksOf(n)' = LinksOf(n)
    PROVE  ByInv'
<1>1. pc[p] \in Inside
  BY DEF Late
<1>2. \A n \in Notes \ named : Untouched(n)
  BY DEF Untouched
<1>3. CASE Finish(p)
  <2>1. Turn(p) /\ IsAbout(p)'
    BY <1>3, ReleasesTurn
  <2>2. \A n \in Notes : lock'[n] # p
    BY <1>1, <1>3, InHand, Releases
  <2> QED BY <1>2, <2>1, <2>2, LateTurn
<1>4. CASE UNCHANGED <<lock, job>> /\ \E label \in Late : Goto(p, label)
  <2>1. PICK label \in Late : Goto(p, label)
    BY <1>4
  <2>2. Turn(p) /\ IsAbout(p)'
    BY <1>1, <1>4, <2>1, InsideTurn DEF Goto, Late
  <2> QED BY <1>2, <1>4, <2>2, LateTurn
<1> QED BY <1>3, <1>4

\* Edges go with their source.
LEMMA OthersKeepLinks ==
    ASSUME NEW n, edges' = edges \ From(n)
    PROVE  LinksOf(n)' = {} /\ \A m : m # n => LinksOf(m)' = LinksOf(m)
  BY DEF LinksOf, From

LEMMA ByTables ==
    ASSUME IInv, ByInv, NEW p \in Servers,
           \/ MoveRow(p) \/ DropMovedEdges(p) \/ MoveVector(p)
           \/ DeleteRow(p) \/ DropEdges(p) \/ DropVector(p)
    PROVE  ByInv'
<1>1. PICK note, to : note = job[p].note /\ to = job[p].to
  OBVIOUS
<1>2. pc[p] \in {"rekey", "moveedges", "movevec", "droprow", "dropedges", "dropvec"}
  BY DEF MoveRow, DropMovedEdges, MoveVector, DeleteRow, DropEdges, DropVector, At
<1>3. pc[p] \in Late /\ {"moveedges", "movevec", "resync", "dropedges", "dropvec"} \subseteq Late
  BY <1>2 DEF Late, Inside
<1>4. /\ note \in named /\ named \subseteq Notes
      /\ pc[p] \in {"rekey", "moveedges", "movevec"} => to \in named
  BY <1>1, <1>3, LateIsAbout
<1>5. UNCHANGED <<disk, faults, named>>
  BY DEF MoveRow, DropMovedEdges, MoveVector, DeleteRow, DropEdges, DropVector, history
<1>6. \/ Finish(p)
      \/ UNCHANGED <<lock, job>> /\ \E label \in Late : Goto(p, label)
  BY <1>3 DEF MoveRow, DropMovedEdges, MoveVector, DeleteRow, DropEdges, DropVector
<1>7. rows \in [Notes -> Rows \cup {None}] /\ vec \in [Notes -> Texts \cup {None}]
  BY DEF ByInv, TablesTyped
<1>8. /\ rows' \in [Notes -> Rows \cup {None}] /\ vec' \in [Notes -> Texts \cup {None}]
      /\ \A n \in Notes \ named : rows'[n] = rows[n] /\ vec'[n] = vec[n] /\ LinksOf(n)' = LinksOf(n)
  <2>1. CASE MoveRow(p) \/ DeleteRow(p)
    <3>1. /\ edges' = edges /\ vec' = vec
          /\ \/ pc[p] = "rekey" /\ rows' = [rows EXCEPT ![to] = rows[note], ![note] = None]
             \/ rows' = [rows EXCEPT ![note] = None]
      BY <1>1, <2>1 DEF MoveRow, DeleteRow, At
    <3>2. \A n : LinksOf(n)' = LinksOf(n)
      BY <3>1 DEF LinksOf, From
    <3> QED BY <1>4, <1>7, <3>1, <3>2
  <2>2. CASE DropMovedEdges(p) \/ DropEdges(p)
    <3>1. edges' = edges \ From(note) /\ UNCHANGED <<rows, vec>>
      BY <1>1, <2>2 DEF DropMovedEdges, DropEdges
    <3> QED BY <1>4, <1>7, <3>1, OthersKeepLinks
  <2>3. CASE MoveVector(p) \/ DropVector(p)
    <3>1. /\ edges' = edges /\ rows' = rows
          /\ \/ pc[p] = "movevec" /\ vec' = [vec EXCEPT ![to] = vec[note], ![note] = None]
             \/ vec' = [vec EXCEPT ![note] = None]
      BY <1>1, <2>3 DEF MoveVector, DropVector, At
    <3>2. \A n : LinksOf(n)' = LinksOf(n)
      BY <3>1 DEF LinksOf, From
    <3> QED BY <1>4, <1>7, <3>1, <3>2
  <2> QED BY <2>1, <2>2, <2>3
<1>9. TablesTyped'
  BY <1>5, <1>8 DEF ByInv, TablesTyped
<1> QED BY <1>3, <1>5, <1>6, <1>8, <1>9, ByCommit

LEMMA ByResync ==
    ASSUME IInv, ByInv, NEW p \in Servers, Resync(p)
    PROVE  ByInv'
<1>1. PICK to : to = job[p].to
  OBVIOUS
<1>2. pc[p] = "resync" /\ Finish(p) /\ UNCHANGED <<disk, vec, faults, named>>
  BY DEF Resync, At, history
<1>3. pc[p] \in Late
  BY <1>2 DEF Late, Inside
<1>4. to \in named /\ to \in Notes
  BY <1>1, <1>2, <1>3, LateIsAbout
<1>5. /\ rows' \in [Notes -> Rows \cup {None}]
      /\ \A n \in Notes \ named : rows'[n] = rows[n] /\ LinksOf(n)' = LinksOf(n)
  <2>1. CASE UNCHANGED <<rows, edges>>
    BY <2>1 DEF ByInv, TablesTyped, LinksOf, From
  <2>2. CASE disk[to] # None /\ SyncOne(to)
    <3>1. disk[to] \in Texts /\ edges \subseteq Edges /\ rows \in [Notes -> Rows \cup {None}]
      BY <1>4, <2>2 DEF IInv, Typed, ByInv, TablesTyped
    <3> QED BY <1>4, <2>2, <3>1, SyncOneDoes
  <2> QED BY <1>1, <2>1, <2>2 DEF Resync
<1>6. TablesTyped'
  BY <1>2, <1>5 DEF ByInv, TablesTyped
<1> QED BY <1>2, <1>3, <1>5, <1>6, ByCommit

LEMMA ByCut ==
    ASSUME IInv, ByInv, NEW p \in Servers, CutShort(p)
    PROVE  ByInv'
<1>1. Finish(p) /\ faults' = faults + 1 /\ UNCHANGED <<disk, rows, edges, vec, named>>
  BY DEF CutShort, tables, history
<1>2. faults \in Nat
  BY DEF ByInv, TablesTyped
<1>3. Turn(p) /\ IsAbout(p)'
  BY <1>1, <1>2, ReleasesTurn
<1>4. TablesTyped' /\ faults' # 0
  BY <1>1, <1>2 DEF ByInv, TablesTyped
<1>5. \A n \in Notes : Untouched(n)
  BY <1>1 DEF Untouched, LinksOf, From
<1> QED BY <1>3, <1>4, <1>5, ByTurn

----------------------------------------------------------------------------
\* What a vault at rest begins with.
LEMMA InitMirrors ==
    ASSUME Init
    PROVE  /\ rows \in [Notes -> Rows \cup {None}]
           /\ vec \in [Notes -> Texts \cup {None}]
           /\ \A n \in Notes : Mirrored(n)
<1>1. PICK v \in Vaults :
        LET there == {n \in Notes : v[n] # None} IN
        /\ disk = [n \in Notes |-> IF n \in there THEN [says |-> {}, links |-> v[n]] ELSE None]
        /\ edges = {[from |-> e[1], link |-> e[2], to |-> Resolve(e[2], there)] :
                      e \in {f \in there \X Names : f[2] \in v[f[1]]}}
  BY DEF Init
<1> DEFINE there == {n \in Notes : v[n] # None}
<1>2. \A n \in there : v[n] \subseteq Names
  BY RefactorConstants
<1>3. \A n \in Notes : disk[n] = IF n \in there THEN [says |-> {}, links |-> v[n]] ELSE None
  BY <1>1
<1>4. ASSUME NEW n \in there PROVE disk[n] \in Texts /\ disk[n] # None /\ disk[n].links = v[n]
  <2>1. PICK t : t = [says |-> {}, links |-> v[n]]
    OBVIOUS
  <2>2. t \in Texts /\ t.links = v[n]
    BY <1>2, <1>4, <2>1 DEF Texts
  <2>3. disk[n] = t
    BY <1>3, <1>4, <2>1
  <2> QED BY <2>2, <2>3, RefactorConstants
<1>5. rows = [n \in Notes |-> IF disk[n] = None THEN None ELSE [text |-> disk[n], born |-> "first"]]
      /\ vec = disk
  BY DEF Init
<1>6. \A n \in there : [text |-> disk[n], born |-> "first"] \in Rows
  BY <1>4 DEF Rows
<1>7. ASSUME NEW n \in Notes PROVE HasRow(n) /\ vec[n] = disk[n]
  <2>1. CASE disk[n] = None
    BY <1>5, <2>1 DEF HasRow
  <2>2. CASE disk[n] # None
    <3>1. rows[n] = [text |-> disk[n], born |-> "first"] /\ rows[n] \in Rows
      BY <1>3, <1>5, <1>6, <2>2
    <3> QED BY <1>5, <2>2, <3>1, RefactorConstants DEF HasRow
  <2> QED BY <2>1, <2>2
<1>8. edges = {[from |-> e[1], link |-> e[2], to |-> Resolve(e[2], there)] :
                 e \in {f \in there \X Names : f[2] \in v[f[1]]}}
  BY <1>1
<1>9. rows \in [Notes -> Rows \cup {None}] /\ vec \in [Notes -> Texts \cup {None}]
  BY <1>1, <1>3, <1>4, <1>5, <1>6
<1> HIDE DEF there
<1>10. ASSUME NEW n \in Notes PROVE HasLinks(n)
  <2>1. \A d \in edges : d.from = n => n \in there /\ d.link \in v[n]
    BY <1>8
  <2>2. ASSUME n \in there, NEW l \in v[n] PROVE l \in LinksOf(n)
    <3>1. PICK e : e = <<n, l>>
      OBVIOUS
    <3>2. e \in {f \in there \X Names : f[2] \in v[f[1]]} /\ e[1] = n /\ e[2] = l
      BY <1>2, <2>2, <3>1
    <3>3. PICK d : d = [from |-> e[1], link |-> e[2], to |-> Resolve(e[2], there)]
      OBVIOUS
    <3>4. d \in edges /\ d.from = n /\ d.link = l
      BY <1>8, <3>2, <3>3
    <3> QED BY <3>4 DEF LinksOf, From
  <2>3. n \in there => LinksOf(n) = v[n]
    BY <2>1, <2>2 DEF LinksOf, From
  <2>4. n \notin there => LinksOf(n) = {}
    BY <2>1 DEF LinksOf, From
  <2> QED BY <1>3, <1>4, <2>3, <2>4 DEF HasLinks
<1> QED BY <1>7, <1>9, <1>10 DEF Mirrored

LEMMA ByInit == Init => ByInv
<1> SUFFICES ASSUME Init PROVE ByInv
  OBVIOUS
<1>1. TablesTyped
  BY InitMirrors DEF Init, TablesTyped
<1>2. \A p \in Servers : IsAbout(p)
  <2>1. NoJob.op = None
    BY DEF NoJob
  <2> QED BY <2>1, RefactorConstants DEF Init, IsAbout, Late, Inside
<1>3. \A n \in Notes : lock[n] = None /\ (disk[n] # None => Agrees(n))
  BY InitMirrors DEF Init, Mirrored, HasRow, HasLinks, Agrees
<1>4. \A n \in Notes : HolderIsAt(n) /\ Tidy(n)
  BY <1>3, RefactorConstants DEF HolderIsAt, Tidy
<1> QED BY <1>1, <1>2, <1>4 DEF ByInv

LEMMA ByNext == IInv /\ ByInv /\ [Next]_vars => ByInv'
<1> SUFFICES ASSUME IInv, ByInv, [Next]_vars PROVE ByInv'
  OBVIOUS
<1>1. CASE UNCHANGED vars
  <2>1. UNCHANGED <<disk, rows, edges, vec, lock, pc, job, faults, named>>
    BY <1>1 DEF vars, tables, history
  <2> QED BY <2>1 DEF ByInv, TablesTyped, IsAbout, HolderIsAt, Tidy, Remains, Agrees, LinksOf, From
<1>2. ASSUME NEW p \in Servers, Append(p) \/ Rename(p) \/ Delete(p) PROVE ByInv'
  BY <1>2, ByCall
<1>3. ASSUME NEW p \in Servers, FindInbound(p) \/ PickSource(p) PROVE ByInv'
  BY <1>3, ByLook
<1>4. ASSUME NEW p \in Servers, Rewriting(p) PROVE ByInv'
  BY <1>4, ByTakeLock, ByRead, ByWrite, BySync, ByIndex DEF Rewriting
<1>5. ASSUME NEW p \in Servers, Moving(p) PROVE ByInv'
  BY <1>5, ByMoveFile, ByTables, ByResync DEF Moving
<1>6. ASSUME NEW p \in Servers, Removing(p) PROVE ByInv'
  BY <1>6, ByUnlink, ByTables DEF Removing
<1>7. ASSUME NEW p \in Servers, CutShort(p) PROVE ByInv'
  BY <1>7, ByCut
<1> QED BY <1>1, <1>2, <1>3, <1>4, <1>5, <1>6, <1>7 DEF Next

\* BystandersAgree in every reachable state: however many calls rewrite a note or append
\* to it, in whatever order, its row, its vector and its links are those of its file
\* whenever nobody holds its lock, if none was cut short.
THEOREM BystandersAlwaysAgree == Spec => []BystandersAgree
<1>1. ByInv => BystandersAgree
  BY DEF ByInv, Tidy, Agrees, BystandersAgree, LinksOf
<1>2. Init => IInv /\ ByInv
  BY InitKept, ByInit
<1>3. IInv /\ ByInv /\ [Next]_vars => (IInv /\ ByInv)'
  BY NextKept, ByNext
<1> QED BY <1>1, <1>2, <1>3, PTL DEF Spec

----------------------------------------------------------------------------
(* One call after the other: a step of the call takes up what is left to do. *)

LEMMA MirrorsStay ==
    ASSUME UNCHANGED <<disk, rows, edges, vec>>
    PROVE  \A n : /\ Mirrored(n)' <=> Mirrored(n)
                  /\ HasRow(n)' <=> HasRow(n)
                  /\ HasLinks(n)' <=> HasLinks(n)
                  /\ LinksOf(n)' = LinksOf(n)
  BY DEF Mirrored, HasRow, HasLinks, LinksOf, From

LEMMA MirrorStays ==
    ASSUME NEW n, disk'[n] = disk[n], rows'[n] = rows[n], vec'[n] = vec[n], LinksOf(n)' = LinksOf(n)
    PROVE  Mirrored(n)' <=> Mirrored(n)
  BY DEF Mirrored, HasRow, HasLinks

LEMMA AloneCall ==
    ASSUME IInv, NEW p \in Servers, UpTo(p), Append(p) \/ Rename(p) \/ Delete(p)
    PROVE  UpTo(p)'
<1>1. pc[p] = "idle" /\ UNCHANGED <<disk, rows, edges, vec>>
  BY DEF Append, Rename, Delete, Begin, At, tables
<1>2. \A n \in Notes : Mirrored(n)'
  BY <1>1, MirrorsStay DEF UpTo
<1>3. CASE Append(p)
  <2>1. PICK e \in Edits, n \in Notes, l \in NewLinks :
           /\ disk[n] # None
           /\ Begin(p, [NoJob EXCEPT !.op = "append", !.note = n, !.at = n, !.edit = e, !.link = l])
    BY <1>3 DEF Append
  <2>2. PICK j : j = [NoJob EXCEPT !.op = "append", !.note = n, !.at = n, !.edit = e, !.link = l]
    OBVIOUS
  <2>3. j.op = "append" /\ j.at = n
    BY <2>2 DEF NoJob
  <2>4. job'[p] = j /\ pc'[p] = "lock"
    BY <1>3, <2>1, <2>2 DEF Append, Begin, Goto, IInv, Typed
  <2> QED BY <1>1, <1>2, <2>1, <2>3, <2>4
          DEF UpTo, Doing, InEdit, Nearing, Editing, Moved, Removed
<1>4. CASE Rename(p)
  <2>1. PICK n \in Notes, to \in Notes :
           /\ disk[n] # None /\ disk[to] = None
           /\ Begin(p, [NoJob EXCEPT !.op = "rename", !.note = n, !.to = to])
    BY <1>4 DEF Rename
  <2>2. PICK j : j = [NoJob EXCEPT !.op = "rename", !.note = n, !.to = to]
    OBVIOUS
  <2>3. j.op = "rename" /\ j.note = n /\ j.to = to
    BY <2>2 DEF NoJob
  <2>4. job'[p] = j /\ pc'[p] = "inbound"
    BY <1>4, <2>1, <2>2 DEF Rename, Begin, Goto, IInv, Typed
  <2> QED BY <1>1, <1>2, <2>1, <2>3, <2>4 DEF UpTo, Doing, Nearing, Editing, Moved, Removed
<1>5. CASE Delete(p)
  <2>1. PICK n \in Notes, mode \in Ops \cap {"safe", "cascade"} :
           Begin(p, [NoJob EXCEPT !.op = mode, !.note = n])
    BY <1>5 DEF Delete
  <2>2. PICK j : j = [NoJob EXCEPT !.op = mode, !.note = n]
    OBVIOUS
  <2>3. j.op # "rename"
    BY <2>2 DEF NoJob
  <2>4. job'[p] = j /\ pc'[p] = "inbound"
    BY <1>5, <2>1, <2>2 DEF Delete, Begin, Goto, IInv, Typed
  <2> QED BY <1>1, <1>2, <2>3, <2>4 DEF UpTo, Doing, Nearing, Editing, Moved, Removed
<1> QED BY <1>3, <1>4, <1>5

LEMMA AloneLook ==
    ASSUME IInv, NEW p \in Servers, UpTo(p), FindInbound(p) \/ PickSource(p)
    PROVE  UpTo(p)'
<1>1. pc[p] \in {"inbound", "sources"} /\ UNCHANGED <<disk, rows, edges, vec>>
  BY DEF FindInbound, PickSource, At, tables
<1>2. Doing(p) /\ \A n \in Notes : Mirrored(n)'
  BY <1>1, MirrorsStay DEF UpTo, Doing, Nearing
<1>3. CASE FindInbound(p) /\ Finish(p)
  <2>1. pc'[p] = "idle"
    BY <1>3 DEF Finish, Goto, IInv, Typed
  <2> QED BY <1>2, <2>1 DEF UpTo
<1>4. CASE ~(FindInbound(p) /\ Finish(p))
  <2>1. /\ job'[p].op = job[p].op /\ job'[p].note = job[p].note /\ job'[p].to = job[p].to
        /\ pc'[p] \in {"sources", "targetlock", "lock"}
        /\ pc'[p] = "lock" => disk[job'[p].at] # None
    BY <1>4, LookChanges
  <2>2. pc'[p] = "lock" => InEdit(p)'
    BY <1>1, <1>2, <2>1 DEF InEdit
  <2> QED BY <1>1, <1>2, <2>1, <2>2 DEF UpTo, Doing, Nearing, Editing, Moved, Removed
<1> QED BY <1>3, <1>4

LEMMA AloneTakeLock ==
    ASSUME IInv, NEW p \in Servers, UpTo(p), TakeLock(p)
    PROVE  UpTo(p)'
<1>1. pc[p] \in {"lock", "targetlock"} /\ UNCHANGED <<disk, rows, edges, vec, job>> /\ Goto(p, Behind(p))
  BY DEF TakeLock, tables
<1>2. Doing(p) /\ (\A n \in Notes : Mirrored(n)') /\ (\A n \in Notes : Mirrored(n))
  BY <1>1, MirrorsStay DEF UpTo, Doing, Nearing
<1>3. Aimed(p) /\ job[p].op \in Ops \cup {None}
  BY DEF IInv, Typed, Jobs
<1>4. /\ pc'[p] = Behind(p)
      /\ Behind(p) = IF pc[p] = "lock" THEN "read" ELSE IF job[p].op = "rename" THEN "move" ELSE "unlink"
  BY <1>1 DEF Goto, Behind, At, IInv, Typed
<1>5. pc[p] = "lock" => disk[job[p].at] # None
  BY <1>2 DEF Doing, InEdit, Editing
<1>6. pc'[p] = "read" => InEdit(p)'
  BY <1>1, <1>2, <1>4, <1>5 DEF InEdit
<1>7. pc'[p] = "unlink" => job[p].op \in {"safe", "cascade"}
  BY <1>1, <1>3, <1>4, RefactorConstants DEF Aimed
<1> QED BY <1>1, <1>2, <1>4, <1>6, <1>7 DEF UpTo, Doing, Nearing, Editing, Moved, Removed

\* A call that ends or goes on to the next source, all being as it should.
LEMMA AloneReleases ==
    ASSUME IInv, ByInv, NEW p \in Servers, Finish(p) \/ NextSource(p), \A n \in Notes : Mirrored(n)',
           NextSource(p) /\ job[p].op = "rename" =>
             disk'[job[p].note] # None /\ disk'[job[p].to] = None
    PROVE  UpTo(p)'
<1>1. CASE pc'[p] = "idle"
  BY <1>1 DEF UpTo
<1>2. CASE pc'[p] # "idle"
  BY <1>2, Releases DEF UpTo, Doing, Nearing, Editing, Moved, Removed
<1> QED BY <1>1, <1>2

LEMMA AloneRead ==
    ASSUME IInv, ByInv, NEW p \in Servers, UpTo(p), Read(p)
    PROVE  UpTo(p)'
<1>1. pc[p] = "read" /\ UNCHANGED <<disk, rows, edges, vec>>
  BY DEF Read, At, tables
<1>2. /\ Doing(p) /\ \A n \in Notes : Mirrored(n) /\ Mirrored(n)'
      /\ job[p].op = "rename" => disk[job[p].note] # None /\ disk[job[p].to] = None
      /\ disk[job[p].at] # None
  BY <1>1, MirrorsStay DEF UpTo, Doing, Nearing, Moved, Editing, InEdit
<1>3. CASE Finish(p) \/ NextSource(p)
  BY <1>1, <1>2, <1>3, AloneReleases
<1>4. CASE ~Finish(p) /\ ~NextSource(p)
  <2>1. PICK t : job' = [job EXCEPT ![p].text = t] /\ Goto(p, "write")
    BY <1>4 DEF Read
  <2>2. PICK j : j = [job[p] EXCEPT !.text = t]
    OBVIOUS
  <2>3. job[p] \in Jobs
    BY DEF IInv, Typed
  <2>4. j.at = job[p].at /\ j.op = job[p].op /\ j.note = job[p].note /\ j.to = job[p].to
    BY <2>2, <2>3 DEF Jobs
  <2>5. job'[p] = j /\ pc'[p] = "write"
    BY <2>1, <2>2 DEF Goto, IInv, Typed
  <2>6. InEdit(p)'
    BY <1>1, <1>2, <2>4, <2>5 DEF InEdit
  <2> QED BY <1>1, <1>2, <2>4, <2>5, <2>6 DEF UpTo, Doing, Nearing, Editing, Moved, Removed
<1> QED BY <1>3, <1>4

LEMMA AloneWrite ==
    ASSUME IInv, ByInv, NEW p \in Servers, UpTo(p), Write(p)
    PROVE  UpTo(p)'
<1>0. PICK m : m = job[p].at
  OBVIOUS
<1>1. /\ pc[p] = "write" /\ UNCHANGED <<rows, edges, vec, job>>
      /\ disk' = [disk EXCEPT ![m] = job[p].text] /\ Goto(p, "sync")
  BY <1>0 DEF Write, At, tables
<1>2. /\ \A n \in Notes : Mirrored(n)
      /\ job[p].op = "rename" => disk[job[p].note] # None /\ disk[job[p].to] = None
      /\ disk[m] # None
  BY <1>0, <1>1 DEF UpTo, Doing, Nearing, Moved, Editing, InEdit
<1>3. m \in Notes /\ job[p].text \in Texts /\ job[p].text # None
      /\ (job[p].op = "rename" => job[p].note \in Notes /\ job[p].to \in Notes)
  BY <1>0, <1>1, InHand, RefactorConstants DEF Inside, Jobs, WellCalled
<1>4. /\ disk'[m] = job[p].text /\ \A n \in Notes \ {m} : disk'[n] = disk[n]
      /\ pc'[p] = "sync" /\ job'[p] = job[p]
  BY <1>1, <1>3 DEF Goto, IInv, Typed
<1>5. \A n \in Notes \ {m} : Mirrored(n)'
  BY <1>1, <1>2, <1>4 DEF Mirrored, HasRow, HasLinks, LinksOf, From
<1>6. rows'[m] # None /\ rows'[m].born = "first"
  BY <1>1, <1>2, <1>3 DEF Mirrored, HasRow
<1>7. InEdit(p)'
  BY <1>0, <1>3, <1>4, <1>5, <1>6 DEF InEdit
<1>8. job[p].op = "rename" => disk'[job[p].note] # None /\ disk'[job[p].to] = None
  BY <1>2, <1>3, <1>4
<1> QED BY <1>4, <1>7, <1>8 DEF UpTo, Doing, Nearing, Editing, Moved, Removed

LEMMA AloneSync ==
    ASSUME IInv, ByInv, NEW p \in Servers, UpTo(p), Sync(p)
    PROVE  UpTo(p)'
<1>0. PICK m : m = job[p].at
  OBVIOUS
<1>1. pc[p] = "sync" /\ UNCHANGED <<disk, vec>>
  BY DEF Sync, At
<1>2. /\ disk[m] # None /\ disk[m] = job[p].text /\ rows[m] # None /\ rows[m].born = "first"
      /\ \A n \in Notes \ {m} : Mirrored(n)
      /\ job[p].op = "rename" => disk[job[p].note] # None /\ disk[job[p].to] = None
  BY <1>0, <1>1 DEF UpTo, Doing, Editing, InEdit, Moved
<1>3. SyncOne(m) /\ job' = job /\ pc'[p] = "index"
  BY <1>0, <1>2 DEF Sync, Goto, IInv, Typed
<1>4. m \in Notes /\ disk[m] \in Texts /\ edges \subseteq Edges /\ rows \in [Notes -> Rows \cup {None}]
  BY <1>0, <1>1, <1>2, InHand DEF Inside, IInv, Typed, ByInv, TablesTyped
<1>5. /\ rows'[m] # None /\ rows'[m].text = disk[m] /\ rows'[m].born = "first"
      /\ LinksOf(m)' = disk[m].links
      /\ \A n \in Notes \ {m} : rows'[n] = rows[n] /\ LinksOf(n)' = LinksOf(n)
  BY <1>2, <1>3, <1>4, SyncOneDoes
<1>6. HasRow(m)' /\ HasLinks(m)'
  BY <1>1, <1>2, <1>5 DEF HasRow, HasLinks
<1>7. \A n \in Notes \ {m} : Mirrored(n)'
  BY <1>1, <1>2, <1>5, MirrorStays
<1>8. InEdit(p)'
  BY <1>0, <1>1, <1>2, <1>3, <1>6, <1>7 DEF InEdit
<1> QED BY <1>1, <1>2, <1>3, <1>8 DEF UpTo, Doing, Nearing, Editing, Moved, Removed

LEMMA AloneIndex ==
    ASSUME IInv, ByInv, NEW p \in Servers, UpTo(p), Index(p)
    PROVE  UpTo(p)'
<1>0. PICK m : m = job[p].at
  OBVIOUS
<1> DEFINE t == IF job[p].op = "append" THEN job[p].text
                ELSE IF rows[m] = None THEN vec[m] ELSE rows[m].text
<1>1. /\ pc[p] = "index" /\ UNCHANGED <<disk, rows, edges>>
      /\ vec' = [vec EXCEPT ![m] = t] /\ (Finish(p) \/ NextSource(p))
  BY <1>0 DEF Index, At
<1>2. /\ disk[m] # None /\ disk[m] = job[p].text /\ HasRow(m) /\ HasLinks(m)
      /\ \A n \in Notes \ {m} : Mirrored(n)
      /\ job[p].op = "rename" => disk[job[p].note] # None /\ disk[job[p].to] = None
  BY <1>0, <1>1 DEF UpTo, Doing, Editing, InEdit, Moved
<1>3. t = disk[m]
  BY <1>2 DEF HasRow
<1> HIDE DEF t
<1>4. m \in Notes /\ vec \in [Notes -> Texts \cup {None}]
  BY <1>0, <1>1, InHand DEF Inside, ByInv, TablesTyped
<1>5. vec'[m] = disk'[m] /\ \A n \in Notes \ {m} : vec'[n] = vec[n]
  BY <1>1, <1>3, <1>4
<1>6. ASSUME NEW n \in Notes PROVE Mirrored(n)'
  <2>1. LinksOf(n)' = LinksOf(n)
    BY <1>1 DEF LinksOf, From
  <2>2. CASE n = m
    BY <1>1, <1>2, <1>5, <2>1, <2>2 DEF Mirrored, HasRow, HasLinks
  <2>3. CASE n # m
    BY <1>1, <1>2, <1>5, <2>1, <2>3, MirrorStays
  <2> QED BY <2>2, <2>3
<1> QED BY <1>1, <1>2, <1>6, AloneReleases

\* The two notes of a rename and the one of a delete.
LEMMA AboutNotes ==
    ASSUME IInv, ByInv, NEW p \in Servers, pc[p] \in Late
    PROVE  /\ job[p].note \in Notes
           /\ job[p].op = "rename" => job[p].to \in Notes /\ job[p].to # job[p].note
           /\ pc[p] \in {"move", "rekey", "moveedges", "movevec", "resync"} => job[p].op = "rename"
<1>1. Aimed(p) /\ job[p].op \in Ops \cup {None}
  BY DEF IInv, Typed, Jobs
<1> QED BY <1>1, LateIsAbout DEF Aimed, WellCalled, Late, Inside

LEMMA AloneMoveFile ==
    ASSUME IInv, ByInv, NEW p \in Servers, UpTo(p), MoveFile(p)
    PROVE  UpTo(p)'
<1>0. PICK old, new : old = job[p].note /\ new = job[p].to
  OBVIOUS
<1>1. pc[p] = "move" /\ UNCHANGED <<rows, edges, vec>>
  BY DEF MoveFile, At, tables
<1>2. job[p].op = "rename" /\ old \in Notes /\ new \in Notes /\ new # old
  BY <1>0, <1>1 DEF IInv, Aimed, WellCalled
<1>3. (\A n \in Notes : Mirrored(n)) /\ disk[old] # None /\ disk[new] = None
  BY <1>0, <1>1, <1>2 DEF UpTo, Doing, Nearing, Moved
<1>4. /\ disk' = [disk EXCEPT ![new] = disk[old], ![old] = None]
      /\ Goto(p, "rekey") /\ job' = job
  BY <1>0, <1>3 DEF MoveFile
<1>5. /\ disk'[new] = disk[old] /\ disk'[old] = None /\ pc'[p] = "rekey"
      /\ \A n \in Notes \ {old, new} : disk'[n] = disk[n]
  BY <1>2, <1>4 DEF Goto, IInv, Typed
<1>6. /\ rows[old] # None /\ rows[old].text = disk[old] /\ rows[old].born = "first"
      /\ vec[old] = disk[old] /\ rows[new] = None /\ LinksOf(new) = {}
  BY <1>2, <1>3 DEF Mirrored, HasRow, HasLinks
<1>7. \A n : LinksOf(n)' = LinksOf(n)
  BY <1>1 DEF LinksOf, From
<1>8. \A n \in Notes \ {old, new} : Mirrored(n)'
  BY <1>1, <1>3, <1>5, <1>7, MirrorStays
<1>9. InMove(p)'
  BY <1>0, <1>1, <1>2, <1>3, <1>4, <1>5, <1>6, <1>7, <1>8 DEF InMove
<1> QED BY <1>4, <1>5, <1>9 DEF UpTo, Doing, Nearing, Editing, Moved, Removed

LEMMA AloneMoveRow ==
    ASSUME IInv, ByInv, NEW p \in Servers, UpTo(p), MoveRow(p)
    PROVE  UpTo(p)'
<1>0. PICK old, new : old = job[p].note /\ new = job[p].to
  OBVIOUS
<1>1. /\ pc[p] = "rekey" /\ UNCHANGED <<disk, edges, vec, job>>
      /\ rows' = [rows EXCEPT ![new] = rows[old], ![old] = None] /\ Goto(p, "moveedges")
  BY <1>0 DEF MoveRow, At
<1>2. old \in Notes /\ new \in Notes /\ new # old
  BY <1>0, <1>1, AboutNotes DEF Late, Inside
<1>3. InMove(p)
  BY <1>1 DEF UpTo, Doing, Moved
<1>4. /\ rows'[new] = rows[old] /\ rows'[old] = None /\ pc'[p] = "moveedges"
      /\ \A n \in Notes \ {old, new} : rows'[n] = rows[n]
  BY <1>1, <1>2 DEF Goto, IInv, Typed, ByInv, TablesTyped
<1>5. \A n : LinksOf(n)' = LinksOf(n)
  BY <1>1 DEF LinksOf, From
<1>6. /\ disk[old] = None /\ disk[new] # None /\ vec[old] = disk[new] /\ LinksOf(new) = {}
      /\ rows[old] # None /\ rows[old].text = disk[new] /\ rows[old].born = "first"
      /\ \A n \in Notes \ {old, new} : Mirrored(n)
  BY <1>0, <1>1, <1>3 DEF InMove
<1>7. \A n \in Notes \ {old, new} : Mirrored(n)'
  BY <1>1, <1>4, <1>5, <1>6, MirrorStays
<1>8. InMove(p)'
  BY <1>0, <1>1, <1>2, <1>4, <1>5, <1>6, <1>7 DEF InMove
<1> QED BY <1>4, <1>8 DEF UpTo, Doing, Nearing, Editing, Moved, Removed

LEMMA AloneMoveRest ==
    ASSUME IInv, ByInv, NEW p \in Servers, UpTo(p), DropMovedEdges(p) \/ MoveVector(p)
    PROVE  UpTo(p)'
<1>0. PICK old, new : old = job[p].note /\ new = job[p].to
  OBVIOUS
<1>1. pc[p] \in {"moveedges", "movevec"} /\ UNCHANGED <<disk, rows, job>>
  BY DEF DropMovedEdges, MoveVector, At
<1>2. old \in Notes /\ new \in Notes /\ new # old
  BY <1>0, <1>1, AboutNotes DEF Late, Inside
<1>3. /\ disk[old] = None /\ disk[new] # None /\ vec[old] = disk[new] /\ LinksOf(new) = {}
      /\ rows[old] = None
      /\ rows[new] # None /\ rows[new].text = disk[new] /\ rows[new].born = "first"
      /\ pc[p] = "movevec" => LinksOf(old) = {}
      /\ \A n \in Notes \ {old, new} : Mirrored(n)
  BY <1>0, <1>1, <1>2 DEF UpTo, Doing, Moved, InMove
<1>4. CASE DropMovedEdges(p)
  <2>1. edges' = edges \ From(old) /\ vec' = vec /\ pc'[p] = "movevec"
    BY <1>0, <1>4 DEF DropMovedEdges, Goto, IInv, Typed
  <2>2. LinksOf(old)' = {} /\ \A n : n # old => LinksOf(n)' = LinksOf(n)
    BY <2>1, OthersKeepLinks
  <2>3. \A n \in Notes \ {old, new} : Mirrored(n)'
    BY <1>1, <1>3, <2>1, <2>2, MirrorStays
  <2>4. InMove(p)'
    BY <1>0, <1>1, <1>2, <1>3, <2>1, <2>2, <2>3 DEF InMove
  <2> QED BY <2>1, <2>4 DEF UpTo, Doing, Nearing, Editing, Moved, Removed
<1>5. CASE MoveVector(p)
  <2>1. /\ edges' = edges /\ vec' = [vec EXCEPT ![new] = vec[old], ![old] = None]
        /\ pc[p] = "movevec" /\ pc'[p] = "resync"
    BY <1>0, <1>5 DEF MoveVector, Goto, At, IInv, Typed
  <2>2. /\ vec'[new] = disk[new] /\ vec'[old] = None
        /\ \A n \in Notes \ {old, new} : vec'[n] = vec[n]
    BY <1>2, <1>3, <2>1 DEF ByInv, TablesTyped
  <2>3. \A n : LinksOf(n)' = LinksOf(n)
    BY <2>1 DEF LinksOf, From
  <2>4. \A n \in Notes \ {old, new} : Mirrored(n)'
    BY <1>1, <1>3, <2>2, <2>3, MirrorStays
  <2>5. InMove(p)'
    BY <1>0, <1>1, <1>2, <1>3, <2>1, <2>2, <2>3, <2>4 DEF InMove
  <2> QED BY <2>1, <2>5 DEF UpTo, Doing, Nearing, Editing, Moved, Removed
<1> QED BY <1>4, <1>5

LEMMA AloneResync ==
    ASSUME IInv, ByInv, NEW p \in Servers, UpTo(p), Resync(p)
    PROVE  UpTo(p)'
<1>0. PICK old, new : old = job[p].note /\ new = job[p].to
  OBVIOUS
<1>1. pc[p] = "resync" /\ Finish(p) /\ UNCHANGED <<disk, vec>>
  BY DEF Resync, At
<1>2. old \in Notes /\ new \in Notes /\ new # old
  BY <1>0, <1>1, AboutNotes DEF Late, Inside
<1>3. /\ disk[old] = None /\ disk[new] # None /\ vec[new] = disk[new] /\ vec[old] = None
      /\ rows[old] = None /\ LinksOf(old) = {}
      /\ rows[new] # None /\ rows[new].born = "first"
      /\ \A n \in Notes \ {old, new} : Mirrored(n)
  BY <1>0, <1>1, <1>2 DEF UpTo, Doing, Moved, InMove
<1>4. SyncOne(new)
  BY <1>0, <1>3 DEF Resync
<1>5. disk[new] \in Texts /\ edges \subseteq Edges /\ rows \in [Notes -> Rows \cup {None}]
  BY <1>2, <1>3 DEF IInv, Typed, ByInv, TablesTyped
<1>6. /\ rows'[new] # None /\ rows'[new].text = disk[new] /\ rows'[new].born = "first"
      /\ LinksOf(new)' = disk[new].links
      /\ \A n \in Notes \ {new} : rows'[n] = rows[n] /\ LinksOf(n)' = LinksOf(n)
  BY <1>2, <1>3, <1>4, <1>5, SyncOneDoes
<1>7. Mirrored(new)'
  BY <1>1, <1>3, <1>6 DEF Mirrored, HasRow, HasLinks
<1>8. Mirrored(old)'
  BY <1>1, <1>2, <1>3, <1>6 DEF Mirrored, HasRow, HasLinks
<1>9. \A n \in Notes \ {old, new} : Mirrored(n)'
  BY <1>1, <1>3, <1>6, MirrorStays
<1>10. pc'[p] = "idle"
  BY <1>1 DEF Finish, Goto, IInv, Typed
<1> QED BY <1>7, <1>8, <1>9, <1>10 DEF UpTo

LEMMA AloneRemoval ==
    ASSUME IInv, ByInv, NEW p \in Servers, UpTo(p),
           Unlink(p) \/ DeleteRow(p) \/ DropEdges(p) \/ DropVector(p)
    PROVE  UpTo(p)'
<1>0. PICK m : m = job[p].note
  OBVIOUS
<1>1. pc[p] \in {"unlink", "droprow", "dropedges", "dropvec"}
  BY DEF Unlink, DeleteRow, DropEdges, DropVector, At
<1>2. m \in Notes /\ Doing(p) /\ job[p].op \in {"safe", "cascade"}
  BY <1>0, <1>1, AboutNotes DEF Late, Inside, UpTo, Doing, Removed
<1>3. CASE Unlink(p)
  <2>1. pc[p] = "unlink" /\ (\A n \in Notes : Mirrored(n)) /\ UNCHANGED <<rows, edges, vec>>
    BY <1>2, <1>3 DEF Unlink, At, tables, Doing, Nearing
  <2>2. CASE disk[m] = None
    <3>1. Finish(p) /\ disk' = disk
      BY <1>0, <1>3, <2>2 DEF Unlink
    <3>2. (\A n \in Notes : Mirrored(n)') /\ pc'[p] = "idle"
      BY <2>1, <3>1, MirrorsStay DEF Finish, Goto, IInv, Typed
    <3> QED BY <3>2 DEF UpTo
  <2>3. CASE disk[m] # None
    <3>1. disk' = [disk EXCEPT ![m] = None] /\ Goto(p, "droprow") /\ job' = job
      BY <1>0, <1>3, <2>3 DEF Unlink
    <3>2. disk'[m] = None /\ (\A n \in Notes \ {m} : disk'[n] = disk[n]) /\ pc'[p] = "droprow"
      BY <1>2, <3>1 DEF Goto, IInv, Typed
    <3>3. \A n : LinksOf(n)' = LinksOf(n)
      BY <2>1 DEF LinksOf, From
    <3>4. \A n \in Notes \ {m} : Mirrored(n)'
      BY <2>1, <3>2, <3>3, MirrorStays
    <3>5. InRemoval(p)'
      BY <1>0, <3>1, <3>2, <3>4 DEF InRemoval
    <3> QED BY <1>2, <3>1, <3>2, <3>5 DEF UpTo, Doing, Nearing, Editing, Moved, Removed
  <2> QED BY <2>2, <2>3
<1>4. ASSUME pc[p] # "unlink"
      PROVE  /\ disk[m] = None /\ (pc[p] # "droprow" => rows[m] = None)
             /\ pc[p] = "dropvec" => LinksOf(m) = {}
             /\ \A n \in Notes \ {m} : Mirrored(n)
  BY <1>0, <1>1, <1>2, <1>4 DEF Doing, Removed, InRemoval
<1>5. CASE DeleteRow(p)
  <2>1. /\ pc[p] = "droprow" /\ UNCHANGED <<disk, edges, vec, job>>
        /\ rows' = [rows EXCEPT ![m] = None] /\ pc'[p] = "dropedges"
    BY <1>0, <1>5 DEF DeleteRow, At, Goto, IInv, Typed
  <2>2. rows'[m] = None /\ \A n \in Notes \ {m} : rows'[n] = rows[n]
    BY <1>2, <2>1 DEF ByInv, TablesTyped
  <2>3. \A n : LinksOf(n)' = LinksOf(n)
    BY <2>1 DEF LinksOf, From
  <2>4. \A n \in Notes \ {m} : Mirrored(n)'
    BY <1>4, <2>1, <2>2, <2>3, MirrorStays
  <2>5. InRemoval(p)'
    BY <1>0, <1>4, <2>1, <2>2, <2>4 DEF InRemoval
  <2> QED BY <1>2, <2>1, <2>5 DEF UpTo, Doing, Nearing, Editing, Moved, Removed
<1>6. CASE DropEdges(p)
  <2>1. /\ pc[p] = "dropedges" /\ UNCHANGED <<disk, rows, vec, job>>
        /\ edges' = edges \ From(m) /\ pc'[p] = "dropvec"
    BY <1>0, <1>6 DEF DropEdges, At, Goto, IInv, Typed
  <2>2. LinksOf(m)' = {} /\ \A n : n # m => LinksOf(n)' = LinksOf(n)
    BY <2>1, OthersKeepLinks
  <2>3. \A n \in Notes \ {m} : Mirrored(n)'
    BY <1>4, <2>1, <2>2, MirrorStays
  <2>4. InRemoval(p)'
    BY <1>0, <1>4, <2>1, <2>2, <2>3 DEF InRemoval
  <2> QED BY <1>2, <2>1, <2>4 DEF UpTo, Doing, Nearing, Editing, Moved, Removed
<1>7. CASE DropVector(p)
  <2>1. /\ pc[p] = "dropvec" /\ UNCHANGED <<disk, rows, edges>>
        /\ vec' = [vec EXCEPT ![m] = None] /\ pc'[p] = "idle"
    BY <1>0, <1>7 DEF DropVector, At, Finish, Goto, IInv, Typed
  <2>2. vec'[m] = None /\ \A n \in Notes \ {m} : vec'[n] = vec[n]
    BY <1>2, <2>1 DEF ByInv, TablesTyped
  <2>3. \A n : LinksOf(n)' = LinksOf(n)
    BY <2>1 DEF LinksOf, From
  <2>4. \A n \in Notes \ {m} : Mirrored(n)'
    BY <1>4, <2>1, <2>2, <2>3, MirrorStays
  <2>5. Mirrored(m)'
    BY <1>4, <2>1, <2>2, <2>3 DEF Mirrored, HasRow, HasLinks
  <2> QED BY <2>1, <2>4, <2>5 DEF UpTo
<1> QED BY <1>3, <1>5, <1>6, <1>7

\* Who does not act stays where it is.
LEMMA OnlyActs ==
    ASSUME IInv, NEW p \in Servers,
           \/ Append(p) \/ Rename(p) \/ Delete(p) \/ FindInbound(p) \/ PickSource(p)
           \/ Rewriting(p) \/ Moving(p) \/ Removing(p)
    PROVE  /\ \A q \in Servers \ {p} : pc'[q] = pc[q]
           /\ faults' = faults /\ (overlapped => overlapped')
           /\ pc[p] = "idle" => overlapped' \/ \A q \in Servers \ {p} : pc[q] = "idle"
<1>1. pc' = pc \/ \E l : Goto(p, l)
  BY DEF Append, Rename, Delete, FindInbound, PickSource, Rewriting, TakeLock, Read, Write, Sync,
         Index, Moving, MoveFile, MoveRow, DropMovedEdges, MoveVector, Resync, Removing, Unlink,
         DeleteRow, DropEdges, DropVector, Finish, NextSource
<1>2. \A q \in Servers \ {p} : pc'[q] = pc[q]
  BY <1>1 DEF Goto, IInv, Typed
<1>3. CASE Append(p) \/ Rename(p) \/ Delete(p)
  <2>1. PICK j : Begin(p, j)
    BY <1>3 DEF Append, Rename, Delete
  <2>2. /\ overlapped' = (overlapped \/ \E q \in Servers \ {p} : ~At(q, "idle"))
        /\ faults' = faults
    BY <1>3, <2>1 DEF Begin, Append, Rename, Delete
  <2> QED BY <1>2, <2>2 DEF At
<1>4. CASE FindInbound(p) \/ PickSource(p) \/ Rewriting(p) \/ Moving(p) \/ Removing(p)
  <2>1. pc[p] # "idle" /\ UNCHANGED <<faults, overlapped>>
    BY <1>4 DEF FindInbound, PickSource, Rewriting, TakeLock, Read, Write, Sync, Index, Moving,
         MoveFile, MoveRow, DropMovedEdges, MoveVector, Resync, Removing, Unlink, DeleteRow,
         DropEdges, DropVector, At, history
  <2> QED BY <1>2, <2>1
<1> QED BY <1>3, <1>4

LEMMA AloneInit == Init => AloneInv
<1> SUFFICES ASSUME Init PROVE AloneInv
  OBVIOUS
<1>1. \A p \in Servers : pc[p] = "idle"
  BY DEF Init
<1> QED BY <1>1, InitMirrors DEF AloneInv, OneCallOnly

LEMMA AloneStep ==
    ASSUME IInv, ByInv, NEW p \in Servers, UpTo(p),
           \/ Append(p) \/ Rename(p) \/ Delete(p) \/ FindInbound(p) \/ PickSource(p)
           \/ Rewriting(p) \/ Moving(p) \/ Removing(p)
    PROVE  UpTo(p)'
  BY AloneCall, AloneLook, AloneTakeLock, AloneRead, AloneWrite, AloneSync, AloneIndex, AloneMoveFile,
     AloneMoveRow, AloneMoveRest, AloneResync, AloneRemoval DEF Rewriting, Moving, Removing

\* As long as the calls come one after the other, whoever acts is the only one at work.
LEMMA ActsAlone ==
    ASSUME IInv, ByInv, AloneInv, Alone', NEW p \in Servers,
           \/ Append(p) \/ Rename(p) \/ Delete(p) \/ FindInbound(p) \/ PickSource(p)
           \/ Rewriting(p) \/ Moving(p) \/ Removing(p)
    PROVE  /\ Alone /\ UpTo(p)
           /\ \A q \in Servers \ {p} : pc[q] = "idle" /\ pc'[q] = "idle"
<1>1. Alone
  BY OnlyActs DEF Alone
<1>2. \A q \in Servers \ {p} : pc[q] = "idle" /\ pc'[q] = "idle"
  BY <1>1, OnlyActs DEF AloneInv, OneCallOnly, Alone
<1>3. pc[p] = "idle" => Idle
  BY <1>2 DEF Idle, At
<1> QED BY <1>1, <1>2, <1>3 DEF UpTo, AloneInv

LEMMA AloneNext == IInv /\ ByInv /\ AloneInv /\ [Next]_vars => AloneInv'
<1> SUFFICES ASSUME IInv, ByInv, AloneInv, [Next]_vars, Alone' PROVE AloneInv'
  BY DEF AloneInv
<1>1. CASE UNCHANGED vars
  <2>1. UNCHANGED <<disk, rows, edges, vec, pc, job, faults, overlapped>>
    BY <1>1 DEF vars, tables, history
  <2>2. \A n : Mirrored(n)' = Mirrored(n) /\ HasRow(n)' = HasRow(n) /\ HasLinks(n)' = HasLinks(n)
               /\ LinksOf(n)' = LinksOf(n)
    BY <2>1 DEF Mirrored, HasRow, HasLinks, LinksOf, From
  <2>3. Alone /\ OneCallOnly' /\ (Idle' => Idle)
    BY <2>1 DEF Alone, AloneInv, OneCallOnly, Idle, At
  <2>4. ASSUME NEW q \in Servers, Doing(q) PROVE Doing(q)'
    BY <2>1, <2>2, <2>4 DEF Doing, InEdit, InMove, InRemoval
  <2> QED BY <2>1, <2>2, <2>3, <2>4 DEF AloneInv
<1>2. ASSUME NEW p \in Servers,
             \/ Append(p) \/ Rename(p) \/ Delete(p) \/ FindInbound(p) \/ PickSource(p)
             \/ Rewriting(p) \/ Moving(p) \/ Removing(p)
      PROVE  AloneInv'
  <2>1. (\A q \in Servers \ {p} : pc'[q] = "idle") /\ UpTo(p)'
    BY <1>2, ActsAlone, AloneStep
  <2> QED BY <2>1 DEF AloneInv, OneCallOnly, UpTo, Idle, At
<1>3. ASSUME NEW p \in Servers, CutShort(p) PROVE FALSE
  BY <1>3 DEF CutShort, Alone, ByInv, TablesTyped
<1> QED BY <1>1, <1>2, <1>3 DEF Next

\* QuietMirrors in every reachable state: renames, deletes and appends that come one after
\* the other leave rows, vectors and links those of the files, and a renamed note the dates
\* of its row.
THEOREM QuietAlwaysMirrors == Spec => []QuietMirrors
<1>1. IInv /\ ByInv /\ AloneInv => QuietMirrors
  <2> SUFFICES ASSUME IInv, ByInv, AloneInv, Quiet PROVE QuietMirrors
    BY DEF QuietMirrors
  <2>1. \A n \in Notes : Mirrored(n)
    BY DEF Quiet, AloneInv, Alone
  <2>2. vec = disk
    BY <2>1 DEF Mirrored, IInv, Typed, ByInv, TablesTyped
  <2>3. Indexed(rows) = {n \in Notes : disk[n] # None}
    BY <2>1 DEF Indexed, Mirrored, HasRow
  <2>4. \A n \in Indexed(rows) : rows[n].text = disk[n] /\ rows[n].born = "first"
    BY <2>1 DEF Indexed, Mirrored, HasRow
  <2>5. \A n \in Notes : {e.link : e \in From(n)} = IF disk[n] = None THEN {} ELSE disk[n].links
    BY <2>1 DEF Mirrored, HasLinks, LinksOf
  <2> QED BY <2>2, <2>3, <2>4, <2>5 DEF QuietMirrors
<1>2. Init => IInv /\ ByInv /\ AloneInv
  BY InitKept, ByInit, AloneInit
<1>3. IInv /\ ByInv /\ AloneInv /\ [Next]_vars => (IInv /\ ByInv /\ AloneInv)'
  BY NextKept, ByNext, AloneNext
<1> QED BY <1>1, <1>2, <1>3, PTL DEF Spec

----------------------------------------------------------------------------
(* Links by path.                                                          *)

\* A path resolves to itself, if there is such a note.
LEMMA PathResolves ==
    ASSUME NEW l \in Notes, NEW paths \in SUBSET Notes
    PROVE  Resolve(l, paths) = IF l \in paths THEN l ELSE None
<1>1. PICK matches : matches = {n \in paths : n = l \/ Base[n] = l}
  OBVIOUS
<1>2. matches = IF l \in paths THEN {l} ELSE {}
  BY <1>1, RefactorConstants
<1>3. Cardinality(matches) = IF l \in paths THEN 1 ELSE 0
  BY <1>2, FS_Singleton, FS_EmptySet
<1>4. Resolve(l, paths) = IF Cardinality(matches) = 1 THEN CHOOSE n \in matches : TRUE ELSE None
  BY <1>1 DEF Resolve
<1> QED BY <1>2, <1>3, <1>4

\* What sync_one makes of the links by path: those of its note are resolved, and the
\* broken ones of others that name it.
LEMMA SyncOneLinks ==
    ASSUME NEW n \in Notes, edges \subseteq Edges, rows \in [Notes -> Rows \cup {None}],
           disk[n] \in Texts, SyncOne(n), NEW d \in edges', d.link \in Notes
    PROVE  \/ d.link \in disk[n].links /\ d.to = IF d.link \in Indexed(rows) \cup {n} THEN d.link ELSE None
           \/ \E e \in edges : /\ e.link = d.link
                               /\ IF e.to = None /\ e.link = n THEN d.to = n ELSE d.to = e.to
<1> DEFINE row == [text |-> disk[n], born |-> IF rows[n] = None THEN "later" ELSE rows[n].born]
           r == [rows EXCEPT ![n] = row]
           fresh == {[from |-> n, link |-> l, to |-> Resolve(l, Indexed(r))] :
                       l \in disk[n].links}
           mend(e) == IF e.to = None /\ e.link \in {n, Base[n]}
                      THEN [e EXCEPT !.to = Resolve(e.link, Indexed(r))] ELSE e
<1>1. edges' = {mend(e) : e \in (edges \ From(n)) \cup fresh}
  BY DEF SyncOne
<1>2. row \in Rows /\ row # None
  BY RefactorConstants DEF Rows
<1>3. Indexed(r) = Indexed(rows) \cup {n}
  BY <1>2 DEF Indexed
<1>4. Indexed(r) \in SUBSET Notes
  BY DEF Indexed
<1>5. \A l : Resolve(l, Indexed(r)) \in Notes \cup {None}
  BY <1>4, ResolveType
<1>6. \A l \in Notes : Resolve(l, Indexed(r)) = IF l \in Indexed(rows) \cup {n} THEN l ELSE None
  <2>1. PICK paths \in SUBSET Notes : paths = Indexed(r)
    BY <1>4
  <2>2. \A l \in Notes : Resolve(l, paths) = IF l \in paths THEN l ELSE None
    BY PathResolves
  <2> QED BY <1>3, <2>1, <2>2
<1> HIDE DEF r
<1>7. fresh \subseteq Edges
  BY <1>5 DEF Edges, Texts
<1>8. \A e \in fresh : e.link \in disk[n].links /\ e.to = Resolve(e.link, Indexed(r))
  OBVIOUS
<1>9. \A e \in Edges : /\ mend(e).link = e.link
                       /\ e.link \in Notes =>
                            mend(e).to = IF e.to = None /\ e.link = n THEN n ELSE e.to
  <2> SUFFICES ASSUME NEW e \in Edges
               PROVE  /\ mend(e).link = e.link
                      /\ e.link \in Notes =>
                           mend(e).to = IF e.to = None /\ e.link = n THEN n ELSE e.to
    OBVIOUS
  <2>1. e.link \in Notes => e.link # Base[n]
    BY RefactorConstants
  <2> QED BY <1>6, <2>1 DEF Edges
<1> HIDE DEF fresh, mend
<1>10. PICK e \in (edges \ From(n)) \cup fresh : d = mend(e)
  BY <1>1
<1>11. e \in Edges
  BY <1>7, <1>10
<1>12. CASE e \in fresh
  BY <1>6, <1>8, <1>9, <1>10, <1>11, <1>12
<1>13. CASE e \in edges
  BY <1>9, <1>10, <1>11, <1>13
<1> QED BY <1>10, <1>12, <1>13

\* The links of the files and of the graph do not change; a rename may begin or go on.
LEMMA LinksStay ==
    ASSUME NEW p, LinksMeant(p), UNCHANGED disk, edges' \subseteq edges,
           Coming(p) \subseteq Coming(p)'
    PROVE  LinksMeant(p)'
  BY DEF LinksMeant

LEMMA LinkCall ==
    ASSUME IInv, NEW p \in Servers, LinksUpTo(p), Append(p) \/ Rename(p) \/ Delete(p)
    PROVE  LinksUpTo(p)'
<1>1. pc[p] = "idle" /\ UNCHANGED <<disk, edges>>
  BY DEF Append, Rename, Delete, Begin, At, tables
<1>2. \/ pc'[p] = "inbound"
      \/ pc'[p] = "lock" /\ job'[p].op = "append"
  <2>1. CASE Append(p)
    <3>1. PICK e \in Edits, n \in Notes, l \in NewLinks :
             Begin(p, [NoJob EXCEPT !.op = "append", !.note = n, !.at = n, !.edit = e, !.link = l])
      BY <2>1 DEF Append
    <3>2. PICK j : j = [NoJob EXCEPT !.op = "append", !.note = n, !.at = n, !.edit = e, !.link = l]
      OBVIOUS
    <3>3. j.op = "append"
      BY <3>2 DEF NoJob
    <3> QED BY <2>1, <3>1, <3>2, <3>3 DEF Append, Begin, Goto, IInv, Typed
  <2>2. CASE Rename(p) \/ Delete(p)
    BY <2>2 DEF Rename, Delete, Goto, IInv, Typed
  <2> QED BY <2>1, <2>2
<1>3. Coming(p) = {}
  BY <1>1 DEF Coming
<1>4. LinksMeant(p)'
  BY <1>1, <1>3, LinksStay DEF LinksUpTo
<1> QED BY <1>2, <1>4 DEF LinksUpTo, LinksLeft, Late, Inside

LEMMA LinkLook ==
    ASSUME IInv, NEW p \in Servers, UpTo(p), LinksUpTo(p), FindInbound(p) \/ PickSource(p)
    PROVE  LinksUpTo(p)'
<1>1. pc[p] \in {"inbound", "sources"} /\ UNCHANGED <<disk, edges>>
  BY DEF FindInbound, PickSource, At, tables
<1>2. /\ Aimed(p) /\ job[p].op \in Ops \cup {None} /\ job[p].op # "append"
      /\ job[p].note \in Notes /\ (job[p].op = "rename" => job[p].to # job[p].note)
  BY <1>1, RefactorConstants DEF IInv, Typed, Jobs, Aimed, WellCalled
<1>3. LinksMeant(p) /\ LinksLeft(p) /\ \A n \in Notes : Mirrored(n)
  BY <1>1 DEF LinksUpTo, UpTo, Doing, Nearing
<1>4. CASE FindInbound(p) /\ Finish(p)
  <2>1. pc'[p] = "idle" /\ job[p].op = "safe"
    BY <1>1, <1>4 DEF Finish, FindInbound, Goto, At, IInv, Typed
  <2>2. Coming(p) = {}
    BY <2>1 DEF Coming
  <2> QED BY <1>1, <1>3, <2>1, <2>2, LinksStay DEF LinksUpTo, LinksLeft, Late, Inside
<1>5. CASE ~(FindInbound(p) /\ Finish(p))
  <2>1. /\ job'[p].op = job[p].op /\ job'[p].note = job[p].note /\ job'[p].to = job[p].to
        /\ pc'[p] \in {"sources", "targetlock", "lock"}
        /\ pc'[p] = "targetlock" => job'[p].todo = {}
    BY <1>5, LookChanges
  <2>2. LinksMeant(p)'
    BY <1>1, <1>3, <2>1, LinksStay DEF Coming
  <2>3. ASSUME NEW n \in Notes, disk[n] # None, job[p].note \in disk[n].links
        PROVE  n \in job'[p].todo \/ (pc'[p] = "lock" /\ n = job'[p].at)
    <3>1. CASE pc[p] = "inbound"
      <4>1. job'[p].todo = {e.from : e \in {f \in edges : f.to = job[p].note}}
        BY <1>5, <3>1, LookChanges
      <4>2. PICK e \in edges : e.from = n /\ e.link = job[p].note
        BY <1>3, <2>3 DEF Mirrored, HasLinks, LinksOf, From
      <4>3. e.to = job[p].note
        BY <1>2, <1>3, <4>2 DEF LinksMeant, Coming
      <4> QED BY <4>1, <4>2, <4>3
    <3>2. CASE pc[p] = "sources"
      <4>1. n \in job[p].todo
        BY <1>2, <1>3, <2>3, <3>2 DEF LinksLeft
      <4> QED BY <1>5, <2>3, <3>2, <4>1, LookChanges
    <3> QED BY <1>1, <3>1, <3>2
  <2> QED BY <1>1, <1>2, <2>1, <2>2, <2>3 DEF LinksUpTo, LinksLeft, Late, Inside
<1> QED BY <1>4, <1>5

LEMMA LinkTakeLock ==
    ASSUME IInv, NEW p \in Servers, LinksUpTo(p), TakeLock(p)
    PROVE  LinksUpTo(p)'
<1>1. pc[p] \in {"lock", "targetlock"} /\ UNCHANGED <<disk, edges, job>> /\ Goto(p, Behind(p))
  BY DEF TakeLock, tables
<1>2. /\ pc'[p] = Behind(p)
      /\ Behind(p) = IF pc[p] = "lock" THEN "read" ELSE IF job[p].op = "rename" THEN "move" ELSE "unlink"
  BY <1>1 DEF Goto, Behind, At, IInv, Typed
<1>3. LinksMeant(p)'
  BY <1>1, <1>2, LinksStay DEF LinksUpTo, Coming
<1> QED BY <1>1, <1>2, <1>3 DEF LinksUpTo, LinksLeft, Late, Inside

\* What a rewrite makes of the links by path.
LEMMA RewriteLinks ==
    ASSUME IInv, ByInv, NEW p \in Servers, UpTo(p), LinksUpTo(p), pc[p] = "read",
           NEW t \in Texts, t = disk[job[p].at], NEW s, s = Rewrite(job[p], t),
           \/ job[p].op # "append"
           \/ job[p].link \in t.links \cup {None}
           \/ Resolve(job[p].link, Indexed(rows)) # None
    PROVE  /\ \A l \in ByPath(s) : /\ disk[l] # None \/ l \in Coming(p)
                                   /\ job[p].op # "append" => l # job[p].note
           /\ s = t /\ job[p].op # "append" => job[p].note \notin t.links
<1>1. job[p] \in Jobs /\ WellCalled(job[p]) /\ job[p].op # None /\ job[p].at \in Notes
  BY InHand DEF Inside
<1>2. \A l \in t.links \cap Notes : disk[l] # None \/ l \in Coming(p)
  BY <1>1, RefactorConstants DEF LinksUpTo, LinksMeant, ByPath
<1>3. CASE job[p].op = "append"
  <2>1. s = [says |-> t.says \cup {job[p].edit}, links |-> t.links \cup ({job[p].link} \ {None})]
    BY <1>3 DEF Rewrite
  <2>2. s.links = t.links \cup ({job[p].link} \ {None})
    BY <2>1
  <2>3. ASSUME job[p].link \in Notes, job[p].link \notin t.links
        PROVE  disk[job[p].link] # None
    <3>1. Indexed(rows) \in SUBSET Notes
      BY DEF Indexed
    <3>2. job[p].link \in Indexed(rows)
      BY <1>3, <2>3, <3>1, PathResolves, RefactorConstants
    <3>3. Mirrored(job[p].link)
      BY <2>3 DEF UpTo, Doing, Nearing
    <3> QED BY <3>2, <3>3 DEF Indexed, Mirrored, HasRow
  <2> QED BY <1>2, <1>3, <2>2, <2>3 DEF ByPath
<1>4. CASE job[p].op = "rename"
  <2>1. s = [t EXCEPT !.links = IF job[p].note \in t.links THEN (t.links \ {job[p].note}) \cup {job[p].to}
                                 ELSE t.links]
    BY <1>4 DEF Rewrite
  <2>2. s.links = IF job[p].note \in t.links THEN (t.links \ {job[p].note}) \cup {job[p].to} ELSE t.links
    BY <2>1 DEF Texts
  <2>3. job[p].note # job[p].to /\ job[p].to \in Coming(p)
    BY <1>1, <1>4 DEF WellCalled, Coming
  <2> QED BY <1>2, <2>2, <2>3 DEF ByPath
<1>5. CASE job[p].op \notin {"append", "rename"}
  <2>1. s = [t EXCEPT !.links = t.links \ {job[p].note}]
    BY <1>5 DEF Rewrite
  <2>2. s.links = t.links \ {job[p].note}
    BY <2>1 DEF Texts
  <2> QED BY <1>2, <2>2 DEF ByPath
<1> QED BY <1>3, <1>4, <1>5

LEMMA LinkRead ==
    ASSUME IInv, ByInv, NEW p \in Servers, UpTo(p), LinksUpTo(p), Read(p)
    PROVE  LinksUpTo(p)'
<1>0. PICK m, t, s : m = job[p].at /\ t = disk[m] /\ s = Rewrite(job[p], t)
  OBVIOUS
<1>1. pc[p] = "read" /\ UNCHANGED <<disk, edges>> /\ pc[p] \in Inside
  BY DEF Read, At, tables, Inside
<1>2. /\ m \in Notes /\ t \in Texts /\ t # None /\ job[p] \in Jobs /\ job[p].op # None
  BY <1>0, <1>1, InHand DEF IInv, Typed, UpTo, Doing, Editing, InEdit
<1>3. LinksMeant(p) /\ LinksLeft(p)
  BY DEF LinksUpTo
<1>4. CASE Finish(p) /\ job[p].op = "append"
  <2>1. pc'[p] = "idle" /\ Coming(p) = {}
    BY <1>4 DEF Finish, Goto, IInv, Typed, Coming
  <2> QED BY <1>1, <1>3, <2>1, LinksStay DEF LinksUpTo, LinksLeft, Late, Inside
<1>5. CASE NextSource(p) /\ s = t /\ job[p].op # "append"
  <2>1. /\ pc'[p] = "sources" /\ job'[p].op = job[p].op /\ job'[p].note = job[p].note
        /\ job'[p].to = job[p].to /\ job'[p].todo = job[p].todo
    BY <1>5, Releases DEF Finish, NextSource, Goto, IInv, Typed
  <2>2. job[p].note \notin t.links
    BY <1>0, <1>1, <1>2, <1>5, RewriteLinks
  <2>3. LinksMeant(p)'
    BY <1>1, <1>3, <2>1, LinksStay DEF Coming
  <2>4. \A n \in Notes : disk[n] # None /\ job[p].note \in disk[n].links => n \in job[p].todo
    BY <1>0, <1>1, <1>3, <1>5, <2>2 DEF LinksLeft
  <2> QED BY <1>1, <2>1, <2>3, <2>4 DEF LinksUpTo, LinksLeft, Late, Inside
<1>6. CASE /\ job' = [job EXCEPT ![p].text = s] /\ Goto(p, "write")
           /\ \/ job[p].op # "append"
              \/ job[p].link \in t.links \cup {None}
              \/ Resolve(job[p].link, Indexed(rows)) # None
  <2>1. PICK j : j = [job[p] EXCEPT !.text = s]
    OBVIOUS
  <2>2. /\ j.at = job[p].at /\ j.op = job[p].op /\ j.note = job[p].note /\ j.to = job[p].to
        /\ j.todo = job[p].todo /\ j.text = s
    BY <1>2, <2>1 DEF Jobs
  <2>3. job'[p] = j /\ pc'[p] = "write"
    BY <1>6, <2>1 DEF Goto, IInv, Typed
  <2>4. \A l \in ByPath(s) : /\ disk[l] # None \/ l \in Coming(p)
                             /\ job[p].op # "append" => l # job[p].note
    BY <1>0, <1>1, <1>2, <1>6, RewriteLinks
  <2>5. Coming(p)' = Coming(p)
    BY <1>1, <2>2, <2>3 DEF Coming
  <2>6. LinksMeant(p)'
    BY <1>1, <1>3, <2>5, LinksStay
  <2>7. ByPath(job'[p].text) = ByPath(s)
    BY <2>2, <2>3
  <2>8. LinksLeft(p)'
    <3>1. \A l \in ByPath(job[p].text)' : /\ disk'[l] # None \/ l \in Coming(p)'
                                          /\ job'[p].op # "append" => l # job'[p].note
      BY <1>1, <2>2, <2>3, <2>4, <2>5 DEF ByPath
    <3>2. \A n \in Notes : job[p].op # "append" /\ disk[n] # None /\ job[p].note \in disk[n].links =>
             n \in job[p].todo \/ n = job[p].at
      BY <1>1, <1>3 DEF LinksLeft
    <3> QED BY <1>1, <2>2, <2>3, <3>1, <3>2 DEF LinksLeft, Late, Inside
  <2> QED BY <2>6, <2>8 DEF LinksUpTo
<1> QED BY <1>0, <1>2, <1>4, <1>5, <1>6 DEF Read

LEMMA LinkWrite ==
    ASSUME IInv, ByInv, NEW p \in Servers, UpTo(p), LinksUpTo(p), Write(p)
    PROVE  LinksUpTo(p)'
<1>0. PICK m, s : m = job[p].at /\ s = job[p].text
  OBVIOUS
<1>1. /\ pc[p] = "write" /\ UNCHANGED <<edges, job>> /\ pc[p] \in Inside
      /\ disk' = [disk EXCEPT ![m] = s] /\ Goto(p, "sync")
  BY <1>0 DEF Write, At, tables, Inside
<1>2. m \in Notes /\ s \in Texts /\ s # None /\ disk[m] # None /\ job[p].op # None /\ WellCalled(job[p])
      /\ job[p] \in Jobs
  BY <1>0, <1>1, InHand, RefactorConstants DEF Jobs, UpTo, Doing, Editing, InEdit
<1>3. /\ disk'[m] = s /\ \A n \in Notes \ {m} : disk'[n] = disk[n]
      /\ pc'[p] = "sync" /\ job'[p] = job[p]
  BY <1>1, <1>2 DEF Goto, IInv, Typed
<1>4. \A n \in Notes : disk'[n] # None <=> disk[n] # None
  BY <1>2, <1>3
<1>5. Coming(p)' = Coming(p)
  BY <1>1, <1>3 DEF Coming
<1>6. \A l \in s.links \cap Notes : (disk[l] # None \/ l \in Coming(p))
                                     /\ (job[p].op # "append" => l # job[p].note)
  BY <1>0, <1>1 DEF LinksUpTo, LinksLeft, ByPath
<1>7. LinksMeant(p)'
  <2>1. ASSUME NEW n \in Notes, disk'[n] # None, NEW l \in disk'[n].links \cap Notes
        PROVE  disk'[l] # None \/ l \in Coming(p)
    <3>1. CASE n = m
      BY <1>3, <1>4, <1>6, <2>1, <3>1
    <3>2. CASE n # m
      BY <1>3, <1>4, <2>1, <3>2 DEF LinksUpTo, LinksMeant, ByPath
    <3> QED BY <3>1, <3>2
  <2>2. \A e \in edges : e.link \in Notes => e.to = e.link \/ (e.to = None /\ e.link \in Coming(p))
    BY DEF LinksUpTo, LinksMeant
  <2> QED BY <1>1, <1>5, <2>1, <2>2 DEF LinksMeant, ByPath
<1>8. LinksLeft(p)'
  <2>1. ASSUME job[p].op # "append", NEW n \in Notes, disk'[n] # None, job[p].note \in disk'[n].links
        PROVE  n \in job[p].todo
    <3>1. job[p].note \in Notes
      BY <1>2, <2>1, RefactorConstants DEF WellCalled, Jobs
    <3>2. n # m
      BY <1>3, <1>6, <2>1, <3>1
    <3> QED BY <1>0, <1>1, <1>3, <2>1, <3>2 DEF LinksUpTo, LinksLeft
  <2> QED BY <1>3, <2>1 DEF LinksLeft, Late, Inside
<1> QED BY <1>7, <1>8 DEF LinksUpTo

\* Whoever is in the rows is in the files, but where an edit is under way.
LEMMA LinkSync ==
    ASSUME IInv, ByInv, NEW p \in Servers, UpTo(p), LinksUpTo(p), Sync(p)
    PROVE  LinksUpTo(p)'
<1>0. PICK m : m = job[p].at
  OBVIOUS
<1>1. pc[p] = "sync" /\ UNCHANGED disk /\ pc[p] \in Inside
  BY DEF Sync, At, Inside
<1>2. /\ m \in Notes /\ disk[m] # None /\ \A n \in Notes \ {m} : Mirrored(n)
      /\ job[p].op = "rename" => disk[job[p].to] = None
      /\ WellCalled(job[p]) /\ job[p] \in Jobs
  BY <1>0, <1>1, InHand DEF UpTo, Doing, Editing, InEdit, Moved
<1>3. SyncOne(m) /\ job' = job /\ pc'[p] = "index"
  BY <1>0, <1>2 DEF Sync, Goto, IInv, Typed
<1>4. disk[m] \in Texts /\ edges \subseteq Edges /\ rows \in [Notes -> Rows \cup {None}]
  BY <1>2 DEF IInv, Typed, ByInv, TablesTyped
<1>5. Coming(p)' = Coming(p)
  BY <1>1, <1>3 DEF Coming
<1>6. LinksMeant(p)
  BY DEF LinksUpTo
<1>7. \A n \in Notes : n \in Indexed(rows) \cup {m} <=> disk[n] # None
  BY <1>2 DEF Indexed, Mirrored, HasRow
<1>8. ASSUME NEW d \in edges', d.link \in Notes
      PROVE  d.to = d.link \/ (d.to = None /\ d.link \in Coming(p))
  <2>1. CASE d.link \in disk[m].links /\ d.to = IF d.link \in Indexed(rows) \cup {m} THEN d.link ELSE None
    BY <1>2, <1>6, <1>7, <1>8, <2>1 DEF LinksMeant, ByPath
  <2>2. CASE \E e \in edges : /\ e.link = d.link
                              /\ IF e.to = None /\ e.link = m THEN d.to = m ELSE d.to = e.to
    BY <1>6, <1>8, <2>2 DEF LinksMeant
  <2> QED BY <1>2, <1>3, <1>4, <1>8, <2>1, <2>2, SyncOneLinks
<1>9. LinksMeant(p)'
  BY <1>1, <1>5, <1>6, <1>8 DEF LinksMeant
<1> QED BY <1>1, <1>3, <1>9 DEF LinksUpTo, LinksLeft, Late, Inside

LEMMA LinkIndex ==
    ASSUME IInv, ByInv, NEW p \in Servers, LinksUpTo(p), Index(p)
    PROVE  LinksUpTo(p)'
<1>1. /\ pc[p] = "index" /\ UNCHANGED <<disk, edges>>
      /\ (Finish(p) /\ job[p].op = "append") \/ NextSource(p)
  BY DEF Index, At
<1>2. LinksMeant(p) /\ LinksLeft(p)
  BY DEF LinksUpTo
<1>3. CASE Finish(p) /\ job[p].op = "append"
  <2>1. pc'[p] = "idle" /\ Coming(p) = {}
    BY <1>3 DEF Finish, Goto, IInv, Typed, Coming
  <2> QED BY <1>1, <1>2, <2>1, LinksStay DEF LinksUpTo, LinksLeft, Late, Inside
<1>4. CASE NextSource(p)
  <2>1. pc'[p] = "sources"
    BY <1>4 DEF NextSource, Goto, IInv, Typed
  <2>2. /\ job'[p].op = job[p].op /\ job'[p].note = job[p].note
        /\ job'[p].to = job[p].to /\ job'[p].todo = job[p].todo
    BY <1>4, <2>1, Releases DEF Finish, Goto, IInv, Typed
  <2>3. LinksMeant(p)'
    BY <1>1, <1>2, <2>1, <2>2, LinksStay DEF Coming
  <2> QED BY <1>1, <1>2, <2>1, <2>2, <2>3 DEF LinksUpTo, LinksLeft, Late, Inside
<1> QED BY <1>1, <1>3, <1>4

LEMMA LinkMoveFile ==
    ASSUME IInv, ByInv, NEW p \in Servers, UpTo(p), LinksUpTo(p), MoveFile(p)
    PROVE  LinksUpTo(p)'
<1>0. PICK old, new : old = job[p].note /\ new = job[p].to
  OBVIOUS
<1>1. pc[p] = "move" /\ UNCHANGED edges
  BY DEF MoveFile, At, tables
<1>2. job[p].op = "rename" /\ old \in Notes /\ new \in Notes /\ new # old
  BY <1>0, <1>1 DEF IInv, Aimed, WellCalled
<1>3. disk[old] # None /\ disk[new] = None
  BY <1>0, <1>1, <1>2 DEF UpTo, Doing, Nearing, Moved
<1>4. /\ disk' = [disk EXCEPT ![new] = disk[old], ![old] = None]
      /\ Goto(p, "rekey") /\ job' = job
  BY <1>0, <1>3 DEF MoveFile
<1>5. /\ disk'[new] = disk[old] /\ disk'[old] = None /\ pc'[p] = "rekey"
      /\ \A n \in Notes \ {old, new} : disk'[n] = disk[n]
  BY <1>2, <1>4 DEF Goto, IInv, Typed
<1>6. job[p].todo = {} /\ \A n \in Notes : disk[n] # None => old \notin disk[n].links
  BY <1>0, <1>1, <1>2 DEF LinksUpTo, LinksLeft, Late, Inside
<1>7. Coming(p) = {new} /\ Coming(p)' = {new}
  BY <1>0, <1>1, <1>2, <1>4, <1>5 DEF Coming
<1>8. ASSUME NEW n \in Notes, disk'[n] # None, NEW l \in disk'[n].links \cap Notes
      PROVE  l # old /\ disk'[l] # None
  <2>1. PICK k \in Notes : disk'[n] = disk[k] /\ disk[k] # None
    BY <1>2, <1>3, <1>5, <1>8
  <2>2. l # old /\ (disk[l] # None \/ l = new)
    BY <1>6, <1>7, <1>8, <2>1 DEF LinksUpTo, LinksMeant, ByPath
  <2> QED BY <1>3, <1>5, <1>8, <2>2
<1>9. LinksMeant(p)'
  BY <1>1, <1>7, <1>8 DEF LinksUpTo, LinksMeant, ByPath
<1> QED BY <1>0, <1>4, <1>5, <1>6, <1>8, <1>2, <1>9 DEF LinksUpTo, LinksLeft

LEMMA LinkTables ==
    ASSUME IInv, NEW p \in Servers, LinksUpTo(p),
           \/ MoveRow(p) \/ DropMovedEdges(p) \/ MoveVector(p) \/ DeleteRow(p) \/ DropEdges(p)
    PROVE  LinksUpTo(p)'
<1>1. /\ pc[p] \in {"rekey", "moveedges", "movevec", "droprow", "dropedges"}
      /\ UNCHANGED <<disk, job>> /\ edges' \subseteq edges
      /\ \E l \in {"moveedges", "movevec", "resync", "dropedges", "dropvec"} : Goto(p, l)
  BY DEF MoveRow, DropMovedEdges, MoveVector, DeleteRow, DropEdges, At
<1>2. pc'[p] \in {"moveedges", "movevec", "resync", "dropedges", "dropvec"}
  BY <1>1 DEF Goto, IInv, Typed
<1>3. LinksMeant(p)'
  BY <1>1, <1>2, LinksStay DEF LinksUpTo, Coming
<1> QED BY <1>1, <1>2, <1>3 DEF LinksUpTo, LinksLeft, Late, Inside

LEMMA LinkResync ==
    ASSUME IInv, ByInv, NEW p \in Servers, UpTo(p), LinksUpTo(p), Resync(p)
    PROVE  LinksUpTo(p)'
<1>0. PICK old, new : old = job[p].note /\ new = job[p].to
  OBVIOUS
<1>1. pc[p] = "resync" /\ Finish(p) /\ UNCHANGED disk /\ pc'[p] = "idle"
  BY DEF Resync, At, Finish, Goto, IInv, Typed
<1>2. job[p].op = "rename" /\ old \in Notes /\ new \in Notes /\ new # old
  BY <1>0, <1>1, AboutNotes DEF Late, Inside
<1>3. disk[old] = None /\ disk[new] # None /\ \A n \in Notes \ {old, new} : Mirrored(n)
  BY <1>0, <1>1, <1>2 DEF UpTo, Doing, Moved, InMove
<1>4. SyncOne(new)
  BY <1>0, <1>3 DEF Resync
<1>5. disk[new] \in Texts /\ edges \subseteq Edges /\ rows \in [Notes -> Rows \cup {None}]
  BY <1>2, <1>3 DEF IInv, Typed, ByInv, TablesTyped
<1>6. Coming(p) = {new} /\ Coming(p)' = {}
  BY <1>0, <1>1, <1>2 DEF Coming
<1>7. LinksMeant(p)
  BY DEF LinksUpTo
<1>8. \A n \in Notes : disk[n] # None => n \in Indexed(rows) \cup {new}
  BY <1>3 DEF Indexed, Mirrored, HasRow
<1>9. \A n \in Notes : disk[n] # None => \A l \in ByPath(disk[n]) : disk[l] # None
  BY <1>3, <1>6, <1>7 DEF LinksMeant
<1>10. ASSUME NEW d \in edges', d.link \in Notes
       PROVE  d.to = d.link
  <2>1. CASE d.link \in disk[new].links /\ d.to = IF d.link \in Indexed(rows) \cup {new} THEN d.link ELSE None
    BY <1>2, <1>3, <1>8, <1>9, <1>10, <2>1 DEF ByPath
  <2>2. CASE \E e \in edges : /\ e.link = d.link
                              /\ IF e.to = None /\ e.link = new THEN d.to = new ELSE d.to = e.to
    BY <1>6, <1>7, <1>10, <2>2 DEF LinksMeant
  <2> QED BY <1>2, <1>4, <1>5, <1>10, <2>1, <2>2, SyncOneLinks
<1>11. LinksMeant(p)'
  BY <1>1, <1>9, <1>10 DEF LinksMeant, ByPath
<1> QED BY <1>1, <1>11 DEF LinksUpTo, LinksLeft, Late, Inside

LEMMA LinkUnlink ==
    ASSUME IInv, ByInv, NEW p \in Servers, UpTo(p), LinksUpTo(p), Unlink(p)
    PROVE  LinksUpTo(p)'
<1>0. PICK m : m = job[p].note
  OBVIOUS
<1>1. pc[p] = "unlink" /\ UNCHANGED edges
  BY DEF Unlink, At, tables
<1>2. m \in Notes /\ job[p].op \in {"safe", "cascade"} /\ LinksMeant(p)
  BY <1>0, <1>1, AboutNotes DEF Late, Inside, UpTo, Doing, LinksUpTo
<1>3. Coming(p) = {}
  BY <1>2 DEF Coming
<1>4. CASE Finish(p) /\ disk' = disk
  <2>1. pc'[p] = "idle"
    BY <1>4 DEF Finish, Goto, IInv, Typed
  <2> QED BY <1>1, <1>2, <1>3, <1>4, <2>1, LinksStay DEF LinksUpTo, LinksLeft, Late, Inside
<1>5. CASE disk' = [disk EXCEPT ![m] = None] /\ Goto(p, "droprow") /\ job' = job
  <2>1. disk'[m] = None /\ (\A n \in Notes \ {m} : disk'[n] = disk[n]) /\ pc'[p] = "droprow"
    BY <1>2, <1>5 DEF Goto, IInv, Typed
  <2>2. job[p].todo = {} /\ \A n \in Notes : disk[n] # None => m \notin disk[n].links
    BY <1>0, <1>1, <1>2 DEF LinksUpTo, LinksLeft, Late, Inside
  <2>3. \A n \in Notes : disk'[n] # None => \A l \in disk'[n].links \cap Notes : disk'[l] # None
    BY <1>2, <1>3, <2>1, <2>2 DEF LinksMeant, ByPath
  <2>4. LinksMeant(p)'
    BY <1>1, <1>2, <1>3, <2>3 DEF LinksMeant, ByPath
  <2>5. \A n \in Notes : disk'[n] # None => m \notin disk'[n].links
    BY <2>1, <2>2
  <2> QED BY <1>0, <1>5, <2>1, <2>2, <2>4, <2>5 DEF LinksUpTo, LinksLeft
<1> QED BY <1>0, <1>4, <1>5 DEF Unlink

LEMMA LinkDropVector ==
    ASSUME IInv, ByInv, NEW p \in Servers, UpTo(p), LinksUpTo(p), DropVector(p)
    PROVE  LinksUpTo(p)'
<1>1. pc[p] = "dropvec" /\ UNCHANGED <<disk, edges>> /\ pc'[p] = "idle"
  BY DEF DropVector, At, Finish, Goto, IInv, Typed
<1>2. Coming(p) = {}
  BY <1>1 DEF UpTo, Doing, Removed, Coming
<1> QED BY <1>1, <1>2, LinksStay DEF LinksUpTo, LinksLeft, Late, Inside

LEMMA LinkStep ==
    ASSUME IInv, ByInv, NEW p \in Servers, UpTo(p), LinksUpTo(p),
           \/ Append(p) \/ Rename(p) \/ Delete(p) \/ FindInbound(p) \/ PickSource(p)
           \/ Rewriting(p) \/ Moving(p) \/ Removing(p)
    PROVE  LinksUpTo(p)'
  BY LinkCall, LinkLook, LinkTakeLock, LinkRead, LinkWrite, LinkSync, LinkIndex, LinkMoveFile,
     LinkTables, LinkResync, LinkUnlink, LinkDropVector DEF Rewriting, Moving, Removing

\* The vaults to begin with have no broken link by path.
VaultsLead ==
    \A v \in Vaults, n \in Notes : v[n] # None => \A l \in v[n] \cap Notes : v[l] # None

LEMMA LinkInit ==
    ASSUME VaultsLead, Init
    PROVE  LinkInv
<1>1. PICK v \in Vaults :
        LET there == {n \in Notes : v[n] # None} IN
        /\ disk = [n \in Notes |-> IF n \in there THEN [says |-> {}, links |-> v[n]] ELSE None]
        /\ edges = {[from |-> e[1], link |-> e[2], to |-> Resolve(e[2], there)] :
                      e \in {f \in there \X Names : f[2] \in v[f[1]]}}
  BY DEF Init
<1> DEFINE there == {n \in Notes : v[n] # None}
<1>2. \A n \in Notes : disk[n] = IF n \in there THEN [says |-> {}, links |-> v[n]] ELSE None
  BY <1>1
<1>3. \A n \in Notes : v[n] # None => v[n] \subseteq Names
  BY RefactorConstants
<1>4. ASSUME NEW n \in there PROVE disk[n] # None /\ disk[n].links = v[n]
  <2>1. PICK t : t = [says |-> {}, links |-> v[n]]
    OBVIOUS
  <2>2. t \in Texts /\ t.links = v[n]
    BY <1>3, <1>4, <2>1 DEF Texts
  <2>3. disk[n] = t
    BY <1>2, <1>4, <2>1
  <2> QED BY <2>2, <2>3, RefactorConstants
<1>5. ASSUME NEW n \in Notes, disk[n] # None, NEW l \in ByPath(disk[n]) PROVE disk[l] # None
  <2>1. n \in there
    BY <1>2, <1>5
  <2>2. l \in v[n] \cap Notes
    BY <1>4, <1>5, <2>1 DEF ByPath
  <2>3. l \in there
    BY <2>1, <2>2 DEF VaultsLead
  <2> QED BY <1>4, <2>3
<1>6. edges = {[from |-> e[1], link |-> e[2], to |-> Resolve(e[2], there)] :
                 e \in {f \in there \X Names : f[2] \in v[f[1]]}}
  BY <1>1
<1>7. \A l \in Notes : Resolve(l, there) = IF l \in there THEN l ELSE None
  <2>1. PICK paths \in SUBSET Notes : paths = there
    OBVIOUS
  <2>2. \A l \in Notes : Resolve(l, paths) = IF l \in paths THEN l ELSE None
    BY PathResolves
  <2> QED BY <2>1, <2>2
<1>8. \A n \in there : \A l \in v[n] \cap Notes : l \in there
  BY DEF VaultsLead
<1> HIDE DEF there
<1>9. ASSUME NEW d \in edges, d.link \in Notes PROVE d.to = d.link
  <2>1. PICK e \in {f \in there \X Names : f[2] \in v[f[1]]} :
           d = [from |-> e[1], link |-> e[2], to |-> Resolve(e[2], there)]
    BY <1>6
  <2>2. e[1] \in there /\ e[2] \in v[e[1]] /\ d.link = e[2] /\ d.to = Resolve(e[2], there)
    BY <2>1
  <2> QED BY <1>7, <1>8, <1>9, <2>2
<1>10. \A p \in Servers : pc[p] = "idle"
  BY DEF Init
<1> QED BY <1>5, <1>9, <1>10 DEF LinkInv, AllLead

LEMMA LinkNext == IInv /\ ByInv /\ AloneInv /\ LinkInv /\ [Next]_vars => LinkInv'
<1> SUFFICES ASSUME IInv, ByInv, AloneInv, LinkInv, [Next]_vars, Alone' PROVE LinkInv'
  BY DEF LinkInv
<1>1. CASE UNCHANGED vars
  <2>1. UNCHANGED <<disk, edges, pc, job, faults, overlapped>>
    BY <1>1 DEF vars, tables, history
  <2>2. Alone /\ (Idle' => Idle) /\ (AllLead => AllLead')
    BY <2>1 DEF Alone, Idle, At, AllLead, ByPath
  <2>3. ASSUME NEW q \in Servers, LinksUpTo(q) PROVE LinksUpTo(q)'
    BY <2>1, <2>3 DEF LinksUpTo, LinksMeant, LinksLeft, Coming, ByPath
  <2> QED BY <2>1, <2>2, <2>3 DEF LinkInv
<1>2. ASSUME NEW p \in Servers,
             \/ Append(p) \/ Rename(p) \/ Delete(p) \/ FindInbound(p) \/ PickSource(p)
             \/ Rewriting(p) \/ Moving(p) \/ Removing(p)
      PROVE  LinkInv'
  <2>1. Alone /\ UpTo(p) /\ \A q \in Servers \ {p} : pc[q] = "idle" /\ pc'[q] = "idle"
    BY <1>2, ActsAlone
  <2>2. LinksUpTo(p)
    <3>1. CASE pc[p] = "idle"
      <4>1. Idle
        BY <2>1, <3>1 DEF Idle, At
      <4>2. Coming(p) = {} /\ AllLead
        BY <2>1, <3>1, <4>1 DEF Coming, LinkInv
      <4> QED BY <3>1, <4>2 DEF LinksUpTo, LinksMeant, LinksLeft, AllLead, Late, Inside
    <3>2. CASE pc[p] # "idle"
      BY <2>1, <3>2 DEF LinkInv
    <3> QED BY <3>1, <3>2
  <2>3. LinksUpTo(p)'
    BY <1>2, <2>1, <2>2, LinkStep
  <2>4. Idle' => AllLead'
    <3> SUFFICES ASSUME Idle' PROVE AllLead'
      OBVIOUS
    <3>1. Coming(p)' = {}
      BY DEF Coming, Idle, At
    <3> QED BY <2>3, <3>1 DEF LinksUpTo, LinksMeant, AllLead
  <2> QED BY <2>1, <2>3, <2>4 DEF LinkInv
<1>3. ASSUME NEW p \in Servers, CutShort(p) PROVE FALSE
  BY <1>3 DEF CutShort, Alone, ByInv, TablesTyped
<1> QED BY <1>1, <1>2, <1>3 DEF Next

\* PathLinksLead in every reachable state, for vaults that begin without a broken link by
\* path: renames, deletes and appends that come one after the other leave none, neither in
\* the graph nor in the files it is made from.
THEOREM PathLinksAlwaysLead ==
  ASSUME VaultsLead
  PROVE  Spec => []PathLinksLead
<1>1. IInv /\ ByInv /\ AloneInv /\ LinkInv => PathLinksLead
  <2> SUFFICES ASSUME IInv, AloneInv, LinkInv, Quiet, NEW e \in edges, e.link \in Notes
               PROVE  e.to = e.link /\ disk[e.to] # None
    BY DEF PathLinksLead
  <2>1. AllLead /\ \A n \in Notes : Mirrored(n)
    BY DEF Quiet, LinkInv, AloneInv, Alone
  <2>2. e \in Edges
    BY DEF IInv, Typed
  <2>3. e.from \in Notes /\ e.link \in LinksOf(e.from)
    BY <2>2 DEF Edges, LinksOf, From
  <2>4. disk[e.from] # None /\ e.link \in disk[e.from].links
    BY <2>1, <2>3 DEF Mirrored, HasLinks
  <2> QED BY <2>1, <2>3, <2>4 DEF AllLead, ByPath
<1>2. Init => IInv /\ ByInv /\ AloneInv /\ LinkInv
  BY InitKept, ByInit, AloneInit, LinkInit
<1>3. IInv /\ ByInv /\ AloneInv /\ LinkInv /\ [Next]_vars => (IInv /\ ByInv /\ AloneInv /\ LinkInv)'
  BY NextKept, ByNext, AloneNext, LinkNext
<1> QED BY <1>1, <1>2, <1>3, PTL DEF Spec
=============================================================================
