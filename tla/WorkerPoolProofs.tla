--------------------------- MODULE WorkerPoolProofs ---------------------------
(***************************************************************************)
(* One slot of the worker pool, for any number of requests, children and   *)
(* faults: it owns one child at a time, it accounts for every request, and *)
(* it gives no recall to a worker that is not warm.                        *)
(***************************************************************************)
EXTENDS WorkerPool, FiniteSetTheorems, SequenceTheorems, TLAPS

\* What the operators on the slot and the fates need to know of them.
Fields == {"child", "hello", "ready", "busy", "queue", "restarting", "backoff",
           "signal", "handshake", "stdin", "external"}

Formed(s) == DOMAIN s = {"slot", "fate"} /\ DOMAIN s.slot = Fields

\* t owns the child that s owns, and a start is due in t only if one was due in s or
\* there is no child.
Keeps(s, t) ==
    /\ Formed(t)
    /\ t.slot.child = s.slot.child
    /\ t.slot.backoff => s.slot.backoff \/ s.slot.child = None

\* The inductive invariant: OneChild, and the variables have their domains.
Ownership == DOMAIN slot = Fields /\ DOMAIN proc = Children /\ OneChild

----------------------------------------------------------------------------
(* Settling, restarting and scheduling never change who owns which child.  *)

LEMMA SettleKeeps ==
    ASSUME NEW s, Formed(s), NEW rs, NEW how
    PROVE  Keeps(s, Settle(s, rs, how))
BY DEF Formed, Keeps, Settle, Fields

LEMMA LeavesKeeps ==
    ASSUME NEW s, Formed(s), NEW r
    PROVE  Keeps(s, Leaves(s, r))
BY DEF Formed, Keeps, Leaves, Fields

LEMMA EmptiedKeeps ==
    ASSUME NEW s, Formed(s)
    PROVE  Keeps(s, Emptied(s))
BY DEF Formed, Keeps, Emptied, Fields

LEMMA KeepsTransitive ==
    ASSUME NEW s, NEW t, NEW u, Keeps(s, t), Keeps(t, u)
    PROVE  Keeps(s, u)
BY DEF Keeps

LEMMA RestartKeeps ==
    ASSUME NEW s, Formed(s)
    PROVE  Keeps(s, Restart(s))
<1> DEFINE t == Settle(s, {s.slot.busy} \ {None}, "lost")
           r == [t EXCEPT !.slot.restarting = TRUE,
                          !.slot.busy = None,
                          !.slot.hello = FALSE,
                          !.slot.ready = (role = "control"),
                          !.slot.signal = IF s.slot.child = None THEN @ ELSE "term",
                          !.slot.backoff = s.slot.child = None]
<1>1. Keeps(s, t)
  BY SettleKeeps
<1>2. Keeps(s, r)
  <2> HIDE DEF t
  <2> QED
    BY <1>1 DEF Keeps, Formed, Fields
<1>3. Restart(s) = IF s.slot.restarting THEN s ELSE r
  BY DEF Restart
<1> HIDE DEF r
<1> QED
  BY <1>2, <1>3 DEF Keeps

LEMMA LoseKeeps ==
    ASSUME NEW s, Formed(s)
    PROVE  Keeps(s, Lose(s))
<1> DEFINE u == Settle(s, InHand(s.slot), "lost")
           t == Emptied(u)
<1>1. Keeps(s, u)
  BY SettleKeeps
<1>2. Formed(u)
  BY <1>1 DEF Keeps
<1>3. Keeps(u, t)
  <2> HIDE DEF u
  <2> QED
    BY <1>2, EmptiedKeeps
<1>4. Formed(t)
  BY <1>3 DEF Keeps
<1>5. Keeps(t, Restart(t))
  <2> HIDE DEF t
  <2> QED
    BY <1>4, RestartKeeps
<1>6. Lose(s) = Restart(t)
  BY DEF Lose
<1> HIDE DEF u, t
<1>7. Keeps(s, t)
  BY <1>1, <1>3, KeepsTransitive
<1> QED
  BY <1>5, <1>6, <1>7, KeepsTransitive

LEMMA ScheduleKeeps ==
    ASSUME NEW s, Formed(s), NEW writable
    PROVE  Keeps(s, Schedule(s, writable))
<1> DEFINE next == Head(s.slot.queue)
           t == [s EXCEPT !.slot.queue = Tail(@)]
           u == Settle(t, {next}, "lost")
           w == [t EXCEPT !.slot.busy = next, !.slot.stdin = Append(@, next)]
<1>1. Keeps(s, t)
  BY DEF Keeps, Formed, Fields
<1>2. Formed(t)
  BY <1>1 DEF Keeps
<1>3. Keeps(t, u)
  <2> HIDE DEF t, next
  <2> QED
    BY <1>2, SettleKeeps
<1>4. Formed(u)
  BY <1>3 DEF Keeps
<1>5. Keeps(u, Restart(u))
  <2> HIDE DEF u
  <2> QED
    BY <1>4, RestartKeeps
<1>6. Keeps(t, w)
  <2> HIDE DEF t, next
  <2> QED
    BY <1>2 DEF Keeps, Formed, Fields
<1>7. Schedule(s, writable) \in {s, w, Restart(u)}
  BY DEF Schedule
<1> HIDE DEF t, u, w, next
<1>8. Keeps(s, u) /\ Keeps(s, w)
  BY <1>1, <1>3, <1>6, KeepsTransitive
<1>9. Keeps(s, Restart(u))
  BY <1>5, <1>8, KeepsTransitive
<1> QED
  BY <1>7, <1>8, <1>9 DEF Keeps

----------------------------------------------------------------------------
(* OneChild is inductive.                                                  *)

LEMMA NowFormed ==
    ASSUME Ownership
    PROVE  Formed(Now) /\ Now.slot = slot
BY DEF Ownership, Formed, Now

\* A callback that only keeps the child.
LEMMA CallbackKeepsOwnership ==
    ASSUME Ownership, NEW t, Keeps(Now, t), Become(t), UNCHANGED proc
    PROVE  Ownership'
BY DEF Ownership, OneChild, Keeps, Formed, Now, Become, Spawned

\* The same when other fields are set first.
LEMMA CallbackAfter ==
    ASSUME Ownership, NEW s, Keeps(Now, s), NEW t, Keeps(s, t), Become(t), UNCHANGED proc
    PROVE  Ownership'
BY KeepsTransitive, CallbackKeepsOwnership

\* A child goes on living or exits; the slot keeps its child and starts nothing.
LEMMA ChildKeepsOwnership ==
    ASSUME Ownership, NEW c \in Children, proc[c] \in {"starting", "running"},
           NEW state \in {"running", "exited"}, proc' = [proc EXCEPT ![c] = state],
           UNCHANGED slot
    PROVE  Ownership'
BY DEF Ownership, OneChild, Spawned

LEMMA OwnershipInit == Init => Ownership
<1> SUFFICES ASSUME Init PROVE Ownership
  OBVIOUS
<1>1. DOMAIN slot = Fields /\ slot.child = 1 /\ ~slot.backoff
  BY DEF Init, Fields
<1>2. proc = [c \in Children |-> IF c = 1 THEN "starting" ELSE "unborn"]
  BY DEF Init
<1> QED
  BY <1>1, <1>2 DEF Ownership, OneChild, Spawned

LEMMA OwnershipNext == Ownership /\ [Next]_vars => Ownership'
<1> SUFFICES ASSUME Ownership, [Next]_vars PROVE Ownership'
  OBVIOUS
<1> USE NowFormed
<1>1. ASSUME NEW r \in Requests, Ask(r) PROVE Ownership'
  <2> DEFINE s == [Now EXCEPT !.fate[r] = "pending", !.slot.external = @ + 1,
                              !.slot.queue = Append(@, r)]
  <2>1. /\ Keeps(Now, [Now EXCEPT !.fate[r] = "rejected"])
        /\ Keeps(Now, [Now EXCEPT !.fate[r] = "full"])
        /\ Keeps(Now, s)
    BY DEF Keeps, Formed, Fields
  <2>2. ASSUME NEW ok PROVE Keeps(s, Schedule(s, ok))
    <3>1. Formed(s)
      BY <2>1 DEF Keeps
    <3> HIDE DEF s
    <3> QED
      BY <3>1, ScheduleKeeps
  <2>3. UNCHANGED proc
    BY <1>1 DEF Ask, outside
  <2>4. \/ Become([Now EXCEPT !.fate[r] = "rejected"])
        \/ Become([Now EXCEPT !.fate[r] = "full"])
        \/ \E ok \in Writable : Become(Schedule(s, ok))
    BY <1>1 DEF Ask
  <2> HIDE DEF s
  <2> QED
    BY <2>1, <2>2, <2>3, <2>4, CallbackKeepsOwnership, CallbackAfter
<1>2. ASSUME NEW r \in Ids, NEW how, UNCHANGED proc,
             LET s == Settle(Leaves(Now, r), {r}, how) IN
             Become(IF slot.busy = r THEN Restart(s) ELSE s)
      PROVE  Ownership'
  <2> DEFINE d == Leaves(Now, r)
             s == Settle(d, {r}, how)
  <2>1. Keeps(Now, d)
    BY LeavesKeeps
  <2>2. Formed(d)
    BY <2>1 DEF Keeps
  <2>3. Keeps(d, s)
    <3> HIDE DEF d
    <3> QED
      BY <2>2, SettleKeeps
  <2>4. Formed(s)
    BY <2>3 DEF Keeps
  <2>5. Keeps(s, Restart(s))
    <3> HIDE DEF s
    <3> QED
      BY <2>4, RestartKeeps
  <2>6. Become(s) \/ Become(Restart(s))
    BY <1>2
  <2> HIDE DEF d, s
  <2>7. Keeps(Now, s)
    BY <2>1, <2>3, KeepsTransitive
  <2> QED
    BY <1>2, <2>5, <2>6, <2>7, CallbackKeepsOwnership, CallbackAfter
<1>3. ASSUME NEW r \in Ids, Timeout(r) PROVE Ownership'
  BY <1>2, <1>3 DEF Timeout, outside
<1>4. ASSUME NEW r \in Requests, Abort(r) PROVE Ownership'
  BY <1>2, <1>4 DEF Abort, outside, Ids
<1>5. ASSUME NEW c \in Children, Ignore(c) PROVE Ownership'
  BY <1>5 DEF Ignore, Ownership, OneChild, Spawned
<1>6. ASSUME NEW c \in Children, Hello(c) PROVE Ownership'
  <2> DEFINE s == [Now EXCEPT !.slot.hello = TRUE, !.slot.handshake = None]
             t == IF role = "control" THEN [s EXCEPT !.slot.ready = TRUE]
                  ELSE [s EXCEPT !.fate[c] = "pending", !.slot.queue = <<c>> \o @]
  <2>1. Keeps(Now, t)
    BY DEF Keeps, Formed, Fields
  <2>2. Formed(t)
    BY <2>1 DEF Keeps
  <2>3. ASSUME NEW ok PROVE Keeps(t, Schedule(t, ok))
    <3> HIDE DEF t
    <3> QED
      BY <2>2, ScheduleKeeps
  <2>4. UNCHANGED proc /\ \E ok \in Writable : Become(Schedule(t, ok))
    BY <1>6 DEF Hello
  <2> HIDE DEF t
  <2> QED
    BY <2>1, <2>3, <2>4, CallbackAfter
<1>7. ASSUME NEW c \in Children, Answer(c) PROVE Ownership'
  <2> DEFINE good == Head(out[c]).ok
             warmup == slot.busy \in Children
             d == Leaves(Now, slot.busy)
             s == Settle(d, {slot.busy}, "answered")
             w == [s EXCEPT !.slot.ready = @ \/ (warmup /\ good)]
  <2>1. Keeps(Now, d)
    BY LeavesKeeps
  <2>2. Formed(d)
    BY <2>1 DEF Keeps
  <2>3. Keeps(d, s)
    <3> HIDE DEF d
    <3> QED
      BY <2>2, SettleKeeps
  <2>4. Keeps(s, w)
    <3> HIDE DEF s, good, warmup
    <3> QED
      BY <2>3 DEF Keeps, Formed, Fields
  <2>5. Formed(w)
    BY <2>4 DEF Keeps
  <2>6. Keeps(Now, w)
    <3> HIDE DEF d, s, w
    <3> QED
      BY <2>1, <2>3, <2>4, KeepsTransitive
  <2>7. ASSUME NEW ok
        PROVE  Keeps(w, Schedule(w, ok)) /\ Keeps(w, Restart(Schedule(w, ok)))
    <3> HIDE DEF w
    <3>1. Keeps(w, Schedule(w, ok))
      BY <2>5, ScheduleKeeps
    <3>2. Formed(Schedule(w, ok))
      BY <3>1 DEF Keeps
    <3>3. Keeps(Schedule(w, ok), Restart(Schedule(w, ok)))
      BY <3>2, RestartKeeps
    <3> QED
      BY <3>1, <3>3, KeepsTransitive
  <2>8. \E ok \in Writable : \/ Become(Schedule(w, ok))
                             \/ Become(Restart(Schedule(w, ok)))
    BY <1>7 DEF Answer
  <2>9. UNCHANGED proc
    BY <1>7 DEF Answer
  <2> HIDE DEF w
  <2> QED
    BY <2>6, <2>7, <2>8, <2>9, CallbackAfter
<1>8. ASSUME NEW c \in Children, Misread(c) PROVE Ownership'
  BY <1>8, RestartKeeps, CallbackKeepsOwnership DEF Misread
<1>9. CASE Start
  <2>1. slot.child = None /\ None \notin Children /\ Fresh \in Children
    BY <1>9, PoolConstants DEF Start, Ownership, OneChild
  <2>2. \A c \in Spawned : proc[c] = "closed"
    BY <2>1 DEF Ownership, OneChild, Spawned
  <2>3. proc' = [proc EXCEPT ![Fresh] = "starting"]
    BY <1>9 DEF Start
  <2>4. DOMAIN slot' = Fields /\ slot'.child = Fresh /\ slot'.backoff = FALSE
    BY <1>9 DEF Start, Ownership, Fields
  <2> HIDE DEF Fresh
  <2> QED
    BY <2>1, <2>2, <2>3, <2>4 DEF Ownership, OneChild, Spawned
<1>10. CASE StartFails
  <2> DEFINE s == [Now EXCEPT !.slot.restarting = FALSE, !.slot.backoff = FALSE]
  <2>1. Keeps(Now, s)
    BY DEF Keeps, Formed, Fields
  <2>2. Formed(s)
    BY <2>1 DEF Keeps
  <2>3. UNCHANGED proc /\ Become(Restart(s))
    BY <1>10 DEF StartFails, outside
  <2> HIDE DEF s
  <2> QED
    BY <2>1, <2>2, <2>3, RestartKeeps, CallbackAfter
<1>11. CASE KillTimer
  BY <1>11 DEF KillTimer, outside, Ownership, OneChild, Spawned, Fields
<1>12. CASE HandshakeTimeout
  <2> DEFINE s == [Now EXCEPT !.slot.handshake = None]
  <2>1. Keeps(Now, s)
    BY DEF Keeps, Formed, Fields
  <2>2. Formed(s)
    BY <2>1 DEF Keeps
  <2>3. UNCHANGED proc /\ (Become(s) \/ Become(Lose(s)))
    BY <1>12 DEF HandshakeTimeout, outside
  <2> HIDE DEF s
  <2> QED
    BY <2>1, <2>2, <2>3, LoseKeeps, CallbackKeepsOwnership, CallbackAfter
<1>13. ASSUME NEW c \in Children, StreamError(c) PROVE Ownership'
  BY <1>13, LoseKeeps, CallbackKeepsOwnership DEF StreamError, outside
<1>14. ASSUME NEW c \in Children, WriteFails(c) PROVE Ownership'
  <2> DEFINE s == [Now EXCEPT !.slot.stdin = <<>>]
  <2>1. Keeps(Now, s)
    BY DEF Keeps, Formed, Fields
  <2>2. Formed(s)
    BY <2>1 DEF Keeps
  <2>3. UNCHANGED proc /\ Become(Lose(s))
    BY <1>14 DEF WriteFails, outside
  <2> HIDE DEF s
  <2> QED
    BY <2>1, <2>2, <2>3, LoseKeeps, CallbackAfter
<1>15. ASSUME NEW c \in Children, Close(c) PROVE Ownership'
  <2> DEFINE s == [Now EXCEPT !.slot.handshake = None, !.slot.child = None,
                              !.slot.stdin = <<>>]
             t == [s EXCEPT !.slot.backoff = TRUE]
  <2>1. proc' = [proc EXCEPT ![c] = "closed"] /\ proc[c] = "exited"
    BY <1>15 DEF Close
  <2>2. CASE UNCHANGED slot
    BY <2>1, <2>2 DEF Ownership, OneChild, Spawned
  <2>3. CASE slot.child = c /\ (Become(t) \/ Become(Lose(s)))
    <3>1. Formed(s) /\ s.slot.child = None
      BY DEF Formed, Fields
    <3>2. Formed(t) /\ t.slot.child = None
      <4> HIDE DEF s
      <4> QED
        BY <3>1 DEF Formed, Fields
    <3>3. Formed(Lose(s)) /\ Lose(s).slot.child = None
      <4> HIDE DEF s
      <4> QED
        BY <3>1, LoseKeeps DEF Keeps
    <3>4. DOMAIN slot' = Fields /\ slot'.child = None
      <4> HIDE DEF s, t
      <4> QED
        BY <2>3, <3>2, <3>3 DEF Become, Formed
    <3> QED
      BY <2>1, <2>3, <3>4 DEF Ownership, OneChild, Spawned
  <2> QED
    BY <1>15, <2>2, <2>3 DEF Close
<1>16. ASSUME NEW c \in Children, SayHello(c) \/ Exit(c) PROVE Ownership'
  BY <1>16, ChildKeepsOwnership DEF SayHello, Exit
<1>17. ASSUME NEW c \in Children, Babble(c) PROVE Ownership'
  BY <1>17 DEF Babble, Ownership, OneChild, Spawned
<1>18. ASSUME NEW c \in Children, NEW good \in BOOLEAN, Serve(c, good) PROVE Ownership'
  BY <1>18 DEF Serve, Ownership, OneChild, Spawned, Fields
<1>19. CASE Dispose
  <2> DEFINE u == Settle(Now, InHand(slot), "rejected")
             s == Emptied(u)
             t == [s EXCEPT !.slot.handshake = None, !.slot.backoff = FALSE,
                            !.slot.signal = IF slot.child = None \/ @ = "kill" THEN @ ELSE "term"]
  <2>1. Keeps(Now, u)
    BY SettleKeeps
  <2>2. Formed(u)
    BY <2>1 DEF Keeps
  <2>3. Keeps(u, s)
    <3> HIDE DEF u
    <3> QED
      BY <2>2, EmptiedKeeps
  <2>4. Keeps(s, t)
    <3> HIDE DEF s
    <3> QED
      BY <2>3 DEF Keeps, Formed, Fields
  <2>5. UNCHANGED proc /\ Become(t)
    BY <1>19 DEF Dispose, outside
  <2> HIDE DEF u, s, t
  <2>6. Keeps(Now, s)
    BY <2>1, <2>3, KeepsTransitive
  <2> QED
    BY <2>4, <2>5, <2>6, CallbackAfter
<1>20. CASE DisposeKills
  BY <1>20 DEF DisposeKills, outside, Ownership, OneChild, Spawned, Fields
<1>21. CASE DisposeStopsWaiting
  BY <1>21 DEF DisposeStopsWaiting, outside, Ownership, OneChild, Spawned
<1>22. CASE UNCHANGED vars
  BY <1>22 DEF vars, Ownership, OneChild, Spawned
<1> QED
  BY <1>1, <1>3, <1>4, <1>5, <1>6, <1>7, <1>8, <1>9, <1>10, <1>11, <1>12, <1>13, <1>14,
     <1>15, <1>16, <1>17, <1>18, <1>19, <1>20, <1>21, <1>22 DEF Next, Frame

\* However workers fail and whatever is asked, timed out, aborted or disposed, a slot
\* never has two children that have not closed: a replacement starts after the close
\* event of the child before it.
THEOREM SlotOwnsOneChild == Spec => []OneChild
<1>1. Ownership => OneChild
  BY DEF Ownership
<1> QED
  BY <1>1, OwnershipInit, OwnershipNext, PTL DEF Spec

-----------------------------------------------------------------------------
\* What is in hand.  The accounting of the pool rests on the queue: each request is in
\* it once, so that taking one out of it, or its head, takes the request out of hand.

Entries(q) == {q[i] : i \in DOMAIN q}
Distinct(q) == \A i, j \in DOMAIN q : q[i] = q[j] => i = j

\* A sequence of distinct entries, or none: how the operators on the queue change them.
Lists(q, rs) == q \in Seq(Ids) /\ Distinct(q) /\ Entries(q) = rs

LEMMA ListIsFinite ==
    ASSUME NEW q \in Seq(Ids), Distinct(q)
    PROVE  IsFiniteSet(Entries(q)) /\ Cardinality(Entries(q)) = Len(q)
<1>1. Len(q) \in Nat /\ DOMAIN q = 1..Len(q) /\ q \in [1..Len(q) -> Ids]
  BY LenProperties
<1>2. q \in Surjection(1..Len(q), Entries(q)) /\ q \in Injection(1..Len(q), Entries(q))
  BY <1>1 DEF Entries, Distinct, Surjection, Injection, IsInjective
<1>3. q \in Bijection(1..Len(q), Entries(q))
  BY <1>2 DEF Bijection
<1>4. ExistsBijection(1..Len(q), Entries(q))
  BY <1>3 DEF ExistsBijection
<1> QED BY <1>1, <1>4, FS_NatBijection, FS_CountingElements

LEMMA HeadIsFirst ==
    ASSUME NEW q \in Seq(Ids), q # <<>>
    PROVE  Head(q) = q[1]
<1>1. Len(q) \in Nat \ {0}
  BY EmptySeq
<1>2. 1 \in 1..Len(q) /\ Len(q) \in 1..Len(q)
  BY <1>1
<1>3. Head(SubSeq(q, 1, Len(q))) = q[1]
  BY <1>2, HeadTailOfSubSeq
<1> QED BY <1>3, SubSeqFull

LEMMA SubSeqIsPart ==
    ASSUME NEW q \in Seq(Ids), NEW m \in Nat, NEW n \in Nat, n <= Len(q), m > 0, m <= n + 1
    PROVE  /\ SubSeq(q, m, n) \in Seq(Ids)
           /\ Len(SubSeq(q, m, n)) = n - m + 1
           /\ \A i \in 1..n - m + 1 : SubSeq(q, m, n)[i] = q[m + i - 1]
<1>1. \A i \in m..n : q[i] \in Ids
  BY LenProperties
<1>2. m \in Int /\ n \in Int
  OBVIOUS
<1>3. /\ SubSeq(q, m, n) \in Seq(Ids)
      /\ Len(SubSeq(q, m, n)) = IF m <= n THEN n - m + 1 ELSE 0
      /\ \A i \in 1..n - m + 1 : SubSeq(q, m, n)[i] = q[m + i - 1]
  BY ONLY <1>1, <1>2, SubSeqProperties
<1> QED BY <1>3

LEMMA AppendLists ==
    ASSUME NEW q, NEW rs, Lists(q, rs), NEW r \in Ids \ rs
    PROVE  Lists(Append(q, r), rs \cup {r})
<1>1. /\ Len(q) \in Nat /\ DOMAIN q = 1..Len(q)
      /\ Append(q, r) \in Seq(Ids) /\ Len(Append(q, r)) = Len(q) + 1
      /\ \A i \in 1..Len(q) : Append(q, r)[i] = q[i]
      /\ Append(q, r)[Len(q) + 1] = r
      /\ DOMAIN Append(q, r) = 1..Len(q) + 1
  BY LenProperties, AppendProperties DEF Lists
<1>2. PICK n \in Nat : n = Len(q)
  BY <1>1
<1>3. PICK a \in Seq(Ids) : a = Append(q, r)
  BY <1>1
<1>4. /\ DOMAIN q = 1..n /\ DOMAIN a = 1..n + 1
      /\ \A i \in 1..n : a[i] = q[i]
      /\ a[n + 1] = r
  BY <1>1, <1>2, <1>3
<1>5. Distinct(a)
  BY <1>4 DEF Distinct, Lists, Entries
<1>6. Entries(a) = rs \cup {r}
  BY <1>4 DEF Entries, Lists
<1> QED BY <1>3, <1>5, <1>6 DEF Lists

LEMMA FrontLists ==
    ASSUME NEW q, NEW rs, Lists(q, rs), NEW r \in Ids \ rs
    PROVE  Lists(<<r>> \o q, rs \cup {r}) /\ Head(<<r>> \o q) = r /\ Tail(<<r>> \o q) = q
<1>1. /\ <<r>> \in Seq(Ids) /\ Len(<<r>>) = 1 /\ <<r>>[1] = r
      /\ Len(q) \in Nat /\ DOMAIN q = 1..Len(q) /\ q \in Seq(Ids)
  BY LenProperties DEF Lists
<1>2. PICK n \in Nat : n = Len(q)
  BY <1>1
<1>3. PICK a \in Seq(Ids) : a = <<r>> \o q
  BY <1>1, ConcatProperties
<1>4. /\ Len(a) = n + 1
      /\ \A i \in 1..n + 1 : a[i] = IF i <= 1 THEN r ELSE q[i - 1]
  BY <1>1, <1>2, <1>3, ConcatProperties
<1>5. DOMAIN q = 1..n /\ DOMAIN a = 1..n + 1 /\ a # <<>>
  BY <1>1, <1>2, <1>4, LenProperties, EmptySeq
<1>6. Distinct(a)
  <2> SUFFICES ASSUME NEW i \in 1..n + 1, NEW j \in 1..n + 1, a[i] = a[j] PROVE i = j
    BY <1>5 DEF Distinct
  <2>1. CASE i <= 1 \/ j <= 1
    BY <1>4, <1>5, <2>1 DEF Lists, Entries
  <2>2. CASE i > 1 /\ j > 1
    <3>1. i - 1 \in 1..n /\ j - 1 \in 1..n /\ q[i - 1] = q[j - 1]
      BY <1>4, <2>2
    <3> QED BY <1>5, <2>2, <3>1 DEF Lists, Distinct
  <2> QED BY <2>1, <2>2
<1>7. Entries(a) = rs \cup {r}
  <2>1. ASSUME NEW i \in 1..n + 1 PROVE a[i] \in rs \cup {r}
    <3>1. i <= 1 \/ i - 1 \in 1..n
      OBVIOUS
    <3> QED BY <1>4, <1>5, <3>1 DEF Lists, Entries
  <2>2. ASSUME NEW x \in rs PROVE x \in Entries(a)
    <3>1. PICK i \in 1..n : x = q[i]
      BY <1>5, <2>2 DEF Lists, Entries
    <3>2. i + 1 \in 1..n + 1 /\ a[i + 1] = q[i]
      BY <1>4
    <3> QED BY <1>5, <3>1, <3>2 DEF Entries
  <2>3. r \in Entries(a)
    <3>1. 1 \in 1..n + 1 /\ a[1] = r
      BY <1>4
    <3> QED BY <1>5, <3>1 DEF Entries
  <2> QED BY <1>5, <2>1, <2>2, <2>3 DEF Entries
<1>8. Head(a) = r
  <2>1. a[1] = r
    BY <1>4
  <2> QED BY <1>5, <2>1, HeadIsFirst
<1>9. Tail(a) = q
  <2>1. /\ Tail(a) \in Seq(Ids) /\ Len(Tail(a)) = n
        /\ \A i \in 1..n : Tail(a)[i] = a[i + 1]
    BY <1>4, <1>5, HeadTailProperties
  <2>2. \A i \in 1..n : a[i + 1] = q[i]
    BY <1>4
  <2> QED BY <1>1, <1>2, <2>1, <2>2, SeqEqual
<1> QED BY <1>3, <1>6, <1>7, <1>8, <1>9 DEF Lists

LEMMA TailLists ==
    ASSUME NEW q, NEW rs, Lists(q, rs), q # <<>>
    PROVE  Head(q) \in rs /\ Head(q) \in Ids /\ Lists(Tail(q), rs \ {Head(q)})
<1>1. PICK n \in Nat : n = Len(q)
  BY LenProperties DEF Lists
<1>2. PICK t \in Seq(Ids) : t = Tail(q)
  BY HeadTailProperties DEF Lists
<1>3. /\ DOMAIN q = 1..n /\ n # 0 /\ Head(q) = q[1] /\ Head(q) \in Ids
      /\ Len(t) = n - 1 /\ \A i \in 1..n - 1 : t[i] = q[i + 1]
  <2>1. DOMAIN q = 1..n /\ n # 0
    BY <1>1, LenProperties, EmptySeq DEF Lists
  <2>2. Head(q) = q[1]
    BY HeadIsFirst DEF Lists
  <2>3. /\ Head(q) \in Ids
        /\ Len(t) = n - 1 /\ \A i \in 1..n - 1 : t[i] = q[i + 1]
    BY <1>1, <1>2, HeadTailProperties DEF Lists
  <2> QED BY <2>1, <2>2, <2>3
<1>4. DOMAIN t = 1..n - 1 /\ 1 \in 1..n
  BY <1>2, <1>3, LenProperties
<1>5. Distinct(t)
  <2> SUFFICES ASSUME NEW i \in 1..n - 1, NEW j \in 1..n - 1, t[i] = t[j] PROVE i = j
    BY <1>4 DEF Distinct
  <2>1. i + 1 \in 1..n /\ j + 1 \in 1..n /\ q[i + 1] = q[j + 1]
    BY <1>3
  <2>2. i + 1 = j + 1
    BY <1>3, <2>1 DEF Lists, Distinct
  <2> QED BY <2>2
<1>6. Entries(t) = rs \ {q[1]}
  <2>1. ASSUME NEW i \in 1..n - 1 PROVE t[i] \in rs \ {q[1]}
    <3>1. i + 1 \in 1..n /\ i + 1 # 1 /\ t[i] = q[i + 1]
      BY <1>3
    <3> QED BY <1>3, <1>4, <3>1 DEF Lists, Distinct, Entries
  <2>2. ASSUME NEW x \in rs \ {q[1]} PROVE x \in Entries(t)
    <3>1. PICK i \in 1..n : x = q[i]
      BY <1>3, <2>2 DEF Lists, Entries
    <3>2. i - 1 \in 1..n - 1 /\ t[i - 1] = q[i]
      BY <1>3, <2>2, <3>1
    <3> QED BY <1>4, <3>1, <3>2 DEF Entries
  <2> QED BY <1>4, <2>1, <2>2 DEF Entries
<1> QED BY <1>2, <1>3, <1>4, <1>5, <1>6 DEF Lists, Entries

LEMMA WithoutLists ==
    ASSUME NEW q, NEW rs, Lists(q, rs), NEW r
    PROVE  Lists(Without(q, r), rs \ {r})
<1>1. CASE ~ \E i \in DOMAIN q : q[i] = r
  BY <1>1 DEF Without, Lists, Entries
<1>2. CASE \E i \in DOMAIN q : q[i] = r
  <2> DEFINE k == CHOOSE i \in DOMAIN q : q[i] = r
  <2>1. k \in DOMAIN q /\ q[k] = r
    BY <1>2
  <2>2. Without(q, r) = SubSeq(q, 1, k - 1) \o SubSeq(q, k + 1, Len(q))
    BY <1>2 DEF Without
  <2> HIDE DEF k
  <2>3. PICK n \in Nat : n = Len(q)
    BY LenProperties DEF Lists
  <2>4. DOMAIN q = 1..n /\ k \in 1..n /\ \A i \in 1..n : q[i] \in Ids
    BY <2>1, <2>3, LenProperties DEF Lists
  <2>5. PICK a \in Seq(Ids) : /\ a = SubSeq(q, 1, k - 1)
                              /\ Len(a) = (k - 1) - 1 + 1
                              /\ \A i \in 1..(k - 1) - 1 + 1 : a[i] = q[1 + i - 1]
    <3>1. k - 1 \in Nat /\ 1 \in Nat /\ k - 1 <= Len(q) /\ 1 <= (k - 1) + 1 /\ 1 > 0
      BY <2>3, <2>4
    <3> QED BY <3>1, SubSeqIsPart DEF Lists
  <2>6. Len(a) = k - 1 /\ \A i \in 1..k - 1 : a[i] = q[i]
    <3>1. (k - 1) - 1 + 1 = k - 1 /\ \A i \in 1..k - 1 : 1 + i - 1 = i
      BY <2>4
    <3> QED BY <2>4, <2>5, <3>1
  <2>7. PICK b \in Seq(Ids) : /\ b = SubSeq(q, k + 1, n)
                              /\ Len(b) = n - (k + 1) + 1
                              /\ \A i \in 1..n - (k + 1) + 1 : b[i] = q[(k + 1) + i - 1]
    <3>1. k + 1 \in Nat /\ n <= Len(q) /\ k + 1 <= n + 1 /\ k + 1 > 0
      BY <2>3, <2>4
    <3> QED BY <3>1, SubSeqIsPart DEF Lists
  <2>8. Len(b) = n - k /\ \A i \in 1..n - k : b[i] = q[k + i]
    <3>1. n - (k + 1) + 1 = n - k /\ \A i \in 1..n - k : (k + 1) + i - 1 = k + i
      BY <2>4
    <3> QED BY <2>4, <2>7, <3>1
  <2>9. PICK w \in Seq(Ids) : w = a \o b
    BY ConcatProperties
  <2>10. /\ Len(w) = n - 1
         /\ \A i \in 1..n - 1 : w[i] = IF i < k THEN q[i] ELSE q[i + 1]
    <3>1. /\ Len(w) = Len(a) + Len(b)
          /\ \A i \in 1..Len(a) + Len(b) : w[i] = IF i <= Len(a) THEN a[i] ELSE b[i - Len(a)]
      BY <2>9, ConcatProperties
    <3>2. Len(a) + Len(b) = n - 1
      BY <2>4, <2>6, <2>8
    <3>3. ASSUME NEW i \in 1..n - 1 PROVE w[i] = IF i < k THEN q[i] ELSE q[i + 1]
      <4>1. CASE i < k
        <5>1. i \in 1..k - 1 /\ i <= Len(a)
          BY <2>4, <2>6, <4>1
        <5> QED BY <2>6, <3>1, <3>2, <4>1, <5>1
      <4>2. CASE i >= k
        <5>1. i - (k - 1) \in 1..n - k /\ ~(i <= k - 1) /\ k + (i - (k - 1)) = i + 1
          BY <2>4, <4>2
        <5> QED BY <2>4, <2>6, <2>8, <3>1, <3>2, <4>2, <5>1
      <4> QED BY <2>4, <4>1, <4>2
    <3> QED BY <3>1, <3>2, <3>3
  <2>11. DOMAIN w = 1..n - 1
    BY <2>10, LenProperties
  <2>12. Distinct(w)
    <3> SUFFICES ASSUME NEW i \in 1..n - 1, NEW j \in 1..n - 1, w[i] = w[j] PROVE i = j
      BY <2>11 DEF Distinct
    <3>1. i \in 1..n /\ i + 1 \in 1..n /\ j \in 1..n /\ j + 1 \in 1..n
      OBVIOUS
    <3>2. \A x, y \in 1..n : q[x] = q[y] => x = y
      BY <2>4 DEF Lists, Distinct
    <3>3. CASE i < k /\ j < k
      BY <2>10, <3>1, <3>2, <3>3
    <3>4. CASE i >= k /\ j >= k
      <4>1. i + 1 = j + 1
        BY <2>4, <2>10, <3>1, <3>2, <3>4
      <4> QED BY <4>1
    <3>5. CASE i < k /\ j >= k
      <4>1. i = j + 1
        BY <2>4, <2>10, <3>1, <3>2, <3>5
      <4> QED BY <2>4, <3>5, <4>1
    <3>6. CASE i >= k /\ j < k
      <4>1. i + 1 = j
        BY <2>4, <2>10, <3>1, <3>2, <3>6
      <4> QED BY <2>4, <3>6, <4>1
    <3> QED BY <2>4, <3>3, <3>4, <3>5, <3>6
  <2>13. Entries(w) = rs \ {r}
    <3>1. ASSUME NEW i \in 1..n - 1 PROVE w[i] \in rs \ {r}
      <4>1. i \in 1..n /\ i + 1 \in 1..n
        OBVIOUS
      <4>2. \E x \in 1..n : x # k /\ w[i] = q[x]
        BY <2>4, <2>10, <4>1
      <4> QED BY <2>1, <2>4, <4>2 DEF Lists, Distinct, Entries
    <3>2. ASSUME NEW x \in rs \ {r} PROVE x \in Entries(w)
      <4>1. PICK i \in 1..n : x = q[i]
        BY <2>4, <3>2 DEF Lists, Entries
      <4>2. i # k
        BY <2>1, <3>2, <4>1
      <4>3. CASE i < k
        <5>1. i \in 1..n - 1 /\ w[i] = q[i]
          BY <2>4, <2>10, <4>3
        <5> QED BY <2>11, <4>1, <5>1 DEF Entries
      <4>4. CASE i > k
        <5>1. i - 1 \in 1..n - 1 /\ w[i - 1] = q[i]
          BY <2>4, <2>10, <4>4
        <5> QED BY <2>11, <4>1, <5>1 DEF Entries
      <4> QED BY <2>4, <4>2, <4>3, <4>4
    <3> QED BY <2>11, <3>1, <3>2 DEF Entries
  <2> QED BY <2>2, <2>3, <2>5, <2>7, <2>9, <2>12, <2>13 DEF Lists
<1> QED BY <1>1, <1>2

-----------------------------------------------------------------------------
\* The accounting.  Pending is what the fates say; the queue and the place for the
\* request in work hold exactly that.

Pending(s) == {r \in Ids : s.fate[r] = "pending"}

Counted(s) ==
    /\ Formed(s)
    /\ s.slot.stdin \in Seq(Ids)
    /\ s.slot.busy \in Ids \cup {None}
    /\ s.fate \in [Ids -> Fates]
    /\ Lists(s.slot.queue, Pending(s) \ {s.slot.busy})
    /\ s.slot.busy # None => s.slot.busy \in Pending(s)
    /\ s.slot.external = Cardinality(Pending(s) \cap Requests)

\* Nothing is in work before the hello or during a restart, and a start is due only
\* during one.
Orderly(s) ==
    /\ s.slot.hello = FALSE => s.slot.busy = None
    /\ s.slot.restarting = TRUE =>
           s.slot.hello = FALSE /\ (role = "retrieval" => s.slot.ready = FALSE)
    /\ s.slot.backoff = TRUE => s.slot.restarting = TRUE
    /\ {s.slot.hello, s.slot.restarting, s.slot.ready, s.slot.backoff} \subseteq BOOLEAN

\* A retrieval slot that is ready, or works on a recall, has a child that answered its
\* warmup.
Warmed(s) ==
    role = "retrieval" /\ (s.slot.ready = TRUE \/ s.slot.busy \in Requests)
        => s.slot.child \in warm

\* A warmup does not wait: it is in work as soon as it is made.
NoWarmupWaits(s) == Pending(s) \cap Children \subseteq {s.slot.busy}

Sound(s) == Counted(s) /\ Orderly(s) /\ Warmed(s)

Frames == [kind : {"hello", "junk"}] \cup [kind : {"result"}, id : Ids, ok : BOOLEAN]

\* Whoever said that its warmup went well has it behind it.
WarmIsTold ==
    /\ out \in [Children -> Seq(Frames)]
    /\ \A c \in Children : \A i \in DOMAIN out[c] :
           out[c][i].kind = "result" /\ out[c][i].id \in Children /\ out[c][i].ok = TRUE => c \in warm

PoolInv == Sound(Now) /\ NoWarmupWaits(Now) /\ WarmIsTold

LEMMA NoneIsApart == None \notin Ids
  BY PoolConstants DEF Ids

LEMMA PendingIsFinite ==
    ASSUME NEW s, Counted(s)
    PROVE  IsFiniteSet(Pending(s)) /\ IsFiniteSet(Pending(s) \cap Requests)
<1>1. IsFiniteSet(Pending(s) \ {s.slot.busy})
  BY ListIsFinite DEF Counted, Lists
<1>2. IsFiniteSet((Pending(s) \ {s.slot.busy}) \cup {s.slot.busy})
  BY <1>1, FS_AddElement
<1>3. Pending(s) \in SUBSET ((Pending(s) \ {s.slot.busy}) \cup {s.slot.busy})
  OBVIOUS
<1>4. IsFiniteSet(Pending(s))
  BY <1>2, <1>3, FS_Subset
<1> QED BY <1>4, FS_Subset

\* Settling some of what is pending, and taking it out of hand, keeps the account.
TakenOut(s, t, rs, how) ==
    /\ rs \subseteq Pending(s) /\ how \in Fates \ {"pending"}
    /\ Formed(t) /\ t.slot.stdin \in Seq(Ids)
    /\ t.fate = [r \in Ids |-> IF r \in rs THEN how ELSE s.fate[r]]
    /\ t.slot.external = s.slot.external - Cardinality(rs \cap Requests)
    /\ t.slot.busy = None \/ t.slot.busy \in Pending(s) \ rs
    /\ Lists(t.slot.queue, (Pending(s) \ rs) \ {t.slot.busy})

LEMMA SettledCounts ==
    ASSUME NEW s, NEW t, NEW rs, NEW how, Counted(s), TakenOut(s, t, rs, how)
    PROVE  Counted(t) /\ Pending(t) = Pending(s) \ rs
<1> USE DEF TakenOut
<1>1. Pending(t) = Pending(s) \ rs
  BY DEF Pending
<1>2. t.fate \in [Ids -> Fates]
  BY DEF Counted
<1>3. t.slot.external = Cardinality(Pending(t) \cap Requests)
  <2>1. Cardinality((Pending(s) \cap Requests) \ rs)
            = Cardinality(Pending(s) \cap Requests) - Cardinality((Pending(s) \cap Requests) \cap rs)
    BY PendingIsFinite, FS_Difference
  <2>2. (Pending(s) \cap Requests) \ rs = Pending(t) \cap Requests
    BY <1>1
  <2>3. (Pending(s) \cap Requests) \cap rs = rs \cap Requests
    OBVIOUS
  <2> QED BY <2>1, <2>2, <2>3 DEF Counted
<1>4. t.slot.busy \in Ids \cup {None} /\ (t.slot.busy # None => t.slot.busy \in Pending(t))
  BY <1>1 DEF Pending
<1>5. Lists(t.slot.queue, Pending(t) \ {t.slot.busy})
  BY <1>1
<1> QED BY <1>1, <1>2, <1>3, <1>4, <1>5 DEF Counted

\* One request is settled and leaves, wherever it is.
LEMMA LeavingIsSound ==
    ASSUME NEW s, Sound(s), NEW r \in Pending(s), NEW how \in Fates \ {"pending"},
           NEW t, t = Settle(Leaves(s, r), {r}, how)
    PROVE  /\ Sound(t) /\ Pending(t) = Pending(s) \ {r}
           /\ t.slot.busy = IF s.slot.busy = r THEN None ELSE s.slot.busy
           /\ t.slot.hello = s.slot.hello /\ t.slot.child = s.slot.child
<1>1. r # None /\ r \in Ids
  BY NoneIsApart DEF Pending
<1>2. /\ Formed(t) /\ t.slot.stdin = s.slot.stdin
      /\ t.slot.busy = (IF s.slot.busy = r THEN None ELSE s.slot.busy)
      /\ t.slot.queue = Without(s.slot.queue, r)
      /\ t.slot.external = s.slot.external - Cardinality({r} \cap Requests)
      /\ t.fate = [x \in Ids |-> IF x \in {r} THEN how ELSE s.fate[x]]
      /\ t.slot.hello = s.slot.hello /\ t.slot.restarting = s.slot.restarting
      /\ t.slot.ready = s.slot.ready /\ t.slot.child = s.slot.child
      /\ t.slot.backoff = s.slot.backoff
  BY DEF Settle, Leaves, Sound, Counted, Formed, Fields
<1>3. Lists(Without(s.slot.queue, r), (Pending(s) \ {s.slot.busy}) \ {r})
  BY WithoutLists DEF Sound, Counted
<1>4. None \notin Pending(s)
  BY NoneIsApart DEF Pending
<1>5. (Pending(s) \ {s.slot.busy}) \ {r} = (Pending(s) \ {r}) \ {t.slot.busy}
  BY <1>2, <1>4
<1>6. Lists(t.slot.queue, (Pending(s) \ {r}) \ {t.slot.busy})
  BY <1>2, <1>3, <1>5
<1>7. t.slot.busy = None \/ t.slot.busy \in Pending(s) \ {r}
  BY <1>2 DEF Sound, Counted
<1>8. Counted(t) /\ Pending(t) = Pending(s) \ {r}
  <2>1. Counted(s) /\ t.slot.stdin \in Seq(Ids) /\ {r} \in SUBSET Pending(s)
    BY <1>2 DEF Sound, Counted
  <2>2. TakenOut(s, t, {r}, how)
    BY <1>2, <1>6, <1>7, <2>1 DEF TakenOut
  <2> QED BY <2>1, <2>2, SettledCounts
<1>9. Orderly(t) /\ Warmed(t)
  BY <1>2, NoneIsApart DEF Sound, Orderly, Warmed, Ids
<1> QED BY <1>2, <1>8, <1>9 DEF Sound

\* (A restart does not ask whether the child is warm unless one is on already.)
LEMMA RestartIsSound ==
    ASSUME NEW s, Counted(s), Orderly(s), Warmed(s) \/ s.slot.restarting = FALSE
    PROVE  /\ Sound(Restart(s))
           /\ NoWarmupWaits(s) => NoWarmupWaits(Restart(s))
<1> DEFINE rs == {s.slot.busy} \ {None}
           u == Settle(s, rs, "lost")
           t == [u EXCEPT !.slot.restarting = TRUE,
                          !.slot.busy = None,
                          !.slot.hello = FALSE,
                          !.slot.ready = (role = "control"),
                          !.slot.signal = IF s.slot.child = None THEN @ ELSE "term",
                          !.slot.backoff = s.slot.child = None]
<1>1. Restart(s) = IF s.slot.restarting THEN s ELSE t
  BY DEF Restart
<1>2. /\ Formed(t) /\ t.slot.stdin = s.slot.stdin /\ t.slot.busy = None
      /\ t.slot.queue = s.slot.queue
      /\ t.slot.external = s.slot.external - Cardinality(rs \cap Requests)
      /\ t.fate = [x \in Ids |-> IF x \in rs THEN "lost" ELSE s.fate[x]]
      /\ t.slot.hello = FALSE /\ t.slot.restarting = TRUE
      /\ t.slot.backoff = (s.slot.child = None)
  <2>1. /\ Formed(u) /\ u.slot.stdin = s.slot.stdin /\ u.slot.queue = s.slot.queue
        /\ u.slot.external = s.slot.external - Cardinality(rs \cap Requests)
        /\ u.fate = [x \in Ids |-> IF x \in rs THEN "lost" ELSE s.fate[x]]
    BY DEF Settle, Counted, Formed, Fields
  <2> HIDE DEF u
  <2> QED BY <2>1 DEF Formed, Fields
<1>3. t.slot.ready = (role = "control")
  BY DEF Settle, Counted, Formed, Fields
<1> HIDE DEF t
<1>4. rs \in SUBSET Pending(s) /\ "lost" \in Fates \ {"pending"}
  BY DEF Counted, Fates
<1>5. Lists(t.slot.queue, (Pending(s) \ rs) \ {None})
  <2>1. None \notin Pending(s)
    BY NoneIsApart DEF Pending
  <2>2. (Pending(s) \ rs) \ {None} = Pending(s) \ {s.slot.busy}
    BY <2>1
  <2> QED BY <1>2, <2>2 DEF Counted
<1> HIDE DEF rs
<1>6. Counted(t) /\ Pending(t) = Pending(s) \ rs
  <2>1. Counted(s) /\ t.slot.stdin \in Seq(Ids) /\ (t.slot.busy = None \/ t.slot.busy \in Pending(s) \ rs)
    BY <1>2 DEF Counted
  <2>2. Lists(t.slot.queue, (Pending(s) \ rs) \ {t.slot.busy})
    BY <1>2, <1>5
  <2>3. TakenOut(s, t, rs, "lost")
    BY <1>2, <1>4, <2>1, <2>2 DEF TakenOut
  <2> QED BY <2>1, <2>3, SettledCounts
<1>7. Orderly(t) /\ Warmed(t)
  <2>1. t.slot.ready \in BOOLEAN /\ t.slot.backoff \in BOOLEAN
    BY <1>2, <1>3
  <2>2. t.slot.busy \notin Requests
    BY <1>2, NoneIsApart DEF Ids
  <2>3. role = "retrieval" => t.slot.ready = FALSE
    BY <1>3
  <2> QED BY <1>2, <2>1, <2>2, <2>3 DEF Orderly, Warmed
<1>8. NoWarmupWaits(s) => NoWarmupWaits(t)
  BY <1>2, <1>6 DEF NoWarmupWaits, rs
<1>9. s.slot.restarting = FALSE \/ s.slot.restarting = TRUE
  BY DEF Orderly
<1> QED BY <1>1, <1>6, <1>7, <1>8, <1>9 DEF Sound

\* Everything in hand is settled.
LEMMA EmptyingIsSound ==
    ASSUME NEW s, Counted(s), Orderly(s), NEW how \in Fates \ {"pending"},
           NEW t, t = Emptied(Settle(s, InHand(s.slot), how))
    PROVE  /\ Counted(t) /\ Orderly(t) /\ Pending(t) = {}
           /\ Warmed(s) => Warmed(t)
           /\ t.slot.restarting = s.slot.restarting
<1>1. InHand(s.slot) = Pending(s)
  <2>1. Waiting(s.slot) = Pending(s) \ {s.slot.busy}
    BY DEF Waiting, Entries, Lists, Counted
  <2>2. None \notin Pending(s)
    BY NoneIsApart DEF Pending
  <2> QED BY <2>1, <2>2 DEF InHand, Counted
<1>2. /\ Formed(t) /\ t.slot.stdin = s.slot.stdin /\ t.slot.busy = None /\ t.slot.queue = <<>>
      /\ t.slot.external = s.slot.external - Cardinality(Pending(s) \cap Requests)
      /\ t.fate = [x \in Ids |-> IF x \in Pending(s) THEN how ELSE s.fate[x]]
      /\ t.slot.hello = s.slot.hello /\ t.slot.restarting = s.slot.restarting
      /\ t.slot.ready = s.slot.ready /\ t.slot.child = s.slot.child
      /\ t.slot.backoff = s.slot.backoff
  BY <1>1 DEF Settle, Emptied, Counted, Formed, Fields
<1>3. Lists(<<>>, {})
  BY EmptySeq DEF Lists, Distinct, Entries
<1>4. Lists(t.slot.queue, (Pending(s) \ Pending(s)) \ {t.slot.busy})
  <2>1. (Pending(s) \ Pending(s)) \ {t.slot.busy} = {}
    OBVIOUS
  <2> QED BY <1>2, <1>3, <2>1
<1>5. Counted(t) /\ Pending(t) = Pending(s) \ Pending(s)
  <2>1. Counted(s) /\ t.slot.stdin \in Seq(Ids) /\ Pending(s) \in SUBSET Pending(s)
    BY <1>2 DEF Counted
  <2>2. TakenOut(s, t, Pending(s), how)
    BY <1>2, <1>4, <2>1 DEF TakenOut
  <2> QED BY <2>1, <2>2, SettledCounts
<1>6. Orderly(t) /\ (Warmed(s) => Warmed(t))
  BY <1>2, NoneIsApart DEF Orderly, Warmed, Ids
<1> QED BY <1>2, <1>5, <1>6

LEMMA LoseIsSound ==
    ASSUME NEW s, Counted(s), Orderly(s), Warmed(s) \/ s.slot.restarting = FALSE
    PROVE  Sound(Lose(s)) /\ NoWarmupWaits(Lose(s))
<1> DEFINE t == Emptied(Settle(s, InHand(s.slot), "lost"))
<1>1. Lose(s) = Restart(t)
  BY DEF Lose
<1>2. /\ Counted(t) /\ Orderly(t) /\ Pending(t) = {}
      /\ Warmed(t) \/ t.slot.restarting = FALSE
  BY EmptyingIsSound DEF Fates
<1>3. NoWarmupWaits(t)
  BY <1>2 DEF NoWarmupWaits
<1> HIDE DEF t
<1> QED BY <1>1, <1>2, <1>3, RestartIsSound

\* The head of the queue is written, or lost with the child, or left alone.  A warmup
\* at the head of an idle slot that has said hello does not stay there.
LEMMA ScheduleIsSound ==
    ASSUME NEW s, Sound(s), NEW ok \in BOOLEAN,
           \/ NoWarmupWaits(s)
           \/ /\ s.slot.hello = TRUE /\ s.slot.busy = None /\ s.slot.queue # <<>>
              /\ Pending(s) \cap Children = {Head(s.slot.queue)}
    PROVE  Sound(Schedule(s, ok)) /\ NoWarmupWaits(Schedule(s, ok))
<1> DEFINE next == Head(s.slot.queue)
           t == [s EXCEPT !.slot.queue = Tail(@)]
           u == Settle(t, {next}, "lost")
           w == [t EXCEPT !.slot.busy = next, !.slot.stdin = Append(@, next)]
           Blocked == \/ s.slot.busy # None \/ ~s.slot.hello \/ s.slot.queue = <<>>
                      \/ ~s.slot.ready /\ next \notin Children
<1>1. Schedule(s, ok) = IF Blocked THEN s ELSE IF ok THEN w ELSE Restart(u)
  BY DEF Schedule
<1>2. CASE Blocked
  <2>1. NoWarmupWaits(s)
    <3> SUFFICES ASSUME s.slot.hello = TRUE, s.slot.busy = None, s.slot.queue # <<>>,
                        Pending(s) \cap Children = {next}
                 PROVE  FALSE
      OBVIOUS
    <3> QED BY <1>2
  <2> QED BY <1>1, <1>2, <2>1
<1>3. CASE ~Blocked
  <2>1. s.slot.busy = None /\ s.slot.queue # <<>> /\ (s.slot.ready \/ next \in Children)
    BY <1>3
  <2>2. s.slot.hello = TRUE
    BY <1>3 DEF Sound, Orderly
  <2>3. Lists(s.slot.queue, Pending(s))
    <3>1. None \notin Pending(s)
      BY NoneIsApart DEF Pending
    <3>2. Pending(s) \ {s.slot.busy} = Pending(s)
      BY <2>1, <3>1
    <3> QED BY <3>2 DEF Sound, Counted
  <2>4. next \in Pending(s) /\ next \in Ids /\ Lists(Tail(s.slot.queue), Pending(s) \ {next})
    BY <2>1, <2>3, TailLists
  <2>5. next # None
    BY <2>4, NoneIsApart
  <2>6. Pending(s) \cap Children \subseteq {next}
    BY <2>1, PoolConstants DEF NoWarmupWaits, Ids
  <2> HIDE DEF next
  <2>7. /\ Formed(w) /\ w.slot.stdin = Append(s.slot.stdin, next) /\ w.slot.busy = next
        /\ w.slot.queue = Tail(s.slot.queue) /\ w.slot.external = s.slot.external
        /\ w.fate = s.fate /\ w.slot.hello = s.slot.hello
        /\ w.slot.restarting = s.slot.restarting
        /\ w.slot.ready = s.slot.ready /\ w.slot.child = s.slot.child
        /\ w.slot.backoff = s.slot.backoff
    BY DEF Sound, Counted, Formed, Fields
  <2>8. Pending(w) = Pending(s)
    BY <2>7 DEF Pending
  <2>9. Counted(w)
    <3>1. Append(s.slot.stdin, next) \in Seq(Ids)
      BY <2>4, AppendProperties DEF Sound, Counted
    <3>2. Lists(w.slot.queue, Pending(w) \ {w.slot.busy})
      BY <2>4, <2>7, <2>8
    <3>3. w.slot.busy \in Ids \cup {None} /\ w.slot.busy \in Pending(w)
      BY <2>4, <2>7, <2>8
    <3>4. w.slot.external = Cardinality(Pending(w) \cap Requests)
      BY <2>7, <2>8 DEF Sound, Counted
    <3> QED BY <2>7, <3>1, <3>2, <3>3, <3>4 DEF Sound, Counted
  <2>10. Orderly(w) /\ Warmed(w)
    <3>1. s.slot.ready = TRUE \/ next \in Children
      BY <2>1 DEF Sound, Orderly
    <3>2. next \in Children => next \notin Requests
      BY PoolConstants
    <3> QED BY <2>2, <2>7, <3>1, <3>2 DEF Sound, Orderly, Warmed
  <2>11. NoWarmupWaits(w)
    BY <2>6, <2>7, <2>8 DEF NoWarmupWaits
  <2>12. /\ Formed(u) /\ u.slot.stdin = s.slot.stdin /\ u.slot.busy = None
         /\ u.slot.queue = Tail(s.slot.queue)
         /\ u.slot.external = s.slot.external - Cardinality({next} \cap Requests)
         /\ u.fate = [x \in Ids |-> IF x \in {next} THEN "lost" ELSE s.fate[x]]
         /\ u.slot.hello = s.slot.hello /\ u.slot.restarting = s.slot.restarting
         /\ u.slot.ready = s.slot.ready /\ u.slot.child = s.slot.child
         /\ u.slot.backoff = s.slot.backoff
    BY <2>1 DEF Settle, Sound, Counted, Formed, Fields
  <2>13. Counted(u) /\ Pending(u) = Pending(s) \ {next}
    <3>1. {next} \in SUBSET Pending(s) /\ "lost" \in Fates \ {"pending"}
      BY <2>4 DEF Fates
    <3>2. (Pending(s) \ {next}) \ {None} = Pending(s) \ {next}
      BY NoneIsApart DEF Pending
    <3>3. Lists(u.slot.queue, (Pending(s) \ {next}) \ {u.slot.busy})
      BY <2>4, <2>12, <3>2
    <3>4. Counted(s) /\ u.slot.stdin \in Seq(Ids)
      BY <2>12 DEF Sound, Counted
    <3> HIDE DEF u
    <3>5. TakenOut(s, u, {next}, "lost")
      BY <2>12, <3>1, <3>3, <3>4 DEF TakenOut
    <3> QED BY <3>4, <3>5, SettledCounts
  <2>14. Orderly(u) /\ Warmed(u)
    BY <2>1, <2>12 DEF Sound, Orderly, Warmed
  <2>15. NoWarmupWaits(u)
    BY <2>6, <2>13 DEF NoWarmupWaits
  <2> HIDE DEF u, w
  <2>16. Sound(Restart(u)) /\ NoWarmupWaits(Restart(u))
    BY <2>13, <2>14, <2>15, RestartIsSound DEF Sound
  <2> QED BY <1>1, <1>3, <2>9, <2>10, <2>11, <2>16 DEF Sound
<1> QED BY <1>2, <1>3

-----------------------------------------------------------------------------
\* The actions.

\* A change that the account does not see.
LEMMA SameAccount ==
    ASSUME NEW s, Counted(s), Orderly(s), NEW t, Formed(t), t.fate = s.fate,
           t.slot.busy = s.slot.busy, t.slot.queue = s.slot.queue,
           t.slot.external = s.slot.external, t.slot.stdin \in Seq(Ids),
           t.slot.hello = s.slot.hello, t.slot.restarting = s.slot.restarting,
           t.slot.ready = s.slot.ready,
           t.slot.backoff \in BOOLEAN, t.slot.backoff = TRUE => s.slot.restarting = TRUE
    PROVE  /\ Counted(t) /\ Orderly(t) /\ Pending(t) = Pending(s)
           /\ NoWarmupWaits(s) => NoWarmupWaits(t)
<1>1. Pending(t) = Pending(s)
  BY DEF Pending
<1>2. Counted(t)
  BY <1>1 DEF Counted
<1>3. Orderly(t)
  BY DEF Orderly
<1> QED BY <1>1, <1>2, <1>3 DEF NoWarmupWaits

LEMMA NowIsFormed ==
    ASSUME PoolInv
    PROVE  /\ Formed(Now) /\ Now.slot = slot /\ Now.fate = fate
           /\ Counted(Now) /\ Orderly(Now) /\ Warmed(Now) /\ NoWarmupWaits(Now)
BY DEF PoolInv, Sound, Counted, Now

\* What the callbacks compute becomes the slot and the fates.
LEMMA BecomesSound ==
    ASSUME NEW t, Sound(t), NoWarmupWaits(t), Become(t), UNCHANGED role, warm \subseteq warm',
           WarmIsTold'
    PROVE  PoolInv'
<1>1. Now'.slot = t.slot /\ Now'.fate = t.fate /\ DOMAIN Now' = {"slot", "fate"}
  BY DEF Become, Now
<1>2. Counted(Now)'
  BY <1>1 DEF Sound, Counted, Formed, Pending
<1>3. Orderly(Now)' /\ Warmed(Now)'
  BY <1>1 DEF Sound, Orderly, Warmed
<1>4. NoWarmupWaits(Now)'
  BY <1>1 DEF NoWarmupWaits, Pending
<1> QED BY <1>2, <1>3, <1>4 DEF PoolInv, Sound

LEMMA ToldStays ==
    ASSUME PoolInv, UNCHANGED <<out, warm>>
    PROVE  WarmIsTold'
BY DEF PoolInv, WarmIsTold

LEMMA ReceivedTold ==
    ASSUME PoolInv, NEW c \in Children, Receive(c), UNCHANGED warm
    PROVE  WarmIsTold' /\ out[c] # <<>> /\ Head(out[c]) = out[c][1] /\ 1 \in DOMAIN out[c]
<1>1. out[c] \in Seq(Frames) /\ out[c] # <<>> /\ out \in [Children -> Seq(Frames)]
  BY DEF PoolInv, WarmIsTold, Receive
<1>2. PICK t \in Seq(Frames) : t = Tail(out[c])
  BY <1>1, HeadTailProperties
<1>3. PICK n \in Nat : n = Len(out[c])
  BY <1>1, LenProperties
<1>4. /\ DOMAIN out[c] = 1..n /\ n # 0 /\ DOMAIN t = 1..n - 1
      /\ \A i \in 1..n - 1 : t[i] = out[c][i + 1]
  BY <1>1, <1>2, <1>3, LenProperties, EmptySeq, HeadTailProperties
<1>5. out' = [out EXCEPT ![c] = t]
  BY <1>2 DEF Receive
<1>6. \A i \in 1..n - 1 : i + 1 \in 1..n
  OBVIOUS
<1>7. WarmIsTold'
  BY <1>1, <1>4, <1>5, <1>6 DEF PoolInv, WarmIsTold
<1>8. Head(out[c]) = out[c][1]
  <2>1. 1 \in 1..n /\ n \in 1..n
    BY <1>4
  <2>2. Head(SubSeq(out[c], 1, n)) = out[c][1]
    BY <1>1, <1>3, <2>1, HeadTailOfSubSeq
  <2> QED BY <1>1, <1>3, <2>2, SubSeqFull
<1> QED BY <1>1, <1>4, <1>7, <1>8

LEMMA SaidTold ==
    ASSUME PoolInv, NEW c \in Children, NEW frame \in Frames, Say(c, frame), warm \subseteq warm',
           frame.kind = "result" /\ frame.id \in Children /\ frame.ok = TRUE => c \in warm'
    PROVE  WarmIsTold'
<1>1. out[c] \in Seq(Frames) /\ out \in [Children -> Seq(Frames)]
  BY DEF PoolInv, WarmIsTold
<1>2. PICK a \in Seq(Frames) : a = Append(out[c], frame)
  BY <1>1, AppendProperties
<1>3. PICK n \in Nat : n = Len(out[c])
  BY <1>1, LenProperties
<1>4. /\ DOMAIN out[c] = 1..n /\ DOMAIN a = 1..n + 1
      /\ \A i \in 1..n : a[i] = out[c][i]
      /\ a[n + 1] = frame
  BY <1>1, <1>2, <1>3, LenProperties, AppendProperties
<1>5. out' = [out EXCEPT ![c] = a]
  BY <1>2 DEF Say
<1>6. \A i \in 1..n + 1 : i \in 1..n \/ i = n + 1
  OBVIOUS
<1> QED BY <1>1, <1>4, <1>5, <1>6 DEF PoolInv, WarmIsTold

LEMMA AskSound ==
    ASSUME PoolInv, NEW r \in Requests, Ask(r)
    PROVE  PoolInv'
<1>1. WarmIsTold' /\ UNCHANGED <<role, warm>>
  BY ToldStays DEF Ask, outside
<1>2. r \in Ids /\ r \notin Children /\ r # None /\ fate[r] = "none" /\ r \notin Pending(Now)
  BY PoolConstants, NoneIsApart, NowIsFormed DEF Ask, Ids, Pending
<1>3. ASSUME NEW how \in {"rejected", "full"}, Become([Now EXCEPT !.fate[r] = how])
      PROVE  PoolInv'
  <2> DEFINE t == [Now EXCEPT !.fate[r] = how]
  <2>1. Formed(t) /\ t.slot = slot /\ t.fate = [fate EXCEPT ![r] = how]
    BY NowIsFormed DEF Formed
  <2> HIDE DEF t
  <2>2. t.fate \in [Ids -> Fates] /\ Pending(t) = Pending(Now)
    BY <1>2, <2>1, NowIsFormed DEF Counted, Pending, Fates
  <2>3. Counted(t) /\ Orderly(t) /\ Warmed(t) /\ NoWarmupWaits(t)
    BY <2>1, <2>2, NowIsFormed DEF Counted, Orderly, Warmed, NoWarmupWaits
  <2> QED BY <1>1, <1>3, <2>3, BecomesSound DEF Sound, t
<1>4. ASSUME NEW ok \in Writable,
             Become(Schedule([Now EXCEPT !.fate[r] = "pending",
                                         !.slot.external = @ + 1,
                                         !.slot.queue = Append(@, r)], ok))
      PROVE  PoolInv'
  <2> DEFINE s == [Now EXCEPT !.fate[r] = "pending", !.slot.external = @ + 1,
                              !.slot.queue = Append(@, r)]
  <2>1. /\ Formed(s) /\ s.fate = [fate EXCEPT ![r] = "pending"]
        /\ s.slot.external = slot.external + 1 /\ s.slot.queue = Append(slot.queue, r)
        /\ s.slot.busy = slot.busy /\ s.slot.stdin = slot.stdin /\ s.slot.hello = slot.hello
        /\ s.slot.ready = slot.ready /\ s.slot.restarting = slot.restarting
        /\ s.slot.backoff = slot.backoff /\ s.slot.child = slot.child
    BY NowIsFormed DEF Formed, Fields
  <2>2. PICK u : u = s
    OBVIOUS
  <2>3. Become(Schedule(u, ok))
    BY <1>4, <2>2
  <2> HIDE DEF s
  <2>4. u.fate \in [Ids -> Fates] /\ Pending(u) = Pending(Now) \cup {r}
    BY <1>2, <2>1, <2>2, NowIsFormed DEF Counted, Pending, Fates
  <2>5. slot.busy # r
    BY <1>2, NowIsFormed DEF Counted
  <2>6. Lists(u.slot.queue, Pending(u) \ {u.slot.busy})
    <3>1. Lists(slot.queue, Pending(Now) \ {slot.busy})
      BY NowIsFormed DEF Counted
    <3>2. Lists(Append(slot.queue, r), (Pending(Now) \ {slot.busy}) \cup {r})
      BY <1>2, <3>1, AppendLists
    <3>3. (Pending(Now) \ {slot.busy}) \cup {r} = Pending(u) \ {slot.busy}
      BY <2>4, <2>5
    <3> QED BY <2>1, <2>2, <3>2, <3>3
  <2>7. u.slot.external = Cardinality(Pending(u) \cap Requests)
    <3>1. IsFiniteSet(Pending(Now) \cap Requests)
      BY PendingIsFinite, NowIsFormed
    <3>2. Cardinality((Pending(Now) \cap Requests) \cup {r}) = Cardinality(Pending(Now) \cap Requests) + 1
      BY <1>2, <3>1, FS_AddElement
    <3>3. (Pending(Now) \cap Requests) \cup {r} = Pending(u) \cap Requests
      BY <2>4
    <3> QED BY <2>1, <2>2, <3>2, <3>3, NowIsFormed DEF Counted
  <2>8. Counted(u)
    BY <2>1, <2>2, <2>4, <2>6, <2>7, NowIsFormed DEF Counted
  <2>9. Orderly(u) /\ Warmed(u)
    BY <2>1, <2>2, NowIsFormed DEF Orderly, Warmed
  <2>10. NoWarmupWaits(u)
    BY <1>2, <2>1, <2>2, <2>4, NowIsFormed DEF NoWarmupWaits
  <2>11. ok \in BOOLEAN
    BY DEF Writable
  <2>12. Sound(Schedule(u, ok)) /\ NoWarmupWaits(Schedule(u, ok))
    BY <2>8, <2>9, <2>10, <2>11, ScheduleIsSound DEF Sound
  <2> QED BY <1>1, <2>3, <2>12, BecomesSound
<1> QED BY <1>3, <1>4 DEF Ask

LEMMA LeavingKeeps ==
    ASSUME PoolInv, NEW r \in Ids, fate[r] = "pending", NEW how \in {"timeout", "aborted"},
           LET s == Settle(Leaves(Now, r), {r}, how) IN
             Become(IF slot.busy = r THEN Restart(s) ELSE s),
           UNCHANGED <<role, out, warm>>
    PROVE  PoolInv'
<1> DEFINE s == Settle(Leaves(Now, r), {r}, how)
<1>1. Become(s) \/ Become(Restart(s))
  OBVIOUS
<1>2. r \in Pending(Now) /\ how \in Fates \ {"pending"}
  BY NowIsFormed DEF Pending, Fates
<1>3. PICK t : t = s
  OBVIOUS
<1>4. /\ Sound(t) /\ Pending(t) = Pending(Now) \ {r}
      /\ t.slot.busy = IF slot.busy = r THEN None ELSE slot.busy
  <2>1. Sound(Now) /\ Now.slot = slot
    BY NowIsFormed DEF Sound
  <2>2. t = Settle(Leaves(Now, r), {r}, how)
    BY <1>3
  <2>3. /\ Sound(t) /\ Pending(t) = Pending(Now) \ {r}
        /\ t.slot.busy = IF Now.slot.busy = r THEN None ELSE Now.slot.busy
    BY <1>2, <2>1, <2>2, LeavingIsSound
  <2> QED BY <2>1, <2>3
<1>5. NoWarmupWaits(t)
  BY <1>4, NowIsFormed DEF NoWarmupWaits
<1>6. Sound(Restart(t)) /\ NoWarmupWaits(Restart(t))
  BY <1>4, <1>5, RestartIsSound DEF Sound
<1>7. Become(t) \/ Become(Restart(t))
  BY <1>1, <1>3
<1> QED BY <1>4, <1>5, <1>6, <1>7, ToldStays, BecomesSound

LEMMA HelloSound ==
    ASSUME PoolInv, NEW c \in Children, Hello(c)
    PROVE  PoolInv'
<1> DEFINE s == [Now EXCEPT !.slot.hello = TRUE, !.slot.handshake = None]
           a == [s EXCEPT !.slot.ready = TRUE]
           b == [s EXCEPT !.fate[c] = "pending", !.slot.queue = <<c>> \o @]
<1>1. WarmIsTold' /\ UNCHANGED <<role, warm>>
  BY ReceivedTold DEF Hello
<1>2. slot.hello = FALSE /\ slot.busy = None /\ slot.restarting = FALSE
  BY NowIsFormed DEF Hello, Attends, Orderly
<1>3. /\ Formed(s) /\ s.fate = fate /\ s.slot.queue = slot.queue
      /\ s.slot.external = slot.external /\ s.slot.busy = slot.busy /\ s.slot.stdin = slot.stdin
      /\ s.slot.hello = TRUE /\ s.slot.ready = slot.ready /\ s.slot.restarting = slot.restarting
      /\ s.slot.backoff = slot.backoff /\ s.slot.child = slot.child
  BY NowIsFormed DEF Formed, Fields
<1>4. PICK ok \in Writable : Become(Schedule(IF role = "control" THEN a ELSE b, ok))
  BY DEF Hello
<1>5. ok \in BOOLEAN
  BY DEF Writable
<1>6. CASE role = "control"
  <2>1. PICK u : u = a
    OBVIOUS
  <2>2. /\ Formed(u) /\ u.fate = fate /\ u.slot.queue = slot.queue
        /\ u.slot.external = slot.external /\ u.slot.busy = slot.busy /\ u.slot.stdin = slot.stdin
        /\ u.slot.hello = TRUE /\ u.slot.ready = TRUE /\ u.slot.restarting = slot.restarting
        /\ u.slot.backoff = slot.backoff
    <3> HIDE DEF s
    <3> QED BY <1>3, <2>1 DEF Formed, Fields
  <2>3. Become(Schedule(u, ok))
    BY <1>4, <1>6, <2>1
  <2> HIDE DEF a
  <2>4. Pending(u) = Pending(Now)
    BY <2>2, NowIsFormed DEF Pending
  <2>5. Counted(u) /\ Orderly(u) /\ Warmed(u) /\ NoWarmupWaits(u)
    BY <1>2, <1>6, <2>2, <2>4, NowIsFormed DEF Counted, Orderly, Warmed, NoWarmupWaits
  <2>6. Sound(Schedule(u, ok)) /\ NoWarmupWaits(Schedule(u, ok))
    BY <1>5, <2>5, ScheduleIsSound DEF Sound
  <2> QED BY <1>1, <2>3, <2>6, BecomesSound
<1>7. CASE role # "control"
  <2>1. PICK u : u = b
    OBVIOUS
  <2>2. /\ Formed(u) /\ u.fate = [fate EXCEPT ![c] = "pending"] /\ u.slot.queue = <<c>> \o slot.queue
        /\ u.slot.external = slot.external /\ u.slot.busy = slot.busy /\ u.slot.stdin = slot.stdin
        /\ u.slot.hello = TRUE /\ u.slot.ready = slot.ready /\ u.slot.restarting = slot.restarting
        /\ u.slot.backoff = slot.backoff /\ u.slot.child = slot.child
    <3> HIDE DEF s
    <3> QED BY <1>3, <2>1 DEF Formed, Fields
  <2>3. Become(Schedule(u, ok))
    BY <1>4, <1>7, <2>1
  <2> HIDE DEF b
  <2>4. c \in Ids /\ c \notin Requests /\ c # None
    BY PoolConstants DEF Ids
  <2>5. Pending(Now) \cap Children = {}
    BY <1>2, NoneIsApart, NowIsFormed DEF NoWarmupWaits, Ids
  <2>6. u.fate \in [Ids -> Fates] /\ Pending(u) = Pending(Now) \cup {c} /\ c \notin Pending(Now)
    BY <2>2, <2>4, <2>5, NowIsFormed DEF Counted, Pending, Fates
  <2>7. /\ Lists(u.slot.queue, Pending(u) \ {u.slot.busy})
        /\ Head(u.slot.queue) = c
    <3>1. Lists(slot.queue, Pending(Now) \ {slot.busy}) /\ c \in Ids \ (Pending(Now) \ {slot.busy})
      BY <2>4, <2>6, NowIsFormed DEF Counted
    <3>2. /\ Lists(<<c>> \o slot.queue, (Pending(Now) \ {slot.busy}) \cup {c})
          /\ Head(<<c>> \o slot.queue) = c
      BY <3>1, FrontLists
    <3>3. (Pending(Now) \ {slot.busy}) \cup {c} = Pending(u) \ {slot.busy}
      BY <1>2, <2>4, <2>6
    <3> QED BY <2>2, <3>2, <3>3
  <2>8. u.slot.queue # <<>>
    <3>1. c \in Entries(u.slot.queue)
      BY <1>2, <2>2, <2>4, <2>6, <2>7 DEF Lists
    <3> QED BY <3>1 DEF Entries
  <2>9. u.slot.external = Cardinality(Pending(u) \cap Requests)
    <3>1. Pending(u) \cap Requests = Pending(Now) \cap Requests
      BY <2>4, <2>6
    <3> QED BY <2>2, <3>1, NowIsFormed DEF Counted
  <2>10. Counted(u)
    BY <1>2, <2>2, <2>6, <2>7, <2>9, NowIsFormed DEF Counted
  <2>11. Orderly(u) /\ Warmed(u)
    BY <1>2, <2>2, NowIsFormed DEF Orderly, Warmed
  <2>12. Pending(u) \cap Children = {Head(u.slot.queue)}
    BY <2>5, <2>6, <2>7
  <2>13. Sound(Schedule(u, ok)) /\ NoWarmupWaits(Schedule(u, ok))
    BY <1>2, <1>5, <2>2, <2>8, <2>10, <2>11, <2>12, ScheduleIsSound DEF Sound
  <2> QED BY <1>1, <2>3, <2>13, BecomesSound
<1> QED BY <1>6, <1>7

LEMMA AnswerSound ==
    ASSUME PoolInv, NEW c \in Children, Answer(c)
    PROVE  PoolInv'
<1> DEFINE warmup == slot.busy \in Children
           good == Head(out[c]).ok
           s == Settle(Leaves(Now, slot.busy), {slot.busy}, "answered")
           w == [s EXCEPT !.slot.ready = @ \/ (warmup /\ good)]
<1>1. /\ WarmIsTold' /\ UNCHANGED <<role, warm>>
      /\ Head(out[c]) = out[c][1] /\ 1 \in DOMAIN out[c]
  BY ReceivedTold DEF Answer
<1>2. slot.child = c /\ slot.restarting = FALSE
  BY NowIsFormed DEF Answer, Attends, Orderly
<1>3. Head(out[c]).kind = "result" /\ Head(out[c]).id = slot.busy /\ slot.hello = TRUE
  BY NowIsFormed DEF Answer, Answers, Orderly
<1>4. Head(out[c]) \in Frames
  <2>1. out[c] \in Seq(Frames)
    BY DEF PoolInv, WarmIsTold
  <2> QED BY <1>1, <2>1, LenProperties
<1>5. good \in BOOLEAN /\ slot.busy \in Ids
  BY <1>3, <1>4 DEF Frames
<1>6. slot.busy \in Pending(Now) /\ "answered" \in Fates \ {"pending"}
  BY <1>5, NoneIsApart, NowIsFormed DEF Counted, Fates
<1>7. warmup /\ good => c \in warm
  BY <1>1, <1>3 DEF PoolInv, WarmIsTold
<1>8. PICK t : t = s
  OBVIOUS
<1>9. /\ Sound(t) /\ Pending(t) = Pending(Now) \ {slot.busy} /\ t.slot.busy = None
      /\ t.slot.hello = TRUE /\ t.slot.child = c
  <2>1. /\ Sound(t) /\ Pending(t) = Pending(Now) \ {slot.busy}
        /\ t.slot.busy = IF slot.busy = slot.busy THEN None ELSE slot.busy
        /\ t.slot.hello = slot.hello /\ t.slot.child = slot.child
    BY <1>6, <1>8, LeavingIsSound, NowIsFormed DEF Sound
  <2> QED BY <1>2, <1>3, <2>1
<1>10. PICK u : u = [t EXCEPT !.slot.ready = @ \/ (warmup /\ good)]
  OBVIOUS
<1>11. PICK ok \in Writable : \/ Become(Schedule(u, ok))
                              \/ Become(Restart(Schedule(u, ok)))
  BY <1>8, <1>10 DEF Answer
<1> HIDE DEF s, w
<1>12. /\ Formed(u) /\ u.fate = t.fate /\ u.slot.queue = t.slot.queue
       /\ u.slot.external = t.slot.external /\ u.slot.busy = None /\ u.slot.stdin = t.slot.stdin
       /\ u.slot.hello = TRUE /\ u.slot.restarting = t.slot.restarting
       /\ u.slot.backoff = t.slot.backoff /\ u.slot.child = c
  BY <1>9, <1>10 DEF Sound, Counted, Formed, Fields
<1>13. u.slot.ready = (t.slot.ready \/ (warmup /\ good))
  BY <1>9, <1>10 DEF Sound, Counted, Formed, Fields
<1>14. u.slot.ready \in BOOLEAN /\ (u.slot.ready = TRUE => t.slot.ready = TRUE \/ (warmup /\ good))
  <2>1. t.slot.ready = TRUE \/ t.slot.ready = FALSE
    BY <1>9 DEF Sound, Orderly
  <2> HIDE DEF warmup, good
  <2>2. (warmup /\ good) = TRUE \/ (warmup /\ good) = FALSE
    OBVIOUS
  <2> QED BY <1>13, <2>1, <2>2
<1>15. Pending(u) = Pending(t)
  BY <1>12 DEF Pending
<1>16. Counted(u)
  BY <1>9, <1>12, <1>15 DEF Sound, Counted
<1>17. Orderly(u)
  BY <1>9, <1>12, <1>14 DEF Sound, Orderly
<1>18. Warmed(u)
  BY <1>7, <1>9, <1>12, <1>14, NoneIsApart DEF Sound, Warmed, Ids
<1>19. NoWarmupWaits(u)
  BY <1>9, <1>15, NowIsFormed DEF NoWarmupWaits
<1>20. ok \in BOOLEAN
  BY DEF Writable
<1>21. Sound(Schedule(u, ok)) /\ NoWarmupWaits(Schedule(u, ok))
  BY <1>16, <1>17, <1>18, <1>19, <1>20, ScheduleIsSound DEF Sound
<1>22. Sound(Restart(Schedule(u, ok))) /\ NoWarmupWaits(Restart(Schedule(u, ok)))
  BY <1>21, RestartIsSound DEF Sound
<1> QED BY <1>1, <1>11, <1>21, <1>22, BecomesSound

LEMMA StartSound ==
    ASSUME PoolInv, Start \/ StartFails
    PROVE  PoolInv'
<1>1. CASE Start
  <2>1. slot.backoff = TRUE /\ slot.busy = None
    BY <1>1, NowIsFormed DEF Start, Orderly
  <2>2. /\ DOMAIN slot' = Fields /\ slot'.busy = slot.busy /\ slot'.queue = slot.queue
        /\ slot'.external = slot.external /\ slot'.stdin = <<>> /\ slot'.hello = FALSE
        /\ slot'.restarting = FALSE /\ slot'.backoff = FALSE /\ slot'.ready = (role = "control")
    BY <1>1, NowIsFormed DEF Start, Formed, Fields
  <2>3. fate' = fate /\ role' = role /\ warm' = warm /\ WarmIsTold'
    BY <1>1, ToldStays DEF Start
  <2>4. Now'.slot = slot' /\ Now'.fate = fate /\ DOMAIN Now' = {"slot", "fate"}
    BY <2>3 DEF Now
  <2>5. Pending(Now)' = Pending(Now)
    BY <2>4, NowIsFormed DEF Pending
  <2>6. Counted(Now)'
    BY <2>2, <2>4, <2>5, NowIsFormed, EmptySeq DEF Counted, Formed
  <2>7. Orderly(Now)' /\ Warmed(Now)'
    BY <2>1, <2>2, <2>3, <2>4, NoneIsApart DEF Orderly, Warmed, Ids
  <2>8. NoWarmupWaits(Now)'
    BY <2>2, <2>4, <2>5, NowIsFormed DEF NoWarmupWaits
  <2> QED BY <2>3, <2>6, <2>7, <2>8 DEF PoolInv, Sound
<1>2. CASE StartFails
  <2> DEFINE s == [Now EXCEPT !.slot.restarting = FALSE, !.slot.backoff = FALSE]
  <2>1. slot.backoff = TRUE /\ slot.restarting = TRUE /\ slot.busy = None /\ slot.hello = FALSE
    BY <1>2, NowIsFormed DEF StartFails, Orderly
  <2>2. PICK u : u = s
    OBVIOUS
  <2>3. /\ Formed(u) /\ u.fate = fate /\ u.slot.queue = slot.queue
        /\ u.slot.external = slot.external /\ u.slot.busy = slot.busy /\ u.slot.stdin = slot.stdin
        /\ u.slot.hello = slot.hello /\ u.slot.restarting = FALSE
        /\ u.slot.backoff = FALSE /\ u.slot.child = slot.child /\ u.slot.ready = slot.ready
    BY <2>2, NowIsFormed DEF Formed, Fields
  <2>4. Become(Restart(u)) /\ UNCHANGED <<role, out, warm>>
    BY <1>2, <2>2 DEF StartFails, outside
  <2> HIDE DEF s
  <2>5. Pending(u) = Pending(Now)
    BY <2>3, NowIsFormed DEF Pending
  <2>6. Counted(u) /\ Orderly(u) /\ NoWarmupWaits(u)
    BY <2>1, <2>3, <2>5, NowIsFormed DEF Counted, Orderly, NoWarmupWaits
  <2>7. Sound(Restart(u)) /\ NoWarmupWaits(Restart(u))
    BY <2>3, <2>6, RestartIsSound
  <2> QED BY <2>4, <2>7, ToldStays, BecomesSound
<1> QED BY <1>1, <1>2

LEMMA LosingSound ==
    ASSUME PoolInv,
           HandshakeTimeout \/ \E c \in Children : StreamError(c) \/ WriteFails(c)
    PROVE  PoolInv'
<1>1. Sound(Lose(Now)) /\ NoWarmupWaits(Lose(Now))
  BY NowIsFormed, LoseIsSound
<1>2. CASE HandshakeTimeout
  <2>1. PICK u : u = [Now EXCEPT !.slot.handshake = None]
    OBVIOUS
  <2>2. /\ Formed(u) /\ u.fate = fate /\ u.slot.queue = slot.queue
        /\ u.slot.external = slot.external /\ u.slot.busy = slot.busy /\ u.slot.stdin = slot.stdin
        /\ u.slot.hello = slot.hello /\ u.slot.restarting = slot.restarting
        /\ u.slot.backoff = slot.backoff /\ u.slot.child = slot.child /\ u.slot.ready = slot.ready
    BY <2>1, NowIsFormed DEF Formed, Fields
  <2>3. (Become(u) \/ Become(Lose(u))) /\ UNCHANGED <<role, out, warm>>
    BY <1>2, <2>1 DEF HandshakeTimeout, outside
  <2>4. Pending(u) = Pending(Now)
    BY <2>2, NowIsFormed DEF Pending
  <2>5. Counted(u) /\ Orderly(u) /\ Warmed(u) /\ NoWarmupWaits(u)
    BY <2>2, <2>4, NowIsFormed DEF Counted, Orderly, Warmed, NoWarmupWaits
  <2>6. Sound(Lose(u)) /\ NoWarmupWaits(Lose(u))
    BY <2>5, LoseIsSound
  <2> QED BY <2>3, <2>5, <2>6, ToldStays, BecomesSound DEF Sound
<1>3. ASSUME NEW c \in Children, StreamError(c) PROVE PoolInv'
  BY <1>1, <1>3, ToldStays, BecomesSound DEF StreamError, outside
<1>4. ASSUME NEW c \in Children, WriteFails(c) PROVE PoolInv'
  <2>1. PICK u : u = [Now EXCEPT !.slot.stdin = <<>>]
    OBVIOUS
  <2>2. /\ Formed(u) /\ u.fate = fate /\ u.slot.queue = slot.queue
        /\ u.slot.external = slot.external /\ u.slot.busy = slot.busy /\ u.slot.stdin = <<>>
        /\ u.slot.hello = slot.hello /\ u.slot.restarting = slot.restarting
        /\ u.slot.backoff = slot.backoff /\ u.slot.child = slot.child /\ u.slot.ready = slot.ready
    BY <2>1, NowIsFormed DEF Formed, Fields
  <2>3. Become(Lose(u)) /\ UNCHANGED <<role, out, warm>>
    BY <1>4, <2>1 DEF WriteFails, outside
  <2>4. Pending(u) = Pending(Now)
    BY <2>2, NowIsFormed DEF Pending
  <2>5. Counted(u) /\ Orderly(u) /\ Warmed(u)
    BY <2>2, <2>4, EmptySeq, NowIsFormed DEF Counted, Orderly, Warmed
  <2>6. Sound(Lose(u)) /\ NoWarmupWaits(Lose(u))
    BY <2>5, LoseIsSound
  <2> QED BY <2>3, <2>6, ToldStays, BecomesSound
<1> QED BY <1>2, <1>3, <1>4

\* The child that closes leaves the slot without one, which a restart that is on has
\* provided for, and which any other state loses all its work by.
LEMMA CloseSound ==
    ASSUME PoolInv, NEW c \in Children, Close(c)
    PROVE  PoolInv'
<1> DEFINE s == [Now EXCEPT !.slot.handshake = None, !.slot.child = None, !.slot.stdin = <<>>]
<1>1. UNCHANGED <<role, out, warm>> /\ WarmIsTold'
  BY ToldStays DEF Close
<1>2. PICK u : u = s
  OBVIOUS
<1>3. /\ Formed(u) /\ u.fate = fate /\ u.slot.queue = slot.queue
      /\ u.slot.external = slot.external /\ u.slot.busy = slot.busy /\ u.slot.stdin = <<>>
      /\ u.slot.hello = slot.hello /\ u.slot.restarting = slot.restarting
      /\ u.slot.backoff = slot.backoff /\ u.slot.ready = slot.ready
  BY <1>2, NowIsFormed DEF Formed, Fields
<1>4. PICK t : t = [u EXCEPT !.slot.backoff = TRUE]
  OBVIOUS
<1>5. \/ slot.restarting /\ Become(t)
      \/ ~slot.restarting /\ Become(Lose(u))
      \/ UNCHANGED <<slot, fate>>
  BY <1>2, <1>4 DEF Close
<1> HIDE DEF s
<1>6. /\ Formed(t) /\ t.fate = fate /\ t.slot.queue = slot.queue
      /\ t.slot.external = slot.external /\ t.slot.busy = slot.busy /\ t.slot.stdin = <<>>
      /\ t.slot.hello = slot.hello /\ t.slot.restarting = slot.restarting
      /\ t.slot.backoff = TRUE /\ t.slot.ready = slot.ready
  BY <1>3, <1>4 DEF Formed, Fields
<1>7. Pending(u) = Pending(Now) /\ Pending(t) = Pending(Now)
  BY <1>3, <1>6, NowIsFormed DEF Pending
<1>8. CASE slot.restarting /\ Become(t)
  <2>1. slot.restarting = TRUE
    BY <1>8, NowIsFormed DEF Orderly
  <2>2. Counted(t) /\ NoWarmupWaits(t)
    BY <1>6, <1>7, EmptySeq, NowIsFormed DEF Counted, NoWarmupWaits
  <2>3. Orderly(t)
    BY <1>6, <2>1, NowIsFormed DEF Orderly
  <2>4. Warmed(t)
    BY <1>6, <2>1, NoneIsApart, NowIsFormed DEF Warmed, Orderly, Ids
  <2> QED BY <1>1, <1>8, <2>2, <2>3, <2>4, BecomesSound DEF Sound
<1>9. CASE ~slot.restarting /\ Become(Lose(u))
  <2>1. u.slot.restarting = FALSE
    BY <1>3, <1>9, NowIsFormed DEF Orderly
  <2>2. Counted(u) /\ Orderly(u)
    BY <1>3, <1>7, EmptySeq, NowIsFormed DEF Counted, Orderly
  <2>3. Sound(Lose(u)) /\ NoWarmupWaits(Lose(u))
    BY <2>1, <2>2, LoseIsSound
  <2> QED BY <1>1, <1>9, <2>3, BecomesSound
<1>10. CASE UNCHANGED <<slot, fate>>
  <2>1. Become(Now)
    BY <1>10 DEF Become, Now
  <2> QED BY <1>1, <2>1, NowIsFormed, BecomesSound DEF Sound
<1> QED BY <1>5, <1>8, <1>9, <1>10

LEMMA ChildSound ==
    ASSUME PoolInv, NEW c \in Children,
           Ignore(c) \/ SayHello(c) \/ Babble(c) \/ Exit(c) \/ \E good \in BOOLEAN : Serve(c, good)
    PROVE  PoolInv'
<1>1. ASSUME UNCHANGED <<role, slot, fate, warm>>, WarmIsTold' PROVE PoolInv'
  <2>1. Become(Now)
    BY <1>1 DEF Become, Now
  <2> QED BY <1>1, <2>1, NowIsFormed, BecomesSound DEF Sound
<1>2. CASE Ignore(c)
  BY <1>1, <1>2, ReceivedTold DEF Ignore
<1>3. CASE SayHello(c)
  <2>1. [kind |-> "hello"] \in Frames /\ [kind |-> "hello"].kind # "result"
    BY DEF Frames
  <2>2. WarmIsTold'
    BY <1>3, <2>1, SaidTold DEF SayHello
  <2> QED BY <1>1, <1>3, <2>2 DEF SayHello
<1>4. CASE Babble(c)
  <2>1. [kind |-> "junk"] \in Frames /\ [kind |-> "junk"].kind # "result"
    BY DEF Frames
  <2>2. WarmIsTold'
    BY <1>4, <2>1, SaidTold DEF Babble
  <2> QED BY <1>1, <1>4, <2>2 DEF Babble
<1>5. CASE Exit(c)
  BY <1>1, <1>5, ToldStays DEF Exit
<1>6. ASSUME NEW good \in BOOLEAN, Serve(c, good) PROVE PoolInv'
  <2> DEFINE r == Head(slot.stdin)
             frame == [kind |-> "result", id |-> r, ok |-> good]
  <2>1. slot.stdin \in Seq(Ids) /\ slot.stdin # <<>>
    BY <1>6, NowIsFormed DEF Serve, Counted
  <2>2. r \in Ids /\ Tail(slot.stdin) \in Seq(Ids)
    BY <2>1, HeadTailProperties
  <2>3. /\ UNCHANGED <<role, fate>> /\ Say(c, frame)
        /\ slot' = [slot EXCEPT !.stdin = Tail(@)]
        /\ warm' = IF good /\ r \in Children THEN warm \cup {c} ELSE warm
    BY <1>6 DEF Serve
  <2> HIDE DEF r
  <2>4. frame \in Frames /\ frame.id = r /\ frame.ok = good
    BY <2>2 DEF Frames
  <2> HIDE DEF frame
  <2>5. WarmIsTold'
    BY <2>3, <2>4, SaidTold
  <2>6. PICK t : t = [slot |-> [slot EXCEPT !.stdin = Tail(@)], fate |-> fate]
    OBVIOUS
  <2>7. /\ Formed(t) /\ t.fate = fate /\ t.slot.queue = slot.queue
        /\ t.slot.external = slot.external /\ t.slot.busy = slot.busy
        /\ t.slot.stdin = Tail(slot.stdin)
        /\ t.slot.hello = slot.hello /\ t.slot.restarting = slot.restarting
        /\ t.slot.backoff = slot.backoff /\ t.slot.ready = slot.ready /\ t.slot.child = slot.child
    BY <2>6, NowIsFormed DEF Formed, Fields
  <2>8. Become(t)
    BY <2>3, <2>6 DEF Become
  <2>9. Pending(t) = Pending(Now)
    BY <2>7, NowIsFormed DEF Pending
  <2>10. Counted(t) /\ Orderly(t) /\ Warmed(t) /\ NoWarmupWaits(t)
    BY <2>2, <2>7, <2>9, NowIsFormed DEF Counted, Orderly, Warmed, NoWarmupWaits
  <2> QED BY <2>3, <2>5, <2>8, <2>10, BecomesSound DEF Sound
<1> QED BY <1>2, <1>3, <1>4, <1>5, <1>6

LEMMA EndingSound ==
    ASSUME PoolInv, Dispose \/ DisposeKills \/ DisposeStopsWaiting \/ KillTimer \/ UNCHANGED vars
    PROVE  PoolInv'
<1>1. UNCHANGED <<role, out, warm>> /\ WarmIsTold'
  BY ToldStays DEF Dispose, DisposeKills, DisposeStopsWaiting, KillTimer, outside, vars
<1>2. CASE Dispose
  <2>1. PICK s : s = Emptied(Settle(Now, InHand(slot), "rejected"))
    OBVIOUS
  <2>2. PICK t : t = [s EXCEPT !.slot.handshake = None, !.slot.backoff = FALSE,
                         !.slot.signal = IF slot.child = None \/ @ = "kill" THEN @ ELSE "term"]
    OBVIOUS
  <2>3. Become(t)
    BY <1>2, <2>1, <2>2 DEF Dispose
  <2>4. Counted(s) /\ Orderly(s) /\ Warmed(s) /\ Pending(s) = {}
    <3>1. "rejected" \in Fates \ {"pending"} /\ s = Emptied(Settle(Now, InHand(Now.slot), "rejected"))
      BY <2>1, NowIsFormed DEF Fates
    <3>2. Counted(Now) /\ Orderly(Now) /\ Warmed(Now)
      BY NowIsFormed
    <3> QED BY <3>1, <3>2, EmptyingIsSound
  <2>5. /\ Formed(t) /\ t.fate = s.fate /\ t.slot.queue = s.slot.queue
        /\ t.slot.external = s.slot.external /\ t.slot.busy = s.slot.busy
        /\ t.slot.stdin = s.slot.stdin
        /\ t.slot.hello = s.slot.hello /\ t.slot.restarting = s.slot.restarting
        /\ t.slot.backoff = FALSE /\ t.slot.ready = s.slot.ready /\ t.slot.child = s.slot.child
    BY <2>2, <2>4 DEF Counted, Formed, Fields
  <2>6. Pending(t) = {}
    BY <2>4, <2>5 DEF Pending
  <2>7. Counted(t) /\ Orderly(t) /\ Warmed(t) /\ NoWarmupWaits(t)
    BY <2>4, <2>5, <2>6 DEF Counted, Orderly, Warmed, NoWarmupWaits
  <2> QED BY <1>1, <2>3, <2>7, BecomesSound DEF Sound
<1>3. CASE DisposeKills \/ KillTimer
  <2>1. PICK t : t = [slot |-> [slot EXCEPT !.signal = "kill"], fate |-> fate]
    OBVIOUS
  <2>2. /\ Formed(t) /\ t.fate = fate /\ t.slot.queue = slot.queue
        /\ t.slot.external = slot.external /\ t.slot.busy = slot.busy
        /\ t.slot.stdin = slot.stdin
        /\ t.slot.hello = slot.hello /\ t.slot.restarting = slot.restarting
        /\ t.slot.backoff = slot.backoff /\ t.slot.ready = slot.ready /\ t.slot.child = slot.child
    BY <2>1, NowIsFormed DEF Formed, Fields
  <2>3. Become(t)
    BY <1>3, <2>1 DEF Become, DisposeKills, KillTimer
  <2>4. Pending(t) = Pending(Now)
    BY <2>2, NowIsFormed DEF Pending
  <2>5. Counted(t) /\ Orderly(t) /\ Warmed(t) /\ NoWarmupWaits(t)
    BY <2>2, <2>4, NowIsFormed DEF Counted, Orderly, Warmed, NoWarmupWaits
  <2> QED BY <1>1, <2>3, <2>5, BecomesSound DEF Sound
<1>4. CASE DisposeStopsWaiting \/ UNCHANGED vars
  <2>1. Become(Now)
    BY <1>4 DEF Become, Now, DisposeStopsWaiting, vars
  <2> QED BY <1>1, <2>1, NowIsFormed, BecomesSound DEF Sound
<1> QED BY <1>2, <1>3, <1>4

LEMMA PoolInvInit == Init => PoolInv
<1> SUFFICES ASSUME Init PROVE PoolInv
  OBVIOUS
<1>1. /\ DOMAIN slot = Fields /\ slot.busy = None /\ slot.queue = <<>> /\ slot.stdin = <<>>
      /\ slot.external = 0 /\ slot.hello = FALSE /\ slot.restarting = FALSE
      /\ slot.backoff = FALSE /\ slot.ready = (role = "control")
  BY DEF Init, Fields
<1>2. fate = [r \in Ids |-> "none"] /\ out = [c \in Children |-> <<>>]
  BY DEF Init
<1>3. Now.slot = slot /\ Now.fate = fate /\ Formed(Now)
  BY <1>1 DEF Now, Formed
<1>4. Pending(Now) = {}
  BY <1>2, <1>3 DEF Pending
<1>5. Counted(Now)
  <2>1. Lists(<<>>, {})
    BY EmptySeq DEF Lists, Distinct, Entries
  <2>2. Pending(Now) \ {None} = {} /\ Pending(Now) \cap Requests = {}
    BY <1>4
  <2>3. fate \in [Ids -> Fates]
    BY <1>2 DEF Fates
  <2> QED BY <1>1, <1>3, <2>1, <2>2, <2>3, FS_EmptySet, EmptySeq DEF Counted
<1>6. Orderly(Now) /\ Warmed(Now)
  BY <1>1, <1>3, NoneIsApart DEF Orderly, Warmed, Ids
<1>7. NoWarmupWaits(Now)
  BY <1>4 DEF NoWarmupWaits
<1>8. WarmIsTold
  <2>1. out \in [Children -> Seq(Frames)]
    BY <1>2, EmptySeq
  <2>2. \A c \in Children : DOMAIN out[c] = {}
    BY <1>2, EmptySeq
  <2> QED BY <2>1, <2>2 DEF WarmIsTold
<1> QED BY <1>5, <1>6, <1>7, <1>8 DEF PoolInv, Sound

LEMMA PoolInvKept == PoolInv /\ [Next]_vars => PoolInv'
<1> SUFFICES ASSUME PoolInv, [Next]_vars PROVE PoolInv'
  OBVIOUS
<1>1. ASSUME NEW r \in Requests, Abort(r) PROVE PoolInv'
  <2>1. r \in Ids /\ fate[r] = "pending" /\ UNCHANGED <<role, out, warm>>
    BY <1>1 DEF Abort, Ids, outside
  <2>2. LET s == Settle(Leaves(Now, r), {r}, "aborted") IN
          Become(IF slot.busy = r THEN Restart(s) ELSE s)
    BY <1>1 DEF Abort
  <2> QED BY <2>1, <2>2, LeavingKeeps
<1>2. ASSUME NEW r \in Ids, Timeout(r) PROVE PoolInv'
  <2>1. fate[r] = "pending" /\ UNCHANGED <<role, out, warm>>
    BY <1>2 DEF Timeout, outside
  <2>2. LET s == Settle(Leaves(Now, r), {r}, "timeout") IN
          Become(IF slot.busy = r THEN Restart(s) ELSE s)
    BY <1>2 DEF Timeout
  <2> QED BY <2>1, <2>2, LeavingKeeps
<1>3. ASSUME NEW c \in Children, Misread(c) PROVE PoolInv'
  <2>1. WarmIsTold' /\ UNCHANGED <<role, warm>> /\ Become(Restart(Now))
    BY <1>3, ReceivedTold DEF Misread
  <2>2. Sound(Restart(Now)) /\ NoWarmupWaits(Restart(Now))
    BY NowIsFormed, RestartIsSound
  <2> QED BY <2>1, <2>2, BecomesSound
<1>4. ASSUME NEW r \in Requests, Ask(r) PROVE PoolInv'
  BY <1>4, AskSound
<1>5. ASSUME NEW c \in Children, Hello(c) \/ Answer(c) PROVE PoolInv'
  BY <1>5, HelloSound, AnswerSound
<1>6. ASSUME NEW c \in Children,
             Ignore(c) \/ SayHello(c) \/ Babble(c) \/ Exit(c) \/ \E good \in BOOLEAN : Serve(c, good)
      PROVE  PoolInv'
  BY <1>6, ChildSound
<1>7. ASSUME NEW c \in Children, StreamError(c) \/ WriteFails(c) PROVE PoolInv'
  BY <1>7, LosingSound
<1>8. ASSUME NEW c \in Children, Close(c) PROVE PoolInv'
  BY <1>8, CloseSound
<1>9. CASE Start \/ StartFails \/ HandshakeTimeout
  BY <1>9, StartSound, LosingSound
<1>10. CASE KillTimer \/ Dispose \/ DisposeKills \/ DisposeStopsWaiting \/ UNCHANGED vars
  BY <1>10, EndingSound
<1> QED
  BY <1>1, <1>2, <1>3, <1>4, <1>5, <1>6, <1>7, <1>8, <1>9, <1>10 DEF Next, Frame

\* No request is counted twice, left behind uncounted, or settled while it is in hand:
\* whatever times out, is aborted, lost with its worker or rejected, the fates, the
\* queue, the place in work and the count of the queue's limit agree.
THEOREM InHandIsAccounted == Spec => []Accounted
<1>1. PoolInv => Accounted
  <2> SUFFICES ASSUME PoolInv PROVE Accounted
    OBVIOUS
  <2>1. Waiting(slot) = Pending(Now) \ {slot.busy}
    BY NowIsFormed DEF Waiting, Entries, Lists, Counted
  <2>2. Pending(Now) = {r \in Ids : fate[r] = "pending"} /\ None \notin Pending(Now)
    BY NowIsFormed, NoneIsApart DEF Pending
  <2>3. slot.busy \in Pending(Now) \cup {None}
    BY NowIsFormed DEF Counted
  <2>4. InHand(slot) = Pending(Now)
    BY <2>1, <2>2, <2>3 DEF InHand
  <2>5. Cardinality(Waiting(slot)) = Len(slot.queue)
    <3>1. slot.queue \in Seq(Ids) /\ Distinct(slot.queue) /\ Waiting(slot) = Entries(slot.queue)
      BY NowIsFormed DEF Counted, Lists, Waiting, Entries
    <3> QED BY <3>1, ListIsFinite
  <2>6. slot.external = Cardinality(InHand(slot) \cap Requests)
    BY <2>4, NowIsFormed DEF Counted
  <2> QED BY <2>1, <2>2, <2>4, <2>5, <2>6 DEF Accounted
<1> QED
  BY <1>1, PoolInvInit, PoolInvKept, PTL DEF Spec

\* No retrieval worker is given a recall before its own warmup went well: not after a
\* restart, a failed warmup, or a frame of the child before it.
THEOREM RecallsAreWarm == Spec => []WarmBeforeRecall
<1>1. PoolInv => WarmBeforeRecall
  BY NowIsFormed DEF Warmed, WarmBeforeRecall
<1> QED
  BY <1>1, PoolInvInit, PoolInvKept, PTL DEF Spec
=============================================================================
