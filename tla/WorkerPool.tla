------------------------------ MODULE WorkerPool ------------------------------
(***************************************************************************)
(* One slot of the OpenCode plugin's worker pool                           *)
(* (opencode/src/worker-pool.ts): a Python child process, the requests     *)
(* that wait for it and the one it works on, the restarts, and dispose.    *)
(* The pool has two such slots, `control` and `retrieval`, which share     *)
(* nothing but the disposal; the retrieval worker has to answer a warmup   *)
(* before it is given a recall.                                            *)
(*                                                                         *)
(* The plugin is one thread: every callback (a frame, a timer, an event of *)
(* the child, a call) is one step, together with the promise reactions it  *)
(* causes.  The child (worker.py) and its pipes run beside it.  Timers may *)
(* fire at any time after they are set: the delays are not modelled.       *)
(***************************************************************************)
EXTENDS Naturals, Sequences, FiniteSets

CONSTANTS
    Requests,      \* the calls of request() for this slot: recalls, or control jobs
    MaxPending,    \* maxPendingPerSlot
    MaxSpawns,     \* how many children are started
    MaxFaults,     \* how much goes wrong outside the pool
    None

Children == 1..MaxSpawns

ASSUME PoolConstants ==
    /\ MaxPending \in Nat \ {0} /\ MaxSpawns \in Nat \ {0} /\ MaxFaults \in Nat
    /\ Requests \cap Children = {}
    /\ None \notin Requests \cup Children

\* The pool's own warmup of a child is named by the child.
Ids == Requests \cup Children

VARIABLES
    role,          \* "control" or "retrieval"
    slot,          \* the Slot
    fate,          \* how each request stands, or was settled
    proc,          \* the life of each child process
    out,           \* the frames each child has written and the pool has not read
    warm,          \* history: the children that answered a warmup with ok
    disposal,      \* where dispose() is
    faults

vars == <<role, slot, fate, proc, out, warm, disposal, faults>>

\* The slot and the fates, which every callback of the pool works on.
Now == [slot |-> slot, fate |-> fate]
Become(s) == slot' = s.slot /\ fate' = s.fate

Waiting(sl) == {sl.queue[i] : i \in DOMAIN sl.queue}
InHand(sl) == Waiting(sl) \cup ({sl.busy} \ {None})

\* As if the count were given back for answers only.
SettleKeepingCount(s, rs, how) ==
    [slot |-> [s.slot EXCEPT !.external = IF how = "answered"
                                         THEN @ - Cardinality(rs \cap Requests) ELSE @],
     fate |-> [r \in Ids |-> IF r \in rs THEN how ELSE s.fate[r]]]

\* cleanupPending and the promise: the queue's count is given back.
Settle(s, rs, how) ==
    [slot |-> [s.slot EXCEPT !.external = @ - Cardinality(rs \cap Requests)],
     fate |-> [r \in Ids |-> IF r \in rs THEN how ELSE s.fate[r]]]

\* queue.splice(queue.indexOf(r), 1), if r is in it.
Without(q, r) ==
    IF \E i \in DOMAIN q : q[i] = r
    THEN LET i == CHOOSE i \in DOMAIN q : q[i] = r
         IN  SubSeq(q, 1, i - 1) \o SubSeq(q, i + 1, Len(q))
    ELSE q

\* r is not in hand any more, or nothing is.
Leaves(s, r) ==
    [s EXCEPT !.slot.busy = IF @ = r THEN None ELSE @,
              !.slot.queue = Without(@, r)]
Emptied(s) == [s EXCEPT !.slot.busy = None, !.slot.queue = <<>>]

\* As if a replacement were due at once, whether or not the old child has closed.
RestartOverlapping(s) ==
    IF s.slot.restarting THEN s
    ELSE LET t == Settle(s, {s.slot.busy} \ {None}, "lost") IN
         [t EXCEPT !.slot.restarting = TRUE,
                   !.slot.busy = None,
                   !.slot.hello = FALSE,
                   !.slot.ready = (role = "control"),
                   !.slot.signal = IF s.slot.child = None THEN @ ELSE "term",
                   !.slot.backoff = TRUE]

\* As if a restart always waited for a child to close.
RestartWaiting(s) ==
    IF s.slot.restarting THEN s
    ELSE LET t == Settle(s, {s.slot.busy} \ {None}, "lost") IN
         [t EXCEPT !.slot.restarting = TRUE,
                   !.slot.busy = None,
                   !.slot.hello = FALSE,
                   !.slot.ready = (role = "control"),
                   !.slot.signal = IF s.slot.child = None THEN @ ELSE "term"]

\* restart(slot): the request in work is lost, the others wait for the replacement,
\* which starts when the old child has closed, or after a delay if there is none.
Restart(s) ==
    IF s.slot.restarting THEN s
    ELSE LET t == Settle(s, {s.slot.busy} \ {None}, "lost") IN
         [t EXCEPT !.slot.restarting = TRUE,
                   !.slot.busy = None,
                   !.slot.hello = FALSE,
                   !.slot.ready = (role = "control"),
                   !.slot.signal = IF s.slot.child = None THEN @ ELSE "term",
                   !.slot.backoff = s.slot.child = None]

\* workerLost(slot): everything in hand is lost.
Lose(s) == Restart(Emptied(Settle(s, InHand(s.slot), "lost")))

\* schedule(slot): the first in the queue is written to the child, unless the slot is
\* busy, or not ready for anything but a warmup.  A child whose stdin is no longer
\* writable is restarted.
Schedule(s, writable) ==
    LET next == Head(s.slot.queue)
        t == [s EXCEPT !.slot.queue = Tail(@)]
    IN IF \/ s.slot.busy # None \/ ~s.slot.hello \/ s.slot.queue = <<>>
          \/ ~s.slot.ready /\ next \notin Children
       THEN s
       ELSE IF writable
            THEN [t EXCEPT !.slot.busy = next, !.slot.stdin = Append(@, next)]
            ELSE Restart(Settle(t, {next}, "lost"))

\* A pipe to a process that is gone is found out sooner or later.
Writable ==
    IF slot.child # None /\ proc[slot.child] # "exited" THEN {TRUE} ELSE BOOLEAN

Live == disposal = "no"

\* Only the current child is listened to, and not while it is being replaced.
Attends(c) == Live /\ slot.child = c /\ ~slot.restarting

Fault == faults < MaxFaults /\ faults' = faults + 1

outside == <<proc, out, warm>>

----------------------------------------------------------------------------
(* request(), its deadline and its abort signal.                           *)

Full == slot.external >= MaxPending

Ask(r) ==
    /\ fate[r] = "none"
    /\ IF ~Live THEN Become([Now EXCEPT !.fate[r] = "rejected"])
       ELSE IF Full THEN Become([Now EXCEPT !.fate[r] = "full"])
       ELSE \E ok \in Writable :
              Become(Schedule([Now EXCEPT !.fate[r] = "pending",
                                          !.slot.external = @ + 1,
                                          !.slot.queue = Append(@, r)], ok))
    /\ UNCHANGED <<role, outside, disposal, faults>>

\* The deadline: a waiting request just leaves, one in work costs the worker its life.
Timeout(r) ==
    /\ Live /\ fate[r] = "pending"
    /\ IF r \in Children THEN Fault ELSE UNCHANGED faults
    /\ LET s == Settle(Leaves(Now, r), {r}, "timeout") IN
       Become(IF slot.busy = r THEN Restart(s) ELSE s)
    /\ UNCHANGED <<role, outside, disposal>>

Abort(r) ==
    /\ r \in Requests
    /\ Live /\ fate[r] = "pending"
    /\ LET s == Settle(Leaves(Now, r), {r}, "aborted") IN
       Become(IF slot.busy = r THEN Restart(s) ELSE s)
    /\ UNCHANGED <<role, outside, disposal, faults>>

----------------------------------------------------------------------------
(* The frames of the child: one line of its stdout at a time.              *)

Receive(c) == out[c] # <<>> /\ out' = [out EXCEPT ![c] = Tail(@)]

\* What a retired child says, or says to a disposed pool, is not looked at.
Ignore(c) ==
    /\ Receive(c)
    /\ ~Attends(c)
    /\ UNCHANGED <<role, slot, fate, proc, warm, disposal, faults>>

\* WorkerHello: a control worker is ready, a retrieval worker is given its warmup,
\* before all that waits and beyond the count.
Hello(c) ==
    /\ Receive(c) /\ Attends(c)
    /\ Head(out[c]) = [kind |-> "hello"] /\ ~slot.hello
    /\ LET s == [Now EXCEPT !.slot.hello = TRUE, !.slot.handshake = None] IN
       \E ok \in Writable :
         Become(Schedule(IF role = "control" THEN [s EXCEPT !.slot.ready = TRUE]
                         ELSE [s EXCEPT !.fate[c] = "pending",
                                        !.slot.queue = <<c>> \o @], ok))
    /\ UNCHANGED <<role, proc, warm, disposal, faults>>

Answers(frame) == frame.kind = "result" /\ slot.hello /\ frame.id = slot.busy

\* As if any answer to the warmup would do.
AnswerWarmsAnyway(c) ==
    /\ Receive(c) /\ Attends(c)
    /\ Answers(Head(out[c]))
    /\ LET s == Settle(Leaves(Now, slot.busy), {slot.busy}, "answered") IN
       \E ok \in Writable :
         Become(Schedule([s EXCEPT !.slot.ready = @ \/ slot.busy \in Children], ok))
    /\ UNCHANGED <<role, proc, warm, disposal, faults>>

\* The answer to the request in work.  An ok of a warmup makes the slot ready; after
\* any other answer to it the pool restarts the worker.
Answer(c) ==
    /\ Receive(c) /\ Attends(c)
    /\ Answers(Head(out[c]))
    /\ LET warmup == slot.busy \in Children
           good == Head(out[c]).ok
           s == Settle(Leaves(Now, slot.busy), {slot.busy}, "answered")
       IN \E ok \in Writable :
            LET t == Schedule([s EXCEPT !.slot.ready = @ \/ (warmup /\ good)], ok) IN
            Become(IF warmup /\ ~good THEN Restart(t) ELSE t)
    /\ UNCHANGED <<role, proc, warm, disposal, faults>>

\* Anything else: a line that is no frame, a second hello, somebody else's answer.
Misread(c) ==
    /\ Receive(c) /\ Attends(c)
    /\ ~Answers(Head(out[c]))
    /\ Head(out[c]) = [kind |-> "hello"] => slot.hello
    /\ Become(Restart(Now))
    /\ UNCHANGED <<role, proc, warm, disposal, faults>>

----------------------------------------------------------------------------
(* The life of the children.                                               *)

Spawned == {c \in Children : proc[c] # "unborn"}
Fresh == Cardinality(Spawned) + 1

\* start(slot), when the delay of a restart is over.
Start ==
    /\ Live /\ slot.backoff
    /\ Fresh \in Children
    /\ slot' = [slot EXCEPT !.child = Fresh, !.hello = FALSE, !.ready = (role = "control"),
                            !.restarting = FALSE, !.backoff = FALSE, !.signal = "none",
                            !.stdin = <<>>, !.handshake = Fresh]
    /\ proc' = [proc EXCEPT ![Fresh] = "starting"]
    /\ UNCHANGED <<role, fate, out, warm, disposal, faults>>

\* spawn throws: restart(slot) again, and another delay.
StartFails ==
    /\ Live /\ slot.backoff
    /\ Fault
    /\ Become(Restart([Now EXCEPT !.slot.restarting = FALSE, !.slot.backoff = FALSE]))
    /\ UNCHANGED <<role, outside, disposal>>

\* SIGTERM was not enough.  The child is kept until it has closed.
KillTimer ==
    /\ Live /\ slot.restarting /\ slot.child # None /\ slot.signal = "term"
    /\ slot' = [slot EXCEPT !.signal = "kill"]
    /\ UNCHANGED <<role, fate, outside, disposal, faults>>

\* No hello in time.  The timer outlives a restart.
HandshakeTimeout ==
    /\ Live /\ slot.handshake # None
    /\ Fault
    /\ LET s == [Now EXCEPT !.slot.handshake = None] IN
       Become(IF slot.handshake = slot.child /\ ~slot.hello THEN Lose(s) ELSE s)
    /\ UNCHANGED <<role, outside, disposal>>

\* An error event of the process or its pipes, or 64 KiB without a newline.
StreamError(c) ==
    /\ Attends(c)
    /\ Fault
    /\ Become(Lose(Now))
    /\ UNCHANGED <<role, outside, disposal>>

\* The callback of a write that met a closed pipe, which may come during a restart.
WriteFails(c) ==
    /\ Live /\ slot.child = c
    /\ proc[c] = "exited" /\ slot.stdin # <<>>
    /\ Become(Lose([Now EXCEPT !.slot.stdin = <<>>]))
    /\ UNCHANGED <<role, outside, disposal, faults>>

\* The close event, after the last frame: the end of the child's ownership.
Close(c) ==
    /\ proc[c] = "exited" /\ out[c] = <<>>
    /\ proc' = [proc EXCEPT ![c] = "closed"]
    /\ LET s == [Now EXCEPT !.slot.handshake = None, !.slot.child = None,
                            !.slot.stdin = <<>>] IN
       IF Live /\ slot.child = c
       THEN Become(IF slot.restarting THEN [s EXCEPT !.slot.backoff = TRUE] ELSE Lose(s))
       ELSE UNCHANGED <<slot, fate>>
    /\ disposal' = IF disposal = "ending" THEN "done" ELSE disposal
    /\ UNCHANGED <<role, out, warm, faults>>

----------------------------------------------------------------------------
(* worker.py: a hello, then one answer after each request, in order.       *)

Say(c, frame) == out' = [out EXCEPT ![c] = Append(@, frame)]

SayHello(c) ==
    /\ proc[c] = "starting"
    /\ proc' = [proc EXCEPT ![c] = "running"]
    /\ Say(c, [kind |-> "hello"])
    /\ UNCHANGED <<role, slot, fate, warm, disposal, faults>>

\* A request is read and answered, degraded when the index or the model is not there.
Serve(c, good) ==
    /\ proc[c] = "running" /\ slot.child = c
    /\ slot.stdin # <<>>
    /\ IF good THEN UNCHANGED faults ELSE Fault
    /\ Say(c, [kind |-> "result", id |-> Head(slot.stdin), ok |-> good])
    /\ slot' = [slot EXCEPT !.stdin = Tail(@)]
    /\ warm' = IF good /\ Head(slot.stdin) \in Children THEN warm \cup {c} ELSE warm
    /\ UNCHANGED <<role, fate, proc, disposal>>

\* Something on its stdout that the pool did not ask for.
Babble(c) ==
    /\ proc[c] \in {"starting", "running"}
    /\ Fault
    /\ Say(c, [kind |-> "junk"])
    /\ UNCHANGED <<role, slot, fate, proc, warm, disposal>>

\* It dies: of itself, or of a signal.
Exit(c) ==
    /\ proc[c] \in {"starting", "running"}
    /\ IF slot.child = c /\ slot.signal # "none" THEN UNCHANGED faults ELSE Fault
    /\ proc' = [proc EXCEPT ![c] = "exited"]
    /\ UNCHANGED <<role, slot, fate, out, warm, disposal>>

----------------------------------------------------------------------------
(* dispose()                                                               *)

\* All timers are cleared, all in hand is rejected, the child is told to go.
Dispose ==
    /\ Live
    /\ LET s == Emptied(Settle(Now, InHand(slot), "rejected")) IN
       Become([s EXCEPT !.slot.handshake = None, !.slot.backoff = FALSE,
                        !.slot.signal = IF slot.child = None \/ @ = "kill" THEN @ ELSE "term"])
    /\ disposal' = IF slot.child = None THEN "done" ELSE "ending"
    /\ UNCHANGED <<role, outside, faults>>

DisposeKills ==
    /\ disposal = "ending" /\ slot.signal = "term"
    /\ slot' = [slot EXCEPT !.signal = "kill"]
    /\ UNCHANGED <<role, fate, outside, disposal, faults>>

\* The last grace period is over, whether or not the child has closed.
DisposeStopsWaiting ==
    /\ disposal = "ending" /\ slot.signal = "kill"
    /\ disposal' = "done"
    /\ UNCHANGED <<role, slot, fate, outside, faults>>

----------------------------------------------------------------------------
Init ==
    /\ role \in {"control", "retrieval"}
    /\ slot = [child |-> 1, hello |-> FALSE, ready |-> role = "control", busy |-> None,
               queue |-> <<>>, restarting |-> FALSE, backoff |-> FALSE, signal |-> "none",
               handshake |-> 1, stdin |-> <<>>, external |-> 0]
    /\ fate = [r \in Ids |-> "none"]
    /\ proc = [c \in Children |-> IF c = 1 THEN "starting" ELSE "unborn"]
    /\ out = [c \in Children |-> <<>>]
    /\ warm = {}
    /\ disposal = "no"
    /\ faults = 0

Frame(c) == Ignore(c) \/ Hello(c) \/ Answer(c) \/ Misread(c)

Next ==
    \/ \E r \in Requests : Ask(r) \/ Abort(r)
    \/ \E r \in Ids : Timeout(r)
    \/ \E c \in Children :
         \/ Frame(c) \/ StreamError(c) \/ WriteFails(c) \/ Close(c)
         \/ SayHello(c) \/ Babble(c) \/ Exit(c)
         \/ \E good \in BOOLEAN : Serve(c, good)
    \/ Start \/ StartFails \/ KillTimer \/ HandshakeTimeout
    \/ Dispose \/ DisposeKills \/ DisposeStopsWaiting

Spec == Init /\ [][Next]_vars

\* Timers fire, events are delivered, a healthy worker works, SIGKILL kills.  Every
\* step uses up a request, a fault, a child or a frame, so no behaviour goes on for
\* ever, and to be fair to all of these together is to be fair to each.
Progress ==
    \/ \E r \in Requests : Timeout(r)
    \/ \E c \in Children : \/ Frame(c) \/ Close(c) \/ SayHello(c) \/ Serve(c, TRUE)
                           \/ slot.signal = "kill" /\ Exit(c)
    \/ Start \/ KillTimer \/ DisposeKills \/ DisposeStopsWaiting

FairSpec == Spec /\ WF_vars(Progress)

----------------------------------------------------------------------------
(* What the pool promises.                                                 *)

Fates == {"none", "pending", "full", "rejected", "timeout", "aborted", "lost", "answered"}

TypeOK ==
    /\ role \in {"control", "retrieval"}
    /\ slot.child \in Children \cup {None} /\ slot.handshake \in Children \cup {None}
    /\ slot.busy \in Ids \cup {None}
    /\ slot.queue \in Seq(Ids) /\ slot.stdin \in Seq(Ids)
    /\ {slot.hello, slot.ready, slot.restarting, slot.backoff} \subseteq BOOLEAN
    /\ slot.signal \in {"none", "term", "kill"}
    /\ slot.external \in 0..MaxPending
    /\ fate \in [Ids -> Fates]
    /\ proc \in [Children -> {"unborn", "starting", "running", "exited", "closed"}]
    /\ warm \subseteq Children
    /\ disposal \in {"no", "ending", "done"}
    /\ faults \in 0..MaxFaults

\* There is at most one child that has not closed, it is the slot's, and a delayed
\* start is only due when there is none ("Never overlap a replacement child with an
\* old process that has not closed yet").
OneChild ==
    /\ \A c \in Spawned : proc[c] = "closed" \/ c = slot.child
    /\ slot.backoff => slot.child = None

\* Every request that is not settled is in hand, in one place, and counted; whatever
\* is in hand has yet to be settled.
Accounted ==
    /\ InHand(slot) = {r \in Ids : fate[r] = "pending"}
    /\ slot.busy \notin Waiting(slot)
    /\ Cardinality(Waiting(slot)) = Len(slot.queue)
    /\ slot.external = Cardinality(InHand(slot) \cap Requests)

\* A retrieval worker is given a recall only after it has answered its warmup with ok
\* ("Require a successful explicit warmup result before dispatching retrieval jobs").
WarmBeforeRecall ==
    role = "retrieval" /\ slot.busy \in Requests => slot.child \in warm

\* After the last fault, call, abort and deadline every request is settled, and the
\* slot has a worker that is ready, or dispose() has returned.
Recovers ==
    <>[](/\ \A r \in Requests : fate[r] # "pending"
         /\ disposal = "done" \/ (Live /\ slot.hello /\ slot.ready))
=============================================================================
