----------------------------- MODULE Coordinator -----------------------------
(***************************************************************************)
(* The session state of the OpenCode plugin (opencode/src/coordinator.ts)  *)
(* for one session id, with the serialized matcher of action rules.        *)
(*                                                                         *)
(* Every callback is one step; a call of the host, the answer of a worker, *)
(* the end of a match, a deadline and the continuation of prepare come in  *)
(* any order.  What an abort settles is settled before the next callback.  *)
(* Another session appears only through what it does to this one: it can   *)
(* push it out of the map when it is idle (Evict).                         *)
(*                                                                         *)
(* The code compares a remembered generation or capability revision only   *)
(* with the present one, so what is remembered is whether it still is the  *)
(* present one: `era' and `tools', aged by every step that counts one on.  *)
(* One id per category of block stands for the ids, one tool call for the  *)
(* observed actions; priorities, texts, lengths and expiry are choices.    *)
(***************************************************************************)
EXTENDS Integers, FiniteSets

CONSTANTS
    Prepares,         \* calls of prepare that may overlap
    MaxPending,       \* maxPendingPerSession
    MaxBlocks         \* maxRetainedBlocks

ASSUME CoordinatorAssumption == {MaxPending, MaxBlocks} \subseteq Nat \ {0}

VARIABLES
    session,   \* the session's state object, with the jobs of its dropped forerunners
    live,      \* it is in `sessions'
    prep,      \* the calls of prepare under way
    grep,      \* a grep child of an earlier match has not closed
    disposed

coordinatorVars == <<session, live, prep, grep, disposed>>

\* How old a generation is: the present one; one before a mere "ok"; one about
\* another subject; one in another place, or of a state object that was dropped,
\* which every check treats alike.
Era == {"now", "earlier", "past", "elsewhere"}
Age(e, how) ==
    CASE how = "ack"  -> IF e = "now" THEN "earlier" ELSE e
      [] how = "new"  -> IF e = "elsewhere" THEN e ELSE "past"
      [] how = "move" -> "elsewhere"

\* `good' is history: the block was asked for the present subject, or the present
\* place if it is a bootstrap block, and, if it depends on the tools, under their
\* present revision.
Block == [cat : {"bootstrap", "memory", "route", "action_rule"}, good : BOOLEAN]
Job   == [kind : {"recall", "routes", "action"}, what : {"prompt", "tool", "all"},
          era : Era, tools : BOOLEAN, tracked : BOOLEAN, own : BOOLEAN, matching : BOOLEAN]

\* The retained tool call: attempted for the present generation and tools, and
\* whether a busy matcher asks for another attempt.
NotHeld == [held |-> FALSE, tried |-> FALSE, retry |-> "no"]
Untried == [NotHeld EXCEPT !.held = TRUE]

\* `back' is history: tools it had were replaced by tools asked for before them.
Fresh == [blocks |-> {}, snap |-> "none", jobs |-> {},
          boot |-> FALSE, strays |-> {}, act |-> NotHeld, back |-> FALSE]

\* `asking': the host has not answered the question for capabilities, which is the
\* latest, or "overtaken" by a later one, or "behind" what has been applied since.
Idle  == [pc |-> "idle", same |-> FALSE, late |-> FALSE, asking |-> "no"]
Asked == [pc |-> "caps", same |-> TRUE, late |-> FALSE, asking |-> "latest"]
-----------------------------------------------------------------------------
(* What each helper does to one state object.                               *)

RevisionBound(b) == b.cat \in {"route", "action_rule"}
Pending(s)  == {j \in s.jobs : j.tracked}
Untrack(js) == {[j EXCEPT !.tracked = FALSE] : j \in js}
Uncached(s) == [s EXCEPT !.snap = "none"]

\* Whatever changes the blocks makes a cached text a different one.
SetBlocks(s, bs) ==
    [s EXCEPT !.blocks = bs, !.snap = IF @ = "current" THEN "stale" ELSE @]

\* What gives way to the routes when the list is full: an action, else the oldest recall.
Victims(s, kind) ==
    LET of(k, w) == {j \in Pending(s) : j.kind = k /\ j.what = w}
    IN  IF kind # "routes" THEN {}
        ELSE IF of("action", "tool") # {} THEN of("action", "tool")
        ELSE IF of("recall", "prompt") # {} THEN of("recall", "prompt")
        ELSE of("recall", "tool")

Track(s, kind, what) ==
    LET new  == [kind |-> kind, what |-> what, era |-> "now", tools |-> TRUE,
                 tracked |-> TRUE, own |-> TRUE, matching |-> FALSE]
        same == {j \in Pending(s) : j.kind = kind /\ j.what = what /\ j.tools}
        full == Cardinality(Pending(s)) >= MaxPending
        out  == Victims(s, kind)
    IN  IF same # {} \/ (full /\ out = {}) THEN s
        ELSE IF full THEN [s EXCEPT !.jobs = (@ \ out) \union Untrack(out) \union {new}]
        ELSE [s EXCEPT !.jobs = @ \union {new}]

ScheduleRoutes(s) == Track(s, "routes", "all")
ScheduleMatch(s)  == IF s.act.tried THEN s ELSE Track(s, "action", "tool")

\* An action that found the matcher busy counts as tried until a later prepare.
Rematch(s) ==
    IF ~s.act.held THEN s
    ELSE ScheduleMatch(IF s.act.retry = "due" THEN [s EXCEPT !.act = Untried] ELSE s)

\* A new generation: its jobs and its bootstrap are aborted, its attempts and its
\* cached text are of another generation.
NextGeneration(s, how) ==
    [s EXCEPT !.jobs = {[j EXCEPT !.era = Age(@, how)] : j \in Untrack(@)},
              !.strays = {Age(e, how) : e \in @ \union (IF s.boot THEN {"now"} ELSE {})},
              !.boot = FALSE, !.act = IF @.held THEN Untried ELSE @, !.snap = "none",
              !.blocks = {[b EXCEPT !.good = @ /\ how # "move" /\ (how = "new" => b.cat = "bootstrap")] : b \in @}]

\* stateFor on a session whose place has changed.
Moved(s) ==
    ScheduleRoutes(Uncached([SetBlocks(NextGeneration(s, "move"), {}) EXCEPT !.act = NotHeld]))

\* Under another revision every job, attempt and block of the old one is outdated.
NextRevision(s) ==
    [s EXCEPT !.jobs = {[j EXCEPT !.tools = FALSE] : j \in @},
              !.act = IF @.held THEN Untried ELSE @,
              !.blocks = {[b EXCEPT !.good = @ /\ ~RevisionBound(b)] : b \in @}]

\* Other tools, under a new revision or, as happens while no agent is chosen, under
\* the present one, which leaves the blocks and the attempts as they are.
ApplyCaps(s, renewed) ==
    LET out == {j \in Pending(s) : j.kind \in {"routes", "action"}}
        s1  == [s EXCEPT !.jobs = (@ \ out) \union Untrack(out)]
        s2  == IF renewed THEN NextRevision(s1) ELSE s1
    IN  ScheduleRoutes(Uncached(SetBlocks(s2, {b \in s2.blocks : renewed => ~RevisionBound(b)})))

\* storeBlock: another text of the same id replaces it unless its priority is
\* lower; the lowest block goes when there are too many.
Store(s, b) ==
    LET same == {x \in s.blocks : x.cat = b.cat}
        all  == (s.blocks \ same) \union {b}
        kept == IF Cardinality(all) > MaxBlocks THEN {all \ {x} : x \in all} ELSE {all}
    IN  {Uncached(SetBlocks(s, bs)) : bs \in kept} \union (IF same = {} THEN {} ELSE {s})

Expire(s) == {Uncached(SetBlocks(s, bs)) : bs \in SUBSET s.blocks \ {s.blocks}} \union {s}

\* As if only the session, and not its generation, were looked at.
ValidForSession(j) == ~disposed /\ live /\ (j.kind = "recall" \/ j.tools)

Valid(j) ==
    /\ ~disposed /\ live /\ j.era = "now"
    /\ j.kind = "recall" \/ j.tools

\* As if a job that ends woke nothing.
FinishSilently(j, s) == [s EXCEPT !.jobs = @ \ {j}]

\* The end of a tracked promise: it leaves the list, and what it held up is tried.
Finish(j, s) ==
    LET s1 == [s EXCEPT !.jobs = @ \ {j}]
    IN  IF Valid(j) THEN Rematch(s1) ELSE s1

\* Aborted requests are settled before anything else happens.
Settled == session.strays = {} /\ \A j \in session.jobs : j.tracked \/ j.matching
-----------------------------------------------------------------------------
(* Calls of the host.  Each first finds the state object, or makes one, and *)
(* notices that the session has moved.                                      *)

CallsIn == ~disposed /\ Settled

\* stateFor: the session as the call finds it, and whether that aged it.
Entered == {[s |-> session, aged |-> FALSE]}
           \union (IF live THEN {[s |-> Moved(session), aged |-> TRUE]} ELSE {})

\* prepares of an older generation, or of a dropped object, give nothing.
Outdated(when) == [p \in Prepares |-> [prep[p] EXCEPT !.same = @ /\ ~when]]

\* Where the questions of ps stand once tools are asked for anew, or applied.
AskedSince(ps, to) ==
    [p \in Prepares |-> [ps[p] EXCEPT !.asking = IF @ = "latest" \/ (@ = "overtaken" /\ to = "behind") THEN to ELSE @]]

\* The call ends with the session in state s.
Keep(s, ps) ==
    /\ session' = s /\ live' = TRUE /\ prep' = ps
    /\ UNCHANGED <<grep, disposed>>

BeginOn(s, ack) ==
    LET s1 == NextGeneration(s, IF ack THEN "ack" ELSE "new")
        s2 == [SetBlocks(s1, {b \in s1.blocks : b.cat = "bootstrap"}) EXCEPT !.act = NotHeld]
    IN  IF ack THEN s1 ELSE ScheduleRoutes(Track(Uncached(s2), "recall", "prompt"))

Begin == CallsIn /\ \E e \in Entered, ack \in BOOLEAN : Keep(BeginOn(e.s, ack), Outdated(TRUE))

\* A call with a command is retained as a new object, whatever is under way for
\* the old one; a query is recalled.
ObserveOn(s, command) ==
    LET s1 == Track(s, "recall", "tool")
        s2 == [s1 EXCEPT !.act = Untried,
                         !.jobs = {[j EXCEPT !.own = (j.kind # "action")] : j \in @}]
    IN  IF command THEN ScheduleMatch(s2) ELSE s1

ObserveAction == CallsIn /\ \E e \in Entered, command \in BOOLEAN : Keep(ObserveOn(e.s, command), Outdated(e.aged))

\* The tools are the ones it has, of an older revision, or applied.
SetCapabilities ==
    /\ CallsIn
    /\ \E e \in Entered :
          \/ Keep(e.s, Outdated(e.aged))
          \/ Keep(e.s, AskedSince(Outdated(e.aged), "overtaken"))
          \/ \E renewed \in BOOLEAN : Keep(ApplyCaps(e.s, renewed), AskedSince(Outdated(e.aged), "behind"))

ScheduleBootstrap(s) == [s EXCEPT !.boot = TRUE]

RefreshBootstrap == CallsIn /\ \E e \in Entered : Keep(ScheduleBootstrap(Uncached(e.s)), Outdated(e.aged))

\* Everything of the object is aborted and emptied; only its jobs are left.
Emptied(s) == [Fresh EXCEPT !.jobs = NextGeneration(s, "move").jobs, !.strays = NextGeneration(s, "move").strays]

Drop ==
    /\ CallsIn /\ live
    /\ session' = Emptied(session) /\ live' = FALSE
    /\ prep' = Outdated(TRUE)
    /\ UNCHANGED <<grep, disposed>>

\* evictIdle, on behalf of other sessions.
Evict ==
    /\ CallsIn /\ live
    /\ Pending(session) = {} /\ ~session.boot
    /\ \A p \in Prepares : prep[p].pc = "idle"
    /\ session' = Emptied(session) /\ live' = FALSE
    /\ UNCHANGED <<prep, grep, disposed>>

Dispose ==
    /\ CallsIn
    /\ session' = Emptied(session) /\ live' = FALSE /\ disposed' = TRUE
    /\ prep' = Outdated(TRUE)
    /\ UNCHANGED grep
-----------------------------------------------------------------------------
(* Answers of the workers.                                                  *)

\* What a frame of a recall or routes job adds when it is still valid.
JobAnswer(j) ==
    LET b == [cat  |-> IF j.kind = "recall" THEN "memory" ELSE "route",
              good |-> j.era \in {"now", "earlier"} /\ (j.kind = "recall" \/ j.tools)]
    IN  /\ j.kind # "action" /\ (Settled \/ ~j.tracked)
        /\ \E s \in {session} \union (IF Valid(j) THEN Store(session, b) ELSE {}) : session' = Finish(j, s)
        /\ UNCHANGED <<live, prep, grep, disposed>>

BootApplies(e) == ~disposed /\ live /\ e = "now"

BootStores(e, s) ==
    {s} \union (IF BootApplies(e) THEN Store(s, [cat |-> "bootstrap", good |-> e # "elsewhere"]) ELSE {})

BootAnswer ==
    /\ \/ /\ Settled /\ session.boot
          /\ session' \in BootStores("now", [session EXCEPT !.boot = FALSE])
       \/ \E e \in session.strays :
             session' \in BootStores(e, [session EXCEPT !.strays = @ \ {e}])
    /\ UNCHANGED <<live, prep, grep, disposed>>
-----------------------------------------------------------------------------
(* The matcher: one match at a time, after the routes it depends on.        *)

IsCurrent(j) == j.tracked /\ Valid(j)
Tried(j, retry) ==
    IF j.own /\ session.act.held
    THEN [session EXCEPT !.act = [held |-> TRUE, tried |-> TRUE, retry |-> retry]] ELSE session

MatchStart(j) ==
    /\ j.kind = "action" /\ ~j.matching /\ (Settled \/ ~j.tracked)
    /\ ~j.tracked \/ ~\E k \in Pending(session) : k.kind = "routes"
    /\ \/ /\ ~IsCurrent(j)
          /\ session' = Finish(j, session)
       \/ /\ IsCurrent(j) /\ ~\E k \in session.jobs : k.matching
          /\ session' = IF grep THEN Finish(j, Tried(j, "next"))
                        ELSE [session EXCEPT !.jobs = (@ \ {j}) \union {[j EXCEPT !.matching = TRUE]}]
    /\ UNCHANGED <<live, prep, grep, disposed>>

\* A match that gives up leaves its killed child behind.
MatchEnd(j) ==
    LET b == [cat |-> "action_rule", good |-> j.era \in {"now", "earlier"} /\ j.tools]
        s == IF IsCurrent(j) THEN Tried(j, "no") ELSE session
    IN  /\ j.kind = "action" /\ j.matching /\ Settled
        /\ \E s1 \in {s} \union (IF IsCurrent(j) THEN Store(s, b) ELSE {}) : session' = Finish(j, s1)
        /\ grep' \in BOOLEAN
        /\ UNCHANGED <<live, prep, disposed>>

GrepClose == Settled /\ grep /\ grep' = FALSE /\ UNCHANGED <<session, live, prep, disposed>>
-----------------------------------------------------------------------------
(* prepare: a continuation after each await.                                *)

PrepareStart(p) ==
    /\ CallsIn /\ prep[p].pc = "idle"
    /\ \E e \in Entered : \E s \in Expire(e.s) :
          /\ session' = [s EXCEPT !.act.retry = IF @ = "next" THEN "due" ELSE @]
          /\ live' = TRUE
          /\ prep' = [AskedSince(Outdated(e.aged), "overtaken") EXCEPT ![p] = Asked]
    /\ UNCHANGED <<grep, disposed>>

PrepareDeadline(p) ==
    /\ Settled /\ prep[p].pc # "idle" /\ ~prep[p].late
    /\ prep' = [prep EXCEPT ![p].late = TRUE]
    /\ UNCHANGED <<session, live, grep, disposed>>

\* The host answers the question for capabilities: other ones apply if their
\* revision is not older and no later question or call has overtaken this one.  An
\* answer that prepare no longer waits for is a SetCapabilities.
CapsApply(p) ==
    /\ live /\ prep[p].same /\ prep[p].asking = "latest"
    /\ \E renewed \in BOOLEAN :
          session' = [ApplyCaps(session, renewed) EXCEPT !.back = @ \/ prep[p].asking = "behind"]
    /\ prep' = [AskedSince(prep, "behind") EXCEPT ![p].asking = "no"]

CapsAnswer(p) ==
    /\ Settled /\ prep[p].pc = "caps" /\ prep[p].asking # "no"
    /\ \/ CapsApply(p)
       \/ prep' = [prep EXCEPT ![p].asking = "no"] /\ UNCHANGED session
    /\ UNCHANGED <<live, grep, disposed>>

Return(p) == prep' = [prep EXCEPT ![p] = Idle]
Goto(p, pc) == prep' = [prep EXCEPT ![p].pc = pc, ![p].asking = "no"]

\* After each await a prepare of an older generation gives nothing.
PrepareOutdated(p) ==
    /\ Settled /\ ~prep[p].same
    /\ \/ prep[p].pc = "caps" /\ (prep[p].late \/ prep[p].asking = "no")
       \/ prep[p].pc = "pending"
       \/ prep[p].pc = "boot"
    /\ Return(p)
    /\ UNCHANGED <<session, live, grep, disposed>>

\* After the capabilities, or without them.
PrepareSchedule(p) ==
    LET s == Rematch(ScheduleBootstrap(session))
    IN  /\ Settled /\ prep[p].same /\ prep[p].pc = "caps" /\ (prep[p].late \/ prep[p].asking = "no")
        /\ session' = s
        /\ \/ Pending(s) = {} /\ s.snap # "none" /\ Return(p)
           \/ Goto(p, "pending")
        /\ UNCHANGED <<live, grep, disposed>>

\* As if the deadline were not raced.
PrepareWaitedForAll(p) ==
    /\ Settled /\ prep[p].same /\ prep[p].pc = "pending" /\ Pending(session) = {}
    /\ session' \in Expire(session)
    /\ Goto(p, "boot")
    /\ UNCHANGED <<live, grep, disposed>>

\* waitForPending, expire, and the purge of blocks made for other capabilities,
\* of which applyCaps leaves none.
PrepareWaited(p) ==
    /\ Settled /\ prep[p].same /\ prep[p].pc = "pending"
    /\ prep[p].late \/ Pending(session) = {}
    /\ session' \in Expire(session)
    /\ Goto(p, "boot")
    /\ UNCHANGED <<live, grep, disposed>>

\* formatSnapshot: without a block it is empty, and an empty text is not kept.
Formatted(s) == IF s.blocks = {} THEN "none" ELSE "current"

PrepareFormat(p) ==
    /\ Settled /\ prep[p].same /\ prep[p].pc = "boot" /\ (prep[p].late \/ ~session.boot)
    /\ session' = [session EXCEPT !.snap = Formatted(session)]
    /\ Return(p)
    /\ UNCHANGED <<live, grep, disposed>>

PrepareStep(p) == PrepareOutdated(p) \/ PrepareSchedule(p) \/ PrepareWaited(p) \/ PrepareFormat(p)
-----------------------------------------------------------------------------
CoordinatorInit ==
    /\ session = Fresh /\ live = FALSE /\ grep = FALSE /\ disposed = FALSE
    /\ prep = [p \in Prepares |-> Idle]

SettleJob == \E j \in session.jobs : JobAnswer(j) \/ MatchStart(j) \/ MatchEnd(j)

CoordinatorNext ==
    \/ Begin \/ ObserveAction \/ SetCapabilities \/ RefreshBootstrap
    \/ Drop \/ Evict \/ Dispose \/ GrepClose \/ SettleJob \/ BootAnswer
    \/ \E p \in Prepares : PrepareStart(p) \/ PrepareDeadline(p) \/ CapsAnswer(p) \/ PrepareStep(p)

CoordinatorSpec == CoordinatorInit /\ [][CoordinatorNext]_coordinatorVars

\* Timers fire, continuations run, both however busy the host is, and an abort
\* settles; no worker has to answer.
CoordinatorFairness ==
    /\ \A p \in Prepares : SF_coordinatorVars(PrepareStep(p)) /\ SF_coordinatorVars(PrepareDeadline(p))
    /\ WF_coordinatorVars(~Settled /\ (SettleJob \/ BootAnswer))
-----------------------------------------------------------------------------
\* What a session holds, and so what a prompt is given, was asked for its present
\* subject and place and under the present revision of its tools, however late an
\* answer comes and whichever state object of the session asked for it; and its
\* tools do not give way to what a prepare had asked for before them.  (Tools that
\* change without a new revision leave what was asked for the old ones, line 404.)
NothingStale == ~session.back /\ \A b \in session.blocks : b.good

\* The text kept for the next prompt of the generation is the one that would be
\* formatted now: whatever adds, replaces or takes away a block drops it.
CachedIsCurrent == session.snap # "stale"

\* A prompt is given blocks of its own subject, place and revision of the tools
\* only, whichever way its text was kept.
PromptIsCurrent == NothingStale /\ CachedIsCurrent

\* A prepare that did not run out of time has no tool call left that was not
\* matched for this generation and this revision of the tools, although jobs are refused,
\* pushed out, superseded or find the matcher busy on the way.  (A prepare begun
\* later may still ask for a busy one again.)
PreparedIsComplete ==
    [][\A p \in Prepares :
          /\ prep[p].pc = "pending" /\ prep'[p].pc = "boot" /\ ~prep[p].late
          /\ session.act.held
          => /\ session.act.tried
             /\ session.act.retry # "due" \/ \E q \in Prepares \ {p} : prep[q].pc = "caps"
      ]_coordinatorVars

\* A prompt is never held up for good by a worker, the matcher or the host.
PrepareReturns == \A p \in Prepares : prep[p].pc # "idle" ~> prep[p].pc = "idle"
=============================================================================
