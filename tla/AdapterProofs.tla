------------------------------ MODULE AdapterProofs ------------------------------
(***************************************************************************)
(* Theorems about the adapters to other hosts: the files of a Codex        *)
(* session and one hook's processes, and the coordinator of the OpenCode   *)
(* plugin.                                                                 *)
(*                                                                         *)
(* The hooks of a session lose no update of counters they can read, remind *)
(* at most once in a zone and only when it is due, and fall behind with    *)
(* the record of what was shown only by what failing files take: for any   *)
(* number of hooks, hits and turns.  These properties speak of steps.      *)
(* What makes the steps right is that a hook inside the lock holds a copy  *)
(* of the counters that are still there, or were unlinked by a collector   *)
(* since, or a fresh one, and that the history of the last reminder and of *)
(* the saves can be read off the counters.                                 *)
(*                                                                         *)
(* What the coordinator holds for a session is sound (Sound: no stale      *)
(* block or text, no tracked job of another generation), whichever helper  *)
(* made it so and in whatever order callbacks come.                        *)
(***************************************************************************)
EXTENDS CodexSession, CodexSupervisor, Coordinator, FiniteSetTheorems, TLAPS

Processes == [pc : {"out", "waiting", "inside"}, kind : Kinds \union {"none"},
              had : Counters \union {NoState}, seen : SUBSET Hits, blind : BOOLEAN, reaped : BOOLEAN]

SessionTyped ==
    /\ state \in Counters \union {NoState}
    /\ stale \in BOOLEAN /\ covered \in BOOLEAN
    /\ seen \in SUBSET Hits
    /\ hook \in [Hooks -> Processes]
    /\ zone \in Nat

(* A hook that is inside holds the lock, and its copy is what there is, or a *)
(* fresh one if it could not be read.                                        *)
CopyIsCurrent(h) ==
    hook[h].pc = "inside" =>
        /\ holder = h
        /\ hook[h].had \in Counters
        /\ \/ state = hook[h].had
           \/ state = NoState /\ (hook[h].had = NewState \/ hook[h].reaped)
           \/ hook[h].blind
        /\ IF hook[h].blind THEN hook[h].had = NewState ELSE shown \subseteq hook[h].seen \union forgotten

(* What the counters say of the reminders and saves so far.                  *)
Tells(s) ==
    /\ s.reminded <= s.turn /\ s.saved <= s.turn
    /\ zone <= ZoneOf(s.reminded)
    /\ covered => SavedSince(s)

SessionInv ==
    /\ SessionTyped
    /\ \A h \in Hooks : CopyIsCurrent(h) /\ (hook[h].pc = "out" => hook[h].kind = "none")
    /\ state = NoState => zone = 0 /\ ~covered
    /\ state # NoState => Tells(state)
    /\ \A h \in Hooks : hook[h].pc = "inside" /\ ~hook[h].blind => Tells(hook[h].had)
    /\ ShownIsRecorded

(* A zone is a natural number, and turn 0 is in the first.                   *)
LEMMA ZonesAreNumbers == (\A n \in Nat : ZoneOf(n) \in Nat) /\ ZoneOf(0) = 0
  BY SessionAssumption DEF ZoneOf

LEMMA NewStateTells == NewState \in Counters /\ (zone = 0 /\ ~covered => Tells(NewState))
  BY ZonesAreNumbers DEF NewState, Counters, Tells

(* Whatever a hook records leaves the counters telling the truth.            *)
LEMMA UpdatesTell ==
  ASSUME NEW kind \in Updates, NEW s \in Counters, NEW saved \in BOOLEAN,
         s.reminded <= s.turn, s.saved <= s.turn, saved => SavedSince(s)
  PROVE  /\ Updated(kind, s) \in Counters
         /\ Updated(kind, s).reminded = s.reminded
         /\ Updated(kind, s).reminded <= Updated(kind, s).turn
         /\ Updated(kind, s).saved <= Updated(kind, s).turn
         /\ saved \/ (kind = "save" /\ s.turn > 0) => SavedSince(Updated(kind, s))
<1> USE DEF Updated, Counters, SavedSince
<1>1. CASE kind = "start"
  BY <1>1
<1>2. CASE kind = "prompt"
  BY <1>2
<1>3. CASE kind = "save"
  BY <1>3
<1>4. CASE kind = "precompact"
  BY <1>4
<1>5. CASE kind = "postcompact"
  BY <1>5
<1> QED BY <1>1, <1>2, <1>3, <1>4, <1>5 DEF Updates

Waiting(kind) == [NotRunning EXCEPT !.pc = "waiting", !.kind = kind]

(* A hook that has not begun, and one that waits, are processes as typed.    *)
LEMMA OutsideIsTyped ==
  /\ NotRunning \in Processes /\ NotRunning.pc = "out" /\ NotRunning.kind = "none"
  /\ \A kind \in Kinds : Waiting(kind) \in Processes /\ Waiting(kind).pc = "waiting"
<1>1. NotRunning \in Processes /\ NotRunning.pc = "out" /\ NotRunning.kind = "none"
  BY DEF NotRunning, Processes
<1>2. ASSUME NEW kind \in Kinds
      PROVE  Waiting(kind) \in Processes /\ Waiting(kind).pc = "waiting"
  BY DEF Waiting, NotRunning, Processes
<1> QED BY <1>1, <1>2

LEMMA SessionInitially == SessionInit => SessionInv
<1> SUFFICES ASSUME SessionInit PROVE SessionInv
  OBVIOUS
<1>1. hook \in [Hooks -> Processes] /\ \A h \in Hooks : hook[h].pc = "out" /\ hook[h].kind = "none"
  BY OutsideIsTyped DEF SessionInit
<1>2. SessionTyped
  BY <1>1 DEF SessionInit, SessionTyped
<1> QED BY <1>1, <1>2 DEF SessionInit, SessionInv, CopyIsCurrent, ShownIsRecorded

(* Leaving gives up the lock and the copy; a prompt may go on to its recall. *)
LEMMA Leaving ==
  ASSUME SessionTyped, NEW h \in Hooks, Leave(h)
  PROVE  /\ hook' \in [Hooks -> Processes]
         /\ hook'[h].pc # "inside"
         /\ hook'[h].pc = "out" => hook'[h].kind = "none"
         /\ \A k \in Hooks \ {h} : hook'[k] = hook[k]
<1>1. "recall" \in Kinds
  BY DEF Kinds
<1>2. hook' = [hook EXCEPT ![h] = NotRunning] \/ hook' = [hook EXCEPT ![h] = Waiting("recall")]
  BY DEF Leave, Waiting
<1> QED BY <1>1, <1>2, OutsideIsTyped DEF SessionTyped

(* The holder is alone inside: a step by which it leaves has only to keep    *)
(* what is said of the file.                                                 *)
LEMMA LeavingKeeps ==
  ASSUME SessionInv, NEW h \in Hooks, hook[h].pc = "inside", Leave(h),
         state' \in Counters \union {NoState}, stale' \in BOOLEAN, covered' \in BOOLEAN,
         seen' \in SUBSET Hits, zone' \in Nat,
         state' = NoState => zone' = 0 /\ ~covered',
         state' # NoState => Tells(state)',
         ShownIsRecorded'
  PROVE  SessionInv'
<1>1. SessionTyped
  BY DEF SessionInv
<1>2. \A k \in Hooks : hook'[k].pc # "inside"
  BY <1>1, Leaving DEF SessionInv, CopyIsCurrent
<1>3. \A k \in Hooks : hook'[k].pc = "out" => hook'[k].kind = "none"
  BY <1>1, Leaving DEF SessionInv
<1>4. SessionTyped'
  BY <1>1, Leaving DEF SessionTyped
<1> QED BY <1>2, <1>3, <1>4 DEF SessionInv, CopyIsCurrent

(* A hook that could not read the counters begins the history anew as well.  *)
LEMMA UpdateKeeps == ASSUME SessionInv, NEW h \in Hooks, Update(h) PROVE SessionInv'
<1>1. PICK kind \in Updates : /\ Inside(h, kind) /\ Save(h, Updated(kind, hook[h].had))
                              /\ covered' = ((covered /\ ~hook[h].blind)
                                             \/ (kind = "save" /\ hook[h].had.turn > 0))
  BY DEF Update
<1> DEFINE s == hook[h].had
           was == covered /\ ~hook[h].blind
<1>2. /\ hook[h].pc = "inside" /\ s \in Counters /\ zone \in Nat /\ covered \in BOOLEAN
      /\ zone' = (IF hook[h].blind THEN 0 ELSE zone) /\ hook[h].blind \in BOOLEAN
  BY <1>1 DEF Inside, SessionInv, CopyIsCurrent, SessionTyped, Update, Processes
<1>3. s.reminded <= s.turn /\ s.saved <= s.turn /\ (was => SavedSince(s)) /\ zone' <= ZoneOf(s.reminded)
  <2>1. CASE hook[h].blind
    BY <1>1, <1>2, <2>1, ZonesAreNumbers DEF SessionInv, CopyIsCurrent, NewState
  <2>2. CASE ~hook[h].blind
    BY <1>1, <1>2, <2>2 DEF SessionInv, Tells
  <2> QED BY <2>1, <2>2
<1>4. /\ Updated(kind, s) \in Counters
      /\ Updated(kind, s).reminded = s.reminded
      /\ Updated(kind, s).reminded <= Updated(kind, s).turn
      /\ Updated(kind, s).saved <= Updated(kind, s).turn
      /\ was \/ (kind = "save" /\ s.turn > 0) => SavedSince(Updated(kind, s))
  <2>1. was \in BOOLEAN
    BY <1>2
  <2> HIDE DEF was
  <2> QED BY <1>2, <1>3, <2>1, UpdatesTell
<1>5. /\ state' = Updated(kind, s) /\ state' \in Counters /\ state' # NoState /\ stale' \in BOOLEAN
      /\ Leave(h) /\ UNCHANGED <<seen, sweep, shown, forgotten>>
  BY <1>1, <1>4, NoStateIsApart DEF Update, Save
<1>6. Tells(state)'
  BY <1>1, <1>3, <1>4, <1>5 DEF Tells, SavedSince
<1>7. zone' \in Nat /\ covered' \in BOOLEAN
  BY <1>1, <1>2
<1> QED BY <1>2, <1>5, <1>6, <1>7, LeavingKeeps DEF SessionInv, SessionTyped, ShownIsRecorded

(* Counters that could not be read are at no checkpoint.                     *)
LEMMA CheckpointIsRead ==
  ASSUME SessionInv, NEW h \in Hooks, hook[h].pc = "inside", AtCheckpoint(hook[h].had)
  PROVE  ~hook[h].blind /\ Tells(hook[h].had)
<1>1. ~AtCheckpoint(NewState)
  BY SessionAssumption DEF AtCheckpoint, NewState
<1>2. ~hook[h].blind
  BY <1>1 DEF SessionInv, CopyIsCurrent
<1> QED BY <1>2 DEF SessionInv

(* Both ways through a checkpoint mark its turn; only a reminder moves the   *)
(* zone, to the one of that turn.                                            *)
LEMMA CheckpointKeeps ==
  ASSUME SessionInv, NEW h \in Hooks, Remind(h) \/ PassCheckpoint(h) PROVE SessionInv'
<1> DEFINE s == hook[h].had
<1>0. AtCheckpoint(s) /\ hook[h].pc = "inside" /\ Tells(s)
  BY CheckpointIsRead DEF Remind, PassCheckpoint, Inside
<1>1. /\ hook[h].pc = "inside" /\ s \in Counters /\ Tells(s) /\ zone \in Nat
      /\ ZoneOf(s.reminded) < ZoneOf(s.turn) /\ Leave(h) /\ UNCHANGED <<seen, shown, forgotten>>
      /\ state' = [s EXCEPT !.reminded = s.turn] /\ stale' = FALSE /\ covered' = FALSE
      /\ zone' = ZoneOf(s.turn) \/ zone' = zone
  BY <1>0 DEF Remind, PassCheckpoint, Inside, Save, AtCheckpoint, SessionInv, CopyIsCurrent, SessionTyped
<1>2. ZoneOf(s.turn) \in Nat /\ ZoneOf(s.reminded) \in Nat
  BY <1>1, ZonesAreNumbers DEF Counters
<1>3. state' \in Counters /\ state'.reminded = s.turn /\ state'.turn = s.turn /\ state'.saved = s.saved
  BY <1>1 DEF Counters
<1>4. zone' \in Nat /\ Tells(state)'
  BY <1>1, <1>2, <1>3 DEF Tells, Counters
<1>5. state' # NoState
  BY <1>3, NoStateIsApart
<1> QED BY <1>1, <1>3, <1>4, <1>5, LeavingKeeps DEF SessionInv, SessionTyped, ShownIsRecorded

LEMMA RecallKeeps == ASSUME SessionInv, NEW h \in Hooks, Recall(h) PROVE SessionInv'
<1>1. PICK fresh \in SUBSET (Hits \ hook[h].seen), lands \in BOOLEAN :
         /\ seen' = IF lands THEN hook[h].seen \union fresh ELSE seen
         /\ shown' \in {shown, shown \union fresh}
         /\ forgotten' = (forgotten \union Failed(h, fresh, lands)) \ seen'
  BY DEF Recall, Recorded
<1>2. /\ hook[h].pc = "inside" /\ hook[h].seen \in SUBSET Hits /\ seen \in SUBSET Hits
      /\ shown \subseteq seen \union forgotten
      /\ ~hook[h].blind => shown \subseteq hook[h].seen \union forgotten
  BY DEF Recall, Inside, SessionInv, CopyIsCurrent, SessionTyped, Processes, ShownIsRecorded
<1>3. ShownIsRecorded' /\ seen' \in SUBSET Hits
  BY <1>1, <1>2 DEF ShownIsRecorded, Failed
<1>4. Leave(h) /\ UNCHANGED <<state, stale, sweep, zone, covered>>
  BY DEF Recall
<1>5. state' # NoState => Tells(state)'
  BY <1>4 DEF SessionInv, Tells, SavedSince
<1> QED BY <1>2, <1>3, <1>4, <1>5, LeavingKeeps DEF SessionInv, SessionTyped

LEMMA EnterKeeps == ASSUME SessionInv, NEW h \in Hooks, Enter(h) PROVE SessionInv'
<1>a. PICK kept : kept = IF stale THEN NoState ELSE state
  OBVIOUS
<1>b. PICK blind \in BOOLEAN :
         hook' = [hook EXCEPT ![h].pc = "inside", ![h].blind = blind,
                              ![h].had = IF kept = NoState \/ blind THEN NewState ELSE kept,
                              ![h].seen = IF blind THEN {} ELSE seen]
  BY <1>a DEF Enter
<1>c. PICK copy, hits : /\ copy = IF kept = NoState \/ blind THEN NewState ELSE kept
                        /\ hits = IF blind THEN {} ELSE seen
  OBVIOUS
<1>1. /\ hook[h].pc = "waiting" /\ holder = NoState /\ holder' = h /\ state' = kept /\ stale' = FALSE
      /\ hook' = [hook EXCEPT ![h].pc = "inside", ![h].blind = blind, ![h].had = copy, ![h].seen = hits]
      /\ zone' = (IF stale THEN 0 ELSE zone) /\ covered' = (covered /\ ~stale)
      /\ UNCHANGED <<seen, sweep, shown, forgotten>>
  BY <1>a, <1>b, <1>c DEF Enter, MayEnter
<1>2. \A k \in Hooks : hook[k].pc # "inside"
  BY <1>1, NoStateIsApart DEF SessionInv, CopyIsCurrent
<1>3. SessionTyped /\ kept \in Counters \union {NoState} /\ copy \in Counters
  BY <1>a, <1>c, NewStateTells DEF SessionInv, SessionTyped
<1>4. /\ hook' \in [Hooks -> Processes] /\ hook'[h].had = copy /\ hook'[h].seen = hits
      /\ hook'[h].pc = "inside" /\ hook'[h].blind = blind
      /\ \A k \in Hooks \ {h} : hook'[k] = hook[k]
  <2>1. hook[h] \in Processes /\ hits \in SUBSET Hits
    BY <1>3, <1>c DEF SessionTyped
  <2>2. PICK entered : entered = [hook[h] EXCEPT !.pc = "inside", !.blind = blind, !.had = copy, !.seen = hits]
    OBVIOUS
  <2>3. /\ entered \in Processes /\ entered.pc = "inside" /\ entered.had = copy /\ entered.seen = hits
        /\ entered.blind = blind
    BY <1>3, <2>1, <2>2 DEF Processes
  <2>4. hook' = [hook EXCEPT ![h] = entered]
    BY <1>1, <2>2
  <2> QED BY <1>3, <2>3, <2>4 DEF SessionTyped
<1>5. SessionTyped'
  BY <1>1, <1>3, <1>4 DEF SessionTyped
<1>6. (kept = NoState => zone' = 0 /\ ~covered') /\ (kept # NoState => Tells(state) /\ zone' = zone /\ covered' = covered)
  BY <1>1, <1>3, <1>a DEF SessionInv, SessionTyped
<1>7. (kept # NoState => Tells(state)') /\ (~blind => Tells(copy)')
  <2>1. CASE kept = NoState
    BY <1>6, <1>c, <2>1, ZonesAreNumbers DEF Tells, NewState
  <2>2. CASE kept # NoState
    BY <1>1, <1>6, <1>a, <1>c, <2>2 DEF Tells, SavedSince
  <2> QED BY <2>1, <2>2
<1>8. \A k \in Hooks : CopyIsCurrent(k)' /\ (hook'[k].pc = "out" => hook'[k].kind = "none")
  BY <1>1, <1>2, <1>3, <1>4, <1>c DEF CopyIsCurrent, SessionInv, ShownIsRecorded
<1>9. \A k \in Hooks : hook'[k].pc = "inside" => k = h
  BY <1>2, <1>4
<1> QED BY <1>1, <1>4, <1>5, <1>6, <1>7, <1>8, <1>9 DEF SessionInv, ShownIsRecorded, Tells, SavedSince

LEMMA PassAndEndKeep ==
  ASSUME SessionInv, NEW h \in Hooks, PassStop(h) \/ End(h) PROVE SessionInv'
<1>1. hook[h].pc = "inside" /\ Leave(h)
  BY DEF PassStop, End, Inside
<1>2. CASE PassStop(h)
  <2>1. UNCHANGED <<state, stale, seen, zone, covered, shown, forgotten>>
    BY <1>2 DEF PassStop
  <2>2. state' # NoState => Tells(state)'
    BY <2>1 DEF SessionInv, Tells, SavedSince
  <2> QED BY <1>1, <2>1, <2>2, LeavingKeeps DEF SessionInv, SessionTyped, ShownIsRecorded
<1>3. CASE End(h)
  <2>1. /\ state' = NoState /\ stale' = FALSE /\ zone' = 0 /\ covered' = FALSE
        /\ (seen' = {} /\ shown' = {}) \/ UNCHANGED <<seen, shown, forgotten>>
    BY <1>3 DEF End
  <2> QED BY <1>1, <2>1, LeavingKeeps DEF SessionInv, SessionTyped, ShownIsRecorded
<1> QED BY <1>2, <1>3

LEMMA CallKeeps ==
  ASSUME SessionInv, NEW h \in Hooks, NEW kind \in Kinds, Call(h, kind) PROVE SessionInv'
<1>1. hook[h].pc = "out" /\ hook' = [hook EXCEPT ![h] = Waiting(kind)]
      /\ UNCHANGED <<state, stale, seen, holder, sweep, zone, covered, shown, forgotten>>
  BY DEF Call, Waiting
<1>2. SessionTyped
  BY DEF SessionInv
<1>3. hook' \in [Hooks -> Processes] /\ hook'[h].pc = "waiting" /\ \A k \in Hooks \ {h} : hook'[k] = hook[k]
  BY <1>1, <1>2, OutsideIsTyped DEF SessionTyped
<1> QED BY <1>1, <1>3 DEF SessionInv, SessionTyped, CopyIsCurrent, Tells, SavedSince, ShownIsRecorded

LEMMA GiveUpKeeps == ASSUME SessionInv, NEW h \in Hooks, GiveUp(h) PROVE SessionInv'
<1>1. /\ hook' = [hook EXCEPT ![h] = NotRunning] \/ hook' = [hook EXCEPT ![h] = Waiting("recall")]
      /\ hook[h].pc \in {"waiting", "inside"}
      /\ holder' = IF holder = h THEN NoState ELSE holder
      /\ UNCHANGED <<state, stale, seen, sweep, zone, covered, shown, forgotten>>
  BY DEF GiveUp, Waiting
<1>2. SessionTyped /\ "recall" \in Kinds
  BY DEF SessionInv, Kinds
<1>3. /\ hook' \in [Hooks -> Processes] /\ hook'[h].pc # "inside"
      /\ hook'[h].pc = "out" => hook'[h].kind = "none"
      /\ \A k \in Hooks \ {h} : hook'[k] = hook[k]
  BY <1>1, <1>2, OutsideIsTyped DEF SessionTyped
<1>4. \A k \in Hooks : hook'[k].pc = "inside" => k # h /\ hook[k].pc = "inside" /\ holder' = k
  BY <1>1, <1>3 DEF SessionInv, CopyIsCurrent
<1> QED BY <1>1, <1>3, <1>4 DEF SessionInv, SessionTyped, CopyIsCurrent, Tells, SavedSince, ShownIsRecorded

LEMMA CollectorKeeps == ASSUME SessionInv, SweepUnlinks PROVE SessionInv'
<1>1. /\ state' = NoState /\ stale' = FALSE /\ zone' = 0 /\ covered' = FALSE
      /\ hook' = [h \in Hooks |-> [hook[h] EXCEPT !.reaped = @ \/ hook[h].pc = "inside"]]
      /\ UNCHANGED <<seen, holder, shown, forgotten>>
  BY DEF SweepUnlinks
<1>2. ASSUME NEW h \in Hooks
      PROVE  /\ hook'[h] \in Processes
             /\ hook'[h].pc = hook[h].pc /\ hook'[h].kind = hook[h].kind
             /\ hook'[h].had = hook[h].had /\ hook'[h].seen = hook[h].seen
             /\ hook'[h].blind = hook[h].blind
             /\ hook[h].pc = "inside" => hook'[h].reaped
  <2>1. hook[h] \in Processes
    BY DEF SessionInv, SessionTyped
  <2>2. hook'[h] = [hook[h] EXCEPT !.reaped = @ \/ hook[h].pc = "inside"]
    BY <1>1
  <2> QED BY <2>1, <2>2 DEF Processes
<1>3. SessionTyped'
  <2>1. hook' \in [Hooks -> Processes]
    BY <1>1, <1>2
  <2> QED BY <1>1, <2>1 DEF SessionInv, SessionTyped
<1>4. ASSUME NEW h \in Hooks, hook'[h].pc = "inside", ~hook'[h].blind PROVE Tells(hook[h].had)'
  <2>1. hook[h].had \in Counters /\ Tells(hook[h].had) /\ hook'[h].had = hook[h].had
    BY <1>2, <1>4 DEF SessionInv, CopyIsCurrent
  <2>2. ZoneOf(hook[h].had.reminded) \in Nat
    BY <2>1, ZonesAreNumbers DEF Counters
  <2> QED BY <1>1, <2>1, <2>2 DEF Tells
<1>5. \A h \in Hooks : CopyIsCurrent(h)' /\ (hook'[h].pc = "out" => hook'[h].kind = "none")
  BY <1>1, <1>2 DEF SessionInv, CopyIsCurrent
<1>6. ShownIsRecorded'
  BY <1>1 DEF SessionInv, ShownIsRecorded
<1> QED BY <1>1, <1>3, <1>4, <1>5, <1>6 DEF SessionInv

LEMMA OthersKeep ==
  ASSUME SessionInv, StateAges \/ HitExpires \/ Reap \/ SweepFinds \/ UNCHANGED sessionVars PROVE SessionInv'
<1>1. UNCHANGED <<state, hook, holder, zone, covered>> /\ stale' \in BOOLEAN
  BY DEF StateAges, HitExpires, Reap, SweepFinds, sessionVars, SessionInv, SessionTyped
<1>2. /\ ShownIsRecorded' /\ seen' \in SUBSET Hits
      /\ \A h \in Hooks : hook[h].pc = "inside" /\ ~hook[h].blind => shown' \subseteq hook[h].seen \union forgotten'
  BY NoStateIsApart DEF CopyIsCurrent, StateAges, HitExpires, Reap, SweepFinds, sessionVars, SessionInv, SessionTyped, ShownIsRecorded
<1> QED BY <1>1, <1>2 DEF SessionInv, SessionTyped, CopyIsCurrent, Tells, SavedSince

LEMMA SessionInvKept == SessionInv /\ [SessionNext]_sessionVars => SessionInv'
  BY UpdateKeeps, CheckpointKeeps, RecallKeeps, EnterKeeps, PassAndEndKeep, CallKeeps, GiveUpKeeps,
     CollectorKeeps, OthersKeep DEF SessionNext
-----------------------------------------------------------------------------
(* A hook that leaves with a change of the counters had the ones there were. *)
LEMMA LeaverWasCurrent ==
  ASSUME SessionInv, NEW h \in Hooks, hook[h].pc = "inside"
  PROVE  \/ state = hook[h].had
         \/ state = NoState /\ (hook[h].had = NewState \/ hook[h].reaped)
         \/ hook[h].blind /\ hook[h].had = NewState
  BY DEF SessionInv, CopyIsCurrent

(* Only a reminder moves the zone on, and only its own hook ends with it.    *)
LEMMA ReminderStep ==
  ASSUME SessionInv, [SessionNext]_sessionVars, NEW h \in Hooks,
         hook[h].kind = "stop", hook'[h].pc = "out", zone' # zone, zone' > 0
  PROVE  zone < zone' /\ ~covered
<1>1. PICK k \in Hooks : Remind(k)
  <2>1. zone' # 0
    OBVIOUS
  <2>2. ASSUME NEW k \in Hooks, Enter(k) PROVE zone' = 0 \/ zone' = zone
    BY <2>2 DEF Enter
  <2>3. ASSUME NEW k \in Hooks, Update(k) \/ PassCheckpoint(k) \/ PassStop(k) \/ End(k) \/ Recall(k)
                                 \/ GiveUp(k) \/ \E kind \in Kinds : Call(k, kind)
        PROVE  zone' = 0 \/ zone' = zone
    BY <2>3 DEF Update, PassCheckpoint, PassStop, End, Recall, GiveUp, Call
  <2>4. ASSUME StateAges \/ HitExpires \/ Reap \/ SweepFinds \/ SweepUnlinks \/ UNCHANGED sessionVars
        PROVE  zone' = 0 \/ zone' = zone
    BY <2>4 DEF StateAges, HitExpires, Reap, SweepFinds, SweepUnlinks, sessionVars
  <2> QED BY <2>1, <2>2, <2>3, <2>4 DEF SessionNext
<1> DEFINE s == hook[k].had
<1>2. /\ s \in Counters /\ Tells(s) /\ ~SavedSince(s) /\ zone \in Nat
      /\ zone' = ZoneOf(s.turn) /\ ZoneOf(s.reminded) < ZoneOf(s.turn)
  BY <1>1, CheckpointIsRead DEF Remind, Inside, AtCheckpoint, SessionInv, CopyIsCurrent, SessionTyped
<1>3. ZoneOf(s.turn) \in Nat /\ ZoneOf(s.reminded) \in Nat
  BY <1>2, ZonesAreNumbers DEF Counters
<1> QED BY <1>2, <1>3 DEF Tells

(* Hooks that are killed, time out or overlap lose no update of another,     *)
(* unless the file cannot be read or a collector takes it.                   *)
THEOREM UpdatesAreNotLost == SessionSpec => NoUpdateLost
<1>1. SessionInv /\ [SessionNext]_sessionVars
        => [\A h \in Hooks :
              hook[h].pc = "inside" /\ hook'[h].pc # "inside" /\ state' # state
              => \/ state = hook[h].had
                 \/ state = NoState /\ (hook[h].had = NewState \/ hook[h].reaped)
                 \/ hook[h].blind /\ hook[h].had = NewState]_sessionVars
  BY LeaverWasCurrent
<1> QED BY <1>1, SessionInitially, SessionInvKept, PTL DEF SessionSpec, NoUpdateLost

(* At most one reminder in a zone, none after a save.                        *)
THEOREM RemindersAreDueAlways == SessionSpec => ReminderIsDue
<1>1. SessionInv /\ [SessionNext]_sessionVars
        => [\A h \in Hooks :
              hook[h].kind = "stop" /\ hook'[h].pc = "out" /\ zone' # zone /\ zone' > 0
              => zone < zone' /\ ~covered]_sessionVars
  BY ReminderStep
<1> QED BY <1>1, SessionInitially, SessionInvKept, PTL DEF SessionSpec, ReminderIsDue

(* The record of what was shown is behind only by what failing files take.   *)
THEOREM ShownIsRecordedAlways == SessionSpec => []ShownIsRecorded
<1>1. SessionInv => ShownIsRecorded
  BY DEF SessionInv
<1> QED BY <1>1, SessionInitially, SessionInvKept, PTL DEF SessionSpec

-----------------------------------------------------------------------------
(* The supervisor of a hook.  Two facts carry its property: a launcher that  *)
(* terminates what it handed over does so because the supervisor has given   *)
(* up, so the supervisor can no longer take it; and what the supervisor fed  *)
(* is over before it answers, while what it did not feed cannot be serving.  *)

Waits == {"reading", "launching", "feeding", "waiting"}

SupervisorTypeOK ==
    /\ main \in Waits \cup {"draining"} \cup Gone
    /\ launcher \in {"none", "starting", "spawned", "putting", "put", "killing", "ended"}
    /\ offer \in {"empty", "process", "error", "taken"}
    /\ worker \in {"none", "terminated", "answered", "ended"} \cup Alive
    /\ cancelled \in BOOLEAN /\ claimed \in BOOLEAN /\ fed \in BOOLEAN

(* Whoever gave up does not wait any more, and only then is a worker taken   *)
(* back by the thread that started it.                                       *)
GivenUpIsOver ==
    /\ cancelled => main \notin Waits
    /\ launcher = "killing" => cancelled

OfferIsLaunched ==
    /\ main = "reading" => launcher = "none"
    /\ launcher \in {"none", "starting", "spawned", "putting"} => offer = "empty"
    /\ offer = "error" => launcher = "ended"
    /\ main \in {"feeding", "waiting"} => offer = "taken"
    /\ main \in Waits /\ worker = "terminated" => offer = "error"

FedIsHeard ==
    /\ fed => offer = "taken" /\ main \notin {"reading", "launching", "draining", "feeding"}
    /\ ~fed => worker # "serving"
    /\ fed /\ main \in {"done", "exited"} => worker \notin Alive

SupervisorInv == SupervisorTypeOK /\ GivenUpIsOver /\ OfferIsLaunched /\ FedIsHeard

LEMMA SupervisorStarts == SupervisorInit => SupervisorInv
  BY DEF SupervisorInit, SupervisorInv, SupervisorTypeOK, GivenUpIsOver, OfferIsLaunched, FedIsHeard,
         Waits, Gone, Alive

LEMMA MainKeeps == SupervisorInv /\ Main => SupervisorInv'
<1> SUFFICES ASSUME SupervisorInv, Main PROVE SupervisorInv'
  OBVIOUS
<1> USE DEF SupervisorInv, SupervisorTypeOK, GivenUpIsOver, OfferIsLaunched, FedIsHeard,
            Waits, Gone, Alive, Emit
<1>1. CASE Read
  BY <1>1 DEF Read
<1>2. CASE Cancel
  BY <1>2 DEF Cancel
<1>3. CASE Drain
  BY <1>3 DEF Drain, Terminated
<1>4. CASE Take
  BY <1>4 DEF Take
<1>5. CASE Feed
  BY <1>5 DEF Feed, Terminated
<1>6. CASE Overtaken
  BY <1>6 DEF Overtaken, Terminated
<1>7. CASE Answered
  BY <1>7 DEF Answered
<1>8. CASE MainExits
  BY <1>8 DEF MainExits, Terminated
<1> QED BY <1>1, <1>2, <1>3, <1>4, <1>5, <1>6, <1>7, <1>8 DEF Main

LEMMA LauncherKeeps == SupervisorInv /\ Launcher => SupervisorInv'
<1> SUFFICES ASSUME SupervisorInv, Launcher PROVE SupervisorInv'
  OBVIOUS
<1> USE DEF SupervisorInv, SupervisorTypeOK, GivenUpIsOver, OfferIsLaunched, FedIsHeard,
            Waits, Gone, Alive, Terminated
<1>1. CASE Spawn
  BY <1>1 DEF Spawn
<1>2. CASE HandOver
  BY <1>2 DEF HandOver
<1>3. CASE Review
  BY <1>3 DEF Review, Abandoned
<1> QED BY <1>1, <1>2, <1>3 DEF Launcher

LEMMA HostAndWorkerKeep ==
  SupervisorInv /\ (Late \/ Input \/ HostKills \/ WorkerReads \/ WorkerServes \/ UNCHANGED supervisorVars)
      => SupervisorInv'
<1> SUFFICES ASSUME SupervisorInv,
                    Late \/ Input \/ HostKills \/ WorkerReads \/ WorkerServes \/ UNCHANGED supervisorVars
             PROVE  SupervisorInv'
  OBVIOUS
<1> USE DEF SupervisorInv, SupervisorTypeOK, GivenUpIsOver, OfferIsLaunched, FedIsHeard,
            Waits, Gone, Alive
<1>1. CASE Late
  BY <1>1 DEF Late
<1>2. CASE Input
  BY <1>2 DEF Input
<1>3. CASE HostKills
  BY <1>3 DEF HostKills, Terminated
<1>4. CASE WorkerReads
  BY <1>4 DEF WorkerReads
<1>5. CASE WorkerServes
  BY <1>5 DEF WorkerServes
<1>6. CASE UNCHANGED supervisorVars
  BY <1>6 DEF supervisorVars
<1> QED BY <1>1, <1>2, <1>3, <1>4, <1>5, <1>6

LEMMA SupervisorInvKept == SupervisorInv /\ [SupervisorNext]_supervisorVars => SupervisorInv'
  BY MainKeeps, LauncherKeeps, HostAndWorkerKeep DEF SupervisorNext

(* However the deadline, the host and the two threads meet, a worker in use  *)
(* is not terminated by the launcher that handed it over, and none is still  *)
(* at work when the supervisor has answered (supervisor.py).                 *)
THEOREM WorkerIsOwnedAlways == SupervisorSpec => []WorkerIsOwned
<1>1. SupervisorInv => WorkerIsOwned
  BY DEF SupervisorInv, GivenUpIsOver, OfferIsLaunched, FedIsHeard, WorkerIsOwned, Waits, Alive
<1> QED BY <1>1, SupervisorStarts, SupervisorInvKept, PTL DEF SupervisorSpec

-----------------------------------------------------------------------------
(* The coordinator.  What a session holds is sound, whichever helper made it *)
(* so, and a tool call that is still to be matched has a job under way or a   *)
(* prepare that will ask for one.                                             *)

Attempt == [held : BOOLEAN, tried : BOOLEAN, retry : {"no", "next", "due"}]
Sessions == [blocks : SUBSET Block, snap : {"none", "current", "stale"}, jobs : SUBSET Job,
             boot : BOOLEAN, strays : SUBSET Era, act : Attempt, back : BOOLEAN]

\* A tracked job is of the present generation, and for the present revision of the
\* tools if it depends on them; a recall never does.
JobIsSound(j) ==
    /\ j.tracked /\ j.kind # "recall" => j.tools
    /\ j.tracked => j.era = "now"

Sound(s) ==
    /\ s \in Sessions
    /\ \A b \in s.blocks : b.good
    /\ s.snap # "stale"
    /\ \A j \in s.jobs : JobIsSound(j)
    /\ ~s.back

\* The retained tool call is matched or has something under way, at whose end it
\* will be looked at again.
Attended(s) == s.act.held /\ ~s.act.tried => Pending(s) # {}

\* It found the matcher busy, and a prepare begun since is to ask again.
Owed(s) == s.act.held /\ s.act.retry = "due"

JobKinds == {"recall", "routes", "action"}
Whats == {"prompt", "tool", "all"}

LEMMA TrackIsSound ==
    ASSUME NEW s, Sound(s), NEW kind \in JobKinds, NEW what \in Whats
    PROVE  /\ Sound(Track(s, kind, what))
           /\ Pending(Track(s, kind, what)) # {}
           /\ Track(s, kind, what).act = s.act
<1>1. PICK new, out, r :
        /\ new = [kind |-> kind, what |-> what, era |-> "now", tools |-> TRUE,
                  tracked |-> TRUE, own |-> TRUE, matching |-> FALSE]
        /\ out = Victims(s, kind)
        /\ r = Track(s, kind, what)
  OBVIOUS
<1>2. new \in Job /\ new.tracked = TRUE /\ new.tools = TRUE /\ new.era = "now"
  BY <1>1 DEF Job, Era, JobKinds, Whats
<1>3. out \subseteq s.jobs
  BY <1>1 DEF Victims, Pending
<1>4. ASSUME r # s
      PROVE  \E js : /\ r = [s EXCEPT !.jobs = js]
                     /\ js = (s.jobs \ out) \union Untrack(out) \union {new} \/ js = s.jobs \union {new}
  BY <1>1, <1>4 DEF Track
<1>5. CASE r = s
  <2>1. Pending(s) # {}
    <3>1. \/ {j \in Pending(s) : j.kind = kind /\ j.what = what /\ j.tools} # {}
          \/ Cardinality(Pending(s)) >= MaxPending
          \/ new \in s.jobs
      <4>1. [s EXCEPT !.jobs = (s.jobs \ out) \union Untrack(out) \union {new}].jobs
               = (s.jobs \ out) \union Untrack(out) \union {new}
        BY DEF Sound, Sessions
      <4>2. [s EXCEPT !.jobs = s.jobs \union {new}].jobs = s.jobs \union {new}
        BY DEF Sound, Sessions
      <4> QED BY <1>1, <1>5, <4>1, <4>2 DEF Track
    <3>2. MaxPending \in Nat \ {0}
      BY CoordinatorAssumption
    <3> QED BY <1>2, <3>1, <3>2, FS_EmptySet DEF Pending
  <2> QED BY <1>1, <1>5, <2>1
<1>6. CASE r # s
  <2>1. PICK js : /\ r = [s EXCEPT !.jobs = js]
                  /\ js = (s.jobs \ out) \union Untrack(out) \union {new} \/ js = s.jobs \union {new}
    BY <1>4, <1>6
  <2>2. \A j \in Job : /\ [j EXCEPT !.tracked = FALSE] \in Job
                       /\ [j EXCEPT !.tracked = FALSE].tracked = FALSE
                       /\ [j EXCEPT !.tracked = FALSE].kind = j.kind
                       /\ [j EXCEPT !.tracked = FALSE].tools = j.tools
    BY DEF Job
  <2>3. s.jobs \subseteq Job /\ \A j \in s.jobs : JobIsSound(j)
    BY DEF Sound, Sessions
  <2>4. Untrack(out) \subseteq Job /\ \A j \in Untrack(out) : JobIsSound(j)
    <3> SUFFICES ASSUME NEW j \in Untrack(out) PROVE j \in Job /\ JobIsSound(j)
      OBVIOUS
    <3>1. PICK k \in out : j = [k EXCEPT !.tracked = FALSE]
      BY DEF Untrack
    <3>2. k \in Job /\ JobIsSound(k)
      BY <1>3, <2>3
    <3> QED BY <2>2, <3>1, <3>2 DEF JobIsSound
  <2>5. js \subseteq Job /\ new \in js /\ \A j \in js : JobIsSound(j)
    BY <1>2, <2>1, <2>3, <2>4 DEF JobIsSound
  <2>6. /\ r.jobs = js /\ r.blocks = s.blocks /\ r.snap = s.snap /\ r.act = s.act /\ r.back = s.back
        /\ r \in Sessions
    BY <2>1, <2>5 DEF Sound, Sessions
  <2>7. Sound(r)
    BY <2>5, <2>6 DEF Sound
  <2>8. new \in Pending(r)
    BY <1>2, <2>5, <2>6 DEF Pending
  <2> QED BY <1>1, <2>6, <2>7, <2>8
<1> QED BY <1>5, <1>6

LEMMA SchedulesAreSound ==
    ASSUME NEW s, Sound(s)
    PROVE  /\ Sound(ScheduleRoutes(s)) /\ Pending(ScheduleRoutes(s)) # {} /\ ScheduleRoutes(s).act = s.act
           /\ Sound(ScheduleMatch(s)) /\ Attended(ScheduleMatch(s)) /\ ScheduleMatch(s).act = s.act
  BY TrackIsSound DEF ScheduleRoutes, ScheduleMatch, Attended, JobKinds, Whats

\* Another attempt, or none, changes nothing else.
LEMMA ActIsSound ==
    ASSUME NEW s, Sound(s), NEW a \in Attempt
    PROVE  /\ Sound([s EXCEPT !.act = a])
           /\ [s EXCEPT !.act = a].act = a /\ [s EXCEPT !.act = a].jobs = s.jobs
  BY DEF Sound, Sessions

LEMMA AttemptsTyped ==
    /\ Untried \in Attempt /\ Untried.held = TRUE /\ Untried.tried = FALSE /\ Untried.retry = "no"
    /\ NotHeld \in Attempt /\ NotHeld.held = FALSE
  BY DEF Untried, NotHeld, Attempt

LEMMA RematchIsSound ==
    ASSUME NEW s, Sound(s)
    PROVE  Sound(Rematch(s)) /\ Attended(Rematch(s)) /\ ~Owed(Rematch(s))
<1>1. CASE ~s.act.held
  BY <1>1 DEF Rematch, Attended, Owed
<1>2. CASE s.act.held
  <2>1. PICK r : r = IF s.act.retry = "due" THEN [s EXCEPT !.act = Untried] ELSE s
    OBVIOUS
  <2>2. Sound(r) /\ ~Owed(r)
    BY <2>1, ActIsSound, AttemptsTyped DEF Owed
  <2>3. Rematch(s) = ScheduleMatch(r)
    BY <1>2, <2>1 DEF Rematch
  <2> QED BY <2>2, <2>3, SchedulesAreSound DEF Owed
<1> QED BY <1>1, <1>2

\* What a new generation leaves: no job of its own, no text, and of the blocks those
\* it may keep.
LEMMA GenerationIsSound ==
    ASSUME NEW s, Sound(s), NEW how \in {"ack", "new", "move"}, NEW r, r = NextGeneration(s, how)
    PROVE  /\ r \in Sessions /\ r.snap = "none" /\ Pending(r) = {} /\ ~Owed(r) /\ ~r.back
           /\ \A j \in r.jobs : JobIsSound(j)
           /\ \A b \in r.blocks : how = "ack" \/ (how = "new" /\ b.cat = "bootstrap") => b.good
<1>1. PICK a, js, ss, bs :
        /\ a = IF s.act.held THEN Untried ELSE s.act
        /\ js = {[j EXCEPT !.era = Age(@, how)] : j \in Untrack(s.jobs)}
        /\ ss = {Age(e, how) : e \in s.strays \union (IF s.boot THEN {"now"} ELSE {})}
        /\ bs = {[b EXCEPT !.good = @ /\ how # "move" /\ (how = "new" => b.cat = "bootstrap")] : b \in s.blocks}
  OBVIOUS
<1>2. a \in Attempt /\ (a.held => a.retry = "no")
  BY <1>1, AttemptsTyped DEF Sound, Sessions, Untried
<1>3. \A e \in Era : Age(e, how) \in Era
  BY DEF Age, Era
<1>4. ASSUME NEW k \in js PROVE k \in Job /\ JobIsSound(k) /\ ~k.tracked
  <2>1. PICK j \in s.jobs : k = [[j EXCEPT !.tracked = FALSE] EXCEPT !.era = Age(@, how)]
    BY <1>1, <1>4 DEF Untrack
  <2>2. PICK m : m = [j EXCEPT !.tracked = FALSE]
    OBVIOUS
  <2>3. j \in Job /\ JobIsSound(j)
    BY DEF Sound, Sessions
  <2>4. m \in Job /\ m.tracked = FALSE /\ m.kind = j.kind /\ m.tools = j.tools /\ m.era \in Era
    BY <2>2, <2>3 DEF Job
  <2>5. k = [m EXCEPT !.era = Age(m.era, how)]
    BY <2>1, <2>2
  <2>6. PICK e \in Era : e = Age(m.era, how)
    BY <1>3, <2>4
  <2>7. k \in Job /\ k.tracked = FALSE /\ k.kind = j.kind /\ k.tools = j.tools
    BY <2>4, <2>5, <2>6 DEF Job
  <2> QED BY <2>3, <2>7 DEF JobIsSound
<1>5. ss \subseteq Era
  BY <1>1, <1>3 DEF Sound, Sessions, Era
<1>6. ASSUME NEW c \in bs
      PROVE  c \in Block /\ (how = "ack" \/ (how = "new" /\ c.cat = "bootstrap") => c.good)
  <2>1. PICK b \in s.blocks : c = [b EXCEPT !.good = @ /\ how # "move" /\ (how = "new" => b.cat = "bootstrap")]
    BY <1>1, <1>6
  <2>2. b \in Block /\ b.good
    BY DEF Sound, Sessions
  <2>3. PICK g \in BOOLEAN : g = (b.good /\ how # "move" /\ (how = "new" => b.cat = "bootstrap"))
    OBVIOUS
  <2>4. c = [b EXCEPT !.good = g]
    BY <2>1, <2>3
  <2>5. c \in Block /\ c.cat = b.cat /\ c.good = g
    BY <2>2, <2>4 DEF Block
  <2> QED BY <2>2, <2>3, <2>5
<1>7. r = [s EXCEPT !.jobs = js, !.strays = ss, !.boot = FALSE, !.act = a, !.snap = "none", !.blocks = bs]
  BY <1>1 DEF NextGeneration
<1>8. js \subseteq Job /\ bs \subseteq Block
  BY <1>4, <1>6
<1>9. /\ r \in Sessions /\ r.jobs = js /\ r.blocks = bs /\ r.snap = "none" /\ r.act = a
      /\ ~r.back
  BY <1>2, <1>5, <1>7, <1>8 DEF Sound, Sessions
<1> QED BY <1>2, <1>4, <1>6, <1>9 DEF Pending, Owed

\* Other blocks, once the cached text is dropped.
LEMMA BlocksAreSound ==
    ASSUME NEW s \in Sessions, ~s.back, \A j \in s.jobs : JobIsSound(j),
           NEW bs \in SUBSET Block, \A b \in bs : b.good
    PROVE  /\ Sound(Uncached(SetBlocks(s, bs)))
           /\ s.snap = "none" => Sound(SetBlocks(s, bs))
           /\ SetBlocks(s, bs) \in Sessions
           /\ Uncached(SetBlocks(s, bs)).jobs = s.jobs /\ Uncached(SetBlocks(s, bs)).act = s.act
           /\ SetBlocks(s, bs).jobs = s.jobs /\ SetBlocks(s, bs).act = s.act
           /\ SetBlocks(s, bs).blocks = bs /\ Uncached(SetBlocks(s, bs)).blocks = bs
<1>1. PICK t \in {"none", "current", "stale"} :
        t = IF s.snap = "current" THEN "stale" ELSE s.snap
  BY DEF Sessions
<1>2. PICK r : r = [s EXCEPT !.blocks = bs, !.snap = t]
  OBVIOUS
<1>3. SetBlocks(s, bs) = r
  BY <1>1, <1>2 DEF SetBlocks
<1>4. r \in Sessions /\ r.blocks = bs /\ r.snap = t /\ r.jobs = s.jobs /\ r.act = s.act /\ ~r.back
  BY <1>2 DEF Sessions
<1>5. PICK u : u = [r EXCEPT !.snap = "none"]
  OBVIOUS
<1>6. u \in Sessions /\ u.blocks = bs /\ u.snap = "none" /\ u.jobs = s.jobs /\ u.act = s.act /\ ~u.back
  BY <1>4, <1>5 DEF Sessions
<1>7. Uncached(SetBlocks(s, bs)) = u
  BY <1>3, <1>5 DEF Uncached
<1> QED BY <1>1, <1>3, <1>4, <1>6, <1>7 DEF Sound

LEMMA UncachedIsSound ==
    ASSUME NEW s, Sound(s)
    PROVE  Sound(Uncached(s)) /\ Uncached(s).jobs = s.jobs /\ Uncached(s).act = s.act
  BY DEF Sound, Sessions, Uncached

LEMMA MovedIsSound ==
    ASSUME NEW s, Sound(s)
    PROVE  Sound(Moved(s)) /\ Attended(Moved(s)) /\ ~Owed(Moved(s))
<1>1. PICK g : g = NextGeneration(s, "move")
  OBVIOUS
<1>2. g \in Sessions /\ g.snap = "none" /\ ~g.back /\ \A j \in g.jobs : JobIsSound(j)
  BY <1>1, GenerationIsSound
<1>3. PICK e : e = SetBlocks(g, {})
  OBVIOUS
<1>4. Sound(e)
  BY <1>2, <1>3, BlocksAreSound
<1>5. PICK n : n = [e EXCEPT !.act = NotHeld]
  OBVIOUS
<1>6. Sound(n) /\ n.act = NotHeld
  BY <1>4, <1>5, ActIsSound, AttemptsTyped
<1>7. Moved(s) = ScheduleRoutes(Uncached(n))
  BY <1>1, <1>3, <1>5 DEF Moved
<1>8. Sound(Uncached(n)) /\ Uncached(n).act = NotHeld
  BY <1>6, UncachedIsSound
<1> QED BY <1>7, <1>8, SchedulesAreSound, AttemptsTyped DEF Attended, Owed

\* A new revision: what depends on the tools is outdated.
LEMMA RevisionIsSound ==
    ASSUME NEW s \in Sessions, NEW r, r = NextRevision(s), ~s.back,
           \A j \in s.jobs : j.tracked => j.era = "now" /\ j.kind = "recall",
           \A b \in s.blocks : b.good
    PROVE  /\ r \in Sessions /\ ~Owed(r) /\ ~r.back
           /\ \A j \in r.jobs : JobIsSound(j)
           /\ \A b \in r.blocks : ~RevisionBound(b) => b.good
<1>1. PICK js, a, bs :
        /\ js = {[j EXCEPT !.tools = FALSE] : j \in s.jobs}
        /\ a = IF s.act.held THEN Untried ELSE s.act
        /\ bs = {[b EXCEPT !.good = @ /\ ~RevisionBound(b)] : b \in s.blocks}
  OBVIOUS
<1>2. a \in Attempt /\ (a.held => a.retry = "no")
  BY <1>1, AttemptsTyped DEF Sessions, Untried
<1>3. ASSUME NEW k \in js PROVE k \in Job /\ JobIsSound(k)
  <2>1. PICK j \in s.jobs : k = [j EXCEPT !.tools = FALSE]
    BY <1>1, <1>3
  <2>2. k \in Job /\ k.tracked = j.tracked /\ k.kind = j.kind /\ k.era = j.era
    BY <2>1 DEF Sessions, Job
  <2> QED BY <2>2 DEF JobIsSound
<1>4. ASSUME NEW c \in bs PROVE c \in Block /\ (~RevisionBound(c) => c.good)
  <2>1. PICK b \in s.blocks : c = [b EXCEPT !.good = @ /\ ~RevisionBound(b)]
    BY <1>1, <1>4
  <2>2. b \in Block /\ b.good
    BY DEF Sessions
  <2>3. PICK g \in BOOLEAN : g = ~RevisionBound(b)
    BY DEF RevisionBound
  <2>4. c \in Block /\ c.cat = b.cat /\ c.good = (b.good /\ g)
    BY <2>1, <2>2, <2>3 DEF Block
  <2> QED BY <2>2, <2>3, <2>4 DEF RevisionBound
<1>5. r = [s EXCEPT !.jobs = js, !.act = a, !.blocks = bs]
  BY <1>1 DEF NextRevision
<1>6. js \subseteq Job /\ bs \subseteq Block
  BY <1>3, <1>4
<1>7. r \in Sessions /\ r.jobs = js /\ r.act = a /\ r.blocks = bs /\ r.back = s.back
  BY <1>2, <1>5, <1>6 DEF Sessions
<1> QED BY <1>2, <1>3, <1>4, <1>7 DEF Owed

LEMMA CapsAreSound ==
    ASSUME NEW s, Sound(s), NEW renewed \in BOOLEAN, NEW c, c = ApplyCaps(s, renewed)
    PROVE  Sound(c) /\ Attended(c) /\ (Owed(c) => Owed(s)) /\ (renewed => ~Owed(c))
<1>1. PICK out, js :
        /\ out = {j \in Pending(s) : j.kind \in {"routes", "action"}}
        /\ js = (s.jobs \ out) \union Untrack(out)
  OBVIOUS
<1>2. ASSUME NEW j \in js PROVE j \in Job /\ (j.tracked => j.era = "now" /\ j.kind = "recall")
  <2>1. CASE j \in s.jobs \ out
    <3>1. j \in Job /\ JobIsSound(j) /\ (j.tracked => j.kind = "recall")
      BY <1>1, <2>1 DEF Sound, Sessions, Job, Pending
    <3> QED BY <3>1 DEF JobIsSound
  <2>2. CASE j \in Untrack(out)
    <3>1. PICK i \in s.jobs : j = [i EXCEPT !.tracked = FALSE]
      BY <1>1, <2>2 DEF Untrack, Pending
    <3> QED BY <3>1 DEF Sound, Sessions, Job
  <2> QED BY <1>1, <1>2, <2>1, <2>2
<1>3. PICK s1 : s1 = [s EXCEPT !.jobs = js]
  OBVIOUS
<1>4. js \subseteq Job
  BY <1>2
<1>5. /\ s1 \in Sessions /\ s1.jobs = js /\ s1.act = s.act /\ s1.blocks = s.blocks /\ ~s1.back
      /\ \A b \in s1.blocks : b.good
  BY <1>3, <1>4 DEF Sound, Sessions
<1>6. PICK s2 : s2 = IF renewed THEN NextRevision(s1) ELSE s1
  OBVIOUS
<1>7. /\ s2 \in Sessions /\ ~s2.back /\ (\A j \in s2.jobs : JobIsSound(j))
      /\ (Owed(s2) => Owed(s)) /\ (renewed => ~Owed(s2))
      /\ \A b \in s2.blocks : (renewed => ~RevisionBound(b)) => b.good
  <2>1. CASE renewed
    BY <1>2, <1>5, <1>6, <2>1, RevisionIsSound
  <2>2. CASE ~renewed
    <3>1. s2 = s1 /\ \A j \in s1.jobs : JobIsSound(j)
      BY <1>2, <1>5, <1>6, <2>2 DEF JobIsSound
    <3> QED BY <1>5, <2>2, <3>1 DEF Owed
  <2> QED BY <2>1, <2>2
<1>8. PICK kept \in SUBSET Block : kept = {b \in s2.blocks : renewed => ~RevisionBound(b)}
  BY <1>7 DEF Sessions
<1>9. PICK u : u = Uncached(SetBlocks(s2, kept))
  OBVIOUS
<1>10. Sound(u) /\ u.act = s2.act
  BY <1>7, <1>8, <1>9, BlocksAreSound
<1>11. c = ScheduleRoutes(u)
  BY <1>1, <1>3, <1>6, <1>8, <1>9 DEF ApplyCaps
<1> QED BY <1>7, <1>10, <1>11, SchedulesAreSound DEF Attended, Owed

LEMMA BeginIsSound ==
    ASSUME NEW s, Sound(s), NEW ack \in BOOLEAN
    PROVE  Sound(BeginOn(s, ack)) /\ ~Owed(BeginOn(s, ack))
<1>1. PICK how \in {"ack", "new", "move"} : how = IF ack THEN "ack" ELSE "new"
  OBVIOUS
<1>2. PICK g : g = NextGeneration(s, how)
  OBVIOUS
<1>3. /\ g \in Sessions /\ g.snap = "none" /\ ~Owed(g) /\ ~g.back /\ \A j \in g.jobs : JobIsSound(j)
      /\ \A b \in g.blocks : how = "ack" \/ (how = "new" /\ b.cat = "bootstrap") => b.good
  BY <1>2, GenerationIsSound
<1>4. CASE ack
  BY <1>1, <1>2, <1>3, <1>4 DEF BeginOn, Sound
<1>5. CASE ~ack
  <2>1. PICK kept \in SUBSET Block : kept = {b \in g.blocks : b.cat = "bootstrap"}
    BY <1>3 DEF Sessions
  <2>2. PICK e : e = SetBlocks(g, kept)
    OBVIOUS
  <2>3. Sound(e)
    BY <1>1, <1>3, <1>5, <2>1, <2>2, BlocksAreSound
  <2>4. PICK n : n = [e EXCEPT !.act = NotHeld]
    OBVIOUS
  <2>5. Sound(n) /\ n.act = NotHeld
    BY <2>3, <2>4, ActIsSound, AttemptsTyped
  <2>6. PICK u : u = Uncached(n)
    OBVIOUS
  <2>7. Sound(u) /\ u.act = NotHeld
    BY <2>5, <2>6, UncachedIsSound
  <2>8. PICK t : t = Track(u, "recall", "prompt")
    OBVIOUS
  <2>9. Sound(t) /\ t.act = NotHeld
    BY <2>7, <2>8, TrackIsSound DEF JobKinds, Whats
  <2>10. BeginOn(s, ack) = ScheduleRoutes(t)
    BY <1>1, <1>2, <1>5, <2>1, <2>2, <2>4, <2>6, <2>8 DEF BeginOn
  <2> QED BY <2>9, <2>10, SchedulesAreSound, AttemptsTyped DEF Owed
<1> QED BY <1>4, <1>5

LEMMA ObserveIsSound ==
    ASSUME NEW s, Sound(s), NEW command \in BOOLEAN
    PROVE  /\ Sound(ObserveOn(s, command))
           /\ Attended(s) => Attended(ObserveOn(s, command))
           /\ Owed(ObserveOn(s, command)) => Owed(s)
<1>1. PICK t : t = Track(s, "recall", "tool")
  OBVIOUS
<1>2. Sound(t) /\ t.act = s.act /\ Pending(t) # {}
  BY <1>1, TrackIsSound DEF JobKinds, Whats
<1>3. CASE ~command
  BY <1>1, <1>2, <1>3 DEF ObserveOn, Attended, Owed
<1>4. CASE command
  <2>1. PICK js : js = {[j EXCEPT !.own = (j.kind # "action")] : j \in t.jobs}
    OBVIOUS
  <2>2. ASSUME NEW k \in js PROVE k \in Job /\ JobIsSound(k)
    <3>1. PICK j \in t.jobs : k = [j EXCEPT !.own = (j.kind # "action")]
      BY <2>1, <2>2
    <3>2. j \in Job /\ JobIsSound(j)
      BY <1>2 DEF Sound, Sessions
    <3>3. PICK o \in BOOLEAN : o = (j.kind # "action")
      OBVIOUS
    <3>4. k = [j EXCEPT !.own = o]
      BY <3>1, <3>3
    <3>5. k \in Job /\ k.tracked = j.tracked /\ k.kind = j.kind /\ k.tools = j.tools /\ k.era = j.era
      BY <3>2, <3>4 DEF Job
    <3> QED BY <3>2, <3>5 DEF JobIsSound
  <2>3. PICK r : r = [t EXCEPT !.act = Untried, !.jobs = js]
    OBVIOUS
  <2>4. js \subseteq Job
    BY <2>2
  <2>5. /\ r \in Sessions /\ r.jobs = js /\ r.act = Untried /\ r.blocks = t.blocks /\ r.snap = t.snap
        /\ r.back = t.back
    BY <1>2, <2>3, <2>4, AttemptsTyped DEF Sound, Sessions
  <2>6. Sound(r)
    BY <1>2, <2>2, <2>5 DEF Sound
  <2>7. ObserveOn(s, command) = ScheduleMatch(r)
    BY <1>1, <1>4, <2>1, <2>3 DEF ObserveOn
  <2> QED BY <2>5, <2>6, <2>7, SchedulesAreSound, AttemptsTyped DEF Owed
<1> QED BY <1>3, <1>4

\* Blocks come and go without touching the jobs and the tool call.
Alike(r, s) == r.jobs = s.jobs /\ r.act = s.act

LEMMA StoreIsSound ==
    ASSUME NEW s, Sound(s), NEW b \in Block, b.good, NEW r \in Store(s, b)
    PROVE  Sound(r) /\ Alike(r, s)
<1>1. CASE r = s
  BY <1>1 DEF Alike
<1>2. CASE r # s
  <2>1. PICK bs : /\ r = Uncached(SetBlocks(s, bs))
                  /\ bs \subseteq (s.blocks \ {x \in s.blocks : x.cat = b.cat}) \union {b}
    BY <1>2 DEF Store
  <2>2. s \in Sessions /\ ~s.back /\ (\A j \in s.jobs : JobIsSound(j)) /\ s.blocks \subseteq Block
    BY DEF Sound, Sessions
  <2>3. bs \in SUBSET Block /\ \A x \in bs : x.good
    BY <2>1, <2>2 DEF Sound
  <2> QED BY <2>1, <2>2, <2>3, BlocksAreSound DEF Alike
<1> QED BY <1>1, <1>2

LEMMA ExpireIsSound ==
    ASSUME NEW s, Sound(s), NEW r \in Expire(s)
    PROVE  Sound(r) /\ Alike(r, s)
<1>1. CASE r = s
  BY <1>1 DEF Alike
<1>2. CASE r # s
  <2>1. PICK bs \in SUBSET s.blocks : r = Uncached(SetBlocks(s, bs))
    BY <1>2 DEF Expire
  <2>2. s \in Sessions /\ ~s.back /\ (\A j \in s.jobs : JobIsSound(j)) /\ s.blocks \subseteq Block
    BY DEF Sound, Sessions
  <2>3. bs \in SUBSET Block /\ \A x \in bs : x.good
    BY <2>2 DEF Sound
  <2> QED BY <2>1, <2>2, <2>3, BlocksAreSound DEF Alike
<1> QED BY <1>1, <1>2

LEMMA EmptiedIsSound ==
    ASSUME NEW s, Sound(s)
    PROVE  Sound(Emptied(s)) /\ ~Owed(Emptied(s))
<1>1. PICK g : g = NextGeneration(s, "move")
  OBVIOUS
<1>2. g \in Sessions /\ \A j \in g.jobs : JobIsSound(j)
  BY <1>1, GenerationIsSound
<1>3. PICK r : r = [Fresh EXCEPT !.jobs = g.jobs, !.strays = g.strays]
  OBVIOUS
<1>4. /\ r \in Sessions /\ r.jobs = g.jobs /\ r.act = NotHeld /\ r.blocks = {} /\ r.snap = "none"
      /\ ~r.back
  BY <1>2, <1>3, AttemptsTyped DEF Fresh, Sessions
<1>5. Emptied(s) = r
  BY <1>1, <1>3 DEF Emptied
<1> QED BY <1>2, <1>4, <1>5, AttemptsTyped DEF Sound, Owed

-----------------------------------------------------------------------------
(* The calls of prepare.                                                    *)

Prepare == [pc : {"idle", "caps", "pending", "boot"}, same : BOOLEAN, late : BOOLEAN,
            asking : {"no", "latest", "overtaken", "behind"}]

Current(p) == prep[p].pc # "idle" /\ prep[p].same
WaitsForJobs(p) == prep[p].pc = "pending" /\ prep[p].same
WillAsk(p) == prep[p].pc = "caps" /\ prep[p].same

CoordinatorInv ==
    /\ Sound(session)
    /\ live \in BOOLEAN /\ disposed \in BOOLEAN
    /\ prep \in [Prepares -> Prepare]
    /\ (\E p \in Prepares : Current(p)) => live /\ ~disposed
    /\ (\E p \in Prepares : WaitsForJobs(p)) => Attended(session)
    /\ Owed(session) => \E p \in Prepares : WillAsk(p)

\* What a step makes of the session may go on as it is.
Follows(s) == /\ Sound(s)
              /\ Attended(session) => Attended(s)
              /\ Owed(s) => Owed(session)
Renewed(s) == Sound(s) /\ ~Owed(s)

LEMMA OutdatedIs ==
    ASSUME prep \in [Prepares -> Prepare]
    PROVE  /\ Outdated(FALSE) = prep
           /\ Outdated(TRUE) \in [Prepares -> Prepare]
           /\ \A p \in Prepares : Outdated(TRUE)[p].same = FALSE /\ Outdated(TRUE)[p].pc = prep[p].pc
<1>1. \A p \in Prepares : [prep[p] EXCEPT !.same = prep[p].same /\ ~FALSE] = prep[p]
  BY DEF Prepare
<1>2. \A p \in Prepares : /\ [prep[p] EXCEPT !.same = prep[p].same /\ ~TRUE] \in Prepare
                          /\ [prep[p] EXCEPT !.same = prep[p].same /\ ~TRUE].same = FALSE
                          /\ [prep[p] EXCEPT !.same = prep[p].same /\ ~TRUE].pc = prep[p].pc
  BY DEF Prepare
<1> QED BY <1>1, <1>2 DEF Outdated

\* The same prepares, whatever they ask for.
Alongside(ps, qs) ==
    /\ ps \in [Prepares -> Prepare]
    /\ \A p \in Prepares : ps[p].pc = qs[p].pc /\ ps[p].same = qs[p].same

LEMMA AskedSinceIs ==
    ASSUME NEW ps \in [Prepares -> Prepare], NEW to \in {"overtaken", "behind"}
    PROVE  Alongside(AskedSince(ps, to), ps)
<1>1. ASSUME NEW p \in Prepares
      PROVE  /\ AskedSince(ps, to)[p] \in Prepare
             /\ AskedSince(ps, to)[p].pc = ps[p].pc /\ AskedSince(ps, to)[p].same = ps[p].same
  <2>1. PICK a \in {"no", "latest", "overtaken", "behind"} :
          a = IF ps[p].asking = "latest" \/ (ps[p].asking = "overtaken" /\ to = "behind") THEN to ELSE ps[p].asking
    BY DEF Prepare
  <2>2. AskedSince(ps, to)[p] = [ps[p] EXCEPT !.asking = a]
    BY <2>1 DEF AskedSince
  <2> QED BY <2>2 DEF Prepare
<1> QED BY <1>1 DEF Alongside, AskedSince

\* The session changes under the prepares that go on.
LEMMA FollowAlongsideKeeps ==
    ASSUME CoordinatorInv, Follows(session'), Alongside(prep', prep), live' \in BOOLEAN,
           UNCHANGED disposed, live => live'
    PROVE  CoordinatorInv'
<1>1. \A p \in Prepares : /\ Current(p)' = Current(p) /\ WaitsForJobs(p)' = WaitsForJobs(p)
                          /\ WillAsk(p)' = WillAsk(p)
  BY DEF Alongside, Current, WaitsForJobs, WillAsk
<1>2. Sound(session') /\ prep' \in [Prepares -> Prepare] /\ live' \in BOOLEAN /\ disposed' \in BOOLEAN
  BY DEF Follows, Alongside, CoordinatorInv
<1>3. (\E p \in Prepares : Current(p)') => live' /\ ~disposed'
  BY <1>1 DEF CoordinatorInv
<1>4. (\E p \in Prepares : WaitsForJobs(p)') => Attended(session')
  BY <1>1 DEF CoordinatorInv, Follows
<1>5. Owed(session') => \E p \in Prepares : WillAsk(p)'
  BY <1>1 DEF CoordinatorInv, Follows
<1> QED BY <1>2, <1>3, <1>4, <1>5 DEF CoordinatorInv, Attended, Owed

LEMMA FollowKeeps ==
    ASSUME CoordinatorInv, Follows(session'), UNCHANGED prep, live' \in BOOLEAN,
           UNCHANGED disposed, live => live'
    PROVE  CoordinatorInv'
  BY FollowAlongsideKeeps DEF CoordinatorInv, Alongside

\* The prepares under way give nothing.
LEMMA RenewalKeeps ==
    ASSUME CoordinatorInv, Renewed(session'), prep' \in [Prepares -> Prepare],
           \A p \in Prepares : ~prep'[p].same,
           live' \in BOOLEAN, disposed' \in BOOLEAN
    PROVE  CoordinatorInv'
  BY DEF CoordinatorInv, Renewed, Current, WaitsForJobs, WillAsk

LEMMA KeepKeeps ==
    ASSUME CoordinatorInv, NEW s, NEW aged \in BOOLEAN, NEW ps, Keep(s, ps), Alongside(ps, Outdated(aged)),
           IF aged THEN Renewed(s) ELSE Follows(s)
    PROVE  CoordinatorInv'
<1>1. CASE aged
  BY <1>1, RenewalKeeps, OutdatedIs DEF Keep, CoordinatorInv, Alongside
<1>2. CASE ~aged
  BY <1>2, FollowAlongsideKeeps, OutdatedIs DEF Keep, CoordinatorInv
<1> QED BY <1>1, <1>2

LEMMA OutdatedAlongside ==
    ASSUME prep \in [Prepares -> Prepare], NEW aged \in BOOLEAN
    PROVE  /\ Alongside(Outdated(aged), Outdated(aged)) /\ Outdated(aged) \in [Prepares -> Prepare]
           /\ \A to \in {"overtaken", "behind"} : Alongside(AskedSince(Outdated(aged), to), Outdated(aged))
<1>1. Outdated(aged) \in [Prepares -> Prepare]
  BY OutdatedIs
<1> QED BY <1>1, AskedSinceIs DEF Alongside

LEMMA EnteredIs ==
    ASSUME CoordinatorInv, NEW e \in Entered
    PROVE  /\ Sound(e.s) /\ e.aged \in BOOLEAN
           /\ ~e.aged => e.s = session
           /\ e.aged => Attended(e.s) /\ ~Owed(e.s)
<1>1. CASE e = [s |-> session, aged |-> FALSE]
  BY <1>1 DEF CoordinatorInv
<1>2. CASE e = [s |-> Moved(session), aged |-> TRUE]
  BY <1>2, MovedIsSound DEF CoordinatorInv
<1> QED BY <1>1, <1>2 DEF Entered

LEMMA CallsKeep ==
    ASSUME CoordinatorInv,
           Begin \/ ObserveAction \/ SetCapabilities \/ RefreshBootstrap \/ Drop \/ Evict \/ Dispose
    PROVE  CoordinatorInv'
<1>0. Sound(session) /\ prep \in [Prepares -> Prepare]
  BY DEF CoordinatorInv
<1>1. CASE Begin
  <2>1. PICK e \in Entered, ack \in BOOLEAN : Keep(BeginOn(e.s, ack), Outdated(TRUE))
    BY <1>1 DEF Begin
  <2>2. Renewed(BeginOn(e.s, ack))
    BY EnteredIs, BeginIsSound DEF Renewed
  <2> QED BY <1>0, <2>1, <2>2, KeepKeeps, OutdatedAlongside
<1>2. CASE ObserveAction
  <2>1. PICK e \in Entered, command \in BOOLEAN : Keep(ObserveOn(e.s, command), Outdated(e.aged))
    BY <1>2 DEF ObserveAction
  <2>2. e.aged \in BOOLEAN /\ IF e.aged THEN Renewed(ObserveOn(e.s, command)) ELSE Follows(ObserveOn(e.s, command))
    BY EnteredIs, ObserveIsSound DEF Renewed, Follows
  <2> QED BY <1>0, <2>1, <2>2, KeepKeeps, OutdatedAlongside
<1>3. CASE SetCapabilities
  <2>1. PICK e \in Entered :
          \/ Keep(e.s, Outdated(e.aged))
          \/ Keep(e.s, AskedSince(Outdated(e.aged), "overtaken"))
          \/ \E renewed \in BOOLEAN : Keep(ApplyCaps(e.s, renewed), AskedSince(Outdated(e.aged), "behind"))
    BY <1>3 DEF SetCapabilities
  <2>2. e.aged \in BOOLEAN /\ Sound(e.s) /\ IF e.aged THEN Renewed(e.s) ELSE Follows(e.s)
    BY EnteredIs DEF Renewed, Follows
  <2>3. ASSUME NEW renewed \in BOOLEAN
        PROVE  IF e.aged THEN Renewed(ApplyCaps(e.s, renewed)) ELSE Follows(ApplyCaps(e.s, renewed))
    <3>1. PICK c : c = ApplyCaps(e.s, renewed)
      OBVIOUS
    <3>2. Sound(c) /\ Attended(c) /\ (Owed(c) => Owed(e.s))
      BY <2>2, <3>1, CapsAreSound
    <3> QED BY <2>2, <3>1, <3>2, EnteredIs DEF Renewed, Follows
  <2> QED BY <1>0, <2>1, <2>2, <2>3, KeepKeeps, OutdatedAlongside
<1>4. CASE RefreshBootstrap
  <2>1. PICK e \in Entered : Keep(ScheduleBootstrap(Uncached(e.s)), Outdated(e.aged))
    BY <1>4 DEF RefreshBootstrap
  <2>2. PICK u : u = Uncached(e.s)
    OBVIOUS
  <2>3. Sound(u) /\ Alike(u, e.s)
    BY <2>2, EnteredIs, UncachedIsSound DEF Alike
  <2>4. PICK r : r = ScheduleBootstrap(u)
    OBVIOUS
  <2>5. Sound(r) /\ Alike(r, e.s)
    BY <2>3, <2>4 DEF ScheduleBootstrap, Sound, Sessions, Alike
  <2>6. e.aged \in BOOLEAN /\ IF e.aged THEN Renewed(r) ELSE Follows(r)
    BY <2>5, EnteredIs DEF Renewed, Follows, Alike, Attended, Owed, Pending
  <2> QED BY <1>0, <2>1, <2>2, <2>4, <2>6, KeepKeeps, OutdatedAlongside
<1>5. CASE Drop \/ Dispose
  BY <1>0, <1>5, EmptiedIsSound, RenewalKeeps, OutdatedIs DEF Drop, Dispose, Renewed, CoordinatorInv
<1>6. CASE Evict
  <2>1. Renewed(session') /\ UNCHANGED <<prep, disposed>> /\ live' = FALSE
    BY <1>0, <1>6, EmptiedIsSound DEF Evict, Renewed
  <2>2. \A p \in Prepares : prep[p].pc = "idle"
    BY <1>6 DEF Evict
  <2> QED BY <2>1, <2>2 DEF CoordinatorInv, Renewed, Current, WaitsForJobs, WillAsk
<1> QED BY <1>1, <1>2, <1>3, <1>4, <1>5, <1>6

\* The end of a job: what it held up is looked at again, and only a tracked job can
\* have been what a prepare waits for.
LEMMA FinishKeeps ==
    ASSUME CoordinatorInv, NEW j \in session.jobs, NEW s, Follows(s), s.jobs = session.jobs,
           session' = Finish(j, s), UNCHANGED <<live, prep, disposed>>
    PROVE  CoordinatorInv'
<1>1. PICK r : r = [s EXCEPT !.jobs = s.jobs \ {j}]
  OBVIOUS
<1>2. s \in Sessions /\ Sound(s)
  BY DEF Follows, Sound
<1>3. Sound(r) /\ r.jobs = s.jobs \ {j} /\ r.act = s.act
  BY <1>1, <1>2 DEF Sound, Sessions
<1>4. session' = IF Valid(j) THEN Rematch(r) ELSE r
  BY <1>1 DEF Finish
<1>5. CASE Valid(j)
  <2>1. Sound(session') /\ Attended(session') /\ ~Owed(session')
    BY <1>3, <1>4, <1>5, RematchIsSound
  <2> QED BY <2>1, FollowKeeps DEF Follows, CoordinatorInv
<1>6. CASE ~Valid(j)
  <2>1. Owed(r) => Owed(session)
    BY <1>3 DEF Owed, Follows
  <2>2. ASSUME NEW p \in Prepares, WaitsForJobs(p)' PROVE Attended(r)
    <3>1. WaitsForJobs(p) /\ Current(p)
      BY <2>2 DEF WaitsForJobs, Current
    <3>2. ~j.tracked
      BY <1>6, <3>1 DEF CoordinatorInv, Valid, Sound, JobIsSound
    <3>3. Attended(s)
      BY <3>1 DEF CoordinatorInv, Follows
    <3>4. Pending(r) = Pending(s)
      BY <1>3, <3>2 DEF Pending
    <3> QED BY <1>3, <3>3, <3>4 DEF Attended
  <2> QED BY <1>3, <1>4, <1>6, <2>1, <2>2
          DEF CoordinatorInv, Current, WaitsForJobs, WillAsk, Owed, Attended
<1> QED BY <1>5, <1>6

LEMMA AnswersKeep ==
    ASSUME CoordinatorInv, NEW j \in session.jobs, JobAnswer(j)
    PROVE  CoordinatorInv'
<1>1. PICK b : b = [cat  |-> IF j.kind = "recall" THEN "memory" ELSE "route",
                    good |-> j.era \in {"now", "earlier"} /\ (j.kind = "recall" \/ j.tools)]
  OBVIOUS
<1>2. PICK s \in {session} \union (IF Valid(j) THEN Store(session, b) ELSE {}) : session' = Finish(j, s)
  BY <1>1 DEF JobAnswer
<1>3. Sound(session) /\ j \in Job /\ JobIsSound(j)
  BY DEF CoordinatorInv, Sound, Sessions
<1>4. Valid(j) => b \in Block /\ b.good
  BY <1>1, <1>3 DEF Valid, Block, Job, JobIsSound
<1>5. Sound(s) /\ Alike(s, session)
  BY <1>2, <1>3, <1>4, StoreIsSound DEF Alike
<1>6. Follows(s) /\ s.jobs = session.jobs
  BY <1>5 DEF Follows, Alike, Attended, Owed, Pending
<1>7. UNCHANGED <<live, prep, disposed>>
  BY DEF JobAnswer
<1> QED BY <1>2, <1>6, <1>7, FinishKeeps

LEMMA BootKeeps ==
    ASSUME CoordinatorInv, BootAnswer
    PROVE  CoordinatorInv'
<1>0. Sound(session)
  BY DEF CoordinatorInv
<1>1. ASSUME NEW e \in Era, NEW s, Sound(s), Alike(s, session), session' \in BootStores(e, s)
      PROVE  Follows(session')
  <2>1. PICK b : b = [cat |-> "bootstrap", good |-> e # "elsewhere"]
    OBVIOUS
  <2>2. b \in Block /\ (e = "now" => b.good)
    BY <2>1 DEF Block
  <2>3. session' = s \/ (e = "now" /\ session' \in Store(s, b))
    BY <1>1, <2>1 DEF BootStores, BootApplies
  <2>4. Sound(session') /\ Alike(session', session)
    BY <1>1, <2>2, <2>3, StoreIsSound DEF Alike
  <2> QED BY <2>4 DEF Follows, Alike, Attended, Owed, Pending
<1>2. CASE session' \in BootStores("now", [session EXCEPT !.boot = FALSE])
  <2>1. PICK s : s = [session EXCEPT !.boot = FALSE]
    OBVIOUS
  <2>2. Sound(s) /\ Alike(s, session)
    BY <1>0, <2>1 DEF Sound, Sessions, Alike
  <2> QED BY <1>1, <1>2, <2>1, <2>2, FollowKeeps DEF BootAnswer, CoordinatorInv, Era
<1>3. ASSUME NEW e \in session.strays,
             session' \in BootStores(e, [session EXCEPT !.strays = @ \ {e}])
      PROVE  CoordinatorInv'
  <2>1. PICK s : s = [session EXCEPT !.strays = @ \ {e}]
    OBVIOUS
  <2>2. Sound(s) /\ Alike(s, session) /\ e \in Era
    BY <1>0, <2>1 DEF Sound, Sessions, Alike
  <2> QED BY <1>1, <1>3, <2>1, <2>2, FollowKeeps DEF BootAnswer, CoordinatorInv
<1> QED BY <1>2, <1>3 DEF BootAnswer

LEMMA TriedFollows ==
    ASSUME CoordinatorInv, NEW j, NEW retry \in {"no", "next"}
    PROVE  Follows(Tried(j, retry)) /\ Tried(j, retry).jobs = session.jobs
<1>1. PICK a : a = [held |-> TRUE, tried |-> TRUE, retry |-> retry]
  OBVIOUS
<1>2. a \in Attempt /\ a.tried = TRUE /\ a.retry # "due"
  BY <1>1 DEF Attempt
<1>3. Sound(session)
  BY DEF CoordinatorInv
<1>4. Tried(j, retry) = [session EXCEPT !.act = a] \/ Tried(j, retry) = session
  BY <1>1 DEF Tried
<1>5. PICK r : r = [session EXCEPT !.act = a]
  OBVIOUS
<1>6. Sound(r) /\ r.act = a /\ r.jobs = session.jobs
  BY <1>2, <1>3, <1>5, ActIsSound
<1>7. Follows(r) /\ Follows(session)
  BY <1>2, <1>3, <1>6 DEF Follows, Attended, Owed
<1> QED BY <1>4, <1>5, <1>6, <1>7

LEMMA MatchKeeps ==
    ASSUME CoordinatorInv, NEW j \in session.jobs, MatchStart(j) \/ MatchEnd(j)
    PROVE  CoordinatorInv'
<1>0. Sound(session) /\ j \in Job /\ JobIsSound(j) /\ UNCHANGED <<live, prep, disposed>>
  BY DEF CoordinatorInv, Sound, Sessions, MatchStart, MatchEnd
<1>1. CASE MatchStart(j) /\ session' = Finish(j, session)
  <2>1. Follows(session)
    BY <1>0 DEF Follows
  <2> QED BY <1>0, <1>1, <2>1, FinishKeeps
<1>2. CASE MatchStart(j) /\ session' = Finish(j, Tried(j, "next"))
  <2>1. PICK s : s = Tried(j, "next")
    OBVIOUS
  <2>2. Follows(s) /\ s.jobs = session.jobs
    BY <2>1, TriedFollows
  <2> QED BY <1>0, <1>2, <2>1, <2>2, FinishKeeps
<1>3. CASE /\ IsCurrent(j)
           /\ session' = [session EXCEPT !.jobs = (@ \ {j}) \union {[j EXCEPT !.matching = TRUE]}]
  <2>1. PICK m : m = [j EXCEPT !.matching = TRUE]
    OBVIOUS
  <2>2. m \in Job /\ m.kind = j.kind /\ m.tools = j.tools /\ m.tracked = j.tracked /\ m.era = j.era
    BY <1>0, <2>1 DEF Job
  <2>3. PICK js : js = (session.jobs \ {j}) \union {m}
    OBVIOUS
  <2>4. session' = [session EXCEPT !.jobs = js]
    BY <1>3, <2>1, <2>3
  <2>5. js \subseteq Job /\ \A k \in js : JobIsSound(k)
    BY <1>0, <2>2, <2>3 DEF Sound, Sessions, JobIsSound
  <2>6. Sound(session') /\ session'.jobs = js /\ session'.act = session.act
    BY <1>0, <2>4, <2>5 DEF Sound, Sessions
  <2>7. m \in Pending(session')
    BY <1>3, <2>2, <2>3, <2>6 DEF Pending, IsCurrent
  <2>8. Follows(session')
    BY <2>6, <2>7 DEF Follows, Attended, Owed
  <2> QED BY <1>0, <2>8, FollowKeeps DEF CoordinatorInv
<1>4. CASE MatchEnd(j)
  <2>1. PICK b : b = [cat |-> "action_rule", good |-> j.era \in {"now", "earlier"} /\ j.tools]
    OBVIOUS
  <2>2. PICK s : s = IF IsCurrent(j) THEN Tried(j, "no") ELSE session
    OBVIOUS
  <2>3. Follows(s) /\ s.jobs = session.jobs
    BY <1>0, <2>2, TriedFollows DEF Follows
  <2>4. PICK r \in {s} \union (IF IsCurrent(j) THEN Store(s, b) ELSE {}) : session' = Finish(j, r)
    BY <1>4, <2>1, <2>2 DEF MatchEnd
  <2>5. IsCurrent(j) => b \in Block /\ b.good
    BY <1>0, <1>4, <2>1 DEF IsCurrent, Valid, Block, JobIsSound, MatchEnd
  <2>6. Sound(r) /\ Alike(r, s)
    BY <2>3, <2>4, <2>5, StoreIsSound DEF Alike, Follows
  <2>7. Follows(r) /\ r.jobs = session.jobs
    BY <2>3, <2>6 DEF Follows, Alike, Attended, Owed, Pending
  <2> QED BY <1>0, <2>4, <2>7, FinishKeeps
<1> QED BY <1>0, <1>1, <1>2, <1>3, <1>4 DEF MatchStart

LEMMA StartKeeps ==
    ASSUME CoordinatorInv, NEW p \in Prepares, PrepareStart(p)
    PROVE  CoordinatorInv'
<1>0. PICK e \in Entered : \E s \in Expire(e.s) :
        /\ session' = [s EXCEPT !.act.retry = IF @ = "next" THEN "due" ELSE @]
        /\ prep' = [AskedSince(Outdated(e.aged), "overtaken") EXCEPT ![p] = Asked]
  BY DEF PrepareStart
<1>1. PICK s \in Expire(e.s) :
        /\ session' = [s EXCEPT !.act.retry = IF @ = "next" THEN "due" ELSE @]
        /\ prep' = [AskedSince(Outdated(e.aged), "overtaken") EXCEPT ![p] = Asked]
  BY <1>0
<1>2. Sound(e.s) /\ e.aged \in BOOLEAN /\ (~e.aged => e.s = session) /\ (e.aged => Attended(e.s))
  BY EnteredIs
<1>3. Sound(s) /\ Alike(s, e.s)
  BY <1>2, ExpireIsSound
<1>4. PICK x \in {"no", "next", "due"} : x = IF s.act.retry = "next" THEN "due" ELSE s.act.retry
  BY <1>3 DEF Sound, Sessions, Attempt
<1>5. PICK a : a = [s.act EXCEPT !.retry = x]
  OBVIOUS
<1>6. a \in Attempt /\ a.held = s.act.held /\ a.tried = s.act.tried
  BY <1>3, <1>4, <1>5 DEF Sound, Sessions, Attempt
<1>7. session' = [s EXCEPT !.act = a]
  BY <1>1, <1>4, <1>5
<1>8. Sound(session') /\ session'.act = a /\ session'.jobs = s.jobs
  BY <1>3, <1>6, <1>7, ActIsSound
<1>9. Attended(e.s) => Attended(session')
  BY <1>3, <1>6, <1>8 DEF Attended, Alike, Pending
<1>10. PICK ps : ps = AskedSince(Outdated(e.aged), "overtaken")
  OBVIOUS
<1>11. Asked \in Prepare /\ Asked.pc = "caps" /\ Asked.same = TRUE
  BY DEF Asked, Prepare
<1>12. /\ prep' \in [Prepares -> Prepare] /\ prep'[p] = Asked
       /\ \A q \in Prepares \ {p} : /\ prep'[q].pc = Outdated(e.aged)[q].pc
                                   /\ prep'[q].same = Outdated(e.aged)[q].same
  <2>1. Alongside(ps, Outdated(e.aged)) /\ prep' = [ps EXCEPT ![p] = Asked]
    BY <1>1, <1>2, <1>10, OutdatedAlongside DEF CoordinatorInv
  <2> QED BY <1>11, <2>1 DEF Alongside
<1>13. WillAsk(p)'
  BY <1>11, <1>12 DEF WillAsk
<1>14. live' = TRUE /\ disposed' = disposed /\ disposed = FALSE
  BY DEF PrepareStart, CallsIn, CoordinatorInv
<1>15. ASSUME NEW q \in Prepares, WaitsForJobs(q)' PROVE Attended(session')
  <2>1. q # p
    BY <1>11, <1>12, <1>15 DEF WaitsForJobs
  <2>2. CASE e.aged
    BY <1>2, <1>9, <2>2
  <2>3. CASE ~e.aged
    <3>1. prep'[q].pc = prep[q].pc /\ prep'[q].same = prep[q].same
      BY <1>2, <1>12, <2>1, <2>3, OutdatedIs DEF CoordinatorInv
    <3> QED BY <1>2, <1>9, <1>15, <2>3, <3>1 DEF CoordinatorInv, WaitsForJobs
  <2> QED BY <1>2, <2>2, <2>3
<1> QED BY <1>8, <1>12, <1>13, <1>14, <1>15 DEF CoordinatorInv, Attended

\* A prepare goes on or ends while the session changes as it may.
LEMMA GoKeeps ==
    ASSUME CoordinatorInv, NEW p \in Prepares, NEW c \in Prepare, prep' = [prep EXCEPT ![p] = c],
           UNCHANGED <<live, disposed>>, Sound(session'),
           Attended(session) \/ WaitsForJobs(p)' => Attended(session'),
           Owed(session') => Owed(session) /\ (~WillAsk(p) \/ WillAsk(p)'),
           Current(p)' => Current(p)
    PROVE  CoordinatorInv'
<1>1. prep' \in [Prepares -> Prepare] /\ \A q \in Prepares \ {p} : prep'[q] = prep[q]
  BY DEF CoordinatorInv
<1>2. \A q \in Prepares \ {p} : /\ WaitsForJobs(q)' = WaitsForJobs(q) /\ Current(q)' = Current(q)
                                /\ WillAsk(q)' = WillAsk(q)
  BY <1>1 DEF WaitsForJobs, Current, WillAsk
<1>3. (\E q \in Prepares : Current(q)') => live' /\ ~disposed'
  BY <1>2 DEF CoordinatorInv
<1>4. ASSUME NEW q \in Prepares, WaitsForJobs(q)' PROVE Attended(session')
  BY <1>2, <1>4 DEF CoordinatorInv
<1>5. ASSUME Owed(session') PROVE \E q \in Prepares : WillAsk(q)'
  BY <1>2, <1>5 DEF CoordinatorInv
<1> QED BY <1>1, <1>3, <1>4, <1>5 DEF CoordinatorInv, Attended, Owed

LEMMA PrepareKeeps ==
    ASSUME CoordinatorInv, NEW p \in Prepares,
           PrepareDeadline(p) \/ CapsAnswer(p) \/ PrepareStep(p)
    PROVE  CoordinatorInv'
<1>1. Sound(session) /\ prep[p] \in Prepare /\ prep \in [Prepares -> Prepare] /\ UNCHANGED <<live, disposed>>
  BY DEF CoordinatorInv, PrepareDeadline, CapsAnswer, PrepareStep, PrepareOutdated, PrepareSchedule,
         PrepareWaited, PrepareFormat
<1>2. ASSUME prep' = [prep EXCEPT ![p].late = TRUE] \/ prep' = [prep EXCEPT ![p].asking = "no"]
      PROVE  \E c \in Prepare : prep' = [prep EXCEPT ![p] = c] /\ c.pc = prep[p].pc /\ c.same = prep[p].same
  <2>1. PICK c : /\ c = [prep[p] EXCEPT !.late = TRUE] \/ c = [prep[p] EXCEPT !.asking = "no"]
                 /\ prep' = [prep EXCEPT ![p] = c]
    BY <1>2
  <2> QED BY <1>1, <2>1 DEF Prepare
<1>3. ASSUME NEW l \in {"idle", "caps", "pending", "boot"}, Goto(p, l)
      PROVE  \E c \in Prepare : prep' = [prep EXCEPT ![p] = c] /\ c.pc = l /\ c.same = prep[p].same
  <2>1. PICK c : c = [prep[p] EXCEPT !.pc = l, !.asking = "no"]
    OBVIOUS
  <2>2. c \in Prepare /\ c.pc = l /\ c.same = prep[p].same
    BY <1>1, <2>1 DEF Prepare
  <2>3. prep' = [prep EXCEPT ![p] = c]
    BY <1>3, <2>1 DEF Goto
  <2> QED BY <2>2, <2>3
<1>4. Idle \in Prepare /\ Idle.pc = "idle" /\ Idle.same = FALSE
  BY DEF Idle, Prepare
<1>5. \A c \in Prepare : prep' = [prep EXCEPT ![p] = c] => prep'[p] = c
  BY DEF CoordinatorInv
<1>6. CASE PrepareDeadline(p) \/ CapsAnswer(p)
  <2>1. Alongside(prep', prep)
    <3>1. CASE CapsApply(p)
      <4>1. PICK ps : ps = AskedSince(prep, "behind")
        OBVIOUS
      <4>2. Alongside(ps, prep) /\ prep' = [ps EXCEPT ![p] = [ps[p] EXCEPT !.asking = "no"]]
        BY <1>1, <3>1, <4>1, AskedSinceIs DEF CapsApply
      <4>3. ps[p] \in Prepare
        BY <4>2 DEF Alongside
      <4>4. /\ [ps[p] EXCEPT !.asking = "no"] \in Prepare
            /\ [ps[p] EXCEPT !.asking = "no"].pc = ps[p].pc /\ [ps[p] EXCEPT !.asking = "no"].same = ps[p].same
        BY <4>3 DEF Prepare
      <4> QED BY <4>2, <4>4 DEF Alongside
    <3>2. CASE ~CapsApply(p)
      <4>1. PICK c \in Prepare : prep' = [prep EXCEPT ![p] = c] /\ c.pc = prep[p].pc /\ c.same = prep[p].same
        BY <1>2, <1>6, <3>2 DEF PrepareDeadline, CapsAnswer
      <4> QED BY <1>1, <4>1 DEF Alongside
    <3> QED BY <3>1, <3>2
  <2>2. Follows(session')
    <3>1. CASE CapsApply(p)
      <4>1. PICK renewed \in BOOLEAN :
              session' = [ApplyCaps(session, renewed) EXCEPT !.back = @ \/ prep[p].asking = "behind"]
        BY <3>1 DEF CapsApply
      <4>2. PICK c : c = ApplyCaps(session, renewed)
        OBVIOUS
      <4>3. Sound(c) /\ Attended(c) /\ (Owed(c) => Owed(session))
        BY <1>1, <4>2, CapsAreSound
      <4>4. prep[p].asking = "latest"
        BY <3>1 DEF CapsApply
      <4>5. session' = [c EXCEPT !.back = FALSE] /\ c \in Sessions /\ c.back = FALSE
        BY <4>1, <4>2, <4>3, <4>4 DEF Sound, Sessions
      <4>6. session' = c
        BY <4>5 DEF Sessions
      <4> QED BY <4>3, <4>6 DEF Follows
    <3>2. CASE ~CapsApply(p)
      BY <1>1, <1>6, <3>2 DEF PrepareDeadline, CapsAnswer, Follows
    <3> QED BY <3>1, <3>2
  <2> QED BY <1>1, <2>1, <2>2, FollowAlongsideKeeps DEF CoordinatorInv
<1>7. CASE PrepareOutdated(p) \/ PrepareFormat(p)
  <2>1. prep' = [prep EXCEPT ![p] = Idle] /\ prep'[p] = Idle
    BY <1>4, <1>5, <1>7 DEF PrepareOutdated, PrepareFormat, Return
  <2>2. ~WaitsForJobs(p)' /\ ~Current(p)' /\ ~WillAsk(p)
    BY <1>4, <1>7, <2>1 DEF WaitsForJobs, Current, WillAsk, PrepareOutdated, PrepareFormat
  <2>3. Sound(session') /\ Alike(session', session)
    <3>1. CASE session' = session
      BY <1>1, <3>1 DEF Alike
    <3>2. CASE session' = [session EXCEPT !.snap = Formatted(session)]
      <4>1. PICK t \in {"none", "current"} : t = Formatted(session)
        BY DEF Formatted
      <4> QED BY <1>1, <3>2, <4>1 DEF Sound, Sessions, Alike
    <3> QED BY <1>7, <3>1, <3>2 DEF PrepareOutdated, PrepareFormat
  <2>4. (Attended(session) => Attended(session')) /\ (Owed(session') => Owed(session))
    BY <2>3 DEF Alike, Attended, Owed, Pending
  <2> QED BY <1>1, <1>4, <2>1, <2>2, <2>3, <2>4, GoKeeps
<1>8. CASE PrepareSchedule(p)
  <2>1. PICK s : s = ScheduleBootstrap(session)
    OBVIOUS
  <2>2. Sound(s)
    BY <1>1, <2>1 DEF ScheduleBootstrap, Sound, Sessions
  <2>3. Sound(session') /\ Attended(session') /\ ~Owed(session')
    BY <1>8, <2>1, <2>2, RematchIsSound DEF PrepareSchedule
  <2>4. Current(p)
    BY <1>8 DEF PrepareSchedule, Current
  <2>5. \E c \in Prepare : prep' = [prep EXCEPT ![p] = c]
    BY <1>3, <1>4, <1>8 DEF PrepareSchedule, Return
  <2> QED BY <1>1, <2>3, <2>4, <2>5, GoKeeps
<1>9. CASE PrepareWaited(p)
  <2>1. PICK c \in Prepare : prep' = [prep EXCEPT ![p] = c] /\ c.pc = "boot" /\ c.same = prep[p].same
    BY <1>3, <1>9 DEF PrepareWaited
  <2>2. prep'[p] = c
    BY <1>5, <2>1
  <2>3. ~WaitsForJobs(p)' /\ Current(p) /\ ~WillAsk(p)
    BY <1>9, <2>1, <2>2 DEF PrepareWaited, WaitsForJobs, Current, WillAsk
  <2>4. Sound(session') /\ Alike(session', session)
    BY <1>1, <1>9, ExpireIsSound DEF PrepareWaited
  <2>5. (Attended(session) => Attended(session')) /\ (Owed(session') => Owed(session))
    BY <2>4 DEF Alike, Attended, Owed, Pending
  <2> QED BY <1>1, <2>1, <2>3, <2>4, <2>5, GoKeeps
<1> QED BY <1>6, <1>7, <1>8, <1>9 DEF PrepareStep

LEMMA CoordinatorStarts == CoordinatorInit => CoordinatorInv
<1> SUFFICES ASSUME CoordinatorInit PROVE CoordinatorInv
  OBVIOUS
<1>1. Sound(session) /\ session.act = NotHeld
  BY AttemptsTyped DEF CoordinatorInit, Fresh, Sound, Sessions
<1>2. prep \in [Prepares -> Prepare] /\ \A p \in Prepares : prep[p].pc = "idle"
  BY DEF CoordinatorInit, Idle, Prepare
<1> QED BY <1>1, <1>2, AttemptsTyped
        DEF CoordinatorInv, CoordinatorInit, Current, WaitsForJobs, WillAsk, Owed

LEMMA CoordinatorKept == CoordinatorInv /\ [CoordinatorNext]_coordinatorVars => CoordinatorInv'
<1> SUFFICES ASSUME CoordinatorInv, [CoordinatorNext]_coordinatorVars PROVE CoordinatorInv'
  OBVIOUS
<1>1. CASE GrepClose \/ UNCHANGED coordinatorVars
  <2>1. UNCHANGED <<session, live, prep, disposed>>
    BY <1>1 DEF GrepClose, coordinatorVars
  <2> QED BY <2>1 DEF CoordinatorInv, Sound, Attended, Owed, Pending, Current, WaitsForJobs, WillAsk
<1>2. CASE SettleJob
  BY <1>2, AnswersKeep, MatchKeeps DEF SettleJob
<1>3. CASE BootAnswer
  BY <1>3, BootKeeps
<1>4. ASSUME NEW p \in Prepares, PrepareStart(p) \/ PrepareDeadline(p) \/ CapsAnswer(p) \/ PrepareStep(p)
      PROVE  CoordinatorInv'
  BY <1>4, StartKeeps, PrepareKeeps
<1> QED BY <1>1, <1>2, <1>3, <1>4, CallsKeep DEF CoordinatorNext

\* PromptIsCurrent in every reachable state, for any number of prepares, jobs and
\* blocks: whenever an answer comes, a session holds no block of another subject or
\* place or of another revision of the tools, and its cached text is the one it would format.
THEOREM PromptsAreCurrent == CoordinatorSpec => []PromptIsCurrent
<1>1. CoordinatorInv => PromptIsCurrent
  BY DEF CoordinatorInv, Sound, PromptIsCurrent, NothingStale, CachedIsCurrent
<1> QED BY <1>1, CoordinatorStarts, CoordinatorKept, PTL DEF CoordinatorSpec

\* PreparedIsComplete of every step: a prepare goes on without running out of time only
\* when the retained tool call has been matched, or a later prepare asks again.
THEOREM PreparesAreComplete == CoordinatorSpec => PreparedIsComplete
<1> DEFINE Complete(p) ==
      /\ prep[p].pc = "pending" /\ prep'[p].pc = "boot" /\ ~prep[p].late
      /\ session.act.held
      => /\ session.act.tried
         /\ session.act.retry # "due" \/ \E q \in Prepares \ {p} : prep[q].pc = "caps"
<1>1. CoordinatorInv /\ [CoordinatorNext]_coordinatorVars
        => [\A p \in Prepares : Complete(p)]_coordinatorVars
  <2> SUFFICES ASSUME CoordinatorInv, CoordinatorNext, NEW p \in Prepares,
                      prep[p].pc = "pending", prep'[p].pc = "boot", ~prep[p].late,
                      session.act.held
               PROVE  /\ session.act.tried
                      /\ session.act.retry # "due" \/ \E q \in Prepares \ {p} : prep[q].pc = "caps"
    OBVIOUS
  <2>1. prep \in [Prepares -> Prepare]
    BY DEF CoordinatorInv
  <2>2. \A b \in BOOLEAN : \A q \in Prepares : Outdated(b)[q].pc = prep[q].pc
    BY <2>1, OutdatedIs
  <2>3. PrepareWaited(p)
    <3>1. CASE Begin \/ ObserveAction \/ SetCapabilities \/ RefreshBootstrap
      <4>1. PICK aged \in BOOLEAN : Alongside(prep', Outdated(aged))
        <5>1. CASE Begin
          BY <2>1, <5>1, OutdatedAlongside DEF Begin, Keep
        <5>2. CASE ~Begin
          <6>1. PICK e \in Entered : \/ prep' = Outdated(e.aged)
                                   \/ \E to \in {"overtaken", "behind"} : prep' = AskedSince(Outdated(e.aged), to)
            BY <3>1, <5>2 DEF ObserveAction, SetCapabilities, RefreshBootstrap, Keep
          <6>2. e.aged \in BOOLEAN
            BY EnteredIs
          <6> QED BY <2>1, <6>1, <6>2, OutdatedAlongside
        <5> QED BY <5>1, <5>2
      <4> QED BY <2>2, <4>1 DEF Alongside
    <3>2. CASE Drop \/ Evict \/ Dispose \/ GrepClose \/ SettleJob \/ BootAnswer
      BY <2>2, <3>2 DEF Drop, Evict, Dispose, GrepClose, SettleJob, JobAnswer, MatchStart, MatchEnd, BootAnswer
    <3>3. ASSUME NEW q \in Prepares, PrepareStart(q) PROVE FALSE
      <4>1. PICK e \in Entered : prep' = [AskedSince(Outdated(e.aged), "overtaken") EXCEPT ![q] = Asked]
        BY <3>3 DEF PrepareStart
      <4>2. e.aged \in BOOLEAN /\ Alongside(AskedSince(Outdated(e.aged), "overtaken"), Outdated(e.aged))
        BY <2>1, EnteredIs, OutdatedAlongside
      <4>3. Asked.pc = "caps"
        BY DEF Asked
      <4> QED BY <2>2, <4>1, <4>2, <4>3 DEF Alongside
    <3>4. ASSUME NEW q \in Prepares, PrepareDeadline(q) \/ CapsAnswer(q) PROVE FALSE
      <4>1. CASE CapsApply(q)
        <5>1. PICK ps : ps = AskedSince(prep, "behind")
          OBVIOUS
        <5>2. Alongside(ps, prep) /\ prep' = [ps EXCEPT ![q] = [ps[q] EXCEPT !.asking = "no"]]
          BY <2>1, <4>1, <5>1, AskedSinceIs DEF CapsApply
        <5>3. ps[p].pc = "pending" /\ ps[q] \in Prepare /\ ps \in [Prepares -> Prepare]
          BY <5>2 DEF Alongside
        <5>4. [ps[q] EXCEPT !.asking = "no"].pc = ps[q].pc
          BY <5>3 DEF Prepare
        <5>5. prep'[p].pc = ps[p].pc
          BY <5>2, <5>3, <5>4
        <5> QED BY <5>3, <5>5
      <4>2. CASE ~CapsApply(q)
        <5>1. \/ prep' = [prep EXCEPT ![q] = [prep[q] EXCEPT !.late = TRUE]]
              \/ prep' = [prep EXCEPT ![q] = [prep[q] EXCEPT !.asking = "no"]]
          BY <3>4, <4>2 DEF PrepareDeadline, CapsAnswer
        <5> QED BY <2>1, <5>1 DEF Prepare
      <4> QED BY <4>1, <4>2
    <3>5. ASSUME NEW q \in Prepares, PrepareStep(q), q # p PROVE FALSE
      <4>1. prep'[p] = prep[p]
        BY <2>1, <3>5 DEF PrepareStep, PrepareOutdated, PrepareSchedule, PrepareWaited, PrepareFormat,
                           Return, Goto
      <4> QED BY <4>1
    <3>6. CASE PrepareOutdated(p) \/ PrepareFormat(p)
      BY <2>1, <3>6 DEF PrepareOutdated, PrepareFormat, Return, Idle
    <3>7. CASE PrepareSchedule(p)
      BY <3>7 DEF PrepareSchedule
    <3> QED BY <3>1, <3>2, <3>3, <3>4, <3>5, <3>6, <3>7 DEF CoordinatorNext, PrepareStep
  <2>4. WaitsForJobs(p) /\ Pending(session) = {}
    BY <2>3 DEF PrepareWaited, WaitsForJobs
  <2>5. session.act.tried
    BY <2>4 DEF CoordinatorInv, Attended
  <2>6. ASSUME session.act.retry = "due" PROVE \E q \in Prepares \ {p} : prep[q].pc = "caps"
    BY <2>6 DEF CoordinatorInv, Owed, WillAsk
  <2> QED BY <2>5, <2>6
<1> QED BY <1>1, CoordinatorStarts, CoordinatorKept, PTL DEF CoordinatorSpec, PreparedIsComplete
=============================================================================
