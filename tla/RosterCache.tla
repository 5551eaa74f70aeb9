----------------------------- MODULE RosterCache -----------------------------
(* The answer of `claude mcp list`, polled once per directory and day and    *)
(* shared between sessions (mcp_roster.py, brain-session-start.sh:146).      *)
(*                                                                           *)
(* A session checks the shared answer against the key stored beside it; on a *)
(* miss it polls, and publishes its own file, the answer and the key, one    *)
(* atomic write each. What the answer depends on is one value, the layers,   *)
(* which the user changes at any moment, also back to what they were.        *)
EXTENDS Naturals

CONSTANTS
    Sessions,   \* sessions started in one directory
    Layers,     \* what the configuration layers can hold
    NoFile,
    MaxPolls,   \* bound on polls
    MaxLayerEdits  \* bound on changes of the layers

VARIABLES
    layers,    \* what the configuration holds
    roster,    \* the shared answer: [poll, under] or NoFile
    keyFile,   \* its key: [of: layers, poll: of its publisher] or NoFile
    outlived,  \* the shared answer is older than TTL_S
    own,       \* a session's file: an answer or NoFile
    starter,   \* a session's SessionStart: [at, key, answer, seen]
    polls, layerEdits,
    crossed,   \* polls published while another one was
    adopted    \* what a check adopted: [answer, key] or NoFile

rosterFiles == <<roster, keyFile, outlived>>
rosterVars == <<layers, rosterFiles, own, starter, polls, layerEdits, crossed, adopted>>

Resting == [at |-> "idle", key |-> NoFile, answer |-> NoFile, seen |-> NoFile]

RosterInit ==
    /\ layers \in Layers /\ roster = NoFile /\ keyFile = NoFile /\ outlived = FALSE
    /\ own = [s \in Sessions |-> NoFile] /\ starter = [s \in Sessions |-> Resting]
    /\ polls = 0 /\ layerEdits = 0
    /\ crossed = {} /\ adopted = [s \in Sessions |-> NoFile]

Rest(s) == starter' = [starter EXCEPT ![s] = Resting]
GoTo(s, where) == starter' = [starter EXCEPT ![s].at = where]
Publishing == {s \in Sessions : starter[s].at \in {"publish", "roster", "key"}}

ChangeLayers ==
    /\ layerEdits < MaxLayerEdits
    /\ layerEdits' = layerEdits + 1
    /\ layers' \in Layers \ {layers}
    /\ UNCHANGED <<rosterFiles, own, starter, polls, crossed, adopted>>

(* A session is an hour old, or a new one takes its place: no own roster.    *)
DropOwn(s) ==
    /\ starter[s].at = "idle" /\ own[s] # NoFile
    /\ own' = [own EXCEPT ![s] = NoFile]
    /\ adopted' = [adopted EXCEPT ![s] = NoFile]
    /\ UNCHANGED <<layers, rosterFiles, starter, polls, layerEdits, crossed>>

(* check: the answer's age and the key.                                      *)
ReadKey(s) ==
    /\ starter[s].at = "idle" /\ own[s] = NoFile
    /\ starter' = [starter EXCEPT ![s].key = keyFile, ![s].at =
          IF roster = NoFile \/ keyFile = NoFile \/ outlived THEN "missed" ELSE "compare"]
    /\ UNCHANGED <<layers, rosterFiles, own, polls, layerEdits, crossed, adopted>>

(* check: a snapshot of the layers against the key.                          *)
CompareKey(s) ==
    /\ starter[s].at = "compare"
    /\ GoTo(s, IF layers = starter[s].key.of THEN "adopt" ELSE "missed")
    /\ UNCHANGED <<layers, rosterFiles, own, polls, layerEdits, crossed, adopted>>

Adopt(s) ==
    /\ starter[s].at = "adopt"
    /\ IF roster = NoFile
       THEN GoTo(s, "missed") /\ UNCHANGED <<own, adopted>>
       ELSE /\ Rest(s)
            /\ own' = [own EXCEPT ![s] = roster]
            /\ adopted' = [adopted EXCEPT ![s] = [answer |-> roster, key |-> starter[s].key]]
    /\ UNCHANGED <<layers, rosterFiles, polls, layerEdits, crossed>>

(* The detached poll; it may fail, or name no server and be dropped.         *)
Poll(s) ==
    /\ starter[s].at = "missed"
    /\ polls < MaxPolls
    /\ polls' = polls + 1
    /\ starter' = [starter EXCEPT ![s].at = "publish", ![s].key = NoFile,
                                  ![s].answer = [poll |-> polls + 1, under |-> layers]]
    /\ crossed' = IF Publishing = {} THEN crossed
                  ELSE crossed \cup {polls + 1} \cup {starter[t].answer.poll : t \in Publishing}
    /\ UNCHANGED <<layers, rosterFiles, own, layerEdits, adopted>>

PollNothing(s) ==
    /\ starter[s].at = "missed"
    /\ Rest(s)
    /\ UNCHANGED <<layers, rosterFiles, own, polls, layerEdits, crossed, adopted>>

(* publish: the session's own file, then the snapshot.                       *)
PublishOwn(s) ==
    /\ starter[s].at = "publish"
    /\ own' = [own EXCEPT ![s] = starter[s].answer]
    /\ starter' = [starter EXCEPT ![s].seen = layers, ![s].at = "roster"]
    /\ UNCHANGED <<layers, rosterFiles, polls, layerEdits, crossed, adopted>>

WriteRoster(s) == roster' = starter[s].answer /\ outlived' = FALSE /\ UNCHANGED keyFile
WriteKey(s) ==
    keyFile' = [of |-> starter[s].seen, poll |-> starter[s].answer.poll] /\ UNCHANGED <<roster, outlived>>

(* publish, the key first: a check in between finds it beside an older       *)
(* answer.                                                                   *)
AltPublishShared(s) ==
    /\ \/ starter[s].at = "roster" /\ WriteKey(s) /\ GoTo(s, "key")
       \/ starter[s].at = "key" /\ WriteRoster(s) /\ Rest(s)
    /\ UNCHANGED <<layers, own, polls, layerEdits, crossed, adopted>>

(* publish: the answer, and then the key that makes it findable.             *)
PublishShared(s) ==
    /\ \/ starter[s].at = "roster" /\ WriteRoster(s) /\ GoTo(s, "key")
       \/ starter[s].at = "key" /\ WriteKey(s) /\ Rest(s)
    /\ UNCHANGED <<layers, own, polls, layerEdits, crossed, adopted>>

(* publish fails or is killed: the hook moves the poll's output into place.  *)
BreakPublish(s) ==
    /\ s \in Publishing
    /\ own' = [own EXCEPT ![s] = starter[s].answer]
    /\ Rest(s)
    /\ UNCHANGED <<layers, rosterFiles, polls, layerEdits, crossed, adopted>>

(* A day passes; a later SessionStart sweeps the files by their age.         *)
OutliveRoster ==
    /\ roster # NoFile /\ ~outlived
    /\ outlived' = TRUE
    /\ UNCHANGED <<layers, roster, keyFile, own, starter, polls, layerEdits, crossed, adopted>>

SweepRoster ==
    /\ outlived
    /\ \/ roster' = NoFile /\ outlived' = FALSE /\ UNCHANGED keyFile
       \/ keyFile # NoFile /\ keyFile' = NoFile /\ UNCHANGED <<roster, outlived>>
    /\ UNCHANGED <<layers, own, starter, polls, layerEdits, crossed, adopted>>

RosterNext ==
    \/ ChangeLayers \/ OutliveRoster \/ SweepRoster
    \/ \E s \in Sessions :
          \/ DropOwn(s) \/ ReadKey(s) \/ CompareKey(s) \/ Adopt(s)
          \/ Poll(s) \/ PollNothing(s) \/ PublishOwn(s) \/ PublishShared(s) \/ BreakPublish(s)

RosterSpec == RosterInit /\ [][RosterNext]_rosterVars

---------------------------------------------------------------------------
(* An adopted answer was polled no earlier than the poll whose publisher     *)
(* wrote the key the check matched, or under the very layers it compared     *)
(* (mcp_roster.py:289), whatever changes, is swept, dies or is published in  *)
(* between: an older answer never passes under a newer key. Only publishers  *)
(* that overlap can cross the two.                                           *)
RosterBelongs ==
    \A s \in Sessions : adopted[s] # NoFile =>
       LET hit == adopted[s]
       IN \/ hit.answer.poll >= hit.key.poll
          \/ hit.answer.under = hit.key.of
          \/ {hit.answer.poll, hit.key.poll} \cap crossed # {}
=============================================================================
