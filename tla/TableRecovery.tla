--------------------------- MODULE TableRecovery ----------------------------
(***************************************************************************)
(* The reconciliation of one TableRecovery (controller.rs): restore the    *)
(* archive into an empty table, copy the bounded range, run a connector    *)
(* over the copy, and leave a follow connector at the end of it. It starts *)
(* from the top after every error and every restart, with nothing but what *)
(* Kubernetes, ClickHouse and Kafka Connect remember, and it reads the     *)
(* recovery's own status from a cache that lags.                           *)
(*                                                                         *)
(* Each source connector has one partition. That a copy is complete is     *)
(* BoundedCopy.tla; its gaps are left out here, so replay offset n is      *)
(* source offset Start + n. The sink inserts a record and moves its        *)
(* KeeperMap row in one step; what a put can do halfway is in              *)
(* SnapshotBarrier.tla. Partition counts are left out, and of the source's *)
(* retention nothing is left but that a task fails of it.                  *)
(***************************************************************************)
EXTENDS Integers, FiniteSetsExt

CONSTANTS
    NumConnectors,  \* source connectors of the table, recovered in order
    Modes,          \* whether targetOffsets is given, see Bounded
    Start,          \* the checkpoint of a connector
    Target,         \* its target, if the recovery is bounded
    LogEnd,         \* bound: the source has the records 0 .. LogEnd[i] - 1
    MaxFailures,    \* bound: how often a request fails, or a server or the controller dies
    Faults          \* which faults happen, see FaultKinds

\* fail: a request fails, with or without effect; crash: the controller dies;
\* restore: ClickHouse fails to restore; amnesia: ClickHouse restarts, which
\* ends a restore and empties system.backups; task: a running task fails, be it
\* that ClickHouse is gone or its record; retention: replay topics are trimmed;
\* cutover: the user, who has seen Complete, resumes the follow connectors.
FaultKinds == {"fail", "crash", "restore", "amnesia", "task", "retention", "cutover"}

Indexes == 1 .. NumConnectors

ASSUME RecoveryAssumption ==
    /\ NumConnectors \in Nat \ {0}
    /\ Modes \subseteq {"PointInTime", "Follow"}
    /\ Start \in [Indexes -> Nat]
    /\ Target \in [Indexes -> Nat]
    /\ LogEnd \in [Indexes -> Nat]
    /\ \A i \in Indexes : Start[i] <= Target[i] /\ Target[i] <= LogEnd[i]
    /\ MaxFailures \in Nat
    /\ Faults \subseteq FaultKinds

Unset == -1  \* no committed offset, no KeeperMap row

Prefix(n) == 0 .. n - 1

Roles == {"replay", "follow"}

\* A connector: its state, the offset Connect committed, and the next offset its
\* KeeperMap row stands for.
Connector(n) ==
    [state : {"absent", "STOPPED", "stopping", "RUNNING", "FAILED"},
     offset : 0 .. n \cup {Unset}, row : 0 .. n \cup {Unset}]

Absent == [state |-> "absent", offset |-> Unset, row |-> Unset]

VARIABLES
    mode,      \* of the plan: to a target, or live
    phase,     \* status.phase
    seen,      \* what the controller's cache says it is
    queued,    \* a reconciliation is due
    restore,   \* the restore operation, as system.backups has it
    dest,      \* the source offsets in the destination, per connector
    repeated,  \* auxiliary: a record was inserted twice
    user,      \* what the user may do, or did, with a follow connector
    conn,      \* the recovery connectors, per role and source connector
    low,       \* the first record a replay topic still has, Unset before it is copied
    early,     \* auxiliary: it was trimmed before its connector had stopped at its end
    pc,        \* the request reconciliation makes next
    role,      \* the connector it is about
    index,     \* the source connector it is at
    view,      \* the phase it began with
    empty,     \* the destination had no rows
    created,   \* create_stopped made the connector
    existing,  \* the KeeperMap row found before that
    failures   \* how often any of them did

statusVars == <<phase, seen, queued>>
tableVars == <<restore, dest, repeated>>
localVars == <<role, index, view, empty, created, existing>>
controllerVars == <<mode, statusVars, pc, localVars, failures>>
topicVars == <<low, early>>
connectVars == <<conn, user, topicVars>>
vars == <<controllerVars, tableVars, connectVars>>

\* targetOffsets was given.
Bounded == mode = "PointInTime"

\* Mutant of Goal: the follow connector takes over at the checkpoint.
Checkpoint(i) == Start[i]

\* Where the follow connector takes over, and its KeeperMap row there.
Goal(i) == IF Bounded THEN Target[i] ELSE Start[i]
GoalRow(i) == IF Goal(i) = 0 THEN Unset ELSE Goal(i)

Terminal == {"Complete", "Streaming"}
Phases == {"none", "Restoring", "Replaying"} \cup Terminal
Steps == {"idle", "rows", "mark_restoring", "restore_state", "restore", "restoring",
          "mark_replaying", "copy", "keeper", "create", "stop", "stopped", "retained",
          "patch", "compare", "resume", "running", "catch_up", "hydrate", "progress",
          "check_offsets", "check_stopped", "finish"}

\* Every variable has its type.
TypeOK ==
    /\ mode \in Modes
    /\ phase \in Phases /\ seen \in Phases /\ queued \in BOOLEAN
    /\ restore \in {"Missing", "RESTORING", "RESTORED", "RESTORE_FAILED"}
    /\ dest \in [Indexes -> SUBSET Nat]
    /\ \A i \in Indexes : dest[i] \subseteq Prefix(LogEnd[i])
    /\ repeated \in BOOLEAN
    /\ \A i \in Indexes : /\ conn["replay"][i] \in Connector(Target[i] - Start[i])
                           /\ conn["follow"][i] \in Connector(LogEnd[i])
    /\ user \in [Indexes -> {"waits", "told", "resumed"}]
    /\ low \in [Indexes -> Int] /\ early \in [Indexes -> BOOLEAN]
    /\ \A i \in Indexes : low[i] \in 0 .. Target[i] - Start[i] \cup {Unset}
    /\ pc \in Steps /\ role \in Roles /\ index \in Indexes /\ view \in Phases
    /\ empty \in BOOLEAN /\ created \in BOOLEAN
    /\ existing \in 0 .. LogEnd[index] \cup {Unset}
    /\ failures \in 0 .. MaxFailures

Init ==
    /\ mode \in Modes
    /\ phase = "none" /\ seen = "none" /\ queued = TRUE
    /\ restore = "Missing"
    /\ dest = [i \in Indexes |-> {}]
    /\ repeated = FALSE
    /\ conn = [r \in Roles |-> [i \in Indexes |-> Absent]]
    /\ user = [i \in Indexes |-> "waits"]
    /\ low = [i \in Indexes |-> Unset] /\ early = [i \in Indexes |-> FALSE]
    /\ pc = "idle" /\ role = "replay" /\ index = 1 /\ view = "none"
    /\ empty = FALSE /\ created = FALSE /\ existing = Unset
    /\ failures = 0

DestinationEmpty == \A i \in Indexes : dest[i] = {}

-----------------------------------------------------------------------------
(* ClickHouse, external.                                                     *)

\* A record arrives in the destination.
Inserts(i, records) ==
    /\ dest' = [dest EXCEPT ![i] = @ \cup records]
    /\ repeated' = (repeated \/ records \cap dest[i] # {})

\* The restore writes the part of the archive that one connector filled.
RestoreWrites(i) ==
    /\ restore = "RESTORING"
    /\ ~ Prefix(Start[i]) \subseteq dest[i]
    /\ Inserts(i, Prefix(Start[i]))
    /\ UNCHANGED <<restore, controllerVars, connectVars>>

RestoreEnds ==
    /\ restore = "RESTORING"
    /\ \/ /\ \A i \in Indexes : Prefix(Start[i]) \subseteq dest[i]
          /\ restore' = "RESTORED"
       \/ "restore" \in Faults /\ restore' = "RESTORE_FAILED"
    /\ UNCHANGED <<dest, repeated, controllerVars, connectVars>>

Amnesia ==
    /\ "amnesia" \in Faults
    /\ restore # "Missing" /\ failures < MaxFailures
    /\ failures' = failures + 1
    /\ restore' = "Missing"
    /\ UNCHANGED <<mode, statusVars, pc, localVars, dest, repeated, connectVars>>

-----------------------------------------------------------------------------
(* Kafka Connect and the sink, external.                                     *)

\* The next offset a connector inserts: Connect seeks to the committed offset,
\* the sink drops what its KeeperMap row covers.
Position(k) == Max({k.offset, k.row})

\* Mutant of EndOf: the replay topic holds the record at the target, too.
CopiesTarget(r, i) == IF r = "replay" THEN Target[i] - Start[i] + 1 ELSE LogEnd[i]

\* A connector's topic: its end, and the source offset of its first record.
EndOf(r, i) == IF r = "replay" THEN Target[i] - Start[i] ELSE LogEnd[i]
BaseOf(r, i) == IF r = "replay" THEN Start[i] ELSE 0

Ingest(r, i) ==
    LET k == conn[r][i]
    IN  /\ k.state \in {"RUNNING", "stopping"} /\ k.offset # Unset
        /\ Position(k) < EndOf(r, i)
        /\ Inserts(i, {BaseOf(r, i) + Position(k)})
        /\ conn' = [conn EXCEPT ![r][i].row = Position(k) + 1]
        /\ UNCHANGED <<restore, controllerVars, user, topicVars>>

CommitOffset(r, i) ==
    /\ conn[r][i].state \in {"RUNNING", "stopping"}
    /\ conn[r][i].offset # Unset /\ conn[r][i].offset < conn[r][i].row
    /\ conn' = [conn EXCEPT ![r][i].offset = conn[r][i].row]
    /\ UNCHANGED <<tableVars, controllerVars, user, topicVars>>

\* auto.offset.reset is none: the task fails without a committed offset, and with
\* one that its topic does not have any more. Until then it has what it fetched.
TaskFails(r, i) ==
    /\ conn[r][i].state = "RUNNING"
    /\ conn[r][i].offset = Unset \/ (r = "replay" /\ conn[r][i].offset < low[i])
    /\ conn' = [conn EXCEPT ![r][i].state = "FAILED"]
    /\ UNCHANGED <<tableVars, controllerVars, user, topicVars>>

\* Any other failure: a put that failed for good, a record that is gone.
SinkFails(r, i) ==
    /\ "task" \in Faults
    /\ conn[r][i].state = "RUNNING" /\ failures < MaxFailures
    /\ failures' = failures + 1
    /\ conn' = [conn EXCEPT ![r][i].state = "FAILED"]
    /\ UNCHANGED <<tableVars, mode, statusVars, pc, localVars, user, topicVars>>

TaskStops(r, i) ==
    /\ conn[r][i].state = "stopping"
    /\ conn' = [conn EXCEPT ![r][i].state = "STOPPED"]
    /\ UNCHANGED <<tableVars, controllerVars, user, topicVars>>

\* A replay connector that has stopped at the end of its topic.
AtRest(i) ==
    LET k == conn["replay"][i]
    IN  k.state = "STOPPED" /\ k.offset = EndOf("replay", i)

\* Retention passes the first records of a replay topic.
TrimReplay(i) ==
    /\ "retention" \in Faults
    /\ low[i] # Unset
    /\ \E n \in low[i] + 1 .. EndOf("replay", i) : low' = [low EXCEPT ![i] = n]
    /\ early' = [early EXCEPT ![i] = @ \/ ~AtRest(i)]
    /\ UNCHANGED <<tableVars, controllerVars, conn, user>>

\* A request for the running state; it does not restart a failed task.
Resumed(k) == IF k.state \in {"STOPPED", "stopping"} THEN [k EXCEPT !.state = "RUNNING"] ELSE k

\* The user resumes a follow connector of a complete recovery.
Cutover(i) ==
    /\ user[i] = "told"
    /\ user' = [user EXCEPT ![i] = "resumed"]
    /\ conn' = [conn EXCEPT !["follow"][i] = Resumed(@)]
    /\ UNCHANGED <<tableVars, controllerVars, topicVars>>

-----------------------------------------------------------------------------
(* The controller runtime.                                                   *)

\* The watch delivers the current resource, and reconciliation is due.
Observe ==
    /\ seen # phase
    /\ seen' = phase
    /\ queued' = TRUE
    /\ UNCHANGED <<mode, phase, tableVars, connectVars, pc, localVars, failures>>

Goto(step) == pc' = step

\* Reconciliation starts with what the cache says, unless that is terminal.
Begin ==
    /\ pc = "idle" /\ queued
    /\ queued' = FALSE
    /\ Goto(IF seen \in Terminal THEN "idle" ELSE "rows")
    /\ role' = "replay" /\ index' = 1 /\ view' = seen
    /\ empty' = FALSE /\ created' = FALSE /\ existing' = Unset
    /\ UNCHANGED <<mode, phase, seen, tableVars, connectVars, failures>>

\* An error: reconciliation is requeued.
Errs == Goto("idle") /\ queued' = TRUE /\ UNCHANGED localVars

\* It may also fail at any request, which may have been executed.
Fail ==
    /\ "fail" \in Faults
    /\ pc # "idle" /\ failures < MaxFailures
    /\ failures' = failures + 1
    /\ Errs
    /\ UNCHANGED <<mode, phase, seen, tableVars, connectVars>>

\* The controller dies; the next one lists the resource anew.
Crash ==
    /\ "crash" \in Faults
    /\ pc # "idle" /\ failures < MaxFailures
    /\ failures' = failures + 1
    /\ Errs
    /\ seen' = phase
    /\ UNCHANGED <<mode, phase, tableVars, connectVars>>

-----------------------------------------------------------------------------
(* reconcile_recovery, up to the connectors.                                 *)

\* A step of reconciliation that goes on with another one.
Proceeds(step) == Goto(step) /\ UNCHANGED <<mode, statusVars, failures>>

\* A step that ends with an error.
Bails == Errs /\ UNCHANGED <<mode, phase, seen, failures>>

\* The manifest, the plan and the ranges are valid; count the rows. Only a new
\* recovery insists on none, and only a replaying one skips the restore.
DestinationRows ==
    /\ pc = "rows"
    /\ \/ /\ view = "none" => DestinationEmpty
          /\ empty' = DestinationEmpty
          /\ Proceeds(CASE view = "none" -> "mark_restoring"
                      [] view = "Restoring" -> "restore_state"
                      [] OTHER -> "mark_replaying")
          /\ UNCHANGED <<role, index, view, created, existing>>
       \/ view = "none" /\ ~DestinationEmpty /\ Bails
    /\ UNCHANGED <<tableVars, connectVars>>

MarkRestoring ==
    /\ pc = "mark_restoring"
    /\ phase' = "Restoring"
    /\ Goto("restore_state")
    /\ UNCHANGED <<mode, seen, queued, tableVars, connectVars, localVars, failures>>

\* Mutant of Confirmed: an operation that has begun is good enough.
Begun == restore \in {"RESTORING", "RESTORED"}

\* The archive is in the table.
Confirmed == restore = "RESTORED"

\* What system.backups says of the operation with this recovery's ID: a running
\* one is looked at again later, a missing one was never started if the table was
\* empty.
RestoreState ==
    /\ pc = "restore_state"
    /\ \/ Confirmed /\ Proceeds("mark_replaying") /\ UNCHANGED localVars
       \/ restore = "Missing" /\ empty /\ Proceeds("restore") /\ UNCHANGED localVars
       \/ restore \in {"RESTORING", "RESTORE_FAILED"} /\ Bails
       \/ restore = "Missing" /\ ~empty /\ Bails
    /\ UNCHANGED <<tableVars, connectVars>>

\* RESTORE TABLE; ClickHouse refuses to restore into rows.
RestoreTable ==
    /\ pc = "restore"
    /\ restore' = IF DestinationEmpty THEN "RESTORING" ELSE "RESTORE_FAILED"
    /\ Proceeds("restoring")
    /\ UNCHANGED <<dest, repeated, connectVars, localVars>>

\* Its answer.
AwaitRestore ==
    /\ pc = "restoring"
    /\ \/ restore = "RESTORED" /\ Proceeds("mark_replaying") /\ UNCHANGED localVars
       \/ restore \in {"Missing", "RESTORE_FAILED"} /\ Bails
    /\ UNCHANGED <<tableVars, connectVars>>

\* The first request about a source connector: nothing is replayed to where the
\* archive already is.
FirstStep(i) == IF Bounded /\ Start[i] # Target[i] THEN "copy" ELSE "keeper"
FirstRole(i) == IF FirstStep(i) = "copy" THEN "replay" ELSE "follow"

MarkReplaying ==
    /\ pc = "mark_replaying"
    /\ phase' = "Replaying"
    /\ Goto(FirstStep(1))
    /\ role' = FirstRole(1)
    /\ UNCHANGED <<mode, seen, queued, tableVars, connectVars, index, view, empty, created,
                   existing, failures>>

\* A source connector is done: the next one, or the end.
Advances ==
    /\ IF index < NumConnectors
       THEN Proceeds(FirstStep(index + 1)) /\ role' = FirstRole(index + 1)
                                          /\ index' = index + 1
       ELSE Proceeds("finish") /\ UNCHANGED <<role, index>>
    /\ existing' = Unset
    /\ UNCHANGED <<view, empty, created>>

\* The terminal phase.
Finish ==
    /\ pc = "finish"
    /\ phase' = IF Bounded THEN "Complete" ELSE "Streaming"
    /\ user' = IF Bounded /\ "cutover" \in Faults
               THEN [i \in Indexes |-> IF user[i] = "waits" THEN "told" ELSE user[i]]
               ELSE user
    /\ Goto("idle")
    /\ UNCHANGED <<mode, seen, queued, tableVars, conn, topicVars, localVars, failures>>

-----------------------------------------------------------------------------
(* run_replay_connector and ensure_follow_connector.                         *)

This == conn[role][index]
Sets(k) == conn' = [conn EXCEPT ![role][index] = k] /\ UNCHANGED <<user, topicVars>>

\* The offset the recovery writes to a new connector, and a replay must reach.
FirstOffset == IF role = "replay" THEN 0 ELSE Goal(index)

\* Mutant of Copyable: a topic that was copied before is in the way.
NotCopied == low[index] = Unset

\* The replay topic is new, or has all its records still.
Copyable == low[index] \in {Unset, 0}

\* COPY and the first VERIFY_REPLAY_RETAINED: they succeed only when the replay
\* topic holds the whole range.
Copy ==
    /\ pc = "copy"
    /\ \/ Copyable /\ low' = [low EXCEPT ![index] = 0]
          /\ Proceeds("create") /\ UNCHANGED localVars
       \/ ~Copyable /\ Bails /\ UNCHANGED low
    /\ UNCHANGED <<tableVars, conn, user, early>>

\* The KeeperMap row of a follow connector, before it is created.
KeeperRows ==
    /\ pc = "keeper"
    /\ existing' = This.row
    /\ Proceeds("create")
    /\ UNCHANGED <<tableVars, connectVars, role, index, view, empty, created>>

\* Mutant of Uninitialized: only a connector just created is initialized.
OnlyCreated(new) == new

\* A follow connector whose initialization did not end: no KeeperMap row.
Uninitialized(new) == new \/ existing = Unset

\* CREATE_STOPPED: a new connector, or the one that is there. A replay connector
\* gets its offsets only when it is new.
CreateStopped ==
    /\ pc = "create"
    /\ LET new == This.state = "absent"
       IN  /\ created' = new
           /\ Sets(IF new THEN [This EXCEPT !.state = "STOPPED"] ELSE This)
           /\ \/ role = "replay" /\ Proceeds(IF new THEN "patch" ELSE "compare")
              \/ role = "follow" /\ Uninitialized(new) /\ Proceeds("stop")
              \/ /\ role = "follow" /\ ~Uninitialized(new)
                 /\ Proceeds(IF Bounded THEN "hydrate" ELSE "progress")
    /\ UNCHANGED <<tableVars, role, index, view, empty, existing>>

\* STOP: a running task is on its way out, of a failed one nothing is left to stop.
Stopped(k) ==
    CASE k.state = "RUNNING" -> [k EXCEPT !.state = "stopping"]
      [] k.state = "FAILED" -> [k EXCEPT !.state = "STOPPED"]
      [] OTHER -> k

Stop ==
    /\ pc = "stop"
    /\ Sets(Stopped(This))
    /\ Proceeds("stopped")
    /\ UNCHANGED <<tableVars, localVars>>

\* REQUIRE_STOPPED, after a stop. It fails when the connector does not say STOPPED
\* at once, be it too early or because somebody resumed it.
AwaitStopped ==
    /\ pc = "stopped"
    /\ \/ /\ This.state = "STOPPED"
          /\ Proceeds(IF role = "replay" THEN "retained" ELSE "patch")
          /\ UNCHANGED localVars
       \/ This.state # "STOPPED" /\ Bails
    /\ UNCHANGED <<tableVars, connectVars>>

\* Mutant of Retained: the first check is enough.
RetainedBefore == low[index] # Unset

\* The replay topic has all its records still.
Retained == low[index] = 0

\* The second VERIFY_REPLAY_RETAINED, the last request about a replay connector.
VerifyRetained ==
    /\ pc = "retained"
    /\ \/ /\ Retained
          /\ role' = "follow" /\ Proceeds("keeper")
          /\ UNCHANGED <<index, view, empty, created, existing>>
       \/ ~Retained /\ Bails
    /\ UNCHANGED <<tableVars, connectVars>>

\* PATCH_OFFSETS: Connect accepts it of a stopped connector.
PatchOffsets ==
    /\ pc = "patch"
    /\ \/ /\ This.state = "STOPPED"
          /\ Sets([This EXCEPT !.offset = FirstOffset])
          /\ Proceeds(IF role = "replay" THEN "compare" ELSE "hydrate")
          /\ UNCHANGED localVars
       \/ This.state # "STOPPED" /\ Bails /\ UNCHANGED connectVars
    /\ UNCHANGED tableVars

\* Mutant of CaughtUp: reaching any offset is enough.
Started == This.offset # Unset

\* A replay connector has committed the end of its topic.
CaughtUp == This.offset = EndOf("replay", index)

\* The replay connector is resumed unless it is at the end already.
CompareOffsets ==
    /\ pc = "compare"
    /\ Proceeds(IF CaughtUp THEN "stop" ELSE "resume")
    /\ UNCHANGED <<tableVars, connectVars, localVars>>

Resume ==
    /\ pc = "resume"
    /\ Sets(Resumed(This))
    /\ Proceeds("running")
    /\ UNCHANGED <<tableVars, localVars>>

\* WAIT_RUNNING; for a live follow connector it is the last request.
WaitRunning ==
    /\ pc = "running"
    /\ \/ /\ This.state = "RUNNING" /\ role = "replay"
          /\ Proceeds("catch_up") /\ UNCHANGED localVars
       \/ This.state = "RUNNING" /\ role = "follow" /\ Advances
       \/ This.state \in {"FAILED", "STOPPED", "stopping"} /\ Bails
    /\ UNCHANGED <<tableVars, connectVars>>

\* WAIT_OFFSETS
WaitOffsets ==
    /\ pc = "catch_up"
    /\ \/ CaughtUp /\ Proceeds("stop") /\ UNCHANGED localVars
       \/ ~CaughtUp /\ This.state = "FAILED" /\ Bails
    /\ UNCHANGED <<tableVars, connectVars>>

\* ENSURE_KEEPER_ROWS: the row is written unless it is there; any other is a
\* conflict. A bounded follow connector that existed must still be at its target.
Hydrate ==
    /\ pc = "hydrate"
    /\ \/ /\ This.row \in {Unset, GoalRow(index)}
          /\ Sets([This EXCEPT !.row = GoalRow(index)])
          /\ Proceeds(IF Uninitialized(created) THEN IF Bounded THEN "check_stopped" ELSE "resume"
                      ELSE "check_offsets")
          /\ UNCHANGED localVars
       \/ This.row \notin {Unset, GoalRow(index)} /\ Bails /\ UNCHANGED connectVars
    /\ UNCHANGED tableVars

CheckOffsets ==
    /\ pc = "check_offsets"
    /\ \/ This.offset = Goal(index) /\ Proceeds("check_stopped") /\ UNCHANGED localVars
       \/ This.offset # Goal(index) /\ Bails
    /\ UNCHANGED <<tableVars, connectVars>>

\* VALIDATE_KEEPER_PROGRESS of a live follow connector.
Progress ==
    /\ pc = "progress"
    /\ \/ existing >= GoalRow(index) /\ Proceeds("resume") /\ UNCHANGED localVars
       \/ existing < GoalRow(index) /\ Bails
    /\ UNCHANGED <<tableVars, connectVars>>

\* REQUIRE_STOPPED, the last request about a bounded follow connector.
CheckStopped ==
    /\ pc = "check_stopped"
    /\ \/ This.state = "STOPPED" /\ Advances
       \/ This.state # "STOPPED" /\ Bails
    /\ UNCHANGED <<tableVars, connectVars>>

-----------------------------------------------------------------------------
Reconcile ==
    \/ Begin \/ DestinationRows \/ MarkRestoring \/ RestoreState \/ RestoreTable
    \/ AwaitRestore \/ MarkReplaying \/ Copy \/ KeeperRows \/ CreateStopped \/ Stop
    \/ AwaitStopped \/ VerifyRetained \/ PatchOffsets \/ CompareOffsets \/ Resume
    \/ WaitRunning \/ WaitOffsets \/ Hydrate \/ CheckOffsets \/ Progress \/ CheckStopped \/ Finish

\* Nothing is due, and the cache is current.
Idle == pc = "idle" /\ ~queued /\ seen = phase /\ UNCHANGED vars

Next ==
    \/ Reconcile \/ Fail \/ Crash \/ Observe
    \/ RestoreEnds \/ Amnesia
    \/ \E i \in Indexes : RestoreWrites(i) \/ TrimReplay(i) \/ Cutover(i)
    \/ \E r \in Roles, i \in Indexes :
          \/ Ingest(r, i) \/ CommitOffset(r, i)
          \/ TaskFails(r, i) \/ SinkFails(r, i) \/ TaskStops(r, i)
    \/ Idle

Spec == Init /\ [][Next]_vars

\* Reconciliation, the cache, the restore and the sink go on; nothing has to
\* fail.
Fairness ==
    /\ WF_vars(Reconcile) /\ WF_vars(Observe)
    /\ WF_vars((\E i \in Indexes : RestoreWrites(i)) \/ RestoreEnds)
    /\ \A r \in Roles, i \in Indexes :
          /\ WF_vars(Ingest(r, i)) /\ WF_vars(CommitOffset(r, i))
          /\ WF_vars(TaskFails(r, i) \/ TaskStops(r, i))

FairSpec == Spec /\ Fairness
-----------------------------------------------------------------------------
(* Properties.                                                               *)

\* Whatever fails, dies or is done twice, no record is ever inserted into the
\* destination a second time: not by a restore that is started over, not by a
\* replay or follow connector that begins where another one has been.
InsertedOnce == ~repeated

\* A follow connector never leaves a hole behind it: while it runs, and in a
\* terminal phase, the destination holds exactly the records before its
\* position (table-recovery.md: "An explicit vector produces an exact finite
\* table").
FollowContinuesDestination ==
    \A i \in Indexes :
        LET k == conn["follow"][i]
        IN  (k.state \in {"RUNNING", "stopping"} \/ phase \in Terminal)
              => k.offset # Unset /\ dest[i] = Prefix(Position(k))

\* A complete recovery stays at its target until somebody resumes it: reading
\* state that was left by earlier attempts never makes it stop short of the
\* target or run past it.
CompleteAtTarget ==
    phase = "Complete" =>
        \A i \in Indexes :
            user[i] # "resumed" =>
                /\ dest[i] = Prefix(Target[i])
                /\ conn["follow"][i].state = "STOPPED"
                /\ conn["follow"][i].offset = Target[i]

\* The topic a complete recovery was replayed from was whole until its connector
\* had stopped at its end: whatever retention removes, and whenever, before the
\* ingestion is verified, the recovery fails (failure-modes.md: "Recovery fails
\* instead of accepting an incomplete destination").
ReplayVerified == phase = "Complete" => \A i \in Indexes : ~early[i]

\* A replay connector that was created, but its offsets were not written; when the
\* controller did not get to that, nobody does.
Unpatched ==
    \E i \in Indexes : conn["replay"][i].state # "absent" /\ conn["replay"][i].offset = Unset

\* What is known of the restore is lost or bad: the user must start anew.
RestoreLost ==
    /\ phase = "Restoring"
    /\ restore = "RESTORE_FAILED" \/ (restore = "Missing" /\ ~DestinationEmpty)

\* A task has failed that no attempt stops before it waits for it to run: that of a
\* replay connector short of its end, or of a live one with a KeeperMap row.
FailedForGood ==
    \E i \in Indexes :
        \/ /\ conn["replay"][i].state = "FAILED"
           /\ conn["replay"][i].offset \notin {Unset, EndOf("replay", i)}
        \/ ~Bounded /\ conn["follow"][i].state = "FAILED" /\ conn["follow"][i].row # Unset

\* A replay topic was trimmed, and every attempt begins with looking.
ReplayLost == \E i \in Indexes : low[i] > 0

\* Once nothing fails any more, reconciliation reaches a terminal phase from
\* wherever it was interrupted, unless it is forever in one of four dead ends.
RecoveryEnds ==
    <>(phase \in Terminal) \/ <>[]Unpatched \/ <>[]RestoreLost \/ <>[]FailedForGood
                            \/ <>[]ReplayLost

\* ... as table-recovery.md says ("Reconciliation is retryable"), without them.
ReconciliationIsRetryable == <>(phase \in Terminal)
=============================================================================
