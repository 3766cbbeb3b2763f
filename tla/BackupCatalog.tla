--------------------------- MODULE BackupCatalog ----------------------------
(***************************************************************************)
(* The compacted Kafka topic that is the backup catalog, its lock, and the *)
(* Jobs that read the chain state, plan, and publish (metadata.rs and the  *)
(* chain part of backup.rs). Several Jobs may be alive: a CronJob forbids  *)
(* overlap, but a Job started by hand, the retry of a failed pod, or a pod *)
(* in its termination grace period is not held back by that.               *)
(*                                                                         *)
(* A log entry is one transaction: a manifest and the chain state that     *)
(* names it as tip. How a Job takes the snapshot is SnapshotBarrier.tla;   *)
(* here it is the step that fixes its checkpoint.                          *)
(***************************************************************************)
EXTENDS Integers, Sequences, FiniteSets, FiniteSetsExt

CONSTANTS
    Jobs,             \* Job pods: run IDs, chain IDs and archive IDs
    Seed,             \* the backup a non-empty catalog starts with
    Preloaded,        \* whether the catalog starts with Seed in it: TRUE, FALSE or either
    Topologies,       \* pipeline configurations
    TopologyOf,       \* the configuration of a Job, and of Seed
    MaxIncrementals,  \* max_incrementals_per_full
    MaxIngested,      \* bound: how far ingestion moves
    Faults            \* which faults happen, see FaultKinds

\* fail: a request of a Job fails; crash: a pod is killed; overlap: a Job
\* starts while another is alive; uncertain: a transaction outlives the Job
\* that lost sight of it; expiry: the group coordinator gives up on a live
\* Job; compaction: the log cleaner runs.
FaultKinds == {"fail", "crash", "overlap", "uncertain", "expiry", "compaction"}

Backups == Jobs \cup {Seed}

ASSUME CatalogAssumption ==
    /\ Seed \notin Jobs
    /\ Preloaded \subseteq BOOLEAN
    /\ TopologyOf \in [Backups -> Topologies]
    /\ MaxIncrementals \in Nat
    /\ MaxIngested \in Nat
    /\ Faults \subseteq FaultKinds

NoBackup == "no backup"
NoJob == "no job"

ASSUME CatalogSentinels == NoBackup \notin Backups /\ NoJob \notin Backups

Entries == [id : Backups, parent : Backups \cup {NoBackup}, chain : Backups,
            position : 0 .. MaxIncrementals, generation : Nat \ {0},
            topology : Topologies, checkpoint : 0 .. MaxIngested]

VARIABLES
    log,        \* the transactions in the catalog, in offset order
    txn,        \* what became of a Job's transaction
    compacted,  \* backups whose chain-state record the cleaner removed
    owner,      \* the member the lock group assigned the partition to
    expired,    \* members whose session ended while they were alive
    ingested,   \* the live checkpoint, which only grows
    pc,         \* where a Job is
    high,       \* the watermark it read
    plan        \* the entry it will publish

catalogVars == <<log, txn, compacted>>
lockVars == <<owner, expired>>
jobVars == <<pc, high, plan>>
vars == <<catalogVars, lockVars, ingested, jobVars>>

\* Where a Job is from the moment acquire has returned until it exits.
Holding == {"working", "uploading", "publishing", "finishing"}

\* The full backup a non-empty catalog starts with.
SeedEntry == [id |-> Seed, parent |-> NoBackup, chain |-> Seed, position |-> 0,
              generation |-> 1, topology |-> TopologyOf[Seed], checkpoint |-> 0]

\* Every variable has its type; no chain exceeds its incremental limit.
TypeOK ==
    /\ log \in Seq(Entries)
    /\ txn \in [Backups -> {"none", "open", "prepared", "committed", "aborted"}]
    /\ compacted \subseteq Backups
    /\ owner \in Jobs \cup {NoJob}
    /\ expired \subseteq Jobs
    /\ ingested \in 0 .. MaxIngested
    /\ pc \in [Jobs -> Holding \cup {"start", "joining", "exited"}]
    /\ high \in [Jobs -> Nat]
    /\ plan \in [Jobs -> Entries]

Init ==
    /\ \E preloaded \in Preloaded :
          /\ log = IF preloaded THEN <<SeedEntry>> ELSE <<>>
          /\ txn = [b \in Backups |-> IF b = Seed /\ preloaded THEN "committed" ELSE "none"]
    /\ compacted = {}
    /\ owner = NoJob
    /\ expired = {}
    /\ ingested = 0
    /\ pc = [j \in Jobs |-> "start"]
    /\ high = [j \in Jobs |-> 0]
    /\ plan = [j \in Jobs |-> SeedEntry]

-----------------------------------------------------------------------------
(* What a read_committed consumer sees.                                      *)

Committed(i) == i \in DOMAIN log /\ txn[log[i].id] = "committed"

\* The last stable offset, which a read_committed watermark query returns: no
\* transaction before it is unresolved.
StableEnd ==
    LET unresolved == {i \in DOMAIN log : txn[log[i].id] \in {"open", "prepared"}}
    IN  IF unresolved = {} THEN Len(log) ELSE Min(unresolved) - 1

\* Mutant of StatesBelow: isolation.level is left at read_uncommitted.
StatesWritten(n) == {i \in 1 .. n : log[i].id \notin compacted}

\* Offsets below n whose chain-state record a consumer receives.
StatesBelow(n) == {i \in 1 .. n : Committed(i) /\ log[i].id \notin compacted}

\* The manifest keyed by a backup ID, among the records below n.
ManifestsBelow(id, n) == {i \in 1 .. n : Committed(i) /\ log[i].id = id}

\* load_manifest, the reader of a recovery.
Found(id) == {log[i] : i \in ManifestsBelow(id, StableEnd)}

\* The latest chain state, which names the tip of the chain.
StateAt(n) == log[Max(StatesBelow(n))]

\* One step of the walk from the tip back along parents; none where there is no manifest.
WalkOn(back, n) ==
    LET found == ManifestsBelow(back[Len(back)].parent, n)
    IN  IF found = {} THEN back ELSE Append(back, log[Max(found)])

\* The walk to a full backup, or as far as the manifests go.
ReadBack(n) ==
    LET walk[k \in 0 .. n] == IF k = 0 THEN <<StateAt(n)>> ELSE WalkOn(walk[k - 1], n)
    IN  walk[n]

\* read and validate_chain accept a state and its chain, tip first, for a configuration.
ValidChain(state, back, topology) ==
    LET last == back[Len(back)]
    IN  /\ state.topology = topology
        /\ state.generation > state.position
        /\ Len(back) = state.position + 1
        /\ back[1] = state
        /\ last.id = state.chain /\ last.parent = NoBackup
        /\ Cardinality({back[k].id : k \in DOMAIN back}) = Len(back)
        /\ \A k \in DOMAIN back :
              /\ back[k].chain = state.chain
              /\ back[k].position = state.position - (k - 1)
              /\ back[k].topology = topology
        /\ \A k \in 2 .. Len(back) :
              /\ back[k - 1].parent = back[k].id
              /\ back[k - 1].checkpoint >= back[k].checkpoint

-----------------------------------------------------------------------------
(* plan_backup.                                                              *)

\* Mutant of HasRoom: the limit counts one incremental too many.
HasRoomOffByOne(tip) == tip.position <= MaxIncrementals

HasRoom(tip) == tip.position < MaxIncrementals

\* Mutant of ParentFor: every incremental is taken against the full backup.
RootAsParent(tip) == tip.chain

ParentFor(tip) == tip.id

\* Mutant of FullPlan: a new chain restarts the generations.
FullPlanRestarted(j, generation) ==
    [id |-> j, parent |-> NoBackup, chain |-> j, position |-> 0,
     generation |-> 1, topology |-> TopologyOf[j], checkpoint |-> 0]

FullPlan(j, generation) ==
    [id |-> j, parent |-> NoBackup, chain |-> j, position |-> 0,
     generation |-> generation, topology |-> TopologyOf[j], checkpoint |-> 0]

\* The plan on top of a chain state.
PlanAfter(j, tip) ==
    IF HasRoom(tip)
    THEN [FullPlan(j, tip.generation + 1) EXCEPT
            !.parent = ParentFor(tip), !.chain = tip.chain, !.position = tip.position + 1]
    ELSE FullPlan(j, tip.generation + 1)

-----------------------------------------------------------------------------
(* A Job.                                                                    *)

Goes(j, place) == pc' = [pc EXCEPT ![j] = place]

\* The process is over, and what it knew is gone.
Exits(j) ==
    /\ Goes(j, "exited")
    /\ high' = [high EXCEPT ![j] = 0]
    /\ plan' = [plan EXCEPT ![j] = SeedEntry]
    /\ expired' = expired \ {j}

\* READ, first half: subscribe, then take the watermarks. A catalog that looks
\* empty is done: nothing is received, so no assignment is awaited.
Join(j) ==
    /\ pc[j] = "start"
    /\ "overlap" \in Faults \/ \A k \in Jobs : pc[k] \in {"start", "exited"}
    /\ high' = [high EXCEPT ![j] = StableEnd]
    /\ IF StableEnd = 0
       THEN Goes(j, "working") /\ plan' = [plan EXCEPT ![j] = FullPlan(j, 1)]
       ELSE Goes(j, "joining") /\ UNCHANGED plan
    /\ UNCHANGED <<catalogVars, lockVars, ingested>>

\* No assignment within the read timeout.
AcquireTimesOut(j) ==
    /\ pc[j] = "joining" /\ owner # j
    /\ Exits(j)
    /\ UNCHANGED <<catalogVars, owner, ingested>>

\* Mutant of Owns: the partition is assigned by hand, not by the group.
OwnsWithoutGroup(j) == j \in Jobs

Owns(j) == owner = j

\* acquire returned a lease, and the chain it read was valid.
Plans(j, entry) ==
    /\ Goes(j, "working")
    /\ plan' = [plan EXCEPT ![j] = entry]
    /\ UNCHANGED <<high, expired>>

\* READ, second half: receive what is below the watermark taken before the
\* assignment; then read the chain back, validate it, and plan on top of it.
Acquire(j) ==
    /\ pc[j] = "joining" /\ Owns(j)
    /\ IF StatesBelow(high[j]) = {}
       THEN Plans(j, FullPlan(j, 1))
       ELSE LET state == StateAt(high[j])
            IN  IF ValidChain(state, ReadBack(high[j]), TopologyOf[j])
                THEN Plans(j, PlanAfter(j, state))
                ELSE Exits(j)
    /\ UNCHANGED <<catalogVars, owner, ingested>>

\* The barriers: the checkpoint the manifest will record is fixed.
Capture(j) ==
    /\ pc[j] = "working"
    /\ plan' = [plan EXCEPT ![j].checkpoint = ingested]
    /\ Goes(j, "uploading")
    /\ UNCHANGED <<catalogVars, lockVars, ingested, high>>

\* Mutant of Publish: the key of the manifest is the chain's ID.
PublishByChain(j) ==
    /\ pc[j] = "uploading"
    /\ log' = Append(log, [plan[j] EXCEPT !.id = plan[j].chain])
    /\ txn' = [txn EXCEPT ![j] = "open"]
    /\ Goes(j, "publishing")
    /\ UNCHANGED <<compacted, lockVars, ingested, high, plan>>

\* PUBLISH, up to the sends: the transaction is open, its records are in the log.
Publish(j) ==
    /\ pc[j] = "uploading"
    /\ log' = Append(log, plan[j])
    /\ txn' = [txn EXCEPT ![j] = "open"]
    /\ Goes(j, "publishing")
    /\ UNCHANGED <<compacted, lockVars, ingested, high, plan>>

\* PUBLISH, commit_transaction succeeds.
CommitTransaction(j) ==
    /\ pc[j] = "publishing" /\ txn[j] = "open"
    /\ txn' = [txn EXCEPT ![j] = "committed"]
    /\ Goes(j, "finishing")
    /\ UNCHANGED <<log, compacted, lockVars, ingested, high, plan>>

\* RUN returns after the final resume and cleanup. Where that fails the Job is an
\* error after all, and the next one its retry.
Finish(j) ==
    /\ pc[j] = "finishing"
    /\ Exits(j)
    /\ UNCHANGED <<catalogVars, owner, ingested>>

\* What a transaction is left as when its Job stops looking: aborted, or, when
\* the abort or the answer of the commit was lost, still open, about to be
\* committed by the coordinator, or committed.
LeftAs(j) ==
    IF txn[j] # "open" THEN {txn[j]}
    ELSE IF "uncertain" \in Faults THEN {"open", "prepared", "committed", "aborted"}
    ELSE {"aborted"}

\* A request fails: of the backup, of publish, or of commit_transaction.
Fail(j) ==
    /\ "fail" \in Faults
    /\ pc[j] \in {"joining", "working", "uploading", "publishing"}
    /\ \E left \in LeftAs(j) : txn' = [txn EXCEPT ![j] = left]
    /\ Exits(j)
    /\ UNCHANGED <<log, compacted, owner, ingested>>

\* The pod is killed.
Crash(j) ==
    /\ "crash" \in Faults
    /\ pc[j] \in Holding \cup {"joining"}
    /\ \E left \in LeftAs(j) : txn' = [txn EXCEPT ![j] = left]
    /\ Exits(j)
    /\ UNCHANGED <<log, compacted, owner, ingested>>

Job(j) ==
    \/ Join(j) \/ AcquireTimesOut(j) \/ Acquire(j) \/ Capture(j) \/ Publish(j)
    \/ CommitTransaction(j) \/ Finish(j) \/ Fail(j) \/ Crash(j)

-----------------------------------------------------------------------------
(* Kafka, external.                                                          *)

\* The group coordinator assigns the only partition to a member that is alive.
Assign(j) ==
    /\ owner = NoJob
    /\ pc[j] \notin {"start", "exited"}
    /\ owner' = j
    /\ UNCHANGED <<catalogVars, expired, ingested, jobVars>>

\* The owner left the group, or its session ended after it was killed.
Release ==
    /\ owner # NoJob /\ pc[owner] = "exited"
    /\ owner' = NoJob
    /\ UNCHANGED <<catalogVars, expired, ingested, jobVars>>

\* A rebalance while the owner is still polling hands the partition over.
Rebalance(j) ==
    /\ owner # NoJob /\ pc[owner] = "joining"
    /\ pc[j] = "joining" /\ j # owner
    /\ owner' = j
    /\ UNCHANGED <<catalogVars, expired, ingested, jobVars>>

\* The session of a live owner ends: it is cut off, or polls too late.
Expire ==
    /\ "expiry" \in Faults
    /\ owner # NoJob /\ pc[owner] \in Holding
    /\ owner' = NoJob
    /\ expired' = expired \cup {owner}
    /\ UNCHANGED <<catalogVars, ingested, jobVars>>

\* The transaction coordinator times a transaction out, or completes a commit.
Resolve(j) ==
    /\ \/ txn[j] = "open" /\ pc[j] = "exited" /\ txn' = [txn EXCEPT ![j] = "aborted"]
       \/ txn[j] = "prepared" /\ txn' = [txn EXCEPT ![j] = "committed"]
    /\ UNCHANGED <<log, compacted, lockVars, ingested, jobVars>>

\* The cleaner removes a chain-state record a newer one replaced.
Compact(i) ==
    /\ "compaction" \in Faults
    /\ Committed(i)
    /\ \E k \in i + 1 .. StableEnd : Committed(k)
    /\ compacted' = compacted \cup {log[i].id}
    /\ UNCHANGED <<log, txn, lockVars, ingested, jobVars>>

Ingest ==
    /\ ingested < MaxIngested
    /\ ingested' = ingested + 1
    /\ UNCHANGED <<catalogVars, lockVars, jobVars>>

Kafka ==
    \/ \E j \in Jobs : Assign(j) \/ Rebalance(j) \/ Resolve(j)
    \/ Release \/ Expire \/ Ingest
    \/ \E i \in DOMAIN log : Compact(i)

\* Every Job is over.
Idle == (\A j \in Jobs : pc[j] = "exited") /\ UNCHANGED vars

Next == (\E j \in Jobs : Job(j)) \/ Kafka \/ Idle

Spec == Init /\ [][Next]_vars

\* The transaction coordinator does not leave a transaction unresolved, and a commit
\* is answered, unless its Job fails or dies.
Fairness ==
    \A j \in Jobs : WF_vars(Resolve(j)) /\ WF_vars(CommitTransaction(j))

FairSpec == Spec /\ Fairness
-----------------------------------------------------------------------------
(* Properties.                                                               *)

\* Whatever prefix of the catalog a Job reads, it finds a complete chain that
\* validate_chain accepts for the configuration that wrote it: no sequence of
\* concurrent, failed or late publications locks later Jobs out, even one that
\* forks the chain (architecture.md: "never publish chain state that
\* references an unavailable manifest").
ChainReadable ==
    \A n \in 1 .. StableEnd :
        StatesBelow(n) # {} =>
            ValidChain(StateAt(n), ReadBack(n), StateAt(n).topology)

\* Every backup a recovery may ask for is a full one, or rests on a committed
\* one that precedes it in its chain: same chain and configuration, next
\* position, later generation, no smaller checkpoint. Backups a fork has taken
\* out of the current chain are not excepted.
ParentsCommitted ==
    \A i \in DOMAIN log : Committed(i) =>
        IF log[i].parent = NoBackup
        THEN log[i].position = 0 /\ log[i].chain = log[i].id
        ELSE \E k \in 1 .. i - 1 :
                /\ Committed(k)
                /\ log[k].id = log[i].parent
                /\ log[k].chain = log[i].chain
                /\ log[k].topology = log[i].topology
                /\ log[k].position + 1 = log[i].position
                /\ log[k].generation < log[i].generation
                /\ log[k].checkpoint <= log[i].checkpoint

\* A backup a recovery has found it finds again, the same, at every later attempt:
\* neither the cleaner nor a late transaction takes it back (the plan is made anew
\* from the manifest at each reconciliation).
FoundStaysFound ==
    [][\A id \in Backups : Found(id) # {} => Found(id)' = Found(id)]_vars

\* A backup that is committed, be it a transaction of a dead Job that Kafka completed
\* later, becomes recoverable together with its parent: what hides it behind the last
\* stable offset is resolved in the end.
CommittedIsFound ==
    \A b \in Backups :
        txn[b] = "committed" ~>
            \E entry \in Found(b) : entry.parent # NoBackup => Found(entry.parent) # {}

\* Of the Jobs that found the catalog non-empty and kept their session, at most
\* one is between acquire and its exit, whatever rebalances, crashes and
\* timeouts came before.
SessionExclusive ==
    Cardinality({j \in Jobs \ expired : pc[j] \in Holding /\ high[j] > 0}) <= 1

\* At most one Job has acquired the catalog and not exited (architecture.md:
\* "Its consumer-group assignment provides exclusive backup ownership").
LeaseExclusive == Cardinality({j \in Jobs : pc[j] \in Holding}) <= 1

\* The committed backups form one line: each was planned on the one committed
\* before it (backup-procedure.md: "Holding its only partition serializes
\* backup Jobs. Read and validate the current chain state").
CatalogIsLinear ==
    \A i, k \in DOMAIN log :
        Committed(i) /\ Committed(k) /\ i < k
            /\ (\A between \in i + 1 .. k - 1 : ~Committed(between))
        => /\ log[k].generation = log[i].generation + 1
           /\ log[k].parent \in {log[i].id, NoBackup}

\* The abstract catalog: its chain is the last committed entry's, position by position.
Published == {i \in DOMAIN log : Committed(i)}
Tip == log[Max(Published)]
AtPosition(p) == CHOOSE e \in {log[i] : i \in Published} : e.chain = Tip.chain /\ e.position = p

PublishedIDs == {log[i].id : i \in Published}
CurrentChain ==
    IF Published = {} THEN <<>> ELSE [k \in 1 .. Tip.position + 1 |-> AtPosition(k - 1).id]
CurrentGeneration == IF Published = {} THEN 0 ELSE Tip.generation

Serial == INSTANCE SerialCatalog WITH
    published <- PublishedIDs, chain <- CurrentChain, generation <- CurrentGeneration

\* While Jobs do not overlap and no transaction outlives its Job, the catalog
\* is a serial one: failures, crashes and compaction never fork or rewind it.
SerializesPublication == Serial!Spec
=============================================================================
