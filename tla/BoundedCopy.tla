---------------------------- MODULE BoundedCopy -----------------------------
(***************************************************************************)
(* The transactional copy of a bounded source range to a replay topic      *)
(* (replay.rs, KafkaRangeCopier::copy, with the range check reconciliation *)
(* makes before it and the retention check run_replay_connector makes on   *)
(* its result). A controller restarts it from the beginning after every    *)
(* error and every restart, and a controller cut off from Kubernetes may   *)
(* still be running it.                                                    *)
(*                                                                         *)
(* A record is its source offset. A source offset without a record is a    *)
(* control marker, an aborted record, or one compaction removed. The       *)
(* replay log is written when a transaction ends: until then read_committed *)
(* hides it, and no other transaction of the same ID can be open.          *)
(***************************************************************************)
EXTENDS Integers, Sequences, FiniteSetsExt

CONSTANTS
    Copiers,       \* controller processes
    NumPartitions, \* source and replay partitions, copied in order
    Records,       \* the source offsets of a partition that hold a record
    Start,         \* the checkpoint of a partition
    Target,        \* its exclusive target
    BatchRecords,  \* replay_batch_records
    MaxEpoch,      \* bound: how often a copy is started
    Faults         \* which faults happen, see FaultKinds

\* fail: a request fails; crash: a controller dies; zombie: a second one runs;
\* retention: Kafka trims the source; expiry: it forgets the group's offset;
\* replay retention: it trims the replay topic; deletion: that topic is deleted.
FaultKinds == {"fail", "crash", "zombie", "retention", "expiry",
               "replay retention", "deletion"}

Partitions == 1 .. NumPartitions

ASSUME CopyAssumption ==
    /\ NumPartitions \in Nat \ {0}
    /\ Start \in [Partitions -> Nat]
    /\ Target \in [Partitions -> Nat]
    /\ \A p \in Partitions : Start[p] <= Target[p]
    /\ Records \in [Partitions -> SUBSET Nat]
    /\ BatchRecords \in Nat \ {0}
    /\ MaxEpoch \in Nat
    /\ Faults \subseteq FaultKinds

Unset == -1  \* Offset::Invalid: the group has no committed offset
Hole == -1   \* a replay slot read_committed skips: aborted, or a marker

VARIABLES
    low,        \* first source offset Kafka retains
    exists,     \* the replay topic exists
    replay,     \* its log, per partition
    replayLow,  \* how much of it retention removed
    committed,  \* the group's committed source offset
    epoch,      \* the producer epoch of the transactional ID
    kept,       \* auxiliary: the progress when the replay topic was last deleted
    pc,         \* where a copier is
    part,       \* the partition it copies
    next,       \* the next source offset it needs
    batch,      \* the records of its open transaction
    created,    \* it created the replay topic
    myEpoch,    \* its producer epoch
    ends        \* the end offsets it reports

kafkaVars == <<low, exists, replay, replayLow, committed, epoch, kept>>
copierVars == <<pc, part, next, batch, created, myEpoch, ends>>
vars == <<kafkaVars, copierVars>>

Places == {"idle", "create", "init", "offset", "empty", "range", "batch", "commit",
           "ends", "verify", "done"}

\* Every variable has its type; next never passes the target.
TypeOK ==
    /\ low \in [Partitions -> Nat]
    /\ exists \in BOOLEAN
    /\ replay \in [Partitions -> Seq(Nat \cup {Hole})]
    /\ replayLow \in [Partitions -> Nat]
    /\ \A p \in Partitions : committed[p] \in Start[p] .. Target[p] \cup {Unset}
    /\ epoch \in 0 .. MaxEpoch
    /\ \A p \in Partitions : kept[p] \in Start[p] .. Target[p]
    /\ pc \in [Copiers -> Places]
    /\ part \in [Copiers -> Partitions]
    /\ \A c \in Copiers :
          pc[c] \in {"range", "batch", "commit"} => next[c] \in Start[part[c]] .. Target[part[c]]
    /\ batch \in [Copiers -> Seq(Nat)]
    /\ created \in [Copiers -> BOOLEAN]
    /\ myEpoch \in [Copiers -> 0 .. MaxEpoch]
    /\ ends \in [Copiers -> [Partitions -> Nat]]

Init ==
    /\ low = [p \in Partitions |-> 0]
    /\ exists = FALSE
    /\ replay = [p \in Partitions |-> <<>>]
    /\ replayLow = [p \in Partitions |-> 0]
    /\ committed = [p \in Partitions |-> Unset]
    /\ epoch = 0
    /\ kept = Start
    /\ pc = [c \in Copiers |-> "idle"]
    /\ part = [c \in Copiers |-> 1]
    /\ next = [c \in Copiers |-> 0]
    /\ batch = [c \in Copiers |-> <<>>]
    /\ created = [c \in Copiers |-> FALSE]
    /\ myEpoch = [c \in Copiers |-> 0]
    /\ ends = [c \in Copiers |-> [p \in Partitions |-> 0]]

-----------------------------------------------------------------------------
(* Kafka transactions.                                                       *)

\* Mutant of Fenced: each start has a transactional ID of its own.
NeverFenced(c) == c \notin Copiers

\* A newer producer of the same transactional ID has taken over.
Fenced(c) == myEpoch[c] # epoch

\* The log after records: the batch, or as many holes, and the marker.
Aborted(records) == [k \in 1 .. Len(records) |-> Hole]
Ended(slots) == IF slots = <<>> THEN <<>> ELSE Append(slots, Hole)

\* What is in the replay log once the open transactions of some are aborted.
AfterAbort(copiers) ==
    [p \in Partitions |->
        IF \E c \in copiers : part[c] = p /\ batch[c] # <<>>
        THEN replay[p] \o Ended(Aborted(batch[CHOOSE c \in copiers : part[c] = p /\ batch[c] # <<>>]))
        ELSE replay[p]]

Goes(c, place) == pc' = [pc EXCEPT ![c] = place]

\* copy returns an error, best effort aborts, and is requeued from its start.
Fails(c) ==
    /\ Goes(c, "idle")
    /\ replay' = IF ~Fenced(c) THEN AfterAbort({c}) ELSE replay
    /\ batch' = [batch EXCEPT ![c] = <<>>]
    /\ UNCHANGED <<part, next, created, myEpoch, ends>>

\* A step that neither ends a transaction nor an attempt.
Proceeds(c, place) == Goes(c, place) /\ UNCHANGED <<replay, batch>>

-----------------------------------------------------------------------------
(* copy, up to the loop over the partitions.                                 *)

\* VERIFY_RANGES: reconciliation starts over only while Kafka still has the
\* whole range, the part that was copied before included.
VerifyRanges(c) ==
    /\ pc[c] \in {"idle", "done"}
    /\ epoch < MaxEpoch
    /\ "zombie" \in Faults \/ \A other \in Copiers \ {c} : pc[other] \in {"idle", "done"}
    /\ \A p \in Partitions : low[p] <= Start[p]
    /\ Proceeds(c, "create")
    /\ UNCHANGED <<kept, low, exists, replayLow, committed, epoch, part, next, created, myEpoch, ends>>

\* ENSURE_TOPIC: create it, or find that it is there.
EnsureTopic(c) ==
    /\ pc[c] = "create"
    /\ exists' = TRUE
    /\ created' = [created EXCEPT ![c] = ~exists]
    /\ Proceeds(c, "init")
    /\ UNCHANGED <<kept, low, replayLow, committed, epoch, part, next, myEpoch, ends>>

\* INIT_TRANSACTIONS: fence older producers and abort what they left open.
InitTransactions(c) ==
    /\ pc[c] = "init"
    /\ epoch < MaxEpoch
    /\ epoch' = epoch + 1
    /\ myEpoch' = [myEpoch EXCEPT ![c] = epoch + 1]
    /\ replay' = AfterAbort({other \in Copiers : myEpoch[other] = epoch})
    /\ batch' = [other \in Copiers |-> <<>>]
    /\ part' = [part EXCEPT ![c] = 1]
    /\ Goes(c, "offset")
    /\ UNCHANGED <<kept, low, exists, replayLow, committed, next, created, ends>>

-----------------------------------------------------------------------------
(* copy_partition.                                                           *)

\* The topic is new, and the group says it held records.
LostProgress(c, offset) == created[c] /\ offset # Start[part[c]]

\* COMMITTED_OFFSETS: where the group is decides where the copy resumes.
FetchCommitted(c) ==
    /\ pc[c] = "offset"
    /\ LET p == part[c]
           offset == committed[p]
       IN  \/ /\ offset = Unset /\ created[c]
              /\ next' = [next EXCEPT ![c] = Start[p]]
              /\ Proceeds(c, "range") /\ UNCHANGED <<part, created, myEpoch, ends>>
           \/ /\ offset = Unset /\ ~created[c]
              /\ Proceeds(c, "empty") /\ UNCHANGED <<part, next, created, myEpoch, ends>>
           \/ /\ offset # Unset
              /\ offset \in Start[p] .. Target[p] /\ ~LostProgress(c, offset)
              /\ next' = [next EXCEPT ![c] = offset]
              /\ Proceeds(c, "range") /\ UNCHANGED <<part, created, myEpoch, ends>>
           \/ /\ offset # Unset
              /\ offset \notin Start[p] .. Target[p] \/ LostProgress(c, offset)
              /\ Fails(c)
    /\ UNCHANGED <<kept, low, exists, replayLow, committed, epoch>>

\* The replay offsets a read_committed consumer receives from the beginning.
Visible(p) == {i \in replayLow[p] + 1 .. Len(replay[p]) : replay[p][i] # Hole}

\* Mutant of StartsOver: expired progress always starts over.
StartsOverAlways(p) == p \in Partitions

StartsOver(p) == Visible(p) = {}

\* LAST_COMMITTED_RECORD: without progress there must be no record either.
RequireEmpty(c) ==
    /\ pc[c] = "empty"
    /\ \/ /\ exists /\ StartsOver(part[c])
          /\ next' = [next EXCEPT ![c] = Start[part[c]]]
          /\ Proceeds(c, "range") /\ UNCHANGED <<part, created, myEpoch, ends>>
       \/ ~(exists /\ StartsOver(part[c])) /\ Fails(c)
    /\ UNCHANGED <<kept, low, exists, replayLow, committed, epoch>>

\* The loop: the rest of the range must be retained before a transaction begins;
\* a finished partition is followed by the next one.
BeginBatch(c) ==
    /\ pc[c] = "range"
    /\ \/ /\ next[c] < Target[part[c]] /\ low[part[c]] <= next[c]
          /\ Proceeds(c, "batch") /\ UNCHANGED <<part, next, created, myEpoch, ends>>
       \/ /\ next[c] < Target[part[c]] /\ low[part[c]] > next[c]
          /\ Fails(c)
       \/ /\ next[c] = Target[part[c]] /\ part[c] < NumPartitions
          /\ part' = [part EXCEPT ![c] = @ + 1]
          /\ Proceeds(c, "offset") /\ UNCHANGED <<next, created, myEpoch, ends>>
       \/ /\ next[c] = Target[part[c]] /\ part[c] = NumPartitions
          /\ Proceeds(c, "ends") /\ UNCHANGED <<part, next, created, myEpoch, ends>>
    /\ UNCHANGED <<kept, low, exists, replayLow, committed, epoch>>

\* The end of the partition: what recv returns there.
EndOfPartition(p) == Target[p] + 1

\* What recv may return when offset is needed: the next record, which may have
\* been fetched before retention removed it; the end; and, once offset is out
\* of range, wherever the offset reset leads.
Received(p, offset) ==
    LET rest == {o \in Records[p] : o >= offset} \cup {EndOfPartition(p)}
    IN  {Min(rest)} \cup IF low[p] > offset THEN {o \in rest : o >= low[p]} ELSE {}

\* Mutant of Contiguous: a skipped offset is taken for a gap in the log.
AnyGap(p, offset, received) == received >= offset

\* Offsets were skipped: none of them has been removed by retention.
Contiguous(p, offset, received) == received = offset \/ low[p] <= offset

\* Mutant of AtTarget: the exclusive target is taken for an inclusive one.
PastTarget(p, received) == received > Target[p]

AtTarget(p, received) == received >= Target[p]

\* COPY_BATCH, one turn: receive, check a gap, stop at the target, or send.
CopyRecord(c) ==
    /\ pc[c] = "batch"
    /\ \E received \in Received(part[c], next[c]) :
          \/ /\ ~Contiguous(part[c], next[c], received)
             /\ Fails(c)
          \/ /\ Contiguous(part[c], next[c], received)
             /\ AtTarget(part[c], received)
             /\ next' = [next EXCEPT ![c] = Target[part[c]]]
             /\ Proceeds(c, "commit") /\ UNCHANGED <<part, created, myEpoch, ends>>
          \/ /\ Contiguous(part[c], next[c], received)
             /\ ~AtTarget(part[c], received)
             /\ exists /\ ~Fenced(c)
             /\ next' = [next EXCEPT ![c] = received + 1]
             /\ batch' = [batch EXCEPT ![c] = Append(@, received)]
             /\ Goes(c, IF received + 1 < Target[part[c]] /\ Len(batch[c]) + 1 < BatchRecords
                        THEN "batch" ELSE "commit")
             /\ UNCHANGED <<replay, part, created, myEpoch, ends>>
          \/ /\ ~AtTarget(part[c], received)
             /\ Fenced(c) \/ ~exists
             /\ Fails(c)
    /\ UNCHANGED <<kept, low, exists, replayLow, committed, epoch>>

\* The batch becomes visible together with the source offset it reaches.
Commits(c) ==
    /\ replay' = [replay EXCEPT ![part[c]] = @ \o Ended(batch[c])]
    /\ committed' = [committed EXCEPT ![part[c]] = next[c]]
    /\ batch' = [batch EXCEPT ![c] = <<>>]

\* SEND_OFFSETS_TO_TRANSACTION and COMMIT_TRANSACTION. A commit that reports a
\* failure may have happened.
CommitBatch(c) ==
    /\ pc[c] = "commit"
    /\ \/ ~Fenced(c) /\ Commits(c) /\ Goes(c, "range")
       \/ "fail" \in Faults /\ ~Fenced(c) /\ Commits(c) /\ Goes(c, "idle")
       \/ Fenced(c) /\ Fails(c) /\ UNCHANGED committed
    /\ UNCHANGED <<kept, low, exists, replayLow, epoch, part, next, created, myEpoch, ends>>

-----------------------------------------------------------------------------
(* The result.                                                               *)

\* COMMITTED_END_OFFSETS: one past the last record of each partition.
ReportEnds(c) ==
    /\ pc[c] = "ends"
    /\ \/ /\ exists
          /\ ends' = [ends EXCEPT ![c] =
                        [p \in Partitions |-> IF Visible(p) = {} THEN 0 ELSE Max(Visible(p))]]
          /\ Proceeds(c, "verify") /\ UNCHANGED <<part, next, created, myEpoch>>
       \/ ~exists /\ Fails(c)
    /\ UNCHANGED <<kept, low, exists, replayLow, committed, epoch>>

\* VERIFY_REPLAY_RETAINED: the complete log is there for the replay connector.
VerifyRetained(c) ==
    /\ pc[c] = "verify"
    /\ IF exists /\ \A p \in Partitions : replayLow[p] = 0 /\ Len(replay[p]) >= ends[c][p]
       THEN Proceeds(c, "done") /\ UNCHANGED <<part, next, created, myEpoch, ends>>
       ELSE Fails(c)
    /\ UNCHANGED <<kept, low, exists, replayLow, committed, epoch>>

\* Any request fails or times out, or the controller dies: the same to Kafka.
Fail(c) ==
    /\ Faults \cap {"fail", "crash"} # {}
    /\ pc[c] \notin {"idle", "done"}
    /\ Fails(c)
    /\ UNCHANGED <<kept, low, exists, replayLow, committed, epoch>>

Copier(c) ==
    \/ VerifyRanges(c) \/ EnsureTopic(c) \/ InitTransactions(c) \/ FetchCommitted(c)
    \/ RequireEmpty(c) \/ BeginBatch(c) \/ CopyRecord(c) \/ CommitBatch(c) \/ ReportEnds(c)
    \/ VerifyRetained(c) \/ Fail(c)

-----------------------------------------------------------------------------
(* Kafka's housekeeping, external.                                           *)

TrimSource(p) ==
    /\ "retention" \in Faults
    /\ low[p] < Target[p]
    /\ low' = [low EXCEPT ![p] = @ + 1]
    /\ UNCHANGED <<kept, exists, replay, replayLow, committed, epoch, copierVars>>

TrimReplay(p) ==
    /\ "replay retention" \in Faults
    /\ replayLow[p] < Len(replay[p])
    /\ replayLow' = [replayLow EXCEPT ![p] = @ + 1]
    /\ UNCHANGED <<kept, low, exists, replay, committed, epoch, copierVars>>

ExpireProgress(p) ==
    /\ "expiry" \in Faults
    /\ committed[p] # Unset
    /\ committed' = [committed EXCEPT ![p] = Unset]
    /\ UNCHANGED <<kept, low, exists, replay, replayLow, epoch, copierVars>>

\* How far a partition was copied, as the group's offset says.
Progress(p) == IF committed[p] = Unset THEN Start[p] ELSE committed[p]

\* The topic is deleted; while a transaction is open that is not modelled.
DeleteTopic ==
    /\ "deletion" \in Faults
    /\ exists
    /\ \A c \in Copiers : batch[c] = <<>>
    /\ exists' = FALSE
    /\ replay' = [p \in Partitions |-> <<>>]
    /\ replayLow' = [p \in Partitions |-> 0]
    /\ kept' = [p \in Partitions |-> Progress(p)]
    /\ UNCHANGED <<low, committed, epoch, copierVars>>

Kafka ==
    \/ \E p \in Partitions : TrimSource(p) \/ TrimReplay(p) \/ ExpireProgress(p)
    \/ DeleteTopic

\* No start is left, or retention has overtaken the checkpoint for good.
Idle ==
    /\ epoch = MaxEpoch \/ \E p \in Partitions : low[p] > Start[p]
    /\ \A c \in Copiers : pc[c] \in {"idle", "create", "init", "done"}
    /\ UNCHANGED vars

Next == (\E c \in Copiers : Copier(c)) \/ Kafka \/ Idle

Spec == Init /\ [][Next]_vars
-----------------------------------------------------------------------------
(* Properties.                                                               *)

\* The records of p from one source offset up to another.
SourceRecords(p, from, limit) == {o \in Records[p] : from <= o /\ o < limit}

\* The records the replay log shows are these, each once, in source order.
Shows(p, records) ==
    LET shown == {i \in DOMAIN replay[p] : replay[p][i] # Hole}
    IN  /\ {replay[p][i] : i \in shown} = records
        /\ \A i, k \in shown : i < k => replay[p][i] < replay[p][k]

\* At any moment the committed replay records are exactly the source records
\* between the checkpoint and the group's committed offset, whatever attempts
\* failed, died or were fenced (table-recovery.md: "a controller crash exposes
\* either the whole batch or none of it"); in a replay topic that was recreated,
\* exactly those after the progress at which it was deleted.
CopiedExactly ==
    \A p \in Partitions : Shows(p, SourceRecords(p, kept[p], Progress(p)))

\* The replay topic holds the bounded range, and the copier's ends bound it.
CompleteFor(c) ==
    \A p \in Partitions :
        /\ Shows(p, SourceRecords(p, Start[p], Target[p]))
        /\ replayLow[p] = 0
        /\ ends[c][p] = IF Visible(p) = {} THEN 0 ELSE Max(Visible(p))

\* A copy that reports success leaves the complete range, once and in order,
\* with the end offsets the replay connector must reach; retention on either
\* topic, expired progress and (table-recovery.md: "If a replay topic is
\* recreated after source progress was committed, recovery also fails rather
\* than accepting missing data") deletion make it fail instead.
SuccessIsComplete ==
    [][\A c \in Copiers : pc[c] = "verify" /\ pc'[c] = "done" => CompleteFor(c)']_vars
=============================================================================
