-------------------------- MODULE BackupCatalogProofs --------------------------
(***************************************************************************)
(* Proofs about BackupCatalog, for any number of Jobs and configurations,  *)
(* any incremental limit and any faults.                                   *)
(***************************************************************************)
EXTENDS BackupCatalog, Extrema, SequenceTheorems, FiniteSetTheorems, TLAPS

-----------------------------------------------------------------------------
(* What is below the last stable offset.                                     *)

Unresolved == {i \in DOMAIN log : txn[log[i].id] \in {"open", "prepared"}}

StableIsFirst ==
    /\ StableEnd \in 0 .. Len(log)
    /\ \A i \in 1 .. StableEnd : i \in DOMAIN log /\ i \notin Unresolved
    /\ StableEnd < Len(log) => StableEnd + 1 \in Unresolved

LEMMA StableEndIs == TypeOK => StableIsFirst
<1> SUFFICES ASSUME TypeOK
             PROVE  /\ StableEnd \in 0 .. Len(log)
                    /\ \A i \in 1 .. StableEnd : i \in DOMAIN log /\ i \notin Unresolved
                    /\ StableEnd < Len(log) => StableEnd + 1 \in Unresolved
    BY DEF StableIsFirst
<1>1. Len(log) \in Nat /\ DOMAIN log = 1 .. Len(log)
    BY DEF TypeOK
<1>2. StableEnd = IF Unresolved = {} THEN Len(log) ELSE Min(Unresolved) - 1
    BY DEF StableEnd, Unresolved
<1>3. CASE Unresolved = {}
    BY <1>1, <1>2, <1>3
<1>4. CASE Unresolved # {}
  <2>1. Unresolved \in SUBSET Nat /\ Unresolved \subseteq 1 .. Len(log)
    BY <1>1 DEF Unresolved
  <2>2. Min(Unresolved) \in Unresolved /\ \A y \in Unresolved : Min(Unresolved) <= y
    BY <1>4, <2>1, MinIsLeast
  <2> DEFINE first == Min(Unresolved)
  <2>3. first \in 1 .. Len(log) /\ first \in Unresolved /\ \A y \in Unresolved : first <= y
    BY <2>1, <2>2
  <2>4. StableEnd = first - 1
    BY <1>2, <1>4
  <2> HIDE DEF first
  <2>5. ASSUME NEW i \in 1 .. StableEnd PROVE i \in DOMAIN log /\ i \notin Unresolved
    BY <1>1, <2>3, <2>4
  <2>6. StableEnd \in 0 .. Len(log) /\ StableEnd + 1 \in Unresolved
    BY <1>1, <2>3, <2>4
  <2> QED
    BY <2>5, <2>6
<1> QED
    BY <1>3, <1>4

\* The chain state a Job plans on is a committed entry below its watermark.
LEMMA StateIsCommitted ==
    ASSUME TypeOK, NEW n \in Nat, StatesBelow(n) # {}
    PROVE  \E k \in DOMAIN log : Committed(k) /\ StateAt(n) = log[k]
<1>1. StatesBelow(n) \in SUBSET (1 .. n)
    BY DEF StatesBelow
<1>2. Max(StatesBelow(n)) \in StatesBelow(n)
    BY <1>1, MaxIsGreatest
<1> QED
    BY <1>2 DEF StatesBelow, StateAt, Committed

-----------------------------------------------------------------------------
(* Types, and with them the limit of a chain.                                *)

LEMMA SeedTyped == SeedEntry \in Entries
    BY CatalogAssumption DEF SeedEntry, Entries, Backups

LEMMA PlanTyped ==
    ASSUME TypeOK, NEW j \in Jobs
    PROVE  /\ FullPlan(j, 1) \in Entries
           /\ \A k \in DOMAIN log : PlanAfter(j, log[k]) \in Entries
<1>1. ASSUME NEW generation \in Nat \ {0} PROVE FullPlan(j, generation) \in Entries
    BY CatalogAssumption DEF FullPlan, Entries, Backups
<1>2. ASSUME NEW k \in DOMAIN log PROVE PlanAfter(j, log[k]) \in Entries
  <2> DEFINE tip == log[k]
             full == FullPlan(j, tip.generation + 1)
  <2>1. tip \in Entries
    BY DEF TypeOK
  <2>2. full \in Entries
    BY <1>1, <2>1 DEF Entries
  <2>3. tip.id \in Backups /\ tip.chain \in Backups /\ tip.position \in 0 .. MaxIncrementals
    BY <2>1 DEF Entries
  <2> HIDE DEF tip, full
  <2>4. CASE HasRoom(tip)
    <3>1. tip.position + 1 \in 0 .. MaxIncrementals
      BY <2>3, <2>4, CatalogAssumption DEF HasRoom
    <3>2. [full EXCEPT !.parent = tip.id, !.chain = tip.chain,
                       !.position = tip.position + 1] \in Entries
      BY <2>2, <2>3, <3>1 DEF Entries
    <3>3. PlanAfter(j, tip) = [full EXCEPT !.parent = tip.id, !.chain = tip.chain,
                                           !.position = tip.position + 1]
      BY <2>4 DEF PlanAfter, ParentFor, full
    <3> QED
      BY <3>2, <3>3 DEF tip
  <2>5. CASE ~HasRoom(tip)
    BY <2>2, <2>5 DEF PlanAfter, full, tip
  <2> QED
    BY <2>4, <2>5
<1> QED
    BY <1>1, <1>2

LEMMA TypeInit == Init => TypeOK
<1> SUFFICES ASSUME Init PROVE TypeOK
    OBVIOUS
<1>1. log \in Seq(Entries)
    BY SeedTyped DEF Init
<1>2. txn \in [Backups -> {"none", "open", "prepared", "committed", "aborted"}]
    BY DEF Init
<1> QED
    BY <1>1, <1>2, SeedTyped, CatalogAssumption DEF Init, TypeOK

\* The end of a Job, whatever it leaves its transaction as.
LEMMA ExitsTyped ==
    ASSUME TypeOK, NEW j \in Jobs, Exits(j)
    PROVE  /\ pc' \in [Jobs -> Holding \cup {"start", "joining", "exited"}]
           /\ high' \in [Jobs -> Nat] /\ plan' \in [Jobs -> Entries] /\ expired' \subseteq Jobs
    BY SeedTyped DEF TypeOK, Exits, Goes

LEMMA PlansTyped ==
    ASSUME TypeOK, NEW j \in Jobs, NEW entry \in Entries, Plans(j, entry)
    PROVE  /\ pc' \in [Jobs -> Holding \cup {"start", "joining", "exited"}]
           /\ high' \in [Jobs -> Nat] /\ plan' \in [Jobs -> Entries] /\ expired' \subseteq Jobs
    BY DEF TypeOK, Plans, Goes, Holding

LEMMA LeftTyped ==
    ASSUME TypeOK, NEW j \in Jobs, NEW left \in LeftAs(j), txn' = [txn EXCEPT ![j] = left]
    PROVE  txn' \in [Backups -> {"none", "open", "prepared", "committed", "aborted"}]
<1>1. left \in {"none", "open", "prepared", "committed", "aborted"}
    BY DEF LeftAs, TypeOK, Backups
<1> QED
    BY <1>1 DEF TypeOK

LEMMA TypeNext == TypeOK /\ [Next]_vars => TypeOK'
<1> SUFFICES ASSUME TypeOK, [Next]_vars PROVE TypeOK'
    OBVIOUS
<1> USE DEF catalogVars, lockVars, jobVars
<1>1. ASSUME NEW j \in Jobs, Job(j) PROVE TypeOK'
  <2>1. CASE Join(j)
    <3>1. StableEnd \in Nat
      BY StableEndIs DEF StableIsFirst, TypeOK
    <3>2. high' \in [Jobs -> Nat] /\ plan' \in [Jobs -> Entries]
          /\ pc' \in [Jobs -> Holding \cup {"start", "joining", "exited"}]
      BY <2>1, <3>1, PlanTyped DEF Join, TypeOK, Goes, Holding
    <3> QED
      BY <2>1, <3>2 DEF Join, TypeOK
  <2>2. CASE AcquireTimesOut(j)
    BY <2>2, ExitsTyped DEF AcquireTimesOut, TypeOK
  <2>3. CASE Acquire(j)
    <3>1. UNCHANGED <<log, txn, compacted, owner, ingested>>
      BY <2>3 DEF Acquire
    <3>2. Exits(j) \/ \E entry \in Entries : Plans(j, entry)
      <4>1. CASE StatesBelow(high[j]) = {}
        BY <2>3, <4>1, PlanTyped DEF Acquire
      <4>2. CASE StatesBelow(high[j]) # {}
        <5>1. PICK k \in DOMAIN log : StateAt(high[j]) = log[k]
          BY <4>2, StateIsCommitted DEF TypeOK
        <5>2. PlanAfter(j, StateAt(high[j])) \in Entries
          BY <5>1, PlanTyped
        <5> QED
          BY <2>3, <4>2, <5>2 DEF Acquire
      <4> QED
        BY <4>1, <4>2
    <3> QED
      BY <3>1, <3>2, ExitsTyped, PlansTyped DEF TypeOK
  <2>4. CASE Capture(j)
    <3>1. [plan[j] EXCEPT !.checkpoint = ingested] \in Entries
      BY DEF TypeOK, Entries
    <3>2. plan' \in [Jobs -> Entries]
      BY <2>4, <3>1 DEF Capture, TypeOK
    <3> QED
      BY <2>4, <3>2 DEF Capture, TypeOK, Goes, Holding
  <2>5. CASE Publish(j)
    <3>1. Append(log, plan[j]) \in Seq(Entries)
      BY AppendProperties DEF TypeOK
    <3> QED
      BY <2>5, <3>1 DEF Publish, TypeOK, Goes, Holding, Backups
  <2>6. CASE CommitTransaction(j)
    BY <2>6 DEF CommitTransaction, TypeOK, Goes, Holding, Backups
  <2>7. CASE Finish(j)
    BY <2>7, ExitsTyped DEF Finish, TypeOK
  <2>8. CASE Fail(j) \/ Crash(j)
    <3>1. Exits(j) /\ UNCHANGED <<log, compacted, owner, ingested>>
      BY <2>8 DEF Fail, Crash
    <3>2. txn' \in [Backups -> {"none", "open", "prepared", "committed", "aborted"}]
      BY <2>8, LeftTyped DEF Fail, Crash
    <3> QED
      BY <3>1, <3>2, ExitsTyped DEF TypeOK
  <2> QED
    BY <1>1, <2>1, <2>2, <2>3, <2>4, <2>5, <2>6, <2>7, <2>8 DEF Job
<1>2. ASSUME NEW j \in Jobs, Assign(j) \/ Rebalance(j) \/ Resolve(j) PROVE TypeOK'
    BY <1>2 DEF Assign, Rebalance, Resolve, TypeOK, Backups
<1>3. CASE Release \/ Expire
    BY <1>3 DEF Release, Expire, TypeOK
<1>4. CASE Ingest
    BY <1>4, CatalogAssumption DEF Ingest, TypeOK
<1>5. ASSUME NEW i \in DOMAIN log, Compact(i) PROVE TypeOK'
  <2>1. log[i] \in Entries
    BY DEF TypeOK
  <2>2. log[i].id \in Backups
    BY <2>1 DEF Entries
  <2> QED
    BY <1>5, <2>2 DEF Compact, TypeOK
<1>6. CASE UNCHANGED vars
    BY <1>6 DEF vars, TypeOK
<1> QED
    BY <1>1, <1>2, <1>3, <1>4, <1>5, <1>6 DEF Next, Kafka, Idle

\* The variables keep their types; no chain has more incrementals than the limit.
THEOREM CatalogTyped == Spec => []TypeOK
    BY TypeInit, TypeNext, PTL DEF Spec

-----------------------------------------------------------------------------
(* The lock.                                                                 *)

\* A Job that found something in the catalog goes on only as the owner, and nobody
\* becomes the owner while it holds on.
LeaseInv ==
    \A j \in Jobs \ expired : pc[j] \in Holding /\ high[j] > 0 => owner = j

LEMMA LeaseInit == Init => LeaseInv
    BY DEF Init, LeaseInv, Holding

LEMMA LeaseNext == TypeOK /\ LeaseInv /\ [Next]_vars => LeaseInv'
<1> SUFFICES ASSUME TypeOK, LeaseInv, [Next]_vars PROVE LeaseInv'
    OBVIOUS
<1> USE DEF catalogVars, lockVars, jobVars
<1>1. ASSUME NEW j \in Jobs, Exits(j), owner' = owner PROVE LeaseInv'
    BY <1>1 DEF Exits, Goes, LeaseInv, TypeOK, Holding
<1>2. ASSUME NEW j \in Jobs, Job(j) PROVE LeaseInv'
  <2>1. CASE Join(j)
    <3>1. StableEnd \in Nat
      BY StableEndIs DEF StableIsFirst, TypeOK
    <3> QED
      BY <2>1, <3>1 DEF Join, Goes, LeaseInv, TypeOK, Holding
  <2>2. CASE Acquire(j)
    <3>1. CASE Exits(j)
      BY <1>1, <2>2, <3>1 DEF Acquire
    <3>2. CASE ~Exits(j)
      <4>1. owner = j /\ owner' = owner /\ high' = high /\ expired' = expired
            /\ pc' = [pc EXCEPT ![j] = "working"]
        BY <2>2, <3>2 DEF Acquire, Owns, Plans, Goes
      <4> QED
        BY <4>1 DEF LeaseInv, TypeOK
    <3> QED
      BY <3>1, <3>2
  <2>3. CASE Capture(j) \/ Publish(j) \/ CommitTransaction(j)
    BY <2>3 DEF Capture, Publish, CommitTransaction, Goes, LeaseInv, TypeOK, Holding
  <2>4. CASE AcquireTimesOut(j) \/ Finish(j) \/ Fail(j) \/ Crash(j)
    BY <1>1, <2>4 DEF AcquireTimesOut, Finish, Fail, Crash
  <2> QED
    BY <1>2, <2>1, <2>2, <2>3, <2>4 DEF Job
<1>3. ASSUME NEW j \in Jobs, Assign(j) \/ Rebalance(j) \/ Resolve(j) PROVE LeaseInv'
    BY <1>3, CatalogSentinels DEF Assign, Rebalance, Resolve, LeaseInv, Holding, Backups
<1>4. CASE Release \/ Expire
    BY <1>4 DEF Release, Expire, LeaseInv, Holding
<1>5. CASE Ingest \/ UNCHANGED vars \/ \E i \in DOMAIN log : Compact(i)
    BY <1>5 DEF Ingest, Compact, vars, LeaseInv
<1> QED
    BY <1>2, <1>3, <1>4, <1>5 DEF Next, Kafka, Idle

\* Of any number of Jobs that found a catalog and kept their session, one holds it.
THEOREM OneSession == Spec => []SessionExclusive
<1>1. TypeOK /\ LeaseInv => SessionExclusive
  <2> SUFFICES ASSUME LeaseInv PROVE SessionExclusive
    OBVIOUS
  <2> DEFINE S == {j \in Jobs \ expired : pc[j] \in Holding /\ high[j] > 0}
  <2>1. S \subseteq {owner}
    BY DEF LeaseInv
  <2> HIDE DEF S
  <2>2. IsFiniteSet({owner}) /\ Cardinality({owner}) = 1
    BY FS_Singleton
  <2>3. Cardinality(S) <= 1
    BY <2>1, <2>2, FS_Subset
  <2> QED
    BY <2>3 DEF SessionExclusive, S
<1> QED
    BY <1>1, TypeInit, TypeNext, LeaseInit, LeaseNext, PTL DEF Spec

-----------------------------------------------------------------------------
(* The chain.                                                                *)

Resolved(b) == txn[b] \in {"committed", "aborted"}

\* A Job has one transaction and one entry, with its own ID.
TxnInv ==
    /\ \A j \in Jobs : pc[j] \in {"start", "joining", "working", "uploading"} => txn[j] = "none"
    /\ \A j \in Jobs : pc[j] \in {"working", "uploading"} => plan[j].id = j
    /\ \A i \in DOMAIN log : txn[log[i].id] # "none"
    /\ \A i, k \in DOMAIN log : log[i].id = log[k].id => i = k

\* An entry is a full backup, or rests on a committed one among the first n, whose
\* checkpoint is not after a limit, in a log and with what became of its transactions.
Rests(e, n, limit, entries, fate) ==
    IF e.parent = NoBackup
    THEN e.position = 0 /\ e.chain = e.id
    ELSE \E k \in (1 .. n) \cap DOMAIN entries :
            LET parent == entries[k]
            IN  /\ fate[parent.id] = "committed"
                /\ parent.id = e.parent /\ parent.chain = e.chain
                /\ parent.topology = e.topology
                /\ parent.position + 1 = e.position
                /\ parent.generation < e.generation
                /\ parent.checkpoint <= limit

ChainInv ==
    /\ \A i \in DOMAIN log : log[i].checkpoint <= ingested
    /\ \A i \in DOMAIN log : Rests(log[i], i - 1, log[i].checkpoint, log, txn)
    /\ \A j \in Jobs :
          /\ plan[j].checkpoint <= ingested
          /\ pc[j] = "working" => Rests(plan[j], Len(log), ingested, log, txn)
          /\ pc[j] = "uploading" => Rests(plan[j], Len(log), plan[j].checkpoint, log, txn)

\* No step takes back what a transaction has become, or an entry.
Grows ==
    /\ Len(log) <= Len(log')
    /\ \A i \in DOMAIN log : i \in DOMAIN log' /\ log'[i] = log[i]
    /\ \A i \in DOMAIN log : Resolved(log[i].id) => txn'[log[i].id] = txn[log[i].id]

LEMMA RestsStill ==
    ASSUME TypeOK, Grows, NEW e, NEW n \in Nat, NEW m \in Nat, n <= m,
           NEW limit \in Nat, NEW higher \in Nat, limit <= higher, Rests(e, n, limit, log, txn)
    PROVE  Rests(e, m, higher, log', txn')
<1>1. CASE e.parent = NoBackup
    BY <1>1 DEF Rests
<1>2. CASE e.parent # NoBackup
  <2>1. PICK k \in (1 .. n) \cap DOMAIN log :
            /\ txn[log[k].id] = "committed"
            /\ log[k].id = e.parent /\ log[k].chain = e.chain /\ log[k].topology = e.topology
            /\ log[k].position + 1 = e.position
            /\ log[k].generation < e.generation
            /\ log[k].checkpoint <= limit
    BY <1>2 DEF Rests
  <2>2. k \in (1 .. m) \cap DOMAIN log' /\ log'[k] = log[k] /\ txn'[log[k].id] = "committed"
    BY <2>1 DEF Grows, Resolved
  <2>3. log[k].checkpoint \in Nat
    <3>1. log[k] \in Entries
      BY DEF TypeOK
    <3> QED
      BY <3>1 DEF Entries
  <2>4. log'[k].checkpoint <= higher
    BY <2>1, <2>2, <2>3
  <2> QED
    BY <1>2, <2>1, <2>2, <2>4 DEF Rests
<1> QED
    BY <1>1, <1>2

LEMMA PlanIsOwn ==
    ASSUME NEW j, NEW generation, NEW tip
    PROVE  FullPlan(j, generation).id = j /\ PlanAfter(j, tip).id = j
    BY DEF FullPlan, PlanAfter

LEMMA TxnInit == Init => TxnInv
<1> SUFFICES ASSUME Init PROVE TxnInv
    OBVIOUS
<1>1. \A j \in Jobs : pc[j] = "start" /\ txn[j] = "none"
    BY CatalogAssumption DEF Init, Backups
<1>2. CASE log = <<>>
    BY <1>1, <1>2 DEF TxnInv
<1>3. CASE log = <<SeedEntry>> /\ txn[Seed] = "committed"
  <2>1. DOMAIN log = {1} /\ log[1].id = Seed
    BY <1>3 DEF SeedEntry
  <2> QED
    BY <1>1, <1>3, <2>1 DEF TxnInv
<1> QED
    BY <1>2, <1>3 DEF Init, Backups

\* A Job that goes away.
LEMMA TxnExits ==
    ASSUME TypeOK, TxnInv, NEW j \in Jobs, Exits(j), log' = log,
           txn' = txn \/ \E left \in LeftAs(j) : txn' = [txn EXCEPT ![j] = left]
    PROVE  TxnInv' /\ Grows
<1>1. pc' = [pc EXCEPT ![j] = "exited"]
      /\ \A k \in Jobs : k # j => plan'[k] = plan[k]
    BY DEF Exits, Goes, TypeOK
<1>2. /\ \A b \in Backups : b # j => txn'[b] = txn[b]
      /\ txn[j] # "open" => txn'[j] = txn[j]
      /\ txn'[j] = "none" => txn[j] = "none"
    BY DEF LeftAs, TypeOK, Backups
<1>3. \A i \in DOMAIN log : log[i].id \in Backups
  <2>1. \A i \in DOMAIN log : log[i] \in Entries
    BY DEF TypeOK
  <2> QED
    BY <2>1 DEF Entries
<1>4. TxnInv'
    BY <1>1, <1>2, <1>3 DEF TxnInv, TypeOK, Backups
<1>5. Len(log) \in Nat
    BY DEF TypeOK
<1> QED
    BY <1>2, <1>3, <1>4, <1>5 DEF Grows, Resolved

\* Steps that touch neither the log nor a transaction, and no plan but its Job's.
LEMMA TxnSame ==
    ASSUME TypeOK, TxnInv, UNCHANGED <<log, txn>>,
           \A j \in Jobs : /\ pc'[j] = pc[j] /\ plan'[j].id = plan[j].id
                           \/ /\ pc[j] \in {"start", "joining", "working"}
                              /\ pc'[j] \in {"joining", "working", "uploading"}
                              /\ pc'[j] \in {"working", "uploading"} => plan'[j].id = j
    PROVE  TxnInv' /\ Grows
<1>1. Len(log) \in Nat
    BY DEF TypeOK
<1> QED
    BY <1>1 DEF TxnInv, Grows

LEMMA TxnNext == TypeOK /\ TxnInv /\ [Next]_vars => TxnInv' /\ Grows
<1> SUFFICES ASSUME TypeOK, TxnInv, [Next]_vars PROVE TxnInv' /\ Grows
    OBVIOUS
<1> USE DEF catalogVars, lockVars, jobVars
<1>0. \A i \in DOMAIN log : log[i].id \in Backups
  <2>1. \A i \in DOMAIN log : log[i] \in Entries
    BY DEF TypeOK
  <2> QED
    BY <2>1 DEF Entries
<1>1. ASSUME NEW j \in Jobs, Job(j) PROVE TxnInv' /\ Grows
  <2>1. CASE Join(j)
    <3>1. /\ UNCHANGED <<log, txn>> /\ pc[j] = "start"
          /\ \A k \in Jobs : k # j => pc'[k] = pc[k] /\ plan'[k].id = plan[k].id
          /\ pc'[j] \in {"joining", "working"}
          /\ pc'[j] = "working" => plan'[j].id = j
      <4>1. CASE StableEnd = 0
        <5>1. plan' = [plan EXCEPT ![j] = FullPlan(j, 1)] /\ pc' = [pc EXCEPT ![j] = "working"]
              /\ pc[j] = "start" /\ UNCHANGED <<log, txn>>
          BY <2>1, <4>1 DEF Join, Goes
        <5>2. FullPlan(j, 1).id = j
          BY PlanIsOwn
        <5> QED
          BY <5>1, <5>2 DEF TypeOK
      <4>2. CASE StableEnd # 0
        BY <2>1, <4>2 DEF Join, Goes, TypeOK
      <4> QED
        BY <4>1, <4>2
    <3> QED
      BY <3>1, TxnSame
  <2>2. CASE Acquire(j)
    <3>1. CASE Exits(j)
      BY <2>2, <3>1, TxnExits DEF Acquire
    <3>2. CASE ~Exits(j)
      <4>1. PICK entry : Plans(j, entry) /\ entry.id = j
        BY <2>2, <3>2, PlanIsOwn DEF Acquire
      <4>2. /\ UNCHANGED <<log, txn>> /\ pc[j] = "joining"
            /\ \A k \in Jobs : k # j => pc'[k] = pc[k] /\ plan'[k].id = plan[k].id
            /\ pc'[j] = "working" /\ plan'[j].id = j
        BY <2>2, <4>1 DEF Acquire, Plans, Goes, TypeOK
      <4> QED
        BY <4>2, TxnSame
    <3> QED
      BY <3>1, <3>2
  <2>3. CASE Capture(j)
    <3>1. /\ UNCHANGED <<log, txn>> /\ pc[j] = "working"
          /\ \A k \in Jobs : k # j => pc'[k] = pc[k] /\ plan'[k].id = plan[k].id
          /\ pc'[j] = "uploading" /\ plan'[j] = [plan[j] EXCEPT !.checkpoint = ingested]
      BY <2>3 DEF Capture, Goes, TypeOK
    <3>2. plan[j].id = j /\ plan[j] \in Entries
      BY <3>1 DEF TxnInv, TypeOK
    <3>3. plan'[j].id = j
      BY <3>1, <3>2 DEF Entries
    <3> QED
      BY <3>1, <3>3, TxnSame
  <2>4. CASE Publish(j)
    <3> DEFINE last == Len(log) + 1
               entry == plan[j]
    <3>1. /\ entry \in Entries /\ log \in Seq(Entries) /\ Len(log) \in Nat
          /\ entry.id = j /\ txn[j] = "none"
          /\ log' = Append(log, entry)
      BY <2>4 DEF Publish, TypeOK, TxnInv
    <3> HIDE DEF entry
    <3>2. /\ DOMAIN log = 1 .. Len(log) /\ DOMAIN log' = 1 .. last /\ Len(log') = last
          /\ \A i \in DOMAIN log : log'[i] = log[i]
          /\ log'[last] = entry
      BY <3>1, AppendProperties
    <3>3. /\ \A b \in Backups : b # j => txn'[b] = txn[b]
          /\ txn'[j] = "open"
          /\ pc' = [pc EXCEPT ![j] = "publishing"] /\ plan' = plan
      BY <2>4 DEF Publish, Goes, TypeOK, Backups
    <3>4. \A i \in DOMAIN log : log[i].id # j
      BY <3>1 DEF TxnInv
    <3>5. \A i \in DOMAIN log' : i = last \/ i \in DOMAIN log
      BY <3>1, <3>2
    <3>6. /\ \A i \in DOMAIN log' : txn'[log'[i].id] # "none"
          /\ \A i, k \in DOMAIN log' : log'[i].id = log'[k].id => i = k
      BY <1>0, <3>1, <3>2, <3>3, <3>4, <3>5 DEF TxnInv
    <3>7. /\ \A k \in Jobs : pc'[k] \in {"start", "joining", "working", "uploading"}
                               => txn'[k] = "none"
          /\ \A k \in Jobs : pc'[k] \in {"working", "uploading"} => plan'[k].id = k
      BY <3>3 DEF TxnInv, TypeOK, Backups
    <3>8. Grows
      BY <1>0, <3>1, <3>2, <3>3, <3>4 DEF Grows, Resolved
    <3> QED
      BY <3>6, <3>7, <3>8 DEF TxnInv
  <2>5. CASE CommitTransaction(j)
    <3>1. /\ log' = log /\ plan' = plan /\ Len(log) \in Nat
          /\ \A b \in Backups : b # j => txn'[b] = txn[b]
          /\ txn[j] = "open" /\ txn'[j] = "committed"
          /\ pc' = [pc EXCEPT ![j] = "finishing"]
      BY <2>5 DEF CommitTransaction, Goes, TypeOK, Backups
    <3>2. TxnInv'
      BY <1>0, <3>1 DEF TxnInv, TypeOK, Backups
    <3> QED
      BY <1>0, <3>1, <3>2 DEF Grows, Resolved
  <2>6. CASE AcquireTimesOut(j) \/ Finish(j) \/ Fail(j) \/ Crash(j)
    BY <2>6, TxnExits DEF AcquireTimesOut, Finish, Fail, Crash
  <2> QED
    BY <1>1, <2>1, <2>2, <2>3, <2>4, <2>5, <2>6 DEF Job
<1>2. ASSUME NEW j \in Jobs, Resolve(j) PROVE TxnInv' /\ Grows
  <2>1. /\ log' = log /\ plan' = plan /\ pc' = pc /\ Len(log) \in Nat
        /\ \A b \in Backups : b # j => txn'[b] = txn[b]
        /\ txn[j] \in {"open", "prepared"} /\ txn'[j] \in {"committed", "aborted"}
    BY <1>2 DEF Resolve, TypeOK, Backups
  <2>2. TxnInv'
    BY <1>0, <2>1 DEF TxnInv, TypeOK, Backups
  <2> QED
    BY <1>0, <2>1, <2>2 DEF Grows, Resolved
<1>3. CASE UNCHANGED <<log, txn, jobVars>>
    BY <1>3, TxnSame
<1>4. ASSUME NEW j \in Jobs, Assign(j) \/ Rebalance(j) PROVE TxnInv' /\ Grows
    BY <1>3, <1>4 DEF Assign, Rebalance
<1>5. CASE Release \/ Expire \/ Ingest \/ UNCHANGED vars \/ \E i \in DOMAIN log : Compact(i)
    BY <1>3, <1>5 DEF Release, Expire, Ingest, Compact, vars
<1> QED
    BY <1>1, <1>2, <1>4, <1>5 DEF Next, Kafka, Idle

LEMMA ChainInit == Init => ChainInv
<1> SUFFICES ASSUME Init PROVE ChainInv
    OBVIOUS
<1>1. ingested = 0 /\ \A j \in Jobs : pc[j] = "start" /\ plan[j].checkpoint = 0
    BY DEF Init, SeedEntry
<1>2. CASE log = <<>>
    BY <1>1, <1>2 DEF ChainInv
<1>3. CASE log = <<SeedEntry>>
  <2>1. /\ DOMAIN log = {1} /\ log[1] = SeedEntry /\ SeedEntry.checkpoint = 0
        /\ Rests(SeedEntry, 0, 0, log, txn)
    BY <1>3 DEF SeedEntry, Rests
  <2>2. \A i \in DOMAIN log :
            /\ log[i].checkpoint <= ingested
            /\ Rests(log[i], i - 1, log[i].checkpoint, log, txn)
    BY <1>1, <2>1
  <2> QED
    BY <1>1, <2>2 DEF ChainInv
<1> QED
    BY <1>2, <1>3 DEF Init

\* What a Job plans on top of the chain state it found.
LEMMA PlanRests ==
    ASSUME TypeOK, ChainInv, NEW j \in Jobs, NEW k \in DOMAIN log, Committed(k),
           log[k].topology = TopologyOf[j]
    PROVE  Rests(PlanAfter(j, log[k]), Len(log), ingested, log, txn)
<1> DEFINE tip == log[k]
           full == FullPlan(j, tip.generation + 1)
           entry == PlanAfter(j, tip)
<1>1. tip \in Entries /\ k \in 1 .. Len(log) /\ tip.checkpoint <= ingested /\ tip.id # NoBackup
  <2>1. tip \in Entries /\ k \in 1 .. Len(log)
    BY DEF TypeOK
  <2>2. tip.id \in Backups
    BY <2>1 DEF Entries
  <2> QED
    BY <2>1, <2>2, CatalogSentinels DEF ChainInv
<1>2. /\ full.parent = NoBackup /\ full.chain = full.id /\ full.position = 0
      /\ full.topology = TopologyOf[j] /\ full.generation = tip.generation + 1
    BY DEF FullPlan
<1>3. CASE ~HasRoom(tip)
    BY <1>2, <1>3 DEF PlanAfter, Rests
<1>4. CASE HasRoom(tip)
  <2>1. entry = [full EXCEPT !.parent = tip.id, !.chain = tip.chain,
                             !.position = tip.position + 1]
    BY <1>4 DEF PlanAfter, ParentFor
  <2>2. /\ entry.parent = tip.id /\ entry.chain = tip.chain
        /\ entry.position = tip.position + 1
        /\ entry.topology = TopologyOf[j] /\ entry.generation = tip.generation + 1
    BY <1>2, <2>1 DEF FullPlan
  <2>3. tip.generation \in Nat
    BY <1>1 DEF Entries
  <2> HIDE DEF entry
  <2>4. tip.generation < entry.generation /\ entry.parent # NoBackup
    BY <1>1, <2>2, <2>3
  <2>5. Rests(entry, Len(log), ingested, log, txn)
    BY <1>1, <2>2, <2>4 DEF Rests, Committed
  <2> QED
    BY <2>5 DEF entry
<1> QED
    BY <1>3, <1>4

\* What a new entry and a new plan rest on is enough: the others keep what they had.
LEMMA ChainKept ==
    ASSUME TypeOK, ChainInv, Grows, Len(log') \in Nat, ingested' \in Nat, ingested <= ingested',
           \A i \in DOMAIN log' \ DOMAIN log :
              /\ log'[i].checkpoint <= ingested'
              /\ Rests(log'[i], i - 1, log'[i].checkpoint, log', txn'),
           \A j \in Jobs :
              \/ /\ plan'[j] = plan[j]
                 /\ pc'[j] \in {"working", "uploading"} => pc'[j] = pc[j]
              \/ /\ plan'[j].checkpoint <= ingested'
                 /\ pc'[j] = "working" => Rests(plan'[j], Len(log'), ingested', log', txn')
                 /\ pc'[j] = "uploading"
                      => Rests(plan'[j], Len(log'), plan'[j].checkpoint, log', txn')
    PROVE  ChainInv'
<1>1. /\ Len(log) \in Nat /\ ingested \in Nat /\ DOMAIN log = 1 .. Len(log)
      /\ Len(log) <= Len(log')
    BY DEF TypeOK, Grows
<1>2. ASSUME NEW i \in DOMAIN log PROVE log[i].checkpoint \in Nat
  <2>1. log[i] \in Entries
    BY DEF TypeOK
  <2> QED
    BY <2>1 DEF Entries
<1>3. ASSUME NEW j \in Jobs PROVE plan[j].checkpoint \in Nat
  <2>1. plan[j] \in Entries
    BY DEF TypeOK
  <2> QED
    BY <2>1 DEF Entries
<1>4. ASSUME NEW i \in DOMAIN log
      PROVE  /\ log'[i].checkpoint <= ingested'
             /\ Rests(log'[i], i - 1, log'[i].checkpoint, log', txn')
  <2>1. Rests(log[i], i - 1, log[i].checkpoint, log, txn) /\ log[i].checkpoint <= ingested
    BY DEF ChainInv
  <2>2. Rests(log[i], i - 1, log[i].checkpoint, log', txn')
    BY <1>1, <1>2, <2>1, RestsStill
  <2>3. log'[i] = log[i]
    BY DEF Grows
  <2> QED
    BY <1>1, <1>2, <2>1, <2>2, <2>3
<1>5. ASSUME NEW j \in Jobs
      PROVE  /\ plan'[j].checkpoint <= ingested'
             /\ pc'[j] = "working" => Rests(plan'[j], Len(log'), ingested', log', txn')
             /\ pc'[j] = "uploading"
                  => Rests(plan'[j], Len(log'), plan'[j].checkpoint, log', txn')
  <2> DEFINE rests ==
          /\ plan'[j].checkpoint <= ingested'
          /\ pc'[j] = "working" => Rests(plan'[j], Len(log'), ingested', log', txn')
          /\ pc'[j] = "uploading" => Rests(plan'[j], Len(log'), plan'[j].checkpoint, log', txn')
  <2>1. CASE plan'[j] = plan[j] /\ (pc'[j] \in {"working", "uploading"} => pc'[j] = pc[j])
    <3>1. plan[j].checkpoint <= ingested /\ plan[j].checkpoint <= ingested'
      BY <1>1, <1>3 DEF ChainInv
    <3>2. CASE pc'[j] \notin {"working", "uploading"}
      BY <2>1, <3>1, <3>2
    <3>3. CASE pc'[j] = "working"
      <4>1. Rests(plan[j], Len(log), ingested, log, txn)
        BY <2>1, <3>3 DEF ChainInv
      <4>2. Rests(plan[j], Len(log'), ingested', log', txn')
        BY <1>1, <4>1, RestsStill
      <4> QED
        BY <2>1, <3>1, <3>3, <4>2
    <3>4. CASE pc'[j] = "uploading"
      <4>1. Rests(plan[j], Len(log), plan[j].checkpoint, log, txn)
        BY <2>1, <3>4 DEF ChainInv
      <4>2. Rests(plan[j], Len(log'), plan[j].checkpoint, log', txn')
        BY <1>1, <1>3, <4>1, RestsStill
      <4> QED
        BY <2>1, <3>1, <3>4, <4>2
    <3> QED
      BY <3>2, <3>3, <3>4
  <2>2. CASE rests
    BY <2>2
  <2> QED
    BY <2>1, <2>2
<1>6. ASSUME NEW i \in DOMAIN log'
      PROVE  /\ log'[i].checkpoint <= ingested'
             /\ Rests(log'[i], i - 1, log'[i].checkpoint, log', txn')
    BY <1>4
<1> QED
    BY <1>5, <1>6 DEF ChainInv

\* A full plan rests on nothing.
LEMMA FullRests ==
    ASSUME NEW j, NEW generation, NEW n, NEW limit, NEW entries, NEW fate
    PROVE  /\ Rests(FullPlan(j, generation), n, limit, entries, fate)
           /\ FullPlan(j, generation).checkpoint = 0
    BY DEF FullPlan, Rests

\* The checkpoint a plan starts with.
LEMMA PlanStartsAtZero ==
    ASSUME NEW j, NEW tip PROVE PlanAfter(j, tip).checkpoint = 0
    BY DEF PlanAfter, FullPlan

LEMMA ChainNext == TypeOK /\ TypeOK' /\ TxnInv /\ Grows /\ ChainInv /\ [Next]_vars => ChainInv'
<1> SUFFICES ASSUME TypeOK, TypeOK', TxnInv, Grows, ChainInv, [Next]_vars PROVE ChainInv'
    OBVIOUS
<1> USE DEF catalogVars, lockVars, jobVars
<1>0. Len(log) \in Nat /\ Len(log') \in Nat /\ ingested \in Nat /\ ingested' \in Nat
    BY DEF TypeOK
<1>1. ASSUME log' = log, ingested <= ingested',
             \A j \in Jobs : \/ /\ plan'[j] = plan[j]
                                /\ pc'[j] \in {"working", "uploading"} => pc'[j] = pc[j]
                             \/ plan'[j].checkpoint = 0 /\ pc'[j] \notin {"working", "uploading"}
                             \/ /\ plan'[j].checkpoint <= ingested'
                                /\ pc'[j] = "working"
                                     => Rests(plan'[j], Len(log'), ingested', log', txn')
                                /\ pc'[j] = "uploading"
                                     => Rests(plan'[j], Len(log'), plan'[j].checkpoint, log', txn')
      PROVE  ChainInv'
    BY <1>0, <1>1, ChainKept
<1>2. ASSUME NEW j \in Jobs, Exits(j), log' = log, ingested' = ingested PROVE ChainInv'
  <2>1. /\ \A k \in Jobs : k # j => pc'[k] = pc[k] /\ plan'[k] = plan[k]
        /\ pc'[j] = "exited" /\ plan'[j] = SeedEntry /\ SeedEntry.checkpoint = 0
    BY <1>2 DEF Exits, Goes, TypeOK, SeedEntry
  <2> QED
    BY <1>0, <1>1, <1>2, <2>1
<1>3. ASSUME NEW j \in Jobs, NEW entry, entry.checkpoint = 0, log' = log, txn' = txn,
             ingested' = ingested, pc' = [pc EXCEPT ![j] = "working"],
             plan' = [plan EXCEPT ![j] = entry],
             Rests(entry, Len(log), ingested, log, txn)
      PROVE  ChainInv'
  <2>1. /\ \A k \in Jobs : k # j => pc'[k] = pc[k] /\ plan'[k] = plan[k]
        /\ pc'[j] = "working" /\ plan'[j] = entry
    BY <1>3 DEF TypeOK
  <2>2. plan'[j].checkpoint <= ingested' /\ Rests(plan'[j], Len(log'), ingested', log', txn')
    BY <1>0, <1>3, <2>1
  <2> QED
    BY <1>0, <1>1, <1>3, <2>1, <2>2
<1>4. ASSUME NEW j \in Jobs, Join(j) PROVE ChainInv'
  <2>1. CASE StableEnd = 0
    BY <1>3, <1>4, <2>1, FullRests DEF Join, Goes
  <2>2. CASE StableEnd # 0
    <3>1. /\ log' = log /\ ingested' = ingested /\ plan' = plan
          /\ \A k \in Jobs : k # j => pc'[k] = pc[k]
          /\ pc'[j] = "joining"
      BY <1>4, <2>2 DEF Join, Goes, TypeOK
    <3> QED
      BY <1>0, <1>1, <3>1
  <2> QED
    BY <2>1, <2>2
<1>5. ASSUME NEW j \in Jobs, Acquire(j) PROVE ChainInv'
  <2>1. CASE Exits(j)
    BY <1>2, <1>5, <2>1 DEF Acquire
  <2>2. CASE ~Exits(j)
    <3>1. PICK entry : /\ Plans(j, entry) /\ entry.checkpoint = 0
                       /\ Rests(entry, Len(log), ingested, log, txn)
      <4>1. CASE StatesBelow(high[j]) = {}
        BY <1>5, <4>1, FullRests DEF Acquire
      <4>2. CASE StatesBelow(high[j]) # {}
        <5> DEFINE state == StateAt(high[j])
        <5>1. PICK k \in DOMAIN log : Committed(k) /\ state = log[k]
          BY <4>2, StateIsCommitted DEF TypeOK
        <5>2. Plans(j, PlanAfter(j, state)) /\ state.topology = TopologyOf[j]
          BY <1>5, <2>2, <4>2 DEF Acquire, ValidChain
        <5> HIDE DEF state
        <5>3. Rests(PlanAfter(j, state), Len(log), ingested, log, txn)
          BY <5>1, <5>2, PlanRests
        <5> QED
          BY <5>2, <5>3, PlanStartsAtZero
      <4> QED
        BY <4>1, <4>2
    <3>2. /\ pc' = [pc EXCEPT ![j] = "working"] /\ plan' = [plan EXCEPT ![j] = entry]
          /\ UNCHANGED <<log, txn, ingested>>
      BY <1>5, <3>1 DEF Acquire, Plans, Goes
    <3> QED
      BY <1>3, <3>1, <3>2
  <2> QED
    BY <2>1, <2>2
<1>6. ASSUME NEW j \in Jobs, Capture(j) PROVE ChainInv'
  <2> DEFINE entry == [plan[j] EXCEPT !.checkpoint = ingested]
  <2>1. /\ log' = log /\ txn' = txn /\ ingested' = ingested /\ pc[j] = "working"
        /\ \A k \in Jobs : k # j => pc'[k] = pc[k] /\ plan'[k] = plan[k]
        /\ pc'[j] = "uploading" /\ plan'[j] = entry
    BY <1>6 DEF Capture, Goes, TypeOK
  <2>2. Rests(plan[j], Len(log), ingested, log, txn)
    BY <2>1 DEF ChainInv
  <2>3. plan[j] \in Entries
    BY DEF TypeOK
  <2>4. /\ entry.checkpoint = ingested
        /\ entry.parent = plan[j].parent /\ entry.position = plan[j].position
        /\ entry.chain = plan[j].chain /\ entry.id = plan[j].id
        /\ entry.topology = plan[j].topology /\ entry.generation = plan[j].generation
    BY <2>3 DEF Entries
  <2> HIDE DEF entry
  <2>5. Rests(entry, Len(log), ingested, log, txn)
    BY <2>2, <2>4 DEF Rests
  <2>6. /\ plan'[j].checkpoint <= ingested'
        /\ Rests(plan'[j], Len(log'), plan'[j].checkpoint, log', txn')
    BY <1>0, <2>1, <2>4, <2>5
  <2> QED
    BY <1>0, <1>1, <2>1, <2>6
<1>7. ASSUME NEW j \in Jobs, Publish(j) PROVE ChainInv'
  <2> DEFINE last == Len(log) + 1
             entry == plan[j]
  <2>1. /\ entry \in Entries /\ log \in Seq(Entries) /\ pc[j] = "uploading"
        /\ log' = Append(log, entry) /\ plan' = plan /\ ingested' = ingested
        /\ pc' = [pc EXCEPT ![j] = "publishing"]
    BY <1>7 DEF Publish, Goes, TypeOK
  <2>2. entry.checkpoint \in Nat
    BY <2>1 DEF Entries
  <2>3. Rests(entry, Len(log), entry.checkpoint, log, txn) /\ entry.checkpoint <= ingested
    BY <2>1 DEF ChainInv
  <2> HIDE DEF entry
  <2>4. /\ DOMAIN log = 1 .. Len(log) /\ DOMAIN log' = 1 .. last /\ Len(log') = last
        /\ log'[last] = entry
    BY <2>1, AppendProperties
  <2>5. Rests(entry, Len(log), entry.checkpoint, log', txn')
    BY <1>0, <2>2, <2>3, RestsStill
  <2>6. \A i \in DOMAIN log' \ DOMAIN log : i = last
    BY <1>0, <2>4
  <2>7. last - 1 = Len(log)
    BY <1>0
  <2> HIDE DEF last
  <2>8. \A i \in DOMAIN log' \ DOMAIN log :
            /\ log'[i].checkpoint <= ingested'
            /\ Rests(log'[i], i - 1, log'[i].checkpoint, log', txn')
    BY <2>1, <2>3, <2>4, <2>5, <2>6, <2>7
  <2>9. \A k \in Jobs : plan'[k] = plan[k] /\ (pc'[k] \in {"working", "uploading"} => pc'[k] = pc[k])
    BY <2>1 DEF TypeOK
  <2> QED
    BY <1>0, <2>1, <2>8, <2>9, ChainKept
<1>8. CASE /\ log' = log /\ plan' = plan /\ pc' = pc
           /\ ingested' = ingested \/ ingested' = ingested + 1
    BY <1>0, <1>1, <1>8
<1>9. ASSUME NEW j \in Jobs, CommitTransaction(j) PROVE ChainInv'
  <2>1. /\ log' = log /\ plan' = plan /\ ingested' = ingested
        /\ \A k \in Jobs : pc'[k] \in {"working", "uploading"} => pc'[k] = pc[k]
    BY <1>9 DEF CommitTransaction, Goes, TypeOK
  <2> QED
    BY <1>0, <1>1, <2>1
<1>10. ASSUME NEW j \in Jobs, AcquireTimesOut(j) \/ Finish(j) \/ Fail(j) \/ Crash(j)
       PROVE  ChainInv'
  <2>1. Exits(j) /\ log' = log
    BY <1>10 DEF AcquireTimesOut, Finish, Fail, Crash
  <2>2. ingested' = ingested
    BY <1>10 DEF AcquireTimesOut, Finish, Fail, Crash
  <2> QED
    BY <1>2, <2>1, <2>2
<1>11. ASSUME NEW j \in Jobs, Assign(j) \/ Rebalance(j) \/ Resolve(j) PROVE ChainInv'
    BY <1>8, <1>11 DEF Assign, Rebalance, Resolve
<1>12. CASE Release \/ Expire \/ Ingest \/ UNCHANGED vars \/ \E i \in DOMAIN log : Compact(i)
    BY <1>8, <1>12 DEF Release, Expire, Ingest, Compact, vars
<1> QED
  <2>1. ASSUME NEW j \in Jobs, Job(j) PROVE ChainInv'
    BY <1>4, <1>5, <1>6, <1>7, <1>9, <1>10, <2>1 DEF Job
  <2> QED
    BY <1>11, <1>12, <2>1 DEF Next, Kafka, Idle

\* Every committed backup is a full one, or rests on a committed one that precedes it.
THEOREM ParentsStayCommitted == Spec => []ParentsCommitted
<1>1. TypeOK /\ ChainInv => ParentsCommitted
  <2> SUFFICES ASSUME TypeOK, ChainInv, NEW i \in DOMAIN log, Committed(i),
                      log[i].parent # NoBackup
               PROVE  \E k \in 1 .. i - 1 :
                         /\ Committed(k)
                         /\ log[k].id = log[i].parent /\ log[k].chain = log[i].chain
                         /\ log[k].topology = log[i].topology
                         /\ log[k].position + 1 = log[i].position
                         /\ log[k].generation < log[i].generation
                         /\ log[k].checkpoint <= log[i].checkpoint
    BY DEF ChainInv, Rests, ParentsCommitted
  <2>1. Rests(log[i], i - 1, log[i].checkpoint, log, txn)
    BY DEF ChainInv
  <2> QED
    BY <2>1 DEF Rests, Committed
<1>2. Init => TypeOK /\ TxnInv /\ ChainInv
    BY TypeInit, TxnInit, ChainInit
<1>3. TypeOK /\ TxnInv /\ ChainInv /\ [Next]_vars => (TypeOK /\ TxnInv /\ ChainInv)'
    BY TypeNext, TxnNext, ChainNext
<1> QED
    BY <1>1, <1>2, <1>3, PTL DEF Spec

\* A transaction before the last stable offset stays resolved, so that offset only advances.
LEMMA StableEndGrows ==
    ASSUME TypeOK, TypeOK', TxnInv, Grows
    PROVE  /\ StableEnd \in Nat /\ StableEnd' \in Nat /\ StableEnd <= StableEnd'
           /\ \A i \in 1 .. StableEnd : i \in DOMAIN log /\ Resolved(log[i].id)
           /\ \A i \in 1 .. StableEnd' : i \in DOMAIN log'
<1>1. StableIsFirst
    BY StableEndIs
<1>2. StableIsFirst'
  <2>1. TypeOK' => StableIsFirst'
    BY StableEndIs, PTL
  <2> QED
    BY <2>1
<1>3. /\ Len(log) \in Nat /\ Len(log') \in Nat /\ Len(log) <= Len(log')
      /\ DOMAIN log = 1 .. Len(log)
    BY DEF TypeOK, Grows
<1>4. /\ StableEnd \in 0 .. Len(log) /\ StableEnd' \in 0 .. Len(log')
      /\ StableEnd' < Len(log')
           => /\ StableEnd' + 1 \in DOMAIN log'
              /\ txn'[log'[StableEnd' + 1].id] \in {"open", "prepared"}
      /\ \A i \in 1 .. StableEnd' : i \in DOMAIN log'
    BY <1>1, <1>2 DEF StableIsFirst, Unresolved
<1>5. ASSUME NEW i \in 1 .. StableEnd PROVE i \in DOMAIN log /\ Resolved(log[i].id)
  <2>1. i \in DOMAIN log /\ txn[log[i].id] \notin {"open", "prepared"}
    BY <1>1 DEF StableIsFirst, Unresolved
  <2>2. log[i] \in Entries
    BY <2>1 DEF TypeOK
  <2>3. log[i].id \in Backups
    BY <2>2 DEF Entries
  <2>4. txn[log[i].id] \in {"none", "open", "prepared", "committed", "aborted"}
    BY <2>3 DEF TypeOK
  <2> QED
    BY <2>1, <2>4 DEF TxnInv, Resolved
<1>6. StableEnd <= StableEnd'
  <2> SUFFICES ASSUME StableEnd > StableEnd' PROVE FALSE
    BY <1>3, <1>4
  <2> DEFINE i == StableEnd' + 1
  <2>1. i \in 1 .. StableEnd /\ StableEnd' < Len(log')
    <3>1. ASSUME NEW n \in Nat, NEW m \in Nat, n <= m, NEW a \in 0 .. n, NEW b \in 0 .. m, a > b
          PROVE  b + 1 \in 1 .. a /\ b < m
      BY <3>1
    <3> QED
      BY <1>3, <1>4, <3>1
  <2>2. txn'[log'[i].id] \in {"open", "prepared"}
    BY <1>4, <2>1
  <2> HIDE DEF i
  <2>3. i \in DOMAIN log /\ Resolved(log[i].id)
    BY <1>5, <2>1
  <2>4. log'[i] = log[i] /\ txn'[log[i].id] = txn[log[i].id]
    BY <2>3 DEF Grows
  <2> QED
    BY <2>2, <2>3, <2>4 DEF Resolved
<1> QED
    BY <1>3, <1>4, <1>5, <1>6

\* What a recovery finds below the last stable offset stays there and stays the only
\* one of its ID.
LEMMA FoundStays ==
    ASSUME TypeOK, TypeOK', TxnInv, TxnInv', Grows, NEW id, Found(id) # {}
    PROVE  Found(id)' = Found(id)
<1>1. PICK i \in 1 .. StableEnd : Committed(i) /\ log[i].id = id
    BY DEF Found, ManifestsBelow
<1>2. /\ StableEnd \in Nat /\ StableEnd' \in Nat /\ StableEnd <= StableEnd'
      /\ \A k \in 1 .. StableEnd : k \in DOMAIN log /\ Resolved(log[k].id)
      /\ \A k \in 1 .. StableEnd' : k \in DOMAIN log'
    BY StableEndGrows
<1>3. /\ i \in DOMAIN log /\ i \in DOMAIN log' /\ i \in 1 .. StableEnd'
      /\ log'[i] = log[i] /\ txn'[log[i].id] = "committed"
    BY <1>1, <1>2 DEF Grows, Committed
<1>4. ManifestsBelow(id, StableEnd) = {i}
    BY <1>1, <1>2 DEF ManifestsBelow, TxnInv
<1>5. ManifestsBelow(id, StableEnd)' = {i}
  <2>1. Committed(i)'
    BY <1>3 DEF Committed
  <2>2. \A k \in DOMAIN log' : log'[k].id = log'[i].id => k = i
    BY <1>3 DEF TxnInv
  <2> QED
    BY <1>1, <1>2, <1>3, <2>1, <2>2 DEF ManifestsBelow
<1> QED
    BY <1>3, <1>4, <1>5 DEF Found

\* Whatever happens to the log, what a recovery has found it finds again.
THEOREM FoundIsKept == Spec => FoundStaysFound
<1>1. TypeOK /\ TypeOK' /\ TxnInv /\ TxnInv' /\ [Next]_vars
          => [\A id \in Backups : Found(id) # {} => Found(id)' = Found(id)]_vars
    BY TxnNext, FoundStays
<1>2. Init => TypeOK /\ TxnInv
    BY TypeInit, TxnInit
<1>3. TypeOK /\ TxnInv /\ [Next]_vars => (TypeOK /\ TxnInv)'
    BY TypeNext, TxnNext
<1> QED
    BY <1>1, <1>2, <1>3, PTL DEF Spec, FoundStaysFound
=============================================================================
