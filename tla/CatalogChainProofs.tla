-------------------------- MODULE CatalogChainProofs --------------------------
(***************************************************************************)
(* Proofs about the chain in BackupCatalog, for any number of Jobs and     *)
(* configurations and any incremental limit: what a Job reads back is a    *)
(* chain that it accepts, whatever fails; and the catalog is a serial one  *)
(* as long as Jobs do not overlap.                                         *)
(***************************************************************************)
EXTENDS BackupCatalogProofs

-----------------------------------------------------------------------------
(* The walk from the tip of a chain, which is defined by recursion over the *)
(* number of its steps.                                                    *)

IsWalk(walk, m, n) ==
    walk = [k \in 0 .. m |-> IF k = 0 THEN <<StateAt(n)>> ELSE WalkOn(walk[k - 1], n)]

\* There is a walk of any number of steps: the least number without one would be the
\* successor of one with a walk.
LEMMA WalkExists ==
    ASSUME NEW n, NEW m \in Nat
    PROVE  \E walk : IsWalk(walk, m, n)
<1> DEFINE Without == {k \in Nat : ~ \E walk : IsWalk(walk, k, n)}
<1> SUFFICES ASSUME Without # {} PROVE FALSE
    OBVIOUS
<1>1. PICK least \in Without : \A k \in Without : least <= k
  <2>1. Without \in SUBSET Nat
    OBVIOUS
  <2> HIDE DEF Without
  <2> QED
    BY <2>1, LeastNat
<1>2. CASE least = 0
  <2> DEFINE walk == [k \in 0 .. 0 |-> <<StateAt(n)>>]
  <2>1. IsWalk(walk, 0, n)
    <3>1. \A k \in 0 .. 0 : k = 0
      OBVIOUS
    <3> QED
      BY <3>1 DEF IsWalk
  <2> QED
    BY <1>2, <2>1
<1>3. CASE least # 0
  <2>1. least \in Nat /\ least - 1 \in Nat /\ least - 1 \notin Without
    BY <1>1, <1>3
  <2>2. PICK before : IsWalk(before, least - 1, n)
    BY <2>1
  <2> DEFINE last == WalkOn(before[least - 1], n)
             walk == [k \in 0 .. least |-> IF k = least THEN last ELSE before[k]]
  <2>3. ASSUME NEW k \in 0 .. least
        PROVE  walk[k] = IF k = 0 THEN <<StateAt(n)>> ELSE WalkOn(walk[k - 1], n)
    <3> HIDE DEF last
    <3>1. CASE k = least
      <4>1. walk[k] = last /\ walk[k - 1] = before[least - 1] /\ k # 0
        BY <1>3, <2>1, <3>1
      <4> QED
        BY <4>1 DEF last
    <3>2. CASE k # least
      <4>1. k \in 0 .. least - 1 /\ (k # 0 => k - 1 \in 0 .. least - 1 /\ k - 1 # least)
        BY <2>1, <3>2
      <4>2. before[k] = IF k = 0 THEN <<StateAt(n)>> ELSE WalkOn(before[k - 1], n)
        BY <2>2, <4>1 DEF IsWalk
      <4>3. walk[k] = before[k] /\ (k # 0 => walk[k - 1] = before[k - 1])
        BY <2>1, <3>2, <4>1
      <4> QED
        BY <4>2, <4>3
    <3> QED
      BY <3>1, <3>2
  <2>4. IsWalk(walk, least, n)
    BY <2>3 DEF IsWalk
  <2> QED
    BY <2>1, <2>4, <1>1
<1> QED
    BY <1>2, <1>3

LEMMA ReadBackIs ==
    ASSUME NEW n \in Nat
    PROVE  \E walk : IsWalk(walk, n, n) /\ ReadBack(n) = walk[n]
<1> DEFINE walk == CHOOSE w : IsWalk(w, n, n)
<1>1. IsWalk(walk, n, n)
    BY WalkExists, Zenon
<1>2. ReadBack(n) = walk[n]
    BY DEF ReadBack, IsWalk
<1> QED
    BY <1>1, <1>2

-----------------------------------------------------------------------------
(* What the walk has read after k steps.                                    *)

\* The entries of a walk are committed ones that all belong to the tip's chain.
Links(back, n) ==
    /\ back \in Seq(Entries) /\ Len(back) > 0 /\ back[1] = StateAt(n)
    /\ \A h \in DOMAIN back :
          /\ \E m \in DOMAIN log : log[m] = back[h]
          /\ back[h].chain = back[1].chain
          /\ back[h].topology = back[1].topology
          /\ back[h].position = back[1].position - (h - 1)
          /\ back[h].generation + (h - 1) <= back[1].generation
    /\ \A h \in 2 .. Len(back) :
          /\ back[h - 1].parent = back[h].id
          /\ back[h - 1].checkpoint >= back[h].checkpoint

\* It has arrived at a full backup, or is still at one of the first entries of the
\* log, as many as it has steps left.
Arrives(back, k, n) ==
    \/ back[Len(back)].parent = NoBackup
    \/ \E m \in (1 .. n - k) \cap DOMAIN log : log[m] = back[Len(back)]

LEMMA LastIsEntry ==
    ASSUME NEW n, NEW back, Links(back, n)
    PROVE  /\ Len(back) \in Nat \ {0} /\ Len(back) \in DOMAIN back
           /\ DOMAIN back = 1 .. Len(back) /\ back[Len(back)] \in Entries
<1>1. back \in Seq(Entries) /\ Len(back) > 0
    BY DEF Links
<1> QED
    BY <1>1

\* Nothing has NoBackup as its ID.
LEMMA NothingFound ==
    ASSUME TypeOK, NEW n
    PROVE  ManifestsBelow(NoBackup, n) = {}
<1>1. ASSUME NEW i \in DOMAIN log PROVE log[i].id # NoBackup
  <2>1. log[i] \in Entries
    BY DEF TypeOK
  <2>2. log[i].id \in Backups
    BY <2>1 DEF Entries
  <2> QED
    BY <2>2, CatalogSentinels
<1> QED
    BY <1>1 DEF ManifestsBelow, Committed

\* A step appends the parent, which was committed before its child was planned.
LEMMA WalkOnKeeps ==
    ASSUME TypeOK, TxnInv, ChainInv, NEW n \in Nat, NEW k \in 1 .. n, NEW back,
           Links(back, n), Arrives(back, k - 1, n)
    PROVE  Links(WalkOn(back, n), n) /\ Arrives(WalkOn(back, n), k, n)
<1> DEFINE len == Len(back)
           last == back[len]
           found == ManifestsBelow(last.parent, n)
<1>1. /\ len \in Nat \ {0} /\ len \in DOMAIN back /\ DOMAIN back = 1 .. len
      /\ last \in Entries
    BY LastIsEntry
<1>2. WalkOn(back, n) = IF found = {} THEN back ELSE Append(back, log[Max(found)])
    BY DEF WalkOn
<1>3. CASE last.parent = NoBackup
  <2>1. WalkOn(back, n) = back
    BY <1>2, <1>3, NothingFound
  <2> QED
    BY <1>3, <2>1 DEF Arrives
<1>4. CASE last.parent # NoBackup
  <2>1. PICK m \in (1 .. n - (k - 1)) \cap DOMAIN log : log[m] = last
    BY <1>4 DEF Arrives
  <2>2. Rests(last, m - 1, last.checkpoint, log, txn)
    BY <2>1 DEF ChainInv
  <2>3. PICK p \in (1 .. m - 1) \cap DOMAIN log :
            /\ txn[log[p].id] = "committed"
            /\ log[p].id = last.parent /\ log[p].chain = last.chain
            /\ log[p].topology = last.topology
            /\ log[p].position + 1 = last.position
            /\ log[p].generation < last.generation
            /\ log[p].checkpoint <= last.checkpoint
    BY <1>4, <2>2 DEF Rests
  <2>4. p \in 1 .. n - k /\ p \in 1 .. n
    BY <2>1, <2>3
  <2>5. found = {p}
    BY <2>3, <2>4 DEF ManifestsBelow, Committed, TxnInv
  <2>6. Max(found) = p
    <3>1. found \in SUBSET (1 .. n) /\ found # {}
      BY <2>4, <2>5
    <3>2. Max(found) \in found
      BY <3>1, MaxIsGreatest
    <3> QED
      BY <2>5, <3>2
  <2> DEFINE parent == log[p]
             next == Append(back, parent)
  <2>7. WalkOn(back, n) = next
    BY <1>2, <2>5, <2>6
  <2>8. parent \in Entries /\ back \in Seq(Entries)
    BY <2>3 DEF TypeOK, Links
  <2>9. /\ next \in Seq(Entries) /\ Len(next) = len + 1
        /\ \A h \in 1 .. len : next[h] = back[h]
        /\ next[len + 1] = parent
    BY <2>8, AppendProperties
  <2>10. /\ last.position \in Nat /\ last.generation \in Nat /\ last.checkpoint \in Nat
         /\ parent.position \in Nat /\ parent.generation \in Nat
         /\ parent.checkpoint \in Nat
         /\ back[1].position \in Nat /\ back[1].generation \in Nat
    <3>1. back[1] \in Entries
      BY <1>1, <2>8
    <3> QED
      BY <1>1, <2>8, <3>1 DEF Entries
  <2>11. /\ back[1] = StateAt(n)
         /\ last.chain = back[1].chain /\ last.topology = back[1].topology
         /\ last.position = back[1].position - (len - 1)
         /\ last.generation + (len - 1) <= back[1].generation
    BY <1>1 DEF Links
  <2> HIDE DEF next, last, len, parent
  <2>12. /\ \E i \in DOMAIN log : log[i] = parent
         /\ parent.chain = back[1].chain
         /\ parent.topology = back[1].topology
         /\ parent.position = back[1].position - len
         /\ parent.generation + len <= back[1].generation
    <3>1. /\ len \in Nat /\ parent.position + 1 = last.position
          /\ parent.generation < last.generation
          /\ parent.chain = last.chain /\ parent.topology = last.topology
          /\ \E i \in DOMAIN log : log[i] = parent
      BY <1>1, <2>3 DEF parent
    <3> QED
      BY <2>10, <2>11, <3>1
  <2>13. ASSUME NEW h \in DOMAIN next
         PROVE  /\ \E i \in DOMAIN log : log[i] = next[h]
                /\ next[h].chain = next[1].chain
                /\ next[h].topology = next[1].topology
                /\ next[h].position = next[1].position - (h - 1)
                /\ next[h].generation + (h - 1) <= next[1].generation
    <3>1. next[1] = back[1] /\ DOMAIN next = 1 .. len + 1
      BY <1>1, <2>9
    <3>2. CASE h = len + 1
      <4>1. next[h] = parent /\ h - 1 = len
        BY <1>1, <2>9, <3>2
      <4> QED
        BY <2>12, <3>1, <4>1
    <3>3. CASE h # len + 1
      <4>1. h \in DOMAIN back /\ next[h] = back[h]
        BY <1>1, <2>9, <3>1, <3>3
      <4> QED
        BY <3>1, <4>1 DEF Links
    <3> QED
      BY <3>2, <3>3
  <2>14. ASSUME NEW h \in 2 .. len + 1
         PROVE  /\ next[h - 1].parent = next[h].id
                /\ next[h - 1].checkpoint >= next[h].checkpoint
    <3>1. CASE h = len + 1
      <4>1. next[h] = parent /\ next[h - 1] = last
        BY <1>1, <2>9, <3>1 DEF last
      <4> QED
        BY <2>3, <2>10, <4>1 DEF parent
    <3>2. CASE h # len + 1
      <4>1. h \in 2 .. Len(back) /\ next[h] = back[h] /\ next[h - 1] = back[h - 1]
        BY <1>1, <2>9, <3>2 DEF len
      <4> QED
        BY <4>1 DEF Links
    <3> QED
      BY <3>1, <3>2
  <2>15. Links(next, n)
    <3>1. next[1] = StateAt(n) /\ Len(next) > 0
      BY <1>1, <2>9, <2>11
    <3> QED
      BY <2>9, <2>13, <2>14, <3>1 DEF Links
  <2>16. Arrives(next, k, n)
    BY <2>3, <2>4, <2>9 DEF Arrives, parent
  <2> QED
    BY <2>7, <2>15, <2>16
<1> QED
    BY <1>3, <1>4

\* Every walk of n steps has read a whole chain.
LEMMA WalkReads ==
    ASSUME TypeOK, TxnInv, ChainInv, NEW n \in Nat, StatesBelow(n) # {},
           NEW walk, IsWalk(walk, n, n)
    PROVE  Links(walk[n], n) /\ Arrives(walk[n], n, n)
<1>1. /\ walk[0] = <<StateAt(n)>>
      /\ \A k \in 1 .. n : walk[k] = WalkOn(walk[k - 1], n)
    BY DEF IsWalk
<1> DEFINE Wrong == {k \in 0 .. n : ~ (Links(walk[k], n) /\ Arrives(walk[k], k, n))}
<1>2. 0 \notin Wrong
  <2>1. PICK m \in DOMAIN log : m \in 1 .. n /\ StateAt(n) = log[m]
    <3>1. StatesBelow(n) \in SUBSET (1 .. n)
      BY DEF StatesBelow
    <3>2. Max(StatesBelow(n)) \in StatesBelow(n)
      BY <3>1, MaxIsGreatest
    <3> QED
      BY <3>1, <3>2 DEF StatesBelow, StateAt, Committed
  <2> DEFINE tip == log[m]
             back == <<tip>>
  <2>2. tip \in Entries /\ walk[0] = back
    BY <1>1, <2>1 DEF TypeOK
  <2>3. tip.position \in Nat /\ tip.generation \in Nat
    BY <2>2 DEF Entries
  <2>4. back \in Seq(Entries) /\ Len(back) = 1 /\ DOMAIN back = {1} /\ back[1] = tip
    BY <2>2
  <2>5. Links(back, n)
    <3> HIDE DEF back
    <3> QED
      BY <2>1, <2>3, <2>4 DEF Links
  <2>6. Arrives(back, 0, n)
    <3> HIDE DEF back
    <3> QED
      BY <2>1, <2>4 DEF Arrives
  <2> QED
    BY <2>2, <2>5, <2>6
<1> SUFFICES ASSUME Wrong # {} PROVE FALSE
    OBVIOUS
<1>3. PICK least \in Wrong : \A k \in Wrong : least <= k
  <2>1. Wrong \in SUBSET Nat
    OBVIOUS
  <2> HIDE DEF Wrong
  <2> QED
    BY <2>1, LeastNat
<1>4. least \in 1 .. n /\ least - 1 \in 0 .. n /\ least - 1 \notin Wrong
  <2>1. least \in 0 .. n /\ least # 0
    BY <1>2
  <2> HIDE DEF Wrong
  <2> QED
    BY <1>3, <2>1
<1>5. Links(walk[least - 1], n) /\ Arrives(walk[least - 1], least - 1, n)
    BY <1>4
<1>6. Links(walk[least], n) /\ Arrives(walk[least], least, n)
    BY <1>1, <1>4, <1>5, WalkOnKeeps
<1> QED
    BY <1>6

\* Entries at different places of a walk have different positions, thus different IDs.
LEMMA IDsDiffer ==
    ASSUME TypeOK, TxnInv, NEW n, NEW back, Links(back, n)
    PROVE  Cardinality({back[k].id : k \in DOMAIN back}) = Len(back)
<1> DEFINE ids == {back[k].id : k \in DOMAIN back}
           id == [k \in 1 .. Len(back) |-> back[k].id]
<1>1. Len(back) \in Nat \ {0} /\ DOMAIN back = 1 .. Len(back) /\ back \in Seq(Entries)
    BY LastIsEntry DEF Links
<1>2. ASSUME NEW h \in DOMAIN back, NEW k \in DOMAIN back, back[h].id = back[k].id
      PROVE  h = k
  <2>1. back[h] = back[k]
    BY <1>2 DEF Links, TxnInv
  <2>2. /\ back[h].position = back[1].position - (h - 1)
        /\ back[k].position = back[1].position - (k - 1)
    BY DEF Links
  <2>3. back[1].position \in Nat
    <3>1. back[1] \in Entries
      BY <1>1
    <3> QED
      BY <3>1 DEF Entries
  <2> QED
    BY <1>1, <2>1, <2>2, <2>3
<1>3. id \in Bijection(1 .. Len(back), ids)
  <2>1. id \in [1 .. Len(back) -> ids]
    BY <1>1
  <2>2. \A h, k \in 1 .. Len(back) : id[h] = id[k] => h = k
    BY <1>1, <1>2
  <2>3. \A x \in ids : \E k \in 1 .. Len(back) : id[k] = x
    BY <1>1
  <2> HIDE DEF id, ids
  <2> QED
    BY <2>1, <2>2, <2>3 DEF Bijection, Injection, Surjection, IsInjective
<1>4. IsFiniteSet(1 .. Len(back)) /\ Cardinality(1 .. Len(back)) = Len(back)
    BY <1>1, FS_Interval
<1> HIDE DEF id, ids
<1>5. ExistsBijection(1 .. Len(back), ids)
    BY <1>3 DEF ExistsBijection
<1>6. Cardinality(ids) = Len(back)
    BY <1>4, <1>5, FS_Bijection
<1> QED
    BY <1>6 DEF ids

\* What is read back is a chain that validate_chain accepts.
LEMMA ReadsValid ==
    ASSUME TypeOK, TxnInv, ChainInv, NEW n \in Nat, StatesBelow(n) # {}
    PROVE  ValidChain(StateAt(n), ReadBack(n), StateAt(n).topology)
<1> DEFINE state == StateAt(n)
           back == ReadBack(n)
           last == back[Len(back)]
<1>1. Links(back, n) /\ Arrives(back, n, n)
    BY ReadBackIs, WalkReads
<1>2. /\ Len(back) \in Nat \ {0} /\ Len(back) \in DOMAIN back
      /\ DOMAIN back = 1 .. Len(back) /\ last \in Entries
    BY <1>1, LastIsEntry
<1>3. last.parent = NoBackup
    BY <1>1 DEF Arrives
<1>4. last.position = 0 /\ last.chain = last.id
  <2>1. PICK m \in DOMAIN log : log[m] = last
    BY <1>1, <1>2 DEF Links
  <2>2. Rests(last, m - 1, last.checkpoint, log, txn)
    BY <2>1 DEF ChainInv
  <2> QED
    BY <1>3, <2>2 DEF Rests
<1>5. Cardinality({back[k].id : k \in DOMAIN back}) = Len(back)
    BY <1>1, IDsDiffer
<1> HIDE DEF back, last
<1>6. /\ back[1] = state
      /\ \A k \in DOMAIN back :
            /\ back[k].chain = state.chain
            /\ back[k].position = state.position - (k - 1)
            /\ back[k].topology = state.topology
      /\ \A k \in 2 .. Len(back) :
            /\ back[k - 1].parent = back[k].id
            /\ back[k - 1].checkpoint >= back[k].checkpoint
    BY <1>1 DEF Links
<1>7. state.position \in Nat /\ state.generation \in Nat
  <2>1. state \in Entries
    BY <1>1 DEF Links
  <2> QED
    BY <2>1 DEF Entries
<1>8. /\ last.position = state.position - (Len(back) - 1)
      /\ last.generation + (Len(back) - 1) <= state.generation
      /\ last.chain = state.chain
    BY <1>1, <1>2 DEF Links, last
<1>9. last.generation \in Nat \ {0}
    BY <1>2 DEF Entries
<1>10. Len(back) = state.position + 1 /\ state.generation > state.position
    BY <1>2, <1>4, <1>7, <1>8, <1>9
<1>11. last.id = state.chain
    BY <1>4, <1>8
<1> QED
    BY <1>3, <1>5, <1>6, <1>10, <1>11 DEF ValidChain, back, last

\* No sequence of concurrent, failed or late publications makes the catalog one that a
\* Job would refuse: whatever prefix it reads, validate_chain accepts the chain.
THEOREM ChainStaysReadable == Spec => []ChainReadable
<1>1. TypeOK /\ TxnInv /\ ChainInv => ChainReadable
    BY ReadsValid DEF ChainReadable
<1>2. Init => TypeOK /\ TxnInv /\ ChainInv
    BY TypeInit, TxnInit, ChainInit
<1>3. TypeOK /\ TxnInv /\ ChainInv /\ [Next]_vars => (TypeOK /\ TxnInv /\ ChainInv)'
    BY TypeNext, TxnNext, ChainNext
<1> QED
    BY <1>1, <1>2, <1>3, PTL DEF Spec

-----------------------------------------------------------------------------
(* Without overlap, and without transactions that outlive their Job, the    *)
(* catalog implements SerialCatalog.                                        *)

Active(j) == pc[j] \notin {"start", "exited"}

\* The entry that comes next: the full backup of an empty catalog, or what plan_backup
\* puts on top of the last one.
ComesNext(e) ==
    IF Published = {}
    THEN e.generation = 1 /\ e.position = 0 /\ e.chain = e.id
    ELSE /\ e.generation = Tip.generation + 1
         /\ IF HasRoom(Tip) THEN e.chain = Tip.chain /\ e.position = Tip.position + 1
                            ELSE e.chain = e.id /\ e.position = 0

\* One Job at a time, and no transaction is open without it.
AloneInv ==
    /\ \A j, k \in Jobs : Active(j) /\ Active(k) => j = k
    /\ \A b \in Backups : txn[b] # "prepared"
    /\ txn[Seed] # "open"
    /\ \A j \in Jobs : txn[j] = "open" => pc[j] = "publishing"

\* The cleaner leaves the last chain state, and no other entry of its chain is as late.
TipInv ==
    /\ \A b \in compacted : txn[b] = "committed"
    /\ \A i \in DOMAIN log :
          log[i].id \in compacted => \E k \in DOMAIN log : i < k /\ Committed(k)
    /\ \A i \in Published :
          /\ txn[log[i].chain] = "committed"
          /\ log[i].chain = Tip.chain => log[i].position <= Tip.position

\* Nothing comes between what the Job read and what it publishes.
PlanInv ==
    \A j \in Jobs :
        /\ pc[j] = "joining" => high[j] = Len(log)
        /\ pc[j] \in {"working", "uploading"} => ComesNext(plan[j])
        /\ pc[j] = "publishing" =>
              Len(log) \in DOMAIN log /\ log[Len(log)].id = j /\ ComesNext(log[Len(log)])

SerialInv == AloneInv /\ TipInv /\ PlanInv

\* The last committed entry.
LEMMA TipIs ==
    ASSUME TypeOK, Published # {}
    PROVE  /\ Max(Published) \in Published /\ Max(Published) \in DOMAIN log
           /\ \A i \in Published : i <= Max(Published)
           /\ Tip \in Entries /\ Tip.id \in Backups /\ Tip.chain \in Backups
           /\ Tip.position \in 0 .. MaxIncrementals /\ Tip.generation \in Nat \ {0}
<1>1. Len(log) \in Nat /\ Published \in SUBSET (1 .. Len(log))
    BY DEF TypeOK, Published, Committed
<1>2. /\ Max(Published) \in Published
      /\ \A i \in Published : Max(Published) >= i
    BY <1>1, MaxIsGreatest
<1>3. Max(Published) \in DOMAIN log /\ Tip \in Entries
    BY <1>2 DEF Published, Committed, Tip, TypeOK
<1>4. \A i \in Published : i <= Max(Published)
    BY <1>1, <1>2
<1> QED
    BY <1>2, <1>3, <1>4 DEF Entries

TipIsLast ==
    Published # {} => /\ Max(Published) \in Published
                      /\ \A i \in Published : i <= Max(Published)

LEMMA TipLast == TypeOK => TipIsLast
    BY TipIs DEF TipIsLast

\* As long as no entry becomes committed, the serial catalog is the same.
SamePublished ==
    /\ Published' = Published
    /\ \A i \in Published : log'[i] = log[i]

LEMMA SerialSame ==
    ASSUME TypeOK, SamePublished
    PROVE  /\ UNCHANGED <<PublishedIDs, CurrentChain, CurrentGeneration>>
           /\ Published # {} => Tip' = Tip
<1>1. Published # {} => Tip' = Tip
  <2>1. ASSUME Published # {} PROVE Tip' = Tip
    <3>1. Max(Published) \in Published
      BY <2>1, TipIs
    <3>2. Tip' = log'[Max(Published')]
      BY DEF Tip
    <3>3. Published' = Published /\ log'[Max(Published)] = log[Max(Published)]
      BY <3>1 DEF SamePublished
    <3> QED
      BY <3>2, <3>3 DEF Tip
  <2> QED
    BY <2>1
<1>2. {log'[i] : i \in Published'} = {log[i] : i \in Published}
    BY DEF SamePublished
<1>3. PublishedIDs' = PublishedIDs
    BY DEF PublishedIDs, SamePublished
<1>4. CASE Published = {}
  <2>1. Published' = {}
    BY <1>4 DEF SamePublished
  <2> QED
    BY <1>3, <1>4, <2>1 DEF CurrentChain, CurrentGeneration
<1>5. CASE Published # {}
  <2>1. Published' # {} /\ Tip' = Tip
    BY <1>1, <1>5 DEF SamePublished
  <2>2. ASSUME NEW p PROVE AtPosition(p)' = AtPosition(p)
    BY <1>2, <2>1 DEF AtPosition
  <2>3. CurrentGeneration' = CurrentGeneration
    BY <1>5, <2>1 DEF CurrentGeneration
  <2>4. CurrentChain' = CurrentChain
    BY <1>5, <2>1, <2>2 DEF CurrentChain
  <2> QED
    BY <1>1, <1>3, <2>3, <2>4
<1> QED
    BY <1>4, <1>5

\* The plan of the only Job fits the catalog while that stays the same.
LEMMA PlanKept ==
    ASSUME TypeOK, SamePublished, PlanInv, log' = log,
           \A k \in Jobs :
              \/ pc'[k] = pc[k] /\ plan'[k] = plan[k] /\ high'[k] = high[k]
              \/ pc'[k] \in {"start", "exited", "finishing"}
              \/ pc'[k] = "joining" /\ high'[k] = Len(log)
              \/ pc'[k] \in {"working", "uploading"} /\ ComesNext(plan'[k])
    PROVE  PlanInv'
<1>1. /\ Published = {} <=> Published' = {}
      /\ Published # {} => Tip' = Tip
    BY SerialSame DEF SamePublished
<1>2. ASSUME NEW k \in Jobs
      PROVE  /\ pc'[k] = "joining" => high'[k] = Len(log')
             /\ pc'[k] \in {"working", "uploading"} => ComesNext(plan[k])'
             /\ pc'[k] = "publishing" =>
                   Len(log') \in DOMAIN log' /\ log'[Len(log')].id = k
                   /\ ComesNext(log[Len(log)])'
  <2>1. CASE pc'[k] = pc[k] /\ plan'[k] = plan[k] /\ high'[k] = high[k]
    <3>1. pc'[k] = "joining" => high'[k] = Len(log')
      BY <2>1 DEF PlanInv
    <3>2. pc'[k] \in {"working", "uploading"} => ComesNext(plan[k])'
      <4>1. pc'[k] \in {"working", "uploading"} => ComesNext(plan[k])
        BY <2>1 DEF PlanInv
      <4> QED
        BY <1>1, <2>1, <4>1 DEF ComesNext, HasRoom
    <3>3. pc'[k] = "publishing" => Len(log') \in DOMAIN log' /\ log'[Len(log')].id = k
                                   /\ ComesNext(log[Len(log)])'
      <4>1. pc'[k] = "publishing" => Len(log) \in DOMAIN log /\ log[Len(log)].id = k
                                     /\ ComesNext(log[Len(log)])
        BY <2>1 DEF PlanInv
      <4> QED
        BY <1>1, <2>1, <4>1 DEF ComesNext, HasRoom
    <3> QED
      BY <3>1, <3>2, <3>3
  <2>2. CASE pc'[k] \in {"start", "exited", "finishing"}
    BY <2>2
  <2>3. CASE pc'[k] = "joining" /\ high'[k] = Len(log)
    BY <2>3
  <2>4. CASE pc'[k] \in {"working", "uploading"} /\ ComesNext(plan'[k])
    <3>1. ComesNext(plan[k])'
      BY <1>1, <2>4 DEF ComesNext, HasRoom
    <3> QED
      BY <2>4, <3>1
  <2> QED
    BY <2>1, <2>2, <2>3, <2>4
<1> QED
    BY <1>2 DEF PlanInv

\* What holds of the tip holds as long as the catalog stays the same.
LEMMA TipKept ==
    ASSUME TypeOK, SamePublished, TipInv, log' = log, compacted' = compacted,
           \A b \in Backups : txn[b] = "committed" => txn'[b] = "committed"
    PROVE  TipInv'
<1>1. /\ Published = {} <=> Published' = {}
      /\ Published # {} => Tip' = Tip
    BY SerialSame DEF SamePublished
<1>2. \A i \in DOMAIN log : log[i].chain \in Backups /\ log[i].id \in Backups
  <2>1. \A i \in DOMAIN log : log[i] \in Entries
    BY DEF TypeOK
  <2> QED
    BY <2>1 DEF Entries
<1>3. \A i \in DOMAIN log : Committed(i) => Committed(i)'
    BY <1>2 DEF Committed
<1>4. \A b \in compacted' : txn'[b] = "committed"
    BY DEF TipInv, TypeOK
<1>5. \A i \in DOMAIN log' :
          log'[i].id \in compacted' => \E k \in DOMAIN log' : i < k /\ Committed(k)'
    BY <1>3 DEF TipInv
<1>6. ASSUME NEW i \in Published'
      PROVE  /\ txn'[log'[i].chain] = "committed"
             /\ log'[i].chain = Tip'.chain => log'[i].position <= Tip'.position
  <2>1. i \in Published /\ i \in DOMAIN log /\ Tip' = Tip
    BY <1>1 DEF SamePublished, Published
  <2> QED
    BY <1>2, <2>1 DEF TipInv
<1> QED
    BY <1>4, <1>5, <1>6 DEF TipInv

\* A step by which the only Job gets on, or leaves, without publishing anything.
LEMMA JobMoves ==
    ASSUME TypeOK, SerialInv, NEW j \in Jobs, Active(j) \/ \A k \in Jobs : ~Active(k),
           log' = log, compacted' = compacted,
           \/ txn' = txn
           \/ txn[j] = "open" /\ txn' = [txn EXCEPT ![j] = "aborted"],
           \A k \in Jobs : k # j => pc'[k] = pc[k] /\ plan'[k] = plan[k] /\ high'[k] = high[k],
           txn'[j] = "open" => pc'[j] = "publishing",
           \/ pc'[j] = pc[j] /\ plan'[j] = plan[j] /\ high'[j] = high[j]
           \/ pc'[j] = "exited"
           \/ pc'[j] = "joining" /\ high'[j] = Len(log)
           \/ pc'[j] \in {"working", "uploading"} /\ ComesNext(plan'[j])
    PROVE  SerialInv' /\ SamePublished
<1>1. \A i \in DOMAIN log : log[i].id \in Backups
  <2>1. \A i \in DOMAIN log : log[i] \in Entries
    BY DEF TypeOK
  <2> QED
    BY <2>1 DEF Entries
<1>2. /\ \A b \in Backups : txn[b] = "committed" <=> txn'[b] = "committed"
      /\ \A b \in Backups : txn'[b] # txn[b] => b = j /\ txn'[b] = "aborted"
    BY DEF TypeOK
<1>3. SamePublished
    BY <1>1, <1>2 DEF SamePublished, Published, Committed
<1>4. AloneInv'
  <2>1. \A k, m \in Jobs : Active(k)' /\ Active(m)' => k = m
    BY DEF Active, SerialInv, AloneInv
  <2>2. \A k \in Jobs : txn'[k] = "open" => pc'[k] = "publishing"
    BY <1>2 DEF SerialInv, AloneInv, Backups
  <2>3. \A b \in Backups : txn'[b] # "prepared"
    BY <1>2 DEF SerialInv, AloneInv
  <2>4. txn'[Seed] # "open"
    BY <1>2 DEF SerialInv, AloneInv, Backups
  <2> QED
    BY <2>1, <2>2, <2>3, <2>4 DEF AloneInv
<1>5. TipInv'
    BY <1>2, <1>3, TipKept DEF SerialInv
<1>6. PlanInv'
    BY <1>3, PlanKept DEF SerialInv
<1> QED
    BY <1>3, <1>4, <1>5, <1>6 DEF SerialInv

LEMMA SerialInit == Init => SerialInv /\ Serial!Init
<1> SUFFICES ASSUME Init PROVE SerialInv /\ Serial!Init
    OBVIOUS
<1>1. TypeOK
    BY TypeInit
<1>2. \A j \in Jobs : pc[j] = "start"
    BY DEF Init
<1>3. \A b \in Backups : txn[b] = "none" \/ (b = Seed /\ txn[b] = "committed")
    BY DEF Init
<1>4. AloneInv /\ PlanInv
    BY <1>2, <1>3 DEF AloneInv, PlanInv, Active, Backups
<1>5. CASE log = <<>>
  <2>1. Published = {}
    BY <1>5 DEF Published
  <2>2. TipInv
    BY <1>5, <2>1 DEF TipInv, Init
  <2>3. PublishedIDs = {} /\ CurrentChain = <<>> /\ CurrentGeneration = 0
    BY <2>1 DEF PublishedIDs, CurrentChain, CurrentGeneration
  <2> QED
    BY <1>4, <2>2, <2>3 DEF SerialInv, Serial!Init
<1>6. CASE log = <<SeedEntry>> /\ txn[Seed] = "committed"
  <2>1. /\ DOMAIN log = {1} /\ log[1] = SeedEntry
        /\ SeedEntry.id = Seed /\ SeedEntry.chain = Seed /\ SeedEntry.position = 0
        /\ SeedEntry.generation = 1
    BY <1>6 DEF SeedEntry
  <2>2. Published = {1}
    BY <1>6, <2>1 DEF Published, Committed
  <2>3. Tip = SeedEntry
    <3>1. Max(Published) = 1
      BY <1>1, <2>2, TipIs
    <3> QED
      BY <2>1, <3>1 DEF Tip
  <2>4. TipInv
    BY <1>6, <2>1, <2>2, <2>3 DEF TipInv, Init
  <2>5. PublishedIDs = {Seed} /\ CurrentGeneration = 1
    BY <2>1, <2>2, <2>3 DEF PublishedIDs, CurrentGeneration
  <2>6. CurrentChain = <<Seed>>
    <3>1. {log[i] : i \in Published} = {SeedEntry}
      BY <2>1, <2>2
    <3>2. AtPosition(0) = SeedEntry
      BY <2>1, <2>3, <3>1 DEF AtPosition
    <3>3. CurrentChain = [k \in 1 .. 0 + 1 |-> AtPosition(k - 1).id]
      BY <2>1, <2>2, <2>3 DEF CurrentChain
    <3>4. \A k \in 1 .. 0 + 1 : k - 1 = 0
      OBVIOUS
    <3>5. CurrentChain = [k \in 1 .. 1 |-> Seed]
      BY <2>1, <3>2, <3>3, <3>4
    <3> QED
      BY <3>5
  <2> QED
    BY <1>4, <2>4, <2>5, <2>6 DEF SerialInv, Serial!Init, Backups
<1> QED
    BY <1>5, <1>6 DEF Init, Backups

\* Join, while no other Job is alive.
LEMMA SerialJoin ==
    ASSUME "overlap" \notin Faults, TypeOK, SerialInv, NEW j \in Jobs, Join(j)
    PROVE  SerialInv' /\ SamePublished
<1> USE DEF catalogVars, lockVars, jobVars
<1>1. /\ pc[j] = "start" /\ \A k \in Jobs : ~Active(k)
      /\ UNCHANGED <<log, txn, compacted>>
      /\ high' = [high EXCEPT ![j] = StableEnd]
    BY DEF Join, Active
<1>2. StableEnd = Len(log)
  <2>1. ASSUME NEW i \in DOMAIN log PROVE txn[log[i].id] \notin {"open", "prepared"}
    <3>1. log[i] \in Entries
      BY DEF TypeOK
    <3>2. log[i].id \in Backups
      BY <3>1 DEF Entries
    <3> QED
      BY <1>1, <3>2 DEF SerialInv, AloneInv, Active, Backups
  <2>2. {i \in DOMAIN log : txn[log[i].id] \in {"open", "prepared"}} = {}
    BY <2>1
  <2> QED
    BY <2>2 DEF StableEnd
<1>3. txn[j] # "open"
    BY <1>1 DEF SerialInv, AloneInv
<1>4. CASE StableEnd = 0
  <2>1. pc' = [pc EXCEPT ![j] = "working"] /\ plan' = [plan EXCEPT ![j] = FullPlan(j, 1)]
    BY <1>4 DEF Join, Goes
  <2>2. Published = {}
    <3>1. DOMAIN log = 1 .. Len(log)
      BY DEF TypeOK
    <3> QED
      BY <1>2, <1>4, <3>1 DEF Published, Committed
  <2>3. ComesNext(FullPlan(j, 1))
    BY <2>2 DEF ComesNext, FullPlan
  <2>4. /\ pc'[j] = "working" /\ plan'[j] = FullPlan(j, 1)
        /\ \A k \in Jobs : k # j => pc'[k] = pc[k] /\ plan'[k] = plan[k] /\ high'[k] = high[k]
    BY <1>1, <2>1 DEF TypeOK
  <2>5. ComesNext(plan'[j])
    BY <2>3, <2>4
  <2> QED
    BY <1>1, <1>3, <2>4, <2>5, JobMoves
<1>5. CASE StableEnd # 0
  <2>1. pc' = [pc EXCEPT ![j] = "joining"] /\ plan' = plan
    BY <1>5 DEF Join, Goes
  <2>2. /\ pc'[j] = "joining" /\ high'[j] = Len(log)
        /\ \A k \in Jobs : k # j => pc'[k] = pc[k] /\ plan'[k] = plan[k] /\ high'[k] = high[k]
    BY <1>1, <1>2, <2>1 DEF TypeOK
  <2> QED
    BY <1>1, <1>3, <2>2, JobMoves
<1> QED
    BY <1>4, <1>5

\* The end of a Job, after which its transaction is aborted if it was not committed.
LEMMA SerialExits ==
    ASSUME "uncertain" \notin Faults, TypeOK, SerialInv, NEW j \in Jobs,
           AcquireTimesOut(j) \/ Finish(j) \/ Fail(j) \/ Crash(j) \/ (Acquire(j) /\ Exits(j))
    PROVE  SerialInv' /\ SamePublished
<1> USE DEF catalogVars, lockVars, jobVars
<1>1. Exits(j) /\ Active(j) /\ UNCHANGED <<log, compacted>>
    BY DEF AcquireTimesOut, Finish, Fail, Crash, Acquire, Active, Holding
<1>2. /\ pc'[j] = "exited"
      /\ \A k \in Jobs : k # j => pc'[k] = pc[k] /\ plan'[k] = plan[k] /\ high'[k] = high[k]
    BY <1>1 DEF Exits, Goes, TypeOK
<1>3. txn' = txn \/ \E left \in LeftAs(j) : txn' = [txn EXCEPT ![j] = left]
    BY DEF AcquireTimesOut, Finish, Fail, Crash, Acquire
<1>4. CASE txn[j] = "open"
  <2>1. AcquireTimesOut(j) \/ Finish(j) \/ Acquire(j) => FALSE
    BY <1>4 DEF SerialInv, AloneInv, AcquireTimesOut, Finish, Acquire
  <2>2. \E left \in LeftAs(j) : txn' = [txn EXCEPT ![j] = left]
    BY <2>1 DEF Fail, Crash
  <2>3. LeftAs(j) = {"aborted"}
    BY <1>4 DEF LeftAs
  <2>4. txn' = [txn EXCEPT ![j] = "aborted"] /\ txn'[j] = "aborted"
    BY <2>2, <2>3 DEF TypeOK, Backups
  <2> QED
    BY <1>1, <1>2, <1>4, <2>4, JobMoves
<1>5. CASE txn[j] # "open"
  <2>1. LeftAs(j) = {txn[j]}
    BY <1>5 DEF LeftAs
  <2>2. txn' = txn
    BY <1>3, <2>1 DEF TypeOK, Backups
  <2> QED
    BY <1>1, <1>2, <1>5, <2>2, JobMoves
<1> QED
    BY <1>4, <1>5

\* The state a Job reads is the tip, so that what it plans comes next.
LEMMA SerialAcquire ==
    ASSUME TypeOK, SerialInv, NEW j \in Jobs, Acquire(j), ~Exits(j)
    PROVE  SerialInv' /\ SamePublished
<1> USE DEF catalogVars, lockVars, jobVars
<1>1. pc[j] = "joining" /\ high[j] = Len(log) /\ UNCHANGED <<log, txn, compacted>>
    BY DEF Acquire, SerialInv, PlanInv
<1>2. Len(log) \in Nat /\ Published \in SUBSET (1 .. Len(log))
      /\ StatesBelow(Len(log)) \in SUBSET Published
    BY DEF TypeOK, Published, Committed, StatesBelow
<1>3. PICK entry : Plans(j, entry) /\ ComesNext(entry)
  <2>1. CASE Published = {}
    <3>1. Plans(j, FullPlan(j, 1))
      BY <1>1, <1>2, <2>1 DEF Acquire
    <3>2. ComesNext(FullPlan(j, 1))
      BY <2>1 DEF ComesNext, FullPlan
    <3> QED
      BY <3>1, <3>2
  <2>2. CASE Published # {}
    <3> DEFINE last == Max(Published)
               states == StatesBelow(Len(log))
    <3>1. last \in Published /\ last \in DOMAIN log /\ \A i \in Published : i <= last
      BY <2>2, TipIs
    <3>2. last \in states
      <4>1. log[last].id \notin compacted
        <5> SUFFICES ASSUME log[last].id \in compacted PROVE FALSE
            OBVIOUS
        <5>1. PICK k \in DOMAIN log : last < k /\ Committed(k)
          BY <3>1 DEF SerialInv, TipInv
        <5>2. k \in Published
          BY <5>1 DEF Published
        <5>3. last \in 1 .. Len(log) /\ k \in 1 .. Len(log) /\ k <= last
          BY <1>2, <3>1, <5>2
        <5> QED
          BY <5>1, <5>3
      <4> QED
        BY <1>2, <3>1, <4>1 DEF StatesBelow, Published
    <3> HIDE DEF last
    <3>3. Max(states) = last
      <4>1. Max(states) \in states /\ Max(states) >= last
        BY <1>2, <3>2, MaxIsGreatest
      <4>2. Max(states) <= last /\ Max(states) \in 1 .. Len(log) /\ last \in 1 .. Len(log)
        BY <1>2, <3>1, <4>1
      <4> QED
        BY <4>1, <4>2
    <3>4. states # {} /\ StateAt(Len(log)) = Tip
      BY <3>2, <3>3 DEF StateAt, Tip, last
    <3>5. Plans(j, PlanAfter(j, Tip))
      BY <1>1, <3>4 DEF Acquire
    <3>6. ComesNext(PlanAfter(j, Tip))
      <4> DEFINE full == FullPlan(j, Tip.generation + 1)
      <4>1. /\ full.generation = Tip.generation + 1 /\ full.position = 0
            /\ full.chain = full.id
        BY DEF FullPlan
      <4>2. CASE HasRoom(Tip)
        <5>1. PlanAfter(j, Tip) = [full EXCEPT !.parent = Tip.id, !.chain = Tip.chain,
                                               !.position = Tip.position + 1]
          BY <4>2 DEF PlanAfter, ParentFor
        <5>2. /\ PlanAfter(j, Tip).generation = Tip.generation + 1
              /\ PlanAfter(j, Tip).chain = Tip.chain
              /\ PlanAfter(j, Tip).position = Tip.position + 1
          BY <5>1 DEF FullPlan
        <5> QED
          BY <2>2, <4>2, <5>2 DEF ComesNext
      <4>3. CASE ~HasRoom(Tip)
        BY <2>2, <4>1, <4>3 DEF ComesNext, PlanAfter
      <4> QED
        BY <4>2, <4>3
    <3> QED
      BY <3>5, <3>6
  <2> QED
    BY <2>1, <2>2
<1>4. /\ pc'[j] = "working" /\ plan'[j] = entry
      /\ \A k \in Jobs : k # j => pc'[k] = pc[k] /\ plan'[k] = plan[k] /\ high'[k] = high[k]
    BY <1>3 DEF Plans, Goes, TypeOK
<1>5. ComesNext(plan'[j])
    BY <1>3, <1>4
<1>6. Active(j) /\ txn'[j] # "open"
    BY <1>1 DEF Active, SerialInv, AloneInv
<1> QED
    BY <1>1, <1>4, <1>5, <1>6, JobMoves

\* The barriers of the only Job.
LEMMA SerialCapture ==
    ASSUME TypeOK, SerialInv, NEW j \in Jobs, Capture(j)
    PROVE  SerialInv' /\ SamePublished
<1> USE DEF catalogVars, lockVars, jobVars
<1> DEFINE entry == [plan[j] EXCEPT !.checkpoint = ingested]
<1>1. /\ pc[j] = "working" /\ UNCHANGED <<log, txn, compacted, high>>
      /\ pc' = [pc EXCEPT ![j] = "uploading"]
      /\ plan' = [plan EXCEPT ![j].checkpoint = ingested]
    BY DEF Capture, Goes
<1>2. /\ pc'[j] = "uploading" /\ plan'[j] = entry
      /\ \A k \in Jobs : k # j => pc'[k] = pc[k] /\ plan'[k] = plan[k] /\ high'[k] = high[k]
    BY <1>1 DEF TypeOK
<1>3. ComesNext(plan[j])
    BY <1>1 DEF SerialInv, PlanInv
<1>4. /\ entry.generation = plan[j].generation /\ entry.position = plan[j].position
      /\ entry.chain = plan[j].chain /\ entry.id = plan[j].id
  <2>1. plan[j] \in Entries
    BY DEF TypeOK
  <2> QED
    BY <2>1 DEF Entries
<1> HIDE DEF entry
<1>5. ComesNext(plan'[j])
    BY <1>2, <1>3, <1>4 DEF ComesNext
<1>6. Active(j) /\ txn'[j] # "open"
    BY <1>1 DEF Active, SerialInv, AloneInv
<1> QED
    BY <1>1, <1>2, <1>5, <1>6, JobMoves

\* The records of a transaction that is not committed.
LEMMA SerialSends ==
    ASSUME TypeOK, TxnInv, SerialInv, NEW j \in Jobs, Publish(j)
    PROVE  SerialInv' /\ SamePublished
<1> USE DEF catalogVars, lockVars, jobVars
<1> DEFINE last == Len(log) + 1
           entry == plan[j]
<1>1. /\ pc[j] = "uploading" /\ log' = Append(log, entry) /\ compacted' = compacted
      /\ txn' = [txn EXCEPT ![j] = "open"] /\ pc' = [pc EXCEPT ![j] = "publishing"]
      /\ plan' = plan /\ high' = high
    BY DEF Publish, Goes
<1>2. /\ entry \in Entries /\ log \in Seq(Entries) /\ Len(log) \in Nat
      /\ entry.id = j /\ txn[j] = "none" /\ ComesNext(entry)
    BY <1>1 DEF TypeOK, TxnInv, SerialInv, PlanInv
<1> HIDE DEF entry
<1>3. /\ DOMAIN log = 1 .. Len(log) /\ DOMAIN log' = 1 .. last /\ Len(log') = last
      /\ \A i \in DOMAIN log : log'[i] = log[i]
      /\ log'[last] = entry
    BY <1>1, <1>2, AppendProperties
<1>4. /\ txn'[j] = "open" /\ \A b \in Backups : b # j => txn'[b] = txn[b]
      /\ pc'[j] = "publishing" /\ \A k \in Jobs : k # j => pc'[k] = pc[k]
    BY <1>1 DEF TypeOK, Backups
<1>5. \A i \in DOMAIN log : log[i].id \in Backups /\ log[i].chain \in Backups /\ log[i].id # j
  <2>1. \A i \in DOMAIN log : log[i] \in Entries
    BY DEF TypeOK
  <2> QED
    BY <1>2, <2>1 DEF Entries, TxnInv
<1>6. \A i \in DOMAIN log' : i = last \/ i \in DOMAIN log
    BY <1>2, <1>3
<1>7. SamePublished
  <2>1. last \notin Published'
    BY <1>2, <1>3, <1>4 DEF Published, Committed
  <2>2. \A i \in DOMAIN log : i \in DOMAIN log' /\ txn'[log'[i].id] = txn[log[i].id]
    BY <1>2, <1>3, <1>4, <1>5
  <2>3. Published' = Published
    BY <1>6, <2>1, <2>2 DEF Published, Committed
  <2> QED
    BY <1>3, <2>3 DEF SamePublished, Published, Committed
<1>8. /\ Published = {} <=> Published' = {}
      /\ Published # {} => Tip' = Tip
    BY <1>7, SerialSame DEF SamePublished
<1>9. AloneInv'
  <2>1. \A k \in Jobs : k # j => ~Active(k) /\ ~Active(k)'
    BY <1>1, <1>4 DEF SerialInv, AloneInv, Active
  <2>2. \A k \in Jobs : txn'[k] = "open" => pc'[k] = "publishing"
    BY <1>4 DEF SerialInv, AloneInv, Backups
  <2>3. (\A b \in Backups : txn'[b] # "prepared") /\ txn'[Seed] # "open"
    BY <1>4, CatalogAssumption DEF SerialInv, AloneInv, Backups
  <2> QED
    BY <2>1, <2>2, <2>3 DEF AloneInv
<1>10. TipInv'
  <2>1. \A b \in compacted' : txn'[b] = "committed"
    BY <1>1, <1>2, <1>4 DEF SerialInv, TipInv, TypeOK
  <2>2. ASSUME NEW i \in DOMAIN log', log'[i].id \in compacted'
        PROVE  \E k \in DOMAIN log' : i < k /\ Committed(k)'
    <3>1. i # last
      BY <1>2, <1>3, <1>4, <2>1, <2>2
    <3>2. i \in DOMAIN log /\ log[i].id \in compacted
      BY <1>1, <1>3, <1>6, <2>2, <3>1
    <3>3. PICK k \in DOMAIN log : i < k /\ Committed(k)
      BY <3>2 DEF SerialInv, TipInv
    <3>4. k \in DOMAIN log' /\ Committed(k)'
      BY <1>7, <3>3 DEF SamePublished, Published, Committed
    <3> QED
      BY <3>3, <3>4
  <2>3. ASSUME NEW i \in Published'
        PROVE  /\ txn'[log'[i].chain] = "committed"
               /\ log'[i].chain = Tip'.chain => log'[i].position <= Tip'.position
    <3>1. i \in Published /\ i \in DOMAIN log /\ log'[i] = log[i] /\ Tip' = Tip
      BY <1>7, <1>8 DEF SamePublished, Published
    <3>2. txn[log[i].chain] = "committed" /\ log[i].chain # j
      BY <1>2, <3>1 DEF SerialInv, TipInv
    <3> QED
      BY <1>4, <1>5, <3>1, <3>2 DEF SerialInv, TipInv
  <2> QED
    BY <2>1, <2>2, <2>3 DEF TipInv
<1>11. PlanInv'
  <2>1. \A k \in Jobs : k # j => pc'[k] \in {"start", "exited"}
    BY <1>1, <1>4 DEF SerialInv, AloneInv, Active
  <2>2. last \in DOMAIN log' /\ log'[last].id = j
    BY <1>2, <1>3
  <2>3. ComesNext(log[Len(log)])'
    BY <1>2, <1>3, <1>8 DEF ComesNext, HasRoom
  <2> QED
    BY <1>3, <1>4, <2>1, <2>2, <2>3 DEF PlanInv
<1> QED
    BY <1>7, <1>9, <1>10, <1>11 DEF SerialInv

\* The commit of the only Job publishes the entry that comes next.
LEMMA SerialCommit ==
    ASSUME TypeOK, TypeOK', TxnInv, SerialInv, NEW j \in Jobs, CommitTransaction(j)
    PROVE  SerialInv' /\ Serial!Publish(j)
<1> USE DEF catalogVars, lockVars, jobVars
<1> DEFINE last == Len(log)
           entry == log[last]
<1>1. /\ pc[j] = "publishing" /\ txn[j] = "open" /\ UNCHANGED <<log, compacted>>
      /\ txn' = [txn EXCEPT ![j] = "committed"] /\ pc' = [pc EXCEPT ![j] = "finishing"]
    BY DEF CommitTransaction, Goes
<1>2. /\ txn'[j] = "committed" /\ \A b \in Backups : b # j => txn'[b] = txn[b]
      /\ pc'[j] = "finishing" /\ \A k \in Jobs : k # j => pc'[k] = pc[k]
    BY <1>1 DEF TypeOK, Backups
<1>3. last \in DOMAIN log /\ entry.id = j /\ ComesNext(entry)
    BY <1>1 DEF SerialInv, PlanInv
<1>4. /\ last \in Nat /\ DOMAIN log = 1 .. last /\ entry \in Entries
      /\ entry.chain \in Backups /\ entry.position \in Nat /\ entry.generation \in Nat
  <2>1. last \in Nat /\ DOMAIN log = 1 .. last /\ entry \in Entries
    BY <1>3 DEF TypeOK
  <2> QED
    BY <2>1 DEF Entries
<1>5. \A i \in DOMAIN log : /\ log[i].id \in Backups /\ log[i].chain \in Backups
                            /\ log[i].position \in Nat
                            /\ log[i].id = j => i = last
  <2>1. \A i \in DOMAIN log : log[i] \in Entries
    BY DEF TypeOK
  <2> QED
    BY <1>3, <2>1 DEF Entries, TxnInv
<1> HIDE DEF entry, last
<1>6. last \notin Published /\ Published' = Published \cup {last}
    BY <1>1, <1>2, <1>3, <1>5 DEF Published, Committed, entry
<1>7. Tip' = entry
  <2>1. Published' # {}
    BY <1>6
  <2>2. TipIsLast'
    <3>1. TypeOK' => TipIsLast'
      BY TipLast, PTL
    <3> QED
      BY <3>1
  <2>3. Max(Published') \in Published' /\ last <= Max(Published')
    BY <1>6, <2>1, <2>2 DEF TipIsLast
  <2>4. Max(Published') \in 1 .. last
    BY <1>3, <1>4, <1>6, <2>3 DEF Published
  <2>5. Max(Published') = last
    BY <1>4, <2>3, <2>4
  <2> QED
    BY <1>1, <2>5 DEF Tip, entry
<1>8. \A i \in Published : i \in DOMAIN log /\ log[i].id \in Backups /\ log[i].id # j
                           /\ log[i].chain \in Backups /\ log[i].chain # j
                           /\ txn[log[i].chain] = "committed"
    BY <1>1, <1>5, <1>6 DEF SerialInv, TipInv, Published
<1>9. PublishedIDs' = PublishedIDs \cup {j} /\ j \notin PublishedIDs
  <2>1. {log'[i].id : i \in Published'} = {log[i].id : i \in Published} \cup {j}
    BY <1>1, <1>3, <1>6 DEF entry
  <2> QED
    BY <1>8, <2>1 DEF PublishedIDs
<1>10. CurrentGeneration' = CurrentGeneration + 1
  <2>1. CurrentGeneration' = entry.generation
    BY <1>6, <1>7 DEF CurrentGeneration
  <2> QED
    BY <1>3, <2>1 DEF CurrentGeneration, ComesNext
<1>11. {log'[i] : i \in Published'} = {log[i] : i \in Published} \cup {entry}
    BY <1>1, <1>6 DEF entry
\* On top of the tip, or the beginning of a chain.
<1>12. ASSUME Published # {}, HasRoom(Tip) PROVE TipInv' /\ Serial!Publish(j)
  <2>1. /\ entry.chain = Tip.chain /\ entry.position = Tip.position + 1
        /\ Tip.position \in 0 .. MaxIncrementals /\ Tip.chain \in Backups
        /\ Tip.position < MaxIncrementals
        /\ txn[Tip.chain] = "committed"
    BY <1>3, <1>12, TipIs DEF ComesNext, HasRoom, SerialInv, TipInv, Tip
  <2>2. ASSUME NEW i \in Published, log[i].chain = Tip.chain
        PROVE  log[i].position <= Tip.position /\ log[i].position # entry.position
    <3>1. log[i].position <= Tip.position /\ log[i].position \in Nat
      BY <1>5, <1>8, <2>2 DEF SerialInv, TipInv
    <3> QED
      BY <2>1, <3>1
  <2>3. TipInv'
    <3>1. ASSUME NEW i \in Published'
          PROVE  /\ txn'[log'[i].chain] = "committed"
                 /\ log'[i].chain = Tip'.chain => log'[i].position <= Tip'.position
      <4>1. CASE i = last
        BY <1>1, <1>2, <1>4, <1>7, <2>1, <4>1 DEF entry
      <4>2. CASE i # last
        <5>1. i \in Published /\ log'[i] = log[i] /\ log[i].position \in Nat
          BY <1>1, <1>5, <1>6, <1>8, <4>2
        <5>2. log[i].chain = Tip.chain => log[i].position <= Tip.position
          BY <2>2, <5>1
        <5> QED
          BY <1>2, <1>7, <1>8, <2>1, <5>1, <5>2
      <4> QED
        BY <4>1, <4>2
    <3>2. \A b \in compacted' : txn'[b] = "committed"
      BY <1>1, <1>2 DEF SerialInv, TipInv, TypeOK
    <3>3. \A i \in DOMAIN log' :
              log'[i].id \in compacted' => \E k \in DOMAIN log' : i < k /\ Committed(k)'
      BY <1>1, <1>2, <1>5 DEF SerialInv, TipInv, Committed
    <3> QED
      BY <3>1, <3>2, <3>3 DEF TipInv
  <2>4. ASSUME NEW p \in 0 .. Tip.position PROVE AtPosition(p)' = AtPosition(p)
    <3>1. \A e : e \in {log'[i] : i \in Published'} /\ e.chain = Tip'.chain /\ e.position = p
                 <=> e \in {log[i] : i \in Published} /\ e.chain = Tip.chain /\ e.position = p
      BY <1>7, <1>11, <2>1
    <3> QED
      BY <3>1 DEF AtPosition
  <2>5. ASSUME NEW p, p = Tip.position + 1 PROVE AtPosition(p)' = entry
    <3> DEFINE Last(e) == e.chain = Tip'.chain /\ e.position = Tip'.position
               Catalog == {log'[i] : i \in Published'}
    <3>1. AtPosition(p)' = CHOOSE e \in Catalog : Last(e)
      <4>1. p = Tip'.position
        BY <1>7, <2>1, <2>5
      <4> QED
        BY <4>1 DEF AtPosition
    <3>2. entry \in Catalog /\ Last(entry)
      BY <1>7, <1>11
    <3>3. \A e \in Catalog : Last(e) => e = entry
      BY <1>7, <1>11, <2>1, <2>2
    <3> HIDE DEF Catalog, Last
    <3> QED
      BY <3>1, <3>2, <3>3
  <2>6. CurrentChain' = Append(CurrentChain, j) /\ Len(CurrentChain) = Tip.position + 1
    <3> DEFINE len == Tip.position + 1
    <3>1. CurrentChain = [k \in 1 .. len |-> AtPosition(k - 1).id]
      BY <1>12 DEF CurrentChain
    <3>2. CurrentChain' = [k \in 1 .. Tip'.position + 1 |-> AtPosition(k - 1)'.id]
      BY <1>6 DEF CurrentChain
    <3>3. len \in Nat /\ Tip'.position + 1 = len + 1
      BY <1>7, <2>1
    <3>4. \A k \in 1 .. len + 1 :
              AtPosition(k - 1)'.id = IF k = len + 1 THEN j ELSE AtPosition(k - 1).id
      <4>1. ASSUME NEW k \in 1 .. len
            PROVE  AtPosition(k - 1)' = AtPosition(k - 1) /\ k # len + 1
        <5>1. k - 1 \in 0 .. Tip.position
          BY <2>1
        <5>2. AtPosition(k - 1)' = AtPosition(k - 1)
          BY <2>4, <5>1
        <5> QED
          BY <3>3, <5>2
      <4>2. ASSUME NEW k, k = len + 1 PROVE AtPosition(k - 1)' = entry
        <5>1. k - 1 = Tip.position + 1
          BY <2>1, <4>2
        <5> QED
          BY <2>5, <5>1
      <4>3. entry.id = j /\ \A k \in 1 .. len + 1 : k \in 1 .. len \/ k = len + 1
        BY <1>3, <3>3
      <4> QED
        BY <4>1, <4>2, <4>3
    <3> HIDE DEF len
    <3> DEFINE Old(k) == AtPosition(k - 1).id
    <3>5. CurrentChain' = [k \in 1 .. len + 1 |-> IF k = len + 1 THEN j ELSE Old(k)]
      BY <3>2, <3>3, <3>4
    <3>6. CurrentChain = [k \in 1 .. len |-> Old(k)]
      BY <3>1
    <3> HIDE DEF Old
    <3>7. Len(CurrentChain) = len
      BY <3>3, <3>6
    <3>8. Append(CurrentChain, j) = [k \in 1 .. len + 1 |-> IF k = len + 1 THEN j ELSE Old(k)]
      BY <3>3, <3>6
    <3> QED
      BY <3>5, <3>7, <3>8 DEF len
  <2>7. Len(CurrentChain) \in 1 .. MaxIncrementals
    BY <2>1, <2>6, CatalogAssumption
  <2>8. Serial!Publish(j)
    BY <1>9, <1>10, <2>6, <2>7 DEF Serial!Publish
  <2> QED
    BY <2>3, <2>8
<1>13. ASSUME ~ (Published # {} /\ HasRoom(Tip)) PROVE TipInv' /\ Serial!Publish(j)
  <2>1. entry.chain = j /\ entry.position = 0
    BY <1>3, <1>13 DEF ComesNext
  <2>2. TipInv'
    <3>1. ASSUME NEW i \in Published'
          PROVE  /\ txn'[log'[i].chain] = "committed"
                 /\ log'[i].chain = Tip'.chain => log'[i].position <= Tip'.position
      <4>1. CASE i = last
        BY <1>1, <1>2, <1>4, <1>7, <2>1, <4>1 DEF entry
      <4>2. CASE i # last
        <5>1. i \in Published /\ log'[i] = log[i]
          BY <1>1, <1>6, <4>2
        <5> QED
          BY <1>2, <1>7, <1>8, <2>1, <5>1
      <4> QED
        BY <4>1, <4>2
    <3>2. \A b \in compacted' : txn'[b] = "committed"
      BY <1>1, <1>2 DEF SerialInv, TipInv, TypeOK
    <3>3. \A i \in DOMAIN log' :
              log'[i].id \in compacted' => \E k \in DOMAIN log' : i < k /\ Committed(k)'
      BY <1>1, <1>2, <1>5 DEF SerialInv, TipInv, Committed
    <3> QED
      BY <3>1, <3>2, <3>3 DEF TipInv
  <2>3. ASSUME NEW p, p = 0 PROVE AtPosition(p)' = entry
    <3> DEFINE First(e) == e.chain = Tip'.chain /\ e.position = p
               Catalog == {log'[i] : i \in Published'}
    <3>1. AtPosition(p)' = CHOOSE e \in Catalog : First(e)
      BY DEF AtPosition
    <3>2. entry \in Catalog /\ First(entry)
      BY <1>7, <1>11, <2>1, <2>3
    <3>3. \A e \in Catalog : First(e) => e = entry
      BY <1>7, <1>8, <1>11, <2>1
    <3> HIDE DEF Catalog, First
    <3> QED
      BY <3>1, <3>2, <3>3
  <2>4. CurrentChain' = <<j>>
    <3>1. CurrentChain' = [k \in 1 .. Tip'.position + 1 |-> AtPosition(k - 1)'.id]
      BY <1>6 DEF CurrentChain
    <3>2. ASSUME NEW k \in 1 .. 1 PROVE AtPosition(k - 1)'.id = j
      <4>1. k - 1 = 0
        OBVIOUS
      <4> QED
        BY <1>3, <2>3, <4>1
    <3>3. Tip'.position + 1 = 1
      BY <1>7, <2>1
    <3>4. CurrentChain' = [k \in 1 .. 1 |-> j]
      BY <3>1, <3>2, <3>3
    <3> QED
      BY <3>4
  <2>5. Len(CurrentChain) \notin 1 .. MaxIncrementals
    <3>1. CASE Published = {}
      <4>1. Len(CurrentChain) = 0
        BY <3>1 DEF CurrentChain
      <4> QED
        BY <4>1
    <3>2. CASE Published # {}
      <4> DEFINE len == Tip.position + 1
      <4>1. len \in Nat /\ len > MaxIncrementals
        BY <1>13, <3>2, TipIs, CatalogAssumption DEF HasRoom
      <4>2. CurrentChain = [k \in 1 .. len |-> AtPosition(k - 1).id]
        BY <3>2 DEF CurrentChain
      <4> HIDE DEF len
      <4>3. Len(CurrentChain) = len
        BY <4>1, <4>2
      <4> QED
        BY <4>1, <4>3, CatalogAssumption
    <3> QED
      BY <3>1, <3>2
  <2>6. Serial!Publish(j)
    BY <1>9, <1>10, <2>4, <2>5 DEF Serial!Publish
  <2> QED
    BY <2>2, <2>6
<1>14. AloneInv'
  <2>1. \A k \in Jobs : k # j => ~Active(k)'
    BY <1>1, <1>2 DEF SerialInv, AloneInv, Active
  <2>2. \A k \in Jobs : txn'[k] = "open" => pc'[k] = "publishing"
    BY <1>2 DEF SerialInv, AloneInv, Backups
  <2>3. (\A b \in Backups : txn'[b] # "prepared") /\ txn'[Seed] # "open"
    BY <1>2, CatalogAssumption DEF SerialInv, AloneInv, Backups
  <2> QED
    BY <2>1, <2>2, <2>3 DEF AloneInv
<1>15. PlanInv'
  <2>1. \A k \in Jobs : pc'[k] \in {"start", "exited", "finishing"}
    BY <1>1, <1>2 DEF SerialInv, AloneInv, Active
  <2> QED
    BY <2>1 DEF PlanInv
<1> QED
    BY <1>12, <1>13, <1>14, <1>15 DEF SerialInv

\* What Kafka does: no transaction of a Job that is gone is left to resolve.
LEMMA SerialKafka ==
    ASSUME TypeOK, TxnInv, SerialInv, Kafka \/ UNCHANGED vars
    PROVE  SerialInv' /\ SamePublished
<1> USE DEF catalogVars, lockVars, jobVars
<1>1. ASSUME UNCHANGED <<log, txn, compacted, jobVars>> PROVE SerialInv' /\ SamePublished
  <2>1. SamePublished
    BY <1>1 DEF SamePublished, Published, Committed
  <2>2. TipInv' /\ PlanInv'
    BY <1>1, <2>1, TipKept, PlanKept DEF SerialInv
  <2>3. AloneInv'
    BY <1>1 DEF SerialInv, AloneInv, Active
  <2> QED
    BY <2>1, <2>2, <2>3 DEF SerialInv
<1>2. ASSUME NEW j \in Jobs, Resolve(j) PROVE FALSE
    BY <1>2 DEF Resolve, SerialInv, AloneInv, Backups
<1>3. ASSUME NEW i \in DOMAIN log, Compact(i) PROVE SerialInv' /\ SamePublished
  <2>1. /\ compacted' = compacted \cup {log[i].id} /\ Committed(i)
        /\ UNCHANGED <<log, txn, jobVars>>
    BY <1>3 DEF Compact
  <2>2. PICK m \in i + 1 .. StableEnd : Committed(m)
    BY <1>3 DEF Compact
  <2>3. m \in DOMAIN log /\ i < m
    <3>1. i \in Nat /\ StableEnd \in Nat
      BY StableEndIs DEF StableIsFirst, TypeOK
    <3> QED
      BY <2>2, <3>1 DEF Committed
  <2>4. SamePublished
    BY <2>1 DEF SamePublished, Published, Committed
  <2>5. PlanInv'
    BY <2>1, <2>4, PlanKept DEF SerialInv
  <2>6. AloneInv'
    BY <2>1 DEF SerialInv, AloneInv, Active
  <2>7. TipInv'
    <3>1. ASSUME NEW h \in DOMAIN log, log[h].id \in compacted'
          PROVE  \E k \in DOMAIN log : h < k /\ Committed(k)
      <4>1. CASE log[h].id \in compacted
        BY <4>1 DEF SerialInv, TipInv
      <4>2. CASE log[h].id \notin compacted
        <5>1. h = i
          BY <2>1, <3>1, <4>2 DEF TxnInv
        <5> QED
          BY <2>2, <2>3, <5>1
      <4> QED
        BY <4>1, <4>2
    <3>2. \A b \in compacted' : txn'[b] = "committed"
      BY <2>1 DEF SerialInv, TipInv, Committed
    <3>3. Published' = Published /\ (Published # {} => Tip' = Tip)
      BY <2>4, SerialSame DEF SamePublished
    <3>4. \A h \in Published' :
              /\ txn'[log'[h].chain] = "committed"
              /\ log'[h].chain = Tip'.chain => log'[h].position <= Tip'.position
      BY <2>1, <3>3 DEF SerialInv, TipInv
    <3>5. \A h \in DOMAIN log' :
              log'[h].id \in compacted' => \E k \in DOMAIN log' : h < k /\ Committed(k)'
      BY <2>1, <3>1 DEF Committed
    <3> QED
      BY <3>2, <3>4, <3>5 DEF TipInv
  <2> QED
    BY <2>4, <2>5, <2>6, <2>7 DEF SerialInv
<1>4. ASSUME NEW j \in Jobs, Assign(j) \/ Rebalance(j) PROVE SerialInv' /\ SamePublished
    BY <1>1, <1>4 DEF Assign, Rebalance
<1>5. CASE Release \/ Expire \/ Ingest \/ UNCHANGED vars
    BY <1>1, <1>5 DEF Release, Expire, Ingest, vars
<1> QED
    BY <1>2, <1>3, <1>4, <1>5 DEF Kafka

LEMMA SerialNext ==
    ASSUME "overlap" \notin Faults, "uncertain" \notin Faults,
           TypeOK, TypeOK', TxnInv, SerialInv, [Next]_vars
    PROVE  SerialInv' /\ [Serial!Next]_(Serial!vars)
<1>1. SamePublished => UNCHANGED Serial!vars
    BY SerialSame DEF Serial!vars
<1>2. ASSUME NEW j \in Jobs, Job(j) PROVE SerialInv' /\ [Serial!Next]_(Serial!vars)
  <2>1. CASE CommitTransaction(j)
    <3>1. SerialInv' /\ Serial!Publish(j)
      BY <2>1, SerialCommit
    <3> QED
      BY <3>1 DEF Serial!Next, Backups
  <2>2. CASE ~CommitTransaction(j)
    <3>1. SerialInv' /\ SamePublished
      BY <1>2, <2>2, SerialJoin, SerialExits, SerialAcquire, SerialCapture, SerialSends DEF Job
    <3> QED
      BY <1>1, <3>1
  <2> QED
    BY <2>1, <2>2
<1>3. CASE Kafka \/ UNCHANGED vars
    BY <1>1, <1>3, SerialKafka
<1> QED
    BY <1>2, <1>3 DEF Next, Idle

\* While Jobs do not overlap and no transaction outlives its Job, the catalog implements
\* the serial one: requests that fail, Jobs that die, sessions that end and the cleaner
\* never fork it, rewind it or restart a generation.
THEOREM SerialCatalogIsImplemented ==
    ASSUME "overlap" \notin Faults, "uncertain" \notin Faults
    PROVE  Spec => SerializesPublication
<1>1. Init => TypeOK /\ TxnInv /\ SerialInv /\ Serial!Init
    BY TypeInit, TxnInit, SerialInit
<1>2. TypeOK /\ TxnInv /\ SerialInv /\ [Next]_vars
          => (TypeOK /\ TxnInv /\ SerialInv)' /\ [Serial!Next]_(Serial!vars)
    BY TypeNext, TxnNext, SerialNext
<1> QED
    BY <1>1, <1>2, PTL DEF Spec, SerializesPublication, Serial!Spec
=============================================================================
