-------------------------- MODULE BoundedCopyProofs --------------------------
(***************************************************************************)
(* Proofs about BoundedCopy, for any number of copiers, partitions and     *)
(* starts, every range, set of records and batch size.                     *)
(***************************************************************************)
EXTENDS BoundedCopy, Extrema, SequenceTheorems, TLAPS

-----------------------------------------------------------------------------
(* The inductive invariant.                                                  *)

\* The variables that are functions are functions of the right domain.
Shape ==
    /\ committed \in [Partitions -> Int]
    /\ kept \in [Partitions -> Int]
    /\ next \in [Copiers -> Int]

\* The slots of a sequence that hold a record.
Held(s) == {i \in DOMAIN s : s[i] # Hole}

\* These records, each once, in source order.
Exact(s, records) ==
    /\ {s[i] : i \in Held(s)} = records
    /\ \A i, k \in Held(s) : i < k => s[i] < s[k]

\* Only one producer has the current epoch, and a transaction has records only
\* while its producer has it.
EpochInv ==
    /\ \A c \in Copiers :
          /\ myEpoch[c] \in 0 .. epoch
          /\ pc[c] \notin {"idle", "create", "init"} => myEpoch[c] > 0
          /\ batch[c] # <<>> => pc[c] \in {"batch", "commit"} /\ ~Fenced(c)
    /\ \A c, d \in Copiers : c # d /\ ~Fenced(c) /\ ~Fenced(d) => epoch = 0

\* Where a copier is, according to the progress: a fenced one is behind it, the other
\* one is where it is, or ahead of it by its batch.
PlaceAt(c) ==
    LET p == part[c]
    IN  /\ pc[c] = "empty" /\ ~Fenced(c) => committed[p] = Unset
        /\ pc[c] = "range" => /\ next[c] <= Progress(p)
                              /\ ~Fenced(c) => next[c] = Progress(p)
        /\ pc[c] \in {"batch", "commit"} /\ ~Fenced(c)
             => /\ Progress(p) <= next[c] /\ Progress(p) < Target[p]
                /\ Exact(batch[c], SourceRecords(p, Progress(p), next[c]))
        /\ pc[c] \in {"offset", "empty", "range", "batch", "commit"}
             => \A q \in Partitions : q < p => Progress(q) = Target[q]
        /\ pc[c] \in {"ends", "verify"} => \A q \in Partitions : Progress(q) = Target[q]

\* The replay topic is exact, as the group's progress says.
TopicInv ==
    \A p \in Partitions :
        /\ kept[p] <= Progress(p)
        /\ Exact(replay[p], SourceRecords(p, kept[p], Progress(p)))

CopyInv == EpochInv /\ (\A c \in Copiers : PlaceAt(c)) /\ TopicInv

\* The ends a copier reports are those of a topic that is complete.
EndsInv ==
    /\ kept = Start
    /\ \A c \in Copiers, p \in Partitions :
          pc[c] = "verify" /\ replayLow[p] = 0
            => ends[c][p] = IF Visible(p) = {} THEN 0 ELSE Max(Visible(p))

-----------------------------------------------------------------------------
(* Sequences of slots.                                                       *)

Slots == Nat \cup {Hole}

\* Sequences that follow one another in source order.
LEMMA ExactConcat ==
    ASSUME NEW s \in Seq(Slots), NEW t \in Seq(Slots), NEW A, NEW B, Exact(s, A), Exact(t, B),
           \A a \in A, b \in B : a < b
    PROVE  Exact(s \o t, A \cup B)
<1> DEFINE st == s \o t
<1>1. /\ st \in Seq(Slots) /\ Len(st) = Len(s) + Len(t)
      /\ \A i \in 1 .. Len(s) + Len(t) : st[i] = IF i <= Len(s) THEN s[i] ELSE t[i - Len(s)]
    BY ConcatProperties, Zenon
<1>2. /\ DOMAIN st = 1 .. Len(s) + Len(t) /\ DOMAIN s = 1 .. Len(s) /\ DOMAIN t = 1 .. Len(t)
      /\ Len(s) \in Nat /\ Len(t) \in Nat
    BY <1>1, LenProperties
<1> HIDE DEF st
<1>3. ASSUME NEW i \in Held(st)
      PROVE  \/ i \in Held(s) /\ st[i] = s[i]
             \/ i - Len(s) \in Held(t) /\ i > Len(s) /\ st[i] = t[i - Len(s)]
    BY <1>1, <1>2 DEF Held
<1>4. ASSUME NEW i \in Held(s) PROVE i \in Held(st) /\ st[i] = s[i]
    BY <1>1, <1>2 DEF Held
<1>5. ASSUME NEW i \in Held(t) PROVE i + Len(s) \in Held(st) /\ st[i + Len(s)] = t[i]
  <2>1. i \in 1 .. Len(t) /\ t[i] # Hole
    BY <1>2 DEF Held
  <2>2. i + Len(s) \in 1 .. Len(s) + Len(t) /\ i + Len(s) - Len(s) = i /\ ~ (i + Len(s) <= Len(s))
    BY <1>2, <2>1
  <2> QED
    BY <1>1, <1>2, <2>1, <2>2 DEF Held
<1>6. \A i \in Held(s) : s[i] \in A
    BY DEF Exact
<1>7. \A i \in Held(t) : t[i] \in B
    BY DEF Exact
<1>8. {st[i] : i \in Held(st)} \subseteq A \cup B
    BY <1>3, <1>6, <1>7
<1>9. A \subseteq {st[i] : i \in Held(st)}
    BY <1>4 DEF Exact
<1>10. B \subseteq {st[i] : i \in Held(st)}
    BY <1>5 DEF Exact
<1>11. ASSUME NEW i \in Held(st), NEW k \in Held(st), i < k PROVE st[i] < st[k]
  <2>1. i \in Nat /\ k \in Nat
    BY <1>2 DEF Held
  <2>2. CASE k \in Held(s) /\ st[k] = s[k]
    <3>1. k <= Len(s)
      BY <1>2, <2>2 DEF Held
    <3>2. i \in Held(s) /\ st[i] = s[i]
      BY <1>2, <1>3, <1>11, <2>1, <3>1
    <3> QED
      BY <1>11, <2>2, <3>2 DEF Exact
  <2>3. CASE k - Len(s) \in Held(t) /\ k > Len(s) /\ st[k] = t[k - Len(s)]
    <3>1. CASE i \in Held(s) /\ st[i] = s[i]
      BY <1>6, <1>7, <2>3, <3>1
    <3>2. CASE i - Len(s) \in Held(t) /\ st[i] = t[i - Len(s)]
      <4>1. i - Len(s) < k - Len(s)
        BY <1>2, <1>11, <2>1
      <4> QED
        BY <2>3, <3>2, <4>1 DEF Exact
    <3> QED
      BY <1>3, <3>1, <3>2
  <2> QED
    BY <1>3, <2>2, <2>3
<1> QED
    BY <1>8, <1>9, <1>10, <1>11 DEF Exact, st

\* One slot at the end.
LEMMA ExactAppend ==
    ASSUME NEW s \in Seq(Slots), NEW x \in Slots, NEW A, Exact(s, A)
    PROVE  /\ x = Hole => Exact(Append(s, x), A)
           /\ x # Hole /\ (\A a \in A : a < x) => Exact(Append(s, x), A \cup {x})
<1> DEFINE t == <<x>>
<1>1. t \in Seq(Slots) /\ DOMAIN t = {1} /\ t[1] = x
    OBVIOUS
<1>2. Append(s, x) = s \o t
    BY AppendIsConcat
<1>3. x = Hole => Held(t) = {}
    BY <1>1 DEF Held
<1>4. x # Hole => Held(t) = {1}
    BY <1>1 DEF Held
<1> HIDE DEF t
<1>5. x = Hole => Exact(t, {})
    BY <1>3 DEF Exact
<1>6. x # Hole => Exact(t, {x})
    BY <1>1, <1>4 DEF Exact
<1>7. ASSUME x = Hole PROVE Exact(Append(s, x), A)
  <2>1. Exact(s \o t, A \cup {})
    BY <1>1, <1>5, <1>7, ExactConcat
  <2> QED
    BY <1>2, <2>1
<1>8. ASSUME x # Hole, \A a \in A : a < x PROVE Exact(Append(s, x), A \cup {x})
    BY <1>1, <1>2, <1>6, <1>8, ExactConcat
<1> QED
    BY <1>7, <1>8

\* A transaction that ended shows what was in it.
LEMMA ExactEnded ==
    ASSUME NEW s \in Seq(Slots), NEW A, Exact(s, A)
    PROVE  Ended(s) \in Seq(Slots) /\ Exact(Ended(s), A)
<1>1. Hole \in Slots
    BY DEF Slots
<1> QED
    BY <1>1, AppendProperties, ExactAppend DEF Ended

\* An aborted transaction shows nothing.
LEMMA ExactAborted ==
    ASSUME NEW s \in Seq(Nat)
    PROVE  Ended(Aborted(s)) \in Seq(Slots) /\ Exact(Ended(Aborted(s)), {})
<1>1. Len(s) \in Nat
    BY LenProperties
<1>2. Aborted(s) \in [1 .. Len(s) -> Slots] /\ \A i \in 1 .. Len(s) : Aborted(s)[i] = Hole
    BY DEF Aborted, Slots
<1>3. Aborted(s) \in Seq(Slots) /\ DOMAIN Aborted(s) = 1 .. Len(s)
    BY <1>1, <1>2, SeqDef
<1>4. Held(Aborted(s)) = {}
    BY <1>2, <1>3 DEF Held
<1>5. Exact(Aborted(s), {})
    BY <1>4 DEF Exact
<1> QED
    BY <1>3, <1>5, ExactEnded

\* Aborting the transactions of some copiers adds nothing visible to the topic.
LEMMA AbortKeeps ==
    ASSUME NEW S \in SUBSET Copiers, replay \in [Partitions -> Seq(Slots)],
           batch \in [Copiers -> Seq(Nat)], NEW p \in Partitions
    PROVE  /\ AfterAbort(S)[p] \in Seq(Slots)
           /\ \A A : Exact(replay[p], A) => Exact(AfterAbort(S)[p], A)
<1> DEFINE Open(c) == part[c] = p /\ batch[c] # <<>>
           d == CHOOSE c \in S : Open(c)
<1>1. CASE \E c \in S : Open(c)
  <2>1. d \in S
    BY <1>1
  <2> DEFINE t == Ended(Aborted(batch[d]))
  <2>2. AfterAbort(S)[p] = replay[p] \o t
    BY <1>1 DEF AfterAbort
  <2> HIDE DEF d
  <2>3. batch[d] \in Seq(Nat)
    BY <2>1
  <2>4. t \in Seq(Slots) /\ Exact(t, {})
    BY <2>3, ExactAborted
  <2> HIDE DEF t
  <2>5. replay[p] \in Seq(Slots)
    OBVIOUS
  <2>6. ASSUME NEW A, Exact(replay[p], A) PROVE Exact(replay[p] \o t, A)
    <3>1. Exact(replay[p] \o t, A \cup {})
      BY <2>4, <2>5, <2>6, ExactConcat
    <3> QED
      BY <3>1
  <2> QED
    BY <2>2, <2>4, <2>5, <2>6, ConcatProperties
<1>2. CASE ~ \E c \in S : Open(c)
  <2>1. AfterAbort(S)[p] = replay[p]
    BY <1>2 DEF AfterAbort
  <2> QED
    BY <2>1
<1> QED
    BY <1>1, <1>2

-----------------------------------------------------------------------------
(* Type correctness.                                                         *)

Types == TypeOK /\ Shape

\* What recv returns when offset is needed: a record after it, or the end.
LEMMA ReceivedIs ==
    ASSUME NEW p \in Partitions, low[p] \in Nat, NEW offset \in Start[p] .. Target[p],
           NEW received \in Received(p, offset)
    PROVE  /\ received \in Nat /\ offset <= received
           /\ received \in Records[p] \/ received = EndOfPartition(p)
           /\ Contiguous(p, offset, received)
                => \A o \in Records[p] : offset <= o => received <= o
<1> DEFINE rest == {o \in Records[p] : o >= offset} \cup {EndOfPartition(p)}
<1>1. Start[p] \in Nat /\ Target[p] \in Nat /\ Records[p] \in SUBSET Nat
    BY CopyAssumption
<1>2. EndOfPartition(p) \in Nat /\ EndOfPartition(p) > offset
    BY <1>1 DEF EndOfPartition
<1>3. rest \in SUBSET Nat /\ rest # {} /\ EndOfPartition(p) \in rest
    BY <1>1, <1>2
<1>4. \A o \in rest : offset <= o /\ (o \in Records[p] \/ o = EndOfPartition(p))
    BY <1>1, <1>2
<1>5. \A o \in Records[p] : offset <= o => o \in rest
    BY <1>1
<1>6. received \in {Min(rest)} \cup IF low[p] > offset THEN {o \in rest : o >= low[p]} ELSE {}
    BY DEF Received
<1> HIDE DEF rest
<1>7. Min(rest) \in rest /\ \A o \in rest : Min(rest) <= o
    BY <1>3, MinIsLeast
<1>8. received \in rest
    BY <1>6, <1>7
<1>9. ASSUME Contiguous(p, offset, received)
      PROVE  \A o \in Records[p] : offset <= o => received <= o
  <2>1. CASE received = offset
    BY <2>1
  <2>2. CASE low[p] <= offset
    <3>1. received = Min(rest)
      BY <1>1, <1>6, <2>2
    <3> QED
      BY <1>5, <1>7, <3>1
  <2> QED
    BY <1>9, <2>1, <2>2 DEF Contiguous
<1> QED
    BY <1>3, <1>4, <1>8, <1>9

\* An attempt that fails.
LEMMA FailsTyped ==
    ASSUME Types, NEW c \in Copiers, Fails(c)
    PROVE  /\ pc' = [pc EXCEPT ![c] = "idle"] /\ batch' = [batch EXCEPT ![c] = <<>>]
           /\ replay' \in [Partitions -> Seq(Slots)]
           /\ \A p \in Partitions : \A A : Exact(replay[p], A) => Exact(replay'[p], A)
           /\ UNCHANGED <<part, next, created, myEpoch, ends>>
<1>1. replay \in [Partitions -> Seq(Slots)] /\ batch \in [Copiers -> Seq(Nat)]
    BY DEF Types, TypeOK, Slots
<1>2. CASE replay' = AfterAbort({c})
  <2>1. {c} \in SUBSET Copiers
    OBVIOUS
  <2>2. \A p \in Partitions : /\ AfterAbort({c})[p] \in Seq(Slots)
                              /\ \A A : Exact(replay[p], A) => Exact(AfterAbort({c})[p], A)
    BY <1>1, <2>1, AbortKeeps
  <2>3. AfterAbort({c}) \in [Partitions -> Seq(Slots)]
    <3>1. AfterAbort({c}) = [p \in Partitions |-> AfterAbort({c})[p]]
      BY DEF AfterAbort
    <3> QED
      BY <2>2, <3>1
  <2> QED
    BY <1>2, <2>2, <2>3 DEF Fails, Goes
<1>3. CASE replay' = replay
    BY <1>1, <1>3 DEF Fails, Goes
<1> QED
    BY <1>2, <1>3 DEF Fails

\* One copier's attempt fails, and nothing else happens.
LEMMA FailsKeepsTypes ==
    ASSUME Types, NEW c \in Copiers, Fails(c),
           UNCHANGED <<kept, low, exists, replayLow, committed, epoch>>
    PROVE  Types'
<1>1. /\ pc' = [pc EXCEPT ![c] = "idle"] /\ batch' = [batch EXCEPT ![c] = <<>>]
      /\ replay' \in [Partitions -> Seq(Slots)]
      /\ UNCHANGED <<part, next, created, myEpoch, ends>>
    BY FailsTyped
<1>2. batch' \in [Copiers -> Seq(Nat)] /\ pc' \in [Copiers -> Places]
    BY <1>1 DEF Types, TypeOK, Places
<1>3. \A d \in Copiers : pc'[d] \in {"range", "batch", "commit"}
                           => next'[d] \in Start[part'[d]] .. Target[part'[d]]
    BY <1>1 DEF Types, TypeOK
<1>4. Shape'
    BY <1>1 DEF Types, Shape
<1> QED
    BY <1>1, <1>2, <1>3, <1>4 DEF Types, TypeOK, Slots

\* A copier moves on, with a next offset inside the range.
LEMMA GoesKeepsTypes ==
    ASSUME Types, NEW c \in Copiers, NEW place \in Places, NEW n \in Int, NEW q \in Partitions,
           Goes(c, place), next' = [next EXCEPT ![c] = n], part' = [part EXCEPT ![c] = q],
           place \in {"range", "batch", "commit"} => n \in Start[q] .. Target[q],
           batch' \in [Copiers -> Seq(Nat)], replay' \in [Partitions -> Seq(Slots)],
           UNCHANGED <<low, exists, replayLow, committed, epoch, kept, created, myEpoch, ends>>
    PROVE  Types'
<1>1. pc' \in [Copiers -> Places] /\ next' \in [Copiers -> Int] /\ part' \in [Copiers -> Partitions]
    BY DEF Types, TypeOK, Shape, Goes
<1>2. ASSUME NEW d \in Copiers, pc'[d] \in {"range", "batch", "commit"}
      PROVE  next'[d] \in Start[part'[d]] .. Target[part'[d]]
  <2>1. CASE d = c
    BY <1>2, <2>1 DEF Types, TypeOK, Shape, Goes
  <2>2. CASE d # c
    <3>1. pc'[d] = pc[d] /\ next'[d] = next[d] /\ part'[d] = part[d]
      BY <2>2 DEF Types, TypeOK, Shape, Goes
    <3> QED
      BY <1>2, <3>1 DEF Types, TypeOK
  <2> QED
    BY <2>1, <2>2
<1>3. Shape'
    BY <1>1 DEF Types, Shape
<1> QED
    BY <1>1, <1>2, <1>3 DEF Types, TypeOK, Slots

\* The same where next and part stay, or batch and replay do.
LEMMA ProceedsKeepsTypes ==
    ASSUME Types, NEW c \in Copiers, NEW place \in Places, Proceeds(c, place),
           NEW n \in Int, next' = [next EXCEPT ![c] = n] \/ (next' = next /\ n = next[c]),
           NEW q \in Partitions, part' = [part EXCEPT ![c] = q] \/ (part' = part /\ q = part[c]),
           place \in {"range", "batch", "commit"} => n \in Start[q] .. Target[q],
           UNCHANGED <<low, exists, replayLow, committed, epoch, kept, created, myEpoch, ends>>
    PROVE  Types'
<1>1. next' = [next EXCEPT ![c] = n] /\ part' = [part EXCEPT ![c] = q]
    BY DEF Types, TypeOK, Shape
<1>2. batch' \in [Copiers -> Seq(Nat)] /\ replay' \in [Partitions -> Seq(Slots)] /\ Goes(c, place)
    BY DEF Types, TypeOK, Slots, Proceeds
<1> QED
    BY <1>1, <1>2, GoesKeepsTypes

\* A step of a copier.
LEMMA StepTyped ==
    ASSUME Types, NEW c \in Copiers, Copier(c)
    PROVE  Types'
<1> DEFINE p == part[c]
<1>1. /\ p \in Partitions /\ next[c] \in Int /\ p \in Nat
      /\ Start[p] \in Nat /\ Target[p] \in Nat /\ Start[p] <= Target[p]
      /\ Start[p] \in Start[p] .. Target[p] /\ Target[p] \in Start[p] .. Target[p]
      /\ NumPartitions \in Nat /\ 1 \in Partitions
  <2>1. p \in Partitions /\ next[c] \in Int
    BY DEF Types, TypeOK, Shape
  <2>2. /\ Start[p] \in Nat /\ Target[p] \in Nat /\ Start[p] <= Target[p]
        /\ NumPartitions \in Nat \ {0}
    BY <2>1, CopyAssumption
  <2> QED
    BY <2>1, <2>2 DEF Partitions
<1>2. CASE VerifyRanges(c)
  <2>1. UNCHANGED <<kept, low, exists, replayLow, committed, epoch, part, next, created, myEpoch,
                    ends>>
        /\ Proceeds(c, "create")
    BY <1>2 DEF VerifyRanges
  <2> QED
    BY <1>1, <2>1, ProceedsKeepsTypes DEF Places
<1>3. CASE EnsureTopic(c)
  <2>1. exists' \in BOOLEAN /\ created' \in [Copiers -> BOOLEAN]
    BY <1>3 DEF EnsureTopic, Types, TypeOK
  <2>2. pc' \in [Copiers -> Places] /\ pc'[c] = "init" /\ \A d \in Copiers : d # c => pc'[d] = pc[d]
    BY <1>3 DEF EnsureTopic, Types, TypeOK, Proceeds, Goes, Places
  <2>3. UNCHANGED <<kept, low, replayLow, committed, epoch, part, next, myEpoch, ends, replay,
                    batch>>
    BY <1>3 DEF EnsureTopic, Proceeds
  <2>4. \A d \in Copiers : pc'[d] \in {"range", "batch", "commit"}
                             => next'[d] \in Start[part'[d]] .. Target[part'[d]]
    BY <2>2, <2>3 DEF Types, TypeOK
  <2>5. Shape'
    BY <2>3 DEF Types, Shape
  <2> QED
    BY <2>1, <2>2, <2>3, <2>4, <2>5 DEF Types, TypeOK
<1>4. CASE InitTransactions(c)
  <2>1. /\ epoch' \in 0 .. MaxEpoch /\ myEpoch' \in [Copiers -> 0 .. MaxEpoch]
        /\ batch' \in [Copiers -> Seq(Nat)]
    BY <1>4, CopyAssumption DEF InitTransactions, Types, TypeOK
  <2>2. replay' \in [Partitions -> Seq(Slots)]
    <3> DEFINE S == {other \in Copiers : myEpoch[other] = epoch}
    <3>1. S \in SUBSET Copiers
      OBVIOUS
    <3>2. replay' = AfterAbort(S)
      BY <1>4 DEF InitTransactions
    <3>3. replay \in [Partitions -> Seq(Slots)] /\ batch \in [Copiers -> Seq(Nat)]
      BY DEF Types, TypeOK, Slots
    <3> HIDE DEF S
    <3>4. \A q \in Partitions : AfterAbort(S)[q] \in Seq(Slots)
      BY <3>1, <3>3, AbortKeeps
    <3>5. AfterAbort(S) = [q \in Partitions |-> AfterAbort(S)[q]]
      BY DEF AfterAbort
    <3> QED
      BY <3>2, <3>4, <3>5
  <2>3. /\ pc' \in [Copiers -> Places] /\ part' \in [Copiers -> Partitions] /\ pc'[c] = "offset"
        /\ \A d \in Copiers : d # c => pc'[d] = pc[d] /\ part'[d] = part[d]
    BY <1>1, <1>4 DEF InitTransactions, Types, TypeOK, Goes, Places
  <2>4. UNCHANGED <<kept, low, exists, replayLow, committed, next, created, ends>>
    BY <1>4 DEF InitTransactions
  <2>5. \A d \in Copiers : pc'[d] \in {"range", "batch", "commit"}
                             => next'[d] \in Start[part'[d]] .. Target[part'[d]]
    BY <2>3, <2>4 DEF Types, TypeOK
  <2>6. Shape'
    BY <2>4 DEF Types, Shape
  <2> QED
    BY <2>1, <2>2, <2>3, <2>4, <2>5, <2>6 DEF Types, TypeOK, Slots
<1>5. CASE FetchCommitted(c)
  <2>1. UNCHANGED <<kept, low, exists, replayLow, committed, epoch>>
    BY <1>5 DEF FetchCommitted
  <2>2. CASE Fails(c)
    BY <2>1, <2>2, FailsKeepsTypes
  <2>3. CASE /\ Proceeds(c, "range") /\ UNCHANGED <<part, created, myEpoch, ends>>
             /\ next' = [next EXCEPT ![c] = Start[p]]
    <3>1. "range" \in Places /\ Start[p] \in Int /\ part' = part /\ Proceeds(c, "range")
      BY <1>1, <2>3 DEF Places
    <3> QED
      BY <1>1, <2>1, <2>3, <3>1, ProceedsKeepsTypes
  <2>4. CASE Proceeds(c, "empty") /\ UNCHANGED <<part, next, created, myEpoch, ends>>
    BY <1>1, <2>1, <2>4, ProceedsKeepsTypes DEF Places
  <2>5. CASE /\ Proceeds(c, "range") /\ UNCHANGED <<part, created, myEpoch, ends>>
             /\ next' = [next EXCEPT ![c] = committed[p]] /\ committed[p] \in Start[p] .. Target[p]
    <3>1. committed[p] \in Int
      BY <1>1 DEF Types, Shape
    <3> QED
      BY <1>1, <2>1, <2>5, <3>1, ProceedsKeepsTypes DEF Places
  <2> QED
    BY <1>5, <2>2, <2>3, <2>4, <2>5 DEF FetchCommitted
<1>6. CASE RequireEmpty(c)
  <2>1. UNCHANGED <<kept, low, exists, replayLow, committed, epoch>>
    BY <1>6 DEF RequireEmpty
  <2>2. CASE Fails(c)
    BY <2>1, <2>2, FailsKeepsTypes
  <2>3. CASE /\ Proceeds(c, "range") /\ UNCHANGED <<part, created, myEpoch, ends>>
             /\ next' = [next EXCEPT ![c] = Start[p]]
    <3>1. "range" \in Places /\ Start[p] \in Int /\ part' = part /\ Proceeds(c, "range")
      BY <1>1, <2>3 DEF Places
    <3> QED
      BY <1>1, <2>1, <2>3, <3>1, ProceedsKeepsTypes
  <2> QED
    BY <1>6, <2>2, <2>3 DEF RequireEmpty
<1>7. CASE BeginBatch(c)
  <2>1. UNCHANGED <<kept, low, exists, replayLow, committed, epoch>> /\ pc[c] = "range"
    BY <1>7 DEF BeginBatch
  <2>2. CASE Fails(c)
    BY <2>1, <2>2, FailsKeepsTypes
  <2>3. CASE Proceeds(c, "batch") /\ UNCHANGED <<part, next, created, myEpoch, ends>>
    <3>1. next[c] \in Start[p] .. Target[p]
      BY <2>1 DEF Types, TypeOK
    <3> QED
      BY <1>1, <2>1, <2>3, <3>1, ProceedsKeepsTypes DEF Places
  <2>4. CASE /\ Proceeds(c, "offset") /\ UNCHANGED <<next, created, myEpoch, ends>>
             /\ part' = [part EXCEPT ![c] = @ + 1] /\ p < NumPartitions
    <3>1. p + 1 \in Partitions /\ part' = [part EXCEPT ![c] = p + 1]
      BY <1>1, <2>4 DEF Partitions
    <3> QED
      BY <1>1, <2>1, <2>4, <3>1, ProceedsKeepsTypes DEF Places
  <2>5. CASE Proceeds(c, "ends") /\ UNCHANGED <<part, next, created, myEpoch, ends>>
    BY <1>1, <2>1, <2>5, ProceedsKeepsTypes DEF Places
  <2> QED
    BY <1>7, <2>2, <2>3, <2>4, <2>5 DEF BeginBatch
<1>8. CASE CopyRecord(c)
  <2>1. UNCHANGED <<kept, low, exists, replayLow, committed, epoch>> /\ pc[c] = "batch"
    BY <1>8 DEF CopyRecord
  <2>2. CASE Fails(c)
    BY <2>1, <2>2, FailsKeepsTypes
  <2>3. CASE /\ Proceeds(c, "commit") /\ UNCHANGED <<part, created, myEpoch, ends>>
             /\ next' = [next EXCEPT ![c] = Target[part[c]]]
    <3>1. "commit" \in Places /\ Target[p] \in Int /\ part' = part /\ Proceeds(c, "commit")
      BY <1>1, <2>3 DEF Places
    <3> QED
      BY <1>1, <2>1, <2>3, <3>1, ProceedsKeepsTypes
  <2>4. ASSUME NEW received \in Received(part[c], next[c]), ~AtTarget(part[c], received),
               next' = [next EXCEPT ![c] = received + 1],
               batch' = [batch EXCEPT ![c] = Append(@, received)],
               NEW place \in {"batch", "commit"}, Goes(c, place),
               UNCHANGED <<replay, part, created, myEpoch, ends>>
        PROVE  Types'
    <3>1. next[c] \in Start[p] .. Target[p] /\ low[p] \in Nat
      BY <1>1, <2>1 DEF Types, TypeOK
    <3>2. received \in Nat /\ next[c] <= received
      BY <1>1, <3>1, ReceivedIs
    <3>3. received + 1 \in Start[p] .. Target[p]
      BY <1>1, <2>4, <3>1, <3>2 DEF AtTarget
    <3>4. batch' \in [Copiers -> Seq(Nat)] /\ replay' \in [Partitions -> Seq(Slots)]
      <4>1. batch[c] \in Seq(Nat)
        BY DEF Types, TypeOK
      <4>2. Append(batch[c], received) \in Seq(Nat)
        BY <3>2, <4>1, AppendProperties
      <4> QED
        BY <2>4, <4>2 DEF Types, TypeOK, Slots
    <3>5. part' = [part EXCEPT ![c] = p] /\ place \in Places /\ received + 1 \in Int
      BY <2>4, <3>2 DEF Types, TypeOK, Places
    <3> QED
      BY <1>1, <2>1, <2>4, <3>3, <3>4, <3>5, GoesKeepsTypes
  <2> QED
    BY <1>8, <2>2, <2>3, <2>4 DEF CopyRecord
<1>9. CASE CommitBatch(c)
  <2>1. UNCHANGED <<kept, low, exists, replayLow, epoch, part, next, created, myEpoch, ends>>
        /\ pc[c] = "commit"
    BY <1>9 DEF CommitBatch
  <2>2. CASE Fails(c) /\ UNCHANGED committed
    BY <2>1, <2>2, FailsKeepsTypes
  <2>3. ASSUME NEW place \in {"range", "idle"}, Commits(c), Goes(c, place)
        PROVE  Types'
    <3>1. next[c] \in Start[p] .. Target[p] /\ next[c] \in Int
      BY <1>1, <2>1 DEF Types, TypeOK
    <3>2. committed' \in [Partitions -> Int]
          /\ \A q \in Partitions : committed'[q] \in Start[q] .. Target[q] \cup {Unset}
      BY <1>1, <2>3, <3>1 DEF Types, TypeOK, Shape, Commits
    <3>3. batch' \in [Copiers -> Seq(Nat)] /\ batch[c] \in Seq(Slots)
      <4>1. batch[c] \in Seq(Nat)
        BY DEF Types, TypeOK
      <4>2. Nat \subseteq Slots
        BY DEF Slots
      <4>3. batch[c] \in Seq(Slots)
        BY <4>1, <4>2, SeqMonotonic
      <4> QED
        BY <2>3, <4>3 DEF Types, TypeOK, Commits
    <3>4. replay' \in [Partitions -> Seq(Slots)]
      <4>1. Ended(batch[c]) \in Seq(Slots)
        BY <3>3, AppendProperties DEF Ended, Slots
      <4>2. replay[p] \in Seq(Slots)
        BY <1>1 DEF Types, TypeOK, Slots
      <4>3. replay[p] \o Ended(batch[c]) \in Seq(Slots)
        BY <4>1, <4>2, ConcatProperties
      <4> QED
        BY <1>1, <2>3, <4>3 DEF Types, TypeOK, Slots, Commits
    <3>5. pc' \in [Copiers -> Places] /\ \A d \in Copiers : d # c => pc'[d] = pc[d]
      BY <2>3 DEF Goes, Types, TypeOK, Places
    <3>6. \A d \in Copiers : pc'[d] \in {"range", "batch", "commit"}
                               => next'[d] \in Start[part'[d]] .. Target[part'[d]]
      <4> SUFFICES ASSUME NEW d \in Copiers, pc'[d] \in {"range", "batch", "commit"}
                   PROVE  next[d] \in Start[part[d]] .. Target[part[d]]
        BY <2>1
      <4>1. CASE d = c
        BY <3>1, <4>1
      <4>2. CASE d # c
        BY <3>5, <4>2 DEF Types, TypeOK
      <4> QED
        BY <4>1, <4>2
    <3>7. Shape'
      BY <2>1, <3>2 DEF Types, Shape
    <3> QED
      BY <2>1, <3>2, <3>3, <3>4, <3>5, <3>6, <3>7 DEF Types, TypeOK, Slots
  <2> QED
    BY <1>9, <2>2, <2>3 DEF CommitBatch
<1>10. CASE ReportEnds(c)
  <2>1. UNCHANGED <<kept, low, exists, replayLow, committed, epoch>>
    BY <1>10 DEF ReportEnds
  <2>2. CASE Fails(c)
    BY <2>1, <2>2, FailsKeepsTypes
  <2>3. CASE /\ ends' = [ends EXCEPT ![c] =
                           [q \in Partitions |-> IF Visible(q) = {} THEN 0 ELSE Max(Visible(q))]]
             /\ Proceeds(c, "verify") /\ UNCHANGED <<part, next, created, myEpoch>>
    <3>1. ASSUME NEW q \in Partitions, Visible(q) # {} PROVE Max(Visible(q)) \in Nat
      <4>1. Len(replay[q]) \in Nat /\ replayLow[q] \in Nat
        <5>1. replay[q] \in Seq(Slots)
          BY DEF Types, TypeOK, Slots
        <5> QED
          BY <5>1, LenProperties DEF Types, TypeOK
      <4>2. Visible(q) \in SUBSET (1 .. Len(replay[q]))
        BY <4>1 DEF Visible
      <4>3. Max(Visible(q)) \in Visible(q)
        BY <3>1, <4>1, <4>2, MaxIsGreatest
      <4> QED
        BY <4>1, <4>2, <4>3
    <3>2. ends' \in [Copiers -> [Partitions -> Nat]]
      <4> DEFINE e == [q \in Partitions |-> IF Visible(q) = {} THEN 0 ELSE Max(Visible(q))]
      <4>1. e \in [Partitions -> Nat]
        BY <3>1
      <4>2. ends' = [ends EXCEPT ![c] = e]
        BY <2>3
      <4> HIDE DEF e
      <4> QED
        BY <4>1, <4>2 DEF Types, TypeOK
    <3>3. /\ pc' \in [Copiers -> Places] /\ pc'[c] = "verify"
          /\ \A d \in Copiers : d # c => pc'[d] = pc[d]
      BY <2>3 DEF Proceeds, Goes, Types, TypeOK, Places
    <3>4. UNCHANGED <<replay, batch>>
      BY <2>3 DEF Proceeds
    <3>5. \A d \in Copiers : pc'[d] \in {"range", "batch", "commit"}
                               => next'[d] \in Start[part'[d]] .. Target[part'[d]]
      BY <2>3, <3>3 DEF Types, TypeOK
    <3>6. Shape'
      BY <2>1, <2>3 DEF Types, Shape
    <3> QED
      BY <2>1, <2>3, <3>2, <3>3, <3>4, <3>5, <3>6 DEF Types, TypeOK
  <2> QED
    BY <1>10, <2>2, <2>3 DEF ReportEnds
<1>11. CASE VerifyRetained(c)
  <2>1. UNCHANGED <<kept, low, exists, replayLow, committed, epoch>>
    BY <1>11 DEF VerifyRetained
  <2>2. CASE Fails(c)
    BY <2>1, <2>2, FailsKeepsTypes
  <2>3. CASE Proceeds(c, "done") /\ UNCHANGED <<part, next, created, myEpoch, ends>>
    BY <1>1, <2>1, <2>3, ProceedsKeepsTypes DEF Places
  <2> QED
    BY <1>11, <2>2, <2>3 DEF VerifyRetained
<1>12. CASE Fail(c)
    BY <1>12, FailsKeepsTypes DEF Fail
<1> QED
    BY <1>2, <1>3, <1>4, <1>5, <1>6, <1>7, <1>8, <1>9, <1>10, <1>11, <1>12 DEF Copier

\* The progress is inside the range.
LEMMA ProgressInRange ==
    ASSUME Types, NEW p \in Partitions
    PROVE  /\ Progress(p) \in Start[p] .. Target[p] /\ Progress(p) \in Nat
           /\ Start[p] \in Nat /\ Target[p] \in Nat /\ kept[p] \in Start[p] .. Target[p]
<1>1. Start[p] \in Nat /\ Target[p] \in Nat /\ Start[p] <= Target[p]
    BY CopyAssumption
<1>2. committed[p] \in Start[p] .. Target[p] \cup {Unset} /\ kept[p] \in Start[p] .. Target[p]
    BY DEF Types, TypeOK
<1> QED
    BY <1>1, <1>2 DEF Progress

\* Kafka's housekeeping.
LEMMA KafkaTyped ==
    ASSUME Types, Kafka \/ Idle \/ UNCHANGED vars
    PROVE  Types'
<1>1. CASE \E p \in Partitions : TrimSource(p)
  <2>1. PICK p \in Partitions : TrimSource(p)
    BY <1>1
  <2>2. low' \in [Partitions -> Nat]
        /\ UNCHANGED <<kept, exists, replay, replayLow, committed, epoch, copierVars>>
    BY <2>1 DEF TrimSource, Types, TypeOK
  <2> QED
    BY <2>2 DEF Types, TypeOK, Shape, copierVars
<1>2. CASE \E p \in Partitions : TrimReplay(p)
  <2>1. PICK p \in Partitions : TrimReplay(p)
    BY <1>2
  <2>2. replayLow' \in [Partitions -> Nat]
    <3>1. replayLow \in [Partitions -> Nat] /\ replayLow' = [replayLow EXCEPT ![p] = @ + 1]
      BY <2>1 DEF TrimReplay, Types, TypeOK
    <3> QED
      BY <3>1
  <2>3. UNCHANGED <<kept, low, exists, replay, committed, epoch, copierVars>>
    BY <2>1 DEF TrimReplay
  <2> QED
    BY <2>2, <2>3 DEF Types, TypeOK, Shape, copierVars
<1>3. CASE \E p \in Partitions : ExpireProgress(p)
  <2>1. PICK p \in Partitions : ExpireProgress(p)
    BY <1>3
  <2>2. committed' \in [Partitions -> Int]
        /\ \A q \in Partitions : committed'[q] \in Start[q] .. Target[q] \cup {Unset}
    BY <2>1 DEF ExpireProgress, Types, TypeOK, Shape, Unset
  <2>3. UNCHANGED <<kept, low, exists, replay, replayLow, epoch, copierVars>>
    BY <2>1 DEF ExpireProgress
  <2> QED
    BY <2>2, <2>3 DEF Types, TypeOK, Shape, copierVars
<1>4. CASE DeleteTopic
  <2>1. /\ exists' \in BOOLEAN /\ replay' \in [Partitions -> Seq(Nat \cup {Hole})]
        /\ replayLow' \in [Partitions -> Nat]
        /\ UNCHANGED <<low, committed, epoch, copierVars>>
    <3>1. <<>> \in Seq(Nat \cup {Hole})
      OBVIOUS
    <3>2. replay' \in [Partitions -> Seq(Nat \cup {Hole})]
      BY <1>4, <3>1 DEF DeleteTopic
    <3>3. exists' \in BOOLEAN /\ replayLow' \in [Partitions -> Nat]
      BY <1>4 DEF DeleteTopic
    <3>4. UNCHANGED <<low, committed, epoch, copierVars>>
      BY <1>4 DEF DeleteTopic
    <3> QED
      BY <3>2, <3>3, <3>4
  <2>2. kept' \in [Partitions -> Int] /\ \A p \in Partitions : kept'[p] \in Start[p] .. Target[p]
    <3>1. kept' = [p \in Partitions |-> Progress(p)]
      BY <1>4 DEF DeleteTopic
    <3>2. \A p \in Partitions : Progress(p) \in Int /\ Progress(p) \in Start[p] .. Target[p]
      BY ProgressInRange
    <3> QED
      BY <3>1, <3>2
  <2> QED
    BY <2>1, <2>2 DEF Types, TypeOK, Shape, copierVars
<1>5. CASE Idle \/ UNCHANGED vars
    BY <1>5 DEF Idle, Types, TypeOK, Shape, vars, kafkaVars, copierVars
<1> QED
    BY <1>1, <1>2, <1>3, <1>4, <1>5 DEF Kafka

\* The initial values are typed.
LEMMA InitTyped == Init => Types
<1> SUFFICES ASSUME Init PROVE Types
    OBVIOUS
<1>1. /\ Start \in [Partitions -> Nat] /\ Target \in [Partitions -> Nat]
      /\ \A p \in Partitions : Start[p] <= Target[p]
      /\ MaxEpoch \in Nat /\ 1 \in Partitions
    BY CopyAssumption DEF Partitions
<1>2. /\ <<>> \in Seq(Nat \cup {Hole}) /\ <<>> \in Seq(Nat)
    OBVIOUS
<1>3. Shape
    BY <1>1 DEF Init, Shape, Unset
<1>4. /\ low \in [Partitions -> Nat] /\ exists \in BOOLEAN
      /\ replay \in [Partitions -> Seq(Nat \cup {Hole})] /\ replayLow \in [Partitions -> Nat]
      /\ epoch \in 0 .. MaxEpoch
  <2>1. low \in [Partitions -> Nat] /\ replayLow \in [Partitions -> Nat] /\ exists \in BOOLEAN
    BY DEF Init
  <2>2. replay \in [Partitions -> Seq(Nat \cup {Hole})]
    BY <1>2 DEF Init
  <2>3. epoch \in 0 .. MaxEpoch
    BY <1>1 DEF Init
  <2> QED
    BY <2>1, <2>2, <2>3
<1>5. /\ \A p \in Partitions : committed[p] \in Start[p] .. Target[p] \cup {Unset}
      /\ \A p \in Partitions : kept[p] \in Start[p] .. Target[p]
    BY <1>1 DEF Init
<1>6. /\ pc \in [Copiers -> Places] /\ part \in [Copiers -> Partitions]
      /\ batch \in [Copiers -> Seq(Nat)] /\ created \in [Copiers -> BOOLEAN]
      /\ myEpoch \in [Copiers -> 0 .. MaxEpoch] /\ ends \in [Copiers -> [Partitions -> Nat]]
    BY <1>1, <1>2 DEF Init, Places
<1>7. \A c \in Copiers : pc[c] \notin {"range", "batch", "commit"}
    BY DEF Init
<1> QED
    BY <1>3, <1>4, <1>5, <1>6, <1>7 DEF Types, TypeOK

\* So is every later one.
LEMMA TypesHold == Spec => []Types
<1>1. Types /\ [Next]_vars => Types'
    BY StepTyped, KafkaTyped DEF Next
<1> QED
    BY <1>1, InitTyped, PTL DEF Spec

\* Offsets stay inside the copied range, and the log and the transactions hold what
\* they can hold, whatever copiers and Kafka do.
THEOREM CopyTyped == Spec => []TypeOK
    BY TypesHold, PTL DEF Types

-----------------------------------------------------------------------------
(* The invariant, while the group's progress does not expire.                *)

\* A copier that does nothing is where it was, or has been fenced.
LEMMA OtherPlaced ==
    ASSUME Types, Types', NEW d \in Copiers, PlaceAt(d),
           pc'[d] = pc[d], part'[d] = part[d], next'[d] = next[d],
           \A q \in Partitions : Progress(q) <= Progress(q)',
           Fenced(d)' \/ (committed' = committed /\ batch'[d] = batch[d] /\ Fenced(d)' = Fenced(d))
    PROVE  PlaceAt(d)'
<1> DEFINE p == part[d]
<1>1. p \in Partitions /\ part'[d] = p
    BY DEF Types, TypeOK
<1>2. \A q \in Partitions : /\ Progress(q) \in Start[q] .. Target[q]
                            /\ Progress(q)' \in Start[q] .. Target[q]
                            /\ Start[q] \in Nat /\ Target[q] \in Nat
  <2>1. \A q \in Partitions : committed'[q] \in Start[q] .. Target[q] \cup {Unset}
    BY DEF Types, TypeOK
  <2>2. \A q \in Partitions : Progress(q) \in Start[q] .. Target[q]
                              /\ Start[q] \in Nat /\ Target[q] \in Nat
    BY ProgressInRange
  <2> QED
    BY <2>1, <2>2 DEF Progress
<1>3. \A q \in Partitions : Progress(q) = Target[q] => Progress(q)' = Target[q]
    BY <1>2
<1>4. next[d] \in Int
    BY DEF Types, Shape
<1>5. CASE Fenced(d)'
  <2>1. next[d] <= Progress(p) => next'[d] <= Progress(p)'
    BY <1>1, <1>2, <1>4
  <2> QED
    BY <1>1, <1>3, <1>5, <2>1 DEF PlaceAt
<1>6. CASE committed' = committed /\ batch'[d] = batch[d] /\ Fenced(d)' = Fenced(d)
  <2>1. \A q \in Partitions : Progress(q)' = Progress(q)
    BY <1>6 DEF Progress
  <2> QED
    BY <1>1, <1>6, <2>1 DEF PlaceAt
<1> QED
    BY <1>5, <1>6

\* A step of one copier that commits nothing and fences nobody.
LEMMA QuietStep ==
    ASSUME Types, Types', CopyInv, NEW c \in Copiers,
           UNCHANGED <<committed, kept, epoch, myEpoch>>,
           \A d \in Copiers : d # c => /\ pc'[d] = pc[d] /\ part'[d] = part[d]
                                       /\ next'[d] = next[d] /\ batch'[d] = batch[d],
           \A p \in Partitions : \A A : Exact(replay[p], A) => Exact(replay'[p], A),
           pc'[c] \notin {"idle", "create", "init"} => myEpoch[c] > 0,
           batch'[c] # <<>> => pc'[c] \in {"batch", "commit"} /\ ~Fenced(c),
           PlaceAt(c)'
    PROVE  CopyInv'
<1>1. \A d \in Copiers : Fenced(d)' = Fenced(d)
    BY DEF Fenced
<1>2. \A q \in Partitions : Progress(q)' = Progress(q) /\ Progress(q) \in Nat
    BY ProgressInRange DEF Progress
<1>3. EpochInv'
  <2>1. ASSUME NEW d \in Copiers
        PROVE  /\ myEpoch'[d] \in 0 .. epoch'
               /\ pc'[d] \notin {"idle", "create", "init"} => myEpoch'[d] > 0
               /\ batch'[d] # <<>> => pc'[d] \in {"batch", "commit"} /\ ~Fenced(d)'
    <3>1. CASE d = c
      BY <1>1, <3>1 DEF CopyInv, EpochInv
    <3>2. CASE d # c
      BY <1>1, <3>2 DEF CopyInv, EpochInv
    <3> QED
      BY <3>1, <3>2
  <2>2. \A d, e \in Copiers : d # e /\ ~Fenced(d)' /\ ~Fenced(e)' => epoch' = 0
    BY <1>1 DEF CopyInv, EpochInv
  <2> QED
    BY <2>1, <2>2 DEF EpochInv
<1>4. ASSUME NEW d \in Copiers PROVE PlaceAt(d)'
  <2>1. CASE d # c
    <3>1. \A q \in Partitions : Progress(q) <= Progress(q)'
      BY <1>2
    <3> QED
      BY <1>1, <2>1, <3>1, OtherPlaced DEF CopyInv
  <2> QED
    BY <2>1
<1>5. TopicInv'
  <2> SUFFICES ASSUME NEW p \in Partitions
               PROVE  /\ kept'[p] <= Progress(p)'
                      /\ Exact(replay'[p], SourceRecords(p, kept'[p], Progress(p)'))
    BY DEF TopicInv
  <2> QED
    BY <1>2 DEF CopyInv, TopicInv
<1> QED
    BY <1>3, <1>4, <1>5 DEF CopyInv

\* An attempt that fails.
LEMMA FailsKeeps ==
    ASSUME Types, Types', CopyInv, NEW c \in Copiers, Fails(c),
           UNCHANGED <<kept, committed, epoch>>
    PROVE  CopyInv'
<1>1. /\ pc' = [pc EXCEPT ![c] = "idle"] /\ batch' = [batch EXCEPT ![c] = <<>>]
      /\ \A p \in Partitions : \A A : Exact(replay[p], A) => Exact(replay'[p], A)
      /\ UNCHANGED <<part, next, created, myEpoch, ends>>
    BY FailsTyped
<1>2. pc'[c] = "idle" /\ batch'[c] = <<>>
      /\ \A d \in Copiers : d # c => pc'[d] = pc[d] /\ batch'[d] = batch[d]
    BY <1>1 DEF Types, TypeOK
<1>3. PlaceAt(c)'
    BY <1>2 DEF PlaceAt
<1> QED
    BY <1>1, <1>2, <1>3, QuietStep

\* A step of one copier that neither ends a transaction nor an attempt.
LEMMA ProceedsKeeps ==
    ASSUME Types, Types', CopyInv, NEW c \in Copiers, NEW place \in Places, Proceeds(c, place),
           batch[c] = <<>> \/ place \in {"batch", "commit"},
           place \notin {"idle", "create", "init"} => pc[c] \notin {"idle", "create", "init"},
           UNCHANGED <<kept, committed, epoch, myEpoch>>,
           \A d \in Copiers : d # c => part'[d] = part[d] /\ next'[d] = next[d],
           PlaceAt(c)'
    PROVE  CopyInv'
<1>1. pc'[c] = place /\ \A d \in Copiers : d # c => pc'[d] = pc[d]
    BY DEF Proceeds, Goes, Types, TypeOK
<1>2. UNCHANGED <<replay, batch>>
    BY DEF Proceeds
<1>3. place \notin {"idle", "create", "init"} => myEpoch[c] > 0
    BY DEF CopyInv, EpochInv
<1>4. batch[c] # <<>> => ~Fenced(c)
    BY DEF CopyInv, EpochInv
<1> QED
    BY <1>1, <1>2, <1>3, <1>4, QuietStep

\* Nothing is copied at first.
LEMMA InitCopyInv == Init => CopyInv
<1> SUFFICES ASSUME Init PROVE CopyInv
    OBVIOUS
<1>1. EpochInv
    BY DEF Init, EpochInv
<1>2. \A c \in Copiers : PlaceAt(c)
    BY DEF Init, PlaceAt
<1>3. ASSUME NEW p \in Partitions
      PROVE  kept[p] <= Progress(p) /\ Exact(replay[p], SourceRecords(p, kept[p], Progress(p)))
  <2>1. kept[p] = Start[p] /\ Progress(p) = Start[p] /\ replay[p] = <<>> /\ Start[p] \in Nat
        /\ Records[p] \in SUBSET Nat
    BY CopyAssumption DEF Init, Progress
  <2>2. SourceRecords(p, kept[p], Progress(p)) = {}
    BY <2>1 DEF SourceRecords
  <2>3. Held(replay[p]) = {}
    BY <2>1 DEF Held
  <2> QED
    BY <2>1, <2>2, <2>3 DEF Exact
<1> QED
    BY <1>1, <1>2, <1>3 DEF CopyInv, TopicInv

\* Records between offsets.
LEMMA RecordsBetween ==
    ASSUME NEW p \in Partitions, NEW a \in Nat, NEW b \in Nat, NEW c \in Nat, a <= b, b <= c
    PROVE  /\ SourceRecords(p, a, c) = SourceRecords(p, a, b) \cup SourceRecords(p, b, c)
           /\ \A x \in SourceRecords(p, a, b), y \in SourceRecords(p, b, c) : x < y
           /\ \A x \in SourceRecords(p, a, b) : x < b
           /\ (\A o \in Records[p] : b <= o => c <= o) => SourceRecords(p, b, c) = {}
           /\ SourceRecords(p, b, b) = {}
<1>1. Records[p] \in SUBSET Nat
    BY CopyAssumption
<1> QED
    BY <1>1 DEF SourceRecords

\* initTransactions fences the others and takes nothing back.
LEMMA InitTransactionsKeeps ==
    ASSUME Types, Types', CopyInv, NEW c \in Copiers, InitTransactions(c)
    PROVE  CopyInv'
<1> DEFINE S == {other \in Copiers : myEpoch[other] = epoch}
<1>1. /\ pc[c] = "init" /\ epoch' = epoch + 1 /\ epoch \in Nat
      /\ \A d \in Copiers : batch'[d] = <<>>
      /\ pc'[c] = "offset" /\ part'[c] = 1
      /\ \A d \in Copiers : d # c => pc'[d] = pc[d] /\ part'[d] = part[d] /\ next'[d] = next[d]
      /\ UNCHANGED <<kept, committed>>
    BY DEF InitTransactions, Goes, Types, TypeOK
<1>2. /\ myEpoch'[c] = epoch + 1
      /\ \A d \in Copiers : d # c => myEpoch'[d] = myEpoch[d] /\ myEpoch[d] \in Nat
    BY DEF InitTransactions, Types, TypeOK
<1>3. \A q \in Partitions : Progress(q)' = Progress(q) /\ Progress(q) \in Nat
    BY <1>1, ProgressInRange DEF Progress
<1>4. \A p \in Partitions : \A A : Exact(replay[p], A) => Exact(replay'[p], A)
  <2>1. S \in SUBSET Copiers /\ replay' = AfterAbort(S)
    BY DEF InitTransactions
  <2>2. replay \in [Partitions -> Seq(Slots)] /\ batch \in [Copiers -> Seq(Nat)]
    BY DEF Types, TypeOK, Slots
  <2> HIDE DEF S
  <2> QED
    BY <2>1, <2>2, AbortKeeps
<1>5. ASSUME NEW d \in Copiers, d # c PROVE Fenced(d)'
  <2>1. myEpoch[d] \in 0 .. epoch
    BY <1>5 DEF CopyInv, EpochInv
  <2> QED
    BY <1>1, <1>2, <1>5, <2>1 DEF Fenced
<1>6. EpochInv'
  <2>1. ASSUME NEW d \in Copiers
        PROVE  pc'[d] \notin {"idle", "create", "init"} => myEpoch'[d] > 0
    <3>1. CASE d = c
      BY <1>1, <1>2, <3>1
    <3>2. CASE d # c
      BY <1>1, <1>2, <3>2 DEF CopyInv, EpochInv
    <3> QED
      BY <3>1, <3>2
  <2>2. \A d \in Copiers : myEpoch'[d] \in 0 .. epoch'
    <3> SUFFICES ASSUME NEW d \in Copiers PROVE myEpoch'[d] \in 0 .. epoch'
      OBVIOUS
    <3>1. myEpoch[d] \in 0 .. epoch
      BY DEF CopyInv, EpochInv
    <3> QED
      BY <1>1, <1>2, <3>1
  <2> QED
    BY <1>1, <1>5, <2>1, <2>2 DEF EpochInv
<1>7. ASSUME NEW d \in Copiers PROVE PlaceAt(d)'
  <2>1. CASE d = c
    <3>1. ~ \E q \in Partitions : q < 1
      BY DEF Partitions
    <3> QED
      BY <1>1, <2>1, <3>1 DEF PlaceAt
  <2>2. CASE d # c
    <3>1. \A q \in Partitions : Progress(q) <= Progress(q)'
      BY <1>3
    <3> QED
      BY <1>1, <1>5, <2>2, <3>1, OtherPlaced DEF CopyInv
  <2> QED
    BY <2>1, <2>2
<1>8. TopicInv'
    BY <1>1, <1>3, <1>4 DEF CopyInv, TopicInv
<1> QED
    BY <1>6, <1>7, <1>8 DEF CopyInv

\* The batch and the progress it reaches are committed together.
LEMMA CommitsKeeps ==
    ASSUME Types, Types', CopyInv, NEW c \in Copiers, pc[c] = "commit", ~Fenced(c), Commits(c),
           NEW place \in {"range", "idle"}, Goes(c, place),
           UNCHANGED <<kept, epoch, part, next, myEpoch>>
    PROVE  CopyInv'
<1> DEFINE p == part[c]
<1>1. /\ p \in Partitions /\ pc'[c] = place /\ batch'[c] = <<>>
      /\ \A d \in Copiers : d # c => pc'[d] = pc[d] /\ batch'[d] = batch[d]
    BY DEF Goes, Commits, Types, TypeOK
<1>2. next[c] \in Start[p] .. Target[p] /\ next[c] \in Nat
  <2>1. next[c] \in Start[p] .. Target[p]
    BY DEF Types, TypeOK
  <2> QED
    BY <1>1, <2>1, ProgressInRange
<1>3. /\ Progress(p) <= next[c] /\ Exact(batch[c], SourceRecords(p, Progress(p), next[c]))
      /\ \A q \in Partitions : q < p => Progress(q) = Target[q]
    BY DEF CopyInv, PlaceAt
<1>4. Progress(p)' = next[c] /\ \A q \in Partitions : q # p => Progress(q)' = Progress(q)
  <2>1. committed'[p] = next[c] /\ \A q \in Partitions : q # p => committed'[q] = committed[q]
    BY <1>1 DEF Commits, Types, Shape
  <2>2. next[c] # Unset
    BY <1>2 DEF Unset
  <2> QED
    BY <1>1, <2>1, <2>2 DEF Progress
<1>5. \A q \in Partitions : Progress(q) <= Progress(q)' /\ Progress(q) \in Nat
    BY <1>3, <1>4, ProgressInRange
<1>6. myEpoch[c] = epoch /\ epoch > 0 /\ \A d \in Copiers : d # c => Fenced(d)
    BY DEF CopyInv, EpochInv, Fenced
<1>7. \A d \in Copiers : Fenced(d)' = Fenced(d)
    BY DEF Fenced
<1>8. EpochInv'
  <2>1. ASSUME NEW d \in Copiers
        PROVE  /\ myEpoch'[d] \in 0 .. epoch'
               /\ pc'[d] \notin {"idle", "create", "init"} => myEpoch'[d] > 0
               /\ batch'[d] # <<>> => pc'[d] \in {"batch", "commit"} /\ ~Fenced(d)'
    <3>1. CASE d = c
      BY <1>1, <1>6, <3>1 DEF CopyInv, EpochInv
    <3>2. CASE d # c
      BY <1>1, <1>7, <3>2 DEF CopyInv, EpochInv
    <3> QED
      BY <3>1, <3>2
  <2>2. \A d, e \in Copiers : d # e /\ ~Fenced(d)' /\ ~Fenced(e)' => epoch' = 0
    BY <1>7 DEF CopyInv, EpochInv
  <2> QED
    BY <2>1, <2>2 DEF EpochInv
<1>9. ASSUME NEW d \in Copiers PROVE PlaceAt(d)'
  <2>1. CASE d = c
    <3>1. \A q \in Partitions : q < p => Progress(q)' = Target[q]
      BY <1>1, <1>3, <1>4 DEF Partitions
    <3> QED
      BY <1>1, <1>2, <1>4, <2>1, <3>1 DEF PlaceAt
  <2>2. CASE d # c
    BY <1>1, <1>5, <1>6, <1>7, <2>2, OtherPlaced DEF CopyInv
  <2> QED
    BY <2>1, <2>2
<1>10. ASSUME NEW q \in Partitions
       PROVE  /\ kept'[q] <= Progress(q)'
              /\ Exact(replay'[q], SourceRecords(q, kept'[q], Progress(q)'))
  <2>1. /\ kept[q] <= Progress(q) /\ Exact(replay[q], SourceRecords(q, kept[q], Progress(q)))
        /\ kept[q] \in Nat
    BY ProgressInRange DEF CopyInv, TopicInv
  <2>2. CASE q # p
    <3>1. replay'[q] = replay[q]
      BY <2>2 DEF Commits, Types, TypeOK
    <3> QED
      BY <1>4, <2>1, <2>2, <3>1
  <2>3. CASE q = p
    <3> DEFINE A == SourceRecords(p, kept[p], Progress(p))
               B == SourceRecords(p, Progress(p), next[c])
    <3>1. replay'[p] = replay[p] \o Ended(batch[c])
      BY <1>1 DEF Commits, Types, TypeOK
    <3>2. replay[p] \in Seq(Slots)
      BY <1>1 DEF Types, TypeOK, Slots
    <3>3. batch[c] \in Seq(Slots)
      <4>1. batch[c] \in Seq(Nat) /\ Nat \subseteq Slots
        BY DEF Types, TypeOK, Slots
      <4> QED
        BY <4>1, SeqMonotonic
    <3>4. Ended(batch[c]) \in Seq(Slots) /\ Exact(Ended(batch[c]), B)
      BY <1>3, <3>3, ExactEnded
    <3>5. /\ SourceRecords(p, kept[p], next[c]) = A \cup B
          /\ \A x \in A, y \in B : x < y
      BY <1>1, <1>2, <1>3, <1>5, <2>1, <2>3, RecordsBetween
    <3>6. Exact(replay[p], A)
      BY <2>1, <2>3
    <3> HIDE DEF A, B
    <3>7. Exact(replay'[p], A \cup B)
      BY <3>1, <3>2, <3>4, <3>5, <3>6, ExactConcat
    <3>8. kept[p] <= next[c]
      BY <1>1, <1>2, <1>3, <1>5, <2>1, <2>3
    <3> QED
      BY <1>4, <2>3, <3>5, <3>7, <3>8
  <2> QED
    BY <2>2, <2>3
<1> QED
    BY <1>8, <1>9, <1>10 DEF CopyInv, TopicInv

\* A copier that goes on inside a partition, or to the next one.
LEMMA StepKeeps ==
    ASSUME Types, Types', CopyInv, NEW c \in Copiers, Copier(c)
    PROVE  CopyInv'
<1> DEFINE p == part[c]
<1>1. /\ p \in Partitions /\ next[c] \in Int
      /\ Start[p] \in Nat /\ Target[p] \in Nat
      /\ Progress(p) \in Start[p] .. Target[p] /\ Progress(p) \in Nat
  <2>1. p \in Partitions /\ next[c] \in Int
    BY DEF Types, TypeOK, Shape
  <2> QED
    BY <2>1, ProgressInRange
<1>2. PlaceAt(c) /\ (batch[c] # <<>> => pc[c] \in {"batch", "commit"} /\ ~Fenced(c))
    BY DEF CopyInv, EpochInv
<1>3. CASE Fails(c) /\ UNCHANGED <<kept, committed, epoch>>
    BY <1>3, FailsKeeps
\* What a step that proceeds has to show.
<1>4. ASSUME NEW place \in Places, Proceeds(c, place),
             pc[c] \notin {"batch", "commit"} \/ place \in {"batch", "commit"},
             place \notin {"idle", "create", "init"} => pc[c] \notin {"idle", "create", "init"},
             UNCHANGED <<kept, committed, epoch, myEpoch>>,
             NEW n \in Int, next' = [next EXCEPT ![c] = n] \/ (next' = next /\ n = next[c]),
             NEW r \in Partitions, part' = [part EXCEPT ![c] = r] \/ (part' = part /\ r = p),
             place = "empty" /\ ~Fenced(c) => committed[r] = Unset,
             place = "range" => n <= Progress(r) /\ (~Fenced(c) => n = Progress(r)),
             place \in {"batch", "commit"} /\ ~Fenced(c)
               => /\ Progress(r) <= n /\ Progress(r) < Target[r]
                  /\ Exact(batch[c], SourceRecords(r, Progress(r), n)),
             place \in {"offset", "empty", "range", "batch", "commit"}
               => \A q \in Partitions : q < r => Progress(q) = Target[q],
             place \in {"ends", "verify"} => \A q \in Partitions : Progress(q) = Target[q]
      PROVE  CopyInv'
  <2>1. /\ next'[c] = n /\ part'[c] = r /\ pc'[c] = place /\ batch'[c] = batch[c]
        /\ \A d \in Copiers : d # c => part'[d] = part[d] /\ next'[d] = next[d]
    BY <1>4 DEF Types, TypeOK, Shape, Proceeds, Goes
  <2>2. /\ \A q \in Partitions : Progress(q)' = Progress(q)
        /\ Fenced(c)' = Fenced(c) /\ committed' = committed
    BY <1>4 DEF Progress, Fenced
  <2>3. PlaceAt(c)'
    <3>1. place = "empty" /\ ~Fenced(c)' => committed'[r] = Unset
      BY <1>4, <2>2
    <3>2. place = "range" => n <= Progress(r)' /\ (~Fenced(c)' => n = Progress(r)')
      BY <1>4, <2>2
    <3>3. place \in {"batch", "commit"} /\ ~Fenced(c)'
            => /\ Progress(r)' <= n /\ Progress(r)' < Target[r]
               /\ Exact(batch[c], SourceRecords(r, Progress(r)', n))
      BY <1>4, <2>2
    <3>4. place \in {"offset", "empty", "range", "batch", "commit"}
            => \A q \in Partitions : q < r => Progress(q)' = Target[q]
      BY <1>4, <2>2
    <3>5. place \in {"ends", "verify"} => \A q \in Partitions : Progress(q)' = Target[q]
      BY <1>4, <2>2
    <3> QED
      BY <2>1, <3>1, <3>2, <3>3, <3>4, <3>5 DEF PlaceAt
  <2>4. batch[c] = <<>> \/ place \in {"batch", "commit"}
    BY <1>2, <1>4
  <2> QED
    BY <1>4, <2>1, <2>3, <2>4, ProceedsKeeps
<1>5. CASE VerifyRanges(c)
  <2>1. /\ pc[c] \notin {"batch", "commit"} /\ Proceeds(c, "create") /\ next' = next /\ part' = part
        /\ UNCHANGED <<kept, committed, epoch, myEpoch>> /\ "create" \in Places
    BY <1>5 DEF VerifyRanges, Places
  <2> QED
    BY <1>1, <1>4, <2>1
<1>6. CASE EnsureTopic(c)
  <2>1. /\ pc[c] \notin {"batch", "commit"} /\ Proceeds(c, "init") /\ next' = next /\ part' = part
        /\ UNCHANGED <<kept, committed, epoch, myEpoch>> /\ "init" \in Places
    BY <1>6 DEF EnsureTopic, Places
  <2> QED
    BY <1>1, <1>4, <2>1
<1>7. CASE InitTransactions(c)
    BY <1>7, InitTransactionsKeeps
<1>8. CASE FetchCommitted(c)
  <2>1. /\ pc[c] = "offset" /\ UNCHANGED <<kept, committed, epoch>>
        /\ \A q \in Partitions : q < p => Progress(q) = Target[q]
        /\ "range" \in Places /\ "empty" \in Places
    BY <1>2, <1>8 DEF FetchCommitted, PlaceAt, Places
  <2>2. CASE Fails(c)
    BY <1>3, <2>1, <2>2
  <2>3. CASE /\ committed[p] = Unset /\ Proceeds(c, "range") /\ part' = part /\ myEpoch' = myEpoch
             /\ next' = [next EXCEPT ![c] = Start[p]]
    <3>1. Progress(p) = Start[p] /\ Start[p] \in Int /\ Start[p] <= Progress(p)
      BY <1>1, <2>3 DEF Progress
    <3> QED
      BY <1>1, <1>4, <2>1, <2>3, <3>1
  <2>4. CASE /\ committed[p] = Unset /\ Proceeds(c, "empty")
             /\ part' = part /\ next' = next /\ myEpoch' = myEpoch
    BY <1>1, <1>4, <2>1, <2>4
  <2>5. CASE /\ committed[p] # Unset /\ Proceeds(c, "range") /\ part' = part /\ myEpoch' = myEpoch
             /\ next' = [next EXCEPT ![c] = committed[p]]
    <3>1. Progress(p) = committed[p] /\ committed[p] \in Int /\ committed[p] <= Progress(p)
      BY <1>1, <2>5 DEF Progress
    <3> QED
      BY <1>1, <1>4, <2>1, <2>5, <3>1
  <2> QED
    BY <1>8, <2>2, <2>3, <2>4, <2>5 DEF FetchCommitted
<1>9. CASE RequireEmpty(c)
  <2>1. /\ pc[c] = "empty" /\ UNCHANGED <<kept, committed, epoch>>
        /\ \A q \in Partitions : q < p => Progress(q) = Target[q]
        /\ ~Fenced(c) => Progress(p) = Start[p]
        /\ "range" \in Places
    BY <1>2, <1>9 DEF RequireEmpty, PlaceAt, Progress, Places
  <2>2. CASE Fails(c)
    BY <1>3, <2>1, <2>2
  <2>3. CASE /\ Proceeds(c, "range") /\ part' = part /\ myEpoch' = myEpoch
             /\ next' = [next EXCEPT ![c] = Start[p]]
    <3>1. Start[p] <= Progress(p) /\ Start[p] \in Int
      BY <1>1
    <3> QED
      BY <1>1, <1>4, <2>1, <2>3, <3>1
  <2> QED
    BY <1>9, <2>2, <2>3 DEF RequireEmpty
<1>10. CASE BeginBatch(c)
  <2>1. /\ pc[c] = "range" /\ UNCHANGED <<kept, committed, epoch>>
        /\ \A q \in Partitions : q < p => Progress(q) = Target[q]
        /\ next[c] <= Progress(p) /\ (~Fenced(c) => next[c] = Progress(p))
        /\ batch[c] = <<>> /\ "batch" \in Places /\ "offset" \in Places /\ "ends" \in Places
    BY <1>2, <1>10 DEF BeginBatch, PlaceAt, Places
  <2>2. CASE Fails(c)
    BY <1>3, <2>1, <2>2
  <2>3. CASE /\ next[c] < Target[p] /\ Proceeds(c, "batch")
             /\ UNCHANGED <<part, next, created, myEpoch, ends>>
    <3>1. Exact(batch[c], {})
      BY <2>1 DEF Exact, Held
    <3>2. SourceRecords(p, Progress(p), Progress(p)) = {}
      BY <1>1, RecordsBetween
    <3>3. ~Fenced(c) => /\ Progress(p) <= next[c] /\ Progress(p) < Target[p]
                        /\ Exact(batch[c], SourceRecords(p, Progress(p), next[c]))
      BY <1>1, <2>1, <2>3, <3>1, <3>2
    <3>4. next' = next /\ part' = part /\ myEpoch' = myEpoch
      BY <2>3
    <3> QED
      BY <1>1, <1>4, <2>1, <2>3, <3>3, <3>4
  <2>4. next[c] = Target[p] => Progress(p) = Target[p]
    BY <1>1, <2>1
  <2>5. CASE /\ next[c] = Target[p] /\ p < NumPartitions /\ part' = [part EXCEPT ![c] = @ + 1]
             /\ Proceeds(c, "offset") /\ next' = next /\ myEpoch' = myEpoch
    <3>1. p \in 1 .. NumPartitions /\ NumPartitions \in Nat
      BY <1>1, CopyAssumption DEF Partitions
    <3>2. p + 1 \in Partitions /\ part' = [part EXCEPT ![c] = p + 1]
      BY <2>5, <3>1 DEF Partitions
    <3>3. \A q \in Partitions : q < p + 1 => Progress(q) = Target[q]
      <4> SUFFICES ASSUME NEW q \in Partitions, q < p + 1 PROVE Progress(q) = Target[q]
        OBVIOUS
      <4>1. q < p \/ q = p
        BY <3>1 DEF Partitions
      <4> QED
        BY <2>1, <2>4, <2>5, <4>1
    <3> QED
      BY <1>1, <1>4, <2>1, <2>5, <3>2, <3>3
  <2>6. CASE /\ next[c] = Target[p] /\ p = NumPartitions /\ Proceeds(c, "ends")
             /\ part' = part /\ next' = next /\ myEpoch' = myEpoch
    <3>1. \A q \in Partitions : Progress(q) = Target[q]
      <4> SUFFICES ASSUME NEW q \in Partitions PROVE Progress(q) = Target[q]
        OBVIOUS
      <4>1. q < p \/ q = p
        BY <2>6, CopyAssumption DEF Partitions
      <4> QED
        BY <2>1, <2>4, <2>6, <4>1
    <3> QED
      BY <1>1, <1>4, <2>1, <2>6, <3>1
  <2> QED
    BY <1>10, <2>2, <2>3, <2>5, <2>6 DEF BeginBatch
<1>11. CASE CopyRecord(c)
  <2>1. /\ pc[c] = "batch" /\ UNCHANGED <<kept, committed, epoch>>
        /\ \A q \in Partitions : q < p => Progress(q) = Target[q]
        /\ ~Fenced(c) => /\ Progress(p) <= next[c] /\ Progress(p) < Target[p]
                         /\ Exact(batch[c], SourceRecords(p, Progress(p), next[c]))
        /\ "commit" \in Places
    BY <1>2, <1>11 DEF CopyRecord, PlaceAt, Places
  <2>2. next[c] \in Start[p] .. Target[p] /\ next[c] \in Nat /\ low[p] \in Nat
    <3>1. next[c] \in Start[p] .. Target[p] /\ low[p] \in Nat
      BY <1>1, <2>1 DEF Types, TypeOK
    <3> QED
      BY <1>1, <3>1
  <2>3. CASE Fails(c)
    BY <1>3, <2>1, <2>3
  <2>4. ASSUME NEW received \in Received(p, next[c]), Contiguous(p, next[c], received),
               AtTarget(p, received), Proceeds(c, "commit"),
               part' = part, myEpoch' = myEpoch, next' = [next EXCEPT ![c] = Target[p]]
        PROVE  CopyInv'
    <3>1. received \in Nat /\ \A o \in Records[p] : next[c] <= o => received <= o
      BY <1>1, <2>2, <2>4, ReceivedIs
    <3>2. \A o \in Records[p] : next[c] <= o => Target[p] <= o
      <4>1. Records[p] \in SUBSET Nat
        BY <1>1, CopyAssumption
      <4> QED
        BY <1>1, <2>4, <3>1, <4>1 DEF AtTarget
    <3>3. next[c] <= Target[p]
      BY <1>1, <2>2
    <3>4. ASSUME ~Fenced(c)
          PROVE  SourceRecords(p, Progress(p), Target[p]) = SourceRecords(p, Progress(p), next[c])
      <4>1. Progress(p) <= next[c]
        BY <2>1, <3>4
      <4>2. SourceRecords(p, Progress(p), Target[p])
              = SourceRecords(p, Progress(p), next[c]) \cup SourceRecords(p, next[c], Target[p])
        BY <1>1, <2>2, <3>3, <4>1, RecordsBetween
      <4>3. SourceRecords(p, next[c], Target[p]) = {}
        BY <1>1, <2>2, <3>2, <3>3, RecordsBetween
      <4> QED
        BY <4>2, <4>3
    <3>5. ~Fenced(c) => /\ Progress(p) <= Target[p] /\ Progress(p) < Target[p]
                        /\ Exact(batch[c], SourceRecords(p, Progress(p), Target[p]))
      BY <1>1, <2>1, <3>4
    <3>6. Target[p] \in Int
      BY <1>1
    <3> QED
      BY <1>1, <1>4, <2>1, <2>4, <3>5, <3>6
  <2>5. ASSUME NEW received \in Received(p, next[c]), Contiguous(p, next[c], received),
               ~AtTarget(p, received), ~Fenced(c), NEW place \in {"batch", "commit"},
               next' = [next EXCEPT ![c] = received + 1],
               batch' = [batch EXCEPT ![c] = Append(@, received)], Goes(c, place),
               UNCHANGED <<replay, part, created, myEpoch, ends>>
        PROVE  CopyInv'
    <3>1. /\ received \in Nat /\ next[c] <= received
          /\ received \in Records[p] \/ received = EndOfPartition(p)
          /\ \A o \in Records[p] : next[c] <= o => received <= o
      BY <1>1, <2>2, <2>5, ReceivedIs
    <3>2. received < Target[p] /\ received \in Records[p]
      BY <1>1, <2>5, <3>1 DEF AtTarget, EndOfPartition
    <3>3. SourceRecords(p, Progress(p), received + 1)
            = SourceRecords(p, Progress(p), next[c]) \cup {received}
      <4>1. Records[p] \in SUBSET Nat
        BY <1>1, CopyAssumption
      <4>2. Progress(p) <= next[c]
        BY <2>1, <2>5
      <4> QED
        BY <1>1, <2>2, <3>1, <3>2, <4>1, <4>2 DEF SourceRecords
    <3>4. Exact(Append(batch[c], received), SourceRecords(p, Progress(p), received + 1))
      <4>1. batch[c] \in Seq(Slots) /\ received \in Slots /\ received # Hole
        <5>1. batch[c] \in Seq(Nat) /\ Nat \subseteq Slots
          BY DEF Types, TypeOK, Slots
        <5> QED
          BY <3>1, <5>1, SeqMonotonic DEF Slots, Hole
      <4>2. \A a \in SourceRecords(p, Progress(p), next[c]) : a < received
        <5>1. Records[p] \in SUBSET Nat
          BY <1>1, CopyAssumption
        <5> QED
          BY <2>2, <3>1, <5>1 DEF SourceRecords
      <4>3. Exact(batch[c], SourceRecords(p, Progress(p), next[c]))
        BY <2>1, <2>5
      <4> QED
        BY <3>3, <4>1, <4>2, <4>3, ExactAppend
    <3>5. /\ batch'[c] = Append(batch[c], received) /\ next'[c] = received + 1
          /\ part'[c] = p /\ pc'[c] = place
          /\ \A d \in Copiers : d # c => /\ pc'[d] = pc[d] /\ part'[d] = part[d]
                                         /\ next'[d] = next[d] /\ batch'[d] = batch[d]
      BY <2>5 DEF Types, TypeOK, Shape, Goes
    <3>6. \A q \in Partitions : Progress(q)' = Progress(q)
      BY <2>1 DEF Progress
    <3>7. Progress(p) <= received + 1 /\ Progress(p) < Target[p]
      BY <1>1, <2>1, <2>2, <2>5, <3>1
    <3>8. PlaceAt(c)'
      <4>1. \A q \in Partitions : q < p => Progress(q)' = Target[q]
        BY <2>1, <3>6
      <4>2. /\ Progress(p)' <= received + 1 /\ Progress(p)' < Target[p]
            /\ Exact(Append(batch[c], received), SourceRecords(p, Progress(p)', received + 1))
        <5>1. Progress(p)' = Progress(p)
          BY <2>1, <3>5 DEF Progress
        <5>2. Progress(p)' <= received + 1 /\ Progress(p)' < Target[p]
          BY <3>7, <5>1
        <5>3. Exact(Append(batch[c], received), SourceRecords(p, Progress(p)', received + 1))
          BY <3>4, <5>1, Zenon
        <5> QED
          BY <5>2, <5>3
      <4> QED
        BY <2>5, <3>5, <4>1, <4>2 DEF PlaceAt
    <3>9. \A q \in Partitions : \A A : Exact(replay[q], A) => Exact(replay'[q], A)
      BY <2>5
    <3>10. myEpoch[c] > 0
      BY <2>1 DEF CopyInv, EpochInv
    <3> QED
      BY <2>1, <2>5, <3>5, <3>8, <3>9, <3>10, QuietStep
  <2> QED
    BY <1>11, <2>3, <2>4, <2>5 DEF CopyRecord
<1>12. CASE CommitBatch(c)
  <2>1. /\ pc[c] = "commit" /\ UNCHANGED <<kept, epoch, part, next, myEpoch>>
    BY <1>12 DEF CommitBatch
  <2>2. CASE Fails(c) /\ UNCHANGED committed
    BY <1>3, <2>1, <2>2
  <2>3. CASE ~Fenced(c) /\ Commits(c) /\ (Goes(c, "range") \/ Goes(c, "idle"))
    BY <2>1, <2>3, CommitsKeeps
  <2> QED
    BY <1>12, <2>2, <2>3 DEF CommitBatch
<1>13. CASE ReportEnds(c)
  <2>1. /\ pc[c] = "ends" /\ UNCHANGED <<kept, committed, epoch>>
        /\ \A q \in Partitions : Progress(q) = Target[q]
        /\ "verify" \in Places
    BY <1>2, <1>13 DEF ReportEnds, PlaceAt, Places
  <2>2. CASE Fails(c)
    BY <1>3, <2>1, <2>2
  <2>3. CASE Proceeds(c, "verify") /\ part' = part /\ next' = next /\ myEpoch' = myEpoch
    BY <1>1, <1>4, <2>1, <2>3
  <2> QED
    BY <1>13, <2>2, <2>3 DEF ReportEnds
<1>14. CASE VerifyRetained(c)
  <2>1. /\ pc[c] = "verify" /\ UNCHANGED <<kept, committed, epoch>> /\ "done" \in Places
    BY <1>14 DEF VerifyRetained, Places
  <2>2. CASE Fails(c)
    BY <1>3, <2>1, <2>2
  <2>3. CASE Proceeds(c, "done") /\ part' = part /\ next' = next /\ myEpoch' = myEpoch
    BY <1>1, <1>4, <2>1, <2>3
  <2> QED
    BY <1>14, <2>2, <2>3 DEF VerifyRetained
<1>15. CASE Fail(c)
    BY <1>3, <1>15 DEF Fail
<1> QED
    BY <1>5, <1>6, <1>7, <1>8, <1>9, <1>10, <1>11, <1>12, <1>13, <1>14, <1>15 DEF Copier

\* Nothing the invariant is about has changed.
LEMMA CopyInvRests ==
    ASSUME CopyInv, UNCHANGED <<committed, kept, replay, epoch, copierVars>>
    PROVE  CopyInv'
<1>1. /\ \A c \in Copiers : Fenced(c)' = Fenced(c)
      /\ \A p \in Partitions : Progress(p)' = Progress(p)
    BY DEF Fenced, Progress, copierVars
<1>2. EpochInv'
    BY <1>1 DEF CopyInv, EpochInv, copierVars
<1>3. \A c \in Copiers : PlaceAt(c)'
    BY DEF CopyInv, PlaceAt, Fenced, Progress, copierVars
<1>4. TopicInv'
    BY <1>1 DEF CopyInv, TopicInv
<1> QED
    BY <1>2, <1>3, <1>4 DEF CopyInv

\* Kafka trims and deletes, but keeps the progress.
LEMMA KafkaKeeps ==
    ASSUME "expiry" \notin Faults, Types, CopyInv, Kafka \/ Idle \/ UNCHANGED vars
    PROVE  CopyInv'
<1>1. CASE \E p \in Partitions : TrimSource(p) \/ TrimReplay(p)
  <2>1. UNCHANGED <<committed, kept, replay, epoch, copierVars>>
    BY <1>1 DEF TrimSource, TrimReplay
  <2> QED
    BY <2>1, CopyInvRests
<1>2. CASE DeleteTopic
  <2>1. UNCHANGED <<committed, epoch, copierVars>>
    BY <1>2 DEF DeleteTopic
  <2>2. /\ \A c \in Copiers : Fenced(c)' = Fenced(c)
        /\ \A p \in Partitions : Progress(p)' = Progress(p)
    BY <2>1 DEF Fenced, Progress, copierVars
  <2>3. EpochInv'
    BY <2>1, <2>2 DEF CopyInv, EpochInv, copierVars
  <2>4. \A c \in Copiers : PlaceAt(c)'
    BY <2>1 DEF CopyInv, PlaceAt, Fenced, Progress, copierVars
  <2>5. ASSUME NEW p \in Partitions
        PROVE  /\ kept'[p] <= Progress(p)'
               /\ Exact(replay'[p], SourceRecords(p, kept'[p], Progress(p)'))
    <3>1. /\ kept'[p] = Progress(p) /\ replay'[p] = <<>> /\ Progress(p)' = Progress(p)
          /\ Progress(p) \in Nat
      BY <1>2, <2>2, ProgressInRange DEF DeleteTopic
    <3>2. SourceRecords(p, kept'[p], Progress(p)') = {}
      BY <3>1, RecordsBetween
    <3>3. Exact(replay'[p], {})
      BY <3>1 DEF Exact, Held
    <3> QED
      BY <3>1, <3>2, <3>3
  <2> QED
    BY <2>3, <2>4, <2>5 DEF CopyInv, TopicInv
<1>3. CASE Idle \/ UNCHANGED vars
    BY <1>3, CopyInvRests DEF Idle, vars, kafkaVars
<1> QED
    BY <1>1, <1>2, <1>3 DEF Kafka, ExpireProgress

\* The invariant holds while the progress does not expire.
LEMMA CopyInvHolds ==
    ASSUME "expiry" \notin Faults
    PROVE  Spec => [](Types /\ CopyInv)
<1>1. Init => Types /\ CopyInv
    BY InitTyped, InitCopyInv
<1>2. Types /\ CopyInv /\ [Next]_vars => (Types /\ CopyInv)'
  <2> SUFFICES ASSUME Types, CopyInv, [Next]_vars PROVE (Types /\ CopyInv)'
    OBVIOUS
  <2>1. CASE \E c \in Copiers : Copier(c)
    BY <2>1, StepTyped, StepKeeps
  <2>2. CASE Kafka \/ Idle \/ UNCHANGED vars
    BY <2>2, KafkaTyped, KafkaKeeps
  <2> QED
    BY <2>1, <2>2 DEF Next
<1> QED
    BY <1>1, <1>2, PTL DEF Spec

\* The replay topic always holds exactly what the group's progress says was copied,
\* however often copiers fail, die, overlap and fence one another, and whatever is
\* trimmed or deleted, as long as Kafka does not forget the progress.
THEOREM CopyIsExact ==
    ASSUME "expiry" \notin Faults
    PROVE  Spec => []CopiedExactly
<1>1. CopyInv => CopiedExactly
    BY DEF CopyInv, TopicInv, CopiedExactly, Shows, Exact, Held
<1> QED
    BY <1>1, CopyInvHolds, PTL

-----------------------------------------------------------------------------
(* Success, while the replay topic is not deleted either.                    *)

\* No transaction writes to a topic that is complete.
LEMMA CompleteRests ==
    ASSUME Types, CopyInv, \A p \in Partitions : Progress(p) = Target[p],
           NEW c \in Copiers, Copier(c)
    PROVE  replay' = replay
<1>1. ASSUME NEW d \in Copiers PROVE batch[d] = <<>> /\ ~ (pc[d] = "commit" /\ ~Fenced(d))
  <2>1. part[d] \in Partitions
    BY DEF Types, TypeOK
  <2>2. Target[part[d]] \in Nat
    BY <2>1, ProgressInRange
  <2>3. PlaceAt(d) /\ (batch[d] # <<>> => pc[d] \in {"batch", "commit"} /\ ~Fenced(d))
    BY DEF CopyInv, EpochInv
  <2> QED
    BY <2>1, <2>2, <2>3 DEF PlaceAt
<1>2. ASSUME NEW S \in SUBSET Copiers PROVE AfterAbort(S) = replay
  <2>1. replay \in [Partitions -> Seq(Slots)]
    BY DEF Types, TypeOK, Slots
  <2> QED
    BY <1>1, <2>1 DEF AfterAbort
<1>3. \A d \in Copiers : Fails(d) => replay' = replay
    BY <1>2 DEF Fails
<1>4. {other \in Copiers : myEpoch[other] = epoch} \in SUBSET Copiers
    OBVIOUS
<1>5. CASE InitTransactions(c)
    BY <1>2, <1>4, <1>5 DEF InitTransactions
<1>6. CASE CommitBatch(c)
    BY <1>1, <1>3, <1>6 DEF CommitBatch
<1>7. CASE VerifyRanges(c) \/ EnsureTopic(c)
    BY <1>7 DEF VerifyRanges, EnsureTopic, Proceeds
<1>8. CASE FetchCommitted(c) \/ RequireEmpty(c)
    BY <1>3, <1>8 DEF FetchCommitted, RequireEmpty, Proceeds
<1>9. CASE BeginBatch(c) \/ CopyRecord(c)
    BY <1>3, <1>9 DEF BeginBatch, CopyRecord, Proceeds
<1>10. CASE ReportEnds(c) \/ VerifyRetained(c) \/ Fail(c)
    BY <1>3, <1>10 DEF ReportEnds, VerifyRetained, Fail, Proceeds
<1> QED
    BY <1>5, <1>6, <1>7, <1>8, <1>9, <1>10 DEF Copier

\* What a copier's step does to the reports of the ends.
LEMMA StepEnds ==
    ASSUME Types, NEW c \in Copiers, Copier(c)
    PROVE  /\ UNCHANGED <<kept, replayLow>>
           /\ \A d \in Copiers : d # c => pc'[d] = pc[d] /\ ends'[d] = ends[d]
           /\ ReportEnds(c) \/ ends' = ends
           /\ pc'[c] = "verify" => ReportEnds(c) /\ Proceeds(c, "verify")
           /\ pc[c] = "verify" /\ pc'[c] = "done"
                => /\ VerifyRetained(c) /\ Proceeds(c, "done")
                   /\ \A p \in Partitions : replayLow[p] = 0
<1>1. pc \in [Copiers -> Places] /\ ends \in [Copiers -> [Partitions -> Nat]]
    BY DEF Types, TypeOK
<1>2. \A place : Goes(c, place) => pc'[c] = place /\ \A d \in Copiers : d # c => pc'[d] = pc[d]
    BY <1>1 DEF Goes
<1>3. Fails(c) => /\ ends' = ends /\ pc'[c] = "idle"
                  /\ \A d \in Copiers : d # c => pc'[d] = pc[d]
    BY <1>2 DEF Fails
<1>4. CASE VerifyRanges(c)
    BY <1>2, <1>4 DEF VerifyRanges, Proceeds
<1>5. CASE EnsureTopic(c)
    BY <1>2, <1>5 DEF EnsureTopic, Proceeds
<1>6. CASE InitTransactions(c)
    BY <1>2, <1>6 DEF InitTransactions
<1>7. CASE FetchCommitted(c)
    BY <1>2, <1>3, <1>7 DEF FetchCommitted, Proceeds
<1>8. CASE RequireEmpty(c)
    BY <1>2, <1>3, <1>8 DEF RequireEmpty, Proceeds
<1>9. CASE BeginBatch(c)
    BY <1>2, <1>3, <1>9 DEF BeginBatch, Proceeds
<1>10. CASE CopyRecord(c)
  <2>1. pc[c] = "batch" /\ UNCHANGED <<kept, replayLow>>
    BY <1>10 DEF CopyRecord
  <2>2. \/ Fails(c)
        \/ ends' = ends /\ (Goes(c, "batch") \/ Goes(c, "commit"))
    BY <1>10 DEF CopyRecord, Proceeds
  <2> QED
    BY <1>2, <1>3, <2>1, <2>2
<1>11. CASE CommitBatch(c)
    BY <1>2, <1>3, <1>11 DEF CommitBatch
<1>12. CASE ReportEnds(c)
  <2>1. pc[c] = "ends" /\ UNCHANGED <<kept, replayLow>>
    BY <1>12 DEF ReportEnds
  <2>2. Fails(c) \/ Proceeds(c, "verify")
    BY <1>12 DEF ReportEnds
  <2>3. \A d \in Copiers : d # c => ends'[d] = ends[d]
    BY <1>1, <1>3, <1>12 DEF ReportEnds
  <2> QED
    BY <1>2, <1>3, <1>12, <2>1, <2>2, <2>3 DEF Proceeds
<1>13. CASE VerifyRetained(c)
  <2>1. pc[c] = "verify" /\ UNCHANGED <<kept, replayLow>>
    BY <1>13 DEF VerifyRetained
  <2>2. \/ Fails(c)
        \/ Proceeds(c, "done") /\ ends' = ends /\ \A p \in Partitions : replayLow[p] = 0
    BY <1>13 DEF VerifyRetained
  <2> QED
    BY <1>2, <1>3, <1>13, <2>1, <2>2 DEF Proceeds
<1>14. CASE Fail(c)
    BY <1>3, <1>14 DEF Fail
<1> QED
    BY <1>4, <1>5, <1>6, <1>7, <1>8, <1>9, <1>10, <1>11, <1>12, <1>13, <1>14 DEF Copier

\* Reported ends stay those of the topic.
LEMMA EndsNext ==
    ASSUME "expiry" \notin Faults, "deletion" \notin Faults, Types, CopyInv, EndsInv, [Next]_vars
    PROVE  EndsInv'
<1>1. kept' = Start
  <2>1. kept' = kept
    <3>1. CASE \E c \in Copiers : Copier(c)
      BY <3>1, StepEnds
    <3>2. CASE Kafka
      BY <3>2 DEF Kafka, TrimSource, TrimReplay, ExpireProgress, DeleteTopic
    <3>3. CASE Idle \/ UNCHANGED vars
      BY <3>3 DEF Idle, vars, kafkaVars
    <3> QED
      BY <3>1, <3>2, <3>3 DEF Next
  <2> QED
    BY <2>1 DEF EndsInv
<1>2. ASSUME NEW d \in Copiers, NEW p \in Partitions, pc'[d] = "verify", replayLow'[p] = 0
      PROVE  ends'[d][p] = IF Visible(p)' = {} THEN 0 ELSE Max(Visible(p)')
  <2>1. CASE \E c \in Copiers : Copier(c)
    <3>1. PICK c \in Copiers : Copier(c)
      BY <2>1
    <3>2. pc[d] \in {"ends", "verify"}
      BY <1>2, <3>1, StepEnds DEF ReportEnds
    <3>3. \A q \in Partitions : Progress(q) = Target[q]
      BY <3>2 DEF CopyInv, PlaceAt
    <3>4. replay' = replay /\ replayLow' = replayLow
      BY <3>1, <3>3, CompleteRests, StepEnds
    <3>5. Visible(p)' = Visible(p)
      BY <3>4 DEF Visible
    <3>6. CASE d = c
      <4>1. ReportEnds(c) /\ Proceeds(c, "verify")
        BY <1>2, <3>1, <3>6, StepEnds
      <4>2. ~ Fails(c)
        BY <1>2, <3>6 DEF Fails, Goes, Types, TypeOK
      <4>3. ends'[c] = [q \in Partitions |-> IF Visible(q) = {} THEN 0 ELSE Max(Visible(q))]
        BY <4>1, <4>2 DEF ReportEnds, Types, TypeOK
      <4> QED
        BY <3>5, <3>6, <4>3
    <3>7. CASE d # c
      <4>1. pc[d] = "verify" /\ ends'[d] = ends[d] /\ replayLow[p] = 0
        BY <1>2, <3>1, <3>4, <3>7, StepEnds
      <4> QED
        BY <3>5, <4>1 DEF EndsInv
    <3> QED
      BY <3>6, <3>7
  <2>2. CASE \E q \in Partitions : TrimReplay(q)
    <3>1. PICK q \in Partitions : TrimReplay(q)
      BY <2>2
    <3>2. UNCHANGED <<replay, pc, ends>> /\ replayLow' = [replayLow EXCEPT ![q] = @ + 1]
      BY <3>1 DEF TrimReplay, copierVars
    <3>3. replayLow \in [Partitions -> Nat]
      BY DEF Types, TypeOK
    <3>4. replayLow'[p] = replayLow[p]
      BY <1>2, <3>2, <3>3
    <3>5. Visible(p)' = Visible(p)
      BY <3>2, <3>4 DEF Visible
    <3> QED
      BY <1>2, <3>2, <3>4, <3>5 DEF EndsInv
  <2>3. CASE UNCHANGED <<replay, replayLow, pc, ends>>
    <3>1. Visible(p)' = Visible(p)
      BY <2>3 DEF Visible
    <3> QED
      BY <1>2, <2>3, <3>1 DEF EndsInv
  <2>4. CASE (\E q \in Partitions : TrimSource(q)) \/ Idle \/ UNCHANGED vars
    BY <2>3, <2>4 DEF TrimSource, Idle, vars, kafkaVars, copierVars
  <2> QED
    BY <2>1, <2>2, <2>4 DEF Next, Kafka, ExpireProgress, DeleteTopic
<1> QED
    BY <1>1, <1>2 DEF EndsInv

\* What was reported is complete when it is found retained.
LEMMA SuccessStep ==
    ASSUME Types, CopyInv, CopyInv', EndsInv, EndsInv', [Next]_vars,
           NEW c \in Copiers, pc[c] = "verify", pc'[c] = "done"
    PROVE  CompleteFor(c)'
<1>1. PICK d \in Copiers : Copier(d)
  <2>1. pc' # pc
    OBVIOUS
  <2> QED
    BY <2>1
       DEF Next, Kafka, TrimSource, TrimReplay, ExpireProgress, DeleteTopic, Idle, vars, copierVars
<1>2. Copier(c)
    BY <1>1, StepEnds
<1>3. /\ VerifyRetained(c) /\ Proceeds(c, "done") /\ UNCHANGED <<kept, replayLow>>
      /\ ReportEnds(c) \/ ends' = ends
      /\ \A p \in Partitions : replayLow[p] = 0
    BY <1>2, StepEnds
<1>4. UNCHANGED <<replay, committed, ends>>
    BY <1>3 DEF VerifyRetained, ReportEnds, Proceeds
<1>5. ASSUME NEW p \in Partitions
      PROVE  /\ Shows(p, SourceRecords(p, Start[p], Target[p]))'
             /\ replayLow'[p] = 0
             /\ ends'[c][p] = IF Visible(p)' = {} THEN 0 ELSE Max(Visible(p)')
  <2>1. Progress(p) = Target[p] /\ kept[p] = Start[p]
    BY DEF CopyInv, PlaceAt, EndsInv
  <2>2. Exact(replay[p], SourceRecords(p, Start[p], Target[p]))
    BY <2>1 DEF CopyInv, TopicInv
  <2>3. Shows(p, SourceRecords(p, Start[p], Target[p]))'
    BY <1>4, <2>2 DEF Shows, Exact, Held, SourceRecords
  <2>4. Visible(p)' = Visible(p)
    BY <1>3, <1>4 DEF Visible
  <2>5. ends[c][p] = IF Visible(p) = {} THEN 0 ELSE Max(Visible(p))
    BY <1>3 DEF EndsInv
  <2> QED
    BY <1>3, <1>4, <2>3, <2>4, <2>5
<1> QED
    BY <1>5 DEF CompleteFor

\* A copy that reports success leaves the complete range, once and in order, with
\* the end offsets the replay connector must reach, whatever copiers fail, die or
\* overlap and whichever topic is trimmed, as long as neither the group's progress
\* nor the replay topic is deleted.
THEOREM SuccessComplete ==
    ASSUME "expiry" \notin Faults, "deletion" \notin Faults
    PROVE  Spec => SuccessIsComplete
<1>1. Init => EndsInv
  <2> SUFFICES ASSUME Init PROVE EndsInv
    OBVIOUS
  <2>1. kept = Start /\ \A c \in Copiers : pc[c] = "idle"
    BY DEF Init
  <2> QED
    BY <2>1 DEF EndsInv
<1>2. Types /\ CopyInv /\ EndsInv /\ [Next]_vars => EndsInv'
    BY EndsNext
<1>3. /\ Types /\ CopyInv /\ CopyInv' /\ EndsInv /\ EndsInv' /\ [Next]_vars
      => [\A c \in Copiers : pc[c] = "verify" /\ pc'[c] = "done" => CompleteFor(c)']_vars
    BY SuccessStep
<1> QED
    BY <1>1, <1>2, <1>3, CopyInvHolds, PTL DEF Spec, SuccessIsComplete


-----------------------------------------------------------------------------
(* Success of a controller that is alone, whether or not the progress        *)
(* expires. Progress says nothing of the replay topic any more, so the       *)
(* invariant follows the log itself, and only while nothing was removed from *)
(* its beginning: a copy that started over by mistake is found out at the    *)
(* end, because retention is what emptied the topic (VerifyRetained).        *)

\* The log shows the range up to an offset.
Upto(p, offset) == Exact(replay[p], SourceRecords(p, Start[p], offset))

Resting == {"idle", "done"}
InPartition == {"offset", "empty", "range", "batch", "commit"}

\* One controller works at a time, with the current epoch, on a topic that exists.
AloneInv ==
    /\ \A c, d \in Copiers : c # d => pc[c] \in Resting \/ pc[d] \in Resting
    /\ \A c \in Copiers :
          /\ pc[c] \notin {"idle", "create"} => exists
          /\ pc[c] \notin Resting \cup {"create", "init"} => ~Fenced(c)
          /\ batch[c] # <<>> => pc[c] \in {"batch", "commit"}

\* What the log holds, as the group's progress says if it says anything.
LogInv ==
    \A p \in Partitions :
        /\ ~exists => Upto(p, Start[p])
        /\ replayLow[p] = 0 /\ committed[p] # Unset => Upto(p, committed[p])

\* What a copier knows of the log: a topic it created is empty where it has not been;
\* what is behind it is complete, what is ahead follows its batch.
WorkAt(c) ==
    LET p == part[c]
    IN  /\ created[c] /\ pc[c] = "init" => \A q \in Partitions : Upto(q, Start[q])
        /\ created[c] /\ pc[c] \in InPartition
             => \A q \in Partitions : q > p \/ (q = p /\ pc[c] = "offset") => Upto(q, Start[q])
        /\ pc[c] = "range" /\ replayLow[p] = 0 => Upto(p, next[c])
        /\ pc[c] \in {"batch", "commit"} /\ replayLow[p] = 0
             => \E from \in Start[p] .. next[c] :
                   Upto(p, from) /\ Exact(batch[c], SourceRecords(p, from, next[c]))
        /\ pc[c] \in InPartition
             => \A q \in Partitions : q < p /\ replayLow[q] = 0 => Upto(q, Target[q])
        /\ pc[c] \in {"ends", "verify"}
             => \A q \in Partitions : replayLow[q] = 0 => Upto(q, Target[q])
        /\ pc[c] = "verify"
             => \A q \in Partitions :
                   replayLow[q] = 0
                     => ends[c][q] = IF Visible(q) = {} THEN 0 ELSE Max(Visible(q))

WorkInv == LogInv /\ \A c \in Copiers : WorkAt(c)

\* A copier that makes a step does it alone.
LEMMA AloneStep ==
    ASSUME "zombie" \notin Faults, Types, AloneInv, NEW c \in Copiers, Copier(c)
    PROVE  AloneInv' /\ \A d \in Copiers : d # c => pc[d] \in Resting /\ pc'[d] = pc[d]
<1>1. \A d \in Copiers : d # c => pc[d] \in Resting
  <2>1. CASE VerifyRanges(c)
    BY <2>1 DEF VerifyRanges, Resting
  <2>2. CASE ~VerifyRanges(c)
    <3>1. pc[c] \notin Resting
      BY <2>2 DEF Copier, EnsureTopic, InitTransactions, FetchCommitted, RequireEmpty, BeginBatch,
         CopyRecord, CommitBatch, ReportEnds, VerifyRetained, Fail, Resting
    <3> QED
      BY <3>1 DEF AloneInv
  <2> QED
    BY <2>1, <2>2
<1>2. pc \in [Copiers -> Places] /\ batch \in [Copiers -> Seq(Nat)]
    BY DEF Types, TypeOK
<1>3. \A place : Goes(c, place) => pc'[c] = place /\ \A d \in Copiers : d # c => pc'[d] = pc[d]
    BY <1>2 DEF Goes
<1> DEFINE Others == \A d \in Copiers :
                        d # c => pc'[d] = pc[d] /\ (batch[d] = <<>> => batch'[d] = <<>>)
           Place == /\ pc'[c] \notin {"idle", "create"} => exists'
                    /\ pc'[c] \notin Resting \cup {"create", "init"} => ~Fenced(c)'
                    /\ batch'[c] # <<>> => pc'[c] \in {"batch", "commit"}
<1>4. ASSUME Others, Place, exists => exists'
      PROVE  AloneInv' /\ \A d \in Copiers : d # c => pc[d] \in Resting /\ pc'[d] = pc[d]
  <2>1. ASSUME NEW d \in Copiers, d # c
        PROVE  /\ pc'[d] \in Resting
               /\ pc'[d] \notin {"idle", "create"} => exists'
               /\ batch'[d] = <<>>
    BY <1>1, <1>4, <2>1 DEF AloneInv, Resting
  <2>2. \A d, e \in Copiers : d # e => pc'[d] \in Resting \/ pc'[e] \in Resting
    BY <2>1
  <2> QED
    BY <1>1, <1>4, <2>1, <2>2 DEF AloneInv
<1>5. /\ pc[c] \notin {"idle", "create"} => exists
      /\ pc[c] \notin Resting \cup {"create", "init"} => ~Fenced(c)
      /\ batch[c] # <<>> => pc[c] \in {"batch", "commit"}
    BY DEF AloneInv
<1>6. CASE Fails(c) /\ exists' = exists
  <2>1. pc' = [pc EXCEPT ![c] = "idle"] /\ batch' = [batch EXCEPT ![c] = <<>>]
    BY <1>6, FailsTyped
  <2> QED
    BY <1>2, <1>4, <1>6, <2>1 DEF Resting
<1>7. ASSUME NEW place, Proceeds(c, place), UNCHANGED <<exists, epoch, myEpoch>>,
             place \notin {"idle", "create"} => pc[c] \notin {"idle", "create"},
             place \notin Resting \cup {"create", "init"}
               => pc[c] \notin Resting \cup {"create", "init"},
             pc[c] \notin {"batch", "commit"} \/ place \in {"batch", "commit"}
      PROVE  AloneInv' /\ \A d \in Copiers : d # c => pc[d] \in Resting /\ pc'[d] = pc[d]
  <2>1. Others /\ Place
    BY <1>3, <1>5, <1>7 DEF Proceeds, Fenced
  <2> QED
    BY <1>4, <1>7, <2>1
<1>8. CASE VerifyRanges(c)
    BY <1>7, <1>8 DEF VerifyRanges, Resting
<1>9. CASE EnsureTopic(c)
  <2>1. Others /\ Place /\ (exists => exists')
    BY <1>3, <1>5, <1>9 DEF EnsureTopic, Proceeds, Resting
  <2> QED
    BY <1>4, <2>1
<1>10. CASE InitTransactions(c)
  <2>1. ~Fenced(c)'
    BY <1>10 DEF InitTransactions, Fenced, Types, TypeOK
  <2>2. Others /\ Place /\ (exists => exists')
    BY <1>3, <1>5, <1>10, <2>1 DEF InitTransactions
  <2> QED
    BY <1>4, <2>2
<1>11. CASE FetchCommitted(c)
    BY <1>6, <1>7, <1>11 DEF FetchCommitted, Resting
<1>12. CASE RequireEmpty(c)
    BY <1>6, <1>7, <1>12 DEF RequireEmpty, Resting
<1>13. CASE BeginBatch(c)
    BY <1>6, <1>7, <1>13 DEF BeginBatch, Resting
<1>14. CASE CopyRecord(c)
  <2>1. pc[c] = "batch" /\ UNCHANGED <<exists, epoch>>
    BY <1>14 DEF CopyRecord
  <2>2. CASE Proceeds(c, "commit") /\ myEpoch' = myEpoch
    BY <1>7, <2>1, <2>2 DEF Resting
  <2>3. CASE /\ Goes(c, "batch") \/ Goes(c, "commit")
             /\ \E received : batch' = [batch EXCEPT ![c] = Append(@, received)]
             /\ myEpoch' = myEpoch
    <3>1. pc'[c] \in {"batch", "commit"} /\ \A d \in Copiers : d # c => batch'[d] = batch[d]
      BY <1>2, <1>3, <2>3
    <3>2. Others /\ Place
      BY <1>3, <1>5, <2>1, <2>3, <3>1 DEF Fenced, Resting
    <3> QED
      BY <1>4, <2>1, <3>2
  <2> QED
    BY <1>6, <1>14, <2>1, <2>2, <2>3 DEF CopyRecord
<1>15. CASE CommitBatch(c)
  <2>1. pc[c] = "commit" /\ UNCHANGED <<exists, epoch, myEpoch>>
    BY <1>15 DEF CommitBatch
  <2>2. CASE Commits(c) /\ (Goes(c, "range") \/ Goes(c, "idle"))
    <3>1. Others /\ Place
      BY <1>2, <1>3, <1>5, <2>1, <2>2 DEF Commits, Fenced, Resting
    <3> QED
      BY <1>4, <2>1, <3>1
  <2> QED
    BY <1>6, <1>15, <2>1, <2>2 DEF CommitBatch
<1>16. CASE ReportEnds(c)
    BY <1>6, <1>7, <1>16 DEF ReportEnds, Resting
<1>17. CASE VerifyRetained(c)
    BY <1>6, <1>7, <1>17 DEF VerifyRetained, Resting
<1>18. CASE Fail(c)
    BY <1>6, <1>18 DEF Fail
<1> QED
    BY <1>8, <1>9, <1>10, <1>11, <1>12, <1>13, <1>14, <1>15, <1>16, <1>17, <1>18 DEF Copier


\* A step of a copier that is alone keeps what is known of the log.
LEMMA WorkStep ==
    ASSUME Types, AloneInv, LogInv, NEW c \in Copiers, WorkAt(c), Copier(c)
    PROVE  LogInv' /\ WorkAt(c)'
<1> DEFINE p == part[c]
<1>1. /\ p \in Partitions /\ p \in Nat /\ next[c] \in Int
      /\ Start[p] \in Nat /\ Target[p] \in Nat /\ Start[p] <= Target[p]
      /\ Partitions \subseteq Nat
  <2>1. p \in Partitions /\ next[c] \in Int
    BY DEF Types, TypeOK, Shape
  <2> QED
    BY <2>1, CopyAssumption DEF Partitions
<1>2. /\ pc \in [Copiers -> Places] /\ replayLow' = replayLow
      /\ \A place : Goes(c, place) => pc'[c] = place
    BY StepEnds DEF Types, TypeOK, Goes
\* Whatever is not a commit shows the log as it was.
<1> DEFINE Same == \A q \in Partitions : \A A : Exact(replay[q], A) => Exact(replay'[q], A)
<1>3. ASSUME Same, committed' = committed, exists => exists'
      PROVE  /\ LogInv'
             /\ \A q \in Partitions : \A o :
                   Upto(q, o) => Exact(replay'[q], SourceRecords(q, Start[q], o))
    BY <1>2, <1>3 DEF LogInv, Upto
<1>4. CASE Fails(c) /\ UNCHANGED <<committed, exists>>
  <2>1. Same /\ pc'[c] = "idle"
    BY <1>2, <1>4, FailsTyped DEF Fails
  <2> QED
    BY <1>3, <1>4, <2>1 DEF WorkAt, InPartition
\* What a step that proceeds has to show.
<1>5. ASSUME NEW place \in Places \ {"init"}, Proceeds(c, place),
             UNCHANGED <<committed, exists, created>>, part'[c] \in Partitions,
             place \in InPartition /\ created[c]
               => \A q \in Partitions : q > part'[c] \/ (q = part'[c] /\ place = "offset")
                                          => Upto(q, Start[q]),
             place = "range" /\ replayLow[part'[c]] = 0 => Upto(part'[c], next'[c]),
             place \in {"batch", "commit"} /\ replayLow[part'[c]] = 0
               => \E from \in Start[part'[c]] .. next'[c] :
                     /\ Upto(part'[c], from)
                     /\ Exact(batch[c], SourceRecords(part'[c], from, next'[c])),
             place \in InPartition
               => \A q \in Partitions : q < part'[c] /\ replayLow[q] = 0 => Upto(q, Target[q]),
             place \in {"ends", "verify"}
               => \A q \in Partitions : replayLow[q] = 0 => Upto(q, Target[q]),
             place = "verify" => ends'[c] = [q \in Partitions |->
                                               IF Visible(q) = {} THEN 0 ELSE Max(Visible(q))]
      PROVE  LogInv' /\ WorkAt(c)'
  <2>1. replay' = replay /\ batch' = batch /\ pc'[c] = place
    BY <1>2, <1>5 DEF Proceeds
  <2>2. LogInv'
    BY <1>3, <1>5, <2>1
  <2>3. \A q \in Partitions : Visible(q)' = Visible(q)
    BY <1>2, <2>1 DEF Visible
  <2>4. place = "verify" => \A q \in Partitions :
            ends'[c][q] = IF Visible(q)' = {} THEN 0 ELSE Max(Visible(q)')
    BY <1>5, <2>3
  <2>5. \A q, o : Upto(q, o) => Exact(replay'[q], SourceRecords(q, Start[q], o))
    BY <2>1 DEF Upto
  <2>6. WorkAt(c)'
    BY <1>2, <1>5, <2>1, <2>4 DEF WorkAt, Upto
  <2> QED
    BY <2>2, <2>6

\* The same where the copier stays in its partition, or was not in one.
<1>6. \A q \in Partitions : q < p /\ replayLow[q] = 0 /\ pc[c] \in InPartition => Upto(q, Target[q])
    BY DEF WorkAt
<1>7. /\ replayLow[p] = 0 /\ pc[c] = "range" => Upto(p, next[c])
      /\ \A q \in Partitions : created[c] /\ pc[c] \in InPartition /\ q > p => Upto(q, Start[q])
      /\ pc[c] \in {"ends", "verify"} =>
            \A q \in Partitions : replayLow[q] = 0 => Upto(q, Target[q])
    BY DEF WorkAt
<1>8. CASE VerifyRanges(c)
  <2>1. Proceeds(c, "create") /\ UNCHANGED <<committed, exists, created, next, part>>
        /\ "create" \in Places
    BY <1>8 DEF VerifyRanges, Places
  <2> QED
    BY <1>1, <1>5, <2>1 DEF InPartition
<1>9. CASE EnsureTopic(c)
  <2>1. /\ Proceeds(c, "init") /\ pc'[c] = "init" /\ committed' = committed /\ exists'
        /\ created'[c] = ~exists /\ replay' = replay
    BY <1>2, <1>9 DEF EnsureTopic, Proceeds, Types, TypeOK
  <2>2. LogInv'
    BY <1>3, <2>1
  <2>3. created'[c] => \A q \in Partitions : Upto(q, Start[q])
    BY <2>1 DEF LogInv
  <2>4. WorkAt(c)'
    BY <2>1, <2>3 DEF WorkAt, Upto, InPartition
  <2> QED
    BY <2>2, <2>4
<1>10. CASE InitTransactions(c)
  <2>1. /\ pc[c] = "init" /\ pc'[c] = "offset" /\ part'[c] = 1
        /\ UNCHANGED <<committed, exists, created>>
    BY <1>2, <1>10 DEF InitTransactions, Types, TypeOK
  <2>2. Same
    <3> DEFINE S == {other \in Copiers : myEpoch[other] = epoch}
    <3>1. S \in SUBSET Copiers /\ replay' = AfterAbort(S)
      BY <1>10 DEF InitTransactions
    <3>2. replay \in [Partitions -> Seq(Slots)] /\ batch \in [Copiers -> Seq(Nat)]
      BY DEF Types, TypeOK, Slots
    <3> HIDE DEF S
    <3> QED
      BY <3>1, <3>2, AbortKeeps
  <2>3. /\ LogInv'
        /\ \A q \in Partitions : \A o :
              Upto(q, o) => Exact(replay'[q], SourceRecords(q, Start[q], o))
    BY <1>3, <2>1, <2>2
  <2>4. \A q \in Partitions : created[c] => Exact(replay'[q], SourceRecords(q, Start[q], Start[q]))
    BY <2>1, <2>3 DEF WorkAt
  <2>5. ~ \E q \in Partitions : q < 1
    BY DEF Partitions
  <2>6. WorkAt(c)'
    BY <2>1, <2>4, <2>5 DEF WorkAt, Upto
  <2> QED
    BY <2>3, <2>6
<1>11. CASE FetchCommitted(c)
  <2>1. pc[c] = "offset" /\ UNCHANGED <<committed, exists>> /\ "range" \in Places
        /\ "empty" \in Places /\ pc[c] \in InPartition
    BY <1>11 DEF FetchCommitted, Places, InPartition
  <2>2. created[c] => Upto(p, Start[p])
    BY <1>1, <2>1 DEF WorkAt
  <2>3. CASE /\ committed[p] = Unset /\ created[c] /\ next' = [next EXCEPT ![c] = Start[p]]
             /\ Proceeds(c, "range") /\ UNCHANGED <<part, created>>
    <3>1. next'[c] = Start[p]
      BY <2>3 DEF Types, Shape
    <3> QED
      BY <1>1, <1>5, <1>6, <1>7, <2>1, <2>2, <2>3, <3>1
  <2>4. CASE /\ committed[p] = Unset /\ Proceeds(c, "empty") /\ UNCHANGED <<part, next, created>>
    BY <1>1, <1>5, <1>6, <1>7, <2>1, <2>4
  <2>5. CASE /\ committed[p] # Unset /\ next' = [next EXCEPT ![c] = committed[p]]
             /\ Proceeds(c, "range") /\ UNCHANGED <<part, created>>
    <3>1. next'[c] = committed[p]
      BY <2>5 DEF Types, Shape
    <3>2. replayLow[p] = 0 => Upto(p, committed[p])
      BY <1>1, <2>5 DEF LogInv
    <3> QED
      BY <1>1, <1>5, <1>6, <1>7, <2>1, <2>5, <3>1, <3>2
  <2> QED
    BY <1>4, <1>11, <2>1, <2>3, <2>4, <2>5 DEF FetchCommitted
<1>12. CASE RequireEmpty(c)
  <2>1. pc[c] = "empty" /\ UNCHANGED <<committed, exists>> /\ "range" \in Places
        /\ pc[c] \in InPartition
    BY <1>12 DEF RequireEmpty, Places, InPartition
  <2>2. CASE /\ StartsOver(p) /\ next' = [next EXCEPT ![c] = Start[p]]
             /\ Proceeds(c, "range") /\ UNCHANGED <<part, created>>
    <3>1. next'[c] = Start[p]
      BY <2>2 DEF Types, Shape
    <3>2. ASSUME replayLow[p] = 0 PROVE Upto(p, Start[p])
      <4>1. replay[p] \in Seq(Slots)
        BY <1>1 DEF Types, TypeOK, Slots
      <4>2. DOMAIN replay[p] = 1 .. Len(replay[p])
        BY <4>1, LenProperties
      <4>3. Held(replay[p]) = {}
        BY <2>2, <3>2, <4>2 DEF StartsOver, Visible, Held
      <4>4. SourceRecords(p, Start[p], Start[p]) = {}
        BY <1>1, RecordsBetween
      <4> QED
        BY <4>3, <4>4 DEF Upto, Exact
    <3> QED
      BY <1>1, <1>5, <1>6, <1>7, <2>1, <2>2, <3>1, <3>2
  <2> QED
    BY <1>4, <1>12, <2>1, <2>2 DEF RequireEmpty
<1>13. CASE BeginBatch(c)
  <2>1. pc[c] = "range" /\ UNCHANGED <<committed, exists>> /\ "batch" \in Places
        /\ "offset" \in Places /\ "ends" \in Places /\ pc[c] \in InPartition /\ batch[c] = <<>>
    BY <1>13 DEF BeginBatch, Places, InPartition, AloneInv
  <2>2. next[c] \in Start[p] .. Target[p] /\ next[c] \in Nat
    <3>1. next[c] \in Start[p] .. Target[p]
      BY <2>1 DEF Types, TypeOK
    <3> QED
      BY <1>1, <3>1
  <2>3. CASE Proceeds(c, "batch") /\ UNCHANGED <<part, next, created>>
    <3>1. Exact(batch[c], SourceRecords(p, next[c], next[c]))
      BY <1>1, <2>1, <2>2, RecordsBetween DEF Exact, Held
    <3>2. replayLow[p] = 0 => \E from \in Start[p] .. next[c] :
              Upto(p, from) /\ Exact(batch[c], SourceRecords(p, from, next[c]))
      <4>1. next[c] \in Start[p] .. next[c]
        BY <1>1, <2>2
      <4> QED
        BY <1>7, <2>1, <3>1, <4>1
    <3> QED
      BY <1>1, <1>5, <1>6, <1>7, <2>1, <2>3, <3>2
  <2>4. CASE /\ next[c] = Target[p] /\ p < NumPartitions /\ part' = [part EXCEPT ![c] = @ + 1]
             /\ Proceeds(c, "offset") /\ UNCHANGED <<next, created>>
    <3>1. p + 1 \in Partitions /\ part'[c] = p + 1
      <4>1. p \in 1 .. NumPartitions /\ NumPartitions \in Nat
        BY <1>1, CopyAssumption DEF Partitions
      <4>2. p + 1 \in Partitions
        BY <2>4, <4>1 DEF Partitions
      <4>3. part'[c] = p + 1
        BY <2>4 DEF Types, TypeOK
      <4> QED
        BY <4>2, <4>3
    <3>2. ASSUME NEW q \in Partitions, q < part'[c], replayLow[q] = 0 PROVE Upto(q, Target[q])
      <4>1. q < p \/ q = p
        BY <1>1, <3>1, <3>2
      <4> QED
        BY <1>6, <1>7, <2>1, <2>4, <3>2, <4>1
    <3>3. ASSUME created[c], NEW q \in Partitions, q > part'[c] \/ q = part'[c]
          PROVE  Upto(q, Start[q])
      <4>1. q > p
        BY <1>1, <3>1, <3>3
      <4> QED
        BY <1>7, <2>1, <3>3, <4>1
    <3> QED
      BY <1>5, <2>1, <2>4, <3>1, <3>2, <3>3 DEF InPartition
  <2>5. CASE /\ next[c] = Target[p] /\ p = NumPartitions
             /\ Proceeds(c, "ends") /\ UNCHANGED <<part, next, created>>
    <3>1. ASSUME NEW q \in Partitions, replayLow[q] = 0 PROVE Upto(q, Target[q])
      <4>1. q < p \/ q = p
        BY <2>5, CopyAssumption DEF Partitions
      <4> QED
        BY <1>6, <1>7, <2>1, <2>5, <3>1, <4>1
    <3> QED
      BY <1>1, <1>5, <2>1, <2>5, <3>1 DEF InPartition
  <2> QED
    BY <1>4, <1>13, <2>1, <2>3, <2>4, <2>5 DEF BeginBatch
<1>14. CASE CopyRecord(c)
  <2>1. pc[c] = "batch" /\ UNCHANGED <<committed, exists>> /\ "commit" \in Places
        /\ pc[c] \in InPartition
    BY <1>14 DEF CopyRecord, Places, InPartition
  <2>2. next[c] \in Start[p] .. Target[p] /\ next[c] \in Nat /\ low[p] \in Nat
    <3>1. next[c] \in Start[p] .. Target[p] /\ low[p] \in Nat
      BY <1>1, <2>1 DEF Types, TypeOK
    <3> QED
      BY <1>1, <3>1
  <2>3. Records[p] \in SUBSET Nat
    BY <1>1, CopyAssumption
  <2>4. ASSUME replayLow[p] = 0
        PROVE  \E from \in Start[p] .. next[c] :
                  Upto(p, from) /\ Exact(batch[c], SourceRecords(p, from, next[c]))
    BY <2>1, <2>4 DEF WorkAt
  <2>5. ASSUME NEW received \in Received(p, next[c]), Contiguous(p, next[c], received),
               AtTarget(p, received), Proceeds(c, "commit"), UNCHANGED <<part, created>>,
               next' = [next EXCEPT ![c] = Target[p]]
        PROVE  LogInv' /\ WorkAt(c)'
    <3>1. received \in Nat /\ \A o \in Records[p] : next[c] <= o => received <= o
      BY <1>1, <2>2, <2>5, ReceivedIs
    <3>2. \A o \in Records[p] : next[c] <= o => Target[p] <= o
      BY <1>1, <2>3, <2>5, <3>1 DEF AtTarget
    <3>3. ASSUME NEW from \in Start[p] .. next[c]
          PROVE  /\ from \in Start[p] .. Target[p]
                 /\ SourceRecords(p, from, Target[p]) = SourceRecords(p, from, next[c])
      BY <1>1, <2>2, <2>3, <3>2 DEF SourceRecords
    <3>4. next'[c] = Target[p]
      BY <2>5 DEF Types, Shape
    <3>5. replayLow[p] = 0 => \E from \in Start[p] .. Target[p] :
              Upto(p, from) /\ Exact(batch[c], SourceRecords(p, from, Target[p]))
      BY <2>4, <3>3
    <3> QED
      BY <1>1, <1>5, <1>6, <1>7, <2>1, <2>5, <3>4, <3>5
  <2>6. ASSUME NEW received \in Received(p, next[c]), Contiguous(p, next[c], received),
               ~AtTarget(p, received), next' = [next EXCEPT ![c] = received + 1],
               batch' = [batch EXCEPT ![c] = Append(@, received)],
               Goes(c, "batch") \/ Goes(c, "commit"), UNCHANGED <<replay, part, created>>
        PROVE  LogInv' /\ WorkAt(c)'
    <3>1. /\ received \in Nat /\ next[c] <= received
          /\ received \in Records[p] \/ received = EndOfPartition(p)
          /\ \A o \in Records[p] : next[c] <= o => received <= o
      BY <1>1, <2>2, <2>6, ReceivedIs
    <3>2. received \in Records[p]
      BY <1>1, <2>6, <3>1 DEF AtTarget, EndOfPartition
    <3>3. batch[c] \in Seq(Slots) /\ received \in Slots /\ received # Hole
      <4>1. batch[c] \in Seq(Nat) /\ Nat \subseteq Slots
        BY DEF Types, TypeOK, Slots
      <4> QED
        <5>1. received \in Slots /\ received # Hole
          BY <3>1 DEF Slots, Hole
        <5>2. batch[c] \in Seq(Slots)
          BY <4>1, SeqMonotonic, Zenon
        <5> QED
          BY <5>1, <5>2
    <3>4. ASSUME NEW from \in Start[p] .. next[c], Exact(batch[c], SourceRecords(p, from, next[c]))
          PROVE  /\ from \in Start[p] .. received + 1
                 /\ Exact(Append(batch[c], received), SourceRecords(p, from, received + 1))
      <4>1. SourceRecords(p, from, received + 1) = SourceRecords(p, from, next[c]) \cup {received}
        BY <1>1, <2>2, <2>3, <3>1, <3>2 DEF SourceRecords
      <4>2. \A a \in SourceRecords(p, from, next[c]) : a < received
        BY <2>2, <2>3, <3>1 DEF SourceRecords
      <4>3. Exact(Append(batch[c], received), SourceRecords(p, from, next[c]) \cup {received})
        BY <3>3, <3>4, <4>2, ExactAppend
      <4>4. from \in Start[p] .. received + 1
        BY <1>1, <2>2, <3>1
      <4> QED
        BY <4>1, <4>3, <4>4, Zenon
    <3>5. /\ batch'[c] = Append(batch[c], received) /\ next'[c] = received + 1
          /\ part'[c] = p /\ pc'[c] \in {"batch", "commit"}
      BY <1>2, <2>6 DEF Types, TypeOK, Shape
    <3>6. replayLow[p] = 0 => \E from \in Start[p] .. received + 1 :
              /\ Upto(p, from)
              /\ Exact(Append(batch[c], received), SourceRecords(p, from, received + 1))
      BY <2>4, <3>4
    <3>7. LogInv'
      BY <1>3, <2>1, <2>6
    <3>8. WorkAt(c)'
      BY <1>2, <1>6, <1>7, <2>1, <2>6, <3>5, <3>6 DEF WorkAt, Upto, InPartition
    <3> QED
      BY <3>7, <3>8
  <2> QED
    BY <1>4, <1>14, <2>1, <2>5, <2>6 DEF CopyRecord
<1>15. CASE CommitBatch(c)
  <2>1. pc[c] = "commit" /\ UNCHANGED <<exists, part, next, created>> /\ pc[c] \in InPartition
        /\ exists
    BY <1>15 DEF CommitBatch, InPartition, AloneInv
  <2>2. CASE Commits(c) /\ (Goes(c, "range") \/ Goes(c, "idle"))
    <3>1. /\ replay'[p] = replay[p] \o Ended(batch[c]) /\ committed'[p] = next[c]
          /\ \A q \in Partitions : q # p => replay'[q] = replay[q] /\ committed'[q] = committed[q]
      BY <1>1, <2>2 DEF Commits, Types, TypeOK, Shape
    <3>2. next[c] \in Start[p] .. Target[p] /\ next[c] \in Nat
      <4>1. next[c] \in Start[p] .. Target[p]
        BY <1>1, <2>1 DEF Types, TypeOK
      <4> QED
        BY <1>1, <4>1
    <3>3. ASSUME replayLow[p] = 0 PROVE Exact(replay'[p], SourceRecords(p, Start[p], next[c]))
      <4>1. PICK from \in Start[p] .. next[c] :
                Upto(p, from) /\ Exact(batch[c], SourceRecords(p, from, next[c]))
        BY <2>1, <3>3 DEF WorkAt
      <4>2. replay[p] \in Seq(Slots) /\ batch[c] \in Seq(Slots)
        <5>1. batch[c] \in Seq(Nat) /\ Nat \subseteq Slots /\ replay[p] \in Seq(Slots)
          BY <1>1 DEF Types, TypeOK, Slots
        <5> QED
          BY <5>1, SeqMonotonic
      <4> DEFINE A == SourceRecords(p, Start[p], from)
                 B == SourceRecords(p, from, next[c])
      <4>3. Ended(batch[c]) \in Seq(Slots) /\ Exact(Ended(batch[c]), B)
        BY <4>1, <4>2, ExactEnded
      <4>4. /\ SourceRecords(p, Start[p], next[c]) = A \cup B
            /\ \A x \in A, y \in B : x < y
        BY <1>1, <3>2, RecordsBetween
      <4>5. Exact(replay[p], A)
        BY <4>1 DEF Upto
      <4> HIDE DEF A, B
      <4>6. Exact(replay[p] \o Ended(batch[c]), A \cup B)
        BY <4>2, <4>3, <4>4, <4>5, ExactConcat
      <4> QED
        BY <3>1, <4>4, <4>6, Zenon
    <3>4. LogInv'
      <4> SUFFICES ASSUME NEW q \in Partitions, replayLow'[q] = 0, committed'[q] # Unset
                   PROVE  Exact(replay'[q], SourceRecords(q, Start[q], committed'[q]))
        BY <2>1 DEF LogInv, Upto
      <4>1. CASE q = p
        BY <1>2, <3>1, <3>3, <4>1
      <4>2. CASE q # p
        BY <1>2, <3>1, <4>2 DEF LogInv, Upto
      <4> QED
        BY <4>1, <4>2
    <3>5. \A q \in Partitions : q # p => \A o :
              Upto(q, o) => Exact(replay'[q], SourceRecords(q, Start[q], o))
      BY <3>1 DEF Upto
    <3>6. \A q \in Partitions : q < p \/ q > p => q # p
      BY <1>1
    <3>7. WorkAt(c)'
      BY <1>2, <1>6, <1>7, <2>1, <2>2, <3>3, <3>5, <3>6 DEF WorkAt, Upto, InPartition
    <3> QED
      BY <3>4, <3>7
  <2> QED
    BY <1>4, <1>15, <2>1, <2>2 DEF CommitBatch
<1>16. CASE ReportEnds(c)
  <2>1. pc[c] = "ends" /\ UNCHANGED <<committed, exists>> /\ "verify" \in Places
    BY <1>16 DEF ReportEnds, Places
  <2>2. CASE /\ ends' = [ends EXCEPT ![c] =
                            [q \in Partitions |-> IF Visible(q) = {} THEN 0 ELSE Max(Visible(q))]]
             /\ Proceeds(c, "verify") /\ UNCHANGED <<part, created>>
    <3>1. ends'[c] = [q \in Partitions |-> IF Visible(q) = {} THEN 0 ELSE Max(Visible(q))]
      BY <2>2 DEF Types, TypeOK
    <3> QED
      BY <1>1, <1>5, <1>7, <2>1, <2>2, <3>1 DEF InPartition
  <2> QED
    BY <1>4, <1>16, <2>1, <2>2 DEF ReportEnds
<1>17. CASE VerifyRetained(c)
  <2>1. pc[c] = "verify" /\ UNCHANGED <<committed, exists>> /\ "done" \in Places
    BY <1>17 DEF VerifyRetained, Places
  <2>2. CASE Proceeds(c, "done") /\ UNCHANGED <<part, created>>
    BY <1>1, <1>5, <2>1, <2>2 DEF InPartition
  <2> QED
    BY <1>4, <1>17, <2>1, <2>2 DEF VerifyRetained
<1>18. CASE Fail(c)
    BY <1>4, <1>18 DEF Fail
<1> QED
    BY <1>8, <1>9, <1>10, <1>11, <1>12, <1>13, <1>14, <1>15, <1>16, <1>17, <1>18 DEF Copier


\* What Kafka removes or forgets makes nothing known of the log wrong.
LEMMA WorkRests ==
    ASSUME "deletion" \notin Faults, Types, AloneInv, WorkInv, Kafka \/ Idle \/ UNCHANGED vars
    PROVE  AloneInv' /\ WorkInv'
<1> DEFINE Quiet == /\ UNCHANGED <<exists, replay, epoch, copierVars>>
                    /\ \A p \in Partitions : replayLow'[p] = 0 => replayLow[p] = 0
                    /\ \A p \in Partitions :
                          committed'[p] # Unset => committed'[p] = committed[p]
<1>0. Quiet
  <2>1. /\ replayLow \in [Partitions -> Nat] /\ committed \in [Partitions -> Int]
    BY DEF Types, TypeOK, Shape
  <2>2. ASSUME NEW p \in Partitions, TrimSource(p) PROVE Quiet
    BY <2>2 DEF TrimSource
  <2>3. ASSUME NEW p \in Partitions, TrimReplay(p) PROVE Quiet
    <3>1. /\ UNCHANGED <<exists, replay, epoch, copierVars, committed>>
          /\ replayLow' = [replayLow EXCEPT ![p] = @ + 1]
      BY <2>3, Zenon DEF TrimReplay
    <3> QED
      BY <2>1, <3>1
  <2>4. ASSUME NEW p \in Partitions, ExpireProgress(p) PROVE Quiet
    BY <2>1, <2>4 DEF ExpireProgress
  <2>5. CASE Idle \/ UNCHANGED vars
    <3>1. UNCHANGED <<exists, replay, epoch, copierVars, replayLow, committed>>
      BY <2>5 DEF Idle, vars, kafkaVars
    <3> QED
      BY <3>1
  <2> QED
    BY <2>2, <2>3, <2>4, <2>5 DEF Kafka, DeleteTopic
<1>1. UNCHANGED <<exists, replay, epoch, copierVars>>
    BY <1>0
<1>2. \A p \in Partitions : replayLow'[p] = 0 => replayLow[p] = 0
    BY <1>0
<1>3. \A p \in Partitions : committed'[p] # Unset => committed'[p] = committed[p]
    BY <1>0
<1>4. AloneInv'
    BY <1>1 DEF AloneInv, Fenced, copierVars
<1>5. \A p, o : Upto(p, o) <=> Exact(replay'[p], SourceRecords(p, Start[p], o))
    BY <1>1 DEF Upto
<1>6. LogInv'
  <2> SUFFICES ASSUME NEW p \in Partitions
               PROVE  /\ ~exists' => Exact(replay'[p], SourceRecords(p, Start[p], Start[p]))
                      /\ replayLow'[p] = 0 /\ committed'[p] # Unset
                           => Exact(replay'[p], SourceRecords(p, Start[p], committed'[p]))
    BY DEF LogInv, Upto
  <2> QED
    BY <1>1, <1>2, <1>3, <1>5 DEF WorkInv, LogInv
<1>7. ASSUME NEW p \in Partitions, replayLow'[p] = 0 PROVE Visible(p)' = Visible(p)
  <2>1. replayLow[p] = 0 /\ replay' = replay
    BY <1>1, <1>2, <1>7
  <2> QED
    BY <1>7, <2>1 DEF Visible
<1>8. ASSUME NEW c \in Copiers PROVE WorkAt(c)'
  <2>1. WorkAt(c) /\ part[c] \in Partitions
    BY DEF WorkInv, Types, TypeOK
  <2>2. UNCHANGED <<pc, part, next, batch, created, ends>>
    BY <1>1 DEF copierVars
  <2>3. pc[c] = "verify" => \A q \in Partitions : replayLow'[q] = 0
                              => ends'[c][q] = IF Visible(q)' = {} THEN 0 ELSE Max(Visible(q)')
    BY <1>2, <1>7, <2>1, <2>2 DEF WorkAt
  <2>4. \A p, o : Upto(p, o) => Upto(p, o)'
    BY <1>1 DEF Upto
  <2> QED
    BY <1>2, <2>1, <2>2, <2>3, <2>4 DEF WorkAt, Upto
<1> QED
    BY <1>4, <1>6, <1>8 DEF WorkInv

\* What is known of the log while one controller works at a time.
LEMMA WorkInvHolds ==
    ASSUME "zombie" \notin Faults, "deletion" \notin Faults
    PROVE  Spec => [](Types /\ AloneInv /\ WorkInv)
<1>1. Init => Types /\ AloneInv /\ WorkInv
  <2> SUFFICES ASSUME Init PROVE Types /\ AloneInv /\ WorkInv
    OBVIOUS
  <2>1. AloneInv
    BY DEF Init, AloneInv, Resting
  <2>2. \A c \in Copiers : WorkAt(c)
    BY DEF Init, WorkAt, InPartition
  <2>3. ASSUME NEW p \in Partitions PROVE Upto(p, Start[p]) /\ committed[p] = Unset
    <3>1. replay[p] = <<>> /\ committed[p] = Unset /\ Start[p] \in Nat
      BY CopyAssumption DEF Init
    <3>2. SourceRecords(p, Start[p], Start[p]) = {}
      BY <3>1, RecordsBetween
    <3>3. Held(replay[p]) = {}
      BY <3>1 DEF Held
    <3> QED
      BY <3>1, <3>2, <3>3 DEF Upto, Exact
  <2> QED
    BY InitTyped, <2>1, <2>2, <2>3 DEF WorkInv, LogInv
<1>2. Types /\ AloneInv /\ WorkInv /\ [Next]_vars => (Types /\ AloneInv /\ WorkInv)'
  <2> SUFFICES ASSUME Types, AloneInv, WorkInv, [Next]_vars
               PROVE  (Types /\ AloneInv /\ WorkInv)'
    OBVIOUS
  <2>1. ASSUME NEW c \in Copiers, Copier(c) PROVE (Types /\ AloneInv /\ WorkInv)'
    <3>1. Types'
      BY <2>1, StepTyped
    <3>2. AloneInv' /\ \A d \in Copiers : d # c => pc'[d] \in Resting
      BY <2>1, AloneStep
    <3>3. LogInv' /\ WorkAt(c)'
      BY <2>1, WorkStep DEF WorkInv
    <3>4. \A d \in Copiers : d # c => WorkAt(d)'
      BY <3>2 DEF WorkAt, Resting, InPartition
    <3> QED
      BY <3>1, <3>2, <3>3, <3>4 DEF WorkInv
  <2>2. CASE Kafka \/ Idle \/ UNCHANGED vars
    BY <2>2, KafkaTyped, WorkRests
  <2> QED
    BY <2>1, <2>2 DEF Next
<1> QED
    BY <1>1, <1>2, PTL DEF Spec

\* A copy that reports success leaves the complete range, once and in order, with the
\* end offsets the replay connector must reach, also when Kafka has forgotten the
\* group's progress any number of times and trimmed either topic, as long as no two
\* controllers run and the replay topic is not deleted.
THEOREM SuccessCompleteAlone ==
    ASSUME "zombie" \notin Faults, "deletion" \notin Faults
    PROVE  Spec => SuccessIsComplete
<1>1. ASSUME Types, WorkInv, [Next]_vars, NEW c \in Copiers, pc[c] = "verify", pc'[c] = "done"
      PROVE  CompleteFor(c)'
  <2>1. PICK d \in Copiers : Copier(d)
    <3>1. Kafka => UNCHANGED copierVars
      <4>1. \A p \in Partitions : TrimReplay(p) => UNCHANGED copierVars
        BY Zenon DEF TrimReplay
      <4> QED
        BY <4>1 DEF Kafka, TrimSource, ExpireProgress, DeleteTopic
    <3>2. Idle \/ UNCHANGED vars => UNCHANGED copierVars
      BY DEF Idle, vars
    <3>3. pc' # pc
      BY <1>1
    <3>4. ~ UNCHANGED copierVars
      BY <3>3 DEF copierVars
    <3>5. Next \/ UNCHANGED vars
      BY <1>1
    <3> QED
      BY <3>1, <3>2, <3>4, <3>5 DEF Next
  <2>2. Copier(c)
    BY <1>1, <2>1, StepEnds
  <2>3. /\ VerifyRetained(c) /\ Proceeds(c, "done") /\ replayLow' = replayLow
        /\ \A p \in Partitions : replayLow[p] = 0
    BY <1>1, <2>2, StepEnds
  <2>4. ends' = ends /\ replay' = replay
    BY <2>3 DEF VerifyRetained, Fails, Proceeds
  <2>5. ASSUME NEW p \in Partitions
        PROVE  /\ Shows(p, SourceRecords(p, Start[p], Target[p]))'
               /\ replayLow'[p] = 0
               /\ ends'[c][p] = IF Visible(p)' = {} THEN 0 ELSE Max(Visible(p)')
    <3>1. /\ Upto(p, Target[p])
          /\ ends[c][p] = IF Visible(p) = {} THEN 0 ELSE Max(Visible(p))
      BY <1>1, <2>3 DEF WorkInv, WorkAt
    <3>2. Shows(p, SourceRecords(p, Start[p], Target[p]))'
      BY <2>4, <3>1 DEF Shows, Upto, Exact, Held, SourceRecords
    <3>3. Visible(p)' = Visible(p)
      BY <2>3, <2>4 DEF Visible
    <3> QED
      BY <2>3, <2>4, <3>1, <3>2, <3>3
  <2> QED
    BY <2>5 DEF CompleteFor
<1>2. Types /\ WorkInv /\ [Next]_vars
      => [\A c \in Copiers : pc[c] = "verify" /\ pc'[c] = "done" => CompleteFor(c)']_vars
    BY <1>1
<1> QED
    BY <1>2, WorkInvHolds, PTL DEF Spec, SuccessIsComplete
=============================================================================
