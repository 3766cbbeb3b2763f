------------------------ MODULE TableRecoveryProofs ------------------------
(***************************************************************************)
(* Proofs about TableRecovery, for any number of source connectors, every  *)
(* range and length of their logs, every set of faults and any number of   *)
(* failures.                                                               *)
(***************************************************************************)
EXTENDS TableRecovery, TLAPS

-----------------------------------------------------------------------------
(* The inductive invariant.                                                  *)

Larger(a, b) == IF a >= b THEN a ELSE b

\* The connectors are a function of role and source connector.
Shape ==
    conn \in [Roles -> [Indexes -> [state : {"absent", "STOPPED", "stopping", "RUNNING", "FAILED"},
                                    offset : Int, row : Int]]]

\* There is something to replay.
Replays(i) == Bounded /\ Start[i] # Target[i]

\* The archive is in the destination.
Archived == \A i \in Indexes : Prefix(Start[i]) \subseteq dest[i]

\* The replay connector has inserted its whole topic, or there is none.
HandedOver(i) == Replays(i) => conn["replay"][i].row = Target[i] - Start[i]

\* A replay connector commits what it has inserted only.
ReplayOK(i) ==
    LET k == conn["replay"][i]
    IN  /\ k.state = "absent" => k = Absent
        /\ k.state # "absent" => Replays(i)
        /\ k.offset <= Larger(k.row, 0)
        /\ k.row # 0

\* A follow connector exists from the handover on. Its row and its offset are at the
\* goal or after it, the offset first; it runs with an offset only, and of a bounded
\* recovery only if the user said so.
FollowOK(i) ==
    LET k == conn["follow"][i]
    IN  /\ k.state = "absent" => k = Absent
        /\ k.state # "absent" => HandedOver(i)
        /\ k.row # Unset => k.offset # Unset /\ k.row >= Goal(i)
        /\ k.offset # Unset => Goal(i) <= k.offset /\ k.offset <= Larger(k.row, Goal(i))
        /\ k.state \in {"RUNNING", "stopping", "FAILED"} => k.offset # Unset
        /\ user[i] # "waits" => Bounded /\ k.offset # Unset
        /\ Bounded /\ user[i] # "resumed"
             => k.state \in {"absent", "STOPPED"} /\ k.row \in {Unset, Goal(i)}

\* Where the destination ends according to the connector that writes it.
End(i) ==
    IF conn["follow"][i].state = "absent" THEN Start[i] + Larger(conn["replay"][i].row, 0)
    ELSE Larger(conn["follow"][i].row, Goal(i))

Untouched == \A r \in Roles, i \in Indexes : conn[r][i] = Absent

\* The destination holds the records before its end, or the archive is not there yet
\* and neither is any connector.
DestOK(i) == dest[i] = Prefix(End(i)) \/ (dest[i] = {} /\ Untouched)

ConnInv ==
    /\ Shape
    /\ \A i \in Indexes : ReplayOK(i) /\ FollowOK(i) /\ DestOK(i)
    /\ ~repeated

\* The requests about connectors.
ConnectorSteps ==
    {"copy", "keeper", "create", "stop", "stopped", "retained", "patch", "compare", "resume",
     "running", "catch_up", "hydrate", "progress", "check_offsets", "check_stopped"}

\* The connectors come after the archive, as every phase says that is after it, be it
\* from a cache that lags or in memory.
RestoreInv ==
    /\ restore = "RESTORED" => Archived
    /\ phase \in {"Replaying"} \cup Terminal => Archived
    /\ seen \in {"Replaying"} \cup Terminal => Archived
    /\ view \in {"Replaying"} \cup Terminal => Archived
    /\ pc \in ConnectorSteps \cup {"finish", "mark_replaying"} => Archived

\* What precedes them, in an attempt that has not got to a connector.
EarlySteps == {"rows", "mark_restoring", "restore_state", "restore", "restoring", "mark_replaying"}

\* What an attempt has made sure of when its next request is about connector i of a
\* role and it has found a KeeperMap row before.
PlaceAt(step, r, i, found) ==
    /\ r = "replay" => found = Unset
    /\ found # Unset => conn["follow"][i].row # Unset
    /\ step \in ConnectorSteps => IF r = "replay" THEN Replays(i) ELSE HandedOver(i)
    /\ step \in {"copy", "compare", "catch_up", "retained"} => r = "replay"
    /\ step \in {"keeper", "hydrate", "progress", "check_offsets", "check_stopped"}
         => r = "follow"
    /\ step \in {"stop", "stopped", "retained"} => HandedOver(i)
    /\ step \in {"stop", "stopped", "patch", "compare", "resume", "running", "catch_up"}
         => conn[r][i].state # "absent"
    /\ step \in {"hydrate", "progress", "check_offsets", "check_stopped"}
            \/ (step \in {"resume", "running"} /\ r = "follow")
         => conn[r][i].offset # Unset
    /\ step = "progress" \/ (step = "resume" /\ r = "follow") => ~Bounded
    /\ \A j \in Indexes :
          step = "finish" \/ (step \in ConnectorSteps /\ j < i) => conn["follow"][j].offset # Unset
    /\ step \in EarlySteps => i = 1 /\ found = Unset

PlaceInv == PlaceAt(pc, role, index, existing)

\* A terminal phase is left before anything else is done.
PhaseInv ==
    /\ pc \in ConnectorSteps \cup {"finish"} => phase = "Replaying"
    /\ phase = "Complete" => Bounded
    /\ phase \in Terminal => \A i \in Indexes : conn["follow"][i].offset # Unset

Inv == TypeOK /\ ConnInv /\ RestoreInv /\ PlaceInv /\ PhaseInv

-----------------------------------------------------------------------------
(* Positions.                                                                *)

LEMMA MaxOfTwo == \A a, b \in Int : Max({a, b}) = Larger(a, b)
<1> SUFFICES ASSUME NEW a \in Int, NEW b \in Int PROVE Max({a, b}) = Larger(a, b)
    OBVIOUS
<1> DEFINE c == Larger(a, b)
<1>1. c \in {a, b} /\ (\A y \in {a, b} : c >= y) /\ c \in Int
    BY DEF Larger
<1>2. \A x \in {a, b} : (\A y \in {a, b} : x >= y) => x = c
    BY <1>1
<1> HIDE DEF c
<1>3. Max({a, b}) = c
    BY <1>1, <1>2, Zenon DEF Max
<1> QED
    BY <1>3 DEF c

LEMMA Sizes ==
    ASSUME NEW i \in Indexes
    PROVE  /\ Start[i] \in Nat /\ Target[i] \in Nat /\ LogEnd[i] \in Nat /\ Goal(i) \in Nat
           /\ Start[i] <= Target[i] /\ Target[i] <= LogEnd[i]
           /\ Start[i] <= Goal(i) /\ Goal(i) <= LogEnd[i]
           /\ GoalRow(i) = IF Goal(i) = 0 THEN Unset ELSE Goal(i)
           /\ Replays(i) => Goal(i) = Target[i] /\ Start[i] < Target[i]
           /\ ~Replays(i) => Goal(i) = Start[i]
    BY RecoveryAssumption DEF Goal, GoalRow, Replays

\* The offset and the row of a connector, typed.
LEMMA Typed ==
    ASSUME TypeOK, NEW i \in Indexes
    PROVE  /\ conn["replay"][i].offset \in 0 .. Target[i] - Start[i] \cup {Unset}
           /\ conn["replay"][i].row \in 0 .. Target[i] - Start[i] \cup {Unset}
           /\ conn["follow"][i].offset \in 0 .. LogEnd[i] \cup {Unset}
           /\ conn["follow"][i].row \in 0 .. LogEnd[i] \cup {Unset}
    BY DEF TypeOK, Connector

\* A connector with an offset is where the destination says it is.
LEMMA Positions ==
    ASSUME TypeOK, ConnInv, NEW i \in Indexes
    PROVE  /\ conn["replay"][i].offset # Unset
                => Position(conn["replay"][i]) = Larger(conn["replay"][i].row, 0)
           /\ conn["follow"][i].offset # Unset
                => Position(conn["follow"][i]) = Larger(conn["follow"][i].row, Goal(i))
<1>1. ReplayOK(i) /\ FollowOK(i)
    BY DEF ConnInv
<1>2. Goal(i) \in Nat /\ Start[i] \in Nat /\ Target[i] \in Nat
    BY Sizes
<1>3. ASSUME NEW r \in Roles
      PROVE  /\ conn[r][i].offset \in Int /\ conn[r][i].row \in Int
             /\ Position(conn[r][i]) = Larger(conn[r][i].offset, conn[r][i].row)
  <2>1. conn[r][i].offset \in Int /\ conn[r][i].row \in Int
    BY Typed DEF Roles, Unset, ConnInv, Shape
  <2> QED
    BY <2>1, MaxOfTwo DEF Position
<1>4. ASSUME conn["replay"][i].offset # Unset
      PROVE  Position(conn["replay"][i]) = Larger(conn["replay"][i].row, 0)
  <2> DEFINE offset == conn["replay"][i].offset
             row == conn["replay"][i].row
  <2>1. offset \in Nat /\ row \in Int /\ offset <= Larger(row, 0)
        /\ Position(conn["replay"][i]) = Larger(offset, row)
    BY <1>1, <1>3, <1>4, Typed DEF ReplayOK, Unset, Roles
  <2> HIDE DEF offset, row
  <2>2. Larger(offset, row) = Larger(row, 0)
    BY <2>1 DEF Larger
  <2> QED
    BY <2>1, <2>2 DEF row
<1>5. ASSUME conn["follow"][i].offset # Unset
      PROVE  Position(conn["follow"][i]) = Larger(conn["follow"][i].row, Goal(i))
  <2> DEFINE offset == conn["follow"][i].offset
             row == conn["follow"][i].row
  <2>1. offset \in Int /\ row \in Int /\ Goal(i) <= offset /\ offset <= Larger(row, Goal(i))
        /\ Position(conn["follow"][i]) = Larger(offset, row)
    BY <1>1, <1>3, <1>5 DEF FollowOK, Roles
  <2> HIDE DEF offset, row
  <2>2. Larger(offset, row) = Larger(row, Goal(i))
    BY <1>2, <2>1 DEF Larger
  <2> QED
    BY <2>1, <2>2 DEF row
<1> QED
    BY <1>4, <1>5

\* Once the archive is there, or a connector, every table partition has its end.
LEMMA DestEnds ==
    ASSUME TypeOK, ConnInv, Archived \/ ~Untouched, NEW i \in Indexes
    PROVE  dest[i] = Prefix(End(i))
<1>1. CASE ~Untouched
    BY <1>1 DEF ConnInv, DestOK
<1>2. CASE Untouched /\ Archived /\ dest[i] = {}
  <2>1. Start[i] = 0
    BY <1>2, Sizes DEF Archived, Prefix
  <2>2. End(i) = 0
    BY <1>2, <2>1 DEF Untouched, End, Absent, Larger, Roles, Unset
  <2> QED
    BY <1>2, <2>2 DEF Prefix
<1> QED
    BY <1>1, <1>2 DEF ConnInv, DestOK

LEMMA NotArchived ==
    ASSUME TypeOK, ConnInv, ~Archived
    PROVE  Untouched
<1>1. ASSUME NEW i \in Indexes, dest[i] = Prefix(End(i)) PROVE Prefix(Start[i]) \subseteq dest[i]
  <2>1. End(i) \in Nat /\ Start[i] <= End(i)
    BY Sizes, Typed DEF End, Larger, Unset
  <2> QED
    BY <1>1, <2>1, Sizes DEF Prefix
<1> QED
    BY <1>1 DEF Archived, ConnInv, DestOK

-----------------------------------------------------------------------------
(* Steps that change one connector.                                          *)

\* No other connector changes.
Only(r, i) == \A q \in Roles, j \in Indexes : q # r \/ j # i => conn'[q][j] = conn[q][j]

Records == [state : {"absent", "STOPPED", "stopping", "RUNNING", "FAILED"}, offset : Int, row : Int]

LEMMA OneChanged ==
    ASSUME Shape, NEW r \in Roles, NEW i \in Indexes, NEW k \in Records,
           conn' = [conn EXCEPT ![r][i] = k]
    PROVE  Shape' /\ conn'[r][i] = k /\ Only(r, i)
<1>1. conn'[r] = [conn[r] EXCEPT ![i] = k] /\ \A q \in Roles : q # r => conn'[q] = conn[q]
    BY DEF Shape
<1>2. conn[r] \in [Indexes -> Records]
    BY DEF Shape, Records
<1>3. conn'[r] \in [Indexes -> Records] /\ conn'[r][i] = k
      /\ \A j \in Indexes : j # i => conn'[r][j] = conn[r][j]
    BY <1>1, <1>2
<1>4. Shape'
    BY <1>1, <1>3 DEF Shape, Records
<1> QED
    BY <1>1, <1>3, <1>4 DEF Only

\* What a connector looks like.
LEMMA Fields ==
    ASSUME ConnInv, NEW r \in Roles, NEW i \in Indexes
    PROVE  conn[r][i] \in Records
    BY DEF ConnInv, Shape, Records

\* What a step about connector i has to show.
LEMMA ConnKept ==
    ASSUME TypeOK, ConnInv, Archived \/ ~Untouched, mode' = mode, Shape', ~repeated',
           NEW i \in Indexes, ReplayOK(i)', FollowOK(i)', dest'[i] = Prefix(End(i)'),
           \A j \in Indexes : j # i => /\ \A r \in Roles : conn'[r][j] = conn[r][j]
                                       /\ user'[j] = user[j] /\ dest'[j] = dest[j]
    PROVE  ConnInv'
<1>1. ASSUME NEW j \in Indexes, j # i PROVE ReplayOK(j)' /\ FollowOK(j)' /\ DestOK(j)'
  <2>1. /\ conn'["replay"][j] = conn["replay"][j] /\ conn'["follow"][j] = conn["follow"][j]
        /\ user'[j] = user[j] /\ dest'[j] = dest[j]
    BY <1>1 DEF Roles
  <2>2. ReplayOK(j) /\ FollowOK(j) /\ dest[j] = Prefix(End(j))
    BY DestEnds DEF ConnInv
  <2>3. ReplayOK(j)'
    BY <2>1, <2>2 DEF ReplayOK, Replays, Bounded
  <2>4. FollowOK(j)'
    BY <2>1, <2>2 DEF FollowOK, HandedOver, Replays, Goal, Bounded
  <2>5. DestOK(j)'
    BY <2>1, <2>2 DEF DestOK, End, Goal, Bounded
  <2> QED
    BY <2>3, <2>4, <2>5
<1>2. DestOK(i)'
    BY DEF DestOK
<1> QED
    BY <1>1, <1>2 DEF ConnInv

\* A replay connector changes, but not what it has inserted.
LEMMA ReplayChanged ==
    ASSUME TypeOK, ConnInv, Archived \/ ~Untouched, UNCHANGED <<mode, user, dest, repeated>>,
           NEW i \in Indexes, Shape', Only("replay", i), ReplayOK(i)',
           conn'["replay"][i].row = conn["replay"][i].row
    PROVE  ConnInv'
<1>1. conn'["follow"][i] = conn["follow"][i]
    BY DEF Only, Roles
<1>2. FollowOK(i) /\ dest[i] = Prefix(End(i)) /\ ~repeated
    BY DestEnds DEF ConnInv
<1>3. FollowOK(i)'
    BY <1>1, <1>2 DEF FollowOK, HandedOver, Replays, Goal, Bounded
<1>4. dest'[i] = Prefix(End(i)')
    BY <1>1, <1>2 DEF End, Goal, Bounded
<1>5. \A j \in Indexes : j # i => \A r \in Roles : conn'[r][j] = conn[r][j]
    BY DEF Only
<1> QED
    BY <1>2, <1>3, <1>4, <1>5, ConnKept

\* A follow connector changes, but not where the destination ends.
LEMMA FollowChanged ==
    ASSUME TypeOK, ConnInv, Archived \/ ~Untouched, UNCHANGED <<mode, dest, repeated>>,
           NEW i \in Indexes, Shape', Only("follow", i), FollowOK(i)', End(i)' = End(i),
           \A j \in Indexes : j # i => user'[j] = user[j]
    PROVE  ConnInv'
<1>1. conn'["replay"][i] = conn["replay"][i]
    BY DEF Only, Roles
<1>2. ReplayOK(i) /\ dest[i] = Prefix(End(i)) /\ ~repeated
    BY DestEnds DEF ConnInv
<1>3. ReplayOK(i)'
    BY <1>1, <1>2 DEF ReplayOK, Replays, Bounded
<1>4. dest'[i] = Prefix(End(i)')
    BY <1>2
<1>5. \A j \in Indexes : j # i => \A r \in Roles : conn'[r][j] = conn[r][j]
    BY DEF Only
<1> QED
    BY <1>2, <1>3, <1>4, <1>5, ConnKept

\* A user resumes a connector.
UserResumes(i) ==
    /\ user[i] # "waits" /\ user'[i] = "resumed"
    /\ \A j \in Indexes : j # i => user'[j] = user[j]

\* A connector changes its state and nothing else.
LEMMA StateChanged ==
    ASSUME TypeOK, ConnInv, UNCHANGED <<mode, dest, repeated>>,
           NEW r \in Roles, NEW i \in Indexes,
           conn[r][i].state # "absent",
           NEW s \in {"STOPPED", "stopping", "RUNNING", "FAILED"},
           conn' = [conn EXCEPT ![r][i] = [conn[r][i] EXCEPT !.state = s]],
           r = "follow" => /\ s # "STOPPED" => conn[r][i].offset # Unset
                           /\ s # "STOPPED" /\ Bounded => user'[i] = "resumed",
           user' = user \/ (r = "follow" /\ UserResumes(i))
    PROVE  ConnInv'
<1> DEFINE k == [conn[r][i] EXCEPT !.state = s]
<1>1. k \in Records /\ k.state = s /\ k.offset = conn[r][i].offset /\ k.row = conn[r][i].row
  <2>1. conn[r][i] \in Records
    BY Fields
  <2> QED
    BY <2>1 DEF Records
<1>2. conn' = [conn EXCEPT ![r][i] = k]
    OBVIOUS
<1> HIDE DEF k
<1>3. Shape' /\ conn'[r][i] = k /\ Only(r, i)
    BY <1>1, <1>2, OneChanged DEF ConnInv
<1>4. ~Untouched
    BY DEF Untouched, Absent
<1>5. ReplayOK(i) /\ FollowOK(i)
    BY DEF ConnInv
<1>6. CASE r = "replay"
  <2>1. ReplayOK(i)'
    BY <1>1, <1>3, <1>5, <1>6 DEF ReplayOK, Replays, Bounded
  <2> QED
    BY <1>1, <1>3, <1>4, <1>6, <2>1, ReplayChanged
<1>7. CASE r = "follow"
  <2>1. conn'["replay"][i] = conn["replay"][i] /\ mode' = mode
    BY <1>3, <1>7 DEF Only, Roles
  <2>2. HandedOver(i)'
    BY <1>5, <1>7, <2>1 DEF FollowOK, HandedOver, Replays, Bounded
  <2>3. user'[i] # "waits" => user[i] # "waits"
    BY <1>7 DEF UserResumes
  <2>4. FollowOK(i)'
    BY <1>1, <1>3, <1>5, <1>7, <2>1, <2>2, <2>3 DEF FollowOK, Goal, Bounded, UserResumes
  <2>5. End(i)' = End(i)
    BY <1>1, <1>3, <1>7, <2>1 DEF End, Goal, Bounded
  <2> QED
    BY <1>3, <1>4, <1>7, <2>4, <2>5, FollowChanged DEF UserResumes
<1> QED
    BY <1>6, <1>7 DEF Roles

-----------------------------------------------------------------------------
(* What goes on outside the controller.                                      *)

\* The archive meets an empty destination.
LEMMA RestoreWritesNext ==
    ASSUME TypeOK, ConnInv, NEW i \in Indexes, RestoreWrites(i)
    PROVE  ConnInv'
<1>1. ~ (Prefix(Start[i]) \subseteq dest[i])
      /\ dest' = [dest EXCEPT ![i] = @ \cup Prefix(Start[i])]
      /\ repeated' = (repeated \/ Prefix(Start[i]) \cap dest[i] # {})
      /\ UNCHANGED <<mode, conn, user>>
    BY DEF RestoreWrites, Inserts, controllerVars, connectVars
<1>2. Untouched
    BY <1>1, NotArchived DEF Archived
<1>3. End(i) = Start[i]
    BY <1>2, Sizes DEF Untouched, End, Absent, Larger, Roles, Unset
<1>4. dest[i] = {}
    BY <1>1, <1>3 DEF ConnInv, DestOK
<1>5. /\ dest'[i] = Prefix(Start[i]) /\ \A j \in Indexes : j # i => dest'[j] = dest[j]
      /\ ~repeated'
    BY <1>1, <1>4 DEF TypeOK, ConnInv
<1>6. Shape' /\ \A j \in Indexes : ReplayOK(j)' /\ FollowOK(j)' /\ End(j)' = End(j)
    BY <1>1 DEF ConnInv, Shape, ReplayOK, FollowOK, HandedOver, Replays, Goal, Bounded, End
<1>7. Untouched'
    BY <1>1, <1>2 DEF Untouched
<1>8. \A j \in Indexes : DestOK(j)'
    BY <1>3, <1>5, <1>6, <1>7 DEF ConnInv, DestOK
<1> QED
    BY <1>5, <1>6, <1>8 DEF ConnInv

\* The next record after the first n.
LEMMA OneMore ==
    ASSUME NEW n \in Nat
    PROVE  Prefix(n) \cup {n} = Prefix(n + 1) /\ {n} \cap Prefix(n) = {}
    BY DEF Prefix

\* A connector inserts the record at the end of the destination, and no other.
LEMMA IngestNext ==
    ASSUME TypeOK, ConnInv, NEW r \in Roles, NEW i \in Indexes, Ingest(r, i)
    PROVE  ConnInv'
<1> DEFINE next == Position(conn[r][i])
           k == [conn[r][i] EXCEPT !.row = next + 1]
<1>1. /\ conn[r][i].state \in {"RUNNING", "stopping"} /\ conn[r][i].offset # Unset
      /\ next < EndOf(r, i)
      /\ dest' = [dest EXCEPT ![i] = @ \cup {BaseOf(r, i) + next}]
      /\ repeated' = (repeated \/ {BaseOf(r, i) + next} \cap dest[i] # {})
      /\ conn' = [conn EXCEPT ![r][i] = k]
      /\ UNCHANGED <<mode, user>>
    BY DEF Ingest, Inserts, controllerVars
<1>2. conn[r][i] \in Records
    BY Fields
<1>3. ~Untouched
    BY <1>1 DEF Untouched, Absent
<1>4. ReplayOK(i) /\ FollowOK(i) /\ dest[i] = Prefix(End(i)) /\ ~repeated /\ Shape
    BY <1>3, DestEnds DEF ConnInv
<1>5. /\ Start[i] \in Nat /\ Target[i] \in Nat /\ Goal(i) \in Nat /\ LogEnd[i] \in Nat
    BY Sizes
<1>6. \A j \in Indexes : j # i => dest'[j] = dest[j]
    BY <1>1 DEF TypeOK
<1>7. CASE r = "replay"
  <2>1. next = Larger(conn["replay"][i].row, 0) /\ conn["replay"][i].row \in Int
    BY <1>1, <1>2, <1>7, Positions DEF Records
  <2> HIDE DEF next
  <2>2. next \in Nat
    BY <2>1 DEF Larger
  <2>3. k \in Records /\ k.state = conn[r][i].state /\ k.offset = conn[r][i].offset
        /\ k.row = next + 1
    BY <1>2, <2>2 DEF Records
  <2> HIDE DEF k
  <2>4. Shape' /\ conn'[r][i] = k /\ Only(r, i)
    BY <1>1, <1>4, <2>3, OneChanged
  <2>5. Replays(i) /\ next < Target[i] - Start[i]
    BY <1>1, <1>4, <1>7 DEF ReplayOK, EndOf
  <2>6. conn["follow"][i].state = "absent"
    BY <1>4, <1>5, <2>1, <2>5 DEF FollowOK, HandedOver, Larger
  <2>7. conn'["follow"][i] = conn["follow"][i]
    BY <1>7, <2>4 DEF Only, Roles
  <2>8. dest[i] = Prefix(Start[i] + next)
    BY <1>4, <2>1, <2>6 DEF End
  <2>9. dest'[i] = Prefix(Start[i] + next + 1) /\ ~repeated'
    <3> DEFINE n == Start[i] + next
    <3>1. n \in Nat /\ BaseOf(r, i) + next = n /\ dest[i] = Prefix(n)
      BY <1>5, <1>7, <2>2, <2>8 DEF BaseOf
    <3> HIDE DEF n
    <3>2. dest'[i] = Prefix(n) \cup {n}
      BY <1>1, <3>1 DEF TypeOK
    <3>3. ~repeated'
      BY <1>1, <1>4, <3>1, OneMore, Zenon
    <3> QED
      BY <3>1, <3>2, <3>3, OneMore DEF n
  <2>10. End(i)' = Start[i] + next + 1
    BY <1>5, <1>7, <2>2, <2>3, <2>4, <2>6, <2>7 DEF End, Larger
  <2>11. ReplayOK(i)'
    BY <1>1, <1>2, <1>4, <1>7, <2>1, <2>2, <2>3, <2>4
       DEF ReplayOK, Replays, Bounded, Larger, Records
  <2>12. FollowOK(i)'
    BY <1>1, <1>4, <2>6, <2>7 DEF FollowOK, Goal, Bounded, Absent
  <2>13. \A j \in Indexes : j # i => \A q \in Roles : conn'[q][j] = conn[q][j]
    BY <2>4 DEF Only
  <2> QED
    BY <1>1, <1>3, <1>6, <2>4, <2>9, <2>10, <2>11, <2>12, <2>13, ConnKept
<1>8. CASE r = "follow"
  <2>1. next = Larger(conn["follow"][i].row, Goal(i)) /\ conn["follow"][i].row \in Int
    BY <1>1, <1>2, <1>8, Positions DEF Records
  <2> HIDE DEF next
  <2>2. next \in Nat /\ Goal(i) <= next /\ next >= conn["follow"][i].row
    BY <1>5, <2>1 DEF Larger
  <2>3. k \in Records /\ k.state = conn[r][i].state /\ k.offset = conn[r][i].offset
        /\ k.row = next + 1
    BY <1>2, <2>2 DEF Records
  <2> HIDE DEF k
  <2>4. Shape' /\ conn'[r][i] = k /\ Only(r, i)
    BY <1>1, <1>4, <2>3, OneChanged
  <2>5. dest[i] = Prefix(next)
    BY <1>1, <1>4, <1>8, <2>1 DEF End
  <2>6. dest'[i] = Prefix(next + 1) /\ ~repeated'
    <3>1. BaseOf(r, i) + next = next
      BY <1>8, <2>2 DEF BaseOf
    <3>2. dest'[i] = Prefix(next) \cup {next}
      BY <1>1, <2>5, <3>1 DEF TypeOK
    <3>3. ~repeated'
      BY <1>1, <1>4, <2>2, <2>5, <3>1, OneMore, Zenon
    <3> QED
      BY <2>2, <3>2, <3>3, OneMore
  <2>7. conn'["replay"][i] = conn["replay"][i]
    BY <1>8, <2>4 DEF Only, Roles
  <2>8. End(i)' = next + 1
    BY <1>1, <1>5, <1>8, <2>2, <2>3, <2>4 DEF End, Larger, Goal, Bounded
  <2>9. ReplayOK(i)'
    BY <1>1, <1>4, <2>7 DEF ReplayOK, Replays, Bounded
  <2>10. HandedOver(i)'
    BY <1>1, <1>4, <1>8, <2>7 DEF FollowOK, HandedOver, Replays, Bounded
  <2>11. conn["follow"][i].offset <= Larger(conn["follow"][i].row, Goal(i))
         /\ conn["follow"][i].offset \in Int /\ Goal(i) <= conn["follow"][i].offset
    BY <1>1, <1>2, <1>4, <1>8 DEF FollowOK, Records
  <2>12. k.offset <= Larger(k.row, Goal(i))
    BY <1>5, <1>8, <2>1, <2>2, <2>3, <2>11 DEF Larger
  <2>13. Goal(i)' = Goal(i)
    BY <1>1 DEF Goal, Bounded
  <2>14. FollowOK(i)'
    BY <1>1, <1>4, <1>5, <1>8, <2>2, <2>3, <2>4, <2>10, <2>11, <2>12, <2>13 DEF FollowOK, Bounded
  <2>15. \A j \in Indexes : j # i => \A q \in Roles : conn'[q][j] = conn[q][j]
    BY <2>4 DEF Only
  <2> QED
    BY <1>1, <1>3, <1>6, <2>4, <2>6, <2>8, <2>9, <2>14, <2>15, ConnKept
<1> QED
    BY <1>7, <1>8 DEF Roles

\* Connect commits what was inserted.
LEMMA CommitOffsetNext ==
    ASSUME TypeOK, ConnInv, NEW r \in Roles, NEW i \in Indexes, CommitOffset(r, i)
    PROVE  ConnInv'
<1> DEFINE k == [conn[r][i] EXCEPT !.offset = conn[r][i].row]
<1>1. /\ conn[r][i].state \in {"RUNNING", "stopping"}
      /\ conn[r][i].offset # Unset /\ conn[r][i].offset < conn[r][i].row
      /\ conn' = [conn EXCEPT ![r][i] = k]
      /\ UNCHANGED <<mode, user, dest, repeated>>
    BY DEF CommitOffset, controllerVars, tableVars
<1>2. conn[r][i] \in Records
    BY Fields
<1>3. k \in Records /\ k.state = conn[r][i].state
      /\ k.offset = conn[r][i].row /\ k.row = conn[r][i].row
    BY <1>2 DEF Records
<1> HIDE DEF k
<1>4. Shape' /\ conn'[r][i] = k /\ Only(r, i)
    BY <1>1, <1>3, OneChanged DEF ConnInv
<1>5. ~Untouched
    BY <1>1 DEF Untouched, Absent
<1>6. ReplayOK(i) /\ FollowOK(i) /\ Goal(i) \in Nat
    BY Sizes DEF ConnInv
<1>7. conn[r][i].row \in Int /\ conn[r][i].offset \in Int
    BY <1>2 DEF Records
<1>8. CASE r = "replay"
  <2>1. ReplayOK(i)'
    BY <1>1, <1>3, <1>4, <1>6, <1>7, <1>8 DEF ReplayOK, Replays, Bounded, Larger
  <2> QED
    BY <1>1, <1>3, <1>4, <1>5, <1>8, <2>1, ReplayChanged
<1>9. CASE r = "follow"
  <2>1. conn'["replay"][i] = conn["replay"][i]
    BY <1>4, <1>9 DEF Only, Roles
  <2>2. HandedOver(i)'
    BY <1>1, <1>6, <1>9, <2>1 DEF FollowOK, HandedOver, Replays, Bounded
  <2>3. /\ conn["follow"][i].offset \in 0 .. LogEnd[i]
        /\ conn["follow"][i].row >= Goal(i) /\ conn["follow"][i].row # Unset
    BY <1>1, <1>6, <1>7, <1>9, Typed DEF FollowOK, Unset
  <2>4. FollowOK(i)'
    BY <1>1, <1>3, <1>4, <1>6, <1>7, <1>9, <2>2, <2>3 DEF FollowOK, Goal, Bounded, Larger
  <2>5. End(i)' = End(i)
    BY <1>1, <1>3, <1>4, <1>9, <2>1 DEF End, Goal, Bounded
  <2> QED
    BY <1>1, <1>4, <1>5, <1>9, <2>4, <2>5, FollowChanged
<1> QED
    BY <1>8, <1>9 DEF Roles

\* Tasks that fail or stop, and a user who resumes a connector.
LEMMA TaskNext ==
    ASSUME TypeOK, ConnInv, NEW r \in Roles, NEW i \in Indexes,
           TaskFails(r, i) \/ SinkFails(r, i) \/ TaskStops(r, i) \/ Cutover(i)
    PROVE  ConnInv'
<1> USE DEF controllerVars, tableVars
<1>1. FollowOK(i) /\ ReplayOK(i)
    BY DEF ConnInv
<1>2. CASE TaskFails(r, i) \/ SinkFails(r, i)
  <2>1. /\ conn[r][i].state = "RUNNING"
        /\ conn' = [conn EXCEPT ![r][i] = [conn[r][i] EXCEPT !.state = "FAILED"]]
        /\ UNCHANGED <<mode, user, dest, repeated>>
    BY <1>2 DEF TaskFails, SinkFails
  <2>2. r = "follow" => /\ conn[r][i].offset # Unset
                        /\ Bounded => user'[i] = "resumed"
    BY <1>1, <2>1 DEF FollowOK
  <2> QED
    BY <2>1, <2>2, StateChanged
<1>3. CASE TaskStops(r, i)
  <2>1. /\ conn[r][i].state = "stopping"
        /\ conn' = [conn EXCEPT ![r][i] = [conn[r][i] EXCEPT !.state = "STOPPED"]]
        /\ UNCHANGED <<mode, user, dest, repeated>>
    BY <1>3 DEF TaskStops
  <2> QED
    BY <2>1, StateChanged
<1>4. CASE Cutover(i)
  <2> DEFINE F == conn["follow"][i]
  <2>1. /\ user[i] = "told" /\ user' = [user EXCEPT ![i] = "resumed"]
        /\ conn' = [conn EXCEPT !["follow"][i] = Resumed(F)]
        /\ UNCHANGED <<mode, dest, repeated>>
    BY <1>4 DEF Cutover
  <2>2. UserResumes(i) /\ user'[i] = "resumed"
    BY <2>1 DEF TypeOK, UserResumes
  <2>3. F.offset # Unset /\ F.state # "absent"
    <3>1. F.offset # Unset
      BY <1>1, <2>1 DEF FollowOK
    <3>2. Absent.offset = Unset
      BY DEF Absent
    <3> QED
      BY <1>1, <3>1, <3>2 DEF FollowOK
  <2>4. F = [F EXCEPT !.state = F.state] /\ F.state \in {"STOPPED", "stopping", "RUNNING", "FAILED"}
    <3>1. F \in Records
      BY Fields DEF Roles
    <3> QED
      BY <2>3, <3>1 DEF Records
  <2>5. \E s \in {"STOPPED", "stopping", "RUNNING", "FAILED"} :
            Resumed(F) = [F EXCEPT !.state = s]
    <3>1. CASE F.state \in {"STOPPED", "stopping"}
      BY <3>1 DEF Resumed
    <3>2. CASE F.state \notin {"STOPPED", "stopping"}
      BY <2>4, <3>2 DEF Resumed
    <3> QED
      BY <3>1, <3>2
  <2>6. PICK s \in {"STOPPED", "stopping", "RUNNING", "FAILED"} :
            Resumed(F) = [F EXCEPT !.state = s]
    BY <2>5
  <2>7. PICK q \in Roles : q = "follow"
    BY DEF Roles
  <2>8. /\ conn' = [conn EXCEPT ![q][i] = [conn[q][i] EXCEPT !.state = s]]
        /\ conn[q][i].state # "absent" /\ conn[q][i].offset # Unset
    BY <2>1, <2>3, <2>6, <2>7
  <2> QED
    BY <2>1, <2>2, <2>6, <2>7, <2>8, StateChanged
<1> QED
    BY <1>2, <1>3, <1>4

-----------------------------------------------------------------------------
(* The controller's requests.                                                *)

\* A running or failed task is told to stop.
LEMMA StopNext ==
    ASSUME TypeOK, ConnInv, PlaceInv, Stop
    PROVE  ConnInv'
<1>1. /\ pc = "stop" /\ UNCHANGED <<mode, dest, repeated, user>>
      /\ conn' = [conn EXCEPT ![role][index] = Stopped(This)]
      /\ role \in Roles /\ index \in Indexes
    BY DEF Stop, Sets, Proceeds, tableVars, TypeOK
<1>2. This = conn[role][index] /\ This.state # "absent" /\ FollowOK(index)
    BY <1>1 DEF This, PlaceInv, PlaceAt, ConnInv
<1>3. CASE This.state \in {"RUNNING", "FAILED"}
  <2>1. role = "follow" => /\ This.offset # Unset
                           /\ Bounded => user'[index] = "resumed"
    BY <1>1, <1>2, <1>3 DEF FollowOK
  <2>2. \E s \in {"stopping", "STOPPED"} : Stopped(This) = [This EXCEPT !.state = s]
    BY <1>3 DEF Stopped
  <2>3. PICK s \in {"STOPPED", "stopping", "RUNNING", "FAILED"} :
            Stopped(This) = [This EXCEPT !.state = s]
    BY <2>2
  <2>4. PICK r \in Roles, i \in Indexes : r = role /\ i = index
    BY <1>1
  <2>5. conn' = [conn EXCEPT ![r][i] = [conn[r][i] EXCEPT !.state = s]]
    BY <1>1, <1>2, <2>3, <2>4
  <2>6. /\ conn[r][i].state # "absent" /\ UNCHANGED <<mode, dest, repeated, user>>
        /\ r = "follow" => /\ s # "STOPPED" => conn[r][i].offset # Unset
                           /\ s # "STOPPED" /\ Bounded => user'[i] = "resumed"
    BY <1>1, <1>2, <2>1, <2>4
  <2> QED
    BY <2>5, <2>6, StateChanged
<1>4. CASE This.state \notin {"RUNNING", "FAILED"}
  <2>1. conn' = conn
    BY <1>1, <1>2, <1>4 DEF ConnInv, Shape, Stopped
  <2> QED
    BY <1>1, <2>1 DEF ConnInv, Shape, ReplayOK, FollowOK, DestOK, End, HandedOver, Replays,
                      Goal, Bounded, Untouched
<1> QED
    BY <1>3, <1>4

\* A connector is asked to run: a replay connector, or a live follow connector.
LEMMA ResumeNext ==
    ASSUME TypeOK, ConnInv, PlaceInv, Resume
    PROVE  ConnInv'
<1>1. /\ pc = "resume" /\ UNCHANGED <<mode, dest, repeated, user>>
      /\ conn' = [conn EXCEPT ![role][index] =
                     IF This.state \in {"STOPPED", "stopping"}
                     THEN [This EXCEPT !.state = "RUNNING"] ELSE This]
      /\ role \in Roles /\ index \in Indexes
    BY DEF Resume, Resumed, Sets, Proceeds, tableVars, TypeOK
<1>2. /\ This = conn[role][index] /\ This.state # "absent"
      /\ role = "follow" => This.offset # Unset /\ ~Bounded
    BY <1>1 DEF This, PlaceInv, PlaceAt
<1>3. CASE This.state \in {"STOPPED", "stopping"}
    BY <1>1, <1>2, <1>3, StateChanged
<1>4. CASE This.state \notin {"STOPPED", "stopping"}
  <2>1. conn' = conn
    BY <1>1, <1>2, <1>4 DEF ConnInv, Shape
  <2> QED
    BY <1>1, <2>1 DEF ConnInv, Shape, ReplayOK, FollowOK, DestOK, End, HandedOver, Replays,
                      Goal, Bounded, Untouched
<1> QED
    BY <1>3, <1>4

\* A connector is created when what it begins with is there.
LEMMA Created ==
    ASSUME TypeOK, ConnInv, Archived, UNCHANGED <<mode, dest, repeated, user>>,
           NEW r \in Roles, NEW i \in Indexes,
           conn[r][i].state = "absent",
           conn' = [conn EXCEPT ![r][i] = [conn[r][i] EXCEPT !.state = "STOPPED"]],
           IF r = "replay" THEN Replays(i) ELSE HandedOver(i)
    PROVE  ConnInv'
<1> DEFINE k == [conn[r][i] EXCEPT !.state = "STOPPED"]
<1>1. conn[r][i] \in Records
    BY Fields
<1>2. /\ k \in Records /\ k.state = "STOPPED"
      /\ k.offset = conn[r][i].offset /\ k.row = conn[r][i].row
    BY <1>1 DEF Records
<1>3. conn' = [conn EXCEPT ![r][i] = k]
    OBVIOUS
<1> HIDE DEF k
<1>4. Shape' /\ conn'[r][i] = k /\ Only(r, i)
    BY <1>2, <1>3, OneChanged DEF ConnInv
<1>5. ReplayOK(i) /\ FollowOK(i)
    BY DEF ConnInv
<1>6. k.offset = Unset /\ k.row = Unset /\ conn[r][i] = Absent
    BY <1>2, <1>5 DEF ReplayOK, FollowOK, Roles, Absent
<1>7. mode' = mode /\ user' = user
    OBVIOUS
<1>8. CASE r = "replay"
  <2>1. conn'["replay"][i] = k /\ Replays(i)
    BY <1>4, <1>8
  <2>2. Replays(i)'
    BY <1>7, <2>1 DEF Replays, Bounded
  <2>3. ReplayOK(i)'
    <3>1. k.state # "absent" /\ k.offset <= Larger(k.row, 0) /\ k.row # 0
      BY <1>2, <1>6 DEF Larger, Unset
    <3> QED
      BY <2>1, <2>2, <3>1 DEF ReplayOK
  <2>4. conn'["replay"][i].row = conn["replay"][i].row
    BY <1>2, <1>4, <1>8
  <2> QED
    BY <1>4, <1>7, <1>8, <2>3, <2>4, ReplayChanged
<1>9. CASE r = "follow"
  <2>1. conn'["replay"][i] = conn["replay"][i]
    BY <1>4, <1>9 DEF Only, Roles
  <2>2. HandedOver(i) /\ HandedOver(i)'
    BY <1>7, <1>9, <2>1 DEF HandedOver, Replays, Bounded
  <2>3. user[i] = "waits"
    BY <1>2, <1>5, <1>6, <1>9 DEF FollowOK
  <2>4. conn'["follow"][i] = k
    BY <1>4, <1>9
  <2>5. FollowOK(i)'
    BY <1>2, <1>6, <1>7, <2>2, <2>3, <2>4 DEF FollowOK
  <2>6. End(i) = Goal(i)
    <3>1. /\ Start[i] \in Nat /\ Target[i] \in Nat /\ Start[i] <= Target[i]
          /\ Replays(i) => Goal(i) = Target[i]
          /\ ~Replays(i) => Goal(i) = Start[i]
      BY Sizes
    <3>2. End(i) = Start[i] + Larger(conn["replay"][i].row, 0)
      BY <1>9 DEF End
    <3>3. CASE Replays(i)
      BY <2>2, <3>1, <3>2, <3>3 DEF HandedOver, Larger
    <3>4. CASE ~Replays(i)
      <4>1. conn["replay"][i].row = -1
        BY <1>5, <3>4 DEF ReplayOK, Absent, Unset
      <4> QED
        BY <3>1, <3>2, <3>4, <4>1 DEF Larger
    <3> QED
      BY <3>3, <3>4
  <2>7. Goal(i)' = Goal(i) /\ Goal(i) \in Nat
    BY <1>7, Sizes DEF Goal, Bounded
  <2>8. End(i)' = Goal(i)
    <3>1. Larger(Unset, Goal(i)) = Goal(i)
      BY <2>7 DEF Larger, Unset
    <3>2. End(i)' = Larger(k.row, Goal(i)')
      BY <1>2, <2>4 DEF End
    <3> QED
      BY <1>6, <2>7, <3>1, <3>2
  <2> QED
    BY <1>4, <1>9, <2>5, <2>6, <2>8, FollowChanged
<1> QED
    BY <1>8, <1>9 DEF Roles

\* A stopped connector gets its first offset.
LEMMA Patched ==
    ASSUME TypeOK, ConnInv, UNCHANGED <<mode, dest, repeated, user>>,
           NEW r \in Roles, NEW i \in Indexes,
           conn[r][i].state = "STOPPED",
           NEW n, n = (IF r = "replay" THEN 0 ELSE Goal(i)),
           conn' = [conn EXCEPT ![r][i] = [conn[r][i] EXCEPT !.offset = n]]
    PROVE  ConnInv'
<1> DEFINE k == [conn[r][i] EXCEPT !.offset = n]
<1>1. conn[r][i] \in Records
    BY Fields
<1>2. n \in Nat /\ Goal(i) \in Nat
    BY Sizes
<1>3. /\ k \in Records /\ k.state = "STOPPED" /\ k.offset = n /\ k.row = conn[r][i].row
    BY <1>1, <1>2 DEF Records
<1>4. conn' = [conn EXCEPT ![r][i] = k]
    OBVIOUS
<1> HIDE DEF k
<1>5. Shape' /\ conn'[r][i] = k /\ Only(r, i)
    BY <1>3, <1>4, OneChanged DEF ConnInv
<1>6. ReplayOK(i) /\ FollowOK(i)
    BY DEF ConnInv
<1>7. mode' = mode /\ user' = user /\ ~Untouched
    BY DEF Untouched, Absent
<1>8. k.row \in Int
    BY <1>3 DEF Records
<1>9. CASE r = "replay"
  <2>1. conn'["replay"][i] = k /\ conn["replay"][i].row = k.row
        /\ conn["replay"][i].state = "STOPPED"
    BY <1>3, <1>5, <1>9
  <2>2. ReplayOK(i)'
    BY <1>2, <1>3, <1>6, <1>7, <1>8, <1>9, <2>1 DEF ReplayOK, Replays, Bounded, Larger
  <2> QED
    BY <1>5, <1>7, <1>9, <2>1, <2>2, ReplayChanged
<1>10. CASE r = "follow"
  <2>1. conn'["replay"][i] = conn["replay"][i]
    BY <1>5, <1>10 DEF Only, Roles
  <2>2. conn'["follow"][i] = k /\ conn["follow"][i].row = k.row
        /\ conn["follow"][i].state = "STOPPED" /\ n = Goal(i)
    BY <1>3, <1>5, <1>10
  <2>3. HandedOver(i)'
    BY <1>6, <1>7, <2>1, <2>2 DEF FollowOK, HandedOver, Replays, Bounded
  <2>4. Goal(i)' = Goal(i) /\ Bounded' = Bounded
    BY <1>7 DEF Goal, Bounded
  <2>5. Goal(i) <= Larger(k.row, Goal(i)) /\ n # Unset
    BY <1>2, <1>8, <2>2 DEF Larger, Unset
  <2>6. FollowOK(i)'
    BY <1>2, <1>3, <1>6, <1>7, <1>8, <2>2, <2>3, <2>4, <2>5 DEF FollowOK
  <2>7. End(i)' = End(i)
    BY <1>3, <2>1, <2>2, <2>4 DEF End
  <2> QED
    BY <1>5, <1>7, <1>10, <2>6, <2>7, FollowChanged
<1> QED
    BY <1>9, <1>10 DEF Roles

\* The row of a follow connector that has an offset is written, or is there.
LEMMA Hydrated ==
    ASSUME TypeOK, ConnInv, UNCHANGED <<mode, dest, repeated, user>>, NEW i \in Indexes,
           conn["follow"][i].offset # Unset, conn["follow"][i].row \in {Unset, GoalRow(i)},
           conn' = [conn EXCEPT !["follow"][i] = [conn["follow"][i] EXCEPT !.row = GoalRow(i)]]
    PROVE  ConnInv'
<1> DEFINE F == conn["follow"][i]
           k == [F EXCEPT !.row = GoalRow(i)]
<1>1. PICK r \in Roles : r = "follow"
    BY DEF Roles
<1>2. F \in Records
    BY <1>1, Fields
<1>3. Goal(i) \in Nat /\ GoalRow(i) = IF Goal(i) = 0 THEN Unset ELSE Goal(i)
    BY Sizes
<1>4. GoalRow(i) \in Int
    BY <1>3 DEF Unset
<1>5. k \in Records /\ k.state = F.state /\ k.offset = F.offset /\ k.row = GoalRow(i)
    BY <1>2, <1>4 DEF Records
<1>6. conn' = [conn EXCEPT ![r][i] = k]
    BY <1>1
<1> HIDE DEF k
<1>7. Shape' /\ conn'[r][i] = k /\ Only(r, i)
    BY <1>5, <1>6, OneChanged DEF ConnInv
<1>8. FollowOK(i) /\ F.state # "absent"
    BY DEF ConnInv, FollowOK, Absent
<1>9. conn'["replay"][i] = conn["replay"][i] /\ conn'["follow"][i] = k
    BY <1>1, <1>7 DEF Only, Roles
<1>10. mode' = mode /\ user' = user /\ ~Untouched
    BY <1>1, <1>8 DEF Untouched, Absent
<1>11. HandedOver(i)'
    BY <1>8, <1>9, <1>10 DEF FollowOK, HandedOver, Replays, Bounded
<1>12. /\ Larger(F.row, Goal(i)) = Goal(i) /\ Larger(k.row, Goal(i)) = Goal(i)
       /\ GoalRow(i) # Unset => GoalRow(i) >= Goal(i)
       /\ GoalRow(i) \in {Unset, Goal(i)}
    BY <1>3, <1>5 DEF Larger, Unset
<1>13. Goal(i)' = Goal(i) /\ Bounded' = Bounded
    BY <1>10 DEF Goal, Bounded
<1>14. FollowOK(i)'
    BY <1>3, <1>5, <1>8, <1>9, <1>10, <1>11, <1>12, <1>13 DEF FollowOK
<1>15. End(i)' = End(i)
    BY <1>5, <1>8, <1>9, <1>12, <1>13 DEF End
<1> QED
    BY <1>1, <1>7, <1>10, <1>14, <1>15, FollowChanged

\* Nothing about the connectors changes.
LEMMA ConnSame ==
    ASSUME ConnInv, UNCHANGED <<mode, dest, repeated, user, conn>>
    PROVE  ConnInv'
    BY DEF ConnInv, Shape, ReplayOK, FollowOK, DestOK, End, HandedOver, Replays, Goal, Bounded,
           Untouched

LEMMA InitializationNext ==
    ASSUME TypeOK, ConnInv, RestoreInv, PlaceInv, CreateStopped \/ PatchOffsets \/ Hydrate
    PROVE  ConnInv'
<1>1. role \in Roles /\ index \in Indexes /\ This = conn[role][index]
    BY DEF TypeOK, This
<1>2. conn[role][index] \in Records
    BY <1>1, Fields
<1>3. CASE CreateStopped
  <2>1. /\ pc = "create" /\ UNCHANGED <<mode, dest, repeated, user>>
        /\ conn' = [conn EXCEPT ![role][index] =
                       IF conn[role][index].state = "absent"
                       THEN [conn[role][index] EXCEPT !.state = "STOPPED"] ELSE conn[role][index]]
    BY <1>1, <1>3 DEF CreateStopped, Sets, Proceeds, tableVars, This
  <2>2. Archived /\ (IF role = "replay" THEN Replays(index) ELSE HandedOver(index))
    BY <2>1 DEF RestoreInv, PlaceInv, PlaceAt, ConnectorSteps
  <2>3. CASE conn[role][index].state = "absent"
    BY <1>1, <2>1, <2>2, <2>3, Created
  <2>4. CASE conn[role][index].state # "absent"
    <3>1. conn' = conn
      BY <1>1, <2>1, <2>4 DEF ConnInv, Shape
    <3> QED
      BY <2>1, <3>1, ConnSame
  <2> QED
    BY <2>3, <2>4
<1>4. CASE PatchOffsets
  <2>1. /\ UNCHANGED <<mode, dest, repeated, user>>
        /\ \/ /\ conn[role][index].state = "STOPPED"
              /\ conn' = [conn EXCEPT ![role][index] =
                             [conn[role][index] EXCEPT !.offset = FirstOffset]]
           \/ conn' = conn
    BY <1>4 DEF PatchOffsets, Sets, Proceeds, Bails, tableVars, connectVars, This
  <2>2. FirstOffset = IF role = "replay" THEN 0 ELSE Goal(index)
    BY DEF FirstOffset
  <2> QED
    BY <1>1, <2>1, <2>2, Patched, ConnSame
<1>5. CASE Hydrate
  <2>1. /\ pc = "hydrate" /\ UNCHANGED <<mode, dest, repeated, user>>
        /\ \/ /\ conn[role][index].row \in {Unset, GoalRow(index)}
              /\ conn' = [conn EXCEPT ![role][index] =
                             [conn[role][index] EXCEPT !.row = GoalRow(index)]]
           \/ conn' = conn
    BY <1>5 DEF Hydrate, Sets, Proceeds, Bails, tableVars, connectVars, This
  <2>2. role = "follow" /\ conn["follow"][index].offset # Unset
    BY <2>1 DEF PlaceInv, PlaceAt, This
  <2> QED
    BY <1>1, <2>1, <2>2, Hydrated, ConnSame
<1> QED
    BY <1>3, <1>4, <1>5

\* Every connector is listed by a recovery that ends, and only then is the user told.
LEMMA FinishNext ==
    ASSUME TypeOK, ConnInv, PlaceInv, Finish
    PROVE  ConnInv'
<1>1. /\ UNCHANGED <<mode, dest, repeated, conn>> /\ pc = "finish"
      /\ user' = IF Bounded /\ "cutover" \in Faults
                 THEN [i \in Indexes |-> IF user[i] = "waits" THEN "told" ELSE user[i]]
                 ELSE user
    BY DEF Finish, tableVars
<1>2. ASSUME NEW i \in Indexes PROVE FollowOK(i)'
  <2>1. FollowOK(i) /\ conn["follow"][i].offset # Unset
    BY <1>1 DEF ConnInv, PlaceInv, PlaceAt
  <2>2. /\ user'[i] # "waits" => user[i] # "waits" \/ Bounded
        /\ user'[i] # "resumed" => user[i] # "resumed"
    BY <1>1
  <2> QED
    BY <1>1, <2>1, <2>2 DEF FollowOK, HandedOver, Replays, Goal, Bounded
<1> QED
    BY <1>1, <1>2
       DEF ConnInv, Shape, ReplayOK, DestOK, End, Replays, Goal, Bounded, Untouched

LEMMA ConnNext == TypeOK /\ ConnInv /\ RestoreInv /\ PlaceInv /\ [Next]_vars => ConnInv'
<1> SUFFICES ASSUME TypeOK, ConnInv, RestoreInv, PlaceInv, [Next]_vars PROVE ConnInv'
    OBVIOUS
<1> USE DEF tableVars, connectVars, controllerVars
<1>1. CASE Reconcile
  <2>1. CASE CreateStopped \/ PatchOffsets \/ Hydrate
    BY <2>1, InitializationNext
  <2>2. CASE Stop \/ Resume \/ Finish
    BY <2>2, StopNext, ResumeNext, FinishNext
  <2>3. CASE \/ Begin \/ DestinationRows \/ MarkRestoring \/ RestoreState \/ RestoreTable
             \/ AwaitRestore \/ MarkReplaying
    BY <2>3, ConnSame DEF Begin, DestinationRows, MarkRestoring, RestoreState, RestoreTable,
                          AwaitRestore, MarkReplaying, Proceeds, Bails
  <2>4. CASE \/ Copy \/ KeeperRows \/ AwaitStopped \/ VerifyRetained \/ CompareOffsets
             \/ WaitRunning \/ WaitOffsets \/ CheckOffsets \/ Progress \/ CheckStopped
    BY <2>4, ConnSame
       DEF Copy, KeeperRows, AwaitStopped, VerifyRetained, CompareOffsets, WaitRunning,
                          WaitOffsets, CheckOffsets, Progress, CheckStopped, Proceeds, Bails,
                          Advances
  <2> QED
    BY <1>1, <2>1, <2>2, <2>3, <2>4 DEF Reconcile
<1>2. CASE Fail \/ Crash \/ Observe \/ RestoreEnds \/ Amnesia \/ UNCHANGED vars
    BY <1>2, ConnSame DEF Fail, Crash, Observe, RestoreEnds, Amnesia, vars
<1>3. ASSUME NEW i \in Indexes, RestoreWrites(i) \/ TrimReplay(i) \/ Cutover(i) PROVE ConnInv'
    BY <1>3, RestoreWritesNext, TaskNext, ConnSame DEF TrimReplay, Roles
<1>4. ASSUME NEW r \in Roles, NEW i \in Indexes,
             \/ Ingest(r, i) \/ CommitOffset(r, i) \/ TaskFails(r, i)
             \/ SinkFails(r, i) \/ TaskStops(r, i)
      PROVE  ConnInv'
    BY <1>4, IngestNext, CommitOffsetNext, TaskNext
<1> QED
    BY <1>1, <1>2, <1>3, <1>4 DEF Next, Idle

-----------------------------------------------------------------------------
(* What no step takes back.                                                  *)

\* A connector does not disappear, nor does its offset or its row, which grows.
Grows ==
    \A r \in Roles, i \in Indexes :
        LET k == conn[r][i]
            l == conn'[r][i]
        IN  /\ k.state # "absent" => l.state # "absent"
            /\ k.offset # Unset => l.offset # Unset
            /\ k.row <= l.row

LEMMA OneGrows ==
    ASSUME ConnInv, NEW r \in Roles, NEW i \in Indexes, NEW k \in Records,
           conn' = [conn EXCEPT ![r][i] = k],
           conn[r][i].state # "absent" => k.state # "absent",
           conn[r][i].offset # Unset => k.offset # Unset,
           conn[r][i].row <= k.row
    PROVE  Grows
<1>1. conn'[r][i] = k /\ Only(r, i)
    BY OneChanged DEF ConnInv
<1>2. \A q \in Roles, j \in Indexes : conn[q][j].row \in Int
    BY Fields DEF Records
<1> QED
    BY <1>1, <1>2 DEF Grows, Only

LEMMA AllSame == ASSUME ConnInv, conn' = conn PROVE Grows
<1>1. \A q \in Roles, j \in Indexes : conn[q][j].row \in Int
    BY Fields DEF Records
<1> QED
    BY <1>1 DEF Grows

LEMMA GrowsNext == TypeOK /\ ConnInv /\ PlaceInv /\ [Next]_vars => Grows
<1> SUFFICES ASSUME TypeOK, ConnInv, PlaceInv, [Next]_vars PROVE Grows
    OBVIOUS
<1> USE DEF tableVars, connectVars, controllerVars
<1>1. role \in Roles /\ index \in Indexes /\ This = conn[role][index]
    BY DEF TypeOK, This
<1>2. CASE CreateStopped \/ PatchOffsets \/ Hydrate \/ Stop \/ Resume
  <2> DEFINE T == conn[role][index]
  <2>1. T \in Records /\ T.row \in Int
    BY <1>1, Fields DEF Records
  <2>2. GoalRow(index) \in Int /\ Goal(index) \in Nat /\ GoalRow(index) >= Unset
    BY <1>1, Sizes DEF Unset
  <2>3. T.row >= Unset
    BY <1>1, Typed DEF Roles, Unset
  <2>4. FirstOffset \in Nat
    BY <2>2 DEF FirstOffset
  <2>5. /\ \A state \in {"STOPPED", "stopping", "RUNNING"} :
              LET k == [T EXCEPT !.state = state]
              IN  /\ k \in Records /\ k.state # "absent" /\ k.offset = T.offset
                  /\ T.row <= k.row
        /\ LET k == [T EXCEPT !.offset = FirstOffset]
           IN  k \in Records /\ k.state = T.state /\ k.offset # Unset /\ T.row <= k.row
        /\ LET k == [T EXCEPT !.row = GoalRow(index)]
           IN  k \in Records /\ k.state = T.state /\ k.offset = T.offset /\ k.row = GoalRow(index)
    BY <2>1, <2>2, <2>4 DEF Records, Unset
  <2>6. CASE CreateStopped \/ Stop \/ Resume
    <3>1. \/ conn' = [conn EXCEPT ![role][index] = T]
          \/ \E state \in {"STOPPED", "stopping", "RUNNING"} :
                conn' = [conn EXCEPT ![role][index] = [T EXCEPT !.state = state]]
      <4>1. CASE CreateStopped
        <5>1. conn' = [conn EXCEPT ![role][index] =
                          IF T.state = "absent" THEN [T EXCEPT !.state = "STOPPED"] ELSE T]
          BY <1>1, <4>1 DEF CreateStopped, Sets
        <5> QED
          BY <5>1
      <4>2. CASE Stop
        <5>1. conn' = [conn EXCEPT ![role][index] =
                          CASE T.state = "RUNNING" -> [T EXCEPT !.state = "stopping"]
                            [] T.state = "FAILED" -> [T EXCEPT !.state = "STOPPED"]
                            [] OTHER -> T]
          BY <1>1, <4>2 DEF Stop, Sets, Stopped
        <5> QED
          BY <5>1
      <4>3. CASE Resume
        <5>1. conn' = [conn EXCEPT ![role][index] =
                          IF T.state \in {"STOPPED", "stopping"}
                          THEN [T EXCEPT !.state = "RUNNING"] ELSE T]
          BY <1>1, <4>3 DEF Resume, Resumed, Sets
        <5> QED
          BY <5>1
      <4> QED
        BY <2>6, <4>1, <4>2, <4>3
    <3>2. CASE conn' = [conn EXCEPT ![role][index] = T]
      <4>1. conn' = conn
        BY <1>1, <3>2 DEF ConnInv, Shape
      <4> QED
        BY <4>1, AllSame
    <3>3. ASSUME NEW state \in {"STOPPED", "stopping", "RUNNING"},
                 conn' = [conn EXCEPT ![role][index] = [T EXCEPT !.state = state]]
          PROVE  Grows
      <4> DEFINE k == [T EXCEPT !.state = state]
      <4>1. k \in Records /\ k.state # "absent" /\ k.offset = T.offset /\ T.row <= k.row
        BY <2>1, <2>5
      <4>2. conn' = [conn EXCEPT ![role][index] = k]
        BY <3>3
      <4> HIDE DEF k
      <4> QED
        BY <1>1, <4>1, <4>2, OneGrows
    <3> QED
      BY <3>1, <3>2, <3>3
  <2>7. CASE PatchOffsets
    <3>1. \/ conn' = conn
          \/ conn' = [conn EXCEPT ![role][index] = [T EXCEPT !.offset = FirstOffset]]
      BY <1>1, <2>7 DEF PatchOffsets, Sets
    <3> DEFINE k == [T EXCEPT !.offset = FirstOffset]
    <3>2. k \in Records /\ k.state = T.state /\ k.offset # Unset /\ T.row <= k.row
      BY <2>5
    <3>3. conn' = conn \/ conn' = [conn EXCEPT ![role][index] = k]
      BY <3>1
    <3> HIDE DEF k
    <3> QED
      BY <1>1, <3>2, <3>3, OneGrows, AllSame
  <2>8. CASE Hydrate
    <3>1. \/ conn' = conn
          \/ /\ T.row \in {Unset, GoalRow(index)}
             /\ conn' = [conn EXCEPT ![role][index] = [T EXCEPT !.row = GoalRow(index)]]
      BY <1>1, <2>8 DEF Hydrate, Sets
    <3>2. T.row \in {Unset, GoalRow(index)} => T.row <= GoalRow(index)
      BY <2>2, <2>3 DEF Unset
    <3> DEFINE k == [T EXCEPT !.row = GoalRow(index)]
    <3>3. k \in Records /\ k.state = T.state /\ k.offset = T.offset /\ k.row = GoalRow(index)
      BY <2>5
    <3>4. conn' = conn \/ (T.row <= k.row /\ conn' = [conn EXCEPT ![role][index] = k])
      BY <3>1, <3>2, <3>3
    <3> HIDE DEF k
    <3> QED
      BY <1>1, <3>3, <3>4, OneGrows, AllSame
  <2> QED
    BY <1>2, <2>6, <2>7, <2>8
<1>3. ASSUME NEW r \in Roles, NEW i \in Indexes,
             \/ Ingest(r, i) \/ CommitOffset(r, i) \/ TaskFails(r, i)
             \/ SinkFails(r, i) \/ TaskStops(r, i)
      PROVE  Grows
  <2> DEFINE T == conn[r][i]
  <2>1. T \in Records /\ T.row \in Int /\ T.offset \in Int
    BY Fields DEF Records
  <2>2. CASE TaskFails(r, i) \/ SinkFails(r, i) \/ TaskStops(r, i)
    <3>1. PICK state \in {"FAILED", "STOPPED"} :
            conn' = [conn EXCEPT ![r][i] = [T EXCEPT !.state = state]]
      BY <2>2 DEF TaskFails, SinkFails, TaskStops
    <3>2. LET k == [T EXCEPT !.state = state]
          IN  k \in Records /\ k.state # "absent" /\ k.offset = T.offset /\ T.row <= k.row
      BY <2>1 DEF Records
    <3> QED
      BY <3>1, <3>2, OneGrows
  <2>3. CASE CommitOffset(r, i)
    <3>1. LET k == [T EXCEPT !.offset = T.row]
          IN  k \in Records /\ k.state = T.state /\ k.offset = T.row /\ T.row <= k.row
      BY <2>1 DEF Records
    <3>2. T.row # Unset
      <4>1. T.offset >= Unset
        BY Typed DEF Roles, Unset
      <4> QED
        BY <2>1, <2>3, <4>1 DEF CommitOffset, Unset
    <3> QED
      BY <2>3, <3>1, <3>2, OneGrows DEF CommitOffset
  <2>4. CASE Ingest(r, i)
    <3>1. Position(T) = Larger(T.offset, T.row)
      BY <2>1, MaxOfTwo DEF Position
    <3>2. Position(T) \in Int /\ T.row <= Position(T) + 1
      BY <2>1, <3>1 DEF Larger
    <3>3. LET k == [T EXCEPT !.row = Position(T) + 1]
          IN  k \in Records /\ k.state = T.state /\ k.offset = T.offset /\ T.row <= k.row
      BY <2>1, <3>2 DEF Records
    <3> QED
      BY <2>4, <3>3, OneGrows DEF Ingest
  <2> QED
    BY <1>3, <2>2, <2>3, <2>4
<1>4. ASSUME NEW i \in Indexes, Cutover(i) PROVE Grows
  <2>1. PICK r \in Roles : r = "follow"
    BY DEF Roles
  <2> DEFINE T == conn[r][i]
  <2>2. T \in Records /\ T.row \in Int
    BY Fields DEF Records
  <2>3. LET k == Resumed(T)
        IN  /\ k \in Records /\ k.offset = T.offset /\ T.row <= k.row
            /\ T.state # "absent" => k.state # "absent"
    BY <2>2 DEF Resumed, Records
  <2> QED
    BY <1>4, <2>1, <2>3, OneGrows DEF Cutover
<1>5. CASE conn' = conn
    BY <1>5, AllSame
<1>6. CASE \/ Begin \/ DestinationRows \/ MarkRestoring \/ RestoreState \/ RestoreTable
           \/ AwaitRestore \/ MarkReplaying \/ Copy \/ KeeperRows \/ AwaitStopped \/ VerifyRetained
           \/ CompareOffsets \/ WaitRunning \/ WaitOffsets \/ CheckOffsets \/ Progress
           \/ CheckStopped \/ Finish
    BY <1>5, <1>6
       DEF Begin, DestinationRows, MarkRestoring, RestoreState, RestoreTable, AwaitRestore,
           MarkReplaying, Copy, KeeperRows, AwaitStopped, VerifyRetained, CompareOffsets,
           WaitRunning, WaitOffsets, CheckOffsets, Progress, CheckStopped, Finish
<1>7. CASE \/ Fail \/ Crash \/ Observe \/ RestoreEnds \/ Amnesia \/ UNCHANGED vars
           \/ \E i \in Indexes : RestoreWrites(i) \/ TrimReplay(i)
    BY <1>5, <1>7 DEF Fail, Crash, Observe, RestoreEnds, Amnesia, RestoreWrites, TrimReplay, vars
<1> QED
    BY <1>2, <1>3, <1>4, <1>6, <1>7 DEF Next, Reconcile, Idle

-----------------------------------------------------------------------------
(* Types.                                                                    *)

ConnTypes == \A r \in Roles, i \in Indexes : conn[r][i] \in Connector(EndOf(r, i))

DestTypes ==
  /\ dest \in [Indexes -> SUBSET Nat]
  /\ \A i \in Indexes : dest[i] \subseteq Prefix(LogEnd[i])

LocalTypes ==
    /\ mode \in Modes
    /\ phase \in Phases /\ seen \in Phases /\ queued \in BOOLEAN
    /\ restore \in {"Missing", "RESTORING", "RESTORED", "RESTORE_FAILED"}
    /\ repeated \in BOOLEAN
    /\ user \in [Indexes -> {"waits", "told", "resumed"}]
    /\ pc \in Steps /\ role \in Roles /\ index \in Indexes /\ view \in Phases
    /\ empty \in BOOLEAN /\ created \in BOOLEAN
    /\ existing \in 0 .. LogEnd[index] \cup {Unset}
    /\ failures \in 0 .. MaxFailures

TopicTypes ==
    /\ low \in [Indexes -> Int] /\ early \in [Indexes -> BOOLEAN]
    /\ \A i \in Indexes : low[i] \in 0 .. Target[i] - Start[i] \cup {Unset}

LEMMA TypeParts == TypeOK <=> ConnTypes /\ DestTypes /\ LocalTypes /\ TopicTypes
    BY DEF TypeOK, ConnTypes, DestTypes, LocalTypes, TopicTypes, EndOf, Roles

LEMMA OneTyped ==
    ASSUME ConnInv, ConnTypes, NEW r \in Roles, NEW i \in Indexes,
           NEW k \in Connector(EndOf(r, i)), k \in Records,
           conn' = [conn EXCEPT ![r][i] = k]
    PROVE  ConnTypes'
<1>1. conn'[r][i] = k /\ Only(r, i)
    BY OneChanged DEF ConnInv
<1>2. \A q \in Roles, j \in Indexes : conn'[q][j] \in Connector(EndOf(q, j))
    BY <1>1 DEF ConnTypes, Only
<1> QED
    BY <1>2 DEF ConnTypes, EndOf

LEMMA ConnTypesNext == TypeOK /\ ConnInv /\ PlaceInv /\ [Next]_vars => ConnTypes'
<1> SUFFICES ASSUME TypeOK, ConnInv, PlaceInv, [Next]_vars PROVE ConnTypes'
    OBVIOUS
<1> USE DEF tableVars, connectVars, controllerVars
<1>1. role \in Roles /\ index \in Indexes /\ This = conn[role][index]
    BY DEF TypeOK, This
<1>2. ConnTypes
    BY TypeParts
<1>3. CASE conn' = conn
    BY <1>2, <1>3 DEF ConnTypes, EndOf
<1>4. ASSUME NEW r \in Roles, NEW i \in Indexes,
             \/ conn' = [conn EXCEPT ![r][i] = conn[r][i]]
             \/ \E state \in {"STOPPED", "stopping", "RUNNING", "FAILED"} :
                   conn' = [conn EXCEPT ![r][i] = [conn[r][i] EXCEPT !.state = state]]
      PROVE  ConnTypes'
  <2>1. conn[r][i] \in Connector(EndOf(r, i)) /\ conn[r][i] \in Records
    BY <1>2, Fields DEF ConnTypes
  <2>2. CASE conn' = [conn EXCEPT ![r][i] = conn[r][i]]
    BY <1>2, <2>1, <2>2, OneTyped
  <2>3. ASSUME NEW state \in {"STOPPED", "stopping", "RUNNING", "FAILED"},
               conn' = [conn EXCEPT ![r][i] = [conn[r][i] EXCEPT !.state = state]]
        PROVE  ConnTypes'
    <3> DEFINE k == [conn[r][i] EXCEPT !.state = state]
    <3>1. k \in Connector(EndOf(r, i)) /\ k \in Records
      BY <2>1 DEF Connector, Records
    <3>2. conn' = [conn EXCEPT ![r][i] = k]
      BY <2>3
    <3> HIDE DEF k
    <3> QED
      BY <1>2, <3>1, <3>2, OneTyped
  <2> QED
    BY <1>4, <2>2, <2>3
<1>5. ASSUME NEW r \in Roles, NEW i \in Indexes, NEW n \in 0 .. EndOf(r, i) \cup {Unset}, n \in Int,
             \/ conn' = [conn EXCEPT ![r][i] = [conn[r][i] EXCEPT !.offset = n]]
             \/ conn' = [conn EXCEPT ![r][i] = [conn[r][i] EXCEPT !.row = n]]
      PROVE  ConnTypes'
  <2>1. conn[r][i] \in Connector(EndOf(r, i)) /\ conn[r][i] \in Records
    BY <1>2, Fields DEF ConnTypes
  <2> DEFINE k == [conn[r][i] EXCEPT !.offset = n]
             l == [conn[r][i] EXCEPT !.row = n]
  <2>2. /\ k \in Connector(EndOf(r, i)) /\ k \in Records
        /\ l \in Connector(EndOf(r, i)) /\ l \in Records
    BY <1>5, <2>1 DEF Connector, Records
  <2>3. conn' = [conn EXCEPT ![r][i] = k] \/ conn' = [conn EXCEPT ![r][i] = l]
    BY <1>5
  <2> HIDE DEF k, l
  <2> QED
    BY <1>2, <2>2, <2>3, OneTyped
<1>6. CASE CreateStopped
  <2>1. conn' = [conn EXCEPT ![role][index] =
                    IF This.state = "absent" THEN [This EXCEPT !.state = "STOPPED"] ELSE This]
    BY <1>6 DEF CreateStopped, Sets
  <2> QED
    BY <1>1, <1>4, <2>1
<1>7. CASE Stop
  <2>1. conn' = [conn EXCEPT ![role][index] =
                    CASE This.state = "RUNNING" -> [This EXCEPT !.state = "stopping"]
                      [] This.state = "FAILED" -> [This EXCEPT !.state = "STOPPED"]
                      [] OTHER -> This]
    BY <1>7 DEF Stop, Sets, Stopped
  <2> QED
    BY <1>1, <1>4, <2>1
<1>8. CASE Resume
  <2>1. conn' = [conn EXCEPT ![role][index] =
                    IF This.state \in {"STOPPED", "stopping"}
                    THEN [This EXCEPT !.state = "RUNNING"] ELSE This]
    BY <1>8 DEF Resume, Resumed, Sets
  <2> QED
    BY <1>1, <1>4, <2>1
<1>9. CASE PatchOffsets
  <2>1. conn' = conn \/ conn' = [conn EXCEPT ![role][index] = [This EXCEPT !.offset = FirstOffset]]
    BY <1>9 DEF PatchOffsets, Sets
  <2>2. FirstOffset \in 0 .. EndOf(role, index) /\ FirstOffset \in Int
    BY <1>1, Sizes DEF FirstOffset, EndOf
  <2> QED
    BY <1>1, <1>3, <1>5, <2>1, <2>2
<1>10. CASE Hydrate
  <2>1. \/ conn' = conn
        \/ conn' = [conn EXCEPT ![role][index] = [This EXCEPT !.row = GoalRow(index)]]
    BY <1>10 DEF Hydrate, Sets
  <2>2. role = "follow"
    BY <1>10 DEF Hydrate, PlaceInv, PlaceAt
  <2>3. GoalRow(index) \in 0 .. EndOf(role, index) \cup {Unset} /\ GoalRow(index) \in Int
    BY <1>1, <2>2, Sizes DEF EndOf, Unset
  <2> QED
    BY <1>1, <1>3, <1>5, <2>1, <2>3
<1>11. ASSUME NEW r \in Roles, NEW i \in Indexes,
             \/ Ingest(r, i) \/ CommitOffset(r, i) \/ TaskFails(r, i)
             \/ SinkFails(r, i) \/ TaskStops(r, i)
      PROVE  ConnTypes'
  <2> DEFINE T == conn[r][i]
  <2>1. T \in Connector(EndOf(r, i)) /\ T.row \in Int /\ T.offset \in Int
    <3>1. T \in Records
      BY Fields
    <3> QED
      BY <1>2, <3>1 DEF ConnTypes, Records
  <2>2. T.row \in 0 .. EndOf(r, i) \cup {Unset} /\ T.offset \in 0 .. EndOf(r, i) \cup {Unset}
    BY <2>1 DEF Connector
  <2>3. CASE TaskFails(r, i) \/ SinkFails(r, i) \/ TaskStops(r, i)
    BY <1>4, <2>3 DEF TaskFails, SinkFails, TaskStops
  <2>4. CASE CommitOffset(r, i)
    BY <1>5, <2>1, <2>2, <2>4 DEF CommitOffset
  <2>5. CASE Ingest(r, i)
    <3>1. Position(T) = Larger(T.offset, T.row)
      BY <2>1, MaxOfTwo DEF Position
    <3>2. EndOf(r, i) \in Int
      BY Sizes DEF EndOf
    <3>3. Position(T) + 1 \in 0 .. EndOf(r, i) /\ Position(T) + 1 \in Int
      <4>1. T.offset # Unset /\ Position(T) < EndOf(r, i)
        BY <2>5 DEF Ingest
      <4>2. Position(T) \in Nat
        BY <2>1, <2>2, <3>1, <4>1 DEF Larger, Unset
      <4> QED
        BY <3>2, <4>1, <4>2
    <3> DEFINE n == Position(T) + 1
    <3>4. n \in 0 .. EndOf(r, i) \cup {Unset} /\ n \in Int
          /\ conn' = [conn EXCEPT ![r][i] = [conn[r][i] EXCEPT !.row = n]]
      BY <2>5, <3>3 DEF Ingest
    <3> HIDE DEF n
    <3> QED
      BY <1>5, <3>4
  <2> QED
    BY <1>11, <2>3, <2>4, <2>5
<1>12. ASSUME NEW i \in Indexes, Cutover(i) PROVE ConnTypes'
  <2>1. PICK r \in Roles : r = "follow"
    BY DEF Roles
  <2>2. conn' = [conn EXCEPT ![r][i] =
                    IF conn[r][i].state \in {"STOPPED", "stopping"}
                    THEN [conn[r][i] EXCEPT !.state = "RUNNING"] ELSE conn[r][i]]
    BY <1>12, <2>1 DEF Cutover, Resumed
  <2> QED
    BY <1>4, <2>2
<1>13. CASE \/ Begin \/ DestinationRows \/ MarkRestoring \/ RestoreState \/ RestoreTable
            \/ AwaitRestore \/ MarkReplaying \/ Copy \/ KeeperRows \/ AwaitStopped \/ VerifyRetained
            \/ CompareOffsets \/ WaitRunning \/ WaitOffsets \/ CheckOffsets \/ Progress
            \/ CheckStopped \/ Finish
    BY <1>3, <1>13
       DEF Begin, DestinationRows, MarkRestoring, RestoreState, RestoreTable, AwaitRestore,
           MarkReplaying, Copy, KeeperRows, AwaitStopped, VerifyRetained, CompareOffsets,
           WaitRunning, WaitOffsets, CheckOffsets, Progress, CheckStopped, Finish
<1>14. CASE \/ Fail \/ Crash \/ Observe \/ RestoreEnds \/ Amnesia \/ UNCHANGED vars
            \/ \E i \in Indexes : RestoreWrites(i) \/ TrimReplay(i)
    BY <1>3, <1>14 DEF Fail, Crash, Observe, RestoreEnds, Amnesia, RestoreWrites, TrimReplay, vars
<1> QED
    BY <1>6, <1>7, <1>8, <1>9, <1>10, <1>11, <1>12, <1>13, <1>14 DEF Next, Reconcile, Idle

\* The destination only grows, by records of the source.
DestGrows == \A i \in Indexes : dest[i] \subseteq dest'[i]

LEMMA DestNext == TypeOK /\ ConnInv /\ [Next]_vars => DestTypes' /\ DestGrows
<1> SUFFICES ASSUME TypeOK, ConnInv, [Next]_vars PROVE DestTypes' /\ DestGrows
    OBVIOUS
<1> USE DEF tableVars, connectVars, controllerVars
<1>1. DestTypes
    BY TypeParts
<1>2. CASE dest' = dest
    BY <1>1, <1>2 DEF DestTypes, DestGrows
<1>3. ASSUME NEW i \in Indexes, NEW records, records \subseteq Prefix(LogEnd[i]),
             Inserts(i, records)
      PROVE  DestTypes' /\ DestGrows
  <2>1. Prefix(LogEnd[i]) \subseteq Nat
    BY Sizes DEF Prefix
  <2>2. dest' = [dest EXCEPT ![i] = dest[i] \cup records]
    BY <1>3 DEF Inserts
  <2> QED
    BY <1>1, <1>3, <2>1, <2>2 DEF DestTypes, DestGrows
<1>4. ASSUME NEW i \in Indexes, RestoreWrites(i) PROVE DestTypes' /\ DestGrows
  <2>1. Prefix(Start[i]) \subseteq Prefix(LogEnd[i])
    BY Sizes DEF Prefix
  <2> QED
    BY <1>3, <1>4, <2>1 DEF RestoreWrites
<1>5. ASSUME NEW r \in Roles, NEW i \in Indexes, Ingest(r, i) PROVE DestTypes' /\ DestGrows
  <2> DEFINE T == conn[r][i]
  <2>1. T.row \in Int /\ T.offset \in Int
    BY Fields DEF Records
  <2>2. Position(T) = Larger(T.offset, T.row)
    BY <2>1, MaxOfTwo DEF Position
  <2>3. T.offset \in Nat /\ Position(T) < EndOf(r, i)
    <3>1. T.offset # Unset /\ Position(T) < EndOf(r, i)
      BY <1>5 DEF Ingest
    <3>2. T.offset >= Unset
      BY Typed DEF Roles, Unset
    <3> QED
      BY <2>1, <3>1, <3>2 DEF Unset
  <2>4. Position(T) \in Nat
    BY <2>1, <2>2, <2>3 DEF Larger
  <2>5. BaseOf(r, i) + Position(T) \in Prefix(LogEnd[i])
    BY <2>3, <2>4, Sizes DEF BaseOf, EndOf, Prefix, Roles
  <2>6. Inserts(i, {BaseOf(r, i) + Position(T)})
    BY <1>5 DEF Ingest
  <2> QED
    BY <1>3, <2>5, <2>6
<1>6. CASE Reconcile
    BY <1>2, <1>6
       DEF Reconcile, Begin, DestinationRows, MarkRestoring, RestoreState, RestoreTable,
           AwaitRestore, MarkReplaying, Copy, KeeperRows, CreateStopped, Stop, AwaitStopped,
           VerifyRetained, PatchOffsets, CompareOffsets, Resume, WaitRunning, WaitOffsets, Hydrate,
           CheckOffsets, Progress, CheckStopped, Finish
<1>7. CASE Fail \/ Crash \/ Observe \/ RestoreEnds \/ Amnesia \/ UNCHANGED vars
    BY <1>2, <1>7 DEF Fail, Crash, Observe, RestoreEnds, Amnesia, vars
<1>8. ASSUME NEW r \in Roles, NEW i \in Indexes,
             CommitOffset(r, i) \/ TaskFails(r, i) \/ SinkFails(r, i) \/ TaskStops(r, i)
             \/ Cutover(i)
      PROVE  dest' = dest
    BY <1>8 DEF CommitOffset, TaskFails, SinkFails, TaskStops, Cutover
<1>9. ASSUME NEW i \in Indexes, TrimReplay(i) PROVE dest' = dest
    BY <1>9 DEF TrimReplay
<1> QED
    BY <1>2, <1>4, <1>5, <1>6, <1>7, <1>8, <1>9 DEF Next, Idle, Roles

\* What the controller goes through, step by step.
LEMMA LocalNext == TypeOK /\ ConnInv /\ PlaceInv /\ [Next]_vars => LocalTypes'
<1> SUFFICES ASSUME TypeOK, ConnInv, PlaceInv, [Next]_vars PROVE LocalTypes'
    OBVIOUS
<1> USE DEF tableVars, connectVars, controllerVars, statusVars, localVars
<1>1. LocalTypes
    BY TypeParts
<1>2. CASE \/ Begin \/ DestinationRows \/ MarkRestoring \/ RestoreState \/ RestoreTable
           \/ AwaitRestore
  <2>1. CASE Begin
    <3>1. 1 \in Indexes
      BY RecoveryAssumption DEF Indexes
    <3> QED
      BY <1>1, <2>1, <3>1 DEF LocalTypes, Begin, Goto, Steps, Roles
  <2>2. CASE DestinationRows
    <3>1. empty' \in BOOLEAN
      BY <1>1, <2>2 DEF DestinationRows, DestinationEmpty, Bails, Errs, LocalTypes
    <3>2. pc' \in {"mark_restoring", "restore_state", "mark_replaying", "idle"}
      BY <2>2 DEF DestinationRows, Proceeds, Bails, Errs, Goto
    <3>3. /\ UNCHANGED <<mode, phase, seen, restore, repeated, user, role, index, view, created,
                         existing, failures>>
          /\ queued' \in {queued, TRUE}
      BY <2>2 DEF DestinationRows, Proceeds, Bails, Errs
    <3> QED
      BY <1>1, <3>1, <3>2, <3>3 DEF LocalTypes, Steps
  <2>3. CASE MarkRestoring \/ RestoreState
    BY <1>1, <2>3
       DEF LocalTypes, MarkRestoring, RestoreState, Proceeds, Bails, Errs, Goto, Steps, Phases
  <2>4. CASE RestoreTable \/ AwaitRestore
    BY <1>1, <2>4
       DEF LocalTypes, RestoreTable, AwaitRestore, Proceeds, Bails, Errs, Goto, Steps
  <2> QED
    BY <1>2, <2>1, <2>2, <2>3, <2>4
<1>3. CASE MarkReplaying \/ Finish
  <2>1. CASE MarkReplaying
    BY <1>1, <2>1
       DEF LocalTypes, MarkReplaying, FirstStep, FirstRole, Goto, Steps, Phases, Roles
  <2>2. CASE Finish
    <3>1. user' \in [Indexes -> {"waits", "told", "resumed"}]
      BY <1>1, <2>2 DEF Finish, LocalTypes
    <3>2. phase' \in Phases /\ pc' \in Steps
      BY <2>2 DEF Finish, Goto, Phases, Terminal, Steps
    <3>3. UNCHANGED <<mode, seen, queued, restore, repeated, role, index, view, empty, created,
                      existing, failures>>
      BY <2>2 DEF Finish
    <3> QED
      BY <1>1, <3>1, <3>2, <3>3 DEF LocalTypes
  <2> QED
    BY <1>3, <2>1, <2>2
<1>4. CASE Advances /\ UNCHANGED <<restore, repeated, user>>
  <2>1. index \in Indexes /\ NumConnectors \in Nat
    BY <1>1, RecoveryAssumption DEF LocalTypes
  <2>2. index < NumConnectors => index + 1 \in Indexes
    BY <2>1 DEF Indexes
  <2> QED
    BY <1>1, <1>4, <2>2
       DEF LocalTypes, Advances, Proceeds, Goto, FirstStep, FirstRole, Steps, Roles
<1>5. CASE Copy \/ CreateStopped \/ Stop \/ PatchOffsets \/ CompareOffsets
  <2>1. CASE Copy
    BY <1>1, <2>1 DEF LocalTypes, Copy, Proceeds, Bails, Errs, Goto, Steps
  <2>2. CASE CreateStopped
    BY <1>1, <2>2 DEF LocalTypes, CreateStopped, Sets, Proceeds, Bails, Errs, Goto, Steps
  <2>3. CASE Stop
    BY <1>1, <2>3 DEF LocalTypes, Stop, Sets, Proceeds, Bails, Errs, Goto, Steps
  <2>4. CASE PatchOffsets
    BY <1>1, <2>4 DEF LocalTypes, PatchOffsets, Sets, Proceeds, Bails, Errs, Goto, Steps
  <2>5. CASE CompareOffsets
    BY <1>1, <2>5 DEF LocalTypes, CompareOffsets, Sets, Proceeds, Bails, Errs, Goto, Steps
  <2> QED
    BY <1>5, <2>1, <2>2, <2>3, <2>4, <2>5
<1>6. CASE KeeperRows
  <2>1. role = "follow" /\ This.row \in 0 .. LogEnd[index] \cup {Unset}
    BY <1>1, <1>6, Typed DEF KeeperRows, PlaceInv, PlaceAt, LocalTypes, This
  <2> QED
    BY <1>1, <1>6, <2>1 DEF LocalTypes, KeeperRows, Proceeds, Goto, Steps
<1>7. CASE \/ AwaitStopped \/ VerifyRetained \/ Resume \/ WaitOffsets \/ Hydrate
           \/ CheckOffsets \/ Progress
  <2>1. CASE AwaitStopped \/ VerifyRetained
    BY <1>1, <2>1
       DEF LocalTypes, AwaitStopped, VerifyRetained, Proceeds, Bails, Errs, Goto, Steps, Roles
  <2>2. CASE Resume
    BY <1>1, <2>2 DEF LocalTypes, Resume, Sets, Proceeds, Bails, Errs, Goto, Steps, Roles
  <2>3. CASE WaitOffsets
    BY <1>1, <2>3 DEF LocalTypes, WaitOffsets, Sets, Proceeds, Bails, Errs, Goto, Steps, Roles
  <2>4. CASE Hydrate
    BY <1>1, <2>4 DEF LocalTypes, Hydrate, Sets, Proceeds, Bails, Errs, Goto, Steps, Roles
  <2>5. CASE CheckOffsets
    BY <1>1, <2>5 DEF LocalTypes, CheckOffsets, Sets, Proceeds, Bails, Errs, Goto, Steps, Roles
  <2>6. CASE Progress
    BY <1>1, <2>6 DEF LocalTypes, Progress, Sets, Proceeds, Bails, Errs, Goto, Steps, Roles
  <2> QED
    BY <1>7, <2>1, <2>2, <2>3, <2>4, <2>5, <2>6
<1>8. CASE WaitRunning \/ CheckStopped
  <2>1. CASE Advances
    BY <1>4, <1>8, <2>1 DEF WaitRunning, CheckStopped
  <2>2. CASE ~Advances
    <3>1. /\ UNCHANGED <<restore, repeated, user, role, index, view, empty, created, existing>>
          /\ UNCHANGED <<mode, phase, seen, failures>>
          /\ queued' \in {queued, TRUE} /\ pc' \in {"catch_up", "idle"}
      BY <1>8, <2>2 DEF WaitRunning, CheckStopped, Proceeds, Bails, Errs, Goto
    <3> QED
      BY <1>1, <3>1 DEF LocalTypes, Steps
  <2> QED
    BY <2>1, <2>2
<1>9. CASE \/ Fail \/ Crash \/ Observe \/ RestoreEnds \/ Amnesia \/ UNCHANGED vars
           \/ \E r \in Roles, i \in Indexes : SinkFails(r, i)
  <2>1. failures' \in 0 .. MaxFailures
    <3>1. failures \in 0 .. MaxFailures /\ MaxFailures \in Nat
      BY <1>1, RecoveryAssumption DEF LocalTypes
    <3>2. failures' = failures \/ (failures < MaxFailures /\ failures' = failures + 1)
      BY <1>9 DEF Fail, Crash, Observe, RestoreEnds, Amnesia, SinkFails, vars
    <3> QED
      BY <3>1, <3>2
  <2>2. /\ UNCHANGED <<mode, phase, repeated, user, role, index, view, empty, created, existing>>
        /\ seen' \in {seen, phase} /\ queued' \in {queued, TRUE} /\ pc' \in {pc, "idle"}
        /\ restore' \in {restore, "Missing", "RESTORED", "RESTORE_FAILED"}
    BY <1>9 DEF Fail, Crash, Observe, RestoreEnds, Amnesia, SinkFails, Errs, Goto, vars
  <2>3. queued' \in BOOLEAN
    BY <1>1, <2>2 DEF LocalTypes
  <2>4. pc' \in Steps /\ seen' \in Phases
        /\ restore' \in {"Missing", "RESTORING", "RESTORED", "RESTORE_FAILED"}
    BY <1>1, <2>2 DEF LocalTypes, Steps
  <2> QED
    BY <1>1, <2>1, <2>2, <2>3, <2>4 DEF LocalTypes
<1>10. ASSUME NEW r \in Roles, NEW i \in Indexes,
              Ingest(r, i) \/ CommitOffset(r, i) \/ TaskFails(r, i) \/ TaskStops(r, i)
       PROVE  LocalTypes'
    BY <1>1, <1>10 DEF LocalTypes, Ingest, CommitOffset, TaskFails, TaskStops, Inserts
<1>11. ASSUME NEW i \in Indexes, RestoreWrites(i) \/ TrimReplay(i) \/ Cutover(i) PROVE LocalTypes'
    BY <1>1, <1>11 DEF LocalTypes, RestoreWrites, TrimReplay, Cutover, Inserts
<1> QED
    BY <1>2, <1>3, <1>5, <1>6, <1>7, <1>8, <1>9, <1>10, <1>11 DEF Next, Reconcile, Idle

\* Two steps change what is known of the replay topics.
LEMMA TopicsSame ==
    ASSUME [Next]_vars PROVE Copy \/ (\E i \in Indexes : TrimReplay(i)) \/ UNCHANGED topicVars
<1> USE DEF tableVars, connectVars, controllerVars
<1>1. CASE Reconcile
    BY <1>1
       DEF Reconcile, Begin, DestinationRows, MarkRestoring, RestoreState, RestoreTable,
           AwaitRestore, MarkReplaying, KeeperRows, CreateStopped, Stop, AwaitStopped,
           VerifyRetained, PatchOffsets, CompareOffsets, Resume, WaitRunning, WaitOffsets,
           Hydrate, CheckOffsets, Progress, CheckStopped, Finish, Sets
<1>2. CASE Fail \/ Crash \/ Observe \/ RestoreEnds \/ Amnesia \/ UNCHANGED vars
    BY <1>2 DEF Fail, Crash, Observe, RestoreEnds, Amnesia, vars
<1>3. ASSUME NEW r \in Roles, NEW i \in Indexes,
             \/ Ingest(r, i) \/ CommitOffset(r, i) \/ TaskFails(r, i)
             \/ SinkFails(r, i) \/ TaskStops(r, i)
      PROVE  UNCHANGED topicVars
    BY <1>3 DEF Ingest, CommitOffset, TaskFails, SinkFails, TaskStops
<1>4. ASSUME NEW i \in Indexes, RestoreWrites(i) \/ Cutover(i) PROVE UNCHANGED topicVars
    BY <1>4 DEF RestoreWrites, Cutover
<1> QED
    BY <1>1, <1>2, <1>3, <1>4 DEF Next, Idle

LEMMA TopicTypesNext == TypeOK /\ [Next]_vars => TopicTypes'
<1> SUFFICES ASSUME TypeOK, [Next]_vars PROVE TopicTypes'
    OBVIOUS
<1>1. TopicTypes /\ index \in Indexes
    BY TypeParts DEF TypeOK
<1>2. CASE Copy
  <2>1. early' = early /\ (low' = [low EXCEPT ![index] = 0] \/ low' = low)
    BY <1>2 DEF Copy
  <2> QED
    BY <1>1, <2>1, Sizes DEF TopicTypes
<1>3. ASSUME NEW i \in Indexes, TrimReplay(i) PROVE TopicTypes'
  <2>1. PICK n \in low[i] + 1 .. Target[i] - Start[i] : low' = [low EXCEPT ![i] = n]
    BY <1>3 DEF TrimReplay, EndOf
  <2>2. low[i] \in Nat
    BY <1>1, <1>3 DEF TopicTypes, TrimReplay, Unset
  <2>3. n \in 0 .. Target[i] - Start[i] /\ n \in Int
    BY <2>1, <2>2, Sizes
  <2>4. early' = [early EXCEPT ![i] = @ \/ ~AtRest(i)]
    BY <1>3 DEF TrimReplay
  <2>5. early' \in [Indexes -> BOOLEAN]
    BY <1>1, <2>4, Zenon DEF TopicTypes
  <2> QED
    BY <1>1, <2>1, <2>3, <2>5 DEF TopicTypes
<1>4. CASE UNCHANGED topicVars
    BY <1>1, <1>4 DEF TopicTypes, topicVars
<1> QED
    BY <1>2, <1>3, <1>4, TopicsSame

LEMMA TypeNext == TypeOK /\ ConnInv /\ PlaceInv /\ [Next]_vars => TypeOK'
<1> SUFFICES ASSUME TypeOK, ConnInv, PlaceInv, [Next]_vars PROVE TypeOK'
    OBVIOUS
<1>1. ConnTypes' /\ DestTypes' /\ LocalTypes' /\ TopicTypes'
    BY ConnTypesNext, DestNext, LocalNext, TopicTypesNext
<1> QED
    BY <1>1 DEF TypeOK, ConnTypes, DestTypes, LocalTypes, TopicTypes, EndOf, Roles

-----------------------------------------------------------------------------
(* The archive comes first.                                                  *)

LEMMA RestoreNext ==
    TypeOK /\ ConnInv /\ RestoreInv /\ PlaceInv /\ [Next]_vars => RestoreInv'
<1> SUFFICES ASSUME TypeOK, ConnInv, RestoreInv, PlaceInv, [Next]_vars PROVE RestoreInv'
    OBVIOUS
<1> USE DEF tableVars, connectVars, controllerVars, statusVars, localVars
<1>1. Archived => Archived'
    BY DestNext DEF Archived, DestGrows
<1>2. CASE Archived
    BY <1>1, <1>2 DEF RestoreInv
<1>3. CASE ~Archived
  <2>1. /\ restore # "RESTORED" /\ phase \in {"none", "Restoring"}
        /\ seen \in {"none", "Restoring"} /\ view \in {"none", "Restoring"}
        /\ pc \in {"idle", "rows", "mark_restoring", "restore_state", "restore", "restoring"}
    BY <1>3 DEF RestoreInv, TypeOK, Phases, Terminal, Steps, ConnectorSteps
  <2> DEFINE Early == /\ restore' # "RESTORED" /\ phase' \in {"none", "Restoring"}
                      /\ seen' \in {"none", "Restoring"} /\ view' \in {"none", "Restoring"}
                      /\ pc' \in {"idle", "rows", "mark_restoring", "restore_state", "restore",
                                  "restoring"}
  <2>2. ASSUME Early PROVE RestoreInv'
    BY <2>2 DEF RestoreInv, Terminal, ConnectorSteps
  <2>3. CASE RestoreEnds
    BY <1>3, <2>1, <2>2, <2>3 DEF RestoreEnds, Archived
  <2>4. CASE Reconcile
    <3>1. \/ Begin \/ DestinationRows \/ MarkRestoring \/ RestoreState \/ RestoreTable
          \/ AwaitRestore
      BY <2>1, <2>4
         DEF Reconcile, MarkReplaying, Copy, KeeperRows, CreateStopped, Stop, AwaitStopped,
             VerifyRetained, PatchOffsets, CompareOffsets, Resume, WaitRunning, WaitOffsets,
             Hydrate, CheckOffsets, Progress, CheckStopped, Finish
    <3>2. Early
      BY <2>1, <3>1
         DEF Begin, DestinationRows, MarkRestoring, RestoreState, RestoreTable, AwaitRestore,
             Confirmed, Proceeds, Bails, Errs, Goto, Terminal
    <3> QED
      BY <2>2, <3>2
  <2>5. CASE Fail \/ Crash \/ Observe \/ Amnesia \/ UNCHANGED vars
    BY <2>1, <2>2, <2>5 DEF Fail, Crash, Observe, Amnesia, Errs, Goto, vars
  <2>6. ASSUME NEW r \in Roles, NEW i \in Indexes,
               \/ Ingest(r, i) \/ CommitOffset(r, i) \/ TaskFails(r, i)
               \/ SinkFails(r, i) \/ TaskStops(r, i)
        PROVE  RestoreInv'
    BY <2>1, <2>2, <2>6 DEF Ingest, CommitOffset, TaskFails, SinkFails, TaskStops
  <2>7. ASSUME NEW i \in Indexes, RestoreWrites(i) \/ TrimReplay(i) \/ Cutover(i) PROVE RestoreInv'
    BY <2>1, <2>2, <2>7 DEF RestoreWrites, TrimReplay, Cutover
  <2> QED
    BY <2>3, <2>4, <2>5, <2>6, <2>7 DEF Next, Idle
<1> QED
    BY <1>2, <1>3

-----------------------------------------------------------------------------
(* Phases.                                                                   *)

LEMMA PhaseNext ==
    TypeOK /\ ConnInv /\ PlaceInv /\ PhaseInv /\ [Next]_vars => PhaseInv'
<1> SUFFICES ASSUME TypeOK, ConnInv, PlaceInv, PhaseInv, [Next]_vars PROVE PhaseInv'
    OBVIOUS
<1> USE DEF tableVars, connectVars, controllerVars, statusVars, localVars
<1>1. \A i \in Indexes : conn["follow"][i].offset # Unset => conn'["follow"][i].offset # Unset
    BY GrowsNext DEF Grows, Roles
<1>2. ASSUME phase' = phase, mode' = mode,
             pc' \in ConnectorSteps \cup {"finish"} => pc \in ConnectorSteps \cup {"finish"}
      PROVE  PhaseInv'
    BY <1>1, <1>2 DEF PhaseInv, Bounded
<1>3. CASE MarkRestoring \/ MarkReplaying
    BY <1>3 DEF MarkRestoring, MarkReplaying, Goto, PhaseInv, ConnectorSteps, Terminal
<1>4. CASE Finish
  <2>1. /\ pc = "finish" /\ pc' = "idle" /\ mode' = mode
        /\ phase' = IF Bounded THEN "Complete" ELSE "Streaming"
    BY <1>4 DEF Finish, Goto
  <2>2. \A i \in Indexes : conn'["follow"][i].offset # Unset
    BY <1>1, <2>1 DEF PlaceInv, PlaceAt
  <2> QED
    BY <2>1, <2>2 DEF PhaseInv, ConnectorSteps, Terminal, Bounded
<1>5. CASE Begin \/ DestinationRows \/ RestoreState \/ RestoreTable \/ AwaitRestore
    BY <1>2, <1>5
       DEF Begin, DestinationRows, RestoreState, RestoreTable, AwaitRestore, Proceeds, Bails,
           Errs, Goto, ConnectorSteps
<1>6. CASE \/ Copy \/ KeeperRows \/ CreateStopped \/ Stop \/ AwaitStopped \/ VerifyRetained
           \/ PatchOffsets \/ CompareOffsets \/ Resume \/ WaitRunning \/ WaitOffsets \/ Hydrate
           \/ CheckOffsets \/ Progress \/ CheckStopped
  <2>1. pc \in ConnectorSteps
    BY <1>6
       DEF Copy, KeeperRows, CreateStopped, Stop, AwaitStopped, VerifyRetained, PatchOffsets,
           CompareOffsets, Resume, WaitRunning, WaitOffsets, Hydrate, CheckOffsets, Progress,
           CheckStopped, ConnectorSteps
  <2>2. phase' = phase /\ mode' = mode
    BY <1>6
       DEF Copy, KeeperRows, CreateStopped, Stop, AwaitStopped, VerifyRetained, PatchOffsets,
           CompareOffsets, Resume, WaitRunning, WaitOffsets, Hydrate, CheckOffsets, Progress,
           CheckStopped, Advances, Proceeds, Bails
  <2> QED
    BY <1>2, <2>1, <2>2
<1>7. CASE Fail \/ Crash \/ Observe \/ RestoreEnds \/ Amnesia \/ UNCHANGED vars
    BY <1>2, <1>7
       DEF Fail, Crash, Observe, RestoreEnds, Amnesia, Errs, Goto, ConnectorSteps, vars
<1>8. ASSUME NEW r \in Roles, NEW i \in Indexes,
             \/ Ingest(r, i) \/ CommitOffset(r, i) \/ TaskFails(r, i)
             \/ SinkFails(r, i) \/ TaskStops(r, i)
      PROVE  PhaseInv'
    BY <1>2, <1>8 DEF Ingest, CommitOffset, TaskFails, SinkFails, TaskStops
<1>9. ASSUME NEW i \in Indexes, RestoreWrites(i) \/ TrimReplay(i) \/ Cutover(i) PROVE PhaseInv'
    BY <1>2, <1>9 DEF RestoreWrites, TrimReplay, Cutover
<1> QED
    BY <1>3, <1>4, <1>5, <1>6, <1>7, <1>8, <1>9 DEF Next, Reconcile, Idle

-----------------------------------------------------------------------------
(* The place of an attempt.                                                  *)

\* What a place relies on is never taken back.
LEMMA PlaceStill ==
    ASSUME TypeOK, ConnInv, ConnTypes', Grows, mode' = mode,
           NEW step, NEW r \in Roles, NEW i \in Indexes, NEW found, PlaceAt(step, r, i, found)
    PROVE  PlaceAt(step, r, i, found)'
<1>1. Bounded' = Bounded /\ Replays(i)' = Replays(i)
    BY DEF Bounded, Replays
<1>2. HandedOver(i) => HandedOver(i)'
  <2> SUFFICES ASSUME HandedOver(i), Replays(i) PROVE conn'["replay"][i].row = Target[i] - Start[i]
    BY <1>1 DEF HandedOver
  <2>1. conn["replay"][i].row = Target[i] - Start[i]
    BY DEF HandedOver
  <2>2. conn["replay"][i].row <= conn'["replay"][i].row
    BY DEF Grows, Roles
  <2>3. conn'["replay"][i].row \in 0 .. Target[i] - Start[i] \cup {Unset}
    <3>1. PICK q \in Roles : q = "replay"
      BY DEF Roles
    <3>2. conn'[q][i] \in Connector(Target[i] - Start[i])
      BY <3>1 DEF ConnTypes, EndOf
    <3> QED
      BY <3>1, <3>2 DEF Connector
  <2>4. Start[i] \in Nat /\ Target[i] \in Nat /\ Start[i] <= Target[i]
    BY Sizes
  <2> QED
    BY <2>1, <2>2, <2>3, <2>4 DEF Unset
<1>3. conn["follow"][i].row # Unset => conn'["follow"][i].row # Unset
  <2>1. conn["follow"][i].row <= conn'["follow"][i].row
    BY DEF Grows, Roles
  <2>2. conn["follow"][i].row \in 0 .. LogEnd[i] \cup {Unset}
    BY Typed
  <2>3. conn'["follow"][i].row \in Int
    <3>1. PICK q \in Roles : q = "follow"
      BY DEF Roles
    <3>2. conn'[q][i] \in Connector(LogEnd[i])
      BY <3>1 DEF ConnTypes, EndOf
    <3> QED
      BY <3>1, <3>2 DEF Connector, Unset
  <2> QED
    BY <2>1, <2>2, <2>3 DEF Unset
<1>4. /\ conn[r][i].state # "absent" => conn'[r][i].state # "absent"
      /\ conn[r][i].offset # Unset => conn'[r][i].offset # Unset
      /\ \A j \in Indexes : conn["follow"][j].offset # Unset => conn'["follow"][j].offset # Unset
    BY DEF Grows, Roles
<1> QED
    BY <1>1, <1>2, <1>3, <1>4 DEF PlaceAt

\* A step that leaves its place for another one of the same connector, or for that of
\* another, after which nothing is said that is not known before it.
LEMMA PlaceMoves ==
    ASSUME TypeOK, TypeOK', ConnInv, PlaceInv, [Next]_vars, mode' = mode,
           PlaceAt(pc', role', index', existing')
    PROVE  PlaceInv'
<1>1. role' \in Roles /\ index' \in Indexes
    BY DEF TypeOK
<1>2. Grows /\ ConnTypes'
    BY GrowsNext, ConnTypesNext
<1>3. ASSUME NEW step, NEW r \in Roles, NEW i \in Indexes, NEW found,
             PlaceAt(step, r, i, found), step = pc', r = role', i = index', found = existing'
      PROVE  PlaceInv'
  <2>1. PlaceAt(step, r, i, found)'
    BY <1>2, <1>3, PlaceStill
  <2> QED
    BY <1>3, <2>1 DEF PlaceInv, PlaceAt
<1> QED
    BY <1>1, <1>3

\* An attempt that is over relies on nothing but what it read of KeeperMap.
LEMMA NowhereElse ==
    ASSUME PlaceInv, NEW step, step \notin ConnectorSteps \cup EarlySteps \cup {"finish"}
    PROVE  PlaceAt(step, role, index, existing)
    BY DEF PlaceInv, PlaceAt, ConnectorSteps

\* The first request about a connector is the right one.
LEMMA EnterConnector ==
    ASSUME NEW i \in Indexes,
           \A j \in Indexes : j < i => conn["follow"][j].offset # Unset
    PROVE  PlaceAt(FirstStep(i), FirstRole(i), i, Unset)
<1>1. CASE Replays(i)
  <2>1. FirstStep(i) = "copy" /\ FirstRole(i) = "replay"
    BY <1>1 DEF FirstStep, FirstRole, Replays
  <2> QED
    BY <1>1, <2>1 DEF PlaceAt, ConnectorSteps, EarlySteps
<1>2. CASE ~Replays(i)
  <2>1. FirstStep(i) = "keeper" /\ FirstRole(i) = "follow"
    BY <1>2 DEF FirstStep, FirstRole, Replays
  <2> QED
    BY <1>2, <2>1 DEF PlaceAt, ConnectorSteps, EarlySteps, HandedOver
<1> QED
    BY <1>1, <1>2

\* A connector that is done has an offset, and so have all before it.
LEMMA PlaceAdvances ==
    ASSUME TypeOK, PlaceInv, pc \in ConnectorSteps, role = "follow", This.offset # Unset, Advances
    PROVE  PlaceAt(pc', role', index', existing')
<1>1. \A j \in Indexes : j <= index => conn["follow"][j].offset # Unset
  <2>1. \A j \in Indexes : j < index => conn["follow"][j].offset # Unset
    BY DEF PlaceInv, PlaceAt
  <2>2. index \in Indexes
    BY DEF TypeOK
  <2>3. \A j \in Indexes : j <= index => j < index \/ j = index
    BY <2>2 DEF Indexes
  <2> QED
    BY <2>1, <2>3 DEF This
<1>2. index \in 1 .. NumConnectors /\ NumConnectors \in Nat
    BY RecoveryAssumption DEF TypeOK, Indexes
<1>3. CASE index < NumConnectors
  <2>1. index + 1 \in Indexes /\ \A j \in Indexes : j < index + 1 => j <= index
    BY <1>2, <1>3 DEF Indexes
  <2> DEFINE i == index + 1
  <2>2. i \in Indexes /\ \A j \in Indexes : j < i => conn["follow"][j].offset # Unset
    BY <1>1, <2>1
  <2>3. pc' = FirstStep(i) /\ role' = FirstRole(i) /\ index' = i /\ existing' = Unset
    BY <1>3 DEF Advances, Proceeds, Goto
  <2> HIDE DEF i
  <2> QED
    BY <2>2, <2>3, EnterConnector
<1>4. CASE ~(index < NumConnectors)
  <2>1. \A j \in Indexes : j <= index
    BY <1>2, <1>4 DEF Indexes
  <2>2. pc' = "finish" /\ role' = "follow" /\ index' = index /\ existing' = Unset
    BY <1>4 DEF Advances, Proceeds, Goto
  <2> QED
    BY <1>1, <2>1, <2>2 DEF PlaceAt, ConnectorSteps, EarlySteps
<1> QED
    BY <1>3, <1>4

\* A replay connector that has committed the end of its topic has inserted all of it.
LEMMA CaughtUpHandsOver ==
    ASSUME TypeOK, ConnInv, PlaceInv, pc \in {"compare", "catch_up"}, CaughtUp
    PROVE  HandedOver(index)
<1>1. index \in Indexes /\ role = "replay" /\ Replays(index)
    BY DEF TypeOK, PlaceInv, PlaceAt, ConnectorSteps
<1> DEFINE k == conn["replay"][index]
           n == Target[index] - Start[index]
<1>2. n \in Nat \ {0}
    BY <1>1, Sizes
<1>3. k.offset = n
    BY <1>1 DEF CaughtUp, EndOf, This
<1>4. k.offset <= Larger(k.row, 0) /\ k.row \in 0 .. n \cup {Unset}
    BY <1>1, Typed DEF ConnInv, ReplayOK
<1> HIDE DEF k, n
<1>5. k.row = n
    BY <1>2, <1>3, <1>4 DEF Larger, Unset
<1> QED
    BY <1>5 DEF HandedOver, k, n

LEMMA ReconcileMoves ==
    ASSUME TypeOK, ConnInv, RestoreInv, PlaceInv, Reconcile, ~CreateStopped, ~PatchOffsets
    PROVE  PlaceAt(pc', role', index', existing')
<1> USE DEF localVars
<1>1. role \in Roles /\ index \in Indexes /\ FollowOK(index) /\ ReplayOK(index)
    BY DEF TypeOK, ConnInv
<1>2. PlaceAt(pc, role, index, existing)
    BY DEF PlaceInv
<1>3. CASE UNCHANGED <<role, index, existing>> /\ pc' = "idle"
    BY <1>3, NowhereElse DEF ConnectorSteps, EarlySteps
<1>4. CASE Bails
    BY <1>3, <1>4 DEF Bails, Errs, Goto
<1>5. CASE Begin
  <2>1. /\ pc' \in {"idle", "rows"} /\ role' = "replay" /\ index' = 1 /\ existing' = Unset
    BY <1>5 DEF Begin, Goto
  <2> QED
    BY <2>1 DEF PlaceAt, ConnectorSteps
<1>6. CASE DestinationRows \/ MarkRestoring \/ RestoreState \/ RestoreTable \/ AwaitRestore
  <2>1. CASE ~Bails
    <3>1. pc \in EarlySteps /\ pc' \in EarlySteps /\ UNCHANGED <<role, index, existing>>
      BY <1>6, <2>1
         DEF DestinationRows, MarkRestoring, RestoreState, RestoreTable, AwaitRestore, Proceeds,
             Goto, EarlySteps
    <3> QED
      BY <1>2, <3>1 DEF PlaceAt, EarlySteps, ConnectorSteps
  <2> QED
    BY <1>4, <2>1
<1>7. CASE MarkReplaying
  <2>1. index = 1 /\ existing = Unset
    BY <1>2, <1>7 DEF MarkReplaying, PlaceAt, EarlySteps
  <2>2. pc' = FirstStep(index) /\ role' = FirstRole(index) /\ UNCHANGED <<index, existing>>
    BY <1>7, <2>1 DEF MarkReplaying, Goto
  <2>3. \A j \in Indexes : ~(j < index)
    BY <2>1 DEF Indexes
  <2> QED
    BY <1>1, <2>1, <2>2, <2>3, EnterConnector
<1>8. CASE (Copy /\ ~Bails) \/ Stop \/ Resume
  <2>1. /\ UNCHANGED <<role, index, existing>>
        /\ \/ pc = "copy" /\ pc' = "create"
           \/ pc = "stop" /\ pc' = "stopped"
           \/ pc = "resume" /\ pc' = "running"
    BY <1>8 DEF Copy, Stop, Resume, Proceeds, Goto
  <2> QED
    BY <1>2, <2>1 DEF PlaceAt, ConnectorSteps, EarlySteps
<1>9. CASE KeeperRows
  <2>1. /\ UNCHANGED <<role, index>> /\ pc = "keeper" /\ pc' = "create"
        /\ existing' = conn[role][index].row
    BY <1>9 DEF KeeperRows, Proceeds, Goto, This
  <2> QED
    BY <1>2, <2>1 DEF PlaceAt, ConnectorSteps, EarlySteps
<1>10. CASE AwaitStopped \/ VerifyRetained
  <2>1. CASE /\ pc = "stopped" /\ pc' = (IF role = "replay" THEN "retained" ELSE "patch")
             /\ UNCHANGED <<role, index, existing>>
    BY <1>1, <1>2, <2>1 DEF PlaceAt, ConnectorSteps, EarlySteps, Roles
  <2>2. CASE /\ pc = "retained" /\ pc' = "keeper" /\ role' = "follow"
             /\ UNCHANGED <<index, existing>>
    BY <1>2, <2>2 DEF PlaceAt, ConnectorSteps, EarlySteps
  <2> QED
    BY <1>4, <1>10, <2>1, <2>2 DEF AwaitStopped, VerifyRetained, Proceeds, Goto
<1>11. CASE CompareOffsets \/ WaitOffsets
  <2>1. \/ Bails
        \/ /\ UNCHANGED <<role, index, existing>>
           /\ \/ pc \in {"compare", "catch_up"} /\ CaughtUp /\ pc' = "stop"
              \/ pc = "compare" /\ pc' = "resume"
    BY <1>11 DEF CompareOffsets, WaitOffsets, Proceeds, Goto
  <2>2. pc \in {"compare", "catch_up"} /\ CaughtUp => HandedOver(index)
    BY CaughtUpHandsOver
  <2> QED
    BY <1>2, <1>4, <2>1, <2>2 DEF PlaceAt, ConnectorSteps, EarlySteps
<1>12. CASE WaitRunning
  <2>1. CASE role = "replay" /\ pc = "running" /\ pc' = "catch_up"
             /\ UNCHANGED <<role, index, existing>>
    BY <1>2, <2>1 DEF PlaceAt, ConnectorSteps, EarlySteps
  <2>2. CASE role = "follow" /\ pc = "running" /\ Advances
    <3>1. This.offset # Unset
      BY <1>2, <2>2 DEF PlaceAt, This
    <3> QED
      BY <2>2, <3>1, PlaceAdvances DEF ConnectorSteps
  <2> QED
    BY <1>4, <1>12, <2>1, <2>2 DEF WaitRunning, Proceeds, Goto
<1>13. CASE Hydrate \/ CheckOffsets \/ Progress
  <2>1. \/ Bails
        \/ /\ UNCHANGED <<role, index, existing>>
           /\ \/ pc = "hydrate" /\ pc' \in {"check_stopped", "check_offsets"}
              \/ pc = "hydrate" /\ ~Bounded /\ pc' = "resume"
              \/ pc = "check_offsets" /\ pc' = "check_stopped"
              \/ pc = "progress" /\ pc' = "resume"
    BY <1>13 DEF Hydrate, CheckOffsets, Progress, Proceeds, Goto
  <2>2. pc \in {"hydrate", "progress", "check_offsets"}
          => role = "follow" /\ conn["follow"][index].state # "absent"
    BY <1>1, <1>2 DEF PlaceAt, FollowOK, Absent
  <2> QED
    BY <1>2, <1>4, <2>1, <2>2 DEF PlaceAt, ConnectorSteps, EarlySteps
<1>14. CASE CheckStopped
  <2>1. CASE Advances
    <3>1. pc = "check_stopped"
      BY <1>14 DEF CheckStopped
    <3>2. role = "follow" /\ This.offset # Unset
      BY <1>2, <3>1 DEF PlaceAt, This
    <3> QED
      BY <2>1, <3>1, <3>2, PlaceAdvances DEF ConnectorSteps
  <2> QED
    BY <1>4, <1>14, <2>1 DEF CheckStopped
<1>15. CASE Finish
    BY <1>3, <1>15 DEF Finish, Goto
<1> QED
    BY <1>4, <1>5, <1>6, <1>7, <1>8, <1>9, <1>10, <1>11, <1>12, <1>13, <1>14, <1>15 DEF Reconcile

\* After these two a place relies on what they have done.
LEMMA InitializationMoves ==
    ASSUME TypeOK, TypeOK', ConnInv, RestoreInv, PlaceInv, [Next]_vars, mode' = mode,
           CreateStopped \/ PatchOffsets
    PROVE  PlaceInv'
<1> USE DEF localVars
<1>1. role \in Roles /\ index \in Indexes /\ This = conn[role][index]
    BY DEF TypeOK, This
<1>2. Grows /\ ConnTypes'
    BY GrowsNext, ConnTypesNext
<1>3. FollowOK(index)
    BY <1>1 DEF ConnInv
<1>4. PlaceAt(pc, role, index, existing)
    BY DEF PlaceInv
<1>5. ASSUME NEW step, NEW r \in Roles, NEW i \in Indexes, NEW found,
             PlaceAt(step, r, i, found), step = pc, r = role, i = index, found = existing
      PROVE  PlaceInv'
  <2>1. PlaceAt(step, r, i, found)'
    BY <1>2, <1>5, PlaceStill
  <2>2. conn[r][i] \in Records
    BY Fields
  <2>3. CASE CreateStopped
    <3>1. /\ UNCHANGED <<role, index, existing>> /\ step = "create"
          /\ conn' = [conn EXCEPT ![r][i] =
                         IF conn[r][i].state = "absent"
                         THEN [conn[r][i] EXCEPT !.state = "STOPPED"] ELSE conn[r][i]]
          /\ pc' \in {"patch", "compare", "stop", "hydrate", "progress"}
          /\ pc' = "compare" => r = "replay"
          /\ pc' \in {"stop", "hydrate", "progress"} => r = "follow"
          /\ pc' \in {"hydrate", "progress"} => conn[r][i].state # "absent" /\ found # Unset
          /\ pc' = "progress" => ~Bounded
      <4> DEFINE new == This.state = "absent"
      <4>1. /\ UNCHANGED <<role, index, existing>> /\ pc = "create"
            /\ conn' = [conn EXCEPT ![role][index] =
                           IF new THEN [This EXCEPT !.state = "STOPPED"] ELSE This]
        BY <2>3 DEF CreateStopped, Sets
      <4>2. \/ r = "replay" /\ pc' = IF new THEN "patch" ELSE "compare"
            \/ r = "follow" /\ (new \/ existing = Unset) /\ pc' = "stop"
            \/ /\ r = "follow" /\ ~(new \/ existing = Unset)
               /\ pc' = IF Bounded THEN "hydrate" ELSE "progress"
        BY <1>5, <2>3 DEF CreateStopped, Uninitialized, Proceeds, Goto
      <4>3. conn' = [conn EXCEPT ![r][i] =
                        IF conn[r][i].state = "absent"
                        THEN [conn[r][i] EXCEPT !.state = "STOPPED"] ELSE conn[r][i]]
        BY <1>1, <1>5, <4>1
      <4>4. new = (conn[r][i].state = "absent")
        BY <1>1, <1>5
      <4> HIDE DEF new
      <4> QED
        BY <1>5, <4>1, <4>2, <4>3, <4>4
    <3> DEFINE k == IF conn[r][i].state = "absent"
                    THEN [conn[r][i] EXCEPT !.state = "STOPPED"] ELSE conn[r][i]
    <3>2. k \in Records /\ k.state # "absent" /\ k.offset = conn[r][i].offset
      BY <2>2 DEF Records
    <3>3. conn' = [conn EXCEPT ![r][i] = k]
      BY <3>1
    <3> HIDE DEF k
    <3>4. conn'[r][i].state # "absent" /\ conn'[r][i].offset = conn[r][i].offset
      BY <3>2, <3>3, OneChanged DEF ConnInv
    <3>5. pc' \in {"hydrate", "progress"} => conn'[r][i].offset # Unset
      BY <1>3, <1>4, <1>5, <3>1, <3>4 DEF PlaceAt, FollowOK
    <3>6. Bounded' = Bounded
      BY DEF Bounded
    <3> QED
      BY <1>5, <2>1, <3>1, <3>4, <3>5, <3>6 DEF PlaceInv, PlaceAt, ConnectorSteps, EarlySteps
  <2>4. CASE PatchOffsets /\ This.state = "STOPPED"
    <3>1. /\ UNCHANGED <<role, index, existing>> /\ step = "patch"
          /\ conn' = [conn EXCEPT ![r][i] = [conn[r][i] EXCEPT !.offset = FirstOffset]]
          /\ pc' = IF r = "replay" THEN "compare" ELSE "hydrate"
      BY <1>1, <1>5, <2>4 DEF PatchOffsets, Sets, Proceeds, Goto
    <3>2. FirstOffset \in Nat
      BY <1>1, Sizes DEF FirstOffset
    <3> DEFINE k == [conn[r][i] EXCEPT !.offset = FirstOffset]
    <3>3. k \in Records /\ k.offset # Unset
      BY <2>2, <3>2 DEF Records, Unset
    <3>4. conn' = [conn EXCEPT ![r][i] = k]
      BY <3>1
    <3> HIDE DEF k
    <3>5. conn'[r][i].offset # Unset
      BY <3>3, <3>4, OneChanged DEF ConnInv
    <3> QED
      BY <1>5, <2>1, <3>1, <3>5 DEF PlaceInv, PlaceAt, ConnectorSteps, EarlySteps, Roles
  <2>5. CASE PatchOffsets /\ This.state # "STOPPED"
    <3>1. pc' = "idle" /\ UNCHANGED <<role, index, existing>>
      BY <2>5 DEF PatchOffsets, Bails, Errs, Goto
    <3>2. PlaceAt("idle", role, index, existing)
      BY NowhereElse DEF ConnectorSteps, EarlySteps
    <3> QED
      BY <3>1, <3>2, PlaceMoves
  <2> QED
    BY <2>3, <2>4, <2>5
<1> QED
    BY <1>1, <1>4, <1>5

\* The plan's mode stays.
LEMMA ModeSame == [Next]_vars => mode' = mode
<1> SUFFICES ASSUME [Next]_vars PROVE mode' = mode
    OBVIOUS
<1> USE DEF tableVars, connectVars, controllerVars, statusVars, localVars
<1>1. CASE Reconcile
    BY <1>1
       DEF Reconcile, Begin, DestinationRows, MarkRestoring, RestoreState, RestoreTable,
           AwaitRestore, MarkReplaying, Copy, KeeperRows, CreateStopped, Stop, AwaitStopped,
           VerifyRetained, PatchOffsets, CompareOffsets, Resume, WaitRunning, WaitOffsets, Hydrate,
           CheckOffsets, Progress, CheckStopped, Finish, Advances, Proceeds, Bails
<1>2. CASE ~Reconcile
    BY <1>2
       DEF Next, Idle, Fail, Crash, Observe, RestoreEnds, Amnesia, RestoreWrites, TrimReplay,
           Cutover, Ingest, CommitOffset, TaskFails, SinkFails, TaskStops, vars
<1> QED
    BY <1>1, <1>2

LEMMA PlaceNext ==
    TypeOK /\ TypeOK' /\ ConnInv /\ RestoreInv /\ PlaceInv /\ [Next]_vars => PlaceInv'
<1> SUFFICES ASSUME TypeOK, TypeOK', ConnInv, RestoreInv, PlaceInv, [Next]_vars PROVE PlaceInv'
    OBVIOUS
<1> USE DEF tableVars, connectVars, controllerVars, statusVars, localVars
<1>1. PlaceAt(pc, role, index, existing)
    BY DEF PlaceInv
<1>2. mode' = mode
    BY ModeSame
<1>3. CASE CreateStopped \/ PatchOffsets
    BY <1>2, <1>3, InitializationMoves
<1>4. CASE Reconcile /\ ~CreateStopped /\ ~PatchOffsets
    BY <1>2, <1>4, ReconcileMoves, PlaceMoves
<1>5. CASE UNCHANGED <<pc, role, index, existing>>
    BY <1>1, <1>2, <1>5, PlaceMoves
<1>6. CASE Fail \/ Crash
  <2>1. pc' = "idle" /\ UNCHANGED <<role, index, existing>>
    BY <1>6 DEF Fail, Crash, Errs, Goto
  <2>2. PlaceAt("idle", role, index, existing)
    BY NowhereElse DEF ConnectorSteps, EarlySteps
  <2> QED
    BY <1>2, <2>1, <2>2, PlaceMoves
<1>7. CASE \/ Observe \/ RestoreEnds \/ Amnesia \/ UNCHANGED vars
           \/ \E i \in Indexes : RestoreWrites(i) \/ TrimReplay(i) \/ Cutover(i)
           \/ \E r \in Roles, i \in Indexes :
                 \/ Ingest(r, i) \/ CommitOffset(r, i) \/ TaskFails(r, i)
                 \/ SinkFails(r, i) \/ TaskStops(r, i)
  <2>1. CASE Observe \/ RestoreEnds \/ Amnesia \/ UNCHANGED vars
    BY <1>5, <2>1 DEF Observe, RestoreEnds, Amnesia, vars
  <2>2. ASSUME NEW i \in Indexes, RestoreWrites(i) \/ TrimReplay(i) \/ Cutover(i) PROVE PlaceInv'
    BY <1>5, <2>2 DEF RestoreWrites, TrimReplay, Cutover
  <2>3. ASSUME NEW r \in Roles, NEW i \in Indexes,
               \/ Ingest(r, i) \/ CommitOffset(r, i) \/ TaskFails(r, i)
               \/ SinkFails(r, i) \/ TaskStops(r, i)
        PROVE  PlaceInv'
    BY <1>5, <2>3 DEF Ingest, CommitOffset, TaskFails, SinkFails, TaskStops
  <2> QED
    BY <1>7, <2>1, <2>2, <2>3
<1> QED
    BY <1>3, <1>4, <1>6, <1>7 DEF Next, Idle

-----------------------------------------------------------------------------
(* The replay topics.                                                        *)

\* The replay connector of i, if there is one, is done: its section is behind this
\* attempt, or the recovery is complete.
Past(i) ==
    \/ phase = "Complete" \/ pc = "finish"
    \/ pc \in ConnectorSteps /\ (i < index \/ (i = index /\ role = "follow"))

\* A topic that was trimmed early has lost its first record for good. A replay
\* connector is stopped at its end only, and one that is done has stopped.
TopicOK(i) ==
    /\ early[i] => low[i] > 0
    /\ ~Replays(i) => low[i] = Unset /\ ~early[i]
    /\ conn["replay"][i].state = "stopping" => conn["replay"][i].offset = EndOf("replay", i)
    /\ Past(i) => ~early[i] /\ (Replays(i) => AtRest(i))

\* What an attempt knows of the replay connector it is at: one that it resumes is not
\* at rest, one that it patches is new, one that it stops is at its end.
ReplayPlace ==
    role = "replay" =>
        /\ pc = "resume" /\ This.state \in {"STOPPED", "stopping"} => ~CaughtUp
        /\ pc = "patch" => This.offset = Unset
        /\ pc \in {"stop", "stopped", "retained"} => CaughtUp
        /\ pc = "retained" => This.state = "STOPPED"

TopicInv == ReplayPlace /\ \A i \in Indexes : TopicOK(i)

\* What happens to a replay connector while the controller waits.
Waits(k, l, n) ==
    \/ l.state = k.state /\ l.offset = k.offset
    \/ k.state = "RUNNING" /\ l.state = "FAILED" /\ l.offset = k.offset
    \/ k.state = "stopping" /\ l.state = "STOPPED" /\ l.offset = k.offset
    \/ k.state = "RUNNING" /\ l.state = "RUNNING" /\ k.offset # Unset /\ k.offset < n

\* What the controller does to the one it is at.
Handles(k, l, n) ==
    \/ pc = "create" /\ k = Absent /\ l.state = "STOPPED" /\ l.offset = Unset
    \/ pc = "stop" /\ k.state \in {"RUNNING", "FAILED"} /\ l.state \in {"stopping", "STOPPED"}
       /\ l.offset = k.offset
    \/ pc = "patch" /\ k.state = "STOPPED" /\ k.offset = Unset /\ l.state = "STOPPED"
    \/ pc = "resume" /\ k.offset # n /\ l.state = "RUNNING" /\ l.offset = k.offset

LEMMA ReplayWaits ==
    ASSUME TypeOK, ConnInv, TopicInv, [Next]_vars, ~Reconcile, NEW i \in Indexes
    PROVE  Waits(conn["replay"][i], conn'["replay"][i], EndOf("replay", i))
<1> USE DEF tableVars, connectVars, controllerVars
<1> DEFINE k == conn["replay"][i]
           n == EndOf("replay", i)
<1>1. ASSUME conn'["replay"][i] = conn["replay"][i] PROVE Waits(k, conn'["replay"][i], n)
    BY <1>1 DEF Waits
<1>2. ASSUME NEW r \in Roles, NEW j \in Indexes, r # "replay" \/ j # i, NEW l \in Records,
             conn' = [conn EXCEPT ![r][j] = l]
      PROVE  conn'["replay"][i] = conn["replay"][i]
    BY <1>2, OneChanged DEF ConnInv, Only, Roles
<1>3. ASSUME NEW r \in Roles, NEW j \in Indexes,
             \/ Ingest(r, j) \/ CommitOffset(r, j) \/ TaskFails(r, j)
             \/ SinkFails(r, j) \/ TaskStops(r, j)
      PROVE  Waits(k, conn'["replay"][i], n)
  <2> DEFINE T == conn[r][j]
  <2>1. T \in Records /\ T.row \in Int /\ T.offset \in Int
    BY Fields DEF Records
  <2>2. CASE TaskFails(r, j) \/ SinkFails(r, j) \/ TaskStops(r, j)
    <3>1. PICK state \in {"FAILED", "STOPPED"} :
             /\ conn' = [conn EXCEPT ![r][j] = [T EXCEPT !.state = state]]
             /\ T.state = IF state = "FAILED" THEN "RUNNING" ELSE "stopping"
      BY <2>2 DEF TaskFails, SinkFails, TaskStops
    <3> DEFINE l == [T EXCEPT !.state = state]
    <3>2. l \in Records /\ l.state = state /\ l.offset = T.offset
      BY <2>1 DEF Records
    <3>3. conn' = [conn EXCEPT ![r][j] = l]
      BY <3>1
    <3> HIDE DEF l
    <3>4. conn'[r][j] = l
      BY <3>2, <3>3, OneChanged DEF ConnInv
    <3>5. CASE r = "replay" /\ j = i
      BY <3>1, <3>2, <3>4, <3>5 DEF Waits
    <3> QED
      BY <1>1, <1>2, <3>2, <3>3, <3>5
  <2>3. CASE Ingest(r, j)
    <3>1. Position(T) \in Int
      BY <2>1, MaxOfTwo DEF Position, Larger
    <3> DEFINE l == [T EXCEPT !.row = Position(T) + 1]
    <3>2. l \in Records /\ l.state = T.state /\ l.offset = T.offset
      BY <2>1, <3>1 DEF Records
    <3>3. conn' = [conn EXCEPT ![r][j] = l]
      BY <2>3 DEF Ingest
    <3> HIDE DEF l
    <3>4. conn'[r][j] = l
      BY <3>2, <3>3, OneChanged DEF ConnInv
    <3>5. CASE r = "replay" /\ j = i
      BY <3>2, <3>4, <3>5 DEF Waits
    <3> QED
      BY <1>1, <1>2, <3>2, <3>3, <3>5
  <2>4. CASE CommitOffset(r, j)
    <3> DEFINE l == [T EXCEPT !.offset = T.row]
    <3>1. l \in Records /\ l.state = T.state
      BY <2>1 DEF Records
    <3>2. /\ conn' = [conn EXCEPT ![r][j] = l]
          /\ T.state \in {"RUNNING", "stopping"} /\ T.offset # Unset /\ T.offset < T.row
      BY <2>4 DEF CommitOffset
    <3> HIDE DEF l
    <3>3. conn'[r][j] = l
      BY <3>1, <3>2, OneChanged DEF ConnInv
    <3>4. CASE r = "replay" /\ j = i
      <4>1. n \in Int /\ T.row \in 0 .. n \cup {Unset} /\ T.offset \in 0 .. n \cup {Unset}
        BY <3>4, Typed, Sizes DEF EndOf
      <4>2. T.offset < n
        BY <2>1, <3>2, <4>1 DEF Unset
      <4>3. T.state = "RUNNING"
        BY <2>1, <3>2, <3>4, <4>1, <4>2 DEF TopicInv, TopicOK
      <4> QED
        BY <3>1, <3>2, <3>3, <3>4, <4>2, <4>3 DEF Waits
    <3> QED
      BY <1>1, <1>2, <3>1, <3>2, <3>4
  <2> QED
    BY <1>3, <2>2, <2>3, <2>4
<1>4. ASSUME NEW j \in Indexes, Cutover(j) PROVE Waits(k, conn'["replay"][i], n)
  <2>1. PICK r \in Roles : r = "follow"
    BY DEF Roles
  <2> DEFINE l == Resumed(conn["follow"][j])
  <2>2. l \in Records
    <3>1. conn["follow"][j] \in Records
      BY <2>1, Fields
    <3> QED
      BY <3>1 DEF Resumed, Records
  <2>3. conn' = [conn EXCEPT !["follow"][j] = l]
    BY <1>4 DEF Cutover
  <2> HIDE DEF l
  <2> QED
    BY <1>1, <1>2, <2>1, <2>2, <2>3
<1>5. CASE \/ Fail \/ Crash \/ Observe \/ RestoreEnds \/ Amnesia \/ UNCHANGED vars
           \/ \E j \in Indexes : RestoreWrites(j) \/ TrimReplay(j)
    BY <1>1, <1>5
       DEF Fail, Crash, Observe, RestoreEnds, Amnesia, RestoreWrites, TrimReplay, vars
<1> QED
    BY <1>3, <1>4, <1>5 DEF Next, Idle

LEMMA ReplayHandled ==
    ASSUME TypeOK, ConnInv, PlaceInv, TopicInv, Reconcile, NEW i \in Indexes
    PROVE  \/ conn'["replay"][i] = conn["replay"][i]
           \/ /\ role = "replay" /\ index = i
              /\ Handles(conn["replay"][i], conn'["replay"][i], EndOf("replay", i))
<1> USE DEF tableVars, connectVars
<1> DEFINE T == conn[role][index]
<1>1. role \in Roles /\ index \in Indexes /\ This = T
    BY DEF TypeOK, This
<1>2. T \in Records
    BY <1>1, Fields
<1>3. ASSUME NEW l \in Records, conn' = [conn EXCEPT ![role][index] = l],
             role = "replay" /\ index = i => l = T \/ Handles(T, l, EndOf("replay", i))
      PROVE  \/ conn'["replay"][i] = conn["replay"][i]
             \/ /\ role = "replay" /\ index = i
                /\ Handles(conn["replay"][i], conn'["replay"][i], EndOf("replay", i))
  <2>1. conn'[role][index] = l /\ Only(role, index)
    BY <1>1, <1>3, OneChanged DEF ConnInv
  <2> QED
    BY <1>1, <1>3, <2>1 DEF Only, Roles
<1>4. CASE CreateStopped
  <2> DEFINE l == IF T.state = "absent" THEN [T EXCEPT !.state = "STOPPED"] ELSE T
  <2>1. pc = "create" /\ conn' = [conn EXCEPT ![role][index] = l]
    BY <1>1, <1>4 DEF CreateStopped, Sets
  <2>2. l \in Records /\ (T.state = "absent" => l.state = "STOPPED" /\ l.offset = T.offset)
    BY <1>2 DEF Records
  <2>3. T.state # "absent" => l = T
    OBVIOUS
  <2>4. role = "replay" /\ T.state = "absent" => T = Absent
    BY <1>1 DEF ConnInv, ReplayOK
  <2> HIDE DEF l
  <2>5. role = "replay" => l = T \/ Handles(T, l, EndOf("replay", i))
    BY <2>1, <2>2, <2>3, <2>4 DEF Handles, Absent
  <2> QED
    BY <1>3, <2>1, <2>2, <2>5
<1>5. CASE Stop
  <2> DEFINE l == Stopped(T)
  <2>1. pc = "stop" /\ conn' = [conn EXCEPT ![role][index] = l]
    BY <1>1, <1>5 DEF Stop, Sets
  <2>2. l \in Records /\ l.offset = T.offset
        /\ IF T.state \in {"RUNNING", "FAILED"} THEN l.state \in {"stopping", "STOPPED"} ELSE l = T
    BY <1>2 DEF Stopped, Records
  <2> HIDE DEF l
  <2>3. l = T \/ Handles(T, l, EndOf("replay", i))
    BY <2>1, <2>2 DEF Handles
  <2> QED
    BY <1>3, <2>1, <2>2, <2>3
<1>6. CASE Resume
  <2> DEFINE l == Resumed(T)
  <2>1. pc = "resume" /\ conn' = [conn EXCEPT ![role][index] = l]
    BY <1>1, <1>6 DEF Resume, Sets
  <2>2. l \in Records /\ l.offset = T.offset
        /\ IF T.state \in {"STOPPED", "stopping"} THEN l.state = "RUNNING" ELSE l = T
    BY <1>2 DEF Resumed, Records
  <2> HIDE DEF l
  <2>3. role = "replay" /\ index = i => l = T \/ Handles(T, l, EndOf("replay", i))
    BY <1>1, <2>1, <2>2 DEF Handles, TopicInv, ReplayPlace, CaughtUp
  <2> QED
    BY <1>3, <2>1, <2>2, <2>3
<1>7. CASE PatchOffsets
  <2> DEFINE l == [T EXCEPT !.offset = FirstOffset]
  <2>1. pc = "patch"
        /\ (conn' = conn \/ (T.state = "STOPPED" /\ conn' = [conn EXCEPT ![role][index] = l]))
    BY <1>1, <1>7 DEF PatchOffsets, Sets
  <2>2. FirstOffset \in Int
    BY <1>1, Sizes DEF FirstOffset
  <2>3. l \in Records /\ l.state = T.state
    BY <1>2, <2>2 DEF Records
  <2> HIDE DEF l
  <2>4. role = "replay" /\ T.state = "STOPPED" => Handles(T, l, EndOf("replay", i))
    BY <1>1, <2>1, <2>3 DEF Handles, TopicInv, ReplayPlace
  <2> QED
    BY <1>3, <2>1, <2>3, <2>4
<1>8. CASE Hydrate
  <2> DEFINE l == [T EXCEPT !.row = GoalRow(index)]
  <2>1. role = "follow" /\ (conn' = conn \/ conn' = [conn EXCEPT ![role][index] = l])
    BY <1>1, <1>8 DEF Hydrate, Sets, PlaceInv, PlaceAt
  <2>2. GoalRow(index) \in Int
    BY <1>1, Sizes DEF Unset
  <2>3. l \in Records
    BY <1>2, <2>2 DEF Records
  <2> HIDE DEF l
  <2> QED
    BY <1>3, <2>1, <2>3
<1>9. CASE \/ Begin \/ DestinationRows \/ MarkRestoring \/ RestoreState \/ RestoreTable
           \/ AwaitRestore \/ MarkReplaying \/ Copy \/ KeeperRows \/ AwaitStopped
           \/ VerifyRetained \/ CompareOffsets \/ WaitRunning \/ WaitOffsets
           \/ CheckOffsets \/ Progress \/ CheckStopped \/ Finish
  <2>1. conn' = conn
    BY <1>9
       DEF Begin, DestinationRows, MarkRestoring, RestoreState, RestoreTable, AwaitRestore,
           MarkReplaying, Copy, KeeperRows, AwaitStopped, VerifyRetained, CompareOffsets,
           WaitRunning, WaitOffsets, CheckOffsets, Progress, CheckStopped, Finish
  <2> QED
    BY <2>1
<1> QED
    BY <1>4, <1>5, <1>6, <1>7, <1>8, <1>9 DEF Reconcile

\* A connector at rest stays so.
LEMMA RestStays ==
    ASSUME TypeOK, ConnInv, PlaceInv, TopicInv, [Next]_vars, NEW i \in Indexes, AtRest(i)
    PROVE  AtRest(i)'
<1> DEFINE n == EndOf("replay", i)
           k == conn["replay"][i]
           l == conn'["replay"][i]
<1>1. k.state = "STOPPED" /\ k.offset = n /\ n \in Int /\ n # Unset
    BY Sizes DEF AtRest, EndOf, Unset
<1>2. CASE Reconcile
  <2>1. l = k \/ (role = "replay" /\ index = i /\ Handles(k, l, n))
    BY <1>2, ReplayHandled
  <2>2. ~Handles(k, l, n)
    BY <1>1 DEF Handles, Absent
  <2> QED
    BY <1>1, <2>1, <2>2 DEF AtRest, EndOf
<1>3. CASE ~Reconcile
  <2>1. Waits(k, l, n)
    BY <1>3, ReplayWaits
  <2> QED
    BY <1>1, <2>1 DEF Waits, AtRest, EndOf
<1> QED
    BY <1>2, <1>3

\* A connector stops at its end only.
LEMMA StoppingAtEnd ==
    ASSUME TypeOK, ConnInv, PlaceInv, TopicInv, [Next]_vars, NEW i \in Indexes,
           conn'["replay"][i].state = "stopping"
    PROVE  conn'["replay"][i].offset = EndOf("replay", i)
<1> DEFINE n == EndOf("replay", i)
           k == conn["replay"][i]
           l == conn'["replay"][i]
<1>1. k.state = "stopping" => k.offset = n
    BY DEF TopicInv, TopicOK
<1>2. CASE Reconcile
  <2>1. l = k \/ (role = "replay" /\ index = i /\ Handles(k, l, n))
    BY <1>2, ReplayHandled
  <2>2. CASE role = "replay" /\ index = i /\ Handles(k, l, n)
    <3>1. pc = "stop" /\ l.offset = k.offset
      BY <2>2 DEF Handles
    <3>2. CaughtUp /\ This = k
      BY <2>2, <3>1 DEF TopicInv, ReplayPlace, This
    <3> QED
      BY <2>2, <3>1, <3>2 DEF CaughtUp
  <2> QED
    BY <1>1, <2>1, <2>2
<1>3. CASE ~Reconcile
  <2>1. Waits(k, l, n)
    BY <1>3, ReplayWaits
  <2> QED
    BY <1>1, <2>1 DEF Waits
<1> QED
    BY <1>2, <1>3

\* A section gets behind the attempt when its topic is found whole the second time, or
\* when there is none.
LEMMA PastNext ==
    ASSUME TypeOK, PlaceInv, [Next]_vars, mode' = mode, NEW i \in Indexes, Past(i)'
    PROVE  \/ Past(i)
           \/ ~Replays(i)
           \/ VerifyRetained /\ Retained /\ i = index /\ role = "replay"
<1> USE DEF localVars, statusVars
<1>1. CASE phase' = phase /\ pc' = pc /\ UNCHANGED <<role, index>>
    BY <1>1 DEF Past
<1>2. CASE phase' = phase /\ pc' \notin ConnectorSteps \cup {"finish"}
    BY <1>2 DEF Past
<1>3. CASE phase' = phase /\ pc \in ConnectorSteps /\ UNCHANGED <<role, index>>
           /\ pc' \in ConnectorSteps
    BY <1>3 DEF Past, ConnectorSteps
<1>4. index \in 1 .. NumConnectors /\ i \in 1 .. NumConnectors /\ NumConnectors \in Nat
    BY RecoveryAssumption DEF TypeOK, Indexes
<1>5. ASSUME NEW j \in Indexes, role' = FirstRole(j), index' = j, i = j, role' = "follow"
      PROVE  ~Replays(i)
    BY <1>5 DEF FirstRole, FirstStep, Replays
<1>6. CASE Bails
    BY <1>2, <1>6 DEF Bails, Errs, Goto, ConnectorSteps
<1>7. CASE Advances /\ role = "follow" /\ pc \in ConnectorSteps
  <2>1. phase' = phase
    BY <1>7 DEF Advances, Proceeds
  <2>2. CASE index < NumConnectors
    <3>1. /\ pc' = FirstStep(index + 1) /\ role' = FirstRole(index + 1) /\ index' = index + 1
          /\ index + 1 \in Indexes
      BY <1>4, <1>7, <2>2 DEF Advances, Proceeds, Goto, Indexes
    <3>2. pc' # "finish"
      BY <3>1 DEF FirstStep
    <3>3. \/ phase = "Complete" \/ i < index + 1
          \/ i = index + 1 /\ role' = "follow"
      BY <2>1, <3>1, <3>2 DEF Past
    <3>4. i < index + 1 => i < index \/ i = index
      BY <1>4
    <3> QED
      BY <1>5, <1>7, <3>1, <3>3, <3>4 DEF Past
  <2>3. CASE ~(index < NumConnectors)
    <3>1. i < index \/ i = index
      BY <1>4, <2>3
    <3> QED
      BY <1>7, <3>1 DEF Past
  <2> QED
    BY <2>2, <2>3
<1>8. CASE Reconcile
  <2>1. CASE Begin \/ DestinationRows \/ RestoreState \/ RestoreTable \/ AwaitRestore
    <3>1. phase' = phase /\ pc' \notin ConnectorSteps \cup {"finish"}
      BY <2>1
         DEF Begin, DestinationRows, RestoreState, RestoreTable, AwaitRestore, Proceeds, Bails,
             Errs, Goto, ConnectorSteps
    <3> QED
      BY <1>2, <3>1
  <2>2. CASE MarkRestoring
    BY <2>2 DEF MarkRestoring, Goto, Past, ConnectorSteps
  <2>3. CASE MarkReplaying
    <3>0. index = 1
      BY <2>3 DEF MarkReplaying, PlaceInv, PlaceAt, EarlySteps
    <3>1. /\ pc' = FirstStep(1) /\ role' = FirstRole(1) /\ index' = 1 /\ phase' = "Replaying"
      BY <2>3, <3>0 DEF MarkReplaying, Goto
    <3>2. pc' # "finish" /\ 1 \in Indexes /\ ~(i < 1)
      BY <1>4, <3>1 DEF FirstStep, Indexes
    <3>3. i = 1 /\ role' = "follow"
      BY <3>1, <3>2 DEF Past
    <3> QED
      BY <1>5, <3>1, <3>2, <3>3
  <2>4. CASE \/ Copy \/ KeeperRows \/ CreateStopped \/ Stop \/ AwaitStopped \/ PatchOffsets
             \/ CompareOffsets \/ Resume \/ WaitOffsets \/ Hydrate \/ CheckOffsets
             \/ Progress
    <3>1. \/ Bails
          \/ /\ phase' = phase /\ pc \in ConnectorSteps /\ UNCHANGED <<role, index>>
             /\ pc' \in ConnectorSteps
      BY <2>4
         DEF Copy, KeeperRows, CreateStopped, Stop, AwaitStopped, PatchOffsets, CompareOffsets,
             Resume, WaitOffsets, Hydrate, CheckOffsets, Progress, Proceeds, Goto,
             ConnectorSteps
    <3> QED
      BY <1>3, <1>6, <3>1
  <2>5. CASE WaitRunning \/ CheckStopped
    <3>1. pc \in ConnectorSteps /\ (pc = "check_stopped" => role = "follow")
      BY <2>5 DEF WaitRunning, CheckStopped, ConnectorSteps, PlaceInv, PlaceAt
    <3>2. \/ Bails
          \/ Advances /\ role = "follow"
          \/ phase' = phase /\ UNCHANGED <<role, index>> /\ pc' = "catch_up"
      BY <2>5, <3>1 DEF WaitRunning, CheckStopped, Proceeds, Goto
    <3> QED
      BY <1>3, <1>6, <1>7, <3>1, <3>2 DEF ConnectorSteps
  <2>6. CASE VerifyRetained
    <3>1. CASE Retained
      <4>1. /\ pc = "retained" /\ role = "replay" /\ phase' = phase /\ index' = index
            /\ pc' = "keeper" \/ pc' = "idle"
        BY <2>6 DEF VerifyRetained, Proceeds, Bails, Errs, Goto, PlaceInv, PlaceAt
      <4>2. phase = "Complete" \/ i < index \/ i = index
        BY <4>1 DEF Past, ConnectorSteps
      <4> QED
        BY <2>6, <3>1, <4>1, <4>2 DEF Past, ConnectorSteps
    <3>2. CASE ~Retained
      BY <1>6, <2>6, <3>2 DEF VerifyRetained
    <3> QED
      BY <3>1, <3>2
  <2>7. CASE Finish
    BY <2>7 DEF Finish, Past
  <2> QED
    BY <1>8, <2>1, <2>2, <2>3, <2>4, <2>5, <2>6, <2>7 DEF Reconcile
<1>9. CASE Fail \/ Crash
    BY <1>2, <1>9 DEF Fail, Crash, Errs, Goto, ConnectorSteps
<1>10. CASE \/ Observe \/ RestoreEnds \/ Amnesia \/ UNCHANGED vars
            \/ \E j \in Indexes : RestoreWrites(j) \/ TrimReplay(j) \/ Cutover(j)
  <2> USE DEF tableVars, connectVars, controllerVars
  <2> QED
    BY <1>1, <1>10
       DEF Observe, RestoreEnds, Amnesia, RestoreWrites, TrimReplay, Cutover, vars
<1>11. ASSUME NEW r \in Roles, NEW j \in Indexes,
              \/ Ingest(r, j) \/ CommitOffset(r, j) \/ TaskFails(r, j)
              \/ SinkFails(r, j) \/ TaskStops(r, j)
       PROVE  phase' = phase /\ pc' = pc /\ UNCHANGED <<role, index>>
    BY <1>11 DEF Ingest, CommitOffset, TaskFails, SinkFails, TaskStops, controllerVars
<1> QED
    BY <1>1, <1>8, <1>9, <1>10, <1>11 DEF Next, Idle

\* What an attempt knows of its replay connector comes from its own last step, and
\* waiting takes none of it back.
LEMMA ReplayPlaceNext ==
    ASSUME TypeOK, TypeOK', ConnInv, PlaceInv, TopicInv, [Next]_vars
    PROVE  ReplayPlace'
<1> SUFFICES ASSUME role' = "replay" PROVE ReplayPlace'
    BY DEF ReplayPlace
<1> USE DEF localVars
<1> DEFINE i == index'
           n == EndOf("replay", i)
           k == conn["replay"][i]
           l == conn'["replay"][i]
<1>1. i \in Indexes /\ index \in Indexes /\ role \in Roles /\ This' = l
    BY DEF TypeOK, This
<1>2. CaughtUp' <=> l.offset = n
    BY <1>1 DEF CaughtUp, EndOf
<1>3. CASE ~Reconcile /\ UNCHANGED <<pc, role, index>>
  <2>1. Waits(k, l, n) /\ This = k /\ (CaughtUp <=> k.offset = n)
    BY <1>1, <1>3, ReplayWaits DEF This, CaughtUp
  <2>2. n \in Nat /\ n # Unset
    BY <1>1, Sizes DEF EndOf, Unset
  <2>3. ReplayPlace /\ (k.state = "stopping" => k.offset = n)
    BY <1>1 DEF TopicInv, TopicOK
  <2>4. role = "replay"
    BY <1>3
  <2> HIDE DEF n, k, l, i
  <2>5. pc = "resume" /\ l.state \in {"STOPPED", "stopping"} => l.offset # n
    BY <2>1, <2>2, <2>3, <2>4 DEF Waits, ReplayPlace
  <2>6. pc = "patch" => l.offset = Unset
    BY <2>1, <2>2, <2>3, <2>4 DEF Waits, ReplayPlace
  <2>7. pc \in {"stop", "stopped", "retained"} => l.offset = n
    BY <2>1, <2>2, <2>3, <2>4 DEF Waits, ReplayPlace
  <2>8. pc = "retained" => l.state = "STOPPED"
    BY <2>1, <2>3, <2>4 DEF Waits, ReplayPlace
  <2> QED
    BY <1>1, <1>2, <1>3, <2>5, <2>6, <2>7, <2>8 DEF ReplayPlace
<1>4. CASE pc' \notin {"resume", "patch", "stop", "stopped", "retained"}
    BY <1>4 DEF ReplayPlace
<1>5. CASE CreateStopped
  <2>1. /\ UNCHANGED <<role, index>> /\ pc = "create"
        /\ pc' = (IF This.state = "absent" THEN "patch" ELSE "compare")
        /\ conn' = [conn EXCEPT ![role][index] =
                       IF This.state = "absent" THEN [This EXCEPT !.state = "STOPPED"] ELSE This]
    BY <1>5 DEF CreateStopped, Sets, Proceeds, Goto
  <2>2. CASE This.state = "absent"
    <3>1. \/ l = k
          \/ Handles(k, l, n)
      BY <1>1, <1>5, ReplayHandled DEF Reconcile
    <3>2. This = k /\ k = Absent
      BY <1>1, <2>1, <2>2 DEF This, ConnInv, ReplayOK
    <3>3. l.offset = Unset
      BY <2>1, <3>1, <3>2 DEF Handles, Absent
    <3> QED
      BY <1>1, <2>1, <2>2, <3>3 DEF ReplayPlace
  <2> QED
    BY <1>4, <2>1, <2>2
<1>6. CASE CompareOffsets \/ WaitOffsets \/ AwaitStopped
  <2>1. conn' = conn /\ UNCHANGED <<role, index>>
    BY <1>6
       DEF CompareOffsets, WaitOffsets, AwaitStopped, Bails, Errs, tableVars, connectVars
  <2>2. This' = This /\ CaughtUp' = CaughtUp
    BY <2>1 DEF This, CaughtUp, EndOf
  <2>3. \/ pc' = "idle"
        \/ pc \in {"compare", "catch_up"} /\ pc' = "stop" /\ CaughtUp
        \/ pc = "compare" /\ pc' = "resume" /\ ~CaughtUp
        \/ pc = "stopped" /\ pc' = "retained" /\ This.state = "STOPPED"
    BY <1>6, <2>1 DEF CompareOffsets, WaitOffsets, AwaitStopped, Proceeds, Bails, Errs, Goto
  <2>4. pc = "stopped" => CaughtUp
    BY <2>1 DEF TopicInv, ReplayPlace
  <2> QED
    BY <2>1, <2>2, <2>3, <2>4 DEF ReplayPlace
<1>7. CASE Stop
  <2>1. pc = "stop" /\ pc' = "stopped" /\ UNCHANGED <<role, index>>
    BY <1>7 DEF Stop, Proceeds, Goto
  <2>2. l = k \/ Handles(k, l, n)
    BY <1>1, <1>7, ReplayHandled DEF Reconcile
  <2>3. l.offset = k.offset
    BY <2>1, <2>2 DEF Handles
  <2>4. k.offset = n
    BY <2>1 DEF TopicInv, ReplayPlace, CaughtUp, This
  <2> QED
    BY <1>2, <2>1, <2>3, <2>4 DEF ReplayPlace
<1>8. CASE Reconcile /\ ~(CreateStopped \/ CompareOffsets \/ WaitOffsets \/ AwaitStopped \/ Stop)
  <2>1. CASE Begin \/ DestinationRows \/ MarkRestoring \/ RestoreState \/ RestoreTable
    BY <1>4, <2>1
       DEF Begin, DestinationRows, MarkRestoring, RestoreState, RestoreTable, Proceeds, Bails,
           Errs, Goto
  <2>2. CASE AwaitRestore \/ MarkReplaying \/ Copy \/ KeeperRows \/ VerifyRetained \/ Finish
    BY <1>4, <2>2
       DEF AwaitRestore, MarkReplaying, FirstStep, Copy, KeeperRows, VerifyRetained, Finish,
           Proceeds, Bails, Errs, Goto
  <2>3. CASE PatchOffsets \/ Resume \/ CheckOffsets
    <3>1. pc' \notin {"resume", "patch", "stop", "stopped", "retained"}
      BY <2>3 DEF PatchOffsets, Resume, CheckOffsets, Proceeds, Bails, Errs, Goto
    <3> QED
      BY <1>4, <3>1
  <2>4. CASE WaitRunning \/ CheckStopped
    BY <1>4, <2>4
       DEF WaitRunning, CheckStopped, Advances, FirstStep, Proceeds, Bails, Errs, Goto
  <2>5. CASE Hydrate \/ Progress
    <3>1. role = "follow"
      BY <2>5 DEF Hydrate, Progress, PlaceInv, PlaceAt
    <3>2. role' = role
      BY <2>5 DEF Hydrate, Progress, Bails, Errs
    <3> QED
      BY <3>1, <3>2
  <2> QED
    BY <1>8, <2>1, <2>2, <2>3, <2>4, <2>5 DEF Reconcile
<1>9. CASE ~Reconcile
  <2>1. CASE Fail \/ Crash
    BY <1>4, <2>1 DEF Fail, Crash, Errs, Goto
  <2>2. CASE ~(Fail \/ Crash)
    <3>1. UNCHANGED <<pc, role, index>>
      <4> USE DEF tableVars, connectVars, controllerVars
      <4> QED
        BY <1>9, <2>2
           DEF Next, Idle, Observe, RestoreEnds, Amnesia, RestoreWrites, TrimReplay, Cutover,
               Ingest, CommitOffset, TaskFails, SinkFails, TaskStops, vars
    <3> QED
      BY <1>3, <1>9, <3>1
  <2> QED
    BY <2>1, <2>2
<1> QED
    BY <1>5, <1>6, <1>7, <1>8, <1>9

LEMMA TopicNext ==
    TypeOK /\ TypeOK' /\ ConnInv /\ PlaceInv /\ TopicInv /\ mode' = mode /\ [Next]_vars
      => TopicInv'
<1> SUFFICES ASSUME TypeOK, TypeOK', ConnInv, PlaceInv, TopicInv, mode' = mode, [Next]_vars
             PROVE  TopicInv'
    OBVIOUS
<1>1. ReplayPlace'
    BY ReplayPlaceNext
<1>2. ASSUME NEW i \in Indexes PROVE TopicOK(i)'
  <2>1. TopicOK(i) /\ Replays(i)' = Replays(i) /\ TopicTypes /\ index \in Indexes
    BY TypeParts DEF TopicInv, Replays, Bounded, TypeOK
  <2>2. \/ low'[i] = low[i] /\ early'[i] = early[i]
        \/ Replays(i) /\ low[i] <= 0 /\ low'[i] = 0 /\ early'[i] = early[i]
        \/ low[i] # Unset /\ low'[i] > low[i] /\ early'[i] = (early[i] \/ ~AtRest(i))
    <3>1. CASE Copy
      <4>1. /\ early' = early
            /\ low' = low \/ (Copyable /\ low' = [low EXCEPT ![index] = 0])
            /\ Replays(index)
        BY <3>1 DEF Copy, PlaceInv, PlaceAt, ConnectorSteps
      <4> QED
        BY <2>1, <4>1 DEF TopicTypes, Copyable, Unset
    <3>2. ASSUME NEW j \in Indexes, TrimReplay(j)
          PROVE  \/ low'[i] = low[i] /\ early'[i] = early[i]
                 \/ /\ low[i] # Unset /\ low'[i] > low[i]
                    /\ early'[i] = (early[i] \/ ~AtRest(i))
      <4>1. PICK m \in low[j] + 1 .. EndOf("replay", j) : low' = [low EXCEPT ![j] = m]
        BY <3>2 DEF TrimReplay
      <4>2. low[j] # Unset /\ early' = [early EXCEPT ![j] = @ \/ ~AtRest(j)]
        BY <3>2 DEF TrimReplay
      <4>3. low[j] \in Int /\ EndOf("replay", j) \in Int
        BY <2>1, Sizes DEF TopicTypes, EndOf
      <4>4. m > low[j]
        BY <4>1, <4>3
      <4>5. IF i = j THEN early'[i] = (early[i] \/ ~AtRest(i)) ELSE early'[i] = early[i]
        BY <2>1, <4>2, Zenon DEF TopicTypes
      <4>6. IF i = j THEN low'[i] = m ELSE low'[i] = low[i]
        BY <2>1, <4>1 DEF TopicTypes
      <4> QED
        BY <4>2, <4>4, <4>5, <4>6
    <3>3. CASE UNCHANGED topicVars
      BY <3>3 DEF topicVars
    <3> QED
      BY <3>1, <3>2, <3>3, TopicsSame
  <2>3. low[i] \in Int /\ low'[i] \in Int /\ low[i] >= Unset
    BY <2>1, TypeParts, Sizes DEF TopicTypes, TypeOK, Unset
  <2>4. /\ early'[i] => low'[i] > 0
        /\ ~Replays(i) => low'[i] = Unset /\ ~early'[i]
    BY <2>1, <2>2, <2>3 DEF TopicOK, Unset
  <2>5. AtRest(i) /\ ~early[i] => AtRest(i)' /\ ~early'[i]
    BY <2>2, RestStays
  <2>6. Past(i)' => ~early'[i] /\ (Replays(i) => AtRest(i)')
    <3>1. CASE ~Replays(i)
      BY <2>4, <3>1
    <3>2. CASE Past(i) /\ Replays(i)
      BY <2>1, <2>5, <3>2 DEF TopicOK
    <3>3. CASE VerifyRetained /\ Retained /\ i = index /\ role = "replay"
      <4>1. pc = "retained" /\ low[i] = 0
        BY <3>3 DEF VerifyRetained, Retained
      <4>2. AtRest(i)
        BY <3>3, <4>1 DEF TopicInv, ReplayPlace, CaughtUp, This, AtRest
      <4>3. ~early[i]
        BY <2>1, <4>1 DEF TopicOK
      <4> QED
        BY <2>5, <4>2, <4>3
    <3> QED
      BY <3>1, <3>2, <3>3, PastNext
  <2>7. conn'["replay"][i].state = "stopping" => conn'["replay"][i].offset = EndOf("replay", i)
    BY StoppingAtEnd
  <2> QED
    BY <2>1, <2>4, <2>6, <2>7 DEF TopicOK, EndOf
<1> QED
    BY <1>1, <1>2 DEF TopicInv

-----------------------------------------------------------------------------
(* Theorems.                                                                 *)

LEMMA InitInv == Init => Inv
<1> SUFFICES ASSUME Init PROVE Inv
    OBVIOUS
<1>1. 1 \in Indexes /\ 0 \in 0 .. MaxFailures
    BY RecoveryAssumption DEF Indexes
<1>2. \A r \in Roles, i \in Indexes : conn[r][i] = Absent
    BY DEF Init
<1>3. \A r \in Roles, i \in Indexes : Absent \in Connector(EndOf(r, i))
    BY DEF Absent, Connector
<1>4. TypeOK
  <2>1. ConnTypes
    BY <1>2, <1>3 DEF ConnTypes
  <2>2. DestTypes
    BY DEF Init, DestTypes
  <2>3. LocalTypes
    BY <1>1 DEF Init, LocalTypes, Phases, Steps, Roles
  <2>4. TopicTypes
    BY DEF Init, TopicTypes, Unset
  <2> QED
    BY <2>1, <2>2, <2>3, <2>4, TypeParts
<1>5. ConnInv
  <2>1. Absent \in Records
    BY DEF Absent, Records, Unset
  <2>2. Shape
    BY <2>1 DEF Init, Shape, Records
  <2>3. ASSUME NEW i \in Indexes PROVE ReplayOK(i) /\ FollowOK(i) /\ DestOK(i)
    <3>1. /\ conn["replay"][i] = Absent /\ conn["follow"][i] = Absent
          /\ Absent.state = "absent" /\ Absent.offset = Unset /\ Absent.row = Unset
      BY <1>2 DEF Roles, Absent
    <3>2. user[i] = "waits" /\ dest[i] = {}
      BY DEF Init
    <3>3. ReplayOK(i)
      BY <3>1 DEF ReplayOK, Larger, Unset
    <3>4. FollowOK(i)
      BY <3>1, <3>2 DEF FollowOK
    <3>5. DestOK(i)
      BY <1>2, <3>2 DEF DestOK, Untouched
    <3> QED
      BY <3>3, <3>4, <3>5
  <2> QED
    BY <2>2, <2>3 DEF ConnInv, Init
<1>6. RestoreInv
    BY DEF Init, RestoreInv, Terminal, ConnectorSteps
<1>7. PlaceInv
    BY DEF Init, PlaceInv, PlaceAt, ConnectorSteps, EarlySteps
<1>8. PhaseInv
    BY DEF Init, PhaseInv, Terminal, ConnectorSteps
<1> QED
    BY <1>4, <1>5, <1>6, <1>7, <1>8 DEF Inv

LEMMA InvNext == Inv /\ [Next]_vars => Inv'
    BY TypeNext, ConnNext, RestoreNext, PlaceNext, PhaseNext DEF Inv

LEMMA InvHolds == Spec => []Inv
    BY InitInv, InvNext, PTL DEF Spec

\* Phases, steps, connectors, offsets, rows and records stay what the controller and
\* the workers can write.
THEOREM RecoveryTyped == Spec => []TypeOK
    BY InvHolds, PTL DEF Inv

\* Whatever fails, dies, is repeated or read from a cache that lags, and however
\* often, no record is inserted into the destination twice.
THEOREM NeverInsertedTwice == Spec => []InsertedOnce
<1>1. Inv => InsertedOnce
    BY DEF Inv, ConnInv, InsertedOnce
<1> QED
    BY <1>1, InvHolds, PTL

\* A follow connector runs, and a recovery ends, only where the destination holds
\* all records before the connector's position and none after it.
THEOREM FollowContinues == Spec => []FollowContinuesDestination
<1>1. Inv => FollowContinuesDestination
  <2> SUFFICES ASSUME Inv, NEW i \in Indexes,
                      conn["follow"][i].state \in {"RUNNING", "stopping"} \/ phase \in Terminal
               PROVE  /\ conn["follow"][i].offset # Unset
                      /\ dest[i] = Prefix(Position(conn["follow"][i]))
    BY DEF FollowContinuesDestination
  <2> USE DEF Inv
  <2>1. FollowOK(i) /\ conn["follow"][i].offset # Unset
    BY DEF ConnInv, FollowOK, PhaseInv
  <2>2. conn["follow"][i].state # "absent"
    BY <2>1 DEF FollowOK, Absent
  <2>3. ~Untouched
    BY <2>2 DEF Untouched, Absent, Roles
  <2>4. dest[i] = Prefix(End(i))
    BY <2>3, DestEnds
  <2>5. Position(conn["follow"][i]) = End(i)
    BY <2>1, <2>2, Positions DEF End
  <2> QED
    BY <2>1, <2>4, <2>5
<1> QED
    BY <1>1, InvHolds, PTL

\* A complete recovery is at its target, and stays there until the user resumes it.
THEOREM CompleteStaysAtTarget == Spec => []CompleteAtTarget
<1>1. Inv /\ FollowContinuesDestination => CompleteAtTarget
  <2> SUFFICES ASSUME Inv, FollowContinuesDestination, NEW i \in Indexes,
                      phase = "Complete", user[i] # "resumed"
               PROVE  /\ dest[i] = Prefix(Target[i])
                      /\ conn["follow"][i].state = "STOPPED"
                      /\ conn["follow"][i].offset = Target[i]
    BY DEF CompleteAtTarget
  <2> USE DEF Inv
  <2> DEFINE k == conn["follow"][i]
  <2>1. Bounded /\ k.offset # Unset /\ dest[i] = Prefix(Position(k))
    BY DEF PhaseInv, Terminal, FollowContinuesDestination
  <2>2. k.state = "STOPPED" /\ k.row \in {Unset, Goal(i)}
        /\ Goal(i) <= k.offset /\ k.offset <= Larger(k.row, Goal(i))
    BY <2>1 DEF ConnInv, FollowOK, Absent
  <2>3. Goal(i) = Target[i] /\ Goal(i) \in Nat
    BY <2>1, Sizes DEF Goal
  <2>4. k.offset \in Int
    BY Typed DEF Unset
  <2>5. Larger(k.row, Goal(i)) = Goal(i)
    BY <2>2, <2>3 DEF Larger, Unset
  <2>6. k.offset = Goal(i)
    BY <2>2, <2>3, <2>4, <2>5
  <2>7. Position(k) = Goal(i)
    BY <2>1, <2>5, Positions
  <2> QED
    BY <2>1, <2>2, <2>3, <2>6, <2>7
<1> QED
    BY <1>1, FollowContinues, InvHolds, PTL

\* A recovery is complete only when every replay topic was whole until its connector
\* had stopped at its end: retention that comes before the ingestion is verified fails
\* it, whatever is repeated or interrupted.
THEOREM IngestionVerified == Spec => []ReplayVerified
<1>1. Init => TopicInv
  <2> SUFFICES ASSUME Init PROVE TopicInv
    OBVIOUS
  <2>1. \A i \in Indexes : conn["replay"][i] = Absent /\ low[i] = Unset /\ ~early[i]
    BY DEF Init, Roles
  <2>2. ASSUME NEW i \in Indexes PROVE ~Past(i)
    BY DEF Init, Past, ConnectorSteps
  <2> QED
    BY <2>1, <2>2 DEF Init, TopicInv, TopicOK, ReplayPlace, Absent
<1>2. Inv /\ TopicInv /\ [Next]_vars => (Inv /\ TopicInv)'
    BY InvNext, ModeSame, TopicNext DEF Inv
<1>3. TopicInv => ReplayVerified
    BY DEF TopicInv, TopicOK, Past, ReplayVerified
<1> QED
    BY <1>1, <1>2, <1>3, InitInv, PTL DEF Spec
=============================================================================
