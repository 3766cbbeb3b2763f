----------------------------- MODULE SinkState ------------------------------
(***************************************************************************)
(* The vocabulary the backup and recovery models share: the KeeperMap row  *)
(* the exactly-once sink keeps per topic partition, the Kafka offset the   *)
(* backup derives from it, and the three per-partition tests the backup    *)
(* makes (checkpoint(), require_unchanged_keeper(), verify_watermarks()).  *)
(*                                                                         *)
(* A topic partition is one value here: its topic and number matter only   *)
(* to the key checks of checkpoint(), which Manifest.tla models.           *)
(***************************************************************************)
EXTENDS Integers

States == {"BEFORE_PROCESSING", "AFTER_PROCESSING"}

\* A row whose offsets are below limit.
KeeperRow(limit) == [min : 0 .. limit - 1, max : 0 .. limit - 1, state : States]

\* No row for the partition. Its max makes the derived offset 0.
NoRow == [min |-> 0, max |-> -1, state |-> "NONE"]

Row(min, max, state) == [min |-> min, max |-> max, state |-> state]

\* The exact next input offset: maxOffset + 1, or 0 without a row.
NextOffset(row) == row.max + 1

\* The offsets below n: what a table holds when n is its exact next offset.
Prefix(n) == 0 .. n - 1

\* Mutant of Accepts: the state of the row is not looked at.
AcceptsUnfinished(row, observed) == observed <= NextOffset(row)

\* The row is finished and Connect has not committed past it.
Accepts(row, observed) ==
    /\ row.state \in {"NONE", "AFTER_PROCESSING"}
    /\ observed <= NextOffset(row)

\* Mutant of InsideLog: log start is not compared.
BelowLogEnd(offset, low, high) == low <= high /\ offset <= high

\* The offset is still in the log, whose end counts as present.
InsideLog(offset, low, high) == low <= offset /\ offset <= high
=============================================================================
