--------------------------- MODULE SerialCatalog ----------------------------
(***************************************************************************)
(* What the backup catalog promises (backup-procedure.md: "Holding its     *)
(* only partition serializes backup Jobs"): backups are published one      *)
(* after the other, each on top of the one before it. The current chain is *)
(* a full backup and its incrementals; the next backup extends it until    *)
(* the incremental limit is reached, and then starts a new chain.          *)
(***************************************************************************)
EXTENDS Naturals, Sequences

CONSTANTS
    Backups,         \* all backups there may be
    MaxIncrementals  \* incrementals per full backup

VARIABLES
    published,  \* every backup published so far
    chain,      \* the current chain, full backup first
    generation  \* the number of publications since the catalog was created

vars == <<published, chain, generation>>

Init ==
    /\ \/ published = {} /\ chain = <<>> /\ generation = 0
       \/ \E first \in Backups :
             published = {first} /\ chain = <<first>> /\ generation = 1

Publish(backup) ==
    /\ backup \notin published
    /\ published' = published \cup {backup}
    /\ chain' = IF Len(chain) \in 1 .. MaxIncrementals
                THEN Append(chain, backup) ELSE <<backup>>
    /\ generation' = generation + 1

Next == \E backup \in Backups : Publish(backup)

Spec == Init /\ [][Next]_vars
=============================================================================
